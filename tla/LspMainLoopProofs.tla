-------------------------- MODULE LspMainLoopProofs --------------------------
(***************************************************************************)
(* Proofs about LspMainLoop, for every set of requests and every bound on  *)
(* the notifications: a request reaches the main loop after the            *)
(* notifications that preceded it, and the freshness verdict on its answer *)
(* is sound although it is taken on another thread than the one that       *)
(* changes the world.                                                      *)
(***************************************************************************)
EXTENDS LspMainLoop, TLAPS

-----------------------------------------------------------------------------
(* The inductive invariant *)

\* The channel holds the notifications in the order in which the barrier
\* numbered them, all of them past its position.
NotesInOrder ==
    \A i \in DOMAIN events : IsNote(events[i]) =>
        /\ events[i].seq > processed
        /\ \A j \in DOMAIN events : (IsNote(events[j]) /\ i < j) => events[i].seq < events[j].seq

\* A notification in the channel is later than every document version in use.
NotesAreNew ==
    \A i \in DOMAIN events : IsNote(events[i]) =>
        /\ events[i].seq > world.doc
        /\ \A r \in Requests : events[i].seq > snapshot[r].doc

\* A request, and the end of its bootstrap, are in the channel at most once and
\* only while the request waits for the loop to take them out.
OneEventPerRequest ==
    \A i \in DOMAIN events : \A r \in Requests :
        /\ events[i] = Ask(r) =>
              pc[r] = "sent" /\ \A j \in DOMAIN events : events[j] = Ask(r) => i = j
        /\ events[i] = Finished(r) =>
              pc[r] = "hydrated" /\ \A j \in DOMAIN events : events[j] = Finished(r) => i = j

\* Between two events the published world is the loop's own.
PublishedWhenIdle == loop = "idle" => latest = world

\* The published world is behind the loop's by one event at most, and no running
\* handler has seen more than it.
SnapshotsAreOlder ==
    /\ latest.generation <= world.generation
    /\ \A r \in Requests : pc[r] = "running" =>
          /\ snapshot[r].generation <= latest.generation
          /\ (snapshot[r].doc # 0 /\ snapshot[r].doc = world.doc) => latest.doc = world.doc

IInv == /\ TypeOK /\ NotesInOrder /\ NotesAreNew /\ OneEventPerRequest
        /\ PublishedWhenIdle /\ SnapshotsAreOlder /\ EarlierNotificationsHandled

-----------------------------------------------------------------------------
(* Events and the channel *)

\* The kinds of events are told apart, and an event names its request.
LEMMA EventFacts ==
    /\ \A n, k : IsNote(Note(n, k)) /\ Note(n, k).seq = n
    /\ \A r : ~IsNote(Ask(r)) /\ ~IsNote(Finished(r))
    /\ \A r, s : Ask(r) = Ask(s) => r = s
    /\ \A r, s : Finished(r) = Finished(s) => r = s
    /\ \A r, s : Ask(r) # Finished(s)
    /\ \A r, n, k : Note(n, k) # Ask(r) /\ Note(n, k) # Finished(r)
<1>1. \A n, k : IsNote(Note(n, k)) /\ Note(n, k).seq = n
  BY DEF IsNote, Note
<1>2. \A r : ~IsNote(Ask(r)) /\ ~IsNote(Finished(r))
  BY DEF IsNote, Ask, Finished
<1>3. \A r, s : Ask(r) = Ask(s) => r = s
  <2> TAKE r, s
  <2>1. Ask(r).request = r /\ Ask(s).request = s
    BY DEF Ask
  <2> QED BY <2>1
<1>4. \A r, s : Finished(r) = Finished(s) => r = s
  <2> TAKE r, s
  <2>1. Finished(r).bootstrapped = r /\ Finished(s).bootstrapped = s
    BY DEF Finished
  <2> QED BY <2>1
<1>5. \A r, s : Ask(r) # Finished(s)
  <2> TAKE r, s
  <2>1. DOMAIN Ask(r) = {"request"} /\ DOMAIN Finished(s) = {"bootstrapped"}
    BY DEF Ask, Finished
  <2> QED BY <2>1
<1> QED BY <1>1, <1>2, <1>3, <1>4, <1>5

\* What a note in the channel carries.
LEMMA NoteType ==
    ASSUME NEW q \in Nat, NEW e \in Events(q), IsNote(e)
    PROVE  e.seq \in 1..q /\ e.kind \in Kinds
<1>1. CASE e \in [seq : 1..q, kind : Kinds]
  BY <1>1
<1>2. CASE e \in [request : Requests]
  BY <1>2 DEF IsNote
<1>3. CASE e \in [bootstrapped : Requests]
  BY <1>3 DEF IsNote
<1> QED BY <1>1, <1>2, <1>3 DEF Events

LEMMA EventsGrow ==
    ASSUME NEW q \in Nat, NEW p \in Nat, q <= p
    PROVE  Events(q) \subseteq Events(p)
<1>1. 1..q \subseteq 1..p
  OBVIOUS
<1>2. [seq : 1..q, kind : Kinds] \subseteq [seq : 1..p, kind : Kinds]
  BY <1>1
<1> QED BY <1>2 DEF Events

\* The loop takes the first event: the others move up.
LEMMA TakeEvent ==
    ASSUME TypeOK, events # <<>>, events' = Tail(events)
    PROVE  /\ events' \in Seq(Events(queued))
           /\ 1 \in DOMAIN events /\ Head(events) = events[1] /\ events[1] \in Events(queued)
           /\ \A i \in DOMAIN events' :
                 i \in Nat /\ i > 0 /\ i + 1 \in DOMAIN events /\ events'[i] = events[i + 1]
  BY DEF TypeOK

\* A sender adds an event behind the others.
LEMMA AddEvent ==
    ASSUME NEW p, events \in Seq(Events(p)), NEW e \in Events(p), events' = Append(events, e)
    PROVE  /\ events' \in Seq(Events(p))
           /\ \A i \in DOMAIN events : i \in Nat /\ i < Len(events) + 1
           /\ \A i \in DOMAIN events' :
                 \/ i \in DOMAIN events /\ events'[i] = events[i]
                 \/ i = Len(events) + 1 /\ events'[i] = e
<1>1. events' \in Seq(Events(p)) /\ Len(events') = Len(events) + 1 /\ Len(events) \in Nat
  OBVIOUS
<1>2. DOMAIN events = 1..Len(events) /\ DOMAIN events' = 1..Len(events')
  BY <1>1
<1>3. \A i \in 1..Len(events') : events'[i] = IF i <= Len(events) THEN events[i] ELSE e
  OBVIOUS
<1> QED BY <1>1, <1>2, <1>3

-----------------------------------------------------------------------------
(* Steps that leave the channel and the loop's world alone *)

\* What a request that is not in the channel may do: move to a location where
\* it has not run yet, or to an answer.
LEMMA PcStep ==
    ASSUME TypeOK, NEW r \in Requests, NEW l \in Locations, pc' = [pc EXCEPT ![r] = l]
    PROVE  /\ pc' \in [Requests -> Locations]
           /\ pc'[r] = l
           /\ \A s \in Requests : s # r => pc'[s] = pc[s]
  BY DEF TypeOK

LEMMA RequestStep ==
    ASSUME IInv, NEW r \in Requests, Request(r)
    PROVE  IInv'
<1> USE DEF IInv
<1>u. UNCHANGED <<queued, processed, events, world, latest, loop, snapshot, crashed>>
  BY DEF Request, barrierVars, worldVars
<1>p. PICK l \in {"disabled", "check"} : pc' = [pc EXCEPT ![r] = l]
  BY DEF Request
<1>i. pc[r] = "idle"
  BY DEF Request
<1>q. pc' \in [Requests -> Locations] /\ pc'[r] = l /\ \A s \in Requests : s # r => pc'[s] = pc[s]
  BY <1>p, PcStep DEF Locations, Before, Answers
<1>t. target' \in [Requests -> 0..queued] /\ \A s \in Requests : s # r => target'[s] = target[s]
  BY DEF Request, TypeOK
<1>1. TypeOK'
  BY <1>u, <1>q, <1>t DEF TypeOK
<1>2. NotesInOrder' /\ NotesAreNew' /\ PublishedWhenIdle'
  BY <1>u DEF NotesInOrder, NotesAreNew, PublishedWhenIdle
<1>3. OneEventPerRequest'
  BY <1>u, <1>q, <1>i DEF OneEventPerRequest
<1>4. SnapshotsAreOlder'
  BY <1>u, <1>q DEF SnapshotsAreOlder
<1>5. EarlierNotificationsHandled'
  BY <1>u, <1>q, <1>t DEF EarlierNotificationsHandled, Before
<1> QED BY <1>1, <1>2, <1>3, <1>4, <1>5

LEMMA ArmStep ==
    ASSUME IInv, NEW r \in Requests, Arm(r) \/ (WaitFor(r) /\ ~Passed(r))
    PROVE  IInv'
<1> USE DEF IInv
<1>u. UNCHANGED <<queued, processed, events, world, latest, loop, target, snapshot, crashed>>
  BY DEF Arm, WaitFor, barrierVars, worldVars
<1>p. PICK l \in {"arm", "asleep"} : pc' = [pc EXCEPT ![r] = l]
  BY DEF Arm, WaitFor
<1>i. pc[r] \in {"check", "arm"}
  BY DEF Arm, WaitFor
<1>q. pc' \in [Requests -> Locations] /\ pc'[r] = l /\ \A s \in Requests : s # r => pc'[s] = pc[s]
  BY <1>p, PcStep DEF Locations, Before
<1>1. TypeOK'
  BY <1>u, <1>q DEF TypeOK
<1>2. NotesInOrder' /\ NotesAreNew' /\ PublishedWhenIdle'
  BY <1>u DEF NotesInOrder, NotesAreNew, PublishedWhenIdle
<1>3. OneEventPerRequest'
  BY <1>u, <1>q, <1>i DEF OneEventPerRequest
<1>4. SnapshotsAreOlder'
  BY <1>u, <1>q DEF SnapshotsAreOlder
<1>5. EarlierNotificationsHandled'
  BY <1>u, <1>q DEF EarlierNotificationsHandled, Before
<1> QED BY <1>1, <1>2, <1>3, <1>4, <1>5

\* A handler answers or panics.
LEMMA AnswerStep ==
    ASSUME IInv, NEW r \in Requests, Respond(r) \/ Panic(r)
    PROVE  IInv'
<1> USE DEF IInv
<1>u. UNCHANGED <<queued, processed, events, world, latest, loop, target, snapshot>>
  BY DEF Respond, Panic, barrierVars, worldVars
<1>p. PICK l \in Answers : pc' = [pc EXCEPT ![r] = l]
  BY DEF Respond, Panic, Answers
<1>i. pc[r] = "running"
  BY DEF Respond, Panic
<1>q. pc' \in [Requests -> Locations] /\ pc'[r] = l /\ \A s \in Requests : s # r => pc'[s] = pc[s]
  BY <1>p, PcStep DEF Locations
<1>c. crashed' \in BOOLEAN
  BY DEF Respond, Panic, TypeOK
<1>1. TypeOK'
  BY <1>u, <1>q, <1>c DEF TypeOK
<1>2. NotesInOrder' /\ NotesAreNew' /\ PublishedWhenIdle'
  BY <1>u DEF NotesInOrder, NotesAreNew, PublishedWhenIdle
<1>3. OneEventPerRequest'
  BY <1>u, <1>q, <1>i DEF OneEventPerRequest
<1>4. SnapshotsAreOlder'
  BY <1>u, <1>q DEF SnapshotsAreOlder, Answers
<1>5. EarlierNotificationsHandled'
  BY <1>u, <1>q, <1>i DEF EarlierNotificationsHandled, Before
<1> QED BY <1>1, <1>2, <1>3, <1>4, <1>5

\* The loop publishes its world.
LEMMA StoreStep ==
    ASSUME IInv, StoreLatestWorldState
    PROVE  IInv'
<1> USE DEF IInv
<1>u. UNCHANGED <<queued, processed, events, world, pc, target, snapshot, crashed>>
  BY DEF StoreLatestWorldState, barrierVars, requestVars
<1>l. latest' = world /\ loop' = "idle"
  BY DEF StoreLatestWorldState
<1>1. TypeOK'
  BY <1>u, <1>l DEF TypeOK
<1>2. NotesInOrder' /\ NotesAreNew' /\ PublishedWhenIdle'
  BY <1>u, <1>l DEF NotesInOrder, NotesAreNew, PublishedWhenIdle
<1>3. OneEventPerRequest' /\ EarlierNotificationsHandled'
  BY <1>u DEF OneEventPerRequest, EarlierNotificationsHandled
<1>4. SnapshotsAreOlder'
  <2>1. world.generation \in Nat /\ latest.generation \in Nat
        /\ \A r \in Requests : snapshot[r].generation \in Nat
    BY DEF TypeOK, Worlds
  <2> QED BY <2>1, <1>u, <1>l DEF SnapshotsAreOlder
<1> QED BY <1>1, <1>2, <1>3, <1>4

-----------------------------------------------------------------------------
(* Steps that add to the channel *)

\* What the types say of the notes in the channel.
LEMMA NotesInChannel ==
    ASSUME TypeOK
    PROVE  /\ queued \in Nat /\ processed \in Nat /\ events \in Seq(Events(queued))
           /\ \A i \in DOMAIN events : i \in Nat
           /\ \A i \in DOMAIN events : IsNote(events[i]) =>
                 events[i].seq \in 1..queued /\ events[i].kind \in Kinds
<1>1. queued \in Nat /\ processed \in Nat /\ events \in Seq(Events(queued))
  BY LoopAssumption DEF TypeOK
<1>2. \A i \in DOMAIN events : i \in Nat /\ events[i] \in Events(queued)
  BY <1>1
<1> QED BY <1>1, <1>2, NoteType

\* The editor's notification gets the next number, beyond every position and
\* every document version there is.
LEMMA NotifyStep ==
    ASSUME IInv, NEW k \in Kinds, Notify(k)
    PROVE  IInv'
<1> USE DEF IInv
<1> DEFINE e == Note(queued + 1, k)
<1>u. UNCHANGED <<processed, world, latest, loop, pc, target, snapshot, crashed>>
  BY DEF Notify, worldVars, requestVars
<1>q. queued' = queued + 1 /\ queued < MaxNotifications /\ events' = Append(events, e)
  BY DEF Notify
<1>n. /\ queued \in Nat /\ processed \in Nat /\ processed <= queued
      /\ \A i \in DOMAIN events : IsNote(events[i]) => events[i].seq \in 1..queued
  BY NotesInChannel DEF TypeOK
<1>e. /\ IsNote(e) /\ e.seq = queued + 1 /\ \A r : e # Ask(r) /\ e # Finished(r)
  BY EventFacts
<1>t. e \in Events(queued') /\ events \in Seq(Events(queued'))
  <2>1. e \in [seq : 1..(queued + 1), kind : Kinds]
    BY <1>n DEF Note
  <2>2. Events(queued) \subseteq Events(queued + 1)
    BY <1>n, EventsGrow
  <2>3. events \in Seq(Events(queued + 1))
    BY <2>2, NotesInChannel
  <2> QED BY <2>1, <2>3, <1>q DEF Events
<1> HIDE DEF e
<1>a. /\ events' \in Seq(Events(queued'))
      /\ \A i \in DOMAIN events : i \in Nat /\ i < Len(events) + 1
      /\ \A i \in DOMAIN events' :
            \/ i \in DOMAIN events /\ events'[i] = events[i]
            \/ i = Len(events) + 1 /\ events'[i] = e
  BY <1>t, <1>q, AddEvent
<1>1. TypeOK'
  <2>1. queued' \in 0..MaxNotifications /\ processed' \in 0..queued'
    BY <1>u, <1>q, <1>n, LoopAssumption
  <2>2. Worlds(queued) \subseteq Worlds(queued')
    BY <1>q, <1>n DEF Worlds
  <2>3. target' \in [Requests -> 0..queued']
    BY <1>u, <1>q, <1>n DEF TypeOK
  <2> QED BY <2>1, <2>2, <2>3, <1>u, <1>a DEF TypeOK
<1>2. NotesInOrder'
  <2>l. Len(events) \in Nat
    BY DEF TypeOK
  <2> QED BY <1>u, <1>a, <1>e, <1>n, <1>q, <2>l DEF NotesInOrder
<1>3. NotesAreNew'
  <2>1. world.doc \in 0..queued /\ \A r \in Requests : snapshot[r].doc \in 0..queued
    BY DEF TypeOK, Worlds
  <2> QED BY <2>1, <1>u, <1>a, <1>e, <1>n DEF NotesAreNew
<1>4. OneEventPerRequest'
  BY <1>u, <1>a, <1>e DEF OneEventPerRequest
<1>5. PublishedWhenIdle' /\ SnapshotsAreOlder'
  BY <1>u DEF PublishedWhenIdle, SnapshotsAreOlder
<1>6. EarlierNotificationsHandled'
  <2>1. \A r \in Requests : target[r] \in 0..queued
    BY DEF TypeOK
  <2> QED BY <2>1, <1>u, <1>a, <1>e, <1>n DEF EarlierNotificationsHandled
<1> QED BY <1>1, <1>2, <1>3, <1>4, <1>5, <1>6

\* An event that is no note leaves what is known of the notes as it is.
LEMMA OtherEventAdded ==
    ASSUME IInv, NEW e \in Events(queued), ~IsNote(e), events' = Append(events, e),
           UNCHANGED <<queued, processed, world, latest, loop, target, snapshot, crashed>>
    PROVE  /\ NotesInOrder' /\ NotesAreNew' /\ PublishedWhenIdle'
           /\ events' \in Seq(Events(queued'))
           /\ \A i \in DOMAIN events' :
                 \/ i \in DOMAIN events /\ events'[i] = events[i]
                 \/ i = Len(events) + 1 /\ events'[i] = e
<1> USE DEF IInv
<1>a. /\ events' \in Seq(Events(queued))
      /\ \A i \in DOMAIN events' :
            \/ i \in DOMAIN events /\ events'[i] = events[i]
            \/ i = Len(events) + 1 /\ events'[i] = e
  BY NotesInChannel, AddEvent
<1>1. NotesInOrder'
  BY <1>a DEF NotesInOrder
<1>2. NotesAreNew'
  BY <1>a DEF NotesAreNew
<1>3. PublishedWhenIdle'
  BY DEF PublishedWhenIdle
<1> QED BY <1>a, <1>1, <1>2, <1>3

LEMMA WaitForStep ==
    ASSUME IInv, NEW r \in Requests, WaitFor(r), Passed(r)
    PROVE  IInv'
<1> USE DEF IInv
<1>u. UNCHANGED <<queued, processed, world, latest, loop, target, snapshot, crashed>>
  BY DEF WaitFor, barrierVars, worldVars
<1>p. pc' = [pc EXCEPT ![r] = "sent"] /\ events' = Append(events, Ask(r)) /\ pc[r] = "check"
  BY DEF WaitFor
<1>q. pc' \in [Requests -> Locations] /\ pc'[r] = "sent" /\ \A s \in Requests : s # r => pc'[s] = pc[s]
  BY <1>p, PcStep DEF Locations
<1>e. Ask(r) \in Events(queued) /\ ~IsNote(Ask(r))
  BY EventFacts DEF Events, Ask
<1>a. /\ NotesInOrder' /\ NotesAreNew' /\ PublishedWhenIdle'
      /\ events' \in Seq(Events(queued'))
      /\ \A i \in DOMAIN events' :
            \/ i \in DOMAIN events /\ events'[i] = events[i]
            \/ i = Len(events) + 1 /\ events'[i] = Ask(r)
  BY <1>u, <1>p, <1>e, OtherEventAdded
<1>1. TypeOK'
  BY <1>u, <1>q, <1>a DEF TypeOK
<1>2. OneEventPerRequest'
  <2>1. \A i \in DOMAIN events : events[i] # Ask(r)
    BY <1>p DEF OneEventPerRequest
  <2>2. ASSUME NEW i \in DOMAIN events', NEW s \in Requests, events'[i] = Ask(s)
        PROVE  pc'[s] = "sent" /\ \A j \in DOMAIN events' : events'[j] = Ask(s) => i = j
    <3>1. CASE s = r
      BY <2>1, <2>2, <3>1, <1>q, <1>a
    <3>2. CASE s # r
      <4>1. Ask(r) # Ask(s)
        BY <3>2, EventFacts
      <4> QED BY <4>1, <3>2, <2>2, <1>q, <1>a DEF OneEventPerRequest
    <3> QED BY <3>1, <3>2
  <2>3. ASSUME NEW i \in DOMAIN events', NEW s \in Requests, events'[i] = Finished(s)
        PROVE  pc'[s] = "hydrated" /\ \A j \in DOMAIN events' : events'[j] = Finished(s) => i = j
    <3>1. Ask(r) # Finished(s)
      BY EventFacts
    <3>2. pc[s] = "hydrated" /\ s # r
      BY <3>1, <2>3, <1>a, <1>p DEF OneEventPerRequest
    <3> QED BY <3>1, <3>2, <2>3, <1>q, <1>a DEF OneEventPerRequest
  <2> QED BY <2>2, <2>3 DEF OneEventPerRequest
<1>3. SnapshotsAreOlder'
  BY <1>u, <1>q DEF SnapshotsAreOlder
<1>4. EarlierNotificationsHandled'
  <2>1. \A i \in DOMAIN events : IsNote(events[i]) => events[i].seq > target[r]
    <3>1. processed >= target[r] /\ processed \in Nat /\ target[r] \in Nat
      BY LoopAssumption DEF Passed, TypeOK
    <3> QED BY <3>1, NotesInChannel DEF NotesInOrder
  <2> QED BY <2>1, <1>u, <1>q, <1>a, <1>e DEF EarlierNotificationsHandled
<1> QED BY <1>1, <1>2, <1>3, <1>4, <1>a

LEMMA HydrateStep ==
    ASSUME IInv, NEW r \in Requests, Hydrate(r)
    PROVE  IInv'
<1> USE DEF IInv
<1>u. UNCHANGED <<queued, processed, world, latest, loop, target, snapshot, crashed>>
  BY DEF Hydrate, barrierVars, worldVars
<1>p. pc' = [pc EXCEPT ![r] = "hydrated"] /\ events' = Append(events, Finished(r)) /\ pc[r] = "hydrating"
  BY DEF Hydrate
<1>q. pc' \in [Requests -> Locations] /\ pc'[r] = "hydrated" /\ \A s \in Requests : s # r => pc'[s] = pc[s]
  BY <1>p, PcStep DEF Locations
<1>e. Finished(r) \in Events(queued) /\ ~IsNote(Finished(r))
  BY EventFacts DEF Events, Finished
<1>a. /\ NotesInOrder' /\ NotesAreNew' /\ PublishedWhenIdle'
      /\ events' \in Seq(Events(queued'))
      /\ \A i \in DOMAIN events' :
            \/ i \in DOMAIN events /\ events'[i] = events[i]
            \/ i = Len(events) + 1 /\ events'[i] = Finished(r)
  BY <1>u, <1>p, <1>e, OtherEventAdded
<1>1. TypeOK'
  BY <1>u, <1>q, <1>a DEF TypeOK
<1>2. OneEventPerRequest'
  <2>1. \A i \in DOMAIN events : events[i] # Finished(r)
    BY <1>p DEF OneEventPerRequest
  <2>2. ASSUME NEW i \in DOMAIN events', NEW s \in Requests, events'[i] = Finished(s)
        PROVE  pc'[s] = "hydrated" /\ \A j \in DOMAIN events' : events'[j] = Finished(s) => i = j
    <3>1. CASE s = r
      BY <2>1, <2>2, <3>1, <1>q, <1>a
    <3>2. CASE s # r
      <4>1. Finished(r) # Finished(s)
        BY <3>2, EventFacts
      <4> QED BY <4>1, <3>2, <2>2, <1>q, <1>a DEF OneEventPerRequest
    <3> QED BY <3>1, <3>2
  <2>3. ASSUME NEW i \in DOMAIN events', NEW s \in Requests, events'[i] = Ask(s)
        PROVE  pc'[s] = "sent" /\ \A j \in DOMAIN events' : events'[j] = Ask(s) => i = j
    <3>1. Finished(r) # Ask(s)
      BY EventFacts
    <3>2. pc[s] = "sent" /\ s # r
      BY <3>1, <2>3, <1>a, <1>p DEF OneEventPerRequest
    <3> QED BY <3>1, <3>2, <2>3, <1>q, <1>a DEF OneEventPerRequest
  <2> QED BY <2>2, <2>3 DEF OneEventPerRequest
<1>3. SnapshotsAreOlder'
  BY <1>u, <1>q DEF SnapshotsAreOlder
<1>4. EarlierNotificationsHandled'
  BY <1>u, <1>p, <1>q, <1>a, <1>e DEF EarlierNotificationsHandled, Before
<1> QED BY <1>1, <1>2, <1>3, <1>4, <1>a

-----------------------------------------------------------------------------
(* Steps of the main loop that take an event from the channel *)

\* A request's own event is the only one in the channel: what stays is about
\* the other requests and about notes.
LEMMA RequestTaken ==
    ASSUME IInv, NEW r \in Requests, events # <<>>, events' = Tail(events),
           \/ Head(events) = Ask(r)
           \/ Head(events) = Finished(r),
           UNCHANGED <<queued, processed, target>>,
           \A s \in Requests : s # r => pc'[s] = pc[s]
    PROVE  /\ events' \in Seq(Events(queued')) /\ NotesInOrder' /\ OneEventPerRequest'
           /\ EarlierNotificationsHandled'
           /\ pc[r] = IF Head(events) = Ask(r) THEN "sent" ELSE "hydrated"
           /\ \A i \in DOMAIN events' : \E j \in DOMAIN events : events'[i] = events[j]
<1> USE DEF IInv
<1>t. /\ events' \in Seq(Events(queued))
      /\ 1 \in DOMAIN events /\ Head(events) = events[1]
      /\ \A i \in DOMAIN events' :
            i \in Nat /\ i > 0 /\ i + 1 \in DOMAIN events /\ events'[i] = events[i + 1]
  BY TakeEvent
<1>p. pc[r] = IF Head(events) = Ask(r) THEN "sent" ELSE "hydrated"
  BY <1>t DEF OneEventPerRequest
<1>1. NotesInOrder'
  BY <1>t DEF NotesInOrder
<1>2. \A i \in DOMAIN events' : events'[i] # Ask(r) /\ events'[i] # Finished(r)
  <2> SUFFICES ASSUME NEW i \in DOMAIN events', events'[i] = Ask(r) \/ events'[i] = Finished(r)
               PROVE  FALSE
    OBVIOUS
  <2>1. i + 1 \in DOMAIN events /\ events'[i] = events[i + 1] /\ i + 1 # 1
    BY <1>t
  <2>2. CASE Head(events) = Ask(r)
    BY <2>1, <2>2, <1>t, <1>p DEF OneEventPerRequest
  <2>3. CASE Head(events) = Finished(r)
    <3>1. Head(events) # Ask(r)
      BY <2>3, EventFacts
    <3> QED BY <2>1, <2>3, <3>1, <1>t, <1>p DEF OneEventPerRequest
  <2> QED BY <2>2, <2>3
<1>3. OneEventPerRequest'
  BY <1>t, <1>2 DEF OneEventPerRequest
<1>4. EarlierNotificationsHandled'
  BY <1>t, <1>p DEF EarlierNotificationsHandled, Before
<1> QED BY <1>t, <1>p, <1>1, <1>3, <1>4

\* A handler starts on a copy of the world, which is the published one then.
LEMMA SpawnStep ==
    ASSUME IInv, NEW r \in Requests, SpawnHandler(r)
    PROVE  IInv'
<1> USE DEF IInv
<1>u. /\ UNCHANGED <<queued, processed, latest, target, world, crashed>>
      /\ loop = "idle" /\ loop' = "store"
      /\ events # <<>> /\ Head(events) = Ask(r) /\ events' = Tail(events)
  BY DEF SpawnHandler, NextRequest, barrierVars
<1>p. pc' = [pc EXCEPT ![r] = "running"]
  BY DEF SpawnHandler
<1>q. pc' \in [Requests -> Locations] /\ pc'[r] = "running" /\ \A s \in Requests : s # r => pc'[s] = pc[s]
  BY <1>p, PcStep DEF Locations
<1>t. /\ events' \in Seq(Events(queued')) /\ NotesInOrder' /\ OneEventPerRequest'
      /\ EarlierNotificationsHandled'
      /\ \A i \in DOMAIN events' : \E j \in DOMAIN events : events'[i] = events[j]
  BY <1>u, <1>q, RequestTaken
<1>w. world \in Worlds(queued) /\ latest = world
  BY <1>u DEF PublishedWhenIdle, TypeOK
<1>d. PICK d \in {0, world.doc} : snapshot' = [snapshot EXCEPT ![r] = [world EXCEPT !.doc = d]]
  BY DEF SpawnHandler
<1>x. queued \in Nat
  BY NotesInChannel
<1>s. /\ snapshot' \in [Requests -> Worlds(queued)]
      /\ snapshot'[r].doc = d /\ snapshot'[r].generation = world.generation
      /\ \A s \in Requests : s # r => snapshot'[s] = snapshot[s]
  <2>1. [world EXCEPT !.doc = d] \in Worlds(queued)
    BY <1>w, <1>x DEF Worlds
  <2> QED BY <1>d, <1>w, <2>1 DEF TypeOK, Worlds
<1>1. TypeOK'
  BY <1>u, <1>q, <1>s, <1>t DEF TypeOK
<1>2. NotesAreNew'
  <2>1. \A i \in DOMAIN events : IsNote(events[i]) => events[i].seq \in Nat /\ events[i].seq > 0
    BY NotesInChannel
  <2> QED BY <1>u, <1>t, <1>s, <2>1 DEF NotesAreNew
<1>3. PublishedWhenIdle'
  BY <1>u DEF PublishedWhenIdle
<1>4. SnapshotsAreOlder'
  <2>1. world.generation \in Nat
    BY <1>w DEF Worlds
  <2> QED BY <1>u, <1>q, <1>s, <1>w, <2>1 DEF SnapshotsAreOlder
<1> QED BY <1>1, <1>2, <1>3, <1>4, <1>t

LEMMA InlineStep ==
    ASSUME IInv, NEW r \in Requests, RespondInline(r) \/ FinishSessionBootstrap(r)
    PROVE  IInv'
<1> USE DEF IInv
<1>u. /\ UNCHANGED <<queued, processed, latest, target, world, snapshot>>
      /\ loop = "idle" /\ loop' \in {"idle", "store"}
      /\ events # <<>> /\ events' = Tail(events)
      /\ Head(events) = Ask(r) \/ Head(events) = Finished(r)
  BY DEF RespondInline, FinishSessionBootstrap, NextRequest, barrierVars, worldVars
<1>p. PICK l \in {"ok", "error", "crashed", "stale"} : pc' = [pc EXCEPT ![r] = l]
  BY DEF RespondInline, FinishSessionBootstrap
<1>q. pc' \in [Requests -> Locations] /\ pc'[r] = l /\ \A s \in Requests : s # r => pc'[s] = pc[s]
  BY <1>p, PcStep DEF Locations, Answers
<1>t. /\ events' \in Seq(Events(queued')) /\ NotesInOrder' /\ OneEventPerRequest'
      /\ EarlierNotificationsHandled'
      /\ \A i \in DOMAIN events' : \E j \in DOMAIN events : events'[i] = events[j]
  BY <1>u, <1>q, RequestTaken
<1>c. crashed' \in BOOLEAN
  <2>1. CASE RespondInline(r)
    <3>1. \E answer : crashed' = (crashed \/ answer = "crashed")
      BY <2>1 DEF RespondInline
    <3> QED BY <3>1, Zenon
  <2>2. CASE FinishSessionBootstrap(r)
    BY <2>2 DEF FinishSessionBootstrap, TypeOK
  <2> QED BY <2>1, <2>2
<1>1. TypeOK'
  BY <1>u, <1>q, <1>c, <1>t DEF TypeOK
<1>2. NotesAreNew'
  BY <1>u, <1>t DEF NotesAreNew
<1>3. PublishedWhenIdle'
  BY <1>u DEF PublishedWhenIdle
<1>4. SnapshotsAreOlder'
  BY <1>u, <1>q DEF SnapshotsAreOlder
<1> QED BY <1>1, <1>2, <1>3, <1>4, <1>t

LEMMA BootstrapStep ==
    ASSUME IInv, NEW r \in Requests, BootstrapSession(r)
    PROVE  IInv'
<1> USE DEF IInv
<1>u. /\ UNCHANGED <<queued, processed, latest, target, crashed>>
      /\ loop = "idle" /\ loop' = "store"
      /\ events # <<>> /\ Head(events) = Ask(r) /\ events' = Tail(events)
  BY DEF BootstrapSession, NextRequest, barrierVars
<1>p. PICK l \in {"ok", "hydrating"} : pc' = [pc EXCEPT ![r] = l]
  BY DEF BootstrapSession
<1>q. pc' \in [Requests -> Locations] /\ pc'[r] = l /\ \A s \in Requests : s # r => pc'[s] = pc[s]
  BY <1>p, PcStep DEF Locations, Answers
<1>t. /\ events' \in Seq(Events(queued')) /\ NotesInOrder' /\ OneEventPerRequest'
      /\ EarlierNotificationsHandled'
      /\ \A i \in DOMAIN events' : \E j \in DOMAIN events : events'[i] = events[j]
  BY <1>u, <1>q, RequestTaken
<1>l. world \in Worlds(queued) /\ latest = world /\ queued \in Nat
  BY <1>u, NotesInChannel DEF PublishedWhenIdle, TypeOK
<1>w. world' \in Worlds(queued) /\ world'.doc = world.doc /\ world'.generation = world.generation + 1
  BY <1>l DEF BootstrapSession, Worlds
<1>s. /\ snapshot' \in [Requests -> Worlds(queued)]
      /\ snapshot'[r].doc = 0
      /\ \A s \in Requests : s # r => snapshot'[s] = snapshot[s]
  <2> DEFINE w == [doc |-> 0, generation |-> world.generation + 1]
  <2>1. w \in Worlds(queued) /\ w.doc = 0
    BY <1>l DEF Worlds
  <2>2. snapshot' = [snapshot EXCEPT ![r] = w]
    BY DEF BootstrapSession
  <2> HIDE DEF w
  <2> QED BY <2>1, <2>2 DEF TypeOK
<1>1. TypeOK'
  BY <1>u, <1>q, <1>s, <1>t, <1>w DEF TypeOK
<1>2. NotesAreNew'
  <2>1. \A i \in DOMAIN events : IsNote(events[i]) => events[i].seq \in Nat /\ events[i].seq > 0
    BY NotesInChannel
  <2> QED BY <1>t, <1>s, <1>w, <2>1 DEF NotesAreNew
<1>3. PublishedWhenIdle'
  BY <1>u DEF PublishedWhenIdle
<1>4. SnapshotsAreOlder'
  <2>1. world.generation \in Nat
    BY <1>l DEF Worlds
  <2> QED BY <1>u, <1>q, <1>s, <1>w, <1>l, <2>1 DEF SnapshotsAreOlder
<1> QED BY <1>1, <1>2, <1>3, <1>4, <1>t

\* What a notification may do to the world: set the document to its own number,
\* close it, or move the generation; a failing one does nothing.
LEMMA EffectFacts ==
    ASSUME NEW q \in Nat, NEW w \in Worlds(q), NEW n \in 1..q, NEW k \in Kinds
    PROVE  /\ Effect(w, n, k) \in Worlds(q)
           /\ Effect(w, n, k).doc \in {0, n, w.doc}
           /\ Effect(w, n, k).generation \in Nat
           /\ Effect(w, n, k).generation >= w.generation
           /\ (k = "badSession" \/ (k \in {"change", "close"} /\ w.doc = 0)) => Effect(w, n, k) = w
<1>0. w.doc \in 0..q /\ w.generation \in Nat
  BY DEF Worlds
<1>1. CASE k = "open"
  <2>1. Effect(w, n, k) = [w EXCEPT !.doc = n]
    BY <1>1 DEF Effect
  <2> QED BY <2>1, <1>0, <1>1 DEF Worlds
<1>2. CASE k = "change"
  <2>1. Effect(w, n, k) = [w EXCEPT !.doc = IF w.doc = 0 THEN 0 ELSE n]
    BY <1>2 DEF Effect
  <2> QED BY <2>1, <1>0, <1>2 DEF Worlds
<1>3. CASE k = "close"
  <2>1. Effect(w, n, k) = [w EXCEPT !.doc = 0]
    BY <1>3 DEF Effect
  <2> QED BY <2>1, <1>0, <1>3 DEF Worlds
<1>4. CASE k = "session"
  <2>1. Effect(w, n, k) = [w EXCEPT !.generation = w.generation + 1]
    BY <1>4 DEF Effect
  <2> QED BY <2>1, <1>0, <1>4 DEF Worlds
<1>5. CASE k = "badSession"
  <2>1. Effect(w, n, k) = w
    BY <1>5 DEF Effect
  <2> QED BY <2>1, <1>0
<1> QED BY <1>1, <1>2, <1>3, <1>4, <1>5 DEF Kinds

\* The barrier moves to the note's number, which no later note has passed.
LEMMA NotificationStep ==
    ASSUME IInv, HandleNotification
    PROVE  IInv'
<1> USE DEF IInv
<1> DEFINE n == Head(events).seq
           k == Head(events).kind
<1>u. /\ UNCHANGED <<queued, latest, target, snapshot, crashed>>
      /\ loop = "idle" /\ loop' = IF FailsEarly(k) \/ FailsLate(k) THEN "idle" ELSE "store"
      /\ events # <<>> /\ events' = Tail(events) /\ IsNote(Head(events))
      /\ world' = Effect(world, n, k)
  BY DEF HandleNotification
<1>m. \/ UNCHANGED <<processed, pc>>
      \/ /\ processed' = n
         /\ pc' = [r \in Requests |-> IF pc[r] = "asleep" THEN "check" ELSE pc[r]]
  BY DEF HandleNotification, MarkProcessed
<1>t. /\ events' \in Seq(Events(queued))
      /\ 1 \in DOMAIN events /\ Head(events) = events[1]
      /\ \A i \in DOMAIN events' :
            i \in Nat /\ i > 0 /\ i + 1 \in DOMAIN events /\ events'[i] = events[i + 1]
  BY <1>u, TakeEvent
<1>n. queued \in Nat /\ processed \in Nat /\ n \in 1..queued /\ k \in Kinds
  BY <1>u, <1>t, NotesInChannel
<1>a. \A i \in DOMAIN events' : IsNote(events'[i]) =>
          events'[i].seq \in 1..queued /\ events'[i].seq > n /\ events'[i].seq > processed
  <2> SUFFICES ASSUME NEW i \in DOMAIN events', IsNote(events'[i])
               PROVE  events'[i].seq \in 1..queued /\ events'[i].seq > n /\ events'[i].seq > processed
    OBVIOUS
  <2>1. i + 1 \in DOMAIN events /\ events'[i] = events[i + 1] /\ 1 < i + 1
    BY <1>t
  <2>2. events[i + 1].seq \in 1..queued /\ events[i + 1].seq > processed
    BY <2>1, NotesInChannel DEF NotesInOrder
  <2>3. n < events[i + 1].seq
    BY <2>1, <1>t, <1>u DEF NotesInOrder
  <2> QED BY <2>1, <2>2, <2>3, <1>n
<1>w. /\ world \in Worlds(queued) /\ latest = world /\ world' \in Worlds(queued)
      /\ world'.doc \in {0, n, world.doc}
      /\ world'.generation \in Nat /\ world'.generation >= world.generation
      /\ FailsEarly(k) \/ FailsLate(k) => world' = world
  <2>1. world \in Worlds(queued) /\ latest = world
    BY <1>u DEF PublishedWhenIdle, TypeOK
  <2> QED BY <2>1, <1>n, <1>u, EffectFacts DEF FailsEarly, FailsLate
<1>e. /\ n > world.doc /\ world.doc \in 0..queued
      /\ \A r \in Requests : n > snapshot[r].doc /\ snapshot[r].doc \in 0..queued
  BY <1>t, <1>u DEF NotesAreNew, TypeOK, Worlds
<1> HIDE DEF n, k
<1>p. /\ pc' \in [Requests -> Locations]
      /\ \A r \in Requests : pc'[r] = pc[r] \/ (pc[r] = "asleep" /\ pc'[r] = "check")
  <2>1. CASE UNCHANGED <<processed, pc>>
    BY <2>1 DEF TypeOK
  <2>2. CASE pc' = [r \in Requests |-> IF pc[r] = "asleep" THEN "check" ELSE pc[r]]
    BY <2>2 DEF TypeOK, Locations, Before
  <2> QED BY <2>1, <2>2, <1>m
<1>1. TypeOK'
  <2>1. processed' \in 0..queued'
    BY <1>m, <1>u, <1>n DEF TypeOK
  <2>2. loop' \in {"idle", "store"}
    BY <1>u
  <2> QED BY <2>1, <2>2, <1>u, <1>p, <1>t, <1>w DEF TypeOK
<1>2. NotesInOrder'
  <2>1. \A i \in DOMAIN events' : IsNote(events'[i]) => events'[i].seq > processed'
    BY <1>a, <1>m
  <2>2. \A i, j \in DOMAIN events' :
           (IsNote(events'[i]) /\ IsNote(events'[j]) /\ i < j) => events'[i].seq < events'[j].seq
    BY <1>t DEF NotesInOrder
  <2> QED BY <2>1, <2>2 DEF NotesInOrder
<1>3. NotesAreNew'
  BY <1>a, <1>u, <1>w, <1>e, <1>n DEF NotesAreNew
<1>4. OneEventPerRequest'
  BY <1>t, <1>p DEF OneEventPerRequest
<1>5. PublishedWhenIdle'
  BY <1>u, <1>w DEF PublishedWhenIdle
<1>6. SnapshotsAreOlder'
  <2>1. world.generation \in Nat /\ latest.generation <= world.generation
    BY <1>w DEF Worlds
  <2>2. latest.generation <= world'.generation
    BY <2>1, <1>w
  <2>3. ASSUME NEW r \in Requests, pc'[r] = "running"
        PROVE  /\ snapshot[r].generation <= latest.generation
               /\ (snapshot[r].doc # 0 /\ snapshot[r].doc = world'.doc) => latest.doc = world'.doc
    <3>1. pc[r] = "running"
      BY <2>3, <1>p
    <3> QED BY <3>1, <1>w, <1>e, <1>n DEF SnapshotsAreOlder
  <2> QED BY <2>2, <2>3, <1>u DEF SnapshotsAreOlder
<1>7. EarlierNotificationsHandled'
  BY <1>t, <1>u, <1>p DEF EarlierNotificationsHandled, Before
<1> QED BY <1>1, <1>2, <1>3, <1>4, <1>5, <1>6, <1>7

-----------------------------------------------------------------------------
(* The theorems *)

LEMMA InitIInv == Init => IInv
<1> SUFFICES ASSUME Init PROVE IInv
  OBVIOUS
<1>1. world \in Worlds(queued) /\ queued = 0 /\ processed = 0 /\ events = <<>>
  BY DEF Init, Worlds
<1>2. TypeOK
  <2>1. crashed \in BOOLEAN
    BY DEF Init
  <2>2. snapshot \in [Requests -> Worlds(queued)] /\ target \in [Requests -> 0..queued]
    BY <1>1 DEF Init
  <2>3. pc \in [Requests -> Locations] /\ loop \in {"idle", "store"} /\ latest \in Worlds(queued)
    BY <1>1 DEF Init, Locations, Before
  <2>4. queued \in 0..MaxNotifications /\ processed \in 0..queued /\ events \in Seq(Events(queued))
    BY <1>1, LoopAssumption
  <2> QED BY <1>1, <2>1, <2>2, <2>3, <2>4 DEF TypeOK
<1>3. NotesInOrder /\ NotesAreNew /\ OneEventPerRequest /\ EarlierNotificationsHandled
  BY <1>1 DEF NotesInOrder, NotesAreNew, OneEventPerRequest, EarlierNotificationsHandled
<1>4. PublishedWhenIdle /\ SnapshotsAreOlder
  BY DEF Init, PublishedWhenIdle, SnapshotsAreOlder
<1> QED BY <1>2, <1>3, <1>4 DEF IInv

LEMMA NextIInv == IInv /\ [Next]_vars => IInv'
<1> SUFFICES ASSUME IInv, [Next]_vars PROVE IInv'
  OBVIOUS
<1>1. ASSUME NEW k \in Kinds, Notify(k) PROVE IInv'
  BY <1>1, NotifyStep
<1>2. CASE HandleNotification
  BY <1>2, NotificationStep
<1>3. CASE StoreLatestWorldState
  BY <1>3, StoreStep
<1>4. ASSUME NEW r \in Requests, SpawnHandler(r) PROVE IInv'
  BY <1>4, SpawnStep
<1>5. ASSUME NEW r \in Requests, RespondInline(r) \/ FinishSessionBootstrap(r) PROVE IInv'
  BY <1>5, InlineStep
<1>6. ASSUME NEW r \in Requests, BootstrapSession(r) PROVE IInv'
  BY <1>6, BootstrapStep
<1>7. ASSUME NEW r \in Requests, Request(r) PROVE IInv'
  BY <1>7, RequestStep
<1>8. ASSUME NEW r \in Requests, WaitFor(r) \/ Arm(r) PROVE IInv'
  BY <1>8, WaitForStep, ArmStep
<1>9. ASSUME NEW r \in Requests, Respond(r) \/ Panic(r) PROVE IInv'
  BY <1>9, AnswerStep
<1>10. ASSUME NEW r \in Requests, Hydrate(r) PROVE IInv'
  BY <1>10, HydrateStep
<1>11. CASE UNCHANGED vars
  BY <1>11 DEF vars, IInv, TypeOK, NotesInOrder, NotesAreNew, OneEventPerRequest,
               PublishedWhenIdle, SnapshotsAreOlder, EarlierNotificationsHandled
<1> QED
  BY <1>1, <1>2, <1>3, <1>4, <1>5, <1>6, <1>7, <1>8, <1>9, <1>10, <1>11 DEF Next, MainLoop

LEMMA InvariantHolds == Spec => []IInv
<1> QED BY InitIInv, NextIInv, PTL DEF Spec

\* The state of the request path (the barrier's counters, the channel, the two
\* copies of the world and the requests) keeps its types.
THEOREM TypeCorrect == Spec => []TypeOK
<1>1. IInv => TypeOK
  BY DEF IInv
<1> QED BY <1>1, InvariantHolds, PTL

\* NotificationBarrier: a request is handed to the main loop only when every
\* notification the editor sent before it has left the channel.
THEOREM BarrierOrdersRequests == Spec => []EarlierNotificationsHandled
<1>1. IInv => EarlierNotificationsHandled
  BY DEF IInv
<1> QED BY <1>1, InvariantHolds, PTL

\* RequestFreshness::stale_reason, read on a handler's thread from the published
\* world: an answer is let through only if its snapshot is current up to the
\* event in progress, and is refused only if something it depends on changed.
THEOREM FreshnessVerdictIsSound == Spec => VerdictIsSound
<1>1. ASSUME IInv, [Next]_vars, NEW r \in Requests PROVE SoundVerdict(r)
  <2> USE <1>1 DEF IInv
  <2> SUFFICES ASSUME pc[r] \in {"running", "hydrated"}, pc'[r] # pc[r], pc'[r] \in {"ok", "stale"}
               PROVE  /\ pc'[r] = "ok" => ~Outdated(r) \/ loop = "store"
                      /\ pc'[r] = "stale" => Outdated(r)
    BY DEF SoundVerdict
  <2>w. world.generation \in Nat /\ latest.generation \in Nat /\ snapshot[r].generation \in Nat
    BY DEF TypeOK, Worlds
  <2>h. \A s \in Requests : (events # <<>> /\ Head(events) = Ask(s)) => s # r
    <3>1. events # <<>> => 1 \in DOMAIN events /\ Head(events) = events[1]
      BY DEF TypeOK
    <3> QED BY <3>1 DEF OneEventPerRequest
  <2>1. CASE Respond(r)
    <3>1. pc[r] = "running"
      BY <2>1 DEF Respond
    <3>2. pc'[r] = "ok" => Current(snapshot[r], latest)
      BY <2>1 DEF Respond, TypeOK
    <3>3. pc'[r] = "stale" => ~Current(snapshot[r], latest)
      BY <2>1 DEF Respond, TypeOK
    <3>4. loop \in {"idle", "store"}
      BY DEF TypeOK
    <3>5. pc'[r] = "ok" => ~Outdated(r) \/ loop = "store"
      BY <3>2, <3>4 DEF Current, Outdated, PublishedWhenIdle
    <3>6. pc'[r] = "stale" => Outdated(r)
      BY <3>1, <3>3, <2>w DEF Current, Outdated, SnapshotsAreOlder
    <3> QED BY <3>5, <3>6
  <2>2. CASE FinishSessionBootstrap(r)
    <3>1. loop = "idle" /\ latest = world
      BY <2>2 DEF FinishSessionBootstrap, PublishedWhenIdle
    <3>2. pc'[r] = IF Current(snapshot[r], latest) THEN "ok" ELSE "stale"
      BY <2>2 DEF FinishSessionBootstrap, TypeOK
    <3> QED BY <3>1, <3>2 DEF Current, Outdated
  <2>3. ASSUME NEW s \in Requests, s # r, pc' = [pc EXCEPT ![s] = pc'[s]] PROVE FALSE
    BY <2>3 DEF TypeOK
  <2>4. \A s \in Requests : ~(NextRequest(s) /\ pc' = [pc EXCEPT ![s] = pc'[s]])
    BY <2>h, <2>3 DEF NextRequest
  <2>5. UNCHANGED pc => FALSE
    OBVIOUS
  <2>6. ASSUME NEW s \in Requests, NEW l, pc' = [pc EXCEPT ![s] = l] PROVE pc' = [pc EXCEPT ![s] = pc'[s]]
    BY <2>6 DEF TypeOK
  <2>7. ASSUME NEW s \in Requests, SpawnHandler(s) \/ RespondInline(s) \/ BootstrapSession(s) PROVE FALSE
    BY <2>7, <2>4, <2>6 DEF SpawnHandler, RespondInline, BootstrapSession
  <2>8. ASSUME NEW s \in Requests, Request(s) \/ WaitFor(s) \/ Arm(s) \/ Hydrate(s) \/ Panic(s) PROVE FALSE
    <3>1. PICK l \in {"disabled", "check", "sent", "arm", "asleep", "hydrated", "crashed"} : pc' = [pc EXCEPT ![s] = l]
      BY <2>8 DEF Request, WaitFor, Arm, Hydrate, Panic
    <3>2. CASE s = r
      BY <3>1, <3>2 DEF TypeOK
    <3>3. CASE s # r
      BY <3>1, <3>3, <2>3, <2>6
    <3> QED BY <3>2, <3>3
  <2>9. ASSUME NEW s \in Requests, s # r, Respond(s) \/ FinishSessionBootstrap(s) PROVE FALSE
    BY <2>9, <2>3, <2>6 DEF Respond, FinishSessionBootstrap
  <2>10. CASE HandleNotification
    <3>1. pc'[r] = pc[r]
      BY <2>10 DEF HandleNotification, MarkProcessed
    <3> QED BY <3>1
  <2>11. ASSUME NEW k \in Kinds, Notify(k) PROVE FALSE
    BY <2>11 DEF Notify, requestVars
  <2>12. CASE StoreLatestWorldState \/ UNCHANGED vars
    BY <2>12 DEF StoreLatestWorldState, requestVars, vars
  <2> QED
    BY <1>1, <2>1, <2>2, <2>7, <2>8, <2>9, <2>10, <2>11, <2>12 DEF Next, MainLoop
<1>2. ASSUME IInv, [Next]_vars
      PROVE  [\A r \in Requests : SoundVerdict(r)]_vars
  BY <1>1, <1>2
<1> QED BY <1>2, InvariantHolds, PTL DEF Spec, VerdictIsSound

=============================================================================
