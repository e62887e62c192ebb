------------------------- MODULE IndexerQueueProofs -------------------------
(***************************************************************************)
(* Proofs about IndexerQueue, for any files, folders and targets projects  *)
(* and any number of events: diagnostics arrive in order, and those of a   *)
(* queue at rest are current.                                              *)
(***************************************************************************)
EXTENDS IndexerQueue, FiniteSetTheorems, SequenceTheorems, TLAPS

-----------------------------------------------------------------------------
(* The inductive invariant *)

LoopInv ==
    /\ latest = world
    /\ world.generation <= events.changes + 1

\* Between two rounds nothing of a chunk is left; while a chunk is applied no
\* diagnosis is under way.  A document is diagnosed once in a round.
WorkerInv ==
    /\ At("drain") => worker.chunk = <<>>
    /\ At("apply") => worker.chunk # <<>> /\ Head(worker.chunk).kind # "finish"
    /\ ~At("drain") => running = {} /\ results = {}
    /\ \A p \in results : p.file \notin running
    /\ \A p, q \in results : p.file = q.file => p = q

\* No text is from an event still to come.  What is shown of a document is no newer
\* than its result under way, and neither is newer than the document.
OrderInv ==
    /\ \A u \in Files : world.documents[u] < Now /\ shown[u].text < Now
    /\ \A p \in results : p.found.text < Now /\ shown[p.file].text <= p.found.text
    /\ \A u \in Open(world) : shown[u].text <= world.documents[u]
    /\ \A p \in results : p.file \in Open(world) => p.found.text <= world.documents[p.file]

Has(tasks, t) == \E i \in 1..Len(tasks) : tasks[i] = t
HasIndexTask(tasks) == \E i \in 1..Len(tasks) : tasks[i].kind # "finish"

\* A scan of the present folders has still to end, with a refresh of everything.
ScanPending ==
    \/ \E s \in scans : s.generation = world.generation
    \/ \E e \in internal : e.generation = world.generation
    \/ \E tasks \in {channel.tasks, worker.chunk, worker.batch} :
          Has(tasks, FinishScan(world.generation))

RefreshPending(u) == u \in worker.refresh \/ u \in channel.refresh \/ ScanPending

\* A document is either to be diagnosed, or being diagnosed, or diagnosed as it is.
Current(u) ==
    \/ RefreshPending(u)
    \/ u \in running
    \/ \E p \in results : p.file = u /\ p.found = Diagnosis(u)
    \/ shown[u] = Diagnosis(u) /\ \A p \in results : p.file # u

\* Whoever may still change the index is followed by a refresh: for tasks the worker
\* has, one that it has too or one that is queued; for queued tasks, one that is queued.
RefreshInv ==
    world.folders # {} => \A u \in Open(world) :
       /\ HasIndexTask(channel.tasks) => u \in channel.refresh \/ ScanPending
       /\ HasIndexTask(worker.chunk) \/ HasIndexTask(worker.batch) => RefreshPending(u)
       /\ Current(u)

IInv == TypeOK /\ LoopInv /\ WorkerInv /\ OrderInv /\ RefreshInv

-----------------------------------------------------------------------------
(* Sequences of tasks *)

LEMMA NumberFacts ==
    /\ MaxEdits \in Nat /\ MaxChanges \in Nat
    /\ MAX_INDEXER_BATCH \in Nat /\ MAX_INDEXER_BATCH > 0
    /\ Written \subseteq Nat \ {0} /\ Generations \subseteq Nat \ {0} /\ NoText \notin Written
    /\ 1 \in Written /\ 1 \in Generations /\ NoText = -1
BY QueueAssumption DEF Written, Generations, NoText

\* The documents of a set, in some order.
LEMMA SequenceOfSet ==
    ASSUME NEW S \in SUBSET Files
    PROVE  SetToSeq(S) \in Seq(S) /\ Len(SetToSeq(S)) \in Nat
           /\ \A i \in 1..Len(SetToSeq(S)) : SetToSeq(S)[i] \in S
<1>1. IsFiniteSet(S)
  BY FS_Subset, QueueAssumption
<1>2. Cardinality(S) \in Nat /\ ExistsBijection(1..Cardinality(S), S)
  BY <1>1, FS_CardinalityType
<1>3. PICK f \in [1..Cardinality(S) -> S] : IsInjective(f)
  BY <1>2 DEF ExistsBijection, Bijection, Injection, IsInjective
<1>4. SetToSeq(S) \in [1..Cardinality(S) -> S]
  BY <1>3 DEF SetToSeq
<1> QED BY <1>2, <1>4

LEMMA TaskFacts ==
    /\ \A u \in Files, g \in Generations : Create(u, g) \in Tasks /\ Delete(u, g) \in Tasks
    /\ \A u \in Files, t \in Written, g \in Generations : Update(u, t, g) \in Tasks
    /\ \A u, v \in Files, g \in Generations : Rename(u, v, g) \in Tasks
    /\ \A g \in Generations : FinishScan(g) \in Tasks /\ FinishScan(g).kind = "finish"
BY DEF Create, Delete, Update, Rename, FinishScan, Tasks

LEMMA CreatesTyped ==
    ASSUME NEW S \in SUBSET Files, NEW g \in Generations
    PROVE  Creates(S, g) \in Seq(Tasks)
<1> DEFINE all == SetToSeq(S) \o SetToSeq(RelatedScripts(S))
<1>1. RelatedScripts(S) \in SUBSET Files
  BY DEF RelatedScripts
<1>2. SetToSeq(S) \in Seq(Files) /\ SetToSeq(RelatedScripts(S)) \in Seq(Files)
  BY <1>1, SequenceOfSet
<1>3. all \in Seq(Files) /\ Len(all) \in Nat
  BY <1>2
<1> HIDE DEF all
<1>4. \A i \in 1..Len(all) : Create(all[i], g) \in Tasks
  BY <1>3, TaskFacts
<1>5. [i \in 1..Len(all) |-> Create(all[i], g)] \in Seq(Tasks)
  BY <1>3, <1>4
<1> QED BY <1>5 DEF Creates, all

LEMMA UpdatesTyped ==
    ASSUME NEW w \in Worlds, NEW S \in SUBSET Open(w)
    PROVE  Updates(w, S) \in Seq(Tasks)
<1> DEFINE own == SetToSeq(S)
           scripts == {v \in Files : /\ disk[v] # NoText
                                     /\ \E u \in S \ {v} : ScriptOf[u] = v}
           disks == SetToSeq(scripts)
           first == [i \in 1..Len(own) |-> Update(own[i], w.documents[own[i]], w.generation)]
           second == [i \in 1..Len(disks) |-> Create(disks[i], w.generation)]
<1>1. S \in SUBSET Files /\ scripts \in SUBSET Files /\ w.generation \in Generations
  BY DEF Open, Worlds
<1>2. /\ Len(own) \in Nat /\ \A i \in 1..Len(own) : own[i] \in S
      /\ Len(disks) \in Nat /\ \A i \in 1..Len(disks) : disks[i] \in scripts
  BY <1>1, SequenceOfSet
<1>3. \A u \in S : u \in Files /\ w.documents[u] \in Written
  BY DEF Open, Worlds
<1> HIDE DEF own, scripts, disks
<1>4. \A i \in 1..Len(own) : Update(own[i], w.documents[own[i]], w.generation) \in Tasks
  BY <1>1, <1>2, <1>3, TaskFacts
<1>5. \A i \in 1..Len(disks) : Create(disks[i], w.generation) \in Tasks
  <2>1. scripts \subseteq Files
    BY <1>1
  <2> QED BY <1>1, <1>2, <2>1, TaskFacts
<1>6. first \in Seq(Tasks) /\ second \in Seq(Tasks)
  BY <1>2, <1>4, <1>5
<1> HIDE DEF first, second
<1>7. first \o second \in Seq(Tasks)
  BY <1>6
<1> QED BY <1>7 DEF Updates, first, second, own, disks, scripts

LEMMA EmptyHasNone == ~HasIndexTask(<<>>) /\ \A t : ~Has(<<>>, t)
BY DEF Has, HasIndexTask

LEMMA TailHas ==
    ASSUME NEW s \in Seq(Tasks), s # <<>>
    PROVE  /\ Tail(s) \in Seq(Tasks) /\ Head(s) \in Tasks /\ Len(Tail(s)) <= Len(s)
           /\ \A t : Has(s, t) => t = Head(s) \/ Has(Tail(s), t)
           /\ HasIndexTask(Tail(s)) => HasIndexTask(s)
           /\ Head(s).kind # "finish" => HasIndexTask(s)
<1>1. /\ Head(s) \in Tasks /\ Head(s) = s[1] /\ Tail(s) \in Seq(Tasks)
      /\ Len(s) \in Nat /\ Len(s) > 0 /\ Len(Tail(s)) = Len(s) - 1
      /\ \A i \in 1..Len(Tail(s)) : Tail(s)[i] = s[i + 1]
  OBVIOUS
<1>2. ASSUME NEW t, Has(s, t), t # Head(s) PROVE Has(Tail(s), t)
  <2>1. PICK i \in 1..Len(s) : s[i] = t
    BY <1>2 DEF Has
  <2>2. i # 1
    BY <1>1, <1>2, <2>1
  <2>3. i - 1 \in 1..Len(Tail(s)) /\ Tail(s)[i - 1] = t
    BY <1>1, <2>1, <2>2
  <2> QED BY <2>3 DEF Has
<1>3. ASSUME HasIndexTask(Tail(s)) PROVE HasIndexTask(s)
  <2>1. PICK i \in 1..Len(Tail(s)) : Tail(s)[i].kind # "finish"
    BY <1>3 DEF HasIndexTask
  <2>2. i + 1 \in 1..Len(s) /\ s[i + 1].kind # "finish"
    BY <1>1, <2>1
  <2> QED BY <2>2 DEF HasIndexTask
<1>4. ASSUME Head(s).kind # "finish" PROVE HasIndexTask(s)
  BY <1>1, <1>4 DEF HasIndexTask
<1> QED BY <1>1, <1>2, <1>3, <1>4

LEMMA ConcatHas ==
    ASSUME NEW a \in Seq(Tasks), NEW b \in Seq(Tasks)
    PROVE  /\ a \o b \in Seq(Tasks)
           /\ \A t : Has(a \o b, t) <=> Has(a, t) \/ Has(b, t)
           /\ HasIndexTask(a \o b) <=> HasIndexTask(a) \/ HasIndexTask(b)
<1> DEFINE c == a \o b
<1>1. /\ c \in Seq(Tasks) /\ Len(a) \in Nat /\ Len(b) \in Nat /\ Len(c) = Len(a) + Len(b)
      /\ \A i \in 1..Len(c) : c[i] = IF i <= Len(a) THEN a[i] ELSE b[i - Len(a)]
  BY ConcatProperties
<1> HIDE DEF c
<1>2. \A i \in 1..Len(a) : i \in 1..Len(c) /\ c[i] = a[i]
  BY <1>1
<1>3. \A i \in 1..Len(b) : Len(a) + i \in 1..Len(c) /\ c[Len(a) + i] = b[i]
  BY <1>1
<1>4. \A i \in 1..Len(c) : \/ i \in 1..Len(a) /\ c[i] = a[i]
                           \/ i - Len(a) \in 1..Len(b) /\ c[i] = b[i - Len(a)]
  BY <1>1
<1>5. \A t : Has(c, t) <=> Has(a, t) \/ Has(b, t)
  BY <1>2, <1>3, <1>4, Zenon DEF Has
<1>6. HasIndexTask(c) <=> HasIndexTask(a) \/ HasIndexTask(b)
  <2>1. ASSUME HasIndexTask(a) PROVE HasIndexTask(c)
    <3>1. PICK i \in 1..Len(a) : a[i].kind # "finish"
      BY <2>1 DEF HasIndexTask
    <3>2. i \in 1..Len(c) /\ c[i].kind # "finish"
      BY <1>2, <3>1
    <3> QED BY <3>2 DEF HasIndexTask
  <2>2. ASSUME HasIndexTask(b) PROVE HasIndexTask(c)
    <3>1. PICK i \in 1..Len(b) : b[i].kind # "finish"
      BY <2>2 DEF HasIndexTask
    <3>2. Len(a) + i \in 1..Len(c) /\ c[Len(a) + i].kind # "finish"
      BY <1>3, <3>1
    <3> QED BY <3>2 DEF HasIndexTask
  <2>3. ASSUME HasIndexTask(c) PROVE HasIndexTask(a) \/ HasIndexTask(b)
    <3>1. PICK i \in 1..Len(c) : c[i].kind # "finish"
      BY <2>3 DEF HasIndexTask
    <3>2. CASE i \in 1..Len(a) /\ c[i] = a[i]
      BY <3>1, <3>2 DEF HasIndexTask
    <3>3. CASE i - Len(a) \in 1..Len(b) /\ c[i] = b[i - Len(a)]
      BY <3>1, <3>3 DEF HasIndexTask
    <3> QED BY <1>4, <3>1, <3>2, <3>3
  <2> QED BY <2>1, <2>2, <2>3
<1> QED BY <1>1, <1>5, <1>6 DEF c

\* A batch that is split has the same tasks in its two parts.
LEMMA SplitOffFacts ==
    ASSUME NEW s \in Seq(Tasks)
    PROVE  /\ SplitOff(s).chunk \in Seq(Tasks) /\ SplitOff(s).batch \in Seq(Tasks)
           /\ Len(SplitOff(s).chunk) <= MAX_INDEXER_BATCH
           /\ \A t : Has(s, t) => Has(SplitOff(s).chunk, t) \/ Has(SplitOff(s).batch, t)
           /\ HasIndexTask(SplitOff(s).chunk) \/ HasIndexTask(SplitOff(s).batch) => HasIndexTask(s)
<1>0. Len(s) \in Nat /\ MAX_INDEXER_BATCH \in Nat
  BY NumberFacts
<1>1. CASE Len(s) > MAX_INDEXER_BATCH
  <2> DEFINE a == SubSeq(s, 1, MAX_INDEXER_BATCH)
             b == SubSeq(s, MAX_INDEXER_BATCH + 1, Len(s))
  <2>1. SplitOff(s).chunk = a /\ SplitOff(s).batch = b
    BY <1>1 DEF SplitOff
  <2>2. \A i \in 1..Len(s) : s[i] \in Tasks
    OBVIOUS
  <2>3. a \in Seq(Tasks) /\ Len(a) = MAX_INDEXER_BATCH
    BY <1>0, <1>1, <2>2, NumberFacts, SubSeqProperties
  <2>4. b \in Seq(Tasks)
    BY <1>0, <1>1, <2>2, SubSeqProperties
  <2>5. a \o b = s
    <3>1. SubSeq(s, 1, Len(s)) = s
      BY SubSeqFull
    <3>2. /\ 1 \in 1..Len(s)+1 /\ MAX_INDEXER_BATCH \in 1-1..Len(s)
          /\ Len(s) \in MAX_INDEXER_BATCH..Len(s)
      BY <1>0, <1>1
    <3> HIDE DEF a, b
    <3>3. a \o b = SubSeq(s, 1, Len(s))
      BY <3>2, ConcatAdjacentSubSeq DEF a, b
    <3> QED BY <3>1, <3>3
  <2> HIDE DEF a, b
  <2>6. /\ \A t : Has(a \o b, t) <=> Has(a, t) \/ Has(b, t)
        /\ HasIndexTask(a \o b) <=> HasIndexTask(a) \/ HasIndexTask(b)
    BY <2>3, <2>4, ConcatHas
  <2>7. Len(a) <= MAX_INDEXER_BATCH
    BY <2>3, <1>0
  <2>8. /\ \A t : Has(s, t) <=> Has(a, t) \/ Has(b, t)
        /\ HasIndexTask(s) <=> HasIndexTask(a) \/ HasIndexTask(b)
    BY <2>5, <2>6, Zenon
  <2> QED BY <2>1, <2>3, <2>4, <2>7, <2>8, Zenon
<1>2. CASE ~(Len(s) > MAX_INDEXER_BATCH)
  <2>1. SplitOff(s).chunk = s /\ SplitOff(s).batch = <<>>
    BY <1>2 DEF SplitOff
  <2>2. Len(s) <= MAX_INDEXER_BATCH /\ <<>> \in Seq(Tasks)
    BY <1>0, <1>2
  <2> QED BY <2>1, <2>2, EmptyHasNone, Zenon
<1> QED BY <1>1, <1>2

-----------------------------------------------------------------------------
(* What steps have in common *)

LEMMA EventFacts ==
    ASSUME TypeOK
    PROVE  /\ events.edits \in Nat /\ events.changes \in Nat /\ Now \in Nat
           /\ NewEdit =>
                /\ events' \in [edits : 0..MaxEdits, changes : 0..MaxChanges]
                /\ Now \in Written /\ Now' = Now + 1 /\ events'.changes = events.changes
           /\ NewChange =>
                /\ events' \in [edits : 0..MaxEdits, changes : 0..MaxChanges]
                /\ Now \in Written /\ Now' = Now + 1 /\ events'.changes = events.changes + 1
                /\ events.changes + 2 \in Generations
<1>1. /\ events \in [edits : 0..MaxEdits, changes : 0..MaxChanges]
      /\ events.edits \in 0..MaxEdits /\ events.changes \in 0..MaxChanges
  BY DEF TypeOK
<1>2. ASSUME NewEdit
      PROVE  /\ events' \in [edits : 0..MaxEdits, changes : 0..MaxChanges]
             /\ Now \in Written /\ Now' = Now + 1 /\ events'.changes = events.changes
  <2>1. /\ events.edits < MaxEdits /\ events'.edits = events.edits + 1
        /\ events'.changes = events.changes
        /\ events' = [events EXCEPT !.edits = events.edits + 1]
    BY <1>1, <1>2 DEF NewEdit
  <2>2. events.edits + 1 \in 0..MaxEdits
    BY <1>1, <2>1, NumberFacts
  <2>3. events' \in [edits : 0..MaxEdits, changes : 0..MaxChanges]
    BY <1>1, <2>1, <2>2
  <2> QED BY <1>1, <2>1, <2>3, NumberFacts DEF Now, Written
<1>3. ASSUME NewChange
      PROVE  /\ events' \in [edits : 0..MaxEdits, changes : 0..MaxChanges]
             /\ Now \in Written /\ Now' = Now + 1 /\ events'.changes = events.changes + 1
             /\ events.changes + 2 \in Generations
  <2>1. /\ events.changes < MaxChanges /\ events'.changes = events.changes + 1
        /\ events'.edits = events.edits
        /\ events' = [events EXCEPT !.changes = events.changes + 1]
    BY <1>1, <1>3 DEF NewChange
  <2>2. events.changes + 1 \in 0..MaxChanges
    BY <1>1, <2>1, NumberFacts
  <2>3. events' \in [edits : 0..MaxEdits, changes : 0..MaxChanges]
    BY <1>1, <2>1, <2>2
  <2> QED BY <1>1, <2>1, <2>3, NumberFacts DEF Now, Written, Generations
<1>4. Now \in Nat
  BY <1>1, NumberFacts DEF Now
<1> QED BY <1>1, <1>2, <1>3, <1>4, NumberFacts

LEMMA WorldFacts ==
    ASSUME TypeOK
    PROVE  /\ world.documents \in [Files -> Written \cup {NoText}]
           /\ world.folders \subseteq Roots /\ world.generation \in Generations
           /\ world = [documents |-> world.documents, folders |-> world.folders,
                       generation |-> world.generation]
           /\ \A u \in Files : world.documents[u] \in Int
           /\ \A u \in Files : shown[u].text \in Int
           /\ \A p \in results : p.file \in Files /\ p.found.text \in Int
<1>1. world \in Worlds
  BY DEF TypeOK
<1>2. /\ world.documents \in [Files -> Written \cup {NoText}]
      /\ world.folders \subseteq Roots /\ world.generation \in Generations
      /\ world = [documents |-> world.documents, folders |-> world.folders,
                  generation |-> world.generation]
  BY <1>1 DEF Worlds
<1>3. \A u \in Files : world.documents[u] \in Int
  BY <1>2, NumberFacts
<1>4. \A f \in Findings : f.text \in Int
  <2>1. \A f \in Findings : f.text \in Written
    BY DEF Findings
  <2>2. \A t \in Written : t \in Int
    BY NumberFacts
  <2> QED BY <2>1, <2>2, Zenon
<1>5. \A p \in results : p.file \in Files /\ p.found.text \in Int
  <2>1. results \subseteq [file : Files, found : Findings]
    BY DEF TypeOK
  <2> QED BY <1>4, <2>1
<1>6. \A u \in Files : shown[u].text \in Int
  <2>1. \A u \in Files : shown[u] \in Findings \/ shown[u] = Nothing
    BY DEF TypeOK
  <2>2. Nothing.text \in Int
    BY NumberFacts DEF Nothing
  <2> QED BY <1>4, <2>1, <2>2
<1> QED BY <1>2, <1>3, <1>5, <1>6

LEMMA HandledFacts ==
    ASSUME TypeOK, NEW w, NEW tasks \in Seq(Tasks), NEW S \in SUBSET Files,
           Handled(w, tasks, S)
    PROVE  /\ world' = w /\ latest' = w
           /\ channel' \in [tasks : Seq(Tasks), refresh : SUBSET Files]
           /\ channel'.refresh = channel.refresh \cup S
           /\ \A t : Has(channel'.tasks, t) <=> Has(channel.tasks, t) \/ Has(tasks, t)
           /\ HasIndexTask(channel'.tasks) <=> HasIndexTask(channel.tasks) \/ HasIndexTask(tasks)
<1>1. channel.tasks \in Seq(Tasks) /\ channel.refresh \in SUBSET Files
  BY DEF TypeOK
<1>2. /\ channel' = [tasks |-> channel.tasks \o tasks, refresh |-> channel.refresh \cup S]
      /\ channel'.tasks = channel.tasks \o tasks
      /\ channel'.refresh = channel.refresh \cup S
      /\ world' = w /\ latest' = w
  BY DEF Handled
<1>3. /\ channel.tasks \o tasks \in Seq(Tasks)
      /\ \A t : Has(channel.tasks \o tasks, t) <=> Has(channel.tasks, t) \/ Has(tasks, t)
      /\ HasIndexTask(channel.tasks \o tasks) <=> HasIndexTask(channel.tasks) \/ HasIndexTask(tasks)
  BY <1>1, ConcatHas
<1>4. channel' \in [tasks : Seq(Tasks), refresh : SUBSET Files]
  BY <1>1, <1>2, <1>3
<1> QED BY <1>2, <1>3, <1>4, Zenon

\* An event that queues nothing.
LEMMA HandledNothing ==
    ASSUME TypeOK, NEW w, Handled(w, <<>>, {})
    PROVE  world' = w /\ latest' = w /\ UNCHANGED channel
<1>1. /\ channel.tasks \in Seq(Tasks)
      /\ channel = [tasks |-> channel.tasks, refresh |-> channel.refresh]
  BY DEF TypeOK
<1>2. channel.tasks \o <<>> = channel.tasks
  BY <1>1, ConcatEmptySeq
<1> QED BY <1>1, <1>2 DEF Handled

\* Steps of the outside and of the main loop leave the worker alone.
LEMMA SameWorker == UNCHANGED workerVars => (WorkerInv <=> WorkerInv')
BY DEF workerVars, WorkerInv, At

LEMMA SameOrder ==
    ASSUME TypeOK, OrderInv, UNCHANGED <<results, shown>>,
           world'.documents = world.documents, Now' \in Nat, Now' >= Now
    PROVE  OrderInv'
<1>1. Now \in Nat
  BY EventFacts
<1>2. Open(world)' = Open(world)
  BY DEF Open
<1> QED BY <1>1, <1>2, WorldFacts DEF OrderInv

\* Whatever happened, if everything is to be refreshed ...
LEMMA AllRefreshed ==
    ASSUME \A u \in Open(world)' : u \in channel'.refresh
    PROVE  RefreshInv'
BY DEF RefreshInv, RefreshPending, Current

\* ... or a scan of the present folders is under way, nothing is lost.
LEMMA ScanRefreshes == ScanPending' => RefreshInv'
BY DEF RefreshInv, RefreshPending, Current

LEMMA SameRefresh ==
    ASSUME RefreshInv, UNCHANGED <<loopVars, index, channel, workerVars, shown>>,
           ScanPending => ScanPending'
    PROVE  RefreshInv'
<1>1. UNCHANGED <<world, latest, index, channel, worker, running, results, shown>>
  BY DEF loopVars, workerVars
<1>2. Open(world)' = Open(world)
  BY <1>1 DEF Open
<1>3. \A u \in Files : RefreshPending(u) => RefreshPending(u)'
  BY <1>1 DEF RefreshPending
<1>4. \A u \in Files : Current(u) => Current(u)'
  BY <1>1, <1>3 DEF Current, Diagnosis
<1> QED BY <1>1, <1>2, <1>3, <1>4 DEF RefreshInv, Open

-----------------------------------------------------------------------------
(* The file system *)

LEMMA DiskStep ==
    ASSUME IInv, NewChange, disk' \in [Files -> Written \cup {NoText}],
           reports' \subseteq [old : Files, new : Files],
           UNCHANGED <<loopVars, index, channel, workerVars, scans, internal, shown>>
    PROVE  IInv'
<1>0. TypeOK /\ LoopInv /\ WorkerInv /\ OrderInv /\ RefreshInv
  BY DEF IInv
<1>1. /\ UNCHANGED <<world, latest, index, channel, worker, running, results, scans, internal, shown>>
      /\ UNCHANGED <<loopVars, workerVars>>
  BY DEF loopVars, workerVars
<1>2. /\ events' \in [edits : 0..MaxEdits, changes : 0..MaxChanges]
      /\ Now \in Nat /\ Now' = Now + 1 /\ events'.changes = events.changes + 1
      /\ events.changes \in Nat
  BY <1>0, EventFacts
<1>3. TypeOK'
  BY <1>0, <1>1, <1>2 DEF TypeOK
<1>4. LoopInv'
  BY <1>0, <1>1, <1>2, WorldFacts, NumberFacts DEF LoopInv
<1>5. WorkerInv'
  BY <1>0, <1>1, SameWorker
<1>6. OrderInv'
  BY <1>0, <1>1, <1>2, SameOrder
<1>7. RefreshInv'
  <2>1. ScanPending => ScanPending'
    BY <1>1 DEF ScanPending
  <2> QED BY <1>0, <1>1, <2>1, SameRefresh
<1> QED BY <1>3, <1>4, <1>5, <1>6, <1>7 DEF IInv

LEMMA WriteFileStep == ASSUME IInv, NEW u \in Files, WriteFile(u) PROVE IInv'
<1>1. PICK t \in {Now, NoText} : disk' = [disk EXCEPT ![u] = t]
  BY DEF WriteFile
<1>2. Now \in Written /\ disk \in [Files -> Written \cup {NoText}] /\ reports \subseteq [old : Files, new : Files]
  BY EventFacts DEF WriteFile, IInv, TypeOK
<1>3. disk' \in [Files -> Written \cup {NoText}]
  BY <1>1, <1>2
<1>4. reports' \subseteq [old : Files, new : Files]
  BY <1>2 DEF WriteFile
<1> QED BY <1>3, <1>4, DiskStep DEF WriteFile

LEMMA MoveFileStep == ASSUME IInv, NEW u \in Files, NEW v \in Files, MoveFile(u, v) PROVE IInv'
<1>1. disk' = [disk EXCEPT ![v] = disk[u], ![u] = NoText]
  BY DEF MoveFile
<1>2. disk \in [Files -> Written \cup {NoText}] /\ reports \subseteq [old : Files, new : Files]
  BY DEF IInv, TypeOK
<1>3. disk' \in [Files -> Written \cup {NoText}]
  BY <1>1, <1>2
<1>4. reports' \subseteq [old : Files, new : Files]
  BY <1>2 DEF MoveFile
<1> QED BY <1>3, <1>4, DiskStep DEF MoveFile

LEMMA DiscoverStep == ASSUME IInv, NEW s \in scans, Discover(s) PROVE IInv'
<1> DEFINE found == {u \in Files : disk[u] # NoText /\ Within(u, s.roots)}
           e == [kind |-> "discovered", generation |-> s.generation, files |-> found]
<1>0. TypeOK /\ LoopInv /\ WorkerInv /\ OrderInv /\ RefreshInv
  BY DEF IInv
<1>1. /\ UNCHANGED <<events, disk, reports, world, latest, index, channel, worker, running,
                     results, shown>>
      /\ UNCHANGED <<loopVars, workerVars>>
      /\ scans' = scans \ {s}
      /\ internal' = internal \cup {e}
  BY DEF Discover, loopVars, workerVars
<1>2. s.generation \in Generations /\ found \in SUBSET Files
  BY <1>0 DEF TypeOK
<1>3. e \in [kind : {"discovered", "applied"}, generation : Generations,
             files : SUBSET Files] /\ e.generation = s.generation
  BY <1>2
<1> HIDE DEF e
<1>4. TypeOK'
  BY <1>0, <1>1, <1>3 DEF TypeOK
<1>5. LoopInv'
  BY <1>0, <1>1 DEF LoopInv
<1>6. WorkerInv'
  BY <1>0, <1>1, SameWorker
<1>7. OrderInv'
  <2>1. Now' = Now /\ Now \in Nat
    BY <1>0, <1>1, EventFacts DEF Now
  <2> QED BY <1>0, <1>1, <2>1, SameOrder
<1>8. RefreshInv'
  <2>1. ScanPending => ScanPending'
    BY <1>1, <1>3 DEF ScanPending
  <2> QED BY <1>0, <1>1, <2>1, SameRefresh
<1> QED BY <1>4, <1>5, <1>6, <1>7, <1>8 DEF IInv

-----------------------------------------------------------------------------
(* The main loop *)

\* An event that leaves the world as it is.
LEMMA SameWorld ==
    ASSUME IInv, NEW tasks \in Seq(Tasks), NEW S \in SUBSET Files, Handled(world, tasks, S),
           UNCHANGED <<events, disk, scans, index, workerVars, shown>>,
           reports' \subseteq reports, internal' \subseteq internal, RefreshInv'
    PROVE  IInv'
<1>0. TypeOK /\ LoopInv /\ WorkerInv /\ OrderInv
  BY DEF IInv
<1>1. UNCHANGED <<events, disk, scans, index, worker, running, results, shown, workerVars>>
  BY DEF workerVars
<1>2. /\ UNCHANGED world /\ latest' = world
      /\ channel' \in [tasks : Seq(Tasks), refresh : SUBSET Files]
  BY <1>0, HandledFacts
<1>3. TypeOK'
  BY <1>0, <1>1, <1>2 DEF TypeOK
<1>4. LoopInv'
  BY <1>0, <1>1, <1>2 DEF LoopInv
<1>5. WorkerInv'
  BY <1>0, <1>1, SameWorker
<1>6. OrderInv'
  <2>1. Now' = Now /\ Now \in Nat
    BY <1>0, <1>1, EventFacts DEF Now
  <2> QED BY <1>0, <1>1, <1>2, <2>1, SameOrder
<1> QED BY <1>3, <1>4, <1>5, <1>6 DEF IInv

LEMMA ReportStep == ASSUME IInv, NEW r \in reports, Report(r) PROVE IInv'
<1> DEFINE g == world.generation
           tasks == IF r.old # r.new THEN <<Rename(r.old, r.new, g)>>
                    ELSE IF disk[r.old] = NoText THEN <<Delete(r.old, g)>>
                    ELSE Creates({r.old}, g)
<1>0. TypeOK
  BY DEF IInv
<1>1. r.old \in Files /\ r.new \in Files /\ {r.old} \in SUBSET Files
  BY <1>0 DEF TypeOK
<1>2. g \in Generations
  BY <1>0, WorldFacts
<1> HIDE DEF g
<1>3. tasks \in Seq(Tasks)
  <2>1. Creates({r.old}, g) \in Seq(Tasks)
    BY <1>1, <1>2, CreatesTyped
  <2>2. Rename(r.old, r.new, g) \in Tasks /\ Delete(r.old, g) \in Tasks
    BY <1>1, <1>2, TaskFacts
  <2>3. <<Rename(r.old, r.new, g)>> \in Seq(Tasks) /\ <<Delete(r.old, g)>> \in Seq(Tasks)
    BY <2>2
  <2> QED BY <2>1, <2>3
<1>4. /\ Handled(world, tasks, RefreshAll(world))
      /\ reports' \subseteq reports
      /\ UNCHANGED <<events, disk, scans, index, workerVars, internal, shown>>
  BY DEF Report, g
<1> HIDE DEF tasks
<1>5. RefreshAll(world) \in SUBSET Files
  BY DEF RefreshAll, Open
<1>6. world' = world /\ channel'.refresh = channel.refresh \cup RefreshAll(world)
  BY <1>0, <1>3, <1>4, <1>5, HandledFacts
<1>7. RefreshInv'
  BY <1>6, AllRefreshed DEF RefreshAll
<1>8. internal' \subseteq internal /\ UNCHANGED <<events, disk, scans, index, workerVars, shown>>
  BY <1>4
<1> QED BY <1>3, <1>4, <1>5, <1>7, <1>8, SameWorld

LEMMA HandleScanStep == ASSUME IInv, NEW e \in internal, HandleScan(e) PROVE IInv'
<1>0. TypeOK /\ RefreshInv
  BY DEF IInv
<1>1. /\ e.kind \in {"discovered", "applied"} /\ e.files \in SUBSET Files
      /\ world.generation \in Generations
  BY <1>0, WorldFacts DEF TypeOK
<1>2. /\ Handled(world, ScanTasks(e), ScanRefresh(e)) /\ internal' = internal \ {e}
      /\ UNCHANGED <<events, disk, reports, scans, index, workerVars, shown>>
      /\ UNCHANGED <<worker, scans>>
  BY DEF HandleScan, outside, workerVars
<1>3. Append(Creates(e.files, world.generation), FinishScan(world.generation)) \in Seq(Tasks)
      /\ Has(Append(Creates(e.files, world.generation), FinishScan(world.generation)),
             FinishScan(world.generation))
  <2>1. /\ Creates(e.files, world.generation) \in Seq(Tasks)
        /\ FinishScan(world.generation) \in Tasks
    BY <1>1, CreatesTyped, TaskFacts
  <2> QED BY <2>1 DEF Has
<1>4. ScanTasks(e) \in Seq(Tasks) /\ ScanRefresh(e) \in SUBSET Files
  <2>1. <<>> \in Seq(Tasks) /\ RefreshAll(world) \in SUBSET Files
    BY DEF RefreshAll, Open
  <2>2. CASE e.kind = "discovered" /\ e.generation = world.generation
    BY <1>3, <2>1, <2>2 DEF ScanTasks, ScanRefresh
  <2>3. CASE ~(e.kind = "discovered" /\ e.generation = world.generation)
    BY <2>1, <2>3 DEF ScanTasks, ScanRefresh
  <2> QED BY <2>2, <2>3
<1>5. /\ UNCHANGED world
      /\ channel'.refresh = channel.refresh \cup ScanRefresh(e)
      /\ \A t : Has(channel'.tasks, t) <=> Has(channel.tasks, t) \/ Has(ScanTasks(e), t)
  BY <1>0, <1>2, <1>4, HandledFacts
<1>6. RefreshInv'
  <2>1. CASE e.generation # world.generation
    <3>1. ScanTasks(e) = <<>> /\ ScanRefresh(e) = {}
      BY <2>1 DEF ScanTasks, ScanRefresh
    <3>2. UNCHANGED channel /\ latest' = world
      BY <1>0, <1>2, <3>1, HandledNothing
    <3>3. UNCHANGED latest
      BY <3>2 DEF IInv, LoopInv
    <3>4. ScanPending => ScanPending'
      BY <1>2, <1>5, <2>1, <3>2 DEF ScanPending
    <3> QED BY <1>0, <1>2, <1>5, <3>2, <3>3, <3>4, SameRefresh DEF loopVars
  <2>2. CASE e.generation = world.generation /\ e.kind = "applied"
    <3>1. ScanRefresh(e) = Open(world)
      BY <2>2 DEF ScanRefresh, RefreshAll
    <3> QED BY <1>5, <3>1, AllRefreshed
  <2>3. CASE e.generation = world.generation /\ e.kind = "discovered"
    <3>1. Has(ScanTasks(e), FinishScan(world.generation))
      BY <1>3, <2>3 DEF ScanTasks
    <3>2. Has(channel'.tasks, FinishScan(world'.generation))
      BY <1>5, <3>1
    <3>3. ScanPending'
      BY <3>2 DEF ScanPending
    <3> QED BY <3>3, ScanRefreshes
  <2> QED BY <1>1, <2>1, <2>2, <2>3
<1>7. /\ internal' \subseteq internal /\ reports' \subseteq reports
      /\ UNCHANGED <<events, disk, scans, index, workerVars, shown>>
  BY <1>2
<1> QED BY <1>2, <1>4, <1>6, <1>7, SameWorld

LEMMA WithTextFacts ==
    ASSUME TypeOK, NEW u \in Files, NEW t \in Written \cup {NoText}
    PROVE  /\ WithText(u, t) \in Worlds
           /\ WithText(u, t).folders = world.folders
           /\ WithText(u, t).generation = world.generation
           /\ \A v \in Files : WithText(u, t).documents[v] =
                                 IF v = u THEN t ELSE world.documents[v]
<1>1. world \in Worlds
  BY DEF TypeOK
<1>2. WithText(u, t) = [world EXCEPT !.documents = [world.documents EXCEPT ![u] = t]]
  BY DEF WithText
<1>3. world.documents \in [Files -> Written \cup {NoText}]
  BY <1>1 DEF Worlds
<1>4. /\ WithText(u, t).documents = [world.documents EXCEPT ![u] = t]
      /\ WithText(u, t).folders = world.folders
      /\ WithText(u, t).generation = world.generation
      /\ WithText(u, t) \in Worlds
  BY <1>1, <1>2, <1>3 DEF Worlds
<1> QED BY <1>3, <1>4

\* A document is opened or changed, and everything is to be refreshed.
LEMMA NewText ==
    ASSUME IInv, NEW u \in Files, NewEdit, NEW tasks \in Seq(Tasks),
           Handled(WithText(u, Now), tasks, Open(WithText(u, Now))),
           UNCHANGED <<outside, index, workerVars, internal, shown>>
    PROVE  IInv'
<1>0. TypeOK /\ LoopInv /\ WorkerInv /\ OrderInv
  BY DEF IInv
<1>1. UNCHANGED <<disk, reports, scans, index, worker, running, results, internal, shown, workerVars>>
  BY DEF outside, workerVars
<1>2. /\ events' \in [edits : 0..MaxEdits, changes : 0..MaxChanges]
      /\ Now \in Nat /\ Now \in Written /\ Now' = Now + 1 /\ events'.changes = events.changes
  BY <1>0, EventFacts
<1>3. Open(WithText(u, Now)) \in SUBSET Files
  BY DEF Open
<1>4. /\ world' = WithText(u, Now) /\ latest' = WithText(u, Now)
      /\ channel' \in [tasks : Seq(Tasks), refresh : SUBSET Files]
      /\ channel'.refresh = channel.refresh \cup Open(WithText(u, Now))
  BY <1>0, <1>3, HandledFacts
<1>5. /\ world' \in Worlds /\ world'.folders = world.folders
      /\ world'.generation = world.generation
      /\ \A v \in Files : world'.documents[v] = IF v = u THEN Now ELSE world.documents[v]
  BY <1>0, <1>2, <1>4, WithTextFacts
<1>6. TypeOK'
  BY <1>0, <1>1, <1>2, <1>4, <1>5 DEF TypeOK
<1>7. LoopInv'
  BY <1>0, <1>2, <1>4, <1>5 DEF LoopInv
<1>8. WorkerInv'
  BY <1>0, <1>1, SameWorker
<1>9. OrderInv'
  <2>1. \A v \in Files : world'.documents[v] < Now' /\ shown'[v].text < Now'
    BY <1>0, <1>1, <1>2, <1>5, WorldFacts DEF OrderInv
  <2>2. \A p \in results' : p.found.text < Now' /\ shown'[p.file].text <= p.found.text
    BY <1>0, <1>1, <1>2, WorldFacts DEF OrderInv
  <2>3. \A v \in Open(world)' : v = u \/ v \in Open(world)
    BY <1>5 DEF Open
  <2>4. \A v \in Open(world)' : shown'[v].text <= world'.documents[v]
    <3> SUFFICES ASSUME NEW v \in Open(world)' PROVE shown'[v].text <= world'.documents[v]
      OBVIOUS
    <3>1. v \in Files
      BY DEF Open
    <3>2. CASE v = u
      BY <1>0, <1>1, <1>2, <1>5, <3>1, <3>2, WorldFacts DEF OrderInv
    <3>3. CASE v # u
      BY <1>0, <1>1, <1>5, <2>3, <3>1, <3>3 DEF OrderInv
    <3> QED BY <3>2, <3>3
  <2>5. \A p \in results' : p.file \in Open(world)' => p.found.text <= world'.documents[p.file]
    <3> SUFFICES ASSUME NEW p \in results, p.file \in Open(world)'
                 PROVE  p.found.text <= world'.documents[p.file]
      BY <1>1
    <3>1. p.file \in Files /\ p.found.text \in Int
      BY <1>0, WorldFacts
    <3>2. CASE p.file = u
      BY <1>0, <1>2, <1>5, <3>1, <3>2 DEF OrderInv
    <3>3. CASE p.file # u
      BY <1>0, <1>5, <2>3, <3>1, <3>3 DEF OrderInv
    <3> QED BY <3>2, <3>3
  <2> QED BY <2>1, <2>2, <2>4, <2>5 DEF OrderInv
<1>10. RefreshInv'
  BY <1>4, AllRefreshed
<1> QED BY <1>6, <1>7, <1>8, <1>9, <1>10 DEF IInv

LEMMA DidOpenStep == ASSUME IInv, NEW u \in Documents, DidOpen(u) PROVE IInv'
<1>1. u \in Files /\ <<>> \in Seq(Tasks)
  BY QueueAssumption
<1> QED BY <1>1, NewText DEF DidOpen, OpenedTasks, RefreshAll

LEMMA DidChangeStep == ASSUME IInv, NEW u \in Documents, DidChange(u) PROVE IInv'
<1> DEFINE w == WithText(u, Now)
<1>1. u \in Files /\ TypeOK
  BY QueueAssumption DEF IInv
<1>2. Now \in Written
  BY <1>1, EventFacts DEF DidChange
<1>3. w \in Worlds /\ w.documents[u] = Now
  BY <1>1, <1>2, WithTextFacts
<1>4. {u} \in SUBSET Open(w)
  BY <1>1, <1>2, <1>3, NumberFacts DEF Open
<1>5. Handled(w, Updates(w, {u}), Open(w))
  BY DEF DidChange, RefreshAll
<1> HIDE DEF w
<1>6. Updates(w, {u}) \in Seq(Tasks)
  BY <1>3, <1>4, UpdatesTyped
<1> QED BY <1>1, <1>5, <1>6, NewText DEF DidChange, w

\* What is left open is as current as it was.
LEMMA DidCloseStep == ASSUME IInv, NEW u \in Documents, DidClose(u) PROVE IInv'
<1>0. TypeOK /\ LoopInv /\ WorkerInv /\ OrderInv /\ RefreshInv /\ u \in Files
  BY QueueAssumption DEF IInv
<1>1. /\ UNCHANGED <<disk, reports, scans, index, worker, running, results, internal, workerVars>>
      /\ NewEdit /\ shown' = [shown EXCEPT ![u] = Nothing]
      /\ Handled(WithText(u, NoText), <<>>, {})
  BY DEF DidClose, outside, workerVars
<1>2. /\ events' \in [edits : 0..MaxEdits, changes : 0..MaxChanges]
      /\ Now \in Nat /\ Now' = Now + 1 /\ events'.changes = events.changes
  BY <1>0, <1>1, EventFacts
<1>3. world' = WithText(u, NoText) /\ latest' = WithText(u, NoText) /\ UNCHANGED channel
  BY <1>0, <1>1, HandledNothing
<1>4. /\ world' \in Worlds /\ world'.folders = world.folders
      /\ world'.generation = world.generation
      /\ \A v \in Files : world'.documents[v] = IF v = u THEN NoText ELSE world.documents[v]
  BY <1>0, <1>3, WithTextFacts
<1>5. /\ shown' \in [Files -> Findings \cup {Nothing}]
      /\ \A v \in Files : shown'[v] = IF v = u THEN Nothing ELSE shown[v]
  BY <1>0, <1>1 DEF TypeOK
<1>6. TypeOK'
  BY <1>0, <1>1, <1>2, <1>3, <1>4, <1>5 DEF TypeOK
<1>7. LoopInv'
  BY <1>0, <1>2, <1>3, <1>4 DEF LoopInv
<1>8. WorkerInv'
  BY <1>0, <1>1, SameWorker
<1>9. \A v \in Open(world)' : v # u /\ v \in Open(world) /\ v \in Files
  BY <1>4 DEF Open
<1>10. Nothing.text = -1 /\ NoText = -1
  BY DEF Nothing, NoText
<1>11. OrderInv'
  <2>1. \A v \in Files : world'.documents[v] < Now' /\ shown'[v].text < Now'
    BY <1>0, <1>2, <1>4, <1>5, <1>10, WorldFacts DEF OrderInv
  <2>2. \A p \in results' : p.found.text < Now' /\ shown'[p.file].text <= p.found.text
    <3> SUFFICES ASSUME NEW p \in results
                 PROVE  p.found.text < Now' /\ shown'[p.file].text <= p.found.text
      BY <1>1
    <3>1. p.file \in Files /\ p.found.text \in Int /\ p.found.text < Now
          /\ shown[p.file].text <= p.found.text
      BY <1>0, WorldFacts DEF OrderInv
    <3>2. p.found.text \in Written
      BY <1>0 DEF TypeOK, Findings
    <3>3. p.found.text > 0
      BY <3>1, <3>2, NumberFacts
    <3> QED BY <1>2, <1>5, <1>10, <3>1, <3>3
  <2>3. \A v \in Open(world)' : shown'[v].text <= world'.documents[v]
    BY <1>0, <1>4, <1>5, <1>9 DEF OrderInv
  <2>4. \A p \in results' : p.file \in Open(world)' => p.found.text <= world'.documents[p.file]
    BY <1>0, <1>1, <1>4, <1>9 DEF OrderInv
  <2> QED BY <2>1, <2>2, <2>3, <2>4 DEF OrderInv
<1>12. RefreshInv'
  <2>1. ScanPending' <=> ScanPending
    BY <1>1, <1>3, <1>4 DEF ScanPending
  <2>2. \A v \in Files : RefreshPending(v)' <=> RefreshPending(v)
    BY <1>1, <1>3, <2>1 DEF RefreshPending
  <2>3. \A v \in Open(world)' : Diagnosis(v)' = Diagnosis(v)
    BY <1>0, <1>1, <1>3, <1>4, <1>9 DEF Diagnosis, LoopInv
  <2>4. \A v \in Open(world)' : Current(v) => Current(v)'
    <3> SUFFICES ASSUME NEW v \in Open(world)', Current(v) PROVE Current(v)'
      OBVIOUS
    <3>1. v # u /\ v \in Files /\ Diagnosis(v)' = Diagnosis(v) /\ shown'[v] = shown[v]
      BY <1>5, <1>9, <2>3
    <3> QED BY <1>1, <2>2, <3>1 DEF Current
  <2> QED BY <1>0, <1>1, <1>3, <1>4, <1>9, <2>1, <2>2, <2>4 DEF RefreshInv
<1> QED BY <1>6, <1>7, <1>8, <1>11, <1>12 DEF IInv

LEMMA DidChangeWorkspaceFoldersStep ==
    ASSUME IInv, NEW F \in SUBSET Roots, DidChangeWorkspaceFolders(F)
    PROVE  IInv'
<1> DEFINE w == WithFolders(F)
           within == {u \in Open(w) : Within(u, F)}
<1>0. TypeOK /\ LoopInv /\ WorkerInv /\ OrderInv
  BY DEF IInv
<1>1. /\ UNCHANGED <<disk, reports, worker, running, results, internal, shown, workerVars>>
      /\ NewChange
      /\ IF within = {} THEN Handled(w, <<>>, {}) ELSE Handled(w, Updates(w, within), RefreshAll(w))
      /\ index' = WithoutRoots(world.folders \ F, F)
      /\ scans' = scans \cup StartScan(w)
  BY DEF DidChangeWorkspaceFolders, workerVars
<1>2. /\ events' \in [edits : 0..MaxEdits, changes : 0..MaxChanges]
      /\ Now \in Nat /\ Now' = Now + 1 /\ events'.changes = events.changes + 1
      /\ events.changes + 2 \in Generations /\ events.changes \in Nat
  BY <1>0, <1>1, EventFacts
<1>3. /\ w.documents = world.documents /\ w.folders = F
      /\ w.generation = world.generation + 1
      /\ w = [documents |-> world.documents, folders |-> F, generation |-> world.generation + 1]
  <2>1. world \in [documents : [Files -> Written \cup {NoText}], folders : SUBSET Roots,
                   generation : Nat]
    BY <1>0, NumberFacts DEF TypeOK, Worlds
  <2>2. w = [world EXCEPT !.folders = F, !.generation = world.generation + 1]
    BY DEF WithFolders
  <2> QED BY <2>1, <2>2
<1>4. w.generation \in Generations /\ w.generation <= events'.changes + 1
  <2>1. world.generation \in Nat \ {0} /\ world.generation <= events.changes + 1
    BY <1>0, WorldFacts, NumberFacts DEF LoopInv
  <2> QED BY <1>2, <1>3, <2>1, NumberFacts DEF Generations
<1>5. w \in Worlds
  BY <1>0, <1>3, <1>4, WorldFacts DEF Worlds
<1> HIDE DEF w
<1>6. within \in SUBSET Open(w) /\ Open(w) \in SUBSET Files
  BY DEF Open
<1> HIDE DEF within
<1>7. PICK tasks \in Seq(Tasks), S \in SUBSET Files : Handled(w, tasks, S)
  <2>1. <<>> \in Seq(Tasks) /\ {} \in SUBSET Files
    OBVIOUS
  <2>2. Updates(w, within) \in Seq(Tasks) /\ RefreshAll(w) \in SUBSET Files
    BY <1>5, <1>6, UpdatesTyped DEF RefreshAll
  <2>3. \/ Handled(w, <<>>, {})
        \/ Handled(w, Updates(w, within), RefreshAll(w))
    BY <1>1
  <2> QED BY <2>1, <2>2, <2>3
<1>8. /\ world' = w /\ latest' = w
      /\ channel' \in [tasks : Seq(Tasks), refresh : SUBSET Files]
  BY <1>0, <1>7, HandledFacts
<1>9. index' \in Indexes
  <2>1. index \in [Files -> Written \cup {Cleared, NoText}]
    BY <1>0 DEF TypeOK, Indexes
  <2> QED BY <1>1, <2>1 DEF WithoutRoots, Indexes
<1>10. scans' \subseteq [generation : Generations, roots : SUBSET Roots]
  <2>1. StartScan(w) \subseteq [generation : Generations, roots : SUBSET Roots]
    BY <1>3, <1>4 DEF StartScan
  <2> QED BY <1>0, <1>1, <2>1 DEF TypeOK
<1>11. TypeOK'
  BY <1>0, <1>1, <1>2, <1>5, <1>8, <1>9, <1>10 DEF TypeOK
<1>12. LoopInv'
  BY <1>4, <1>8 DEF LoopInv
<1>13. WorkerInv'
  BY <1>0, <1>1, SameWorker
<1>14. OrderInv'
  BY <1>0, <1>1, <1>2, <1>3, <1>8, SameOrder
<1>15. RefreshInv'
  <2>1. CASE F = {}
    BY <1>3, <1>8, <2>1 DEF RefreshInv
  <2>2. CASE F # {}
    <3>1. StartScan(w) = {[generation |-> w.generation, roots |-> w.folders]}
      BY <1>3, <2>2 DEF StartScan
    <3>2. [generation |-> w.generation, roots |-> w.folders] \in scans'
      BY <1>1, <3>1
    <3>3. \E s \in scans' : s.generation = w.generation
      BY <3>2
    <3>4. ScanPending'
      BY <1>8, <3>3 DEF ScanPending
    <3> QED BY <3>4, ScanRefreshes
  <2> QED BY <2>1, <2>2
<1> QED BY <1>11, <1>12, <1>13, <1>14, <1>15 DEF IInv

-----------------------------------------------------------------------------
(* The worker *)

Workers == [phase : {"drain", "index", "apply"}, chunk : Seq(Tasks), batch : Seq(Tasks),
            refresh : SUBSET Files]

LEMMA WorkerFacts ==
    ASSUME TypeOK
    PROVE  /\ worker \in Workers /\ worker.chunk \in Seq(Tasks) /\ worker.batch \in Seq(Tasks)
           /\ worker.refresh \in SUBSET Files /\ Len(worker.chunk) \in Nat
           /\ Len(worker.chunk) <= MAX_INDEXER_BATCH
           /\ channel.tasks \in Seq(Tasks) /\ channel.refresh \in SUBSET Files
BY DEF TypeOK, Workers

LEMMA DrainStep == ASSUME IInv, Drain PROVE IInv'
<1> DEFINE all == worker.batch \o channel.tasks
           split == SplitOff(all)
<1>0. TypeOK /\ LoopInv /\ WorkerInv /\ OrderInv /\ RefreshInv
  BY DEF IInv
<1>1. /\ UNCHANGED <<events, disk, reports, scans, world, latest, index, running, results,
                     internal, shown>>
      /\ At("drain") /\ running = {} /\ results = {}
      /\ channel' = NoTasks
      /\ worker' = [phase |-> "index", chunk |-> split.chunk, batch |-> split.batch,
                    refresh |-> worker.refresh \cup channel.refresh]
  BY DEF Drain, outside, loopVars, AllPublished
<1>2. /\ all \in Seq(Tasks)
      /\ \A t : Has(all, t) <=> Has(worker.batch, t) \/ Has(channel.tasks, t)
      /\ HasIndexTask(all) <=> HasIndexTask(worker.batch) \/ HasIndexTask(channel.tasks)
  BY <1>0, WorkerFacts, ConcatHas
<1> HIDE DEF all
<1>3. /\ split.chunk \in Seq(Tasks) /\ split.batch \in Seq(Tasks)
      /\ Len(split.chunk) <= MAX_INDEXER_BATCH
      /\ \A t : Has(all, t) => Has(split.chunk, t) \/ Has(split.batch, t)
      /\ HasIndexTask(split.chunk) \/ HasIndexTask(split.batch) => HasIndexTask(all)
  BY <1>2, SplitOffFacts
<1> HIDE DEF split
<1>4. /\ worker'.phase = "index" /\ worker'.chunk = split.chunk /\ worker'.batch = split.batch
      /\ worker'.refresh = worker.refresh \cup channel.refresh
      /\ channel'.tasks = <<>> /\ channel'.refresh = {}
  BY <1>1 DEF NoTasks
<1>5. worker' \in Workers /\ channel' \in [tasks : Seq(Tasks), refresh : SUBSET Files]
  BY <1>0, <1>1, <1>3, WorkerFacts DEF Workers, NoTasks
<1>6. TypeOK'
  BY <1>0, <1>1, <1>3, <1>4, <1>5 DEF TypeOK, Workers
<1>7. LoopInv'
  BY <1>0, <1>1 DEF LoopInv
<1>8. WorkerInv'
  BY <1>1, <1>4 DEF WorkerInv, At
<1>9. OrderInv'
  <2>1. Now' = Now /\ Now \in Nat
    BY <1>0, <1>1, EventFacts DEF Now
  <2> QED BY <1>0, <1>1, <2>1, SameOrder
<1>10. RefreshInv'
  <2>0. worker.chunk = <<>>
    BY <1>0, <1>1 DEF WorkerInv
  <2>1. \A t : Has(channel.tasks, t) \/ Has(worker.chunk, t) \/ Has(worker.batch, t)
               => Has(worker'.chunk, t) \/ Has(worker'.batch, t)
    BY <1>2, <1>3, <1>4, <2>0, EmptyHasNone
  <2>2. ScanPending => ScanPending'
    <3>1. Has(channel.tasks, FinishScan(world.generation))
            \/ Has(worker.chunk, FinishScan(world.generation))
            \/ Has(worker.batch, FinishScan(world.generation))
          => Has(worker'.chunk, FinishScan(world.generation))
             \/ Has(worker'.batch, FinishScan(world.generation))
      BY <2>1
    <3> QED BY <1>1, <3>1 DEF ScanPending
  <2>3. \A u \in Files : RefreshPending(u) => RefreshPending(u)'
    BY <1>4, <2>2 DEF RefreshPending
  <2>4. HasIndexTask(worker'.chunk) \/ HasIndexTask(worker'.batch)
          => HasIndexTask(worker.batch) \/ HasIndexTask(channel.tasks)
    BY <1>2, <1>3, <1>4
  <2>5. ~HasIndexTask(channel'.tasks)
    BY <1>4, EmptyHasNone
  <2>6. \A u \in Files : Current(u) => Current(u)'
    BY <1>1, <2>3 DEF Current, Diagnosis
  <2>7. \A u \in Files : u \in channel.refresh \/ ScanPending => RefreshPending(u)'
    BY <2>3 DEF RefreshPending
  <2> SUFFICES ASSUME world.folders # {}, NEW u \in Open(world)
               PROVE  /\ HasIndexTask(worker'.chunk) \/ HasIndexTask(worker'.batch)
                           => RefreshPending(u)'
                      /\ Current(u)'
    BY <1>1, <2>5 DEF RefreshInv, Open
  <2>8. u \in Files
    BY DEF Open
  <2> QED BY <1>0, <2>3, <2>4, <2>6, <2>7, <2>8 DEF RefreshInv
<1> QED BY <1>6, <1>7, <1>8, <1>9, <1>10 DEF IInv

\* The worker is done with the first task of its chunk; nothing else but the index and
\* the events to come may change.
LEMMA TaskDone ==
    ASSUME IInv, ~At("drain"), worker.chunk # <<>>,
           worker' = [worker EXCEPT !.phase = "index", !.chunk = Tail(worker.chunk)],
           UNCHANGED <<events, outside, loopVars, channel, running, results, shown>>,
           index' \in Indexes, internal \subseteq internal',
           internal' \subseteq [kind : {"discovered", "applied"}, generation : Generations,
                                files : SUBSET Files],
           index' # index => Head(worker.chunk).kind # "finish",
           Head(worker.chunk) = FinishScan(world.generation) =>
              \E e \in internal' : e.generation = world.generation
    PROVE  IInv'
<1>0. TypeOK /\ LoopInv /\ WorkerInv /\ OrderInv /\ RefreshInv
  BY DEF IInv
<1>1. UNCHANGED <<events, disk, reports, scans, world, latest, channel, running, results, shown>>
  BY DEF outside, loopVars
<1>2. /\ Tail(worker.chunk) \in Seq(Tasks) /\ Len(Tail(worker.chunk)) <= Len(worker.chunk)
      /\ Len(Tail(worker.chunk)) \in Nat
      /\ \A t : Has(worker.chunk, t) => t = Head(worker.chunk) \/ Has(Tail(worker.chunk), t)
      /\ HasIndexTask(Tail(worker.chunk)) => HasIndexTask(worker.chunk)
      /\ Head(worker.chunk).kind # "finish" => HasIndexTask(worker.chunk)
  BY <1>0, WorkerFacts, TailHas
<1>3. /\ worker'.phase = "index" /\ worker'.chunk = Tail(worker.chunk)
      /\ worker'.batch = worker.batch /\ worker'.refresh = worker.refresh
      /\ worker' \in Workers
  BY <1>0, <1>2, WorkerFacts DEF Workers
<1>4. TypeOK'
  <2>1. Len(worker'.chunk) <= MAX_INDEXER_BATCH
    BY <1>0, <1>2, <1>3, WorkerFacts, NumberFacts
  <2> QED BY <1>0, <1>1, <1>3, <2>1 DEF TypeOK, Workers
<1>5. LoopInv'
  BY <1>0, <1>1 DEF LoopInv
<1>6. WorkerInv'
  BY <1>0, <1>1, <1>3 DEF WorkerInv, At
<1>7. OrderInv'
  <2>1. Now' = Now /\ Now \in Nat
    BY <1>0, <1>1, EventFacts DEF Now
  <2> QED BY <1>0, <1>1, <2>1, SameOrder
<1>8. RefreshInv'
  <2>1. ScanPending => ScanPending'
    <3>1. Has(worker.chunk, FinishScan(world.generation)) =>
             \/ Has(worker'.chunk, FinishScan(world.generation))
             \/ \E e \in internal' : e.generation = world.generation
      BY <1>2, <1>3
    <3> QED BY <1>1, <1>3, <3>1 DEF ScanPending
  <2>2. \A u \in Files : RefreshPending(u) => RefreshPending(u)'
    BY <1>1, <1>3, <2>1 DEF RefreshPending
  <2>3. running = {} /\ results = {}
    BY <1>0 DEF WorkerInv
  <2> SUFFICES ASSUME world.folders # {}, NEW u \in Open(world)
               PROVE  /\ HasIndexTask(channel.tasks) => u \in channel.refresh \/ ScanPending'
                      /\ HasIndexTask(worker'.chunk) \/ HasIndexTask(worker'.batch)
                           => RefreshPending(u)'
                      /\ Current(u)'
    BY <1>1 DEF RefreshInv, Open
  <2>4. u \in Files
    BY DEF Open
  <2>5. /\ HasIndexTask(channel.tasks) => u \in channel.refresh \/ ScanPending
        /\ HasIndexTask(worker.chunk) \/ HasIndexTask(worker.batch) => RefreshPending(u)
        /\ Current(u)
    BY <1>0 DEF RefreshInv
  <2>6. Current(u)'
    <3>1. CASE UNCHANGED index
      BY <1>1, <2>2, <2>4, <2>5, <3>1 DEF Current, Diagnosis
    <3>2. CASE index' # index
      BY <1>2, <2>2, <2>4, <2>5, <3>2 DEF Current
    <3> QED BY <3>1, <3>2
  <2> QED BY <1>2, <1>3, <2>1, <2>2, <2>4, <2>5, <2>6
<1> QED BY <1>4, <1>5, <1>6, <1>7, <1>8 DEF IInv

LEMMA CheckTaskStep == ASSUME IInv, CheckTask PROVE IInv'
<1>0. TypeOK /\ LoopInv /\ WorkerInv /\ OrderInv /\ RefreshInv
  BY DEF IInv
<1>1. /\ At("index") /\ worker.chunk # <<>> /\ Head(worker.chunk).kind # "finish"
      /\ UNCHANGED <<events, outside, loopVars, index, channel, running, results, internal, shown>>
  BY DEF CheckTask
<1>2. UNCHANGED <<events, disk, reports, scans, world, latest, index, channel, running, results,
                  internal, shown>>
  BY <1>1 DEF outside, loopVars
<1>3. worker.phase = "index" /\ worker \in Workers
  BY <1>0, <1>1, WorkerFacts DEF At
<1>4. CASE worker' = [worker EXCEPT !.phase = "apply"]
  <2>1. /\ worker'.phase = "apply" /\ worker'.chunk = worker.chunk
        /\ worker'.batch = worker.batch /\ worker'.refresh = worker.refresh
        /\ worker' \in Workers
    BY <1>3, <1>4 DEF Workers
  <2>2. TypeOK'
    BY <1>0, <1>2, <2>1 DEF TypeOK, Workers
  <2>3. LoopInv'
    BY <1>0, <1>2 DEF LoopInv
  <2>4. WorkerInv'
    BY <1>0, <1>1, <1>2, <1>3, <2>1 DEF WorkerInv, At
  <2>5. OrderInv'
    <3>1. Now' = Now /\ Now \in Nat
      BY <1>0, <1>2, EventFacts DEF Now
    <3> QED BY <1>0, <1>2, <3>1, SameOrder
  <2>6. RefreshInv'
    <3>1. ScanPending => ScanPending'
      BY <1>2, <2>1 DEF ScanPending
    <3>2. \A u \in Files : RefreshPending(u) => RefreshPending(u)'
      BY <1>2, <2>1, <3>1 DEF RefreshPending
    <3>3. \A u \in Files : Current(u) => Current(u)'
      BY <1>2, <3>2 DEF Current, Diagnosis
    <3> QED BY <1>0, <1>2, <2>1, <3>1, <3>2, <3>3 DEF RefreshInv, Open
  <2> QED BY <2>2, <2>3, <2>4, <2>5, <2>6 DEF IInv
<1>5. CASE worker' = [worker EXCEPT !.chunk = Tail(worker.chunk)]
  <2>1. worker' = [worker EXCEPT !.phase = "index", !.chunk = Tail(worker.chunk)]
    BY <1>3, <1>5 DEF Workers
  <2>2. /\ index' \in Indexes /\ internal' = internal /\ index' = index
        /\ internal' \subseteq [kind : {"discovered", "applied"}, generation : Generations,
                                files : SUBSET Files]
    BY <1>0, <1>2 DEF TypeOK
  <2>3. Head(worker.chunk) # FinishScan(world.generation)
    BY <1>1 DEF FinishScan
  <2>4. ~At("drain")
    BY <1>3 DEF At
  <2> QED BY <1>1, <2>1, <2>2, <2>3, <2>4, TaskDone
<1> QED BY <1>4, <1>5 DEF CheckTask

\* What the indexer writes is an index.
LEMMA AppliedTyped ==
    ASSUME TypeOK, NEW t \in Tasks, t.kind # "finish"
    PROVE  Applied(index, t) \in Indexes
<1>1. /\ index \in [Files -> Written \cup {Cleared, NoText}]
      /\ disk \in [Files -> Written \cup {NoText}]
  BY DEF TypeOK, Indexes
<1>2. /\ t.kind \in {"create", "update", "delete", "rename"} /\ t.file \in Files
      /\ t.kind = "update" => t.text \in Written
      /\ t.kind = "rename" => t.new \in Files
  BY DEF Tasks
<1>3. Clear(index, t.file) \in Indexes
  BY <1>1, <1>2 DEF Clear, Indexes
<1>4. \A x \in Written : IndexText(index, t.file, x) \in Indexes
  BY <1>1, <1>2 DEF IndexText, Indexes
<1>5. CASE t.kind = "create"
  <2>1. Applied(index, t) = IF disk[t.file] = NoText THEN Clear(index, t.file)
                            ELSE IndexText(index, t.file, disk[t.file])
    BY <1>5 DEF Applied
  <2>2. disk[t.file] # NoText => disk[t.file] \in Written
    BY <1>1, <1>2
  <2> QED BY <1>3, <1>4, <2>1, <2>2
<1>6. CASE t.kind = "update"
  <2>1. Applied(index, t) = IndexText(index, t.file, t.text)
    BY <1>6 DEF Applied
  <2> QED BY <1>2, <1>4, <1>6, <2>1
<1>7. CASE t.kind = "delete"
  <2>1. Applied(index, t) = Clear(index, t.file)
    BY <1>7 DEF Applied
  <2> QED BY <1>3, <2>1
<1>8. CASE t.kind = "rename"
  <2>1. Applied(index, t) = IF index[t.file] = NoText THEN index
                            ELSE [index EXCEPT ![t.new] = index[t.file], ![t.file] = NoText]
    BY <1>8 DEF Applied
  <2> QED BY <1>1, <1>2, <1>8, <2>1 DEF Indexes
<1> QED BY <1>2, <1>5, <1>6, <1>7, <1>8

LEMMA ApplyTaskStep == ASSUME IInv, ApplyTask PROVE IInv'
<1>0. TypeOK /\ LoopInv /\ WorkerInv
  BY DEF IInv
<1>1. /\ At("apply") /\ index' = Applied(index, Head(worker.chunk))
      /\ worker' = [worker EXCEPT !.phase = "index", !.chunk = Tail(worker.chunk)]
      /\ UNCHANGED <<events, outside, loopVars, channel, running, results, internal, shown>>
  BY DEF ApplyTask
<1>2. ~At("drain") /\ worker.chunk # <<>> /\ Head(worker.chunk).kind # "finish"
  BY <1>0, <1>1 DEF At, WorkerInv
<1>3. Head(worker.chunk) \in Tasks
  BY <1>0, <1>2, WorkerFacts, TailHas
<1>4. index' \in Indexes
  BY <1>0, <1>1, <1>2, <1>3, AppliedTyped
<1>5. /\ internal \subseteq internal'
      /\ internal' \subseteq [kind : {"discovered", "applied"}, generation : Generations,
                              files : SUBSET Files]
  BY <1>0, <1>1 DEF TypeOK
<1>6. Head(worker.chunk) # FinishScan(world.generation)
  BY <1>2 DEF FinishScan
<1> QED BY <1>1, <1>2, <1>4, <1>5, <1>6, TaskDone

LEMMA FinishWorkspaceScanStep == ASSUME IInv, FinishWorkspaceScan PROVE IInv'
<1> DEFINE e == [kind |-> "applied", generation |-> Head(worker.chunk).generation, files |-> {}]
<1>0. TypeOK
  BY DEF IInv
<1>1. /\ At("index") /\ worker.chunk # <<>> /\ Head(worker.chunk).kind = "finish"
      /\ internal' = internal \cup {e}
      /\ worker' = [worker EXCEPT !.chunk = Tail(worker.chunk)]
      /\ UNCHANGED <<events, outside, loopVars, index, channel, running, results, shown>>
  BY DEF FinishWorkspaceScan
<1>2. Head(worker.chunk) \in Tasks
  BY <1>0, <1>1, WorkerFacts, TailHas
<1>3. Head(worker.chunk).generation \in Generations
  BY <1>2 DEF Tasks
<1>4. /\ e \in [kind : {"discovered", "applied"}, generation : Generations, files : SUBSET Files]
      /\ e.generation = Head(worker.chunk).generation
  BY <1>3
<1> HIDE DEF e
<1>5. /\ internal \subseteq internal' /\ index' \in Indexes /\ index' = index
      /\ internal' \subseteq [kind : {"discovered", "applied"}, generation : Generations,
                              files : SUBSET Files]
  BY <1>0, <1>1, <1>4 DEF TypeOK
<1>6. Head(worker.chunk) = FinishScan(world.generation) =>
         \E ev \in internal' : ev.generation = world.generation
  BY <1>1, <1>4 DEF FinishScan
<1>7. /\ worker' = [worker EXCEPT !.phase = "index", !.chunk = Tail(worker.chunk)]
      /\ ~At("drain")
  <2>1. worker.phase = "index" /\ worker \in Workers
    BY <1>0, <1>1, WorkerFacts DEF At
  <2> QED BY <1>1, <2>1 DEF Workers, At
<1> QED BY <1>1, <1>5, <1>6, <1>7, TaskDone

\* The documents to refresh are being diagnosed, once no task is left that could change
\* the index they are diagnosed against.
LEMMA ChunkDoneStep == ASSUME IInv, ChunkDone PROVE IInv'
<1>0. TypeOK /\ LoopInv /\ WorkerInv /\ OrderInv /\ RefreshInv
  BY DEF IInv
<1>1. /\ UNCHANGED <<events, disk, reports, scans, world, latest, index, channel, results,
                     internal, shown>>
      /\ At("index") /\ worker.chunk = <<>> /\ running' = running \cup Due(worker)
      /\ worker' = [worker EXCEPT !.phase = "drain", !.refresh = worker.refresh \ Due(worker)]
  BY DEF ChunkDone, outside, loopVars
<1>2. Due(worker) \subseteq worker.refresh /\ Due(worker) \in SUBSET Files
  BY <1>0, WorkerFacts DEF Due
<1>3. /\ worker'.phase = "drain" /\ worker'.chunk = <<>> /\ worker'.batch = worker.batch
      /\ worker'.refresh = worker.refresh \ Due(worker)
      /\ worker' \in Workers
  BY <1>0, <1>1, <1>2, WorkerFacts DEF Workers
<1>4. running = {} /\ results = {}
  BY <1>0, <1>1 DEF WorkerInv, At
<1>5. TypeOK'
  <2>1. Len(worker'.chunk) <= MAX_INDEXER_BATCH
    BY <1>3, NumberFacts
  <2> QED BY <1>0, <1>1, <1>2, <1>3, <2>1 DEF TypeOK, Workers
<1>6. LoopInv'
  BY <1>0, <1>1 DEF LoopInv
<1>7. WorkerInv'
  BY <1>1, <1>3, <1>4 DEF WorkerInv, At
<1>8. OrderInv'
  <2>1. Now' = Now /\ Now \in Nat
    BY <1>0, <1>1, EventFacts DEF Now
  <2> QED BY <1>0, <1>1, <2>1, SameOrder
<1>9. RefreshInv'
  <2>1. ScanPending => ScanPending'
    BY <1>1, <1>3 DEF ScanPending
  <2>2. \A u \in Files : RefreshPending(u) => RefreshPending(u)' \/ u \in running'
    BY <1>1, <1>3, <2>1 DEF RefreshPending
  <2>3. \A u \in Files : Current(u) => Current(u)'
    BY <1>1, <2>2 DEF Current, Diagnosis
  <2>4. ~HasIndexTask(worker'.chunk)
    BY <1>3, EmptyHasNone
  <2>5. HasIndexTask(worker'.batch) => \A u \in Files : RefreshPending(u) => RefreshPending(u)'
    <3>1. ASSUME HasIndexTask(worker'.batch) PROVE Due(worker) = {}
      BY <1>3, <3>1, EmptyHasNone DEF Due
    <3> QED BY <1>1, <1>3, <2>1, <3>1 DEF RefreshPending
  <2> SUFFICES ASSUME world.folders # {}, NEW u \in Open(world)
               PROVE  /\ HasIndexTask(channel.tasks) => u \in channel.refresh \/ ScanPending'
                      /\ HasIndexTask(worker'.batch) => RefreshPending(u)'
                      /\ Current(u)'
    BY <1>1, <2>4 DEF RefreshInv, Open
  <2>6. u \in Files
    BY DEF Open
  <2>7. /\ HasIndexTask(channel.tasks) => u \in channel.refresh \/ ScanPending
        /\ HasIndexTask(worker.batch) => RefreshPending(u)
        /\ Current(u)
    BY <1>0 DEF RefreshInv
  <2> QED BY <1>3, <2>1, <2>3, <2>5, <2>6, <2>7
<1> QED BY <1>5, <1>6, <1>7, <1>8, <1>9 DEF IInv

LEMMA GenerateDiagnosticsStep ==
    ASSUME IInv, NEW u \in running, GenerateDiagnostics(u)
    PROVE  IInv'
<1> DEFINE p == [file |-> u, found |-> Diagnosis(u)]
<1>0. TypeOK /\ LoopInv /\ WorkerInv /\ OrderInv /\ RefreshInv /\ latest = world /\ u \in Files
  BY DEF IInv, LoopInv, TypeOK
<1>1. /\ UNCHANGED <<events, disk, reports, scans, world, latest, index, channel, worker,
                     internal, shown>>
      /\ running' = running \ {u}
      /\ results' = IF u \in Open(world) THEN results \cup {p} ELSE results
  BY <1>0 DEF GenerateDiagnostics, outside, loopVars
<1>2. /\ p.file = u /\ p.found = Diagnosis(u) /\ p.found.text = world.documents[u]
      /\ u \in Open(world) => p \in [file : Files, found : Findings]
  BY <1>0 DEF Diagnosis, Findings, TypeOK, Worlds, Open
<1>3. \A q \in results : q.file # u
  BY <1>0 DEF WorkerInv
<1> HIDE DEF p
<1>4. \A q \in results' : q \in results \/ (q = p /\ u \in Open(world))
  BY <1>1
<1>5. TypeOK'
  <2>1. results' \subseteq [file : Files, found : Findings]
    BY <1>0, <1>1, <1>2 DEF TypeOK
  <2>2. running' \subseteq Files
    BY <1>0, <1>1 DEF TypeOK
  <2> QED BY <1>0, <1>1, <2>1, <2>2 DEF TypeOK
<1>6. LoopInv'
  BY <1>0, <1>1 DEF LoopInv
<1>7. WorkerInv'
  <2>1. At("drain")
    BY <1>0 DEF WorkerInv
  <2>2. \A q \in results' : q.file \notin running'
    BY <1>0, <1>1, <1>2, <1>4 DEF WorkerInv
  <2>3. \A q, s \in results' : q.file = s.file => q = s
    BY <1>0, <1>2, <1>3, <1>4 DEF WorkerInv
  <2> QED BY <1>0, <1>1, <2>1, <2>2, <2>3 DEF WorkerInv, At
<1>8. OrderInv'
  <2>1. Now' = Now
    BY <1>1 DEF Now
  <2>2. \A q \in results' : /\ q.found.text < Now' /\ shown'[q.file].text <= q.found.text
                            /\ q.file \in Open(world)' => q.found.text <= world'.documents[q.file]
    <3> SUFFICES ASSUME NEW q \in results'
                 PROVE  /\ q.found.text < Now /\ shown[q.file].text <= q.found.text
                        /\ q.file \in Open(world) => q.found.text <= world.documents[q.file]
      BY <1>1, <2>1 DEF Open
    <3>1. CASE q \in results
      BY <1>0, <3>1 DEF OrderInv
    <3>2. CASE q = p /\ u \in Open(world)
      BY <1>0, <1>2, <3>2, WorldFacts DEF OrderInv
    <3> QED BY <1>4, <3>1, <3>2
  <2>3. Open(world)' = Open(world)
    BY <1>1 DEF Open
  <2> QED BY <1>0, <1>1, <2>1, <2>2, <2>3 DEF OrderInv
<1>9. RefreshInv'
  <2>1. ScanPending => ScanPending'
    BY <1>1 DEF ScanPending
  <2>2. \A v \in Files : RefreshPending(v) => RefreshPending(v)'
    BY <1>1, <2>1 DEF RefreshPending
  <2>3. \A v \in Files : Diagnosis(v)' = Diagnosis(v)
    BY <1>1 DEF Diagnosis
  <2>4. \A v \in Open(world) : Current(v) => Current(v)'
    <3> SUFFICES ASSUME NEW v \in Open(world), Current(v) PROVE Current(v)'
      OBVIOUS
    <3>1. v \in Files
      BY DEF Open
    <3>2. CASE v = u
      <4>1. p \in results' /\ p.file = v /\ p.found = Diagnosis(v)'
        BY <1>1, <1>2, <2>3, <3>1, <3>2
      <4> QED BY <4>1 DEF Current
    <3>3. CASE v # u
      <4>1. \A q \in results' : q.file = v => q \in results
        BY <1>2, <1>4, <3>3
      <4>2. results \subseteq results' /\ (v \in running => v \in running') /\ shown'[v] = shown[v]
        BY <1>1, <3>3
      <4> QED BY <2>2, <2>3, <3>1, <4>1, <4>2 DEF Current
    <3> QED BY <3>2, <3>3
  <2> QED BY <1>0, <1>1, <2>1, <2>2, <2>4 DEF RefreshInv, Open
<1> QED BY <1>5, <1>6, <1>7, <1>8, <1>9 DEF IInv

LEMMA PublishDiagnosticsStep ==
    ASSUME IInv, NEW p \in results, PublishDiagnostics(p)
    PROVE  IInv'
<1>0. TypeOK /\ LoopInv /\ WorkerInv /\ OrderInv /\ RefreshInv
  BY DEF IInv
<1>1. /\ UNCHANGED <<events, disk, reports, scans, world, latest, index, channel, worker, running,
                     internal>>
      /\ results' = results \ {p}
      /\ shown' = [shown EXCEPT ![p.file] = p.found]
  BY DEF PublishDiagnostics, outside, loopVars
<1>2. p.file \in Files /\ p.found \in Findings
  BY <1>0 DEF TypeOK
<1>3. /\ shown' \in [Files -> Findings \cup {Nothing}]
      /\ \A v \in Files : shown'[v] = IF v = p.file THEN p.found ELSE shown[v]
  BY <1>0, <1>1, <1>2 DEF TypeOK
<1>4. \A q \in results' : q \in results /\ q.file # p.file
  BY <1>0, <1>1 DEF WorkerInv
<1>5. TypeOK'
  BY <1>0, <1>1, <1>3 DEF TypeOK
<1>6. LoopInv'
  BY <1>0, <1>1 DEF LoopInv
<1>7. WorkerInv'
  <2>1. At("drain")
    BY <1>0 DEF WorkerInv
  <2> QED BY <1>0, <1>1, <1>4, <2>1 DEF WorkerInv, At
<1>8. OrderInv'
  <2>1. Now' = Now /\ Open(world)' = Open(world)
    BY <1>1 DEF Now, Open
  <2>2. \A v \in Files : world'.documents[v] < Now' /\ shown'[v].text < Now'
    BY <1>0, <1>1, <1>3, <2>1 DEF OrderInv
  <2>3. \A q \in results' : q.found.text < Now' /\ shown'[q.file].text <= q.found.text
    BY <1>0, <1>3, <1>4, <2>1, WorldFacts DEF OrderInv
  <2>4. \A v \in Open(world)' : shown'[v].text <= world'.documents[v]
    BY <1>0, <1>1, <1>3, <2>1 DEF OrderInv, Open
  <2>5. \A q \in results' : q.file \in Open(world)' => q.found.text <= world'.documents[q.file]
    BY <1>0, <1>1, <1>4, <2>1 DEF OrderInv
  <2> QED BY <2>2, <2>3, <2>4, <2>5 DEF OrderInv
<1>9. RefreshInv'
  <2>1. ScanPending => ScanPending'
    BY <1>1 DEF ScanPending
  <2>2. \A v \in Files : RefreshPending(v) => RefreshPending(v)'
    BY <1>1, <2>1 DEF RefreshPending
  <2>3. \A v \in Files : Diagnosis(v)' = Diagnosis(v)
    BY <1>1 DEF Diagnosis
  <2>4. \A v \in Open(world) : Current(v) => Current(v)'
    <3> SUFFICES ASSUME NEW v \in Open(world), Current(v) PROVE Current(v)'
      OBVIOUS
    <3>1. v \in Files
      BY DEF Open
    <3>2. CASE v = p.file /\ p.found = Diagnosis(v)
      <4>1. shown'[v] = Diagnosis(v)' /\ \A q \in results' : q.file # v
        BY <1>3, <1>4, <2>3, <3>1, <3>2
      <4> QED BY <4>1 DEF Current
    <3>3. CASE v = p.file /\ p.found # Diagnosis(v)
      <4>1. \A q \in results : q.file = v => q.found # Diagnosis(v)
        BY <1>0, <3>3 DEF WorkerInv
      <4>2. RefreshPending(v) \/ v \in running
        BY <3>3, <4>1 DEF Current
      <4> QED BY <1>1, <2>2, <3>1, <4>2 DEF Current
    <3>4. CASE v # p.file
      <4>1. shown'[v] = shown[v] /\ \A q \in results : q.file = v => q \in results'
        BY <1>1, <1>3, <3>1, <3>4
      <4> QED BY <1>1, <1>4, <2>2, <2>3, <3>1, <4>1 DEF Current
    <3> QED BY <3>2, <3>3, <3>4
  <2> QED BY <1>0, <1>1, <2>1, <2>2, <2>4 DEF RefreshInv, Open
<1> QED BY <1>5, <1>6, <1>7, <1>8, <1>9 DEF IInv

-----------------------------------------------------------------------------
(* The theorems *)

LEMMA InitIInv == Init => IInv
<1> SUFFICES ASSUME Init PROVE IInv
  OBVIOUS
<1>1. /\ events = [edits |-> 0, changes |-> 0] /\ events.edits = 0 /\ events.changes = 0
      /\ disk = [u \in Files |-> 1] /\ reports = {} /\ latest = world
      /\ world = [documents |-> [u \in Files |-> NoText], folders |-> InitialFolders,
                  generation |-> 1]
      /\ index = [u \in Files |-> NoText] /\ channel = NoTasks /\ worker = Idle
      /\ running = {} /\ results = {} /\ scans = StartScan(world) /\ internal = {}
      /\ shown = [u \in Files |-> Nothing]
  BY DEF Init
<1>2. /\ world.generation = 1 /\ world.folders = InitialFolders
      /\ \A u \in Files : world.documents[u] = NoText
  BY <1>1
<1>3. TypeOK
  <2>1. events \in [edits : 0..MaxEdits, changes : 0..MaxChanges]
    BY <1>1, NumberFacts
  <2>2. world \in Worlds
    BY <1>1, NumberFacts, QueueAssumption DEF Worlds
  <2>3. disk \in [Files -> Written \cup {NoText}] /\ index \in Indexes
    BY <1>1, NumberFacts DEF Indexes
  <2>4. channel \in [tasks : Seq(Tasks), refresh : SUBSET Files]
    BY <1>1 DEF NoTasks
  <2>5. worker \in Workers /\ Len(worker.chunk) <= MAX_INDEXER_BATCH
    BY <1>1, NumberFacts DEF Idle, Workers
  <2>6. scans \subseteq [generation : Generations, roots : SUBSET Roots]
    BY <1>1, <1>2, NumberFacts, QueueAssumption DEF StartScan
  <2> QED BY <1>1, <2>1, <2>2, <2>3, <2>4, <2>5, <2>6 DEF TypeOK, Workers
<1>4. LoopInv
  BY <1>1, <1>2 DEF LoopInv
<1>5. WorkerInv
  BY <1>1 DEF WorkerInv, At, Idle
<1>6. Open(world) = {}
  BY <1>2 DEF Open
<1>7. OrderInv
  BY <1>1, <1>2, <1>6 DEF OrderInv, Now, NoText, Nothing
<1>8. RefreshInv
  BY <1>6 DEF RefreshInv
<1> QED BY <1>3, <1>4, <1>5, <1>7, <1>8 DEF IInv

LEMMA NextIInv == IInv /\ [Next]_vars => IInv'
<1> SUFFICES ASSUME IInv, [Next]_vars PROVE IInv'
  OBVIOUS
<1>1. CASE Notification
  BY <1>1, DidOpenStep, DidChangeStep, DidCloseStep, DidChangeWorkspaceFoldersStep
     DEF Notification
<1>2. CASE FileSystem
  BY <1>2, WriteFileStep, MoveFileStep DEF FileSystem
<1>3. CASE Reporting
  BY <1>3, ReportStep DEF Reporting
<1>4. CASE Worker
  BY <1>4, DrainStep, CheckTaskStep, ApplyTaskStep, FinishWorkspaceScanStep, ChunkDoneStep,
     GenerateDiagnosticsStep, PublishDiagnosticsStep DEF Worker
<1>5. CASE Scanning
  BY <1>5, DiscoverStep, HandleScanStep DEF Scanning
<1>6. CASE UNCHANGED vars
  <2>0. TypeOK /\ LoopInv /\ WorkerInv /\ OrderInv /\ RefreshInv
    BY DEF IInv
  <2>1. /\ UNCHANGED <<events, disk, reports, world, latest, index, channel, worker, running,
                       results, scans, internal, shown>>
        /\ UNCHANGED <<loopVars, workerVars>>
    BY <1>6 DEF vars, loopVars, workerVars
  <2>2. TypeOK' /\ LoopInv'
    BY <2>0, <2>1 DEF TypeOK, LoopInv
  <2>3. WorkerInv'
    BY <2>0, <2>1, SameWorker
  <2>4. OrderInv'
    <3>1. Now' = Now /\ Now \in Nat
      BY <2>0, <2>1, EventFacts DEF Now
    <3> QED BY <2>0, <2>1, <3>1, SameOrder
  <2>5. RefreshInv'
    <3>1. ScanPending => ScanPending'
      BY <2>1 DEF ScanPending
    <3> QED BY <2>0, <2>1, <3>1, SameRefresh
  <2> QED BY <2>2, <2>3, <2>4, <2>5 DEF IInv
<1> QED BY <1>1, <1>2, <1>3, <1>4, <1>5, <1>6 DEF Next

LEMMA InvariantHolds == Spec => []IInv
BY InitIInv, NextIInv, PTL DEF Spec

\* Every reachable state of the indexer's queue is well typed, for any files, folders and
\* targets projects; no chunk has more than MAX_INDEXER_BATCH tasks.
THEOREM TypeCorrect == Spec => []TypeOK
<1>1. IInv => TypeOK
  BY DEF IInv
<1> QED BY <1>1, InvariantHolds, PTL

\* process_indexer_queue, whenever it comes to rest in a workspace with folders, has left
\* every open document with the diagnostics of its present text and the present index.
THEOREM SettledIsCurrent == Spec => []SettledDiagnosticsAreCurrent
<1>1. IInv => SettledDiagnosticsAreCurrent
  <2> SUFFICES ASSUME IInv, Settled, world.folders # {}, NEW u \in Open(world)
               PROVE  shown[u] = Diagnosis(u)
    BY DEF SettledDiagnosticsAreCurrent
  <2>1. /\ channel.tasks = <<>> /\ channel.refresh = {} /\ worker.chunk = <<>>
        /\ worker.batch = <<>> /\ worker.refresh = {}
        /\ running = {} /\ results = {} /\ scans = {} /\ internal = {}
    BY DEF Settled, NoTasks, Idle
  <2>2. ~ScanPending
    BY <2>1, EmptyHasNone DEF ScanPending
  <2>3. ~RefreshPending(u)
    BY <2>1, <2>2 DEF RefreshPending
  <2>4. Current(u)
    BY DEF IInv, RefreshInv
  <2> QED BY <2>1, <2>3, <2>4 DEF Current
<1> QED BY <1>1, InvariantHolds, PTL

\* The editor is never shown the diagnostics of an older text after those of a newer one.
\* Only a publication and did_close change what it shows; the result that is published
\* is no older than what is shown, since the worker waits for a round before the next.
THEOREM ShownInOrder == Spec => ResultsArriveInOrder
<1> DEFINE InOrder == \A u \in Files : shown[u] # Nothing /\ shown'[u] # Nothing
                                         => shown'[u].text >= shown[u].text
<1>1. ASSUME IInv, [Next]_vars PROVE [InOrder]_vars
  <2>0. TypeOK /\ OrderInv
    BY <1>1 DEF IInv
  <2>1. ASSUME UNCHANGED shown PROVE InOrder
    BY <2>0, <2>1, WorldFacts
  <2>2. ASSUME NEW u \in Documents, DidClose(u) PROVE InOrder
    <3>1. shown' = [shown EXCEPT ![u] = Nothing] /\ shown \in [Files -> Findings \cup {Nothing}]
      BY <2>0, <2>2 DEF DidClose, TypeOK
    <3>2. \A v \in Files : shown'[v] = Nothing \/ shown'[v] = shown[v]
      BY <3>1
    <3> QED BY <2>0, <3>2, WorldFacts
  <2>3. ASSUME NEW p \in results, PublishDiagnostics(p) PROVE InOrder
    <3>1. /\ shown' = [shown EXCEPT ![p.file] = p.found]
          /\ shown \in [Files -> Findings \cup {Nothing}]
      BY <2>0, <2>3 DEF PublishDiagnostics, TypeOK
    <3>2. \A v \in Files : shown'[v] = IF v = p.file THEN p.found ELSE shown[v]
      BY <3>1
    <3>3. shown[p.file].text <= p.found.text /\ p.found.text \in Int
      BY <2>0, WorldFacts DEF OrderInv
    <3> QED BY <2>0, <3>2, <3>3, WorldFacts
  <2>4. \/ UNCHANGED shown
        \/ \E u \in Documents : DidClose(u)
        \/ \E p \in results : PublishDiagnostics(p)
    BY <1>1 DEF Next, Notification, FileSystem, Reporting, Worker, Scanning, DidOpen, DidChange,
       DidChangeWorkspaceFolders, WriteFile, MoveFile, Report, Drain, CheckTask, ApplyTask,
       FinishWorkspaceScan, ChunkDone, GenerateDiagnostics, Discover, HandleScan, vars
  <2> QED BY <2>1, <2>2, <2>3, <2>4
<1> QED BY <1>1, InvariantHolds, PTL DEF Spec, ResultsArriveInOrder

\* The invariant says more than what holds at rest: at any time an open document of a
\* workspace with folders is to be refreshed, being diagnosed, or diagnosed against the
\* present index.
NoneIsForgotten == world.folders # {} => \A u \in Open(world) : Current(u)

\* No order of scans, chunks, edits and folder changes loses the refresh of a document.
THEOREM NothingForgotten == Spec => []NoneIsForgotten
<1>1. IInv => NoneIsForgotten
  BY DEF IInv, RefreshInv, NoneIsForgotten
<1> QED BY <1>1, InvariantHolds, PTL

-----------------------------------------------------------------------------
(* Texts, with folders or without *)

\* The safety half of OutdatedIsReplaced: an open document whose diagnostics are of an
\* older text is queued, being diagnosed, or its diagnostics are there to be published.
OutdatedIsOnItsWay ==
    \A u \in Open(world) :
       \/ u \in channel.refresh \/ u \in worker.refresh \/ u \in running
       \/ \E p \in results : p.file = u /\ p.found.text = world.documents[u]
       \/ shown[u].text = world.documents[u]

\* Steps that publish nothing, change no text and lose no refresh.
LEMMA SameTexts ==
    ASSUME OutdatedIsOnItsWay, world'.documents = world.documents, UNCHANGED shown,
           results \subseteq results',
           \A u \in Files : u \in channel.refresh \/ u \in worker.refresh \/ u \in running
              => u \in channel'.refresh \/ u \in worker'.refresh \/ u \in running'
    PROVE  OutdatedIsOnItsWay'
<1>1. Open(world)' = Open(world) /\ Open(world) \subseteq Files
  BY DEF Open
<1> QED BY <1>1 DEF OutdatedIsOnItsWay

\* What Handled does to the refreshes: it adds some.
LEMMA HandledRefreshes ==
    ASSUME NEW w, NEW tasks, NEW S, Handled(w, tasks, S)
    PROVE  world' = w /\ channel'.refresh = channel.refresh \cup S
BY DEF Handled

LEMMA NotificationTexts == IInv /\ OutdatedIsOnItsWay /\ Notification => OutdatedIsOnItsWay'
<1> SUFFICES ASSUME IInv, OutdatedIsOnItsWay, Notification PROVE OutdatedIsOnItsWay'
  OBVIOUS
<1>0. TypeOK
  BY DEF IInv
<1>1. ASSUME NEW u \in Documents, DidOpen(u) \/ DidChange(u) PROVE OutdatedIsOnItsWay'
  <2>1. /\ world' = WithText(u, Now)
        /\ channel'.refresh = channel.refresh \cup Open(WithText(u, Now))
    BY <1>1, HandledRefreshes DEF DidOpen, DidChange, OpenedTasks, RefreshAll
  <2> QED BY <2>1 DEF OutdatedIsOnItsWay
<1>2. ASSUME NEW u \in Documents, DidClose(u) PROVE OutdatedIsOnItsWay'
  <2>1. u \in Files /\ NoText \in Written \cup {NoText}
    BY QueueAssumption
  <2>2. /\ world' = WithText(u, NoText) /\ channel'.refresh = channel.refresh
        /\ UNCHANGED <<worker, running, results>>
        /\ shown' = [shown EXCEPT ![u] = Nothing]
        /\ shown \in [Files -> Findings \cup {Nothing}]
    <3>1. Handled(WithText(u, NoText), <<>>, {})
      BY <1>2 DEF DidClose
    <3>2. world' = WithText(u, NoText) /\ channel'.refresh = channel.refresh \cup {}
      BY <3>1, HandledRefreshes
    <3> QED BY <1>0, <1>2, <3>2 DEF DidClose, workerVars, TypeOK
  <2>3. \A v \in Files : world'.documents[v] = IF v = u THEN NoText ELSE world.documents[v]
    BY <1>0, <2>1, <2>2, WithTextFacts
  <2>4. \A v \in Open(world)' : /\ v \in Open(world)
                                /\ world'.documents[v] = world.documents[v]
                                /\ shown'[v] = shown[v]
    BY <2>2, <2>3 DEF Open
  <2> QED BY <2>2, <2>4 DEF OutdatedIsOnItsWay
<1>3. ASSUME NEW F \in SUBSET Roots, DidChangeWorkspaceFolders(F) PROVE OutdatedIsOnItsWay'
  <2>1. UNCHANGED <<worker, running, results, shown>>
    BY <1>3 DEF DidChangeWorkspaceFolders, workerVars
  <2>2. \E tasks, S : Handled(WithFolders(F), tasks, S)
    BY <1>3 DEF DidChangeWorkspaceFolders
  <2>3. world' = WithFolders(F) /\ channel.refresh \subseteq channel'.refresh
    BY <2>2, HandledRefreshes
  <2>4. WithFolders(F).documents = world.documents
    <3>1. world \in [documents : [Files -> Written \cup {NoText}], folders : SUBSET Roots,
                     generation : Nat]
      BY <1>0, NumberFacts DEF TypeOK, Worlds
    <3>2. WithFolders(F) = [world EXCEPT !.folders = F, !.generation = world.generation + 1]
      BY DEF WithFolders
    <3> QED BY <3>1, <3>2
  <2> QED BY <2>1, <2>3, <2>4, SameTexts
<1> QED BY <1>1, <1>2, <1>3 DEF Notification

LEMMA WorkerTexts == IInv /\ OutdatedIsOnItsWay /\ Worker => OutdatedIsOnItsWay'
<1> SUFFICES ASSUME IInv, OutdatedIsOnItsWay, Worker PROVE OutdatedIsOnItsWay'
  OBVIOUS
<1>0. TypeOK /\ WorkerInv /\ OrderInv /\ latest = world /\ worker \in Workers
  BY WorkerFacts DEF IInv, LoopInv
<1>1. CASE Drain
  <2>1. /\ worker'.refresh = worker.refresh \cup channel.refresh
        /\ UNCHANGED <<world, running, results, shown>>
    BY <1>1 DEF Drain, loopVars
  <2> QED BY <2>1, SameTexts
<1>2. CASE CheckTask \/ ApplyTask \/ FinishWorkspaceScan
  <2>1. /\ worker'.refresh = worker.refresh
        /\ UNCHANGED <<world, channel, running, results, shown>>
    BY <1>0, <1>2 DEF CheckTask, ApplyTask, FinishWorkspaceScan, loopVars, Workers
  <2> QED BY <2>1, SameTexts
<1>3. CASE ChunkDone
  <2>1. /\ worker'.refresh = worker.refresh \ Due(worker) /\ running' = running \cup Due(worker)
        /\ UNCHANGED <<world, channel, results, shown>>
    BY <1>0, <1>3 DEF ChunkDone, loopVars, Workers
  <2> QED BY <2>1, SameTexts
<1>4. ASSUME NEW u \in running, GenerateDiagnostics(u) PROVE OutdatedIsOnItsWay'
  <2> DEFINE p == [file |-> u, found |-> Diagnosis(u)]
  <2>1. /\ running' = running \ {u} /\ UNCHANGED <<world, channel, worker, shown>>
        /\ results' = IF u \in Open(world) THEN results \cup {p} ELSE results
    BY <1>0, <1>4 DEF GenerateDiagnostics, loopVars
  <2>2. p.file = u /\ p.found.text = world.documents[u]
    BY <1>0 DEF Diagnosis
  <2> HIDE DEF p
  <2>3. Open(world)' = Open(world) /\ results \subseteq results'
    BY <2>1 DEF Open
  <2> SUFFICES ASSUME NEW v \in Open(world)
               PROVE  \/ v \in channel'.refresh \/ v \in worker'.refresh \/ v \in running'
                      \/ \E q \in results' : q.file = v /\ q.found.text = world'.documents[v]
                      \/ shown'[v].text = world'.documents[v]
    BY <2>3 DEF OutdatedIsOnItsWay
  <2>4. CASE v = u
    BY <2>1, <2>2, <2>4
  <2>5. CASE v # u
    BY <2>1, <2>3, <2>5 DEF OutdatedIsOnItsWay
  <2> QED BY <2>4, <2>5
<1>5. ASSUME NEW p \in results, PublishDiagnostics(p) PROVE OutdatedIsOnItsWay'
  <2>1. /\ results' = results \ {p} /\ shown' = [shown EXCEPT ![p.file] = p.found]
        /\ UNCHANGED <<world, channel, worker, running>>
    BY <1>5 DEF PublishDiagnostics, loopVars
  <2>2. \A v \in Files : shown'[v] = IF v = p.file THEN p.found ELSE shown[v]
    BY <1>0, <2>1 DEF TypeOK
  <2>3. Open(world)' = Open(world) /\ Open(world) \subseteq Files
    BY <2>1 DEF Open
  <2> SUFFICES ASSUME NEW v \in Open(world)
               PROVE  \/ v \in channel.refresh \/ v \in worker.refresh \/ v \in running
                      \/ \E q \in results' : q.file = v /\ q.found.text = world.documents[v]
                      \/ shown'[v].text = world.documents[v]
    BY <2>1, <2>3 DEF OutdatedIsOnItsWay
  <2>4. \/ v \in channel.refresh \/ v \in worker.refresh \/ v \in running
        \/ \E q \in results : q.file = v /\ q.found.text = world.documents[v]
        \/ shown[v].text = world.documents[v]
    BY DEF OutdatedIsOnItsWay
  <2>5. CASE v # p.file
    BY <2>1, <2>2, <2>3, <2>4, <2>5
  <2>6. CASE v = p.file
    <3>1. shown'[v] = p.found /\ \A q \in results : q.file = v => q = p
      BY <1>0, <2>2, <2>3, <2>6 DEF WorkerInv
    <3>2. shown[v].text <= p.found.text /\ p.found.text <= world.documents[v]
      BY <1>0, <2>6 DEF OrderInv
    <3>3. shown[v].text \in Int /\ p.found.text \in Int /\ world.documents[v] \in Int
      BY <1>0, <2>3, WorldFacts
    <3> QED BY <2>4, <3>1, <3>2, <3>3
  <2> QED BY <2>5, <2>6
<1> QED BY <1>1, <1>2, <1>3, <1>4, <1>5 DEF Worker

\* Whatever the editor does and in whatever order the worker and its threads run, an open
\* document with outdated diagnostics is on its way to new ones, even without a folder.
THEOREM OutdatedOnItsWay == Spec => []OutdatedIsOnItsWay
<1>1. Init => OutdatedIsOnItsWay
  BY DEF Init, OutdatedIsOnItsWay, Open
<1>2. ASSUME IInv, OutdatedIsOnItsWay, [Next]_vars PROVE OutdatedIsOnItsWay'
  <2>1. CASE FileSystem \/ (\E s \in scans : Discover(s)) \/ UNCHANGED vars
    <3>1. UNCHANGED <<world, channel, worker, running, results, shown>>
      BY <2>1 DEF FileSystem, WriteFile, MoveFile, Discover, vars, loopVars, workerVars
    <3> QED BY <1>2, <3>1, SameTexts
  <2>2. CASE Reporting \/ \E e \in internal : HandleScan(e)
    <3>1. UNCHANGED <<worker, running, results, shown>>
      BY <2>2 DEF Reporting, Report, HandleScan, workerVars
    <3>2. \E tasks, S : Handled(world, tasks, S)
      BY <2>2 DEF Reporting, Report, HandleScan
    <3>3. UNCHANGED world /\ channel.refresh \subseteq channel'.refresh
      BY <3>2, HandledRefreshes
    <3> QED BY <1>2, <3>1, <3>3, SameTexts
  <2> QED BY <1>2, <2>1, <2>2, NotificationTexts, WorkerTexts DEF Next, Scanning
<1> QED BY <1>1, <1>2, InvariantHolds, PTL DEF Spec
=============================================================================
