----------------------------- MODULE LspMainLoop -----------------------------
(***************************************************************************)
(* The language server's request path: the tower-lsp task that receives    *)
(* the editor's messages (Backend::request, Backend::notify and the        *)
(* NotificationBarrier between them, lsp/backend.rs), the main loop that   *)
(* owns the world state and handles one event at a time, and the blocking  *)
(* handlers it spawns on a snapshot of the world (lsp/main_loop.rs).       *)
(*                                                                         *)
(* Of the world the model keeps what RequestFreshness looks at: the        *)
(* version of one document and the session generation.  A document version *)
(* is the sequence number of the notification that set it; 0 is "not open".*)
(***************************************************************************)
EXTENDS Naturals, Sequences, FiniteSets

CONSTANTS Requests,           \* requests of the editor, each made once
          MaxNotifications    \* bound: how many notifications the editor sends

ASSUME LoopAssumption == MaxNotifications \in Nat /\ IsFiniteSet(Requests)

VARIABLES
    queued, processed,  \* the barrier's two counters
    events,             \* the main loop's channel
    world,              \* the loop's own WorldState
    latest,             \* LATEST_WORLD_STATE, what other threads read
    loop,               \* "idle", or "store" before the end of handle_event
    pc,                 \* where each request is
    target,             \* the barrier position each request waits for
    snapshot,           \* the RequestFreshness each handler was spawned with
    crashed             \* LSP_HAS_CRASHED

vars == <<queued, processed, events, world, latest, loop, pc, target, snapshot, crashed>>
barrierVars == <<queued, processed>>
worldVars == <<world, latest>>
requestVars == <<pc, target, snapshot>>

-----------------------------------------------------------------------------
(* Types and initial state *)

Kinds == {"open", "change", "close", "session", "badSession"}

Note(n, k) == [seq |-> n, kind |-> k]
Ask(r) == [request |-> r]
Finished(r) == [bootstrapped |-> r]
IsNote(e) == "seq" \in DOMAIN e

Events(q) == [seq : 1..q, kind : Kinds] \cup [request : Requests] \cup [bootstrapped : Requests]

\* The generation is moved by notifications and by bootstrap requests.
Worlds(q) == [doc : 0..q, generation : Nat]

Answers == {"ok", "stale", "error", "crashed", "disabled"}
Before == {"idle", "check", "arm", "asleep"}
Locations == Before \cup {"sent", "running", "hydrating", "hydrated"} \cup Answers

Init ==
    /\ queued = 0 /\ processed = 0
    /\ events = <<>>
    /\ world = [doc |-> 0, generation |-> 0]
    /\ latest = world
    /\ loop = "idle"
    /\ pc = [r \in Requests |-> "idle"]
    /\ target = [r \in Requests |-> 0]
    /\ snapshot = [r \in Requests |-> world]
    /\ crashed = FALSE

-----------------------------------------------------------------------------
(* Faulty variants of the definitions below, used only to test properties. *)

\* The barrier lets a request through one notification early.
PassedOneEarly(r) == processed + 1 >= target[r]

\* Freshness looks at the document and forgets the session.
CurrentDocumentOnly(s, w) == s.doc = 0 \/ s.doc = w.doc

\* An outdated result is dropped and nothing is sent in its place.
RespondOnlyFresh(r) ==
    /\ pc[r] = "running"
    /\ snapshot[r].generation = latest.generation
    /\ snapshot[r].doc \in {0, latest.doc}
    /\ pc' = [pc EXCEPT ![r] = "ok"]
    /\ UNCHANGED <<barrierVars, events, worldVars, loop, target, snapshot, crashed>>

-----------------------------------------------------------------------------
(* The tower-lsp task: its futures are polled one at a time, and the main    *)
(* loop runs on another worker thread.                                        *)

TaskFree == \A r \in Requests : pc[r] # "arm"

\* Backend::notify
Notify(k) ==
    /\ TaskFree
    /\ queued < MaxNotifications
    /\ queued' = queued + 1
    /\ events' = Append(events, Note(queued + 1, k))
    /\ UNCHANGED <<processed, worldVars, loop, requestVars, crashed>>

\* Backend::request reads the crash flag and the barrier's position.
Request(r) ==
    /\ TaskFree
    /\ pc[r] = "idle"
    /\ \/ crashed /\ pc' = [pc EXCEPT ![r] = "disabled"] /\ UNCHANGED target
       \/ /\ ~crashed
          /\ pc' = [pc EXCEPT ![r] = "check"]
          /\ target' = [target EXCEPT ![r] = queued]
    /\ UNCHANGED <<barrierVars, events, worldVars, loop, snapshot, crashed>>

Passed(r) == processed >= target[r]

\* NotificationBarrier::wait_for loads the position; past the barrier the
\* request is sent to the main loop.
WaitFor(r) ==
    /\ TaskFree
    /\ pc[r] = "check"
    /\ \/ Passed(r) /\ pc' = [pc EXCEPT ![r] = "sent"] /\ events' = Append(events, Ask(r))
       \/ ~Passed(r) /\ pc' = [pc EXCEPT ![r] = "arm"] /\ UNCHANGED events
    /\ UNCHANGED <<barrierVars, worldVars, loop, target, snapshot, crashed>>

\* Notify::notified registers the sleeper, after the load.
Arm(r) ==
    /\ pc[r] = "arm"
    /\ pc' = [pc EXCEPT ![r] = "asleep"]
    /\ UNCHANGED <<barrierVars, events, worldVars, loop, target, snapshot, crashed>>

-----------------------------------------------------------------------------
(* The main loop *)

\* A change to a document that is not open, and a session update of an
\* unsupported kind, leave handle_event through the ? operator before
\* mark_processed; closing a document that is not open fails after it.
FailsEarly(k) == k = "badSession" \/ (k = "change" /\ world.doc = 0)
FailsLate(k) == k = "close" /\ world.doc = 0

\* What a notification does to the world; a failing one does nothing to it.
Effect(w, n, k) ==
    CASE k = "open"       -> [w EXCEPT !.doc = n]
      [] k = "change"     -> [w EXCEPT !.doc = IF @ = 0 THEN 0 ELSE n]
      [] k = "close"      -> [w EXCEPT !.doc = 0]
      [] k = "session"    -> [w EXCEPT !.generation = @ + 1]
      [] k = "badSession" -> w

\* NotificationBarrier::mark_processed stores the sequence number and wakes the
\* registered sleepers, who load again.
MarkProcessed(n) ==
    /\ processed' = n
    /\ pc' = [r \in Requests |-> IF pc[r] = "asleep" THEN "check" ELSE pc[r]]

HandleNotification ==
    /\ loop = "idle" /\ events # <<>> /\ IsNote(Head(events))
    /\ events' = Tail(events)
    /\ LET n == Head(events).seq
           k == Head(events).kind
       IN  /\ world' = Effect(world, n, k)
           /\ IF FailsEarly(k) THEN UNCHANGED <<processed, pc>> ELSE MarkProcessed(n)
           /\ loop' = IF FailsEarly(k) \/ FailsLate(k) THEN "idle" ELSE "store"
    /\ UNCHANGED <<queued, latest, target, snapshot, crashed>>

NextRequest(r) ==
    /\ loop = "idle" /\ events # <<>> /\ Head(events) = Ask(r)
    /\ events' = Tail(events)
    /\ UNCHANGED <<barrierVars, latest, target>>

\* Completion, hover, help, views and the like run on a blocking thread, with
\* RequestFreshness::for_document or, without a document, for_session.
SpawnHandler(r) ==
    /\ NextRequest(r)
    /\ pc' = [pc EXCEPT ![r] = "running"]
    /\ \E d \in {0, world.doc} :
          snapshot' = [snapshot EXCEPT ![r] = [world EXCEPT !.doc = d]]
    /\ loop' = "store"
    /\ UNCHANGED <<world, crashed>>

\* The other requests are answered inside the loop; an error or a panic is
\* answered too and leaves handle_event before the world is published.
RespondInline(r) ==
    /\ NextRequest(r)
    /\ \E answer \in {"ok", "error", "crashed"} :
          /\ pc' = [pc EXCEPT ![r] = answer]
          /\ loop' = IF answer = "ok" THEN "store" ELSE "idle"
          /\ crashed' = (crashed \/ answer = "crashed")
    /\ UNCHANGED <<world, snapshot>>

\* ark/internal/bootstrapSession is a session update and a request: it is
\* answered at once if nothing is to be fetched, else when the bootstrap is.
BootstrapSession(r) ==
    /\ NextRequest(r)
    /\ world' = [world EXCEPT !.generation = @ + 1]
    /\ snapshot' = [snapshot EXCEPT ![r] = [doc |-> 0, generation |-> world.generation + 1]]
    /\ \E l \in {"ok", "hydrating"} : pc' = [pc EXCEPT ![r] = l]
    /\ loop' = "store"
    /\ UNCHANGED crashed

StoreLatestWorldState ==
    /\ loop = "store"
    /\ latest' = world
    /\ loop' = "idle"
    /\ UNCHANGED <<barrierVars, events, world, requestVars, crashed>>

-----------------------------------------------------------------------------
(* The spawned handlers and the answers that wait for freshness *)

\* RequestFreshness::stale_reason is none: same session, and the document, if
\* it was open, is open at the same version.
Current(s, w) ==
    /\ s.generation = w.generation
    /\ s.doc = 0 \/ s.doc = w.doc

\* A result that is out of date, a failure included, is answered as stale.
Respond(r) ==
    /\ pc[r] = "running"
    /\ \E answer \in IF Current(snapshot[r], latest) THEN {"ok", "error"} ELSE {"stale"} :
          pc' = [pc EXCEPT ![r] = answer]
    /\ UNCHANGED <<barrierVars, events, worldVars, loop, target, snapshot, crashed>>

\* The bootstrap thread reports to the loop, which applies the result (its
\* effect is in DetachedHydration) and answers.
Hydrate(r) ==
    /\ pc[r] = "hydrating"
    /\ pc' = [pc EXCEPT ![r] = "hydrated"]
    /\ events' = Append(events, Finished(r))
    /\ UNCHANGED <<barrierVars, worldVars, loop, target, snapshot, crashed>>

FinishSessionBootstrap(r) ==
    /\ loop = "idle" /\ events # <<>> /\ Head(events) = Finished(r)
    /\ events' = Tail(events)
    /\ IF Current(snapshot[r], latest)
       THEN pc' = [pc EXCEPT ![r] = "ok"] /\ loop' = "store"
       ELSE pc' = [pc EXCEPT ![r] = "stale"] /\ loop' = "idle"
    /\ UNCHANGED <<barrierVars, worldVars, target, snapshot, crashed>>

Panic(r) ==
    /\ pc[r] = "running"
    /\ pc' = [pc EXCEPT ![r] = "crashed"]
    /\ crashed' = TRUE
    /\ UNCHANGED <<barrierVars, events, worldVars, loop, target, snapshot>>

-----------------------------------------------------------------------------
(* The specification *)

MainLoop == \/ HandleNotification \/ StoreLatestWorldState
            \/ \E r \in Requests : \/ SpawnHandler(r) \/ RespondInline(r)
                                \/ BootstrapSession(r) \/ FinishSessionBootstrap(r)

Next == \/ \E k \in Kinds : Notify(k)
        \/ MainLoop
        \/ \E r \in Requests : \/ Request(r) \/ WaitFor(r) \/ Arm(r)
                                \/ Respond(r) \/ Panic(r) \/ Hydrate(r)

Spec == Init /\ [][Next]_vars

\* The loop, the tower-lsp task and the handlers are scheduled, and a handler
\* ends (its bridge calls are bounded by their deadline).
FairSpec == /\ Spec /\ WF_vars(MainLoop)
            /\ \A r \in Requests : /\ WF_vars(WaitFor(r)) /\ WF_vars(Arm(r))
                                   /\ WF_vars(Respond(r)) /\ WF_vars(Hydrate(r))

-----------------------------------------------------------------------------
(* Properties *)

TypeOK ==
    /\ queued \in 0..MaxNotifications /\ processed \in 0..queued
    /\ events \in Seq(Events(queued))
    /\ world \in Worlds(queued) /\ latest \in Worlds(queued)
    /\ loop \in {"idle", "store"}
    /\ pc \in [Requests -> Locations]
    /\ target \in [Requests -> 0..queued]
    /\ snapshot \in [Requests -> Worlds(queued)]
    /\ crashed \in BOOLEAN

\* backend.rs: the barrier "ensures requests see the effects of earlier
\* notifications".  A request is handed to the main loop only when every
\* notification that preceded it has left the channel, failed ones included.
EarlierNotificationsHandled ==
    \A r \in Requests : pc[r] \notin Before \cup {"disabled"} =>
        \A i \in DOMAIN events : IsNote(events[i]) => events[i].seq > target[r]

\* What r's snapshot depends on is no longer what the loop's own world holds.
Outdated(r) == \/ snapshot[r].generation # world.generation
               \/ snapshot[r].doc \notin {0, world.doc}

\* A step's verdict on r, if it gives one.
SoundVerdict(r) == pc[r] \in {"running", "hydrated"} =>
    /\ pc'[r] = "ok" => ~Outdated(r) \/ loop = "store"
    /\ pc'[r] = "stale" => Outdated(r)

\* The verdict on a handler's result is sound.  A result is let through only if
\* its snapshot is current or the change that outdates it belongs to the event
\* in progress; a result is refused only if something it depends on changed.
VerdictIsSound == [][\A r \in Requests : SoundVerdict(r)]_vars

\* A request the main loop was given is answered, whatever notifications do in
\* the meantime.
SentRequestsAreAnswered == \A r \in Requests : pc[r] = "sent" ~> pc[r] \in Answers

\* A test of the barrier: "waiter should be released after first notification
\* is processed".  Nobody sleeps behind a position that has been reached.
NobodySleepsPastTarget ==
    \A r \in Requests : pc[r] = "asleep" => processed < target[r]

=============================================================================
