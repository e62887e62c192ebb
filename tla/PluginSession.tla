--------------------------- MODULE PluginSession ---------------------------
(***************************************************************************)
(* The Neovim plugin and its language server: how the server is started,   *)
(* restarted after a crash (lua/ark/lsp_recovery.lua), and told about the  *)
(* R session (lua/ark/lsp.lua, lua/ark/lsp_session_watch.lua).  Neovim     *)
(* runs one callback at a time: each action is one callback, and what      *)
(* waits between them is a timer, a scheduled function or an answer.  R    *)
(* and its launcher are other processes: they write between callbacks, and *)
(* within one that starts a watcher of the file it has read (Finish).      *)
(*                                                                         *)
(* One buffer of one workspace root.  It may show one of several R         *)
(* sessions, each with its status file.                                    *)
(***************************************************************************)
EXTENDS Naturals, FiniteSets

CONSTANTS
  Sessions,      \* the R sessions, each the path of its status file
  None,
  MaxRestarts,   \* opts.max_restarts
  MaxSyncs,      \* #delays in schedule_session_syncs
  Scenarios,     \* whether there is a session at first and whether the recovery is
                 \* enabled (opts.enabled); and bounds: commands, crashes, changes of the
                 \* session and of its file
  MaxSeq,        \* bound: repl_seq
  MaxClients     \* bound: each command and each crash makes at most one client

VARIABLES
  buffer,      \* whether the buffer is valid
  disk,        \* what the status file of each session says
  shown,       \* the session of the buffer, or None
  clients,     \* the clients Neovim made, by id
  sync,        \* what the plugin knows about them and the session: see SyncType
  recovery,    \* recovery_states of this root, or None
  exits,       \* on_exit: functions it scheduled, with the mode of their client
  timers,      \* restarts that wait for their delay
  notified,    \* the user was told that there will be no restart
  events,      \* history: crashes answered and resets so far
  restarts,    \* history: restarts since recovery began to count
  left         \* the scenario, and what its bounds leave

recoveryVars == <<recovery, exits, timers, notified, events, restarts>>
vars == <<buffer, disk, shown, clients, sync, recoveryVars, left>>

ClientIds == 1 .. MaxClients
Modes == {"start", "async", "prewarm"}
Phases == {"none", "starting", "live", "stopping", "gone"}

\* "gone": no status, because the file is missing, half written, or of a dead process.
\* "busy": R is ready and its prompt is not.
Statuses == {"gone", "pending", "busy", "ready", "error"}
Contents == [status : Statuses, seq : 0 .. MaxSeq]
Payloads == [file : Sessions, status : Statuses, seq : 0 .. MaxSeq]

\* controller.ensure's watch of a status file: does the watcher run, and does the poll.
Watches == [key : Sessions, watcher : BOOLEAN, poll : BOOLEAN]

ScenarioType == [session : BOOLEAN, recovery : BOOLEAN, commands : Nat, crashes : Nat, writes : Nat]

ASSUME BoundsAssumption ==
  /\ Sessions # {}
  /\ None \notin Sessions \cup Payloads \cup Watches
  /\ MaxRestarts \in Nat \ {0}
  /\ MaxSyncs \in Nat \ {0}
  /\ MaxSeq \in Nat
  /\ MaxClients \in Nat
  /\ Scenarios \subseteq ScenarioType
  /\ \A b \in Scenarios : b.commands + b.crashes <= MaxClients

\* Who waits for the answer to a bootstrap: the watch, an attempt, start_startup_bootstrap.
Waiters == {"watch", "immediate", "attempt"}

\* told, wanted: client_session_payloads, client_pending_session_payloads;
\* known: what the server was sent last, as an update or as a bootstrap.
SyncType ==
  [told : [ClientIds -> Payloads \cup {None}],
   wanted : [ClientIds -> Payloads \cup {None}],
   known : [ClientIds -> Payloads \cup {None}],
   pending : BOOLEAN,          \* pending_startup_bootstraps
   requested : BOOLEAN,        \* startup_bootstrap_requests
   inflight : SUBSET [client : ClientIds, payload : Payloads, waiter : Waiters, index : 0 .. MaxSyncs],
   attempts : SUBSET [client : ClientIds, index : 1 .. MaxSyncs],
   watch : Watches \cup {None},
   notice : BOOLEAN,           \* the watcher's scheduled callback
   ensure : BOOLEAN,           \* start_client_inner deferred ensure_session_watch
   soon : BOOLEAN,             \* sync_sessions_soon
   overtaken : BOOLEAN,        \* history: a bootstrap was answered after the session changed,
                               \* or failed with another session noted than it had sent
   untold : BOOLEAN]           \* history: the file changed and no watcher saw it, or a start
                               \* found an error; and no client was told of the file since

RecoveryType == [state : Nat, attempts : Nat, generation : Nat, old : BOOLEAN]
TimerType == [state : Nat, generation : Nat, mode : Modes, event : Nat]

TypeOK ==
  /\ buffer \in BOOLEAN
  /\ disk \in [Sessions -> Contents]
  /\ shown \in Sessions \cup {None}
  /\ clients \in [ClientIds -> [phase : Phases, mode : Modes]]
  /\ sync \in SyncType
  /\ recovery \in RecoveryType \cup {None}
  /\ exits \subseteq [client : ClientIds, mode : Modes]
  /\ timers \subseteq TimerType
  /\ notified \in BOOLEAN
  /\ events \in Nat
  /\ restarts \in Nat
  /\ left \in ScenarioType

Init ==
  /\ left \in Scenarios
  /\ buffer = TRUE
  /\ \E st \in {"gone", "ready"} : disk = [f \in Sessions |-> [status |-> st, seq |-> 0]]
  /\ shown = IF left.session THEN CHOOSE f \in Sessions : TRUE ELSE None
  /\ clients = [c \in ClientIds |-> [phase |-> "none", mode |-> "start"]]
  /\ sync = [told |-> [c \in ClientIds |-> None], wanted |-> [c \in ClientIds |-> None],
             known |-> [c \in ClientIds |-> None], pending |-> FALSE, requested |-> FALSE,
             inflight |-> {}, attempts |-> {}, watch |-> None, notice |-> FALSE,
             ensure |-> FALSE, soon |-> FALSE, overtaken |-> FALSE, untold |-> FALSE]
  /\ recovery = None
  /\ exits = {} /\ timers = {}
  /\ notified = FALSE
  /\ events = 0 /\ restarts = 0

-----------------------------------------------------------------------------
(* Clients and payloads *)

live_client(cs, c) == cs[c].phase = "live"
session_clients(cs) == {c \in ClientIds : live_client(cs, c)}

\* The empty payload is None: there is no session.
payload_of(d, f) ==
  IF f = None THEN None
  ELSE [file |-> f, status |-> d[f].status, seq |-> d[f].seq]

session_payload == payload_of(disk, shown)

IsReady(p) == p # None /\ p.status = "ready"

\* forget_client_id of a client that has exited: no attempt finds it any more.
Forget(s, c) ==
  [s EXCEPT !.told[c] = None, !.wanted[c] = None, !.known[c] = None,
            !.attempts = {a \in @ : a.client # c}]

suppress_stale_payload(previous, p) ==
  /\ IsReady(previous) /\ p # None
  /\ p.status = "gone" /\ p.file = previous.file

(* Faulty variants of the definitions below, used only to test properties. *)

\* Recorded as told before the server can be told.
notify_before_live(cs, s, c, p) ==
  IF (p # None /\ s.wanted[c] = p) \/ suppress_stale_payload(s.told[c], p) \/ s.told[c] = p
  THEN [s EXCEPT !.untold = FALSE]
  ELSE [s EXCEPT !.told[c] = p, !.known[c] = IF live_client(cs, c) THEN p ELSE @,
                 !.overtaken = FALSE, !.untold = FALSE]

-----------------------------------------------------------------------------
notify_client_session(cs, s, c, p) ==
  CASE ~live_client(cs, c) -> s
    [] /\ live_client(cs, c)
       /\ \/ p # None /\ s.wanted[c] = p
          \/ suppress_stale_payload(s.told[c], p)
          \/ s.told[c] = p -> [s EXCEPT !.untold = FALSE]
    [] OTHER -> [s EXCEPT !.told[c] = p, !.known[c] = p, !.overtaken = FALSE, !.untold = FALSE]

\* notify_sessions, notify_watch_sessions.
notify_sessions(cs, s, p) ==
  LET c == CHOOSE x \in session_clients(cs) : TRUE IN
  IF session_clients(cs) = {} THEN s ELSE notify_client_session(cs, s, c, p)

session_payload_delivered(cs, s, p) ==
  session_clients(cs) # {} /\ \A c \in session_clients(cs) : s.told[c] = p

session_watch_finished(p) == p = None \/ p.status = "error"

\* session_poll_finished, watch_poll_finished.
session_poll_finished(cs, s, p) ==
  /\ p # None /\ p.status \in {"ready", "busy"}
  /\ ~s.pending
  /\ session_payload_delivered(cs, s, p)

-----------------------------------------------------------------------------
(* The watch: a directory watcher, and a poll until all is delivered *)

\* controller.stop; callbacks of a watch that is no longer there do nothing.
Stop(s) == [s EXCEPT !.watch = None, !.notice = FALSE]

\* controller.detach of the only buffer; on_detach.
Detach(s) == [Stop(s) EXCEPT !.pending = FALSE]

attach(s, key) ==
  IF s.watch # None /\ s.watch.key = key THEN s
  ELSE [(IF s.watch = None THEN s ELSE Detach(s))
          EXCEPT !.watch = [key |-> key, watcher |-> FALSE, poll |-> FALSE]]

\* controller.ensure, given what was read before; works: whether the directory can be
\* watched.
Ensure(cs, s, p, notify, works) ==
  IF ~buffer \/ p = None THEN Detach(s)
  ELSE LET attached == attach(s, p.file)
           told == IF notify THEN notify_sessions(cs, attached, p) ELSE attached
           watching == told.watch.watcher \/ works IN
       IF session_watch_finished(p) THEN Stop(told)
       ELSE [told EXCEPT !.watch.watcher = watching, !.watch.poll = @ \/ ~watching]

-----------------------------------------------------------------------------
(* The bootstrap of a buffer: ask the server to hydrate from the session *)

start_pending_bootstrap_async(s, c, p, waiter, index) ==
  IF s.requested THEN s
  ELSE [s EXCEPT !.requested = TRUE, !.wanted[c] = p, !.known[c] = p, !.untold = FALSE,
                 !.inflight = @ \cup {[client |-> c, payload |-> p, waiter |-> waiter,
                                        index |-> index]}]

bootstrap_pending_startups(cs, s, p) ==
  IF ~IsReady(p) \/ ~s.pending \/ session_clients(cs) = {} THEN s
  ELSE start_pending_bootstrap_async(s, CHOOSE c \in session_clients(cs) : TRUE, p, "watch", 0)

schedule_session_syncs(s, c) ==
  [s EXCEPT !.attempts = @ \cup {[client |-> c, index |-> 1]}]

\* schedule_next of an attempt that had read p.
schedule_next(cs, s, c, index, p) ==
  IF \/ session_watch_finished(p)
     \/ session_poll_finished(cs, s, p)
     \/ index = MaxSyncs
  THEN s
  ELSE [s EXCEPT !.attempts = @ \cup {[client |-> c, index |-> index + 1]}]

start_startup_bootstrap(cs, s, c, p, works) ==
  IF p = None THEN [s EXCEPT !.pending = FALSE, !.requested = FALSE]
  ELSE LET watched == Ensure(cs, [s EXCEPT !.pending = TRUE], p, FALSE, works) IN
       CASE p.status = "error" ->
              [watched EXCEPT !.pending = FALSE, !.requested = FALSE, !.untold = TRUE]
         [] p.status # "error" /\ ~(IsReady(p) /\ live_client(cs, c)) ->
              schedule_session_syncs(watched, c)
         [] OTHER -> start_pending_bootstrap_async(watched, c, p, "immediate", 0)

-----------------------------------------------------------------------------
(* What R writes while Neovim runs *)

\* What may follow in a status file.
Follows(content) ==
  LET At(statuses, seq) == {[status |-> st, seq |-> seq] : st \in statuses}
      next == {n \in {content.seq + 1} : n <= MaxSeq} IN
  CASE content.status = "pending" -> At({"busy", "ready", "error", "gone"}, 0)
    [] content.status = "ready" -> At({"busy"}, content.seq) \cup At({"gone"}, content.seq)
    [] content.status = "busy" -> {[status |-> "ready", seq |-> n] : n \in next}
                                      \cup At({"gone"}, content.seq)
    [] content.status = "gone" -> At({"pending"}, 0) \cup At({"ready"}, content.seq)
    [] OTHER -> At({"gone", "pending"}, 0)

\* A watcher of the directory of f runs.
Watched(s, f) == s.watch # None /\ s.watch.key = f /\ s.watch.watcher

\* The file f is written, and a watcher sees it or none does.
Written(s, f, seen) ==
  [s EXCEPT !.notice = @ \/ seen, !.untold = @ \/ (f = shown /\ ~seen)]

\* The end of a callback that has read the file and ensured a watch, which leaves r.  R
\* may write after the file was read: a watcher that ran before the callback sees that,
\* one that the callback starts sees it or comes too late.  again: the callback reads
\* the file a second time and notifies.  Writes at other times are as those of
\* WriteStatus before or after the callback.
Finish(cs, r, again, budget) ==
  LET Notified(s) == IF again THEN notify_sessions(cs, s, payload_of(disk', shown)) ELSE s IN
  \/ /\ UNCHANGED disk
     /\ left' = budget
     /\ sync' = Notified(r)
  \/ /\ shown # None
     /\ budget.writes > 0
     /\ left' = [budget EXCEPT !.writes = @ - 1]
     /\ \E content \in Follows(disk[shown]) : disk' = [disk EXCEPT ![shown] = content]
     /\ \E seen \in BOOLEAN :
          /\ seen => Watched(r, shown)
          /\ Watched(sync, shown) /\ Watched(r, shown) => seen
          /\ sync' = Notified(Written(r, shown, seen))

-----------------------------------------------------------------------------
(* start_client *)

Running(cs) == {c \in ClientIds : cs[c].phase \in {"starting", "live"}}
Fresh(cs) == CHOOSE c \in ClientIds : cs[c].phase = "none"

\* vim.lsp.start: the running client of this name and root, or a new one.
Started(cs) == IF Running(cs) # {} THEN CHOOSE c \in Running(cs) : TRUE ELSE Fresh(cs)
Launch(cs, mode) ==
  IF Running(cs) # {} THEN cs
  ELSE [cs EXCEPT ![Fresh(cs)] = [phase |-> "starting", mode |-> mode]]

\* stop_lsp_client: it is marked intentional, and goes when it has answered.
StopAll(cs) ==
  [c \in ClientIds |-> IF live_client(cs, c) THEN [cs[c] EXCEPT !.phase = "stopping"] ELSE cs[c]]

ForgetAll(cs, s) ==
  LET Kept(f) == [c \in ClientIds |-> IF live_client(cs, c) THEN None ELSE f[c]] IN
  [s EXCEPT !.told = Kept(@), !.wanted = Kept(@)]

\* What start_client does about the session once client c serves the buffer; fresh:
\* it was not live before.
Serve(cs, s, c, fresh, mode, works) ==
  CASE mode = "start" -> start_startup_bootstrap(cs, s, c, session_payload, works)
    [] mode = "prewarm" -> s
    [] mode = "async" /\ fresh ->
         schedule_session_syncs([s EXCEPT !.pending = TRUE, !.ensure = TRUE], c)
    [] OTHER -> Ensure(cs, [s EXCEPT !.pending = TRUE], session_payload, TRUE, works)

\* start_client_inner from clients cs and state s.  same: the live client runs the
\* command that is configured now (same_server); if so, start_async notifies once more.
start_client(cs, s, mode, same, works, budget) ==
  LET kept == session_clients(cs) # {} /\ same
      stopped == IF kept THEN cs ELSE StopAll(cs)
      forgot == IF kept THEN s ELSE ForgetAll(cs, s)
      launched == Launch(stopped, mode) IN
  /\ clients' = launched
  /\ Finish(launched, Serve(launched, forgot, Started(stopped), ~kept, mode, works),
            kept /\ mode = "async", budget)

-----------------------------------------------------------------------------
(* Commands *)

Less(what) == [left EXCEPT ![what] = @ - 1]
Spend(what) == left[what] > 0 /\ left' = Less(what)

\* M.start, M.start_async, M.prewarm.
Start(mode) ==
  /\ buffer
  /\ left.commands > 0
  /\ \E same, works \in BOOLEAN : start_client(clients, sync, mode, same, works, Less("commands"))
  /\ notified' = FALSE
  /\ UNCHANGED <<buffer, shown, recovery, exits, timers, events, restarts>>

\* M.restart: reset_crash_recovery, stop and forget, start.
Restart(mode) ==
  /\ buffer
  /\ left.commands > 0
  /\ \E works \in BOOLEAN :
       start_client(StopAll(clients), ForgetAll(clients, sync), mode, TRUE, works,
                    Less("commands"))
  /\ recovery' = None
  /\ events' = events + 1
  /\ restarts' = 0
  /\ notified' = FALSE
  /\ UNCHANGED <<buffer, shown, exits, timers>>

\* M.refresh: forget what the server was told, start.
Refresh ==
  /\ buffer
  /\ left.commands > 0
  /\ \E same, works \in BOOLEAN :
       start_client(clients, ForgetAll(clients, sync), "start", same, works,
                    Less("commands"))
  /\ notified' = FALSE
  /\ UNCHANGED <<buffer, shown, recovery, exits, timers, events, restarts>>

\* BufDelete, BufWipeout.
CloseBuffer ==
  /\ buffer
  /\ buffer' = FALSE
  /\ sync' = Detach(sync)
  /\ UNCHANGED <<disk, shown, clients, recoveryVars, left>>

-----------------------------------------------------------------------------
(* R and its sessions *)

\* R's launcher or the console writes a file; a watcher of its directory notices.
WriteStatus(f) ==
  /\ Spend("writes")
  /\ \E content \in Follows(disk[f]) : disk' = [disk EXCEPT ![f] = content]
  /\ sync' = Written(sync, f, Watched(sync, f))
  /\ UNCHANGED <<buffer, shown, clients, recoveryVars>>

\* A tab is opened, selected, restarted or closed: sync_sessions_soon.
ShowSession(f) ==
  /\ Spend("writes")
  /\ shown' = f
  /\ sync' = [sync EXCEPT !.soon = TRUE]
  /\ UNCHANGED <<buffer, disk, clients, recoveryVars>>

\* M.sync_sessions for every buffer that is left.  It ends by notifying what it had read,
\* which Ensure has just done.
SyncSessions ==
  /\ sync.soon
  /\ \E works \in BOOLEAN :
       LET s == [sync EXCEPT !.soon = FALSE] IN
       Finish(clients, IF buffer THEN Ensure(clients, s, session_payload, TRUE, works) ELSE s,
              FALSE, left)
  /\ UNCHANGED <<buffer, shown, clients, recoveryVars>>

-----------------------------------------------------------------------------
(* Callbacks about the session *)

sessionCallback == <<buffer, disk, shown, clients, recoveryVars, left>>

\* process_update, and the poll that goes on while there is more to deliver.
process_update(s) ==
  LET p == session_payload
      told == notify_sessions(clients, s, p)
      asked == bootstrap_pending_startups(clients, told, p) IN
  CASE p = None \/ (p # None /\ p.file # s.watch.key) -> Stop(s)
    [] p # None /\ p.file = s.watch.key /\ session_watch_finished(p) -> Stop(asked)
    [] OTHER -> [asked EXCEPT !.watch.poll = ~session_poll_finished(clients, asked, p)]

\* The watcher's callback: polls from here on, unless all is delivered.
WatchNotice ==
  /\ sync.notice
  /\ sync' = process_update([sync EXCEPT !.notice = FALSE])
  /\ UNCHANGED sessionCallback

Poll ==
  /\ sync.watch # None /\ sync.watch.poll
  /\ sync' = process_update(sync)
  /\ UNCHANGED sessionCallback

EnsureLater ==
  /\ sync.ensure
  /\ \E works \in BOOLEAN :
       LET s == [sync EXCEPT !.ensure = FALSE] IN
       Finish(clients, IF buffer THEN Ensure(clients, s, session_payload, TRUE, works) ELSE s,
              FALSE, left)
  /\ UNCHANGED <<buffer, shown, clients, recoveryVars>>

\* schedule_session_syncs, one attempt, before or after the watch that is deferred; the
\* server is initialised before the last, 15 s after its start.
Attempt(a) ==
  LET s == [sync EXCEPT !.attempts = @ \ {a}]
      p == session_payload
      told == notify_client_session(clients, s, a.client, p) IN
  /\ a \in sync.attempts
  /\ clients[a.client].phase = "starting" => a.index < MaxSyncs
  /\ sync' =
       CASE clients[a.client].phase = "stopping" -> s
         [] live_client(clients, a.client) /\ IsReady(p) /\ s.pending /\ ~s.requested ->
              start_pending_bootstrap_async(told, a.client, p, "attempt", a.index)
         [] OTHER -> schedule_next(clients, told, a.client, a.index, p)
  /\ UNCHANGED sessionCallback

(* Faulty variants of the definitions below, used only to test properties. *)

\* The check for a live client before the marks are cleared.
AnswerIfLive(q, answer) ==
  /\ q \in sync.inflight
  /\ sync' = IF ~live_client(clients, q.client) THEN [sync EXCEPT !.inflight = @ \ {q}]
             ELSE [sync EXCEPT !.requested = FALSE, !.inflight = @ \ {q}]
  /\ UNCHANGED sessionCallback

-----------------------------------------------------------------------------
\* The answer to a bootstrap; an error and a timeout count as one that is not hydrated.
Answer(q, answer) ==
  LET c == q.client
      hydrated == answer /\ buffer /\ live_client(clients, c)
      noted == IF hydrated THEN q.payload ELSE sync.told[c]
      s == [sync EXCEPT !.requested = FALSE, !.inflight = @ \ {q},
                        !.wanted[c] = IF @ = q.payload THEN None ELSE @,
                        !.overtaken = @ \/ {sync.known[c], session_payload, noted} # {q.payload}]
      done == IF hydrated THEN [s EXCEPT !.told[c] = q.payload, !.pending = FALSE] ELSE s IN
  /\ q \in sync.inflight
  /\ sync' =
       CASE q.waiter = "watch" -> done
         [] q.waiter = "immediate" ->
              IF ~hydrated /\ live_client(clients, c) THEN schedule_session_syncs(done, c) ELSE done
         [] OTHER -> schedule_next(clients, done, c, q.index, q.payload)
  /\ UNCHANGED sessionCallback

-----------------------------------------------------------------------------
(* The server process and the recovery *)

Initialize(c) ==
  /\ clients[c].phase = "starting"
  /\ clients' = [clients EXCEPT ![c].phase = "live"]
  /\ UNCHANGED <<buffer, disk, shown, sync, recoveryVars, left>>

\* on_exit of a client that was stopped on purpose.
Stopped(c) ==
  /\ clients[c].phase = "stopping"
  /\ clients' = [clients EXCEPT ![c] = [phase |-> "gone", mode |-> "start"]]
  /\ sync' = Forget(sync, c)
  /\ UNCHANGED <<buffer, disk, shown, recoveryVars, left>>

\* on_exit of one that was not; without recovery nothing follows.
Crash(c) ==
  /\ clients[c].phase \in {"starting", "live"}
  /\ Spend("crashes")
  /\ clients' = [clients EXCEPT ![c] = [phase |-> "gone", mode |-> "start"]]
  /\ sync' = Forget(sync, c)
  /\ exits' = exits \cup {e \in {[client |-> c, mode |-> clients[c].mode]} : left.recovery}
  /\ UNCHANGED <<buffer, disk, shown, recovery, timers, notified, events, restarts>>

\* The window of recovery_states has passed.
WindowPasses ==
  /\ recovery # None
  /\ recovery' = [recovery EXCEPT !.old = TRUE]
  /\ UNCHANGED <<buffer, disk, shown, clients, sync, exits, timers, notified, events, restarts, left>>

\* The state of a new window: a table of its own, here a number of its own.
Counting ==
  IF recovery = None \/ (recovery # None /\ recovery.old)
  THEN [state |-> events + 1, attempts |-> 0, generation |-> 0, old |-> FALSE]
  ELSE recovery

(* Faulty variants of the definitions below, used only to test properties. *)

\* The bound is passed before it is noticed.
HandleExitPast(e) ==
  LET counted == [Counting EXCEPT !.attempts = @ + 1, !.generation = @ + 1] IN
  /\ e \in exits
  /\ exits' = exits \ {e}
  /\ recovery' = counted
  /\ events' = events + 1
  /\ restarts' = IF counted.attempts = 1 THEN 0 ELSE restarts
  /\ notified' = (counted.attempts > MaxRestarts + 1)
  /\ timers' = timers \cup {t \in {[state |-> counted.state, mode |-> e.mode,
                                    generation |-> counted.generation, event |-> events + 1]} :
                             ~notified'}
  /\ UNCHANGED <<buffer, disk, shown, clients, sync, left>>

\* No second timer while one waits, though the generation has moved on.
HandleExitOnce(e) ==
  LET counted == [Counting EXCEPT !.attempts = @ + 1, !.generation = @ + 1] IN
  /\ e \in exits
  /\ exits' = exits \ {e}
  /\ recovery' = counted
  /\ events' = events + 1
  /\ timers' = IF timers # {} THEN timers
               ELSE {[state |-> counted.state, mode |-> e.mode,
                      generation |-> counted.generation, event |-> events + 1]}
  /\ UNCHANGED <<buffer, disk, shown, clients, sync, notified, restarts, left>>

\* The state that counts is not compared.
CurrentByGeneration(t) == recovery # None /\ recovery.generation = t.generation

-----------------------------------------------------------------------------
\* The scheduled half of on_exit.
HandleExit(e) ==
  LET counted == [Counting EXCEPT !.attempts = @ + 1, !.generation = @ + 1] IN
  /\ e \in exits
  /\ exits' = exits \ {e}
  /\ IF ~buffer
     THEN UNCHANGED <<recovery, timers, notified, events, restarts>>
     ELSE /\ recovery' = counted
          /\ events' = events + 1
          /\ restarts' = IF counted.attempts = 1 THEN 0 ELSE restarts
          /\ IF counted.attempts > MaxRestarts
             THEN notified' = TRUE /\ UNCHANGED timers
             ELSE /\ timers' = timers \cup {[state |-> counted.state, mode |-> e.mode,
                                             generation |-> counted.generation, event |-> events + 1]}
                  /\ UNCHANGED notified
  /\ UNCHANGED <<buffer, disk, shown, clients, sync, left>>

\* A timer counts as long as it is the last one of the present state.
Current(t) ==
  /\ recovery # None
  /\ recovery.state = t.state
  /\ recovery.generation = t.generation

\* The deferred restart; it may also fail, and says so.
RestartLater(t) ==
  /\ t \in timers
  /\ timers' = timers \ {t}
  /\ IF ~Current(t) \/ ~buffer \/ session_clients(clients) # {}
     THEN UNCHANGED <<disk, clients, sync, notified, restarts, left>>
     ELSE \/ /\ \E works \in BOOLEAN : start_client(clients, sync, t.mode, TRUE, works, left)
             /\ restarts' = restarts + 1
             /\ notified' = FALSE
          \/ notified' = TRUE /\ UNCHANGED <<disk, clients, sync, restarts, left>>
  /\ UNCHANGED <<buffer, shown, recovery, exits, events>>

-----------------------------------------------------------------------------
SessionStep ==
  \/ SyncSessions \/ EnsureLater \/ WatchNotice \/ Poll
  \/ \E a \in sync.attempts : Attempt(a)
  \/ \E q \in sync.inflight, hydrated \in BOOLEAN : Answer(q, hydrated)

RecoveryStep == \E e \in exits : HandleExit(e)
TimerStep == \E t \in timers : RestartLater(t)
ServerStep == \E c \in ClientIds : Initialize(c) \/ Stopped(c)

Next ==
  \/ \E mode \in Modes : Start(mode) \/ Restart(mode)
  \/ Refresh \/ CloseBuffer
  \/ \E f \in Sessions : WriteStatus(f)
  \/ \E f \in Sessions \cup {None} : ShowSession(f)
  \/ SessionStep \/ RecoveryStep \/ TimerStep \/ ServerStep
  \/ \E c \in ClientIds : Crash(c)
  \/ WindowPasses

Spec == Init /\ [][Next]_vars

\* Neovim runs every scheduled function and every timer; a server that is started
\* initialises or exits.
FairSpec ==
  /\ Spec
  /\ WF_vars(RecoveryStep)
  /\ WF_vars(TimerStep)
  /\ WF_vars(ServerStep)

-----------------------------------------------------------------------------
(* Properties *)

\* A timer goes without effect unless it is of the last crash.
OutdatedDoesNothing ==
  \A t \in timers \ timers' : t.event # events => UNCHANGED <<clients, sync>>

\* A restart answers the last crash, and no reset by the user came after that crash: a
\* timer that is outdated does nothing, whatever state counts when it fires
\* (lsp_recovery.lua:126-129).
RestartAnswersTheLast == [][OutdatedDoesNothing]_vars

\* With recovery enabled, a crash leads to a live server, or the user is told why not, or
\* nobody needs one: no order of crashes, restarts and timers leaves a crash unanswered
\* (without recovery a crash is left alone, lsp_recovery.lua:73-75).
CrashIsAnswered ==
  exits # {} ~> session_clients(clients) # {} \/ notified \/ ~buffer

\* A server that keeps crashing is restarted at most max_restarts times in a window, in
\* whatever order the exits, the timers and the user's own starts come.
RestartsAreBounded == restarts <= MaxRestarts

\* The mark of a bootstrap under way, which keeps others from starting, never outlives it.
RequestIsUnderWay == sync.requested => sync.inflight # {}

\* Nothing that concerns the session waits to run; a watcher may wait for R, or there may be
\* no watch at all.
AtRest ==
  /\ exits = {} /\ timers = {}
  /\ \A c \in ClientIds : clients[c].phase \notin {"starting", "stopping"}
  /\ sync.inflight = {} /\ sync.attempts = {}
  /\ ~sync.notice /\ ~sync.ensure /\ ~sync.soon
  /\ sync.watch # None => ~sync.watch.poll

\* Once everything has run, a server that was told about a session was told about it as it
\* is, and that was the last it was sent: no order of notices, answers, switches and
\* restarts leaves it with an outdated session.  Kept from it is that a ready session is
\* unavailable.  What the code leaves outdated, until the file changes again and a watcher
\* sees it, is told by the history: after a late answer, or a failed one with another
\* session than is noted (overtaken); and when no watcher ran while the file changed,
\* because it changed between the reading of it and the start of the watcher
\* (lsp.lua:1338, lsp_session_watch.lua:179), or after an error status had stopped the
\* watch (lsp_session_watch.lua:206-209, 267-269), or the watcher could not be started, or
\* a start had found an error and told nobody (untold).  A session that was closed
\* (shown = None) stays what the server was told last: controller.ensure detaches.
ServerKnowsTheSession ==
  AtRest /\ buffer /\ shown # None /\ ~sync.overtaken /\ ~sync.untold =>
    \A c \in session_clients(clients) :
      sync.told[c] # None =>
        /\ sync.known[c] = sync.told[c]
        /\ \/ sync.told[c] = session_payload
           \/ suppress_stale_payload(sync.told[c], session_payload)
=============================================================================
