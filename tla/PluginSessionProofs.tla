------------------------ MODULE PluginSessionProofs ------------------------
(***************************************************************************)
(* Proofs about PluginSession, for any set of sessions, any bound on       *)
(* restarts and any scenario: a server that keeps crashing is restarted a  *)
(* bounded number of times, an outdated restart does nothing, the mark of  *)
(* a bootstrap never outlives it, and a server that was told about a       *)
(* session knows it as it is once everything has run, but for writes that  *)
(* no watcher saw and bootstraps that came late.                           *)
(***************************************************************************)
EXTENDS PluginSession, FiniteSetTheorems, TLAPS

-----------------------------------------------------------------------------
(* The inductive invariant of the recovery *)

RecoveryTyped ==
  /\ recovery # None => recovery \in RecoveryType
  /\ events \in Nat /\ restarts \in Nat
  /\ \A t \in timers : t.state \in Nat /\ t.generation \in Nat /\ t.event \in Nat

\* The state that counts has counted every crash as an attempt and as a generation; there
\* is a restart for each at most, and none yet for the last while its timer waits.
CountInv ==
  /\ restarts <= MaxRestarts
  /\ recovery # None =>
       /\ recovery.state <= events
       /\ recovery.generation = recovery.attempts
       /\ restarts <= recovery.attempts
       /\ recovery.attempts > 0
  /\ \A t \in timers : Current(t) =>
       restarts < recovery.attempts /\ recovery.attempts <= MaxRestarts

\* A timer is told by its state and generation, which are those of the last crash for
\* one timer at most.
TimersInv ==
  /\ \A t \in timers : t.state <= events
  /\ \A t \in timers : recovery # None /\ t.state = recovery.state =>
       t.generation <= recovery.generation
  /\ \A t \in timers : Current(t) => t.event = events
  /\ \A t, u \in timers : t.state = u.state /\ t.generation = u.generation => t = u

RecoveryInv == RecoveryTyped /\ CountInv /\ TimersInv

-----------------------------------------------------------------------------
LEMMA BoundFacts == MaxRestarts \in Nat /\ MaxRestarts > 0
  BY BoundsAssumption

LEMMA CountedFacts ==
  ASSUME NEW x \in RecoveryType
  PROVE  LET y == [x EXCEPT !.attempts = @ + 1, !.generation = @ + 1] IN
         /\ y \in RecoveryType /\ y.state = x.state
         /\ y.attempts = x.attempts + 1 /\ y.generation = x.generation + 1
<1>1. x.attempts + 1 \in Nat /\ x.generation + 1 \in Nat
  BY DEF RecoveryType
<1> QED BY <1>1 DEF RecoveryType

LEMMA HandleExitStep ==
  ASSUME RecoveryInv, NEW e \in exits, HandleExit(e)
  PROVE  RecoveryInv'
<1>0. /\ events \in Nat /\ restarts \in Nat /\ restarts <= MaxRestarts
      /\ \A t \in timers : t.state \in Nat /\ t.generation \in Nat /\ t.event \in Nat
      /\ \A t \in timers : t.state <= events
  BY DEF RecoveryInv, RecoveryTyped, CountInv, TimersInv
<1>1. CASE ~buffer
  <2>1. UNCHANGED <<recovery, timers, events, restarts>>
    BY <1>1 DEF HandleExit
  <2> QED BY <2>1 DEF RecoveryInv, RecoveryTyped, CountInv, TimersInv, Current
<1>2. CASE buffer
  <2> DEFINE counted == [Counting EXCEPT !.attempts = @ + 1, !.generation = @ + 1]
             timer == [state |-> counted.state, mode |-> e.mode,
                       generation |-> counted.generation, event |-> events + 1]
  <2>1. /\ recovery' = counted /\ events' = events + 1
        /\ restarts' = IF counted.attempts = 1 THEN 0 ELSE restarts
        /\ \/ counted.attempts > MaxRestarts /\ UNCHANGED timers
           \/ ~(counted.attempts > MaxRestarts) /\ timers' = timers \cup {timer}
    BY <1>2 DEF HandleExit
  \* The state that counts afterwards, and what it says of the timers before.
  <2>2. /\ counted \in RecoveryType /\ counted.generation = counted.attempts
        /\ counted.attempts > 0 /\ counted.state <= events + 1
        /\ counted.attempts # 1 => restarts < counted.attempts
        /\ \A t \in timers : t.state = counted.state => t.generation < counted.generation
    <3>1. CASE recovery = None \/ (recovery # None /\ recovery.old)
      <4>1. Counting = [state |-> events + 1, attempts |-> 0, generation |-> 0, old |-> FALSE]
        BY <3>1 DEF Counting
      <4>2. /\ counted.state = events + 1 /\ counted.attempts = 1 /\ counted.generation = 1
            /\ counted \in RecoveryType
        <5>1. /\ Counting \in RecoveryType /\ Counting.state = events + 1
              /\ Counting.attempts = 0 /\ Counting.generation = 0
          BY <4>1, <1>0 DEF RecoveryType
        <5>2. /\ counted \in RecoveryType /\ counted.state = Counting.state
              /\ counted.attempts = Counting.attempts + 1
              /\ counted.generation = Counting.generation + 1
          BY <5>1, CountedFacts
        <5> HIDE DEF counted
        <5> QED BY <5>1, <5>2
      <4> HIDE DEF counted
      <4> QED BY <4>2, <1>0
    <3>2. CASE recovery # None /\ ~recovery.old
      <4>1. /\ Counting = recovery /\ recovery \in RecoveryType
            /\ recovery.state <= events /\ recovery.generation = recovery.attempts
            /\ restarts <= recovery.attempts
            /\ \A t \in timers : t.state = recovery.state => t.generation <= recovery.generation
        BY <3>2 DEF Counting, RecoveryInv, RecoveryTyped, CountInv, TimersInv
      <4>2. /\ recovery.state \in Nat /\ recovery.attempts \in Nat /\ recovery.generation \in Nat
        BY <4>1 DEF RecoveryType
      <4>3. /\ counted.state = recovery.state /\ counted.attempts = recovery.attempts + 1
            /\ counted.generation = recovery.generation + 1 /\ counted \in RecoveryType
        BY <4>1, CountedFacts
      <4> HIDE DEF counted
      <4> QED BY <4>1, <4>2, <4>3, <1>0
    <3> QED BY <3>1, <3>2
  <2>3. /\ timer.state = counted.state /\ timer.generation = counted.generation
        /\ timer.event = events + 1
    OBVIOUS
  <2> HIDE DEF counted, timer
  <2>4. counted.state \in Nat /\ counted.attempts \in Nat /\ counted.generation \in Nat
    BY <2>2 DEF RecoveryType
  <2>5. RecoveryTyped'
    BY <2>1, <2>2, <2>3, <2>4, <1>0 DEF RecoveryTyped
  <2>6. \A t \in timers' : t \in timers \/ (t = timer /\ counted.attempts <= MaxRestarts)
    BY <2>1, <2>4, BoundFacts
  <2>7. \A t \in timers : ~(t.state = counted.state /\ t.generation = counted.generation)
    BY <2>2, <2>4, <1>0
  <2>8. restarts' \in Nat /\ restarts' < counted.attempts /\ restarts' <= MaxRestarts
    BY <2>1, <2>2, <2>4, <1>0, BoundFacts
  <2>9. CountInv'
    <3>1. \A t \in timers' : Current(t)' => counted.attempts <= MaxRestarts
      BY <2>1, <2>6, <2>7 DEF Current
    <3> QED BY <3>1, <2>1, <2>2, <2>4, <2>8 DEF CountInv
  <2>10. TimersInv'
    <3>1. \A t \in timers' : t.state <= events'
      BY <2>1, <2>2, <2>3, <2>4, <2>6, <1>0
    <3>2. \A t \in timers' : t.state = counted.state => t.generation <= counted.generation
      BY <2>2, <2>3, <2>4, <2>6, <1>0
    <3>3. \A t \in timers' : Current(t)' => t.event = events'
      BY <2>1, <2>3, <2>6, <2>7 DEF Current
    <3>4. \A t, u \in timers' : t.state = u.state /\ t.generation = u.generation => t = u
      BY <2>3, <2>6, <2>7 DEF RecoveryInv, TimersInv
    <3> QED BY <3>1, <3>2, <3>3, <3>4, <2>1 DEF TimersInv
  <2> QED BY <2>5, <2>9, <2>10 DEF RecoveryInv
<1> QED BY <1>1, <1>2

LEMMA RestartLaterStep ==
  ASSUME RecoveryInv, NEW t \in timers, RestartLater(t)
  PROVE  RecoveryInv'
<1>1. UNCHANGED <<recovery, events>> /\ timers' = timers \ {t}
  BY DEF RestartLater
<1>2. CASE UNCHANGED restarts
  BY <1>1, <1>2 DEF RecoveryInv, RecoveryTyped, CountInv, TimersInv, Current
<1>3. CASE restarts' = restarts + 1 /\ Current(t)
  <2>1. recovery # None /\ recovery \in RecoveryType /\ restarts \in Nat
    BY <1>3 DEF Current, RecoveryInv, RecoveryTyped
  <2>2. restarts < recovery.attempts /\ recovery.attempts <= MaxRestarts /\ recovery.attempts \in Nat
    BY <1>3, <2>1 DEF RecoveryInv, CountInv, RecoveryType
  <2>3. \A u \in timers' : ~Current(u)
    BY <1>1, <1>3 DEF RecoveryInv, TimersInv, Current
  <2>4. RecoveryTyped'
    BY <1>1, <1>3, <2>1 DEF RecoveryInv, RecoveryTyped
  <2>5. restarts' <= recovery.attempts /\ restarts' <= MaxRestarts
    BY <1>3, <2>1, <2>2, BoundFacts
  <2>6. CountInv'
    BY <1>1, <2>1, <2>3, <2>5 DEF RecoveryInv, CountInv, Current
  <2>7. TimersInv'
    BY <1>1 DEF RecoveryInv, TimersInv, Current
  <2> QED BY <2>4, <2>6, <2>7 DEF RecoveryInv
<1> QED BY <1>2, <1>3 DEF RestartLater

LEMMA RestartStep ==
  ASSUME RecoveryInv, NEW mode, Restart(mode)
  PROVE  RecoveryInv'
<1>1. recovery' = None /\ events' = events + 1 /\ restarts' = 0 /\ UNCHANGED timers
  BY DEF Restart
<1>2. RecoveryTyped'
  BY <1>1 DEF RecoveryInv, RecoveryTyped
<1>3. CountInv'
  BY <1>1, BoundFacts DEF CountInv, Current
<1>4. TimersInv'
  <2>1. \A t \in timers' : t.state <= events'
    BY <1>1 DEF RecoveryInv, RecoveryTyped, TimersInv
  <2> QED BY <2>1, <1>1 DEF RecoveryInv, TimersInv, Current
<1> QED BY <1>2, <1>3, <1>4 DEF RecoveryInv

LEMMA WindowPassesStep ==
  ASSUME RecoveryInv, WindowPasses
  PROVE  RecoveryInv'
<1>1. recovery # None /\ recovery \in RecoveryType /\ UNCHANGED <<timers, events, restarts>>
  BY DEF WindowPasses, RecoveryInv, RecoveryTyped
<1>2. /\ recovery' \in RecoveryType /\ recovery'.state = recovery.state
      /\ recovery'.attempts = recovery.attempts /\ recovery'.generation = recovery.generation
  BY <1>1 DEF WindowPasses, RecoveryType
<1>3. RecoveryTyped'
  BY <1>1, <1>2 DEF RecoveryInv, RecoveryTyped
<1>4. CountInv' /\ TimersInv'
  BY <1>1, <1>2 DEF RecoveryInv, CountInv, TimersInv, Current
<1> QED BY <1>3, <1>4 DEF RecoveryInv

LEMMA NextRecovery ==
  ASSUME RecoveryInv, [Next]_vars
  PROVE  RecoveryInv'
<1>1. ASSUME UNCHANGED <<recovery, timers, events, restarts>> PROVE RecoveryInv'
  BY <1>1 DEF RecoveryInv, RecoveryTyped, CountInv, TimersInv, Current
<1>2. ASSUME NEW mode \in Modes, Start(mode) PROVE RecoveryInv'
  <2>1. UNCHANGED <<recovery, timers, events, restarts>>
    BY <1>2 DEF Start
  <2> QED BY <2>1, <1>1
<1>3. ASSUME NEW mode \in Modes, Restart(mode) PROVE RecoveryInv'
  BY <1>3, RestartStep
<1>4. CASE Refresh
  BY <1>1, <1>4 DEF Refresh
<1>5. CASE CloseBuffer
  BY <1>1, <1>5 DEF CloseBuffer, recoveryVars
<1>6. ASSUME NEW f, WriteStatus(f) \/ ShowSession(f) PROVE RecoveryInv'
  BY <1>1, <1>6 DEF WriteStatus, ShowSession, recoveryVars
<1>7. CASE SessionStep
  <2>1. UNCHANGED recoveryVars
    <3>1. ASSUME NEW a, Attempt(a) PROVE UNCHANGED recoveryVars
      BY <3>1 DEF Attempt, sessionCallback
    <3>2. ASSUME NEW q, NEW answer, Answer(q, answer) PROVE UNCHANGED recoveryVars
      BY <3>2 DEF Answer, sessionCallback
    <3>3. CASE SyncSessions
      BY <3>3 DEF SyncSessions
    <3>4. CASE EnsureLater \/ WatchNotice \/ Poll
      BY <3>4 DEF EnsureLater, WatchNotice, Poll, sessionCallback
    <3> QED BY <3>1, <3>2, <3>3, <3>4, <1>7 DEF SessionStep
  <2> QED BY <2>1, <1>1 DEF recoveryVars
<1>8. CASE RecoveryStep
  BY <1>8, HandleExitStep DEF RecoveryStep
<1>9. CASE TimerStep
  BY <1>9, RestartLaterStep DEF TimerStep
<1>10. CASE ServerStep
  BY <1>1, <1>10 DEF ServerStep, Initialize, Stopped, recoveryVars
<1>11. ASSUME NEW c, Crash(c) PROVE RecoveryInv'
  BY <1>1, <1>11 DEF Crash
<1>12. CASE WindowPasses
  BY <1>12, WindowPassesStep
<1>13. CASE UNCHANGED vars
  BY <1>1, <1>13 DEF vars, recoveryVars
<1> QED BY <1>2, <1>3, <1>4, <1>5, <1>6, <1>7, <1>8, <1>9, <1>10, <1>11, <1>12, <1>13 DEF Next

LEMMA InitRecovery ==
  ASSUME Init
  PROVE  RecoveryInv
  BY BoundFacts DEF Init, RecoveryInv, RecoveryTyped, CountInv, TimersInv, Current

LEMMA RecoveryHolds == Spec => []RecoveryInv
  BY InitRecovery, NextRecovery, PTL DEF Spec

\* In whatever order exits are handled, timers fire and the user starts or restarts the
\* server, a window of the recovery (lsp_recovery.lua) has at most max_restarts restarts.
THEOREM BoundedRestarts == Spec => []RestartsAreBounded
<1>1. RecoveryInv => RestartsAreBounded
  BY DEF RecoveryInv, CountInv, RestartsAreBounded
<1> QED BY <1>1, RecoveryHolds, PTL

\* No step but that of a timer takes one away.
LEMMA OthersKeepTimers ==
  ASSUME [Next]_vars, ~TimerStep
  PROVE  timers \subseteq timers'
<1>1. ASSUME NEW mode \in Modes, Start(mode) \/ Restart(mode) PROVE timers \subseteq timers'
  <2>1. UNCHANGED timers
    BY <1>1 DEF Start, Restart
  <2> QED BY <2>1
<1>2. CASE Refresh
  BY <1>2 DEF Refresh
<1>3. CASE CloseBuffer
  BY <1>3 DEF CloseBuffer, recoveryVars
<1>4. ASSUME NEW f, WriteStatus(f) \/ ShowSession(f) PROVE timers \subseteq timers'
  BY <1>4 DEF WriteStatus, ShowSession, recoveryVars
<1>5. CASE SessionStep
  <2>1. ASSUME NEW a, Attempt(a) PROVE UNCHANGED recoveryVars
    BY <2>1 DEF Attempt, sessionCallback
  <2>2. ASSUME NEW q, NEW answer, Answer(q, answer) PROVE UNCHANGED recoveryVars
    BY <2>2 DEF Answer, sessionCallback
  <2>3. CASE SyncSessions
    BY <2>3 DEF SyncSessions, recoveryVars
  <2>4. CASE EnsureLater \/ WatchNotice \/ Poll
    BY <2>4 DEF EnsureLater, WatchNotice, Poll, sessionCallback, recoveryVars
  <2> QED BY <2>1, <2>2, <2>3, <2>4, <1>5 DEF SessionStep, recoveryVars
<1>6. CASE RecoveryStep
  BY <1>6 DEF RecoveryStep, HandleExit
<1>7. CASE ServerStep
  BY <1>7 DEF ServerStep, Initialize, Stopped, recoveryVars
<1>8. ASSUME NEW c, Crash(c) PROVE timers \subseteq timers'
  BY <1>8 DEF Crash
<1>9. CASE WindowPasses
  BY <1>9 DEF WindowPasses
<1>10. CASE UNCHANGED vars
  BY <1>10 DEF vars, recoveryVars
<1> QED BY <1>1, <1>2, <1>3, <1>4, <1>5, <1>6, <1>7, <1>8, <1>9, <1>10 DEF Next

\* The deferred restart acts for the last crash only, with no reset by the user since:
\* a timer that is found current (lsp_recovery.lua) is the one of the last event.
THEOREM RestartsAnswerTheLast == Spec => RestartAnswersTheLast
<1>1. ASSUME RecoveryInv, [Next]_vars PROVE OutdatedDoesNothing
  <2>1. CASE ~TimerStep
    BY <1>1, <2>1, OthersKeepTimers DEF OutdatedDoesNothing
  <2>2. ASSUME NEW t \in timers, RestartLater(t) PROVE OutdatedDoesNothing
    <3>1. timers \ timers' \subseteq {t}
      BY <2>2 DEF RestartLater
    <3>2. t.event # events => ~Current(t)
      BY <1>1 DEF RecoveryInv, TimersInv
    <3>3. ~Current(t) => UNCHANGED <<clients, sync>>
      BY <2>2 DEF RestartLater
    <3> QED BY <3>1, <3>2, <3>3 DEF OutdatedDoesNothing
  <2> QED BY <2>1, <2>2 DEF TimerStep
<1>2. RecoveryInv /\ [Next]_vars => [OutdatedDoesNothing]_vars
  BY <1>1
<1> QED BY <1>2, RecoveryHolds, PTL DEF Spec, RestartAnswersTheLast

-----------------------------------------------------------------------------
(* The mark of a bootstrap *)

SyncFields ==
  {"told", "wanted", "known", "pending", "requested", "inflight", "attempts", "watch", "notice",
   "ensure", "soon", "overtaken", "untold"}

\* The mark stands for a bootstrap under way.
Marked(s) == DOMAIN s = SyncFields /\ (s.requested => s.inflight # {})

\* An operation on the state that has nothing to do with bootstraps.
Leaves(s, t) ==
  DOMAIN s = SyncFields =>
    DOMAIN t = SyncFields /\ t.requested = s.requested /\ t.inflight = s.inflight

LEMMA LeavesTransitive ==
  ASSUME NEW s, NEW t, NEW u, Leaves(s, t), Leaves(t, u)
  PROVE  Leaves(s, u)
  BY DEF Leaves

LEMMA LeavesMarked ==
  ASSUME NEW s, NEW t, Leaves(s, t), Marked(s)
  PROVE  Marked(t)
  BY DEF Leaves, Marked

LEMMA notify_client_sessionLeaves ==
  ASSUME NEW cs, NEW s, NEW c, NEW p
  PROVE  Leaves(s, notify_client_session(cs, s, c, p))
  BY DEF Leaves, notify_client_session, SyncFields

LEMMA notify_sessionsLeaves ==
  ASSUME NEW cs, NEW s, NEW p
  PROVE  Leaves(s, notify_sessions(cs, s, p))
<1>1. Leaves(s, s)
  BY DEF Leaves
<1> QED BY <1>1, notify_client_sessionLeaves DEF notify_sessions

LEMMA StopLeaves ==
  ASSUME NEW s
  PROVE  Leaves(s, Stop(s)) /\ Leaves(s, Detach(s))
<1>1. ASSUME NEW x PROVE Leaves(x, Stop(x))
  BY DEF Leaves, Stop, SyncFields
<1>2. ASSUME NEW x PROVE Leaves(x, [x EXCEPT !.pending = FALSE])
  BY DEF Leaves, SyncFields
<1>3. Leaves(s, Stop(s)) /\ Leaves(Stop(s), Detach(s))
  BY <1>1, <1>2 DEF Detach
<1> QED BY <1>3, LeavesTransitive

LEMMA attachLeaves ==
  ASSUME NEW s, NEW key
  PROVE  Leaves(s, attach(s, key))
<1>1. ASSUME NEW x, NEW w PROVE Leaves(x, [x EXCEPT !.watch = w])
  BY DEF Leaves, SyncFields
<1>2. Leaves(s, s)
  BY DEF Leaves
<1>3. PICK x : x = IF s.watch = None THEN s ELSE Detach(s)
  OBVIOUS
<1>4. Leaves(s, x)
  BY <1>2, <1>3, StopLeaves
<1>5. Leaves(s, [x EXCEPT !.watch = [key |-> key, watcher |-> FALSE, poll |-> FALSE]])
  BY <1>1, <1>4, LeavesTransitive
<1> QED BY <1>2, <1>3, <1>5 DEF attach

LEMMA EnsureLeaves ==
  ASSUME NEW cs, NEW s, NEW p, NEW notify, NEW works
  PROVE  Leaves(s, Ensure(cs, s, p, notify, works))
<1>1. PICK a : a = attach(s, p.file)
  OBVIOUS
<1>2. PICK t : t = IF notify THEN notify_sessions(cs, a, p) ELSE a
  OBVIOUS
<1>3. Leaves(s, t)
  <2>1. Leaves(a, a)
    BY DEF Leaves
  <2>2. Leaves(s, a) /\ Leaves(a, t)
    BY <2>1, <1>1, <1>2, attachLeaves, notify_sessionsLeaves
  <2> QED BY <2>2, LeavesTransitive
<1>4. ASSUME NEW w, NEW v
      PROVE  Leaves(t, [t EXCEPT !.watch.watcher = w, !.watch.poll = @ \/ v])
  BY DEF Leaves, SyncFields
<1>5. Leaves(t, Stop(t))
  BY StopLeaves
<1>6. Ensure(cs, s, p, notify, works) =
        IF ~buffer \/ p = None THEN Detach(s)
        ELSE IF session_watch_finished(p) THEN Stop(t)
        ELSE [t EXCEPT !.watch.watcher = t.watch.watcher \/ works,
                       !.watch.poll = @ \/ ~(t.watch.watcher \/ works)]
  BY <1>1, <1>2 DEF Ensure
<1>7. Leaves(s, Stop(t))
      /\ Leaves(s, [t EXCEPT !.watch.watcher = t.watch.watcher \/ works,
                             !.watch.poll = @ \/ ~(t.watch.watcher \/ works)])
  BY <1>3, <1>4, <1>5, LeavesTransitive
<1> QED BY <1>6, <1>7, StopLeaves

LEMMA ScheduleLeaves ==
  ASSUME NEW cs, NEW s, NEW c, NEW index, NEW p
  PROVE  Leaves(s, schedule_session_syncs(s, c)) /\ Leaves(s, schedule_next(cs, s, c, index, p))
  BY DEF Leaves, schedule_session_syncs, schedule_next, SyncFields

LEMMA ForgetLeaves ==
  ASSUME NEW cs, NEW s, NEW c
  PROVE  Leaves(s, Forget(s, c)) /\ Leaves(s, ForgetAll(cs, s))
<1>1. Leaves(s, Forget(s, c))
  BY DEF Leaves, Forget, SyncFields
<1>2. ASSUME NEW f, NEW g PROVE Leaves(s, [s EXCEPT !.told = f, !.wanted = g])
  BY DEF Leaves, SyncFields
<1> QED BY <1>1, <1>2 DEF ForgetAll

\* The mark is set together with the request it stands for.
LEMMA BootstrapMarks ==
  ASSUME NEW s, Marked(s), NEW c, NEW p, NEW waiter, NEW index
  PROVE  Marked(start_pending_bootstrap_async(s, c, p, waiter, index))
<1> DEFINE q == [client |-> c, payload |-> p, waiter |-> waiter, index |-> index]
           t == [s EXCEPT !.requested = TRUE, !.wanted[c] = p, !.known[c] = p, !.untold = FALSE,
                          !.inflight = @ \cup {q}]
<1>1. DOMAIN t = SyncFields /\ q \in t.inflight
  <2> HIDE DEF q
  <2> QED BY DEF Marked, SyncFields
<1>2. Marked(t)
  <2> HIDE DEF t, q
  <2> QED BY <1>1 DEF Marked
<1> QED BY <1>2 DEF start_pending_bootstrap_async

LEMMA start_startup_bootstrapMarks ==
  ASSUME NEW cs, NEW s, Marked(s), NEW c, NEW p, NEW works
  PROVE  Marked(start_startup_bootstrap(cs, s, c, p, works))
<1>1. ASSUME NEW x, Marked(x)
      PROVE  /\ Marked([x EXCEPT !.pending = FALSE, !.requested = FALSE])
             /\ Marked([x EXCEPT !.pending = FALSE, !.requested = FALSE, !.untold = TRUE])
  BY <1>1 DEF Marked, SyncFields
<1>2. Marked([s EXCEPT !.pending = TRUE])
  BY DEF Marked, SyncFields
<1>3. PICK w : w = Ensure(cs, [s EXCEPT !.pending = TRUE], p, FALSE, works)
  OBVIOUS
<1>4. Marked(w)
  BY <1>2, <1>3, EnsureLeaves, LeavesMarked
<1>5. Marked(schedule_session_syncs(w, c))
  BY <1>4, ScheduleLeaves, LeavesMarked
<1>6. Marked(start_pending_bootstrap_async(w, c, p, "immediate", 0))
  BY <1>4, BootstrapMarks
<1>7. Marked([w EXCEPT !.pending = FALSE, !.requested = FALSE, !.untold = TRUE])
      /\ Marked([s EXCEPT !.pending = FALSE, !.requested = FALSE])
  BY <1>1, <1>4
<1>8. CASE p = None
  BY <1>7, <1>8 DEF start_startup_bootstrap
<1>9. CASE p # None
  <2>1. start_startup_bootstrap(cs, s, c, p, works) =
          CASE p.status = "error" ->
                 [w EXCEPT !.pending = FALSE, !.requested = FALSE, !.untold = TRUE]
            [] p.status # "error" /\ ~(IsReady(p) /\ live_client(cs, c)) ->
                 schedule_session_syncs(w, c)
            [] OTHER -> start_pending_bootstrap_async(w, c, p, "immediate", 0)
    BY <1>3, <1>9 DEF start_startup_bootstrap
  <2> QED BY <2>1, <1>5, <1>6, <1>7
<1> QED BY <1>8, <1>9

LEMMA ServeMarks ==
  ASSUME NEW cs, NEW s, Marked(s), NEW c, NEW fresh, NEW mode, NEW works
  PROVE  Marked(Serve(cs, s, c, fresh, mode, works))
<1>1. Marked([s EXCEPT !.pending = TRUE, !.ensure = TRUE]) /\ Marked([s EXCEPT !.pending = TRUE])
  BY DEF Marked, SyncFields
<1>2. Marked(schedule_session_syncs([s EXCEPT !.pending = TRUE, !.ensure = TRUE], c))
  BY <1>1, ScheduleLeaves, LeavesMarked
<1>3. PICK p : p = session_payload
  OBVIOUS
<1>4. PICK e : e = Ensure(cs, [s EXCEPT !.pending = TRUE], p, TRUE, works)
  OBVIOUS
<1>5. Marked(e)
  BY <1>1, <1>4, EnsureLeaves, LeavesMarked
<1>6. Marked(start_startup_bootstrap(cs, s, c, p, works))
  BY start_startup_bootstrapMarks
<1>7. Serve(cs, s, c, fresh, mode, works) =
        CASE mode = "start" -> start_startup_bootstrap(cs, s, c, p, works)
          [] mode = "prewarm" -> s
          [] mode = "async" /\ fresh ->
               schedule_session_syncs([s EXCEPT !.pending = TRUE, !.ensure = TRUE], c)
          [] OTHER -> e
  BY <1>3, <1>4 DEF Serve
<1> QED BY <1>2, <1>5, <1>6, <1>7

LEMMA WrittenLeaves ==
  ASSUME NEW s, NEW f, NEW seen
  PROVE  Leaves(s, Written(s, f, seen))
  BY DEF Leaves, Written, SyncFields

LEMMA FinishMarks ==
  ASSUME NEW cs, NEW r, Marked(r), NEW again, NEW budget, Finish(cs, r, again, budget)
  PROVE  Marked(sync)'
<1>1. PICK x : /\ x = r \/ \E seen \in BOOLEAN : x = Written(r, shown, seen)
               /\ sync' = IF again THEN notify_sessions(cs, x, payload_of(disk', shown)) ELSE x
  BY DEF Finish
<1>2. Marked(x)
  BY <1>1, WrittenLeaves, LeavesMarked
<1>3. Marked(notify_sessions(cs, x, payload_of(disk', shown)))
  BY <1>2, notify_sessionsLeaves, LeavesMarked
<1> QED BY <1>1, <1>2, <1>3 DEF Marked

LEMMA start_clientMarks ==
  ASSUME NEW cs, NEW s, Marked(s), NEW mode, NEW same, NEW works, NEW budget,
         start_client(cs, s, mode, same, works, budget)
  PROVE  Marked(sync)'
<1>1. PICK l, f, c, fresh, again : /\ Finish(l, Serve(l, f, c, fresh, mode, works), again, budget)
                                   /\ f \in {s, ForgetAll(cs, s)}
  BY DEF start_client
<1>2. Marked(f)
  BY <1>1, ForgetLeaves, LeavesMarked
<1>3. Marked(Serve(l, f, c, fresh, mode, works))
  BY <1>2, ServeMarks
<1> QED BY <1>1, <1>3, FinishMarks

LEMMA process_updateMarks ==
  ASSUME NEW s, Marked(s)
  PROVE  Marked(process_update(s))
<1>1. PICK p : p = session_payload
  OBVIOUS
<1>2. PICK t : t = notify_sessions(clients, s, p)
  OBVIOUS
<1>3. PICK a : a = bootstrap_pending_startups(clients, t, p)
  OBVIOUS
<1>4. Marked(t)
  BY <1>2, notify_sessionsLeaves, LeavesMarked
<1>5. Marked(a)
  BY <1>3, <1>4, BootstrapMarks DEF bootstrap_pending_startups
<1>6. Marked(Stop(s)) /\ Marked(Stop(a))
  BY <1>5, StopLeaves, LeavesMarked
<1>7. ASSUME NEW v PROVE Marked([a EXCEPT !.watch.poll = v])
  BY <1>5 DEF Marked, SyncFields
<1>8. process_update(s) =
        CASE p = None \/ (p # None /\ p.file # s.watch.key) -> Stop(s)
          [] p # None /\ p.file = s.watch.key /\ session_watch_finished(p) -> Stop(a)
          [] OTHER -> [a EXCEPT !.watch.poll = ~session_poll_finished(clients, a, p)]
  BY <1>1, <1>2, <1>3 DEF process_update
<1>9. Marked([a EXCEPT !.watch.poll = ~session_poll_finished(clients, a, p)])
  BY <1>7
<1> QED BY <1>6, <1>8, <1>9

LEMMA AttemptMarks ==
  ASSUME Marked(sync), NEW a, Attempt(a)
  PROVE  Marked(sync)'
<1>1. PICK s : s = [sync EXCEPT !.attempts = @ \ {a}]
  OBVIOUS
<1>2. PICK p : p = session_payload
  OBVIOUS
<1>3. PICK t : t = notify_client_session(clients, s, a.client, p)
  OBVIOUS
<1>4. Marked(s)
  BY <1>1 DEF Marked, SyncFields
<1>5. Marked(t)
  BY <1>3, <1>4, notify_client_sessionLeaves, LeavesMarked
<1>6. Marked(start_pending_bootstrap_async(t, a.client, p, "attempt", a.index))
  BY <1>5, BootstrapMarks
<1>7. Marked(schedule_next(clients, t, a.client, a.index, p))
  BY <1>5, ScheduleLeaves, LeavesMarked
<1>8. sync' = s
      \/ sync' = start_pending_bootstrap_async(t, a.client, p, "attempt", a.index)
      \/ sync' = schedule_next(clients, t, a.client, a.index, p)
  <2>1. sync' = CASE clients[a.client].phase = "stopping" -> s
                  [] live_client(clients, a.client) /\ IsReady(p) /\ s.pending /\ ~s.requested ->
                       start_pending_bootstrap_async(t, a.client, p, "attempt", a.index)
                  [] OTHER -> schedule_next(clients, t, a.client, a.index, p)
    BY <1>1, <1>2, <1>3 DEF Attempt
  <2> QED BY <2>1
<1> QED BY <1>4, <1>6, <1>7, <1>8 DEF Marked

\* The answer takes its mark away, whatever else it finds.
LEMMA AnswerMarks ==
  ASSUME Marked(sync), NEW q, NEW answer, Answer(q, answer)
  PROVE  Marked(sync)'
<1> DEFINE c == q.client
           hydrated == answer /\ buffer /\ live_client(clients, c)
           noted == IF hydrated THEN q.payload ELSE sync.told[c]
<1>1. PICK s : s = [sync EXCEPT !.requested = FALSE, !.inflight = @ \ {q},
                                !.wanted[c] = IF @ = q.payload THEN None ELSE @,
                                !.overtaken = @ \/ {sync.known[c], session_payload, noted} # {q.payload}]
  OBVIOUS
<1>2. DOMAIN s = SyncFields /\ ~s.requested
  BY <1>1 DEF Marked, SyncFields
<1>3. Marked(s)
  BY <1>2 DEF Marked
<1>4. PICK d : d = IF hydrated THEN [s EXCEPT !.told[c] = q.payload, !.pending = FALSE] ELSE s
  OBVIOUS
<1>5. Marked(d)
  <2>1. Marked([s EXCEPT !.told[c] = q.payload, !.pending = FALSE])
    BY <1>3 DEF Marked, SyncFields
  <2> QED BY <2>1, <1>3, <1>4
<1>6. Marked(schedule_session_syncs(d, c))
      /\ Marked(schedule_next(clients, d, c, q.index, q.payload))
  BY <1>5, ScheduleLeaves, LeavesMarked
<1>7. sync' = d \/ sync' = schedule_session_syncs(d, c)
      \/ sync' = schedule_next(clients, d, c, q.index, q.payload)
  <2>1. sync' = CASE q.waiter = "watch" -> d
                  [] q.waiter = "immediate" ->
                       IF ~hydrated /\ live_client(clients, c)
                       THEN schedule_session_syncs(d, c) ELSE d
                  [] OTHER -> schedule_next(clients, d, c, q.index, q.payload)
    BY <1>1, <1>4 DEF Answer
  <2> QED BY <2>1
<1> QED BY <1>5, <1>6, <1>7 DEF Marked

LEMMA SessionStepMarks ==
  ASSUME Marked(sync), SessionStep
  PROVE  Marked(sync)'
<1>1. ASSUME NEW s, Marked(s), NEW p, NEW works
      PROVE  Marked(Ensure(clients, s, p, TRUE, works))
  BY <1>1, EnsureLeaves, LeavesMarked
<1>2. Marked([sync EXCEPT !.soon = FALSE]) /\ Marked([sync EXCEPT !.ensure = FALSE])
      /\ Marked([sync EXCEPT !.notice = FALSE])
  BY DEF Marked, SyncFields
<1>3. CASE SyncSessions
  <2>1. PICK works, r : /\ Finish(clients, r, FALSE, left)
                        /\ r = IF buffer THEN Ensure(clients, [sync EXCEPT !.soon = FALSE],
                                                     session_payload, TRUE, works)
                               ELSE [sync EXCEPT !.soon = FALSE]
    BY <1>3 DEF SyncSessions
  <2>2. Marked(r)
    BY <1>1, <1>2, <2>1
  <2> QED BY <2>1, <2>2, FinishMarks
<1>4. CASE EnsureLater
  <2>1. PICK works, r : /\ Finish(clients, r, FALSE, left)
                        /\ r = IF buffer THEN Ensure(clients, [sync EXCEPT !.ensure = FALSE],
                                                     session_payload, TRUE, works)
                               ELSE [sync EXCEPT !.ensure = FALSE]
    BY <1>4 DEF EnsureLater
  <2>2. Marked(r)
    BY <1>1, <1>2, <2>1
  <2> QED BY <2>1, <2>2, FinishMarks
<1>5. CASE WatchNotice
  <2>1. Marked(process_update([sync EXCEPT !.notice = FALSE]))
    BY <1>2, process_updateMarks
  <2> QED BY <1>5, <2>1 DEF WatchNotice, Marked
<1>6. CASE Poll
  <2>1. Marked(process_update(sync))
    BY process_updateMarks
  <2> QED BY <1>6, <2>1 DEF Poll, Marked
<1>7. CASE \E a \in sync.attempts : Attempt(a)
  BY <1>7, AttemptMarks
<1>8. CASE \E q \in sync.inflight, hydrated \in BOOLEAN : Answer(q, hydrated)
  BY <1>8, AnswerMarks
<1> QED BY <1>3, <1>4, <1>5, <1>6, <1>7, <1>8 DEF SessionStep

\* No callback, command, crash or restart leaves the mark of a bootstrap behind: what
\* start_pending_bootstrap_async (lua/ark/lsp.lua) sets, the answer it waits for finds.
THEOREM MarksAreOfRequests == Spec => []RequestIsUnderWay
<1>1. Init => Marked(sync)
  BY DEF Init, Marked, SyncFields
<1>2. Marked(sync) /\ [Next]_vars => Marked(sync)'
  <2> SUFFICES ASSUME Marked(sync), [Next]_vars PROVE Marked(sync)'
    OBVIOUS
  <2>1. Marked(ForgetAll(clients, sync)) /\ Marked(Detach(sync))
    BY ForgetLeaves, StopLeaves, LeavesMarked
  <2>2. ASSUME NEW mode, Start(mode) PROVE Marked(sync)'
    BY <2>2, start_clientMarks DEF Start
  <2>3. ASSUME NEW mode, Restart(mode) PROVE Marked(sync)'
    BY <2>3, <2>1, start_clientMarks DEF Restart
  <2>4. CASE Refresh
    BY <2>4, <2>1, start_clientMarks DEF Refresh
  <2>5. CASE CloseBuffer
    BY <2>5, <2>1 DEF CloseBuffer, Marked
  <2>6. ASSUME NEW f, WriteStatus(f) PROVE Marked(sync)'
    <3>1. PICK seen : sync' = Written(sync, f, seen)
      BY <2>6 DEF WriteStatus
    <3>2. Marked(Written(sync, f, seen))
      BY WrittenLeaves, LeavesMarked
    <3> QED BY <3>1, <3>2 DEF Marked
  <2>7. ASSUME NEW f, ShowSession(f) PROVE Marked(sync)'
    BY <2>7 DEF ShowSession, Marked, SyncFields
  <2>8. CASE SessionStep
    BY <2>8, SessionStepMarks
  <2>9. ASSUME NEW t, RestartLater(t) PROVE Marked(sync)'
    <3>1. CASE UNCHANGED sync
      BY <3>1 DEF Marked
    <3>2. CASE ~UNCHANGED sync
      <4>1. PICK works : start_client(clients, sync, t.mode, TRUE, works, left)
        BY <2>9, <3>2 DEF RestartLater
      <4> QED BY <4>1, start_clientMarks
    <3> QED BY <3>1, <3>2
  <2>10. ASSUME NEW c, Initialize(c) \/ Stopped(c) \/ Crash(c) PROVE Marked(sync)'
    <3>1. Marked(Forget(sync, c))
      BY ForgetLeaves, LeavesMarked
    <3> QED BY <2>10, <3>1 DEF Initialize, Stopped, Crash, Marked
  <2>11. CASE RecoveryStep \/ WindowPasses
    BY <2>11 DEF RecoveryStep, HandleExit, WindowPasses, Marked
  <2>12. CASE UNCHANGED vars
    BY <2>12 DEF vars, Marked
  <2> QED BY <2>2, <2>3, <2>4, <2>5, <2>6, <2>7, <2>8, <2>9, <2>10, <2>11, <2>12
          DEF Next, TimerStep, ServerStep
<1>3. Marked(sync) => RequestIsUnderWay
  BY DEF Marked, RequestIsUnderWay
<1> QED BY <1>1, <1>2, <1>3, PTL DEF Spec

-----------------------------------------------------------------------------
(* Types *)

LEMMA Constants ==
  /\ MaxSyncs \in Nat /\ MaxSyncs > 0 /\ MaxSeq \in Nat /\ MaxClients \in Nat
  /\ None \notin Sessions /\ None \notin Payloads /\ None \notin Watches
  /\ ClientIds \subseteq Nat
  BY BoundsAssumption DEF ClientIds

Requested == [client : ClientIds, payload : Payloads, waiter : Waiters, index : 0 .. MaxSyncs]
Attempted == [client : ClientIds, index : 1 .. MaxSyncs]

LEMMA SyncFacts ==
  ASSUME NEW s \in SyncType
  PROVE  /\ s.told \in [ClientIds -> Payloads \cup {None}]
         /\ s.wanted \in [ClientIds -> Payloads \cup {None}]
         /\ s.known \in [ClientIds -> Payloads \cup {None}]
         /\ s.pending \in BOOLEAN /\ s.requested \in BOOLEAN
         /\ s.inflight \subseteq Requested /\ s.attempts \subseteq Attempted
         /\ s.watch \in Watches \cup {None}
         /\ s.notice \in BOOLEAN /\ s.ensure \in BOOLEAN /\ s.soon \in BOOLEAN
         /\ s.overtaken \in BOOLEAN /\ s.untold \in BOOLEAN
  BY DEF SyncType, Requested, Attempted

\* Assignments to the fields of the state.
LEMMA Assigned ==
  ASSUME NEW s \in SyncType, NEW b \in BOOLEAN
  PROVE  /\ [s EXCEPT !.pending = b] \in SyncType
         /\ [s EXCEPT !.requested = b] \in SyncType
         /\ [s EXCEPT !.notice = b] \in SyncType
         /\ [s EXCEPT !.ensure = b] \in SyncType
         /\ [s EXCEPT !.soon = b] \in SyncType
         /\ [s EXCEPT !.overtaken = b] \in SyncType
         /\ [s EXCEPT !.untold = b] \in SyncType
  BY DEF SyncType

\* An update is sent.
Sent(s, c, p) ==
  [s EXCEPT !.told[c] = p, !.known[c] = p, !.overtaken = FALSE, !.untold = FALSE]

LEMMA SentTyped ==
  ASSUME NEW s \in SyncType, NEW c \in ClientIds, NEW p \in Payloads \cup {None}
  PROVE  /\ Sent(s, c, p) \in SyncType
         /\ Sent(s, c, p).told = [s.told EXCEPT ![c] = p]
         /\ Sent(s, c, p).known = [s.known EXCEPT ![c] = p]
         /\ ~Sent(s, c, p).overtaken
         /\ Sent(s, c, p).wanted = s.wanted /\ Sent(s, c, p).pending = s.pending
         /\ Sent(s, c, p).requested = s.requested /\ Sent(s, c, p).inflight = s.inflight
         /\ Sent(s, c, p).attempts = s.attempts /\ Sent(s, c, p).watch = s.watch
         /\ Sent(s, c, p).notice = s.notice /\ Sent(s, c, p).ensure = s.ensure
         /\ Sent(s, c, p).soon = s.soon
<1>1. s.told \in [ClientIds -> Payloads \cup {None}] /\ s.known \in [ClientIds -> Payloads \cup {None}]
  BY SyncFacts
<1>2. [s.told EXCEPT ![c] = p] \in [ClientIds -> Payloads \cup {None}]
      /\ [s.known EXCEPT ![c] = p] \in [ClientIds -> Payloads \cup {None}]
  BY <1>1
<1> QED BY <1>2 DEF SyncType, Sent

\* A bootstrap is sent.
Asked(s, c, p, q) ==
  [s EXCEPT !.requested = TRUE, !.wanted[c] = p, !.known[c] = p, !.untold = FALSE,
            !.inflight = @ \cup {q}]

LEMMA AskedTyped ==
  ASSUME NEW s \in SyncType, NEW c \in ClientIds, NEW p \in Payloads, NEW q \in Requested
  PROVE  /\ Asked(s, c, p, q) \in SyncType
         /\ Asked(s, c, p, q).wanted[c] = p
         /\ \A d \in ClientIds : d # c => Asked(s, c, p, q).wanted[d] = s.wanted[d]
         /\ Asked(s, c, p, q).inflight = s.inflight \cup {q}
         /\ Asked(s, c, p, q).told = s.told /\ Asked(s, c, p, q).watch = s.watch
         /\ Asked(s, c, p, q).attempts = s.attempts
         /\ Asked(s, c, p, q).notice = s.notice /\ Asked(s, c, p, q).soon = s.soon
<1>1. s.wanted \in [ClientIds -> Payloads \cup {None}] /\ s.known \in [ClientIds -> Payloads \cup {None}]
      /\ s.inflight \subseteq Requested
  BY SyncFacts
<1>2. [s.wanted EXCEPT ![c] = p] \in [ClientIds -> Payloads \cup {None}]
      /\ [s.known EXCEPT ![c] = p] \in [ClientIds -> Payloads \cup {None}]
      /\ s.inflight \cup {q} \subseteq Requested
  BY <1>1
<1>3. /\ Asked(s, c, p, q) \in SyncType
      /\ Asked(s, c, p, q).wanted = [s.wanted EXCEPT ![c] = p]
      /\ Asked(s, c, p, q).inflight = s.inflight \cup {q}
      /\ Asked(s, c, p, q).told = s.told /\ Asked(s, c, p, q).watch = s.watch
      /\ Asked(s, c, p, q).attempts = s.attempts
      /\ Asked(s, c, p, q).notice = s.notice /\ Asked(s, c, p, q).soon = s.soon
  BY <1>2 DEF SyncType, Requested, Asked
<1> QED BY <1>1, <1>3

\* What concerns the watch leaves what concerns the clients alone.
SameKnowledge(s, t) ==
  /\ t \in SyncType
  /\ t.told = s.told /\ t.known = s.known /\ t.wanted = s.wanted
  /\ t.inflight = s.inflight /\ t.overtaken = s.overtaken /\ t.untold = s.untold
  /\ t.requested = s.requested /\ t.attempts = s.attempts
  /\ t.ensure = s.ensure /\ t.soon = s.soon

LEMMA StopTyped ==
  ASSUME NEW s \in SyncType
  PROVE  /\ SameKnowledge(s, Stop(s)) /\ Stop(s).watch = None /\ ~Stop(s).notice
         /\ SameKnowledge(s, Detach(s)) /\ Detach(s).watch = None /\ ~Detach(s).notice
<1>1. PICK t : t = Stop(s)
  OBVIOUS
<1>2. SameKnowledge(s, t) /\ t.watch = None /\ ~t.notice
  BY <1>1 DEF SameKnowledge, Stop, SyncType
<1>3. SameKnowledge(t, [t EXCEPT !.pending = FALSE])
      /\ [t EXCEPT !.pending = FALSE].watch = t.watch
      /\ [t EXCEPT !.pending = FALSE].notice = t.notice
  <2>1. t \in SyncType
    BY <1>2 DEF SameKnowledge
  <2> QED BY <2>1 DEF SameKnowledge, SyncType
<1> QED BY <1>1, <1>2, <1>3 DEF SameKnowledge, Detach

LEMMA SameKnowledgeTransitive ==
  ASSUME NEW s, NEW t, NEW u, SameKnowledge(s, t), SameKnowledge(t, u)
  PROVE  SameKnowledge(s, u)
  BY DEF SameKnowledge

LEMMA WatchTyped ==
  ASSUME NEW s \in SyncType, NEW w \in Watches
  PROVE  LET t == [s EXCEPT !.watch = w] IN
         SameKnowledge(s, t) /\ t.watch = w /\ t.notice = s.notice /\ t.pending = s.pending
  BY DEF SameKnowledge, SyncType

LEMMA attachTyped ==
  ASSUME NEW s \in SyncType, NEW key \in Sessions
  PROVE  /\ SameKnowledge(s, attach(s, key))
         /\ attach(s, key).watch \in Watches
         /\ attach(s, key).watch.key = key
<1>1. CASE s.watch # None /\ s.watch.key = key
  <2>1. SameKnowledge(s, s)
    BY DEF SameKnowledge
  <2>2. s.watch \in Watches
    BY <1>1, SyncFacts
  <2> QED BY <1>1, <2>1, <2>2 DEF attach
<1>2. CASE ~(s.watch # None /\ s.watch.key = key)
  <2>1. PICK w : w = [key |-> key, watcher |-> FALSE, poll |-> FALSE]
    OBVIOUS
  <2>2. w \in Watches /\ w.key = key
    BY <2>1 DEF Watches
  <2>3. PICK x : x = IF s.watch = None THEN s ELSE Detach(s)
    OBVIOUS
  <2>4. SameKnowledge(s, x)
    BY <2>3, StopTyped DEF SameKnowledge
  <2>5. x \in SyncType
    BY <2>4 DEF SameKnowledge
  <2>6. SameKnowledge(x, [x EXCEPT !.watch = w]) /\ [x EXCEPT !.watch = w].watch = w
    BY <2>2, <2>5, WatchTyped
  <2>7. attach(s, key) = [x EXCEPT !.watch = w]
    BY <1>2, <2>1, <2>3 DEF attach
  <2> QED BY <2>2, <2>4, <2>6, <2>7, SameKnowledgeTransitive
<1> QED BY <1>1, <1>2

LEMMA WatchingTyped ==
  ASSUME NEW s \in SyncType, s.watch \in Watches, NEW b \in BOOLEAN, NEW v \in BOOLEAN
  PROVE  /\ LET t == [s EXCEPT !.watch.watcher = b, !.watch.poll = @ \/ v] IN
            SameKnowledge(s, t) /\ t.watch \in Watches /\ t.watch.key = s.watch.key
         /\ LET t == [s EXCEPT !.watch.poll = v] IN
            SameKnowledge(s, t) /\ t.watch \in Watches /\ t.watch.key = s.watch.key
<1>1. ASSUME NEW x \in SyncType, x.watch \in Watches, NEW y \in BOOLEAN
      PROVE  LET t == [x EXCEPT !.watch.poll = y] IN
             SameKnowledge(x, t) /\ t.watch \in Watches /\ t.watch.key = x.watch.key
  <2>1. PICK u : u = [x.watch EXCEPT !.poll = y]
    OBVIOUS
  <2>2. u \in Watches /\ u.key = x.watch.key
    BY <1>1, <2>1 DEF Watches
  <2>3. PICK t : t = [x EXCEPT !.watch = u]
    OBVIOUS
  <2>4. SameKnowledge(x, t) /\ t.watch = u
    BY <2>2, <2>3, <1>1, WatchTyped
  <2>5. [x EXCEPT !.watch.poll = y] = t
    BY <2>1, <2>3
  <2> QED BY <2>2, <2>4, <2>5
<1>2. PICK w : w = [s.watch EXCEPT !.watcher = b]
  OBVIOUS
<1>3. w \in Watches /\ w.key = s.watch.key
  BY <1>2 DEF Watches
<1>4. PICK x : x = [s EXCEPT !.watch = w]
  OBVIOUS
<1>5. SameKnowledge(s, x) /\ x.watch = w
  BY <1>3, <1>4, WatchTyped
<1>6. x \in SyncType
  BY <1>5 DEF SameKnowledge
<1>7. PICK y : y = (x.watch.poll \/ v)
  OBVIOUS
<1>8. y \in BOOLEAN
  BY <1>7
<1>9. PICK t : t = [x EXCEPT !.watch.poll = y]
  OBVIOUS
<1>10. SameKnowledge(x, t) /\ t.watch \in Watches /\ t.watch.key = s.watch.key
  BY <1>1, <1>3, <1>5, <1>6, <1>8, <1>9
<1>11. SameKnowledge(s, t)
  BY <1>5, <1>10, SameKnowledgeTransitive
<1>12. [s EXCEPT !.watch.watcher = b, !.watch.poll = @ \/ v] = t
  BY <1>2, <1>4, <1>7, <1>9
<1> QED BY <1>1, <1>10, <1>11, <1>12

-----------------------------------------------------------------------------
(* What the server knows: the parts of the inductive invariant *)

\* Of the clients of this root one at most starts or runs.
OneRuns(cs) == \A c, d \in Running(cs) : c = d

\* Only a live client was told anything.
Told(cs, s) == \A c \in ClientIds : s.told[c] # None => live_client(cs, c)

\* What is kept from a client as wanted is on its way to it.
Wanted(s) ==
  \A c \in ClientIds : s.wanted[c] # None =>
    \E q \in s.inflight : q.client = c /\ q.payload = s.wanted[c]

\* A client was sent something else than is noted only by a bootstrap.
Known(s) ==
  \A c \in ClientIds : s.told[c] # None /\ s.known[c] # s.told[c] =>
    s.overtaken \/ s.inflight # {}

Base(cs, s) ==
  /\ s \in SyncType
  /\ Told(cs, s) /\ Wanted(s) /\ Known(s)
  /\ s.notice => s.watch \in Watches
  /\ s.requested => s.inflight # {}

\* The watch is of the session of the buffer, unless that has just changed.
Keyed(s) == s.watch # None => s.soon \/ s.watch.key = shown

\* The client knows the session as p tells it.
UpToDate(s, c, p) ==
  /\ s.known[c] = s.told[c]
  /\ s.told[c] = p \/ suppress_stale_payload(s.told[c], p)

Settled(s, c, p) ==
  s.told[c] = None \/ UpToDate(s, c, p) \/ s.overtaken \/ s.untold \/ s.inflight # {}

\* A callback that will tell the client is still to run.
Awaited(s, c) ==
  \/ s.soon \/ s.notice
  \/ s.watch # None /\ s.watch.poll
  \/ \E a \in s.attempts : a.client = c

Knows(cs, s, p) ==
  buffer /\ p # None => \A c \in session_clients(cs) : Settled(s, c, p) \/ Awaited(s, c)

SyncInv(cs, s, p) == Base(cs, s) /\ Keyed(s) /\ Knows(cs, s, p)

\* The session can be read.
Readable == disk \in [Sessions -> Contents] /\ shown \in Sessions \cup {None}

LEMMA PayloadFacts ==
  ASSUME Readable
  PROVE  /\ session_payload \in Payloads \cup {None}
         /\ session_payload = None <=> shown = None
         /\ shown # None => shown \in Sessions /\ session_payload \in Payloads
                            /\ session_payload.file = shown
<1>1. CASE shown = None
  BY <1>1 DEF session_payload, payload_of
<1>2. CASE shown # None
  <2>1. shown \in Sessions /\ disk[shown] \in Contents
    BY <1>2 DEF Readable
  <2>2. session_payload = [file |-> shown, status |-> disk[shown].status, seq |-> disk[shown].seq]
    BY <1>2 DEF session_payload, payload_of
  <2>3. session_payload \in Payloads /\ session_payload.file = shown
    BY <2>1, <2>2 DEF Contents, Payloads
  <2> QED BY <1>2, <2>1, <2>3, Constants
<1> QED BY <1>1, <1>2

LEMMA LiveRuns ==
  ASSUME NEW cs, OneRuns(cs), NEW c \in session_clients(cs), NEW d \in session_clients(cs)
  PROVE  c = d /\ c \in ClientIds /\ live_client(cs, c)
  BY DEF OneRuns, session_clients, Running, live_client

LEMMA SameBase ==
  ASSUME NEW cs, NEW s, NEW t, Base(cs, s), SameKnowledge(s, t), t.notice => t.watch \in Watches
  PROVE  Base(cs, t)
  BY DEF Base, SameKnowledge, Told, Wanted, Known

\* A client is told of the file, or need not be.
LEMMA ReadTyped ==
  ASSUME NEW s \in SyncType, NEW b \in BOOLEAN
  PROVE  LET t == [s EXCEPT !.untold = b] IN
         /\ t \in SyncType /\ t.untold = b
         /\ t.told = s.told /\ t.known = s.known /\ t.wanted = s.wanted
         /\ t.inflight = s.inflight /\ t.overtaken = s.overtaken
         /\ t.pending = s.pending /\ t.requested = s.requested /\ t.attempts = s.attempts
         /\ t.watch = s.watch /\ t.notice = s.notice /\ t.ensure = s.ensure /\ t.soon = s.soon
  BY DEF SyncType

\* A client that is notified is settled, or what it is kept from is on its way.
LEMMA NotifiedIsSettled ==
  ASSUME NEW cs, NEW s, NEW c \in ClientIds, Base(cs, s), OneRuns(cs),
         NEW p \in Payloads \cup {None}
  PROVE  LET t == notify_client_session(cs, s, c, p) IN
         /\ Base(cs, t)
         /\ live_client(cs, c) => Settled(t, c, p)
         /\ t.wanted = s.wanted /\ t.pending = s.pending /\ t.requested = s.requested
         /\ t.inflight = s.inflight /\ t.attempts = s.attempts /\ t.watch = s.watch
         /\ t.notice = s.notice /\ t.ensure = s.ensure /\ t.soon = s.soon
         /\ ~live_client(cs, c) => t = s
<1>1. PICK t : t = notify_client_session(cs, s, c, p)
  OBVIOUS
<1>2. s \in SyncType
  BY DEF Base
<1>3. CASE ~live_client(cs, c)
  <2>1. t = s
    BY <1>1, <1>3 DEF notify_client_session
  <2> QED BY <1>1, <1>3, <2>1
<1>4. CASE /\ live_client(cs, c)
           /\ \/ p # None /\ s.wanted[c] = p
              \/ suppress_stale_payload(s.told[c], p)
              \/ s.told[c] = p
  <2>1. t = [s EXCEPT !.untold = FALSE]
    BY <1>1, <1>4 DEF notify_client_session
  <2>2. /\ t \in SyncType
        /\ t.told = s.told /\ t.known = s.known /\ t.wanted = s.wanted
        /\ t.inflight = s.inflight /\ t.overtaken = s.overtaken
        /\ t.pending = s.pending /\ t.requested = s.requested /\ t.attempts = s.attempts
        /\ t.watch = s.watch /\ t.notice = s.notice /\ t.ensure = s.ensure /\ t.soon = s.soon
    BY <1>2, <2>1, ReadTyped
  <2>3. Base(cs, t)
    BY <2>2 DEF Base, Told, Wanted, Known
  <2>4. Settled(t, c, p)
    <3>1. CASE p # None /\ s.wanted[c] = p
      BY <2>2, <3>1 DEF Base, Wanted, Settled
    <3>2. CASE suppress_stale_payload(s.told[c], p) \/ s.told[c] = p
      BY <2>2, <3>2 DEF Base, Known, Settled, UpToDate
    <3> QED BY <1>4, <3>1, <3>2
  <2> QED BY <1>1, <1>4, <2>2, <2>3, <2>4
<1>5. CASE /\ live_client(cs, c) /\ ~(p # None /\ s.wanted[c] = p)
           /\ ~suppress_stale_payload(s.told[c], p) /\ s.told[c] # p
  <2>1. t = Sent(s, c, p)
    BY <1>1, <1>5 DEF notify_client_session, Sent
  <2>2. /\ t \in SyncType
        /\ t.told = [s.told EXCEPT ![c] = p] /\ t.known = [s.known EXCEPT ![c] = p]
        /\ ~t.overtaken
        /\ t.wanted = s.wanted /\ t.pending = s.pending /\ t.requested = s.requested
        /\ t.inflight = s.inflight /\ t.attempts = s.attempts /\ t.watch = s.watch
        /\ t.notice = s.notice /\ t.ensure = s.ensure /\ t.soon = s.soon
    BY <1>2, <2>1, SentTyped
  <2>3. s.told \in [ClientIds -> Payloads \cup {None}] /\ s.known \in [ClientIds -> Payloads \cup {None}]
    BY <1>2, SyncFacts
  <2>4. t.told[c] = p /\ t.known[c] = p
        /\ \A d \in ClientIds : d # c => t.told[d] = s.told[d] /\ t.known[d] = s.known[d]
    BY <2>2, <2>3
  <2>5. Settled(t, c, p)
    BY <2>4 DEF Settled, UpToDate
  <2>6. Told(cs, t)
    BY <1>5, <2>4 DEF Base, Told
  <2>7. \A d \in ClientIds : t.told[d] # None => d = c
    BY <1>5, <2>6, LiveRuns DEF Told, session_clients
  <2>8. Known(t)
    BY <2>4, <2>7 DEF Known
  <2>9. Base(cs, t)
    BY <2>2, <2>6, <2>8 DEF Base, Wanted
  <2> QED BY <1>1, <1>5, <2>2, <2>5, <2>9
<1> QED BY <1>3, <1>4, <1>5

LEMMA NotifySettles ==
  ASSUME NEW cs, NEW s, Base(cs, s), OneRuns(cs), NEW p \in Payloads \cup {None}
  PROVE  LET t == notify_sessions(cs, s, p) IN
         /\ Base(cs, t)
         /\ \A c \in session_clients(cs) : Settled(t, c, p)
         /\ t.wanted = s.wanted /\ t.pending = s.pending /\ t.requested = s.requested
         /\ t.inflight = s.inflight /\ t.attempts = s.attempts /\ t.watch = s.watch
         /\ t.notice = s.notice /\ t.ensure = s.ensure /\ t.soon = s.soon
<1>1. CASE session_clients(cs) = {}
  BY <1>1 DEF notify_sessions
<1>2. CASE session_clients(cs) # {}
  <2>1. PICK c : c = CHOOSE x \in session_clients(cs) : TRUE
    OBVIOUS
  <2>2. c \in session_clients(cs)
    BY <1>2, <2>1
  <2>3. c \in ClientIds /\ live_client(cs, c) /\ \A d \in session_clients(cs) : d = c
    BY <2>2, LiveRuns
  <2>4. notify_sessions(cs, s, p) = notify_client_session(cs, s, c, p)
    BY <1>2, <2>1 DEF notify_sessions
  <2> HIDE DEF Settled, Base
  <2> QED BY <2>3, <2>4, NotifiedIsSettled
<1> QED BY <1>1, <1>2

\* A watch is stopped: who was settled is, and others are left to sync_sessions_soon.
LEMMA StopKeeps ==
  ASSUME NEW cs, NEW s, Base(cs, s)
  PROVE  \A t \in {Stop(s), Detach(s)} :
           /\ Base(cs, t) /\ Keyed(t) /\ t.watch = None /\ SameKnowledge(s, t)
           /\ \A p : (s.soon \/ \A c \in session_clients(cs) : Settled(s, c, p)) => Knows(cs, t, p)
<1>1. s \in SyncType
  BY DEF Base
<1> SUFFICES ASSUME NEW t \in {Stop(s), Detach(s)}
             PROVE  /\ Base(cs, t) /\ Keyed(t) /\ t.watch = None /\ SameKnowledge(s, t)
                    /\ \A p : (s.soon \/ \A c \in session_clients(cs) : Settled(s, c, p))
                               => Knows(cs, t, p)
  OBVIOUS
<1>2. SameKnowledge(s, t) /\ t.watch = None /\ ~t.notice
  BY <1>1, StopTyped
<1>3. Base(cs, t)
  BY <1>2, SameBase
<1>4. \A p, c : Settled(s, c, p) => Settled(t, c, p)
  BY <1>2 DEF Settled, UpToDate, SameKnowledge
<1>5. s.soon => \A c : Awaited(t, c)
  BY <1>2 DEF Awaited, SameKnowledge
<1> QED BY <1>2, <1>3, <1>4, <1>5 DEF Keyed, Knows

\* controller.ensure: with a notice it leaves nobody behind, in whatever state it is called.
LEMMA EnsureKeeps ==
  ASSUME NEW cs, NEW s, Base(cs, s), OneRuns(cs), Readable,
         NEW notify \in BOOLEAN, NEW works \in BOOLEAN
  PROVE  LET p == session_payload
             t == Ensure(cs, s, p, notify, works) IN
         /\ Base(cs, t) /\ Keyed(t)
         /\ notify => Knows(cs, t, p)
         /\ ~buffer => t.watch = None
<1>1. PICK p : p = session_payload
  OBVIOUS
<1>2. PICK t : t = Ensure(cs, s, p, notify, works)
  OBVIOUS
<1>3. s \in SyncType
  BY DEF Base
<1>4. CASE ~buffer \/ p = None
  <2>1. t = Detach(s)
    BY <1>2, <1>4 DEF Ensure
  <2>2. Base(cs, t) /\ Keyed(t) /\ t.watch = None
    BY <2>1, StopKeeps
  <2> QED BY <1>1, <1>2, <1>4, <2>2 DEF Knows
<1>5. CASE buffer /\ p # None
  <2>1. p \in Payloads /\ p.file = shown /\ shown \in Sessions
    BY <1>1, <1>5, PayloadFacts
  <2>2. PICK a : a = attach(s, p.file)
    OBVIOUS
  <2>3. SameKnowledge(s, a) /\ a.watch \in Watches /\ a.watch.key = shown
    BY <1>3, <2>1, <2>2, attachTyped
  <2>4. Base(cs, a)
    BY <2>3, SameBase
  <2>5. PICK n : n = IF notify THEN notify_sessions(cs, a, p) ELSE a
    OBVIOUS
  <2>6. /\ Base(cs, n)
        /\ notify => \A c \in session_clients(cs) : Settled(n, c, p)
        /\ n.watch = a.watch
    BY <2>1, <2>4, <2>5, NotifySettles
  <2>7. n \in SyncType /\ n.watch \in Watches /\ n.watch.key = shown
    BY <2>3, <2>6 DEF Base
  <2>8. CASE session_watch_finished(p)
    <3>1. t = Stop(n)
      BY <1>2, <1>5, <2>2, <2>5, <2>8 DEF Ensure
    <3>2. Base(cs, t) /\ Keyed(t) /\ (notify => Knows(cs, t, p))
      BY <2>6, <3>1, StopKeeps
    <3> QED BY <1>1, <1>2, <1>5, <3>2
  <2>9. CASE ~session_watch_finished(p)
    <3>1. PICK w \in BOOLEAN : w = (n.watch.watcher \/ works)
      OBVIOUS
    <3>2. PICK u \in BOOLEAN : u = ~w
      OBVIOUS
    <3>3. t = [n EXCEPT !.watch.watcher = w, !.watch.poll = @ \/ u]
      BY <1>2, <1>5, <2>2, <2>5, <2>9, <3>1, <3>2 DEF Ensure
    <3>4. SameKnowledge(n, t) /\ t.watch \in Watches /\ t.watch.key = n.watch.key
      BY <2>7, <3>3, WatchingTyped
    <3>5. Base(cs, t)
      BY <2>6, <3>4, SameBase
    <3>6. Keyed(t)
      BY <2>7, <3>4 DEF Keyed
    <3>7. notify => Knows(cs, t, p)
      BY <2>6, <3>4 DEF Knows, Settled, UpToDate, SameKnowledge
    <3> QED BY <1>1, <1>2, <1>5, <3>5, <3>6, <3>7
  <2> QED BY <2>8, <2>9
<1> QED BY <1>4, <1>5

LEMMA UnderWaySettles ==
  ASSUME NEW cs, NEW s, s.inflight # {}
  PROVE  \A p : Knows(cs, s, p)
  BY DEF Knows, Settled

LEMMA BootstrapKeeps ==
  ASSUME NEW cs, NEW s, Base(cs, s), Keyed(s), NEW c \in ClientIds, NEW p \in Payloads,
         NEW waiter \in Waiters, NEW index \in 0 .. MaxSyncs
  PROVE  LET t == start_pending_bootstrap_async(s, c, p, waiter, index) IN
         /\ \A o : SyncInv(cs, t, o)
         /\ t.watch = s.watch /\ t.notice = s.notice /\ t.inflight # {}
<1>1. CASE s.requested
  <2>1. start_pending_bootstrap_async(s, c, p, waiter, index) = s
    BY <1>1 DEF start_pending_bootstrap_async
  <2>2. s.inflight # {}
    BY <1>1 DEF Base
  <2> QED BY <2>1, <2>2, UnderWaySettles DEF SyncInv
<1>2. CASE ~s.requested
  <2>1. PICK q : q = [client |-> c, payload |-> p, waiter |-> waiter, index |-> index]
    OBVIOUS
  <2>2. q \in Requested /\ q.client = c /\ q.payload = p
    BY <2>1 DEF Requested
  <2>3. PICK t : t = Asked(s, c, p, q)
    OBVIOUS
  <2>4. start_pending_bootstrap_async(s, c, p, waiter, index) = t
    BY <1>2, <2>1, <2>3 DEF start_pending_bootstrap_async, Asked
  <2>5. s \in SyncType
    BY DEF Base
  <2>6. /\ t \in SyncType
        /\ t.wanted[c] = p /\ \A d \in ClientIds : d # c => t.wanted[d] = s.wanted[d]
        /\ t.inflight = s.inflight \cup {q}
        /\ t.told = s.told /\ t.watch = s.watch /\ t.notice = s.notice /\ t.soon = s.soon
    BY <2>2, <2>3, <2>5, AskedTyped
  <2>8. t.inflight # {} /\ q \in t.inflight
    BY <2>6
  <2>9. t.wanted[c] = p /\ \A d \in ClientIds : d # c => t.wanted[d] = s.wanted[d]
    BY <2>6
  <2>10. Wanted(t)
    <3>1. ASSUME NEW d \in ClientIds, t.wanted[d] # None, d # c
          PROVE  \E y \in t.inflight : y.client = d /\ y.payload = t.wanted[d]
      BY <2>6, <2>9, <3>1 DEF Base, Wanted
    <3> QED BY <2>2, <2>8, <2>9, <3>1 DEF Wanted
  <2>11. Told(cs, t) /\ Known(t)
    BY <2>6, <2>8 DEF Base, Told, Known
  <2>12. Base(cs, t)
    BY <2>6, <2>8, <2>10, <2>11 DEF Base
  <2>13. Keyed(t)
    BY <2>6 DEF Keyed
  <2> QED BY <2>4, <2>6, <2>8, <2>12, <2>13, UnderWaySettles DEF SyncInv
<1> QED BY <1>1, <1>2

\* An attempt is scheduled.
Later(s, c, index) == [s EXCEPT !.attempts = @ \cup {[client |-> c, index |-> index]}]

\* Nothing but the attempts changes.
SameButAttempts(s, t) ==
  /\ t \in SyncType
  /\ t.told = s.told /\ t.known = s.known /\ t.wanted = s.wanted
  /\ t.inflight = s.inflight /\ t.overtaken = s.overtaken /\ t.untold = s.untold
  /\ t.requested = s.requested
  /\ t.ensure = s.ensure /\ t.soon = s.soon /\ t.watch = s.watch /\ t.notice = s.notice

LEMMA LaterKeeps ==
  ASSUME NEW cs, NEW s, Base(cs, s), NEW c \in ClientIds, NEW index \in 1 .. MaxSyncs
  PROVE  /\ Base(cs, Later(s, c, index)) /\ Awaited(Later(s, c, index), c)
         /\ Later(s, c, index).watch = s.watch
         /\ Keyed(s) => Keyed(Later(s, c, index))
         /\ \A p : Knows(cs, s, p) => Knows(cs, Later(s, c, index), p)
<1>1. PICK a : a = [client |-> c, index |-> index]
  OBVIOUS
<1>2. a \in Attempted /\ a.client = c
  BY <1>1 DEF Attempted
<1>3. PICK t : t = Later(s, c, index)
  OBVIOUS
<1>4. s \in SyncType
  BY DEF Base
<1>5. s.attempts \cup {a} \subseteq Attempted
  BY <1>2, <1>4, SyncFacts
<1>6. SameButAttempts(s, t) /\ t.attempts = s.attempts \cup {a}
  <2>1. t = [s EXCEPT !.attempts = s.attempts \cup {a}]
    BY <1>1, <1>3 DEF Later
  <2> QED BY <2>1, <1>4, <1>5 DEF SyncType, Attempted, SameButAttempts
<1>7. Base(cs, t)
  BY <1>6 DEF Base, SameButAttempts, Told, Wanted, Known
<1>8. Awaited(t, c) /\ a \in t.attempts
  BY <1>2, <1>6 DEF Awaited
<1>9. \A d : (\A p : Settled(s, d, p) => Settled(t, d, p)) /\ (Awaited(s, d) => Awaited(t, d))
  BY <1>6 DEF Settled, UpToDate, Awaited, SameButAttempts
<1> QED BY <1>3, <1>6, <1>7, <1>8, <1>9 DEF Keyed, Knows, SameButAttempts

LEMMA NextKeeps ==
  ASSUME NEW cs, NEW s, NEW o, SyncInv(cs, s, o), NEW c \in ClientIds,
         NEW index \in 0 .. MaxSyncs, NEW p
  PROVE  SyncInv(cs, schedule_next(cs, s, c, index, p), o)
         /\ schedule_next(cs, s, c, index, p).watch = s.watch
<1>1. CASE schedule_next(cs, s, c, index, p) = s
  BY <1>1
<1>2. CASE schedule_next(cs, s, c, index, p) # s
  <2>1. schedule_next(cs, s, c, index, p) = Later(s, c, index + 1) /\ index # MaxSyncs
    BY <1>2 DEF schedule_next, Later
  <2>2. index + 1 \in 1 .. MaxSyncs
    BY <2>1, Constants
  <2> QED BY <2>1, <2>2, LaterKeeps DEF SyncInv
<1> QED BY <1>1, <1>2

LEMMA PendingKeeps ==
  ASSUME NEW cs, NEW s, Base(cs, s), NEW b \in BOOLEAN
  PROVE  Base(cs, [s EXCEPT !.pending = b])
<1>1. PICK t : t = [s EXCEPT !.pending = b]
  OBVIOUS
<1>2. SameKnowledge(s, t) /\ t.watch = s.watch /\ t.notice = s.notice
  BY <1>1 DEF Base, SameKnowledge, SyncType
<1> QED BY <1>1, <1>2, SameBase DEF Base

\* The mark may go before the request does.
LEMMA UnmarkKeeps ==
  ASSUME NEW cs, NEW s, Base(cs, s), Keyed(s)
  PROVE  LET t == [s EXCEPT !.pending = FALSE, !.requested = FALSE]
             u == [s EXCEPT !.pending = FALSE, !.requested = FALSE, !.untold = TRUE] IN
         Base(cs, t) /\ Keyed(t) /\ Base(cs, u) /\ Keyed(u) /\ u.untold
<1>1. PICK t : t = [s EXCEPT !.pending = FALSE, !.requested = FALSE]
  OBVIOUS
<1>2. PICK u : u = [s EXCEPT !.pending = FALSE, !.requested = FALSE, !.untold = TRUE]
  OBVIOUS
<1>3. /\ t \in SyncType
      /\ t.told = s.told /\ t.known = s.known /\ t.wanted = s.wanted
      /\ t.inflight = s.inflight /\ t.overtaken = s.overtaken
      /\ ~t.requested /\ t.soon = s.soon /\ t.watch = s.watch /\ t.notice = s.notice
  BY <1>1 DEF Base, SyncType
<1>4. /\ u \in SyncType /\ u.untold
      /\ u.told = s.told /\ u.known = s.known /\ u.wanted = s.wanted
      /\ u.inflight = s.inflight /\ u.overtaken = s.overtaken
      /\ ~u.requested /\ u.soon = s.soon /\ u.watch = s.watch /\ u.notice = s.notice
  BY <1>2 DEF Base, SyncType
<1>5. Base(cs, t) /\ Keyed(t)
  BY <1>3 DEF Base, Told, Wanted, Known, Keyed
<1>6. Base(cs, u) /\ Keyed(u)
  BY <1>4 DEF Base, Told, Wanted, Known, Keyed
<1> QED BY <1>1, <1>2, <1>4, <1>5, <1>6

\* start_startup_bootstrap does not tell the client: it asks, or leaves it to an attempt; or
\* it finds an error, and nobody is told.
LEMMA StartupKeeps ==
  ASSUME NEW cs, NEW s, Base(cs, s), Keyed(s), OneRuns(cs), Readable, buffer,
         NEW c \in ClientIds, session_clients(cs) \subseteq {c}, NEW works \in BOOLEAN
  PROVE  SyncInv(cs, start_startup_bootstrap(cs, s, c, session_payload, works), session_payload)
<1>1. PICK p : p = session_payload
  OBVIOUS
<1>2. PICK t : t = start_startup_bootstrap(cs, s, c, p, works)
  OBVIOUS
<1>3. CASE p = None
  <2>1. t = [s EXCEPT !.pending = FALSE, !.requested = FALSE]
    BY <1>2, <1>3 DEF start_startup_bootstrap
  <2>2. Base(cs, t) /\ Keyed(t)
    BY <2>1, UnmarkKeeps
  <2> QED BY <1>1, <1>2, <1>3, <2>2 DEF SyncInv, Knows
<1>4. CASE p # None
  <2>1. p \in Payloads
    BY <1>1, <1>4, PayloadFacts
  <2>2. PICK m : m = [s EXCEPT !.pending = TRUE]
    OBVIOUS
  <2>3. Base(cs, m)
    BY <2>2, PendingKeeps
  <2>4. PICK w : w = Ensure(cs, m, p, FALSE, works)
    OBVIOUS
  <2>5. Base(cs, w) /\ Keyed(w)
    BY <1>1, <2>3, <2>4, EnsureKeeps
  <2>6. CASE p.status = "error"
    <3>1. t = [w EXCEPT !.pending = FALSE, !.requested = FALSE, !.untold = TRUE]
      BY <1>2, <1>4, <2>2, <2>4, <2>6 DEF start_startup_bootstrap
    <3>2. Base(cs, t) /\ Keyed(t) /\ t.untold
      BY <2>5, <3>1, UnmarkKeeps
    <3> QED BY <1>1, <1>2, <3>2 DEF SyncInv, Knows, Settled
  <2>7. CASE p.status # "error" /\ ~(IsReady(p) /\ live_client(cs, c))
    <3>1. t = Later(w, c, 1)
      BY <1>2, <1>4, <2>2, <2>4, <2>7 DEF start_startup_bootstrap, schedule_session_syncs, Later
    <3>2. 1 \in 1 .. MaxSyncs
      BY Constants
    <3>3. Base(cs, t) /\ Keyed(t) /\ Awaited(t, c)
      BY <2>5, <3>1, <3>2, LaterKeeps
    <3> QED BY <1>1, <1>2, <3>3 DEF SyncInv, Knows
  <2>8. CASE p.status # "error" /\ IsReady(p) /\ live_client(cs, c)
    <3>1. t = start_pending_bootstrap_async(w, c, p, "immediate", 0)
      BY <1>2, <1>4, <2>2, <2>4, <2>8 DEF start_startup_bootstrap
    <3>2. "immediate" \in Waiters /\ 0 \in 0 .. MaxSyncs
      BY Constants DEF Waiters
    <3>3. SyncInv(cs, t, p)
      BY <2>1, <2>5, <3>1, <3>2, BootstrapKeeps
    <3> QED BY <1>1, <1>2, <3>3
  <2> QED BY <2>6, <2>7, <2>8
<1> QED BY <1>3, <1>4

LEMMA ServeKeeps ==
  ASSUME NEW cs, NEW s, SyncInv(cs, s, session_payload), OneRuns(cs), Readable, buffer,
         NEW c \in ClientIds, session_clients(cs) \subseteq {c}, NEW fresh,
         NEW mode \in Modes, NEW works \in BOOLEAN
  PROVE  SyncInv(cs, Serve(cs, s, c, fresh, mode, works), session_payload)
<1>1. PICK t : t = Serve(cs, s, c, fresh, mode, works)
  OBVIOUS
<1>2. PICK p : p = session_payload
  OBVIOUS
<1>3. Base(cs, s) /\ Keyed(s) /\ Knows(cs, s, p)
  BY <1>2 DEF SyncInv
<1>4. CASE mode = "start"
  <2>1. t = start_startup_bootstrap(cs, s, c, session_payload, works)
    BY <1>1, <1>4 DEF Serve
  <2> QED BY <1>1, <1>3, <2>1, StartupKeeps
<1>5. CASE mode = "prewarm"
  BY <1>1, <1>5 DEF Serve
<1>6. CASE mode = "async" /\ fresh
  <2>1. PICK m : m = [s EXCEPT !.pending = TRUE, !.ensure = TRUE]
    OBVIOUS
  <2>2. /\ m \in SyncType
        /\ m.told = s.told /\ m.known = s.known /\ m.wanted = s.wanted
        /\ m.inflight = s.inflight /\ m.overtaken = s.overtaken /\ m.untold = s.untold
        /\ m.attempts = s.attempts
        /\ m.requested = s.requested /\ m.soon = s.soon /\ m.watch = s.watch /\ m.notice = s.notice
    BY <1>3, <2>1 DEF Base, SyncType
  <2>3. Base(cs, m) /\ Keyed(m)
    BY <1>3, <2>2 DEF Base, Told, Wanted, Known, Keyed
  <2>4. \A d : (Settled(s, d, p) => Settled(m, d, p)) /\ (Awaited(s, d) => Awaited(m, d))
    BY <2>2 DEF Settled, UpToDate, Awaited
  <2>5. Knows(cs, m, p)
    BY <1>3, <2>4 DEF Knows
  <2>6. t = Later(m, c, 1)
    BY <1>1, <1>6, <2>1 DEF Serve, schedule_session_syncs, Later
  <2>7. 1 \in 1 .. MaxSyncs
    BY Constants
  <2>8. SyncInv(cs, t, p)
    BY <2>3, <2>5, <2>6, <2>7, LaterKeeps DEF SyncInv
  <2> QED BY <1>1, <1>2, <2>8
<1>7. CASE mode = "async" /\ ~fresh
  <2>1. PICK m : m = [s EXCEPT !.pending = TRUE]
    OBVIOUS
  <2>2. Base(cs, m)
    BY <1>3, <2>1, PendingKeeps
  <2>3. t = Ensure(cs, m, p, TRUE, works)
    BY <1>1, <1>2, <1>7, <2>1 DEF Serve
  <2>4. Base(cs, t) /\ Keyed(t) /\ Knows(cs, t, p)
    BY <1>2, <2>2, <2>3, EnsureKeeps
  <2> QED BY <1>1, <1>2, <2>4 DEF SyncInv
<1> QED BY <1>4, <1>5, <1>6, <1>7 DEF Modes

-----------------------------------------------------------------------------
(* start_client *)

ClientTable == [ClientIds -> [phase : Phases, mode : Modes]]

\* The ids that vim.lsp.start has given away.
Used(cs) == {c \in ClientIds : cs[c].phase # "none"}

LEMMA StopAllFacts ==
  ASSUME NEW cs \in ClientTable, OneRuns(cs)
  PROVE  /\ StopAll(cs) \in ClientTable /\ OneRuns(StopAll(cs))
         /\ session_clients(StopAll(cs)) = {}
         /\ Used(StopAll(cs)) = Used(cs)
<1>1. PICK t : t = StopAll(cs)
  OBVIOUS
<1>2. ASSUME NEW c \in ClientIds
      PROVE  /\ t[c] \in [phase : Phases, mode : Modes]
             /\ live_client(cs, c) => t[c].phase = "stopping"
             /\ ~live_client(cs, c) => t[c] = cs[c]
  <2>1. cs[c] \in [phase : Phases, mode : Modes]
    BY DEF ClientTable
  <2>2. t[c] = IF live_client(cs, c) THEN [cs[c] EXCEPT !.phase = "stopping"] ELSE cs[c]
    BY <1>1 DEF StopAll
  <2> QED BY <2>1, <2>2 DEF Phases
<1>3. t \in ClientTable
  <2>1. t = [c \in ClientIds |-> t[c]]
    BY <1>1 DEF StopAll
  <2> QED BY <1>2, <2>1 DEF ClientTable
<1>4. \A c \in ClientIds : t[c].phase \in {"starting", "live"} => t[c] = cs[c]
  BY <1>2
<1>5. OneRuns(t)
  BY <1>4 DEF OneRuns, Running
<1>6. session_clients(t) = {}
  BY <1>2 DEF session_clients, live_client
<1>7. Used(t) = Used(cs)
  BY <1>2 DEF Used, live_client
<1> QED BY <1>1, <1>3, <1>5, <1>6, <1>7

LEMMA LaunchFacts ==
  ASSUME NEW cs \in ClientTable, OneRuns(cs), NEW mode \in Modes,
         Used(cs) # ClientIds
  PROVE  /\ Launch(cs, mode) \in ClientTable /\ OneRuns(Launch(cs, mode))
         /\ Started(cs) \in ClientIds
         /\ session_clients(Launch(cs, mode)) = session_clients(cs)
         /\ session_clients(cs) \subseteq {Started(cs)}
         /\ Used(Launch(cs, mode)) \subseteq Used(cs) \cup {Started(cs)}
<1>1. CASE Running(cs) # {}
  <2>1. Launch(cs, mode) = cs /\ Started(cs) \in Running(cs)
    BY <1>1 DEF Launch, Started
  <2>2. Started(cs) \in ClientIds /\ session_clients(cs) \subseteq {Started(cs)}
    BY <2>1 DEF Running, session_clients, live_client, OneRuns
  <2> QED BY <2>1, <2>2
<1>2. CASE Running(cs) = {}
  <2>1. PICK t : t = Launch(cs, mode)
    OBVIOUS
  <2>2. PICK f : f = Started(cs)
    OBVIOUS
  <2>3. f \in ClientIds /\ f = Fresh(cs)
    <3>1. \E c \in ClientIds : cs[c].phase = "none"
      BY DEF Used
    <3> QED BY <1>2, <2>2, <3>1 DEF Started, Fresh
  <2>4. t = [cs EXCEPT ![f] = [phase |-> "starting", mode |-> mode]]
    BY <1>2, <2>1, <2>3 DEF Launch
  <2>5. /\ t \in ClientTable /\ t[f].phase = "starting"
        /\ \A c \in ClientIds : c # f => t[c] = cs[c]
    BY <2>3, <2>4 DEF ClientTable, Phases
  <2>6. \A c \in ClientIds : cs[c].phase \notin {"starting", "live"}
    BY <1>2 DEF Running
  <2>7. OneRuns(t)
    BY <2>5, <2>6 DEF OneRuns, Running
  <2>8. session_clients(t) = {} /\ session_clients(cs) = {}
    BY <2>5, <2>6 DEF session_clients, live_client
  <2>9. Used(t) \subseteq Used(cs) \cup {f}
    BY <2>5 DEF Used
  <2> QED BY <2>1, <2>2, <2>3, <2>5, <2>7, <2>8, <2>9
<1> QED BY <1>1, <1>2

\* A client whose notes are forgotten is settled, whatever its state.
LEMMA ForgetAllKeeps ==
  ASSUME NEW cs, NEW s, Base(cs, s), Keyed(s), NEW ds
  PROVE  \A p : SyncInv(ds, ForgetAll(cs, s), p)
<1>1. PICK f : f = [c \in ClientIds |-> IF live_client(cs, c) THEN None ELSE s.told[c]]
  OBVIOUS
<1>2. PICK g : g = [c \in ClientIds |-> IF live_client(cs, c) THEN None ELSE s.wanted[c]]
  OBVIOUS
<1>3. PICK t : t = ForgetAll(cs, s)
  OBVIOUS
<1>4. t = [s EXCEPT !.told = f, !.wanted = g]
  BY <1>1, <1>2, <1>3 DEF ForgetAll
<1>5. s \in SyncType
  BY DEF Base
<1>6. s.told \in [ClientIds -> Payloads \cup {None}] /\ s.wanted \in [ClientIds -> Payloads \cup {None}]
  BY <1>5, SyncFacts
<1>7. f \in [ClientIds -> Payloads \cup {None}] /\ g \in [ClientIds -> Payloads \cup {None}]
  BY <1>1, <1>2, <1>6
<1>8. /\ t \in SyncType /\ t.told = f /\ t.wanted = g
      /\ t.inflight = s.inflight /\ t.requested = s.requested /\ t.watch = s.watch
      /\ t.notice = s.notice /\ t.soon = s.soon
  BY <1>4, <1>5, <1>7 DEF SyncType
<1>9. \A c \in ClientIds : t.told[c] = None /\ (t.wanted[c] # None => t.wanted[c] = s.wanted[c])
  BY <1>1, <1>2, <1>8 DEF Base, Told
<1>10. Base(ds, t)
  BY <1>8, <1>9 DEF Base, Told, Wanted, Known
<1>11. Keyed(t) /\ \A p : Knows(ds, t, p)
  BY <1>8, <1>9 DEF Keyed, Knows, Settled, session_clients
<1> QED BY <1>3, <1>8, <1>10, <1>11 DEF SyncInv

-----------------------------------------------------------------------------
(* What R writes *)

LEMMA FollowsTyped ==
  ASSUME NEW content \in Contents
  PROVE  Follows(content) \subseteq Contents
<1> DEFINE At(statuses, seq) == {[status |-> st, seq |-> seq] : st \in statuses}
           next == {n \in {content.seq + 1} : n <= MaxSeq}
<1>1. content.seq \in 0 .. MaxSeq /\ 0 \in 0 .. MaxSeq
  BY Constants DEF Contents
<1>2. \A n \in next : n \in 0 .. MaxSeq
  BY <1>1, Constants
<1>3. ASSUME NEW ss \in SUBSET Statuses, NEW n \in 0 .. MaxSeq PROVE At(ss, n) \subseteq Contents
  BY DEF Contents
<1>4. Follows(content) =
        CASE content.status = "pending" -> At({"busy", "ready", "error", "gone"}, 0)
          [] content.status = "ready" -> At({"busy"}, content.seq) \cup At({"gone"}, content.seq)
          [] content.status = "busy" -> {[status |-> "ready", seq |-> n] : n \in next}
                                          \cup At({"gone"}, content.seq)
          [] content.status = "gone" -> At({"pending"}, 0) \cup At({"ready"}, content.seq)
          [] OTHER -> At({"gone", "pending"}, 0)
  BY DEF Follows
<1>5. /\ {"busy", "ready", "error", "gone"} \in SUBSET Statuses
      /\ {"busy"} \in SUBSET Statuses /\ {"gone"} \in SUBSET Statuses
      /\ {"ready"} \in SUBSET Statuses /\ {"pending"} \in SUBSET Statuses
      /\ {"gone", "pending"} \in SUBSET Statuses
  BY DEF Statuses
<1> HIDE DEF At, next
<1>6. /\ At({"busy", "ready", "error", "gone"}, 0) \subseteq Contents
      /\ At({"busy"}, content.seq) \subseteq Contents /\ At({"gone"}, content.seq) \subseteq Contents
      /\ At({"pending"}, 0) \subseteq Contents /\ At({"ready"}, content.seq) \subseteq Contents
      /\ At({"gone", "pending"}, 0) \subseteq Contents
  BY <1>1, <1>3, <1>5
<1>7. {[status |-> "ready", seq |-> n] : n \in next} \subseteq Contents
  BY <1>2 DEF Contents, Statuses
<1> QED BY <1>4, <1>6, <1>7

\* A write is seen by a watcher, or told by the history.
LEMMA WrittenKeeps ==
  ASSUME NEW cs, NEW s, Base(cs, s), Keyed(s), NEW f, NEW seen \in BOOLEAN,
         seen => s.watch # None
  PROVE  LET t == Written(s, f, seen) IN
         /\ Base(cs, t) /\ Keyed(t) /\ t.watch = s.watch
         /\ f = shown => \A p : Knows(cs, t, p)
         /\ \A p : Knows(cs, s, p) => Knows(cs, t, p)
<1>1. PICK t : t = Written(s, f, seen)
  OBVIOUS
<1>2. s \in SyncType
  BY DEF Base
<1>3. s.notice \in BOOLEAN /\ s.untold \in BOOLEAN /\ s.watch \in Watches \cup {None}
  BY <1>2, SyncFacts
<1>4. PICK n \in BOOLEAN : n = (s.notice \/ seen)
  BY <1>3
<1>5. PICK u \in BOOLEAN : u = (s.untold \/ (f = shown /\ ~seen))
  BY <1>3
<1>6. t = [s EXCEPT !.notice = n, !.untold = u]
  BY <1>1, <1>4, <1>5 DEF Written
<1>7. /\ t \in SyncType /\ t.notice = n /\ t.untold = u
      /\ t.told = s.told /\ t.known = s.known /\ t.wanted = s.wanted
      /\ t.inflight = s.inflight /\ t.overtaken = s.overtaken
      /\ t.requested = s.requested /\ t.attempts = s.attempts
      /\ t.soon = s.soon /\ t.watch = s.watch
  BY <1>2, <1>6 DEF SyncType
<1>8. Base(cs, t) /\ Keyed(t)
  BY <1>3, <1>4, <1>7 DEF Base, Told, Wanted, Known, Keyed
<1>9. f = shown => \A p, c : Settled(t, c, p) \/ Awaited(t, c)
  <2>1. f = shown => t.notice \/ t.untold
    BY <1>4, <1>5, <1>7
  <2> QED BY <2>1 DEF Settled, Awaited
<1>10. \A p, c : (Settled(s, c, p) => Settled(t, c, p)) /\ (Awaited(s, c) => Awaited(t, c))
  <2>1. (s.notice => t.notice) /\ (s.untold => t.untold)
    BY <1>4, <1>5, <1>7
  <2> QED BY <1>7, <2>1 DEF Settled, UpToDate, Awaited
<1> QED BY <1>1, <1>7, <1>8, <1>9, <1>10 DEF Knows

\* The end of a callback: what R wrote meanwhile is noticed, read again, or told by the
\* history.
LEMMA FinishKeeps ==
  ASSUME NEW cs, OneRuns(cs), NEW r, SyncInv(cs, r, session_payload), Readable,
         NEW again \in BOOLEAN, NEW budget \in ScenarioType, Finish(cs, r, again, budget)
  PROVE  /\ SyncInv(cs, sync', payload_of(disk', shown)) /\ sync'.watch = r.watch
         /\ disk' \in [Sessions -> Contents]
         /\ left' \in ScenarioType
         /\ left'.commands = budget.commands /\ left'.crashes = budget.crashes
<1>1. disk \in [Sessions -> Contents] /\ shown \in Sessions \cup {None}
  BY DEF Readable
<1>2. PICK o : o = payload_of(disk', shown)
  OBVIOUS
<1>3. PICK x : /\ \/ x = r /\ UNCHANGED disk /\ left' = budget
                  \/ /\ shown # None /\ budget.writes > 0
                     /\ left' = [budget EXCEPT !.writes = @ - 1]
                     /\ \E content \in Follows(disk[shown]) : disk' = [disk EXCEPT ![shown] = content]
                     /\ \E seen \in BOOLEAN :
                          (seen => Watched(r, shown)) /\ x = Written(r, shown, seen)
               /\ sync' = IF again THEN notify_sessions(cs, x, o) ELSE x
  BY <1>2 DEF Finish
<1>4. /\ disk' \in [Sessions -> Contents] /\ left' \in ScenarioType
      /\ left'.commands = budget.commands /\ left'.crashes = budget.crashes
  <2>1. CASE UNCHANGED disk /\ left' = budget
    BY <1>1, <2>1
  <2>2. CASE /\ shown # None /\ budget.writes > 0 /\ left' = [budget EXCEPT !.writes = @ - 1]
             /\ \E content \in Follows(disk[shown]) : disk' = [disk EXCEPT ![shown] = content]
    <3>1. shown \in Sessions /\ disk[shown] \in Contents
      BY <1>1, <2>2
    <3>2. PICK content \in Contents : disk' = [disk EXCEPT ![shown] = content]
      BY <2>2, <3>1, FollowsTyped
    <3>3. budget.writes \in Nat /\ budget.writes - 1 \in Nat
      BY <2>2 DEF ScenarioType
    <3> QED BY <1>1, <2>2, <3>2, <3>3 DEF ScenarioType
  <2> QED BY <1>3, <2>1, <2>2
<1>5. Base(cs, r) /\ Keyed(r) /\ Knows(cs, r, session_payload)
  BY DEF SyncInv
<1>6. Base(cs, x) /\ Keyed(x) /\ x.watch = r.watch /\ Knows(cs, x, o)
  <2>1. CASE x = r /\ UNCHANGED disk
    <3>1. o = session_payload
      BY <1>2, <2>1 DEF session_payload
    <3> QED BY <1>5, <2>1, <3>1
  <2>2. ASSUME NEW seen \in BOOLEAN, seen => Watched(r, shown), x = Written(r, shown, seen)
        PROVE  Base(cs, x) /\ Keyed(x) /\ x.watch = r.watch /\ Knows(cs, x, o)
    <3>1. seen => r.watch # None
      BY <2>2 DEF Watched
    <3> QED BY <1>5, <2>2, <3>1, WrittenKeeps
  <2> QED BY <1>3, <2>1, <2>2
<1>7. CASE again
  <2>1. o \in Payloads \cup {None}
    <3>1. CASE shown = None
      BY <1>2, <3>1 DEF payload_of
    <3>2. CASE shown # None
      <4>1. disk'[shown] \in Contents /\ shown \in Sessions
        BY <1>1, <1>4, <3>2
      <4>2. o = [file |-> shown, status |-> disk'[shown].status, seq |-> disk'[shown].seq]
        BY <1>2, <3>2 DEF payload_of
      <4> QED BY <4>1, <4>2 DEF Contents, Payloads
    <3> QED BY <3>1, <3>2
  <2>2. PICK t : t = notify_sessions(cs, x, o)
    OBVIOUS
  <2>3. /\ Base(cs, t) /\ \A c \in session_clients(cs) : Settled(t, c, o)
        /\ t.watch = x.watch /\ t.soon = x.soon
    BY <1>6, <2>1, <2>2, NotifySettles
  <2>4. Keyed(t) /\ Knows(cs, t, o)
    BY <1>6, <2>3 DEF Keyed, Knows
  <2> QED BY <1>2, <1>3, <1>4, <1>6, <1>7, <2>2, <2>3, <2>4 DEF SyncInv
<1>8. CASE ~again
  BY <1>2, <1>3, <1>4, <1>6, <1>8 DEF SyncInv
<1> QED BY <1>7, <1>8

LEMMA start_clientKeeps ==
  ASSUME NEW cs \in ClientTable, OneRuns(cs), NEW s, SyncInv(cs, s, session_payload),
         Readable, buffer, Used(cs) # ClientIds,
         NEW mode \in Modes, NEW same \in BOOLEAN, NEW works \in BOOLEAN,
         NEW budget \in ScenarioType, start_client(cs, s, mode, same, works, budget)
  PROVE  /\ clients' \in ClientTable /\ OneRuns(clients')
         /\ SyncInv(clients', sync', payload_of(disk', shown))
         /\ disk' \in [Sessions -> Contents] /\ left' \in ScenarioType
         /\ left'.commands = budget.commands /\ left'.crashes = budget.crashes
         /\ \E c \in ClientIds : Used(clients') \subseteq Used(cs) \cup {c}
<1>1. PICK k \in BOOLEAN : k = (session_clients(cs) # {} /\ same)
  OBVIOUS
<1>2. PICK ds : ds = IF k THEN cs ELSE StopAll(cs)
  OBVIOUS
<1>3. PICK f : f = IF k THEN s ELSE ForgetAll(cs, s)
  OBVIOUS
<1>4. PICK l : l = Launch(ds, mode)
  OBVIOUS
<1>5. PICK again \in BOOLEAN : again = (k /\ mode = "async")
  OBVIOUS
<1>6. /\ clients' = l
      /\ Finish(l, Serve(l, f, Started(ds), ~k, mode, works), again, budget)
  BY <1>1, <1>2, <1>3, <1>4, <1>5 DEF start_client
<1>7. ds \in ClientTable /\ OneRuns(ds) /\ Used(ds) = Used(cs)
  BY <1>2, StopAllFacts
<1>8. /\ l \in ClientTable /\ OneRuns(l) /\ Started(ds) \in ClientIds
      /\ session_clients(l) = session_clients(ds)
      /\ session_clients(l) \subseteq {Started(ds)}
      /\ Used(l) \subseteq Used(cs) \cup {Started(ds)}
  BY <1>4, <1>7, LaunchFacts
<1>9. SyncInv(l, f, session_payload)
  <2>1. CASE k
    <3>1. Running(cs) # {}
      BY <1>1, <2>1 DEF Running, session_clients, live_client
    <3>2. l = cs /\ f = s
      BY <1>2, <1>3, <1>4, <2>1, <3>1 DEF Launch
    <3> QED BY <3>2
  <2>2. CASE ~k
    <3>1. Base(cs, s) /\ Keyed(s)
      BY DEF SyncInv
    <3> QED BY <1>3, <2>2, <3>1, ForgetAllKeeps
  <2> QED BY <2>1, <2>2
<1>10. PICK r : r = Serve(l, f, Started(ds), ~k, mode, works)
  OBVIOUS
<1>11. SyncInv(l, r, session_payload)
  BY <1>8, <1>9, <1>10, ServeKeeps
<1>12. /\ SyncInv(l, sync', payload_of(disk', shown))
       /\ disk' \in [Sessions -> Contents] /\ left' \in ScenarioType
       /\ left'.commands = budget.commands /\ left'.crashes = budget.crashes
  BY <1>6, <1>8, <1>10, <1>11, FinishKeeps
<1> QED BY <1>6, <1>8, <1>12

-----------------------------------------------------------------------------
(* Room for the clients: each command and each crash makes one at most *)

Room ==
  /\ IsFiniteSet(exits) /\ IsFiniteSet(timers)
  /\ Cardinality(Used(clients)) + left.commands + left.crashes
       + Cardinality(exits) + Cardinality(timers) <= MaxClients

LEMMA Grown ==
  ASSUME NEW S, IsFiniteSet(S), NEW x, NEW T, T \subseteq S \cup {x}
  PROVE  /\ IsFiniteSet(T) /\ Cardinality(T) \in Nat /\ Cardinality(S) \in Nat
         /\ Cardinality(T) <= Cardinality(S) + 1
<1>1. /\ IsFiniteSet(S \cup {x}) /\ Cardinality(S) \in Nat /\ Cardinality(S \cup {x}) \in Nat
      /\ Cardinality(S \cup {x}) = Cardinality(S) \/ Cardinality(S \cup {x}) = Cardinality(S) + 1
  BY FS_AddElement, FS_CardinalityType
<1>2. IsFiniteSet(T) /\ Cardinality(T) <= Cardinality(S \cup {x}) /\ Cardinality(T) \in Nat
  BY <1>1, FS_Subset, FS_CardinalityType
<1> QED BY <1>1, <1>2

LEMMA Shrunk ==
  ASSUME NEW S, IsFiniteSet(S), NEW x \in S
  PROVE  /\ IsFiniteSet(S \ {x}) /\ Cardinality(S \ {x}) \in Nat /\ Cardinality(S) \in Nat
         /\ Cardinality(S \ {x}) + 1 = Cardinality(S)
<1>1. IsFiniteSet(S \ {x}) /\ Cardinality(S \ {x}) = Cardinality(S) - 1
  BY FS_RemoveElement
<1>2. Cardinality(S) \in Nat /\ Cardinality(S \ {x}) \in Nat
  BY <1>1, FS_CardinalityType
<1> QED BY <1>1, <1>2

LEMMA UsedFinite ==
  ASSUME NEW cs
  PROVE  /\ IsFiniteSet(Used(cs)) /\ Cardinality(Used(cs)) \in Nat
         /\ Cardinality(Used(cs)) < MaxClients => Used(cs) # ClientIds
<1>1. IsFiniteSet(ClientIds) /\ Cardinality(ClientIds) = MaxClients
  BY Constants, FS_Interval DEF ClientIds
<1>2. Used(cs) \subseteq ClientIds
  BY DEF Used
<1> QED BY <1>1, <1>2, Constants, FS_Subset, FS_CardinalityType

-----------------------------------------------------------------------------
(* The inductive invariant, and the steps that keep it *)

KnowledgeInv ==
  /\ TypeOK
  /\ OneRuns(clients)
  /\ SyncInv(clients, sync, session_payload)
  /\ ~buffer => sync.watch = None
  /\ Room

\* The invariant of the next state, in terms of the session as it is then.
LEMMA SameBuffer ==
  ASSUME UNCHANGED <<buffer, shown>>, SyncInv(clients', sync', payload_of(disk', shown))
  PROVE  SyncInv(clients, sync, session_payload)'
<1>1. session_payload' = payload_of(disk', shown)
  BY DEF session_payload, payload_of
<1>2. Base(clients, sync)' /\ Keyed(sync)'
  BY DEF SyncInv, Base, Told, Wanted, Known, live_client, Keyed
<1>3. \A c : Settled(sync', c, payload_of(disk', shown)) <=> Settled(sync, c, session_payload)'
  BY <1>1 DEF Settled, UpToDate, suppress_stale_payload, IsReady
<1>4. Knows(clients, sync, session_payload)'
  BY <1>1, <1>3 DEF SyncInv, Knows, Awaited, session_clients, live_client
<1> QED BY <1>2, <1>4 DEF SyncInv

\* The invariant of a state in which the session is as before.
LEMMA SameSession ==
  ASSUME UNCHANGED <<buffer, disk, shown>>, SyncInv(clients', sync', session_payload)
  PROVE  SyncInv(clients, sync, session_payload)'
<1>1. payload_of(disk', shown) = session_payload
  BY DEF session_payload
<1> QED BY <1>1, SameBuffer

\* A callback changes what the plugin knows, and nothing else.
LEMMA Callback ==
  ASSUME KnowledgeInv, UNCHANGED sessionCallback,
         SyncInv(clients, sync', session_payload), ~buffer => sync'.watch = None
  PROVE  KnowledgeInv'
<1>1. UNCHANGED <<buffer, disk, shown, clients, recovery, exits, timers, notified, events, restarts, left>>
  BY DEF sessionCallback, recoveryVars
<1>2. SyncInv(clients, sync, session_payload)'
  BY <1>1, SameSession
<1>3. sync' \in SyncType
  BY DEF SyncInv, Base
<1>4. TypeOK'
  BY <1>1, <1>3 DEF KnowledgeInv, TypeOK
<1>5. OneRuns(clients)'
  BY <1>1 DEF KnowledgeInv, OneRuns, Running
<1>6. Room'
  BY <1>1 DEF KnowledgeInv, Room, Used
<1> QED BY <1>1, <1>2, <1>4, <1>5, <1>6 DEF KnowledgeInv

\* A flag of a callback is taken down before it runs.
LEMMA FlagKeeps ==
  ASSUME NEW cs, NEW s, Base(cs, s)
  PROVE  /\ Base(cs, [s EXCEPT !.soon = FALSE]) /\ [s EXCEPT !.soon = FALSE].watch = s.watch
         /\ Base(cs, [s EXCEPT !.ensure = FALSE]) /\ [s EXCEPT !.ensure = FALSE].watch = s.watch
         /\ Base(cs, [s EXCEPT !.notice = FALSE]) /\ [s EXCEPT !.notice = FALSE].watch = s.watch
         /\ [s EXCEPT !.notice = FALSE].soon = s.soon
<1>1. ASSUME NEW t \in SyncType, t.told = s.told, t.known = s.known, t.wanted = s.wanted,
             t.inflight = s.inflight, t.overtaken = s.overtaken, t.requested = s.requested,
             t.watch = s.watch, t.notice => s.notice
      PROVE  Base(cs, t)
  BY <1>1 DEF Base, Told, Wanted, Known
<1>2. s \in SyncType
  BY DEF Base
<1>3. PICK t : t = [s EXCEPT !.soon = FALSE]
  OBVIOUS
<1>4. PICK u : u = [s EXCEPT !.ensure = FALSE]
  OBVIOUS
<1>5. PICK v : v = [s EXCEPT !.notice = FALSE]
  OBVIOUS
<1>6. Base(cs, t) /\ t.watch = s.watch
  <2>1. /\ t \in SyncType /\ t.told = s.told /\ t.known = s.known /\ t.wanted = s.wanted
        /\ t.inflight = s.inflight /\ t.overtaken = s.overtaken /\ t.requested = s.requested
        /\ t.watch = s.watch /\ t.notice = s.notice
    BY <1>2, <1>3 DEF SyncType
  <2> QED BY <1>1, <2>1
<1>7. Base(cs, u) /\ u.watch = s.watch
  <2>1. /\ u \in SyncType /\ u.told = s.told /\ u.known = s.known /\ u.wanted = s.wanted
        /\ u.inflight = s.inflight /\ u.overtaken = s.overtaken /\ u.requested = s.requested
        /\ u.watch = s.watch /\ u.notice = s.notice
    BY <1>2, <1>4 DEF SyncType
  <2> QED BY <1>1, <2>1
<1>8. Base(cs, v) /\ v.watch = s.watch /\ v.soon = s.soon
  <2>1. /\ v \in SyncType /\ v.told = s.told /\ v.known = s.known /\ v.wanted = s.wanted
        /\ v.inflight = s.inflight /\ v.overtaken = s.overtaken /\ v.requested = s.requested
        /\ v.watch = s.watch /\ ~v.notice /\ v.soon = s.soon
    BY <1>2, <1>5 DEF SyncType
  <2> QED BY <1>1, <2>1
<1> QED BY <1>3, <1>4, <1>5, <1>6, <1>7, <1>8

LEMMA InvFacts ==
  ASSUME KnowledgeInv
  PROVE  /\ Base(clients, sync) /\ Keyed(sync) /\ Knows(clients, sync, session_payload)
         /\ OneRuns(clients)
         /\ Readable /\ clients \in ClientTable /\ sync \in SyncType /\ left \in ScenarioType
         /\ session_payload \in Payloads \cup {None}
         /\ ~buffer => sync.watch = None
<1>1. Readable
  BY DEF KnowledgeInv, TypeOK, Readable
<1> QED BY <1>1, PayloadFacts DEF KnowledgeInv, SyncInv, TypeOK, ClientTable

LEMMA EnsureStep ==
  ASSUME KnowledgeInv, SyncSessions \/ EnsureLater
  PROVE  KnowledgeInv'
<1>1. PICK works \in BOOLEAN, s \in {[sync EXCEPT !.soon = FALSE], [sync EXCEPT !.ensure = FALSE]} :
        Finish(clients, IF buffer THEN Ensure(clients, s, session_payload, TRUE, works) ELSE s,
               FALSE, left)
  BY DEF SyncSessions, EnsureLater
<1>2. UNCHANGED <<buffer, shown, clients, recovery, exits, timers, notified, events, restarts>>
  BY DEF SyncSessions, EnsureLater, recoveryVars
<1>3. PICK r : r = IF buffer THEN Ensure(clients, s, session_payload, TRUE, works) ELSE s
  OBVIOUS
<1>4. Base(clients, s) /\ s.watch = sync.watch
  <2>1. Base(clients, sync)
    BY InvFacts
  <2>2. /\ Base(clients, [sync EXCEPT !.soon = FALSE])
        /\ Base(clients, [sync EXCEPT !.ensure = FALSE])
        /\ [sync EXCEPT !.soon = FALSE].watch = sync.watch
        /\ [sync EXCEPT !.ensure = FALSE].watch = sync.watch
    BY <2>1, FlagKeeps
  <2> QED BY <1>1, <2>2
<1>5. SyncInv(clients, r, session_payload) /\ (~buffer => r.watch = None)
  <2>1. CASE buffer
    <3>1. Base(clients, r) /\ Keyed(r) /\ Knows(clients, r, session_payload)
      BY <1>3, <1>4, <2>1, InvFacts, EnsureKeeps
    <3> QED BY <2>1, <3>1 DEF SyncInv
  <2>2. CASE ~buffer
    BY <1>3, <1>4, <2>2, InvFacts DEF SyncInv, Keyed, Knows
  <2> QED BY <2>1, <2>2
<1>6. /\ SyncInv(clients, sync', payload_of(disk', shown)) /\ sync'.watch = r.watch
      /\ disk' \in [Sessions -> Contents] /\ left' \in ScenarioType
      /\ left'.commands = left.commands /\ left'.crashes = left.crashes
  BY <1>1, <1>3, <1>5, InvFacts, FinishKeeps
<1>7. SyncInv(clients, sync, session_payload)'
  BY <1>2, <1>6, SameBuffer
<1>8. sync' \in SyncType
  BY <1>6 DEF SyncInv, Base
<1>9. TypeOK'
  BY <1>2, <1>6, <1>8 DEF KnowledgeInv, TypeOK
<1>10. Room' /\ OneRuns(clients)'
  BY <1>2, <1>6 DEF KnowledgeInv, Room, Used, OneRuns, Running
<1> QED BY <1>2, <1>5, <1>6, <1>7, <1>9, <1>10 DEF KnowledgeInv

LEMMA process_updateKeeps ==
  ASSUME NEW s, Base(clients, s), Keyed(s), OneRuns(clients), Readable, s.watch \in Watches
  PROVE  SyncInv(clients, process_update(s), session_payload)
<1>1. PICK p : p = session_payload
  OBVIOUS
<1>2. PICK t : t = notify_sessions(clients, s, p)
  OBVIOUS
<1>3. PICK a : a = bootstrap_pending_startups(clients, t, p)
  OBVIOUS
<1>4. process_update(s) =
        CASE p = None \/ (p # None /\ p.file # s.watch.key) -> Stop(s)
          [] p # None /\ p.file = s.watch.key /\ session_watch_finished(p) -> Stop(a)
          [] OTHER -> [a EXCEPT !.watch.poll = ~session_poll_finished(clients, a, p)]
  BY <1>1, <1>2, <1>3 DEF process_update
\* A watch of another session is stopped: sync_sessions_soon is still to run.
<1>5. CASE p = None \/ p.file # s.watch.key
  <2>1. process_update(s) = Stop(s)
    BY <1>4, <1>5
  <2>2. p = None \/ s.soon
    BY <1>1, <1>5, PayloadFacts, Constants DEF Keyed
  <2>3. Base(clients, Stop(s)) /\ Keyed(Stop(s)) /\ Knows(clients, Stop(s), p)
    BY <2>2, StopKeeps DEF Knows
  <2> QED BY <1>1, <2>1, <2>3 DEF SyncInv
<1>6. CASE p # None /\ p.file = s.watch.key
  <2>1. p \in Payloads /\ p.file = shown
    BY <1>1, <1>6, PayloadFacts
  <2>2. /\ Base(clients, t) /\ t.watch = s.watch
        /\ \A c \in session_clients(clients) : Settled(t, c, p)
    BY <1>2, <2>1, NotifySettles
  <2>3. Keyed(t)
    BY <1>6, <2>1, <2>2 DEF Keyed
  <2>4. /\ Base(clients, a) /\ Keyed(a) /\ a.watch = s.watch
        /\ \A c \in session_clients(clients) : Settled(a, c, p)
    <3>1. CASE a = t
      BY <2>2, <2>3, <3>1
    <3>2. CASE a # t
      <4>1. PICK c \in session_clients(clients) : a = start_pending_bootstrap_async(t, c, p, "watch", 0)
        BY <1>3, <3>2 DEF bootstrap_pending_startups
      <4>2. c \in ClientIds /\ "watch" \in Waiters /\ 0 \in 0 .. MaxSyncs
        BY Constants DEF session_clients, Waiters
      <4>3. SyncInv(clients, a, p) /\ a.watch = t.watch /\ a.inflight # {}
        BY <2>1, <2>2, <2>3, <4>1, <4>2, BootstrapKeeps
      <4> QED BY <2>2, <4>3 DEF SyncInv, Settled
    <3> QED BY <3>1, <3>2
  <2>5. CASE session_watch_finished(p)
    <3>1. process_update(s) = Stop(a)
      BY <1>4, <1>6, <2>5
    <3>2. Base(clients, Stop(a)) /\ Keyed(Stop(a)) /\ Knows(clients, Stop(a), p)
      BY <2>4, StopKeeps
    <3> QED BY <1>1, <3>1, <3>2 DEF SyncInv
  <2>6. CASE ~session_watch_finished(p)
    <3>1. PICK v \in BOOLEAN : v = ~session_poll_finished(clients, a, p)
      OBVIOUS
    <3>2. PICK u : u = [a EXCEPT !.watch.poll = v]
      OBVIOUS
    <3>3. process_update(s) = u
      BY <1>4, <1>6, <2>6, <3>1, <3>2
    <3>4. a \in SyncType /\ a.watch \in Watches
      BY <2>4 DEF Base
    <3>5. SameKnowledge(a, u) /\ u.watch \in Watches /\ u.watch.key = a.watch.key
      BY <3>2, <3>4, WatchingTyped
    <3>6. Base(clients, u)
      BY <2>4, <3>5, SameBase
    <3>7. Keyed(u)
      BY <1>6, <2>1, <2>4, <3>5 DEF Keyed
    <3>8. Knows(clients, u, p)
      BY <2>4, <3>5 DEF Knows, Settled, UpToDate, SameKnowledge
    <3> QED BY <1>1, <3>3, <3>6, <3>7, <3>8 DEF SyncInv
  <2> QED BY <2>5, <2>6
<1> QED BY <1>5, <1>6

LEMMA WatchStep ==
  ASSUME KnowledgeInv, WatchNotice \/ Poll
  PROVE  KnowledgeInv'
<1>1. PICK s : /\ s = sync \/ s = [sync EXCEPT !.notice = FALSE]
               /\ sync' = process_update(s)
  BY DEF WatchNotice, Poll
<1>2. UNCHANGED sessionCallback
  BY DEF WatchNotice, Poll, sessionCallback
<1>3. sync.watch \in Watches
  BY InvFacts, SyncFacts DEF WatchNotice, Poll, Base
<1>4. Base(clients, s) /\ Keyed(s) /\ s.watch = sync.watch
  <2>1. Base(clients, sync) /\ Keyed(sync)
    BY InvFacts
  <2>2. /\ Base(clients, [sync EXCEPT !.notice = FALSE])
        /\ [sync EXCEPT !.notice = FALSE].watch = sync.watch
        /\ [sync EXCEPT !.notice = FALSE].soon = sync.soon
    BY <2>1, FlagKeeps
  <2> QED BY <1>1, <2>1, <2>2 DEF Keyed
<1>5. SyncInv(clients, sync', session_payload)
  BY <1>1, <1>3, <1>4, InvFacts, process_updateKeeps
<1>6. buffer
  BY <1>3, InvFacts, Constants
<1> QED BY <1>2, <1>5, <1>6, Callback

LEMMA AttemptStep ==
  ASSUME KnowledgeInv, NEW a, Attempt(a)
  PROVE  KnowledgeInv'
<1>1. PICK s : s = [sync EXCEPT !.attempts = @ \ {a}]
  OBVIOUS
<1>2. PICK p : p = session_payload
  OBVIOUS
<1>3. PICK t : t = notify_client_session(clients, s, a.client, p)
  OBVIOUS
<1>4. /\ a \in sync.attempts /\ UNCHANGED sessionCallback
      /\ sync' = CASE clients[a.client].phase = "stopping" -> s
                   [] live_client(clients, a.client) /\ IsReady(p) /\ s.pending /\ ~s.requested ->
                        start_pending_bootstrap_async(t, a.client, p, "attempt", a.index)
                   [] OTHER -> schedule_next(clients, t, a.client, a.index, p)
  BY <1>1, <1>2, <1>3 DEF Attempt
<1>5. a.client \in ClientIds /\ a.index \in 0 .. MaxSyncs
  <2>1. a \in Attempted
    BY <1>4, InvFacts, SyncFacts
  <2>2. a.client \in ClientIds /\ a.index \in 1 .. MaxSyncs
    BY <2>1 DEF Attempted
  <2> QED BY <2>2, Constants
<1>6. /\ s \in SyncType
      /\ s.told = sync.told /\ s.known = sync.known /\ s.wanted = sync.wanted
      /\ s.inflight = sync.inflight /\ s.overtaken = sync.overtaken /\ s.untold = sync.untold
      /\ s.requested = sync.requested /\ s.attempts = sync.attempts \ {a}
      /\ s.soon = sync.soon /\ s.watch = sync.watch /\ s.notice = sync.notice
  BY <1>1, InvFacts DEF SyncType
<1>7. Base(clients, s) /\ Keyed(s)
  BY <1>6, InvFacts DEF Base, Told, Wanted, Known, Keyed
<1>8. ~live_client(clients, a.client) => Knows(clients, s, p)
  <2> SUFFICES ASSUME ~live_client(clients, a.client), NEW c \in session_clients(clients)
               PROVE  buffer /\ p # None => Settled(s, c, p) \/ Awaited(s, c)
    BY DEF Knows
  <2>1. c # a.client
    BY DEF session_clients
  <2>2. buffer /\ p # None => Settled(sync, c, p) \/ Awaited(sync, c)
    BY <1>2, InvFacts DEF Knows
  <2>3. Settled(sync, c, p) => Settled(s, c, p)
    BY <1>6 DEF Settled, UpToDate
  <2>4. Awaited(sync, c) => Awaited(s, c)
    BY <1>6, <2>1 DEF Awaited
  <2> QED BY <2>2, <2>3, <2>4
<1>9. SyncInv(clients, t, p) /\ t.watch = sync.watch
  <2>1. /\ Base(clients, t) /\ t.watch = s.watch /\ t.soon = s.soon
        /\ live_client(clients, a.client) => Settled(t, a.client, p)
        /\ ~live_client(clients, a.client) => t = s
    BY <1>2, <1>3, <1>5, <1>7, InvFacts, NotifiedIsSettled
  <2>2. Keyed(t)
    BY <1>7, <2>1 DEF Keyed
  <2>3. CASE live_client(clients, a.client)
    <3>1. \A c \in session_clients(clients) : c = a.client
      BY <1>5, <2>3, InvFacts, LiveRuns DEF session_clients
    <3> QED BY <1>6, <2>1, <2>2, <2>3, <3>1 DEF SyncInv, Knows
  <2>4. CASE ~live_client(clients, a.client)
    BY <1>6, <1>7, <1>8, <2>1, <2>4 DEF SyncInv
  <2> QED BY <2>3, <2>4
<1>10. SyncInv(clients, sync', p) /\ sync'.watch = sync.watch
  <2>1. CASE clients[a.client].phase = "stopping"
    <3>1. ~live_client(clients, a.client) /\ sync' = s
      BY <1>4, <2>1 DEF live_client
    <3> QED BY <1>6, <1>7, <1>8, <3>1 DEF SyncInv
  <2>2. CASE /\ live_client(clients, a.client) /\ IsReady(p) /\ s.pending /\ ~s.requested
    <3>1. sync' = start_pending_bootstrap_async(t, a.client, p, "attempt", a.index)
      BY <1>4, <2>2 DEF live_client
    <3>2. p \in Payloads /\ "attempt" \in Waiters
      BY <1>2, <2>2, InvFacts, PayloadFacts DEF IsReady, Waiters
    <3>3. Base(clients, t) /\ Keyed(t)
      BY <1>9 DEF SyncInv
    <3>4. PICK u : u = start_pending_bootstrap_async(t, a.client, p, "attempt", a.index)
      OBVIOUS
    <3>5. SyncInv(clients, u, p) /\ u.watch = t.watch
      BY <1>5, <3>2, <3>3, <3>4, BootstrapKeeps
    <3> QED BY <1>9, <3>1, <3>4, <3>5
  <2>3. CASE /\ clients[a.client].phase # "stopping"
             /\ ~(live_client(clients, a.client) /\ IsReady(p) /\ s.pending /\ ~s.requested)
    <3>1. sync' = schedule_next(clients, t, a.client, a.index, p)
      BY <1>4, <2>3
    <3> QED BY <1>5, <1>9, <3>1, NextKeeps
  <2> QED BY <2>1, <2>2, <2>3
<1> QED BY <1>2, <1>4, <1>10, InvFacts, Callback

\* After an answer the client knows what was asked with, or the session has moved on.
LEMMA AnswerStep ==
  ASSUME KnowledgeInv, NEW q, NEW answer \in BOOLEAN, Answer(q, answer)
  PROVE  KnowledgeInv'
<1> DEFINE c == q.client
           h == answer /\ buffer /\ live_client(clients, c)
           n == IF h THEN q.payload ELSE sync.told[c]
<1>1. PICK o \in BOOLEAN : o = (sync.overtaken \/ {sync.known[c], session_payload, n} # {q.payload})
  OBVIOUS
<1>2. PICK w : w = [sync.wanted EXCEPT ![c] = IF @ = q.payload THEN None ELSE @]
  OBVIOUS
<1>3. PICK s : s = [sync EXCEPT !.requested = FALSE, !.inflight = @ \ {q},
                                !.wanted[c] = IF @ = q.payload THEN None ELSE @,
                                !.overtaken = @ \/ {sync.known[c], session_payload, n} # {q.payload}]
  OBVIOUS
<1>4. PICK d : d = IF h THEN [s EXCEPT !.told[c] = q.payload, !.pending = FALSE] ELSE s
  OBVIOUS
<1>5. /\ q \in sync.inflight /\ UNCHANGED sessionCallback
      /\ sync' = CASE q.waiter = "watch" -> d
                   [] q.waiter = "immediate" ->
                        IF ~h /\ live_client(clients, c)
                        THEN schedule_session_syncs(d, c) ELSE d
                   [] OTHER -> schedule_next(clients, d, c, q.index, q.payload)
  BY <1>3, <1>4 DEF Answer
<1>6. c = q.client
  OBVIOUS
<1>7. h => live_client(clients, c)
  OBVIOUS
<1>8. n = IF h THEN q.payload ELSE sync.told[c]
  OBVIOUS
<1> HIDE DEF c, h, n
<1>9. c \in ClientIds /\ q.payload \in Payloads /\ q.index \in 0 .. MaxSyncs /\ q.payload # None
  <2>1. q \in Requested
    BY <1>5, InvFacts, SyncFacts
  <2> QED BY <1>6, <2>1, Constants DEF Requested
<1>10. /\ sync.wanted \in [ClientIds -> Payloads \cup {None}]
       /\ sync.told \in [ClientIds -> Payloads \cup {None}]
       /\ sync.inflight \subseteq Requested
  BY InvFacts, SyncFacts
<1>11. /\ w \in [ClientIds -> Payloads \cup {None}]
       /\ w[c] # None => w[c] = sync.wanted[c] /\ w[c] # q.payload
       /\ \A e \in ClientIds : e # c => w[e] = sync.wanted[e]
  BY <1>2, <1>9, <1>10
<1>12. /\ s \in SyncType /\ s.told = sync.told /\ s.known = sync.known /\ s.wanted = w
       /\ s.inflight = sync.inflight \ {q} /\ s.overtaken = o /\ ~s.requested
       /\ s.soon = sync.soon /\ s.watch = sync.watch /\ s.notice = sync.notice
  <2>1. s = [sync EXCEPT !.requested = FALSE, !.inflight = @ \ {q}, !.wanted = w, !.overtaken = o]
    BY <1>1, <1>2, <1>3
  <2> QED BY <2>1, <1>10, <1>11, InvFacts DEF SyncType, Requested
<1>13. /\ d \in SyncType /\ d.told[c] = n /\ d.known = sync.known /\ d.wanted = w
       /\ \A e \in ClientIds : e # c => d.told[e] = sync.told[e]
       /\ d.inflight = sync.inflight \ {q} /\ d.overtaken = o /\ ~d.requested
       /\ d.soon = sync.soon /\ d.watch = sync.watch /\ d.notice = sync.notice
  <2>1. CASE h
    <3>1. PICK f : f = [sync.told EXCEPT ![c] = q.payload]
      OBVIOUS
    <3>2. /\ f \in [ClientIds -> Payloads \cup {None}] /\ f[c] = n
          /\ \A e \in ClientIds : e # c => f[e] = sync.told[e]
      BY <1>8, <1>9, <1>10, <2>1, <3>1
    <3>3. d = [s EXCEPT !.told = f, !.pending = FALSE]
      BY <1>4, <1>12, <2>1, <3>1
    <3>4. /\ d \in SyncType /\ d.told = f /\ d.known = s.known /\ d.wanted = s.wanted
          /\ d.inflight = s.inflight /\ d.overtaken = s.overtaken /\ d.requested = s.requested
          /\ d.soon = s.soon /\ d.watch = s.watch /\ d.notice = s.notice
      BY <1>12, <3>2, <3>3 DEF SyncType
    <3> QED BY <1>12, <3>2, <3>4
  <2>2. CASE ~h
    BY <1>8, <1>4, <1>12, <2>2
  <2> QED BY <2>1, <2>2
<1>14. Told(clients, d)
  BY <1>7, <1>8, <1>13, InvFacts DEF Base, Told
<1>15. Wanted(d)
  <2> SUFFICES ASSUME NEW e \in ClientIds, w[e] # None
               PROVE  \E y \in sync.inflight \ {q} : y.client = e /\ y.payload = w[e]
    BY <1>13 DEF Wanted
  <2>1. w[e] = sync.wanted[e] /\ (e = c => w[e] # q.payload)
    BY <1>11
  <2>2. PICK y \in sync.inflight : y.client = e /\ y.payload = w[e]
    BY <2>1, InvFacts DEF Base, Wanted
  <2>3. y # q
    BY <1>6, <2>1, <2>2
  <2> QED BY <2>2, <2>3
<1>16. ~o => /\ d.told[c] = q.payload /\ d.known[c] = q.payload /\ session_payload = q.payload
             /\ \A e \in session_clients(clients) : e = c
             /\ \A e \in ClientIds : d.told[e] # None => e = c
  <2> SUFFICES ASSUME ~o
               PROVE  /\ d.told[c] = q.payload /\ d.known[c] = q.payload
                      /\ session_payload = q.payload
                      /\ \A e \in session_clients(clients) : e = c
                      /\ \A e \in ClientIds : d.told[e] # None => e = c
    OBVIOUS
  <2>1. {sync.known[c], session_payload, n} = {q.payload}
    BY <1>1
  <2>2. sync.known[c] = q.payload /\ session_payload = q.payload /\ n = q.payload
    BY <2>1
  <2>3. d.told[c] = q.payload
    BY <1>13, <2>2
  <2>4. c \in session_clients(clients)
    BY <1>9, <1>14, <2>3 DEF Told, session_clients
  <2>5. \A e \in session_clients(clients) : e = c
    BY <2>4, InvFacts, LiveRuns
  <2>6. \A e \in ClientIds : d.told[e] # None => e = c
    BY <1>14, <2>5 DEF Told, session_clients
  <2> QED BY <1>13, <2>2, <2>3, <2>5, <2>6
<1>17. Known(d)
  BY <1>13, <1>16 DEF Known
<1>18. Base(clients, d)
  BY <1>13, <1>14, <1>15, <1>17, InvFacts DEF Base
<1>19. Keyed(d)
  BY <1>13, InvFacts DEF Keyed
<1>20. Knows(clients, d, session_payload)
  BY <1>13, <1>16 DEF Knows, Settled, UpToDate
<1>21. SyncInv(clients, d, session_payload)
  BY <1>18, <1>19, <1>20 DEF SyncInv
<1>22. SyncInv(clients, sync', session_payload) /\ sync'.watch = d.watch
  <2>1. /\ SyncInv(clients, schedule_session_syncs(d, c), session_payload)
        /\ schedule_session_syncs(d, c).watch = d.watch
    <3>1. schedule_session_syncs(d, c) = Later(d, c, 1) /\ 1 \in 1 .. MaxSyncs
      BY Constants DEF schedule_session_syncs, Later
    <3> QED BY <1>9, <1>18, <1>19, <1>20, <3>1, LaterKeeps DEF SyncInv
  <2>2. /\ SyncInv(clients, schedule_next(clients, d, c, q.index, q.payload), session_payload)
        /\ schedule_next(clients, d, c, q.index, q.payload).watch = d.watch
    BY <1>9, <1>21, NextKeeps
  <2>3. sync' = d \/ sync' = schedule_session_syncs(d, c)
        \/ sync' = schedule_next(clients, d, c, q.index, q.payload)
    <3> HIDE DEF schedule_session_syncs, schedule_next
    <3> QED BY <1>5
  <2> QED BY <1>21, <2>1, <2>2, <2>3
<1> QED BY <1>5, <1>13, <1>22, InvFacts, Callback

LEMMA SessionStepKeeps ==
  ASSUME KnowledgeInv, SessionStep
  PROVE  KnowledgeInv'
  BY EnsureStep, WatchStep, AttemptStep, AnswerStep DEF SessionStep

\* A command, or a restart: the room it takes up is its own.
LEMMA StartKeeps ==
  ASSUME KnowledgeInv, buffer, UNCHANGED <<buffer, shown>>,
         NEW cs \in {clients, StopAll(clients)}, NEW s, SyncInv(cs, s, session_payload),
         NEW mode \in Modes, NEW same \in BOOLEAN, NEW works \in BOOLEAN,
         NEW budget \in ScenarioType, start_client(cs, s, mode, same, works, budget),
         Cardinality(Used(clients)) < MaxClients
  PROVE  /\ clients' \in ClientTable /\ OneRuns(clients)'
         /\ SyncInv(clients, sync, session_payload)' /\ sync' \in SyncType
         /\ disk' \in [Sessions -> Contents] /\ left' \in ScenarioType
         /\ left'.commands = budget.commands /\ left'.crashes = budget.crashes
         /\ Cardinality(Used(clients'))  \in Nat
         /\ Cardinality(Used(clients')) <= Cardinality(Used(clients)) + 1
<1>1. cs \in ClientTable /\ OneRuns(cs) /\ Used(cs) = Used(clients)
  BY InvFacts, StopAllFacts
<1>2. Used(cs) # ClientIds
  BY <1>1, UsedFinite
<1>3. /\ clients' \in ClientTable /\ OneRuns(clients')
      /\ SyncInv(clients', sync', payload_of(disk', shown))
      /\ disk' \in [Sessions -> Contents] /\ left' \in ScenarioType
      /\ left'.commands = budget.commands /\ left'.crashes = budget.crashes
      /\ \E c \in ClientIds : Used(clients') \subseteq Used(cs) \cup {c}
  BY <1>1, <1>2, InvFacts, start_clientKeeps
<1>4. PICK c : Used(clients') \subseteq Used(clients) \cup {c}
  BY <1>1, <1>3
<1>5. Cardinality(Used(clients')) \in Nat
      /\ Cardinality(Used(clients')) <= Cardinality(Used(clients)) + 1
  BY <1>4, UsedFinite, Grown
<1>6. SyncInv(clients, sync, session_payload)' /\ sync' \in SyncType
  BY <1>3, SameBuffer DEF SyncInv, Base
<1>7. OneRuns(clients)'
  BY <1>3 DEF OneRuns, Running
<1> QED BY <1>3, <1>5, <1>6, <1>7

LEMMA RoomFacts ==
  ASSUME KnowledgeInv
  PROVE  /\ left.commands \in Nat /\ left.crashes \in Nat /\ left.writes \in Nat
         /\ IsFiniteSet(exits) /\ Cardinality(exits) \in Nat
         /\ IsFiniteSet(timers) /\ Cardinality(timers) \in Nat
         /\ Cardinality(Used(clients)) \in Nat /\ MaxClients \in Nat
         /\ Cardinality(Used(clients)) + left.commands + left.crashes
              + Cardinality(exits) + Cardinality(timers) <= MaxClients
<1>1. left.commands \in Nat /\ left.crashes \in Nat /\ left.writes \in Nat
  BY DEF KnowledgeInv, TypeOK, ScenarioType
<1> QED BY <1>1, UsedFinite, Constants, FS_CardinalityType DEF KnowledgeInv, Room

LEMMA SpendFacts ==
  ASSUME KnowledgeInv
  PROVE  /\ left.commands > 0 => /\ Less("commands") \in ScenarioType
                                 /\ Less("commands").commands = left.commands - 1
                                 /\ Less("commands").crashes = left.crashes
         /\ Spend("crashes") => /\ left' \in ScenarioType
                                /\ left.crashes > 0 /\ left'.crashes = left.crashes - 1
                                /\ left'.commands = left.commands
         /\ Spend("writes") => /\ left' \in ScenarioType
                               /\ left'.crashes = left.crashes /\ left'.commands = left.commands
<1>1. left \in ScenarioType
  BY InvFacts
<1>2. left.commands > 0 => /\ Less("commands") \in ScenarioType
                           /\ Less("commands").commands = left.commands - 1
                           /\ Less("commands").crashes = left.crashes
  BY <1>1 DEF ScenarioType, Less
<1>3. Spend("crashes") => /\ left' \in ScenarioType
                          /\ left.crashes > 0 /\ left'.crashes = left.crashes - 1
                          /\ left'.commands = left.commands
  BY <1>1 DEF ScenarioType, Spend, Less
<1>4. Spend("writes") => /\ left' \in ScenarioType
                         /\ left'.crashes = left.crashes /\ left'.commands = left.commands
  BY <1>1 DEF ScenarioType, Spend, Less
<1> QED BY <1>2, <1>3, <1>4

LEMMA CommandKeeps ==
  ASSUME KnowledgeInv, (\E mode \in Modes : Start(mode) \/ Restart(mode)) \/ Refresh
  PROVE  KnowledgeInv'
<1>1. PICK mode \in Modes, same \in BOOLEAN, works \in BOOLEAN,
           cs \in {clients, StopAll(clients)}, s \in {sync, ForgetAll(clients, sync)} :
        /\ cs = clients \/ s = ForgetAll(clients, sync)
        /\ start_client(cs, s, mode, same, works, Less("commands"))
  BY DEF Start, Restart, Refresh, Modes
<1>2. /\ buffer /\ left.commands > 0 /\ UNCHANGED <<buffer, shown, exits, timers>>
      /\ notified' = FALSE /\ recovery' \in {recovery, None}
      /\ events' \in {events, events + 1} /\ restarts' \in {restarts, 0}
  BY DEF Start, Restart, Refresh
<1>3. SyncInv(cs, s, session_payload)
  <2>1. CASE s = ForgetAll(clients, sync)
    BY <2>1, InvFacts, ForgetAllKeeps
  <2>2. CASE s = sync /\ cs = clients
    BY <2>2, InvFacts DEF SyncInv
  <2> QED BY <1>1, <2>1, <2>2
<1>4. /\ Less("commands") \in ScenarioType
      /\ Less("commands").commands = left.commands - 1 /\ Less("commands").crashes = left.crashes
  BY <1>2, SpendFacts
<1>5. Cardinality(Used(clients)) < MaxClients
  BY <1>2, RoomFacts
<1>6. /\ clients' \in ClientTable /\ OneRuns(clients)'
      /\ SyncInv(clients, sync, session_payload)' /\ sync' \in SyncType
      /\ disk' \in [Sessions -> Contents] /\ left' \in ScenarioType
      /\ left'.commands = left.commands - 1 /\ left'.crashes = left.crashes
      /\ Cardinality(Used(clients')) \in Nat
      /\ Cardinality(Used(clients')) <= Cardinality(Used(clients)) + 1
  BY <1>1, <1>2, <1>3, <1>4, <1>5, StartKeeps
<1>7. TypeOK'
  <2>1. /\ recovery \in RecoveryType \cup {None} /\ events \in Nat /\ restarts \in Nat
        /\ buffer \in BOOLEAN /\ shown \in Sessions \cup {None}
        /\ exits \subseteq [client : ClientIds, mode : Modes] /\ timers \subseteq TimerType
    BY DEF KnowledgeInv, TypeOK
  <2>2. events' \in Nat /\ restarts' \in Nat
    BY <1>2, <2>1
  <2>3. recovery' \in RecoveryType \cup {None}
    BY <1>2, <2>1
  <2>4. notified' \in BOOLEAN
    BY <1>2
  <2> QED BY <1>2, <1>6, <2>1, <2>2, <2>3, <2>4 DEF TypeOK, ClientTable
<1>8. Room'
  <2>1. Cardinality(Used(clients')) + left'.commands + left'.crashes
          + Cardinality(exits) + Cardinality(timers) <= MaxClients
    BY <1>2, <1>6, RoomFacts
  <2>2. Used(clients)' = Used(clients')
    BY DEF Used
  <2> QED BY <1>2, <2>1, <2>2, RoomFacts DEF Room
<1> QED BY <1>2, <1>6, <1>7, <1>8 DEF KnowledgeInv

LEMMA RestartLaterKeeps ==
  ASSUME KnowledgeInv, NEW t, RestartLater(t)
  PROVE  KnowledgeInv'
<1>1. /\ t \in timers /\ timers' = timers \ {t}
      /\ UNCHANGED <<buffer, shown, recovery, exits, events>>
      /\ notified' \in BOOLEAN /\ restarts' \in {restarts, restarts + 1}
  BY DEF RestartLater, KnowledgeInv, TypeOK
<1>2. Cardinality(timers') \in Nat /\ Cardinality(timers') + 1 = Cardinality(timers)
      /\ IsFiniteSet(timers')
  BY <1>1, RoomFacts, Shrunk
<1>3. Cardinality(Used(clients)) < MaxClients
  BY <1>2, RoomFacts
<1>4. /\ clients' \in ClientTable /\ OneRuns(clients)'
      /\ SyncInv(clients, sync, session_payload)' /\ sync' \in SyncType
      /\ ~buffer => sync' = sync
      /\ disk' \in [Sessions -> Contents] /\ left' \in ScenarioType
      /\ left'.commands = left.commands /\ left'.crashes = left.crashes
      /\ Cardinality(Used(clients')) \in Nat
      /\ Cardinality(Used(clients')) <= Cardinality(Used(clients)) + 1
  <2>1. CASE UNCHANGED <<disk, clients, sync, left>>
    <3>1. SyncInv(clients, sync, session_payload)
      BY DEF KnowledgeInv
    <3>2. SyncInv(clients', sync', session_payload)
      BY <2>1, <3>1
    <3>3. OneRuns(clients)'
      BY <2>1, InvFacts DEF OneRuns, Running
    <3>4. SyncInv(clients, sync, session_payload)'
      BY <1>1, <2>1, <3>2, SameSession
    <3>5. disk \in [Sessions -> Contents]
      BY InvFacts DEF Readable
    <3> QED BY <1>1, <2>1, <3>3, <3>4, <3>5, InvFacts, RoomFacts
  <2>2. CASE ~UNCHANGED <<disk, clients, sync, left>>
    <3>1. PICK works \in BOOLEAN : buffer /\ start_client(clients, sync, t.mode, TRUE, works, left)
      BY <2>2 DEF RestartLater
    <3>2. t.mode \in Modes
      BY <1>1 DEF KnowledgeInv, TypeOK, TimerType
    <3>3. SyncInv(clients, sync, session_payload) /\ left \in ScenarioType
      BY InvFacts DEF KnowledgeInv
    <3> QED BY <1>1, <1>3, <3>1, <3>2, <3>3, StartKeeps
  <2> QED BY <2>1, <2>2
<1>5. TypeOK'
  BY <1>1, <1>4 DEF KnowledgeInv, TypeOK, ClientTable
<1>6. Room'
  <2>1. Cardinality(Used(clients')) + left'.commands + left'.crashes
          + Cardinality(exits) + Cardinality(timers') <= MaxClients
    BY <1>2, <1>4, RoomFacts
  <2>2. Used(clients)' = Used(clients')
    BY DEF Used
  <2> QED BY <1>1, <1>2, <2>1, <2>2, RoomFacts DEF Room
<1> QED BY <1>1, <1>4, <1>5, <1>6 DEF KnowledgeInv

\* A write to another session than that of the buffer changes nothing for its clients.
LEMMA WriteStatusKeeps ==
  ASSUME KnowledgeInv, NEW f \in Sessions, WriteStatus(f)
  PROVE  KnowledgeInv'
<1>1. /\ Spend("writes") /\ UNCHANGED <<buffer, shown, clients, recovery, exits, timers,
                                        notified, events, restarts>>
  BY DEF WriteStatus, recoveryVars
<1>2. PICK content \in Follows(disk[f]) : disk' = [disk EXCEPT ![f] = content]
  BY DEF WriteStatus
<1>3. PICK seen \in BOOLEAN : seen = Watched(sync, f)
  BY InvFacts, SyncFacts DEF Watched, Watches
<1>4. sync' = Written(sync, f, seen) /\ (seen => sync.watch # None)
  BY <1>3 DEF WriteStatus, Watched
<1>5. disk' \in [Sessions -> Contents]
  <2>1. disk \in [Sessions -> Contents]
    BY InvFacts DEF Readable
  <2>2. content \in Contents
    BY <1>2, <2>1, FollowsTyped
  <2> QED BY <1>2, <2>1, <2>2
<1>6. PICK t : t = Written(sync, f, seen)
  OBVIOUS
<1>7. /\ Base(clients, t) /\ Keyed(t) /\ t.watch = sync.watch
      /\ f = shown => \A p : Knows(clients, t, p)
      /\ \A p : Knows(clients, sync, p) => Knows(clients, t, p)
  BY <1>4, <1>6, InvFacts, WrittenKeeps
<1>8. Knows(clients, t, payload_of(disk', shown))
  <2>1. CASE shown = f
    BY <1>7, <2>1
  <2>2. CASE shown # f
    <3>1. shown \in Sessions => disk'[shown] = disk[shown]
      BY <1>2, <2>2, InvFacts DEF Readable
    <3>2. payload_of(disk', shown) = session_payload
      BY <3>1, InvFacts DEF session_payload, payload_of, Readable
    <3> QED BY <1>7, <3>2, InvFacts
  <2> QED BY <2>1, <2>2
<1>9. SyncInv(clients', sync', payload_of(disk', shown))
  BY <1>1, <1>4, <1>6, <1>7, <1>8 DEF SyncInv
<1>10. SyncInv(clients, sync, session_payload)'
  BY <1>1, <1>9, SameBuffer
<1>11. /\ left' \in ScenarioType
       /\ left'.crashes = left.crashes /\ left'.commands = left.commands
  BY <1>1, SpendFacts
<1>12. TypeOK'
  <2>1. sync' \in SyncType
    BY <1>9 DEF SyncInv, Base
  <2> QED BY <1>1, <1>5, <1>11, <2>1 DEF KnowledgeInv, TypeOK
<1>13. Room' /\ OneRuns(clients)'
  BY <1>1, <1>11 DEF KnowledgeInv, Room, Used, OneRuns, Running
<1> QED BY <1>1, <1>4, <1>6, <1>7, <1>10, <1>12, <1>13 DEF KnowledgeInv

LEMMA ShowSessionKeeps ==
  ASSUME KnowledgeInv, NEW f \in Sessions \cup {None}, ShowSession(f)
  PROVE  KnowledgeInv'
<1>1. /\ Spend("writes") /\ UNCHANGED <<buffer, disk, clients, recovery, exits, timers,
                                        notified, events, restarts>>
      /\ shown' = f /\ sync' = [sync EXCEPT !.soon = TRUE]
  BY DEF ShowSession, recoveryVars
<1>2. /\ sync' \in SyncType /\ sync'.soon
      /\ sync'.told = sync.told /\ sync'.known = sync.known /\ sync'.wanted = sync.wanted
      /\ sync'.inflight = sync.inflight /\ sync'.overtaken = sync.overtaken
      /\ sync'.requested = sync.requested /\ sync'.notice = sync.notice
      /\ sync'.watch = sync.watch
  BY <1>1, InvFacts DEF SyncType
<1>3. Told(clients, sync)' /\ Wanted(sync)' /\ Known(sync)'
  BY <1>1, <1>2, InvFacts DEF Base, Told, Wanted, Known, live_client
<1>4. Base(clients, sync)'
  BY <1>2, <1>3, InvFacts DEF Base
<1>5. Keyed(sync)' /\ Knows(clients, sync, session_payload)'
  BY <1>2 DEF Keyed, Knows, Awaited
<1>6. /\ left' \in ScenarioType
      /\ left'.crashes = left.crashes /\ left'.commands = left.commands
  BY <1>1, SpendFacts
<1>7. TypeOK'
  BY <1>1, <1>2, <1>6 DEF KnowledgeInv, TypeOK
<1>8. Room' /\ OneRuns(clients)'
  BY <1>1, <1>6 DEF KnowledgeInv, Room, Used, OneRuns, Running
<1> QED BY <1>1, <1>2, <1>4, <1>5, <1>7, <1>8 DEF KnowledgeInv, SyncInv

LEMMA CloseBufferKeeps ==
  ASSUME KnowledgeInv, CloseBuffer
  PROVE  KnowledgeInv'
<1>1. /\ UNCHANGED <<disk, shown, clients, recovery, exits, timers, notified, events, restarts, left>>
      /\ buffer' = FALSE /\ sync' = Detach(sync)
  BY DEF CloseBuffer, recoveryVars
<1>2. PICK t : t = Detach(sync)
  OBVIOUS
<1>3. Base(clients, t) /\ t.watch = None
  BY <1>2, InvFacts, StopKeeps
<1>4. sync' = t /\ sync' \in SyncType
  BY <1>1, <1>2, <1>3 DEF Base
<1>5. Base(clients, sync)' /\ Keyed(sync)'
  BY <1>1, <1>3, <1>4 DEF Base, Told, Wanted, Known, live_client, Keyed
<1>6. Knows(clients, sync, session_payload)'
  BY <1>1 DEF Knows
<1>7. TypeOK'
  BY <1>1, <1>4 DEF KnowledgeInv, TypeOK
<1>8. Room' /\ OneRuns(clients)'
  BY <1>1 DEF KnowledgeInv, Room, Used, OneRuns, Running
<1> QED BY <1>3, <1>4, <1>5, <1>6, <1>7, <1>8 DEF KnowledgeInv, SyncInv

LEMMA InitializeKeeps ==
  ASSUME KnowledgeInv, NEW c \in ClientIds, Initialize(c)
  PROVE  KnowledgeInv'
<1>1. /\ UNCHANGED <<buffer, disk, shown, sync, recovery, exits, timers, notified, events, restarts, left>>
      /\ clients[c].phase = "starting" /\ clients' = [clients EXCEPT ![c].phase = "live"]
  BY DEF Initialize, recoveryVars
<1>2. clients[c] \in [phase : Phases, mode : Modes]
  BY InvFacts DEF ClientTable
<1>3. PICK x : x = [clients[c] EXCEPT !.phase = "live"]
  OBVIOUS
<1>4. x \in [phase : Phases, mode : Modes] /\ x.phase = "live"
  BY <1>2, <1>3 DEF Phases
<1>5. clients' = [clients EXCEPT ![c] = x]
  BY <1>1, <1>3
<1>6. /\ clients' \in ClientTable /\ clients'[c].phase = "live"
      /\ \A d \in ClientIds : d # c => clients'[d] = clients[d]
  BY <1>4, <1>5, InvFacts DEF ClientTable
<1>7. OneRuns(clients)'
  <2>1. \A d \in ClientIds : clients'[d].phase \in {"starting", "live"} =>
                               clients[d].phase \in {"starting", "live"}
    BY <1>1, <1>6
  <2> QED BY <2>1, InvFacts DEF OneRuns, Running
<1>8. ~live_client(clients, c)
  BY <1>1 DEF live_client
<1>9. Told(clients', sync)
  BY <1>6, InvFacts DEF Base, Told, live_client
<1>10. Base(clients', sync)
  BY <1>9, InvFacts DEF Base
<1>11. Knows(clients', sync, session_payload)
  <2> SUFFICES ASSUME NEW d \in session_clients(clients')
               PROVE  buffer /\ session_payload # None =>
                        Settled(sync, d, session_payload) \/ Awaited(sync, d)
    BY DEF Knows
  <2>1. CASE d = c
    BY <1>8, <2>1, InvFacts DEF Base, Told, Settled
  <2>2. CASE d # c
    <3>1. d \in session_clients(clients)
      BY <1>6, <2>2 DEF session_clients, live_client
    <3> QED BY <3>1, InvFacts DEF Knows
  <2> QED BY <2>1, <2>2
<1>12. SyncInv(clients, sync, session_payload)'
  <2>1. SyncInv(clients', sync, session_payload)
    BY <1>10, <1>11, InvFacts DEF SyncInv
  <2>2. SyncInv(clients', sync', session_payload)
    BY <1>1, <2>1
  <2> QED BY <1>1, <2>2, SameSession
<1>13. TypeOK'
  BY <1>1, <1>6 DEF KnowledgeInv, TypeOK, ClientTable
<1>14. Room'
  <2>1. Used(clients)' = Used(clients)
    BY <1>1, <1>6 DEF Used
  <2> QED BY <1>1, <2>1 DEF KnowledgeInv, Room
<1> QED BY <1>1, <1>7, <1>12, <1>13, <1>14 DEF KnowledgeInv

\* A client that has exited is forgotten; what waits for the others goes on.
LEMMA ForgetKeeps ==
  ASSUME KnowledgeInv, NEW c \in ClientIds, clients[c].phase # "none",
         clients' = [clients EXCEPT ![c] = [phase |-> "gone", mode |-> "start"]],
         sync' = Forget(sync, c), UNCHANGED <<buffer, disk, shown>>
  PROVE  /\ clients' \in ClientTable /\ OneRuns(clients)'
         /\ SyncInv(clients, sync, session_payload)' /\ sync' \in SyncType /\ sync'.watch = sync.watch
         /\ Used(clients)' = Used(clients)
<1>1. /\ clients' \in ClientTable /\ clients'[c].phase = "gone"
      /\ \A d \in ClientIds : d # c => clients'[d] = clients[d]
  BY InvFacts DEF ClientTable, Phases, Modes
<1>2. PICK f : f = [sync.told EXCEPT ![c] = None]
  OBVIOUS
<1>3. PICK w : w = [sync.wanted EXCEPT ![c] = None]
  OBVIOUS
<1>4. PICK k : k = [sync.known EXCEPT ![c] = None]
  OBVIOUS
<1>5. PICK at : at = {a \in sync.attempts : a.client # c}
  OBVIOUS
<1>6. /\ sync.told \in [ClientIds -> Payloads \cup {None}]
      /\ sync.wanted \in [ClientIds -> Payloads \cup {None}]
      /\ sync.known \in [ClientIds -> Payloads \cup {None}]
      /\ sync.attempts \subseteq Attempted
  BY InvFacts, SyncFacts
<1>7. /\ f \in [ClientIds -> Payloads \cup {None}] /\ f[c] = None
      /\ \A d \in ClientIds : d # c => f[d] = sync.told[d]
  BY <1>2, <1>6
<1>8. /\ w \in [ClientIds -> Payloads \cup {None}] /\ w[c] = None
      /\ \A d \in ClientIds : d # c => w[d] = sync.wanted[d]
  BY <1>3, <1>6
<1>9. /\ k \in [ClientIds -> Payloads \cup {None}]
      /\ \A d \in ClientIds : d # c => k[d] = sync.known[d]
  BY <1>4, <1>6
<1>10. sync' = [sync EXCEPT !.told = f, !.wanted = w, !.known = k, !.attempts = at]
  BY <1>2, <1>3, <1>4, <1>5 DEF Forget
<1>11. /\ sync' \in SyncType
       /\ sync'.told = f /\ sync'.wanted = w /\ sync'.known = k /\ sync'.attempts = at
       /\ sync'.inflight = sync.inflight /\ sync'.overtaken = sync.overtaken
       /\ sync'.untold = sync.untold /\ sync'.requested = sync.requested
       /\ sync'.soon = sync.soon /\ sync'.watch = sync.watch /\ sync'.notice = sync.notice
  <2>1. at \in SUBSET Attempted
    BY <1>5, <1>6
  <2> QED BY <1>7, <1>8, <1>9, <1>10, <2>1, InvFacts DEF SyncType, Attempted
<1>12. Told(clients', sync')
  BY <1>1, <1>7, <1>11, InvFacts DEF Base, Told, live_client
<1>13. Wanted(sync')
  BY <1>8, <1>11, InvFacts DEF Base, Wanted
<1>14. Known(sync')
  BY <1>7, <1>9, <1>11, InvFacts DEF Base, Known
<1>15. Base(clients', sync') /\ Keyed(sync')
  BY <1>11, <1>12, <1>13, <1>14, InvFacts DEF Base, Keyed
<1>16. Knows(clients', sync', session_payload)
  <2> SUFFICES ASSUME NEW d \in session_clients(clients')
               PROVE  buffer /\ session_payload # None =>
                        Settled(sync', d, session_payload) \/ Awaited(sync', d)
    BY DEF Knows
  <2>1. d \in ClientIds /\ d # c
    BY <1>1 DEF session_clients, live_client
  <2>2. d \in session_clients(clients)
    BY <1>1, <2>1 DEF session_clients, live_client
  <2>3. buffer /\ session_payload # None => Settled(sync, d, session_payload) \/ Awaited(sync, d)
    BY <2>2, InvFacts DEF Knows
  <2>4. Settled(sync, d, session_payload) => Settled(sync', d, session_payload)
    BY <1>7, <1>9, <1>11, <2>1 DEF Settled, UpToDate
  <2>5. Awaited(sync, d) => Awaited(sync', d)
    BY <1>5, <1>11, <2>1 DEF Awaited
  <2> QED BY <2>3, <2>4, <2>5
<1>17. SyncInv(clients, sync, session_payload)'
  BY <1>15, <1>16, SameSession DEF SyncInv
<1>18. OneRuns(clients)'
  BY <1>1, InvFacts DEF OneRuns, Running
<1>19. Used(clients)' = Used(clients)
  BY <1>1 DEF Used
<1> QED BY <1>1, <1>11, <1>17, <1>18, <1>19

LEMMA ExitKeeps ==
  ASSUME KnowledgeInv, NEW c \in ClientIds, Stopped(c) \/ Crash(c)
  PROVE  KnowledgeInv'
<1>1. /\ UNCHANGED <<buffer, disk, shown, recovery, timers, notified, events, restarts>>
      /\ clients[c].phase # "none"
      /\ clients' = [clients EXCEPT ![c] = [phase |-> "gone", mode |-> "start"]]
      /\ sync' = Forget(sync, c)
  BY DEF Stopped, Crash, recoveryVars
<1>2. /\ clients' \in ClientTable /\ OneRuns(clients)'
      /\ SyncInv(clients, sync, session_payload)' /\ sync' \in SyncType /\ sync'.watch = sync.watch
      /\ Used(clients)' = Used(clients)
  BY <1>1, ForgetKeeps
<1>3. /\ left' \in ScenarioType
      /\ exits' \subseteq [client : ClientIds, mode : Modes]
      /\ Room'
  <2>1. CASE Stopped(c)
    <3>1. UNCHANGED <<left, exits>>
      BY <2>1 DEF Stopped, recoveryVars
    <3> QED BY <1>1, <1>2, <3>1 DEF KnowledgeInv, TypeOK, Room
  <2>2. CASE Crash(c)
    <3>1. PICK e : e = [client |-> c, mode |-> clients[c].mode]
      OBVIOUS
    <3>2. Spend("crashes") /\ exits' \subseteq exits \cup {e}
      BY <2>2, <3>1 DEF Crash
    <3>3. e \in [client : ClientIds, mode : Modes]
      BY <3>1, InvFacts DEF ClientTable
    <3>4. /\ left' \in ScenarioType
          /\ left.crashes > 0 /\ left'.crashes = left.crashes - 1 /\ left'.commands = left.commands
      BY <3>2, SpendFacts
    <3>5. IsFiniteSet(exits') /\ Cardinality(exits') \in Nat
          /\ Cardinality(exits') <= Cardinality(exits) + 1
      BY <3>2, RoomFacts, Grown
    <3>6. Cardinality(Used(clients)) + left'.commands + left'.crashes
            + Cardinality(exits') + Cardinality(timers) <= MaxClients
      BY <3>4, <3>5, RoomFacts
    <3>7. Room'
      BY <1>1, <1>2, <3>5, <3>6, RoomFacts DEF Room
    <3> QED BY <3>2, <3>3, <3>4, <3>7 DEF KnowledgeInv, TypeOK
  <2> QED BY <2>1, <2>2
<1>4. TypeOK'
  BY <1>1, <1>2, <1>3 DEF KnowledgeInv, TypeOK, ClientTable
<1> QED BY <1>1, <1>2, <1>3, <1>4 DEF KnowledgeInv

LEMMA HandleExitKeeps ==
  ASSUME KnowledgeInv, NEW e, HandleExit(e)
  PROVE  KnowledgeInv'
<1>1. PICK n : n = [Counting EXCEPT !.attempts = @ + 1, !.generation = @ + 1]
  OBVIOUS
<1>2. PICK t : t = [state |-> n.state, mode |-> e.mode,
                    generation |-> n.generation, event |-> events + 1]
  OBVIOUS
<1>3. /\ e \in exits /\ exits' = exits \ {e}
      /\ UNCHANGED <<buffer, disk, shown, clients, sync, left>>
      /\ recovery' \in {recovery, n} /\ events' \in {events, events + 1}
      /\ restarts' \in {restarts, 0}
      /\ timers' = timers \/ timers' = timers \cup {t}
      /\ notified' = notified \/ notified' = TRUE
  BY <1>1, <1>2 DEF HandleExit
<1>4. /\ recovery \in RecoveryType \cup {None} /\ events \in Nat /\ restarts \in Nat
      /\ exits \subseteq [client : ClientIds, mode : Modes] /\ timers \subseteq TimerType
  BY DEF KnowledgeInv, TypeOK
<1>5. Counting \in RecoveryType
  BY <1>4 DEF Counting, RecoveryType
<1>6. n \in RecoveryType /\ n.state \in Nat /\ n.generation \in Nat
  <2>1. PICK r : r = Counting
    OBVIOUS
  <2>2. r \in RecoveryType /\ n = [r EXCEPT !.attempts = @ + 1, !.generation = @ + 1]
    BY <1>1, <1>5, <2>1
  <2>3. r.attempts + 1 \in Nat /\ r.generation + 1 \in Nat
    BY <2>2 DEF RecoveryType
  <2>4. n = [state |-> r.state, attempts |-> r.attempts + 1, generation |-> r.generation + 1,
             old |-> r.old]
    BY <2>2 DEF RecoveryType
  <2> QED BY <2>2, <2>3, <2>4 DEF RecoveryType
<1>7. t \in TimerType
  BY <1>2, <1>3, <1>4, <1>6 DEF TimerType
<1>8. recovery' \in RecoveryType \cup {None}
  BY <1>3, <1>4, <1>6
<1>9. events' \in Nat /\ restarts' \in Nat
  BY <1>3, <1>4
<1>10. timers' \subseteq TimerType /\ exits' \subseteq [client : ClientIds, mode : Modes]
  BY <1>3, <1>4, <1>7
<1>11. notified' \in BOOLEAN
  BY <1>3 DEF KnowledgeInv, TypeOK
<1>12. TypeOK'
  BY <1>3, <1>8, <1>9, <1>10, <1>11 DEF KnowledgeInv, TypeOK
<1>13. Room'
  <2>1. /\ IsFiniteSet(timers') /\ Cardinality(timers') \in Nat
        /\ Cardinality(timers') <= Cardinality(timers) + 1
    <3>1. timers' \subseteq timers \cup {t}
      BY <1>3
    <3> QED BY <3>1, RoomFacts, Grown
  <2>2. /\ IsFiniteSet(exits') /\ Cardinality(exits') \in Nat
        /\ Cardinality(exits') + 1 = Cardinality(exits)
    BY <1>3, RoomFacts, Shrunk
  <2>3. Cardinality(Used(clients)) + left.commands + left.crashes
          + Cardinality(exits') + Cardinality(timers') <= MaxClients
    BY <2>1, <2>2, RoomFacts
  <2>4. Used(clients)' = Used(clients)
    BY <1>3 DEF Used
  <2> QED BY <1>3, <2>1, <2>2, <2>3, <2>4 DEF Room
<1>14. SyncInv(clients, sync, session_payload)'
  <2>1. SyncInv(clients', sync', session_payload)
    BY <1>3 DEF KnowledgeInv
  <2> QED BY <1>3, <2>1, SameSession
<1>15. OneRuns(clients)'
  BY <1>3 DEF KnowledgeInv, OneRuns, Running
<1> QED BY <1>3, <1>12, <1>13, <1>14, <1>15 DEF KnowledgeInv

LEMMA IdleKeeps ==
  ASSUME KnowledgeInv, WindowPasses \/ UNCHANGED vars
  PROVE  KnowledgeInv'
<1>1. UNCHANGED <<buffer, disk, shown, clients, sync, exits, timers, notified, events, restarts, left>>
  BY DEF WindowPasses, vars, recoveryVars
<1>2. recovery' \in RecoveryType \cup {None}
  <2>1. recovery \in RecoveryType \cup {None}
    BY DEF KnowledgeInv, TypeOK
  <2>2. CASE WindowPasses
    BY <2>1, <2>2 DEF WindowPasses, RecoveryType
  <2>3. CASE UNCHANGED vars
    BY <2>1, <2>3 DEF vars, recoveryVars
  <2> QED BY <2>2, <2>3
<1>3. TypeOK'
  BY <1>1, <1>2 DEF KnowledgeInv, TypeOK
<1>4. SyncInv(clients, sync, session_payload)'
  <2>1. SyncInv(clients', sync', session_payload)
    BY <1>1 DEF KnowledgeInv
  <2> QED BY <1>1, <2>1, SameSession
<1>5. Room' /\ OneRuns(clients)'
  BY <1>1 DEF KnowledgeInv, Room, Used, OneRuns, Running
<1> QED BY <1>1, <1>3, <1>4, <1>5 DEF KnowledgeInv

LEMMA KnowledgeInit ==
  ASSUME Init
  PROVE  KnowledgeInv
<1>1. left \in Scenarios
  BY DEF Init
<1>2. /\ left \in ScenarioType
      /\ left.commands + left.crashes <= MaxClients
  BY <1>1, BoundsAssumption
<1>3. shown \in Sessions \cup {None}
  BY BoundsAssumption DEF Init
<1>4. disk \in [Sessions -> Contents]
  <2>1. PICK st \in {"gone", "ready"} : disk = [f \in Sessions |-> [status |-> st, seq |-> 0]]
    BY DEF Init
  <2>2. [status |-> st, seq |-> 0] \in Contents
    BY Constants DEF Contents, Statuses
  <2> QED BY <2>1, <2>2
<1>5. clients \in ClientTable /\ \A c \in ClientIds : clients[c].phase = "none"
  BY DEF Init, ClientTable, Phases, Modes
<1>6. /\ sync \in SyncType /\ ~sync.notice /\ ~sync.requested /\ sync.watch = None
      /\ \A c \in ClientIds : sync.told[c] = None /\ sync.wanted[c] = None
  <2>1. [c \in ClientIds |-> None] \in [ClientIds -> Payloads \cup {None}]
    OBVIOUS
  <2> QED BY <2>1 DEF Init, SyncType
<1>7. TypeOK
  BY <1>2, <1>3, <1>4, <1>5, <1>6 DEF Init, TypeOK, ClientTable
<1>8. Base(clients, sync)
  BY <1>6 DEF Base, Told, Wanted, Known
<1>9. SyncInv(clients, sync, session_payload)
  BY <1>5, <1>6, <1>8 DEF SyncInv, Keyed, Knows, session_clients, live_client
<1>10. OneRuns(clients)
  BY <1>5 DEF OneRuns, Running
<1>11. Room
  <2>1. Used(clients) = {}
    BY <1>5 DEF Used
  <2>2. exits = {} /\ timers = {}
    BY DEF Init
  <2>3. left.commands \in Nat /\ left.crashes \in Nat
    BY <1>2 DEF ScenarioType
  <2> QED BY <1>2, <2>1, <2>2, <2>3, FS_EmptySet, Constants DEF Room
<1> QED BY <1>6, <1>7, <1>9, <1>10, <1>11 DEF KnowledgeInv

LEMMA KnowledgeNext ==
  ASSUME KnowledgeInv, [Next]_vars
  PROVE  KnowledgeInv'
<1>1. CASE (\E mode \in Modes : Start(mode) \/ Restart(mode)) \/ Refresh
  BY <1>1, CommandKeeps
<1>2. CASE CloseBuffer
  BY <1>2, CloseBufferKeeps
<1>3. CASE \E f \in Sessions : WriteStatus(f)
  BY <1>3, WriteStatusKeeps
<1>4. CASE \E f \in Sessions \cup {None} : ShowSession(f)
  BY <1>4, ShowSessionKeeps
<1>5. CASE SessionStep
  BY <1>5, SessionStepKeeps
<1>6. CASE RecoveryStep
  BY <1>6, HandleExitKeeps DEF RecoveryStep
<1>7. CASE TimerStep
  BY <1>7, RestartLaterKeeps DEF TimerStep
<1>8. CASE ServerStep \/ \E c \in ClientIds : Crash(c)
  BY <1>8, InitializeKeeps, ExitKeeps DEF ServerStep
<1>9. CASE WindowPasses \/ UNCHANGED vars
  BY <1>9, IdleKeeps
<1> QED BY <1>1, <1>2, <1>3, <1>4, <1>5, <1>6, <1>7, <1>8, <1>9 DEF Next

\* Every callback of lua/ark/lsp.lua, lsp_recovery.lua and lsp_session_watch.lua leaves
\* their tables well-formed, and there is an id for every client a command or a restart
\* makes.
THEOREM TypeCorrect == Spec => []TypeOK
<1>1. KnowledgeInv => TypeOK
  BY DEF KnowledgeInv
<1> QED BY <1>1, KnowledgeInit, KnowledgeNext, PTL DEF Spec

\* No order of notices, polls, attempts, answers, switches of the session, crashes and
\* restarts leaves a server with an outdated session once everything has run: what
\* notify_client_session (lua/ark/lsp.lua) notes, the server has, and it is the session
\* as it is, unless R wrote where no watcher saw it (in the time between the reading of the
\* file and the start of its watcher included), a start found an error, an answer was
\* late, or the session was closed.
THEOREM TheServerKnows == Spec => []ServerKnowsTheSession
<1>1. KnowledgeInv => ServerKnowsTheSession
  <2> SUFFICES ASSUME KnowledgeInv, AtRest, buffer, shown # None, ~sync.overtaken, ~sync.untold,
                      NEW c \in session_clients(clients), sync.told[c] # None
               PROVE  UpToDate(sync, c, session_payload)
    BY DEF ServerKnowsTheSession, UpToDate
  <2>1. session_payload # None
    BY InvFacts, PayloadFacts
  <2>2. Settled(sync, c, session_payload) \/ Awaited(sync, c)
    BY <2>1, InvFacts DEF Knows
  <2>3. ~Awaited(sync, c) /\ sync.inflight = {}
    BY DEF AtRest, Awaited
  <2> QED BY <2>2, <2>3 DEF Settled
<1> QED BY <1>1, KnowledgeInit, KnowledgeNext, PTL DEF Spec
=============================================================================
