---------------------------- MODULE BridgeRuntime ----------------------------
(***************************************************************************)
(* The admission queue and the circuit breaker that every live request of  *)
(* the language server to the pane-side R process goes through             *)
(* (crates/ark-lsp-core/src/lsp/session_bridge_runtime.rs).                *)
(*                                                                         *)
(* A caller is a blocking thread that calls BridgeRuntime::request.  One   *)
(* caller at a time holds the permit (queue.active); up to                 *)
(* MAX_WAITING_REQUESTS others sleep on the condition variable; the rest   *)
(* are turned away.  The permit holder asks the circuit for an attempt,    *)
(* exchanges one request with R, records the outcome and drops the permit. *)
(* Each critical section under the queue mutex or under the circuit mutex  *)
(* is one action.                                                          *)
(*                                                                         *)
(* Time is counted down: left[c] is what remains of the caller's deadline  *)
(* and circuit.open_until what remains of the cooldown.  Reaching zero is  *)
(* "Instant::now() is not before it any more".                             *)
(***************************************************************************)
EXTENDS Integers, FiniteSets

CONSTANTS Callers,                    \* the threads that may call request
          Identities,                 \* hashes of (host, port, auth token)
          None,                       \* Option::None
          MAX_WAITING_REQUESTS,
          CIRCUIT_FAILURE_THRESHOLD,
          CIRCUIT_COOLDOWN,           \* in ticks
          MaxDeadline,                \* the longest request class, in ticks
          FailureLimit                \* u32::MAX, where the failure count saturates

ASSUME RuntimeAssumption ==
    /\ IsFiniteSet(Callers)
    /\ None \notin Callers
    /\ None \notin Identities
    /\ MAX_WAITING_REQUESTS \in Nat
    /\ CIRCUIT_FAILURE_THRESHOLD \in Nat \ {0}
    /\ CIRCUIT_COOLDOWN \in Nat \ {0}
    /\ MaxDeadline \in Nat \ {0}
    /\ FailureLimit \in Nat
    /\ FailureLimit >= CIRCUIT_FAILURE_THRESHOLD

VARIABLES
    queue,      \* QueueState: the fields behind the queue mutex
    circuit,    \* CircuitState: the fields behind the circuit mutex
    pc,         \* where each caller is inside request
    identity,   \* the connection identity each caller was given
    left,       \* ticks until each caller's deadline
    cancelled,  \* what each caller's BridgeRequestControl would answer
    outcome     \* what the transport gave the permit holder

vars == <<queue, circuit, pc, identity, left, cancelled, outcome>>
callerVars == <<identity, left, cancelled>>

-----------------------------------------------------------------------------
(* Types and initial state *)

\* open_until = NotOpen is Option::None; 0 is a cooldown that has run out.
NotOpen == -1

CircuitStates == [connection_identity  : Identities \cup {None},
                  consecutive_failures : 0..FailureLimit,
                  open_until           : {NotOpen} \cup 0..CIRCUIT_COOLDOWN,
                  half_open_active     : BOOLEAN]

\* degraded is degraded_since.is_some(); the log of recent requests and the
\* count of suppressed warnings are only displayed and are left out.
QueueStates == [active    : BOOLEAN,
                waiting   : 0..MAX_WAITING_REQUESTS,
                operation : Callers \cup {None},
                degraded  : BOOLEAN]

Outside    == {"idle", "entry", "admit", "waiting"}
Probing    == {"publish", "connect", "exchange", "record", "settle"}
Holding    == {"circuit", "release"} \cup Probing
Transport  == {"connect", "exchange"}
Locations  == Outside \cup Holding

Outcomes == {"none", "ok", "expired", "failed"}

CircuitDefault(id) == [connection_identity |-> id, consecutive_failures |-> 0,
                       open_until |-> NotOpen, half_open_active |-> FALSE]

Init ==
    /\ queue = [active |-> FALSE, waiting |-> 0, operation |-> None, degraded |-> FALSE]
    /\ circuit = CircuitDefault(None)
    /\ pc = [c \in Callers |-> "idle"]
    /\ identity = [c \in Callers |-> None]
    /\ left = [c \in Callers |-> 0]
    /\ cancelled = [c \in Callers |-> FALSE]
    /\ outcome = [c \in Callers |-> "none"]

-----------------------------------------------------------------------------
(* Helpers *)

Goto(c, l) == pc' = [pc EXCEPT ![c] = l]

\* request returns to its caller; its arguments and locals are gone.
Return(c) ==
    /\ Goto(c, "idle")
    /\ identity' = [identity EXCEPT ![c] = None]
    /\ left' = [left EXCEPT ![c] = 0]
    /\ cancelled' = [cancelled EXCEPT ![c] = FALSE]
    /\ outcome' = [outcome EXCEPT ![c] = "none"]

-----------------------------------------------------------------------------
(* Faulty variants of the actions below.  No specification uses them; each is *)
(* a slip the code could contain, against which a property is tested.         *)

\* The capacity test lets one waiter too many in.
AcquireWaitOffByOne(c) ==
    /\ pc[c] = "admit"
    /\ queue.active
    /\ queue.waiting <= MAX_WAITING_REQUESTS
    /\ ~cancelled[c]
    /\ left[c] > 0
    /\ queue' = [queue EXCEPT !.waiting = @ + 1]
    /\ Goto(c, "waiting")
    /\ UNCHANGED <<circuit, callerVars, outcome>>

\* A woken waiter takes the notification for the permit.
WakeGrantedUnchecked(c) ==
    /\ pc[c] = "waiting"
    /\ queue' = [queue EXCEPT !.active = TRUE, !.waiting = @ - 1]
    /\ Goto(c, "circuit")
    /\ UNCHANGED <<circuit, callerVars, outcome>>

\* A waiter that gives up keeps its place in the count.
WakeAbandonedLeaks(c) ==
    /\ pc[c] = "waiting"
    /\ queue.active
    /\ cancelled[c] \/ left[c] = 0
    /\ Return(c)
    /\ UNCHANGED <<queue, circuit>>

\* The wait loop looks at the control and forgets the deadline.
WakeAbandonedOnCancelOnly(c) ==
    /\ pc[c] = "waiting"
    /\ queue.active
    /\ cancelled[c]
    /\ queue' = [queue EXCEPT !.waiting = @ - 1]
    /\ Return(c)
    /\ UNCHANGED circuit

\* An expired cooldown is taken for a closed circuit.
CircuitForgetsExpired(id) ==
    IF circuit.connection_identity = id /\ circuit.open_until # 0
    THEN circuit ELSE CircuitDefault(id)

\* A changed identity resets the counters and is not remembered.
CircuitForgetsIdentity(id) ==
    IF circuit.connection_identity = id THEN circuit
    ELSE CircuitDefault(circuit.connection_identity)

\* Only a running probe refuses an attempt, the cooldown does not.
BeginCircuitAttemptInCooldown(c) ==
    LET seen == IF circuit.connection_identity = identity[c]
                THEN circuit ELSE CircuitDefault(identity[c])
        refused == seen.open_until >= 0 /\ seen.half_open_active
    IN  /\ pc[c] = "circuit"
        /\ circuit' = [seen EXCEPT !.half_open_active = seen.open_until >= 0]
        /\ Goto(c, IF refused THEN "release" ELSE "publish")
        /\ UNCHANGED <<queue, callerVars, outcome>>

\* A failed probe leaves the half-open flag up.
AfterFailureKeepsProbe ==
    LET failures == circuit.consecutive_failures + 1
    IN  [circuit EXCEPT !.consecutive_failures =
                            IF failures <= FailureLimit THEN failures ELSE @,
                        !.open_until = IF failures >= CIRCUIT_FAILURE_THRESHOLD
                                       THEN CIRCUIT_COOLDOWN ELSE @]

\* An answer resets the count and forgets the cooldown.
AfterSuccessStaysOpen ==
    [circuit EXCEPT !.consecutive_failures = 0, !.half_open_active = FALSE]

-----------------------------------------------------------------------------
(* The caller and its environment *)

\* send_request calls request with the connection it read and with the
\* deadline its request class fixed when the command began: a retry comes with
\* what its first attempt left over, possibly nothing.
Call(c) ==
    /\ pc[c] = "idle"
    /\ \E id \in Identities, d \in 0..MaxDeadline :
          /\ identity' = [identity EXCEPT ![c] = id]
          /\ left' = [left EXCEPT ![c] = d]
    /\ Goto(c, "entry")
    /\ UNCHANGED <<queue, circuit, cancelled, outcome>>

\* The editor closes the response channel: is_cancelled answers true from now on.
Cancel(c) ==
    /\ pc[c] # "idle"
    /\ ~cancelled[c]
    /\ cancelled' = [cancelled EXCEPT ![c] = TRUE]
    /\ UNCHANGED <<queue, circuit, pc, identity, left, outcome>>

\* Instant::now() advances under every deadline and under the cooldown.
CountDown(t) == IF t > 0 THEN t - 1 ELSE t

Tick ==
    /\ left' = [c \in Callers |-> CountDown(left[c])]
    /\ circuit' = [circuit EXCEPT !.open_until = CountDown(circuit.open_until)]
    /\ UNCHANGED <<queue, pc, identity, cancelled, outcome>>

-----------------------------------------------------------------------------
(* BridgeRuntime::request, step by step *)

\* The check before admission.
Enter(c) ==
    /\ pc[c] = "entry"
    /\ \/ /\ cancelled[c]
          /\ Return(c)
       \/ /\ ~cancelled[c]
          /\ Goto(c, "admit")
          /\ UNCHANGED <<callerVars, outcome>>
    /\ UNCHANGED <<queue, circuit>>

\* The permit is free: take it, whoever else is waiting and whatever is left
\* of the deadline.
AcquireFree(c) ==
    /\ pc[c] = "admit"
    /\ ~queue.active
    /\ queue' = [queue EXCEPT !.active = TRUE]
    /\ Goto(c, "circuit")
    /\ UNCHANGED <<circuit, callerVars, outcome>>

\* The permit is taken and the caller does not get to wait: the queue is full,
\* or the first turn of the loop finds it cancelled or out of time.
AcquireRefused(c) ==
    /\ pc[c] = "admit"
    /\ queue.active
    /\ \/ queue.waiting >= MAX_WAITING_REQUESTS
       \/ cancelled[c]
       \/ left[c] = 0
    /\ Return(c)
    /\ UNCHANGED <<queue, circuit>>

AcquireWait(c) ==
    /\ pc[c] = "admit"
    /\ queue.active
    /\ queue.waiting < MAX_WAITING_REQUESTS
    /\ ~cancelled[c]
    /\ left[c] > 0
    /\ queue' = [queue EXCEPT !.waiting = @ + 1]
    /\ Goto(c, "waiting")
    /\ UNCHANGED <<circuit, callerVars, outcome>>

\* wait_timeout returns (a notification, the poll interval, a spurious wake-up)
\* and the permit is free: the waiter has it without another look at its
\* control or its deadline.
WakeGranted(c) ==
    /\ pc[c] = "waiting"
    /\ ~queue.active
    /\ queue' = [queue EXCEPT !.active = TRUE, !.waiting = @ - 1]
    /\ Goto(c, "circuit")
    /\ UNCHANGED <<circuit, callerVars, outcome>>

\* wait_timeout returns, the permit is taken, and the next turn of the loop
\* finds the caller cancelled or out of time.
WakeAbandoned(c) ==
    /\ pc[c] = "waiting"
    /\ queue.active
    /\ cancelled[c] \/ left[c] = 0
    /\ queue' = [queue EXCEPT !.waiting = @ - 1]
    /\ Return(c)
    /\ UNCHANGED circuit

\* The circuit as the attempt sees it: another identity starts a fresh one.
CircuitFor(id) ==
    IF circuit.connection_identity = id THEN circuit ELSE CircuitDefault(id)

BeginCircuitAttempt(c) ==
    LET seen == CircuitFor(identity[c])
        refused == seen.open_until > 0 \/ (seen.open_until = 0 /\ seen.half_open_active)
        probe == seen.open_until = 0
    IN  /\ pc[c] = "circuit"
        /\ circuit' = [seen EXCEPT !.half_open_active = @ \/ (probe /\ ~refused)]
        /\ Goto(c, IF refused THEN "release" ELSE "publish")
        /\ UNCHANGED <<queue, callerVars, outcome>>

PublishOperation(c) ==
    /\ pc[c] = "publish"
    /\ queue' = [queue EXCEPT !.operation = c]
    /\ Goto(c, "connect")
    /\ UNCHANGED <<circuit, callerVars, outcome>>

Finish(c, o) ==
    /\ outcome' = [outcome EXCEPT ![c] = o]
    /\ Goto(c, "record")
    /\ UNCHANGED <<queue, circuit, callerVars>>

\* remaining(deadline) fails before the first connection attempt.
ConnectExpired(c) == pc[c] = "connect" /\ left[c] = 0 /\ Finish(c, "expired")

ConnectRefused(c) == pc[c] = "connect" /\ left[c] > 0 /\ Finish(c, "failed")

Connected(c) ==
    /\ pc[c] = "connect"
    /\ left[c] > 0
    /\ Goto(c, "exchange")
    /\ UNCHANGED <<queue, circuit, callerVars, outcome>>

Answered(c) == pc[c] = "exchange" /\ Finish(c, "ok")

\* A closed or broken connection, an answer that does not decode, or, at the
\* deadline at the latest, a timeout.
ExchangeFailed(c) == pc[c] = "exchange" /\ Finish(c, "failed")

ExchangeTimedOut(c) == left[c] = 0 /\ ExchangeFailed(c)

RecordRequest(c) ==
    /\ pc[c] = "record"
    /\ queue' = [queue EXCEPT !.degraded = (outcome[c] # "ok")]
    /\ Goto(c, "settle")
    /\ UNCHANGED <<circuit, callerVars, outcome>>

SaturatingIncrement(n) == IF n < FailureLimit THEN n + 1 ELSE n

AfterSuccess ==
    [circuit EXCEPT !.consecutive_failures = 0, !.open_until = NotOpen,
                    !.half_open_active = FALSE]

AfterFailure ==
    LET failures == SaturatingIncrement(circuit.consecutive_failures)
    IN  [circuit EXCEPT !.half_open_active = FALSE,
                        !.consecutive_failures = failures,
                        !.open_until = IF failures >= CIRCUIT_FAILURE_THRESHOLD
                                       THEN CIRCUIT_COOLDOWN ELSE @]

\* record_success and record_failure; an outcome of another identity is ignored.
Settle(c) ==
    /\ pc[c] = "settle"
    /\ circuit' = IF circuit.connection_identity # identity[c] THEN circuit
                  ELSE IF outcome[c] = "ok" THEN AfterSuccess ELSE AfterFailure
    /\ Goto(c, "release")
    /\ UNCHANGED <<queue, callerVars, outcome>>

\* The permit is dropped, on every way out of request.
Release(c) ==
    /\ pc[c] = "release"
    /\ queue' = [queue EXCEPT !.active = FALSE, !.operation = None]
    /\ Return(c)
    /\ UNCHANGED circuit

-----------------------------------------------------------------------------
(* The specification *)

Acquire(c) == AcquireFree(c) \/ AcquireRefused(c) \/ AcquireWait(c)
Wake(c) == WakeGranted(c) \/ WakeAbandoned(c)
Exchange(c) == ConnectExpired(c) \/ ConnectRefused(c) \/ Connected(c)
               \/ Answered(c) \/ ExchangeFailed(c)

\* What a caller's thread does once request has been called.
Step(c) == \/ Enter(c) \/ Acquire(c) \/ Wake(c) \/ BeginCircuitAttempt(c)
           \/ PublishOperation(c) \/ Exchange(c) \/ RecordRequest(c)
           \/ Settle(c) \/ Release(c)

Next == Tick \/ \E c \in Callers : Call(c) \/ Cancel(c) \/ Step(c)

Spec == Init /\ [][Next]_vars

\* A thread inside request is scheduled and the clock advances.  R owes no
\* answer: only the deadline ends an exchange.
Progress(c) == \/ Enter(c) \/ Acquire(c) \/ Wake(c) \/ BeginCircuitAttempt(c)
               \/ PublishOperation(c) \/ ConnectExpired(c) \/ ConnectRefused(c)
               \/ Connected(c) \/ ExchangeTimedOut(c) \/ RecordRequest(c)
               \/ Settle(c) \/ Release(c)

FairSpec == Spec /\ WF_vars(Tick) /\ \A c \in Callers : WF_vars(Progress(c))

-----------------------------------------------------------------------------
(* Properties *)

Holders == {c \in Callers : pc[c] \in Holding}
Waiters == {c \in Callers : pc[c] = "waiting"}

\* The fields keep their types; in particular queue.waiting, a usize, is never
\* decremented below zero and never passes MAX_WAITING_REQUESTS.
TypeOK ==
    /\ queue \in QueueStates
    /\ circuit \in CircuitStates
    /\ pc \in [Callers -> Locations]
    /\ identity \in [Callers -> Identities \cup {None}]
    /\ left \in [Callers -> 0..MaxDeadline]
    /\ cancelled \in [Callers -> BOOLEAN]
    /\ outcome \in [Callers -> Outcomes]

\* One permit: queue.active says exactly whether some caller is between acquire
\* and release, and no two callers ever are.
PermitIsExclusive ==
    /\ queue.active <=> Holders # {}
    /\ \A c, d \in Holders : c = d

\* No slot of the waiting line leaks and none is counted twice: acquire's
\* counter is the number of callers asleep in wait_timeout, on whichever of its
\* three exits they leave.
WaitingIsCounted == queue.waiting = Cardinality(Waiters)

\* The half-open flag is raised only while a caller is on its way through the
\* probe it stands for, with the identity the circuit is about.  A flag nobody
\* owns would refuse every later attempt for good.
ProbeIsOwned ==
    circuit.half_open_active =>
        \E c \in Callers : /\ pc[c] \in Probing
                           /\ identity[c] = circuit.connection_identity

\* Whoever passed begin_circuit_attempt finds, when it records its outcome, the
\* circuit of its own identity: no other attempt resets the circuit under a
\* request in flight, so no outcome is dropped as foreign.
AttemptIsCurrent ==
    \A c \in Callers : pc[c] \in Probing => identity[c] = circuit.connection_identity

\* While the cooldown of an open circuit runs nobody is about to contact, or in
\* contact with, the bridge: begin_circuit_attempt's verdict stays true from the
\* moment it is given until the permit is dropped, although the circuit mutex
\* is released in between.
OpenCircuitIsQuiet ==
    circuit.open_until > 0 => \A c \in Callers : pc[c] \notin Probing

\* A circuit is open exactly when the current identity's run of failures has
\* reached the threshold, before, during and after a half-open probe.
OpenIffThreshold ==
    circuit.open_until # NotOpen <=>
        circuit.consecutive_failures >= CIRCUIT_FAILURE_THRESHOLD

\* What may cut the current run of failures short.
RunEnd ==
    circuit'.consecutive_failures < circuit.consecutive_failures =>
       \E c \in Callers :
          \/ /\ pc[c] = "settle" /\ outcome[c] = "ok"
             /\ identity[c] = circuit.connection_identity
          \/ /\ pc[c] = "circuit"
             /\ identity[c] = circuit'.connection_identity
             /\ identity[c] # circuit.connection_identity

\* A run of failures ends, and an open circuit closes, only by an answer from
\* the bridge of that identity or by an attempt with another identity.  A
\* refused, cancelled or timed-out request never closes it.
RunEndsByAnswerOrIdentity == [][RunEnd]_vars

\* Every request returns, whatever R does: the deadline bounds the queue wait
\* and the exchange, even though a newcomer may take the permit past waiters.
EveryRequestReturns == \A c \in Callers : pc[c] # "idle" ~> pc[c] = "idle"

\* The runtime implements the single-slot queue R needs: the callers between
\* acquire and release are served, the callers asleep are lined up.
Slot == INSTANCE PermitQueue WITH Clients <- Callers,
                                  Capacity <- MAX_WAITING_REQUESTS,
                                  served <- Holders, lined <- Waiters
ImplementsPermitQueue == Slot!SlotSpec

=============================================================================
