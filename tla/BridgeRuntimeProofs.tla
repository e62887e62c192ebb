------------------------ MODULE BridgeRuntimeProofs -------------------------
(***************************************************************************)
(* Proofs about BridgeRuntime for every set of callers and identities and  *)
(* every capacity, threshold, cooldown and deadline.                       *)
(***************************************************************************)
EXTENDS BridgeRuntime, FiniteSetTheorems, TLAPS

-----------------------------------------------------------------------------
(* The admission part: the types, the permit and the waiting count need each  *)
(* other.  The count keeps the decrements above zero, the exclusive permit    *)
(* keeps a release from freeing somebody else's.                              *)

Admission == TypeOK /\ PermitIsExclusive /\ WaitingIsCounted

\* A caller that starts to sleep in wait_timeout adds one to the waiters, one
\* that wakes up and leaves takes one away, and any other step keeps the set.
LEMMA WaitersChange ==
    ASSUME TypeOK, NEW c \in Callers, NEW l \in Locations, Goto(c, l)
    PROVE  /\ IsFiniteSet(Waiters)
           /\ pc[c] # "waiting" /\ l # "waiting" => Waiters' = Waiters
           /\ pc[c] # "waiting" /\ l = "waiting" =>
                 Waiters' = Waiters \cup {c} /\ Cardinality(Waiters') = Cardinality(Waiters) + 1
           /\ pc[c] = "waiting" /\ l # "waiting" =>
                 Waiters' = Waiters \ {c} /\ Cardinality(Waiters') = Cardinality(Waiters) - 1
<1>1. IsFiniteSet(Waiters) /\ Cardinality(Waiters) \in Nat
  <2>1. Waiters \subseteq Callers
    BY DEF Waiters
  <2>2. QED
    BY <2>1, RuntimeAssumption, FS_Subset, FS_CardinalityType
<1>2. pc' \in [Callers -> Locations] /\ \A d \in Callers : pc'[d] = IF d = c THEN l ELSE pc[d]
  BY DEF TypeOK, Goto
<1>3. ASSUME pc[c] # "waiting", l # "waiting" PROVE Waiters' = Waiters
  BY <1>2, <1>3 DEF Waiters
<1>4. ASSUME pc[c] # "waiting", l = "waiting"
      PROVE  Waiters' = Waiters \cup {c} /\ Cardinality(Waiters') = Cardinality(Waiters) + 1
  <2>1. Waiters' = Waiters \cup {c} /\ c \notin Waiters
    BY <1>2, <1>4 DEF Waiters
  <2>2. QED
    BY <2>1, <1>1, FS_AddElement
<1>5. ASSUME pc[c] = "waiting", l # "waiting"
      PROVE  Waiters' = Waiters \ {c} /\ Cardinality(Waiters') = Cardinality(Waiters) - 1
  <2>1. Waiters' = Waiters \ {c} /\ c \in Waiters
    BY <1>2, <1>5 DEF Waiters
  <2>2. QED
    BY <2>1, <1>1, FS_RemoveElement
<1>6. QED
  BY <1>1, <1>3, <1>4, <1>5

\* Likewise for the callers between acquire and release.
LEMMA HoldersChange ==
    ASSUME TypeOK, NEW c \in Callers, NEW l \in Locations, Goto(c, l)
    PROVE  Holders' = IF l \in Holding THEN Holders \cup {c} ELSE Holders \ {c}
<1>1. \A d \in Callers : pc'[d] = IF d = c THEN l ELSE pc[d]
  BY DEF TypeOK, Goto
<1>2. QED
  BY <1>1 DEF Holders

LEMMA AdmissionInit == Init => Admission
<1> SUFFICES ASSUME Init PROVE Admission
  OBVIOUS
<1>1. Waiters = {} /\ Holders = {}
  BY DEF Init, Waiters, Holders, Holding, Probing
<1>2. TypeOK
  BY RuntimeAssumption DEF Init, TypeOK, QueueStates, CircuitStates, CircuitDefault,
     NotOpen, Locations, Outside, Outcomes
<1>3. QED
  BY <1>1, <1>2, FS_EmptySet DEF Init, Admission, PermitIsExclusive, WaitingIsCounted

\* A step of one caller changes only that caller's entries.
LEMMA ReturnTypes ==
    ASSUME TypeOK, NEW c \in Callers, Return(c)
    PROVE  /\ identity' \in [Callers -> Identities \cup {None}]
           /\ left' \in [Callers -> 0..MaxDeadline]
           /\ cancelled' \in [Callers -> BOOLEAN]
           /\ outcome' \in [Callers -> Outcomes]
BY RuntimeAssumption DEF Return, TypeOK, Outcomes

\* Every step of request keeps the types, the permit and the count.
LEMMA AdmissionStep ==
    ASSUME Admission, NEW c \in Callers, Step(c)
    PROVE  Admission'
<1> USE DEF Admission
<1>0. /\ Cardinality(Waiters) \in Nat
      /\ queue.waiting = Cardinality(Waiters)
      /\ Locations = Outside \cup Holding
  BY DEF WaitingIsCounted, TypeOK, QueueStates, Locations
<1>1. ASSUME Enter(c) PROVE Admission'
  <2>1. CASE Goto(c, "admit") /\ UNCHANGED <<callerVars, outcome>>
    <3>1. Waiters' = Waiters /\ Holders' = Holders
      BY <1>1, <2>1, WaitersChange, HoldersChange
         DEF Enter, Locations, Outside, Holding, Probing, Holders
    <3>2. TypeOK'
      BY <1>1, <2>1 DEF Enter, TypeOK, Goto, callerVars, Locations, Outside
    <3>3. QED
      BY <1>1, <3>1, <3>2 DEF Enter, PermitIsExclusive, WaitingIsCounted
  <2>2. CASE Return(c)
    <3>1. Waiters' = Waiters /\ Holders' = Holders
      BY <1>1, <2>2, WaitersChange, HoldersChange
         DEF Enter, Return, Locations, Outside, Holding, Probing, Holders
    <3>2. TypeOK'
      BY <1>1, <2>2, ReturnTypes DEF Enter, TypeOK, Return, Goto, Locations, Outside
    <3>3. QED
      BY <1>1, <3>1, <3>2 DEF Enter, PermitIsExclusive, WaitingIsCounted
  <2>3. QED
    BY <1>1, <2>1, <2>2 DEF Enter
<1>2. ASSUME AcquireFree(c) PROVE Admission'
  <2>1. Waiters' = Waiters /\ Holders' = Holders \cup {c} /\ Holders = {}
    BY <1>2, WaitersChange, HoldersChange
       DEF AcquireFree, Locations, Outside, Holding, Probing, PermitIsExclusive
  <2>2. TypeOK'
    BY <1>2 DEF AcquireFree, TypeOK, Goto, callerVars, Locations, Holding, QueueStates
  <2>3. queue'.active = TRUE /\ queue'.waiting = queue.waiting
    BY <1>2 DEF AcquireFree, TypeOK, QueueStates
  <2>4. QED
    BY <2>1, <2>2, <2>3 DEF PermitIsExclusive, WaitingIsCounted
<1>3. ASSUME AcquireRefused(c) PROVE Admission'
  <2>1. Waiters' = Waiters /\ Holders' = Holders
    BY <1>3, WaitersChange, HoldersChange
       DEF AcquireRefused, Return, Locations, Outside, Holding, Probing, Holders
  <2>2. TypeOK'
    BY <1>3, ReturnTypes DEF AcquireRefused, TypeOK, Return, Goto, Locations, Outside
  <2>3. QED
    BY <1>3, <2>1, <2>2 DEF AcquireRefused, PermitIsExclusive, WaitingIsCounted
<1>4. ASSUME AcquireWait(c) PROVE Admission'
  <2>1. /\ Cardinality(Waiters') = Cardinality(Waiters) + 1
        /\ Holders' = Holders
    BY <1>4, WaitersChange, HoldersChange
       DEF AcquireWait, Locations, Outside, Holding, Probing, Holders
  <2>2. TypeOK'
    BY <1>4, RuntimeAssumption
       DEF AcquireWait, TypeOK, Goto, callerVars, Locations, Outside, QueueStates
  <2>3. queue'.active = queue.active /\ queue'.waiting = queue.waiting + 1
    BY <1>4 DEF AcquireWait, TypeOK, QueueStates
  <2>4. QED
    BY <1>0, <2>1, <2>2, <2>3 DEF PermitIsExclusive, WaitingIsCounted
<1>5. ASSUME WakeGranted(c) PROVE Admission'
  <2>1. /\ Cardinality(Waiters') = Cardinality(Waiters) - 1
        /\ Holders' = Holders \cup {c} /\ Holders = {}
        /\ queue.waiting >= 1
    <3>1. /\ Cardinality(Waiters') = Cardinality(Waiters) - 1
          /\ Holders' = Holders \cup {c} /\ Holders = {}
      BY <1>5, WaitersChange, HoldersChange
         DEF WakeGranted, Locations, Outside, Holding, Probing, PermitIsExclusive
    <3>2. Waiters # {} /\ IsFiniteSet(Waiters)
      BY <1>5, WaitersChange DEF WakeGranted, Waiters, Locations, Holding
    <3>3. QED
      BY <1>0, <3>1, <3>2, FS_EmptySet
  <2>2. TypeOK'
    <3>1. queue.waiting - 1 \in 0..MAX_WAITING_REQUESTS
      BY <2>1, RuntimeAssumption DEF TypeOK, QueueStates
    <3>2. queue' \in QueueStates
      BY <1>5, <3>1 DEF WakeGranted, TypeOK, QueueStates
    <3>3. QED
      BY <1>5, <3>2 DEF WakeGranted, TypeOK, Goto, callerVars, Locations, Holding
  <2>3. queue'.active = TRUE /\ queue'.waiting = queue.waiting - 1
    BY <1>5 DEF WakeGranted, TypeOK, QueueStates
  <2>4. QED
    BY <1>0, <2>1, <2>2, <2>3 DEF PermitIsExclusive, WaitingIsCounted
<1>6. ASSUME WakeAbandoned(c) PROVE Admission'
  <2>1. /\ Cardinality(Waiters') = Cardinality(Waiters) - 1
        /\ Holders' = Holders
        /\ queue.waiting >= 1
    <3>1. /\ Cardinality(Waiters') = Cardinality(Waiters) - 1
          /\ Holders' = Holders
      BY <1>6, WaitersChange, HoldersChange
         DEF WakeAbandoned, Return, Locations, Outside, Holding, Probing, Holders
    <3>2. Waiters # {} /\ IsFiniteSet(Waiters)
      BY <1>6, WaitersChange DEF WakeAbandoned, Return, Waiters, Locations, Outside
    <3>3. QED
      BY <1>0, <3>1, <3>2, FS_EmptySet
  <2>2. TypeOK'
    <3>1. queue.waiting - 1 \in 0..MAX_WAITING_REQUESTS
      BY <2>1, RuntimeAssumption DEF TypeOK, QueueStates
    <3>2. queue' \in QueueStates
      BY <1>6, <3>1 DEF WakeAbandoned, TypeOK, QueueStates
    <3>3. QED
      BY <1>6, <3>2, ReturnTypes
         DEF WakeAbandoned, TypeOK, Return, Goto, Locations, Outside
  <2>3. queue'.active = queue.active /\ queue'.waiting = queue.waiting - 1
    BY <1>6 DEF WakeAbandoned, TypeOK, QueueStates
  <2>4. QED
    BY <1>0, <2>1, <2>2, <2>3 DEF PermitIsExclusive, WaitingIsCounted
<1>7. ASSUME BeginCircuitAttempt(c) PROVE Admission'
  <2>1. circuit' \in CircuitStates
    <3>1. identity[c] \in Identities \cup {None} /\ circuit \in CircuitStates
      BY DEF TypeOK
    <3>2. CircuitFor(identity[c]) \in CircuitStates
      BY <3>1, RuntimeAssumption DEF CircuitFor, CircuitDefault, CircuitStates, NotOpen
    <3>3. PICK b \in BOOLEAN :
             circuit' = [CircuitFor(identity[c]) EXCEPT !.half_open_active = b]
      BY <1>7, <3>2 DEF BeginCircuitAttempt, CircuitStates
    <3>4. QED
      BY <3>2, <3>3 DEF CircuitStates
  <2>2. PICK l \in {"release", "publish"} : Goto(c, l)
    BY <1>7 DEF BeginCircuitAttempt
  <2>3. Waiters' = Waiters /\ Holders' = Holders
    BY <1>7, <2>2, WaitersChange, HoldersChange
       DEF BeginCircuitAttempt, Locations, Outside, Holding, Probing, Holders
  <2>4. TypeOK'
    BY <1>7, <2>1, <2>2
       DEF BeginCircuitAttempt, TypeOK, Goto, callerVars, Locations, Holding, Probing
  <2>5. QED
    BY <1>7, <2>3, <2>4 DEF BeginCircuitAttempt, PermitIsExclusive, WaitingIsCounted
<1>8. ASSUME PublishOperation(c) PROVE Admission'
  <2>1. Waiters' = Waiters /\ Holders' = Holders
    BY <1>8, WaitersChange, HoldersChange
       DEF PublishOperation, Locations, Outside, Holding, Probing, Holders
  <2>2. TypeOK'
    BY <1>8 DEF PublishOperation, TypeOK, Goto, callerVars, Locations, Holding, Probing,
                QueueStates
  <2>3. queue'.active = queue.active /\ queue'.waiting = queue.waiting
    BY <1>8 DEF PublishOperation, TypeOK, QueueStates
  <2>4. QED
    BY <2>1, <2>2, <2>3 DEF PermitIsExclusive, WaitingIsCounted
<1>9. ASSUME Exchange(c) PROVE Admission'
  <2>1. PICK l \in {"exchange", "record"} : Goto(c, l)
    BY <1>9 DEF Exchange, ConnectExpired, ConnectRefused, Connected, Answered,
                ExchangeFailed, Finish
  <2>2. /\ pc[c] \in Transport
        /\ UNCHANGED <<queue, circuit, callerVars>>
        /\ outcome' \in [Callers -> Outcomes]
    BY <1>9 DEF Exchange, ConnectExpired, ConnectRefused, Connected, Answered,
                ExchangeFailed, Finish, Transport, TypeOK, Outcomes
  <2>3. Waiters' = Waiters /\ Holders' = Holders
    BY <2>1, <2>2, WaitersChange, HoldersChange
       DEF Locations, Outside, Holding, Probing, Holders, Transport
  <2>4. TypeOK'
    BY <2>1, <2>2 DEF TypeOK, Goto, callerVars, Locations, Holding, Probing
  <2>5. QED
    BY <2>2, <2>3, <2>4 DEF PermitIsExclusive, WaitingIsCounted
<1>10. ASSUME RecordRequest(c) PROVE Admission'
  <2>1. Waiters' = Waiters /\ Holders' = Holders
    BY <1>10, WaitersChange, HoldersChange
       DEF RecordRequest, Locations, Outside, Holding, Probing, Holders
  <2>2. TypeOK'
    BY <1>10 DEF RecordRequest, TypeOK, Goto, callerVars, Locations, Holding, Probing,
                 QueueStates
  <2>3. queue'.active = queue.active /\ queue'.waiting = queue.waiting
    BY <1>10 DEF RecordRequest, TypeOK, QueueStates
  <2>4. QED
    BY <2>1, <2>2, <2>3 DEF PermitIsExclusive, WaitingIsCounted
<1>11. ASSUME Settle(c) PROVE Admission'
  <2>1. circuit' \in CircuitStates
    <3>1. circuit \in CircuitStates
      BY DEF TypeOK
    <3>2. AfterSuccess \in CircuitStates
      <4>1. 0 \in 0..FailureLimit
        BY RuntimeAssumption
      <4>2. QED
        BY <3>1, <4>1 DEF AfterSuccess, CircuitStates
    <3>3. AfterFailure \in CircuitStates
      <4>1. SaturatingIncrement(circuit.consecutive_failures) \in 0..FailureLimit
        BY <3>1, RuntimeAssumption DEF SaturatingIncrement, CircuitStates
      <4>2. CIRCUIT_COOLDOWN \in 0..CIRCUIT_COOLDOWN
        BY RuntimeAssumption
      <4>3. QED
        BY <3>1, <4>1, <4>2 DEF AfterFailure, CircuitStates
    <3>4. QED
      BY <1>11, <3>1, <3>2, <3>3 DEF Settle
  <2>2. Waiters' = Waiters /\ Holders' = Holders
    BY <1>11, WaitersChange, HoldersChange
       DEF Settle, Locations, Outside, Holding, Probing, Holders
  <2>3. TypeOK'
    BY <1>11, <2>1 DEF Settle, TypeOK, Goto, callerVars, Locations, Holding
  <2>4. QED
    BY <1>11, <2>2, <2>3 DEF Settle, PermitIsExclusive, WaitingIsCounted
<1>12. ASSUME Release(c) PROVE Admission'
  <2>1. Waiters' = Waiters /\ Holders' = Holders \ {c} /\ c \in Holders
    BY <1>12, WaitersChange, HoldersChange
       DEF Release, Return, Locations, Outside, Holding, Probing, Holders
  <2>2. Holders' = {}
    BY <2>1 DEF PermitIsExclusive
  <2>3. TypeOK'
    BY <1>12, ReturnTypes DEF Release, TypeOK, Return, Goto, Locations, Outside, QueueStates
  <2>4. queue'.active = FALSE /\ queue'.waiting = queue.waiting
    BY <1>12 DEF Release, TypeOK, QueueStates
  <2>5. QED
    BY <2>1, <2>2, <2>3, <2>4 DEF PermitIsExclusive, WaitingIsCounted
<1>13. QED
  BY <1>1, <1>2, <1>3, <1>4, <1>5, <1>6, <1>7, <1>8, <1>9, <1>10, <1>11, <1>12
     DEF Step, Acquire, Wake

\* Calls, cancellations and the clock touch neither the permit nor the count.
LEMMA AdmissionEnvironment ==
    ASSUME Admission, Tick \/ \E c \in Callers : Call(c) \/ Cancel(c)
    PROVE  Admission' /\ Waiters' = Waiters /\ Holders' = Holders
<1> USE DEF Admission
<1>1. ASSUME Tick PROVE Admission' /\ Waiters' = Waiters /\ Holders' = Holders
  <2>1. circuit' \in CircuitStates
    <3>1. CountDown(circuit.open_until) \in {NotOpen} \cup 0..CIRCUIT_COOLDOWN
      BY RuntimeAssumption DEF CountDown, TypeOK, CircuitStates, NotOpen
    <3>2. QED
      BY <1>1, <3>1 DEF Tick, TypeOK, CircuitStates
  <2>2. left' \in [Callers -> 0..MaxDeadline]
    BY <1>1, RuntimeAssumption DEF Tick, CountDown, TypeOK
  <2>3. QED
    BY <1>1, <2>1, <2>2 DEF Tick, TypeOK, PermitIsExclusive, WaitingIsCounted, Holders, Waiters
<1>2. ASSUME NEW c \in Callers, Cancel(c)
      PROVE  Admission' /\ Waiters' = Waiters /\ Holders' = Holders
  BY <1>2 DEF Cancel, TypeOK, PermitIsExclusive, WaitingIsCounted, Holders, Waiters
<1>3. ASSUME NEW c \in Callers, Call(c)
      PROVE  Admission' /\ Waiters' = Waiters /\ Holders' = Holders
  <2>1. Waiters' = Waiters /\ Holders' = Holders
    BY <1>3, WaitersChange, HoldersChange
       DEF Call, Locations, Outside, Holding, Probing, Holders
  <2>2. TypeOK'
    BY <1>3 DEF Call, Goto, TypeOK, Locations, Outside
  <2>3. QED
    BY <1>3, <2>1, <2>2 DEF Call, PermitIsExclusive, WaitingIsCounted
<1>4. QED
  BY <1>1, <1>2, <1>3

\* The admission invariant is inductive.
LEMMA AdmissionNext == Admission /\ [Next]_vars => Admission'
<1> SUFFICES ASSUME Admission, [Next]_vars PROVE Admission'
  OBVIOUS
<1>1. CASE UNCHANGED vars
  BY <1>1 DEF vars, Admission, TypeOK, PermitIsExclusive, WaitingIsCounted, Holders, Waiters
<1>2. CASE Next
  BY <1>2, AdmissionStep, AdmissionEnvironment DEF Next
<1>3. QED
  BY <1>1, <1>2

\* In every reachable state the fields have their types, at most one caller is
\* between acquire and release and queue.active says so, and queue.waiting
\* counts the callers asleep on the condition variable.
THEOREM AdmissionCorrect == Spec => []Admission
<1>1. QED
  BY AdmissionInit, AdmissionNext, PTL DEF Spec

\* The counter acquire checks against its capacity and decrements on three
\* exits never leaves 0..MAX_WAITING_REQUESTS.
THEOREM TypesCorrect == Spec => []TypeOK
<1>1. Admission => TypeOK
  BY DEF Admission
<1>2. QED
  BY <1>1, AdmissionCorrect, PTL

\* BridgeRuntime::request serves one caller at a time.
THEOREM PermitCorrect == Spec => []PermitIsExclusive
<1>1. Admission => PermitIsExclusive
  BY DEF Admission
<1>2. QED
  BY <1>1, AdmissionCorrect, PTL

\* No waiting place leaks.
THEOREM WaitingCorrect == Spec => []WaitingIsCounted
<1>1. Admission => WaitingIsCounted
  BY DEF Admission
<1>2. QED
  BY <1>1, AdmissionCorrect, PTL

-----------------------------------------------------------------------------
(* The circuit part.  On top of the exclusive permit, an attempt in flight    *)
(* owns the circuit: nobody else resets it, raises its flag or opens it.      *)

CircuitInv == ProbeIsOwned /\ AttemptIsCurrent /\ OpenCircuitIsQuiet /\ OpenIffThreshold

\* When a caller holds the permit nobody else is past acquire.
LEMMA OthersOutside ==
    ASSUME Admission, NEW c \in Callers, pc[c] \in Holding
    PROVE  \A d \in Callers : d # c => pc[d] \notin Probing
BY DEF Admission, PermitIsExclusive, Holders, Holding

LEMMA CircuitInit == Init => CircuitInv
BY RuntimeAssumption
   DEF Init, CircuitInv, ProbeIsOwned, AttemptIsCurrent, OpenCircuitIsQuiet,
       OpenIffThreshold, CircuitDefault, NotOpen, Probing

\* A step that leaves the circuit and the identities in flight alone, and moves
\* nobody into or out of an attempt, keeps the circuit invariant.
LEMMA CircuitFrame ==
    ASSUME CircuitInv, UNCHANGED circuit,
           \A d \in Callers : /\ pc'[d] \in Probing <=> pc[d] \in Probing
                              /\ pc[d] \in Probing => identity'[d] = identity[d]
    PROVE  CircuitInv'
<1>1. ProbeIsOwned'
  BY DEF CircuitInv, ProbeIsOwned
<1>2. AttemptIsCurrent'
  BY DEF CircuitInv, AttemptIsCurrent
<1>3. OpenCircuitIsQuiet' /\ OpenIffThreshold'
  BY DEF CircuitInv, OpenCircuitIsQuiet, OpenIffThreshold
<1>4. QED
  BY <1>1, <1>2, <1>3 DEF CircuitInv

\* The half-open flag is down when a caller asks for an attempt: its owner
\* would hold the permit as well.
LEMMA NoProbeBefore ==
    ASSUME Admission, CircuitInv, NEW c \in Callers, pc[c] = "circuit"
    PROVE  circuit.half_open_active = FALSE
<1>1. \A d \in Callers : pc[d] \notin Probing
  BY OthersOutside DEF Holding, Probing
<1>2. circuit.half_open_active \in BOOLEAN
  BY DEF Admission, TypeOK, CircuitStates
<1>3. QED
  BY <1>1, <1>2 DEF CircuitInv, ProbeIsOwned

LEMMA CircuitStep ==
    ASSUME Admission, CircuitInv, NEW c \in Callers, Step(c)
    PROVE  CircuitInv'
<1> USE DEF Admission
<1>0. /\ pc \in [Callers -> Locations] /\ identity \in [Callers -> Identities \cup {None}]
      /\ circuit \in CircuitStates
  BY DEF TypeOK
<1>1. ASSUME Enter(c) \/ Acquire(c) \/ Wake(c) PROVE CircuitInv'
  <2>1. /\ pc[c] \in Outside /\ UNCHANGED circuit
        /\ \E l \in {"idle", "admit", "waiting", "circuit"} : Goto(c, l)
        /\ \A d \in Callers : d # c => identity'[d] = identity[d]
    BY <1>0, <1>1 DEF Enter, Acquire, AcquireFree, AcquireRefused, AcquireWait, Wake,
       WakeGranted, WakeAbandoned, Return, callerVars, Outside
  <2>2. \A d \in Callers : /\ pc'[d] \in Probing <=> pc[d] \in Probing
                           /\ pc[d] \in Probing => identity'[d] = identity[d]
    BY <1>0, <2>1 DEF Goto, Outside, Probing
  <2>3. QED
    BY <2>1, <2>2, CircuitFrame
<1>2. ASSUME BeginCircuitAttempt(c) PROVE CircuitInv'
  <2> DEFINE seen == CircuitFor(identity[c])
  <2>1. \A d \in Callers : pc[d] \notin Probing
    BY <1>2, OthersOutside DEF BeginCircuitAttempt, Holding, Probing
  <2>2. /\ seen \in CircuitStates
        /\ seen.connection_identity = identity[c]
        /\ seen.half_open_active = FALSE
        /\ seen.open_until # NotOpen <=>
              seen.consecutive_failures >= CIRCUIT_FAILURE_THRESHOLD
    <3>1. CASE circuit.connection_identity = identity[c]
      BY <1>0, <1>2, <3>1, NoProbeBefore
         DEF CircuitFor, BeginCircuitAttempt, CircuitInv, OpenIffThreshold
    <3>2. CASE circuit.connection_identity # identity[c]
      BY <1>0, <3>2, RuntimeAssumption
         DEF CircuitFor, CircuitDefault, CircuitStates, NotOpen
    <3>3. QED
      BY <3>1, <3>2
  <2>3. /\ circuit' = [seen EXCEPT !.half_open_active = (seen.open_until = 0)]
        /\ Goto(c, IF seen.open_until > 0 THEN "release" ELSE "publish")
        /\ UNCHANGED identity
    <3> HIDE DEF seen
    <3>1. seen = CircuitFor(identity[c])
      BY DEF seen
    <3>2. QED
      BY <1>2, <2>2, <3>1 DEF BeginCircuitAttempt, callerVars, CircuitStates, NotOpen
  <2> HIDE DEF seen
  <2>4. /\ circuit'.connection_identity = identity[c]
        /\ circuit'.half_open_active = (seen.open_until = 0)
        /\ circuit'.open_until = seen.open_until
        /\ circuit'.consecutive_failures = seen.consecutive_failures
    BY <2>2, <2>3 DEF CircuitStates
  <2>5. /\ pc'[c] = IF seen.open_until > 0 THEN "release" ELSE "publish"
        /\ \A d \in Callers : d # c => pc'[d] \notin Probing
    BY <1>0, <2>1, <2>3 DEF Goto
  <2>6. pc'[c] \in Probing <=> ~(seen.open_until > 0)
    BY <2>5 DEF Probing
  <2>7. ProbeIsOwned'
    <3>1. circuit'.half_open_active => pc'[c] \in Probing
      <4>1. circuit'.half_open_active => seen.open_until = 0
        BY <2>4, Zenon
      <4>2. seen.open_until = 0 => ~(seen.open_until > 0)
        OBVIOUS
      <4>3. QED
        BY <4>1, <4>2, <2>6
    <3>2. identity'[c] = circuit'.connection_identity
      BY <2>3, <2>4
    <3>3. QED
      BY <3>1, <3>2 DEF ProbeIsOwned
  <2>8. AttemptIsCurrent'
    BY <2>3, <2>4, <2>5 DEF AttemptIsCurrent
  <2>9. OpenCircuitIsQuiet'
    BY <2>4, <2>5, <2>6 DEF OpenCircuitIsQuiet
  <2>10. OpenIffThreshold'
    BY <2>2, <2>4 DEF OpenIffThreshold
  <2>11. QED
    BY <2>7, <2>8, <2>9, <2>10 DEF CircuitInv
<1>3. ASSUME PublishOperation(c) \/ Exchange(c) \/ RecordRequest(c) PROVE CircuitInv'
  <2>1. /\ pc[c] \in Probing /\ UNCHANGED <<circuit, identity>>
        /\ \E l \in Probing : Goto(c, l)
    BY <1>3 DEF PublishOperation, Exchange, ConnectExpired, ConnectRefused, Connected,
       Answered, ExchangeFailed, Finish, RecordRequest, callerVars, Probing
  <2>2. \A d \in Callers : pc'[d] \in Probing <=> pc[d] \in Probing
    BY <1>0, <2>1 DEF Goto
  <2>3. QED
    BY <2>1, <2>2, CircuitFrame
<1>4. ASSUME Settle(c) PROVE CircuitInv'
  <2>1. circuit.connection_identity = identity[c]
    BY <1>4 DEF Settle, CircuitInv, AttemptIsCurrent, Probing
  <2>2. \A d \in Callers : pc'[d] \notin Probing
    BY <1>0, <1>4, OthersOutside DEF Settle, Goto, Holding, Probing
  <2>3. circuit'.half_open_active = FALSE
    BY <1>0, <1>4, <2>1 DEF Settle, AfterSuccess, AfterFailure, CircuitStates
  <2>4. OpenIffThreshold'
    <3>1. CASE circuit' = AfterSuccess
      BY <1>0, <3>1, RuntimeAssumption DEF AfterSuccess, OpenIffThreshold, CircuitStates
    <3>2. CASE circuit' = AfterFailure
      <4> DEFINE n == circuit.consecutive_failures
      <4>1. /\ n \in 0..FailureLimit
            /\ SaturatingIncrement(n) \in Nat
            /\ n >= CIRCUIT_FAILURE_THRESHOLD =>
                  SaturatingIncrement(n) >= CIRCUIT_FAILURE_THRESHOLD
        BY <1>0, RuntimeAssumption DEF SaturatingIncrement, CircuitStates
      <4>2. /\ circuit'.consecutive_failures = SaturatingIncrement(n)
            /\ circuit'.open_until = IF SaturatingIncrement(n) >= CIRCUIT_FAILURE_THRESHOLD
                                     THEN CIRCUIT_COOLDOWN ELSE circuit.open_until
        BY <1>0, <3>2 DEF AfterFailure, CircuitStates
      <4>3. QED
        BY <4>1, <4>2, RuntimeAssumption DEF CircuitInv, OpenIffThreshold, NotOpen
    <3>3. QED
      BY <1>4, <2>1, <3>1, <3>2 DEF Settle
  <2>5. QED
    BY <2>2, <2>3, <2>4
       DEF CircuitInv, ProbeIsOwned, AttemptIsCurrent, OpenCircuitIsQuiet
<1>5. ASSUME Release(c) PROVE CircuitInv'
  <2>1. \A d \in Callers : /\ pc'[d] \in Probing <=> pc[d] \in Probing
                           /\ pc[d] \in Probing => identity'[d] = identity[d]
    BY <1>0, <1>5 DEF Release, Return, Goto, Probing
  <2>2. QED
    BY <1>5, <2>1, CircuitFrame DEF Release
<1>6. QED
  BY <1>1, <1>2, <1>3, <1>4, <1>5 DEF Step

LEMMA CircuitEnvironment ==
    ASSUME Admission, CircuitInv, Tick \/ \E c \in Callers : Call(c) \/ Cancel(c)
    PROVE  CircuitInv'
<1> USE DEF Admission
<1>1. ASSUME Tick PROVE CircuitInv'
  <2>1. circuit' = [circuit EXCEPT !.open_until = CountDown(circuit.open_until)]
    BY <1>1 DEF Tick
  <2>2. /\ circuit'.open_until = CountDown(circuit.open_until)
        /\ circuit'.connection_identity = circuit.connection_identity
        /\ circuit'.consecutive_failures = circuit.consecutive_failures
        /\ circuit'.half_open_active = circuit.half_open_active
        /\ circuit.open_until \in {NotOpen} \cup 0..CIRCUIT_COOLDOWN
    BY <2>1 DEF TypeOK, CircuitStates
  <2>3. /\ circuit'.open_until > 0 => circuit.open_until > 0
        /\ circuit'.open_until = NotOpen <=> circuit.open_until = NotOpen
    BY <2>2, RuntimeAssumption DEF CountDown, NotOpen
  <2>4. QED
    BY <1>1, <2>2, <2>3 DEF Tick, CircuitInv, ProbeIsOwned, AttemptIsCurrent,
       OpenCircuitIsQuiet, OpenIffThreshold
<1>2. ASSUME NEW c \in Callers, Call(c) \/ Cancel(c) PROVE CircuitInv'
  <2>1. UNCHANGED circuit /\ \A d \in Callers :
           /\ pc'[d] \in Probing <=> pc[d] \in Probing
           /\ pc[d] \in Probing => identity'[d] = identity[d]
    BY <1>2 DEF Call, Cancel, Goto, TypeOK, Probing
  <2>2. QED
    BY <2>1, CircuitFrame
<1>3. QED
  BY <1>1, <1>2

\* The circuit invariant is inductive relative to the admission invariant.
LEMMA CircuitNext == Admission /\ CircuitInv /\ [Next]_vars => CircuitInv'
<1> SUFFICES ASSUME Admission, CircuitInv, [Next]_vars PROVE CircuitInv'
  OBVIOUS
<1>1. CASE UNCHANGED vars
  BY <1>1, CircuitFrame DEF vars
<1>2. CASE Next
  BY <1>2, CircuitStep, CircuitEnvironment DEF Next
<1>3. QED
  BY <1>1, <1>2

\* In every reachable state the half-open flag has an owner, an attempt in
\* flight is the one the circuit is about, nobody is in contact with the bridge
\* during a cooldown, and the circuit is open exactly from the threshold on.
THEOREM CircuitCorrect == Spec => []CircuitInv
<1>1. QED
  BY AdmissionInit, AdmissionNext, CircuitInit, CircuitNext, PTL DEF Spec

\* begin_circuit_attempt's verdict stays true until the permit is dropped.
THEOREM QuietCorrect == Spec => []OpenCircuitIsQuiet
<1>1. CircuitInv => OpenCircuitIsQuiet
  BY DEF CircuitInv
<1>2. QED
  BY <1>1, CircuitCorrect, PTL

\* The half-open flag cannot be left up by a request that is gone.
THEOREM ProbeCorrect == Spec => []ProbeIsOwned
<1>1. CircuitInv => ProbeIsOwned
  BY DEF CircuitInv
<1>2. QED
  BY <1>1, CircuitCorrect, PTL

\* No outcome in flight is dropped as one of another identity.
THEOREM AttemptCorrect == Spec => []AttemptIsCurrent
<1>1. CircuitInv => AttemptIsCurrent
  BY DEF CircuitInv
<1>2. QED
  BY <1>1, CircuitCorrect, PTL

\* The circuit is open exactly from the threshold on.
THEOREM ThresholdCorrect == Spec => []OpenIffThreshold
<1>1. CircuitInv => OpenIffThreshold
  BY DEF CircuitInv
<1>2. QED
  BY <1>1, CircuitCorrect, PTL

\* A run of failures is cut short only by an answer of the same identity or by
\* an attempt of another one: no request that was refused, cancelled or timed
\* out closes the circuit.
THEOREM RunEndCorrect == Spec => RunEndsByAnswerOrIdentity
<1>1. ASSUME Admission, [Next]_vars PROVE RunEnd
  <2>0. circuit \in CircuitStates /\ circuit.consecutive_failures \in Nat
    BY <1>1, RuntimeAssumption DEF Admission, TypeOK, CircuitStates
  <2>1. ASSUME circuit'.consecutive_failures = circuit.consecutive_failures PROVE RunEnd
    BY <2>0, <2>1 DEF RunEnd
  <2>2. ASSUME NEW c \in Callers, BeginCircuitAttempt(c) PROVE RunEnd
    <3>1. CASE circuit.connection_identity = identity[c]
      <4>1. circuit'.consecutive_failures = circuit.consecutive_failures
        BY <2>0, <2>2, <3>1 DEF BeginCircuitAttempt, CircuitFor, CircuitStates
      <4> QED BY <4>1, <2>1
    <3>2. CASE circuit.connection_identity # identity[c]
      <4>1. circuit'.connection_identity = identity[c]
        BY <2>2, <3>2 DEF BeginCircuitAttempt, CircuitFor, CircuitDefault
      <4>2. pc[c] = "circuit"
        BY <2>2 DEF BeginCircuitAttempt
      <4> QED BY <4>1, <4>2, <3>2 DEF RunEnd
    <3> QED BY <3>1, <3>2
  <2>3. ASSUME NEW c \in Callers, Settle(c) PROVE RunEnd
    <3>1. CASE UNCHANGED circuit
      BY <3>1, <2>1
    <3>2. CASE circuit.connection_identity = identity[c] /\ outcome[c] = "ok"
      BY <2>3, <3>2 DEF Settle, RunEnd
    <3>3. CASE circuit' = AfterFailure
      <4>1. circuit'.consecutive_failures = SaturatingIncrement(circuit.consecutive_failures)
        BY <2>0, <3>3 DEF AfterFailure, CircuitStates
      <4>2. SaturatingIncrement(circuit.consecutive_failures) >= circuit.consecutive_failures
        BY <2>0 DEF SaturatingIncrement
      <4>3. SaturatingIncrement(circuit.consecutive_failures) \in Nat
        BY <2>0 DEF SaturatingIncrement
      <4> QED BY <4>1, <4>2, <4>3, <2>0 DEF RunEnd
    <3> QED BY <2>3, <3>1, <3>2, <3>3 DEF Settle
  <2>4. CASE Tick
    <3>1. circuit'.consecutive_failures = circuit.consecutive_failures
      BY <2>0, <2>4 DEF Tick, CircuitStates
    <3> QED BY <3>1, <2>1
  <2>5. ASSUME NEW c \in Callers, Call(c) \/ Cancel(c) \/ Enter(c) \/ Acquire(c) \/ Wake(c)
        PROVE  UNCHANGED circuit
    BY <2>5 DEF Call, Cancel, Enter, Acquire, AcquireFree, AcquireRefused, AcquireWait, Wake,
       WakeGranted, WakeAbandoned
  <2>6. ASSUME NEW c \in Callers, PublishOperation(c) \/ Exchange(c) \/ RecordRequest(c) \/ Release(c)
        PROVE  UNCHANGED circuit
    BY <2>6 DEF PublishOperation, Exchange, ConnectExpired, ConnectRefused, Connected, Answered,
       ExchangeFailed, Finish, RecordRequest, Release
  <2>7. CASE UNCHANGED vars
    BY <2>7, <2>1 DEF vars
  <2> QED
    BY <1>1, <2>1, <2>2, <2>3, <2>4, <2>5, <2>6, <2>7 DEF Next, Step
<1>2. ASSUME Admission, [Next]_vars PROVE [RunEnd]_vars
  BY <1>1, <1>2
<1> QED BY <1>2, AdmissionCorrect, PTL DEF Spec, RunEndsByAnswerOrIdentity

-----------------------------------------------------------------------------
(* The refinement.  Each step of the runtime is a step of the single-slot     *)
(* queue or leaves it unchanged; the waiting count makes the code's capacity  *)
(* test the abstract one, the permit flag its test for a free server.         *)

LEMMA SlotInitial == Init => Slot!SlotInit
BY DEF Init, Slot!SlotInit, Holders, Waiters, Holding, Probing

LEMMA SlotStep ==
    ASSUME Admission, NEW c \in Callers, Step(c)
    PROVE  Slot!SlotNext \/ UNCHANGED <<Holders, Waiters>>
<1> USE DEF Admission
<1>0. /\ queue.waiting = Cardinality(Waiters)
      /\ queue.active <=> Holders # {}
      /\ TypeOK
  BY DEF WaitingIsCounted, PermitIsExclusive
<1>1. CASE AcquireFree(c)
  <2>1. Waiters' = Waiters /\ Holders = {} /\ Holders' = {c} /\ c \notin Waiters
    BY <1>0, <1>1, WaitersChange, HoldersChange
       DEF AcquireFree, Locations, Outside, Holding, Probing, Waiters
  <2>2. Slot!WalkIn(c)
    BY <2>1 DEF Slot!WalkIn
  <2>3. QED
    BY <2>2 DEF Slot!SlotNext
<1>2. CASE AcquireWait(c)
  <2>1. /\ Waiters' = Waiters \cup {c} /\ Holders' = Holders /\ Holders # {}
        /\ c \notin Holders \cup Waiters
    BY <1>0, <1>2, WaitersChange, HoldersChange
       DEF AcquireWait, Locations, Outside, Holding, Probing, Waiters, Holders
  <2>2. Cardinality(Waiters) < MAX_WAITING_REQUESTS
    BY <1>0, <1>2 DEF AcquireWait
  <2>3. Slot!Cardinality(Waiters) = Cardinality(Waiters)
    BY DEF Slot!Cardinality, Cardinality
  <2>4. Slot!LineUp(c)
    BY <2>1, <2>2, <2>3 DEF Slot!LineUp
  <2>5. QED
    BY <2>4 DEF Slot!SlotNext
<1>3. CASE WakeGranted(c)
  <2>1. Waiters' = Waiters \ {c} /\ Holders = {} /\ Holders' = {c} /\ c \in Waiters
    BY <1>0, <1>3, WaitersChange, HoldersChange
       DEF WakeGranted, Locations, Outside, Holding, Probing, Waiters
  <2>2. Slot!LetIn(c)
    BY <2>1 DEF Slot!LetIn
  <2>3. QED
    BY <2>2 DEF Slot!SlotNext
<1>4. CASE WakeAbandoned(c)
  <2>1. Waiters' = Waiters \ {c} /\ Holders' = Holders /\ c \in Waiters
    <3>1. c \in Waiters /\ c \notin Holders
      BY <1>4 DEF WakeAbandoned, Waiters, Holders, Holding, Probing
    <3>2. Waiters' = Waiters \ {c} /\ Holders' = Holders \ {c}
      BY <1>0, <1>4, WaitersChange, HoldersChange
         DEF WakeAbandoned, Return, Locations, Outside, Holding, Probing
    <3>3. QED
      BY <3>1, <3>2
  <2>2. Slot!GiveUp(c)
    BY <2>1 DEF Slot!GiveUp
  <2>3. QED
    BY <2>2 DEF Slot!SlotNext
<1>5. CASE Release(c)
  <2>1. Waiters' = Waiters /\ Holders' = Holders \ {c} /\ c \in Holders
    BY <1>0, <1>5, WaitersChange, HoldersChange
       DEF Release, Return, Locations, Outside, Holding, Probing, Holders
  <2>2. Holders = {c}
    <3>1. \A d \in Holders : d = c
      BY <2>1 DEF PermitIsExclusive
    <3>2. QED
      BY <2>1, <3>1, Zenon
  <2>3. Slot!Depart(c)
    BY <2>1, <2>2 DEF Slot!Depart
  <2>4. QED
    BY <2>3 DEF Slot!SlotNext
<1>6. CASE Enter(c) \/ AcquireRefused(c)
  <2>1. pc[c] \in {"entry", "admit"} /\ \E l \in {"idle", "admit"} : Goto(c, l)
    BY <1>6 DEF Enter, AcquireRefused, Return
  <2>2. PICK l \in {"idle", "admit"} : Goto(c, l)
    BY <2>1
  <2>3. Waiters' = Waiters /\ Holders' = Holders
    BY <1>0, <2>1, <2>2, WaitersChange, HoldersChange
       DEF Locations, Outside, Holding, Probing, Holders
  <2>4. QED
    BY <2>3
<1>7. CASE \/ BeginCircuitAttempt(c) \/ PublishOperation(c) \/ Exchange(c)
           \/ RecordRequest(c) \/ Settle(c)
  <2>1. pc[c] \in Holding /\ \E l \in Holding : Goto(c, l)
    BY <1>7 DEF BeginCircuitAttempt, PublishOperation, Exchange, ConnectExpired,
       ConnectRefused, Connected, Answered, ExchangeFailed, Finish, RecordRequest,
       Settle, Holding, Probing
  <2>2. PICK l \in Holding : Goto(c, l)
    BY <2>1
  <2>3. Waiters' = Waiters
    <3>1. l \in Locations /\ l # "waiting" /\ pc[c] # "waiting"
      BY <2>1, <2>2 DEF Locations, Holding, Probing
    <3>2. QED
      BY <1>0, <2>2, <3>1, WaitersChange
  <2>4. Holders' = Holders
    <3>1. l \in Locations
      BY <2>2 DEF Locations
    <3>2. Holders' = Holders \cup {c} /\ c \in Holders
      BY <1>0, <2>1, <2>2, <3>1, HoldersChange DEF Holders
    <3>3. QED
      BY <3>2
  <2>5. QED
    BY <2>3, <2>4
<1>8. QED
  BY <1>1, <1>2, <1>3, <1>4, <1>5, <1>6, <1>7 DEF Step, Acquire, Wake

LEMMA SlotSimulation == Admission /\ [Next]_vars => [Slot!SlotNext]_(Slot!slotVars)
<1> SUFFICES ASSUME Admission, [Next]_vars
             PROVE  Slot!SlotNext \/ UNCHANGED <<Holders, Waiters>>
  BY DEF Slot!slotVars
<1>1. CASE UNCHANGED vars
  BY <1>1 DEF vars, Holders, Waiters
<1>2. CASE Next
  BY <1>2, SlotStep, AdmissionEnvironment DEF Next
<1>3. QED
  BY <1>1, <1>2

\* The runtime implements the single-slot queue: whatever the callers, the
\* clock, the editor and R do, R is offered one operation at a time by it and at
\* most MAX_WAITING_REQUESTS callers wait.
THEOREM Refinement == Spec => ImplementsPermitQueue
<1>1. QED
  BY AdmissionInit, AdmissionNext, SlotInitial, SlotSimulation, PTL
     DEF Spec, ImplementsPermitQueue, Slot!SlotSpec

=============================================================================
