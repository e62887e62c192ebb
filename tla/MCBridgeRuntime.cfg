SPECIFICATION Spec
CONSTANTS
  Callers = {c1, c2, c3}
  Identities = {idA, idB}
  None = None
  MAX_WAITING_REQUESTS = 1
  CIRCUIT_FAILURE_THRESHOLD = 2
  CIRCUIT_COOLDOWN = 2
  MaxDeadline = 2
  FailureLimit = 3
SYMMETRY CallerSymmetry
INVARIANTS
  PermitIsExclusive
  WaitingIsCounted
  ProbeIsOwned
  AttemptIsCurrent
  OpenCircuitIsQuiet
  OpenIffThreshold
PROPERTIES
  RunEndsByAnswerOrIdentity
  ImplementsPermitQueue
