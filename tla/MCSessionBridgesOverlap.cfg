SPECIFICATION Spec
CONSTANTS
  OldCallers = {a1}
  NewCallers = {b1}
  Identities = {i}
  None = None
  MAX_WAITING_REQUESTS = 1
  CIRCUIT_FAILURE_THRESHOLD = 1
  CIRCUIT_COOLDOWN = 1
  MaxDeadline = 1
  FailureLimit = 1
INVARIANTS
  OneOperationInR
