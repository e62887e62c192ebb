SPECIFICATION FairSpec
CONSTANTS
  Callers = {c1, c2, c3}
  Identities = {idA}
  None = None
  MAX_WAITING_REQUESTS = 1
  CIRCUIT_FAILURE_THRESHOLD = 1
  CIRCUIT_COOLDOWN = 1
  MaxDeadline = 1
  FailureLimit = 1
PROPERTIES
  EveryRequestReturns
