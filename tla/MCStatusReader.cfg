SPECIFICATION ReaderSpec
CONSTANTS
  Requests = {q1, q2}
  MaxGeneration = 1
  None = None
SYMMETRY ThreadSymmetry
INVARIANTS
  CacheIsOfTheStamp
  QuietRequestsSucceed
  NotSentTwice
