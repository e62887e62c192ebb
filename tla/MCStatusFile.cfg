SPECIFICATION FairSpec
CONSTANTS
  MaxGeneration = 2
  MaxLines = 2
  None = None
INVARIANTS
  RestingFileIsTrue
  EvaluationIsDeferred
PROPERTIES
  ConsoleFieldsSettle
  SubmittedIsSent
  ImplementsContents
CHECK_DEADLOCK FALSE
