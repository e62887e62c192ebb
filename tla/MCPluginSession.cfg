CONSTANTS
  Sessions = {s1, s2}
  None = None
  MaxRestarts = 1
  MaxSyncs = 2
  Scenarios <- MCScenarios
  MaxSeq = 1
  MaxClients = 4
SPECIFICATION FairSpec
CHECK_DEADLOCK FALSE
INVARIANTS RestartsAreBounded RequestIsUnderWay ServerKnowsTheSession
PROPERTIES RestartAnswersTheLast CrashIsAnswered
