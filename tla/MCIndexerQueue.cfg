SPECIFICATION FairSpec
CONSTANTS
  script = script
  helper = helper
  r1 = r1
  r2 = r2
  Files = {script, helper}
  Roots = {r1, r2}
  RootsOf <- MCRootsOf
  ScriptOf <- MCScriptOf
  Sourced <- MCSourced
  None = None
  Documents = {script, helper}
  InitialFolders = {r1}
  MAX_INDEXER_BATCH = 1
  MaxEdits = 2
  MaxChanges = 1
INVARIANTS
  SettledDiagnosticsAreCurrent
PROPERTIES
  ResultsArriveInOrder
  OutdatedIsReplaced
CHECK_DEADLOCK FALSE
