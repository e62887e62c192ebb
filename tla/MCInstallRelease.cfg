SPECIFICATION FairSpec
CONSTANTS
  Installers = {p1, p2}
  Versions = {v1, v2}
  None = None
  Former = former
INVARIANTS
  LinkedIsVerified
  OneInstallsUnlessStolen
  LinksAreTheAnnounced
  LeavesNothingBehind
PROPERTIES
  OrphanIsReclaimed
CHECK_DEADLOCK FALSE
