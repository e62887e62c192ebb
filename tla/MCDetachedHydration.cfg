SPECIFICATION FairSpec
CONSTANTS
  UpdateKinds = {"live", "absent"}
  ReplSeqs = {1, 2}
  MaxUpdates = 3
  MaxAttempts = 2
INVARIANTS
  BaselinePendingIffRunning
  HydratedMeansCurrentLive
PROPERTIES
  LiveNeverGoesBack
  PendingSettles
CHECK_DEADLOCK FALSE
