SPECIFICATION Spec
CONSTANTS
  Requests = {r1}
  MaxNotifications = 2
INVARIANTS
  NobodySleepsPastTarget
CHECK_DEADLOCK FALSE
