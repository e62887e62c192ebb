SPECIFICATION FairSpec
CONSTANTS
  Requests = {r1, r2}
  MaxNotifications = 2
INVARIANTS
  EarlierNotificationsHandled
PROPERTIES
  VerdictIsSound
  SentRequestsAreAnswered
CHECK_DEADLOCK FALSE
