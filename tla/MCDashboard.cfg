SPECIFICATION FairSpec
CONSTANTS
  Users = {u1, u2}
  Calls = {c1, c2}
  Limit = 1
  MaxSessions = 2
  MaxAlerts = 2
  MaxFailures = 1
  None = None
INVARIANTS TypeOK AckedThenRead
PROPERTIES EndsForCause FeedCatchesUp
CHECK_DEADLOCK FALSE
