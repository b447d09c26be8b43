SPECIFICATION Spec
CONSTANTS
  SessionIds = {s1, s2}
  Requests = {r1, r2}
  Idle = 3
  Absolute = 5
  Slide = 2
  Bounds <- LongOrBusy
SYMMETRY Symmetry
INVARIANTS
  SessionsEndInTime
  UsedSessionsLive
  SessionsFollowPassword
PROPERTIES
  TokensAreSpent
CHECK_DEADLOCK FALSE
