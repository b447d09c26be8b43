SPECIFICATION RemindersSpec
CONSTANTS
  Vehicles = {v1}
  Logs = {l1}
  Admins = {a1, a2}
  Jobs = {c1, c2}
  Editors = {p1}
  Horizon = 1
  Readings = {1}
  MaxDay = 2
  MaxEdits = 1
  MaxFaults = 2
  None = None
INVARIANTS
  ClaimsAreKept
  MailsAreNotRepeated
PROPERTIES
  DueLogsAreMailed
CHECK_DEADLOCK FALSE
