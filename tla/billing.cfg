SPECIFICATION FairSpec
CONSTANTS
  Subscriptions = {s1, s2}
  Replicas = {r1, r2}
  PaidTiers = {"pro", "farm"}
  Prices = {p1, p2}
  PlanOf <- ProOrFarm
  Settings <- AllSettings
  None = None
INVARIANTS
  
  DeletedGroupsStopPaying
PROPERTIES
  EventsApplyOnce
  NamedSubscriptionConverges
  SingleSubscriptionConverges
CHECK_DEADLOCK FALSE
