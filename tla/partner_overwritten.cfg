SPECIFICATION Spec
CONSTANTS
  Subscriptions = {s1, s2}
  Replicas = {r1, r2}
  PaidTiers = {"pro", "farm"}
  Prices = {p1, p2}
  PlanOf <- ProOrFarm
  Settings <- OneReplicaSettings
  None = None
PROPERTIES
  StripeKeepsPartners
CHECK_DEADLOCK FALSE
