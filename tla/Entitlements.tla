---------------------------- MODULE Entitlements ----------------------------
(***************************************************************************)
(* How many vehicles a group may have: its subscription gives it a tier,   *)
(* the tier a limit; the handler that adds a vehicle reads the limit,      *)
(* counts the vehicles and, if they are fewer, commits another one.        *)
(*                                                                         *)
(* The handlers are async without an await, so on one replica one runs     *)
(* after the other; on several their statements interleave.                *)
(*                                                                         *)
(* Left out: how the subscription comes about (Billing), who may ask       *)
(* (Membership), and the features that only open or close a page.          *)
(***************************************************************************)
EXTENDS FiniteSets, Integers

CONSTANTS
  Limits,         \* TIER_LIMITS: the vehicles of each tier
  Adders,         \* requests for a new vehicle that can be open at once
  Unlimited,      \* no limit
  MaxVehicles,    \* bound: of the vehicles of an unlimited tier
  MaxPlans        \* bound: how often the subscription changes

ASSUME LimitsAssumption ==
  "free" \in DOMAIN Limits
    /\ \A tier \in DOMAIN Limits : Limits[tier] \in Nat \cup {Unlimited}

ASSUME AddersAssumption == IsFiniteSet(Adders) /\ Adders # {}

VARIABLES
  plan,           \* group_subscriptions: tier and status
  vehicles,       \* how many living vehicles the group has
  add,            \* what each open request has read
  plans,          \* how often the subscription was changed
  oneReplica,     \* whether one replica serves all: a fact of the deployment
  \* History only:
  lowered         \* the limit fell since vehicles and requests were within it

evars == <<plan, vehicles, add, plans, oneReplica, lowered>>

-----------------------------------------------------------------------------
Tiers == DOMAIN Limits

Status == {"active", "past_due", "canceled", "unpaid", "incomplete_expired"}

\* Faulty variant: a subscription that ended still counts.
TierOfAnyStatus(p) == p.tier

EffectiveTier(p) ==
  IF p.status \in {"canceled", "unpaid", "incomplete_expired"} THEN "free" ELSE p.tier

VehicleLimit(p) == Limits[EffectiveTier(p)]

Within(n, limit) == IF limit = Unlimited THEN TRUE ELSE n <= limit

\* Faulty variant: at the limit one more may be added.
MayAddAtLimit(limit) == Within(vehicles, limit)

MayAdd(limit) == Within(vehicles + 1, limit)

NotOpen == [at |-> "nothing"]

\* Faulty variant: the handlers of one replica run in parallel.
InParallel(rs) == TRUE

BodyIsFree(rs) == oneReplica => \A q \in Adders \ rs : add[q] = NotOpen

-----------------------------------------------------------------------------
\* SELECT of the subscription.
ReadLimit(r) ==
  /\ add[r] = NotOpen
  /\ BodyIsFree({r})
  /\ add' = [add EXCEPT ![r] = [at |-> "count", limit |-> VehicleLimit(plan)]]
  /\ UNCHANGED <<plan, vehicles, plans, oneReplica, lowered>>

\* SELECT of the number of living vehicles.
Count(r) ==
  /\ add[r].at = "count"
  /\ add' = [add EXCEPT ![r] = IF MayAdd(add[r].limit)
                                 THEN [at |-> "insert", limit |-> add[r].limit] ELSE NotOpen]
  /\ UNCHANGED <<plan, vehicles, plans, oneReplica, lowered>>

InsertVehicle(r) ==
  /\ add[r].at = "insert"
  /\ vehicles < MaxVehicles
  /\ vehicles' = vehicles + 1
  /\ add' = [add EXCEPT ![r] = NotOpen]
  /\ UNCHANGED <<plan, plans, oneReplica, lowered>>

\* The replica dies, or the bound is reached.
Abandon(r) ==
  /\ add[r] # NotOpen
  /\ add' = [add EXCEPT ![r] = NotOpen]
  /\ UNCHANGED <<plan, vehicles, plans, oneReplica, lowered>>

\* A request that has read a higher limit than the one of p.
Outdates(p, r) ==
  IF add[r] = NotOpen \/ VehicleLimit(p) = Unlimited THEN FALSE
  ELSE IF add[r].limit = Unlimited THEN TRUE ELSE add[r].limit > VehicleLimit(p)

Exceeded(p, n) == ~Within(n, VehicleLimit(p)) \/ \E r \in Adders : Outdates(p, r)

DeleteVehicle ==
  /\ BodyIsFree({})
  /\ vehicles > 0
  /\ vehicles' = vehicles - 1
  /\ lowered' = (lowered /\ Exceeded(plan, vehicles - 1))
  /\ UNCHANGED <<plan, add, plans, oneReplica>>

\* What a webhook, the reconciliation or a partner grant commits.
ChangePlan(p) ==
  /\ BodyIsFree({})
  /\ p # plan
  /\ plans < MaxPlans
  /\ plan' = p
  /\ plans' = plans + 1
  /\ lowered' = Exceeded(p, vehicles)
  /\ UNCHANGED <<vehicles, add, oneReplica>>

-----------------------------------------------------------------------------
EInit ==
  /\ plan = [tier |-> "free", status |-> "active"]
  /\ vehicles = 0
  /\ add = [r \in Adders |-> NotOpen]
  /\ plans = 0
  /\ oneReplica \in BOOLEAN
  /\ lowered = FALSE

ENext ==
  \/ DeleteVehicle
  \/ \E r \in Adders : ReadLimit(r) \/ Count(r) \/ InsertVehicle(r) \/ Abandon(r)
  \/ \E tier \in Tiers, status \in Status : ChangePlan([tier |-> tier, status |-> status])

ESpec == EInit /\ [][ENext]_evars

-----------------------------------------------------------------------------
(* Properties. *)

\* How many requests may pass the count of another before its insert.
Overshoot == IF oneReplica THEN 0 ELSE Cardinality(Adders) - 1

(***************************************************************************)
(* A group has no more vehicles than its tier allows since the tier last   *)
(* fell below what it had; on several replicas, where the count and the    *)
(* insert of two requests interleave, at most one more for each other      *)
(* request that was open.                                                  *)
(***************************************************************************)
VehiclesKeepToTheLimit == ~lowered => Within(vehicles - Overshoot, VehicleLimit(plan))

(***************************************************************************)
(* On one replica a group whose subscription ended or is unpaid gets no    *)
(* vehicle beyond the free limit, however many it has kept.                *)
(***************************************************************************)
EndedPlansAddNothing ==
  [][oneReplica /\ vehicles' > vehicles
       /\ plan.status \in {"canceled", "unpaid", "incomplete_expired"} =>
         Within(vehicles', Limits["free"])]_evars

=============================================================================
