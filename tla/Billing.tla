------------------------------ MODULE Billing ------------------------------
(***************************************************************************)
(* The subscription of one group (farm): its row in group_subscriptions as *)
(* a mirror of what Stripe has, kept by webhooks, by a daily job and by    *)
(* the platform's partner grants.                                          *)
(*                                                                         *)
(* Stripe is the environment: subscriptions that begin, change plan, fall  *)
(* behind and end, and an event for each change, delivered at least once,  *)
(* late and in any order.  An event only names a subscription; the handler *)
(* asks Stripe for its state, and tells the plan from the price in it if   *)
(* it can; if not, the subscription is recorded with the free tier.        *)
(*                                                                         *)
(* A replica serves one request at a time, since the bodies have no await; *)
(* Stripe changes in between its steps, and so does, at READ COMMITTED,    *)
(* what other replicas commit.  The group and its row are read by two      *)
(* statements, here in one step.                                           *)
(*                                                                         *)
(* Left out: other groups (nothing relates them but the daily job, whose   *)
(* failure for one group is a failure for all), the customer, periods and  *)
(* trials, the catalogue of prices (whether it knows one is open), the     *)
(* audit log, and the mail after a failed payment.                         *)
(***************************************************************************)
EXTENDS FiniteSets, Integers, Tables

CONSTANTS
  Subscriptions,  \* Stripe's subscription ids
  Replicas,
  PaidTiers,      \* the plans sold
  Prices,         \* Stripe's price ids: what a subscription is to
  PlanOf,         \* the plan each price is for
  Settings,       \* bound: the deployments and histories that an instance has
  None            \* NULL

ASSUME NoneAssumption == None \notin Subscriptions
ASSUME TierAssumption == {"free", "partner"} \cap PaidTiers = {}
ASSUME PlanAssumption == PlanOf \in [Prices -> PaidTiers]

\* The replicas deployed, the prices sold and those mapped from the start, and
\* bounds: how often subscriptions change, checkouts begin and requests fail.
ASSUME SettingsAssumption ==
  Settings \subseteq [replicas : SUBSET Replicas, prices : SUBSET Prices, mapped : SUBSET Prices,
                     changes : Nat, checkouts : Nat, faults : Nat]

VARIABLES
  live,           \* the group is not deleted
  billing,        \* its row, with groups.subscription_tier as the field column
  recorded,       \* table billing_events
  checkouts,      \* Stripe: checkout sessions created
  stripe,         \* Stripe: the subscriptions of the group
  mapped,         \* Stripe: prices whose plan can be told from a subscription
  events,         \* Stripe: the events that exist
  req,            \* the request each replica is serving: its session
  cancelFailed,   \* a deletion of the group went on although Stripe refused
  faults,         \* how many requests have failed
  setting         \* fixed

remote == <<checkouts, stripe, mapped, events>>
local == <<live, billing, recorded>>
bvars == <<live, billing, recorded, checkouts, stripe, mapped, events, req,
           cancelFailed, faults, setting>>

replicas == setting.replicas

OneReplica == \A r, q \in replicas : r = q

-----------------------------------------------------------------------------
Tier == PaidTiers \cup {"free", "partner"}

\* "active" stands for trialing and past_due too, which no code here tells
\* apart, and "canceled" for incomplete_expired.
Status == {"active", "unpaid", "canceled"}

Closed == {"unpaid", "canceled"}

BillingRow == [sid : Subscriptions \cup {None}, status : Status, tier : Tier, column : Tier]

NewRow == [sid |-> None, status |-> "active", tier |-> "free", column |-> "free"]

EventType == {"checkout.session.completed", "updated", "deleted"}

Event == [type : EventType, sub : Subscriptions, no : Nat \ {0}]

HasActivePaid == billing.sid # None /\ billing.status = "active" /\ billing.tier # "free"

-----------------------------------------------------------------------------
(* Stripe. *)

ChangesSoFar == Cardinality({e \in events : e.type # "checkout.session.completed"})

\* The event of a change of subscription s, and others sent along with it.
Emit(s, type, others) ==
  /\ ChangesSoFar < setting.changes
  /\ events' = others \cup events \cup {[type |-> type, sub |-> s, no |-> ChangesSoFar + 1]}

\* The customer completes the checkout.
Subscribe(s, price) ==
  /\ s \in checkouts \ DOMAIN stripe
  /\ stripe' = Insert(stripe, s, [status |-> "active", price |-> price])
  /\ Emit(s, "updated", {[type |-> "checkout.session.completed", sub |-> s, no |-> 1]})
  /\ UNCHANGED <<checkouts, mapped>>

\* A missed payment, one made up for, or a change of plan.
ChangeSubscription(s, price, status) ==
  /\ s \in DOMAIN stripe
  /\ stripe[s].status # "canceled"
  /\ status # "canceled"
  /\ stripe[s] # [status |-> status, price |-> price]
  /\ stripe' = [stripe EXCEPT ![s] = [status |-> status, price |-> price]]
  /\ Emit(s, "updated", {})
  /\ UNCHANGED <<checkouts, mapped>>

\* The price gets the metadata it lacked: no event of a subscription tells.
MapPrice(price) ==
  /\ price \notin mapped
  /\ mapped' = mapped \cup {price}
  /\ UNCHANGED <<checkouts, stripe, events>>

Cancel(s) ==
  /\ s \in DOMAIN stripe
  /\ stripe[s].status # "canceled"
  /\ stripe' = [stripe EXCEPT ![s].status = "canceled"]
  /\ Emit(s, "deleted", {})
  /\ UNCHANGED <<checkouts, mapped>>

StripeStep ==
  /\ \/ \E s \in Subscriptions, price \in setting.prices :
          \/ Subscribe(s, price)
          \/ \E status \in Status : ChangeSubscription(s, price, status)
     \/ \E s \in Subscriptions : Cancel(s)
     \/ \E price \in setting.prices : MapPrice(price)
  /\ UNCHANGED <<local, req, cancelFailed, faults>>

-----------------------------------------------------------------------------
(* Requests. *)

Idle == [at |-> "idle"]

Continue(r, session) == req' = [req EXCEPT ![r] = session]

Reply(r) == Continue(r, Idle)

\* Replica r may begin to serve a request.
Free(r) == r \in replicas /\ req[r] = Idle

\* Faulty variant: the event is looked up, not inserted first.
InsertsNothing(e) == FALSE

\* An uncommitted row with the key of e is in the unique index.
Inserted(e) == \E q \in Replicas : req[q].at \in {"retrieve", "load", "commit"} /\ req[q].e = e

\* ORM: the UPDATE holds the columns whose value differs from the loaded one.
Merge(now, loaded, new) ==
  [c \in DOMAIN now |-> IF new[c] # loaded[c] THEN new[c] ELSE now[c]]

\* Faulty variant: only the catalogue is asked.
TiersCatalogued(found) == {PlanOf[found.price], "free"}

\* _tier_from_stripe_subscription: from the metadata of the price or its product;
\* without them, from the catalogue that the process keeps, or not at all.
TiersFound(found) ==
  {PlanOf[found.price]} \cup (IF found.mapped THEN {} ELSE {"free"})

\* Faulty variant: the end of a subscription leaves the plan in the row.
SyncedKeepingTier(s, status, tier, deleted) ==
  IF deleted \/ status \in Closed
    THEN [sid |-> None, status |-> status, tier |-> tier, column |-> tier]
    ELSE [sid |-> s, status |-> status, tier |-> tier, column |-> tier]

\* Faulty variant: the tier column of the group is left for later.
SyncedForgettingColumn(s, status, tier, deleted) ==
  IF deleted \/ status \in Closed
    THEN [sid |-> None, status |-> status, tier |-> "free", column |-> "free"]
    ELSE [sid |-> s, status |-> status, tier |-> tier, column |-> "free"]

\* The row sync_subscription_from_stripe makes of the state found at Stripe.
Synced(s, status, tier, deleted) ==
  IF deleted \/ status \in Closed
    THEN [sid |-> None, status |-> status, tier |-> "free", column |-> "free"]
    ELSE [sid |-> s, status |-> status, tier |-> tier, column |-> tier]

-----------------------------------------------------------------------------
(* Webhooks and reconciliation: retrieve, load, write. *)

\* The checkout event has its row loaded and named before Stripe is asked.
Deliver(r, e) ==
  /\ Free(r)
  /\ e \in events \ recorded
  /\ ~Inserted(e)
  /\ Continue(r, [at |-> "retrieve", e |-> e, s |-> e.sub,
                  loaded |-> IF e.type = "checkout.session.completed" /\ live
                               THEN {billing} ELSE {}])
  /\ UNCHANGED <<local, remote, cancelFailed, faults>>

\* Faulty variant: only rows in good standing are reconciled.
ReconcileActive(r) ==
  /\ Free(r)
  /\ live
  /\ HasActivePaid
  /\ Continue(r, [at |-> "retrieve", e |-> None, s |-> billing.sid, loaded |-> {billing}])
  /\ UNCHANGED <<local, remote, cancelFailed, faults>>

\* A group's own reconciliation, or its part in the daily job.
Reconcile(r) ==
  /\ Free(r)
  /\ live
  /\ billing.sid # None
  /\ Continue(r, [at |-> "retrieve", e |-> None, s |-> billing.sid, loaded |-> {billing}])
  /\ UNCHANGED <<local, remote, cancelFailed, faults>>

\* The object Stripe returns, with its prices.
Found(s) ==
  [status |-> stripe[s].status, price |-> stripe[s].price, mapped |-> stripe[s].price \in mapped]

Retrieve(r) ==
  /\ req[r].at = "retrieve"
  /\ Continue(r, [at |-> "load", e |-> req[r].e, s |-> req[r].s,
                  loaded |-> req[r].loaded, found |-> Found(req[r].s)])
  /\ UNCHANGED <<local, remote, cancelFailed, faults>>

Deletes(e) == e # None /\ e.type = "deleted"

\* An object in the session is not read again.
Load(r) ==
  /\ req[r].at = "load"
  /\ LET q == req[r]
     IN  \E old \in IF q.loaded = {} THEN {billing} ELSE q.loaded :
         \E tier \in TiersFound(q.found) :
           Continue(r, [at |-> "commit", e |-> q.e, loaded |-> old,
                        new |-> IF live THEN Synced(q.s, q.found.status, tier, Deletes(q.e))
                                ELSE IF q.loaded = {} THEN old
                                ELSE [old EXCEPT !.sid = q.s]])
  /\ UNCHANGED <<local, remote, cancelFailed, faults>>

-----------------------------------------------------------------------------
(* Partner grants. *)

\* Faulty variant: a Stripe subscription is no obstacle.
AlwaysGrantable == TRUE

\* Partner tiers are for groups without a Stripe subscription.
Grantable == billing.sid = None

GrantPartner(r) ==
  /\ Free(r)
  /\ live
  /\ Grantable
  /\ billing.tier # "partner"
  /\ Continue(r, [at |-> "commit", e |-> None, loaded |-> billing,
                  new |-> [billing EXCEPT !.tier = "partner", !.status = "active",
                                          !.column = "partner"]])
  /\ UNCHANGED <<local, remote, cancelFailed, faults>>

RevokePartner(r) ==
  /\ Free(r)
  /\ live
  /\ Grantable
  /\ billing.tier = "partner"
  /\ Continue(r, [at |-> "commit", e |-> None, loaded |-> billing,
                  new |-> [billing EXCEPT !.tier = "free", !.status = "active",
                                          !.column = "free"]])
  /\ UNCHANGED <<local, remote, cancelFailed, faults>>

Commit(r) ==
  /\ req[r].at = "commit"
  /\ billing' = Merge(billing, req[r].loaded, req[r].new)
  /\ recorded' = recorded \cup ({req[r].e} \ {None})
  /\ Reply(r)
  /\ UNCHANGED <<live, remote, cancelFailed, faults>>

-----------------------------------------------------------------------------
(* Checkout and deletion of the group. *)

\* The handler writes nothing here; the session at Stripe may be completed at
\* any later time, or never.
Checkout ==
  /\ live
  /\ Subscriptions \ checkouts # {}
  /\ Cardinality(checkouts) < setting.checkouts
  /\ billing.tier # "partner"
  /\ ~HasActivePaid
  /\ checkouts' = checkouts \cup {CHOOSE s \in Subscriptions : s \notin checkouts}
  /\ UNCHANGED <<local, stripe, mapped, events, req, cancelFailed, faults>>

\* Faulty variant: the subscription is left to the next invoice.
DeleteWithoutCancelling(r) ==
  /\ Free(r)
  /\ live
  /\ Continue(r, [at |-> "delete"])
  /\ UNCHANGED <<local, remote, cancelFailed, faults>>

\* The subscription the row names is cancelled at Stripe before the commit; a
\* refusal is only logged.
DeleteGroup(r) ==
  /\ Free(r)
  /\ live
  /\ Continue(r, [at |-> "delete"])
  /\ \/ billing.sid # None /\ Cancel(billing.sid) /\ UNCHANGED cancelFailed
     \/ /\ cancelFailed' = (cancelFailed \/ billing.sid # None)
        /\ UNCHANGED remote
  /\ UNCHANGED <<local, faults>>

CommitDeletion(r) ==
  /\ req[r].at = "delete"
  /\ live' = FALSE
  /\ Reply(r)
  /\ UNCHANGED <<billing, recorded, remote, cancelFailed, faults>>

\* Faulty variant: the event is committed before it is applied.
FailKeepingEvent(r) ==
  /\ req[r] # Idle
  /\ faults < setting.faults
  /\ faults' = faults + 1
  /\ recorded' = recorded \cup
       (IF req[r].at \in {"retrieve", "load", "commit"} THEN {req[r].e} \ {None} ELSE {})
  /\ Reply(r)
  /\ UNCHANGED <<live, billing, remote, cancelFailed>>

\* Stripe does not answer, or the replica dies: the transaction is rolled back.
Fail(r) ==
  /\ req[r] # Idle
  /\ faults < setting.faults
  /\ faults' = faults + 1
  /\ Reply(r)
  /\ UNCHANGED <<local, remote, cancelFailed>>

-----------------------------------------------------------------------------
Init ==
  /\ setting \in Settings
  /\ live = TRUE
  /\ billing = NewRow
  /\ recorded = {}
  /\ checkouts = {}
  /\ stripe = EmptyTable
  /\ mapped = setting.mapped
  /\ events = {}
  /\ req = [r \in Replicas |-> Idle]
  /\ cancelFailed = FALSE
  /\ faults = 0

Serve(r) == Retrieve(r) \/ Load(r) \/ Commit(r) \/ CommitDeletion(r)

DeliverSome == \E r \in Replicas, e \in events : Deliver(r, e)

ReconcileSome == \E r \in Replicas : Reconcile(r)

Next ==
  /\ \/ StripeStep
     \/ DeliverSome
     \/ ReconcileSome
     \/ Checkout
     \/ \E r \in Replicas : \/ GrantPartner(r) \/ RevokePartner(r) \/ DeleteGroup(r)
                            \/ Serve(r) \/ Fail(r)
  /\ UNCHANGED setting

Spec == Init /\ [][Next]_bvars

\* A request goes on once begun.  Stripe delivers an event until it is answered
\* with 200, and the daily job comes again every day.
Fairness ==
  /\ \A r \in Replicas : WF_bvars(Serve(r) /\ UNCHANGED setting)
  /\ SF_bvars(DeliverSome /\ UNCHANGED setting)
  /\ SF_bvars(ReconcileSome /\ UNCHANGED setting)

FairSpec == Spec /\ Fairness

-----------------------------------------------------------------------------
(* Properties. *)

TypeOK ==
  /\ live \in BOOLEAN
  /\ billing \in BillingRow
  /\ recorded \subseteq events
  /\ mapped \subseteq Prices
  /\ events \subseteq Event
  /\ checkouts \subseteq Subscriptions
  /\ IsTable(stripe, checkouts, [status : Status, price : Prices])
  /\ \A r \in Replicas : req[r].at \in {"idle", "retrieve", "load", "commit", "delete"}

(***************************************************************************)
(* On one replica the row is of one piece, whatever checkouts, events and  *)
(* grants cross: it has a paid tier only of a subscription that it names,  *)
(* one that it names is open and leaves no room for a partner tier, and    *)
(* the tier column of the group is that of the row.                        *)
(***************************************************************************)
RowIsWhole ==
  OneReplica =>
    /\ billing.tier \in PaidTiers => billing.sid # None
    /\ billing.sid # None => billing.status \notin Closed /\ billing.tier # "partner"
    /\ billing.column = billing.tier

(***************************************************************************)
(* An event delivered twice, at once on two replicas, or again after a     *)
(* failure is applied once.                                                *)
(***************************************************************************)
EventsApplyOnce ==
  [][\A r \in Replicas :
       req[r].at = "commit" /\ req[r].e # None /\ req'[r] = Idle /\ faults' = faults =>
         req[r].e \notin recorded]_bvars

(***************************************************************************)
(* On one replica the subscription a deleted group had is cancelled at     *)
(* Stripe, unless Stripe refused, which it does if it is over already.     *)
(***************************************************************************)
DeletedGroupsStopPaying ==
  OneReplica /\ ~live /\ ~cancelFailed /\ billing.sid # None =>
    stripe[billing.sid].status = "canceled"

(***************************************************************************)
(* Once Stripe comes to rest, the row of a live group that names a         *)
(* subscription says of it what Stripe says, on any number of replicas and *)
(* in spite of late events, failures and rows written in part; the name of *)
(* one that is over goes.  The tier is that of the price, if the price is  *)
(* mapped, since when and by whatever event or none: then the daily job    *)
(* alone must find it.  If it is not, the tier is that or the free one.    *)
(***************************************************************************)
Mirrors(s) ==
  /\ stripe[s].status \notin Closed
  /\ billing.sid = s
  /\ billing.status = stripe[s].status
  /\ \/ billing.tier = PlanOf[stripe[s].price]
     \/ billing.tier = "free" /\ stripe[s].price \notin mapped

NamedSubscriptionConverges == <>[](live /\ billing.sid # None => Mirrors(billing.sid))

(***************************************************************************)
(* On one replica a live group that only ever had one subscription ends up *)
(* with it in its row, mirrored as above, while it is open, and without a  *)
(* paid tier after.                                                        *)
(***************************************************************************)
Settled(s) ==
  IF stripe[s].status \in Closed THEN billing.sid = None /\ billing.tier \notin PaidTiers
                                 ELSE Mirrors(s)

SingleSubscriptionConverges ==
  <>[](OneReplica /\ live => \A s \in DOMAIN stripe : DOMAIN stripe = {s} => Settled(s))

(***************************************************************************)
(* What the documentation says of a partner tier: webhooks do not          *)
(* overwrite it.                                                           *)
(***************************************************************************)
StripeKeepsPartners ==
  [][\A r \in Replicas :
       req[r].at = "commit" /\ req[r].e # None /\ billing.tier = "partner" =>
         billing'.tier = "partner"]_bvars

=============================================================================
