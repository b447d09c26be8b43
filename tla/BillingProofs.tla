--------------------------- MODULE BillingProofs ---------------------------
(***************************************************************************)
(* Theorems about Billing, for any number of subscriptions, replicas and   *)
(* plans, and histories of any length.                                     *)
(***************************************************************************)
EXTENDS Billing, FiniteSetTheorems, TLAPS

-----------------------------------------------------------------------------
(* The inductive invariant. *)

AtStripe == [status : Status, price : Prices]

Returned == [status : Status, price : Prices, mapped : BOOLEAN]

Request ==
  {Idle, [at |-> "delete"]}
    \cup [at : {"retrieve"}, e : Event \cup {None}, s : Subscriptions,
          loaded : SUBSET BillingRow]
    \cup [at : {"load"}, e : Event \cup {None}, s : Subscriptions,
          loaded : SUBSET BillingRow, found : Returned]
    \cup [at : {"commit"}, e : Event \cup {None}, loaded : BillingRow, new : BillingRow]

BTypeOK ==
  /\ TypeOK
  /\ req \in [Replicas -> Request]
  /\ IsFiniteSet(events)
  /\ cancelFailed \in BOOLEAN
  /\ setting \in Settings

Known == DOMAIN stripe \cup {None}

\* What the row and the events name exists at Stripe.
NamesAreKnown ==
  /\ billing.sid \in Known
  /\ \A e \in events : e.sub \in DOMAIN stripe

Whole(row) ==
  /\ row.tier \in PaidTiers => row.sid # None
  /\ row.sid # None => row.status \notin Closed /\ row.tier # "partner"
  /\ row.column = row.tier

Working == {"retrieve", "load", "commit"}

\* What replica r has in hand when its request is q.  On one replica nothing
\* else is served, so that what it has loaded still is the row.
Fits(r, q) ==
  /\ q # Idle => r \in replicas
  /\ q.at \in {"retrieve", "load"} => q.s \in DOMAIN stripe
  /\ q.at = "commit" => q.new.sid \in Known
  /\ q.at \in Working /\ q.e # None => q.e \in events \ recorded
  /\ OneReplica =>
       /\ q.at \in {"retrieve", "load"} =>
            q.loaded \subseteq {billing} /\ (q.loaded # {} => live)
       /\ q.at = "commit" => q.loaded = billing /\ Whole(q.new) /\ (live \/ q.new = billing)
       /\ (q.at = "delete" /\ ~cancelFailed /\ billing.sid # None) =>
            stripe[billing.sid].status = "canceled"

\* Two requests never have the same event in hand.
EventsAreApart ==
  \A q, r \in Replicas :
    (/\ req[q].at \in Working /\ req[r].at \in Working
     /\ req[q].e = req[r].e /\ req[r].e # None) => q = r

BInv ==
  /\ BTypeOK
  /\ NamesAreKnown
  /\ \A r \in Replicas : Fits(r, req[r])
  /\ EventsAreApart
  /\ RowIsWhole
  /\ DeletedGroupsStopPaying

-----------------------------------------------------------------------------
(* Rows and requests. *)

\* Writing the changed columns makes a row of what was there and what is new.
LEMMA MergeType ==
  ASSUME NEW now \in BillingRow, NEW loaded \in BillingRow, NEW new \in BillingRow
  PROVE  /\ Merge(now, loaded, new) \in BillingRow
         /\ Merge(now, loaded, new).sid \in {now.sid, new.sid}
  BY DEF Merge, BillingRow

\* Over the row as it was loaded, that is the new row.
LEMMA MergeLoaded ==
  ASSUME NEW now \in BillingRow, NEW new \in BillingRow
  PROVE  Merge(now, now, new) = new
  BY DEF Merge, BillingRow

\* The fields of a request.
LEMMA RequestFields ==
  ASSUME NEW q \in Request
  PROVE  /\ q.at \in {"idle", "retrieve", "load", "commit", "delete"}
         /\ q.at = "idle" <=> q = Idle
         /\ q.at \in Working => q.e \in Event \cup {None}
         /\ q.at \in {"retrieve", "load"} => q.s \in Subscriptions /\ q.loaded \subseteq BillingRow
         /\ q.at = "load" => q.found \in Returned
         /\ q.at = "commit" => q.loaded \in BillingRow /\ q.new \in BillingRow
  BY DEF Request, Idle, Working

\* The prices of a setting are prices.
LEMMA SettingPrices ==
  ASSUME BTypeOK
  PROVE  setting.prices \subseteq Prices /\ setting.mapped \subseteq Prices
  BY SettingsAssumption DEF BTypeOK

\* On one replica one request is served at a time.
LEMMA OneIsServed ==
  ASSUME BInv, OneReplica, NEW q \in Replicas, NEW r \in Replicas,
         req[q] # Idle, req[r] # Idle
  PROVE  q = r
  BY DEF BInv, Fits, OneReplica, replicas

-----------------------------------------------------------------------------
(* What Stripe may do meanwhile: subscriptions and events are added, and     *)
(* what is cancelled stays so.                                               *)

StripeTypeOK ==
  /\ events \subseteq Event
  /\ IsFiniteSet(events)
  /\ checkouts \subseteq Subscriptions
  /\ mapped \subseteq Prices
  /\ IsTable(stripe, checkouts, AtStripe)

Grows ==
  /\ StripeTypeOK'
  /\ DOMAIN stripe \subseteq DOMAIN stripe'
  /\ events \subseteq events'
  /\ \A e \in events' : e.sub \in DOMAIN stripe'
  /\ \A s \in DOMAIN stripe : stripe[s].status = "canceled" => stripe'[s].status = "canceled"

\* An event about subscription s, and maybe the one of its checkout, is an event.
LEMMA EmitTypes ==
  ASSUME StripeTypeOK, NEW s \in Subscriptions, NEW type \in EventType,
         NEW others \in SUBSET [type : EventType, sub : {s}, no : {1}], IsFiniteSet(others),
         Emit(s, type, others)
  PROVE  /\ events' \subseteq Event
         /\ IsFiniteSet(events')
         /\ events \subseteq events'
         /\ \A e \in events' : e \in events \/ e.sub = s
  <1> DEFINE changes == {e \in events : e.type # "checkout.session.completed"}
             new == [type |-> type, sub |-> s, no |-> ChangesSoFar + 1]
  <1>1. IsFiniteSet(changes) BY FS_Subset DEF StripeTypeOK
  <1>2. ChangesSoFar \in Nat BY <1>1, FS_CardinalityType DEF ChangesSoFar
  <1>3. events' = (others \cup events) \cup {new} BY DEF Emit
  <1>4. ChangesSoFar + 1 \in Nat \ {0} /\ 1 \in Nat \ {0} BY <1>2
  <1>5. new \in Event BY <1>4 DEF Event
  <1>6. others \subseteq Event BY <1>4 DEF Event
  <1>7. IsFiniteSet(others \cup events) BY FS_Union DEF StripeTypeOK
  <1>8. IsFiniteSet((others \cup events) \cup {new}) BY <1>7, FS_AddElement
  <1>9. \A e \in others : e.sub = s OBVIOUS
  <1>10. new.sub = s OBVIOUS
  <1> HIDE DEF new
  <1>11. QED BY <1>3, <1>5, <1>6, <1>8, <1>9, <1>10 DEF StripeTypeOK

LEMMA CancelGrows ==
  ASSUME StripeTypeOK, NamesAreKnown, NEW s \in Subscriptions, Cancel(s)
  PROVE  Grows
  <1>1. Emit(s, "deleted", {}) /\ s \in DOMAIN stripe /\ checkouts' = checkouts /\ mapped' = mapped
    BY DEF Cancel
  <1>2. stripe' = [stripe EXCEPT ![s].status = "canceled"] BY DEF Cancel
  <1>3. /\ events' \subseteq Event /\ IsFiniteSet(events') /\ events \subseteq events'
        /\ \A e \in events' : e \in events \/ e.sub = s
    BY <1>1, EmitTypes, FS_EmptySet DEF EventType
  <1>4. stripe[s] \in AtStripe BY <1>1 DEF StripeTypeOK, IsTable
  <1>5. [stripe[s] EXCEPT !.status = "canceled"] \in AtStripe
    BY <1>4 DEF AtStripe, Status
  <1>6. [stripe[s] EXCEPT !.status = "canceled"].status = "canceled" BY <1>4 DEF AtStripe
  <1>7. /\ IsTable(stripe', checkouts, AtStripe) /\ DOMAIN stripe' = DOMAIN stripe
        /\ stripe'[s].status = "canceled"
        /\ \A k \in DOMAIN stripe : k # s => stripe'[k] = stripe[k]
    BY <1>1, <1>2, <1>4, <1>5, <1>6 DEF StripeTypeOK, IsTable
  <1>8. StripeTypeOK' BY <1>1, <1>3, <1>7
    DEF StripeTypeOK, AtStripe, Status, Event, EventType
  <1>9. \A e \in events' : e.sub \in DOMAIN stripe' BY <1>1, <1>3, <1>7 DEF NamesAreKnown
  <1>10. QED BY <1>3, <1>7, <1>8, <1>9 DEF Grows

LEMMA SubscribeGrows ==
  ASSUME StripeTypeOK, NamesAreKnown, NEW s \in Subscriptions, NEW price \in Prices,
         Subscribe(s, price)
  PROVE  Grows
  <1> DEFINE first == [type |-> "checkout.session.completed", sub |-> s, no |-> 1]
  <1>1. /\ Emit(s, "updated", {first})
        /\ s \in checkouts \ DOMAIN stripe
        /\ checkouts' = checkouts /\ mapped' = mapped
        /\ stripe' = Insert(stripe, s, [status |-> "active", price |-> price])
    BY DEF Subscribe
  <1>2. /\ events' \subseteq Event /\ IsFiniteSet(events') /\ events \subseteq events'
        /\ \A e \in events' : e \in events \/ e.sub = s
    <2>1. {first} \in SUBSET [type : EventType, sub : {s}, no : {1}] BY DEF EventType
    <2>2. IsFiniteSet({first}) BY FS_Singleton
    <2>3. "updated" \in EventType BY DEF EventType
    <2> HIDE DEF first
    <2>4. QED BY <1>1, <2>1, <2>2, <2>3, EmitTypes
  <1>3. [status |-> "active", price |-> price] \in AtStripe BY DEF AtStripe, Status
  <1>4. /\ IsTable(stripe', checkouts, AtStripe)
        /\ DOMAIN stripe' = DOMAIN stripe \cup {s}
        /\ \A k \in DOMAIN stripe : stripe'[k] = stripe[k]
    BY <1>1, <1>3 DEF StripeTypeOK, IsTable, Insert
  <1>5. StripeTypeOK' BY <1>1, <1>2, <1>4
    DEF StripeTypeOK, AtStripe, Status, Event, EventType
  <1>6. \A e \in events' : e.sub \in DOMAIN stripe' BY <1>1, <1>2, <1>4 DEF NamesAreKnown
  <1>7. QED BY <1>1, <1>2, <1>4, <1>5, <1>6 DEF Grows

LEMMA ChangeGrows ==
  ASSUME StripeTypeOK, NamesAreKnown, NEW s \in Subscriptions, NEW price \in Prices,
         NEW status \in Status, ChangeSubscription(s, price, status)
  PROVE  Grows
  <1>1. /\ Emit(s, "updated", {}) /\ s \in DOMAIN stripe /\ checkouts' = checkouts /\ mapped' = mapped
        /\ stripe[s].status # "canceled"
        /\ stripe' = [stripe EXCEPT ![s] = [status |-> status, price |-> price]]
    BY DEF ChangeSubscription
  <1>2. /\ events' \subseteq Event /\ IsFiniteSet(events') /\ events \subseteq events'
        /\ \A e \in events' : e \in events \/ e.sub = s
    BY <1>1, EmitTypes, FS_EmptySet DEF EventType
  <1>3. [status |-> status, price |-> price] \in AtStripe BY DEF AtStripe
  <1>4. /\ IsTable(stripe', checkouts, AtStripe) /\ DOMAIN stripe' = DOMAIN stripe
        /\ \A k \in DOMAIN stripe : k # s => stripe'[k] = stripe[k]
    BY <1>1, <1>3 DEF StripeTypeOK, IsTable
  <1>5. StripeTypeOK' BY <1>1, <1>2, <1>4
    DEF StripeTypeOK, AtStripe, Status, Event, EventType
  <1>6. \A e \in events' : e.sub \in DOMAIN stripe' BY <1>1, <1>2, <1>4 DEF NamesAreKnown
  <1>7. QED BY <1>1, <1>2, <1>4, <1>5, <1>6 DEF Grows

\* Prices change no subscription.
LEMMA MapGrows ==
  ASSUME StripeTypeOK, NamesAreKnown, NEW price \in Prices, MapPrice(price)
  PROVE  Grows
  BY DEF MapPrice, Grows, StripeTypeOK, NamesAreKnown

\* Another checkout leaves subscriptions and events alone.
LEMMA CheckoutGrows ==
  ASSUME StripeTypeOK, NamesAreKnown, Checkout
  PROVE  Grows
  <1>1. /\ Subscriptions \ checkouts # {}
        /\ checkouts' = checkouts \cup {CHOOSE s \in Subscriptions : s \notin checkouts}
        /\ UNCHANGED <<stripe, mapped, events>>
    BY DEF Checkout
  <1>2. (CHOOSE s \in Subscriptions : s \notin checkouts) \in Subscriptions BY <1>1
  <1>3. checkouts' \subseteq Subscriptions BY <1>1, <1>2 DEF StripeTypeOK
  <1>4. IsTable(stripe', checkouts', AtStripe) BY <1>1 DEF StripeTypeOK, IsTable
  <1>5. QED BY <1>1, <1>3, <1>4 DEF Grows, StripeTypeOK, NamesAreKnown

\* Stripe at rest grows, too.
LEMMA RestGrows ==
  ASSUME StripeTypeOK, NamesAreKnown, UNCHANGED remote
  PROVE  Grows
  BY DEF remote, Grows, StripeTypeOK, NamesAreKnown

-----------------------------------------------------------------------------
(* Steps. *)

\* Where the group, its row and the events applied stay, so does what each
\* request has in hand.
LEMMA FitsStays ==
  ASSUME BInv, Grows, UNCHANGED <<live, billing, recorded, setting>>,
         cancelFailed => cancelFailed', NEW r, NEW q, Fits(r, q)
  PROVE  Fits(r, q)'
  BY DEF BInv, BTypeOK, Fits, Grows, Known, NamesAreKnown, OneReplica, replicas

\* The request of a replica may be given a name.
LEMMA FitsNamed ==
  ASSUME NEW r, NEW q
  PROVE  /\ q = req[r] => (Fits(r, q) <=> Fits(r, req[r]))
         /\ q = req'[r] => (Fits(r, q)' <=> Fits(r, req[r])')
  BY DEF Fits

\* The rest of the invariant, too.
LEMMA RestStays ==
  ASSUME BInv, Grows, UNCHANGED <<live, billing, recorded, setting>>,
         cancelFailed => cancelFailed', cancelFailed' \in BOOLEAN,
         req' \in [Replicas -> Request]
  PROVE  (BTypeOK /\ NamesAreKnown /\ RowIsWhole /\ DeletedGroupsStopPaying)'
  <1>1. TypeOK'
    <2>1. \A r \in Replicas : req'[r].at \in {"idle", "retrieve", "load", "commit", "delete"}
      BY RequestFields
    <2>2. QED BY <2>1 DEF BInv, BTypeOK, TypeOK, Grows, StripeTypeOK, AtStripe
  <1>2. BTypeOK' BY <1>1 DEF BInv, BTypeOK, Grows, StripeTypeOK
  <1>3. NamesAreKnown' BY DEF BInv, NamesAreKnown, Known, Grows
  <1>4. RowIsWhole' BY DEF BInv, RowIsWhole, OneReplica, replicas
  <1>5. DeletedGroupsStopPaying'
    BY DEF BInv, DeletedGroupsStopPaying, OneReplica, replicas, NamesAreKnown, Known, Grows
  <1>6. QED BY <1>2, <1>3, <1>4, <1>5

\* A request that goes on, on whatever Stripe does meanwhile.
LEMMA ContinueInv ==
  ASSUME BInv, Grows, UNCHANGED <<live, billing, recorded, setting>>,
         cancelFailed => cancelFailed', cancelFailed' \in BOOLEAN,
         NEW r \in Replicas, NEW q \in Request, Continue(r, q), Fits(r, q)',
         q.at \in Working /\ q.e # None =>
           (req[r].at \in Working /\ q.e = req[r].e) \/ ~Inserted(q.e)
  PROVE  BInv'
  <1>1. req' = [req EXCEPT ![r] = q] /\ req \in [Replicas -> Request]
    BY DEF Continue, BInv, BTypeOK
  <1>2. req' \in [Replicas -> Request] BY <1>1
  <1>3. (\A p \in Replicas : Fits(p, req[p]))'
    <2> SUFFICES ASSUME NEW p \in Replicas, NEW k, k = req'[p]
                 PROVE  Fits(p, k)'
      BY FitsNamed
    <2>1. CASE p = r BY <2>1, <1>1
    <2>2. CASE p # r
      <3>1. k = req[p] BY <2>2, <1>1
      <3>2. Fits(p, k) BY <3>1, FitsNamed DEF BInv
      <3>3. QED BY <3>2, FitsStays
    <2>3. QED BY <2>1, <2>2
  <1>4. EventsAreApart'
    <2> SUFFICES ASSUME NEW p \in Replicas, req[p].at \in Working, req[p].e = q.e, p # r,
                        q.at \in Working, q.e # None
                 PROVE  FALSE
      BY <1>1 DEF BInv, EventsAreApart
    <2>1. CASE req[r].at \in Working /\ q.e = req[r].e
      BY <2>1 DEF BInv, EventsAreApart
    <2>2. CASE ~Inserted(q.e) BY <2>2 DEF Inserted, Working
    <2>3. QED BY <2>1, <2>2
  <1>5. QED BY <1>2, <1>3, <1>4, RestStays DEF BInv

\* Stripe by itself.
LEMMA StripeInv ==
  ASSUME BInv, Grows, UNCHANGED <<local, req, cancelFailed, setting>>
  PROVE  BInv'
  <1>1. /\ UNCHANGED <<live, billing, recorded, setting>>
        /\ req' = req /\ req \in [Replicas -> Request]
        /\ cancelFailed' = cancelFailed /\ cancelFailed \in BOOLEAN
    BY DEF local, BInv, BTypeOK
  <1>2. (\A p \in Replicas : Fits(p, req[p]))'
    <2> SUFFICES ASSUME NEW p \in Replicas, NEW k, k = req'[p]
                 PROVE  Fits(p, k)'
      BY FitsNamed
    <2>1. Fits(p, k) BY <1>1, FitsNamed DEF BInv
    <2>2. QED BY <1>1, <2>1, FitsStays
  <1>3. EventsAreApart' BY <1>1 DEF BInv, EventsAreApart
  <1>4. QED BY <1>1, <1>2, <1>3, RestStays DEF BInv

\* Requests of each kind are requests.
LEMMA AreRequests ==
  /\ Idle \in Request /\ [at |-> "delete"] \in Request
  /\ \A e \in Event \cup {None}, s \in Subscriptions, loaded \in SUBSET BillingRow :
       /\ [at |-> "retrieve", e |-> e, s |-> s, loaded |-> loaded] \in Request
       /\ \A found \in Returned :
            [at |-> "load", e |-> e, s |-> s, loaded |-> loaded, found |-> found] \in Request
  /\ \A e \in Event \cup {None}, old, new \in BillingRow :
       [at |-> "commit", e |-> e, loaded |-> old, new |-> new] \in Request
  <1>1. Idle \in Request /\ [at |-> "delete"] \in Request BY DEF Request
  <1>2. ASSUME NEW e \in Event \cup {None}, NEW s \in Subscriptions,
               NEW loaded \in SUBSET BillingRow
        PROVE  [at |-> "retrieve", e |-> e, s |-> s, loaded |-> loaded] \in Request
    BY DEF Request
  <1>3. ASSUME NEW e \in Event \cup {None}, NEW s \in Subscriptions,
               NEW loaded \in SUBSET BillingRow, NEW found \in Returned
        PROVE  [at |-> "load", e |-> e, s |-> s, loaded |-> loaded, found |-> found] \in Request
    BY DEF Request
  <1>4. ASSUME NEW e \in Event \cup {None}, NEW old \in BillingRow, NEW new \in BillingRow
        PROVE  [at |-> "commit", e |-> e, loaded |-> old, new |-> new] \in Request
    BY DEF Request
  <1>5. QED BY <1>1, <1>2, <1>3, <1>4

\* A step of a request that Stripe and the group's row do not share in.
LEMMA QuietInv ==
  ASSUME BInv, UNCHANGED <<local, remote, cancelFailed, setting>>,
         NEW r \in Replicas, NEW q \in Request, Continue(r, q), Fits(r, q),
         q.at \in Working /\ q.e # None =>
           (req[r].at \in Working /\ q.e = req[r].e) \/ ~Inserted(q.e)
  PROVE  BInv'
  <1>1. StripeTypeOK /\ NamesAreKnown
    BY DEF BInv, BTypeOK, TypeOK, StripeTypeOK, AtStripe
  <1>2. Grows BY <1>1, RestGrows
  <1>3. /\ UNCHANGED <<live, billing, recorded, setting>>
        /\ cancelFailed' = cancelFailed /\ cancelFailed \in BOOLEAN
    BY DEF local, BInv, BTypeOK
  <1>4. Fits(r, q)' BY <1>2, <1>3, FitsStays
  <1>5. QED BY <1>2, <1>3, <1>4, ContinueInv

LEMMA DeliverInv ==
  ASSUME BInv, UNCHANGED setting, NEW r \in Replicas, NEW e \in Event, Deliver(r, e)
  PROVE  BInv'
  <1> DEFINE loads == IF e.type = "checkout.session.completed" /\ live THEN {billing} ELSE {}
  <1> SUFFICES ASSUME NEW loaded, loaded = loads PROVE BInv'
    OBVIOUS
  <1> DEFINE q == [at |-> "retrieve", e |-> e, s |-> e.sub, loaded |-> loaded]
  <1>1. /\ Continue(r, q) /\ r \in replicas /\ e \in events \ recorded /\ ~Inserted(e)
        /\ UNCHANGED <<local, remote, cancelFailed, faults>>
    BY DEF Deliver, Free
  <1>2. loaded \subseteq {billing} /\ (loaded # {} => live) /\ loaded \in SUBSET BillingRow
    BY DEF BInv, BTypeOK, TypeOK
  <1>3. e.sub \in Subscriptions /\ e.sub \in DOMAIN stripe
    BY <1>1 DEF Event, BInv, NamesAreKnown
  <1>4. q \in Request BY <1>2, <1>3, AreRequests
  <1>5. Fits(r, q) BY <1>1, <1>2, <1>3 DEF Fits, Working
  <1>6. q.e = e OBVIOUS
  <1> HIDE DEF q
  <1>7. QED BY <1>1, <1>4, <1>5, <1>6, QuietInv

LEMMA ReconcileInv ==
  ASSUME BInv, UNCHANGED setting, NEW r \in Replicas, Reconcile(r)
  PROVE  BInv'
  <1> SUFFICES ASSUME NEW row, row = billing PROVE BInv'
    OBVIOUS
  <1> DEFINE q == [at |-> "retrieve", e |-> None, s |-> row.sid, loaded |-> {row}]
  <1>1. /\ Continue(r, q) /\ r \in replicas /\ live /\ row.sid # None
        /\ UNCHANGED <<local, remote, cancelFailed, faults>>
    BY DEF Reconcile, Free
  <1>2. row \in BillingRow /\ row.sid \in Subscriptions /\ row.sid \in DOMAIN stripe
    BY <1>1 DEF BInv, BTypeOK, TypeOK, BillingRow, NamesAreKnown, Known
  <1>3. q \in Request BY <1>2, AreRequests
  <1>4. Fits(r, q) BY <1>1, <1>2 DEF Fits, Working
  <1>5. q.e = None OBVIOUS
  <1> HIDE DEF q
  <1>6. QED BY <1>1, <1>3, <1>4, <1>5, QuietInv

LEMMA RetrieveInv ==
  ASSUME BInv, UNCHANGED setting, NEW r \in Replicas, Retrieve(r)
  PROVE  BInv'
  <1> SUFFICES ASSUME NEW p, p = req[r], NEW found, found = Found(p.s) PROVE BInv'
    OBVIOUS
  <1> DEFINE q == [at |-> "load", e |-> p.e, s |-> p.s, loaded |-> p.loaded, found |-> found]
  <1>1. /\ Continue(r, q) /\ p.at = "retrieve"
        /\ UNCHANGED <<local, remote, cancelFailed, faults>>
    BY DEF Retrieve
  <1>2. p \in Request /\ Fits(r, p) BY FitsNamed DEF BInv, BTypeOK
  <1>3. p.e \in Event \cup {None} /\ p.s \in Subscriptions /\ p.loaded \subseteq BillingRow
    BY <1>1, <1>2, RequestFields DEF Working
  <1>4. p.s \in DOMAIN stripe BY <1>1, <1>2 DEF Fits
  <1>5. found \in Returned BY <1>4 DEF BInv, BTypeOK, TypeOK, IsTable, Found, Returned
  <1>6. q \in Request BY <1>3, <1>5, AreRequests
  <1>7. Fits(r, q) BY <1>1, <1>2 DEF Fits, Working, Idle
  <1>8. req[r].at \in Working /\ q.e = req[r].e BY <1>1 DEF Working
  <1> HIDE DEF q
  <1>9. QED BY <1>1, <1>6, <1>7, <1>8, QuietInv

\* What a subscription in either state makes of the row is whole.
LEMMA SyncedIsWhole ==
  ASSUME NEW s \in Subscriptions, NEW status \in Status,
         NEW tier \in PaidTiers \cup {"free"}, NEW deleted \in BOOLEAN
  PROVE  /\ Synced(s, status, tier, deleted) \in BillingRow
         /\ Synced(s, status, tier, deleted).sid \in {s, None}
         /\ Whole(Synced(s, status, tier, deleted))
  BY NoneAssumption, TierAssumption
  DEF Synced, BillingRow, Whole, Status, Closed, Tier

\* The tier found is a plan sold, or the free one.
LEMMA TiersAreFound ==
  ASSUME NEW found \in Returned
  PROVE  TiersFound(found) \subseteq PaidTiers \cup {"free"}
  BY PlanAssumption DEF TiersFound, Returned

LEMMA LoadInv ==
  ASSUME BInv, UNCHANGED setting, NEW r \in Replicas, Load(r)
  PROVE  BInv'
  <1> SUFFICES ASSUME NEW p, p = req[r] PROVE BInv'
    OBVIOUS
  <1>1. /\ p.at = "load"
        /\ UNCHANGED <<local, remote, cancelFailed, faults>>
    BY DEF Load
  <1>2. p \in Request /\ Fits(r, p) BY FitsNamed DEF BInv, BTypeOK
  <1>3. /\ p.e \in Event \cup {None} /\ p.s \in Subscriptions
        /\ p.loaded \subseteq BillingRow /\ p.found \in Returned
        /\ p.found.status \in Status
    BY <1>1, <1>2, RequestFields DEF Working, Returned
  <1>4. PICK old \in IF p.loaded = {} THEN {billing} ELSE p.loaded,
             tier \in TiersFound(p.found) :
          Continue(r, [at |-> "commit", e |-> p.e, loaded |-> old,
                       new |-> IF live THEN Synced(p.s, p.found.status, tier, Deletes(p.e))
                               ELSE IF p.loaded = {} THEN old
                               ELSE [old EXCEPT !.sid = p.s]])
    BY DEF Load
  <1>5. PICK new : new = IF live THEN Synced(p.s, p.found.status, tier, Deletes(p.e))
                         ELSE IF p.loaded = {} THEN old
                         ELSE [old EXCEPT !.sid = p.s]
    OBVIOUS
  <1>15. tier \in PaidTiers \cup {"free"} BY <1>3, TiersAreFound
  <1>6. old \in BillingRow BY <1>3 DEF BInv, BTypeOK, TypeOK
  <1>7. p.s \in DOMAIN stripe /\ billing.sid \in Known
    BY <1>1, <1>2 DEF Fits, BInv, NamesAreKnown
  <1>8. new \in BillingRow /\ new.sid \in Known
    <2>1. CASE live
      <3>1. Deletes(p.e) \in BOOLEAN BY DEF Deletes
      <3>2. QED BY <2>1, <3>1, <1>3, <1>5, <1>7, <1>15, SyncedIsWhole DEF Known
    <2>2. CASE ~live /\ p.loaded = {} BY <2>2, <1>5, <1>6, <1>7
    <2>3. CASE ~live /\ p.loaded # {}
      BY <2>3, <1>3, <1>5, <1>6, <1>7 DEF BillingRow, Known
    <2>4. QED BY <2>1, <2>2, <2>3
  <1>9. ASSUME OneReplica PROVE old = billing /\ Whole(new) /\ (live \/ new = billing)
    <2>1. p.loaded \subseteq {billing} /\ (p.loaded # {} => live)
      BY <1>1, <1>2, <1>9 DEF Fits
    <2>2. old = billing BY <2>1
    <2>3. CASE live
      <3>1. Deletes(p.e) \in BOOLEAN BY DEF Deletes
      <3>2. QED BY <2>2, <2>3, <3>1, <1>3, <1>5, <1>15, SyncedIsWhole
    <2>4. CASE ~live
      <3>1. new = billing BY <2>1, <2>2, <2>4, <1>5
      <3>2. Whole(billing) BY <1>9 DEF BInv, RowIsWhole, Whole
      <3>3. QED BY <2>2, <3>1, <3>2
    <2>5. QED BY <2>3, <2>4
  <1> DEFINE q == [at |-> "commit", e |-> p.e, loaded |-> old, new |-> new]
  <1>10. q \in Request BY <1>3, <1>6, <1>8, AreRequests
  <1>11. Fits(r, q)
    BY <1>1, <1>2, <1>8, <1>9 DEF Fits, Working, Idle
  <1>12. Continue(r, q) BY <1>4, <1>5
  <1>13. req[r].at \in Working /\ q.e = req[r].e BY <1>1 DEF Working
  <1> HIDE DEF q
  <1>14. QED BY <1>1, <1>10, <1>11, <1>12, <1>13, QuietInv

\* A grant or a revocation writes a row without a subscription.
LEMMA GrantInv ==
  ASSUME BInv, UNCHANGED setting, NEW r \in Replicas, GrantPartner(r) \/ RevokePartner(r)
  PROVE  BInv'
  <1> SUFFICES ASSUME NEW row, row = billing PROVE BInv'
    OBVIOUS
  <1>1. PICK tier \in {"partner", "free"} :
          Continue(r, [at |-> "commit", e |-> None, loaded |-> row,
                       new |-> [row EXCEPT !.tier = tier, !.status = "active",
                                           !.column = tier]])
    BY DEF GrantPartner, RevokePartner
  <1>2. /\ r \in replicas /\ live /\ row.sid = None
        /\ UNCHANGED <<local, remote, cancelFailed, faults>>
    BY DEF GrantPartner, RevokePartner, Free, Grantable
  <1>3. PICK new : new = [row EXCEPT !.tier = tier, !.status = "active", !.column = tier]
    OBVIOUS
  <1>4. row \in BillingRow BY DEF BInv, BTypeOK, TypeOK
  <1>5. /\ new.sid = None /\ new.tier = tier /\ new.column = tier
        /\ new \in BillingRow
    BY <1>2, <1>3, <1>4 DEF BillingRow, Status, Tier
  <1>6. Whole(new) BY <1>5, TierAssumption DEF Whole
  <1> DEFINE q == [at |-> "commit", e |-> None, loaded |-> row, new |-> new]
  <1>7. q \in Request BY <1>4, <1>5, AreRequests
  <1>8. Fits(r, q) BY <1>2, <1>5, <1>6 DEF Fits, Working, Known
  <1>9. Continue(r, q) /\ q.e = None BY <1>1, <1>3
  <1> HIDE DEF q
  <1>10. QED BY <1>2, <1>7, <1>8, <1>9, QuietInv

LEMMA FailInv ==
  ASSUME BInv, UNCHANGED setting, NEW r \in Replicas, Fail(r)
  PROVE  BInv'
  <1>1. Continue(r, Idle) /\ UNCHANGED <<local, remote, cancelFailed, setting>>
    BY DEF Fail, Reply
  <1>2. Fits(r, Idle) /\ Idle.at \notin Working BY DEF Fits, Idle, Working
  <1>3. QED BY <1>1, <1>2, AreRequests, QuietInv

\* The deletion begins with the cancellation of the subscription in the row.
LEMMA DeleteGroupInv ==
  ASSUME BInv, UNCHANGED setting, NEW r \in Replicas, DeleteGroup(r)
  PROVE  BInv'
  <1> DEFINE q == [at |-> "delete"]
  <1>1. /\ Continue(r, q) /\ r \in replicas
        /\ UNCHANGED <<live, billing, recorded, setting>>
    BY DEF DeleteGroup, Free, local
  <1>2. StripeTypeOK /\ NamesAreKnown /\ billing \in BillingRow
    BY DEF BInv, BTypeOK, TypeOK, StripeTypeOK, AtStripe
  <1>3. /\ Grows
        /\ cancelFailed => cancelFailed'
        /\ cancelFailed' \in BOOLEAN
        /\ ~cancelFailed' /\ billing.sid # None => stripe'[billing.sid].status = "canceled"
    <2>1. CASE billing.sid # None /\ Cancel(billing.sid) /\ UNCHANGED cancelFailed
      <3>1. PICK s : s = billing.sid OBVIOUS
      <3>2. s \in Subscriptions /\ s \in DOMAIN stripe
        BY <3>1, <2>1, <1>2 DEF BillingRow, NamesAreKnown, Known
      <3>3. Cancel(s) BY <3>1, <2>1
      <3>4. Grows BY <3>2, <3>3, <1>2, CancelGrows
      <3>5. stripe' = [stripe EXCEPT ![s].status = "canceled"] BY <3>3 DEF Cancel
      <3>6. stripe[s] \in AtStripe BY <3>2, <1>2 DEF StripeTypeOK, IsTable
      <3>7. stripe'[s].status = "canceled" BY <3>2, <3>5, <3>6 DEF AtStripe
      <3>8. QED BY <3>1, <3>4, <3>7, <2>1 DEF BInv, BTypeOK
    <2>2. CASE cancelFailed' = (cancelFailed \/ billing.sid # None) /\ UNCHANGED remote
      BY <2>2, <1>2, RestGrows DEF BInv, BTypeOK
    <2>3. QED BY <2>1, <2>2 DEF DeleteGroup
  <1>4. Fits(r, q)' BY <1>1, <1>3 DEF Fits, Working, Idle, replicas
  <1>5. q \in Request /\ q.at \notin Working BY AreRequests DEF Working
  <1> HIDE DEF q
  <1>6. QED BY <1>1, <1>3, <1>4, <1>5, ContinueInv

LEMMA ReplyTypes ==
  ASSUME BInv, NEW r \in Replicas, Reply(r)
  PROVE  /\ req' \in [Replicas -> Request] /\ req'[r] = Idle
         /\ \A p \in Replicas : p # r => req'[p] = req[p]
  BY AreRequests DEF Reply, Continue, BInv, BTypeOK

\* A reply leaves fewer requests to have an event in hand.
LEMMA ReplyKeepsApart ==
  ASSUME BInv, NEW r \in Replicas, Reply(r)
  PROVE  EventsAreApart'
  <1>1. /\ req'[r].at \notin Working
        /\ \A p \in Replicas : p # r => req'[p] = req[p]
    BY ReplyTypes DEF Idle, Working
  <1>2. QED BY <1>1 DEF BInv, EventsAreApart

\* The commit of a request writes the columns it changed and records its event.
LEMMA CommitInv ==
  ASSUME BInv, UNCHANGED setting, NEW r \in Replicas, Commit(r)
  PROVE  BInv'
  <1> SUFFICES ASSUME NEW q, q = req[r] PROVE BInv'
    OBVIOUS
  <1>1. /\ q.at = "commit" /\ Reply(r)
        /\ billing' = Merge(billing, q.loaded, q.new)
        /\ recorded' = recorded \cup ({q.e} \ {None})
        /\ UNCHANGED <<live, checkouts, stripe, mapped, events, cancelFailed, setting>>
    BY DEF Commit, remote
  <1>2. q \in Request /\ Fits(r, q) BY FitsNamed DEF BInv, BTypeOK
  <1>3. q.loaded \in BillingRow /\ q.new \in BillingRow /\ billing \in BillingRow
    BY <1>1, <1>2, RequestFields DEF BInv, BTypeOK, TypeOK
  <1>4. billing' \in BillingRow /\ billing'.sid \in {billing.sid, q.new.sid}
    BY <1>1, <1>3, MergeType
  <1>5. BTypeOK'
    <2>1. req' \in [Replicas -> Request] BY <1>1, ReplyTypes
    <2>2. \A p \in Replicas : req'[p].at \in {"idle", "retrieve", "load", "commit", "delete"}
      BY <2>1, RequestFields
    <2>3. recorded' \subseteq events' BY <1>1, <1>2 DEF Fits, Working, BInv, BTypeOK, TypeOK
    <2>4. billing' \in BillingRow' BY <1>4 DEF BillingRow, Status, Tier
    <2>5. /\ events' \subseteq Event' /\ live' \in BOOLEAN /\ cancelFailed' \in BOOLEAN
          /\ IsFiniteSet(events') /\ checkouts' \subseteq Subscriptions
          /\ mapped' \subseteq Prices /\ setting' \in Settings
          /\ IsTable(stripe', checkouts', [status : Status, price : Prices])
      BY <1>1 DEF BInv, BTypeOK, TypeOK, Event, EventType
    <2>6. TypeOK' BY <2>2, <2>3, <2>4, <2>5 DEF TypeOK, Status
    <2>7. QED BY <2>1, <2>5, <2>6 DEF BTypeOK, Request, Event, EventType, BillingRow, Returned,
            Status, Tier, Idle
  <1>6. NamesAreKnown' BY <1>1, <1>2, <1>4 DEF BInv, NamesAreKnown, Known, Fits
  <1>7. ASSUME OneReplica
        PROVE  /\ billing' = q.new /\ Whole(q.new) /\ (live \/ q.new = billing)
               /\ \A p \in Replicas : p # r => req[p] = Idle
    <2>1. q.loaded = billing /\ Whole(q.new) /\ (live \/ q.new = billing)
      BY <1>1, <1>2, <1>7 DEF Fits
    <2>2. billing' = q.new BY <1>1, <1>3, <2>1, MergeLoaded
    <2>3. q # Idle BY <1>1 DEF Idle
    <2>4. QED BY <2>1, <2>2, <2>3, <1>7, OneIsServed
  <1>8. (\A p \in Replicas : Fits(p, req[p]))'
    <2> SUFFICES ASSUME NEW p \in Replicas, NEW k, k = req'[p]
                 PROVE  Fits(p, k)'
      BY FitsNamed
    <2>1. CASE k = Idle BY <2>1 DEF Fits, Idle, Working
    <2>2. CASE k # Idle
      <3>1. p # r /\ k = req[p] BY <2>2, <1>1, ReplyTypes
      <3>2. Fits(p, k) BY <3>1, FitsNamed DEF BInv
      <3>3. ~OneReplica BY <3>1, <2>2, <1>7
      <3>4. k.at \in Working /\ k.e # None => k.e # q.e
        BY <3>1, <1>1 DEF BInv, EventsAreApart, Working
      <3>5. QED BY <3>2, <3>3, <3>4, <1>1 DEF Fits, OneReplica, replicas, Known
    <2>3. QED BY <2>1, <2>2
  <1>9. EventsAreApart' BY <1>1, ReplyKeepsApart
  <1>10. RowIsWhole' BY <1>1, <1>7 DEF RowIsWhole, Whole, OneReplica, replicas
  <1>11. DeletedGroupsStopPaying'
    BY <1>1, <1>7 DEF BInv, DeletedGroupsStopPaying, OneReplica, replicas
  <1>12. QED BY <1>5, <1>6, <1>8, <1>9, <1>10, <1>11 DEF BInv

\* The commit of a deletion comes after the cancellation, and on one replica
\* with nothing in between.
LEMMA CommitDeletionInv ==
  ASSUME BInv, UNCHANGED setting, NEW r \in Replicas, CommitDeletion(r)
  PROVE  BInv'
  <1> SUFFICES ASSUME NEW q, q = req[r] PROVE BInv'
    OBVIOUS
  <1>1. /\ q.at = "delete" /\ Reply(r) /\ live' = FALSE
        /\ UNCHANGED <<billing, recorded, checkouts, stripe, mapped, events, cancelFailed,
                       setting>>
    BY DEF CommitDeletion, remote
  <1>2. Fits(r, q) BY FitsNamed DEF BInv
  <1>3. req' \in [Replicas -> Request] BY <1>1, ReplyTypes
  <1>4. BTypeOK'
    <2>1. \A p \in Replicas : req'[p].at \in {"idle", "retrieve", "load", "commit", "delete"}
      BY <1>3, RequestFields
    <2>2. TypeOK'
      BY <2>1, <1>1 DEF BInv, BTypeOK, TypeOK, Event, EventType, BillingRow, Status, Tier
    <2>3. QED BY <2>2, <1>1, <1>3 DEF BInv, BTypeOK, Request, Event, EventType, BillingRow,
            Returned, Status, Tier, Idle
  <1>5. ASSUME OneReplica
        PROVE  /\ \A p \in Replicas : p # r => req[p] = Idle
               /\ ~cancelFailed /\ billing.sid # None => stripe[billing.sid].status = "canceled"
    <2>1. q # Idle BY <1>1 DEF Idle
    <2>2. QED BY <2>1, <1>1, <1>2, <1>5, OneIsServed DEF Fits
  <1>6. (\A p \in Replicas : Fits(p, req[p]))'
    <2> SUFFICES ASSUME NEW p \in Replicas, NEW k, k = req'[p]
                 PROVE  Fits(p, k)'
      BY FitsNamed
    <2>1. CASE k = Idle BY <2>1 DEF Fits, Idle, Working
    <2>2. CASE k # Idle
      <3>1. p # r /\ k = req[p] BY <2>2, <1>1, ReplyTypes
      <3>2. Fits(p, k) BY <3>1, FitsNamed DEF BInv
      <3>3. ~OneReplica BY <3>1, <2>2, <1>5
      <3>4. QED BY <3>2, <3>3, <1>1 DEF Fits, OneReplica, replicas, Known
    <2>3. QED BY <2>1, <2>2
  <1>7. EventsAreApart' BY <1>1, ReplyKeepsApart
  <1>8. (NamesAreKnown /\ RowIsWhole)'
    BY <1>1 DEF BInv, NamesAreKnown, Known, RowIsWhole, OneReplica, replicas
  <1>9. DeletedGroupsStopPaying' BY <1>1, <1>5 DEF DeletedGroupsStopPaying, OneReplica, replicas
  <1>10. QED BY <1>4, <1>6, <1>7, <1>8, <1>9 DEF BInv

-----------------------------------------------------------------------------
LEMMA BInit ==
  ASSUME Init
  PROVE  BInv
  <1>1. req = [r \in Replicas |-> Idle] /\ Idle \in Request BY AreRequests DEF Init
  <1>2. \A r \in Replicas : req[r].at = "idle" /\ req[r] = Idle BY <1>1 DEF Idle
  <1>3. TypeOK
    BY <1>2, NoneAssumption, SettingsAssumption
    DEF Init, TypeOK, BillingRow, NewRow, Status, Tier, IsTable, EmptyTable
  <1>4. BTypeOK BY <1>1, <1>3, FS_EmptySet DEF Init, BTypeOK
  <1>5. NamesAreKnown BY DEF Init, NamesAreKnown, NewRow, Known
  <1>6. \A r \in Replicas : Fits(r, req[r])
    BY <1>2 DEF Fits, Working
  <1>7. EventsAreApart BY <1>2 DEF EventsAreApart, Working
  <1>8. RowIsWhole BY TierAssumption DEF Init, NewRow, RowIsWhole
  <1>9. DeletedGroupsStopPaying BY DEF Init, DeletedGroupsStopPaying
  <1>10. QED BY <1>4, <1>5, <1>6, <1>7, <1>8, <1>9 DEF BInv

LEMMA BNext ==
  ASSUME BInv, [Next]_bvars
  PROVE  BInv'
  <1>1. StripeTypeOK /\ NamesAreKnown
    BY DEF BInv, BTypeOK, TypeOK, StripeTypeOK, AtStripe
  <1>2. CASE UNCHANGED bvars
    <2>1. UNCHANGED <<local, req, cancelFailed, setting, remote>>
      BY <1>2 DEF bvars, local, remote
    <2>2. QED BY <2>1, <1>1, RestGrows, StripeInv
  <1>3. CASE Next
    <2>1. UNCHANGED setting BY <1>3 DEF Next
    <2>2. CASE StripeStep
      <3>1. UNCHANGED <<local, req, cancelFailed, setting>> BY <2>1, <2>2 DEF StripeStep
      <3>2. setting.prices \subseteq Prices BY SettingPrices DEF BInv
      <3>3. ASSUME NEW price \in setting.prices, MapPrice(price)
            PROVE  Grows
        BY <3>2, <3>3, <1>1, MapGrows
      <3>4. ASSUME NEW s \in Subscriptions, NEW price \in setting.prices,
                   \/ Subscribe(s, price)
                   \/ \E status \in Status : ChangeSubscription(s, price, status)
            PROVE  Grows
        BY <3>2, <3>4, <1>1, SubscribeGrows, ChangeGrows
      <3>5. ASSUME NEW s \in Subscriptions, Cancel(s)
            PROVE  Grows
        BY <3>5, <1>1, CancelGrows
      <3>6. Grows BY <2>2, <3>3, <3>4, <3>5 DEF StripeStep
      <3>7. QED BY <3>1, <3>6, StripeInv
    <2>3. CASE Checkout
      <3>1. UNCHANGED <<local, req, cancelFailed, setting>> BY <2>1, <2>3 DEF Checkout
      <3>2. QED BY <3>1, <2>3, <1>1, CheckoutGrows, StripeInv
    <2>4. CASE DeliverSome BY <2>1, <2>4, DeliverInv DEF DeliverSome, BInv, BTypeOK, TypeOK
    <2>5. CASE ReconcileSome BY <2>1, <2>5, ReconcileInv DEF ReconcileSome
    <2>6. ASSUME NEW r \in Replicas,
                 GrantPartner(r) \/ RevokePartner(r) \/ DeleteGroup(r) \/ Serve(r) \/ Fail(r)
          PROVE  BInv'
      BY <2>1, <2>6, GrantInv, DeleteGroupInv, RetrieveInv, LoadInv, CommitInv,
         CommitDeletionInv, FailInv DEF Serve
    <2>7. QED BY <1>3, <2>2, <2>3, <2>4, <2>5, <2>6 DEF Next
  <1>4. QED BY <1>2, <1>3

\* The inductive invariant.
THEOREM Invariance == Spec => []BInv
  <1>1. Init => BInv BY BInit
  <1>2. BInv /\ [Next]_bvars => BInv' BY BNext
  <1>3. QED BY <1>1, <1>2, PTL DEF Spec

-----------------------------------------------------------------------------
\* Every table, request and event is what its type says: what the code leaves
\* to the database and to Stripe's API.
THEOREM TypeCorrect == Spec => []TypeOK
  <1>1. BInv => TypeOK BY DEF BInv, BTypeOK
  <1>2. QED BY <1>1, Invariance, PTL

\* On one replica webhooks, reconciliation, grants and revocations leave the row
\* of one piece, however they cross.
THEOREM RowWhole == Spec => []RowIsWhole
  <1>1. BInv => RowIsWhole BY DEF BInv
  <1>2. QED BY <1>1, Invariance, PTL

\* On one replica a group is not deleted with its subscription left running,
\* unless Stripe refused to cancel it.
THEOREM DeletedStop == Spec => []DeletedGroupsStopPaying
  <1>1. BInv => DeletedGroupsStopPaying BY DEF BInv
  <1>2. QED BY <1>1, Invariance, PTL

\* An event is recorded by the transaction that applies it, so that no delivery
\* of it, on any number of replicas, applies it again.
THEOREM AppliedOnce == Spec => EventsApplyOnce
  <1>1. ASSUME BInv, NEW r \in Replicas, req[r].at = "commit", req[r].e # None
        PROVE  req[r].e \notin recorded
    BY <1>1 DEF BInv, Fits, Working
  <1>2. BInv => (\A r \in Replicas :
                  req[r].at = "commit" /\ req[r].e # None /\ req'[r] = Idle /\ faults' = faults =>
                    req[r].e \notin recorded)
    BY <1>1
  <1>3. QED BY <1>2, Invariance, PTL DEF EventsApplyOnce

=============================================================================
