---------------------------- MODULE LimitsProofs ----------------------------
(***************************************************************************)
(* Theorems about Entitlements, for every table of limits and any number   *)
(* of requests, and about RateLimiter, for any number of workers, clocks   *)
(* and attempts and histories of any length.                               *)
(***************************************************************************)
EXTENDS Entitlements, RateLimiter, FiniteSetTheorems, TLAPS

-----------------------------------------------------------------------------
(* The inductive invariant. *)

Plan == [tier : Tiers, status : Status]

LimitValue == Nat \cup {Unlimited}

AddState == {NotOpen} \cup [at : {"count", "insert"}, limit : LimitValue]

Inserting == {r \in Adders : add[r].at = "insert"}

ETypeOK ==
  /\ plan \in Plan
  /\ vehicles \in Nat
  /\ add \in [Adders -> AddState]
  /\ oneReplica \in BOOLEAN
  /\ lowered \in BOOLEAN

\* Unless the limit fell, what a request has read is no more than it allows now.
LimitsAreCurrent == ~lowered => \A r \in Adders : ~Outdates(plan, r)

\* On one replica a request is served alone, and what it has read still holds.
ServedAlone ==
  oneReplica =>
    /\ \A q, r \in Adders : add[q] # NotOpen /\ add[r] # NotOpen => q = r
    /\ \A r \in Adders : add[r] # NotOpen => add[r].limit = VehicleLimit(plan)
    /\ \A r \in Inserting : Within(vehicles + 1, add[r].limit)

\* When every request is about to insert, the last one to count saw what is there.
LastCountHolds ==
  Inserting = Adders => \E r \in Adders : Within(vehicles + 1, add[r].limit)

\* What is about to be inserted is within the overshoot too.
InsertsFit ==
  ~lowered => Within(vehicles + Cardinality(Inserting) - Overshoot, VehicleLimit(plan))

EInv ==
  /\ ETypeOK
  /\ LimitsAreCurrent
  /\ ServedAlone
  /\ LastCountHolds
  /\ InsertsFit

-----------------------------------------------------------------------------
(* Limits and counts. *)

\* The limit of a plan is a number, or none.
LEMMA LimitIsALimit ==
  ASSUME NEW p \in Plan
  PROVE  VehicleLimit(p) \in LimitValue
  BY LimitsAssumption DEF Plan, VehicleLimit, EffectiveTier, Tiers, LimitValue

\* Fewer vehicles are within a limit too.
LEMMA FewerFit ==
  ASSUME NEW m \in Int, NEW n \in Int, m <= n, NEW limit \in LimitValue, Within(n, limit)
  PROVE  Within(m, limit)
  BY DEF Within, LimitValue

\* What fits a limit that is not outdated fits the limit of the plan.
LEMMA CurrentFits ==
  ASSUME NEW p \in Plan, NEW r \in Adders, add[r] # NotOpen, add[r].limit \in LimitValue,
         ~Outdates(p, r), NEW n \in Int, Within(n, add[r].limit)
  PROVE  Within(n, VehicleLimit(p))
  BY LimitIsALimit DEF Outdates, Within, LimitValue

\* A request that is open holds a limit.
LEMMA OpenHasLimit ==
  ASSUME ETypeOK, NEW r \in Adders, add[r] # NotOpen
  PROVE  add[r].limit \in LimitValue /\ add[r].at \in {"count", "insert"}
  BY DEF ETypeOK, AddState

\* The requests that are about to insert can be counted.
LEMMA InsertingCounted ==
  /\ IsFiniteSet(Inserting)
  /\ Cardinality(Inserting) \in Nat
  /\ Cardinality(Adders) \in Nat \ {0}
  /\ Cardinality(Inserting) <= Cardinality(Adders)
  /\ Cardinality(Inserting) = Cardinality(Adders) => Inserting = Adders
  <1>1. Inserting \in SUBSET Adders
    BY DEF Inserting
  <1>2. QED BY <1>1, AddersAssumption, FS_Subset, FS_CardinalityType, FS_EmptySet

\* On one replica no more than one request is about to insert.
LEMMA OneInserts ==
  ASSUME ETypeOK, ServedAlone, oneReplica, NEW r \in Inserting
  PROVE  Inserting = {r}
  BY DEF ServedAlone, Inserting, NotOpen

\* Where the plan allows n vehicles and no request is outdated, the inserts fit.
LEMMA NotExceededFits ==
  ASSUME EInv, NEW p \in Plan, NEW n \in Nat, n <= vehicles, ~Exceeded(p, n), BodyIsFree({})
  PROVE  Within(n + Cardinality(Inserting) - Overshoot, VehicleLimit(p))
  <1> USE InsertingCounted, LimitIsALimit DEF EInv, ETypeOK
  <1>1. Within(n, VehicleLimit(p))
    BY DEF Exceeded
  <1>2. CASE oneReplica
    <2>1. Inserting = {}
      BY <1>2 DEF BodyIsFree, Inserting, NotOpen
    <2>2. Cardinality(Inserting) = 0
      BY <2>1, FS_EmptySet
    <2>3. QED BY <1>1, <1>2, <2>2 DEF Overshoot
  <1>3. CASE ~oneReplica /\ Inserting # Adders
    <2>1. Cardinality(Inserting) <= Cardinality(Adders) - 1
      BY <1>3
    <2>2. n + Cardinality(Inserting) - Overshoot <= n
      BY <1>3, <2>1 DEF Overshoot
    <2>3. n + Cardinality(Inserting) - Overshoot \in Int
      BY <1>3 DEF Overshoot
    <2>4. QED BY <1>1, <2>2, <2>3, FewerFit
  <1>4. CASE ~oneReplica /\ Inserting = Adders
    <2>1. PICK r \in Adders : Within(vehicles + 1, add[r].limit)
      BY <1>4 DEF LastCountHolds
    <2>2. add[r] # NotOpen /\ add[r].limit \in LimitValue
      BY <1>4, OpenHasLimit DEF Inserting, NotOpen
    <2>3. Within(n + 1, add[r].limit)
      BY <2>1, <2>2, FewerFit
    <2>4. Within(n + 1, VehicleLimit(p))
      BY <2>2, <2>3, CurrentFits DEF Exceeded
    <2>5. n + Cardinality(Inserting) - Overshoot = n + 1
      BY <1>4 DEF Overshoot
    <2>6. QED BY <2>4, <2>5
  <1>5. QED BY <1>2, <1>3, <1>4

-----------------------------------------------------------------------------
(* Every step keeps the invariant. *)

LEMMA ReadLimitInv ==
  ASSUME EInv, NEW r \in Adders, ReadLimit(r)
  PROVE  EInv'
  <1> USE LimitIsALimit DEF EInv, ETypeOK
  <1>1. ETypeOK'
    BY DEF ReadLimit, AddState
  <1>2. Inserting' = Inserting
    BY DEF ReadLimit, Inserting, NotOpen
  <1>3. LimitsAreCurrent'
    BY DEF LimitsAreCurrent, ReadLimit, Outdates, VehicleLimit, EffectiveTier, LimitValue
  <1>4. ServedAlone'
    BY <1>2 DEF ServedAlone, ReadLimit, BodyIsFree, Inserting, VehicleLimit, EffectiveTier, NotOpen
  <1>5. LastCountHolds'
    BY <1>2 DEF LastCountHolds, ReadLimit, Inserting, NotOpen
  <1>6. InsertsFit'
    BY <1>2 DEF InsertsFit, ReadLimit, VehicleLimit, EffectiveTier, Overshoot
  <1>7. QED BY <1>1, <1>3, <1>4, <1>5, <1>6

LEMMA CountInv ==
  ASSUME EInv, NEW r \in Adders, Count(r)
  PROVE  EInv'
  <1> USE LimitIsALimit DEF EInv, ETypeOK
  <1>1. add[r] # NotOpen /\ add[r].limit \in LimitValue
    BY OpenHasLimit DEF Count, NotOpen
  <1>2. ETypeOK'
    BY <1>1 DEF Count, AddState
  <1>3. r \notin Inserting
    BY DEF Count, Inserting
  <1>4. LimitsAreCurrent'
    BY <1>1 DEF LimitsAreCurrent, Count, Outdates, VehicleLimit, EffectiveTier
  <1>5. \A q \in Inserting' : q # r => q \in Inserting /\ add'[q] = add[q]
    BY DEF Count, Inserting
  <1>6. r \in Inserting' => Within(vehicles + 1, add[r].limit) /\ add'[r].limit = add[r].limit
    BY DEF Count, Inserting, MayAdd, NotOpen
  <1>7. ServedAlone'
    BY <1>1, <1>5, <1>6 DEF ServedAlone, Count, VehicleLimit, EffectiveTier, NotOpen, Inserting
  <1>8. LastCountHolds'
    BY <1>6 DEF LastCountHolds, Count
  <1>9. InsertsFit'
    <2>1. CASE MayAdd(add[r].limit)
      <3>1. Inserting' = Inserting \cup {r}
        BY <2>1 DEF Count, Inserting
      <3>2. Cardinality(Inserting') = Cardinality(Inserting) + 1
        BY <1>3, <3>1, InsertingCounted, FS_AddElement
      <3>3. Cardinality(Inserting) - Overshoot <= 0
        <4>1. CASE oneReplica
          <5>1. Inserting = {}
            BY <1>1, <1>3, <4>1 DEF ServedAlone, Inserting, NotOpen
          <5>2. QED BY <4>1, <5>1, FS_EmptySet DEF Overshoot
        <4>2. CASE ~oneReplica
          <5>1. Inserting # Adders
            BY <1>3
          <5>2. QED BY <4>2, <5>1, InsertingCounted DEF Overshoot
        <4>3. QED BY <4>1, <4>2
      <3>4. ~lowered => Within(vehicles + 1, VehicleLimit(plan))
        BY <1>1, <2>1, CurrentFits DEF LimitsAreCurrent, MayAdd
      <3>5. Overshoot \in Int
        BY InsertingCounted DEF Overshoot
      <3>6. ~lowered => Within(vehicles + Cardinality(Inserting') - Overshoot, VehicleLimit(plan))
        BY <3>2, <3>3, <3>4, <3>5, InsertingCounted, FewerFit
      <3>7. QED BY <3>6 DEF InsertsFit, Count, VehicleLimit, EffectiveTier, Overshoot
    <2>2. CASE ~MayAdd(add[r].limit)
      <3>1. Inserting' = Inserting
        BY <1>3, <2>2 DEF Count, Inserting, NotOpen
      <3>2. QED BY <3>1 DEF InsertsFit, Count, VehicleLimit, EffectiveTier, Overshoot
    <2>3. QED BY <2>1, <2>2
  <1>10. QED BY <1>2, <1>4, <1>7, <1>8, <1>9

LEMMA InsertVehicleInv ==
  ASSUME EInv, NEW r \in Adders, InsertVehicle(r)
  PROVE  EInv'
  <1> USE LimitIsALimit DEF EInv, ETypeOK
  <1>1. ETypeOK'
    BY DEF InsertVehicle, AddState
  <1>2. r \in Inserting /\ Inserting' = Inserting \ {r}
    BY DEF InsertVehicle, Inserting, NotOpen
  <1>3. LimitsAreCurrent'
    BY DEF LimitsAreCurrent, InsertVehicle, Outdates, VehicleLimit, EffectiveTier
  <1>4. oneReplica => Inserting' = {}
    BY <1>2, OneInserts
  <1>5. ServedAlone'
    BY <1>4 DEF ServedAlone, InsertVehicle, VehicleLimit, EffectiveTier
  <1>6. LastCountHolds'
    BY <1>2 DEF LastCountHolds, InsertVehicle
  <1>7. Cardinality(Inserting') = Cardinality(Inserting) - 1
    BY <1>2, InsertingCounted, FS_RemoveElement
  <1>8. InsertsFit'
    <2>1. Overshoot \in Int /\ Overshoot' = Overshoot
      BY InsertingCounted DEF Overshoot, InsertVehicle
    <2>2. vehicles' + Cardinality(Inserting') - Overshoot' = vehicles + Cardinality(Inserting) - Overshoot
      BY <1>7, <2>1, InsertingCounted DEF InsertVehicle
    <2>3. QED BY <2>2 DEF InsertsFit, InsertVehicle, VehicleLimit, EffectiveTier
  <1>9. QED BY <1>1, <1>3, <1>5, <1>6, <1>8

LEMMA AbandonInv ==
  ASSUME EInv, NEW r \in Adders, Abandon(r)
  PROVE  EInv'
  <1> USE LimitIsALimit DEF EInv, ETypeOK
  <1>1. ETypeOK'
    BY DEF Abandon, AddState
  <1>2. Inserting' = Inserting \ {r}
    BY DEF Abandon, Inserting, NotOpen
  <1>3. LimitsAreCurrent'
    BY DEF LimitsAreCurrent, Abandon, Outdates, VehicleLimit, EffectiveTier
  <1>4. ServedAlone'
    BY <1>2 DEF ServedAlone, Abandon, VehicleLimit, EffectiveTier, NotOpen, Inserting
  <1>5. LastCountHolds'
    BY <1>2 DEF LastCountHolds, Abandon
  <1>6. Cardinality(Inserting') \in Nat /\ Cardinality(Inserting') <= Cardinality(Inserting)
    BY <1>2, InsertingCounted, FS_RemoveElement, FS_CardinalityType, FS_Subset
  <1>7. InsertsFit'
    <2>1. Overshoot \in Int /\ Overshoot' = Overshoot
      BY InsertingCounted DEF Overshoot, Abandon
    <2>2. ~lowered => Within(vehicles + Cardinality(Inserting') - Overshoot, VehicleLimit(plan))
      BY <1>6, <2>1, InsertingCounted, FewerFit DEF InsertsFit
    <2>3. QED BY <2>1, <2>2 DEF InsertsFit, Abandon, VehicleLimit, EffectiveTier
  <1>8. QED BY <1>1, <1>3, <1>4, <1>5, <1>7

LEMMA DeleteVehicleInv ==
  ASSUME EInv, DeleteVehicle
  PROVE  EInv'
  <1> USE LimitIsALimit DEF EInv, ETypeOK
  <1>1. ETypeOK'
    BY DEF DeleteVehicle, Exceeded, Within, Outdates
  <1>2. Inserting' = Inserting /\ VehicleLimit(plan)' = VehicleLimit(plan) /\ Overshoot' = Overshoot
    BY DEF DeleteVehicle, Inserting, VehicleLimit, EffectiveTier, Overshoot
  <1>3. LimitsAreCurrent'
    BY DEF LimitsAreCurrent, DeleteVehicle, Outdates, VehicleLimit, EffectiveTier, Exceeded
  <1>4. ServedAlone'
    <2>1. oneReplica => Inserting = {}
      BY DEF DeleteVehicle, BodyIsFree, Inserting, NotOpen
    <2>2. QED BY <1>2, <2>1 DEF ServedAlone, DeleteVehicle
  <1>5. LastCountHolds'
    <2>1. SUFFICES ASSUME Inserting = Adders
                   PROVE  \E r \in Adders : Within(vehicles' + 1, add[r].limit)
      BY <1>2 DEF LastCountHolds, DeleteVehicle
    <2>2. PICK r \in Adders : Within(vehicles + 1, add[r].limit)
      BY <2>1 DEF LastCountHolds
    <2>3. add[r].limit \in LimitValue
      BY <2>1, OpenHasLimit DEF Inserting, NotOpen
    <2>4. QED BY <2>2, <2>3, FewerFit DEF DeleteVehicle
  <1>6. InsertsFit'
    <2>1. Overshoot \in Int
      BY InsertingCounted DEF Overshoot
    <2>2. ~lowered => Within(vehicles - 1 + Cardinality(Inserting) - Overshoot, VehicleLimit(plan))
      BY <2>1, InsertingCounted, FewerFit DEF InsertsFit
    <2>3. ~Exceeded(plan, vehicles - 1) =>
            Within(vehicles - 1 + Cardinality(Inserting) - Overshoot, VehicleLimit(plan))
      BY NotExceededFits DEF DeleteVehicle
    <2>4. QED BY <1>2, <2>2, <2>3 DEF InsertsFit, DeleteVehicle
  <1>7. QED BY <1>1, <1>3, <1>4, <1>5, <1>6

LEMMA ChangePlanInv ==
  ASSUME EInv, NEW p \in Plan, ChangePlan(p)
  PROVE  EInv'
  <1> USE LimitIsALimit DEF EInv, ETypeOK
  <1>1. ETypeOK'
    BY DEF ChangePlan, Exceeded, Within, Outdates
  <1>2. Inserting' = Inserting /\ VehicleLimit(plan)' = VehicleLimit(p) /\ Overshoot' = Overshoot
    BY DEF ChangePlan, Inserting, VehicleLimit, EffectiveTier, Overshoot
  <1>3. LimitsAreCurrent'
    BY DEF LimitsAreCurrent, ChangePlan, Outdates, VehicleLimit, EffectiveTier, Exceeded
  <1>4. ServedAlone'
    BY DEF ServedAlone, ChangePlan, BodyIsFree, Inserting, NotOpen
  <1>5. LastCountHolds'
    BY <1>2 DEF LastCountHolds, ChangePlan
  <1>6. InsertsFit'
    <2>1. ~Exceeded(p, vehicles) =>
            Within(vehicles + Cardinality(Inserting) - Overshoot, VehicleLimit(p))
      BY NotExceededFits DEF ChangePlan
    <2>2. QED BY <1>2, <2>1 DEF InsertsFit, ChangePlan
  <1>7. QED BY <1>1, <1>3, <1>4, <1>5, <1>6

LEMMA InitInv == EInit => EInv
  <1> SUFFICES ASSUME EInit
               PROVE  EInv
    OBVIOUS
  <1> USE DEF EInit
  <1>1. ETypeOK
    BY LimitsAssumption DEF ETypeOK, Plan, Tiers, Status, AddState
  <1>2. Inserting = {}
    BY DEF Inserting, NotOpen
  <1>3. LimitsAreCurrent /\ ServedAlone /\ LastCountHolds
    BY <1>2, AddersAssumption DEF LimitsAreCurrent, ServedAlone, LastCountHolds, Outdates
  <1>4. InsertsFit
    <2>1. Overshoot \in Nat
      BY InsertingCounted DEF Overshoot
    <2>2. Within(0, VehicleLimit(plan))
      BY <1>1, LimitIsALimit DEF ETypeOK, Within, LimitValue
    <2>3. Cardinality(Inserting) = 0
      BY <1>2, FS_EmptySet
    <2>4. QED BY <1>1, <2>1, <2>2, <2>3, LimitIsALimit, FewerFit DEF InsertsFit, ETypeOK
  <1>5. QED BY <1>1, <1>3, <1>4 DEF EInv

LEMMA StepInv == EInv /\ [ENext]_evars => EInv'
  <1> SUFFICES ASSUME EInv, [ENext]_evars
               PROVE  EInv'
    OBVIOUS
  <1>1. CASE DeleteVehicle
    BY <1>1, DeleteVehicleInv
  <1>2. CASE \E r \in Adders : ReadLimit(r) \/ Count(r) \/ InsertVehicle(r) \/ Abandon(r)
    BY <1>2, ReadLimitInv, CountInv, InsertVehicleInv, AbandonInv
  <1>3. CASE \E tier \in Tiers, status \in Status : ChangePlan([tier |-> tier, status |-> status])
    BY <1>3, ChangePlanInv DEF Plan
  <1>4. CASE UNCHANGED evars
    BY <1>4 DEF evars, EInv, ETypeOK, LimitsAreCurrent, ServedAlone, LastCountHolds, InsertsFit,
                Inserting, Outdates, VehicleLimit, EffectiveTier, Overshoot
  <1>5. QED BY <1>1, <1>2, <1>3, <1>4 DEF ENext

-----------------------------------------------------------------------------
(* The theorems. *)

\* The inductive invariant holds in every reachable state.
THEOREM Invariance == ESpec => []EInv
  BY InitInv, StepInv, PTL DEF ESpec

\* create_vehicle and ensure_can_add_vehicle keep a group within its limit,
\* on one replica exactly, on several up to one for each other open request.
THEOREM LimitKept == ESpec => []VehiclesKeepToTheLimit
  <1>1. EInv => VehiclesKeepToTheLimit
    <2> SUFFICES ASSUME EInv, ~lowered
                 PROVE  Within(vehicles - Overshoot, VehicleLimit(plan))
      BY DEF VehiclesKeepToTheLimit
    <2>1. Overshoot \in Int
      BY InsertingCounted DEF Overshoot
    <2>2. QED BY <2>1, InsertingCounted, LimitIsALimit, FewerFit DEF EInv, ETypeOK, InsertsFit
  <1>2. QED BY <1>1, Invariance, PTL

\* On one replica get_effective_tier keeps a group whose subscription ended
\* from adding a vehicle beyond the free limit.
THEOREM EndedPlansFree == ESpec => EndedPlansAddNothing
  <1> DEFINE Ended == {"canceled", "unpaid", "incomplete_expired"}
  <1> DEFINE Kept ==
        oneReplica /\ vehicles' > vehicles /\ plan.status \in Ended =>
          Within(vehicles', Limits["free"])
  <1>1. EInv /\ [ENext]_evars => Kept
    <2> SUFFICES ASSUME EInv, [ENext]_evars, oneReplica, vehicles' > vehicles,
                        plan.status \in Ended
                 PROVE  Within(vehicles', Limits["free"])
      OBVIOUS
    <2> USE DEF EInv, ETypeOK
    <2>1. ~(vehicles' = vehicles \/ vehicles' = vehicles - 1)
      OBVIOUS
    <2>2. PICK r \in Adders : InsertVehicle(r)
      BY <2>1 DEF ENext, evars, DeleteVehicle, ReadLimit, Count, Abandon, ChangePlan
    <2>3. r \in Inserting /\ vehicles' = vehicles + 1 /\ add[r] # NotOpen
      BY <2>2 DEF InsertVehicle, Inserting, NotOpen
    <2>4. add[r].limit = Limits["free"]
      BY <2>3 DEF ServedAlone, VehicleLimit, EffectiveTier
    <2>5. QED BY <2>3, <2>4 DEF ServedAlone
  <1>2. EInv /\ [ENext]_evars => [Kept]_evars
    BY <1>1
  <1>3. [][Kept]_evars => EndedPlansAddNothing
    BY PTL DEF EndedPlansAddNothing
  <1>4. QED BY <1>2, <1>3, Invariance, PTL DEF ESpec

-----------------------------------------------------------------------------
(* Guesses: the inductive invariant of RateLimiter.                        *)

BusyOn(s) == {w \in busy : Store(w) = s}

\* Where a window is the same for all who look at a store.
WindowsAgree == backend = "memory" \/ ClocksAgree

\* The failures are numbered in the order of time.
InOrder(s) ==
  /\ \A i, j \in 1..Len(tried[s]) : i <= j => tried[s][i] <= tried[s][j]
  /\ \A i \in 1..Len(tried[s]) : tried[s][i] <= now

\* What a store records was a failure since the last clear; where the clocks
\* agree its time is that of the worker's own clock.
RecordsAreTries(s) ==
  /\ IsFiniteSet(attempts[s])
  /\ \A a \in attempts[s] :
       /\ a.nth \in 1..Len(tried[s])
       /\ \A w \in Workers : WindowsAgree /\ Store(w) = s =>
            a.time = tried[s][a.nth] + offset[w]

\* A failure within the window is recorded still.
TriesAreRecorded(s) ==
  WindowsAgree =>
    \A w \in Workers, i \in 1..Len(tried[s]) :
      Store(w) = s /\ now - tried[s][i] < Window =>
        [nth |-> i, time |-> tried[s][i] + offset[w]] \in attempts[s]

\* Redis keeps the key a second longer than its last attempt is active.
KeyLives ==
  backend = "redis" /\ tried[Shared] # << >> =>
    expires = tried[Shared][Len(tried[Shared])] + Window + Second

\* Those who have asked and may still fail find room within the window.
RoomLeft(s) ==
  WindowsAgree /\ BusyOn(s) # {} =>
    \A i \in 1..Len(tried[s]) :
      i = Len(tried[s]) + Cardinality(BusyOn(s)) - AtOnce => now - tried[s][i] >= Window

\* What GuessesAreLimited says of one store.
Spread(s) ==
  WindowsAgree =>
    \A i \in 1..(Len(tried[s]) - AtOnce) : tried[s][i + AtOnce] - tried[s][i] >= Window

StoreIsRight(s) ==
  /\ InOrder(s)
  /\ RecordsAreTries(s)
  /\ TriesAreRecorded(s)
  /\ RoomLeft(s)
  /\ Spread(s)

GInv ==
  /\ GTypeOK
  /\ KeyLives
  /\ \A s \in Stores : StoreIsRight(s)

-----------------------------------------------------------------------------
(* Counting attempts and workers. *)

\* A store that holds the attempts numbered i to n holds as many.
LEMMA NumberedAttempts ==
  ASSUME NEW S \in SUBSET Attempt, IsFiniteSet(S), NEW i \in Nat, NEW n \in Nat,
         \A j \in i..n : \E a \in S : a.nth = j
  PROVE  Cardinality(S) >= n - i + 1
  <1> DEFINE f == [a \in S |-> a.nth]
             T == {f[a] : a \in S}
  <1>1. f \in Surjection(S, T)
    BY DEF Surjection
  <1>2. IsFiniteSet(T) /\ Cardinality(T) <= Cardinality(S)
    <2> HIDE DEF f, T
    <2>1. QED BY <1>1, FS_Surjection
  <1>3. i..n \in SUBSET T
    OBVIOUS
  <1>4. Cardinality(i..n) <= Cardinality(T)
    <2> HIDE DEF T
    <2>1. QED BY <1>2, <1>3, FS_Subset
  <1>5. Cardinality(i..n) = IF i > n THEN 0 ELSE n - i + 1
    <2>1. i \in Int /\ n \in Int
      OBVIOUS
    <2>2. QED BY <2>1, FS_Interval, Zenon
  <1>6. Cardinality(S) \in Nat /\ Cardinality(T) \in Nat
    <2> HIDE DEF T
    <2>1. QED BY <1>2, FS_CardinalityType
  <1> HIDE DEF T
  <1>7. QED BY <1>2, <1>4, <1>5, <1>6

\* How many may go over, and how many can be busy at once on a store.
LEMMA AtOnceCounts ==
  ASSUME GTypeOK, NEW s \in Stores, NEW B \in SUBSET {w \in Workers : Store(w) = s}
  PROVE  /\ AtOnce \in Nat \ {0}
         /\ IsFiniteSet(B)
         /\ Cardinality(B) \in Nat
         /\ Cardinality(B) <= AtOnce - MaxAttempts + 1
  <1>1. IsFiniteSet(Workers) /\ B \in SUBSET Workers
    BY WorkersAssumption
  <1>2. /\ IsFiniteSet(B)
        /\ Cardinality(B) <= Cardinality(Workers)
        /\ Cardinality(B) \in Nat
        /\ Cardinality(Workers) \in Nat
    BY <1>1, FS_Subset, FS_CardinalityType
  <1>3. CASE backend = "memory"
    <2>1. PICK one : one = {s}
      OBVIOUS
    <2>2. IsFiniteSet(one) /\ Cardinality(one) = 1
      BY <2>1, FS_Singleton
    <2>3. B \in SUBSET one
      BY <1>3, <2>1 DEF Store
    <2>4. Cardinality(B) <= 1
      BY <2>2, <2>3, FS_Subset
    <2>5. QED BY <1>2, <1>3, <2>4, LimitAssumption DEF AtOnce
  <1>4. CASE backend # "memory"
    <2>1. Cardinality(Workers) # 0
      BY WorkersAssumption, FS_EmptySet
    <2>2. QED BY <1>2, <1>4, <2>1, LimitAssumption DEF AtOnce
  <1>5. QED BY <1>3, <1>4

\* The busy workers of a store among them.
LEMMA BusyCounts ==
  ASSUME GTypeOK, NEW s \in Stores
  PROVE  /\ AtOnce \in Nat \ {0}
         /\ IsFiniteSet(BusyOn(s))
         /\ Cardinality(BusyOn(s)) \in Nat
         /\ Cardinality(BusyOn(s)) <= AtOnce
  <1>1. BusyOn(s) \in SUBSET {w \in Workers : Store(w) = s}
    BY DEF GTypeOK, BusyOn
  <1>2. PICK B : B = BusyOn(s)
    OBVIOUS
  <1>3. /\ AtOnce \in Nat \ {0} /\ IsFiniteSet(B) /\ Cardinality(B) \in Nat
        /\ Cardinality(B) <= AtOnce - MaxAttempts + 1
    BY <1>1, <1>2, AtOnceCounts
  <1>4. QED BY <1>2, <1>3, LimitAssumption

-----------------------------------------------------------------------------
(* What a step does to a store. *)

LEMMA StoreFields ==
  ASSUME GTypeOK
  PROVE  /\ \A w \in Workers : /\ Store(w) \in Stores
                               /\ offset[w] \in Nat
                               /\ Clock(w) \in Nat
         /\ \A s \in Stores : /\ attempts[s] \in SUBSET Attempt
                              /\ tried[s] \in Seq(Nat)
                              /\ Len(tried[s]) \in Nat
                              /\ \A i \in 1..Len(tried[s]) : tried[s][i] \in Nat
         /\ now \in Nat /\ Window \in Nat \ {0} /\ MaxAttempts \in Nat \ {0}
  <1> USE DEF GTypeOK
  <1>1. ASSUME NEW w \in Workers
        PROVE  Store(w) \in Stores /\ offset[w] \in Nat /\ Clock(w) \in Nat
    <2>1. Store(w) \in Stores
      BY DEF Store, Stores
    <2>2. offset[w] \in Nat /\ now \in Nat
      BY OffsetAssumption
    <2>3. QED BY <2>1, <2>2 DEF Clock
  <1>2. ASSUME NEW s \in Stores
        PROVE  /\ attempts[s] \in SUBSET Attempt
               /\ tried[s] \in Seq(Nat)
               /\ Len(tried[s]) \in Nat
               /\ \A i \in 1..Len(tried[s]) : tried[s][i] \in Nat
    <2>1. attempts[s] \in SUBSET Attempt /\ tried[s] \in Seq(Nat)
      OBVIOUS
    <2>2. QED BY <2>1
  <1>3. now \in Nat /\ Window \in Nat \ {0} /\ MaxAttempts \in Nat \ {0}
    BY LimitAssumption
  <1>4. QED BY <1>1, <1>2, <1>3

\* The key lives while any of its attempts is within the window.
LEMMA LastsASecondMore ==
  ASSUME NEW x \in Nat, NEW y \in Nat, NEW m \in Nat, x <= y, Window \in Nat, m - x < Window
  PROVE  m < y + Window + Second
  BY SecondAssumption

\* A clock that is ahead counts as long.
LEMMA SameOnEachClock ==
  ASSUME NEW x \in Nat, NEW y \in Nat, NEW m \in Nat, NEW o \in Nat, NEW z \in Nat,
         x <= y, m - y > z
  PROVE  m + o - (x + o) > z /\ m + o - (x + o) >= z
  OBVIOUS

\* What is earlier is farther from what is later.
LEMMA EarlierIsFarther ==
  ASSUME NEW x \in Nat, NEW y \in Nat, NEW m \in Nat, NEW n \in Nat, NEW z \in Nat,
         x <= y, m <= n, m - y >= z
  PROVE  n - x >= z
  OBVIOUS

\* A store that nobody writes stays right while time passes and workers finish.
LEMMA StoreRests ==
  ASSUME GInv, NEW s \in Stores, GTypeOK',
         attempts'[s] = attempts[s], tried'[s] = tried[s],
         UNCHANGED <<backend, offset>>, now' \in {now, now + 1},
         BusyOn(s)' \subseteq BusyOn(s)
  PROVE  StoreIsRight(s)'
  <1>1. StoreIsRight(s) /\ GTypeOK
    BY DEF GInv
  <1>2. /\ tried[s] \in Seq(Nat) /\ Len(tried[s]) \in Nat
        /\ \A i \in 1..Len(tried[s]) : tried[s][i] \in Nat
        /\ now \in Nat /\ Window \in Nat \ {0}
    BY <1>1, StoreFields
  <1>3. WindowsAgree' = WindowsAgree /\ AtOnce' = AtOnce
    BY DEF WindowsAgree, ClocksAgree, AtOnce
  <1>4. InOrder(s)'
    <2>1. InOrder(s)
      BY <1>1 DEF StoreIsRight
    <2>2. ASSUME NEW i \in 1..Len(tried[s])
          PROVE  tried[s][i] <= now'
      BY <1>2, <2>1 DEF InOrder
    <2>3. QED BY <2>1, <2>2 DEF InOrder
  <1>5. RecordsAreTries(s)'
    BY <1>1, <1>3 DEF StoreIsRight, RecordsAreTries, Store
  <1>6. TriesAreRecorded(s)'
    <2>1. TriesAreRecorded(s)
      BY <1>1 DEF StoreIsRight
    <2>2. \A i \in 1..Len(tried[s]) : now' - tried[s][i] < Window => now - tried[s][i] < Window
      BY <1>2
    <2>3. QED BY <1>3, <2>1, <2>2 DEF TriesAreRecorded, Store
  <1>7. RoomLeft(s)'
    <2> DEFINE n == Cardinality(BusyOn(s))
               m == Cardinality(BusyOn(s)')
    <2>1. n \in Nat /\ m \in Nat /\ m <= n /\ n <= AtOnce /\ AtOnce \in Nat
      <3>1. IsFiniteSet(BusyOn(s)) /\ n \in Nat /\ n <= AtOnce /\ AtOnce \in Nat
        BY <1>1, BusyCounts
      <3>2. IsFiniteSet(BusyOn(s)') /\ m <= n
        BY <3>1, FS_Subset
      <3>3. QED BY <3>1, <3>2, FS_CardinalityType
    <2>2. SUFFICES ASSUME WindowsAgree, BusyOn(s)' # {}, NEW i \in 1..Len(tried[s]),
                          i = Len(tried[s]) + m - AtOnce
                   PROVE  now' - tried[s][i] >= Window
      BY <1>3 DEF RoomLeft
    <2> HIDE DEF n, m
    <2>3. Len(tried[s]) + n - AtOnce \in 1..Len(tried[s]) /\ i <= Len(tried[s]) + n - AtOnce
      BY <1>2, <2>1, <2>2
    <2>4. now - tried[s][Len(tried[s]) + n - AtOnce] >= Window
      BY <1>1, <2>2, <2>3 DEF StoreIsRight, RoomLeft, n
    <2>5. tried[s][i] <= tried[s][Len(tried[s]) + n - AtOnce]
      BY <1>1, <2>3 DEF StoreIsRight, InOrder
    <2>6. QED
      <3>1. now' \in Nat /\ now <= now'
        BY <1>2
      <3>2. tried[s][i] \in Nat /\ tried[s][Len(tried[s]) + n - AtOnce] \in Nat /\ Window \in Nat
        BY <1>2, <2>3
      <3>3. QED BY <1>2, <2>4, <2>5, <3>1, <3>2, EarlierIsFarther
  <1>8. Spread(s)'
    BY <1>1, <1>3 DEF StoreIsRight, Spread
  <1>9. QED BY <1>4, <1>5, <1>6, <1>7, <1>8 DEF StoreIsRight

\* An empty store is right.
LEMMA StoreEmptied ==
  ASSUME GTypeOK', NEW s \in Stores, attempts'[s] = {}, tried'[s] = << >>, AtOnce' \in Nat
  PROVE  StoreIsRight(s)'
  <1>1. Len(tried'[s]) = 0
    OBVIOUS
  <1>2. InOrder(s)' /\ TriesAreRecorded(s)' /\ RoomLeft(s)'
    BY <1>1 DEF InOrder, TriesAreRecorded, RoomLeft
  <1>3. RecordsAreTries(s)'
    BY FS_EmptySet DEF RecordsAreTries
  <1>4. Spread(s)'
    <2>1. PICK n \in Nat : n = AtOnce'
      OBVIOUS
    <2>2. 1..(0 - n) = {}
      OBVIOUS
    <2>3. QED BY <1>1, <2>1, <2>2 DEF Spread
  <1>5. QED BY <1>2, <1>3, <1>4 DEF StoreIsRight

\* What is recorded and still within the window is active.
LEMMA RecentIsActive ==
  ASSUME GInv, NEW w \in Workers, WindowsAgree, NEW i \in 1..Len(tried[Store(w)]),
         now - tried[Store(w)][i] < Window
  PROVE  [nth |-> i, time |-> tried[Store(w)][i] + offset[w]] \in Active(w)
  <1> DEFINE s == Store(w)
             a == [nth |-> i, time |-> tried[s][i] + offset[w]]
  <1>1. s \in Stores /\ StoreIsRight(s)
    BY StoreFields DEF GInv
  <1>2. /\ tried[s] \in Seq(Nat) /\ Len(tried[s]) \in Nat /\ tried[s][i] \in Nat
        /\ now \in Nat /\ offset[w] \in Nat /\ Window \in Nat
    BY StoreFields DEF GInv
  <1>3. a \in attempts[s]
    BY <1>1 DEF StoreIsRight, TriesAreRecorded
  <1>4. a \in Key(w)
    <2>1. SUFFICES ASSUME backend = "redis"
                   PROVE  now < expires
      BY <1>2, <1>3 DEF Key, GInv, GTypeOK
    <2>2. s = Shared
      BY <2>1 DEF Store
    <2>3. tried[s] # << >> /\ Len(tried[s]) \in 1..Len(tried[s])
      BY <1>2
    <2>4. expires = tried[s][Len(tried[s])] + Window + Second
      BY <2>1, <2>2, <2>3 DEF GInv, KeyLives
    <2>5. tried[s][i] <= tried[s][Len(tried[s])] /\ tried[s][Len(tried[s])] \in Nat
      <3>1. InOrder(s)
        BY <1>1 DEF StoreIsRight
      <3>2. i <= Len(tried[s]) /\ tried[s][Len(tried[s])] \in Nat
        BY <1>2, <2>3
      <3>3. QED BY <2>3, <3>1, <3>2 DEF InOrder
    <2>6. now - tried[s][i] < Window
      OBVIOUS
    <2>7. PICK x, y \in Nat : x = tried[s][i] /\ y = tried[s][Len(tried[s])] /\ x <= y
      BY <1>2, <2>5
    <2>8. now < y + Window + Second
      BY <1>2, <2>6, <2>7, LastsASecondMore
    <2>9. QED BY <2>4, <2>7, <2>8
  <1>5. ~Outdated(w, a.time)
    <2>1. Clock(w) - a.time = now - tried[s][i]
      BY <1>2 DEF Clock
    <2>2. QED BY <1>2, <2>1 DEF Outdated
  <1>6. QED BY <1>4, <1>5 DEF Active

\* What is active is recorded.
LEMMA ActiveIsRecorded ==
  ASSUME GInv, NEW w \in Workers
  PROVE  /\ Active(w) \subseteq attempts[Store(w)]
         /\ Active(w) \in SUBSET Attempt
         /\ IsFiniteSet(Active(w))
  <1>1. Active(w) \subseteq attempts[Store(w)]
    BY DEF Active, Key
  <1>2. attempts[Store(w)] \in SUBSET Attempt /\ IsFiniteSet(attempts[Store(w)])
    BY StoreFields DEF GInv, StoreIsRight, RecordsAreTries
  <1>3. QED BY <1>1, <1>2, FS_Subset

\* Whoever is let in finds the last attempts of the limit outside the window.
LEMMA LetInFindsRoom ==
  ASSUME GInv, NEW w \in Workers, WindowsAgree, ~Limited(w),
         NEW i \in 1..Len(tried[Store(w)]), i <= Len(tried[Store(w)]) - MaxAttempts + 1
  PROVE  now - tried[Store(w)][i] >= Window
  <1> DEFINE s == Store(w)
  <1>1. /\ s \in Stores /\ StoreIsRight(s) /\ Len(tried[s]) \in Nat
        /\ now \in Nat /\ Window \in Nat /\ MaxAttempts \in Nat
        /\ \A j \in 1..Len(tried[s]) : tried[s][j] \in Nat
    BY StoreFields DEF GInv
  <1>2. SUFFICES ASSUME now - tried[s][i] < Window
                 PROVE  FALSE
    BY <1>1
  <1>3. ASSUME NEW j \in i..Len(tried[s])
        PROVE  \E a \in Active(w) : a.nth = j
    <2>1. j \in 1..Len(tried[s]) /\ i <= j
      BY <1>1
    <2>2. now - tried[s][j] < Window
      BY <1>1, <1>2, <2>1 DEF StoreIsRight, InOrder
    <2>3. [nth |-> j, time |-> tried[s][j] + offset[w]] \in Active(w)
      BY <2>1, <2>2, RecentIsActive
    <2>4. QED BY <2>3
  <1>4. Cardinality(Active(w)) >= Len(tried[s]) - i + 1
    <2>1. i \in Nat /\ Len(tried[s]) \in Nat
      BY <1>1
    <2>2. QED BY <1>3, <2>1, ActiveIsRecorded, NumberedAttempts
  <1>5. Cardinality(Active(w)) \in Nat
    BY ActiveIsRecorded, FS_CardinalityType
  <1> HIDE DEF s
  <1>6. i \in Nat /\ i <= Len(tried[s]) - MaxAttempts + 1
    BY <1>1 DEF s
  <1>7. QED BY <1>1, <1>4, <1>5, <1>6 DEF Limited

-----------------------------------------------------------------------------
(* Every step of the limiter keeps the invariant. *)

LEMMA AskInv ==
  ASSUME GInv, NEW w \in Workers, NEW s \in Stores, s = Store(w), Ask(w)
  PROVE  GInv'
  <1>1. GTypeOK /\ Active(w) \in SUBSET Attempt
    BY StoreFields, ActiveIsRecorded DEF GInv
  <1>2. GTypeOK' /\ AtOnce' = AtOnce /\ WindowsAgree' = WindowsAgree
    <2>1. attempts' \in [Stores -> SUBSET Attempt]
      BY <1>1 DEF Ask, GTypeOK
    <2>2. busy' \subseteq Workers
      BY <1>1 DEF Ask, GTypeOK
    <2>3. QED BY <1>1, <2>1, <2>2 DEF Ask, GTypeOK, AtOnce, WindowsAgree, ClocksAgree
  <1>3. KeyLives'
    BY DEF GInv, KeyLives, Ask
  <1>4. ASSUME NEW t \in Stores, t # s
        PROVE  StoreIsRight(t)'
    <2>1. attempts'[t] = attempts[t] /\ tried'[t] = tried[t] /\ now' = now
      BY <1>1, <1>4 DEF Ask, GTypeOK
    <2>2. BusyOn(t)' \subseteq BusyOn(t)
      BY <1>4 DEF BusyOn, Ask, Store
    <2>3. QED BY <1>2, <2>1, <2>2, StoreRests DEF Ask
  <1>5. attempts'[s] = Active(w) /\ tried' = tried /\ now' = now /\ UNCHANGED <<backend, offset>>
    BY <1>1 DEF Ask, GTypeOK
  <1>6. StoreIsRight(s)
    BY <1>1 DEF GInv
  <1>7. \A v \in Workers : Store(v)' = Store(v)
    BY DEF Ask, Store
  <1>8. InOrder(s)' /\ Spread(s)'
    BY <1>2, <1>5, <1>6 DEF StoreIsRight, InOrder, Spread
  <1>9. RecordsAreTries(s)'
    <2>1. Active(w) \subseteq attempts[s] /\ IsFiniteSet(Active(w))
      BY ActiveIsRecorded
    <2>2. QED BY <1>2, <1>5, <1>6, <1>7, <2>1 DEF StoreIsRight, RecordsAreTries
  <1>10. TriesAreRecorded(s)'
    <2>1. SUFFICES ASSUME WindowsAgree, NEW v \in Workers, NEW i \in 1..Len(tried[s]),
                          Store(v) = s, now - tried[s][i] < Window
                   PROVE  [nth |-> i, time |-> tried[s][i] + offset[v]] \in Active(w)
      BY <1>2, <1>5, <1>7 DEF TriesAreRecorded
    <2>2. [nth |-> i, time |-> tried[s][i] + offset[w]] \in Active(w)
      BY <2>1, RecentIsActive
    <2>3. offset[v] = offset[w]
      BY <2>1 DEF WindowsAgree, ClocksAgree, Store
    <2>4. QED BY <2>2, <2>3
  <1>11. RoomLeft(s)'
    <2>1. CASE Limited(w)
      <3>1. BusyOn(s)' = BusyOn(s)
        BY <2>1 DEF Ask, BusyOn, Store
      <3>2. QED BY <1>2, <1>5, <1>6, <3>1 DEF StoreIsRight, RoomLeft
    <2>2. CASE ~Limited(w)
      <3>1. PICK n : n = Cardinality(BusyOn(s)')
        OBVIOUS
      <3>2. n \in Nat /\ n <= AtOnce - MaxAttempts + 1 /\ AtOnce \in Nat
        <4>1. BusyOn(s)' \in SUBSET {v \in Workers : Store(v) = s}
          BY <1>2, <1>7 DEF BusyOn, GTypeOK
        <4>2. PICK B : B = BusyOn(s)'
          OBVIOUS
        <4>3. /\ Cardinality(B) \in Nat /\ Cardinality(B) <= AtOnce - MaxAttempts + 1
              /\ AtOnce \in Nat
          BY <1>1, <4>1, <4>2, AtOnceCounts
        <4>4. QED BY <3>1, <4>2, <4>3
      <3>3. SUFFICES ASSUME WindowsAgree, NEW i \in 1..Len(tried[s]),
                            i = Len(tried[s]) + n - AtOnce
                     PROVE  now - tried[s][i] >= Window
        BY <1>2, <1>5, <3>1 DEF RoomLeft
      <3>4. i <= Len(tried[s]) - MaxAttempts + 1
        BY <3>2, <3>3, <1>1, StoreFields
      <3>5. QED BY <2>2, <3>3, <3>4, LetInFindsRoom
    <2>3. QED BY <2>1, <2>2
  <1>12. QED BY <1>2, <1>3, <1>4, <1>8, <1>9, <1>10, <1>11 DEF GInv, StoreIsRight

LEMMA FailInv ==
  ASSUME GInv, NEW w \in Workers, NEW s \in Stores, s = Store(w), Fail(w)
  PROVE  GInv'
  <1>1. PICK k : k = Len(tried[s])
    OBVIOUS
  <1>2. PICK new : new = [nth |-> k + 1, time |-> Clock(w)]
    OBVIOUS
  <1>3. /\ GTypeOK /\ StoreIsRight(s) /\ Active(w) \in SUBSET Attempt
        /\ tried[s] \in Seq(Nat) /\ k \in Nat /\ now \in Nat /\ offset[w] \in Nat
        /\ Clock(w) \in Nat /\ Window \in Nat \ {0}
        /\ \A i \in 1..k : tried[s][i] \in Nat
    BY <1>1, StoreFields, ActiveIsRecorded DEF GInv
  <1>4. new \in Attempt
    BY <1>2, <1>3 DEF Attempt
  <1>5. /\ attempts' = [attempts EXCEPT ![s] = Active(w) \cup {new}]
        /\ tried' = [tried EXCEPT ![s] = Append(tried[s], now)]
        /\ UNCHANGED <<backend, offset, now>>
    BY <1>1, <1>2 DEF Fail
  <1>6. \A v \in Workers : Store(v)' = Store(v)
    BY <1>5 DEF Store
  <1>7. GTypeOK' /\ AtOnce' = AtOnce /\ WindowsAgree' = WindowsAgree
    <2>1. attempts' \in [Stores -> SUBSET Attempt]
      BY <1>3, <1>4, <1>5 DEF GTypeOK
    <2>2. tried' \in [Stores -> Seq(Nat)]
      BY <1>3, <1>5 DEF GTypeOK
    <2>3. busy' \subseteq Workers /\ expires' \in Nat
      BY <1>3, SecondAssumption DEF Fail, GTypeOK
    <2>4. QED BY <1>3, <1>5, <2>1, <2>2, <2>3 DEF GTypeOK, AtOnce, WindowsAgree, ClocksAgree
  <1>8. /\ attempts'[s] = Active(w) \cup {new}
        /\ tried'[s] = Append(tried[s], now)
        /\ \A t \in Stores \ {s} : attempts'[t] = attempts[t] /\ tried'[t] = tried[t]
    BY <1>3, <1>5 DEF GTypeOK
  <1>9. /\ Len(tried'[s]) = k + 1
        /\ tried'[s][k + 1] = now
        /\ \A i \in 1..k : tried'[s][i] = tried[s][i]
    BY <1>1, <1>3, <1>8
  <1>10. ASSUME NEW t \in Stores, t # s
        PROVE  StoreIsRight(t)'
    <2>1. BusyOn(t)' \subseteq BusyOn(t)
      BY <1>5 DEF BusyOn, Fail, Store
    <2>2. QED BY <1>5, <1>7, <1>8, <1>10, <2>1, StoreRests
  <1>11. KeyLives'
    <2>1. CASE backend = "redis"
      <3>1. s = Shared /\ expires' = now + Window + Second
        BY <2>1 DEF Store, Fail
      <3>2. QED BY <1>9, <3>1 DEF KeyLives
    <2>2. CASE backend # "redis"
      BY <1>5, <2>2 DEF KeyLives
    <2>3. QED BY <2>1, <2>2
  <1>12. /\ \A i, j \in 1..k : i <= j => tried[s][i] <= tried[s][j]
         /\ \A i \in 1..k : tried[s][i] <= now
    BY <1>1, <1>3 DEF StoreIsRight, InOrder
  <1>13. BusyOn(s)' = BusyOn(s) \ {w} /\ w \in BusyOn(s)
    BY <1>5 DEF BusyOn, Fail, Store
  <1>14. Active(w) \subseteq attempts[s] /\ IsFiniteSet(Active(w))
    BY ActiveIsRecorded
  <1>15. \A i \in 1..k : WindowsAgree /\ now - tried[s][i] < Window =>
            [nth |-> i, time |-> tried[s][i] + offset[w]] \in Active(w)
    BY <1>1, RecentIsActive
  <1>16. new.nth = k + 1 /\ new = [nth |-> k + 1, time |-> now + offset[w]]
    BY <1>2 DEF Clock
  <1>17. \A v \in Workers : WindowsAgree /\ Store(v) = s => offset[v] = offset[w]
    BY DEF WindowsAgree, ClocksAgree, Store
  <1>19. PICK n : n = Cardinality(BusyOn(s))
    OBVIOUS
  <1>20. /\ n \in Nat \ {0} /\ n <= AtOnce /\ AtOnce \in Nat \ {0}
         /\ Cardinality(BusyOn(s)') = n - 1
    <2>1. IsFiniteSet(BusyOn(s)) /\ n \in Nat /\ n <= AtOnce /\ AtOnce \in Nat \ {0}
      BY <1>3, <1>19, BusyCounts
    <2>2. Cardinality(BusyOn(s)') = n - 1
      BY <1>13, <1>19, <2>1, FS_RemoveElement
    <2>3. n # 0
      BY <1>13, <1>19, <2>1, FS_EmptySet
    <2>4. QED BY <2>1, <2>2, <2>3
  <1>21. WindowsAgree => \A i \in 1..k : i = k + n - AtOnce => now - tried[s][i] >= Window
    BY <1>1, <1>3, <1>13, <1>19 DEF StoreIsRight, RoomLeft
  <1>22. RecordsAreTries(s)
    BY <1>3 DEF StoreIsRight
  <1>23. Spread(s)
    BY <1>3 DEF StoreIsRight
  <1>24. InOrder(s)'
    <2>1. \A i \in 1..(k + 1) : i \in 1..k \/ i = k + 1
      BY <1>3
    <2>2. QED BY <1>3, <1>5, <1>9, <1>12, <2>1 DEF InOrder
  <1>25. RecordsAreTries(s)'
    <2>1. IsFiniteSet(attempts'[s])
      BY <1>8, <1>14, FS_AddElement
    <2>2. ASSUME NEW a \in attempts'[s]
          PROVE  /\ a.nth \in 1..Len(tried'[s])
                 /\ \A v \in Workers : WindowsAgree /\ Store(v) = s =>
                      a.time = tried'[s][a.nth] + offset[v]
      <3>1. CASE a = new
        BY <1>3, <1>9, <1>16, <1>17, <3>1
      <3>2. CASE a \in attempts[s]
        <4>1. a.nth \in 1..k
          BY <1>1, <1>22, <3>2 DEF RecordsAreTries
        <4>2. a.nth \in 1..(k + 1)
          BY <1>3, <4>1
        <4>3. QED BY <1>9, <1>22, <3>2, <4>1, <4>2 DEF RecordsAreTries
      <3>3. QED BY <1>8, <1>14, <2>2, <3>1, <3>2
    <2>3. QED BY <1>5, <1>6, <1>7, <2>1, <2>2 DEF RecordsAreTries
  <1>26. TriesAreRecorded(s)'
    <2>1. SUFFICES ASSUME WindowsAgree, NEW v \in Workers, NEW i \in 1..(k + 1),
                          Store(v) = s, now - tried'[s][i] < Window
                   PROVE  [nth |-> i, time |-> tried'[s][i] + offset[v]] \in attempts'[s]
      BY <1>5, <1>6, <1>7, <1>9 DEF TriesAreRecorded
    <2>2. offset[v] = offset[w]
      BY <1>17, <2>1
    <2>3. CASE i = k + 1
      BY <1>8, <1>9, <1>16, <2>2, <2>3
    <2>4. CASE i # k + 1
      <3>1. i \in 1..k
        BY <1>3, <2>4
      <3>2. QED BY <1>8, <1>9, <1>15, <2>1, <2>2, <3>1
    <2>5. QED BY <2>3, <2>4
  <1>27. RoomLeft(s)'
    <2>1. SUFFICES ASSUME WindowsAgree, BusyOn(s)' # {}, NEW i \in 1..(k + 1),
                          i = k + 1 + (n - 1) - AtOnce
                   PROVE  now - tried'[s][i] >= Window
      BY <1>5, <1>7, <1>9, <1>20 DEF RoomLeft
    <2>2. i = k + n - AtOnce /\ i \in 1..k
      BY <1>3, <1>20, <2>1
    <2>3. QED BY <1>9, <1>21, <2>1, <2>2
  <1>28. ASSUME WindowsAgree, NEW i \in 1..(k + 1 - AtOnce)
         PROVE  tried'[s][i + AtOnce] - tried'[s][i] >= Window
    <2>1. i \in 1..k
      BY <1>3, <1>20
    <2>2. CASE i + AtOnce \in 1..k
      <3>1. i \in 1..(k - AtOnce)
        BY <1>3, <1>20, <2>1, <2>2
      <3>2. tried[s][i + AtOnce] - tried[s][i] >= Window
        BY <1>1, <1>23, <1>28, <3>1 DEF Spread
      <3>3. QED BY <1>9, <2>1, <2>2, <3>2
    <2>3. CASE i + AtOnce = k + 1
      <3>1. k + n - AtOnce \in 1..k /\ i <= k + n - AtOnce
        BY <1>3, <1>20, <2>1, <2>3
      <3>2. now - tried[s][k + n - AtOnce] >= Window
        BY <1>21, <1>28, <3>1
      <3>3. tried[s][i] <= tried[s][k + n - AtOnce]
        BY <1>12, <2>1, <3>1
      <3>4. tried[s][i] \in Nat /\ tried[s][k + n - AtOnce] \in Nat
        BY <1>3, <2>1, <3>1
      <3>5. now - tried[s][i] >= Window
        <4>1. \A x, y \in Nat : x <= y /\ now - y >= Window => now - x >= Window
          BY <1>3
        <4>2. QED BY <3>2, <3>3, <3>4, <4>1
      <3>6. QED BY <1>9, <2>1, <2>3, <3>5
    <2>4. QED BY <1>3, <1>20, <1>28, <2>2, <2>3
  <1>29. Spread(s)'
    <2>1. PICK m \in Nat : m = AtOnce /\ m = AtOnce'
      BY <1>7, <1>20
    <2>2. PICK last : last = Len(tried'[s]) /\ last = k + 1
      BY <1>9
    <2>3. SUFFICES ASSUME WindowsAgree, NEW i \in 1..(last - m)
                   PROVE  tried'[s][i + m] - tried'[s][i] >= Window
      BY <1>7, <2>1, <2>2 DEF Spread
    <2>4. last - m = k + 1 - AtOnce
      <3>1. k \in Nat
        BY <1>3
      <3>2. QED BY <2>1, <2>2, <3>1
    <2>5. QED BY <1>28, <2>1, <2>3, <2>4
  <1>30. StoreIsRight(s)'
    BY <1>24, <1>25, <1>26, <1>27, <1>29 DEF StoreIsRight
  <1>31. QED BY <1>7, <1>10, <1>11, <1>30 DEF GInv

\* A login that succeeds, or a restart, empties a store.
LEMMA ClearedInv ==
  ASSUME GInv, NEW w \in Workers, NEW s \in Stores, Cleared(s), busy' = busy \ {w},
         UNCHANGED <<backend, offset, now, expires>>
  PROVE  GInv'
  <1>1. /\ attempts' \in [Stores -> SUBSET Attempt]
        /\ tried' \in [Stores -> Seq(Nat)]
        /\ attempts'[s] = {} /\ tried'[s] = << >>
        /\ \A t \in Stores \ {s} : attempts'[t] = attempts[t] /\ tried'[t] = tried[t]
    BY DEF GInv, GTypeOK, Cleared
  <1>2. GTypeOK' /\ AtOnce' = AtOnce
    BY <1>1 DEF GInv, GTypeOK, AtOnce
  <1>3. KeyLives'
    <2>1. CASE s = Shared
      BY <1>1, <2>1 DEF KeyLives
    <2>2. CASE s # Shared
      <3>1. Shared \in Stores \ {s}
        BY <2>2 DEF Stores
      <3>2. QED BY <1>1, <3>1 DEF KeyLives, GInv
    <2>3. QED BY <2>1, <2>2
  <1>4. StoreIsRight(s)'
    <2>1. AtOnce' \in Nat
      BY <1>2, BusyCounts DEF GInv
    <2>2. QED BY <1>1, <1>2, <2>1, StoreEmptied
  <1>5. ASSUME NEW t \in Stores \ {s}
        PROVE  StoreIsRight(t)'
    <2>1. BusyOn(t)' \subseteq BusyOn(t)
      BY DEF BusyOn, Store
    <2>2. QED BY <1>1, <1>2, <1>5, <2>1, StoreRests
  <1>6. QED BY <1>2, <1>3, <1>4, <1>5 DEF GInv

LEMMA PassInv ==
  ASSUME GInv, Pass
  PROVE  GInv'
  <1>1. GTypeOK'
    BY DEF GInv, GTypeOK, Pass
  <1>2. KeyLives'
    BY DEF GInv, KeyLives, Pass
  <1>3. ASSUME NEW s \in Stores
        PROVE  StoreIsRight(s)'
    <2>1. BusyOn(s)' \subseteq BusyOn(s)
      BY DEF BusyOn, Pass, Store
    <2>2. QED BY <1>1, <2>1, StoreRests DEF Pass
  <1>4. QED BY <1>1, <1>2, <1>3 DEF GInv

LEMMA GInitInv == GInit => GInv
  <1> SUFFICES ASSUME GInit
               PROVE  GInv
    OBVIOUS
  <1>1. GTypeOK
    BY DEF GInit, GTypeOK
  <1>2. ASSUME NEW s \in Stores
        PROVE  StoreIsRight(s)
    <2>1. attempts[s] = {} /\ tried[s] = << >> /\ Len(tried[s]) = 0
      BY DEF GInit
    <2>2. PICK n \in Nat : n = AtOnce
      BY <1>1, BusyCounts
    <2>3. 1..(0 - n) = {}
      OBVIOUS
    <2>4. Spread(s)
      BY <2>1, <2>2, <2>3 DEF Spread
    <2>5. InOrder(s) /\ TriesAreRecorded(s) /\ RoomLeft(s)
      BY <2>1 DEF InOrder, TriesAreRecorded, RoomLeft
    <2>6. RecordsAreTries(s)
      BY <2>1, FS_EmptySet DEF RecordsAreTries
    <2>7. QED BY <2>4, <2>5, <2>6 DEF StoreIsRight
  <1>3. KeyLives
    BY DEF KeyLives, GInit, Stores
  <1>4. QED BY <1>1, <1>2, <1>3 DEF GInv

LEMMA GStepInv == GInv /\ [GNext]_gvars => GInv'
  <1> SUFFICES ASSUME GInv, [GNext]_gvars
               PROVE  GInv'
    OBVIOUS
  <1>1. CASE UNCHANGED gvars
    <2>1. GTypeOK' /\ KeyLives'
      BY <1>1 DEF gvars, GInv, GTypeOK, KeyLives
    <2>2. ASSUME NEW s \in Stores
          PROVE  StoreIsRight(s)'
      <3>1. BusyOn(s)' \subseteq BusyOn(s)
        BY <1>1 DEF gvars, BusyOn, Store
      <3>2. QED BY <1>1, <2>1, <3>1, StoreRests DEF gvars
    <2>3. QED BY <2>1, <2>2 DEF GInv
  <1>2. ASSUME NEW w \in Workers, Succeed(w) \/ Restart(w)
        PROVE  GInv'
    <2>1. w \in Stores /\ Store(w) \in Stores
      BY StoreFields DEF Stores, GInv
    <2>2. QED BY <1>2, <2>1, ClearedInv DEF Succeed, Restart
  <1>3. ASSUME NEW w \in Workers, Ask(w) \/ Fail(w)
        PROVE  GInv'
    <2>1. PICK s \in Stores : s = Store(w)
      BY StoreFields DEF GInv
    <2>2. QED BY <1>3, <2>1, AskInv, FailInv
  <1>4. QED BY <1>1, <1>2, <1>3, PassInv DEF GNext

\* The inductive invariant of the limiter holds in every reachable state.
THEOREM GInvariance == GSpec => []GInv
  BY GInitInv, GStepInv, PTL DEF GSpec

\* What the limiter keeps is well-typed, in memory as in Redis.
THEOREM GTypeCorrect == GSpec => []GTypeOK
  <1>1. GInv => GTypeOK
    BY DEF GInv
  <1>2. QED BY <1>1, GInvariance, PTL

\* is_limited and record_attempt let no more passwords be tried within a window
\* than the limit, and in Redis one more for each other worker, where the clocks
\* of the hosts agree.
THEOREM GuessesLimited == GSpec => []GuessesAreLimited
  <1>1. GInv => GuessesAreLimited
    BY DEF GInv, StoreIsRight, Spread, WindowsAgree, GuessesAreLimited
  <1>2. QED BY <1>1, GInvariance, PTL

\* A window after the last failure nobody is limited where the clocks agree, and
\* a second later nobody whatever they show.
THEOREM WaitingLetsIn == GSpec => []WaitingHelps
  <1>1. GInv => WaitingHelps
    <2> SUFFICES ASSUME GInv, NEW w \in Workers
                 PROVE  LET last == tried[Store(w)][Len(tried[Store(w)])]
                        IN  \/ tried[Store(w)] = << >>
                            \/ now - last > Window /\ WindowsAgree
                            \/ now - last >= Window + Second
                            => ~Limited(w)
      BY DEF WaitingHelps, WindowsAgree
    <2>1. PICK s, k : s = Store(w) /\ k = Len(tried[s])
      OBVIOUS
    <2>2. /\ s \in Stores /\ StoreIsRight(s) /\ k \in Nat /\ now \in Nat
          /\ Window \in Nat /\ MaxAttempts \in Nat \ {0} /\ expires \in Nat
          /\ tried[s] \in Seq(Nat) /\ \A i \in 1..k : tried[s][i] \in Nat
          /\ offset[w] \in Nat
      BY <2>1, StoreFields DEF GInv, GTypeOK
    <2>3. SUFFICES ASSUME NEW a \in Active(w),
                          \/ tried[s] = << >>
                          \/ now - tried[s][k] > Window /\ WindowsAgree
                          \/ now - tried[s][k] >= Window + Second
                   PROVE  FALSE
      <3>1. Active(w) = {} => ~Limited(w)
        BY <2>2, FS_EmptySet DEF Limited
      <3>2. QED BY <2>1, <3>1
    <2>4. a \in attempts[s] /\ a \in Key(w) /\ ~Outdated(w, a.time)
      BY <2>1, <2>3, ActiveIsRecorded DEF Active
    <2>5. a.nth \in 1..k
      BY <2>1, <2>2, <2>4 DEF StoreIsRight, RecordsAreTries
    <2>6. /\ k \in 1..k /\ tried[s] # << >> /\ tried[s][k] \in Nat
          /\ now - tried[s][k] > Window
      <3>1. k \in 1..k /\ tried[s] # << >> /\ tried[s][k] \in Nat
        BY <2>1, <2>2, <2>5
      <3>2. QED BY <2>2, <2>3, <3>1, SecondAssumption
    <2>7. ASSUME a.time = tried[s][a.nth] + offset[w]
          PROVE  FALSE
      <3>1. tried[s][a.nth] <= tried[s][k] /\ tried[s][a.nth] \in Nat
        <4>1. \A i, j \in 1..k : i <= j => tried[s][i] <= tried[s][j]
          BY <2>1, <2>2 DEF StoreIsRight, InOrder
        <4>2. a.nth <= k
          BY <2>2, <2>5
        <4>3. QED BY <2>2, <2>5, <2>6, <4>1, <4>2
      <3>2. PICK x, y \in Nat : x = tried[s][a.nth] /\ y = tried[s][k] /\ x <= y
        BY <2>6, <3>1
      <3>3. Clock(w) - a.time > Window /\ Clock(w) - a.time >= Window
        <4>1. now - y > Window
          BY <2>6, <3>2
        <4>2. /\ now + offset[w] - (x + offset[w]) > Window
              /\ now + offset[w] - (x + offset[w]) >= Window
          BY <2>2, <3>2, <4>1, SameOnEachClock
        <4>3. a.time = x + offset[w] /\ Clock(w) = now + offset[w]
          BY <2>7, <3>2 DEF Clock
        <4>4. QED BY <2>2, <4>2, <4>3
      <3>4. QED BY <2>4, <3>3 DEF Outdated
    <2>8. CASE backend = "memory"
      <3>1. a.time = tried[s][a.nth] + offset[w]
        BY <2>1, <2>2, <2>4, <2>8 DEF StoreIsRight, RecordsAreTries, WindowsAgree
      <3>2. QED BY <2>7, <3>1
    <2>9. CASE backend # "memory"
      <3>1. backend = "redis" /\ s = Shared
        BY <2>1, <2>9 DEF GInv, GTypeOK, Store
      <3>2. expires = tried[s][k] + Window + Second
        BY <2>1, <2>6, <3>1 DEF GInv, KeyLives
      <3>3. CASE now - tried[s][k] >= Window + Second
        <4>1. PICK y \in Nat : y = tried[s][k]
          BY <2>6
        <4>2. now >= y + Window + Second
          BY <2>2, <3>3, <4>1, SecondAssumption
        <4>3. QED BY <2>4, <3>1, <3>2, <4>1, <4>2 DEF Key
      <3>4. CASE WindowsAgree
        <4>1. a.time = tried[s][a.nth] + offset[w]
          BY <2>1, <2>2, <2>4, <3>1, <3>4 DEF StoreIsRight, RecordsAreTries
        <4>2. QED BY <2>7, <4>1
      <3>5. QED BY <2>3, <2>6, <3>3, <3>4
    <2>10. QED BY <2>8, <2>9
  <1>2. QED BY <1>1, GInvariance, PTL

=============================================================================
