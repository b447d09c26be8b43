------------------------- MODULE FillRequestsProofs -------------------------
(***************************************************************************)
(* Theorems about FillRequests, for any number of replicas and every       *)
(* choice of the constants.                                                *)
(***************************************************************************)
EXTENDS FillRequests, TankInventoryProofs

-----------------------------------------------------------------------------
(* What a request has in its session. *)

Form == [source : FillSource, tank : Tanks \cup {None}, litres : Litres]

Session ==
  {Idle}
    \cup [at : {"create"}, g : Groups, v : Vehicles, fuel : FuelTypes, source : FillSource,
          choice : Tanks \cup {None}, litres : Litres]
    \cup [at : {"insert"}, entry : FuelEntryRow]
    \cup [at : {"resolve"}, e : FuelEntries, loaded : FuelEntryRow, fuel : FuelTypes,
          form : Form]
    \cup [at : {"flush", "sync"}, e : FuelEntries, loaded : FuelEntryRow, form : Form,
          tank : Tanks \cup {None}]
    \cup [at : {"commit"}, e : FuelEntries, loaded : FuelEntryRow, form : Form,
          tank : Tanks \cup {None}, row : LedgerRows \cup {None}]
    \cup [at : {"find"}, e : FuelEntries]
    \cup [at : {"erase"}, e : FuelEntries, row : LedgerRows \cup {None}]
    \cup [at : {"close"}, t : Tanks]

Editing == {"resolve", "flush", "sync", "commit"}

Resolved == {"flush", "sync", "commit"}

Locking == {"sync", "commit"}

\* A fill of group g may be put there: the tank was live when it was resolved.
Placed(g, source, t) ==
  IF source = "farm" THEN /\ t \in DOMAIN tank
                          /\ tank[t].group = g
                          /\ tank[t].deleted => t \in raced
                     ELSE t = None

OfVehicle(row) == row.vehicle \in DOMAIN vehicle /\ vehicle[row.vehicle].group = row.group

\* What is still true of the contents of session q, whoever wrote meanwhile.
\* Of an entry nobody else has had open all of it is.
CreateInHand(q) ==
  /\ q.at = "create" => q.v \in DOMAIN vehicle /\ vehicle[q.v].group = q.g
  /\ q.at = "insert" => /\ OfVehicle(q.entry)
                        /\ ~q.entry.deleted
                        /\ Placed(q.entry.group, q.entry.source, q.entry.tank)

EntryInHand(q) ==
  /\ q.at \in EntryStages => q.e \in DOMAIN fuelEntry
  /\ q.at \in Editing => /\ q.loaded.group = fuelEntry[q.e].group
                         /\ q.loaded.vehicle = fuelEntry[q.e].vehicle
                         /\ ~q.loaded.deleted
                         /\ q.e \notin raced => q.loaded = fuelEntry[q.e]
  /\ q.at \in Resolved => Placed(q.loaded.group, q.form.source, q.tank)

\* A row found is one of the entry; none found for a farm fill means none will
\* be, since the entry is locked.
RowInHand(q) ==
  /\ q.at \in {"commit", "erase"} /\ q.row # None =>
       q.row \in DOMAIN ledger /\ ledger[q.row].entry = q.e
  /\ q.at = "commit" /\ q.row = None /\ q.form.source = "farm" =>
       \A l \in DOMAIN ledger : ledger[l].entry # q.e
  /\ (q.at = "erase" \/ (q.at = "commit" /\ q.form.source = "external"))
       /\ q.row = None /\ q.e \notin raced => ActiveWithdrawals(q.e) = {}

TankInHand(q) ==
  q.at = "close" => /\ q.t \in DOMAIN tank
                    /\ \A e \in FarmFills :
                         fuelEntry[e].tank = q.t => e \in raced \/ q.t \in raced

InHand(q) == CreateInHand(q) /\ EntryInHand(q) /\ RowInHand(q) /\ TankInHand(q)

\* The lock of an entry has one holder.
LocksExclude ==
  \A q, r \in Replicas :
    req[q].at \in Locking /\ req[r].at \in Locking /\ req[q].e = req[r].e => q = r

\* Two requests that have an entry open are on record.
RacesNoted ==
  \A q, r \in Replicas :
    req[q].at \in EntryStages /\ req[r].at \in EntryStages /\ req[q].e = req[r].e
      => q = r \/ req[q].e \in raced

-----------------------------------------------------------------------------
(* The inductive invariant. *)

RTypes ==
  /\ TypeOK
  /\ req \in [Replicas -> Session]
  /\ raced \subseteq DOMAIN fuelEntry \cup DOMAIN tank

RInv ==
  /\ RTypes
  /\ OneWithdrawalPerEntry
  /\ RowsStayInGroup
  /\ OnlyRacesSpoilTheLedger
  /\ OnlyRacesStrandFills
  /\ \A r \in Replicas : InHand(req[r])
  /\ LocksExclude
  /\ RacesNoted

-----------------------------------------------------------------------------
(* Sessions. *)

\* The fields of a session at each stage.
LEMMA SessionFields ==
  ASSUME NEW q \in Session
  PROVE  /\ q.at \in Stages
         /\ q.at = "idle" <=> q = Idle
         /\ q.at = "create" => /\ q.g \in Groups /\ q.v \in Vehicles /\ q.fuel \in FuelTypes
                               /\ q.source \in FillSource /\ q.choice \in Tanks \cup {None}
                               /\ q.litres \in Litres
         /\ q.at = "insert" => q.entry \in FuelEntryRow
         /\ q.at \in EntryStages => q.e \in FuelEntries
         /\ q.at \in Editing => q.loaded \in FuelEntryRow /\ q.form \in Form
         /\ q.at = "resolve" => q.fuel \in FuelTypes
         /\ q.at \in Resolved => q.tank \in Tanks \cup {None}
         /\ q.at \in {"commit", "erase"} => q.row \in LedgerRows \cup {None}
         /\ q.at = "close" => q.t \in Tanks
  BY DEF Session, Stages, EntryStages, Editing, Resolved, Idle

\* What the handlers put into a session is one.
LEMMA AreSessions ==
  /\ Idle \in Session
  /\ \A g \in Groups, v \in Vehicles, fuel \in FuelTypes, source \in FillSource,
        choice \in Tanks \cup {None}, litres \in Litres :
       [at |-> "create", g |-> g, v |-> v, fuel |-> fuel, source |-> source,
        choice |-> choice, litres |-> litres] \in Session
  /\ \A entry \in FuelEntryRow : [at |-> "insert", entry |-> entry] \in Session
  /\ \A e \in FuelEntries, loaded \in FuelEntryRow, form \in Form :
       /\ \A fuel \in FuelTypes :
            [at |-> "resolve", e |-> e, loaded |-> loaded, fuel |-> fuel, form |-> form]
              \in Session
       /\ \A t \in Tanks \cup {None} :
            /\ [at |-> "flush", e |-> e, loaded |-> loaded, form |-> form, tank |-> t]
                 \in Session
            /\ [at |-> "sync", e |-> e, loaded |-> loaded, form |-> form, tank |-> t]
                 \in Session
            /\ \A l \in LedgerRows \cup {None} :
                 [at |-> "commit", e |-> e, loaded |-> loaded, form |-> form, tank |-> t,
                  row |-> l] \in Session
  /\ \A e \in FuelEntries :
       /\ [at |-> "find", e |-> e] \in Session
       /\ \A l \in LedgerRows \cup {None} : [at |-> "erase", e |-> e, row |-> l] \in Session
  /\ \A t \in Tanks : [at |-> "close", t |-> t] \in Session
  BY DEF Session

\* The session of a replica may be given a name.
LEMMA InHandNamed ==
  ASSUME NEW r, NEW q
  PROVE  /\ q = req[r] => (InHand(q) <=> InHand(req[r]))
         /\ q = req'[r] => (InHand(q)' <=> InHand(req[r])')
  BY DEF InHand, CreateInHand, EntryInHand, RowInHand, TankInHand

-----------------------------------------------------------------------------
(* What the other requests keep in hand while the tables move. *)

\* No row leaves its table, its group, its vehicle or its entry.
TablesGrow ==
  /\ \A v \in DOMAIN vehicle : v \in DOMAIN vehicle' /\ vehicle'[v].group = vehicle[v].group
  /\ \A t \in DOMAIN tank : t \in DOMAIN tank' /\ tank'[t].group = tank[t].group
  /\ \A e \in DOMAIN fuelEntry : /\ e \in DOMAIN fuelEntry'
                                 /\ fuelEntry'[e].group = fuelEntry[e].group
                                 /\ fuelEntry'[e].vehicle = fuelEntry[e].vehicle
  /\ \A l \in DOMAIN ledger : ledger[l].entry # None =>
                                l \in DOMAIN ledger' /\ ledger'[l].entry = ledger[l].entry
  /\ raced \subseteq raced'

\* Nothing is written that session k has read, or it is on record.
Spared(k) ==
  /\ k.at \in EntryStages =>
       k.e \in raced' \/ /\ fuelEntry'[k.e] = fuelEntry[k.e]
                         /\ ActiveWithdrawals(k.e)' \subseteq ActiveWithdrawals(k.e)
  /\ k.at = "commit" =>
       \A l \in DOMAIN ledger' : ledger'[l].entry = k.e =>
                                   l \in DOMAIN ledger /\ ledger[l].entry = k.e
  /\ k.at = "insert" \/ k.at \in Resolved =>
       LET t == IF k.at = "insert" THEN k.entry.tank ELSE k.tank
       IN  t \in DOMAIN tank /\ tank'[t].deleted => tank[t].deleted \/ t \in raced'
  /\ k.at = "close" =>
       \A e \in FarmFills' : fuelEntry'[e].tank = k.t =>
          \/ e \in raced' \/ k.t \in raced'
          \/ e \in FarmFills /\ fuelEntry[e].tank = k.t

LEMMA InHandStays ==
  ASSUME NEW k \in Session, InHand(k), TablesGrow, Spared(k)
  PROVE  InHand(k)'
  <1>1. k.at \in EntryStages => k.e # None BY SessionFields, NoneAssumption
  <1>2. CreateInHand(k)'
    BY SessionFields DEF InHand, CreateInHand, OfVehicle, Placed, TablesGrow, Spared
  <1>3. EntryInHand(k)'
    BY DEF InHand, EntryInHand, Placed, TablesGrow, Spared, Editing, Resolved, EntryStages
  <1>4. RowInHand(k)'
    BY <1>1 DEF InHand, RowInHand, TablesGrow, Spared, EntryStages
  <1>5. TankInHand(k)'
    BY DEF InHand, TankInHand, TablesGrow, Spared
  <1>6. QED BY <1>2, <1>3, <1>4, <1>5 DEF InHand

-----------------------------------------------------------------------------
(* Steps that only read. *)

\* Where the tables stay, so does what is in hand.
LEMMA InHandRests ==
  ASSUME NEW k \in Session, InHand(k), UNCHANGED vars, raced \subseteq raced'
  PROVE  InHand(k)'
  <1>1. UNCHANGED <<vehicle, tank, fuelEntry, ledger>> BY DEF vars
  <1>2. TablesGrow BY <1>1 DEF TablesGrow
  <1>3. Spared(k) BY <1>1 DEF Spared, ActiveWithdrawals, Withdrawals, FarmFills
  <1>4. QED BY <1>2, <1>3, InHandStays

\* A request reads on and keeps q in hand.
LEMMA QuietInv ==
  ASSUME RInv, UNCHANGED vars, NEW r \in Replicas, NEW q \in Session, Continue(r, q),
         raced \subseteq raced', raced' \subseteq DOMAIN fuelEntry \cup DOMAIN tank,
         InHand(q),
         q.at \in Locking =>
           \A p \in Replicas \ {r} : ~(req[p].at \in Locking /\ req[p].e = q.e),
         q.at \in EntryStages =>
           \A p \in Replicas \ {r} :
             req[p].at \in EntryStages /\ req[p].e = q.e => q.e \in raced'
  PROVE  RInv'
  <1> USE DEF RInv
  <1>1. req' = [req EXCEPT ![r] = q] /\ req \in [Replicas -> Session]
    BY DEF Continue, RTypes
  <1>2. UNCHANGED <<vehicle, tank, fuelEntry, ledger>> BY DEF vars
  <1>3. RTypes' BY <1>1, <1>2 DEF RTypes, TypeOK
  <1>4. (OneWithdrawalPerEntry /\ RowsStayInGroup)'
    BY <1>2 DEF OneWithdrawalPerEntry, RowsStayInGroup
  <1>5. OnlyRacesSpoilTheLedger'
    BY <1>2 DEF OnlyRacesSpoilTheLedger, MirrorsEntry, FarmFills, ActiveWithdrawals,
                Withdrawals, WithdrawalRow
  <1>6. OnlyRacesStrandFills' BY <1>2 DEF OnlyRacesStrandFills, FarmFills
  <1>7. (\A p \in Replicas : InHand(req[p]))'
    <2> SUFFICES ASSUME NEW p \in Replicas, NEW k, k = req'[p]
                 PROVE  InHand(k)'
      BY InHandNamed
    <2>1. CASE p = r BY <2>1, <1>1, InHandRests
    <2>2. CASE p # r
      <3>1. k = req[p] /\ k \in Session BY <2>2, <1>1
      <3>2. InHand(k) BY <3>1, InHandNamed
      <3>3. QED BY <3>1, <3>2, InHandRests
    <2>3. QED BY <2>1, <2>2
  <1>8. LocksExclude' BY <1>1 DEF LocksExclude
  <1>9. RacesNoted' BY <1>1 DEF RacesNoted
  <1>10. QED BY <1>3, <1>4, <1>5, <1>6, <1>7, <1>8, <1>9

\* The tank found for a fill is one the fill may be given.
LEMMA ResolvedIsPlaced ==
  ASSUME RInv, NEW g, NEW fuel, NEW source, NEW choice,
         NEW t \in FillTanks(g, fuel, source, choice)
  PROVE  t \in Tanks \cup {None} /\ (source \in FillSource => Placed(g, source, t))
  BY DEF RInv, RTypes, TypeOK, IsTable, FillTanks, ResolveFarmTank, LiveTanks, Placed, FillSource

LEMMA StartCreateInv ==
  ASSUME RInv, NEW r \in Replicas, NEW g \in Groups, NEW v \in Vehicles,
         NEW source \in FillSource, NEW choice \in Tanks \cup {None}, NEW litres \in Litres,
         StartCreate(r, g, v, source, choice, litres)
  PROVE  RInv'
  <1> SUFFICES ASSUME NEW fuel, fuel = vehicle[v].fuel PROVE RInv'
    OBVIOUS
  <1> DEFINE q == [at |-> "create", g |-> g, v |-> v, fuel |-> fuel, source |-> source,
                   choice |-> choice, litres |-> litres]
  <1>1. /\ Continue(r, q) /\ UNCHANGED <<vars, raced>>
        /\ v \in DOMAIN vehicle /\ vehicle[v].group = g
    BY DEF StartCreate, LiveVehicles
  <1>2. fuel \in FuelTypes BY <1>1 DEF RInv, RTypes, TypeOK, IsTable, VehicleRow
  <1>3. q \in Session BY <1>2, AreSessions
  <1>4. InHand(q)
    BY <1>1 DEF InHand, CreateInHand, EntryInHand, RowInHand, TankInHand, EntryStages,
                Editing, Resolved
  <1>5. q.at \notin Locking /\ q.at \notin EntryStages BY DEF Locking, EntryStages
  <1>6. raced \subseteq DOMAIN fuelEntry \cup DOMAIN tank BY DEF RInv, RTypes
  <1> HIDE DEF q
  <1>7. QED BY <1>1, <1>3, <1>4, <1>5, <1>6, QuietInv

\* A request may be answered at any time: what it had in hand is dropped.
LEMMA ReplyInv ==
  ASSUME RInv, NEW r \in Replicas, Reply(r), UNCHANGED <<vars, raced>>
  PROVE  RInv'
  <1>1. Continue(r, Idle) BY DEF Reply, Continue
  <1>2. InHand(Idle)
    BY DEF InHand, CreateInHand, EntryInHand, RowInHand, TankInHand, EntryStages,
           Editing, Resolved, Idle
  <1>3. Idle.at \notin Locking /\ Idle.at \notin EntryStages BY DEF Locking, EntryStages, Idle
  <1>4. raced \subseteq DOMAIN fuelEntry \cup DOMAIN tank BY DEF RInv, RTypes
  <1>5. QED BY <1>1, <1>2, <1>3, <1>4, AreSessions, QuietInv

LEMMA ResolveCreateInv ==
  ASSUME RInv, NEW r \in Replicas, ResolveCreate(r)
  PROVE  RInv'
  <1> SUFFICES ASSUME NEW p, p = req[r] PROVE RInv'
    OBVIOUS
  <1>1. p.at = "create" /\ UNCHANGED <<vars, raced>> BY DEF ResolveCreate
  <1>2. p \in Session /\ InHand(p) BY InHandNamed DEF RInv, RTypes
  <1>3. ASSUME NEW t \in FillTanks(p.g, p.fuel, p.source, p.choice), NEW entry,
               entry = [group |-> p.g, vehicle |-> p.v, source |-> p.source, tank |-> t,
                        litres |-> p.litres, deleted |-> FALSE],
               Continue(r, [at |-> "insert", entry |-> entry])
        PROVE  RInv'
    <2> DEFINE q == [at |-> "insert", entry |-> entry]
    <2>1. t \in Tanks \cup {None} /\ Placed(p.g, p.source, t)
      BY <1>1, <1>2, <1>3, SessionFields, ResolvedIsPlaced
    <2>2. entry \in FuelEntryRow
      BY <1>1, <1>2, <1>3, <2>1, SessionFields, LitresAssumption DEF FuelEntryRow
    <2>3. q \in Session BY <2>2, AreSessions
    <2>4. OfVehicle(entry) /\ ~entry.deleted BY <1>1, <1>2, <1>3
      DEF InHand, CreateInHand, OfVehicle
    <2>5. Placed(entry.group, entry.source, entry.tank) BY <1>3, <2>1
    <2>6. InHand(q)
      BY <2>4, <2>5 DEF InHand, CreateInHand, EntryInHand, RowInHand, TankInHand, EntryStages,
                        Editing, Resolved
    <2>7. q.at \notin Locking /\ q.at \notin EntryStages BY DEF Locking, EntryStages
    <2>8. raced \subseteq DOMAIN fuelEntry \cup DOMAIN tank BY DEF RInv, RTypes
    <2>9. Continue(r, q) BY <1>3
    <2> HIDE DEF q
    <2>10. QED BY <1>1, <2>3, <2>6, <2>7, <2>8, <2>9, QuietInv
  <1>4. QED BY <1>1, <1>3, ReplyInv DEF ResolveCreate

LEMMA StartEditInv ==
  ASSUME RInv, NEW r \in Replicas, NEW g \in Groups, NEW e \in FuelEntries,
         NEW source \in FillSource, NEW choice \in Tanks \cup {None}, NEW litres \in Litres,
         StartEdit(r, g, e, source, choice, litres)
  PROVE  RInv'
  <1> DEFINE form == [source |-> source, tank |-> choice, litres |-> litres]
  <1> SUFFICES ASSUME NEW loaded, loaded = fuelEntry[e],
                      NEW fuel, fuel = vehicle[loaded.vehicle].fuel PROVE RInv'
    OBVIOUS
  <1> DEFINE q == [at |-> "resolve", e |-> e, loaded |-> loaded, fuel |-> fuel, form |-> form]
  <1>1. /\ Continue(r, q) /\ UNCHANGED vars /\ NoteRace(e) /\ req[r] = Idle
        /\ e \in DOMAIN fuelEntry /\ ~loaded.deleted
    BY DEF StartEdit, ReachableEntries
  <1>2. loaded \in FuelEntryRow BY <1>1 DEF RInv, RTypes, TypeOK, IsTable
  <1>3. loaded.vehicle \in DOMAIN vehicle BY <1>1 DEF RInv, RowsStayInGroup
  <1>4. fuel \in FuelTypes BY <1>3 DEF RInv, RTypes, TypeOK, IsTable, VehicleRow
  <1>5. form \in Form BY DEF Form
  <1>6. q \in Session BY <1>2, <1>4, <1>5, AreSessions
  <1>7. InHand(q)
    BY <1>1 DEF InHand, CreateInHand, EntryInHand, RowInHand, TankInHand, EntryStages,
                Editing, Resolved
  <1>8. q.at \notin Locking /\ q.e = e BY DEF Locking
  <1>9. /\ raced \subseteq raced'
        /\ raced' \subseteq DOMAIN fuelEntry \cup DOMAIN tank
        /\ \A p \in Replicas : req[p].at \in EntryStages /\ req[p].e = e => e \in raced'
    BY <1>1 DEF RInv, RTypes, NoteRace, OpenFor, Serves
  <1> HIDE DEF q
  <1>10. QED BY <1>1, <1>6, <1>7, <1>8, <1>9, QuietInv

\* What the records say of the others when a request goes on with its entry.
LEMMA OthersStay ==
  ASSUME RInv, NEW r \in Replicas, req[r].at \in EntryStages
  PROVE  /\ \A p \in Replicas \ {r} :
              req[p].at \in EntryStages /\ req[p].e = req[r].e => req[r].e \in raced
         /\ req[r].at \in Locking =>
              \A p \in Replicas \ {r} : ~(req[p].at \in Locking /\ req[p].e = req[r].e)
  BY DEF RInv, RacesNoted, LocksExclude

LEMMA ResolveEditInv ==
  ASSUME RInv, NEW r \in Replicas, ResolveEdit(r)
  PROVE  RInv'
  <1> SUFFICES ASSUME NEW p, p = req[r] PROVE RInv'
    OBVIOUS
  <1>1. p.at = "resolve" /\ UNCHANGED <<vars, raced>> BY DEF ResolveEdit
  <1>2. p \in Session /\ InHand(p) BY InHandNamed DEF RInv, RTypes
  <1>3. p.e \in FuelEntries /\ p.loaded \in FuelEntryRow /\ p.form \in Form
    BY <1>1, <1>2, SessionFields DEF EntryStages, Editing
  <1>4. raced \subseteq DOMAIN fuelEntry \cup DOMAIN tank BY DEF RInv, RTypes
  <1>5. ASSUME NEW t \in FillTanks(p.loaded.group, p.fuel, p.form.source, p.form.tank),
               Continue(r, [at |-> "flush", e |-> p.e, loaded |-> p.loaded,
                            form |-> p.form, tank |-> t])
        PROVE  RInv'
    <2> DEFINE q == [at |-> "flush", e |-> p.e, loaded |-> p.loaded, form |-> p.form,
                     tank |-> t]
    <2>1. t \in Tanks \cup {None} /\ Placed(p.loaded.group, p.form.source, t)
      BY <1>3, ResolvedIsPlaced DEF Form
    <2>2. q \in Session BY <1>3, <2>1, AreSessions
    <2>3. InHand(q)
      BY <1>1, <1>2, <2>1 DEF InHand, CreateInHand, EntryInHand, RowInHand, TankInHand,
                              EntryStages, Editing, Resolved
    <2>4. q.at \notin Locking /\ q.e = req[r].e /\ req[r].at \in EntryStages
      BY <1>1 DEF Locking, EntryStages
    <2>5. Continue(r, q) BY <1>5
    <2> HIDE DEF q
    <2>6. QED BY <1>1, <1>4, <2>2, <2>3, <2>4, <2>5, OthersStay, QuietInv
  <1>6. \/ \E t \in FillTanks(p.loaded.group, p.fuel, p.form.source, p.form.tank) :
             Continue(r, [at |-> "flush", e |-> p.e, loaded |-> p.loaded,
                          form |-> p.form, tank |-> t])
        \/ Reply(r)
    BY DEF ResolveEdit
  <1>7. QED BY <1>1, <1>5, <1>6, ReplyInv

LEMMA FlushEditInv ==
  ASSUME RInv, NEW r \in Replicas, FlushEdit(r)
  PROVE  RInv'
  <1> SUFFICES ASSUME NEW p, p = req[r] PROVE RInv'
    OBVIOUS
  <1>1. /\ p.at = "flush" /\ UNCHANGED <<vars, raced>> /\ Unlocked(p.e)
        /\ Continue(r, [p EXCEPT !.at = "sync"])
    BY DEF FlushEdit
  <1>2. p \in Session /\ InHand(p) BY InHandNamed DEF RInv, RTypes
  <1> DEFINE q == [at |-> "sync", e |-> p.e, loaded |-> p.loaded, form |-> p.form,
                   tank |-> p.tank]
  <1>3. /\ p.e \in FuelEntries /\ p.loaded \in FuelEntryRow /\ p.form \in Form
        /\ p.tank \in Tanks \cup {None}
    BY <1>1, <1>2, SessionFields DEF EntryStages, Editing, Resolved
  <1>4. [p EXCEPT !.at = "sync"] = q BY <1>1, <1>2 DEF Session, Idle
  <1>5. q \in Session BY <1>3, AreSessions
  <1>6. InHand(q)
    BY <1>1, <1>2 DEF InHand, CreateInHand, EntryInHand, RowInHand, TankInHand,
                      EntryStages, Editing, Resolved
  <1>7. \A o \in Replicas : ~(req[o].at \in Locking /\ req[o].e = p.e)
    BY <1>1 DEF Unlocked, LockHolders, Serves, Locking
  <1>8. q.e = p.e /\ q.e = req[r].e /\ req[r].at \in EntryStages BY <1>1 DEF EntryStages
  <1>9. Continue(r, q) BY <1>1, <1>4
  <1>10. raced \subseteq DOMAIN fuelEntry \cup DOMAIN tank BY DEF RInv, RTypes
  <1> HIDE DEF q
  <1>11. QED BY <1>1, <1>5, <1>6, <1>7, <1>8, <1>9, <1>10, OthersStay, QuietInv

LEMMA SyncEditInv ==
  ASSUME RInv, NEW r \in Replicas, SyncEdit(r)
  PROVE  RInv'
  <1> SUFFICES ASSUME NEW p, p = req[r] PROVE RInv'
    OBVIOUS
  <1> DEFINE linked == IF p.form.source = "farm" THEN LinkedWithdrawals(p.e)
                                                ELSE ActiveWithdrawals(p.e)
  <1>1. p.at = "sync" /\ UNCHANGED <<vars, raced>> BY DEF SyncEdit
  <1>2. PICK l \in IF linked = {} THEN {None} ELSE linked :
          Continue(r, [at |-> "commit", e |-> p.e, loaded |-> p.loaded, form |-> p.form,
                       tank |-> p.tank, row |-> l])
    BY DEF SyncEdit
  <1>3. p \in Session /\ InHand(p) BY InHandNamed DEF RInv, RTypes
  <1>4. /\ p.e \in FuelEntries /\ p.loaded \in FuelEntryRow /\ p.form \in Form
        /\ p.tank \in Tanks \cup {None}
    BY <1>1, <1>3, SessionFields DEF EntryStages, Editing, Resolved
  <1>5. /\ l # None => l \in DOMAIN ledger /\ ledger[l].entry = p.e
        /\ l = None /\ p.form.source = "farm" => \A k \in DOMAIN ledger : ledger[k].entry # p.e
        /\ l = None /\ p.form.source = "external" => ActiveWithdrawals(p.e) = {}
    <2>1. DOMAIN ledger \subseteq LedgerRows BY DEF RInv, RTypes, TypeOK, IsTable
    <2>2. \A k \in linked : k \in DOMAIN ledger /\ ledger[k].entry = p.e
      BY <1>4, RowsAreWithdrawals DEF RInv
    <2>3. l = None => linked = {} BY <1>2, <2>1, <2>2, NoneAssumption
    <2>4. l # None => l \in linked BY <1>2
    <2>5. QED BY <1>4, <2>2, <2>3, <2>4, RowsAreWithdrawals DEF RInv
  <1>6. l \in LedgerRows \cup {None} BY <1>5 DEF RInv, RTypes, TypeOK, IsTable
  <1> DEFINE q == [at |-> "commit", e |-> p.e, loaded |-> p.loaded, form |-> p.form,
                   tank |-> p.tank, row |-> l]
  <1>7. q \in Session BY <1>4, <1>6, AreSessions
  <1>8. InHand(q)
    BY <1>1, <1>3, <1>5 DEF InHand, CreateInHand, EntryInHand, RowInHand, TankInHand,
                            EntryStages, Editing, Resolved
  <1>9. q.e = req[r].e /\ req[r].at \in EntryStages /\ req[r].at \in Locking
    BY <1>1 DEF EntryStages, Locking
  <1>10. Continue(r, q) BY <1>2
  <1>11. raced \subseteq DOMAIN fuelEntry \cup DOMAIN tank BY DEF RInv, RTypes
  <1> HIDE DEF q
  <1>12. QED BY <1>1, <1>7, <1>8, <1>9, <1>10, <1>11, OthersStay, QuietInv

LEMMA StartDeleteInv ==
  ASSUME RInv, NEW r \in Replicas, NEW g \in Groups, NEW e \in FuelEntries,
         StartDelete(r, g, e)
  PROVE  RInv'
  <1> DEFINE q == [at |-> "find", e |-> e]
  <1>1. Continue(r, q) /\ UNCHANGED vars /\ NoteRace(e) /\ e \in DOMAIN fuelEntry
    BY DEF StartDelete, ReachableEntries
  <1>2. q \in Session BY AreSessions
  <1>3. InHand(q)
    BY <1>1 DEF InHand, CreateInHand, EntryInHand, RowInHand, TankInHand, EntryStages,
                Editing, Resolved
  <1>4. q.at \notin Locking /\ q.e = e BY DEF Locking
  <1>5. /\ raced \subseteq raced'
        /\ raced' \subseteq DOMAIN fuelEntry \cup DOMAIN tank
        /\ \A p \in Replicas : req[p].at \in EntryStages /\ req[p].e = e => e \in raced'
    BY <1>1 DEF RInv, RTypes, NoteRace, OpenFor, Serves
  <1> HIDE DEF q
  <1>6. QED BY <1>1, <1>2, <1>3, <1>4, <1>5, QuietInv

LEMMA FindWithdrawalInv ==
  ASSUME RInv, NEW r \in Replicas, FindWithdrawal(r)
  PROVE  RInv'
  <1> SUFFICES ASSUME NEW p, p = req[r] PROVE RInv'
    OBVIOUS
  <1>1. p.at = "find" /\ UNCHANGED <<vars, raced>> BY DEF FindWithdrawal
  <1>2. PICK l \in IF ActiveWithdrawals(p.e) = {} THEN {None} ELSE ActiveWithdrawals(p.e) :
          Continue(r, [at |-> "erase", e |-> p.e, row |-> l])
    BY DEF FindWithdrawal
  <1>3. p \in Session /\ InHand(p) BY InHandNamed DEF RInv, RTypes
  <1>4. p.e \in FuelEntries BY <1>1, <1>3, SessionFields DEF EntryStages
  <1>5. /\ l # None => l \in DOMAIN ledger /\ ledger[l].entry = p.e
        /\ l = None => ActiveWithdrawals(p.e) = {}
    BY <1>2, <1>4, RowsAreWithdrawals, NoneAssumption DEF RInv, RTypes, TypeOK, IsTable
  <1>6. l \in LedgerRows \cup {None} BY <1>5 DEF RInv, RTypes, TypeOK, IsTable
  <1> DEFINE q == [at |-> "erase", e |-> p.e, row |-> l]
  <1>7. q \in Session BY <1>4, <1>6, AreSessions
  <1>8. InHand(q)
    BY <1>1, <1>3, <1>5 DEF InHand, CreateInHand, EntryInHand, RowInHand, TankInHand,
                            EntryStages, Editing, Resolved
  <1>9. q.at \notin Locking /\ q.e = req[r].e /\ req[r].at \in EntryStages
    BY <1>1 DEF EntryStages, Locking
  <1>10. Continue(r, q) BY <1>2
  <1>11. raced \subseteq DOMAIN fuelEntry \cup DOMAIN tank BY DEF RInv, RTypes
  <1> HIDE DEF q
  <1>12. QED BY <1>1, <1>7, <1>8, <1>9, <1>10, <1>11, OthersStay, QuietInv

LEMMA CheckTankInv ==
  ASSUME RInv, NEW r \in Replicas, NEW g \in Groups, NEW t \in Tanks, CheckTank(r, g, t)
  PROVE  RInv'
  <1> DEFINE q == [at |-> "close", t |-> t]
  <1>1. /\ Continue(r, q) /\ UNCHANGED <<vars, raced>>
        /\ t \in DOMAIN tank /\ ActiveFarmEntries(t) = {}
    BY DEF CheckTank, LiveTanks
  <1>2. q \in Session BY AreSessions
  <1>3. InHand(q)
    BY <1>1 DEF InHand, CreateInHand, EntryInHand, RowInHand, TankInHand, EntryStages,
                Editing, Resolved, FarmFills, ActiveFarmEntries
  <1>4. q.at \notin Locking /\ q.at \notin EntryStages BY DEF Locking, EntryStages
  <1>5. raced \subseteq DOMAIN fuelEntry \cup DOMAIN tank BY DEF RInv, RTypes
  <1> HIDE DEF q
  <1>6. QED BY <1>1, <1>2, <1>3, <1>4, <1>5, QuietInv

-----------------------------------------------------------------------------
(* Steps that write. *)

\* The tables move under the other requests, which are spared or answered.
LEMMA WriteInv ==
  ASSUME RInv, TablesGrow, req' \in [Replicas -> Session],
         \A p \in Replicas, k \in Session :
           k = req'[p] => k = Idle \/ (k = req[p] /\ Spared(k)),
         TypeOK', raced' \subseteq DOMAIN fuelEntry' \cup DOMAIN tank',
         OneWithdrawalPerEntry', RowsStayInGroup',
         OnlyRacesSpoilTheLedger', OnlyRacesStrandFills'
  PROVE  RInv'
  <1> USE DEF RInv
  <1>1. RTypes' BY DEF RTypes
  <1>2. Idle.at \notin Locking /\ Idle.at \notin EntryStages BY DEF Locking, EntryStages, Idle
  <1>3. (\A p \in Replicas : InHand(req[p]))'
    <2> SUFFICES ASSUME NEW p \in Replicas, NEW k, k = req'[p]
                 PROVE  InHand(k)'
      BY InHandNamed
    <2>1. k \in Session OBVIOUS
    <2>2. CASE k = Idle
      BY <2>2, <1>2 DEF InHand, CreateInHand, EntryInHand, RowInHand, TankInHand, EntryStages,
                        Editing, Resolved, Idle
    <2>3. CASE k = req[p] /\ Spared(k)
      <3>1. InHand(k) BY <2>3, InHandNamed
      <3>2. QED BY <2>1, <2>3, <3>1, InHandStays
    <2>4. QED BY <2>1, <2>2, <2>3
  <1>4. \A p \in Replicas : req'[p] = Idle \/ req'[p] = req[p] OBVIOUS
  <1>5. LocksExclude' BY <1>2, <1>4 DEF LocksExclude
  <1>6. RacesNoted' BY <1>2, <1>4 DEF RacesNoted, TablesGrow
  <1>7. QED BY <1>1, <1>3, <1>5, <1>6

\* The ledger rows of entry e are written, at most one, and no others.
WritesRowOf(e) ==
  /\ IsTable(ledger', LedgerRows, TankLedgerEntry)
  /\ DOMAIN ledger \subseteq DOMAIN ledger'
  /\ \A k \in DOMAIN ledger : /\ ledger'[k].entry = ledger[k].entry
                              /\ ledger[k].entry # e => ledger'[k] = ledger[k]
  /\ \A k \in DOMAIN ledger' \ DOMAIN ledger : ledger'[k].entry = e
  /\ \A k \in DOMAIN ledger' : ledger'[k].entry = e =>
       /\ ledger'[k].kind = "vehicle_withdrawal"
       /\ ledger'[k].tank \in DOMAIN tank
       /\ tank[ledger'[k].tank].group = ledger'[k].group
       /\ ledger'[k].group = fuelEntry'[e].group
  /\ \A k, l \in DOMAIN ledger' : ledger'[k].entry = e /\ ledger'[l].entry = e => k = l

\* Entry e is written, new or old, in its own group and vehicle, and no other.
WritesEntry(e) ==
  /\ IsTable(fuelEntry', FuelEntries, FuelEntryRow)
  /\ DOMAIN fuelEntry' = DOMAIN fuelEntry \cup {e}
  /\ \A d \in DOMAIN fuelEntry : d # e => fuelEntry'[d] = fuelEntry[d]
  /\ e \in DOMAIN fuelEntry => /\ fuelEntry'[e].group = fuelEntry[e].group
                               /\ fuelEntry'[e].vehicle = fuelEntry[e].vehicle
  /\ fuelEntry'[e].vehicle \in DOMAIN vehicle
  /\ vehicle[fuelEntry'[e].vehicle].group = fuelEntry'[e].group
  /\ fuelEntry'[e].tank # None =>
       /\ fuelEntry'[e].tank \in DOMAIN tank
       /\ tank[fuelEntry'[e].tank].group = fuelEntry'[e].group

\* Where request r writes entry e with its ledger row, the others notice only
\* what is on record.
LEMMA WriteEntryInv ==
  ASSUME RInv, NEW r \in Replicas, NEW e \in FuelEntries, Reply(r), UNCHANGED <<vehicle, tank>>,
         WritesEntry(e), WritesRowOf(e),
         raced \subseteq raced', raced' \subseteq DOMAIN fuelEntry' \cup DOMAIN tank,
         e \notin raced' => MirrorsEntry(e)',
         e \in FarmFills' /\ e \notin raced' =>
           \A t \in DOMAIN tank : fuelEntry'[e].tank = t /\ tank[t].deleted => t \in raced',
         \A p \in Replicas \ {r} :
           /\ req[p].at \in EntryStages /\ req[p].e = e => e \in raced
           /\ req[p].at = "commit" /\ req[p].e = e => DOMAIN ledger' = DOMAIN ledger
           /\ req[p].at = "close" /\ e \in FarmFills' /\ fuelEntry'[e].tank = req[p].t =>
                \/ e \in raced' \/ req[p].t \in raced'
                \/ e \in FarmFills /\ fuelEntry[e].tank = req[p].t
  PROVE  RInv'
  <1> USE DEF RInv, RTypes
  <1>1. e # None BY NoneAssumption
  <1>2. \A d \in DOMAIN fuelEntry : d # e =>
          /\ d \in DOMAIN fuelEntry' /\ fuelEntry'[d] = fuelEntry[d]
          /\ ActiveWithdrawals(d)' = ActiveWithdrawals(d)
          /\ \A l \in ActiveWithdrawals(d) : ledger'[l] = ledger[l]
    BY DEF WritesEntry, WritesRowOf, ActiveWithdrawals, Withdrawals
  <1>3. TablesGrow BY DEF TablesGrow, WritesEntry, WritesRowOf
  <1>4. ASSUME NEW p \in Replicas \ {r}, NEW k \in Session, k = req[p], InHand(k)
        PROVE  Spared(k)
    <2>1. k.at \in EntryStages =>
            k.e \in raced' \/ /\ fuelEntry'[k.e] = fuelEntry[k.e]
                              /\ ActiveWithdrawals(k.e)' \subseteq ActiveWithdrawals(k.e)
      BY <1>2, <1>4 DEF InHand, EntryInHand
    <2>2. k.at = "commit" =>
            \A l \in DOMAIN ledger' : ledger'[l].entry = k.e =>
                                        l \in DOMAIN ledger /\ ledger[l].entry = k.e
      BY <1>4 DEF WritesRowOf
    <2>3. k.at = "close" =>
            \A d \in FarmFills' : fuelEntry'[d].tank = k.t =>
               \/ d \in raced' \/ k.t \in raced'
               \/ d \in FarmFills /\ fuelEntry[d].tank = k.t
      <3> SUFFICES ASSUME k.at = "close", NEW d \in FarmFills', fuelEntry'[d].tank = k.t, d # e
                   PROVE  d \in FarmFills /\ fuelEntry[d].tank = k.t
        BY <1>4
      <3>1. d \in DOMAIN fuelEntry BY DEF FarmFills, WritesEntry
      <3>2. QED BY <3>1, <1>2 DEF FarmFills
    <2>4. QED BY <2>1, <2>2, <2>3 DEF Spared
  <1>5. req' = [req EXCEPT ![r] = Idle] /\ req' \in [Replicas -> Session]
    BY AreSessions DEF Reply
  <1>6. \A p \in Replicas, k \in Session :
          k = req'[p] => k = Idle \/ (k = req[p] /\ Spared(k))
    <2> SUFFICES ASSUME NEW p \in Replicas, NEW k \in Session, k = req'[p], p # r
                 PROVE  k = req[p] /\ Spared(k)
      BY <1>5
    <2>1. k = req[p] BY <1>5
    <2>2. InHand(k) BY <2>1, InHandNamed
    <2>3. QED BY <2>1, <2>2, <1>4
  <1>7. TypeOK' BY DEF TypeOK, WritesEntry, WritesRowOf
  <1>8. OneWithdrawalPerEntry'
    BY <1>1 DEF OneWithdrawalPerEntry, WritesRowOf
  <1>9. RowsStayInGroup'
    <2>1. ASSUME NEW l \in DOMAIN ledger'
          PROVE  /\ ledger'[l].tank \in DOMAIN tank
                 /\ tank[ledger'[l].tank].group = ledger'[l].group
                 /\ ledger'[l].entry # None =>
                      /\ ledger'[l].entry \in DOMAIN fuelEntry'
                      /\ fuelEntry'[ledger'[l].entry].group = ledger'[l].group
      <3>1. CASE ledger'[l].entry = e BY <3>1 DEF WritesRowOf, WritesEntry
      <3>2. CASE ledger'[l].entry # e
        BY <3>2 DEF WritesRowOf, WritesEntry, RowsStayInGroup
      <3>3. QED BY <3>1, <3>2
    <2>2. QED BY <2>1 DEF RowsStayInGroup, WritesEntry
  <1>10. OnlyRacesSpoilTheLedger'
    <2> SUFFICES ASSUME NEW d \in DOMAIN fuelEntry', d \notin raced', d # e
                 PROVE  MirrorsEntry(d)'
      BY DEF OnlyRacesSpoilTheLedger
    <2>1. d \in DOMAIN fuelEntry BY DEF WritesEntry
    <2>2. MirrorsEntry(d) BY <2>1 DEF OnlyRacesSpoilTheLedger
    <2>3. d \in FarmFills' <=> d \in FarmFills BY <1>2, <2>1 DEF FarmFills
    <2>4. QED BY <1>2, <2>1, <2>2, <2>3 DEF MirrorsEntry, WithdrawalRow
  <1>11. OnlyRacesStrandFills'
    <2> SUFFICES ASSUME NEW d \in FarmFills', d \notin raced', NEW t \in DOMAIN tank, d # e,
                        fuelEntry'[d].tank = t, tank[t].deleted
                 PROVE  t \in raced'
      BY DEF OnlyRacesStrandFills
    <2>1. d \in DOMAIN fuelEntry BY DEF FarmFills, WritesEntry
    <2>2. d \in FarmFills BY <1>2, <2>1 DEF FarmFills
    <2>3. QED BY <1>2, <2>1, <2>2 DEF OnlyRacesStrandFills
  <1>12. QED BY <1>3, <1>5, <1>6, <1>7, <1>8, <1>9, <1>10, <1>11, WriteInv

\* A fill deducted on a tank of its group is one row written.
LEMMA DeductedWrites ==
  ASSUME RInv, NEW e \in FuelEntries, NEW entry, OneDeducted(e, entry),
         entry.tank \in DOMAIN tank, tank[entry.tank].group = entry.group,
         entry.group = fuelEntry'[e].group, UNCHANGED <<vehicle, tank>>
  PROVE  /\ WritesRowOf(e)
         /\ ActiveWithdrawals(e)' # {}
         /\ \A l \in ActiveWithdrawals(e)' : ledger'[l] = WithdrawalRow(e, entry)
  <1>1. PICK l \in DOMAIN ledger' :
          /\ ledger'[l] = WithdrawalRow(e, entry)
          /\ \A k \in DOMAIN ledger' \ {l} : /\ k \in DOMAIN ledger
                                             /\ ledger'[k] = ledger[k]
                                             /\ ledger[k].entry # e
          /\ l \in DOMAIN ledger => ledger[l].entry = e
    BY DEF OneDeducted
  <1>2. /\ ledger'[l].entry = e
        /\ ledger'[l].kind = "vehicle_withdrawal"
        /\ ledger'[l].tank = entry.tank
        /\ ledger'[l].group = entry.group
        /\ ledger'[l].deleted = FALSE
    BY <1>1 DEF WithdrawalRow
  <1>3. WritesRowOf(e)
    BY <1>1, <1>2 DEF OneDeducted, WritesRowOf
  <1>4. ActiveWithdrawals(e)' = {l}
    BY <1>1, <1>2 DEF ActiveWithdrawals, Withdrawals
  <1>5. QED BY <1>1, <1>3, <1>4

\* A withdrawal deleted, or none there, is no row written but that.
LEMMA DeletedWrites ==
  ASSUME RInv, NEW e \in FuelEntries, OnlyDeleted(e),
         e \in DOMAIN fuelEntry => fuelEntry'[e].group = fuelEntry[e].group
  PROVE  WritesRowOf(e) /\ ActiveWithdrawals(e)' = {}
  <1>1. e # None BY NoneAssumption
  <1>2. \A k \in DOMAIN ledger : ledger[k].entry = e =>
          /\ e \in DOMAIN fuelEntry
          /\ ledger[k].kind = "vehicle_withdrawal"
          /\ ledger[k].tank \in DOMAIN tank
          /\ tank[ledger[k].tank].group = ledger[k].group
          /\ ledger[k].group = fuelEntry[e].group
    BY <1>1 DEF RInv, OneWithdrawalPerEntry, RowsStayInGroup
  <1>3. \A k, l \in DOMAIN ledger : ledger[k].entry = e /\ ledger[l].entry = e => k = l
    BY <1>1 DEF RInv, OneWithdrawalPerEntry
  <1>4. WritesRowOf(e) BY <1>2, <1>3 DEF OnlyDeleted, WritesRowOf
  <1>5. ActiveWithdrawals(e)' = {} BY DEF OnlyDeleted, ActiveWithdrawals, Withdrawals
  <1>6. QED BY <1>4, <1>5

\* Whoever fills a tank that another is removing, or removes one that another
\* fills, is on record.
LEMMA TankRaceNoted ==
  ASSUME RInv, NEW r \in Replicas, NoteTankRace(r)
  PROVE  /\ raced \subseteq raced'
         /\ raced' \subseteq DOMAIN fuelEntry \cup DOMAIN tank
         /\ \A p \in Replicas : /\ Filling(r) \cap Closing(p) \subseteq raced'
                                /\ Closing(r) \cap Filling(p) \subseteq raced'
  <1>1. \A p \in Replicas : Closing(p) \subseteq DOMAIN tank
    BY DEF RInv, InHand, TankInHand, Closing
  <1>2. QED BY <1>1 DEF NoteTankRace, RInv, RTypes

LEMMA CommitCreateInv ==
  ASSUME RInv, NEW r \in Replicas, CommitCreate(r)
  PROVE  RInv'
  <1> SUFFICES ASSUME NEW p, p = req[r], NEW entry, entry = p.entry PROVE RInv'
    OBVIOUS
  <1>1. /\ p.at = "insert" /\ Reply(r) /\ UNCHANGED <<vehicle, tank>> /\ NoteTankRace(r)
    BY DEF CommitCreate
  <1>2. PICK e \in FuelEntries \ DOMAIN fuelEntry :
          fuelEntry' = Insert(fuelEntry, e, entry) /\ SyncVehicleWithdrawal(e, entry)
    BY DEF CommitCreate
  <1>3. p \in Session /\ InHand(p) BY InHandNamed DEF RInv, RTypes
  <1>4. /\ entry \in FuelEntryRow /\ OfVehicle(entry) /\ ~entry.deleted
        /\ Placed(entry.group, entry.source, entry.tank)
    BY <1>1, <1>3, SessionFields DEF InHand, CreateInHand
  <1>5. fuelEntry'[e] = entry /\ e \in DOMAIN fuelEntry' BY <1>2 DEF Insert
  <1>6. WritesEntry(e)
    <2>1. IsTable(fuelEntry', FuelEntries, FuelEntryRow)
      BY <1>2, <1>4, InsertTable DEF RInv, RTypes, TypeOK
    <2>2. QED BY <2>1, <1>2, <1>4, <1>5 DEF WritesEntry, Insert, OfVehicle, Placed
  <1>7. WritesRowOf(e) /\ MirrorsEntry(e)'
    <2>1. CASE entry.source = "farm"
      <3>1. entry.tank \in DOMAIN tank /\ tank[entry.tank].group = entry.group
        BY <1>4, <2>1 DEF Placed
      <3>2. OneDeducted(e, entry)
        BY <1>2, <1>4, <2>1, <3>1, FarmSyncEffect DEF RInv, RTypes, TypeOK, IsTable
      <3>3. /\ WritesRowOf(e) /\ ActiveWithdrawals(e)' # {}
            /\ \A l \in ActiveWithdrawals(e)' : ledger'[l] = WithdrawalRow(e, entry)
        BY <1>1, <1>5, <3>1, <3>2, DeductedWrites
      <3>4. e \in FarmFills' BY <1>4, <1>5, <2>1 DEF FarmFills
      <3>5. QED BY <1>5, <3>3, <3>4 DEF MirrorsEntry, WithdrawalRow
    <2>2. CASE entry.source # "farm"
      <3>1. entry.source = "external" BY <1>4, <2>2 DEF FuelEntryRow, FillSource
      <3>2. OnlyDeleted(e)
        BY <1>2, <3>1, SoftDeleteEffect DEF SyncVehicleWithdrawal, RInv, RTypes
      <3>3. WritesRowOf(e) /\ ActiveWithdrawals(e)' = {} BY <1>2, <3>2, DeletedWrites
      <3>4. e \notin FarmFills' BY <1>5, <2>2 DEF FarmFills
      <3>5. QED BY <3>3, <3>4 DEF MirrorsEntry
    <2>3. QED BY <2>1, <2>2
  <1>8. /\ raced \subseteq raced' /\ raced' \subseteq DOMAIN fuelEntry' \cup DOMAIN tank
        /\ \A o \in Replicas : Filling(r) \cap Closing(o) \subseteq raced'
    BY <1>1, <1>6, TankRaceNoted DEF WritesEntry
  <1>9. \A t \in DOMAIN tank : fuelEntry'[e].tank = t /\ tank[t].deleted => t \in raced'
    <2>1. entry.tank # None => (tank[entry.tank].deleted => entry.tank \in raced)
      BY <1>4 DEF Placed
    <2>2. None \notin DOMAIN tank BY NoneAssumption DEF RInv, RTypes, TypeOK, IsTable
    <2>3. QED BY <1>5, <1>8, <2>1, <2>2
  <1>10. ASSUME NEW o \in Replicas \ {r}
         PROVE  /\ ~(req[o].at \in EntryStages /\ req[o].e = e)
                /\ req[o].at = "close" /\ fuelEntry'[e].tank = req[o].t => req[o].t \in raced'
    <2>1. InHand(req[o]) BY DEF RInv
    <2>2. req[o].at \in EntryStages => req[o].e \in DOMAIN fuelEntry
      BY <2>1 DEF InHand, EntryInHand
    <2>3. Filling(r) = {entry.tank} BY <1>1 DEF Filling
    <2>4. req[o].at = "close" => Closing(o) = {req[o].t} BY DEF Closing
    <2>5. QED BY <1>2, <1>5, <1>8, <2>2, <2>3, <2>4
  <1>11. \A o \in Replicas \ {r} : ~(req[o].at = "commit" /\ req[o].e = e)
    BY <1>10 DEF EntryStages
  <1>12. QED BY <1>1, <1>2, <1>6, <1>7, <1>8, <1>9, <1>10, <1>11, WriteEntryInv

\* What a commit makes of the row: over what was loaded, the session's entry.
LEMMA ChangedColumnsType ==
  ASSUME NEW q \in Session, q.at = "commit", NEW now \in FuelEntryRow
  PROVE  /\ ChangedColumns(q, now) \in FuelEntryRow
         /\ ChangedColumns(q, now).group = now.group
         /\ ChangedColumns(q, now).vehicle = now.vehicle
         /\ ChangedColumns(q, now).deleted = now.deleted
         /\ ChangedColumns(q, now).tank \in {q.tank, now.tank}
         /\ SessionEntry(q) \in FuelEntryRow
         /\ SessionEntry(q).group = q.loaded.group
         /\ SessionEntry(q).source = q.form.source
         /\ SessionEntry(q).tank = q.tank
         /\ SessionEntry(q).deleted = q.loaded.deleted
         /\ q.loaded = now => ChangedColumns(q, now) = SessionEntry(q)
  <1>1. /\ q.loaded \in FuelEntryRow /\ q.form \in Form /\ q.tank \in Tanks \cup {None}
    BY SessionFields DEF Editing, Resolved
  <1>2. /\ ChangedColumns(q, now) \in FuelEntryRow
        /\ ChangedColumns(q, now).group = now.group
        /\ ChangedColumns(q, now).vehicle = now.vehicle
        /\ ChangedColumns(q, now).deleted = now.deleted
        /\ ChangedColumns(q, now).tank \in {q.tank, now.tank}
    BY <1>1, LitresAssumption DEF ChangedColumns, FuelEntryRow, Form
  <1>3. /\ SessionEntry(q) \in FuelEntryRow
        /\ SessionEntry(q).group = q.loaded.group
        /\ SessionEntry(q).source = q.form.source
        /\ SessionEntry(q).tank = q.tank
        /\ SessionEntry(q).deleted = q.loaded.deleted
    BY <1>1, LitresAssumption DEF SessionEntry, FuelEntryRow, Form
  <1>4. ASSUME q.loaded = now PROVE ChangedColumns(q, now) = SessionEntry(q)
    BY <1>1, <1>4 DEF ChangedColumns, SessionEntry, FuelEntryRow, Form
  <1>5. QED BY <1>2, <1>3, <1>4

\* The ledger side of the commit of an edit.
LEMMA CommitEditLedger ==
  ASSUME RInv, NEW p \in Session, InHand(p), p.at = "commit", NEW entry, entry = SessionEntry(p),
         UNCHANGED <<vehicle, tank>>, fuelEntry'[p.e].group = fuelEntry[p.e].group,
         \/ p.form.source = "external" /\ p.row = None /\ ledger' = ledger
         \/ /\ p.form.source = "external" /\ p.row # None
            /\ ledger' = [ledger EXCEPT ![p.row].deleted = TRUE]
         \/ /\ p.form.source = "farm" /\ p.row # None
            /\ ledger' = [ledger EXCEPT ![p.row] = WithdrawalRow(p.e, entry)]
         \/ /\ p.form.source = "farm" /\ p.row = None
            /\ \E l \in LedgerRows \ DOMAIN ledger :
                 ledger' = Insert(ledger, l, WithdrawalRow(p.e, entry))
  PROVE  /\ WritesRowOf(p.e)
         /\ p.form.source = "farm" =>
              /\ ActiveWithdrawals(p.e)' # {}
              /\ \A l \in ActiveWithdrawals(p.e)' : ledger'[l] = WithdrawalRow(p.e, entry)
         /\ p.form.source = "external" /\ p.e \notin raced => ActiveWithdrawals(p.e)' = {}
  <1>1. /\ p.e \in FuelEntries /\ p.e \in DOMAIN fuelEntry /\ p.form.source \in FillSource
        /\ p.loaded.group = fuelEntry[p.e].group
        /\ p.row # None => p.row \in DOMAIN ledger /\ ledger[p.row].entry = p.e
    BY SessionFields DEF InHand, EntryInHand, RowInHand, EntryStages, Editing, Form
  <1>2. entry \in FuelEntryRow /\ entry.group = p.loaded.group /\ entry.tank = p.tank
    <2>1. p.loaded \in FuelEntryRow BY SessionFields DEF Editing
    <2>2. QED BY <2>1, ChangedColumnsType
  <1>3. CASE p.form.source = "external" /\ p.row = None /\ ledger' = ledger
    <2>1. p.e \notin raced => ActiveWithdrawals(p.e)' = {}
      BY <1>3 DEF InHand, RowInHand, ActiveWithdrawals, Withdrawals
    <2>2. WritesRowOf(p.e)
      BY <1>1, <1>3, NoneAssumption
      DEF WritesRowOf, RInv, RTypes, TypeOK, OneWithdrawalPerEntry, RowsStayInGroup
    <2>3. QED BY <1>3, <2>1, <2>2
  <1>4. CASE /\ p.form.source = "external" /\ p.row # None
             /\ ledger' = [ledger EXCEPT ![p.row].deleted = TRUE]
    <2>1. OnlyDeleted(p.e) BY <1>1, <1>4, DeleteRowEffect DEF RInv, RTypes
    <2>2. QED BY <1>1, <1>4, <2>1, DeletedWrites
  <1>5. CASE p.form.source = "farm"
    <2>1. p.tank \in DOMAIN tank /\ tank[p.tank].group = p.loaded.group /\ p.tank \in Tanks
      BY <1>5 DEF InHand, EntryInHand, Resolved, Placed, RInv, RTypes, TypeOK, IsTable
    <2>2. OneDeducted(p.e, entry)
      <3>1. CASE /\ p.row # None
                 /\ ledger' = [ledger EXCEPT ![p.row] = WithdrawalRow(p.e, entry)]
        BY <1>1, <1>2, <2>1, <3>1, UpdateRowEffect DEF RInv, RTypes
      <3>2. ASSUME p.row = None, NEW l \in LedgerRows \ DOMAIN ledger,
                   ledger' = Insert(ledger, l, WithdrawalRow(p.e, entry))
            PROVE  OneDeducted(p.e, entry)
        <4>1. \A k \in DOMAIN ledger : ledger[k].entry # p.e
          BY <1>5, <3>2 DEF InHand, RowInHand
        <4>2. QED BY <1>1, <1>2, <2>1, <3>2, <4>1, InsertRowEffect DEF RInv, RTypes
      <3>3. QED BY <1>5, <3>1, <3>2
    <2>3. QED BY <1>1, <1>2, <1>5, <2>1, <2>2, DeductedWrites
  <1>6. QED BY <1>3, <1>4, <1>5

LEMMA CommitEditInv ==
  ASSUME RInv, NEW r \in Replicas, CommitEdit(r)
  PROVE  RInv'
  <1> SUFFICES ASSUME NEW p, p = req[r], NEW e, e = p.e, NEW now, now = fuelEntry[e],
                      NEW new, new = ChangedColumns(p, now),
                      NEW entry, entry = SessionEntry(p)
               PROVE  RInv'
    OBVIOUS
  <1>1. /\ p.at = "commit" /\ Reply(r) /\ UNCHANGED <<vehicle, tank>> /\ NoteTankRace(r)
        /\ fuelEntry' = [fuelEntry EXCEPT ![e] = new]
    BY DEF CommitEdit
  <1>2. p \in Session /\ InHand(p) BY InHandNamed DEF RInv, RTypes
  <1>3. /\ e \in DOMAIN fuelEntry /\ e \in FuelEntries /\ now \in FuelEntryRow
        /\ p.loaded.group = now.group /\ p.loaded.vehicle = now.vehicle /\ ~p.loaded.deleted
        /\ e \notin raced => p.loaded = now
        /\ Placed(p.loaded.group, p.form.source, p.tank)
    BY <1>1, <1>2 DEF InHand, EntryInHand, EntryStages, Editing, Resolved, RInv, RTypes,
                      TypeOK, IsTable
  <1>4. /\ new \in FuelEntryRow
        /\ new.group = now.group /\ new.vehicle = now.vehicle
        /\ new.tank \in {p.tank, now.tank}
        /\ entry.source = p.form.source /\ entry.tank = p.tank /\ ~entry.deleted
        /\ e \notin raced => new = entry
    BY <1>1, <1>2, <1>3, ChangedColumnsType
  <1>5. fuelEntry'[e] = new /\ DOMAIN fuelEntry' = DOMAIN fuelEntry BY <1>1, <1>3
  <1>6. WritesEntry(e)
    <2>1. new.tank # None => new.tank \in DOMAIN tank /\ tank[new.tank].group = new.group
      BY <1>3, <1>4 DEF Placed, RInv, RowsStayInGroup
    <2>2. new.vehicle \in DOMAIN vehicle /\ vehicle[new.vehicle].group = new.group
      BY <1>3, <1>4 DEF RInv, RowsStayInGroup
    <2>3. IsTable(fuelEntry', FuelEntries, FuelEntryRow)
      BY <1>1, <1>3, <1>4 DEF RInv, RTypes, TypeOK, IsTable
    <2>4. QED BY <1>1, <1>3, <1>4, <1>5, <2>1, <2>2, <2>3 DEF WritesEntry
  <1>7. /\ WritesRowOf(e)
        /\ p.form.source = "farm" =>
             /\ ActiveWithdrawals(e)' # {}
             /\ \A l \in ActiveWithdrawals(e)' : ledger'[l] = WithdrawalRow(e, entry)
        /\ p.form.source = "external" /\ e \notin raced => ActiveWithdrawals(e)' = {}
    <2>1. fuelEntry'[e].group = fuelEntry[e].group BY <1>3, <1>4, <1>5
    <2>2. \/ p.form.source = "external" /\ p.row = None /\ ledger' = ledger
          \/ /\ p.form.source = "external" /\ p.row # None
             /\ ledger' = [ledger EXCEPT ![p.row].deleted = TRUE]
          \/ /\ p.form.source = "farm" /\ p.row # None
             /\ ledger' = [ledger EXCEPT ![p.row] = WithdrawalRow(e, entry)]
          \/ /\ p.form.source = "farm" /\ p.row = None
             /\ \E l \in LedgerRows \ DOMAIN ledger :
                  ledger' = Insert(ledger, l, WithdrawalRow(e, entry))
      BY DEF CommitEdit
    <2>3. QED BY <1>1, <1>2, <2>1, <2>2, CommitEditLedger
  <1>8. /\ raced \subseteq raced' /\ raced' \subseteq DOMAIN fuelEntry' \cup DOMAIN tank
        /\ \A o \in Replicas : Filling(r) \cap Closing(o) \subseteq raced'
    BY <1>1, <1>5, TankRaceNoted
  <1>9. ASSUME e \notin raced'
        PROVE  /\ MirrorsEntry(e)'
               /\ \A t \in DOMAIN tank : fuelEntry'[e].tank = t /\ tank[t].deleted => t \in raced'
    <2>1. e \notin raced /\ new = entry BY <1>4, <1>8, <1>9
    <2>2. MirrorsEntry(e)'
      <3>1. CASE p.form.source = "farm"
        <4>1. e \in FarmFills' BY <1>3, <1>4, <1>5, <2>1, <3>1 DEF FarmFills
        <4>2. QED BY <1>5, <1>7, <2>1, <3>1, <4>1 DEF MirrorsEntry, WithdrawalRow
      <3>2. CASE p.form.source = "external"
        <4>1. e \notin FarmFills' BY <1>4, <1>5, <2>1, <3>2 DEF FarmFills
        <4>2. QED BY <1>7, <2>1, <3>2, <4>1 DEF MirrorsEntry
      <3>3. QED BY <1>1, <1>2, <3>1, <3>2, SessionFields DEF Editing, Form, FillSource
    <2>3. None \notin DOMAIN tank BY NoneAssumption DEF RInv, RTypes, TypeOK, IsTable
    <2>4. QED BY <1>3, <1>4, <1>5, <1>8, <2>1, <2>2, <2>3 DEF Placed
  <1>10. ASSUME NEW o \in Replicas \ {r}
         PROVE  /\ req[o].at \in EntryStages /\ req[o].e = e => e \in raced
                /\ ~(req[o].at = "commit" /\ req[o].e = e)
                /\ req[o].at = "close" /\ e \in FarmFills' /\ fuelEntry'[e].tank = req[o].t =>
                     e \in raced' \/ req[o].t \in raced'
    <2>1. req[r].at \in EntryStages /\ req[r].at \in Locking
      BY <1>1 DEF EntryStages, Locking
    <2>2. /\ req[o].at \in EntryStages /\ req[o].e = e => e \in raced
          /\ ~(req[o].at = "commit" /\ req[o].e = e)
      BY <2>1, OthersStay DEF Locking
    <2>3. ASSUME req[o].at = "close", fuelEntry'[e].tank = req[o].t, e \notin raced'
          PROVE  req[o].t \in raced'
      <3>1. fuelEntry'[e].tank = p.tank BY <1>4, <1>5, <1>8, <2>3
      <3>2. Filling(r) = {p.tank} BY <1>1 DEF Filling
      <3>3. Closing(o) = {req[o].t} BY <2>3 DEF Closing
      <3>4. QED BY <1>8, <2>3, <3>1, <3>2, <3>3
    <2>4. QED BY <2>2, <2>3
  <1>11. QED BY <1>1, <1>3, <1>6, <1>7, <1>8, <1>9, <1>10, WriteEntryInv

LEMMA CommitDeleteInv ==
  ASSUME RInv, NEW r \in Replicas, CommitDelete(r)
  PROVE  RInv'
  <1> SUFFICES ASSUME NEW p, p = req[r], NEW e, e = p.e, NEW now, now = fuelEntry[e],
                      NEW new, new = [now EXCEPT !.deleted = TRUE]
               PROVE  RInv'
    OBVIOUS
  <1>1. /\ p.at = "erase" /\ Reply(r) /\ UNCHANGED <<vehicle, tank, raced>>
        /\ fuelEntry' = [fuelEntry EXCEPT ![e] = new]
        /\ IF p.row = None THEN ledger' = ledger
                           ELSE ledger' = [ledger EXCEPT ![p.row].deleted = TRUE]
    BY DEF CommitDelete
  <1>2. p \in Session /\ InHand(p) BY InHandNamed DEF RInv, RTypes
  <1>3. /\ e \in DOMAIN fuelEntry /\ e \in FuelEntries /\ now \in FuelEntryRow
        /\ p.row # None => p.row \in DOMAIN ledger /\ ledger[p.row].entry = e
        /\ p.row = None /\ e \notin raced => ActiveWithdrawals(e) = {}
    BY <1>1, <1>2 DEF InHand, EntryInHand, RowInHand, EntryStages, RInv, RTypes, TypeOK, IsTable
  <1>4. /\ new \in FuelEntryRow /\ new.group = now.group /\ new.vehicle = now.vehicle
        /\ new.tank = now.tank /\ new.deleted
    BY <1>3 DEF FuelEntryRow
  <1>5. fuelEntry'[e] = new /\ DOMAIN fuelEntry' = DOMAIN fuelEntry BY <1>1, <1>3
  <1>6. WritesEntry(e)
    <2>1. IsTable(fuelEntry', FuelEntries, FuelEntryRow)
      BY <1>1, <1>3, <1>4 DEF RInv, RTypes, TypeOK, IsTable
    <2>2. /\ now.vehicle \in DOMAIN vehicle
          /\ vehicle[now.vehicle].group = now.group
          /\ now.tank # None => now.tank \in DOMAIN tank /\ tank[now.tank].group = now.group
      BY <1>3 DEF RInv, RowsStayInGroup
    <2>3. \A d \in DOMAIN fuelEntry : d # e => fuelEntry'[d] = fuelEntry[d] BY <1>1
    <2>4. QED BY <1>3, <1>4, <1>5, <2>1, <2>2, <2>3 DEF WritesEntry
  <1>7. WritesRowOf(e) /\ (e \notin raced => ActiveWithdrawals(e)' = {})
    <2>1. CASE p.row = None
      <3>1. ledger' = ledger BY <1>1, <2>1
      <3>2. WritesRowOf(e)
        BY <1>3, <1>4, <1>5, <3>1, NoneAssumption
        DEF WritesRowOf, RInv, RTypes, TypeOK, OneWithdrawalPerEntry, RowsStayInGroup
      <3>3. QED BY <1>3, <2>1, <3>1, <3>2 DEF ActiveWithdrawals, Withdrawals
    <2>2. CASE p.row # None
      <3>1. OnlyDeleted(e) BY <1>1, <1>3, <2>2, DeleteRowEffect DEF RInv, RTypes
      <3>2. QED BY <1>3, <1>4, <1>5, <3>1, DeletedWrites
    <2>3. QED BY <2>1, <2>2
  <1>8. e \notin FarmFills' BY <1>4, <1>5 DEF FarmFills
  <1>9. e \notin raced' => MirrorsEntry(e)' BY <1>1, <1>7, <1>8 DEF MirrorsEntry
  <1>10. \A o \in Replicas \ {r} : req[o].at \in EntryStages /\ req[o].e = e => e \in raced
    BY <1>1, OthersStay DEF EntryStages
  <1>11. raced' \subseteq DOMAIN fuelEntry' \cup DOMAIN tank
    BY <1>1, <1>5 DEF RInv, RTypes
  <1>12. DOMAIN ledger' = DOMAIN ledger BY <1>1
  <1>13. QED BY <1>1, <1>3, <1>6, <1>7, <1>8, <1>9, <1>10, <1>11, <1>12, WriteEntryInv

LEMMA CommitTankDeleteInv ==
  ASSUME RInv, NEW r \in Replicas, CommitTankDelete(r)
  PROVE  RInv'
  <1> SUFFICES ASSUME NEW p, p = req[r], NEW t, t = p.t, NEW row,
                      row = [tank[t] EXCEPT !.deleted = TRUE]
               PROVE  RInv'
    OBVIOUS
  <1>1. /\ p.at = "close" /\ Reply(r) /\ UNCHANGED <<vehicle, fuelEntry, ledger>>
        /\ tank' = [tank EXCEPT ![t] = row] /\ NoteTankRace(r)
    BY DEF CommitTankDelete
  <1>2. p \in Session /\ InHand(p) BY InHandNamed DEF RInv, RTypes
  <1>3. /\ t \in DOMAIN tank
        /\ \A e \in FarmFills : fuelEntry[e].tank = t => e \in raced \/ t \in raced
    BY <1>1, <1>2 DEF InHand, TankInHand
  <1>4. tank[t] \in StorageTank BY <1>3 DEF RInv, RTypes, TypeOK, IsTable
  <1>5. row \in StorageTank /\ row.group = tank[t].group BY <1>4 DEF StorageTank
  <1>6. /\ IsTable(tank', Tanks, StorageTank)
        /\ DOMAIN tank' = DOMAIN tank
        /\ \A u \in DOMAIN tank : /\ tank'[u].group = tank[u].group
                                  /\ u # t => tank'[u] = tank[u]
    BY <1>1, <1>3, <1>5 DEF RInv, RTypes, TypeOK, IsTable
  <1>7. /\ raced \subseteq raced' /\ raced' \subseteq DOMAIN fuelEntry' \cup DOMAIN tank'
        /\ \A o \in Replicas : Closing(r) \cap Filling(o) \subseteq raced'
    BY <1>1, <1>6, TankRaceNoted
  <1>8. TablesGrow BY <1>1, <1>6, <1>7 DEF TablesGrow
  <1>9. req' = [req EXCEPT ![r] = Idle] /\ req' \in [Replicas -> Session]
    BY <1>1, AreSessions DEF Reply, RInv, RTypes
  <1>10. \A o \in Replicas, k \in Session :
           k = req'[o] => k = Idle \/ (k = req[o] /\ Spared(k))
    <2> SUFFICES ASSUME NEW o \in Replicas, NEW k \in Session, k = req'[o], o # r
                 PROVE  k = req[o] /\ Spared(k)
      BY <1>9 DEF RInv, RTypes
    <2>1. k = req[o] BY <1>9 DEF RInv, RTypes
    <2>2. Closing(r) = {t} BY <1>1 DEF Closing
    <2>3. ASSUME k.at = "insert" \/ k.at \in Resolved,
                 NEW u, u = IF k.at = "insert" THEN k.entry.tank ELSE k.tank,
                 u \in DOMAIN tank, tank'[u].deleted
          PROVE  tank[u].deleted \/ u \in raced'
      <3>1. Filling(o) = {u} BY <2>1, <2>3 DEF Filling, Resolved
      <3>2. QED BY <1>6, <1>7, <2>2, <2>3, <3>1
    <2>4. ActiveWithdrawals(k.e)' = ActiveWithdrawals(k.e) /\ FarmFills' = FarmFills
      BY <1>1 DEF ActiveWithdrawals, Withdrawals, FarmFills
    <2>5. QED BY <1>1, <2>1, <2>3, <2>4 DEF Spared
  <1>11. (TypeOK /\ OneWithdrawalPerEntry)'
    BY <1>1, <1>6 DEF RInv, RTypes, TypeOK, OneWithdrawalPerEntry
  <1>12. RowsStayInGroup' BY <1>1, <1>6 DEF RInv, RowsStayInGroup
  <1>13. OnlyRacesSpoilTheLedger'
    BY <1>1, <1>7 DEF RInv, OnlyRacesSpoilTheLedger, MirrorsEntry, FarmFills,
                      ActiveWithdrawals, Withdrawals, WithdrawalRow
  <1>14. OnlyRacesStrandFills'
    BY <1>1, <1>3, <1>6, <1>7 DEF RInv, OnlyRacesStrandFills, FarmFills
  <1>15. QED BY <1>7, <1>8, <1>9, <1>10, <1>11, <1>12, <1>13, <1>14, WriteInv

\* The handlers that keep their atomic step touch nothing a request has read.
LEMMA AtomicHandlerInv ==
  ASSUME RInv, NEW r \in Replicas, NEW g \in Groups, AtomicHandler(r, g)
  PROVE  RInv'
  <1> USE DEF RInv, RTypes
  <1>1. UNCHANGED <<req, raced>> BY DEF AtomicHandler
  <1>2. ASSUME UNCHANGED <<tank, fuelEntry>>, VehiclesGrow \/ MovementsOnly
        PROVE  RInv'
    <2>1. CASE VehiclesGrow
      <3> USE DEF VehiclesGrow
      <3>1. TablesGrow BY <1>1, <2>1 DEF TablesGrow
      <3>2. \A k \in Session : Spared(k)
        BY <2>1 DEF Spared, ActiveWithdrawals, Withdrawals, FarmFills
      <3>3. (TypeOK /\ OneWithdrawalPerEntry /\ RowsStayInGroup)'
        BY <2>1 DEF TypeOK, OneWithdrawalPerEntry, RowsStayInGroup
      <3>4. (OnlyRacesSpoilTheLedger /\ OnlyRacesStrandFills)'
        BY <1>1, <2>1 DEF OnlyRacesSpoilTheLedger, MirrorsEntry, FarmFills, ActiveWithdrawals,
                          Withdrawals, WithdrawalRow, OnlyRacesStrandFills
      <3>5. QED BY <1>1, <2>1, <3>1, <3>2, <3>3, <3>4, WriteInv
    <2>2. CASE MovementsOnly
      <3> USE DEF MovementsOnly
      <3>1. \A e \in FuelEntries :
              /\ e # None
              /\ \A l \in DOMAIN ledger' : ledger'[l].entry = e =>
                   l \in DOMAIN ledger /\ ledger'[l] = ledger[l]
              /\ \A l \in DOMAIN ledger : ledger[l].entry = e => ledger'[l] = ledger[l]
        BY <2>2, NoneAssumption DEF OneWithdrawalPerEntry
      <3>2. TablesGrow BY <1>1, <2>2 DEF TablesGrow, OneWithdrawalPerEntry
      <3>3. \A e \in FuelEntries : ActiveWithdrawals(e)' = ActiveWithdrawals(e)
        BY <2>2, <3>1 DEF ActiveWithdrawals, Withdrawals
      <3>4. ASSUME NEW k \in Session PROVE Spared(k)
        <4>1. k.at \in EntryStages => k.e \in FuelEntries BY SessionFields
        <4>2. k.at = "commit" => k.at \in EntryStages BY DEF EntryStages
        <4>3. QED BY <2>2, <3>1, <3>3, <4>1, <4>2 DEF Spared, FarmFills
      <3>5. TypeOK' BY <2>2 DEF TypeOK
      <3>6. OneWithdrawalPerEntry' BY <2>2 DEF OneWithdrawalPerEntry
      <3>7. RowsStayInGroup' BY <2>2 DEF RowsStayInGroup
      <3>8. OnlyRacesSpoilTheLedger'
        <4> SUFFICES ASSUME NEW e \in DOMAIN fuelEntry \ raced PROVE MirrorsEntry(e)'
          BY <1>1, <2>2 DEF OnlyRacesSpoilTheLedger
        <4>1. MirrorsEntry(e) /\ e \in FuelEntries
          BY DEF OnlyRacesSpoilTheLedger, TypeOK, IsTable
        <4>2. \A l \in ActiveWithdrawals(e) : ledger'[l] = ledger[l]
          BY <3>1, <4>1 DEF ActiveWithdrawals, Withdrawals
        <4>3. QED BY <2>2, <3>3, <4>1, <4>2 DEF MirrorsEntry, FarmFills, WithdrawalRow
      <3>9. OnlyRacesStrandFills' BY <1>1, <2>2 DEF OnlyRacesStrandFills, FarmFills
      <3>10. QED BY <1>1, <2>2, <3>2, <3>4, <3>5, <3>6, <3>7, <3>8, <3>9, WriteInv
    <2>3. QED BY <1>2, <2>1, <2>2
  <1>3. ASSUME NEW t \in Tanks, NEW fuel \in FuelTypes, NEW opening \in Openings,
               CreateTank(g, t, fuel, opening)
        PROVE  RInv'
    <2> SUFFICES ASSUME NEW row, row = [group |-> g, fuel |-> fuel, opening |-> opening,
                                        deleted |-> FALSE]
                 PROVE  RInv'
      OBVIOUS
    <2>1. /\ t \notin DOMAIN tank /\ tank' = Insert(tank, t, row)
          /\ UNCHANGED <<vehicle, fuelEntry, ledger>>
      BY <1>3 DEF CreateTank
    <2>2. row \in StorageTank /\ ~row.deleted BY OpeningAssumption DEF StorageTank
    <2>3. /\ IsTable(tank', Tanks, StorageTank)
          /\ DOMAIN tank' = DOMAIN tank \cup {t} /\ ~tank'[t].deleted
          /\ \A u \in DOMAIN tank : tank'[u] = tank[u]
      <3>1. IsTable(tank, Tanks, StorageTank) BY DEF TypeOK
      <3>2. IsTable(tank', Tanks, StorageTank) BY <2>1, <2>2, <3>1, InsertTable
      <3>3. QED BY <2>1, <2>2, <3>2 DEF Insert
    <2>4. TablesGrow BY <1>1, <2>1, <2>3 DEF TablesGrow
    <2>5. \A k \in Session : Spared(k)
      BY <2>1, <2>3 DEF Spared, ActiveWithdrawals, Withdrawals, FarmFills
    <2>6. (TypeOK /\ OneWithdrawalPerEntry /\ RowsStayInGroup)'
      BY <2>1, <2>3 DEF TypeOK, OneWithdrawalPerEntry, RowsStayInGroup
    <2>7. OnlyRacesSpoilTheLedger'
      BY <1>1, <2>1 DEF OnlyRacesSpoilTheLedger, MirrorsEntry, FarmFills, ActiveWithdrawals,
                        Withdrawals, WithdrawalRow
    <2>8. OnlyRacesStrandFills'
      <3>1. FarmFills' = FarmFills BY <2>1 DEF FarmFills
      <3>2. \A u \in DOMAIN tank' : tank'[u].deleted => u \in DOMAIN tank /\ tank[u].deleted
        BY <2>3
      <3>3. QED BY <1>1, <2>1, <3>1, <3>2 DEF OnlyRacesStrandFills
    <2>9. raced' \subseteq DOMAIN fuelEntry' \cup DOMAIN tank' BY <1>1, <2>1, <2>3
    <2>10. QED BY <1>1, <2>4, <2>5, <2>6, <2>7, <2>8, <2>9, WriteInv
  <1>4. VehicleStep(g) => VehiclesGrow /\ UNCHANGED <<tank, fuelEntry>>
    BY VehicleStepFrame DEF VehiclesGrow
  <1>5. LedgerStep(g) => MovementsOnly /\ UNCHANGED <<tank, fuelEntry>>
    BY LedgerStepFrame DEF MovementsOnly
  <1>6. QED BY <1>2, <1>3, <1>4, <1>5 DEF AtomicHandler

-----------------------------------------------------------------------------
(* The invariant holds in every state. *)

LEMMA RInitInv == RInit => RInv
  <1> SUFFICES ASSUME RInit PROVE RInv
    OBVIOUS
  <1>1. Init /\ req = [r \in Replicas |-> Idle] /\ raced = {} BY DEF RInit
  <1>2. IInv BY <1>1, InitInv
  <1>3. DOMAIN fuelEntry = {} /\ DOMAIN ledger = {} BY <1>1 DEF Init, EmptyTable
  <1>4. RTypes BY <1>1, <1>2, AreSessions DEF RTypes, IInv
  <1>5. \A r \in Replicas : req[r].at \notin EntryStages /\ req[r].at \notin Locking
    BY <1>1 DEF EntryStages, Locking, Idle
  <1>6. \A r \in Replicas : InHand(req[r])
    BY <1>1 DEF InHand, CreateInHand, EntryInHand, RowInHand, TankInHand, EntryStages,
                Editing, Resolved, Idle
  <1>7. OnlyRacesSpoilTheLedger /\ OnlyRacesStrandFills
    BY <1>3 DEF OnlyRacesSpoilTheLedger, OnlyRacesStrandFills, FarmFills
  <1>8. LocksExclude /\ RacesNoted BY <1>5 DEF LocksExclude, RacesNoted
  <1>9. QED BY <1>2, <1>4, <1>6, <1>7, <1>8 DEF RInv, IInv

LEMMA ReceiveInv ==
  ASSUME RInv, NEW r \in Replicas, Receive(r)
  PROVE  RInv'
  BY StartCreateInv, StartEditInv, StartDeleteInv, CheckTankInv, AtomicHandlerInv DEF Receive

LEMMA ServeInv ==
  ASSUME RInv, NEW r \in Replicas, Serve(r) \/ ServeLocked(r)
  PROVE  RInv'
  BY ResolveCreateInv, CommitCreateInv, ResolveEditInv, SyncEditInv, CommitEditInv,
     FindWithdrawalInv, CommitTankDeleteInv, FlushEditInv, CommitDeleteInv
  DEF Serve, ServeLocked

\* Nothing happens.
LEMMA RStutterInv == RInv /\ UNCHANGED rvars => RInv'
  <1> SUFFICES ASSUME RInv, UNCHANGED rvars PROVE RInv'
    OBVIOUS
  <1> USE DEF RInv
  <1>1. UNCHANGED <<vehicle, tank, fuelEntry, ledger, req, raced>> BY DEF rvars
  <1>2. RTypes' BY <1>1 DEF RTypes, TypeOK
  <1>3. (OneWithdrawalPerEntry /\ RowsStayInGroup /\ OnlyRacesStrandFills)'
    BY <1>1 DEF OneWithdrawalPerEntry, RowsStayInGroup, OnlyRacesStrandFills, FarmFills
  <1>4. OnlyRacesSpoilTheLedger'
    BY <1>1 DEF OnlyRacesSpoilTheLedger, MirrorsEntry, FarmFills, ActiveWithdrawals,
                Withdrawals, WithdrawalRow
  <1>5. (\A p \in Replicas : InHand(req[p]))'
    <2> SUFFICES ASSUME NEW p \in Replicas, NEW k, k = req'[p]
                 PROVE  InHand(k)'
      BY InHandNamed
    <2>1. k = req[p] /\ k \in Session BY <1>1 DEF RTypes
    <2>2. InHand(k) BY <2>1, InHandNamed
    <2>3. QED BY <1>1, <2>1, <2>2, InHandRests DEF vars
  <1>6. (LocksExclude /\ RacesNoted)' BY <1>1 DEF LocksExclude, RacesNoted
  <1>7. QED BY <1>2, <1>3, <1>4, <1>5, <1>6

LEMMA RStepInv == RInv /\ [RNext]_rvars => RInv'
  <1> SUFFICES ASSUME RInv, [RNext]_rvars PROVE RInv'
    OBVIOUS
  <1>1. ASSUME NEW r \in Replicas, Die(r) PROVE RInv' BY <1>1, ReplyInv DEF Die
  <1>2. CASE UNCHANGED rvars BY <1>2, RStutterInv
  <1>3. QED BY <1>1, <1>2, ReceiveInv, ServeInv DEF RNext

\* The inductive invariant.
THEOREM RInvariance == RSpec => []RInv
  <1>1. QED BY RInitInv, RStepInv, PTL DEF RSpec

\* Every request has in its session what its stage calls for, whatever the
\* others do.
THEOREM RTypeCorrect == RSpec => []RTypeOK
  <1>1. RInv => RTypeOK BY SessionFields DEF RInv, RTypes, RTypeOK
  <1>2. QED BY <1>1, RInvariance, PTL

\* Even two edits of one fill at once do not give it two ledger rows: the lock
\* of the entry is held from before the row is looked for until it is written.
THEOREM SingleWithdrawalInRaces == RSpec => []OneWithdrawalPerEntry
  <1>1. RInv => OneWithdrawalPerEntry BY DEF RInv
  <1>2. QED BY <1>1, RInvariance, PTL

\* No interleaving of requests makes a row refer to another group's.
THEOREM GroupIsolationInRaces == RSpec => []RowsStayInGroup
  <1>1. RInv => RowsStayInGroup BY DEF RInv
  <1>2. QED BY <1>1, RInvariance, PTL

\* The ledger mirrors every fill that two requests have never had open at once.
THEOREM LedgerMirrorBarRaces == RSpec => []OnlyRacesSpoilTheLedger
  <1>1. RInv => OnlyRacesSpoilTheLedger BY DEF RInv
  <1>2. QED BY <1>1, RInvariance, PTL

\* Such a fill stands on a removed tank only if the tank was removed while the
\* fill was being written.
THEOREM TanksOutliveFillsBarRaces == RSpec => []OnlyRacesStrandFills
  <1>1. RInv => OnlyRacesStrandFills BY DEF RInv
  <1>2. QED BY <1>1, RInvariance, PTL

-----------------------------------------------------------------------------
(* Deletion. *)

\* No request undeletes an entry it has loaded before it was deleted: the
\* deletion mark is not among the columns it writes.
THEOREM DeletionIsFinal == RSpec => DeletionSurvivesRaces
  <1>1. RInv /\ [RNext]_rvars =>
          \A e \in DOMAIN fuelEntry : fuelEntry[e].deleted => fuelEntry'[e].deleted
    <2> SUFFICES ASSUME RInv, [RNext]_rvars, NEW e \in DOMAIN fuelEntry, fuelEntry[e].deleted
                 PROVE  fuelEntry'[e].deleted
      OBVIOUS
    <2>1. \A d \in DOMAIN fuelEntry : fuelEntry[d] \in FuelEntryRow
      BY DEF RInv, RTypes, TypeOK, IsTable
    <2>2. ASSUME NEW r \in Replicas, CommitCreate(r) PROVE fuelEntry'[e].deleted
      BY <2>2 DEF CommitCreate, Insert
    <2>3. ASSUME NEW r \in Replicas, CommitEdit(r) PROVE fuelEntry'[e].deleted
      <3> SUFFICES ASSUME NEW p, p = req[r] PROVE fuelEntry'[e].deleted
        OBVIOUS
      <3>1. /\ p.at = "commit"
            /\ fuelEntry' = [fuelEntry EXCEPT ![p.e] = ChangedColumns(p, fuelEntry[p.e])]
        BY <2>3 DEF CommitEdit
      <3>2. p \in Session BY DEF RInv, RTypes
      <3>3. ChangedColumns(p, fuelEntry[e]).deleted = fuelEntry[e].deleted
        BY <2>1, <3>1, <3>2, ChangedColumnsType
      <3>4. QED BY <3>1, <3>3
    <2>4. ASSUME NEW r \in Replicas, CommitDelete(r) PROVE fuelEntry'[e].deleted
      BY <2>1, <2>4 DEF CommitDelete, FuelEntryRow
    <2>5. ASSUME NEW r \in Replicas, NEW g \in Groups, AtomicHandler(r, g)
          PROVE  fuelEntry' = fuelEntry
      BY <2>5 DEF AtomicHandler, VehicleStep, CreateVehicle, EditVehicle, DeleteVehicle,
                  CreateTank, LedgerStep, PostMovement, EditLedgerEntry, DeleteLedgerEntry
    <2>6. ASSUME NEW r \in Replicas, Receive(r) PROVE fuelEntry' = fuelEntry
      BY <2>5, <2>6 DEF Receive, StartCreate, StartEdit, StartDelete, CheckTank, vars
    <2>7. ASSUME NEW r \in Replicas, Serve(r) \/ ServeLocked(r), ~CommitCreate(r),
                 ~CommitEdit(r), ~CommitDelete(r)
          PROVE  fuelEntry' = fuelEntry
      BY <2>7 DEF Serve, ServeLocked, ResolveCreate, ResolveEdit, SyncEdit, FindWithdrawal,
                  CommitTankDelete, FlushEdit, vars
    <2>8. QED BY <2>2, <2>3, <2>4, <2>6, <2>7 DEF RNext, Die, rvars, vars
  <1>2. QED BY <1>1, RInvariance, PTL DEF RSpec, DeletionSurvivesRaces

-----------------------------------------------------------------------------
(* One replica alone is the atomic system. *)

Alone == \A q, r \in Replicas : q = r

\* What a session holds when nobody else writes: what its reads would still
\* return.
Fresh(q) ==
  /\ q.at = "create" => q.v \in LiveVehicles(q.g) /\ q.fuel = vehicle[q.v].fuel
  /\ q.at = "insert" =>
       /\ q.entry.vehicle \in LiveVehicles(q.entry.group)
       /\ ~q.entry.deleted
       /\ q.entry.litres \in Litres
       /\ \E choice \in Tanks \cup {None} :
            q.entry.tank \in FillTanks(q.entry.group, vehicle[q.entry.vehicle].fuel,
                                       q.entry.source, choice)
  /\ q.at \in Editing => q.e \in ReachableEntries(q.loaded.group) /\ q.loaded = fuelEntry[q.e]
  /\ q.at = "resolve" => q.fuel = vehicle[q.loaded.vehicle].fuel
  /\ q.at \in Resolved =>
       q.tank \in FillTanks(q.loaded.group, vehicle[q.loaded.vehicle].fuel,
                            q.form.source, q.form.tank)
  /\ q.at = "commit" =>
       LET linked == IF q.form.source = "farm" THEN LinkedWithdrawals(q.e)
                                               ELSE ActiveWithdrawals(q.e)
       IN  q.row \in IF linked = {} THEN {None} ELSE linked
  /\ q.at \in {"find", "erase"} => q.e \in ReachableEntries(fuelEntry[q.e].group)
  /\ q.at = "erase" =>
       q.row \in IF ActiveWithdrawals(q.e) = {} THEN {None} ELSE ActiveWithdrawals(q.e)
  /\ q.at = "close" => q.t \in LiveTanks(tank[q.t].group) /\ ActiveFarmEntries(q.t) = {}

AllFresh == \A r \in Replicas : Fresh(req[r])

\* The session of a replica may be given a name here, too.
LEMMA FreshNamed ==
  ASSUME NEW r, NEW q
  PROVE  /\ q = req[r] => (Fresh(q) <=> Fresh(req[r]))
         /\ q = req'[r] => (Fresh(q)' <=> Fresh(req[r])')
  BY DEF Fresh

\* What is in hand stays fresh while no table moves.
LEMMA FreshRests ==
  ASSUME NEW q, Fresh(q), UNCHANGED vars
  PROVE  Fresh(q)'
  <1>1. UNCHANGED <<vehicle, tank, fuelEntry, ledger>> BY DEF vars
  <1>2. /\ \A g : /\ LiveVehicles(g)' = LiveVehicles(g)
                  /\ LiveTanks(g)' = LiveTanks(g)
                  /\ ReachableEntries(g)' = ReachableEntries(g)
        /\ \A g, fuel, source, choice :
             FillTanks(g, fuel, source, choice)' = FillTanks(g, fuel, source, choice)
        /\ \A e : /\ LinkedWithdrawals(e)' = LinkedWithdrawals(e)
                  /\ ActiveWithdrawals(e)' = ActiveWithdrawals(e)
        /\ \A t : ActiveFarmEntries(t)' = ActiveFarmEntries(t)
    BY <1>1 DEF LiveVehicles, LiveTanks, ReachableEntries, FillTanks, ResolveFarmTank,
                LinkedWithdrawals, ActiveWithdrawals, Withdrawals, ActiveFarmEntries
  <1>3. QED BY <1>1, <1>2 DEF Fresh

\* The one request reads on.
LEMMA ReadsFresh ==
  ASSUME Alone, RInv, UNCHANGED vars, NEW r \in Replicas, NEW q, Continue(r, q), Fresh(q)
  PROVE  AllFresh' /\ [Next]_vars
  <1>1. req'[r] = q BY DEF Continue, RInv, RTypes
  <1>2. Fresh(q)' BY FreshRests
  <1>3. Fresh(req[r])' BY <1>1, <1>2, FreshNamed
  <1>4. QED BY <1>3 DEF AllFresh, Alone

\* The one request is answered.
LEMMA AnsweredFresh ==
  ASSUME Alone, RInv, NEW r \in Replicas, Reply(r)
  PROVE  AllFresh'
  <1>1. req'[r] = Idle BY DEF Reply, RInv, RTypes
  <1>2. Fresh(Idle)' BY DEF Fresh, Idle, Editing, Resolved
  <1>3. Fresh(req[r])' BY <1>1, <1>2, FreshNamed
  <1>4. QED BY <1>3 DEF AllFresh, Alone

LEMMA ReceiveFresh ==
  ASSUME Alone, RInv, RInv', AllFresh, NEW r \in Replicas, Receive(r)
  PROVE  AllFresh' /\ [Next]_vars
  <1>1. PICK g \in Groups :
          \/ \E source \in FillSource, choice \in Tanks \cup {None}, litres \in Litres :
               \/ \E v \in Vehicles : StartCreate(r, g, v, source, choice, litres)
               \/ \E e \in FuelEntries : StartEdit(r, g, e, source, choice, litres)
          \/ \E e \in FuelEntries : StartDelete(r, g, e)
          \/ \E t \in Tanks : CheckTank(r, g, t)
          \/ AtomicHandler(r, g)
    BY DEF Receive
  <1>2. ASSUME NEW source \in FillSource, NEW choice \in Tanks \cup {None},
               NEW litres \in Litres, NEW v \in Vehicles,
               StartCreate(r, g, v, source, choice, litres)
        PROVE  AllFresh' /\ [Next]_vars
    <2> SUFFICES ASSUME NEW fuel, fuel = vehicle[v].fuel PROVE AllFresh' /\ [Next]_vars
      OBVIOUS
    <2> DEFINE q == [at |-> "create", g |-> g, v |-> v, fuel |-> fuel, source |-> source,
                     choice |-> choice, litres |-> litres]
    <2>1. Continue(r, q) /\ v \in LiveVehicles(g) /\ UNCHANGED vars
      BY <1>2 DEF StartCreate
    <2>2. Fresh(q) BY <2>1 DEF Fresh, Editing, Resolved
    <2> HIDE DEF q
    <2>3. QED BY <2>1, <2>2, ReadsFresh
  <1>3. ASSUME NEW source \in FillSource, NEW choice \in Tanks \cup {None},
               NEW litres \in Litres, NEW e \in FuelEntries,
               StartEdit(r, g, e, source, choice, litres)
        PROVE  AllFresh' /\ [Next]_vars
    <2> SUFFICES ASSUME NEW loaded, loaded = fuelEntry[e],
                        NEW fuel, fuel = vehicle[loaded.vehicle].fuel
                 PROVE  AllFresh' /\ [Next]_vars
      OBVIOUS
    <2> DEFINE q == [at |-> "resolve", e |-> e, loaded |-> loaded, fuel |-> fuel,
                     form |-> [source |-> source, tank |-> choice, litres |-> litres]]
    <2>1. Continue(r, q) /\ e \in ReachableEntries(g) /\ UNCHANGED vars
      BY <1>3 DEF StartEdit
    <2>2. loaded.group = g BY <2>1 DEF ReachableEntries
    <2>3. Fresh(q) BY <2>1, <2>2 DEF Fresh, Editing, Resolved
    <2> HIDE DEF q
    <2>4. QED BY <2>1, <2>3, ReadsFresh
  <1>4. ASSUME NEW e \in FuelEntries, StartDelete(r, g, e)
        PROVE  AllFresh' /\ [Next]_vars
    <2> DEFINE q == [at |-> "find", e |-> e]
    <2>1. Continue(r, q) /\ e \in ReachableEntries(g) /\ UNCHANGED vars
      BY <1>4 DEF StartDelete
    <2>2. e \in ReachableEntries(fuelEntry[e].group) BY <2>1 DEF ReachableEntries
    <2>3. Fresh(q) BY <2>2 DEF Fresh, Editing, Resolved
    <2> HIDE DEF q
    <2>4. QED BY <2>1, <2>3, ReadsFresh
  <1>5. ASSUME NEW t \in Tanks, CheckTank(r, g, t)
        PROVE  AllFresh' /\ [Next]_vars
    <2> DEFINE q == [at |-> "close", t |-> t]
    <2>1. Continue(r, q) /\ t \in LiveTanks(g) /\ ActiveFarmEntries(t) = {} /\ UNCHANGED vars
      BY <1>5 DEF CheckTank
    <2>2. t \in LiveTanks(tank[t].group) BY <2>1 DEF LiveTanks
    <2>3. Fresh(q) BY <2>1, <2>2 DEF Fresh, Editing, Resolved
    <2> HIDE DEF q
    <2>4. QED BY <2>1, <2>3, ReadsFresh
  <1>6. ASSUME AtomicHandler(r, g)
        PROVE  AllFresh' /\ [Next]_vars
    <2>1. req'[r] = Idle BY <1>6 DEF AtomicHandler
    <2>2. Fresh(Idle)' BY DEF Fresh, Idle, Editing, Resolved
    <2>3. Fresh(req[r])' BY <2>1, <2>2, FreshNamed
    <2>4. Next BY <1>6 DEF AtomicHandler, Next, TankStep
    <2>5. QED BY <2>3, <2>4 DEF AllFresh, Alone
  <1>7. QED BY <1>1, <1>2, <1>3, <1>4, <1>5, <1>6

LEMMA CreateFresh ==
  ASSUME Alone, RInv, AllFresh, NEW r \in Replicas, ResolveCreate(r) \/ CommitCreate(r)
  PROVE  AllFresh' /\ [Next]_vars
  <1> SUFFICES ASSUME NEW p, p = req[r] PROVE AllFresh' /\ [Next]_vars
    OBVIOUS
  <1>1. p \in Session /\ Fresh(p) BY FreshNamed DEF RInv, RTypes, AllFresh
  <1>2. CASE ResolveCreate(r)
    <2>1. p.at = "create" /\ UNCHANGED vars BY <1>2 DEF ResolveCreate
    <2>2. ASSUME NEW t \in FillTanks(p.g, p.fuel, p.source, p.choice), NEW entry,
                 entry = [group |-> p.g, vehicle |-> p.v, source |-> p.source, tank |-> t,
                          litres |-> p.litres, deleted |-> FALSE],
                 Continue(r, [at |-> "insert", entry |-> entry])
          PROVE  AllFresh' /\ [Next]_vars
      <3> DEFINE q == [at |-> "insert", entry |-> entry]
      <3>1. /\ p.choice \in Tanks \cup {None} /\ p.litres \in Litres
            /\ p.v \in LiveVehicles(p.g) /\ p.fuel = vehicle[p.v].fuel
        BY <1>1, <2>1, SessionFields DEF Fresh
      <3>2. /\ entry.group = p.g /\ entry.vehicle = p.v /\ entry.source = p.source
            /\ entry.tank = t /\ entry.litres = p.litres /\ ~entry.deleted
        BY <2>2
      <3>3. Fresh(q) BY <3>1, <3>2 DEF Fresh, Editing, Resolved
      <3>4. Continue(r, q) BY <2>2
      <3> HIDE DEF q
      <3>5. QED BY <2>1, <3>3, <3>4, ReadsFresh
    <2>3. QED BY <1>2, <2>1, <2>2, AnsweredFresh DEF ResolveCreate
  <1>3. CASE CommitCreate(r)
    <2> SUFFICES ASSUME NEW entry, entry = p.entry PROVE AllFresh' /\ [Next]_vars
      OBVIOUS
    <2>1. p.at = "insert" /\ Reply(r) /\ UNCHANGED <<vehicle, tank>>
      BY <1>3 DEF CommitCreate
    <2>2. PICK e \in FuelEntries \ DOMAIN fuelEntry :
            fuelEntry' = Insert(fuelEntry, e, entry) /\ SyncVehicleWithdrawal(e, entry)
      BY <1>3 DEF CommitCreate
    <2>3. /\ entry \in FuelEntryRow /\ ~entry.deleted /\ entry.litres \in Litres
          /\ entry.vehicle \in LiveVehicles(entry.group)
      BY <1>1, <2>1, SessionFields DEF Fresh
    <2>4. PICK choice \in Tanks \cup {None} :
            entry.tank \in FillTanks(entry.group, vehicle[entry.vehicle].fuel,
                                     entry.source, choice)
      BY <1>1, <2>1 DEF Fresh
    <2>5. entry = [group |-> entry.group, vehicle |-> entry.vehicle, source |-> entry.source,
                   tank |-> entry.tank, litres |-> entry.litres, deleted |-> FALSE]
      BY <2>3 DEF FuelEntryRow
    <2>6. /\ entry.group \in Groups /\ entry.vehicle \in Vehicles
          /\ entry.source \in FillSource
      BY <2>3 DEF FuelEntryRow
    <2>7. CreateFuelEntry(entry.group, entry.vehicle, e, entry.source, choice, entry.litres)
      BY <2>1, <2>2, <2>3, <2>4, <2>5 DEF CreateFuelEntry
    <2>8. Next BY <2>2, <2>3, <2>6, <2>7 DEF Next, FuelStep
    <2>9. QED BY <2>1, <2>8, AnsweredFresh
  <1>4. QED BY <1>2, <1>3

LEMMA EditFresh ==
  ASSUME Alone, RInv, AllFresh, NEW r \in Replicas,
         ResolveEdit(r) \/ FlushEdit(r) \/ SyncEdit(r)
  PROVE  AllFresh' /\ [Next]_vars
  <1> SUFFICES ASSUME NEW p, p = req[r] PROVE AllFresh' /\ [Next]_vars
    OBVIOUS
  <1>1. p \in Session /\ Fresh(p) BY FreshNamed DEF RInv, RTypes, AllFresh
  <1>2. CASE ResolveEdit(r)
    <2>1. /\ p.at = "resolve" /\ UNCHANGED vars
          /\ \/ \E t \in FillTanks(p.loaded.group, p.fuel, p.form.source, p.form.tank) :
                  Continue(r, [at |-> "flush", e |-> p.e, loaded |-> p.loaded,
                               form |-> p.form, tank |-> t])
             \/ Reply(r)
      BY <1>2 DEF ResolveEdit
    <2>2. ASSUME NEW t \in FillTanks(p.loaded.group, p.fuel, p.form.source, p.form.tank),
                 Continue(r, [at |-> "flush", e |-> p.e, loaded |-> p.loaded,
                              form |-> p.form, tank |-> t])
          PROVE  AllFresh' /\ [Next]_vars
      <3> DEFINE q == [at |-> "flush", e |-> p.e, loaded |-> p.loaded, form |-> p.form,
                       tank |-> t]
      <3>1. Fresh(q) BY <1>1, <2>1 DEF Fresh, Editing, Resolved
      <3>2. Continue(r, q) BY <2>2
      <3> HIDE DEF q
      <3>3. QED BY <2>1, <3>1, <3>2, ReadsFresh
    <2>3. QED BY <2>1, <2>2, AnsweredFresh
  <1>3. CASE FlushEdit(r)
    <2> DEFINE q == [at |-> "sync", e |-> p.e, loaded |-> p.loaded, form |-> p.form,
                     tank |-> p.tank]
    <2>1. p.at = "flush" /\ UNCHANGED vars /\ Continue(r, [p EXCEPT !.at = "sync"])
      BY <1>3 DEF FlushEdit
    <2>2. [p EXCEPT !.at = "sync"] = q BY <1>1, <2>1 DEF Session, Idle
    <2>3. Fresh(q) BY <1>1, <2>1 DEF Fresh, Editing, Resolved
    <2>4. Continue(r, q) BY <2>1, <2>2
    <2> HIDE DEF q
    <2>5. QED BY <2>1, <2>3, <2>4, ReadsFresh
  <1>4. CASE SyncEdit(r)
    <2> DEFINE linked == IF p.form.source = "farm" THEN LinkedWithdrawals(p.e)
                                                  ELSE ActiveWithdrawals(p.e)
    <2>1. p.at = "sync" /\ UNCHANGED vars BY <1>4 DEF SyncEdit
    <2>2. PICK l \in IF linked = {} THEN {None} ELSE linked :
            Continue(r, [at |-> "commit", e |-> p.e, loaded |-> p.loaded, form |-> p.form,
                         tank |-> p.tank, row |-> l])
      BY <1>4 DEF SyncEdit
    <2> DEFINE q == [at |-> "commit", e |-> p.e, loaded |-> p.loaded, form |-> p.form,
                     tank |-> p.tank, row |-> l]
    <2>3. Fresh(q) BY <1>1, <2>1, <2>2 DEF Fresh, Editing, Resolved
    <2>4. Continue(r, q) BY <2>2
    <2> HIDE DEF q
    <2>5. QED BY <2>1, <2>3, <2>4, ReadsFresh
  <1>5. QED BY <1>2, <1>3, <1>4

\* What the commit of an edit does to the ledger is the sync of the atomic step.
LEMMA CommitEditFresh ==
  ASSUME Alone, RInv, AllFresh, NEW r \in Replicas, CommitEdit(r)
  PROVE  AllFresh' /\ [Next]_vars
  <1> SUFFICES ASSUME NEW p, p = req[r], NEW entry, entry = SessionEntry(p)
               PROVE  AllFresh' /\ [Next]_vars
    OBVIOUS
  <1>1. p \in Session /\ Fresh(p) BY FreshNamed DEF RInv, RTypes, AllFresh
  <1>2. /\ p.at = "commit" /\ Reply(r) /\ UNCHANGED <<vehicle, tank>>
        /\ fuelEntry' = [fuelEntry EXCEPT ![p.e] = ChangedColumns(p, fuelEntry[p.e])]
        /\ \/ p.form.source = "external" /\ p.row = None /\ ledger' = ledger
           \/ /\ p.form.source = "external" /\ p.row # None
              /\ ledger' = [ledger EXCEPT ![p.row].deleted = TRUE]
           \/ /\ p.form.source = "farm" /\ p.row # None
              /\ ledger' = [ledger EXCEPT ![p.row] = WithdrawalRow(p.e, entry)]
           \/ /\ p.form.source = "farm" /\ p.row = None
              /\ \E l \in LedgerRows \ DOMAIN ledger :
                   ledger' = Insert(ledger, l, WithdrawalRow(p.e, entry))
    BY DEF CommitEdit
  <1>3. /\ p.e \in FuelEntries /\ p.loaded \in FuelEntryRow /\ p.form \in Form
        /\ p.e \in ReachableEntries(p.loaded.group) /\ p.loaded = fuelEntry[p.e]
        /\ p.tank \in FillTanks(p.loaded.group, vehicle[p.loaded.vehicle].fuel,
                                p.form.source, p.form.tank)
    BY <1>1, <1>2, SessionFields DEF Fresh, EntryStages, Editing, Resolved
  <1>4. fuelEntry' = [fuelEntry EXCEPT ![p.e] = entry]
    BY <1>1, <1>2, <1>3, ChangedColumnsType
  <1>5. entry = [fuelEntry[p.e] EXCEPT !.source = p.form.source, !.tank = p.tank,
                                       !.litres = p.form.litres]
    BY <1>3 DEF SessionEntry
  <1>6. entry.source = p.form.source
    BY <1>1, <1>2, <1>3, ChangedColumnsType
  <1>7. SyncVehicleWithdrawal(p.e, entry)
    <2> DEFINE linked == IF p.form.source = "farm" THEN LinkedWithdrawals(p.e)
                                                  ELSE ActiveWithdrawals(p.e)
    <2>1. p.row \in IF linked = {} THEN {None} ELSE linked BY <1>1, <1>2 DEF Fresh
    <2>2. None \notin linked
      BY NoneAssumption DEF LinkedWithdrawals, ActiveWithdrawals, Withdrawals, RInv, RTypes,
                            TypeOK, IsTable
    <2>3. IF p.row = None THEN linked = {} ELSE p.row \in linked BY <2>1, <2>2
    <2>4. QED BY <1>2, <1>6, <2>3 DEF SyncVehicleWithdrawal, SoftDeleteVehicleWithdrawals
  <1>8. EditFuelEntry(p.loaded.group, p.e, p.form.source, p.form.tank, p.form.litres)
    <2> DEFINE E(t) == [fuelEntry[p.e] EXCEPT !.source = p.form.source, !.tank = t,
                                              !.litres = p.form.litres]
    <2>1. p.tank \in FillTanks(p.loaded.group, vehicle[fuelEntry[p.e].vehicle].fuel,
                               p.form.source, p.form.tank)
      BY <1>3
    <2>2. entry = E(p.tank) BY <1>5
    <2>3. fuelEntry' = [fuelEntry EXCEPT ![p.e] = E(p.tank)] BY <1>4, <2>2
    <2>4. SyncVehicleWithdrawal(p.e, E(p.tank)) BY <1>7, <2>2
    <2> HIDE DEF E
    <2>5. \E t \in FillTanks(p.loaded.group, vehicle[fuelEntry[p.e].vehicle].fuel,
                             p.form.source, p.form.tank) :
            /\ fuelEntry' = [fuelEntry EXCEPT ![p.e] = E(t)]
            /\ SyncVehicleWithdrawal(p.e, E(t))
      BY <2>1, <2>3, <2>4
    <2>6. QED BY <1>2, <1>3, <2>5 DEF EditFuelEntry, E
  <1>9. /\ p.loaded.group \in Groups /\ p.form.source \in FillSource
        /\ p.form.tank \in Tanks \cup {None} /\ p.form.litres \in Litres
    BY <1>3 DEF FuelEntryRow, Form
  <1>10. Next BY <1>3, <1>8, <1>9 DEF Next, FuelStep
  <1>11. QED BY <1>2, <1>10, AnsweredFresh

LEMMA DeleteFresh ==
  ASSUME Alone, RInv, AllFresh, NEW r \in Replicas, FindWithdrawal(r) \/ CommitDelete(r)
  PROVE  AllFresh' /\ [Next]_vars
  <1> SUFFICES ASSUME NEW p, p = req[r] PROVE AllFresh' /\ [Next]_vars
    OBVIOUS
  <1>1. p \in Session /\ Fresh(p) BY FreshNamed DEF RInv, RTypes, AllFresh
  <1>2. CASE FindWithdrawal(r)
    <2>1. p.at = "find" /\ UNCHANGED vars BY <1>2 DEF FindWithdrawal
    <2>2. PICK l \in IF ActiveWithdrawals(p.e) = {} THEN {None} ELSE ActiveWithdrawals(p.e) :
            Continue(r, [at |-> "erase", e |-> p.e, row |-> l])
      BY <1>2 DEF FindWithdrawal
    <2> DEFINE q == [at |-> "erase", e |-> p.e, row |-> l]
    <2>3. Fresh(q) BY <1>1, <2>1, <2>2 DEF Fresh, Editing, Resolved
    <2>4. Continue(r, q) BY <2>2
    <2> HIDE DEF q
    <2>5. QED BY <2>1, <2>3, <2>4, ReadsFresh
  <1>3. CASE CommitDelete(r)
    <2>1. /\ p.at = "erase" /\ Reply(r) /\ UNCHANGED <<vehicle, tank>>
          /\ fuelEntry' = [fuelEntry EXCEPT ![p.e].deleted = TRUE]
          /\ IF p.row = None THEN ledger' = ledger
                             ELSE ledger' = [ledger EXCEPT ![p.row].deleted = TRUE]
      BY <1>3 DEF CommitDelete
    <2>2. /\ p.e \in FuelEntries /\ p.e \in ReachableEntries(fuelEntry[p.e].group)
          /\ p.row \in IF ActiveWithdrawals(p.e) = {} THEN {None} ELSE ActiveWithdrawals(p.e)
      BY <1>1, <2>1, SessionFields DEF Fresh, EntryStages
    <2>3. None \notin ActiveWithdrawals(p.e)
      BY NoneAssumption DEF ActiveWithdrawals, Withdrawals, RInv, RTypes, TypeOK, IsTable
    <2>4. SoftDeleteVehicleWithdrawals(p.e)
      BY <2>1, <2>2, <2>3 DEF SoftDeleteVehicleWithdrawals
    <2>5. fuelEntry[p.e].group \in Groups
      BY <2>2 DEF ReachableEntries, RInv, RTypes, TypeOK, IsTable, FuelEntryRow
    <2>6. DeleteFuelEntry(fuelEntry[p.e].group, p.e) BY <2>1, <2>2, <2>4 DEF DeleteFuelEntry
    <2>7. Next BY <2>2, <2>5, <2>6 DEF Next, FuelStep
    <2>8. QED BY <2>1, <2>7, AnsweredFresh
  <1>4. QED BY <1>2, <1>3

LEMMA CommitTankFresh ==
  ASSUME Alone, RInv, AllFresh, NEW r \in Replicas, CommitTankDelete(r)
  PROVE  AllFresh' /\ [Next]_vars
  <1> SUFFICES ASSUME NEW p, p = req[r] PROVE AllFresh' /\ [Next]_vars
    OBVIOUS
  <1>1. p \in Session /\ Fresh(p) BY FreshNamed DEF RInv, RTypes, AllFresh
  <1>2. /\ p.at = "close" /\ Reply(r) /\ UNCHANGED <<vehicle, fuelEntry, ledger>>
        /\ tank' = [tank EXCEPT ![p.t].deleted = TRUE]
    BY DEF CommitTankDelete
  <1>3. p.t \in Tanks /\ p.t \in LiveTanks(tank[p.t].group) /\ ActiveFarmEntries(p.t) = {}
    BY <1>1, <1>2, SessionFields DEF Fresh
  <1>4. tank[p.t].group \in Groups
    BY <1>3 DEF LiveTanks, RInv, RTypes, TypeOK, IsTable, StorageTank
  <1>5. DeleteTank(tank[p.t].group, p.t) BY <1>2, <1>3 DEF DeleteTank
  <1>6. Next BY <1>3, <1>4, <1>5 DEF Next, TankStep
  <1>7. QED BY <1>2, <1>6, AnsweredFresh

LEMMA AloneStep ==
  ASSUME Alone, RInv, RInv', AllFresh, [RNext]_rvars
  PROVE  AllFresh' /\ [Next]_vars
  <1>1. ASSUME NEW r \in Replicas, Die(r)
        PROVE  AllFresh' /\ [Next]_vars
    BY <1>1, AnsweredFresh DEF Die
  <1>2. CASE UNCHANGED rvars
    <2>1. UNCHANGED vars /\ UNCHANGED req BY <1>2 DEF rvars, vars
    <2>2. AllFresh'
      <3> SUFFICES ASSUME NEW p \in Replicas, NEW k, k = req'[p] PROVE Fresh(k)'
        BY FreshNamed DEF AllFresh
      <3>1. Fresh(k) BY <2>1, FreshNamed DEF AllFresh
      <3>2. QED BY <2>1, <3>1, FreshRests
    <2>3. QED BY <2>1, <2>2
  <1>3. ASSUME NEW r \in Replicas, Serve(r) \/ ServeLocked(r)
        PROVE  AllFresh' /\ [Next]_vars
    BY <1>3, CreateFresh, EditFresh, CommitEditFresh, DeleteFresh, CommitTankFresh
    DEF Serve, ServeLocked
  <1>4. QED BY <1>1, <1>2, <1>3, ReceiveFresh DEF RNext

\* On one replica the split handlers implement the atomic ones: what a body has
\* read is still so when it writes, so that each commit is a step of
\* TankInventory and every other statement a stutter.
THEOREM OneReplicaIsAtomic ==
  ASSUME \A q, r \in Replicas : q = r
  PROVE  RSpec => ServesAtomically
  <1>1. Alone BY DEF Alone
  <1>2. RInit => Init /\ AllFresh
    BY FreshNamed DEF RInit, AllFresh, Fresh, Idle, Editing, Resolved
  <1>3. RInv /\ RInv' /\ AllFresh /\ [RNext]_rvars => AllFresh' /\ [Next]_vars
    BY <1>1, AloneStep
  <1>4. QED BY <1>2, <1>3, RInvariance, PTL DEF RSpec, ServesAtomically, Spec

=============================================================================
