--------------------------- MODULE TankInventory ---------------------------
(***************************************************************************)
(* The farm tanks of Tankly and everything that moves their stock:         *)
(* vehicles, storage tanks, fuel entries (Tankvorgaenge) and the tank      *)
(* ledger, as the four database tables and the POST handlers that write    *)
(* them.  Here a handler is one atomic step, which is what one replica     *)
(* alone does: its handler bodies run one after the other on one event     *)
(* loop.  FillRequests splits the same handlers at their SQL statements.   *)
(*                                                                         *)
(* Rows are never removed, only marked deleted (deleted_at IS NOT NULL).   *)
(* A handler that answers 404 or redisplays its form commits nothing, so   *)
(* it is the absence of a step.                                            *)
(*                                                                         *)
(* Left out: names, notes, costs, dates, capacity, the usage reading and   *)
(* AdBlue, which no property here tells apart, and the member and role     *)
(* checks, which decide who may call a handler but not what it does.       *)
(***************************************************************************)
EXTENDS Integers, FiniteSets, FiniteSetsExt, Tables

CONSTANTS
  Groups,         \* tenants
  FuelTypes,
  Vehicles,       \* primary keys a table may hand out: the bounds of an instance
  Tanks,
  FuelEntries,
  LedgerRows,
  Litres,         \* quantities a form can carry (schemas: gt=0)
  Openings,       \* opening balances a form can carry (schemas: ge=0)
  None            \* NULL in a foreign-key column

ASSUME LitresAssumption  == Litres \subseteq Nat \ {0}
ASSUME OpeningAssumption == Openings \subseteq Nat
ASSUME NoneAssumption    == None \notin Tanks \cup FuelEntries \cup LedgerRows

VARIABLES
  vehicle,        \* table vehicles
  tank,           \* table storage_tanks
  fuelEntry,      \* table fuel_entries
  ledger          \* table tank_ledger_entries

vars == <<vehicle, tank, fuelEntry, ledger>>

-----------------------------------------------------------------------------
(* Rows. *)

VehicleRow == [group : Groups, fuel : FuelTypes, deleted : BOOLEAN]

StorageTank == [group : Groups, fuel : FuelTypes, opening : Nat, deleted : BOOLEAN]

FillSource == {"external", "farm"}

FuelEntryRow ==
  [group : Groups, vehicle : Vehicles, source : FillSource,
   tank : Tanks \cup {None}, litres : Nat \ {0}, deleted : BOOLEAN]

TankMovementType ==
  {"delivery", "adjustment", "external_withdrawal", "vehicle_withdrawal"}

TankLedgerEntry ==
  [group : Groups, tank : Tanks, kind : TankMovementType,
   amount : Int \ {0}, entry : FuelEntries \cup {None}, deleted : BOOLEAN]

TypeOK ==
  /\ IsTable(vehicle, Vehicles, VehicleRow)
  /\ IsTable(tank, Tanks, StorageTank)
  /\ IsTable(fuelEntry, FuelEntries, FuelEntryRow)
  /\ IsTable(ledger, LedgerRows, TankLedgerEntry)

-----------------------------------------------------------------------------
(* Queries. *)

LiveVehicles(g) == {v \in DOMAIN vehicle : vehicle[v].group = g /\ ~vehicle[v].deleted}

\* Faulty variant: the tank query forgets the group.
LiveTanksOfAnyGroup(g) == {t \in DOMAIN tank : ~tank[t].deleted}

LiveTanks(g) == {t \in DOMAIN tank : tank[t].group = g /\ ~tank[t].deleted}

\* Faulty variants: the entry query forgets the vehicle, or the deletion mark.
UndeletedEntries(g) == {e \in DOMAIN fuelEntry : fuelEntry[e].group = g /\ ~fuelEntry[e].deleted}

EntriesOfLiveVehicles(g) ==
  {e \in DOMAIN fuelEntry : /\ fuelEntry[e].group = g
                            /\ ~vehicle[fuelEntry[e].vehicle].deleted}

\* An entry is reachable only while its vehicle is: the join is in the query.
ReachableEntries(g) ==
  {e \in DOMAIN fuelEntry : /\ fuelEntry[e].group = g
                            /\ ~fuelEntry[e].deleted
                            /\ ~vehicle[fuelEntry[e].vehicle].deleted}

\* The ledger query joins nothing: rows of a removed tank are still found.
ActiveLedgerRows(g) ==
  {l \in DOMAIN ledger : ledger[l].group = g /\ ~ledger[l].deleted}

\* Faulty variant: fills of removed vehicles no longer hold the tank.
ReachableFarmEntries(t) ==
  {e \in UNION {ReachableEntries(g) : g \in Groups} :
     fuelEntry[e].tank = t /\ fuelEntry[e].source = "farm"}

ActiveFarmEntries(t) ==
  {e \in DOMAIN fuelEntry : /\ fuelEntry[e].tank = t
                            /\ fuelEntry[e].source = "farm"
                            /\ ~fuelEntry[e].deleted}

Withdrawals(e) ==
  {l \in DOMAIN ledger : ledger[l].entry = e /\ ledger[l].kind = "vehicle_withdrawal"}

ActiveWithdrawals(e) == {l \in Withdrawals(e) : ~ledger[l].deleted}

ActiveRowsOf(t) == {l \in DOMAIN ledger : ledger[l].tank = t /\ ~ledger[l].deleted}

LitresOf(rows) == MapThenSumSet(LAMBDA l : ledger[l].amount, rows)

\* Faulty variant: removed movements still count.
CurrentStockWithRemoved(t) ==
  tank[t].opening + LitresOf({l \in DOMAIN ledger : ledger[l].tank = t})

CurrentStock(t) == tank[t].opening + LitresOf(ActiveRowsOf(t))

\* Faulty variant: a chosen tank may hold another fuel.
ResolveAnyTank(g, fuel, choice) ==
  IF choice = None THEN {t \in LiveTanks(g) : LiveTanks(g) = {t}} ELSE LiveTanks(g) \cap {choice}

(***************************************************************************)
(* The tank a fill draws from: at most one, none when the form is refused. *)
(* With no tank chosen the only tank of the vehicle's fuel is taken.       *)
(***************************************************************************)
ResolveFarmTank(g, fuel, choice) ==
  LET matching == {t \in LiveTanks(g) : tank[t].fuel = fuel}
  IN  IF choice = None THEN {t \in matching : matching = {t}}
                       ELSE matching \cap {choice}

\* What fuel_tank_id becomes; for an external fill whatever the form chose.
FillTanks(g, fuel, source, choice) ==
  IF source = "external" THEN {None} ELSE ResolveFarmTank(g, fuel, choice)

-----------------------------------------------------------------------------
(* The ledger side of a fuel entry. *)

WithdrawalRow(e, entry) ==
  [group |-> entry.group, tank |-> entry.tank, kind |-> "vehicle_withdrawal",
   amount |-> -entry.litres, entry |-> e, deleted |-> FALSE]

\* Faulty variant: only an active row is updated, a deleted one is not found.
ActiveOnlyWithdrawals(e) == ActiveWithdrawals(e)

\* query.first() over the active row if there is one, else over any row.
LinkedWithdrawals(e) ==
  IF ActiveWithdrawals(e) # {} THEN ActiveWithdrawals(e) ELSE Withdrawals(e)

SoftDeleteVehicleWithdrawals(e) ==
  \/ ActiveWithdrawals(e) = {} /\ ledger' = ledger
  \/ \E l \in ActiveWithdrawals(e) : ledger' = [ledger EXCEPT ![l].deleted = TRUE]

\* Faulty variant: an existing row takes the new litres but keeps its tank.
SyncWithoutMovingTank(e, entry) ==
  \/ /\ entry.source = "external"
     /\ SoftDeleteVehicleWithdrawals(e)
  \/ /\ entry.source = "farm"
     /\ \E l \in LinkedWithdrawals(e) :
          ledger' = [ledger EXCEPT ![l].deleted = FALSE, ![l].amount = -entry.litres]
  \/ /\ entry.source = "farm"
     /\ LinkedWithdrawals(e) = {}
     /\ \E l \in LedgerRows \ DOMAIN ledger :
          ledger' = Insert(ledger, l, WithdrawalRow(e, entry))

(***************************************************************************)
(* sync_vehicle_withdrawal_for_fuel_entry: an external fill loses its      *)
(* withdrawal, a farm fill has its row updated and revived, or inserted.   *)
(***************************************************************************)
SyncVehicleWithdrawal(e, entry) ==
  \/ /\ entry.source = "external"
     /\ SoftDeleteVehicleWithdrawals(e)
  \/ /\ entry.source = "farm"
     /\ \E l \in LinkedWithdrawals(e) : ledger' = [ledger EXCEPT ![l] = WithdrawalRow(e, entry)]
  \/ /\ entry.source = "farm"
     /\ LinkedWithdrawals(e) = {}
     /\ \E l \in LedgerRows \ DOMAIN ledger :
          ledger' = Insert(ledger, l, WithdrawalRow(e, entry))

-----------------------------------------------------------------------------
(* Vehicles. *)

\* Whether the tier admits one more vehicle depends on the subscription, which
\* is not in this module: the step may be refused, so it need not happen.
CreateVehicle(g, v, fuel) ==
  /\ v \in Vehicles \ DOMAIN vehicle
  /\ vehicle' = Insert(vehicle, v, [group |-> g, fuel |-> fuel, deleted |-> FALSE])
  /\ UNCHANGED <<tank, fuelEntry, ledger>>

\* The fuel type may change whatever has been filled before.
EditVehicle(g, v, fuel) ==
  /\ v \in LiveVehicles(g)
  /\ vehicle' = [vehicle EXCEPT ![v].fuel = fuel]
  /\ UNCHANGED <<tank, fuelEntry, ledger>>

\* Its fuel entries stay as they are.
DeleteVehicle(g, v) ==
  /\ v \in LiveVehicles(g)
  /\ vehicle' = [vehicle EXCEPT ![v].deleted = TRUE]
  /\ UNCHANGED <<tank, fuelEntry, ledger>>

-----------------------------------------------------------------------------
(* Tanks. *)

CreateTank(g, t, fuel, opening) ==
  /\ t \in Tanks \ DOMAIN tank
  /\ tank' = Insert(tank, t, [group |-> g, fuel |-> fuel,
                              opening |-> opening, deleted |-> FALSE])
  /\ UNCHANGED <<vehicle, fuelEntry, ledger>>

DeleteTank(g, t) ==
  /\ t \in LiveTanks(g)
  /\ ActiveFarmEntries(t) = {}
  /\ tank' = [tank EXCEPT ![t].deleted = TRUE]
  /\ UNCHANGED <<vehicle, fuelEntry, ledger>>

\* Faulty variant: a correction by zero litres is accepted.
MovementAmountsWithZero(kind) ==
  CASE kind = "delivery"            -> Litres
    [] kind = "external_withdrawal" -> {-n : n \in Litres}
    [] kind = "adjustment"          -> Litres \cup {-n : n \in Litres} \cup {0}
    [] OTHER                        -> {}

\* The signed amount a movement form of each kind writes.
MovementAmounts(kind) ==
  CASE kind = "delivery"            -> Litres
    [] kind = "external_withdrawal" -> {-n : n \in Litres}
    [] kind = "adjustment"          -> Litres \cup {-n : n \in Litres}
    [] OTHER                        -> {}

\* The row of post_delivery, post_adjustment and post_external_withdrawal.
MovementRow(g, t, kind, amount) ==
  [group |-> g, tank |-> t, kind |-> kind, amount |-> amount, entry |-> None,
   deleted |-> FALSE]

PostMovement(g, t, kind, l) ==
  /\ t \in LiveTanks(g)
  /\ l \in LedgerRows \ DOMAIN ledger
  /\ \E amount \in MovementAmounts(kind) :
       ledger' = Insert(ledger, l, MovementRow(g, t, kind, amount))
  /\ UNCHANGED <<vehicle, tank, fuelEntry>>

EditLedgerEntry(g, l) ==
  /\ l \in ActiveLedgerRows(g)
  /\ \E amount \in MovementAmounts(ledger[l].kind) :
       ledger' = [ledger EXCEPT ![l].amount = amount]
  /\ UNCHANGED <<vehicle, tank, fuelEntry>>

DeleteLedgerEntry(g, l) ==
  /\ l \in ActiveLedgerRows(g)
  /\ ledger[l].kind # "vehicle_withdrawal"
  /\ ledger' = [ledger EXCEPT ![l].deleted = TRUE]
  /\ UNCHANGED <<vehicle, tank, fuelEntry>>

-----------------------------------------------------------------------------
(* Fuel entries. *)

CreateFuelEntry(g, v, e, source, choice, litres) ==
  /\ v \in LiveVehicles(g)
  /\ e \in FuelEntries \ DOMAIN fuelEntry
  /\ \E t \in FillTanks(g, vehicle[v].fuel, source, choice) :
       LET entry == [group |-> g, vehicle |-> v, source |-> source,
                     tank |-> t, litres |-> litres, deleted |-> FALSE]
       IN  /\ fuelEntry' = Insert(fuelEntry, e, entry)
           /\ SyncVehicleWithdrawal(e, entry)
  /\ UNCHANGED <<vehicle, tank>>

EditFuelEntry(g, e, source, choice, litres) ==
  /\ e \in ReachableEntries(g)
  /\ \E t \in FillTanks(g, vehicle[fuelEntry[e].vehicle].fuel, source, choice) :
       LET entry == [fuelEntry[e] EXCEPT !.source = source, !.tank = t, !.litres = litres]
       IN  /\ fuelEntry' = [fuelEntry EXCEPT ![e] = entry]
           /\ SyncVehicleWithdrawal(e, entry)
  /\ UNCHANGED <<vehicle, tank>>

DeleteFuelEntry(g, e) ==
  /\ e \in ReachableEntries(g)
  /\ fuelEntry' = [fuelEntry EXCEPT ![e].deleted = TRUE]
  /\ SoftDeleteVehicleWithdrawals(e)
  /\ UNCHANGED <<vehicle, tank>>

-----------------------------------------------------------------------------
Init ==
  /\ vehicle = EmptyTable
  /\ tank = EmptyTable
  /\ fuelEntry = EmptyTable
  /\ ledger = EmptyTable

VehicleStep(g) ==
  \E v \in Vehicles :
    \/ \E fuel \in FuelTypes : CreateVehicle(g, v, fuel) \/ EditVehicle(g, v, fuel)
    \/ DeleteVehicle(g, v)

TankStep(g) ==
  \E t \in Tanks :
    \/ \E fuel \in FuelTypes, opening \in Openings : CreateTank(g, t, fuel, opening)
    \/ DeleteTank(g, t)

LedgerStep(g) ==
  \E l \in LedgerRows :
    \/ \E t \in Tanks, kind \in TankMovementType : PostMovement(g, t, kind, l)
    \/ EditLedgerEntry(g, l)
    \/ DeleteLedgerEntry(g, l)

FuelStep(g) ==
  \E e \in FuelEntries :
    \/ \E source \in FillSource, choice \in Tanks \cup {None}, litres \in Litres :
         \/ \E v \in Vehicles : CreateFuelEntry(g, v, e, source, choice, litres)
         \/ EditFuelEntry(g, e, source, choice, litres)
    \/ DeleteFuelEntry(g, e)

Next == \E g \in Groups : VehicleStep(g) \/ TankStep(g) \/ LedgerStep(g) \/ FuelStep(g)

Spec == Init /\ [][Next]_vars

-----------------------------------------------------------------------------
(* Properties. *)

\* The entries whose litres the stock must be short of.
FarmFills == {e \in DOMAIN fuelEntry : ~fuelEntry[e].deleted /\ fuelEntry[e].source = "farm"}

(***************************************************************************)
(* The ledger is the mirror of the fuel entries: every farm fill that is   *)
(* not deleted has an active withdrawal with its tank, group and litres,   *)
(* and every active withdrawal is that of such a fill.  Create, edit (farm *)
(* to external and back, another tank, other litres) and delete of an      *)
(* entry must each leave both tables in step.                              *)
(***************************************************************************)
FillsAreDeducted ==
  \A e \in FarmFills : \E l \in DOMAIN ledger : ledger[l] = WithdrawalRow(e, fuelEntry[e])

DeductionsAreFills ==
  \A l \in DOMAIN ledger :
    (ledger[l].kind = "vehicle_withdrawal" /\ ~ledger[l].deleted) =>
      /\ ledger[l].entry \in FarmFills
      /\ ledger[l] = WithdrawalRow(ledger[l].entry, fuelEntry[ledger[l].entry])

LedgerMirrorsFills == FillsAreDeducted /\ DeductionsAreFills

(***************************************************************************)
(* No fill is deducted twice, not even by a deleted row that an edit could *)
(* revive: one fuel entry has at most one ledger row, ever (the unique     *)
(* index on fuel_entry_id never has to refuse an insert), and exactly the  *)
(* withdrawals carry a fuel entry.                                         *)
(***************************************************************************)
OneWithdrawalPerEntry ==
  /\ \A l \in DOMAIN ledger :
       ledger[l].entry # None <=> ledger[l].kind = "vehicle_withdrawal"
  /\ \A k, l \in DOMAIN ledger :
       ledger[k].entry = ledger[l].entry /\ ledger[k].entry # None => k = l

(***************************************************************************)
(* A farm fill stands on a tank that has not been removed, an external     *)
(* fill on none.  Removing a tank, removing a vehicle and editing a fill   *)
(* may come in any order.                                                  *)
(***************************************************************************)
FillsStandOnLiveTanks ==
  \A e \in DOMAIN fuelEntry :
    ~fuelEntry[e].deleted =>
      IF fuelEntry[e].source = "farm"
        THEN fuelEntry[e].tank \in DOMAIN tank /\ ~tank[fuelEntry[e].tank].deleted
        ELSE fuelEntry[e].tank = None

(***************************************************************************)
(* Tenants are apart: every row refers only to rows of its own group, the  *)
(* denormalised group of a ledger row included.                            *)
(***************************************************************************)
RowsStayInGroup ==
  /\ \A e \in DOMAIN fuelEntry :
       /\ fuelEntry[e].vehicle \in DOMAIN vehicle
       /\ vehicle[fuelEntry[e].vehicle].group = fuelEntry[e].group
       /\ fuelEntry[e].tank # None =>
            /\ fuelEntry[e].tank \in DOMAIN tank
            /\ tank[fuelEntry[e].tank].group = fuelEntry[e].group
  /\ \A l \in DOMAIN ledger :
       /\ ledger[l].tank \in DOMAIN tank
       /\ tank[ledger[l].tank].group = ledger[l].group
       /\ ledger[l].entry # None =>
            /\ ledger[l].entry \in DOMAIN fuelEntry
            /\ fuelEntry[ledger[l].entry].group = ledger[l].group

(***************************************************************************)
(* What no query returns is never written: neither a deleted fuel entry    *)
(* nor an entry of a removed vehicle, nor their ledger rows, although the  *)
(* sync of an edit revives deleted withdrawals.                            *)
(***************************************************************************)
Frozen(e) == ~fuelEntry[e].deleted /\ vehicle[fuelEntry[e].vehicle].deleted

UnreachableFillsStay ==
  [][\A e \in DOMAIN fuelEntry :
       fuelEntry[e].deleted \/ Frozen(e) =>
         /\ fuelEntry'[e] = fuelEntry[e]
         /\ \A l \in DOMAIN ledger : ledger[l].entry = e => ledger'[l] = ledger[l]]_vars

(***************************************************************************)
(* The price of it: a tank with a frozen farm fill can never be   *)
(* removed, since the fill can be neither deleted nor moved while it still *)
(* blocks the removal.                                                     *)
(***************************************************************************)
Pinned(t) == \E e \in FarmFills : fuelEntry[e].tank = t /\ Frozen(e)

PinnedTanksStayPinned ==
  [][\A t \in DOMAIN tank : Pinned(t) => Pinned(t)' /\ ~tank'[t].deleted]_vars

(***************************************************************************)
(* The fuel in the tank of a fill is the fuel its vehicle takes, except    *)
(* where the vehicle was given another fuel since: writing the entry again *)
(* puts it right or is refused.                                            *)
(***************************************************************************)
FuelMatches(e) ==
  e \in FarmFills => tank[fuelEntry[e].tank].fuel = vehicle[fuelEntry[e].vehicle].fuel

OnlyNewFuelPartsFills ==
  [][\A e \in DOMAIN fuelEntry' :
       ~FuelMatches(e)' =>
         /\ e \in DOMAIN fuelEntry /\ fuelEntry'[e] = fuelEntry[e]
         /\ FuelMatches(e) => vehicle' # vehicle]_vars

(***************************************************************************)
(* What the tables promise to whoever reads a stock figure: FuelStock,     *)
(* whose state is read off the tables as follows.                          *)
(***************************************************************************)
Movements(t) == {l \in ActiveRowsOf(t) : ledger[l].kind # "vehicle_withdrawal"}

TankStanding ==
  [t \in Tanks |-> IF t \notin DOMAIN tank THEN "unopened"
                   ELSE IF tank[t].deleted THEN "closed" ELSE "open"]

TankBalance == [t \in Tanks |-> IF t \in DOMAIN tank THEN CurrentStock(t) ELSE 0]

TankMoved == [t \in Tanks |-> LitresOf(Movements(t))]

FillTaken ==
  [e \in FuelEntries |->
     IF e \in FarmFills
       THEN [tank |-> fuelEntry[e].tank, litres |-> fuelEntry[e].litres]
       ELSE [tank |-> None, litres |-> 0]]

StockBook == INSTANCE FuelStock WITH
  standing <- TankStanding, balance <- TankBalance, moved <- TankMoved, fill <- FillTaken

ImplementsFuelStock == StockBook!Spec

=============================================================================
