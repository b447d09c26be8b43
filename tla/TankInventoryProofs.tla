------------------------ MODULE TankInventoryProofs ------------------------
(***************************************************************************)
(* Theorems about TankInventory, for every choice of its constants.        *)
(***************************************************************************)
EXTENDS TankInventory, FiniteSetTheorems, TLAPS

-----------------------------------------------------------------------------
(* Tables. *)

\* Inserting a row keeps a table a table and the other rows as they are.
LEMMA InsertTable ==
  ASSUME NEW table, NEW keys, NEW rows, NEW key \in keys, NEW row \in rows,
         IsTable(table, keys, rows)
  PROVE  /\ IsTable(Insert(table, key, row), keys, rows)
         /\ DOMAIN Insert(table, key, row) = DOMAIN table \cup {key}
         /\ Insert(table, key, row)[key] = row
         /\ \A k \in DOMAIN table : k # key => Insert(table, key, row)[k] = table[k]
  BY DEF IsTable, Insert

\* Writing a row keeps a table a table and the other rows as they are.
LEMMA UpdateTable ==
  ASSUME NEW table, NEW keys, NEW rows, NEW key \in DOMAIN table, NEW row \in rows,
         IsTable(table, keys, rows)
  PROVE  /\ IsTable([table EXCEPT ![key] = row], keys, rows)
         /\ DOMAIN [table EXCEPT ![key] = row] = DOMAIN table
         /\ [table EXCEPT ![key] = row][key] = row
         /\ \A k \in DOMAIN table : k # key => [table EXCEPT ![key] = row][k] = table[k]
  BY DEF IsTable

\* A table maps its keys to rows.
LEMMA TableRows ==
  ASSUME NEW table, NEW keys, NEW rows, IsTable(table, keys, rows)
  PROVE  DOMAIN table \subseteq keys /\ \A k \in DOMAIN table : table[k] \in rows
  BY DEF IsTable

-----------------------------------------------------------------------------
(* Types. *)

\* The empty tables are well typed.
LEMMA InitType == Init => TypeOK
  BY DEF Init, TypeOK, EmptyTable, IsTable

\* What a movement form writes is a non-zero amount.
LEMMA MovementAmountsType ==
  ASSUME NEW kind \in TankMovementType
  PROVE  MovementAmounts(kind) \subseteq Int \ {0}
  BY LitresAssumption DEF MovementAmounts, TankMovementType

\* The row made for a farm fill is a ledger row.
LEMMA WithdrawalRowType ==
  ASSUME NEW e \in FuelEntries, NEW entry \in FuelEntryRow, entry.tank \in Tanks
  PROVE  WithdrawalRow(e, entry) \in TankLedgerEntry
  BY DEF WithdrawalRow, FuelEntryRow, TankLedgerEntry, TankMovementType

-----------------------------------------------------------------------------
(* The inductive invariant. *)

\* No part is inductive alone: an edit writes the row of an entry, so that the
\* mirror needs the row to be the only one; a new key needs no old row to refer
\* to it; a fill needs its tank in the table.
IInv ==
  /\ TypeOK
  /\ LedgerMirrorsFills
  /\ OneWithdrawalPerEntry
  /\ FillsStandOnLiveTanks
  /\ RowsStayInGroup

\* Vehicles come and change, but none leaves the table or its group.
VehiclesGrow ==
  /\ IsTable(vehicle', Vehicles, VehicleRow)
  /\ UNCHANGED <<tank, fuelEntry, ledger>>
  /\ \A w \in DOMAIN vehicle :
       w \in DOMAIN vehicle' /\ vehicle'[w].group = vehicle[w].group

LEMMA VehicleStepFrame ==
  ASSUME TypeOK, NEW g \in Groups, VehicleStep(g)
  PROVE  VehiclesGrow
  <1> USE DEF TypeOK, VehiclesGrow
  <1>1. PICK v \in Vehicles :
          \/ \E fuel \in FuelTypes : CreateVehicle(g, v, fuel) \/ EditVehicle(g, v, fuel)
          \/ DeleteVehicle(g, v)
    BY DEF VehicleStep
  <1>2. ASSUME NEW fuel \in FuelTypes, CreateVehicle(g, v, fuel)
        PROVE  VehiclesGrow
    <2>1. [group |-> g, fuel |-> fuel, deleted |-> FALSE] \in VehicleRow
      BY DEF VehicleRow
    <2>2. IsTable(vehicle', Vehicles, VehicleRow)
      BY <1>2, <2>1, InsertTable DEF CreateVehicle
    <2>3. QED BY <1>2, <2>2 DEF CreateVehicle, Insert
  <1>3. ASSUME NEW fuel \in FuelTypes, EditVehicle(g, v, fuel)
        PROVE  VehiclesGrow
    BY <1>3 DEF EditVehicle, LiveVehicles, VehicleRow, IsTable
  <1>4. ASSUME DeleteVehicle(g, v)
        PROVE  VehiclesGrow
    BY <1>4 DEF DeleteVehicle, LiveVehicles, VehicleRow, IsTable
  <1>5. QED BY <1>1, <1>2, <1>3, <1>4

LEMMA VehicleStepInv ==
  ASSUME IInv, NEW g \in Groups, VehicleStep(g)
  PROVE  IInv'
  <1> USE DEF IInv, TypeOK
  <1>1. VehiclesGrow BY VehicleStepFrame
  <1>2. (TypeOK /\ LedgerMirrorsFills /\ OneWithdrawalPerEntry /\ FillsStandOnLiveTanks)'
    BY <1>1 DEF VehiclesGrow, LedgerMirrorsFills, FillsAreDeducted, DeductionsAreFills, FarmFills,
                WithdrawalRow, OneWithdrawalPerEntry, FillsStandOnLiveTanks
  <1>3. RowsStayInGroup' BY <1>1 DEF VehiclesGrow, RowsStayInGroup
  <1> QED BY <1>2, <1>3

\* Tanks come, and go only when no farm fill stands on them.
LEMMA TankStepInv ==
  ASSUME IInv, NEW g \in Groups, TankStep(g)
  PROVE  IInv'
  <1> DEFINE Frame == /\ IsTable(tank', Tanks, StorageTank)
                      /\ UNCHANGED <<vehicle, fuelEntry, ledger>>
                      /\ \A u \in DOMAIN tank :
                           /\ u \in DOMAIN tank'
                           /\ tank'[u].group = tank[u].group
                           /\ ActiveFarmEntries(u) # {} => tank'[u] = tank[u]
  <1> USE DEF IInv, TypeOK
  <1>1. PICK t \in Tanks :
          \/ \E fuel \in FuelTypes, opening \in Openings : CreateTank(g, t, fuel, opening)
          \/ DeleteTank(g, t)
    BY DEF TankStep
  <1>2. ASSUME NEW fuel \in FuelTypes, NEW opening \in Openings,
               CreateTank(g, t, fuel, opening)
        PROVE  Frame
    <2>1. [group |-> g, fuel |-> fuel, opening |-> opening, deleted |-> FALSE]
            \in StorageTank
      BY OpeningAssumption DEF StorageTank
    <2>2. IsTable(tank', Tanks, StorageTank)
      BY <1>2, <2>1, InsertTable DEF CreateTank
    <2>3. QED BY <1>2, <2>2 DEF CreateTank, Insert
  <1>3. ASSUME DeleteTank(g, t)
        PROVE  Frame
    BY <1>3 DEF DeleteTank, LiveTanks, StorageTank, IsTable
  <1>4. Frame BY <1>1, <1>2, <1>3
  <1>5. (TypeOK /\ LedgerMirrorsFills /\ OneWithdrawalPerEntry)'
    BY <1>4 DEF LedgerMirrorsFills, FillsAreDeducted, DeductionsAreFills, FarmFills,
                WithdrawalRow, OneWithdrawalPerEntry
  <1>6. FillsStandOnLiveTanks'
    <2> SUFFICES ASSUME NEW e \in DOMAIN fuelEntry, ~fuelEntry[e].deleted,
                        fuelEntry[e].source = "farm"
                 PROVE  /\ fuelEntry[e].tank \in DOMAIN tank'
                        /\ ~tank'[fuelEntry[e].tank].deleted
      BY <1>4 DEF FillsStandOnLiveTanks
    <2>1. e \in ActiveFarmEntries(fuelEntry[e].tank) BY DEF ActiveFarmEntries
    <2>2. QED BY <1>4, <2>1 DEF FillsStandOnLiveTanks
  <1>7. RowsStayInGroup' BY <1>4 DEF RowsStayInGroup
  <1> QED BY <1>5, <1>6, <1>7

\* A manual movement never touches a withdrawal.
MovementsOnly ==
  /\ IsTable(ledger', LedgerRows, TankLedgerEntry)
  /\ UNCHANGED <<vehicle, tank, fuelEntry>>
  /\ DOMAIN ledger \subseteq DOMAIN ledger'
  /\ \A k \in DOMAIN ledger' :
       \/ k \in DOMAIN ledger /\ ledger'[k] = ledger[k]
       \/ /\ ledger'[k].kind # "vehicle_withdrawal"
          /\ ledger'[k].entry = None
          /\ ledger'[k].tank \in DOMAIN tank
          /\ tank[ledger'[k].tank].group = ledger'[k].group
          /\ k \in DOMAIN ledger => ledger[k].kind # "vehicle_withdrawal"

LEMMA LedgerStepFrame ==
  ASSUME TypeOK, OneWithdrawalPerEntry, RowsStayInGroup, NEW g \in Groups, LedgerStep(g)
  PROVE  MovementsOnly
  <1> USE DEF TypeOK, MovementsOnly
  <1>1. PICK l \in LedgerRows :
          \/ \E t \in Tanks, kind \in TankMovementType : PostMovement(g, t, kind, l)
          \/ EditLedgerEntry(g, l)
          \/ DeleteLedgerEntry(g, l)
    BY DEF LedgerStep
  <1>2. ASSUME NEW t \in Tanks, NEW kind \in TankMovementType, PostMovement(g, t, kind, l)
        PROVE  MovementsOnly
    <2>1. PICK amount \in MovementAmounts(kind) :
            ledger' = Insert(ledger, l, MovementRow(g, t, kind, amount))
      BY <1>2 DEF PostMovement
    <2>2. kind # "vehicle_withdrawal" BY <2>1 DEF MovementAmounts
    <2>3. MovementRow(g, t, kind, amount) \in TankLedgerEntry
      BY <2>1, MovementAmountsType DEF MovementRow, TankLedgerEntry
    <2>4. t \in DOMAIN tank /\ tank[t].group = g BY <1>2 DEF PostMovement, LiveTanks
    <2>5. l \in LedgerRows \ DOMAIN ledger BY <1>2 DEF PostMovement
    <2>6. IsTable(ledger', LedgerRows, TankLedgerEntry)
      BY <2>1, <2>3, InsertTable
    <2>7. QED BY <1>2, <2>1, <2>2, <2>4, <2>5, <2>6 DEF PostMovement, MovementRow, Insert
  <1>3. ASSUME EditLedgerEntry(g, l)
        PROVE  MovementsOnly
    <2>1. l \in DOMAIN ledger BY <1>3 DEF EditLedgerEntry, ActiveLedgerRows
    <2>2. ledger[l] \in TankLedgerEntry BY <2>1, TableRows
    <2>3. PICK amount \in MovementAmounts(ledger[l].kind) :
            ledger' = [ledger EXCEPT ![l].amount = amount]
      BY <1>3 DEF EditLedgerEntry
    <2>4. ledger[l].kind # "vehicle_withdrawal" BY <2>3 DEF MovementAmounts
    <2>5. amount \in Int \ {0}
      BY <2>2, <2>3, MovementAmountsType DEF TankLedgerEntry
    <2>6. QED BY <1>3, <2>1, <2>2, <2>3, <2>4, <2>5
              DEF EditLedgerEntry, IsTable, TankLedgerEntry, RowsStayInGroup,
                  OneWithdrawalPerEntry
  <1>4. ASSUME DeleteLedgerEntry(g, l)
        PROVE  MovementsOnly
    <2> DEFINE row == [ledger[l] EXCEPT !.deleted = TRUE]
    <2>1. l \in DOMAIN ledger /\ ledger[l].kind # "vehicle_withdrawal"
      BY <1>4 DEF DeleteLedgerEntry, ActiveLedgerRows
    <2>2. ledger[l] \in TankLedgerEntry BY <2>1, TableRows
    <2>3. row \in TankLedgerEntry BY <2>2 DEF TankLedgerEntry
    <2>4. ledger' = [ledger EXCEPT ![l] = row] BY <1>4 DEF DeleteLedgerEntry
    <2>5. IsTable(ledger', LedgerRows, TankLedgerEntry) BY <2>1, <2>3, <2>4, UpdateTable
    <2>6. /\ row.kind = ledger[l].kind
          /\ row.entry = ledger[l].entry
          /\ row.tank = ledger[l].tank
          /\ row.group = ledger[l].group
      BY <2>2 DEF TankLedgerEntry
    <2> HIDE DEF row
    <2>7. QED BY <1>4, <2>1, <2>4, <2>5, <2>6
              DEF DeleteLedgerEntry, RowsStayInGroup, OneWithdrawalPerEntry, IsTable
  <1>5. QED BY <1>1, <1>2, <1>3, <1>4

LEMMA LedgerStepInv ==
  ASSUME IInv, NEW g \in Groups, LedgerStep(g)
  PROVE  IInv'
  <1> USE DEF IInv, TypeOK
  <1>1. MovementsOnly BY LedgerStepFrame
  <1>2. TypeOK' /\ FillsStandOnLiveTanks'
    BY <1>1 DEF MovementsOnly, FillsStandOnLiveTanks
  <1>3. FillsAreDeducted'
    BY <1>1 DEF MovementsOnly, LedgerMirrorsFills, FillsAreDeducted, FarmFills, WithdrawalRow
  <1>4. DeductionsAreFills'
    BY <1>1 DEF MovementsOnly, LedgerMirrorsFills, DeductionsAreFills, FarmFills, WithdrawalRow
  <1>5. OneWithdrawalPerEntry' BY <1>1 DEF MovementsOnly, OneWithdrawalPerEntry
  <1>6. RowsStayInGroup' BY <1>1 DEF MovementsOnly, RowsStayInGroup
  <1> QED BY <1>2, <1>3, <1>4, <1>5, <1>6 DEF LedgerMirrorsFills

-----------------------------------------------------------------------------
(* What the ledger looks like after the two ledger routines. *)

\* The rows of entry e, all of them deleted; the others as before.
OnlyDeleted(e) ==
  /\ IsTable(ledger', LedgerRows, TankLedgerEntry)
  /\ DOMAIN ledger' = DOMAIN ledger
  /\ \A k \in DOMAIN ledger :
       IF ledger[k].entry = e
         THEN /\ ledger'[k].deleted
              /\ ledger'[k].entry = e
              /\ ledger'[k].kind = ledger[k].kind
              /\ ledger'[k].group = ledger[k].group
              /\ ledger'[k].tank = ledger[k].tank
         ELSE ledger'[k] = ledger[k]

\* One row for entry e, that of the fill; the others as before.
OneDeducted(e, entry) ==
  /\ IsTable(ledger', LedgerRows, TankLedgerEntry)
  /\ DOMAIN ledger \subseteq DOMAIN ledger'
  /\ \E l \in DOMAIN ledger' :
       /\ ledger'[l] = WithdrawalRow(e, entry)
       /\ \A k \in DOMAIN ledger' \ {l} : /\ k \in DOMAIN ledger
                                          /\ ledger'[k] = ledger[k]
                                          /\ ledger[k].entry # e
       /\ l \in DOMAIN ledger => ledger[l].entry = e

\* Deleting a row of the entry leaves none of its rows active.
LEMMA DeleteRowEffect ==
  ASSUME TypeOK, OneWithdrawalPerEntry, NEW e \in FuelEntries, NEW l \in DOMAIN ledger,
         ledger[l].entry = e, ledger' = [ledger EXCEPT ![l].deleted = TRUE]
  PROVE  OnlyDeleted(e)
  <1> DEFINE row == [ledger[l] EXCEPT !.deleted = TRUE]
  <1>1. ledger[l] \in TankLedgerEntry BY TableRows DEF TypeOK
  <1>2. /\ row \in TankLedgerEntry
        /\ row.deleted
        /\ row.entry = ledger[l].entry
        /\ row.kind = ledger[l].kind
        /\ row.group = ledger[l].group
        /\ row.tank = ledger[l].tank
    BY <1>1 DEF TankLedgerEntry
  <1>3. ledger' = [ledger EXCEPT ![l] = row] OBVIOUS
  <1> HIDE DEF row
  <1>4. IsTable(ledger', LedgerRows, TankLedgerEntry) BY <1>2, <1>3 DEF TypeOK, IsTable
  <1>5. \A k \in DOMAIN ledger : ledger[k].entry = e => k = l
    BY NoneAssumption DEF OneWithdrawalPerEntry
  <1>6. QED BY <1>2, <1>3, <1>4, <1>5 DEF OnlyDeleted, IsTable

\* Writing the row of the entry leaves one that deducts the fill.
LEMMA UpdateRowEffect ==
  ASSUME TypeOK, OneWithdrawalPerEntry, NEW e \in FuelEntries, NEW entry \in FuelEntryRow,
         entry.tank \in Tanks, NEW l \in DOMAIN ledger, ledger[l].entry = e,
         ledger' = [ledger EXCEPT ![l] = WithdrawalRow(e, entry)]
  PROVE  OneDeducted(e, entry)
  <1> USE DEF TypeOK
  <1>1. IsTable(ledger', LedgerRows, TankLedgerEntry) BY WithdrawalRowType, UpdateTable
  <1>2. \A k \in DOMAIN ledger : ledger[k].entry = e => k = l
    BY NoneAssumption DEF OneWithdrawalPerEntry
  <1>3. QED BY <1>1, <1>2 DEF OneDeducted, IsTable

\* So does inserting one where there is none.
LEMMA InsertRowEffect ==
  ASSUME TypeOK, NEW e \in FuelEntries, NEW entry \in FuelEntryRow, entry.tank \in Tanks,
         \A k \in DOMAIN ledger : ledger[k].entry # e, NEW l \in LedgerRows \ DOMAIN ledger,
         ledger' = Insert(ledger, l, WithdrawalRow(e, entry))
  PROVE  OneDeducted(e, entry)
  <1>1. IsTable(ledger', LedgerRows, TankLedgerEntry)
    BY WithdrawalRowType, InsertTable DEF TypeOK
  <1>2. QED BY <1>1 DEF OneDeducted, Insert

\* Every row of an entry is a withdrawal.
LEMMA RowsAreWithdrawals ==
  ASSUME OneWithdrawalPerEntry, NEW e \in FuelEntries
  PROVE  /\ \A l \in DOMAIN ledger : ledger[l].entry = e => l \in Withdrawals(e)
         /\ \A l \in LinkedWithdrawals(e) \cup ActiveWithdrawals(e) :
              l \in DOMAIN ledger /\ ledger[l].entry = e
         /\ LinkedWithdrawals(e) = {} =>
              \A l \in DOMAIN ledger : ledger[l].entry # e
  BY NoneAssumption
  DEF OneWithdrawalPerEntry, Withdrawals, ActiveWithdrawals, LinkedWithdrawals

\* soft_delete_vehicle_withdrawals leaves no active row of the entry.
LEMMA SoftDeleteEffect ==
  ASSUME TypeOK, OneWithdrawalPerEntry, NEW e \in FuelEntries, SoftDeleteVehicleWithdrawals(e)
  PROVE  OnlyDeleted(e)
  <1>1. CASE ActiveWithdrawals(e) = {} /\ ledger' = ledger
    BY <1>1, RowsAreWithdrawals DEF OnlyDeleted, ActiveWithdrawals, TypeOK
  <1>2. ASSUME NEW l \in ActiveWithdrawals(e), ledger' = [ledger EXCEPT ![l].deleted = TRUE]
        PROVE  OnlyDeleted(e)
    BY <1>2, RowsAreWithdrawals, DeleteRowEffect
  <1>3. QED BY <1>1, <1>2 DEF SoftDeleteVehicleWithdrawals

\* The sync of a farm fill leaves exactly one row of the entry, made from it.
LEMMA FarmSyncEffect ==
  ASSUME TypeOK, OneWithdrawalPerEntry, NEW e \in FuelEntries, NEW entry \in FuelEntryRow,
         entry.source = "farm", entry.tank \in Tanks, SyncVehicleWithdrawal(e, entry)
  PROVE  OneDeducted(e, entry)
  <1>1. ASSUME NEW l \in LinkedWithdrawals(e),
               ledger' = [ledger EXCEPT ![l] = WithdrawalRow(e, entry)]
        PROVE  OneDeducted(e, entry)
    BY <1>1, RowsAreWithdrawals, UpdateRowEffect
  <1>2. ASSUME LinkedWithdrawals(e) = {}, NEW l \in LedgerRows \ DOMAIN ledger,
               ledger' = Insert(ledger, l, WithdrawalRow(e, entry))
        PROVE  OneDeducted(e, entry)
    BY <1>2, RowsAreWithdrawals, InsertRowEffect
  <1>3. QED BY <1>1, <1>2 DEF SyncVehicleWithdrawal

-----------------------------------------------------------------------------
(* Writing and deleting a fill. *)

\* The entry written is one of a live or removed vehicle of its own group, on
\* a live tank of that group or on none.
WellPlaced(entry) ==
  /\ ~entry.deleted
  /\ entry.vehicle \in DOMAIN vehicle
  /\ vehicle[entry.vehicle].group = entry.group
  /\ IF entry.source = "farm" THEN entry.tank \in LiveTanks(entry.group)
                              ELSE entry.tank = None

\* Writing an entry, new or old, and syncing its withdrawal keeps the invariant.
LEMMA WriteFillInv ==
  ASSUME IInv, NEW e \in FuelEntries, NEW entry \in FuelEntryRow, WellPlaced(entry),
         e \in DOMAIN fuelEntry => fuelEntry[e].group = entry.group,
         fuelEntry' = Insert(fuelEntry, e, entry),
         SyncVehicleWithdrawal(e, entry),
         UNCHANGED <<vehicle, tank>>
  PROVE  IInv'
  <1> USE DEF IInv, TypeOK
  <1>1. e # None BY NoneAssumption
  <1>2. IsTable(fuelEntry', FuelEntries, FuelEntryRow) BY InsertTable
  <1>3. /\ DOMAIN fuelEntry' = DOMAIN fuelEntry \cup {e}
        /\ fuelEntry'[e] = entry
        /\ \A d \in DOMAIN fuelEntry : d # e => fuelEntry'[d] = fuelEntry[d]
    BY DEF Insert
  <1>4. FillsStandOnLiveTanks'
    BY <1>3 DEF FillsStandOnLiveTanks, WellPlaced, LiveTanks
  <1>5. \A d \in DOMAIN fuelEntry' :
          /\ fuelEntry'[d].vehicle \in DOMAIN vehicle
          /\ vehicle[fuelEntry'[d].vehicle].group = fuelEntry'[d].group
          /\ fuelEntry'[d].tank # None =>
               /\ fuelEntry'[d].tank \in DOMAIN tank
               /\ tank[fuelEntry'[d].tank].group = fuelEntry'[d].group
    <2>1. entry.tank # None => entry.tank \in DOMAIN tank /\ tank[entry.tank].group = entry.group
      BY DEF WellPlaced, LiveTanks
    <2>2. QED BY <1>3, <2>1 DEF RowsStayInGroup, WellPlaced
  <1>6. ASSUME entry.source = "farm"
        PROVE  IInv'
    <2>1. entry.tank \in DOMAIN tank /\ tank[entry.tank].group = entry.group
      BY <1>6 DEF WellPlaced, LiveTanks
    <2>2. entry.tank \in Tanks BY <2>1, TableRows
    <2>3. OneDeducted(e, entry) BY <1>6, <2>2, FarmSyncEffect
    <2>4. PICK l \in DOMAIN ledger' :
            /\ ledger'[l] = WithdrawalRow(e, entry)
            /\ \A k \in DOMAIN ledger' \ {l} : /\ k \in DOMAIN ledger
                                               /\ ledger'[k] = ledger[k]
                                               /\ ledger[k].entry # e
            /\ l \in DOMAIN ledger => ledger[l].entry = e
      BY <2>3 DEF OneDeducted
    <2>5. IsTable(ledger', LedgerRows, TankLedgerEntry) /\ DOMAIN ledger \subseteq DOMAIN ledger'
      BY <2>3 DEF OneDeducted
    <2>6. /\ ledger'[l].entry = e
          /\ ledger'[l].kind = "vehicle_withdrawal"
          /\ ledger'[l].tank = entry.tank
          /\ ledger'[l].group = entry.group
      BY <2>4 DEF WithdrawalRow
    <2>7. OneWithdrawalPerEntry'
      BY <1>1, <2>4, <2>6 DEF OneWithdrawalPerEntry
    <2>8. RowsStayInGroup'
      <3>1. ASSUME NEW k \in DOMAIN ledger'
            PROVE  /\ ledger'[k].tank \in DOMAIN tank
                   /\ tank[ledger'[k].tank].group = ledger'[k].group
                   /\ ledger'[k].entry # None =>
                        /\ ledger'[k].entry \in DOMAIN fuelEntry'
                        /\ fuelEntry'[ledger'[k].entry].group = ledger'[k].group
        <4>1. CASE k = l BY <1>3, <2>1, <2>6, <4>1
        <4>2. CASE k # l BY <1>3, <2>4, <4>2 DEF RowsStayInGroup
        <4>3. QED BY <4>1, <4>2
      <3>2. QED BY <1>5, <3>1 DEF RowsStayInGroup
    <2>9. FillsAreDeducted'
      <3> SUFFICES ASSUME NEW d \in FarmFills'
                   PROVE  \E k \in DOMAIN ledger' : ledger'[k] = WithdrawalRow(d, fuelEntry'[d])
        BY DEF FillsAreDeducted, WithdrawalRow
      <3>1. CASE d = e BY <1>3, <2>4, <3>1
      <3>2. CASE d # e
        <4>1. d \in FarmFills /\ fuelEntry'[d] = fuelEntry[d]
          BY <1>3, <3>2 DEF FarmFills
        <4>2. PICK k \in DOMAIN ledger : ledger[k] = WithdrawalRow(d, fuelEntry[d])
          BY <4>1 DEF LedgerMirrorsFills, FillsAreDeducted
        <4>3. ledger[k].entry = d BY <4>2 DEF WithdrawalRow
        <4>4. k # l BY <2>4, <3>2, <4>3
        <4>5. QED BY <2>4, <2>5, <4>1, <4>2, <4>4
      <3>3. QED BY <3>1, <3>2
    <2>10. DeductionsAreFills'
      <3> SUFFICES ASSUME NEW k \in DOMAIN ledger',
                          ledger'[k].kind = "vehicle_withdrawal", ~ledger'[k].deleted
                   PROVE  /\ ledger'[k].entry \in FarmFills'
                          /\ ledger'[k] = WithdrawalRow(ledger'[k].entry,
                                                        fuelEntry'[ledger'[k].entry])
        BY DEF DeductionsAreFills, WithdrawalRow
      <3>1. CASE k = l
        BY <1>3, <1>6, <2>4, <2>6, <3>1 DEF FarmFills, WellPlaced
      <3>2. CASE k # l
        BY <1>3, <2>4, <3>2 DEF LedgerMirrorsFills, DeductionsAreFills, FarmFills
      <3>3. QED BY <3>1, <3>2
    <2>11. QED BY <1>2, <1>4, <2>5, <2>7, <2>8, <2>9, <2>10 DEF LedgerMirrorsFills
  <1>7. ASSUME entry.source # "farm"
        PROVE  IInv'
    <2>1. entry.source = "external" BY <1>7 DEF FuelEntryRow, FillSource
    <2>2. OnlyDeleted(e)
      BY <2>1, SoftDeleteEffect DEF SyncVehicleWithdrawal
    <2>3. /\ IsTable(ledger', LedgerRows, TankLedgerEntry)
          /\ DOMAIN ledger' = DOMAIN ledger
          /\ \A k \in DOMAIN ledger : ledger[k].entry # e => ledger'[k] = ledger[k]
          /\ \A k \in DOMAIN ledger : /\ ledger'[k].entry = ledger[k].entry
                                      /\ ledger'[k].kind = ledger[k].kind
                                      /\ ledger'[k].group = ledger[k].group
                                      /\ ledger'[k].tank = ledger[k].tank
                                      /\ ledger[k].entry = e => ledger'[k].deleted
      BY <2>2 DEF OnlyDeleted
    <2>4. OneWithdrawalPerEntry' BY <2>3 DEF OneWithdrawalPerEntry
    <2>5. RowsStayInGroup'
      <3>1. ASSUME NEW k \in DOMAIN ledger'
            PROVE  /\ ledger'[k].tank \in DOMAIN tank
                   /\ tank[ledger'[k].tank].group = ledger'[k].group
                   /\ ledger'[k].entry # None =>
                        /\ ledger'[k].entry \in DOMAIN fuelEntry'
                        /\ fuelEntry'[ledger'[k].entry].group = ledger'[k].group
        BY <1>3, <2>3 DEF RowsStayInGroup
      <3>2. QED BY <1>5, <3>1 DEF RowsStayInGroup
    <2>6. \A d \in FarmFills' : d # e /\ d \in FarmFills /\ fuelEntry'[d] = fuelEntry[d]
      BY <1>3, <1>7 DEF FarmFills
    <2>7. FillsAreDeducted'
      <3> SUFFICES ASSUME NEW d \in FarmFills'
                   PROVE  \E k \in DOMAIN ledger' : ledger'[k] = WithdrawalRow(d, fuelEntry'[d])
        BY DEF FillsAreDeducted, WithdrawalRow
      <3>1. PICK k \in DOMAIN ledger : ledger[k] = WithdrawalRow(d, fuelEntry[d])
        BY <2>6 DEF LedgerMirrorsFills, FillsAreDeducted
      <3>2. ledger[k].entry = d BY <3>1 DEF WithdrawalRow
      <3>3. QED BY <2>3, <2>6, <3>1, <3>2
    <2>8. DeductionsAreFills'
      <3> SUFFICES ASSUME NEW k \in DOMAIN ledger',
                          ledger'[k].kind = "vehicle_withdrawal", ~ledger'[k].deleted
                   PROVE  /\ ledger'[k].entry \in FarmFills'
                          /\ ledger'[k] = WithdrawalRow(ledger'[k].entry,
                                                        fuelEntry'[ledger'[k].entry])
        BY DEF DeductionsAreFills, WithdrawalRow
      <3>1. k \in DOMAIN ledger /\ ledger[k].entry # e /\ ledger'[k] = ledger[k] BY <2>3
      <3>2. QED BY <1>3, <3>1 DEF LedgerMirrorsFills, DeductionsAreFills, FarmFills
    <2>9. QED BY <1>2, <1>4, <2>3, <2>4, <2>5, <2>7, <2>8 DEF LedgerMirrorsFills
  <1>8. QED BY <1>6, <1>7

\* Deleting an entry with its withdrawal keeps the invariant.
LEMMA DeleteFillInv ==
  ASSUME IInv, NEW g \in Groups, NEW e \in FuelEntries, DeleteFuelEntry(g, e)
  PROVE  IInv'
  <1> USE DEF IInv, TypeOK
  <1> DEFINE entry == [fuelEntry[e] EXCEPT !.deleted = TRUE]
  <1>1. e \in DOMAIN fuelEntry BY DEF DeleteFuelEntry, ReachableEntries
  <1>2. fuelEntry[e] \in FuelEntryRow BY <1>1, TableRows
  <1>3. /\ entry \in FuelEntryRow
        /\ entry.deleted
        /\ entry.vehicle = fuelEntry[e].vehicle
        /\ entry.tank = fuelEntry[e].tank
        /\ entry.group = fuelEntry[e].group
    BY <1>2 DEF FuelEntryRow
  <1>4. fuelEntry' = [fuelEntry EXCEPT ![e] = entry] /\ UNCHANGED <<vehicle, tank>>
    BY DEF DeleteFuelEntry
  <1>5. OnlyDeleted(e) BY SoftDeleteEffect DEF DeleteFuelEntry
  <1> HIDE DEF entry
  <1>6. IsTable(fuelEntry', FuelEntries, FuelEntryRow) BY <1>1, <1>3, <1>4, UpdateTable
  <1>7. /\ DOMAIN fuelEntry' = DOMAIN fuelEntry
        /\ fuelEntry'[e] = entry
        /\ \A d \in DOMAIN fuelEntry : d # e => fuelEntry'[d] = fuelEntry[d]
    BY <1>1, <1>4, UpdateTable, <1>3
  <1>8. /\ IsTable(ledger', LedgerRows, TankLedgerEntry)
        /\ DOMAIN ledger' = DOMAIN ledger
        /\ \A k \in DOMAIN ledger : ledger[k].entry # e => ledger'[k] = ledger[k]
        /\ \A k \in DOMAIN ledger : /\ ledger'[k].entry = ledger[k].entry
                                    /\ ledger'[k].kind = ledger[k].kind
                                    /\ ledger'[k].group = ledger[k].group
                                    /\ ledger'[k].tank = ledger[k].tank
                                    /\ ledger[k].entry = e => ledger'[k].deleted
    BY <1>5 DEF OnlyDeleted
  <1>9. FillsStandOnLiveTanks' BY <1>3, <1>4, <1>7 DEF FillsStandOnLiveTanks
  <1>10. OneWithdrawalPerEntry' BY <1>8 DEF OneWithdrawalPerEntry
  <1>11. RowsStayInGroup'
    <2>1. ASSUME NEW d \in DOMAIN fuelEntry'
          PROVE  /\ fuelEntry'[d].vehicle \in DOMAIN vehicle
                 /\ vehicle[fuelEntry'[d].vehicle].group = fuelEntry'[d].group
                 /\ fuelEntry'[d].tank # None =>
                      /\ fuelEntry'[d].tank \in DOMAIN tank
                      /\ tank[fuelEntry'[d].tank].group = fuelEntry'[d].group
      <3>1. CASE d = e BY <1>3, <1>7, <3>1 DEF RowsStayInGroup
      <3>2. CASE d # e BY <1>7, <3>2 DEF RowsStayInGroup
      <3>3. QED BY <3>1, <3>2
    <2>2. \A d \in DOMAIN fuelEntry : fuelEntry'[d].group = fuelEntry[d].group
      BY <1>3, <1>7
    <2>3. ASSUME NEW k \in DOMAIN ledger'
          PROVE  /\ ledger'[k].tank \in DOMAIN tank
                 /\ tank[ledger'[k].tank].group = ledger'[k].group
                 /\ ledger'[k].entry # None =>
                      /\ ledger'[k].entry \in DOMAIN fuelEntry'
                      /\ fuelEntry'[ledger'[k].entry].group = ledger'[k].group
      BY <1>7, <1>8, <2>2 DEF RowsStayInGroup
    <2>4. QED BY <1>4, <2>1, <2>3 DEF RowsStayInGroup
  <1>12. \A d \in FarmFills' : d # e /\ d \in FarmFills /\ fuelEntry'[d] = fuelEntry[d]
    BY <1>3, <1>7 DEF FarmFills
  <1>13. FillsAreDeducted'
    <2> SUFFICES ASSUME NEW d \in FarmFills'
                 PROVE  \E k \in DOMAIN ledger' : ledger'[k] = WithdrawalRow(d, fuelEntry'[d])
      BY DEF FillsAreDeducted, WithdrawalRow
    <2>1. PICK k \in DOMAIN ledger : ledger[k] = WithdrawalRow(d, fuelEntry[d])
      BY <1>12 DEF LedgerMirrorsFills, FillsAreDeducted
    <2>2. ledger[k].entry = d BY <2>1 DEF WithdrawalRow
    <2>3. QED BY <1>8, <1>12, <2>1, <2>2
  <1>14. DeductionsAreFills'
    <2> SUFFICES ASSUME NEW k \in DOMAIN ledger',
                        ledger'[k].kind = "vehicle_withdrawal", ~ledger'[k].deleted
                 PROVE  /\ ledger'[k].entry \in FarmFills'
                        /\ ledger'[k] = WithdrawalRow(ledger'[k].entry,
                                                      fuelEntry'[ledger'[k].entry])
      BY DEF DeductionsAreFills, WithdrawalRow
    <2>1. k \in DOMAIN ledger /\ ledger[k].entry # e /\ ledger'[k] = ledger[k] BY <1>8
    <2>2. QED BY <1>7, <2>1 DEF LedgerMirrorsFills, DeductionsAreFills, FarmFills
  <1>15. QED BY <1>4, <1>6, <1>8, <1>9, <1>10, <1>11, <1>13, <1>14 DEF LedgerMirrorsFills

\* The tank a form resolves to is a live tank of the group, or none for an
\* external fill.
LEMMA FillTanksType ==
  ASSUME NEW g \in Groups, NEW fuel, NEW source \in FillSource, NEW choice,
         NEW t \in FillTanks(g, fuel, source, choice)
  PROVE  IF source = "farm" THEN t \in LiveTanks(g) ELSE t = None
  BY DEF FillTanks, ResolveFarmTank, FillSource

\* The tank resolved for a farm fill holds the fuel asked for.
LEMMA FillTanksFuel ==
  ASSUME NEW g, NEW fuel, NEW choice, NEW t \in FillTanks(g, fuel, "farm", choice)
  PROVE  tank[t].fuel = fuel
  BY DEF FillTanks, ResolveFarmTank

\* What creating and editing have in common: the entry written is new or was
\* reachable, well placed, and of the fuel of its vehicle.
WritesFill(g, e, entry) ==
  /\ entry.litres \in Litres
  /\ entry.group = g
  /\ WellPlaced(entry)
  /\ entry.source = "farm" => tank[entry.tank].fuel = vehicle[entry.vehicle].fuel
  /\ e \in DOMAIN fuelEntry => e \in ReachableEntries(g)
  /\ fuelEntry' = Insert(fuelEntry, e, entry)
  /\ SyncVehicleWithdrawal(e, entry)
  /\ UNCHANGED <<vehicle, tank>>

\* A fuel entry handler writes one fill or deletes one.
LEMMA FuelStepWrites ==
  ASSUME IInv, NEW g \in Groups, FuelStep(g)
  PROVE  \E e \in FuelEntries :
           \/ \E entry \in FuelEntryRow : WritesFill(g, e, entry)
           \/ DeleteFuelEntry(g, e)
  <1> USE DEF IInv, TypeOK
  <1>0. LiveTanks(g) \subseteq Tanks BY TableRows DEF LiveTanks
  <1>1. PICK e \in FuelEntries :
          \/ \E source \in FillSource, choice \in Tanks \cup {None}, litres \in Litres :
               \/ \E v \in Vehicles : CreateFuelEntry(g, v, e, source, choice, litres)
               \/ EditFuelEntry(g, e, source, choice, litres)
          \/ DeleteFuelEntry(g, e)
    BY DEF FuelStep
  <1>2. ASSUME NEW source \in FillSource, NEW choice \in Tanks \cup {None},
               NEW litres \in Litres, NEW v \in Vehicles,
               CreateFuelEntry(g, v, e, source, choice, litres)
        PROVE  \E entry \in FuelEntryRow : WritesFill(g, e, entry)
    <2>1. v \in DOMAIN vehicle /\ vehicle[v].group = g /\ e \notin DOMAIN fuelEntry
      BY <1>2 DEF CreateFuelEntry, LiveVehicles
    <2>2. PICK t \in FillTanks(g, vehicle[v].fuel, source, choice) :
            LET entry == [group |-> g, vehicle |-> v, source |-> source,
                          tank |-> t, litres |-> litres, deleted |-> FALSE]
            IN  /\ fuelEntry' = Insert(fuelEntry, e, entry)
                /\ SyncVehicleWithdrawal(e, entry)
      BY <1>2 DEF CreateFuelEntry
    <2> DEFINE entry == [group |-> g, vehicle |-> v, source |-> source,
                         tank |-> t, litres |-> litres, deleted |-> FALSE]
    <2>3. IF source = "farm" THEN t \in LiveTanks(g) ELSE t = None BY FillTanksType
    <2>4. entry \in FuelEntryRow BY <1>0, <2>3, LitresAssumption DEF FuelEntryRow
    <2>5. WellPlaced(entry) BY <2>1, <2>3 DEF WellPlaced
    <2>6. /\ fuelEntry' = Insert(fuelEntry, e, entry)
          /\ SyncVehicleWithdrawal(e, entry)
          /\ UNCHANGED <<vehicle, tank>>
      BY <1>2, <2>2 DEF CreateFuelEntry
    <2> HIDE DEF entry
    <2>7. entry.litres \in Litres /\ entry.group = g BY DEF entry
    <2>8. entry.source = "farm" => tank[entry.tank].fuel = vehicle[entry.vehicle].fuel
      BY FillTanksFuel DEF entry
    <2>9. QED BY <2>1, <2>4, <2>5, <2>6, <2>7, <2>8 DEF WritesFill
  <1>3. ASSUME NEW source \in FillSource, NEW choice \in Tanks \cup {None},
               NEW litres \in Litres, EditFuelEntry(g, e, source, choice, litres)
        PROVE  \E entry \in FuelEntryRow : WritesFill(g, e, entry)
    <2>1. /\ e \in ReachableEntries(g)
          /\ e \in DOMAIN fuelEntry
          /\ fuelEntry[e].group = g
          /\ ~fuelEntry[e].deleted
      BY <1>3 DEF EditFuelEntry, ReachableEntries
    <2>2. fuelEntry[e] \in FuelEntryRow BY <2>1, TableRows
    <2>3. PICK t \in FillTanks(g, vehicle[fuelEntry[e].vehicle].fuel, source, choice) :
            LET entry == [fuelEntry[e] EXCEPT !.source = source, !.tank = t, !.litres = litres]
            IN  /\ fuelEntry' = [fuelEntry EXCEPT ![e] = entry]
                /\ SyncVehicleWithdrawal(e, entry)
      BY <1>3 DEF EditFuelEntry
    <2> DEFINE entry == [fuelEntry[e] EXCEPT !.source = source, !.tank = t, !.litres = litres]
    <2>4. IF source = "farm" THEN t \in LiveTanks(g) ELSE t = None BY FillTanksType
    <2>5. /\ entry \in FuelEntryRow
          /\ entry.group = g
          /\ entry.source = source
          /\ entry.tank = t
          /\ entry.vehicle = fuelEntry[e].vehicle
          /\ entry.litres = litres
          /\ ~entry.deleted
      BY <1>0, <2>1, <2>2, <2>4, LitresAssumption DEF FuelEntryRow
    <2>6. /\ fuelEntry' = [fuelEntry EXCEPT ![e] = entry]
          /\ SyncVehicleWithdrawal(e, entry)
          /\ UNCHANGED <<vehicle, tank>>
      BY <1>3, <2>3 DEF EditFuelEntry
    <2> HIDE DEF entry
    <2>7. WellPlaced(entry) BY <2>1, <2>4, <2>5 DEF WellPlaced, RowsStayInGroup
    <2>8. fuelEntry' = Insert(fuelEntry, e, entry)
      BY <2>1, <2>6 DEF Insert, IsTable
    <2>9. source = "farm" => tank[t].fuel = vehicle[fuelEntry[e].vehicle].fuel
      BY FillTanksFuel
    <2>10. QED BY <2>1, <2>5, <2>6, <2>7, <2>8, <2>9 DEF WritesFill
  <1>4. QED BY <1>1, <1>2, <1>3

\* Creating, editing and deleting fuel entries keeps the invariant.
LEMMA FuelStepInv ==
  ASSUME IInv, NEW g \in Groups, FuelStep(g)
  PROVE  IInv'
  <1>1. ASSUME NEW e \in FuelEntries, NEW entry \in FuelEntryRow, WritesFill(g, e, entry)
        PROVE  IInv'
    BY <1>1, WriteFillInv DEF WritesFill, ReachableEntries
  <1>2. QED BY <1>1, FuelStepWrites, DeleteFillInv

-----------------------------------------------------------------------------
(* Theorems. *)

\* In the empty database the invariant holds.
LEMMA InitInv == Init => IInv
  BY InitType
     DEF Init, IInv, EmptyTable, LedgerMirrorsFills, FillsAreDeducted, DeductionsAreFills,
         FarmFills, OneWithdrawalPerEntry, FillsStandOnLiveTanks, RowsStayInGroup

\* The invariant reads nothing but the tables.
LEMMA StutterInv == IInv /\ UNCHANGED vars => IInv'
  BY DEF vars, IInv, TypeOK, LedgerMirrorsFills, FillsAreDeducted, DeductionsAreFills,
         FarmFills, WithdrawalRow, OneWithdrawalPerEntry, FillsStandOnLiveTanks,
         RowsStayInGroup

\* Every reachable database satisfies the invariant.
THEOREM Invariance == Spec => []IInv
  <1>1. IInv /\ [Next]_vars => IInv'
    BY StutterInv, VehicleStepInv, TankStepInv, LedgerStepInv, FuelStepInv DEF Next
  <1>2. QED BY <1>1, InitInv, PTL DEF Spec

\* The four tables hold well-typed rows, whatever the forms submit.
THEOREM TypeCorrect == Spec => []TypeOK
  <1>1. IInv => TypeOK BY DEF IInv
  <1>2. QED BY <1>1, Invariance, PTL

\* With handlers that run one at a time, the stock is short of exactly the
\* litres of the farm fills that are not deleted.
THEOREM LedgerMirror == Spec => []LedgerMirrorsFills
  <1>1. IInv => LedgerMirrorsFills BY DEF IInv
  <1>2. QED BY <1>1, Invariance, PTL

\* No entry ever has two ledger rows: the unique index is never hit.
THEOREM SingleWithdrawal == Spec => []OneWithdrawalPerEntry
  <1>1. IInv => OneWithdrawalPerEntry BY DEF IInv
  <1>2. QED BY <1>1, Invariance, PTL

\* No undeleted farm fill refers to a removed tank.
THEOREM TanksOutliveFills == Spec => []FillsStandOnLiveTanks
  <1>1. IInv => FillsStandOnLiveTanks BY DEF IInv
  <1>2. QED BY <1>1, Invariance, PTL

\* No row ever refers to a row of another group.
THEOREM GroupIsolation == Spec => []RowsStayInGroup
  <1>1. IInv => RowsStayInGroup BY DEF IInv
  <1>2. QED BY <1>1, Invariance, PTL

-----------------------------------------------------------------------------
(* What no step does. *)

\* A handler that has entry d in hand touches only its own row and ledger rows.
LEMMA SyncFrame ==
  ASSUME IInv, NEW d \in FuelEntries, NEW entry \in FuelEntryRow, WellPlaced(entry),
         SyncVehicleWithdrawal(d, entry)
  PROVE  \A l \in DOMAIN ledger : ledger[l].entry # d => ledger'[l] = ledger[l]
  <1> USE DEF IInv, TypeOK
  <1>1. CASE entry.source = "farm"
    <2>1. entry.tank \in Tanks BY <1>1, TableRows DEF WellPlaced, LiveTanks
    <2>2. OneDeducted(d, entry) BY <1>1, <2>1, FarmSyncEffect
    <2>3. QED BY <2>2 DEF OneDeducted
  <1>2. CASE entry.source # "farm"
    <2>1. entry.source = "external" BY <1>2 DEF FuelEntryRow, FillSource
    <2>2. OnlyDeleted(d) BY <2>1, SoftDeleteEffect DEF SyncVehicleWithdrawal
    <2>3. QED BY <2>2 DEF OnlyDeleted
  <1>3. QED BY <1>1, <1>2

\* Entry e and its ledger rows are as before.
Untouched(e) ==
  /\ e \in DOMAIN fuelEntry'
  /\ fuelEntry'[e] = fuelEntry[e]
  /\ \A l \in DOMAIN ledger : ledger[l].entry = e => ledger'[l] = ledger[l]

\* A manual movement leaves every entry untouched.
LEMMA LedgerStepUntouched ==
  ASSUME IInv, NEW g \in Groups, LedgerStep(g), NEW e \in DOMAIN fuelEntry
  PROVE  Untouched(e)
  <1> USE DEF IInv, TypeOK
  <1>1. e # None BY NoneAssumption, TableRows
  <1>2. PICK l \in LedgerRows :
          \/ \E t \in Tanks, kind \in TankMovementType : PostMovement(g, t, kind, l)
          \/ EditLedgerEntry(g, l)
          \/ DeleteLedgerEntry(g, l)
    BY DEF LedgerStep
  <1>3. ASSUME NEW t \in Tanks, NEW kind \in TankMovementType, PostMovement(g, t, kind, l)
        PROVE  Untouched(e)
    BY <1>3 DEF PostMovement, Insert, Untouched
  <1>4. ASSUME EditLedgerEntry(g, l)
        PROVE  Untouched(e)
    <2>1. l \in DOMAIN ledger /\ ledger[l].kind # "vehicle_withdrawal"
      BY <1>4 DEF EditLedgerEntry, ActiveLedgerRows, MovementAmounts
    <2>2. ledger[l].entry # e BY <1>1, <2>1 DEF OneWithdrawalPerEntry
    <2>3. \A k \in DOMAIN ledger : k # l => ledger'[k] = ledger[k]
      BY <1>4 DEF EditLedgerEntry
    <2>4. QED BY <1>4, <2>2, <2>3 DEF EditLedgerEntry, Untouched
  <1>5. ASSUME DeleteLedgerEntry(g, l)
        PROVE  Untouched(e)
    <2>1. ledger[l].entry # e
      BY <1>1, <1>5 DEF DeleteLedgerEntry, ActiveLedgerRows, OneWithdrawalPerEntry
    <2>2. \A k \in DOMAIN ledger : k # l => ledger'[k] = ledger[k]
      BY <1>5 DEF DeleteLedgerEntry
    <2>3. QED BY <1>5, <2>1, <2>2 DEF DeleteLedgerEntry, Untouched
  <1>6. QED BY <1>2, <1>3, <1>4, <1>5

\* The fuel entry handlers leave every entry untouched that they cannot reach.
LEMMA FuelStepUntouched ==
  ASSUME IInv, NEW g \in Groups, FuelStep(g),
         NEW e \in DOMAIN fuelEntry, e \notin ReachableEntries(g)
  PROVE  Untouched(e)
  <1> USE DEF IInv, TypeOK
  <1>1. PICK d \in FuelEntries :
          \/ \E entry \in FuelEntryRow : WritesFill(g, d, entry)
          \/ DeleteFuelEntry(g, d)
    BY FuelStepWrites
  <1>2. ASSUME NEW entry \in FuelEntryRow, WritesFill(g, d, entry)
        PROVE  Untouched(e)
    <2>1. d # e BY <1>2 DEF WritesFill
    <2>2. \A l \in DOMAIN ledger : ledger[l].entry # d => ledger'[l] = ledger[l]
      BY <1>2, SyncFrame DEF WritesFill
    <2>3. QED BY <1>2, <2>1, <2>2 DEF WritesFill, Insert, Untouched
  <1>3. ASSUME DeleteFuelEntry(g, d)
        PROVE  Untouched(e)
    <2>1. d # e BY <1>3 DEF DeleteFuelEntry
    <2>2. OnlyDeleted(d) BY <1>3, SoftDeleteEffect DEF DeleteFuelEntry
    <2>3. QED BY <1>3, <2>1, <2>2 DEF DeleteFuelEntry, OnlyDeleted, Untouched
  <1>4. QED BY <1>1, <1>2, <1>3

\* No step touches an entry that no query returns any more.
LEMMA UnreachableUntouched ==
  ASSUME IInv, [Next]_vars, NEW e \in DOMAIN fuelEntry,
         \A g \in Groups : e \notin ReachableEntries(g)
  PROVE  Untouched(e)
  <1>1. ASSUME NEW g \in Groups, VehicleStep(g)
        PROVE  Untouched(e)
    BY <1>1 DEF VehicleStep, CreateVehicle, EditVehicle, DeleteVehicle, Untouched
  <1>2. ASSUME NEW g \in Groups, TankStep(g)
        PROVE  Untouched(e)
    BY <1>2 DEF TankStep, CreateTank, DeleteTank, Untouched
  <1>3. CASE UNCHANGED vars BY <1>3 DEF vars, Untouched
  <1>4. QED BY <1>1, <1>2, <1>3, LedgerStepUntouched, FuelStepUntouched DEF Next

\* A removed vehicle stays removed.
LEMMA RemovedVehiclesStay ==
  ASSUME IInv, [Next]_vars, NEW v \in DOMAIN vehicle, vehicle[v].deleted
  PROVE  v \in DOMAIN vehicle' /\ vehicle'[v].deleted
  <1>1. ASSUME NEW g \in Groups, VehicleStep(g)
        PROVE  v \in DOMAIN vehicle' /\ vehicle'[v].deleted
    <2>1. vehicle[v] \in VehicleRow BY TableRows DEF IInv, TypeOK
    <2>2. QED BY <1>1, <2>1 DEF VehicleStep, CreateVehicle, EditVehicle, DeleteVehicle,
                               LiveVehicles, Insert, VehicleRow
  <1>2. ASSUME NEW g \in Groups, TankStep(g) \/ LedgerStep(g) \/ FuelStep(g)
        PROVE  vehicle' = vehicle
    BY <1>2 DEF TankStep, CreateTank, DeleteTank, LedgerStep, PostMovement, EditLedgerEntry,
                DeleteLedgerEntry, FuelStep, CreateFuelEntry, EditFuelEntry, DeleteFuelEntry
  <1>3. QED BY <1>1, <1>2 DEF Next, vars

\* Deleted fuel entries, those of removed vehicles, and the ledger rows of both
\* are never written again.
THEOREM UnreachableIsFinal == Spec => UnreachableFillsStay
  <1>1. IInv /\ [Next]_vars =>
          \A e \in DOMAIN fuelEntry :
            fuelEntry[e].deleted \/ Frozen(e) =>
              /\ fuelEntry'[e] = fuelEntry[e]
              /\ \A l \in DOMAIN ledger : ledger[l].entry = e => ledger'[l] = ledger[l]
    BY UnreachableUntouched DEF ReachableEntries, Untouched, Frozen
  <1>2. QED BY <1>1, Invariance, PTL DEF Spec, UnreachableFillsStay

\* A tank under a farm fill of a removed vehicle can never be removed.
THEOREM PinnedForever == Spec => PinnedTanksStayPinned
  <1>1. IInv /\ IInv' /\ [Next]_vars =>
          \A t \in DOMAIN tank : Pinned(t) => Pinned(t)' /\ ~tank'[t].deleted
    <2> SUFFICES ASSUME IInv, IInv', [Next]_vars, NEW t \in DOMAIN tank,
                        NEW e \in FarmFills, fuelEntry[e].tank = t, Frozen(e)
                 PROVE  Pinned(t)' /\ ~tank'[t].deleted
      BY DEF Pinned
    <2>1. e \in DOMAIN fuelEntry BY DEF FarmFills
    <2>2. Untouched(e) BY <2>1, UnreachableUntouched DEF ReachableEntries, Frozen
    <2>3. vehicle'[fuelEntry[e].vehicle].deleted
      BY <2>1, RemovedVehiclesStay DEF Frozen, IInv, RowsStayInGroup
    <2>4. e \in FarmFills' /\ fuelEntry'[e].tank = t /\ Frozen(e)'
      BY <2>2, <2>3 DEF Untouched, FarmFills, Frozen
    <2>5. ~tank'[t].deleted BY <2>4 DEF IInv, FillsStandOnLiveTanks, FarmFills
    <2>6. QED BY <2>4, <2>5 DEF Pinned
  <1>2. QED BY <1>1, Invariance, PTL DEF Spec, PinnedTanksStayPinned

-----------------------------------------------------------------------------
(* Fuels. *)

\* A fuel entry handler leaves each row alone or makes its fuel that of the
\* vehicle.
LEMMA FuelStepMatches ==
  ASSUME IInv, NEW g \in Groups, FuelStep(g), NEW e \in DOMAIN fuelEntry'
  PROVE  \/ FuelMatches(e)'
         \/ e \in DOMAIN fuelEntry /\ fuelEntry'[e] = fuelEntry[e]
  <1>1. PICK d \in FuelEntries :
          \/ \E entry \in FuelEntryRow : WritesFill(g, d, entry)
          \/ DeleteFuelEntry(g, d)
    BY FuelStepWrites
  <1>2. CASE e # d BY <1>1, <1>2 DEF WritesFill, DeleteFuelEntry, Insert
  <1>3. CASE e = d
    <2>1. ASSUME NEW entry \in FuelEntryRow, WritesFill(g, d, entry)
          PROVE  FuelMatches(e)'
      BY <1>3, <2>1 DEF WritesFill, Insert, FuelMatches, FarmFills
    <2>2. ASSUME DeleteFuelEntry(g, d)
          PROVE  FuelMatches(e)'
      <3>1. d \in DOMAIN fuelEntry BY <2>2 DEF DeleteFuelEntry, ReachableEntries
      <3>2. fuelEntry[d] \in FuelEntryRow BY <3>1, TableRows DEF IInv, TypeOK
      <3>3. fuelEntry'[e].deleted BY <1>3, <2>2, <3>1, <3>2 DEF DeleteFuelEntry, FuelEntryRow
      <3>4. QED BY <3>3 DEF FuelMatches, FarmFills
    <2>3. QED BY <1>1, <2>1, <2>2
  <1>4. QED BY <1>2, <1>3

\* What a tank was made for never changes.
LEMMA TankFuelsStay ==
  ASSUME IInv, NEW g \in Groups, TankStep(g), NEW u \in DOMAIN tank
  PROVE  tank'[u].fuel = tank[u].fuel
  <1>1. tank[u] \in StorageTank BY TableRows DEF IInv, TypeOK
  <1>2. QED BY <1>1 DEF TankStep, CreateTank, DeleteTank, LiveTanks, Insert, StorageTank

\* A farm fill parts from the fuel of its vehicle only when the vehicle is
\* given another fuel; no entry is ever written so.
THEOREM FuelsPartByVehicle == Spec => OnlyNewFuelPartsFills
  <1>1. IInv /\ [Next]_vars =>
          \A e \in DOMAIN fuelEntry' :
            ~FuelMatches(e)' =>
              /\ e \in DOMAIN fuelEntry /\ fuelEntry'[e] = fuelEntry[e]
              /\ FuelMatches(e) => vehicle' # vehicle
    <2> SUFFICES ASSUME IInv, [Next]_vars, NEW e \in DOMAIN fuelEntry', ~FuelMatches(e)'
                 PROVE  /\ e \in DOMAIN fuelEntry /\ fuelEntry'[e] = fuelEntry[e]
                        /\ FuelMatches(e) => vehicle' # vehicle
      OBVIOUS
    <2>1. ASSUME NEW g \in Groups, VehicleStep(g)
          PROVE  UNCHANGED <<tank, fuelEntry>>
      BY <2>1 DEF VehicleStep, CreateVehicle, EditVehicle, DeleteVehicle
    <2>2. ASSUME NEW g \in Groups, TankStep(g)
          PROVE  UNCHANGED <<vehicle, fuelEntry>>
      BY <2>2 DEF TankStep, CreateTank, DeleteTank
    <2>3. ASSUME NEW g \in Groups, LedgerStep(g)
          PROVE  UNCHANGED <<tank, vehicle, fuelEntry>>
      BY <2>3 DEF LedgerStep, PostMovement, EditLedgerEntry, DeleteLedgerEntry
    <2>4. ASSUME NEW g \in Groups, FuelStep(g)
          PROVE  UNCHANGED <<tank, vehicle>>
      BY <2>4 DEF FuelStep, CreateFuelEntry, EditFuelEntry, DeleteFuelEntry
    <2>5. e \in DOMAIN fuelEntry /\ fuelEntry'[e] = fuelEntry[e]
      BY <2>1, <2>2, <2>3, FuelStepMatches DEF Next, vars
    <2>6. e \in FarmFills => fuelEntry[e].tank \in DOMAIN tank
      BY <2>5 DEF IInv, FillsStandOnLiveTanks, FarmFills
    <2>7. e \in FarmFills => tank'[fuelEntry[e].tank].fuel = tank[fuelEntry[e].tank].fuel
      BY <2>1, <2>3, <2>4, <2>6, TankFuelsStay DEF Next, vars
    <2>8. QED BY <2>5, <2>7 DEF FuelMatches, FarmFills
  <1>2. QED BY <1>1, Invariance, PTL DEF Spec, OnlyNewFuelPartsFills

-----------------------------------------------------------------------------
(* Sums of litres. *)

\* MapThenSumSet takes the elements of a set in the order in which CHOOSE gives
\* them.  For a function over the sets of rows the lemmas need no induction
\* schema: a smallest set that refutes one is looked at instead.
First(s) == CHOOSE x \in s : TRUE

\* The function that LitresOf chooses, for a ledger given as a table.
Adds(table, f, rows) ==
  f = [s \in SUBSET rows |->
         IF s = {} THEN 0 ELSE table[First(s)].amount + f[s \ {First(s)}]]

\* The sum of the amounts of some rows of a table.
Total(table, rows) == (CHOOSE f : Adds(table, f, rows))[rows]

\* LitresOf is that sum over the ledger.
LEMMA LitresAreTotal == \A rows : LitresOf(rows) = Total(ledger, rows)
  BY Zenon DEF LitresOf, Total, MapThenSumSet, MapThenFoldSet, Adds, First

\* Among sets of rows one contains no other.
LEMMA SmallestSet ==
  ASSUME NEW S, IsFiniteSet(S), NEW sets \in SUBSET SUBSET S, sets # {}
  PROVE  \E s \in sets : \A u \in sets : u \subseteq s => u = s
  <1>1. IsWellFoundedOn(StrictSubsetOrdering(S), SUBSET S)
    BY FS_StrictSubsetOrderingWellFounded, FS_FiniteSubsetsOfFinite
  <1>2. PICK s \in sets : \A u \in sets : ~ (<<u, s>> \in StrictSubsetOrdering(S))
    BY <1>1, WFMin
  <1>3. QED BY <1>2 DEF StrictSubsetOrdering

\* The first of some rows is one of them.
LEMMA FirstIsOne == \A s : s # {} => First(s) \in s
  BY DEF First

\* What the function of Adds gives for each set of rows.
LEMMA AddsStep ==
  ASSUME NEW table, NEW rows, NEW f, Adds(table, f, rows)
  PROVE  /\ f[{}] = 0
         /\ \A s \in SUBSET rows :
              s # {} => f[s] = table[First(s)].amount + f[s \ {First(s)}]
  BY DEF Adds

\* Two such functions agree where both are defined.
LEMMA AddsAgree ==
  ASSUME NEW table, NEW S, IsFiniteSet(S), NEW T \in SUBSET S, NEW f, NEW g,
         Adds(table, f, S), Adds(table, g, T)
  PROVE  \A s \in SUBSET T : f[s] = g[s]
  <1> DEFINE Bad == {s \in SUBSET T : f[s] # g[s]}
  <1> SUFFICES ASSUME Bad # {} PROVE FALSE OBVIOUS
  <1>1. Bad \in SUBSET SUBSET S OBVIOUS
  <1>2. PICK s \in Bad : \A u \in Bad : u \subseteq s => u = s
    <2> HIDE DEF Bad
    <2> QED BY <1>1, SmallestSet
  <1>3. s \in SUBSET T /\ s \in SUBSET S /\ f[s] # g[s] OBVIOUS
  <1>4. s # {} BY <1>3, AddsStep
  <1>5. First(s) \in s BY <1>4, FirstIsOne
  <1>6. s \ {First(s)} \notin Bad BY <1>2, <1>5
  <1>7. f[s \ {First(s)}] = g[s \ {First(s)}] BY <1>3, <1>6
  <1>8. QED BY <1>3, <1>4, <1>7, AddsStep

\* There is one for every finite set of rows.
LEMMA AddsExists ==
  ASSUME NEW table, NEW S, IsFiniteSet(S)
  PROVE  \A T \in SUBSET S : \E f : Adds(table, f, T)
  <1> DEFINE Bad == {T \in SUBSET S : ~ \E f : Adds(table, f, T)}
             F(u) == CHOOSE f : Adds(table, f, u)
  <1> SUFFICES ASSUME Bad # {} PROVE FALSE OBVIOUS
  <1>1. Bad \in SUBSET SUBSET S OBVIOUS
  <1>2. PICK T \in Bad : \A u \in Bad : u \subseteq T => u = T
    <2> HIDE DEF Bad
    <2> QED BY <1>1, SmallestSet
  <1>3. T \in SUBSET S /\ ~ \E f : Adds(table, f, T) OBVIOUS
  <1>4. \A u \in SUBSET T : u # T => Adds(table, F(u), u)
    <2> SUFFICES ASSUME NEW u \in SUBSET T, u # T PROVE Adds(table, F(u), u) OBVIOUS
    <2>1. \E f : Adds(table, f, u) BY <1>2, <1>3
    <2>2. QED BY <2>1, Zenon
  <1> DEFINE g == [s \in SUBSET T |->
                     IF s = {} THEN 0
                     ELSE table[First(s)].amount + Total(table, s \ {First(s)})]
  <1>5. \A u \in SUBSET T : u # T => g[u] = Total(table, u)
    <2> SUFFICES ASSUME NEW u \in SUBSET T, u # T PROVE g[u] = Total(table, u) OBVIOUS
    <2>1. Adds(table, F(u), u) /\ Total(table, u) = F(u)[u] BY <1>4, Zenon DEF Total
    <2> HIDE DEF F
    <2>2. CASE u = {} BY <2>1, <2>2, AddsStep
    <2>3. CASE u # {}
      <3> DEFINE v == u \ {First(u)}
      <3>1. First(u) \in u BY <2>3, FirstIsOne
      <3>2. v \in SUBSET T /\ v # T /\ v \in SUBSET u BY <3>1
      <3>3. Adds(table, F(v), v) /\ Total(table, v) = F(v)[v]
        BY <1>4, <3>2, Zenon DEF Total, F
      <3>4. IsFiniteSet(u) BY <1>3, FS_Subset
      <3>5. F(u)[v] = F(v)[v]
        <4> HIDE DEF v
        <4> QED BY <2>1, <3>2, <3>3, <3>4, AddsAgree
      <3>6. F(u)[u] = table[First(u)].amount + F(u)[v] BY <2>1, <2>3, AddsStep
      <3>7. g[u] = table[First(u)].amount + Total(table, v) BY <2>3
      <3>8. QED BY <2>1, <3>3, <3>5, <3>6, <3>7
    <2>4. QED BY <2>2, <2>3
  <1>6. \A s \in SUBSET T : s # {} => g[s \ {First(s)}] = Total(table, s \ {First(s)})
    <2> SUFFICES ASSUME NEW s \in SUBSET T, s # {}
                 PROVE  g[s \ {First(s)}] = Total(table, s \ {First(s)})
      OBVIOUS
    <2>1. First(s) \in s BY FirstIsOne
    <2> HIDE DEF g
    <2>2. QED BY <1>5, <2>1
  <1>7. g = [s \in SUBSET T |->
               IF s = {} THEN 0 ELSE table[First(s)].amount + g[s \ {First(s)}]]
    <2> DEFINE G(s) == table[First(s)].amount + Total(table, s \ {First(s)})
               H(s) == table[First(s)].amount + g[s \ {First(s)}]
    <2>1. \A s \in SUBSET T : s # {} => G(s) = H(s)
      <3> HIDE DEF g
      <3> QED BY <1>6
    <2>2. g = [s \in SUBSET T |-> IF s = {} THEN 0 ELSE G(s)] OBVIOUS
    <2> HIDE DEF g, G, H
    <2>3. g = [s \in SUBSET T |-> IF s = {} THEN 0 ELSE H(s)] BY <2>1, <2>2
    <2>4. QED BY <2>3 DEF H
  <1>8. Adds(table, g, T)
    <2> HIDE DEF g
    <2> QED BY <1>7 DEF Adds
  <1>9. QED BY <1>3, <1>8

\* What the sum of any finite set of rows is: nothing, or the first and the rest.
LEMMA TotalStep ==
  ASSUME NEW table, NEW S, IsFiniteSet(S)
  PROVE  /\ Total(table, {}) = 0
         /\ \A T \in SUBSET S :
              T # {} => Total(table, T) = table[First(T)].amount + Total(table, T \ {First(T)})
  <1> DEFINE F(u) == CHOOSE f : Adds(table, f, u)
  <1>1. \A T \in SUBSET S : Adds(table, F(T), T) /\ Total(table, T) = F(T)[T]
    <2> SUFFICES ASSUME NEW T \in SUBSET S
                 PROVE  Adds(table, F(T), T) /\ Total(table, T) = F(T)[T]
      OBVIOUS
    <2>1. \E f : Adds(table, f, T) BY AddsExists
    <2>2. QED BY <2>1, Zenon DEF Total
  <1> HIDE DEF F
  <1>2. Total(table, {}) = 0 BY <1>1, AddsStep
  <1>3. ASSUME NEW T \in SUBSET S, T # {}
        PROVE  Total(table, T) = table[First(T)].amount + Total(table, T \ {First(T)})
    <2> DEFINE v == T \ {First(T)}
    <2>1. v \in SUBSET T /\ v \in SUBSET S OBVIOUS
    <2>2. IsFiniteSet(T) BY FS_Subset
    <2>3. Adds(table, F(T), T) /\ Adds(table, F(v), v) BY <1>1, <2>1
    <2>4. F(T)[v] = F(v)[v]
      <3> HIDE DEF v
      <3> QED BY <2>1, <2>2, <2>3, AddsAgree
    <2>5. F(T)[T] = table[First(T)].amount + F(T)[v]
      <3>1. \A s \in SUBSET T : s # {} => F(T)[s] = table[First(s)].amount + F(T)[s \ {First(s)}]
        BY <2>3, AddsStep
      <3>2. QED BY <1>3, <3>1
    <2>6. QED BY <1>1, <2>1, <2>4, <2>5
  <1>4. QED BY <1>2, <1>3

\* Only the amounts of the summed rows count.
LEMMA TotalAgrees ==
  ASSUME NEW old, NEW new, NEW S, IsFiniteSet(S), \A k \in S : old[k].amount = new[k].amount
  PROVE  Total(old, S) = Total(new, S)
  <1> DEFINE Bad == {s \in SUBSET S : Total(old, s) # Total(new, s)}
  <1>1. ASSUME Bad # {}
        PROVE  FALSE
    <2>1. Bad \in SUBSET SUBSET S OBVIOUS
    <2>2. PICK s \in Bad : \A u \in Bad : u \subseteq s => u = s
      <3> HIDE DEF Bad
      <3> QED BY <1>1, <2>1, SmallestSet
    <2>3. s \in SUBSET S /\ Total(old, s) # Total(new, s) OBVIOUS
    <2>4. s # {} BY <2>3, TotalStep
    <2>5. First(s) \in s BY <2>4, FirstIsOne
    <2>6. Total(old, s \ {First(s)}) = Total(new, s \ {First(s)}) BY <2>2, <2>3, <2>5
    <2>7. QED BY <2>3, <2>4, <2>5, <2>6, TotalStep
  <1>2. QED BY <1>1

\* Whole amounts have a whole sum.
LEMMA TotalIsInt ==
  ASSUME NEW table, NEW S, IsFiniteSet(S), \A k \in S : table[k].amount \in Int
  PROVE  \A T \in SUBSET S : Total(table, T) \in Int
  <1> DEFINE Bad == {s \in SUBSET S : Total(table, s) \notin Int}
  <1>1. ASSUME Bad # {}
        PROVE  FALSE
    <2>1. Bad \in SUBSET SUBSET S OBVIOUS
    <2>2. PICK s \in Bad : \A u \in Bad : u \subseteq s => u = s
      <3> HIDE DEF Bad
      <3> QED BY <1>1, <2>1, SmallestSet
    <2>3. s \in SUBSET S /\ Total(table, s) \notin Int OBVIOUS
    <2>4. s # {}
      <3>1. Total(table, {}) = 0 BY TotalStep
      <3>2. QED BY <2>3, <3>1
    <2>5. First(s) \in s BY <2>4, FirstIsOne
    <2>6. Total(table, s \ {First(s)}) \in Int BY <2>2, <2>3, <2>5
    <2>7. Total(table, s) = table[First(s)].amount + Total(table, s \ {First(s)})
      BY <2>3, <2>4, TotalStep
    <2>8. table[First(s)].amount \in Int BY <2>3, <2>5
    <2>9. QED BY <2>3, <2>6, <2>7, <2>8
  <1>2. QED BY <1>1

\* Any row can be taken out of the sum, not only the first.
LEMMA TotalWithout ==
  ASSUME NEW table, NEW S, IsFiniteSet(S), \A k \in S : table[k].amount \in Int, NEW l \in S
  PROVE  Total(table, S) = table[l].amount + Total(table, S \ {l})
  <1> DEFINE Splits(s, k) == Total(table, s) = table[k].amount + Total(table, s \ {k})
             Bad == {s \in SUBSET S : \E k \in s : ~Splits(s, k)}
  <1>1. ASSUME Bad # {}
        PROVE  FALSE
    <2>1. Bad \in SUBSET SUBSET S OBVIOUS
    <2>2. PICK s \in Bad : \A u \in Bad : u \subseteq s => u = s
      <3> HIDE DEF Bad
      <3> QED BY <1>1, <2>1, SmallestSet
    <2>3. PICK k \in s : ~Splits(s, k) OBVIOUS
    <2> DEFINE c == First(s)
    <2>4. s \in SUBSET S /\ s # {} BY <2>3
    <2>5. c \in s BY <2>4, FirstIsOne
    <2>6. Splits(s, c) BY <2>4, TotalStep
    <2>7. c # k BY <2>3, <2>6
    <2>8. \A u \in SUBSET s : u # s => \A j \in u : Splits(u, j) BY <2>2, <2>4
    <2> HIDE DEF c, Splits
    <2>9. Splits(s \ {c}, k) /\ Splits(s \ {k}, c) BY <2>3, <2>5, <2>7, <2>8
    <2>10. (s \ {c}) \ {k} = (s \ {k}) \ {c} OBVIOUS
    <2>11. /\ table[c].amount \in Int
           /\ table[k].amount \in Int
           /\ Total(table, (s \ {k}) \ {c}) \in Int
      BY <2>3, <2>4, <2>5, TotalIsInt
    <2>12. /\ Total(table, s) = table[c].amount + Total(table, s \ {c})
           /\ Total(table, s \ {c}) = table[k].amount + Total(table, (s \ {k}) \ {c})
           /\ Total(table, s \ {k}) = table[c].amount + Total(table, (s \ {k}) \ {c})
           /\ Total(table, s) # table[k].amount + Total(table, s \ {k})
      BY <2>3, <2>6, <2>9, <2>10 DEF Splits
    <2>13. QED BY <2>11, <2>12
  <1>2. Splits(S, l) BY <1>1
  <1>3. QED BY <1>2

\* When one row is written the sum moves by what it now counts less what it did.
LEMMA TotalMoves ==
  ASSUME NEW old, NEW new, NEW R, NEW Q, IsFiniteSet(R), NEW l, R \ {l} = Q \ {l},
         \A k \in R : old[k].amount \in Int, \A k \in Q : new[k].amount \in Int,
         \A k \in R \ {l} : old[k].amount = new[k].amount
  PROVE  /\ Total(old, R) \in Int
         /\ Total(new, Q) = Total(old, R) + (IF l \in Q THEN new[l].amount ELSE 0)
                                          - (IF l \in R THEN old[l].amount ELSE 0)
  <1>1. IsFiniteSet(R \ {l}) BY FS_RemoveElement
  <1>2. IsFiniteSet(Q)
    <2>1. IsFiniteSet((R \ {l}) \cup {l}) BY <1>1, FS_AddElement
    <2>2. Q \in SUBSET ((R \ {l}) \cup {l}) OBVIOUS
    <2>3. QED BY <2>1, <2>2, FS_Subset
  <1>3. Total(old, R \ {l}) = Total(new, Q \ {l}) BY <1>1, TotalAgrees
  <1>4. Total(old, R) \in Int /\ Total(old, R \ {l}) \in Int BY TotalIsInt
  <1>5. Total(old, R) = (IF l \in R THEN old[l].amount ELSE 0) + Total(old, R \ {l})
    <2>1. CASE l \in R BY <2>1, TotalWithout
    <2>2. CASE l \notin R
      <3>1. R \ {l} = R BY <2>2
      <3>2. Total(old, R \ {l}) = Total(old, R) BY <3>1
      <3>3. QED BY <1>4, <2>2, <3>2
    <2>3. QED BY <2>1, <2>2
  <1>6. Total(new, Q) = (IF l \in Q THEN new[l].amount ELSE 0) + Total(new, Q \ {l})
    <2>1. CASE l \in Q BY <1>2, <2>1, TotalWithout
    <2>2. CASE l \notin Q
      <3>1. Q \ {l} = Q BY <2>2
      <3>2. Total(new, Q \ {l}) = Total(new, Q) BY <3>1
      <3>3. Total(new, Q) \in Int BY <1>2, TotalIsInt
      <3>4. QED BY <2>2, <3>2, <3>3
    <2>3. QED BY <2>1, <2>2
  <1>7. /\ (IF l \in R THEN old[l].amount ELSE 0) \in Int
        /\ (IF l \in Q THEN new[l].amount ELSE 0) \in Int
    OBVIOUS
  <1>8. QED BY <1>3, <1>4, <1>5, <1>6, <1>7

-----------------------------------------------------------------------------
(* What one written row does to the stock. *)

\* What row l of a ledger adds to the stock of tank t, and what as a movement.
Counted(table, l, t) ==
  IF l \in DOMAIN table /\ table[l].tank = t /\ ~table[l].deleted THEN table[l].amount ELSE 0

CountedAsMovement(table, l, t) ==
  IF l \in DOMAIN table /\ table[l].kind # "vehicle_withdrawal" THEN Counted(table, l, t) ELSE 0

\* No row but l is written.
OnlyRow(l) ==
  /\ DOMAIN ledger' \ {l} = DOMAIN ledger \ {l}
  /\ \A k \in DOMAIN ledger \ {l} : ledger'[k] = ledger[k]

\* The stock of a tank then moves by what that row counts now less what it did.
LEMMA StockMoves ==
  ASSUME IsTable(ledger, LedgerRows, TankLedgerEntry), IsFiniteSet(DOMAIN ledger),
         IsTable(ledger', LedgerRows, TankLedgerEntry), NEW l, OnlyRow(l), NEW t
  PROVE  /\ LitresOf(ActiveRowsOf(t)) \in Int
         /\ LitresOf(ActiveRowsOf(t))'
              = LitresOf(ActiveRowsOf(t)) + Counted(ledger', l, t) - Counted(ledger, l, t)
         /\ LitresOf(Movements(t)) \in Int
         /\ LitresOf(Movements(t))'
              = LitresOf(Movements(t)) + CountedAsMovement(ledger', l, t)
                                       - CountedAsMovement(ledger, l, t)
  <1>1. /\ \A k \in DOMAIN ledger : ledger[k].amount \in Int
        /\ \A k \in DOMAIN ledger' : ledger'[k].amount \in Int
    <2>1. /\ \A k \in DOMAIN ledger : ledger[k] \in TankLedgerEntry
          /\ \A k \in DOMAIN ledger' : ledger'[k] \in TankLedgerEntry
      BY TableRows
    <2>2. QED BY <2>1 DEF TankLedgerEntry
  <1>2. /\ LitresOf(ActiveRowsOf(t)) = Total(ledger, ActiveRowsOf(t))
        /\ LitresOf(Movements(t)) = Total(ledger, Movements(t))
    BY LitresAreTotal
  <1>3. /\ LitresOf(ActiveRowsOf(t))' = Total(ledger', ActiveRowsOf(t)')
        /\ LitresOf(Movements(t))' = Total(ledger', Movements(t)')
    BY Zenon DEF LitresOf, Total, MapThenSumSet, MapThenFoldSet, Adds, First
  <1>4. /\ ActiveRowsOf(t) \in SUBSET DOMAIN ledger
        /\ Movements(t) \in SUBSET DOMAIN ledger
        /\ ActiveRowsOf(t)' \in SUBSET DOMAIN ledger'
        /\ Movements(t)' \in SUBSET DOMAIN ledger'
    BY DEF ActiveRowsOf, Movements
  <1>5. IsFiniteSet(ActiveRowsOf(t)) /\ IsFiniteSet(Movements(t))
    BY <1>4, FS_Subset
  <1>6. /\ ActiveRowsOf(t) \ {l} = ActiveRowsOf(t)' \ {l}
        /\ Movements(t) \ {l} = Movements(t)' \ {l}
    BY DEF ActiveRowsOf, Movements, OnlyRow
  <1>7. \A k \in DOMAIN ledger \ {l} : ledger[k].amount = ledger'[k].amount
    BY DEF OnlyRow
  <1>8. /\ Counted(ledger, l, t) = IF l \in ActiveRowsOf(t) THEN ledger[l].amount ELSE 0
        /\ Counted(ledger', l, t) = IF l \in ActiveRowsOf(t)' THEN ledger'[l].amount ELSE 0
    BY DEF Counted, ActiveRowsOf
  <1>9. /\ CountedAsMovement(ledger, l, t) = IF l \in Movements(t) THEN ledger[l].amount ELSE 0
        /\ CountedAsMovement(ledger', l, t)
             = IF l \in Movements(t)' THEN ledger'[l].amount ELSE 0
    BY <1>8 DEF CountedAsMovement, Movements, ActiveRowsOf
  <1>10. /\ Total(ledger, ActiveRowsOf(t)) \in Int
         /\ Total(ledger', ActiveRowsOf(t)')
              = Total(ledger, ActiveRowsOf(t)) + Counted(ledger', l, t) - Counted(ledger, l, t)
    <2>1. /\ \A k \in ActiveRowsOf(t) : ledger[k].amount \in Int
          /\ \A k \in ActiveRowsOf(t)' : ledger'[k].amount \in Int
          /\ \A k \in ActiveRowsOf(t) \ {l} : ledger[k].amount = ledger'[k].amount
      BY <1>1, <1>4, <1>7
    <2>2. QED BY <1>5, <1>6, <1>8, <2>1, TotalMoves
  <1>11. /\ Total(ledger, Movements(t)) \in Int
         /\ Total(ledger', Movements(t)')
              = Total(ledger, Movements(t)) + CountedAsMovement(ledger', l, t)
                                            - CountedAsMovement(ledger, l, t)
    <2>1. /\ \A k \in Movements(t) : ledger[k].amount \in Int
          /\ \A k \in Movements(t)' : ledger'[k].amount \in Int
          /\ \A k \in Movements(t) \ {l} : ledger[k].amount = ledger'[k].amount
      BY <1>1, <1>4, <1>7
    <2>2. QED BY <1>5, <1>6, <1>9, <2>1, TotalMoves
  <1>12. QED BY <1>2, <1>3, <1>10, <1>11

-----------------------------------------------------------------------------
(* Each handler is a step of the stock book or leaves it as it is. *)

\* The stock figures are read off the ledger.
LEMMA StockReadsLedger ==
  ASSUME UNCHANGED ledger
  PROVE  /\ \A t : LitresOf(ActiveRowsOf(t))' = LitresOf(ActiveRowsOf(t))
         /\ TankMoved' = TankMoved
  <1>1. \A t : ActiveRowsOf(t)' = ActiveRowsOf(t) /\ Movements(t)' = Movements(t)
    BY DEF ActiveRowsOf, Movements
  <1>2. \A t : /\ LitresOf(ActiveRowsOf(t)) = Total(ledger, ActiveRowsOf(t))
               /\ LitresOf(Movements(t)) = Total(ledger, Movements(t))
    BY LitresAreTotal
  <1>3. \A t : /\ LitresOf(ActiveRowsOf(t))' = Total(ledger', ActiveRowsOf(t)')
               /\ LitresOf(Movements(t))' = Total(ledger', Movements(t)')
    BY Zenon DEF LitresOf, Total, MapThenSumSet, MapThenFoldSet, Adds, First
  <1>4. \A t : /\ LitresOf(ActiveRowsOf(t))' = LitresOf(ActiveRowsOf(t))
               /\ LitresOf(Movements(t))' = LitresOf(Movements(t))
    BY <1>1, <1>2, <1>3
  <1>5. QED BY <1>4 DEF TankMoved

\* The book is read off tanks, fuel entries and ledger.
LEMMA BookReadsTables ==
  ASSUME UNCHANGED <<tank, fuelEntry, ledger>>
  PROVE  UNCHANGED StockBook!svars
  BY StockReadsLedger
  DEF StockBook!svars, TankStanding, TankBalance, FillTaken, FarmFills, CurrentStock

\* At first the book is empty.
LEMMA BookOpens == Init => StockBook!Init
  <1> SUFFICES ASSUME Init PROVE StockBook!Init OBVIOUS
  <1>1. /\ DOMAIN tank = {}
        /\ DOMAIN ledger = {}
        /\ DOMAIN fuelEntry = {}
    BY DEF Init, EmptyTable
  <1>2. \A t : Movements(t) = {} BY <1>1 DEF Movements, ActiveRowsOf
  <1>3. LitresOf({}) = 0 BY LitresAreTotal, TotalStep, FS_EmptySet
  <1>4. TankMoved = [t \in Tanks |-> 0] BY <1>2, <1>3 DEF TankMoved
  <1>5. TankStanding = [t \in Tanks |-> "unopened"] /\ TankBalance = [t \in Tanks |-> 0]
    BY <1>1 DEF TankStanding, TankBalance
  <1>6. FillTaken = [e \in FuelEntries |-> StockBook!NoFill]
    BY <1>1 DEF FillTaken, FarmFills, StockBook!NoFill
  <1>7. QED BY <1>4, <1>5, <1>6 DEF StockBook!Init

\* A new tank is opened with its opening balance: no row is on it yet.
LEMMA CreateTankOpens ==
  ASSUME IInv, NEW g \in Groups, NEW t \in Tanks, NEW fuel \in FuelTypes,
         NEW opening \in Openings, CreateTank(g, t, fuel, opening)
  PROVE  StockBook!Open(t, opening)
  <1>1. /\ t \notin DOMAIN tank
        /\ tank' = Insert(tank, t, [group |-> g, fuel |-> fuel,
                                    opening |-> opening, deleted |-> FALSE])
        /\ UNCHANGED <<fuelEntry, ledger>>
    BY DEF CreateTank
  <1>2. /\ DOMAIN tank' = DOMAIN tank \cup {t}
        /\ tank'[t].opening = opening
        /\ ~tank'[t].deleted
        /\ \A u \in DOMAIN tank : tank'[u] = tank[u]
    BY <1>1 DEF Insert
  <1>3. TankStanding[t] = "unopened" BY <1>1 DEF TankStanding
  <1>4. TankStanding' = [TankStanding EXCEPT ![t] = "open"]
    BY <1>2 DEF TankStanding
  <1>5. TankMoved' = TankMoved /\ FillTaken' = FillTaken
    BY <1>1, StockReadsLedger DEF FillTaken, FarmFills
  <1>6. \A u : LitresOf(ActiveRowsOf(u))' = LitresOf(ActiveRowsOf(u))
    BY <1>1, StockReadsLedger
  <1>7. ActiveRowsOf(t) = {} BY <1>1 DEF ActiveRowsOf, IInv, RowsStayInGroup
  <1>8. LitresOf(ActiveRowsOf(t)) = 0 BY <1>7, LitresAreTotal, TotalStep, FS_EmptySet
  <1>9. opening + 0 = opening BY OpeningAssumption
  <1>10. TankBalance' = [TankBalance EXCEPT ![t] = opening]
    BY <1>2, <1>6, <1>8, <1>9 DEF TankBalance, CurrentStock
  <1>11. QED BY <1>3, <1>4, <1>5, <1>10 DEF StockBook!Open

\* A removed tank is closed: no fill stands on it.
LEMMA DeleteTankCloses ==
  ASSUME IInv, NEW g \in Groups, NEW t \in Tanks, DeleteTank(g, t)
  PROVE  StockBook!Close(t)
  <1>1. /\ t \in DOMAIN tank
        /\ ~tank[t].deleted
        /\ ActiveFarmEntries(t) = {}
        /\ tank' = [tank EXCEPT ![t].deleted = TRUE]
        /\ UNCHANGED <<fuelEntry, ledger>>
    BY DEF DeleteTank, LiveTanks
  <1>2. tank[t] \in StorageTank BY <1>1, TableRows DEF IInv, TypeOK
  <1>3. /\ DOMAIN tank' = DOMAIN tank
        /\ tank'[t].deleted
        /\ \A u \in DOMAIN tank : tank'[u].opening = tank[u].opening
        /\ \A u \in DOMAIN tank : u # t => tank'[u] = tank[u]
    BY <1>1, <1>2 DEF StorageTank, IInv, TypeOK, IsTable
  <1>4. TankStanding[t] = "open" BY <1>1 DEF TankStanding
  <1>5. TankStanding' = [TankStanding EXCEPT ![t] = "closed"]
    BY <1>1, <1>3 DEF TankStanding
  <1>6. TankMoved' = TankMoved /\ FillTaken' = FillTaken
    BY <1>1, StockReadsLedger DEF FillTaken, FarmFills
  <1>7. \A u : LitresOf(ActiveRowsOf(u))' = LitresOf(ActiveRowsOf(u))
    BY <1>1, StockReadsLedger
  <1>8. TankBalance' = TankBalance BY <1>3, <1>7 DEF TankBalance, CurrentStock
  <1>9. \A e \in FuelEntries : FillTaken[e].tank # t
    BY <1>1, NoneAssumption DEF FillTaken, FarmFills, ActiveFarmEntries
  <1>10. QED BY <1>4, <1>5, <1>6, <1>8, <1>9 DEF StockBook!Close

\* Writing one movement row of a tank is a movement of that tank.
LEMMA MovementMoves ==
  ASSUME IInv, IsFiniteSet(DOMAIN ledger), IsTable(ledger', LedgerRows, TankLedgerEntry),
         UNCHANGED <<tank, fuelEntry>>, NEW t \in DOMAIN tank, NEW l, OnlyRow(l),
         l \in DOMAIN ledger => ledger[l].tank = t /\ ledger[l].kind # "vehicle_withdrawal",
         l \in DOMAIN ledger' => ledger'[l].tank = t /\ ledger'[l].kind # "vehicle_withdrawal"
  PROVE  StockBook!Move(t)
  <1>1. IsTable(ledger, LedgerRows, TankLedgerEntry) BY DEF IInv, TypeOK
  <1>2. t \in Tanks BY TableRows DEF IInv, TypeOK
  <1>3. \A u : /\ LitresOf(ActiveRowsOf(u)) \in Int
               /\ LitresOf(ActiveRowsOf(u))'
                    = LitresOf(ActiveRowsOf(u)) + Counted(ledger', l, u) - Counted(ledger, l, u)
               /\ LitresOf(Movements(u)) \in Int
               /\ LitresOf(Movements(u))'
                    = LitresOf(Movements(u)) + CountedAsMovement(ledger', l, u)
                                             - CountedAsMovement(ledger, l, u)
    BY <1>1, StockMoves
  <1>4. \A u : /\ CountedAsMovement(ledger, l, u) = Counted(ledger, l, u)
               /\ CountedAsMovement(ledger', l, u) = Counted(ledger', l, u)
               /\ u # t => Counted(ledger, l, u) = 0 /\ Counted(ledger', l, u) = 0
    BY DEF CountedAsMovement, Counted
  <1>5. \A u : Counted(ledger, l, u) \in Int /\ Counted(ledger', l, u) \in Int
    <2>1. /\ l \in DOMAIN ledger => ledger[l] \in TankLedgerEntry
          /\ l \in DOMAIN ledger' => ledger'[l] \in TankLedgerEntry
      BY <1>1, TableRows
    <2>2. QED BY <2>1 DEF Counted, TankLedgerEntry
  <1>6. \A u : u # t => /\ LitresOf(ActiveRowsOf(u))' = LitresOf(ActiveRowsOf(u))
                        /\ LitresOf(Movements(u))' = LitresOf(Movements(u))
    BY <1>3, <1>4
  <1>7. /\ LitresOf(Movements(t))' \in Int
        /\ LitresOf(ActiveRowsOf(t))'
             = LitresOf(ActiveRowsOf(t)) + LitresOf(Movements(t))' - LitresOf(Movements(t))
    BY <1>3, <1>4, <1>5
  <1>8. /\ TankMoved'[t] \in Int
        /\ TankMoved' = [TankMoved EXCEPT ![t] = TankMoved'[t]]
    BY <1>2, <1>6, <1>7 DEF TankMoved
  <1>9. tank[t].opening \in Int
    <2>1. tank[t] \in StorageTank BY TableRows DEF IInv, TypeOK
    <2>2. QED BY <2>1 DEF StorageTank
  <1>10. TankBalance'[t] = TankBalance[t] + TankMoved'[t] - TankMoved[t]
    BY <1>2, <1>3, <1>7, <1>9 DEF TankBalance, CurrentStock, TankMoved
  <1>11. TankBalance' = [TankBalance EXCEPT ![t] = @ + TankMoved'[t] - TankMoved[t]]
    <2>1. \A u \in Tanks : u # t => TankBalance'[u] = TankBalance[u]
      BY <1>6 DEF TankBalance, CurrentStock
    <2>2. /\ TankBalance = [u \in Tanks |-> TankBalance[u]]
          /\ TankBalance' = [u \in Tanks |-> TankBalance'[u]]
      BY DEF TankBalance
    <2>3. QED BY <1>10, <2>1, <2>2
  <1>12. TankStanding[t] # "unopened" /\ UNCHANGED <<TankStanding, FillTaken>>
    BY <1>2 DEF TankStanding, FillTaken, FarmFills
  <1>13. QED BY <1>8, <1>11, <1>12 DEF StockBook!Move

\* Every movement handler is a movement of one tank.
LEMMA LedgerStepMoves ==
  ASSUME IInv, IsFiniteSet(DOMAIN ledger), NEW g \in Groups, LedgerStep(g)
  PROVE  \E t \in Tanks : StockBook!Move(t)
  <1>0. IsTable(ledger, LedgerRows, TankLedgerEntry) /\ DOMAIN tank \subseteq Tanks
    BY TableRows DEF IInv, TypeOK
  <1>1. IsTable(ledger', LedgerRows, TankLedgerEntry) /\ UNCHANGED <<tank, fuelEntry>>
    BY LedgerStepFrame DEF IInv, MovementsOnly
  <1>2. PICK l \in LedgerRows :
          \/ \E t \in Tanks, kind \in TankMovementType : PostMovement(g, t, kind, l)
          \/ EditLedgerEntry(g, l)
          \/ DeleteLedgerEntry(g, l)
    BY DEF LedgerStep
  <1>3. ASSUME NEW t \in Tanks, NEW kind \in TankMovementType, PostMovement(g, t, kind, l)
        PROVE  StockBook!Move(t)
    <2>1. PICK amount \in MovementAmounts(kind) :
            ledger' = Insert(ledger, l, MovementRow(g, t, kind, amount))
      BY <1>3 DEF PostMovement
    <2>2. kind # "vehicle_withdrawal" BY <2>1 DEF MovementAmounts
    <2>3. t \in DOMAIN tank /\ l \notin DOMAIN ledger BY <1>3 DEF PostMovement, LiveTanks
    <2>4. /\ ledger'[l].tank = t
          /\ ledger'[l].kind # "vehicle_withdrawal"
          /\ OnlyRow(l)
      BY <2>1, <2>2 DEF Insert, MovementRow, OnlyRow
    <2>5. QED BY <1>1, <2>3, <2>4, MovementMoves
  <1>4. ASSUME EditLedgerEntry(g, l) \/ DeleteLedgerEntry(g, l)
        PROVE  StockBook!Move(ledger[l].tank)
    <2>1. l \in DOMAIN ledger /\ ledger[l].kind # "vehicle_withdrawal"
      BY <1>4 DEF EditLedgerEntry, DeleteLedgerEntry, ActiveLedgerRows, MovementAmounts
    <2>2. ledger[l] \in TankLedgerEntry BY <1>0, <2>1, TableRows
    <2>3. /\ ledger'[l].tank = ledger[l].tank
          /\ ledger'[l].kind = ledger[l].kind
          /\ OnlyRow(l)
      <3>1. CASE EditLedgerEntry(g, l)
        <4>1. PICK amount : ledger' = [ledger EXCEPT ![l].amount = amount]
          BY <3>1 DEF EditLedgerEntry
        <4>2. ledger'[l] = [ledger[l] EXCEPT !.amount = amount] /\ OnlyRow(l)
          BY <2>1, <4>1 DEF OnlyRow
        <4>3. QED BY <2>2, <4>2 DEF TankLedgerEntry
      <3>2. CASE DeleteLedgerEntry(g, l)
        <4>1. ledger'[l] = [ledger[l] EXCEPT !.deleted = TRUE] /\ OnlyRow(l)
          BY <2>1, <3>2 DEF DeleteLedgerEntry, OnlyRow
        <4>2. QED BY <2>2, <4>1 DEF TankLedgerEntry
      <3>3. QED BY <1>4, <3>1, <3>2
    <2>4. ledger[l].tank \in DOMAIN tank BY <2>1 DEF IInv, RowsStayInGroup
    <2>5. PICK t : t = ledger[l].tank OBVIOUS
    <2>6. StockBook!Move(t) BY <1>1, <2>1, <2>3, <2>4, <2>5, MovementMoves
    <2>7. QED BY <2>5, <2>6
  <1>5. ASSUME EditLedgerEntry(g, l) \/ DeleteLedgerEntry(g, l)
        PROVE  ledger[l].tank \in Tanks
    BY <1>0, <1>5 DEF EditLedgerEntry, DeleteLedgerEntry, ActiveLedgerRows, IInv, RowsStayInGroup
  <1>6. QED BY <1>2, <1>3, <1>4, <1>5

\* Row l is the one row of entry e; l = None when there is none.
SoleRow(table, l, e) == \A k \in DOMAIN table : table[k].entry = e <=> k = l

\* The row of an entry counts for what the fill has taken, on a tank in the
\* table and on no other.
RowsCountFills ==
  \A e \in FuelEntries, t \in Tanks : \A l :
    SoleRow(ledger, l, e) =>
      /\ CountedAsMovement(ledger, l, t) = 0
      /\ StockBook!Taken(FillTaken, e, t) \in Int
      /\ Counted(ledger, l, t) = 0 - StockBook!Taken(FillTaken, e, t)
      /\ t \notin DOMAIN tank => StockBook!Taken(FillTaken, e, t) = 0

\* It follows from the mirror and the uniqueness of the rows.
LEMMA MirrorCounts == IInv => RowsCountFills
  <1> SUFFICES ASSUME IInv, NEW e \in FuelEntries, NEW t \in Tanks, NEW l, SoleRow(ledger, l, e)
               PROVE  /\ CountedAsMovement(ledger, l, t) = 0
                      /\ StockBook!Taken(FillTaken, e, t) \in Int
                      /\ Counted(ledger, l, t) = 0 - StockBook!Taken(FillTaken, e, t)
                      /\ t \notin DOMAIN tank => StockBook!Taken(FillTaken, e, t) = 0
    BY DEF RowsCountFills
  <1>0. e # None /\ t # None BY NoneAssumption
  <1>1. l \in DOMAIN ledger => ledger[l].entry = e /\ ledger[l].kind = "vehicle_withdrawal"
    BY <1>0 DEF SoleRow, IInv, OneWithdrawalPerEntry
  <1>2. CountedAsMovement(ledger, l, t) = 0 BY <1>1 DEF CountedAsMovement
  <1>3. CASE e \in FarmFills
    <2>1. e \in DOMAIN fuelEntry BY <1>3 DEF FarmFills
    <2>2. fuelEntry[e] \in FuelEntryRow BY <2>1, TableRows DEF IInv, TypeOK
    <2>3. PICK k \in DOMAIN ledger : ledger[k] = WithdrawalRow(e, fuelEntry[e])
      BY <1>3 DEF IInv, LedgerMirrorsFills, FillsAreDeducted
    <2>4. k = l BY <2>3 DEF SoleRow, WithdrawalRow
    <2>5. Counted(ledger, l, t) = IF fuelEntry[e].tank = t THEN -fuelEntry[e].litres ELSE 0
      BY <2>3, <2>4 DEF Counted, WithdrawalRow
    <2>6. StockBook!Taken(FillTaken, e, t)
            = IF fuelEntry[e].tank = t THEN fuelEntry[e].litres ELSE 0
      BY <1>3 DEF StockBook!Taken, FillTaken
    <2>7. fuelEntry[e].litres \in Int BY <2>2 DEF FuelEntryRow
    <2>8. fuelEntry[e].tank \in DOMAIN tank
      BY <1>3 DEF IInv, FillsStandOnLiveTanks, FarmFills
    <2>9. QED BY <1>2, <2>5, <2>6, <2>7, <2>8
  <1>4. CASE e \notin FarmFills
    <2>1. StockBook!Taken(FillTaken, e, t) = 0
      BY <1>0, <1>4 DEF StockBook!Taken, FillTaken
    <2>2. l \in DOMAIN ledger => ledger[l].deleted
      BY <1>1, <1>4 DEF IInv, LedgerMirrorsFills, DeductionsAreFills
    <2>3. Counted(ledger, l, t) = 0 BY <2>2 DEF Counted
    <2>4. QED BY <1>2, <2>1, <2>3
  <1>5. QED BY <1>3, <1>4

\* Writing an entry and its row refills it: what it held is back, what it
\* holds is gone.
LEMMA WritingRefills ==
  ASSUME IInv, RowsCountFills, RowsCountFills', IsFiniteSet(DOMAIN ledger),
         IsTable(ledger', LedgerRows, TankLedgerEntry), UNCHANGED tank,
         NEW e \in FuelEntries, NEW l, OnlyRow(l), SoleRow(ledger, l, e), SoleRow(ledger', l, e),
         \A d \in FuelEntries \ {e} : FillTaken'[d] = FillTaken[d]
  PROVE  StockBook!Refill(e, FillTaken'[e])
  <1>1. IsTable(ledger, LedgerRows, TankLedgerEntry) BY DEF IInv, TypeOK
  <1>2. \A t \in Tanks :
          /\ CountedAsMovement(ledger, l, t) = 0
          /\ StockBook!Taken(FillTaken, e, t) \in Int
          /\ Counted(ledger, l, t) = 0 - StockBook!Taken(FillTaken, e, t)
          /\ t \notin DOMAIN tank => StockBook!Taken(FillTaken, e, t) = 0
    BY DEF RowsCountFills
  <1>3. \A t \in Tanks :
          /\ CountedAsMovement(ledger', l, t) = 0
          /\ StockBook!Taken(FillTaken', e, t) \in Int
          /\ Counted(ledger', l, t) = 0 - StockBook!Taken(FillTaken', e, t)
          /\ t \notin DOMAIN tank => StockBook!Taken(FillTaken', e, t) = 0
    BY DEF RowsCountFills
  <1>4. \A t : /\ LitresOf(ActiveRowsOf(t)) \in Int
               /\ LitresOf(ActiveRowsOf(t))'
                    = LitresOf(ActiveRowsOf(t)) + Counted(ledger', l, t) - Counted(ledger, l, t)
               /\ LitresOf(Movements(t)) \in Int
               /\ LitresOf(Movements(t))'
                    = LitresOf(Movements(t)) + CountedAsMovement(ledger', l, t)
                                             - CountedAsMovement(ledger, l, t)
    BY <1>1, StockMoves
  <1>5. TankMoved' = TankMoved
    <2>1. \A t \in Tanks : LitresOf(Movements(t))' = LitresOf(Movements(t)) BY <1>2, <1>3, <1>4
    <2>2. QED BY <2>1 DEF TankMoved
  <1>6. TankStanding' = TankStanding BY DEF TankStanding
  <1>7. TankBalance' = [t \in Tanks |-> TankBalance[t] + StockBook!Taken(FillTaken, e, t)
                                                       - StockBook!Taken(FillTaken', e, t)]
    <2>1. ASSUME NEW t \in Tanks
          PROVE  TankBalance'[t] = TankBalance[t] + StockBook!Taken(FillTaken, e, t)
                                                  - StockBook!Taken(FillTaken', e, t)
      <3>1. CASE t \in DOMAIN tank
        <4>1. tank[t] \in StorageTank BY <3>1, TableRows DEF IInv, TypeOK
        <4>2. tank[t].opening \in Int BY <4>1 DEF StorageTank
        <4>3. /\ TankBalance[t] = tank[t].opening + LitresOf(ActiveRowsOf(t))
              /\ TankBalance'[t] = tank[t].opening + LitresOf(ActiveRowsOf(t))'
          BY <3>1 DEF TankBalance, CurrentStock
        <4>4. LitresOf(ActiveRowsOf(t))'
                = LitresOf(ActiveRowsOf(t)) + StockBook!Taken(FillTaken, e, t)
                                            - StockBook!Taken(FillTaken', e, t)
          <5>1. \A n, m, k \in Int : n + (0 - m) - (0 - k) = n + k - m OBVIOUS
          <5>2. QED BY <1>2, <1>3, <1>4, <5>1
        <4>5. /\ LitresOf(ActiveRowsOf(t)) \in Int
              /\ StockBook!Taken(FillTaken, e, t) \in Int
              /\ StockBook!Taken(FillTaken', e, t) \in Int
          BY <1>2, <1>3, <1>4
        <4>6. QED BY <4>2, <4>3, <4>4, <4>5
      <3>2. CASE t \notin DOMAIN tank
        <4>1. TankBalance[t] = 0 /\ TankBalance'[t] = 0 BY <3>2 DEF TankBalance
        <4>2. QED BY <1>2, <1>3, <3>2, <4>1
      <3>3. QED BY <3>1, <3>2
    <2>2. TankBalance' = [t \in Tanks |-> TankBalance'[t]] BY DEF TankBalance
    <2>3. QED BY <2>1, <2>2
  <1>8. FillTaken' = [FillTaken EXCEPT ![e] = FillTaken'[e]] BY DEF FillTaken
  <1>9. QED BY <1>5, <1>6, <1>7, <1>8 DEF StockBook!Refill

\* The two ledger routines write no row but the one of their entry.
LEMMA RoutinesWriteOneRow ==
  ASSUME IInv, NEW e \in FuelEntries, OnlyDeleted(e) \/ \E entry : OneDeducted(e, entry)
  PROVE  /\ IsTable(ledger', LedgerRows, TankLedgerEntry)
         /\ \E l : OnlyRow(l) /\ SoleRow(ledger, l, e) /\ SoleRow(ledger', l, e)
  <1>1. CASE OnlyDeleted(e)
    <2>1. /\ IsTable(ledger', LedgerRows, TankLedgerEntry)
          /\ DOMAIN ledger' = DOMAIN ledger
          /\ \A k \in DOMAIN ledger : /\ ledger[k].entry # e => ledger'[k] = ledger[k]
                                      /\ ledger'[k].entry = e <=> ledger[k].entry = e
      BY <1>1 DEF OnlyDeleted
    <2>2. CASE \E l \in DOMAIN ledger : ledger[l].entry = e
      <3>1. PICK l \in DOMAIN ledger : ledger[l].entry = e BY <2>2
      <3>2. SoleRow(ledger, l, e)
        BY <3>1, NoneAssumption DEF SoleRow, IInv, OneWithdrawalPerEntry
      <3>3. OnlyRow(l) /\ SoleRow(ledger', l, e) BY <2>1, <3>2 DEF OnlyRow, SoleRow
      <3>4. QED BY <2>1, <3>2, <3>3
    <2>3. CASE \A l \in DOMAIN ledger : ledger[l].entry # e
      <3>1. None \notin DOMAIN ledger BY NoneAssumption, TableRows DEF IInv, TypeOK
      <3>2. OnlyRow(None) /\ SoleRow(ledger, None, e) /\ SoleRow(ledger', None, e)
        BY <2>1, <2>3, <3>1 DEF OnlyRow, SoleRow
      <3>3. QED BY <2>1, <3>2
    <2>4. QED BY <2>2, <2>3
  <1>2. ASSUME NEW entry, OneDeducted(e, entry)
        PROVE  /\ IsTable(ledger', LedgerRows, TankLedgerEntry)
               /\ \E l : OnlyRow(l) /\ SoleRow(ledger, l, e) /\ SoleRow(ledger', l, e)
    <2>1. /\ IsTable(ledger', LedgerRows, TankLedgerEntry)
          /\ DOMAIN ledger \subseteq DOMAIN ledger'
      BY <1>2 DEF OneDeducted
    <2>2. PICK l \in DOMAIN ledger' :
            /\ ledger'[l] = WithdrawalRow(e, entry)
            /\ \A k \in DOMAIN ledger' \ {l} : /\ k \in DOMAIN ledger
                                               /\ ledger'[k] = ledger[k]
                                               /\ ledger[k].entry # e
            /\ l \in DOMAIN ledger => ledger[l].entry = e
      BY <1>2 DEF OneDeducted
    <2>3. ledger'[l].entry = e BY <2>2 DEF WithdrawalRow
    <2>4. OnlyRow(l) /\ SoleRow(ledger, l, e) /\ SoleRow(ledger', l, e)
      BY <2>1, <2>2, <2>3 DEF OnlyRow, SoleRow
    <2>5. QED BY <2>1, <2>4
  <1>3. QED BY <1>1, <1>2

\* The sync and the deletion are such routines.
LEMMA FillWritesOneRow ==
  ASSUME IInv, NEW g \in Groups, NEW e \in FuelEntries,
         (\E entry \in FuelEntryRow : WritesFill(g, e, entry)) \/ DeleteFuelEntry(g, e)
  PROVE  /\ IsTable(ledger', LedgerRows, TankLedgerEntry)
         /\ \E l : OnlyRow(l) /\ SoleRow(ledger, l, e) /\ SoleRow(ledger', l, e)
  <1> USE DEF IInv, TypeOK
  <1>1. ASSUME NEW entry \in FuelEntryRow, WritesFill(g, e, entry)
        PROVE  OnlyDeleted(e) \/ OneDeducted(e, entry)
    <2>1. WellPlaced(entry) /\ SyncVehicleWithdrawal(e, entry) BY <1>1 DEF WritesFill
    <2>2. CASE entry.source = "farm"
      <3>1. entry.tank \in Tanks BY <2>1, <2>2, TableRows DEF WellPlaced, LiveTanks
      <3>2. QED BY <2>1, <2>2, <3>1, FarmSyncEffect
    <2>3. CASE entry.source # "farm"
      <3>1. entry.source = "external" BY <2>3 DEF FuelEntryRow, FillSource
      <3>2. QED BY <2>1, <3>1, SoftDeleteEffect DEF SyncVehicleWithdrawal
    <2>4. QED BY <2>2, <2>3
  <1>2. ASSUME DeleteFuelEntry(g, e)
        PROVE  OnlyDeleted(e)
    BY <1>2, SoftDeleteEffect DEF DeleteFuelEntry
  <1>3. QED BY <1>1, <1>2, RoutinesWriteOneRow

\* What the fill is booked as afterwards: litres out of an open tank, or nothing.
LEMMA FillIsBooked ==
  ASSUME IInv, NEW g \in Groups, NEW e \in FuelEntries,
         (\E entry \in FuelEntryRow : WritesFill(g, e, entry)) \/ DeleteFuelEntry(g, e)
  PROVE  /\ \A d \in FuelEntries \ {e} : FillTaken'[d] = FillTaken[d]
         /\ \/ FillTaken'[e] = StockBook!NoFill
            \/ \E t \in Tanks, n \in Litres :
                 FillTaken'[e] = [tank |-> t, litres |-> n] /\ TankStanding[t] = "open"
  <1> DEFINE Booked == /\ \A d \in FuelEntries \ {e} : FillTaken'[d] = FillTaken[d]
                       /\ \/ FillTaken'[e] = StockBook!NoFill
                          \/ \E t \in Tanks, n \in Litres :
                               /\ FillTaken'[e] = [tank |-> t, litres |-> n]
                               /\ TankStanding[t] = "open"
  <1>1. ASSUME NEW entry \in FuelEntryRow, WritesFill(g, e, entry)
        PROVE  Booked
    <2>1. /\ DOMAIN fuelEntry' = DOMAIN fuelEntry \cup {e}
          /\ fuelEntry'[e] = entry
          /\ \A d \in DOMAIN fuelEntry : d # e => fuelEntry'[d] = fuelEntry[d]
      BY <1>1 DEF WritesFill, Insert
    <2>2. \A d \in FuelEntries \ {e} : FillTaken'[d] = FillTaken[d]
      BY <2>1 DEF FillTaken, FarmFills
    <2>3. WellPlaced(entry) /\ entry.litres \in Litres BY <1>1 DEF WritesFill
    <2>4. CASE entry.source = "farm"
      <3>1. entry.tank \in Tanks /\ TankStanding[entry.tank] = "open"
        BY <2>3, <2>4, TableRows DEF WellPlaced, LiveTanks, TankStanding, IInv, TypeOK
      <3>2. FillTaken'[e] = [tank |-> entry.tank, litres |-> entry.litres]
        BY <2>1, <2>3, <2>4 DEF FillTaken, FarmFills, WellPlaced
      <3>3. QED BY <2>2, <2>3, <3>1, <3>2
    <2>5. CASE entry.source # "farm"
      <3>1. FillTaken'[e] = StockBook!NoFill
        BY <2>1, <2>5 DEF FillTaken, FarmFills, StockBook!NoFill
      <3>2. QED BY <2>2, <3>1
    <2>6. QED BY <2>4, <2>5
  <1>2. ASSUME DeleteFuelEntry(g, e)
        PROVE  Booked
    <2>1. e \in DOMAIN fuelEntry BY <1>2 DEF DeleteFuelEntry, ReachableEntries
    <2>2. fuelEntry[e] \in FuelEntryRow BY <2>1, TableRows DEF IInv, TypeOK
    <2>3. /\ DOMAIN fuelEntry' = DOMAIN fuelEntry
          /\ fuelEntry'[e].deleted
          /\ \A d \in DOMAIN fuelEntry : d # e => fuelEntry'[d] = fuelEntry[d]
      BY <1>2, <2>1, <2>2 DEF DeleteFuelEntry, FuelEntryRow
    <2>4. \A d \in FuelEntries \ {e} : FillTaken'[d] = FillTaken[d]
      BY <2>3 DEF FillTaken, FarmFills
    <2>5. FillTaken'[e] = StockBook!NoFill BY <2>3 DEF FillTaken, FarmFills, StockBook!NoFill
    <2>6. QED BY <2>4, <2>5
  <1>3. QED BY <1>1, <1>2

\* A fuel entry handler takes litres, gives them back, or moves nothing.
LEMMA FuelStepBooks ==
  ASSUME IInv, RowsCountFills, RowsCountFills', IsFiniteSet(DOMAIN ledger),
         NEW g \in Groups, FuelStep(g)
  PROVE  StockBook!Next \/ UNCHANGED StockBook!svars
  <1>1. PICK e \in FuelEntries :
          (\E entry \in FuelEntryRow : WritesFill(g, e, entry)) \/ DeleteFuelEntry(g, e)
    BY FuelStepWrites
  <1>2. UNCHANGED tank BY <1>1 DEF WritesFill, DeleteFuelEntry
  <1>3. IsTable(ledger', LedgerRows, TankLedgerEntry) BY <1>1, FillWritesOneRow
  <1>4. PICK l : OnlyRow(l) /\ SoleRow(ledger, l, e) /\ SoleRow(ledger', l, e)
    BY <1>1, FillWritesOneRow
  <1>5. \A d \in FuelEntries \ {e} : FillTaken'[d] = FillTaken[d] BY <1>1, FillIsBooked
  <1>6. StockBook!Refill(e, FillTaken'[e]) BY <1>2, <1>3, <1>4, <1>5, WritingRefills
  <1>7. CASE FillTaken'[e] = StockBook!NoFill /\ FillTaken[e] # StockBook!NoFill
    BY <1>6, <1>7 DEF StockBook!GiveBack, StockBook!Next
  <1>8. CASE FillTaken'[e] = StockBook!NoFill /\ FillTaken[e] = StockBook!NoFill
    <2>1. FillTaken' = FillTaken BY <1>5, <1>8 DEF FillTaken
    <2>2. /\ TankBalance' = [t \in Tanks |-> TankBalance[t]
                                             + StockBook!Taken(FillTaken, e, t)
                                             - StockBook!Taken(FillTaken, e, t)]
          /\ UNCHANGED <<TankStanding, TankMoved>>
      BY <1>6, <2>1 DEF StockBook!Refill
    <2>3. \A t \in Tanks : StockBook!Taken(FillTaken, e, t) = 0
      BY <1>8, NoneAssumption DEF StockBook!Taken, StockBook!NoFill
    <2>4. \A t \in Tanks : TankBalance[t] \in Int
      <3>1. \A t \in DOMAIN tank : tank[t] \in StorageTank BY TableRows DEF IInv, TypeOK
      <3>2. \A t : LitresOf(ActiveRowsOf(t)) \in Int
        BY <1>3, <1>4, StockMoves DEF IInv, TypeOK
      <3>3. QED BY <3>1, <3>2 DEF TankBalance, CurrentStock, StorageTank
    <2>5. TankBalance' = TankBalance
      <3>1. \A t \in Tanks : TankBalance'[t] = TankBalance[t] BY <2>2, <2>3, <2>4
      <3>2. QED BY <3>1 DEF TankBalance
    <2>6. QED BY <2>1, <2>2, <2>5 DEF StockBook!svars
  <1>9. ASSUME NEW t \in Tanks, NEW n \in Litres,
               FillTaken'[e] = [tank |-> t, litres |-> n], TankStanding[t] = "open"
        PROVE  StockBook!Next
    <2>1. StockBook!Take(e, t, n) BY <1>6, <1>9 DEF StockBook!Take
    <2>2. QED BY <2>1 DEF StockBook!Next
  <1>10. QED BY <1>1, <1>7, <1>8, <1>9, FillIsBooked

-----------------------------------------------------------------------------
(* The stock book. *)

\* The ledger has finitely many rows, although nothing bounds their number.
LEMMA LedgerStaysFinite ==
  IInv /\ IsFiniteSet(DOMAIN ledger) /\ [Next]_vars => IsFiniteSet(DOMAIN ledger)'
  <1> SUFFICES ASSUME IInv, IsFiniteSet(DOMAIN ledger), [Next]_vars
               PROVE  IsFiniteSet(DOMAIN ledger')
    OBVIOUS
  <1>1. ASSUME NEW l, OnlyRow(l)
        PROVE  IsFiniteSet(DOMAIN ledger')
    <2>1. IsFiniteSet(DOMAIN ledger \cup {l}) BY FS_AddElement
    <2>2. DOMAIN ledger' \in SUBSET (DOMAIN ledger \cup {l}) BY <1>1 DEF OnlyRow
    <2>3. QED BY <2>1, <2>2, FS_Subset
  <1>2. ASSUME NEW g \in Groups, VehicleStep(g) \/ TankStep(g)
        PROVE  UNCHANGED ledger
    BY <1>2 DEF VehicleStep, CreateVehicle, EditVehicle, DeleteVehicle, TankStep, CreateTank,
                DeleteTank
  <1>3. ASSUME NEW g \in Groups, LedgerStep(g)
        PROVE  \E l : OnlyRow(l)
    BY <1>3 DEF LedgerStep, PostMovement, EditLedgerEntry, DeleteLedgerEntry, Insert, OnlyRow
  <1>4. ASSUME NEW g \in Groups, FuelStep(g)
        PROVE  \E l : OnlyRow(l)
    BY <1>4, FuelStepWrites, FillWritesOneRow
  <1>5. QED BY <1>1, <1>2, <1>3, <1>4 DEF Next, vars

\* The tables implement the stock book: a fill leaves its tank once, is given
\* back when it is withdrawn and moved when it is changed; nothing but fills,
\* movements and opening balances changes a stock.
THEOREM StockBookHolds == Spec => ImplementsFuelStock
  <1>1. IInv /\ RowsCountFills /\ RowsCountFills' /\ IsFiniteSet(DOMAIN ledger) /\ [Next]_vars
          => [StockBook!Next]_(StockBook!svars)
    <2> SUFFICES ASSUME IInv, RowsCountFills, RowsCountFills', IsFiniteSet(DOMAIN ledger),
                        [Next]_vars
                 PROVE  StockBook!Next \/ UNCHANGED StockBook!svars
      OBVIOUS
    <2>1. ASSUME NEW g \in Groups, VehicleStep(g)
          PROVE  UNCHANGED StockBook!svars
      BY <2>1, BookReadsTables DEF VehicleStep, CreateVehicle, EditVehicle, DeleteVehicle
    <2>2. ASSUME NEW g \in Groups, TankStep(g)
          PROVE  StockBook!Next
      BY <2>2, CreateTankOpens, DeleteTankCloses DEF TankStep, StockBook!Next
    <2>3. ASSUME NEW g \in Groups, LedgerStep(g)
          PROVE  StockBook!Next
      BY <2>3, LedgerStepMoves DEF StockBook!Next
    <2>4. CASE UNCHANGED vars BY <2>4, BookReadsTables DEF vars
    <2>5. QED BY <2>1, <2>2, <2>3, <2>4, FuelStepBooks DEF Next
  <1>2. Init => IsFiniteSet(DOMAIN ledger) BY FS_EmptySet DEF Init, EmptyTable
  <1>3. Spec => []IsFiniteSet(DOMAIN ledger) BY <1>2, LedgerStaysFinite, Invariance, PTL DEF Spec
  <1>4. Spec => [](IInv /\ RowsCountFills) BY MirrorCounts, Invariance, PTL
  <1>5. QED BY <1>1, <1>3, <1>4, BookOpens, PTL DEF Spec, ImplementsFuelStock, StockBook!Spec

=============================================================================
