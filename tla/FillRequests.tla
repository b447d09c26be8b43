---------------------------- MODULE FillRequests ----------------------------
(***************************************************************************)
(* The handlers of TankInventory that read before they write, split at the *)
(* SQL statements they send, as several replicas run them against one      *)
(* PostgreSQL at READ COMMITTED.                                           *)
(*                                                                         *)
(* A replica runs one handler body at a time (an event loop).  A SELECT    *)
(* sees what is committed at that moment; what it returned stays in the    *)
(* ORM session unchanged.  A flushed UPDATE locks its row until the        *)
(* transaction ends, waits for another holder, and writes only the columns *)
(* whose value differs from the loaded one.  Writes are visible to others  *)
(* when the transaction commits, and are gone if the replica dies.         *)
(*                                                                         *)
(* The variables of TankInventory are the committed tables.  Handlers with *)
(* no read that another one can make stale in an interesting way keep      *)
(* their atomic step.                                                      *)
(***************************************************************************)
EXTENDS TankInventory

CONSTANT Replicas

VARIABLES
  req,       \* the request each replica is serving: its session's contents
  raced      \* History only: entries that two requests have had open at once,
             \* and tanks that one filled while another removed them

rvars == <<vehicle, tank, fuelEntry, ledger, req, raced>>

Idle == [at |-> "idle"]

Reply(r) == req' = [req EXCEPT ![r] = Idle]

Continue(r, session) == req' = [req EXCEPT ![r] = session]

\* A request served at this stage for this entry.
Serves(r, stages, e) == req[r].at \in stages /\ req[r].e = e

EntryStages == {"resolve", "flush", "sync", "commit", "find", "erase"}

OpenFor(e) == {r \in Replicas : Serves(r, EntryStages, e)}

\* Faulty variant: the request that asks for the lock counts as holding it.
LockHoldersAndSelf(e) == {r \in Replicas : Serves(r, {"flush", "sync", "commit"}, e)}

\* The requests that hold the row lock of entry e: flushed, not yet committed.
LockHolders(e) == {r \in Replicas : Serves(r, {"sync", "commit"}, e)}

\* Faulty variant: writers do not wait for each other.
NeverLocked(e) == TRUE

Unlocked(e) == LockHolders(e) = {}

NoteRace(e) == raced' = IF OpenFor(e) = {} THEN raced ELSE raced \cup {e}

\* The tanks a request has resolved for a fill, and those it has found free.
Filling(q) ==
  IF req[q].at = "insert" THEN {req[q].entry.tank}
  ELSE IF req[q].at \in {"flush", "sync", "commit"} THEN {req[q].tank} ELSE {}

Closing(q) == IF req[q].at = "close" THEN {req[q].t} ELSE {}

NoteTankRace(r) ==
  raced' = raced \cup
    UNION {(Filling(r) \cap Closing(q)) \cup (Closing(r) \cap Filling(q)) : q \in Replicas}

(***************************************************************************)
(* The bound of an instance: a create in flight has its key reserved, and  *)
(* manual movements leave a ledger key for every entry key, so no request  *)
(* ever stops for want of a key.                                           *)
(***************************************************************************)
EntryKeyLeft ==
  Cardinality(FuelEntries \ DOMAIN fuelEntry)
    > Cardinality({r \in Replicas : req[r].at \in {"create", "insert"}})

LedgerKeyLeft == Cardinality(LedgerRows \ DOMAIN ledger) > Cardinality(FuelEntries)

\* No request here reads what a manual movement moved: one litre is enough.
SmallMovements ==
  /\ LedgerKeyLeft \/ DOMAIN ledger' = DOMAIN ledger
  /\ \A l \in DOMAIN ledger' : ledger'[l].entry = None => ledger'[l].amount \in -1..1

-----------------------------------------------------------------------------
(* Creating a fuel entry. *)

\* SELECT of the vehicle; its fuel type is read here and used later.
StartCreate(r, g, v, source, choice, litres) ==
  /\ req[r] = Idle
  /\ EntryKeyLeft
  /\ v \in LiveVehicles(g)
  /\ Continue(r, [at |-> "create", g |-> g, v |-> v, fuel |-> vehicle[v].fuel,
                  source |-> source, choice |-> choice, litres |-> litres])
  /\ UNCHANGED <<vars, raced>>

ResolveCreate(r) ==
  /\ req[r].at = "create"
  /\ \/ \E t \in FillTanks(req[r].g, req[r].fuel, req[r].source, req[r].choice) :
          Continue(r, [at |-> "insert",
                       entry |-> [group |-> req[r].g, vehicle |-> req[r].v,
                                  source |-> req[r].source, tank |-> t,
                                  litres |-> req[r].litres, deleted |-> FALSE]])
     \/ /\ FillTanks(req[r].g, req[r].fuel, req[r].source, req[r].choice) = {}
        /\ Reply(r)
  /\ UNCHANGED <<vars, raced>>

\* INSERT of the entry, then of its withdrawal, in one commit: nobody else
\* can see the new key before.
CommitCreate(r) ==
  /\ req[r].at = "insert"
  /\ \E e \in FuelEntries \ DOMAIN fuelEntry :
       /\ fuelEntry' = Insert(fuelEntry, e, req[r].entry)
       /\ SyncVehicleWithdrawal(e, req[r].entry)
  /\ Reply(r)
  /\ UNCHANGED <<vehicle, tank>>
  /\ NoteTankRace(r)

-----------------------------------------------------------------------------
(* Editing a fuel entry. *)

\* SELECT of the entry with its vehicle.
StartEdit(r, g, e, source, choice, litres) ==
  /\ req[r] = Idle
  /\ e \in ReachableEntries(g)
  /\ Continue(r, [at |-> "resolve", e |-> e, loaded |-> fuelEntry[e],
                  fuel |-> vehicle[fuelEntry[e].vehicle].fuel,
                  form |-> [source |-> source, tank |-> choice, litres |-> litres]])
  /\ NoteRace(e)
  /\ UNCHANGED vars

\* SELECT of the tank.  A refusal leaves the changed object in the session,
\* which is closed without a commit.
ResolveEdit(r) ==
  /\ req[r].at = "resolve"
  /\ LET form == req[r].form
         tanks == FillTanks(req[r].loaded.group, req[r].fuel, form.source, form.tank)
     IN  \/ \E t \in tanks :
              Continue(r, [at |-> "flush", e |-> req[r].e, loaded |-> req[r].loaded,
                           form |-> form, tank |-> t])
         \/ tanks = {} /\ Reply(r)
  /\ UNCHANGED <<vars, raced>>

\* UPDATE of the entry: updated_at always changes, so the row is locked.
FlushEdit(r) ==
  /\ req[r].at = "flush"
  /\ Unlocked(req[r].e)
  /\ Continue(r, [req[r] EXCEPT !.at = "sync"])
  /\ UNCHANGED <<vars, raced>>

\* The entry as the session has it, which the ledger row is made from.
SessionEntry(q) ==
  [q.loaded EXCEPT !.source = q.form.source, !.tank = q.tank, !.litres = q.form.litres]

\* SELECT of the linked row, NULL when a new one is needed or none is there.
SyncEdit(r) ==
  /\ req[r].at = "sync"
  /\ LET e == req[r].e
         linked == IF req[r].form.source = "farm" THEN LinkedWithdrawals(e)
                                                  ELSE ActiveWithdrawals(e)
     IN  \E l \in IF linked = {} THEN {None} ELSE linked :
           Continue(r, [at |-> "commit", e |-> e, loaded |-> req[r].loaded,
                        form |-> req[r].form, tank |-> req[r].tank, row |-> l])
  /\ UNCHANGED <<vars, raced>>

\* Faulty variant: the tank the resolution picked stays out of the UPDATE.
ChangedColumnsOfForm(q, now) ==
  [now EXCEPT
     !.source = IF q.form.source # q.loaded.source THEN q.form.source ELSE @,
     !.litres = IF q.form.litres # q.loaded.litres THEN q.form.litres ELSE @,
     !.tank   = IF q.form.tank # q.loaded.tank THEN q.tank ELSE @]

\* Faulty variant: the session overwrites the whole row.
AllColumns(q, now) ==
  [q.loaded EXCEPT !.source = q.form.source, !.tank = q.tank, !.litres = q.form.litres]

\* Only columns set to something else than what was loaded are in the UPDATE;
\* fuel_tank_id is set twice, first to the form's choice.
ChangedColumns(q, now) ==
  [now EXCEPT
     !.source = IF q.form.source # q.loaded.source THEN q.form.source ELSE @,
     !.litres = IF q.form.litres # q.loaded.litres THEN q.form.litres ELSE @,
     !.tank   = IF q.form.tank # q.loaded.tank \/ q.tank # q.form.tank THEN q.tank ELSE @]

\* COMMIT, with the UPDATE or INSERT of the ledger row before it.
CommitEdit(r) ==
  /\ req[r].at = "commit"
  /\ LET q == req[r]
         e == q.e
     IN  /\ fuelEntry' = [fuelEntry EXCEPT ![e] = ChangedColumns(q, @)]
         /\ \/ q.form.source = "external" /\ q.row = None /\ ledger' = ledger
            \/ /\ q.form.source = "external" /\ q.row # None
               /\ ledger' = [ledger EXCEPT ![q.row].deleted = TRUE]
            \/ /\ q.form.source = "farm" /\ q.row # None
               /\ ledger' = [ledger EXCEPT ![q.row] = WithdrawalRow(e, SessionEntry(q))]
            \/ /\ q.form.source = "farm" /\ q.row = None
               /\ \E l \in LedgerRows \ DOMAIN ledger :
                    ledger' = Insert(ledger, l, WithdrawalRow(e, SessionEntry(q)))
  /\ Reply(r)
  /\ UNCHANGED <<vehicle, tank>>
  /\ NoteTankRace(r)

-----------------------------------------------------------------------------
(* Deleting a fuel entry. *)

StartDelete(r, g, e) ==
  /\ req[r] = Idle
  /\ e \in ReachableEntries(g)
  /\ Continue(r, [at |-> "find", e |-> e])
  /\ NoteRace(e)
  /\ UNCHANGED vars

\* Faulty variant: the withdrawal is not looked for.
SkipWithdrawal(r) ==
  /\ req[r].at = "find"
  /\ Continue(r, [at |-> "erase", e |-> req[r].e, row |-> None])
  /\ UNCHANGED <<vars, raced>>

\* SELECT of the active withdrawal.
FindWithdrawal(r) ==
  /\ req[r].at = "find"
  /\ LET active == ActiveWithdrawals(req[r].e)
     IN  \E l \in IF active = {} THEN {None} ELSE active :
           Continue(r, [at |-> "erase", e |-> req[r].e, row |-> l])
  /\ UNCHANGED <<vars, raced>>

\* The flush of the commit: UPDATE of the entry, which may have to wait, then
\* of the withdrawal found before.
CommitDelete(r) ==
  /\ req[r].at = "erase"
  /\ Unlocked(req[r].e)
  /\ fuelEntry' = [fuelEntry EXCEPT ![req[r].e].deleted = TRUE]
  /\ ledger' = IF req[r].row = None THEN ledger
                                    ELSE [ledger EXCEPT ![req[r].row].deleted = TRUE]
  /\ Reply(r)
  /\ UNCHANGED <<vehicle, tank, raced>>

-----------------------------------------------------------------------------
(* Removing a tank, and the rest. *)

\* SELECT of the tank, then the count of the fills that stand on it.
CheckTank(r, g, t) ==
  /\ req[r] = Idle
  /\ t \in LiveTanks(g)
  /\ ActiveFarmEntries(t) = {}
  /\ Continue(r, [at |-> "close", t |-> t])
  /\ UNCHANGED <<vars, raced>>

CommitTankDelete(r) ==
  /\ req[r].at = "close"
  /\ tank' = [tank EXCEPT ![req[r].t].deleted = TRUE]
  /\ Reply(r)
  /\ UNCHANGED <<vehicle, fuelEntry, ledger>>
  /\ NoteTankRace(r)

\* Handlers that keep their atomic step.
AtomicHandler(r, g) ==
  /\ req[r] = Idle
  /\ \/ VehicleStep(g)
     \/ \E t \in Tanks, fuel \in FuelTypes, opening \in Openings :
          CreateTank(g, t, fuel, opening)
     \/ LedgerStep(g) /\ SmallMovements
  /\ UNCHANGED <<req, raced>>

\* The replica or its connection dies: the transaction is rolled back.
Die(r) ==
  /\ req[r] # Idle
  /\ Reply(r)
  /\ UNCHANGED <<vars, raced>>

-----------------------------------------------------------------------------
RInit == Init /\ req = [r \in Replicas |-> Idle] /\ raced = {}

Receive(r) ==
  \E g \in Groups :
    \/ \E source \in FillSource, choice \in Tanks \cup {None}, litres \in Litres :
         \/ \E v \in Vehicles : StartCreate(r, g, v, source, choice, litres)
         \/ \E e \in FuelEntries : StartEdit(r, g, e, source, choice, litres)
    \/ \E e \in FuelEntries : StartDelete(r, g, e)
    \/ \E t \in Tanks : CheckTank(r, g, t)
    \/ AtomicHandler(r, g)

Serve(r) ==
  \/ ResolveCreate(r) \/ CommitCreate(r)
  \/ ResolveEdit(r) \/ SyncEdit(r) \/ CommitEdit(r)
  \/ FindWithdrawal(r)
  \/ CommitTankDelete(r)

\* The statements that may wait for a row lock.
ServeLocked(r) == FlushEdit(r) \/ CommitDelete(r)

RNext == \E r \in Replicas : Receive(r) \/ Serve(r) \/ ServeLocked(r) \/ Die(r)

RSpec == RInit /\ [][RNext]_rvars

\* A body that has begun runs on to its reply.  A statement that waits for a
\* row lock gets it in the end: PostgreSQL queues the waiters.
Fairness == \A r \in Replicas : WF_rvars(Serve(r)) /\ SF_rvars(ServeLocked(r))

FairRSpec == RSpec /\ Fairness

-----------------------------------------------------------------------------
(* Properties. *)

Stages == EntryStages \cup {"idle", "create", "insert", "close"}

RTypeOK ==
  /\ TypeOK
  /\ \A r \in Replicas : req[r].at \in Stages
  /\ raced \subseteq DOMAIN fuelEntry \cup DOMAIN tank

(***************************************************************************)
(* One replica alone is the atomic system: whatever its handlers read is   *)
(* still so when they write.  (The run has a single replica.)              *)
(***************************************************************************)
ServesAtomically == Spec

(***************************************************************************)
(* The ledger is wrong only for an entry that two requests have had open   *)
(* at once: no other interleaving (with creates, vehicle and tank          *)
(* handlers, manual movements or crashes) parts the two tables.            *)
(***************************************************************************)
MirrorsEntry(e) ==
  /\ e \in FarmFills => ActiveWithdrawals(e) # {}
  /\ \A l \in ActiveWithdrawals(e) :
       e \in FarmFills /\ ledger[l] = WithdrawalRow(e, fuelEntry[e])

OnlyRacesSpoilTheLedger == \A e \in DOMAIN fuelEntry \ raced : MirrorsEntry(e)

(***************************************************************************)
(* A fill stands on a removed tank only if it was committed after the tank *)
(* was counted free of fills, or resolved before it was removed, or if two *)
(* requests have had the entry open at once: the UPDATE of one may make a  *)
(* farm fill of a row whose tank another has written.                      *)
(***************************************************************************)
OnlyRacesStrandFills ==
  \A e \in FarmFills \ raced, t \in DOMAIN tank :
    fuelEntry[e].tank = t /\ tank[t].deleted => t \in raced

(***************************************************************************)
(* A deleted entry is never undeleted, whichever requests still hold it in *)
(* their sessions.                                                         *)
(***************************************************************************)
DeletionSurvivesRaces ==
  [][\A e \in DOMAIN fuelEntry : fuelEntry[e].deleted => fuelEntry'[e].deleted]_rvars

(***************************************************************************)
(* Every request is answered, the ones waiting for a row lock included.    *)
(***************************************************************************)
EveryRequestEnds == \A r \in Replicas : req[r] # Idle ~> req[r] = Idle

=============================================================================
