----------------------------- MODULE Reminders -----------------------------
(***************************************************************************)
(* The maintenance logs of one group and the daily job that mails its      *)
(* administrators when the next service of a log is due.                   *)
(*                                                                         *)
(* The job lists what is due, then claims each log (reminder_sent_at) in a *)
(* transaction of its own, mails one administrator after the other,        *)
(* awaiting the mail server each time, and releases the claim if no mail   *)
(* went out.  Jobs may overlap, on one replica or several, and die.  An    *)
(* edit has loaded its log before it awaits the form.                      *)
(*                                                                         *)
(* Left out: the date of a service, its cost and reading, the role and     *)
(* tier a handler asks for (the job asks for none), and other groups.      *)
(***************************************************************************)
EXTENDS Integers, Tables

CONSTANTS
  Vehicles,       \* the group's vehicles
  Logs,           \* primary keys a table may hand out
  Admins,         \* users who may administer the group
  Jobs,           \* runs of the job that can be open at once
  Editors,        \* edits that can be open at once
  Horizon,        \* days before its date that a service is due
  Readings,       \* what a vehicle's latest usage reading, or a threshold, can be
  MaxDay,         \* bound: how long a history lasts
  MaxEdits,       \* bound: how many edits a history has
  MaxFaults,      \* bound: how many mails fail and jobs die
  None            \* NULL

ASSUME HorizonAssumption == Horizon \in Nat
ASSUME ReadingAssumption == Readings \subseteq Nat
ASSUME NoneAssumption    == None \notin Nat

VARIABLES
  today,
  removed,        \* vehicles removed
  latest,         \* latest usage reading of each vehicle in its fuel entries
  log,            \* table maintenance_logs
  admins,         \* living administrators of the group
  job,            \* what each open job has in hand
  edit,           \* each open edit: the log as loaded, and the form
  edits, faults,  \* how many there were
  \* History only:
  schedule,       \* how often each log was rescheduled
  mailed,         \* mails delivered: log, its schedule when claimed, administrator
  raced,          \* logs that a job and an edit had open at once
  dropped         \* logs whose job died with the claim

counters == <<edits, faults>>
history == <<schedule, mailed, raced, dropped>>
vars == <<today, removed, latest, log, admins, job, edit, counters, history>>

-----------------------------------------------------------------------------
(* Logs and what is due. *)

Day == 0..MaxDay

MaintenanceLog ==
  [vehicle : Vehicles, date : Day \cup {None}, usage : Readings \cup {None},
   sent : BOOLEAN, deleted : BOOLEAN]

LiveLogs == {l \in DOMAIN log : ~log[l].deleted /\ log[l].vehicle \notin removed}

\* What the job knows of a vehicle without entries.
NoReading == None

Overdue(row) ==
  \/ row.date # None /\ row.date < today
  \/ row.usage # None /\ latest[row.vehicle] # NoReading /\ latest[row.vehicle] >= row.usage

DueSoon(row) ==
  \/ row.date # None /\ row.date <= today + Horizon
  \/ row.usage # None /\ latest[row.vehicle] # NoReading /\ 10 * latest[row.vehicle] >= 9 * row.usage

Due == {l \in LiveLogs : ~log[l].sent /\ (Overdue(log[l]) \/ DueSoon(log[l]))}

-----------------------------------------------------------------------------
(* The maintenance pages. *)

CreateLog(l, v, date, usage) ==
  /\ l \in Logs \ DOMAIN log
  /\ v \notin removed
  /\ log' = Insert(log, l, [vehicle |-> v, date |-> date, usage |-> usage,
                            sent |-> FALSE, deleted |-> FALSE])
  /\ UNCHANGED <<today, removed, latest, admins, job, edit, counters, history>>

DeleteLog(l) ==
  /\ l \in LiveLogs
  /\ log' = [log EXCEPT ![l].deleted = TRUE]
  /\ UNCHANGED <<today, removed, latest, admins, job, edit, counters, history>>

Closed == [at |-> "closed"]

InHand(c) ==
  CASE job[c].at = "claim" -> job[c].todo
    [] job[c].at = "mail"  -> job[c].todo \cup {job[c].l}
    [] OTHER               -> {}

\* The log is loaded, then the form is awaited.
OpenEdit(p, l, date, usage) ==
  /\ edit[p] = Closed
  /\ edits < MaxEdits
  /\ l \in LiveLogs
  /\ edit' = [edit EXCEPT ![p] = [at |-> "open", l |-> l, loaded |-> log[l],
                                  date |-> date, usage |-> usage]]
  /\ edits' = edits + 1
  /\ raced' = raced \cup ({l} \cap UNION {InHand(c) : c \in Jobs})
  /\ UNCHANGED <<today, removed, latest, log, admins, job, faults, schedule, mailed, dropped>>

Reschedules(q) == q.date # None /\ q.date # q.loaded.date

\* Faulty variant: the reset of the claim is forgotten.
EditedKeepingClaim(q, now) ==
  [now EXCEPT !.date  = IF q.date # q.loaded.date THEN q.date ELSE @,
              !.usage = IF q.usage # q.loaded.usage THEN q.usage ELSE @]

\* Only columns that differ from what was loaded are written, the claim too.
Edited(q, now) ==
  [now EXCEPT !.date  = IF q.date # q.loaded.date THEN q.date ELSE @,
              !.usage = IF q.usage # q.loaded.usage THEN q.usage ELSE @,
              !.sent  = IF Reschedules(q) /\ q.loaded.sent THEN FALSE ELSE @]

CommitEdit(p) ==
  /\ edit[p].at = "open"
  /\ LET q == edit[p]
     IN  /\ log' = [log EXCEPT ![q.l] = Edited(q, @)]
         /\ schedule' = [schedule EXCEPT ![q.l] = @ + (IF Reschedules(q) THEN 1 ELSE 0)]
  /\ edit' = [edit EXCEPT ![p] = Closed]
  /\ UNCHANGED <<today, removed, latest, admins, job, counters, mailed, raced, dropped>>

-----------------------------------------------------------------------------
(* The job. *)

Continue(c, todo) ==
  job' = [job EXCEPT ![c] = IF todo = {} THEN Closed
                            ELSE [at |-> "claim", todo |-> todo, to |-> job[c].to]]

StartJob(c) ==
  /\ job[c] = Closed
  /\ admins # {}
  /\ Due # {}
  /\ job' = [job EXCEPT ![c] = [at |-> "claim", todo |-> Due, to |-> admins]]
  /\ raced' = raced \cup {l \in Due : \E p \in Editors : edit[p].at = "open" /\ edit[p].l = l}
  /\ UNCHANGED <<today, removed, latest, log, admins, edit, counters, schedule, mailed, dropped>>

\* Faulty variant: the listing is taken for granted.
ClaimableAsListed(l) == TRUE

Claimable(l) == ~log[l].deleted /\ ~log[l].sent

\* UPDATE ... WHERE reminder_sent_at IS NULL; the due date is not looked at again.
Claim(c, l) ==
  /\ job[c].at = "claim"
  /\ l \in job[c].todo
  /\ \/ /\ Claimable(l)
        /\ log' = [log EXCEPT ![l].sent = TRUE]
        /\ job' = [job EXCEPT ![c] = [at |-> "mail", l |-> l, on |-> schedule[l], left |-> job[c].to,
                                      ok |-> FALSE, todo |-> job[c].todo \ {l}, to |-> job[c].to]]
     \/ /\ ~Claimable(l)
        /\ Continue(c, job[c].todo \ {l})
        /\ log' = log
  /\ UNCHANGED <<today, removed, latest, admins, edit, counters, history>>

Mail(c, a) ==
  /\ job[c].at = "mail"
  /\ a \in job[c].left
  /\ \/ /\ mailed' = mailed \cup {<<job[c].l, job[c].on, a>>}
        /\ job' = [job EXCEPT ![c].left = @ \ {a}, ![c].ok = TRUE]
        /\ faults' = faults
     \/ /\ faults < MaxFaults
        /\ faults' = faults + 1
        /\ job' = [job EXCEPT ![c].left = @ \ {a}]
        /\ mailed' = mailed
  /\ UNCHANGED <<today, removed, latest, log, admins, edit, edits, schedule, raced, dropped>>

\* Faulty variant: the claim of a log nobody could be mailed about is kept.
FinishKeepingClaim(c) ==
  /\ job[c].at = "mail"
  /\ job[c].left = {}
  /\ Continue(c, job[c].todo)
  /\ UNCHANGED <<today, removed, latest, log, admins, edit, counters, history>>

\* Faulty variant: the claim is released if any mail failed.
FinishUnlessAllMailed(c) ==
  /\ job[c].at = "mail"
  /\ job[c].left = {}
  /\ LET l == job[c].l
     IN  log' = IF \A a \in job[c].to : <<l, job[c].on, a>> \in mailed
                  THEN log ELSE [log EXCEPT ![l].sent = FALSE]
  /\ Continue(c, job[c].todo)
  /\ UNCHANGED <<today, removed, latest, admins, edit, counters, history>>

\* The release asks nothing: it clears the claim whoever holds it by now.
Finish(c) ==
  /\ job[c].at = "mail"
  /\ job[c].left = {}
  /\ log' = IF job[c].ok THEN log ELSE [log EXCEPT ![job[c].l].sent = FALSE]
  /\ Continue(c, job[c].todo)
  /\ UNCHANGED <<today, removed, latest, admins, edit, counters, history>>

Die(c) ==
  /\ job[c].at # "closed"
  /\ faults < MaxFaults
  /\ faults' = faults + 1
  /\ job' = [job EXCEPT ![c] = Closed]
  /\ dropped' = dropped \cup (IF job[c].at = "mail" THEN {job[c].l} ELSE {})
  /\ UNCHANGED <<today, removed, latest, log, admins, edit, edits, schedule, mailed, raced>>

-----------------------------------------------------------------------------
(* What happens elsewhere: time, fuel entries, vehicles and memberships. *)

Tick ==
  /\ today < MaxDay
  /\ today' = today + 1
  /\ UNCHANGED <<removed, latest, log, admins, job, edit, counters, history>>

Read(v, reading) ==
  /\ latest' = [latest EXCEPT ![v] = reading]
  /\ UNCHANGED <<today, removed, log, admins, job, edit, counters, history>>

RemoveVehicle(v) ==
  /\ removed' = removed \cup {v}
  /\ UNCHANGED <<today, latest, log, admins, job, edit, counters, history>>

ChangeAdmins(now) ==
  /\ admins' = now
  /\ UNCHANGED <<today, removed, latest, log, job, edit, counters, history>>

Elsewhere ==
  \/ Tick
  \/ \E v \in Vehicles : \/ \E reading \in Readings \cup {NoReading} : Read(v, reading)
                         \/ RemoveVehicle(v)
  \/ \E now \in SUBSET Admins : ChangeAdmins(now)

-----------------------------------------------------------------------------
Init ==
  /\ today = 0
  /\ removed = {}
  /\ latest = [v \in Vehicles |-> NoReading]
  /\ log = EmptyTable
  /\ admins \in SUBSET Admins
  /\ job = [c \in Jobs |-> Closed]
  /\ edit = [p \in Editors |-> Closed]
  /\ edits = 0
  /\ faults = 0
  /\ schedule = [l \in Logs |-> 0]
  /\ mailed = {}
  /\ raced = {}
  /\ dropped = {}

JobStep(c) ==
  \/ \E l \in Logs : Claim(c, l)
  \/ \E a \in Admins : Mail(c, a)
  \/ Finish(c)

StartSome == \E c \in Jobs : StartJob(c)

PageStep ==
  \E l \in Logs :
    \/ \E date \in Day \cup {None}, usage \in Readings \cup {None} :
         \/ \E v \in Vehicles : CreateLog(l, v, date, usage)
         \/ \E p \in Editors : OpenEdit(p, l, date, usage)
    \/ DeleteLog(l)

Next ==
  \/ Elsewhere
  \/ PageStep
  \/ \E p \in Editors : CommitEdit(p)
  \/ StartSome
  \/ \E c \in Jobs : JobStep(c) \/ Die(c)

Spec == Init /\ [][Next]_vars

\* The job is called again every day, and goes on once begun.
Fairness == WF_vars(StartSome) /\ WF_vars(\E c \in Jobs : JobStep(c))

FairSpec == Spec /\ Fairness

-----------------------------------------------------------------------------
(* Properties. *)

TypeOK ==
  /\ IsTable(log, Logs, MaintenanceLog)
  /\ removed \subseteq Vehicles
  /\ latest \in [Vehicles -> Readings \cup {None}]
  /\ admins \subseteq Admins
  /\ schedule \in [Logs -> Nat]
  /\ \A c \in Jobs : InHand(c) \subseteq DOMAIN log
  /\ \A p \in Editors : edit[p].at = "open" => edit[p].l \in DOMAIN log

Mailed(l) == \E a \in Admins : <<l, schedule[l], a>> \in mailed

(***************************************************************************)
(* A log counts as reminded of only if an administrator was mailed about   *)
(* its present date, or a job is at it: nothing else loses a reminder but  *)
(* a job that dies with the claim, or an edit while a job has the log.     *)
(***************************************************************************)
ClaimsAreKept ==
  \A l \in DOMAIN log : log[l].sent =>
    \/ Mailed(l)
    \/ \E c \in Jobs : job[c].at = "mail" /\ job[c].l = l
    \/ l \in raced \cup dropped

(***************************************************************************)
(* Two jobs never have the same claim, unless an edit had the log open at  *)
(* the same time as a job.                                                 *)
(***************************************************************************)
ClaimsAreExclusive ==
  \A c, d \in Jobs :
    (c # d /\ job[c].at = "mail" /\ job[d].at = "mail" /\ job[c].l = job[d].l) =>
      job[c].l \in raced

(***************************************************************************)
(* No administrator is mailed twice about the present date of a log: two   *)
(* jobs are never at it at once, and once anybody was mailed about it the  *)
(* claim stays, though others were not.  The exception is as above.        *)
(***************************************************************************)
MailedStayClaimed == \A l \in DOMAIN log : Mailed(l) => log[l].sent \/ l \in raced

MailsAreNotRepeated == ClaimsAreExclusive /\ MailedStayClaimed

(***************************************************************************)
(* A log that is due does not wait for ever: it is mailed about, unless it *)
(* ceases to be due, nobody administers the group, or its claim is lost.   *)
(***************************************************************************)
Waiting(l) ==
  /\ l \in LiveLogs
  /\ Overdue(log[l]) \/ DueSoon(log[l])
  /\ admins # {}
  /\ ~Mailed(l)
  /\ l \notin raced \cup dropped

DueLogsAreMailed == \A l \in Logs : ~<>[](l \in DOMAIN log /\ Waiting(l))

=============================================================================
