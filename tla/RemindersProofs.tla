-------------------------- MODULE RemindersProofs --------------------------
(***************************************************************************)
(* Theorems about Reminders, for every number of logs, jobs, editors and   *)
(* administrators, and histories of any length.                            *)
(***************************************************************************)
EXTENDS Reminders, TLAPS

-----------------------------------------------------------------------------
(* The inductive invariant. *)

JobState ==
  {Closed}
    \cup [at : {"claim"}, todo : SUBSET Logs, to : SUBSET Admins]
    \cup [at : {"mail"}, l : Logs, on : Nat, left : SUBSET Admins, ok : BOOLEAN,
          todo : SUBSET Logs, to : SUBSET Admins]

EditState ==
  {Closed}
    \cup [at : {"open"}, l : Logs, loaded : MaintenanceLog,
          date : Day \cup {None}, usage : Readings \cup {None}]

RTypeOK ==
  /\ TypeOK
  /\ job \in [Jobs -> JobState]
  /\ edit \in [Editors -> EditState]

\* What was mailed about exists, and no later date of it was mailed about.
MailsArePast ==
  \A m \in mailed : m[1] \in DOMAIN log /\ m[2] \in Nat /\ m[2] <= schedule[m[1]]

Mailing(c) == job[c].at = "mail"

\* A log that a job and an edit have at once counts as raced.
RacesAreSeen ==
  \A c \in Jobs : \A p \in Editors :
    edit[p].at = "open" /\ edit[p].l \in InHand(c) => edit[p].l \in raced

\* A job at a log holds its claim, and knows whether the present date was mailed about.
ClaimsHold ==
  \A c \in Jobs : \A l \in Logs : Mailing(c) /\ job[c].l = l /\ l \notin raced =>
    /\ log[l].sent
    /\ job[c].on = schedule[l]
    /\ job[c].ok <=> Mailed(l)

\* A job mails about no later date than the present one.
ClaimsArePast == \A c \in Jobs : Mailing(c) => job[c].on <= schedule[job[c].l]

\* An edit that loaded a log unclaimed still finds it so.
EditsSeeClaims ==
  \A p \in Editors :
    edit[p].at = "open" /\ ~edit[p].loaded.sent /\ edit[p].l \notin raced => ~log[edit[p].l].sent

IInv ==
  /\ RTypeOK
  /\ MailsArePast
  /\ RacesAreSeen
  /\ ClaimsHold
  /\ ClaimsArePast
  /\ EditsSeeClaims
  /\ ClaimsAreKept
  /\ MailedStayClaimed
  /\ ClaimsAreExclusive

-----------------------------------------------------------------------------
(* Jobs, edits and logs. *)

\* What a job has in hand.
LEMMA InHandOf ==
  ASSUME NEW c
  PROVE  /\ job[c].at = "claim" => InHand(c) = job[c].todo
         /\ job[c].at = "mail" => InHand(c) = job[c].todo \cup {job[c].l}
         /\ job[c].at = "closed" => InHand(c) = {}
  BY DEF InHand

\* The same after a step.
LEMMA InHandNext ==
  ASSUME NEW c
  PROVE  /\ job'[c].at = "claim" => InHand(c)' = job'[c].todo
         /\ job'[c].at = "mail" => InHand(c)' = job'[c].todo \cup {job'[c].l}
         /\ job'[c].at = "closed" => InHand(c)' = {}
  BY DEF InHand

\* The fields of a job that is open.
LEMMA JobFields ==
  ASSUME RTypeOK, NEW c \in Jobs
  PROVE  /\ job[c].at \in {"closed", "claim", "mail"}
         /\ job[c].at \in {"claim", "mail"} =>
              job[c].todo \in SUBSET Logs /\ job[c].to \in SUBSET Admins
         /\ job[c].at = "mail" =>
              /\ job[c].l \in DOMAIN log /\ job[c].l \in Logs /\ job[c].on \in Nat
              /\ job[c].left \in SUBSET Admins /\ job[c].ok \in BOOLEAN
         /\ InHand(c) \subseteq DOMAIN log
  <1>1. job[c] \in JobState
    BY DEF RTypeOK
  <1>2. InHand(c) \subseteq DOMAIN log
    BY DEF RTypeOK, TypeOK
  <1>3. QED BY <1>1, <1>2, InHandOf DEF JobState, Closed

\* The fields of an edit that is open.
LEMMA EditFields ==
  ASSUME RTypeOK, NEW p \in Editors, edit[p].at = "open"
  PROVE  /\ edit[p].l \in DOMAIN log /\ edit[p].l \in Logs
         /\ edit[p].loaded \in MaintenanceLog
         /\ edit[p].date \in Day \cup {None} /\ edit[p].usage \in Readings \cup {None}
  <1>1. edit[p] \in EditState /\ edit[p].l \in DOMAIN log
    BY DEF RTypeOK, TypeOK
  <1>2. QED BY <1>1 DEF EditState, Closed

\* The rows of the table of logs.
LEMMA LogRows ==
  ASSUME RTypeOK
  PROVE  /\ DOMAIN log \subseteq Logs
         /\ \A l \in DOMAIN log : log[l] \in MaintenanceLog /\ log[l].sent \in BOOLEAN
  BY DEF RTypeOK, TypeOK, MaintenanceLog, IsTable

-----------------------------------------------------------------------------
(* Every step keeps the invariant. *)

\* What a step leaves alone when it changes neither claims, jobs, edits nor mails.
Still ==
  /\ \A l \in DOMAIN log : l \in DOMAIN log' /\ log'[l].sent = log[l].sent
  /\ \A l \in DOMAIN log' : l \in DOMAIN log \/ ~log'[l].sent
  /\ UNCHANGED <<job, edit, schedule, mailed, raced, dropped>>

LEMMA StillInv ==
  ASSUME IInv, Still, RTypeOK'
  PROVE  IInv'
  <1> USE DEF IInv, Still
  <1>1. \A l : Mailed(l)' <=> Mailed(l)
    BY DEF Mailed
  <1>2. \A c : InHand(c)' = InHand(c)
    BY DEF InHand
  <1>3. \A l : Mailed(l) => l \in DOMAIN log
    BY DEF Mailed, MailsArePast
  <1>4. MailsArePast' /\ ClaimsArePast'
    BY DEF MailsArePast, ClaimsArePast, Mailing
  <1>5. RacesAreSeen'
    BY <1>2 DEF RacesAreSeen
  <1>6. ClaimsHold'
    BY <1>1, JobFields DEF ClaimsHold, Mailing
  <1>7. EditsSeeClaims'
    BY EditFields DEF EditsSeeClaims
  <1>8. ClaimsAreKept'
    BY <1>1 DEF ClaimsAreKept
  <1>9. MailedStayClaimed'
    BY <1>1, <1>3 DEF MailedStayClaimed
  <1>10. ClaimsAreExclusive'
    BY DEF ClaimsAreExclusive
  <1>11. QED BY <1>4, <1>5, <1>6, <1>7, <1>8, <1>9, <1>10

LEMMA CreateLogInv ==
  ASSUME IInv, NEW l, NEW v \in Vehicles, NEW date \in Day \cup {None},
         NEW usage \in Readings \cup {None}, CreateLog(l, v, date, usage)
  PROVE  IInv'
  <1> DEFINE row == [vehicle |-> v, date |-> date, usage |-> usage,
                     sent |-> FALSE, deleted |-> FALSE]
  <1>1. /\ l \in Logs /\ l \notin DOMAIN log /\ log' = Insert(log, l, row)
        /\ UNCHANGED <<today, removed, latest, admins, job, edit, counters, history>>
    BY DEF CreateLog
  <1>2. row \in MaintenanceLog /\ ~row.sent
    BY DEF MaintenanceLog
  <1> HIDE DEF row
  <1>3. /\ IsTable(log', Logs, MaintenanceLog)
        /\ DOMAIN log' = DOMAIN log \cup {l}
        /\ log'[l] = row
        /\ \A k \in DOMAIN log : log'[k] = log[k]
    <2>1. IsTable(log, Logs, MaintenanceLog)
      BY DEF IInv, RTypeOK, TypeOK
    <2>2. QED BY <1>1, <1>2, <2>1 DEF Insert, IsTable
  <1>4. Still
    BY <1>1, <1>2, <1>3 DEF Still, history
  <1>5. RTypeOK'
    BY <1>1, <1>3 DEF IInv, RTypeOK, TypeOK, InHand, history, JobState, EditState
  <1>6. QED BY <1>4, <1>5, StillInv

LEMMA DeleteLogInv ==
  ASSUME IInv, NEW l, DeleteLog(l)
  PROVE  IInv'
  <1>1. /\ l \in DOMAIN log
        /\ log' = [log EXCEPT ![l] = [log[l] EXCEPT !.deleted = TRUE]]
        /\ UNCHANGED <<today, removed, latest, admins, job, edit, counters, history>>
    BY DEF DeleteLog, LiveLogs
  <1>2. /\ [log[l] EXCEPT !.deleted = TRUE] \in MaintenanceLog
        /\ [log[l] EXCEPT !.deleted = TRUE].sent = log[l].sent
    BY <1>1, LogRows DEF IInv, MaintenanceLog
  <1>3. /\ IsTable(log', Logs, MaintenanceLog)
        /\ DOMAIN log' = DOMAIN log
        /\ \A k \in DOMAIN log : log'[k].sent = log[k].sent
    <2>1. IsTable(log, Logs, MaintenanceLog)
      BY DEF IInv, RTypeOK, TypeOK
    <2>2. QED BY <1>1, <1>2, <2>1 DEF IsTable
  <1>4. Still
    BY <1>1, <1>3 DEF Still, history
  <1>5. RTypeOK'
    BY <1>1, <1>3 DEF IInv, RTypeOK, TypeOK, InHand, history, JobState, EditState
  <1>6. QED BY <1>4, <1>5, StillInv

LEMMA ElsewhereInv ==
  ASSUME IInv, Elsewhere
  PROVE  IInv'
  <1> USE DEF Elsewhere, Tick, Read, RemoveVehicle, ChangeAdmins, NoReading, history
  <1>1. Still
    BY DEF Still
  <1>2. /\ removed' \subseteq Vehicles /\ admins' \subseteq Admins
        /\ latest' \in [Vehicles -> Readings \cup {None}]
    BY DEF IInv, RTypeOK, TypeOK
  <1>3. UNCHANGED <<log, job, edit, schedule>>
    OBVIOUS
  <1>4. TypeOK'
    BY <1>2, <1>3 DEF IInv, RTypeOK, TypeOK, InHand
  <1>5. RTypeOK'
    BY <1>3, <1>4 DEF IInv, RTypeOK
  <1>6. QED BY <1>1, <1>5, StillInv

LEMMA OpenEditInv ==
  ASSUME IInv, NEW p \in Editors, NEW l, NEW date \in Day \cup {None},
         NEW usage \in Readings \cup {None}, OpenEdit(p, l, date, usage)
  PROVE  IInv'
  <1> DEFINE q == [at |-> "open", l |-> l, loaded |-> log[l], date |-> date, usage |-> usage]
  <1>1. /\ l \in DOMAIN log /\ edit' = [edit EXCEPT ![p] = q]
        /\ raced' = raced \cup ({l} \cap UNION {InHand(c) : c \in Jobs})
        /\ UNCHANGED <<today, removed, latest, log, admins, job, schedule, mailed, dropped>>
    BY DEF OpenEdit, LiveLogs
  <1>2. q \in EditState /\ q.at = "open" /\ q.l = l /\ q.loaded = log[l]
    BY <1>1, LogRows DEF IInv, EditState
  <1> HIDE DEF q
  <1>3. /\ edit' \in [Editors -> EditState] /\ edit'[p] = q
        /\ \A e \in Editors : e # p => edit'[e] = edit[e]
    BY <1>1, <1>2 DEF IInv, RTypeOK
  <1>4. raced \subseteq raced' /\ \A c \in Jobs : l \in InHand(c) => l \in raced'
    BY <1>1
  <1>5. \A k : Mailed(k)' <=> Mailed(k)
    BY <1>1 DEF Mailed
  <1>6. \A c : InHand(c)' = InHand(c)
    BY <1>1 DEF InHand
  <1>7. RTypeOK'
    BY <1>1, <1>2, <1>3, <1>6 DEF IInv, RTypeOK, TypeOK
  <1>8. MailsArePast' /\ ClaimsArePast'
    BY <1>1 DEF IInv, MailsArePast, ClaimsArePast, Mailing
  <1>9. RacesAreSeen'
    BY <1>2, <1>3, <1>4, <1>6 DEF IInv, RacesAreSeen
  <1>10. ClaimsHold'
    BY <1>1, <1>4, <1>5 DEF IInv, ClaimsHold, Mailing
  <1>11. EditsSeeClaims'
    BY <1>1, <1>2, <1>3, <1>4 DEF IInv, EditsSeeClaims
  <1>12. ClaimsAreKept' /\ MailedStayClaimed'
    BY <1>1, <1>4, <1>5 DEF IInv, ClaimsAreKept, MailedStayClaimed
  <1>13. ClaimsAreExclusive'
    BY <1>1, <1>4 DEF IInv, ClaimsAreExclusive
  <1>14. QED BY <1>7, <1>8, <1>9, <1>10, <1>11, <1>12, <1>13 DEF IInv

\* What an edit writes: at most the claim is taken back, and only with a new date.
LEMMA EditedRow ==
  ASSUME IInv, NEW p \in Editors, edit[p].at = "open"
  PROVE  LET q == edit[p]
             row == Edited(q, log[q.l])
         IN  /\ row \in MaintenanceLog
             /\ Reschedules(q) /\ q.loaded.sent => ~row.sent
             /\ ~(Reschedules(q) /\ q.loaded.sent) => row.sent = log[q.l].sent
  <1> DEFINE q == edit[p]
  <1> DEFINE now == log[q.l]
  <1>1. now \in MaintenanceLog /\ q.date \in Day \cup {None} /\ q.usage \in Readings \cup {None}
    BY EditFields, LogRows DEF IInv
  <1> HIDE DEF q, now
  <1>2. /\ Edited(q, now) \in MaintenanceLog
        /\ Reschedules(q) /\ q.loaded.sent => ~Edited(q, now).sent
        /\ ~(Reschedules(q) /\ q.loaded.sent) => Edited(q, now).sent = now.sent
    BY <1>1 DEF Edited, MaintenanceLog
  <1>3. QED BY <1>2 DEF q, now

LEMMA CommitEditInv ==
  ASSUME IInv, NEW p \in Editors, CommitEdit(p)
  PROVE  IInv'
  <1> DEFINE q == edit[p]
  <1> DEFINE row == Edited(q, log[q.l])
  <1>1. /\ edit[p].at = "open"
        /\ log' = [log EXCEPT ![q.l] = row]
        /\ schedule' = [schedule EXCEPT ![q.l] = @ + (IF Reschedules(q) THEN 1 ELSE 0)]
        /\ edit' = [edit EXCEPT ![p] = Closed]
        /\ UNCHANGED <<today, removed, latest, admins, job, counters, mailed, raced, dropped>>
    BY DEF CommitEdit
  <1>2. /\ q.l \in DOMAIN log /\ q.l \in Logs /\ row \in MaintenanceLog
        /\ Reschedules(q) /\ q.loaded.sent => ~row.sent
        /\ ~(Reschedules(q) /\ q.loaded.sent) => row.sent = log[q.l].sent
    BY <1>1, EditFields, EditedRow DEF IInv
  <1> HIDE DEF row
  <1>3. /\ IsTable(log', Logs, MaintenanceLog) /\ DOMAIN log' = DOMAIN log
        /\ log'[q.l] = row
        /\ \A k \in DOMAIN log : k # q.l => log'[k] = log[k]
    <2>1. IsTable(log, Logs, MaintenanceLog)
      BY DEF IInv, RTypeOK, TypeOK
    <2>2. QED BY <1>1, <1>2, <2>1 DEF IsTable
  <1>4. /\ schedule \in [Logs -> Nat] /\ schedule' \in [Logs -> Nat]
        /\ \A k \in Logs : k # q.l => schedule'[k] = schedule[k]
        /\ Reschedules(q) => schedule'[q.l] = schedule[q.l] + 1
        /\ ~Reschedules(q) => schedule'[q.l] = schedule[q.l]
    BY <1>1, <1>2 DEF IInv, RTypeOK, TypeOK
  <1>5. /\ edit' \in [Editors -> EditState] /\ edit'[p] = Closed
        /\ \A e \in Editors : e # p => edit'[e] = edit[e]
    BY <1>1 DEF IInv, RTypeOK, EditState
  <1>6. \A c : InHand(c)' = InHand(c)
    BY <1>1 DEF InHand
  <1>7. \A k \in Logs : k # q.l \/ ~Reschedules(q) => (Mailed(k)' <=> Mailed(k))
    BY <1>1, <1>4 DEF Mailed
  <1>8. \A k : k = q.l /\ Reschedules(q) => ~Mailed(k)'
    <2>1. SUFFICES ASSUME NEW k, k = q.l, Reschedules(q), Mailed(k)'
                   PROVE  FALSE
      OBVIOUS
    <2>2. PICK a \in Admins : <<k, schedule'[k], a>> \in mailed
      BY <1>1, <2>1 DEF Mailed
    <2>3. schedule'[k] <= schedule[k]
      BY <2>2 DEF IInv, MailsArePast
    <2>4. QED BY <1>2, <1>4, <2>1, <2>3
  <1>9. \A c \in Jobs : Mailing(c) /\ job[c].l = q.l => q.l \in raced
    BY <1>1, InHandOf DEF IInv, RacesAreSeen, Mailing
  <1>10. DOMAIN log \subseteq Logs
    BY LogRows DEF IInv
  <1>11. RTypeOK'
    BY <1>1, <1>3, <1>4, <1>5, <1>6 DEF IInv, RTypeOK, TypeOK, Closed
  <1>12. \A k \in Logs : schedule[k] \in Nat /\ schedule'[k] \in Nat /\ schedule[k] <= schedule'[k]
    BY <1>4
  <1>13. MailsArePast'
    <2>1. SUFFICES ASSUME NEW m \in mailed
                   PROVE  m[1] \in DOMAIN log /\ m[2] \in Nat /\ m[2] <= schedule'[m[1]]
      BY <1>1, <1>3 DEF MailsArePast
    <2>2. m[1] \in DOMAIN log /\ m[2] \in Nat /\ m[2] <= schedule[m[1]]
      BY DEF IInv, MailsArePast
    <2>3. QED BY <1>10, <1>12, <2>2
  <1>14. ClaimsArePast'
    <2>1. SUFFICES ASSUME NEW c \in Jobs, Mailing(c)
                   PROVE  job[c].on <= schedule'[job[c].l]
      BY <1>1 DEF ClaimsArePast, Mailing
    <2>2. job[c].on \in Nat /\ job[c].l \in Logs /\ job[c].on <= schedule[job[c].l]
      BY <2>1, JobFields DEF IInv, ClaimsArePast, Mailing
    <2>3. QED BY <1>12, <2>2
  <1>15. RacesAreSeen'
    BY <1>1, <1>5, <1>6 DEF IInv, RacesAreSeen, Closed
  <1>16. ClaimsHold'
    <2>1. SUFFICES ASSUME NEW c \in Jobs, NEW k \in Logs, Mailing(c), job[c].l = k, k \notin raced
                   PROVE  /\ log'[k].sent
                          /\ job[c].on = schedule'[k]
                          /\ job[c].ok <=> Mailed(k)'
      BY <1>1 DEF ClaimsHold, Mailing
    <2>2. k # q.l /\ k \in DOMAIN log
      BY <1>9, <2>1, JobFields DEF IInv, Mailing
    <2>3. QED BY <1>3, <1>4, <1>7, <2>1, <2>2 DEF IInv, ClaimsHold
  <1>17. EditsSeeClaims'
    <2>1. SUFFICES ASSUME NEW e \in Editors, e # p, edit[e].at = "open", ~edit[e].loaded.sent,
                          edit[e].l \notin raced
                   PROVE  ~log'[edit[e].l].sent
      BY <1>1, <1>5 DEF EditsSeeClaims, Closed
    <2>2. edit[e].l \in DOMAIN log /\ ~log[edit[e].l].sent
      BY <2>1, EditFields DEF IInv, EditsSeeClaims
    <2>3. QED BY <1>2, <1>3, <2>2
  <1>18. ClaimsAreKept'
    <2>1. SUFFICES ASSUME NEW k \in DOMAIN log, log'[k].sent
                   PROVE  \/ Mailed(k)'
                          \/ \E c \in Jobs : job[c].at = "mail" /\ job[c].l = k
                          \/ k \in raced \cup dropped
      BY <1>1, <1>3 DEF ClaimsAreKept
    <2>2. CASE k # q.l \/ ~Reschedules(q)
      <3>1. log[k].sent
        BY <1>2, <1>3, <2>1, <2>2
      <3>2. Mailed(k)' <=> Mailed(k)
        BY <1>7, <1>10, <2>2
      <3>3. QED BY <3>1, <3>2 DEF IInv, ClaimsAreKept
    <2>3. CASE k = q.l /\ Reschedules(q)
      <3>1. ~q.loaded.sent /\ log[q.l].sent
        BY <1>2, <1>3, <2>1, <2>3
      <3>2. QED BY <1>1, <2>3, <3>1 DEF IInv, EditsSeeClaims
    <2>4. QED BY <2>2, <2>3
  <1>19. MailedStayClaimed'
    <2>1. SUFFICES ASSUME NEW k \in DOMAIN log, Mailed(k)'
                   PROVE  log'[k].sent \/ k \in raced
      BY <1>1, <1>3 DEF MailedStayClaimed
    <2>2. k # q.l \/ ~Reschedules(q)
      BY <1>8, <2>1
    <2>3. Mailed(k)
      BY <1>7, <1>10, <2>1, <2>2
    <2>4. log[k].sent => log'[k].sent
      BY <1>2, <1>3, <2>2
    <2>5. QED BY <2>3, <2>4 DEF IInv, MailedStayClaimed
  <1>20. ClaimsAreExclusive'
    BY <1>1 DEF IInv, ClaimsAreExclusive
  <1>21. QED BY <1>11, <1>13, <1>14, <1>15, <1>16, <1>17, <1>18, <1>19, <1>20 DEF IInv

\* A step of job c on what it has in hand, others and edits left as they are.
JobMoves(c) ==
  /\ job' \in [Jobs -> JobState]
  /\ \A d \in Jobs : d # c => job'[d] = job[d]
  /\ InHand(c)' \subseteq InHand(c)
  /\ UNCHANGED <<today, removed, latest, admins, edit, schedule, raced>>
  /\ DOMAIN log' = DOMAIN log /\ IsTable(log', Logs, MaintenanceLog)

LEMMA JobMovesTypes ==
  ASSUME IInv, NEW c \in Jobs, JobMoves(c)
  PROVE  RTypeOK' /\ RacesAreSeen' /\ \A d \in Jobs : InHand(d)' \subseteq InHand(d)
  <1>1. \A d \in Jobs : d # c => InHand(d)' = InHand(d)
    BY DEF JobMoves, InHand
  <1>2. \A d \in Jobs : InHand(d)' \subseteq InHand(d)
    BY <1>1 DEF JobMoves
  <1>3. RTypeOK'
    BY <1>2 DEF JobMoves, IInv, RTypeOK, TypeOK
  <1>4. RacesAreSeen'
    BY <1>2 DEF JobMoves, IInv, RacesAreSeen
  <1>5. QED BY <1>2, <1>3, <1>4

\* What a job goes on with.
LEMMA ContinueTypes ==
  ASSUME IInv, NEW c \in Jobs, job[c].at \in {"claim", "mail"}, NEW todo,
         todo \subseteq job[c].todo, Continue(c, todo)
  PROVE  /\ job' \in [Jobs -> JobState] /\ job'[c].at # "mail"
         /\ InHand(c)' \subseteq InHand(c)
         /\ \A d \in Jobs : d # c => job'[d] = job[d]
  <1>1. todo \in SUBSET Logs /\ job[c].to \in SUBSET Admins
    BY JobFields DEF IInv
  <1>2. \/ todo = {} /\ job' = [job EXCEPT ![c] = Closed]
        \/ job' = [job EXCEPT ![c] = [at |-> "claim", todo |-> todo, to |-> job[c].to]]
    BY DEF Continue
  <1>3. /\ job' \in [Jobs -> JobState]
        /\ \A d \in Jobs : d # c => job'[d] = job[d]
        /\ job'[c].at = "closed" \/ (job'[c].at = "claim" /\ job'[c].todo = todo)
    <2>1. PICK row : /\ row \in JobState /\ job' = [job EXCEPT ![c] = row]
                     /\ row.at = "closed" \/ (row.at = "claim" /\ row.todo = todo)
      <3>1. CASE job' = [job EXCEPT ![c] = Closed]
        <4> DEFINE row == Closed
        <4>1. row \in JobState
          BY DEF JobState
        <4>2. row.at = "closed"
          BY DEF Closed
        <4>3. job' = [job EXCEPT ![c] = row]
          BY <3>1
        <4> HIDE DEF row
        <4>4. QED BY <4>1, <4>2, <4>3
      <3>2. CASE job' = [job EXCEPT ![c] = [at |-> "claim", todo |-> todo, to |-> job[c].to]]
        <4> DEFINE row == [at |-> "claim", todo |-> todo, to |-> job[c].to]
        <4>1. row \in JobState /\ row.at = "claim" /\ row.todo = todo
          BY <1>1 DEF JobState
        <4> HIDE DEF row
        <4>2. job' = [job EXCEPT ![c] = row]
          BY <3>2 DEF row
        <4>3. QED BY <4>1, <4>2
      <3>3. QED BY <1>2, <3>1, <3>2
    <2>2. job \in [Jobs -> JobState]
      BY DEF IInv, RTypeOK
    <2>3. QED BY <2>1, <2>2
  <1>4. InHand(c)' \subseteq InHand(c)
    BY <1>3, InHandOf, InHandNext
  <1>5. QED BY <1>3, <1>4

LEMMA StartJobInv ==
  ASSUME IInv, NEW c \in Jobs, StartJob(c)
  PROVE  IInv'
  <1>1. /\ job[c] = Closed
        /\ job' = [job EXCEPT ![c] = [at |-> "claim", todo |-> Due, to |-> admins]]
        /\ raced' = raced \cup {l \in Due : \E p \in Editors : edit[p].at = "open" /\ edit[p].l = l}
        /\ UNCHANGED <<today, removed, latest, log, admins, edit, counters, schedule, mailed, dropped>>
    BY DEF StartJob
  <1>2. Due \subseteq DOMAIN log /\ Due \subseteq Logs /\ admins \subseteq Admins
    BY LogRows DEF Due, LiveLogs, IInv, RTypeOK, TypeOK
  <1>3. /\ job' \in [Jobs -> JobState]
        /\ job'[c].at = "claim" /\ job'[c].todo = Due
        /\ \A d \in Jobs : d # c => job'[d] = job[d]
    BY <1>1, <1>2 DEF IInv, RTypeOK, JobState
  <1>4. InHand(c)' = Due /\ \A d \in Jobs : d # c => InHand(d)' = InHand(d)
    BY <1>3, InHandNext DEF InHand
  <1>5. raced \subseteq raced' /\ \A l : Mailed(l)' <=> Mailed(l)
    BY <1>1 DEF Mailed
  <1>6. RTypeOK'
    BY <1>1, <1>2, <1>3, <1>4 DEF IInv, RTypeOK, TypeOK
  <1>7. MailsArePast'
    BY <1>1 DEF IInv, MailsArePast
  <1>8. RacesAreSeen'
    BY <1>1, <1>4, <1>5 DEF IInv, RacesAreSeen
  <1>9. \A d \in Jobs : Mailing(d)' => Mailing(d) /\ job'[d] = job[d]
    BY <1>3 DEF Mailing
  <1>10. ClaimsHold' /\ ClaimsArePast' /\ ClaimsAreExclusive'
    BY <1>1, <1>5, <1>9 DEF IInv, ClaimsHold, ClaimsArePast, ClaimsAreExclusive, Mailing
  <1>11. EditsSeeClaims' /\ MailedStayClaimed'
    BY <1>1, <1>5 DEF IInv, EditsSeeClaims, MailedStayClaimed
  <1>12. ClaimsAreKept'
    <2>1. \A d \in Jobs : job[d].at = "mail" => job'[d] = job[d]
      BY <1>1, <1>3 DEF Closed
    <2>2. QED BY <1>1, <1>5, <2>1 DEF IInv, ClaimsAreKept
  <1>13. QED BY <1>6, <1>7, <1>8, <1>10, <1>11, <1>12 DEF IInv

\* A job that stops mailing, with its log in order, leaves the others in order.
LEMMA StopInv ==
  ASSUME IInv, NEW c \in Jobs, JobMoves(c), job'[c].at # "mail",
         UNCHANGED <<log, mailed>>, dropped \subseteq dropped',
         Mailing(c) => Mailed(job[c].l) \/ job[c].l \in raced \cup dropped'
  PROVE  IInv'
  <1> USE DEF JobMoves
  <1>1. \A l : Mailed(l)' <=> Mailed(l)
    BY DEF Mailed
  <1>2. \A d \in Jobs : job'[d].at = "mail" => d # c /\ Mailing(d) /\ job'[d] = job[d]
    BY DEF Mailing
  <1>3. RTypeOK' /\ RacesAreSeen'
    BY JobMovesTypes
  <1>4. MailsArePast' /\ EditsSeeClaims' /\ MailedStayClaimed'
    BY <1>1 DEF IInv, MailsArePast, EditsSeeClaims, MailedStayClaimed
  <1>5. ClaimsHold' /\ ClaimsArePast' /\ ClaimsAreExclusive'
    BY <1>1, <1>2 DEF IInv, ClaimsHold, ClaimsArePast, ClaimsAreExclusive, Mailing
  <1>6. ClaimsAreKept'
    <2>1. SUFFICES ASSUME NEW l \in DOMAIN log, log[l].sent
                   PROVE  \/ Mailed(l)
                          \/ \E d \in Jobs : job'[d].at = "mail" /\ job'[d].l = l
                          \/ l \in raced \cup dropped'
      BY <1>1 DEF ClaimsAreKept
    <2>2. CASE \E d \in Jobs : job[d].at = "mail" /\ job[d].l = l /\ d # c
      BY <2>2
    <2>3. CASE Mailing(c) /\ job[c].l = l
      BY <2>3
    <2>4. CASE Mailed(l) \/ l \in raced \cup dropped
      BY <2>4
    <2>5. QED BY <2>1, <2>2, <2>3, <2>4 DEF IInv, ClaimsAreKept, Mailing
  <1>7. QED BY <1>3, <1>4, <1>5, <1>6 DEF IInv

LEMMA ClaimInv ==
  ASSUME IInv, NEW c \in Jobs, NEW l, Claim(c, l)
  PROVE  IInv'
  <1>1. /\ job[c].at = "claim" /\ l \in job[c].todo
        /\ UNCHANGED <<today, removed, latest, admins, edit, counters, history>>
    BY DEF Claim
  <1>2. /\ job[c].todo \in SUBSET Logs /\ job[c].to \in SUBSET Admins
        /\ InHand(c) = job[c].todo /\ l \in DOMAIN log /\ l \in Logs
    BY <1>1, JobFields, InHandOf DEF IInv
  <1>3. CASE Continue(c, job[c].todo \ {l}) /\ log' = log
    <2>1. JobMoves(c) /\ job'[c].at # "mail"
      BY <1>1, <1>3, ContinueTypes DEF JobMoves, history, IInv, RTypeOK, TypeOK
    <2>2. QED BY <1>1, <1>3, <2>1, StopInv DEF Mailing, history
  <1>4. CASE /\ Claimable(l)
             /\ log' = [log EXCEPT ![l].sent = TRUE]
             /\ job' = [job EXCEPT ![c] = [at |-> "mail", l |-> l, on |-> schedule[l],
                                           left |-> job[c].to, ok |-> FALSE,
                                           todo |-> job[c].todo \ {l}, to |-> job[c].to]]
    <2>1. ~log[l].sent /\ schedule[l] \in Nat
      BY <1>2, <1>4 DEF Claimable, IInv, RTypeOK, TypeOK
    <2>2. /\ job' \in [Jobs -> JobState]
          /\ job'[c].at = "mail" /\ job'[c].l = l /\ job'[c].on = schedule[l]
          /\ ~job'[c].ok /\ job'[c].todo = job[c].todo \ {l}
          /\ \A d \in Jobs : d # c => job'[d] = job[d]
      BY <1>2, <1>4, <2>1 DEF IInv, RTypeOK, JobState
    <2>3. /\ IsTable(log', Logs, MaintenanceLog) /\ DOMAIN log' = DOMAIN log
          /\ log'[l].sent /\ \A k \in DOMAIN log : k # l => log'[k] = log[k]
      <3>1. IsTable(log, Logs, MaintenanceLog)
        BY DEF IInv, RTypeOK, TypeOK
      <3>2. QED BY <1>2, <1>4, <3>1 DEF IsTable, MaintenanceLog
    <2>4. InHand(c)' \subseteq InHand(c)
      BY <1>1, <1>2, <2>2, InHandNext
    <2>5. JobMoves(c)
      BY <1>1, <2>2, <2>3, <2>4 DEF JobMoves, history
    <2>6. RTypeOK' /\ RacesAreSeen'
      BY <2>5, JobMovesTypes
    <2>7. \A k : Mailed(k)' <=> Mailed(k)
      BY <1>1 DEF Mailed, history
    <2>8. \A d \in Jobs : job'[d].at = "mail" /\ d # c => Mailing(d) /\ job'[d] = job[d]
      BY <2>2 DEF Mailing
    <2>9. \A d \in Jobs : Mailing(d) /\ job[d].l = l => l \in raced
      BY <1>2, <2>1 DEF IInv, ClaimsHold
    <2>10. Mailed(l) => l \in raced
      BY <1>2, <2>1 DEF IInv, MailedStayClaimed
    <2>11. MailsArePast'
      BY <1>1, <2>3 DEF IInv, MailsArePast, history
    <2>12. ClaimsHold'
      <3>1. SUFFICES ASSUME NEW d \in Jobs, NEW k \in Logs, job'[d].at = "mail", job'[d].l = k,
                            k \notin raced
                     PROVE  /\ log'[k].sent
                            /\ job'[d].on = schedule[k]
                            /\ job'[d].ok <=> Mailed(k)
        BY <1>1, <2>7 DEF ClaimsHold, Mailing, history
      <3>2. CASE d = c
        BY <2>2, <2>3, <2>10, <3>1, <3>2
      <3>3. CASE d # c
        <4>1. Mailing(d) /\ job'[d] = job[d] /\ job[d].l = k
          BY <2>8, <3>1, <3>3
        <4>2. k # l /\ k \in DOMAIN log
          BY <2>9, <3>1, <4>1, JobFields DEF IInv, Mailing
        <4>3. QED BY <2>3, <3>1, <4>1, <4>2 DEF IInv, ClaimsHold
      <3>4. QED BY <3>2, <3>3
    <2>13. ClaimsArePast'
      BY <1>1, <2>1, <2>2, <2>8 DEF IInv, ClaimsArePast, Mailing, history
    <2>14. EditsSeeClaims'
      <3>1. \A p \in Editors : edit[p].at = "open" /\ edit[p].l = l => l \in raced
        BY <1>1, <1>2 DEF IInv, RacesAreSeen
      <3>2. QED BY <1>1, <2>3, <3>1, EditFields DEF IInv, EditsSeeClaims, history
    <2>15. ClaimsAreKept'
      <3>1. SUFFICES ASSUME NEW k \in DOMAIN log, log'[k].sent
                     PROVE  \/ Mailed(k)
                            \/ \E d \in Jobs : job'[d].at = "mail" /\ job'[d].l = k
                            \/ k \in raced \cup dropped
        BY <1>1, <2>3, <2>7 DEF ClaimsAreKept, history
      <3>2. CASE k = l
        BY <2>2, <3>2
      <3>3. CASE k # l
        <4>1. log[k].sent
          BY <2>3, <3>1, <3>3
        <4>2. \A d \in Jobs : job[d].at = "mail" => job'[d] = job[d]
          BY <1>1, <2>2
        <4>3. QED BY <4>1, <4>2 DEF IInv, ClaimsAreKept
      <3>4. QED BY <3>2, <3>3
    <2>16. MailedStayClaimed'
      BY <1>1, <2>3, <2>7 DEF IInv, MailedStayClaimed, history
    <2>17. ClaimsAreExclusive'
      <3>1. SUFFICES ASSUME NEW d \in Jobs, NEW e \in Jobs, d # e, job'[d].at = "mail",
                            job'[e].at = "mail", job'[d].l = job'[e].l
                     PROVE  job'[d].l \in raced
        BY <1>1 DEF ClaimsAreExclusive, history
      <3>2. CASE d # c /\ e # c
        BY <2>8, <3>1, <3>2 DEF IInv, ClaimsAreExclusive, Mailing
      <3>3. CASE d = c \/ e = c
        BY <2>2, <2>8, <2>9, <3>1, <3>3
      <3>4. QED BY <3>2, <3>3
    <2>18. QED BY <2>6, <2>11, <2>12, <2>13, <2>14, <2>15, <2>16, <2>17 DEF IInv
  <1>5. QED BY <1>3, <1>4 DEF Claim

LEMMA MailInv ==
  ASSUME IInv, NEW c \in Jobs, NEW a \in Admins, Mail(c, a)
  PROVE  IInv'
  <1> DEFINE l == job[c].l
  <1>1. PICK k \in Logs : k = l
    BY JobFields DEF Mail, IInv
  <1>2. /\ job[c].at = "mail" /\ k \in DOMAIN log /\ job[c].on \in Nat
        /\ job[c].left \in SUBSET Admins
        /\ UNCHANGED <<today, removed, latest, log, admins, edit, edits, schedule, raced, dropped>>
    BY <1>1, JobFields DEF Mail, IInv
  <1>3. \/ /\ mailed' = mailed \cup {<<k, job[c].on, a>>}
           /\ job' = [job EXCEPT ![c].left = @ \ {a}, ![c].ok = TRUE]
        \/ /\ mailed' = mailed
           /\ job' = [job EXCEPT ![c].left = @ \ {a}]
    BY <1>1 DEF Mail
  <1>4. /\ job' \in [Jobs -> JobState]
        /\ \A d \in Jobs : d # c => job'[d] = job[d]
        /\ job'[c].at = "mail" /\ job'[c].l = k /\ job'[c].on = job[c].on
        /\ job'[c].todo = job[c].todo
        /\ \/ job'[c].ok /\ mailed' = mailed \cup {<<k, job[c].on, a>>}
           \/ job'[c].ok = job[c].ok /\ mailed' = mailed
    <2>1. job \in [Jobs -> JobState] /\ job[c] \in JobState
      BY DEF IInv, RTypeOK
    <2>2. job[c] \in [at : {"mail"}, l : Logs, on : Nat, left : SUBSET Admins, ok : BOOLEAN,
                      todo : SUBSET Logs, to : SUBSET Admins]
      BY <1>2, <2>1 DEF JobState, Closed
    <2>3. PICK row :
            /\ row \in JobState /\ job' = [job EXCEPT ![c] = row]
            /\ row.at = "mail" /\ row.l = k /\ row.on = job[c].on /\ row.todo = job[c].todo
            /\ \/ row.ok /\ mailed' = mailed \cup {<<k, job[c].on, a>>}
               \/ row.ok = job[c].ok /\ mailed' = mailed
      <3>1. CASE /\ mailed' = mailed \cup {<<k, job[c].on, a>>}
                 /\ job' = [job EXCEPT ![c].left = @ \ {a}, ![c].ok = TRUE]
        <4> DEFINE row == [job[c] EXCEPT !.left = @ \ {a}, !.ok = TRUE]
        <4>1. row \in JobState
          BY <2>2 DEF JobState
        <4>2. job' = [job EXCEPT ![c] = row]
          BY <2>1, <2>2, <3>1
        <4>3. /\ row.at = "mail" /\ row.l = job[c].l /\ row.on = job[c].on
              /\ row.todo = job[c].todo /\ row.ok
          BY <2>2
        <4>4. QED BY <1>1, <3>1, <4>1, <4>2, <4>3
      <3>2. CASE /\ mailed' = mailed
                 /\ job' = [job EXCEPT ![c].left = @ \ {a}]
        <4> DEFINE row == [job[c] EXCEPT !.left = @ \ {a}]
        <4>1. row \in JobState
          BY <2>2 DEF JobState
        <4>2. job' = [job EXCEPT ![c] = row]
          BY <2>1, <2>2, <3>2
        <4>3. /\ row.at = "mail" /\ row.l = job[c].l /\ row.on = job[c].on
              /\ row.todo = job[c].todo /\ row.ok = job[c].ok
          BY <2>2
        <4>4. QED BY <1>1, <3>2, <4>1, <4>2, <4>3
      <3>3. QED BY <1>3, <3>1, <3>2
    <2>4. job'[c] = row /\ \A d \in Jobs : d # c => job'[d] = job[d]
      BY <2>1, <2>3
    <2>5. job' \in [Jobs -> JobState]
      BY <2>1, <2>3
    <2>6. QED BY <2>3, <2>4, <2>5
  <1>5. InHand(c)' = InHand(c)
    BY <1>1, <1>2, <1>4, InHandOf, InHandNext
  <1>6. JobMoves(c)
    BY <1>2, <1>4, <1>5 DEF JobMoves, IInv, RTypeOK, TypeOK
  <1>7. RTypeOK' /\ RacesAreSeen'
    BY <1>6, JobMovesTypes
  <1>8. \A j \in Logs : /\ Mailed(j) => Mailed(j)'
                        /\ j # k => (Mailed(j)' <=> Mailed(j))
    BY <1>2, <1>4 DEF Mailed
  <1>9. Mailed(k)' => Mailed(k) \/ job'[c].ok
    BY <1>2, <1>4 DEF Mailed
  <1>10. job'[c].ok /\ k \notin raced => Mailed(k)'
    <2>1. k \notin raced => job[c].on = schedule[k] /\ (job[c].ok => Mailed(k))
      BY <1>1, <1>2 DEF IInv, ClaimsHold, Mailing
    <2>2. QED BY <1>2, <1>4, <1>8, <2>1 DEF Mailed
  <1>11. \A d \in Jobs : Mailing(d) <=> job'[d].at = "mail"
    BY <1>2, <1>4 DEF Mailing
  <1>12. \A d \in Jobs : job[d].at = "mail" => job'[d].l = job[d].l /\ job'[d].on = job[d].on
    BY <1>1, <1>4
  <1>13. MailsArePast'
    <2>1. job[c].on <= schedule[k]
      BY <1>1, <1>2 DEF IInv, ClaimsArePast, Mailing
    <2>2. QED BY <1>2, <1>4, <2>1 DEF IInv, MailsArePast
  <1>14. ClaimsArePast'
    BY <1>2, <1>11, <1>12 DEF IInv, ClaimsArePast, Mailing
  <1>15. EditsSeeClaims'
    BY <1>2 DEF IInv, EditsSeeClaims
  <1>16. ClaimsHold'
    <2>1. SUFFICES ASSUME NEW d \in Jobs, NEW j \in Logs, job'[d].at = "mail", job'[d].l = j,
                          j \notin raced
                   PROVE  /\ log[j].sent
                          /\ job'[d].on = schedule[j]
                          /\ job'[d].ok <=> Mailed(j)'
      BY <1>2 DEF ClaimsHold, Mailing
    <2>2. /\ Mailing(d) /\ job[d].l = j
          /\ log[j].sent /\ job[d].on = schedule[j] /\ (job[d].ok <=> Mailed(j))
      BY <1>2, <1>11, <1>12, <2>1 DEF IInv, ClaimsHold, Mailing
    <2>3. CASE d = c
      BY <1>1, <1>4, <1>8, <1>9, <1>10, <2>1, <2>2, <2>3
    <2>4. CASE d # c
      <3>1. j # k
        BY <1>1, <1>2, <2>1, <2>2, <2>4 DEF IInv, ClaimsAreExclusive, Mailing
      <3>2. QED BY <1>4, <1>8, <2>2, <2>4, <3>1
    <2>5. QED BY <2>3, <2>4
  <1>17. ClaimsAreKept'
    <2>1. SUFFICES ASSUME NEW j \in DOMAIN log, log[j].sent
                   PROVE  \/ Mailed(j)'
                          \/ \E d \in Jobs : job'[d].at = "mail" /\ job'[d].l = j
                          \/ j \in raced \cup dropped
      BY <1>2 DEF ClaimsAreKept
    <2>2. j \in Logs
      BY LogRows DEF IInv
    <2>3. QED BY <1>8, <1>11, <1>12, <2>1, <2>2 DEF IInv, ClaimsAreKept, Mailing
  <1>18. MailedStayClaimed'
    <2>1. SUFFICES ASSUME NEW j \in DOMAIN log, Mailed(j)'
                   PROVE  log[j].sent \/ j \in raced
      BY <1>2 DEF MailedStayClaimed
    <2>2. j \in Logs
      BY LogRows DEF IInv
    <2>3. CASE j = k
      BY <1>1, <1>2, <2>3 DEF IInv, ClaimsHold, Mailing
    <2>4. CASE j # k
      BY <1>8, <2>1, <2>2, <2>4 DEF IInv, MailedStayClaimed
    <2>5. QED BY <2>3, <2>4
  <1>19. ClaimsAreExclusive'
    BY <1>2, <1>11, <1>12 DEF IInv, ClaimsAreExclusive, Mailing
  <1>20. QED BY <1>7, <1>13, <1>14, <1>15, <1>16, <1>17, <1>18, <1>19 DEF IInv

LEMMA DieInv ==
  ASSUME IInv, NEW c \in Jobs, Die(c)
  PROVE  IInv'
  <1>1. /\ job' = [job EXCEPT ![c] = Closed]
        /\ dropped' = dropped \cup (IF job[c].at = "mail" THEN {job[c].l} ELSE {})
        /\ UNCHANGED <<today, removed, latest, log, admins, edit, schedule, mailed, raced>>
    BY DEF Die
  <1>2. /\ job' \in [Jobs -> JobState] /\ job'[c].at = "closed"
        /\ \A d \in Jobs : d # c => job'[d] = job[d]
    BY <1>1 DEF IInv, RTypeOK, JobState, Closed
  <1>3. JobMoves(c)
    BY <1>1, <1>2, InHandNext DEF JobMoves, IInv, RTypeOK, TypeOK
  <1>4. QED BY <1>1, <1>2, <1>3, StopInv DEF Mailing

LEMMA FinishInv ==
  ASSUME IInv, NEW c \in Jobs, Finish(c)
  PROVE  IInv'
  <1>1. /\ job[c].at = "mail"
        /\ log' = IF job[c].ok THEN log ELSE [log EXCEPT ![job[c].l].sent = FALSE]
        /\ Continue(c, job[c].todo)
        /\ UNCHANGED <<today, removed, latest, admins, edit, counters, history>>
    BY DEF Finish
  <1>2. PICK l \in Logs : l = job[c].l
    BY <1>1, JobFields DEF IInv
  <1>3. l \in DOMAIN log /\ job[c].ok \in BOOLEAN
    BY <1>1, <1>2, JobFields DEF IInv
  <1>4. /\ job' \in [Jobs -> JobState] /\ job'[c].at # "mail"
        /\ InHand(c)' \subseteq InHand(c)
        /\ \A d \in Jobs : d # c => job'[d] = job[d]
    BY <1>1, ContinueTypes
  <1>5. l \notin raced => (job[c].ok <=> Mailed(l))
    BY <1>1, <1>2 DEF IInv, ClaimsHold, Mailing
  <1>6. CASE job[c].ok
    <2>1. JobMoves(c)
      BY <1>1, <1>4, <1>6 DEF JobMoves, history, IInv, RTypeOK, TypeOK
    <2>2. Mailed(job[c].l) \/ job[c].l \in raced
      BY <1>2, <1>5, <1>6
    <2>3. QED BY <1>1, <1>4, <1>6, <2>1, <2>2, StopInv DEF history
  <1>7. CASE ~job[c].ok
    <2>1. log' = [log EXCEPT ![l].sent = FALSE]
      BY <1>1, <1>2, <1>7
    <2>2. /\ IsTable(log', Logs, MaintenanceLog) /\ DOMAIN log' = DOMAIN log
          /\ ~log'[l].sent /\ \A k \in DOMAIN log : k # l => log'[k] = log[k]
      <3>1. IsTable(log, Logs, MaintenanceLog)
        BY DEF IInv, RTypeOK, TypeOK
      <3>2. QED BY <1>3, <2>1, <3>1 DEF IsTable, MaintenanceLog
    <2>3. JobMoves(c)
      BY <1>1, <1>4, <2>2 DEF JobMoves, history
    <2>4. RTypeOK' /\ RacesAreSeen'
      BY <2>3, JobMovesTypes
    <2>5. \A k : Mailed(k)' <=> Mailed(k)
      BY <1>1 DEF Mailed, history
    <2>6. \A d \in Jobs : job'[d].at = "mail" => d # c /\ Mailing(d) /\ job'[d] = job[d]
      BY <1>4 DEF Mailing
    <2>7. \A d \in Jobs : d # c /\ Mailing(d) /\ job[d].l = l => l \in raced
      BY <1>1, <1>2 DEF IInv, ClaimsAreExclusive, Mailing
    <2>8. MailsArePast'
      BY <1>1, <2>2 DEF IInv, MailsArePast, history
    <2>9. ClaimsArePast' /\ ClaimsAreExclusive'
      BY <1>1, <2>6 DEF IInv, ClaimsArePast, ClaimsAreExclusive, Mailing, history
    <2>10. EditsSeeClaims'
      BY <1>1, <2>2, EditFields DEF IInv, EditsSeeClaims, history
    <2>11. ClaimsHold'
      <3>1. SUFFICES ASSUME NEW d \in Jobs, NEW k \in Logs, job'[d].at = "mail", job'[d].l = k,
                            k \notin raced
                     PROVE  /\ log'[k].sent
                            /\ job'[d].on = schedule[k]
                            /\ job'[d].ok <=> Mailed(k)
        BY <1>1, <2>5 DEF ClaimsHold, Mailing, history
      <3>2. Mailing(d) /\ job'[d] = job[d] /\ k # l /\ k \in DOMAIN log
        BY <2>6, <2>7, <3>1, JobFields DEF IInv, Mailing
      <3>3. QED BY <2>2, <3>1, <3>2 DEF IInv, ClaimsHold
    <2>12. ClaimsAreKept'
      <3>1. SUFFICES ASSUME NEW k \in DOMAIN log, k # l, log[k].sent
                     PROVE  \/ Mailed(k)
                            \/ \E d \in Jobs : job'[d].at = "mail" /\ job'[d].l = k
                            \/ k \in raced \cup dropped
        BY <1>1, <2>2, <2>5 DEF ClaimsAreKept, history
      <3>2. \A d \in Jobs : job[d].at = "mail" /\ job[d].l = k => job'[d] = job[d]
        BY <1>2, <1>4, <3>1
      <3>3. QED BY <3>1, <3>2 DEF IInv, ClaimsAreKept
    <2>13. MailedStayClaimed'
      <3>1. ~Mailed(l) \/ l \in raced
        BY <1>5, <1>7
      <3>2. QED BY <1>1, <2>2, <2>5, <3>1 DEF IInv, MailedStayClaimed, history
    <2>14. QED BY <2>4, <2>8, <2>9, <2>10, <2>11, <2>12, <2>13 DEF IInv
  <1>8. QED BY <1>3, <1>6, <1>7

LEMMA InitInv == Init => IInv
  <1> SUFFICES ASSUME Init
               PROVE  IInv
    OBVIOUS
  <1> USE DEF Init
  <1>1. DOMAIN log = {} /\ IsTable(log, Logs, MaintenanceLog)
    BY DEF EmptyTable, IsTable
  <1>2. /\ \A c \in Jobs : job[c].at = "closed" /\ InHand(c) = {}
        /\ \A p \in Editors : edit[p].at = "closed"
    BY InHandOf DEF Closed
  <1>3. TypeOK
    BY <1>1, <1>2 DEF TypeOK, NoReading
  <1>4. job \in [Jobs -> JobState] /\ edit \in [Editors -> EditState]
    BY DEF JobState, EditState
  <1>5. QED BY <1>1, <1>2, <1>3, <1>4
          DEF IInv, RTypeOK, MailsArePast, RacesAreSeen, ClaimsHold, ClaimsArePast, Mailing,
              EditsSeeClaims, ClaimsAreKept, MailedStayClaimed, ClaimsAreExclusive

LEMMA StepInv == IInv /\ [Next]_vars => IInv'
  <1> SUFFICES ASSUME IInv, [Next]_vars
               PROVE  IInv'
    OBVIOUS
  <1>1. CASE Elsewhere
    BY <1>1, ElsewhereInv
  <1>2. CASE PageStep
    BY <1>2, CreateLogInv, OpenEditInv, DeleteLogInv DEF PageStep
  <1>3. CASE \E p \in Editors : CommitEdit(p)
    BY <1>3, CommitEditInv
  <1>4. CASE StartSome
    BY <1>4, StartJobInv DEF StartSome
  <1>5. CASE \E c \in Jobs : JobStep(c) \/ Die(c)
    BY <1>5, ClaimInv, MailInv, FinishInv, DieInv DEF JobStep
  <1>6. CASE UNCHANGED vars
    <2>1. Still
      BY <1>6 DEF vars, history, Still
    <2>2. RTypeOK'
      BY <1>6 DEF vars, history, IInv, RTypeOK, TypeOK, InHand
    <2>3. QED BY <2>1, <2>2, StillInv
  <1>7. QED BY <1>1, <1>2, <1>3, <1>4, <1>5, <1>6 DEF Next

-----------------------------------------------------------------------------
(* The theorems. *)

\* The inductive invariant holds in every reachable state.
THEOREM Invariance == Spec => []IInv
  BY InitInv, StepInv, PTL DEF Spec

\* The tables and what jobs and edits have in hand are well-typed.
THEOREM TypeCorrect == Spec => []TypeOK
  <1>1. IInv => TypeOK
    BY DEF IInv, RTypeOK
  <1>2. QED BY <1>1, Invariance, PTL

\* reminder_sent_at stands for a mail, but for a job that died or met an edit.
THEOREM NoReminderLost == Spec => []ClaimsAreKept
  <1>1. IInv => ClaimsAreKept
    BY DEF IInv
  <1>2. QED BY <1>1, Invariance, PTL

\* The UPDATE that claims keeps jobs from mailing twice, overlapping or not.
THEOREM NoReminderRepeated == Spec => []MailsAreNotRepeated
  <1>1. IInv => MailsAreNotRepeated
    BY DEF IInv, MailsAreNotRepeated
  <1>2. QED BY <1>1, Invariance, PTL

\* A log is claimed by one job at a time.
THEOREM OneClaim == Spec => []ClaimsAreExclusive
  <1>1. IInv => ClaimsAreExclusive
    BY DEF IInv
  <1>2. QED BY <1>1, Invariance, PTL

=============================================================================
