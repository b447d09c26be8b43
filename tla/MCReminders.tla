---------------------------- MODULE MCReminders ----------------------------
(* Reminders for TLC: with edits one administrator suffices; two, of whom  *)
(* one alone may be mailed, are explored without them.                     *)
EXTENDS Reminders

VARIABLE setting    \* fixed

mvars == <<vars, setting>>

Settings ==
  {[admins |-> {CHOOSE a \in Admins : TRUE}, edits |-> MaxEdits, faults |-> 1],
   [admins |-> Admins, edits |-> 0, faults |-> MaxFaults]}

Within ==
  /\ admins \subseteq setting.admins
  /\ edits <= setting.edits
  /\ faults <= setting.faults

RemindersInit == Init /\ setting \in Settings /\ Within

RemindersNext == Next /\ UNCHANGED setting /\ Within'

RemindersSpec == RemindersInit /\ [][RemindersNext]_mvars /\ Fairness

=============================================================================
