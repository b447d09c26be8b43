----------------------------- MODULE MCReports -----------------------------
(* Instances of Reports for TLC. *)
EXTENDS Reports, TLC

One == CHOOSE v \in Vehicles : TRUE

\* Fills of one vehicle on every day and of the other on the first of every
\* month, all with one reading ...
Dated ==
  {form \in [vehicle : Vehicles, day : FirstDay..LastDay, reading : {1}, litres : {1},
             cost : {1}, full : {TRUE}, deleted : {FALSE}] :
     form.vehicle = One \/ form.day % DaysInMonth = 0}

\* ... and fills of one vehicle on two days with many readings.  Litres differ
\* at the highest one, and a partial fill counts in no average, so one kind of
\* it is enough.
Measured ==
  {form \in [vehicle : {One}, day : {LastDay - 3, LastDay - 2}, reading : 1..3,
             litres : {1, 2}, cost : {0}, full : BOOLEAN, deleted : {FALSE}] :
     /\ form.litres = 2 => form.full /\ form.reading = 3
     /\ ~form.full => form.reading = 2}

DatedOrMeasured == {Dated, Measured}

=============================================================================
