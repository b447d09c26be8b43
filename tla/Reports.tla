------------------------------ MODULE Reports ------------------------------
(***************************************************************************)
(* What the pages compute from the fuel entries of a group: the average    *)
(* consumption of a vehicle, the consumption of each fill, the sums of the *)
(* last months and the trend of the last days.  Every page has code of its *)
(* own for it, and reads the table at the moment it is opened.             *)
(*                                                                         *)
(* Days are numbered; the calendar has MonthsInYear months of DaysInMonth  *)
(* days each.  A consumption is litres per unit of the reading, times Unit *)
(* so that it is an integer.  Left out: rounding, names, labels, AdBlue,   *)
(* and other groups, whose entries no query returns.                       *)
(***************************************************************************)
EXTENDS Integers, FiniteSetsExt, Tables

CONSTANTS
  Vehicles,
  Offers,         \* bound: the sets of forms that an instance enumerates
  MonthsInYear,
  DaysInMonth,
  CostMonths,     \* COST_CHART_MONTHS
  WindowDays,     \* CONSUMPTION_CHART_DAYS, TREND_WINDOW_DAYS
  Unit,           \* a multiple of every distance between two readings
  FirstDay,       \* bound: the first date of an entry
  FirstToday,
  LastDay,        \* bound: how long a history lasts
  MaxEntries      \* bound

ASSUME CalendarAssumption ==
  /\ {MonthsInYear, DaysInMonth, CostMonths, WindowDays} \subseteq Nat \ {0}
  /\ CostMonths <= MonthsInYear
  /\ {FirstDay, FirstToday, LastDay} \subseteq Int /\ FirstToday <= LastDay

ASSUME InstanceAssumption == IsFiniteSet(Vehicles) /\ Unit \in Nat /\ MaxEntries \in Nat

VARIABLES
  forms,          \* what may be entered (fixed)
  today,
  entry,          \* fuel_entries
  gone            \* vehicles that are deleted

pvars == <<forms, today, entry, gone>>

-----------------------------------------------------------------------------
(* The table. *)

FuelEntryRow ==
  [vehicle : Vehicles, day : FirstDay..LastDay, reading : Nat, litres : Nat \ {0},
   cost : Nat, full : BOOLEAN, deleted : BOOLEAN]

ASSUME OffersAssumption == Offers \subseteq SUBSET FuelEntryRow

\* Faulty variant: a date may be in the future.
AnyDate(form) == TRUE

\* FuelEntryCreate: the date is not in the future.
Accepted(form) == form.day <= today

AddEntry(form) ==
  /\ Accepted(form)
  /\ form.vehicle \notin gone
  /\ Cardinality(DOMAIN entry) < MaxEntries
  /\ entry' = Insert(entry, Cardinality(DOMAIN entry) + 1, form)
  /\ UNCHANGED <<forms, today, gone>>

\* active_fuel_entries_for_group
ActiveEntries ==
  {e \in DOMAIN entry : ~entry[e].deleted /\ entry[e].vehicle \notin gone}

EditEntry(e, form) ==
  /\ Accepted(form)
  /\ e \in ActiveEntries
  /\ form.vehicle = entry[e].vehicle
  /\ entry' = [entry EXCEPT ![e] = form]
  /\ UNCHANGED <<forms, today, gone>>

DeleteEntry(e) ==
  /\ e \in ActiveEntries
  /\ entry' = [entry EXCEPT ![e].deleted = TRUE]
  /\ UNCHANGED <<forms, today, gone>>

DeleteVehicle(v) ==
  /\ v \notin gone
  /\ gone' = gone \cup {v}
  /\ UNCHANGED <<forms, today, entry>>

Midnight ==
  /\ today < LastDay
  /\ today' = today + 1
  /\ UNCHANGED <<forms, entry, gone>>

-----------------------------------------------------------------------------
(* Consumption. *)

EntriesOf(v) == {e \in ActiveEntries : entry[e].vehicle = v}

\* Faulty variant: partial fills count like full ones.
AllFills(v) == EntriesOf(v)

FullFills(v) == {e \in EntriesOf(v) : entry[e].full}

\* ORDER BY entry_date, id
ByDate(p, e) ==
  entry[p].day < entry[e].day \/ (entry[p].day = entry[e].day /\ p < e)

\* sorted by the reading: stable, so fills of one reading keep their rank.
ByReading(rank, p, e) ==
  \/ entry[p].reading < entry[e].reading
  \/ entry[p].reading = entry[e].reading /\ rank[p] < rank[e]

Distance(p, e) == entry[e].reading - entry[p].reading

\* The segments of some distance between each fill and the next.
Segments(fills, rank) ==
  {s \in fills \X fills :
     /\ ByReading(rank, s[1], s[2])
     /\ \A f \in fills : ~(ByReading(rank, s[1], f) /\ ByReading(rank, f, s[2]))
     /\ Distance(s[1], s[2]) > 0}

Rate(s) == entry[s[2]].litres * (Unit \div Distance(s[1], s[2]))

\* average_consumption_for_vehicle: a mean is a sum with its number of terms.
Average(fills, rank) ==
  LET segments == Segments(fills, rank)
  IN  [sum |-> SumFunction([s \in segments |-> Rate(s)]), n |-> Cardinality(segments)]

SameMean(a, b) == (a.n = 0 <=> b.n = 0) /\ a.sum * b.n = b.sum * a.n

Ranks(fills) == {rank \in [fills -> fills] : \A p, e \in fills : rank[p] = rank[e] => p = e}

\* The summary reads the entries in no particular order.
SummaryAverages(v) == {Average(FullFills(v), rank) : rank \in Ranks(FullFills(v))}

DateRank(fills) == [e \in fills |-> Cardinality({p \in fills : ByDate(p, e)})]

\* vehicle_consumption_breakdown and vehicle_mobile_stats
BreakdownAverage(v) == Average(FullFills(v), DateRank(FullFills(v)))

\* Faulty variant: a partial fill ends the way of the full one before it.
PreviousOfAny(e) ==
  LET before == {p \in EntriesOf(entry[e].vehicle) : ByDate(p, e)}
  IN  {p \in before : \A f \in before : ~ByDate(p, f)}

\* _consumption_by_entry_id: the full fill before this one by date, if any.
PreviousFull(e) ==
  LET before == {p \in FullFills(entry[e].vehicle) : ByDate(p, e)}
  IN  {p \in before : \A f \in before : ~ByDate(p, f)}

\* The pair is sorted by its readings again.
ConsumptionOf(e) ==
  IF entry[e].full /\ PreviousFull(e) # {}
    THEN LET p == CHOOSE q \in PreviousFull(e) : TRUE
         IN  Average({p, e}, DateRank({p, e}))
    ELSE [sum |-> 0, n |-> 0]

Valued(es) == {e \in es : ConsumptionOf(e).n = 1}

MeanOf(es) ==
  [sum |-> SumFunction([e \in Valued(es) |-> ConsumptionOf(e).sum]),
   n |-> Cardinality(Valued(es))]

-----------------------------------------------------------------------------
(* Months. *)

MonthOf(day) ==
  <<day \div (DaysInMonth * MonthsInYear), ((day \div DaysInMonth) % MonthsInYear) + 1>>

FirstOf(month) == (month[1] * MonthsInYear + month[2] - 1) * DaysInMonth

\* Faulty variant: the year stays when January goes over into December.
PreviousInYear(month) ==
  IF month[2] = 1 THEN <<month[1], MonthsInYear>> ELSE <<month[1], month[2] - 1>>

PreviousMonth(month) ==
  IF month[2] = 1 THEN <<month[1] - 1, MonthsInYear>> ELSE <<month[1], month[2] - 1>>

\* _last_12_month_keys, _last_n_month_keys: the i-th month back from today.
MonthsBack(n) ==
  LET back[i \in 0..n - 1] == IF i = 0 THEN MonthOf(today) ELSE PreviousMonth(back[i - 1])
  IN  back

MonthKeys(n) == {MonthsBack(n)[i] : i \in 0..n - 1}

StartFloor(n) == FirstOf(MonthsBack(n)[n - 1])

Litres(es) == SumFunction([e \in es |-> entry[e].litres])

Cost(es) == SumFunction([e \in es |-> entry[e].cost])

\* get_summary_context: the entries counted in the row of a month.
SummaryRow(key) ==
  {e \in ActiveEntries : entry[e].day >= StartFloor(MonthsInYear) /\ MonthOf(entry[e].day) = key}

\* get_analytics_context: the entries summed for a vehicle.
VehicleRow(v) == {e \in EntriesOf(v) : entry[e].day >= StartFloor(MonthsInYear)}

SmallerOf(a, b) == IF a < b THEN a ELSE b

\* Faulty variant: only the entries of this month are fetched.
RangeOfMonth == FirstOf(MonthOf(today))

\* get_dashboard_context: the day its one query starts from.
RangeStart ==
  SmallerOf(FirstOf(MonthOf(today)), SmallerOf(today - (WindowDays - 1), StartFloor(CostMonths)))

RangedEntries == {e \in ActiveEntries : entry[e].day >= RangeStart /\ entry[e].day <= today}

MonthEntries == {e \in RangedEntries : entry[e].day >= FirstOf(MonthOf(today))}

\* _cost_chart_from_rows
CostBar(key) ==
  {e \in RangedEntries : entry[e].day >= StartFloor(CostMonths) /\ MonthOf(entry[e].day) = key}

-----------------------------------------------------------------------------
(* The last days. *)

Between(first, last) == {e \in ActiveEntries : entry[e].day >= first /\ entry[e].day <= last}

CurrentStart == today - (WindowDays - 1)

\* Faulty variant: the day on which the current window starts is in both.
PreviousEndOverlapping == CurrentStart

PreviousEnd == CurrentStart - 1

PreviousStart == PreviousEnd - (WindowDays - 1)

\* consumption_trend_30d and cost_trend_30d
CurrentWindow == Between(CurrentStart, today)
PreviousWindow == Between(PreviousStart, PreviousEnd)

\* _consumption_chart: the days that get a point.
ChartDays == {entry[e].day : e \in Valued(CurrentWindow)}

-----------------------------------------------------------------------------
PInit ==
  /\ forms \in Offers
  /\ today = FirstToday
  /\ entry = EmptyTable
  /\ gone = {}

PNext ==
  \/ \E form \in forms : AddEntry(form) \/ \E e \in DOMAIN entry : EditEntry(e, form)
  \/ \E e \in DOMAIN entry : DeleteEntry(e)
  \/ \E v \in Vehicles : DeleteVehicle(v)
  \/ Midnight

PSpec == PInit /\ [][PNext]_pvars

-----------------------------------------------------------------------------
(* Properties. *)

PTypeOK ==
  /\ today \in FirstToday..LastDay /\ gone \subseteq Vehicles
  /\ IsTable(entry, 1..MaxEntries, FuelEntryRow)
  /\ \A e \in DOMAIN entry : entry[e].day <= today

Readings(v) == {entry[e].reading : e \in FullFills(v)}

ReadingsDiffer(v) == Cardinality(Readings(v)) = Cardinality(FullFills(v))

ReadingsRise(v) ==
  \A p, e \in FullFills(v) : ByDate(p, e) => entry[p].reading < entry[e].reading

(***************************************************************************)
(* The summary and the analytics page show one average for a vehicle       *)
(* unless two full fills have the same reading, and it is the mean of what *)
(* the dashboard shows for the single fills if readings rise with dates.   *)
(***************************************************************************)
AveragesAgree ==
  \A v \in Vehicles :
    /\ ReadingsDiffer(v) =>
         \A average \in SummaryAverages(v) : SameMean(average, BreakdownAverage(v))
    /\ ReadingsRise(v) => SameMean(BreakdownAverage(v), MeanOf(EntriesOf(v)))

(***************************************************************************)
(* Partial fills and fills without a distance change no average, and each  *)
(* other full fill enters the average of its vehicle with its own litres   *)
(* over the way since the next lower reading.                              *)
(***************************************************************************)
EveryWayCountsOnce ==
  \A v \in Vehicles :
    LET fills == {e \in EntriesOf(v) : entry[e].full}
        Lower(e) == {p \in fills : entry[p].reading < entry[e].reading}
        Way(e) == Min({entry[e].reading - entry[p].reading : p \in Lower(e)})
        ends == {e \in fills : Lower(e) # {}}
    IN  ReadingsDiffer(v) =>
          BreakdownAverage(v) =
            [sum |-> SumFunction([e \in ends |-> entry[e].litres * (Unit \div Way(e))]),
             n |-> Cardinality(ends)]

(***************************************************************************)
(* Each page counts an entry of the days it shows once: the summary and    *)
(* the sums by vehicle of the analytics page all litres of one year, in    *)
(* one row each, across the turn of a year too; the dashboard, which       *)
(* fetches only a range, the costs the summary has for the same months;    *)
(* the trend all of twice its window, the chart the days of half of it.    *)
(***************************************************************************)
YearAddsUp ==
  LET MonthsAgo(e) == today \div DaysInMonth - entry[e].day \div DaysInMonth
      lastYear == Litres({e \in ActiveEntries : MonthsAgo(e) < MonthsInYear})
  IN  /\ SumFunction([key \in MonthKeys(MonthsInYear) |-> Litres(SummaryRow(key))]) = lastYear
      /\ SumFunction([v \in Vehicles |-> Litres(VehicleRow(v))]) = lastYear

DashboardFollowsSummary ==
  /\ \A key \in MonthKeys(CostMonths) : Cost(CostBar(key)) = Cost(SummaryRow(key))
  /\ CostBar(MonthOf(today)) = MonthEntries

WindowsMeet ==
  LET both == Between(today - 2 * WindowDays + 1, today)
  IN  /\ Cost(CurrentWindow) + Cost(PreviousWindow) = Cost(both)
      /\ MeanOf(CurrentWindow).n + MeanOf(PreviousWindow).n = MeanOf(both).n
      /\ ChartDays # {} <=> MeanOf(CurrentWindow).n > 0

PagesCountOnce == YearAddsUp /\ DashboardFollowsSummary /\ WindowsMeet

=============================================================================
