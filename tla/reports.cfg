SPECIFICATION PSpec
CONSTANTS
  Vehicles = {v1, v2}
  Offers <- DatedOrMeasured
  MonthsInYear = 3
  DaysInMonth = 2
  CostMonths = 2
  WindowDays = 3
  Unit = 2
  FirstDay = 6
  FirstToday = 11
  LastDay = 13
  MaxEntries = 3
INVARIANTS
  AveragesAgree
  EveryWayCountsOnce
  PagesCountOnce
CHECK_DEADLOCK FALSE
