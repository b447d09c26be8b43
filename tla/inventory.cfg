SPECIFICATION Spec
CONSTANTS
  Groups = {g1, g2}
  FuelTypes = {diesel, petrol}
  Vehicles = {v1}
  Tanks = {t1, t2}
  FuelEntries = {e1}
  LedgerRows = {l1, l2}
  Litres = {1, 2}
  Openings = {2}
  None = None
SYMMETRY Symmetry
INVARIANTS
  TypeOK
  LedgerMirrorsFills
  FillsStandOnLiveTanks
  RowsStayInGroup
CHECK_DEADLOCK FALSE
PROPERTIES
  ImplementsFuelStock
  UnreachableFillsStay
  PinnedTanksStayPinned
  OnlyNewFuelPartsFills
