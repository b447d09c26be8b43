SPECIFICATION RSpec
CONSTANTS
  Groups = {g1}
  FuelTypes = {diesel}
  Vehicles = {v1}
  Tanks = {t1}
  FuelEntries = {e1}
  LedgerRows = {l1, l2}
  Litres = {1, 2}
  Openings = {0}
  Replicas = {r1, r2}
  None = None
SYMMETRY Symmetry
INVARIANTS
  OneWithdrawalPerEntry
  OnlyRacesSpoilTheLedger
  OnlyRacesStrandFills
PROPERTIES
  DeletionSurvivesRaces
CHECK_DEADLOCK FALSE
