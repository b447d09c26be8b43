SPECIFICATION FairRSpec
CONSTANTS
  Groups = {g1}
  FuelTypes = {diesel}
  Vehicles = {v1}
  Tanks = {t1}
  FuelEntries = {e1}
  LedgerRows = {l1}
  Litres = {1}
  Openings = {0}
  Replicas = {r1, r2}
  None = None
PROPERTIES
  EveryRequestEnds
CHECK_DEADLOCK FALSE
