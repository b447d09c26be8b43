SPECIFICATION RSpec
CONSTANTS
  Groups = {g1}
  FuelTypes = {diesel}
  Vehicles = {v1}
  Tanks = {t1, t2}
  FuelEntries = {e1}
  LedgerRows = {l1, l2}
  Litres = {1, 2}
  Openings = {0}
  Replicas = {r1}
  None = None
SYMMETRY Symmetry
PROPERTIES
  ServesAtomically
CHECK_DEADLOCK FALSE
