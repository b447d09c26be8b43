SPECIFICATION RSpec
CONSTANTS
  Users = {u1, u2}
  Groups = {g1}
  Requests = {r1, r2, r3}
SYMMETRY Symmetry
PROPERTIES
  OnlyStaleAdminsOrphan
  MembershipsStartByJoining
CHECK_DEADLOCK FALSE
