SPECIFICATION FairSpec
CONSTANTS
  Users = {u1, u2}
  Groups = {g1, g2}
  Operators = {u1}
  SessionIds = {s1}
  None = None
  NoAnswer = NoAnswer
INVARIANTS
  GroupsKeepAnAdmin
  DeletedAccountsBelongNowhere
PROPERTIES
  ViewsChangeNothing
  CookiesSettle
  LastGroupsAreOnesOwn
CHECK_DEADLOCK FALSE
