CONSTANTS
  u1 = u1
  u2 = u2
  g1 = g1
  NoUser = NoUser
  NoGroup = NoGroup
  Users <- OneUser
  Groups <- OneGroup
  ZeroGroups = {}
  MaxTs = 4
  Budgets <- OneLogin
  Codec = 1
  EarlyWake = FALSE
SPECIFICATION FairSpec
PROPERTY
  SessionAlwaysRecovers
CHECK_DEADLOCK FALSE
