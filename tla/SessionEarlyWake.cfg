CONSTANTS
  u1 = u1
  u2 = u2
  g1 = g1
  NoUser = NoUser
  NoGroup = NoGroup
  Users <- OneUser
  Groups <- OneGroup
  ZeroGroups = {}
  MaxTs = 2
  Budgets <- OneLogin
  Codec = 1
  EarlyWake = TRUE
SPECIFICATION Spec
INVARIANT
  ReturnIsJustified
CHECK_DEADLOCK FALSE
