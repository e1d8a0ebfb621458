CONSTANTS
  u1 = u1
  u2 = u2
  g1 = g1
  NoUser = NoUser
  NoGroup = NoGroup
  Users <- TwoUsers
  Groups <- OneGroup
  ZeroGroups = {}
  MaxTs = 6
  Budgets <- StaleRefusal
  Codec = 1
  EarlyWake = FALSE
SPECIFICATION Spec
PROPERTY
  FailedReloginClearsOnlyItself
CHECK_DEADLOCK FALSE
