CONSTANTS
  u1 = u1
  u2 = u2
  g1 = g1
  NoUser = NoUser
  NoGroup = NoGroup
  Users <- OneUser
  Groups <- OneGroup
  ZeroGroups = {}
  MaxTs = 5
  Budgets <- RecoveryScenarios
  Codec = 1
  EarlyWake = FALSE
SPECIFICATION FairSpec
PROPERTIES
  CallReturns
  SessionRecovers
CHECK_DEADLOCK FALSE
