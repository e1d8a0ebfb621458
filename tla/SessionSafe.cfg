CONSTANTS
  u1 = u1
  u2 = u2
  g1 = g1
  NoUser = NoUser
  NoGroup = NoGroup
  Users <- OneUser
  Groups <- OneGroup
  ZeroGroups = {g1}
  MaxTs = 6
  Budgets <- AllScenarios
  Codec = 1
  EarlyWake = FALSE
SPECIFICATION Spec
INVARIANTS
  TypeOK
  NoOrphanedCaller
  ReturnIsJustified
  GroupsImplyUser
  LoginingIsTracked
  NoRetractionAfterRequest
CHECK_DEADLOCK FALSE
