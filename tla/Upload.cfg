CONSTANTS
  Producers = {p1, p2}
  MinSize = 1
  MaxSize = 3
  MaxPushes = 6
SPECIFICATION FairSpec
INVARIANTS
  TypeOK
  PendingInOrder
  WorkerIsWoken
PROPERTIES
  LeavesForAReason
  QueueDrains
  DestructorReturns
CHECK_DEADLOCK FALSE
