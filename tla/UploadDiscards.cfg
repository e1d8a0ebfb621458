CONSTANTS
  Producers = {p1, p2}
  MinSize = 1
  MaxSize = 3
  MaxPushes = 6
SPECIFICATION FairSpec
PROPERTIES
  DataIsNotDiscarded
CHECK_DEADLOCK FALSE
