CONSTANTS
  MaxSends = 1
  MaxPushes = 1
  MaxFaults = 1
  Ping = 0
  MaxPings = 0
SPECIFICATION FairSpec
PROPERTY
  DestroyReturns
CHECK_DEADLOCK FALSE
