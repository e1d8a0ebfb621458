CONSTANTS
  MaxSends = 2
  MaxPushes = 2
  MaxFaults = 2
  Ping = 0
  MaxPings = 1
SPECIFICATION FairSpec
INVARIANTS
  TypeOK
  OneOfEach
  FreshStreamAlone
PROPERTIES
  RefinesTransport
  HalfClosedDestroyReturns
  QueuesDrain
CHECK_DEADLOCK FALSE
