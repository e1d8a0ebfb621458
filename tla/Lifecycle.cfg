CONSTANTS
  Handler = {h1}
  NoHandler = NoHandler
  Linux = TRUE
  MaxInits = 2
  MaxCalls = 2
  MaxEvents = 1
SPECIFICATION FairSpec
INVARIANTS
  TypeOK
  DestroyLeavesNothing
  ClientIsThere
  OldEventsAreLate
  LogFailureHasCause
  DestroyedHandlerIsQuiet
PROPERTIES
  CallbackCallIsTrue
  DestroyReturns
  EventsAreDelivered
CHECK_DEADLOCK FALSE
