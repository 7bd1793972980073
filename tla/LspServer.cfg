CONSTANTS
  Uris <- TwoUris
  Handlers <- TwoSlots
  MaxInFlight = 3
  MaxClock = 5
  BadEdits <- ThirdBad
  NoDoc = NoDoc
  Idle = Idle
  h1 = h1
  h2 = h2
  h3 = h3
  a = a
  b = b
SPECIFICATION FairSpec
CHECK_DEADLOCK FALSE
INVARIANTS EditsInOrder StaleOnlyWhileRunning DocumentsInSync
PROPERTIES EveryNotificationHandled
