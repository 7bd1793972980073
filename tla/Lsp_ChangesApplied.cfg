CONSTANTS
  Uris <- OneUri
  Handlers <- TwoSlots
  MaxInFlight = 2
  MaxClock = 4
  BadEdits <- NoBadEdits
  NoDoc = NoDoc
  Idle = Idle
  h1 = h1
  h2 = h2
  h3 = h3
  a = a
  b = b
SPECIFICATION Spec
CHECK_DEADLOCK FALSE
INVARIANTS ChangesApplied
