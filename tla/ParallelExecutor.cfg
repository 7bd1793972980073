CONSTANTS
  Callers <- TwoCallers
  Demand <- Batches
  Collectors <- OneCaller
  Workers <- TwoWorkers
  QueueCapacity = 1
  NoTask = NoTask
  c1 = c1
  c2 = c2
  w1 = w1
  w2 = w2
SPECIFICATION FairSpec
CHECK_DEADLOCK FALSE
INVARIANTS AtMostOnce NoTaskLost ShutdownRunsEverything CountersAgree
PROPERTIES ImplementsPool EveryCallReturns
