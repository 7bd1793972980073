SPECIFICATION Spec
CONSTANTS
    Files = {"a", "b"}
    Threads = {1, 2}
    Shards <- TwoShards
    Placements <- SameOrApart
    Imports <- FewImports
    Priorities = {0}
    MaxBatchSize = 2
    MaxEdits = 1
    MaxCalls = 3
    None = None
INVARIANTS
    NoRequestLost
    DependentsExact
PROPERTIES
    EveryCallReturns
CHECK_DEADLOCK FALSE
