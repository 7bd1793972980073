SPECIFICATION Spec
CONSTANTS
    Files = {1, 2, 3}
    Paths = {1, 2, 3, 4}
    FileAt <- SecondPath
    Threads = {t1, t2}
    Configs <- SomeConfigs
    Lists <- OneFileOrAll
    Texts <- Graphs
    Placements <- TwoShards
    Shards = 2
    MaxCalls = 2
    MaxWrites = 1
INVARIANTS
    ImportersInvalidated
PROPERTIES
    CirclesFound
SYMMETRY Symmetry
CHECK_DEADLOCK FALSE
