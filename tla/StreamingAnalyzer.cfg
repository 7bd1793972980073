SPECIFICATION Spec
CONSTANTS
    ChunkSizes <- SmallSizes
    Overlaps <- SmallSizes
    Thresholds = {0, 2}
    Lengths <- SmallLengths
    MaxNumber = 1
    MaxFiles = 2
INVARIANTS
    NothingLostInChunks
PROPERTIES
    EveryAnalysisEnds
CHECK_DEADLOCK FALSE
