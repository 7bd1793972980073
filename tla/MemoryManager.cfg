SPECIFICATION MemorySpec
CONSTANTS
    Threads = {1, 2}
    Sizes = {1, 2, 4}
    PoolSizes <- TwoPools
    Threshold = 3
    Critical = 4
    Wrap = 32
    MaxCalls = 5
    None = None
INVARIANTS
    UsageAccounted
    PoolsAddUp
CHECK_DEADLOCK FALSE
