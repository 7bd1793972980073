SPECIFICATION Spec
CONSTANTS
    Files = {1, 2, 3}
    Threads = {t1, t2}
    Texts = {"one", "two", "long"}
    Length <- TextLength
    Layouts <- AllShort
    Overhead = 1
    max_entries = 2
    max_memory_usage = 8
    MaxTime = 1
    MaxWrites = 1
    MaxCalls = 3
INVARIANTS
    StaleIsNoticed CacheSettles
SYMMETRY Symmetry
CHECK_DEADLOCK FALSE
