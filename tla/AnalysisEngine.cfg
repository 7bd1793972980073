SPECIFICATION Spec
CONSTANTS
    Files <- SmallFiles
    Graphs <- SmallGraphs
    Problems <- SmallProblems
    Facts <- FlowFacts
    Generated <- FlowGenerated
    Kept <- FlowKept
    HashOrders <- SmallOrders
    MaxIterations = 1000
INVARIANTS
    LaterStatementsKept
    DominatorsImmediate
    LoopsAreEnteredAtHeaders
    ConvergedIsSolved
    DefinitionsExact
    LivenessExact
    ChainsExact
PROPERTIES
    EveryFileEnds
CHECK_DEADLOCK FALSE
