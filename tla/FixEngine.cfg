SPECIFICATION FixSpec
CONSTANTS
    Break = "nl"
    Symbols = {"a", "b", "c", "d", "x", "y", "z", "nl"}
    Texts <- SmallTexts
    Advice <- SmallAdvice
INVARIANTS
    KeptApart
    DroppedForBetter
    AppliedAtOnce
CHECK_DEADLOCK FALSE
