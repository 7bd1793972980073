CONSTANTS
  Paths <- TwoPaths
  TestPaths <- OneTest
  Texts <- FourTexts
  Source <- Sources
  Registered <- TwoDetectors
  Priority <- Priorities
  Selected <- Both
  NeedsCfg <- OneNeedsCfg
  CommandLines <- Arguments
  OptionSets <- Options
  MaxEntries = 2
  MaxMemory = 12
  MaxClock = 1
  MaxEdits = 1
  None = None
  p = p
  q = q
  d = d
  e = e
  broken = broken
  empty = empty
  small = small
  large = large
SPECIFICATION Spec
CHECK_DEADLOCK FALSE
INVARIANTS CacheBounded CacheHidesNothing ReportComplete ExitCodeFaithful
