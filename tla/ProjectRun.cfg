CONSTANTS
  Files <- AllProjectFiles
  SourceFiles <- Sources
  LibraryFiles <- Libraries
  ImportGraphs <- ImportChoices
  UnreadableSets <- ReadChoices
  UnparsableSets <- ParseChoices
  Findings <- FindingChoice
  ContractNames <- Names
  OptionSets <- Options
  None = None
  a = a
  b = b
  l = l
  x = x
SPECIFICATION ProjectSpec
CHECK_DEADLOCK FALSE
INVARIANTS EveryFileOnce DependenciesFirst ProjectExitFaithful DependenciesCategorized
