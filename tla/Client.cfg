SPECIFICATION ClientSpec
CONSTANTS
  DefaultLimit = 10
  Matches <- MCMatches
  Programs <- MCPrograms
  Targets = {"everyone", "none"}
  Macros <- MCMacros
  Files <- MCFiles
  Texts <- MCTexts
  MyKey = "k1"
  KnownKeys = {"k1", "k2"}
  Tables <- MCTables
  Outcomes <- MCOutcomes
  Period = 1
  Grace = 0
  MaxAttempts = 2
  PageLimit = 1
  MaxTime = 3
  MaxFaults = 1
INVARIANTS SearchIsExact
PROPERTIES LaunchWasShown  PagesMissNothing MigEnds
CHECK_DEADLOCK FALSE
