SPECIFICATION FairSpec
CONSTANTS
  DEFAULT_ROWS = 1
  CommandLines <- MCCommandLines
  Nodes <- MCNodes
  CpuNodes <- MCCpuNodes
  physicalToLogicalId <- MCPhysical
  PROGRESS_PARTS = 2
  INT_VALUES = 6
  MayFail = TRUE
  NULL = NULL
INVARIANTS TypeOK ShuffleIsOneCycle RowsAreDistinct SetupTruthful CrashesAreExplained SearchesOwnReplica NeedleInRange SearchesAgree
PROPERTY HealthyStartup
CHECK_DEADLOCK FALSE
