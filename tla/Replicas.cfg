SPECIFICATION Spec
CONSTANTS
  DEFAULT_ROWS = 1
  CommandLines <- MCCommandLines
  Nodes <- MCNodes
  CpuNodes <- MCCpuNodes
  physicalToLogicalId <- MCPhysical
  PROGRESS_PARTS = 2
  INT_VALUES = 6
  MayFail = TRUE
  NULL = NULL
INVARIANT SetupReplicates
CHECK_DEADLOCK FALSE
