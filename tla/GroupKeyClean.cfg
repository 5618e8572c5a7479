SPECIFICATION Spec
CONSTANTS
  Keys <- MCKeys
  Positions <- MCPositions
  JunkValues <- CleanMemory
  JunkOffsets <- CleanMemory
  CAPACITY_INCREMENT = 2
  MaxPostings = 5
INVARIANTS
  GetAnswers
PROPERTY
  ImplementsIndexMap
CHECK_DEADLOCK FALSE
