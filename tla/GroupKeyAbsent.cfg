SPECIFICATION Spec
CONSTANTS
  Keys <- MCKeys
  Positions <- MCPositions
  JunkValues <- RecycledMemory
  JunkOffsets <- RecycledMemory
  CAPACITY_INCREMENT = 2
  MaxPostings = 5
INVARIANTS
  AbsentIsNotFound
CHECK_DEADLOCK FALSE
