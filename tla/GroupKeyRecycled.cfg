SPECIFICATION Spec
CONSTANTS
  Keys <- MCKeys
  Positions <- MCPositions
  JunkValues <- RecycledMemory
  JunkOffsets <- RecycledMemory
  CAPACITY_INCREMENT = 2
  MaxPostings = 4
INVARIANTS
  TypeOK
  KeysSorted
  GroupsPartition
PROPERTY
  NothingLost
CHECK_DEADLOCK FALSE
