SPECIFICATION FairSpec
CONSTANTS
  w1 = w1
  w2 = w2
  Workers <- MCWorkers
  MainThread = main
  NoArgs = NoArgs
  nprocs = 2
  LoadOrder <- MarkFirst
  CHECK_INTERVAL = 1
  Mismatches = TRUE
  Patient = FALSE
  MaxSends = 2
  MaxCtr = 1
INVARIANTS
  TypeOK
  SlotOwnership
  StopReachesEveryWorker
PROPERTY
  QuitEnds
CHECK_DEADLOCK FALSE
