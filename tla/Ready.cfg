SPECIFICATION Spec
CONSTANTS
  w1 = w1
  w2 = w2
  Workers <- MCWorkers
  MainThread = main
  NoArgs = NoArgs
  nprocs = 2
  LoadOrder <- MarkFirst
  CHECK_INTERVAL = 2
  Mismatches = TRUE
  Patient = TRUE
  MaxSends = 4
  MaxCtr = 2
INVARIANTS
  ReadyAfterInit
CHECK_DEADLOCK FALSE
SYMMETRY WorkerSymmetry
