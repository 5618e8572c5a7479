SPECIFICATION FairSession
CONSTANTS
  w1 = w1
  w2 = w2
  Workers <- OneWorker
  MainThread = main
  NoArgs = NoArgs
  nprocs = 1
  LoadOrder <- MarkFirst
  CHECK_INTERVAL = 1
  Mismatches = FALSE
  Patient = TRUE
  MaxSends = 3
  MaxCtr = 1
  Errors = FALSE
  REPETITIONS = 1
PROPERTY InitEndIsSignalled
CHECK_DEADLOCK FALSE
