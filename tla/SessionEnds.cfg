SPECIFICATION FairSession
CONSTANTS
  w1 = w1
  w2 = w2
  Workers <- OneWorker
  MainThread = main
  NoArgs = NoArgs
  nprocs = 1
  LoadOrder <- MarkFirst
  CHECK_INTERVAL = 2
  Mismatches = TRUE
  Patient = TRUE
  MaxSends = 7
  MaxCtr = 2
  Errors = TRUE
  REPETITIONS = 3
INVARIANTS BoundedStop NoOrphan
PROPERTIES SeriesEnds InterruptEnds
CHECK_DEADLOCK FALSE
