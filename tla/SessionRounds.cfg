SPECIFICATION SessionSpec
CONSTANTS
  w1 = w1
  w2 = w2
  Workers <- TwoWorkers
  MainThread = main
  NoArgs = NoArgs
  nprocs = 2
  LoadOrder <- RoundFirst
  CHECK_INTERVAL = 1
  Mismatches = FALSE
  Patient = TRUE
  MaxSends = 8
  MaxCtr = 1
  Errors = FALSE
  REPETITIONS = 2
INVARIANTS SessionTypeOK RoundsAgree PrintsCurrentRound
PROPERTY IsMeasurement
CHECK_DEADLOCK FALSE
SYMMETRY WorkerSymmetry
VIEW MCView
