--------------------------- MODULE MCBenchSession ---------------------------
\* BenchSession with one or two workers.  The workers are interchangeable.
EXTENDS BenchSession, TLC

CONSTANTS w1, w2
OneWorker == {w1}
TwoWorkers == {w1, w2}
RoundFirst == <<"round", "ctr", "prev_ctr">>
MarkFirst == <<"prev_ctr", "round", "ctr">>
\* Left out of the states that are compared: history variables, the number of signals,
\* which stays below its bound, and what a process that has ended leaves behind.
script == <<setup, driver, bound, kill, left, ready, out, rows>>
MCView ==
  IF Alive THEN <<process, pending, frames, pc, slots, cont, counters, script>>
  ELSE <<process, script>>
WorkerSymmetry == Permutations(TwoWorkers)
=============================================================================
