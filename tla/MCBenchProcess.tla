--------------------------- MODULE MCBenchProcess ---------------------------
\* BenchProcess with two workers.  The workers are interchangeable.
EXTENDS BenchProcess, TLC

CONSTANTS w1, w2
MCWorkers == {w1, w2}
MarkFirst == <<"prev_ctr", "round", "ctr">>
WorkerSymmetry == Permutations(MCWorkers)
=============================================================================
