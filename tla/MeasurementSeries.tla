------------------------- MODULE MeasurementSeries -------------------------
(***************************************************************************)
(* What a series of measurements is worth to whoever evaluates it          *)
(* (class Series of src/bench/bench_fs.py): rows of rounds, one row per    *)
(* thread and round, that can be summed up by round.                       *)
(***************************************************************************)
EXTENDS Integers, Sequences, SequencesExt

CONSTANTS
  Threads,     \* the threads that are measured
  REPETITIONS  \* the rounds of a series

VARIABLES
  rows,    \* the measurements, in the order in which they were recorded
  status   \* "open" until the series is written out

vars == <<rows, status>>

Rounds == 1..REPETITIONS
Row == [round : Rounds, thread : Threads]
RowsOf(r) == {row \in Row : row.round = r}
CompleteBefore(r) == \A q \in 1..(r - 1) : RowsOf(q) \subseteq ToSet(rows)

Init == rows = <<>> /\ status = "open"

\* No row is recorded twice, and none before the rounds in front of its own
\* are complete.
Record(row) ==
  /\ rows' = Append(rows, row)
  /\ UNCHANGED status
  /\ status = "open"
  /\ row \notin ToSet(rows)
  /\ CompleteBefore(row.round)

\* A series that ends well lacks rows of its last round at most.
Complete ==
  /\ status = "open"
  /\ CompleteBefore(REPETITIONS)
  /\ status' = "complete"
  /\ UNCHANGED rows

Abandon ==
  /\ status = "open"
  /\ status' = "abandoned"
  /\ UNCHANGED rows

Next == (\E row \in Row : Record(row)) \/ Complete \/ Abandon

Spec == Init /\ [][Next]_vars
=============================================================================
