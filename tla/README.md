# presleybench: specifications, model checks and proofs

presleybench measures how fast the CPUs of a NUMA machine search an array of
integers, directly or through an index, with the index in one place or
replicated on every node.  This directory holds TLA+ modules that model the
program, the TLC configurations that check them, and theorems checked by TLAPS.
Source paths below are relative to the repository's root.

## 1. The system

| part | source | state | operations | modules |
|---|---|---|---|---|
| B+ tree | `src/simple/index/bplustree.cpp`, `.hpp` | nodes, parent pointers and indices, one doubly linked list per level, `root`, `level` | put, get, del, get_range | `BPlusNodes`, `BPlusPut`, `BPlusDelete`, `BPlusTree` |
| group-key index | `src/simple/index/groupkey.cpp` | sorted `values`, `offsets`, `postings`, capacities | prepare, put, get | `GroupKey` |
| index interface | `src/simple/index/index.cpp`, `.hpp` | table of function pointers | prepare, put, get, deinit | `IndexMap` (what it promises) |
| benchmark process | `src/simple/main.cpp` | `thread_args`, `threadCount`, installed handlers | start workers, install handlers, announce, wait; SIGUSR1, SIGUSR2, SIGINT | `BenchProcess` |
| worker loop | `src/simple/threads.cpp` | `needle`, `*ctr`, `cont` | search, count, look at `cont`, abort under `--verify` | counting and stopping in `BenchProcess`, needles and searches in `DataSetup` |
| data setup | `src/simple/data.cpp` | `data_array`, `data_index`, `primaryNode` | shuffle, truncate, build one index or one replica per node | `DataSetup` |
| option parsing | `src/simple/argparse.cpp` | `arguments` | one case per option, defaults, checks | `ArgParse`, driven by `DataSetup` |
| driver | `src/bench/bench_fs.py` | event `ready`, series, measurements | start, wait, send signals, collect rows, end or be interrupted | `BenchSession`; what a series promises is `MeasurementSeries` |
| older drivers | `src/bench/bench.py`, `bench-new.py` | as above | as above | not modelled |
| progress, assertions | `src/util/progress.*`, `assert.*` | `progress_step`, `progress_max` | macros | `progress_step` in `DataSetup` |
| unused code | `src/util/list.*`, `string.*`, `src/data/*` | | | not modelled: `Makefile.am` builds none of it |

How they interact.  `main` parses the options, fills the data array and builds
the index or the replicas, all before any worker exists.  It then makes one
slot per CPU in `thread_args`, asks PGASUS to run the worker function on every
CPU, installs three signal handlers, prints `finished setup.` and waits.  A
worker draws a thread id from an atomic counter, fills its arguments, publishes
them in its slot and searches until `cont` is 0.  The handlers read and write
the published arguments of all workers.  The driver watches the output for
`finished setup`, then sends SIGUSR2 (reset), SIGUSR1 (print) in turns and
SIGINT at the end, and parses the rows that SIGUSR1 prints.

What is hard about it, and what correctness means:

* **B+ tree.**  A delete picks the sibling to borrow from out of the list of
  its level and the separator to change out of `parent_key_idx`; lookups use
  neither.  A stale link or index shows much later, as a wrong answer.  Correct:
  lists, parents, indices and separators agree with the tree after every
  sequence of operations; nodes keep their bounds; and the tree is a map.
* **Group-key index.**  Three parallel arrays that must be shifted in step; the
  code reads the slot behind the last entry; an allocation can fail between the
  two halves of a put.  Correct: it files positions under keys like a multimap.
* **Process.**  No lock anywhere: a handler interrupts any thread at any point,
  on top of other handlers, and reads slots while workers are still filling
  them.  Correct: one slot per worker, no lost stop, a bounded reaction to it,
  rows that belong to one round, an end after SIGINT.
* **Data setup.**  With `--replicate` the builders run at once and share
  `progress_step`, which is 0 for a moment between its assignment and its
  correction, and the variable `res`; the table of replicas has an entry per
  node with CPUs and is indexed by node number.  Sizes come unchecked from the
  command line.  Correct: distinct rows, a complete index where one is wanted, no
  crash without a cause that can be named, searches that all agree.
* **Session.**  The driver learns of the process only through its output and its
  end; signals are sent into the void when it has died; rows are in the pipe while the
  driver goes on; Ctrl-C and errors may strike at any statement.  Correct: what is
  recorded can be summed up by rounds, the driver ends, and leaves no process running
  that nobody has told to end.

`PROJECT.json` lists the hazards at their lines, with the properties that
cover them, and the lines each definition models.

## 2. Modules

### IndexMap
The abstract specification of an index: a set `stored` of key and position
pairs and the return code of the last operation.  `UniqueKeys` distinguishes the
B+ tree, which refuses a second put of a key, from the group-key index, which
files any number of positions.  A put may fail for lack of memory and then
changes nothing.

### BPlusNodes, BPlusPut, BPlusDelete, BPlusTree
The tree as the code lays it out in memory.  `tree.node` maps addresses to
nodes, `tree.link` holds `prev` and `next` of every node and list head; reading
a freed node is an evaluation error.  Every function of the source that changes
the tree is an operator of the same name from trees to trees; an array is the
sequence of its valid slots, so a copy loop is `SubSeq` and `\o`.  The mutual
recursion of `parent_node_build` and `non_leaf_insert`, and that of
`non_leaf_remove`, are recursive functions that climb from the leaf to the root
(`climb`).  `assert` is the field `ok`, which turns FALSE for good.

Each of put and del is one action of `BPlusTree`, split by its result (`Put`,
`PutExisting`, `Del`, `DelAbsent`).  The tree has no lock and needs none: a
replica is built by one thread and read-only when the workers start.  get and
get_range change nothing, so they are operators that the invariants evaluate in
every reachable state.  `scan` yields the set of possible results: where get_range
(line 868) moves to the next leaf and keeps its old index, the slot it
reads may lie behind the entries.

### GroupKey
The three arrays of `groupkey_t`.  A put is one action; the allocation that
fails for `values` or `offsets` (`ValueFails`) or for `postings` (`PostingFails`,
which leaves the key behind) is another, after which `populate_data_index` gives
up.  The capacity is not a variable: an array only grows, by
`CAPACITY_INCREMENT` slots, so it is full when its length is a multiple of that.
The slots behind the last entry have never been written; what a read of one
yields is chosen from `JunkValues` and `JunkOffsets`.

### BenchProcess
`main`, the workers, the kernel and the sender of signals as processes.

| model | code |
|---|---|
| `Spawn`, `InstallNext`, `Announce`, `Goodbye` | `main.cpp` 111-174 |
| `Claim`, `Publish` | the lambda, lines 113-116 and 118-151; the stores into the worker's own arguments become visible with the slot |
| `Search`, `Check` | one turn of either loop of `threads.cpp` |
| `frames[t]` | the handlers that thread `t` is in, each with its slot and phase |
| `ReadField`, `PrintRow` | `handle_sigusr1`: `round`, `ctr` and `prev_ctr` are loaded one by one, and the row goes out with the last of them |
| `ReadRound`, `BumpRound`, `ReadCounter`, `MarkCounter` | `handle_sigusr2`: `round++` and `prev_ctr = *ctr` are a load and a store each |
| `StopWorker` | `handle_sigint` |
| `NullDereference` | any of them at an empty slot: the process ends |
| `DefaultAction`, `Deliver` | the kernel: pending signals are a set; any thread may be hit; a handler is blocked on a thread that is in it, but not on others |
| `Send` | anybody, or, with `Patient`, a sender like `bench_fs.py` that waits for the announcement and for the last handler to be through |

What a handler has loaded it keeps in its frame (`held`), while other handlers
store.  `LoadOrder` is the order of the three loads of a row: a choice of the
compiler, since C++ before C++17 leaves open in which order the operands of `<<` and of
`-` are evaluated.  Without `Patient` two handlers may overlap, so that a row may have a
negative difference, and `prev_ctr` may go back behind what another handler stored.

`stop_ctr` and `stopped` are history variables; nothing reads them but
properties.

### ArgParse
`parse_opt` as a function of the arguments and one option (`Effect`, `Refused`), and
the order in which `argp_parse` calls it (`permuted`).  A number is a number, or
text that `strtol` takes for 0, or one that does not fit.

### DataSetup
The program from its command line to the searches of a worker; `main` is its
program counter, and `fate` says how it ended otherwise (`refused`, `failed`,
`aborted` by an exception or an assertion, `divided` by zero, `overrun` of an array,
`null` index).

| model | code |
|---|---|
| `ParseOption`, `RefuseOption`, `Usage`, `ParseEnd` | `argp_parse` and `parse_opt` |
| `TooFewValues`, `UnknownNode`, `Generate`, `ShuffleNothing`, `ShuffleStep`, `Truncate` | `data_setup` and `populate_data_array`; `-p` is looked up in `physicalToLogicalId`; `i` counts down as in the code |
| `BeginProgress`, `CorrectProgress`, `DivideByZero` | `PROGRESS_BEGIN`'s two writes and the division of `PROGRESS_UPDATE` |
| `PutRow`, `PutBeyond`, `PutFails`, `PutAll` | a turn of `populate_data_index` |
| `AssignRes`, `StoreIndex`, `StoreBeyond`, `DropReplica`, `ReturnRes` | the rest of the lambda, or of the branch without `--replicate`; between the assignment to `res` and its test other builders go on, and which of the two values is tested is a choice (`Tested`) |
| `AllBuilt` | `numa::wait` over the tasks |
| `StartWorker`, `LoadBeyond`, `Search`, `SearchBeyond`, `SearchNothing` | provisioning, and `thread_func_*` with `data_index_search` and `data_linear_search` |

An index is the set of pairs that it may answer.  That the real indexes behave so is what
`ImplementsIndexMap` says of `BPlusTree` and, on clean memory, of `GroupKey`.  The
group-key index reads memory behind its last key that it has never written.  `main` has just
freed `tmp_array` when the index asks for memory, and so `recycled` is a choice
made there.  Clean memory reads as 0; recycled memory as anything, and then a put may file its
position under other keys (`Misfiled`) or run out of the arrays (`PutBeyond`), and a
get may answer anything or run out of them (`Garbled`, `SearchBeyond`).

Ints wrap at `INT_VALUES` (`Wrapped`) wherever the code turns a `size_t` into one:
`tmp_array[i] = i`, the positions that are put and answered, `int range`, `int rows` and
`progress_step`.  `int rows` is turned back for `data_linear_search`, which then finds no end if
it is negative.  `overrun` is a use of memory outside an array: what the process does after
that is not followed.

### MeasurementSeries
The abstract specification of what a series is worth: rows are recorded
once, a round after the other; a series that ends well lacks rows of its last
round at most.

### BenchSession
`BenchProcess`, the driver's script, the reading thread of the package `sh` and
the pipe between them.  `driver` is the script's program counter.

| model | code |
|---|---|
| `Start`, `Bind` | line 168: `cmd()` starts the process, and some time later `process` is bound to what it returns |
| `WaitReady`, `Reset`, `Report`, `Quit`, `Wait` | lines 169 to 178 |
| `SignalLost`, `SignalRaises` | `os.kill` for a process that has ended and is not, or is already, reaped |
| `InterruptFirst`, `Interrupt`, `Stop` | Ctrl-C before and after `process` is bound, and its handler, lines 179 to 182 |
| `InterruptAgain` | a second Ctrl-C, which nothing catches |
| `Fail`, `FailUnbound` | an error at any statement, with the process alive or not: `kill()` and `raise`, lines 183 to 186; before `process` is bound `kill()` itself fails |
| `Sigkill` | the kernel, when `kill()` has been called on a living process |
| `ReadAnnouncement`, `ReadRow` | `process_output` |
| `PipeRow` | `PrintRow` of `BenchProcess`; the row goes into the pipe |

The signals are sent with `BenchProcess`'s `Send` under `Patient`.

The FIXME at line 184 says that the process sometimes stays running when the script exits on
error.  The model shows how: `process` is not bound yet, or it is bound to the ended
process of the series before, so that `kill()` raises in its turn and the new process is told
nothing.  It then goes through its setup and searches for ever.
`NoOrphan` has this as its only exception: any other end of the script leaves a process that has
ended, or one that a SIGKILL, a SIGINT on its way or a handler of SIGINT is about
to end.

## 3. Runs

| run | bounds | checks |
|---|---|---|
| `bplus_leaves` | leaves of 2 and 3 entries below nodes of order 3 and 4, keys 1..7 with positions from 0 on in any sequence of puts and deletes | `TypeOK`, `LevelListsMatchLayers`, `ParentsExact`, `SeparatorsRoute`, `Occupancy`, `NoAssertFails`, `GetAnswers`, `RangeFromPresentKey`, and `ImplementsIndexMap` (refinement of `IndexMap`) |
| `bplus_deep` | leaves of one entry, orders 3 to 6, keys 1..8 | `LevelListsMatchLayers`, `ParentsExact`, `SeparatorsRoute`, `NoAssertFails` |
| `groupkey_clean` | 3 keys, 3 positions, 5 puts with repetitions, arrays that grow by 2, unwritten slots read as 0 | `GetAnswers`, `ImplementsIndexMap` |
| `groupkey_recycled` | 4 puts, unwritten slots read as 0..3 | `TypeOK`, `KeysSorted`, `GroupsPartition`, `NothingLost` |
| `groupkey_absent` | as before | violates `AbsentIsNotFound` |
| `signals_any` | 2 workers that may abort, 2 signals at any time, interval 1 | `TypeOK`, `SlotOwnership`, `StopReachesEveryWorker`, `QuitEnds` |
| `ready_violation` | 2 workers, 4 signals as the driver sends them | violates `ReadyAfterInit` |
| `startup` | 76 command lines, machines with CPUs on node 0, on 0 and 1, on 0 and 2 of three nodes, ints of 6 values, a terminal or none, memory that is clean or recycled and may run out | `TypeOK`, `ShuffleIsOneCycle`, `RowsAreDistinct`, `SetupTruthful`, `CrashesAreExplained`, `SearchesOwnReplica`, `NeedleInRange`, `SearchesAgree`, `HealthyStartup` |
| `replicas` | as before | violates `SetupReplicates` |
| `session_rounds` | driver, 2 workers, 2 rounds, Ctrl-C at any time | `SessionTypeOK`, `RoundsAgree`, `PrintsCurrentRound`, `IsMeasurement` (refinement of `MeasurementSeries`) |
| `session_ends` | driver, 1 worker that may abort, interval 2, 3 rounds, Ctrl-C at any time, once or twice, an error at any statement | `BoundedStop`, `NoOrphan`, `SeriesEnds`, `InterruptEnds` |
| `init_end` | driver, 1 worker, 1 round | violates `InitEndIsSignalled` |

Why these bounds are enough.

* *Tree.*  Capacities, not keys, decide which routine runs.  Leaves of 2 and 3
  entries have an odd and an even capacity; with leaves of one entry, 8 keys
  make trees of up to four levels in which every split (left, exactly at the
  middle, right of it), both shifts and both merges of inner nodes, and
  the loss of the root occur, for odd and even orders.  There is no bound on the
  length of a sequence of operations: the state space is finite and is explored
  completely.  The program itself uses order and entries 64.  `MaxLevel` is 5
  instead of 10.  None of these bounds limits what section 4 proves of the tree.  The runs identify states that differ in addresses only
  (`MCView`): no operation compares addresses or depends on
  which one is handed out, and the identification is only made for states in
  which lists and parents are as they should be, so that the contents of the
  nodes determine the whole state.
* *Group key.*  Three keys suffice for an insertion before, between and behind
  others, and three positions for groups of several postings; both arrays grow
  more than once.
* *Process.*  Two workers and the main thread give three threads that may run
  handlers, and two slots, so that a handler can be between slots.  Two signals
  are enough for the same handler on two threads, for one handler on top of
  another, and for a stop amid a report.  `CHECK_INTERVAL` is 1 instead of 0x10000
  in `signals_any` and `session_rounds`.  How far a stopped worker runs on is a matter of that worker alone:
  `BoundedStop` is checked in `session_ends`, with one worker, an interval of 2 and a worker that
  searches up to its first look at `cont` and beyond.
  `LoadOrder` is `round` first in `session_rounds` and `prev_ctr` first elsewhere; the theorems are
  about every order.
  `MaxCtr` limits the searches of a worker nobody has stopped; one that has been
  told to stop goes on until it notices.  The invariants that matter most are
  proved without any of these bounds.  `ready_violation` and `session_rounds` treat the workers as
  interchangeable (SYMMETRY); runs with a liveness property do not.
* *Setup.*  `DEFAULT_ROWS` is 1 instead of 100000000 (`argparse.cpp:10`), and with rows up to 4
  and sparsities up to 7/2 the array has up to 7 values, enough for a permutation that is no
  cycle and for shuffles of several steps.  `PROGRESS_PARTS` is 2 instead of 1000, and sizes
  lie on both sides of it.  `INT_VALUES` is 6 instead of 2^32, so that an int is one of -3 to 2:
  the sum of two needles overflows in some runs and not in others; 3 rows are one more than
  an int can hold and 4 rows have a position that is none; 4 values make one of them negative, 6
  make the range 0 and 7 repeat one.  `MCPhysical` has physical ids with a gap, 0, 2 and 3 for
  the nodes 0, 1 and 2.  The three machines are a single node, two nodes that both have
  CPUs, and a memory-only node in between.
* *Session.*  Two rounds show rows of a round against those of the next, with both
  orders of the workers; three rounds with one worker let it die between any two.
  `MaxSends` is large enough that it never holds a signal back (`RepetitionsAssumption`).
  `session_rounds` identifies states (`MCView`) that differ in history variables, in the number of
  signals sent, or in what a process that has ended leaves behind: none of these has a
  part in a later step or in the properties of that run, apart from their types.

`CHECK_DEADLOCK FALSE`: process and script end, and after an end nothing happens; a
group-key index at its last put, or after a failed one, takes no further put.

Fairness (`FairSpec`): the operating system runs every thread that can run
and delivers pending signals.  Weak fairness is per thread, which is in a handler or in its own
code, so nothing is assumed about who wins a race.  Nobody has to
send a signal, and no answer has to be wrong.  `DataSetup` assumes that `main` and
each builder's task run on, `BenchSession` moreover that the setup comes to an end,
and that the script and the reading thread run on.  Memory need not run out,
nobody need press Ctrl-C and no error need occur.

What the runs show.

* The tree implements the unique-key map, with its replies; get answers correctly
  for every key in every reachable state.  `RangeFromPresentKey` says for which
  ranges get_range is right: those that start at a stored key and end before the
  last leaf does.  Beyond that the code answers -1 or from a stale slot;
  nothing in the program calls it.
* `Occupancy` bounds inner nodes by `order \div 2`, not by half rounded up: for
  odd orders from 5 on, `non_leaf_split_right2` leaves the new node one child short of
  that.  The program's order is even.
* The group-key index is a multimap as long as unwritten memory reads as zero.
  In general a lookup of a key greater than all others may be answered with a
  position (`groupkey_absent`), and an insertion may file its position in a wrong
  group or crash; but no key or position is ever lost, and the keys stay sorted.
* `finished setup.` does not mean that the workers are ready (`ready_violation`):
  five steps of `main` lead to the announcement with every slot empty.  A SIGUSR1 handled then
  dereferences NULL.  The driver sleeps for a second first.
* Signals that are not spaced out can leave workers in different rounds and
  print a row whose round and counters do not belong together: `RoundsAgree` and
  `PrintsCurrentRound` hold for the driver's way of sending only.
* The shuffle that announces itself as Fisher-Yates is Sattolo's: it yields single cycles
  only (`ShuffleIsOneCycle`), so no value ever stays at its place.  The rows are distinct
  all the same, and the B+ tree never refuses one.
* `CrashesAreExplained` lists what takes the program down before its first search:
  `-r 0`, or `-r` with a text, underflows the shuffle's counter; `-p` is not
  checked; replicas of fewer than 1000 rows that are built with a terminal attached may
  divide by a step of 0 that another builder has not corrected yet; a
  memory-only node below one with CPUs makes the table of replicas too short; a
  group-key index in recycled memory may leave its arrays at a put; a multiple of 2^32 values
  makes a worker divide by 0.  And it lists what takes it down later: a linear search for
  a value that is not there among 2^31 rows or more, `--verify` with a position that is no
  int, a group-key index in recycled memory or after a failed put, and the NULL index of a replica
  that could not be built.
  For sensible options on a machine without memory-only nodes the setup always gets to
  the searches (`HealthyStartup`), unless memory runs out or the group-key index gets
  recycled memory.
* `SearchesAgree` says under which conditions every search finds what is in the array: the
  linear one as long as the number of rows is an int, an index as long as every position is, its
  builder was successful, and for the group-key index memory is clean and no value negative.
* A replica that could not be built is dropped in silence (`replicas`): its node's workers
  search a NULL index, or an incomplete one if another builder's success has
  overwritten `res`.
* A setup that fails leaves the driver waiting for ever (`init_end`); from
  the announcement on it always ends, and an interrupted script always does.  In both cases the
  process ends too, unless an error comes before it is bound (`NoOrphan`, `SeriesEnds`).
* Of a series that ends without an exception only the last report may lack rows, since
  SIGINT follows the last SIGUSR1 at once (`IsMeasurement`).  That run has no
  mismatches: under `--verify` all workers may abort in any round, the process
  then returns 0, and as long as it is not reaped the remaining signals go nowhere
  without an error, so that a series can end well with rounds missing.

## 4. Proofs

`BenchProcessProofs` holds theorems about `BenchProcess` for any number of slots, any
number of workers up to that, any `CHECK_INTERVAL`, any number of signals and any
sender.  They rest on `WorkersAssumption` (no more workers than slots; the main
thread and NULL are not workers) and `NumbersAssumption`.

| theorem | says | inductive invariant |
|---|---|---|
| `TypeCorrect` | `[]TypeOK` | `TypeOK /\ OwnInv`; `threadCount` stays within the slots only because it counts the workers that have an id (`CountInv`) |
| `SlotsAreOwned` | `[]SlotOwnership` | `OwnInv`: ids are below the counter and distinct, a slot holds its own provisioned worker, every provisioned worker is in its slot |
| `StopsReachEveryWorker` | `[]StopReachesEveryWorker` | `StopInv`: a running SIGINT handler has told every slot behind it, one that returned has told all of them |
| `StopsAreBounded` | `[]BoundedStop` | `BoundInv`: a stopped worker's counter does not pass the next multiple of the interval, and is below it while the worker is about to search |

The crucial step of the second argument is `PublishesEmptySlot`: provisioning sets
`cont` to 1 without synchronisation, but in a slot that is still empty, which
no handler can have passed, since a handler at an empty slot crashes.  So a
handler that returns has met every worker after its last unconditional write to
`cont`.  `AllToldAllStopped` turns "all slots" into "all workers": if every slot is
taken there are as many ids as slots, hence all workers have one.

The last part of the module proves what the rows of a report are worth, for a sender that
waits (`Patient`); without it the two properties are false.

| theorem | says | inductive invariant |
|---|---|---|
| `RowsOfOneRound` | `[]RoundsAgree` | `RoundInv`: at most one reset or report is under way (`AloneInv`); a reset is halfway, with the workers of the slots behind it one round ahead of the others (`Halfway`); no handler has gone through an empty slot (`Reached`); a worker that is not published has round 0 |
| `RowsOfTheirRound` | `[]PrintsCurrentRound` | the same, with `MarkInv`: a counter never falls behind its mark |

Publishing sets `round` to 0, but in a slot that no reset under way has
reached, of a worker whose round is still 0: the same fact about empty slots that saves a stop.
A reset that returns has gone through all slots, so that by `FullTable` it has raised
the round of every worker.

`BenchSessionProofs` proves the safety properties of the session
for any number of workers, slots and rounds, on `RepetitionsAssumption` (at least
one round, and signals enough for all) besides.  Every step of a session is a step of
`BenchProcess`, or one SIGINT more, or a setup that fails (`SessionStep`), so that the
process's invariants carry over.

| theorem | says | inductive invariant |
|---|---|---|
| `SessionTypeCorrect` | `[]SessionTypeOK` | `SessionInv`: with `OwnInv` and `LeftInv`, a round is left as long as one is asked for |
| `SessionRounds` | `[](RoundsAgree /\ PrintsCurrentRound)`, if `Patient` | with `RoundInv` and `MarkInv` |
| `NothingLeftRunning` | `[]NoOrphan`, with errors and Ctrl-C at any moment | `OrphanInv`: at its first statement the script has neither bound the process nor been interrupted, and a script that has ended otherwise leaves one that is told to end or has ended; what is told stays told until it has ended (`EndStays`, `DeadStays`) |
| `SessionImplementsSeries` | `SessionSpec => IsMeasurement`, if `Patient`, `~Mismatches` and there are workers | `MeasureInv` |

The refinement needs the numbers that no variable holds.  `Counts(a, b)` says that the
script has asked for `a` resets and `b` reports, with `a` as its next step tells; that
every round is `a`, or on its way from `a - 1` to `a`; and that what has been
printed, read or not (`log`), is the rows of rounds 1 to `b`, the last ones up to the
slot that the report has reached.  `LogInv` says that `log` is a measurement so far.
Two more invariants are needed for a series that ends well: nobody is stopped before the
script's own SIGINT (`StopCause`, false under `--verify`, where workers stop by
themselves), and `main` returns only when all workers have (`ExitInv`).  So a process
that takes no signal has been killed, and prints nothing any more.

`DataSetupProofs` proves every safety invariant of `DataSetup` for
any command lines, machines, sizes, width of int and results of `rand()`.  They rest
on the assumptions that `ArgParse` and `DataSetup` declare: node numbers without
gaps, at least one node with CPUs, an even number of ints.  What `%` yields is in the lemmas
`WrappedType` and `WrappedInjective`.

| theorem | says | inductive invariant |
|---|---|---|
| `RowsDistinct` | `[]RowsAreDistinct`: rows are values as ints, and different unless there are more values than ints | `ArrayInv`: the array is a permutation of the values while it is shuffled |
| `ShuffleCyclic` | `[]ShuffleIsOneCycle`, if every value is an int | `CycleInv`: every cycle has a position at or below `i`, and no two such positions share one; a swap with an earlier position joins two cycles |
| `TypeCorrect` | `[]TypeOK` | `BuilderInv` and `WorkerInv` |
| `SetupIsTruthful` | `[]SetupTruthful` | `BuilderInv`: a builder holds exactly the rows below its own if its index is `Trusted`, has put all of them if its result is 0, and has stored only what it built itself; without `--replicate` `res` is its own result. |
| `CrashesExplained`, `OwnReplica` | `[]CrashesAreExplained`, `[]SearchesOwnReplica` | the same; a step of 0 means a second builder and too few rows |
| `NeedlesAreValues`, `AllSearchesAgree` | `[]NeedleInRange`, `[]SearchesAgree` with the conditions of `Reliable` | `WorkerInv`: the worker's index is one that `BuilderInv` speaks of |

The layers build on each other: a put that files its pair, as it does in an index that is
`Trusted`, makes the index complete; and a complete index answers with a position that
holds the needle, as the linear search does.

`GroupKeyProofs` proves the safety properties of the group-key index, for any keys,
positions, capacity and number of puts, and whatever unwritten memory holds.  It rests on the
assumptions of `GroupKey`: keys are integers, arrays grow by at least one slot.

| theorem | says | inductive invariant |
|---|---|---|
| `TypeCorrect`, `KeysAreSorted`, `GroupsArePartition` | `[]TypeOK`, `[]KeysSorted`, `[]GroupsPartition` | `ArraysInv`: values and offsets are parallel, the values are sorted, the offsets ascend from 0 and stay within the postings, and strictly so before a put has failed |
| `NothingIsLost` | `[][NothingLost]_vars` | the same |
| `GetAnswersRight`, `AbsentKeysNotFound` | `[]GetAnswers`, and -1 for a key without a position, if `KeysAboveJunk` | the same |
| `ImplementsMap` | `ImplementsIndexMap`, if `KeysAboveJunk` and `OffsetsCleared` | the same, and what is stored is the postings of the groups |

`KeysAboveJunk` says that no key is below what an unwritten value may read as, `OffsetsCleared`
that an unwritten offset reads as 0.  Values of the data array are 0 or more and memory fresh
from the kernel is zero, so that both hold as long as `realloc` does not hand out memory
that has been used before; `groupkey_absent` shows what happens where it does.

The B+ tree is proved right for any order above 2, any capacity, any keys and positions and
any number of levels, on `BPlusAssumption`, in four modules that build on each other:
`BPlusTreeProofs` (trees, loops and splits), `BPlusPutProofs` (puts), `BPlusDeleteProofs`
(deletes) and `BPlusTheorems`.

`BPlusPutProofs` ends with theorems about `BuildSpec`, the puts of `Spec`: the table that
`index_prepare` fills in offers put and get, and nothing in the repository calls
`bplus_tree_del`.  They have no hypothesis on the
number of levels, because puts write to the level lists only and never read them; but what the write
to a list behind the array would overwrite in the program is not in the model.

| theorem | says |
|---|---|
| `ParentsRight` | `[]ParentsExact` |
| `SeparatorsRight` | `[]SeparatorsRoute` |
| `NodesFilled` | `[]Occupancy` |
| `AssertsHold` | `[]NoAssertFails` |
| `GetsRight` | `[]GetAnswers` |
| `TypeCorrect` | `[](tree.level < MaxLevel => TypeOK)`: nothing in the code keeps a tree from outgrowing its array of lists |
| `TreeImplementsMap` | `BuildSpec => ImplementsIndexMap` |

The inductive invariant is `BuiltInv`: the tree is empty (`Bare`), or there are a height `h[n]`
and a range of keys `R[n]` for every node such that `TreeInv` holds: nodes are well formed
with sorted keys, children are one lower than their parent, the separators divide the range of
a node among its children, the keys of a leaf are in its range, and parent and
`parent_key_idx` are right.  `Sound` adds the capacities and that no assertion has failed.
None of the properties is inductive by itself: that a key goes to the right leaf needs the ranges,
that ranges survive a split needs the parents, and the parents' indices need the heights, or
a node could be its own ancestor.

A split leaves something that is no tree: the node is halved, and its parent does not know
the new half.  `Pend` says what is true then: were the pair put into the parent as it is
(`non_leaf_simple_insert`, whether or not there is room) the result would satisfy
`TreeInv`.  So a full parent that is split by one of the three routines is a node of a (virtual) tree divided
in two, which is the same lemma (`SplitKeeps`) for all three and for both routines of the
leaves, with different places to cut.  The arrays that each of them copies together are
shown to be those two parts (`CutOpen`, `CutOpenPair`, `CutBehind` and their like), the loops that
re-parent children to change nothing else.

The climb and the searches are recursive functions of the model.  tlapm does not know that such a
function exists; `WalkExists` proves it for every loop whose steps go down in a rank, from
approximations up to a number and the least number that would have none (`LeastNumber`,
from the well-foundedness of `<` on the naturals).  A property of what such a loop computes is
proved in the same way, by the least height at which it would fail: `ClimbEnds`,
`Below`, and the fact that get ends in the leaf whose range holds the key.

`BPlusTheorems` holds the theorems about `Spec`, puts and deletes in any order, in the form
`Spec /\ []Fitting => ...`.

| theorem | says |
|---|---|
| `AlwaysTree` | `[]BuiltInv`: the inductive invariant, below |
| `ParentsStayRight`, `SeparatorsStayRight`, `NodesStayFilled`, `AssertsAlwaysHold` | `[]ParentsExact`, `[]SeparatorsRoute`, `[]Occupancy`, `[]NoAssertFails` |
| `GetsStayRight`, `RangesStayRight` | `[]GetAnswers`, `[]RangeFromPresentKey` |
| `LevelListsStayRight` | `[]LevelListsMatchLayers` |
| `TypeStaysCorrect` | `[]TypeOK`, whose bound on levels is the hypothesis itself |
| `TreeStaysMap` | `ImplementsIndexMap` |
| `FewKeysFit` | `Spec => []Fitting` and the invariant, if `FewKeys` |
| `FewKeysMap` | `Spec => ImplementsIndexMap`, if `FewKeys` |

The last two have no such hypothesis.  `Fitting` says that the tree has fewer levels than lists.
The code never compares `tree->level` with `BPLUS_MAX_LEVEL`, and a level without a list
breaks deletes, which find siblings there.  `FewKeysFit` says when the hypothesis is none: with fewer than
2^`MaxLevel` distinct keys the tree cannot grow that high, because every inner node has two
children at least (`HighTree`) and no leaf is empty, so that with `tree->level` at `l` there are 2^`l`
leaves with different first keys.  For the program's order the levels suffice for far more
keys, since a node there has 32 children at least; a bound that sharp would need exponents
of `order \div 2`, and the theorem does not claim it.

What a delete needs beyond a put is the lists.  `Listed` is part of `BuiltInv` as long as there
are lists enough: links lead back and forth (`Ring`), child follows child, and where a
node follows another, its first child follows the other's last (`Strung`), and the root
is alone in the topmost list (`Crowned`).  From that `LeftSibling` and `RightSibling` derive what the
code takes for granted: the neighbour in the list that a node below the root is levelled out or
merged with is a child of the same parent, on the other side of the separator that
`parent_key_idx` names.

As a split leaves a pair to be put, a merge leaves a separator and a child to be removed.
`Left` (for the parent that gets them removed, `Gap`) says what is true meanwhile: the tree
with the pair taken out satisfies `TreeInv`, whether or not the parent is then too empty
(`Lacking`).  Each of the eight routines is one of two lemmas: a merge joins two neighbours,
in either direction; a shift is a merge followed by a split at another place (`Shift`),
so that the lemmas about splits serve again.  The arrays that the code moves with its loops are
shown to be those joins and cuts.  The climb of `non_leaf_remove` ends (`RetreatExists`,
`RetreatEnds`) because after a merge what is left to be removed is one level higher
(`Lowering`); at the top the root loses a level, or the tree its last leaf, and
nothing is left (`Settled`).  `DeleteKeeps` puts these together.

`LevelListsMatchLayers` states the lists by way of `layers`, which flattens the children of a
level; `LayeredRows` shows that this sequence is the one along the list, by going down
from the root, and `Chained` and `Circle` turn it into the two links of each node.
`RangesStayRight` follows the loop of get_range: its rank is the distance from the current key
to the greatest one, and what the loop answers (`LoopAnswers`) is shown by the least rank at
which it would answer something else.  That keys ascend from a leaf to the next one is the order
in which the list is strung.

Only model-checked: liveness under fairness, which the prover cannot reach (`QuitEnds`,
`HealthyStartup`, `SeriesEnds`, `InterruptEnds`).  Every safety invariant and every action
property that a run checks is stated by a theorem, and so is every refinement.  The
theorems with a hypothesis are `AbsentKeysNotFound` and those that the tables mark.

## 5. Not modelled

* Text output: streams, buffers and whether a handler's row is torn by another
  message.
* Memory ordering below the level of C++ statements: `Publish` makes the arguments and
  the slot visible together.
* Negative numbers for `-r` and `-s`, which the code converts to unsigned ones.
* The progress display itself, `DEBUG` output, and the pinning of threads.
* The order between the process's two output streams, which `sh` reads separately.
* What the process does after it has used memory outside an array, and the message of a failed
  verification, which reads `data_array[match - 1]`.
* The sequence of series and the files of an experiment (`bench_fs.py`): every series starts a
  new process, so that a series is the unit of behaviour.
* `bplus_tree_dump` (prints), `bplus_tree_deinit` (empty), `index_destroy` (no caller).
* PGASUS and libnuma: `forEachThread` queues its tasks and returns; there are no
  more CPUs with workers than `get_nprocs()` reports.

## 6. Plan

1. Done: `IndexMap`, the B+ tree, `GroupKey`, `BenchProcess` and its proofs.
2. Done: `ArgParse`, `DataSetup` and its proofs.
3. Done: `MeasurementSeries`, `BenchSession` and the proofs of both.
4. Done: proofs of `GroupKey`, and of the B+ tree under puts.
5. Done: proofs of the B+ tree under deletes, of its level lists and of get_range.

Left for whoever continues: a sharper bound than that of `FewKeysFit`, and get_range beyond
`RangeFromPresentKey`, where the code itself does not say what it should answer.
