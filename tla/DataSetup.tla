----------------------------- MODULE DataSetup -----------------------------
(***************************************************************************)
(* The benchmark from its command line to the first searches: main() up to *)
(* the start of the workers (src/simple/main.cpp), data_setup and what it  *)
(* calls (src/simple/data.cpp), the progress macros (src/util/progress.hpp)*)
(* and the search loop of one worker (src/simple/threads.cpp).             *)
(*                                                                         *)
(* Up to the indexes a single thread is at work.  With --replicate every   *)
(* node that has CPUs builds an index of its own, all at once; the         *)
(* builders share progress_step and the variable res of data_setup.  The   *)
(* workers share nothing that they write, so one of them stands for all.   *)
(*                                                                         *)
(* An index is the set of the pairs of a key and a position that it may    *)
(* answer: that the real ones behave like that is the subject of BPlusTree *)
(* and GroupKey.  The latter shows that the group-key index reads memory   *)
(* behind its last key that it has never written; here that memory is      *)
(* either clean, all zero, or recycled, with anything in it.               *)
(*                                                                         *)
(* The process is followed until it uses memory outside an array: what it  *)
(* does after that, the fate "overrun", is anybody's guess.                *)
(***************************************************************************)
EXTENDS ArgParse, FiniteSets

CONSTANTS
  CommandLines,    \* what the program is called with
  Nodes,           \* logical ids of the NUMA nodes
  CpuNodes,        \* the sets of nodes that may have CPUs: the machines
  physicalToLogicalId,  \* the logical ids of the physical ids that exist
  PROGRESS_PARTS,  \* steps of the progress display, 1000 in the source
  INT_VALUES,      \* how many values an int has
  MayFail,         \* TRUE: memory may run out
  NULL

ASSUME NodesAssumption ==
  /\ IsFiniteSet(Nodes) /\ Nodes \subseteq Nat
  /\ \A n \in Nodes : 0..n \subseteq Nodes
  /\ CpuNodes \subseteq SUBSET Nodes
  /\ \A cpus \in CpuNodes : cpus # {}
  /\ DOMAIN physicalToLogicalId \subseteq Nat
  /\ \A id \in DOMAIN physicalToLogicalId : physicalToLogicalId[id] \in Nodes
ASSUME SizesAssumption ==
  /\ PROGRESS_PARTS \in Nat \ {0}
  /\ \E half \in 2..INT_VALUES : INT_VALUES = 2 * half
ASSUME CommandLinesAssumption == CommandLines \subseteq CommandLine
ASSUME MayFailAssumption == MayFail \in BOOLEAN
ASSUME NullAssumption ==
  NULL \notin Nodes \cup [by : Nodes, pairs : SUBSET (Int \X Int)]

\* ints wrap around, and % takes the sign of the dividend.
INT_MAX == INT_VALUES \div 2 - 1
Ints == (-(INT_VALUES \div 2))..INT_MAX
Wrapped(x) == ((x + INT_VALUES \div 2) % INT_VALUES) - INT_VALUES \div 2
Magnitude(b) == IF b < 0 THEN -b ELSE b
Remainder(a, b) == IF a >= 0 THEN a % Magnitude(b) ELSE -((-a) % Magnitude(b))

VARIABLES
  cpus,           \* the nodes with CPUs
  tty,            \* stderr is a terminal
  unparsed,       \* the options still to be parsed
  arguments,      \* the global of that name
  main,           \* what main() does next
  fate,           \* "running", or how the process has ended
  primaryNode,    \* the global of that name, NULL before it is set
  tmp_array, i,   \* locals of populate_data_array
  data_array,     \* the array to be searched
  recycled,       \* new memory is what tmp_array was, not fresh from the system
  progress_step,  \* the global of that name
  res,            \* the local of data_setup, captured by the builders
  builder,        \* a builder: what it does next, its index, its own result
  data_index,     \* the table of indexes
  worker          \* a worker: node, index, needle, step, last match

environment == <<cpus, tty>>
shuffling == <<primaryNode, tmp_array, i, data_array, recycled>>
building == <<res, builder, data_index>>
vars == <<environment, unparsed, arguments, main, fate, shuffling,
          progress_step, building, worker>>

\* data_rows, and data_range as main() computes it; the values as ints.
data_rows == arguments.rows
data_range == (arguments.rows * arguments.sparsity) \div 2
Values == {Wrapped(k) : k \in 0..(data_range - 1)}

Running(pc) == fate = "running" /\ main = pc
Ends(how) ==
  /\ fate' = how
  /\ UNCHANGED <<environment, unparsed, arguments, main, shuffling,
                 progress_step, building, worker>>

Builders == IF arguments.replicate THEN cpus ELSE {primaryNode}

\* data_index has an entry per node with CPUs, and is indexed by logical id.
Slots == 0..(Cardinality(cpus) - 1)

\* The pairs that an index of the first n rows holds.
Pairs(n) == {<<data_array[k], Wrapped(k)>> : k \in 0..(n - 1)}
Complete(index) == index # NULL /\ index.pairs = Pairs(data_rows)

Init ==
  /\ cpus \in CpuNodes
  /\ tty \in BOOLEAN
  /\ \E argv \in CommandLines : unparsed = permuted(argv)
  /\ arguments = defaults
  /\ main = "parse"
  /\ fate = "running"
  /\ primaryNode = NULL
  /\ tmp_array = <<>>
  /\ i = 0
  /\ data_array = <<>>
  /\ recycled = FALSE
  /\ progress_step = 0
  /\ res = 0
  /\ builder = [n \in Nodes |-> [pc |-> "begin", row |-> 0, pairs |-> {}, own |-> 0]]
  /\ data_index = <<>>
  /\ worker = NULL

-----------------------------------------------------------------------------
\* argp_parse calls parse_opt for one option after the other; main() returns
\* its error, and argp_usage ends the process.
ParseOption ==
  /\ Running("parse") /\ unparsed # <<>>
  /\ Head(unparsed).key # "positional" /\ ~Refused(Head(unparsed))
  /\ arguments' = Effect(arguments, Head(unparsed))
  /\ unparsed' = Tail(unparsed)
  /\ UNCHANGED <<environment, main, fate, shuffling, progress_step, building, worker>>

RefuseOption ==
  /\ Running("parse") /\ unparsed # <<>>
  /\ Head(unparsed).key # "positional" /\ Refused(Head(unparsed))
  /\ Ends("refused")

Usage ==
  /\ Running("parse") /\ unparsed # <<>>
  /\ Head(unparsed).key = "positional"
  /\ Ends("refused")

ParseEnd ==
  /\ Running("parse") /\ unparsed = <<>>
  /\ main' = "generate"
  /\ UNCHANGED <<environment, unparsed, arguments, fate, shuffling,
                 progress_step, building, worker>>

-----------------------------------------------------------------------------
\* PROGRESS_BEGIN where only one thread runs.
Part(r) == Wrapped(r \div PROGRESS_PARTS)
ProgressStep(r) == IF Part(r) <= 0 THEN 1 ELSE Part(r)

\* data_setup wants no more rows than there are values.
TooFewValues ==
  /\ Running("generate") /\ data_rows > data_range
  /\ Ends("failed")

\* -p is the physical id of the first node, looked up in a table; without it
\* the first node is the one that main() runs on.
KnownNode == arguments.primary_node \in DOMAIN physicalToLogicalId \cup {-1}
UnknownNode ==
  /\ Running("generate") /\ data_rows <= data_range
  /\ ~KnownNode
  /\ Ends("overrun")

\* Wrong on purpose: -p is taken for a logical id.
Generate_logical ==
  /\ Running("generate") /\ data_rows <= data_range
  /\ KnownNode
  /\ primaryNode' \in IF arguments.primary_node = -1 THEN cpus ELSE {arguments.primary_node}
  /\ tmp_array' = [k \in 0..(data_range - 1) |-> Wrapped(k)]
  /\ i' = data_range - 1
  /\ progress_step' = ProgressStep(data_range)
  /\ main' = "shuffle"
  /\ UNCHANGED <<environment, unparsed, arguments, fate, data_array, recycled, building, worker>>

\* populate_data_array up to the shuffle: the sorted array of all values, as
\* ints, which are negative from INT_MAX + 1 on and repeat from INT_VALUES on.
Generate ==
  /\ Running("generate") /\ data_rows <= data_range
  /\ KnownNode
  /\ primaryNode' \in IF arguments.primary_node = -1 THEN cpus
                      ELSE {physicalToLogicalId[arguments.primary_node]}
  /\ tmp_array' = [k \in 0..(data_range - 1) |-> Wrapped(k)]
  /\ i' = data_range - 1
  /\ progress_step' = ProgressStep(data_range)
  /\ main' = "shuffle"
  /\ UNCHANGED <<environment, unparsed, arguments, fate, data_array, recycled, building, worker>>

\* data_range - 1 is the greatest size_t when there are no values.
ShuffleNothing ==
  /\ Running("shuffle") /\ data_range = 0
  /\ Ends("overrun")

Swapped(a, k, j) == [a EXCEPT ![k] = a[j], ![j] = a[k]]

\* Wrong on purpose: an element may stay in its place (Fisher-Yates); the
\* element is copied and not swapped.
ShuffleStep_in_place ==
  /\ Running("shuffle") /\ i > 0
  /\ \E j \in 0..i : tmp_array' = Swapped(tmp_array, i, j)
  /\ i' = i - 1
  /\ UNCHANGED <<environment, unparsed, arguments, main, fate, primaryNode,
                 data_array, recycled, progress_step, building, worker>>
ShuffleStep_copy ==
  /\ Running("shuffle") /\ i > 0
  /\ \E j \in 0..(i - 1) : tmp_array' = [tmp_array EXCEPT ![j] = tmp_array[i]]
  /\ i' = i - 1
  /\ UNCHANGED <<environment, unparsed, arguments, main, fate, primaryNode,
                 data_array, recycled, progress_step, building, worker>>

\* rand() % i picks an element before the i-th, and none beyond RAND_MAX.
ShuffleStep ==
  /\ Running("shuffle") /\ i > 0
  /\ \E j \in 0..(i - 1) : j <= INT_MAX /\ tmp_array' = Swapped(tmp_array, i, j)
  /\ i' = i - 1
  /\ UNCHANGED <<environment, unparsed, arguments, main, fate, primaryNode,
                 data_array, recycled, progress_step, building, worker>>

\* The first rows are kept, and the memory of tmp_array may be used again;
\* data_index gets its entries if an index is wanted.
Truncate ==
  /\ Running("shuffle") /\ i = 0
  /\ data_array' = [k \in 0..(data_rows - 1) |-> tmp_array[k]]
  /\ tmp_array' = <<>>
  /\ recycled' \in BOOLEAN
  /\ progress_step' = ProgressStep(data_rows)
  /\ data_index' = IF arguments.index_search THEN [s \in Slots |-> NULL] ELSE <<>>
  /\ main' = IF arguments.index_search THEN "build" ELSE "start"
  /\ UNCHANGED <<environment, unparsed, arguments, fate, primaryNode, i, res, builder, worker>>

\* new throws where the code expects NULL.
BadAlloc ==
  /\ MayFail
  /\ fate = "running" /\ main \in {"generate", "shuffle", "build", "start"}
  /\ Ends("aborted")

-----------------------------------------------------------------------------
\* A builder: the body of the lambda, or of the branch without --replicate.
Building(n, pc) == Running("build") /\ n \in Builders /\ builder[n].pc = pc

\* PROGRESS_BEGIN: the step is set, and then corrected if it is 0.
BeginProgress(n) ==
  /\ Building(n, "begin")
  /\ progress_step' = Part(data_rows)
  /\ builder' = [builder EXCEPT ![n].pc = "correct"]
  /\ UNCHANGED <<environment, unparsed, arguments, main, fate, shuffling,
                 res, data_index, worker>>

\* Wrong on purpose: not corrected.
CorrectProgress_not(n) ==
  /\ Building(n, "correct")
  /\ builder' = [builder EXCEPT ![n].pc = "put"]
  /\ UNCHANGED <<environment, unparsed, arguments, main, fate, shuffling,
                 progress_step, res, data_index, worker>>
CorrectProgress(n) ==
  /\ Building(n, "correct")
  /\ progress_step' = IF progress_step <= 0 THEN 1 ELSE progress_step
  /\ builder' = [builder EXCEPT ![n].pc = "put"]
  /\ UNCHANGED <<environment, unparsed, arguments, main, fate, shuffling,
                 res, data_index, worker>>

\* PROGRESS_UPDATE divides by the step, on a terminal only.
DivideByZero(n) ==
  /\ Building(n, "put") /\ builder[n].row < data_rows
  /\ tty /\ progress_step = 0
  /\ Ends("divided")

\* The next row can be put: nothing has gone wrong in front of the call.
Putting(n) ==
  /\ Building(n, "put") /\ builder[n].row < data_rows
  /\ tty => progress_step # 0

\* The B+ tree answers -1 to a key that it has.
Refuses(b) == /\ arguments.index_type = "bplus"
              /\ \E p \in b.pairs : p[1] = data_array[b.row]

\* A group-key index compares a key behind all of its keys with the unwritten
\* value there.
Behind(pairs, key) == pairs # {} /\ \A p \in pairs : p[1] < key
Unwritten == IF recycled THEN Ints ELSE {0}

\* What a put of the row leaves: the key with its position; if the unwritten
\* value is by chance the key, the position in a list of other keys, whose
\* positions move; or the B+ tree's error.
Filed(b) ==
  [b EXCEPT !.row = @ + 1, !.pairs = @ \cup {<<data_array[b.row], Wrapped(b.row)>>}]
Misfiled(b) ==
  [b EXCEPT !.row = @ + 1,
            !.pairs = {p[1] : p \in @} \X ({p[2] : p \in @} \cup {Wrapped(b.row)})]
\* Wrong on purpose: positions counted from 1.
AfterPut_from_one(b) ==
  IF Refuses(b) THEN {[b EXCEPT !.own = -1, !.pc = "assign"]}
  ELSE {[b EXCEPT !.row = @ + 1, !.pairs = @ \cup {<<data_array[b.row], b.row + 1>>}]}
AfterPut(b) ==
  IF Refuses(b) THEN {[b EXCEPT !.own = -1, !.pc = "assign"]}
  ELSE IF arguments.index_type = "groupkey" /\ Behind(b.pairs, data_array[b.row])
  THEN {IF u = data_array[b.row] THEN Misfiled(b) ELSE Filed(b) : u \in Unwritten}
  ELSE {Filed(b)}

PutRow(n) ==
  /\ Putting(n)
  /\ \E b \in AfterPut(builder[n]) : builder' = [builder EXCEPT ![n] = b]
  /\ UNCHANGED <<environment, unparsed, arguments, main, fate, shuffling,
                 progress_step, res, data_index, worker>>

\* At its last key the group-key index takes the end of the positions from the
\* unwritten offset behind it, and moves what lies outside its memory.
PutBeyond(n) ==
  /\ Putting(n)
  /\ arguments.index_type = "groupkey" /\ recycled
  /\ \A p \in builder[n].pairs : p[1] <= data_array[builder[n].row]
  /\ Ends("overrun")

GivesUp(n, own) ==
  /\ builder' = [builder EXCEPT ![n].own = own, ![n].pc = "assign"]
  /\ UNCHANGED <<environment, unparsed, arguments, main, fate, shuffling,
                 progress_step, res, data_index, worker>>

\* Memory runs out: the group-key index returns 2, the B+ tree asserts.
PutFails(n) ==
  /\ Putting(n) /\ MayFail
  /\ \/ arguments.index_type = "groupkey" /\ GivesUp(n, 2)
     \/ arguments.index_type = "bplus" /\ Ends("aborted")

PutAll(n) ==
  /\ Building(n, "put") /\ builder[n].row = data_rows
  /\ GivesUp(n, 0)

\* res = populate_data_index(index) stores into the shared variable.
AssignRes(n) ==
  /\ Building(n, "assign")
  /\ res' = builder[n].own
  /\ builder' = [builder EXCEPT ![n].pc = "test"]
  /\ UNCHANGED <<environment, unparsed, arguments, main, fate, shuffling,
                 progress_step, data_index, worker>>

\* What 0 == res compares: the value just assigned, or the variable again,
\* into which another builder may have stored: a data race.
Tested(n) == {builder[n].own, res}

\* Wrong on purpose: the result is not tested.
StoreIndex_untested(n) ==
  /\ Building(n, "test") /\ n \in Slots
  /\ data_index' = [data_index EXCEPT ![n] = [by |-> n, pairs |-> builder[n].pairs]]
  /\ builder' = [builder EXCEPT ![n].pc = "done"]
  /\ UNCHANGED <<environment, unparsed, arguments, main, fate, shuffling,
                 progress_step, res, worker>>
StoreIndex(n) ==
  /\ Building(n, "test") /\ 0 \in Tested(n) /\ n \in Slots
  /\ data_index' = [data_index EXCEPT ![n] = [by |-> n, pairs |-> builder[n].pairs]]
  /\ builder' = [builder EXCEPT ![n].pc = "done"]
  /\ UNCHANGED <<environment, unparsed, arguments, main, fate, shuffling,
                 progress_step, res, worker>>

\* The logical id of the node is beyond the entries.
StoreBeyond(n) ==
  /\ Building(n, "test") /\ 0 \in Tested(n) /\ n \notin Slots
  /\ Ends("overrun")

\* The result is returned: to nobody from a replica's task, and to main()
\* from the branch without --replicate.
DropReplica(n) ==
  /\ arguments.replicate
  /\ Building(n, "test") /\ Tested(n) # {0}
  /\ builder' = [builder EXCEPT ![n].pc = "done"]
  /\ UNCHANGED <<environment, unparsed, arguments, main, fate, shuffling,
                 progress_step, res, data_index, worker>>

ReturnRes(n) ==
  /\ ~arguments.replicate
  /\ Building(n, "test") /\ Tested(n) # {0}
  /\ Ends("failed")

\* Wrong on purpose: a task is waited for on every node, also without CPUs.
AllBuilt_nodes ==
  /\ Running("build")
  /\ \A n \in IF arguments.replicate THEN Nodes ELSE Builders : builder[n].pc = "done"
  /\ main' = "start"
  /\ UNCHANGED <<environment, unparsed, arguments, fate, shuffling,
                 progress_step, building, worker>>

\* numa::wait returns, and data_setup returns 0.
AllBuilt ==
  /\ Running("build")
  /\ \A n \in Builders : builder[n].pc = "done"
  /\ main' = "start"
  /\ UNCHANGED <<environment, unparsed, arguments, fate, shuffling,
                 progress_step, building, worker>>

-----------------------------------------------------------------------------
\* int range = thread_arg->data_range
range == Wrapped(data_range)

IndexOf(node) ==
  CASE ~arguments.index_search -> NULL
    [] arguments.index_search /\ arguments.replicate -> data_index[node]
    [] OTHER -> data_index[primaryNode]

\* The worker of some CPU is provisioned; rand_r gives it needle and step,
\* unless the range has become 0 as an int.
StartWorker ==
  /\ Running("start")
  /\ IF range = 0 THEN Ends("divided") ELSE
     /\ main' = "search"
     /\ \E node \in cpus, needle, step \in 0..(Magnitude(range) - 1) :
          /\ arguments.replicate => node \in Slots
          /\ worker' = [node |-> node, index |-> IndexOf(node), needle |-> needle,
                        step |-> step, pc |-> "fresh", match |-> -1]
     /\ UNCHANGED <<environment, unparsed, arguments, fate, shuffling,
                    progress_step, building>>

\* A replica is looked for beyond the entries of data_index.
LoadBeyond ==
  /\ Running("start")
  /\ arguments.replicate /\ cpus \ Slots # {}
  /\ Ends("overrun")

\* data_linear_search, which a worker hands its int rows: as a size_t a negative
\* number is beyond the end of every array, and the search runs out of the array
\* for a needle that is not in it.
rows == Wrapped(data_rows)
Matches(needle) ==
  {k \in DOMAIN data_array : data_array[k] = needle /\ (rows >= 0 => k < rows)}
RunsOut(needle) == rows < 0 /\ Matches(needle) = {}
data_linear_search(needle) ==
  IF Matches(needle) = {} THEN {-1}
  ELSE {Wrapped(k) : k \in {m \in Matches(needle) : \A l \in Matches(needle) : m <= l}}

\* What data_index_search may return: a group-key index whose last put has
\* failed may answer anything; so may one in recycled memory that is asked for
\* a key behind all of its keys, and in clean memory the value there is 0.
Positions(index, needle) == {p[2] : p \in {q \in index.pairs : q[1] = needle}}
Garbled(index, needle) ==
  /\ arguments.index_type = "groupkey"
  /\ builder[index.by].own # 0 \/ (recycled /\ Behind(index.pairs, needle))
data_index_search(index, needle) ==
  IF Garbled(index, needle) THEN Ints
  ELSE IF arguments.index_type = "groupkey" /\ needle = 0 /\ Behind(index.pairs, needle)
  THEN {p[2] : p \in index.pairs}
  ELSE IF Positions(index, needle) = {} THEN {-1} ELSE Positions(index, needle)

Answers(needle) ==
  IF arguments.index_search THEN data_index_search(worker.index, needle)
  ELSE data_linear_search(needle)

\* Wrong on purpose: the remainder is taken before the step.
NextNeedle_late == Wrapped(Remainder(worker.needle, range) + worker.step)
NextNeedle == Remainder(Wrapped(worker.needle + worker.step), range)

Searching == Running("search") /\ worker.pc \in {"fresh", "search"}

\* --verify looks at the row that was found.
Checkable == DOMAIN data_array \cup {-1}
Search ==
  /\ Searching
  /\ IF arguments.index_search THEN worker.index # NULL ELSE ~RunsOut(NextNeedle)
  /\ \E match \in Answers(NextNeedle) :
       LET wrong == arguments.verify /\ match # -1 /\ data_array[match] # NextNeedle
       IN /\ arguments.verify => match \in Checkable
          /\ worker' = [worker EXCEPT !.needle = NextNeedle, !.match = match,
                                      !.pc = IF wrong THEN "aborted" ELSE "search"]
  /\ UNCHANGED <<environment, unparsed, arguments, main, fate, shuffling,
                 progress_step, building>>

\* The linear search or the index runs out of its memory, or --verify does.
SearchBeyond ==
  /\ Searching
  /\ arguments.index_search => worker.index # NULL
  /\ \/ ~arguments.index_search /\ RunsOut(NextNeedle)
     \/ arguments.index_search /\ Garbled(worker.index, NextNeedle)
     \/ arguments.verify /\ ~(Answers(NextNeedle) \subseteq Checkable)
  /\ Ends("overrun")

\* index->get of no index.
SearchNothing ==
  /\ Searching
  /\ arguments.index_search /\ worker.index = NULL
  /\ Ends("null")

-----------------------------------------------------------------------------
ParseStep == ParseOption \/ RefuseOption \/ Usage \/ ParseEnd
ArrayStep == \/ TooFewValues \/ UnknownNode \/ Generate
             \/ ShuffleNothing \/ ShuffleStep \/ Truncate
BuilderStep(n) ==
  \/ BeginProgress(n) \/ CorrectProgress(n) \/ DivideByZero(n)
  \/ PutRow(n) \/ PutBeyond(n) \/ PutFails(n) \/ PutAll(n)
  \/ AssignRes(n) \/ StoreIndex(n) \/ StoreBeyond(n) \/ DropReplica(n) \/ ReturnRes(n)
WorkerStep == Search \/ SearchBeyond \/ SearchNothing

Next ==
  \/ ParseStep \/ ArrayStep \/ BadAlloc
  \/ \E n \in Nodes : BuilderStep(n)
  \/ AllBuilt \/ StartWorker \/ LoadBeyond \/ WorkerStep

Spec == Init /\ [][Next]_vars

\* main() and every builder's task run on.
Fairness ==
  /\ WF_vars(ParseStep \/ ArrayStep \/ AllBuilt
             \/ StartWorker \/ LoadBeyond)
  /\ \A n \in Nodes : WF_vars(BuilderStep(n))

FairSpec == Spec /\ Fairness

-----------------------------------------------------------------------------
\* Type invariant.
Index == [by : Nodes, pairs : SUBSET (Ints \X Ints)]
ControlTypes ==
  /\ cpus \in CpuNodes
  /\ tty \in BOOLEAN
  /\ unparsed \in Seq(Option)
  /\ arguments \in Arguments
  /\ main \in {"parse", "generate", "shuffle", "build", "start", "search"}
  /\ fate \in {"running", "refused", "failed", "aborted", "overrun", "divided", "null"}
  /\ progress_step \in Ints
ArrayTypes ==
  /\ primaryNode \in Nodes \cup {NULL}
  /\ main \in {"shuffle", "build", "start", "search"} => primaryNode \in Nodes
  /\ main = "shuffle" => i \in -1..(data_range - 1) /\ tmp_array \in [0..(data_range - 1) -> Ints]
  /\ main \in {"build", "start", "search"} => data_array \in [0..(data_rows - 1) -> Ints]
  /\ recycled \in BOOLEAN
BuilderTypes ==
  /\ res \in {0, 2, -1}
  /\ builder \in [Nodes -> [pc : {"begin", "correct", "put", "assign", "test", "done"},
                            row : Nat, pairs : SUBSET (Ints \X Ints), own : {0, 2, -1}]]
  /\ main \in {"build", "start", "search"} =>
       data_index \in [IF arguments.index_search THEN Slots ELSE {} -> Index \cup {NULL}]
WorkerTypes ==
  /\ main # "search" => worker = NULL
  /\ main = "search" => worker \in
    [node : Nodes, index : Index \cup {NULL}, needle : Ints, step : Nat,
     pc : {"fresh", "search", "aborted"}, match : Ints]
TypeOK == ControlTypes /\ ArrayTypes /\ BuilderTypes /\ WorkerTypes

\* Every value fits an int.
Fits == data_range <= INT_MAX + 1

\* The shuffle leaves one cycle through all positions and so no value in its
\* place: of the orders that a Fisher-Yates shuffle can produce, it produces
\* only these, as long as the values fit.
ShuffleIsOneCycle ==
  Running("shuffle") /\ i = 0 /\ Fits =>
    \A S \in (SUBSET DOMAIN tmp_array) \ {{}, DOMAIN tmp_array} :
      {tmp_array[k] : k \in S} # S

\* The rows are as many as asked for and among the values, and unless there are
\* more values than ints they are different: every index can take all of them,
\* the one that refuses a second put of a key too.
RowsAreDistinct ==
  main \in {"build", "start", "search"} =>
    /\ data_array \in [0..(data_rows - 1) -> Values]
    /\ data_range <= INT_VALUES =>
         \A k, l \in 0..(data_rows - 1) : data_array[k] = data_array[l] => k = l

\* An index that is built without an error holds what was put into it: the
\* group-key index not in recycled memory, and not if a value is negative.
Trusted == arguments.index_type = "bplus" \/ (~recycled /\ Fits)

\* A setup that reports success has built the one index completely.  A replica
\* is stored under the node whose builder made it, and complete if that builder
\* was successful; if it was not, its error has been overwritten by the success
\* of another builder.  A replica is missing only if some builder has failed.
SetupTruthful ==
  main \in {"start", "search"} /\ arguments.index_search =>
    /\ ~arguments.replicate /\ Trusted => Complete(data_index[primaryNode])
    /\ \A n \in Builders \cap Slots :
         IF data_index[n] = NULL THEN \E m \in Builders : builder[m].own # 0
         ELSE /\ data_index[n].by = n
              /\ builder[n].own = 0 /\ Trusted => Complete(data_index[n])
              /\ builder[n].own # 0 => \E m \in Builders \ {n} : builder[m].own = 0

\* Every crash has a cause that is not the setup's normal use.
\* progress_step is 0 for a moment only with replicas being built at once, of
\* so few rows that an int step is 0, and only a terminal makes a builder look
\* at it; a worker divides by zero only if the number of values is 0 as an int.
DividedFor(pc) ==
  \/ /\ pc = "build" /\ tty /\ arguments.replicate
     /\ Cardinality(cpus) > 1 /\ Part(data_rows) = 0
  \/ pc = "start" /\ range = 0
\* Memory outside an array is used for want of values, for a node that does not
\* exist, for nodes whose numbers are not those of the nodes with CPUs, for a
\* group-key index in recycled memory or after a failure, or for rows whose
\* number, or whose positions, do not fit an int.
OverrunFor(pc) ==
  \/ pc = "generate" /\ ~KnownNode
  \/ pc = "shuffle" /\ data_range = 0
  \/ pc = "build" /\ ~(Builders \subseteq Slots)
  \/ pc = "start" /\ arguments.replicate /\ ~(cpus \subseteq Slots)
  \/ /\ pc \in {"build", "search"} /\ arguments.index_search
     /\ arguments.index_type = "groupkey" /\ recycled
  \/ /\ pc = "search" /\ arguments.index_search
     /\ \/ data_rows > INT_MAX + 1
        \/ arguments.index_type = "groupkey" /\ \E n \in Builders : builder[n].own # 0
  \/ pc = "search" /\ ~arguments.index_search /\ data_rows > INT_MAX
\* A worker has no index only after a builder of a replica has failed.
CrashesAreExplained ==
  /\ fate = "divided" => DividedFor(main)
  /\ fate = "overrun" => OverrunFor(main)
  /\ fate = "null" => arguments.replicate /\ \E n \in Builders : builder[n].own # 0

\* -e implies -i: whatever the order of the options, a worker under --replicate
\* searches through the index that was built on its own node, if none failed.
SearchesOwnReplica ==
  main = "search" /\ arguments.replicate /\ (\A n \in cpus : builder[n].own = 0) =>
    worker.index # NULL /\ worker.index.by = worker.node

\* Needles are values, as long as the sum of two of them fits an int.
NeedleInRange ==
  main = "search" /\ 2 * (data_range - 1) <= INT_MAX =>
    worker.needle \in 0..(data_range - 1)

\* All ways of searching agree, and --verify finds nothing wrong: the linear
\* search as long as the number of rows fits an int, an index as long as the
\* positions do, its builder was successful and its answers can be trusted.
Reliable ==
  IF arguments.index_search
  THEN data_rows <= INT_MAX + 1 /\ Trusted /\ builder[worker.index.by].own = 0
  ELSE data_rows <= INT_MAX
Holding(needle) == {k \in DOMAIN data_array : data_array[k] = needle}
SearchesAgree ==
  main = "search" /\ worker.pc # "fresh" /\ Reliable =>
    /\ worker.pc # "aborted"
    /\ IF Holding(worker.needle) = {} THEN worker.match = -1
       ELSE worker.match \in Holding(worker.needle)

\* Memory has run out at some point.
RanOutOfMemory == fate = "aborted" \/ \E n \in Nodes : builder[n].own = 2

\* With reasonable options on a machine whose nodes all have CPUs, the workers
\* get to search, however the builders of the replicas interleave.
Reasonable ==
  /\ Running("generate")
  /\ data_rows \in 1..data_range /\ Fits
  /\ cpus = Slots /\ KnownNode
  /\ arguments.primary_node # -1 => physicalToLogicalId[arguments.primary_node] \in cpus
  /\ tty /\ arguments.replicate => data_rows >= PROGRESS_PARTS \/ Cardinality(cpus) = 1
HealthyStartup ==
  Reasonable ~>
    Running("search") \/ RanOutOfMemory \/ (arguments.index_type = "groupkey" /\ recycled)

\* argparse.cpp:22 says of -e that it replicates the index data across nodes.
SetupReplicates ==
  main = "search" /\ arguments.replicate =>
    \A n \in cpus : Complete(data_index[n])
=============================================================================
