-------------------------- MODULE DataSetupProofs --------------------------
(***************************************************************************)
(* Theorems about DataSetup, for all command lines, sizes and machines.    *)
(* Three invariants are proved one after the other, each with the help of  *)
(* the ones before it: of the options and the arrays, of the builders, and *)
(* of the worker.                                                          *)
(***************************************************************************)
EXTENDS DataSetup, FiniteSetTheorems, SequenceTheorems, TLAPS

USE NodesAssumption, DefaultRowsAssumption

-----------------------------------------------------------------------------
\* Arithmetic.

\* An int has half of its values below 0, and at least two of each kind.
LEMMA IntSizes ==
  /\ INT_MAX \in Nat \ {0} /\ INT_VALUES = 2 * (INT_MAX + 1)
  /\ INT_VALUES \div 2 = INT_MAX + 1
  /\ Ints = (-(INT_MAX + 1))..INT_MAX
  <1>1. PICK half \in 2..INT_VALUES : INT_VALUES = 2 * half
    BY SizesAssumption
  <1>2. half \in Nat /\ half >= 2 /\ INT_VALUES \in Nat \ {0}
    <2>1. half \in Int /\ half >= 2
      BY <1>1
    <2> QED  BY <1>1, <2>1
  <1>3. INT_VALUES \div 2 = half
    BY <1>1, <1>2
  <1>4. INT_MAX = half - 1
    BY <1>3 DEF INT_MAX
  <1> QED  BY <1>1, <1>2, <1>3, <1>4 DEF Ints

\* A remainder is the only number of its kind.
LEMMA RemainderUnique ==
  ASSUME NEW n \in Nat \ {0}, NEW x \in Int, NEW q \in {0, 1}, NEW r \in 0..(n - 1), x = q * n + r
  PROVE  x % n = r
  <1>1. CASE q = 0
    BY <1>1
  <1>2. CASE q = 1
    <2>1. x = n + r
      BY <1>2
    <2> QED  BY <2>1
  <1> QED  BY <1>1, <1>2

\* Conversion to int yields ints, keeps those that fit, and takes the numbers from
\* there to twice as many to the negative ones.
LEMMA WrappedType ==
  /\ \A x \in Int : Wrapped(x) \in Ints
  /\ \A x \in 0..INT_MAX : Wrapped(x) = x
  /\ \A x \in (INT_MAX + 1)..(INT_VALUES - 1) : Wrapped(x) = x - INT_VALUES
  <1>1. /\ INT_MAX \in Nat \ {0} /\ INT_VALUES = 2 * (INT_MAX + 1)
        /\ INT_VALUES \div 2 = INT_MAX + 1
        /\ Ints = (-(INT_MAX + 1))..INT_MAX
    BY IntSizes
  <1>2. INT_VALUES \in Nat \ {0}
    BY <1>1
  <1>3. ASSUME NEW x \in Int PROVE Wrapped(x) \in Ints
    <2>1. (x + (INT_MAX + 1)) % INT_VALUES \in 0..(INT_VALUES - 1)
      BY <1>1, <1>2
    <2> QED  BY <1>1, <2>1 DEF Wrapped
  <1>4. ASSUME NEW x \in 0..INT_MAX PROVE Wrapped(x) = x
    <2>1. (x + (INT_MAX + 1)) % INT_VALUES = x + (INT_MAX + 1)
      <3>1. x + (INT_MAX + 1) \in 0..(INT_VALUES - 1)
        BY <1>1
      <3>2. x + (INT_MAX + 1) = 0 * INT_VALUES + (x + (INT_MAX + 1))
        BY <1>1
      <3> QED  BY <1>1, <1>2, <3>1, <3>2, RemainderUnique
    <2> QED  BY <1>1, <2>1 DEF Wrapped
  <1>5. ASSUME NEW x \in (INT_MAX + 1)..(INT_VALUES - 1) PROVE Wrapped(x) = x - INT_VALUES
    <2>1. (x + (INT_MAX + 1)) % INT_VALUES = x + (INT_MAX + 1) - INT_VALUES
      <3>1. x + (INT_MAX + 1) - INT_VALUES \in 0..(INT_VALUES - 1)
        BY <1>1
      <3>2. x + (INT_MAX + 1) = 1 * INT_VALUES + (x + (INT_MAX + 1) - INT_VALUES)
        BY <1>1
      <3>3. x \in Int
        OBVIOUS
      <3> QED  BY <1>1, <1>2, <3>1, <3>2, <3>3, RemainderUnique
    <2> QED  BY <1>1, <2>1 DEF Wrapped
  <1> QED  BY <1>3, <1>4, <1>5

\* Numbers for which there are ints enough stay different.
LEMMA WrappedInjective ==
  ASSUME NEW x \in 0..(INT_VALUES - 1), NEW y \in 0..(INT_VALUES - 1), Wrapped(x) = Wrapped(y)
  PROVE  x = y
  <1>1. INT_MAX \in Nat \ {0} /\ INT_VALUES = 2 * (INT_MAX + 1)
    BY IntSizes
  <1>2. /\ x \in 0..INT_MAX \/ x \in (INT_MAX + 1)..(INT_VALUES - 1)
        /\ y \in 0..INT_MAX \/ y \in (INT_MAX + 1)..(INT_VALUES - 1)
    BY <1>1
  <1>3. CASE x \in 0..INT_MAX /\ y \in 0..INT_MAX
    BY <1>3, WrappedType
  <1>4. CASE x \in (INT_MAX + 1)..(INT_VALUES - 1) /\ y \in (INT_MAX + 1)..(INT_VALUES - 1)
    BY <1>1, <1>4, WrappedType
  <1>5. CASE x \in 0..INT_MAX /\ y \in (INT_MAX + 1)..(INT_VALUES - 1)
    <2>1. Wrapped(x) = x /\ Wrapped(y) = y - INT_VALUES
      BY <1>5, WrappedType
    <2>2. x = y - INT_VALUES
      BY <2>1
    <2> QED  BY <1>1, <1>5, <2>2
  <1>6. CASE y \in 0..INT_MAX /\ x \in (INT_MAX + 1)..(INT_VALUES - 1)
    <2>1. Wrapped(y) = y /\ Wrapped(x) = x - INT_VALUES
      BY <1>6, WrappedType
    <2> QED  BY <1>1, <1>6, <2>1
  <1> QED  BY <1>2, <1>3, <1>4, <1>5, <1>6

\* The step of the progress display is an int, and not 0 once it is corrected.
LEMMA PartsDivide ==
  ASSUME NEW r \in Nat
  PROVE  Part(r) \in Ints /\ ProgressStep(r) \in Ints \ {0}
  <1>1. r \div PROGRESS_PARTS \in Int
    BY SizesAssumption
  <1>2. Part(r) \in Ints
    BY <1>1, WrappedType DEF Part
  <1>3. 1 \in Ints /\ 1 # 0
    BY IntSizes
  <1>4. Part(r) \in Int
    BY <1>2, IntSizes
  <1> QED  BY <1>2, <1>3, <1>4 DEF ProgressStep

\* The sizes are natural numbers.
LEMMA SizesType ==
  ASSUME arguments \in Arguments
  PROVE  data_rows \in Nat /\ data_range \in Nat
  <1>1. arguments.rows \in Nat /\ arguments.sparsity \in Nat
    BY DEF Arguments
  <1>2. arguments.rows * arguments.sparsity \in Nat
    BY <1>1
  <1> QED  BY <1>1, <1>2 DEF data_rows, data_range

-----------------------------------------------------------------------------
\* Options.

\* A command line is handed to parse_opt as a sequence of options.
LEMMA PermutedType ==
  ASSUME NEW argv \in CommandLine
  PROVE  permuted(argv) \in Seq(Option)
  <1>1. positional \in Option
    BY DEF positional, Option, Flags
  <1>2. <<positional>> \in Seq(Option) /\ << >> \in Seq(Option)
    BY <1>1
  <1>3. argv.options \in Seq(Option)
    BY DEF CommandLine
  <1> QED  BY <1>2, <1>3, ConcatProperties DEF permuted

\* An accepted option keeps the arguments well formed, and -e keeps implying -i.
LEMMA EffectType ==
  ASSUME NEW args \in Arguments, NEW o \in Option, o.key # "positional", ~Refused(o),
         args.replicate => args.index_search
  PROVE  /\ Effect(args, o) \in Arguments
         /\ Effect(args, o).replicate => Effect(args, o).index_search
  <1>1. /\ o.key \in Flags \cup {"p"} \cup Counts \cup {"I", "P"}
        /\ o.key = "p" => strto(o) \in Int
        /\ o.key \in Counts => strto(o) \in Nat
        /\ o.key = "I" => o.word \in IndexTypes
        /\ o.key = "P" => o.word \in PinStrategies
    <2>1. CASE o \in [key : Flags \cup {"positional"}, num : {0}, word : {""}]
      BY <2>1 DEF Flags, Counts
    <2>2. CASE o \in [key : {"p"}, num : Int, word : {"", "text", "erange"}]
      <3>1. o.key = "p" /\ o.num \in Int
        BY <2>2
      <3>2. strto(o) \in Int
        <4>1. CASE o.word = ""
          BY <3>1, <4>1 DEF strto
        <4>2. CASE o.word # ""
          <5>1. strto(o) = 0
            BY <4>2 DEF strto
          <5>2. 0 \in Int
            OBVIOUS
          <5> QED  BY <5>1, <5>2
        <4> QED  BY <4>1, <4>2
      <3> QED  BY <3>1, <3>2 DEF Counts
    <2>3. CASE o \in [key : Counts, num : Nat, word : {"", "text", "erange"}]
      BY <2>3 DEF Counts, strto
    <2>4. CASE o \in [key : {"I", "P"}, num : {0},
                     word : IndexTypes \cup PinStrategies \cup {"text"}]
      BY <2>4 DEF Counts, Refused
    <2> QED  BY <2>1, <2>2, <2>3, <2>4 DEF Option
  <1> DEFINE Good(a) == a \in Arguments /\ (a.replicate => a.index_search)
  <1> SUFFICES Good(Effect(args, o))
    OBVIOUS
  <1>2. CASE o.key = "p"
    BY <1>1, <1>2 DEF Effect, Arguments
  <1>3. CASE o.key = "e"
    BY <1>3 DEF Effect, Arguments
  <1>4. CASE o.key = "V"
    BY <1>4 DEF Effect, Arguments
  <1>5. CASE o.key = "i"
    BY <1>5 DEF Effect, Arguments
  <1>6. CASE o.key = "I"
    BY <1>1, <1>6 DEF Effect, Arguments
  <1>7. CASE o.key = "r"
    BY <1>1, <1>7 DEF Effect, Arguments, Counts
  <1>8. CASE o.key = "s"
    BY <1>1, <1>8 DEF Effect, Arguments, Counts
  <1>9. CASE o.key = "P"
    BY <1>1, <1>9 DEF Effect, Arguments
  <1>10. CASE o.key = "v"
    BY <1>10 DEF Effect, Arguments
  <1>11. CASE o.key = "q"
    BY <1>11 DEF Effect, Arguments
  <1> QED
    BY <1>1, <1>2, <1>3, <1>4, <1>5, <1>6, <1>7, <1>8, <1>9, <1>10, <1>11 DEF Flags, Counts

-----------------------------------------------------------------------------
\* The options and the arrays.

Injective(a) == \A k, l \in DOMAIN a : a[k] = a[l] => k = l

\* -e implies -i; from the shuffle on there are enough values for the rows, and
\* they stay different if there are ints enough; an index is built only if one
\* is wanted.
FlagsInv ==
  /\ arguments.replicate => arguments.index_search
  /\ main \in {"shuffle", "build", "start", "search"} => data_rows <= data_range
  /\ main = "build" => arguments.index_search
  /\ main = "shuffle" =>
       /\ tmp_array \in [0..(data_range - 1) -> Values]
       /\ data_range <= INT_VALUES => Injective(tmp_array)
ArrayInv == ControlTypes /\ ArrayTypes /\ FlagsInv /\ RowsAreDistinct

\* The values are ints.
LEMMA ValuesAreInts ==
  ASSUME arguments \in Arguments
  PROVE  Values \subseteq Ints
  <1>1. \A k \in 0..(data_range - 1) : Wrapped(k) \in Ints
    BY SizesType, WrappedType
  <1> QED  BY <1>1 DEF Values

\* Swapping two elements of an array keeps its elements different.
LEMMA SwapInjective ==
  ASSUME NEW n \in Nat, NEW S, NEW a \in [0..(n - 1) -> S],
         NEW k \in 0..(n - 1), NEW j \in 0..(n - 1)
  PROVE  /\ Swapped(a, k, j) \in [0..(n - 1) -> S]
         /\ Injective(a) => Injective(Swapped(a, k, j))
  <1> DEFINE b == Swapped(a, k, j)
  <1>1. /\ b \in [0..(n - 1) -> S]
        /\ \A x \in 0..(n - 1) : b[x] = IF x = j THEN a[k] ELSE IF x = k THEN a[j] ELSE a[x]
    BY DEF Swapped
  <1> HIDE DEF b
  <1>2. ASSUME Injective(a), NEW x \in 0..(n - 1), NEW y \in 0..(n - 1), b[x] = b[y]
        PROVE  x = y
    BY <1>1, <1>2 DEF Injective
  <1>3. Injective(a) => Injective(b)
    BY <1>1, <1>2 DEF Injective
  <1> QED  BY <1>1, <1>3 DEF b

\* At the start no array exists and the options are those of the command line.
LEMMA ArrayInit == Init => ArrayInv
  <1> SUFFICES ASSUME Init PROVE ArrayInv
    OBVIOUS
  <1>1. unparsed \in Seq(Option)
    BY PermutedType, CommandLinesAssumption DEF Init
  <1>2. defaults \in Arguments /\ defaults.replicate = FALSE
    BY DEF defaults, Arguments, DEFAULT_SPARSITY, IndexTypes, PinStrategies
  <1>3. 0 \in Ints
    BY IntSizes
  <1> QED
    BY <1>1, <1>2, <1>3 DEF Init, ArrayInv, ControlTypes, ArrayTypes, FlagsInv, RowsAreDistinct

\* Parsing goes on with one option less.
LEMMA ParseKeeps == ArrayInv /\ ParseOption => ArrayInv'
  <1> SUFFICES ASSUME ArrayInv, ParseOption PROVE ArrayInv'
    OBVIOUS
  <1> USE DEF ArrayInv, ControlTypes
  <1>1. unparsed \in Seq(Option) /\ unparsed # <<>>
    BY DEF ParseOption
  <1>2. Head(unparsed) \in Option /\ Tail(unparsed) \in Seq(Option)
    BY <1>1, HeadTailProperties
  <1>3. arguments' \in Arguments /\ (arguments'.replicate => arguments'.index_search)
    BY <1>2, EffectType DEF ParseOption, FlagsInv
  <1>4. main = "parse" /\ main' = "parse"
    BY DEF ParseOption, Running
  <1> QED
    BY <1>2, <1>3, <1>4 DEF ParseOption, environment, shuffling, ArrayTypes, FlagsInv, RowsAreDistinct

\* The sorted array holds every value once, if there are ints enough.
LEMMA GenerateKeeps == ArrayInv /\ Generate => ArrayInv'
  <1> SUFFICES ASSUME ArrayInv, Generate PROVE ArrayInv'
    OBVIOUS
  <1> USE DEF ArrayInv, ControlTypes
  <1>1. data_rows \in Nat /\ data_range \in Nat
    BY SizesType
  <1>2. /\ data_rows' = data_rows /\ data_range' = data_range /\ Values' = Values
        /\ data_rows <= data_range
    BY DEF Generate, data_rows, data_range, Values
  <1>3. progress_step' \in Ints
    BY <1>1, PartsDivide DEF Generate
  <1>4. primaryNode' \in Nodes
    BY DEF Generate, KnownNode
  <1>5. main' = "shuffle" /\ i' \in -1..(data_range - 1)
    BY <1>1 DEF Generate
  <1>6. tmp_array' \in [0..(data_range - 1) -> Values] /\ Values \subseteq Ints
    BY <1>1, ValuesAreInts DEF Generate, Values
  <1>7. ASSUME data_range <= INT_VALUES PROVE Injective(tmp_array')
    <2>1. INT_VALUES \in Nat
      BY IntSizes
    <2>2. \A k \in 0..(data_range - 1) : k \in 0..(INT_VALUES - 1) /\ tmp_array'[k] = Wrapped(k)
      BY <1>1, <1>7, <2>1 DEF Generate
    <2>3. DOMAIN tmp_array' = 0..(data_range - 1)
      BY DEF Generate
    <2> QED  BY <2>2, <2>3, WrappedInjective DEF Injective
  <1> QED
    BY <1>2, <1>3, <1>4, <1>5, <1>6, <1>7
    DEF Generate, environment, ArrayTypes, FlagsInv, RowsAreDistinct

\* A swap of the shuffle keeps the array a permutation of the values.
LEMMA ShuffleKeeps == ArrayInv /\ ShuffleStep => ArrayInv'
  <1> SUFFICES ASSUME ArrayInv, ShuffleStep PROVE ArrayInv'
    OBVIOUS
  <1> USE DEF ArrayInv, ControlTypes
  <1>1. data_rows \in Nat /\ data_range \in Nat
    BY SizesType
  <1>2. data_rows' = data_rows /\ data_range' = data_range /\ Values' = Values
    BY DEF ShuffleStep, data_rows, data_range, Values
  <1>3. main = "shuffle" /\ main' = "shuffle"
    BY DEF ShuffleStep, Running
  <1>4. i \in 1..(data_range - 1) /\ i' = i - 1
    BY <1>1, <1>3 DEF ShuffleStep, ArrayTypes
  <1>5. PICK j \in 0..(i - 1) : tmp_array' = Swapped(tmp_array, i, j)
    BY DEF ShuffleStep
  <1>6. /\ tmp_array \in [0..(data_range - 1) -> Values]
        /\ data_range <= INT_VALUES => Injective(tmp_array)
    BY <1>3 DEF FlagsInv
  <1>7. j \in 0..(data_range - 1) /\ i \in 0..(data_range - 1)
    BY <1>1, <1>4
  <1>8. /\ tmp_array' \in [0..(data_range - 1) -> Values]
        /\ data_range <= INT_VALUES => Injective(tmp_array')
    BY <1>1, <1>5, <1>6, <1>7, SwapInjective
  <1>9. Values \subseteq Ints
    BY ValuesAreInts
  <1>10. tmp_array' \in [0..(data_range - 1) -> Ints]
    BY <1>8, <1>9
  <1> QED
    BY <1>1, <1>2, <1>3, <1>4, <1>8, <1>10
    DEF ShuffleStep, environment, ArrayTypes, FlagsInv, RowsAreDistinct

\* The rows are the first elements of the array.
LEMMA TruncateKeeps == ArrayInv /\ Truncate => ArrayInv'
  <1> SUFFICES ASSUME ArrayInv, Truncate PROVE ArrayInv'
    OBVIOUS
  <1> USE DEF ArrayInv, ControlTypes
  <1>1. data_rows \in Nat /\ data_range \in Nat
    BY SizesType
  <1>2. data_rows' = data_rows /\ data_range' = data_range /\ Values' = Values
    BY DEF Truncate, data_rows, data_range, Values
  <1>3. main = "shuffle" /\ main' \in {"build", "start"}
        /\ (main' = "build" => arguments.index_search)
    BY DEF Truncate, Running
  <1>4. progress_step' \in Ints
    BY <1>1, PartsDivide DEF Truncate
  <1>5. /\ tmp_array \in [0..(data_range - 1) -> Values]
        /\ data_range <= INT_VALUES => Injective(tmp_array)
    BY <1>3 DEF FlagsInv
  <1>6. data_rows <= data_range
    BY <1>3 DEF FlagsInv
  <1>7. \A k \in 0..(data_rows - 1) : k \in 0..(data_range - 1) /\ data_array'[k] = tmp_array[k]
    BY <1>1, <1>6 DEF Truncate
  <1>8. data_array' \in [0..(data_rows - 1) -> Values] /\ Values \subseteq Ints
    BY <1>5, <1>7, ValuesAreInts DEF Truncate
  <1>9. data_range <= INT_VALUES =>
          \A k, l \in 0..(data_rows - 1) : data_array'[k] = data_array'[l] => k = l
    BY <1>5, <1>7 DEF Injective
  <1>10. primaryNode \in Nodes /\ primaryNode' = primaryNode
    BY <1>3 DEF Truncate, ArrayTypes
  <1>11. data_array' \in [0..(data_rows - 1) -> Ints] /\ recycled' \in BOOLEAN
    BY <1>8 DEF Truncate
  <1>12. RowsAreDistinct'
    BY <1>2, <1>8, <1>9 DEF RowsAreDistinct
  <1>13. ArrayTypes'
    BY <1>2, <1>3, <1>10, <1>11 DEF ArrayTypes
  <1>14. FlagsInv'
    BY <1>2, <1>3, <1>6 DEF FlagsInv, Truncate
  <1> QED
    BY <1>3, <1>4, <1>12, <1>13, <1>14 DEF Truncate, environment

\* Steps that leave the options and the arrays alone keep what is said of them.
LEMMA SameArrays ==
  ASSUME ArrayInv, UNCHANGED <<environment, unparsed, arguments, main, shuffling>>,
         progress_step' \in Ints,
         fate' \in {"running", "refused", "failed", "aborted", "overrun", "divided", "null"}
  PROVE  ArrayInv'
  <1>1. data_rows' = data_rows /\ data_range' = data_range /\ Values' = Values
    BY DEF data_rows, data_range, Values
  <1>2. FlagsInv'
    BY <1>1 DEF ArrayInv, FlagsInv, environment, shuffling
  <1>3. ArrayTypes'
    BY <1>1 DEF ArrayInv, ArrayTypes, environment, shuffling
  <1>4. RowsAreDistinct'
    BY <1>1 DEF ArrayInv, RowsAreDistinct, environment, shuffling
  <1> QED
    BY <1>2, <1>3, <1>4 DEF ArrayInv, ControlTypes, environment

\* An end by exit, exception or crash leaves options and arrays as they are.
LEMMA EndsKeeps ==
  ASSUME ArrayInv, NEW how \in {"refused", "failed", "aborted", "overrun", "divided", "null"},
         Ends(how)
  PROVE  ArrayInv'
  BY SameArrays DEF Ends, ArrayInv, ControlTypes

\* main() goes on where no array is written.
LEMMA MainKeeps ==
  ASSUME ArrayInv, UNCHANGED <<environment, unparsed, arguments, fate, shuffling, progress_step>>,
         \/ main = "parse" /\ main' = "generate"
         \/ main = "build" /\ main' = "start"
         \/ main = "start" /\ main' = "search"
  PROVE  ArrayInv'
  <1>1. data_rows' = data_rows /\ data_range' = data_range /\ Values' = Values
    BY DEF data_rows, data_range, Values
  <1>2. FlagsInv'
    BY <1>1 DEF ArrayInv, FlagsInv, environment, shuffling
  <1>3. ArrayTypes'
    BY <1>1 DEF ArrayInv, ArrayTypes, environment, shuffling
  <1>4. RowsAreDistinct'
    BY <1>1 DEF ArrayInv, RowsAreDistinct, environment, shuffling
  <1> QED
    BY <1>2, <1>3, <1>4 DEF ArrayInv, ControlTypes, environment

\* Builders read the rows and do not change them.
LEMMA BuilderKeepsArrays ==
  ASSUME ArrayInv, NEW n \in Nodes, BuilderStep(n)
  PROVE  ArrayInv'
  <1> USE DEF ArrayInv, ControlTypes
  <1>1. CASE BeginProgress(n)
    BY <1>1, SizesType, PartsDivide, SameArrays DEF BeginProgress
  <1>2. CASE CorrectProgress(n)
    <2>1. progress_step' \in Ints
      BY <1>2, IntSizes DEF CorrectProgress
    <2> QED  BY <1>2, <2>1, SameArrays DEF CorrectProgress
  <1>3. CASE DivideByZero(n)
    BY <1>3, EndsKeeps DEF DivideByZero
  <1>4. CASE PutRow(n)
    BY <1>4, SameArrays DEF PutRow
  <1>5. CASE PutFails(n)
    <2>1. CASE GivesUp(n, 2)
      BY <2>1, SameArrays DEF GivesUp
    <2>2. CASE Ends("aborted")
      BY <2>2, EndsKeeps
    <2> QED  BY <1>5, <2>1, <2>2 DEF PutFails
  <1>6. CASE PutAll(n)
    BY <1>6, SameArrays DEF PutAll, GivesUp
  <1>7. CASE AssignRes(n)
    BY <1>7, SameArrays DEF AssignRes
  <1>8. CASE StoreIndex(n)
    BY <1>8, SameArrays DEF StoreIndex
  <1>9. CASE StoreBeyond(n)
    BY <1>9, EndsKeeps DEF StoreBeyond
  <1>10. CASE DropReplica(n)
    BY <1>10, SameArrays DEF DropReplica
  <1>11. CASE ReturnRes(n)
    BY <1>11, EndsKeeps DEF ReturnRes
  <1>12. CASE PutBeyond(n)
    BY <1>12, EndsKeeps DEF PutBeyond
  <1> QED
    BY <1>1, <1>2, <1>3, <1>4, <1>5, <1>6, <1>7, <1>8, <1>9, <1>10, <1>11, <1>12 DEF BuilderStep

\* Every step keeps what is known of the options and the arrays.
LEMMA ArrayNext == ArrayInv /\ [Next]_vars => ArrayInv'
  <1> SUFFICES ASSUME ArrayInv, [Next]_vars PROVE ArrayInv'
    OBVIOUS
  <1>1. CASE UNCHANGED vars
    BY <1>1, SameArrays DEF vars, ArrayInv, ControlTypes
  <1>2. CASE ParseStep
    BY <1>2, ParseKeeps, EndsKeeps, MainKeeps
    DEF ParseStep, RefuseOption, Usage, ParseEnd, Running
  <1>3. CASE ArrayStep
    BY <1>3, GenerateKeeps, ShuffleKeeps, TruncateKeeps, EndsKeeps
    DEF ArrayStep, TooFewValues, UnknownNode, ShuffleNothing
  <1>4. CASE BadAlloc
    BY <1>4, EndsKeeps DEF BadAlloc
  <1>5. CASE \E n \in Nodes : BuilderStep(n)
    BY <1>5, BuilderKeepsArrays
  <1>6. CASE AllBuilt
    BY <1>6, MainKeeps DEF AllBuilt, Running
  <1>7. CASE StartWorker
    BY <1>7, MainKeeps, EndsKeeps DEF StartWorker, Running
  <1>8. CASE LoadBeyond
    BY <1>8, EndsKeeps DEF LoadBeyond
  <1>9. CASE WorkerStep
    <2>1. CASE Search
      BY <2>1, SameArrays DEF Search, ArrayInv, ControlTypes
    <2>2. CASE SearchNothing \/ SearchBeyond
      BY <2>2, EndsKeeps DEF SearchNothing, SearchBeyond
    <2> QED  BY <1>9, <2>1, <2>2 DEF WorkerStep
  <1> QED
    BY <1>1, <1>2, <1>3, <1>4, <1>5, <1>6, <1>7, <1>8, <1>9 DEF Next

\* Options and arrays are as populate_data_array (data.cpp) leaves them, on the way
\* there and afterwards.
THEOREM ArraysCorrect == Spec => []ArrayInv
  BY ArrayInit, ArrayNext, PTL DEF Spec

\* The rows to be searched are as many as asked for, values as ints, and different
\* unless there are more values than ints (data.cpp, lines 40 to 71).
THEOREM RowsDistinct == Spec => []RowsAreDistinct
  <1>1. ArrayInv => RowsAreDistinct
    BY DEF ArrayInv
  <1> QED  BY <1>1, ArraysCorrect, PTL

-----------------------------------------------------------------------------
\* The shuffle is Sattolo's: while positions i+1 and up are done, every cycle
\* of the array passes through exactly one of the positions 0..i.

\* No cycle stays above i: a set that the array does not leave reaches down.
Reaches(a, n, k) ==
  \A S \in SUBSET (0..(n - 1)) :
    S # {} /\ (\A x \in S : a[x] \in S) => S \cap (0..k) # {}
\* The set is a union of cycles.
Cycles(a, n, T) ==
  T \in SUBSET (0..(n - 1)) /\ \A x \in 0..(n - 1) : x \in T <=> a[x] \in T
\* No cycle passes through two positions up to k.
Separates(a, n, k) ==
  \A x, y \in 0..k : x # y => \E T : Cycles(a, n, T) /\ x \in T /\ y \notin T
CycleInv ==
  main = "shuffle" /\ i >= 0 /\ Fits =>
    /\ tmp_array \in [0..(data_range - 1) -> 0..(data_range - 1)]
    /\ Reaches(tmp_array, data_range, i) /\ Separates(tmp_array, data_range, i)

\* Unions of cycles that contain neither position survive the swap.
LEMMA CyclesSurvive ==
  ASSUME NEW n \in Nat, NEW a \in [0..(n - 1) -> 0..(n - 1)],
         NEW k \in 0..(n - 1), NEW j \in 0..(n - 1), j # k,
         NEW T, Cycles(a, n, T), k \notin T, j \notin T
  PROVE  /\ Cycles(Swapped(a, k, j), n, T)
         /\ Cycles(Swapped(a, k, j), n, (0..(n - 1)) \ T)
  <1> DEFINE b == Swapped(a, k, j)
  <1>1. \A x \in 0..(n - 1) : b[x] = IF x = j THEN a[k] ELSE IF x = k THEN a[j] ELSE a[x]
    BY DEF Swapped
  <1>2. \A x \in 0..(n - 1) : b[x] \in 0..(n - 1)
    BY <1>1
  <1> HIDE DEF b
  <1>3. a[k] \notin T /\ a[j] \notin T
    BY DEF Cycles
  <1>4. \A x \in 0..(n - 1) : x \in T <=> b[x] \in T
    BY <1>1, <1>3 DEF Cycles
  <1>5. Cycles(b, n, T) /\ Cycles(b, n, (0..(n - 1)) \ T)
    BY <1>2, <1>4 DEF Cycles
  <1> QED  BY <1>5 DEF b

\* A step merges the cycle of position k with that of some position below.
LEMMA SwapMerges ==
  ASSUME NEW n \in Nat, NEW a \in [0..(n - 1) -> 0..(n - 1)],
         NEW k \in 1..(n - 1), NEW j \in 0..(k - 1),
         Reaches(a, n, k), Separates(a, n, k)
  PROVE  /\ Reaches(Swapped(a, k, j), n, k - 1)
         /\ Separates(Swapped(a, k, j), n, k - 1)
  <1> DEFINE b == Swapped(a, k, j)
  <1>1. \A x \in 0..(n - 1) : b[x] = IF x = j THEN a[k] ELSE IF x = k THEN a[j] ELSE a[x]
    BY DEF Swapped
  <1>2. /\ k \in 0..(n - 1) /\ j \in 0..(n - 1) /\ j # k
        /\ k \in 0..k /\ j \in 0..k
        /\ \A x \in 0..(k - 1) : x \in 0..k /\ x # k /\ x \in 0..(n - 1)
        /\ \A x \in 0..k : x = k \/ x \in 0..(k - 1)
    OBVIOUS
  <1> HIDE DEF b
  <1>3. ASSUME NEW S \in SUBSET (0..(n - 1)), S # {}, \A x \in S : b[x] \in S,
               S \cap (0..(k - 1)) = {}
        PROVE  FALSE
    <2>1. j \notin S
      BY <1>3
    <2>2. CASE k \notin S
      <3>1. \A x \in S : a[x] \in S
        BY <1>1, <1>3, <2>1, <2>2
      <3>2. S \cap (0..k) # {}
        BY <1>3, <3>1 DEF Reaches
      <3> QED  BY <1>2, <1>3, <2>2, <3>2
    <2>3. CASE k \in S
      <3>1. PICK T : Cycles(a, n, T) /\ k \in T /\ j \notin T
        BY <1>2 DEF Separates
      <3>2. a[j] \in S \ T
        BY <1>1, <1>2, <1>3, <2>3, <3>1 DEF Cycles
      <3>3. ASSUME NEW x \in S \ T PROVE a[x] \in S \ T
        <4>1. a[x] \notin T
          BY <1>3, <3>1 DEF Cycles
        <4>2. a[x] \in S
          <5>1. CASE x = k
            BY <3>1, <5>1
          <5>2. CASE x # k
            BY <1>1, <1>3, <2>1, <5>2
          <5> QED  BY <5>1, <5>2
        <4> QED  BY <4>1, <4>2
      <3>4. (S \ T) \cap (0..k) # {}
        BY <3>2, <3>3 DEF Reaches
      <3> QED  BY <1>2, <1>3, <3>1, <3>4
    <2> QED  BY <2>2, <2>3
  <1>4. ASSUME NEW x \in 0..(k - 1), NEW y \in 0..(k - 1), x # y, x # j
        PROVE  \E T : Cycles(a, n, T) /\ x \in T /\ y \notin T /\ k \notin T /\ j \notin T
    <2>1. PICK T1 : Cycles(a, n, T1) /\ x \in T1 /\ y \notin T1
      BY <1>2, <1>4 DEF Separates
    <2>2. PICK T2 : Cycles(a, n, T2) /\ x \in T2 /\ k \notin T2
      BY <1>2 DEF Separates
    <2>3. PICK T3 : Cycles(a, n, T3) /\ x \in T3 /\ j \notin T3
      BY <1>2, <1>4 DEF Separates
    <2> DEFINE T == T1 \cap T2 \cap T3
    <2>4. Cycles(a, n, T)
      BY <2>1, <2>2, <2>3 DEF Cycles
    <2>5. x \in T /\ y \notin T /\ k \notin T /\ j \notin T
      BY <2>1, <2>2, <2>3
    <2> QED  BY <2>4, <2>5
  <1>5. ASSUME NEW x \in 0..(k - 1), NEW y \in 0..(k - 1), x # y
        PROVE  \E T : Cycles(b, n, T) /\ x \in T /\ y \notin T
    <2>1. CASE x # j
      <3>1. PICK T : Cycles(a, n, T) /\ x \in T /\ y \notin T /\ k \notin T /\ j \notin T
        BY <1>4, <1>5, <2>1
      <3>2. Cycles(b, n, T)
        BY <1>2, <3>1, CyclesSurvive DEF b
      <3> QED  BY <3>1, <3>2
    <2>2. CASE x = j
      <3>1. PICK T : Cycles(a, n, T) /\ y \in T /\ x \notin T /\ k \notin T /\ j \notin T
        BY <1>4, <1>5, <2>2
      <3>2. Cycles(b, n, (0..(n - 1)) \ T)
        BY <1>2, <3>1, CyclesSurvive DEF b
      <3>3. x \in (0..(n - 1)) \ T /\ y \notin (0..(n - 1)) \ T
        BY <1>2, <3>1
      <3> QED  BY <3>2, <3>3
    <2> QED  BY <2>1, <2>2
  <1>6. Reaches(b, n, k - 1)
    BY <1>3 DEF Reaches
  <1>7. Separates(b, n, k - 1)
    BY <1>5 DEF Separates
  <1> QED  BY <1>6, <1>7 DEF b

\* Every position of a sorted array is a cycle of its own.
LEMMA SortedIsSeparate ==
  ASSUME NEW n \in Nat, NEW a, a = [k \in 0..(n - 1) |-> k]
  PROVE  Reaches(a, n, n - 1) /\ Separates(a, n, n - 1)
  <1>1. Reaches(a, n, n - 1)
    BY DEF Reaches
  <1>2. ASSUME NEW x \in 0..(n - 1), NEW y \in 0..(n - 1), x # y
        PROVE  \E T : Cycles(a, n, T) /\ x \in T /\ y \notin T
    <2>1. Cycles(a, n, {x}) /\ x \in {x} /\ y \notin {x}
      BY <1>2 DEF Cycles
    <2> QED  BY <2>1
  <1> QED  BY <1>1, <1>2 DEF Separates

\* Every step keeps the cycles of the shuffle: a swap joins two of them, and no
\* other step touches the array.
LEMMA CycleNext == ArrayInv /\ CycleInv /\ [Next]_vars => CycleInv'
  <1> SUFFICES ASSUME ArrayInv, CycleInv, [Next]_vars, main' = "shuffle", i' >= 0, Fits'
               PROVE  /\ tmp_array' \in [0..(data_range' - 1) -> 0..(data_range' - 1)]
                      /\ Reaches(tmp_array', data_range', i')
                      /\ Separates(tmp_array', data_range', i')
    BY DEF CycleInv
  <1>0. data_range \in Nat
    BY SizesType DEF ArrayInv, ControlTypes
  <1>1. CASE Generate
    <2>1. data_range' = data_range /\ i' = data_range - 1
          /\ tmp_array' = [k \in 0..(data_range - 1) |-> Wrapped(k)]
      BY <1>1 DEF Generate, data_range
    <2>2. \A k \in 0..(data_range - 1) : k \in 0..INT_MAX
      BY <1>0, <2>1, IntSizes DEF Fits
    <2>3. tmp_array' = [k \in 0..(data_range - 1) |-> k]
      BY <2>1, <2>2, WrappedType
    <2> QED  BY <1>0, <2>1, <2>3, SortedIsSeparate
  <1>2. CASE ShuffleStep
    <2>1. main = "shuffle" /\ data_range' = data_range
      BY <1>2 DEF ShuffleStep, Running, data_range
    <2>2. i \in 1..(data_range - 1) /\ i' = i - 1
      BY <1>0, <1>2, <2>1 DEF ShuffleStep, ArrayInv, ArrayTypes
    <2>3. PICK j \in 0..(i - 1) : tmp_array' = Swapped(tmp_array, i, j)
      BY <1>2 DEF ShuffleStep
    <2>4. Fits
      BY <2>1 DEF Fits
    <2>5. /\ tmp_array \in [0..(data_range - 1) -> 0..(data_range - 1)]
          /\ Reaches(tmp_array, data_range, i) /\ Separates(tmp_array, data_range, i)
      BY <2>1, <2>2, <2>4 DEF CycleInv
    <2>6. j \in 0..(data_range - 1) /\ i \in 0..(data_range - 1)
      BY <1>0, <2>2
    <2>7. tmp_array' \in [0..(data_range - 1) -> 0..(data_range - 1)]
      BY <1>0, <2>3, <2>5, <2>6, SwapInjective
    <2> QED  BY <1>0, <2>1, <2>2, <2>3, <2>5, <2>7, SwapMerges
  <1>3. CASE UNCHANGED <<arguments, main, shuffling>>
    BY <1>3 DEF CycleInv, shuffling, data_range, Fits
  <1>4. \/ Generate \/ ShuffleStep \/ UNCHANGED <<arguments, main, shuffling>>
    <2>1. CASE UNCHANGED vars
      BY <2>1 DEF vars
    <2>2. CASE ParseStep
      BY <2>2 DEF ParseStep, ParseOption, RefuseOption, Usage, ParseEnd, Running, Ends
    <2>3. CASE ArrayStep
      BY <2>3 DEF ArrayStep, TooFewValues, UnknownNode, ShuffleNothing, Truncate, Ends
    <2>4. CASE BadAlloc
      BY <2>4 DEF BadAlloc, Ends
    <2>5. CASE \E n \in Nodes : BuilderStep(n)
      BY <2>5 DEF BuilderStep, BeginProgress, CorrectProgress, DivideByZero, PutRow, PutFails,
                  PutBeyond, PutAll, AssignRes, StoreIndex, StoreBeyond, DropReplica, ReturnRes,
                  GivesUp, Ends
    <2>6. CASE AllBuilt \/ StartWorker \/ LoadBeyond \/ WorkerStep
      BY <2>6 DEF AllBuilt, StartWorker, LoadBeyond, WorkerStep, Search, SearchBeyond,
                  SearchNothing, Ends
    <2> QED  BY <2>1, <2>2, <2>3, <2>4, <2>5, <2>6 DEF Next
  <1> QED  BY <1>1, <1>2, <1>3, <1>4

\* For every number of values that fits an int the shuffle of populate_data_array
\* ends in an array that is a single cycle, whatever rand() returns.
THEOREM ShuffleCyclic == Spec => []ShuffleIsOneCycle
  <1>1. Init => CycleInv
    BY DEF Init, CycleInv
  <1>2. ArrayInv /\ CycleInv => ShuffleIsOneCycle
    <2> SUFFICES ASSUME ArrayInv, CycleInv, Running("shuffle"), i = 0, Fits,
                        NEW S \in (SUBSET DOMAIN tmp_array) \ {{}, DOMAIN tmp_array}
                 PROVE  {tmp_array[k] : k \in S} # S
      BY DEF ShuffleIsOneCycle
    <2> SUFFICES ASSUME {tmp_array[k] : k \in S} = S
                 PROVE  FALSE
      OBVIOUS
    <2>0. /\ main = "shuffle"
          /\ S \in SUBSET DOMAIN tmp_array /\ S # {} /\ S # DOMAIN tmp_array
      BY DEF Running
    <2>1. data_range \in Nat
      BY SizesType DEF ArrayInv, ControlTypes
    <2>2. tmp_array \in [0..(data_range - 1) -> 0..(data_range - 1)] /\ Injective(tmp_array)
      <3>1. data_range <= INT_VALUES
        BY <2>1, IntSizes DEF Fits
      <3> QED  BY <2>0, <3>1 DEF ArrayInv, FlagsInv, CycleInv
    <2>3. Reaches(tmp_array, data_range, 0)
      BY <2>0 DEF CycleInv
    <2> DEFINE D == 0..(data_range - 1)
               U == D \ S
    <2>4. S \in SUBSET D /\ U \in SUBSET D /\ U # {}
      BY <2>0, <2>2
    <2>5. \A x \in S : tmp_array[x] \in S
      OBVIOUS
    <2>6. ASSUME NEW x \in U, tmp_array[x] \in S PROVE FALSE
      <3>1. PICK y \in S : tmp_array[y] = tmp_array[x]
        BY <2>6
      <3> QED  BY <2>2, <2>4, <3>1 DEF Injective
    <2>7. \A x \in U : tmp_array[x] \in U
      BY <2>2, <2>6
    <2> HIDE DEF U
    <2>8. S \cap (0..0) # {} /\ U \cap (0..0) # {}
      BY <2>0, <2>3, <2>4, <2>5, <2>7 DEF Reaches
    <2>9. 0 \in S /\ 0 \in U
      BY <2>8
    <2> QED  BY <2>9 DEF U
  <1> QED  BY <1>1, <1>2, CycleNext, ArraysCorrect, PTL DEF Spec

-----------------------------------------------------------------------------
\* The builders of the indexes and the worker.

Early == {"parse", "generate", "shuffle"}
Built == {"build", "start", "search"}

\* Some builder has failed to put a row.
Failed == \E m \in Builders : builder[m].own # 0

\* A builder has put its rows, all of them when it succeeds; what it holds are
\* these rows, or at least nothing but positions of rows.
Placed(pairs) == \A p \in pairs : p[2] \in {Wrapped(k) : k \in 0..(data_rows - 1)}
BuilderOk(b) ==
  /\ b.row <= data_rows
  /\ Trusted => b.pairs = Pairs(b.row)
  /\ Placed(b.pairs)
  /\ b.pc \in {"begin", "correct", "put"} => b.own = 0
  /\ b.pc \notin {"begin", "correct", "put"} /\ b.own = 0 => b.row = data_rows

\* Nothing is built before there is an array.
FreshInv ==
  main \in Early =>
    res = 0 /\ \A n \in Nodes : builder[n] = [pc |-> "begin", row |-> 0, pairs |-> {}, own |-> 0]
\* A step of 0 is about to be corrected.
StepInv ==
  main = "build" /\ progress_step = 0 =>
    Part(data_rows) = 0 /\ \E m \in Builders : builder[m].pc = "correct"
\* The shared result is an error only if some builder had one; a builder that is
\* about to test it finds its own, or that of another that has come later.
Assigned(n, r) ==
  \E m \in Builders \ {n} : builder[m].pc \in {"test", "done"} /\ builder[m].own = r
ResInv ==
  main \in Built =>
    /\ res # 0 => Failed
    /\ \A n \in Builders : builder[n].pc = "test" => res = builder[n].own \/ Assigned(n, res)
\* A builder that is done has stored its index, or some replica has failed.
Stored(n) == n \in Slots /\ data_index[n] # NULL
DoneInv ==
  main \in Built =>
    \A n \in Builders : builder[n].pc = "done" => Stored(n) \/ (arguments.replicate /\ Failed)
\* What is stored.
TableEntry(n) ==
  /\ n \in Builders /\ builder[n].pc = "done"
  /\ data_index[n].by = n /\ data_index[n].pairs = builder[n].pairs
  /\ builder[n].own # 0 => Assigned(n, 0)
TableInv ==
  main \in Built /\ arguments.index_search =>
    \A n \in Slots : data_index[n] # NULL => TableEntry(n)
AllDoneInv ==
  main \in {"start", "search"} /\ arguments.index_search =>
    \A n \in Builders : builder[n].pc = "done"

BuilderInv ==
  /\ BuilderTypes /\ FreshInv /\ StepInv /\ ResInv /\ DoneInv /\ TableInv /\ AllDoneInv
  /\ main \in Built => \A n \in Nodes : BuilderOk(builder[n])

Builder == [pc : {"begin", "correct", "put", "assign", "test", "done"},
            row : Nat, pairs : SUBSET (Ints \X Ints), own : {0, 2, -1}]

\* The builders are nodes.
LEMMA BuildersAreNodes ==
  ASSUME ArrayInv, main \in Built
  PROVE  Builders \subseteq Nodes
  BY DEF ArrayInv, ControlTypes, ArrayTypes, Builders, Built

\* There is a slot for every node with CPUs and for no more than there are nodes.
LEMMA SlotsAreNodes ==
  ASSUME ArrayInv
  PROVE  /\ IsFiniteSet(cpus) /\ Cardinality(cpus) \in Nat
         /\ Slots \subseteq Nat
  <1>1. cpus \subseteq Nodes
    BY DEF ArrayInv, ControlTypes
  <1>2. IsFiniteSet(cpus)
    BY <1>1, FS_Subset
  <1>3. Cardinality(cpus) \in Nat
    BY <1>2, FS_CardinalityType
  <1> QED  BY <1>2, <1>3 DEF Slots

\* What is derived from variables that a step leaves alone does not change.
LEMMA Frame ==
  ASSUME UNCHANGED <<cpus, arguments, primaryNode, data_array, recycled>>
  PROVE  /\ data_rows' = data_rows /\ Builders' = Builders /\ Slots' = Slots
         /\ Trusted' = Trusted /\ Part(data_rows)' = Part(data_rows)
         /\ \A x : Placed(x)' = Placed(x)
         /\ \A x : Complete(x)' = Complete(x)
         /\ \A b : BuilderOk(b)' = BuilderOk(b)
  <1>1. data_rows' = data_rows /\ Builders' = Builders /\ Slots' = Slots
    BY DEF data_rows, Builders, Slots
  <1>2. Trusted' = Trusted /\ Part(data_rows)' = Part(data_rows)
    BY <1>1 DEF Trusted, Fits, data_range, Part
  <1>3. \A k : Pairs(k)' = Pairs(k)
    BY DEF Pairs
  <1>4. \A x : Placed(x)' = Placed(x)
    BY <1>1 DEF Placed
  <1>5. \A x : Complete(x)' = Complete(x)
    BY <1>1, <1>3 DEF Complete
  <1>6. \A b : BuilderOk(b)' = BuilderOk(b)
    BY <1>1, <1>2, <1>3, <1>4 DEF BuilderOk
  <1> QED  BY <1>1, <1>2, <1>4, <1>5, <1>6

\* At the start no builder has begun.
LEMMA BuilderInit == Init => BuilderInv
  BY DEF Init, BuilderInv, BuilderTypes, FreshInv, StepInv, ResInv, DoneInv, TableInv,
         AllDoneInv, Early, Built

\* Steps of others.
LEMMA SameBuilders ==
  ASSUME BuilderInv, UNCHANGED <<cpus, arguments, main, primaryNode, data_array, recycled,
                                 progress_step, building>>
  PROVE  BuilderInv'
  <1>1. /\ data_rows' = data_rows /\ Builders' = Builders /\ Slots' = Slots
        /\ Part(data_rows)' = Part(data_rows)
        /\ \A b : BuilderOk(b)' = BuilderOk(b)
    BY Frame
  <1> USE <1>1 DEF building, BuilderInv
  <1>2. BuilderTypes'
    BY DEF BuilderTypes
  <1>3. FreshInv' /\ StepInv' /\ AllDoneInv'
    BY DEF FreshInv, StepInv, AllDoneInv
  <1>4. Failed' = Failed /\ (\A n, r : Assigned(n, r)' = Assigned(n, r))
    BY DEF Failed, Assigned
  <1>5. ResInv' /\ DoneInv'
    BY <1>4 DEF ResInv, DoneInv, Stored
  <1>6. TableInv'
    BY <1>4 DEF TableInv, TableEntry
  <1> QED  BY <1>2, <1>3, <1>5, <1>6

\* Before the indexes.
LEMMA EarlyKeeps ==
  ASSUME BuilderInv, main \in Early, main' \in Early, UNCHANGED building
  PROVE  BuilderInv'
  BY DEF BuilderInv, BuilderTypes, FreshInv, StepInv, ResInv, DoneInv, TableInv,
         AllDoneInv, Early, Built, building

\* The builders begin when the array has been truncated to the rows.
LEMMA TruncateBuilds == ArrayInv /\ BuilderInv /\ Truncate => BuilderInv'
  <1> SUFFICES ASSUME ArrayInv, BuilderInv, Truncate PROVE BuilderInv'
    OBVIOUS
  <1>0. data_rows \in Nat /\ data_rows' = data_rows
    BY SizesType DEF ArrayInv, ControlTypes, Truncate, data_rows
  <1>1. /\ main = "shuffle" /\ main' \in {"build", "start"}
        /\ main' = "start" => ~arguments'.index_search
        /\ UNCHANGED <<cpus, arguments, primaryNode, res, builder>>
    BY DEF Truncate, Running, environment
  <1>2. Builders' = Builders /\ Slots' = Slots
    BY <1>1 DEF Builders, Slots
  <1>3. Builders \subseteq Nodes
    BY <1>1 DEF ArrayInv, ControlTypes, ArrayTypes, Builders
  <1>4. res' = 0
        /\ \A n \in Nodes : builder'[n] = [pc |-> "begin", row |-> 0, pairs |-> {}, own |-> 0]
    BY <1>1 DEF BuilderInv, FreshInv, Early
  <1>6. \A n \in Nodes : BuilderOk(builder[n])'
    <2>1. ASSUME NEW n \in Nodes PROVE BuilderOk(builder[n])'
      <3>1. builder'[n] = [pc |-> "begin", row |-> 0, pairs |-> {}, own |-> 0]
        BY <1>4
      <3>2. builder'[n].pairs = {} /\ builder'[n].row = 0
            /\ builder'[n].pc = "begin" /\ builder'[n].own = 0
        BY <3>1
      <3>3. 0..(builder'[n].row - 1) = {}
        BY <3>2
      <3>4. Pairs(builder[n].row)' = {}
        BY <3>3 DEF Pairs
      <3> QED  BY <1>0, <3>2, <3>4 DEF BuilderOk, Placed
    <2> QED  BY <2>1
  <1>7. BuilderTypes'
    BY <1>1, <1>2 DEF BuilderInv, BuilderTypes, Truncate
  <1>8. progress_step' # 0
    BY <1>0, PartsDivide DEF Truncate
  <1>9. \A n \in Slots' : arguments'.index_search => data_index'[n] = NULL
    BY <1>1, <1>2 DEF Truncate
  <1>10. \A n \in Builders' : builder'[n].pc = "begin"
    <2>1. ASSUME NEW n \in Builders PROVE builder'[n].pc = "begin"
      <3>1. n \in Nodes
        BY <1>3
      <3>2. builder'[n] = [pc |-> "begin", row |-> 0, pairs |-> {}, own |-> 0]
        BY <1>4, <3>1
      <3> QED  BY <3>2
    <2> QED  BY <1>2, <2>1
  <1> QED
    BY <1>1, <1>2, <1>4, <1>6, <1>7, <1>8, <1>9, <1>10
    DEF BuilderInv, FreshInv, StepInv, ResInv, DoneInv, TableInv, AllDoneInv, Early, Built

\* main() waits for all builders before it goes on.
LEMMA MainBuilds ==
  ASSUME BuilderInv, UNCHANGED <<cpus, arguments, primaryNode, data_array, recycled,
                                 progress_step, building>>,
         \/ /\ main = "build" /\ main' = "start"
            /\ \A n \in Builders : builder[n].pc = "done"
         \/ main = "start" /\ main' = "search"
  PROVE  BuilderInv'
  <1>1. /\ data_rows' = data_rows /\ Builders' = Builders /\ Slots' = Slots
        /\ Part(data_rows)' = Part(data_rows)
        /\ \A b : BuilderOk(b)' = BuilderOk(b)
    BY Frame
  <1>2. Failed' = Failed /\ (\A n, r : Assigned(n, r)' = Assigned(n, r))
    BY <1>1 DEF Failed, Assigned, building
  <1> USE <1>1 DEF building, BuilderInv, Built, Early
  <1>3. BuilderTypes'
    BY DEF BuilderTypes
  <1>4. FreshInv' /\ StepInv' /\ AllDoneInv'
    BY DEF FreshInv, StepInv, AllDoneInv
  <1>5. ResInv' /\ DoneInv'
    BY <1>2 DEF ResInv, DoneInv, Stored
  <1>6. TableInv'
    BY <1>2 DEF TableInv, TableEntry
  <1> QED  BY <1>3, <1>4, <1>5, <1>6

-----------------------------------------------------------------------------
\* The builders.

\* What a builder has assigned, and has not failed to, stays when others move.
LEMMA AssignedStays ==
  ASSUME ArrayInv, BuilderInv, main = "build", Builders' = Builders,
         NEW n \in Builders, NEW b \in Builder, builder' = [builder EXCEPT ![n] = b],
         builder[n].pc # "done",
         builder[n].pc = "test" => b.pc = "done" /\ b.own = builder[n].own
  PROVE  \A m, r : Assigned(m, r) => Assigned(m, r)'
  <1>1. Builders \subseteq Nodes
    BY BuildersAreNodes DEF Built
  <1>2. \A m \in Nodes : builder'[m] = IF m = n THEN b ELSE builder[m]
    BY <1>1 DEF BuilderInv, BuilderTypes
  <1> SUFFICES ASSUME NEW m, NEW r, Assigned(m, r) PROVE Assigned(m, r)'
    OBVIOUS
  <1>3. PICK l \in Builders \ {m} : builder[l].pc \in {"test", "done"} /\ builder[l].own = r
    BY DEF Assigned
  <1>4. builder'[l].pc \in {"test", "done"} /\ builder'[l].own = r
    BY <1>1, <1>2, <1>3
  <1> QED  BY <1>3, <1>4 DEF Assigned

\* A builder moves, and the table does not change.
LEMMA BuilderMoves ==
  ASSUME ArrayInv, BuilderInv, main = "build",
         NEW n \in Builders, NEW b \in Builder,
         UNCHANGED <<cpus, arguments, main, primaryNode, data_array, recycled, data_index>>,
         builder' = [builder EXCEPT ![n] = b],
         BuilderOk(b),
         builder[n].own # 0 => b.own # 0,
         builder[n].pc # "done",
         builder[n].pc = "test" => b.pc = "done" /\ b.own = builder[n].own,
         IF b.pc = "test" THEN res' = b.own ELSE res' = res,
         b.pc = "done" => arguments.replicate /\ Failed,
         progress_step' = 0 =>
           Part(data_rows) = 0 /\ \E m \in Builders : builder'[m].pc = "correct"
  PROVE  BuilderInv'
  <1>1. /\ data_rows' = data_rows /\ Builders' = Builders /\ Slots' = Slots
        /\ Part(data_rows)' = Part(data_rows)
        /\ \A c : BuilderOk(c)' = BuilderOk(c)
    BY Frame
  <1>2. Builders \subseteq Nodes
    BY BuildersAreNodes DEF Built
  <1>3. /\ builder \in [Nodes -> Builder]
        /\ builder' \in [Nodes -> Builder]
        /\ \A m \in Nodes : builder'[m] = IF m = n THEN b ELSE builder[m]
    BY <1>2 DEF BuilderInv, BuilderTypes, Builder
  <1>4. Failed => Failed'
    <2> SUFFICES ASSUME Failed PROVE Failed'
      OBVIOUS
    <2>1. PICK m \in Builders : builder[m].own # 0
      BY DEF Failed
    <2>2. builder'[m].own # 0
      BY <1>2, <1>3, <2>1
    <2> QED  BY <1>1, <2>1, <2>2 DEF Failed
  <1>5. b.own # 0 => Failed'
    BY <1>1, <1>2, <1>3 DEF Failed
  <1>6. \A m, r : Assigned(m, r) => Assigned(m, r)'
    BY <1>1, AssignedStays
  <1> USE <1>1 DEF BuilderInv, Built
  <1>7. BuilderTypes'
    <2>1. res' \in {0, 2, -1}
      BY DEF BuilderTypes, Builder
    <2> QED  BY <1>3, <2>1 DEF BuilderTypes, Builder
  <1>8. FreshInv' /\ StepInv' /\ AllDoneInv'
    BY DEF FreshInv, StepInv, AllDoneInv, Early
  <1>9. ResInv'
    <2>1. res' # 0 => Failed'
      BY <1>4, <1>5 DEF ResInv
    <2>2. ASSUME NEW m \in Builders, builder'[m].pc = "test"
          PROVE  res' = builder'[m].own \/ Assigned(m, res)'
      <3>1. CASE m = n
        BY <1>2, <1>3, <2>2, <3>1
      <3>2. CASE m # n /\ b.pc = "test"
        <4>1. n \in Builders' \ {m} /\ builder'[n].pc \in {"test", "done"} /\ builder'[n].own = res'
          BY <1>2, <1>3, <3>2
        <4> QED  BY <4>1 DEF Assigned
      <3>3. CASE m # n /\ b.pc # "test"
        <4>1. res' = res /\ builder'[m] = builder[m]
          BY <1>2, <1>3, <3>3
        <4>2. res = builder[m].own \/ Assigned(m, res)
          BY <2>2, <4>1 DEF ResInv
        <4>3. Assigned(m, res) => Assigned(m, res)'
          <5>1. Assigned(m, res) =>
                  \E l \in Builders \ {m} : builder[l].pc \in {"test", "done"} /\ builder[l].own = res
            BY DEF Assigned
          <5>2. \A l \in Builders : builder[l].pc \in {"test", "done"} =>
                  builder'[l].pc \in {"test", "done"} /\ builder'[l].own = builder[l].own
            BY <1>2, <1>3
          <5> QED  BY <4>1, <5>1, <5>2 DEF Assigned
        <4> QED  BY <4>1, <4>2, <4>3
      <3> QED  BY <3>1, <3>2, <3>3
    <2> QED  BY <2>1, <2>2 DEF ResInv
  <1>10. DoneInv'
    BY <1>2, <1>3, <1>4 DEF DoneInv, Stored
  <1>11. TableInv'
    <2> SUFFICES ASSUME arguments.index_search, NEW m \in Slots, data_index[m] # NULL
                 PROVE  TableEntry(m)'
      BY DEF TableInv
    <2>1. TableEntry(m)
      BY DEF TableInv
    <2>2. m # n /\ builder'[m] = builder[m]
      BY <1>2, <1>3, <2>1 DEF TableEntry
    <2> QED  BY <1>6, <2>1, <2>2 DEF TableEntry
  <1>12. \A m \in Nodes : BuilderOk(builder[m])'
    BY <1>3
  <1> QED  BY <1>7, <1>8, <1>9, <1>10, <1>11, <1>12

\* What holds when a builder is about to take a step.
LEMMA BuilderAt ==
  ASSUME ArrayInv, BuilderInv, NEW n \in Nodes, NEW pc, Building(n, pc)
  PROVE  /\ main = "build" /\ n \in Builders
         /\ builder[n] \in Builder /\ builder[n].pc = pc /\ BuilderOk(builder[n])
         /\ data_rows \in Nat
         /\ arguments.index_search
  <1>1. main = "build" /\ n \in Builders /\ builder[n].pc = pc
    BY DEF Building, Running
  <1>2. builder[n] \in Builder /\ BuilderOk(builder[n])
    BY <1>1 DEF BuilderInv, BuilderTypes, Builder, Built
  <1>3. data_rows \in Nat
    BY SizesType DEF ArrayInv, ControlTypes
  <1> QED  BY <1>1, <1>2, <1>3 DEF ArrayInv, FlagsInv

\* The first write of PROGRESS_BEGIN, which may leave a step of 0.
LEMMA BeginProgressKeeps ==
  ASSUME ArrayInv, BuilderInv, NEW n \in Nodes, BeginProgress(n)
  PROVE  BuilderInv'
  <1>1. Building(n, "begin")
    BY DEF BeginProgress
  <1>2. /\ main = "build" /\ n \in Builders
        /\ builder[n] \in Builder /\ builder[n].pc = "begin" /\ BuilderOk(builder[n])
        /\ data_rows \in Nat
    BY <1>1, BuilderAt
  <1> DEFINE b == [builder[n] EXCEPT !.pc = "correct"]
  <1>3. /\ b \in Builder /\ b.pc = "correct" /\ b.own = builder[n].own
        /\ b.row = builder[n].row /\ b.pairs = builder[n].pairs
    BY <1>2 DEF Builder
  <1>4. builder' = [builder EXCEPT ![n] = b]
    BY <1>2 DEF BeginProgress
  <1>5. builder'[n] = b
    BY <1>4 DEF BuilderInv, BuilderTypes
  <1> HIDE DEF b
  <1>6. BuilderOk(b)
    BY <1>2, <1>3 DEF BuilderOk
  <1>7. progress_step' = Part(data_rows)
    BY DEF BeginProgress
  <1>8. res' = res /\ res \in {0, 2, -1}
    BY DEF BeginProgress, BuilderInv, BuilderTypes
  <1>9. UNCHANGED <<cpus, arguments, main, primaryNode, data_array, recycled, data_index>>
    BY DEF BeginProgress, environment, shuffling
  <1> QED  BY <1>2, <1>3, <1>4, <1>5, <1>6, <1>7, <1>8, <1>9, BuilderMoves

\* The second write of PROGRESS_BEGIN, which corrects the step for all builders.
LEMMA CorrectProgressKeeps ==
  ASSUME ArrayInv, BuilderInv, NEW n \in Nodes, CorrectProgress(n)
  PROVE  BuilderInv'
  <1>1. Building(n, "correct")
    BY DEF CorrectProgress
  <1>2. /\ main = "build" /\ n \in Builders
        /\ builder[n] \in Builder /\ builder[n].pc = "correct" /\ BuilderOk(builder[n])
        /\ data_rows \in Nat
    BY <1>1, BuilderAt
  <1> DEFINE b == [builder[n] EXCEPT !.pc = "put"]
  <1>3. /\ b \in Builder /\ b.pc = "put" /\ b.own = builder[n].own
        /\ b.row = builder[n].row /\ b.pairs = builder[n].pairs
    BY <1>2 DEF Builder
  <1>4. builder' = [builder EXCEPT ![n] = b]
    BY <1>2 DEF CorrectProgress
  <1> HIDE DEF b
  <1>5. BuilderOk(b)
    BY <1>2, <1>3 DEF BuilderOk
  <1>6. progress_step' # 0
    BY IntSizes DEF CorrectProgress, ArrayInv, ControlTypes
  <1>7. res' = res /\ res \in {0, 2, -1}
    BY DEF CorrectProgress, BuilderInv, BuilderTypes
  <1>8. UNCHANGED <<cpus, arguments, main, primaryNode, data_array, recycled, data_index>>
    BY DEF CorrectProgress, environment, shuffling
  <1> QED  BY <1>2, <1>3, <1>4, <1>5, <1>6, <1>7, <1>8, BuilderMoves

\* A builder past the beginning leaves the correction to the others.
LEMMA StepStays ==
  ASSUME ArrayInv, BuilderInv, NEW n \in Nodes, NEW pc, Building(n, pc), pc # "correct",
         NEW b \in Builder, builder' = [builder EXCEPT ![n] = b],
         progress_step' = progress_step, progress_step' = 0
  PROVE  Part(data_rows) = 0 /\ \E m \in Builders : builder'[m].pc = "correct"
  <1>1. main = "build" /\ builder[n].pc = pc
    BY BuilderAt
  <1>2. PICK m \in Builders : builder[m].pc = "correct"
    BY <1>1 DEF BuilderInv, StepInv
  <1>3. m \in Nodes /\ m # n
    BY <1>1, <1>2, BuildersAreNodes DEF Built
  <1>4. builder'[m] = builder[m]
    BY <1>3 DEF BuilderInv, BuilderTypes
  <1> QED  BY <1>1, <1>2, <1>4 DEF BuilderInv, StepInv

\* Values that fit an int are not negative.
LEMMA ValuesAreNatural ==
  ASSUME ArrayInv, Fits
  PROVE  Values \subseteq Nat
  <1>1. data_range \in Nat
    BY SizesType DEF ArrayInv, ControlTypes
  <1>2. \A k \in 0..(data_range - 1) : k \in 0..INT_MAX
    BY <1>1, IntSizes DEF Fits
  <1> QED  BY <1>2, WrappedType DEF Values

\* Where the index can be trusted, the value 0 behind its last key is no key that
\* might come there.
LEMMA NothingMisfiled ==
  ASSUME ArrayInv, main \in Built, NEW pairs, NEW n \in Nat, n <= data_rows, pairs = Pairs(n),
         Trusted, arguments.index_type = "groupkey", NEW key, key \in Unwritten, Behind(pairs, key)
  PROVE  FALSE
  <1>1. data_rows \in Nat
    BY SizesType DEF ArrayInv, ControlTypes
  <1>2. key = 0 /\ Fits
    BY DEF Trusted, Unwritten
  <1>3. PICK p \in pairs : p[1] < 0
    BY <1>2 DEF Behind
  <1>4. PICK k \in 0..(n - 1) : p = <<data_array[k], Wrapped(k)>>
    BY DEF Pairs
  <1>5. data_array[k] \in Values
    BY <1>1, <1>4 DEF ArrayInv, RowsAreDistinct, Built
  <1> QED  BY <1>2, <1>3, <1>4, <1>5, ValuesAreNatural

\* A put leaves the builder with one row more, or with the error of the B+ tree.
LEMMA PutRowKeeps ==
  ASSUME ArrayInv, BuilderInv, NEW n \in Nodes, PutRow(n)
  PROVE  BuilderInv'
  <1>1. Putting(n) /\ Building(n, "put") /\ builder[n].row < data_rows
    BY DEF PutRow, Putting
  <1>2. /\ main = "build" /\ n \in Builders
        /\ builder[n] \in Builder /\ builder[n].pc = "put" /\ BuilderOk(builder[n])
        /\ data_rows \in Nat
    BY <1>1, BuilderAt
  <1>3. PICK b \in AfterPut(builder[n]) : builder' = [builder EXCEPT ![n] = b]
    BY DEF PutRow
  <1> DEFINE r == builder[n].row
             key == data_array[r]
             pairs == builder[n].pairs
  <1>4. /\ r \in 0..(data_rows - 1) /\ r \in Nat /\ pairs \in SUBSET (Ints \X Ints)
        /\ Placed(pairs) /\ (Trusted => pairs = Pairs(r)) /\ builder[n].own = 0
    BY <1>1, <1>2 DEF Builder, BuilderOk
  <1>5. key \in Ints /\ Wrapped(r) \in Ints
    BY <1>2, <1>4, WrappedType DEF ArrayInv, ArrayTypes
  <1>6. Wrapped(r) \in {Wrapped(k) : k \in 0..(data_rows - 1)}
    BY <1>4
  <1> DEFINE Good(c) == c \in Builder /\ c.pc \in {"put", "assign"} /\ BuilderOk(c)
  <1>7. ASSUME b = [builder[n] EXCEPT !.own = -1, !.pc = "assign"] PROVE Good(b)
    <2>1. /\ b \in Builder /\ b.pc = "assign" /\ b.own = -1 /\ b.row = r /\ b.pairs = pairs
      BY <1>2, <1>7 DEF Builder
    <2> QED  BY <1>2, <1>4, <2>1 DEF BuilderOk
  <1>8. ASSUME b = Filed(builder[n]) PROVE Good(b)
    <2>1. /\ b.pc = "put" /\ b.own = 0 /\ b.row = r + 1
          /\ b.pairs = pairs \cup {<<key, Wrapped(r)>>}
      BY <1>2, <1>4, <1>8 DEF Builder, Filed
    <2>2. pairs \cup {<<key, Wrapped(r)>>} \in SUBSET (Ints \X Ints) /\ r + 1 \in Nat
      BY <1>4, <1>5
    <2>3. b \in Builder
      BY <1>2, <1>8, <2>2 DEF Builder, Filed
    <2>4. Pairs(r + 1) = Pairs(r) \cup {<<key, Wrapped(r)>>}
      <3>1. 0..((r + 1) - 1) = 0..(r - 1) \cup {r}
        BY <1>4
      <3> HIDE DEF r
      <3> QED  BY <3>1 DEF Pairs
    <2>5. Placed(b.pairs)
      BY <1>4, <1>6, <2>1 DEF Placed
    <2> QED  BY <1>2, <1>4, <2>1, <2>3, <2>4, <2>5 DEF BuilderOk
  <1>9. ASSUME b = Misfiled(builder[n]), ~Trusted PROVE Good(b)
    <2>1. /\ b.pc = "put" /\ b.own = 0 /\ b.row = r + 1
          /\ b.pairs = {p[1] : p \in pairs} \X ({p[2] : p \in pairs} \cup {Wrapped(r)})
      BY <1>2, <1>4, <1>9 DEF Builder, Misfiled
    <2>2. b.pairs \in SUBSET (Ints \X Ints) /\ r + 1 \in Nat
      BY <1>4, <1>5, <2>1
    <2>3. b \in Builder
      BY <1>2, <1>9, <2>1, <2>2 DEF Builder, Misfiled
    <2>5. Placed(b.pairs)
      BY <1>4, <1>6, <2>1 DEF Placed
    <2> QED  BY <1>2, <1>4, <1>9, <2>1, <2>3, <2>5 DEF BuilderOk
  <1>10. \/ b = [builder[n] EXCEPT !.own = -1, !.pc = "assign"]
         \/ b = Filed(builder[n])
         \/ b = Misfiled(builder[n]) /\ ~Trusted
    <2>1. CASE ~Refuses(builder[n]) /\ arguments.index_type = "groupkey" /\ Behind(pairs, key)
      <3>1. PICK u \in Unwritten :
              b = IF u = key THEN Misfiled(builder[n]) ELSE Filed(builder[n])
        BY <1>3, <2>1 DEF AfterPut
      <3>2. ASSUME u = key, Trusted PROVE FALSE
        BY <1>2, <1>4, <2>1, <3>2, NothingMisfiled DEF Built
      <3> QED  BY <3>1, <3>2
    <2>2. CASE ~(~Refuses(builder[n]) /\ arguments.index_type = "groupkey" /\ Behind(pairs, key))
      BY <1>3, <2>2 DEF AfterPut
    <2> QED  BY <2>1, <2>2
  <1>11. Good(b)
    BY <1>7, <1>8, <1>9, <1>10
  <1>12. /\ res' = res /\ progress_step' = progress_step
         /\ UNCHANGED <<cpus, arguments, main, primaryNode, data_array, recycled, data_index>>
    BY DEF PutRow, environment, shuffling
  <1>13. progress_step' = 0 =>
           Part(data_rows) = 0 /\ \E m \in Builders : builder'[m].pc = "correct"
    BY <1>1, <1>3, <1>11, <1>12, StepStays
  <1> QED  BY <1>2, <1>3, <1>4, <1>11, <1>12, <1>13, BuilderMoves

\* A builder leaves its loop with its result.
LEMMA GivesUpKeeps ==
  ASSUME ArrayInv, BuilderInv, NEW n \in Nodes, Building(n, "put"),
         NEW own \in {0, 2}, GivesUp(n, own),
         own = 0 => builder[n].row = data_rows
  PROVE  BuilderInv'
  <1>1. /\ main = "build" /\ n \in Builders
        /\ builder[n] \in Builder /\ builder[n].pc = "put" /\ BuilderOk(builder[n])
        /\ data_rows \in Nat
    BY BuilderAt
  <1> DEFINE b == [builder[n] EXCEPT !.own = own, !.pc = "assign"]
  <1>2. builder' = [builder EXCEPT ![n] = b]
    BY <1>1 DEF GivesUp
  <1>3. /\ b \in Builder /\ b.pc = "assign" /\ b.own = own
        /\ b.row = builder[n].row /\ b.pairs = builder[n].pairs
    BY <1>1 DEF Builder
  <1> HIDE DEF b
  <1>4. BuilderOk(b) /\ builder[n].own = 0
    BY <1>1, <1>3 DEF BuilderOk
  <1>5. /\ res' = res /\ res \in {0, 2, -1} /\ progress_step' = progress_step
        /\ UNCHANGED <<cpus, arguments, main, primaryNode, data_array, recycled, data_index>>
    BY DEF GivesUp, BuilderInv, BuilderTypes, environment, shuffling
  <1>6. progress_step' = 0 =>
           Part(data_rows) = 0 /\ \E m \in Builders : builder'[m].pc = "correct"
    BY <1>2, <1>3, <1>5, StepStays
  <1> QED  BY <1>1, <1>2, <1>3, <1>4, <1>5, <1>6, BuilderMoves

\* A builder that is through writes its result into the variable that all share.
LEMMA AssignResKeeps ==
  ASSUME ArrayInv, BuilderInv, NEW n \in Nodes, AssignRes(n)
  PROVE  BuilderInv'
  <1>1. Building(n, "assign")
    BY DEF AssignRes
  <1>2. /\ main = "build" /\ n \in Builders
        /\ builder[n] \in Builder /\ builder[n].pc = "assign" /\ BuilderOk(builder[n])
    BY <1>1, BuilderAt
  <1> DEFINE b == [builder[n] EXCEPT !.pc = "test"]
  <1>3. builder' = [builder EXCEPT ![n] = b]
    BY <1>2 DEF AssignRes
  <1>4. /\ b \in Builder /\ b.pc = "test" /\ b.own = builder[n].own
        /\ b.row = builder[n].row /\ b.pairs = builder[n].pairs
    BY <1>2 DEF Builder
  <1> HIDE DEF b
  <1>5. BuilderOk(b)
    BY <1>2, <1>4 DEF BuilderOk
  <1>6. /\ res' = builder[n].own /\ res' \in {0, 2, -1} /\ progress_step' = progress_step
        /\ UNCHANGED <<cpus, arguments, main, primaryNode, data_array, recycled, data_index>>
    BY <1>2 DEF AssignRes, Builder, environment, shuffling
  <1>7. progress_step' = 0 =>
           Part(data_rows) = 0 /\ \E m \in Builders : builder'[m].pc = "correct"
    BY <1>1, <1>3, <1>4, <1>6, StepStays
  <1> QED  BY <1>2, <1>3, <1>4, <1>5, <1>6, <1>7, BuilderMoves

\* A replica is dropped only if some builder has failed.
LEMMA DropReplicaKeeps ==
  ASSUME ArrayInv, BuilderInv, NEW n \in Nodes, DropReplica(n)
  PROVE  BuilderInv'
  <1>1. Building(n, "test") /\ arguments.replicate /\ Tested(n) # {0}
    BY DEF DropReplica
  <1>2. /\ main = "build" /\ n \in Builders
        /\ builder[n] \in Builder /\ builder[n].pc = "test" /\ BuilderOk(builder[n])
    BY <1>1, BuilderAt
  <1> DEFINE b == [builder[n] EXCEPT !.pc = "done"]
  <1>3. builder' = [builder EXCEPT ![n] = b]
    BY <1>2 DEF DropReplica
  <1>4. /\ b \in Builder /\ b.pc = "done" /\ b.own = builder[n].own
        /\ b.row = builder[n].row /\ b.pairs = builder[n].pairs
    BY <1>2 DEF Builder
  <1> HIDE DEF b
  <1>5. BuilderOk(b)
    BY <1>2, <1>4 DEF BuilderOk
  <1>6. Failed
    BY <1>1, <1>2 DEF Tested, Failed, BuilderInv, ResInv, Built
  <1>7. /\ res' = res /\ res \in {0, 2, -1} /\ progress_step' = progress_step
        /\ UNCHANGED <<cpus, arguments, main, primaryNode, data_array, recycled, data_index>>
    BY DEF DropReplica, BuilderInv, BuilderTypes, environment, shuffling
  <1>8. progress_step' = 0 =>
           Part(data_rows) = 0 /\ \E m \in Builders : builder'[m].pc = "correct"
    BY <1>1, <1>3, <1>4, <1>7, StepStays
  <1> QED  BY <1>1, <1>2, <1>3, <1>4, <1>5, <1>6, <1>7, <1>8, BuilderMoves

\* An index goes into the table when the result is, or has become, that of a
\* success: its builder's, or that of another that has come later.
LEMMA StoreIndexKeeps ==
  ASSUME ArrayInv, BuilderInv, NEW n \in Nodes, StoreIndex(n)
  PROVE  BuilderInv'
  <1>1. Building(n, "test") /\ 0 \in Tested(n) /\ n \in Slots
    BY DEF StoreIndex
  <1>2. /\ main = "build" /\ n \in Builders
        /\ builder[n] \in Builder /\ builder[n].pc = "test" /\ BuilderOk(builder[n])
        /\ arguments.index_search
    BY <1>1, BuilderAt
  <1> DEFINE b == [builder[n] EXCEPT !.pc = "done"]
             index == [by |-> n, pairs |-> builder[n].pairs]
  <1>3. builder' = [builder EXCEPT ![n] = b] /\ data_index' = [data_index EXCEPT ![n] = index]
    BY <1>2 DEF StoreIndex
  <1>4. /\ b \in Builder /\ b.pc = "done" /\ b.own = builder[n].own
        /\ b.row = builder[n].row /\ b.pairs = builder[n].pairs
    BY <1>2 DEF Builder
  <1>5. index \in Index /\ index # NULL /\ index.by = n /\ index.pairs = builder[n].pairs
    <2>1. index \in Index
      BY <1>2 DEF Index, Builder
    <2>2. Ints \subseteq Int
      BY IntSizes
    <2>3. index.pairs \in SUBSET (Int \X Int)
      BY <1>2, <2>2 DEF Builder
    <2>4. index # NULL
      BY <2>3, NullAssumption
    <2> QED  BY <2>1, <2>4
  <1> HIDE DEF b, index
  <1>6. /\ UNCHANGED <<cpus, arguments, main, primaryNode, data_array, recycled, res, progress_step>>
        /\ main' = "build"
    BY <1>2 DEF StoreIndex, environment, shuffling
  <1>7. /\ data_rows' = data_rows /\ Builders' = Builders /\ Slots' = Slots
        /\ Part(data_rows)' = Part(data_rows)
        /\ \A c : BuilderOk(c)' = BuilderOk(c)
    BY <1>6, Frame
  <1>8. Builders \subseteq Nodes
    BY <1>2, BuildersAreNodes DEF Built
  <1>9. /\ builder \in [Nodes -> Builder] /\ builder' \in [Nodes -> Builder]
        /\ \A m \in Nodes : builder'[m] = IF m = n THEN b ELSE builder[m]
    BY <1>3, <1>4 DEF BuilderInv, BuilderTypes, Builder
  <1>10. /\ data_index' \in [Slots -> Index \cup {NULL}]
         /\ \A m \in Slots : data_index'[m] = IF m = n THEN index ELSE data_index[m]
    BY <1>1, <1>2, <1>3, <1>5 DEF BuilderInv, BuilderTypes
  <1>11. Failed' = Failed
    BY <1>4, <1>7, <1>8, <1>9 DEF Failed
  <1>12. BuilderOk(b)
    BY <1>2, <1>4 DEF BuilderOk
  <1>13. builder[n].own # 0 => Assigned(n, 0)
    BY <1>1, <1>2 DEF Tested, BuilderInv, ResInv, Built
  <1>21. \A m, r : Assigned(m, r) => Assigned(m, r)'
    BY <1>2, <1>3, <1>4, <1>7, AssignedStays
  <1> USE DEF BuilderInv, Built
  <1>14. BuilderTypes'
    BY <1>2, <1>6, <1>7, <1>9, <1>10 DEF BuilderTypes, Builder
  <1>15. FreshInv' /\ AllDoneInv'
    BY <1>6 DEF FreshInv, AllDoneInv, Early
  <1>16. StepInv'
    <2> SUFFICES ASSUME progress_step' = 0
                 PROVE  Part(data_rows) = 0
                        /\ \E m \in Builders : builder'[m].pc = "correct"
      BY <1>7 DEF StepInv
    <2> QED  BY <1>1, <1>3, <1>4, <1>6, StepStays
  <1>17. ResInv'
    <2>1. ASSUME NEW m \in Builders, builder'[m].pc = "test"
          PROVE  res' = builder'[m].own \/ Assigned(m, res)'
      <3>1. builder'[m] = builder[m] /\ res' = res
        BY <1>4, <1>6, <1>8, <1>9, <2>1
      <3>2. res = builder[m].own \/ Assigned(m, res)
        BY <1>2, <2>1, <3>1 DEF ResInv
      <3>3. Assigned(m, res) => Assigned(m, res)'
        <4>1. \A l \in Builders : builder[l].pc \in {"test", "done"} =>
                builder'[l].pc \in {"test", "done"} /\ builder'[l].own = builder[l].own
          BY <1>4, <1>8, <1>9
        <4> QED  BY <1>7, <3>1, <4>1 DEF Assigned
      <3> QED  BY <3>1, <3>2, <3>3
    <2> QED  BY <1>2, <1>6, <1>7, <1>11, <2>1 DEF ResInv
  <1>18. DoneInv'
    BY <1>1, <1>2, <1>4, <1>5, <1>6, <1>7, <1>8, <1>9, <1>10, <1>11 DEF DoneInv, Stored
  <1>19. TableInv'
    <2> SUFFICES ASSUME NEW m \in Slots, data_index'[m] # NULL
                 PROVE  TableEntry(m)'
      BY <1>7 DEF TableInv
    <2>1. CASE m = n
      BY <1>2, <1>4, <1>5, <1>7, <1>8, <1>9, <1>10, <1>13, <1>21, <2>1 DEF TableEntry
    <2>2. CASE m # n
      <3>1. data_index'[m] = data_index[m] /\ TableEntry(m)
        BY <1>2, <1>10, <2>2 DEF TableInv
      <3> QED  BY <1>7, <1>8, <1>9, <1>21, <2>2, <3>1 DEF TableEntry
    <2> QED  BY <2>1, <2>2
  <1>20. \A m \in Nodes : BuilderOk(builder[m])'
    BY <1>2, <1>7, <1>9, <1>12
  <1> QED  BY <1>14, <1>15, <1>16, <1>17, <1>18, <1>19, <1>20

\* Every step of a builder keeps what is known of all of them.
LEMMA BuildersStep ==
  ASSUME ArrayInv, BuilderInv, NEW n \in Nodes, BuilderStep(n)
  PROVE  BuilderInv'
  <1>1. ASSUME NEW how, Ends(how) PROVE BuilderInv'
    BY <1>1, SameBuilders DEF Ends, environment, shuffling
  <1>2. CASE PutFails(n)
    <2>1. Building(n, "put")
      BY <1>2 DEF PutFails, Putting
    <2> QED  BY <1>1, <1>2, <2>1, GivesUpKeeps DEF PutFails
  <1>3. CASE PutAll(n)
    BY <1>3, GivesUpKeeps DEF PutAll
  <1> QED
    BY <1>1, <1>2, <1>3, BeginProgressKeeps, CorrectProgressKeeps, PutRowKeeps, AssignResKeeps,
       StoreIndexKeeps, DropReplicaKeeps
    DEF BuilderStep, DivideByZero, PutBeyond, StoreBeyond, ReturnRes

\* Every step keeps what is known of the builders.
LEMMA BuilderNext == ArrayInv /\ BuilderInv /\ [Next]_vars => BuilderInv'
  <1> SUFFICES ASSUME ArrayInv, BuilderInv, [Next]_vars PROVE BuilderInv'
    OBVIOUS
  <1>1. CASE UNCHANGED vars
    BY <1>1, SameBuilders DEF vars, environment, shuffling
  <1>2. ASSUME NEW how, Ends(how) PROVE BuilderInv'
    BY <1>2, SameBuilders DEF Ends, environment, shuffling
  <1>3. CASE ParseStep
    BY <1>2, <1>3, EarlyKeeps DEF ParseStep, ParseOption, RefuseOption, Usage, ParseEnd, Running, Early
  <1>4. CASE ArrayStep
    <2>1. CASE Generate \/ ShuffleStep
      BY <2>1, EarlyKeeps DEF Generate, ShuffleStep, Running, Early, building
    <2> QED
      BY <1>2, <1>4, <2>1, TruncateBuilds DEF ArrayStep, TooFewValues, UnknownNode, ShuffleNothing
  <1>5. CASE BadAlloc \/ LoadBeyond
    BY <1>2, <1>5 DEF BadAlloc, LoadBeyond
  <1>6. CASE \E n \in Nodes : BuilderStep(n)
    BY <1>6, BuildersStep
  <1>7. CASE AllBuilt
    BY <1>7, MainBuilds DEF AllBuilt, Running, environment, shuffling
  <1>8. CASE StartWorker
    BY <1>2, <1>8, MainBuilds DEF StartWorker, Running, environment, shuffling
  <1>9. CASE WorkerStep
    BY <1>2, <1>9, SameBuilders
    DEF WorkerStep, Search, SearchBeyond, SearchNothing, environment, shuffling
  <1> QED
    BY <1>1, <1>3, <1>4, <1>5, <1>6, <1>7, <1>8, <1>9 DEF Next

\* The builders are in order whichever way their steps interleave (data.cpp, lines
\* 139 to 173).
THEOREM BuildersCorrect == Spec => [](ArrayInv /\ BuilderInv)
  BY BuilderInit, BuilderNext, ArraysCorrect, PTL DEF Spec

\* A setup that reports success without --replicate has built its index; of the
\* replicas each is complete that its builder has built without an error, one that
\* was stored in spite of its error owes it to another builder's success, and one
\* is missing only if some builder has failed (data.cpp, lines 142 to 174).
THEOREM SetupIsTruthful == Spec => []SetupTruthful
  <1>1. ArrayInv /\ BuilderInv => SetupTruthful
    <2> SUFFICES ASSUME ArrayInv, BuilderInv, main \in {"start", "search"}, arguments.index_search
                 PROVE  /\ ~arguments.replicate /\ Trusted => Complete(data_index[primaryNode])
                        /\ \A n \in Builders \cap Slots :
                             IF data_index[n] = NULL THEN Failed
                             ELSE /\ data_index[n].by = n
                                  /\ builder[n].own = 0 /\ Trusted => Complete(data_index[n])
                                  /\ builder[n].own # 0 =>
                                       \E m \in Builders \ {n} : builder[m].own = 0
      BY DEF SetupTruthful, Failed
    <2>1. \A n \in Builders : builder[n].pc = "done" /\ (Stored(n) \/ (arguments.replicate /\ Failed))
      BY DEF BuilderInv, AllDoneInv, DoneInv, Built
    <2>2. \A n \in Slots : data_index[n] # NULL => TableEntry(n)
      BY DEF BuilderInv, TableInv, Built
    <2>3. Builders \subseteq Nodes
      BY BuildersAreNodes DEF Built
    <2>4. ASSUME NEW n \in Builders, Stored(n)
          PROVE  /\ data_index[n] # NULL /\ data_index[n].by = n
                 /\ builder[n].own = 0 /\ Trusted => Complete(data_index[n])
                 /\ builder[n].own # 0 => \E m \in Builders \ {n} : builder[m].own = 0
      <3>1. data_index[n] # NULL /\ TableEntry(n)
        BY <2>2, <2>4 DEF Stored
      <3>2. BuilderOk(builder[n])
        BY <2>3 DEF BuilderInv, Built
      <3>3. builder[n].own = 0 /\ Trusted => Complete(data_index[n])
        BY <2>1, <3>1, <3>2 DEF TableEntry, BuilderOk, Complete
      <3> QED  BY <3>1, <3>3 DEF TableEntry, Assigned
    <2>5. ~arguments.replicate => Builders = {primaryNode}
      BY DEF Builders
    <2> QED  BY <2>1, <2>4, <2>5 DEF Stored
  <1> QED  BY <1>1, BuildersCorrect, PTL

-----------------------------------------------------------------------------
\* The worker.

\* The worker's index is the one of its node or the primary node.
IndexInv ==
  main = "search" =>
    /\ worker.index = IndexOf(worker.node)
    /\ worker.node \in cpus
    /\ arguments.replicate => worker.node \in Slots
SmallSteps ==
  main = "search" /\ 2 * (data_range - 1) <= INT_MAX =>
    worker.step \in 0..(data_range - 1)
WorkerInv ==
  /\ WorkerTypes /\ IndexInv /\ NeedleInRange /\ SmallSteps /\ SearchesAgree
  /\ main = "search" => range # 0

\* The right answer of a search.
Right(m, needle) == IF Holding(needle) = {} THEN m = -1 ELSE m \in Holding(needle)

\* Where needles come from.
LEMMA RangeType ==
  ASSUME ArrayInv
  PROVE  /\ data_range \in Nat /\ range \in Ints /\ range \in Int
         /\ 2 * (data_range - 1) <= INT_MAX => range = data_range
         /\ \A x \in 0..(2 * (data_range - 1)) :
               2 * (data_range - 1) <= INT_MAX => Wrapped(x) = x
  <1>1. data_range \in Nat
    BY SizesType DEF ArrayInv, ControlTypes
  <1>2. INT_MAX \in Nat \ {0}
    BY IntSizes
  <1>3. range \in Ints /\ range \in Int
    BY <1>1, WrappedType, IntSizes DEF range
  <1>4. ASSUME 2 * (data_range - 1) <= INT_MAX PROVE range = data_range
    <2>1. data_range \in 0..INT_MAX
      BY <1>1, <1>2, <1>4
    <2> QED  BY <2>1, WrappedType DEF range
  <1>5. ASSUME NEW x \in 0..(2 * (data_range - 1)), 2 * (data_range - 1) <= INT_MAX
        PROVE  Wrapped(x) = x
    <2>1. x \in 0..INT_MAX
      BY <1>1, <1>2, <1>5
    <2> QED  BY <2>1, WrappedType
  <1> QED  BY <1>1, <1>3, <1>4, <1>5

\* The remainder of a division is an int, and within the divisor if neither is
\* negative.
LEMMA RemainderType ==
  ASSUME NEW a \in Int, NEW b \in Ints, b # 0
  PROVE  /\ Magnitude(b) \in 1..(INT_MAX + 1)
         /\ Remainder(a, b) \in Ints
         /\ b > 0 => Magnitude(b) = b
         /\ a >= 0 /\ b > 0 => Remainder(a, b) \in 0..(b - 1)
  <1>1. INT_MAX \in Nat \ {0} /\ Ints = (-(INT_MAX + 1))..INT_MAX
    BY IntSizes
  <1>2. Magnitude(b) \in 1..(INT_MAX + 1) /\ (b > 0 => Magnitude(b) = b)
    BY <1>1 DEF Magnitude
  <1>3. \A x \in Int : x % Magnitude(b) \in 0..(Magnitude(b) - 1)
    BY <1>1, <1>2
  <1>4. CASE a >= 0
    <2>1. Remainder(a, b) = a % Magnitude(b)
      BY <1>4 DEF Remainder
    <2>2. a % Magnitude(b) \in 0..(Magnitude(b) - 1)
      BY <1>3
    <2> QED  BY <1>1, <1>2, <2>1, <2>2
  <1>5. CASE ~(a >= 0)
    <2>1. Remainder(a, b) = -((-a) % Magnitude(b)) /\ -a \in Int
      BY <1>5 DEF Remainder
    <2>2. (-a) % Magnitude(b) \in 0..(Magnitude(b) - 1)
      BY <1>3, <2>1
    <2> QED  BY <1>1, <1>2, <1>5, <2>1, <2>2
  <1> QED  BY <1>4, <1>5

\* What the linear search and a complete index find is right, where the rows or
\* their positions fit an int.
LEMMA SearchResult ==
  ASSUME ArrayInv, main \in Built, NEW needle
  PROVE  /\ data_rows \in Nat /\ DOMAIN data_array = 0..(data_rows - 1)
         /\ data_rows <= INT_MAX =>
              ~RunsOut(needle) /\ \A m \in data_linear_search(needle) : Right(m, needle)
         /\ data_rows <= INT_MAX + 1 =>
              \A index : Complete(index) => Positions(index, needle) = Holding(needle)
  <1>1. data_rows \in Nat
    BY SizesType DEF ArrayInv, ControlTypes
  <1>2. DOMAIN data_array = 0..(data_rows - 1)
    BY DEF ArrayInv, ArrayTypes, Built
  <1>3. INT_MAX \in Nat
    BY IntSizes
  <1>4. ASSUME data_rows <= INT_MAX + 1, NEW k \in 0..(data_rows - 1) PROVE Wrapped(k) = k
    <2>1. k \in 0..INT_MAX
      BY <1>1, <1>3, <1>4
    <2> QED  BY <2>1, WrappedType
  <1>5. ASSUME data_rows <= INT_MAX
        PROVE  ~RunsOut(needle) /\ \A m \in data_linear_search(needle) : Right(m, needle)
    <2>1. rows = data_rows
      <3>1. data_rows \in 0..INT_MAX
        BY <1>1, <1>5
      <3> QED  BY <3>1, WrappedType DEF rows
    <2>2. Matches(needle) = Holding(needle)
      BY <1>1, <1>2, <2>1 DEF Matches, Holding
    <2>3. ASSUME NEW m \in data_linear_search(needle) PROVE Right(m, needle)
      <3>1. CASE Holding(needle) = {}
        BY <2>2, <2>3, <3>1 DEF data_linear_search, Right
      <3>2. CASE Holding(needle) # {}
        <4>1. PICK k \in Holding(needle) : m = Wrapped(k)
          BY <2>2, <2>3, <3>2 DEF data_linear_search
        <4>2. k \in 0..(data_rows - 1)
          BY <1>2 DEF Holding
        <4>3. m = k
          BY <1>1, <1>3, <1>4, <1>5, <4>1, <4>2
        <4> QED  BY <3>2, <4>3 DEF Right
      <3> QED  BY <3>1, <3>2
    <2> QED  BY <1>1, <2>1, <2>3 DEF RunsOut
  <1>6. ASSUME data_rows <= INT_MAX + 1, NEW index, Complete(index)
        PROVE  Positions(index, needle) = Holding(needle)
    <2> DEFINE Rows == 0..(data_rows - 1)
    <2>1. index.pairs = {<<data_array[k], Wrapped(k)>> : k \in Rows}
      BY <1>6 DEF Complete, Pairs
    <2>2. DOMAIN data_array = Rows /\ \A k \in Rows : Wrapped(k) = k
      BY <1>2, <1>4, <1>6
    <2> HIDE DEF Rows
    <2>3. ASSUME NEW k \in Positions(index, needle) PROVE k \in Holding(needle)
      <3>1. PICK q \in index.pairs : q[1] = needle /\ q[2] = k
        BY DEF Positions
      <3>2. PICK l \in Rows : q = <<data_array[l], Wrapped(l)>>
        BY <2>1, <3>1
      <3>3. k = l /\ data_array[l] = needle
        BY <2>2, <3>1, <3>2
      <3> QED  BY <2>2, <3>3 DEF Holding
    <2>4. ASSUME NEW k \in Holding(needle) PROVE k \in Positions(index, needle)
      <3>1. k \in Rows /\ data_array[k] = needle /\ Wrapped(k) = k
        BY <2>2 DEF Holding
      <3>2. <<data_array[k], k>> \in index.pairs
        BY <2>1, <3>1
      <3>3. <<needle, k>> \in index.pairs
        BY <3>1, <3>2
      <3> QED  BY <3>3 DEF Positions
    <2> QED  BY <2>3, <2>4
  <1> QED  BY <1>1, <1>2, <1>5, <1>6

\* A complete index whose answers can be trusted gives the right one.
LEMMA IndexAgrees ==
  ASSUME ArrayInv, main \in Built, data_rows <= INT_MAX + 1,
         NEW index, Complete(index), Trusted, builder[index.by].own = 0,
         NEW needle, NEW m \in data_index_search(index, needle)
  PROVE  Right(m, needle)
  <1>1. index.pairs = Pairs(data_rows) /\ data_rows \in Nat
    BY SearchResult DEF Complete
  <1>2. ~Garbled(index, needle)
    BY DEF Garbled, Trusted
  <1>3. ~(arguments.index_type = "groupkey" /\ needle = 0 /\ Behind(index.pairs, needle))
    <2>1. ASSUME arguments.index_type = "groupkey", needle = 0, Behind(index.pairs, needle)
          PROVE  FALSE
      <3>1. needle \in Unwritten
        BY <2>1 DEF Trusted, Unwritten
      <3> QED  BY <1>1, <2>1, <3>1, NothingMisfiled
    <2> QED  BY <2>1
  <1>4. m \in IF Positions(index, needle) = {} THEN {-1} ELSE Positions(index, needle)
    BY <1>2, <1>3 DEF data_index_search
  <1>5. Positions(index, needle) = Holding(needle)
    BY SearchResult
  <1> QED  BY <1>4, <1>5 DEF Right

\* Steps that change nothing the worker reads or writes.
LEMMA SameWorker ==
  ASSUME WorkerInv,
         UNCHANGED <<cpus, arguments, main, primaryNode, data_array, recycled, builder,
                     data_index, worker>>
  PROVE  WorkerInv'
  <1>1. Slots' = Slots /\ range' = range /\ data_range' = data_range /\ data_rows' = data_rows
        /\ Trusted' = Trusted
    BY Frame DEF range, data_range
  <1>2. \A node : IndexOf(node)' = IndexOf(node)
    BY DEF IndexOf
  <1>3. \A x : Holding(x)' = Holding(x)
    BY DEF Holding
  <1>4. Reliable' = Reliable
    BY <1>1 DEF Reliable
  <1> USE DEF WorkerInv
  <1>5. WorkerTypes' /\ IndexInv'
    BY <1>1, <1>2 DEF WorkerTypes, IndexInv
  <1>6. NeedleInRange' /\ SmallSteps' /\ SearchesAgree'
    BY <1>1, <1>3, <1>4 DEF NeedleInRange, SmallSteps, SearchesAgree
  <1> QED  BY <1>1, <1>5, <1>6

\* Steps before the worker searches.
LEMMA NoWorker ==
  ASSUME WorkerInv, main # "search", main' # "search", UNCHANGED worker
  PROVE  WorkerInv'
  BY DEF WorkerInv, WorkerTypes, IndexInv, NeedleInRange, SmallSteps, SearchesAgree

\* An index that a worker is given comes from the table.
LEMMA IndexOfType ==
  ASSUME ArrayInv, BuilderInv, main \in {"start", "search"}, NEW node \in cpus,
         arguments.replicate => node \in Slots
  PROVE  /\ IndexOf(node) \in Index \cup {NULL}
         /\ arguments.index_search =>
              /\ IndexOf(node) = NULL => arguments.replicate /\ Failed
              /\ IndexOf(node) # NULL =>
                   /\ IndexOf(node).by \in Builders
                   /\ arguments.replicate => IndexOf(node).by = node
                   /\ Placed(IndexOf(node).pairs)
                   /\ builder[IndexOf(node).by].own = 0 /\ Trusted => Complete(IndexOf(node))
  <1>1. CASE ~arguments.index_search
    BY <1>1 DEF IndexOf
  <1>2. CASE arguments.index_search
    <2> DEFINE n == IF arguments.replicate THEN node ELSE primaryNode
    <2>1. n \in Builders /\ IndexOf(node) = data_index[n]
      BY <1>2 DEF Builders, IndexOf
    <2>2. builder[n].pc = "done" /\ (Stored(n) \/ (arguments.replicate /\ Failed))
      BY <1>2, <2>1 DEF BuilderInv, AllDoneInv, DoneInv, Built
    <2>3. n \in Slots
      BY <2>2 DEF Stored
    <2>4. data_index[n] \in Index \cup {NULL}
      BY <1>2, <2>3 DEF BuilderInv, BuilderTypes
    <2>5. ASSUME data_index[n] # NULL
          PROVE  /\ data_index[n].by = n
                 /\ Placed(data_index[n].pairs)
                 /\ builder[n].own = 0 /\ Trusted => Complete(data_index[n])
      <3>1. TableEntry(n)
        BY <1>2, <2>3, <2>5 DEF BuilderInv, TableInv, Built
      <3>2. BuilderOk(builder[n])
        BY <2>1, BuildersAreNodes DEF BuilderInv, Built
      <3> QED  BY <2>2, <2>5, <3>1, <3>2 DEF TableEntry, BuilderOk, Complete
    <2> HIDE DEF n
    <2>6. IndexOf(node) = NULL => arguments.replicate /\ Failed
      BY <2>1, <2>2 DEF Stored
    <2>7. arguments.replicate => n = node
      BY DEF n
    <2> QED  BY <1>2, <2>1, <2>4, <2>5, <2>6, <2>7
  <1> QED  BY <1>1, <1>2

\* A worker starts with the index of its node, or of the primary node.
LEMMA StartKeeps ==
  ASSUME ArrayInv, BuilderInv, WorkerInv, StartWorker, range # 0
  PROVE  WorkerInv'
  <1>1. /\ main = "start" /\ main' = "search"
        /\ UNCHANGED <<cpus, arguments, primaryNode, data_array, recycled, data_index>>
    BY DEF StartWorker, Running, environment, shuffling, building
  <1>2. PICK node \in cpus, needle \in 0..(Magnitude(range) - 1), step \in 0..(Magnitude(range) - 1) :
          /\ arguments.replicate => node \in Slots
          /\ worker' = [node |-> node, index |-> IndexOf(node), needle |-> needle,
                        step |-> step, pc |-> "fresh", match |-> -1]
    BY DEF StartWorker
  <1>3. IndexOf(node) \in Index \cup {NULL}
    BY <1>1, <1>2, IndexOfType
  <1>4. node \in Nodes
    BY DEF ArrayInv, ControlTypes
  <1>5. /\ data_range \in Nat /\ range \in Ints /\ range \in Int
        /\ 2 * (data_range - 1) <= INT_MAX => range = data_range
    BY RangeType
  <1>6. /\ Magnitude(range) \in 1..(INT_MAX + 1)
        /\ range > 0 => Magnitude(range) = range
    BY <1>5, RemainderType
  <1>7. /\ needle \in Ints /\ -1 \in Ints /\ step \in Nat
        /\ range > 0 => needle \in 0..(range - 1) /\ step \in 0..(range - 1)
    BY <1>5, <1>6, IntSizes
  <1>8. /\ worker'.node = node /\ worker'.index = IndexOf(node) /\ worker'.needle = needle
        /\ worker'.step = step /\ worker'.pc = "fresh" /\ worker'.match = -1
    BY <1>2
  <1>9. Slots' = Slots /\ range' = range /\ data_range' = data_range
    BY <1>1, Frame DEF range, data_range
  <1>10. IndexOf(node)' = IndexOf(node)
    BY <1>1 DEF IndexOf
  <1>11. WorkerTypes'
    BY <1>1, <1>2, <1>3, <1>4, <1>7 DEF WorkerTypes
  <1>12. IndexInv'
    <2>1. IndexOf(worker.node)' = IndexOf(node)'
      BY <1>8 DEF IndexOf
    <2> QED  BY <1>1, <1>2, <1>8, <1>9, <1>10, <2>1 DEF IndexInv
  <1>13. 2 * (data_range - 1) <= INT_MAX => range > 0
    BY <1>5
  <1>14. NeedleInRange' /\ SmallSteps'
    BY <1>5, <1>7, <1>8, <1>9, <1>13 DEF NeedleInRange, SmallSteps
  <1>15. SearchesAgree'
    BY <1>8 DEF SearchesAgree
  <1> QED  BY <1>9, <1>11, <1>12, <1>14, <1>15 DEF WorkerInv

\* A search looks for the next needle, with and without the index.
LEMMA SearchKeeps ==
  ASSUME ArrayInv, BuilderInv, WorkerInv, Search
  PROVE  WorkerInv'
  <1> DEFINE N == NextNeedle
  <1>1. /\ main = "search" /\ worker.pc \in {"fresh", "search"}
        /\ arguments.index_search => worker.index # NULL
        /\ UNCHANGED <<cpus, arguments, main, primaryNode, data_array, recycled, builder, data_index>>
    BY DEF Search, Searching, Running, environment, shuffling, building
  <1>2. worker \in [node : Nodes, index : Index \cup {NULL}, needle : Ints, step : Nat,
                    pc : {"fresh", "search", "aborted"}, match : Ints]
    BY <1>1 DEF WorkerInv, WorkerTypes
  <1>3. PICK match \in Answers(N) :
          worker' = [worker EXCEPT !.needle = N, !.match = match,
                       !.pc = IF arguments.verify /\ match # -1 /\ data_array[match] # N
                              THEN "aborted" ELSE "search"]
    BY DEF Search
  <1> HIDE DEF N
  <1>4. /\ worker'.node = worker.node /\ worker'.index = worker.index /\ worker'.needle = N
        /\ worker'.match = match /\ worker'.step = worker.step
        /\ worker'.pc = IF arguments.verify /\ match # -1 /\ data_array[match] # N
                        THEN "aborted" ELSE "search"
    BY <1>2, <1>3
  <1>5. /\ data_range \in Nat /\ range \in Ints /\ range \in Int /\ range # 0
        /\ 2 * (data_range - 1) <= INT_MAX => range = data_range
        /\ \A x \in 0..(2 * (data_range - 1)) :
              2 * (data_range - 1) <= INT_MAX => Wrapped(x) = x
    BY <1>1, RangeType DEF WorkerInv
  <1>6. Wrapped(worker.needle + worker.step) \in Int /\ N \in Ints
    <2>1. worker.needle + worker.step \in Int
      BY <1>2, IntSizes
    <2>2. Wrapped(worker.needle + worker.step) \in Int
      BY <2>1, WrappedType, IntSizes
    <2> QED  BY <1>5, <2>2, RemainderType DEF N, NextNeedle
  <1>7. data_rows \in Nat /\ DOMAIN data_array = 0..(data_rows - 1)
    BY <1>1, SearchResult DEF Built
  <1>8. worker.index = IndexOf(worker.node) /\ worker.node \in cpus
        /\ (arguments.replicate => worker.node \in Slots)
    BY <1>1 DEF WorkerInv, IndexInv
  <1>9. match \in Ints
    <2>0. -1 \in Ints
      BY IntSizes
    <2>1. CASE ~arguments.index_search
      <3>1. match \in data_linear_search(N)
        BY <2>1 DEF Answers
      <3>2. match = -1 \/ \E k \in Matches(N) : match = Wrapped(k)
        BY <3>1 DEF data_linear_search
      <3>3. \A k \in Matches(N) : Wrapped(k) \in Ints
        BY <1>7, WrappedType DEF Matches
      <3> QED  BY <2>0, <3>2, <3>3
    <2>2. CASE arguments.index_search
      <3>1. worker.index \in Index
        BY <1>1, <1>2, <2>2
      <3>2. \A p \in worker.index.pairs : p[2] \in Ints
        BY <3>1 DEF Index
      <3>3. match \in data_index_search(worker.index, N)
        BY <2>2 DEF Answers
      <3>4. match \in Ints \/ match = -1 \/ \E p \in worker.index.pairs : match = p[2]
        BY <3>3 DEF data_index_search, Positions
      <3> QED  BY <2>0, <3>2, <3>4
    <2> QED  BY <2>1, <2>2
  <1>10. Reliable => Right(match, N)
    <2>1. CASE ~arguments.index_search
      BY <1>1, <2>1, SearchResult DEF Answers, Reliable, Built
    <2>2. CASE arguments.index_search /\ Reliable
      <3>1. Trusted /\ builder[worker.index.by].own = 0 /\ data_rows <= INT_MAX + 1
        BY <2>2 DEF Reliable
      <3>2. Complete(worker.index)
        BY <1>1, <1>8, <2>2, <3>1, IndexOfType
      <3>3. match \in data_index_search(worker.index, N)
        BY <2>2 DEF Answers
      <3> QED  BY <1>1, <3>1, <3>2, <3>3, IndexAgrees DEF Built
    <2> QED  BY <2>1, <2>2
  <1>11. Slots' = Slots /\ range' = range /\ data_range' = data_range /\ data_rows' = data_rows
         /\ Trusted' = Trusted
    BY <1>1, Frame DEF range, data_range
  <1>12. WorkerTypes'
    BY <1>1, <1>2, <1>3, <1>6, <1>9 DEF WorkerTypes
  <1>13. IndexInv'
    <2>1. IndexOf(worker.node)' = IndexOf(worker.node)
      BY <1>1, <1>4 DEF IndexOf
    <2> QED  BY <1>1, <1>4, <1>8, <1>11, <2>1 DEF IndexInv
  <1>14. NeedleInRange'
    <2> SUFFICES ASSUME 2 * (data_range - 1) <= INT_MAX
                 PROVE  N \in 0..(data_range - 1)
      BY <1>4, <1>11 DEF NeedleInRange
    <2>1. worker.needle \in 0..(data_range - 1) /\ range = data_range /\ range > 0
      BY <1>1, <1>5 DEF WorkerInv, NeedleInRange
    <2>2. worker.step \in 0..(data_range - 1)
      BY <1>1 DEF WorkerInv, SmallSteps
    <2>3. worker.needle + worker.step \in 0..(2 * (data_range - 1))
      BY <1>5, <2>1, <2>2
    <2>4. Wrapped(worker.needle + worker.step) \in Int /\ Wrapped(worker.needle + worker.step) >= 0
      BY <1>5, <2>3
    <2> QED  BY <1>5, <2>1, <2>4, RemainderType DEF N, NextNeedle
  <1>15. SmallSteps'
    BY <1>1, <1>4, <1>11 DEF WorkerInv, SmallSteps
  <1>16. SearchesAgree'
    <2>1. Reliable' => Reliable
      BY <1>1, <1>4, <1>11 DEF Reliable
    <2>2. Right(match, N) => (match # -1 => data_array[match] = N)
      BY DEF Right, Holding
    <2>3. Holding(worker.needle)' = Holding(N)
      BY <1>1, <1>4 DEF Holding
    <2>4. Right(match, N) => (IF Holding(N) = {} THEN match = -1 ELSE match \in Holding(N))
      BY DEF Right
    <2> QED  BY <1>4, <1>10, <2>1, <2>2, <2>3, <2>4 DEF SearchesAgree
  <1> QED  BY <1>1, <1>5, <1>11, <1>12, <1>13, <1>14, <1>15, <1>16 DEF WorkerInv

\* At the start there is no worker.
LEMMA WorkerInit == Init => WorkerInv
  BY DEF Init, WorkerInv, WorkerTypes, IndexInv, NeedleInRange, SmallSteps, SearchesAgree

\* Every step keeps what is known of the worker.
LEMMA WorkerNext == ArrayInv /\ BuilderInv /\ WorkerInv /\ [Next]_vars => WorkerInv'
  <1> SUFFICES ASSUME ArrayInv, BuilderInv, WorkerInv, [Next]_vars PROVE WorkerInv'
    OBVIOUS
  <1>1. ASSUME NEW how, Ends(how) PROVE WorkerInv'
    BY <1>1, SameWorker DEF Ends, environment, shuffling, building
  <1>2. CASE UNCHANGED vars
    BY <1>2, SameWorker DEF vars, environment, shuffling, building
  <1>3. CASE ParseStep
    BY <1>1, <1>3, NoWorker DEF ParseStep, ParseOption, RefuseOption, Usage, ParseEnd, Running
  <1>4. CASE ArrayStep
    BY <1>1, <1>4, NoWorker
    DEF ArrayStep, TooFewValues, UnknownNode, ShuffleNothing, Generate, ShuffleStep, Truncate, Running
  <1>5. CASE BadAlloc \/ LoadBeyond
    BY <1>1, <1>5 DEF BadAlloc, LoadBeyond
  <1>6. ASSUME NEW n \in Nodes, BuilderStep(n) PROVE WorkerInv'
    <2>1. CASE \E how : Ends(how)
      BY <1>1, <2>1
    <2>2. CASE main = "build" /\ UNCHANGED <<main, worker>>
      BY <2>2, NoWorker
    <2> QED
      BY <1>6, <2>1, <2>2
      DEF BuilderStep, BeginProgress, CorrectProgress, DivideByZero, PutRow, PutBeyond, PutFails,
          PutAll, AssignRes, StoreIndex, StoreBeyond, DropReplica, ReturnRes, GivesUp,
          Putting, Building, Running
  <1>7. CASE AllBuilt
    BY <1>7, NoWorker DEF AllBuilt, Running
  <1>8. CASE StartWorker
    BY <1>1, <1>8, StartKeeps DEF StartWorker
  <1>9. CASE WorkerStep
    BY <1>1, <1>9, SearchKeeps DEF WorkerStep, SearchBeyond, SearchNothing
  <1> QED
    BY <1>2, <1>3, <1>4, <1>5, <1>6, <1>7, <1>8, <1>9 DEF Next

\* Options, arrays, builders and worker are in order in every reachable state.
THEOREM WorkerCorrect == Spec => [](ArrayInv /\ BuilderInv /\ WorkerInv)
  BY WorkerInit, WorkerNext, BuildersCorrect, PTL DEF Spec

\* The program from its command line to its searches keeps its types, for all command
\* lines, machines and sizes: every value, needle and answer is an int (data.cpp,
\* threads.cpp).
THEOREM TypeCorrect == Spec => []TypeOK
  <1>1. ArrayInv /\ BuilderInv /\ WorkerInv => TypeOK
    BY DEF ArrayInv, BuilderInv, WorkerInv, TypeOK
  <1> QED  BY <1>1, WorkerCorrect, PTL

\* Needles are values, as long as two of them can be added as ints (threads.cpp:41).
THEOREM NeedlesAreValues == Spec => []NeedleInRange
  <1>1. WorkerInv => NeedleInRange
    BY DEF WorkerInv
  <1> QED  BY <1>1, WorkerCorrect, PTL

\* Every search finds what is in the array and nothing else, and --verify never
\* objects: the linear search if the number of rows fits an int, an index if their
\* positions do and its builder has not failed, the group-key index moreover only
\* in clean memory and among values that fit an int (threads.cpp, lines 33 to 54).
THEOREM AllSearchesAgree == Spec => []SearchesAgree
  <1>1. WorkerInv => SearchesAgree
    BY DEF WorkerInv
  <1> QED  BY <1>1, WorkerCorrect, PTL

\* With --replicate and memory enough a worker searches the index of its node.
THEOREM OwnReplica == Spec => []SearchesOwnReplica
  <1>1. ArrayInv /\ BuilderInv /\ WorkerInv => SearchesOwnReplica
    <2> SUFFICES ASSUME ArrayInv, BuilderInv, WorkerInv, main = "search", arguments.replicate,
                        \A n \in cpus : builder[n].own = 0
                 PROVE  worker.index # NULL /\ worker.index.by = worker.node
      BY DEF SearchesOwnReplica
    <2>1. arguments.index_search
      BY DEF ArrayInv, FlagsInv
    <2>2. ~Failed
      BY DEF Failed, Builders
    <2>3. /\ worker.index = IndexOf(worker.node) /\ worker.node \in cpus
          /\ worker.node \in Slots
      BY DEF WorkerInv, IndexInv
    <2> QED  BY <2>1, <2>2, <2>3, IndexOfType
  <1> QED  BY <1>1, WorkerCorrect, PTL

-----------------------------------------------------------------------------
\* Crashes.

\* Two builders at once are the replicas of two nodes.
LEMMA TwoBuilders ==
  ASSUME ArrayInv, main = "build", NEW n \in Builders, NEW m \in Builders, n # m
  PROVE  arguments.replicate /\ Cardinality(cpus) > 1
  <1>1. arguments.replicate /\ n \in cpus /\ m \in cpus
    BY DEF Builders
  <1>2. IsFiniteSet(cpus) /\ Cardinality(cpus) \in Nat
    BY SlotsAreNodes
  <1>3. Cardinality(cpus) # 0
    BY <1>1, <1>2, FS_EmptySet
  <1>4. Cardinality(cpus) # 1
    <2>1. ASSUME Cardinality(cpus) = 1 PROVE FALSE
      <3>1. PICK x : cpus = {x}
        BY <1>2, <2>1, FS_Singleton
      <3> QED  BY <1>1, <3>1
    <2> QED  BY <2>1
  <1> QED  BY <1>1, <1>2, <1>3, <1>4

\* A division by a step of 0 takes a terminal, replicas, a second builder and rows
\* so few that an int step is 0.
LEMMA DivideExplained ==
  ASSUME ArrayInv, BuilderInv, NEW n \in Nodes, DivideByZero(n)
  PROVE  DividedFor(main)
  <1>1. Building(n, "put") /\ tty /\ progress_step = 0
    BY DEF DivideByZero
  <1>2. main = "build" /\ n \in Builders /\ builder[n].pc = "put"
    BY <1>1, BuilderAt
  <1>3. PICK m \in Builders : Part(data_rows) = 0 /\ builder[m].pc = "correct"
    BY <1>1, <1>2 DEF BuilderInv, StepInv
  <1>4. m # n
    BY <1>2, <1>3
  <1> QED  BY <1>1, <1>2, <1>3, <1>4, TwoBuilders DEF DividedFor

\* A search that leaves its memory has one of the causes named.
LEMMA SearchExplained ==
  ASSUME ArrayInv, BuilderInv, WorkerInv, SearchBeyond
  PROVE  OverrunFor(main)
  <1> DEFINE N == NextNeedle
  <1>1. /\ main = "search" /\ (arguments.index_search => worker.index # NULL)
        /\ \/ ~arguments.index_search /\ RunsOut(N)
           \/ arguments.index_search /\ Garbled(worker.index, N)
           \/ arguments.verify /\ ~(Answers(N) \subseteq Checkable)
    BY DEF SearchBeyond, Searching, Running
  <1> HIDE DEF N
  <1>2. data_rows \in Nat /\ INT_MAX \in Nat /\ DOMAIN data_array = 0..(data_rows - 1)
    BY <1>1, IntSizes, SearchResult DEF Built
  <1>3. CASE ~arguments.index_search
    <2>1. ASSUME data_rows <= INT_MAX PROVE FALSE
      <3>1. ~RunsOut(N) /\ \A m \in data_linear_search(N) : Right(m, N)
        BY <1>1, <2>1, SearchResult DEF Built
      <3>2. Answers(N) = data_linear_search(N)
        BY <1>3 DEF Answers
      <3>3. Answers(N) \subseteq Checkable
        BY <3>1, <3>2 DEF Right, Holding, Checkable
      <3> QED  BY <1>1, <1>3, <3>1, <3>3
    <2> QED  BY <1>1, <1>2, <1>3, <2>1 DEF OverrunFor
  <1>4. CASE arguments.index_search
    <2>1. /\ worker.index = IndexOf(worker.node) /\ worker.node \in cpus
          /\ (arguments.replicate => worker.node \in Slots)
      BY <1>1 DEF WorkerInv, IndexInv
    <2>2. worker.index.by \in Builders /\ Placed(worker.index.pairs)
      BY <1>1, <1>4, <2>1, IndexOfType
    <2>3. CASE Garbled(worker.index, N)
      BY <1>1, <1>4, <2>2, <2>3 DEF Garbled, OverrunFor
    <2>4. CASE ~Garbled(worker.index, N)
      <3>1. ASSUME data_rows <= INT_MAX + 1 PROVE FALSE
        <4>1. ASSUME NEW m \in Answers(N) PROVE m \in Checkable
          <5>1. m = -1 \/ \E p \in worker.index.pairs : m = p[2]
            BY <1>4, <2>4, <4>1 DEF Answers, data_index_search, Positions
          <5>2. ASSUME NEW p \in worker.index.pairs PROVE p[2] \in Checkable
            <6>1. PICK k \in 0..(data_rows - 1) : p[2] = Wrapped(k)
              BY <2>2 DEF Placed
            <6>2. k \in 0..INT_MAX
              BY <1>2, <3>1
            <6>3. p[2] = k
              BY <6>1, <6>2, WrappedType
            <6> QED  BY <1>2, <6>3 DEF Checkable
          <5>3. -1 \in Checkable
            BY DEF Checkable
          <5> QED  BY <5>1, <5>2, <5>3
        <4> QED  BY <1>1, <1>4, <2>4, <4>1
      <3> QED  BY <1>1, <1>2, <1>4, <3>1 DEF OverrunFor
    <2> QED  BY <2>3, <2>4
  <1> QED  BY <1>3, <1>4

\* A step that does not end the process leaves it running.
LEMMA CrashNext ==
  ArrayInv /\ BuilderInv /\ WorkerInv /\ CrashesAreExplained /\ [Next]_vars => CrashesAreExplained'
  <1> DEFINE Null == arguments.replicate /\ Failed
             Explained(how) == /\ how = "divided" => DividedFor(main)
                               /\ how = "overrun" => OverrunFor(main)
                               /\ how = "null" => Null
  <1> SUFFICES ASSUME ArrayInv, BuilderInv, WorkerInv, Explained(fate), [Next]_vars
               PROVE  Explained(fate)'
    BY DEF CrashesAreExplained, Failed
  <1>0. ASSUME UNCHANGED <<cpus, tty, arguments, main, primaryNode, data_array, recycled, builder>>
        PROVE  /\ DividedFor(main)' = DividedFor(main)
               /\ OverrunFor(main)' = OverrunFor(main) /\ Null' = Null
    <2>1. /\ data_rows' = data_rows /\ data_range' = data_range /\ Builders' = Builders
          /\ Slots' = Slots /\ Part(data_rows)' = Part(data_rows) /\ range' = range
          /\ KnownNode' = KnownNode
      BY <1>0, Frame DEF range, data_range, KnownNode
    <2> QED  BY <1>0, <2>1 DEF DividedFor, OverrunFor, Failed
  <1>1. ASSUME NEW how, Ends(how), Explained(how) PROVE Explained(fate)'
    <2>1. /\ fate' = how
          /\ UNCHANGED <<cpus, tty, arguments, main, primaryNode, data_array, recycled, builder>>
      BY <1>1 DEF Ends, environment, shuffling, building
    <2> QED  BY <1>0, <1>1, <2>1
  <1>2. CASE fate' = "running"
    BY <1>2
  <1>3. CASE UNCHANGED vars
    <2>1. UNCHANGED <<cpus, tty, arguments, main, primaryNode, data_array, recycled, builder, fate>>
      BY <1>3 DEF vars, environment, shuffling, building
    <2> QED  BY <1>0, <2>1
  <1> HIDE DEF Null
  <1>4. CASE ParseStep
    BY <1>1, <1>2, <1>4 DEF ParseStep, ParseOption, RefuseOption, Usage, ParseEnd, Running
  <1>5. CASE ArrayStep
    <2>1. CASE UnknownNode \/ ShuffleNothing
      BY <1>1, <2>1 DEF UnknownNode, ShuffleNothing, Running, OverrunFor
    <2> QED
      BY <1>1, <1>2, <1>5, <2>1 DEF ArrayStep, TooFewValues, Generate, ShuffleStep, Truncate, Running
  <1>6. CASE BadAlloc
    BY <1>1, <1>6 DEF BadAlloc
  <1>7. ASSUME NEW n \in Nodes, BuilderStep(n) PROVE Explained(fate)'
    <2>1. CASE DivideByZero(n)
      BY <1>1, <2>1, DivideExplained DEF DivideByZero
    <2>2. CASE StoreBeyond(n)
      BY <1>1, <2>2 DEF StoreBeyond, Building, Running, OverrunFor
    <2>3. CASE PutFails(n) \/ ReturnRes(n)
      BY <1>1, <1>2, <2>3 DEF PutFails, Putting, ReturnRes, GivesUp, Building, Running
    <2>4. CASE PutBeyond(n)
      <3>1. Building(n, "put") /\ arguments.index_type = "groupkey" /\ recycled /\ Ends("overrun")
        BY <2>4 DEF PutBeyond, Putting
      <3>2. main = "build" /\ arguments.index_search
        BY <3>1, BuilderAt
      <3> QED  BY <1>1, <3>1, <3>2 DEF OverrunFor
    <2> QED
      BY <1>2, <1>7, <2>1, <2>2, <2>3, <2>4
      DEF BuilderStep, BeginProgress, CorrectProgress, PutRow, Putting, PutAll, GivesUp,
          AssignRes, StoreIndex, DropReplica, Building, Running
  <1>8. CASE AllBuilt
    BY <1>2, <1>8 DEF AllBuilt, Running
  <1>9. CASE StartWorker
    BY <1>1, <1>2, <1>9 DEF StartWorker, Running, DividedFor
  <1>10. CASE LoadBeyond
    BY <1>1, <1>10 DEF LoadBeyond, Running, OverrunFor
  <1>11. CASE WorkerStep
    <2>1. CASE Search
      BY <1>2, <2>1 DEF Search, Searching, Running
    <2>2. CASE SearchNothing
      <3>1. /\ main = "search" /\ arguments.index_search /\ worker.index = NULL
            /\ Ends("null")
        BY <2>2 DEF SearchNothing, Searching, Running
      <3>2. /\ worker.index = IndexOf(worker.node) /\ worker.node \in cpus
            /\ (arguments.replicate => worker.node \in Slots)
        BY <3>1 DEF WorkerInv, IndexInv
      <3> QED  BY <1>1, <3>1, <3>2, IndexOfType DEF Null
    <2>3. CASE SearchBeyond
      BY <1>1, <2>3, SearchExplained DEF SearchBeyond
    <2> QED  BY <1>11, <2>1, <2>2, <2>3 DEF WorkerStep
  <1> QED
    BY <1>3, <1>4, <1>5, <1>6, <1>7, <1>8, <1>9, <1>10, <1>11 DEF Next

\* Whatever the command line, the machine and the sizes, the process divides by zero
\* or leaves its memory only for the reasons named: among them the int that threads.cpp:33
\* keeps the rows in, and a group-key index in recycled memory (groupkey.cpp:158).
THEOREM CrashesExplained == Spec => []CrashesAreExplained
  <1>1. Init => CrashesAreExplained
    BY DEF Init, CrashesAreExplained
  <1> QED  BY <1>1, CrashNext, WorkerCorrect, PTL DEF Spec
=============================================================================
