------------------------------ MODULE ArgParse ------------------------------
(***************************************************************************)
(* The command line of the benchmark (src/simple/argparse.cpp): every      *)
(* option changes some fields of struct arguments_t or is refused.         *)
(*                                                                         *)
(* An option is a record of its key and its argument: num is the number    *)
(* it spells, word is "" for a number, "text" for something that is none,  *)
(* "erange" for one that does not fit, or the name that -I and -P take.    *)
(* A sparsity is counted in halves.  Negative rows and sparsities, which   *)
(* the code converts to unsigned numbers, are left out.                    *)
(***************************************************************************)
EXTENDS Integers, Sequences

CONSTANT DEFAULT_ROWS
DEFAULT_SPARSITY == 4

ASSUME DefaultRowsAssumption == DEFAULT_ROWS \in Nat

IndexTypes == {"bplus", "groupkey"}
PinStrategies == {"cpu", "node"}

\* struct arguments_t, without the texts it keeps for messages.
Arguments ==
  [rows : Nat, sparsity : Nat, primary_node : Int, replicate : BOOLEAN,
   index_search : BOOLEAN, index_type : IndexTypes,
   pin_strategy : PinStrategies, verify : BOOLEAN, verbosity : Int]

defaults ==
  [rows |-> DEFAULT_ROWS, sparsity |-> DEFAULT_SPARSITY, primary_node |-> -1,
   replicate |-> FALSE, index_search |-> FALSE, index_type |-> "bplus",
   pin_strategy |-> "cpu", verify |-> FALSE, verbosity |-> 0]

\* Keys of the options; a word on its own has the key "positional".
Flags == {"e", "V", "i", "v", "q"}
Counts == {"r", "s"}
Option ==
  [key : Flags \cup {"positional"}, num : {0}, word : {""}]
    \cup [key : {"p"}, num : Int, word : {"", "text", "erange"}]
    \cup [key : Counts, num : Nat, word : {"", "text", "erange"}]
    \cup [key : {"I", "P"}, num : {0},
          word : IndexTypes \cup PinStrategies \cup {"text"}]

\* strtol and strtod: text is 0 and no error, for errno says nothing of it.
strto(o) == IF o.word = "" THEN o.num ELSE 0

Refused(o) ==
  \/ o.key \in Counts \cup {"p"} /\ o.word = "erange"
  \/ o.key = "I" /\ o.word \notin IndexTypes
  \/ o.key = "P" /\ o.word \notin PinStrategies

\* Wrong on purpose: -e leaves the search linear.
Effect_no_index(args, o) ==
  CASE o.key = "p" -> [args EXCEPT !.primary_node = strto(o)]
    [] o.key = "e" -> [args EXCEPT !.replicate = TRUE]
    [] o.key = "V" -> [args EXCEPT !.verify = TRUE]
    [] o.key = "i" -> [args EXCEPT !.index_search = TRUE]
    [] o.key = "I" -> [args EXCEPT !.index_search = TRUE, !.index_type = o.word]
    [] o.key = "r" -> [args EXCEPT !.rows = strto(o)]
    [] o.key = "s" -> [args EXCEPT !.sparsity = strto(o)]
    [] OTHER -> args

\* What a case of parse_opt does to the arguments.
Effect(args, o) ==
  CASE o.key = "p" -> [args EXCEPT !.primary_node = strto(o)]
    [] o.key = "e" -> [args EXCEPT !.replicate = TRUE, !.index_search = TRUE]
    [] o.key = "V" -> [args EXCEPT !.verify = TRUE]
    [] o.key = "i" -> [args EXCEPT !.index_search = TRUE]
    [] o.key = "I" -> [args EXCEPT !.index_search = TRUE, !.index_type = o.word]
    [] o.key = "r" -> [args EXCEPT !.rows = strto(o)]
    [] o.key = "s" -> [args EXCEPT !.sparsity = strto(o)]
    [] o.key = "P" -> [args EXCEPT !.pin_strategy = o.word]
    [] o.key = "v" -> [args EXCEPT !.verbosity = @ + 1]
    [] o.key = "q" -> [args EXCEPT !.verbosity = @ - 1]

\* A command line is its options, and whether there are other words.
\* argp_parse takes the options first, wherever the other words stand.
CommandLine == [options : Seq(Option), words : BOOLEAN]
positional == [key |-> "positional", num |-> 0, word |-> ""]
permuted(argv) == argv.options \o IF argv.words THEN <<positional>> ELSE <<>>
=============================================================================
