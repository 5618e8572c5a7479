---------------------------- MODULE MCDataSetup ----------------------------
(***************************************************************************)
(* Command lines and machines for TLC.                                     *)
(***************************************************************************)
EXTENDS DataSetup

flag(key) == [key |-> key, num |-> 0, word |-> ""]
number(key, n) == [key |-> key, num |-> n, word |-> ""]
named(key, word) == [key |-> key, num |-> 0, word |-> word]

\* Sizes, of one row and two values by default: two rows of two values, and of
\* three; none, too few values, no number at all, and one that is out of range.
Sizes ==
  {<<>>, <<number("r", 2), number("s", 2)>>, <<number("s", 3), number("r", 2)>>,
   <<number("r", 0)>>, <<number("s", 1)>>, <<named("r", "text")>>, <<named("r", "erange")>>}
\* What is searched, on which node, and what is built.
Searches ==
  {<<flag("V")>>, <<flag("i"), number("p", 3)>>, <<flag("V"), named("I", "groupkey")>>,
   <<number("p", 2), flag("i"), flag("V")>>, <<named("p", "text"), flag("i")>>, <<number("p", 1)>>,
   <<flag("e")>>, <<named("I", "groupkey"), flag("V"), flag("e")>>}
\* Sizes at the edge of an int: a negative value; rows whose number, and whose
\* positions, are no ints; values whose number is 0, and that repeat.
EdgeSizes ==
  {<<number("r", 2)>>, <<number("r", 3), number("s", 2)>>, <<number("r", 4), number("s", 2)>>,
   <<number("r", 4), number("s", 3)>>, <<number("r", 2), number("s", 7)>>}
EdgeSearches ==
  {<<>>, <<flag("V"), flag("i"), number("p", 0)>>, <<number("p", 0), named("I", "groupkey"), flag("V")>>}
\* Replicas with repeated and with negative values.
EdgeReplicas ==
  {<<flag("e"), number("p", 0), number("r", 2), number("s", 7)>>,
   <<flag("e"), number("p", 0), number("r", 2), named("I", "groupkey")>>}
Others ==
  {[options |-> <<named("I", "text"), flag("e")>>, words |-> FALSE],
   [options |-> <<named("P", "text")>>, words |-> TRUE],
   [options |-> <<named("P", "node"), flag("v"), flag("q")>>, words |-> TRUE]}

MCCommandLines ==
  Others \cup {[options |-> s \o t, words |-> FALSE] : s \in Sizes, t \in Searches}
    \cup {[options |-> s \o t, words |-> FALSE] : s \in EdgeSizes, t \in EdgeSearches}
    \cup {[options |-> s, words |-> FALSE] : s \in EdgeReplicas}
MCCpuNodes == {{0}, {0, 1}, {0, 2}}
MCNodes == 0..2
\* Physical ids may have gaps.
MCPhysical == [id \in {0, 2, 3} |-> IF id = 0 THEN 0 ELSE id - 1]
=============================================================================
