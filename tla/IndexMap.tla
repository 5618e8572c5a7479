------------------------------ MODULE IndexMap ------------------------------
(***************************************************************************)
(* What an index promises its callers, as the benchmark uses it through    *)
(* the function table of struct index_t (src/simple/index/index.hpp):      *)
(* put(key, position) files a row position under a key, get(key) answers   *)
(* with a position filed under that key or with -1.                        *)
(*                                                                         *)
(* The module is the abstract specification that the concrete indexes are  *)
(* shown to implement.  It says nothing about nodes, arrays or capacity.   *)
(***************************************************************************)
EXTENDS Integers

CONSTANTS
  Keys,        \* the keys an index may be asked about
  Positions,   \* the row positions that may be filed
  UniqueKeys   \* TRUE: a key holds one position and put refuses a second one

VARIABLES
  stored,      \* the set of <<key, position>> pairs filed so far
  reply        \* what the last operation returned to its caller

vars == <<stored, reply>>

\* The code's two return codes of a modifying call: 0 for success, and the
\* -1 that also serves get as "not found".
Success == 0
NotFound == -1
\* What a put returns that found no memory.
OutOfMemory == 2

PositionsOf(k) == {v \in Positions : <<k, v>> \in stored}

\* The answers get may give for key k in the current state.
Answers(k) == IF PositionsOf(k) = {} THEN {NotFound} ELSE PositionsOf(k)

Init ==
  /\ stored = {}
  /\ reply = Success

Put(k, v) ==
  /\ UniqueKeys => PositionsOf(k) = {}
  /\ stored' = stored \cup {<<k, v>>}
  /\ reply' = Success

\* A unique index leaves the filed position alone and tells the caller so.
RefusePut(k) ==
  /\ UniqueKeys
  /\ PositionsOf(k) # {}
  /\ reply' = NotFound
  /\ UNCHANGED stored

\* A put that fails files nothing and loses nothing.
FailPut ==
  /\ reply' = OutOfMemory
  /\ UNCHANGED stored

Delete(k) ==
  /\ PositionsOf(k) # {}
  /\ stored' = {kv \in stored : kv[1] # k}
  /\ reply' = Success

DeleteAbsent(k) ==
  /\ PositionsOf(k) = {}
  /\ reply' = NotFound
  /\ UNCHANGED stored

Next ==
  \/ \E k \in Keys, v \in Positions : Put(k, v)
  \/ FailPut
  \/ \E k \in Keys : RefusePut(k) \/ Delete(k) \/ DeleteAbsent(k)

Spec == Init /\ [][Next]_vars
=============================================================================
