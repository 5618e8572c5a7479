------------------------------ MODULE GroupKey ------------------------------
(***************************************************************************)
(* The group-key index (src/simple/index/groupkey.cpp): a sorted array of  *)
(* the distinct keys, an offset for each of them, and the postings, where  *)
(* the positions filed under one key lie side by side from its offset on.  *)
(*                                                                         *)
(* The arrays grow by CAPACITY_INCREMENT slots and only ever gain entries, *)
(* so the slots behind the last entry have never been written.  The code   *)
(* reads the first of them: get and put compare its value with a key       *)
(* greater than all others, and posting_insert takes its offset for the    *)
(* end of the last group.  What such a read yields is a choice among       *)
(* JunkValues and JunkOffsets.                                             *)
(*                                                                         *)
(* Arrays are indexed from 0, as in the source.                            *)
(***************************************************************************)
EXTENDS Integers, Sequences, FiniteSets, SequencesExt

CONSTANTS
  Keys,                \* the keys that are put and looked up
  Positions,           \* the row positions that may be filed
  JunkValues,          \* what an unwritten slot of unique.values may hold
  JunkOffsets,         \* what an unwritten slot of unique.offsets may hold
  CAPACITY_INCREMENT,  \* slots that realloc adds to an array
  MaxPostings          \* bound: successful puts

ASSUME GroupKeyAssumption ==
  /\ Keys \subseteq Int
  /\ Positions \subseteq Nat
  /\ JunkValues \subseteq Int /\ JunkValues # {}
  /\ JunkOffsets \subseteq Nat /\ JunkOffsets # {}
  /\ CAPACITY_INCREMENT \in Nat \ {0}
  /\ MaxPostings \in Nat

VARIABLES
  values,    \* unique.values, up to unique.n
  offsets,   \* unique.offsets, up to unique.n
  postings,  \* index.postings, up to index.n
  reply      \* what the last put returned, or Crash

vars == <<values, offsets, postings, reply>>

Crash == 139

At(s, i) == s[i + 1]
Read(s, i, junk) == IF i < Len(s) THEN At(s, i) ELSE junk
Insert(s, i, x) == InsertAt(s, i + 1, x)

-----------------------------------------------------------------------------
\* Wrong on purpose: behind an equal element.
lower_bound_behind(v, k, from, to) ==
  LET search[w \in (0..to) \X (0..to)] ==
        LET l == w[1]
            r == w[2]
            m == (l + r) \div 2
        IN IF l >= r THEN l
           ELSE IF At(v, m) <= k THEN search[<<m + 1, r>>] ELSE search[<<l, m>>]
  IN search[<<from, to>>]

\* The loop of binary_search and of posting_insert: the first index between
\* from and to whose element is not below k.
lower_bound(v, k, from, to) ==
  LET search[w \in (0..to) \X (0..to)] ==
        LET l == w[1]
            r == w[2]
            m == (l + r) \div 2
        IN IF l >= r THEN l
           ELSE IF At(v, m) < k THEN search[<<m + 1, r>>] ELSE search[<<l, m>>]
  IN search[<<from, to>>]

binary_search(k) == lower_bound(values, k, 0, Len(values))

\* Where posting_insert ends up searching from l to r.  Behind the last
\* posting it compares with unwritten memory.
Places(v, l, r) ==
  CASE l >= r -> {l}
    [] l < r /\ r <= Len(postings) -> {lower_bound(postings, v, l, r)}
    [] l < r /\ r > Len(postings) -> l..r

-----------------------------------------------------------------------------
\* groupkey_prepare
Init ==
  /\ values = <<>>
  /\ offsets = <<>>
  /\ postings = <<>>
  /\ reply = 0

\* populate_data_index, the only caller of put, gives up at the first error.
InUse == reply = 0

\* The key has to be entered, given what the slot at its place reads as.
IsNew(k, junk) == values = <<>> \/ Read(values, binary_search(k), junk) # k

\* Wrong on purpose: the new group starts behind all others wherever the key
\* stands, and no group is started at all.
value_insert_at_end(k) ==
  LET pos == binary_search(k)
  IN [values |-> Insert(values, pos, k), offsets |-> Insert(offsets, pos, Len(postings))]
value_insert_alone(k) ==
  [values |-> Insert(values, binary_search(k), k), offsets |-> offsets]

\* value_insert: a new key has an empty group, where the next one starts.
value_insert(k) ==
  LET pos == binary_search(k)
  IN [values |-> Insert(values, pos, k),
      offsets |-> Insert(offsets, pos, Read(offsets, pos, Len(postings)))]

\* Wrong on purpose: the postings do not make room, or the groups behind stay
\* where they were.
posting_insert_over(unique, v, value_pos, place) ==
  /\ place <= Len(postings)
  /\ postings' = (IF place < Len(postings) THEN [postings EXCEPT ![place + 1] = v]
                  ELSE Append(postings, v))
  /\ values' = unique.values
  /\ offsets' = unique.offsets
  /\ reply' = 0
posting_insert_offsets_kept(unique, v, value_pos, place) ==
  /\ place <= Len(postings)
  /\ postings' = Insert(postings, place, v)
  /\ values' = unique.values
  /\ offsets' = unique.offsets
  /\ reply' = 0

\* posting_insert at a place: the groups of the greater keys move up.  Where
\* the place is beyond the postings, the length of the memmove underflows.
posting_insert(unique, v, value_pos, place) ==
  /\ place <= Len(postings)
  /\ postings' = Insert(postings, place, v)
  /\ values' = unique.values
  /\ offsets' = [i \in DOMAIN unique.offsets |->
                   unique.offsets[i] + IF i > value_pos + 1 THEN 1 ELSE 0]
  /\ reply' = 0

posting_insert_crashes(place) ==
  /\ place > Len(postings)
  /\ reply' = Crash
  /\ UNCHANGED <<values, offsets, postings>>

\* groupkey_put
Put(k, v, junk, end) ==
  LET pos == binary_search(k)
      unique == IF IsNew(k, junk) THEN value_insert(k)
                ELSE [values |-> values, offsets |-> offsets]
      l == Read(unique.offsets, pos, end)
      r == IF pos < Len(unique.values) THEN Read(unique.offsets, pos + 1, end)
           ELSE Len(postings)
  IN /\ InUse /\ Len(postings) < MaxPostings
     /\ \E place \in Places(v, l, r) :
          posting_insert(unique, v, pos, place) \/ posting_insert_crashes(place)

\* An array at its capacity has to grow before it takes another entry.
Full(s) == Len(s) % CAPACITY_INCREMENT = 0

\* value_insert finds no memory: nothing has changed.
ValueFails(k, junk) ==
  /\ InUse /\ IsNew(k, junk) /\ Full(values)
  /\ reply' = 2
  /\ UNCHANGED <<values, offsets, postings>>

\* Wrong on purpose: the groups behind move up before the memory is asked for.
PostingFails_moved(k, junk) ==
  LET unique == IF IsNew(k, junk) THEN value_insert(k)
                ELSE [values |-> values, offsets |-> offsets]
  IN /\ InUse /\ Full(postings)
     /\ values' = unique.values
     /\ offsets' = [i \in DOMAIN unique.offsets |->
                      unique.offsets[i] + IF i > binary_search(k) + 1 THEN 1 ELSE 0]
     /\ reply' = 2
     /\ UNCHANGED postings

\* posting_insert finds none: the key stays, with an empty group.
PostingFails(k, junk) ==
  /\ InUse /\ Full(postings)
  /\ values' = (IF IsNew(k, junk) THEN value_insert(k).values ELSE values)
  /\ offsets' = (IF IsNew(k, junk) THEN value_insert(k).offsets ELSE offsets)
  /\ reply' = 2
  /\ UNCHANGED postings

Next ==
  \E k \in Keys, junk \in JunkValues :
    \/ \E v \in Positions, end \in JunkOffsets : Put(k, v, junk, end)
    \/ ValueFails(k, junk)
    \/ PostingFails(k, junk)

Spec == Init /\ [][Next]_vars

-----------------------------------------------------------------------------
\* groupkey_get: the answers it may give in an index with entries.  A posting
\* that is read behind the last one may be anything, Crash here.
Posting(i) == Read(postings, i, Crash)
get(k) ==
  LET pos == binary_search(k)
      absent == IF \E junk \in JunkValues : junk # k THEN {-1} ELSE {}
      found == IF k \in JunkValues THEN {Posting(end) : end \in JunkOffsets} ELSE {}
  IN CASE pos < Len(values) /\ At(values, pos) # k -> {-1}
       [] pos < Len(values) /\ At(values, pos) = k -> {Posting(At(offsets, pos))}
       [] pos = Len(values) -> absent \cup found

-----------------------------------------------------------------------------
\* The positions of the group of the i-th key, and what the index holds.
GroupEnd(i) == IF i = Len(values) THEN Len(postings) ELSE offsets[i + 1]
Group(i) == {postings[j] : j \in (offsets[i] + 1)..GroupEnd(i)}
stored == UNION {{<<values[i], v>> : v \in Group(i)} : i \in DOMAIN values}

Map == INSTANCE IndexMap WITH UniqueKeys <- FALSE

\* Type invariant: the two arrays of unique are parallel, and offsets point
\* into the postings.
TypeOK ==
  /\ values \in Seq(Keys)
  /\ offsets \in Seq(0..Len(postings))
  /\ Len(offsets) = Len(values)
  /\ postings \in Seq(Positions)
  /\ reply \in {0, 2, Crash}

\* The keys stay distinct and sorted, whatever the unwritten slots hold: a
\* search that has been led astray by one has not spoilt the next search.
KeysSorted == \A i \in 1..(Len(values) - 1) : values[i] < values[i + 1]

\* No put loses a key or a position, whatever the unwritten slots hold.
Times(v) == Cardinality({i \in DOMAIN postings : postings[i] = v})
NothingLost ==
  [][/\ ToSet(values) \subseteq ToSet(values')
     /\ \A v \in Positions : Times(v) <= Times(v)']_vars

\* The groups of all keys together are the postings, in the order of the keys
\* and without a gap; only a key whose put ran out of memory has an empty
\* group.  The offset of every key must be kept in step with insertions at
\* any other key.
GroupsPartition ==
  /\ postings # <<>> => offsets[1] = 0
  /\ \A i \in DOMAIN values : offsets[i] <= GroupEnd(i)
  /\ InUse => \A i \in DOMAIN values : offsets[i] < GroupEnd(i)

\* As long as no put has failed, get answers for every key with a position
\* filed under that key, or with -1 when there is none.
GetAnswers ==
  InUse /\ values # <<>> => \A k \in Keys : get(k) \subseteq Map!Answers(k)

\* The index implements the abstract one: a put files its position under its
\* key and disturbs no other, and one that fails files and loses nothing.
ImplementsIndexMap == Map!Spec

\* groupkey.cpp:104 says of the -1 that the key was not found, and get says so
\* of every key that has no position.
AbsentIsNotFound ==
  InUse /\ values # <<>> =>
    \A k \in Keys : Map!Answers(k) = {-1} => get(k) = {-1}
=============================================================================
