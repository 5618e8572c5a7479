----------------------------- MODULE BPlusTree -----------------------------
(***************************************************************************)
(* The B+ tree index (src/simple/index/bplustree.cpp) as one thread drives *)
(* it: puts, deletes and lookups in any order.  Each operation of the      *)
(* library is one action.  The tree has no lock: a replica is built by one *)
(* thread and then only read, so operations do not overlap.                *)
(*                                                                         *)
(* get and get_range change nothing, so they are operators, and what they  *)
(* return is checked in every reachable state.                             *)
(***************************************************************************)
EXTENDS BPlusPut, BPlusDelete, SequencesExt

CONSTANTS
  Shapes,    \* the <<order, entries>> a tree may be initialised with
  Inputs,    \* the <<key, position>> pairs that may be put
  Probes     \* the keys that may be looked up or deleted

\* bplus_tree_initi demands an order of more than two, and a leaf without room
\* cannot be split; keys and positions are ints.
ASSUME BPlusAssumption ==
  /\ MaxLevel \in Nat \ {0}
  /\ Shapes \subseteq (Nat \ 0..2) \X (Nat \ {0})
  /\ Inputs \subseteq Int \X Int
  /\ Probes \subseteq Int
  /\ {kd[1] : kd \in Inputs} \subseteq Probes

VARIABLES
  tree,      \* struct bplus_tree and the memory reachable from it
  reply      \* return code of the last put or delete

vars == <<tree, reply>>

-----------------------------------------------------------------------------
Init ==
  /\ \E s \in Shapes : tree = EmptyTree(s[1], s[2])
  /\ reply = 0

Put(k, d) ==
  /\ ~exists(tree, k)
  /\ tree' = bplus_tree_insert(tree, k, d)
  /\ reply' = 0

PutExisting(k) ==
  /\ exists(tree, k)
  /\ reply' = -1
  /\ UNCHANGED tree

Del(k) ==
  /\ exists(tree, k)
  /\ tree' = bplus_tree_delete(tree, k)
  /\ reply' = 0

DelAbsent(k) ==
  /\ ~exists(tree, k)
  /\ reply' = -1
  /\ UNCHANGED tree

Next ==
  \/ \E kd \in Inputs : Put(kd[1], kd[2]) \/ PutExisting(kd[1])
  \/ \E k \in Probes : Del(k) \/ DelAbsent(k)

Spec == Init /\ [][Next]_vars

\* The tree as the program drives it: the table of index_prepare (index.cpp, lines
\* 24 to 27) holds get and put only, and nothing calls bplus_tree_del.
BuildNext == \E kd \in Inputs : Put(kd[1], kd[2]) \/ PutExisting(kd[1])
BuildSpec == Init /\ [][BuildNext]_vars

-----------------------------------------------------------------------------
\* The nodes of each level from left to right, by following sub_ptr from the
\* root; level 0 are the leaves.
layers ==
  LET layer[l \in 0..tree.level] ==
        IF l = tree.level THEN <<tree.root>>
        ELSE LET above == layer[l + 1]
             IN FlattenSeq([i \in 1..Len(above) |-> tree.node[above[i]].sub_ptr])
  IN IF tree.root = NULL THEN [l \in {0} |-> <<>>] ELSE layer

Nodes == DOMAIN tree.node
Leaves == {n \in Nodes : is_leaf(tree, n)}
NonLeaves == Nodes \ Leaves

\* The keys in the leaves below each node.
under ==
  LET keys[n \in Nodes] ==
        IF is_leaf(tree, n) THEN ToSet(tree.node[n].key)
        ELSE UNION {keys[c] : c \in ToSet(tree.node[n].sub_ptr)}
  IN keys

Ascending(s) == \A i \in 1..(Len(s) - 1) : s[i] < s[i + 1]

stored ==
  UNION {{<<tree.node[n].key[i], tree.node[n].data[i]>> :
             i \in 1..entries(tree, n)} : n \in Leaves}

Map == INSTANCE IndexMap
         WITH Keys <- Probes, Positions <- {kd[2] : kd \in Inputs}, UniqueKeys <- TRUE

-----------------------------------------------------------------------------
\* get_range: the position of the greatest key in the range, or -1 once the
\* last leaf has been read to its end.  Where the first key is looked for
\* behind the last entry of a leaf, the index is kept although the leaf
\* changes: the slot read may be a stale one, whatever it holds.
scan(t, n, i, max) ==
  LET leaves == {m \in DOMAIN t.node : is_leaf(t, m)}
      locals == {v \in [ln : leaves, i : Nat, data : Int] : v.i < entries(t, v.ln)}
      loop[v \in locals] ==
        LET key == At(t.node[v.ln].key, v.i)
            data == At(t.node[v.ln].data, v.i)
            next == t.link[v.ln].next
        IN IF key > max THEN {v.data}
           ELSE IF v.i + 1 < entries(t, v.ln) THEN loop[[ln |-> v.ln, i |-> v.i + 1, data |-> data]]
           ELSE IF next \in ListHeads THEN {-1}
           ELSE loop[[ln |-> next, i |-> 0, data |-> data]]
  IN loop[[ln |-> n, i |-> i, data |-> 0]]

range_from(t, min, max) ==
  LET leaf == leaf_for(t, min)
      found == key_binary_search(t.node[leaf].key, min)
      i == IF found >= 0 THEN found ELSE -found - 1
      next == t.link[leaf].next
      anything == {kd[2] : kd \in Inputs} \cup {0, -1}
  IN CASE t.root = NULL -> {0}
       [] t.root # NULL /\ i < entries(t, leaf) -> scan(t, leaf, i, max)
       [] t.root # NULL /\ i >= entries(t, leaf) ->
            IF next \in ListHeads THEN {-1}
            ELSE IF i < entries(t, next) THEN scan(t, next, i, max) ELSE anything

\* Wrong on purpose: the first key is taken for the smaller one.
get_range_unordered(t, key1, key2) == range_from(t, key1, key2)

get_range(t, key1, key2) ==
  IF key1 <= key2 THEN range_from(t, key1, key2) ELSE range_from(t, key2, key1)

-----------------------------------------------------------------------------
\* Type invariant: nodes carry as much as the code's arrays can hold, and
\* pointers lead to allocated nodes.
TypeOK ==
  /\ reply \in {0, -1}
  /\ tree.level \in 0..(MaxLevel - 1)
  /\ tree.root \in Nodes \cup {NULL}
  /\ DOMAIN tree.link = Nodes \cup ListHeads
  /\ \A n \in Nodes : tree.node[n].parent \in NonLeaves \cup {NULL}
  /\ \A n \in Leaves : /\ Len(tree.node[n].data) = entries(tree, n)
                       /\ entries(tree, n) <= tree.entries
  /\ \A n \in NonLeaves : /\ children(tree, n) = entries(tree, n) + 1
                          /\ children(tree, n) <= tree.order
                          /\ ToSet(tree.node[n].sub_ptr) \subseteq Nodes

\* The doubly linked list of each level holds exactly the nodes of that level,
\* in the order in which the tree holds them, forwards and backwards; no node
\* is lost or left behind.  Sibling selection, merging and range scans take
\* neighbours from these lists while everything else follows sub_ptr.
LevelListsMatchLayers ==
  /\ Nodes = UNION {ToSet(layers[l]) : l \in DOMAIN layers}
  /\ \A l \in 0..(MaxLevel - 1) :
       LET ring == <<ListHead(l)>> \o (IF l \in DOMAIN layers THEN layers[l] ELSE <<>>)
           after(i) == ring[(i % Len(ring)) + 1]
       IN \A i \in 1..Len(ring) :
            /\ tree.link[ring[i]].next = after(i)
            /\ tree.link[after(i)].prev = ring[i]

\* Every node but the root knows its parent and which key of the parent it
\* hangs off: the next delete below it edits the parent at that index.
ParentsExact ==
  /\ tree.root # NULL => tree.node[tree.root].parent = NULL
  /\ \A p \in NonLeaves : \A i \in Indices(tree.node[p].sub_ptr) :
       LET child == tree.node[At(tree.node[p].sub_ptr, i)]
       IN child.parent = p /\ child.parent_key_idx = i - 1

\* A separator routes correctly: keys below it are on its left, the others on
\* its right, also after the key it was copied from has been deleted.
SeparatorsRoute ==
  /\ \A n \in Nodes : Ascending(tree.node[n].key)
  /\ \A p \in NonLeaves : \A i \in Indices(tree.node[p].key) :
       LET separator == At(tree.node[p].key, i)
       IN /\ \A k \in under[At(tree.node[p].sub_ptr, i)] : k < separator
          /\ \A k \in under[At(tree.node[p].sub_ptr, i + 1)] : k >= separator

\* No node but the root is ever emptier than the smaller part of a split, so
\* borrowing and merging always find something to work on.
Occupancy ==
  /\ \A n \in Leaves \ {tree.root} : entries(tree, n) >= Half(tree.entries)
  /\ \A n \in NonLeaves : children(tree, n) >= 2
  /\ \A n \in NonLeaves \ {tree.root} : children(tree, n) >= tree.order \div 2

\* None of the assertions of the code fails (lines 260, 297, 381, 579, 619, 756).
NoAssertFails == tree.ok

\* get answers for every key what the puts and deletes so far have filed.
GetAnswers == \A k \in Probes : bplus_tree_get(tree, k) \in Map!Answers(k)

\* A range that starts at a stored key and does not run off the last leaf
\* yields the position filed under its greatest key, whichever way round the
\* two keys are given: the scan relies on the order of the leaf list.
RangeFromPresentKey ==
  LET keys == {kd[1] : kd \in stored}
  IN \A k1 \in keys : \A k2 \in Probes :
       (k1 <= k2 /\ \E k \in keys : k > k2) =>
         LET greatest == CHOOSE kd \in stored :
               kd[1] <= k2 /\ \A k \in keys : k <= kd[1] \/ k > k2
         IN /\ get_range(tree, k1, k2) = {greatest[2]}
            /\ get_range(tree, k2, k1) = {greatest[2]}

\* The tree implements the abstract index: every step is a put, a refused put,
\* a delete or a refused delete of the map, with the reply the map gives.
ImplementsIndexMap == Map!Spec
=============================================================================
