----------------------------- MODULE BPlusNodes -----------------------------
(***************************************************************************)
(* The memory a B+ tree lives in (src/simple/index/bplustree.hpp and the   *)
(* helpers at the top of bplustree.cpp): nodes with parent pointers, the   *)
(* doubly linked list that strings together the nodes of one level, and    *)
(* the search from the root to a leaf.                                     *)
(*                                                                         *)
(* A tree is a record                                                      *)
(*   order, entries  capacity of a non-leaf and of a leaf,                 *)
(*   level, root     height above the leaves, and the root node or NULL,   *)
(*   node            the allocated nodes, by address,                      *)
(*   link            prev and next of every node and of every list head,   *)
(*   ok              FALSE once an assert() of the code has failed.        *)
(* An address is a positive number, a list head a negative one.  Touching  *)
(* a freed node is an application outside DOMAIN node, an error to TLC.    *)
(*                                                                         *)
(* An array is a sequence that holds its valid slots only.  Indices are    *)
(* the source's, counted from 0; At and Slice turn them into positions.    *)
(***************************************************************************)
EXTENDS Integers, Sequences, FiniteSets

CONSTANT MaxLevel          \* BPLUS_MAX_LEVEL, the length of tree->list

NULL == 0
ListHead(l) == -(l + 1)
ListHeads == {ListHead(l) : l \in 0..(MaxLevel - 1)}

At(s, i) == s[i + 1]
Slice(s, i, j) == SubSeq(s, i + 1, j + 1)
SliceFrom(s, i) == SubSeq(s, i + 1, Len(s))
SetAt(s, i, v) == [s EXCEPT ![i + 1] = v]
Without(s, i) == Slice(s, 0, i - 1) \o SliceFrom(s, i + 1)

-----------------------------------------------------------------------------
\* bplus_tree_initi.  The level is left as found: the caller cleared the struct.
EmptyTree(order, entries) ==
  [ order |-> order, entries |-> entries, level |-> 0, root |-> NULL,
    node |-> <<>>, link |-> [h \in ListHeads |-> [prev |-> h, next |-> h]],
    ok |-> TRUE ]

leaf_new == [type |-> "leaf", parent |-> NULL, parent_key_idx |-> -1,
             key |-> <<>>, data |-> <<>>]
non_leaf_new == [type |-> "non_leaf", parent |-> NULL, parent_key_idx |-> -1,
                 key |-> <<>>, sub_ptr |-> <<>>]

is_leaf(t, n) == t.node[n].type = "leaf"
entries(t, n) == Len(t.node[n].key)
children(t, n) == Len(t.node[n].sub_ptr)

\* The address calloc hands out: the lowest that is free.
Fresh(t) == CHOOSE n \in 1..(Cardinality(DOMAIN t.node) + 1) :
              /\ n \notin DOMAIN t.node
              /\ \A m \in 1..(n - 1) : m \in DOMAIN t.node

\* f with v at n.
With(f, n, v) == [x \in DOMAIN f \cup {n} |-> IF x = n THEN v ELSE f[x]]

Store(t, n, rec) == [t EXCEPT !.node = With(@, n, rec)]

\* Wrong on purpose: only the predecessor learns of the new node.
__list_add_one_way(t, n, prev, next) ==
  [t EXCEPT !.link = [With(t.link, n, [prev |-> prev, next |-> next]) EXCEPT ![prev].next = n]]

\* __list_add and list_add: a new node goes between two neighbours of a level.
__list_add(t, n, prev, next) ==
  LET linked == With(t.link, n, [prev |-> prev, next |-> next])
      behind == [linked EXCEPT ![next].prev = n]
  IN [t EXCEPT !.link = [behind EXCEPT ![prev].next = n]]
list_add(t, n, prev) == __list_add(t, n, prev, t.link[prev].next)

\* Wrong on purpose: the node is freed while its level still lists it.
node_delete_listed(t, n) == [t EXCEPT !.node = [x \in DOMAIN @ \ {n} |-> @[x]]]

\* leaf_delete and non_leaf_delete: unlink, then free.
node_delete(t, n) ==
  LET prev == t.link[n].prev
      next == t.link[n].next
      ahead == [t.link EXCEPT ![prev].next = next]
      unlinked == [ahead EXCEPT ![next].prev = prev]
  IN [t EXCEPT !.link = [x \in DOMAIN unlinked \ {n} |-> unlinked[x]],
               !.node = [x \in DOMAIN @ \ {n} |-> @[x]]]

\* The children of p at the indices I, and the index of one of them.
Among(t, p, I) == {At(t.node[p].sub_ptr, i) : i \in I}
IndexOf(t, p, I, c) == CHOOSE i \in I : At(t.node[p].sub_ptr, i) = c

\* Wrong on purpose: the index is left as it was.
Adopt_parent_only(t, p, I) ==
  [t EXCEPT !.node = [n \in DOMAIN @ |->
     IF n \in Among(t, p, I) THEN [t.node[n] EXCEPT !.parent = p] ELSE t.node[n]]]
Renumber_nothing(t, p, I) == t

\* The children of p at the indices I are told who their parent is and which
\* of its keys they hang off; Renumber tells them the latter only.
Adopt(t, p, I) ==
  [t EXCEPT !.node = [n \in DOMAIN @ |->
     IF n \in Among(t, p, I)
     THEN [t.node[n] EXCEPT !.parent = p, !.parent_key_idx = IndexOf(t, p, I, n) - 1]
     ELSE t.node[n]]]
Renumber(t, p, I) ==
  [t EXCEPT !.node = [n \in DOMAIN @ |->
     IF n \in Among(t, p, I)
     THEN [t.node[n] EXCEPT !.parent_key_idx = IndexOf(t, p, I, n) - 1]
     ELSE t.node[n]]]

Indices(s) == 0..(Len(s) - 1)

-----------------------------------------------------------------------------
\* The index of target in arr, or -(insertion point) - 1.
key_binary_search(arr, target) ==
  LET search[w \in (-1..Len(arr)) \X (0..Len(arr))] ==
        LET low == w[1]
            high == w[2]
            mid == low + (high - low) \div 2
        IN IF low + 1 >= high THEN high
           ELSE IF target > At(arr, mid) THEN search[<<mid, high>>] ELSE search[<<low, mid>>]
      high == search[<<-1, Len(arr)>>]
  IN IF high >= Len(arr) \/ At(arr, high) # target THEN -high - 1 ELSE high

\* Wrong on purpose: left of an equal separator.
child_for_left(t, n, k) ==
  LET i == key_binary_search(t.node[n].key, k)
  IN At(t.node[n].sub_ptr, IF i >= 0 THEN i ELSE -i - 1)

\* The child to visit for a key: right of an equal separator.
child_for(t, n, k) ==
  LET i == key_binary_search(t.node[n].key, k)
  IN At(t.node[n].sub_ptr, IF i >= 0 THEN i + 1 ELSE -i - 1)

\* The loop that bplus_tree_search, _insert, _delete and _get_range share.
leaf_for(t, k) ==
  LET descend[n \in DOMAIN t.node] ==
        IF is_leaf(t, n) THEN n ELSE descend[child_for(t, n, k)]
  IN descend[t.root]

bplus_tree_get(t, k) ==
  IF t.root = NULL THEN -1
  ELSE LET leaf == t.node[leaf_for(t, k)]
           i == key_binary_search(leaf.key, k)
       IN IF i >= 0 THEN At(leaf.data, i) ELSE -1
=============================================================================
