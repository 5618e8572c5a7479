---------------------------- MODULE BPlusDelete ----------------------------
(***************************************************************************)
(* bplus_tree_del (src/simple/index/bplustree.cpp, lines 470 to 805): a    *)
(* key leaves its leaf; a leaf at its lower bound borrows from a sibling   *)
(* or merges with it, and a merge removes a key of the parent, and so on   *)
(* towards the root.                                                       *)
(*                                                                         *)
(* The recursion of non_leaf_remove is a climb: each call takes the tree   *)
(* and what is still to be removed,                                        *)
(*   node    the non-leaf that loses a key and the child behind it, or     *)
(*           NULL when nothing is left to do                               *)
(*   remove  the index of that key                                         *)
(* and gives the same for the level above.                                 *)
(***************************************************************************)
EXTENDS BPlusNodes

Removed(t) == [tree |-> t, node |-> NULL, remove |-> 0]
\* Wrong on purpose: the key before it.
RemoveFrom_before(t, node, remove) == [tree |-> t, node |-> node, remove |-> remove - 1]
RemoveFrom(t, node, remove) == [tree |-> t, node |-> node, remove |-> remove]

\* Wrong on purpose: the bound of an odd capacity is rounded down.
Least_down(m) == m \div 2

\* The lower bound of a node of capacity m.
Least(m) == (m + 1) \div 2

prev_entry(t, n) == t.link[n].prev
next_entry(t, n) == t.link[n].next

\* leaf_sibling_select and non_leaf_sibling_select: the neighbour in the list
\* of the level to borrow from, for child number i + 1 of parent.  size is what
\* the two kinds of node count.
size(t, n) == IF is_leaf(t, n) THEN entries(t, n) ELSE children(t, n)
sibling_is_left(t, n) ==
  LET i == t.node[n].parent_key_idx
  IN /\ i # -1
     /\ \/ i = children(t, t.node[n].parent) - 2
        \/ size(t, prev_entry(t, n)) >= size(t, next_entry(t, n))

-----------------------------------------------------------------------------
\* The children behind the removed one move up and are renumbered.
non_leaf_simple_remove(t, node, remove) ==
  LET removed == [t EXCEPT !.node[node].key = Without(@, remove),
                           !.node[node].sub_ptr = Without(@, remove + 1),
                           !.ok = @ /\ children(t, node) >= 2]
  IN Renumber(removed, node, (remove + 1)..(children(removed, node) - 1))

\* The separator comes down, the last key of the left sibling goes up.
non_leaf_shift_from_left(t, node, left, i, remove) ==
  LET up == t.node[node].parent
      l == t.node[left]
      last == children(t, left) - 1
      shifted ==
        [t EXCEPT
           !.node[node].key = <<At(t.node[up].key, i)>> \o Without(@, remove),
           !.node[node].sub_ptr = <<At(l.sub_ptr, last)>> \o Without(@, remove + 1),
           !.node[up].key = SetAt(@, i, At(l.key, last - 1)),
           !.node[left].key = Slice(@, 0, last - 2),
           !.node[left].sub_ptr = Slice(@, 0, last - 1)]
  IN Adopt(Renumber(shifted, node, 1..(remove + 1)), node, {0})

non_leaf_merge_into_left(t, node, left, i, remove) ==
  LET old == t.node[node]
      from == children(t, left)
      merged ==
        [t EXCEPT
           !.node[left].key = @ \o <<At(t.node[old.parent].key, i)>> \o Without(old.key, remove),
           !.node[left].sub_ptr = @ \o Without(old.sub_ptr, remove + 1)]
  IN node_delete(Adopt(merged, left, from..(children(merged, left) - 1)), node)

\* Wrong on purpose: the separator comes down and nothing goes up.
non_leaf_shift_from_right_no_rotation(t, node, right, i) ==
  LET shifted ==
        [t EXCEPT
           !.node[node].key = Append(@, At(t.node[t.node[node].parent].key, i)),
           !.node[node].sub_ptr = Append(@, At(t.node[right].sub_ptr, 0)),
           !.node[right].key = Tail(@),
           !.node[right].sub_ptr = Tail(@)]
  IN Renumber(Adopt(shifted, node, {children(t, node)}), right, 0..(children(t, right) - 2))

\* The separator comes down, the first key of the right sibling goes up.
non_leaf_shift_from_right(t, node, right, i) ==
  LET up == t.node[node].parent
      r == t.node[right]
      shifted ==
        [t EXCEPT
           !.node[node].key = Append(@, At(t.node[up].key, i)),
           !.node[node].sub_ptr = Append(@, At(r.sub_ptr, 0)),
           !.node[up].key = SetAt(@, i, At(r.key, 0)),
           !.node[right].key = Tail(@),
           !.node[right].sub_ptr = Tail(@)]
      adopted == Adopt(shifted, node, {children(t, node)})
  IN Renumber(adopted, right, 0..(children(t, right) - 2))

non_leaf_merge_from_right(t, node, right, i) ==
  LET r == t.node[right]
      from == children(t, node)
      merged ==
        [t EXCEPT
           !.node[node].key = @ \o <<At(t.node[t.node[node].parent].key, i)>> \o r.key,
           !.node[node].sub_ptr = @ \o r.sub_ptr]
  IN node_delete(Adopt(merged, node, from..(children(merged, node) - 1)), right)

\* The root has one child left, which becomes the root.
drop_root(t, node, remove) ==
  LET child == At(t.node[node].sub_ptr, 0)
      orphaned == [t EXCEPT !.ok = @ /\ remove = 0,
                            !.node[child].parent = NULL,
                            !.root = child,
                            !.level = @ - 1]
  IN node_delete(orphaned, node)

non_leaf_remove(s) ==
  LET t == s.tree
      node == s.node
      least == Least(t.order)
      i == t.node[node].parent_key_idx
      up == t.node[node].parent
      prev == prev_entry(t, node)
      next == next_entry(t, node)
      simple == non_leaf_simple_remove(t, node, s.remove)
  IN CASE size(t, node) > least -> Removed(simple)
       [] size(t, node) <= least /\ up = NULL ->
            Removed(IF size(t, node) = 2 THEN drop_root(t, node, s.remove) ELSE simple)
       [] size(t, node) <= least /\ up # NULL /\ sibling_is_left(t, node) ->
            IF size(t, prev) > least
            THEN Removed(non_leaf_shift_from_left(t, node, prev, i, s.remove))
            ELSE RemoveFrom(non_leaf_merge_into_left(t, node, prev, i, s.remove), up, i)
       [] size(t, node) <= least /\ up # NULL /\ ~sibling_is_left(t, node) ->
            IF size(t, next) > least
            THEN Removed(non_leaf_shift_from_right(simple, node, next, i + 1))
            ELSE RemoveFrom(non_leaf_merge_from_right(simple, node, next, i + 1), up, i + 1)

-----------------------------------------------------------------------------
leaf_simple_remove(t, leaf, remove) ==
  [t EXCEPT !.node[leaf].key = Without(@, remove),
            !.node[leaf].data = Without(@, remove)]

leaf_shift_from_left(t, leaf, left, i, remove) ==
  LET l == t.node[left]
      last == entries(t, left) - 1
  IN [t EXCEPT
        !.node[leaf].key = <<At(l.key, last)>> \o Without(@, remove),
        !.node[leaf].data = <<At(l.data, last)>> \o Without(@, remove),
        !.node[left].key = Slice(@, 0, last - 1),
        !.node[left].data = Slice(@, 0, last - 1),
        !.node[t.node[leaf].parent].key = SetAt(@, i, At(l.key, last))]

\* Wrong on purpose: the removed entry moves along.
leaf_merge_into_left_keeps(t, leaf, left, remove) ==
  node_delete([t EXCEPT !.node[left].key = @ \o t.node[leaf].key,
                        !.node[left].data = @ \o t.node[leaf].data], leaf)

leaf_merge_into_left(t, leaf, left, remove) ==
  LET old == t.node[leaf]
  IN node_delete([t EXCEPT !.node[left].key = @ \o Without(old.key, remove),
                           !.node[left].data = @ \o Without(old.data, remove)], leaf)

\* Wrong on purpose: the separator is read before the right sibling shifts.
leaf_shift_from_right_stale(t, leaf, right, i) ==
  LET r == t.node[right]
  IN [t EXCEPT
        !.node[leaf].key = Append(@, At(r.key, 0)),
        !.node[leaf].data = Append(@, At(r.data, 0)),
        !.node[right].key = Tail(@),
        !.node[right].data = Tail(@),
        !.node[t.node[leaf].parent].key = SetAt(@, i, At(r.key, 0))]

\* The separator is the key that is first in the right sibling afterwards.
leaf_shift_from_right(t, leaf, right, i) ==
  LET r == t.node[right]
  IN [t EXCEPT
        !.node[leaf].key = Append(@, At(r.key, 0)),
        !.node[leaf].data = Append(@, At(r.data, 0)),
        !.node[right].key = Tail(@),
        !.node[right].data = Tail(@),
        !.node[t.node[leaf].parent].key = SetAt(@, i, At(r.key, 1))]

leaf_merge_from_right(t, leaf, right) ==
  LET r == t.node[right]
  IN node_delete([t EXCEPT !.node[leaf].key = @ \o r.key,
                           !.node[leaf].data = @ \o r.data], right)

\* A root leaf only disappears with its last entry.
leaf_of_root(t, leaf, key, remove) ==
  IF entries(t, leaf) = 1
  THEN node_delete([t EXCEPT !.ok = @ /\ key = At(t.node[leaf].key, 0),
                             !.root = NULL], leaf)
  ELSE leaf_simple_remove(t, leaf, remove)

leaf_remove(t, leaf, key) ==
  LET remove == key_binary_search(t.node[leaf].key, key)
      least == Least(t.entries)
      i == t.node[leaf].parent_key_idx
      up == t.node[leaf].parent
      prev == prev_entry(t, leaf)
      next == next_entry(t, leaf)
      simple == leaf_simple_remove(t, leaf, remove)
  IN CASE size(t, leaf) > least -> Removed(simple)
       [] size(t, leaf) <= least /\ up = NULL -> Removed(leaf_of_root(t, leaf, key, remove))
       [] size(t, leaf) <= least /\ up # NULL /\ sibling_is_left(t, leaf) ->
            IF size(t, prev) > least
            THEN Removed(leaf_shift_from_left(t, leaf, prev, i, remove))
            ELSE RemoveFrom(leaf_merge_into_left(t, leaf, prev, remove), up, i)
       [] size(t, leaf) <= least /\ up # NULL /\ ~sibling_is_left(t, leaf) ->
            IF size(t, next) > least
            THEN Removed(leaf_shift_from_right(simple, leaf, next, i + 1))
            ELSE RemoveFrom(leaf_merge_from_right(simple, leaf, next), up, i + 1)

\* bplus_tree_delete for a key that is in the tree.
bplus_tree_delete(t, key) ==
  LET climb[n \in 0..(t.level + 1)] ==
        IF n = 0 THEN leaf_remove(t, leaf_for(t, key), key)
        ELSE LET below == climb[n - 1]
             IN IF below.node = NULL THEN below ELSE non_leaf_remove(below)
  IN climb[t.level + 1].tree
=============================================================================
