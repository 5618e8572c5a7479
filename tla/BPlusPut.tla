------------------------------ MODULE BPlusPut ------------------------------
(***************************************************************************)
(* bplus_tree_put (src/simple/index/bplustree.cpp, lines 104 to 468): a    *)
(* key enters a leaf; a full leaf splits and hands its parent a separator  *)
(* and two children, and so on towards the root.                           *)
(*                                                                         *)
(* The mutual recursion of parent_node_build and non_leaf_insert is a      *)
(* climb: each call takes the tree and what is still to be inserted,       *)
(*   node    the non-leaf that has to take them, NULL when nothing is left *)
(*   l_ch, r_ch, key    two adjacent children and their separator          *)
(* and gives the same for the level above.                                 *)
(***************************************************************************)
EXTENDS BPlusNodes

Done(t) == [tree |-> t, node |-> NULL, l_ch |-> NULL, r_ch |-> NULL, key |-> 0]

\* split = [m/2], for a node of m children or entries.
Half(m) == (m + 1) \div 2

\* The arrays as they are once key, or the pair of children, is in its place.
WithKey(keys, key, insert) ==
  Slice(keys, 0, insert - 1) \o <<key>> \o SliceFrom(keys, insert)
WithPair(subs, l_ch, r_ch, insert) ==
  Slice(subs, 0, insert - 1) \o <<l_ch, r_ch>> \o SliceFrom(subs, insert + 1)

-----------------------------------------------------------------------------
NewRoot(t, left, right, key) ==
  LET parent == Fresh(t)
      built == Store(t, parent, [non_leaf_new EXCEPT !.key = <<key>>,
                                                     !.sub_ptr = <<left, right>>])
      rooted == [Adopt(built, parent, {0, 1}) EXCEPT !.root = parent, !.level = @ + 1]
  IN list_add(rooted, parent, ListHead(rooted.level))

\* Whichever of the two is new has no parent yet and takes the other's.
parent_node_build(t, left, right, key) ==
  LET lp == t.node[left].parent
      rp == t.node[right].parent
      up == IF rp = NULL THEN lp ELSE rp
      new == IF rp = NULL THEN right ELSE left
  IN IF lp = NULL /\ rp = NULL
     THEN Done(NewRoot(t, left, right, key))
     ELSE [tree |-> [t EXCEPT !.node[new].parent = up], node |-> up,
           l_ch |-> left, r_ch |-> right, key |-> key]

\* The first half moves to a new node on the left; every child of either
\* half is told its parent and index again.
non_leaf_split_left(t, node, left, l_ch, r_ch, key, insert) ==
  LET split == Half(children(t, node))
      keys == WithKey(t.node[node].key, key, insert)
      subs == WithPair(t.node[node].sub_ptr, l_ch, r_ch, insert)
      lower == [non_leaf_new EXCEPT !.key = Slice(keys, 0, split - 2),
                                    !.sub_ptr = Slice(subs, 0, split - 1)]
      upper == [t.node[node] EXCEPT !.key = SliceFrom(keys, split),
                                    !.sub_ptr = SliceFrom(subs, split)]
      halves == Store(Store(t, left, lower), node, upper)
      linked == __list_add(halves, left, t.link[node].prev, node)
      adopted == Adopt(linked, left, Indices(lower.sub_ptr))
  IN parent_node_build(Adopt(adopted, node, Indices(upper.sub_ptr)),
                       left, node, At(keys, split - 1))

\* The pair itself opens the new node on the right.
non_leaf_split_right1(t, node, right, l_ch, r_ch, key, insert) ==
  LET old == t.node[node]
      split == Half(children(t, node))
      lower == [old EXCEPT !.key = Slice(@, 0, split - 2),
                           !.sub_ptr = Slice(@, 0, split - 1)]
      upper == [non_leaf_new EXCEPT
                  !.key = <<key>> \o SliceFrom(old.key, split),
                  !.sub_ptr = <<l_ch, r_ch>> \o SliceFrom(old.sub_ptr, split + 1)]
      halves == list_add(Store(Store(t, node, lower), right, upper), right, node)
  IN parent_node_build(Adopt(halves, right, Indices(upper.sub_ptr)),
                       node, right, At(old.key, split - 1))

\* The pair lands behind the first child of the new node on the right, or
\* replaces it; the old node keeps one child more than its half.
non_leaf_split_right2(t, node, right, l_ch, r_ch, key, insert) ==
  LET old == t.node[node]
      split == Half(children(t, node))
      hole == insert - split - 1
      moved == SliceFrom(old.key, split + 1)
      lower == [old EXCEPT !.key = Slice(@, 0, split - 1),
                           !.sub_ptr = Slice(@, 0, split)]
      upper == [non_leaf_new EXCEPT
                  !.key = WithKey(moved, key, hole),
                  !.sub_ptr = WithPair(SliceFrom(old.sub_ptr, split + 1), l_ch, r_ch, hole)]
      halves == list_add(Store(Store(t, node, lower), right, upper), right, node)
      adopted == Adopt(halves, right, Indices(upper.sub_ptr))
  IN parent_node_build([adopted EXCEPT !.ok = @ /\ hole <= Len(moved)],
                       node, right, At(old.key, split))

\* Parents stay as they are, only the children that move are renumbered.
non_leaf_simple_insert(t, node, l_ch, r_ch, key, insert) ==
  LET grown == [t EXCEPT !.node[node].key = WithKey(@, key, insert),
                         !.node[node].sub_ptr = WithPair(@, l_ch, r_ch, insert)]
  IN Renumber(grown, node, insert..(children(grown, node) - 1))

non_leaf_insert(s) ==
  LET found == key_binary_search(s.tree.node[s.node].key, s.key)
      t == IF found < 0 THEN s.tree ELSE [s.tree EXCEPT !.ok = FALSE]
      insert == -found - 1
      split == Half(children(t, s.node))
      sibling == Fresh(t)
  IN CASE children(t, s.node) # t.order ->
            Done(non_leaf_simple_insert(t, s.node, s.l_ch, s.r_ch, s.key, insert))
       [] children(t, s.node) = t.order /\ insert < split ->
            non_leaf_split_left(t, s.node, sibling, s.l_ch, s.r_ch, s.key, insert)
       [] children(t, s.node) = t.order /\ insert = split ->
            non_leaf_split_right1(t, s.node, sibling, s.l_ch, s.r_ch, s.key, insert)
       [] children(t, s.node) = t.order /\ insert > split ->
            non_leaf_split_right2(t, s.node, sibling, s.l_ch, s.r_ch, s.key, insert)

-----------------------------------------------------------------------------
\* A leaf that splits keeps its upper part when the key belongs to the lower
\* half, and its lower part otherwise.
leaf_split_left(t, leaf, left, key, data, insert) ==
  LET old == t.node[leaf]
      split == Half(entries(t, leaf))
      lower == [leaf_new EXCEPT
                  !.key = WithKey(Slice(old.key, 0, split - 2), key, insert),
                  !.data = WithKey(Slice(old.data, 0, split - 2), data, insert)]
      upper == [old EXCEPT !.key = SliceFrom(@, split - 1),
                           !.data = SliceFrom(@, split - 1)]
      halves == Store(Store(t, left, lower), leaf, upper)
  IN parent_node_build(__list_add(halves, left, t.link[leaf].prev, leaf),
                       left, leaf, At(upper.key, 0))

leaf_split_right(t, leaf, right, key, data, insert) ==
  LET old == t.node[leaf]
      split == Half(entries(t, leaf))
      moved == SliceFrom(old.key, split)
      lower == [old EXCEPT !.key = Slice(@, 0, split - 1),
                           !.data = Slice(@, 0, split - 1)]
      upper == [leaf_new EXCEPT
                  !.key = WithKey(moved, key, insert - split),
                  !.data = WithKey(SliceFrom(old.data, split), data, insert - split)]
      halves == Store(Store(t, leaf, lower), right, upper)
  IN parent_node_build([list_add(halves, right, leaf) EXCEPT
                          !.ok = @ /\ insert - split <= Len(moved)],
                       leaf, right, At(upper.key, 0))

\* Wrong on purpose: the data array is left behind.
leaf_simple_insert_key_only(t, leaf, key, data, insert) ==
  [t EXCEPT !.node[leaf].key = WithKey(@, key, insert)]

leaf_simple_insert(t, leaf, key, data, insert) ==
  [t EXCEPT !.node[leaf].key = WithKey(@, key, insert),
            !.node[leaf].data = WithKey(@, data, insert)]

leaf_insert(t, leaf, key, data) ==
  LET insert == -key_binary_search(t.node[leaf].key, key) - 1
      full == entries(t, leaf) = t.entries
      split == Half(t.entries)
      sibling == Fresh(t)
  IN CASE ~full -> Done(leaf_simple_insert(t, leaf, key, data, insert))
       [] full /\ insert < split -> leaf_split_left(t, leaf, sibling, key, data, insert)
       [] full /\ insert >= split -> leaf_split_right(t, leaf, sibling, key, data, insert)

FirstLeaf(t, key, data) ==
  LET n == Fresh(t)
      leaf == [leaf_new EXCEPT !.key = <<key>>, !.data = <<data>>]
  IN list_add([Store(t, n, leaf) EXCEPT !.root = n], n, ListHead(t.level))

\* The key exists: the early return of leaf_insert, with -1.
exists(t, key) ==
  t.root # NULL /\ key_binary_search(t.node[leaf_for(t, key)].key, key) >= 0

\* bplus_tree_insert for a key that is not in the tree.
bplus_tree_insert(t, key, data) ==
  LET climb[i \in 0..(t.level + 1)] ==
        IF i = 0 THEN leaf_insert(t, leaf_for(t, key), key, data)
        ELSE LET below == climb[i - 1]
             IN IF below.node = NULL THEN below ELSE non_leaf_insert(below)
  IN IF t.root = NULL THEN FirstLeaf(t, key, data) ELSE climb[t.level + 1].tree
=============================================================================
