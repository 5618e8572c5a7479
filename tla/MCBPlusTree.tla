---------------------------- MODULE MCBPlusTree ----------------------------
\* BPlusTree on small capacities and a few keys.  Each key has its own
\* position, one of them position 0, and the least key a second one that put must
\* refuse to file.
EXTENDS BPlusTree

CONSTANT MaxKey

LeafShapes == {<<3, 2>>, <<4, 3>>}
DeepShapes == {<<3, 1>>, <<4, 1>>, <<5, 1>>, <<6, 1>>}
MCProbes == 1..MaxKey
MCInputs == {<<k, (k + 4) % MaxKey>> : k \in MCProbes} \cup {<<1, 20>>}

\* Which addresses calloc returned makes no difference to any operation, so
\* trees that differ in nothing else count as one state.  With the lists and
\* the parents as they should be, the contents of the nodes level by level
\* determine the tree; otherwise the whole tree is kept.
Contents(n) ==
  IF is_leaf(tree, n) THEN <<tree.node[n].key, tree.node[n].data>>
  ELSE <<tree.node[n].key, children(tree, n)>>
WellLinked == TypeOK /\ tree.ok /\ LevelListsMatchLayers /\ ParentsExact
MCView ==
  IF WellLinked
  THEN <<[l \in DOMAIN layers |-> [i \in DOMAIN layers[l] |-> Contents(layers[l][i])]],
         tree.level, tree.order, tree.entries, reply>>
  ELSE <<tree, reply>>
=============================================================================
