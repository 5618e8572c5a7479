--------------------------- MODULE BPlusPutProofs ---------------------------
(***************************************************************************)
(* A put keeps the tree of bplustree.cpp, for every order, capacity, key   *)
(* and position, and gets answer what the puts have filed.                 *)
(*                                                                         *)
(* While a put splits its way towards the root, the nodes are no tree: a   *)
(* node has been halved and its parent has not been told.  Pend says that  *)
(* it would be a tree if the parent, full or not, took the pair as it is;  *)
(* a split of the parent then divides a node of a tree again.  The climb   *)
(* ends because the height of the node it stands on grows, at the root at  *)
(* the latest (ClimbExists, ClimbEnds).                                    *)
(***************************************************************************)
EXTENDS BPlusTreeProofs

-----------------------------------------------------------------------------
\* What the operations on memory do.

\* calloc hands out an address that is free.
LEMMA FreshFact ==
  ASSUME NEW t, N(t) \subseteq Nat \ {0}, IsFiniteSet(N(t))
  PROVE  Fresh(t) \in Nat \ {0} /\ Fresh(t) \notin N(t)
  <1> DEFINE c == Cardinality(N(t))
             T == {n \in 1..(c + 1) : n \notin N(t)}
  <1>1. c \in Nat
    BY FS_CardinalityType
  <1>2. T # {}
    <2>1. SUFFICES ASSUME 1..(c + 1) \subseteq N(t) PROVE FALSE
      OBVIOUS
    <2>2. Cardinality(1..(c + 1)) <= c
      BY <2>1, FS_Subset
    <2>3. Cardinality(1..(c + 1)) = IF 1 > c + 1 THEN 0 ELSE c + 1 - 1 + 1
      BY <1>1, FS_Interval
    <2> QED  BY <1>1, <2>2, <2>3
  <1>3. T \subseteq Nat
    BY <1>1
  <1>4. PICK n \in T : \A m \in T : n <= m
    BY <1>2, <1>3, LeastNumber
  <1>5. \A m \in 1..(n - 1) : m \in N(t)
    BY <1>1, <1>4
  <1>6. \E x \in 1..(c + 1) : x \notin N(t) /\ \A m \in 1..(x - 1) : m \in N(t)
    BY <1>4, <1>5
  <1>7. Fresh(t) = CHOOSE x \in 1..(c + 1) : x \notin N(t) /\ \A m \in 1..(x - 1) : m \in N(t)
    BY DEF Fresh, N
  <1> HIDE DEF c
  <1>8. Fresh(t) \in 1..(c + 1) /\ Fresh(t) \notin N(t)
    BY <1>6, <1>7
  <1> QED  BY <1>1, <1>8

\* The tree's own fields are the same.
Frame(t, u) ==
  /\ DOMAIN u = DOMAIN t
  /\ u.root = t.root /\ u.level = t.level /\ u.ok = t.ok
  /\ u.order = t.order /\ u.entries = t.entries

Fields == {"order", "entries", "level", "root", "node", "link", "ok"}
InnerFields == {"type", "parent", "parent_key_idx", "key", "sub_ptr"}
LeafFields == {"type", "parent", "parent_key_idx", "key", "data"}

\* A node is written.
LEMMA StoreEffect ==
  ASSUME NEW t, DOMAIN t = Fields, NEW n, NEW rec
  PROVE  /\ Frame(t, Store(t, n, rec)) /\ Store(t, n, rec).link = t.link
         /\ N(Store(t, n, rec)) = N(t) \cup {n}
         /\ Store(t, n, rec).node[n] = rec
         /\ \A m \in N(t) \ {n} : Store(t, n, rec).node[m] = t.node[m]
  BY DEF Fields, Store, With, Frame, N

\* A node enters a list.
LEMMA ListAddEffect ==
  ASSUME NEW t, DOMAIN t = Fields, NEW n, NEW prev, NEW next
  PROVE  /\ Frame(t, __list_add(t, n, prev, next))
         /\ __list_add(t, n, prev, next).node = t.node
         /\ DOMAIN __list_add(t, n, prev, next).link = DOMAIN t.link \cup {n}
         /\ __list_add(t, n, prev, next).link = Added(t.link, n, prev, next)
  BY DEF Fields, __list_add, With, Frame, Added

\* Node n has the same fields and the same contents.
Alike(t, u, n) ==
  /\ DOMAIN u.node[n] = DOMAIN t.node[n]
  /\ u.node[n].type = t.node[n].type
  /\ u.node[n].key = t.node[n].key
  /\ "data" \in DOMAIN t.node[n] => u.node[n].data = t.node[n].data
  /\ "sub_ptr" \in DOMAIN t.node[n] => u.node[n].sub_ptr = t.node[n].sub_ptr

\* The children of p are told.
LEMMA AdoptEffect ==
  ASSUME NEW t, DOMAIN t = Fields, NEW p, NEW I,
         \A i \in I : At(S(t, p), i) \in N(t),
         \A i \in I, j \in I : At(S(t, p), i) = At(S(t, p), j) => i = j,
         \A n \in N(t) : {"type", "parent", "parent_key_idx", "key"} \subseteq DOMAIN t.node[n]
  PROVE  LET u == Adopt(t, p, I)
         IN /\ Frame(t, u) /\ u.link = t.link /\ N(u) = N(t)
            /\ \A n \in N(t) : Alike(t, u, n)
            /\ \A n \in N(t) : (\A i \in I : At(S(t, p), i) # n) => u.node[n] = t.node[n]
            /\ \A i \in I : P(u, At(S(t, p), i)) = p /\ X(u, At(S(t, p), i)) = i - 1
  <1> DEFINE u == Adopt(t, p, I)
             A == Among(t, p, I)
  <1>1. Frame(t, u) /\ u.link = t.link /\ N(u) = N(t)
    BY DEF Adopt, Frame, N, Fields
  <1>2. \A n \in N(t) : u.node[n] =
          IF n \in A THEN [t.node[n] EXCEPT !.parent = p, !.parent_key_idx = IndexOf(t, p, I, n) - 1]
          ELSE t.node[n]
    BY DEF Adopt, N, Fields
  <1>3. \A n : n \in A <=> \E i \in I : At(S(t, p), i) = n
    BY DEF Among, S
  <1>4. \A i \in I : IndexOf(t, p, I, At(S(t, p), i)) = i
    BY DEF IndexOf, S
  <1> HIDE DEF u, A
  <1>5. \A n \in N(t) : Alike(t, u, n)
    BY <1>2 DEF Alike
  <1>6. \A n \in N(t) : (\A i \in I : At(S(t, p), i) # n) => u.node[n] = t.node[n]
    BY <1>2, <1>3
  <1>7. ASSUME NEW i \in I
        PROVE  P(u, At(S(t, p), i)) = p /\ X(u, At(S(t, p), i)) = i - 1
    <2> DEFINE c == At(S(t, p), i)
    <2>1. c \in N(t) /\ c \in A /\ IndexOf(t, p, I, c) = i
      BY <1>3, <1>4
    <2>2. u.node[c] = [t.node[c] EXCEPT !.parent = p, !.parent_key_idx = i - 1]
      BY <1>2, <2>1
    <2>3. {"parent", "parent_key_idx"} \subseteq DOMAIN t.node[c]
      BY <2>1
    <2> HIDE DEF c
    <2>4. u.node[c].parent = p /\ u.node[c].parent_key_idx = i - 1
      BY <2>2, <2>3
    <2> QED  BY <2>4 DEF P, X, c
  <1> QED  BY <1>1, <1>5, <1>6, <1>7 DEF u

\* The children of p are told their index only.
LEMMA RenumberEffect ==
  ASSUME NEW t, DOMAIN t = Fields, NEW p, NEW I,
         \A i \in I : At(S(t, p), i) \in N(t),
         \A i \in I, j \in I : At(S(t, p), i) = At(S(t, p), j) => i = j,
         \A n \in N(t) : {"type", "parent", "parent_key_idx", "key"} \subseteq DOMAIN t.node[n]
  PROVE  LET u == Renumber(t, p, I)
         IN /\ Frame(t, u) /\ u.link = t.link /\ N(u) = N(t)
            /\ \A n \in N(t) : Alike(t, u, n) /\ P(u, n) = P(t, n)
            /\ \A n \in N(t) : (\A i \in I : At(S(t, p), i) # n) => u.node[n] = t.node[n]
            /\ \A i \in I : X(u, At(S(t, p), i)) = i - 1
  <1> DEFINE u == Renumber(t, p, I)
             A == Among(t, p, I)
  <1>1. Frame(t, u) /\ u.link = t.link /\ N(u) = N(t)
    BY DEF Renumber, Frame, N, Fields
  <1>2. \A n \in N(t) : u.node[n] =
          IF n \in A THEN [t.node[n] EXCEPT !.parent_key_idx = IndexOf(t, p, I, n) - 1]
          ELSE t.node[n]
    BY DEF Renumber, N, Fields
  <1>3. \A n : n \in A <=> \E i \in I : At(S(t, p), i) = n
    BY DEF Among, S
  <1>4. \A i \in I : IndexOf(t, p, I, At(S(t, p), i)) = i
    BY DEF IndexOf, S
  <1> HIDE DEF u, A
  <1>5. \A n \in N(t) : Alike(t, u, n) /\ P(u, n) = P(t, n)
    BY <1>2 DEF Alike, P
  <1>6. \A n \in N(t) : (\A i \in I : At(S(t, p), i) # n) => u.node[n] = t.node[n]
    BY <1>2, <1>3
  <1>7. ASSUME NEW i \in I
        PROVE  X(u, At(S(t, p), i)) = i - 1
    <2> DEFINE c == At(S(t, p), i)
    <2>1. c \in N(t) /\ c \in A /\ IndexOf(t, p, I, c) = i
      BY <1>3, <1>4
    <2>2. u.node[c] = [t.node[c] EXCEPT !.parent_key_idx = i - 1]
      BY <1>2, <2>1
    <2>3. {"parent", "parent_key_idx"} \subseteq DOMAIN t.node[c]
      BY <2>1
    <2> HIDE DEF c
    <2>4. u.node[c].parent_key_idx = i - 1
      BY <2>2, <2>3
    <2> QED  BY <2>4 DEF X, c
  <1> QED  BY <1>1, <1>5, <1>6, <1>7 DEF u

\* A sequence over a set is one over a larger set.
LEMMA SeqWider ==
  ASSUME NEW A, NEW B, A \subseteq B, NEW s \in Seq(A)
  PROVE  s \in Seq(B)
  OBVIOUS

\* A node that is alike is as well formed.
LEMMA AlikeFormed ==
  ASSUME NEW t, NEW u, NEW n, NodeFormed(t, n), Alike(t, u, n), N(t) \subseteq N(u),
         P(u, n) \in N(u) \cup {NULL}, X(u, n) \in Int
  PROVE  NodeFormed(u, n) /\ Same(t, u, n)
  <1>1. is_leaf(u, n) <=> is_leaf(t, n)
    BY DEF Alike, is_leaf
  <1>2. K(u, n) = K(t, n) /\ DOMAIN u.node[n] = DOMAIN t.node[n]
    BY DEF Alike, K
  <1>3. CASE is_leaf(t, n)
    <2>1. "data" \in DOMAIN t.node[n]
      BY <1>3 DEF NodeFormed
    <2>2. D(u, n) = D(t, n)
      BY <2>1 DEF Alike, D
    <2> QED  BY <1>1, <1>2, <1>3, <2>2 DEF NodeFormed, Same
  <1>4. CASE ~is_leaf(t, n)
    <2>1. "sub_ptr" \in DOMAIN t.node[n]
      BY <1>4 DEF NodeFormed
    <2>2. S(u, n) = S(t, n)
      BY <2>1 DEF Alike, S
    <2>3. S(t, n) \in Seq(N(u))
      BY <1>4, SeqWider DEF NodeFormed
    <2> QED  BY <1>1, <1>2, <1>4, <2>2, <2>3 DEF NodeFormed, Same
  <1> QED  BY <1>3, <1>4

\* What is known of the fields of every node.
LEMMA FormedFields ==
  ASSUME NEW t, Formed(t)
  PROVE  /\ DOMAIN t = Fields
         /\ \A n \in N(t) : /\ {"type", "parent", "parent_key_idx", "key"} \subseteq DOMAIN t.node[n]
                            /\ NodeFormed(t, n) /\ K(t, n) \in Seq(Int)
                            /\ P(t, n) \in N(t) \cup {NULL} /\ X(t, n) \in Int
         /\ \A n \in Leafs(t) : DOMAIN t.node[n] = LeafFields
         /\ \A n \in Inner(t) : /\ DOMAIN t.node[n] = InnerFields
                                /\ S(t, n) \in Seq(N(t)) /\ Len(S(t, n)) = Len(K(t, n)) + 1
  BY DEF Formed, Fields, NodeFormed, Leafs, Inner, LeafFields, InnerFields

\* v is t after l and r have taken the place of child number a of p, with the
\* key k between them; the children from there on know their new place.
PairIn(t, v, p, l, r, k, a) ==
  /\ Frame(t, v) /\ v.link = t.link /\ N(v) = N(t) /\ Formed(v)
  /\ ~is_leaf(v, p)
  /\ Entered(K(t, p), a, k, K(v, p))
  /\ Paired(S(t, p), a, l, r, S(v, p))
  /\ \A m \in N(t) \ {p} : Same(t, v, m)
  /\ \A m \in N(t) : P(v, m) = P(t, m)
  /\ \A m \in N(t) : (\A i \in a..Len(S(v, p)) : S(v, p)[i] # m) => X(v, m) = X(t, m)
  /\ \A i \in a..Len(S(v, p)) : X(v, S(v, p)[i]) = i - 2

\* The arrays of the node that takes the pair.
LEMMA PairInShape ==
  ASSUME NEW t, Formed(t), NEW p \in Inner(t), NEW l, NEW r, NEW k, NEW a \in Int
  PROVE  LET v == non_leaf_simple_insert(t, p, l, r, k, a - 1)
         IN S(v, p) = WithPair(S(t, p), l, r, a - 1) /\ K(v, p) = WithKey(K(t, p), k, a - 1)
  <1> DEFINE g == [t EXCEPT !.node[p].key = WithKey(@, k, a - 1),
                            !.node[p].sub_ptr = WithPair(@, l, r, a - 1)]
             I == (a - 1)..(children(g, p) - 1)
             v == Renumber(g, p, I)
  <1>1. v = non_leaf_simple_insert(t, p, l, r, k, a - 1)
    BY DEF non_leaf_simple_insert
  <1>2. DOMAIN t = Fields /\ p \in DOMAIN t.node /\ DOMAIN t.node[p] = InnerFields
    BY FormedFields DEF Inner, N
  <1>3. /\ DOMAIN g = Fields /\ DOMAIN g.node = DOMAIN t.node
        /\ DOMAIN g.node[p] = InnerFields
        /\ g.node[p].key = WithKey(t.node[p].key, k, a - 1)
        /\ g.node[p].sub_ptr = WithPair(t.node[p].sub_ptr, l, r, a - 1)
    BY <1>2 DEF Fields, InnerFields
  <1> HIDE DEF g, I
  <1>4. \/ v.node[p] = g.node[p]
        \/ v.node[p] = [g.node[p] EXCEPT !.parent_key_idx = IndexOf(g, p, I, p) - 1]
    <2>1. v.node = [n \in DOMAIN g.node |->
                      IF n \in Among(g, p, I)
                      THEN [g.node[n] EXCEPT !.parent_key_idx = IndexOf(g, p, I, n) - 1]
                      ELSE g.node[n]]
      BY <1>3 DEF Renumber, Fields
    <2> HIDE DEF v
    <2>2. p \in DOMAIN g.node
      BY <1>2, <1>3
    <2> QED  BY <2>1, <2>2
  <1>5. v.node[p].key = g.node[p].key /\ v.node[p].sub_ptr = g.node[p].sub_ptr
    BY <1>3, <1>4 DEF InnerFields
  <1> HIDE DEF v
  <1> QED  BY <1>1, <1>3, <1>5 DEF K, S

\* non_leaf_simple_insert does what PairIn says.
LEMMA PairInFact ==
  ASSUME NEW t, Formed(t), NEW p \in Inner(t), NEW l \in N(t), NEW r \in N(t), NEW k \in Int,
         NEW a \in 1..Len(S(t, p)),
         \A i, j \in 1..Len(WithPair(S(t, p), l, r, a - 1)) :
            WithPair(S(t, p), l, r, a - 1)[i] = WithPair(S(t, p), l, r, a - 1)[j] => i = j
  PROVE  PairIn(t, non_leaf_simple_insert(t, p, l, r, k, a - 1), p, l, r, k, a)
  <1> DEFINE keys == WithKey(K(t, p), k, a - 1)
             subs == WithPair(S(t, p), l, r, a - 1)
             g == [t EXCEPT !.node[p].key = WithKey(@, k, a - 1),
                            !.node[p].sub_ptr = WithPair(@, l, r, a - 1)]
             I == (a - 1)..(children(g, p) - 1)
             v == Renumber(g, p, I)
  <1>1. v = non_leaf_simple_insert(t, p, l, r, k, a - 1)
    BY DEF non_leaf_simple_insert
  <1>2. /\ DOMAIN t = Fields /\ p \in DOMAIN t.node /\ DOMAIN t.node[p] = InnerFields
        /\ ~is_leaf(t, p) /\ K(t, p) \in Seq(Int) /\ S(t, p) \in Seq(N(t))
        /\ Len(S(t, p)) = Len(K(t, p)) + 1
    BY FormedFields DEF Inner, N
  <1>3. /\ DOMAIN g = Fields /\ DOMAIN g.node = DOMAIN t.node
        /\ Frame(t, g) /\ g.link = t.link
        /\ g.node[p] = [t.node[p] EXCEPT !.key = keys, !.sub_ptr = subs]
        /\ \A m \in DOMAIN t.node \ {p} : g.node[m] = t.node[m]
    BY <1>2 DEF Fields, InnerFields, Frame, K, S
  <1>4. a - 1 \in 0..Len(K(t, p)) /\ a - 1 \in 0..(Len(S(t, p)) - 1) /\ a - 1 + 1 = a
    BY <1>2
  <1>5. keys \in Seq(Int) /\ Entered(K(t, p), a, k, keys)
    BY <1>2, <1>4, WithKeyFact
  <1>6. subs \in Seq(N(t)) /\ Paired(S(t, p), a, l, r, subs)
    BY <1>2, <1>4, WithPairFact
  <1> HIDE DEF keys, subs, g
  <1>7. /\ DOMAIN g.node[p] = InnerFields /\ g.node[p].key = keys /\ g.node[p].sub_ptr = subs
        /\ g.node[p].type = t.node[p].type /\ g.node[p].parent = t.node[p].parent
        /\ g.node[p].parent_key_idx = t.node[p].parent_key_idx
    BY <1>2, <1>3 DEF InnerFields
  <1>8. /\ K(g, p) = keys /\ S(g, p) = subs /\ ~is_leaf(g, p)
        /\ P(g, p) = P(t, p) /\ X(g, p) = X(t, p) /\ N(g) = N(t)
    BY <1>2, <1>3, <1>7 DEF K, S, P, X, is_leaf, N
  <1>9. \A m \in N(t) \ {p} : Alike(t, g, m) /\ P(g, m) = P(t, m) /\ X(g, m) = X(t, m)
    BY <1>3 DEF Alike, P, X, N
  <1>10. /\ Len(subs) = Len(S(t, p)) + 1 /\ Len(keys) = Len(K(t, p)) + 1
         /\ Len(S(t, p)) \in Nat
    BY <1>2, <1>5, <1>6 DEF Entered, Paired
  <1>11. \A m \in N(t) : NodeFormed(g, m)
    <2>1. ASSUME NEW m \in N(t) \ {p}
          PROVE  NodeFormed(g, m)
      <3>1. NodeFormed(t, m) /\ P(t, m) \in N(t) \cup {NULL} /\ X(t, m) \in Int
        BY FormedFields
      <3> QED  BY <1>8, <1>9, <3>1, AlikeFormed
    <2>2. NodeFormed(g, p)
      <3>1. P(t, p) \in N(t) \cup {NULL} /\ X(t, p) \in Int
        BY FormedFields DEF Inner
      <3>2. DOMAIN g.node[p] = {"type", "parent", "parent_key_idx", "key"} \cup {"sub_ptr"}
        BY <1>7 DEF InnerFields
      <3>3. Len(subs) = Len(keys) + 1
        BY <1>2, <1>10
      <3> QED  BY <1>5, <1>6, <1>8, <3>1, <3>2, <3>3 DEF NodeFormed
    <2> QED  BY <2>1, <2>2
  <1>12. I = (a - 1)..(Len(subs) - 1)
    BY <1>8 DEF children, S
  <1> HIDE DEF I
  <1>13. \A i \in I : i + 1 \in 1..Len(subs) /\ i + 1 \in a..Len(subs) /\ At(S(g, p), i) = subs[i + 1]
    BY <1>8, <1>10, <1>12 DEF At
  <1>14. /\ \A i \in I : At(S(g, p), i) \in N(g)
         /\ \A i \in I, j \in I : At(S(g, p), i) = At(S(g, p), j) => i = j
    <2>1. \A i \in I : At(S(g, p), i) \in N(g)
      BY <1>6, <1>8, <1>13
    <2>2. ASSUME NEW i \in I, NEW j \in I, At(S(g, p), i) = At(S(g, p), j)
          PROVE  i = j
      <3>1. i + 1 = j + 1
        BY <1>13, <2>2 DEF subs
      <3> QED  BY <3>1, <1>12, <1>10
    <2> QED  BY <2>1, <2>2
  <1>15. \A n \in N(g) : {"type", "parent", "parent_key_idx", "key"} \subseteq DOMAIN g.node[n]
    BY <1>8, <1>11 DEF NodeFormed
  <1>16. /\ Frame(g, v) /\ v.link = g.link /\ N(v) = N(g)
         /\ \A n \in N(g) : Alike(g, v, n) /\ P(v, n) = P(g, n)
         /\ \A n \in N(g) : (\A i \in I : At(S(g, p), i) # n) => v.node[n] = g.node[n]
         /\ \A i \in I : X(v, At(S(g, p), i)) = i - 1
    BY <1>3, <1>14, <1>15, RenumberEffect
  <1> HIDE DEF v
  <1>17. \A n \in N(t) : (\A i \in I : At(S(g, p), i) # n) => X(v, n) = X(t, n)
    BY <1>8, <1>9, <1>16 DEF X
  <1>18. ASSUME NEW n \in N(t)
         PROVE  NodeFormed(v, n) /\ Same(g, v, n) /\ P(v, n) = P(t, n)
    <2>1. P(v, n) = P(t, n) /\ P(t, n) \in N(t) \cup {NULL}
      BY <1>8, <1>9, <1>16, FormedFields
    <2>2. X(v, n) \in Int
      <3>1. CASE \A i \in I : At(S(g, p), i) # n
        BY <1>17, <3>1, FormedFields
      <3>2. CASE \E i \in I : At(S(g, p), i) = n
        <4>1. PICK i \in I : At(S(g, p), i) = n
          BY <3>2
        <4>2. X(v, n) = i - 1 /\ i \in Int
          BY <1>16, <4>1, <1>12, <1>10
        <4> QED  BY <4>2
      <3> QED  BY <3>1, <3>2
    <2>3. NodeFormed(g, n) /\ Alike(g, v, n) /\ N(g) = N(v) /\ N(t) = N(v)
      BY <1>8, <1>11, <1>16
    <2> QED  BY <2>1, <2>2, <2>3, AlikeFormed
  <1>19. Frame(t, v) /\ v.link = t.link /\ N(v) = N(t)
    BY <1>3, <1>8, <1>16 DEF Frame
  <1>20. Formed(v)
    <2>1. /\ DOMAIN v = {"order", "entries", "level", "root", "node", "link", "ok"}
          /\ v.level \in Nat /\ v.root \in N(v) /\ N(v) \subseteq Nat \ {0} /\ IsFiniteSet(N(v))
      BY <1>19 DEF Formed, Frame
    <2> QED  BY <1>18, <1>19, <2>1 DEF Formed
  <1>21. K(v, p) = keys /\ S(v, p) = subs /\ ~is_leaf(v, p)
    <2>1. p \in N(t) /\ Same(g, v, p)
      BY <1>18 DEF Inner
    <2> QED  BY <1>8, <2>1 DEF Same
  <1>22. ASSUME NEW m \in N(t) \ {p}
         PROVE  Same(t, v, m)
    <2>1. NodeFormed(t, m) /\ NodeFormed(g, m) /\ P(g, m) = P(t, m) /\ X(g, m) = X(t, m) /\ Alike(t, g, m)
          /\ P(t, m) \in N(t) \cup {NULL} /\ X(t, m) \in Int
      BY <1>9, <1>11, FormedFields
    <2>2. Same(t, g, m)
      BY <1>8, <2>1, AlikeFormed
    <2>3. Same(g, v, m)
      BY <1>18
    <2> QED  BY <2>2, <2>3 DEF Same
  <1>23. ASSUME NEW m \in N(t), \A i \in a..Len(subs) : subs[i] # m
         PROVE  X(v, m) = X(t, m)
    BY <1>13, <1>17, <1>23
  <1>24. ASSUME NEW i \in a..Len(subs)
         PROVE  X(v, subs[i]) = i - 2
    <2>1. i - 1 \in I /\ (i - 1) + 1 = i /\ (i - 1) - 1 = i - 2
      BY <1>12, <1>10
    <2>2. At(S(g, p), i - 1) = subs[i]
      BY <1>13, <2>1
    <2>3. X(v, At(S(g, p), i - 1)) = (i - 1) - 1
      BY <1>16, <2>1
    <2> QED  BY <2>1, <2>2, <2>3
  <1>25. PairIn(t, v, p, l, r, k, a)
    BY <1>5, <1>6, <1>18, <1>19, <1>20, <1>21, <1>22, <1>23, <1>24 DEF PairIn
  <1> QED  BY <1>1, <1>25

-----------------------------------------------------------------------------
\* A node has been divided and its parent does not know yet.

\* Node n of v has been divided in t, as in SplitBody, and nothing else.
Halves(v, t, n, l, r, c, sep) ==
  /\ t.root = v.root /\ t.level = v.level
  /\ l # r /\ n \in {l, r} /\ N(t) = N(v) \cup {l, r} /\ N(v) \cap {l, r} = {n}
  /\ sep \in Int
  /\ \A m \in N(v) \ {l, r} : Same(v, t, m)
  /\ is_leaf(v, n) =>
       /\ is_leaf(t, l) /\ is_leaf(t, r)
       /\ c \in 0..Len(K(v, n))
       /\ Cut(K(v, n), c, c, K(t, l), K(t, r))
       /\ Cut(D(v, n), c, c, D(t, l), D(t, r))
       /\ \A j \in 1..c : K(v, n)[j] < sep
       /\ \A j \in (c + 1)..Len(K(v, n)) : sep <= K(v, n)[j]
  /\ ~is_leaf(v, n) =>
       /\ ~is_leaf(t, l) /\ ~is_leaf(t, r)
       /\ c \in 1..Len(K(v, n)) /\ sep = K(v, n)[c]
       /\ Cut(K(v, n), c - 1, c, K(t, l), K(t, r))
       /\ Cut(S(v, n), c, c, S(t, l), S(t, r))
  /\ \A q \in Inner(t) \cap {l, r} : Owns(t, q)
  /\ \A m \in N(v) : P(v, m) # n => P(t, m) = P(v, m) /\ X(t, m) = X(v, m)
  /\ \A m \in {l, r} \ {n} : P(t, m) = NULL
  /\ Ring(v.link) => Joined(v.link, t.link, n, l, r)

\* Same is transitive.
LEMMA SameTrans ==
  ASSUME NEW t, NEW u, NEW v, NEW m, Same(t, u, m), Same(u, v, m)
  PROVE  Same(t, v, m)
  BY DEF Same

\* If one of two new children is a new node and the other an old one, no child
\* stands twice.
LEMMA PairedOnce ==
  ASSUME NEW A, NEW s \in Seq(A), NEW l, NEW r, l # r, NEW a \in 1..Len(s), NEW s2,
         Paired(s, a, l, r, s2),
         s[a] \in {l, r}, \A i, j \in 1..Len(s) : s[i] = s[j] => i = j,
         \A i \in 1..Len(s) : s[i] \in {l, r} => i = a
  PROVE  \A i, j \in 1..Len(s2) : s2[i] = s2[j] => i = j
  <1>1. /\ Len(s2) = Len(s) + 1 /\ Len(s) \in Nat
        /\ \A j \in 1..(Len(s) + 1) :
             s2[j] = IF j < a THEN s[j] ELSE IF j = a THEN l ELSE IF j = a + 1 THEN r ELSE s[j - 1]
    BY DEF Paired
  <1>2. ASSUME NEW i \in 1..(Len(s) + 1), NEW j \in 1..(Len(s) + 1), i < j
        PROVE  s2[i] # s2[j]
    <2>1. CASE j < a
      <3>1. i \in 1..Len(s) /\ j \in 1..Len(s) /\ i < a /\ i # j
        BY <1>2, <2>1
      <3> QED  BY <1>1, <2>1, <3>1
    <2>2. CASE i < a /\ j \in {a, a + 1}
      <3>1. i \in 1..Len(s) /\ i # a /\ ~(j < a) /\ (j = a \/ (j # a /\ j = a + 1))
        BY <2>2
      <3>2. s2[i] = s[i] /\ s2[j] \in {l, r}
        BY <1>1, <2>2, <3>1
      <3> QED  BY <3>1, <3>2
    <2>3. CASE i < a /\ j > a + 1
      <3>1. i \in 1..Len(s) /\ j - 1 \in 1..Len(s) /\ i # j - 1 /\ ~(j < a) /\ j # a /\ j # a + 1
        BY <1>1, <2>3
      <3>2. s2[i] = s[i] /\ s2[j] = s[j - 1]
        BY <1>1, <2>3, <3>1
      <3> QED  BY <3>1, <3>2
    <2>4. CASE i = a /\ j = a + 1
      <3>1. s2[i] = l /\ s2[j] = r
        BY <1>1, <2>4
      <3> QED  BY <3>1
    <2>5. CASE i \in {a, a + 1} /\ j > a + 1
      <3>1. /\ ~(i < a) /\ (i = a \/ (i # a /\ i = a + 1))
            /\ j - 1 \in 1..Len(s) /\ j - 1 # a /\ ~(j < a) /\ j # a /\ j # a + 1
        BY <1>1, <2>5
      <3>2. s2[i] \in {l, r} /\ s2[j] = s[j - 1]
        BY <1>1, <3>1
      <3> QED  BY <3>1, <3>2
    <2>6. CASE i > a + 1
      <3>1. /\ i - 1 \in 1..Len(s) /\ ~(i < a) /\ i # a /\ i # a + 1
            /\ j - 1 \in 1..Len(s) /\ ~(j < a) /\ j # a /\ j # a + 1 /\ i - 1 # j - 1
        BY <1>1, <1>2, <2>6
      <3>2. s2[i] = s[i - 1] /\ s2[j] = s[j - 1]
        BY <1>1, <3>1
      <3> QED  BY <3>1, <3>2
    <2>7. \/ j < a \/ (i < a /\ j \in {a, a + 1}) \/ (i < a /\ j > a + 1) \/ (i = a /\ j = a + 1)
          \/ (i \in {a, a + 1} /\ j > a + 1) \/ i > a + 1
      BY <1>2
    <2> QED  BY <2>1, <2>2, <2>3, <2>4, <2>5, <2>6, <2>7
  <1> QED  BY <1>1, <1>2

\* What parent_node_build leaves to be done, below the root.
HandedUp(v, t, s, p, n, l, r, sep) ==
  /\ p = P(v, n) /\ p \in Inner(v) /\ p \in Inner(s.tree) /\ p \notin {l, r}
  /\ X(v, n) + 2 \in 1..Len(S(v, p)) /\ S(v, p)[X(v, n) + 2] = n
  /\ s.node = p /\ s.l_ch = l /\ s.r_ch = r /\ s.key = sep
  /\ Frame(t, s.tree) /\ s.tree.link = t.link /\ N(s.tree) = N(t) /\ Formed(s.tree)
  /\ \A m \in N(t) : Same(t, s.tree, m) /\ X(s.tree, m) = X(t, m)
  /\ \A m \in N(v) : P(s.tree, m) = P(t, m)
  /\ P(s.tree, l) = p /\ P(s.tree, r) = p

\* parent_node_build hands the pair to the parent of the divided node.
LEMMA ParentBuild ==
  ASSUME NEW v, NEW t, NEW n, NEW l, NEW r, NEW c, NEW sep, NEW h, NEW R,
         TreeInv(v, h, R), Formed(t), Halves(v, t, n, l, r, c, sep), n # v.root
  PROVE  HandedUp(v, t, parent_node_build(t, l, r, sep), P(v, n), n, l, r, sep)
  <1> DEFINE p == P(v, n)
             s == parent_node_build(t, l, r, sep)
             new == IF n = l THEN r ELSE l
  <1>1. Formed(v) /\ Parents(v)
    BY DEF TreeInv
  <1>2. /\ l # r /\ n \in {l, r} /\ N(t) = N(v) \cup {l, r} /\ N(v) \cap {l, r} = {n}
        /\ \A m \in N(v) \ {l, r} : Same(v, t, m)
        /\ \A m \in N(v) : P(v, m) # n => P(t, m) = P(v, m) /\ X(t, m) = X(v, m)
        /\ \A m \in {l, r} \ {n} : P(t, m) = NULL
    BY DEF Halves
  <1>3. n \in N(v) \ {v.root}
    BY <1>2
  <1>4. p \in Inner(v) /\ X(v, n) + 2 \in 1..Len(S(v, p)) /\ S(v, p)[X(v, n) + 2] = n
    BY <1>1, <1>3 DEF Parents, Owned
  <1>5. PICK i \in 1..Len(S(v, p)) : S(v, p)[i] = n
    BY <1>4
  <1>6. p # n
    BY <1>4, <1>5, ChildFacts
  <1>7. p \in N(v) /\ ~is_leaf(v, p)
    BY <1>4 DEF Inner
  <1>8. p \notin {l, r} /\ p # NULL /\ p \in N(t)
    BY <1>1, <1>2, <1>6, <1>7 DEF Formed, NULL
  <1>9. P(t, n) = p /\ new \in {l, r} \ {n} /\ P(t, new) = NULL /\ new \notin N(v) /\ {l, r} = {n, new}
    BY <1>2, <1>3, <1>6
  <1> HIDE DEF p
  <1>10. s = [tree |-> [t EXCEPT !.node[new].parent = p], node |-> p,
              l_ch |-> l, r_ch |-> r, key |-> sep]
    <2>1. CASE n = l
      <3>1. new = r /\ t.node[l].parent = p /\ t.node[r].parent = NULL
        BY <1>2, <1>9, <2>1 DEF P
      <3> QED  BY <1>8, <3>1 DEF parent_node_build
    <2>2. CASE n = r
      <3>1. new = l /\ t.node[r].parent = p /\ t.node[l].parent = NULL
        BY <1>2, <1>9, <2>2 DEF P
      <3> QED  BY <1>8, <3>1 DEF parent_node_build
    <2> QED  BY <1>2, <2>1, <2>2
  <1> DEFINE u == [t EXCEPT !.node[new].parent = p]
  <1>11. s.tree = u /\ s.node = p /\ s.l_ch = l /\ s.r_ch = r /\ s.key = sep
    BY <1>10
  <1> HIDE DEF s, new
  <1>12. DOMAIN t = Fields /\ new \in DOMAIN t.node /\ {"type", "parent", "parent_key_idx", "key"} \subseteq DOMAIN t.node[new]
    BY <1>2, <1>9, FormedFields DEF N
  <1>13. /\ Frame(t, u) /\ u.link = t.link /\ N(u) = N(t)
         /\ u.node[new] = [t.node[new] EXCEPT !.parent = p]
         /\ \A m \in N(t) \ {new} : u.node[m] = t.node[m]
    BY <1>12 DEF Frame, Fields, N
  <1> HIDE DEF u
  <1>14. /\ \A m \in N(t) : Alike(t, u, m) /\ X(u, m) = X(t, m)
         /\ P(u, new) = p
         /\ \A m \in N(t) \ {new} : P(u, m) = P(t, m)
    BY <1>12, <1>13 DEF Alike, P, X
  <1>15. ASSUME NEW m \in N(t)
         PROVE  NodeFormed(u, m) /\ Same(t, u, m)
    <2>1. P(u, m) \in N(u) \cup {NULL}
      BY <1>8, <1>13, <1>14, FormedFields
    <2>2. NodeFormed(t, m) /\ X(t, m) \in Int
      BY FormedFields
    <2> QED  BY <1>13, <1>14, <2>1, <2>2, AlikeFormed
  <1>16. Formed(u)
    <2>1. /\ DOMAIN u = {"order", "entries", "level", "root", "node", "link", "ok"}
          /\ u.level \in Nat /\ u.root \in N(u) /\ N(u) \subseteq Nat \ {0} /\ IsFiniteSet(N(u))
      BY <1>13 DEF Formed, Frame
    <2> QED  BY <1>13, <1>15, <2>1 DEF Formed
  <1>17. p \in Inner(u)
    <2>1. Same(v, t, p) /\ Same(t, u, p)
      BY <1>2, <1>7, <1>8, <1>15
    <2> QED  BY <1>7, <1>8, <1>13, <2>1 DEF Same, Inner
  <1>18. /\ \A m \in N(v) : P(u, m) = P(t, m)
         /\ P(u, l) = p /\ P(u, r) = p
    <2>1. n \in N(t) \ {new} /\ \A m \in N(v) : m \in N(t) \ {new}
      BY <1>2, <1>3, <1>9
    <2>2. P(u, n) = p /\ P(u, new) = p
      BY <1>9, <1>14, <2>1
    <2> QED  BY <1>9, <1>14, <2>1, <2>2
  <1>19. HandedUp(v, t, s, p, n, l, r, sep)
    BY <1>4, <1>8, <1>11, <1>13, <1>14, <1>15, <1>16, <1>17, <1>18 DEF HandedUp, p
  <1> QED  BY <1>19 DEF p, s

\* The pair enters the parent: with that the split is complete.
LEMMA AscendShape ==
  ASSUME NEW v, NEW t, NEW n, NEW l, NEW r, NEW c, NEW sep, NEW h, NEW R, NEW s, NEW p, NEW a,
         TreeInv(v, h, R), Formed(t), Halves(v, t, n, l, r, c, sep), n # v.root,
         HandedUp(v, t, s, p, n, l, r, sep), a = X(v, n) + 2
  PROVE  /\ a \in 1..Len(S(s.tree, p)) /\ S(s.tree, p) = S(v, p) /\ K(s.tree, p) = K(v, p)
         /\ PairIn(s.tree, non_leaf_simple_insert(s.tree, p, l, r, sep, a - 1), p, l, r, sep, a)
  <1> DEFINE w == non_leaf_simple_insert(s.tree, p, l, r, sep, a - 1)
             u == s.tree
  <1>1. /\ l # r /\ n \in {l, r} /\ N(t) = N(v) \cup {l, r} /\ N(v) \cap {l, r} = {n}
        /\ \A m \in N(v) \ {l, r} : Same(v, t, m)
        /\ sep \in Int
    BY DEF Halves
  <1>2. /\ p \in Inner(v) /\ p \in Inner(u) /\ p \notin {l, r}
        /\ a \in 1..Len(S(v, p)) /\ S(v, p)[a] = n
        /\ N(u) = N(t) /\ Formed(u)
        /\ \A m \in N(t) : Same(t, u, m)
    BY DEF HandedUp
  <1> HIDE DEF u, w
  <1>3. p \in N(v) /\ ~is_leaf(v, p)
    BY <1>2 DEF Inner
  <1>4. Same(v, u, p)
    BY <1>1, <1>2, <1>3, SameTrans
  <1>5. S(u, p) = S(v, p) /\ K(u, p) = K(v, p)
    BY <1>3, <1>4 DEF Same
  <1>6. S(u, p) \in Seq(N(u))
    BY <1>2, FormedFields
  <1>7. \A i, j \in 1..Len(S(u, p)) : S(u, p)[i] = S(u, p)[j] => i = j
    BY <1>2, <1>5, ChildOnce
  <1>8. ASSUME NEW i \in 1..Len(S(u, p)), S(u, p)[i] \in {l, r}
        PROVE  i = a
    <2>1. S(v, p)[i] \in N(v)
      BY <1>2, <1>5, ChildFacts
    <2>2. S(u, p)[i] = S(u, p)[a]
      BY <1>1, <1>2, <1>5, <1>8, <2>1
    <2> QED  BY <1>2, <1>5, <1>7, <2>2
  <1> DEFINE s2 == WithPair(S(u, p), l, r, a - 1)
  <1>9. Paired(S(u, p), a, l, r, s2)
    <2>1. a - 1 \in 0..(Len(S(u, p)) - 1) /\ l \in N(u) /\ r \in N(u) /\ a - 1 + 1 = a
      BY <1>1, <1>2, <1>5
    <2> QED  BY <1>6, <2>1, WithPairFact
  <1> HIDE DEF s2
  <1>10. S(u, p)[a] \in {l, r} /\ a \in 1..Len(S(u, p))
    BY <1>1, <1>2, <1>5
  <1>11. \A i, j \in 1..Len(s2) : s2[i] = s2[j] => i = j
    BY <1>1, <1>6, <1>7, <1>8, <1>9, <1>10, PairedOnce
  <1>12. PairIn(u, w, p, l, r, sep, a)
    <2>1. l \in N(u) /\ r \in N(u)
      BY <1>1, <1>2
    <2>2. \A i, j \in 1..Len(WithPair(S(u, p), l, r, a - 1)) :
            WithPair(S(u, p), l, r, a - 1)[i] = WithPair(S(u, p), l, r, a - 1)[j] => i = j
      BY <1>11 DEF s2
    <2>3. w = non_leaf_simple_insert(u, p, l, r, sep, a - 1)
      BY DEF w, u
    <2> QED  BY <1>1, <1>2, <1>10, <2>1, <2>2, <2>3, PairInFact
  <1> QED  BY <1>5, <1>10, <1>12 DEF u, w

\* Together they are a split of a child of p.
LEMMA AscendBody ==
  ASSUME NEW v, NEW t, NEW n, NEW l, NEW r, NEW c, NEW sep, NEW h, NEW R, NEW s, NEW p, NEW a, NEW w,
         TreeInv(v, h, R), Formed(t), Halves(v, t, n, l, r, c, sep), n # v.root,
         HandedUp(v, t, s, p, n, l, r, sep), a = X(v, n) + 2,
         S(s.tree, p) = S(v, p), K(s.tree, p) = K(v, p),
         PairIn(s.tree, w, p, l, r, sep, a)
  PROVE  SplitBody(v, w, p, a, n, l, r, c, sep)
  <1> DEFINE u == s.tree
  <1>1. /\ t.root = v.root /\ t.level = v.level
        /\ l # r /\ n \in {l, r} /\ N(t) = N(v) \cup {l, r} /\ N(v) \cap {l, r} = {n}
        /\ \A m \in N(v) \ {l, r} : Same(v, t, m)
        /\ sep \in Int
    BY DEF Halves
  <1>2. /\ p \in Inner(v) /\ p \notin {l, r}
        /\ a \in 1..Len(S(v, p)) /\ S(v, p)[a] = n
        /\ N(u) = N(t) /\ Frame(t, u)
        /\ \A m \in N(t) : Same(t, u, m)
    BY DEF HandedUp
  <1>3. /\ Frame(u, w) /\ N(w) = N(u) /\ ~is_leaf(w, p)
        /\ Entered(K(u, p), a, sep, K(w, p))
        /\ Paired(S(u, p), a, l, r, S(w, p))
        /\ \A m \in N(u) \ {p} : Same(u, w, m)
    BY DEF PairIn
  <1> HIDE DEF u
  <1>4. K(u, p) = K(v, p) /\ S(u, p) = S(v, p)
    BY DEF u
  <1>5. w.root = v.root /\ w.level = v.level
    BY <1>1, <1>2, <1>3 DEF Frame
  <1>6. p \in Inner(w)
    BY <1>1, <1>2, <1>3 DEF Inner
  <1>7. ASSUME NEW m \in N(t) \ {p}
        PROVE  Same(t, w, m)
    BY <1>2, <1>3, SameTrans
  <1>8. \A m \in N(v) \ {p, l, r} : Same(v, w, m)
    BY <1>1, <1>7, SameTrans
  <1>9. Same(t, w, l) /\ Same(t, w, r)
    BY <1>1, <1>2, <1>7
  <1>10. is_leaf(v, n) =>
       /\ is_leaf(w, l) /\ is_leaf(w, r)
       /\ c \in 0..Len(K(v, n))
       /\ Cut(K(v, n), c, c, K(w, l), K(w, r))
       /\ Cut(D(v, n), c, c, D(w, l), D(w, r))
       /\ \A j \in 1..c : K(v, n)[j] < sep
       /\ \A j \in (c + 1)..Len(K(v, n)) : sep <= K(v, n)[j]
    <2> SUFFICES ASSUME is_leaf(v, n)
                 PROVE  /\ is_leaf(w, l) /\ is_leaf(w, r)
                        /\ c \in 0..Len(K(v, n))
                        /\ Cut(K(v, n), c, c, K(w, l), K(w, r))
                        /\ Cut(D(v, n), c, c, D(w, l), D(w, r))
                        /\ \A j \in 1..c : K(v, n)[j] < sep
                        /\ \A j \in (c + 1)..Len(K(v, n)) : sep <= K(v, n)[j]
      OBVIOUS
    <2>1. /\ is_leaf(t, l) /\ is_leaf(t, r)
          /\ c \in 0..Len(K(v, n))
          /\ Cut(K(v, n), c, c, K(t, l), K(t, r))
          /\ Cut(D(v, n), c, c, D(t, l), D(t, r))
          /\ \A j \in 1..c : K(v, n)[j] < sep
          /\ \A j \in (c + 1)..Len(K(v, n)) : sep <= K(v, n)[j]
      BY DEF Halves
    <2>2. /\ is_leaf(w, l) /\ K(w, l) = K(t, l) /\ D(w, l) = D(t, l)
          /\ is_leaf(w, r) /\ K(w, r) = K(t, r) /\ D(w, r) = D(t, r)
      BY <1>9, <2>1 DEF Same
    <2> QED  BY <2>1, <2>2
  <1>11. ~is_leaf(v, n) =>
       /\ ~is_leaf(w, l) /\ ~is_leaf(w, r)
       /\ c \in 1..Len(K(v, n)) /\ sep = K(v, n)[c]
       /\ Cut(K(v, n), c - 1, c, K(w, l), K(w, r))
       /\ Cut(S(v, n), c, c, S(w, l), S(w, r))
    <2> SUFFICES ASSUME ~is_leaf(v, n)
                 PROVE  /\ ~is_leaf(w, l) /\ ~is_leaf(w, r)
                        /\ c \in 1..Len(K(v, n)) /\ sep = K(v, n)[c]
                        /\ Cut(K(v, n), c - 1, c, K(w, l), K(w, r))
                        /\ Cut(S(v, n), c, c, S(w, l), S(w, r))
      OBVIOUS
    <2>1. /\ ~is_leaf(t, l) /\ ~is_leaf(t, r)
          /\ c \in 1..Len(K(v, n)) /\ sep = K(v, n)[c]
          /\ Cut(K(v, n), c - 1, c, K(t, l), K(t, r))
          /\ Cut(S(v, n), c, c, S(t, l), S(t, r))
      BY DEF Halves
    <2>2. /\ ~is_leaf(w, l) /\ K(w, l) = K(t, l) /\ S(w, l) = S(t, l)
          /\ ~is_leaf(w, r) /\ K(w, r) = K(t, r) /\ S(w, r) = S(t, r)
      BY <1>9, <2>1 DEF Same
    <2> QED  BY <2>1, <2>2
  <1> QED  BY <1>1, <1>2, <1>3, <1>4, <1>5, <1>6, <1>8, <1>10, <1>11 DEF SplitBody

\* And the children concerned know where they are.
LEMMA AscendBacks ==
  ASSUME NEW v, NEW t, NEW n, NEW l, NEW r, NEW c, NEW sep, NEW h, NEW R, NEW s, NEW p, NEW a, NEW w,
         TreeInv(v, h, R), Formed(t), Halves(v, t, n, l, r, c, sep), n # v.root,
         HandedUp(v, t, s, p, n, l, r, sep), a = X(v, n) + 2,
         S(s.tree, p) = S(v, p), K(s.tree, p) = K(v, p),
         PairIn(s.tree, w, p, l, r, sep, a),
         SplitBody(v, w, p, a, n, l, r, c, sep)
  PROVE  SplitBacks(v, w, p, l, r)
  <1> DEFINE u == s.tree
  <1>1. /\ t.root = v.root
        /\ l # r /\ n \in {l, r} /\ N(t) = N(v) \cup {l, r} /\ N(v) \cap {l, r} = {n}
        /\ \A q \in Inner(t) \cap {l, r} : Owns(t, q)
        /\ \A m \in N(v) : P(v, m) # n => P(t, m) = P(v, m) /\ X(t, m) = X(v, m)
        /\ \A m \in {l, r} \ {n} : P(t, m) = NULL
    BY DEF Halves
  <1>2. /\ p \in Inner(v) /\ p \notin {l, r}
        /\ a \in 1..Len(S(v, p)) /\ S(v, p)[a] = n
        /\ N(u) = N(t)
        /\ \A m \in N(t) : Same(t, u, m) /\ X(u, m) = X(t, m)
        /\ \A m \in N(v) : P(u, m) = P(t, m)
        /\ P(u, l) = p /\ P(u, r) = p
    BY DEF HandedUp
  <1>3. /\ Formed(w) /\ N(w) = N(u)
        /\ Paired(S(u, p), a, l, r, S(w, p))
        /\ \A m \in N(u) \ {p} : Same(u, w, m)
        /\ \A m \in N(u) : P(w, m) = P(u, m)
        /\ \A m \in N(u) : (\A i \in a..Len(S(w, p)) : S(w, p)[i] # m) => X(w, m) = X(u, m)
        /\ \A i \in a..Len(S(w, p)) : X(w, S(w, p)[i]) = i - 2
    BY DEF PairIn
  <1>4. /\ S(u, p) = S(v, p) /\ Formed(v) /\ Parents(v) /\ n # p /\ n \in N(v) /\ p # NULL
        /\ w.root = v.root
    <2>1. p \in N(v) /\ 0 \notin N(v)
      BY <1>2 DEF TreeInv, Formed, Inner
    <2> QED  BY <1>1, <1>2, <2>1 DEF TreeInv, NULL, SplitBody
  <1> HIDE DEF u
  <1>5. /\ Len(S(w, p)) = Len(S(v, p)) + 1 /\ Len(S(v, p)) \in Nat
        /\ \A i \in 1..(Len(S(v, p)) + 1) :
             S(w, p)[i] = IF i < a THEN S(v, p)[i] ELSE IF i = a THEN l
                          ELSE IF i = a + 1 THEN r ELSE S(v, p)[i - 1]
    <2>1. S(v, p) \in Seq(N(v))
      BY <1>2, <1>4, FormedFields
    <2> QED  BY <1>3, <1>4, <2>1 DEF Paired
  \* A child of p in v other than n keeps its parent.
  <1>6. ASSUME NEW i \in 1..Len(S(v, p))
        PROVE  /\ S(v, p)[i] \in N(v) /\ P(w, S(v, p)[i]) = p
               /\ X(u, S(v, p)[i]) = i - 2
    <2>1. S(v, p)[i] \in N(v) /\ P(v, S(v, p)[i]) = p /\ X(v, S(v, p)[i]) = i - 2
      BY <1>2, ChildFacts
    <2>2. P(t, S(v, p)[i]) = p /\ X(t, S(v, p)[i]) = i - 2
      BY <1>1, <1>4, <2>1
    <2> QED  BY <1>1, <1>2, <1>3, <2>1, <2>2
  <1>7. ASSUME NEW i \in 1..Len(S(w, p))
        PROVE  P(w, S(w, p)[i]) = p /\ S(w, p)[i] \in N(w)
    <2>1. CASE i < a
      <3>1. S(w, p)[i] = S(v, p)[i] /\ i \in 1..Len(S(v, p))
        BY <1>2, <1>5, <2>1
      <3> QED  BY <1>1, <1>2, <1>3, <1>6, <3>1
    <2>2. CASE i = a
      BY <1>1, <1>2, <1>3, <1>5, <2>2
    <2>3. CASE i = a + 1
      <3>1. ~(i < a) /\ i # a
        BY <1>2, <2>3
      <3> QED  BY <1>1, <1>2, <1>3, <1>5, <2>3, <3>1
    <2>4. CASE i > a + 1
      <3>1. ~(i < a) /\ i # a /\ i # a + 1 /\ i - 1 \in 1..Len(S(v, p))
        BY <1>2, <1>5, <2>4
      <3>2. S(w, p)[i] = S(v, p)[i - 1]
        BY <1>5, <3>1
      <3> QED  BY <1>1, <1>2, <1>3, <1>6, <3>1, <3>2
    <2>5. i < a \/ i = a \/ i = a + 1 \/ i > a + 1
      BY <1>2, <1>5
    <2> QED  BY <2>1, <2>2, <2>3, <2>4, <2>5
  \* A node with another parent keeps its index.
  <1>8. ASSUME NEW m \in N(w), P(w, m) # p
        PROVE  X(w, m) = X(u, m)
    <2>1. \A i \in a..Len(S(w, p)) : S(w, p)[i] # m
      <3>1. \A i \in a..Len(S(w, p)) : i \in 1..Len(S(w, p))
        BY <1>2, <1>5
      <3> QED  BY <1>7, <1>8, <3>1
    <2> QED  BY <1>3, <2>1
  <1>9. Owns(w, p)
    <2> SUFFICES ASSUME NEW i \in 1..Len(S(w, p))
                 PROVE  P(w, S(w, p)[i]) = p /\ X(w, S(w, p)[i]) = i - 2
      BY DEF Owns
    <2>1. P(w, S(w, p)[i]) = p
      BY <1>7
    <2>2. CASE i >= a
      <3>1. i \in a..Len(S(w, p))
        BY <1>2, <1>5, <2>2
      <3> QED  BY <1>3, <2>1, <3>1
    <2>3. CASE i < a
      <3>1. S(w, p)[i] = S(v, p)[i] /\ i \in 1..Len(S(v, p))
        BY <1>2, <1>5, <2>3
      <3>2. X(u, S(v, p)[i]) = i - 2 /\ S(v, p)[i] \in N(v)
        BY <1>6, <3>1
      <3>3. ASSUME NEW j \in a..Len(S(w, p))
            PROVE  S(w, p)[j] # S(v, p)[i]
        <4>1. CASE j \in {a, a + 1}
          <5>1. S(w, p)[j] \in {l, r}
            <6>1. j \in 1..(Len(S(v, p)) + 1) /\ ~(j < a) /\ (j = a \/ (j # a /\ j = a + 1))
              BY <1>2, <1>5, <4>1
            <6> QED  BY <1>5, <6>1
          <5>2. S(v, p)[i] # n
            <6>1. S(v, p)[i] = S(v, p)[a] => i = a
              BY <1>2, <3>1, ChildOnce
            <6> QED  BY <1>2, <2>3, <6>1
          <5>3. S(v, p)[i] \notin {l, r}
            BY <1>1, <3>2, <5>2
          <5> QED  BY <5>1, <5>3
        <4>2. CASE j > a + 1
          <5>1. j - 1 \in 1..Len(S(v, p)) /\ j - 1 # i /\ j \in 1..(Len(S(v, p)) + 1)
                /\ ~(j < a) /\ j # a /\ j # a + 1
            BY <1>2, <1>5, <2>3, <4>2
          <5>2. S(w, p)[j] = S(v, p)[j - 1]
            BY <1>5, <5>1
          <5> QED  BY <1>2, <3>1, <5>1, <5>2, ChildOnce
        <4> QED  BY <1>2, <1>5, <4>1, <4>2
      <3>4. S(v, p)[i] \in N(u)
        BY <1>1, <1>2, <3>2
      <3> QED  BY <1>3, <2>1, <3>1, <3>2, <3>3, <3>4
    <2>4. i >= a \/ i < a
      BY <1>2
    <2> QED  BY <2>2, <2>3, <2>4
  <1>10. ASSUME NEW q \in Inner(w) \cap {l, r}
         PROVE  Owns(w, q)
    <2>1. q \in N(t) /\ q # p /\ Same(t, u, q) /\ Same(u, w, q) /\ ~is_leaf(w, q) /\ q # NULL
      <3>1. q \in N(t) /\ q # p /\ q \in N(w) /\ ~is_leaf(w, q)
        BY <1>1, <1>2 DEF Inner
      <3>2. q # NULL
        BY <3>1, <1>3 DEF Formed, NULL
      <3> QED  BY <1>2, <1>3, <3>1, <3>2
    <2>2. S(w, q) = S(t, q) /\ q \in Inner(t)
      BY <2>1 DEF Same, Inner
    <2>3. Owns(t, q) /\ S(t, q) \in Seq(N(t))
      BY <1>1, <2>2, FormedFields
    <2> SUFFICES ASSUME NEW i \in 1..Len(S(w, q))
                 PROVE  P(w, S(w, q)[i]) = q /\ X(w, S(w, q)[i]) = i - 2
      BY DEF Owns
    <2> DEFINE m == S(w, q)[i]
    <2>4. m \in N(t) /\ P(t, m) = q /\ X(t, m) = i - 2
      BY <2>2, <2>3 DEF Owns
    <2> HIDE DEF m
    <2>5. m \in N(v)
      BY <1>1, <2>1, <2>4
    <2>6. P(w, m) = q
      BY <1>2, <1>3, <2>4, <2>5
    <2>7. X(w, m) = i - 2
      BY <1>2, <1>3, <1>8, <2>1, <2>4, <2>6
    <2> QED  BY <2>6, <2>7 DEF m
  <1>11. ASSUME NEW q \in Inner(w) \ {p, l, r}, NEW i \in 1..Len(S(w, q))
         PROVE  P(w, S(w, q)[i]) = P(v, S(w, q)[i]) /\ X(w, S(w, q)[i]) = X(v, S(w, q)[i])
    <2>1. q \in Inner(v) /\ S(w, q) = S(v, q)
      BY <1>3, <1>4, SplitInner
    <2>2. S(v, q)[i] \in N(v) /\ P(v, S(v, q)[i]) = q
      BY <2>1, ChildFacts
    <2> DEFINE m == S(w, q)[i]
    <2>3. m \in N(v) /\ P(v, m) = q /\ q # n /\ q # p
      BY <1>1, <2>1, <2>2
    <2> HIDE DEF m
    <2>4. P(t, m) = q /\ X(t, m) = X(v, m)
      BY <1>1, <2>3
    <2>5. m \in N(w) /\ P(w, m) = q
      BY <1>1, <1>2, <1>3, <2>3, <2>4
    <2>6. X(w, m) = X(v, m)
      BY <1>2, <1>3, <1>8, <2>3, <2>4, <2>5
    <2> QED  BY <2>3, <2>5, <2>6 DEF m
  <1>12. P(w, w.root) = NULL
    <2>1. v.root \in N(v) /\ P(v, v.root) = NULL /\ n # NULL
      BY <1>4 DEF Parents, Formed, NULL
    <2>2. P(t, v.root) = NULL
      BY <1>1, <2>1
    <2> QED  BY <1>1, <1>2, <1>3, <1>4, <2>1, <2>2
  <1> QED  BY <1>9, <1>10, <1>11, <1>12 DEF SplitBacks

\* w is t with a new root q above l and r.
RootDone(t, w, q, l, r, sep) ==
  /\ q \in Nat \ {0} /\ q \notin N(t) /\ N(w) = N(t) \cup {q} /\ Formed(w)
  /\ w.root = q /\ w.level = t.level + 1
  /\ w.ok = t.ok /\ w.order = t.order /\ w.entries = t.entries
  /\ DOMAIN w.link = DOMAIN t.link \cup {q}
  /\ w.link = Added(t.link, q, ListHead(w.level), t.link[ListHead(w.level)].next)
  /\ ~is_leaf(w, q) /\ K(w, q) = <<sep>> /\ S(w, q) = <<l, r>> /\ P(w, q) = NULL
  /\ \A m \in N(t) : Same(t, w, m)
  /\ P(w, l) = q /\ X(w, l) = -1 /\ P(w, r) = q /\ X(w, r) = 0
  /\ \A m \in N(t) \ {l, r} : P(w, m) = P(t, m) /\ X(w, m) = X(t, m)

\* NewRoot does what RootDone says.
LEMMA NewRootFact ==
  ASSUME NEW t, Formed(t), NEW l \in N(t), NEW r \in N(t), l # r, NEW sep \in Int
  PROVE  RootDone(t, NewRoot(t, l, r, sep), Fresh(t), l, r, sep)
  <1> DEFINE q == Fresh(t)
             rec == [non_leaf_new EXCEPT !.key = <<sep>>, !.sub_ptr = <<l, r>>]
             b == Store(t, q, rec)
             u == Adopt(b, q, {0, 1})
             z == [u EXCEPT !.root = q, !.level = @ + 1]
             w == __list_add(z, q, ListHead(z.level), z.link[ListHead(z.level)].next)
  <1>1. w = NewRoot(t, l, r, sep)
    BY DEF NewRoot, list_add
  <1>2. q \in Nat \ {0} /\ q \notin N(t) /\ DOMAIN t = Fields
    BY FreshFact, FormedFields DEF Formed
  <1>3. /\ DOMAIN rec = InnerFields /\ rec.type = "non_leaf" /\ rec.key = <<sep>> /\ rec.sub_ptr = <<l, r>>
        /\ rec.parent = NULL /\ rec.parent_key_idx = -1
    BY DEF non_leaf_new, InnerFields
  <1> HIDE DEF q, rec
  <1>4. /\ Frame(t, b) /\ b.link = t.link /\ N(b) = N(t) \cup {q} /\ b.node[q] = rec
        /\ \A m \in N(t) \ {q} : b.node[m] = t.node[m]
    BY <1>2, StoreEffect
  <1> HIDE DEF b
  <1>5. S(b, q) = <<l, r>> /\ DOMAIN b = Fields
    BY <1>2, <1>3, <1>4 DEF S, Frame
  <1>6. At(S(b, q), 0) = l /\ At(S(b, q), 1) = r
    BY <1>5 DEF At
  <1>7. /\ \A i \in {0, 1} : At(S(b, q), i) \in N(b)
        /\ \A i \in {0, 1}, j \in {0, 1} : At(S(b, q), i) = At(S(b, q), j) => i = j
    <2>1. ASSUME NEW i \in {0, 1}, NEW j \in {0, 1}, At(S(b, q), i) = At(S(b, q), j)
          PROVE  i = j
      <3>1. (i = 0 \/ i = 1) /\ (j = 0 \/ j = 1)
        OBVIOUS
      <3> QED  BY <1>6, <2>1, <3>1
    <2>2. ASSUME NEW i \in {0, 1}
          PROVE  At(S(b, q), i) \in N(b)
      <3>1. i = 0 \/ i = 1
        OBVIOUS
      <3> QED  BY <1>4, <1>6, <3>1
    <2> QED  BY <2>1, <2>2
  <1>8. \A m \in N(b) : {"type", "parent", "parent_key_idx", "key"} \subseteq DOMAIN b.node[m]
    <2>1. {"type", "parent", "parent_key_idx", "key"} \subseteq DOMAIN b.node[q]
      BY <1>3, <1>4 DEF InnerFields
    <2>2. ASSUME NEW m \in N(t)
          PROVE  {"type", "parent", "parent_key_idx", "key"} \subseteq DOMAIN b.node[m]
      <3>1. b.node[m] = t.node[m]
        BY <1>2, <1>4
      <3>2. {"type", "parent", "parent_key_idx", "key"} \subseteq DOMAIN t.node[m]
        BY FormedFields
      <3> QED  BY <3>1, <3>2
    <2> QED  BY <1>4, <2>1, <2>2
  <1>9. /\ Frame(b, u) /\ u.link = b.link /\ N(u) = N(b)
        /\ \A n \in N(b) : Alike(b, u, n)
        /\ \A n \in N(b) : (\A i \in {0, 1} : At(S(b, q), i) # n) => u.node[n] = b.node[n]
        /\ \A i \in {0, 1} : P(u, At(S(b, q), i)) = q /\ X(u, At(S(b, q), i)) = i - 1
    BY <1>5, <1>7, <1>8, AdoptEffect
  <1> HIDE DEF u
  <1>10. P(u, l) = q /\ X(u, l) = -1 /\ P(u, r) = q /\ X(u, r) = 0
    <2>1. P(u, At(S(b, q), 0)) = q /\ X(u, At(S(b, q), 0)) = 0 - 1
      BY <1>9
    <2>2. P(u, At(S(b, q), 1)) = q /\ X(u, At(S(b, q), 1)) = 1 - 1
      BY <1>9
    <2> QED  BY <1>6, <2>1, <2>2
  <1>11. /\ DOMAIN z = Fields /\ z.node = u.node /\ z.root = q /\ z.level = t.level + 1
         /\ z.ok = t.ok /\ z.order = t.order /\ z.entries = t.entries /\ z.link = t.link
    BY <1>2, <1>4, <1>9 DEF Frame, Fields
  <1> HIDE DEF z
  <1>12. Frame(z, w) /\ w.node = z.node /\ DOMAIN w.link = DOMAIN z.link \cup {q}
         /\ w.link = Added(z.link, q, ListHead(z.level), z.link[ListHead(z.level)].next)
    BY <1>11, ListAddEffect
  <1> HIDE DEF w
  <1>13. w.node = u.node /\ N(w) = N(t) \cup {q}
    BY <1>4, <1>9, <1>11, <1>12 DEF N
  <1>14. \A m \in N(w) : Alike(b, w, m)
    BY <1>4, <1>9, <1>13 DEF Alike
  <1>15. P(w, l) = q /\ X(w, l) = -1 /\ P(w, r) = q /\ X(w, r) = 0
    BY <1>10, <1>13 DEF P, X
  <1>16. \A m \in N(t) \ {l, r} : P(w, m) = P(t, m) /\ X(w, m) = X(t, m)
    BY <1>2, <1>4, <1>6, <1>9, <1>13 DEF P, X
  <1>17. ASSUME NEW m \in N(t)
         PROVE  NodeFormed(w, m) /\ Same(t, w, m)
    <2>1. Alike(t, w, m)
      BY <1>2, <1>4, <1>13, <1>14 DEF Alike
    <2>2. /\ NodeFormed(t, m) /\ P(t, m) \in N(t) \cup {NULL} /\ X(t, m) \in Int
      BY FormedFields
    <2>3. P(w, m) \in N(w) \cup {NULL} /\ X(w, m) \in Int
      BY <1>13, <1>15, <1>16, <2>2
    <2> QED  BY <1>13, <2>1, <2>2, <2>3, AlikeFormed
  <1>18. /\ ~is_leaf(w, q) /\ K(w, q) = <<sep>> /\ S(w, q) = <<l, r>> /\ P(w, q) = NULL
         /\ NodeFormed(w, q)
    <2>1. w.node[q] = rec
      BY <1>2, <1>4, <1>6, <1>9, <1>13
    <2>2. /\ w.node[q].type = "non_leaf" /\ K(w, q) = <<sep>> /\ S(w, q) = <<l, r>> /\ P(w, q) = NULL
          /\ X(w, q) = -1
          /\ DOMAIN w.node[q] = {"type", "parent", "parent_key_idx", "key"} \cup {"sub_ptr"}
      BY <1>3, <2>1 DEF K, S, P, X, InnerFields
    <2>3. ~is_leaf(w, q)
      BY <2>2 DEF is_leaf
    <2>4. <<sep>> \in Seq(Int) /\ <<l, r>> \in Seq(N(w)) /\ Len(<<l, r>>) = Len(<<sep>>) + 1
      BY <1>13
    <2>5. NodeFormed(w, q)
      BY <2>2, <2>3, <2>4 DEF NodeFormed
    <2> QED  BY <2>2, <2>3, <2>5
  <1>19. /\ w.root = q /\ w.level = t.level + 1 /\ w.ok = t.ok /\ w.order = t.order
         /\ w.entries = t.entries /\ DOMAIN w.link = DOMAIN t.link \cup {q} /\ DOMAIN w = Fields
         /\ w.link = Added(t.link, q, ListHead(w.level), t.link[ListHead(w.level)].next)
    BY <1>11, <1>12 DEF Frame
  <1>20. Formed(w)
    <2>1. t.level \in Nat /\ N(t) \subseteq Nat \ {0} /\ IsFiniteSet(N(t))
      BY DEF Formed
    <2>2. IsFiniteSet(N(w))
      BY <1>13, <2>1, FS_AddElement
    <2>3. w.level \in Nat /\ N(w) \subseteq Nat \ {0} /\ w.root \in N(w)
      BY <1>2, <1>13, <1>19, <2>1
    <2>4. DOMAIN w = {"order", "entries", "level", "root", "node", "link", "ok"}
      BY <1>19 DEF Fields
    <2> QED  BY <1>13, <1>17, <1>18, <2>2, <2>3, <2>4 DEF Formed
  <1>21. RootDone(t, w, q, l, r, sep)
    BY <1>2, <1>13, <1>15, <1>16, <1>17, <1>18, <1>19, <1>20 DEF RootDone
  <1> QED  BY <1>1, <1>21 DEF q

\* v with a root above that has one child.
Roofed(v, q) ==
  [v EXCEPT !.node = [m \in N(v) \cup {q} |->
                        IF m = q THEN [non_leaf_new EXCEPT !.sub_ptr = <<v.root>>]
                        ELSE IF m = v.root THEN [v.node[m] EXCEPT !.parent = q, !.parent_key_idx = -1]
                        ELSE v.node[m]],
            !.link = IF v.level + 1 < MaxLevel
                     THEN Added(@, q, ListHead(v.level + 1), v.link[ListHead(v.level + 1)].next)
                     ELSE @,
            !.root = q, !.level = @ + 1]

\* Such a root is well formed.
LEMMA RoofedFact ==
  ASSUME NEW v, NEW h, NEW R, TreeInv(v, h, R), NEW q \in Nat \ {0}, q \notin N(v)
  PROVE  Formed(Roofed(v, q)) /\ RootBody(v, Roofed(v, q), q) /\ K(Roofed(v, q), q) = <<>>
  <1> DEFINE u == Roofed(v, q)
  <1>1. /\ Formed(v) /\ Parents(v) /\ DOMAIN v = Fields /\ v.root \in N(v) /\ v.level \in Nat
        /\ N(v) \subseteq Nat \ {0} /\ IsFiniteSet(N(v)) /\ P(v, v.root) = NULL
    BY FormedFields DEF TreeInv, Parents, Formed
  <1>2. /\ DOMAIN u = Fields /\ u.root = q /\ u.level = v.level + 1 /\ N(u) = N(v) \cup {q}
        /\ u.node[q] = [non_leaf_new EXCEPT !.sub_ptr = <<v.root>>]
        /\ u.node[v.root] = [v.node[v.root] EXCEPT !.parent = q, !.parent_key_idx = -1]
        /\ \A m \in N(v) \ {v.root} : u.node[m] = v.node[m]
    BY <1>1 DEF Roofed, Fields, N
  <1> HIDE DEF u
  <1>3. /\ u.node[q].type = "non_leaf" /\ K(u, q) = <<>> /\ S(u, q) = <<v.root>> /\ P(u, q) = NULL
        /\ X(u, q) = -1
        /\ DOMAIN u.node[q] = {"type", "parent", "parent_key_idx", "key"} \cup {"sub_ptr"}
    BY <1>2 DEF non_leaf_new, K, S, P, X
  <1>4. ~is_leaf(u, q)
    BY <1>3 DEF is_leaf
  <1>5. {"type", "parent", "parent_key_idx", "key"} \subseteq DOMAIN v.node[v.root]
    BY <1>1, FormedFields
  <1>6. P(u, v.root) = q /\ X(u, v.root) = -1 /\ Alike(v, u, v.root)
    BY <1>2, <1>5 DEF P, X, Alike
  <1>7. \A m \in N(v) \ {v.root} : P(u, m) = P(v, m) /\ X(u, m) = X(v, m) /\ Alike(v, u, m)
    BY <1>2 DEF P, X, Alike
  <1>8. ASSUME NEW m \in N(v)
        PROVE  NodeFormed(u, m) /\ Same(v, u, m)
    <2>1. NodeFormed(v, m) /\ P(v, m) \in N(v) \cup {NULL} /\ X(v, m) \in Int
      BY <1>1, FormedFields
    <2>2. Alike(v, u, m) /\ P(u, m) \in N(u) \cup {NULL} /\ X(u, m) \in Int
      BY <1>2, <1>6, <1>7, <2>1
    <2> QED  BY <1>2, <2>1, <2>2, AlikeFormed
  <1>9. NodeFormed(u, q)
    <2>1. <<>> \in Seq(Int) /\ <<v.root>> \in Seq(N(u)) /\ Len(<<v.root>>) = Len(<<>>) + 1
      BY <1>1, <1>2
    <2> QED  BY <1>3, <1>4, <2>1 DEF NodeFormed
  <1>10. IsFiniteSet(N(u))
    BY <1>1, <1>2, FS_AddElement
  <1>11. DOMAIN u = {"order", "entries", "level", "root", "node", "link", "ok"}
    BY <1>2 DEF Fields
  <1>12. Formed(u)
    <2>1. u.level \in Nat /\ u.root \in N(u) /\ N(u) \subseteq Nat \ {0}
      BY <1>1, <1>2
    <2> QED  BY <1>2, <1>8, <1>9, <1>10, <1>11, <2>1 DEF Formed
  <1>13. Len(S(u, q)) = 1 /\ S(u, q)[1] = v.root
    BY <1>3
  <1>14. RootBody(v, u, q)
    BY <1>1, <1>2, <1>3, <1>4, <1>6, <1>7, <1>8, <1>13 DEF RootBody
  <1> QED  BY <1>3, <1>12, <1>14 DEF u

\* The lists with the new root.
LEMMA RoofedLink ==
  ASSUME NEW v, DOMAIN v = Fields, NEW q, v.level + 1 < MaxLevel
  PROVE  Roofed(v, q).link
           = Added(v.link, q, ListHead(v.level + 1), v.link[ListHead(v.level + 1)].next)
  BY DEF Roofed, Fields

\* Same is symmetric.
LEMMA SameSym ==
  ASSUME NEW t, NEW u, NEW m, Same(t, u, m)
  PROVE  Same(u, t, m)
  BY DEF Same

\* The divided root gets a new root above: that is a split below it.
LEMMA RootSplit ==
  ASSUME NEW v, NEW t, NEW n, NEW l, NEW r, NEW c, NEW sep, NEW h, NEW R, NEW w, NEW q,
         TreeInv(v, h, R), Formed(t), Halves(v, t, n, l, r, c, sep), n = v.root,
         RootDone(t, w, q, l, r, sep)
  PROVE  SplitBody(Roofed(v, q), w, q, 1, n, l, r, c, sep) /\ SplitBacks(Roofed(v, q), w, q, l, r)
  <1>1. /\ t.root = v.root /\ t.level = v.level
        /\ l # r /\ n \in {l, r} /\ N(t) = N(v) \cup {l, r} /\ N(v) \cap {l, r} = {n}
        /\ sep \in Int
        /\ \A m \in N(v) \ {l, r} : Same(v, t, m)
        /\ \A q0 \in Inner(t) \cap {l, r} : Owns(t, q0)
        /\ \A m \in N(v) : P(v, m) # n => P(t, m) = P(v, m) /\ X(t, m) = X(v, m)
        /\ \A m \in {l, r} \ {n} : P(t, m) = NULL
    BY DEF Halves
  <1>2. /\ q \in Nat \ {0} /\ q \notin N(t) /\ N(w) = N(t) \cup {q} /\ Formed(w)
        /\ w.root = q /\ w.level = t.level + 1
        /\ ~is_leaf(w, q) /\ K(w, q) = <<sep>> /\ S(w, q) = <<l, r>> /\ P(w, q) = NULL
        /\ \A m \in N(t) : Same(t, w, m)
        /\ P(w, l) = q /\ X(w, l) = -1 /\ P(w, r) = q /\ X(w, r) = 0
        /\ \A m \in N(t) \ {l, r} : P(w, m) = P(t, m) /\ X(w, m) = X(t, m)
    BY DEF RootDone
  <1> DEFINE u == Roofed(v, q)
  <1>3. Formed(u) /\ RootBody(v, u, q) /\ K(u, q) = <<>>
    BY <1>1, <1>2, RoofedFact
  <1> HIDE DEF u
  <1>4. /\ q \notin N(v) /\ N(u) = N(v) \cup {q}
        /\ u.root = q /\ u.level = v.level + 1
        /\ ~is_leaf(u, q) /\ Len(S(u, q)) = 1 /\ S(u, q)[1] = v.root
        /\ \A m \in N(v) : Same(v, u, m)
        /\ \A m \in N(v) \ {v.root} : P(u, m) = P(v, m) /\ X(u, m) = X(v, m)
        /\ P(v, v.root) = NULL
    BY <1>3 DEF RootBody
  <1>5. n \in N(v) /\ n # NULL /\ Formed(v) /\ q \notin {l, r} /\ 0 \notin N(t)
    BY <1>1, <1>2 DEF TreeInv, Formed, NULL
  <1>6. P(t, l) = NULL /\ P(t, r) = NULL
    BY <1>1, <1>4, <1>5
  <1>7. SplitBody(u, w, q, 1, n, l, r, c, sep)
    <2>1. \A m \in N(u) \ {q, l, r} : Same(u, w, m)
      <3> SUFFICES ASSUME NEW m \in N(u) \ {q, l, r} PROVE Same(u, w, m)
        OBVIOUS
      <3>1. Same(v, u, m) /\ Same(v, t, m) /\ Same(t, w, m)
        BY <1>1, <1>2, <1>4
      <3> QED  BY <3>1, SameSym, SameTrans
    <2>2. Same(t, w, l) /\ Same(t, w, r) /\ Same(v, u, n)
      BY <1>1, <1>2, <1>4, <1>5
    <2>3. is_leaf(u, n) =>
       /\ is_leaf(w, l) /\ is_leaf(w, r)
       /\ c \in 0..Len(K(u, n))
       /\ Cut(K(u, n), c, c, K(w, l), K(w, r))
       /\ Cut(D(u, n), c, c, D(w, l), D(w, r))
       /\ \A j \in 1..c : K(u, n)[j] < sep
       /\ \A j \in (c + 1)..Len(K(u, n)) : sep <= K(u, n)[j]
      <3> SUFFICES ASSUME is_leaf(u, n)
                   PROVE  /\ is_leaf(w, l) /\ is_leaf(w, r)
                          /\ c \in 0..Len(K(u, n))
                          /\ Cut(K(u, n), c, c, K(w, l), K(w, r))
                          /\ Cut(D(u, n), c, c, D(w, l), D(w, r))
                          /\ \A j \in 1..c : K(u, n)[j] < sep
                          /\ \A j \in (c + 1)..Len(K(u, n)) : sep <= K(u, n)[j]
        OBVIOUS
      <3>1. is_leaf(v, n) /\ K(u, n) = K(v, n) /\ D(u, n) = D(v, n)
        BY <2>2 DEF Same
      <3>2. /\ is_leaf(t, l) /\ is_leaf(t, r)
            /\ c \in 0..Len(K(v, n))
            /\ Cut(K(v, n), c, c, K(t, l), K(t, r))
            /\ Cut(D(v, n), c, c, D(t, l), D(t, r))
            /\ \A j \in 1..c : K(v, n)[j] < sep
            /\ \A j \in (c + 1)..Len(K(v, n)) : sep <= K(v, n)[j]
        BY <3>1 DEF Halves
      <3>3. /\ is_leaf(w, l) /\ K(w, l) = K(t, l) /\ D(w, l) = D(t, l)
            /\ is_leaf(w, r) /\ K(w, r) = K(t, r) /\ D(w, r) = D(t, r)
        BY <2>2, <3>2 DEF Same
      <3> QED  BY <3>1, <3>2, <3>3
    <2>4. ~is_leaf(u, n) =>
       /\ ~is_leaf(w, l) /\ ~is_leaf(w, r)
       /\ c \in 1..Len(K(u, n)) /\ sep = K(u, n)[c]
       /\ Cut(K(u, n), c - 1, c, K(w, l), K(w, r))
       /\ Cut(S(u, n), c, c, S(w, l), S(w, r))
      <3> SUFFICES ASSUME ~is_leaf(u, n)
                   PROVE  /\ ~is_leaf(w, l) /\ ~is_leaf(w, r)
                          /\ c \in 1..Len(K(u, n)) /\ sep = K(u, n)[c]
                          /\ Cut(K(u, n), c - 1, c, K(w, l), K(w, r))
                          /\ Cut(S(u, n), c, c, S(w, l), S(w, r))
        OBVIOUS
      <3>1. ~is_leaf(v, n) /\ K(u, n) = K(v, n) /\ S(u, n) = S(v, n)
        BY <2>2 DEF Same
      <3>2. /\ ~is_leaf(t, l) /\ ~is_leaf(t, r)
            /\ c \in 1..Len(K(v, n)) /\ sep = K(v, n)[c]
            /\ Cut(K(v, n), c - 1, c, K(t, l), K(t, r))
            /\ Cut(S(v, n), c, c, S(t, l), S(t, r))
        BY <3>1 DEF Halves
      <3>3. /\ ~is_leaf(w, l) /\ K(w, l) = K(t, l) /\ S(w, l) = S(t, l)
            /\ ~is_leaf(w, r) /\ K(w, r) = K(t, r) /\ S(w, r) = S(t, r)
        BY <2>2, <3>2 DEF Same
      <3> QED  BY <3>1, <3>2, <3>3
    <2>5. Entered(K(u, q), 1, sep, K(w, q))
      BY <1>2, <1>3 DEF Entered
    <2>6. Paired(S(u, q), 1, l, r, S(w, q))
      <3>1. Len(<<l, r>>) = 1 + 1 /\ \A j \in 1..(1 + 1) : <<l, r>>[j] = IF j = 1 THEN l ELSE r
        OBVIOUS
      <3>2. ASSUME NEW j \in 1..(1 + 1)
            PROVE  <<l, r>>[j] = IF j < 1 THEN S(u, q)[j] ELSE IF j = 1 THEN l
                                 ELSE IF j = 1 + 1 THEN r ELSE S(u, q)[j - 1]
        <4>1. ~(j < 1) /\ (j # 1 => j = 1 + 1)
          OBVIOUS
        <4> QED  BY <3>1, <4>1
      <3> QED  BY <1>2, <1>4, <3>1, <3>2 DEF Paired
    <2>7. q \in Inner(u) /\ q \in Inner(w) /\ 1 \in 1..Len(S(u, q)) /\ S(u, q)[1] = n
      BY <1>2, <1>4 DEF Inner
    <2>8. /\ w.root = u.root /\ w.level = u.level /\ n # u.root
          /\ N(w) = N(u) \cup {l, r} /\ N(u) \cap {l, r} = {n}
      BY <1>1, <1>2, <1>4, <1>5
    <2> QED  BY <1>1, <1>5, <2>1, <2>3, <2>4, <2>5, <2>6, <2>7, <2>8 DEF SplitBody
  <1>8. SplitBacks(u, w, q, l, r)
    <2>1. Owns(w, q)
      <3> SUFFICES ASSUME NEW i \in 1..Len(S(w, q))
                   PROVE  P(w, S(w, q)[i]) = q /\ X(w, S(w, q)[i]) = i - 2
        BY DEF Owns
      <3>1. (i = 1 /\ S(w, q)[i] = l) \/ (i = 2 /\ S(w, q)[i] = r)
        BY <1>2
      <3> QED  BY <1>2, <3>1
    <2>2. ASSUME NEW x \in Inner(w) \cap {l, r}
          PROVE  Owns(w, x)
      <3>1. x \in N(t) /\ Same(t, w, x) /\ ~is_leaf(w, x)
        BY <1>1, <1>2 DEF Inner
      <3>2. x \in Inner(t) /\ S(w, x) = S(t, x) /\ x # NULL
        BY <1>5, <3>1 DEF Same, Inner, NULL
      <3>3. Owns(t, x) /\ S(t, x) \in Seq(N(t))
        BY <1>1, <3>2, FormedFields
      <3> SUFFICES ASSUME NEW i \in 1..Len(S(w, x))
                   PROVE  P(w, S(w, x)[i]) = x /\ X(w, S(w, x)[i]) = i - 2
        BY DEF Owns
      <3> DEFINE m == S(w, x)[i]
      <3>4. m \in N(t) /\ P(t, m) = x /\ X(t, m) = i - 2
        BY <3>2, <3>3 DEF Owns
      <3> HIDE DEF m
      <3>5. m \in N(t) \ {l, r}
        BY <1>6, <3>2, <3>4
      <3> QED  BY <1>2, <3>4, <3>5 DEF m
    <2>3. ASSUME NEW x \in Inner(w) \ {q, l, r}, NEW i \in 1..Len(S(w, x))
          PROVE  P(w, S(w, x)[i]) = P(u, S(w, x)[i]) /\ X(w, S(w, x)[i]) = X(u, S(w, x)[i])
      <3>1. x \in N(v) \ {l, r} /\ ~is_leaf(w, x)
        BY <1>1, <1>2 DEF Inner
      <3>2. Same(v, t, x) /\ Same(t, w, x)
        BY <1>1, <1>2, <3>1
      <3>3. x \in Inner(v) /\ S(w, x) = S(v, x)
        BY <3>1, <3>2 DEF Same, Inner
      <3>4. S(v, x)[i] \in N(v) /\ P(v, S(v, x)[i]) = x
        BY <3>3, ChildFacts
      <3> DEFINE m == S(w, x)[i]
      <3>5. m \in N(v) /\ P(v, m) = x /\ x # n /\ x # NULL
        <4>1. x # NULL
          BY <1>1, <1>5, <3>1 DEF NULL
        <4> QED  BY <1>1, <3>1, <3>3, <3>4, <4>1
      <3> HIDE DEF m
      <3>6. P(t, m) = x /\ X(t, m) = X(v, m)
        BY <1>1, <3>5
      <3>7. m \in N(t) \ {l, r} /\ m # v.root
        BY <1>1, <1>4, <1>6, <3>5, <3>6
      <3> QED  BY <1>2, <1>4, <3>5, <3>6, <3>7 DEF m
    <2>4. P(w, w.root) = NULL
      BY <1>2
    <2> QED  BY <2>1, <2>2, <2>3, <2>4 DEF SplitBacks
  <1> QED  BY <1>7, <1>8 DEF u

-----------------------------------------------------------------------------
\* What is filed in the leaves.

Has(t, k, d) ==
  \E n \in Leafs(t) : \E i \in 1..Len(K(t, n)) : K(t, n)[i] = k /\ D(t, n)[i] = d
Filed(t) == {kd \in Int \X Int : Has(t, kd[1], kd[2])}

\* A split moves entries and changes none.
LEMMA SplitFiled ==
  ASSUME NEW v, NEW w, NEW p, NEW a, NEW n, NEW l, NEW r, NEW c, NEW sep,
         Formed(v), Formed(w), SplitBody(v, w, p, a, n, l, r, c, sep)
  PROVE  Filed(w) = Filed(v)
  <1>1. /\ Leafs(w) \ {l, r} = Leafs(v) \ {n}
        /\ \A q \in Leafs(w) \ {l, r} : D(w, q) = D(v, q) /\ K(w, q) = K(v, q)
        /\ ~is_leaf(v, n) => l \in Inner(w) /\ r \in Inner(w) /\ n \in Inner(v)
        /\ is_leaf(v, n) => n \in Leafs(v) /\ l \in Leafs(w) /\ r \in Leafs(w)
    BY SplitInner
  <1>2. is_leaf(v, n) =>
          /\ c \in 0..Len(K(v, n))
          /\ Cut(K(v, n), c, c, K(w, l), K(w, r))
          /\ Cut(D(v, n), c, c, D(w, l), D(w, r))
          /\ Len(D(v, n)) = Len(K(v, n)) /\ Len(K(v, n)) \in Nat
    <2>1. ASSUME is_leaf(v, n) PROVE Len(D(v, n)) = Len(K(v, n)) /\ Len(K(v, n)) \in Nat
      <3>1. NodeFormed(v, n)
        BY <1>1, <2>1 DEF Formed, Leafs
      <3> QED  BY <2>1, <3>1 DEF NodeFormed
    <2> QED  BY <2>1 DEF SplitBody
  <1>3. ASSUME NEW k, NEW d, Has(v, k, d)
        PROVE  Has(w, k, d)
    <2>0. PICK m \in Leafs(v) : \E i \in 1..Len(K(v, m)) : K(v, m)[i] = k /\ D(v, m)[i] = d
      BY <1>3 DEF Has
    <2>1. PICK i \in 1..Len(K(v, m)) : K(v, m)[i] = k /\ D(v, m)[i] = d
      BY <2>0
    <2>2. CASE m # n
      <3>1. m \in Leafs(w) /\ D(w, m) = D(v, m) /\ K(w, m) = K(v, m)
        BY <1>1, <2>2
      <3> QED  BY <2>1, <3>1 DEF Has
    <2>3. CASE m = n /\ i <= c
      <3>1. is_leaf(v, n)
        BY <2>3 DEF Leafs
      <3>2. i \in 1..c /\ i \in 1..Len(K(w, l)) /\ K(w, l)[i] = K(v, n)[i] /\ D(w, l)[i] = D(v, n)[i]
        BY <1>2, <2>3, <3>1 DEF Cut
      <3>3. l \in Leafs(w)
        BY <1>1, <3>1
      <3> QED  BY <2>1, <2>3, <3>2, <3>3 DEF Has
    <2>4. CASE m = n /\ i > c
      <3>1. is_leaf(v, n)
        BY <2>4 DEF Leafs
      <3>2. i - c \in 1..(Len(K(v, n)) - c) /\ c + (i - c) = i
        BY <1>2, <2>4, <3>1
      <3>3. i - c \in 1..Len(K(w, r)) /\ K(w, r)[i - c] = K(v, n)[i] /\ D(w, r)[i - c] = D(v, n)[i]
        BY <1>2, <3>1, <3>2 DEF Cut
      <3>4. r \in Leafs(w)
        BY <1>1, <3>1
      <3> QED  BY <2>1, <2>4, <3>3, <3>4 DEF Has
    <2>5. m = n => i <= c \/ i > c
      <3>1. ASSUME m = n PROVE c \in Int /\ i \in Int
        <4>1. is_leaf(v, n)
          BY <3>1 DEF Leafs
        <4> QED  BY <1>2, <3>1, <4>1
      <3> QED  BY <3>1
    <2> QED  BY <2>2, <2>3, <2>4, <2>5
  <1>4. ASSUME NEW k, NEW d, Has(w, k, d)
        PROVE  Has(v, k, d)
    <2>0. PICK m \in Leafs(w) : \E i \in 1..Len(K(w, m)) : K(w, m)[i] = k /\ D(w, m)[i] = d
      BY <1>4 DEF Has
    <2>1. PICK i \in 1..Len(K(w, m)) : K(w, m)[i] = k /\ D(w, m)[i] = d
      BY <2>0
    <2>2. CASE m \notin {l, r}
      <3>1. m \in Leafs(v) /\ D(w, m) = D(v, m) /\ K(w, m) = K(v, m)
        BY <1>1, <2>2
      <3> QED  BY <2>1, <3>1 DEF Has
    <2>3. CASE m \in {l, r}
      <3>1. is_leaf(v, n)
        BY <1>1, <2>3 DEF Leafs, Inner
      <3>2. n \in Leafs(v)
        BY <1>1, <3>1
      <3>3. CASE m = l
        <4>1. i \in 1..c /\ i \in 1..Len(K(v, n)) /\ K(w, l)[i] = K(v, n)[i] /\ D(w, l)[i] = D(v, n)[i]
          BY <1>2, <3>1, <3>3 DEF Cut
        <4> QED  BY <2>1, <3>2, <3>3, <4>1 DEF Has
      <3>4. CASE m = r
        <4>1. i \in 1..(Len(K(v, n)) - c) /\ K(w, r)[i] = K(v, n)[c + i] /\ D(w, r)[i] = D(v, n)[c + i]
          BY <1>2, <3>1, <3>4 DEF Cut
        <4>2. c + i \in 1..Len(K(v, n))
          BY <1>2, <3>1, <4>1
        <4> QED  BY <2>1, <3>2, <3>4, <4>1, <4>2 DEF Has
      <3> QED  BY <2>3, <3>3, <3>4
    <2> QED  BY <2>2, <2>3
  <1> QED  BY <1>3, <1>4 DEF Filed

\* A root above changes nothing that is filed.
LEMMA RootFiled ==
  ASSUME NEW v, NEW u, NEW q, RootBody(v, u, q)
  PROVE  Filed(u) = Filed(v)
  <1>1. /\ Leafs(u) = Leafs(v)
        /\ \A m \in Leafs(v) : K(u, m) = K(v, m) /\ D(u, m) = D(v, m)
    BY DEF RootBody, Same, Leafs
  <1> QED  BY <1>1 DEF Filed, Has

-----------------------------------------------------------------------------
\* What the loops of a put keep.

\* A node holds as much as it may and must.
FullFill(t, n) ==
  /\ is_leaf(t, n) => Len(K(t, n)) \in 1..t.entries /\ Len(K(t, n)) >= Half(t.entries)
  /\ ~is_leaf(t, n) => Len(S(t, n)) \in 2..t.order /\ Len(S(t, n)) >= t.order \div 2
Fill(t, n) ==
  \/ FullFill(t, n)
  \/ /\ n = t.root
     /\ is_leaf(t, n) => Len(K(t, n)) \in 1..t.entries
     /\ ~is_leaf(t, n) => Len(S(t, n)) \in 2..t.order

\* The tree has the capacities it was given and no assertion has failed.
Sound(t, o, e) ==
  /\ t.ok = TRUE /\ t.order = o /\ t.entries = e
  /\ o \in Nat \ 0..2 /\ e \in Nat \ {0}
  /\ DOMAIN t.link = N(t) \cup ListHeads
  /\ \A n \in N(t) : Fill(t, n)

\* There is something left to be inserted at height h[s.node].
Pend(s, o, e, F, h, R) ==
  /\ Formed(s.tree) /\ Sound(s.tree, o, e)
  /\ s.node \in Inner(s.tree) /\ s.l_ch \in N(s.tree) /\ s.r_ch \in N(s.tree)
  /\ s.key \in Int
  /\ \E a \in 1..Len(S(s.tree, s.node)) :
       LET w == non_leaf_simple_insert(s.tree, s.node, s.l_ch, s.r_ch, s.key, a - 1)
       IN /\ PairIn(s.tree, w, s.node, s.l_ch, s.r_ch, s.key, a)
          /\ TreeInv(w, h, R) /\ InLists(w)
          /\ Filed(w) = F

\* There is nothing left to be done.
Ended(s, o, e, F) ==
  /\ s.node = NULL
  /\ Sound(s.tree, o, e)
  /\ \E h, R : TreeInv(s.tree, h, R)
  /\ InLists(s.tree)
  /\ Filed(s.tree) = F

\* Either, and what is left is at height i or higher.
Rising(s, o, e, F, level, i) ==
  \/ Ended(s, o, e, F)
  \/ \E h, R : Pend(s, o, e, F, h, R) /\ h[s.node] >= i /\ s.tree.level = level

\* A divided node leaves a pair for its parent, or a new root and nothing to do.
LEMMA Ascend ==
  ASSUME NEW v, NEW t, NEW n, NEW l, NEW r, NEW c, NEW sep, NEW h, NEW R, NEW o, NEW e,
         TreeInv(v, h, R), Formed(t), Halves(v, t, n, l, r, c, sep),
         is_leaf(v, n) => c \in 1..(Len(K(v, n)) - 1),
         InLists(v), Sound(t, o, e), FullFill(t, l), FullFill(t, r)
  PROVE  Rising(parent_node_build(t, l, r, sep), o, e, Filed(v), v.level, h[n] + 1)
  <1> DEFINE s == parent_node_build(t, l, r, sep)
  <1>1. /\ t.root = v.root /\ t.level = v.level
        /\ l # r /\ n \in {l, r} /\ N(t) = N(v) \cup {l, r} /\ N(v) \cap {l, r} = {n}
        /\ sep \in Int
        /\ \A m \in N(v) : P(v, m) # n => P(t, m) = P(v, m)
        /\ \A m \in {l, r} \ {n} : P(t, m) = NULL
    BY DEF Halves
  <1>2. Formed(v) /\ Parents(v) /\ Heights(v, h)
    BY DEF TreeInv
  <1>3. CASE n # v.root
    <2> DEFINE p == P(v, n)
               a == X(v, n) + 2
               w == non_leaf_simple_insert(s.tree, p, l, r, sep, a - 1)
               g == SplitHeight(w, h, n, l, r)
               Q == SplitRange(w, R, n, l, r, sep)
    <2>1. HandedUp(v, t, s, p, n, l, r, sep)
      BY <1>3, ParentBuild
    <2> HIDE DEF s, p
    <2>2. /\ a \in 1..Len(S(s.tree, p)) /\ S(s.tree, p) = S(v, p) /\ K(s.tree, p) = K(v, p)
          /\ PairIn(s.tree, w, p, l, r, sep, a)
      BY <1>3, <2>1, AscendShape
    <2>3. a = X(v, n) + 2
      OBVIOUS
    <2> HIDE DEF w, a
    <2>4. SplitBody(v, w, p, a, n, l, r, c, sep)
      BY <1>3, <2>1, <2>2, <2>3, AscendBody
    <2>5. SplitBacks(v, w, p, l, r)
      BY <1>3, <2>1, <2>2, <2>3, <2>4, AscendBacks
    <2>6. Formed(w)
      BY <2>2 DEF PairIn
    <2>7. TreeInv(w, g, Q)
      BY <2>4, <2>5, <2>6, SplitKeeps
    <2>8. Filed(w) = Filed(v)
      BY <1>2, <2>4, <2>6, SplitFiled
    <2>14. InLists(w)
      <3>1. SUFFICES ASSUME w.level < MaxLevel PROVE Listed(w)
        BY DEF InLists
      <3>2. w.level = v.level /\ w.link = t.link
        BY <2>1, <2>2, <2>4 DEF SplitBody, PairIn, HandedUp
      <3>3. Listed(v)
        BY <3>1, <3>2 DEF InLists
      <3>4. Joined(v.link, w.link, n, l, r)
        BY <3>2, <3>3 DEF Listed, Halves
      <3> QED  BY <2>4, <2>6, <3>1, <3>2, <3>3, <3>4, SplitListed
    <2>9. /\ p \in Inner(v) /\ p \in Inner(s.tree) /\ p \notin {l, r}
          /\ X(v, n) + 2 \in 1..Len(S(v, p)) /\ S(v, p)[X(v, n) + 2] = n
          /\ s.node = p /\ s.l_ch = l /\ s.r_ch = r /\ s.key = sep
          /\ Frame(t, s.tree) /\ s.tree.link = t.link /\ N(s.tree) = N(t) /\ Formed(s.tree)
          /\ \A m \in N(t) : Same(t, s.tree, m)
      BY <2>1 DEF HandedUp
    <2>10. g[p] = h[p] /\ h[n] = h[p] - 1 /\ h[p] \in Int
      <3>1. p \in N(w)
        BY <2>4 DEF SplitBody, Inner
      <3>2. PICK i \in 1..Len(S(v, p)) : S(v, p)[i] = n
        BY <2>9
      <3>3. h[n] = h[p] - 1 /\ h[p] \in 1..v.level
        BY <2>9, <3>2, ChildFacts
      <3> QED  BY <2>9, <3>1, <3>3 DEF SplitHeight
    <2>11. Sound(s.tree, o, e)
      <3>1. ASSUME NEW m \in N(s.tree)
            PROVE  Fill(s.tree, m)
        <4>1. Fill(t, m) /\ Same(t, s.tree, m) /\ Frame(t, s.tree)
          BY <2>9 DEF Sound
        <4> QED  BY <4>1 DEF Fill, FullFill, Same, Frame
      <3> QED  BY <2>9, <3>1 DEF Sound, Frame
    <2>12. Pend(s, o, e, Filed(v), g, Q)
      <3>1. w = non_leaf_simple_insert(s.tree, s.node, s.l_ch, s.r_ch, s.key, a - 1)
        BY <2>9 DEF w
      <3>2. l \in N(s.tree) /\ r \in N(s.tree)
        BY <1>1, <2>9
      <3> QED  BY <1>1, <2>2, <2>7, <2>8, <2>9, <2>11, <2>14, <3>1, <3>2 DEF Pend
    <2>13. s.tree.level = v.level /\ g[s.node] >= h[n] + 1
      BY <1>1, <2>9, <2>10 DEF Frame
    <2> QED  BY <2>12, <2>13 DEF Rising, s
  <1>4. CASE n = v.root
    <2>1. P(t, l) = NULL /\ P(t, r) = NULL
      <3>1. P(v, n) = NULL /\ n \in N(v) /\ n # NULL
        BY <1>2, <1>4 DEF Parents, Formed, NULL
      <3>2. P(t, n) = NULL
        BY <1>1, <3>1
      <3> QED  BY <1>1, <3>2
    <2>2. s = Done(NewRoot(t, l, r, sep))
      BY <2>1 DEF parent_node_build, P
    <2> DEFINE q == Fresh(t)
               w == NewRoot(t, l, r, sep)
               u == Roofed(v, q)
    <2>3. RootDone(t, w, q, l, r, sep)
      BY <1>1, NewRootFact
    <2>4. s.node = NULL /\ s.tree = w
      BY <2>2 DEF Done
    <2> HIDE DEF q, w, s, u
    <2>5. q \in Nat \ {0} /\ q \notin N(t) /\ Formed(w)
      BY <2>3 DEF RootDone
    <2>6. Formed(u) /\ RootBody(v, u, q)
      BY <1>1, <2>5, RoofedFact DEF u
    <2>7. TreeInv(u, RootHeight(u, h, q), RootRange(u, R, q))
      BY <2>6, RootAdded
    <2>8. SplitBody(u, w, q, 1, n, l, r, c, sep) /\ SplitBacks(u, w, q, l, r)
      BY <1>4, <2>3, RootSplit DEF u
    <2>9. is_leaf(u, n) => c \in 1..(Len(K(u, n)) - 1)
      <3>1. Same(v, u, n)
        BY <1>1, <2>6 DEF RootBody
      <3> QED  BY <3>1 DEF Same
    <2>10. \E g, Q : TreeInv(w, g, Q)
      <3>1. PICK h1, R1 : TreeInv(u, h1, R1)
        BY <2>7
      <3>2. TreeInv(w, SplitHeight(w, h1, n, l, r), SplitRange(w, R1, n, l, r, sep))
        BY <2>5, <2>8, <2>9, <3>1, SplitKeeps
      <3> QED  BY <3>2
    <2>11. Filed(w) = Filed(v)
      BY <2>5, <2>6, <2>8, SplitFiled, RootFiled
    <2>12. Sound(w, o, e)
      <3>1. /\ N(w) = N(t) \cup {q} /\ w.root = q
            /\ w.ok = t.ok /\ w.order = t.order /\ w.entries = t.entries
            /\ DOMAIN w.link = DOMAIN t.link \cup {q}
            /\ ~is_leaf(w, q) /\ S(w, q) = <<l, r>>
            /\ \A m \in N(t) : Same(t, w, m)
        BY <2>3 DEF RootDone
      <3>2. o \in Nat \ 0..2 /\ t.order = o
        BY DEF Sound
      <3>3. Fill(w, q)
        <4>1. Len(S(w, q)) = 2
          BY <3>1
        <4>2. 2 \in 2..o
          BY <3>2
        <4> QED  BY <3>1, <3>2, <4>1, <4>2 DEF Fill
      <3>4. ASSUME NEW m \in N(t)
            PROVE  Fill(w, m)
        <4>1. FullFill(t, m)
          <5>1. Fill(t, m)
            BY DEF Sound
          <5>2. CASE m \in {l, r}
            BY <5>2
          <5>3. CASE m \notin {l, r}
            <6>1. m # t.root
              BY <1>1, <1>4, <5>3
            <6> QED  BY <5>1, <6>1 DEF Fill
          <5> QED  BY <5>2, <5>3
        <4>2. Same(t, w, m)
          BY <3>1
        <4>3. FullFill(w, m)
          BY <3>1, <4>1, <4>2 DEF FullFill, Same
        <4> QED  BY <4>3 DEF Fill
      <3> QED  BY <3>1, <3>3, <3>4 DEF Sound
    <2>14. InLists(w)
      <3> DEFINE H == ListHead(w.level)
      <3>1. SUFFICES ASSUME w.level < MaxLevel PROVE Listed(w)
        BY DEF InLists
      <3>2. /\ w.level = v.level + 1 /\ u.level = v.level + 1 /\ v.level \in Nat /\ MaxLevel \in Nat
            /\ w.link = Added(t.link, q, H, t.link[H].next)
            /\ DOMAIN v = Fields
        BY <1>1, <1>2, <2>3, <2>6, BPlusAssumption DEF RootDone, RootBody, Formed, Fields
      <3>3. Listed(v)
        BY <3>1, <3>2 DEF InLists
      <3>4. /\ Ring(v.link) /\ DOMAIN v.link = N(v) \cup ListHeads /\ v.link[H].next = H
            /\ H \in ListHeads /\ H < 0
        <4>1. w.level \in 0..(MaxLevel - 1) /\ w.level > v.level
          BY <3>1, <3>2
        <4>2. v.link[H].next = H
          BY <3>3, <4>1 DEF Listed, Crowned, Nx
        <4>3. H \in ListHeads /\ H < 0
          BY <4>1 DEF ListHeads, ListHead
        <4> QED  BY <3>3, <4>2, <4>3 DEF Listed
      <3>5. u.link = Added(v.link, q, H, v.link[H].next)
        <4>1. v.level + 1 < MaxLevel
          BY <3>1, <3>2
        <4> QED  BY <3>2, <4>1, RoofedLink DEF u
      <3>6. q \notin DOMAIN v.link /\ q \notin DOMAIN t.link /\ H \notin {l, r} /\ q \notin {l, r}
        <4>1. \A x \in ListHeads : x < 0
          BY BPlusAssumption DEF ListHeads, ListHead
        <4>2. ~(q < 0) /\ \A x \in N(t) : ~(x < 0)
          BY <2>5 DEF Formed
        <4>3. DOMAIN t.link = N(t) \cup ListHeads
          BY DEF Sound
        <4> QED  BY <1>1, <2>5, <3>4, <4>1, <4>2, <4>3
      <3>7. Joined(v.link, t.link, n, l, r)
        BY <3>4 DEF Halves
      <3>8. Ring(t.link) /\ H \in DOMAIN t.link /\ t.link[H].next = H
        <4>1. Ring(t.link) /\ H \in DOMAIN t.link
          BY <3>4, <3>7 DEF Joined, Sound
        <4>2. H \in DOMAIN t.link \ {l} /\ H \in DOMAIN t.link \ {r}
          BY <3>6, <4>1
        <4>3. t.link[H].next = H <=> v.link[Both(H, n, l, r)].next = Both(H, n, l, r)
          BY <3>7, <4>2, JoinedStep
        <4> QED  BY <3>4, <3>6, <4>1, <4>3 DEF Both
      <3> HIDE DEF H
      <3>9. Rooted(v.link, u.link, q, H)
        BY <3>4, <3>5, <3>6, RootedAdded
      <3>10. Rooted(t.link, w.link, q, H)
        BY <3>2, <3>6, <3>8, RootedAdded
      <3>11. Joined(u.link, w.link, n, l, r)
        BY <3>6, <3>7, <3>9, <3>10, JoinedRooted
      <3>12. Listed(u)
        <4>1. H = ListHead(u.level) /\ u.level < MaxLevel
          BY <3>1, <3>2 DEF H
        <4> QED  BY <1>2, <2>6, <3>3, <3>9, <4>1, RootListed
      <3>13. u.level < MaxLevel
        BY <3>1, <3>2
      <3> QED  BY <2>5, <2>7, <2>8, <3>11, <3>12, <3>13, SplitListed
    <2>13. Ended(s, o, e, Filed(v))
      BY <2>4, <2>10, <2>11, <2>12, <2>14 DEF Ended
    <2> QED  BY <2>13 DEF Rising, s
  <1> QED  BY <1>3, <1>4

-----------------------------------------------------------------------------
\* A key enters a leaf.

\* A sorted row stays sorted when a key enters where it fits.
LEMMA EnteredSorted ==
  ASSUME NEW s \in Seq(Int), Sorted(s), NEW a \in 0..Len(s), NEW k \in Int, Fits(s, a, k),
         NEW s2 \in Seq(Int), Entered(s, a + 1, k, s2)
  PROVE  Sorted(s2)
  <1> DEFINE m == Len(s)
  <1>1. Len(s2) = m + 1 /\ m \in Nat /\ a \in 0..m /\ a \in Int
    BY DEF Entered
  <1>2. /\ \A j \in 1..(m + 1) : j < a + 1 => s2[j] = s[j]
        /\ \A j \in 1..(m + 1) : j = a + 1 => s2[j] = k
        /\ \A j \in 1..(m + 1) : ~(j < a + 1) /\ j # a + 1 => s2[j] = s[j - 1]
    BY DEF Entered
  <1>3. /\ \A i \in 1..a : s[i] < k
        /\ \A i \in (a + 1)..m : k < s[i]
        /\ \A i, j \in 1..m : i < j => s[i] < s[j]
        /\ \A i \in 1..m : s[i] \in Int
    BY DEF Fits, Sorted
  <1> HIDE DEF m
  <1> SUFFICES ASSUME NEW i \in 1..Len(s2), NEW j \in 1..Len(s2), i < j
               PROVE  s2[i] < s2[j]
    BY DEF Sorted
  <1>4. i \in 1..(m + 1) /\ j \in 1..(m + 1)
    BY <1>1
  <1>5. CASE j < a + 1
    <2>1. i \in 1..m /\ j \in 1..m /\ i < a + 1
      BY <1>1, <1>4, <1>5
    <2>2. s2[i] = s[i] /\ s2[j] = s[j]
      BY <1>2, <1>4, <1>5, <2>1
    <2> QED  BY <1>3, <2>1, <2>2
  <1>6. CASE j = a + 1
    <2>1. i \in 1..a /\ i < a + 1
      BY <1>1, <1>4, <1>6
    <2>2. s2[i] = s[i] /\ s2[j] = k
      BY <1>2, <1>4, <1>6, <2>1
    <2> QED  BY <1>3, <2>1, <2>2
  <1>7. CASE j > a + 1
    <2>1. j - 1 \in (a + 1)..m /\ j - 1 \in 1..m /\ ~(j < a + 1) /\ j # a + 1
      BY <1>1, <1>4, <1>7
    <2>2. s2[j] = s[j - 1]
      BY <1>2, <1>4, <2>1
    <2>3. CASE i < a + 1
      <3>1. i \in 1..a /\ i \in 1..m
        BY <1>1, <1>4, <2>3
      <3>2. s2[i] = s[i]
        BY <1>2, <1>4, <2>3
      <3>3. s[i] < k /\ k < s[j - 1] /\ s[i] \in Int /\ s[j - 1] \in Int
        BY <1>3, <2>1, <3>1
      <3> QED  BY <2>2, <3>2, <3>3, SMTT(30)
    <2>4. CASE i = a + 1
      <3>1. s2[i] = k
        BY <1>2, <1>4, <2>4
      <3> QED  BY <1>3, <2>1, <2>2, <3>1
    <2>5. CASE i > a + 1
      <3>1. i - 1 \in 1..m /\ i - 1 < j - 1 /\ ~(i < a + 1) /\ i # a + 1
        BY <1>1, <1>4, <2>5
      <3>2. s2[i] = s[i - 1]
        BY <1>2, <1>4, <3>1
      <3> QED  BY <1>3, <2>1, <2>2, <3>1, <3>2
    <2>6. i < a + 1 \/ i = a + 1 \/ i > a + 1
      BY <1>1, <1>4
    <2> QED  BY <2>3, <2>4, <2>5, <2>6
  <1>8. j < a + 1 \/ j = a + 1 \/ j > a + 1
    BY <1>1, <1>4
  <1> QED  BY <1>5, <1>6, <1>7, <1>8

\* Two nodes have been written, and the new one of them is in the list.
StoredTwo(t, u, x, y, rx, ry, m, prev, next) ==
  u = __list_add(Store(Store(t, x, rx), y, ry), m, prev, next)

\* Both are there, and nothing else has changed.
LEMMA TwoStored ==
  ASSUME NEW t, NEW x, NEW y, NEW rx, NEW ry, NEW m, NEW prev, NEW next, NEW u,
         DOMAIN t = Fields, x # y, StoredTwo(t, u, x, y, rx, ry, m, prev, next)
  PROVE  /\ Frame(t, u) /\ N(u) = N(t) \cup {x, y} /\ u.node[x] = rx /\ u.node[y] = ry
         /\ \A z \in N(t) \ {x, y} : u.node[z] = t.node[z]
         /\ DOMAIN u.link = DOMAIN t.link \cup {m} /\ u.link = Added(t.link, m, prev, next)
  <1> DEFINE b == Store(t, x, rx)
             g == Store(b, y, ry)
  <1>1. /\ Frame(t, b) /\ b.link = t.link /\ N(b) = N(t) \cup {x} /\ b.node[x] = rx
        /\ \A z \in N(t) \ {x} : b.node[z] = t.node[z]
    BY StoreEffect
  <1>2. DOMAIN b = Fields
    BY <1>1 DEF Frame
  <1> HIDE DEF b
  <1>3. /\ Frame(b, g) /\ g.link = b.link /\ N(g) = N(b) \cup {y} /\ g.node[y] = ry
        /\ \A z \in N(b) \ {y} : g.node[z] = b.node[z]
    BY <1>2, StoreEffect
  <1>4. DOMAIN g = Fields
    BY <1>2, <1>3 DEF Frame
  <1>0. u = __list_add(g, m, prev, next)
    BY DEF StoredTwo, b
  <1> HIDE DEF g
  <1>5. /\ Frame(g, u) /\ u.node = g.node /\ DOMAIN u.link = DOMAIN g.link \cup {m}
        /\ u.link = Added(g.link, m, prev, next)
    BY <1>0, <1>4, ListAddEffect
  <1>6. Frame(t, u)
    BY <1>1, <1>3, <1>5 DEF Frame
  <1>7. N(u) = N(t) \cup {x, y} /\ u.node[x] = rx /\ u.node[y] = ry
    BY <1>1, <1>3, <1>5 DEF N
  <1>8. \A z \in N(t) \ {x, y} : u.node[z] = t.node[z]
    BY <1>1, <1>3, <1>5
  <1>9. DOMAIN u.link = DOMAIN t.link \cup {m} /\ u.link = Added(t.link, m, prev, next)
    BY <1>1, <1>3, <1>5
  <1> QED  BY <1>6, <1>7, <1>8, <1>9

\* The lists do not change when nodes are written.
LEMMA StoredLink ==
  ASSUME NEW t, DOMAIN t = Fields, NEW x, NEW y, NEW rx, NEW ry
  PROVE  Store(Store(t, x, rx), y, ry).link = t.link
  <1> DEFINE b == Store(t, x, rx)
  <1>1. DOMAIN b = Fields /\ b.link = t.link
    BY StoreEffect DEF Frame
  <1> HIDE DEF b
  <1>2. Store(b, y, ry).link = b.link
    BY <1>1, StoreEffect
  <1> QED  BY <1>1, <1>2 DEF b

\* The record of a leaf, and of a non-leaf.
LeafRec(rec, keys, data, parent, idx) ==
  /\ DOMAIN rec = LeafFields /\ rec.type = "leaf"
  /\ rec.key = keys /\ rec.data = data /\ rec.parent = parent /\ rec.parent_key_idx = idx
InnerRec(rec, keys, subs, parent, idx) ==
  /\ DOMAIN rec = InnerFields /\ rec.type # "leaf"
  /\ rec.key = keys /\ rec.sub_ptr = subs /\ rec.parent = parent /\ rec.parent_key_idx = idx

\* Such a leaf is well formed.
LEMMA LeafRecFormed ==
  ASSUME NEW u, NEW n, NEW keys \in Seq(Int), NEW data \in Seq(Int), Len(data) = Len(keys),
         NEW parent \in N(u) \cup {NULL}, NEW idx \in Int, LeafRec(u.node[n], keys, data, parent, idx)
  PROVE  /\ NodeFormed(u, n) /\ is_leaf(u, n) /\ K(u, n) = keys /\ D(u, n) = data
         /\ P(u, n) = parent /\ X(u, n) = idx
  BY DEF LeafRec, NodeFormed, is_leaf, K, D, P, X, LeafFields

\* Such a non-leaf is well formed.
LEMMA InnerRecFormed ==
  ASSUME NEW u, NEW n, NEW keys \in Seq(Int), NEW subs \in Seq(N(u)), Len(subs) = Len(keys) + 1,
         NEW parent \in N(u) \cup {NULL}, NEW idx \in Int, InnerRec(u.node[n], keys, subs, parent, idx)
  PROVE  /\ NodeFormed(u, n) /\ ~is_leaf(u, n) /\ K(u, n) = keys /\ S(u, n) = subs
         /\ P(u, n) = parent /\ X(u, n) = idx
  BY DEF InnerRec, NodeFormed, is_leaf, K, S, P, X, InnerFields

\* u is t with new contents, well formed, in x and y.
Grows(t, u, x, y) ==
  /\ DOMAIN u = Fields /\ u.level = t.level /\ u.root = t.root
  /\ x \in Nat \ {0} /\ y \in Nat \ {0} /\ N(u) = N(t) \cup {x, y}
  /\ NodeFormed(u, x) /\ NodeFormed(u, y)
  /\ \A z \in N(t) \ {x, y} : u.node[z] = t.node[z]

\* The rest of a tree that has been formed and grows is formed.
LEMMA FormedGrows ==
  ASSUME NEW t, NEW u, NEW x, NEW y, Formed(t), Grows(t, u, x, y)
  PROVE  /\ Formed(u)
         /\ \A z \in N(t) \ {x, y} : Same(t, u, z) /\ P(u, z) = P(t, z) /\ X(u, z) = X(t, z)
  <1>0. /\ DOMAIN u = Fields /\ u.level = t.level /\ u.root = t.root
        /\ x \in Nat \ {0} /\ y \in Nat \ {0} /\ N(u) = N(t) \cup {x, y}
        /\ NodeFormed(u, x) /\ NodeFormed(u, y)
        /\ \A z \in N(t) \ {x, y} : u.node[z] = t.node[z]
    BY DEF Grows
  <1>1. ASSUME NEW z \in N(t) \ {x, y}
        PROVE  NodeFormed(u, z) /\ Same(t, u, z) /\ P(u, z) = P(t, z) /\ X(u, z) = X(t, z)
    <2>1. NodeFormed(t, z) /\ P(t, z) \in N(t) \cup {NULL} /\ X(t, z) \in Int
      BY FormedFields
    <2>2. Alike(t, u, z) /\ P(u, z) = P(t, z) /\ X(u, z) = X(t, z)
      BY <1>0 DEF Alike, P, X
    <2>3. P(u, z) \in N(u) \cup {NULL} /\ X(u, z) \in Int /\ N(t) \subseteq N(u)
      BY <1>0, <2>1, <2>2
    <2> QED  BY <2>1, <2>2, <2>3, AlikeFormed
  <1>2. /\ t.level \in Nat /\ t.root \in N(t) /\ N(t) \subseteq Nat \ {0} /\ IsFiniteSet(N(t))
    BY DEF Formed
  <1>3. IsFiniteSet(N(u))
    <2>1. IsFiniteSet(N(t) \cup {x})
      BY <1>0, <1>2, FS_AddElement
    <2>2. IsFiniteSet((N(t) \cup {x}) \cup {y})
      BY <1>0, <2>1, FS_AddElement
    <2>3. N(u) = (N(t) \cup {x}) \cup {y}
      BY <1>0
    <2> QED  BY <2>2, <2>3
  <1>4. /\ DOMAIN u = {"order", "entries", "level", "root", "node", "link", "ok"}
        /\ u.level \in Nat /\ u.root \in N(u) /\ N(u) \subseteq Nat \ {0}
    BY <1>0, <1>2 DEF Fields
  <1>5. \A z \in N(u) : NodeFormed(u, z)
    BY <1>0, <1>1
  <1>6. Formed(u)
    BY <1>3, <1>4, <1>5 DEF Formed
  <1> QED  BY <1>1, <1>6

\* The key k belongs into leaf n, behind its first insert keys.
Entering(t, h, R, n, k, d, insert) ==
  /\ TreeInv(t, h, R) /\ n \in Leafs(t) /\ k \in Int /\ d \in Int /\ k \in R[n]
  /\ insert \in 0..Len(K(t, n)) /\ Fits(K(t, n), insert, k) /\ InLists(t)
LeafGrows(t, v, n, k, d, insert) == v = leaf_simple_insert(t, n, k, d, insert)

\* The leaf with its new entry, which may be one too many.
LEMMA LeafGrown ==
  ASSUME NEW t, NEW h, NEW R, NEW n, NEW k, NEW d, NEW insert, NEW v,
         Entering(t, h, R, n, k, d, insert), LeafGrows(t, v, n, k, d, insert)
  PROVE     /\ TreeInv(v, h, R) /\ Frame(t, v) /\ v.link = t.link /\ N(v) = N(t)
            /\ \A m \in N(t) \ {n} : Same(t, v, m)
            /\ is_leaf(v, n)
            /\ Entered(K(t, n), insert + 1, k, K(v, n))
            /\ Entered(D(t, n), insert + 1, d, D(v, n))
            /\ \A m \in N(t) : P(v, m) = P(t, m) /\ X(v, m) = X(t, m)
            /\ Filed(v) = Filed(t) \cup {<<k, d>>} /\ InLists(v)
  <1> DEFINE keys == WithKey(K(t, n), k, insert)
             data == WithKey(D(t, n), d, insert)
  <1>0. /\ TreeInv(t, h, R) /\ n \in Leafs(t) /\ k \in Int /\ d \in Int /\ k \in R[n]
        /\ insert \in 0..Len(K(t, n)) /\ Fits(K(t, n), insert, k)
    BY DEF Entering
  <1>1. Formed(t) /\ Routes(t, R)
    BY <1>0 DEF TreeInv
  <1>2. /\ DOMAIN t = Fields /\ n \in DOMAIN t.node /\ DOMAIN t.node[n] = LeafFields
        /\ is_leaf(t, n) /\ NodeFormed(t, n) /\ P(t, n) \in N(t) \cup {NULL} /\ X(t, n) \in Int
        /\ n \in N(t)
    BY <1>0, <1>1, FormedFields DEF Leafs, N
  <1>3. K(t, n) \in Seq(Int) /\ D(t, n) \in Seq(Int) /\ Len(D(t, n)) = Len(K(t, n))
    BY <1>0, <1>2 DEF NodeFormed
  <1>4. /\ keys \in Seq(Int) /\ Entered(K(t, n), insert + 1, k, keys)
        /\ data \in Seq(Int) /\ Entered(D(t, n), insert + 1, d, data)
    BY <1>0, <1>3, WithKeyFact
  <1>5. /\ Frame(t, v) /\ v.link = t.link /\ N(v) = N(t)
        /\ v.node[n] = [t.node[n] EXCEPT !.key = keys, !.data = data]
        /\ \A m \in N(t) \ {n} : v.node[m] = t.node[m]
    <2> DEFINE w == leaf_simple_insert(t, n, k, d, insert)
    <2>1. /\ Frame(t, w) /\ w.link = t.link /\ N(w) = N(t)
          /\ w.node[n] = [t.node[n] EXCEPT !.key = keys, !.data = data]
          /\ \A m \in N(t) \ {n} : w.node[m] = t.node[m]
      BY <1>0, <1>2 DEF leaf_simple_insert, Fields, LeafFields, Frame, N, K, D
    <2> HIDE DEF w, keys, data
    <2>2. v = w
      BY DEF w, LeafGrows
    <2> QED  BY <1>0, <2>1, <2>2
  <1> HIDE DEF keys, data
  <1>6. LeafRec(v.node[n], keys, data, P(t, n), X(t, n))
    BY <1>0, <1>2, <1>5 DEF LeafRec, LeafFields, P, X, is_leaf
  <1>7. Len(data) = Len(keys)
    BY <1>0, <1>3, <1>4 DEF Entered
  <1>8. NodeFormed(v, n) /\ is_leaf(v, n) /\ K(v, n) = keys /\ D(v, n) = data
        /\ P(v, n) = P(t, n) /\ X(v, n) = X(t, n)
    BY <1>0, <1>2, <1>4, <1>5, <1>6, <1>7, LeafRecFormed, ZenonT(60)
  <1>9. /\ DOMAIN v = Fields /\ v.level = t.level /\ v.root = t.root
    BY <1>0, <1>2, <1>5 DEF Frame
  <1>10. /\ Formed(v)
         /\ \A m \in N(t) \ {n} : Same(t, v, m) /\ P(v, m) = P(t, m) /\ X(v, m) = X(t, m)
    <2>1. n \in Nat \ {0} /\ N(v) = N(t) \cup {n, n} /\ N(t) \ {n, n} = N(t) \ {n}
      BY <1>0, <1>1, <1>2, <1>5 DEF Formed
    <2>2. Grows(t, v, n, n)
      BY <1>0, <1>5, <1>8, <1>9, <2>1 DEF Grows
    <2> QED  BY <1>0, <1>1, <2>1, <2>2, FormedGrows
  <1>11. LeavesChanged(t, v, {n})
    BY <1>0, <1>5, <1>8, <1>9, <1>10 DEF LeavesChanged
  <1>12. Sorted(keys)
    <2>1. Sorted(K(t, n))
      BY <1>0, NodeSorted, <1>2
    <2> QED  BY <1>0, <1>3, <1>4, <2>1, EnteredSorted
  <1>13. \A i \in 1..Len(keys) : keys[i] \in R[n]
    <2>1. \A i \in 1..Len(K(t, n)) : K(t, n)[i] \in R[n]
      BY <1>0, <1>1 DEF Routes
    <2> SUFFICES ASSUME NEW i \in 1..Len(keys) PROVE keys[i] \in R[n]
      OBVIOUS
    <2>2. keys[i] = IF i < insert + 1 THEN K(t, n)[i] ELSE IF i = insert + 1 THEN k ELSE K(t, n)[i - 1]
      BY <1>0, <1>4 DEF Entered
    <2>3. Len(keys) = Len(K(t, n)) + 1 /\ Len(K(t, n)) \in Nat
      BY <1>0, <1>3, <1>4 DEF Entered
    <2>4. CASE i < insert + 1
      <3>1. i \in 1..Len(K(t, n))
        BY <1>0, <2>3, <2>4
      <3> QED  BY <1>0, <2>1, <2>2, <2>4, <3>1
    <2>5. CASE i = insert + 1
      BY <1>0, <2>2, <2>5
    <2>6. CASE i > insert + 1
      <3>1. i - 1 \in 1..Len(K(t, n)) /\ ~(i < insert + 1) /\ i # insert + 1
        BY <1>0, <2>3, <2>6
      <3> QED  BY <1>0, <2>1, <2>2, <3>1
    <2> QED  BY <1>0, <2>4, <2>5, <2>6
  <1>14. TreeInv(v, h, R)
    BY <1>0, <1>8, <1>10, <1>11, <1>12, <1>13, LeavesKeep
  <1>15. Filed(v) = Filed(t) \cup {<<k, d>>}
    <2>1. Leafs(v) = Leafs(t)
      BY <1>0, <1>2, <1>5, <1>8, <1>10 DEF Leafs, Same
    <2>2. \A m \in Leafs(t) \ {n} : K(v, m) = K(t, m) /\ D(v, m) = D(t, m)
      BY <1>0, <1>10 DEF Leafs, Same
    <2>3. /\ Len(keys) = Len(K(t, n)) + 1 /\ Len(K(t, n)) \in Nat
          /\ \A i \in 1..(Len(K(t, n)) + 1) :
             /\ keys[i] = IF i < insert + 1 THEN K(t, n)[i] ELSE IF i = insert + 1 THEN k ELSE K(t, n)[i - 1]
             /\ data[i] = IF i < insert + 1 THEN D(t, n)[i] ELSE IF i = insert + 1 THEN d ELSE D(t, n)[i - 1]
      BY <1>0, <1>3, <1>4 DEF Entered
    <2>4. ASSUME NEW x, NEW y, Has(t, x, y)
          PROVE  Has(v, x, y)
      <3>1. PICK m \in Leafs(t) : \E i \in 1..Len(K(t, m)) : K(t, m)[i] = x /\ D(t, m)[i] = y
        BY <1>0, <2>4 DEF Has
      <3>2. PICK i \in 1..Len(K(t, m)) : K(t, m)[i] = x /\ D(t, m)[i] = y
        BY <1>0, <3>1
      <3>3. CASE m # n
        BY <1>0, <2>1, <2>2, <3>2, <3>3 DEF Has
      <3>4. CASE m = n
        <4>1. CASE i < insert + 1
          <5>1. i \in 1..Len(keys) /\ keys[i] = x /\ data[i] = y
            BY <1>0, <2>3, <3>2, <3>4, <4>1
          <5> QED  BY <1>0, <1>8, <2>1, <5>1 DEF Has
        <4>2. CASE i >= insert + 1
          <5>1. i + 1 \in 1..Len(keys) /\ ~(i + 1 < insert + 1) /\ i + 1 # insert + 1 /\ (i + 1) - 1 = i
            BY <1>0, <2>3, <3>4, <4>2
          <5>2. keys[i + 1] = x /\ data[i + 1] = y
            BY <1>0, <2>3, <3>2, <3>4, <5>1
          <5> QED  BY <1>0, <1>8, <2>1, <5>1, <5>2 DEF Has
        <4> QED  BY <1>0, <2>3, <3>4, <4>1, <4>2
      <3> QED  BY <1>0, <3>3, <3>4
    <2>5. Has(v, k, d)
      <3>1. insert + 1 \in 1..Len(keys) /\ ~(insert + 1 < insert + 1)
        BY <1>0, <2>3
      <3>2. keys[insert + 1] = k /\ data[insert + 1] = d
        BY <1>0, <2>3, <3>1
      <3> QED  BY <1>0, <1>8, <2>1, <3>1, <3>2 DEF Has
    <2>6. ASSUME NEW x, NEW y, Has(v, x, y)
          PROVE  Has(t, x, y) \/ (x = k /\ y = d)
      <3>1. PICK m \in Leafs(v) : \E i \in 1..Len(K(v, m)) : K(v, m)[i] = x /\ D(v, m)[i] = y
        BY <1>0, <2>6 DEF Has
      <3>2. PICK i \in 1..Len(K(v, m)) : K(v, m)[i] = x /\ D(v, m)[i] = y
        BY <1>0, <3>1
      <3>3. CASE m # n
        BY <1>0, <2>1, <2>2, <3>2, <3>3 DEF Has
      <3>4. CASE m = n
        <4>0. i \in 1..(Len(K(t, n)) + 1) /\ keys[i] = x /\ data[i] = y
          BY <1>0, <1>8, <2>3, <3>2, <3>4
        <4>1. CASE i < insert + 1
          <5>1. i \in 1..Len(K(t, n)) /\ K(t, n)[i] = x /\ D(t, n)[i] = y
            BY <1>0, <2>3, <4>0, <4>1
          <5> QED  BY <1>0, <5>1 DEF Has
        <4>2. CASE i = insert + 1
          BY <1>0, <2>3, <4>0, <4>2
        <4>3. CASE i > insert + 1
          <5>1. i - 1 \in 1..Len(K(t, n)) /\ ~(i < insert + 1) /\ i # insert + 1
            BY <1>0, <2>3, <4>0, <4>3
          <5>2. K(t, n)[i - 1] = x /\ D(t, n)[i - 1] = y
            BY <1>0, <2>3, <4>0, <5>1
          <5> QED  BY <1>0, <5>1, <5>2 DEF Has
        <4> QED  BY <1>0, <4>0, <2>3, <4>1, <4>2, <4>3
      <3> QED  BY <1>0, <3>3, <3>4
    <2> QED  BY <1>0, <2>4, <2>5, <2>6 DEF Filed
  <1>16. \A m \in N(t) : P(v, m) = P(t, m) /\ X(v, m) = X(t, m)
    BY <1>0, <1>8, <1>10
  <1>17. InLists(v)
    <2>1. InLists(t)
      BY DEF Entering
    <2>2. /\ v.link = t.link /\ N(v) = N(t) /\ v.root = t.root /\ v.level = t.level
          /\ \A m \in N(t) : /\ is_leaf(v, m) <=> is_leaf(t, m)
                             /\ ~is_leaf(t, m) => S(v, m) = S(t, m)
      BY <1>2, <1>5, <1>8, <1>10 DEF Frame, Same
    <2>3. Listed(t) => Listed(v)
      BY <1>1, <2>2, SameListed
    <2> QED  BY <2>1, <2>2, <2>3 DEF InLists
  <1> QED  BY <1>0, <1>4, <1>5, <1>8, <1>10, <1>14, <1>15, <1>16, <1>17 DEF keys

\* Both halves of a full leaf and one more hold at least half.
LEMMA HalfFact ==
  ASSUME NEW e \in Nat \ {0}
  PROVE  /\ Half(e) \in 1..e /\ e + 1 - Half(e) \in 1..e
         /\ e + 1 - Half(e) >= Half(e)
  BY DEF Half

\* u is t with the leaf n divided into l and r; m is the new one of them.
LeafDivided(t, u, n, m, l, r) ==
  /\ l # r /\ {l, r} = {n, m} /\ m \notin N(t) /\ m \in Nat \ {0}
  /\ DOMAIN u = Fields /\ u.root = t.root /\ u.level = t.level /\ u.ok = TRUE
  /\ u.order = t.order /\ u.entries = t.entries
  /\ N(u) = N(t) \cup {l, r}
  /\ DOMAIN u.link = DOMAIN t.link \cup {m} /\ Spliced(t.link, u.link, n, m, l)
  /\ \A z \in N(t) \ {l, r} : u.node[z] = t.node[z]

LeafHalves(t, u, n, m, l, kl, dl, kr, dr) ==
  /\ kl \in Seq(Int) /\ dl \in Seq(Int) /\ kr \in Seq(Int) /\ dr \in Seq(Int)
  /\ LeafRec(u.node[n], IF l = n THEN kl ELSE kr, IF l = n THEN dl ELSE dr, P(t, n), X(t, n))
  /\ LeafRec(u.node[m], IF l = m THEN kl ELSE kr, IF l = m THEN dl ELSE dr, NULL, -1)
HalfCut(v, n, e, kl, dl, kr, dr) ==
  Cut(K(v, n), Half(e), Half(e), kl, kr) /\ Cut(D(v, n), Half(e), Half(e), dl, dr)

\* A full leaf is divided, and the separator is on its way to the parent.
LEMMA LeafHalved ==
  ASSUME NEW t, NEW h, NEW R, NEW n, NEW k, NEW d, NEW insert, NEW o, NEW e, NEW v, NEW m,
         NEW l, NEW r, NEW u, NEW kl, NEW dl, NEW kr, NEW dr,
         Entering(t, h, R, n, k, d, insert), Sound(t, o, e), Len(K(t, n)) = e,
         LeafGrows(t, v, n, k, d, insert), LeafDivided(t, u, n, m, l, r),
         LeafHalves(t, u, n, m, l, kl, dl, kr, dr), HalfCut(v, n, e, kl, dl, kr, dr)
  PROVE  Rising(parent_node_build(u, l, r, kr[1]), o, e, Filed(t) \cup {<<k, d>>}, t.level, 1)
  <1> DEFINE c == Half(e)
  <1>0. /\ TreeInv(t, h, R) /\ n \in Leafs(t) /\ k \in Int /\ d \in Int /\ k \in R[n]
        /\ insert \in 0..Len(K(t, n)) /\ Fits(K(t, n), insert, k)
        /\ kl \in Seq(Int) /\ dl \in Seq(Int) /\ kr \in Seq(Int) /\ dr \in Seq(Int)
    BY DEF Entering, LeafHalves
  <1>1. /\ TreeInv(v, h, R) /\ Frame(t, v) /\ N(v) = N(t) /\ v.link = t.link /\ InLists(v)
        /\ \A z \in N(t) \ {n} : Same(t, v, z)
        /\ is_leaf(v, n)
        /\ Entered(K(t, n), insert + 1, k, K(v, n))
        /\ Entered(D(t, n), insert + 1, d, D(v, n))
        /\ \A z \in N(t) : P(v, z) = P(t, z) /\ X(v, z) = X(t, z)
        /\ Filed(v) = Filed(t) \cup {<<k, d>>}
    BY <1>0, LeafGrown
  <1>2. Formed(t) /\ Formed(v) /\ n \in N(t) /\ is_leaf(t, n)
    BY <1>0, <1>1 DEF TreeInv, Leafs
  <1>3. /\ K(t, n) \in Seq(Int) /\ K(v, n) \in Seq(Int) /\ D(v, n) \in Seq(Int)
        /\ Len(D(v, n)) = Len(K(v, n)) /\ P(t, n) \in N(t) \cup {NULL} /\ X(t, n) \in Int
    BY <1>0, <1>1, <1>2, FormedFields DEF NodeFormed
  <1>4. /\ e \in Nat \ {0} /\ t.entries = e /\ t.order = o /\ o \in Nat \ 0..2
        /\ DOMAIN t.link = N(t) \cup ListHeads /\ \A z \in N(t) : Fill(t, z)
    BY <1>0 DEF Sound
  <1>5. c \in 1..e /\ e + 1 - c \in 1..e /\ e + 1 - c >= c
    BY <1>0, <1>4, HalfFact
  <1>6. Len(K(v, n)) = e + 1
    BY <1>0, <1>1 DEF Entered
  <1> HIDE DEF c
  <1>7. /\ Cut(K(v, n), c, c, kl, kr) /\ Cut(D(v, n), c, c, dl, dr)
        /\ Len(kl) = c /\ Len(dl) = c /\ Len(kr) = e + 1 - c /\ Len(dr) = e + 1 - c
    BY <1>0, <1>3, <1>6 DEF Cut, c, HalfCut
  <1>8. /\ l # r /\ {l, r} = {n, m} /\ m \notin N(t) /\ m \in Nat \ {0} /\ m # n
        /\ N(u) = N(t) \cup {l, r} /\ l \in N(u) /\ r \in N(u) /\ n \in N(u) /\ m \in N(u)
        /\ (l = n /\ r = m) \/ (l = m /\ r = n)
    BY <1>0, <1>2 DEF LeafDivided
  <1>9. /\ NodeFormed(u, n) /\ is_leaf(u, n) /\ P(u, n) = P(t, n) /\ X(u, n) = X(t, n)
        /\ K(u, n) = (IF l = n THEN kl ELSE kr) /\ D(u, n) = (IF l = n THEN dl ELSE dr)
    <2>1. P(t, n) \in N(u) \cup {NULL}
      BY <1>0, <1>3, <1>8
    <2> QED  BY <1>0, <1>3, <1>7, <2>1, LeafRecFormed DEF LeafHalves
  <1>10. /\ NodeFormed(u, m) /\ is_leaf(u, m) /\ P(u, m) = NULL /\ X(u, m) = -1
         /\ K(u, m) = (IF l = m THEN kl ELSE kr) /\ D(u, m) = (IF l = m THEN dl ELSE dr)
    <2>1. -1 \in Int
      OBVIOUS
    <2> QED  BY <1>0, <1>7, <2>1, LeafRecFormed DEF LeafHalves
  <1>11. /\ NodeFormed(u, l) /\ NodeFormed(u, r) /\ is_leaf(u, l) /\ is_leaf(u, r)
         /\ K(u, l) = kl /\ K(u, r) = kr /\ D(u, l) = dl /\ D(u, r) = dr
    BY <1>0, <1>8, <1>9, <1>10
  <1>12. /\ l \in Nat \ {0} /\ r \in Nat \ {0}
    BY <1>0, <1>2, <1>8 DEF Formed
  <1>13. /\ Formed(u)
         /\ \A z \in N(t) \ {l, r} : Same(t, u, z) /\ P(u, z) = P(t, z) /\ X(u, z) = X(t, z)
    <2>1. /\ DOMAIN u = Fields /\ u.level = t.level /\ u.root = t.root
          /\ \A z \in N(t) \ {l, r} : u.node[z] = t.node[z]
      BY <1>0 DEF LeafDivided
    <2>2. N(u) = N(t) \cup {l, r}
      BY <1>0, <1>8
    <2>3. Grows(t, u, l, r)
      BY <1>0, <1>11, <1>12, <2>1, <2>2 DEF Grows
    <2> QED  BY <1>0, <1>2, <2>3, FormedGrows
  <1>14. kr[1] = K(v, n)[c + 1]
    <2>1. 1 \in 1..(Len(K(v, n)) - c)
      BY <1>0, <1>5, <1>6
    <2>2. \A j \in 1..(Len(K(v, n)) - c) : kr[j] = K(v, n)[c + j]
      BY <1>0, <1>7 DEF Cut
    <2> QED  BY <1>0, <2>1, <2>2
  <1>15. Sorted(K(v, n))
    BY <1>0, <1>1, <1>2, NodeSorted
  <1>16. Halves(v, u, n, l, r, c, kr[1])
    <2>1. u.root = v.root /\ u.level = v.level
      BY <1>0, <1>1 DEF Frame, LeafDivided
    <2>2. n \in {l, r} /\ N(u) = N(v) \cup {l, r} /\ N(v) \cap {l, r} = {n}
      BY <1>0, <1>1, <1>2, <1>8
    <2>3. c + 1 \in 1..Len(K(v, n)) /\ c \in 0..Len(K(v, n))
      BY <1>0, <1>5, <1>6
    <2>4. kr[1] \in Int
      BY <1>0, <1>3, <1>14, <2>3
    <2>5. \A z \in N(v) \ {l, r} : Same(v, u, z)
      <3> SUFFICES ASSUME NEW z \in N(v) \ {l, r} PROVE Same(v, u, z)
        OBVIOUS
      <3>1. Same(t, v, z) /\ Same(t, u, z)
        BY <1>0, <1>1, <1>8, <1>13
      <3> QED  BY <1>0, <3>1, SameSym, SameTrans
    <2>6. \A j \in 1..c : K(v, n)[j] < kr[1]
      <3> SUFFICES ASSUME NEW j \in 1..c PROVE K(v, n)[j] < kr[1]
        OBVIOUS
      <3>1. j \in 1..Len(K(v, n)) /\ j < c + 1
        BY <1>0, <2>3, <1>5
      <3> QED  BY <1>0, <1>14, <1>15, <2>3, <3>1 DEF Sorted
    <2>7. \A j \in (c + 1)..Len(K(v, n)) : kr[1] <= K(v, n)[j]
      <3> SUFFICES ASSUME NEW j \in (c + 1)..Len(K(v, n)) PROVE kr[1] <= K(v, n)[j]
        OBVIOUS
      <3>1. j \in 1..Len(K(v, n)) /\ (j = c + 1 \/ c + 1 < j)
        BY <1>0, <2>3, <1>5
      <3>2. CASE j = c + 1
        BY <1>0, <1>14, <2>4, <3>2
      <3>3. CASE c + 1 < j
        <4>1. kr[1] < K(v, n)[j]
          BY <1>0, <1>14, <1>15, <2>3, <3>1, <3>3 DEF Sorted
        <4>2. K(v, n)[j] \in Int
          BY <1>0, <1>3, <3>1
        <4> QED  BY <1>0, <2>4, <4>1, <4>2
      <3> QED  BY <1>0, <3>1, <3>2, <3>3
    <2>8. Inner(u) \cap {l, r} = {}
      BY <1>0, <1>11 DEF Inner
    <2>9. \A z \in N(v) : P(u, z) = P(v, z) /\ X(u, z) = X(v, z)
      BY <1>0, <1>1, <1>8, <1>9, <1>13
    <2>10. \A z \in {l, r} \ {n} : P(u, z) = NULL
      BY <1>0, <1>8, <1>10
    <2>11. Ring(v.link) => Joined(v.link, u.link, n, l, r)
      <3>1. Spliced(t.link, u.link, n, m, l)
        BY DEF LeafDivided
      <3> QED  BY <1>1, <1>2, <1>4, <1>8, <3>1, SplicedJoined
    <2> QED
      BY <1>0, <1>1, <1>7, <1>8, <1>11, <2>1, <2>2, <2>3, <2>4, <2>5, <2>6, <2>7, <2>8, <2>9, <2>10,
         <2>11
      DEF Halves
  <1>17. FullFill(u, l) /\ FullFill(u, r)
    <2>1. u.entries = e
      BY <1>0, <1>4 DEF LeafDivided
    <2> QED  BY <1>0, <1>5, <1>7, <1>11, <2>1 DEF FullFill, c
  <1>18. Sound(u, o, e)
    <2>1. u.ok = TRUE /\ u.order = o /\ u.entries = e
      BY <1>0, <1>4 DEF LeafDivided
    <2>2. DOMAIN u.link = N(u) \cup ListHeads
      BY <1>0, <1>2, <1>4, <1>8 DEF LeafDivided
    <2>3. \A z \in N(u) : Fill(u, z)
      <3> SUFFICES ASSUME NEW z \in N(t) \ {l, r} PROVE Fill(u, z)
        BY <1>0, <1>8, <1>17 DEF Fill
      <3>1. Fill(t, z) /\ Same(t, u, z) /\ u.root = t.root
        BY <1>0, <1>4, <1>13 DEF LeafDivided
      <3> QED  BY <1>0, <1>4, <2>1, <3>1 DEF Fill, FullFill, Same
    <2> QED  BY <1>0, <1>4, <2>1, <2>2, <2>3 DEF Sound
  <1>19. c \in 1..(Len(K(v, n)) - 1)
    BY <1>0, <1>5, <1>6
  <1>20. Rising(parent_node_build(u, l, r, kr[1]), o, e, Filed(v), v.level, h[n] + 1)
    BY <1>0, <1>1, <1>13, <1>16, <1>17, <1>18, <1>19, Ascend
  <1>21. h[n] + 1 = 1
    BY <1>0, <1>2 DEF TreeInv, Heights
  <1>22. v.level = t.level
    BY <1>0, <1>1 DEF Frame
  <1> QED  BY <1>0, <1>1, <1>20, <1>21, <1>22

\* The lower half goes to the new leaf, with the key.
LEMMA LeafSplitLeft ==
  ASSUME NEW t, NEW h, NEW R, NEW n, NEW k, NEW d, NEW insert, NEW o, NEW e, NEW m,
         Entering(t, h, R, n, k, d, insert), Sound(t, o, e), Len(K(t, n)) = e,
         insert < Half(e), m \in Nat \ {0}, m \notin N(t)
  PROVE  Rising(leaf_split_left(t, n, m, k, d, insert), o, e, Filed(t) \cup {<<k, d>>}, t.level, 1)
  <1> DEFINE v == leaf_simple_insert(t, n, k, d, insert)
             c == Half(e)
             kl == WithKey(Slice(K(t, n), 0, c - 2), k, insert)
             dl == WithKey(Slice(D(t, n), 0, c - 2), d, insert)
             kr == SliceFrom(K(t, n), c - 1)
             dr == SliceFrom(D(t, n), c - 1)
             lower == [leaf_new EXCEPT !.key = kl, !.data = dl]
             upper == [t.node[n] EXCEPT !.key = SliceFrom(@, c - 1), !.data = SliceFrom(@, c - 1)]
             u == __list_add(Store(Store(t, m, lower), n, upper), m, t.link[n].prev, n)
  <1>0. /\ TreeInv(t, h, R) /\ n \in Leafs(t) /\ k \in Int /\ d \in Int /\ k \in R[n]
        /\ insert \in 0..Len(K(t, n)) /\ Fits(K(t, n), insert, k)
    BY DEF Entering
  <1>1. /\ Formed(t) /\ n \in N(t) /\ is_leaf(t, n) /\ DOMAIN t = Fields
        /\ DOMAIN t.node[n] = LeafFields /\ K(t, n) \in Seq(Int) /\ D(t, n) \in Seq(Int)
        /\ Len(D(t, n)) = Len(K(t, n))
    BY <1>0, FormedFields DEF TreeInv, Leafs, NodeFormed
  <1>2. /\ e \in Nat \ {0} /\ t.entries = e /\ t.order = o /\ t.ok = TRUE
    BY <1>0 DEF Sound
  <1>3. c \in 1..e
    BY <1>0, <1>2, HalfFact
  <1>4. leaf_split_left(t, n, m, k, d, insert) = parent_node_build(u, m, n, kr[1])
    <2>1. Half(entries(t, n)) = c
      BY <1>0 DEF entries, K
    <2>2. upper.key = kr
      BY <1>0, <1>1 DEF LeafFields, K
    <2> HIDE DEF c
    <2>3. leaf_split_left(t, n, m, k, d, insert) = parent_node_build(u, m, n, upper.key[0 + 1])
      BY <1>0, <2>1 DEF leaf_split_left, K, D, At
    <2> QED  BY <1>0, <2>2, <2>3
  <1>5. m # n
    BY <1>0, <1>1
  <1>6. /\ DOMAIN lower = LeafFields /\ lower.type = "leaf" /\ lower.key = kl /\ lower.data = dl
        /\ lower.parent = NULL /\ lower.parent_key_idx = -1
    BY <1>0 DEF leaf_new, LeafFields
  <1>7. /\ DOMAIN upper = LeafFields /\ upper.type = "leaf" /\ upper.key = kr /\ upper.data = dr
        /\ upper.parent = P(t, n) /\ upper.parent_key_idx = X(t, n)
    BY <1>0, <1>1 DEF LeafFields, K, D, P, X, is_leaf
  <1> HIDE DEF lower, upper
  <1>8. /\ Frame(t, u) /\ N(u) = N(t) \cup {m, n} /\ u.node[m] = lower /\ u.node[n] = upper
        /\ \A z \in N(t) \ {m, n} : u.node[z] = t.node[z]
        /\ DOMAIN u.link = DOMAIN t.link \cup {m}
        /\ u.link = Added(t.link, m, t.link[n].prev, n)
    <2> DEFINE prev == t.link[n].prev
    <2>1. StoredTwo(t, u, m, n, lower, upper, m, prev, n)
      BY <1>0 DEF StoredTwo
    <2> HIDE DEF u, prev
    <2>2. /\ Frame(t, u) /\ N(u) = N(t) \cup {m, n} /\ u.node[m] = lower /\ u.node[n] = upper
          /\ \A z \in N(t) \ {m, n} : u.node[z] = t.node[z]
          /\ DOMAIN u.link = DOMAIN t.link \cup {m}
          /\ u.link = Added(t.link, m, prev, n)
      BY <1>0, <1>1, <1>5, <2>1, TwoStored
    <2> QED  BY <2>2 DEF prev
  <1> HIDE DEF u
  <1>27. Spliced(t.link, u.link, n, m, m)
    BY <1>8 DEF Spliced
  <1>9. LeafDivided(t, u, n, m, m, n)
    BY <1>0, <1>1, <1>2, <1>5, <1>8, <1>27 DEF Frame, LeafDivided
  <1>12. /\ Entered(K(t, n), insert + 1, k, K(v, n))
         /\ Entered(D(t, n), insert + 1, d, D(v, n))
         /\ TreeInv(v, h, R) /\ is_leaf(v, n) /\ N(v) = N(t)
    <2> HIDE DEF v
    <2>1. LeafGrows(t, v, n, k, d, insert)
      BY <1>0 DEF v, LeafGrows
    <2> QED  BY <1>0, <2>1, LeafGrown
  <1>13. K(v, n) \in Seq(Int) /\ D(v, n) \in Seq(Int)
    BY <1>0, <1>1, <1>12, FormedFields DEF TreeInv, NodeFormed
  <1> HIDE DEF v
  <1>14. c \in (insert + 1)..(Len(K(t, n)) + 1) /\ insert \in 0..Len(D(t, n))
         /\ c - 1 \in 0..Len(K(t, n)) /\ c - 1 - 1 = c - 2 /\ insert \in 0..(c - 1)
    BY <1>0, <1>1, <1>2, <1>3, SMTT(30)
  <1> HIDE DEF c
  <1>15. Cut(K(v, n), c, c, kl, kr)
    BY <1>0, <1>1, <1>12, <1>13, <1>14, CutBehind
  <1>16. Cut(D(v, n), c, c, dl, dr)
    BY <1>0, <1>1, <1>12, <1>13, <1>14, CutBehind
  <1>17. kl \in Seq(Int) /\ dl \in Seq(Int) /\ kr \in Seq(Int) /\ dr \in Seq(Int)
    <2>1. /\ Slice(K(t, n), 0, c - 1 - 1) \in Seq(Int) /\ Len(Slice(K(t, n), 0, c - 1 - 1)) = c - 1
          /\ Slice(D(t, n), 0, c - 1 - 1) \in Seq(Int) /\ Len(Slice(D(t, n), 0, c - 1 - 1)) = c - 1
      BY <1>0, <1>1, <1>14, SliceFact, SMTT(30)
    <2>2. /\ kr \in Seq(Int) /\ dr \in Seq(Int)
      BY <1>0, <1>1, <1>14, SliceFromFact
    <2>3. /\ Slice(K(t, n), 0, c - 2) \in Seq(Int) /\ Slice(D(t, n), 0, c - 2) \in Seq(Int)
          /\ insert \in 0..Len(Slice(K(t, n), 0, c - 2)) /\ insert \in 0..Len(Slice(D(t, n), 0, c - 2))
      BY <1>0, <1>14, <2>1
    <2> QED  BY <1>0, <2>2, <2>3, WithKeyFact
  <1> HIDE DEF kl, dl, kr, dr
  <1>25. LeafHalves(t, u, n, m, m, kl, dl, kr, dr)
    BY <1>0, <1>5, <1>17, <1>6, <1>7, <1>8 DEF LeafRec, LeafHalves
  <1>18. LeafGrows(t, v, n, k, d, insert)
    BY <1>0 DEF v, LeafGrows
  <1>19. HalfCut(v, n, e, kl, dl, kr, dr)
    BY <1>0, <1>15, <1>16 DEF c, HalfCut
  <1>26. Rising(parent_node_build(u, m, n, kr[1]), o, e, Filed(t) \cup {<<k, d>>}, t.level, 1)
    BY <1>9, <1>25, <1>18, <1>19, LeafHalved
  <1> QED  BY <1>4, <1>26

\* The upper half goes to the new leaf, with the key.
LEMMA LeafSplitRight ==
  ASSUME NEW t, NEW h, NEW R, NEW n, NEW k, NEW d, NEW insert, NEW o, NEW e, NEW m,
         Entering(t, h, R, n, k, d, insert), Sound(t, o, e), Len(K(t, n)) = e,
         insert >= Half(e), m \in Nat \ {0}, m \notin N(t)
  PROVE  Rising(leaf_split_right(t, n, m, k, d, insert), o, e, Filed(t) \cup {<<k, d>>}, t.level, 1)
  <1> DEFINE v == leaf_simple_insert(t, n, k, d, insert)
             c == Half(e)
             kl == Slice(K(t, n), 0, c - 1)
             dl == Slice(D(t, n), 0, c - 1)
             kr == WithKey(SliceFrom(K(t, n), c), k, insert - c)
             dr == WithKey(SliceFrom(D(t, n), c), d, insert - c)
             lower == [t.node[n] EXCEPT !.key = Slice(@, 0, c - 1), !.data = Slice(@, 0, c - 1)]
             upper == [leaf_new EXCEPT !.key = kr, !.data = dr]
             g == Store(Store(t, n, lower), m, upper)
             w == __list_add(g, m, n, g.link[n].next)
             u == [w EXCEPT !.ok = @ /\ insert - c <= Len(SliceFrom(K(t, n), c))]
  <1>0. /\ TreeInv(t, h, R) /\ n \in Leafs(t) /\ k \in Int /\ d \in Int /\ k \in R[n]
        /\ insert \in 0..Len(K(t, n)) /\ Fits(K(t, n), insert, k)
    BY DEF Entering
  <1>1. /\ Formed(t) /\ n \in N(t) /\ is_leaf(t, n) /\ DOMAIN t = Fields
        /\ DOMAIN t.node[n] = LeafFields /\ K(t, n) \in Seq(Int) /\ D(t, n) \in Seq(Int)
        /\ Len(D(t, n)) = Len(K(t, n))
    BY <1>0, FormedFields DEF TreeInv, Leafs, NodeFormed
  <1>2. /\ e \in Nat \ {0} /\ t.entries = e /\ t.order = o /\ t.ok = TRUE
    BY <1>0 DEF Sound
  <1>3. c \in 1..e
    BY <1>0, <1>2, HalfFact
  <1>4. leaf_split_right(t, n, m, k, d, insert) = parent_node_build(u, n, m, kr[1])
    <2>1. Half(entries(t, n)) = c
      BY <1>0 DEF entries, K
    <2>2. upper.key = kr
      BY <1>0 DEF leaf_new
    <2> HIDE DEF c
    <2>3. leaf_split_right(t, n, m, k, d, insert) = parent_node_build(u, n, m, upper.key[0 + 1])
      BY <1>0, <2>1 DEF leaf_split_right, list_add, K, D, At
    <2> HIDE DEF u, upper, kr
    <2> QED  BY <1>0, <2>2, <2>3
  <1>5. m # n
    BY <1>0, <1>1
  <1>6. /\ DOMAIN upper = LeafFields /\ upper.type = "leaf" /\ upper.key = kr /\ upper.data = dr
        /\ upper.parent = NULL /\ upper.parent_key_idx = -1
    BY <1>0 DEF leaf_new, LeafFields
  <1>7. /\ DOMAIN lower = LeafFields /\ lower.type = "leaf" /\ lower.key = kl /\ lower.data = dl
        /\ lower.parent = P(t, n) /\ lower.parent_key_idx = X(t, n)
    BY <1>0, <1>1 DEF LeafFields, K, D, P, X, is_leaf
  <1> HIDE DEF lower, upper
  <1>8. /\ Frame(t, w) /\ N(w) = N(t) \cup {n, m} /\ w.node[n] = lower /\ w.node[m] = upper
        /\ \A z \in N(t) \ {n, m} : w.node[z] = t.node[z]
        /\ DOMAIN w.link = DOMAIN t.link \cup {m}
        /\ w.link = Added(t.link, m, n, t.link[n].next)
    <2> DEFINE next == g.link[n].next
    <2>1. StoredTwo(t, w, n, m, lower, upper, m, n, next)
      BY <1>0 DEF StoredTwo
    <2>3. next = t.link[n].next
      BY <1>1, StoredLink
    <2> HIDE DEF w, next
    <2>2. /\ Frame(t, w) /\ N(w) = N(t) \cup {n, m} /\ w.node[n] = lower /\ w.node[m] = upper
          /\ \A z \in N(t) \ {n, m} : w.node[z] = t.node[z]
          /\ DOMAIN w.link = DOMAIN t.link \cup {m}
          /\ w.link = Added(t.link, m, n, next)
      BY <1>0, <1>1, <1>5, <2>1, TwoStored
    <2> QED  BY <2>2, <2>3
  <1> HIDE DEF w
  <1>14. c \in 0..insert /\ insert \in 0..Len(D(t, n)) /\ c \in 0..Len(K(t, n)) /\ c \in 0..Len(D(t, n))
         /\ insert - c \in 0..(Len(K(t, n)) - c)
    BY <1>0, <1>1, <1>2, <1>3
  <1> HIDE DEF c
  <1>20. Len(SliceFrom(K(t, n), c)) = Len(K(t, n)) - c /\ SliceFrom(K(t, n), c) \in Seq(Int)
    BY <1>0, <1>1, <1>14, SliceFromFact
  <1>21. Len(SliceFrom(D(t, n), c)) = Len(K(t, n)) - c /\ SliceFrom(D(t, n), c) \in Seq(Int)
    BY <1>0, <1>1, <1>14, SliceFromFact
  <1>22. (w.ok /\ insert - c <= Len(SliceFrom(K(t, n), c))) = TRUE
    <2>1. insert - c <= Len(SliceFrom(K(t, n), c))
      BY <1>0, <1>14, <1>20
    <2>2. w.ok = TRUE
      BY <1>0, <1>2, <1>8 DEF Frame
    <2> QED  BY <1>0, <2>1, <2>2
  <1>23. u = [w EXCEPT !.ok = TRUE]
    BY <1>0, <1>22
  <1> HIDE DEF u
  <1>24. /\ DOMAIN u = Fields /\ u.root = t.root /\ u.level = t.level /\ u.ok = TRUE
         /\ u.order = t.order /\ u.entries = t.entries
         /\ u.node = w.node /\ u.link = w.link
    BY <1>0, <1>1, <1>8, <1>23 DEF Frame, Fields
  <1>27. Spliced(t.link, u.link, n, m, n)
    BY <1>5, <1>8, <1>24 DEF Spliced
  <1>9. LeafDivided(t, u, n, m, n, m)
    BY <1>0, <1>1, <1>5, <1>8, <1>24, <1>27 DEF N, LeafDivided
  <1>12. /\ Entered(K(t, n), insert + 1, k, K(v, n))
         /\ Entered(D(t, n), insert + 1, d, D(v, n))
         /\ TreeInv(v, h, R) /\ is_leaf(v, n) /\ N(v) = N(t)
    <2> HIDE DEF v
    <2>1. LeafGrows(t, v, n, k, d, insert)
      BY <1>0 DEF v, LeafGrows
    <2> QED  BY <1>0, <2>1, LeafGrown
  <1>13. K(v, n) \in Seq(Int) /\ D(v, n) \in Seq(Int)
    BY <1>0, <1>1, <1>12, FormedFields DEF TreeInv, NodeFormed
  <1> HIDE DEF v
  <1>15. Cut(K(v, n), c, c, kl, kr)
    BY <1>0, <1>1, <1>12, <1>13, <1>14, CutBefore
  <1>16. Cut(D(v, n), c, c, dl, dr)
    BY <1>0, <1>1, <1>12, <1>13, <1>14, CutBefore
  <1>17. kl \in Seq(Int) /\ dl \in Seq(Int) /\ kr \in Seq(Int) /\ dr \in Seq(Int)
    <2>1. kl \in Seq(Int) /\ dl \in Seq(Int)
      BY <1>0, <1>1, <1>14, SliceFact
    <2>2. insert - c \in 0..Len(SliceFrom(K(t, n), c)) /\ insert - c \in 0..Len(SliceFrom(D(t, n), c))
      BY <1>0, <1>14, <1>20, <1>21
    <2> QED  BY <1>0, <1>20, <1>21, <2>1, <2>2, WithKeyFact
  <1> HIDE DEF kl, dl, kr, dr
  <1>25. LeafHalves(t, u, n, m, n, kl, dl, kr, dr)
    BY <1>0, <1>5, <1>17, <1>6, <1>7, <1>8, <1>24 DEF LeafRec, LeafHalves
  <1>18. LeafGrows(t, v, n, k, d, insert)
    BY <1>0 DEF v, LeafGrows
  <1>19. HalfCut(v, n, e, kl, dl, kr, dr)
    BY <1>0, <1>15, <1>16 DEF c, HalfCut
  <1>26. Rising(parent_node_build(u, n, m, kr[1]), o, e, Filed(t) \cup {<<k, d>>}, t.level, 1)
    BY <1>9, <1>25, <1>18, <1>19, LeafHalved
  <1> QED  BY <1>4, <1>26

\* A leaf with room takes the key, and that is all.
LEMMA LeafSimple ==
  ASSUME NEW t, NEW h, NEW R, NEW n, NEW k, NEW d, NEW insert, NEW o, NEW e,
         Entering(t, h, R, n, k, d, insert), Sound(t, o, e), Len(K(t, n)) # e
  PROVE  Ended(Done(leaf_simple_insert(t, n, k, d, insert)), o, e, Filed(t) \cup {<<k, d>>})
  <1> DEFINE v == leaf_simple_insert(t, n, k, d, insert)
  <1>0. /\ TreeInv(t, h, R) /\ n \in Leafs(t) /\ k \in Int /\ d \in Int /\ k \in R[n]
        /\ insert \in 0..Len(K(t, n)) /\ Fits(K(t, n), insert, k)
    BY DEF Entering
  <1>1. /\ TreeInv(v, h, R) /\ Frame(t, v) /\ v.link = t.link /\ N(v) = N(t)
        /\ \A z \in N(t) \ {n} : Same(t, v, z)
        /\ is_leaf(v, n)
        /\ Entered(K(t, n), insert + 1, k, K(v, n))
        /\ Filed(v) = Filed(t) \cup {<<k, d>>} /\ InLists(v)
    <2> HIDE DEF v
    <2>1. LeafGrows(t, v, n, k, d, insert)
      BY <1>0 DEF v, LeafGrows
    <2> QED  BY <1>0, <2>1, LeafGrown
  <1> HIDE DEF v
  <1>2. Formed(t) /\ n \in N(t) /\ is_leaf(t, n)
    BY <1>0 DEF TreeInv, Leafs
  <1>3. Len(K(t, n)) \in Nat /\ Len(K(v, n)) = Len(K(t, n)) + 1
    <2>1. K(t, n) \in Seq(Int)
      BY <1>0, <1>2, FormedFields
    <2> QED  BY <1>0, <1>1, <2>1 DEF Entered
  <1>4. /\ e \in Nat \ {0} /\ t.entries = e /\ t.order = o /\ o \in Nat \ 0..2 /\ t.ok = TRUE
        /\ DOMAIN t.link = N(t) \cup ListHeads /\ \A z \in N(t) : Fill(t, z)
    BY <1>0 DEF Sound
  <1>5. v.entries = e /\ v.order = o /\ v.ok = TRUE /\ v.root = t.root
    BY <1>0, <1>1, <1>4 DEF Frame
  <1>6. Fill(v, n)
    <2>1. Fill(t, n)
      BY <1>0, <1>2, <1>4
    <2>2. CASE FullFill(t, n)
      <3>1. Len(K(v, n)) \in 1..e /\ Len(K(v, n)) >= Half(e)
        BY <1>0, <1>2, <1>3, <1>4, <2>2 DEF FullFill, Half
      <3> QED  BY <1>0, <1>1, <1>5, <3>1 DEF Fill, FullFill
    <2>3. CASE n = t.root /\ Len(K(t, n)) \in 1..e
      <3>1. Len(K(v, n)) \in 1..e
        BY <1>0, <1>3, <1>4, <2>3
      <3> QED  BY <1>0, <1>1, <1>5, <2>3, <3>1 DEF Fill
    <2> QED  BY <1>0, <1>2, <1>4, <2>1, <2>2, <2>3 DEF Fill
  <1>7. ASSUME NEW z \in N(t) \ {n} PROVE Fill(v, z)
    <2>1. Fill(t, z) /\ Same(t, v, z)
      BY <1>0, <1>1, <1>4
    <2> QED  BY <1>0, <1>4, <1>5, <2>1 DEF Fill, FullFill, Same
  <1>8. Sound(v, o, e)
    BY <1>0, <1>1, <1>4, <1>5, <1>6, <1>7 DEF Sound
  <1> QED  BY <1>0, <1>1, <1>8 DEF Ended, Done, v

\* A key that is not there enters the leaf that looks after it.
LEMMA LeafInsert ==
  ASSUME NEW t, NEW h, NEW R, NEW n, NEW k, NEW d, NEW insert, NEW o, NEW e,
         Entering(t, h, R, n, k, d, insert), Sound(t, o, e)
  PROVE  Rising(leaf_insert(t, n, k, d), o, e, Filed(t) \cup {<<k, d>>}, t.level, 1)
  <1>0. /\ TreeInv(t, h, R) /\ n \in Leafs(t) /\ k \in Int /\ d \in Int /\ k \in R[n]
        /\ insert \in 0..Len(K(t, n)) /\ Fits(K(t, n), insert, k)
    BY DEF Entering
  <1>1. Formed(t) /\ n \in N(t) /\ t.entries = e
    BY <1>0 DEF TreeInv, Leafs, Sound
  <1>2. key_binary_search(t.node[n].key, k) = -insert - 1
    <2>1. Sorted(K(t, n)) /\ K(t, n) \in Seq(Int)
      BY <1>0, <1>1, NodeSorted
    <2> QED  BY <1>0, <2>1, SearchMisses DEF K
  <1>3. -(-insert - 1) - 1 = insert
    BY <1>0
  <1>4. Fresh(t) \in Nat \ {0} /\ Fresh(t) \notin N(t)
    BY <1>0, <1>1, FreshFact DEF Formed
  <1>5. (entries(t, n) = t.entries) <=> (Len(K(t, n)) = e)
    BY <1>0, <1>1 DEF entries, K
  <1>6. CASE Len(K(t, n)) # e
    <2>1. leaf_insert(t, n, k, d) = Done(leaf_simple_insert(t, n, k, d, insert))
      BY <1>0, <1>2, <1>3, <1>5, <1>6 DEF leaf_insert
    <2> QED  BY <1>0, <1>6, <2>1, LeafSimple DEF Rising
  <1>7. CASE Len(K(t, n)) = e /\ insert < Half(e)
    <2>1. leaf_insert(t, n, k, d) = leaf_split_left(t, n, Fresh(t), k, d, insert)
      <3>1. ~(insert >= Half(t.entries))
        BY <1>0, <1>1, <1>7 DEF Half, Sound
      <3> QED  BY <1>0, <1>1, <1>2, <1>3, <1>5, <1>7, <3>1 DEF leaf_insert
    <2> QED  BY <1>0, <1>4, <1>7, <2>1, LeafSplitLeft
  <1>8. CASE Len(K(t, n)) = e /\ insert >= Half(e)
    <2>1. leaf_insert(t, n, k, d) = leaf_split_right(t, n, Fresh(t), k, d, insert)
      <3>1. ~(insert < Half(t.entries))
        BY <1>0, <1>1, <1>8 DEF Half, Sound
      <3> QED  BY <1>0, <1>1, <1>2, <1>3, <1>5, <1>8, <3>1 DEF leaf_insert
    <2> QED  BY <1>0, <1>4, <1>8, <2>1, LeafSplitRight
  <1>9. insert < Half(e) \/ insert >= Half(e)
    BY <1>0 DEF Half, Sound
  <1> QED  BY <1>0, <1>6, <1>7, <1>8, <1>9

-----------------------------------------------------------------------------
\* A separator and a pair of children enter a non-leaf.

\* The pair l1, r1 with the key k between them is to take the place of child
\* number a of n; w is the tree in which it has.
Pending(t, w, n, l1, r1, k, a, h, R) ==
  /\ Formed(t) /\ n \in Inner(t) /\ l1 \in N(t) /\ r1 \in N(t) /\ k \in Int
  /\ a \in 1..Len(S(t, n))
  /\ w = non_leaf_simple_insert(t, n, l1, r1, k, a - 1)
  /\ PairIn(t, w, n, l1, r1, k, a)
  /\ TreeInv(w, h, R) /\ InLists(w)

\* What is known of a node that has to take a pair.
LEMMA PendingFacts ==
  ASSUME NEW t, NEW w, NEW n, NEW l1, NEW r1, NEW k, NEW a, NEW h, NEW R,
         Pending(t, w, n, l1, r1, k, a, h, R)
  PROVE  /\ N(w) = N(t) /\ n \in Inner(w)
         /\ K(t, n) \in Seq(Int) /\ S(t, n) \in Seq(N(t)) /\ Len(S(t, n)) = Len(K(t, n)) + 1
         /\ K(w, n) = WithKey(K(t, n), k, a - 1) /\ S(w, n) = WithPair(S(t, n), l1, r1, a - 1)
         /\ K(w, n) \in Seq(Int) /\ S(w, n) \in Seq(N(t))
         /\ Len(K(w, n)) = Len(S(t, n)) /\ Len(S(w, n)) = Len(S(t, n)) + 1
         /\ Entered(K(t, n), (a - 1) + 1, k, K(w, n)) /\ Paired(S(t, n), (a - 1) + 1, l1, r1, S(w, n))
         /\ a - 1 \in 0..Len(K(t, n)) /\ a - 1 \in 0..(Len(S(t, n)) - 1) /\ a \in Nat
         /\ key_binary_search(K(t, n), k) = -(a - 1) - 1
         /\ \A i, j \in 1..Len(S(w, n)) : S(w, n)[i] = S(w, n)[j] => i = j
         /\ \A i \in 1..Len(S(w, n)) : S(w, n)[i] # n
         /\ Owns(w, n)
  <1>1. /\ Formed(t) /\ n \in Inner(t) /\ l1 \in N(t) /\ r1 \in N(t) /\ k \in Int
        /\ a \in 1..Len(S(t, n)) /\ w = non_leaf_simple_insert(t, n, l1, r1, k, a - 1)
        /\ PairIn(t, w, n, l1, r1, k, a) /\ TreeInv(w, h, R)
    BY DEF Pending
  <1>2. N(w) = N(t) /\ n \in Inner(w) /\ n \in N(t) /\ Formed(w)
    BY <1>1 DEF PairIn, Inner
  <1>3. K(t, n) \in Seq(Int) /\ S(t, n) \in Seq(N(t)) /\ Len(S(t, n)) = Len(K(t, n)) + 1
    BY <1>1, <1>2, FormedFields
  <1>4. a - 1 \in 0..Len(K(t, n)) /\ a - 1 \in 0..(Len(S(t, n)) - 1) /\ a \in Nat /\ a \in Int
        /\ (a - 1) + 1 = a /\ a \in 1..(Len(K(t, n)) + 1)
    BY <1>1, <1>3
  <1>5. K(w, n) = WithKey(K(t, n), k, a - 1) /\ S(w, n) = WithPair(S(t, n), l1, r1, a - 1)
    BY <1>1, <1>4, PairInShape
  <1>6. K(w, n) \in Seq(Int) /\ Entered(K(t, n), (a - 1) + 1, k, K(w, n))
    BY <1>1, <1>3, <1>4, <1>5, WithKeyFact
  <1>7. S(w, n) \in Seq(N(t)) /\ Paired(S(t, n), (a - 1) + 1, l1, r1, S(w, n))
    BY <1>1, <1>3, <1>4, <1>5, WithPairFact
  <1>8. Len(K(w, n)) = Len(S(t, n)) /\ Len(S(w, n)) = Len(S(t, n)) + 1
    BY <1>3, <1>6, <1>7 DEF Entered, Paired
  <1>9. key_binary_search(K(t, n), k) = -(a - 1) - 1
    <2>1. Sorted(K(w, n))
      BY <1>1, <1>2, NodeSorted
    <2>2. Fits(K(t, n), a - 1, k)
      BY <1>1, <1>3, <1>4, <1>6, <2>1, EnteredFits
    <2>3. Sorted(K(t, n))
      <3> SUFFICES ASSUME NEW i \in 1..Len(K(t, n)), NEW j \in 1..Len(K(t, n)), i < j
                   PROVE  K(t, n)[i] < K(t, n)[j]
        BY DEF Sorted
      <3> DEFINE at(x) == IF x < a THEN x ELSE x + 1
      <3>1. at(i) \in 1..Len(K(w, n)) /\ at(j) \in 1..Len(K(w, n)) /\ at(i) < at(j)
        BY <1>3, <1>4, <1>8
      <3>2. ASSUME NEW x \in 1..Len(K(t, n)) PROVE K(w, n)[at(x)] = K(t, n)[x]
        <4>1. /\ at(x) \in 1..(Len(K(t, n)) + 1)
              /\ x < a => at(x) = x
              /\ ~(x < a) => at(x) = x + 1 /\ ~(x + 1 < a) /\ x + 1 # a /\ (x + 1) - 1 = x
          BY <1>3, <1>4
        <4>2. \A y \in 1..(Len(K(t, n)) + 1) :
                K(w, n)[y] = IF y < a THEN K(t, n)[y] ELSE IF y = a THEN k ELSE K(t, n)[y - 1]
          BY <1>4, <1>6 DEF Entered
        <4> HIDE DEF at
        <4> QED  BY <4>1, <4>2
      <3> HIDE DEF at
      <3>3. K(w, n)[at(i)] < K(w, n)[at(j)]
        BY <2>1, <3>1 DEF Sorted
      <3> QED  BY <3>2, <3>3
    <2> QED  BY <1>1, <1>3, <2>2, <2>3, SearchMisses
  <1>10. \A i, j \in 1..Len(S(w, n)) : S(w, n)[i] = S(w, n)[j] => i = j
    BY <1>1, <1>2, ChildOnce
  <1>11. \A i \in 1..Len(S(w, n)) : S(w, n)[i] # n
    BY <1>1, <1>2, ChildFacts
  <1>12. Owns(w, n)
    BY <1>1, <1>2 DEF TreeInv, Parents
  <1> QED  BY <1>2, <1>3, <1>4, <1>5, <1>6, <1>7, <1>8, <1>9, <1>10, <1>11, <1>12

\* In u, n has been divided into l and r, of which m is new, so that c of the
\* children it has in w are on the left.
HalfBuilt(t, w, u, n, m, l, r, c) ==
  /\ l # r /\ {l, r} = {n, m} /\ m \notin N(t) /\ m \in Nat \ {0}
  /\ Formed(u) /\ u.root = t.root /\ u.level = t.level /\ u.ok = TRUE
  /\ u.order = t.order /\ u.entries = t.entries
  /\ N(u) = N(t) \cup {l, r} /\ DOMAIN u.link = DOMAIN t.link \cup {m}
  /\ Spliced(t.link, u.link, n, m, l)
  /\ \A z \in N(t) \ {l, r} : Same(t, u, z)
  /\ ~is_leaf(u, l) /\ ~is_leaf(u, r)
  /\ Cut(K(w, n), c - 1, c, K(u, l), K(u, r))
  /\ Cut(S(w, n), c, c, S(u, l), S(u, r))
  /\ Owns(u, l) /\ Owns(u, r)
  /\ \A z \in N(t) : (\A i \in 1..Len(S(w, n)) : S(w, n)[i] # z) => P(u, z) = P(t, z) /\ X(u, z) = X(t, z)
  /\ P(u, m) = NULL

\* A full non-leaf is divided, and the middle key is on its way to the parent.
LEMMA InnerHalved ==
  ASSUME NEW t, NEW w, NEW n, NEW l1, NEW r1, NEW k, NEW a, NEW h, NEW R, NEW o, NEW e,
         NEW u, NEW m, NEW l, NEW r, NEW c, NEW F,
         Pending(t, w, n, l1, r1, k, a, h, R), Sound(t, o, e), Len(S(t, n)) = o, Filed(w) = F,
         HalfBuilt(t, w, u, n, m, l, r, c),
         c \in 2..o, o + 1 - c \in 2..o, c >= o \div 2, o + 1 - c >= o \div 2
  PROVE  Rising(parent_node_build(u, l, r, K(w, n)[c]), o, e, F, t.level, h[n] + 1)
  <1>1. /\ Formed(t) /\ n \in Inner(t) /\ PairIn(t, w, n, l1, r1, k, a) /\ TreeInv(w, h, R)
    BY DEF Pending
  <1>2. /\ N(w) = N(t) /\ n \in Inner(w) /\ K(w, n) \in Seq(Int)
        /\ Len(K(w, n)) = o /\ Len(S(w, n)) = o + 1
        /\ Len(S(t, n)) = Len(K(t, n)) + 1
        /\ \A i \in 1..Len(S(w, n)) : S(w, n)[i] # n
        /\ Owns(w, n)
    BY PendingFacts, ZenonT(60)
  <1>3. /\ Frame(t, w) /\ w.link = t.link /\ \A z \in N(t) \ {n} : Same(t, w, z)
        /\ \A z \in N(t) : P(w, z) = P(t, z)
        /\ \A z \in N(t) : (\A i \in a..Len(S(w, n)) : S(w, n)[i] # z) => X(w, z) = X(t, z)
    BY <1>1 DEF PairIn
  <1>4. /\ l # r /\ {l, r} = {n, m} /\ m \notin N(t) /\ m \in Nat \ {0}
        /\ Formed(u) /\ u.root = t.root /\ u.level = t.level /\ u.ok = TRUE
        /\ u.order = t.order /\ u.entries = t.entries
        /\ N(u) = N(t) \cup {l, r} /\ DOMAIN u.link = DOMAIN t.link \cup {m}
        /\ Spliced(t.link, u.link, n, m, l)
        /\ \A z \in N(t) \ {l, r} : Same(t, u, z)
        /\ ~is_leaf(u, l) /\ ~is_leaf(u, r)
        /\ Cut(K(w, n), c - 1, c, K(u, l), K(u, r))
        /\ Cut(S(w, n), c, c, S(u, l), S(u, r))
        /\ Owns(u, l) /\ Owns(u, r)
        /\ \A z \in N(t) : (\A i \in 1..Len(S(w, n)) : S(w, n)[i] # z) => P(u, z) = P(t, z) /\ X(u, z) = X(t, z)
        /\ P(u, m) = NULL
    BY DEF HalfBuilt
  <1>5. /\ e \in Nat \ {0} /\ t.entries = e /\ t.order = o /\ o \in Nat \ 0..2 /\ t.ok = TRUE
        /\ DOMAIN t.link = N(t) \cup ListHeads /\ \A z \in N(t) : Fill(t, z)
    BY DEF Sound
  <1>6. n \in N(t) /\ ~is_leaf(w, n) /\ n \in {l, r}
    BY <1>1, <1>2, <1>4 DEF Inner
  <1>7. Halves(w, u, n, l, r, c, K(w, n)[c])
    <2>1. u.root = w.root /\ u.level = w.level
      BY <1>3, <1>4 DEF Frame
    <2>2. n \in {l, r} /\ N(u) = N(w) \cup {l, r} /\ N(w) \cap {l, r} = {n}
      BY <1>2, <1>4, <1>6
    <2>3. c \in 1..Len(K(w, n))
      BY <1>2, <1>5
    <2>4. K(w, n)[c] \in Int
      BY <1>2, <2>3
    <2>5. \A z \in N(w) \ {l, r} : Same(w, u, z)
      <3> SUFFICES ASSUME NEW z \in N(w) \ {l, r} PROVE Same(w, u, z)
        OBVIOUS
      <3>1. Same(t, w, z) /\ Same(t, u, z)
        BY <1>2, <1>3, <1>4
      <3> QED  BY <3>1, SameSym, SameTrans
    <2>6. \A q \in Inner(u) \cap {l, r} : Owns(u, q)
      BY <1>4
    <2>7. ASSUME NEW z \in N(w), P(w, z) # n
          PROVE  P(u, z) = P(w, z) /\ X(u, z) = X(w, z)
      <3>1. \A i \in 1..Len(S(w, n)) : S(w, n)[i] # z
        BY <1>2, <2>7 DEF Owns
      <3>2. P(u, z) = P(t, z) /\ X(u, z) = X(t, z)
        BY <1>2, <1>4, <3>1
      <3>3. \A i \in a..Len(S(w, n)) : S(w, n)[i] # z
        <4>1. a \in Nat \ {0}
          BY DEF Pending
        <4> QED  BY <1>2, <1>5, <3>1, <4>1
      <3> QED  BY <1>2, <1>3, <3>2, <3>3
    <2>8. \A z \in {l, r} \ {n} : P(u, z) = NULL
      BY <1>4
    <2>9. \A z \in N(w) : P(w, z) # n => P(u, z) = P(w, z) /\ X(u, z) = X(w, z)
      BY <2>7
    <2>10. l # r /\ ~is_leaf(u, l) /\ ~is_leaf(u, r)
           /\ Cut(K(w, n), c - 1, c, K(u, l), K(u, r)) /\ Cut(S(w, n), c, c, S(u, l), S(u, r))
      BY <1>4
    <2> DEFINE sep == K(w, n)[c]
    <2>11. sep \in Int /\ sep = K(w, n)[c]
      BY <2>4
    <2> HIDE DEF sep
    <2>13. Ring(w.link) => Joined(w.link, u.link, n, l, r)
      BY <1>3, <1>4, <1>5, <1>6, SplicedJoined
    <2>12. Halves(w, u, n, l, r, c, sep)
      <3>1. is_leaf(w, n) = FALSE
        BY <1>6 DEF is_leaf
      <3> QED  BY <3>1, <2>1, <2>2, <2>3, <2>5, <2>6, <2>8, <2>9, <2>10, <2>11, <2>13 DEF Halves
    <2> QED  BY <2>12 DEF sep
  <1>8. FullFill(u, l) /\ FullFill(u, r)
    <2>1. Len(S(u, l)) = c /\ Len(S(u, r)) = o + 1 - c
      <3>1. Cut(S(w, n), c, c, S(u, l), S(u, r))
        BY <1>4
      <3>2. Len(S(u, l)) = c /\ Len(S(u, r)) = Len(S(w, n)) - c
        BY <3>1 DEF Cut
      <3>3. Len(S(w, n)) = o + 1 /\ o \in Nat
        BY <1>2, <1>5
      <3> QED  BY <3>2, <3>3
    <2> QED  BY <1>4, <1>5, <2>1 DEF FullFill
  <1>9. Sound(u, o, e)
    <2>1. u.ok = TRUE /\ u.order = o /\ u.entries = e
      BY <1>4, <1>5
    <2>2. DOMAIN u.link = N(u) \cup ListHeads
      BY <1>4, <1>5, <1>6
    <2>3. \A z \in N(u) : Fill(u, z)
      <3> SUFFICES ASSUME NEW z \in N(t) \ {l, r} PROVE Fill(u, z)
        BY <1>4, <1>8 DEF Fill
      <3>1. Fill(t, z) /\ Same(t, u, z) /\ u.root = t.root
        BY <1>4, <1>5
      <3> QED  BY <1>5, <2>1, <3>1 DEF Fill, FullFill, Same
    <2> QED  BY <1>5, <2>1, <2>2, <2>3 DEF Sound
  <1>12. InLists(w)
    BY DEF Pending
  <1>10. Rising(parent_node_build(u, l, r, K(w, n)[c]), o, e, Filed(w), w.level, h[n] + 1)
    BY <1>1, <1>4, <1>6, <1>7, <1>8, <1>9, <1>12, Ascend
  <1>11. w.level = t.level
    BY <1>3 DEF Frame
  <1> QED  BY <1>10, <1>11

\* A non-leaf with room takes them, and that is all.
LEMMA InnerSimple ==
  ASSUME NEW t, NEW w, NEW n, NEW l1, NEW r1, NEW k, NEW a, NEW h, NEW R, NEW o, NEW e,
         Pending(t, w, n, l1, r1, k, a, h, R), Sound(t, o, e), Len(S(t, n)) # o
  PROVE  Ended(Done(w), o, e, Filed(w))
  <1>1. /\ Formed(t) /\ n \in Inner(t) /\ PairIn(t, w, n, l1, r1, k, a) /\ TreeInv(w, h, R)
        /\ InLists(w)
    BY DEF Pending
  <1>2. /\ N(w) = N(t) /\ n \in Inner(w) /\ Len(S(w, n)) = Len(S(t, n)) + 1 /\ Len(S(t, n)) \in Nat
    BY PendingFacts
  <1>3. /\ Frame(t, w) /\ w.link = t.link /\ \A z \in N(t) \ {n} : Same(t, w, z)
    BY <1>1 DEF PairIn
  <1>4. /\ e \in Nat \ {0} /\ t.entries = e /\ t.order = o /\ o \in Nat \ 0..2 /\ t.ok = TRUE
        /\ DOMAIN t.link = N(t) \cup ListHeads /\ \A z \in N(t) : Fill(t, z)
    BY DEF Sound
  <1>5. w.entries = e /\ w.order = o /\ w.ok = TRUE /\ w.root = t.root
    BY <1>3, <1>4 DEF Frame
  <1>6. n \in N(t) /\ ~is_leaf(t, n) /\ ~is_leaf(w, n)
    BY <1>1, <1>2 DEF Inner
  <1>7. Fill(w, n)
    <2>1. Fill(t, n)
      BY <1>4, <1>6
    <2>2. CASE FullFill(t, n)
      <3>1. Len(S(w, n)) \in 2..o /\ Len(S(w, n)) >= o \div 2
        BY <1>2, <1>4, <1>6, <2>2 DEF FullFill
      <3> QED  BY <1>5, <1>6, <3>1 DEF Fill, FullFill
    <2>3. CASE n = t.root /\ Len(S(t, n)) \in 2..o
      <3>1. Len(S(w, n)) \in 2..o
        BY <1>2, <1>4, <2>3
      <3> QED  BY <1>5, <1>6, <2>3, <3>1 DEF Fill
    <2> QED  BY <1>4, <1>6, <2>1, <2>2, <2>3 DEF Fill
  <1>8. ASSUME NEW z \in N(t) \ {n} PROVE Fill(w, z)
    <2>1. Fill(t, z) /\ Same(t, w, z)
      BY <1>3, <1>4
    <2> QED  BY <1>4, <1>5, <2>1 DEF Fill, FullFill, Same
  <1>9. Sound(w, o, e)
    BY <1>2, <1>3, <1>4, <1>5, <1>7, <1>8 DEF Sound
  <1> QED  BY <1>1, <1>9 DEF Ended, Done

\* All children of p are told.
Adopted(g, u, p, s) == u = Adopt(g, p, Indices(s))

\* Every child of u knows it is one.
LEMMA AdoptAll ==
  ASSUME NEW g, NEW u, NEW p, NEW s, Adopted(g, u, p, s), Formed(g), p \in Inner(g), s = S(g, p),
         \A i, j \in 1..Len(S(g, p)) : S(g, p)[i] = S(g, p)[j] => i = j
  PROVE  /\ Frame(g, u) /\ u.link = g.link /\ N(u) = N(g) /\ Formed(u)
         /\ \A z \in N(g) : Same(g, u, z)
         /\ \A z \in N(g) : (\A i \in 1..Len(S(g, p)) : S(g, p)[i] # z) => P(u, z) = P(g, z) /\ X(u, z) = X(g, z)
         /\ Owns(u, p)
  <1> DEFINE I == Indices(S(g, p))
             a == Adopt(g, p, I)
  <1>1. /\ DOMAIN g = Fields /\ p \in N(g) /\ ~is_leaf(g, p)
        /\ s \in Seq(N(g)) /\ Len(s) \in Nat
        /\ \A z \in N(g) : /\ {"type", "parent", "parent_key_idx", "key"} \subseteq DOMAIN g.node[z]
                           /\ NodeFormed(g, z) /\ P(g, z) \in N(g) \cup {NULL} /\ X(g, z) \in Int
    BY FormedFields DEF Inner
  <1>2. I = 0..(Len(s) - 1)
    BY DEF Indices
  <1>3. \A i \in I : At(s, i) \in N(g) /\ i \in Int
    BY <1>1, <1>2 DEF At
  <1>4. \A i \in I, j \in I : At(s, i) = At(s, j) => i = j
    <2> SUFFICES ASSUME NEW i \in I, NEW j \in I, At(s, i) = At(s, j) PROVE i = j
      OBVIOUS
    <2>1. i + 1 \in 1..Len(s) /\ j + 1 \in 1..Len(s) /\ i \in Int /\ j \in Int
      BY <1>1, <1>2
    <2>2. s[i + 1] = s[j + 1]
      BY DEF At
    <2>3. i + 1 = j + 1
      BY <2>1, <2>2
    <2> QED  BY <2>1, <2>3
  <1> HIDE DEF I
  <1>5. /\ Frame(g, a) /\ a.link = g.link /\ N(a) = N(g)
        /\ \A z \in N(g) : Alike(g, a, z)
        /\ \A z \in N(g) : (\A i \in I : At(s, i) # z) => a.node[z] = g.node[z]
        /\ \A i \in I : P(a, At(s, i)) = p /\ X(a, At(s, i)) = i - 1
    BY <1>1, <1>3, <1>4, AdoptEffect
  <1> HIDE DEF a
  <1>6. u = a
    BY DEF Adopted, a, I
  <1>7. ASSUME NEW z \in N(g)
        PROVE  /\ P(a, z) \in N(a) \cup {NULL} /\ X(a, z) \in Int
               /\ (\A i \in 1..Len(s) : s[i] # z) => P(a, z) = P(g, z) /\ X(a, z) = X(g, z)
    <2>1. CASE \E i \in I : At(s, i) = z
      <3>1. PICK i \in I : At(s, i) = z
        BY <2>1
      <3>2. P(a, z) = p /\ X(a, z) = i - 1 /\ i \in Int
        BY <1>3, <1>5, <3>1
      <3>3. i + 1 \in 1..Len(s) /\ s[i + 1] = z
        BY <1>1, <1>2, <3>1 DEF At
      <3> QED  BY <1>1, <1>5, <3>2, <3>3
    <2>2. CASE \A i \in I : At(s, i) # z
      <3>1. P(a, z) = P(g, z) /\ X(a, z) = X(g, z)
        BY <1>5, <2>2 DEF P, X
      <3> QED  BY <1>1, <1>5, <3>1
    <2> QED  BY <2>1, <2>2
  <1>8. \A z \in N(g) : NodeFormed(a, z) /\ Same(g, a, z)
    BY <1>1, <1>5, <1>7, AlikeFormed
  <1>9. Formed(a)
    <2>1. /\ N(g) \subseteq Nat \ {0} /\ IsFiniteSet(N(g)) /\ g.level \in Nat /\ g.root \in N(g)
          /\ DOMAIN g = {"order", "entries", "level", "root", "node", "link", "ok"}
      BY DEF Formed
    <2>2. /\ DOMAIN a = DOMAIN g /\ a.level = g.level /\ a.root = g.root
      BY <1>5 DEF Frame
    <2> QED  BY <1>5, <1>8, <2>1, <2>2 DEF Formed
  <1>10. Owns(a, p)
    <2>1. S(a, p) = s
      BY <1>1, <1>8 DEF Same
    <2> SUFFICES ASSUME NEW i \in 1..Len(s) PROVE P(a, s[i]) = p /\ X(a, s[i]) = i - 2
      BY <2>1 DEF Owns
    <2>2. i - 1 \in I /\ (i - 1) + 1 = i /\ (i - 1) - 1 = i - 2
      BY <1>1, <1>2
    <2>3. At(s, i - 1) = s[i]
      BY <2>2 DEF At
    <2> QED  BY <1>5, <2>2, <2>3
  <1> QED  BY <1>5, <1>6, <1>7, <1>8, <1>9, <1>10

\* In g, n and the new m have the contents they are to have; nobody has been told.
TwoInner(t, g, n, m, kn, sn, km, sm) ==
  /\ m \in Nat \ {0} /\ m \notin N(t)
  /\ DOMAIN g = Fields /\ g.root = t.root /\ g.level = t.level /\ g.ok = TRUE
  /\ g.order = t.order /\ g.entries = t.entries
  /\ N(g) = N(t) \cup {n, m} /\ DOMAIN g.link = DOMAIN t.link \cup {m}
  /\ \A z \in N(t) \ {n, m} : g.node[z] = t.node[z]
  /\ InnerRec(g.node[n], kn, sn, P(t, n), X(t, n)) /\ InnerRec(g.node[m], km, sm, NULL, -1)
  /\ kn \in Seq(Int) /\ sn \in Seq(N(t)) /\ Len(sn) = Len(kn) + 1
  /\ km \in Seq(Int) /\ sm \in Seq(N(t)) /\ Len(sm) = Len(km) + 1

\* The tree with the two halves is well formed.
LEMMA TwoInnerFormed ==
  ASSUME NEW t, NEW g, NEW n, NEW m, NEW kn, NEW sn, NEW km, NEW sm,
         TwoInner(t, g, n, m, kn, sn, km, sm), Formed(t), n \in Inner(t)
  PROVE  /\ Formed(g) /\ n # m /\ n \in N(t) /\ n \in Inner(g) /\ m \in Inner(g)
         /\ K(g, n) = kn /\ S(g, n) = sn /\ K(g, m) = km /\ S(g, m) = sm
         /\ P(g, n) = P(t, n) /\ X(g, n) = X(t, n) /\ P(g, m) = NULL
         /\ \A z \in N(t) \ {n} : Same(t, g, z) /\ P(g, z) = P(t, z) /\ X(g, z) = X(t, z)
  <1>1. /\ m \in Nat \ {0} /\ m \notin N(t)
        /\ DOMAIN g = Fields /\ g.root = t.root /\ g.level = t.level
        /\ N(g) = N(t) \cup {n, m}
        /\ \A z \in N(t) \ {n, m} : g.node[z] = t.node[z]
        /\ InnerRec(g.node[n], kn, sn, P(t, n), X(t, n)) /\ InnerRec(g.node[m], km, sm, NULL, -1)
        /\ kn \in Seq(Int) /\ sn \in Seq(N(t)) /\ Len(sn) = Len(kn) + 1
        /\ km \in Seq(Int) /\ sm \in Seq(N(t)) /\ Len(sm) = Len(km) + 1
    BY DEF TwoInner
  <1>2. /\ n \in N(t) /\ n # m /\ n \in Nat \ {0} /\ P(t, n) \in N(g) \cup {NULL} /\ X(t, n) \in Int
        /\ -1 \in Int
    <2>1. n \in N(t) /\ N(t) \subseteq Nat \ {0}
      BY DEF Inner, Formed
    <2>2. P(t, n) \in N(t) \cup {NULL} /\ X(t, n) \in Int
      BY <2>1, FormedFields
    <2> QED  BY <1>1, <2>1, <2>2
  <1>3. sn \in Seq(N(g)) /\ sm \in Seq(N(g))
    BY <1>1, SeqWider
  <1>4. /\ NodeFormed(g, n) /\ ~is_leaf(g, n) /\ K(g, n) = kn /\ S(g, n) = sn
        /\ P(g, n) = P(t, n) /\ X(g, n) = X(t, n)
    BY <1>1, <1>2, <1>3, InnerRecFormed
  <1>5. /\ NodeFormed(g, m) /\ ~is_leaf(g, m) /\ K(g, m) = km /\ S(g, m) = sm
        /\ P(g, m) = NULL
    <2>1. /\ km \in Seq(Int) /\ sm \in Seq(N(g)) /\ Len(sm) = Len(km) + 1
          /\ NULL \in N(g) \cup {NULL} /\ -1 \in Int
          /\ InnerRec(g.node[m], km, sm, NULL, -1)
      BY <1>1, <1>2, <1>3
    <2> QED  BY <2>1, InnerRecFormed
  <1>6. Grows(t, g, n, m)
    BY <1>1, <1>2, <1>4, <1>5 DEF Grows
  <1>7. /\ Formed(g)
        /\ \A z \in N(t) \ {n, m} : Same(t, g, z) /\ P(g, z) = P(t, z) /\ X(g, z) = X(t, z)
    BY <1>6, FormedGrows
  <1>8. N(t) \ {n, m} = N(t) \ {n}
    BY <1>1
  <1> QED  BY <1>1, <1>2, <1>4, <1>5, <1>7, <1>8 DEF Inner

\* The new half is on the left, and the children of both are told.
LEMMA HalvesLeft ==
  ASSUME NEW t, NEW w, NEW n, NEW l1, NEW r1, NEW k, NEW a, NEW h, NEW R,
         NEW g, NEW m, NEW kn, NEW sn, NEW km, NEW sm, NEW b, NEW u, NEW c,
         Pending(t, w, n, l1, r1, k, a, h, R), TwoInner(t, g, n, m, kn, sn, km, sm),
         Adopted(g, b, m, sm), Adopted(b, u, n, sn), c \in 0..Len(S(w, n)),
         Spliced(t.link, g.link, n, m, m),
         Cut(K(w, n), c - 1, c, km, kn), Cut(S(w, n), c, c, sm, sn)
  PROVE  HalfBuilt(t, w, u, n, m, m, n, c)
  <1>1. /\ N(w) = N(t) /\ S(w, n) \in Seq(N(t))
        /\ \A i, j \in 1..Len(S(w, n)) : S(w, n)[i] = S(w, n)[j] => i = j
        /\ \A i \in 1..Len(S(w, n)) : S(w, n)[i] # n
    BY PendingFacts, SMTT(60)
  <1>2. Formed(t) /\ n \in Inner(t)
    BY DEF Pending
  <1>3. /\ Formed(g) /\ n # m /\ n \in N(t) /\ n \in Inner(g) /\ m \in Inner(g)
        /\ K(g, n) = kn /\ S(g, n) = sn /\ K(g, m) = km /\ S(g, m) = sm
        /\ P(g, n) = P(t, n) /\ X(g, n) = X(t, n) /\ P(g, m) = NULL
        /\ \A z \in N(t) \ {n} : Same(t, g, z) /\ P(g, z) = P(t, z) /\ X(g, z) = X(t, z)
    BY <1>2, TwoInnerFormed
  <1>4. /\ m \in Nat \ {0} /\ m \notin N(t) /\ g.root = t.root /\ g.level = t.level /\ g.ok = TRUE
        /\ g.order = t.order /\ g.entries = t.entries
        /\ N(g) = N(t) \cup {n, m} /\ DOMAIN g.link = DOMAIN t.link \cup {m}
    BY DEF TwoInner
  <1> DEFINE s == S(w, n)
  <1>5. /\ Len(sm) = c /\ Len(sn) = Len(s) - c /\ Len(s) \in Nat /\ c \in Nat
        /\ \A i \in 1..c : sm[i] = s[i] /\ i \in 1..Len(s)
        /\ \A i \in 1..(Len(s) - c) : sn[i] = s[c + i] /\ c + i \in 1..Len(s)
    <2>1. Len(s) \in Nat /\ c \in Nat /\ c \in 0..Len(s)
      BY <1>1
    <2>2. /\ Len(sm) = c /\ Len(sn) = Len(s) - c
          /\ \A i \in 1..c : sm[i] = s[i]
          /\ \A i \in 1..(Len(s) - c) : sn[i] = s[c + i]
      BY DEF Cut
    <2> HIDE DEF s
    <2>3. \A i \in 1..c : i \in 1..Len(s)
      BY <2>1
    <2>4. \A i \in 1..(Len(s) - c) : c + i \in 1..Len(s)
      BY <2>1
    <2> QED  BY <2>1, <2>2, <2>3, <2>4
  <1>6. \A i, j \in 1..Len(sm) : sm[i] = sm[j] => i = j
    BY <1>1, <1>5
  <1>7. \A i, j \in 1..Len(sn) : sn[i] = sn[j] => i = j
    <2> SUFFICES ASSUME NEW i \in 1..Len(sn), NEW j \in 1..Len(sn), sn[i] = sn[j] PROVE i = j
      OBVIOUS
    <2>1. c + i \in 1..Len(s) /\ c + j \in 1..Len(s) /\ s[c + i] = s[c + j]
      BY <1>5
    <2>2. c + i = c + j
      BY <1>1, <2>1
    <2> QED  BY <1>5, <2>2
  <1>8. \A i \in 1..Len(sm), j \in 1..Len(sn) : sm[i] # sn[j]
    <2> SUFFICES ASSUME NEW i \in 1..Len(sm), NEW j \in 1..Len(sn), sm[i] = sn[j] PROVE FALSE
      OBVIOUS
    <2>1. i \in 1..c /\ i \in 1..Len(s) /\ c + j \in 1..Len(s) /\ s[i] = s[c + j] /\ j > 0
      BY <1>5
    <2>2. i = c + j
      BY <1>1, <2>1
    <2> QED  BY <1>5, <2>1, <2>2
  <1> HIDE DEF s
  <1>9. /\ Frame(g, b) /\ b.link = g.link /\ N(b) = N(g) /\ Formed(b)
        /\ \A z \in N(g) : Same(g, b, z)
        /\ \A z \in N(g) : (\A i \in 1..Len(sm) : sm[i] # z) => P(b, z) = P(g, z) /\ X(b, z) = X(g, z)
        /\ Owns(b, m)
    BY <1>3, <1>6, AdoptAll
  <1>10. n \in Inner(b) /\ m \in Inner(b) /\ S(b, n) = sn /\ S(b, m) = sm /\ K(b, n) = kn /\ K(b, m) = km
    BY <1>3, <1>9 DEF Inner, Same
  <1>11. /\ Frame(b, u) /\ u.link = b.link /\ N(u) = N(b) /\ Formed(u)
         /\ \A z \in N(b) : Same(b, u, z)
         /\ \A z \in N(b) : (\A i \in 1..Len(sn) : sn[i] # z) => P(u, z) = P(b, z) /\ X(u, z) = X(b, z)
         /\ Owns(u, n)
    BY <1>7, <1>9, <1>10, AdoptAll
  <1>12. n \in Inner(u) /\ m \in Inner(u) /\ S(u, n) = sn /\ S(u, m) = sm /\ K(u, n) = kn /\ K(u, m) = km
    BY <1>10, <1>11 DEF Inner, Same
  <1>13. Owns(u, m)
    <2> SUFFICES ASSUME NEW i \in 1..Len(sm) PROVE P(u, sm[i]) = m /\ X(u, sm[i]) = i - 2
      BY <1>12 DEF Owns
    <2>1. P(b, sm[i]) = m /\ X(b, sm[i]) = i - 2
      BY <1>9, <1>10 DEF Owns
    <2>2. sm[i] \in N(b) /\ \A j \in 1..Len(sn) : sn[j] # sm[i]
      BY <1>8, <1>9, <1>10, FormedFields
    <2> QED  BY <1>11, <2>1, <2>2
  <1>14. ASSUME NEW z \in N(g), \A i \in 1..Len(s) : s[i] # z
         PROVE  P(u, z) = P(g, z) /\ X(u, z) = X(g, z)
    <2>1. /\ \A i \in 1..Len(sm) : sm[i] # z
          /\ \A i \in 1..Len(sn) : sn[i] # z
      BY <1>5, <1>14
    <2> QED  BY <1>9, <1>11, <2>1
  <1>15. \A z \in N(t) : (\A i \in 1..Len(s) : s[i] # z) => P(u, z) = P(t, z) /\ X(u, z) = X(t, z)
    BY <1>3, <1>4, <1>14
  <1>16. P(u, m) = NULL
    <2>1. \A i \in 1..Len(s) : s[i] # m
      BY <1>1, <1>4 DEF s
    <2> QED  BY <1>3, <1>4, <1>14, <2>1
  <1>17. \A z \in N(t) \ {m, n} : Same(t, u, z)
    <2> SUFFICES ASSUME NEW z \in N(t) \ {m, n} PROVE Same(t, u, z)
      OBVIOUS
    <2>1. Same(t, g, z) /\ Same(g, b, z) /\ Same(b, u, z)
      BY <1>3, <1>4, <1>9, <1>11
    <2> QED  BY <2>1, SameTrans
  <1>18. /\ u.root = t.root /\ u.level = t.level /\ u.ok = TRUE
         /\ u.order = t.order /\ u.entries = t.entries
    BY <1>4, <1>9, <1>11 DEF Frame
  <1>19. N(u) = N(t) \cup {m, n} /\ DOMAIN u.link = DOMAIN t.link \cup {m}
    BY <1>4, <1>9, <1>11
  <1>20. ~is_leaf(u, m) /\ ~is_leaf(u, n)
    BY <1>12 DEF Inner
  <1>21. Cut(K(w, n), c - 1, c, K(u, m), K(u, n)) /\ Cut(S(w, n), c, c, S(u, m), S(u, n))
    BY <1>12
  <1>22. Owns(u, n) /\ Formed(u) /\ {m, n} = {n, m} /\ Spliced(t.link, u.link, n, m, m)
    BY <1>9, <1>11
  <1> QED
    BY <1>3, <1>4, <1>13, <1>15, <1>16, <1>17, <1>18, <1>19, <1>20, <1>21, <1>22 DEF HalfBuilt, s

\* The new half is on the right, and its children are told; those on the left
\* are where they were.
LEMMA HalvesRight ==
  ASSUME NEW t, NEW w, NEW n, NEW l1, NEW r1, NEW k, NEW a, NEW h, NEW R,
         NEW g, NEW m, NEW kn, NEW sn, NEW km, NEW sm, NEW u, NEW c,
         Pending(t, w, n, l1, r1, k, a, h, R), TwoInner(t, g, n, m, kn, sn, km, sm),
         Adopted(g, u, m, sm), c \in 0..(a - 1), c \in 0..Len(S(w, n)),
         Spliced(t.link, g.link, n, m, n),
         Cut(K(w, n), c - 1, c, kn, km), Cut(S(w, n), c, c, sn, sm)
  PROVE  HalfBuilt(t, w, u, n, m, n, m, c)
  <1>1. /\ N(w) = N(t) /\ S(w, n) \in Seq(N(t)) /\ a \in Nat
        /\ \A i, j \in 1..Len(S(w, n)) : S(w, n)[i] = S(w, n)[j] => i = j
        /\ \A i \in 1..Len(S(w, n)) : S(w, n)[i] # n
        /\ Owns(w, n)
    BY PendingFacts, SMTT(60)
  <1>2. Formed(t) /\ n \in Inner(t) /\ PairIn(t, w, n, l1, r1, k, a)
    BY DEF Pending
  <1>3. /\ Formed(g) /\ n # m /\ n \in N(t) /\ n \in Inner(g) /\ m \in Inner(g)
        /\ K(g, n) = kn /\ S(g, n) = sn /\ K(g, m) = km /\ S(g, m) = sm
        /\ P(g, n) = P(t, n) /\ X(g, n) = X(t, n) /\ P(g, m) = NULL
        /\ \A z \in N(t) \ {n} : Same(t, g, z) /\ P(g, z) = P(t, z) /\ X(g, z) = X(t, z)
    BY <1>2, TwoInnerFormed
  <1>4. /\ m \in Nat \ {0} /\ m \notin N(t) /\ g.root = t.root /\ g.level = t.level /\ g.ok = TRUE
        /\ g.order = t.order /\ g.entries = t.entries
        /\ N(g) = N(t) \cup {n, m} /\ DOMAIN g.link = DOMAIN t.link \cup {m}
    BY DEF TwoInner
  <1> DEFINE s == S(w, n)
  <1>5. /\ Len(sn) = c /\ Len(sm) = Len(s) - c /\ Len(s) \in Nat /\ c \in Nat
        /\ \A i \in 1..c : sn[i] = s[i] /\ i \in 1..Len(s)
        /\ \A i \in 1..(Len(s) - c) : sm[i] = s[c + i] /\ c + i \in 1..Len(s)
    <2>1. Len(s) \in Nat /\ c \in Nat /\ c \in 0..Len(s)
      BY <1>1
    <2>2. /\ Len(sn) = c /\ Len(sm) = Len(s) - c
          /\ \A i \in 1..c : sn[i] = s[i]
          /\ \A i \in 1..(Len(s) - c) : sm[i] = s[c + i]
      BY DEF Cut
    <2> HIDE DEF s
    <2>3. \A i \in 1..c : i \in 1..Len(s)
      BY <2>1
    <2>4. \A i \in 1..(Len(s) - c) : c + i \in 1..Len(s)
      BY <2>1
    <2> QED  BY <2>1, <2>2, <2>3, <2>4
  <1>7. \A i, j \in 1..Len(sm) : sm[i] = sm[j] => i = j
    <2> SUFFICES ASSUME NEW i \in 1..Len(sm), NEW j \in 1..Len(sm), sm[i] = sm[j] PROVE i = j
      OBVIOUS
    <2>1. c + i \in 1..Len(s) /\ c + j \in 1..Len(s) /\ s[c + i] = s[c + j]
      BY <1>5
    <2>2. c + i = c + j
      BY <1>1, <2>1
    <2> QED  BY <1>5, <2>2
  <1>8. \A i \in 1..Len(sn), j \in 1..Len(sm) : sn[i] # sm[j]
    <2> SUFFICES ASSUME NEW i \in 1..Len(sn), NEW j \in 1..Len(sm), sn[i] = sm[j] PROVE FALSE
      OBVIOUS
    <2>1. i \in 1..c /\ i \in 1..Len(s) /\ c + j \in 1..Len(s) /\ s[i] = s[c + j] /\ j > 0
      BY <1>5
    <2>2. i = c + j
      BY <1>1, <2>1
    <2> QED  BY <1>5, <2>1, <2>2
  <1>9. /\ Frame(g, u) /\ u.link = g.link /\ N(u) = N(g) /\ Formed(u)
        /\ \A z \in N(g) : Same(g, u, z)
        /\ \A z \in N(g) : (\A i \in 1..Len(sm) : sm[i] # z) => P(u, z) = P(g, z) /\ X(u, z) = X(g, z)
        /\ Owns(u, m)
    <2> HIDE DEF s
    <2> QED  BY <1>3, <1>7, AdoptAll
  <1>10. n \in Inner(u) /\ m \in Inner(u) /\ S(u, n) = sn /\ S(u, m) = sm /\ K(u, n) = kn /\ K(u, m) = km
    BY <1>3, <1>9 DEF Inner, Same
  <1>14. ASSUME NEW z \in N(g), \A i \in 1..Len(s) : s[i] # z
         PROVE  P(u, z) = P(g, z) /\ X(u, z) = X(g, z)
    <2>1. /\ \A i \in 1..Len(sm) : sm[i] # z
      BY <1>5, <1>14
    <2> QED  BY <1>9, <2>1
  <1>13. Owns(u, n)
    <2> SUFFICES ASSUME NEW i \in 1..Len(sn) PROVE P(u, sn[i]) = n /\ X(u, sn[i]) = i - 2
      BY <1>10 DEF Owns
    <2> DEFINE z == sn[i]
    <2>1. i \in 1..c /\ i \in 1..Len(s) /\ z = s[i] /\ z \in N(t) /\ z # n /\ i < a /\ i \in Nat
      BY <1>1, <1>5
    <2>2. P(w, z) = n /\ X(w, z) = i - 2
      BY <1>1, <2>1 DEF Owns
    <2>3. \A j \in a..Len(s) : s[j] # z
      <3> SUFFICES ASSUME NEW j \in a..Len(s), s[j] = z PROVE FALSE
        OBVIOUS
      <3>1. j \in 1..Len(s) /\ i < j
        BY <1>1, <1>5, <2>1
      <3> QED  BY <1>1, <2>1, <3>1
    <2>4. P(t, z) = n /\ X(t, z) = i - 2
      <3>1. /\ \A y \in N(t) : P(w, y) = P(t, y)
            /\ \A y \in N(t) : (\A j \in a..Len(S(w, n)) : S(w, n)[j] # y) => X(w, y) = X(t, y)
        BY <1>2 DEF PairIn
      <3> QED  BY <2>1, <2>2, <2>3, <3>1
    <2>5. P(g, z) = n /\ X(g, z) = i - 2
      BY <1>3, <2>1, <2>4
    <2>6. z \in N(g) /\ \A j \in 1..Len(sm) : sm[j] # z
      BY <1>4, <1>8, <2>1
    <2> HIDE DEF z, s
    <2>7. P(u, z) = n /\ X(u, z) = i - 2
      BY <1>9, <2>5, <2>6
    <2> QED  BY <2>7 DEF z
  <1> HIDE DEF s
  <1>15. \A z \in N(t) : (\A i \in 1..Len(s) : s[i] # z) => P(u, z) = P(t, z) /\ X(u, z) = X(t, z)
    BY <1>3, <1>4, <1>14
  <1>16. P(u, m) = NULL
    <2>1. \A i \in 1..Len(s) : s[i] # m
      BY <1>1, <1>4 DEF s
    <2> QED  BY <1>3, <1>4, <1>14, <2>1
  <1>17. \A z \in N(t) \ {n, m} : Same(t, u, z)
    <2> SUFFICES ASSUME NEW z \in N(t) \ {n, m} PROVE Same(t, u, z)
      OBVIOUS
    <2>1. Same(t, g, z) /\ Same(g, u, z)
      BY <1>3, <1>4, <1>9
    <2> QED  BY <2>1, SameTrans
  <1>18. /\ u.root = t.root /\ u.level = t.level /\ u.ok = TRUE
         /\ u.order = t.order /\ u.entries = t.entries
    BY <1>4, <1>9 DEF Frame
  <1>19. N(u) = N(t) \cup {n, m} /\ DOMAIN u.link = DOMAIN t.link \cup {m}
    BY <1>4, <1>9
  <1>20. ~is_leaf(u, m) /\ ~is_leaf(u, n)
    BY <1>10 DEF Inner
  <1>21. Cut(K(w, n), c - 1, c, K(u, n), K(u, m)) /\ Cut(S(w, n), c, c, S(u, n), S(u, m))
    BY <1>10
  <1>22. Owns(u, m) /\ Formed(u) /\ Spliced(t.link, u.link, n, m, n)
    BY <1>9
  <1> QED
    BY <1>3, <1>4, <1>13, <1>15, <1>16, <1>17, <1>18, <1>19, <1>20, <1>21, <1>22 DEF HalfBuilt, s

\* Setting a mark that is set changes nothing.
LEMMA MarkKept ==
  ASSUME NEW t, NEW w, NEW u, NEW u2, NEW n, NEW m, NEW l, NEW r, NEW c,
         HalfBuilt(t, w, u, n, m, l, r, c), u2 = [u EXCEPT !.ok = TRUE]
  PROVE  HalfBuilt(t, w, u2, n, m, l, r, c)
  <1>1. /\ l # r /\ {l, r} = {n, m} /\ m \notin N(t) /\ m \in Nat \ {0}
        /\ Formed(u) /\ u.root = t.root /\ u.level = t.level /\ u.ok = TRUE
        /\ u.order = t.order /\ u.entries = t.entries
        /\ N(u) = N(t) \cup {l, r} /\ DOMAIN u.link = DOMAIN t.link \cup {m}
        /\ Spliced(t.link, u.link, n, m, l)
        /\ \A z \in N(t) \ {l, r} : Same(t, u, z)
        /\ ~is_leaf(u, l) /\ ~is_leaf(u, r)
        /\ Cut(K(w, n), c - 1, c, K(u, l), K(u, r))
        /\ Cut(S(w, n), c, c, S(u, l), S(u, r))
        /\ Owns(u, l) /\ Owns(u, r)
        /\ \A z \in N(t) : (\A i \in 1..Len(S(w, n)) : S(w, n)[i] # z) => P(u, z) = P(t, z) /\ X(u, z) = X(t, z)
        /\ P(u, m) = NULL
    BY DEF HalfBuilt
  <1>2. DOMAIN u = Fields
    BY <1>1, FormedFields
  <1>3. /\ DOMAIN u2 = Fields /\ u2.root = u.root /\ u2.level = u.level /\ u2.ok = TRUE
        /\ u2.order = u.order /\ u2.entries = u.entries /\ u2.node = u.node /\ u2.link = u.link
    BY <1>2 DEF Fields
  <1>4. /\ N(u2) = N(u)
        /\ \A z : /\ is_leaf(u2, z) = is_leaf(u, z) /\ K(u2, z) = K(u, z) /\ S(u2, z) = S(u, z)
                  /\ D(u2, z) = D(u, z) /\ P(u2, z) = P(u, z) /\ X(u2, z) = X(u, z)
    BY <1>3 DEF N, is_leaf, K, S, D, P, X
  <1>5. Formed(u2)
    <2>1. ASSUME NEW z \in N(u) PROVE NodeFormed(u2, z)
      <3>1. NodeFormed(u, z)
        BY <1>1 DEF Formed
      <3> QED  BY <1>3, <1>4, <3>1 DEF NodeFormed
    <2>2. /\ N(u) \subseteq Nat \ {0} /\ IsFiniteSet(N(u)) /\ u.level \in Nat /\ u.root \in N(u)
      BY <1>1 DEF Formed
    <2> QED  BY <1>3, <1>4, <2>1, <2>2 DEF Formed, Fields
  <1>6. \A z \in N(t) \ {l, r} : Same(t, u2, z)
    BY <1>1, <1>4 DEF Same
  <1>7. Owns(u2, l) /\ Owns(u2, r)
    <2>1. ASSUME NEW q, Owns(u, q) PROVE Owns(u2, q)
      <3>1. /\ \A i \in 1..Len(S(u, q)) : P(u, S(u, q)[i]) = q /\ X(u, S(u, q)[i]) = i - 2
            /\ S(u2, q) = S(u, q)
            /\ \A z : P(u2, z) = P(u, z) /\ X(u2, z) = X(u, z)
        BY <1>4, <2>1 DEF Owns
      <3>2. \A i \in 1..Len(S(u2, q)) : P(u2, S(u2, q)[i]) = q /\ X(u2, S(u2, q)[i]) = i - 2
        BY <3>1
      <3> QED  BY <3>2 DEF Owns
    <2> QED  BY <1>1, <2>1
  <1>9. Spliced(t.link, u2.link, n, m, l)
    BY <1>1, <1>3
  <1>8. /\ Cut(K(w, n), c - 1, c, K(u2, l), K(u2, r))
        /\ Cut(S(w, n), c, c, S(u2, l), S(u2, r))
        /\ ~is_leaf(u2, l) /\ ~is_leaf(u2, r) /\ P(u2, m) = NULL
        /\ \A z \in N(t) : (\A i \in 1..Len(S(w, n)) : S(w, n)[i] # z) => P(u2, z) = P(t, z) /\ X(u2, z) = X(t, z)
    BY <1>1, <1>4
  <1> QED  BY <1>1, <1>3, <1>4, <1>5, <1>6, <1>7, <1>8, <1>9 DEF HalfBuilt

\* What the records of a split are made of.
Arrays(t, w, n, c, kl, sl, kr, sr) ==
  /\ Cut(K(w, n), c - 1, c, kl, kr) /\ Cut(S(w, n), c, c, sl, sr)
  /\ kl \in Seq(Int) /\ kr \in Seq(Int) /\ sl \in Seq(N(t)) /\ sr \in Seq(N(t))
  /\ Len(sl) = Len(kl) + 1 /\ Len(sr) = Len(kr) + 1

\* The lengths of the two halves.
LEMMA ArraysFact ==
  ASSUME NEW t, NEW w, NEW n, NEW l1, NEW r1, NEW k, NEW a, NEW h, NEW R,
         NEW c, NEW kl, NEW sl, NEW kr, NEW sr,
         Pending(t, w, n, l1, r1, k, a, h, R), c \in 1..Len(S(t, n)),
         Cut(K(w, n), c - 1, c, kl, kr), Cut(S(w, n), c, c, sl, sr),
         kl \in Seq(Int), kr \in Seq(Int), sl \in Seq(N(t)), sr \in Seq(N(t))
  PROVE  Arrays(t, w, n, c, kl, sl, kr, sr)
  <1>1. Len(K(w, n)) = Len(S(t, n)) /\ Len(S(w, n)) = Len(S(t, n)) + 1 /\ S(t, n) \in Seq(N(t))
    BY PendingFacts
  <1>2. Len(kl) = c - 1 /\ Len(kr) = Len(K(w, n)) - c /\ Len(sl) = c /\ Len(sr) = Len(S(w, n)) - c
    BY DEF Cut
  <1>3. Len(S(t, n)) \in Nat
    BY <1>1
  <1>4. Len(sl) = Len(kl) + 1 /\ Len(sr) = Len(kr) + 1
    BY <1>1, <1>2, <1>3
  <1> QED  BY <1>4 DEF Arrays

\* Capacity for a node that has one child too many.
LEMMA Sizes ==
  ASSUME NEW o, NEW c, o \in Nat \ 0..2,
         \/ c = Half(o)
         \/ c = Half(o) + 1 /\ Half(o) + 1 < o
  PROVE  c \in 2..o /\ o + 1 - c \in 2..o /\ c >= o \div 2 /\ o + 1 - c >= o \div 2
         /\ c \in 1..o /\ c \in Nat
  BY DEF Half

\* The circumstances of a split, in one word.
Splitting(t, w, n, l1, r1, k, a, h, R, o, e, F, m) ==
  /\ Pending(t, w, n, l1, r1, k, a, h, R) /\ Sound(t, o, e) /\ Len(S(t, n)) = o /\ Filed(w) = F
  /\ m \in Nat \ {0} /\ m \notin N(t)

\* What is known of a full node that has to take a pair.
LEMMA SplittingFacts ==
  ASSUME NEW t, NEW w, NEW n, NEW l1, NEW r1, NEW k, NEW a, NEW h, NEW R, NEW o, NEW e, NEW F, NEW m,
         Splitting(t, w, n, l1, r1, k, a, h, R, o, e, F, m)
  PROVE  /\ DOMAIN t = Fields /\ n \in N(t) /\ DOMAIN t.node[n] = InnerFields /\ t.node[n].type # "leaf"
         /\ t.ok = TRUE /\ children(t, n) = o /\ o \in Nat \ 0..2 /\ m # n
         /\ t.node[n].key = K(t, n) /\ t.node[n].sub_ptr = S(t, n)
  <1>1. Formed(t) /\ n \in Inner(t)
    BY DEF Splitting, Pending
  <1>2. DOMAIN t = Fields /\ n \in N(t) /\ DOMAIN t.node[n] = InnerFields /\ t.node[n].type # "leaf"
    BY <1>1, FormedFields DEF Inner, is_leaf
  <1>3. t.ok = TRUE /\ children(t, n) = o /\ o \in Nat \ 0..2 /\ m # n
    BY <1>2 DEF Splitting, Sound, children, S
  <1> QED  BY <1>2, <1>3 DEF K, S

\* From the halves to what is left to be done.
LEMMA SplitRises ==
  ASSUME NEW t, NEW w, NEW n, NEW l1, NEW r1, NEW k, NEW a, NEW h, NEW R, NEW o, NEW e, NEW F, NEW m,
         NEW u, NEW l, NEW r, NEW c,
         Splitting(t, w, n, l1, r1, k, a, h, R, o, e, F, m), HalfBuilt(t, w, u, n, m, l, r, c),
         \/ c = Half(o)
         \/ c = Half(o) + 1 /\ Half(o) + 1 < o
  PROVE  Rising(parent_node_build(u, l, r, K(w, n)[c]), o, e, F, t.level, h[n] + 1)
  <1>1. /\ Pending(t, w, n, l1, r1, k, a, h, R) /\ Sound(t, o, e) /\ Len(S(t, n)) = o /\ Filed(w) = F
        /\ o \in Nat \ 0..2
    BY DEF Splitting, Sound
  <1>2. c \in 2..o /\ o + 1 - c \in 2..o /\ c >= o \div 2 /\ o + 1 - c >= o \div 2
    BY <1>1, Sizes
  <1> QED  BY <1>1, <1>2, InnerHalved

\* The first half moves to the new node, and the pair is in it.
LEMMA InnerSplitLeft ==
  ASSUME NEW t, NEW w, NEW n, NEW l1, NEW r1, NEW k, NEW a, NEW h, NEW R, NEW o, NEW e, NEW F, NEW m,
         Splitting(t, w, n, l1, r1, k, a, h, R, o, e, F, m)
  PROVE  Rising(non_leaf_split_left(t, n, m, l1, r1, k, a - 1), o, e, F, t.level, h[n] + 1)
  <1> DEFINE c == Half(o)
             keys == K(w, n)
             subs == S(w, n)
             km == Slice(keys, 0, c - 2)
             sm == Slice(subs, 0, c - 1)
             kn == SliceFrom(keys, c)
             sn == SliceFrom(subs, c)
             lower == [non_leaf_new EXCEPT !.key = km, !.sub_ptr = sm]
             upper == [t.node[n] EXCEPT !.key = kn, !.sub_ptr = sn]
             g == __list_add(Store(Store(t, m, lower), n, upper), m, t.link[n].prev, n)
             b == Adopt(g, m, Indices(sm))
             u == Adopt(b, n, Indices(sn))
  <1>1. /\ DOMAIN t = Fields /\ n \in N(t) /\ DOMAIN t.node[n] = InnerFields /\ t.node[n].type # "leaf"
        /\ t.ok = TRUE /\ children(t, n) = o /\ o \in Nat \ 0..2 /\ m # n
        /\ t.node[n].key = K(t, n) /\ t.node[n].sub_ptr = S(t, n)
    BY SplittingFacts
  <1>2. /\ Pending(t, w, n, l1, r1, k, a, h, R) /\ Len(S(t, n)) = o /\ m \in Nat \ {0} /\ m \notin N(t)
    BY DEF Splitting
  <1>3. /\ keys = WithKey(K(t, n), k, a - 1) /\ subs = WithPair(S(t, n), l1, r1, a - 1)
        /\ keys \in Seq(Int) /\ subs \in Seq(N(t)) /\ Len(keys) = o /\ Len(subs) = o + 1
    BY <1>2, PendingFacts
  <1>4. c \in 1..o /\ c \in Nat /\ c - 1 \in 0..Len(keys) /\ c \in 0..Len(keys) /\ c \in 0..Len(subs)
        /\ c - 1 - 1 = c - 2 /\ c - 1 + 1 = c /\ c \in 1..Len(S(t, n))
    <2>1. c \in 1..o /\ c \in Nat
      BY <1>1, Sizes
    <2> QED  BY <1>1, <1>2, <1>3, <2>1
  <1>5. non_leaf_split_left(t, n, m, l1, r1, k, a - 1) = parent_node_build(u, m, n, keys[c])
    <2>1. /\ lower.sub_ptr = sm /\ upper.sub_ptr = sn
      BY <1>1 DEF non_leaf_new, InnerFields
    <2>2. At(WithKey(K(t, n), k, a - 1), c - 1) = keys[c]
      BY <1>3, <1>4 DEF At
    <2> DEFINE g2 == __list_add(Store(Store(t, m, lower), n, upper), m, t.link[n].prev, n)
               lower2 == [non_leaf_new EXCEPT
                            !.key = Slice(WithKey(K(t, n), k, a - 1), 0, c - 2),
                            !.sub_ptr = Slice(WithPair(S(t, n), l1, r1, a - 1), 0, c - 1)]
               upper2 == [t.node[n] EXCEPT
                            !.key = SliceFrom(WithKey(K(t, n), k, a - 1), c),
                            !.sub_ptr = SliceFrom(WithPair(S(t, n), l1, r1, a - 1), c)]
    <2>3. non_leaf_split_left(t, n, m, l1, r1, k, a - 1) =
            parent_node_build(
              Adopt(Adopt(__list_add(Store(Store(t, m, lower2), n, upper2), m, t.link[n].prev, n),
                          m, Indices(lower2.sub_ptr)), n, Indices(upper2.sub_ptr)),
              m, n, At(WithKey(K(t, n), k, a - 1), c - 1))
      BY <1>1 DEF non_leaf_split_left
    <2>4. lower2 = lower /\ upper2 = upper
      BY <1>3
    <2> HIDE DEF lower, upper, lower2, upper2
    <2> QED  BY <2>1, <2>2, <2>3, <2>4
  <1>6. /\ Cut(keys, c - 1, c, km, kn) /\ Cut(subs, c, c, sm, sn)
        /\ km \in Seq(Int) /\ kn \in Seq(Int) /\ sm \in Seq(N(t)) /\ sn \in Seq(N(t))
    <2> HIDE DEF keys, subs, c
    <2>1. /\ Cut(keys, c - 1, c, Slice(keys, 0, c - 1 - 1), kn)
          /\ Slice(keys, 0, c - 1 - 1) \in Seq(Int) /\ kn \in Seq(Int)
      BY <1>3, <1>4, CutFact
    <2>2. Cut(subs, c, c, sm, sn) /\ sm \in Seq(N(t)) /\ sn \in Seq(N(t))
      BY <1>3, <1>4, CutFact
    <2> QED  BY <1>4, <2>1, <2>2
  <1> HIDE DEF km, sm, kn, sn
  <1>7. Arrays(t, w, n, c, km, sm, kn, sn)
    BY <1>2, <1>4, <1>6, ArraysFact
  <1>8. InnerRec(lower, km, sm, NULL, -1)
    BY DEF InnerRec, non_leaf_new, InnerFields
  <1>9. InnerRec(upper, kn, sn, P(t, n), X(t, n))
    BY <1>1 DEF InnerRec, InnerFields, P, X
  <1> HIDE DEF lower, upper
  <1>10. /\ Frame(t, g) /\ N(g) = N(t) \cup {m, n} /\ g.node[m] = lower /\ g.node[n] = upper
         /\ \A z \in N(t) \ {m, n} : g.node[z] = t.node[z]
         /\ DOMAIN g.link = DOMAIN t.link \cup {m}
         /\ g.link = Added(t.link, m, t.link[n].prev, n)
    <2> DEFINE prev == t.link[n].prev
    <2>1. StoredTwo(t, g, m, n, lower, upper, m, prev, n)
      BY DEF StoredTwo
    <2> HIDE DEF g, prev
    <2>2. /\ Frame(t, g) /\ N(g) = N(t) \cup {m, n} /\ g.node[m] = lower /\ g.node[n] = upper
          /\ \A z \in N(t) \ {m, n} : g.node[z] = t.node[z]
          /\ DOMAIN g.link = DOMAIN t.link \cup {m}
          /\ g.link = Added(t.link, m, prev, n)
      BY <1>1, <2>1, TwoStored
    <2> QED  BY <2>2 DEF prev
  <1>11. Adopted(g, b, m, sm) /\ Adopted(b, u, n, sn)
    BY DEF Adopted
  <1> HIDE DEF g, b, u, keys, subs
  <1>12. TwoInner(t, g, n, m, kn, sn, km, sm)
    <2>1. N(g) = N(t) \cup {n, m} /\ \A z \in N(t) \ {n, m} : g.node[z] = t.node[z]
      BY <1>10
    <2>2. /\ DOMAIN g = Fields /\ g.root = t.root /\ g.level = t.level /\ g.ok = TRUE
          /\ g.order = t.order /\ g.entries = t.entries
      BY <1>1, <1>10 DEF Frame
    <2>3. InnerRec(g.node[n], kn, sn, P(t, n), X(t, n)) /\ InnerRec(g.node[m], km, sm, NULL, -1)
      BY <1>8, <1>9, <1>10
    <2>4. /\ kn \in Seq(Int) /\ sn \in Seq(N(t)) /\ Len(sn) = Len(kn) + 1
          /\ km \in Seq(Int) /\ sm \in Seq(N(t)) /\ Len(sm) = Len(km) + 1
      BY <1>7 DEF Arrays
    <2> QED  BY <1>2, <1>10, <2>1, <2>2, <2>3, <2>4 DEF TwoInner
  <1>13. HalfBuilt(t, w, u, n, m, m, n, c)
    <2>1. Cut(K(w, n), c - 1, c, km, kn) /\ Cut(S(w, n), c, c, sm, sn)
      BY <1>6 DEF keys, subs
    <2>2. c \in 0..Len(S(w, n))
      BY <1>4 DEF subs
    <2>3. Spliced(t.link, g.link, n, m, m)
      BY <1>10 DEF Spliced
    <2> HIDE DEF c
    <2> QED  BY <1>2, <1>11, <1>12, <2>1, <2>2, <2>3, HalvesLeft
  <1>14. Rising(parent_node_build(u, m, n, K(w, n)[c]), o, e, F, t.level, h[n] + 1)
    BY <1>13, SplitRises
  <1> QED  BY <1>5, <1>14 DEF keys

\* The new half is stored on the right.
StoredRight(t, g, n, m, lower, upper) ==
  g = list_add(Store(Store(t, n, lower), m, upper), m, n)

\* The halves that a split to the right leaves.
LEMMA SplitRight ==
  ASSUME NEW t, NEW w, NEW n, NEW l1, NEW r1, NEW k, NEW a, NEW h, NEW R, NEW o, NEW e, NEW F, NEW m,
         NEW g, NEW u, NEW lower, NEW upper, NEW c, NEW kn, NEW sn, NEW km, NEW sm,
         Splitting(t, w, n, l1, r1, k, a, h, R, o, e, F, m),
         StoredRight(t, g, n, m, lower, upper), Adopted(g, u, m, sm),
         InnerRec(lower, kn, sn, P(t, n), X(t, n)), InnerRec(upper, km, sm, NULL, -1),
         Arrays(t, w, n, c, kn, sn, km, sm), c \in 1..(a - 1), c \in 1..Len(S(t, n))
  PROVE  HalfBuilt(t, w, u, n, m, n, m, c)
  <1>1. /\ DOMAIN t = Fields /\ n \in N(t) /\ t.ok = TRUE /\ m # n
    <2>1. /\ DOMAIN t = Fields /\ n \in N(t) /\ DOMAIN t.node[n] = InnerFields /\ t.node[n].type # "leaf"
          /\ t.ok = TRUE /\ children(t, n) = o /\ o \in Nat \ 0..2 /\ m # n
          /\ t.node[n].key = K(t, n) /\ t.node[n].sub_ptr = S(t, n)
      BY SplittingFacts
    <2> QED  BY <2>1
  <1>2. /\ Pending(t, w, n, l1, r1, k, a, h, R) /\ m \in Nat \ {0} /\ m \notin N(t)
    BY DEF Splitting
  <1>10. /\ Frame(t, g) /\ N(g) = N(t) \cup {n, m} /\ g.node[n] = lower /\ g.node[m] = upper
         /\ \A z \in N(t) \ {n, m} : g.node[z] = t.node[z]
         /\ DOMAIN g.link = DOMAIN t.link \cup {m}
         /\ g.link = Added(t.link, m, n, t.link[n].next)
    <2> DEFINE next == Store(Store(t, n, lower), m, upper).link[n].next
    <2>1. StoredTwo(t, g, n, m, lower, upper, m, n, next)
      BY DEF StoredTwo, StoredRight, list_add
    <2>2. next = t.link[n].next
      BY <1>1, StoredLink
    <2> HIDE DEF next
    <2>3. /\ Frame(t, g) /\ N(g) = N(t) \cup {n, m} /\ g.node[n] = lower /\ g.node[m] = upper
          /\ \A z \in N(t) \ {n, m} : g.node[z] = t.node[z]
          /\ DOMAIN g.link = DOMAIN t.link \cup {m}
          /\ g.link = Added(t.link, m, n, next)
      BY <1>1, <2>1, TwoStored
    <2> QED  BY <2>2, <2>3
  <1>11. Spliced(t.link, g.link, n, m, n)
    BY <1>1, <1>10 DEF Spliced
  <1>12. TwoInner(t, g, n, m, kn, sn, km, sm)
    <2>2. /\ DOMAIN g = Fields /\ g.root = t.root /\ g.level = t.level /\ g.ok = TRUE
          /\ g.order = t.order /\ g.entries = t.entries
      BY <1>1, <1>10 DEF Frame
    <2>3. InnerRec(g.node[n], kn, sn, P(t, n), X(t, n)) /\ InnerRec(g.node[m], km, sm, NULL, -1)
      BY <1>10
    <2>4. /\ kn \in Seq(Int) /\ sn \in Seq(N(t)) /\ Len(sn) = Len(kn) + 1
          /\ km \in Seq(Int) /\ sm \in Seq(N(t)) /\ Len(sm) = Len(km) + 1
      BY DEF Arrays
    <2> QED  BY <1>2, <1>10, <2>2, <2>3, <2>4 DEF TwoInner
  <1>13. Cut(K(w, n), c - 1, c, kn, km) /\ Cut(S(w, n), c, c, sn, sm)
    BY DEF Arrays
  <1>14. c \in 0..Len(S(w, n)) /\ c \in 0..(a - 1)
    <2>1. Len(S(w, n)) = Len(S(t, n)) + 1 /\ S(t, n) \in Seq(N(t)) /\ a \in Nat
      BY <1>2, PendingFacts
    <2> QED  BY <2>1
  <1> QED  BY <1>2, <1>11, <1>12, <1>13, <1>14, HalvesRight

\* The pair opens the new node on the right.
LEMMA InnerSplitRight1 ==
  ASSUME NEW t, NEW w, NEW n, NEW l1, NEW r1, NEW k, NEW a, NEW h, NEW R, NEW o, NEW e, NEW F, NEW m,
         Splitting(t, w, n, l1, r1, k, a, h, R, o, e, F, m), a - 1 = Half(o)
  PROVE  Rising(non_leaf_split_right1(t, n, m, l1, r1, k, a - 1), o, e, F, t.level, h[n] + 1)
  <1> DEFINE c == Half(o)
             keys == K(t, n)
             subs == S(t, n)
             kn == Slice(keys, 0, c - 2)
             sn == Slice(subs, 0, c - 1)
             km == <<k>> \o SliceFrom(keys, c)
             sm == <<l1, r1>> \o SliceFrom(subs, c + 1)
             lower == [t.node[n] EXCEPT !.key = Slice(@, 0, c - 2), !.sub_ptr = Slice(@, 0, c - 1)]
             upper == [non_leaf_new EXCEPT !.key = km, !.sub_ptr = sm]
             g == list_add(Store(Store(t, n, lower), m, upper), m, n)
             u == Adopt(g, m, Indices(sm))
  <1>1. /\ DOMAIN t = Fields /\ n \in N(t) /\ DOMAIN t.node[n] = InnerFields /\ t.node[n].type # "leaf"
        /\ t.ok = TRUE /\ children(t, n) = o /\ o \in Nat \ 0..2 /\ m # n
        /\ t.node[n].key = keys /\ t.node[n].sub_ptr = subs
    BY SplittingFacts
  <1>2. /\ Pending(t, w, n, l1, r1, k, a, h, R) /\ Len(subs) = o /\ m \in Nat \ {0} /\ m \notin N(t)
    BY DEF Splitting
  <1>3. /\ keys \in Seq(Int) /\ subs \in Seq(N(t)) /\ Len(subs) = Len(keys) + 1
        /\ K(w, n) \in Seq(Int) /\ S(w, n) \in Seq(N(t))
        /\ Entered(keys, (a - 1) + 1, k, K(w, n)) /\ Paired(subs, (a - 1) + 1, l1, r1, S(w, n))
        /\ a - 1 \in 0..Len(keys) /\ a - 1 \in 0..(Len(subs) - 1) /\ a \in Nat
    BY <1>2, PendingFacts
  <1>4. k \in Int /\ l1 \in N(t) /\ r1 \in N(t)
    BY <1>2 DEF Pending
  <1>5. c \in 1..o /\ c \in Nat /\ c - 1 \in 0..(a - 1) /\ c = a - 1 /\ c \in 1..(a - 1) /\ c \in 1..Len(S(t, n))
        /\ c - 1 - 1 = c - 2 /\ c - 1 + 1 = c
        /\ c - 1 \in 0..Len(keys) /\ c \in 0..Len(keys) /\ c \in 0..Len(subs) /\ c + 1 \in 0..Len(subs)
        /\ c \in 0..(Len(subs) - 1)
    <2>1. c \in 1..o /\ c \in Nat
      BY <1>1, Sizes
    <2> QED  BY <1>1, <1>2, <1>3, <2>1, SMTT(30)
  <1>6. non_leaf_split_right1(t, n, m, l1, r1, k, a - 1) = parent_node_build(u, n, m, keys[c])
    <2>1. upper.sub_ptr = sm
      BY DEF non_leaf_new
    <2>2. At(keys, c - 1) = keys[c]
      BY <1>5 DEF At
    <2> DEFINE upper2 == [non_leaf_new EXCEPT
                            !.key = <<k>> \o SliceFrom(t.node[n].key, c),
                            !.sub_ptr = <<l1, r1>> \o SliceFrom(t.node[n].sub_ptr, c + 1)]
    <2>3. non_leaf_split_right1(t, n, m, l1, r1, k, a - 1) =
            parent_node_build(
              Adopt(list_add(Store(Store(t, n, lower), m, upper2), m, n), m, Indices(upper2.sub_ptr)),
              n, m, At(t.node[n].key, c - 1))
      BY <1>1 DEF non_leaf_split_right1
    <2>4. upper2 = upper
      BY <1>1
    <2> HIDE DEF lower, upper, upper2, keys
    <2> QED  BY <1>1, <2>1, <2>2, <2>3, <2>4
  <1>7. InnerRec(lower, kn, sn, P(t, n), X(t, n))
    BY <1>1 DEF InnerRec, InnerFields, P, X
  <1>8. InnerRec(upper, km, sm, NULL, -1)
    <2> HIDE DEF km, sm
    <2> QED  BY DEF InnerRec, non_leaf_new, InnerFields
  <1> HIDE DEF lower, upper
  <1>9. StoredRight(t, g, n, m, lower, upper) /\ Adopted(g, u, m, sm)
    BY DEF StoredRight, Adopted
  <1> HIDE DEF g, u, keys, subs, c
  <1>10. /\ Cut(K(w, n), c - 1, c, kn, km) /\ Cut(S(w, n), c, c, sn, sm)
    <2>1. Cut(K(w, n), c - 1, a - 1, Slice(keys, 0, c - 1 - 1), <<k>> \o SliceFrom(keys, a - 1))
      BY <1>3, <1>4, <1>5, CutOpen
    <2>2. Cut(S(w, n), a - 1, a - 1, Slice(subs, 0, a - 1 - 1), <<l1, r1>> \o SliceFrom(subs, a - 1 + 1))
      BY <1>3, <1>4, <1>5, CutOpenPair
    <2> QED  BY <1>5, <2>1, <2>2
  <1>11. kn \in Seq(Int) /\ km \in Seq(Int) /\ sn \in Seq(N(t)) /\ sm \in Seq(N(t))
    <2>1. /\ Slice(keys, 0, c - 1 - 1) \in Seq(Int) /\ SliceFrom(keys, c) \in Seq(Int)
      BY <1>3, <1>5, SliceFact, SliceFromFact
    <2>2. sn \in Seq(N(t)) /\ SliceFrom(subs, c + 1) \in Seq(N(t))
      BY <1>3, <1>5, SliceFact, SliceFromFact
    <2>3. km \in Seq(Int)
      BY <1>4, <2>1, OpenFact
    <2>4. sm \in Seq(N(t))
      BY <1>4, <2>2, OpenPairFact
    <2> QED  BY <1>5, <2>1, <2>2, <2>3, <2>4
  <1> HIDE DEF kn, km, sn, sm
  <1>12. Arrays(t, w, n, c, kn, sn, km, sm)
    BY <1>2, <1>5, <1>10, <1>11, ArraysFact
  <1>13. HalfBuilt(t, w, u, n, m, n, m, c)
    BY <1>5, <1>7, <1>8, <1>9, <1>12, SplitRight
  <1>14. Rising(parent_node_build(u, n, m, K(w, n)[c]), o, e, F, t.level, h[n] + 1)
    BY <1>13, SplitRises DEF c
  <1>15. K(w, n)[c] = keys[c]
    <2>1. c \in 1..(Len(keys) + 1) /\ c < (a - 1) + 1
      BY <1>3, <1>5
    <2> QED  BY <1>3, <2>1 DEF Entered
  <1> QED  BY <1>6, <1>14, <1>15

\* The pair lands in the new node, or replaces its first child.
LEMMA InnerSplitRight2 ==
  ASSUME NEW t, NEW w, NEW n, NEW l1, NEW r1, NEW k, NEW a, NEW h, NEW R, NEW o, NEW e, NEW F, NEW m,
         Splitting(t, w, n, l1, r1, k, a, h, R, o, e, F, m), a - 1 > Half(o)
  PROVE  Rising(non_leaf_split_right2(t, n, m, l1, r1, k, a - 1), o, e, F, t.level, h[n] + 1)
  <1> DEFINE split == Half(o)
             c == split + 1
             hole == (a - 1) - split - 1
             keys == K(t, n)
             subs == S(t, n)
             kn == Slice(keys, 0, split - 1)
             sn == Slice(subs, 0, split)
             km == WithKey(SliceFrom(keys, c), k, hole)
             sm == WithPair(SliceFrom(subs, c), l1, r1, hole)
             lower == [t.node[n] EXCEPT !.key = Slice(@, 0, split - 1), !.sub_ptr = Slice(@, 0, split)]
             upper == [non_leaf_new EXCEPT !.key = km, !.sub_ptr = sm]
             g == list_add(Store(Store(t, n, lower), m, upper), m, n)
             u == Adopt(g, m, Indices(sm))
             u2 == [u EXCEPT !.ok = @ /\ hole <= Len(SliceFrom(keys, c))]
  <1>1. /\ DOMAIN t = Fields /\ n \in N(t) /\ DOMAIN t.node[n] = InnerFields /\ t.node[n].type # "leaf"
        /\ t.ok = TRUE /\ children(t, n) = o /\ o \in Nat \ 0..2 /\ m # n
        /\ t.node[n].key = keys /\ t.node[n].sub_ptr = subs
    BY SplittingFacts
  <1>2. /\ Pending(t, w, n, l1, r1, k, a, h, R) /\ Len(subs) = o /\ m \in Nat \ {0} /\ m \notin N(t)
    BY DEF Splitting
  <1>3. /\ keys \in Seq(Int) /\ subs \in Seq(N(t)) /\ Len(subs) = Len(keys) + 1
        /\ K(w, n) \in Seq(Int) /\ S(w, n) \in Seq(N(t))
        /\ Entered(keys, (a - 1) + 1, k, K(w, n)) /\ Paired(subs, (a - 1) + 1, l1, r1, S(w, n))
        /\ a - 1 \in 0..Len(keys) /\ a - 1 \in 0..(Len(subs) - 1) /\ a \in Nat
    BY <1>2, PendingFacts
  <1>4. k \in Int /\ l1 \in N(t) /\ r1 \in N(t)
    BY <1>2 DEF Pending
  <1>5. /\ split \in 1..o /\ split \in Nat /\ split \in 0..(a - 1) /\ c \in 0..(a - 1) /\ c \in 1..(a - 1)
        /\ c \in 1..Len(subs) /\ hole = (a - 1) - c /\ c - 1 = split /\ split + 1 < o
        /\ split \in 0..Len(keys) /\ c \in 0..Len(keys) /\ c \in 0..Len(subs) /\ c \in Nat
        /\ hole \in 0..(Len(keys) - c) /\ hole \in 0..((Len(subs) - c) - 1)
    <2>1. split \in 1..o /\ split \in Nat
      BY <1>1, Sizes
    <2>2. a - 1 > split
      OBVIOUS
    <2>3. /\ a \in Nat /\ a - 1 \in 0..Len(keys) /\ o \in Nat
          /\ Len(subs) = o /\ Len(keys) \in Nat /\ o = Len(keys) + 1
      BY <1>1, <1>2, <1>3
    <2> HIDE DEF split, keys, subs
    <2>4. /\ split \in 0..(a - 1) /\ c \in 0..(a - 1) /\ c \in 1..(a - 1)
          /\ c \in 1..Len(subs) /\ hole = (a - 1) - c /\ c - 1 = split /\ split + 1 < o
      BY <2>1, <2>2, <2>3
    <2>5. /\ split \in 0..Len(keys) /\ c \in 0..Len(keys) /\ c \in 0..Len(subs) /\ c \in Nat
          /\ hole \in 0..(Len(keys) - c) /\ hole \in 0..((Len(subs) - c) - 1)
      BY <2>1, <2>2, <2>3
    <2> QED  BY <2>1, <2>4, <2>5
  <1>6. non_leaf_split_right2(t, n, m, l1, r1, k, a - 1) = parent_node_build(u2, n, m, keys[c])
    <2>1. upper.sub_ptr = sm
      BY DEF non_leaf_new
    <2>2. At(keys, split) = keys[c]
      BY DEF At
    <2> DEFINE moved == SliceFrom(t.node[n].key, split + 1)
               upper2 == [non_leaf_new EXCEPT
                            !.key = WithKey(moved, k, hole),
                            !.sub_ptr = WithPair(SliceFrom(t.node[n].sub_ptr, split + 1), l1, r1, hole)]
               g2 == list_add(Store(Store(t, n, lower), m, upper2), m, n)
    <2> HIDE DEF split
    <2>3. non_leaf_split_right2(t, n, m, l1, r1, k, a - 1) =
            parent_node_build(
              [Adopt(g2, m, Indices(upper2.sub_ptr)) EXCEPT !.ok = @ /\ hole <= Len(moved)],
              n, m, At(t.node[n].key, split))
      BY <1>1 DEF non_leaf_split_right2, split
    <2>4. upper2 = upper /\ moved = SliceFrom(keys, c) /\ t.node[n].key = keys
      BY <1>1
    <2>5. g2 = g
      BY <2>4
    <2> HIDE DEF lower, upper, upper2, keys, moved, hole, g, g2
    <2>6. Adopt(g2, m, Indices(upper2.sub_ptr)) = u
      BY <2>1, <2>4, <2>5
    <2> HIDE DEF u
    <2> QED  BY <2>2, <2>3, <2>4, <2>6
  <1>7. InnerRec(lower, kn, sn, P(t, n), X(t, n))
    <2> HIDE DEF split
    <2> QED  BY <1>1 DEF InnerRec, InnerFields, P, X
  <1>8. InnerRec(upper, km, sm, NULL, -1)
    <2> HIDE DEF km, sm
    <2> QED  BY DEF InnerRec, non_leaf_new, InnerFields
  <1> HIDE DEF lower, upper
  <1>9. StoredRight(t, g, n, m, lower, upper) /\ Adopted(g, u, m, sm)
    BY DEF StoredRight, Adopted
  <1>16. u2 = [u EXCEPT !.ok = u.ok /\ hole <= Len(SliceFrom(keys, c))]
    OBVIOUS
  <1> HIDE DEF g, u, keys, subs, c, hole, split, u2
  <1>10. /\ Cut(K(w, n), c - 1, c, kn, km) /\ Cut(S(w, n), c, c, sn, sm)
    <2>1. Cut(K(w, n), split, c, Slice(keys, 0, split - 1), WithKey(SliceFrom(keys, c), k, (a - 1) - c))
      BY <1>3, <1>4, <1>5, CutBefore
    <2>2. Cut(S(w, n), c, c, Slice(subs, 0, c - 1), WithPair(SliceFrom(subs, c), l1, r1, (a - 1) - c))
      BY <1>3, <1>4, <1>5, CutBeforePair
    <2> QED  BY <1>5, <2>1, <2>2
  <1>11. /\ kn \in Seq(Int) /\ km \in Seq(Int) /\ sn \in Seq(N(t)) /\ sm \in Seq(N(t))
         /\ Len(SliceFrom(keys, c)) = Len(keys) - c
    <2>1. /\ kn \in Seq(Int) /\ SliceFrom(keys, c) \in Seq(Int) /\ Len(SliceFrom(keys, c)) = Len(keys) - c
      BY <1>3, <1>5, SliceFact, SliceFromFact
    <2>2. /\ Slice(subs, 0, c - 1) \in Seq(N(t)) /\ SliceFrom(subs, c) \in Seq(N(t))
          /\ Len(SliceFrom(subs, c)) = Len(subs) - c
      BY <1>3, <1>5, SliceFact, SliceFromFact
    <2>3. hole \in 0..Len(SliceFrom(keys, c)) /\ hole \in 0..(Len(SliceFrom(subs, c)) - 1)
      BY <1>5, <2>1, <2>2
    <2>4. km \in Seq(Int)
      BY <1>4, <2>1, <2>3, WithKeyFact
    <2>5. sm \in Seq(N(t))
      BY <1>4, <2>2, <2>3, WithPairFact
    <2> QED  BY <1>5, <2>1, <2>2, <2>4, <2>5
  <1> HIDE DEF kn, km, sn, sm
  <1>12. Arrays(t, w, n, c, kn, sn, km, sm)
    <2>1. c \in 1..Len(S(t, n))
      BY <1>5 DEF subs
    <2> QED  BY <1>2, <1>10, <1>11, <2>1, ArraysFact
  <1>13. HalfBuilt(t, w, u, n, m, n, m, c)
    <2>1. c \in 1..Len(S(t, n))
      BY <1>5 DEF subs
    <2> QED  BY <1>5, <1>7, <1>8, <1>9, <1>12, <2>1, SplitRight
  <1>17. HalfBuilt(t, w, u2, n, m, n, m, c)
    <2>1. hole <= Len(SliceFrom(keys, c))
      BY <1>3, <1>5, <1>11
    <2>2. u.ok = TRUE
      BY <1>13 DEF HalfBuilt
    <2>3. (u.ok /\ hole <= Len(SliceFrom(keys, c))) = TRUE
      BY <2>1, <2>2
    <2>4. u2 = [u EXCEPT !.ok = TRUE]
      BY <1>16, <2>3
    <2> QED  BY <1>13, <2>4, MarkKept
  <1>14. Rising(parent_node_build(u2, n, m, K(w, n)[c]), o, e, F, t.level, h[n] + 1)
    <2>1. c = Half(o) + 1 /\ Half(o) + 1 < o
      BY <1>5 DEF c, split
    <2> QED  BY <1>17, <2>1, SplitRises
  <1>15. K(w, n)[c] = keys[c]
    <2>1. c \in 1..(Len(keys) + 1) /\ c < (a - 1) + 1
      BY <1>3, <1>5
    <2> QED  BY <1>3, <2>1 DEF Entered
  <1> QED  BY <1>6, <1>14, <1>15

\* One step towards the root.
LEMMA NonLeafInsert ==
  ASSUME NEW s, NEW o, NEW e, NEW F, NEW h, NEW R, NEW i, Pend(s, o, e, F, h, R),
         i \in Nat, h[s.node] >= i, h[s.node] \in Nat
  PROVE  Rising(non_leaf_insert(s), o, e, F, s.tree.level, i + 1)
  <1> DEFINE t == s.tree
             n == s.node
  <1>1. PICK a \in 1..Len(S(t, n)) :
           LET w == non_leaf_simple_insert(t, n, s.l_ch, s.r_ch, s.key, a - 1)
           IN /\ PairIn(t, w, n, s.l_ch, s.r_ch, s.key, a)
              /\ TreeInv(w, h, R) /\ InLists(w)
              /\ Filed(w) = F
    BY DEF Pend
  <1> DEFINE w == non_leaf_simple_insert(t, n, s.l_ch, s.r_ch, s.key, a - 1)
  <1>2. Pending(t, w, n, s.l_ch, s.r_ch, s.key, a, h, R) /\ Sound(t, o, e) /\ Filed(w) = F
    BY <1>1 DEF Pend, Pending
  <1>3. /\ key_binary_search(K(t, n), s.key) = -(a - 1) - 1 /\ a \in Nat
        /\ a - 1 \in 0..Len(K(t, n)) /\ S(t, n) \in Seq(N(t))
    <2> HIDE DEF w, t, n
    <2> QED  BY <1>2, PendingFacts
  <1>4. -(a - 1) - 1 < 0 /\ -(-(a - 1) - 1) - 1 = a - 1
    BY <1>3
  <1>5. Formed(t) /\ n \in Inner(t) /\ o \in Nat \ 0..2 /\ t.order = o
    BY DEF Pend, Sound
  <1>6. Fresh(t) \in Nat \ {0} /\ Fresh(t) \notin N(t)
    BY <1>5, FreshFact DEF Formed
  <1>7. children(t, n) = Len(S(t, n))
    BY DEF children, S
  <1>8. non_leaf_insert(s) =
          CASE children(t, n) # t.order ->
                  Done(non_leaf_simple_insert(t, n, s.l_ch, s.r_ch, s.key, a - 1))
             [] children(t, n) = t.order /\ a - 1 < Half(children(t, n)) ->
                  non_leaf_split_left(t, n, Fresh(t), s.l_ch, s.r_ch, s.key, a - 1)
             [] children(t, n) = t.order /\ a - 1 = Half(children(t, n)) ->
                  non_leaf_split_right1(t, n, Fresh(t), s.l_ch, s.r_ch, s.key, a - 1)
             [] children(t, n) = t.order /\ a - 1 > Half(children(t, n)) ->
                  non_leaf_split_right2(t, n, Fresh(t), s.l_ch, s.r_ch, s.key, a - 1)
    <2>1. key_binary_search(s.tree.node[s.node].key, s.key) = -(a - 1) - 1
      BY <1>3 DEF K
    <2> QED  BY <1>4, <2>1 DEF non_leaf_insert
  <1>9. Rising(non_leaf_insert(s), o, e, F, t.level, h[n] + 1)
    <2> DEFINE m == Fresh(t)
    <2>1. CASE Len(S(t, n)) # o
      <3>1. non_leaf_insert(s) = Done(w)
        BY <1>5, <1>7, <1>8, <2>1
      <3>2. Ended(Done(w), o, e, Filed(w))
        <4> HIDE DEF w, t, n
        <4> QED  BY <1>2, <2>1, InnerSimple
      <3> QED  BY <1>2, <3>1, <3>2 DEF Rising
    <2>2. CASE Len(S(t, n)) = o
      <3>1. Splitting(t, w, n, s.l_ch, s.r_ch, s.key, a, h, R, o, e, F, m)
        BY <1>2, <1>6, <2>2 DEF Splitting
      <3>2. Half(o) \in Nat /\ a - 1 \in Int
        BY <1>3, <1>5 DEF Half
      <3> HIDE DEF t, n, w, m
      <3>3. CASE a - 1 < Half(o)
        <4>1. ~(a - 1 = Half(o)) /\ ~(a - 1 > Half(o))
          BY <3>2, <3>3
        <4>2. non_leaf_insert(s) = non_leaf_split_left(t, n, m, s.l_ch, s.r_ch, s.key, a - 1)
          BY <1>5, <1>7, <1>8, <2>2, <3>3, <4>1 DEF m
        <4> QED  BY <3>1, <4>2, InnerSplitLeft
      <3>4. CASE a - 1 = Half(o)
        <4>1. ~(a - 1 < Half(o)) /\ ~(a - 1 > Half(o))
          BY <3>2, <3>4
        <4>2. non_leaf_insert(s) = non_leaf_split_right1(t, n, m, s.l_ch, s.r_ch, s.key, a - 1)
          BY <1>5, <1>7, <1>8, <2>2, <3>4, <4>1 DEF m
        <4> QED  BY <3>1, <3>4, <4>2, InnerSplitRight1
      <3>5. CASE a - 1 > Half(o)
        <4>1. ~(a - 1 < Half(o)) /\ ~(a - 1 = Half(o))
          BY <3>2, <3>5
        <4>2. non_leaf_insert(s) = non_leaf_split_right2(t, n, m, s.l_ch, s.r_ch, s.key, a - 1)
          BY <1>5, <1>7, <1>8, <2>2, <3>5, <4>1 DEF m
        <4> QED  BY <3>1, <3>5, <4>2, InnerSplitRight2
      <3> QED  BY <3>2, <3>3, <3>4, <3>5
    <2> QED  BY <2>1, <2>2
  <1>10. ASSUME NEW x, NEW level, Rising(x, o, e, F, level, h[n] + 1)
         PROVE  Rising(x, o, e, F, level, i + 1)
    <2>1. CASE Ended(x, o, e, F)
      BY <2>1 DEF Rising
    <2>2. CASE \E g, Q : Pend(x, o, e, F, g, Q) /\ g[x.node] >= h[n] + 1 /\ x.tree.level = level
      <3>1. PICK g, Q : Pend(x, o, e, F, g, Q) /\ g[x.node] >= h[n] + 1 /\ x.tree.level = level
        BY <2>2
      <3>2. g[x.node] \in Int
        <4>1. PICK b \in 1..Len(S(x.tree, x.node)) :
                LET v == non_leaf_simple_insert(x.tree, x.node, x.l_ch, x.r_ch, x.key, b - 1)
                IN PairIn(x.tree, v, x.node, x.l_ch, x.r_ch, x.key, b) /\ TreeInv(v, g, Q)
          BY <3>1 DEF Pend
        <4> DEFINE v == non_leaf_simple_insert(x.tree, x.node, x.l_ch, x.r_ch, x.key, b - 1)
        <4>2. PairIn(x.tree, v, x.node, x.l_ch, x.r_ch, x.key, b) /\ TreeInv(v, g, Q)
          BY <4>1
        <4> HIDE DEF v
        <4>3. x.node \in N(v)
          BY <3>1, <4>2 DEF Pend, PairIn, Inner
        <4> QED  BY <4>2, <4>3 DEF TreeInv, Heights, Formed
      <3>3. g[x.node] >= i + 1
        BY <3>1, <3>2
      <3> QED  BY <3>1, <3>3 DEF Rising
    <2> QED  BY <1>10, <2>1, <2>2 DEF Rising
  <1> QED  BY <1>9, <1>10

-----------------------------------------------------------------------------
\* The climb from the leaf towards the root.
Onward(s) == IF s.node = NULL THEN s ELSE non_leaf_insert(s)
Climbs(f, s, n) == f = [i \in 0..n |-> IF i = 0 THEN s ELSE Onward(f[i - 1])]

\* The climb has a value at every height.
LEMMA ClimbExists ==
  ASSUME NEW s, NEW n \in Nat
  PROVE  \E f : Climbs(f, s, n)
  <1> DEFINE T == {i \in Nat : ~\E f : Climbs(f, s, i)}
  <1>1. \E f : Climbs(f, s, 0)
    <2> DEFINE g == [i \in 0..0 |-> s]
    <2>1. g = [i \in 0..0 |-> IF i = 0 THEN s ELSE Onward(g[i - 1])]
      OBVIOUS
    <2> HIDE DEF g
    <2> QED  BY <2>1 DEF Climbs
  <1>2. ASSUME NEW j \in Nat, NEW f, Climbs(f, s, j)
        PROVE  \E g : Climbs(g, s, j + 1)
    <2> DEFINE g == [i \in 0..(j + 1) |-> IF i = 0 THEN s ELSE Onward(f[i - 1])]
    <2>1. \A i \in 0..(j + 1) : g[i] = IF i = 0 THEN s ELSE Onward(f[i - 1])
      OBVIOUS
    <2>2. \A i \in 0..j : f[i] = IF i = 0 THEN s ELSE Onward(f[i - 1])
      BY <1>2 DEF Climbs
    <2>3. g = [i \in 0..(j + 1) |-> g[i]]
      OBVIOUS
    <2> HIDE DEF g
    <2>4. \A i \in 0..j : g[i] = f[i]
      BY <2>1, <2>2
    <2>5. \A i \in 0..(j + 1) : i # 0 => i - 1 \in 0..j
      OBVIOUS
    <2>6. \A i \in 0..(j + 1) : g[i] = IF i = 0 THEN s ELSE Onward(g[i - 1])
      BY <2>1, <2>4, <2>5
    <2>7. g = [i \in 0..(j + 1) |-> IF i = 0 THEN s ELSE Onward(g[i - 1])]
      BY <2>3, <2>6
    <2> QED  BY <2>7 DEF Climbs
  <1>3. T = {}
    <2>1. SUFFICES ASSUME T # {} PROVE FALSE
      OBVIOUS
    <2>2. PICK i \in T : \A j \in T : i <= j
      BY <2>1, LeastNumber
    <2>3. i # 0
      BY <1>1, <2>2
    <2>4. i - 1 \in Nat /\ i - 1 \notin T /\ (i - 1) + 1 = i
      BY <2>2, <2>3
    <2> QED  BY <1>2, <2>2, <2>4
  <1> QED  BY <1>3

\* A node in question is no higher than the root.
LEMMA PendLevel ==
  ASSUME NEW s, NEW o, NEW e, NEW F, NEW h, NEW R, Pend(s, o, e, F, h, R)
  PROVE  h[s.node] \in 0..s.tree.level /\ s.node # NULL /\ s.tree.level \in Nat
  <1>1. PICK b \in 1..Len(S(s.tree, s.node)) :
          LET v == non_leaf_simple_insert(s.tree, s.node, s.l_ch, s.r_ch, s.key, b - 1)
          IN PairIn(s.tree, v, s.node, s.l_ch, s.r_ch, s.key, b) /\ TreeInv(v, h, R)
    BY DEF Pend
  <1> DEFINE v == non_leaf_simple_insert(s.tree, s.node, s.l_ch, s.r_ch, s.key, b - 1)
  <1>2. PairIn(s.tree, v, s.node, s.l_ch, s.r_ch, s.key, b) /\ TreeInv(v, h, R)
    BY <1>1
  <1> HIDE DEF v
  <1>3. s.node \in N(v) /\ v.level = s.tree.level /\ s.node \in N(s.tree)
    BY <1>2 DEF Pend, PairIn, Inner, Frame
  <1>4. s.node # NULL /\ s.tree.level \in Nat
    BY <1>3 DEF Pend, Formed, NULL
  <1> QED  BY <1>2, <1>3, <1>4 DEF TreeInv, Heights

\* There is nothing left to be inserted above the root.
LEMMA ClimbEnds ==
  ASSUME NEW s, NEW o, NEW e, NEW F, NEW L \in Nat, NEW f,
         Climbs(f, s, L + 1), Rising(s, o, e, F, L, 1)
  PROVE  Ended(f[L + 1], o, e, F)
  <1>1. \A i \in 0..(L + 1) : f[i] = IF i = 0 THEN s ELSE Onward(f[i - 1])
    BY DEF Climbs
  <1> DEFINE T == {i \in Nat : i <= L + 1 /\ ~Rising(f[i], o, e, F, L, i + 1)}
  <1>2. T = {}
    <2>1. SUFFICES ASSUME T # {} PROVE FALSE
      OBVIOUS
    <2>2. PICK i \in T : \A j \in T : i <= j
      BY <2>1, LeastNumber
    <2>3. i # 0
      BY <1>1, <2>2
    <2>4. /\ i - 1 \in Nat /\ i - 1 <= L + 1 /\ i - 1 \notin T /\ i \in 0..(L + 1)
          /\ (i - 1) + 1 = i /\ i + 1 \in Int /\ i \in Nat
      BY <2>2, <2>3
    <2>5. Rising(f[i - 1], o, e, F, L, i)
      BY <2>4
    <2>6. f[i] = Onward(f[i - 1])
      BY <1>1, <2>3, <2>4
    <2>7. CASE Ended(f[i - 1], o, e, F)
      <3>1. f[i] = f[i - 1]
        BY <2>6, <2>7 DEF Onward, Ended
      <3> QED  BY <2>2, <2>7, <3>1 DEF Rising
    <2>8. CASE \E h, R : Pend(f[i - 1], o, e, F, h, R) /\ h[f[i - 1].node] >= i /\ f[i - 1].tree.level = L
      <3>1. PICK h, R : Pend(f[i - 1], o, e, F, h, R) /\ h[f[i - 1].node] >= i /\ f[i - 1].tree.level = L
        BY <2>8
      <3>2. h[f[i - 1].node] \in Nat /\ f[i - 1].node # NULL
        BY <3>1, PendLevel
      <3>3. Rising(non_leaf_insert(f[i - 1]), o, e, F, L, i + 1)
        BY <2>4, <3>1, <3>2, NonLeafInsert
      <3>4. f[i] = non_leaf_insert(f[i - 1])
        BY <2>6, <3>2 DEF Onward
      <3> QED  BY <2>2, <3>3, <3>4
    <2> QED  BY <2>5, <2>7, <2>8 DEF Rising
  <1>3. Rising(f[L + 1], o, e, F, L, (L + 1) + 1)
    <2>1. L + 1 \in Nat /\ L + 1 <= L + 1
      OBVIOUS
    <2> QED  BY <1>2, <2>1
  <1>4. ASSUME NEW h, NEW R, Pend(f[L + 1], o, e, F, h, R), h[f[L + 1].node] >= (L + 1) + 1,
               f[L + 1].tree.level = L
        PROVE  FALSE
    <2>1. h[f[L + 1].node] \in 0..L
      BY <1>4, PendLevel
    <2> QED  BY <1>4, <2>1
  <1> QED  BY <1>3, <1>4 DEF Rising

-----------------------------------------------------------------------------
\* The whole put into a tree that is not empty.

\* Whether the key is there can be read in the one leaf that looks after it.
LEMMA ExistsFiled ==
  ASSUME NEW t, NEW h, NEW R, TreeInv(t, h, R), NEW k \in Int
  PROVE  exists(t, k) <=> \E d : <<k, d>> \in Filed(t)
  <1> DEFINE n == leaf_for(t, k)
  <1>1. n \in Leafs(t) /\ k \in R[n] /\ (\A m \in Leafs(t) : k \in R[m] => n = m)
    BY LeafFor
  <1> HIDE DEF n
  <1>2. n \in N(t) /\ Sorted(K(t, n)) /\ K(t, n) \in Seq(Int) /\ D(t, n) \in Seq(Int)
        /\ Len(D(t, n)) = Len(K(t, n)) /\ t.root # NULL
    <2>1. n \in N(t) /\ is_leaf(t, n)
      BY <1>1 DEF Leafs
    <2>2. NodeFormed(t, n) /\ t.root # NULL
      BY <2>1 DEF TreeInv, Formed, NULL
    <2> QED  BY <2>1, <2>2, NodeSorted DEF NodeFormed
  <1>3. exists(t, k) <=> key_binary_search(K(t, n), k) >= 0
    BY <1>2 DEF exists, n, K
  <1>4. ASSUME exists(t, k) PROVE \E d : <<k, d>> \in Filed(t)
    <2>1. CASE \E a \in 0..Len(K(t, n)) : Fits(K(t, n), a, k)
      <3>1. PICK a \in 0..Len(K(t, n)) : Fits(K(t, n), a, k)
        BY <2>1
      <3>2. key_binary_search(K(t, n), k) = -a - 1
        BY <1>2, <3>1, SearchMisses
      <3> QED  BY <1>2, <1>3, <1>4, <3>2
    <2>2. CASE \E i \in 1..Len(K(t, n)) : K(t, n)[i] = k
      <3>1. PICK i \in 1..Len(K(t, n)) : K(t, n)[i] = k
        BY <2>2
      <3>2. D(t, n)[i] \in Int
        BY <1>2, <3>1
      <3>3. Has(t, k, D(t, n)[i])
        BY <1>1, <3>1 DEF Has
      <3> QED  BY <3>2, <3>3 DEF Filed
    <2> QED  BY <1>2, <2>1, <2>2, KeyPlace
  <1>5. ASSUME NEW d, <<k, d>> \in Filed(t) PROVE exists(t, k)
    <2>1. Has(t, k, d)
      BY <1>5 DEF Filed
    <2>2. PICK m \in Leafs(t) : \E i \in 1..Len(K(t, m)) : K(t, m)[i] = k /\ D(t, m)[i] = d
      BY <2>1 DEF Has
    <2>3. PICK i \in 1..Len(K(t, m)) : K(t, m)[i] = k
      BY <2>2
    <2>4. m = n
      BY <1>1, <2>3 DEF TreeInv, Routes
    <2>5. i \in 1..Len(K(t, n)) /\ K(t, n)[i] = k
      BY <2>3, <2>4
    <2>6. key_binary_search(K(t, n), k) = i - 1
      BY <1>2, <2>5, SearchFinds
    <2>7. i - 1 >= 0
      BY <2>5
    <2> QED  BY <1>3, <2>6, <2>7
  <1> QED  BY <1>4, <1>5

\* What get answers.
LEMMA GetFiled ==
  ASSUME NEW t, NEW h, NEW R, TreeInv(t, h, R), NEW k \in Int
  PROVE  \/ <<k, bplus_tree_get(t, k)>> \in Filed(t)
         \/ bplus_tree_get(t, k) = -1 /\ ~\E d : <<k, d>> \in Filed(t)
  <1> DEFINE n == leaf_for(t, k)
  <1>1. n \in Leafs(t)
    BY LeafFor
  <1> HIDE DEF n
  <1>2. n \in N(t) /\ Sorted(K(t, n)) /\ K(t, n) \in Seq(Int) /\ D(t, n) \in Seq(Int)
        /\ Len(D(t, n)) = Len(K(t, n)) /\ t.root # NULL
    <2>1. n \in N(t) /\ is_leaf(t, n)
      BY <1>1 DEF Leafs
    <2>2. NodeFormed(t, n) /\ t.root # NULL
      BY <2>1 DEF TreeInv, Formed, NULL
    <2> QED  BY <2>1, <2>2, NodeSorted DEF NodeFormed
  <1>3. exists(t, k) <=> key_binary_search(K(t, n), k) >= 0
    BY <1>2 DEF exists, n, K
  <1>4. bplus_tree_get(t, k) = LET i == key_binary_search(K(t, n), k)
                               IN IF i >= 0 THEN D(t, n)[i + 1] ELSE -1
    BY <1>2 DEF bplus_tree_get, n, K, D, At
  <1>5. CASE exists(t, k)
    <2>1. ~\E a \in 0..Len(K(t, n)) : Fits(K(t, n), a, k)
      BY <1>2, <1>3, <1>5, SearchMisses
    <2>2. PICK i \in 1..Len(K(t, n)) : K(t, n)[i] = k
      BY <1>2, <2>1, KeyPlace
    <2>3. key_binary_search(K(t, n), k) = i - 1
      BY <1>2, <2>2, SearchFinds
    <2>4. i - 1 >= 0 /\ (i - 1) + 1 = i /\ i \in 1..Len(D(t, n))
      BY <1>2, <2>2
    <2>5. bplus_tree_get(t, k) = D(t, n)[i]
      BY <1>4, <2>3, <2>4
    <2>6. D(t, n)[i] \in Int
      BY <1>2, <2>4
    <2>7. Has(t, k, D(t, n)[i])
      BY <1>1, <2>2 DEF Has
    <2> QED  BY <2>5, <2>6, <2>7 DEF Filed
  <1>6. CASE ~exists(t, k)
    <2>1. bplus_tree_get(t, k) = -1
      BY <1>3, <1>4, <1>6
    <2> QED  BY <1>6, <2>1, ExistsFiled
  <1> QED  BY <1>5, <1>6

\* No key is filed twice.
LEMMA FiledOnce ==
  ASSUME NEW t, NEW h, NEW R, TreeInv(t, h, R), NEW k, NEW d1, NEW d2,
         <<k, d1>> \in Filed(t), <<k, d2>> \in Filed(t)
  PROVE  d1 = d2
  <1>1. Has(t, k, d1) /\ Has(t, k, d2) /\ k \in Int
    BY DEF Filed
  <1>2. PICK m1 \in Leafs(t) : \E i \in 1..Len(K(t, m1)) : K(t, m1)[i] = k /\ D(t, m1)[i] = d1
    BY <1>1 DEF Has
  <1>3. PICK i1 \in 1..Len(K(t, m1)) : K(t, m1)[i1] = k /\ D(t, m1)[i1] = d1
    BY <1>2
  <1>4. PICK m2 \in Leafs(t) : \E i \in 1..Len(K(t, m2)) : K(t, m2)[i] = k /\ D(t, m2)[i] = d2
    BY <1>1 DEF Has
  <1>5. PICK i2 \in 1..Len(K(t, m2)) : K(t, m2)[i2] = k /\ D(t, m2)[i2] = d2
    BY <1>4
  <1>6. k \in R[m1] /\ k \in R[m2]
    BY <1>3, <1>5 DEF TreeInv, Routes
  <1>7. m1 = m2
    BY <1>1, <1>6, LeafFor
  <1>8. m1 \in N(t)
    BY DEF Leafs
  <1>9. Sorted(K(t, m1)) /\ K(t, m1) \in Seq(Int)
    BY <1>8, NodeSorted
  <1>10. ~(i1 < i2) /\ ~(i2 < i1)
    BY <1>3, <1>5, <1>7, <1>9, <1>1 DEF Sorted
  <1>11. i1 = i2
    BY <1>10
  <1> QED  BY <1>3, <1>5, <1>7, <1>11

\* A put keeps the tree a tree and files the new pair besides the old ones.
LEMMA InsertKeeps ==
  ASSUME NEW t, NEW h, NEW R, TreeInv(t, h, R), InLists(t), NEW o, NEW e, Sound(t, o, e),
         NEW k \in Int, NEW d \in Int, ~exists(t, k)
  PROVE  LET u == bplus_tree_insert(t, k, d)
         IN /\ Sound(u, o, e)
            /\ (\E g, Q : TreeInv(u, g, Q)) /\ InLists(u)
            /\ Filed(u) = Filed(t) \cup {<<k, d>>}
  <1> DEFINE n == leaf_for(t, k)
             s == leaf_insert(t, n, k, d)
             F == Filed(t) \cup {<<k, d>>}
             L == t.level
             f == CHOOSE f : f = [i \in 0..(L + 1) |->
                                    IF i = 0 THEN s
                                    ELSE LET below == f[i - 1]
                                         IN IF below.node = NULL THEN below ELSE non_leaf_insert(below)]
  <1>1. n \in Leafs(t) /\ k \in R[n]
    BY LeafFor
  <1>2. t.root # NULL /\ L \in Nat
    BY DEF TreeInv, Formed, NULL
  <1>3. \E a : Entering(t, h, R, n, k, d, a)
    <2> HIDE DEF n
    <2>1. n \in N(t)
      BY <1>1 DEF Leafs
    <2>2. Sorted(K(t, n)) /\ K(t, n) \in Seq(Int)
      BY <2>1, NodeSorted
    <2>3. ~(key_binary_search(K(t, n), k) >= 0)
      BY <1>2 DEF exists, n, K
    <2>4. ~\E i \in 1..Len(K(t, n)) : K(t, n)[i] = k
      <3>1. SUFFICES ASSUME NEW i \in 1..Len(K(t, n)), K(t, n)[i] = k PROVE FALSE
        OBVIOUS
      <3>2. key_binary_search(K(t, n), k) = i - 1
        BY <2>2, <3>1, SearchFinds
      <3> QED  BY <2>2, <2>3, <3>2
    <2>5. PICK a \in 0..Len(K(t, n)) : Fits(K(t, n), a, k)
      BY <2>2, <2>4, KeyPlace
    <2> QED  BY <1>1, <2>5 DEF Entering
  <1>4. Rising(s, o, e, F, L, 1)
    <2> HIDE DEF n
    <2> QED  BY <1>3, LeafInsert
  <1>5. Climbs(f, s, L + 1)
    <2> HIDE DEF n, s, F, L
    <2>1. L + 1 \in Nat
      BY <1>2
    <2>2. PICK g : Climbs(g, s, L + 1)
      BY <2>1, ClimbExists
    <2>3. g = [i \in 0..(L + 1) |->
                 IF i = 0 THEN s
                 ELSE LET below == g[i - 1]
                      IN IF below.node = NULL THEN below ELSE non_leaf_insert(below)]
      BY <2>2 DEF Climbs, Onward
    <2>4. f = [i \in 0..(L + 1) |->
                 IF i = 0 THEN s
                 ELSE LET below == f[i - 1]
                      IN IF below.node = NULL THEN below ELSE non_leaf_insert(below)]
      BY <2>3
    <2> QED  BY <2>4 DEF Climbs, Onward
  <1>6. bplus_tree_insert(t, k, d) = f[L + 1].tree
    BY <1>2 DEF bplus_tree_insert
  <1> HIDE DEF f, n, s, F, L
  <1>7. Ended(f[L + 1], o, e, F)
    BY <1>2, <1>4, <1>5, ClimbEnds
  <1> QED  BY <1>6, <1>7 DEF Ended, F

\* A tree that has never had a key, or has lost its last one.
Bare(t) ==
  /\ DOMAIN t = Fields /\ t.root = NULL /\ N(t) = {} /\ t.level = 0 /\ t.ok = TRUE
  /\ DOMAIN t.link = ListHeads /\ Ring(t.link) /\ \A x \in ListHeads : t.link[x].next = x
  /\ t.order \in Nat \ 0..2 /\ t.entries \in Nat \ {0}

\* The first key makes a leaf that is the root.
LEMMA FirstLeafFact ==
  ASSUME NEW t, Bare(t), NEW k \in Int, NEW d \in Int
  PROVE  LET u == bplus_tree_insert(t, k, d)
         IN /\ Sound(u, t.order, t.entries)
            /\ (\E g, Q : TreeInv(u, g, Q)) /\ InLists(u)
            /\ Filed(u) = {<<k, d>>}
  <1> DEFINE n == Fresh(t)
             leaf == [leaf_new EXCEPT !.key = <<k>>, !.data = <<d>>]
             a == Store(t, n, leaf)
             b == [a EXCEPT !.root = n]
             u == list_add(b, n, ListHead(t.level))
             h == [m \in {n} |-> 0]
             R == [m \in {n} |-> Int]
  <1>1. n \in Nat \ {0}
    BY FS_EmptySet, FreshFact DEF Bare
  <1>2. bplus_tree_insert(t, k, d) = u
    BY DEF bplus_tree_insert, FirstLeaf, Bare
  <1>3. LeafRec(leaf, <<k>>, <<d>>, NULL, -1)
    BY DEF LeafRec, leaf_new, LeafFields
  <1>4. /\ Frame(t, a) /\ a.link = t.link /\ N(a) = {n} /\ a.node[n] = leaf
    <2> HIDE DEF n, leaf
    <2> QED  BY StoreEffect DEF Bare
  <1> HIDE DEF a, leaf
  <1>5. /\ DOMAIN b = Fields /\ b.root = n /\ b.level = 0 /\ b.ok = TRUE /\ b.link = t.link
        /\ b.order = t.order /\ b.entries = t.entries /\ b.node = a.node
    BY <1>4 DEF Frame, Bare, Fields
  <1> HIDE DEF b, n
  <1>17. ListHead(t.level) = ListHead(0) /\ ListHead(0) \in ListHeads /\ n \notin ListHeads
    BY <1>1, BPlusAssumption DEF Bare, ListHead, ListHeads
  <1>6. /\ Frame(b, u) /\ u.node = b.node /\ DOMAIN u.link = DOMAIN b.link \cup {n}
        /\ u.link = Added(t.link, n, ListHead(0), t.link[ListHead(0)].next)
    <2> DEFINE H == ListHead(0)
               next == b.link[H].next
    <2>1. u = __list_add(b, n, H, next)
      BY <1>17 DEF list_add
    <2> HIDE DEF u, H, next
    <2>2. /\ Frame(b, u) /\ u.node = b.node /\ DOMAIN u.link = DOMAIN b.link \cup {n}
          /\ u.link = Added(b.link, n, H, next)
      BY <1>5, <2>1, ListAddEffect
    <2> QED  BY <1>5, <2>2 DEF H, next
  <1>18. Rooted(t.link, u.link, n, ListHead(0))
    <2>1. Ring(t.link) /\ n \notin DOMAIN t.link /\ ListHead(0) \in DOMAIN t.link
          /\ t.link[ListHead(0)].next = ListHead(0)
      BY <1>17 DEF Bare
    <2> HIDE DEF u
    <2> QED  BY <1>6, <2>1, RootedAdded
  <1> HIDE DEF u
  <1>7. /\ DOMAIN u = Fields /\ u.root = n /\ u.level = 0 /\ u.ok = TRUE
        /\ u.order = t.order /\ u.entries = t.entries /\ N(u) = {n} /\ u.node[n] = leaf
        /\ DOMAIN u.link = {n} \cup ListHeads
    BY <1>4, <1>5, <1>6 DEF Frame, Bare, N
  <1>8. /\ NodeFormed(u, n) /\ is_leaf(u, n) /\ K(u, n) = <<k>> /\ D(u, n) = <<d>>
        /\ P(u, n) = NULL
    <2>1. <<k>> \in Seq(Int) /\ <<d>> \in Seq(Int) /\ Len(<<d>>) = Len(<<k>>) /\ -1 \in Int
      OBVIOUS
    <2>2. LeafRec(u.node[n], <<k>>, <<d>>, NULL, -1) /\ NULL \in N(u) \cup {NULL}
      BY <1>3, <1>7
    <2> QED  BY <2>1, <2>2, LeafRecFormed
  <1>9. Leafs(u) = {n} /\ Inner(u) = {}
    BY <1>7, <1>8 DEF Leafs, Inner
  <1>10. Formed(u)
    <2>1. IsFiniteSet({n})
      BY FS_Singleton
    <2> QED  BY <1>1, <1>7, <1>8, <2>1 DEF Formed, Fields
  <1>11. Heights(u, h)
    BY <1>7, <1>8, <1>9 DEF Heights
  <1>12. Routes(u, R)
    <2>1. Sorted(K(u, n)) /\ \A i \in 1..Len(K(u, n)) : K(u, n)[i] \in Int
      BY <1>8 DEF Sorted
    <2>2. R[n] = Int /\ Int # {}
      OBVIOUS
    <2> HIDE DEF R
    <2> QED  BY <1>7, <1>9, <2>1, <2>2 DEF Routes
  <1>13. Parents(u)
    BY <1>7, <1>8, <1>9 DEF Parents
  <1>14. TreeInv(u, h, R)
    BY <1>10, <1>11, <1>12, <1>13 DEF TreeInv
  <1>15. Sound(u, t.order, t.entries)
    <2>1. Fill(u, n)
      BY <1>7, <1>8 DEF Fill, Bare
    <2> QED  BY <1>7, <2>1 DEF Sound, Bare
  <1>16. Filed(u) = {<<k, d>>}
    <2>1. \A x, y : Has(u, x, y) <=> x = k /\ y = d
      <3>1. Len(K(u, n)) = 1 /\ K(u, n)[1] = k /\ D(u, n)[1] = d
        BY <1>8
      <3> SUFFICES ASSUME NEW x, NEW y PROVE Has(u, x, y) <=> x = k /\ y = d
        OBVIOUS
      <3>2. Has(u, x, y) <=> \E i \in 1..1 : K(u, n)[i] = x /\ D(u, n)[i] = y
        BY <1>9, <3>1 DEF Has
      <3>3. 1..1 = {1}
        OBVIOUS
      <3> QED  BY <3>1, <3>2, <3>3
    <2> QED  BY <2>1 DEF Filed
  <1>19. Listed(u)
    <2>1. DOMAIN u.link = N(u) \cup ListHeads /\ Ring(u.link)
      BY <1>7, <1>18 DEF Rooted
    <2>2. Strung(u)
      <3>1. ~\E l \in 1..u.level : TRUE
        BY <1>7
      <3> QED  BY <1>9, <3>1 DEF Strung, Above
    <2>3. ASSUME NEW l \in 0..(MaxLevel - 1), l > u.level PROVE u.link[ListHead(l)].next = ListHead(l)
      <3>1. ListHead(l) \in ListHeads /\ ListHead(l) # ListHead(0)
        BY <1>7, <2>3 DEF ListHeads, ListHead
      <3> QED  BY <1>18, <3>1 DEF Rooted, Bare
    <2>4. Crowned(u)
      BY <1>7, <1>18, <2>3 DEF Crowned, Nx, Rooted
    <2> QED  BY <2>1, <2>2, <2>4 DEF Listed
  <1> QED  BY <1>2, <1>14, <1>15, <1>16, <1>19 DEF InLists

-----------------------------------------------------------------------------
\* What every put keeps.
Grown(t) == \E h, R : TreeInv(t, h, R)
TreeState(t) == Bare(t) \/ (Grown(t) /\ Sound(t, t.order, t.entries) /\ InLists(t))

\* An empty tree files nothing.
LEMMA BareFiled ==
  ASSUME NEW t, Bare(t)
  PROVE  Filed(t) = {}
  BY DEF Bare, Filed, Has, Leafs

\* A put into any tree that puts have built.
LEMMA PutKeeps ==
  ASSUME NEW t, TreeState(t), NEW k \in Int, NEW d \in Int, ~exists(t, k)
  PROVE  LET u == bplus_tree_insert(t, k, d)
         IN /\ TreeState(u) /\ u.order = t.order /\ u.entries = t.entries
            /\ Filed(u) = Filed(t) \cup {<<k, d>>}
  <1> DEFINE u == bplus_tree_insert(t, k, d)
  <1>1. /\ Sound(u, t.order, t.entries) /\ Grown(u) /\ InLists(u)
        /\ Filed(u) = Filed(t) \cup {<<k, d>>}
    <2>1. CASE Bare(t)
      BY <2>1, FirstLeafFact, BareFiled DEF Grown
    <2>2. CASE Grown(t) /\ Sound(t, t.order, t.entries) /\ InLists(t)
      BY <2>2, InsertKeeps, ZenonT(60) DEF Grown
    <2> QED  BY <2>1, <2>2 DEF TreeState
  <1>2. u.order = t.order /\ u.entries = t.entries
    BY <1>1 DEF Sound
  <1> QED  BY <1>1, <1>2 DEF TreeState

-----------------------------------------------------------------------------
\* The inductive invariant.
BuiltInv ==
  /\ reply \in {0, -1}
  /\ TreeState(tree)
  /\ <<tree.order, tree.entries>> \in Shapes
  /\ Filed(tree) \subseteq Inputs

\* The invariant holds of the empty tree.
LEMMA BuiltInit == Init => BuiltInv
  <1> SUFFICES ASSUME Init PROVE BuiltInv
    OBVIOUS
  <1>1. PICK s \in Shapes : tree = EmptyTree(s[1], s[2])
    BY DEF Init
  <1>2. s[1] \in Nat \ 0..2 /\ s[2] \in Nat \ {0} /\ <<s[1], s[2]>> = s
    BY BPlusAssumption
  <1>3. /\ DOMAIN tree = Fields /\ tree.root = NULL /\ tree.node = <<>> /\ tree.level = 0
        /\ tree.ok = TRUE /\ tree.order = s[1] /\ tree.entries = s[2]
        /\ tree.link = [h \in ListHeads |-> [prev |-> h, next |-> h]]
    BY <1>1 DEF EmptyTree, Fields
  <1>4. N(tree) = {} /\ DOMAIN tree.link = ListHeads
    <2>1. DOMAIN tree.link = ListHeads
      BY <1>3
    <2>2. tree.node = <<>>
      BY <1>3
    <2>3. DOMAIN <<>> = {}
      OBVIOUS
    <2> QED  BY <2>1, <2>2, <2>3 DEF N
  <1>7. Ring(tree.link) /\ \A x \in ListHeads : tree.link[x].next = x
    <2> DEFINE k == [h \in ListHeads |-> [prev |-> h, next |-> h]]
    <2>1. \A x \in ListHeads : /\ DOMAIN k[x] = {"prev", "next"} /\ k[x].prev = x /\ k[x].next = x
      OBVIOUS
    <2>2. DOMAIN k = ListHeads
      OBVIOUS
    <2> HIDE DEF k
    <2>3. Ring(k)
      BY <2>1, <2>2 DEF Ring
    <2> QED  BY <1>3, <2>1, <2>3 DEF k
  <1>5. Bare(tree)
    BY <1>2, <1>3, <1>4, <1>7 DEF Bare
  <1>6. Filed(tree) = {}
    BY <1>5, BareFiled
  <1> QED  BY <1>2, <1>3, <1>5, <1>6 DEF BuiltInv, TreeState, Init

\* A put keeps the invariant.
LEMMA BuiltPut ==
  ASSUME BuiltInv, NEW kd \in Inputs, Put(kd[1], kd[2])
  PROVE  BuiltInv' /\ Filed(tree)' = Filed(tree) \cup {kd}
  <1>1. PICK k \in Int, d \in Int : kd = <<k, d>> /\ kd[1] = k /\ kd[2] = d
    BY BPlusAssumption
  <1>2. tree' = bplus_tree_insert(tree, k, d) /\ ~exists(tree, k) /\ reply' = 0
    BY <1>1 DEF Put
  <1>3. /\ TreeState(tree') /\ tree'.order = tree.order /\ tree'.entries = tree.entries
        /\ Filed(tree') = Filed(tree) \cup {kd}
    <2>1. TreeState(tree)
      BY DEF BuiltInv
    <2>2. LET u == bplus_tree_insert(tree, k, d)
          IN /\ TreeState(u) /\ u.order = tree.order /\ u.entries = tree.entries
             /\ Filed(u) = Filed(tree) \cup {<<k, d>>}
      BY <1>2, <2>1, PutKeeps
    <2> QED  BY <1>1, <1>2, <2>2
  <1>4. TreeState(tree)' = TreeState(tree') /\ Filed(tree)' = Filed(tree')
    OBVIOUS
  <1> QED  BY <1>2, <1>3 DEF BuiltInv

-----------------------------------------------------------------------------
\* What the invariant says of the properties.

\* An empty tree has no nodes.
LEMMA BareNodes ==
  ASSUME Bare(tree)
  PROVE  Nodes = {} /\ Leaves = {} /\ NonLeaves = {} /\ tree.root = NULL
  BY DEF Bare, Nodes, Leaves, NonLeaves, N

\* The nodes by the names of the model.
LEMMA SameNodes == Nodes = N(tree) /\ Leaves = Leafs(tree) /\ NonLeaves = Inner(tree)
  BY DEF Nodes, Leaves, NonLeaves, N, Leafs, Inner

\* What is stored by the name of the model.
LEMMA StoredIsFiled ==
  ASSUME TreeState(tree)
  PROVE  stored = Filed(tree)
  <1>1. CASE Bare(tree)
    BY <1>1, BareNodes, BareFiled DEF stored
  <1>2. CASE Grown(tree)
    <2>1. PICK h, R : TreeInv(tree, h, R)
      BY <1>2 DEF Grown
    <2>2. \A n \in Leafs(tree) : /\ K(tree, n) \in Seq(Int) /\ D(tree, n) \in Seq(Int)
                                 /\ Len(D(tree, n)) = Len(K(tree, n))
      BY <2>1 DEF TreeInv, Formed, NodeFormed, Leafs
    <2>3. \A n \in Leafs(tree) : \A i \in 1..Len(K(tree, n)) :
            K(tree, n)[i] \in Int /\ D(tree, n)[i] \in Int
      BY <2>2
    <2>4. stored = UNION {{<<K(tree, n)[i], D(tree, n)[i]>> : i \in 1..Len(K(tree, n))} : n \in Leafs(tree)}
      BY SameNodes DEF stored, K, D, entries
    <2>5. ASSUME NEW kd \in stored PROVE kd \in Filed(tree)
      <3>1. PICK n \in Leafs(tree) : kd \in {<<K(tree, n)[i], D(tree, n)[i]>> : i \in 1..Len(K(tree, n))}
        BY <2>4, <2>5
      <3>2. PICK i \in 1..Len(K(tree, n)) : kd = <<K(tree, n)[i], D(tree, n)[i]>>
        BY <3>1
      <3>3. Has(tree, K(tree, n)[i], D(tree, n)[i])
        BY DEF Has
      <3> QED  BY <2>3, <3>2, <3>3 DEF Filed
    <2>6. ASSUME NEW kd \in Filed(tree) PROVE kd \in stored
      <3>1. PICK k \in Int, d \in Int : kd = <<k, d>> /\ Has(tree, k, d)
        BY <2>6 DEF Filed
      <3>2. PICK n \in Leafs(tree) : \E i \in 1..Len(K(tree, n)) : K(tree, n)[i] = k /\ D(tree, n)[i] = d
        BY <3>1 DEF Has
      <3>3. kd \in {<<K(tree, n)[i], D(tree, n)[i]>> : i \in 1..Len(K(tree, n))}
        BY <3>1, <3>2
      <3> QED  BY <2>4, <3>3
    <2> QED  BY <2>5, <2>6
  <1> QED  BY <1>1, <1>2 DEF TreeState

\* No assertion has failed in such a tree.
LEMMA InvNoAssertFails ==
  ASSUME TreeState(tree)
  PROVE  NoAssertFails
  BY DEF TreeState, Bare, Sound, NoAssertFails

\* Every child in such a tree knows its parent and its index.
LEMMA InvParentsExact ==
  ASSUME TreeState(tree)
  PROVE  ParentsExact
  <1>1. CASE Bare(tree)
    BY <1>1, BareNodes DEF ParentsExact
  <1>2. CASE Grown(tree)
    <2>1. PICK h, R : TreeInv(tree, h, R)
      BY <1>2 DEF Grown
    <2>2. tree.node[tree.root].parent = NULL
      BY <2>1 DEF TreeInv, Parents, P
    <2>3. ASSUME NEW p \in NonLeaves, NEW i \in Indices(tree.node[p].sub_ptr)
          PROVE  LET child == tree.node[At(tree.node[p].sub_ptr, i)]
                 IN child.parent = p /\ child.parent_key_idx = i - 1
      <3>1. p \in Inner(tree)
        BY SameNodes
      <3>2. S(tree, p) \in Seq(N(tree))
        BY <3>1, <2>1 DEF TreeInv, Formed, NodeFormed, Inner
      <3>3. i + 1 \in 1..Len(S(tree, p)) /\ (i + 1) - 2 = i - 1
        BY <3>2 DEF Indices, S
      <3>4. P(tree, S(tree, p)[i + 1]) = p /\ X(tree, S(tree, p)[i + 1]) = i - 1
        BY <2>1, <3>1, <3>3 DEF TreeInv, Parents, Owns
      <3> QED  BY <3>4 DEF P, X, S, At
    <2> QED  BY <2>2, <2>3 DEF ParentsExact
  <1> QED  BY <1>1, <1>2 DEF TreeState

\* The nodes of such a tree hold at least what they must.
LEMMA InvOccupancy ==
  ASSUME TreeState(tree)
  PROVE  Occupancy
  <1>1. CASE Bare(tree)
    BY <1>1, BareNodes DEF Occupancy
  <1>2. CASE Grown(tree) /\ Sound(tree, tree.order, tree.entries)
    <2>1. \A n \in N(tree) : Fill(tree, n)
      BY <1>2 DEF Sound
    <2>2. \A n \in Leaves : n \in N(tree) /\ is_leaf(tree, n) /\ entries(tree, n) = Len(K(tree, n))
      BY DEF Leaves, Nodes, N, entries, K
    <2>3. \A n \in NonLeaves : n \in N(tree) /\ ~is_leaf(tree, n) /\ children(tree, n) = Len(S(tree, n))
      BY DEF NonLeaves, Leaves, Nodes, N, children, S
    <2>4. \A n \in Leaves \ {tree.root} : entries(tree, n) >= Half(tree.entries)
      BY <2>1, <2>2 DEF Fill, FullFill
    <2>5. \A n \in NonLeaves : children(tree, n) >= 2
      BY <2>1, <2>3 DEF Fill, FullFill
    <2>6. \A n \in NonLeaves \ {tree.root} : children(tree, n) >= tree.order \div 2
      BY <2>1, <2>3 DEF Fill, FullFill
    <2> QED  BY <2>4, <2>5, <2>6 DEF Occupancy
  <1> QED  BY <1>1, <1>2 DEF TreeState

\* The bound of the level apart: see TypeCorrect.
LEMMA InvTypeOK ==
  ASSUME TreeState(tree), reply \in {0, -1}, tree.level < MaxLevel
  PROVE  TypeOK
  <1>0. tree.level \in Nat /\ tree.level \in 0..(MaxLevel - 1)
    <2>1. tree.level \in Nat
      BY DEF TreeState, Bare, Grown, TreeInv, Formed
    <2> QED  BY <2>1, BPlusAssumption
  <1>1. CASE Bare(tree)
    BY <1>0, <1>1, BareNodes DEF TypeOK, Bare
  <1>2. CASE Grown(tree) /\ Sound(tree, tree.order, tree.entries)
    <2>1. PICK h, R : TreeInv(tree, h, R)
      BY <1>2 DEF Grown
    <2>2. tree.root \in Nodes /\ DOMAIN tree.link = Nodes \cup ListHeads
      BY <1>2, <2>1, SameNodes DEF TreeInv, Formed, Sound
    <2>3. \A n \in Nodes : tree.node[n].parent \in NonLeaves \cup {NULL}
      <3> SUFFICES ASSUME NEW n \in Nodes PROVE tree.node[n].parent \in NonLeaves \cup {NULL}
        OBVIOUS
      <3>1. CASE n = tree.root
        BY <2>1, <3>1 DEF TreeInv, Parents, P
      <3>2. CASE n # tree.root
        BY <2>1, <3>2, SameNodes DEF TreeInv, Parents, Owned, P
      <3> QED  BY <3>1, <3>2
    <2>4. ASSUME NEW n \in Leaves
          PROVE  Len(tree.node[n].data) = entries(tree, n) /\ entries(tree, n) <= tree.entries
      <3>1. n \in N(tree) /\ is_leaf(tree, n)
        BY DEF Leaves, Nodes, N
      <3>2. NodeFormed(tree, n) /\ Fill(tree, n)
        BY <1>2, <2>1, <3>1 DEF TreeInv, Formed, Sound
      <3>3. Len(D(tree, n)) = Len(K(tree, n)) /\ Len(K(tree, n)) \in 1..tree.entries
        BY <3>1, <3>2 DEF NodeFormed, Fill, FullFill
      <3> QED  BY <3>3 DEF D, K, entries
    <2>5. ASSUME NEW n \in NonLeaves
          PROVE  /\ children(tree, n) = entries(tree, n) + 1 /\ children(tree, n) <= tree.order
                 /\ ToSet(tree.node[n].sub_ptr) \subseteq Nodes
      <3>1. n \in N(tree) /\ ~is_leaf(tree, n)
        BY DEF NonLeaves, Leaves, Nodes, N
      <3>2. NodeFormed(tree, n) /\ Fill(tree, n)
        BY <1>2, <2>1, <3>1 DEF TreeInv, Formed, Sound
      <3>3. /\ S(tree, n) \in Seq(N(tree)) /\ Len(S(tree, n)) = Len(K(tree, n)) + 1
            /\ Len(S(tree, n)) \in 2..tree.order
        BY <3>1, <3>2 DEF NodeFormed, Fill, FullFill
      <3>4. ToSet(S(tree, n)) \subseteq N(tree)
        BY <3>3 DEF ToSet
      <3> QED  BY <3>3, <3>4, SameNodes DEF S, K, entries, children
    <2> QED  BY <1>0, <2>2, <2>3, <2>4, <2>5 DEF TypeOK
  <1> QED  BY <1>1, <1>2 DEF TreeState

-----------------------------------------------------------------------------
\* The keys below a node.
Below(f, t) ==
  f = [n \in N(t) |-> IF is_leaf(t, n) THEN ToSet(K(t, n)) ELSE UNION {f[c] : c \in ToSet(S(t, n))}]

\* f is right for the nodes up to height i.
BelowUpto(f, t, h, i) ==
  \A n \in N(t) : h[n] <= i =>
     f[n] = IF is_leaf(t, n) THEN ToSet(K(t, n)) ELSE UNION {f[c] : c \in ToSet(S(t, n))}

\* A child stands somewhere among the children.
LEMMA ChildSet ==
  ASSUME NEW t, NEW h, NEW R, TreeInv(t, h, R), NEW p \in Inner(t), NEW c \in ToSet(S(t, p))
  PROVE  \E i \in 1..Len(S(t, p)) : c = S(t, p)[i] /\ c \in N(t) /\ h[c] = h[p] - 1
  <1>1. PICK i \in 1..Len(S(t, p)) : c = S(t, p)[i]
    BY DEF ToSet
  <1> QED  BY <1>1, ChildFacts

\* The keys below a node are defined, since the tree has no cycle.
LEMMA BelowExists ==
  ASSUME NEW t, NEW h, NEW R, TreeInv(t, h, R)
  PROVE  \E f : Below(f, t)
  <1> DEFINE T == {i \in Nat : ~\E f : BelowUpto(f, t, h, i)}
  <1>0. /\ \A n \in N(t) : h[n] \in 0..t.level /\ (is_leaf(t, n) <=> h[n] = 0)
        /\ t.level \in Nat
    BY DEF TreeInv, Heights, Formed
  <1>1. \E f : BelowUpto(f, t, h, 0)
    <2> DEFINE f == [n \in N(t) |-> ToSet(K(t, n))]
    <2>1. \A n \in N(t) : h[n] <= 0 => is_leaf(t, n)
      BY <1>0
    <2>2. BelowUpto(f, t, h, 0)
      BY <2>1 DEF BelowUpto
    <2> QED  BY <2>2
  <1>2. ASSUME NEW i \in Nat, NEW f, BelowUpto(f, t, h, i)
        PROVE  \E g : BelowUpto(g, t, h, i + 1)
    <2> DEFINE body(n) == IF is_leaf(t, n) THEN ToSet(K(t, n)) ELSE UNION {f[c] : c \in ToSet(S(t, n))}
               g == [n \in N(t) |-> body(n)]
    <2>1. \A n \in N(t) : h[n] <= i => g[n] = f[n]
      BY <1>2 DEF BelowUpto
    <2>2. \A n \in N(t) : g[n] = body(n)
      OBVIOUS
    <2> HIDE DEF g
    <2>3. ASSUME NEW n \in N(t), h[n] <= i + 1
          PROVE  g[n] = IF is_leaf(t, n) THEN ToSet(K(t, n)) ELSE UNION {g[c] : c \in ToSet(S(t, n))}
      <3>1. CASE is_leaf(t, n)
        BY <2>2, <3>1
      <3>2. CASE ~is_leaf(t, n)
        <4>1. n \in Inner(t) /\ h[n] \in Int
          BY <1>0, <3>2 DEF Inner
        <4>2. \A c \in ToSet(S(t, n)) : c \in N(t) /\ h[c] = h[n] - 1
          BY <4>1, ChildSet
        <4>3. h[n] - 1 <= i
          BY <2>3, <4>1
        <4>4. \A c \in ToSet(S(t, n)) : g[c] = f[c]
          BY <2>1, <4>2, <4>3
        <4>5. {g[c] : c \in ToSet(S(t, n))} = {f[c] : c \in ToSet(S(t, n))}
          BY <4>4
        <4> QED  BY <2>2, <3>2, <4>5
      <3> QED  BY <3>1, <3>2
    <2>4. BelowUpto(g, t, h, i + 1)
      BY <2>3 DEF BelowUpto
    <2> QED  BY <2>4
  <1>3. T = {}
    <2>1. SUFFICES ASSUME T # {} PROVE FALSE
      OBVIOUS
    <2>2. PICK i \in T : \A j \in T : i <= j
      BY <2>1, LeastNumber
    <2>3. i # 0
      BY <1>1, <2>2
    <2>4. i - 1 \in Nat /\ i - 1 \notin T /\ (i - 1) + 1 = i
      BY <2>2, <2>3
    <2> QED  BY <1>2, <2>2, <2>4
  <1>4. PICK f : BelowUpto(f, t, h, t.level)
    BY <1>0, <1>3
  <1> DEFINE g == [n \in N(t) |-> IF is_leaf(t, n) THEN ToSet(K(t, n)) ELSE UNION {f[c] : c \in ToSet(S(t, n))}]
  <1>5. \A n \in N(t) : g[n] = f[n]
    <2>1. \A n \in N(t) : h[n] <= t.level
      BY <1>0
    <2> QED  BY <1>4, <2>1 DEF BelowUpto
  <1>6. \A n \in N(t) : g[n] = IF is_leaf(t, n) THEN ToSet(K(t, n)) ELSE UNION {f[c] : c \in ToSet(S(t, n))}
    OBVIOUS
  <1>7. g = [n \in N(t) |-> g[n]]
    OBVIOUS
  <1> HIDE DEF g
  <1>8. ASSUME NEW n \in N(t)
        PROVE  g[n] = IF is_leaf(t, n) THEN ToSet(K(t, n)) ELSE UNION {g[c] : c \in ToSet(S(t, n))}
    <2>1. CASE is_leaf(t, n)
      BY <1>6, <2>1
    <2>2. CASE ~is_leaf(t, n)
      <3>1. n \in Inner(t)
        BY <2>2 DEF Inner
      <3>2. \A c \in ToSet(S(t, n)) : c \in N(t)
        BY <3>1, ChildSet
      <3>3. {g[c] : c \in ToSet(S(t, n))} = {f[c] : c \in ToSet(S(t, n))}
        BY <1>5, <3>2
      <3> QED  BY <1>6, <2>2, <3>3
    <2> QED  BY <2>1, <2>2
  <1>9. Below(g, t)
    BY <1>7, <1>8 DEF Below
  <1> QED  BY <1>9

\* They are among the keys that the node looks after.
LEMMA BelowRange ==
  ASSUME NEW t, NEW h, NEW R, TreeInv(t, h, R), NEW f, Below(f, t)
  PROVE  \A n \in N(t) : f[n] \subseteq R[n]
  <1> DEFINE T == {i \in Nat : \E n \in N(t) : h[n] = i /\ ~(f[n] \subseteq R[n])}
  <1>0. \A n \in N(t) : h[n] \in Nat
    BY DEF TreeInv, Heights
  <1>1. \A n \in N(t) : f[n] = IF is_leaf(t, n) THEN ToSet(K(t, n)) ELSE UNION {f[c] : c \in ToSet(S(t, n))}
    BY DEF Below
  <1>2. SUFFICES ASSUME T # {} PROVE FALSE
    BY <1>0
  <1>3. PICK i \in T : \A j \in T : i <= j
    BY <1>2, LeastNumber
  <1>4. PICK n \in N(t) : h[n] = i /\ ~(f[n] \subseteq R[n])
    BY <1>3
  <1>5. CASE is_leaf(t, n)
    <2>1. n \in Leafs(t) /\ f[n] = ToSet(K(t, n))
      BY <1>1, <1>5 DEF Leafs
    <2>2. \A j \in 1..Len(K(t, n)) : K(t, n)[j] \in R[n]
      BY <2>1 DEF TreeInv, Routes
    <2> QED  BY <1>4, <2>1, <2>2 DEF ToSet
  <1>6. CASE ~is_leaf(t, n)
    <2>1. n \in Inner(t) /\ f[n] = UNION {f[c] : c \in ToSet(S(t, n))}
      BY <1>1, <1>6 DEF Inner
    <2>2. PICK c \in ToSet(S(t, n)) : ~(f[c] \subseteq R[n])
      BY <1>4, <2>1
    <2>3. PICK j \in 1..Len(S(t, n)) : c = S(t, n)[j]
      BY DEF ToSet
    <2>4. c \in N(t) /\ h[c] = h[n] - 1 /\ R[c] = Route(K(t, n), R[n], j)
      BY <2>1, <2>3, ChildFacts
    <2>5. R[c] \subseteq R[n]
      BY <2>4 DEF Route
    <2>6. h[c] \in T
      BY <1>0, <2>2, <2>4, <2>5
    <2> QED  BY <1>0, <1>3, <1>4, <2>4, <2>6
  <1> QED  BY <1>5, <1>6

\* The keys of such a tree are on the right side of every separator.
LEMMA InvSeparatorsRoute ==
  ASSUME TreeState(tree)
  PROVE  SeparatorsRoute
  <1>1. CASE Bare(tree)
    BY <1>1, BareNodes DEF SeparatorsRoute
  <1>2. CASE Grown(tree)
    <2>1. PICK h, R : TreeInv(tree, h, R)
      BY <1>2 DEF Grown
    <2>2. Below(under, tree)
      <3>1. PICK f : Below(f, tree)
        BY <2>1, BelowExists
      <3>2. f = [n \in Nodes |-> IF is_leaf(tree, n) THEN ToSet(tree.node[n].key)
                                ELSE UNION {f[c] : c \in ToSet(tree.node[n].sub_ptr)}]
        BY <3>1, SameNodes DEF Below, K, S
      <3>3. under = [n \in Nodes |-> IF is_leaf(tree, n) THEN ToSet(tree.node[n].key)
                                    ELSE UNION {under[c] : c \in ToSet(tree.node[n].sub_ptr)}]
        BY <3>2 DEF under
      <3> QED  BY <3>3, SameNodes DEF Below, K, S
    <2>3. \A n \in N(tree) : under[n] \subseteq R[n]
      BY <2>1, <2>2, BelowRange
    <2>4. ASSUME NEW n \in Nodes PROVE Ascending(tree.node[n].key)
      <3>1. Sorted(K(tree, n)) /\ K(tree, n) \in Seq(Int)
        BY <2>1, NodeSorted, SameNodes
      <3>2. \A i \in 1..(Len(K(tree, n)) - 1) : i \in 1..Len(K(tree, n)) /\ i + 1 \in 1..Len(K(tree, n)) /\ i < i + 1
        BY <3>1
      <3> QED  BY <3>1, <3>2 DEF Ascending, Sorted, K
    <2>5. ASSUME NEW p \in NonLeaves, NEW i \in Indices(tree.node[p].key)
          PROVE  LET separator == At(tree.node[p].key, i)
                 IN /\ \A k \in under[At(tree.node[p].sub_ptr, i)] : k < separator
                    /\ \A k \in under[At(tree.node[p].sub_ptr, i + 1)] : k >= separator
      <3> DEFINE sep == K(tree, p)[i + 1]
      <3>1. p \in Inner(tree)
        BY SameNodes
      <3>2. K(tree, p) \in Seq(Int) /\ Len(S(tree, p)) = Len(K(tree, p)) + 1
        BY <3>1, <2>1 DEF TreeInv, Formed, NodeFormed, Inner
      <3>3. /\ i + 1 \in 1..Len(K(tree, p)) /\ i + 1 \in 1..Len(S(tree, p)) /\ i + 2 \in 1..Len(S(tree, p))
            /\ ~(i + 1 < i + 1) /\ i + 1 < i + 2 /\ (i + 1) + 1 = i + 2
        BY <3>2 DEF Indices, K
      <3>4. R[S(tree, p)[i + 1]] = Route(K(tree, p), R[p], i + 1) /\ S(tree, p)[i + 1] \in N(tree)
        BY <2>1, <3>1, <3>3, ChildFacts
      <3>5. R[S(tree, p)[i + 2]] = Route(K(tree, p), R[p], i + 2) /\ S(tree, p)[i + 2] \in N(tree)
        BY <2>1, <3>1, <3>3, ChildFacts
      <3>6. \A k \in R[S(tree, p)[i + 1]] : k < sep
        BY <3>3, <3>4 DEF Route
      <3>7. \A k \in R[S(tree, p)[i + 2]] : sep <= k
        BY <3>3, <3>5 DEF Route
      <3>8. \A n \in N(tree) : R[n] \subseteq Int
        BY <2>1 DEF TreeInv, Routes
      <3>9. sep \in Int
        BY <3>2, <3>3
      <3> HIDE DEF sep
      <3>10. \A k \in under[S(tree, p)[i + 1]] : k < sep
        BY <2>3, <3>4, <3>6
      <3>11. \A k \in under[S(tree, p)[i + 2]] : k >= sep
        <4>1. \A k \in R[S(tree, p)[i + 2]] : k >= sep
          BY <3>5, <3>7, <3>8, <3>9
        <4> QED  BY <2>3, <3>5, <4>1
      <3>12. /\ At(tree.node[p].key, i) = sep /\ At(tree.node[p].sub_ptr, i) = S(tree, p)[i + 1]
             /\ At(tree.node[p].sub_ptr, i + 1) = S(tree, p)[i + 2]
        BY <3>3 DEF At, sep, K, S
      <3> QED  BY <3>10, <3>11, <3>12
    <2> QED  BY <2>4, <2>5 DEF SeparatorsRoute
  <1> QED  BY <1>1, <1>2 DEF TreeState

-----------------------------------------------------------------------------
\* The map that the tree implements.

\* The positions of the abstract index are those that are filed.
LEMMA MapPositions ==
  ASSUME TreeState(tree), Filed(tree) \subseteq Inputs, NEW k
  PROVE  Map!PositionsOf(k) = {d \in {kd[2] : kd \in Inputs} : <<k, d>> \in Filed(tree)}
  BY StoredIsFiled DEF Map!PositionsOf

\* get answers with what is filed.
LEMMA InvGetAnswers ==
  ASSUME TreeState(tree), Filed(tree) \subseteq Inputs
  PROVE  GetAnswers
  <1> SUFFICES ASSUME NEW k \in Probes PROVE bplus_tree_get(tree, k) \in Map!Answers(k)
    BY DEF GetAnswers
  <1>1. k \in Int
    BY BPlusAssumption
  <1>2. \/ <<k, bplus_tree_get(tree, k)>> \in Filed(tree)
        \/ bplus_tree_get(tree, k) = -1 /\ ~\E d : <<k, d>> \in Filed(tree)
    <2>1. CASE Bare(tree)
      <3>1. bplus_tree_get(tree, k) = -1
        BY <2>1 DEF Bare, bplus_tree_get
      <3> QED  BY <2>1, <3>1, BareFiled
    <2>2. CASE Grown(tree)
      BY <1>1, <2>2, GetFiled DEF Grown
    <2> QED  BY <2>1, <2>2 DEF TreeState
  <1>3. \A d : <<k, d>> \in Filed(tree) => d \in {kd[2] : kd \in Inputs}
    <2> SUFFICES ASSUME NEW d, <<k, d>> \in Filed(tree) PROVE d \in {kd[2] : kd \in Inputs}
      OBVIOUS
    <2>1. <<k, d>> \in Inputs /\ <<k, d>>[2] = d
      OBVIOUS
    <2> QED  BY <2>1
  <1>4. Map!PositionsOf(k) = {d \in {kd[2] : kd \in Inputs} : <<k, d>> \in Filed(tree)}
    BY MapPositions
  <1>5. CASE <<k, bplus_tree_get(tree, k)>> \in Filed(tree)
    <2>1. bplus_tree_get(tree, k) \in Map!PositionsOf(k)
      BY <1>3, <1>4, <1>5
    <2> QED  BY <2>1 DEF Map!Answers
  <1>6. CASE bplus_tree_get(tree, k) = -1 /\ ~\E d : <<k, d>> \in Filed(tree)
    <2>1. Map!PositionsOf(k) = {}
      BY <1>4, <1>6
    <2> QED  BY <1>6, <2>1 DEF Map!Answers, Map!NotFound
  <1> QED  BY <1>2, <1>5, <1>6

\* The key exists if something is filed under it.
LEMMA ExistsStored ==
  ASSUME TreeState(tree), NEW k \in Int
  PROVE  exists(tree, k) <=> \E d : <<k, d>> \in Filed(tree)
  <1>1. CASE Bare(tree)
    <2>1. ~exists(tree, k)
      BY <1>1 DEF Bare, exists
    <2> QED  BY <1>1, <2>1, BareFiled
  <1>2. CASE Grown(tree)
    BY <1>2, ExistsFiled DEF Grown
  <1> QED  BY <1>1, <1>2 DEF TreeState

\* Every step keeps the invariant.
LEMMA BuiltStep ==
  ASSUME BuiltInv, [BuildNext]_vars
  PROVE  BuiltInv'
  <1>1. CASE UNCHANGED vars
    BY <1>1 DEF BuiltInv, vars
  <1>2. CASE BuildNext
    <2>1. PICK kd \in Inputs : Put(kd[1], kd[2]) \/ PutExisting(kd[1])
      BY <1>2 DEF BuildNext
    <2>2. CASE Put(kd[1], kd[2])
      BY <2>2, BuiltPut
    <2>3. CASE PutExisting(kd[1])
      BY <2>3 DEF PutExisting, BuiltInv
    <2> QED  BY <2>1, <2>2, <2>3
  <1> QED  BY <1>1, <1>2

\* The inductive invariant holds of every tree that the benchmark builds.
THEOREM AlwaysBuilt == BuildSpec => []BuiltInv
  <1>1. Init => BuiltInv
    BY BuiltInit
  <1>2. BuiltInv /\ [BuildNext]_vars => BuiltInv'
    BY BuiltStep
  <1> QED  BY <1>1, <1>2, PTL DEF BuildSpec

\* Every node but the root knows its parent and which key of it it hangs off, after
\* any sequence of puts: parent_node_build and the splits of bplustree.cpp, lines 104 to 468.
THEOREM ParentsRight == BuildSpec => []ParentsExact
  <1>1. BuiltInv => ParentsExact
    BY InvParentsExact DEF BuiltInv
  <1> QED  BY <1>1, AlwaysBuilt, PTL

\* The keys of every node ascend, and every separator has the smaller keys on its
\* left and the others on its right, after any sequence of puts.
THEOREM SeparatorsRight == BuildSpec => []SeparatorsRoute
  <1>1. BuiltInv => SeparatorsRoute
    BY InvSeparatorsRoute DEF BuiltInv
  <1> QED  BY <1>1, AlwaysBuilt, PTL

\* No node but the root ever holds less than the smaller part of a split.
THEOREM NodesFilled == BuildSpec => []Occupancy
  <1>1. BuiltInv => Occupancy
    BY InvOccupancy DEF BuiltInv
  <1> QED  BY <1>1, AlwaysBuilt, PTL

\* No assertion on the way of a put fails, for any order and capacity.
THEOREM AssertsHold == BuildSpec => []NoAssertFails
  <1>1. BuiltInv => NoAssertFails
    BY InvNoAssertFails DEF BuiltInv
  <1> QED  BY <1>1, AlwaysBuilt, PTL

\* bplus_tree_get answers every key with the position it was put under, or with -1.
THEOREM GetsRight == BuildSpec => []GetAnswers
  <1>1. BuiltInv => GetAnswers
    BY InvGetAnswers DEF BuiltInv
  <1> QED  BY <1>1, AlwaysBuilt, PTL

\* Nodes hold no more than the arrays of the code, links and parents lead to
\* allocated nodes, as long as the tree is no higher than it has list heads: the
\* code does not check BPLUS_MAX_LEVEL.
THEOREM TypeCorrect == BuildSpec => [](tree.level < MaxLevel => TypeOK)
  <1>1. BuiltInv => (tree.level < MaxLevel => TypeOK)
    BY InvTypeOK DEF BuiltInv
  <1> QED  BY <1>1, AlwaysBuilt, PTL

\* The empty tree is the empty map.
LEMMA MapInit == Init => Map!Init
  <1> SUFFICES ASSUME Init PROVE Map!Init
    OBVIOUS
  <1>1. BuiltInv
    BY BuiltInit
  <1>2. stored = {}
    <2>1. tree.node = <<>>
      BY DEF Init, EmptyTree
    <2>2. DOMAIN <<>> = {}
      OBVIOUS
    <2>3. Leaves = {}
      BY <2>1, <2>2 DEF Leaves, Nodes
    <2> QED  BY <2>3 DEF stored
  <1> QED  BY <1>2 DEF Map!Init, Map!Success, Init

\* What is stored in the next state.
LEMMA StoredNext == TreeState(tree)' => (stored = Filed(tree))'
  <1>1. TreeState(tree) => stored = Filed(tree)
    BY StoredIsFiled
  <1> QED  BY <1>1, PTL

\* A put of the tree is a put of the map.
LEMMA MapPut ==
  ASSUME BuiltInv, NEW kd \in Inputs, Put(kd[1], kd[2])
  PROVE  Map!Put(kd[1], kd[2])
  <1>1. PICK k \in Int, d \in Int : kd = <<k, d>> /\ kd[1] = k /\ kd[2] = d
    BY BPlusAssumption
  <1>2. ~exists(tree, k) /\ reply' = 0
    BY <1>1 DEF Put
  <1>3. Map!PositionsOf(k) = {}
    BY <1>2, ExistsStored, MapPositions DEF BuiltInv
  <1>4. BuiltInv' /\ Filed(tree)' = Filed(tree) \cup {kd}
    BY BuiltPut
  <1>5. stored = Filed(tree)
    BY StoredIsFiled DEF BuiltInv
  <1>6. stored' = Filed(tree)'
    <2>1. TreeState(tree)'
      BY <1>4 DEF BuiltInv
    <2> QED  BY <2>1, StoredNext
  <1> QED  BY <1>1, <1>2, <1>3, <1>4, <1>5, <1>6 DEF Map!Put, Map!Success

\* A refused put of the tree is one of the map.
LEMMA MapRefuse ==
  ASSUME BuiltInv, NEW k \in Int, PutExisting(k)
  PROVE  Map!RefusePut(k)
  <1>1. PICK d : <<k, d>> \in Filed(tree)
    BY ExistsStored DEF BuiltInv, PutExisting
  <1>2. <<k, d>> \in Inputs /\ <<k, d>>[2] = d
    BY <1>1 DEF BuiltInv
  <1>3. d \in Map!PositionsOf(k)
    BY <1>1, <1>2, MapPositions DEF BuiltInv
  <1>4. stored' = stored
    BY DEF PutExisting, stored, Leaves, Nodes, is_leaf, entries
  <1> QED  BY <1>3, <1>4 DEF Map!RefusePut, Map!NotFound, PutExisting

\* Every step of the tree is one of the map, or none.
LEMMA MapStep ==
  ASSUME BuiltInv, [BuildNext]_vars
  PROVE  [Map!Next]_(Map!vars)
  <1>1. CASE UNCHANGED vars
    <2>1. stored' = stored /\ reply' = reply
      BY <1>1 DEF vars, stored, Leaves, Nodes, is_leaf, entries
    <2> QED  BY <2>1 DEF Map!vars
  <1>2. CASE BuildNext
    <2>1. PICK kd \in Inputs : Put(kd[1], kd[2]) \/ PutExisting(kd[1])
      BY <1>2 DEF BuildNext
    <2>2. kd[1] \in Probes /\ kd[1] \in Int /\ kd[2] \in {x[2] : x \in Inputs}
      BY BPlusAssumption
    <2>3. CASE Put(kd[1], kd[2])
      <3>1. Map!Put(kd[1], kd[2])
        BY <2>3, MapPut
      <3> QED  BY <2>2, <3>1 DEF Map!Next
    <2>4. CASE PutExisting(kd[1])
      <3>1. Map!RefusePut(kd[1])
        BY <2>2, <2>4, MapRefuse
      <3> QED  BY <2>2, <3>1 DEF Map!Next
    <2> QED  BY <2>1, <2>3, <2>4
  <1> QED  BY <1>1, <1>2

\* The tree implements the abstract index, split by split: every put that leaf_insert
\* carries out or refuses is a put or a refused put of IndexMap, with its reply.
THEOREM TreeImplementsMap == BuildSpec => ImplementsIndexMap
  <1>1. Init => Map!Init
    BY MapInit
  <1>2. BuiltInv /\ [BuildNext]_vars => [Map!Next]_(Map!vars)
    BY MapStep
  <1> QED  BY <1>1, <1>2, AlwaysBuilt, PTL DEF BuildSpec, ImplementsIndexMap, Map!Spec
=============================================================================
