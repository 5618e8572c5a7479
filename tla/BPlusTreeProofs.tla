-------------------------- MODULE BPlusTreeProofs --------------------------
(***************************************************************************)
(* What makes the nodes of bplustree.cpp a tree, and what keeps them one.  *)
(*                                                                         *)
(* TreeInv(t, h, R) says that t is a search tree: h gives every node its   *)
(* height (the children of a node are one lower, the leaves are at 0) and  *)
(* R the keys that may be filed below it (the separators divide the range  *)
(* of a node among its children).  The code keeps neither, so an invariant *)
(* says that some h and R exist, and a lemma about an operation tells how  *)
(* they change.                                                            *)
(*                                                                         *)
(* The operations on trees are few here: a node is split in two or two are *)
(* merged (SplitKeeps and MergeKeeps), a leaf gains or loses entries       *)
(* (LeavesKeep), and a root gets a new root above it or is dropped         *)
(* (RootAdded, RootDropped).  BPlusPutProofs shows which of them each      *)
(* branch of a put amounts to.                                             *)
(***************************************************************************)
EXTENDS BPlusTree, FiniteSetTheorems, FunctionTheorems, SequenceTheorems, TLAPS

-----------------------------------------------------------------------------
\* Numbers and recursive functions.

\* A set of numbers that has an element has a least one.
LEMMA LeastNumber ==
  ASSUME NEW T, T \subseteq Nat, T # {}
  PROVE  \E n \in T : \A m \in T : n <= m
  <1>1. IsWellFoundedOn(OpToRel(<, Nat), Nat)
    BY NatLessThanWellFounded
  <1>2. \E n \in T : \A m \in T : ~(<<m, n>> \in OpToRel(<, Nat))
    BY <1>1, WFMin
  <1>3. PICK n \in T : \A m \in T : ~(<<m, n>> \in OpToRel(<, Nat))
    BY <1>2
  <1>4. \A m \in T : ~(m < n)
    BY <1>3 DEF OpToRel
  <1>5. \A m \in T : n <= m
    BY <1>4
  <1> QED  BY <1>5

\* A loop that goes from x to next[x] until it comes to a place of stop.
Walk(f, D, stop, end, next) ==
  f = [x \in D |-> IF x \in stop THEN end[x] ELSE f[next[x]]]

\* If each step goes down in rank, there is a function that tells where it ends.
LEMMA WalkExists ==
  ASSUME NEW D, NEW stop, NEW end, NEW next, NEW rank,
         \A x \in D : rank[x] \in Nat,
         \A x \in D \ stop : next[x] \in D /\ rank[next[x]] < rank[x]
  PROVE  \E f : Walk(f, D, stop, end, next)
  <1> DEFINE Upto(f, n) ==
        \A x \in D : rank[x] <= n => f[x] = IF x \in stop THEN end[x] ELSE f[next[x]]
      T == {n \in Nat : ~\E f : Upto(f, n)}
  <1>1. ASSUME NEW n \in Nat, NEW f, Upto(f, n)
        PROVE  \E g : Upto(g, n + 1)
    <2> DEFINE g == [x \in D |-> IF x \in stop THEN end[x] ELSE f[next[x]]]
    <2>1. \A x \in D : g[x] = IF x \in stop THEN end[x] ELSE f[next[x]]
      OBVIOUS
    <2> HIDE DEF g
    <2>2. \A x \in D : rank[x] <= n => g[x] = f[x]
      BY <1>1, <2>1
    <2>3. ASSUME NEW x \in D, rank[x] <= n + 1, x \notin stop
          PROVE  g[x] = g[next[x]]
      <3>1. next[x] \in D /\ rank[next[x]] <= n
        BY <2>3
      <3> QED  BY <2>1, <2>2, <2>3, <3>1
    <2>4. Upto(g, n + 1)
      BY <2>1, <2>3
    <2> QED  BY <2>4
  <1>2. \E f : Upto(f, 0)
    <2> DEFINE g == [x \in D |-> end[x]]
    <2>1. \A x \in D : rank[x] <= 0 => x \in stop
      OBVIOUS
    <2>2. Upto(g, 0)
      BY <2>1
    <2> QED  BY <2>2
  <1>3. T = {}
    <2>1. SUFFICES ASSUME T # {} PROVE FALSE
      OBVIOUS
    <2> HIDE DEF Upto
    <2>2. PICK n \in T : \A j \in T : n <= j
      BY <2>1, LeastNumber
    <2>3. n # 0
      BY <1>2, <2>2
    <2>4. n - 1 \in Nat /\ n - 1 \notin T /\ (n - 1) + 1 = n
      BY <2>2, <2>3
    <2> QED  BY <1>1, <2>2, <2>4
  <1> HIDE DEF Upto
  <1> DEFINE Best(n) == CHOOSE f : Upto(f, n)
  <1>4. \A n \in Nat : Upto(Best(n), n)
    BY <1>3
  <1> HIDE DEF Best
  <1>5. \A n \in Nat : \A x \in D : rank[x] <= n =>
          Best(n)[x] = IF x \in stop THEN end[x] ELSE Best(n)[next[x]]
    BY <1>4 DEF Upto
  <1>6. \A m, n \in Nat : \A x \in D : rank[x] <= m /\ rank[x] <= n => Best(m)[x] = Best(n)[x]
    <2> SUFFICES ASSUME NEW m \in Nat, NEW n \in Nat
                 PROVE  \A x \in D : rank[x] <= m /\ rank[x] <= n => Best(m)[x] = Best(n)[x]
      OBVIOUS
    <2> DEFINE U == {i \in Nat : \E x \in D : /\ rank[x] = i /\ i <= m /\ i <= n
                                               /\ Best(m)[x] # Best(n)[x]}
    <2>1. SUFFICES ASSUME U # {} PROVE FALSE
      OBVIOUS
    <2>2. PICK i \in U : \A j \in U : i <= j
      BY <2>1, LeastNumber
    <2>3. PICK x \in D : /\ rank[x] = i /\ i <= m /\ i <= n
                         /\ Best(m)[x] # Best(n)[x]
      BY <2>2
    <2>4. x \notin stop
      BY <1>5, <2>3
    <2>5. next[x] \in D /\ rank[next[x]] < i /\ rank[next[x]] \in Nat
      BY <2>3, <2>4
    <2>6. Best(m)[next[x]] # Best(n)[next[x]]
      BY <1>5, <2>3, <2>4
    <2>7. rank[next[x]] \in U
      BY <2>2, <2>3, <2>5, <2>6
    <2> QED  BY <2>2, <2>5, <2>7
  <1> DEFINE f == [x \in D |-> Best(rank[x])[x]]
  <1>7. ASSUME NEW x \in D
        PROVE  f[x] = IF x \in stop THEN end[x] ELSE f[next[x]]
    <2>1. CASE x \in stop
      BY <1>5, <2>1
    <2>2. CASE x \notin stop
      <3>1. next[x] \in D /\ rank[next[x]] < rank[x] /\ rank[next[x]] \in Nat /\ rank[x] \in Nat
        BY <2>2
      <3>2. Best(rank[x])[x] = Best(rank[x])[next[x]]
        BY <1>5, <2>2, <3>1
      <3>3. Best(rank[x])[next[x]] = Best(rank[next[x]])[next[x]]
        BY <1>6, <3>1
      <3> QED  BY <2>2, <3>1, <3>2, <3>3
    <2> QED  BY <2>1, <2>2
  <1>8. f = [x \in D |-> IF x \in stop THEN end[x] ELSE f[next[x]]]
    <2>1. f = [x \in D |-> f[x]]
      OBVIOUS
    <2> HIDE DEF f
    <2> QED  BY <1>7, <2>1
  <1> HIDE DEF f
  <1> QED  BY <1>8 DEF Walk

\* A walk that starts in a set of places that no step leaves ends in it.
LEMMA WalkEnds ==
  ASSUME NEW D, NEW stop, NEW end, NEW next, NEW rank, NEW f, NEW Good,
         \A x \in D : rank[x] \in Nat,
         \A x \in D \ stop : next[x] \in D /\ rank[next[x]] < rank[x],
         Walk(f, D, stop, end, next),
         Good \subseteq D,
         \A x \in Good \ stop : next[x] \in Good
  PROVE  \A x \in Good : \E y \in Good \cap stop : f[x] = end[y]
  <1> DEFINE T == {n \in Nat : \E x \in Good : /\ rank[x] = n
                                               /\ ~\E y \in Good \cap stop : f[x] = end[y]}
  <1>0. \A x \in D : f[x] = IF x \in stop THEN end[x] ELSE f[next[x]]
    BY DEF Walk
  <1>1. SUFFICES ASSUME T # {} PROVE FALSE
    OBVIOUS
  <1>2. PICK n \in T : \A j \in T : n <= j
    BY <1>1, LeastNumber
  <1>3. PICK x \in Good : rank[x] = n /\ ~\E y \in Good \cap stop : f[x] = end[y]
    BY <1>2
  <1>4. x \in D /\ x \notin stop
    BY <1>0, <1>3
  <1>5. next[x] \in Good /\ rank[next[x]] < n /\ rank[next[x]] \in Nat /\ f[x] = f[next[x]]
    BY <1>0, <1>3, <1>4
  <1>6. rank[next[x]] \in T
    BY <1>3, <1>5
  <1> QED  BY <1>2, <1>5, <1>6

-----------------------------------------------------------------------------
\* The search in a node.

\* The keys of a node: each is smaller than those behind it.
Sorted(s) == \A i, j \in 1..Len(s) : i < j => s[i] < s[j]

\* a keys of s are smaller than k, and the others greater.
Fits(s, a, k) ==
  /\ a \in 0..Len(s)
  /\ \A i \in 1..a : s[i] < k
  /\ \A i \in (a + 1)..Len(s) : k < s[i]

\* The search yields an index between its bounds that has the smaller keys
\* on its left and no smaller key on its right.
LEMMA SearchPlace ==
  ASSUME NEW s \in Seq(Int), Sorted(s), NEW k \in Int
  PROVE  \E high \in 0..Len(s) :
           /\ high > 0 => s[high] < k
           /\ high < Len(s) => ~(s[high + 1] < k)
           /\ key_binary_search(s, k) =
                IF high >= Len(s) \/ s[high + 1] # k THEN -high - 1 ELSE high
  <1> DEFINE D == (-1..Len(s)) \X (0..Len(s))
             mid(w) == w[1] + (w[2] - w[1]) \div 2
             stop == {w \in D : w[1] + 1 >= w[2]}
             end == [w \in D |-> w[2]]
             next == [w \in D |-> IF k > s[mid(w) + 1] THEN <<mid(w), w[2]>> ELSE <<w[1], mid(w)>>]
             rank == [w \in D |-> IF w[2] >= w[1] THEN w[2] - w[1] ELSE 0]
             Good == {w \in D : /\ w[1] < w[2]
                                /\ w[1] >= 0 => s[w[1] + 1] < k
                                /\ w[2] < Len(s) => ~(s[w[2] + 1] < k)}
             g == CHOOSE g : g = [w \in D |-> IF w[1] + 1 >= w[2] THEN w[2]
                                   ELSE IF k > s[mid(w) + 1] THEN g[<<mid(w), w[2]>>]
                                   ELSE g[<<w[1], mid(w)>>]]
  <1>1. ASSUME NEW w \in D \ stop
        PROVE  /\ mid(w) \in (w[1] + 1)..(w[2] - 1)
               /\ mid(w) + 1 \in 1..Len(s)
               /\ next[w] \in D
               /\ rank[next[w]] < rank[w]
    <2>1. w[1] \in -1..Len(s) /\ w[2] \in 0..Len(s) /\ w[1] + 1 < w[2]
      OBVIOUS
    <2>2. mid(w) \in (w[1] + 1)..(w[2] - 1)
      <3>1. \A x \in Nat : x >= 2 => x \div 2 \in 1..(x - 1)
        OBVIOUS
      <3>2. w[2] - w[1] \in Nat /\ w[2] - w[1] >= 2
        BY <2>1
      <3> DEFINE y == (w[2] - w[1]) \div 2
      <3>3. y \in 1..(w[2] - w[1] - 1)
        BY <3>1, <3>2
      <3> HIDE DEF y
      <3>4. w[1] + y \in (w[1] + 1)..(w[2] - 1)
        BY <2>1, <3>3
      <3> QED  BY <3>4 DEF y
    <2> HIDE DEF mid
    <2>3. mid(w) + 1 \in 1..Len(s) /\ mid(w) \in -1..Len(s) /\ mid(w) \in 0..Len(s)
      BY <2>1, <2>2
    <2>4. <<mid(w), w[2]>> \in D /\ <<w[1], mid(w)>> \in D
      BY <2>1, <2>3
    <2>5. next[w] \in {<<mid(w), w[2]>>, <<w[1], mid(w)>>}
      OBVIOUS
    <2> HIDE DEF next
    <2>6. rank[w] = w[2] - w[1] /\ rank[<<mid(w), w[2]>>] = w[2] - mid(w)
          /\ rank[<<w[1], mid(w)>>] = mid(w) - w[1]
      BY <2>1, <2>2, <2>4
    <2> HIDE DEF rank
    <2>7. rank[next[w]] < rank[w]
      <3>1. /\ w[1] \in Int /\ w[2] \in Int /\ mid(w) \in Int
            /\ w[1] < mid(w) /\ mid(w) < w[2]
        BY <2>1, <2>2
      <3>2. w[2] - mid(w) < w[2] - w[1] /\ mid(w) - w[1] < w[2] - w[1]
        BY <3>1
      <3>3. CASE next[w] = <<mid(w), w[2]>>
        BY <2>6, <3>2, <3>3
      <3>4. CASE next[w] = <<w[1], mid(w)>>
        BY <2>6, <3>2, <3>4
      <3> QED  BY <2>5, <3>3, <3>4
    <2> QED  BY <2>2, <2>3, <2>4, <2>5, <2>7
  <1>2. \A w \in D : rank[w] \in Nat
    <2>1. \A w \in D : w[1] \in Int /\ w[2] \in Int
      OBVIOUS
    <2> QED  BY <2>1
  <1>3. \A f : Walk(f, D, stop, end, next) <=>
               f = [w \in D |-> IF w[1] + 1 >= w[2] THEN w[2]
                                   ELSE IF k > s[mid(w) + 1] THEN f[<<mid(w), w[2]>>]
                                   ELSE f[<<w[1], mid(w)>>]]
    <2> SUFFICES ASSUME NEW f
                 PROVE  [x \in D |-> IF x \in stop THEN end[x] ELSE f[next[x]]]
                        = [w \in D |-> IF w[1] + 1 >= w[2] THEN w[2]
                                   ELSE IF k > s[mid(w) + 1] THEN f[<<mid(w), w[2]>>]
                                   ELSE f[<<w[1], mid(w)>>]]
      BY DEF Walk
    <2> HIDE DEF D, mid
    <2> QED  OBVIOUS
  <1>4. Walk(g, D, stop, end, next)
    <2>1. \E f : Walk(f, D, stop, end, next)
      <3> HIDE DEF D, mid, stop, end, next, rank, g
      <3> QED  BY <1>1, <1>2, WalkExists
    <2>2. PICK f : Walk(f, D, stop, end, next)
      BY <2>1
    <2> HIDE DEF D, mid, stop, end, next
    <2> QED  BY <1>3, <2>2
  <1>5. Good \subseteq D
    OBVIOUS
  <1>6. ASSUME NEW w \in Good \ stop
        PROVE  next[w] \in Good
    <2>1. w \in D \ stop
      OBVIOUS
    <2>2. mid(w) \in (w[1] + 1)..(w[2] - 1) /\ mid(w) + 1 \in 1..Len(s) /\ next[w] \in D
      BY <1>1, <2>1
    <2>3. w[1] \in Int /\ w[2] \in Int /\ mid(w) \in Int /\ s[mid(w) + 1] \in Int
      BY <2>1, <2>2
    <2> HIDE DEF mid
    <2>4. CASE k > s[mid(w) + 1]
      <3>1. next[w] = <<mid(w), w[2]>>
        BY <2>1, <2>4
      <3>2. <<mid(w), w[2]>> \in Good
        BY <2>1, <2>2, <2>3, <2>4, <3>1
      <3> QED  BY <3>1, <3>2
    <2>5. CASE ~(k > s[mid(w) + 1])
      <3>1. next[w] = <<w[1], mid(w)>>
        BY <2>1, <2>5
      <3>2. <<w[1], mid(w)>> \in Good
        BY <2>1, <2>2, <2>3, <2>5, <3>1
      <3> QED  BY <3>1, <3>2
    <2> QED  BY <2>4, <2>5
  <1>7. <<-1, Len(s)>> \in Good
    OBVIOUS
  <1>8. \E y \in Good \cap stop : g[<<-1, Len(s)>>] = end[y]
    <2>1. \A x \in Good : \E y \in Good \cap stop : g[x] = end[y]
      <3> HIDE DEF D, mid, stop, end, next, rank, g, Good
      <3> QED  BY <1>1, <1>2, <1>4, <1>5, <1>6, WalkEnds
    <2> HIDE DEF g, D, stop, end, Good
    <2> QED  BY <1>7, <2>1
  <1>9. PICK y \in Good \cap stop : g[<<-1, Len(s)>>] = end[y]
    BY <1>8
  <1> DEFINE high == y[2]
  <1>10. g[<<-1, Len(s)>>] = high
    BY <1>9
  <1>11. y[1] = high - 1 /\ high \in 0..Len(s) /\ y[1] \in Int
    OBVIOUS
  <1>12. /\ high > 0 => s[high] < k
         /\ high < Len(s) => ~(s[high + 1] < k)
    <2>1. /\ y[1] >= 0 => s[y[1] + 1] < k
          /\ y[2] < Len(s) => ~(s[y[2] + 1] < k)
      OBVIOUS
    <2> QED  BY <1>11, <2>1
  <1>13. key_binary_search(s, k) =
           LET h == g[<<-1, Len(s)>>] IN IF h >= Len(s) \/ s[h + 1] # k THEN -h - 1 ELSE h
    BY DEF key_binary_search, At
  <1> HIDE DEF g, high
  <1> QED  BY <1>10, <1>11, <1>12, <1>13

\* A key that is there is found at its index.
LEMMA SearchFinds ==
  ASSUME NEW s \in Seq(Int), Sorted(s), NEW i \in 1..Len(s)
  PROVE  key_binary_search(s, s[i]) = i - 1
  <1>1. PICK high \in 0..Len(s) :
           /\ high > 0 => s[high] < s[i]
           /\ high < Len(s) => ~(s[high + 1] < s[i])
           /\ key_binary_search(s, s[i]) =
                IF high >= Len(s) \/ s[high + 1] # s[i] THEN -high - 1 ELSE high
    <2>1. s[i] \in Int
      OBVIOUS
    <2> QED  BY <2>1, SearchPlace
  <1>2. \A j \in 1..Len(s) : s[j] \in Int
    OBVIOUS
  <1>3. high < i
    <2>1. SUFFICES ASSUME high >= i PROVE FALSE
      OBVIOUS
    <2>2. s[i] < s[high] \/ high = i
      BY <2>1 DEF Sorted
    <2> QED  BY <1>1, <1>2, <2>1, <2>2
  <1>4. ~(high + 1 < i)
    <2>1. SUFFICES ASSUME high + 1 < i PROVE FALSE
      OBVIOUS
    <2>2. s[high + 1] < s[i] /\ high < Len(s)
      BY <2>1 DEF Sorted
    <2> QED  BY <1>1, <2>2
  <1>5. high + 1 = i
    BY <1>3, <1>4
  <1> QED  BY <1>1, <1>5

\* For a key that is not there the search tells where it belongs.
LEMMA SearchMisses ==
  ASSUME NEW s \in Seq(Int), Sorted(s), NEW k \in Int, NEW a, Fits(s, a, k)
  PROVE  key_binary_search(s, k) = -a - 1
  <1>1. PICK high \in 0..Len(s) :
           /\ high > 0 => s[high] < k
           /\ high < Len(s) => ~(s[high + 1] < k)
           /\ key_binary_search(s, k) =
                IF high >= Len(s) \/ s[high + 1] # k THEN -high - 1 ELSE high
    BY SearchPlace
  <1>2. a \in 0..Len(s) /\ (\A j \in 1..Len(s) : s[j] \in Int /\ s[j] # k)
    BY DEF Fits
  <1>3. ~(high > a)
    BY <1>1, <1>2 DEF Fits
  <1>4. ~(high < a)
    BY <1>1, <1>2 DEF Fits
  <1>5. high = a
    BY <1>2, <1>3, <1>4
  <1> QED  BY <1>1, <1>2, <1>5

\* Every key is there or has a place.
LEMMA KeyPlace ==
  ASSUME NEW s \in Seq(Int), Sorted(s), NEW k \in Int
  PROVE  (\E i \in 1..Len(s) : s[i] = k) \/ (\E a \in 0..Len(s) : Fits(s, a, k))
  <1>1. PICK high \in 0..Len(s) :
           /\ high > 0 => s[high] < k
           /\ high < Len(s) => ~(s[high + 1] < k)
    BY SearchPlace
  <1>2. \A j \in 1..Len(s) : s[j] \in Int
    OBVIOUS
  <1>3. CASE high < Len(s) /\ s[high + 1] = k
    BY <1>3
  <1>4. CASE ~(high < Len(s) /\ s[high + 1] = k)
    <2>1. \A i \in 1..high : s[i] < k
      BY <1>1, <1>2 DEF Sorted
    <2>2. \A i \in (high + 1)..Len(s) : k < s[i]
      <3>1. high < Len(s) => k < s[high + 1]
        BY <1>1, <1>2, <1>4
      <3> QED  BY <1>2, <3>1 DEF Sorted
    <2>3. Fits(s, high, k)
      BY <2>1, <2>2 DEF Fits
    <2> QED  BY <2>3
  <1> QED  BY <1>3, <1>4

-----------------------------------------------------------------------------
\* What makes a tree.

\* The fields of a node.
N(t) == DOMAIN t.node
K(t, n) == t.node[n].key
D(t, n) == t.node[n].data
S(t, n) == t.node[n].sub_ptr
P(t, n) == t.node[n].parent
X(t, n) == t.node[n].parent_key_idx

Inner(t) == {n \in N(t) : ~is_leaf(t, n)}
Leafs(t) == {n \in N(t) : is_leaf(t, n)}

\* The records have their fields and the fields their types.
NodeFormed(t, n) ==
  /\ DOMAIN t.node[n] = {"type", "parent", "parent_key_idx", "key"}
                        \cup IF is_leaf(t, n) THEN {"data"} ELSE {"sub_ptr"}
  /\ K(t, n) \in Seq(Int)
  /\ is_leaf(t, n) => D(t, n) \in Seq(Int) /\ Len(D(t, n)) = Len(K(t, n))
  /\ ~is_leaf(t, n) => S(t, n) \in Seq(N(t)) /\ Len(S(t, n)) = Len(K(t, n)) + 1
  /\ P(t, n) \in N(t) \cup {NULL}
  /\ X(t, n) \in Int

Formed(t) ==
  /\ DOMAIN t = {"order", "entries", "level", "root", "node", "link", "ok"}
  /\ N(t) \subseteq Nat \ {0}
  /\ IsFiniteSet(N(t))
  /\ t.level \in Nat
  /\ t.root \in N(t)
  /\ \A n \in N(t) : NodeFormed(t, n)

\* h is the height of each node above the leaves, which are all at the bottom.
Heights(t, h) ==
  /\ h[t.root] = t.level
  /\ \A n \in N(t) : h[n] \in 0..t.level /\ (is_leaf(t, n) <=> h[n] = 0)
  /\ \A p \in Inner(t) : \A i \in 1..Len(S(t, p)) : h[S(t, p)[i]] = h[p] - 1

\* What of the keys rp goes to child number i of a node.
Route(keys, rp, i) ==
  {k \in rp : \A j \in 1..Len(keys) : IF j < i THEN keys[j] <= k ELSE k < keys[j]}

\* R is the set of keys, stored or not, for which the descent passes a node.
Routes(t, R) ==
  /\ R[t.root] = Int
  /\ \A n \in N(t) : R[n] # {} /\ R[n] \subseteq Int
  /\ \A p \in Inner(t) : \A i \in 1..Len(S(t, p)) :
       R[S(t, p)[i]] = Route(K(t, p), R[p], i)
  /\ \A n \in Leafs(t) : Sorted(K(t, n)) /\ \A i \in 1..Len(K(t, n)) : K(t, n)[i] \in R[n]

\* The children of p know where they are.
Owns(t, p) ==
  \A i \in 1..Len(S(t, p)) : P(t, S(t, p)[i]) = p /\ X(t, S(t, p)[i]) = i - 2

\* n is where it says it is.
Owned(t, n) ==
  /\ P(t, n) \in Inner(t)
  /\ X(t, n) + 2 \in 1..Len(S(t, P(t, n)))
  /\ S(t, P(t, n))[X(t, n) + 2] = n

Parents(t) ==
  /\ P(t, t.root) = NULL
  /\ \A p \in Inner(t) : Owns(t, p)
  /\ \A n \in N(t) \ {t.root} : Owned(t, n)

TreeInv(t, h, R) == Formed(t) /\ Heights(t, h) /\ Routes(t, R) /\ Parents(t)

\* What is known of a child.
LEMMA ChildFacts ==
  ASSUME NEW t, NEW h, NEW R, TreeInv(t, h, R), NEW p \in Inner(t), NEW i \in 1..Len(S(t, p))
  PROVE  LET c == S(t, p)[i]
         IN /\ c \in N(t) /\ c # p /\ c # t.root
            /\ P(t, c) = p /\ X(t, c) = i - 2
            /\ h[c] = h[p] - 1 /\ h[p] \in 1..t.level
            /\ R[c] = Route(K(t, p), R[p], i)
  <1>1. p \in N(t) /\ ~is_leaf(t, p) /\ t.level \in Nat /\ 0 \notin N(t) /\ NodeFormed(t, p)
    BY DEF TreeInv, Formed, Inner
  <1>2. S(t, p)[i] \in N(t)
    BY <1>1 DEF NodeFormed
  <1>3. P(t, S(t, p)[i]) = p /\ X(t, S(t, p)[i]) = i - 2
    BY DEF TreeInv, Parents, Owns
  <1>4. S(t, p)[i] # t.root
    BY <1>1, <1>3 DEF TreeInv, Parents, NULL
  <1>5. h[S(t, p)[i]] = h[p] - 1 /\ h[p] \in 0..t.level /\ h[p] # 0
    BY <1>1 DEF TreeInv, Heights
  <1>6. R[S(t, p)[i]] = Route(K(t, p), R[p], i)
    BY DEF TreeInv, Routes
  <1> QED  BY <1>1, <1>2, <1>3, <1>4, <1>5, <1>6

\* A node stands once among the children of all nodes.
LEMMA ChildOnce ==
  ASSUME NEW t, NEW h, NEW R, TreeInv(t, h, R),
         NEW p \in Inner(t), NEW i \in 1..Len(S(t, p)),
         NEW q \in Inner(t), NEW j \in 1..Len(S(t, q)),
         S(t, p)[i] = S(t, q)[j]
  PROVE  p = q /\ i = j
  <1>1. p = q
    BY ChildFacts
  <1>2. i - 2 = j - 2
    BY ChildFacts
  <1> QED  BY <1>1, <1>2

\* The keys of every node ascend, since every child has keys to look after.
LEMMA NodeSorted ==
  ASSUME NEW t, NEW h, NEW R, TreeInv(t, h, R), NEW n \in N(t)
  PROVE  Sorted(K(t, n)) /\ K(t, n) \in Seq(Int)
  <1>1. NodeFormed(t, n) /\ K(t, n) \in Seq(Int)
    BY DEF TreeInv, Formed, NodeFormed
  <1>2. CASE is_leaf(t, n)
    BY <1>1, <1>2 DEF TreeInv, Routes, Leafs
  <1>3. CASE ~is_leaf(t, n)
    <2>1. SUFFICES ASSUME NEW i \in 1..Len(K(t, n)), NEW j \in 1..Len(K(t, n)), i < j
                   PROVE  K(t, n)[i] < K(t, n)[j]
      BY <1>1 DEF Sorted
    <2>2. n \in Inner(t) /\ i + 1 \in 1..Len(S(t, n))
      BY <1>1, <1>3 DEF Inner, NodeFormed
    <2>3. /\ S(t, n)[i + 1] \in N(t)
          /\ R[S(t, n)[i + 1]] = Route(K(t, n), R[n], i + 1)
      BY <2>2, ChildFacts
    <2>4. PICK k \in R[S(t, n)[i + 1]] : k \in Int
      BY <2>3 DEF TreeInv, Routes
    <2>5. K(t, n)[i] <= k /\ k < K(t, n)[j]
      BY <2>1, <2>3, <2>4 DEF Route
    <2>6. K(t, n)[i] \in Int /\ K(t, n)[j] \in Int
      BY <1>1
    <2> QED  BY <2>4, <2>5, <2>6
  <1> QED  BY <1>2, <1>3

\* A node sends each key to the child behind the keys that are not greater.
LEMMA ChildIndex ==
  ASSUME NEW t, NEW h, NEW R, TreeInv(t, h, R), NEW p \in Inner(t), NEW k \in Int
  PROVE  \E a \in 1..Len(S(t, p)) :
           /\ child_for(t, p, k) = S(t, p)[a]
           /\ \A j \in 1..Len(K(t, p)) : IF j < a THEN K(t, p)[j] <= k ELSE k < K(t, p)[j]
  <1> DEFINE keys == K(t, p)
             m == key_binary_search(keys, k)
             a == IF m >= 0 THEN m + 2 ELSE -m
  <1>1. p \in N(t) /\ ~is_leaf(t, p)
    BY DEF Inner
  <1>2. Sorted(keys) /\ keys \in Seq(Int)
    BY <1>1, NodeSorted
  <1>3. NodeFormed(t, p) /\ Len(S(t, p)) = Len(keys) + 1
    BY <1>1 DEF TreeInv, Formed, NodeFormed
  <1>4. \A i \in 1..Len(keys) : keys[i] \in Int
    BY <1>2
  <1> HIDE DEF keys
  <1>5. /\ m \in Int
        /\ a \in 1..Len(S(t, p))
        /\ \A j \in 1..Len(keys) : IF j < a THEN keys[j] <= k ELSE k < keys[j]
    <2>1. CASE \E i \in 1..Len(keys) : keys[i] = k
      <3>1. PICK i \in 1..Len(keys) : keys[i] = k
        BY <2>1
      <3>2. m = i - 1
        BY <1>2, <3>1, SearchFinds
      <3>3. a = i + 1
        BY <3>2
      <3> HIDE DEF a, m
      <3>4. \A j \in 1..Len(keys) : IF j < a THEN keys[j] <= k ELSE k < keys[j]
        BY <1>2, <1>4, <3>1, <3>3 DEF Sorted
      <3> QED  BY <1>2, <1>3, <3>1, <3>2, <3>3, <3>4
    <2>2. CASE \E b \in 0..Len(keys) : Fits(keys, b, k)
      <3>1. PICK b \in 0..Len(keys) : Fits(keys, b, k)
        BY <2>2
      <3>2. m = -b - 1
        BY <1>2, <3>1, SearchMisses
      <3>3. a = b + 1
        BY <3>2
      <3> HIDE DEF a, m
      <3>4. \A j \in 1..Len(keys) : IF j < a THEN keys[j] <= k ELSE k < keys[j]
        BY <1>4, <3>1, <3>3 DEF Fits
      <3> QED  BY <1>2, <1>3, <3>1, <3>2, <3>3, <3>4
    <2> QED  BY <1>2, <2>1, <2>2, KeyPlace
  <1>6. child_for(t, p, k) = S(t, p)[a]
    <2>1. child_for(t, p, k) = S(t, p)[IF m >= 0 THEN m + 1 + 1 ELSE -m - 1 + 1]
      BY DEF child_for, K, S, At, keys
    <2>2. (m >= 0 => m + 1 + 1 = a) /\ (~(m >= 0) => -m - 1 + 1 = a)
      BY <1>5
    <2> HIDE DEF a, m
    <2> QED  BY <2>1, <2>2
  <1> HIDE DEF a, m
  <1> QED  BY <1>5, <1>6 DEF keys

\* A key that the node is to look after goes to the child that looks after it.
LEMMA ChildFor ==
  ASSUME NEW t, NEW h, NEW R, TreeInv(t, h, R), NEW p \in Inner(t), NEW k \in Int
  PROVE  \E i \in 1..Len(S(t, p)) : /\ child_for(t, p, k) = S(t, p)[i]
                                    /\ k \in R[p] => k \in R[S(t, p)[i]]
  <1>1. PICK a \in 1..Len(S(t, p)) :
           /\ child_for(t, p, k) = S(t, p)[a]
           /\ \A j \in 1..Len(K(t, p)) : IF j < a THEN K(t, p)[j] <= k ELSE k < K(t, p)[j]
    BY ChildIndex
  <1>2. R[S(t, p)[a]] = Route(K(t, p), R[p], a)
    BY ChildFacts
  <1>3. k \in R[p] => k \in R[S(t, p)[a]]
    BY <1>1, <1>2 DEF Route
  <1> QED  BY <1>1, <1>3

\* It is the only child that the key goes to.
LEMMA ChildOfKey ==
  ASSUME NEW t, NEW h, NEW R, TreeInv(t, h, R), NEW p \in Inner(t), NEW k \in Int,
         NEW j \in 1..Len(S(t, p)), k \in R[S(t, p)[j]]
  PROVE  child_for(t, p, k) = S(t, p)[j]
  <1>1. PICK a \in 1..Len(S(t, p)) :
           /\ child_for(t, p, k) = S(t, p)[a]
           /\ \A i \in 1..Len(K(t, p)) : IF i < a THEN K(t, p)[i] <= k ELSE k < K(t, p)[i]
    BY ChildIndex
  <1>2. p \in N(t) /\ ~is_leaf(t, p) /\ NodeFormed(t, p)
    BY DEF Inner, TreeInv, Formed
  <1>3. Len(S(t, p)) = Len(K(t, p)) + 1 /\ Len(K(t, p)) \in Nat
        /\ \A i \in 1..Len(K(t, p)) : K(t, p)[i] \in Int
    BY <1>2 DEF NodeFormed
  <1>4. R[S(t, p)[j]] = Route(K(t, p), R[p], j)
    BY ChildFacts
  <1>5. \A i \in 1..Len(K(t, p)) : IF i < j THEN K(t, p)[i] <= k ELSE k < K(t, p)[i]
    BY <1>4 DEF Route
  <1>6. ~(j < a)
    <2>1. SUFFICES ASSUME j < a PROVE FALSE
      OBVIOUS
    <2>2. j \in 1..Len(K(t, p)) /\ K(t, p)[j] <= k /\ k < K(t, p)[j]
      BY <1>1, <1>3, <1>5, <2>1
    <2> QED  BY <1>3, <2>2
  <1>7. ~(a < j)
    <2>1. SUFFICES ASSUME a < j PROVE FALSE
      OBVIOUS
    <2>2. a \in 1..Len(K(t, p)) /\ K(t, p)[a] <= k /\ k < K(t, p)[a]
      BY <1>1, <1>3, <1>5, <2>1
    <2> QED  BY <1>3, <2>2
  <1>8. a = j
    BY <1>3, <1>6, <1>7
  <1> QED  BY <1>1, <1>8

\* The same, seen from the child.
LEMMA ParentRoutes ==
  ASSUME NEW t, NEW h, NEW R, TreeInv(t, h, R), NEW k \in Int,
         NEW n \in N(t) \ {t.root}, k \in R[n]
  PROVE  \E p \in Inner(t) : child_for(t, p, k) = n /\ h[n] = h[p] - 1 /\ k \in R[p]
  <1>1. Owned(t, n)
    BY DEF TreeInv, Parents
  <1>2. PICK p \in Inner(t) : p = P(t, n) /\ X(t, n) + 2 \in 1..Len(S(t, p))
                             /\ S(t, p)[X(t, n) + 2] = n
    BY <1>1 DEF Owned
  <1>3. PICK j \in 1..Len(S(t, p)) : S(t, p)[j] = n
    BY <1>2
  <1>4. child_for(t, p, k) = n
    BY <1>2, <1>3, ChildOfKey, SMTT(30)
  <1>5. R[n] = Route(K(t, p), R[p], j) /\ h[n] = h[p] - 1
    BY <1>3, ChildFacts
  <1>6. k \in R[p]
    BY <1>5 DEF Route
  <1> QED  BY <1>4, <1>5, <1>6

\* The descent ends in the leaf that looks after the key.
LEMMA LeafFor ==
  ASSUME NEW t, NEW h, NEW R, TreeInv(t, h, R), NEW k \in Int
  PROVE  /\ leaf_for(t, k) \in Leafs(t)
         /\ k \in R[leaf_for(t, k)]
         /\ \A n \in Leafs(t) : k \in R[n] => leaf_for(t, k) = n
  <1> DEFINE A == N(t)
             stop == Leafs(t)
             end == [n \in A |-> n]
             next == [n \in A |-> child_for(t, n, k)]
             rank == h
             Good == {n \in A : k \in R[n]}
             d == CHOOSE d : d = [n \in A |-> IF is_leaf(t, n) THEN n ELSE d[child_for(t, n, k)]]
  <1>1. \A n \in A : rank[n] \in Nat /\ rank[n] <= t.level /\ t.level \in Nat
    BY DEF TreeInv, Heights, Formed
  <1>2. ASSUME NEW n \in A \ stop
        PROVE  next[n] \in A /\ rank[next[n]] < rank[n] /\ (n \in Good => next[n] \in Good)
    <2>1. n \in Inner(t)
      BY DEF Inner, Leafs
    <2>2. PICK i \in 1..Len(S(t, n)) : /\ child_for(t, n, k) = S(t, n)[i]
                                       /\ k \in R[n] => k \in R[S(t, n)[i]]
      BY <2>1, ChildFor
    <2>3. S(t, n)[i] \in N(t) /\ h[S(t, n)[i]] = h[n] - 1
      BY <2>1, ChildFacts
    <2>4. next[n] = S(t, n)[i]
      BY <2>2
    <2>5. rank[next[n]] < rank[n]
      BY <1>1, <2>3, <2>4
    <2> QED  BY <2>2, <2>3, <2>4, <2>5
  <1>3. \A f : Walk(f, A, stop, end, next) <=>
                 f = [n \in A |-> IF is_leaf(t, n) THEN n ELSE f[child_for(t, n, k)]]
    <2> SUFFICES ASSUME NEW f
                 PROVE  [x \in A |-> IF x \in stop THEN end[x] ELSE f[next[x]]]
                        = [n \in A |-> IF is_leaf(t, n) THEN n ELSE f[child_for(t, n, k)]]
      BY DEF Walk
    <2> QED  BY DEF Leafs
  <1>4. Walk(d, A, stop, end, next)
    <2>1. \E f : Walk(f, A, stop, end, next)
      <3> HIDE DEF A, stop, end, next, rank, d
      <3> QED  BY <1>1, <1>2, WalkExists
    <2>2. PICK f : Walk(f, A, stop, end, next)
      BY <2>1
    <2> HIDE DEF A, stop, end, next
    <2> QED  BY <1>3, <2>2
  <1>5. leaf_for(t, k) = d[t.root]
    BY DEF leaf_for, N
  <1> HIDE DEF d
  <1>6. \A n \in A : d[n] = IF n \in stop THEN end[n] ELSE d[next[n]]
    BY <1>4 DEF Walk
  <1>7. t.root \in Good
    BY DEF TreeInv, Formed, Routes
  <1>8. \E y \in Good \cap stop : d[t.root] = end[y]
    <2>1. \A x \in Good : \E y \in Good \cap stop : d[x] = end[y]
      <3>1. Good \subseteq A
        OBVIOUS
      <3> HIDE DEF A, stop, end, next, rank, Good
      <3> QED  BY <1>1, <1>2, <1>4, <3>1, WalkEnds
    <2> QED  BY <1>7, <2>1
  <1>9. leaf_for(t, k) \in Leafs(t) /\ k \in R[leaf_for(t, k)]
    BY <1>5, <1>8
  <1>10. \A n \in Good : d[n] = d[t.root]
    <2> DEFINE T == {i \in Nat : \E n \in Good : i = t.level - h[n] /\ d[n] # d[t.root]}
    <2>1. SUFFICES ASSUME T # {} PROVE FALSE
      <3>1. \A n \in Good : t.level - h[n] \in Nat
        BY <1>1
      <3> QED  BY <3>1
    <2>2. PICK i \in T : \A j \in T : i <= j
      BY <2>1, LeastNumber
    <2>3. PICK n \in Good : i = t.level - h[n] /\ d[n] # d[t.root]
      BY <2>2
    <2>4. n \in N(t) \ {t.root} /\ k \in R[n]
      BY <2>3
    <2>5. PICK p \in Inner(t) : child_for(t, p, k) = n /\ h[n] = h[p] - 1 /\ k \in R[p]
      BY <2>4, ParentRoutes
    <2>7. child_for(t, p, k) = n
      BY <2>5
    <2>8. h[n] = h[p] - 1
      BY <2>5
    <2>9. p \in A /\ p \notin stop /\ k \in R[p]
      BY <2>5 DEF Inner, Leafs
    <2>10. d[p] = d[n]
      BY <1>6, <2>7, <2>9
    <2>11. t.level - h[p] \in Nat /\ t.level - h[p] < i
      BY <1>1, <2>3, <2>4, <2>8, <2>9
    <2>12. t.level - h[p] \in T
      BY <2>3, <2>9, <2>10, <2>11
    <2> QED  BY <2>2, <2>11, <2>12
  <1>11. ASSUME NEW n \in Leafs(t), k \in R[n]
         PROVE  leaf_for(t, k) = n
    <2>1. n \in Good /\ n \in stop /\ n \in A
      BY <1>11 DEF Leafs
    <2>2. d[n] = n
      BY <1>6, <2>1
    <2> QED  BY <1>5, <1>10, <2>1, <2>2
  <1> QED  BY <1>9, <1>11

-----------------------------------------------------------------------------
\* A node is split, or two are merged.

\* s1 holds the first a elements of s, and s2 those behind the first b.
Cut(s, a, b, s1, s2) ==
  /\ Len(s1) = a /\ Len(s2) = Len(s) - b
  /\ \A j \in 1..a : s1[j] = s[j]
  /\ \A j \in 1..(Len(s) - b) : s2[j] = s[b + j]

\* s2 is s with e as element number a.
Entered(s, a, e, s2) ==
  /\ Len(s2) = Len(s) + 1
  /\ \A j \in 1..(Len(s) + 1) :
       s2[j] = IF j < a THEN s[j] ELSE IF j = a THEN e ELSE s[j - 1]

\* s2 is s with l and r in the place of element number a.
Paired(s, a, l, r, s2) ==
  /\ Len(s2) = Len(s) + 1
  /\ \A j \in 1..(Len(s) + 1) :
       s2[j] = IF j < a THEN s[j] ELSE IF j = a THEN l ELSE IF j = a + 1 THEN r ELSE s[j - 1]

\* The keys of a node send k to child number i.
Sends(keys, k, i) == \A j \in 1..Len(keys) : IF j < i THEN keys[j] <= k ELSE k < keys[j]

\* The same set, with the condition by its name.
LEMMA RouteSends ==
  \A keys, rp, i : Route(keys, rp, i) = {k \in rp : Sends(keys, k, i)}
  BY DEF Route, Sends

\* The routes before and after a separator is entered as number a.
RoutesDivide(keys, keys2, rp, a, sep) ==
  /\ \A i \in 1..(a - 1) : Route(keys2, rp, i) = Route(keys, rp, i)
  /\ Route(keys2, rp, a) = {k \in Route(keys, rp, a) : k < sep}
  /\ Route(keys2, rp, a + 1) = {k \in Route(keys, rp, a) : sep <= k}
  /\ \A i \in (a + 2)..(Len(keys) + 2) : Route(keys2, rp, i) = Route(keys, rp, i - 1)

\* The routes before and after separator number c leaves a node for its parent.
RoutesHalve(keys, keys1, keys2, rp, c) ==
  /\ \A i \in 1..c : Route(keys1, {k \in rp : k < keys[c]}, i) = Route(keys, rp, i)
  /\ \A i \in 1..(Len(keys) - c + 1) :
       Route(keys2, {k \in rp : keys[c] <= k}, i) = Route(keys, rp, c + i)

\* A new separator divides the keys of one child and leaves the others theirs.
LEMMA RouteEntered ==
  ASSUME NEW keys \in Seq(Int), NEW keys2 \in Seq(Int), NEW rp, rp \subseteq Int,
         NEW a \in 1..(Len(keys) + 1), NEW sep \in Int,
         Fits(keys, a - 1, sep), Entered(keys, a, sep, keys2)
  PROVE  RoutesDivide(keys, keys2, rp, a, sep)
  <1>1. /\ Len(keys) \in Nat /\ Len(keys2) = Len(keys) + 1
        /\ a \in 1..Len(keys2) /\ keys2[a] = sep
    BY DEF Entered
  <1>2. \A j \in 1..Len(keys) : keys[j] \in Int
    OBVIOUS
  <1>3. \A j \in 1..(Len(keys) + 1) :
          keys2[j] = IF j < a THEN keys[j] ELSE IF j = a THEN sep ELSE keys[j - 1]
    BY DEF Entered
  <1>4. \A j \in 1..(a - 1) :
          j \in 1..Len(keys) /\ j \in 1..Len(keys2) /\ keys2[j] = keys[j] /\ keys[j] < sep
    <2>1. \A j \in 1..(a - 1) : keys[j] < sep
      BY DEF Fits
    <2>2. \A j \in 1..(a - 1) : j \in 1..Len(keys) /\ j \in 1..(Len(keys) + 1) /\ j < a
      OBVIOUS
    <2> QED  BY <1>1, <1>3, <2>1, <2>2
  <1>5. \A j \in a..Len(keys) :
          j \in 1..Len(keys) /\ j + 1 \in 1..Len(keys2) /\ keys2[j + 1] = keys[j] /\ sep < keys[j]
    <2>1. \A j \in a..Len(keys) : sep < keys[j]
      <3>1. \A j \in ((a - 1) + 1)..Len(keys) : sep < keys[j]
        BY DEF Fits
      <3> QED  BY <3>1
    <2>2. ASSUME NEW j \in a..Len(keys)
          PROVE  keys2[j + 1] = keys[j]
      <3>1. j + 1 \in 1..(Len(keys) + 1) /\ ~(j + 1 < a) /\ j + 1 # a /\ (j + 1) - 1 = j
        OBVIOUS
      <3> QED  BY <1>3, <3>1
    <2> QED  BY <1>1, <2>1, <2>2
  <1>6. \A j \in (a + 1)..Len(keys2) : j - 1 \in a..Len(keys) /\ keys2[j] = keys[j - 1]
    <2>1. \A j \in (a + 1)..Len(keys2) : j - 1 \in a..Len(keys) /\ (j - 1) + 1 = j
      BY <1>1
    <2> QED  BY <1>5, <2>1
  <1>7. ASSUME NEW k \in Int, NEW i \in 1..(Len(keys) + 2), Sends(keys2, k, i)
        PROVE  /\ i <= a => Sends(keys, k, i) /\ k < sep
               /\ a < i => Sends(keys, k, i - 1) /\ sep <= k
    <2>1. \A j \in 1..Len(keys2) : IF j < i THEN keys2[j] <= k ELSE k < keys2[j]
      BY <1>7 DEF Sends
    <2>2. IF a < i THEN sep <= k ELSE k < sep
      BY <1>1, <2>1
    <2>3. \A j \in 1..(a - 1) : IF j < i THEN keys[j] <= k ELSE k < keys[j]
      BY <1>4, <2>1
    <2>4. \A j \in a..Len(keys) : IF j + 1 < i THEN keys[j] <= k ELSE k < keys[j]
      BY <1>5, <2>1
    <2>5. CASE i <= a
      <3>1. \A j \in a..Len(keys) : ~(j + 1 < i) /\ ~(j < i)
        BY <2>5
      <3>2. \A j \in a..Len(keys) : IF j < i THEN keys[j] <= k ELSE k < keys[j]
        BY <2>4, <3>1
      <3>3. \A j \in 1..Len(keys) : j \in 1..(a - 1) \/ j \in a..Len(keys)
        OBVIOUS
      <3>4. Sends(keys, k, i)
        BY <2>3, <3>2, <3>3 DEF Sends
      <3> QED  BY <2>2, <2>5, <3>4
    <2>6. CASE a < i
      <3>1. \A j \in a..Len(keys) : j + 1 < i <=> j < i - 1
        OBVIOUS
      <3>2. \A j \in a..Len(keys) : IF j < i - 1 THEN keys[j] <= k ELSE k < keys[j]
        BY <2>4, <3>1
      <3>3. \A j \in 1..(a - 1) : j < i /\ j < i - 1
        BY <2>6
      <3>4. \A j \in 1..(a - 1) : IF j < i - 1 THEN keys[j] <= k ELSE k < keys[j]
        BY <2>3, <3>3
      <3>5. \A j \in 1..Len(keys) : j \in 1..(a - 1) \/ j \in a..Len(keys)
        OBVIOUS
      <3>6. Sends(keys, k, i - 1)
        BY <3>2, <3>4, <3>5 DEF Sends
      <3> QED  BY <2>2, <2>6, <3>6
    <2> QED  BY <2>5, <2>6
  <1>8. ASSUME NEW k \in Int, NEW i \in 1..a, Sends(keys, k, i), i = a => k < sep
        PROVE  Sends(keys2, k, i)
    <2>1. \A j \in 1..Len(keys) : IF j < i THEN keys[j] <= k ELSE k < keys[j]
      BY <1>8 DEF Sends
    <2>2. k < sep
      <3>1. CASE i = a
        BY <1>8, <3>1
      <3>2. CASE i < a
        <4>1. i \in 1..(a - 1)
          BY <3>2
        <4>2. k < keys[i] /\ keys[i] < sep /\ keys[i] \in Int
          BY <1>2, <1>4, <2>1, <4>1
        <4> QED  BY <4>2
      <3> QED  BY <3>1, <3>2
    <2>3. \A j \in 1..(a - 1) : IF j < i THEN keys2[j] <= k ELSE k < keys2[j]
      BY <1>4, <2>1
    <2>4. \A j \in (a + 1)..Len(keys2) : k < keys2[j]
      <3>1. \A j \in a..Len(keys) : k < keys[j]
        BY <1>5, <2>1
      <3> QED  BY <1>6, <3>1
    <2>5. \A j \in (a + 1)..Len(keys2) : ~(j < i)
      OBVIOUS
    <2>6. \A j \in 1..Len(keys2) : j \in 1..(a - 1) \/ j = a \/ j \in (a + 1)..Len(keys2)
      BY <1>1
    <2>7. ~(a < i)
      OBVIOUS
    <2> QED  BY <1>1, <2>2, <2>3, <2>4, <2>5, <2>6, <2>7 DEF Sends
  <1>9. ASSUME NEW k \in Int, NEW i \in (a + 1)..(Len(keys) + 2), Sends(keys, k, i - 1),
               i = a + 1 => sep <= k
        PROVE  Sends(keys2, k, i)
    <2>1. \A j \in 1..Len(keys) : IF j < i - 1 THEN keys[j] <= k ELSE k < keys[j]
      BY <1>9 DEF Sends
    <2>2. sep <= k
      <3>1. CASE i = a + 1
        BY <1>9, <3>1
      <3>2. CASE i # a + 1
        <4>1. a \in a..Len(keys) /\ a < i - 1
          BY <1>1, <3>2
        <4>2. keys[a] <= k /\ sep < keys[a] /\ keys[a] \in Int
          BY <1>2, <1>5, <2>1, <4>1
        <4> QED  BY <4>2
      <3> QED  BY <3>1, <3>2
    <2>3. \A j \in 1..(a - 1) : keys2[j] <= k
      <3>1. \A j \in 1..(a - 1) : j < i - 1
        OBVIOUS
      <3> QED  BY <1>4, <2>1, <3>1
    <2>4. \A j \in (a + 1)..Len(keys2) : IF j < i THEN keys2[j] <= k ELSE k < keys2[j]
      <3>1. \A j \in (a + 1)..Len(keys2) : j - 1 \in 1..Len(keys) /\ (j - 1 < i - 1 <=> j < i)
        BY <1>1
      <3> QED  BY <1>6, <2>1, <3>1
    <2>5. \A j \in 1..(a - 1) : j < i
      OBVIOUS
    <2>6. \A j \in 1..Len(keys2) : j \in 1..(a - 1) \/ j = a \/ j \in (a + 1)..Len(keys2)
      BY <1>1
    <2>7. a < i
      OBVIOUS
    <2> QED  BY <1>1, <2>2, <2>3, <2>4, <2>5, <2>6, <2>7 DEF Sends
  <1>10. /\ \A i \in 1..(a - 1) : i \in 1..a /\ i \in 1..(Len(keys) + 2) /\ i <= a /\ i # a
         /\ a \in 1..a /\ a \in 1..(Len(keys) + 2) /\ a <= a
         /\ a + 1 \in (a + 1)..(Len(keys) + 2) /\ a + 1 \in 1..(Len(keys) + 2) /\ a < a + 1
         /\ (a + 1) - 1 = a
         /\ \A i \in (a + 2)..(Len(keys) + 2) :
              i \in (a + 1)..(Len(keys) + 2) /\ i \in 1..(Len(keys) + 2) /\ a < i /\ i # a + 1
    OBVIOUS
  <1>11. \A i \in 1..(a - 1) : Route(keys2, rp, i) = Route(keys, rp, i)
    <2>1. \A i \in 1..(a - 1) : \A k \in Int : Sends(keys2, k, i) <=> Sends(keys, k, i)
      BY <1>7, <1>8, <1>10
    <2> QED  BY <2>1, RouteSends
  <1>12. Route(keys2, rp, a) = {k \in Route(keys, rp, a) : k < sep}
    <2>1. \A k \in Int : Sends(keys2, k, a) <=> Sends(keys, k, a) /\ k < sep
      BY <1>7, <1>8, <1>10
    <2> QED  BY <2>1, RouteSends
  <1>13. Route(keys2, rp, a + 1) = {k \in Route(keys, rp, a) : sep <= k}
    <2>1. \A k \in Int : Sends(keys2, k, a + 1) <=> Sends(keys, k, a) /\ sep <= k
      BY <1>7, <1>9, <1>10
    <2> QED  BY <2>1, RouteSends
  <1>14. \A i \in (a + 2)..(Len(keys) + 2) : Route(keys2, rp, i) = Route(keys, rp, i - 1)
    <2>1. \A i \in (a + 2)..(Len(keys) + 2) : \A k \in Int :
            Sends(keys2, k, i) <=> Sends(keys, k, i - 1)
      BY <1>7, <1>9, <1>10
    <2> QED  BY <2>1, RouteSends
  <1> QED  BY <1>11, <1>12, <1>13, <1>14 DEF RoutesDivide

\* Two halves of a node, with the keys on either side of the separator that
\* has left, send a key where the whole node sent it.
LEMMA RouteCut ==
  ASSUME NEW keys \in Seq(Int), Sorted(keys), NEW keys1 \in Seq(Int), NEW keys2 \in Seq(Int),
         NEW rp, rp \subseteq Int, NEW c \in 1..Len(keys), Cut(keys, c - 1, c, keys1, keys2)
  PROVE  RoutesHalve(keys, keys1, keys2, rp, c)
  <1>1. /\ Len(keys1) = c - 1 /\ Len(keys2) = Len(keys) - c /\ Len(keys) \in Nat
        /\ keys[c] \in Int
    BY DEF Cut
  <1>2. \A j \in 1..(c - 1) :
          /\ j \in 1..Len(keys) /\ j \in 1..Len(keys1)
          /\ keys1[j] = keys[j] /\ keys[j] < keys[c] /\ keys[j] \in Int
    <2>1. \A j \in 1..(c - 1) : j \in 1..Len(keys) /\ j \in 1..Len(keys1) /\ j < c
      BY <1>1
    <2>2. \A j \in 1..(c - 1) : keys1[j] = keys[j]
      BY DEF Cut
    <2>3. \A j \in 1..(c - 1) : keys[j] < keys[c]
      BY <2>1 DEF Sorted
    <2>4. \A j \in 1..(c - 1) : keys[j] \in Int
      BY <2>1
    <2> QED  BY <2>1, <2>2, <2>3, <2>4
  <1>3. \A j \in 1..Len(keys2) :
          /\ c + j \in 1..Len(keys)
          /\ keys2[j] = keys[c + j] /\ keys[c] < keys[c + j] /\ keys[c + j] \in Int
    <2>1. \A j \in 1..Len(keys2) : c + j \in 1..Len(keys) /\ c < c + j
      BY <1>1
    <2>2. \A j \in 1..Len(keys2) : keys2[j] = keys[c + j]
      BY <1>1 DEF Cut
    <2>3. \A j \in 1..Len(keys2) : keys[c] < keys[c + j]
      BY <2>1 DEF Sorted
    <2>4. \A j \in 1..Len(keys2) : keys[c + j] \in Int
      BY <2>1
    <2> QED  BY <2>1, <2>2, <2>3, <2>4
  <1>4. \A j \in 1..Len(keys) : j \in 1..(c - 1) \/ j = c \/ (j - c \in 1..Len(keys2) /\ c + (j - c) = j)
    BY <1>1
  <1>5. ASSUME NEW k \in Int, NEW i \in 1..c
        PROVE  Sends(keys, k, i) <=> k < keys[c] /\ Sends(keys1, k, i)
    <2>1. ASSUME Sends(keys, k, i)
          PROVE  k < keys[c] /\ Sends(keys1, k, i)
      <3>1. \A j \in 1..Len(keys) : IF j < i THEN keys[j] <= k ELSE k < keys[j]
        BY <2>1 DEF Sends
      <3>2. k < keys[c]
        BY <3>1
      <3>3. \A j \in 1..(c - 1) : IF j < i THEN keys1[j] <= k ELSE k < keys1[j]
        BY <1>2, <3>1
      <3> QED  BY <1>1, <3>2, <3>3 DEF Sends
    <2>2. ASSUME k < keys[c], Sends(keys1, k, i)
          PROVE  Sends(keys, k, i)
      <3>1. \A j \in 1..Len(keys1) : IF j < i THEN keys1[j] <= k ELSE k < keys1[j]
        BY <2>2 DEF Sends
      <3>2. \A j \in 1..(c - 1) : IF j < i THEN keys[j] <= k ELSE k < keys[j]
        BY <1>2, <3>1
      <3>3. \A j \in 1..Len(keys2) : k < keys[c + j]
        BY <1>1, <1>3, <2>2, SMTT(30)
      <3>4. ASSUME NEW j \in 1..Len(keys)
            PROVE  IF j < i THEN keys[j] <= k ELSE k < keys[j]
        <4>1. CASE j \in 1..(c - 1)
          BY <3>2, <4>1
        <4>2. CASE j = c
          BY <2>2, <4>2
        <4>3. CASE j - c \in 1..Len(keys2) /\ c + (j - c) = j
          <5>1. k < keys[j]
            BY <3>3, <4>3
          <5>2. ~(j < i)
            BY <4>3
          <5> QED  BY <5>1, <5>2
        <4> QED  BY <1>4, <4>1, <4>2, <4>3
      <3> QED  BY <3>4 DEF Sends
    <2> QED  BY <2>1, <2>2
  <1>6. ASSUME NEW k \in Int, NEW i \in 1..(Len(keys) - c + 1)
        PROVE  Sends(keys, k, c + i) <=> keys[c] <= k /\ Sends(keys2, k, i)
    <2>1. ASSUME Sends(keys, k, c + i)
          PROVE  keys[c] <= k /\ Sends(keys2, k, i)
      <3>1. \A j \in 1..Len(keys) : IF j < c + i THEN keys[j] <= k ELSE k < keys[j]
        BY <2>1 DEF Sends
      <3>2. keys[c] <= k
        <4>1. c < c + i
          OBVIOUS
        <4> QED  BY <3>1, <4>1
      <3>3. \A j \in 1..Len(keys2) : c + j < c + i <=> j < i
        OBVIOUS
      <3>4. \A j \in 1..Len(keys2) : IF j < i THEN keys2[j] <= k ELSE k < keys2[j]
        BY <1>3, <3>1, <3>3
      <3> QED  BY <3>2, <3>4 DEF Sends
    <2>2. ASSUME keys[c] <= k, Sends(keys2, k, i)
          PROVE  Sends(keys, k, c + i)
      <3>1. \A j \in 1..Len(keys2) : IF j < i THEN keys2[j] <= k ELSE k < keys2[j]
        BY <2>2 DEF Sends
      <3>2. ASSUME NEW j \in 1..(c - 1)
            PROVE  keys[j] <= k
        <4>1. keys[j] < keys[c] /\ keys[j] \in Int /\ keys[c] \in Int
          BY <1>1, <1>2
        <4> QED  BY <2>2, <4>1
      <3>3. ASSUME NEW j \in 1..Len(keys)
            PROVE  IF j < c + i THEN keys[j] <= k ELSE k < keys[j]
        <4>1. CASE j \in 1..(c - 1)
          <5>1. j < c + i
            BY <4>1
          <5> QED  BY <3>2, <4>1, <5>1
        <4>2. CASE j = c
          <5>1. j < c + i
            BY <4>2
          <5> QED  BY <2>2, <4>2, <5>1
        <4>3. CASE j - c \in 1..Len(keys2) /\ c + (j - c) = j
          <5>1. keys2[j - c] = keys[j]
            BY <1>3, <4>3
          <5>2. j - c < i <=> j < c + i
            OBVIOUS
          <5> QED  BY <3>1, <4>3, <5>1, <5>2
        <4> QED  BY <1>4, <4>1, <4>2, <4>3
      <3> QED  BY <3>3 DEF Sends
    <2> QED  BY <2>1, <2>2
  <1>7. \A i \in 1..c : Route(keys1, {k \in rp : k < keys[c]}, i) = Route(keys, rp, i)
    BY <1>5, RouteSends
  <1>8. \A i \in 1..(Len(keys) - c + 1) :
          Route(keys2, {k \in rp : keys[c] <= k}, i) = Route(keys, rp, c + i)
    BY <1>6, RouteSends
  <1> QED  BY <1>7, <1>8 DEF RoutesHalve

\* Node m holds the same in v and w.
Same(v, w, m) ==
  /\ is_leaf(w, m) <=> is_leaf(v, m)
  /\ K(w, m) = K(v, m)
  /\ is_leaf(v, m) => D(w, m) = D(v, m)
  /\ ~is_leaf(v, m) => S(w, m) = S(v, m)

\* Node n is child number a of p in v; in w it has been split behind its first c
\* children or entries into l and r, with the separator sep between them.  One
\* of the two is n itself.  Read from w to v it is a merge.
SplitBody(v, w, p, a, n, l, r, c, sep) ==
  /\ w.root = v.root /\ w.level = v.level
  /\ l # r /\ n \in {l, r} /\ N(w) = N(v) \cup {l, r} /\ N(v) \cap {l, r} = {n}
  /\ n # v.root
  /\ p \in Inner(v) /\ p \in Inner(w) /\ p \notin {l, r}
  /\ a \in 1..Len(S(v, p)) /\ S(v, p)[a] = n
  /\ sep \in Int
  /\ Entered(K(v, p), a, sep, K(w, p))
  /\ Paired(S(v, p), a, l, r, S(w, p))
  /\ \A m \in N(v) \ {p, l, r} : Same(v, w, m)
  /\ is_leaf(v, n) =>
       /\ is_leaf(w, l) /\ is_leaf(w, r)
       /\ c \in 0..Len(K(v, n))
       /\ Cut(K(v, n), c, c, K(w, l), K(w, r))
       /\ Cut(D(v, n), c, c, D(w, l), D(w, r))
       /\ \A j \in 1..c : K(v, n)[j] < sep
       /\ \A j \in (c + 1)..Len(K(v, n)) : sep <= K(v, n)[j]
  /\ ~is_leaf(v, n) =>
       /\ ~is_leaf(w, l) /\ ~is_leaf(w, r)
       /\ c \in 1..Len(K(v, n)) /\ sep = K(v, n)[c]
       /\ Cut(K(v, n), c - 1, c, K(w, l), K(w, r))
       /\ Cut(S(v, n), c, c, S(w, l), S(w, r))

\* The place j below q0 in v is the place i below q in w.
Moves(p, a, n, l, r, c, q0, j, q, i) ==
  \/ q0 = p /\ q = p /\ i < a /\ j = i
  \/ q0 = p /\ q = p /\ i > a + 1 /\ j = i - 1
  \/ q0 = n /\ q = l /\ i <= c /\ j = i
  \/ q0 = n /\ q = r /\ j = c + i
  \/ q0 \notin {p, n} /\ q \notin {p, l, r} /\ q = q0 /\ j = i

\* The inner nodes before and after, and how many children they have.
LEMMA SplitInner ==
  ASSUME NEW v, NEW w, NEW p, NEW a, NEW n, NEW l, NEW r, NEW c, NEW sep,
         Formed(v), Formed(w), SplitBody(v, w, p, a, n, l, r, c, sep)
  PROVE  /\ Inner(w) \ {p, l, r} = Inner(v) \ {p, n}
         /\ \A q \in Inner(w) \ {p, l, r} : S(w, q) = S(v, q) /\ K(w, q) = K(v, q)
         /\ Leafs(w) \ {l, r} = Leafs(v) \ {n}
         /\ \A q \in Leafs(w) \ {l, r} : D(w, q) = D(v, q) /\ K(w, q) = K(v, q)
         /\ n \in N(v) /\ l \in N(w) /\ r \in N(w) /\ p # n
         /\ Len(S(v, p)) \in Nat /\ Len(S(w, p)) = Len(S(v, p)) + 1
         /\ Len(S(v, p)) = Len(K(v, p)) + 1
         /\ ~is_leaf(v, n) => /\ n \in Inner(v) /\ l \in Inner(w) /\ r \in Inner(w)
                              /\ c \in 1..Len(K(v, n))
                              /\ Len(S(v, n)) = Len(K(v, n)) + 1
                              /\ Len(S(w, l)) = c /\ Len(S(w, r)) = Len(S(v, n)) - c
         /\ is_leaf(v, n) => n \in Leafs(v) /\ l \in Leafs(w) /\ r \in Leafs(w)
  <1>1. \A m \in N(v) \ {p, l, r} : Same(v, w, m)
    BY DEF SplitBody
  <1>2. N(w) \ {l, r} = N(v) \ {n} /\ n \in N(v) /\ l \in N(w) /\ r \in N(w) /\ n \in {l, r}
    BY DEF SplitBody
  <1>3. p \in Inner(v) /\ p \in Inner(w) /\ p \notin {l, r} /\ p # n
    BY <1>2 DEF SplitBody
  <1>4. Inner(w) \ {p, l, r} = Inner(v) \ {p, n}
    BY <1>1, <1>2, <1>3 DEF Same, Inner
  <1>5. \A q \in Inner(w) \ {p, l, r} : S(w, q) = S(v, q) /\ K(w, q) = K(v, q)
    BY <1>1, <1>2, <1>3, <1>4 DEF Same, Inner
  <1>6. Leafs(w) \ {l, r} = Leafs(v) \ {n}
    BY <1>1, <1>2, <1>3 DEF Same, Inner, Leafs
  <1>7. \A q \in Leafs(w) \ {l, r} : D(w, q) = D(v, q) /\ K(w, q) = K(v, q)
    BY <1>1, <1>2, <1>3, <1>6 DEF Same, Inner, Leafs
  <1>8. Len(S(v, p)) \in Nat /\ Len(S(w, p)) = Len(S(v, p)) + 1
        /\ Len(S(v, p)) = Len(K(v, p)) + 1
    <2>1. NodeFormed(v, p) /\ ~is_leaf(v, p)
      BY <1>3 DEF Formed, Inner
    <2>2. Len(S(w, p)) = Len(S(v, p)) + 1
      BY DEF SplitBody, Paired
    <2> QED  BY <2>1, <2>2 DEF NodeFormed
  <1>9. ASSUME ~is_leaf(v, n)
        PROVE  /\ n \in Inner(v) /\ l \in Inner(w) /\ r \in Inner(w)
               /\ c \in 1..Len(K(v, n))
               /\ Len(S(v, n)) = Len(K(v, n)) + 1
               /\ Len(S(w, l)) = c /\ Len(S(w, r)) = Len(S(v, n)) - c
    <2>1. NodeFormed(v, n)
      BY <1>2 DEF Formed
    <2>2. ~is_leaf(w, l) /\ ~is_leaf(w, r) /\ Cut(S(v, n), c, c, S(w, l), S(w, r))
          /\ c \in 1..Len(K(v, n))
      BY <1>9 DEF SplitBody
    <2> QED  BY <1>2, <1>9, <2>1, <2>2 DEF NodeFormed, Cut, Inner
  <1>10. is_leaf(v, n) => n \in Leafs(v) /\ l \in Leafs(w) /\ r \in Leafs(w)
    BY <1>2 DEF SplitBody, Leafs
  <1> QED  BY <1>2, <1>3, <1>4, <1>5, <1>6, <1>7, <1>8, <1>9, <1>10

\* Every child of a node of w is one of the two, or a child of a node of v.
LEMMA OldPlace ==
  ASSUME NEW v, NEW w, NEW p, NEW a, NEW n, NEW l, NEW r, NEW c, NEW sep,
         Formed(v), Formed(w), SplitBody(v, w, p, a, n, l, r, c, sep),
         NEW q \in Inner(w), NEW i \in 1..Len(S(w, q))
  PROVE  \/ q = p /\ i = a /\ S(w, q)[i] = l
         \/ q = p /\ i = a + 1 /\ S(w, q)[i] = r
         \/ \E q0 \in Inner(v) : \E j \in 1..Len(S(v, q0)) :
              /\ S(v, q0)[j] = S(w, q)[i]
              /\ Moves(p, a, n, l, r, c, q0, j, q, i)
  <1>1. /\ Inner(w) \ {p, l, r} = Inner(v) \ {p, n}
        /\ \A x \in Inner(w) \ {p, l, r} : S(w, x) = S(v, x)
        /\ n \in N(v) /\ p # n
        /\ Len(S(v, p)) \in Nat /\ Len(S(w, p)) = Len(S(v, p)) + 1
        /\ ~is_leaf(v, n) => /\ n \in Inner(v) /\ l \in Inner(w) /\ r \in Inner(w)
                             /\ c \in 1..Len(K(v, n))
                             /\ Len(S(v, n)) = Len(K(v, n)) + 1
                             /\ Len(S(w, l)) = c /\ Len(S(w, r)) = Len(S(v, n)) - c
        /\ is_leaf(v, n) => n \in Leafs(v) /\ l \in Leafs(w) /\ r \in Leafs(w)
    BY SplitInner
  <1>2. p \in Inner(v) /\ a \in 1..Len(S(v, p)) /\ p \notin {l, r} /\ l # r
    BY DEF SplitBody
  <1>3. CASE q = p
    <2>1. S(w, p)[i] = IF i < a THEN S(v, p)[i] ELSE IF i = a THEN l
                       ELSE IF i = a + 1 THEN r ELSE S(v, p)[i - 1]
      BY <1>1, <1>3 DEF SplitBody, Paired
    <2>2. CASE i < a
      <3>1. i \in 1..Len(S(v, p)) /\ S(v, p)[i] = S(w, p)[i] /\ Moves(p, a, n, l, r, c, p, i, p, i)
        BY <1>1, <1>2, <1>3, <2>1, <2>2 DEF Moves
      <3> QED  BY <1>2, <1>3, <3>1
    <2>3. CASE i = a
      BY <1>3, <2>1, <2>3
    <2>4. CASE i = a + 1
      BY <1>2, <1>3, <2>1, <2>4
    <2>5. CASE i > a + 1
      <3>1. /\ i - 1 \in 1..Len(S(v, p)) /\ S(v, p)[i - 1] = S(w, p)[i]
            /\ Moves(p, a, n, l, r, c, p, i - 1, p, i)
        BY <1>1, <1>2, <1>3, <2>1, <2>5 DEF Moves
      <3> QED  BY <1>2, <1>3, <3>1
    <2> QED  BY <1>2, <2>2, <2>3, <2>4, <2>5
  <1>4. ASSUME q \in {l, r}
        PROVE  n \in Inner(v) /\ Cut(S(v, n), c, c, S(w, l), S(w, r))
               /\ Len(S(v, n)) \in Nat /\ c \in 1..Len(S(v, n))
               /\ Len(S(w, l)) = c /\ Len(S(w, r)) = Len(S(v, n)) - c
    <2>1. ~is_leaf(v, n)
      BY <1>1, <1>4 DEF Inner, Leafs
    <2>2. Cut(S(v, n), c, c, S(w, l), S(w, r))
      BY <2>1 DEF SplitBody
    <2>3. K(v, n) \in Seq(Int)
      BY <1>1 DEF Formed, NodeFormed
    <2> QED  BY <1>1, <2>1, <2>2, <2>3
  <1>5. CASE q = l
    <2>1. i \in 1..Len(S(v, n)) /\ S(v, n)[i] = S(w, l)[i] /\ Moves(p, a, n, l, r, c, n, i, l, i)
      BY <1>4, <1>5 DEF Moves, Cut
    <2> QED  BY <1>4, <1>5, <2>1
  <1>6. CASE q = r
    <2>1. /\ c + i \in 1..Len(S(v, n)) /\ S(v, n)[c + i] = S(w, r)[i]
          /\ Moves(p, a, n, l, r, c, n, c + i, r, i)
      BY <1>4, <1>6 DEF Moves, Cut
    <2> QED  BY <1>4, <1>6, <2>1
  <1>7. CASE q \notin {p, l, r}
    BY <1>1, <1>7 DEF Moves
  <1> QED  BY <1>3, <1>5, <1>6, <1>7

\* Every child of a node of v but n is a child of a node of w.
LEMMA NewPlace ==
  ASSUME NEW v, NEW w, NEW p, NEW a, NEW n, NEW l, NEW r, NEW c, NEW sep,
         Formed(v), Formed(w), SplitBody(v, w, p, a, n, l, r, c, sep),
         NEW q0 \in Inner(v), NEW j \in 1..Len(S(v, q0)), q0 = p => j # a
  PROVE  \E q \in Inner(w) : \E i \in 1..Len(S(w, q)) :
              /\ S(v, q0)[j] = S(w, q)[i]
              /\ Moves(p, a, n, l, r, c, q0, j, q, i)
  <1>1. /\ Inner(w) \ {p, l, r} = Inner(v) \ {p, n}
        /\ \A x \in Inner(w) \ {p, l, r} : S(w, x) = S(v, x)
        /\ n \in N(v) /\ p # n
        /\ Len(S(v, p)) \in Nat /\ Len(S(w, p)) = Len(S(v, p)) + 1
        /\ ~is_leaf(v, n) => /\ n \in Inner(v) /\ l \in Inner(w) /\ r \in Inner(w)
                             /\ c \in 1..Len(K(v, n))
                             /\ Len(S(v, n)) = Len(K(v, n)) + 1
                             /\ Len(S(w, l)) = c /\ Len(S(w, r)) = Len(S(v, n)) - c
    BY SplitInner
  <1>2. p \in Inner(w) /\ a \in 1..Len(S(v, p)) /\ p \notin {l, r} /\ l # r
    BY DEF SplitBody
  <1>3. CASE q0 = p
    <2>0. \A i \in 1..Len(S(w, p)) :
            S(w, p)[i] = IF i < a THEN S(v, p)[i] ELSE IF i = a THEN l
                         ELSE IF i = a + 1 THEN r ELSE S(v, p)[i - 1]
      BY <1>1 DEF SplitBody, Paired
    <2>1. CASE j < a
      <3>1. j \in 1..Len(S(w, p)) /\ S(w, p)[j] = S(v, p)[j] /\ Moves(p, a, n, l, r, c, p, j, p, j)
        BY <1>1, <1>3, <2>0, <2>1 DEF Moves
      <3> QED  BY <1>2, <1>3, <3>1
    <2>2. CASE j > a
      <3>1. j + 1 \in 1..Len(S(w, p)) /\ j + 1 > a + 1 /\ (j + 1) - 1 = j
        BY <1>1, <1>2, <1>3, <2>2
      <3>2. S(w, p)[j + 1] = S(v, p)[j]
        BY <1>2, <2>0, <3>1
      <3>3. Moves(p, a, n, l, r, c, p, j, p, j + 1)
        BY <1>3, <3>1 DEF Moves
      <3> QED  BY <1>2, <1>3, <3>1, <3>2, <3>3
    <2> QED  BY <1>2, <1>3, <2>1, <2>2
  <1>4. CASE q0 = n
    <2>1. ~is_leaf(v, n)
      BY <1>4 DEF Inner
    <2>2. Cut(S(v, n), c, c, S(w, l), S(w, r))
      BY <2>1 DEF SplitBody
    <2>3. K(v, n) \in Seq(Int)
      BY <1>1 DEF Formed, NodeFormed
    <2>4. CASE j <= c
      <3>1. j \in 1..Len(S(w, l)) /\ S(w, l)[j] = S(v, n)[j] /\ Moves(p, a, n, l, r, c, n, j, l, j)
        BY <1>1, <1>4, <2>1, <2>2, <2>3, <2>4 DEF Moves, Cut
      <3> QED  BY <1>1, <1>4, <2>1, <3>1
    <2>5. CASE j > c
      <3>1. j - c \in 1..(Len(S(v, n)) - c) /\ c + (j - c) = j
        BY <1>1, <1>4, <2>1, <2>3, <2>5
      <3>2. S(w, r)[j - c] = S(v, n)[j] /\ j - c \in 1..Len(S(w, r))
        BY <2>2, <3>1 DEF Cut
      <3>3. Moves(p, a, n, l, r, c, n, j, r, j - c)
        BY <3>1 DEF Moves
      <3> QED  BY <1>1, <1>4, <2>1, <3>2, <3>3
    <2> QED  BY <1>1, <2>1, <2>4, <2>5
  <1>5. CASE q0 \notin {p, n}
    <2>1. q0 \in Inner(w) \ {p, l, r}
      BY <1>1, <1>5
    <2>2. j \in 1..Len(S(w, q0)) /\ S(w, q0)[j] = S(v, q0)[j]
      BY <1>1, <2>1
    <2>3. Moves(p, a, n, l, r, c, q0, j, q0, j)
      BY <1>5, <2>1 DEF Moves
    <2> QED  BY <2>1, <2>2, <2>3
  <1> QED  BY <1>3, <1>4, <1>5

SplitHeight(w, h, n, l, r) == [m \in N(w) |-> IF m \in {l, r} THEN h[n] ELSE h[m]]
SplitRange(w, R, n, l, r, sep) ==
  [m \in N(w) |-> IF m = l THEN {k \in R[n] : k < sep}
                  ELSE IF m = r THEN {k \in R[n] : sep <= k} ELSE R[m]]

\* The children that one of the nodes concerned has in w know where they are,
\* and the others are where they were.
SplitBacks(v, w, p, l, r) ==
  /\ \A q \in Inner(w) \cap {p, l, r} : Owns(w, q)
  /\ \A q \in Inner(w) \ {p, l, r} : \A i \in 1..Len(S(w, q)) :
       LET m == S(w, q)[i] IN P(w, m) = P(v, m) /\ X(w, m) = X(v, m)
  /\ P(w, w.root) = NULL

\* After a split the leaves are all at the bottom.
LEMMA SplitHeights ==
  ASSUME NEW v, NEW w, NEW p, NEW a, NEW n, NEW l, NEW r, NEW c, NEW sep, NEW h, NEW R,
         TreeInv(v, h, R), Formed(w), SplitBody(v, w, p, a, n, l, r, c, sep)
  PROVE  Heights(w, SplitHeight(w, h, n, l, r))
  <1> DEFINE g == SplitHeight(w, h, n, l, r)
  <1>0. Formed(v) /\ Heights(v, h)
    BY DEF TreeInv
  <1>1. /\ Inner(w) \ {p, l, r} = Inner(v) \ {p, n}
        /\ Leafs(w) \ {l, r} = Leafs(v) \ {n}
        /\ n \in N(v) /\ l \in N(w) /\ r \in N(w) /\ p # n
        /\ ~is_leaf(v, n) => n \in Inner(v) /\ l \in Inner(w) /\ r \in Inner(w)
        /\ is_leaf(v, n) => n \in Leafs(v) /\ l \in Leafs(w) /\ r \in Leafs(w)
    BY <1>0, SplitInner
  <1>2. /\ N(w) = N(v) \cup {l, r} /\ N(v) \cap {l, r} = {n} /\ p \in Inner(v) /\ p \in Inner(w)
        /\ p \notin {l, r} /\ n # v.root /\ w.root = v.root /\ w.level = v.level
        /\ a \in 1..Len(S(v, p)) /\ S(v, p)[a] = n
    BY DEF SplitBody
  <1>3. /\ \A m \in N(w) \ {l, r} : m \in N(v) /\ g[m] = h[m]
        /\ g[l] = h[n] /\ g[r] = h[n]
    BY <1>1, <1>2 DEF SplitHeight
  <1> HIDE DEF g
  <1>4. v.root \in N(v) /\ v.root \notin {l, r} /\ v.root \in N(w)
    BY <1>0, <1>2 DEF Formed
  <1>5. g[w.root] = w.level
    BY <1>0, <1>2, <1>3, <1>4 DEF Heights
  <1>6. ASSUME NEW m \in N(w)
        PROVE  g[m] \in 0..w.level /\ (is_leaf(w, m) <=> g[m] = 0)
    <2>1. CASE m \in {l, r}
      <3>1. g[m] = h[n] /\ n \in N(v)
        BY <1>1, <1>3, <2>1
      <3>2. is_leaf(w, m) <=> is_leaf(v, n)
        BY <1>1, <2>1 DEF Inner, Leafs
      <3> QED  BY <1>0, <1>2, <3>1, <3>2 DEF Heights
    <2>2. CASE m \notin {l, r}
      <3>1. m \in N(v) /\ g[m] = h[m] /\ m # n
        BY <1>2, <1>3, <2>2
      <3>2. is_leaf(w, m) <=> is_leaf(v, m)
        BY <1>1, <1>2, <2>2, <3>1 DEF Inner, Leafs
      <3> QED  BY <1>0, <1>2, <3>1, <3>2 DEF Heights
    <2> QED  BY <2>1, <2>2
  <1>7. ASSUME NEW q \in Inner(w), NEW i \in 1..Len(S(w, q))
        PROVE  g[S(w, q)[i]] = g[q] - 1
    <2>1. CASE q = p /\ S(w, q)[i] \in {l, r}
      <3>1. h[n] = h[p] - 1
        BY <1>2, ChildFacts
      <3>2. g[q] = h[p] /\ g[S(w, q)[i]] = h[n]
        BY <1>2, <1>3, <2>1 DEF Inner
      <3> QED  BY <3>1, <3>2
    <2>2. ASSUME NEW q0 \in Inner(v), NEW j \in 1..Len(S(v, q0)), S(v, q0)[j] = S(w, q)[i],
                 Moves(p, a, n, l, r, c, q0, j, q, i)
          PROVE  g[S(w, q)[i]] = g[q] - 1
      <3> DEFINE m == S(w, q)[i]
      <3>1. m \in N(v) /\ h[m] = h[q0] - 1
        BY <2>2, ChildFacts
      <3>2. m # n
        <4>1. SUFFICES ASSUME m = n PROVE FALSE
          OBVIOUS
        <4>2. q0 = p /\ j = a
          BY <1>2, <2>2, <4>1, ChildOnce
        <4> QED  BY <1>1, <1>2, <2>2, <4>2 DEF Moves
      <3>3. g[m] = h[m]
        BY <1>2, <1>3, <3>1, <3>2
      <3>4. g[q] = h[q0]
        BY <1>2, <1>3, <2>2 DEF Moves, Inner
      <3> QED  BY <3>1, <3>3, <3>4
    <2> QED  BY <1>0, <2>1, <2>2, OldPlace
  <1>8. Heights(w, g)
    BY <1>5, <1>6, <1>7 DEF Heights, Inner
  <1> QED  BY <1>8 DEF g

\* After a split every node but the root is where it says it is.
LEMMA SplitParents ==
  ASSUME NEW v, NEW w, NEW p, NEW a, NEW n, NEW l, NEW r, NEW c, NEW sep, NEW h, NEW R,
         TreeInv(v, h, R), Formed(w), SplitBody(v, w, p, a, n, l, r, c, sep),
         SplitBacks(v, w, p, l, r)
  PROVE  Parents(w)
  <1>0. Formed(v) /\ Parents(v)
    BY DEF TreeInv
  <1>1. /\ Inner(w) \ {p, l, r} = Inner(v) \ {p, n}
        /\ \A q \in Inner(w) \ {p, l, r} : S(w, q) = S(v, q)
        /\ Len(S(v, p)) \in Nat /\ Len(S(w, p)) = Len(S(v, p)) + 1
    BY <1>0, SplitInner
  <1>2. ASSUME NEW q \in Inner(w)
        PROVE  Owns(w, q)
    <2>1. CASE q \in {p, l, r}
      BY <2>1 DEF SplitBacks
    <2>2. CASE q \notin {p, l, r}
      <3>1. q \in Inner(v) /\ S(w, q) = S(v, q) /\ Owns(v, q)
        BY <1>0, <1>1, <2>2 DEF Parents
      <3>2. \A i \in 1..Len(S(w, q)) :
              P(w, S(w, q)[i]) = P(v, S(w, q)[i]) /\ X(w, S(w, q)[i]) = X(v, S(w, q)[i])
        BY <2>2 DEF SplitBacks
      <3> QED  BY <3>1, <3>2 DEF Owns
    <2> QED  BY <2>1, <2>2
  <1>3. ASSUME NEW q \in Inner(w), NEW i \in 1..Len(S(w, q))
        PROVE  Owned(w, S(w, q)[i])
    <2>1. P(w, S(w, q)[i]) = q /\ X(w, S(w, q)[i]) = i - 2
      BY <1>2 DEF Owns
    <2>2. (i - 2) + 2 = i
      OBVIOUS
    <2> QED  BY <2>1, <2>2 DEF Owned
  <1>4. ASSUME NEW m \in N(w) \ {w.root}
        PROVE  Owned(w, m)
    <2>1. /\ p \in Inner(v) /\ p \in Inner(w) /\ a \in 1..Len(S(v, p)) /\ S(v, p)[a] = n
          /\ N(w) = N(v) \cup {l, r} /\ w.root = v.root /\ n \in {l, r} /\ l # r
      BY DEF SplitBody
    <2>2. CASE m = l
      <3>1. a \in 1..Len(S(w, p)) /\ S(w, p)[a] = l
        BY <1>1, <2>1 DEF SplitBody, Paired
      <3> QED  BY <1>3, <2>1, <2>2, <3>1
    <2>3. CASE m = r
      <3>1. a + 1 \in 1..Len(S(w, p)) /\ S(w, p)[a + 1] = r
        BY <1>1, <2>1 DEF SplitBody, Paired
      <3> QED  BY <1>3, <2>1, <2>3, <3>1
    <2>4. CASE m \notin {l, r}
      <3>1. m \in N(v) \ {v.root} /\ m # n
        BY <2>1, <2>4
      <3>2. Owned(v, m)
        BY <1>0, <3>1 DEF Parents
      <3>3. PICK q0 \in Inner(v) : \E j \in 1..Len(S(v, q0)) : S(v, q0)[j] = m
        BY <3>2 DEF Owned
      <3>4. PICK j \in 1..Len(S(v, q0)) : S(v, q0)[j] = m
        BY <3>3
      <3>5. q0 = p => j # a
        BY <2>1, <3>1, <3>4
      <3>6. \E q \in Inner(w) : \E i \in 1..Len(S(w, q)) :
              /\ S(v, q0)[j] = S(w, q)[i]
              /\ Moves(p, a, n, l, r, c, q0, j, q, i)
        BY <1>0, <3>5, NewPlace
      <3> QED  BY <1>3, <3>4, <3>6
    <2> QED  BY <2>2, <2>3, <2>4
  <1> QED  BY <1>2, <1>4 DEF Parents, SplitBacks

\* Each half has keys to look after.
LEMMA SplitShares ==
  ASSUME NEW v, NEW w, NEW p, NEW a, NEW n, NEW l, NEW r, NEW c, NEW sep, NEW h, NEW R,
         TreeInv(v, h, R), Formed(w), SplitBody(v, w, p, a, n, l, r, c, sep),
         is_leaf(v, n) => c \in 1..(Len(K(v, n)) - 1)
  PROVE  /\ \E k \in R[n] : k < sep
         /\ \E k \in R[n] : sep <= k
         /\ R[n] \subseteq Int
  <1>0. Formed(v) /\ Routes(v, R) /\ n \in N(v)
    BY DEF TreeInv, SplitBody
  <1>1. R[n] \subseteq Int /\ NodeFormed(v, n)
    BY <1>0 DEF Routes, Formed
  <1>2. CASE is_leaf(v, n)
    <2>1. /\ \A j \in 1..c : K(v, n)[j] < sep
          /\ \A j \in (c + 1)..Len(K(v, n)) : sep <= K(v, n)[j]
      BY <1>2 DEF SplitBody
    <2>2. \A i \in 1..Len(K(v, n)) : K(v, n)[i] \in R[n]
      BY <1>0, <1>2 DEF Routes, Leafs
    <2>3. c \in 1..Len(K(v, n)) /\ c \in 1..c /\ c + 1 \in 1..Len(K(v, n)) /\ c + 1 \in (c + 1)..Len(K(v, n))
      BY <1>1, <1>2 DEF NodeFormed
    <2> QED  BY <1>1, <2>1, <2>2, <2>3
  <1>3. CASE ~is_leaf(v, n)
    <2>1. n \in Inner(v) /\ c \in 1..Len(K(v, n)) /\ sep = K(v, n)[c]
      BY <1>0, <1>3 DEF Inner, SplitBody
    <2>2. 1 \in 1..Len(S(v, n)) /\ c + 1 \in 1..Len(S(v, n)) /\ c < c + 1 /\ ~(c < 1)
      BY <1>1, <1>3, <2>1 DEF NodeFormed
    <2>3. /\ S(v, n)[1] \in N(v) /\ R[S(v, n)[1]] = Route(K(v, n), R[n], 1)
          /\ S(v, n)[c + 1] \in N(v) /\ R[S(v, n)[c + 1]] = Route(K(v, n), R[n], c + 1)
      BY <2>1, <2>2, ChildFacts, SMTT(30)
    <2>4. Route(K(v, n), R[n], 1) # {} /\ Route(K(v, n), R[n], c + 1) # {}
      BY <1>0, <2>3 DEF Routes
    <2>5. PICK k1 \in Route(K(v, n), R[n], 1) : TRUE
      BY <2>4
    <2>6. PICK k2 \in Route(K(v, n), R[n], c + 1) : TRUE
      BY <2>4
    <2>7. k1 \in R[n] /\ k1 < sep
      BY <2>1, <2>2 DEF Route
    <2>8. k2 \in R[n] /\ sep <= k2
      BY <2>1, <2>2 DEF Route
    <2> QED  BY <1>1, <2>7, <2>8
  <1> QED  BY <1>2, <1>3

\* The separator belongs between the keys around it in the parent.
LEMMA SeparatorFits ==
  ASSUME NEW keys \in Seq(Int), NEW rp, rp \subseteq Int, NEW a \in 1..(Len(keys) + 1),
         NEW sep \in Int,
         NEW k1 \in Route(keys, rp, a), k1 < sep,
         NEW k2 \in Route(keys, rp, a), sep <= k2
  PROVE  Fits(keys, a - 1, sep)
  <1>1. k1 \in Int /\ k2 \in Int /\ \A j \in 1..Len(keys) : keys[j] \in Int
    BY DEF Route
  <1>2. ASSUME NEW j \in 1..(a - 1)
        PROVE  keys[j] < sep
    <2>1. j \in 1..Len(keys) /\ j < a
      OBVIOUS
    <2>2. keys[j] <= k1
      BY <2>1 DEF Route
    <2> QED  BY <1>1, <2>1, <2>2
  <1>3. ASSUME NEW j \in ((a - 1) + 1)..Len(keys)
        PROVE  sep < keys[j]
    <2>1. j \in 1..Len(keys) /\ ~(j < a)
      OBVIOUS
    <2>2. k2 < keys[j]
      BY <2>1 DEF Route
    <2> QED  BY <1>1, <2>1, <2>2
  <1> QED  BY <1>2, <1>3 DEF Fits

\* After a split the nodes share the keys out among them.
LEMMA SplitRoutes ==
  ASSUME NEW v, NEW w, NEW p, NEW a, NEW n, NEW l, NEW r, NEW c, NEW sep, NEW h, NEW R,
         TreeInv(v, h, R), Formed(w), SplitBody(v, w, p, a, n, l, r, c, sep),
         is_leaf(v, n) => c \in 1..(Len(K(v, n)) - 1)
  PROVE  Routes(w, SplitRange(w, R, n, l, r, sep))
  <1> DEFINE Q == SplitRange(w, R, n, l, r, sep)
  <1>0. Formed(v) /\ Routes(v, R)
    BY DEF TreeInv
  <1>1. /\ Inner(w) \ {p, l, r} = Inner(v) \ {p, n}
        /\ \A q \in Inner(w) \ {p, l, r} : S(w, q) = S(v, q) /\ K(w, q) = K(v, q)
        /\ Leafs(w) \ {l, r} = Leafs(v) \ {n}
        /\ \A q \in Leafs(w) \ {l, r} : D(w, q) = D(v, q) /\ K(w, q) = K(v, q)
        /\ n \in N(v) /\ l \in N(w) /\ r \in N(w) /\ p # n
        /\ Len(S(v, p)) \in Nat /\ Len(S(w, p)) = Len(S(v, p)) + 1
        /\ Len(S(v, p)) = Len(K(v, p)) + 1
        /\ ~is_leaf(v, n) => /\ n \in Inner(v) /\ l \in Inner(w) /\ r \in Inner(w)
                             /\ c \in 1..Len(K(v, n))
                             /\ Len(S(v, n)) = Len(K(v, n)) + 1
                             /\ Len(S(w, l)) = c /\ Len(S(w, r)) = Len(S(v, n)) - c
        /\ is_leaf(v, n) => n \in Leafs(v) /\ l \in Leafs(w) /\ r \in Leafs(w)
    BY <1>0, SplitInner
  <1>2. /\ N(w) = N(v) \cup {l, r} /\ N(v) \cap {l, r} = {n} /\ p \in Inner(v) /\ p \in Inner(w)
        /\ p \notin {l, r} /\ n # v.root /\ w.root = v.root /\ w.level = v.level
        /\ a \in 1..Len(S(v, p)) /\ S(v, p)[a] = n /\ l # r /\ n \in {l, r} /\ sep \in Int
        /\ Entered(K(v, p), a, sep, K(w, p))
    BY DEF SplitBody
  <1>3. /\ \A m \in N(w) \ {l, r} : m \in N(v) /\ Q[m] = R[m]
        /\ Q[l] = {k \in R[n] : k < sep} /\ Q[r] = {k \in R[n] : sep <= k}
    BY <1>1, <1>2 DEF SplitRange
  <1> HIDE DEF Q
  <1>4. /\ \E k \in R[n] : k < sep
        /\ \E k \in R[n] : sep <= k
        /\ R[n] \subseteq Int
    BY SplitShares
  <1>5. Q[w.root] = Int
    <2>1. v.root \in N(v) /\ v.root \in N(w) \ {l, r}
      BY <1>0, <1>2 DEF Formed
    <2> QED  BY <1>0, <1>2, <1>3, <2>1 DEF Routes
  <1>6. ASSUME NEW m \in N(w)
        PROVE  Q[m] # {} /\ Q[m] \subseteq Int
    <2>1. CASE m \in {l, r}
      BY <1>3, <1>4, <2>1
    <2>2. CASE m \notin {l, r}
      BY <1>0, <1>3, <2>2 DEF Routes
    <2> QED  BY <2>1, <2>2
  <1>7. /\ K(v, p) \in Seq(Int) /\ K(w, p) \in Seq(Int) /\ R[p] \subseteq Int
        /\ p \in N(v) /\ p \in N(w)
    <2>1. p \in N(v) /\ p \in N(w)
      BY <1>2 DEF Inner
    <2> QED  BY <1>0, <2>1 DEF Formed, NodeFormed, Routes
  <1>8. a \in 1..(Len(K(v, p)) + 1)
    BY <1>1, <1>2
  <1>9. R[n] = Route(K(v, p), R[p], a)
    BY <1>2, ChildFacts
  <1>10. Fits(K(v, p), a - 1, sep)
    <2>1. PICK k1 \in Route(K(v, p), R[p], a) : k1 < sep
      BY <1>4, <1>9
    <2>2. PICK k2 \in Route(K(v, p), R[p], a) : sep <= k2
      BY <1>4, <1>9
    <2> QED  BY <1>2, <1>7, <1>8, <2>1, <2>2, SeparatorFits
  <1>11. /\ \A i \in 1..(a - 1) : Route(K(w, p), R[p], i) = Route(K(v, p), R[p], i)
         /\ Route(K(w, p), R[p], a) = {k \in Route(K(v, p), R[p], a) : k < sep}
         /\ Route(K(w, p), R[p], a + 1) = {k \in Route(K(v, p), R[p], a) : sep <= k}
         /\ \A i \in (a + 2)..(Len(K(v, p)) + 2) :
              Route(K(w, p), R[p], i) = Route(K(v, p), R[p], i - 1)
    <2>1. RoutesDivide(K(v, p), K(w, p), R[p], a, sep)
      BY <1>2, <1>7, <1>8, <1>10, RouteEntered
    <2> QED  BY <2>1 DEF RoutesDivide
  <1>12. ASSUME ~is_leaf(v, n)
         PROVE  /\ sep = K(v, n)[c]
                /\ \A i \in 1..c : Route(K(w, l), {k \in R[n] : k < sep}, i) = Route(K(v, n), R[n], i)
                /\ \A i \in 1..(Len(K(v, n)) - c + 1) :
                     Route(K(w, r), {k \in R[n] : sep <= k}, i) = Route(K(v, n), R[n], c + i)
    <2>1. sep = K(v, n)[c] /\ Cut(K(v, n), c - 1, c, K(w, l), K(w, r)) /\ c \in 1..Len(K(v, n))
      BY <1>12 DEF SplitBody
    <2>2. Sorted(K(v, n)) /\ K(v, n) \in Seq(Int)
      BY <1>1, NodeSorted
    <2>3. K(w, l) \in Seq(Int) /\ K(w, r) \in Seq(Int)
      BY <1>1 DEF Formed, NodeFormed
    <2>4. RoutesHalve(K(v, n), K(w, l), K(w, r), R[n], c)
      BY <1>4, <2>1, <2>2, <2>3, RouteCut
    <2> QED  BY <2>1, <2>4 DEF RoutesHalve
  <1>13. ASSUME NEW q \in Inner(w), NEW i \in 1..Len(S(w, q))
         PROVE  Q[S(w, q)[i]] = Route(K(w, q), Q[q], i)
    <2>0. Q[p] = R[p]
      BY <1>2, <1>3, <1>7
    <2>1. CASE q = p /\ i = a /\ S(w, q)[i] = l
      BY <1>3, <1>9, <1>11, <2>0, <2>1
    <2>2. CASE q = p /\ i = a + 1 /\ S(w, q)[i] = r
      BY <1>3, <1>9, <1>11, <2>0, <2>2
    <2>3. ASSUME NEW q0 \in Inner(v), NEW j \in 1..Len(S(v, q0)), S(v, q0)[j] = S(w, q)[i],
                 Moves(p, a, n, l, r, c, q0, j, q, i)
          PROVE  Q[S(w, q)[i]] = Route(K(w, q), Q[q], i)
      <3> DEFINE m == S(w, q)[i]
      <3>1. m \in N(v) /\ R[m] = Route(K(v, q0), R[q0], j)
        BY <2>3, ChildFacts
      <3>2. m # n
        <4>1. SUFFICES ASSUME m = n PROVE FALSE
          OBVIOUS
        <4>2. q0 = p /\ j = a
          BY <1>2, <2>3, <4>1, ChildOnce
        <4> QED  BY <1>1, <1>2, <2>3, <4>2 DEF Moves
      <3>3. Q[m] = R[m]
        BY <1>2, <1>3, <3>1, <3>2
      <3> HIDE DEF m
      <3>4. CASE q0 = p /\ q = p /\ i < a /\ j = i
        <4>1. i \in 1..(a - 1)
          BY <3>4, <1>2
        <4>2. Route(K(w, p), R[p], i) = Route(K(v, p), R[p], i)
          BY <1>11, <4>1
        <4> QED  BY <2>0, <3>1, <3>3, <3>4, <4>2 DEF m
      <3>5. CASE q0 = p /\ q = p /\ i > a + 1 /\ j = i - 1
        <4>1. i \in (a + 2)..(Len(K(v, p)) + 2)
          <5>1. a \in Nat /\ Len(K(v, p)) \in Nat /\ Len(S(w, p)) = Len(K(v, p)) + 2
            BY <1>1, <1>2, <1>7, SMTT(30)
          <5> QED  BY <3>5, <5>1
        <4>2. Route(K(w, p), R[p], i) = Route(K(v, p), R[p], i - 1)
          BY <1>11, <4>1
        <4> QED  BY <2>0, <3>1, <3>3, <3>5, <4>2 DEF m
      <3>6. CASE q0 = n /\ q = l /\ i <= c /\ j = i
        <4>1. ~is_leaf(v, n) /\ Q[q] = {k \in R[n] : k < sep} /\ i \in 1..c
          BY <1>1, <1>3, <3>6 DEF Inner
        <4>2. Route(K(w, l), {k \in R[n] : k < sep}, i) = Route(K(v, n), R[n], i)
          BY <1>12, <4>1
        <4> QED  BY <3>1, <3>3, <3>6, <4>1, <4>2 DEF m
      <3>7. CASE q0 = n /\ q = r /\ j = c + i
        <4>1. ~is_leaf(v, n) /\ Q[q] = {k \in R[n] : sep <= k}
          BY <1>1, <1>3, <3>7 DEF Inner
        <4>2. i \in 1..(Len(K(v, n)) - c + 1)
          BY <1>1, <3>7, <4>1
        <4>3. Route(K(w, r), {k \in R[n] : sep <= k}, i) = Route(K(v, n), R[n], c + i)
          BY <1>12, <4>1, <4>2
        <4> QED  BY <3>1, <3>3, <3>7, <4>1, <4>3 DEF m
      <3>8. CASE q0 \notin {p, n} /\ q \notin {p, l, r} /\ q = q0 /\ j = i
        <4>1. K(w, q) = K(v, q) /\ Q[q] = R[q]
          BY <1>1, <1>3, <3>8 DEF Inner
        <4> QED  BY <3>1, <3>3, <3>8, <4>1 DEF m
      <3> QED  BY <2>3, <3>4, <3>5, <3>6, <3>7, <3>8 DEF Moves
    <2> QED  BY <1>0, <2>1, <2>2, <2>3, OldPlace
  <1>14. ASSUME NEW m \in Leafs(w)
         PROVE  Sorted(K(w, m)) /\ \A i \in 1..Len(K(w, m)) : K(w, m)[i] \in Q[m]
    <2>1. CASE m \notin {l, r}
      <3>1. m \in Leafs(v) /\ K(w, m) = K(v, m) /\ Q[m] = R[m]
        BY <1>1, <1>3, <2>1 DEF Leafs
      <3> QED  BY <1>0, <3>1 DEF Routes
    <2>2. ASSUME m \in {l, r}
          PROVE  /\ Cut(K(v, n), c, c, K(w, l), K(w, r))
                 /\ \A j \in 1..c : K(v, n)[j] < sep
                 /\ \A j \in (c + 1)..Len(K(v, n)) : sep <= K(v, n)[j]
                 /\ c \in 0..Len(K(v, n)) /\ Len(K(v, n)) \in Nat
                 /\ Sorted(K(v, n)) /\ \A i \in 1..Len(K(v, n)) : K(v, n)[i] \in R[n]
      <3>1. is_leaf(v, n)
        BY <1>1, <2>2 DEF Inner, Leafs
      <3>2. K(v, n) \in Seq(Int)
        BY <1>0, <1>1 DEF Formed, NodeFormed
      <3>3. Sorted(K(v, n)) /\ \A i \in 1..Len(K(v, n)) : K(v, n)[i] \in R[n]
        BY <1>0, <1>1, <3>1 DEF Routes
      <3> QED  BY <3>1, <3>2, <3>3 DEF SplitBody
    <2>3. CASE m = l
      <3>1. \A j \in 1..Len(K(w, l)) : /\ j \in 1..Len(K(v, n)) /\ K(w, l)[j] = K(v, n)[j]
                                       /\ K(v, n)[j] < sep
        BY <2>2, <2>3 DEF Cut
      <3>2. \A j \in 1..Len(K(w, l)) : K(w, l)[j] \in Q[l]
        BY <1>3, <2>2, <2>3, <3>1
      <3>3. Sorted(K(w, l))
        BY <2>2, <2>3, <3>1 DEF Sorted
      <3> QED  BY <2>3, <3>2, <3>3
    <2>4. CASE m = r
      <3>1. \A j \in 1..Len(K(w, r)) : /\ c + j \in 1..Len(K(v, n)) /\ K(w, r)[j] = K(v, n)[c + j]
                                       /\ c + j \in (c + 1)..Len(K(v, n))
        BY <2>2, <2>4 DEF Cut
      <3>2. \A j \in 1..Len(K(w, r)) : sep <= K(v, n)[c + j]
        BY <2>2, <2>4, <3>1
      <3>3. \A j \in 1..Len(K(w, r)) : K(w, r)[j] \in Q[r]
        BY <1>3, <2>2, <2>4, <3>1, <3>2
      <3>4. \A i, j \in 1..Len(K(w, r)) : i < j => c + i < c + j
        BY <2>2, <2>4
      <3>5. Sorted(K(w, r))
        BY <2>2, <2>4, <3>1, <3>4 DEF Sorted
      <3> QED  BY <2>4, <3>3, <3>5
    <2> QED  BY <2>1, <2>3, <2>4
  <1>15. Routes(w, Q)
    BY <1>5, <1>6, <1>13, <1>14 DEF Routes
  <1> QED  BY <1>15 DEF Q

\* A split keeps the tree a tree.
LEMMA SplitKeeps ==
  ASSUME NEW v, NEW w, NEW p, NEW a, NEW n, NEW l, NEW r, NEW c, NEW sep, NEW h, NEW R,
         TreeInv(v, h, R), Formed(w), SplitBody(v, w, p, a, n, l, r, c, sep),
         SplitBacks(v, w, p, l, r),
         is_leaf(v, n) => c \in 1..(Len(K(v, n)) - 1)
  PROVE  TreeInv(w, SplitHeight(w, h, n, l, r), SplitRange(w, R, n, l, r, sep))
  BY SplitHeights, SplitParents, SplitRoutes DEF TreeInv

MergeHeight(v, h, n, l) == [m \in N(v) |-> IF m = n THEN h[l] ELSE h[m]]
MergeRange(v, R, n, l, r) == [m \in N(v) |-> IF m = n THEN R[l] \cup R[r] ELSE R[m]]

MergeBacks(v, w, p, n) ==
  /\ \A q \in Inner(v) \cap {p, n} : Owns(v, q)
  /\ \A q \in Inner(v) \ {p, n} : \A i \in 1..Len(S(v, q)) :
       LET m == S(v, q)[i] IN P(v, m) = P(w, m) /\ X(v, m) = X(w, m)
  /\ P(v, v.root) = NULL

\* The two nodes to be merged are neighbours below p.
LEMMA MergePair ==
  ASSUME NEW v, NEW w, NEW p, NEW a, NEW n, NEW l, NEW r, NEW c, NEW sep, NEW h, NEW R,
         TreeInv(w, h, R), Formed(v), SplitBody(v, w, p, a, n, l, r, c, sep)
  PROVE  /\ a \in 1..Len(S(w, p)) /\ S(w, p)[a] = l
         /\ a + 1 \in 1..Len(S(w, p)) /\ S(w, p)[a + 1] = r
         /\ h[l] = h[p] - 1 /\ h[r] = h[p] - 1 /\ h[p] \in 1..w.level
         /\ R[l] = Route(K(w, p), R[p], a) /\ R[r] = Route(K(w, p), R[p], a + 1)
         /\ l # w.root /\ r # w.root
  <1>1. Len(S(v, p)) \in Nat /\ Len(S(w, p)) = Len(S(v, p)) + 1
    BY SplitInner DEF TreeInv
  <1>2. p \in Inner(w) /\ a \in 1..Len(S(v, p))
    BY DEF SplitBody
  <1>3. a \in 1..Len(S(w, p)) /\ S(w, p)[a] = l
    BY <1>1, <1>2 DEF SplitBody, Paired
  <1>4. a + 1 \in 1..Len(S(w, p)) /\ S(w, p)[a + 1] = r
    BY <1>1, <1>2 DEF SplitBody, Paired
  <1>5. h[l] = h[p] - 1 /\ h[p] \in 1..w.level /\ R[l] = Route(K(w, p), R[p], a) /\ l # w.root
    BY <1>2, <1>3, ChildFacts
  <1>6. h[r] = h[p] - 1 /\ R[r] = Route(K(w, p), R[p], a + 1) /\ r # w.root
    BY <1>2, <1>4, ChildFacts
  <1> QED  BY <1>3, <1>4, <1>5, <1>6

\* Children that moved are none of the two.
LEMMA MovedChild ==
  ASSUME NEW v, NEW w, NEW p, NEW a, NEW n, NEW l, NEW r, NEW c, NEW sep, NEW h, NEW R,
         TreeInv(w, h, R), Formed(v), SplitBody(v, w, p, a, n, l, r, c, sep),
         NEW q0, NEW j, NEW q \in Inner(w), NEW i \in 1..Len(S(w, q)),
         Moves(p, a, n, l, r, c, q0, j, q, i)
  PROVE  S(w, q)[i] \in N(w) \ {l, r}
  <1>1. /\ a \in 1..Len(S(w, p)) /\ S(w, p)[a] = l
        /\ a + 1 \in 1..Len(S(w, p)) /\ S(w, p)[a + 1] = r
    BY MergePair
  <1>2. S(w, q)[i] \in N(w)
    BY ChildFacts
  <1>3. p \in Inner(w) /\ p \notin {l, r}
    BY DEF SplitBody
  <1>4. S(w, q)[i] # l
    <2>1. SUFFICES ASSUME S(w, q)[i] = l PROVE FALSE
      OBVIOUS
    <2>2. q = p /\ i = a
      BY <1>1, <1>3, <2>1, ChildOnce
    <2> QED  BY <1>3, <2>2 DEF Moves
  <1>5. S(w, q)[i] # r
    <2>1. SUFFICES ASSUME S(w, q)[i] = r PROVE FALSE
      OBVIOUS
    <2>2. q = p /\ i = a + 1
      BY <1>1, <1>3, <2>1, ChildOnce
    <2>3. a \in Nat
      BY <1>1
    <2> QED  BY <1>3, <2>2, <2>3 DEF Moves
  <1> QED  BY <1>2, <1>4, <1>5

\* After a merge the leaves are all at the bottom.
LEMMA MergeHeights ==
  ASSUME NEW v, NEW w, NEW p, NEW a, NEW n, NEW l, NEW r, NEW c, NEW sep, NEW h, NEW R,
         TreeInv(w, h, R), Formed(v), SplitBody(v, w, p, a, n, l, r, c, sep)
  PROVE  Heights(v, MergeHeight(v, h, n, l))
  <1> DEFINE g == MergeHeight(v, h, n, l)
  <1>0. Formed(w) /\ Heights(w, h)
    BY DEF TreeInv
  <1>1. /\ Inner(w) \ {p, l, r} = Inner(v) \ {p, n}
        /\ Leafs(w) \ {l, r} = Leafs(v) \ {n}
        /\ n \in N(v) /\ l \in N(w) /\ r \in N(w) /\ p # n
        /\ ~is_leaf(v, n) => n \in Inner(v) /\ l \in Inner(w) /\ r \in Inner(w)
        /\ is_leaf(v, n) => n \in Leafs(v) /\ l \in Leafs(w) /\ r \in Leafs(w)
    BY <1>0, SplitInner
  <1>2. /\ N(w) = N(v) \cup {l, r} /\ N(v) \cap {l, r} = {n} /\ p \in Inner(v) /\ p \in Inner(w)
        /\ p \notin {l, r} /\ n # v.root /\ w.root = v.root /\ w.level = v.level
        /\ a \in 1..Len(S(v, p)) /\ S(v, p)[a] = n /\ n \in {l, r}
    BY DEF SplitBody
  <1>3. /\ \A m \in N(v) \ {n} : m \in N(w) /\ m \notin {l, r} /\ g[m] = h[m]
        /\ g[n] = h[l]
    BY <1>1, <1>2 DEF MergeHeight
  <1> HIDE DEF g
  <1>4. h[l] = h[p] - 1 /\ h[r] = h[p] - 1
    BY MergePair
  <1>5. g[v.root] = v.level
    <2>1. v.root \in N(v)
      BY DEF Formed
    <2> QED  BY <1>0, <1>2, <1>3, <2>1 DEF Heights
  <1>6. ASSUME NEW m \in N(v)
        PROVE  g[m] \in 0..v.level /\ (is_leaf(v, m) <=> g[m] = 0)
    <2>1. CASE m = n
      <3>1. is_leaf(w, l) <=> is_leaf(v, n)
        BY <1>1 DEF Inner, Leafs
      <3> QED  BY <1>0, <1>1, <1>2, <1>3, <2>1, <3>1 DEF Heights
    <2>2. CASE m # n
      <3>1. m \in N(w) /\ g[m] = h[m] /\ m \notin {l, r}
        BY <1>3, <2>2
      <3>2. is_leaf(w, m) <=> is_leaf(v, m)
        BY <1>1, <1>2, <2>2, <3>1 DEF Inner, Leafs
      <3> QED  BY <1>0, <1>2, <3>1, <3>2 DEF Heights
    <2> QED  BY <2>1, <2>2
  <1>7. ASSUME NEW q0 \in Inner(v), NEW j \in 1..Len(S(v, q0))
        PROVE  g[S(v, q0)[j]] = g[q0] - 1
    <2>1. CASE q0 = p /\ j = a
      <3>1. g[p] = h[p]
        BY <1>1, <1>2, <1>3 DEF Inner
      <3> QED  BY <1>2, <1>3, <1>4, <2>1, <3>1
    <2>2. CASE ~(q0 = p /\ j = a)
      <3>1. PICK q \in Inner(w) : \E i \in 1..Len(S(w, q)) :
              S(v, q0)[j] = S(w, q)[i] /\ Moves(p, a, n, l, r, c, q0, j, q, i)
        BY <1>0, <2>2, NewPlace
      <3>2. PICK i \in 1..Len(S(w, q)) :
              S(v, q0)[j] = S(w, q)[i] /\ Moves(p, a, n, l, r, c, q0, j, q, i)
        BY <3>1
      <3>3. S(w, q)[i] \in N(w) \ {l, r} /\ h[S(w, q)[i]] = h[q] - 1
        BY <3>2, MovedChild, ChildFacts
      <3>4. g[S(w, q)[i]] = h[S(w, q)[i]]
        BY <1>2, <1>3, <3>3
      <3>5. g[q0] = h[q]
        BY <1>1, <1>2, <1>3, <1>4, <3>2 DEF Moves, Inner
      <3> QED  BY <3>2, <3>3, <3>4, <3>5
    <2> QED  BY <2>1, <2>2
  <1>8. Heights(v, g)
    BY <1>5, <1>6, <1>7 DEF Heights, Inner
  <1> QED  BY <1>8 DEF g

\* After a merge every node but the root is where it says it is.
LEMMA MergeParents ==
  ASSUME NEW v, NEW w, NEW p, NEW a, NEW n, NEW l, NEW r, NEW c, NEW sep, NEW h, NEW R,
         TreeInv(w, h, R), Formed(v), SplitBody(v, w, p, a, n, l, r, c, sep),
         MergeBacks(v, w, p, n)
  PROVE  Parents(v)
  <1>0. Formed(w) /\ Parents(w)
    BY DEF TreeInv
  <1>1. /\ Inner(w) \ {p, l, r} = Inner(v) \ {p, n}
        /\ \A q \in Inner(w) \ {p, l, r} : S(w, q) = S(v, q)
    BY <1>0, SplitInner
  <1>2. ASSUME NEW q \in Inner(v)
        PROVE  Owns(v, q)
    <2>1. CASE q \in {p, n}
      BY <2>1 DEF MergeBacks
    <2>2. CASE q \notin {p, n}
      <3>1. q \in Inner(w) /\ S(w, q) = S(v, q) /\ Owns(w, q)
        BY <1>0, <1>1, <2>2 DEF Parents
      <3>2. \A i \in 1..Len(S(v, q)) :
              P(v, S(v, q)[i]) = P(w, S(v, q)[i]) /\ X(v, S(v, q)[i]) = X(w, S(v, q)[i])
        BY <2>2 DEF MergeBacks
      <3> QED  BY <3>1, <3>2 DEF Owns
    <2> QED  BY <2>1, <2>2
  <1>3. ASSUME NEW q \in Inner(v), NEW i \in 1..Len(S(v, q))
        PROVE  Owned(v, S(v, q)[i])
    <2>1. P(v, S(v, q)[i]) = q /\ X(v, S(v, q)[i]) = i - 2
      BY <1>2 DEF Owns
    <2>2. (i - 2) + 2 = i
      OBVIOUS
    <2> QED  BY <2>1, <2>2 DEF Owned
  <1>4. ASSUME NEW m \in N(v) \ {v.root}
        PROVE  Owned(v, m)
    <2>1. /\ p \in Inner(v) /\ a \in 1..Len(S(v, p)) /\ S(v, p)[a] = n
          /\ N(w) = N(v) \cup {l, r} /\ w.root = v.root /\ N(v) \cap {l, r} = {n}
      BY DEF SplitBody
    <2>2. CASE m = n
      BY <1>3, <2>1, <2>2
    <2>3. CASE m # n
      <3>1. m \in N(w) \ {w.root} /\ m \notin {l, r}
        BY <2>1, <2>3
      <3>2. Owned(w, m)
        BY <1>0, <3>1 DEF Parents
      <3>3. PICK q \in Inner(w) : \E i \in 1..Len(S(w, q)) : S(w, q)[i] = m
        BY <3>2 DEF Owned
      <3>4. PICK i \in 1..Len(S(w, q)) : S(w, q)[i] = m
        BY <3>3
      <3>5. \E q0 \in Inner(v) : \E j \in 1..Len(S(v, q0)) : S(v, q0)[j] = S(w, q)[i]
        <4>1. ~(S(w, q)[i] = l) /\ ~(S(w, q)[i] = r)
          BY <3>1, <3>4
        <4> QED  BY <1>0, <4>1, OldPlace
      <3> QED  BY <1>3, <3>4, <3>5
    <2> QED  BY <2>2, <2>3
  <1> QED  BY <1>2, <1>4 DEF Parents, MergeBacks

\* In a sorted row of keys each key fits where it is.
LEMMA EnteredFits ==
  ASSUME NEW keys \in Seq(Int), NEW keys2 \in Seq(Int), NEW a \in 1..(Len(keys) + 1), NEW sep \in Int,
         Entered(keys, a, sep, keys2), Sorted(keys2)
  PROVE  Fits(keys, a - 1, sep)
  <1>1. \A j \in 1..(Len(keys) + 1) :
          keys2[j] = IF j < a THEN keys[j] ELSE IF j = a THEN sep ELSE keys[j - 1]
    BY DEF Entered
  <1>2. Len(keys2) = Len(keys) + 1 /\ Len(keys) \in Nat /\ a \in 1..Len(keys2)
    BY DEF Entered
  <1>3. keys2[a] = sep
    BY <1>1
  <1>4. ASSUME NEW j \in 1..(a - 1)
        PROVE  keys[j] < sep
    <2>1. j \in 1..Len(keys2) /\ j < a /\ keys2[j] = keys[j]
      BY <1>1, <1>2, SMTT(30)
    <2> QED  BY <1>2, <1>3, <2>1 DEF Sorted
  <1>5. ASSUME NEW j \in ((a - 1) + 1)..Len(keys)
        PROVE  sep < keys[j]
    <2>1. j + 1 \in 1..(Len(keys) + 1) /\ ~(j + 1 < a) /\ j + 1 # a /\ (j + 1) - 1 = j /\ a < j + 1
      OBVIOUS
    <2>2. keys2[j + 1] = keys[j] /\ j + 1 \in 1..Len(keys2)
      BY <1>1, <1>2, <2>1, SMTT(30)
    <2> QED  BY <1>2, <1>3, <2>1, <2>2 DEF Sorted
  <1>6. a - 1 \in 0..Len(keys)
    OBVIOUS
  <1> QED  BY <1>4, <1>5, <1>6 DEF Fits

\* Two sorted rows on either side of the separator make a sorted row.
LEMMA SortedCut ==
  ASSUME NEW s \in Seq(Int), NEW s1 \in Seq(Int), NEW s2 \in Seq(Int),
         NEW c \in 0..Len(s), NEW sep \in Int,
         Sorted(s1), Sorted(s2), Cut(s, c, c, s1, s2),
         \A j \in 1..c : s[j] < sep,
         \A j \in (c + 1)..Len(s) : sep <= s[j]
  PROVE  Sorted(s)
  <1>1. SUFFICES ASSUME NEW i \in 1..Len(s), NEW j \in 1..Len(s), i < j
                 PROVE  s[i] < s[j]
    BY DEF Sorted
  <1>2. s[i] \in Int /\ s[j] \in Int
    OBVIOUS
  <1>3. CASE j <= c
    <2>1. i \in 1..c /\ j \in 1..c /\ i \in 1..Len(s1) /\ j \in 1..Len(s1)
      BY <1>1, <1>3 DEF Cut
    <2>2. s1[i] < s1[j] /\ s1[i] = s[i] /\ s1[j] = s[j]
      BY <1>1, <2>1 DEF Sorted, Cut
    <2> QED  BY <2>2
  <1>4. CASE i <= c /\ c < j
    <2>1. i \in 1..c /\ j \in (c + 1)..Len(s)
      BY <1>4
    <2>2. s[i] < sep /\ sep <= s[j]
      BY <2>1
    <2> QED  BY <1>2, <2>2
  <1>5. CASE c < i
    <2>1. /\ i - c \in 1..(Len(s) - c) /\ j - c \in 1..(Len(s) - c) /\ i - c < j - c
          /\ c + (i - c) = i /\ c + (j - c) = j
      BY <1>1, <1>5
    <2>2. s2[i - c] = s[i] /\ s2[j - c] = s[j] /\ Len(s2) = Len(s) - c
      BY <2>1 DEF Cut
    <2>3. s2[i - c] < s2[j - c]
      BY <2>1, <2>2 DEF Sorted
    <2> QED  BY <2>2, <2>3
  <1> QED  BY <1>3, <1>4, <1>5

\* After a merge the nodes share the keys out among them.
LEMMA MergeRoutes ==
  ASSUME NEW v, NEW w, NEW p, NEW a, NEW n, NEW l, NEW r, NEW c, NEW sep, NEW h, NEW R,
         TreeInv(w, h, R), Formed(v), SplitBody(v, w, p, a, n, l, r, c, sep)
  PROVE  Routes(v, MergeRange(v, R, n, l, r))
  <1> DEFINE Q == MergeRange(v, R, n, l, r)
  <1>0. Formed(w) /\ Routes(w, R)
    BY DEF TreeInv
  <1>1. /\ Inner(w) \ {p, l, r} = Inner(v) \ {p, n}
        /\ \A q \in Inner(w) \ {p, l, r} : S(w, q) = S(v, q) /\ K(w, q) = K(v, q)
        /\ Leafs(w) \ {l, r} = Leafs(v) \ {n}
        /\ \A q \in Leafs(w) \ {l, r} : D(w, q) = D(v, q) /\ K(w, q) = K(v, q)
        /\ n \in N(v) /\ l \in N(w) /\ r \in N(w) /\ p # n
        /\ Len(S(v, p)) \in Nat /\ Len(S(w, p)) = Len(S(v, p)) + 1
        /\ Len(S(v, p)) = Len(K(v, p)) + 1
        /\ ~is_leaf(v, n) => /\ n \in Inner(v) /\ l \in Inner(w) /\ r \in Inner(w)
                             /\ c \in 1..Len(K(v, n))
                             /\ Len(S(v, n)) = Len(K(v, n)) + 1
                             /\ Len(S(w, l)) = c /\ Len(S(w, r)) = Len(S(v, n)) - c
        /\ is_leaf(v, n) => n \in Leafs(v) /\ l \in Leafs(w) /\ r \in Leafs(w)
    BY <1>0, SplitInner
  <1>2. /\ N(w) = N(v) \cup {l, r} /\ N(v) \cap {l, r} = {n} /\ p \in Inner(v) /\ p \in Inner(w)
        /\ p \notin {l, r} /\ n # v.root /\ w.root = v.root /\ w.level = v.level
        /\ a \in 1..Len(S(v, p)) /\ S(v, p)[a] = n /\ l # r /\ n \in {l, r} /\ sep \in Int
        /\ Entered(K(v, p), a, sep, K(w, p))
    BY DEF SplitBody
  <1>3. /\ \A m \in N(v) \ {n} : m \in N(w) /\ m \notin {l, r} /\ Q[m] = R[m]
        /\ Q[n] = R[l] \cup R[r]
    BY <1>1, <1>2 DEF MergeRange
  <1> HIDE DEF Q
  <1>4. \A m \in N(w) : R[m] # {} /\ R[m] \subseteq Int
    BY <1>0 DEF Routes
  <1>5. /\ a \in 1..Len(S(w, p)) /\ S(w, p)[a] = l
        /\ a + 1 \in 1..Len(S(w, p)) /\ S(w, p)[a + 1] = r
        /\ R[l] = Route(K(w, p), R[p], a) /\ R[r] = Route(K(w, p), R[p], a + 1)
    BY MergePair
  <1>6. /\ K(v, p) \in Seq(Int) /\ K(w, p) \in Seq(Int) /\ R[p] \subseteq Int
        /\ p \in N(v) /\ p \in N(w) /\ Sorted(K(w, p))
    <2>1. p \in N(v) /\ p \in N(w)
      BY <1>2 DEF Inner
    <2>2. Sorted(K(w, p))
      BY <2>1, NodeSorted
    <2> QED  BY <1>0, <1>4, <2>1, <2>2 DEF Formed, NodeFormed
  <1>7. a \in 1..(Len(K(v, p)) + 1)
    BY <1>1, <1>2
  <1>8. Fits(K(v, p), a - 1, sep)
    BY <1>2, <1>6, <1>7, EnteredFits
  <1>9. RoutesDivide(K(v, p), K(w, p), R[p], a, sep)
    BY <1>2, <1>6, <1>7, <1>8, RouteEntered
  <1>10. R[l] = {k \in Route(K(v, p), R[p], a) : k < sep}
         /\ R[r] = {k \in Route(K(v, p), R[p], a) : sep <= k}
    BY <1>5, <1>9 DEF RoutesDivide
  <1>11. /\ Q[n] = Route(K(v, p), R[p], a)
         /\ R[l] = {k \in Q[n] : k < sep} /\ R[r] = {k \in Q[n] : sep <= k}
         /\ Q[n] \subseteq Int
    <2>1. Route(K(v, p), R[p], a) \subseteq Int
      BY <1>6 DEF Route
    <2>2. \A k \in Int : k < sep \/ sep <= k
      BY <1>2
    <2>3. Q[n] = Route(K(v, p), R[p], a)
      BY <1>3, <1>10, <2>1, <2>2
    <2> QED  BY <1>10, <2>1, <2>3
  <1>12. ASSUME ~is_leaf(v, n)
         PROVE  RoutesHalve(K(v, n), K(w, l), K(w, r), Q[n], c) /\ sep = K(v, n)[c]
    <2>1. sep = K(v, n)[c] /\ Cut(K(v, n), c - 1, c, K(w, l), K(w, r)) /\ c \in 1..Len(K(v, n))
      BY <1>12 DEF SplitBody
    <2>2. K(w, l) \in Seq(Int) /\ K(w, r) \in Seq(Int) /\ K(v, n) \in Seq(Int)
      BY <1>0, <1>1 DEF Formed, NodeFormed
    <2>3. Sorted(K(w, l)) /\ Sorted(K(w, r))
      BY <1>1, NodeSorted
    <2>4. ASSUME NEW j \in 1..Len(K(w, l))
          PROVE  K(w, l)[j] < sep
      <3>1. j + 1 \in 1..Len(S(w, l)) /\ j < j + 1
        BY <1>1, <1>12, <2>1, <2>2 DEF Cut
      <3>2. S(w, l)[j + 1] \in N(w) /\ R[S(w, l)[j + 1]] = Route(K(w, l), R[l], j + 1)
        BY <1>1, <1>12, <3>1, ChildFacts
      <3>3. PICK k \in Route(K(w, l), R[l], j + 1) : TRUE
        BY <1>4, <3>2
      <3>4. k \in Int /\ k < sep /\ K(w, l)[j] <= k
        BY <1>11, <3>1 DEF Route
      <3> QED  BY <1>2, <2>2, <3>4
    <2>5. ASSUME NEW j \in 1..Len(K(w, r))
          PROVE  sep < K(w, r)[j]
      <3>1. 1 \in 1..Len(S(w, r)) /\ ~(j < 1)
        BY <1>1, <1>12, <2>1, <2>2 DEF Cut
      <3>2. S(w, r)[1] \in N(w) /\ R[S(w, r)[1]] = Route(K(w, r), R[r], 1)
        BY <1>1, <1>12, <3>1, ChildFacts
      <3>3. PICK k \in Route(K(w, r), R[r], 1) : TRUE
        BY <1>4, <3>2
      <3>4. k \in Int /\ sep <= k /\ k < K(w, r)[j]
        BY <1>11, <3>1 DEF Route
      <3> QED  BY <1>2, <2>2, <3>4
    <2>6. Sorted(K(v, n))
      <3>1. SUFFICES ASSUME NEW i \in 1..Len(K(v, n)), NEW j \in 1..Len(K(v, n)), i < j
                     PROVE  K(v, n)[i] < K(v, n)[j]
        BY DEF Sorted
      <3>2. \A x \in 1..Len(K(v, n)) : K(v, n)[x] \in Int
        BY <2>2
      <3>3. \A x \in 1..(c - 1) : x \in 1..Len(K(w, l)) /\ K(w, l)[x] = K(v, n)[x]
        BY <2>1 DEF Cut
      <3>4. ASSUME NEW x \in (c + 1)..Len(K(v, n))
            PROVE  x - c \in 1..Len(K(w, r)) /\ K(w, r)[x - c] = K(v, n)[x]
        <4>1. x - c \in 1..(Len(K(v, n)) - c) /\ c + (x - c) = x
          BY <2>1
        <4> QED  BY <2>1, <4>1 DEF Cut
      <3>5. CASE j < c
        <4>1. i \in 1..(c - 1) /\ j \in 1..(c - 1)
          BY <2>1, <3>1, <3>5
        <4> QED  BY <2>3, <3>1, <3>3, <4>1 DEF Sorted
      <3>6. CASE c < i
        <4>1. i \in (c + 1)..Len(K(v, n)) /\ j \in (c + 1)..Len(K(v, n)) /\ i - c < j - c
          BY <2>1, <3>1, <3>6
        <4>2. K(w, r)[i - c] < K(w, r)[j - c]
          BY <2>3, <3>4, <4>1 DEF Sorted
        <4> QED  BY <3>4, <4>1, <4>2
      <3>7. CASE i <= c /\ c <= j
        <4>1. i < c => K(v, n)[i] < sep
          <5>1. i < c => i \in 1..(c - 1)
            BY <2>1
          <5> QED  BY <2>4, <3>3, <5>1
        <4>2. c < j => sep < K(v, n)[j]
          <5>1. c < j => j \in (c + 1)..Len(K(v, n))
            BY <2>1
          <5> QED  BY <2>5, <3>4, <5>1
        <4>3. i < c \/ i = c
          BY <2>1, <3>7
        <4>4. c < j \/ c = j
          BY <2>1, <3>7
        <4> QED  BY <1>2, <2>1, <3>1, <3>2, <4>1, <4>2, <4>3, <4>4
      <3> QED  BY <2>1, <3>5, <3>6, <3>7
    <2> QED  BY <1>11, <2>1, <2>2, <2>6, RouteCut
  <1>13. ASSUME NEW q0 \in Inner(v), NEW j \in 1..Len(S(v, q0))
         PROVE  Q[S(v, q0)[j]] = Route(K(v, q0), Q[q0], j)
    <2>0. Q[p] = R[p]
      BY <1>1, <1>3, <1>6
    <2>1. CASE q0 = p /\ j = a
      BY <1>2, <1>11, <2>0, <2>1
    <2>2. CASE ~(q0 = p /\ j = a)
      <3>1. PICK q \in Inner(w) : \E i \in 1..Len(S(w, q)) :
              S(v, q0)[j] = S(w, q)[i] /\ Moves(p, a, n, l, r, c, q0, j, q, i)
        BY <1>0, <2>2, NewPlace
      <3>2. PICK i \in 1..Len(S(w, q)) :
              S(v, q0)[j] = S(w, q)[i] /\ Moves(p, a, n, l, r, c, q0, j, q, i)
        BY <3>1
      <3> DEFINE m == S(w, q)[i]
      <3>3. m \in N(w) \ {l, r} /\ R[m] = Route(K(w, q), R[q], i)
        BY <3>2, MovedChild, ChildFacts
      <3>4. Q[m] = R[m] /\ m = S(v, q0)[j]
        BY <1>2, <1>3, <3>2, <3>3
      <3> HIDE DEF m
      <3>5. CASE q0 = p /\ q = p /\ i < a /\ j = i
        <4>1. i \in 1..(a - 1)
          BY <1>2, <3>5
        <4>2. Route(K(w, p), R[p], i) = Route(K(v, p), R[p], i)
          BY <1>9, <4>1 DEF RoutesDivide
        <4> QED  BY <2>0, <3>3, <3>4, <3>5, <4>2
      <3>6. CASE q0 = p /\ q = p /\ i > a + 1 /\ j = i - 1
        <4>1. i \in (a + 2)..(Len(K(v, p)) + 2)
          <5>1. a \in Nat /\ Len(K(v, p)) \in Nat /\ Len(S(w, p)) = Len(K(v, p)) + 2
            BY <1>1, <1>2, <1>6
          <5> QED  BY <3>6, <5>1
        <4>2. Route(K(w, p), R[p], i) = Route(K(v, p), R[p], i - 1)
          BY <1>9, <4>1 DEF RoutesDivide
        <4> QED  BY <2>0, <3>3, <3>4, <3>6, <4>2
      <3>7. CASE q0 = n /\ q = l /\ i <= c /\ j = i
        <4>1. ~is_leaf(v, n) /\ R[l] = {k \in Q[n] : k < sep} /\ i \in 1..c
          BY <1>1, <1>11, <3>7 DEF Inner
        <4>2. Route(K(w, l), {k \in Q[n] : k < sep}, i) = Route(K(v, n), Q[n], i)
          BY <1>12, <4>1 DEF RoutesHalve
        <4> QED  BY <3>3, <3>4, <3>7, <4>1, <4>2
      <3>8. CASE q0 = n /\ q = r /\ j = c + i
        <4>1. ~is_leaf(v, n) /\ R[r] = {k \in Q[n] : sep <= k}
          BY <1>1, <1>11, <3>8 DEF Inner
        <4>2. i \in 1..(Len(K(v, n)) - c + 1)
          BY <1>1, <3>8, <4>1
        <4>3. Route(K(w, r), {k \in Q[n] : sep <= k}, i) = Route(K(v, n), Q[n], c + i)
          BY <1>12, <4>1, <4>2 DEF RoutesHalve
        <4> QED  BY <3>3, <3>4, <3>8, <4>1, <4>3
      <3>9. CASE q0 \notin {p, n} /\ q \notin {p, l, r} /\ q = q0 /\ j = i
        <4>1. K(w, q) = K(v, q) /\ Q[q] = R[q]
          BY <1>1, <1>3, <3>9 DEF Inner
        <4> QED  BY <3>3, <3>4, <3>9, <4>1
      <3> QED  BY <3>2, <3>5, <3>6, <3>7, <3>8, <3>9 DEF Moves
    <2> QED  BY <2>1, <2>2
  <1>14. ASSUME NEW m \in Leafs(v)
         PROVE  Sorted(K(v, m)) /\ \A i \in 1..Len(K(v, m)) : K(v, m)[i] \in Q[m]
    <2>1. CASE m # n
      <3>1. m \in Leafs(w) /\ K(w, m) = K(v, m) /\ Q[m] = R[m]
        BY <1>1, <1>3, <2>1 DEF Leafs
      <3> QED  BY <1>0, <3>1 DEF Routes
    <2>2. CASE m = n
      <3>1. is_leaf(v, n) /\ l \in Leafs(w) /\ r \in Leafs(w)
        BY <1>1, <2>2 DEF Inner, Leafs
      <3>2. /\ Cut(K(v, n), c, c, K(w, l), K(w, r))
            /\ \A j \in 1..c : K(v, n)[j] < sep
            /\ \A j \in (c + 1)..Len(K(v, n)) : sep <= K(v, n)[j]
            /\ c \in 0..Len(K(v, n))
        BY <3>1 DEF SplitBody
      <3>3. K(v, n) \in Seq(Int) /\ K(w, l) \in Seq(Int) /\ K(w, r) \in Seq(Int)
        BY <1>0, <1>1 DEF Formed, NodeFormed
      <3>4. Sorted(K(w, l)) /\ Sorted(K(w, r))
        BY <1>0, <3>1 DEF Routes
      <3>5. Sorted(K(v, n))
        BY <1>2, <3>2, <3>3, <3>4, SortedCut
      <3>6. (\A i \in 1..Len(K(w, l)) : K(w, l)[i] \in R[l])
            /\ (\A i \in 1..Len(K(w, r)) : K(w, r)[i] \in R[r])
        BY <1>0, <3>1 DEF Routes
      <3>7. ASSUME NEW i \in 1..Len(K(v, n))
            PROVE  K(v, n)[i] \in Q[n]
        <4>1. CASE i <= c
          <5>1. i \in 1..Len(K(w, l)) /\ K(w, l)[i] = K(v, n)[i]
            BY <3>2, <4>1 DEF Cut
          <5> QED  BY <1>3, <3>6, <5>1
        <4>2. CASE i > c
          <5>1. i - c \in 1..(Len(K(v, n)) - c) /\ c + (i - c) = i
            BY <3>2, <3>3, <4>2
          <5>2. i - c \in 1..Len(K(w, r)) /\ K(w, r)[i - c] = K(v, n)[i]
            BY <3>2, <5>1 DEF Cut
          <5> QED  BY <1>3, <3>6, <5>2
        <4> QED  BY <3>2, <4>1, <4>2
      <3> QED  BY <2>2, <3>5, <3>7
    <2> QED  BY <2>1, <2>2
  <1>15. Q[v.root] = Int
    <2>1. v.root \in N(v)
      BY DEF Formed
    <2> QED  BY <1>0, <1>2, <1>3, <2>1 DEF Routes
  <1>16. ASSUME NEW m \in N(v)
         PROVE  Q[m] # {} /\ Q[m] \subseteq Int
    <2>1. CASE m = n
      BY <1>1, <1>3, <1>4, <2>1
    <2>2. CASE m # n
      BY <1>3, <1>4, <2>2
    <2> QED  BY <2>1, <2>2
  <1>17. Routes(v, Q)
    BY <1>13, <1>14, <1>15, <1>16 DEF Routes
  <1> QED  BY <1>17 DEF Q

\* A merge keeps the tree a tree.
LEMMA MergeKeeps ==
  ASSUME NEW v, NEW w, NEW p, NEW a, NEW n, NEW l, NEW r, NEW c, NEW sep, NEW h, NEW R,
         TreeInv(w, h, R), Formed(v), SplitBody(v, w, p, a, n, l, r, c, sep),
         MergeBacks(v, w, p, n)
  PROVE  TreeInv(v, MergeHeight(v, h, n, l), MergeRange(v, R, n, l, r))
  BY MergeHeights, MergeParents, MergeRoutes DEF TreeInv

\* w differs from v in what the leaves of the set L hold, and only in that.
LeavesChanged(v, w, L) ==
  /\ w.root = v.root /\ w.level = v.level /\ N(w) = N(v) /\ L \subseteq Leafs(v)
  /\ \A m \in N(v) \ L : Same(v, w, m)
  /\ \A m \in L : is_leaf(w, m)
  /\ \A m \in N(v) : P(w, m) = P(v, m) /\ X(w, m) = X(v, m)

\* Leaves may change what they hold as long as it is theirs to hold.
LEMMA LeavesKeep ==
  ASSUME NEW v, NEW w, NEW L, NEW h, NEW R, TreeInv(v, h, R), Formed(w), LeavesChanged(v, w, L),
         \A m \in L : Sorted(K(w, m)) /\ \A i \in 1..Len(K(w, m)) : K(w, m)[i] \in R[m]
  PROVE  TreeInv(w, h, R)
  <1>0. Formed(v) /\ Heights(v, h) /\ Routes(v, R) /\ Parents(v)
    BY DEF TreeInv
  <1>1. /\ w.root = v.root /\ w.level = v.level /\ N(w) = N(v) /\ L \subseteq Leafs(v)
        /\ \A m \in N(v) \ L : Same(v, w, m)
        /\ \A m \in N(v) : P(w, m) = P(v, m) /\ X(w, m) = X(v, m)
    BY DEF LeavesChanged
  <1>2. Inner(w) = Inner(v) /\ Leafs(w) = Leafs(v)
    BY DEF LeavesChanged, Same, Inner, Leafs
  <1>3. \A q \in Inner(v) : K(w, q) = K(v, q) /\ S(w, q) = S(v, q)
    BY <1>1 DEF Same, Inner, Leafs
  <1>4. Heights(w, h)
    <2>1. \A m \in N(v) : is_leaf(w, m) <=> is_leaf(v, m)
      BY <1>1, <1>2 DEF Inner, Leafs
    <2> QED  BY <1>0, <1>1, <1>2, <1>3, <2>1 DEF Heights
  <1>5. Routes(w, R)
    <2>1. \A m \in Leafs(v) \ L : K(w, m) = K(v, m)
      BY <1>1 DEF Same, Leafs
    <2>2. \A m \in Leafs(w) : Sorted(K(w, m)) /\ \A i \in 1..Len(K(w, m)) : K(w, m)[i] \in R[m]
      BY <1>0, <1>2, <2>1 DEF Routes
    <2> QED  BY <1>0, <1>1, <1>2, <1>3, <2>2 DEF Routes
  <1>6. Parents(w)
    <2>1. \A q \in Inner(w) : Owns(w, q)
      <3> SUFFICES ASSUME NEW q \in Inner(w), NEW i \in 1..Len(S(w, q))
                   PROVE  P(w, S(w, q)[i]) = q /\ X(w, S(w, q)[i]) = i - 2
        BY DEF Owns
      <3>1. i \in 1..Len(S(v, q)) /\ q \in Inner(v) /\ S(w, q)[i] = S(v, q)[i]
        BY <1>2, <1>3
      <3>2. S(v, q)[i] \in N(v) /\ P(v, S(v, q)[i]) = q /\ X(v, S(v, q)[i]) = i - 2
        BY <3>1, ChildFacts
      <3> QED  BY <1>1, <3>1, <3>2
    <2>2. ASSUME NEW m \in N(w) \ {w.root}
          PROVE  Owned(w, m)
      <3>1. Owned(v, m)
        BY <1>0, <1>1 DEF Parents
      <3>2. P(w, m) = P(v, m) /\ X(w, m) = X(v, m)
        BY <1>1
      <3> QED  BY <1>2, <1>3, <3>1, <3>2 DEF Owned
    <2>3. P(w, w.root) = NULL
      BY <1>0, <1>1 DEF Parents, Formed
    <2> QED  BY <2>1, <2>2, <2>3 DEF Parents
  <1> QED  BY <1>4, <1>5, <1>6 DEF TreeInv

\* u is v with a root q above, which has one child and no keys.
RootBody(v, u, q) ==
  /\ q \notin N(v) /\ N(u) = N(v) \cup {q}
  /\ u.root = q /\ u.level = v.level + 1
  /\ ~is_leaf(u, q) /\ Len(S(u, q)) = 1 /\ S(u, q)[1] = v.root
  /\ \A m \in N(v) : Same(v, u, m)
  /\ \A m \in N(v) \ {v.root} : P(u, m) = P(v, m) /\ X(u, m) = X(v, m)
  /\ P(u, q) = NULL /\ P(v, v.root) = NULL
  /\ P(u, v.root) = q /\ X(u, v.root) = -1

RootHeight(u, h, q) == [m \in N(u) |-> IF m = q THEN u.level ELSE h[m]]
RootRange(u, R, q) == [m \in N(u) |-> IF m = q THEN Int ELSE R[m]]

\* A new root above the old one keeps the tree a tree.
LEMMA RootAdded ==
  ASSUME NEW v, NEW u, NEW q, NEW h, NEW R, TreeInv(v, h, R), Formed(u), RootBody(v, u, q)
  PROVE  TreeInv(u, RootHeight(u, h, q), RootRange(u, R, q))
  <1> DEFINE g == RootHeight(u, h, q)
             Q == RootRange(u, R, q)
  <1>0. Formed(v) /\ Heights(v, h) /\ Routes(v, R) /\ Parents(v)
    BY DEF TreeInv
  <1>1. /\ q \notin N(v) /\ N(u) = N(v) \cup {q}
        /\ u.root = q /\ u.level = v.level + 1
        /\ ~is_leaf(u, q) /\ Len(S(u, q)) = 1 /\ S(u, q)[1] = v.root
        /\ \A m \in N(v) : Same(v, u, m)
        /\ \A m \in N(v) \ {v.root} : P(u, m) = P(v, m) /\ X(u, m) = X(v, m)
        /\ P(u, q) = NULL /\ P(u, v.root) = q /\ X(u, v.root) = -1
        /\ v.root \in N(v) /\ v.level \in Nat
    BY <1>0 DEF RootBody, Formed
  <1>2. Inner(u) = Inner(v) \cup {q} /\ Leafs(u) = Leafs(v)
    BY <1>1 DEF Inner, Leafs, Same
  <1>3. /\ \A x \in Inner(v) : K(u, x) = K(v, x) /\ S(u, x) = S(v, x)
        /\ \A x \in Leafs(v) : K(u, x) = K(v, x)
    BY <1>1 DEF Inner, Leafs, Same
  <1>4. /\ \A m \in N(v) : g[m] = h[m] /\ Q[m] = R[m]
        /\ g[q] = u.level /\ Q[q] = Int
    BY <1>1 DEF RootHeight, RootRange
  <1> HIDE DEF g, Q
  <1>5. \A x \in Inner(v) : x \in N(v) /\ x # q
    BY <1>1 DEF Inner
  <1>6. \A x \in Leafs(v) : x \in N(v) /\ x # q
    BY <1>1 DEF Leafs
  <1>7. Len(K(u, q)) = 0
    <2>1. NodeFormed(u, q)
      BY <1>1 DEF Formed
    <2> QED  BY <1>1, <2>1 DEF NodeFormed
  <1>8. ASSUME NEW x \in Inner(u), NEW i \in 1..Len(S(u, x))
        PROVE  /\ g[S(u, x)[i]] = g[x] - 1
               /\ Q[S(u, x)[i]] = Route(K(u, x), Q[x], i)
               /\ P(u, S(u, x)[i]) = x /\ X(u, S(u, x)[i]) = i - 2
    <2>1. CASE x = q
      <3>1. i = 1 /\ S(u, x)[i] = v.root
        <4>1. Len(S(u, x)) = 1 /\ S(u, x)[1] = v.root
          BY <1>1, <2>1
        <4>2. i = 1
          BY <4>1
        <4> QED  BY <4>1, <4>2
      <3>2. Route(K(u, q), Int, 1) = Int
        BY <1>7 DEF Route
      <3>3. h[v.root] = v.level /\ R[v.root] = Int
        BY <1>0 DEF Heights, Routes
      <3>4. g[S(u, x)[i]] = g[x] - 1
        BY <1>1, <1>4, <2>1, <3>1, <3>3
      <3>5. Q[S(u, x)[i]] = Route(K(u, x), Q[x], i)
        <4>1. Q[S(u, x)[i]] = Int
          BY <1>1, <1>4, <3>1, <3>3
        <4>2. Q[x] = Int
          BY <1>4, <2>1
        <4> QED  BY <2>1, <3>1, <3>2, <4>1, <4>2
      <3>6. P(u, S(u, x)[i]) = x
        BY <1>1, <2>1, <3>1
      <3>7. X(u, S(u, x)[i]) = i - 2
        <4>1. X(u, S(u, x)[i]) = -1
          BY <1>1, <3>1
        <4> QED  BY <3>1, <4>1
      <3> QED  BY <3>4, <3>5, <3>6, <3>7
    <2>2. CASE x # q
      <3>1. x \in Inner(v) /\ S(u, x) = S(v, x) /\ K(u, x) = K(v, x)
        BY <1>2, <1>3, <2>2
      <3>2. /\ S(v, x)[i] \in N(v) /\ S(v, x)[i] # v.root /\ h[S(v, x)[i]] = h[x] - 1
            /\ P(v, S(v, x)[i]) = x /\ X(v, S(v, x)[i]) = i - 2
            /\ R[S(v, x)[i]] = Route(K(v, x), R[x], i)
        BY <3>1, ChildFacts
      <3>3. g[x] = h[x] /\ Q[x] = R[x]
        BY <1>4, <1>5, <3>1
      <3> QED  BY <1>1, <1>4, <3>1, <3>2, <3>3
    <2> QED  BY <2>1, <2>2
  <1>9. Heights(u, g)
    <2>1. ASSUME NEW m \in N(u)
          PROVE  g[m] \in 0..u.level /\ (is_leaf(u, m) <=> g[m] = 0)
      <3>1. CASE m = q
        BY <1>1, <1>4, <3>1
      <3>2. CASE m # q
        <4>1. m \in N(v) /\ g[m] = h[m] /\ (is_leaf(u, m) <=> is_leaf(v, m))
          BY <1>1, <1>4, <3>2 DEF Same
        <4>2. h[m] \in 0..v.level /\ (is_leaf(v, m) <=> h[m] = 0)
          BY <1>0, <4>1 DEF Heights
        <4> QED  BY <1>1, <4>1, <4>2
      <3> QED  BY <3>1, <3>2
    <2> QED  BY <1>1, <1>4, <1>8, <2>1 DEF Heights
  <1>10. Routes(u, Q)
    <2>1. ASSUME NEW m \in N(u)
          PROVE  Q[m] # {} /\ Q[m] \subseteq Int
      <3>1. CASE m = q
        BY <1>4, <3>1
      <3>2. CASE m # q
        BY <1>0, <1>1, <1>4, <3>2 DEF Routes
      <3> QED  BY <3>1, <3>2
    <2>2. \A m \in Leafs(u) : Sorted(K(u, m)) /\ \A i \in 1..Len(K(u, m)) : K(u, m)[i] \in Q[m]
      BY <1>0, <1>2, <1>3, <1>4, <1>6 DEF Routes
    <2> QED  BY <1>1, <1>4, <1>8, <2>1, <2>2 DEF Routes
  <1>11. Parents(u)
    <2>1. \A x \in Inner(u) : Owns(u, x)
      BY <1>8 DEF Owns
    <2>2. ASSUME NEW m \in N(u) \ {u.root}
          PROVE  Owned(u, m)
      <3>1. CASE m = v.root
        <4>1. -1 + 2 = 1 /\ 1 \in 1..1
          OBVIOUS
        <4> QED  BY <1>1, <1>2, <3>1, <4>1 DEF Owned
      <3>2. CASE m # v.root
        <4>1. Owned(v, m) /\ P(u, m) = P(v, m) /\ X(u, m) = X(v, m)
          BY <1>0, <1>1, <3>2 DEF Parents
        <4> QED  BY <1>2, <1>3, <4>1 DEF Owned
      <3> QED  BY <3>1, <3>2
    <2> QED  BY <1>1, <2>1, <2>2 DEF Parents
  <1>12. TreeInv(u, g, Q)
    BY <1>9, <1>10, <1>11 DEF TreeInv
  <1> QED  BY <1>12 DEF g, Q

\* So does taking away a root that has one child.
LEMMA RootDropped ==
  ASSUME NEW v, NEW u, NEW q, NEW h, NEW R, TreeInv(u, h, R), Formed(v), RootBody(v, u, q)
  PROVE  TreeInv(v, h, R)
  <1>0. Formed(u) /\ Heights(u, h) /\ Routes(u, R) /\ Parents(u)
    BY DEF TreeInv
  <1>1. /\ q \notin N(v) /\ N(u) = N(v) \cup {q}
        /\ u.root = q /\ u.level = v.level + 1
        /\ ~is_leaf(u, q) /\ Len(S(u, q)) = 1 /\ S(u, q)[1] = v.root
        /\ \A m \in N(v) : Same(v, u, m)
        /\ \A m \in N(v) \ {v.root} : P(u, m) = P(v, m) /\ X(u, m) = X(v, m)
        /\ P(u, q) = NULL /\ P(v, v.root) = NULL
        /\ P(u, v.root) = q
        /\ v.root \in N(v) /\ v.level \in Nat
    BY DEF RootBody, Formed
  <1>2. Inner(u) = Inner(v) \cup {q} /\ Leafs(u) = Leafs(v) /\ q \in Inner(u)
    BY <1>1 DEF Inner, Leafs, Same
  <1>3. /\ \A x \in Inner(v) : K(u, x) = K(v, x) /\ S(u, x) = S(v, x)
        /\ \A x \in Leafs(v) : K(u, x) = K(v, x)
    BY <1>1 DEF Inner, Leafs, Same
  <1>4. \A x \in Inner(v) : x \in N(v) /\ x # q /\ x \in Inner(u)
    BY <1>1, <1>2 DEF Inner
  <1>5. Len(K(u, q)) = 0
    <2>1. NodeFormed(u, q)
      BY <1>0, <1>1 DEF Formed
    <2> QED  BY <1>1, <2>1 DEF NodeFormed
  <1>6. h[v.root] = v.level /\ R[v.root] = Int
    <2>1. 1 \in 1..Len(S(u, q)) /\ h[q] = u.level /\ R[q] = Int
      BY <1>0, <1>1 DEF Heights, Routes
    <2>2. h[S(u, q)[1]] = h[q] - 1 /\ R[S(u, q)[1]] = Route(K(u, q), R[q], 1)
      BY <1>2, <2>1, ChildFacts
    <2>3. Route(K(u, q), Int, 1) = Int
      BY <1>5 DEF Route
    <2> QED  BY <1>1, <2>1, <2>2, <2>3
  <1>7. ASSUME NEW x \in Inner(v), NEW i \in 1..Len(S(v, x))
        PROVE  /\ h[S(v, x)[i]] = h[x] - 1
               /\ R[S(v, x)[i]] = Route(K(v, x), R[x], i)
               /\ P(v, S(v, x)[i]) = x /\ X(v, S(v, x)[i]) = i - 2
    <2>1. x \in Inner(u) /\ S(u, x) = S(v, x) /\ K(u, x) = K(v, x) /\ x # q /\ x \in N(v)
      BY <1>3, <1>4
    <2>2. /\ h[S(u, x)[i]] = h[x] - 1
          /\ P(u, S(u, x)[i]) = x /\ X(u, S(u, x)[i]) = i - 2
          /\ R[S(u, x)[i]] = Route(K(u, x), R[x], i)
      BY <2>1, ChildFacts
    <2>3. NodeFormed(v, x) /\ ~is_leaf(v, x)
      BY <2>1 DEF Formed, Inner
    <2>4. S(v, x)[i] \in N(v)
      BY <2>3 DEF NodeFormed
    <2>5. S(v, x)[i] # v.root
      BY <1>1, <2>1, <2>2
    <2> QED  BY <1>1, <2>1, <2>2, <2>4, <2>5
  <1>8. Heights(v, h)
    <2>1. ASSUME NEW m \in N(v)
          PROVE  h[m] \in 0..v.level /\ (is_leaf(v, m) <=> h[m] = 0)
      <3>1. m \in N(u) \ {u.root} /\ (is_leaf(u, m) <=> is_leaf(v, m))
        BY <1>1 DEF Same
      <3>2. h[m] \in 0..u.level /\ (is_leaf(u, m) <=> h[m] = 0)
        BY <1>0, <3>1 DEF Heights
      <3>3. Owned(u, m)
        BY <1>0, <3>1 DEF Parents
      <3>4. PICK x \in Inner(u) : \E i \in 1..Len(S(u, x)) : S(u, x)[i] = m
        BY <3>3 DEF Owned
      <3>5. h[m] = h[x] - 1 /\ h[x] \in 1..u.level
        BY <3>4, ChildFacts
      <3> QED  BY <1>1, <3>1, <3>2, <3>5
    <2> QED  BY <1>6, <1>7, <2>1 DEF Heights
  <1>9. Routes(v, R)
    <2>1. \A m \in N(v) : m \in N(u)
      BY <1>1
    <2>2. \A m \in Leafs(v) : Sorted(K(v, m)) /\ \A i \in 1..Len(K(v, m)) : K(v, m)[i] \in R[m]
      BY <1>0, <1>2, <1>3 DEF Routes
    <2>3. \A m \in N(v) : R[m] # {} /\ R[m] \subseteq Int
      BY <1>0, <2>1 DEF Routes
    <2> QED  BY <1>6, <1>7, <2>2, <2>3 DEF Routes
  <1>10. Parents(v)
    <2>1. \A x \in Inner(v) : Owns(v, x)
      BY <1>7 DEF Owns
    <2>2. ASSUME NEW m \in N(v) \ {v.root}
          PROVE  Owned(v, m)
      <3>1. Owned(u, m) /\ P(u, m) = P(v, m) /\ X(u, m) = X(v, m)
        BY <1>0, <1>1 DEF Parents
      <3>2. PICK x \in Inner(u) : x = P(u, m) /\ X(u, m) + 2 \in 1..Len(S(u, x))
                                  /\ S(u, x)[X(u, m) + 2] = m
        BY <3>1 DEF Owned
      <3>3. x # q
        <4>1. SUFFICES ASSUME x = q PROVE FALSE
          OBVIOUS
        <4>2. PICK j \in 1..Len(S(u, q)) : S(u, q)[j] = m
          BY <3>2, <4>1
        <4>3. Len(S(u, q)) = 1
          BY <1>1
        <4>4. j = 1
          BY <4>3
        <4> QED  BY <1>1, <4>2, <4>4
      <3>4. x \in Inner(v) /\ S(u, x) = S(v, x)
        BY <1>2, <1>3, <3>3
      <3> QED  BY <3>1, <3>2, <3>4 DEF Owned
    <2> QED  BY <1>1, <2>1, <2>2 DEF Parents
  <1> QED  BY <1>8, <1>9, <1>10 DEF TreeInv

-----------------------------------------------------------------------------
\* The lists of the levels.

\* The links of k lead from place to place and back.
Ring(k) ==
  \A x \in DOMAIN k :
    /\ DOMAIN k[x] = {"prev", "next"}
    /\ k[x].prev \in DOMAIN k /\ k[x].next \in DOMAIN k
    /\ k[k[x].next].prev = x /\ k[k[x].prev].next = x

\* The links once __list_add has put n between prev and next.
Added(k, n, prev, next) ==
  LET linked == With(k, n, [prev |-> prev, next |-> next])
      behind == [linked EXCEPT ![next].prev = n]
  IN [behind EXCEPT ![prev].next = n]

\* The links once node_delete has taken n out.
Dropped(k, n) ==
  LET prev == k[n].prev
      next == k[n].next
      ahead == [k EXCEPT ![prev].next = next]
      unlinked == [ahead EXCEPT ![next].prev = prev]
  IN [x \in DOMAIN unlinked \ {n} |-> unlinked[x]]

\* k2 is k with n between prev and next, and k2 is k without n.
Inserted(k, k2, n, prev, next) ==
  /\ Ring(k2) /\ DOMAIN k2 = DOMAIN k \cup {n}
  /\ k2[n].next = next /\ k2[prev].next = n
  /\ \A x \in DOMAIN k \ {prev} : k2[x].next = k[x].next
TakenOut(k, k2, n) ==
  /\ Ring(k2) /\ DOMAIN k2 = DOMAIN k \ {n}
  /\ \A x \in DOMAIN k2 : k2[x].next = IF k[x].next = n THEN k[n].next ELSE k[x].next

\* What a list looks like with n in it.
LEMMA RingAdded ==
  ASSUME NEW k, NEW n, NEW prev, NEW next,
         Ring(k), n \notin DOMAIN k, prev \in DOMAIN k, next = k[prev].next,
         NEW k2, k2 = Added(k, n, prev, next)
  PROVE  Inserted(k, k2, n, prev, next)
  <1> DEFINE linked == With(k, n, [prev |-> prev, next |-> next])
             behind == [linked EXCEPT ![next].prev = n]
  <1>1. /\ DOMAIN linked = DOMAIN k \cup {n}
        /\ linked[n] = [prev |-> prev, next |-> next]
        /\ \A x \in DOMAIN k : linked[x] = k[x]
    BY DEF With
  <1>2. /\ next \in DOMAIN k /\ k[next].prev = prev
        /\ \A x \in DOMAIN k : k[x].next = next => x = prev
    BY DEF Ring
  <1> HIDE DEF linked
  <1>3. /\ DOMAIN behind = DOMAIN linked
        /\ behind[next] = [linked[next] EXCEPT !.prev = n]
        /\ \A x \in DOMAIN linked \ {next} : behind[x] = linked[x]
    BY <1>1, <1>2
  <1>4. k2 = [behind EXCEPT ![prev].next = n]
    BY DEF Added, linked
  <1> HIDE DEF behind
  <1>5. /\ DOMAIN k2 = DOMAIN k \cup {n}
        /\ k2[prev] = [behind[prev] EXCEPT !.next = n]
        /\ \A x \in DOMAIN k2 \ {prev} : k2[x] = behind[x]
    BY <1>1, <1>3, <1>4
  <1>6. \A x \in DOMAIN k : DOMAIN k[x] = {"prev", "next"}
    BY DEF Ring
  <1>7. \A x \in DOMAIN linked : DOMAIN linked[x] = {"prev", "next"}
    BY <1>1, <1>6
  <1>8. \A x \in DOMAIN behind : /\ DOMAIN behind[x] = {"prev", "next"}
                                 /\ behind[x].next = linked[x].next
                                 /\ behind[x].prev = IF x = next THEN n ELSE linked[x].prev
    BY <1>3, <1>7
  <1>9. \A x \in DOMAIN k2 : /\ DOMAIN k2[x] = {"prev", "next"}
                             /\ k2[x].next = IF x = prev THEN n ELSE linked[x].next
                             /\ k2[x].prev = IF x = next THEN n ELSE linked[x].prev
    BY <1>1, <1>3, <1>4, <1>5, <1>8
  <1>10. k2[n].next = next /\ k2[n].prev = prev /\ k2[prev].next = n /\ k2[next].prev = n
    BY <1>1, <1>2, <1>5, <1>9
  <1>11. \A x \in DOMAIN k : /\ x # prev => k2[x].next = k[x].next
                             /\ x # next => k2[x].prev = k[x].prev
    BY <1>1, <1>5, <1>9
  <1>12. Ring(k2)
    <2> SUFFICES ASSUME NEW x \in DOMAIN k2
                 PROVE  /\ k2[x].prev \in DOMAIN k2 /\ k2[x].next \in DOMAIN k2
                        /\ k2[k2[x].next].prev = x /\ k2[k2[x].prev].next = x
      BY <1>9 DEF Ring
    <2>1. CASE x = n
      BY <2>1, <1>2, <1>5, <1>10
    <2>2. CASE x # n
      <3>1. x \in DOMAIN k /\ k[x].prev \in DOMAIN k /\ k[x].next \in DOMAIN k
            /\ k[k[x].next].prev = x /\ k[k[x].prev].next = x
        BY <2>2, <1>5 DEF Ring
      <3>2. k2[x].next \in DOMAIN k2 /\ k2[k2[x].next].prev = x
        <4>1. CASE x = prev
          BY <4>1, <1>5, <1>10
        <4>2. CASE x # prev
          <5>1. k2[x].next = k[x].next /\ k[x].next # next
            BY <3>1, <4>2, <1>2, <1>11
          <5> QED  BY <5>1, <3>1, <1>5, <1>11
        <4> QED  BY <4>1, <4>2
      <3>3. k2[x].prev \in DOMAIN k2 /\ k2[k2[x].prev].next = x
        BY <3>1, <1>2, <1>5, <1>10, <1>11
      <3> QED  BY <3>2, <3>3
    <2> QED  BY <2>1, <2>2
  <1> QED  BY <1>5, <1>10, <1>11, <1>12 DEF Inserted

\* What a list looks like without n.
LEMMA RingDropped ==
  ASSUME NEW k, NEW n, Ring(k), n \in DOMAIN k, k[n].next # n,
         NEW k2, k2 = Dropped(k, n)
  PROVE  TakenOut(k, k2, n)
  <1> DEFINE prev == k[n].prev
             next == k[n].next
             ahead == [k EXCEPT ![prev].next = next]
             unlinked == [ahead EXCEPT ![next].prev = prev]
  <1>1. /\ prev \in DOMAIN k /\ next \in DOMAIN k
        /\ k[next].prev = n /\ k[prev].next = n
        /\ \A x \in DOMAIN k : DOMAIN k[x] = {"prev", "next"}
    BY DEF Ring
  <1>2. k2 = [x \in DOMAIN unlinked \ {n} |-> unlinked[x]]
    BY DEF Dropped
  <1>3. next # n /\ prev # n
    BY <1>1
  <1>4. \A x \in DOMAIN k : (k[x].next = n <=> x = prev) /\ (k[x].prev = n <=> x = next)
    BY <1>1 DEF Ring
  <1> HIDE DEF prev, next
  <1>5. /\ DOMAIN ahead = DOMAIN k
        /\ \A x \in DOMAIN k : /\ DOMAIN ahead[x] = {"prev", "next"}
                               /\ ahead[x].next = IF x = prev THEN next ELSE k[x].next
                               /\ ahead[x].prev = k[x].prev
    BY <1>1
  <1> HIDE DEF ahead
  <1>6. /\ DOMAIN unlinked = DOMAIN k
        /\ \A x \in DOMAIN k : /\ DOMAIN unlinked[x] = {"prev", "next"}
                               /\ unlinked[x].next = IF x = prev THEN next ELSE k[x].next
                               /\ unlinked[x].prev = IF x = next THEN prev ELSE k[x].prev
    BY <1>1, <1>5
  <1> HIDE DEF unlinked
  <1>7. /\ DOMAIN k2 = DOMAIN k \ {n}
        /\ \A x \in DOMAIN k2 : /\ DOMAIN k2[x] = {"prev", "next"}
                                /\ k2[x].next = IF x = prev THEN next ELSE k[x].next
                                /\ k2[x].prev = IF x = next THEN prev ELSE k[x].prev
    BY <1>2, <1>6
  <1>8. Ring(k2)
    <2> SUFFICES ASSUME NEW x \in DOMAIN k2
                 PROVE  /\ k2[x].prev \in DOMAIN k2 /\ k2[x].next \in DOMAIN k2
                        /\ k2[k2[x].next].prev = x /\ k2[k2[x].prev].next = x
      BY <1>7 DEF Ring
    <2>1. x \in DOMAIN k /\ x # n /\ k[x].prev \in DOMAIN k /\ k[x].next \in DOMAIN k
          /\ k[k[x].next].prev = x /\ k[k[x].prev].next = x
      BY <1>7 DEF Ring
    <2>2. k2[x].next \in DOMAIN k2 /\ k2[k2[x].next].prev = x
      BY <2>1, <1>1, <1>3, <1>4, <1>7
    <2>3. k2[x].prev \in DOMAIN k2 /\ k2[k2[x].prev].next = x
      BY <2>1, <1>1, <1>3, <1>4, <1>7
    <2> QED  BY <2>2, <2>3
  <1> QED  BY <1>4, <1>7, <1>8 DEF next, TakenOut

\* In the list kw the node r follows l, and in kv the node n stands for both.
Both(y, n, l, r) == IF y \in {l, r} THEN n ELSE y
Joined(kv, kw, n, l, r) ==
  /\ Ring(kv) /\ Ring(kw) /\ l # r /\ n \in {l, r} /\ l \in DOMAIN kw /\ r \in DOMAIN kw
  /\ DOMAIN kw = DOMAIN kv \cup {l, r} /\ n \in DOMAIN kv /\ DOMAIN kv \cap {l, r} = {n}
  /\ kw[l].next = r
  /\ \A x \in DOMAIN kw \ {l} : kv[Both(x, n, l, r)].next = Both(kw[x].next, n, l, r)

\* The one list follows x with y where the other does.
LEMMA JoinedStep ==
  ASSUME NEW kv, NEW kw, NEW n, NEW l, NEW r, Joined(kv, kw, n, l, r),
         NEW x \in DOMAIN kw \ {l}, NEW y \in DOMAIN kw \ {r}
  PROVE  kw[x].next = y <=> kv[Both(x, n, l, r)].next = Both(y, n, l, r)
  <1>1. kw[x].next # r
    BY DEF Joined, Ring
  <1>2. kw[x].next \in DOMAIN kw
    BY DEF Joined, Ring
  <1>3. kv[Both(x, n, l, r)].next = Both(kw[x].next, n, l, r)
    BY DEF Joined
  <1>4. l # r /\ n \in {l, r}
    BY DEF Joined
  <1> QED  BY <1>1, <1>2, <1>3, <1>4 DEF Both

\* Putting a new node beside n splits n.
LEMMA JoinedAdded ==
  ASSUME NEW k, NEW n \in DOMAIN k, NEW m, Ring(k), m \notin DOMAIN k
  PROVE  /\ Joined(k, Added(k, m, n, k[n].next), n, n, m)
         /\ Joined(k, Added(k, m, k[n].prev, n), n, m, n)
  <1>1. Joined(k, Added(k, m, n, k[n].next), n, n, m)
    <2> DEFINE k2 == Added(k, m, n, k[n].next)
    <2>1. /\ Ring(k2) /\ DOMAIN k2 = DOMAIN k \cup {m}
          /\ k2[m].next = k[n].next /\ k2[n].next = m
          /\ \A x \in DOMAIN k \ {n} : k2[x].next = k[x].next
      <3>1. Inserted(k, k2, m, n, k[n].next)
        BY RingAdded
      <3> HIDE DEF k2
      <3> QED  BY <3>1 DEF Inserted
    <2> HIDE DEF k2
    <2>2. \A x \in DOMAIN k : k[x].next \in DOMAIN k
      BY DEF Ring
    <2>3. \A x \in DOMAIN k2 \ {n} : k[Both(x, n, n, m)].next = Both(k2[x].next, n, n, m)
      <3> SUFFICES ASSUME NEW x \in DOMAIN k2 \ {n}
                   PROVE  k[Both(x, n, n, m)].next = Both(k2[x].next, n, n, m)
        OBVIOUS
      <3>1. CASE x = m
        BY <3>1, <2>1, <2>2 DEF Both
      <3>2. CASE x # m
        BY <3>2, <2>1, <2>2 DEF Both
      <3> QED  BY <3>1, <3>2
    <2>4. Joined(k, k2, n, n, m)
      BY <2>1, <2>3 DEF Joined
    <2> QED  BY <2>4 DEF k2
  <1>2. Joined(k, Added(k, m, k[n].prev, n), n, m, n)
    <2> DEFINE prev == k[n].prev
               k2 == Added(k, m, prev, n)
    <2>1. prev \in DOMAIN k /\ k[prev].next = n
      BY DEF Ring
    <2> HIDE DEF prev
    <2>2. /\ Ring(k2) /\ DOMAIN k2 = DOMAIN k \cup {m}
          /\ k2[m].next = n /\ k2[prev].next = m
          /\ \A x \in DOMAIN k \ {prev} : k2[x].next = k[x].next
      <3>1. Inserted(k, k2, m, prev, n)
        BY <2>1, RingAdded
      <3> HIDE DEF k2
      <3> QED  BY <3>1 DEF Inserted
    <2> HIDE DEF k2
    <2>3. \A x \in DOMAIN k : k[x].next \in DOMAIN k
      BY DEF Ring
    <2>4. \A x \in DOMAIN k2 \ {m} : k[Both(x, n, m, n)].next = Both(k2[x].next, n, m, n)
      <3> SUFFICES ASSUME NEW x \in DOMAIN k2 \ {m}
                   PROVE  k[Both(x, n, m, n)].next = Both(k2[x].next, n, m, n)
        OBVIOUS
      <3>1. x \in DOMAIN k /\ Both(x, n, m, n) = x
        BY <2>2 DEF Both
      <3>2. CASE x = prev
        BY <3>1, <3>2, <2>1, <2>2 DEF Both
      <3>3. CASE x # prev
        BY <3>1, <3>3, <2>2, <2>3 DEF Both
      <3> QED  BY <3>2, <3>3
    <2>5. Joined(k, k2, n, m, n)
      BY <2>2, <2>4 DEF Joined
    <2> QED  BY <2>5 DEF k2, prev
  <1> QED  BY <1>1, <1>2

\* Taking one of two neighbours out merges them.
LEMMA JoinedDropped ==
  ASSUME NEW k, NEW l \in DOMAIN k, NEW r, Ring(k), l # r, k[l].next = r
  PROVE  /\ Joined(Dropped(k, r), k, l, l, r)
         /\ Joined(Dropped(k, l), k, r, l, r)
  <1>1. /\ r \in DOMAIN k /\ k[r].next # r /\ k[l].next # l
        /\ \A x \in DOMAIN k : k[x].next \in DOMAIN k /\ (k[x].next = r => x = l)
    BY DEF Ring
  <1>2. Joined(Dropped(k, r), k, l, l, r)
    <2> DEFINE k2 == Dropped(k, r)
    <2>1. /\ Ring(k2) /\ DOMAIN k2 = DOMAIN k \ {r}
          /\ \A x \in DOMAIN k2 : k2[x].next = IF k[x].next = r THEN k[r].next ELSE k[x].next
      <3>1. TakenOut(k, k2, r)
        BY <1>1, RingDropped
      <3> HIDE DEF k2
      <3> QED  BY <3>1 DEF TakenOut
    <2> HIDE DEF k2
    <2>2. ASSUME NEW x \in DOMAIN k \ {l}
          PROVE  k2[Both(x, l, l, r)].next = Both(k[x].next, l, l, r)
      BY <2>1, <1>1 DEF Both
    <2>3. Joined(k2, k, l, l, r)
      BY <1>1, <2>1, <2>2 DEF Joined
    <2> QED  BY <2>3 DEF k2
  <1>3. Joined(Dropped(k, l), k, r, l, r)
    <2> DEFINE k2 == Dropped(k, l)
    <2>1. /\ Ring(k2) /\ DOMAIN k2 = DOMAIN k \ {l}
          /\ \A x \in DOMAIN k2 : k2[x].next = IF k[x].next = l THEN k[l].next ELSE k[x].next
      <3>1. TakenOut(k, k2, l)
        BY <1>1, RingDropped
      <3> HIDE DEF k2
      <3> QED  BY <3>1 DEF TakenOut
    <2> HIDE DEF k2
    <2>2. ASSUME NEW x \in DOMAIN k \ {l}
          PROVE  k2[Both(x, r, l, r)].next = Both(k[x].next, r, l, r)
      BY <2>1, <1>1 DEF Both
    <2>3. Joined(k2, k, r, l, r)
      BY <1>1, <2>1, <2>2 DEF Joined
    <2> QED  BY <2>3 DEF k2
  <1> QED  BY <1>2, <1>3

-----------------------------------------------------------------------------
\* The lists of the levels and the tree.

Nx(t, x) == t.link[x].next

\* The ends of what hangs off a node; below a list head is that of the next level.
FirstBelow(t, q) == IF q < 0 THEN q + 1 ELSE S(t, q)[1]
LastBelow(t, q) == IF q < 0 THEN q + 1 ELSE S(t, q)[Len(S(t, q))]
Above(t) == Inner(t) \cup {ListHead(l) : l \in 1..t.level}

\* Child follows child, and where node follows node their children do as well.
Strung(t) ==
  /\ \A p \in Inner(t) : \A i \in 1..(Len(S(t, p)) - 1) : Nx(t, S(t, p)[i]) = S(t, p)[i + 1]
  /\ \A p, q \in Above(t) : Nx(t, p) = q => Nx(t, LastBelow(t, p)) = FirstBelow(t, q)

\* The root is alone on its level, and the levels above are empty.
Crowned(t) ==
  /\ \A l \in 0..(MaxLevel - 1) : l > t.level => Nx(t, ListHead(l)) = ListHead(l)
  /\ Nx(t, ListHead(t.level)) = t.root
  /\ Nx(t, t.root) = ListHead(t.level)

Listed(t) == DOMAIN t.link = N(t) \cup ListHeads /\ Ring(t.link) /\ Strung(t) /\ Crowned(t)

\* Of all places in w only two hold the halves.
Once(w, p, a, l, r) ==
  \A q \in Inner(w) : \A i \in 1..Len(S(w, q)) :
     /\ S(w, q)[i] = l => q = p /\ i = a
     /\ S(w, q)[i] = r => q = p /\ i = a + 1

\* x and y are neighbouring children of one node.
Beside(t, x, y) ==
  \E q \in Inner(t) : \E i \in 1..(Len(S(t, q)) - 1) : x = S(t, q)[i] /\ y = S(t, q)[i + 1]

\* Before the split, and after it.
LEMMA OnceSplit ==
  ASSUME NEW v, NEW w, NEW p, NEW a, NEW n, NEW l, NEW r, NEW c, NEW sep, NEW h, NEW R,
         TreeInv(v, h, R), Formed(w), SplitBody(v, w, p, a, n, l, r, c, sep)
  PROVE  Once(w, p, a, l, r)
  <1>0. Formed(v) /\ l # r /\ N(v) \cap {l, r} = {n} /\ n \in {l, r}
        /\ p \in Inner(v) /\ a \in 1..Len(S(v, p)) /\ S(v, p)[a] = n
    BY DEF TreeInv, SplitBody
  <1> SUFFICES ASSUME NEW q \in Inner(w), NEW i \in 1..Len(S(w, q))
               PROVE  /\ S(w, q)[i] = l => q = p /\ i = a
                      /\ S(w, q)[i] = r => q = p /\ i = a + 1
    BY DEF Once
  <1>1. \/ q = p /\ i = a /\ S(w, q)[i] = l
        \/ q = p /\ i = a + 1 /\ S(w, q)[i] = r
        \/ \E q0 \in Inner(v) : \E j \in 1..Len(S(v, q0)) :
             /\ S(v, q0)[j] = S(w, q)[i]
             /\ Moves(p, a, n, l, r, c, q0, j, q, i)
    BY <1>0, OldPlace
  <1>2. ASSUME NEW q0 \in Inner(v), NEW j \in 1..Len(S(v, q0)),
               S(v, q0)[j] = S(w, q)[i], Moves(p, a, n, l, r, c, q0, j, q, i)
        PROVE  S(w, q)[i] \notin {l, r}
    <2>1. S(v, q0)[j] \in N(v)
      BY ChildFacts
    <2>2. ~(q0 = p /\ j = a)
      <3>1. a \in Int /\ i \in Int
        BY <1>0
      <3>2. p # n
        BY <1>0, ChildFacts
      <3> QED  BY <1>2, <3>1, <3>2 DEF Moves
    <2>3. S(v, q0)[j] # n
      BY <2>2, <1>0, ChildOnce
    <2> QED  BY <1>0, <1>2, <2>1, <2>3
  <1> QED  BY <1>0, <1>1, <1>2

\* The two nodes of a merge are children of p only, side by side.
LEMMA OnceMerge ==
  ASSUME NEW v, NEW w, NEW p, NEW a, NEW n, NEW l, NEW r, NEW c, NEW sep, NEW h, NEW R,
         TreeInv(w, h, R), Formed(v), SplitBody(v, w, p, a, n, l, r, c, sep)
  PROVE  Once(w, p, a, l, r)
  <1>1. /\ a \in 1..Len(S(w, p)) /\ S(w, p)[a] = l
        /\ a + 1 \in 1..Len(S(w, p)) /\ S(w, p)[a + 1] = r
    BY MergePair
  <1>2. p \in Inner(w)
    BY DEF SplitBody
  <1> SUFFICES ASSUME NEW q \in Inner(w), NEW i \in 1..Len(S(w, q))
               PROVE  /\ S(w, q)[i] = l => q = p /\ i = a
                      /\ S(w, q)[i] = r => q = p /\ i = a + 1
    BY DEF Once
  <1>3. S(w, q)[i] = l => q = p /\ i = a
    BY <1>1, <1>2, ChildOnce
  <1>4. S(w, q)[i] = r => q = p /\ i = a + 1
    BY <1>1, <1>2, ChildOnce
  <1> QED  BY <1>3, <1>4

\* Where the children of v are in w, and the other way round.
Placed(v, w, p, a, n, l, r, c) ==
  /\ p \in Inner(v) /\ p \in Inner(w) /\ p # n /\ p \notin {l, r}
  /\ a \in 1..Len(S(v, p)) /\ Len(S(v, p)) \in Nat
  /\ Len(S(w, p)) = Len(S(v, p)) + 1
  /\ S(v, p)[a] = n /\ S(w, p)[a] = l /\ S(w, p)[a + 1] = r
  /\ \A j \in 1..(a - 1) : S(w, p)[j] = S(v, p)[j]
  /\ \A j \in (a + 1)..Len(S(v, p)) : S(w, p)[j + 1] = S(v, p)[j]
  /\ Inner(w) \ {p, l, r} = Inner(v) \ {p, n}
  /\ \A q \in Inner(w) \ {p, l, r} : S(w, q) = S(v, q) /\ Len(S(v, q)) \in Nat \ {0}
  /\ is_leaf(v, n) => n \notin Inner(v) /\ l \notin Inner(w) /\ r \notin Inner(w)
  /\ ~is_leaf(v, n) =>
       /\ n \in Inner(v) /\ l \in Inner(w) /\ r \in Inner(w)
       /\ Len(S(v, n)) \in Nat /\ c \in 1..(Len(S(v, n)) - 1)
       /\ Len(S(w, l)) = c /\ Len(S(w, r)) = Len(S(v, n)) - c
       /\ \A j \in 1..c : S(w, l)[j] = S(v, n)[j]
       /\ \A j \in 1..(Len(S(v, n)) - c) : S(w, r)[j] = S(v, n)[c + j]

\* A split puts the halves where the split node was, and nowhere else.
LEMMA SplitPlaced ==
  ASSUME NEW v, NEW w, NEW p, NEW a, NEW n, NEW l, NEW r, NEW c, NEW sep,
         Formed(v), Formed(w), SplitBody(v, w, p, a, n, l, r, c, sep)
  PROVE  Placed(v, w, p, a, n, l, r, c)
  <1>1. /\ Inner(w) \ {p, l, r} = Inner(v) \ {p, n}
        /\ \A q \in Inner(w) \ {p, l, r} : S(w, q) = S(v, q) /\ K(w, q) = K(v, q)
        /\ n \in N(v) /\ l \in N(w) /\ r \in N(w) /\ p # n
        /\ Len(S(v, p)) \in Nat /\ Len(S(w, p)) = Len(S(v, p)) + 1
        /\ ~is_leaf(v, n) => /\ n \in Inner(v) /\ l \in Inner(w) /\ r \in Inner(w)
                             /\ c \in 1..Len(K(v, n))
                             /\ Len(S(v, n)) = Len(K(v, n)) + 1
                             /\ Len(S(w, l)) = c /\ Len(S(w, r)) = Len(S(v, n)) - c
        /\ is_leaf(v, n) => n \in Leafs(v) /\ l \in Leafs(w) /\ r \in Leafs(w)
    BY SplitInner
  <1>2. /\ p \in Inner(v) /\ p \in Inner(w) /\ p \notin {l, r}
        /\ a \in 1..Len(S(v, p)) /\ S(v, p)[a] = n
        /\ Paired(S(v, p), a, l, r, S(w, p))
        /\ ~is_leaf(v, n) => Cut(S(v, n), c, c, S(w, l), S(w, r))
    BY DEF SplitBody
  <1>3. \A q \in Inner(v) : Len(S(v, q)) \in Nat \ {0} /\ Len(K(v, q)) \in Nat
                            /\ Len(S(v, q)) = Len(K(v, q)) + 1
    <2>1. \A q \in Inner(v) : S(v, q) \in Seq(N(v)) /\ K(v, q) \in Seq(Int)
                              /\ Len(S(v, q)) = Len(K(v, q)) + 1
      BY DEF Formed, NodeFormed, Inner
    <2>2. \A q \in Inner(v) : Len(K(v, q)) \in Nat
      BY <2>1
    <2> QED  BY <2>1, <2>2
  <1>4. /\ S(w, p)[a] = l /\ S(w, p)[a + 1] = r
        /\ \A j \in 1..(a - 1) : S(w, p)[j] = S(v, p)[j]
        /\ \A j \in (a + 1)..Len(S(v, p)) : S(w, p)[j + 1] = S(v, p)[j]
    <2> DEFINE s == S(v, p)
               s2 == S(w, p)
    <2>1. /\ Len(s) \in Nat /\ a \in 1..Len(s)
          /\ \A j \in 1..(Len(s) + 1) :
               s2[j] = IF j < a THEN s[j] ELSE IF j = a THEN l ELSE IF j = a + 1 THEN r ELSE s[j - 1]
      BY <1>1, <1>2 DEF Paired
    <2> HIDE DEF s, s2
    <2>2. s2[a] = l /\ s2[a + 1] = r /\ \A j \in 1..(a - 1) : s2[j] = s[j]
      BY <2>1
    <2>3. ASSUME NEW j \in (a + 1)..Len(s) PROVE s2[j + 1] = s[j]
      <3>1. j + 1 \in 1..(Len(s) + 1) /\ ~(j + 1 < a) /\ j + 1 # a /\ j + 1 # a + 1
            /\ j + 1 - 1 = j
        BY <2>1
      <3> QED  BY <2>1, <3>1
    <2> QED  BY <2>2, <2>3 DEF s, s2
  <1>5. is_leaf(v, n) => n \notin Inner(v) /\ l \notin Inner(w) /\ r \notin Inner(w)
    BY <1>1 DEF Inner, Leafs
  <1>6. ~is_leaf(v, n) =>
          /\ Len(S(v, n)) \in Nat /\ c \in 1..(Len(S(v, n)) - 1)
          /\ \A j \in 1..c : S(w, l)[j] = S(v, n)[j]
          /\ \A j \in 1..(Len(S(v, n)) - c) : S(w, r)[j] = S(v, n)[c + j]
    BY <1>1, <1>2, <1>3 DEF Cut
  <1>7. \A q \in Inner(w) \ {p, l, r} : S(w, q) = S(v, q) /\ Len(S(v, q)) \in Nat \ {0}
    BY <1>1, <1>3
  <1> QED  BY <1>1, <1>2, <1>4, <1>5, <1>6, <1>7 DEF Placed

\* Neighbours in w are the two halves or neighbours in v.
LEMMA BesideBack ==
  ASSUME NEW v, NEW w, NEW p, NEW a, NEW n, NEW l, NEW r, NEW c,
         Placed(v, w, p, a, n, l, r, c), Once(w, p, a, l, r), l # r, n \in {l, r},
         NEW x, NEW y, Beside(w, x, y)
  PROVE  \/ x = l /\ y = r
         \/ x # l /\ y # r /\ Beside(v, Both(x, n, l, r), Both(y, n, l, r))
  <1>1. PICK q \in Inner(w) : \E i \in 1..(Len(S(w, q)) - 1) :
               x = S(w, q)[i] /\ y = S(w, q)[i + 1]
    BY DEF Beside
  <1>2. PICK i \in 1..(Len(S(w, q)) - 1) : x = S(w, q)[i] /\ y = S(w, q)[i + 1]
    BY <1>1
  <1> DEFINE B(z) == Both(z, n, l, r)
  <1>3. CASE q = p
    <2>1. /\ a \in 1..Len(S(v, p)) /\ Len(S(v, p)) \in Nat /\ Len(S(w, p)) = Len(S(v, p)) + 1
          /\ S(v, p)[a] = n /\ S(w, p)[a] = l /\ S(w, p)[a + 1] = r
          /\ p \in Inner(v) /\ p \in Inner(w)
      BY DEF Placed
    <2>2. /\ \A j \in 1..(a - 1) : S(w, p)[j] = S(v, p)[j]
          /\ \A j \in (a + 1)..Len(S(v, p)) : S(w, p)[j + 1] = S(v, p)[j]
      BY DEF Placed
    <2>3. B(l) = n /\ B(r) = n
      BY DEF Both
    <2>4. \A j \in 1..Len(S(w, p)) : j \notin {a, a + 1} =>
             S(w, p)[j] \notin {l, r} /\ B(S(w, p)[j]) = S(w, p)[j]
      BY <2>1 DEF Once, Both
    <2>5. i \in 1..Len(S(v, p)) /\ i + 1 \in 1..Len(S(w, p)) /\ i \in 1..Len(S(w, p))
      BY <1>2, <1>3, <2>1
    <2>6. CASE i < a - 1
      <3>1. i \in 1..(a - 1) /\ i + 1 \in 1..(a - 1) /\ i \notin {a, a + 1} /\ i + 1 \notin {a, a + 1}
            /\ i \in 1..(Len(S(v, p)) - 1)
        BY <2>1, <2>5, <2>6
      <3>2. x = S(v, p)[i] /\ y = S(v, p)[i + 1] /\ x \notin {l, r} /\ y \notin {l, r}
            /\ B(x) = x /\ B(y) = y
        BY <1>2, <1>3, <2>2, <2>4, <2>5, <3>1
      <3> HIDE DEF B
      <3>3. Beside(v, B(x), B(y))
        BY <2>1, <3>1, <3>2 DEF Beside
      <3> QED  BY <3>2, <3>3 DEF B
    <2>7. CASE i = a - 1
      <3>1. i \in 1..(a - 1) /\ i \notin {a, a + 1} /\ i + 1 = a /\ i \in 1..(Len(S(v, p)) - 1)
        BY <2>1, <2>5, <2>7
      <3>2. x = S(v, p)[i] /\ y = l /\ x \notin {l, r} /\ B(x) = x /\ B(y) = S(v, p)[i + 1]
        BY <1>2, <1>3, <2>1, <2>2, <2>3, <2>4, <2>5, <3>1
      <3> HIDE DEF B
      <3>3. Beside(v, B(x), B(y))
        BY <2>1, <3>1, <3>2 DEF Beside
      <3> QED  BY <3>2, <3>3 DEF B
    <2>8. CASE i = a
      BY <1>2, <1>3, <2>1, <2>8
    <2>9. CASE i = a + 1
      <3>1. i \in (a + 1)..Len(S(v, p)) /\ i + 1 \notin {a, a + 1} /\ a \in 1..(Len(S(v, p)) - 1)
        BY <2>1, <2>5, <2>9
      <3>2. x = r /\ y = S(v, p)[a + 1] /\ y \notin {l, r} /\ B(y) = y /\ B(x) = S(v, p)[a]
        BY <1>2, <1>3, <2>1, <2>2, <2>3, <2>4, <2>5, <2>9, <3>1
      <3> HIDE DEF B
      <3>3. Beside(v, B(x), B(y))
        BY <2>1, <3>1, <3>2 DEF Beside
      <3> QED  BY <3>2, <3>3 DEF B
    <2>10. CASE i > a + 1
      <3>1. i \in (a + 1)..Len(S(v, p)) /\ i - 1 \in (a + 1)..Len(S(v, p))
            /\ i \notin {a, a + 1} /\ i + 1 \notin {a, a + 1}
            /\ i - 1 \in 1..(Len(S(v, p)) - 1) /\ (i - 1) + 1 = i
        BY <2>1, <2>5, <2>10
      <3>2. S(w, p)[i] = S(v, p)[i - 1] /\ S(w, p)[i + 1] = S(v, p)[i]
        BY <2>2, <3>1
      <3>3. x = S(v, p)[i - 1] /\ y = S(v, p)[i] /\ x \notin {l, r} /\ y \notin {l, r}
            /\ B(x) = x /\ B(y) = y
        BY <1>2, <1>3, <2>4, <2>5, <3>1, <3>2
      <3> HIDE DEF B
      <3>4. Beside(v, B(x), B(y))
        BY <2>1, <3>1, <3>3 DEF Beside
      <3> QED  BY <3>3, <3>4 DEF B
    <2>11. i < a - 1 \/ i = a - 1 \/ i = a \/ i = a + 1 \/ i > a + 1
      BY <2>1, <2>5
    <2> QED  BY <2>6, <2>7, <2>8, <2>9, <2>10, <2>11
  <1>4. CASE q # p
    <2>1. p \notin {l, r} /\ Len(S(w, q)) \in Nat
      BY DEF Placed
    <2>2. i \in 1..Len(S(w, q)) /\ i + 1 \in 1..Len(S(w, q))
      BY <2>1
    <2>3. x \notin {l, r} /\ y \notin {l, r} /\ B(x) = x /\ B(y) = y
      BY <1>2, <1>4, <2>2 DEF Once, Both
    <2> HIDE DEF B
    <2>4. Beside(v, x, y)
      <3>1. CASE q \notin {l, r}
        <4>1. q \in Inner(v) /\ S(w, q) = S(v, q)
          BY <1>4, <3>1 DEF Placed
        <4> QED  BY <1>2, <4>1 DEF Beside
      <3>2. ASSUME q \in {l, r}
            PROVE  /\ n \in Inner(v) /\ Len(S(v, n)) \in Nat /\ c \in 1..(Len(S(v, n)) - 1)
                   /\ Len(S(w, l)) = c /\ Len(S(w, r)) = Len(S(v, n)) - c
                   /\ \A j \in 1..c : S(w, l)[j] = S(v, n)[j]
                   /\ \A j \in 1..(Len(S(v, n)) - c) : S(w, r)[j] = S(v, n)[c + j]
        BY <1>1, <3>2 DEF Placed
      <3>3. CASE q = l
        <4>1. i \in 1..c /\ i + 1 \in 1..c /\ i \in 1..(Len(S(v, n)) - 1)
          BY <3>2, <3>3, <2>2
        <4>2. x = S(v, n)[i] /\ y = S(v, n)[i + 1]
          BY <1>2, <3>2, <3>3, <4>1
        <4> QED  BY <3>2, <3>3, <4>1, <4>2 DEF Beside
      <3>4. CASE q = r
        <4>0. Len(S(v, n)) \in Nat /\ c \in 1..(Len(S(v, n)) - 1) /\ Len(S(w, q)) = Len(S(v, n)) - c
          BY <3>2, <3>4
        <4>1. i \in 1..(Len(S(v, n)) - c) /\ i + 1 \in 1..(Len(S(v, n)) - c)
              /\ c + i \in 1..(Len(S(v, n)) - 1) /\ c + (i + 1) = (c + i) + 1
          BY <2>2, <4>0
        <4>2. x = S(v, n)[c + i] /\ y = S(v, n)[c + (i + 1)]
          BY <1>2, <3>2, <3>4, <4>1
        <4> QED  BY <3>2, <3>4, <4>1, <4>2 DEF Beside
      <3> QED  BY <3>1, <3>3, <3>4
    <2> QED  BY <2>3, <2>4 DEF B
  <1> QED  BY <1>3, <1>4

\* The half that n becomes where one goes on from it, or comes to it.
Hind(z, n, r) == IF z = n THEN r ELSE z
Fore(z, n, l) == IF z = n THEN l ELSE z

\* Neighbours in v are neighbours in w or on either side of the cut.
LEMMA BesideForth ==
  ASSUME NEW v, NEW w, NEW p, NEW a, NEW n, NEW l, NEW r, NEW c,
         Placed(v, w, p, a, n, l, r, c), Once(w, p, a, l, r), l # r, n \in {l, r},
         NEW x, NEW y, Beside(v, x, y)
  PROVE  \/ /\ l \in Inner(w) /\ r \in Inner(w)
            /\ x = S(w, l)[Len(S(w, l))] /\ y = S(w, r)[1]
            /\ x \notin {l, r} /\ y \notin {l, r}
         \/ Beside(w, Hind(x, n, r), Fore(y, n, l))
  <1>1. PICK q \in Inner(v) : \E i \in 1..(Len(S(v, q)) - 1) :
               x = S(v, q)[i] /\ y = S(v, q)[i + 1]
    BY DEF Beside
  <1>2. PICK i \in 1..(Len(S(v, q)) - 1) : x = S(v, q)[i] /\ y = S(v, q)[i + 1]
    BY <1>1
  <1>3. CASE q = p
    <2>1. /\ a \in 1..Len(S(v, p)) /\ Len(S(v, p)) \in Nat /\ Len(S(w, p)) = Len(S(v, p)) + 1
          /\ S(v, p)[a] = n /\ S(w, p)[a] = l /\ S(w, p)[a + 1] = r
          /\ p \in Inner(v) /\ p \in Inner(w)
      BY DEF Placed
    <2>2. /\ \A j \in 1..(a - 1) : S(w, p)[j] = S(v, p)[j]
          /\ \A j \in (a + 1)..Len(S(v, p)) : S(w, p)[j + 1] = S(v, p)[j]
      BY DEF Placed
    <2>4. \A j \in 1..Len(S(w, p)) : j \notin {a, a + 1} => S(w, p)[j] # n
      BY <2>1 DEF Once, Both
    <2>5. i \in 1..(Len(S(v, p)) - 1)
      BY <1>2, <1>3, <2>1
    <2>6. CASE i < a - 1
      <3>1. i \in 1..(a - 1) /\ i + 1 \in 1..(a - 1) /\ i \notin {a, a + 1} /\ i + 1 \notin {a, a + 1}
            /\ i \in 1..(Len(S(w, p)) - 1) /\ i \in 1..Len(S(w, p)) /\ i + 1 \in 1..Len(S(w, p))
        BY <2>1, <2>5, <2>6
      <3>2. x = S(w, p)[i] /\ y = S(w, p)[i + 1] /\ x # n /\ y # n
        BY <1>2, <1>3, <2>2, <2>4, <3>1
      <3> QED  BY <2>1, <3>1, <3>2 DEF Beside, Hind, Fore
    <2>7. CASE i = a - 1
      <3>1. i \in 1..(a - 1) /\ i \notin {a, a + 1} /\ i + 1 = a
            /\ i \in 1..(Len(S(w, p)) - 1) /\ i \in 1..Len(S(w, p))
        BY <2>1, <2>5, <2>7
      <3>2. x = S(w, p)[i] /\ x # n /\ y = n /\ S(w, p)[i + 1] = l
        BY <1>2, <1>3, <2>1, <2>2, <2>4, <3>1
      <3> QED  BY <2>1, <3>1, <3>2 DEF Beside, Hind, Fore
    <2>8. CASE i = a
      <3>1. a + 1 \in (a + 1)..Len(S(v, p)) /\ a + 2 \notin {a, a + 1} /\ (a + 1) + 1 = a + 2
            /\ a + 1 \in 1..(Len(S(w, p)) - 1) /\ a + 2 \in 1..Len(S(w, p))
        BY <2>1, <2>5, <2>8
      <3>2. S(w, p)[a + 2] = S(v, p)[a + 1]
        BY <2>2, <3>1
      <3>3. x = n /\ y = S(w, p)[a + 2] /\ y # n
        BY <1>2, <1>3, <2>1, <2>4, <2>8, <3>1, <3>2
      <3> QED  BY <2>1, <3>1, <3>3 DEF Beside, Hind, Fore
    <2>9. CASE i > a
      <3>1. i \in (a + 1)..Len(S(v, p)) /\ i + 1 \in (a + 1)..Len(S(v, p))
            /\ i + 1 \notin {a, a + 1} /\ i + 2 \notin {a, a + 1} /\ (i + 1) + 1 = i + 2
            /\ i + 1 \in 1..(Len(S(w, p)) - 1) /\ i + 1 \in 1..Len(S(w, p))
            /\ i + 2 \in 1..Len(S(w, p))
        BY <2>1, <2>5, <2>9
      <3>2. S(w, p)[i + 1] = S(v, p)[i] /\ S(w, p)[(i + 1) + 1] = S(v, p)[i + 1]
        BY <2>2, <3>1
      <3>3. x = S(w, p)[i + 1] /\ y = S(w, p)[(i + 1) + 1] /\ x # n /\ y # n
        BY <1>2, <1>3, <2>4, <3>1, <3>2
      <3> QED  BY <2>1, <3>1, <3>3 DEF Beside, Hind, Fore
    <2>10. i < a - 1 \/ i = a - 1 \/ i = a \/ i > a
      BY <2>1, <2>5
    <2> QED  BY <2>6, <2>7, <2>8, <2>9, <2>10
  <1>4. CASE q = n
    <2>0. n \in Inner(v) => ~is_leaf(v, n)
      BY DEF Placed
    <2>1. /\ l \in Inner(w) /\ r \in Inner(w) /\ l # p /\ r # p
          /\ Len(S(v, n)) \in Nat /\ c \in 1..(Len(S(v, n)) - 1)
          /\ Len(S(w, l)) = c /\ Len(S(w, r)) = Len(S(v, n)) - c
          /\ \A j \in 1..c : S(w, l)[j] = S(v, n)[j]
          /\ \A j \in 1..(Len(S(v, n)) - c) : S(w, r)[j] = S(v, n)[c + j]
      BY <1>1, <1>4, <2>0 DEF Placed
    <2>2. /\ \A j \in 1..Len(S(w, l)) : S(w, l)[j] \notin {l, r}
          /\ \A j \in 1..Len(S(w, r)) : S(w, r)[j] \notin {l, r}
      BY <2>1 DEF Once, Both
    <2>3. CASE i < c
      <3>1. i \in 1..c /\ i + 1 \in 1..c /\ i \in 1..(Len(S(w, l)) - 1)
        BY <1>2, <1>4, <2>1, <2>3
      <3>2. x = S(w, l)[i] /\ y = S(w, l)[i + 1] /\ x # n /\ y # n
        BY <1>2, <1>4, <2>1, <2>2, <3>1
      <3> QED  BY <2>1, <3>1, <3>2 DEF Beside, Hind, Fore
    <2>4. CASE i = c
      <3>1. c \in 1..c /\ 1 \in 1..(Len(S(v, n)) - c) /\ c \in 1..Len(S(w, l)) /\ 1 \in 1..Len(S(w, r))
        BY <2>1
      <3>2. x = S(w, l)[c] /\ y = S(w, r)[1]
        BY <1>2, <1>4, <2>1, <2>4, <3>1
      <3> QED  BY <2>1, <2>2, <3>1, <3>2
    <2>5. CASE i > c
      <3>1. i - c \in 1..(Len(S(v, n)) - c) /\ (i - c) + 1 \in 1..(Len(S(v, n)) - c)
            /\ i - c \in 1..(Len(S(w, r)) - 1) /\ c + (i - c) = i /\ c + ((i - c) + 1) = i + 1
            /\ i - c \in 1..Len(S(w, r)) /\ (i - c) + 1 \in 1..Len(S(w, r))
        BY <1>2, <1>4, <2>1, <2>5
      <3>2. S(w, r)[i - c] = S(v, n)[c + (i - c)] /\ S(w, r)[(i - c) + 1] = S(v, n)[c + ((i - c) + 1)]
        BY <2>1, <3>1
      <3>3. x = S(w, r)[i - c] /\ y = S(w, r)[(i - c) + 1] /\ x # n /\ y # n
        BY <1>2, <1>4, <2>2, <3>1, <3>2
      <3> QED  BY <2>1, <3>1, <3>3 DEF Beside, Hind, Fore
    <2>6. i < c \/ i = c \/ i > c
      BY <1>2, <1>4, <2>1
    <2> QED  BY <2>3, <2>4, <2>5, <2>6
  <1>5. CASE q \notin {p, n}
    <2>1. q \in Inner(w) /\ q # p /\ S(w, q) = S(v, q) /\ Len(S(v, q)) \in Nat
      BY <1>1, <1>5 DEF Placed
    <2>2. i \in 1..Len(S(w, q)) /\ i + 1 \in 1..Len(S(w, q))
      BY <1>2, <2>1
    <2>3. x # n /\ y # n
      BY <1>2, <2>1, <2>2 DEF Once, Both
    <2> QED  BY <1>2, <2>1, <2>3 DEF Beside, Hind, Fore
  <1> QED  BY <1>3, <1>4, <1>5

\* What hangs off a node ends in v where it ends in w.
LEMMA EndsBelow ==
  ASSUME NEW v, NEW w, NEW p, NEW a, NEW n, NEW l, NEW r, NEW c,
         Placed(v, w, p, a, n, l, r, c), Once(w, p, a, l, r), l # r, n \in {l, r},
         N(v) \subseteq Nat \ {0}, N(w) \subseteq Nat \ {0}, l \in N(w), r \in N(w),
         w.level \in Nat,
         NEW q \in Above(w)
  PROVE  /\ LastBelow(w, q) # l /\ FirstBelow(w, q) # r
         /\ q # l => LastBelow(v, Both(q, n, l, r)) = Both(LastBelow(w, q), n, l, r)
         /\ q # r => FirstBelow(v, Both(q, n, l, r)) = Both(FirstBelow(w, q), n, l, r)
  <1>1. CASE q \notin Inner(w)
    <2>1. PICK m \in 1..w.level : q = -(m + 1)
      BY <1>1 DEF Above, ListHead
    <2>2. q < 0 /\ q + 1 < 0 /\ q \in Int
      BY <2>1
    <2>3. \A z \in {l, r} : z \in Int /\ z > 0
      OBVIOUS
    <2>4. q \notin {l, r} /\ q + 1 \notin {l, r}
      BY <2>2, <2>3
    <2> QED  BY <2>2, <2>4 DEF Both, FirstBelow, LastBelow
  <1>2. CASE q \in Inner(w)
    <2>1. q \in Nat \ {0} /\ ~(q < 0)
      BY <1>2 DEF Inner
    <2>2. FirstBelow(w, q) = S(w, q)[1] /\ LastBelow(w, q) = S(w, q)[Len(S(w, q))]
      BY <2>1 DEF FirstBelow, LastBelow
    <2>3. /\ p \in Inner(v) /\ p \in Inner(w) /\ p # n /\ p \notin {l, r}
          /\ a \in 1..Len(S(v, p)) /\ Len(S(v, p)) \in Nat
          /\ Len(S(w, p)) = Len(S(v, p)) + 1
          /\ S(v, p)[a] = n /\ S(w, p)[a] = l /\ S(w, p)[a + 1] = r
      BY DEF Placed
    <2>4. /\ \A j \in 1..(a - 1) : S(w, p)[j] = S(v, p)[j]
          /\ \A j \in (a + 1)..Len(S(v, p)) : S(w, p)[j + 1] = S(v, p)[j]
      BY DEF Placed
    <2>5. \A j \in 1..Len(S(w, q)) : ~(q = p /\ j \in {a, a + 1}) =>
             S(w, q)[j] \notin {l, r} /\ Both(S(w, q)[j], n, l, r) = S(w, q)[j]
      BY <1>2 DEF Once, Both
    <2>6. CASE q = p
      <3>1. 1 \in 1..Len(S(w, p)) /\ Len(S(w, p)) \in 1..Len(S(w, p)) /\ Len(S(w, p)) # a /\ 1 # a + 1
        BY <2>3
      <3>2. Both(q, n, l, r) = q /\ q < 0 <=> FALSE
        BY <2>1, <2>3, <2>6 DEF Both
      <3>3. S(w, p)[Len(S(w, p))] # l /\ S(w, p)[1] # r
        BY <3>1, <2>3, <2>6 DEF Once
      <3>4. S(v, p)[Len(S(v, p))] = Both(S(w, p)[Len(S(w, p))], n, l, r)
        <4>1. CASE a = Len(S(v, p))
          BY <4>1, <2>3 DEF Both
        <4>2. CASE a # Len(S(v, p))
          <5>1. Len(S(v, p)) \in (a + 1)..Len(S(v, p)) /\ Len(S(w, p)) \notin {a, a + 1}
                /\ Len(S(v, p)) + 1 = Len(S(w, p))
            BY <4>2, <2>3
          <5>2. S(w, p)[Len(S(w, p))] = S(v, p)[Len(S(v, p))]
            BY <2>4, <5>1
          <5> QED  BY <5>1, <5>2, <3>1, <2>5, <2>6
        <4> QED  BY <4>1, <4>2
      <3>5. S(v, p)[1] = Both(S(w, p)[1], n, l, r)
        <4>1. CASE a = 1
          BY <4>1, <2>3 DEF Both
        <4>2. CASE a # 1
          <5>1. 1 \in 1..(a - 1) /\ 1 \notin {a, a + 1}
            BY <4>2, <2>3
          <5>2. S(w, p)[1] = S(v, p)[1]
            BY <2>4, <5>1
          <5> QED  BY <5>1, <5>2, <3>1, <2>5, <2>6
        <4> QED  BY <4>1, <4>2
      <3>6. FirstBelow(v, q) = S(v, p)[1] /\ LastBelow(v, q) = S(v, p)[Len(S(v, p))]
        BY <2>1, <2>6 DEF FirstBelow, LastBelow
      <3>7. Both(q, n, l, r) = q
        BY <2>3, <2>6 DEF Both
      <3> QED  BY <2>2, <2>6, <3>3, <3>4, <3>5, <3>6, <3>7
    <2>7. CASE q \in {l, r}
      <3>0. q \in Inner(w) => ~is_leaf(v, n)
        BY <2>7 DEF Placed
      <3>1. /\ n \in Inner(v) /\ l \in Inner(w) /\ r \in Inner(w)
            /\ Len(S(v, n)) \in Nat /\ c \in 1..(Len(S(v, n)) - 1)
            /\ Len(S(w, l)) = c /\ Len(S(w, r)) = Len(S(v, n)) - c
            /\ \A j \in 1..c : S(w, l)[j] = S(v, n)[j]
            /\ \A j \in 1..(Len(S(v, n)) - c) : S(w, r)[j] = S(v, n)[c + j]
        BY <1>2, <3>0 DEF Placed
      <3>2. q # p /\ Both(q, n, l, r) = n
        BY <2>3, <2>7 DEF Both
      <3>3. 1 \in 1..Len(S(w, q)) /\ Len(S(w, q)) \in 1..Len(S(w, q))
        BY <2>7, <3>1
      <3>4. /\ S(w, q)[1] \notin {l, r} /\ Both(S(w, q)[1], n, l, r) = S(w, q)[1]
            /\ S(w, q)[Len(S(w, q))] \notin {l, r}
            /\ Both(S(w, q)[Len(S(w, q))], n, l, r) = S(w, q)[Len(S(w, q))]
        BY <2>5, <3>2, <3>3
      <3>5. n \in Nat \ {0} /\ ~(n < 0)
        BY <3>1 DEF Inner
      <3>6. FirstBelow(v, n) = S(v, n)[1] /\ LastBelow(v, n) = S(v, n)[Len(S(v, n))]
        BY <3>5 DEF FirstBelow, LastBelow
      <3>7. CASE q = l
        <4>1. 1 \in 1..c
          BY <3>1
        <4>2. S(w, q)[1] = S(v, n)[1]
          BY <3>1, <3>7, <4>1
        <4> QED  BY <2>2, <3>2, <3>4, <3>6, <3>7, <4>2
      <3>8. CASE q = r
        <4>1. Len(S(v, n)) - c \in 1..(Len(S(v, n)) - c) /\ c + (Len(S(v, n)) - c) = Len(S(v, n))
          BY <3>1
        <4>2. S(w, q)[Len(S(w, q))] = S(v, n)[Len(S(v, n))]
          BY <3>1, <3>8, <4>1
        <4> QED  BY <2>2, <3>2, <3>4, <3>6, <3>8, <4>2
      <3> QED  BY <2>7, <3>7, <3>8
    <2>8. CASE q \notin {p, l, r}
      <3>1. S(w, q) = S(v, q) /\ Len(S(v, q)) \in Nat \ {0}
        BY <1>2, <2>8 DEF Placed
      <3>2. 1 \in 1..Len(S(w, q)) /\ Len(S(w, q)) \in 1..Len(S(w, q))
        BY <3>1
      <3>3. /\ S(w, q)[1] \notin {l, r} /\ Both(S(w, q)[1], n, l, r) = S(w, q)[1]
            /\ S(w, q)[Len(S(w, q))] \notin {l, r}
            /\ Both(S(w, q)[Len(S(w, q))], n, l, r) = S(w, q)[Len(S(w, q))]
        BY <2>5, <2>8, <3>2
      <3>4. FirstBelow(v, q) = S(w, q)[1] /\ LastBelow(v, q) = S(w, q)[Len(S(w, q))]
        BY <2>1, <3>1 DEF FirstBelow, LastBelow
      <3>5. Both(q, n, l, r) = q
        BY <2>8 DEF Both
      <3> QED  BY <2>2, <3>3, <3>4, <3>5
    <2> QED  BY <2>6, <2>7, <2>8
  <1> QED  BY <1>1, <1>2

\* The places above the leaves, and what hangs off them, are in the lists.
LEMMA BelowPlaces ==
  ASSUME NEW t, Formed(t), t.level < MaxLevel, NEW q \in Above(t)
  PROVE  /\ q \in N(t) \cup ListHeads
         /\ FirstBelow(t, q) \in N(t) \cup ListHeads
         /\ LastBelow(t, q) \in N(t) \cup ListHeads
  <1>1. MaxLevel \in Nat \ {0} /\ t.level \in Nat
    BY BPlusAssumption DEF Formed
  <1>2. CASE q \in Inner(t)
    <2>1. q \in N(t) /\ q \in Nat \ {0}
      BY <1>2 DEF Formed, Inner
    <2>2. S(t, q) \in Seq(N(t)) /\ Len(S(t, q)) = Len(K(t, q)) + 1 /\ K(t, q) \in Seq(Int)
      BY <1>2 DEF Formed, NodeFormed, Inner
    <2>3. Len(K(t, q)) \in Nat
      BY <2>2
    <2>4. 1 \in 1..Len(S(t, q)) /\ Len(S(t, q)) \in 1..Len(S(t, q))
      BY <2>2, <2>3
    <2>5. S(t, q)[1] \in N(t) /\ S(t, q)[Len(S(t, q))] \in N(t)
      BY <2>2, <2>4
    <2> QED  BY <2>1, <2>5 DEF FirstBelow, LastBelow
  <1>3. CASE q \notin Inner(t)
    <2>1. PICK m \in 1..t.level : q = ListHead(m)
      BY <1>3 DEF Above
    <2>2. m \in 0..(MaxLevel - 1) /\ m - 1 \in 0..(MaxLevel - 1)
      BY <1>1, <2>1
    <2>3. q < 0 /\ q + 1 = ListHead(m - 1)
      BY <2>1 DEF ListHead
    <2>4. q \in ListHeads /\ q + 1 \in ListHeads
      BY <2>1, <2>2, <2>3 DEF ListHeads
    <2> QED  BY <2>3, <2>4 DEF FirstBelow, LastBelow
  <1> QED  BY <1>2, <1>3

\* Addresses are no list heads.
LEMMA HeadsApart ==
  ASSUME NEW t, Formed(t)
  PROVE  /\ N(t) \cap ListHeads = {}
         /\ \A l \in Nat : ListHead(l) < 0 /\ ListHead(l) \notin N(t)
  BY BPlusAssumption DEF Formed, ListHeads, ListHead

\* Two trees that differ as SplitBody says, with their lists.
Sides(v, w, p, a, n, l, r, c) ==
  /\ Formed(v) /\ Formed(w)
  /\ w.level = v.level /\ w.root = v.root /\ w.level < MaxLevel
  /\ v.root \notin {l, r}
  /\ N(w) = N(v) \cup {l, r} /\ N(v) \cap {l, r} = {n}
  /\ Placed(v, w, p, a, n, l, r, c) /\ Once(w, p, a, l, r)
  /\ Joined(v.link, w.link, n, l, r)

\* What is above the leaves in the one and in the other.
LEMMA AboveBoth ==
  ASSUME NEW v, NEW w, NEW p, NEW a, NEW n, NEW l, NEW r, NEW c,
         Sides(v, w, p, a, n, l, r, c)
  PROVE  /\ \A q \in Above(w) : Both(q, n, l, r) \in Above(v)
         /\ \A q \in Above(v) : /\ Hind(q, n, r) \in Above(w) \ {l}
                                /\ Fore(q, n, l) \in Above(w) \ {r}
                                /\ Both(Hind(q, n, r), n, l, r) = q
                                /\ Both(Fore(q, n, l), n, l, r) = q
  <1>1. /\ p \in Inner(v) /\ p \in Inner(w) /\ p # n /\ p \notin {l, r} /\ l # r /\ n \in {l, r}
        /\ Inner(w) \ {p, l, r} = Inner(v) \ {p, n}
        /\ is_leaf(v, n) => n \notin Inner(v) /\ l \notin Inner(w) /\ r \notin Inner(w)
        /\ ~is_leaf(v, n) => n \in Inner(v) /\ l \in Inner(w) /\ r \in Inner(w)
    BY DEF Sides, Placed, Joined
  <1> DEFINE H == {ListHead(m) : m \in 1..w.level}
  <1>2. Above(w) = Inner(w) \cup H /\ Above(v) = Inner(v) \cup H
    BY DEF Above, Sides
  <1>3. H \cap {l, r} = {}
    <2>1. l \in N(w) /\ r \in N(w) /\ Formed(w) /\ w.level \in Nat
      BY DEF Sides, Formed
    <2> QED  BY <2>1, HeadsApart
  <1> HIDE DEF H
  <1>4. ASSUME NEW q \in Above(w) PROVE Both(q, n, l, r) \in Above(v)
    BY <1>1, <1>2, <1>3, <1>4 DEF Both
  <1>5. ASSUME NEW q \in Above(v)
        PROVE  /\ Hind(q, n, r) \in Above(w) \ {l}
               /\ Fore(q, n, l) \in Above(w) \ {r}
               /\ Both(Hind(q, n, r), n, l, r) = q
               /\ Both(Fore(q, n, l), n, l, r) = q
    <2>1. q # n => q \notin {l, r}
      <3>1. Inner(v) \subseteq N(v) /\ N(v) \cap {l, r} = {n}
        BY DEF Inner, Sides
      <3> QED  BY <1>2, <1>3, <3>1
    <2>2. CASE q = n
      BY <1>1, <1>2, <1>3, <2>2 DEF Hind, Fore, Both
    <2>3. CASE q # n
      BY <1>1, <1>2, <1>3, <2>1, <2>3 DEF Hind, Fore, Both
    <2> QED  BY <2>2, <2>3
  <1> QED  BY <1>4, <1>5

\* The crown stays as it was.
LEMMA CrownBoth ==
  ASSUME NEW v, NEW w, NEW p, NEW a, NEW n, NEW l, NEW r, NEW c,
         Sides(v, w, p, a, n, l, r, c), DOMAIN w.link = N(w) \cup ListHeads
  PROVE  Crowned(v) <=> Crowned(w)
  <1>1. Formed(w) /\ w.level = v.level /\ w.root = v.root /\ w.level < MaxLevel /\ v.root \notin {l, r}
        /\ w.level \in Nat /\ MaxLevel \in Nat /\ l \in N(w) /\ r \in N(w) /\ w.root \in N(w)
        /\ Joined(v.link, w.link, n, l, r)
    BY BPlusAssumption DEF Sides, Formed
  <1>2. \A m \in 0..(MaxLevel - 1) : ListHead(m) \in DOMAIN w.link /\ ListHead(m) \notin {l, r}
    BY <1>1, HeadsApart DEF ListHeads
  <1>3. \A m \in 0..(MaxLevel - 1) : Both(ListHead(m), n, l, r) = ListHead(m)
    BY <1>2 DEF Both
  <1>4. w.root \in DOMAIN w.link /\ Both(w.root, n, l, r) = w.root
    BY <1>1 DEF Both
  <1>5. \A x \in DOMAIN w.link \ {l} : \A y \in DOMAIN w.link \ {r} :
           w.link[x].next = y <=> v.link[Both(x, n, l, r)].next = Both(y, n, l, r)
    BY <1>1, JoinedStep
  <1>6. \A x \in DOMAIN w.link : \A y \in DOMAIN w.link :
           (x \notin {l, r} /\ y \notin {l, r}) => (Nx(w, x) = y <=> Nx(v, x) = y)
    BY <1>5 DEF Nx, Both
  <1>7. w.level \in 0..(MaxLevel - 1)
    BY <1>1
  <1>8. \A m \in 0..(MaxLevel - 1) : Nx(w, ListHead(m)) = ListHead(m) <=> Nx(v, ListHead(m)) = ListHead(m)
    BY <1>2, <1>6
  <1>9. Nx(w, ListHead(w.level)) = w.root <=> Nx(v, ListHead(w.level)) = w.root
    BY <1>1, <1>2, <1>4, <1>6, <1>7
  <1>10. Nx(w, w.root) = ListHead(w.level) <=> Nx(v, w.root) = ListHead(w.level)
    BY <1>1, <1>2, <1>4, <1>6, <1>7
  <1> QED  BY <1>1, <1>8, <1>9, <1>10 DEF Crowned

\* A list in which neighbouring children follow each other, by the name above.
LEMMA StrungBeside ==
  ASSUME NEW t
  PROVE  Strung(t) <=>
           /\ \A x, y : Beside(t, x, y) => Nx(t, x) = y
           /\ \A p, q \in Above(t) : Nx(t, p) = q => Nx(t, LastBelow(t, p)) = FirstBelow(t, q)
  BY DEF Strung, Beside

\* The lists come through a split.
LEMMA StrungSplit ==
  ASSUME NEW v, NEW w, NEW p, NEW a, NEW n, NEW l, NEW r, NEW c,
         Sides(v, w, p, a, n, l, r, c), DOMAIN w.link = N(w) \cup ListHeads, Strung(v)
  PROVE  Strung(w)
  <1> DEFINE B(z) == Both(z, n, l, r)
  <1>0. /\ Formed(v) /\ Formed(w) /\ w.level < MaxLevel /\ w.level \in Nat
        /\ N(w) \subseteq Nat \ {0} /\ N(v) \subseteq Nat \ {0} /\ l \in N(w) /\ r \in N(w)
        /\ Placed(v, w, p, a, n, l, r, c) /\ Once(w, p, a, l, r)
        /\ Joined(v.link, w.link, n, l, r) /\ l # r /\ n \in {l, r}
    BY DEF Sides, Formed, Joined
  <1>1. \A x \in DOMAIN w.link \ {l} : \A y \in DOMAIN w.link \ {r} :
           Nx(w, x) = y <=> Nx(v, B(x)) = B(y)
    BY <1>0, JoinedStep DEF Nx
  <1>2. Nx(w, l) = r
    BY <1>0 DEF Joined, Nx
  <1>3. /\ \A x, y : Beside(v, x, y) => Nx(v, x) = y
        /\ \A q1, q2 \in Above(v) : Nx(v, q1) = q2 => Nx(v, LastBelow(v, q1)) = FirstBelow(v, q2)
    BY StrungBeside
  <1>4. ASSUME NEW x, NEW y, Beside(w, x, y)
        PROVE  Nx(w, x) = y
    <2>1. x \in DOMAIN w.link /\ y \in DOMAIN w.link
      <3>1. PICK q \in Inner(w) : \E i \in 1..(Len(S(w, q)) - 1) : x = S(w, q)[i] /\ y = S(w, q)[i + 1]
        BY <1>4 DEF Beside
      <3>2. PICK i \in 1..(Len(S(w, q)) - 1) : x = S(w, q)[i] /\ y = S(w, q)[i + 1]
        BY <3>1
      <3>3. S(w, q) \in Seq(N(w))
        BY <1>0 DEF Formed, NodeFormed, Inner
      <3>4. Len(S(w, q)) \in Nat
        BY <3>3
      <3>5. i \in 1..Len(S(w, q)) /\ i + 1 \in 1..Len(S(w, q))
        BY <3>4
      <3>6. x \in N(w) /\ y \in N(w)
        BY <3>2, <3>3, <3>5
      <3> QED  BY <3>6
    <2>2. \/ x = l /\ y = r
          \/ x # l /\ y # r /\ Beside(v, B(x), B(y))
      BY <1>0, <1>4, BesideBack
    <2> HIDE DEF B
    <2> QED  BY <1>1, <1>2, <1>3, <2>1, <2>2
  <1>5. ASSUME NEW q1 \in Above(w), NEW q2 \in Above(w), Nx(w, q1) = q2
        PROVE  Nx(w, LastBelow(w, q1)) = FirstBelow(w, q2)
    <2>1. /\ q1 \in DOMAIN w.link /\ q2 \in DOMAIN w.link
          /\ LastBelow(w, q1) \in DOMAIN w.link /\ FirstBelow(w, q2) \in DOMAIN w.link
      BY <1>0, BelowPlaces
    <2>2. LastBelow(w, q1) # l /\ FirstBelow(w, q2) # r
      BY <1>0, EndsBelow
    <2>3. CASE q1 = l
      <3>1. q2 = r
        BY <1>2, <1>5, <2>3
      <3>2. l \in Inner(w)
        <4>1. \A m \in 1..w.level : ListHead(m) # l
          BY <1>0, HeadsApart
        <4> QED  BY <2>3, <4>1 DEF Above
      <3>3. /\ n \in Inner(v) /\ l \in Inner(w) /\ r \in Inner(w)
            /\ Len(S(v, n)) \in Nat /\ c \in 1..(Len(S(v, n)) - 1)
            /\ Len(S(w, l)) = c /\ Len(S(w, r)) = Len(S(v, n)) - c
            /\ S(w, l)[c] = S(v, n)[c] /\ S(w, r)[1] = S(v, n)[c + 1]
        <4>1. /\ n \in Inner(v) /\ l \in Inner(w) /\ r \in Inner(w)
              /\ Len(S(v, n)) \in Nat /\ c \in 1..(Len(S(v, n)) - 1)
              /\ Len(S(w, l)) = c /\ Len(S(w, r)) = Len(S(v, n)) - c
              /\ \A j \in 1..c : S(w, l)[j] = S(v, n)[j]
              /\ \A j \in 1..(Len(S(v, n)) - c) : S(w, r)[j] = S(v, n)[c + j]
          BY <1>0, <3>2 DEF Placed
        <4>2. c \in 1..c /\ 1 \in 1..(Len(S(v, n)) - c)
          BY <4>1
        <4> QED  BY <4>1, <4>2
      <3>4. ~(l < 0) /\ ~(r < 0)
        BY <1>0
      <3>5. LastBelow(w, q1) = S(v, n)[c] /\ FirstBelow(w, q2) = S(v, n)[c + 1]
        BY <2>3, <3>1, <3>3, <3>4 DEF LastBelow, FirstBelow
      <3>6. Beside(v, LastBelow(w, q1), FirstBelow(w, q2))
        BY <3>3, <3>5 DEF Beside
      <3>7. /\ LastBelow(w, q1) \notin {l, r} /\ FirstBelow(w, q2) \notin {l, r}
        <4>1. 1 \in 1..Len(S(w, r)) /\ c \in 1..Len(S(w, l)) /\ p \notin {l, r}
          BY <1>0, <3>3 DEF Placed
        <4>2. S(w, l)[c] \notin {l, r} /\ S(w, r)[1] \notin {l, r}
          BY <1>0, <3>3, <4>1 DEF Once
        <4> QED  BY <3>3, <3>5, <4>2
      <3>8. B(LastBelow(w, q1)) = LastBelow(w, q1) /\ B(FirstBelow(w, q2)) = FirstBelow(w, q2)
        BY <3>7 DEF Both
      <3> HIDE DEF B
      <3> QED  BY <1>1, <1>3, <2>1, <3>6, <3>7, <3>8
    <2>4. CASE q1 # l
      <3>1. q2 # r
        <4>1. w.link[q1].next # r
          BY <1>0, <2>1, <2>4 DEF Joined, Ring
        <4> QED  BY <1>5, <4>1 DEF Nx
      <3>2. B(q1) \in Above(v) /\ B(q2) \in Above(v)
        BY AboveBoth
      <3>3. LastBelow(v, B(q1)) = B(LastBelow(w, q1)) /\ FirstBelow(v, B(q2)) = B(FirstBelow(w, q2))
        BY <1>0, <2>4, <3>1, EndsBelow
      <3> HIDE DEF B
      <3>4. Nx(v, B(q1)) = B(q2)
        BY <1>1, <1>5, <2>1, <2>4, <3>1
      <3>5. Nx(v, B(LastBelow(w, q1))) = B(FirstBelow(w, q2))
        BY <1>3, <3>2, <3>3, <3>4
      <3> QED  BY <1>1, <2>1, <2>2, <3>5
    <2> QED  BY <2>3, <2>4
  <1> QED  BY <1>4, <1>5, StrungBeside

\* The lists come through a merge.
LEMMA StrungMerge ==
  ASSUME NEW v, NEW w, NEW p, NEW a, NEW n, NEW l, NEW r, NEW c,
         Sides(v, w, p, a, n, l, r, c), DOMAIN w.link = N(w) \cup ListHeads, Strung(w)
  PROVE  Strung(v)
  <1> DEFINE B(z) == Both(z, n, l, r)
  <1>0. /\ Formed(v) /\ Formed(w) /\ w.level < MaxLevel /\ w.level \in Nat
        /\ N(w) \subseteq Nat \ {0} /\ N(v) \subseteq Nat \ {0} /\ l \in N(w) /\ r \in N(w)
        /\ Placed(v, w, p, a, n, l, r, c) /\ Once(w, p, a, l, r)
        /\ Joined(v.link, w.link, n, l, r) /\ l # r /\ n \in {l, r}
        /\ N(v) \cap {l, r} = {n}
    BY DEF Sides, Formed, Joined
  <1>1. \A x \in DOMAIN w.link \ {l} : \A y \in DOMAIN w.link \ {r} :
           Nx(w, x) = y <=> Nx(v, B(x)) = B(y)
    BY <1>0, JoinedStep DEF Nx
  <1>2. Nx(w, l) = r
    BY <1>0 DEF Joined, Nx
  <1>3. /\ \A x, y : Beside(w, x, y) => Nx(w, x) = y
        /\ \A q1, q2 \in Above(w) : Nx(w, q1) = q2 => Nx(w, LastBelow(w, q1)) = FirstBelow(w, q2)
    BY StrungBeside
  <1>4. ASSUME NEW x, NEW y, Beside(v, x, y)
        PROVE  Nx(v, x) = y
    <2>1. x \in N(v) /\ y \in N(v)
      <3>1. PICK q \in Inner(v) : \E i \in 1..(Len(S(v, q)) - 1) : x = S(v, q)[i] /\ y = S(v, q)[i + 1]
        BY <1>4 DEF Beside
      <3>2. PICK i \in 1..(Len(S(v, q)) - 1) : x = S(v, q)[i] /\ y = S(v, q)[i + 1]
        BY <3>1
      <3>3. S(v, q) \in Seq(N(v))
        BY <1>0 DEF Formed, NodeFormed, Inner
      <3>4. Len(S(v, q)) \in Nat
        BY <3>3
      <3>5. i \in 1..Len(S(v, q)) /\ i + 1 \in 1..Len(S(v, q))
        BY <3>4
      <3> QED  BY <3>2, <3>3, <3>5
    <2>2. N(v) \subseteq DOMAIN w.link /\ l \in DOMAIN w.link /\ r \in DOMAIN w.link
      BY <1>0 DEF Sides
    <2>3. \/ /\ l \in Inner(w) /\ r \in Inner(w)
             /\ x = S(w, l)[Len(S(w, l))] /\ y = S(w, r)[1]
             /\ x \notin {l, r} /\ y \notin {l, r}
          \/ Beside(w, Hind(x, n, r), Fore(y, n, l))
      BY <1>0, <1>4, BesideForth
    <2>4. CASE /\ l \in Inner(w) /\ r \in Inner(w)
               /\ x = S(w, l)[Len(S(w, l))] /\ y = S(w, r)[1]
               /\ x \notin {l, r} /\ y \notin {l, r}
      <3>1. l \in Above(w) /\ r \in Above(w) /\ ~(l < 0) /\ ~(r < 0)
        BY <1>0, <2>4 DEF Above
      <3>2. LastBelow(w, l) = x /\ FirstBelow(w, r) = y
        BY <2>4, <3>1 DEF LastBelow, FirstBelow
      <3>3. Nx(w, x) = y
        BY <1>2, <1>3, <3>1, <3>2
      <3>4. B(x) = x /\ B(y) = y
        BY <2>4 DEF Both
      <3> HIDE DEF B
      <3>5. x \in DOMAIN w.link \ {l} /\ y \in DOMAIN w.link \ {r}
        BY <2>1, <2>2, <2>4
      <3> QED  BY <1>1, <3>3, <3>4, <3>5
    <2>5. CASE Beside(w, Hind(x, n, r), Fore(y, n, l))
      <3>1. /\ Hind(x, n, r) \in DOMAIN w.link \ {l} /\ B(Hind(x, n, r)) = x
            /\ Fore(y, n, l) \in DOMAIN w.link \ {r} /\ B(Fore(y, n, l)) = y
        BY <1>0, <2>1, <2>2 DEF Hind, Fore, Both
      <3>2. Nx(w, Hind(x, n, r)) = Fore(y, n, l)
        BY <1>3, <2>5
      <3> HIDE DEF B
      <3>3. Nx(v, B(Hind(x, n, r))) = B(Fore(y, n, l))
        BY <1>1, <3>1, <3>2
      <3> QED  BY <3>1, <3>3
    <2> QED  BY <2>3, <2>4, <2>5
  <1>5. ASSUME NEW q1 \in Above(v), NEW q2 \in Above(v), Nx(v, q1) = q2
        PROVE  Nx(v, LastBelow(v, q1)) = FirstBelow(v, q2)
    <2> DEFINE e1 == Hind(q1, n, r)
               e2 == Fore(q2, n, l)
    <2>1. e1 \in Above(w) \ {l} /\ e2 \in Above(w) \ {r} /\ B(e1) = q1 /\ B(e2) = q2
      BY AboveBoth
    <2> HIDE DEF e1, e2
    <2>2. /\ e1 \in DOMAIN w.link /\ e2 \in DOMAIN w.link
          /\ LastBelow(w, e1) \in DOMAIN w.link /\ FirstBelow(w, e2) \in DOMAIN w.link
      BY <1>0, <2>1, BelowPlaces
    <2>3. LastBelow(w, e1) # l /\ FirstBelow(w, e2) # r
      BY <1>0, <2>1, EndsBelow
    <2>4. LastBelow(v, B(e1)) = B(LastBelow(w, e1)) /\ FirstBelow(v, B(e2)) = B(FirstBelow(w, e2))
      BY <1>0, <2>1, EndsBelow
    <2> HIDE DEF B
    <2>5. Nx(w, e1) = e2
      BY <1>1, <1>5, <2>1, <2>2
    <2>6. Nx(w, LastBelow(w, e1)) = FirstBelow(w, e2)
      BY <1>3, <2>1, <2>5
    <2>7. Nx(v, B(LastBelow(w, e1))) = B(FirstBelow(w, e2))
      BY <1>1, <2>2, <2>3, <2>6
    <2> QED  BY <2>1, <2>4, <2>7
  <1> QED  BY <1>4, <1>5, StrungBeside

\* The tree's lists are in order after a split as they were before it.
LEMMA SplitListed ==
  ASSUME NEW v, NEW w, NEW p, NEW a, NEW n, NEW l, NEW r, NEW c, NEW sep, NEW h, NEW R,
         TreeInv(v, h, R), Formed(w), SplitBody(v, w, p, a, n, l, r, c, sep),
         v.level < MaxLevel, Listed(v), Joined(v.link, w.link, n, l, r)
  PROVE  Listed(w)
  <1>1. Formed(v)
    BY DEF TreeInv
  <1>2. /\ w.level = v.level /\ w.root = v.root /\ N(w) = N(v) \cup {l, r}
        /\ N(v) \cap {l, r} = {n} /\ v.root \notin {l, r}
    <2>1. v.root \in N(v)
      BY <1>1 DEF Formed
    <2> QED  BY <2>1 DEF SplitBody
  <1>3. Placed(v, w, p, a, n, l, r, c) /\ Once(w, p, a, l, r)
    BY <1>1, SplitPlaced, OnceSplit
  <1>4. Sides(v, w, p, a, n, l, r, c)
    BY <1>1, <1>2, <1>3 DEF Sides
  <1>5. DOMAIN w.link = N(w) \cup ListHeads /\ Ring(w.link)
    BY <1>2 DEF Joined, Listed
  <1>6. Strung(w)
    BY <1>4, <1>5, StrungSplit DEF Listed
  <1>7. Crowned(w)
    BY <1>4, <1>5, CrownBoth DEF Listed
  <1> QED  BY <1>5, <1>6, <1>7 DEF Listed

\* The tree's lists are in order after a merge as they were before it.
LEMMA MergeListed ==
  ASSUME NEW v, NEW w, NEW p, NEW a, NEW n, NEW l, NEW r, NEW c, NEW sep, NEW h, NEW R,
         TreeInv(w, h, R), Formed(v), SplitBody(v, w, p, a, n, l, r, c, sep),
         w.level < MaxLevel, Listed(w), Joined(v.link, w.link, n, l, r)
  PROVE  Listed(v)
  <1>1. Formed(w)
    BY DEF TreeInv
  <1>2. /\ w.level = v.level /\ w.root = v.root /\ N(w) = N(v) \cup {l, r}
        /\ N(v) \cap {l, r} = {n} /\ v.root \notin {l, r}
    <2>1. v.root \in N(v)
      BY DEF Formed
    <2> QED  BY <2>1 DEF SplitBody
  <1>3. Placed(v, w, p, a, n, l, r, c) /\ Once(w, p, a, l, r)
    BY <1>1, SplitPlaced, OnceMerge
  <1>4. Sides(v, w, p, a, n, l, r, c)
    BY <1>1, <1>2, <1>3 DEF Sides
  <1>5. DOMAIN w.link = N(w) \cup ListHeads
    BY DEF Listed
  <1>6. Strung(v)
    BY <1>4, <1>5, StrungMerge DEF Listed
  <1>7. Crowned(v)
    BY <1>4, <1>5, CrownBoth DEF Listed
  <1>8. DOMAIN v.link = N(v) \cup ListHeads /\ Ring(v.link)
    <2>1. N(w) \cap ListHeads = {}
      BY <1>1, HeadsApart
    <2>2. /\ DOMAIN w.link = DOMAIN v.link \cup {l, r} /\ n \in DOMAIN v.link
          /\ DOMAIN v.link \cap {l, r} = {n} /\ l \in N(w) /\ r \in N(w) /\ Ring(v.link)
      BY <1>2 DEF Joined
    <2> QED  BY <1>2, <1>5, <2>1, <2>2
  <1> QED  BY <1>6, <1>7, <1>8 DEF Listed

\* What the nodes hold but for their children is nothing to the lists.
LEMMA SameListed ==
  ASSUME NEW v, NEW w, Listed(v), Formed(v), w.link = v.link, N(w) = N(v), w.root = v.root,
         w.level = v.level,
         \A m \in N(v) : /\ is_leaf(w, m) <=> is_leaf(v, m)
                         /\ ~is_leaf(v, m) => S(w, m) = S(v, m)
  PROVE  Listed(w)
  <1>1. Inner(w) = Inner(v) /\ \A q \in Inner(v) : S(w, q) = S(v, q)
    BY DEF Inner
  <1>2. Above(w) = Above(v)
    BY <1>1 DEF Above
  <1>3. \A x : Nx(w, x) = Nx(v, x)
    BY DEF Nx
  <1>4. \A q \in Above(v) : FirstBelow(w, q) = FirstBelow(v, q) /\ LastBelow(w, q) = LastBelow(v, q)
    <2> SUFFICES ASSUME NEW q \in Above(v)
                 PROVE  FirstBelow(w, q) = FirstBelow(v, q) /\ LastBelow(w, q) = LastBelow(v, q)
      OBVIOUS
    <2>1. CASE q \in Inner(v)
      BY <1>1, <2>1 DEF FirstBelow, LastBelow
    <2>2. CASE q \notin Inner(v)
      <3>1. v.level \in Nat
        BY DEF Formed
      <3>2. q < 0
        BY <2>2, <3>1 DEF Above, ListHead
      <3> QED  BY <3>2 DEF FirstBelow, LastBelow
    <2> QED  BY <2>1, <2>2
  <1>5. Strung(w)
    BY <1>1, <1>2, <1>3, <1>4 DEF Strung, Listed
  <1>6. Crowned(w)
    BY <1>3 DEF Crowned, Listed
  <1> QED  BY <1>5, <1>6 DEF Listed

\* The lists with the root q and without it; H is the head of its level.
Rooted(kv, ku, q, H) ==
  /\ Ring(kv) /\ Ring(ku) /\ DOMAIN ku = DOMAIN kv \cup {q} /\ q \notin DOMAIN kv
  /\ H \in DOMAIN kv /\ ku[q].next = H /\ ku[H].next = q /\ kv[H].next = H
  /\ \A x \in DOMAIN kv \ {H} : ku[x].next = kv[x].next

\* __list_add puts a new root into an empty level.
LEMMA RootedAdded ==
  ASSUME NEW k, NEW q, NEW H, Ring(k), q \notin DOMAIN k, H \in DOMAIN k, k[H].next = H
  PROVE  Rooted(k, Added(k, q, H, k[H].next), q, H)
  <1> DEFINE k2 == Added(k, q, H, k[H].next)
  <1>1. Inserted(k, k2, q, H, k[H].next)
    BY RingAdded
  <1> HIDE DEF k2
  <1>2. Rooted(k, k2, q, H)
    BY <1>1 DEF Inserted, Rooted
  <1> QED  BY <1>2 DEF k2

\* node_delete empties the level of the root.
LEMMA RootedDropped ==
  ASSUME NEW k, NEW q, NEW H, Ring(k), q \in DOMAIN k, H \in DOMAIN k, H # q,
         k[H].next = q, k[q].next = H
  PROVE  Rooted(Dropped(k, q), k, q, H)
  <1> DEFINE k2 == Dropped(k, q)
  <1>1. TakenOut(k, k2, q)
    BY RingDropped
  <1> HIDE DEF k2
  <1>2. \A x \in DOMAIN k : k[x].next = q => x = H
    BY DEF Ring
  <1>3. Rooted(k2, k, q, H)
    BY <1>1, <1>2 DEF TakenOut, Rooted
  <1> QED  BY <1>3 DEF k2

\* What the two trees have in common.
LEMMA RootBelow ==
  ASSUME NEW v, NEW u, NEW q, Formed(v), Formed(u), RootBody(v, u, q), u.level < MaxLevel,
         Rooted(v.link, u.link, q, ListHead(u.level)),
         DOMAIN v.link = N(v) \cup ListHeads
  PROVE  /\ Inner(u) = Inner(v) \cup {q} /\ q \notin N(v)
         /\ \A x \in Inner(v) : S(u, x) = S(v, x)
         /\ Above(u) = Above(v) \cup {q, ListHead(u.level)}
         /\ ListHead(u.level) \notin Above(v)
         /\ \A x \in DOMAIN v.link \ {ListHead(u.level)} : Nx(u, x) = Nx(v, x)
         /\ \A x \in Above(v) : /\ FirstBelow(u, x) = FirstBelow(v, x)
                                /\ LastBelow(u, x) = LastBelow(v, x)
                                /\ LastBelow(v, x) \in DOMAIN v.link \ {ListHead(u.level)}
                                /\ x \in DOMAIN v.link \ {ListHead(u.level)}
         /\ \A x \in N(v) : x # ListHead(u.level)
         /\ LastBelow(u, q) = v.root /\ FirstBelow(u, q) = v.root
         /\ LastBelow(u, ListHead(u.level)) = ListHead(v.level)
         /\ FirstBelow(u, ListHead(u.level)) = ListHead(v.level)
         /\ ListHead(v.level) \in DOMAIN v.link /\ ListHead(v.level) # ListHead(u.level)
  <1> DEFINE H == ListHead(u.level)
  <1>1. /\ q \notin N(v) /\ N(u) = N(v) \cup {q} /\ u.level = v.level + 1
        /\ ~is_leaf(u, q) /\ Len(S(u, q)) = 1 /\ S(u, q)[1] = v.root
        /\ \A m \in N(v) : Same(v, u, m)
    BY DEF RootBody
  <1>2. v.level \in Nat /\ u.level \in Nat /\ MaxLevel \in Nat /\ N(u) \subseteq Nat \ {0}
    BY BPlusAssumption DEF Formed
  <1>3. Inner(u) = Inner(v) \cup {q} /\ \A x \in Inner(v) : S(u, x) = S(v, x)
    BY <1>1 DEF Same, Inner
  <1>4. 1..u.level = 1..v.level \cup {u.level}
    BY <1>1, <1>2
  <1>5. Above(u) = Above(v) \cup {q, H}
    BY <1>3, <1>4 DEF Above
  <1>6. \A x \in N(v) : x # H
    BY <1>1, <1>2 DEF ListHead
  <1>7. H \notin Above(v)
    <2>1. \A m \in 1..v.level : ListHead(m) # H
      BY <1>1, <1>2 DEF ListHead
    <2> QED  BY <1>6, <2>1 DEF Above, Inner
  <1>8. \A x \in DOMAIN v.link \ {H} : Nx(u, x) = Nx(v, x)
    BY DEF Rooted, Nx
  <1>9. ASSUME NEW x \in Above(v)
        PROVE  /\ FirstBelow(u, x) = FirstBelow(v, x)
               /\ LastBelow(u, x) = LastBelow(v, x)
               /\ LastBelow(v, x) \in DOMAIN v.link \ {H}
               /\ x \in DOMAIN v.link \ {H}
    <2>0. v.level < MaxLevel
      BY <1>1, <1>2
    <2>1. x \in DOMAIN v.link /\ LastBelow(v, x) \in DOMAIN v.link
      BY <2>0, BelowPlaces
    <2>2. CASE x \in Inner(v)
      <3>1. S(u, x) = S(v, x)
        BY <1>3, <2>2
      <3>2. LastBelow(v, x) \in N(v)
        <4>1. x \in Nat \ {0} /\ ~(x < 0)
          BY <1>1, <1>2, <2>2 DEF Inner
        <4>2. S(v, x) \in Seq(N(v)) /\ Len(S(v, x)) = Len(K(v, x)) + 1 /\ K(v, x) \in Seq(Int)
          BY <2>2 DEF Formed, NodeFormed, Inner
        <4>3. Len(K(v, x)) \in Nat
          BY <4>2
        <4>4. Len(S(v, x)) \in 1..Len(S(v, x))
          BY <4>2, <4>3
        <4>5. S(v, x)[Len(S(v, x))] \in N(v)
          BY <4>2, <4>4
        <4> QED  BY <4>1, <4>5 DEF LastBelow
      <3> QED  BY <1>6, <1>7, <2>1, <3>1, <3>2 DEF FirstBelow, LastBelow
    <2>3. CASE x \notin Inner(v)
      <3>1. PICK m \in 1..v.level : x = ListHead(m)
        BY <2>3 DEF Above
      <3>2. x < 0 /\ x + 1 # H
        BY <1>1, <1>2, <3>1 DEF ListHead
      <3> QED  BY <1>7, <2>1, <3>2 DEF FirstBelow, LastBelow
    <2> QED  BY <2>2, <2>3
  <1>10. LastBelow(u, q) = v.root /\ FirstBelow(u, q) = v.root
    <2>1. q \in Nat \ {0} /\ ~(q < 0)
      BY <1>1, <1>2
    <2> QED  BY <1>1, <2>1 DEF LastBelow, FirstBelow
  <1>11. LastBelow(u, H) = ListHead(v.level) /\ FirstBelow(u, H) = ListHead(v.level)
         /\ ListHead(v.level) # H
    BY <1>1, <1>2 DEF LastBelow, FirstBelow, ListHead
  <1>12. ListHead(v.level) \in DOMAIN v.link
    <2>1. v.level \in 0..(MaxLevel - 1)
      BY <1>1, <1>2
    <2> QED  BY <2>1 DEF ListHeads
  <1> QED  BY <1>1, <1>3, <1>5, <1>6, <1>7, <1>8, <1>9, <1>10, <1>11, <1>12

\* The lists take a new root in.
LEMMA RootListed ==
  ASSUME NEW v, NEW u, NEW q, Formed(v), Formed(u), RootBody(v, u, q), u.level < MaxLevel,
         Rooted(v.link, u.link, q, ListHead(u.level)), Listed(v)
  PROVE  Listed(u)
  <1> DEFINE H == ListHead(u.level)
  <1>1. /\ Inner(u) = Inner(v) \cup {q} /\ q \notin N(v)
        /\ \A x \in Inner(v) : S(u, x) = S(v, x)
        /\ Above(u) = Above(v) \cup {q, H}
        /\ H \notin Above(v)
        /\ \A x \in DOMAIN v.link \ {H} : Nx(u, x) = Nx(v, x)
        /\ \A x \in Above(v) : /\ FirstBelow(u, x) = FirstBelow(v, x)
                               /\ LastBelow(u, x) = LastBelow(v, x)
                               /\ LastBelow(v, x) \in DOMAIN v.link \ {H}
                               /\ x \in DOMAIN v.link \ {H}
        /\ \A x \in N(v) : x # H
        /\ LastBelow(u, q) = v.root /\ FirstBelow(u, q) = v.root
        /\ LastBelow(u, H) = ListHead(v.level) /\ FirstBelow(u, H) = ListHead(v.level)
        /\ ListHead(v.level) \in DOMAIN v.link /\ ListHead(v.level) # H
    BY RootBelow DEF Listed
  <1>2. /\ u.level = v.level + 1 /\ u.root = q /\ N(u) = N(v) \cup {q} /\ v.root \in N(v)
        /\ v.level \in Nat /\ MaxLevel \in Nat /\ u.level < MaxLevel
        /\ Len(S(u, q)) = 1
    BY BPlusAssumption DEF RootBody, Formed
  <1>3. /\ DOMAIN v.link = N(v) \cup ListHeads /\ DOMAIN u.link = DOMAIN v.link \cup {q}
        /\ H \in DOMAIN v.link
        /\ Nx(u, q) = H /\ Nx(u, H) = q /\ Nx(v, H) = H
        /\ Ring(u.link) /\ Ring(v.link)
    BY DEF Rooted, Listed, Nx
  <1> HIDE DEF H
  <1>4. Strung(u)
    <2>1. ASSUME NEW x \in Inner(u), NEW i \in 1..(Len(S(u, x)) - 1)
          PROVE  Nx(u, S(u, x)[i]) = S(u, x)[i + 1]
      <3>1. x \in Inner(v) /\ S(u, x) = S(v, x)
        <4>1. x # q
          <5>1. SUFFICES ASSUME x = q
                         PROVE  FALSE
            OBVIOUS
          <5>2. Len(S(u, x)) = 1
            BY <1>2, <5>1
          <5>3. i \in 1..(1 - 1)
            BY <5>2
          <5> QED  BY <5>3
        <4> QED  BY <1>1, <4>1
      <3>2. Nx(v, S(v, x)[i]) = S(v, x)[i + 1]
        BY <3>1 DEF Listed, Strung
      <3>3. S(v, x) \in Seq(N(v))
        BY <3>1 DEF Formed, NodeFormed, Inner
      <3>4. Len(S(v, x)) \in Nat
        BY <3>3
      <3>5. i \in 1..Len(S(v, x))
        BY <3>1, <3>4
      <3>6. S(v, x)[i] \in N(v)
        BY <3>3, <3>5
      <3> QED  BY <1>1, <1>3, <3>1, <3>2, <3>6
    <2>2. ASSUME NEW x \in Above(u), NEW y \in Above(u), Nx(u, x) = y
          PROVE  Nx(u, LastBelow(u, x)) = FirstBelow(u, y)
      <3>1. CASE x \in Above(v)
        <4>1. x \in DOMAIN v.link \ {H} /\ Nx(v, x) = y
          BY <1>1, <2>2, <3>1
        <4>2. y \in DOMAIN v.link /\ y # H
          BY <1>3, <4>1 DEF Ring, Nx
        <4>3. y \in Above(v)
          <5>1. q \notin DOMAIN v.link
            BY DEF Rooted
          <5> QED  BY <1>1, <4>2, <5>1
        <4>4. Nx(v, LastBelow(v, x)) = FirstBelow(v, y)
          BY <3>1, <4>1, <4>3 DEF Listed, Strung
        <4> QED  BY <1>1, <3>1, <4>3, <4>4
      <3>2. CASE x = q
        <4>1. y = H
          BY <1>3, <2>2, <3>2
        <4>2. Nx(v, v.root) = ListHead(v.level)
          BY DEF Listed, Crowned
        <4> QED  BY <1>1, <1>2, <1>3, <3>2, <4>1, <4>2
      <3>3. CASE x = H
        <4>1. y = q
          BY <1>3, <2>2, <3>3
        <4>2. Nx(v, ListHead(v.level)) = v.root
          BY DEF Listed, Crowned
        <4> QED  BY <1>1, <3>3, <4>1, <4>2
      <3> QED  BY <1>1, <3>1, <3>2, <3>3
    <2> QED  BY <2>1, <2>2 DEF Strung
  <1>5. Crowned(u)
    <2>1. ASSUME NEW m \in 0..(MaxLevel - 1), m > u.level
          PROVE  Nx(u, ListHead(m)) = ListHead(m)
      <3>1. m > v.level /\ ListHead(m) # H
        BY <1>2, <2>1 DEF H, ListHead
      <3>2. Nx(v, ListHead(m)) = ListHead(m)
        BY <3>1 DEF Listed, Crowned
      <3>3. ListHead(m) \in DOMAIN v.link
        BY <1>3 DEF ListHeads
      <3> QED  BY <1>1, <3>1, <3>2, <3>3
    <2> QED  BY <1>2, <1>3, <2>1 DEF Crowned, H
  <1>6. DOMAIN u.link = N(u) \cup ListHeads
    BY <1>2, <1>3
  <1> QED  BY <1>3, <1>4, <1>5, <1>6 DEF Listed

\* The lists let a root go.
LEMMA RootUnlisted ==
  ASSUME NEW v, NEW u, NEW q, Formed(v), Formed(u), RootBody(v, u, q), u.level < MaxLevel,
         Rooted(v.link, u.link, q, ListHead(u.level)), Listed(u)
  PROVE  Listed(v)
  <1> DEFINE H == ListHead(u.level)
  <1>2. /\ u.level = v.level + 1 /\ u.root = q /\ N(u) = N(v) \cup {q} /\ v.root \in N(v)
        /\ v.level \in Nat /\ MaxLevel \in Nat /\ u.level < MaxLevel /\ q \notin N(v)
    BY BPlusAssumption DEF RootBody, Formed
  <1>3. /\ DOMAIN u.link = N(u) \cup ListHeads /\ DOMAIN u.link = DOMAIN v.link \cup {q}
        /\ q \notin DOMAIN v.link /\ H \in DOMAIN v.link
        /\ Nx(u, q) = H /\ Nx(u, H) = q /\ Nx(v, H) = H
        /\ Ring(u.link) /\ Ring(v.link)
    BY DEF Rooted, Listed, Nx
  <1>4. DOMAIN v.link = N(v) \cup ListHeads
    <2>1. N(u) \cap ListHeads = {}
      BY HeadsApart
    <2> QED  BY <1>2, <1>3, <2>1
  <1>1. /\ Inner(u) = Inner(v) \cup {q}
        /\ \A x \in Inner(v) : S(u, x) = S(v, x)
        /\ Above(u) = Above(v) \cup {q, H}
        /\ H \notin Above(v)
        /\ \A x \in DOMAIN v.link \ {H} : Nx(u, x) = Nx(v, x)
        /\ \A x \in Above(v) : /\ FirstBelow(u, x) = FirstBelow(v, x)
                               /\ LastBelow(u, x) = LastBelow(v, x)
                               /\ LastBelow(v, x) \in DOMAIN v.link \ {H}
                               /\ x \in DOMAIN v.link \ {H}
        /\ \A x \in N(v) : x # H
        /\ LastBelow(u, q) = v.root /\ FirstBelow(u, q) = v.root
        /\ LastBelow(u, H) = ListHead(v.level) /\ FirstBelow(u, H) = ListHead(v.level)
        /\ ListHead(v.level) \in DOMAIN v.link /\ ListHead(v.level) # H
    BY <1>4, RootBelow
  <1> HIDE DEF H
  <1>5. Strung(v)
    <2>1. ASSUME NEW x \in Inner(v), NEW i \in 1..(Len(S(v, x)) - 1)
          PROVE  Nx(v, S(v, x)[i]) = S(v, x)[i + 1]
      <3>1. x \in Inner(u) /\ S(u, x) = S(v, x)
        BY <1>1
      <3>2. Nx(u, S(v, x)[i]) = S(v, x)[i + 1]
        BY <3>1 DEF Listed, Strung
      <3>3. S(v, x) \in Seq(N(v))
        BY DEF Formed, NodeFormed, Inner
      <3>4. Len(S(v, x)) \in Nat
        BY <3>3
      <3>5. i \in 1..Len(S(v, x))
        BY <3>4
      <3>6. S(v, x)[i] \in N(v)
        BY <3>3, <3>5
      <3> QED  BY <1>1, <1>4, <3>2, <3>6
    <2>2. ASSUME NEW x \in Above(v), NEW y \in Above(v), Nx(v, x) = y
          PROVE  Nx(v, LastBelow(v, x)) = FirstBelow(v, y)
      <3>1. x \in Above(u) /\ y \in Above(u) /\ Nx(u, x) = y
        BY <1>1, <2>2
      <3>2. Nx(u, LastBelow(u, x)) = FirstBelow(u, y)
        BY <3>1 DEF Listed, Strung
      <3> QED  BY <1>1, <3>2
    <2> QED  BY <2>1, <2>2 DEF Strung
  <1>6. Crowned(v)
    <2>1. ASSUME NEW m \in 0..(MaxLevel - 1), m > v.level
          PROVE  Nx(v, ListHead(m)) = ListHead(m)
      <3>1. CASE m = u.level
        BY <1>3, <3>1 DEF H
      <3>2. CASE m # u.level
        <4>1. m > u.level /\ ListHead(m) # H
          BY <1>2, <2>1, <3>2 DEF H, ListHead
        <4>2. Nx(u, ListHead(m)) = ListHead(m)
          BY <4>1 DEF Listed, Crowned
        <4>3. ListHead(m) \in DOMAIN v.link
          BY <1>4 DEF ListHeads
        <4> QED  BY <1>1, <4>1, <4>2, <4>3
      <3> QED  BY <3>1, <3>2
    <2>2. q \in Above(u) /\ H \in Above(u)
      BY <1>1
    <2>3. Nx(u, LastBelow(u, q)) = FirstBelow(u, H) /\ Nx(u, LastBelow(u, H)) = FirstBelow(u, q)
      BY <1>3, <2>2 DEF Listed, Strung
    <2>4. Nx(u, v.root) = ListHead(v.level) /\ Nx(u, ListHead(v.level)) = v.root
      BY <1>1, <2>3
    <2>5. Nx(v, v.root) = ListHead(v.level) /\ Nx(v, ListHead(v.level)) = v.root
      BY <1>1, <1>2, <1>4, <2>4
    <2> QED  BY <2>1, <2>5 DEF Crowned
  <1> QED  BY <1>3, <1>4, <1>5, <1>6 DEF Listed
\* The lists are in order as long as every level has one.
InLists(t) == t.level < MaxLevel => Listed(t)

\* Two lists that agree but for a split agree with a new root in both.
LEMMA JoinedRooted ==
  ASSUME NEW kv, NEW kw, NEW n, NEW l, NEW r, NEW ku, NEW kx, NEW q, NEW H,
         Joined(kv, kw, n, l, r), Rooted(kv, ku, q, H), Rooted(kw, kx, q, H),
         H \notin {l, r}, q \notin {l, r}
  PROVE  Joined(ku, kx, n, l, r)
  <1>1. /\ l # r /\ n \in {l, r} /\ l \in DOMAIN kw /\ r \in DOMAIN kw
        /\ DOMAIN kw = DOMAIN kv \cup {l, r} /\ n \in DOMAIN kv /\ DOMAIN kv \cap {l, r} = {n}
        /\ kw[l].next = r
        /\ \A x \in DOMAIN kw \ {l} : kv[Both(x, n, l, r)].next = Both(kw[x].next, n, l, r)
    BY DEF Joined
  <1>2. /\ Ring(ku) /\ DOMAIN ku = DOMAIN kv \cup {q} /\ q \notin DOMAIN kv
        /\ H \in DOMAIN kv /\ ku[q].next = H /\ ku[H].next = q
        /\ \A x \in DOMAIN kv \ {H} : ku[x].next = kv[x].next
    BY DEF Rooted
  <1>3. /\ Ring(kx) /\ DOMAIN kx = DOMAIN kw \cup {q} /\ q \notin DOMAIN kw
        /\ kx[q].next = H /\ kx[H].next = q
        /\ \A x \in DOMAIN kw \ {H} : kx[x].next = kw[x].next
    BY DEF Rooted
  <1>4. /\ l \in DOMAIN kx /\ r \in DOMAIN kx
        /\ DOMAIN kx = DOMAIN ku \cup {l, r} /\ n \in DOMAIN ku /\ DOMAIN ku \cap {l, r} = {n}
    BY <1>1, <1>2, <1>3
  <1>5. kx[l].next = r
    BY <1>1, <1>3
  <1>6. ASSUME NEW x \in DOMAIN kx \ {l}
        PROVE  ku[Both(x, n, l, r)].next = Both(kx[x].next, n, l, r)
    <2>1. CASE x = q
      BY <1>2, <1>3, <2>1 DEF Both
    <2>2. CASE x = H
      BY <1>2, <1>3, <2>2 DEF Both
    <2>3. CASE x # q /\ x # H
      <3>1. x \in DOMAIN kw \ {l}
        BY <1>3, <2>3
      <3>2. Both(x, n, l, r) \in DOMAIN kv \ {H}
        BY <1>1, <2>3, <3>1 DEF Both
      <3> QED  BY <1>1, <1>2, <1>3, <2>3, <3>1, <3>2
    <2> QED  BY <2>1, <2>2, <2>3
  <1> QED  BY <1>1, <1>2, <1>3, <1>4, <1>5, <1>6 DEF Joined
\* The new node m stands beside n, on the left if it is l.
Spliced(k, k2, n, m, l) ==
  k2 = IF l = m THEN Added(k, m, k[n].prev, n) ELSE Added(k, m, n, k[n].next)

\* With that the list is split as the node is.
LEMMA SplicedJoined ==
  ASSUME NEW t, NEW k2, NEW n, NEW m, NEW l, NEW r,
         DOMAIN t.link = N(t) \cup ListHeads, Ring(t.link), n \in N(t),
         m \in Nat \ {0}, m \notin N(t), l # r, {l, r} = {n, m}, Spliced(t.link, k2, n, m, l)
  PROVE  Joined(t.link, k2, n, l, r)
  <1>1. m \notin DOMAIN t.link /\ n \in DOMAIN t.link
    <2>1. \A x \in ListHeads : x < 0
      BY BPlusAssumption DEF ListHeads, ListHead
    <2>2. ~(m < 0)
      OBVIOUS
    <2> QED  BY <2>1, <2>2
  <1>2. /\ Joined(t.link, Added(t.link, m, n, t.link[n].next), n, n, m)
        /\ Joined(t.link, Added(t.link, m, t.link[n].prev, n), n, m, n)
    BY <1>1, JoinedAdded
  <1>3. (l = m /\ r = n) \/ (l # m /\ l = n /\ r = m)
    BY <1>1
  <1> QED  BY <1>2, <1>3 DEF Spliced

-----------------------------------------------------------------------------
\* What the operations on arrays do.

\* The elements from an index on.
LEMMA SliceFromFact ==
  ASSUME NEW A, NEW s \in Seq(A), NEW b \in 0..Len(s)
  PROVE  /\ SliceFrom(s, b) \in Seq(A) /\ Len(SliceFrom(s, b)) = Len(s) - b
         /\ \A j \in 1..(Len(s) - b) : SliceFrom(s, b)[j] = s[b + j]
  <1>1. SliceFrom(s, b) = [j \in 1..(Len(s) - b) |-> s[b + j]]
    BY DEF SliceFrom
  <1>2. \A j \in 1..(Len(s) - b) : b + j \in 1..Len(s) /\ s[b + j] \in A
    OBVIOUS
  <1>3. Len(s) - b \in Nat
    OBVIOUS
  <1> QED  BY <1>1, <1>2, <1>3

\* The elements before an index.
LEMMA SliceFact ==
  ASSUME NEW A, NEW s \in Seq(A), NEW a \in 0..Len(s)
  PROVE  /\ Slice(s, 0, a - 1) \in Seq(A) /\ Len(Slice(s, 0, a - 1)) = a
         /\ \A j \in 1..a : Slice(s, 0, a - 1)[j] = s[j]
  <1>1. Slice(s, 0, a - 1) = [j \in 1..a |-> s[j]]
    BY DEF Slice
  <1>2. \A j \in 1..a : j \in 1..Len(s) /\ s[j] \in A
    OBVIOUS
  <1> QED  BY <1>1, <1>2

\* The two together, with or without an element left out between them.
LEMMA CutFact ==
  ASSUME NEW A, NEW s \in Seq(A), NEW a \in 0..Len(s), NEW b \in 0..Len(s)
  PROVE  /\ Cut(s, a, b, Slice(s, 0, a - 1), SliceFrom(s, b))
         /\ Slice(s, 0, a - 1) \in Seq(A) /\ SliceFrom(s, b) \in Seq(A)
  <1>1. /\ SliceFrom(s, b) \in Seq(A) /\ Len(SliceFrom(s, b)) = Len(s) - b
        /\ \A j \in 1..(Len(s) - b) : SliceFrom(s, b)[j] = s[b + j]
    BY SliceFromFact
  <1>2. /\ Slice(s, 0, a - 1) \in Seq(A) /\ Len(Slice(s, 0, a - 1)) = a
        /\ \A j \in 1..a : Slice(s, 0, a - 1)[j] = s[j]
    BY SliceFact
  <1> QED  BY <1>1, <1>2 DEF Cut

\* A key entered at an index.
LEMMA WithKeyFact ==
  ASSUME NEW A, NEW s \in Seq(A), NEW k \in A, NEW insert \in 0..Len(s)
  PROVE  WithKey(s, k, insert) \in Seq(A) /\ Entered(s, insert + 1, k, WithKey(s, k, insert))
  <1> DEFINE s1 == Slice(s, 0, insert - 1)
             s2 == SliceFrom(s, insert)
  <1>1. /\ s2 \in Seq(A) /\ Len(s2) = Len(s) - insert
        /\ \A j \in 1..(Len(s) - insert) : s2[j] = s[insert + j]
    BY SliceFromFact
  <1>2. /\ s1 \in Seq(A) /\ Len(s1) = insert
        /\ \A j \in 1..insert : s1[j] = s[j]
    BY SliceFact
  <1>3. WithKey(s, k, insert) = s1 \o <<k>> \o s2
    BY DEF WithKey
  <1> HIDE DEF s1, s2
  <1>4. <<k>> \in Seq(A) /\ Len(<<k>>) = 1 /\ <<k>>[1] = k
    OBVIOUS
  <1> DEFINE m == s1 \o <<k>>
  <1>5. /\ m \in Seq(A) /\ Len(m) = insert + 1
        /\ \A j \in 1..(insert + 1) : m[j] = IF j <= insert THEN s[j] ELSE k
    <2>1. m \in Seq(A) /\ Len(m) = Len(s1) + Len(<<k>>)
      BY <1>2, <1>4
    <2>2. \A j \in 1..Len(m) : m[j] = IF j <= Len(s1) THEN s1[j] ELSE <<k>>[j - Len(s1)]
      BY <1>2, <1>4
    <2> HIDE DEF m
    <2>3. ASSUME NEW j \in 1..(insert + 1)
          PROVE  m[j] = IF j <= insert THEN s[j] ELSE k
      <3>1. CASE j <= insert
        BY <1>2, <2>1, <2>2, <1>4, <3>1
      <3>2. CASE j = insert + 1
        <4>1. j - Len(s1) = 1 /\ ~(j <= insert) /\ j \in 1..Len(m)
          BY <1>2, <2>1, <1>4, <3>2
        <4> QED  BY <1>2, <2>2, <1>4, <4>1
      <3> QED  BY <3>1, <3>2
    <2> QED  BY <1>2, <1>4, <2>1, <2>3
  <1> HIDE DEF m
  <1>6. m \o s2 \in Seq(A) /\ Len(m \o s2) = Len(m) + Len(s2)
    BY <1>1, <1>5, ConcatProperties
  <1>7. \A j \in 1..(Len(m) + Len(s2)) : (m \o s2)[j] = IF j <= Len(m) THEN m[j] ELSE s2[j - Len(m)]
    BY <1>1, <1>5, ConcatProperties
  <1>8. ASSUME NEW j \in 1..(Len(s) + 1)
        PROVE  (m \o s2)[j] = IF j < insert + 1 THEN s[j] ELSE IF j = insert + 1 THEN k ELSE s[j - 1]
    <2>1. CASE j <= insert + 1
      BY <1>1, <1>5, <1>7, <2>1
    <2>2. CASE j > insert + 1
      <3>1. j - Len(m) \in 1..(Len(s) - insert) /\ insert + (j - Len(m)) = j - 1 /\ ~(j <= Len(m))
        <4>1. Len(m) = insert + 1 /\ Len(s) \in Nat
          BY <1>5
        <4> QED  BY <2>2, <4>1
      <3>2. (m \o s2)[j] = s2[j - Len(m)]
        BY <1>1, <1>5, <1>7, <3>1
      <3>3. s2[j - Len(m)] = s[j - 1]
        BY <1>1, <3>1
      <3>4. ~(j < insert + 1) /\ j # insert + 1
        BY <2>2
      <3> QED  BY <3>2, <3>3, <3>4
    <2>3. j <= insert + 1 \/ j > insert + 1
      OBVIOUS
    <2> QED  BY <2>1, <2>2, <2>3
  <1>9. Len(m \o s2) = Len(s) + 1
    BY <1>1, <1>5, <1>6
  <1> QED  BY <1>3, <1>6, <1>8, <1>9 DEF Entered, m

\* A pair entered in the place of an element.
LEMMA WithPairFact ==
  ASSUME NEW A, NEW s \in Seq(A), NEW l \in A, NEW r \in A, NEW insert \in 0..(Len(s) - 1)
  PROVE  WithPair(s, l, r, insert) \in Seq(A) /\ Paired(s, insert + 1, l, r, WithPair(s, l, r, insert))
  <1> DEFINE s1 == Slice(s, 0, insert - 1)
             s2 == SliceFrom(s, insert + 1)
             p == <<l, r>>
  <1>1. /\ s2 \in Seq(A) /\ Len(s2) = Len(s) - (insert + 1)
        /\ \A j \in 1..(Len(s) - (insert + 1)) : s2[j] = s[insert + 1 + j]
    <2>1. insert + 1 \in 0..Len(s)
      OBVIOUS
    <2> QED  BY <2>1, SliceFromFact
  <1>2. /\ s1 \in Seq(A) /\ Len(s1) = insert
        /\ \A j \in 1..insert : s1[j] = s[j]
    <2>1. insert \in 0..Len(s)
      OBVIOUS
    <2> QED  BY <2>1, SliceFact
  <1>3. WithPair(s, l, r, insert) = s1 \o p \o s2
    BY DEF WithPair
  <1>4. p \in Seq(A) /\ Len(p) = 2 /\ p[1] = l /\ p[2] = r
    OBVIOUS
  <1> HIDE DEF s1, s2, p
  <1> DEFINE m == s1 \o p
  <1>5. /\ m \in Seq(A) /\ Len(m) = insert + 2
        /\ \A j \in 1..(insert + 2) : m[j] = IF j <= insert THEN s[j] ELSE IF j = insert + 1 THEN l ELSE r
    <2>1. m \in Seq(A) /\ Len(m) = Len(s1) + Len(p)
      BY <1>2, <1>4, ConcatProperties
    <2>2. \A j \in 1..Len(m) : m[j] = IF j <= Len(s1) THEN s1[j] ELSE p[j - Len(s1)]
      BY <1>2, <1>4, <2>1, ConcatProperties
    <2> HIDE DEF m
    <2>3. ASSUME NEW j \in 1..(insert + 2)
          PROVE  m[j] = IF j <= insert THEN s[j] ELSE IF j = insert + 1 THEN l ELSE r
      <3>1. CASE j <= insert
        BY <1>2, <2>1, <2>2, <1>4, <3>1
      <3>2. CASE j = insert + 1
        <4>1. j - Len(s1) = 1 /\ ~(j <= insert) /\ j \in 1..Len(m)
          BY <1>2, <2>1, <1>4, <3>2
        <4> QED  BY <1>2, <2>2, <1>4, <4>1, <3>2
      <3>3. CASE j = insert + 2
        <4>1. j - Len(s1) = 2 /\ ~(j <= insert) /\ j # insert + 1 /\ j \in 1..Len(m)
          BY <1>2, <2>1, <1>4, <3>3
        <4> QED  BY <1>2, <2>2, <1>4, <4>1
      <3> QED  BY <3>1, <3>2, <3>3
    <2> QED  BY <1>2, <1>4, <2>1, <2>3
  <1> HIDE DEF m
  <1>6. m \o s2 \in Seq(A) /\ Len(m \o s2) = Len(m) + Len(s2)
    BY <1>1, <1>5, ConcatProperties
  <1>7. \A j \in 1..(Len(m) + Len(s2)) : (m \o s2)[j] = IF j <= Len(m) THEN m[j] ELSE s2[j - Len(m)]
    BY <1>1, <1>5, ConcatProperties
  <1>8. ASSUME NEW j \in 1..(Len(s) + 1)
        PROVE  (m \o s2)[j] = IF j < insert + 1 THEN s[j] ELSE IF j = insert + 1 THEN l
                              ELSE IF j = insert + 1 + 1 THEN r ELSE s[j - 1]
    <2>1. CASE j <= insert + 2
      <3>1. j <= Len(m) /\ j \in 1..(Len(m) + Len(s2)) /\ j \in 1..(insert + 2)
        BY <1>1, <1>5, <2>1
      <3>2. (m \o s2)[j] = m[j]
        BY <1>7, <3>1
      <3>3. m[j] = IF j <= insert THEN s[j] ELSE IF j = insert + 1 THEN l ELSE r
        BY <1>5, <3>1
      <3>4. /\ j < insert + 1 <=> j <= insert
            /\ j > insert + 1 => j = insert + 1 + 1
        BY <2>1
      <3> QED  BY <2>1, <3>2, <3>3, <3>4
    <2>2. CASE j > insert + 2
      <3>1. j - Len(m) \in 1..(Len(s) - (insert + 1)) /\ insert + 1 + (j - Len(m)) = j - 1 /\ ~(j <= Len(m))
        BY <1>5, <2>2
      <3>2. (m \o s2)[j] = s2[j - Len(m)]
        BY <1>1, <1>5, <1>7, <3>1, SMTT(30)
      <3>3. s2[j - Len(m)] = s[j - 1]
        BY <1>1, <3>1
      <3>4. ~(j < insert + 1) /\ j # insert + 1 /\ j # insert + 1 + 1
        BY <2>2
      <3> QED  BY <3>2, <3>3, <3>4
    <2>3. insert + 2 \in Nat
      OBVIOUS
    <2>4. j <= insert + 2 \/ j > insert + 2
      OBVIOUS
    <2> QED  BY <2>1, <2>2, <2>4
  <1>9. Len(m \o s2) = Len(s) + 1
    BY <1>1, <1>5, <1>6
  <1> QED  BY <1>3, <1>6, <1>8, <1>9 DEF Paired, m

\* What the split behind the place of a new key leaves on both sides, whether
\* the arrays are cut after the key is in or before.
LEMMA CutBefore ==
  ASSUME NEW A, NEW s \in Seq(A), NEW k \in A, NEW insert \in 0..Len(s), NEW s2 \in Seq(A),
         Entered(s, insert + 1, k, s2),
         NEW c \in 0..insert, NEW b \in 0..insert
  PROVE  Cut(s2, c, b, Slice(s, 0, c - 1), WithKey(SliceFrom(s, b), k, insert - b))
  <1>0. b \in 0..Len(s)
    OBVIOUS
  <1>1. /\ SliceFrom(s, b) \in Seq(A) /\ Len(SliceFrom(s, b)) = Len(s) - b
        /\ \A j \in 1..(Len(s) - b) : SliceFrom(s, b)[j] = s[b + j]
    BY <1>0, SliceFromFact
  <1>2. /\ Slice(s, 0, c - 1) \in Seq(A) /\ Len(Slice(s, 0, c - 1)) = c
        /\ \A j \in 1..c : Slice(s, 0, c - 1)[j] = s[j]
    <2>1. c \in 0..Len(s)
      OBVIOUS
    <2> QED  BY <2>1, SliceFact
  <1>3. Len(s2) = Len(s) + 1
        /\ \A j \in 1..(Len(s) + 1) :
           s2[j] = IF j < insert + 1 THEN s[j] ELSE IF j = insert + 1 THEN k ELSE s[j - 1]
    BY DEF Entered
  <1>4. insert - b \in 0..Len(SliceFrom(s, b))
    BY <1>1
  <1> DEFINE u == SliceFrom(s, b)
             w == WithKey(u, k, insert - b)
  <1>5. w \in Seq(A) /\ Entered(u, insert - b + 1, k, w)
    BY <1>1, <1>4, WithKeyFact
  <1> HIDE DEF u, w
  <1>6. Len(w) = Len(s2) - b
    BY <1>1, <1>3, <1>5 DEF Entered, u
  <1>7. ASSUME NEW j \in 1..(Len(s2) - b)
        PROVE  w[j] = s2[b + j]
    <2>1. w[j] = IF j < insert - b + 1 THEN u[j] ELSE IF j = insert - b + 1 THEN k ELSE u[j - 1]
      <3>1. Len(u) = Len(s) - b
        BY <1>1 DEF u
      <3>2. j \in 1..(Len(u) + 1)
        BY <3>1, <1>3
      <3> QED  BY <3>2, <1>5 DEF Entered
    <2>2. s2[b + j] = IF b + j < insert + 1 THEN s[b + j] ELSE IF b + j = insert + 1 THEN k ELSE s[b + j - 1]
      <3>1. b + j \in 1..(Len(s) + 1)
        BY <1>3
      <3> QED  BY <1>3, <3>1
    <2>3. CASE j < insert - b + 1
      <3>1. b + j < insert + 1 /\ j \in 1..(Len(s) - b)
        BY <2>3
      <3> QED  BY <1>1, <2>1, <2>2, <2>3, <3>1 DEF u
    <2>4. CASE j = insert - b + 1
      BY <2>1, <2>2, <2>4
    <2>5. CASE j > insert - b + 1
      <3>1. b + j > insert + 1 /\ j - 1 \in 1..(Len(s) - b) /\ b + (j - 1) = b + j - 1
        BY <2>5, <1>3
      <3>2. u[j - 1] = s[b + (j - 1)]
        BY <1>1, <3>1 DEF u
      <3> QED  BY <2>1, <2>2, <2>5, <3>1, <3>2
    <2> QED  BY <2>3, <2>4, <2>5
  <1>8. ASSUME NEW j \in 1..c
        PROVE  Slice(s, 0, c - 1)[j] = s2[j]
    <2>1. j < insert + 1 /\ j \in 1..(Len(s) + 1)
      OBVIOUS
    <2> QED  BY <1>2, <1>3, <2>1
  <1> QED  BY <1>2, <1>6, <1>7, <1>8 DEF Cut, w, u

\* A key in front.
LEMMA OpenFact ==
  ASSUME NEW A, NEW s \in Seq(A), NEW k \in A
  PROVE  /\ <<k>> \o s \in Seq(A) /\ Len(<<k>> \o s) = Len(s) + 1
         /\ \A j \in 1..(Len(s) + 1) : (<<k>> \o s)[j] = IF j = 1 THEN k ELSE s[j - 1]
  <1> DEFINE m == <<k>>
  <1>1. m \in Seq(A) /\ Len(m) = 1 /\ m[1] = k
    OBVIOUS
  <1> HIDE DEF m
  <1>2. /\ m \o s \in Seq(A) /\ Len(m \o s) = Len(m) + Len(s)
        /\ \A j \in 1..(Len(m) + Len(s)) : (m \o s)[j] = IF j <= Len(m) THEN m[j] ELSE s[j - Len(m)]
    BY <1>1, ConcatProperties
  <1>3. Len(s) \in Nat
    OBVIOUS
  <1>4. Len(m \o s) = Len(s) + 1
    BY <1>1, <1>2, <1>3
  <1>5. ASSUME NEW j \in 1..(Len(s) + 1)
        PROVE  (m \o s)[j] = IF j = 1 THEN k ELSE s[j - 1]
    <2>1. j \in 1..(Len(m) + Len(s)) /\ (j <= Len(m) <=> j = 1) /\ j - Len(m) = j - 1
      BY <1>1, <1>3
    <2> QED  BY <1>1, <1>2, <2>1
  <1> QED  BY <1>2, <1>4, <1>5 DEF m

\* A pair in front.
LEMMA OpenPairFact ==
  ASSUME NEW A, NEW s \in Seq(A), NEW l \in A, NEW r \in A
  PROVE  /\ <<l, r>> \o s \in Seq(A) /\ Len(<<l, r>> \o s) = Len(s) + 2
         /\ \A j \in 1..(Len(s) + 2) :
              (<<l, r>> \o s)[j] = IF j = 1 THEN l ELSE IF j = 2 THEN r ELSE s[j - 2]
  <1> DEFINE m == <<l, r>>
  <1>1. m \in Seq(A) /\ Len(m) = 2 /\ m[1] = l /\ m[2] = r
    OBVIOUS
  <1> HIDE DEF m
  <1>2. /\ m \o s \in Seq(A) /\ Len(m \o s) = Len(m) + Len(s)
        /\ \A j \in 1..(Len(m) + Len(s)) : (m \o s)[j] = IF j <= Len(m) THEN m[j] ELSE s[j - Len(m)]
    BY <1>1, ConcatProperties
  <1>3. Len(s) \in Nat
    OBVIOUS
  <1>4. Len(m \o s) = Len(s) + 2
    BY <1>1, <1>2, <1>3
  <1>5. ASSUME NEW j \in 1..(Len(s) + 2)
        PROVE  (m \o s)[j] = IF j = 1 THEN l ELSE IF j = 2 THEN r ELSE s[j - 2]
    <2>1. j \in 1..(Len(m) + Len(s)) /\ (j <= Len(m) <=> (j = 1 \/ j = 2)) /\ j - Len(m) = j - 2
      BY <1>1, <1>3
    <2> QED  BY <1>1, <1>2, <2>1
  <1> QED  BY <1>2, <1>4, <1>5 DEF m

\* The same where the new key, or the pair, opens the upper part.
LEMMA CutOpen ==
  ASSUME NEW A, NEW s \in Seq(A), NEW k \in A, NEW insert \in 0..Len(s), NEW s2 \in Seq(A),
         Entered(s, insert + 1, k, s2), NEW c \in 0..insert
  PROVE  Cut(s2, c, insert, Slice(s, 0, c - 1), <<k>> \o SliceFrom(s, insert))
  <1>1. /\ SliceFrom(s, insert) \in Seq(A) /\ Len(SliceFrom(s, insert)) = Len(s) - insert
        /\ \A j \in 1..(Len(s) - insert) : SliceFrom(s, insert)[j] = s[insert + j]
    BY SliceFromFact
  <1>2. /\ Slice(s, 0, c - 1) \in Seq(A) /\ Len(Slice(s, 0, c - 1)) = c
        /\ \A j \in 1..c : Slice(s, 0, c - 1)[j] = s[j]
    <2>1. c \in 0..Len(s)
      OBVIOUS
    <2> QED  BY <2>1, SliceFact
  <1>3. Len(s2) = Len(s) + 1 /\ Len(s) \in Nat
        /\ \A j \in 1..(Len(s) + 1) :
           s2[j] = IF j < insert + 1 THEN s[j] ELSE IF j = insert + 1 THEN k ELSE s[j - 1]
    BY DEF Entered
  <1> DEFINE u == SliceFrom(s, insert)
             w == <<k>> \o u
  <1>4. /\ w \in Seq(A) /\ Len(w) = Len(u) + 1
        /\ \A j \in 1..(Len(u) + 1) : w[j] = IF j = 1 THEN k ELSE u[j - 1]
    BY <1>1, OpenFact
  <1> HIDE DEF u, w
  <1>5. Len(u) = Len(s) - insert /\ \A j \in 1..(Len(s) - insert) : u[j] = s[insert + j]
    BY <1>1 DEF u
  <1>6. Len(w) = Len(s2) - insert
    BY <1>3, <1>4, <1>5
  <1>7. ASSUME NEW j \in 1..(Len(s2) - insert)
        PROVE  w[j] = s2[insert + j]
    <2>1. j \in 1..(Len(u) + 1) /\ insert + j \in 1..(Len(s) + 1)
      BY <1>3, <1>5
    <2>2. CASE j = 1
      <3>1. ~(insert + j < insert + 1) /\ insert + j = insert + 1
        BY <2>2
      <3> QED  BY <1>3, <1>4, <2>1, <2>2, <3>1
    <2>3. CASE j # 1
      <3>1. /\ ~(insert + j < insert + 1) /\ insert + j # insert + 1
            /\ j - 1 \in 1..(Len(s) - insert) /\ insert + (j - 1) = insert + j - 1
        BY <1>3, <1>5, <2>3
      <3>2. u[j - 1] = s[insert + j - 1]
        BY <1>5, <3>1
      <3> QED  BY <1>3, <1>4, <2>1, <2>3, <3>1, <3>2
    <2> QED  BY <2>2, <2>3
  <1>8. ASSUME NEW j \in 1..c
        PROVE  Slice(s, 0, c - 1)[j] = s2[j]
    <2>1. j < insert + 1 /\ j \in 1..(Len(s) + 1)
      OBVIOUS
    <2> QED  BY <1>2, <1>3, <2>1
  <1> QED  BY <1>2, <1>6, <1>7, <1>8 DEF Cut, w, u

\* The same for a pair that takes the place of a child.
LEMMA CutOpenPair ==
  ASSUME NEW A, NEW s \in Seq(A), NEW l \in A, NEW r \in A, NEW insert \in 0..(Len(s) - 1),
         NEW s2 \in Seq(A), Paired(s, insert + 1, l, r, s2)
  PROVE  Cut(s2, insert, insert, Slice(s, 0, insert - 1), <<l, r>> \o SliceFrom(s, insert + 1))
  <1>0. insert + 1 \in 0..Len(s) /\ insert \in 0..Len(s)
    OBVIOUS
  <1>1. /\ SliceFrom(s, insert + 1) \in Seq(A) /\ Len(SliceFrom(s, insert + 1)) = Len(s) - (insert + 1)
        /\ \A j \in 1..(Len(s) - (insert + 1)) : SliceFrom(s, insert + 1)[j] = s[insert + 1 + j]
    BY <1>0, SliceFromFact
  <1>2. /\ Slice(s, 0, insert - 1) \in Seq(A) /\ Len(Slice(s, 0, insert - 1)) = insert
        /\ \A j \in 1..insert : Slice(s, 0, insert - 1)[j] = s[j]
    BY <1>0, SliceFact
  <1>3. Len(s2) = Len(s) + 1 /\ Len(s) \in Nat
        /\ \A j \in 1..(Len(s) + 1) :
           s2[j] = IF j < insert + 1 THEN s[j] ELSE IF j = insert + 1 THEN l
                   ELSE IF j = insert + 1 + 1 THEN r ELSE s[j - 1]
    BY DEF Paired
  <1> DEFINE u == SliceFrom(s, insert + 1)
             w == <<l, r>> \o u
  <1>4. /\ w \in Seq(A) /\ Len(w) = Len(u) + 2
        /\ \A j \in 1..(Len(u) + 2) : w[j] = IF j = 1 THEN l ELSE IF j = 2 THEN r ELSE u[j - 2]
    BY <1>1, OpenPairFact
  <1> HIDE DEF u, w
  <1>5. Len(u) = Len(s) - (insert + 1) /\ \A j \in 1..(Len(s) - (insert + 1)) : u[j] = s[insert + 1 + j]
    BY <1>1 DEF u
  <1>6. Len(w) = Len(s2) - insert
    BY <1>3, <1>4, <1>5
  <1>7. ASSUME NEW j \in 1..(Len(s2) - insert)
        PROVE  w[j] = s2[insert + j]
    <2>1. j \in 1..(Len(u) + 2) /\ insert + j \in 1..(Len(s) + 1)
      BY <1>3, <1>5
    <2>2. CASE j = 1
      <3>1. ~(insert + j < insert + 1) /\ insert + j = insert + 1
        BY <2>2
      <3> QED  BY <1>3, <1>4, <2>1, <2>2, <3>1
    <2>3. CASE j = 2
      <3>1. ~(insert + j < insert + 1) /\ insert + j # insert + 1 /\ insert + j = insert + 1 + 1
        BY <2>3
      <3> QED  BY <1>3, <1>4, <2>1, <2>3, <3>1
    <2>4. CASE j # 1 /\ j # 2
      <3>1. /\ ~(insert + j < insert + 1) /\ insert + j # insert + 1 /\ insert + j # insert + 1 + 1
            /\ j - 2 \in 1..(Len(s) - (insert + 1)) /\ insert + 1 + (j - 2) = insert + j - 1
        BY <1>3, <1>5, <2>4
      <3>2. u[j - 2] = s[insert + j - 1]
        BY <1>5, <3>1
      <3> QED  BY <1>3, <1>4, <2>1, <2>4, <3>1, <3>2
    <2> QED  BY <2>2, <2>3, <2>4
  <1>8. ASSUME NEW j \in 1..insert
        PROVE  Slice(s, 0, insert - 1)[j] = s2[j]
    <2>1. j < insert + 1 /\ j \in 1..(Len(s) + 1)
      OBVIOUS
    <2> QED  BY <1>2, <1>3, <2>1
  <1> QED  BY <1>2, <1>6, <1>7, <1>8 DEF Cut, w, u

\* The cut lies before the place of the pair.
LEMMA CutBeforePair ==
  ASSUME NEW A, NEW s \in Seq(A), NEW l \in A, NEW r \in A, NEW insert \in 0..(Len(s) - 1),
         NEW s2 \in Seq(A), Paired(s, insert + 1, l, r, s2), NEW c \in 0..insert
  PROVE  Cut(s2, c, c, Slice(s, 0, c - 1), WithPair(SliceFrom(s, c), l, r, insert - c))
  <1>0. c \in 0..Len(s)
    OBVIOUS
  <1>1. /\ SliceFrom(s, c) \in Seq(A) /\ Len(SliceFrom(s, c)) = Len(s) - c
        /\ \A j \in 1..(Len(s) - c) : SliceFrom(s, c)[j] = s[c + j]
    BY <1>0, SliceFromFact
  <1>2. /\ Slice(s, 0, c - 1) \in Seq(A) /\ Len(Slice(s, 0, c - 1)) = c
        /\ \A j \in 1..c : Slice(s, 0, c - 1)[j] = s[j]
    BY <1>0, SliceFact
  <1>3. Len(s2) = Len(s) + 1 /\ Len(s) \in Nat
        /\ \A j \in 1..(Len(s) + 1) :
           s2[j] = IF j < insert + 1 THEN s[j] ELSE IF j = insert + 1 THEN l
                   ELSE IF j = insert + 1 + 1 THEN r ELSE s[j - 1]
    BY DEF Paired
  <1>4. insert - c \in 0..(Len(SliceFrom(s, c)) - 1)
    BY <1>1
  <1> DEFINE u == SliceFrom(s, c)
             w == WithPair(u, l, r, insert - c)
  <1>5. w \in Seq(A) /\ Paired(u, insert - c + 1, l, r, w)
    BY <1>1, <1>4, WithPairFact
  <1> HIDE DEF u, w
  <1>6. Len(u) = Len(s) - c /\ \A j \in 1..(Len(s) - c) : u[j] = s[c + j]
    BY <1>1 DEF u
  <1>7. /\ Len(w) = Len(u) + 1
        /\ \A j \in 1..(Len(u) + 1) :
             w[j] = IF j < insert - c + 1 THEN u[j] ELSE IF j = insert - c + 1 THEN l
                    ELSE IF j = insert - c + 1 + 1 THEN r ELSE u[j - 1]
    BY <1>5 DEF Paired
  <1>8. Len(w) = Len(s2) - c
    BY <1>3, <1>6, <1>7
  <1>9. ASSUME NEW j \in 1..(Len(s2) - c)
        PROVE  w[j] = s2[c + j]
    <2>0. j \in 1..(Len(u) + 1) /\ c + j \in 1..(Len(s) + 1)
      BY <1>3, <1>6
    <2>1. w[j] = IF j < insert - c + 1 THEN u[j] ELSE IF j = insert - c + 1 THEN l
                    ELSE IF j = insert - c + 1 + 1 THEN r ELSE u[j - 1]
      BY <1>7, <2>0
    <2>2. s2[c + j] = IF c + j < insert + 1 THEN s[c + j] ELSE IF c + j = insert + 1 THEN l
                      ELSE IF c + j = insert + 1 + 1 THEN r ELSE s[c + j - 1]
      BY <1>3, <2>0
    <2>3. CASE j < insert - c + 1
      <3>1. c + j < insert + 1 /\ j \in 1..(Len(s) - c)
        BY <1>3, <2>3
      <3> QED  BY <1>6, <2>1, <2>2, <2>3, <3>1
    <2>4. CASE j = insert - c + 1
      BY <2>1, <2>2, <2>4
    <2>5. CASE j = insert - c + 1 + 1
      BY <2>1, <2>2, <2>5
    <2>6. CASE j > insert - c + 1 + 1
      <3>1. c + j > insert + 1 + 1 /\ j - 1 \in 1..(Len(s) - c) /\ c + (j - 1) = c + j - 1
        BY <2>6, <1>3
      <3>2. u[j - 1] = s[c + j - 1]
        BY <1>6, <3>1
      <3> QED  BY <2>1, <2>2, <2>6, <3>1, <3>2
    <2>7. j < insert - c + 1 \/ j = insert - c + 1 \/ j = insert - c + 1 + 1 \/ j > insert - c + 1 + 1
      OBVIOUS
    <2> QED  BY <2>3, <2>4, <2>5, <2>6, <2>7
  <1>10. ASSUME NEW j \in 1..c
         PROVE  Slice(s, 0, c - 1)[j] = s2[j]
    <2>1. j < insert + 1 /\ j \in 1..(Len(s) + 1)
      OBVIOUS
    <2> QED  BY <1>2, <1>3, <2>1
  <1> QED  BY <1>2, <1>8, <1>9, <1>10 DEF Cut, w, u

\* The cut lies behind the place of the new key.
LEMMA CutBehind ==
  ASSUME NEW A, NEW s \in Seq(A), NEW k \in A, NEW insert \in 0..Len(s), NEW s2 \in Seq(A),
         Entered(s, insert + 1, k, s2), NEW c \in (insert + 1)..(Len(s) + 1)
  PROVE  Cut(s2, c, c, WithKey(Slice(s, 0, c - 2), k, insert), SliceFrom(s, c - 1))
  <1>0. c - 1 \in 0..Len(s) /\ c - 2 = (c - 1) - 1
    OBVIOUS
  <1>1. /\ SliceFrom(s, c - 1) \in Seq(A) /\ Len(SliceFrom(s, c - 1)) = Len(s) - (c - 1)
        /\ \A j \in 1..(Len(s) - (c - 1)) : SliceFrom(s, c - 1)[j] = s[c - 1 + j]
    BY <1>0, SliceFromFact
  <1>2. /\ Slice(s, 0, c - 2) \in Seq(A) /\ Len(Slice(s, 0, c - 2)) = c - 1
        /\ \A j \in 1..(c - 1) : Slice(s, 0, c - 2)[j] = s[j]
    BY <1>0, SliceFact, ZenonT(60)
  <1>3. Len(s2) = Len(s) + 1 /\ Len(s) \in Nat
        /\ \A j \in 1..(Len(s) + 1) :
           s2[j] = IF j < insert + 1 THEN s[j] ELSE IF j = insert + 1 THEN k ELSE s[j - 1]
    BY DEF Entered
  <1> DEFINE u == Slice(s, 0, c - 2)
             w == WithKey(u, k, insert)
             x == SliceFrom(s, c - 1)
  <1>4. insert \in 0..Len(u)
    BY <1>2
  <1>5. w \in Seq(A) /\ Entered(u, insert + 1, k, w)
    BY <1>2, <1>4, WithKeyFact
  <1> HIDE DEF u, w, x
  <1>6. Len(u) = c - 1 /\ \A j \in 1..(c - 1) : u[j] = s[j]
    BY <1>2 DEF u
  <1>7. /\ Len(w) = Len(u) + 1
        /\ \A j \in 1..(Len(u) + 1) :
             w[j] = IF j < insert + 1 THEN u[j] ELSE IF j = insert + 1 THEN k ELSE u[j - 1]
    BY <1>5 DEF Entered
  <1>8. Len(w) = c
    BY <1>6, <1>7
  <1>9. ASSUME NEW j \in 1..c
        PROVE  w[j] = s2[j]
    <2>1. j \in 1..(Len(u) + 1) /\ j \in 1..(Len(s) + 1)
      BY <1>6, <1>3
    <2>2. CASE j < insert + 1
      <3>1. j \in 1..(c - 1)
        BY <2>2
      <3> QED  BY <1>3, <1>6, <1>7, <2>1, <2>2, <3>1
    <2>3. CASE j = insert + 1
      BY <1>3, <1>7, <2>1, <2>3
    <2>4. CASE j > insert + 1
      <3>1. j - 1 \in 1..(c - 1) /\ ~(j < insert + 1) /\ j # insert + 1
        BY <2>4
      <3> QED  BY <1>3, <1>6, <1>7, <2>1, <3>1
    <2>5. j < insert + 1 \/ j = insert + 1 \/ j > insert + 1
      OBVIOUS
    <2> QED  BY <2>2, <2>3, <2>4, <2>5
  <1>10. Len(x) = Len(s2) - c
    BY <1>1, <1>3 DEF x
  <1>11. ASSUME NEW j \in 1..(Len(s2) - c)
         PROVE  x[j] = s2[c + j]
    <2>1. /\ c + j \in 1..(Len(s) + 1) /\ ~(c + j < insert + 1) /\ c + j # insert + 1
          /\ j \in 1..(Len(s) - (c - 1)) /\ c - 1 + j = c + j - 1
      BY <1>3
    <2>2. x[j] = s[c + j - 1]
      BY <1>1, <2>1 DEF x
    <2> QED  BY <1>3, <2>1, <2>2
  <1> QED  BY <1>8, <1>9, <1>10, <1>11 DEF Cut, w, u, x
=============================================================================
