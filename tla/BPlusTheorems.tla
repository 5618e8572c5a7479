--------------------------- MODULE BPlusTheorems ---------------------------
(***************************************************************************)
(* The theorems of BPlusTree, for every order, capacity, key and position  *)
(* and any sequence of puts and deletes.                                   *)
(*                                                                         *)
(* Lacking says that a node has lost something and the rest is a tree with *)
(* nodes full enough; a step of the climb of bplus_tree_delete finds it so *)
(* and either has nothing left to do (Settled) or finds the parent lacking *)
(* (Left), one level higher (Lowering).  The climb ends at the root at the *)
(* latest, so DeleteKeeps says of a whole delete what PutKeeps says of a   *)
(* put.  AlwaysTree rests on both, and all properties rest on AlwaysTree.  *)
(*                                                                         *)
(* Fitting is the one hypothesis about the state.  FewKeysFit discharges   *)
(* it wherever there are too few keys to outgrow the list heads.           *)
(***************************************************************************)
EXTENDS BPlusDeleteProofs

-----------------------------------------------------------------------------
\* A node loses an entry or a child, and what that leaves.

\* Node n of t is to lose entry, or key and child, number x; w is t after that.
Lacking(t, w, h, R, n, x, o, e) ==
  /\ Sound(t, o, e) /\ TreeInv(w, h, R) /\ Listed(w) /\ w.level < MaxLevel
  /\ n \in N(w)
  /\ IF is_leaf(t, n) THEN Thinner(t, w, n, x) ELSE Gap(t, w, n, x)

\* The capacity of a node, and what it must hold below the root.
Cap(t, n) == IF is_leaf(t, n) THEN t.entries ELSE t.order

\* The bounds of the code fit together.
LEMMA Bounds ==
  ASSUME NEW m \in Nat \ {0}
  PROVE  /\ Least(m) \in Nat \ {0} /\ Least(m) <= m /\ Least(m) = Half(m)
         /\ Least(m) >= m \div 2 /\ 2 * Least(m) <= m + 1
         /\ m >= 3 => Least(m) >= 2
         /\ m \div 2 \in Nat
  BY DEF Least, Half

\* What is known of the tree before and after.
LEMMA LackingFacts ==
  ASSUME NEW t, NEW w, NEW h, NEW R, NEW n, NEW x, NEW o, NEW e, Lacking(t, w, h, R, n, x, o, e)
  PROVE  /\ Frame(t, w) /\ w.link = t.link /\ N(w) = N(t) /\ Formed(w)
         /\ \A m \in N(w) \ {n} : Same(w, t, m) /\ Same(t, w, m)
         /\ \A m \in N(w) : P(t, m) = P(w, m)
         /\ \A m \in N(w) : P(w, m) # n => X(t, m) = X(w, m)
         /\ is_leaf(t, n) <=> is_leaf(w, n)
         /\ size(t, n) = size(w, n) + 1
  <1>1. CASE is_leaf(t, n)
    <2>1. Thinner(t, w, n, x)
      BY <1>1 DEF Lacking
    <2>2. /\ Frame(t, w) /\ w.link = t.link /\ N(w) = N(t) /\ Formed(w) /\ is_leaf(w, n)
          /\ Lost(K(t, n), x, K(w, n))
          /\ \A m \in N(t) \ {n} : Same(t, w, m)
          /\ \A m \in N(t) : P(w, m) = P(t, m) /\ X(w, m) = X(t, m)
      BY <2>1, ThinnerFacts
    <2>3. \A m \in N(w) \ {n} : Same(w, t, m)
      BY <2>2, SameSym
    <2>4. size(t, n) = size(w, n) + 1
      <3>1. Len(K(w, n)) = Len(K(t, n)) - 1
        BY <2>2 DEF Lost
      <3>2. K(t, n) \in Seq(Int)
        BY <2>1, FormedFields DEF Thinner, Leafs
      <3>3. Len(K(t, n)) = Len(K(w, n)) + 1
        BY <3>1, <3>2
      <3> QED  BY <1>1, <2>2, <3>3 DEF size, entries, K
    <2> QED  BY <1>1, <2>2, <2>3, <2>4
  <1>2. CASE ~is_leaf(t, n)
    <2>1. Gap(t, w, n, x) /\ TreeInv(w, h, R)
      BY <1>2 DEF Lacking
    <2>2. Loose(t, n, x) /\ PairOut(t, w, n, x)
      BY <2>1 DEF Gap
    <2>3. /\ Frame(t, w) /\ w.link = t.link /\ N(w) = N(t) /\ Formed(w) /\ ~is_leaf(w, n)
          /\ Lost(S(t, n), x + 1, S(w, n))
          /\ \A m \in N(t) \ {n} : Same(t, w, m)
          /\ \A m \in N(t) : P(w, m) = P(t, m)
      BY <2>2 DEF PairOut
    <2>4. \A m \in N(w) \ {n} : Same(w, t, m)
      BY <2>3, SameSym
    <2>5. \A m \in N(w) : P(w, m) # n => X(t, m) = X(w, m)
      BY <2>1, CloseGap DEF Close
    <2>6. size(t, n) = size(w, n) + 1
      <3>1. Len(S(w, n)) = Len(S(t, n)) - 1
        BY <2>3 DEF Lost
      <3>2. S(t, n) \in Seq(Int)
        BY <2>2 DEF Loose
      <3>3. Len(S(t, n)) = Len(S(w, n)) + 1
        BY <3>1, <3>2
      <3> QED  BY <1>2, <2>3, <3>3 DEF size, children, S
    <2> QED  BY <1>2, <2>3, <2>4, <2>5, <2>6
  <1> QED  BY <1>1, <1>2

\* What a node holds by the name of the code.
LEMMA SizeFacts ==
  ASSUME NEW w, Formed(w), NEW n \in N(w)
  PROVE  /\ size(w, n) \in Nat
         /\ is_leaf(w, n) => size(w, n) = Len(K(w, n))
         /\ ~is_leaf(w, n) => size(w, n) = Len(S(w, n))
  <1>1. K(w, n) \in Seq(Int) /\ (~is_leaf(w, n) => S(w, n) \in Seq(N(w)))
    BY FormedFields DEF Inner
  <1> QED  BY <1>1 DEF size, entries, children, K, S

\* The same for a node that holds the same.
LEMMA SameSize ==
  ASSUME NEW w, NEW t, NEW m, Same(w, t, m)
  PROVE  size(t, m) = size(w, m) /\ (is_leaf(t, m) <=> is_leaf(w, m))
  BY DEF Same, size, entries, children, K, S

\* Bounds by the name of the code.
LEMMA FullSize ==
  ASSUME NEW u, NEW n,
         IF is_leaf(u, n) THEN size(u, n) \in 1..u.entries /\ size(u, n) >= Half(u.entries)
         ELSE size(u, n) \in 2..u.order /\ size(u, n) >= u.order \div 2
  PROVE  FullFill(u, n)
  BY DEF FullFill, size, entries, children, K, S
\* A node that is full enough, by its size.
LEMMA SizeFull ==
  ASSUME NEW u, NEW n, FullFill(u, n)
  PROVE  IF is_leaf(u, n) THEN size(u, n) \in 1..u.entries /\ size(u, n) >= Half(u.entries)
         ELSE size(u, n) \in 2..u.order /\ size(u, n) >= u.order \div 2
  BY DEF FullFill, size, entries, children, K, S

\* The other nodes hold what they must, and so did this one.
Others(t, w, n, o, e) ==
  /\ w.ok = TRUE /\ w.order = o /\ w.entries = e /\ t.order = o /\ t.entries = e
  /\ o \in Nat \ 0..2 /\ e \in Nat \ {0}
  /\ w.root = t.root
  /\ \A m \in N(w) \ {n} : Fill(w, m)
  /\ Fill(t, n) /\ n \in N(w)

\* That is so in the situation above.
LEMMA LackingFill ==
  ASSUME NEW t, NEW w, NEW h, NEW R, NEW n, NEW x, NEW o, NEW e, Lacking(t, w, h, R, n, x, o, e)
  PROVE  Others(t, w, n, o, e)
  <1>1. /\ t.ok = TRUE /\ t.order = o /\ t.entries = e /\ o \in Nat \ 0..2 /\ e \in Nat \ {0}
        /\ \A m \in N(t) : Fill(t, m)
    BY DEF Lacking, Sound
  <1>2. Frame(t, w) /\ N(w) = N(t) /\ \A m \in N(w) \ {n} : Same(t, w, m)
    BY LackingFacts
  <1>3. w.ok = TRUE /\ w.order = o /\ w.entries = e /\ w.root = t.root
    BY <1>1, <1>2 DEF Frame
  <1>4. ASSUME NEW m \in N(w) \ {n} PROVE Fill(w, m)
    <2>1. Same(t, w, m) /\ Fill(t, m)
      BY <1>1, <1>2
    <2> QED  BY <1>1, <1>3, <2>1, SameFill
  <1>5. n \in N(w)
    BY DEF Lacking
  <1> QED  BY <1>1, <1>2, <1>3, <1>4, <1>5 DEF Others

\* n and m are the two neighbours, in one order or the other.
Siblings(w, p, a, l, r, sep, n, m) ==
  Neighbours(w, p, a, l, r, sep) /\ ((l = n /\ r = m) \/ (l = m /\ r = n))

\* Both held what they must before n lost something.
LEMMA SiblingSizes ==
  ASSUME NEW t, NEW w, NEW h, NEW R, NEW n, NEW x, NEW o, NEW e, Lacking(t, w, h, R, n, x, o, e),
         NEW p, NEW a, NEW l, NEW r, NEW sep, NEW m, Siblings(w, p, a, l, r, sep, n, m)
  PROVE  /\ is_leaf(w, m) <=> is_leaf(w, n)
         /\ size(t, n) \in Nat /\ size(w, m) \in Nat /\ size(w, n) = size(t, n) - 1
         /\ size(w, n) \in Nat /\ size(t, m) = size(w, m)
         /\ is_leaf(w, n) => /\ size(t, n) \in 1..e /\ size(w, m) \in 1..e
                             /\ size(t, n) >= Half(e) /\ size(w, m) >= Half(e)
         /\ ~is_leaf(w, n) => /\ size(t, n) \in 2..o /\ size(w, m) \in 2..o
                              /\ size(t, n) >= o \div 2 /\ size(w, m) >= o \div 2
         /\ Cap(t, n) = IF is_leaf(w, n) THEN e ELSE o
  <1>1. TreeInv(w, h, R) /\ Neighbours(w, p, a, l, r, sep) /\ ((l = n /\ r = m) \/ (l = m /\ r = n))
    BY DEF Siblings, Lacking
  <1>2. /\ Formed(w) /\ l # w.root /\ r # w.root /\ (is_leaf(w, l) <=> is_leaf(w, r))
    BY <1>1, NeighbourFacts
  <1>3. l \in N(w) /\ r \in N(w) /\ l # r
    BY <1>1 DEF Neighbours
  <1>4. n \in N(w) /\ m \in N(w) /\ n # m /\ n # w.root /\ m # w.root /\ (is_leaf(w, m) <=> is_leaf(w, n))
    BY <1>1, <1>2, <1>3
  <1>5. /\ w.order = o /\ w.entries = e /\ t.order = o /\ t.entries = e /\ w.root = t.root
        /\ Fill(w, m) /\ Fill(t, n)
    <2>1. Others(t, w, n, o, e)
      BY LackingFill
    <2> QED  BY <1>4, <2>1 DEF Others
  <1>6. FullFill(w, m) /\ FullFill(t, n)
    BY <1>4, <1>5 DEF Fill
  <1>7. (is_leaf(t, n) <=> is_leaf(w, n)) /\ size(t, n) = size(w, n) + 1 /\ Same(w, t, m)
    BY <1>4, LackingFacts
  <1>8. size(w, n) \in Nat /\ size(w, m) \in Nat /\ size(t, m) = size(w, m)
    BY <1>2, <1>4, <1>7, SizeFacts, SameSize
  <1>9. IF is_leaf(w, m) THEN size(w, m) \in 1..e /\ size(w, m) >= Half(e)
        ELSE size(w, m) \in 2..o /\ size(w, m) >= o \div 2
    BY <1>5, <1>6, SizeFull
  <1>10. IF is_leaf(t, n) THEN size(t, n) \in 1..e /\ size(t, n) >= Half(e)
         ELSE size(t, n) \in 2..o /\ size(t, n) >= o \div 2
    BY <1>5, <1>6, SizeFull
  <1>11. Cap(t, n) = IF is_leaf(w, n) THEN e ELSE o
    BY <1>5, <1>7 DEF Cap
  <1>12. size(t, n) \in Nat /\ size(w, n) = size(t, n) - 1
    BY <1>7, <1>8
  <1> QED  BY <1>4, <1>7, <1>8, <1>9, <1>10, <1>11, <1>12

\* Merged, they hold what they must, and there is one less for the parent.
LEMMA MergeDone ==
  ASSUME NEW t, NEW w, NEW h, NEW R, NEW n, NEW x, NEW o, NEW e, Lacking(t, w, h, R, n, x, o, e),
         NEW p, NEW a, NEW l, NEW r, NEW sep, NEW m, Siblings(w, p, a, l, r, sep, n, m),
         size(t, n) <= Least(Cap(t, n)), size(w, m) <= Least(Cap(t, n)),
         NEW u, NEW c, Merging(w, u, p, a, l, r, c, sep),
         is_leaf(u, l) <=> is_leaf(w, l), size(u, l) = size(w, l) + size(w, r)
  PROVE  Lowering(RemoveFrom(u, p, a - 1), o, e, Filed(w), w.level, h[n] + 1)
  <1>1. TreeInv(w, h, R) /\ Neighbours(w, p, a, l, r, sep) /\ ((l = n /\ r = m) \/ (l = m /\ r = n))
        /\ Listed(w) /\ w.level < MaxLevel
    BY DEF Siblings, Lacking
  <1>2. h[l] = h[n] /\ (is_leaf(w, l) <=> is_leaf(w, r))
    <2>1. h[l] = h[p] - 1 /\ h[r] = h[p] - 1 /\ (is_leaf(w, l) <=> is_leaf(w, r))
      BY <1>1, NeighbourFacts
    <2> QED  BY <1>1, <2>1
  <1>3. /\ w.ok = TRUE /\ w.order = o /\ w.entries = e /\ o \in Nat \ 0..2 /\ e \in Nat \ {0}
        /\ \A k \in N(w) \ {n} : Fill(w, k)
    <2>1. Others(t, w, n, o, e)
      BY LackingFill
    <2> QED  BY <2>1 DEF Others
  <1>4. Short(w, h, R, l, r, o, e)
    <2>1. \A k \in N(w) \ {l, r} : Fill(w, k)
      BY <1>1, <1>3
    <2> QED  BY <1>1, <1>3, <2>1 DEF Short
  <1>5. /\ size(t, n) \in Nat /\ size(w, m) \in Nat /\ size(w, n) = size(t, n) - 1
        /\ is_leaf(w, n) => /\ size(t, n) \in 1..e /\ size(w, m) \in 1..e
                            /\ size(t, n) >= Half(e) /\ size(w, m) >= Half(e)
        /\ ~is_leaf(w, n) => /\ size(t, n) \in 2..o /\ size(w, m) \in 2..o
                             /\ size(t, n) >= o \div 2 /\ size(w, m) >= o \div 2
        /\ Cap(t, n) = IF is_leaf(w, n) THEN e ELSE o
    BY SiblingSizes
  <1> DEFINE sn == size(t, n)
             sm == size(w, m)
             su == size(u, l)
             wn == size(w, n)
  <1>6. su = (sn - 1) + sm
    <2>1. su = wn + sm \/ su = sm + wn
      BY <1>1
    <2>2. wn = sn - 1 /\ sn \in Nat /\ sm \in Nat
      BY <1>5
    <2> HIDE DEF sn, sm, su, wn
    <2> QED  BY <2>1, <2>2
  <1>7. (is_leaf(u, l) <=> is_leaf(w, n)) /\ u.order = o /\ u.entries = e
    <2>1. Frame(w, u)
      BY DEF Merging
    <2> QED  BY <1>1, <1>2, <1>3, <2>1 DEF Frame
  <1>8. FullFill(u, l)
    <2>1. CASE is_leaf(w, n)
      <3>1. /\ sn \in 1..e /\ sm \in 1..e /\ sm >= Half(e) /\ sn <= Least(e) /\ sm <= Least(e)
        BY <1>5, <2>1
      <3>2. Least(e) \in Nat /\ 2 * Least(e) <= e + 1 /\ Half(e) = Least(e) /\ e \in Nat
        BY <1>3, Bounds
      <3> HIDE DEF sn, sm, su
      <3>3. su \in 1..e /\ su >= Half(e)
        BY <1>6, <3>1, <3>2
      <3> QED  BY <1>7, <2>1, <3>3, FullSize DEF su
    <2>2. CASE ~is_leaf(w, n)
      <3>1. /\ sn \in 2..o /\ sm \in 2..o /\ sm >= o \div 2 /\ sn <= Least(o) /\ sm <= Least(o)
        BY <1>5, <2>2
      <3>2. Least(o) \in Nat /\ 2 * Least(o) <= o + 1 /\ o \in Nat /\ o \div 2 \in Nat
        <4>1. o \in Nat \ {0}
          BY <1>3
        <4> QED  BY <4>1, Bounds
      <3> HIDE DEF sn, sm, su
      <3>3. su \in 2..o /\ su >= o \div 2
        BY <1>6, <3>1, <3>2
      <3> QED  BY <1>7, <2>2, <3>3, FullSize DEF su
    <2> QED  BY <2>1, <2>2
  <1>9. Lowering(RemoveFrom(u, p, a - 1), o, e, Filed(w), w.level, h[l] + 1)
    BY <1>4, <1>8, MergingLowers
  <1> QED  BY <1>2, <1>9

\* After a shift they both hold what they must.
LEMMA ShiftDone ==
  ASSUME NEW t, NEW w, NEW h, NEW R, NEW n, NEW x, NEW o, NEW e, Lacking(t, w, h, R, n, x, o, e),
         NEW p, NEW a, NEW l, NEW r, NEW sep, NEW m, Siblings(w, p, a, l, r, sep, n, m),
         size(w, m) > Least(Cap(t, n)),
         NEW u, ShiftsTo(w, h, R, u, p, a, l, r, sep),
         is_leaf(u, n) <=> is_leaf(w, n), is_leaf(u, m) <=> is_leaf(w, n),
         size(u, n) = size(w, n) + 1, size(u, m) = size(w, m) - 1
  PROVE  Settled(Removed(u), o, e, Filed(w))
  <1>1. TreeInv(w, h, R) /\ Neighbours(w, p, a, l, r, sep) /\ ((l = n /\ r = m) \/ (l = m /\ r = n))
        /\ Listed(w) /\ w.level < MaxLevel
    BY DEF Siblings, Lacking
  <1>3. /\ w.ok = TRUE /\ w.order = o /\ w.entries = e /\ o \in Nat \ 0..2 /\ e \in Nat \ {0}
        /\ \A k \in N(w) \ {n} : Fill(w, k)
    <2>1. Others(t, w, n, o, e)
      BY LackingFill
    <2> QED  BY <2>1 DEF Others
  <1>4. Short(w, h, R, l, r, o, e)
    <2>1. \A k \in N(w) \ {l, r} : Fill(w, k)
      BY <1>1, <1>3
    <2> QED  BY <1>1, <1>3, <2>1 DEF Short
  <1>5. /\ size(t, n) \in Nat /\ size(w, m) \in Nat /\ size(w, n) = size(t, n) - 1
        /\ is_leaf(w, n) => /\ size(t, n) \in 1..e /\ size(w, m) \in 1..e
                            /\ size(t, n) >= Half(e) /\ size(w, m) >= Half(e)
        /\ ~is_leaf(w, n) => /\ size(t, n) \in 2..o /\ size(w, m) \in 2..o
                             /\ size(t, n) >= o \div 2 /\ size(w, m) >= o \div 2
        /\ Cap(t, n) = IF is_leaf(w, n) THEN e ELSE o
    BY SiblingSizes
  <1>6. PICK u0, v, c, c2, sep2 : Shift(w, h, R, u0, v, u, p, a, l, r, c, sep, c2, sep2)
    BY DEF ShiftsTo
  <1>7. u.order = o /\ u.entries = e
    <2>1. Frame(w, u)
      BY <1>6 DEF Shift, Shifting
    <2> QED  BY <1>3, <2>1 DEF Frame
  <1> DEFINE sn == size(t, n)
             sm == size(w, m)
             un == size(u, n)
             um == size(u, m)
             wn == size(w, n)
  <1>8. un = sn /\ um = sm - 1
    <2>1. un = wn + 1 /\ wn = sn - 1 /\ sn \in Nat /\ um = sm - 1
      BY <1>5
    <2> HIDE DEF un, wn, sn, um, sm
    <2> QED  BY <2>1
  <1>9. FullFill(u, n) /\ FullFill(u, m)
    <2>1. CASE is_leaf(w, n)
      <3>1. /\ sn \in 1..e /\ sm \in 1..e /\ sn >= Half(e) /\ sm > Least(e)
        BY <1>5, <2>1
      <3>2. Least(e) \in Nat \ {0} /\ Half(e) = Least(e) /\ e \in Nat
        BY <1>3, Bounds
      <3> HIDE DEF sn, sm, un, um
      <3>3. un \in 1..e /\ un >= Half(e) /\ um \in 1..e /\ um >= Half(e)
        BY <1>8, <3>1, <3>2
      <3> QED  BY <1>7, <2>1, <3>3, FullSize DEF un, um
    <2>2. CASE ~is_leaf(w, n)
      <3>1. /\ sn \in 2..o /\ sm \in 2..o /\ sn >= o \div 2 /\ sm > Least(o)
        BY <1>5, <2>2
      <3>2. Least(o) \in Nat /\ Least(o) >= 2 /\ Least(o) >= o \div 2 /\ o \in Nat /\ o \div 2 \in Nat
        <4>1. o \in Nat \ {0} /\ o >= 3
          BY <1>3
        <4> QED  BY <4>1, Bounds
      <3> HIDE DEF sn, sm, un, um
      <3>3. un \in 2..o /\ un >= o \div 2 /\ um \in 2..o /\ um >= o \div 2
        BY <1>8, <3>1, <3>2
      <3> QED  BY <1>7, <2>2, <3>3, FullSize DEF un, um
    <2> QED  BY <2>1, <2>2
  <1>10. FullFill(u, l) /\ FullFill(u, r)
    BY <1>1, <1>9
  <1> QED  BY <1>4, <1>6, <1>10, ShiftEnds

\* Where n is among the children of its parent.
Place(t, w, n, p, b) ==
  /\ P(t, n) = p /\ p \in Inner(w) /\ p # n /\ n \in N(w)
  /\ X(t, n) = b - 2 /\ b \in Nat /\ b >= 1 /\ b <= Len(S(w, p)) /\ S(w, p)[b] = n
  /\ S(w, p) \in Seq(N(w)) /\ Len(S(w, p)) = Len(K(w, p)) + 1 /\ K(w, p) \in Seq(Int)
  /\ S(t, p) = S(w, p)

\* A node with a parent is a child of it, before and after.
LEMMA LackingPlace ==
  ASSUME NEW t, NEW w, NEW h, NEW R, NEW n, NEW x, NEW o, NEW e, Lacking(t, w, h, R, n, x, o, e),
         P(t, n) # NULL
  PROVE  \E b : Place(t, w, n, P(t, n), b)
  <1>1. TreeInv(w, h, R) /\ n \in N(w)
    BY DEF Lacking
  <1>2. /\ \A m \in N(w) \ {n} : Same(w, t, m)
        /\ \A m \in N(w) : P(t, m) = P(w, m)
        /\ \A m \in N(w) : P(w, m) # n => X(t, m) = X(w, m)
    BY LackingFacts
  <1>3. P(w, n) # NULL /\ P(t, n) = P(w, n)
    BY <1>1, <1>2
  <1>4. Owned(w, n)
    BY <1>1, <1>3 DEF TreeInv, Parents
  <1> DEFINE p == P(w, n)
             b == X(w, n) + 2
  <1>5. p \in Inner(w) /\ b \in 1..Len(S(w, p)) /\ S(w, p)[b] = n
    BY <1>4 DEF Owned
  <1>6. Formed(w) /\ X(w, n) \in Int
    BY <1>1, FormedFields DEF TreeInv
  <1>7. b - 2 = X(w, n) /\ b \in Int
    BY <1>6
  <1> HIDE DEF b, p
  <1>8. n # p
    BY <1>1, <1>5, ChildFacts
  <1>9. S(w, p) \in Seq(N(w)) /\ Len(S(w, p)) = Len(K(w, p)) + 1 /\ K(w, p) \in Seq(Int)
    <2>1. p \in N(w)
      BY <1>5 DEF Inner
    <2> QED  BY <1>5, <1>6, <2>1, FormedFields
  <1>10. S(t, p) = S(w, p)
    <2>1. p \in N(w) \ {n} /\ ~is_leaf(w, p)
      BY <1>5, <1>8 DEF Inner
    <2> QED  BY <1>2, <2>1 DEF Same
  <1>11. b \in Nat /\ b >= 1 /\ b <= Len(S(w, p))
    BY <1>5, <1>9
  <1>12. X(t, n) = b - 2
    <2>1. P(w, n) # n
      BY <1>8 DEF p
    <2> QED  BY <1>1, <1>2, <1>7, <2>1
  <1>13. P(t, n) = p
    BY <1>3 DEF p
  <1>14. Place(t, w, n, p, b)
    BY <1>1, <1>5, <1>8, <1>9, <1>10, <1>11, <1>12, <1>13 DEF Place
  <1> QED  BY <1>13, <1>14

\* Children that follow each other are neighbours.
LEMMA ChildNeighbours ==
  ASSUME NEW w, NEW h, NEW R, TreeInv(w, h, R), NEW p \in Inner(w), NEW a \in Nat, a >= 1,
         a + 1 <= Len(S(w, p)), Listed(w)
  PROVE  /\ Neighbours(w, p, a, S(w, p)[a], S(w, p)[a + 1], K(w, p)[a])
         /\ w.link[S(w, p)[a]].next = S(w, p)[a + 1] /\ w.link[S(w, p)[a + 1]].prev = S(w, p)[a]
  <1>1. p \in N(w) /\ K(w, p) \in Seq(Int) /\ S(w, p) \in Seq(N(w)) /\ Len(S(w, p)) = Len(K(w, p)) + 1
    BY FormedFields DEF TreeInv, Inner
  <1>2. a \in 1..Len(S(w, p)) /\ a + 1 \in 1..Len(S(w, p)) /\ a \in 1..(Len(S(w, p)) - 1)
        /\ a # a + 1 /\ a \in 1..Len(K(w, p))
    <2> DEFINE ns == Len(S(w, p))
               nk == Len(K(w, p))
    <2>1. nk \in Nat /\ ns = nk + 1 /\ a + 1 <= ns
      BY <1>1
    <2> HIDE DEF ns, nk
    <2>2. a \in 1..ns /\ a + 1 \in 1..ns /\ a \in 1..(ns - 1) /\ a # a + 1 /\ a \in 1..nk
      BY <2>1
    <2> QED  BY <2>2 DEF ns, nk
  <1> DEFINE l == S(w, p)[a]
             r == S(w, p)[a + 1]
  <1>3. l \in N(w) /\ l # p
    BY <1>2, ChildFacts
  <1>4. r \in N(w) /\ r # p
    <2> DEFINE b == a + 1
    <2>1. b \in 1..Len(S(w, p))
      BY <1>2
    <2> HIDE DEF b
    <2>2. S(w, p)[b] \in N(w) /\ S(w, p)[b] # p
      BY <2>1, ChildFacts
    <2> QED  BY <2>2 DEF b
  <1>5. l # r
    <2> DEFINE b == a + 1
    <2>1. b \in 1..Len(S(w, p)) /\ a # b
      BY <1>2
    <2> HIDE DEF b
    <2>2. S(w, p)[a] # S(w, p)[b]
      BY <1>2, <2>1, ChildOnce
    <2> QED  BY <2>2 DEF b
  <1>6. w.link[l].next = r
    BY <1>2 DEF Listed, Strung, Nx
  <1>7. w.link[r].prev = l
    <2>1. l \in DOMAIN w.link
      BY <1>3 DEF Listed
    <2> QED  BY <1>6, <2>1 DEF Listed, Ring
  <1> QED  BY <1>2, <1>3, <1>4, <1>5, <1>6, <1>7 DEF Neighbours

\* The left neighbour of the list is the sibling on the left.
LEMMA LeftSibling ==
  ASSUME NEW t, NEW w, NEW h, NEW R, NEW n, NEW x, NEW o, NEW e, Lacking(t, w, h, R, n, x, o, e),
         P(t, n) # NULL, sibling_is_left(t, n)
  PROVE  \E a, sep : /\ Siblings(w, P(t, n), a, prev_entry(t, n), n, sep, n, prev_entry(t, n))
                     /\ X(t, n) = a - 1
  <1>1. PICK b : Place(t, w, n, P(t, n), b)
    BY LackingPlace
  <1> DEFINE p == P(t, n)
             a == b - 1
  <1>2. b \in Nat /\ b >= 1 /\ b <= Len(S(w, p)) /\ X(t, n) = b - 2 /\ p \in Inner(w) /\ S(w, p)[b] = n
    BY <1>1 DEF Place
  <1>3. X(t, n) # -1
    BY DEF sibling_is_left, X
  <1>4. a \in Nat /\ a >= 1 /\ a + 1 = b /\ X(t, n) = a - 1
    BY <1>2, <1>3
  <1>5. TreeInv(w, h, R) /\ Listed(w) /\ w.link = t.link
    BY LackingFacts DEF Lacking
  <1> HIDE DEF a, p
  <1>6. a + 1 <= Len(S(w, p)) /\ S(w, p)[a + 1] = n
    BY <1>2, <1>4
  <1>7. /\ Neighbours(w, p, a, S(w, p)[a], S(w, p)[a + 1], K(w, p)[a])
        /\ w.link[S(w, p)[a + 1]].prev = S(w, p)[a]
    BY <1>2, <1>4, <1>5, <1>6, ChildNeighbours
  <1>8. prev_entry(t, n) = S(w, p)[a]
    BY <1>5, <1>6, <1>7 DEF prev_entry
  <1>9. Siblings(w, p, a, prev_entry(t, n), n, K(w, p)[a], n, prev_entry(t, n))
    BY <1>6, <1>7, <1>8 DEF Siblings
  <1> QED  BY <1>4, <1>9 DEF p

\* The right neighbour of the list is the sibling on the right.
LEMMA RightSibling ==
  ASSUME NEW t, NEW w, NEW h, NEW R, NEW n, NEW x, NEW o, NEW e, Lacking(t, w, h, R, n, x, o, e),
         P(t, n) # NULL, ~sibling_is_left(t, n)
  PROVE  \E a, sep : /\ Siblings(w, P(t, n), a, n, next_entry(t, n), sep, n, next_entry(t, n))
                     /\ X(t, n) + 1 = a - 1
  <1>1. PICK b : Place(t, w, n, P(t, n), b)
    BY LackingPlace
  <1> DEFINE p == P(t, n)
             a == b
  <1>2. /\ b \in Nat /\ b >= 1 /\ b <= Len(S(w, p)) /\ X(t, n) = b - 2 /\ p \in Inner(w) /\ S(w, p)[b] = n
        /\ p # n /\ S(t, p) = S(w, p) /\ S(w, p) \in Seq(N(w))
    BY <1>1 DEF Place
  <1>3. X(t, n) = -1 \/ X(t, n) # Len(S(t, p)) - 2
    BY DEF sibling_is_left, X, P, S, children
  <1>4. Len(S(w, p)) >= 2
    <2>1. p \in N(w) \ {n} /\ ~is_leaf(w, p)
      BY <1>2 DEF Inner
    <2>2. Others(t, w, n, o, e)
      BY LackingFill
    <2>3. Fill(w, p)
      BY <2>1, <2>2 DEF Others
    <2>4. w.order \in Nat
      BY <2>2 DEF Others
    <2> HIDE DEF p
    <2> QED  BY <2>1, <2>3, <2>4 DEF Fill, FullFill
  <1>5. a + 1 <= Len(S(w, p)) /\ X(t, n) + 1 = a - 1
    <2> DEFINE ns == Len(S(w, p))
    <2>1. ns \in Nat /\ ns >= 2 /\ b \in Nat /\ b <= ns /\ X(t, n) = b - 2
      BY <1>2, <1>4
    <2>2. X(t, n) = -1 \/ X(t, n) # ns - 2
      BY <1>2, <1>3
    <2> HIDE DEF ns
    <2>3. b + 1 <= ns /\ X(t, n) + 1 = b - 1
      BY <2>1, <2>2
    <2> QED  BY <2>3 DEF ns
  <1>6. TreeInv(w, h, R) /\ Listed(w) /\ w.link = t.link
    BY LackingFacts DEF Lacking
  <1> HIDE DEF p
  <1>7. /\ Neighbours(w, p, a, S(w, p)[a], S(w, p)[a + 1], K(w, p)[a])
        /\ w.link[S(w, p)[a]].next = S(w, p)[a + 1]
    BY <1>2, <1>5, <1>6, ChildNeighbours
  <1>8. next_entry(t, n) = S(w, p)[a + 1]
    BY <1>2, <1>6, <1>7 DEF next_entry
  <1>9. Siblings(w, p, a, n, next_entry(t, n), K(w, p)[a], n, next_entry(t, n))
    <2>1. S(w, p)[a] = n
      BY <1>2
    <2>2. Neighbours(w, p, a, n, next_entry(t, n), K(w, p)[a])
      BY <1>7, <1>8, <2>1
    <2> QED  BY <2>2 DEF Siblings
  <1> QED  BY <1>5, <1>9 DEF p

\* The circumstances in which n looks for help at its sibling m.
Helped(t, w, h, R, n, x, o, e, p, a, l, r, sep, m) ==
  /\ Lacking(t, w, h, R, n, x, o, e) /\ Siblings(w, p, a, l, r, sep, n, m)
  /\ size(t, n) <= Least(Cap(t, n))

\* What is known of the two.
LEMMA HelpedFacts ==
  ASSUME NEW t, NEW w, NEW h, NEW R, NEW n, NEW x, NEW o, NEW e, NEW p, NEW a, NEW l, NEW r,
         NEW sep, NEW m, Helped(t, w, h, R, n, x, o, e, p, a, l, r, sep, m)
  PROVE  /\ Around(w, h, R, p, a, l, r, sep) /\ TreeInv(w, h, R) /\ Neighbours(w, p, a, l, r, sep)
         /\ (is_leaf(w, m) <=> is_leaf(w, n)) /\ (is_leaf(t, n) <=> is_leaf(w, n))
         /\ (is_leaf(w, l) <=> is_leaf(w, n)) /\ (is_leaf(w, r) <=> is_leaf(w, n))
         /\ size(t, m) = size(w, m)
         /\ size(w, m) > Least(Cap(t, n)) => size(w, m) >= 2
         /\ (is_leaf(w, n) => Cap(t, n) = t.entries) /\ (~is_leaf(w, n) => Cap(t, n) = t.order)
         /\ (is_leaf(w, n) => Thinner(t, w, n, x)) /\ (~is_leaf(w, n) => Gap(t, w, n, x))
  <1>1. Lacking(t, w, h, R, n, x, o, e) /\ Siblings(w, p, a, l, r, sep, n, m)
    BY DEF Helped
  <1>2. /\ TreeInv(w, h, R) /\ Listed(w) /\ w.level < MaxLevel
        /\ IF is_leaf(t, n) THEN Thinner(t, w, n, x) ELSE Gap(t, w, n, x)
    BY <1>1 DEF Lacking
  <1>3. Neighbours(w, p, a, l, r, sep) /\ ((l = n /\ r = m) \/ (l = m /\ r = n))
    BY <1>1 DEF Siblings
  <1>4. Others(t, w, n, o, e)
    BY <1>1, LackingFill
  <1>5. Around(w, h, R, p, a, l, r, sep)
    BY <1>2, <1>3, <1>4 DEF Around, Others
  <1>6. (is_leaf(w, m) <=> is_leaf(w, n)) /\ size(t, m) = size(w, m) /\ size(w, m) \in Nat
        /\ Cap(t, n) = IF is_leaf(w, n) THEN e ELSE o
    BY <1>1, SiblingSizes
  <1>7. is_leaf(t, n) <=> is_leaf(w, n)
    BY <1>1, LackingFacts
  <1>8. Cap(t, n) \in Nat \ {0}
    BY <1>4, <1>6 DEF Others
  <1>9. size(w, m) > Least(Cap(t, n)) => size(w, m) >= 2
    <2>1. Least(Cap(t, n)) \in Nat \ {0}
      BY <1>8, Bounds
    <2> QED  BY <1>6, <2>1
  <1>10. (is_leaf(w, n) => Cap(t, n) = t.entries) /\ (~is_leaf(w, n) => Cap(t, n) = t.order)
    BY <1>7 DEF Cap
  <1> QED  BY <1>2, <1>3, <1>5, <1>6, <1>7, <1>9, <1>10

\* One of the ways to go on: a merge.
LEMMA HelpedMerge ==
  ASSUME NEW t, NEW w, NEW h, NEW R, NEW n, NEW x, NEW o, NEW e, NEW p, NEW a, NEW l, NEW r,
         NEW sep, NEW m, Helped(t, w, h, R, n, x, o, e, p, a, l, r, sep, m),
         ~(size(t, m) > Least(Cap(t, n))),
         NEW u, NEW c, Merging(w, u, p, a, l, r, c, sep),
         is_leaf(u, l) <=> is_leaf(w, l), size(u, l) = size(w, l) + size(w, r)
  PROVE  Lowering(RemoveFrom(u, p, a - 1), o, e, Filed(w), w.level, h[n] + 1)
  <1>1. Lacking(t, w, h, R, n, x, o, e) /\ Siblings(w, p, a, l, r, sep, n, m)
        /\ size(t, n) <= Least(Cap(t, n))
    BY DEF Helped
  <1>2. size(t, m) = size(w, m) /\ size(w, m) \in Nat /\ Cap(t, n) = IF is_leaf(w, n) THEN e ELSE o
    BY <1>1, SiblingSizes
  <1>3. Others(t, w, n, o, e)
    BY <1>1, LackingFill
  <1>4. Cap(t, n) \in Nat \ {0}
    BY <1>2, <1>3 DEF Others
  <1>5. Least(Cap(t, n)) \in Nat
    BY <1>4, Bounds
  <1>6. size(w, m) <= Least(Cap(t, n))
    BY <1>2, <1>5
  <1> QED  BY <1>1, <1>6, MergeDone

\* The other: a shift.
LEMMA HelpedShift ==
  ASSUME NEW t, NEW w, NEW h, NEW R, NEW n, NEW x, NEW o, NEW e, NEW p, NEW a, NEW l, NEW r,
         NEW sep, NEW m, Helped(t, w, h, R, n, x, o, e, p, a, l, r, sep, m),
         size(t, m) > Least(Cap(t, n)),
         NEW u, ShiftsTo(w, h, R, u, p, a, l, r, sep),
         is_leaf(u, n) <=> is_leaf(w, n), is_leaf(u, m) <=> is_leaf(w, n),
         size(u, n) = size(w, n) + 1, size(u, m) = size(w, m) - 1
  PROVE  Lowering(Removed(u), o, e, Filed(w), w.level, h[n] + 1)
  <1>1. Lacking(t, w, h, R, n, x, o, e) /\ Siblings(w, p, a, l, r, sep, n, m)
    BY DEF Helped
  <1>2. size(w, m) > Least(Cap(t, n))
    BY HelpedFacts
  <1>3. Settled(Removed(u), o, e, Filed(w))
    BY <1>1, <1>2, ShiftDone
  <1> QED  BY <1>3 DEF Lowering

\* What leaf_remove does with the sibling on the left.
LEMMA LeafGoesLeft ==
  ASSUME NEW t, NEW w, NEW h, NEW R, NEW n, NEW x, NEW o, NEW e, NEW p, NEW a, NEW m,
         NEW sep, Helped(t, w, h, R, n, x, o, e, p, a, m, n, sep, m), is_leaf(t, n)
  PROVE  Lowering(IF size(t, m) > Least(t.entries)
                  THEN Removed(leaf_shift_from_left(t, n, m, a - 1, x - 1))
                  ELSE RemoveFrom(leaf_merge_into_left(t, n, m, x - 1), p, a - 1),
                  o, e, Filed(w), w.level, h[n] + 1)
  <1>1. /\ Around(w, h, R, p, a, m, n, sep) /\ TreeInv(w, h, R) /\ Neighbours(w, p, a, m, n, sep)
        /\ is_leaf(w, m) /\ is_leaf(w, n) /\ size(t, m) = size(w, m)
        /\ size(w, m) > Least(Cap(t, n)) => size(w, m) >= 2
        /\ Cap(t, n) = t.entries /\ Thinner(t, w, n, x)
    BY HelpedFacts
  <1>2. \A u, k : is_leaf(u, k) => size(u, k) = Len(K(u, k))
    BY DEF size, entries, K
  <1>3. CASE size(t, m) > Least(t.entries)
    <2> DEFINE u == leaf_shift_from_left(t, n, m, a - 1, x - 1)
    <2>1. Len(K(w, m)) >= 2
      BY <1>1, <1>2, <1>3
    <2>2. /\ ShiftsTo(w, h, R, u, p, a, m, n, sep) /\ is_leaf(u, m) /\ is_leaf(u, n)
          /\ Len(K(u, m)) = Len(K(w, m)) - 1 /\ Len(K(u, n)) = Len(K(w, n)) + 1
      BY <1>1, <2>1, LeafFromLeft
    <2> HIDE DEF u
    <2>3. size(u, n) = size(w, n) + 1 /\ size(u, m) = size(w, m) - 1
      BY <1>1, <1>2, <2>2
    <2>4. Lowering(Removed(u), o, e, Filed(w), w.level, h[n] + 1)
      BY <1>1, <1>3, <2>2, <2>3, HelpedShift
    <2> QED  BY <1>3, <2>4 DEF u
  <1>4. CASE ~(size(t, m) > Least(t.entries))
    <2> DEFINE u == leaf_merge_into_left(t, n, m, x - 1)
    <2>1. FusedLeaf(w, u, p, a, m, n, sep)
      BY <1>1, LeafIntoLeft
    <2> HIDE DEF u
    <2>2. /\ Merging(w, u, p, a, m, n, Len(K(w, m)), sep)
          /\ K(u, m) = K(w, m) \o K(w, n) /\ is_leaf(u, m)
      BY <2>1 DEF FusedLeaf
    <2>3. size(u, m) = size(w, m) + size(w, n)
      <3>1. K(w, m) \in Seq(Int) /\ K(w, n) \in Seq(Int)
        BY <1>1, FormedFields DEF TreeInv, Neighbours
      <3>2. Len(K(u, m)) = Len(K(w, m)) + Len(K(w, n))
        BY <2>2, <3>1, JoinFact
      <3> QED  BY <1>1, <1>2, <2>2, <3>2
    <2>4. Lowering(RemoveFrom(u, p, a - 1), o, e, Filed(w), w.level, h[n] + 1)
      BY <1>1, <1>4, <2>2, <2>3, HelpedMerge
    <2> QED  BY <1>4, <2>4 DEF u
  <1> QED  BY <1>3, <1>4

\* What leaf_remove does with the sibling on the right.
LEMMA LeafGoesRight ==
  ASSUME NEW t, NEW w, NEW h, NEW R, NEW n, NEW x, NEW o, NEW e, NEW p, NEW a, NEW m,
         NEW sep, Helped(t, w, h, R, n, x, o, e, p, a, n, m, sep, m), is_leaf(t, n)
  PROVE  Lowering(IF size(t, m) > Least(t.entries)
                  THEN Removed(leaf_shift_from_right(w, n, m, a - 1))
                  ELSE RemoveFrom(leaf_merge_from_right(w, n, m), p, a - 1),
                  o, e, Filed(w), w.level, h[n] + 1)
  <1>1. /\ Around(w, h, R, p, a, n, m, sep) /\ TreeInv(w, h, R) /\ Neighbours(w, p, a, n, m, sep)
        /\ is_leaf(w, m) /\ is_leaf(w, n) /\ size(t, m) = size(w, m)
        /\ size(w, m) > Least(Cap(t, n)) => size(w, m) >= 2
        /\ Cap(t, n) = t.entries
    BY HelpedFacts
  <1>2. \A u, k : is_leaf(u, k) => size(u, k) = Len(K(u, k))
    BY DEF size, entries, K
  <1>3. CASE size(t, m) > Least(t.entries)
    <2> DEFINE u == leaf_shift_from_right(w, n, m, a - 1)
    <2>1. Len(K(w, m)) >= 2
      BY <1>1, <1>2, <1>3
    <2>2. /\ ShiftsTo(w, h, R, u, p, a, n, m, sep) /\ is_leaf(u, m) /\ is_leaf(u, n)
          /\ Len(K(u, n)) = Len(K(w, n)) + 1 /\ Len(K(u, m)) = Len(K(w, m)) - 1
      BY <1>1, <2>1, LeafFromRightShift
    <2> HIDE DEF u
    <2>3. size(u, n) = size(w, n) + 1 /\ size(u, m) = size(w, m) - 1
      BY <1>1, <1>2, <2>2
    <2>4. Lowering(Removed(u), o, e, Filed(w), w.level, h[n] + 1)
      BY <1>1, <1>3, <2>2, <2>3, HelpedShift
    <2> QED  BY <1>3, <2>4 DEF u
  <1>4. CASE ~(size(t, m) > Least(t.entries))
    <2> DEFINE u == leaf_merge_from_right(w, n, m)
    <2>1. FusedLeaf(w, u, p, a, n, m, sep)
      BY <1>1, LeafFromRight
    <2> HIDE DEF u
    <2>2. /\ Merging(w, u, p, a, n, m, Len(K(w, n)), sep)
          /\ K(u, n) = K(w, n) \o K(w, m) /\ is_leaf(u, n)
      BY <2>1 DEF FusedLeaf
    <2>3. size(u, n) = size(w, n) + size(w, m)
      <3>1. K(w, m) \in Seq(Int) /\ K(w, n) \in Seq(Int)
        BY <1>1, FormedFields DEF TreeInv, Neighbours
      <3>2. Len(K(u, n)) = Len(K(w, n)) + Len(K(w, m))
        BY <2>2, <3>1, JoinFact
      <3> QED  BY <1>1, <1>2, <2>2, <3>2
    <2>4. Lowering(RemoveFrom(u, p, a - 1), o, e, Filed(w), w.level, h[n] + 1)
      BY <1>1, <1>4, <2>2, <2>3, HelpedMerge
    <2> QED  BY <1>4, <2>4 DEF u
  <1> QED  BY <1>3, <1>4

\* What non_leaf_remove does with the sibling on the left.
LEMMA InnerGoesLeft ==
  ASSUME NEW t, NEW w, NEW h, NEW R, NEW n, NEW x, NEW o, NEW e, NEW p, NEW a, NEW m,
         NEW sep, Helped(t, w, h, R, n, x, o, e, p, a, m, n, sep, m), ~is_leaf(t, n)
  PROVE  Lowering(IF size(t, m) > Least(t.order)
                  THEN Removed(non_leaf_shift_from_left(t, n, m, a - 1, x - 1))
                  ELSE RemoveFrom(non_leaf_merge_into_left(t, n, m, a - 1, x - 1), p, a - 1),
                  o, e, Filed(w), w.level, h[n] + 1)
  <1>1. /\ Around(w, h, R, p, a, m, n, sep) /\ TreeInv(w, h, R) /\ Neighbours(w, p, a, m, n, sep)
        /\ ~is_leaf(w, m) /\ ~is_leaf(w, n) /\ size(t, m) = size(w, m)
        /\ size(w, m) > Least(Cap(t, n)) => size(w, m) >= 2
        /\ Cap(t, n) = t.order /\ Gap(t, w, n, x)
    BY HelpedFacts
  <1>2. \A u, k : ~is_leaf(u, k) => size(u, k) = Len(S(u, k))
    BY DEF size, children, S
  <1>3. CASE size(t, m) > Least(t.order)
    <2> DEFINE u == non_leaf_shift_from_left(t, n, m, a - 1, x - 1)
    <2>1. Len(S(w, m)) >= 2
      BY <1>1, <1>2, <1>3
    <2>2. /\ ShiftsTo(w, h, R, u, p, a, m, n, sep) /\ ~is_leaf(u, m) /\ ~is_leaf(u, n)
          /\ Len(S(u, m)) = Len(S(w, m)) - 1 /\ Len(S(u, n)) = Len(S(w, n)) + 1
      BY <1>1, <2>1, InnerFromLeft
    <2> HIDE DEF u
    <2>3. size(u, n) = size(w, n) + 1 /\ size(u, m) = size(w, m) - 1
      BY <1>1, <1>2, <2>2
    <2>4. Lowering(Removed(u), o, e, Filed(w), w.level, h[n] + 1)
      BY <1>1, <1>3, <2>2, <2>3, HelpedShift
    <2> QED  BY <1>3, <2>4 DEF u
  <1>4. CASE ~(size(t, m) > Least(t.order))
    <2> DEFINE u == non_leaf_merge_into_left(t, n, m, a - 1, x - 1)
               c == Len(S(w, m))
               kl == JoinedKeys(w, m, n, sep)
               sl == JoinedSubs(w, m, n)
    <2>1. Rows(w, m, n, sep, c, kl, sl)
      BY DEF Rows
    <2> HIDE DEF c, kl, sl
    <2>2. Fused(w, u, p, a, m, n, sep, c, kl, sl)
      BY <1>1, <2>1, MergeIntoLeft
    <2> HIDE DEF u
    <2>3. Merging(w, u, p, a, m, n, c, sep) /\ S(u, m) = sl /\ ~is_leaf(u, m)
      BY <2>2 DEF Fused
    <2>4. size(u, m) = size(w, m) + size(w, n)
      <3>1. Len(sl) = Len(S(w, m)) + Len(S(w, n))
        BY <1>1, <2>1, JoinedArrays
      <3> QED  BY <1>1, <1>2, <2>3, <3>1
    <2>5. Lowering(RemoveFrom(u, p, a - 1), o, e, Filed(w), w.level, h[n] + 1)
      BY <1>1, <1>4, <2>3, <2>4, HelpedMerge
    <2> QED  BY <1>4, <2>5 DEF u
  <1> QED  BY <1>3, <1>4

\* What non_leaf_remove does with the sibling on the right.
LEMMA InnerGoesRight ==
  ASSUME NEW t, NEW w, NEW h, NEW R, NEW n, NEW x, NEW o, NEW e, NEW p, NEW a, NEW m,
         NEW sep, Helped(t, w, h, R, n, x, o, e, p, a, n, m, sep, m), ~is_leaf(t, n)
  PROVE  Lowering(IF size(t, m) > Least(t.order)
                  THEN Removed(non_leaf_shift_from_right(w, n, m, a - 1))
                  ELSE RemoveFrom(non_leaf_merge_from_right(w, n, m, a - 1), p, a - 1),
                  o, e, Filed(w), w.level, h[n] + 1)
  <1>1. /\ Around(w, h, R, p, a, n, m, sep) /\ TreeInv(w, h, R) /\ Neighbours(w, p, a, n, m, sep)
        /\ ~is_leaf(w, m) /\ ~is_leaf(w, n) /\ size(t, m) = size(w, m)
        /\ size(w, m) > Least(Cap(t, n)) => size(w, m) >= 2
        /\ Cap(t, n) = t.order
    BY HelpedFacts
  <1>2. \A u, k : ~is_leaf(u, k) => size(u, k) = Len(S(u, k))
    BY DEF size, children, S
  <1>3. CASE size(t, m) > Least(t.order)
    <2> DEFINE u == non_leaf_shift_from_right(w, n, m, a - 1)
    <2>1. Len(S(w, m)) >= 2
      BY <1>1, <1>2, <1>3
    <2>2. /\ ShiftsTo(w, h, R, u, p, a, n, m, sep) /\ ~is_leaf(u, m) /\ ~is_leaf(u, n)
          /\ Len(S(u, n)) = Len(S(w, n)) + 1 /\ Len(S(u, m)) = Len(S(w, m)) - 1
      BY <1>1, <2>1, InnerFromRight
    <2> HIDE DEF u
    <2>3. size(u, n) = size(w, n) + 1 /\ size(u, m) = size(w, m) - 1
      BY <1>1, <1>2, <2>2
    <2>4. Lowering(Removed(u), o, e, Filed(w), w.level, h[n] + 1)
      BY <1>1, <1>3, <2>2, <2>3, HelpedShift
    <2> QED  BY <1>3, <2>4 DEF u
  <1>4. CASE ~(size(t, m) > Least(t.order))
    <2> DEFINE u == non_leaf_merge_from_right(w, n, m, a - 1)
               c == Len(S(w, n))
               kl == JoinedKeys(w, n, m, sep)
               sl == JoinedSubs(w, n, m)
    <2>1. Rows(w, n, m, sep, c, kl, sl)
      BY DEF Rows
    <2> HIDE DEF c, kl, sl
    <2>2. Fused(w, u, p, a, n, m, sep, c, kl, sl)
      BY <1>1, <2>1, MergeFromRight
    <2> HIDE DEF u
    <2>3. Merging(w, u, p, a, n, m, c, sep) /\ S(u, n) = sl /\ ~is_leaf(u, n)
      BY <2>2 DEF Fused
    <2>4. size(u, n) = size(w, n) + size(w, m)
      <3>1. Len(sl) = Len(S(w, n)) + Len(S(w, m))
        BY <1>1, <2>1, JoinedArrays
      <3> QED  BY <1>1, <1>2, <2>3, <3>1
    <2>5. Lowering(RemoveFrom(u, p, a - 1), o, e, Filed(w), w.level, h[n] + 1)
      BY <1>1, <1>4, <2>3, <2>4, HelpedMerge
    <2> QED  BY <1>4, <2>5 DEF u
  <1> QED  BY <1>3, <1>4

-----------------------------------------------------------------------------
\* A node that needs no help, and the root.

\* If what is left in n is enough, there is nothing left to be done.
LEMMA EnoughLeft ==
  ASSUME NEW t, NEW w, NEW h, NEW R, NEW n, NEW x, NEW o, NEW e, Lacking(t, w, h, R, n, x, o, e),
         Fill(w, n)
  PROVE  Settled(Removed(w), o, e, Filed(w))
  <1>1. Others(t, w, n, o, e)
    BY LackingFill
  <1>2. TreeInv(w, h, R) /\ Listed(w)
    BY DEF Lacking
  <1>3. Sound(w, o, e)
    BY <1>1, <1>2 DEF Sound, Others, Listed
  <1> QED  BY <1>2, <1>3, DoneFact

\* A node above the bound can do without one.
LEMMA AboveBound ==
  ASSUME NEW t, NEW w, NEW h, NEW R, NEW n, NEW x, NEW o, NEW e, Lacking(t, w, h, R, n, x, o, e),
         size(t, n) > Least(Cap(t, n))
  PROVE  Settled(Removed(w), o, e, Filed(w))
  <1>1. Others(t, w, n, o, e)
    BY LackingFill
  <1>2. (is_leaf(t, n) <=> is_leaf(w, n)) /\ size(t, n) = size(w, n) + 1 /\ Formed(w) /\ n \in N(w)
    BY LackingFacts DEF Lacking
  <1>3. /\ is_leaf(t, n) => size(t, n) \in 1..e /\ Cap(t, n) = e
        /\ ~is_leaf(t, n) => size(t, n) \in 2..o /\ Cap(t, n) = o
    BY <1>1 DEF Others, Fill, FullFill, Cap, size, entries, children, K, S
  <1>4. w.order = o /\ w.entries = e /\ o \in Nat \ 0..2 /\ e \in Nat \ {0}
    BY <1>1 DEF Others
  <1>5. size(w, n) \in Nat
    BY <1>2, SizeFacts
  <1> DEFINE tn == size(t, n)
             wn == size(w, n)
  <1>6. tn = wn + 1 /\ wn \in Nat
    BY <1>2, <1>5
  <1>7. FullFill(w, n)
    <2>1. CASE is_leaf(w, n)
      <3>1. tn \in 1..e /\ tn > Least(e)
        BY <1>2, <1>3, <2>1
      <3>2. Least(e) \in Nat \ {0} /\ Half(e) = Least(e) /\ e \in Nat
        BY <1>4, Bounds
      <3> HIDE DEF tn, wn
      <3>3. wn \in 1..e /\ wn >= Half(e)
        BY <1>6, <3>1, <3>2
      <3> QED  BY <1>4, <2>1, <3>3, FullSize DEF wn
    <2>2. CASE ~is_leaf(w, n)
      <3>1. tn \in 2..o /\ tn > Least(o)
        BY <1>2, <1>3, <2>2
      <3>2. Least(o) \in Nat /\ Least(o) >= 2 /\ Least(o) >= o \div 2 /\ o \in Nat /\ o \div 2 \in Nat
        <4>1. o \in Nat \ {0} /\ o >= 3
          BY <1>4
        <4> QED  BY <4>1, Bounds
      <3> HIDE DEF tn, wn
      <3>3. wn \in 2..o /\ wn >= o \div 2
        BY <1>6, <3>1, <3>2
      <3> QED  BY <1>4, <2>2, <3>3, FullSize DEF wn
    <2> QED  BY <2>1, <2>2
  <1>8. Fill(w, n)
    BY <1>7 DEF Fill
  <1> QED  BY <1>8, EnoughLeft

\* A node without a parent is the root.
LEMMA NoParent ==
  ASSUME NEW t, NEW w, NEW h, NEW R, NEW n, NEW x, NEW o, NEW e, Lacking(t, w, h, R, n, x, o, e),
         P(t, n) = NULL
  PROVE  n = w.root /\ P(w, n) = NULL
  <1>1. P(w, n) = NULL /\ n \in N(w)
    BY LackingFacts DEF Lacking
  <1>2. TreeInv(w, h, R)
    BY DEF Lacking
  <1>3. N(w) \subseteq Nat \ {0}
    BY <1>2 DEF TreeInv, Formed
  <1>4. ASSUME n # w.root PROVE FALSE
    <2>1. P(w, n) \in N(w)
      BY <1>1, <1>2, <1>4 DEF TreeInv, Parents, Owned, Inner
    <2> QED  BY <1>1, <1>3, <2>1 DEF NULL
  <1> QED  BY <1>1, <1>4

\* The root may hold less.
LEMMA RootLeft ==
  ASSUME NEW t, NEW w, NEW h, NEW R, NEW n, NEW x, NEW o, NEW e, Lacking(t, w, h, R, n, x, o, e),
         P(t, n) = NULL, size(t, n) # IF is_leaf(t, n) THEN 1 ELSE 2
  PROVE  Settled(Removed(w), o, e, Filed(w))
  <1>1. Others(t, w, n, o, e)
    BY LackingFill
  <1>2. (is_leaf(t, n) <=> is_leaf(w, n)) /\ size(t, n) = size(w, n) + 1 /\ Formed(w) /\ n \in N(w)
    BY LackingFacts DEF Lacking
  <1>3. /\ is_leaf(t, n) => size(t, n) \in 1..e
        /\ ~is_leaf(t, n) => size(t, n) \in 2..o
    BY <1>1 DEF Others, Fill, FullFill, size, entries, children, K, S
  <1>4. w.order = o /\ w.entries = e /\ o \in Nat \ 0..2 /\ e \in Nat \ {0}
    BY <1>1 DEF Others
  <1>5. size(w, n) \in Nat
    BY <1>2, SizeFacts
  <1> DEFINE tn == size(t, n)
             wn == size(w, n)
  <1>6. tn = wn + 1 /\ wn \in Nat
    BY <1>2, <1>5
  <1>7. n = w.root
    BY NoParent
  <1>8. CASE is_leaf(w, n)
    <2>1. tn \in 1..e /\ tn # 1
      BY <1>2, <1>3, <1>8
    <2> HIDE DEF tn, wn
    <2>2. wn \in 1..e
      BY <1>4, <1>6, <2>1
    <2>3. wn = Len(K(w, n))
      BY <1>8 DEF wn, size, entries, K
    <2>4. Fill(w, n)
      BY <1>4, <1>7, <1>8, <2>2, <2>3 DEF Fill
    <2> QED  BY <2>4, EnoughLeft
  <1>9. CASE ~is_leaf(w, n)
    <2>1. tn \in 2..o /\ tn # 2
      BY <1>2, <1>3, <1>9
    <2> HIDE DEF tn, wn
    <2>2. wn \in 2..o
      BY <1>4, <1>6, <2>1
    <2>3. wn = Len(S(w, n))
      BY <1>9 DEF wn, size, children, S
    <2>4. Fill(w, n)
      BY <1>4, <1>7, <1>9, <2>2, <2>3 DEF Fill
    <2> QED  BY <2>4, EnoughLeft
  <1> QED  BY <1>8, <1>9

\* The last entry takes the root leaf with it.
LEMMA LastEntry ==
  ASSUME NEW t, NEW w, NEW h, NEW R, NEW n, NEW x, NEW o, NEW e, Lacking(t, w, h, R, n, x, o, e),
         P(t, n) = NULL, is_leaf(t, n), size(t, n) = 1, NEW key, K(t, n)[x] = key
  PROVE  Settled(Removed(leaf_of_root(t, n, key, x - 1)), o, e, Filed(w))
  <1>1. Others(t, w, n, o, e)
    BY LackingFill
  <1>2. /\ t.order = o /\ t.entries = e /\ o \in Nat \ 0..2 /\ e \in Nat \ {0}
    BY <1>1 DEF Others
  <1>3. TreeInv(w, h, R) /\ Listed(w) /\ t.ok = TRUE /\ Thinner(t, w, n, x)
    BY DEF Lacking, Sound
  <1>4. /\ Frame(t, w) /\ w.link = t.link /\ N(w) = N(t) /\ n \in N(w)
        /\ (is_leaf(t, n) <=> is_leaf(w, n)) /\ size(t, n) = size(w, n) + 1
    BY LackingFacts DEF Lacking
  <1>5. n = w.root /\ w.level \in Nat
    BY <1>3, NoParent DEF TreeInv, Formed
  <1>6. w.level = 0 /\ N(w) = {n}
    <2>1. h[n] = 0 /\ h[n] = w.level
      BY <1>3, <1>4, <1>5 DEF TreeInv, Heights
    <2>2. \A m \in N(w) : is_leaf(w, m)
      BY <1>3, <2>1 DEF TreeInv, Heights
    <2>3. ASSUME NEW m \in N(w), m # n PROVE FALSE
      BY <1>3, <1>5, <2>2, <2>3 DEF TreeInv, Parents, Owned, Inner
    <2> QED  BY <1>4, <2>1, <2>3
  <1>7. x = 1 /\ At(t.node[n].key, 0) = key /\ entries(t, n) = 1
    <2>1. entries(t, n) = 1 /\ Len(K(t, n)) = 1
      BY DEF size, entries, K
    <2>2. x \in 1..1
      BY <1>3, <2>1 DEF Thinner
    <2>3. x = 1 /\ 0 + 1 = 1
      BY <2>2
    <2> QED  BY <2>1, <2>3 DEF At, K
  <1> DEFINE g == [t EXCEPT !.ok = @ /\ key = At(t.node[n].key, 0), !.root = NULL]
             u == node_delete(g, n)
  <1>8. leaf_of_root(t, n, key, x - 1) = u
    BY <1>7 DEF leaf_of_root
  <1>9. DOMAIN t = Fields
    BY <1>3, FormedFields DEF Thinner
  <1>10. /\ DOMAIN g = Fields /\ g.root = NULL /\ g.ok = TRUE /\ g.node = t.node /\ g.link = t.link
         /\ g.level = t.level /\ g.order = t.order /\ g.entries = t.entries
    BY <1>3, <1>7, <1>9 DEF Fields
  <1> HIDE DEF g
  <1>11. /\ Frame(g, u) /\ N(u) = N(g) \ {n} /\ u.link = Dropped(g.link, n)
    BY <1>10, NodeDeleteEffect
  <1> HIDE DEF u
  <1>12. /\ DOMAIN u = Fields /\ u.root = NULL /\ N(u) = {} /\ u.level = 0 /\ u.ok = TRUE
         /\ u.order = o /\ u.entries = e /\ u.link = Dropped(w.link, n)
    <2>1. N(g) = N(w) /\ t.level = 0
      BY <1>4, <1>6, <1>10 DEF N, Frame
    <2> QED  BY <1>2, <1>4, <1>6, <1>10, <1>11, <2>1 DEF Frame
  <1>13. DOMAIN u.link = ListHeads /\ Ring(u.link) /\ \A y \in ListHeads : u.link[y].next = y
    <2>1. /\ DOMAIN w.link = N(w) \cup ListHeads /\ Ring(w.link)
          /\ \A l \in 0..(MaxLevel - 1) : l > 0 => w.link[ListHead(l)].next = ListHead(l)
          /\ w.link[ListHead(0)].next = n /\ w.link[n].next = ListHead(0)
      BY <1>3, <1>5, <1>6 DEF Listed, Crowned, Nx
    <2>2. n \notin ListHeads /\ n # ListHead(0)
      BY <1>3, <1>4, HeadsApart DEF TreeInv
    <2>3. n \in DOMAIN w.link
      BY <1>4, <2>1
    <2>4. TakenOut(w.link, u.link, n)
      BY <1>12, <2>1, <2>2, <2>3, RingDropped
    <2>5. DOMAIN u.link = ListHeads
      BY <1>6, <2>1, <2>2, <2>4 DEF TakenOut
    <2>6. ASSUME NEW y \in ListHeads PROVE u.link[y].next = y
      <3>1. PICK l \in 0..(MaxLevel - 1) : y = ListHead(l)
        BY DEF ListHeads
      <3>2. CASE l = 0
        BY <2>1, <2>4, <2>5, <3>1, <3>2 DEF TakenOut
      <3>3. CASE l # 0
        <4>1. l > 0
          BY <3>3
        <4>2. w.link[y].next = y /\ y # n
          BY <2>1, <2>2, <2>6, <3>1, <4>1
        <4> QED  BY <2>4, <2>5, <4>2 DEF TakenOut
      <3> QED  BY <3>2, <3>3
    <2> QED  BY <2>4, <2>5, <2>6 DEF TakenOut
  <1>14. Bare(u)
    BY <1>2, <1>12, <1>13 DEF Bare
  <1>15. Filed(u) = {}
    BY <1>14, BareFiled
  <1>16. Filed(w) = {}
    <2>1. Len(K(w, n)) = 0
      <3>1. Formed(w)
        BY <1>3 DEF TreeInv
      <3>2. size(w, n) \in Nat /\ size(w, n) = Len(K(w, n))
        BY <1>4, <3>1, SizeFacts
      <3> QED  BY <1>4, <3>2
    <2>2. ASSUME NEW k, NEW d, Has(w, k, d) PROVE FALSE
      <3>1. PICK m \in Leafs(w) : \E i \in 1..Len(K(w, m)) : K(w, m)[i] = k /\ D(w, m)[i] = d
        BY <2>2 DEF Has
      <3>2. m = n
        BY <1>6, <3>1 DEF Leafs
      <3>3. \E i \in 1..0 : TRUE
        BY <2>1, <3>1, <3>2
      <3> QED  BY <3>3
    <2> QED  BY <2>2 DEF Filed
  <1>17. Removed(u).tree = u /\ Removed(u).node = NULL
    BY DEF Removed
  <1>18. Settled(Removed(u), o, e, Filed(w))
    BY <1>12, <1>14, <1>15, <1>16, <1>17 DEF Settled, TreeState
  <1> QED  BY <1>8, <1>18

\* The root n of w has one child c left, t is w before that, and u is without n.
Crowning(t, w, u, n, c) ==
  /\ N(u) = N(w) \ {n} /\ u.root = c /\ u.level + 1 = w.level /\ u.level \in Nat /\ u.ok = TRUE
  /\ u.order = w.order /\ u.entries = w.entries /\ u.link = Dropped(w.link, n) /\ DOMAIN u = Fields
  /\ \A m \in N(u) : NodeFormed(u, m) /\ Same(u, w, m)
  /\ \A m \in N(u) \ {c} : P(w, m) = P(u, m) /\ X(w, m) = X(u, m)
  /\ P(u, c) = NULL /\ c \in N(u)

\* u is t without its root n, and g is what drop_root leaves before it frees n.
RootGone(t, u, g, n, c) ==
  /\ u = node_delete(g, n)
  /\ DOMAIN g = Fields /\ N(g) = N(t) /\ g.link = t.link
  /\ g.root = c /\ g.level = t.level - 1 /\ g.ok = TRUE
  /\ g.order = t.order /\ g.entries = t.entries
  /\ \A m \in N(t) \ {c} : g.node[m] = t.node[m]
  /\ Alike(t, g, c) /\ P(g, c) = NULL /\ X(g, c) = X(t, c)

\* What drop_root writes before the node is freed.
LEMMA DropRootWrites ==
  ASSUME NEW t, DOMAIN t = Fields, NEW n, NEW c, c \in N(t), "parent" \in DOMAIN t.node[c],
         At(S(t, n), 0) = c, t.ok = TRUE
  PROVE  \E g : RootGone(t, drop_root(t, n, 0), g, n, c)
  <1> DEFINE g == [t EXCEPT !.ok = @ /\ 0 = 0,
                            !.node[c].parent = NULL,
                            !.root = c,
                            !.level = @ - 1]
             n1 == [t.node[c] EXCEPT !.parent = NULL]
             n2 == [t.node EXCEPT ![c] = n1]
  <1>1. drop_root(t, n, 0) = node_delete(g, n)
    BY DEF drop_root, S
  <1>2. /\ DOMAIN g = Fields /\ g.node = n2 /\ g.link = t.link
        /\ g.root = c /\ g.level = t.level - 1 /\ g.ok = TRUE
        /\ g.order = t.order /\ g.entries = t.entries
    BY DEF Fields
  <1>3. /\ DOMAIN n1 = DOMAIN t.node[c] /\ n1.parent = NULL
        /\ \A z \in DOMAIN t.node[c] \ {"parent"} : n1[z] = t.node[c][z]
    OBVIOUS
  <1>4. DOMAIN n2 = DOMAIN t.node /\ n2[c] = n1 /\ \A m \in DOMAIN t.node \ {c} : n2[m] = t.node[m]
    BY DEF N
  <1>5. /\ n1.type = t.node[c].type /\ n1.key = t.node[c].key
        /\ n1.parent_key_idx = t.node[c].parent_key_idx
        /\ "data" \in DOMAIN t.node[c] => n1.data = t.node[c].data
        /\ "sub_ptr" \in DOMAIN t.node[c] => n1.sub_ptr = t.node[c].sub_ptr
    OBVIOUS
  <1> HIDE DEF g, n1, n2
  <1>6. N(g) = N(t) /\ \A m \in N(t) \ {c} : g.node[m] = t.node[m]
    BY <1>2, <1>4 DEF N
  <1>7. Alike(t, g, c) /\ P(g, c) = NULL /\ X(g, c) = X(t, c)
    BY <1>2, <1>3, <1>4, <1>5 DEF Alike, P, X
  <1>8. RootGone(t, drop_root(t, n, 0), g, n, c)
    BY <1>1, <1>2, <1>6, <1>7 DEF RootGone
  <1> QED  BY <1>8

\* A root of two children that loses one has one left, the first.
LEMMA OneChild ==
  ASSUME NEW t, NEW w, NEW h, NEW R, NEW n, NEW x, NEW o, NEW e, Lacking(t, w, h, R, n, x, o, e),
         P(t, n) = NULL, ~is_leaf(t, n), size(t, n) = 2
  PROVE  \E c : /\ x = 1 /\ At(S(t, n), 0) = c /\ Len(S(w, n)) = 1 /\ S(w, n)[1] = c
                /\ c \in N(w) /\ c # n /\ n \in Inner(w) /\ P(w, c) = n /\ X(w, c) = -1
                /\ \A m \in N(w) : P(w, m) = n => m = c
  <1>1. TreeInv(w, h, R) /\ Gap(t, w, n, x) /\ n \in N(w)
    BY DEF Lacking
  <1>2. /\ (is_leaf(t, n) <=> is_leaf(w, n)) /\ size(t, n) = size(w, n) + 1 /\ Formed(w)
    BY LackingFacts
  <1>3. n = w.root /\ n \in Inner(w) /\ P(w, n) = NULL
    BY <1>1, <1>2, NoParent DEF Inner
  <1>4. Len(S(w, n)) = 1
    <2>1. size(w, n) \in Nat /\ size(w, n) = Len(S(w, n))
      BY <1>1, <1>2, SizeFacts
    <2> QED  BY <1>2, <2>1
  <1>5. x \in 1..Len(K(t, n)) /\ Len(S(t, n)) = Len(K(t, n)) + 1 /\ K(t, n) \in Seq(Int)
        /\ Lost(S(t, n), x + 1, S(w, n))
    BY <1>1 DEF Gap, Loose, PairOut
  <1>6. Len(S(t, n)) = 2
    BY DEF size, children, S
  <1>7. x = 1 /\ x + 1 = 2
    <2> DEFINE nk == Len(K(t, n))
    <2>5. K(t, n) \in Seq(Int) /\ Len(S(t, n)) = Len(K(t, n)) + 1
      BY <1>5
    <2>6. Len(K(t, n)) \in Nat
      BY <2>5
    <2>1. nk \in Nat /\ 2 = nk + 1
      BY <1>6, <2>5, <2>6
    <2> HIDE DEF nk
    <2>4. nk = 1
      BY <2>1
    <2>2. Len(K(t, n)) = 1
      BY <2>4 DEF nk
    <2>3. x \in 1..1
      BY <1>5, <2>2
    <2> QED  BY <2>3
  <1> DEFINE c == S(w, n)[1]
  <1>8. S(t, n)[1] = c
    <2>1. 1 \in 1..(Len(S(t, n)) - 1) /\ 1 < x + 1
      BY <1>6, <1>7
    <2> QED  BY <1>5, <2>1 DEF Lost
  <1>9. At(S(t, n), 0) = c
    <2>1. 0 + 1 = 1
      OBVIOUS
    <2> QED  BY <1>8, <2>1 DEF At
  <1>10. c \in N(w) /\ c # n /\ P(w, c) = n /\ X(w, c) = -1
    <2>1. 1 \in 1..Len(S(w, n)) /\ 1 - 2 = -1
      BY <1>4
    <2> QED  BY <1>1, <1>3, <2>1, ChildFacts
  <1>11. ASSUME NEW m \in N(w), P(w, m) = n PROVE m = c
    <2>1. m # w.root
      BY <1>1, <1>2, <1>3, <1>11 DEF Formed, NULL
    <2>2. Owned(w, m)
      BY <1>1, <2>1 DEF TreeInv, Parents
    <2>3. X(w, m) + 2 \in 1..1 /\ S(w, n)[X(w, m) + 2] = m
      BY <1>4, <1>11, <2>2 DEF Owned
    <2>4. X(w, m) + 2 = 1
      BY <2>3
    <2> QED  BY <2>3, <2>4
  <1> QED  BY <1>3, <1>4, <1>7, <1>9, <1>10, <1>11

\* The node m of g stays as it is when n is freed, since nothing in m leads to n.
Spared(g, u, n, m) ==
  /\ N(u) = N(g) \ {n} /\ u.node[m] = g.node[m] /\ NodeFormed(g, m) /\ P(g, m) # n
  /\ ~is_leaf(g, m) => \A i \in 1..Len(S(g, m)) : S(g, m)[i] # n

\* A node from which nothing leads to the freed one is what it was.
LEMMA SparedFact ==
  ASSUME NEW g, NEW u, NEW n, NEW m, Spared(g, u, n, m)
  PROVE  NodeFormed(u, m) /\ Same(g, u, m) /\ P(u, m) = P(g, m) /\ X(u, m) = X(g, m)
  <1>1. N(u) = N(g) \ {n} /\ u.node[m] = g.node[m] /\ NodeFormed(g, m)
    BY DEF Spared
  <1>2. /\ K(u, m) = K(g, m) /\ D(u, m) = D(g, m) /\ S(u, m) = S(g, m)
        /\ P(u, m) = P(g, m) /\ X(u, m) = X(g, m) /\ is_leaf(u, m) = is_leaf(g, m)
    BY <1>1 DEF K, D, S, P, X, is_leaf
  <1>3. Same(g, u, m)
    BY <1>2 DEF Same
  <1>4. P(g, m) # n
    BY DEF Spared
  <1>5. ~is_leaf(g, m) => \A i \in 1..Len(S(g, m)) : S(g, m)[i] # n
    BY DEF Spared
  <1>6. NodeFormed(u, m)
    BY <1>1, <1>4, <1>5, FormedLess
  <1> QED  BY <1>2, <1>3, <1>6

\* The tree without its root.
LEMMA DropRootCrowns ==
  ASSUME NEW t, NEW w, NEW h, NEW R, NEW n, NEW x, NEW o, NEW e, Lacking(t, w, h, R, n, x, o, e),
         P(t, n) = NULL, NEW c, At(S(t, n), 0) = c, c \in N(w), c # n, n \in Inner(w),
         \A m \in N(w) : P(w, m) = n => m = c
  PROVE  Crowning(t, w, drop_root(t, n, 0), n, c)
  <1>1. TreeInv(w, h, R) /\ t.ok = TRUE /\ Gap(t, w, n, x)
    <2>1. ~is_leaf(t, n)
      BY LackingFacts DEF Inner
    <2> QED  BY <2>1 DEF Lacking, Sound
  <1>2. /\ DOMAIN t = Fields
        /\ \A m \in N(t) \ {n} : NodeFormed(t, m)
    BY <1>1 DEF Gap, Loose, Fields
  <1>3. /\ Frame(t, w) /\ w.link = t.link /\ N(w) = N(t) /\ Formed(w)
        /\ \A m \in N(w) \ {n} : Same(t, w, m)
        /\ \A m \in N(w) : P(t, m) = P(w, m)
        /\ \A m \in N(w) : P(w, m) # n => X(t, m) = X(w, m)
    BY LackingFacts
  <1>4. "parent" \in DOMAIN t.node[c] /\ NodeFormed(t, c) /\ c \in N(t)
    BY <1>2, <1>3 DEF NodeFormed
  <1> DEFINE u == drop_root(t, n, 0)
  <1> HIDE DEF u
  <1>20. PICK g : RootGone(t, u, g, n, c)
    BY <1>1, <1>2, <1>4, DropRootWrites DEF u
  <1>5.          /\ u = node_delete(g, n)
                 /\ DOMAIN g = Fields /\ N(g) = N(t) /\ g.link = t.link
                 /\ g.root = c /\ g.level = t.level - 1 /\ g.ok = TRUE
                 /\ g.order = t.order /\ g.entries = t.entries
                 /\ \A m \in N(t) \ {c} : g.node[m] = t.node[m]
                 /\ Alike(t, g, c) /\ P(g, c) = NULL /\ X(g, c) = X(t, c)
    BY <1>20 DEF RootGone
  <1>6. /\ Frame(g, u) /\ N(u) = N(g) \ {n} /\ u.link = Dropped(g.link, n)
        /\ \A m \in N(g) \ {n} : u.node[m] = g.node[m]
    BY <1>5, NodeDeleteEffect
  <1>7. w.level \in Nat \ {0} /\ P(w, n) = NULL /\ NULL \notin N(w)
    <2>1. h[n] \in 0..w.level /\ h[n] # 0 /\ w.level \in Nat
      BY <1>1 DEF TreeInv, Heights, Inner, Formed
    <2>2. NULL \notin N(w)
      BY <1>3 DEF Formed, NULL
    <2> QED  BY <2>1, <2>2, NoParent
  <1>8. ASSUME NEW m \in N(w) \ {n}, ~is_leaf(t, m), NEW i \in 1..Len(S(t, m)) PROVE S(t, m)[i] # n
    <2>1. ~is_leaf(w, m) /\ S(w, m) = S(t, m)
      BY <1>3, <1>8 DEF Same
    <2>2. m \in Inner(w) /\ i \in 1..Len(S(w, m))
      BY <1>8, <2>1 DEF Inner
    <2>3. P(w, S(w, m)[i]) = m
      BY <1>1, <2>2, ChildFacts
    <2> QED  BY <1>7, <2>1, <2>2, <2>3 DEF Inner
  <1>9. NodeFormed(g, c) /\ Same(t, g, c)
    <2>1. P(g, c) \in N(g) \cup {NULL} /\ X(g, c) \in Int /\ N(t) \subseteq N(g)
      BY <1>4, <1>5 DEF NodeFormed
    <2> QED  BY <1>4, <1>5, <2>1, AlikeFormed
  <1>10. ASSUME NEW m \in N(u)
         PROVE  NodeFormed(u, m) /\ Same(g, u, m) /\ P(u, m) = P(g, m) /\ X(u, m) = X(g, m)
                /\ Same(t, g, m) /\ (m # c => P(g, m) = P(t, m) /\ X(g, m) = X(t, m))
    <2>1. m \in N(t) \ {n} /\ u.node[m] = g.node[m] /\ N(u) = N(g) \ {n}
      BY <1>5, <1>6, <1>10
    <2>2. CASE m = c
      <3>1. P(g, m) # n
        BY <1>3, <1>5, <1>7, <2>1, <2>2 DEF Inner
      <3>2. ASSUME ~is_leaf(g, m), NEW i \in 1..Len(S(g, m)), S(g, m)[i] = n PROVE FALSE
        BY <1>3, <1>8, <1>9, <2>1, <2>2, <3>2 DEF Same
      <3>3. NodeFormed(g, m) /\ Same(t, g, m) /\ m \in N(g)
        BY <1>5, <1>9, <2>1, <2>2
      <3>5. Spared(g, u, n, m)
        BY <2>1, <3>1, <3>2, <3>3 DEF Spared
      <3>4. NodeFormed(u, m) /\ Same(g, u, m) /\ P(u, m) = P(g, m) /\ X(u, m) = X(g, m)
        BY <3>5, SparedFact
      <3> QED  BY <2>2, <3>3, <3>4
    <2>3. CASE m # c
      <3>1. g.node[m] = t.node[m] /\ NodeFormed(t, m)
        BY <1>2, <1>5, <2>1, <2>3
      <3>2. /\ K(g, m) = K(t, m) /\ D(g, m) = D(t, m) /\ S(g, m) = S(t, m)
            /\ P(g, m) = P(t, m) /\ X(g, m) = X(t, m) /\ is_leaf(g, m) = is_leaf(t, m)
        BY <3>1 DEF K, D, S, P, X, is_leaf
      <3>3. Same(t, g, m)
        BY <3>2 DEF Same
      <3>4. NodeFormed(g, m)
        BY <1>5, <3>1, <3>2 DEF NodeFormed
      <3>5. P(g, m) # n
        BY <1>3, <2>1, <2>3, <3>2
      <3>6. ASSUME ~is_leaf(g, m), NEW i \in 1..Len(S(g, m)), S(g, m)[i] = n PROVE FALSE
        BY <1>3, <1>8, <2>1, <3>2, <3>6
      <3>7. m \in N(g)
        BY <1>5, <2>1
      <3>9. Spared(g, u, n, m)
        BY <2>1, <3>4, <3>5, <3>6, <3>7 DEF Spared
      <3>8. NodeFormed(u, m) /\ Same(g, u, m) /\ P(u, m) = P(g, m) /\ X(u, m) = X(g, m)
        BY <3>9, SparedFact
      <3> QED  BY <3>2, <3>3, <3>8
    <2> QED  BY <2>2, <2>3
  <1>11. ASSUME NEW m \in N(u) PROVE Same(u, w, m)
    <2>1. Same(t, u, m)
      BY <1>10, SameTrans
    <2>2. Same(u, t, m) /\ Same(t, w, m)
      BY <1>3, <1>5, <1>6, <2>1, SameSym
    <2> QED  BY <2>2, SameTrans
  <1>12. ASSUME NEW m \in N(u) \ {c} PROVE P(w, m) = P(u, m) /\ X(w, m) = X(u, m)
    <2>1. m \in N(w) /\ P(u, m) = P(t, m) /\ X(u, m) = X(t, m)
      BY <1>3, <1>5, <1>6, <1>10
    <2>2. P(w, m) # n
      BY <1>12, <2>1
    <2> QED  BY <1>3, <2>1, <2>2
  <1>13. P(u, c) = NULL /\ c \in N(u)
    <2>1. c \in N(u)
      BY <1>3, <1>5, <1>6
    <2> QED  BY <1>5, <1>10, <2>1
  <1>14. /\ N(u) = N(w) \ {n} /\ u.root = c /\ u.level + 1 = w.level /\ u.level \in Nat /\ u.ok = TRUE
         /\ u.order = w.order /\ u.entries = w.entries /\ u.link = Dropped(w.link, n)
         /\ DOMAIN u = Fields
    <2>1. u.level = w.level - 1
      BY <1>3, <1>5, <1>6 DEF Frame
    <2>2. u.level + 1 = w.level /\ u.level \in Nat
      BY <1>7, <2>1
    <2> QED  BY <1>3, <1>5, <1>6, <2>2 DEF Frame
  <1>15. Crowning(t, w, u, n, c)
    BY <1>10, <1>11, <1>12, <1>13, <1>14 DEF Crowning
  <1> QED  BY <1>15 DEF u

\* The tree with another root is done.
LEMMA CrownDone ==
  ASSUME NEW t, NEW w, NEW h, NEW R, NEW n, NEW x, NEW o, NEW e, Lacking(t, w, h, R, n, x, o, e),
         P(t, n) = NULL, NEW c, Len(S(w, n)) = 1, S(w, n)[1] = c, n \in Inner(w), c # n, c \in N(w),
         P(w, c) = n, X(w, c) = -1,
         NEW u, Crowning(t, w, u, n, c)
  PROVE  Settled(Removed(u), o, e, Filed(w))
  <1>1. TreeInv(w, h, R) /\ Listed(w) /\ w.level < MaxLevel
    BY DEF Lacking
  <1>2. Others(t, w, n, o, e)
    BY LackingFill
  <1>3. n = w.root /\ P(w, n) = NULL
    BY NoParent
  <1>4. /\ N(u) = N(w) \ {n} /\ u.root = c /\ u.level + 1 = w.level /\ u.level \in Nat /\ u.ok = TRUE
        /\ u.order = w.order /\ u.entries = w.entries /\ u.link = Dropped(w.link, n) /\ DOMAIN u = Fields
        /\ \A m \in N(u) : NodeFormed(u, m) /\ Same(u, w, m)
        /\ \A m \in N(u) \ {c} : P(w, m) = P(u, m) /\ X(w, m) = X(u, m)
        /\ P(u, c) = NULL /\ c \in N(u)
    BY DEF Crowning
  <1>5. Formed(w) /\ n \in N(w)
    BY <1>1 DEF TreeInv, Inner
  <1>6. Formed(u)
    <2>1. N(u) \subseteq Nat \ {0} /\ IsFiniteSet(N(u))
      BY <1>4, <1>5, FS_RemoveElement DEF Formed
    <2> QED  BY <1>4, <2>1 DEF Formed, Fields
  <1>7. RootBody(u, w, n)
    BY <1>3, <1>4, <1>5 DEF RootBody, Inner
  <1>8. TreeInv(u, h, R)
    BY <1>1, <1>6, <1>7, RootDropped
  <1>9. Rooted(u.link, w.link, n, ListHead(w.level))
    <2>1. /\ DOMAIN w.link = N(w) \cup ListHeads /\ Ring(w.link)
          /\ w.link[ListHead(w.level)].next = n /\ w.link[n].next = ListHead(w.level)
      BY <1>1, <1>3 DEF Listed, Crowned, Nx
    <2>2. ListHead(w.level) \in ListHeads /\ ListHead(w.level) # n
      <3>1. w.level \in 0..(MaxLevel - 1)
        BY <1>1, <1>5, BPlusAssumption DEF Formed
      <3>2. w.level \in Nat
        BY <1>5 DEF Formed
      <3> QED  BY <1>5, <3>1, <3>2, HeadsApart DEF ListHeads
    <2> QED  BY <1>4, <1>5, <2>1, <2>2, RootedDropped
  <1>10. Listed(u)
    BY <1>1, <1>5, <1>6, <1>7, <1>9, RootUnlisted
  <1>11. Filed(w) = Filed(u)
    BY <1>7, RootFiled
  <1>12. Sound(u, o, e)
    <2>1. /\ u.ok = TRUE /\ u.order = o /\ u.entries = e /\ o \in Nat \ 0..2 /\ e \in Nat \ {0}
          /\ w.order = o /\ w.entries = e
      BY <1>2, <1>4 DEF Others
    <2>2. ASSUME NEW m \in N(u) PROVE Fill(u, m)
      <3>1. m \in N(w) \ {n} /\ Same(u, w, m)
        BY <1>4
      <3>2. Fill(w, m)
        BY <1>2, <3>1 DEF Others
      <3>3. FullFill(w, m)
        BY <1>3, <3>1, <3>2 DEF Fill
      <3>4. FullFill(u, m)
        BY <2>1, <3>1, <3>3 DEF FullFill, Same
      <3> QED  BY <3>4 DEF Fill
    <2>3. DOMAIN u.link = N(u) \cup ListHeads
      BY <1>10 DEF Listed
    <2> QED  BY <2>1, <2>2, <2>3 DEF Sound
  <1>13. Settled(Removed(u), o, e, Filed(u))
    BY <1>8, <1>10, <1>12, DoneFact
  <1> QED  BY <1>11, <1>13

\* A root that keeps one child hands it its place.
LEMMA LastChild ==
  ASSUME NEW t, NEW w, NEW h, NEW R, NEW n, NEW x, NEW o, NEW e, Lacking(t, w, h, R, n, x, o, e),
         P(t, n) = NULL, ~is_leaf(t, n), size(t, n) = 2
  PROVE  Settled(Removed(drop_root(t, n, x - 1)), o, e, Filed(w))
  <1>1. PICK c : /\ x = 1 /\ At(S(t, n), 0) = c /\ Len(S(w, n)) = 1 /\ S(w, n)[1] = c
                 /\ c \in N(w) /\ c # n /\ n \in Inner(w) /\ P(w, c) = n /\ X(w, c) = -1
                 /\ \A m \in N(w) : P(w, m) = n => m = c
    BY OneChild
  <1>2. x - 1 = 0
    BY <1>1
  <1>3. Crowning(t, w, drop_root(t, n, 0), n, c)
    BY <1>1, DropRootCrowns
  <1>4. Settled(Removed(drop_root(t, n, 0)), o, e, Filed(w))
    BY <1>1, <1>3, CrownDone
  <1> QED  BY <1>2, <1>4

-----------------------------------------------------------------------------
\* One step of a delete, at a leaf and above.

\* The node whose loss is pending, as the lemmas above see it.
LEMMA LeftLacking ==
  ASSUME NEW s, NEW o, NEW e, NEW F, NEW h, NEW R, Left(s, o, e, F, h, R)
  PROVE  \E a, w : /\ s.remove = a - 1 /\ a \in Int
                   /\ w = non_leaf_simple_remove(s.tree, s.node, a - 1)
                   /\ Lacking(s.tree, w, h, R, s.node, a, o, e)
                   /\ ~is_leaf(s.tree, s.node) /\ Filed(w) = F
  <1> DEFINE t == s.tree
             n == s.node
  <1>1. PICK a \in Int :
           /\ s.remove = a - 1
           /\ LET w == non_leaf_simple_remove(t, n, a - 1)
              IN /\ Gap(t, w, n, a)
                 /\ TreeInv(w, h, R) /\ Listed(w) /\ w.level < MaxLevel
                 /\ Filed(w) = F
    BY DEF Left
  <1> DEFINE w == non_leaf_simple_remove(t, n, a - 1)
  <1>2. /\ Gap(t, w, n, a) /\ TreeInv(w, h, R) /\ Listed(w) /\ w.level < MaxLevel /\ Filed(w) = F
        /\ Sound(t, o, e)
    BY <1>1 DEF Left
  <1>6. w = non_leaf_simple_remove(s.tree, s.node, a - 1)
    OBVIOUS
  <1> HIDE DEF w
  <1>3. ~is_leaf(t, n) /\ n \in N(t) /\ N(w) = N(t)
    BY <1>2 DEF Gap, Loose, PairOut
  <1>4. n \in N(w)
    BY <1>3
  <1>5. Lacking(t, w, h, R, n, a, o, e)
    <2> HIDE DEF t, n
    <2> QED  BY <1>2, <1>3, <1>4 DEF Lacking
  <1> QED  BY <1>1, <1>2, <1>3, <1>5, <1>6

\* What is pending is at the height of a node of the tree.
LEMMA LeftLevel ==
  ASSUME NEW s, NEW o, NEW e, NEW F, NEW h, NEW R, Left(s, o, e, F, h, R)
  PROVE  h[s.node] \in 0..s.tree.level /\ s.node # NULL /\ s.tree.level \in Nat /\ h[s.node] \in Nat
  <1>1. PICK a, w : Lacking(s.tree, w, h, R, s.node, a, o, e)
    BY LeftLacking
  <1>2. Frame(s.tree, w) /\ Formed(w)
    BY <1>1, LackingFacts
  <1>3. s.node \in N(w) /\ TreeInv(w, h, R)
    BY <1>1 DEF Lacking
  <1>4. w.level = s.tree.level /\ w.level \in Nat
    BY <1>2 DEF Frame, Formed
  <1>5. h[s.node] \in 0..w.level
    BY <1>3 DEF TreeInv, Heights
  <1>6. s.node # NULL
    BY <1>2, <1>3 DEF Formed, NULL
  <1> QED  BY <1>4, <1>5, <1>6

\* What is at a height is at any lower one too.
LEMMA LoweringLess ==
  ASSUME NEW x, NEW o, NEW e, NEW F, NEW level, NEW j \in Nat, NEW i \in Nat, i <= j,
         Lowering(x, o, e, F, level, j)
  PROVE  Lowering(x, o, e, F, level, i)
  <1>1. CASE Settled(x, o, e, F)
    BY <1>1 DEF Lowering
  <1>2. CASE \E h, R : Left(x, o, e, F, h, R) /\ h[x.node] >= j /\ x.tree.level = level
    <2>1. PICK h, R : Left(x, o, e, F, h, R) /\ h[x.node] >= j /\ x.tree.level = level
      BY <1>2
    <2>2. h[x.node] \in Nat
      BY <2>1, LeftLevel
    <2>3. h[x.node] >= i
      BY <2>1, <2>2
    <2> QED  BY <2>1, <2>3 DEF Lowering
  <1> QED  BY <1>1, <1>2 DEF Lowering

\* What non_leaf_remove does to n, which is to lose key x - 1 of t; w is t after that.
NonLeafRemoved(t, w, n, x) ==
  LET least == Least(t.order)
      i == X(t, n)
      up == P(t, n)
      prev == prev_entry(t, n)
      next == next_entry(t, n)
  IN CASE size(t, n) > least -> Removed(w)
       [] size(t, n) <= least /\ up = NULL ->
            Removed(IF size(t, n) = 2 THEN drop_root(t, n, x - 1) ELSE w)
       [] size(t, n) <= least /\ up # NULL /\ sibling_is_left(t, n) ->
            IF size(t, prev) > least
            THEN Removed(non_leaf_shift_from_left(t, n, prev, i, x - 1))
            ELSE RemoveFrom(non_leaf_merge_into_left(t, n, prev, i, x - 1), up, i)
       [] size(t, n) <= least /\ up # NULL /\ ~sibling_is_left(t, n) ->
            IF size(t, next) > least
            THEN Removed(non_leaf_shift_from_right(w, n, next, i + 1))
            ELSE RemoveFrom(non_leaf_merge_from_right(w, n, next, i + 1), up, i + 1)

\* With a parent, there is a sibling to turn to.
LEMMA NonLeafTurns ==
  ASSUME NEW t, NEW w, NEW h, NEW R, NEW n, NEW x, NEW o, NEW e, Lacking(t, w, h, R, n, x, o, e),
         ~is_leaf(t, n), P(t, n) # NULL, size(t, n) <= Least(t.order), ~(size(t, n) > Least(t.order))
  PROVE  Lowering(NonLeafRemoved(t, w, n, x), o, e, Filed(w), w.level, h[n] + 1)
  <1>1. Cap(t, n) = t.order
    BY DEF Cap
  <1>2. CASE sibling_is_left(t, n)
    <2> DEFINE m == prev_entry(t, n)
               p == P(t, n)
    <2>1. PICK a, sep : /\ Siblings(w, p, a, m, n, sep, n, m)
                        /\ X(t, n) = a - 1
      BY <1>2, LeftSibling
    <2>2. NonLeafRemoved(t, w, n, x) =
            IF size(t, m) > Least(t.order)
            THEN Removed(non_leaf_shift_from_left(t, n, m, a - 1, x - 1))
            ELSE RemoveFrom(non_leaf_merge_into_left(t, n, m, a - 1, x - 1), p, a - 1)
      BY <1>2, <2>1 DEF NonLeafRemoved
    <2> HIDE DEF m, p
    <2>3. Helped(t, w, h, R, n, x, o, e, p, a, m, n, sep, m)
      BY <1>1, <2>1 DEF Helped
    <2> QED  BY <2>2, <2>3, InnerGoesLeft
  <1>3. CASE ~sibling_is_left(t, n)
    <2> DEFINE m == next_entry(t, n)
               p == P(t, n)
    <2>1. PICK a, sep : /\ Siblings(w, p, a, n, m, sep, n, m)
                        /\ X(t, n) + 1 = a - 1
      BY <1>3, RightSibling
    <2>2. NonLeafRemoved(t, w, n, x) =
            IF size(t, m) > Least(t.order)
            THEN Removed(non_leaf_shift_from_right(w, n, m, a - 1))
            ELSE RemoveFrom(non_leaf_merge_from_right(w, n, m, a - 1), p, a - 1)
      BY <1>3, <2>1 DEF NonLeafRemoved
    <2> HIDE DEF m, p
    <2>3. Helped(t, w, h, R, n, x, o, e, p, a, n, m, sep, m)
      BY <1>1, <2>1 DEF Helped
    <2> QED  BY <2>2, <2>3, InnerGoesRight
  <1> QED  BY <1>2, <1>3

\* Whatever the case, the loss is made good or handed to the parent.
LEMMA NonLeafLowers ==
  ASSUME NEW t, NEW w, NEW h, NEW R, NEW n, NEW x, NEW o, NEW e, Lacking(t, w, h, R, n, x, o, e),
         ~is_leaf(t, n)
  PROVE  Lowering(NonLeafRemoved(t, w, n, x), o, e, Filed(w), w.level, h[n] + 1)
  <1>1. Cap(t, n) = t.order
    BY DEF Cap
  <1>2. size(t, n) \in Nat /\ Least(t.order) \in Nat
    <2>1. Formed(w) /\ size(t, n) = size(w, n) + 1
      BY LackingFacts
    <2>2. size(w, n) \in Nat
      BY <2>1, SizeFacts DEF Lacking
    <2>3. t.order \in Nat \ {0}
      BY DEF Lacking, Sound
    <2>4. Least(t.order) \in Nat
      BY <2>3, Bounds
    <2> QED  BY <2>1, <2>2, <2>4
  <1>3. CASE size(t, n) > Least(t.order)
    <2>1. ~(size(t, n) <= Least(t.order))
      BY <1>2, <1>3
    <2>2. NonLeafRemoved(t, w, n, x) = Removed(w)
      BY <1>3, <2>1 DEF NonLeafRemoved
    <2>3. Settled(Removed(w), o, e, Filed(w))
      BY <1>1, <1>3, AboveBound
    <2> QED  BY <2>2, <2>3 DEF Lowering
  <1>4. CASE ~(size(t, n) > Least(t.order))
    <2>1. size(t, n) <= Least(t.order)
      BY <1>2, <1>4
    <2>2. CASE P(t, n) = NULL
      <3>1. NonLeafRemoved(t, w, n, x) = Removed(IF size(t, n) = 2 THEN drop_root(t, n, x - 1) ELSE w)
        BY <1>4, <2>1, <2>2 DEF NonLeafRemoved
      <3>2. CASE size(t, n) = 2
        <4>1. Settled(Removed(drop_root(t, n, x - 1)), o, e, Filed(w))
          BY <2>2, <3>2, LastChild
        <4> QED  BY <3>1, <3>2, <4>1 DEF Lowering
      <3>3. CASE size(t, n) # 2
        <4>1. Settled(Removed(w), o, e, Filed(w))
          BY <2>2, <3>3, RootLeft
        <4> QED  BY <3>1, <3>3, <4>1 DEF Lowering
      <3> QED  BY <3>2, <3>3
    <2>3. CASE P(t, n) # NULL
      BY <1>4, <2>1, <2>3, NonLeafTurns
    <2> QED  BY <2>2, <2>3
  <1> QED  BY <1>3, <1>4

\* One step towards the root.
LEMMA NonLeafRemove ==
  ASSUME NEW s, NEW o, NEW e, NEW F, NEW h, NEW R, NEW i, Left(s, o, e, F, h, R),
         i \in Nat, h[s.node] >= i
  PROVE  Lowering(non_leaf_remove(s), o, e, F, s.tree.level, i + 1)
  <1>1. PICK a, w : /\ s.remove = a - 1 /\ a \in Int
                    /\ w = non_leaf_simple_remove(s.tree, s.node, a - 1)
                    /\ Lacking(s.tree, w, h, R, s.node, a, o, e)
                    /\ ~is_leaf(s.tree, s.node) /\ Filed(w) = F
    BY LeftLacking
  <1>2. non_leaf_remove(s) = NonLeafRemoved(s.tree, w, s.node, a)
    BY <1>1 DEF non_leaf_remove, NonLeafRemoved, X, P
  <1>3. Lowering(non_leaf_remove(s), o, e, F, w.level, h[s.node] + 1)
    BY <1>1, <1>2, NonLeafLowers
  <1>4. w.level = s.tree.level
    BY <1>1, LackingFacts DEF Frame
  <1>5. h[s.node] \in Nat
    BY LeftLevel
  <1>6. i + 1 \in Nat /\ h[s.node] + 1 \in Nat /\ i + 1 <= h[s.node] + 1
    BY <1>5
  <1> QED  BY <1>3, <1>4, <1>6, LoweringLess

\* Entry x of the leaf n is to go, and w is t without it.
Leaving(t, w, h, R, n, x, o, e) ==
  /\ TreeInv(t, h, R) /\ Listed(t) /\ t.level < MaxLevel /\ Sound(t, o, e)
  /\ n \in Leafs(t) /\ x \in 1..Len(K(t, n)) /\ w = leaf_simple_remove(t, n, x - 1)

\* What is filed under other keys than k.
Besides(F, k) == {kd \in F : kd[1] # k}

\* The keys of the leaf are still sorted, and still its own.
LEMMA LeavingKeys ==
  ASSUME NEW t, NEW w, NEW h, NEW R, NEW n, NEW x, NEW o, NEW e, Leaving(t, w, h, R, n, x, o, e)
  PROVE  Sorted(K(w, n)) /\ \A i \in 1..Len(K(w, n)) : K(w, n)[i] \in R[n]
  <1>1. Thinner(t, w, n, x) /\ TreeInv(t, h, R) /\ n \in N(t) /\ x \in 1..Len(K(t, n))
    BY DEF Leaving, Thinner, TreeInv, Leafs
  <1>2. Lost(K(t, n), x, K(w, n))
    BY <1>1, ThinnerFacts
  <1>3. Sorted(K(t, n)) /\ K(t, n) \in Seq(Int)
    BY <1>1, NodeSorted
  <1>4. \A i \in 1..Len(K(t, n)) : K(t, n)[i] \in R[n]
    BY DEF Leaving, TreeInv, Routes
  <1> DEFINE s == K(t, n)
             s2 == K(w, n)
  <1>5. /\ s \in Seq(Int) /\ x \in 1..Len(s) /\ Len(s2) = Len(s) - 1
        /\ \A j \in 1..(Len(s) - 1) : s2[j] = IF j < x THEN s[j] ELSE s[j + 1]
        /\ \A i, j \in 1..Len(s) : i < j => s[i] < s[j]
        /\ \A i \in 1..Len(s) : s[i] \in R[n]
    BY <1>1, <1>2, <1>3, <1>4 DEF Lost, Sorted
  <1> HIDE DEF s, s2
  <1>6. Len(s) \in Nat /\ x \in Int
    BY <1>5
  <1>7. ASSUME NEW i \in 1..Len(s2), NEW j \in 1..Len(s2), i < j PROVE s2[i] < s2[j]
    <2> DEFINE a == IF i < x THEN i ELSE i + 1
               b == IF j < x THEN j ELSE j + 1
    <2>1. s2[i] = s[a] /\ s2[j] = s[b]
      BY <1>5, <1>7
    <2>2. a \in 1..Len(s) /\ b \in 1..Len(s) /\ a < b
      BY <1>5, <1>6, <1>7
    <2> HIDE DEF a, b
    <2> QED  BY <1>5, <2>1, <2>2
  <1>8. ASSUME NEW i \in 1..Len(s2) PROVE s2[i] \in R[n]
    <2> DEFINE a == IF i < x THEN i ELSE i + 1
    <2>1. s2[i] = s[a]
      BY <1>5, <1>8
    <2>2. a \in 1..Len(s)
      BY <1>5, <1>6, <1>8
    <2> HIDE DEF a
    <2> QED  BY <1>5, <2>1, <2>2
  <1> QED  BY <1>7, <1>8 DEF Sorted, s, s2

\* The tree without the entry is a tree whose leaf lacks it.
LEMMA LeavingLacks ==
  ASSUME NEW t, NEW w, NEW h, NEW R, NEW n, NEW x, NEW o, NEW e, Leaving(t, w, h, R, n, x, o, e)
  PROVE  Lacking(t, w, h, R, n, x, o, e)
  <1>1. /\ TreeInv(t, h, R) /\ Listed(t) /\ t.level < MaxLevel /\ Sound(t, o, e)
        /\ n \in Leafs(t) /\ n \in N(t) /\ is_leaf(t, n) /\ Thinner(t, w, n, x) /\ Formed(t)
    BY DEF Leaving, Thinner, TreeInv, Leafs
  <1>2. /\ Frame(t, w) /\ w.link = t.link /\ N(w) = N(t) /\ Formed(w) /\ is_leaf(w, n)
        /\ \A m \in N(t) \ {n} : Same(t, w, m)
        /\ \A m \in N(t) : P(w, m) = P(t, m) /\ X(w, m) = X(t, m)
    BY <1>1, ThinnerFacts
  <1>3. w.root = t.root /\ w.level = t.level
    BY <1>2 DEF Frame
  <1>4. LeavesChanged(t, w, {n})
    BY <1>1, <1>2, <1>3 DEF LeavesChanged
  <1>5. \A m \in {n} : Sorted(K(w, m)) /\ \A i \in 1..Len(K(w, m)) : K(w, m)[i] \in R[m]
    BY LeavingKeys
  <1>6. TreeInv(w, h, R)
    BY <1>1, <1>2, <1>4, <1>5, LeavesKeep
  <1>7. \A m \in N(t) : /\ is_leaf(w, m) <=> is_leaf(t, m)
                        /\ ~is_leaf(t, m) => S(w, m) = S(t, m)
    BY <1>1, <1>2 DEF Same
  <1>8. Listed(w)
    BY <1>1, <1>2, <1>3, <1>7, SameListed
  <1> QED  BY <1>1, <1>2, <1>3, <1>6, <1>8 DEF Lacking

\* The leaf n has k with d.
Entry(t, n, k, d) == \E i \in 1..Len(K(t, n)) : K(t, n)[i] = k /\ D(t, n)[i] = d

\* An entry of the leaf but number x is an entry of it without number x.
LEMMA LeavingEntry ==
  ASSUME NEW t, NEW w, NEW h, NEW R, NEW n, NEW x, NEW o, NEW e, Leaving(t, w, h, R, n, x, o, e),
         NEW k, NEW d
  PROVE  Entry(w, n, k, d) <=> (Entry(t, n, k, d) /\ k # K(t, n)[x])
  <1>1. Thinner(t, w, n, x) /\ TreeInv(t, h, R) /\ n \in N(t) /\ is_leaf(t, n) /\ NodeFormed(t, n)
    BY DEF Leaving, Thinner, TreeInv, Leafs, Formed
  <1>2. Lost(K(t, n), x, K(w, n)) /\ Lost(D(t, n), x, D(w, n))
    BY <1>1, ThinnerFacts
  <1>3. Sorted(K(t, n)) /\ K(t, n) \in Seq(Int) /\ Len(D(t, n)) = Len(K(t, n))
    BY <1>1, NodeSorted DEF NodeFormed
  <1> DEFINE s == K(t, n)
             s2 == K(w, n)
             b == D(t, n)
             b2 == D(w, n)
  <1>5. /\ s \in Seq(Int) /\ x \in 1..Len(s) /\ Len(s2) = Len(s) - 1
        /\ \A j \in 1..(Len(s) - 1) : s2[j] = IF j < x THEN s[j] ELSE s[j + 1]
        /\ \A j \in 1..(Len(s) - 1) : b2[j] = IF j < x THEN b[j] ELSE b[j + 1]
        /\ \A i, j \in 1..Len(s) : i < j => s[i] < s[j]
    <2>1. x \in 1..Len(K(t, n))
      BY DEF Leaving
    <2> QED  BY <1>2, <1>3, <2>1 DEF Lost, Sorted
  <1> HIDE DEF s, s2, b, b2
  <1>6. Len(s) \in Nat /\ x \in Int /\ \A i \in 1..Len(s) : s[i] \in Int
    BY <1>5
  <1>7. ASSUME NEW j \in 1..Len(s2), s2[j] = k, b2[j] = d
        PROVE  (\E i \in 1..Len(s) : s[i] = k /\ b[i] = d) /\ k # s[x]
    <2> DEFINE a == IF j < x THEN j ELSE j + 1
    <2>1. s2[j] = s[a] /\ b2[j] = b[a]
      BY <1>5, <1>7
    <2>2. a \in 1..Len(s) /\ (a < x \/ x < a)
      BY <1>5, <1>6, <1>7
    <2> HIDE DEF a
    <2>3. s[a] # s[x]
      <3>1. s[a] < s[x] \/ s[x] < s[a]
        BY <1>5, <2>2
      <3>2. s[a] \in Int /\ s[x] \in Int
        BY <1>5, <1>6, <2>2
      <3> QED  BY <3>1, <3>2
    <2> QED  BY <1>7, <2>1, <2>2, <2>3
  <1>8. ASSUME NEW i \in 1..Len(s), s[i] = k, b[i] = d, k # s[x]
        PROVE  \E j \in 1..Len(s2) : s2[j] = k /\ b2[j] = d
    <2> DEFINE j == IF i < x THEN i ELSE i - 1
    <2>1. i # x
      BY <1>8
    <2>2. j \in 1..(Len(s) - 1) /\ i = IF j < x THEN j ELSE j + 1
      BY <1>5, <1>6, <1>8, <2>1
    <2> HIDE DEF j
    <2>3. s2[j] = s[i] /\ b2[j] = b[i] /\ j \in 1..Len(s2)
      BY <1>5, <2>2
    <2> QED  BY <1>8, <2>3
  <1> QED  BY <1>7, <1>8 DEF Entry, s, s2, b, b2

\* Everything but the entry is still filed.
LEMMA LeavingFiled ==
  ASSUME NEW t, NEW w, NEW h, NEW R, NEW n, NEW x, NEW o, NEW e, Leaving(t, w, h, R, n, x, o, e)
  PROVE  Filed(w) = Besides(Filed(t), K(t, n)[x])
  <1> DEFINE key == K(t, n)[x]
  <1>1. /\ TreeInv(t, h, R) /\ n \in Leafs(t) /\ Thinner(t, w, n, x) /\ x \in 1..Len(K(t, n))
    BY DEF Leaving, Thinner, TreeInv
  <1>2. Leafs(w) = Leafs(t) /\ \A m \in Leafs(t) \ {n} : K(w, m) = K(t, m) /\ D(w, m) = D(t, m)
    <2>1. /\ N(w) = N(t) /\ is_leaf(w, n) /\ \A m \in N(t) \ {n} : Same(t, w, m)
      BY <1>1, ThinnerFacts
    <2> QED  BY <1>1, <2>1 DEF Same, Leafs
  <1>3. key \in R[n] /\ key \in Int
    <2>1. \A i \in 1..Len(K(t, n)) : K(t, n)[i] \in R[n]
      BY <1>1 DEF TreeInv, Routes
    <2>2. n \in N(t)
      BY <1>1 DEF Leafs
    <2>3. R[n] \subseteq Int
      BY <1>1, <2>2 DEF TreeInv, Routes
    <2> QED  BY <1>1, <2>1, <2>3
  <1>4. ASSUME NEW m \in Leafs(t) \ {n}, NEW i \in 1..Len(K(t, m)) PROVE K(t, m)[i] # key
    <2>1. SUFFICES ASSUME K(t, m)[i] = key PROVE FALSE
      OBVIOUS
    <2>2. key \in R[m]
      BY <1>1, <1>4, <2>1 DEF TreeInv, Routes
    <2>3. leaf_for(t, key) = m /\ leaf_for(t, key) = n
      BY <1>1, <1>3, <1>4, <2>2, LeafFor
    <2> QED  BY <1>4, <2>3
  <1> HIDE DEF key
  <1>5. ASSUME NEW k, NEW d PROVE Has(w, k, d) <=> (Has(t, k, d) /\ k # key)
    <2>4. Entry(w, n, k, d) <=> (Entry(t, n, k, d) /\ k # K(t, n)[x])
      BY LeavingEntry
    <2>1. (\E j \in 1..Len(K(w, n)) : K(w, n)[j] = k /\ D(w, n)[j] = d)
           <=> ((\E i \in 1..Len(K(t, n)) : K(t, n)[i] = k /\ D(t, n)[i] = d) /\ k # key)
      BY <2>4 DEF Entry, key
    <2>2. ASSUME Has(w, k, d) PROVE Has(t, k, d) /\ k # key
      <3>1. PICK m \in Leafs(w) : \E i \in 1..Len(K(w, m)) : K(w, m)[i] = k /\ D(w, m)[i] = d
        BY <2>2 DEF Has
      <3>2. CASE m = n
        BY <1>1, <2>1, <3>1, <3>2 DEF Has
      <3>3. CASE m # n
        <4>1. m \in Leafs(t) /\ \E i \in 1..Len(K(t, m)) : K(t, m)[i] = k /\ D(t, m)[i] = d
          BY <1>2, <3>1, <3>3
        <4> QED  BY <1>4, <3>3, <4>1 DEF Has
      <3> QED  BY <3>2, <3>3
    <2>3. ASSUME Has(t, k, d), k # key PROVE Has(w, k, d)
      <3>1. PICK m \in Leafs(t) : \E i \in 1..Len(K(t, m)) : K(t, m)[i] = k /\ D(t, m)[i] = d
        BY <2>3 DEF Has
      <3>2. CASE m = n
        <4>1. n \in Leafs(w)
          BY <1>1, <1>2
        <4> QED  BY <2>1, <2>3, <3>1, <3>2, <4>1 DEF Has
      <3>3. CASE m # n
        <4>1. m \in Leafs(w) /\ \E i \in 1..Len(K(w, m)) : K(w, m)[i] = k /\ D(w, m)[i] = d
          BY <1>2, <3>1, <3>3
        <4> QED  BY <4>1 DEF Has
      <3> QED  BY <3>2, <3>3
    <2> QED  BY <2>2, <2>3
  <1>6. Filed(w) = Besides(Filed(t), key)
    BY <1>5 DEF Filed, Besides
  <1> QED  BY <1>6 DEF key

\* What leaf_remove does to n, which is to lose entry x of t; w is t after that.
LeafRemoved(t, w, n, key, x) ==
  LET least == Least(t.entries)
      i == X(t, n)
      up == P(t, n)
      prev == prev_entry(t, n)
      next == next_entry(t, n)
  IN CASE size(t, n) > least -> Removed(w)
       [] size(t, n) <= least /\ up = NULL -> Removed(leaf_of_root(t, n, key, x - 1))
       [] size(t, n) <= least /\ up # NULL /\ sibling_is_left(t, n) ->
            IF size(t, prev) > least
            THEN Removed(leaf_shift_from_left(t, n, prev, i, x - 1))
            ELSE RemoveFrom(leaf_merge_into_left(t, n, prev, x - 1), up, i)
       [] size(t, n) <= least /\ up # NULL /\ ~sibling_is_left(t, n) ->
            IF size(t, next) > least
            THEN Removed(leaf_shift_from_right(w, n, next, i + 1))
            ELSE RemoveFrom(leaf_merge_from_right(w, n, next), up, i + 1)

\* With a parent, there is a sibling to turn to.
LEMMA LeafTurns ==
  ASSUME NEW t, NEW w, NEW h, NEW R, NEW n, NEW x, NEW o, NEW e, Lacking(t, w, h, R, n, x, o, e),
         NEW key,
         is_leaf(t, n), P(t, n) # NULL, size(t, n) <= Least(t.entries), ~(size(t, n) > Least(t.entries))
  PROVE  Lowering(LeafRemoved(t, w, n, key, x), o, e, Filed(w), w.level, h[n] + 1)
  <1>1. Cap(t, n) = t.entries
    BY DEF Cap
  <1>2. CASE sibling_is_left(t, n)
    <2> DEFINE m == prev_entry(t, n)
               p == P(t, n)
    <2>1. PICK a, sep : /\ Siblings(w, p, a, m, n, sep, n, m)
                        /\ X(t, n) = a - 1
      BY <1>2, LeftSibling
    <2>2. LeafRemoved(t, w, n, key, x) =
            IF size(t, m) > Least(t.entries)
            THEN Removed(leaf_shift_from_left(t, n, m, a - 1, x - 1))
            ELSE RemoveFrom(leaf_merge_into_left(t, n, m, x - 1), p, a - 1)
      BY <1>2, <2>1 DEF LeafRemoved
    <2> HIDE DEF m, p
    <2>3. Helped(t, w, h, R, n, x, o, e, p, a, m, n, sep, m)
      BY <1>1, <2>1 DEF Helped
    <2> QED  BY <2>2, <2>3, LeafGoesLeft
  <1>3. CASE ~sibling_is_left(t, n)
    <2> DEFINE m == next_entry(t, n)
               p == P(t, n)
    <2>1. PICK a, sep : /\ Siblings(w, p, a, n, m, sep, n, m)
                        /\ X(t, n) + 1 = a - 1
      BY <1>3, RightSibling
    <2>2. LeafRemoved(t, w, n, key, x) =
            IF size(t, m) > Least(t.entries)
            THEN Removed(leaf_shift_from_right(w, n, m, a - 1))
            ELSE RemoveFrom(leaf_merge_from_right(w, n, m), p, a - 1)
      BY <1>3, <2>1 DEF LeafRemoved
    <2> HIDE DEF m, p
    <2>3. Helped(t, w, h, R, n, x, o, e, p, a, n, m, sep, m)
      BY <1>1, <2>1 DEF Helped
    <2> QED  BY <2>2, <2>3, LeafGoesRight
  <1> QED  BY <1>2, <1>3

\* Whatever the case, the loss is made good or handed to the parent.
LEMMA LeafLowers ==
  ASSUME NEW t, NEW w, NEW h, NEW R, NEW n, NEW x, NEW o, NEW e, Lacking(t, w, h, R, n, x, o, e),
         NEW key, K(t, n)[x] = key, is_leaf(t, n)
  PROVE  Lowering(LeafRemoved(t, w, n, key, x), o, e, Filed(w), w.level, h[n] + 1)
  <1>1. Cap(t, n) = t.entries
    BY DEF Cap
  <1>2. size(t, n) \in Nat /\ Least(t.entries) \in Nat
    <2>1. Formed(w) /\ size(t, n) = size(w, n) + 1
      BY LackingFacts
    <2>2. size(w, n) \in Nat
      BY <2>1, SizeFacts DEF Lacking
    <2>3. t.entries \in Nat \ {0}
      BY DEF Lacking, Sound
    <2>4. Least(t.entries) \in Nat
      BY <2>3, Bounds
    <2> QED  BY <2>1, <2>2, <2>4
  <1>3. CASE size(t, n) > Least(t.entries)
    <2>1. ~(size(t, n) <= Least(t.entries))
      BY <1>2, <1>3
    <2>2. LeafRemoved(t, w, n, key, x) = Removed(w)
      BY <1>3, <2>1 DEF LeafRemoved
    <2>3. Settled(Removed(w), o, e, Filed(w))
      BY <1>1, <1>3, AboveBound
    <2> QED  BY <2>2, <2>3 DEF Lowering
  <1>4. CASE ~(size(t, n) > Least(t.entries))
    <2>1. size(t, n) <= Least(t.entries)
      BY <1>2, <1>4
    <2>2. CASE P(t, n) = NULL
      <3>1. LeafRemoved(t, w, n, key, x) = Removed(leaf_of_root(t, n, key, x - 1))
        BY <1>4, <2>1, <2>2 DEF LeafRemoved
      <3>2. CASE size(t, n) = 1
        <4>1. Settled(Removed(leaf_of_root(t, n, key, x - 1)), o, e, Filed(w))
          BY <2>2, <3>2, LastEntry
        <4> QED  BY <3>1, <4>1 DEF Lowering
      <3>3. CASE size(t, n) # 1
        <4>1. Settled(Removed(w), o, e, Filed(w))
          BY <2>2, <3>3, RootLeft
        <4>2. entries(t, n) # 1
          BY <3>3 DEF size
        <4>3. w = leaf_simple_remove(t, n, x - 1)
          BY DEF Lacking, Thinner
        <4>4. leaf_of_root(t, n, key, x - 1) = w
          BY <4>2, <4>3 DEF leaf_of_root
        <4> QED  BY <3>1, <4>1, <4>4 DEF Lowering
      <3> QED  BY <3>2, <3>3
    <2>3. CASE P(t, n) # NULL
      BY <1>4, <2>1, <2>3, LeafTurns
    <2> QED  BY <2>2, <2>3
  <1> QED  BY <1>3, <1>4

\* The first step of a delete.
LEMMA LeafRemove ==
  ASSUME NEW t, NEW h, NEW R, TreeInv(t, h, R), Listed(t), t.level < MaxLevel, NEW o, NEW e, Sound(t, o, e),
         NEW k \in Int, exists(t, k)
  PROVE  Lowering(leaf_remove(t, leaf_for(t, k), k), o, e, Besides(Filed(t), k), t.level, 1)
  <1> DEFINE n == leaf_for(t, k)
  <1>1. n \in Leafs(t)
    BY LeafFor
  <1> HIDE DEF n
  <1>2. n \in N(t) /\ is_leaf(t, n) /\ Sorted(K(t, n)) /\ K(t, n) \in Seq(Int) /\ t.root # NULL
    <2>1. n \in N(t) /\ is_leaf(t, n)
      BY <1>1 DEF Leafs
    <2>2. t.root # NULL
      BY DEF TreeInv, Formed, NULL
    <2> QED  BY <2>1, <2>2, NodeSorted
  <1>3. key_binary_search(K(t, n), k) >= 0
    BY <1>2 DEF exists, n, K
  <1>4. \E x \in 1..Len(K(t, n)) : K(t, n)[x] = k
    <2>1. CASE \E a \in 0..Len(K(t, n)) : Fits(K(t, n), a, k)
      <3>1. PICK a \in 0..Len(K(t, n)) : Fits(K(t, n), a, k)
        BY <2>1
      <3>2. key_binary_search(K(t, n), k) = -a - 1
        BY <1>2, <3>1, SearchMisses
      <3> QED  BY <1>2, <1>3, <3>2
    <2> QED  BY <1>2, <2>1, KeyPlace
  <1>5. PICK x \in 1..Len(K(t, n)) : K(t, n)[x] = k
    BY <1>4
  <1>6. key_binary_search(K(t, n), k) = x - 1
    BY <1>2, <1>5, SearchFinds
  <1> DEFINE w == leaf_simple_remove(t, n, x - 1)
  <1>7. leaf_remove(t, n, k) = LeafRemoved(t, w, n, k, x)
    BY <1>6 DEF leaf_remove, LeafRemoved, K, X, P
  <1>8. Leaving(t, w, h, R, n, x, o, e)
    BY <1>1 DEF Leaving
  <1> HIDE DEF w
  <1>9. Lacking(t, w, h, R, n, x, o, e)
    BY <1>8, LeavingLacks
  <1>10. Filed(w) = Besides(Filed(t), k)
    BY <1>5, <1>8, LeavingFiled
  <1>11. Lowering(LeafRemoved(t, w, n, k, x), o, e, Filed(w), w.level, h[n] + 1)
    BY <1>2, <1>5, <1>9, LeafLowers
  <1>12. h[n] + 1 = 1
    <2>1. h[n] = 0
      BY <1>2 DEF TreeInv, Heights
    <2> QED  BY <2>1
  <1>13. w.level = t.level
    BY <1>9, LackingFacts DEF Frame
  <1> QED  BY <1>7, <1>10, <1>11, <1>12, <1>13 DEF n

-----------------------------------------------------------------------------
\* The climb from the leaf towards the root.
Upward(s) == IF s.node = NULL THEN s ELSE non_leaf_remove(s)
Retreats(f, s, n) == f = [i \in 0..n |-> IF i = 0 THEN s ELSE Upward(f[i - 1])]

\* The climb has a value at every height.
LEMMA RetreatExists ==
  ASSUME NEW s, NEW n \in Nat
  PROVE  \E f : Retreats(f, s, n)
  <1> DEFINE T == {i \in Nat : ~\E f : Retreats(f, s, i)}
  <1>1. \E f : Retreats(f, s, 0)
    <2> DEFINE g == [i \in 0..0 |-> s]
    <2>1. g = [i \in 0..0 |-> IF i = 0 THEN s ELSE Upward(g[i - 1])]
      OBVIOUS
    <2> HIDE DEF g
    <2> QED  BY <2>1 DEF Retreats
  <1>2. ASSUME NEW j \in Nat, NEW f, Retreats(f, s, j)
        PROVE  \E g : Retreats(g, s, j + 1)
    <2> DEFINE g == [i \in 0..(j + 1) |-> IF i = 0 THEN s ELSE Upward(f[i - 1])]
    <2>1. \A i \in 0..(j + 1) : g[i] = IF i = 0 THEN s ELSE Upward(f[i - 1])
      OBVIOUS
    <2>2. \A i \in 0..j : f[i] = IF i = 0 THEN s ELSE Upward(f[i - 1])
      BY <1>2 DEF Retreats
    <2>3. g = [i \in 0..(j + 1) |-> g[i]]
      OBVIOUS
    <2> HIDE DEF g
    <2>4. \A i \in 0..j : g[i] = f[i]
      BY <2>1, <2>2
    <2>5. \A i \in 0..(j + 1) : i # 0 => i - 1 \in 0..j
      OBVIOUS
    <2>6. \A i \in 0..(j + 1) : g[i] = IF i = 0 THEN s ELSE Upward(g[i - 1])
      BY <2>1, <2>4, <2>5
    <2>7. g = [i \in 0..(j + 1) |-> IF i = 0 THEN s ELSE Upward(g[i - 1])]
      BY <2>3, <2>6
    <2> QED  BY <2>7 DEF Retreats
  <1>3. T = {}
    <2>1. SUFFICES ASSUME T # {} PROVE FALSE
      OBVIOUS
    <2>2. PICK i \in T : \A j \in T : i <= j
      BY <2>1, LeastNumber
    <2>3. i # 0
      BY <1>1, <2>2
    <2>4. i - 1 \in Nat /\ i - 1 \notin T /\ (i - 1) + 1 = i
      BY <2>2, <2>3
    <2> QED  BY <1>2, <2>2, <2>4
  <1> QED  BY <1>3

\* There is nothing left to be removed above the root.
LEMMA RetreatEnds ==
  ASSUME NEW s, NEW o, NEW e, NEW F, NEW L \in Nat, NEW f,
         Retreats(f, s, L + 1), Lowering(s, o, e, F, L, 1)
  PROVE  Settled(f[L + 1], o, e, F)
  <1>1. \A i \in 0..(L + 1) : f[i] = IF i = 0 THEN s ELSE Upward(f[i - 1])
    BY DEF Retreats
  <1> DEFINE T == {i \in Nat : i <= L + 1 /\ ~Lowering(f[i], o, e, F, L, i + 1)}
  <1>2. T = {}
    <2>1. SUFFICES ASSUME T # {} PROVE FALSE
      OBVIOUS
    <2>2. PICK i \in T : \A j \in T : i <= j
      BY <2>1, LeastNumber
    <2>3. i # 0
      BY <1>1, <2>2
    <2>4. /\ i - 1 \in Nat /\ i - 1 <= L + 1 /\ i - 1 \notin T /\ i \in 0..(L + 1)
          /\ (i - 1) + 1 = i /\ i + 1 \in Int /\ i \in Nat
      BY <2>2, <2>3
    <2>5. Lowering(f[i - 1], o, e, F, L, i)
      BY <2>4
    <2>6. f[i] = Upward(f[i - 1])
      BY <1>1, <2>3, <2>4
    <2>7. CASE Settled(f[i - 1], o, e, F)
      <3>1. f[i] = f[i - 1]
        BY <2>6, <2>7 DEF Upward, Settled
      <3> QED  BY <2>2, <2>7, <3>1 DEF Lowering
    <2>8. CASE \E h, R : Left(f[i - 1], o, e, F, h, R) /\ h[f[i - 1].node] >= i /\ f[i - 1].tree.level = L
      <3>1. PICK h, R : Left(f[i - 1], o, e, F, h, R) /\ h[f[i - 1].node] >= i /\ f[i - 1].tree.level = L
        BY <2>8
      <3>2. f[i - 1].node # NULL
        BY <3>1, LeftLevel
      <3>3. Lowering(non_leaf_remove(f[i - 1]), o, e, F, L, i + 1)
        BY <2>4, <3>1, NonLeafRemove
      <3>4. f[i] = non_leaf_remove(f[i - 1])
        BY <2>6, <3>2 DEF Upward
      <3> QED  BY <2>2, <3>3, <3>4
    <2> QED  BY <2>5, <2>7, <2>8 DEF Lowering
  <1>3. Lowering(f[L + 1], o, e, F, L, (L + 1) + 1)
    <2>1. L + 1 \in Nat /\ L + 1 <= L + 1
      OBVIOUS
    <2> QED  BY <1>2, <2>1
  <1>4. ASSUME NEW h, NEW R, Left(f[L + 1], o, e, F, h, R), h[f[L + 1].node] >= (L + 1) + 1,
               f[L + 1].tree.level = L
        PROVE  FALSE
    <2>1. h[f[L + 1].node] \in 0..L
      BY <1>4, LeftLevel
    <2> QED  BY <1>4, <2>1
  <1> QED  BY <1>3, <1>4 DEF Lowering

\* A delete of a key that is there keeps the tree a tree, and everything else filed.
LEMMA DeleteKeeps ==
  ASSUME NEW t, TreeState(t), t.level < MaxLevel, NEW k \in Int, exists(t, k)
  PROVE  LET u == bplus_tree_delete(t, k)
         IN /\ TreeState(u) /\ u.order = t.order /\ u.entries = t.entries
            /\ Filed(u) = Besides(Filed(t), k)
  <1> DEFINE s == leaf_remove(t, leaf_for(t, k), k)
             F == Besides(Filed(t), k)
             L == t.level
             o == t.order
             e == t.entries
             f == CHOOSE f : f = [i \in 0..(L + 1) |->
                                    IF i = 0 THEN s
                                    ELSE LET below == f[i - 1]
                                         IN IF below.node = NULL THEN below ELSE non_leaf_remove(below)]
  <1>1. ~Bare(t)
    BY DEF Bare, exists
  <1>2. PICK h, R : TreeInv(t, h, R) /\ Sound(t, o, e) /\ Listed(t)
    BY <1>1 DEF TreeState, Grown, InLists
  <1>3. L \in Nat
    BY <1>2 DEF TreeInv, Formed
  <1>4. Lowering(s, o, e, F, L, 1)
    <2> HIDE DEF o, e
    <2> QED  BY <1>2, LeafRemove
  <1>5. Retreats(f, s, L + 1)
    <2> HIDE DEF s, F, L
    <2>1. L + 1 \in Nat
      BY <1>3
    <2>2. PICK g : Retreats(g, s, L + 1)
      BY <2>1, RetreatExists
    <2>3. g = [i \in 0..(L + 1) |->
                 IF i = 0 THEN s
                 ELSE LET below == g[i - 1]
                      IN IF below.node = NULL THEN below ELSE non_leaf_remove(below)]
      BY <2>2 DEF Retreats, Upward
    <2>4. f = [i \in 0..(L + 1) |->
                 IF i = 0 THEN s
                 ELSE LET below == f[i - 1]
                      IN IF below.node = NULL THEN below ELSE non_leaf_remove(below)]
      BY <2>3
    <2> QED  BY <2>4 DEF Retreats, Upward
  <1>6. bplus_tree_delete(t, k) = f[L + 1].tree
    BY DEF bplus_tree_delete
  <1> HIDE DEF f, s, F, L, o, e
  <1>7. Settled(f[L + 1], o, e, F)
    BY <1>3, <1>4, <1>5, RetreatEnds
  <1> QED  BY <1>6, <1>7 DEF Settled, F, o, e

-----------------------------------------------------------------------------
\* Puts and deletes in any order.

\* The tree is no higher than it has list heads.  The code does not check it:
\* node_delete and list_add of a node above would go to heads that are not there.
Fitting == tree.level < MaxLevel

\* A delete keeps the invariant.
LEMMA BuiltDel ==
  ASSUME BuiltInv, Fitting, NEW k \in Int, Del(k)
  PROVE  BuiltInv' /\ Filed(tree)' = Besides(Filed(tree), k)
  <1>1. tree' = bplus_tree_delete(tree, k) /\ exists(tree, k) /\ reply' = 0
    BY DEF Del
  <1>2. /\ TreeState(tree') /\ tree'.order = tree.order /\ tree'.entries = tree.entries
        /\ Filed(tree') = Besides(Filed(tree), k)
    <2>1. TreeState(tree) /\ tree.level < MaxLevel
      BY DEF BuiltInv, Fitting
    <2>2. LET u == bplus_tree_delete(tree, k)
          IN /\ TreeState(u) /\ u.order = tree.order /\ u.entries = tree.entries
             /\ Filed(u) = Besides(Filed(tree), k)
      BY <1>1, <2>1, DeleteKeeps
    <2> QED  BY <1>1, <2>2
  <1>3. TreeState(tree)' = TreeState(tree') /\ Filed(tree)' = Filed(tree')
    OBVIOUS
  <1>4. Filed(tree') \subseteq Inputs
    BY <1>2 DEF Besides, BuiltInv
  <1> QED  BY <1>1, <1>2, <1>4 DEF BuiltInv

\* So does every step.
LEMMA TreeStep ==
  ASSUME BuiltInv, Fitting, [Next]_vars
  PROVE  BuiltInv'
  <1>1. CASE UNCHANGED vars
    BY <1>1 DEF BuiltInv, vars
  <1>2. CASE BuildNext
    BY <1>2, BuiltStep
  <1>3. CASE \E k \in Probes : Del(k) \/ DelAbsent(k)
    <2>1. PICK k \in Probes : Del(k) \/ DelAbsent(k)
      BY <1>3
    <2>2. k \in Int
      BY BPlusAssumption
    <2>3. CASE Del(k)
      BY <2>2, <2>3, BuiltDel
    <2>4. CASE DelAbsent(k)
      BY <2>4 DEF DelAbsent, BuiltInv
    <2> QED  BY <2>1, <2>3, <2>4
  <1> QED  BY <1>1, <1>2, <1>3 DEF Next, BuildNext

\* The inductive invariant holds of every tree that puts and deletes lead to, as
\* long as the levels have list heads.
THEOREM AlwaysTree == Spec /\ []Fitting => []BuiltInv
  <1>1. Init => BuiltInv
    BY BuiltInit
  <1>2. BuiltInv /\ Fitting /\ [Next]_vars => BuiltInv'
    BY TreeStep
  <1> QED  BY <1>1, <1>2, PTL DEF Spec

\* Every node but the root knows its parent and which key of it it hangs off, also
\* after the shifts, merges and renumberings of deletes: the next delete below it
\* edits the parent at that index (bplustree.cpp, lines 562 to 800).
THEOREM ParentsStayRight == Spec /\ []Fitting => []ParentsExact
  <1>1. BuiltInv => ParentsExact
    BY InvParentsExact DEF BuiltInv
  <1> QED  BY <1>1, AlwaysTree, PTL

\* The keys of every node ascend, and every separator has the smaller keys on its
\* left and the others on its right, also after the key that it was copied from has
\* been deleted or has moved to a sibling.
THEOREM SeparatorsStayRight == Spec /\ []Fitting => []SeparatorsRoute
  <1>1. BuiltInv => SeparatorsRoute
    BY InvSeparatorsRoute DEF BuiltInv
  <1> QED  BY <1>1, AlwaysTree, PTL

\* No node but the root ever holds less than the smaller part of a split, whatever
\* has been deleted, so that there always is something to borrow from or to merge with.
THEOREM NodesStayFilled == Spec /\ []Fitting => []Occupancy
  <1>1. BuiltInv => Occupancy
    BY InvOccupancy DEF BuiltInv
  <1> QED  BY <1>1, AlwaysTree, PTL

\* No assertion on the way of a put or a delete fails, for any order and capacity.
THEOREM AssertsAlwaysHold == Spec /\ []Fitting => []NoAssertFails
  <1>1. BuiltInv => NoAssertFails
    BY InvNoAssertFails DEF BuiltInv
  <1> QED  BY <1>1, AlwaysTree, PTL

\* bplus_tree_get answers every key with the position it was put under, or with -1
\* when it was never put or has been deleted.
THEOREM GetsStayRight == Spec /\ []Fitting => []GetAnswers
  <1>1. BuiltInv => GetAnswers
    BY InvGetAnswers DEF BuiltInv
  <1> QED  BY <1>1, AlwaysTree, PTL

\* Nodes hold no more than the arrays of the code, and links and parents lead to
\* nodes that have not been freed.
THEOREM TypeStaysCorrect == Spec /\ []Fitting => []TypeOK
  <1>1. BuiltInv /\ Fitting => TypeOK
    BY InvTypeOK DEF BuiltInv, Fitting
  <1> QED  BY <1>1, AlwaysTree, PTL

\* A delete in the tree is a delete in the map.
LEMMA MapDelete ==
  ASSUME BuiltInv, Fitting, NEW k \in Int, Del(k)
  PROVE  Map!Delete(k)
  <1>1. PICK d : <<k, d>> \in Filed(tree)
    BY ExistsStored DEF BuiltInv, Del
  <1>2. <<k, d>> \in Inputs /\ <<k, d>>[2] = d
    BY <1>1 DEF BuiltInv
  <1>3. d \in Map!PositionsOf(k)
    BY <1>1, <1>2, MapPositions DEF BuiltInv
  <1>4. BuiltInv' /\ Filed(tree)' = Besides(Filed(tree), k)
    BY BuiltDel
  <1>5. stored = Filed(tree)
    BY StoredIsFiled DEF BuiltInv
  <1>6. stored' = Filed(tree)'
    <2>1. TreeState(tree)'
      BY <1>4 DEF BuiltInv
    <2> QED  BY <2>1, StoredNext
  <1>7. stored' = {kv \in stored : kv[1] # k}
    BY <1>4, <1>5, <1>6 DEF Besides
  <1>8. reply' = 0
    BY DEF Del
  <1> QED  BY <1>3, <1>7, <1>8 DEF Map!Delete, Map!Success

\* A refused delete in the tree is one in the map.
LEMMA MapAbsent ==
  ASSUME BuiltInv, NEW k \in Int, DelAbsent(k)
  PROVE  Map!DeleteAbsent(k)
  <1>1. Map!PositionsOf(k) = {}
    BY ExistsStored, MapPositions DEF BuiltInv, DelAbsent
  <1>2. stored' = stored
    BY DEF DelAbsent, stored, Leaves, Nodes, is_leaf, entries
  <1> QED  BY <1>1, <1>2 DEF Map!DeleteAbsent, Map!NotFound, DelAbsent

\* Every step of the tree is one of the map, or none.
LEMMA MapNext ==
  ASSUME BuiltInv, Fitting, [Next]_vars
  PROVE  [Map!Next]_(Map!vars)
  <1>1. CASE [BuildNext]_vars
    BY <1>1, MapStep
  <1>2. CASE \E k \in Probes : Del(k) \/ DelAbsent(k)
    <2>1. PICK k \in Probes : Del(k) \/ DelAbsent(k)
      BY <1>2
    <2>2. k \in Int
      BY BPlusAssumption
    <2>3. CASE Del(k)
      <3>1. Map!Delete(k)
        BY <2>2, <2>3, MapDelete
      <3> QED  BY <3>1 DEF Map!Next
    <2>4. CASE DelAbsent(k)
      <3>1. Map!DeleteAbsent(k)
        BY <2>2, <2>4, MapAbsent
      <3> QED  BY <3>1 DEF Map!Next
    <2> QED  BY <2>1, <2>3, <2>4
  <1> QED  BY <1>1, <1>2 DEF Next, BuildNext

\* The tree implements the abstract index, split by split and merge by merge: every
\* put and delete that the code carries out or refuses is one of IndexMap, with its reply.
THEOREM TreeStaysMap == Spec /\ []Fitting => ImplementsIndexMap
  <1>1. Init => Map!Init
    BY MapInit
  <1>2. BuiltInv /\ Fitting /\ [Next]_vars => [Map!Next]_(Map!vars)
    BY MapNext
  <1> QED  BY <1>1, <1>2, AlwaysTree, PTL DEF Spec, ImplementsIndexMap, Map!Spec

-----------------------------------------------------------------------------
\* The nodes of a level from left to right.

\* Every key of low is smaller than every key of high.
Apart(low, high) == \A a \in low, b \in high : a < b

\* The lists of the tree are in order.
Levelled(t, h, R) == TreeInv(t, h, R) /\ Listed(t) /\ t.level < MaxLevel

\* A is the list of level l, and the keys of its nodes go from left to right.
Row(t, h, R, l, A) ==
  /\ A \in Seq(N(t)) /\ Len(A) >= 1
  /\ Nx(t, ListHead(l)) = A[1] /\ Nx(t, A[Len(A)]) = ListHead(l)
  /\ \A j \in 1..(Len(A) - 1) : Nx(t, A[j]) = A[j + 1]
  /\ \A j \in 1..Len(A) : h[A[j]] = l
  /\ \A n \in N(t) : h[n] = l => \E j \in 1..Len(A) : A[j] = n
  /\ \A i, j \in 1..Len(A) : i < j => Apart(R[A[i]], R[A[j]])

\* The root is the list of its level.
LEMMA RootRow ==
  ASSUME NEW t, NEW h, NEW R, Levelled(t, h, R)
  PROVE  Row(t, h, R, t.level, <<t.root>>)
  <1> DEFINE A == <<t.root>>
  <1>1. t.root \in N(t) /\ h[t.root] = t.level /\ t.level \in Nat
    BY DEF Levelled, TreeInv, Formed, Heights
  <1>2. A \in Seq(N(t)) /\ Len(A) = 1 /\ A[1] = t.root
    BY <1>1
  <1>3. Nx(t, ListHead(t.level)) = t.root /\ Nx(t, t.root) = ListHead(t.level)
    BY DEF Levelled, Listed, Crowned
  <1>4. ASSUME NEW n \in N(t), h[n] = t.level PROVE n = t.root
    <2>1. SUFFICES ASSUME n # t.root PROVE FALSE
      OBVIOUS
    <2>2. Owned(t, n)
      BY <2>1 DEF Levelled, TreeInv, Parents
    <2>3. h[n] = h[P(t, n)] - 1 /\ h[P(t, n)] \in 1..t.level
      BY <2>2, ChildFacts DEF Levelled, Owned
    <2> QED  BY <1>1, <1>4, <2>3
  <1> HIDE DEF A
  <1>5. ASSUME NEW i \in 1..Len(A), NEW j \in 1..Len(A), i < j PROVE FALSE
    BY <1>2, <1>5
  <1>6. ASSUME NEW j \in 1..(Len(A) - 1) PROVE FALSE
    BY <1>2, <1>6
  <1>7. ASSUME NEW j \in 1..Len(A) PROVE A[j] = t.root
    BY <1>2, <1>7
  <1>8. 1 \in 1..Len(A)
    BY <1>2
  <1> QED  BY <1>1, <1>2, <1>3, <1>4, <1>5, <1>6, <1>7, <1>8 DEF Row, A

\* B are the children of the first i nodes of A.
Lines(t, h, R, l, A, i, B) ==
  /\ B \in Seq(N(t)) /\ Len(B) >= 1
  /\ B[1] = S(t, A[1])[1] /\ B[Len(B)] = S(t, A[i])[Len(S(t, A[i]))]
  /\ \A j \in 1..(Len(B) - 1) : Nx(t, B[j]) = B[j + 1]
  /\ \A j \in 1..Len(B) : h[B[j]] = l /\ \E x \in 1..i : R[B[j]] \subseteq R[A[x]]
  /\ \A x \in 1..i : \A c \in 1..Len(S(t, A[x])) : \E j \in 1..Len(B) : B[j] = S(t, A[x])[c]
  /\ \A j, k \in 1..Len(B) : j < k => Apart(R[B[j]], R[B[k]])

\* The children of p, in order.
Line(t, h, R, l, p, B) ==
  /\ p \in Inner(t) /\ B = S(t, p) /\ B \in Seq(N(t)) /\ Len(B) \in Nat \ {0}
  /\ \A j \in 1..(Len(B) - 1) : Nx(t, B[j]) = B[j + 1]
  /\ \A j \in 1..Len(B) : h[B[j]] = l /\ R[B[j]] \subseteq R[p]
  /\ \A j, k \in 1..Len(B) : j < k => Apart(R[B[j]], R[B[k]])

\* The children of one node.
LEMMA OneLine ==
  ASSUME NEW t, NEW h, NEW R, Levelled(t, h, R), NEW l \in Nat, NEW p \in N(t), h[p] = l + 1
  PROVE  Line(t, h, R, l, p, S(t, p))
  <1>1. TreeInv(t, h, R) /\ p \in Inner(t) /\ NodeFormed(t, p)
    <2>1. h[p] # 0
      OBVIOUS
    <2> QED  BY <2>1 DEF Levelled, TreeInv, Heights, Formed, Inner
  <1>2. S(t, p) \in Seq(N(t)) /\ Len(S(t, p)) = Len(K(t, p)) + 1 /\ K(t, p) \in Seq(Int)
    BY <1>1 DEF NodeFormed, Inner
  <1>3. \A j \in 1..(Len(S(t, p)) - 1) : Nx(t, S(t, p)[j]) = S(t, p)[j + 1]
    BY <1>1 DEF Levelled, Listed, Strung
  <1>4. ASSUME NEW j \in 1..Len(S(t, p))
        PROVE  h[S(t, p)[j]] = l /\ R[S(t, p)[j]] = Route(K(t, p), R[p], j)
    <2>1. h[S(t, p)[j]] = h[p] - 1 /\ R[S(t, p)[j]] = Route(K(t, p), R[p], j)
      BY <1>1, ChildFacts
    <2> QED  BY <2>1
  <1>5. R[p] \subseteq Int
    BY <1>1 DEF TreeInv, Routes
  <1> DEFINE keys == K(t, p)
             subs == S(t, p)
  <1>6. ASSUME NEW j \in 1..Len(subs), NEW k \in 1..Len(subs), j < k PROVE Apart(R[subs[j]], R[subs[k]])
    <2>1. SUFFICES ASSUME NEW a \in R[subs[j]], NEW b \in R[subs[k]] PROVE a < b
      BY DEF Apart
    <2>2. a \in Route(keys, R[p], j) /\ b \in Route(keys, R[p], k)
      BY <1>4, <2>1
    <2>3. keys \in Seq(Int) /\ Len(subs) = Len(keys) + 1
      BY <1>2
    <2> HIDE DEF keys, subs
    <2>4. j \in 1..Len(keys) /\ ~(j < j)
      BY <1>6, <2>3
    <2>5. a < keys[j] /\ keys[j] <= b /\ a \in Int /\ b \in Int /\ keys[j] \in Int
      BY <1>5, <1>6, <2>2, <2>3, <2>4 DEF Route
    <2> QED  BY <2>5
  <1>7. Len(S(t, p)) \in Nat \ {0}
    BY <1>2
  <1>8. \A j \in 1..Len(S(t, p)) : h[S(t, p)[j]] = l /\ R[S(t, p)[j]] \subseteq R[p]
    BY <1>4 DEF Route
  <1> QED  BY <1>1, <1>2, <1>3, <1>6, <1>7, <1>8 DEF Line

\* The children of the first node.
LEMMA FirstLine ==
  ASSUME NEW t, NEW h, NEW R, Levelled(t, h, R), NEW l \in Nat, NEW A, Row(t, h, R, l + 1, A)
  PROVE  Lines(t, h, R, l, A, 1, S(t, A[1]))
  <1>1. A[1] \in N(t) /\ h[A[1]] = l + 1
    <2>1. A \in Seq(N(t)) /\ 1 \in 1..Len(A)
      BY DEF Row
    <2> QED  BY <2>1 DEF Row
  <1> DEFINE p == A[1]
             B == S(t, p)
  <1>7. p \in N(t) /\ h[p] = l + 1
    BY <1>1
  <1> HIDE DEF p
  <1>2. /\ p \in Inner(t) /\ B \in Seq(N(t)) /\ Len(B) \in Nat \ {0}
        /\ \A j \in 1..(Len(B) - 1) : Nx(t, B[j]) = B[j + 1]
        /\ \A j \in 1..Len(B) : h[B[j]] = l /\ R[B[j]] \subseteq R[p]
        /\ \A j, k \in 1..Len(B) : j < k => Apart(R[B[j]], R[B[k]])
    <2>1. Line(t, h, R, l, p, B)
      BY <1>7, OneLine
    <2> QED  BY <2>1 DEF Line
  <1> HIDE DEF B
  <1>8. Len(B) >= 1
    BY <1>2
  <1>3. \A j \in 1..Len(B) : \E x \in 1..1 : R[B[j]] \subseteq R[A[x]]
    BY <1>2 DEF p
  <1>4. \A x \in 1..1 : \A c \in 1..Len(S(t, A[x])) : \E j \in 1..Len(B) : B[j] = S(t, A[x])[c]
    BY DEF p, B
  <1>5. B[1] = S(t, A[1])[1] /\ B[Len(B)] = S(t, A[1])[Len(S(t, A[1]))]
    BY DEF p, B
  <1>6. Lines(t, h, R, l, A, 1, B)
    BY <1>2, <1>3, <1>4, <1>5, <1>8 DEF Lines
  <1> QED  BY <1>6 DEF B, p

\* The children of one node more.
LEMMA NextLine ==
  ASSUME NEW t, NEW h, NEW R, Levelled(t, h, R), NEW l \in Nat, NEW A, Row(t, h, R, l + 1, A),
         NEW i \in 1..(Len(A) - 1), NEW B, Lines(t, h, R, l, A, i, B)
  PROVE  Lines(t, h, R, l, A, i + 1, B \o S(t, A[i + 1]))
  <1>1. /\ A \in Seq(N(t)) /\ Len(A) \in Nat /\ i \in 1..Len(A) /\ i + 1 \in 1..Len(A) /\ i \in Nat
        /\ A[i] \in N(t) /\ A[i + 1] \in N(t) /\ Nx(t, A[i]) = A[i + 1]
        /\ h[A[i]] = l + 1 /\ h[A[i + 1]] = l + 1
    <2>1. A \in Seq(N(t))
      BY DEF Row
    <2>2. Len(A) \in Nat /\ i \in 1..Len(A) /\ i + 1 \in 1..Len(A) /\ i \in Nat
      BY <2>1
    <2> QED  BY <2>1, <2>2 DEF Row
  <1> DEFINE p == A[i]
             q == A[i + 1]
             C == S(t, q)
             Z == B \o C
  <1>2. /\ B \in Seq(N(t)) /\ Len(B) >= 1 /\ Len(B) \in Nat
        /\ B[1] = S(t, A[1])[1] /\ B[Len(B)] = S(t, p)[Len(S(t, p))]
        /\ \A j \in 1..(Len(B) - 1) : Nx(t, B[j]) = B[j + 1]
        /\ \A j \in 1..Len(B) : h[B[j]] = l /\ \E x \in 1..i : R[B[j]] \subseteq R[A[x]]
        /\ \A x \in 1..i : \A c \in 1..Len(S(t, A[x])) : \E j \in 1..Len(B) : B[j] = S(t, A[x])[c]
        /\ \A j, k \in 1..Len(B) : j < k => Apart(R[B[j]], R[B[k]])
    <2>1. B \in Seq(N(t)) /\ Len(B) >= 1
      BY DEF Lines
    <2>2. Len(B) \in Nat
      BY <2>1
    <2>3. B[1] = S(t, A[1])[1] /\ B[Len(B)] = S(t, p)[Len(S(t, p))]
      BY DEF Lines
    <2>4. /\ \A j \in 1..(Len(B) - 1) : Nx(t, B[j]) = B[j + 1]
          /\ \A j \in 1..Len(B) : h[B[j]] = l /\ \E x \in 1..i : R[B[j]] \subseteq R[A[x]]
      BY Zenon DEF Lines
    <2>5. /\ \A x \in 1..i : \A c \in 1..Len(S(t, A[x])) : \E j \in 1..Len(B) : B[j] = S(t, A[x])[c]
          /\ \A j, k \in 1..Len(B) : j < k => Apart(R[B[j]], R[B[k]])
      BY Zenon DEF Lines
    <2> QED  BY <2>1, <2>2, <2>3, <2>4, <2>5, Zenon
  <1> HIDE DEF p, q
  <1>3. p \in Inner(t)
    <2>1. Line(t, h, R, l, p, S(t, p))
      BY <1>1, OneLine DEF p
    <2> QED  BY <2>1 DEF Line
  <1>4. /\ q \in Inner(t) /\ C \in Seq(N(t)) /\ Len(C) \in Nat \ {0}
        /\ \A j \in 1..(Len(C) - 1) : Nx(t, C[j]) = C[j + 1]
        /\ \A j \in 1..Len(C) : h[C[j]] = l /\ R[C[j]] \subseteq R[q]
        /\ \A j, k \in 1..Len(C) : j < k => Apart(R[C[j]], R[C[k]])
    <2>1. Line(t, h, R, l, q, C)
      BY <1>1, OneLine DEF q
    <2> QED  BY <2>1 DEF Line
  <1>5. Nx(t, B[Len(B)]) = C[1]
    <2>1. Nx(t, LastBelow(t, p)) = FirstBelow(t, q)
      BY <1>1, <1>3, <1>4 DEF Levelled, Listed, Strung, Above, p, q
    <2>2. ~(p < 0) /\ ~(q < 0)
      BY <1>3, <1>4 DEF Inner, Levelled, TreeInv, Formed
    <2> QED  BY <1>2, <2>1, <2>2 DEF LastBelow, FirstBelow
  <1> HIDE DEF C
  <1>6. /\ Z \in Seq(N(t)) /\ Len(Z) = Len(B) + Len(C) /\ Len(Z) \in Nat /\ Len(Z) >= 1
        /\ \A j \in 1..Len(Z) : Z[j] = IF j <= Len(B) THEN B[j] ELSE C[j - Len(B)]
    BY <1>2, <1>4
  <1> HIDE DEF Z
  <1>7. Z[1] = S(t, A[1])[1] /\ Z[Len(Z)] = C[Len(C)]
    <2>1. 1 \in 1..Len(Z) /\ Len(Z) \in 1..Len(Z) /\ 1 <= Len(B) /\ ~(Len(Z) <= Len(B))
          /\ Len(Z) - Len(B) = Len(C)
      BY <1>2, <1>4, <1>6
    <2> QED  BY <1>2, <1>6, <2>1
  <1>8. ASSUME NEW j \in 1..(Len(Z) - 1) PROVE Nx(t, Z[j]) = Z[j + 1]
    <2>1. j \in 1..Len(Z) /\ j + 1 \in 1..Len(Z) /\ j \in Int
      BY <1>6
    <2>2. CASE j < Len(B)
      <3>1. j <= Len(B) /\ j + 1 <= Len(B) /\ j \in 1..(Len(B) - 1)
        BY <1>2, <2>1, <2>2
      <3> QED  BY <1>2, <1>6, <2>1, <3>1
    <2>3. CASE j = Len(B)
      <3>1. j <= Len(B) /\ ~(j + 1 <= Len(B)) /\ (j + 1) - Len(B) = 1
        BY <1>2, <2>1, <2>3
      <3> QED  BY <1>5, <1>6, <2>1, <2>3, <3>1
    <2>4. CASE j > Len(B)
      <3> DEFINE y == j - Len(B)
      <3>1. ~(j <= Len(B)) /\ ~(j + 1 <= Len(B)) /\ (j + 1) - Len(B) = y + 1 /\ y \in 1..(Len(C) - 1)
        BY <1>2, <1>4, <1>6, <2>1, <2>4
      <3>2. Z[j] = C[y] /\ Z[j + 1] = C[y + 1]
        BY <1>6, <2>1, <3>1
      <3> HIDE DEF y
      <3> QED  BY <1>4, <3>1, <3>2
    <2> QED  BY <1>2, <2>1, <2>2, <2>3, <2>4
  <1>9. ASSUME NEW j \in 1..Len(Z) PROVE h[Z[j]] = l /\ \E x \in 1..(i + 1) : R[Z[j]] \subseteq R[A[x]]
    <2>1. CASE j <= Len(B)
      <3>1. Z[j] = B[j] /\ j \in 1..Len(B)
        BY <1>2, <1>6, <2>1
      <3>2. PICK x \in 1..i : R[B[j]] \subseteq R[A[x]]
        BY <1>2, <3>1
      <3>3. x \in 1..(i + 1)
        BY <1>1
      <3> QED  BY <1>2, <3>1, <3>2, <3>3
    <2>2. CASE ~(j <= Len(B))
      <3> DEFINE y == j - Len(B)
      <3>1. Z[j] = C[y] /\ y \in 1..Len(C)
        BY <1>2, <1>4, <1>6, <2>2
      <3> HIDE DEF y
      <3>2. i + 1 \in 1..(i + 1)
        BY <1>1
      <3>3. h[Z[j]] = l /\ R[Z[j]] \subseteq R[A[i + 1]]
        BY <1>4, <3>1 DEF q
      <3> QED  BY <3>2, <3>3
    <2> QED  BY <2>1, <2>2
  <1>10. ASSUME NEW x \in 1..(i + 1), NEW c \in 1..Len(S(t, A[x])) PROVE \E j \in 1..Len(Z) : Z[j] = S(t, A[x])[c]
    <2>1. CASE x \in 1..i
      <3>1. PICK j \in 1..Len(B) : B[j] = S(t, A[x])[c]
        BY <1>2, <1>10, <2>1
      <3>2. j \in 1..Len(Z) /\ j <= Len(B)
        BY <1>2, <1>4, <1>6
      <3>3. Z[j] = B[j]
        BY <1>6, <3>2
      <3> QED  BY <3>1, <3>2, <3>3
    <2>2. CASE x = i + 1
      <3>1. c \in 1..Len(C) /\ S(t, A[x])[c] = C[c]
        BY <1>10, <2>2 DEF C, q
      <3> DEFINE j == Len(B) + c
      <3>2. j \in 1..Len(Z) /\ ~(j <= Len(B)) /\ j - Len(B) = c
        BY <1>2, <1>4, <1>6, <3>1
      <3> HIDE DEF j
      <3>3. Z[j] = C[c]
        BY <1>6, <3>2
      <3> QED  BY <3>1, <3>2, <3>3
    <2>3. x \in 1..i \/ x = i + 1
      BY <1>1
    <2> QED  BY <2>1, <2>2, <2>3
  <1>11. ASSUME NEW j \in 1..Len(Z), NEW k \in 1..Len(Z), j < k PROVE Apart(R[Z[j]], R[Z[k]])
    <2>1. CASE k <= Len(B)
      <3>1. j \in 1..Len(B) /\ k \in 1..Len(B) /\ j <= Len(B)
        BY <1>2, <1>6, <1>11, <2>1
      <3>2. Z[j] = B[j] /\ Z[k] = B[k]
        BY <1>6, <2>1, <3>1
      <3> QED  BY <1>2, <1>11, <3>1, <3>2
    <2>2. CASE ~(k <= Len(B)) /\ j <= Len(B)
      <3> DEFINE z == k - Len(B)
      <3>1. j \in 1..Len(B) /\ z \in 1..Len(C)
        BY <1>2, <1>4, <1>6, <2>2
      <3>2. Z[j] = B[j] /\ Z[k] = C[z]
        BY <1>6, <2>2
      <3> HIDE DEF z
      <3>3. PICK x \in 1..i : R[B[j]] \subseteq R[A[x]]
        BY <1>2, <3>1
      <3>4. R[C[z]] \subseteq R[A[i + 1]]
        BY <1>4, <3>1 DEF q
      <3>5. x \in 1..Len(A) /\ x < i + 1
        BY <1>1
      <3>6. Apart(R[A[x]], R[A[i + 1]])
        BY <1>1, <3>5 DEF Row
      <3> QED  BY <3>2, <3>3, <3>4, <3>6 DEF Apart
    <2>3. CASE ~(k <= Len(B)) /\ ~(j <= Len(B))
      <3> DEFINE z == k - Len(B)
                 y == j - Len(B)
      <3>1. y \in 1..Len(C) /\ z \in 1..Len(C) /\ y < z
        BY <1>2, <1>4, <1>6, <1>11, <2>3
      <3>2. Z[j] = C[y] /\ Z[k] = C[z]
        BY <1>6, <2>3
      <3> HIDE DEF y, z
      <3> QED  BY <1>4, <3>1, <3>2
    <2> QED  BY <2>1, <2>2, <2>3
  <1>12. Lines(t, h, R, l, A, i + 1, Z)
    <2>1. Z[Len(Z)] = S(t, A[i + 1])[Len(S(t, A[i + 1]))]
      BY <1>7 DEF C, q
    <2> QED  BY <1>6, <1>7, <1>8, <1>9, <1>10, <1>11, <2>1 DEF Lines
  <1> QED  BY <1>12 DEF Z, C, q

\* The children of all nodes of a level are the level below.
LEMMA RowBelow ==
  ASSUME NEW t, NEW h, NEW R, Levelled(t, h, R), NEW l \in Nat, l + 1 <= t.level, NEW A, Row(t, h, R, l + 1, A),
         NEW B, Lines(t, h, R, l, A, Len(A), B)
  PROVE  Row(t, h, R, l, B)
  <1>1. /\ A \in Seq(N(t)) /\ Len(A) \in Nat /\ 1 \in 1..Len(A) /\ Len(A) \in 1..Len(A)
        /\ A[1] \in N(t) /\ A[Len(A)] \in N(t) /\ h[A[1]] = l + 1 /\ h[A[Len(A)]] = l + 1
        /\ Nx(t, ListHead(l + 1)) = A[1] /\ Nx(t, A[Len(A)]) = ListHead(l + 1)
    <2>1. A \in Seq(N(t)) /\ Len(A) >= 1
      BY DEF Row
    <2>2. Len(A) \in Nat /\ 1 \in 1..Len(A) /\ Len(A) \in 1..Len(A)
      BY <2>1
    <2> QED  BY <2>1, <2>2 DEF Row
  <1>2. A[1] \in Inner(t) /\ A[Len(A)] \in Inner(t)
    <2>1. A[1] \in Inner(t)
      <3>1. Line(t, h, R, l, A[1], S(t, A[1]))
        BY <1>1, OneLine
      <3> QED  BY <3>1 DEF Line
    <2> DEFINE p == A[Len(A)]
    <2>2. p \in N(t) /\ h[p] = l + 1
      BY <1>1
    <2> HIDE DEF p
    <2>3. p \in Inner(t)
      <3>1. Line(t, h, R, l, p, S(t, p))
        BY <2>2, OneLine
      <3> QED  BY <3>1 DEF Line
    <2> QED  BY <2>1, <2>3 DEF p
  <1>3. ~(A[1] < 0) /\ ~(A[Len(A)] < 0)
    BY <1>1 DEF Levelled, TreeInv, Formed
  <1>4. ListHead(l + 1) < 0 /\ ListHead(l + 1) + 1 = ListHead(l) /\ ListHead(l + 1) \in Above(t)
    <2>1. ListHead(l + 1) < 0 /\ ListHead(l + 1) + 1 = ListHead(l)
      BY DEF ListHead
    <2>2. l + 1 \in 1..t.level
      BY DEF Levelled, TreeInv, Formed
    <2> QED  BY <2>1, <2>2 DEF Above
  <1>5. Nx(t, ListHead(l)) = B[1] /\ Nx(t, B[Len(B)]) = ListHead(l)
    <2>1. Nx(t, LastBelow(t, ListHead(l + 1))) = FirstBelow(t, A[1])
      BY <1>1, <1>2, <1>4 DEF Levelled, Listed, Strung, Above
    <2>2. Nx(t, LastBelow(t, A[Len(A)])) = FirstBelow(t, ListHead(l + 1))
      BY <1>1, <1>2, <1>4 DEF Levelled, Listed, Strung, Above
    <2>3. B[1] = S(t, A[1])[1] /\ B[Len(B)] = S(t, A[Len(A)])[Len(S(t, A[Len(A)]))]
      BY DEF Lines
    <2> QED  BY <1>3, <1>4, <2>1, <2>2, <2>3 DEF LastBelow, FirstBelow
  <1>6. ASSUME NEW n \in N(t), h[n] = l PROVE \E j \in 1..Len(B) : B[j] = n
    <2>1. n # t.root /\ TreeInv(t, h, R)
      <3>1. h[t.root] = t.level /\ t.level \in Nat
        BY DEF Levelled, TreeInv, Heights, Formed
      <3>2. l # t.level
        BY <3>1
      <3> QED  BY <1>6, <3>1, <3>2 DEF Levelled
    <2>2. Owned(t, n)
      BY <2>1 DEF TreeInv, Parents
    <2> DEFINE p == P(t, n)
               c == X(t, n) + 2
    <2>3. p \in Inner(t) /\ c \in 1..Len(S(t, p)) /\ S(t, p)[c] = n
      BY <2>2 DEF Owned
    <2> HIDE DEF p, c
    <2>4. h[n] = h[p] - 1 /\ h[p] \in 1..t.level
      BY <2>1, <2>3, ChildFacts
    <2>5. h[p] = l + 1 /\ p \in N(t)
      BY <1>6, <2>3, <2>4 DEF Inner
    <2>6. PICK x \in 1..Len(A) : A[x] = p
      BY <2>5 DEF Row
    <2> QED  BY <2>3, <2>6 DEF Lines
  <1> QED  BY <1>5, <1>6 DEF Lines, Row

-----------------------------------------------------------------------------
\* The levels as the model lists them.

\* f strings the first elements of s together.
Flattens(f, s, n) == f = [i \in 1..n |-> IF i = 1 THEN s[i] ELSE f[i - 1] \o s[i]]

\* However many there are.
LEMMA FlattensExists ==
  ASSUME NEW s, NEW n \in Nat
  PROVE  \E f : Flattens(f, s, n)
  <1> DEFINE T == {i \in Nat : ~\E f : Flattens(f, s, i)}
  <1>1. \E f : Flattens(f, s, 0)
    <2> DEFINE g == [i \in 1..0 |-> s]
    <2>1. g = [i \in 1..0 |-> IF i = 1 THEN s[i] ELSE g[i - 1] \o s[i]]
      OBVIOUS
    <2> HIDE DEF g
    <2> QED  BY <2>1 DEF Flattens
  <1>2. ASSUME NEW j \in Nat, NEW f, Flattens(f, s, j)
        PROVE  \E g : Flattens(g, s, j + 1)
    <2> DEFINE g == [i \in 1..(j + 1) |-> IF i = 1 THEN s[i] ELSE f[i - 1] \o s[i]]
    <2>1. \A i \in 1..(j + 1) : g[i] = IF i = 1 THEN s[i] ELSE f[i - 1] \o s[i]
      OBVIOUS
    <2>2. \A i \in 1..j : f[i] = IF i = 1 THEN s[i] ELSE f[i - 1] \o s[i]
      BY <1>2 DEF Flattens
    <2>3. g = [i \in 1..(j + 1) |-> g[i]]
      OBVIOUS
    <2> HIDE DEF g
    <2>4. \A i \in 1..j : g[i] = f[i]
      BY <2>1, <2>2
    <2>5. \A i \in 1..(j + 1) : i # 1 => i - 1 \in 1..j
      OBVIOUS
    <2>6. \A i \in 1..(j + 1) : g[i] = IF i = 1 THEN s[i] ELSE g[i - 1] \o s[i]
      BY <2>1, <2>4, <2>5
    <2>7. g = [i \in 1..(j + 1) |-> IF i = 1 THEN s[i] ELSE g[i - 1] \o s[i]]
      BY <2>3, <2>6
    <2> QED  BY <2>7 DEF Flattens
  <1>3. T = {}
    <2>1. SUFFICES ASSUME T # {} PROVE FALSE
      OBVIOUS
    <2>2. PICK i \in T : \A j \in T : i <= j
      BY <2>1, LeastNumber
    <2>3. i # 0
      BY <1>1, <2>2
    <2>4. i - 1 \in Nat /\ i - 1 \notin T /\ (i - 1) + 1 = i
      BY <2>2, <2>3
    <2> QED  BY <1>2, <2>2, <2>4
  <1> QED  BY <1>3

\* The sequences of s, one after the other.
LEMMA FlattenSeqIs ==
  ASSUME NEW s, Len(s) \in Nat \ {0}
  PROVE  \E f : Flattens(f, s, Len(s)) /\ FlattenSeq(s) = f[Len(s)]
  <1> DEFINE g == CHOOSE f : f = [i \in 1..Len(s) |-> IF i = 1 THEN s[i] ELSE f[i - 1] \o s[i]]
  <1>1. FlattenSeq(s) = g[Len(s)]
    BY DEF FlattenSeq
  <1>2. \E f : f = [i \in 1..Len(s) |-> IF i = 1 THEN s[i] ELSE f[i - 1] \o s[i]]
    BY FlattensExists DEF Flattens
  <1>3. g = [i \in 1..Len(s) |-> IF i = 1 THEN s[i] ELSE g[i - 1] \o s[i]]
    BY <1>2
  <1> HIDE DEF g
  <1> QED  BY <1>1, <1>3 DEF Flattens

\* The children of the nodes of A.
Beneath(t, A) == FlattenSeq([i \in 1..Len(A) |-> t.node[A[i]].sub_ptr])

\* They are the list of the level below.
LEMMA BeneathRow ==
  ASSUME NEW t, NEW h, NEW R, Levelled(t, h, R), NEW l \in Nat, l + 1 <= t.level, NEW A, Row(t, h, R, l + 1, A)
  PROVE  Row(t, h, R, l, Beneath(t, A))
  <1> DEFINE s == [i \in 1..Len(A) |-> t.node[A[i]].sub_ptr]
  <1>1. Len(A) \in Nat \ {0}
    BY DEF Row
  <1>2. Len(s) = Len(A) /\ \A i \in 1..Len(A) : s[i] = S(t, A[i])
    BY <1>1 DEF S
  <1>3. Beneath(t, A) = FlattenSeq(s)
    BY DEF Beneath
  <1> HIDE DEF s
  <1>4. PICK f : Flattens(f, s, Len(s)) /\ FlattenSeq(s) = f[Len(s)]
    BY <1>1, <1>2, FlattenSeqIs
  <1>5. \A i \in 1..Len(A) : f[i] = IF i = 1 THEN s[i] ELSE f[i - 1] \o s[i]
    BY <1>2, <1>4 DEF Flattens
  <1> DEFINE T == {i \in Nat : i \in 1..Len(A) /\ ~Lines(t, h, R, l, A, i, f[i])}
  <1>6. T = {}
    <2>1. SUFFICES ASSUME T # {} PROVE FALSE
      OBVIOUS
    <2>2. PICK i \in T : \A j \in T : i <= j
      BY <2>1, LeastNumber
    <2>3. i \in 1..Len(A) /\ i \in Nat
      BY <2>2
    <2>4. CASE i = 1
      <3>1. f[1] = S(t, A[1])
        BY <1>2, <1>5, <2>3, <2>4
      <3>2. Lines(t, h, R, l, A, 1, S(t, A[1]))
        BY FirstLine
      <3> QED  BY <2>2, <2>4, <3>1, <3>2
    <2>5. CASE i # 1
      <3> DEFINE j == i - 1
      <3>1. j \in 1..(Len(A) - 1) /\ j \in 1..Len(A) /\ j + 1 = i /\ j \in Nat /\ j < i
        BY <1>1, <2>3, <2>5
      <3>2. f[i] = f[j] \o S(t, A[i])
        BY <1>2, <1>5, <2>3, <2>5
      <3> HIDE DEF j
      <3>3. j \notin T
        BY <2>2, <3>1
      <3>4. Lines(t, h, R, l, A, j, f[j])
        BY <3>1, <3>3
      <3> HIDE DEF T
      <3>5. Lines(t, h, R, l, A, j + 1, f[j] \o S(t, A[j + 1]))
        BY <3>1, <3>4, NextLine
      <3>6. Lines(t, h, R, l, A, i, f[i])
        BY <3>1, <3>2, <3>5
      <3> QED  BY <2>2, <3>6 DEF T
    <2> QED  BY <2>4, <2>5
  <1>7. Lines(t, h, R, l, A, Len(A), f[Len(A)])
    <2>1. Len(A) \in 1..Len(A) /\ Len(A) \in Nat
      BY <1>1
    <2> QED  BY <1>6, <2>1
  <1>8. Row(t, h, R, l, f[Len(A)])
    BY <1>7, RowBelow
  <1> QED  BY <1>2, <1>3, <1>4, <1>8

\* f lists the levels of t from the root down to the level t.level - n.
Layered(f, t, n) ==
  f = [l \in (t.level - n)..t.level |-> IF l = t.level THEN <<t.root>> ELSE Beneath(t, f[l + 1])]

\* However far down.
LEMMA LayeredExists ==
  ASSUME NEW t, t.level \in Nat, NEW n \in Nat
  PROVE  \E f : Layered(f, t, n)
  <1> DEFINE T == {i \in Nat : ~\E f : Layered(f, t, i)}
             top == t.level
  <1>1. \E f : Layered(f, t, 0)
    <2> DEFINE g == [l \in (top - 0)..top |-> <<t.root>>]
    <2>1. g = [l \in (top - 0)..top |-> IF l = top THEN <<t.root>> ELSE Beneath(t, g[l + 1])]
      OBVIOUS
    <2> HIDE DEF g
    <2> QED  BY <2>1 DEF Layered
  <1>2. ASSUME NEW j \in Nat, NEW f, Layered(f, t, j)
        PROVE  \E g : Layered(g, t, j + 1)
    <2> DEFINE g == [l \in (top - (j + 1))..top |-> IF l = top THEN <<t.root>> ELSE Beneath(t, f[l + 1])]
    <2>1. \A l \in (top - (j + 1))..top : g[l] = IF l = top THEN <<t.root>> ELSE Beneath(t, f[l + 1])
      OBVIOUS
    <2>2. \A l \in (top - j)..top : f[l] = IF l = top THEN <<t.root>> ELSE Beneath(t, f[l + 1])
      BY <1>2 DEF Layered
    <2>3. g = [l \in (top - (j + 1))..top |-> g[l]]
      OBVIOUS
    <2> HIDE DEF g
    <2>4. \A l \in (top - j)..top : l \in (top - (j + 1))..top
      OBVIOUS
    <2>5. \A l \in (top - j)..top : g[l] = f[l]
      BY <2>1, <2>2, <2>4
    <2>6. \A l \in (top - (j + 1))..top : l # top => l + 1 \in (top - j)..top
      OBVIOUS
    <2>7. \A l \in (top - (j + 1))..top : g[l] = IF l = top THEN <<t.root>> ELSE Beneath(t, g[l + 1])
      BY <2>1, <2>5, <2>6
    <2>8. g = [l \in (top - (j + 1))..top |-> IF l = top THEN <<t.root>> ELSE Beneath(t, g[l + 1])]
      BY <2>3, <2>7
    <2> QED  BY <2>8 DEF Layered
  <1>3. T = {}
    <2>1. SUFFICES ASSUME T # {} PROVE FALSE
      OBVIOUS
    <2>2. PICK i \in T : \A j \in T : i <= j
      BY <2>1, LeastNumber
    <2>3. i # 0
      BY <1>1, <2>2
    <2>4. i - 1 \in Nat /\ i - 1 \notin T /\ (i - 1) + 1 = i
      BY <2>2, <2>3
    <2> QED  BY <1>2, <2>2, <2>4
  <1> QED  BY <1>3

\* Every level that is listed is a list from left to right.
LEMMA LayeredRows ==
  ASSUME NEW t, NEW h, NEW R, Levelled(t, h, R), NEW f, Layered(f, t, t.level), NEW l \in 0..t.level
  PROVE  Row(t, h, R, l, f[l])
  <1>1. t.level \in Nat
    BY DEF Levelled, TreeInv, Formed
  <1> DEFINE top == t.level
             T == {i \in Nat : i <= top /\ ~Row(t, h, R, top - i, f[top - i])}
  <1>2. \A m \in 0..top : f[m] = IF m = top THEN <<t.root>> ELSE Beneath(t, f[m + 1])
    <2>1. top - top = 0
      BY <1>1
    <2> QED  BY <2>1 DEF Layered
  <1>3. T = {}
    <2>1. SUFFICES ASSUME T # {} PROVE FALSE
      OBVIOUS
    <2>2. PICK i \in T : \A j \in T : i <= j
      BY <2>1, LeastNumber
    <2>3. i \in Nat /\ i <= top
      BY <2>2
    <2>4. CASE i = 0
      <3>1. top - i = top /\ top \in 0..top
        BY <1>1, <2>4
      <3>2. f[top - i] = <<t.root>>
        BY <1>2, <3>1
      <3> QED  BY <2>2, <3>1, <3>2, RootRow
    <2>5. CASE i # 0
      <3> DEFINE j == i - 1
                 m == top - i
      <3>1. j \in Nat /\ j <= top /\ j < i /\ m \in Nat /\ m + 1 <= top /\ m \in 0..top /\ m # top /\ top - j = m + 1
        BY <1>1, <2>3, <2>5
      <3>2. j \notin T
        BY <2>2, <3>1
      <3> HIDE DEF j, m
      <3>3. Row(t, h, R, m + 1, f[m + 1])
        BY <3>1, <3>2
      <3>4. Row(t, h, R, m, Beneath(t, f[m + 1]))
        BY <3>1, <3>3, BeneathRow
      <3>5. Row(t, h, R, m, f[m])
        BY <1>2, <3>1, <3>4
      <3> QED  BY <2>2, <3>5 DEF m
    <2> QED  BY <2>4, <2>5
  <1> DEFINE i == top - l
  <1>4. i \in Nat /\ i <= top /\ top - i = l
    BY <1>1
  <1> HIDE DEF i
  <1> QED  BY <1>3, <1>4

-----------------------------------------------------------------------------
\* The lists of the levels are what the model lists.

\* H, the elements of A, and H again, forwards and backwards.
Circle(t, H, A) ==
  LET ring == <<H>> \o A
      after(i) == ring[(i % Len(ring)) + 1]
  IN \A i \in 1..Len(ring) : t.link[ring[i]].next = after(i) /\ t.link[after(i)].prev = ring[i]

\* The same forwards.
Chained(t, H, A) ==
  /\ Ring(t.link) /\ A \in Seq(DOMAIN t.link) /\ H \in DOMAIN t.link
  /\ IF Len(A) = 0 THEN Nx(t, H) = H ELSE Nx(t, H) = A[1] /\ Nx(t, A[Len(A)]) = H
  /\ \A j \in 1..(Len(A) - 1) : Nx(t, A[j]) = A[j + 1]

\* Counting round n places.
LEMMA RoundTrip ==
  ASSUME NEW n \in Nat \ {0}, NEW i \in 1..n
  PROVE  i % n = IF i = n THEN 0 ELSE i
  OBVIOUS

\* Links that lead back make one of the other.
LEMMA ChainedCircle ==
  ASSUME NEW t, NEW H, NEW A, Chained(t, H, A)
  PROVE  Circle(t, H, A)
  <1> DEFINE places == DOMAIN t.link
             ring == <<H>> \o A
             n == Len(ring)
             after(i) == ring[(i % n) + 1]
  <1>1. A \in Seq(places) /\ H \in places /\ Len(A) \in Nat
    BY DEF Chained
  <1> HIDE DEF places
  <1>2. /\ n = Len(A) + 1 /\ ring[1] = H
        /\ \A j \in 1..n : ring[j] \in places /\ (j # 1 => ring[j] = A[j - 1])
    BY <1>1
  <1> HIDE DEF ring, n
  <1>3. ASSUME NEW i \in 1..n PROVE t.link[ring[i]].next = after(i) /\ t.link[after(i)].prev = ring[i]
    <2>1. i \in Nat /\ n \in Nat \ {0} /\ (i # n => i % n = i /\ i + 1 \in 1..n) /\ (i = n => i % n = 0)
      <3>1. i \in Nat /\ n \in Nat \ {0} /\ (i # n => i + 1 \in 1..n)
        BY <1>1, <1>2
      <3>2. i % n = IF i = n THEN 0 ELSE i
        BY <3>1, RoundTrip
      <3> QED  BY <3>1, <3>2
    <2>2. Nx(t, ring[i]) = after(i)
      <3>1. CASE i = n /\ i = 1
        <4>1. Len(A) = 0 /\ (i % n) + 1 = 1
          BY <1>1, <1>2, <2>1, <3>1
        <4> QED  BY <1>2, <3>1, <4>1 DEF Chained
      <3>2. CASE i = n /\ i # 1
        <4>1. Len(A) # 0 /\ (i % n) + 1 = 1 /\ i - 1 = Len(A)
          BY <1>1, <1>2, <2>1, <3>2
        <4>2. ring[i] = A[Len(A)] /\ after(i) = H
          BY <1>2, <3>2, <4>1
        <4> QED  BY <4>1, <4>2 DEF Chained
      <3>3. CASE i # n /\ i = 1
        <4>1. Len(A) # 0 /\ (i % n) + 1 = 2 /\ 2 \in 1..n /\ 2 - 1 = 1
          BY <1>1, <1>2, <2>1, <3>3
        <4>2. ring[2] = A[1]
          BY <1>2, <4>1
        <4> QED  BY <1>2, <3>3, <4>1, <4>2 DEF Chained
      <3>4. CASE i # n /\ i # 1
        <4> DEFINE j == i - 1
        <4>1. j \in 1..(Len(A) - 1) /\ (i % n) + 1 = i + 1 /\ i + 1 \in 1..n /\ i + 1 # 1 /\ (i + 1) - 1 = j + 1
          BY <1>1, <1>2, <2>1, <3>4
        <4>2. ring[i] = A[j] /\ ring[i + 1] = A[j + 1]
          BY <1>2, <3>4, <4>1
        <4> HIDE DEF j
        <4>3. Nx(t, A[j]) = A[j + 1]
          BY <4>1 DEF Chained
        <4> QED  BY <4>1, <4>2, <4>3
      <3> QED  BY <3>1, <3>2, <3>3, <3>4
    <2>3. ring[i] \in places /\ Ring(t.link)
      BY <1>2 DEF Chained
    <2>4. t.link[Nx(t, ring[i])].prev = ring[i]
      BY <2>3 DEF Ring, Nx, places
    <2> QED  BY <2>2, <2>4 DEF Nx
  <1> QED  BY <1>3 DEF Circle, ring, n

\* In a tree with nodes.
LEMMA GrownCircles ==
  ASSUME NEW t, NEW h, NEW R, Levelled(t, h, R), NEW f, Layered(f, t, t.level)
  PROVE  /\ \A l \in 0..(MaxLevel - 1) : Circle(t, ListHead(l), IF l \in DOMAIN f THEN f[l] ELSE <<>>)
         /\ N(t) = UNION {ToSet(f[l]) : l \in DOMAIN f}
  <1>1. /\ t.level \in Nat /\ t.level < MaxLevel /\ MaxLevel \in Nat
        /\ DOMAIN t.link = N(t) \cup ListHeads /\ Ring(t.link)
    BY BPlusAssumption DEF Levelled, TreeInv, Formed, Listed
  <1>2. DOMAIN f = 0..t.level
    <2>1. t.level - t.level = 0
      BY <1>1
    <2> QED  BY <2>1 DEF Layered
  <1>3. ASSUME NEW l \in 0..(MaxLevel - 1)
        PROVE  Circle(t, ListHead(l), IF l \in DOMAIN f THEN f[l] ELSE <<>>)
    <2>1. ListHead(l) \in DOMAIN t.link
      BY <1>1 DEF ListHeads
    <2>2. CASE l \in 0..t.level
      <3> DEFINE A == f[l]
      <3>1. Row(t, h, R, l, A)
        BY <2>2, LayeredRows
      <3> HIDE DEF A
      <3>2. A \in Seq(N(t)) /\ Len(A) >= 1
        BY <3>1 DEF Row
      <3>3. A \in Seq(DOMAIN t.link) /\ Len(A) # 0
        BY <1>1, <3>2
      <3>4. Chained(t, ListHead(l), A)
        BY <1>1, <2>1, <3>1, <3>3 DEF Chained, Row
      <3>5. Circle(t, ListHead(l), A)
        BY <3>4, ChainedCircle
      <3> QED  BY <1>2, <2>2, <3>5 DEF A
    <2>3. CASE l \notin 0..t.level
      <3>1. l > t.level
        BY <1>1, <2>3
      <3>2. Nx(t, ListHead(l)) = ListHead(l)
        BY <3>1 DEF Levelled, Listed, Crowned
      <3>3. Chained(t, ListHead(l), <<>>)
        <4> DEFINE E == <<>>
        <4>1. E \in Seq(DOMAIN t.link) /\ Len(E) = 0
          OBVIOUS
        <4> HIDE DEF E
        <4>2. ASSUME NEW j \in 1..(Len(E) - 1) PROVE FALSE
          BY <4>1, <4>2
        <4>3. Chained(t, ListHead(l), E)
          BY <1>1, <2>1, <3>2, <4>1, <4>2 DEF Chained
        <4> QED  BY <4>3 DEF E
      <3>4. Circle(t, ListHead(l), <<>>)
        BY <3>3, ChainedCircle
      <3> QED  BY <1>2, <2>3, <3>4
    <2> QED  BY <2>2, <2>3
  <1>4. ASSUME NEW n \in N(t) PROVE n \in UNION {ToSet(f[l]) : l \in DOMAIN f}
    <2>1. h[n] \in 0..t.level
      BY DEF Levelled, TreeInv, Heights
    <2>2. Row(t, h, R, h[n], f[h[n]])
      BY <2>1, LayeredRows
    <2>3. PICK j \in 1..Len(f[h[n]]) : f[h[n]][j] = n
      BY <2>2 DEF Row
    <2>4. f[h[n]] \in Seq(N(t))
      BY <2>2 DEF Row
    <2>5. n \in ToSet(f[h[n]])
      BY <2>3, <2>4 DEF ToSet
    <2> QED  BY <1>2, <2>1, <2>5
  <1>5. ASSUME NEW l \in DOMAIN f, NEW n \in ToSet(f[l]) PROVE n \in N(t)
    <2>1. Row(t, h, R, l, f[l])
      BY <1>2, LayeredRows
    <2>2. f[l] \in Seq(N(t))
      BY <2>1 DEF Row
    <2> QED  BY <1>5, <2>2 DEF ToSet
  <1> QED  BY <1>3, <1>4, <1>5

\* The property by the name of this module.
LEMMA MatchBy ==
  ASSUME Nodes = UNION {ToSet(layers[l]) : l \in DOMAIN layers},
         \A l \in 0..(MaxLevel - 1) : Circle(tree, ListHead(l), IF l \in DOMAIN layers THEN layers[l] ELSE <<>>)
  PROVE  LevelListsMatchLayers
  <1>1. ASSUME NEW l \in 0..(MaxLevel - 1)
        PROVE  LET ring == <<ListHead(l)>> \o (IF l \in DOMAIN layers THEN layers[l] ELSE <<>>)
                   after(i) == ring[(i % Len(ring)) + 1]
               IN \A i \in 1..Len(ring) : tree.link[ring[i]].next = after(i) /\ tree.link[after(i)].prev = ring[i]
    <2>1. Circle(tree, ListHead(l), IF l \in DOMAIN layers THEN layers[l] ELSE <<>>)
      OBVIOUS
    <2> QED  BY <2>1 DEF Circle
  <1> QED  BY <1>1 DEF LevelListsMatchLayers

\* In any tree.
LEMMA InvLevelLists ==
  ASSUME TreeState(tree), Fitting
  PROVE  LevelListsMatchLayers
  <1>1. CASE Bare(tree)
    <2>1. tree.root = NULL /\ N(tree) = {} /\ tree.level = 0 /\ DOMAIN tree.link = ListHeads
          /\ Ring(tree.link) /\ \A x \in ListHeads : Nx(tree, x) = x
      BY <1>1 DEF Bare, Nx
    <2> DEFINE f == [l \in {0} |-> <<>>]
               E == <<>>
    <2>2. layers = f
      BY <2>1 DEF layers
    <2>3. Nodes = UNION {ToSet(f[l]) : l \in DOMAIN f}
      <3>1. ToSet(E) = {} /\ DOMAIN f = {0} /\ f[0] = E
        BY DEF ToSet
      <3>2. Nodes = {}
        BY <2>1 DEF Nodes, N
      <3> HIDE DEF f, E
      <3> QED  BY <3>1, <3>2
    <2>4. ASSUME NEW l \in 0..(MaxLevel - 1)
          PROVE  Circle(tree, ListHead(l), IF l \in DOMAIN f THEN f[l] ELSE <<>>)
      <3>1. E \in Seq(DOMAIN tree.link) /\ Len(E) = 0 /\ (IF l \in DOMAIN f THEN f[l] ELSE <<>>) = E
        OBVIOUS
      <3>2. ListHead(l) \in ListHeads
        BY DEF ListHeads
      <3> HIDE DEF E, f
      <3>3. ASSUME NEW j \in 1..(Len(E) - 1) PROVE FALSE
        BY <3>1, <3>3
      <3>4. Chained(tree, ListHead(l), E)
        BY <2>1, <3>1, <3>2, <3>3 DEF Chained
      <3>5. Circle(tree, ListHead(l), E)
        BY <3>4, ChainedCircle
      <3> QED  BY <3>1, <3>5
    <2> HIDE DEF f
    <2> QED  BY <2>2, <2>3, <2>4, MatchBy
  <1>2. CASE Grown(tree) /\ InLists(tree)
    <2>1. PICK h, R : TreeInv(tree, h, R)
      BY <1>2 DEF Grown
    <2>2. Levelled(tree, h, R)
      BY <1>2, <2>1 DEF Levelled, InLists, Fitting
    <2> DEFINE f == CHOOSE f : f = [l \in 0..tree.level |->
                       IF l = tree.level THEN <<tree.root>> ELSE Beneath(tree, f[l + 1])]
    <2>3. tree.root # NULL /\ tree.level \in Nat /\ tree.level - tree.level = 0
      BY <2>1 DEF TreeInv, Formed, NULL
    <2>4. layers = f
      BY <2>3 DEF layers, Beneath
    <2>5. \E g : g = [l \in 0..tree.level |-> IF l = tree.level THEN <<tree.root>> ELSE Beneath(tree, g[l + 1])]
      <3>1. PICK g : Layered(g, tree, tree.level)
        BY <2>3, LayeredExists
      <3> QED  BY <2>3, <3>1 DEF Layered
    <2>6. Layered(f, tree, tree.level)
      <3>1. f = [l \in 0..tree.level |-> IF l = tree.level THEN <<tree.root>> ELSE Beneath(tree, f[l + 1])]
        BY <2>5
      <3> HIDE DEF f
      <3> QED  BY <2>3, <3>1 DEF Layered
    <2> HIDE DEF f
    <2>7. /\ \A l \in 0..(MaxLevel - 1) : Circle(tree, ListHead(l), IF l \in DOMAIN f THEN f[l] ELSE <<>>)
          /\ N(tree) = UNION {ToSet(f[l]) : l \in DOMAIN f}
      BY <2>2, <2>6, GrownCircles
    <2> QED  BY <2>4, <2>7, SameNodes, MatchBy
  <1> QED  BY <1>1, <1>2 DEF TreeState

\* The doubly linked list of each level holds exactly the nodes of that level in
\* the order of the tree, forwards and backwards, after any puts and deletes: the
\* siblings that deletes borrow from and merge with are taken from these lists.
THEOREM LevelListsStayRight == Spec /\ []Fitting => []LevelListsMatchLayers
  <1>1. BuiltInv /\ Fitting => LevelListsMatchLayers
    BY InvLevelLists DEF BuiltInv
  <1> QED  BY <1>1, AlwaysTree, PTL

-----------------------------------------------------------------------------
\* The entries of the leaves from left to right.

\* The leaves are in order and hold something.
Lined(t, h, R, A) ==
  /\ Levelled(t, h, R) /\ Row(t, h, R, 0, A)
  /\ \A n \in Leafs(t) : Len(K(t, n)) >= 1

\* The keys in a leaf, and in all of them.
KeysOf(t, n) == {K(t, n)[i] : i \in 1..Len(K(t, n))}
Held(t, x) == \E n \in Leafs(t) : x \in KeysOf(t, n)

\* The keys of a leaf are integers, and it is somewhere in the row.
LEMMA LeafFacts ==
  ASSUME NEW t, NEW h, NEW R, NEW A, Lined(t, h, R, A), NEW n \in Leafs(t)
  PROVE  /\ K(t, n) \in Seq(Int) /\ Sorted(K(t, n)) /\ Len(K(t, n)) \in Nat \ {0}
         /\ KeysOf(t, n) \subseteq R[n] /\ KeysOf(t, n) \subseteq Int
         /\ n \in N(t) /\ h[n] = 0 /\ \E j \in 1..Len(A) : A[j] = n
  <1>1. n \in N(t) /\ is_leaf(t, n) /\ TreeInv(t, h, R)
    BY DEF Leafs, Lined, Levelled
  <1>2. K(t, n) \in Seq(Int) /\ Sorted(K(t, n))
    BY <1>1, NodeSorted
  <1>3. Len(K(t, n)) \in Nat \ {0}
    BY <1>2 DEF Lined
  <1>4. KeysOf(t, n) \subseteq R[n]
    BY <1>1 DEF TreeInv, Routes, KeysOf
  <1>5. KeysOf(t, n) \subseteq Int
    BY <1>2 DEF KeysOf
  <1>6. h[n] = 0
    BY <1>1 DEF TreeInv, Heights
  <1>7. \E j \in 1..Len(A) : A[j] = n
    BY <1>1, <1>6 DEF Lined, Row
  <1> QED  BY <1>1, <1>2, <1>3, <1>4, <1>5, <1>6, <1>7

\* A place in the row is a leaf.
LEMMA RowLeaf ==
  ASSUME NEW t, NEW h, NEW R, NEW A, Lined(t, h, R, A), NEW j \in 1..Len(A)
  PROVE  A[j] \in Leafs(t)
  <1>1. A[j] \in N(t) /\ h[A[j]] = 0 /\ TreeInv(t, h, R)
    BY DEF Lined, Levelled, Row
  <1> QED  BY <1>1 DEF TreeInv, Heights, Leafs

\* Leaves further right have greater keys.
LEMMA RowApart ==
  ASSUME NEW t, NEW h, NEW R, NEW A, Lined(t, h, R, A), NEW i \in 1..Len(A), NEW j \in 1..Len(A), i < j
  PROVE  Apart(KeysOf(t, A[i]), KeysOf(t, A[j]))
  <1>1. A[i] \in Leafs(t) /\ A[j] \in Leafs(t)
    BY RowLeaf
  <1>2. KeysOf(t, A[i]) \subseteq R[A[i]] /\ KeysOf(t, A[j]) \subseteq R[A[j]]
    BY <1>1, LeafFacts
  <1>3. Apart(R[A[i]], R[A[j]])
    BY DEF Lined, Row
  <1> QED  BY <1>2, <1>3 DEF Apart

\* b is the next key after a.
After(t, a, b) == a < b /\ \A x : Held(t, x) => x <= a \/ b <= x

\* The next entry of a leaf has the next key.
LEMMA NextEntry ==
  ASSUME NEW t, NEW h, NEW R, NEW A, Lined(t, h, R, A), NEW n \in Leafs(t), NEW i \in 1..(Len(K(t, n)) - 1)
  PROVE  After(t, K(t, n)[i], K(t, n)[i + 1])
  <1> DEFINE keys == K(t, n)
             a == keys[i]
             b == keys[i + 1]
  <1>1. keys \in Seq(Int) /\ Sorted(keys) /\ Len(keys) \in Nat
    BY LeafFacts
  <1>2. i \in 1..Len(keys) /\ i + 1 \in 1..Len(keys) /\ i < i + 1 /\ i \in Int
    BY <1>1
  <1>3. a \in KeysOf(t, n) /\ b \in KeysOf(t, n) /\ a \in Int /\ b \in Int
    BY <1>1, <1>2 DEF KeysOf
  <1>4. a < b
    BY <1>1, <1>2 DEF Sorted
  <1>5. ASSUME NEW x, Held(t, x) PROVE x <= a \/ b <= x
    <2>1. PICK m \in Leafs(t) : x \in KeysOf(t, m)
      BY <1>5 DEF Held
    <2>2. x \in Int
      BY <2>1, LeafFacts
    <2>3. CASE m = n
      <3>1. PICK c \in 1..Len(keys) : x = keys[c]
        BY <2>1, <2>3 DEF KeysOf
      <3>2. c \in Int /\ (c < i \/ c = i \/ c = i + 1 \/ c > i + 1)
        BY <1>2
      <3> HIDE DEF keys
      <3>3. CASE c < i
        <4>1. x < a
          BY <1>1, <1>2, <3>1, <3>3 DEF Sorted
        <4> QED  BY <1>3, <2>2, <4>1
      <3>4. CASE c > i + 1
        <4>1. b < x
          BY <1>1, <1>2, <3>1, <3>2, <3>4 DEF Sorted
        <4> QED  BY <1>3, <2>2, <4>1
      <3>5. CASE c = i
        BY <2>2, <3>1, <3>5
      <3>6. CASE c = i + 1
        BY <2>2, <3>1, <3>6
      <3> QED  BY <3>2, <3>3, <3>4, <3>5, <3>6
    <2>4. CASE m # n
      <3>1. PICK p \in 1..Len(A) : A[p] = n
        BY LeafFacts
      <3>2. PICK q \in 1..Len(A) : A[q] = m
        BY LeafFacts
      <3> HIDE DEF a, b, keys
      <3>3. p < q \/ q < p
        BY <2>4, <3>1, <3>2
      <3>4. CASE p < q
        <4>1. b < x
          BY <1>3, <2>1, <3>1, <3>2, <3>4, RowApart DEF Apart
        <4> QED  BY <1>3, <2>2, <4>1
      <3>5. CASE q < p
        <4>1. x < a
          BY <1>3, <2>1, <3>1, <3>2, <3>5, RowApart DEF Apart
        <4> QED  BY <1>3, <2>2, <4>1
      <3> QED  BY <3>3, <3>4, <3>5
    <2> QED  BY <2>3, <2>4
  <1> QED  BY <1>4, <1>5 DEF After

\* The last key of a leaf is the greatest there, and the first the smallest.
LEMMA LeafEnds ==
  ASSUME NEW t, NEW h, NEW R, NEW A, Lined(t, h, R, A), NEW n \in Leafs(t), NEW x \in KeysOf(t, n)
  PROVE  /\ x <= K(t, n)[Len(K(t, n))] /\ K(t, n)[1] <= x /\ x \in Int
         /\ K(t, n)[Len(K(t, n))] \in KeysOf(t, n) /\ K(t, n)[1] \in KeysOf(t, n)
  <1> DEFINE keys == K(t, n)
  <1>1. keys \in Seq(Int) /\ Sorted(keys) /\ Len(keys) \in Nat \ {0}
    BY LeafFacts
  <1>2. PICK c \in 1..Len(keys) : x = keys[c]
    BY DEF KeysOf
  <1>3. 1 \in 1..Len(keys) /\ Len(keys) \in 1..Len(keys) /\ (c = 1 \/ 1 < c) /\ (c = Len(keys) \/ c < Len(keys))
    BY <1>1
  <1> HIDE DEF keys
  <1>4. x \in Int /\ keys[1] \in Int /\ keys[Len(keys)] \in Int
    BY <1>1, <1>2, <1>3
  <1>5. keys[1] <= x
    <2>1. CASE c = 1
      BY <1>2, <1>4, <2>1
    <2>2. CASE 1 < c
      <3>1. keys[1] < keys[c]
        BY <1>1, <1>3, <2>2 DEF Sorted
      <3> QED  BY <1>2, <1>4, <3>1
    <2> QED  BY <1>3, <2>1, <2>2
  <1>6. x <= keys[Len(keys)]
    <2>1. CASE c = Len(keys)
      BY <1>2, <1>4, <2>1
    <2>2. CASE c < Len(keys)
      <3>1. keys[c] < keys[Len(keys)]
        BY <1>1, <1>3, <2>2 DEF Sorted
      <3> QED  BY <1>2, <1>4, <3>1
    <2> QED  BY <1>3, <2>1, <2>2
  <1> QED  BY <1>3, <1>4, <1>5, <1>6 DEF KeysOf, keys

\* The first entry of the next leaf has the next key after the last of a leaf.
LEMMA NextLeaf ==
  ASSUME NEW t, NEW h, NEW R, NEW A, Lined(t, h, R, A), NEW n \in Leafs(t), Nx(t, n) \notin ListHeads
  PROVE  Nx(t, n) \in Leafs(t) /\ After(t, K(t, n)[Len(K(t, n))], K(t, Nx(t, n))[1])
  <1>1. PICK p \in 1..Len(A) : A[p] = n
    BY LeafFacts
  <1>2. Len(A) \in Nat /\ p \in Int
    BY DEF Lined, Row
  <1>3. p # Len(A)
    <2>1. SUFFICES ASSUME p = Len(A) PROVE FALSE
      OBVIOUS
    <2>2. Nx(t, n) = ListHead(0)
      BY <1>1, <2>1 DEF Lined, Row
    <2>3. 0 \in 0..(MaxLevel - 1)
      BY BPlusAssumption
    <2> QED  BY <2>2, <2>3 DEF ListHeads
  <1>4. p \in 1..(Len(A) - 1) /\ p + 1 \in 1..Len(A) /\ p < p + 1
    BY <1>2, <1>3
  <1> DEFINE m == Nx(t, n)
  <1>5. m = A[p + 1] /\ m \in Leafs(t)
    <2>1. m = A[p + 1]
      BY <1>1, <1>4 DEF Lined, Row
    <2> QED  BY <1>4, <2>1, RowLeaf
  <1> HIDE DEF m
  <1> DEFINE a == K(t, n)[Len(K(t, n))]
             b == K(t, m)[1]
  <1>6. a \in KeysOf(t, n) /\ b \in KeysOf(t, m) /\ a \in Int /\ b \in Int
    <2>1. 1 \in 1..Len(K(t, n)) /\ Len(K(t, n)) \in 1..Len(K(t, n)) /\ 1 \in 1..Len(K(t, m))
      BY <1>5, LeafFacts
    <2>2. a \in KeysOf(t, n) /\ b \in KeysOf(t, m)
      BY <2>1 DEF KeysOf
    <2>3. KeysOf(t, n) \subseteq Int /\ KeysOf(t, m) \subseteq Int
      BY <1>5, LeafFacts
    <2> QED  BY <2>2, <2>3
  <1>7. \A x \in KeysOf(t, n) : x <= a
    BY LeafEnds
  <1>8. \A x \in KeysOf(t, m) : b <= x
    BY <1>5, LeafEnds
  <1> HIDE DEF a, b
  <1>9. a < b
    <2>1. Apart(KeysOf(t, A[p]), KeysOf(t, A[p + 1]))
      BY <1>4, RowApart
    <2> QED  BY <1>1, <1>5, <1>6, <2>1 DEF Apart
  <1>10. ASSUME NEW x, Held(t, x) PROVE x <= a \/ b <= x
    <2>1. PICK q \in Leafs(t) : x \in KeysOf(t, q)
      BY <1>10 DEF Held
    <2>2. x \in Int
      BY <2>1, LeafFacts
    <2>3. PICK j \in 1..Len(A) : A[j] = q
      BY LeafFacts
    <2>4. j \in Int /\ (j < p \/ j = p \/ j = p + 1 \/ p + 1 < j)
      BY <1>2
    <2>5. CASE j < p
      <3>1. x < a
        BY <1>1, <1>6, <2>1, <2>3, <2>5, RowApart DEF Apart
      <3> QED  BY <1>6, <2>2, <3>1
    <2>6. CASE j = p
      BY <1>1, <1>7, <2>1, <2>3, <2>6
    <2>7. CASE j = p + 1
      BY <1>5, <1>8, <2>1, <2>3, <2>7
    <2>8. CASE p + 1 < j
      <3>1. Apart(KeysOf(t, A[p + 1]), KeysOf(t, A[j]))
        BY <1>4, <2>8, RowApart
      <3>2. b < x
        BY <1>5, <1>6, <2>1, <2>3, <3>1 DEF Apart
      <3> QED  BY <1>6, <2>2, <3>2
    <2> QED  BY <2>4, <2>5, <2>6, <2>7, <2>8
  <1> QED  BY <1>5, <1>9, <1>10 DEF After, a, b, m

\* The last entry of the last leaf has the greatest key.
LEMMA LastLeaf ==
  ASSUME NEW t, NEW h, NEW R, NEW A, Lined(t, h, R, A), NEW n \in Leafs(t), Nx(t, n) \in ListHeads
  PROVE  \A x : Held(t, x) => x <= K(t, n)[Len(K(t, n))]
  <1>1. PICK p \in 1..Len(A) : A[p] = n
    BY LeafFacts
  <1>2. Len(A) \in Nat /\ p \in Int
    BY DEF Lined, Row
  <1>3. p = Len(A)
    <2>1. SUFFICES ASSUME p # Len(A) PROVE FALSE
      OBVIOUS
    <2>2. p \in 1..(Len(A) - 1) /\ p + 1 \in 1..Len(A)
      BY <1>2, <2>1
    <2>3. Nx(t, n) \in N(t)
      <3>1. Nx(t, n) = A[p + 1]
        BY <1>1, <2>2 DEF Lined, Row
      <3> QED  BY <2>2, <3>1, RowLeaf DEF Leafs
    <2>4. Nx(t, n) \in Nat \ {0}
      BY <2>3 DEF Lined, Levelled, TreeInv, Formed
    <2> QED  BY <2>4 DEF ListHeads, ListHead
  <1> DEFINE a == K(t, n)[Len(K(t, n))]
  <1>4. a \in KeysOf(t, n) /\ a \in Int
    <2>1. Len(K(t, n)) \in 1..Len(K(t, n))
      BY LeafFacts
    <2>2. a \in KeysOf(t, n)
      BY <2>1 DEF KeysOf
    <2> QED  BY <2>2, LeafFacts
  <1>5. \A x \in KeysOf(t, n) : x <= a
    BY LeafEnds
  <1> HIDE DEF a
  <1>6. ASSUME NEW x, Held(t, x) PROVE x <= a
    <2>1. PICK q \in Leafs(t) : x \in KeysOf(t, q)
      BY <1>6 DEF Held
    <2>2. x \in Int
      BY <2>1, LeafFacts
    <2>3. PICK j \in 1..Len(A) : A[j] = q
      BY LeafFacts
    <2>4. j = p \/ j < p
      BY <1>2, <1>3
    <2>5. CASE j = p
      BY <1>1, <1>5, <2>1, <2>3, <2>5
    <2>6. CASE j < p
      <3>1. x < a
        BY <1>1, <1>4, <2>1, <2>3, <2>6, RowApart DEF Apart
      <3> QED  BY <1>4, <2>2, <3>1
    <2> QED  BY <2>4, <2>5, <2>6
  <1> QED  BY <1>6 DEF a

-----------------------------------------------------------------------------
\* The loop of bplus_tree_get_range.

\* Its variables, and the entry they are at.
Locals(t) == {v \in [ln : Leafs(t), i : Nat, data : Int] : v.i < Len(K(t, v.ln))}
KeyAt(t, v) == K(t, v.ln)[v.i + 1]
DataAt(t, v) == D(t, v.ln)[v.i + 1]

\* When it ends, with what, and how it goes on.
Over(t, v, max) == KeyAt(t, v) > max \/ (~(v.i + 1 < Len(K(t, v.ln))) /\ Nx(t, v.ln) \in ListHeads)
Result(t, v, max) == IF KeyAt(t, v) > max THEN {v.data} ELSE {-1}
Onto(t, v) ==
  IF v.i + 1 < Len(K(t, v.ln)) THEN [ln |-> v.ln, i |-> v.i + 1, data |-> DataAt(t, v)]
  ELSE [ln |-> Nx(t, v.ln), i |-> 0, data |-> DataAt(t, v)]
Loops(f, t, max) == f = [v \in Locals(t) |-> IF Over(t, v, max) THEN Result(t, v, max) ELSE f[Onto(t, v)]]

\* The scan is such a loop.
LEMMA ScanLoops ==
  ASSUME NEW t, NEW n, NEW i, NEW max, \E f : Loops(f, t, max)
  PROVE  \E f : Loops(f, t, max) /\ scan(t, n, i, max) = f[[ln |-> n, i |-> i, data |-> 0]]
  <1> DEFINE leaves == {m \in DOMAIN t.node : is_leaf(t, m)}
             locals == {v \in [ln : leaves, i : Nat, data : Int] : v.i < entries(t, v.ln)}
             Body(f, v) ==
               LET key == At(t.node[v.ln].key, v.i)
                   data == At(t.node[v.ln].data, v.i)
                   next == t.link[v.ln].next
               IN IF key > max THEN {v.data}
                  ELSE IF v.i + 1 < entries(t, v.ln) THEN f[[ln |-> v.ln, i |-> v.i + 1, data |-> data]]
                  ELSE IF next \in ListHeads THEN {-1}
                  ELSE f[[ln |-> next, i |-> 0, data |-> data]]
             g == CHOOSE f : f = [v \in locals |-> Body(f, v)]
  <1>1. scan(t, n, i, max) = g[[ln |-> n, i |-> i, data |-> 0]]
    BY DEF scan
  <1>2. locals = Locals(t)
    BY DEF Locals, Leafs, N, entries, K
  <1>3. \A f, v : Body(f, v) = IF Over(t, v, max) THEN Result(t, v, max) ELSE f[Onto(t, v)]
    <2> SUFFICES ASSUME NEW f, NEW v
                 PROVE  Body(f, v) = IF Over(t, v, max) THEN Result(t, v, max) ELSE f[Onto(t, v)]
      OBVIOUS
    <2> DEFINE key == At(t.node[v.ln].key, v.i)
               data == At(t.node[v.ln].data, v.i)
               next == t.link[v.ln].next
    <2>1. key = KeyAt(t, v) /\ data = DataAt(t, v) /\ next = Nx(t, v.ln) /\ entries(t, v.ln) = Len(K(t, v.ln))
      BY DEF At, KeyAt, DataAt, K, D, Nx, entries
    <2>2. Body(f, v) = IF key > max THEN {v.data}
                       ELSE IF v.i + 1 < entries(t, v.ln) THEN f[[ln |-> v.ln, i |-> v.i + 1, data |-> data]]
                       ELSE IF next \in ListHeads THEN {-1}
                       ELSE f[[ln |-> next, i |-> 0, data |-> data]]
      OBVIOUS
    <2> HIDE DEF key, data, next, Body
    <2> QED  BY <2>1, <2>2 DEF Over, Result, Onto
  <1> HIDE DEF locals, Body
  <1>4. \A f : Loops(f, t, max) <=> f = [v \in locals |-> Body(f, v)]
    BY <1>2, <1>3 DEF Loops
  <1>5. g = [v \in locals |-> Body(g, v)]
    BY <1>4
  <1> HIDE DEF g
  <1> QED  BY <1>1, <1>4, <1>5

\* What is known of the variables.
LEMMA LocalFacts ==
  ASSUME NEW t, NEW h, NEW R, NEW A, Lined(t, h, R, A), NEW v \in Locals(t)
  PROVE  /\ v.ln \in Leafs(t) /\ v.i \in Nat /\ v.data \in Int /\ v.i + 1 \in 1..Len(K(t, v.ln))
         /\ KeyAt(t, v) \in KeysOf(t, v.ln) /\ KeyAt(t, v) \in Int /\ DataAt(t, v) \in Int
         /\ Has(t, KeyAt(t, v), DataAt(t, v))
  <1>1. v.ln \in Leafs(t) /\ v.i \in Nat /\ v.data \in Int /\ v.i < Len(K(t, v.ln))
    BY DEF Locals
  <1>2. K(t, v.ln) \in Seq(Int) /\ Len(K(t, v.ln)) \in Nat /\ KeysOf(t, v.ln) \subseteq Int
    BY <1>1, LeafFacts
  <1>3. D(t, v.ln) \in Seq(Int) /\ Len(D(t, v.ln)) = Len(K(t, v.ln))
    BY <1>1 DEF Lined, Levelled, TreeInv, Formed, NodeFormed, Leafs
  <1>4. v.i + 1 \in 1..Len(K(t, v.ln))
    BY <1>1, <1>2
  <1>5. KeyAt(t, v) \in KeysOf(t, v.ln)
    BY <1>4 DEF KeysOf, KeyAt
  <1>6. DataAt(t, v) \in Int
    BY <1>3, <1>4 DEF DataAt
  <1>7. Has(t, KeyAt(t, v), DataAt(t, v))
    BY <1>1, <1>4 DEF Has, KeyAt, DataAt
  <1> QED  BY <1>1, <1>2, <1>4, <1>5, <1>6, <1>7

\* The loop goes on to the entry with the next key, and remembers what it leaves.
LEMMA OntoNext ==
  ASSUME NEW t, NEW h, NEW R, NEW A, Lined(t, h, R, A), NEW max \in Int, NEW v \in Locals(t), ~Over(t, v, max)
  PROVE  Onto(t, v) \in Locals(t) /\ After(t, KeyAt(t, v), KeyAt(t, Onto(t, v))) /\ Onto(t, v).data = DataAt(t, v)
  <1>1. v.ln \in Leafs(t) /\ v.i \in Nat /\ v.i + 1 \in 1..Len(K(t, v.ln)) /\ DataAt(t, v) \in Int
    BY LocalFacts
  <1>2. Len(K(t, v.ln)) \in Nat
    BY <1>1, LeafFacts
  <1> DEFINE w == Onto(t, v)
             d == DataAt(t, v)
  <1> HIDE DEF d
  <1>3. CASE v.i + 1 < Len(K(t, v.ln))
    <2>1. w = [ln |-> v.ln, i |-> v.i + 1, data |-> d]
      BY <1>3 DEF Onto, d
    <2>2. w.ln = v.ln /\ w.i = v.i + 1 /\ w.data = d
      BY <2>1
    <2>3. w \in [ln : Leafs(t), i : Nat, data : Int]
      BY <1>1, <2>1 DEF d
    <2> HIDE DEF w
    <2>4. w \in Locals(t)
      BY <1>3, <2>2, <2>3 DEF Locals
    <2>5. v.i + 1 \in 1..(Len(K(t, v.ln)) - 1)
      BY <1>1, <1>2, <1>3
    <2>6. After(t, K(t, v.ln)[v.i + 1], K(t, v.ln)[(v.i + 1) + 1])
      BY <1>1, <2>5, NextEntry
    <2>7. After(t, KeyAt(t, v), KeyAt(t, w))
      BY <2>2, <2>6 DEF KeyAt
    <2> QED  BY <2>2, <2>4, <2>7 DEF w, d
  <1>4. CASE ~(v.i + 1 < Len(K(t, v.ln)))
    <2> DEFINE m == Nx(t, v.ln)
    <2>1. w = [ln |-> m, i |-> 0, data |-> d]
      BY <1>4 DEF Onto, d
    <2>2. m \notin ListHeads
      BY <1>4 DEF Over
    <2>3. m \in Leafs(t) /\ After(t, K(t, v.ln)[Len(K(t, v.ln))], K(t, m)[1])
      BY <1>1, <2>2, NextLeaf
    <2> HIDE DEF m
    <2>4. w.ln = m /\ w.i = 0 /\ w.data = d
      BY <2>1
    <2>5. w \in [ln : Leafs(t), i : Nat, data : Int]
      BY <1>1, <2>1, <2>3 DEF d
    <2>6. Len(K(t, m)) \in Nat \ {0}
      BY <2>3, LeafFacts
    <2> HIDE DEF w
    <2>7. w.i < Len(K(t, w.ln))
      BY <2>4, <2>6
    <2>8. w \in Locals(t)
      BY <2>5, <2>7 DEF Locals
    <2>9. v.i + 1 = Len(K(t, v.ln)) /\ w.i + 1 = 1
      BY <1>1, <1>2, <1>4, <2>4
    <2>10. After(t, KeyAt(t, v), KeyAt(t, w))
      BY <2>3, <2>4, <2>9 DEF KeyAt
    <2> QED  BY <2>4, <2>8, <2>10 DEF w, d
  <1> QED  BY <1>3, <1>4

\* There is a key that no other exceeds.
LEMMA GreatestKey ==
  ASSUME NEW t, NEW h, NEW R, NEW A, Lined(t, h, R, A)
  PROVE  \E M \in Int : \A x : Held(t, x) => x <= M
  <1> DEFINE n == A[Len(A)]
             M == K(t, n)[Len(K(t, n))]
  <1>1. Len(A) \in 1..Len(A) /\ 0 \in 0..(MaxLevel - 1)
    BY BPlusAssumption DEF Lined, Row
  <1>2. n \in Leafs(t)
    BY <1>1, RowLeaf
  <1>3. Nx(t, n) = ListHead(0)
    BY DEF Lined, Row
  <1>4. Nx(t, n) \in ListHeads
    BY <1>1, <1>3 DEF ListHeads
  <1> HIDE DEF n
  <1>5. \A x : Held(t, x) => x <= M
    BY <1>2, <1>4, LastLeaf
  <1>6. M \in Int
    <2>1. K(t, n) \in Seq(Int) /\ Len(K(t, n)) \in Nat \ {0}
      BY <1>2, LeafFacts
    <2>2. Len(K(t, n)) \in 1..Len(K(t, n))
      BY <2>1
    <2> QED  BY <2>1, <2>2
  <1> QED  BY <1>5, <1>6

\* The data is what the loop has last left, or the loop is where it began.
Behind(t, v, min, max) ==
  \/ KeyAt(t, v) = min
  \/ \E k \in Int : Has(t, k, v.data) /\ k <= max /\ After(t, k, KeyAt(t, v))

\* The loop from any entry has a result, and from the entry of min it is what is
\* filed under the greatest key that max does not fall below.
LEMMA LoopAnswers ==
  ASSUME NEW t, NEW h, NEW R, NEW A, Lined(t, h, R, A), NEW min \in Int, NEW max \in Int, min <= max,
         NEW g, Held(t, g), g > max
  PROVE  /\ \E f : Loops(f, t, max)
         /\ \A f : Loops(f, t, max) => \A v \in Locals(t) : KeyAt(t, v) = min =>
              \E k \in Int, d \in Int : /\ f[v] = {d} /\ Has(t, k, d) /\ k <= max
                                        /\ \A x : Held(t, x) => x <= k \/ x > max
  <1> DEFINE L == Locals(t)
             stop == {v \in L : Over(t, v, max)}
             end == [v \in L |-> Result(t, v, max)]
             next == [v \in L |-> Onto(t, v)]
             Good == {v \in L : Behind(t, v, min, max)}
  <1>1. PICK M \in Int : \A x : Held(t, x) => x <= M
    BY GreatestKey
  <1> DEFINE rank == [v \in L |-> M - KeyAt(t, v)]
  <1>2. ASSUME NEW v \in L PROVE rank[v] \in Nat /\ Held(t, KeyAt(t, v)) /\ KeyAt(t, v) \in Int
    <2>1. v.ln \in Leafs(t) /\ KeyAt(t, v) \in KeysOf(t, v.ln) /\ KeyAt(t, v) \in Int
      BY LocalFacts
    <2>2. Held(t, KeyAt(t, v))
      BY <2>1 DEF Held
    <2> HIDE DEF L
    <2>3. rank[v] = M - KeyAt(t, v)
      OBVIOUS
    <2>4. KeyAt(t, v) <= M
      BY <1>1, <2>2
    <2> QED  BY <1>1, <2>1, <2>2, <2>3, <2>4
  <1>3. ASSUME NEW v \in L \ stop
        PROVE  /\ next[v] \in L /\ After(t, KeyAt(t, v), KeyAt(t, next[v])) /\ next[v].data = DataAt(t, v)
               /\ KeyAt(t, v) <= max
    <2>1. ~Over(t, v, max) /\ v \in L /\ next[v] = Onto(t, v)
      OBVIOUS
    <2>2. ~(KeyAt(t, v) > max) /\ KeyAt(t, v) \in Int
      BY <1>2, <2>1 DEF Over
    <2>3. Onto(t, v) \in L /\ After(t, KeyAt(t, v), KeyAt(t, Onto(t, v))) /\ Onto(t, v).data = DataAt(t, v)
      BY <2>1, OntoNext
    <2> HIDE DEF L, next
    <2> QED  BY <2>1, <2>2, <2>3
  <1>4. ASSUME NEW v \in L \ stop PROVE next[v] \in L /\ rank[next[v]] < rank[v]
    <2>1. next[v] \in L /\ KeyAt(t, v) < KeyAt(t, next[v]) /\ v \in L
      BY <1>3 DEF After
    <2>2. KeyAt(t, v) \in Int /\ KeyAt(t, next[v]) \in Int
      BY <1>2, <2>1
    <2> HIDE DEF L, next
    <2>3. rank[v] = M - KeyAt(t, v) /\ rank[next[v]] = M - KeyAt(t, next[v])
      BY <2>1
    <2> QED  BY <1>1, <2>1, <2>2, <2>3
  <1>5. ASSUME NEW v \in Good \ stop PROVE next[v] \in Good
    <2>1. v \in L \ stop /\ v \in L
      OBVIOUS
    <2>2. /\ next[v] \in L /\ After(t, KeyAt(t, v), KeyAt(t, next[v])) /\ next[v].data = DataAt(t, v)
          /\ KeyAt(t, v) <= max
      BY <1>3, <2>1
    <2>3. Has(t, KeyAt(t, v), DataAt(t, v)) /\ KeyAt(t, v) \in Int
      BY <2>1, LocalFacts
    <2> HIDE DEF L, next, stop
    <2>4. Behind(t, next[v], min, max)
      BY <2>2, <2>3 DEF Behind
    <2> QED  BY <2>2, <2>4
  <1>6. \A f : Walk(f, L, stop, end, next) <=> Loops(f, t, max)
    <2> SUFFICES ASSUME NEW f
                 PROVE  [v \in L |-> IF v \in stop THEN end[v] ELSE f[next[v]]]
                        = [v \in L |-> IF Over(t, v, max) THEN Result(t, v, max) ELSE f[Onto(t, v)]]
      BY DEF Walk, Loops
    <2> HIDE DEF L
    <2> QED  OBVIOUS
  <1>7. \E f : Loops(f, t, max)
    <2>1. \A v \in L : rank[v] \in Nat
      BY <1>2
    <2>2. \E f : Walk(f, L, stop, end, next)
      <3> HIDE DEF L, stop, end, next, rank, Good
      <3> QED  BY <1>4, <2>1, WalkExists
    <2> QED  BY <1>6, <2>2
  <1>8. ASSUME NEW y \in Good \cap stop
        PROVE  \E k \in Int, d \in Int : /\ end[y] = {d} /\ Has(t, k, d) /\ k <= max
                                         /\ \A x : Held(t, x) => x <= k \/ x > max
    <2>1. y \in L /\ Over(t, y, max) /\ Behind(t, y, min, max) /\ end[y] = Result(t, y, max)
      OBVIOUS
    <2>2. y.ln \in Leafs(t) /\ y.i + 1 \in 1..Len(K(t, y.ln)) /\ KeyAt(t, y) \in Int /\ y.data \in Int /\ y.i \in Nat
      BY <2>1, LocalFacts
    <2> HIDE DEF L, end, Good, stop
    <2>3. Held(t, g) /\ g > max /\ g \in Int
      <3>1. PICK m \in Leafs(t) : g \in KeysOf(t, m)
        BY DEF Held
      <3> QED  BY <3>1, LeafFacts
    <2>4. KeyAt(t, y) > max
      <3>1. SUFFICES ASSUME ~(KeyAt(t, y) > max) PROVE FALSE
        OBVIOUS
      <3>2. ~(y.i + 1 < Len(K(t, y.ln))) /\ Nx(t, y.ln) \in ListHeads
        BY <2>1, <3>1 DEF Over
      <3>3. y.i + 1 = Len(K(t, y.ln))
        <4>1. Len(K(t, y.ln)) \in Nat
          BY <2>2, LeafFacts
        <4> QED  BY <2>2, <3>2, <4>1
      <3>4. g <= KeyAt(t, y)
        BY <2>2, <2>3, <3>2, <3>3, LastLeaf DEF KeyAt
      <3> QED  BY <2>2, <2>3, <3>1, <3>4
    <2>5. PICK k \in Int : Has(t, k, y.data) /\ k <= max /\ After(t, k, KeyAt(t, y))
      <3>1. KeyAt(t, y) # min
        BY <2>2, <2>4
      <3> QED  BY <2>1, <3>1 DEF Behind
    <2>6. end[y] = {y.data}
      BY <2>1, <2>4 DEF Result
    <2>7. ASSUME NEW x, Held(t, x) PROVE x <= k \/ x > max
      <3>1. x <= k \/ KeyAt(t, y) <= x
        BY <2>5, <2>7 DEF After
      <3>2. x \in Int
        <4>1. PICK m \in Leafs(t) : x \in KeysOf(t, m)
          BY <2>7 DEF Held
        <4> QED  BY <4>1, LeafFacts
      <3> QED  BY <2>2, <2>4, <3>1, <3>2
    <2> QED  BY <2>2, <2>5, <2>6, <2>7
  <1>9. ASSUME NEW f, Loops(f, t, max), NEW v \in L, KeyAt(t, v) = min
        PROVE  \E k \in Int, d \in Int : /\ f[v] = {d} /\ Has(t, k, d) /\ k <= max
                                         /\ \A x : Held(t, x) => x <= k \/ x > max
    <2>1. Walk(f, L, stop, end, next)
      BY <1>6, <1>9
    <2>2. Good \subseteq L /\ v \in Good
      BY <1>9 DEF Behind
    <2>3. \A u \in L : rank[u] \in Nat
      BY <1>2
    <2> HIDE DEF L, stop, end, next, rank, Good
    <2>4. \A u \in Good : \E y \in Good \cap stop : f[u] = end[y]
      BY <1>4, <1>5, <2>1, <2>2, <2>3, WalkEnds
    <2>5. PICK y \in Good \cap stop : f[v] = end[y]
      BY <2>2, <2>4
    <2> QED  BY <1>8, <2>5
  <1> QED  BY <1>7, <1>9

-----------------------------------------------------------------------------
\* Ranges.

\* A leaf of the tree is where its key is looked for, and the search finds it.
LEMMA FoundInLeaf ==
  ASSUME NEW t, NEW h, NEW R, TreeInv(t, h, R), NEW k, NEW d, Has(t, k, d)
  PROVE  LET n == leaf_for(t, k)
             found == key_binary_search(K(t, n), k)
         IN n \in Leafs(t) /\ found \in 0..(Len(K(t, n)) - 1) /\ K(t, n)[found + 1] = k /\ k \in Int
  <1>1. PICK m \in Leafs(t) : \E i \in 1..Len(K(t, m)) : K(t, m)[i] = k /\ D(t, m)[i] = d
    BY DEF Has
  <1>2. PICK i \in 1..Len(K(t, m)) : K(t, m)[i] = k
    BY <1>1
  <1>3. m \in N(t)
    BY DEF Leafs
  <1>4. K(t, m) \in Seq(Int) /\ Sorted(K(t, m))
    BY <1>3, NodeSorted
  <1>5. k \in R[m] /\ k \in Int
    <2>1. Routes(t, R)
      BY DEF TreeInv
    <2>2. \A j \in 1..Len(K(t, m)) : K(t, m)[j] \in R[m]
      BY <2>1 DEF Routes
    <2>3. R[m] \subseteq Int
      BY <1>3, <2>1 DEF Routes
    <2> QED  BY <1>2, <2>2, <2>3
  <1>6. leaf_for(t, k) = m
    BY <1>5, LeafFor
  <1>7. key_binary_search(K(t, m), k) = i - 1
    BY <1>2, <1>4, SearchFinds
  <1>8. i - 1 \in 0..(Len(K(t, m)) - 1) /\ (i - 1) + 1 = i
    BY <1>4
  <1> QED  BY <1>2, <1>5, <1>6, <1>7, <1>8

\* A scan from a stored key yields what is filed under the greatest key of the range.
LEMMA RangeFiled ==
  ASSUME NEW t, TreeState(t), t.level < MaxLevel, NEW k1, NEW d1, Has(t, k1, d1), NEW k2 \in Int, k1 <= k2,
         NEW g, NEW e, Has(t, g, e), g > k2
  PROVE  \E k \in Int, d \in Int : /\ range_from(t, k1, k2) = {d} /\ <<k, d>> \in Filed(t) /\ k <= k2
                                   /\ \A x, y : <<x, y>> \in Filed(t) => x <= k \/ x > k2
  <1>1. Grown(t) /\ Sound(t, t.order, t.entries) /\ InLists(t)
    <2>1. ~Bare(t)
      BY DEF Bare, Has, Leafs
    <2> QED  BY <2>1 DEF TreeState
  <1>2. PICK h, R : TreeInv(t, h, R)
    BY <1>1 DEF Grown
  <1>3. Levelled(t, h, R)
    BY <1>1, <1>2 DEF Levelled, InLists
  <1>4. PICK A : Lined(t, h, R, A)
    <2>1. t.level \in Nat /\ 0 \in 0..t.level
      BY <1>2 DEF TreeInv, Formed
    <2>2. PICK f : Layered(f, t, t.level)
      BY <2>1, LayeredExists
    <2>3. Row(t, h, R, 0, f[0])
      BY <1>3, <2>1, <2>2, LayeredRows
    <2>4. ASSUME NEW n \in Leafs(t) PROVE Len(K(t, n)) >= 1
      <3>1. n \in N(t) /\ is_leaf(t, n) /\ Fill(t, n)
        BY <1>1 DEF Leafs, Sound
      <3> QED  BY <3>1 DEF Fill, FullFill
    <2> QED  BY <1>3, <2>3, <2>4 DEF Lined
  <1> DEFINE n == leaf_for(t, k1)
             i == key_binary_search(K(t, n), k1)
             v == [ln |-> n, i |-> i, data |-> 0]
  <1>5. n \in Leafs(t) /\ i \in 0..(Len(K(t, n)) - 1) /\ K(t, n)[i + 1] = k1 /\ k1 \in Int
    BY <1>2, FoundInLeaf
  <1>6. range_from(t, k1, k2) = scan(t, n, i, k2)
    <2>1. t.root # NULL
      BY <1>2 DEF TreeInv, Formed, NULL
    <2>2. i >= 0 /\ i < entries(t, n) /\ ~(i >= entries(t, n))
      <3>1. Len(K(t, n)) \in Nat /\ entries(t, n) = Len(K(t, n))
        BY <1>4, <1>5, LeafFacts DEF entries, K
      <3> HIDE DEF n, i
      <3> QED  BY <1>5, <3>1
    <2>3. i = key_binary_search(t.node[leaf_for(t, k1)].key, k1)
      BY DEF K
    <2> HIDE DEF i
    <2> QED  BY <2>1, <2>2, <2>3 DEF range_from
  <1> HIDE DEF n, i
  <1>7. Held(t, g) /\ g \in Int
    <2>1. PICK m \in Leafs(t) : \E j \in 1..Len(K(t, m)) : K(t, m)[j] = g
      BY DEF Has
    <2>2. g \in KeysOf(t, m)
      BY <2>1 DEF KeysOf
    <2>3. KeysOf(t, m) \subseteq Int
      BY <1>4, LeafFacts
    <2> QED  BY <2>2, <2>3 DEF Held
  <1>8. v \in Locals(t) /\ KeyAt(t, v) = k1
    <2>1. Len(K(t, n)) \in Nat
      BY <1>4, <1>5, LeafFacts
    <2>2. i \in Nat /\ i < Len(K(t, n))
      BY <1>5, <2>1
    <2>3. v \in [ln : Leafs(t), i : Nat, data : Int] /\ v.ln = n /\ v.i = i
      BY <1>5, <2>2
    <2> HIDE DEF v
    <2> QED  BY <1>5, <2>2, <2>3 DEF Locals, KeyAt
  <1>9. \E f : Loops(f, t, k2)
    BY <1>4, <1>5, <1>7, LoopAnswers
  <1>10. PICK f : Loops(f, t, k2) /\ scan(t, n, i, k2) = f[v]
    BY <1>9, ScanLoops
  <1> HIDE DEF v
  <1>11. PICK k \in Int, d \in Int : /\ f[v] = {d} /\ Has(t, k, d) /\ k <= k2
                                     /\ \A x : Held(t, x) => x <= k \/ x > k2
    BY <1>4, <1>5, <1>7, <1>8, <1>10, LoopAnswers
  <1>12. <<k, d>> \in Filed(t)
    BY <1>11 DEF Filed
  <1>13. ASSUME NEW x, NEW y, <<x, y>> \in Filed(t) PROVE x <= k \/ x > k2
    <2>1. Has(t, x, y)
      BY <1>13 DEF Filed
    <2>2. PICK m \in Leafs(t) : \E j \in 1..Len(K(t, m)) : K(t, m)[j] = x
      BY <2>1 DEF Has
    <2>3. Held(t, x)
      BY <2>2 DEF Held, KeysOf
    <2> QED  BY <1>11, <2>3
  <1> QED  BY <1>6, <1>10, <1>11, <1>12, <1>13

\* The property.
LEMMA InvRange ==
  ASSUME TreeState(tree), Fitting
  PROVE  RangeFromPresentKey
  <1> DEFINE keys == {kd[1] : kd \in stored}
  <1>1. stored = Filed(tree)
    BY StoredIsFiled
  <1>2. ASSUME NEW kd \in stored
        PROVE  kd = <<kd[1], kd[2]>> /\ kd[1] \in Int /\ kd[2] \in Int /\ Has(tree, kd[1], kd[2])
    BY <1>1 DEF Filed
  <1> SUFFICES ASSUME NEW k1 \in keys, NEW k2 \in Probes, k1 <= k2, NEW g \in keys, g > k2
               PROVE  LET greatest == CHOOSE kd \in stored : kd[1] <= k2 /\ \A k \in keys : k <= kd[1] \/ k > k2
                      IN get_range(tree, k1, k2) = {greatest[2]} /\ get_range(tree, k2, k1) = {greatest[2]}
    BY DEF RangeFromPresentKey
  <1>3. PICK kd1 \in stored : k1 = kd1[1]
    OBVIOUS
  <1>4. PICK kdg \in stored : g = kdg[1]
    OBVIOUS
  <1>5. Has(tree, k1, kd1[2]) /\ Has(tree, g, kdg[2]) /\ k1 \in Int /\ k2 \in Int
    BY <1>2, <1>3, <1>4, BPlusAssumption
  <1>6. PICK k \in Int, d \in Int : /\ range_from(tree, k1, k2) = {d} /\ <<k, d>> \in Filed(tree) /\ k <= k2
                                    /\ \A x, y : <<x, y>> \in Filed(tree) => x <= k \/ x > k2
    <2> HIDE DEF keys
    <2> QED  BY <1>5, RangeFiled DEF Fitting
  <1> DEFINE Best(kd) == kd[1] <= k2 /\ \A x \in keys : x <= kd[1] \/ x > k2
             greatest == CHOOSE kd \in stored : Best(kd)
  <1>7. Best(<<k, d>>) /\ <<k, d>> \in stored
    <2>1. <<k, d>>[1] = k
      OBVIOUS
    <2>2. ASSUME NEW x \in keys PROVE x <= k \/ x > k2
      <3>1. PICK kd \in stored : x = kd[1]
        OBVIOUS
      <3>2. <<x, kd[2]>> \in Filed(tree)
        BY <1>1, <1>2, <3>1
      <3> QED  BY <1>6, <3>2
    <2> QED  BY <1>1, <1>6, <2>1, <2>2
  <1>8. greatest \in stored /\ Best(greatest)
    <2> HIDE DEF Best
    <2> QED  BY <1>7
  <1> HIDE DEF greatest
  <1>9. greatest[1] = k
    <2>1. greatest[1] \in Int /\ greatest[1] <= k2 /\ greatest[1] \in keys
      BY <1>2, <1>8
    <2>2. k \in keys
      <3>1. <<k, d>>[1] = k
        OBVIOUS
      <3> QED  BY <1>7, <3>1
    <2>3. k <= greatest[1] \/ k > k2
      BY <1>8, <2>2
    <2>4. greatest[1] <= k \/ greatest[1] > k2
      <3>1. <<k, d>>[1] = k
        OBVIOUS
      <3> QED  BY <1>7, <2>1, <3>1
    <2> HIDE DEF keys
    <2> QED  BY <1>5, <1>6, <2>1, <2>3, <2>4
  <1>10. greatest[2] = d
    <2>1. <<k, greatest[2]>> \in Filed(tree)
      BY <1>1, <1>2, <1>8, <1>9
    <2>2. Grown(tree)
      <3>1. ~Bare(tree)
        BY <1>5 DEF Bare, Has, Leafs
      <3> QED  BY <3>1 DEF TreeState
    <2>3. PICK h, R : TreeInv(tree, h, R)
      BY <2>2 DEF Grown
    <2> QED  BY <1>6, <2>1, <2>3, FiledOnce
  <1>11. get_range(tree, k1, k2) = range_from(tree, k1, k2)
    BY DEF get_range
  <1>12. get_range(tree, k2, k1) = range_from(tree, k1, k2)
    <2>1. CASE k2 = k1
      BY <2>1, <1>5 DEF get_range
    <2>2. CASE k2 # k1
      <3>1. ~(k2 <= k1)
        BY <1>5, <2>2
      <3> QED  BY <3>1 DEF get_range
    <2> QED  BY <2>1, <2>2
  <1> QED  BY <1>6, <1>10, <1>11, <1>12 DEF greatest

\* A range that starts at a stored key and ends before the greatest one yields the
\* position filed under its greatest key, whichever way round its ends are given:
\* the scan along the leaf list meets the keys in order, and never the list head.
THEOREM RangesStayRight == Spec /\ []Fitting => []RangeFromPresentKey
  <1>1. BuiltInv /\ Fitting => RangeFromPresentKey
    BY InvRange DEF BuiltInv
  <1> QED  BY <1>1, AlwaysTree, PTL

-----------------------------------------------------------------------------
\* How many keys it takes to outgrow the list heads.

\* 2 to the power of MaxLevel: the fewest keys that make a tree of that level.
LeastKeys == LET least[l \in 0..MaxLevel] == IF l = 0 THEN 1 ELSE 2 * least[l - 1] IN least[MaxLevel]
FewKeys == IsFiniteSet(Inputs) /\ Cardinality({kd[1] : kd \in Inputs}) < LeastKeys

\* f doubles from one number to the next.
Doubles(f, n) == f = [l \in 0..n |-> IF l = 0 THEN 1 ELSE 2 * f[l - 1]]

\* However often.
LEMMA DoublesExists ==
  ASSUME NEW n \in Nat
  PROVE  \E f : Doubles(f, n)
  <1> DEFINE T == {i \in Nat : ~\E f : Doubles(f, i)}
  <1>1. \E f : Doubles(f, 0)
    <2> DEFINE g == [i \in 0..0 |-> 1]
    <2>1. g = [i \in 0..0 |-> IF i = 0 THEN 1 ELSE 2 * g[i - 1]]
      OBVIOUS
    <2> HIDE DEF g
    <2> QED  BY <2>1 DEF Doubles
  <1>2. ASSUME NEW j \in Nat, NEW f, Doubles(f, j)
        PROVE  \E g : Doubles(g, j + 1)
    <2> DEFINE g == [i \in 0..(j + 1) |-> IF i = 0 THEN 1 ELSE 2 * f[i - 1]]
    <2>1. \A i \in 0..(j + 1) : g[i] = IF i = 0 THEN 1 ELSE 2 * f[i - 1]
      OBVIOUS
    <2>2. \A i \in 0..j : f[i] = IF i = 0 THEN 1 ELSE 2 * f[i - 1]
      BY <1>2 DEF Doubles
    <2>3. g = [i \in 0..(j + 1) |-> g[i]]
      OBVIOUS
    <2> HIDE DEF g
    <2>4. \A i \in 0..j : g[i] = f[i]
      BY <2>1, <2>2
    <2>5. \A i \in 0..(j + 1) : i # 0 => i - 1 \in 0..j
      OBVIOUS
    <2>6. \A i \in 0..(j + 1) : g[i] = IF i = 0 THEN 1 ELSE 2 * g[i - 1]
      BY <2>1, <2>4, <2>5
    <2>7. g = [i \in 0..(j + 1) |-> IF i = 0 THEN 1 ELSE 2 * g[i - 1]]
      BY <2>3, <2>6
    <2> QED  BY <2>7 DEF Doubles
  <1>3. T = {}
    <2>1. SUFFICES ASSUME T # {} PROVE FALSE
      OBVIOUS
    <2>2. PICK i \in T : \A j \in T : i <= j
      BY <2>1, LeastNumber
    <2>3. i # 0
      BY <1>1, <2>2
    <2>4. i - 1 \in Nat /\ i - 1 \notin T /\ (i - 1) + 1 = i
      BY <2>2, <2>3
    <2> QED  BY <1>2, <2>2, <2>4
  <1> QED  BY <1>3

\* The nodes at a height.
AtHeight(t, h, l) == {n \in N(t) : h[n] = l}

\* They can be counted.
LEMMA HeightFinite ==
  ASSUME NEW t, NEW h, NEW R, TreeInv(t, h, R), NEW l
  PROVE  IsFiniteSet(AtHeight(t, h, l)) /\ Cardinality(AtHeight(t, h, l)) \in Nat
  <1>1. IsFiniteSet(N(t)) /\ AtHeight(t, h, l) \in SUBSET N(t)
    BY DEF TreeInv, Formed, AtHeight
  <1>2. IsFiniteSet(AtHeight(t, h, l))
    BY <1>1, FS_Subset
  <1> QED  BY <1>2, FS_CardinalityType

\* Every node has at least two children of its own.
LEMMA Twofold ==
  ASSUME NEW t, NEW h, NEW R, TreeInv(t, h, R), \A p \in Inner(t) : Len(S(t, p)) >= 2, NEW l \in Nat
  PROVE  Cardinality(AtHeight(t, h, l)) >= 2 * Cardinality(AtHeight(t, h, l + 1))
  <1> DEFINE U == AtHeight(t, h, l + 1)
             V == AtHeight(t, h, l)
             F(c) == {S(t, p)[c] : p \in U}
  <1>1. IsFiniteSet(V) /\ Cardinality(V) \in Nat /\ IsFiniteSet(U) /\ Cardinality(U) \in Nat
    BY HeightFinite
  <1>2. ASSUME NEW p \in U, NEW c \in {1, 2}
        PROVE  S(t, p)[c] \in V /\ P(t, S(t, p)[c]) = p /\ X(t, S(t, p)[c]) = c - 2
    <2>1. p \in N(t) /\ h[p] = l + 1
      BY DEF AtHeight
    <2>2. p \in Inner(t)
      <3>1. h[p] # 0
        BY <2>1
      <3> QED  BY <2>1, <3>1 DEF TreeInv, Heights, Inner
    <2>3. c \in 1..Len(S(t, p))
      <3>1. Len(S(t, p)) \in Nat
        BY <2>2 DEF TreeInv, Formed, NodeFormed, Inner
      <3>2. Len(S(t, p)) >= 2
        BY <2>2
      <3> QED  BY <3>1, <3>2
    <2>4. /\ S(t, p)[c] \in N(t) /\ h[S(t, p)[c]] = h[p] - 1
          /\ P(t, S(t, p)[c]) = p /\ X(t, S(t, p)[c]) = c - 2
      BY <2>2, <2>3, ChildFacts
    <2> QED  BY <2>1, <2>4 DEF AtHeight
  <1>3. ASSUME NEW c \in {1, 2}
        PROVE  F(c) \in SUBSET V /\ IsFiniteSet(F(c)) /\ Cardinality(F(c)) \in Nat /\ Cardinality(U) <= Cardinality(F(c))
    <2>1. F(c) \in SUBSET V
      BY <1>2
    <2>2. IsFiniteSet(F(c))
      BY <1>1, <2>1, FS_Subset
    <2>3. Cardinality(F(c)) \in Nat
      BY <2>2, FS_CardinalityType
    <2> DEFINE f == [p \in U |-> S(t, p)[c]]
               W == F(c)
    <2>4. f \in [U -> W]
      OBVIOUS
    <2>5. \A p, q \in U : f[p] = f[q] => p = q
      BY <1>2
    <2> HIDE DEF f, W, U
    <2>6. f \in Injection(U, W)
      BY <2>4, <2>5 DEF Injection, IsInjective
    <2>7. IsFiniteSet(W)
      BY <2>2 DEF W
    <2>8. Cardinality(U) <= Cardinality(W)
      BY <2>6, <2>7, FS_Injection
    <2> QED  BY <2>1, <2>2, <2>3, <2>8 DEF W
  <1> DEFINE A == F(1)
             B == F(2)
  <1>4. A \cap B = {}
    <2>1. SUFFICES ASSUME NEW x \in A, x \in B PROVE FALSE
      OBVIOUS
    <2>2. PICK p \in U : x = S(t, p)[1]
      BY <2>1
    <2>3. PICK q \in U : x = S(t, q)[2]
      BY <2>1
    <2>4. X(t, x) = 1 - 2 /\ X(t, x) = 2 - 2
      BY <1>2, <2>2, <2>3
    <2> QED  BY <2>4
  <1>5. /\ A \in SUBSET V /\ IsFiniteSet(A) /\ Cardinality(A) \in Nat /\ Cardinality(U) <= Cardinality(A)
        /\ B \in SUBSET V /\ IsFiniteSet(B) /\ Cardinality(B) \in Nat /\ Cardinality(U) <= Cardinality(B)
    BY <1>3
  <1> HIDE DEF A, B, U, V
  <1>6. Cardinality(A \cup B) = Cardinality(A) + Cardinality(B)
    <2>1. Cardinality(A \cup B) = Cardinality(A) + Cardinality(B) - Cardinality(A \cap B)
      BY <1>5, FS_Union
    <2>2. Cardinality(A \cap B) = 0
      BY <1>4, FS_EmptySet
    <2> QED  BY <1>5, <2>1, <2>2
  <1>7. Cardinality(A \cup B) <= Cardinality(V)
    <2>1. A \cup B \in SUBSET V
      BY <1>5
    <2> QED  BY <1>1, <2>1, FS_Subset
  <1>8. Cardinality(V) >= 2 * Cardinality(U)
    BY <1>1, <1>5, <1>6, <1>7
  <1> QED  BY <1>8 DEF U, V

\* There are no fewer leaves than nodes at any height.
LEMMA LeavesMost ==
  ASSUME NEW t, NEW h, NEW R, TreeInv(t, h, R), \A p \in Inner(t) : Len(S(t, p)) >= 2, NEW l \in Nat
  PROVE  Cardinality(AtHeight(t, h, 0)) >= Cardinality(AtHeight(t, h, l))
  <1> DEFINE C(m) == Cardinality(AtHeight(t, h, m))
             T == {m \in Nat : ~(C(0) >= C(m))}
  <1>1. \A m \in Nat : C(m) \in Nat
    BY HeightFinite
  <1>2. \A m \in Nat : C(m) >= 2 * C(m + 1)
    BY Twofold
  <1> HIDE DEF C
  <1>3. T = {}
    <2>1. SUFFICES ASSUME T # {} PROVE FALSE
      OBVIOUS
    <2>2. PICK i \in T : \A j \in T : i <= j
      BY <2>1, LeastNumber
    <2>3. i # 0
      BY <1>1, <2>2
    <2>4. i - 1 \in Nat /\ i - 1 \notin T /\ (i - 1) + 1 = i /\ i \in Nat
      BY <2>2, <2>3
    <2>5. C(0) >= C(i - 1) /\ C(i - 1) >= 2 * C(i)
      BY <1>2, <2>4
    <2>6. C(0) \in Nat /\ C(i - 1) \in Nat /\ C(i) \in Nat
      BY <1>1, <2>4
    <2>7. C(0) >= C(i)
      BY <2>5, <2>6
    <2> QED  BY <2>2, <2>7
  <1>4. C(0) >= C(l)
    BY <1>3
  <1> QED  BY <1>4 DEF C

\* A tree as high as there are list heads has as many leaves as it takes.
LEMMA HighTree ==
  ASSUME NEW t, NEW h, NEW R, TreeInv(t, h, R), \A p \in Inner(t) : Len(S(t, p)) >= 2, t.level >= MaxLevel
  PROVE  Cardinality(Leafs(t)) >= LeastKeys /\ IsFiniteSet(Leafs(t)) /\ LeastKeys \in Nat
  <1> DEFINE f == CHOOSE f : f = [l \in 0..MaxLevel |-> IF l = 0 THEN 1 ELSE 2 * f[l - 1]]
             C(m) == Cardinality(AtHeight(t, h, m))
             top == t.level
             T == {j \in Nat : j <= MaxLevel /\ ~(f[j] \in Nat /\ C(top - j) >= f[j])}
  <1>1. MaxLevel \in Nat /\ top \in Nat
    BY BPlusAssumption DEF TreeInv, Formed
  <1>2. LeastKeys = f[MaxLevel]
    BY DEF LeastKeys
  <1>3. f = [l \in 0..MaxLevel |-> IF l = 0 THEN 1 ELSE 2 * f[l - 1]]
    <2>1. \E g : g = [l \in 0..MaxLevel |-> IF l = 0 THEN 1 ELSE 2 * g[l - 1]]
      BY <1>1, DoublesExists DEF Doubles
    <2> QED  BY <2>1
  <1> HIDE DEF f
  <1>4. \A l \in 0..MaxLevel : f[l] = IF l = 0 THEN 1 ELSE 2 * f[l - 1]
    BY <1>3
  <1>5. \A m \in Nat : C(m) \in Nat /\ C(m) >= 2 * C(m + 1)
    BY HeightFinite, Twofold
  <1>6. C(top) >= 1
    <2>1. t.root \in AtHeight(t, h, top)
      BY DEF TreeInv, Formed, Heights, AtHeight
    <2>2. IsFiniteSet(AtHeight(t, h, top)) /\ C(top) \in Nat
      BY HeightFinite
    <2>3. C(top) # 0
      BY <2>1, <2>2, FS_EmptySet
    <2> HIDE DEF C
    <2> QED  BY <2>2, <2>3
  <1>7. C(0) >= C(top - MaxLevel)
    <2>1. top - MaxLevel \in Nat
      BY <1>1
    <2> QED  BY <2>1, LeavesMost
  <1>8. AtHeight(t, h, 0) = Leafs(t)
    BY DEF TreeInv, Heights, AtHeight, Leafs
  <1>9. IsFiniteSet(Leafs(t)) /\ C(0) = Cardinality(Leafs(t))
    BY <1>8, HeightFinite
  <1> HIDE DEF C
  <1>10. T = {}
    <2>1. SUFFICES ASSUME T # {} PROVE FALSE
      OBVIOUS
    <2>2. PICK i \in T : \A j \in T : i <= j
      BY <2>1, LeastNumber
    <2>3. i \in Nat /\ i <= MaxLevel /\ i \in 0..MaxLevel
      BY <1>1, <2>2
    <2>4. CASE i = 0
      <3>1. f[i] = 1 /\ top - i = top
        BY <1>1, <1>4, <2>3, <2>4
      <3> QED  BY <1>6, <2>2, <3>1
    <2>5. CASE i # 0
      <3> DEFINE j == i - 1
                 m == top - i
      <3>1. j \in Nat /\ j <= MaxLevel /\ j < i /\ m \in Nat /\ top - j = m + 1 /\ m + 1 \in Nat
        BY <1>1, <2>3, <2>5
      <3>2. f[i] = 2 * f[j]
        BY <1>4, <2>3, <2>5
      <3>3. j \notin T
        BY <2>2, <3>1
      <3> HIDE DEF j, m
      <3>4. f[j] \in Nat /\ C(m + 1) >= f[j]
        BY <3>1, <3>3
      <3>5. C(m) >= 2 * C(m + 1) /\ C(m) \in Nat /\ C(m + 1) \in Nat
        BY <1>5, <3>1
      <3>6. f[i] \in Nat /\ C(m) >= f[i]
        BY <3>2, <3>4, <3>5
      <3> QED  BY <2>2, <3>6 DEF m
    <2> QED  BY <2>4, <2>5
  <1>11. f[MaxLevel] \in Nat /\ C(top - MaxLevel) >= f[MaxLevel]
    <2>1. MaxLevel <= MaxLevel
      BY <1>1
    <2> QED  BY <1>1, <1>10, <2>1
  <1>12. C(0) \in Nat /\ C(top - MaxLevel) \in Nat
    <2>1. top - MaxLevel \in Nat /\ 0 \in Nat
      BY <1>1
    <2> QED  BY <1>5, <2>1
  <1>13. C(0) >= f[MaxLevel]
    BY <1>7, <1>11, <1>12
  <1> QED  BY <1>2, <1>9, <1>11, <1>13

\* No two leaves begin with the same key, so there are as many keys as leaves.
LEMMA FewFit ==
  ASSUME BuiltInv, FewKeys
  PROVE  Fitting
  <1>1. CASE Bare(tree)
    BY <1>1, BPlusAssumption DEF Bare, Fitting
  <1>2. CASE Grown(tree) /\ Sound(tree, tree.order, tree.entries)
    <2>1. PICK h, R : TreeInv(tree, h, R)
      BY <1>2 DEF Grown
    <2>2. ASSUME NEW n \in N(tree)
          PROVE  (is_leaf(tree, n) => Len(K(tree, n)) >= 1) /\ (~is_leaf(tree, n) => Len(S(tree, n)) >= 2)
      <3>1. Fill(tree, n)
        BY <1>2 DEF Sound
      <3> QED  BY <3>1 DEF Fill, FullFill
    <2>3. SUFFICES ASSUME ~(tree.level < MaxLevel) PROVE FALSE
      BY DEF Fitting
    <2>4. tree.level >= MaxLevel
      <3>1. tree.level \in Nat /\ MaxLevel \in Nat
        BY <2>1, BPlusAssumption DEF TreeInv, Formed
      <3> QED  BY <2>3, <3>1
    <2>5. \A p \in Inner(tree) : Len(S(tree, p)) >= 2
      BY <2>2 DEF Inner
    <2>6. Cardinality(Leafs(tree)) >= LeastKeys /\ IsFiniteSet(Leafs(tree)) /\ LeastKeys \in Nat
      BY <2>1, <2>4, <2>5, HighTree
    <2> DEFINE keys == {kd[1] : kd \in Inputs}
               f == [n \in Leafs(tree) |-> K(tree, n)[1]]
    <2>7. ASSUME NEW n \in Leafs(tree)
          PROVE  K(tree, n)[1] \in keys /\ leaf_for(tree, K(tree, n)[1]) = n
      <3> DEFINE k == K(tree, n)[1]
                 d == D(tree, n)[1]
      <3>1. n \in N(tree) /\ is_leaf(tree, n)
        BY DEF Leafs
      <3>2. /\ K(tree, n) \in Seq(Int) /\ D(tree, n) \in Seq(Int) /\ Len(D(tree, n)) = Len(K(tree, n))
            /\ Len(K(tree, n)) >= 1
        BY <2>1, <2>2, <3>1 DEF TreeInv, Formed, NodeFormed
      <3>3. 1 \in 1..Len(K(tree, n)) /\ 1 \in 1..Len(D(tree, n))
        BY <3>2
      <3>4. k \in Int /\ d \in Int
        BY <3>2, <3>3
      <3>5. Has(tree, k, d)
        BY <3>3 DEF Has
      <3>6. <<k, d>> \in Filed(tree)
        BY <3>4, <3>5 DEF Filed
      <3>7. <<k, d>> \in Inputs /\ <<k, d>>[1] = k
        BY <3>6 DEF BuiltInv
      <3>8. k \in R[n]
        <4>1. Routes(tree, R)
          BY <2>1 DEF TreeInv
        <4> QED  BY <3>3, <4>1 DEF Routes
      <3> HIDE DEF k, d
      <3>9. leaf_for(tree, k) = n
        BY <2>1, <3>4, <3>8, LeafFor
      <3> QED  BY <3>7, <3>9 DEF k
    <2>8. IsFiniteSet(keys)
      <3>1. IsFiniteSet(Inputs)
        BY DEF FewKeys
      <3> DEFINE g == [kd \in Inputs |-> kd[1]]
      <3>2. g \in [Inputs -> keys] /\ \A x \in keys : \E kd \in Inputs : g[kd] = x
        OBVIOUS
      <3> HIDE DEF g, keys
      <3>3. g \in Surjection(Inputs, keys)
        BY <3>2 DEF Surjection
      <3> QED  BY <3>1, <3>3, FS_Surjection
    <2>9. f \in [Leafs(tree) -> keys] /\ \A m, n \in Leafs(tree) : f[m] = f[n] => m = n
      BY <2>7
    <2>10. Cardinality(keys) < LeastKeys
      BY DEF FewKeys
    <2> HIDE DEF f, keys
    <2>11. f \in Injection(Leafs(tree), keys)
      BY <2>9 DEF Injection, IsInjective
    <2>12. Cardinality(Leafs(tree)) <= Cardinality(keys)
      BY <2>8, <2>11, FS_Injection
    <2>13. Cardinality(keys) \in Nat /\ Cardinality(Leafs(tree)) \in Nat
      BY <2>6, <2>8, FS_CardinalityType
    <2> QED  BY <2>6, <2>10, <2>12, <2>13
  <1> QED  BY <1>1, <1>2 DEF BuiltInv, TreeState

\* With fewer than 2^MaxLevel different keys the tree never outgrows its list heads,
\* so that for such keys the theorems above hold of every behaviour.
THEOREM FewKeysFit == FewKeys => (Spec => [](BuiltInv /\ Fitting))
  <1> SUFFICES ASSUME FewKeys PROVE Spec => [](BuiltInv /\ Fitting)
    OBVIOUS
  <1>1. Init => BuiltInv
    BY BuiltInit
  <1>2. BuiltInv => Fitting
    BY FewFit
  <1>3. BuiltInv /\ Fitting /\ [Next]_vars => BuiltInv'
    BY TreeStep
  <1> QED  BY <1>1, <1>2, <1>3, PTL DEF Spec

\* With so few keys the tree implements the abstract index, whatever is put and deleted.
THEOREM FewKeysMap == FewKeys => (Spec => ImplementsIndexMap)
  <1> SUFFICES ASSUME FewKeys PROVE Spec => ImplementsIndexMap
    OBVIOUS
  <1>1. Spec => [](BuiltInv /\ Fitting)
    BY FewKeysFit
  <1> QED  BY <1>1, TreeStaysMap, PTL
=============================================================================
