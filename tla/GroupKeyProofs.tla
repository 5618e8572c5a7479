--------------------------- MODULE GroupKeyProofs ---------------------------
(***************************************************************************)
(* Theorems about GroupKey, for every set of keys and positions, every     *)
(* size of the arrays and, unless a theorem says otherwise, whatever the   *)
(* unwritten slots hold.                                                   *)
(*                                                                         *)
(* The binary search is a recursive function, so it is shown first that    *)
(* there is a function that satisfies its equation and then what it finds, *)
(* both by the least counterexample.  The arrays are treated as three      *)
(* sequences vs, o and p, apart from the state, because a put passes       *)
(* through arrays that no state holds: those with the key and without the  *)
(* position.                                                               *)
(***************************************************************************)
EXTENDS GroupKey, FiniteSetTheorems, FunctionTheorems, SequenceTheorems, TLAPS

-----------------------------------------------------------------------------
\* The search of binary_search and posting_insert (groupkey.cpp:74-97, 157-170).

\* A set of natural numbers has a least one.
LEMMA LeastNumber ==
  ASSUME NEW T \in SUBSET Nat, T # {}
  PROVE  \E m \in T : \A n \in T : m <= n
  <1> DEFINE R == OpToRel(<, Nat)
  <1>1. R = {ss \in Nat \X Nat : ss[1] < ss[2]}
    BY DEF OpToRel
  <1>2. IsWellFoundedOn(R, Nat)
    BY NatLessThanWellFounded
  <1> HIDE DEF R
  <1>3. PICK m \in T : \A n \in T : <<n, m>> \notin R
    BY <1>2, WFMin
  <1>4. \A n \in T : ~(n < m)
    BY <1>1, <1>3
  <1> QED  BY <1>4

\* Left and right end of a search.
Ranges(to) == (0..to) \X (0..to)
\* One turn of the search, with what the next turns yield.
Turn(g, v, k, w) ==
  LET l == w[1]
      r == w[2]
      m == (l + r) \div 2
  IN IF l >= r THEN l
     ELSE IF At(v, m) < k THEN g[<<m + 1, r>>] ELSE g[<<l, m>>]

\* g is the function search of lower_bound.
IsSearch(g, v, k, to) == g = [w \in Ranges(to) |-> Turn(g, v, k, w)]

\* The middle lies within the range.
LEMMA Middle ==
  ASSUME NEW to \in Nat, NEW l \in 0..to, NEW r \in 0..to, l < r
  PROVE  LET m == (l + r) \div 2
         IN  m \in l..(r - 1) /\ m \in 0..to /\ m + 1 \in 0..to
  OBVIOUS

\* There is such a function: on ranges of a bounded length it is known, and the
\* bound can be raised by one.
LEMMA SearchExists ==
  ASSUME NEW to \in Nat, NEW v, NEW k
  PROVE  \E g : IsSearch(g, v, k, to)
  <1> DEFINE Upto(g, n) ==
        g = [w \in Ranges(to) |-> IF w[2] - w[1] > n THEN 0 ELSE Turn(g, v, k, w)]
      T == {n \in Nat : ~\E g : Upto(g, n)}
  <1>1. ASSUME NEW n \in Nat, NEW g, Upto(g, n)
        PROVE  \E h : Upto(h, n + 1)
    <2> DEFINE h == [w \in Ranges(to) |-> IF w[2] - w[1] > n + 1 THEN 0 ELSE Turn(g, v, k, w)]
    <2>1. \A w \in Ranges(to) : g[w] = IF w[2] - w[1] > n THEN 0 ELSE Turn(g, v, k, w)
      BY <1>1
    <2>2. \A w \in Ranges(to) : h[w] = IF w[2] - w[1] > n + 1 THEN 0 ELSE Turn(g, v, k, w)
      OBVIOUS
    <2> HIDE DEF h
    <2>3. \A w \in Ranges(to) : w[2] - w[1] <= n => h[w] = g[w]
      BY <2>1, <2>2 DEF Ranges
    <2>4. ASSUME NEW w \in Ranges(to), w[2] - w[1] <= n + 1
          PROVE  Turn(h, v, k, w) = Turn(g, v, k, w)
      <3> DEFINE l == w[1]
                 r == w[2]
                 m == (l + r) \div 2
      <3>0. l \in 0..to /\ r \in 0..to
        BY DEF Ranges
      <3>1. CASE l >= r
        BY <3>1 DEF Turn
      <3>2. CASE ~(l >= r)
        <4>1. m \in 0..to /\ m + 1 \in 0..to /\ m \in l..(r - 1)
          BY <3>0, <3>2, Middle
        <4> HIDE DEF m
        <4>2. h[<<m + 1, r>>] = g[<<m + 1, r>>] /\ h[<<l, m>>] = g[<<l, m>>]
          <5>1. <<m + 1, r>> \in Ranges(to) /\ <<l, m>> \in Ranges(to)
            BY <3>0, <4>1 DEF Ranges
          <5> QED  BY <2>3, <2>4, <3>0, <4>1, <5>1
        <4> QED  BY <3>2, <4>2 DEF Turn, m
      <3> QED  BY <3>1, <3>2
    <2>5. h = [w \in Ranges(to) |-> IF w[2] - w[1] > n + 1 THEN 0 ELSE Turn(h, v, k, w)]
      <3>1. \A w \in Ranges(to) : (w[2] - w[1] > n + 1) \/ (w[2] - w[1] <= n + 1)
        BY DEF Ranges
      <3> QED  BY <2>4, <3>1 DEF h
    <2> QED  BY <2>5
  <1>2. \E g : Upto(g, 0)
    <2> DEFINE g == [w \in Ranges(to) |-> IF w[2] - w[1] > 0 THEN 0 ELSE w[1]]
    <2>1. g = [w \in Ranges(to) |-> IF w[2] - w[1] > 0 THEN 0 ELSE Turn(g, v, k, w)]
      <3>1. ASSUME NEW w \in Ranges(to), ~(w[2] - w[1] > 0)
            PROVE  Turn(g, v, k, w) = w[1]
        BY <3>1 DEF Turn, Ranges
      <3> QED  BY <3>1
    <2> QED  BY <2>1
  <1>3. T = {}
    <2>1. SUFFICES ASSUME T # {} PROVE FALSE
      OBVIOUS
    <2> HIDE DEF Upto
    <2>2. PICK n \in T : \A j \in T : n <= j
      BY <2>1, LeastNumber
    <2>3. n # 0
      BY <1>2, <2>2
    <2>4. n - 1 \in Nat /\ n - 1 \notin T /\ (n - 1) + 1 = n
      BY <2>2, <2>3
    <2> QED  BY <1>1, <2>2, <2>4
  <1> HIDE DEF Upto
  <1>4. PICK g : Upto(g, to)
    BY <1>3
  <1>5. g = [w \in Ranges(to) |-> Turn(g, v, k, w)]
    <2>1. \A w \in Ranges(to) : ~(w[2] - w[1] > to)
      BY DEF Ranges
    <2> QED  BY <1>4, <2>1 DEF Upto
  <1> QED  BY <1>5 DEF IsSearch

\* What the search finds between from and to: the elements on either side of
\* the place are on the right side of it.  Nothing is asked of the order.
LEMMA SearchFinds ==
  ASSUME NEW to \in Nat, NEW v, NEW k, NEW g, IsSearch(g, v, k, to),
         NEW from \in 0..to
  PROVE  LET i == g[<<from, to>>]
         IN  /\ i \in from..to
             /\ i > from => At(v, i - 1) < k
             /\ i < to => ~(At(v, i) < k)
  <1> DEFINE Right(l, r) ==
        LET i == g[<<l, r>>]
        IN  /\ i \in l..r
            /\ i > l => At(v, i - 1) < k
            /\ i < r => ~(At(v, i) < k)
      T == {n \in Nat : \E l, r \in 0..to : l <= r /\ r - l = n /\ ~Right(l, r)}
  <1>1. \A l, r \in 0..to : g[<<l, r>>] = Turn(g, v, k, <<l, r>>)
    <2>1. \A l, r \in 0..to : <<l, r>> \in Ranges(to)
      BY DEF Ranges
    <2> QED  BY <2>1 DEF IsSearch
  <1> HIDE DEF Right
  <1>2. ASSUME NEW l \in 0..to, NEW r \in 0..to, l <= r,
               \A i, j \in 0..to : i <= j /\ j - i < r - l => Right(i, j)
        PROVE  Right(l, r)
    <2>1. CASE l = r
      <3>1. g[<<l, r>>] = Turn(g, v, k, <<l, r>>)
        BY <1>1
      <3>2. Turn(g, v, k, <<l, r>>) = l
        BY <2>1 DEF Turn
      <3> QED  BY <2>1, <3>1, <3>2 DEF Right
    <2>2. CASE l < r
      <3> DEFINE m == (l + r) \div 2
      <3>1. m \in 0..to /\ m + 1 \in 0..to /\ m \in l..(r - 1)
        BY <2>2, Middle
      <3>2. g[<<l, r>>] = IF At(v, m) < k THEN g[<<m + 1, r>>] ELSE g[<<l, m>>]
        BY <1>1, <2>2 DEF Turn
      <3> HIDE DEF m
      <3>3. Right(m + 1, r) /\ Right(l, m)
        BY <1>2, <2>2, <3>1
      <3>4. CASE At(v, m) < k
        BY <3>1, <3>2, <3>3, <3>4 DEF Right
      <3>5. CASE ~(At(v, m) < k)
        BY <3>1, <3>2, <3>3, <3>5 DEF Right
      <3> QED  BY <3>4, <3>5
    <2> QED  BY <1>2, <2>1, <2>2
  <1>3. T = {}
    <2>1. SUFFICES ASSUME T # {} PROVE FALSE
      OBVIOUS
    <2>2. PICK n \in T : \A j \in T : n <= j
      BY <2>1, LeastNumber
    <2>3. PICK l \in 0..to, r \in 0..to : l <= r /\ r - l = n /\ ~Right(l, r)
      BY <2>2
    <2>4. ASSUME NEW i \in 0..to, NEW j \in 0..to, i <= j, j - i < r - l
          PROVE  Right(i, j)
      <3>1. j - i \in Nat /\ ~(n <= j - i)
        BY <2>3, <2>4
      <3> QED  BY <2>2, <2>4, <3>1
    <2> QED  BY <1>2, <2>3, <2>4
  <1>4. Right(from, to)
    <2>1. to - from \in Nat /\ to \in 0..to /\ from <= to
      OBVIOUS
    <2> QED  BY <1>3, <2>1
  <1> QED  BY <1>4 DEF Right

\* The same of the operator of the model.
LEMMA LowerBound ==
  ASSUME NEW to \in Nat, NEW from \in 0..to, NEW v, NEW k
  PROVE  LET i == lower_bound(v, k, from, to)
         IN  /\ i \in from..to
             /\ i > from => At(v, i - 1) < k
             /\ i < to => ~(At(v, i) < k)
  <1> DEFINE g == CHOOSE g : IsSearch(g, v, k, to)
  <1>1. lower_bound(v, k, from, to) = g[<<from, to>>]
    BY DEF lower_bound, IsSearch, Turn, Ranges
  <1>2. IsSearch(g, v, k, to)
    BY SearchExists
  <1> HIDE DEF g
  <1> QED  BY <1>1, <1>2, SearchFinds

-----------------------------------------------------------------------------
\* Entering an element into an array (the memmove and the assignment).

\* t is s with e behind its first p elements.
Enters(t, s, p, e) ==
  /\ Len(t) = Len(s) + 1
  /\ \A i \in 1..(Len(s) + 1) :
       t[i] = IF i <= p THEN s[i] ELSE IF i = p + 1 THEN e ELSE s[i - 1]

\* The array is one longer, and the elements from the place on move up.
LEMMA InsertProperties ==
  ASSUME NEW S, NEW s \in Seq(S), NEW p \in 0..Len(s), NEW e \in S
  PROVE  Insert(s, p, e) \in Seq(S) /\ Enters(Insert(s, p, e), s, p, e)
  <1> DEFINE a == SubSeq(s, 1, p)
             b == SubSeq(s, p + 1, Len(s))
             c == (a \o <<e>>) \o b
  <1>1. /\ a \in Seq(S) /\ Len(a) = p /\ \A i \in 1..p : a[i] = s[i]
    <2>1. \A i \in 1..p : s[i] \in S
      OBVIOUS
    <2>2. /\ SubSeq(s, 1, p) \in Seq(S)
          /\ Len(SubSeq(s, 1, p)) = IF 1 <= p THEN p - 1 + 1 ELSE 0
          /\ \A i \in 1..(p - 1 + 1) : SubSeq(s, 1, p)[i] = s[1 + i - 1]
      BY <2>1, SubSeqProperties
    <2> QED  BY <2>2
  <1>2. /\ b \in Seq(S) /\ Len(b) = Len(s) - p
        /\ \A i \in 1..(Len(s) - p) : b[i] = s[p + i]
    <2>1. \A i \in (p + 1)..Len(s) : s[i] \in S
      OBVIOUS
    <2>2. /\ SubSeq(s, p + 1, Len(s)) \in Seq(S)
          /\ Len(SubSeq(s, p + 1, Len(s))) = IF p + 1 <= Len(s) THEN Len(s) - (p + 1) + 1 ELSE 0
          /\ \A i \in 1..(Len(s) - (p + 1) + 1) : SubSeq(s, p + 1, Len(s))[i] = s[(p + 1) + i - 1]
      BY <2>1, SubSeqProperties
    <2> QED  BY <2>2
  <1>3. <<e>> \in Seq(S) /\ Len(<<e>>) = 1 /\ <<e>>[1] = e
    OBVIOUS
  <1> HIDE DEF a, b
  <1>4. /\ a \o <<e>> \in Seq(S) /\ Len(a \o <<e>>) = p + 1
        /\ \A i \in 1..(p + 1) : (a \o <<e>>)[i] = IF i <= p THEN s[i] ELSE e
    BY <1>1, <1>3, ConcatProperties
  <1>5. /\ c \in Seq(S) /\ Len(c) = Len(s) + 1
        /\ \A i \in 1..(Len(s) + 1) : c[i] =
             IF i <= p + 1 THEN (a \o <<e>>)[i] ELSE b[i - (p + 1)]
    <2>1. (p + 1) + (Len(s) - p) = Len(s) + 1
      OBVIOUS
    <2> HIDE DEF a, b
    <2> QED  BY <1>2, <1>4, <2>1, ConcatProperties
  <1>6. Insert(s, p, e) = c
    <2>1. (p + 1) - 1 = p
      OBVIOUS
    <2>2. Insert(s, p, e) = SubSeq(s, 1, (p + 1) - 1) \o <<e>> \o SubSeq(s, p + 1, Len(s))
      BY DEF Insert, InsertAt
    <2> QED  BY <2>1, <2>2 DEF a, b
  <1> HIDE DEF c
  <1>7. ASSUME NEW i \in 1..(Len(s) + 1)
        PROVE  c[i] =
                 IF i <= p THEN s[i] ELSE IF i = p + 1 THEN e ELSE s[i - 1]
    <2>1. CASE i <= p + 1
      BY <1>4, <1>5, <2>1
    <2>2. CASE i > p + 1
      <3>1. i - (p + 1) \in 1..(Len(s) - p) /\ p + (i - (p + 1)) = i - 1
        BY <2>2
      <3>2. c[i] = b[i - (p + 1)]
        BY <1>5, <2>2
      <3>3. b[i - (p + 1)] = s[i - 1]
        BY <1>2, <3>1
      <3> QED  BY <2>2, <3>2, <3>3
    <2> QED  BY <2>1, <2>2
  <1> QED  BY <1>5, <1>6, <1>7 DEF Enters

-----------------------------------------------------------------------------
\* The arrays: keys, offsets, postings.

\* The arrays as the index keeps them, whoever reads what.
EndOf(o, p, i) == IF i = Len(o) THEN Len(p) ELSE o[i + 1]
Parallel(vs, o, p) ==
  /\ vs \in Seq(Keys) /\ o \in Seq(0..Len(p)) /\ p \in Seq(Positions)
  /\ Len(o) = Len(vs)
Ordered(vs, o) ==
  \A i, j \in 1..Len(vs) : i < j => vs[i] < vs[j] /\ o[i] <= o[j]
Anchored(vs, o, p) ==
  IF vs = <<>> THEN p = <<>> ELSE o[1] = 0
Shape(vs, o, p) == Parallel(vs, o, p) /\ Ordered(vs, o) /\ Anchored(vs, o, p)

\* b lies in the group of key a.
Filed(vs, o, p, a, b) ==
  \E i \in 1..Len(vs) : a = vs[i] /\ \E j \in (o[i] + 1)..EndOf(o, p, i) : b = p[j]
HasGroup(o, p, i) == o[i] < EndOf(o, p, i)

\* A group ends behind its start and within the postings.
LEMMA GroupBounds ==
  ASSUME NEW vs, NEW o, NEW p, Shape(vs, o, p), NEW i \in 1..Len(vs)
  PROVE  /\ o[i] \in 0..Len(p) /\ EndOf(o, p, i) \in 0..Len(p)
         /\ o[i] <= EndOf(o, p, i)
         /\ Len(vs) \in Nat /\ Len(o) = Len(vs) /\ Len(p) \in Nat
  <1>1. /\ Len(p) \in Nat /\ Len(vs) \in Nat /\ Len(o) = Len(vs)
        /\ \A j \in 1..Len(vs) : o[j] \in 0..Len(p)
    BY DEF Shape, Parallel
  <1>2. CASE i = Len(vs)
    BY <1>1, <1>2 DEF EndOf
  <1>3. CASE i # Len(vs)
    <2>1. i + 1 \in 1..Len(vs) /\ i < i + 1
      BY <1>1, <1>3
    <2>2. o[i] <= o[i + 1]
      BY <2>1 DEF Shape, Ordered
    <2> QED  BY <1>1, <1>3, <2>1, <2>2 DEF EndOf
  <1> QED  BY <1>1, <1>2, <1>3

\* A new key enters with an empty group where the next one starts.
LEMMA KeyEnters ==
  ASSUME NEW vs, NEW o, NEW p, Shape(vs, o, p), NEW pos \in 0..Len(vs), NEW k \in Keys,
         \A i \in 1..Len(vs) : (i <= pos => vs[i] < k) /\ (i > pos => k < vs[i])
  PROVE  LET vs2 == Insert(vs, pos, k)
             o2 == Insert(o, pos, Read(o, pos, Len(p)))
         IN  /\ Shape(vs2, o2, p)
             /\ pos + 1 \in 1..Len(vs2) /\ vs2[pos + 1] = k /\ vs2 # <<>>
             /\ Len(vs2) = Len(vs) + 1
             /\ \A i \in 1..Len(vs) : \E j \in 1..Len(vs2) : vs2[j] = vs[i]
             /\ \A a, b : Filed(vs2, o2, p, a, b) <=> Filed(vs, o, p, a, b)
             /\ (\A i \in 1..Len(vs) : HasGroup(o, p, i)) =>
                  \A i \in 1..Len(vs2) : i # pos + 1 => HasGroup(o2, p, i)
  <1> DEFINE start == Read(o, pos, Len(p))
             vs2 == Insert(vs, pos, k)
             o2 == Insert(o, pos, start)
             N == Len(vs)
  <1>0. /\ N \in Nat /\ Len(o) = N /\ Len(p) \in Nat /\ vs \in Seq(Keys) /\ o \in Seq(0..Len(p))
        /\ Len(vs) = N /\ pos \in 0..N /\ k \in Int
    BY GroupKeyAssumption DEF Shape, Parallel
  <1>a. \A i \in 1..N : o[i] \in 0..Len(p)
    BY <1>0
  <1>b. \A i \in 1..N : vs[i] \in Int
    <2>1. \A i \in 1..N : vs[i] \in Keys
      BY <1>0
    <2> QED  BY <2>1, GroupKeyAssumption
  <1>c. vs = <<>> <=> N = 0
    BY <1>0
  <1>d. \A i \in 1..N : (i <= pos => vs[i] < k) /\ (i > pos => k < vs[i])
    OBVIOUS
  <1>1. /\ N \in Nat /\ Len(o) = N /\ Len(p) \in Nat /\ vs \in Seq(Keys) /\ o \in Seq(0..Len(p))
        /\ \A i \in 1..N : o[i] \in 0..Len(p)
        /\ \A i \in 1..N : vs[i] \in Int
        /\ k \in Int
        /\ Len(vs) = N /\ pos \in 0..N
        /\ \A i \in 1..N : (i <= pos => vs[i] < k) /\ (i > pos => k < vs[i])
        /\ vs = <<>> <=> N = 0
    BY <1>0, <1>a, <1>b, <1>c, <1>d
  <1> HIDE DEF N
  <1>2. start \in 0..Len(p) /\ start = (IF pos = N THEN Len(p) ELSE o[pos + 1])
    BY <1>1 DEF Read, At
  <1> HIDE DEF start
  <1>3. /\ vs2 \in Seq(Keys) /\ Len(vs2) = N + 1
        /\ \A i \in 1..(N + 1) :
             vs2[i] = IF i <= pos THEN vs[i] ELSE IF i = pos + 1 THEN k ELSE vs[i - 1]
    <2>1. vs \in Seq(Keys) /\ pos \in 0..Len(vs) /\ k \in Keys
      BY <1>0
    <2>2. vs2 \in Seq(Keys) /\ Enters(vs2, vs, pos, k)
      BY <2>1, InsertProperties
    <2> HIDE DEF vs2
    <2> QED  BY <1>0, <2>2 DEF Enters
  <1>4. /\ o2 \in Seq(0..Len(p)) /\ Len(o2) = N + 1
        /\ \A i \in 1..(N + 1) :
             o2[i] = IF i <= pos THEN o[i] ELSE IF i = pos + 1 THEN start ELSE o[i - 1]
    <2> DEFINE S == 0..Len(p)
    <2>1. o \in Seq(S) /\ pos \in 0..Len(o) /\ start \in S
      BY <1>0, <1>2
    <2> HIDE DEF S
    <2>2. o2 \in Seq(S) /\ Enters(o2, o, pos, start)
      BY <2>1, InsertProperties
    <2> HIDE DEF o2
    <2> QED  BY <1>0, <2>2 DEF S, Enters
  <1> HIDE DEF vs2, o2
  <1> DEFINE Old(i) == IF i <= pos THEN i ELSE i - 1
  <1>5. ASSUME NEW i \in 1..(N + 1), i # pos + 1
        PROVE  Old(i) \in 1..N /\ vs2[i] = vs[Old(i)] /\ o2[i] = o[Old(i)]
    <2>1. CASE i <= pos
      <3>1. Old(i) = i /\ i \in 1..N
        BY <1>1, <2>1
      <3>2. vs2[i] = vs[i] /\ o2[i] = o[i]
        BY <1>3, <1>4, <2>1
      <3> QED  BY <3>1, <3>2
    <2>2. CASE ~(i <= pos)
      <3>1. Old(i) = i - 1 /\ i - 1 \in 1..N
        BY <1>1, <1>5, <2>2
      <3>2. vs2[i] = vs[i - 1] /\ o2[i] = o[i - 1]
        BY <1>3, <1>4, <1>5, <2>2
      <3> QED  BY <3>1, <3>2
    <2> QED  BY <2>1, <2>2
  <1>6. Ordered(vs2, o2)
    <2> SUFFICES ASSUME NEW i \in 1..(N + 1), NEW j \in 1..(N + 1), i < j
                 PROVE  vs2[i] < vs2[j] /\ o2[i] <= o2[j]
      BY <1>3 DEF Ordered
    <2>0. \A x, y \in 1..N : x < y => vs[x] < vs[y] /\ o[x] <= o[y]
      BY <1>1 DEF Shape, Ordered
    <2>1. CASE i # pos + 1 /\ j # pos + 1
      <3>1. Old(i) < Old(j)
        BY <2>1
      <3> QED  BY <1>5, <2>0, <2>1, <3>1
    <2>2. CASE i = pos + 1
      <3>1. j - 1 \in 1..N /\ j > pos + 1 /\ j - 1 > pos
        BY <1>1, <2>2
      <3>2. vs2[j] = vs[j - 1] /\ o2[j] = o[j - 1] /\ vs2[i] = k /\ o2[i] = start
        BY <1>3, <1>4, <2>2, <3>1
      <3>3. start <= o[j - 1]
        <4>1. pos # N /\ pos + 1 \in 1..N /\ start = o[pos + 1]
          BY <1>1, <1>2, <3>1
        <4>2. CASE pos + 1 = j - 1
          <5>1. start = o[j - 1]
            BY <4>1, <4>2
          <5>2. start \in Int
            BY <1>2
          <5> QED  BY <5>1, <5>2
        <4>3. CASE pos + 1 < j - 1
          BY <2>0, <3>1, <4>1, <4>3
        <4> QED  BY <1>1, <3>1, <4>2, <4>3
      <3> QED  BY <1>1, <3>1, <3>2, <3>3
    <2>3. CASE j = pos + 1
      <3>1. i \in 1..N /\ i <= pos
        BY <1>1, <2>3
      <3>2. vs2[i] = vs[i] /\ o2[i] = o[i] /\ vs2[j] = k /\ o2[j] = start
        BY <1>3, <1>4, <2>3, <3>1
      <3>3. o[i] <= start
        <4>1. CASE pos = N
          BY <1>1, <1>2, <3>1, <4>1
        <4>2. CASE pos # N
          BY <1>1, <1>2, <2>0, <3>1, <4>2
        <4> QED  BY <4>1, <4>2
      <3> QED  BY <1>1, <3>1, <3>2, <3>3
    <2> QED  BY <2>1, <2>2, <2>3
  <1>7. Anchored(vs2, o2, p) /\ vs2 # <<>>
    <2>1. vs2 # <<>>
      BY <1>1, <1>3
    <2>2. CASE pos = 0
      <3>1. o2[1] = start
        BY <1>1, <1>4, <2>2
      <3>2. CASE vs = <<>>
        BY <1>1, <1>2, <2>1, <2>2, <3>1, <3>2 DEF Shape, Anchored
      <3>3. CASE vs # <<>>
        BY <1>1, <1>2, <2>1, <2>2, <3>1, <3>3 DEF Shape, Anchored
      <3> QED  BY <3>2, <3>3
    <2>3. CASE pos # 0
      <3>1. o2[1] = o[1] /\ vs # <<>>
        BY <1>1, <1>4, <2>3
      <3> QED  BY <2>1, <3>1 DEF Shape, Anchored
    <2> QED  BY <2>1, <2>2, <2>3
  <1>8. Shape(vs2, o2, p)
    BY <1>3, <1>4, <1>6, <1>7 DEF Shape, Parallel
  <1>9. ASSUME NEW i \in 1..(N + 1), i # pos + 1
        PROVE  EndOf(o2, p, i) = EndOf(o, p, Old(i))
    <2>0. Len(o) = N /\ Len(o2) = N + 1
      BY <1>1, <1>4
    <2>1. CASE i > pos + 1
      <3>1. CASE i = N + 1
        BY <2>0, <2>1, <3>1 DEF EndOf
      <3>2. CASE i # N + 1
        <4>1. /\ i + 1 \in 1..(N + 1) /\ ~(i + 1 <= pos) /\ i + 1 # pos + 1
              /\ (i + 1) - 1 = (i - 1) + 1 /\ i - 1 # N /\ ~(i <= pos)
          BY <1>1, <2>1, <3>2
        <4>2. o2[i + 1] = o[(i - 1) + 1]
          BY <1>4, <4>1
        <4> QED  BY <2>0, <3>2, <4>1, <4>2 DEF EndOf
      <3> QED  BY <3>1, <3>2
    <2>2. CASE i < pos
      <3>1. i + 1 \in 1..(N + 1) /\ i + 1 <= pos /\ i <= pos /\ i # N /\ i # N + 1
        BY <1>1, <2>2
      <3>2. o2[i + 1] = o[i + 1]
        BY <1>4, <3>1
      <3> QED  BY <2>0, <3>1, <3>2 DEF EndOf
    <2>3. CASE i = pos
      <3>1. i + 1 \in 1..(N + 1) /\ o2[i + 1] = start /\ i # N + 1 /\ i <= pos
        BY <1>1, <1>4, <2>3
      <3> QED  BY <1>2, <2>0, <2>3, <3>1 DEF EndOf
    <2> QED  BY <1>9, <2>1, <2>2, <2>3
  <1>10. EndOf(o2, p, pos + 1) = start /\ o2[pos + 1] = start
    <2>1. o2[pos + 1] = start
      BY <1>1, <1>4
    <2>2. CASE pos = N
      BY <1>1, <1>2, <1>4, <2>1, <2>2 DEF EndOf
    <2>3. CASE pos # N
      <3>1. /\ pos + 2 \in 1..(N + 1) /\ ~(pos + 2 <= pos) /\ pos + 2 # pos + 1
            /\ (pos + 2) - 1 = pos + 1 /\ (pos + 1) + 1 = pos + 2 /\ pos + 1 # N + 1
        BY <1>1, <2>3
      <3>2. o2[(pos + 1) + 1] = o[pos + 1]
        BY <1>4, <3>1
      <3> QED  BY <1>2, <1>4, <2>1, <2>3, <3>1, <3>2 DEF EndOf
    <2> QED  BY <2>1, <2>2, <2>3
  <1> DEFINE New(i) == IF i <= pos THEN i ELSE i + 1
  <1>11. ASSUME NEW i \in 1..N
         PROVE  New(i) \in 1..(N + 1) /\ New(i) # pos + 1 /\ Old(New(i)) = i
    BY <1>1
  <1> HIDE DEF New, Old
  <1>12. ASSUME NEW a, NEW b PROVE Filed(vs2, o2, p, a, b) <=> Filed(vs, o, p, a, b)
    <2>1. ASSUME Filed(vs2, o2, p, a, b) PROVE Filed(vs, o, p, a, b)
      <3>1. PICK i \in 1..(N + 1) : a = vs2[i] /\ \E j \in (o2[i] + 1)..EndOf(o2, p, i) : b = p[j]
        BY <1>3, <2>1 DEF Filed
      <3>2. i # pos + 1
        <4>1. ASSUME i = pos + 1 PROVE FALSE
          <5>1. PICK j \in (start + 1)..start : TRUE
            BY <1>10, <3>1, <4>1
          <5> QED  BY <1>2, <5>1
        <4> QED  BY <4>1
      <3> QED  BY <1>1, <1>5, <1>9, <3>1, <3>2 DEF Filed
    <2>2. ASSUME Filed(vs, o, p, a, b) PROVE Filed(vs2, o2, p, a, b)
      <3>1. PICK i \in 1..N : a = vs[i] /\ \E j \in (o[i] + 1)..EndOf(o, p, i) : b = p[j]
        BY <1>1, <2>2 DEF Filed
      <3>2. vs2[New(i)] = vs[i] /\ o2[New(i)] = o[i] /\ EndOf(o2, p, New(i)) = EndOf(o, p, i)
            /\ New(i) \in 1..Len(vs2)
        BY <1>3, <1>5, <1>9, <1>11
      <3> QED  BY <3>1, <3>2 DEF Filed
    <2> QED  BY <2>1, <2>2
  <1>13. ASSUME \A i \in 1..N : HasGroup(o, p, i), NEW i \in 1..(N + 1), i # pos + 1
         PROVE  HasGroup(o2, p, i)
    BY <1>5, <1>9, <1>13 DEF HasGroup
  <1>14. \A i \in 1..N : \E j \in 1..Len(vs2) : vs2[j] = vs[i]
    BY <1>3, <1>5, <1>11
  <1>15. pos + 1 \in 1..Len(vs2) /\ vs2[pos + 1] = k /\ Len(vs2) = N + 1
    BY <1>1, <1>3
  <1> QED  BY <1>3, <1>7, <1>8, <1>12, <1>13, <1>14, <1>15 DEF vs2, o2, start, N

\* The offsets behind the q-th key make room for one more posting.
MovedUp(o, q) == [i \in DOMAIN o |-> o[i] + IF i > q THEN 1 ELSE 0]

\* Groups follow each other.
LEMMA GroupsFollow ==
  ASSUME NEW vs, NEW o, NEW p, Shape(vs, o, p),
         NEW i \in 1..Len(vs), NEW j \in 1..Len(vs), i < j
  PROVE  EndOf(o, p, i) <= o[j]
  <1>1. /\ Len(p) \in Nat /\ Len(vs) \in Nat /\ Len(o) = Len(vs)
        /\ \A n \in 1..Len(vs) : o[n] \in 0..Len(p)
    BY DEF Shape, Parallel
  <1>2. EndOf(o, p, i) = o[i + 1] /\ i + 1 \in 1..Len(vs)
    BY <1>1 DEF EndOf
  <1>3. CASE i + 1 = j
    BY <1>1, <1>2, <1>3
  <1>4. CASE i + 1 < j
    BY <1>1, <1>2, <1>4 DEF Shape, Ordered
  <1> QED  BY <1>1, <1>3, <1>4

\* What the offsets and the ends of the groups become when a position enters.
LEMMA GroupsMove ==
  ASSUME NEW vs, NEW o, NEW p, Shape(vs, o, p), NEW q \in 1..(Len(vs) + 1),
         NEW place \in 0..Len(p), NEW v \in Positions, NEW i \in 1..Len(vs)
  PROVE  LET p2 == Insert(p, place, v)
             o2 == MovedUp(o, q)
         IN  /\ p2 \in Seq(Positions) /\ Len(p2) = Len(p) + 1
             /\ Len(o2) = Len(vs) /\ DOMAIN o2 = 1..Len(vs)
             /\ o2 \in Seq(0..Len(p2))
             /\ o2[i] = o[i] + (IF i > q THEN 1 ELSE 0)
             /\ EndOf(o2, p2, i) =
                  EndOf(o, p, i) + (IF i >= q \/ i = Len(vs) THEN 1 ELSE 0)
  <1> DEFINE p2 == Insert(p, place, v)
             o2 == MovedUp(o, q)
             N == Len(vs)
  <1>1. /\ N \in Nat /\ Len(o) = N /\ Len(p) \in Nat /\ p \in Seq(Positions)
        /\ o \in Seq(0..Len(p)) /\ q \in 1..(N + 1) /\ i \in 1..N
    BY DEF Shape, Parallel
  <1>2. \A n \in 1..N : o[n] \in 0..Len(p)
    BY <1>1
  <1>3. p2 \in Seq(Positions) /\ Len(p2) = Len(p) + 1
    <2>1. p2 \in Seq(Positions) /\ Enters(p2, p, place, v)
      BY <1>1, InsertProperties
    <2> QED  BY <2>1 DEF Enters
  <1> HIDE DEF p2, N
  <1>4. /\ DOMAIN o2 = 1..N
        /\ \A n \in 1..N : o2[n] = o[n] + (IF n > q THEN 1 ELSE 0)
    BY <1>1 DEF MovedUp
  <1>5. \A n \in 1..N : o2[n] \in 0..Len(p2)
    <2> SUFFICES ASSUME NEW n \in 1..N PROVE o2[n] \in 0..Len(p2)
      OBVIOUS
    <2>1. o2[n] = o[n] + (IF n > q THEN 1 ELSE 0) /\ o[n] \in 0..Len(p)
      BY <1>2, <1>4
    <2>2. o2[n] \in 0..(Len(p) + 1)
      <3> HIDE DEF o2
      <3> QED  BY <1>1, <2>1
    <2> QED  BY <1>3, <2>2
  <1>6. o2 = [n \in 1..N |-> o2[n]]
    <2>1. o2 = [n \in 1..N |-> o[n] + (IF n > q THEN 1 ELSE 0)]
      BY <1>1 DEF MovedUp
    <2> QED  BY <2>1
  <1> HIDE DEF o2
  <1>7. o2 \in Seq(0..Len(p2)) /\ Len(o2) = N
    <2> DEFINE S == 0..Len(p2)
    <2>1. o2 \in [1..N -> S]
      BY <1>5, <1>6
    <2> HIDE DEF S
    <2>2. o2 \in Seq(S) /\ Len(o2) = N
      BY <1>1, <2>1
    <2> QED  BY <2>2 DEF S
  <1>8. EndOf(o2, p2, i) = EndOf(o, p, i) + (IF i >= q \/ i = N THEN 1 ELSE 0)
    <2>1. CASE i = N
      BY <1>1, <1>3, <1>7, <2>1 DEF EndOf
    <2>2. CASE i # N
      <3>1. i + 1 \in 1..N /\ (i + 1 > q <=> i >= q)
        BY <1>1, <2>2
      <3>2. o2[i + 1] = o[i + 1] + (IF i >= q THEN 1 ELSE 0)
        BY <1>4, <3>1
      <3> QED  BY <1>1, <1>7, <2>2, <3>2 DEF EndOf
    <2> QED  BY <2>1, <2>2
  <1> QED  BY <1>1, <1>3, <1>4, <1>7, <1>8 DEF N, p2, o2

\* A position entered anywhere in the postings leaves the arrays in shape, and
\* no group becomes smaller.
LEMMA PositionEnters ==
  ASSUME NEW vs, NEW o, NEW p, Shape(vs, o, p), vs # <<>>, NEW q \in 1..(Len(vs) + 1),
         NEW place \in 0..Len(p), NEW v \in Positions
  PROVE  LET p2 == Insert(p, place, v)
             o2 == MovedUp(o, q)
         IN  /\ Shape(vs, o2, p2)
             /\ (\A i \in 1..Len(vs) : i # q => HasGroup(o, p, i)) =>
                  \A i \in 1..Len(vs) : HasGroup(o2, p2, i)
  <1> DEFINE p2 == Insert(p, place, v)
             o2 == MovedUp(o, q)
             N == Len(vs)
  <1>1. /\ N \in Nat /\ Len(p) \in Nat /\ q \in 1..(N + 1) /\ 1 \in 1..N
        /\ \A i \in 1..N : o[i] \in 0..Len(p)
    BY DEF Shape, Parallel
  <1>2. /\ p2 \in Seq(Positions) /\ Len(p2) = Len(p) + 1
        /\ Len(o2) = N
        /\ o2 \in Seq(0..Len(p2))
        /\ \A i \in 1..N : o2[i] = o[i] + (IF i > q THEN 1 ELSE 0)
        /\ \A i \in 1..N : EndOf(o2, p2, i) =
             EndOf(o, p, i) + (IF i >= q \/ i = N THEN 1 ELSE 0)
    BY <1>1, GroupsMove
  <1>3. \A i \in 1..N : EndOf(o, p, i) \in 0..Len(p) /\ o[i] <= EndOf(o, p, i)
    BY GroupBounds
  <1> HIDE DEF o2, p2
  <1>4. Ordered(vs, o2)
    <2> SUFFICES ASSUME NEW i \in 1..N, NEW j \in 1..N, i < j
                 PROVE  vs[i] < vs[j] /\ o2[i] <= o2[j]
      BY DEF Ordered
    <2>1. vs[i] < vs[j] /\ o[i] <= o[j]
      BY DEF Shape, Ordered
    <2>2. /\ o2[i] = o[i] + (IF i > q THEN 1 ELSE 0)
          /\ o2[j] = o[j] + (IF j > q THEN 1 ELSE 0)
          /\ o[i] \in Nat /\ o[j] \in Nat
      BY <1>1, <1>2
    <2> QED  BY <1>1, <2>1, <2>2
  <1>5. Anchored(vs, o2, p2)
    <2>1. o2[1] = o[1] + (IF 1 > q THEN 1 ELSE 0) /\ o[1] \in Nat /\ ~(1 > q)
      BY <1>1, <1>2
    <2>2. o2[1] = o[1]
      BY <2>1
    <2> QED  BY <2>2 DEF Shape, Anchored
  <1>6. Shape(vs, o2, p2)
    BY <1>2, <1>4, <1>5 DEF Shape, Parallel
  <1>7. ASSUME \A i \in 1..N : i # q => HasGroup(o, p, i), NEW i \in 1..N
        PROVE  HasGroup(o2, p2, i)
    <2>1. i # q => o[i] < EndOf(o, p, i)
      BY <1>7 DEF HasGroup
    <2> HIDE DEF N
    <2>2. o2[i] < EndOf(o2, p2, i)
      <3> DEFINE e == EndOf(o, p, i)
                 e2 == EndOf(o2, p2, i)
      <3>1. /\ o2[i] = o[i] + (IF i > q THEN 1 ELSE 0)
            /\ e2 = e + (IF i >= q \/ i = N THEN 1 ELSE 0)
            /\ e \in 0..Len(p) /\ o[i] <= e /\ o[i] \in 0..Len(p)
            /\ i # q => o[i] < e
        BY <1>1, <1>2, <1>3, <2>1
      <3> HIDE DEF e, e2
      <3>2. o2[i] < e2
        BY <1>1, <3>1
      <3> QED  BY <3>2 DEF e2
    <2> QED  BY <2>2 DEF HasGroup
  <1> QED  BY <1>6, <1>7 DEF o2, p2

\* A position that enters the group of the q-th key is filed under that key,
\* and every other stays where it was filed.
LEMMA PositionFiled ==
  ASSUME NEW vs, NEW o, NEW p, Shape(vs, o, p), NEW q \in 1..Len(vs),
         NEW place \in o[q]..EndOf(o, p, q), NEW v \in Positions, NEW a, NEW b
  PROVE  Filed(vs, MovedUp(o, q), Insert(p, place, v), a, b) <=>
           Filed(vs, o, p, a, b) \/ (a = vs[q] /\ b = v)
  <1> DEFINE p2 == Insert(p, place, v)
             o2 == MovedUp(o, q)
             N == Len(vs)
  <1>1. /\ N \in Nat /\ Len(p) \in Nat /\ q \in 1..(N + 1)
        /\ \A i \in 1..N : o[i] \in 0..Len(p)
        /\ p \in Seq(Positions)
    BY DEF Shape, Parallel
  <1>2. \A i \in 1..N : EndOf(o, p, i) \in 0..Len(p) /\ o[i] <= EndOf(o, p, i)
    BY GroupBounds
  <1>3. place \in 0..Len(p)
    BY <1>1, <1>2
  <1>4. /\ \A i \in 1..N : o2[i] = o[i] + (IF i > q THEN 1 ELSE 0)
        /\ \A i \in 1..N : EndOf(o2, p2, i) =
             EndOf(o, p, i) + (IF i >= q \/ i = N THEN 1 ELSE 0)
    BY <1>1, <1>3, GroupsMove
  <1>5. \A j \in 1..(Len(p) + 1) :
          p2[j] = IF j <= place THEN p[j] ELSE IF j = place + 1 THEN v ELSE p[j - 1]
    <2>1. Enters(p2, p, place, v)
      BY <1>1, <1>3, InsertProperties
    <2> QED  BY <2>1 DEF Enters
  <1> HIDE DEF o2, p2, N
  <1>6. ASSUME NEW i \in 1..N
        PROVE  /\ i < q => EndOf(o, p, i) <= o[q]
               /\ i > q => EndOf(o, p, q) <= o[i]
    BY GroupsFollow DEF N
  <1>7. place \in Nat /\ o[q] \in Nat /\ EndOf(o, p, q) \in Nat /\ q \in 1..N
        /\ o[q] <= place /\ place <= EndOf(o, p, q)
    BY <1>1, <1>2, <1>3 DEF N
  \* The old and the new bounds of a group.
  <1>8. ASSUME NEW i \in 1..N
        PROVE  LET s == o[i]
                   s2 == o2[i]
                   e == EndOf(o, p, i)
                   e2 == EndOf(o2, p2, i)
               IN  /\ s \in 0..Len(p) /\ e \in 0..Len(p) /\ s <= e
                   /\ i < q => s2 = s /\ e2 = e /\ e <= place
                   /\ i = q => s2 = s /\ e2 = e + 1 /\ s <= place /\ place <= e
                   /\ i > q => s2 = s + 1 /\ e2 = e + 1 /\ place <= s
    <2> DEFINE s == o[i]
               s2 == o2[i]
               e == EndOf(o, p, i)
               e2 == EndOf(o2, p2, i)
               sq == o[q]
               eq == EndOf(o, p, q)
    <2>1. /\ s \in 0..Len(p) /\ e \in 0..Len(p) /\ s <= e
          /\ s2 = s + (IF i > q THEN 1 ELSE 0)
          /\ e2 = e + (IF i >= q \/ i = N THEN 1 ELSE 0)
          /\ sq \in Nat /\ eq \in Nat /\ sq <= place /\ place <= eq
          /\ i < q => e <= sq
          /\ i > q => eq <= s
          /\ i = q => sq = s /\ eq = e
          /\ i \in 1..N /\ q \in 1..N /\ Len(p) \in Nat /\ N \in Nat /\ place \in Nat
      BY <1>1, <1>2, <1>4, <1>6, <1>7
    <2> HIDE DEF s, s2, e, e2, sq, eq
    <2>2. /\ i < q => s2 = s /\ e2 = e /\ e <= place
          /\ i = q => s2 = s /\ e2 = e + 1 /\ s <= place /\ place <= e
          /\ i > q => s2 = s + 1 /\ e2 = e + 1 /\ place <= s
      BY <2>1
    <2> QED  BY <2>1, <2>2 DEF s, s2, e, e2
  <1>9. ASSUME Filed(vs, o2, p2, a, b)
        PROVE  Filed(vs, o, p, a, b) \/ (a = vs[q] /\ b = v)
    <2>1. PICK i \in 1..N : a = vs[i] /\ \E j \in (o2[i] + 1)..EndOf(o2, p2, i) : b = p2[j]
      BY <1>9 DEF Filed, N
    <2>2. PICK j \in (o2[i] + 1)..EndOf(o2, p2, i) : b = p2[j]
      BY <2>1
    <2> DEFINE s == o[i]
               s2 == o2[i]
               e == EndOf(o, p, i)
               e2 == EndOf(o2, p2, i)
    <2>3. /\ s \in 0..Len(p) /\ e \in 0..Len(p) /\ s <= e
          /\ i < q => s2 = s /\ e2 = e /\ e <= place
          /\ i = q => s2 = s /\ e2 = e + 1 /\ s <= place /\ place <= e
          /\ i > q => s2 = s + 1 /\ e2 = e + 1 /\ place <= s
          /\ j \in (s2 + 1)..e2
      BY <1>8, <2>2
    <2>4. a = vs[i] /\ b = p2[j] /\ ((\E n \in (s + 1)..e : b = p[n]) => Filed(vs, o, p, a, b))
      BY <2>1, <2>2 DEF Filed, N
    <2> HIDE DEF s, s2, e, e2
    <2>5. j \in 1..(Len(p) + 1) /\ j \in Nat
      BY <1>1, <1>7, <2>3
    <2>6. CASE j <= place
      <3>1. j \in (s + 1)..e
        BY <1>1, <1>7, <2>3, <2>5, <2>6
      <3>2. p2[j] = p[j]
        BY <1>5, <2>5, <2>6
      <3> QED  BY <2>4, <3>1, <3>2
    <2>7. CASE j = place + 1
      <3>1. i = q
        BY <1>1, <1>7, <2>3, <2>5, <2>7
      <3>2. p2[j] = v
        BY <1>5, <1>7, <2>5, <2>7
      <3> QED  BY <2>4, <3>1, <3>2
    <2>8. CASE j > place + 1
      <3>1. j - 1 \in (s + 1)..e /\ ~(j <= place) /\ j # place + 1
        BY <1>1, <1>7, <2>3, <2>5, <2>8
      <3>2. p2[j] = p[j - 1]
        BY <1>5, <2>5, <3>1
      <3> QED  BY <2>4, <3>1, <3>2
    <2> QED  BY <1>7, <2>5, <2>6, <2>7, <2>8
  <1>10. ASSUME Filed(vs, o, p, a, b)
         PROVE  Filed(vs, o2, p2, a, b)
    <2>1. PICK i \in 1..N : a = vs[i] /\ \E j \in (o[i] + 1)..EndOf(o, p, i) : b = p[j]
      BY <1>10 DEF Filed, N
    <2>2. PICK j \in (o[i] + 1)..EndOf(o, p, i) : b = p[j]
      BY <2>1
    <2> DEFINE s == o[i]
               s2 == o2[i]
               e == EndOf(o, p, i)
               e2 == EndOf(o2, p2, i)
    <2>3. /\ s \in 0..Len(p) /\ e \in 0..Len(p) /\ s <= e
          /\ i < q => s2 = s /\ e2 = e /\ e <= place
          /\ i = q => s2 = s /\ e2 = e + 1 /\ s <= place /\ place <= e
          /\ i > q => s2 = s + 1 /\ e2 = e + 1 /\ place <= s
          /\ j \in (s + 1)..e
      BY <1>8, <2>2
    <2>4. a = vs[i] /\ b = p[j] /\ ((\E n \in (s2 + 1)..e2 : b = p2[n]) => Filed(vs, o2, p2, a, b))
      BY <2>1, <2>2 DEF Filed, N
    <2> HIDE DEF s, s2, e, e2
    <2>5. j \in 1..Len(p) /\ j \in Nat
      BY <1>1, <1>7, <2>3
    <2>6. CASE j <= place
      <3>1. j \in (s2 + 1)..e2
        BY <1>1, <1>7, <2>3, <2>5, <2>6
      <3>2. p2[j] = p[j]
        BY <1>1, <1>5, <2>5, <2>6
      <3> QED  BY <2>4, <3>1, <3>2
    <2>7. CASE j > place
      <3>1. j + 1 \in (s2 + 1)..e2 /\ ~(j + 1 <= place) /\ j + 1 # place + 1
            /\ j + 1 \in 1..(Len(p) + 1) /\ (j + 1) - 1 = j
        BY <1>1, <1>7, <2>3, <2>5, <2>7
      <3>2. p2[j + 1] = p[j]
        BY <1>5, <3>1
      <3> QED  BY <2>4, <3>1, <3>2
    <2> QED  BY <1>7, <2>5, <2>6, <2>7
  <1>11. ASSUME a = vs[q], b = v
         PROVE  Filed(vs, o2, p2, a, b)
    <2>1. place + 1 \in 1..(Len(p) + 1) /\ ~(place + 1 <= place)
      BY <1>1, <1>3
    <2>2. p2[place + 1] = v
      BY <1>5, <2>1
    <2>3. place + 1 \in (o2[q] + 1)..EndOf(o2, p2, q)
      BY <1>7, <1>8
    <2> QED  BY <1>7, <1>11, <2>2, <2>3 DEF Filed, N
  <1> QED  BY <1>9, <1>10, <1>11 DEF o2, p2

-----------------------------------------------------------------------------
\* The steps.

\* The inductive invariant.  It holds whatever the unwritten slots hold: a put
\* that such a slot leads astray enters its position in the group of another
\* key, and no group becomes empty by that.
ArraysInv ==
  /\ Shape(values, offsets, postings)
  /\ reply \in {0, 2, Crash}
  /\ InUse => \A i \in 1..Len(values) : HasGroup(offsets, postings, i)

\* The keys and offsets once the key of a put has its place.
Unique(k, junk) ==
  IF IsNew(k, junk) THEN value_insert(k) ELSE [values |-> values, offsets |-> offsets]

\* In sorted keys the search finds the place of a key.
LEMMA BinarySearch ==
  ASSUME Shape(values, offsets, postings), NEW k \in Keys
  PROVE  /\ binary_search(k) \in 0..Len(values)
         /\ \A i \in 1..Len(values) :
              (i <= binary_search(k) => values[i] < k) /\ (i > binary_search(k) => k <= values[i])
  <1> DEFINE pos == binary_search(k)
             N == Len(values)
  <1>1. /\ N \in Nat /\ k \in Int
        /\ \A i \in 1..N : values[i] \in Keys
    BY GroupKeyAssumption DEF Shape, Parallel
  <1>2. \A i \in 1..N : values[i] \in Int
    BY <1>1, GroupKeyAssumption
  <1>3. \A i, j \in 1..N : i < j => values[i] < values[j]
    BY DEF Shape, Ordered
  <1>4. /\ pos \in 0..N
        /\ pos > 0 => At(values, pos - 1) < k
        /\ pos < N => ~(At(values, pos) < k)
    <2>1. 0 \in 0..N
      BY <1>1
    <2> QED  BY <1>1, <2>1, LowerBound DEF binary_search
  <1> HIDE DEF pos, N
  <1>5. pos > 0 => values[pos] < k
    <2>1. At(values, pos - 1) = values[(pos - 1) + 1]
      BY DEF At
    <2>2. (pos - 1) + 1 = pos
      BY <1>1, <1>4
    <2> QED  BY <1>4, <2>1, <2>2
  <1>6. pos < N => ~(values[pos + 1] < k)
    BY <1>4 DEF At
  <1>7. ASSUME NEW i \in 1..N, i <= pos PROVE values[i] < k
    <2>1. pos \in 1..N
      BY <1>1, <1>4, <1>7
    <2>2. CASE i = pos
      BY <1>5, <2>1, <2>2
    <2>3. CASE i < pos
      <3>1. values[i] < values[pos] /\ values[pos] < k
        BY <1>3, <1>5, <2>1, <2>3
      <3> QED  BY <1>1, <1>2, <2>1, <3>1
    <2> QED  BY <1>1, <1>7, <2>1, <2>2, <2>3
  <1>8. ASSUME NEW i \in 1..N, i > pos PROVE k <= values[i]
    <2>1. pos + 1 \in 1..N /\ pos < N
      BY <1>1, <1>4, <1>8
    <2>2. k <= values[pos + 1]
      BY <1>1, <1>2, <1>6, <2>1
    <2>3. CASE i = pos + 1
      BY <2>2, <2>3
    <2>4. CASE i > pos + 1
      <3>1. values[pos + 1] < values[i]
        BY <1>3, <2>1, <2>4
      <3> QED  BY <1>1, <1>2, <2>1, <2>2, <3>1
    <2> QED  BY <1>1, <1>4, <1>8, <2>3, <2>4
  <1> QED  BY <1>4, <1>7, <1>8 DEF pos, N

\* The place of a key in the keys once it has entered: the search has found
\* it, or the unwritten slot behind the last key reads as the key.
LEMMA KeyPlaced ==
  ASSUME Shape(values, offsets, postings), NEW k \in Keys, NEW junk
  PROVE  LET u == Unique(k, junk)
             q == binary_search(k) + 1
         IN  /\ Shape(u.values, u.offsets, postings)
             /\ u.values # <<>>
             /\ q \in 1..(Len(u.values) + 1)
             /\ q <= Len(u.values) => u.values[q] = k
             /\ q > Len(u.values) => junk = k /\ q = Len(values) + 1 /\ values # <<>>
             /\ \A i \in 1..Len(values) : \E j \in 1..Len(u.values) : u.values[j] = values[i]
             /\ \A a, b : Filed(u.values, u.offsets, postings, a, b) <=>
                            Filed(values, offsets, postings, a, b)
             /\ (\A i \in 1..Len(values) : HasGroup(offsets, postings, i)) =>
                  \A i \in 1..Len(u.values) : i # q => HasGroup(u.offsets, postings, i)
  <1> DEFINE pos == binary_search(k)
             u == Unique(k, junk)
  <1>1. /\ pos \in 0..Len(values) /\ Len(values) \in Nat
        /\ \A i \in 1..Len(values) : (i <= pos => values[i] < k) /\ (i > pos => k <= values[i])
    BY BinarySearch DEF Shape, Parallel
  <1>2. CASE IsNew(k, junk)
    <2>1. u.values = Insert(values, pos, k)
          /\ u.offsets = Insert(offsets, pos, Read(offsets, pos, Len(postings)))
      BY <1>2 DEF Unique, value_insert
    <2>2. \A i \in 1..Len(values) : (i <= pos => values[i] < k) /\ (i > pos => k < values[i])
      <3> SUFFICES ASSUME NEW i \in 1..Len(values), i > pos, ~(k < values[i])
                   PROVE  FALSE
        BY <1>1
      <3>1. k \in Int /\ \A n \in 1..Len(values) : values[n] \in Int
        <4>1. \A n \in 1..Len(values) : values[n] \in Keys
          BY DEF Shape, Parallel
        <4> QED  BY <4>1, GroupKeyAssumption
      <3>2. k = values[i]
        BY <1>1, <3>1
      <3>3. pos + 1 \in 1..Len(values) /\ pos < Len(values) /\ values # <<>>
        BY <1>1
      <3>4. values[pos + 1] # k
        BY <1>2, <3>3 DEF IsNew, Read, At
      <3>5. i > pos + 1
        BY <1>1, <3>2, <3>4
      <3>6. values[pos + 1] < values[i]
        BY <3>3, <3>5 DEF Shape, Ordered
      <3>7. k <= values[pos + 1]
        BY <1>1, <3>3
      <3> QED  BY <3>1, <3>2, <3>3, <3>6, <3>7
    <2> HIDE DEF u, pos
    <2>3. LET vs2 == Insert(values, pos, k)
              o2 == Insert(offsets, pos, Read(offsets, pos, Len(postings)))
          IN  /\ Shape(vs2, o2, postings)
              /\ pos + 1 \in 1..Len(vs2) /\ vs2[pos + 1] = k /\ vs2 # <<>>
              /\ Len(vs2) = Len(values) + 1
              /\ \A i \in 1..Len(values) : \E j \in 1..Len(vs2) : vs2[j] = values[i]
              /\ \A a, b : Filed(vs2, o2, postings, a, b) <=> Filed(values, offsets, postings, a, b)
              /\ (\A i \in 1..Len(values) : HasGroup(offsets, postings, i)) =>
                   \A i \in 1..Len(vs2) : i # pos + 1 => HasGroup(o2, postings, i)
      BY <1>1, <2>2, KeyEnters
    <2>4. /\ Shape(u.values, u.offsets, postings)
          /\ pos + 1 \in 1..Len(u.values) /\ u.values[pos + 1] = k /\ u.values # <<>>
          /\ Len(u.values) = Len(values) + 1
          /\ \A i \in 1..Len(values) : \E j \in 1..Len(u.values) : u.values[j] = values[i]
          /\ \A a, b : Filed(u.values, u.offsets, postings, a, b) <=>
                         Filed(values, offsets, postings, a, b)
          /\ (\A i \in 1..Len(values) : HasGroup(offsets, postings, i)) =>
               \A i \in 1..Len(u.values) : i # pos + 1 => HasGroup(u.offsets, postings, i)
      BY <2>1, <2>3
    <2>5. pos + 1 \in 1..(Len(u.values) + 1) /\ ~(pos + 1 > Len(u.values))
      BY <1>1, <2>4
    <2> QED  BY <2>4, <2>5 DEF u, pos
  <1>3. CASE ~IsNew(k, junk)
    <2>1. u.values = values /\ u.offsets = offsets
      BY <1>3 DEF Unique
    <2>2. values # <<>> /\ Read(values, pos, junk) = k
      BY <1>3 DEF IsNew
    <2>3. pos + 1 <= Len(values) => values[pos + 1] = k
      BY <1>1, <2>2 DEF Read, At
    <2>4. pos + 1 > Len(values) => junk = k /\ pos + 1 = Len(values) + 1
      BY <1>1, <2>2 DEF Read
    <2>5. pos + 1 \in 1..(Len(values) + 1)
      BY <1>1
    <2>6. \A i \in 1..Len(values) : \E j \in 1..Len(values) : values[j] = values[i]
      OBVIOUS
    <2> HIDE DEF pos, u
    <2> QED  BY <2>1, <2>2, <2>3, <2>4, <2>5, <2>6 DEF u, pos
  <1> QED  BY <1>2, <1>3

\* Where a position is entered among the postings: in the group of its key,
\* unless the key has only been found in the unwritten slot.
LEMMA PlaceFound ==
  ASSUME NEW vs, NEW o, Shape(vs, o, postings), NEW pos \in 0..Len(vs),
         NEW end \in JunkOffsets, NEW v,
         NEW place \in Places(v, Read(o, pos, end),
                              IF pos < Len(vs) THEN Read(o, pos + 1, end) ELSE Len(postings))
  PROVE  /\ place \in Nat
         /\ pos < Len(vs) /\ place <= Len(postings) =>
              place \in o[pos + 1]..EndOf(o, postings, pos + 1)
         /\ pos < Len(vs) /\ (JunkOffsets = {0}) => place <= Len(postings)
  <1> DEFINE l == Read(o, pos, end)
             r == IF pos < Len(vs) THEN Read(o, pos + 1, end) ELSE Len(postings)
             P == Len(postings)
             N == Len(vs)
  <1>1. /\ N \in Nat /\ P \in Nat /\ Len(o) = N /\ end \in Nat /\ pos \in 0..N
        /\ \A i \in 1..N : o[i] \in 0..P
    BY GroupKeyAssumption DEF Shape, Parallel
  <1>2. l = IF pos < N THEN o[pos + 1] ELSE end
    BY <1>1 DEF Read, At
  <1>3. r = IF pos < N THEN (IF pos + 1 < N THEN o[(pos + 1) + 1] ELSE end) ELSE P
    BY <1>1 DEF Read, At
  <1>4. l \in Nat /\ r \in Nat
    <2>1. pos < N => pos + 1 \in 1..N
      BY <1>1
    <2>2. pos + 1 < N => (pos + 1) + 1 \in 1..N
      BY <1>1
    <2> QED  BY <1>1, <1>2, <1>3, <2>1, <2>2
  <1>5. place \in Places(v, l, r)
    OBVIOUS
  <1> HIDE DEF l, r
  <1>6. place \in Nat /\ place >= l /\ (place > l => place <= r)
    <2>1. CASE l >= r
      BY <1>4, <1>5, <2>1 DEF Places
    <2>2. CASE l < r /\ r <= Len(postings)
      <3>1. place = lower_bound(postings, v, l, r)
        <4>1. ~(l >= r)
          BY <1>4, <2>2
        <4>2. Places(v, l, r) = {lower_bound(postings, v, l, r)}
          BY <1>1, <1>4, <2>2, <4>1 DEF Places
        <4> QED  BY <1>5, <4>2
      <3>2. place \in l..r
        <4>1. l \in 0..r
          BY <1>4, <2>2
        <4>2. r \in Nat /\ \A y \in Nat : \A x \in 0..y : lower_bound(postings, v, x, y) \in x..y
          BY <1>4, LowerBound
        <4> QED  BY <3>1, <4>1, <4>2
      <3> QED  BY <1>4, <3>2
    <2>3. CASE l < r /\ r > Len(postings)
      <3>1. place \in l..r
        <4>1. ~(l >= r) /\ ~(r <= Len(postings))
          BY <1>1, <1>4, <2>3
        <4> QED  BY <1>5, <2>3, <4>1 DEF Places
      <3> QED  BY <1>4, <3>1
    <2> QED  BY <1>1, <1>4, <2>1, <2>2, <2>3
  <1>7. CASE pos < N
    <2>1. pos + 1 \in 1..N /\ l = o[pos + 1] /\ l \in 0..P
      BY <1>1, <1>2, <1>7
    <2>2. CASE pos + 1 = N
      <3>1. EndOf(o, postings, pos + 1) = P /\ r = end
        BY <1>1, <1>3, <1>7, <2>2 DEF EndOf
      <3>2. JunkOffsets = {0} => end = 0
        OBVIOUS
      <3>3. place \in l..P \/ place > P
        BY <1>1, <1>4, <1>6
      <3>4. end = 0 => place <= P
        BY <1>1, <1>4, <1>6, <2>1, <3>1
      <3> QED  BY <1>1, <1>6, <2>1, <3>1, <3>2, <3>3, <3>4
    <2>3. CASE pos + 1 < N
      <3>1. EndOf(o, postings, pos + 1) = r /\ r = o[(pos + 1) + 1] /\ (pos + 1) + 1 \in 1..N
        BY <1>1, <1>3, <1>7, <2>3 DEF EndOf
      <3>2. o[pos + 1] <= EndOf(o, postings, pos + 1)
        BY <2>1, GroupBounds
      <3>3. r \in 0..P /\ l <= r
        BY <1>1, <2>1, <3>1, <3>2
      <3> QED  BY <1>1, <1>4, <1>6, <2>1, <3>1, <3>3
    <2> QED  BY <1>1, <1>7, <2>2, <2>3
  <1>8. CASE ~(pos < N)
    BY <1>6, <1>8
  <1> QED  BY <1>7, <1>8

\* A posting that enters does not make any rarer.
LEMMA TimesGrow ==
  ASSUME NEW s \in Seq(Positions), NEW place \in 0..Len(s), NEW e \in Positions, NEW v
  PROVE  LET t == Insert(s, place, e)
         IN  Cardinality({i \in DOMAIN s : s[i] = v}) <= Cardinality({i \in DOMAIN t : t[i] = v})
  <1> DEFINE t == Insert(s, place, e)
             S == {i \in DOMAIN s : s[i] = v}
             T == {i \in DOMAIN t : t[i] = v}
             f == [i \in S |-> IF i <= place THEN i ELSE i + 1]
  <1>1. /\ t \in Seq(Positions) /\ Len(t) = Len(s) + 1 /\ Len(s) \in Nat /\ DOMAIN s = 1..Len(s)
        /\ \A i \in 1..(Len(s) + 1) :
             t[i] = IF i <= place THEN s[i] ELSE IF i = place + 1 THEN e ELSE s[i - 1]
    <2>1. Len(s) \in Nat /\ DOMAIN s = 1..Len(s)
      OBVIOUS
    <2>2. t \in Seq(Positions) /\ Enters(t, s, place, e)
      BY InsertProperties
    <2> HIDE DEF t
    <2> QED  BY <2>1, <2>2 DEF Enters
  <1> HIDE DEF t
  <1>2. DOMAIN t = 1..(Len(s) + 1)
    BY <1>1
  <1>3. S \subseteq 1..Len(s) /\ T \subseteq 1..(Len(s) + 1)
    BY <1>1, <1>2
  <1>4. ASSUME NEW i \in S PROVE f[i] \in T
    <2>1. i \in 1..Len(s) /\ s[i] = v
      BY <1>1
    <2>2. CASE i <= place
      <3>1. f[i] = i /\ i \in 1..(Len(s) + 1) /\ t[i] = s[i]
        BY <1>1, <2>1, <2>2
      <3> QED  BY <1>2, <2>1, <3>1
    <2>3. CASE ~(i <= place)
      <3>1. /\ f[i] = i + 1 /\ i + 1 \in 1..(Len(s) + 1) /\ ~(i + 1 <= place)
            /\ i + 1 # place + 1 /\ (i + 1) - 1 = i
        BY <1>1, <2>1, <2>3
      <3>2. t[i + 1] = s[i]
        BY <1>1, <3>1
      <3> QED  BY <1>2, <2>1, <3>1, <3>2
    <2> QED  BY <2>2, <2>3
  <1>5. f \in [S -> T]
    BY <1>4
  <1>6. \A a, b \in S : f[a] = f[b] => a = b
    BY <1>3
  <1>7. IsFiniteSet(T)
    <2>1. IsFiniteSet(1..(Len(s) + 1))
      BY <1>1, FS_Interval
    <2> QED  BY <1>3, <2>1, FS_Subset
  <1> HIDE DEF f, S, T
  <1>8. f \in Injection(S, T)
    BY <1>5, <1>6, Fun_IsInj
  <1>9. Cardinality(S) <= Cardinality(T)
    BY <1>7, <1>8, FS_Injection
  <1> QED  BY <1>9 DEF S, T, t

\* What a put does to the arrays, once its key has its place.
LEMMA PutEffect ==
  ASSUME ArraysInv, NEW k \in Keys, NEW v \in Positions, NEW junk, NEW end \in JunkOffsets,
         Put(k, v, junk, end)
  PROVE  LET u == Unique(k, junk)
             q == binary_search(k) + 1
         IN  \/ /\ reply' = Crash
                /\ UNCHANGED <<values, offsets, postings>>
                /\ JunkOffsets = {0} => q > Len(u.values)
             \/ /\ reply' = 0
                /\ values' = u.values
                /\ offsets' = MovedUp(u.offsets, q)
                /\ \E place \in 0..Len(postings) :
                     /\ postings' = Insert(postings, place, v)
                     /\ q <= Len(u.values) =>
                          place \in u.offsets[q]..EndOf(u.offsets, postings, q)
  <1> DEFINE u == Unique(k, junk)
             pos == binary_search(k)
             l == Read(u.offsets, pos, end)
             r == IF pos < Len(u.values) THEN Read(u.offsets, pos + 1, end)
                  ELSE Len(postings)
  <1>1. PICK place \in Places(v, l, r) :
          posting_insert(u, v, pos, place) \/ posting_insert_crashes(place)
    BY DEF Put, Unique
  <1>2. /\ Shape(u.values, u.offsets, postings)
        /\ pos + 1 \in 1..(Len(u.values) + 1)
    BY KeyPlaced DEF ArraysInv
  <1>3. Len(u.values) \in Nat /\ Len(postings) \in Nat
    BY <1>2 DEF Shape, Parallel
  <1>4. pos \in 0..Len(u.values)
    <2>1. pos \in Int
      BY BinarySearch DEF ArraysInv
    <2> HIDE DEF pos, u
    <2> QED  BY <1>2, <1>3, <2>1
  <1> HIDE DEF u, pos
  <1>5. /\ place \in Nat
        /\ pos < Len(u.values) /\ place <= Len(postings) =>
             place \in u.offsets[pos + 1]..EndOf(u.offsets, postings, pos + 1)
        /\ pos < Len(u.values) /\ (JunkOffsets = {0}) => place <= Len(postings)
    BY <1>1, <1>2, <1>4, PlaceFound
  <1>6. CASE posting_insert(u, v, pos, place)
    <2>1. /\ reply' = 0
          /\ values' = u.values
          /\ offsets' = MovedUp(u.offsets, pos + 1)
          /\ postings' = Insert(postings, place, v)
          /\ place <= Len(postings)
      BY <1>6 DEF posting_insert, MovedUp
    <2>2. place \in 0..Len(postings)
      BY <1>3, <1>5, <2>1
    <2>3. pos + 1 <= Len(u.values) => pos < Len(u.values)
      BY <1>3, <1>4
    <2> QED  BY <1>5, <2>1, <2>2, <2>3 DEF u, pos
  <1>7. CASE posting_insert_crashes(place)
    <2>1. /\ reply' = Crash
          /\ UNCHANGED <<values, offsets, postings>>
          /\ place > Len(postings)
      BY <1>7 DEF posting_insert_crashes
    <2>2. JunkOffsets = {0} => pos + 1 > Len(u.values)
      <3>1. ~(place <= Len(postings))
        BY <1>3, <1>5, <2>1
      <3> QED  BY <1>3, <1>4, <1>5, <3>1
    <2> QED  BY <2>1, <2>2 DEF u, pos
  <1> QED  BY <1>1, <1>6, <1>7

\* The empty index is in shape.
LEMMA InvInit == Init => ArraysInv
  <1> SUFFICES ASSUME Init PROVE ArraysInv
    OBVIOUS
  <1>1. values = <<>> /\ offsets = <<>> /\ postings = <<>> /\ reply = 0
    BY DEF Init
  <1>2. Shape(values, offsets, postings)
    BY <1>1 DEF Shape, Parallel, Ordered, Anchored
  <1> QED  BY <1>1, <1>2 DEF ArraysInv

\* What every step does: the arrays stay in shape, keys and postings are kept.
LEMMA InvNext ==
  ASSUME ArraysInv, [Next]_vars
  PROVE  /\ ArraysInv'
         /\ ToSet(values) \subseteq ToSet(values')
         /\ \A v \in Positions : Times(v) <= Times(v)'
  <1>0. \A v : Times(v) \in Nat
    <2> TAKE v
    <2>1. DOMAIN postings = 1..Len(postings) /\ Len(postings) \in Nat
      BY DEF ArraysInv, Shape, Parallel
    <2>2. IsFiniteSet({i \in DOMAIN postings : postings[i] = v})
      <3>1. IsFiniteSet(1..Len(postings))
        BY <2>1, FS_Interval
      <3> QED  BY <2>1, <3>1, FS_Subset
    <2> QED  BY <2>2, FS_CardinalityType DEF Times
  <1>1. ASSUME UNCHANGED <<values, offsets, postings>>, reply' \in {0, 2, Crash},
               reply' = 0 => reply = 0
        PROVE  /\ ArraysInv'
               /\ ToSet(values) \subseteq ToSet(values')
               /\ \A v \in Positions : Times(v) <= Times(v)'
    <2>1. ArraysInv'
      BY <1>1 DEF ArraysInv, InUse
    <2>2. ToSet(values) \subseteq ToSet(values')
      BY <1>1
    <2>3. \A v \in Positions : Times(v) <= Times(v)'
      <3> TAKE v \in Positions
      <3>1. Times(v)' = Times(v)
        BY <1>1 DEF Times
      <3> QED  BY <1>0, <3>1
    <2> QED  BY <2>1, <2>2, <2>3
  \* Keys are kept by whatever gives a key its place.
  <1>2. ASSUME NEW k \in Keys, NEW junk \in JunkValues, values' = Unique(k, junk).values
        PROVE  ToSet(values) \subseteq ToSet(values')
    <2> DEFINE u == Unique(k, junk)
    <2>1. /\ Shape(u.values, u.offsets, postings)
          /\ \A i \in 1..Len(values) : \E j \in 1..Len(u.values) : u.values[j] = values[i]
      BY KeyPlaced DEF ArraysInv
    <2>2. DOMAIN values = 1..Len(values) /\ DOMAIN u.values = 1..Len(u.values)
      BY <2>1 DEF ArraysInv, Shape, Parallel
    <2> HIDE DEF u
    <2> QED  BY <1>2, <2>1, <2>2 DEF ToSet, u
  <1>3. ASSUME NEW k \in Keys, NEW v \in Positions, NEW junk \in JunkValues,
               NEW end \in JunkOffsets, Put(k, v, junk, end)
        PROVE  /\ ArraysInv'
               /\ ToSet(values) \subseteq ToSet(values')
               /\ \A w \in Positions : Times(w) <= Times(w)'
    <2> DEFINE u == Unique(k, junk)
               q == binary_search(k) + 1
    <2>1. CASE reply' = Crash /\ UNCHANGED <<values, offsets, postings>>
      BY <1>1, <2>1 DEF Crash
    <2>2. CASE /\ reply' = 0
               /\ values' = u.values
               /\ offsets' = MovedUp(u.offsets, q)
               /\ \E place \in 0..Len(postings) : postings' = Insert(postings, place, v)
      <3>1. PICK place \in 0..Len(postings) : postings' = Insert(postings, place, v)
        BY <2>2
      <3>2. /\ Shape(u.values, u.offsets, postings)
            /\ u.values # <<>>
            /\ q \in 1..(Len(u.values) + 1)
            /\ (\A i \in 1..Len(values) : HasGroup(offsets, postings, i)) =>
                 \A i \in 1..Len(u.values) : i # q => HasGroup(u.offsets, postings, i)
        BY KeyPlaced DEF ArraysInv
      <3>3. \A i \in 1..Len(values) : HasGroup(offsets, postings, i)
        BY <1>3 DEF ArraysInv, Put
      <3> HIDE DEF u, q
      <3>4. /\ Shape(u.values, MovedUp(u.offsets, q), Insert(postings, place, v))
            /\ \A i \in 1..Len(u.values) :
                 HasGroup(MovedUp(u.offsets, q), Insert(postings, place, v), i)
        BY <3>2, <3>3, PositionEnters
      <3>5. ArraysInv'
        BY <2>2, <3>1, <3>4 DEF ArraysInv, InUse
      <3>6. ToSet(values) \subseteq ToSet(values')
        BY <1>2, <2>2 DEF u
      <3>7. ASSUME NEW w \in Positions PROVE Times(w) <= Times(w)'
        <4>1. postings \in Seq(Positions)
          BY DEF ArraysInv, Shape, Parallel
        <4>2. LET t == Insert(postings, place, v)
              IN  Cardinality({i \in DOMAIN postings : postings[i] = w})
                    <= Cardinality({i \in DOMAIN t : t[i] = w})
          BY <4>1, TimesGrow
        <4> QED  BY <3>1, <4>2 DEF Times
      <3> QED  BY <3>5, <3>6, <3>7
    <2>3. \/ /\ reply' = Crash
             /\ UNCHANGED <<values, offsets, postings>>
          \/ /\ reply' = 0
             /\ values' = u.values
             /\ offsets' = MovedUp(u.offsets, q)
             /\ \E place \in 0..Len(postings) : postings' = Insert(postings, place, v)
      BY <1>3, PutEffect
    <2> QED  BY <2>1, <2>2, <2>3
  <1>4. ASSUME NEW k \in Keys, NEW junk \in JunkValues, ValueFails(k, junk)
        PROVE  /\ ArraysInv'
               /\ ToSet(values) \subseteq ToSet(values')
               /\ \A v \in Positions : Times(v) <= Times(v)'
    BY <1>1, <1>4 DEF ValueFails
  <1>5. ASSUME NEW k \in Keys, NEW junk \in JunkValues, PostingFails(k, junk)
        PROVE  /\ ArraysInv'
               /\ ToSet(values) \subseteq ToSet(values')
               /\ \A v \in Positions : Times(v) <= Times(v)'
    <2> DEFINE u == Unique(k, junk)
    <2>1. /\ values' = u.values /\ offsets' = u.offsets /\ postings' = postings /\ reply' = 2
      BY <1>5 DEF PostingFails, Unique
    <2>2. Shape(u.values, u.offsets, postings)
      BY KeyPlaced DEF ArraysInv
    <2> HIDE DEF u
    <2>3. ArraysInv'
      BY <2>1, <2>2 DEF ArraysInv, InUse
    <2>4. ToSet(values) \subseteq ToSet(values')
      BY <1>2, <2>1 DEF u
    <2>5. \A v \in Positions : Times(v) <= Times(v)'
      <3> TAKE v \in Positions
      <3>1. Times(v)' = Times(v)
        BY <2>1 DEF Times
      <3> QED  BY <1>0, <3>1
    <2> QED  BY <2>3, <2>4, <2>5
  <1>6. CASE UNCHANGED vars
    BY <1>1, <1>6 DEF vars, ArraysInv
  <1> QED  BY <1>3, <1>4, <1>5, <1>6 DEF Next

\* The inductive invariant implies what the runs check.
LEMMA InvImplies == ArraysInv => TypeOK /\ KeysSorted /\ GroupsPartition
  <1> SUFFICES ASSUME ArraysInv PROVE TypeOK /\ KeysSorted /\ GroupsPartition
    OBVIOUS
  <1>1. TypeOK
    BY DEF ArraysInv, Shape, Parallel, TypeOK
  <1>2. Len(values) \in Nat /\ DOMAIN values = 1..Len(values) /\ Len(offsets) = Len(values)
    BY DEF ArraysInv, Shape, Parallel
  <1>3. KeysSorted
    <2> SUFFICES ASSUME NEW i \in 1..(Len(values) - 1) PROVE values[i] < values[i + 1]
      BY DEF KeysSorted
    <2>1. i \in 1..Len(values) /\ i + 1 \in 1..Len(values) /\ i < i + 1
      BY <1>2
    <2> QED  BY <2>1 DEF ArraysInv, Shape, Ordered
  <1>4. postings # <<>> => offsets[1] = 0
    BY DEF ArraysInv, Shape, Anchored
  <1>5. \A i \in 1..Len(values) :
          GroupEnd(i) = EndOf(offsets, postings, i) /\ offsets[i] <= EndOf(offsets, postings, i)
    BY <1>2, GroupBounds DEF GroupEnd, EndOf, ArraysInv
  <1>6. InUse => \A i \in 1..Len(values) : offsets[i] < EndOf(offsets, postings, i)
    BY DEF ArraysInv, HasGroup
  <1> QED  BY <1>1, <1>2, <1>3, <1>4, <1>5, <1>6 DEF GroupsPartition

\* The arrays of the index (groupkey.cpp:59-72, 114-199) stay in shape.
THEOREM ArraysCorrect == Spec => []ArraysInv
  <1>1. ArraysInv /\ [Next]_vars => ArraysInv'
    BY InvNext
  <1> QED  BY InvInit, <1>1, PTL DEF Spec

\* Keys and offsets stay parallel and offsets point into the postings.
THEOREM TypeCorrect == Spec => []TypeOK
  BY ArraysCorrect, InvImplies, PTL

\* The groups part the postings in the order of the keys, without a gap, and as
\* long as no put has failed no key is without a position: whatever
\* posting_insert (groupkey.cpp:143-183) reads behind the arrays.
THEOREM GroupsArePartition == Spec => []GroupsPartition
  BY ArraysCorrect, InvImplies, PTL

\* The keys that value_insert (groupkey.cpp:114-141) enters stay distinct and
\* sorted, whatever the slot behind the last one holds.
THEOREM KeysAreSorted == Spec => []KeysSorted
  BY ArraysCorrect, InvImplies, PTL

\* No put loses a key or a position, also one that fails or that has read an
\* unwritten slot.
THEOREM NothingIsLost == Spec => NothingLost
  <1>1. ArraysInv /\ [Next]_vars =>
          [/\ ToSet(values) \subseteq ToSet(values')
           /\ \A v \in Positions : Times(v) <= Times(v)']_vars
    BY InvNext
  <1> QED  BY ArraysCorrect, <1>1, PTL DEF Spec, NothingLost

-----------------------------------------------------------------------------
\* What get answers, and the abstract index.

\* No key is smaller than an unwritten value, as when the memory is cleared and
\* the keys are the row values, which are natural numbers.
KeysAboveJunk == \A j \in JunkValues, k \in Keys : j <= k
\* The unwritten offsets are zero, as in memory that has never been used.
OffsetsCleared == JunkOffsets = {0}

\* Of a key that is greater than all others the unwritten slot says the truth.
LEMMA NoFalseMatch ==
  ASSUME Shape(values, offsets, postings), KeysAboveJunk, NEW k \in Keys,
         values # <<>>, binary_search(k) = Len(values)
  PROVE  k \notin JunkValues
  <1>1. Len(values) \in 1..Len(values) /\ values[Len(values)] \in Keys
    BY DEF Shape, Parallel
  <1>2. values[Len(values)] < k
    BY <1>1, BinarySearch
  <1>3. values[Len(values)] \in Int /\ k \in Int
    BY <1>1, GroupKeyAssumption
  <1> SUFFICES ASSUME k \in JunkValues PROVE FALSE
    OBVIOUS
  <1>4. k <= values[Len(values)]
    BY <1>1 DEF KeysAboveJunk
  <1> QED  BY <1>2, <1>3, <1>4

\* stored of GroupKey, as a function of the arrays.
StoredIn(vs, o, p) ==
  UNION {{<<vs[i], v>> : v \in {p[j] : j \in (o[i] + 1)..EndOf(o, p, i)}} : i \in 1..Len(vs)}

\* It holds the pairs that are filed.
LEMMA StoredFiled ==
  ASSUME NEW vs, NEW o, NEW p, Shape(vs, o, p)
  PROVE  /\ \A a, b : <<a, b>> \in StoredIn(vs, o, p) <=> Filed(vs, o, p, a, b)
         /\ \A ab \in StoredIn(vs, o, p) : ab = <<ab[1], ab[2]>>
         /\ StoredIn(vs, o, p) \subseteq Keys \X Positions
  <1>1. ASSUME NEW a, NEW b PROVE <<a, b>> \in StoredIn(vs, o, p) <=> Filed(vs, o, p, a, b)
    <2>1. ASSUME <<a, b>> \in StoredIn(vs, o, p) PROVE Filed(vs, o, p, a, b)
      <3>1. PICK i \in 1..Len(vs) :
              <<a, b>> \in {<<vs[i], v>> : v \in {p[j] : j \in (o[i] + 1)..EndOf(o, p, i)}}
        BY <2>1 DEF StoredIn
      <3>2. PICK v \in {p[j] : j \in (o[i] + 1)..EndOf(o, p, i)} : <<a, b>> = <<vs[i], v>>
        BY <3>1
      <3>3. a = vs[i] /\ b = v
        BY <3>2
      <3> QED  BY <3>2, <3>3 DEF Filed
    <2>2. ASSUME Filed(vs, o, p, a, b) PROVE <<a, b>> \in StoredIn(vs, o, p)
      BY <2>2 DEF Filed, StoredIn
    <2> QED  BY <2>1, <2>2
  <1>2. ASSUME NEW ab \in StoredIn(vs, o, p)
        PROVE  ab \in Keys \X Positions
    <2>1. PICK i \in 1..Len(vs) :
            ab \in {<<vs[i], v>> : v \in {p[j] : j \in (o[i] + 1)..EndOf(o, p, i)}}
      BY DEF StoredIn
    <2>2. PICK j \in (o[i] + 1)..EndOf(o, p, i) : ab = <<vs[i], p[j]>>
      BY <2>1
    <2>3. vs[i] \in Keys
      BY DEF Shape, Parallel
    <2>4. j \in 1..Len(p)
      <3>1. /\ o[i] \in 0..Len(p) /\ EndOf(o, p, i) \in 0..Len(p) /\ Len(p) \in Nat
        BY GroupBounds
      <3> QED  BY <3>1
    <2>5. p[j] \in Positions
      BY <2>4 DEF Shape, Parallel
    <2> QED  BY <2>2, <2>3, <2>5
  <1>3. \A ab \in StoredIn(vs, o, p) : ab = <<ab[1], ab[2]>>
    BY <1>2
  <1>4. StoredIn(vs, o, p) \subseteq Keys \X Positions
    BY <1>2
  <1>5. \A a, b : <<a, b>> \in StoredIn(vs, o, p) <=> Filed(vs, o, p, a, b)
    BY <1>1
  <1> QED  BY <1>3, <1>4, <1>5

\* It is what the index stores.
LEMMA StoredHere ==
  ASSUME Len(values) \in Nat, DOMAIN values = 1..Len(values), Len(offsets) = Len(values)
  PROVE  stored = StoredIn(values, offsets, postings)
  <1>1. \A i \in 1..Len(values) : GroupEnd(i) = EndOf(offsets, postings, i)
    BY DEF GroupEnd, EndOf
  <1> QED  BY <1>1 DEF stored, Group, StoredIn

\* The answers that the abstract index allows, by the groups.
LEMMA AnswersHere ==
  ASSUME ArraysInv, NEW k \in Keys
  PROVE  /\ (\E i \in 1..Len(values) : values[i] = k /\ HasGroup(offsets, postings, i)) <=>
              Map!Answers(k) # {-1}
         /\ \A i \in 1..Len(values) : values[i] = k /\ HasGroup(offsets, postings, i) =>
              postings[offsets[i] + 1] \in Map!Answers(k)
         /\ (~\E i \in 1..Len(values) : values[i] = k) => Map!Answers(k) = {-1}
  <1>0. Shape(values, offsets, postings)
    BY DEF ArraysInv
  <1>1. stored = StoredIn(values, offsets, postings)
    <2>1. Len(values) \in Nat /\ DOMAIN values = 1..Len(values) /\ Len(offsets) = Len(values)
      BY <1>0 DEF Shape, Parallel
    <2> QED  BY <2>1, StoredHere
  <1>2. \A b : <<k, b>> \in stored <=> Filed(values, offsets, postings, k, b)
    BY <1>0, <1>1, StoredFiled
  <1>3. stored \subseteq Keys \X Positions
    BY <1>0, <1>1, StoredFiled
  <1>4. Map!Answers(k) = IF Map!PositionsOf(k) = {} THEN {-1} ELSE Map!PositionsOf(k)
    BY DEF Map!Answers, Map!NotFound
  <1>5. \A b : b \in Map!PositionsOf(k) <=> Filed(values, offsets, postings, k, b)
    <2> TAKE b
    <2>1. b \in Map!PositionsOf(k) <=> b \in Positions /\ <<k, b>> \in stored
      BY DEF Map!PositionsOf
    <2> QED  BY <1>2, <1>3, <2>1
  <1>6. -1 \notin Map!PositionsOf(k)
    BY GroupKeyAssumption DEF Map!PositionsOf
  <1>7. ASSUME NEW i \in 1..Len(values), values[i] = k, HasGroup(offsets, postings, i)
        PROVE  postings[offsets[i] + 1] \in Map!PositionsOf(k)
    <2>1. offsets[i] + 1 \in (offsets[i] + 1)..EndOf(offsets, postings, i)
      <3>1. offsets[i] \in Nat /\ EndOf(offsets, postings, i) \in Nat
        BY <1>0, GroupBounds
      <3> QED  BY <1>7, <3>1 DEF HasGroup
    <2>2. Filed(values, offsets, postings, k, postings[offsets[i] + 1])
      BY <1>7, <2>1 DEF Filed
    <2> QED  BY <1>5, <2>2
  <1>8. ASSUME NEW b \in Map!PositionsOf(k)
        PROVE  \E i \in 1..Len(values) : values[i] = k /\ HasGroup(offsets, postings, i)
    <2>1. PICK i \in 1..Len(values) :
            /\ k = values[i]
            /\ \E j \in (offsets[i] + 1)..EndOf(offsets, postings, i) : b = postings[j]
      BY <1>5 DEF Filed
    <2>2. offsets[i] < EndOf(offsets, postings, i)
      <3>1. offsets[i] \in Nat /\ EndOf(offsets, postings, i) \in Nat
        BY <1>0, GroupBounds
      <3> QED  BY <2>1, <3>1
    <2> QED  BY <2>1, <2>2 DEF HasGroup
  <1>9. ASSUME Map!PositionsOf(k) = {}
        PROVE  Map!Answers(k) = {-1}
    BY <1>4, <1>9
  <1>10. ASSUME Map!PositionsOf(k) # {}
         PROVE  Map!Answers(k) = Map!PositionsOf(k) /\ Map!Answers(k) # {-1}
    BY <1>4, <1>6, <1>10
  <1>11. (\E i \in 1..Len(values) : values[i] = k /\ HasGroup(offsets, postings, i)) <=>
              Map!Answers(k) # {-1}
    BY <1>7, <1>8, <1>9, <1>10
  <1>12. \A i \in 1..Len(values) : values[i] = k /\ HasGroup(offsets, postings, i) =>
              postings[offsets[i] + 1] \in Map!Answers(k)
    BY <1>7, <1>10
  <1>13. (~\E i \in 1..Len(values) : values[i] = k) => Map!Answers(k) = {-1}
    BY <1>11
  <1> QED  BY <1>11, <1>12, <1>13

\* What groupkey_get answers as long as no put has failed.
LEMMA GetFinds ==
  ASSUME ArraysInv, KeysAboveJunk, InUse, values # <<>>, NEW k \in Keys
  PROVE  /\ get(k) \subseteq Map!Answers(k)
         /\ Map!Answers(k) = {-1} => get(k) = {-1}
  <1> DEFINE pos == binary_search(k)
             N == Len(values)
  <1>0. Shape(values, offsets, postings)
    BY DEF ArraysInv
  <1>1. /\ pos \in 0..N /\ N \in Nat /\ k \in Int
        /\ \A i \in 1..N : (i <= pos => values[i] < k) /\ (i > pos => k <= values[i])
    BY <1>0, BinarySearch, GroupKeyAssumption DEF Shape, Parallel
  <1>2. \A i \in 1..N : values[i] \in Int
    <2>1. \A i \in 1..N : values[i] \in Keys
      BY <1>0 DEF Shape, Parallel
    <2> QED  BY <2>1, GroupKeyAssumption
  <1>3. get(k) = CASE pos < N /\ At(values, pos) # k -> {-1}
                   [] pos < N /\ At(values, pos) = k -> {Posting(At(offsets, pos))}
                   [] pos = N ->
                        (IF \E junk \in JunkValues : junk # k THEN {-1} ELSE {})
                        \cup (IF k \in JunkValues THEN {Posting(end) : end \in JunkOffsets}
                              ELSE {})
    BY DEF get
  <1>4. N > 0
    BY <1>0 DEF Shape, Parallel
  <1>5. CASE pos < N /\ At(values, pos) # k
    <2> HIDE DEF pos, N
    <2>1. get(k) = {-1}
      BY <1>1, <1>3, <1>5
    <2>2. ASSUME NEW i \in 1..N, values[i] = k PROVE FALSE
      <3>1. pos + 1 \in 1..N /\ values[pos + 1] # k
        BY <1>1, <1>5 DEF At
      <3>2. i > pos + 1
        BY <1>1, <1>2, <2>2, <3>1
      <3>3. values[pos + 1] < values[i]
        BY <1>0, <3>1, <3>2 DEF Shape, Ordered, N
      <3>4. k <= values[pos + 1]
        BY <1>1, <3>1
      <3> QED  BY <1>1, <1>2, <2>2, <3>1, <3>3, <3>4
    <2>3. Map!Answers(k) = {-1}
      BY <2>2, AnswersHere DEF N
    <2> QED  BY <2>1, <2>3
  <1>6. CASE pos < N /\ At(values, pos) = k
    <2>1. pos + 1 \in 1..Len(values) /\ values[pos + 1] = k
      BY <1>1, <1>6 DEF At
    <2>2. HasGroup(offsets, postings, pos + 1)
      BY <2>1 DEF ArraysInv
    <2>3. Posting(At(offsets, pos)) = postings[offsets[pos + 1] + 1]
      <3>1. /\ offsets[pos + 1] \in 0..Len(postings) /\ Len(postings) \in Nat
            /\ EndOf(offsets, postings, pos + 1) \in 0..Len(postings)
        BY <1>0, <2>1, GroupBounds
      <3>2. offsets[pos + 1] < Len(postings)
        BY <2>2, <3>1 DEF HasGroup
      <3> QED  BY <3>2 DEF Posting, Read, At
    <2>4. postings[offsets[pos + 1] + 1] \in Map!Answers(k) /\ Map!Answers(k) # {-1}
      BY <2>1, <2>2, AnswersHere
    <2> HIDE DEF pos, N
    <2>5. get(k) = {Posting(At(offsets, pos))}
      BY <1>1, <1>3, <1>6
    <2> QED  BY <2>3, <2>4, <2>5
  <1>7. CASE pos = N
    <2>1. k \notin JunkValues
      BY <1>0, <1>7, NoFalseMatch
    <2>2. \E junk \in JunkValues : junk # k
      BY <2>1, GroupKeyAssumption
    <2> HIDE DEF pos, N
    <2>3. get(k) = {-1}
      <3>1. ~(pos < N)
        BY <1>1, <1>7
      <3> QED  BY <1>3, <1>7, <2>1, <2>2, <3>1
    <2>4. ASSUME NEW i \in 1..N, values[i] = k PROVE FALSE
      BY <1>1, <1>2, <1>7, <2>4
    <2>5. Map!Answers(k) = {-1}
      BY <2>4, AnswersHere DEF N
    <2> QED  BY <2>3, <2>5
  <1> QED  BY <1>1, <1>5, <1>6, <1>7

\* groupkey_get (groupkey.cpp:99-112) answers every key with a position that is
\* filed under it, or with -1 when there is none, provided that an unwritten
\* value is not taken for a key.
THEOREM GetAnswersRight ==
  ASSUME KeysAboveJunk
  PROVE  Spec => []GetAnswers
  <1>1. ArraysInv => GetAnswers
    BY GetFinds DEF GetAnswers
  <1> QED  BY ArraysCorrect, <1>1, PTL

\* Under the same proviso the -1 that groupkey.cpp:104 describes is the only
\* answer for a key without a position.
THEOREM AbsentKeysNotFound ==
  ASSUME KeysAboveJunk
  PROVE  Spec => []AbsentIsNotFound
  <1>1. ArraysInv => AbsentIsNotFound
    BY GetFinds DEF AbsentIsNotFound
  <1> QED  BY ArraysCorrect, <1>1, PTL

\* The empty index is the empty map.
LEMMA MapInit == Init => Map!Init
  <1> SUFFICES ASSUME Init PROVE Map!Init
    OBVIOUS
  <1>1. DOMAIN values = {} /\ reply = 0
    BY DEF Init
  <1>2. stored = {}
    BY <1>1 DEF stored
  <1> QED  BY <1>1, <1>2 DEF Map!Init, Map!Success

\* Every step of the index is a step of the map.
LEMMA MapNext ==
  ASSUME ArraysInv, ArraysInv', [Next]_vars, KeysAboveJunk, OffsetsCleared
  PROVE  [Map!Next]_Map!vars
  <1>0. Shape(values, offsets, postings) /\ Shape(values', offsets', postings')
    BY DEF ArraysInv
  <1>1. stored = StoredIn(values, offsets, postings)
    <2>1. Len(values) \in Nat /\ DOMAIN values = 1..Len(values) /\ Len(offsets) = Len(values)
      BY <1>0 DEF Shape, Parallel
    <2> QED  BY <2>1, StoredHere
  <1>2. stored' = StoredIn(values', offsets', postings')
    <2>1. Len(values)' \in Nat /\ DOMAIN values' = 1..Len(values)' /\ Len(offsets)' = Len(values)'
      BY <1>0 DEF Shape, Parallel
    <2>2. \A i \in 1..Len(values)' : GroupEnd(i)' = EndOf(offsets', postings', i)
      BY <2>1 DEF GroupEnd, EndOf
    <2> QED  BY <2>1, <2>2 DEF stored, Group, StoredIn
  <1>3. ASSUME NEW ab
        PROVE  /\ ab \in stored <=>
                    ab = <<ab[1], ab[2]>> /\ Filed(values, offsets, postings, ab[1], ab[2])
               /\ ab \in stored' <=>
                    ab = <<ab[1], ab[2]>> /\ Filed(values', offsets', postings', ab[1], ab[2])
    <2>1. ab \in stored <=>
            ab = <<ab[1], ab[2]>> /\ Filed(values, offsets, postings, ab[1], ab[2])
      <3>1. \A a, b : <<a, b>> \in stored <=> Filed(values, offsets, postings, a, b)
        BY <1>0, <1>1, StoredFiled
      <3>2. ab \in stored => ab = <<ab[1], ab[2]>>
        BY <1>0, <1>1, StoredFiled
      <3> QED  BY <3>1, <3>2
    <2>2. ab \in stored' <=>
            ab = <<ab[1], ab[2]>> /\ Filed(values', offsets', postings', ab[1], ab[2])
      <3>1. \A a, b : <<a, b>> \in stored' <=> Filed(values', offsets', postings', a, b)
        BY <1>0, <1>2, StoredFiled
      <3>2. ab \in stored' => ab = <<ab[1], ab[2]>>
        BY <1>0, <1>2, StoredFiled
      <3> QED  BY <3>1, <3>2
    <2> QED  BY <2>1, <2>2
  <1>4. ASSUME \A a, b : Filed(values', offsets', postings', a, b) <=>
                           Filed(values, offsets, postings, a, b)
        PROVE  stored' = stored
    BY <1>3, <1>4
  <1>5. ASSUME NEW k \in Keys, NEW v \in Positions, NEW junk \in JunkValues,
               NEW end \in JunkOffsets, Put(k, v, junk, end)
        PROVE  Map!Next
    <2> DEFINE u == Unique(k, junk)
               q == binary_search(k) + 1
    <2>1. /\ Shape(u.values, u.offsets, postings)
          /\ q \in 1..(Len(u.values) + 1)
          /\ q <= Len(u.values) => u.values[q] = k
          /\ q > Len(u.values) => junk = k /\ q = Len(values) + 1 /\ values # <<>>
          /\ \A a, b : Filed(u.values, u.offsets, postings, a, b) <=>
                         Filed(values, offsets, postings, a, b)
      BY <1>0, KeyPlaced
    <2>2. Len(u.values) \in Nat /\ Len(values) \in Nat
      BY <1>0, <2>1 DEF Shape, Parallel
    <2>3. q <= Len(u.values)
      <3>1. SUFFICES ASSUME q > Len(u.values) PROVE FALSE
        <4> HIDE DEF q, u
        <4> QED  BY <2>1, <2>2
      <3>2. junk = k /\ values # <<>> /\ q = Len(values) + 1
        BY <2>1, <3>1
      <3>3. binary_search(k) = Len(values)
        <4>1. binary_search(k) \in Int
          BY <1>0, BinarySearch
        <4> QED  BY <2>2, <3>2, <4>1
      <3> QED  BY <1>0, <3>2, <3>3, NoFalseMatch
    <2>4. /\ reply' = 0
          /\ values' = u.values
          /\ offsets' = MovedUp(u.offsets, q)
          /\ \E place \in 0..Len(postings) :
               /\ postings' = Insert(postings, place, v)
               /\ q <= Len(u.values) =>
                    place \in u.offsets[q]..EndOf(u.offsets, postings, q)
      <3>1. ~(q > Len(u.values))
        <4>1. q \in Int
          BY <2>1
        <4> HIDE DEF q, u
        <4> QED  BY <2>2, <2>3, <4>1
      <3> QED  BY <1>5, <3>1, PutEffect DEF OffsetsCleared
    <2>5. PICK place \in u.offsets[q]..EndOf(u.offsets, postings, q) :
            postings' = Insert(postings, place, v)
      BY <2>3, <2>4
    <2> HIDE DEF q, u
    <2>6. q \in 1..Len(u.values)
      BY <2>1, <2>2, <2>3
    <2>7. \A a, b : Filed(values', offsets', postings', a, b) <=>
                      Filed(values, offsets, postings, a, b) \/ (a = k /\ b = v)
      <3> TAKE a, b
      <3>1. Filed(u.values, MovedUp(u.offsets, q), Insert(postings, place, v), a, b) <=>
              Filed(u.values, u.offsets, postings, a, b) \/ (a = u.values[q] /\ b = v)
        BY <2>1, <2>6, PositionFiled
      <3> QED  BY <2>1, <2>3, <2>4, <2>5, <3>1
    <2>8. stored' = stored \cup {<<k, v>>}
      <3>1. \A ab : ab \in stored' <=> ab \in stored \cup {<<k, v>>}
        <4> TAKE ab
        <4>1. ab \in {<<k, v>>} <=> ab = <<ab[1], ab[2]>> /\ ab[1] = k /\ ab[2] = v
          OBVIOUS
        <4> QED  BY <1>3, <2>7, <4>1
      <3> QED  BY <3>1
    <2>9. Map!Put(k, v)
      BY <2>4, <2>8 DEF Map!Put, Map!Success
    <2> QED  BY <2>9 DEF Map!Next
  <1>6. ASSUME NEW k \in Keys, NEW junk \in JunkValues, ValueFails(k, junk)
        PROVE  Map!Next
    <2>1. reply' = 2 /\ UNCHANGED <<values, offsets, postings>>
      BY <1>6 DEF ValueFails
    <2>2. stored' = stored
      BY <1>4, <2>1
    <2> QED  BY <2>1, <2>2 DEF Map!Next, Map!FailPut, Map!OutOfMemory
  <1>7. ASSUME NEW k \in Keys, NEW junk \in JunkValues, PostingFails(k, junk)
        PROVE  Map!Next
    <2> DEFINE u == Unique(k, junk)
    <2>1. /\ values' = u.values /\ offsets' = u.offsets /\ postings' = postings /\ reply' = 2
      BY <1>7 DEF PostingFails, Unique
    <2>2. \A a, b : Filed(u.values, u.offsets, postings, a, b) <=>
                      Filed(values, offsets, postings, a, b)
      BY <1>0, KeyPlaced
    <2> HIDE DEF u
    <2>3. stored' = stored
      BY <1>4, <2>1, <2>2
    <2> QED  BY <2>1, <2>3 DEF Map!Next, Map!FailPut, Map!OutOfMemory
  <1>8. CASE UNCHANGED vars
    <2>1. UNCHANGED <<values, offsets, postings, reply>>
      BY <1>8 DEF vars
    <2>2. stored' = stored
      BY <1>4, <2>1
    <2> QED  BY <2>1, <2>2 DEF Map!vars
  <1> QED  BY <1>5, <1>6, <1>7, <1>8 DEF Next

\* Refinement: in memory that has never been used the index implements the
\* abstract one of index.hpp, and no put crashes.
THEOREM ImplementsMap ==
  ASSUME KeysAboveJunk, OffsetsCleared
  PROVE  Spec => ImplementsIndexMap
  <1>1. ArraysInv /\ ArraysInv' /\ [Next]_vars => [Map!Next]_Map!vars
    BY MapNext
  <1> QED  BY ArraysCorrect, MapInit, <1>1, PTL DEF Spec, ImplementsIndexMap, Map!Spec
=============================================================================
