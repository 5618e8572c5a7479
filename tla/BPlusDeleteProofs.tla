------------------------- MODULE BPlusDeleteProofs -------------------------
(***************************************************************************)
(* What a delete does to the nodes of bplustree.cpp, branch by branch, for *)
(* every order and capacity.                                               *)
(*                                                                         *)
(* A merge leaves a tree in which the parent holds a key and a child too   *)
(* many: Left says that the memory is a tree w but for such a Gap, and the *)
(* next step of the climb closes it.  A shift, which moves one entry or    *)
(* child between neighbours, is no new operation on trees: it is a merge   *)
(* of the two nodes whose result is split again at another place (Shift),  *)
(* so that heights, ranges, parents and lists follow from MergeKeeps and   *)
(* SplitKeeps.  BPlusTheorems puts the branches together.                  *)
(***************************************************************************)
EXTENDS BPlusPutProofs

-----------------------------------------------------------------------------
\* What a removal does to arrays.

\* s2 is s without its element number a.
Lost(s, a, s2) ==
  /\ Len(s2) = Len(s) - 1
  /\ \A j \in 1..(Len(s) - 1) : s2[j] = IF j < a THEN s[j] ELSE s[j + 1]

\* Two arrays, one behind the other.
LEMMA JoinFact ==
  ASSUME NEW A, NEW s1 \in Seq(A), NEW s2 \in Seq(A)
  PROVE  /\ s1 \o s2 \in Seq(A) /\ Len(s1 \o s2) = Len(s1) + Len(s2)
         /\ Cut(s1 \o s2, Len(s1), Len(s1), s1, s2)
  <1> DEFINE s == s1 \o s2
  <1>1. /\ s \in Seq(A) /\ Len(s) = Len(s1) + Len(s2)
        /\ \A j \in 1..(Len(s1) + Len(s2)) : s[j] = IF j <= Len(s1) THEN s1[j] ELSE s2[j - Len(s1)]
    BY ConcatProperties
  <1>2. Len(s1) \in Nat /\ Len(s2) \in Nat
    OBVIOUS
  <1> HIDE DEF s
  <1>3. \A j \in 1..Len(s1) : s1[j] = s[j]
    BY <1>1, <1>2
  <1>4. ASSUME NEW j \in 1..(Len(s) - Len(s1)) PROVE s2[j] = s[Len(s1) + j]
    <2>1. Len(s1) + j \in 1..(Len(s1) + Len(s2)) /\ ~(Len(s1) + j <= Len(s1)) /\ (Len(s1) + j) - Len(s1) = j
      BY <1>1, <1>2
    <2>2. s[Len(s1) + j] = s2[(Len(s1) + j) - Len(s1)]
      BY <1>1, <2>1
    <2> QED  BY <2>1, <2>2
  <1>5. Len(s2) = Len(s) - Len(s1)
    BY <1>1, <1>2
  <1>6. Cut(s, Len(s1), Len(s1), s1, s2)
    BY <1>3, <1>4, <1>5 DEF Cut
  <1> QED  BY <1>1, <1>6 DEF s

\* Two rows of keys with the separator between them.
LEMMA JoinMidFact ==
  ASSUME NEW A, NEW s1 \in Seq(A), NEW k \in A, NEW s2 \in Seq(A)
  PROVE  /\ s1 \o <<k>> \o s2 \in Seq(A) /\ Len(s1 \o <<k>> \o s2) = Len(s1) + Len(s2) + 1
         /\ (s1 \o <<k>> \o s2)[Len(s1) + 1] = k
         /\ Cut(s1 \o <<k>> \o s2, Len(s1), Len(s1) + 1, s1, s2)
  <1> DEFINE m == s1 \o <<k>>
             s == m \o s2
  <1>1. <<k>> \in Seq(A) /\ Len(<<k>>) = 1 /\ <<k>>[1] = k
    OBVIOUS
  <1>2. m \in Seq(A) /\ Len(m) = Len(s1) + 1 /\ Cut(m, Len(s1), Len(s1), s1, <<k>>)
    BY <1>1, JoinFact
  <1>3. Len(s1) \in Nat /\ Len(s2) \in Nat
    OBVIOUS
  <1>4. m[Len(s1) + 1] = k
    <2> HIDE DEF m
    <2>1. 1 \in 1..(Len(m) - Len(s1))
      BY <1>2, <1>3
    <2>2. <<k>>[1] = m[Len(s1) + 1]
      BY <1>2, <2>1 DEF Cut
    <2> QED  BY <1>1, <2>2
  <1>5. \A j \in 1..Len(s1) : s1[j] = m[j]
    BY <1>2 DEF Cut
  <1> HIDE DEF m
  <1>6. s \in Seq(A) /\ Len(s) = Len(m) + Len(s2) /\ Cut(s, Len(m), Len(m), m, s2)
    BY <1>2, JoinFact
  <1> HIDE DEF s
  <1>7. /\ \A j \in 1..Len(m) : m[j] = s[j]
        /\ \A j \in 1..(Len(s) - Len(m)) : s2[j] = s[Len(m) + j]
    BY <1>6 DEF Cut
  <1>8. s[Len(s1) + 1] = k
    BY <1>2, <1>3, <1>4, <1>7
  <1>9. \A j \in 1..Len(s1) : s1[j] = s[j]
    BY <1>2, <1>3, <1>5, <1>7
  <1>10. Len(s) = Len(s1) + Len(s2) + 1 /\ Len(s2) = Len(s) - (Len(s1) + 1)
    BY <1>2, <1>3, <1>6
  <1>11. Cut(s, Len(s1), Len(s1) + 1, s1, s2)
    BY <1>2, <1>7, <1>9, <1>10 DEF Cut
  <1> QED  BY <1>6, <1>8, <1>10, <1>11 DEF s, m

\* An element taken out at an index.
LEMMA WithoutFact ==
  ASSUME NEW A, NEW s \in Seq(A), NEW i \in 0..(Len(s) - 1)
  PROVE  Without(s, i) \in Seq(A) /\ Lost(s, i + 1, Without(s, i))
  <1> DEFINE s1 == Slice(s, 0, i - 1)
             s2 == SliceFrom(s, i + 1)
             m == s1 \o s2
  <1>1. /\ s1 \in Seq(A) /\ Len(s1) = i
        /\ \A j \in 1..i : s1[j] = s[j]
    <2>1. i \in 0..Len(s)
      OBVIOUS
    <2> QED  BY <2>1, SliceFact
  <1>2. /\ s2 \in Seq(A) /\ Len(s2) = Len(s) - (i + 1)
        /\ \A j \in 1..(Len(s) - (i + 1)) : s2[j] = s[i + 1 + j]
    <2>1. i + 1 \in 0..Len(s)
      OBVIOUS
    <2> QED  BY <2>1, SliceFromFact
  <1>3. Without(s, i) = m
    BY DEF Without
  <1> HIDE DEF s1, s2
  <1>4. m \in Seq(A) /\ Len(m) = Len(s1) + Len(s2) /\ Cut(m, Len(s1), Len(s1), s1, s2)
    BY <1>1, <1>2, JoinFact
  <1> HIDE DEF m
  <1>5. /\ \A j \in 1..i : s1[j] = m[j]
        /\ \A j \in 1..(Len(m) - i) : s2[j] = m[i + j]
    BY <1>1, <1>4 DEF Cut
  <1>6. Len(s) \in Nat /\ i \in Nat /\ Len(m) = Len(s) - 1
    BY <1>1, <1>2, <1>4
  <1>7. ASSUME NEW j \in 1..(Len(s) - 1)
        PROVE  m[j] = IF j < i + 1 THEN s[j] ELSE s[j + 1]
    <2>1. CASE j < i + 1
      <3>1. j \in 1..i
        BY <1>6, <2>1
      <3> QED  BY <1>1, <1>5, <2>1, <3>1
    <2>2. CASE ~(j < i + 1)
      <3>1. /\ j - i \in 1..(Len(m) - i) /\ j - i \in 1..(Len(s) - (i + 1))
            /\ i + (j - i) = j /\ i + 1 + (j - i) = j + 1
        BY <1>6, <2>2
      <3>2. s2[j - i] = m[j] /\ s2[j - i] = s[j + 1]
        BY <1>2, <1>5, <3>1
      <3> QED  BY <2>2, <3>2
    <2> QED  BY <2>1, <2>2
  <1> QED  BY <1>3, <1>4, <1>6, <1>7 DEF Lost

\* Seen the other way round, the element has entered.
LEMMA LostEntered ==
  ASSUME NEW A, NEW s \in Seq(A), NEW a \in 1..Len(s), NEW s2 \in Seq(A), Lost(s, a, s2)
  PROVE  Entered(s2, a, s[a], s)
  <1>1. Len(s) \in Nat /\ Len(s) = Len(s2) + 1
    BY DEF Lost
  <1>2. ASSUME NEW j \in 1..(Len(s2) + 1)
        PROVE  s[j] = IF j < a THEN s2[j] ELSE IF j = a THEN s[a] ELSE s2[j - 1]
    <2>1. CASE j < a
      <3>1. j \in 1..(Len(s) - 1)
        BY <1>1, <2>1
      <3> QED  BY <2>1, <3>1 DEF Lost
    <2>2. CASE j = a
      BY <2>2
    <2>3. CASE j > a
      <3>1. j - 1 \in 1..(Len(s) - 1) /\ ~(j - 1 < a) /\ (j - 1) + 1 = j /\ ~(j < a) /\ j # a
        BY <1>1, <2>3
      <3> QED  BY <3>1 DEF Lost
    <2> QED  BY <2>1, <2>2, <2>3
  <1> QED  BY <1>1, <1>2 DEF Entered

\* A child that is lost from behind l has stood beside it.
LEMMA LostPaired ==
  ASSUME NEW A, NEW s \in Seq(A), NEW a \in Nat, NEW s2 \in Seq(A), a >= 1, a + 1 <= Len(s),
         Lost(s, a + 1, s2)
  PROVE  Paired(s2, a, s[a], s[a + 1], s) /\ s2[a] = s[a] /\ a \in 1..Len(s2)
  <1>1. Len(s) \in Nat /\ Len(s) = Len(s2) + 1
    BY DEF Lost
  <1>2. a \in 1..(Len(s) - 1) /\ a < a + 1
    BY <1>1
  <1>3. s2[a] = s[a]
    BY <1>2 DEF Lost
  <1>4. ASSUME NEW j \in 1..(Len(s2) + 1)
        PROVE  s[j] = IF j < a THEN s2[j] ELSE IF j = a THEN s[a]
                      ELSE IF j = a + 1 THEN s[a + 1] ELSE s2[j - 1]
    <2>1. CASE j < a
      <3>1. j \in 1..(Len(s) - 1) /\ j < a + 1
        BY <1>1, <2>1
      <3> QED  BY <2>1, <3>1 DEF Lost
    <2>2. CASE j = a \/ j = a + 1
      BY <2>2
    <2>3. CASE j > a + 1
      <3>1. j - 1 \in 1..(Len(s) - 1) /\ ~(j - 1 < a + 1) /\ (j - 1) + 1 = j /\ ~(j < a) /\ j # a /\ j # a + 1
        BY <1>1, <2>3
      <3> QED  BY <3>1 DEF Lost
    <2> QED  BY <2>1, <2>2, <2>3
  <1> QED  BY <1>1, <1>2, <1>3, <1>4 DEF Paired

\* A new separator in the place of the old one.
LEMMA SetAtFact ==
  ASSUME NEW A, NEW s \in Seq(A), NEW i \in 0..(Len(s) - 1), NEW k \in A, NEW old, NEW s0,
         Entered(s0, i + 1, old, s)
  PROVE  SetAt(s, i, k) \in Seq(A) /\ Entered(s0, i + 1, k, SetAt(s, i, k))
         /\ Len(SetAt(s, i, k)) = Len(s)
  <1>1. i + 1 \in 1..Len(s)
    OBVIOUS
  <1>2. /\ SetAt(s, i, k) \in Seq(A) /\ Len(SetAt(s, i, k)) = Len(s)
        /\ \A j \in 1..Len(s) : SetAt(s, i, k)[j] = IF j = i + 1 THEN k ELSE s[j]
    BY <1>1 DEF SetAt
  <1> QED  BY <1>2 DEF Entered

\* The last element on the left goes.
LEMMA CutLess ==
  ASSUME NEW A, NEW s \in Seq(A), NEW a \in 1..Len(s), NEW b, NEW s1 \in Seq(A), NEW s2,
         Cut(s, a, b, s1, s2)
  PROVE  /\ Slice(s1, 0, a - 2) \in Seq(A) /\ Cut(s, a - 1, b, Slice(s1, 0, a - 2), s2)
         /\ s1[a] = s[a]
  <1>1. Len(s1) = a /\ \A j \in 1..a : s1[j] = s[j]
    BY DEF Cut
  <1>2. a - 1 \in 0..Len(s1) /\ (a - 1) - 1 = a - 2
    BY <1>1
  <1>3. /\ Slice(s1, 0, a - 2) \in Seq(A) /\ Len(Slice(s1, 0, a - 2)) = a - 1
        /\ \A j \in 1..(a - 1) : Slice(s1, 0, a - 2)[j] = s1[j]
    BY <1>2, SliceFact
  <1>4. \A j \in 1..(a - 1) : Slice(s1, 0, a - 2)[j] = s[j]
    BY <1>1, <1>3
  <1> QED  BY <1>1, <1>3, <1>4 DEF Cut

\* The element before the right part joins it.
LEMMA CutFront ==
  ASSUME NEW A, NEW s \in Seq(A), NEW a, NEW b \in 1..Len(s), NEW s1, NEW s2 \in Seq(A),
         Cut(s, a, b, s1, s2), NEW e \in A, e = s[b]
  PROVE  <<e>> \o s2 \in Seq(A) /\ Cut(s, a, b - 1, s1, <<e>> \o s2)
  <1>1. Len(s2) = Len(s) - b /\ \A j \in 1..(Len(s) - b) : s2[j] = s[b + j]
    BY DEF Cut
  <1> DEFINE m == <<e>> \o s2
  <1>2. /\ m \in Seq(A) /\ Len(m) = Len(s2) + 1
        /\ \A j \in 1..(Len(s2) + 1) : m[j] = IF j = 1 THEN e ELSE s2[j - 1]
    BY OpenFact
  <1> HIDE DEF m
  <1>3. Len(m) = Len(s) - (b - 1)
    BY <1>1, <1>2
  <1>4. ASSUME NEW j \in 1..(Len(s) - (b - 1)) PROVE m[j] = s[(b - 1) + j]
    <2>1. CASE j = 1
      <3>1. (b - 1) + j = b /\ j \in 1..(Len(s2) + 1)
        BY <1>1, <2>1
      <3> QED  BY <1>2, <2>1, <3>1
    <2>2. CASE j # 1
      <3>1. j - 1 \in 1..(Len(s) - b) /\ j \in 1..(Len(s2) + 1) /\ b + (j - 1) = (b - 1) + j
        BY <1>1, <2>2
      <3>2. m[j] = s2[j - 1] /\ s2[j - 1] = s[b + (j - 1)]
        BY <1>1, <1>2, <2>2, <3>1
      <3> QED  BY <3>1, <3>2
    <2> QED  BY <2>1, <2>2
  <1>5. Cut(s, a, b - 1, s1, m)
    BY <1>3, <1>4 DEF Cut
  <1> QED  BY <1>2, <1>5 DEF m

\* The element behind the left part joins it.
LEMMA CutMore ==
  ASSUME NEW A, NEW s \in Seq(A), NEW a \in 0..(Len(s) - 1), NEW b, NEW s1 \in Seq(A), NEW s2,
         Cut(s, a, b, s1, s2), NEW e \in A, e = s[a + 1]
  PROVE  Append(s1, e) \in Seq(A) /\ Cut(s, a + 1, b, Append(s1, e), s2)
  <1>1. Len(s1) = a /\ \A j \in 1..a : s1[j] = s[j]
    BY DEF Cut
  <1> DEFINE m == Append(s1, e)
  <1>2. /\ m \in Seq(A) /\ Len(m) = Len(s1) + 1 /\ m[Len(s1) + 1] = e
        /\ \A j \in 1..Len(s1) : m[j] = s1[j]
    OBVIOUS
  <1> HIDE DEF m
  <1>3. ASSUME NEW j \in 1..(a + 1) PROVE m[j] = s[j]
    <2>1. j \in 1..a \/ j = a + 1
      OBVIOUS
    <2> QED  BY <1>1, <1>2, <2>1
  <1>4. Cut(s, a + 1, b, m, s2)
    BY <1>1, <1>2, <1>3 DEF Cut
  <1> QED  BY <1>2, <1>4 DEF m

\* The first element on the right goes.
LEMMA CutTail ==
  ASSUME NEW A, NEW s \in Seq(A), NEW a \in Nat, NEW b \in 0..(Len(s) - 1), NEW s1, NEW s2 \in Seq(A),
         Cut(s, a, b, s1, s2)
  PROVE  /\ Tail(s2) \in Seq(A) /\ Cut(s, a, b + 1, s1, Tail(s2))
         /\ s2[1] = s[b + 1]
  <1>1. Len(s2) = Len(s) - b /\ \A j \in 1..(Len(s) - b) : s2[j] = s[b + j]
    BY DEF Cut
  <1>2. Len(s2) \in Nat /\ Len(s2) >= 1 /\ s2 # <<>>
    BY <1>1
  <1> DEFINE m == Tail(s2)
  <1>3. /\ m \in Seq(A) /\ Len(m) = Len(s2) - 1
        /\ \A j \in 1..(Len(s2) - 1) : m[j] = s2[j + 1]
    BY <1>2
  <1> HIDE DEF m
  <1>4. ASSUME NEW j \in 1..(Len(s) - (b + 1)) PROVE m[j] = s[(b + 1) + j]
    <2>1. j \in 1..(Len(s2) - 1) /\ j + 1 \in 1..(Len(s) - b) /\ b + (j + 1) = (b + 1) + j
      BY <1>1
    <2>2. m[j] = s2[j + 1] /\ s2[j + 1] = s[b + (j + 1)]
      BY <1>1, <1>3, <2>1
    <2> QED  BY <2>1, <2>2
  <1>5. Len(m) = Len(s) - (b + 1)
    BY <1>1, <1>3
  <1>6. Cut(s, a, b + 1, s1, m)
    BY <1>4, <1>5 DEF Cut
  <1>7. s2[1] = s[b + 1]
    BY <1>1, <1>2
  <1> QED  BY <1>3, <1>6, <1>7 DEF m

\* The last element on the left goes to the right.
LEMMA RollRight ==
  ASSUME NEW A, NEW s \in Seq(A), NEW c \in 1..Len(s), NEW s1 \in Seq(A), NEW s2 \in Seq(A),
         Cut(s, c, c, s1, s2)
  PROVE  /\ Slice(s1, 0, c - 2) \in Seq(A) /\ <<s1[c]>> \o s2 \in Seq(A) /\ s1[c] = s[c]
         /\ Cut(s, c - 1, c - 1, Slice(s1, 0, c - 2), <<s1[c]>> \o s2)
  <1>1. /\ Slice(s1, 0, c - 2) \in Seq(A) /\ Cut(s, c - 1, c, Slice(s1, 0, c - 2), s2)
        /\ s1[c] = s[c]
    BY CutLess
  <1>2. s1[c] \in A
    BY <1>1
  <1>3. <<s1[c]>> \o s2 \in Seq(A) /\ Cut(s, c - 1, c - 1, Slice(s1, 0, c - 2), <<s1[c]>> \o s2)
    BY <1>1, <1>2, CutFront
  <1> QED  BY <1>1, <1>3

\* The same with a separator between the two.
LEMMA RollRightKey ==
  ASSUME NEW A, NEW s \in Seq(A), NEW c \in 2..Len(s), NEW s1 \in Seq(A), NEW s2 \in Seq(A),
         Cut(s, c - 1, c, s1, s2), NEW sep \in A, sep = s[c]
  PROVE  /\ Slice(s1, 0, c - 3) \in Seq(A) /\ <<sep>> \o s2 \in Seq(A) /\ s1[c - 1] = s[c - 1]
         /\ Cut(s, c - 2, c - 1, Slice(s1, 0, c - 3), <<sep>> \o s2)
  <1>1. c - 1 \in 1..Len(s) /\ (c - 1) - 2 = c - 3 /\ (c - 1) - 1 = c - 2 /\ c \in 1..Len(s)
    OBVIOUS
  <1>2. /\ Slice(s1, 0, (c - 1) - 2) \in Seq(A) /\ Cut(s, (c - 1) - 1, c, Slice(s1, 0, (c - 1) - 2), s2)
        /\ s1[c - 1] = s[c - 1]
    BY <1>1, CutLess
  <1>3. Cut(s, c - 2, c, Slice(s1, 0, c - 3), s2)
    BY <1>1, <1>2
  <1>4. <<sep>> \o s2 \in Seq(A) /\ Cut(s, c - 2, c - 1, Slice(s1, 0, c - 3), <<sep>> \o s2)
    BY <1>1, <1>3, CutFront
  <1> QED  BY <1>1, <1>2, <1>4

\* The first element on the right goes to the left.
LEMMA RollLeft ==
  ASSUME NEW A, NEW s \in Seq(A), NEW c \in 0..(Len(s) - 1), NEW s1 \in Seq(A), NEW s2 \in Seq(A),
         Cut(s, c, c, s1, s2)
  PROVE  /\ Append(s1, s2[1]) \in Seq(A) /\ Tail(s2) \in Seq(A) /\ s2[1] = s[c + 1]
         /\ Cut(s, c + 1, c + 1, Append(s1, s2[1]), Tail(s2))
  <1>1. /\ Tail(s2) \in Seq(A) /\ Cut(s, c, c + 1, s1, Tail(s2)) /\ s2[1] = s[c + 1]
    BY CutTail
  <1>2. s2[1] \in A
    BY <1>1
  <1>3. Append(s1, s2[1]) \in Seq(A) /\ Cut(s, c + 1, c + 1, Append(s1, s2[1]), Tail(s2))
    BY <1>1, <1>2, CutMore
  <1> QED  BY <1>1, <1>3

\* The same with a separator between the two.
LEMMA RollLeftKey ==
  ASSUME NEW A, NEW s \in Seq(A), NEW c \in 1..(Len(s) - 1), NEW s1 \in Seq(A), NEW s2 \in Seq(A),
         Cut(s, c - 1, c, s1, s2), NEW sep \in A, sep = s[c]
  PROVE  /\ Append(s1, sep) \in Seq(A) /\ Tail(s2) \in Seq(A) /\ s2[1] = s[c + 1]
         /\ Cut(s, c, c + 1, Append(s1, sep), Tail(s2))
  <1>1. c \in 0..(Len(s) - 1) /\ c - 1 \in 0..(Len(s) - 1) /\ (c - 1) + 1 = c
    OBVIOUS
  <1>4. c - 1 \in Nat
    OBVIOUS
  <1>2. Tail(s2) \in Seq(A) /\ Cut(s, c - 1, c + 1, s1, Tail(s2)) /\ s2[1] = s[c + 1]
    BY <1>1, <1>4, CutTail
  <1>3. Append(s1, sep) \in Seq(A) /\ Cut(s, (c - 1) + 1, c + 1, Append(s1, sep), Tail(s2))
    BY <1>1, <1>2, CutMore
  <1> QED  BY <1>1, <1>2, <1>3

-----------------------------------------------------------------------------
\* A node loses a key and the child behind it.

\* t is well formed but for child number a + 1 of p, which may be gone.
Loose(t, p, a) ==
  /\ DOMAIN t = Fields /\ N(t) \subseteq Nat \ {0} /\ IsFiniteSet(N(t))
  /\ t.level \in Nat /\ t.root \in N(t) /\ t.ok = TRUE
  /\ \A m \in N(t) \ {p} : NodeFormed(t, m)
  /\ p \in N(t) /\ DOMAIN t.node[p] = InnerFields /\ ~is_leaf(t, p)
  /\ P(t, p) \in N(t) \cup {NULL} /\ X(t, p) \in Int
  /\ K(t, p) \in Seq(Int) /\ S(t, p) \in Seq(Int) /\ Len(S(t, p)) = Len(K(t, p)) + 1
  /\ a \in 1..Len(K(t, p))
  /\ Without(S(t, p), a) \in Seq(N(t))
  /\ \A i, j \in 1..Len(Without(S(t, p), a)) :
       Without(S(t, p), a)[i] = Without(S(t, p), a)[j] => i = j

\* v is t after p has lost key number a and the child behind it; the children
\* from there on know their new place.
PairOut(t, v, p, a) ==
  /\ Frame(t, v) /\ v.link = t.link /\ N(v) = N(t) /\ Formed(v)
  /\ ~is_leaf(v, p)
  /\ K(v, p) = Without(K(t, p), a - 1) /\ Lost(K(t, p), a, K(v, p))
  /\ S(v, p) = Without(S(t, p), a) /\ Lost(S(t, p), a + 1, S(v, p))
  /\ \A m \in N(t) \ {p} : Same(t, v, m)
  /\ \A m \in N(t) : P(v, m) = P(t, m)
  /\ \A m \in N(t) : (\A i \in (a + 1)..Len(S(v, p)) : S(v, p)[i] # m) => X(v, m) = X(t, m)
  /\ \A i \in (a + 1)..Len(S(v, p)) : X(v, S(v, p)[i]) = i - 2

\* The arrays of the node that loses the pair, before the renumbering.
PairTaken(t, g, p, a) ==
  g = [t EXCEPT !.node[p].key = Without(@, a - 1),
                !.node[p].sub_ptr = Without(@, (a - 1) + 1),
                !.ok = @ /\ children(t, p) >= 2]
\* The arrays of the node that loses the pair.
LEMMA PairOutShape ==
  ASSUME NEW t, NEW p, NEW a, Loose(t, p, a), NEW g, PairTaken(t, g, p, a)
  PROVE  /\ DOMAIN g = Fields /\ DOMAIN g.node = DOMAIN t.node
         /\ Frame(t, g) /\ g.link = t.link
         /\ DOMAIN g.node[p] = InnerFields
         /\ g.node[p].key = Without(t.node[p].key, a - 1)
         /\ g.node[p].sub_ptr = Without(t.node[p].sub_ptr, a)
         /\ g.node[p].type = t.node[p].type /\ g.node[p].parent = t.node[p].parent
         /\ g.node[p].parent_key_idx = t.node[p].parent_key_idx
         /\ \A m \in DOMAIN t.node \ {p} : g.node[m] = t.node[m]
  <1>1. DOMAIN t = Fields /\ p \in DOMAIN t.node /\ DOMAIN t.node[p] = InnerFields /\ t.ok = TRUE
    BY DEF Loose, N
  <1>2. (a - 1) + 1 = a /\ children(t, p) >= 2
    BY DEF Loose, children, S
  <1>3. g = [t EXCEPT !.node[p].key = Without(@, a - 1),
                      !.node[p].sub_ptr = Without(@, a),
                      !.ok = TRUE]
    BY <1>1, <1>2 DEF Fields, PairTaken
  <1> DEFINE kk == Without(t.node[p].key, a - 1)
             ss == Without(t.node[p].sub_ptr, a)
             nn == [t.node EXCEPT ![p] = [@ EXCEPT !.key = kk, !.sub_ptr = ss]]
  <1>6. g = [t EXCEPT !.node = nn, !.ok = TRUE]
    BY <1>1, <1>3 DEF Fields, InnerFields
  <1>7. /\ DOMAIN nn = DOMAIN t.node
        /\ nn[p] = [t.node[p] EXCEPT !.key = kk, !.sub_ptr = ss]
        /\ \A m \in DOMAIN t.node \ {p} : nn[m] = t.node[m]
    BY <1>1
  <1> HIDE DEF nn, kk, ss
  <1>8. /\ DOMAIN g = Fields /\ g.node = nn
        /\ g.root = t.root /\ g.level = t.level /\ g.ok = TRUE
        /\ g.order = t.order /\ g.entries = t.entries /\ g.link = t.link
    BY <1>1, <1>6 DEF Fields
  <1>4. /\ DOMAIN g = Fields /\ DOMAIN g.node = DOMAIN t.node
        /\ g.root = t.root /\ g.level = t.level /\ g.ok = TRUE
        /\ g.order = t.order /\ g.entries = t.entries /\ g.link = t.link
        /\ g.node[p] = [t.node[p] EXCEPT !.key = kk, !.sub_ptr = ss]
        /\ \A m \in DOMAIN t.node \ {p} : g.node[m] = t.node[m]
    BY <1>7, <1>8
  <1>5. /\ DOMAIN g.node[p] = InnerFields
        /\ g.node[p].key = Without(t.node[p].key, a - 1)
        /\ g.node[p].sub_ptr = Without(t.node[p].sub_ptr, a)
        /\ g.node[p].type = t.node[p].type /\ g.node[p].parent = t.node[p].parent
        /\ g.node[p].parent_key_idx = t.node[p].parent_key_idx
    <2>1. /\ DOMAIN g.node[p] = InnerFields /\ g.node[p].key = kk /\ g.node[p].sub_ptr = ss
          /\ g.node[p].type = t.node[p].type /\ g.node[p].parent = t.node[p].parent
          /\ g.node[p].parent_key_idx = t.node[p].parent_key_idx
      BY <1>1, <1>4 DEF InnerFields
    <2> QED  BY <2>1 DEF kk, ss
  <1> QED  BY <1>1, <1>4, <1>5 DEF Frame

\* non_leaf_simple_remove does what PairOut says.
LEMMA PairOutFact ==
  ASSUME NEW t, NEW p, NEW a, Loose(t, p, a)
  PROVE  PairOut(t, non_leaf_simple_remove(t, p, a - 1), p, a)
  <1> DEFINE keys == Without(K(t, p), a - 1)
             subs == Without(S(t, p), a)
             g == [t EXCEPT !.node[p].key = Without(@, a - 1),
                            !.node[p].sub_ptr = Without(@, (a - 1) + 1),
                            !.ok = @ /\ children(t, p) >= 2]
             I == ((a - 1) + 1)..(children(g, p) - 1)
             v == Renumber(g, p, I)
  <1>1. v = non_leaf_simple_remove(t, p, a - 1)
    BY DEF non_leaf_simple_remove
  <1>2. /\ DOMAIN t = Fields /\ p \in DOMAIN t.node /\ p \in N(t) /\ DOMAIN t.node[p] = InnerFields
        /\ ~is_leaf(t, p) /\ K(t, p) \in Seq(Int) /\ S(t, p) \in Seq(Int)
        /\ Len(S(t, p)) = Len(K(t, p)) + 1 /\ a \in 1..Len(K(t, p))
        /\ P(t, p) \in N(t) \cup {NULL} /\ X(t, p) \in Int
        /\ subs \in Seq(N(t)) /\ N(t) \subseteq Nat \ {0} /\ IsFiniteSet(N(t))
        /\ t.level \in Nat /\ t.root \in N(t)
    BY DEF Loose, N
  <1>26. \A i, j \in 1..Len(subs) : subs[i] = subs[j] => i = j
    BY DEF Loose
  <1>27. \A m \in N(t) \ {p} : NodeFormed(t, m)
    BY DEF Loose
  <1>30. PairTaken(t, g, p, a)
    BY DEF PairTaken
  <1> HIDE DEF g
  <1>31. /\ DOMAIN g = Fields /\ DOMAIN g.node = DOMAIN t.node
         /\ Frame(t, g) /\ g.link = t.link
         /\ DOMAIN g.node[p] = InnerFields
         /\ g.node[p].key = Without(t.node[p].key, a - 1)
         /\ g.node[p].sub_ptr = Without(t.node[p].sub_ptr, a)
         /\ g.node[p].type = t.node[p].type /\ g.node[p].parent = t.node[p].parent
         /\ g.node[p].parent_key_idx = t.node[p].parent_key_idx
         /\ \A m \in DOMAIN t.node \ {p} : g.node[m] = t.node[m]
    BY <1>30, PairOutShape
  <1>3. /\ DOMAIN g = Fields /\ DOMAIN g.node = DOMAIN t.node
        /\ Frame(t, g) /\ g.link = t.link
        /\ DOMAIN g.node[p] = InnerFields /\ g.node[p].key = keys /\ g.node[p].sub_ptr = subs
        /\ g.node[p].type = t.node[p].type /\ g.node[p].parent = t.node[p].parent
        /\ g.node[p].parent_key_idx = t.node[p].parent_key_idx
        /\ \A m \in DOMAIN t.node \ {p} : g.node[m] = t.node[m]
    BY <1>31 DEF K, S
  <1>4. a - 1 \in 0..(Len(K(t, p)) - 1) /\ a \in 0..(Len(S(t, p)) - 1) /\ (a - 1) + 1 = a
    BY <1>2
  <1>5. keys \in Seq(Int) /\ Lost(K(t, p), a, keys)
    BY <1>2, <1>4, WithoutFact
  <1>6. Lost(S(t, p), a + 1, subs)
    BY <1>2, <1>4, WithoutFact
  <1> HIDE DEF keys, subs
  <1>8. /\ K(g, p) = keys /\ S(g, p) = subs /\ ~is_leaf(g, p)
        /\ P(g, p) = P(t, p) /\ X(g, p) = X(t, p) /\ N(g) = N(t)
    BY <1>2, <1>3 DEF K, S, P, X, is_leaf, N
  <1>9. \A m \in N(t) \ {p} : Alike(t, g, m) /\ P(g, m) = P(t, m) /\ X(g, m) = X(t, m)
    BY <1>3 DEF Alike, P, X, N
  <1>10. /\ Len(subs) = Len(S(t, p)) - 1 /\ Len(keys) = Len(K(t, p)) - 1
         /\ Len(subs) \in Nat
    BY <1>2, <1>5, <1>6 DEF Lost
  <1>11. \A m \in N(t) : NodeFormed(g, m)
    <2>1. ASSUME NEW m \in N(t) \ {p}
          PROVE  NodeFormed(g, m)
      <3>1. NodeFormed(t, m)
        BY <1>27
      <3>2. P(t, m) \in N(t) \cup {NULL} /\ X(t, m) \in Int
        BY <3>1 DEF NodeFormed
      <3> QED  BY <1>8, <1>9, <3>1, <3>2, AlikeFormed
    <2>2. NodeFormed(g, p)
      <3>2. DOMAIN g.node[p] = {"type", "parent", "parent_key_idx", "key"} \cup {"sub_ptr"}
        BY <1>3 DEF InnerFields
      <3>3. Len(subs) = Len(keys) + 1
        BY <1>2, <1>10
      <3> QED  BY <1>2, <1>5, <1>8, <3>2, <3>3 DEF NodeFormed
    <2> QED  BY <2>1, <2>2
  <1>12. I = a..(Len(subs) - 1)
    BY <1>4, <1>8 DEF children, S
  <1> HIDE DEF I
  <1>13. \A i \in I : i + 1 \in 1..Len(subs) /\ i + 1 \in (a + 1)..Len(subs) /\ At(S(g, p), i) = subs[i + 1]
    BY <1>2, <1>8, <1>10, <1>12 DEF At
  <1>14. /\ \A i \in I : At(S(g, p), i) \in N(g)
         /\ \A i \in I, j \in I : At(S(g, p), i) = At(S(g, p), j) => i = j
    <2>1. ASSUME NEW i \in I PROVE At(S(g, p), i) \in N(g)
      <3>1. i + 1 \in 1..Len(subs) /\ At(S(g, p), i) = subs[i + 1]
        BY <1>13
      <3>2. subs[i + 1] \in N(t)
        BY <1>2, <3>1
      <3> QED  BY <1>8, <3>1, <3>2
    <2>2. ASSUME NEW i \in I, NEW j \in I, At(S(g, p), i) = At(S(g, p), j)
          PROVE  i = j
      <3>1. i + 1 = j + 1
        BY <1>13, <1>26, <2>2
      <3> QED  BY <3>1, <1>2, <1>12, <1>10
    <2> QED  BY <2>1, <2>2
  <1>15. \A n \in N(g) : {"type", "parent", "parent_key_idx", "key"} \subseteq DOMAIN g.node[n]
    BY <1>8, <1>11 DEF NodeFormed
  <1>16. /\ Frame(g, v) /\ v.link = g.link /\ N(v) = N(g)
         /\ \A n \in N(g) : Alike(g, v, n) /\ P(v, n) = P(g, n)
         /\ \A n \in N(g) : (\A i \in I : At(S(g, p), i) # n) => v.node[n] = g.node[n]
         /\ \A i \in I : X(v, At(S(g, p), i)) = i - 1
    BY <1>3, <1>14, <1>15, RenumberEffect
  <1> HIDE DEF v
  <1>28. \A n \in N(t) : NodeFormed(g, n) /\ P(g, n) = P(t, n) /\ X(g, n) = X(t, n)
    BY <1>8, <1>9, <1>11
  <1>17. \A n \in N(t) : (\A i \in I : At(S(g, p), i) # n) => X(v, n) = X(t, n)
    BY <1>8, <1>28, <1>16 DEF X
  <1>18. ASSUME NEW n \in N(t)
         PROVE  NodeFormed(v, n) /\ Same(g, v, n) /\ P(v, n) = P(t, n)
    <2>1. P(v, n) = P(t, n) /\ P(v, n) \in N(t) \cup {NULL} /\ X(t, n) \in Int
      BY <1>8, <1>28, <1>16 DEF NodeFormed
    <2>2. X(v, n) \in Int
      <3>1. CASE \A i \in I : At(S(g, p), i) # n
        BY <1>17, <2>1, <3>1
      <3>2. CASE \E i \in I : At(S(g, p), i) = n
        <4>1. PICK i \in I : At(S(g, p), i) = n
          BY <3>2
        <4>2. X(v, n) = i - 1 /\ i \in Int
          BY <1>2, <1>16, <4>1, <1>12, <1>10
        <4> QED  BY <4>2
      <3> QED  BY <3>1, <3>2
    <2>3. NodeFormed(g, n) /\ Alike(g, v, n) /\ N(g) = N(v) /\ N(t) = N(v)
      BY <1>8, <1>11, <1>16
    <2> QED  BY <2>1, <2>2, <2>3, AlikeFormed
  <1>19. Frame(t, v) /\ v.link = t.link /\ N(v) = N(t)
    BY <1>3, <1>8, <1>16 DEF Frame
  <1>20. Formed(v)
    <2>1. /\ DOMAIN v = {"order", "entries", "level", "root", "node", "link", "ok"}
          /\ v.level \in Nat /\ v.root \in N(v) /\ N(v) \subseteq Nat \ {0} /\ IsFiniteSet(N(v))
      BY <1>2, <1>19 DEF Fields, Frame
    <2> QED  BY <1>18, <1>19, <2>1 DEF Formed
  <1>21. K(v, p) = keys /\ S(v, p) = subs /\ ~is_leaf(v, p)
    <2>1. Same(g, v, p)
      BY <1>2, <1>18
    <2> QED  BY <1>8, <2>1 DEF Same
  <1>22. ASSUME NEW m \in N(t) \ {p}
         PROVE  Same(t, v, m)
    <2>1. NodeFormed(t, m) /\ Alike(t, g, m)
          /\ P(g, m) \in N(t) \cup {NULL} /\ X(g, m) \in Int
      BY <1>9, <1>27 DEF NodeFormed
    <2>2. Same(t, g, m)
      BY <1>8, <2>1, AlikeFormed
    <2>3. Same(g, v, m)
      BY <1>18
    <2> QED  BY <2>2, <2>3, SameTrans
  <1>23. ASSUME NEW m \in N(t), \A i \in (a + 1)..Len(subs) : subs[i] # m
         PROVE  X(v, m) = X(t, m)
    BY <1>13, <1>17, <1>23
  <1>24. ASSUME NEW i \in (a + 1)..Len(subs)
         PROVE  X(v, subs[i]) = i - 2
    <2>1. i - 1 \in I /\ (i - 1) + 1 = i /\ (i - 1) - 1 = i - 2
      BY <1>2, <1>12, <1>10
    <2>2. At(S(g, p), i - 1) = subs[i]
      BY <1>13, <2>1
    <2>3. X(v, At(S(g, p), i - 1)) = (i - 1) - 1
      BY <1>16, <2>1
    <2> QED  BY <2>1, <2>2, <2>3
  <1>29. keys = Without(K(t, p), a - 1) /\ subs = Without(S(t, p), a)
    BY DEF keys, subs
  <1>25. PairOut(t, v, p, a)
    BY <1>5, <1>6, <1>18, <1>19, <1>20, <1>21, <1>22, <1>23, <1>24, <1>29 DEF PairOut
  <1> QED  BY <1>1, <1>25

-----------------------------------------------------------------------------
\* Two neighbours have been merged and their parent does not know yet.

\* A node is unlinked and freed.
LEMMA NodeDeleteEffect ==
  ASSUME NEW t, DOMAIN t = Fields, NEW n
  PROVE  /\ Frame(t, node_delete(t, n))
         /\ N(node_delete(t, n)) = N(t) \ {n}
         /\ node_delete(t, n).link = Dropped(t.link, n)
         /\ \A m \in N(t) \ {n} : node_delete(t, n).node[m] = t.node[m]
  <1> DEFINE k2 == Dropped(t.link, n)
             n2 == [x \in DOMAIN t.node \ {n} |-> t.node[x]]
             u == [t EXCEPT !.link = k2, !.node = n2]
  <1>1. node_delete(t, n) = u
    BY DEF node_delete, Dropped, Fields
  <1>2. DOMAIN n2 = DOMAIN t.node \ {n} /\ \A m \in DOMAIN t.node \ {n} : n2[m] = t.node[m]
    OBVIOUS
  <1> HIDE DEF k2, n2
  <1>3. /\ DOMAIN u = DOMAIN t /\ u.link = k2 /\ u.node = n2
        /\ u.root = t.root /\ u.level = t.level /\ u.ok = t.ok
        /\ u.order = t.order /\ u.entries = t.entries
    BY DEF Fields
  <1> HIDE DEF u
  <1> QED  BY <1>1, <1>2, <1>3 DEF k2, Frame, N

\* Node n of t is to lose key number a and the child behind it, which is gone;
\* the result is w.
Gap(t, w, n, a) ==
  /\ Loose(t, n, a) /\ PairOut(t, w, n, a)
  /\ \A j \in 1..Len(S(w, n)) : X(t, S(w, n)[j]) = IF j <= a THEN j - 2 ELSE j - 1

\* l and r are neighbours below p in t, with the separator sep between them.
Neighbours(w, p, a, l, r, sep) ==
  /\ p \in Inner(w) /\ l # r /\ l \in N(w) /\ r \in N(w) /\ p # l /\ p # r
  /\ a \in 1..Len(K(w, p)) /\ K(w, p)[a] = sep
  /\ S(w, p)[a] = l /\ S(w, p)[a + 1] = r

\* u is w with l and r merged into l, behind whose first c entries or children
\* those of r are; p still has both, and the separator between them.
MergedLeaf(w, u, l, r, c) ==
  /\ is_leaf(u, l) /\ c \in 0..Len(K(u, l))
  /\ Cut(K(u, l), c, c, K(w, l), K(w, r)) /\ Cut(D(u, l), c, c, D(w, l), D(w, r))
MergedInner(w, u, l, r, c, sep) ==
  /\ ~is_leaf(u, l) /\ c \in 1..Len(K(u, l)) /\ K(u, l)[c] = sep
  /\ Cut(K(u, l), c - 1, c, K(w, l), K(w, r)) /\ Cut(S(u, l), c, c, S(w, l), S(w, r))
  /\ Owns(u, l)
Merging(w, u, p, a, l, r, c, sep) ==
  /\ Neighbours(w, p, a, l, r, sep)
  /\ Frame(w, u) /\ N(u) = N(w) \ {r} /\ u.link = Dropped(w.link, r)
  /\ \A m \in N(u) \ {l} : Same(w, u, m)
  /\ \A m \in N(u) \ {p} : NodeFormed(u, m)
  /\ DOMAIN u.node[p] = InnerFields
  /\ \A m \in N(u) : P(w, m) # r => P(u, m) = P(w, m) /\ X(u, m) = X(w, m)
  /\ IF is_leaf(w, l) THEN MergedLeaf(w, u, l, r, c) ELSE MergedInner(w, u, l, r, c, sep)

\* What is known of two neighbours.
LEMMA NeighbourFacts ==
  ASSUME NEW w, NEW h, NEW R, TreeInv(w, h, R), NEW p, NEW a, NEW l, NEW r, NEW sep,
         Neighbours(w, p, a, l, r, sep)
  PROVE  /\ Formed(w) /\ DOMAIN w = Fields /\ p \in Inner(w) /\ p \in N(w)
         /\ K(w, p) \in Seq(Int) /\ S(w, p) \in Seq(N(w)) /\ Len(S(w, p)) = Len(K(w, p)) + 1
         /\ a \in 1..Len(S(w, p)) /\ a + 1 \in 1..Len(S(w, p)) /\ sep \in Int
         /\ P(w, l) = p /\ P(w, r) = p /\ P(w, p) # r /\ P(w, p) # l
         /\ l # w.root /\ r # w.root /\ P(w, w.root) = NULL
         /\ (is_leaf(w, l) <=> is_leaf(w, r))
         /\ R[l] = Route(K(w, p), R[p], a) /\ R[r] = Route(K(w, p), R[p], a + 1)
         /\ h[l] = h[p] - 1 /\ h[r] = h[p] - 1 /\ h[p] \in 1..w.level
  <1>1. Formed(w) /\ Heights(w, h) /\ Parents(w) /\ p \in Inner(w) /\ a \in 1..Len(K(w, p))
        /\ S(w, p)[a] = l /\ S(w, p)[a + 1] = r /\ sep = K(w, p)[a] /\ l # r
        /\ l \in N(w) /\ r \in N(w)
    BY DEF TreeInv, Neighbours
  <1>2. /\ DOMAIN w = Fields /\ p \in N(w) /\ K(w, p) \in Seq(Int)
        /\ S(w, p) \in Seq(N(w)) /\ Len(S(w, p)) = Len(K(w, p)) + 1
    BY <1>1, FormedFields DEF Inner
  <1>3. a \in 1..Len(S(w, p)) /\ a + 1 \in 1..Len(S(w, p)) /\ sep \in Int
    BY <1>1, <1>2
  <1>4. /\ l # w.root /\ P(w, l) = p /\ h[l] = h[p] - 1 /\ h[p] \in 1..w.level
        /\ R[l] = Route(K(w, p), R[p], a)
    BY <1>1, <1>3, ChildFacts
  <1>5. /\ r # w.root /\ P(w, r) = p /\ h[r] = h[p] - 1
        /\ R[r] = Route(K(w, p), R[p], a + 1)
    BY <1>1, <1>3, ChildFacts
  <1>6. is_leaf(w, l) <=> is_leaf(w, r)
    BY <1>1, <1>4, <1>5 DEF Heights
  <1>7. P(w, p) # r /\ P(w, p) # l
    <2>1. ASSUME NEW q \in {l, r}, P(w, p) = q PROVE FALSE
      <3>1. NULL \notin N(w)
        BY <1>1 DEF Formed, NULL
      <3>2. q \in N(w) /\ p # w.root
        BY <1>1, <2>1, <3>1 DEF Parents
      <3>3. Owned(w, p)
        BY <1>1, <1>2, <3>2 DEF Parents
      <3>4. q \in Inner(w) /\ X(w, p) + 2 \in 1..Len(S(w, q)) /\ S(w, q)[X(w, p) + 2] = p
        BY <2>1, <3>3 DEF Owned
      <3>5. h[p] = h[q] - 1
        BY <1>1, <3>4 DEF Heights
      <3>6. h[q] = h[p] - 1 /\ h[p] \in Int
        BY <1>4, <1>5, <2>1
      <3> QED  BY <3>5, <3>6
    <2> QED  BY <2>1
  <1>8. P(w, w.root) = NULL
    BY <1>1 DEF Parents
  <1> QED  BY <1>1, <1>2, <1>3, <1>4, <1>5, <1>6, <1>7, <1>8

\* The parent after the merge is well formed but for the child that is gone.
LEMMA MergingLoose ==
  ASSUME NEW w, NEW h, NEW R, NEW u, NEW p, NEW a, NEW l, NEW r, NEW c, NEW sep,
         TreeInv(w, h, R), Merging(w, u, p, a, l, r, c, sep), w.ok = TRUE
  PROVE  Loose(u, p, a)
  <1>1. /\ Neighbours(w, p, a, l, r, sep) /\ Frame(w, u) /\ N(u) = N(w) \ {r}
        /\ \A m \in N(u) \ {l} : Same(w, u, m)
        /\ \A m \in N(u) \ {p} : NodeFormed(u, m)
        /\ DOMAIN u.node[p] = InnerFields
        /\ \A m \in N(u) : P(w, m) # r => P(u, m) = P(w, m) /\ X(u, m) = X(w, m)
    BY DEF Merging
  <1>2. /\ Formed(w) /\ DOMAIN w = Fields /\ p \in Inner(w) /\ p \in N(w)
        /\ K(w, p) \in Seq(Int) /\ S(w, p) \in Seq(N(w)) /\ Len(S(w, p)) = Len(K(w, p)) + 1
        /\ a \in 1..Len(S(w, p)) /\ a + 1 \in 1..Len(S(w, p))
        /\ P(w, p) # r /\ r # w.root
    BY <1>1, NeighbourFacts
  <1>3. p # l /\ p # r /\ a \in 1..Len(K(w, p)) /\ S(w, p)[a + 1] = r /\ ~is_leaf(w, p)
    BY <1>1 DEF Neighbours, Inner
  <1>4. Same(w, u, p)
    BY <1>1, <1>2, <1>3
  <1>5. K(u, p) = K(w, p) /\ S(u, p) = S(w, p) /\ ~is_leaf(u, p)
    BY <1>3, <1>4 DEF Same
  <1>6. /\ DOMAIN u = Fields /\ N(u) \subseteq Nat \ {0} /\ IsFiniteSet(N(u))
        /\ u.level \in Nat /\ u.root \in N(u) /\ u.ok = TRUE
    <2>1. N(w) \subseteq Nat \ {0} /\ IsFiniteSet(N(w)) /\ w.level \in Nat /\ w.root \in N(w)
      BY <1>2 DEF Formed
    <2>2. IsFiniteSet(N(w) \ {r})
      BY <2>1, FS_Difference
    <2> QED  BY <1>1, <1>2, <2>1, <2>2 DEF Frame
  <1>7. P(u, p) \in N(u) \cup {NULL} /\ X(u, p) \in Int
    <2>1. P(w, p) \in N(w) \cup {NULL} /\ X(w, p) \in Int
      BY <1>2, FormedFields
    <2>2. p \in N(u)
      BY <1>1, <1>2, <1>3
    <2> QED  BY <1>1, <1>2, <2>1, <2>2
  <1> DEFINE subs == Without(S(u, p), a)
  <1>8. subs \in Seq(N(w)) /\ Lost(S(w, p), a + 1, subs)
    <2>1. a \in 0..(Len(S(w, p)) - 1)
      BY <1>2, <1>3
    <2> QED  BY <1>2, <1>5, <2>1, WithoutFact
  <1> HIDE DEF subs
  <1> DEFINE old(j) == IF j < a + 1 THEN j ELSE j + 1
  <1>9. ASSUME NEW j \in 1..Len(subs)
        PROVE  old(j) \in 1..Len(S(w, p)) /\ old(j) # a + 1 /\ subs[j] = S(w, p)[old(j)]
    <2>1. Len(subs) = Len(S(w, p)) - 1 /\ Len(S(w, p)) \in Nat
      BY <1>2, <1>8 DEF Lost
    <2>2. j \in 1..(Len(S(w, p)) - 1) /\ old(j) \in 1..Len(S(w, p)) /\ old(j) # a + 1
      BY <1>2, <2>1
    <2>3. subs[j] = IF j < a + 1 THEN S(w, p)[j] ELSE S(w, p)[j + 1]
      BY <1>8, <2>2 DEF Lost
    <2> QED  BY <2>2, <2>3
  <1>10. ASSUME NEW i \in 1..Len(S(w, p)), NEW j \in 1..Len(S(w, p)), S(w, p)[i] = S(w, p)[j]
         PROVE  i = j
    BY <1>2, <1>10, ChildOnce
  <1>11. subs \in Seq(N(u))
    <2>1. ASSUME NEW j \in 1..Len(subs) PROVE subs[j] \in N(u)
      <3>1. old(j) \in 1..Len(S(w, p)) /\ old(j) # a + 1 /\ subs[j] = S(w, p)[old(j)]
        BY <1>9
      <3> HIDE DEF old
      <3>2. S(w, p)[old(j)] \in N(w)
        BY <1>2, <3>1
      <3>3. S(w, p)[old(j)] # r
        BY <1>2, <1>3, <1>10, <3>1
      <3> QED  BY <1>1, <3>1, <3>2, <3>3
    <2>2. Len(subs) \in Nat /\ subs = [j \in 1..Len(subs) |-> subs[j]]
      BY <1>8
    <2> QED  BY <2>1, <2>2
  <1>12. ASSUME NEW i \in 1..Len(subs), NEW j \in 1..Len(subs), subs[i] = subs[j]
         PROVE  i = j
    <2>1. old(i) \in 1..Len(S(w, p)) /\ subs[i] = S(w, p)[old(i)]
          /\ old(j) \in 1..Len(S(w, p)) /\ subs[j] = S(w, p)[old(j)]
      BY <1>9
    <2>2. old(i) = old(j)
      <3> HIDE DEF old
      <3> QED  BY <1>10, <1>12, <2>1
    <2> QED  BY <2>2, <1>2
  <1>13. S(u, p) \in Seq(Int)
    <2>1. N(w) \subseteq Int
      BY <1>2 DEF Formed
    <2> QED  BY <1>2, <1>5, <2>1, SeqWider
  <1>14. p \in N(u)
    BY <1>1, <1>2, <1>3
  <1>15. \A i, j \in 1..Len(subs) : subs[i] = subs[j] => i = j
    BY <1>12
  <1> QED  BY <1>1, <1>2, <1>3, <1>5, <1>6, <1>7, <1>11, <1>13, <1>14, <1>15 DEF Loose, subs

\* The circumstances of a merge: the tree before, and after its first half.
MergingIn(w, h, R, u, p, a, l, r, c, sep) ==
  TreeInv(w, h, R) /\ Merging(w, u, p, a, l, r, c, sep) /\ w.ok = TRUE

\* What is left for the parent is to lose the separator and the child.
LEMMA MergingOut ==
  ASSUME NEW w, NEW h, NEW R, NEW u, NEW p, NEW a, NEW l, NEW r, NEW c, NEW sep,
         MergingIn(w, h, R, u, p, a, l, r, c, sep)
  PROVE  Gap(u, non_leaf_simple_remove(u, p, a - 1), p, a)
  <1> DEFINE v == non_leaf_simple_remove(u, p, a - 1)
  <1>0. TreeInv(w, h, R) /\ Merging(w, u, p, a, l, r, c, sep) /\ w.ok = TRUE
    BY DEF MergingIn
  <1>1. Loose(u, p, a)
    BY <1>0, MergingLoose
  <1>2. PairOut(u, v, p, a)
    BY <1>1, PairOutFact
  <1> HIDE DEF v
  <1>3. /\ Neighbours(w, p, a, l, r, sep) /\ N(u) = N(w) \ {r}
        /\ \A m \in N(u) \ {l} : Same(w, u, m)
        /\ \A m \in N(u) : P(w, m) # r => X(u, m) = X(w, m)
    BY <1>0 DEF Merging
  <1>4. /\ p \in Inner(w) /\ p \in N(w) /\ Len(S(w, p)) \in Nat
        /\ a \in 1..Len(S(w, p)) /\ p # l /\ p # r /\ S(w, p)[a + 1] = r /\ a + 1 \in 1..Len(S(w, p))
    BY <1>0, <1>3, NeighbourFacts DEF Neighbours
  <1>5. S(u, p) = S(w, p)
    BY <1>3, <1>4 DEF Same, Inner
  <1>6. Lost(S(w, p), a + 1, S(v, p))
    BY <1>2, <1>5 DEF PairOut
  <1>7. ASSUME NEW j \in 1..Len(S(v, p))
        PROVE  X(u, S(v, p)[j]) = IF j <= a THEN j - 2 ELSE j - 1
    <2> DEFINE i == IF j < a + 1 THEN j ELSE j + 1
    <2>1. Len(S(v, p)) = Len(S(w, p)) - 1
      BY <1>6 DEF Lost
    <2>2. j \in 1..(Len(S(w, p)) - 1) /\ i \in 1..Len(S(w, p)) /\ i # a + 1
          /\ i - 2 = IF j <= a THEN j - 2 ELSE j - 1
      BY <1>4, <2>1
    <2>3. S(v, p)[j] = S(w, p)[i]
      BY <1>6, <2>2 DEF Lost
    <2> HIDE DEF i
    <2>4. S(w, p)[i] \in N(w) /\ P(w, S(w, p)[i]) = p /\ X(w, S(w, p)[i]) = i - 2
      BY <1>0, <1>4, <2>2, ChildFacts
    <2>5. S(w, p)[i] # r
      BY <1>0, <1>4, <2>2, ChildOnce
    <2>6. X(u, S(w, p)[i]) = X(w, S(w, p)[i])
      BY <1>3, <1>4, <2>4, <2>5
    <2> QED  BY <2>2, <2>3, <2>4, <2>6
  <1>8. Gap(u, v, p, a)
    BY <1>1, <1>2, <1>7 DEF Gap
  <1> QED  BY <1>8 DEF v

\* With that the merge is a split read backwards.
LEMMA MergingBody ==
  ASSUME NEW w, NEW h, NEW R, NEW u, NEW p, NEW a, NEW l, NEW r, NEW c, NEW sep, NEW v,
         MergingIn(w, h, R, u, p, a, l, r, c, sep), PairOut(u, v, p, a)
  PROVE  SplitBody(v, w, p, a, l, l, r, c, sep)
  <1>0. TreeInv(w, h, R) /\ Merging(w, u, p, a, l, r, c, sep) /\ w.ok = TRUE
    BY DEF MergingIn
  <1>1. /\ Neighbours(w, p, a, l, r, sep) /\ Frame(w, u) /\ N(u) = N(w) \ {r}
        /\ \A m \in N(u) \ {l} : Same(w, u, m)
        /\ IF is_leaf(w, l) THEN MergedLeaf(w, u, l, r, c) ELSE MergedInner(w, u, l, r, c, sep)
    BY <1>0 DEF Merging
  <1>2. /\ Formed(w) /\ p \in Inner(w) /\ p \in N(w)
        /\ K(w, p) \in Seq(Int) /\ S(w, p) \in Seq(N(w)) /\ Len(S(w, p)) = Len(K(w, p)) + 1
        /\ a \in 1..Len(S(w, p)) /\ a + 1 \in 1..Len(S(w, p)) /\ sep \in Int
        /\ l # w.root /\ r # w.root
        /\ (is_leaf(w, l) <=> is_leaf(w, r))
        /\ R[l] = Route(K(w, p), R[p], a) /\ R[r] = Route(K(w, p), R[p], a + 1)
    BY <1>0, <1>1, NeighbourFacts
  <1>3. /\ l # r /\ l \in N(w) /\ r \in N(w) /\ p # l /\ p # r /\ a \in 1..Len(K(w, p))
        /\ K(w, p)[a] = sep /\ S(w, p)[a] = l /\ S(w, p)[a + 1] = r
    BY <1>1 DEF Neighbours
  <1>4. /\ Frame(u, v) /\ N(v) = N(u) /\ Formed(v) /\ ~is_leaf(v, p)
        /\ Lost(K(u, p), a, K(v, p)) /\ Lost(S(u, p), a + 1, S(v, p))
        /\ \A m \in N(u) \ {p} : Same(u, v, m)
    BY DEF PairOut
  <1>5. K(u, p) = K(w, p) /\ S(u, p) = S(w, p)
    BY <1>1, <1>2, <1>3 DEF Same, Inner
  <1>6. p \in N(v) /\ p \in Inner(v) /\ l \in N(v) /\ r \notin N(v)
    BY <1>1, <1>2, <1>3, <1>4 DEF Inner
  <1>7. K(v, p) \in Seq(Int) /\ S(v, p) \in Seq(N(v)) /\ S(v, p) \in Seq(N(w))
    <2>1. K(v, p) \in Seq(Int) /\ S(v, p) \in Seq(N(v))
      BY <1>4, <1>6, FormedFields
    <2>2. N(v) \subseteq N(w)
      BY <1>1, <1>4
    <2> QED  BY <2>1, <2>2, SeqWider
  <1>8. Entered(K(v, p), a, sep, K(w, p))
    BY <1>2, <1>3, <1>4, <1>5, <1>7, LostEntered
  <1>9. Paired(S(v, p), a, l, r, S(w, p)) /\ S(v, p)[a] = l /\ a \in 1..Len(S(v, p))
    <2>1. a \in Nat /\ a >= 1 /\ a + 1 <= Len(S(w, p)) /\ Lost(S(w, p), a + 1, S(v, p))
      BY <1>2, <1>4, <1>5
    <2>2. /\ Paired(S(v, p), a, S(w, p)[a], S(w, p)[a + 1], S(w, p))
          /\ S(v, p)[a] = S(w, p)[a] /\ a \in 1..Len(S(v, p))
      <3>1. S(w, p) \in Seq(N(w)) /\ S(v, p) \in Seq(N(w))
        BY <1>2, <1>7
      <3> DEFINE sw == S(w, p)
                 sv == S(v, p)
                 A == N(w)
      <3>2. sw \in Seq(A) /\ sv \in Seq(A) /\ a \in Nat /\ a >= 1 /\ a + 1 <= Len(sw) /\ Lost(sw, a + 1, sv)
        BY <2>1, <3>1
      <3> HIDE DEF sw, sv, A
      <3>3. Paired(sv, a, sw[a], sw[a + 1], sw) /\ sv[a] = sw[a] /\ a \in 1..Len(sv)
        BY <3>2, LostPaired
      <3> QED  BY <3>3 DEF sw, sv
    <2> QED  BY <1>3, <2>2
  <1>10. v.root = w.root /\ v.level = w.level
    BY <1>1, <1>4 DEF Frame
  <1>11. N(w) = N(v) \cup {l, r} /\ N(v) \cap {l, r} = {l}
    BY <1>1, <1>3, <1>4, <1>6
  <1>12. ASSUME NEW m \in N(v) \ {p, l, r} PROVE Same(v, w, m)
    <2>1. Same(w, u, m) /\ Same(u, v, m)
      BY <1>1, <1>4
    <2> QED  BY <2>1, SameTrans, SameSym
  <1>13. Same(u, v, l)
    BY <1>3, <1>4, <1>6
  <1>14. ASSUME is_leaf(v, l)
         PROVE  /\ is_leaf(w, l) /\ is_leaf(w, r)
                /\ c \in 0..Len(K(v, l))
                /\ Cut(K(v, l), c, c, K(w, l), K(w, r))
                /\ Cut(D(v, l), c, c, D(w, l), D(w, r))
                /\ \A j \in 1..c : K(v, l)[j] < sep
                /\ \A j \in (c + 1)..Len(K(v, l)) : sep <= K(v, l)[j]
    <2>1. is_leaf(u, l)
      BY <1>13, <1>14 DEF Same
    <2>2. is_leaf(w, l) /\ is_leaf(w, r) /\ MergedLeaf(w, u, l, r, c)
      BY <1>1, <1>2, <2>1 DEF MergedInner
    <2>3. K(v, l) = K(u, l) /\ D(v, l) = D(u, l)
      BY <1>13, <2>1 DEF Same
    <2>4. /\ c \in 0..Len(K(v, l)) /\ Cut(K(v, l), c, c, K(w, l), K(w, r))
          /\ Cut(D(v, l), c, c, D(w, l), D(w, r))
      BY <2>2, <2>3 DEF MergedLeaf
    <2>5. /\ \A i \in 1..Len(K(w, l)) : K(w, l)[i] \in R[l]
          /\ \A i \in 1..Len(K(w, r)) : K(w, r)[i] \in R[r]
      BY <1>0, <1>3, <2>2 DEF TreeInv, Routes, Leafs
    <2>6. /\ \A k \in R[l] : k < sep
          /\ \A k \in R[r] : sep <= k
      BY <1>2, <1>3 DEF Route
    <2>7. K(v, l) \in Seq(Int)
      BY <1>4, <1>6, FormedFields
    <2>8. ASSUME NEW j \in 1..c PROVE K(v, l)[j] < sep
      <3>1. j \in 1..Len(K(w, l)) /\ K(w, l)[j] = K(v, l)[j]
        BY <2>4 DEF Cut
      <3> QED  BY <2>5, <2>6, <3>1
    <2>9. ASSUME NEW j \in (c + 1)..Len(K(v, l)) PROVE sep <= K(v, l)[j]
      <3>1. j - c \in 1..(Len(K(v, l)) - c) /\ c + (j - c) = j
        BY <2>4, <2>7
      <3>2. j - c \in 1..Len(K(w, r)) /\ K(w, r)[j - c] = K(v, l)[c + (j - c)]
        BY <2>4, <3>1 DEF Cut
      <3>3. K(w, r)[j - c] \in R[r]
        BY <2>5, <3>2
      <3> QED  BY <2>6, <3>1, <3>2, <3>3
    <2> QED  BY <2>2, <2>4, <2>8, <2>9
  <1>15. ASSUME ~is_leaf(v, l)
         PROVE  /\ ~is_leaf(w, l) /\ ~is_leaf(w, r)
                /\ c \in 1..Len(K(v, l)) /\ sep = K(v, l)[c]
                /\ Cut(K(v, l), c - 1, c, K(w, l), K(w, r))
                /\ Cut(S(v, l), c, c, S(w, l), S(w, r))
    <2>1. ~is_leaf(u, l)
      BY <1>13, <1>15 DEF Same
    <2>2. ~is_leaf(w, l) /\ ~is_leaf(w, r) /\ MergedInner(w, u, l, r, c, sep)
      BY <1>1, <1>2, <2>1 DEF MergedLeaf
    <2>3. K(v, l) = K(u, l) /\ S(v, l) = S(u, l)
      BY <1>13, <2>1 DEF Same
    <2> QED  BY <2>2, <2>3 DEF MergedInner
  <1> QED  BY <1>2, <1>3, <1>6, <1>8, <1>9, <1>10, <1>11, <1>12, <1>14, <1>15 DEF SplitBody

\* And the children concerned know where they are.
LEMMA MergingBacks ==
  ASSUME NEW w, NEW h, NEW R, NEW u, NEW p, NEW a, NEW l, NEW r, NEW c, NEW sep, NEW v,
         MergingIn(w, h, R, u, p, a, l, r, c, sep), PairOut(u, v, p, a)
  PROVE  MergeBacks(v, w, p, l)
  <1>0. TreeInv(w, h, R) /\ Merging(w, u, p, a, l, r, c, sep) /\ w.ok = TRUE
    BY DEF MergingIn
  <1>1. /\ Neighbours(w, p, a, l, r, sep) /\ Frame(w, u) /\ N(u) = N(w) \ {r}
        /\ \A m \in N(u) \ {l} : Same(w, u, m)
        /\ \A m \in N(u) : P(w, m) # r => P(u, m) = P(w, m) /\ X(u, m) = X(w, m)
        /\ IF is_leaf(w, l) THEN MergedLeaf(w, u, l, r, c) ELSE MergedInner(w, u, l, r, c, sep)
    BY <1>0 DEF Merging
  <1>2. /\ Formed(w) /\ p \in Inner(w) /\ p \in N(w) /\ Len(S(w, p)) \in Nat
        /\ a \in 1..Len(S(w, p)) /\ a + 1 \in 1..Len(S(w, p))
        /\ r # w.root /\ P(w, w.root) = NULL /\ l # r /\ r \in N(w) /\ p # l /\ p # r
        /\ S(w, p)[a + 1] = r
    BY <1>0, <1>1, NeighbourFacts DEF Neighbours
  <1>4. /\ Frame(u, v) /\ N(v) = N(u) /\ Formed(v)
        /\ Lost(S(u, p), a + 1, S(v, p))
        /\ \A m \in N(u) \ {p} : Same(u, v, m)
        /\ \A m \in N(u) : P(v, m) = P(u, m)
        /\ \A m \in N(u) : (\A i \in (a + 1)..Len(S(v, p)) : S(v, p)[i] # m) => X(v, m) = X(u, m)
        /\ \A i \in (a + 1)..Len(S(v, p)) : X(v, S(v, p)[i]) = i - 2
    BY DEF PairOut
  <1>5. S(u, p) = S(w, p)
    BY <1>1, <1>2 DEF Same, Inner
  <1>6. Lost(S(w, p), a + 1, S(v, p)) /\ Len(S(v, p)) = Len(S(w, p)) - 1
    BY <1>4, <1>5 DEF Lost
  \* The children of p.
  <1>7. ASSUME NEW j \in 1..Len(S(v, p))
        PROVE  LET m == S(v, p)[j] IN m \in N(u) /\ P(u, m) = p /\ X(v, m) = j - 2
    <2> DEFINE i == IF j < a + 1 THEN j ELSE j + 1
    <2>2. j \in 1..(Len(S(w, p)) - 1) /\ i \in 1..Len(S(w, p)) /\ i # a + 1
          /\ (j < a + 1 => i = j)
      BY <1>2, <1>6
    <2>3. S(v, p)[j] = S(w, p)[i]
      BY <1>6, <2>2 DEF Lost
    <2> HIDE DEF i
    <2>4. S(w, p)[i] \in N(w) /\ P(w, S(w, p)[i]) = p /\ X(w, S(w, p)[i]) = i - 2
      BY <1>0, <1>2, <2>2, ChildFacts
    <2>5. S(w, p)[i] # r
      BY <1>0, <1>2, <2>2, ChildOnce
    <2>6. S(v, p)[j] \in N(u) /\ P(u, S(v, p)[j]) = p /\ X(u, S(v, p)[j]) = i - 2
      BY <1>1, <1>2, <2>3, <2>4, <2>5
    <2>7. CASE j >= a + 1
      BY <1>4, <2>6, <2>7
    <2>8. CASE j < a + 1
      <3>1. ASSUME NEW k \in (a + 1)..Len(S(v, p)), S(v, p)[k] = S(v, p)[j] PROVE FALSE
        <4>1. k \in 1..(Len(S(w, p)) - 1) /\ ~(k < a + 1) /\ k + 1 \in 1..Len(S(w, p)) /\ k + 1 # j
          BY <1>2, <1>6, <2>8
        <4>2. S(v, p)[k] = S(w, p)[k + 1]
          BY <1>6, <4>1 DEF Lost
        <4>3. S(w, p)[k + 1] = S(w, p)[j] /\ j \in 1..Len(S(w, p))
          BY <2>2, <2>3, <2>8, <3>1, <4>2
        <4> QED  BY <1>0, <1>2, <4>1, <4>3, ChildOnce
      <3>2. X(v, S(v, p)[j]) = X(u, S(v, p)[j])
        BY <1>4, <2>6, <3>1
      <3> QED  BY <2>2, <2>6, <2>8, <3>2
    <2>9. j >= a + 1 \/ j < a + 1
      BY <1>2
    <2> QED  BY <2>7, <2>8, <2>9
  <1>8. Owns(v, p)
    BY <1>4, <1>7 DEF Owns
  <1>9. ASSUME NEW m \in N(u), P(u, m) # p
        PROVE  P(v, m) = P(u, m) /\ X(v, m) = X(u, m)
    <2>1. \A i \in (a + 1)..Len(S(v, p)) : S(v, p)[i] # m
      <3>1. ASSUME NEW i \in (a + 1)..Len(S(v, p)), S(v, p)[i] = m PROVE FALSE
        <4>1. i \in 1..Len(S(v, p))
          BY <1>2, <1>6
        <4> QED  BY <1>7, <1>9, <3>1, <4>1
      <3> QED  BY <3>1
    <2> QED  BY <1>4, <2>1
  <1>10. ASSUME l \in Inner(v) PROVE Owns(v, l)
    <2>1. l \in N(u) /\ Same(u, v, l) /\ ~is_leaf(v, l)
      BY <1>2, <1>4, <1>10 DEF Inner
    <2>2. S(v, l) = S(u, l) /\ ~is_leaf(u, l)
      BY <2>1 DEF Same
    <2>3. Owns(u, l)
      BY <1>1, <2>2 DEF MergedLeaf, MergedInner
    <2>4. ASSUME NEW i \in 1..Len(S(v, l))
          PROVE  P(v, S(v, l)[i]) = l /\ X(v, S(v, l)[i]) = i - 2
      <3>1. P(u, S(u, l)[i]) = l /\ X(u, S(u, l)[i]) = i - 2
        BY <2>2, <2>3, <2>4 DEF Owns
      <3>2. S(u, l)[i] \in N(u)
        <4>1. S(v, l) \in Seq(N(v))
          BY <1>4, <1>10, FormedFields
        <4> QED  BY <1>4, <2>2, <2>4, <4>1
      <3> QED  BY <1>2, <1>9, <2>2, <3>1, <3>2
    <2> QED  BY <2>4 DEF Owns
  <1>11. ASSUME NEW q \in Inner(v) \ {p, l}, NEW i \in 1..Len(S(v, q))
         PROVE  LET m == S(v, q)[i] IN P(v, m) = P(w, m) /\ X(v, m) = X(w, m)
    <2>1. q \in N(u) /\ Same(u, v, q) /\ Same(w, u, q) /\ ~is_leaf(v, q)
      BY <1>1, <1>4 DEF Inner
    <2>2. S(v, q) = S(w, q) /\ ~is_leaf(w, q) /\ q # r /\ q \in N(w)
      BY <1>1, <2>1 DEF Same
    <2>3. q \in Inner(w)
      BY <2>2 DEF Inner
    <2> DEFINE m == S(v, q)[i]
    <2>4. m \in N(w) /\ P(w, m) = q
      BY <1>0, <2>2, <2>3, ChildFacts
    <2>5. m \in N(u)
      <3>1. S(v, q) \in Seq(N(v))
        BY <1>4, FormedFields
      <3> QED  BY <1>4, <3>1
    <2> HIDE DEF m
    <2>6. P(u, m) = q /\ P(u, m) = P(w, m) /\ X(u, m) = X(w, m)
      BY <1>1, <2>2, <2>4, <2>5
    <2>7. P(v, m) = P(u, m) /\ X(v, m) = X(u, m)
      BY <1>9, <2>5, <2>6
    <2>8. P(v, m) = P(w, m) /\ X(v, m) = X(w, m)
      BY <2>6, <2>7
    <2> QED  BY <2>8 DEF m
  <1>12. P(v, v.root) = NULL
    <2>1. v.root = w.root /\ w.root \in N(w) /\ w.root # r
      BY <1>1, <1>2, <1>4 DEF Frame, Formed
    <2>2. NULL \notin N(w)
      BY <1>2 DEF Formed, NULL
    <2>3. w.root \in N(u) /\ P(w, w.root) # r
      BY <1>1, <1>2, <2>1, <2>2
    <2> QED  BY <1>1, <1>2, <1>4, <2>1, <2>3
  <1> QED  BY <1>8, <1>10, <1>11, <1>12 DEF MergeBacks

-----------------------------------------------------------------------------
\* What the loop of a delete keeps.

\* There is something left to be removed at height h[s.node].
Left(s, o, e, F, h, R) ==
  /\ Sound(s.tree, o, e)
  /\ \E a \in Int :
       /\ s.remove = a - 1
       /\ LET w == non_leaf_simple_remove(s.tree, s.node, a - 1)
          IN /\ Gap(s.tree, w, s.node, a)
             /\ TreeInv(w, h, R) /\ Listed(w) /\ w.level < MaxLevel
             /\ Filed(w) = F

\* There is nothing left to be done.
Settled(s, o, e, F) ==
  /\ s.node = NULL
  /\ TreeState(s.tree) /\ s.tree.order = o /\ s.tree.entries = e
  /\ Filed(s.tree) = F

\* Either, and what is left is at height i or higher.
Lowering(s, o, e, F, level, i) ==
  \/ Settled(s, o, e, F)
  \/ \E h, R : Left(s, o, e, F, h, R) /\ h[s.node] >= i /\ s.tree.level = level

\* A tree with capacities o and e whose nodes but l and r hold what they must.
Short(w, h, R, l, r, o, e) ==
  /\ TreeInv(w, h, R) /\ Listed(w) /\ w.level < MaxLevel
  /\ w.ok = TRUE /\ w.order = o /\ w.entries = e
  /\ o \in Nat \ 0..2 /\ e \in Nat \ {0}
  /\ \A m \in N(w) \ {l, r} : Fill(w, m)

\* A node that holds the same holds as much.
LEMMA SameFill ==
  ASSUME NEW w, NEW u, NEW m, Same(w, u, m), Fill(w, m),
         u.order = w.order, u.entries = w.entries, u.root = w.root
  PROVE  Fill(u, m)
  BY DEF Same, Fill, FullFill

\* A tree that is a tree and whose nodes hold what they must is done.
LEMMA DoneFact ==
  ASSUME NEW u, NEW h, NEW R, TreeInv(u, h, R), Listed(u), NEW o, NEW e, Sound(u, o, e)
  PROVE  Settled(Removed(u), o, e, Filed(u))
  <1>1. Sound(u, u.order, u.entries) /\ u.order = o /\ u.entries = e
    BY DEF Sound
  <1>2. TreeState(u)
    BY <1>1 DEF TreeState, Grown, InLists
  <1> QED  BY <1>1, <1>2 DEF Settled, Removed

\* Two neighbours merged: the tree behind the gap, and its lists.
LEMMA MergingTree ==
  ASSUME NEW w, NEW h, NEW R, NEW u, NEW p, NEW a, NEW l, NEW r, NEW c, NEW sep, NEW v,
         MergingIn(w, h, R, u, p, a, l, r, c, sep), PairOut(u, v, p, a),
         Listed(w), w.level < MaxLevel
  PROVE  /\ TreeInv(v, MergeHeight(v, h, l, l), MergeRange(v, R, l, l, r)) /\ Listed(v)
         /\ Joined(v.link, w.link, l, l, r) /\ Filed(v) = Filed(w)
         /\ SplitBody(v, w, p, a, l, l, r, c, sep) /\ MergeBacks(v, w, p, l)
         /\ v.level = w.level /\ Formed(v)
  <1>1. SplitBody(v, w, p, a, l, l, r, c, sep) /\ MergeBacks(v, w, p, l)
    BY MergingBody, MergingBacks
  <1>2. TreeInv(w, h, R) /\ Merging(w, u, p, a, l, r, c, sep) /\ Formed(w)
    BY DEF MergingIn, TreeInv
  <1>3. Formed(v) /\ v.link = u.link
    BY DEF PairOut
  <1>4. TreeInv(v, MergeHeight(v, h, l, l), MergeRange(v, R, l, l, r))
    BY <1>1, <1>2, <1>3, MergeKeeps
  <1>5. v.link = Dropped(w.link, r) /\ Neighbours(w, p, a, l, r, sep)
    BY <1>2, <1>3 DEF Merging
  <1>6. Ring(w.link) /\ DOMAIN w.link = N(w) \cup ListHeads /\ Strung(w)
    BY DEF Listed
  <1>7. /\ p \in Inner(w) /\ a \in 1..(Len(S(w, p)) - 1) /\ S(w, p)[a] = l /\ S(w, p)[a + 1] = r
        /\ l # r /\ l \in N(w)
    <2>1. Len(S(w, p)) = Len(K(w, p)) + 1 /\ K(w, p) \in Seq(Int)
      BY <1>2, <1>5, NeighbourFacts
    <2> QED  BY <1>5, <2>1 DEF Neighbours
  <1>8. w.link[l].next = r /\ l \in DOMAIN w.link
    BY <1>6, <1>7 DEF Strung, Nx
  <1>9. Joined(Dropped(w.link, r), w.link, l, l, r)
    BY <1>6, <1>7, <1>8, JoinedDropped
  <1>10. Joined(v.link, w.link, l, l, r)
    BY <1>5, <1>9
  <1>11. Listed(v)
    BY <1>1, <1>2, <1>3, <1>10, MergeListed
  <1>12. Filed(v) = Filed(w)
    BY <1>1, <1>2, <1>3, SplitFiled
  <1>13. v.level = w.level
    BY <1>1 DEF SplitBody
  <1> QED  BY <1>1, <1>3, <1>4, <1>10, <1>11, <1>12, <1>13

\* Two neighbours merged: there is something left to be removed above them.
LEMMA MergingLowers ==
  ASSUME NEW w, NEW h, NEW R, NEW u, NEW p, NEW a, NEW l, NEW r, NEW c, NEW sep, NEW o, NEW e,
         Short(w, h, R, l, r, o, e), Merging(w, u, p, a, l, r, c, sep), FullFill(u, l)
  PROVE  Lowering(RemoveFrom(u, p, a - 1), o, e, Filed(w), w.level, h[l] + 1)
  <1> DEFINE v == non_leaf_simple_remove(u, p, a - 1)
             g == MergeHeight(v, h, l, l)
             Q == MergeRange(v, R, l, l, r)
             s == RemoveFrom(u, p, a - 1)
  <1>1. /\ TreeInv(w, h, R) /\ Listed(w) /\ w.level < MaxLevel
        /\ w.ok = TRUE /\ w.order = o /\ w.entries = e
        /\ o \in Nat \ 0..2 /\ e \in Nat \ {0}
        /\ \A m \in N(w) \ {l, r} : Fill(w, m)
    BY DEF Short
  <1>2. MergingIn(w, h, R, u, p, a, l, r, c, sep)
    BY <1>1 DEF MergingIn
  <1>3. Gap(u, v, p, a)
    BY <1>2, MergingOut
  <1>11. s.tree = u /\ s.node = p /\ s.remove = a - 1
    BY DEF RemoveFrom
  <1>12. v = non_leaf_simple_remove(s.tree, s.node, a - 1)
    BY <1>11
  <1> HIDE DEF v, s
  <1>4. PairOut(u, v, p, a)
    BY <1>3 DEF Gap
  <1>5. /\ TreeInv(v, g, Q) /\ Listed(v) /\ Filed(v) = Filed(w) /\ v.level = w.level
    BY <1>1, <1>2, <1>4, MergingTree
  <1>6. /\ Neighbours(w, p, a, l, r, sep) /\ Frame(w, u) /\ N(u) = N(w) \ {r}
        /\ u.link = Dropped(w.link, r)
        /\ \A m \in N(u) \ {l} : Same(w, u, m)
    BY DEF Merging
  <1>7. /\ p \in N(w) /\ p # l /\ p # r /\ a \in Int /\ r \in N(w) /\ r # l
        /\ h[l] = h[p] - 1 /\ h[p] \in Int
    BY <1>1, <1>6, NeighbourFacts DEF Neighbours
  <1>8. Sound(u, o, e)
    <2>1. u.ok = TRUE /\ u.order = o /\ u.entries = e /\ u.root = w.root
      BY <1>1, <1>6 DEF Frame
    <2>2. DOMAIN u.link = N(u) \cup ListHeads
      <3>1. DOMAIN u.link = DOMAIN w.link \ {r}
        BY <1>6 DEF Dropped
      <3>2. r \notin ListHeads
        BY <1>1, <1>7, HeadsApart DEF TreeInv
      <3> QED  BY <1>1, <1>6, <3>1, <3>2 DEF Listed
    <2>3. ASSUME NEW m \in N(u) PROVE Fill(u, m)
      <3>1. CASE m = l
        BY <3>1 DEF Fill
      <3>2. CASE m # l
        <4>1. Same(w, u, m) /\ Fill(w, m)
          BY <1>1, <1>6, <3>2
        <4> QED  BY <1>1, <2>1, <4>1, SameFill
      <3> QED  BY <3>1, <3>2
    <2> QED  BY <1>1, <2>1, <2>2, <2>3 DEF Sound
  <1>9. g[p] = h[p]
    <2>1. p \in N(v)
      BY <1>4, <1>6, <1>7 DEF PairOut
    <2> QED  BY <1>7, <2>1 DEF MergeHeight
  <1>10. u.level = w.level
    BY <1>6 DEF Frame
  <1> HIDE DEF g, Q
  <1>13. /\ Gap(s.tree, v, s.node, a) /\ Sound(s.tree, o, e)
    BY <1>3, <1>8, <1>11
  <1>14. Left(s, o, e, Filed(w), g, Q)
    BY <1>1, <1>5, <1>7, <1>11, <1>12, <1>13 DEF Left
  <1>15. g[s.node] >= h[l] + 1 /\ s.tree.level = w.level
    BY <1>7, <1>9, <1>10, <1>11
  <1>16. Lowering(s, o, e, Filed(w), w.level, h[l] + 1)
    BY <1>14, <1>15 DEF Lowering
  <1> QED  BY <1>16 DEF s

-----------------------------------------------------------------------------
\* An entry or a child moves from one neighbour to the other.

\* u is w with other contents in l and r and another separator between them.
Shifting(w, u, p, a, l, r, sep2) ==
  /\ Frame(w, u) /\ N(u) = N(w) /\ u.link = w.link
  /\ ~is_leaf(u, p) /\ K(u, p) = SetAt(K(w, p), a - 1, sep2) /\ S(u, p) = S(w, p)
  /\ \A m \in N(w) \ {p, l, r} : Same(w, u, m)
  /\ \A m \in N(w) : NodeFormed(u, m)
  /\ \A m \in N(w) : P(w, m) \notin {l, r} => P(u, m) = P(w, m) /\ X(u, m) = X(w, m)

\* What l and r hold is the contents of the merged node x of v, cut elsewhere.
ShiftedLeaf(v, u, l, r, c, sep) ==
  /\ is_leaf(u, l) /\ is_leaf(u, r)
  /\ c \in 1..(Len(K(v, l)) - 1) /\ sep = K(v, l)[c + 1]
  /\ Cut(K(v, l), c, c, K(u, l), K(u, r)) /\ Cut(D(v, l), c, c, D(u, l), D(u, r))
ShiftedInner(v, u, l, r, c, sep) ==
  /\ ~is_leaf(u, l) /\ ~is_leaf(u, r)
  /\ c \in 1..Len(K(v, l)) /\ sep = K(v, l)[c]
  /\ Cut(K(v, l), c - 1, c, K(u, l), K(u, r)) /\ Cut(S(v, l), c, c, S(u, l), S(u, r))
  /\ Owns(u, l) /\ Owns(u, r)
Shifted(v, u, l, r, c, sep) ==
  IF is_leaf(v, l) THEN ShiftedLeaf(v, u, l, r, c, sep) ELSE ShiftedInner(v, u, l, r, c, sep)

\* A merge whose result is split again, elsewhere.
Shift(w, h, R, u0, v, u, p, a, l, r, c, sep, c2, sep2) ==
  /\ MergingIn(w, h, R, u0, p, a, l, r, c, sep) /\ PairOut(u0, v, p, a)
  /\ Listed(w) /\ w.level < MaxLevel
  /\ Shifting(w, u, p, a, l, r, sep2) /\ Shifted(u0, u, l, r, c2, sep2)

\* What is known of the merged node.
LEMMA ShiftFacts ==
  ASSUME NEW w, NEW h, NEW R, NEW u0, NEW v, NEW u, NEW p, NEW a, NEW l, NEW r,
         NEW c, NEW sep, NEW c2, NEW sep2,
         Shift(w, h, R, u0, v, u, p, a, l, r, c, sep, c2, sep2)
  PROVE  /\ TreeInv(v, MergeHeight(v, h, l, l), MergeRange(v, R, l, l, r)) /\ Listed(v) /\ Formed(v)
         /\ SplitBody(v, w, p, a, l, l, r, c, sep) /\ MergeBacks(v, w, p, l)
         /\ Joined(v.link, w.link, l, l, r) /\ Filed(v) = Filed(w) /\ v.level = w.level
         /\ Shifting(w, u, p, a, l, r, sep2) /\ Shifted(v, u, l, r, c2, sep2)
         /\ Formed(w) /\ Neighbours(w, p, a, l, r, sep) /\ TreeInv(w, h, R)
         /\ K(w, p) \in Seq(Int) /\ P(w, w.root) = NULL /\ r # w.root
         /\ Listed(w) /\ w.level < MaxLevel /\ P(w, p) # r /\ P(w, p) # l
         /\ (is_leaf(w, l) <=> is_leaf(w, r)) /\ p \in N(w)
  <1>1. /\ MergingIn(w, h, R, u0, p, a, l, r, c, sep) /\ PairOut(u0, v, p, a)
        /\ Listed(w) /\ w.level < MaxLevel
        /\ Shifting(w, u, p, a, l, r, sep2) /\ Shifted(u0, u, l, r, c2, sep2)
    BY DEF Shift
  <1>2. /\ TreeInv(v, MergeHeight(v, h, l, l), MergeRange(v, R, l, l, r)) /\ Listed(v)
        /\ Joined(v.link, w.link, l, l, r) /\ Filed(v) = Filed(w)
        /\ SplitBody(v, w, p, a, l, l, r, c, sep) /\ MergeBacks(v, w, p, l)
        /\ v.level = w.level /\ Formed(v)
    BY <1>1, MergingTree
  <1>3. TreeInv(w, h, R) /\ Merging(w, u0, p, a, l, r, c, sep) /\ Formed(w)
    BY <1>1 DEF MergingIn, TreeInv
  <1>4. Neighbours(w, p, a, l, r, sep) /\ N(u0) = N(w) \ {r}
    BY <1>3 DEF Merging
  <1>5. /\ K(w, p) \in Seq(Int) /\ P(w, w.root) = NULL /\ r # w.root /\ p \in N(w)
        /\ P(w, p) # r /\ P(w, p) # l /\ (is_leaf(w, l) <=> is_leaf(w, r))
    BY <1>3, <1>4, NeighbourFacts
  <1>6. Same(u0, v, l)
    BY <1>1, <1>4 DEF PairOut, Neighbours
  <1>7. Shifted(v, u, l, r, c2, sep2)
    <2>1. CASE is_leaf(u0, l)
      <3>1. is_leaf(v, l) /\ K(v, l) = K(u0, l) /\ D(v, l) = D(u0, l)
        BY <1>6, <2>1 DEF Same
      <3> QED  BY <1>1, <2>1, <3>1 DEF Shifted, ShiftedLeaf
    <2>2. CASE ~is_leaf(u0, l)
      <3>1. ~is_leaf(v, l) /\ K(v, l) = K(u0, l) /\ S(v, l) = S(u0, l)
        BY <1>6, <2>2 DEF Same
      <3> QED  BY <1>1, <2>2, <3>1 DEF Shifted, ShiftedInner
    <2> QED  BY <2>1, <2>2
  <1> QED  BY <1>1, <1>2, <1>3, <1>4, <1>5, <1>7

\* The tree after the shift is well formed.
LEMMA ShiftFormed ==
  ASSUME NEW w, NEW u, NEW p, NEW a, NEW l, NEW r, NEW sep2,
         Formed(w), Shifting(w, u, p, a, l, r, sep2)
  PROVE  Formed(u)
  <1>1. /\ DOMAIN w = Fields /\ N(w) \subseteq Nat \ {0} /\ IsFiniteSet(N(w))
        /\ w.level \in Nat /\ w.root \in N(w)
    BY FormedFields DEF Formed
  <1>2. /\ DOMAIN u = DOMAIN w /\ u.root = w.root /\ u.level = w.level
        /\ N(u) = N(w) /\ \A m \in N(w) : NodeFormed(u, m)
    BY DEF Shifting, Frame
  <1> QED  BY <1>1, <1>2 DEF Formed, Fields

\* The shift is a split of the merged node.
LEMMA ShiftBody ==
  ASSUME NEW w, NEW h, NEW R, NEW u0, NEW v, NEW u, NEW p, NEW a, NEW l, NEW r,
         NEW c, NEW sep, NEW c2, NEW sep2,
         Shift(w, h, R, u0, v, u, p, a, l, r, c, sep, c2, sep2)
  PROVE  SplitBody(v, u, p, a, l, l, r, c2, sep2)
  <1>1. /\ SplitBody(v, w, p, a, l, l, r, c, sep)
        /\ Shifting(w, u, p, a, l, r, sep2) /\ Shifted(v, u, l, r, c2, sep2)
        /\ Formed(w) /\ Formed(v) /\ Neighbours(w, p, a, l, r, sep) /\ K(w, p) \in Seq(Int)
        /\ TreeInv(v, MergeHeight(v, h, l, l), MergeRange(v, R, l, l, r))
    BY ShiftFacts
  <1>2. /\ v.root = w.root /\ v.level = w.level
        /\ l # r /\ N(w) = N(v) \cup {l, r} /\ N(v) \cap {l, r} = {l}
        /\ l # v.root
        /\ p \in Inner(v) /\ p \in Inner(w) /\ p \notin {l, r}
        /\ a \in 1..Len(S(v, p)) /\ S(v, p)[a] = l
        /\ Entered(K(v, p), a, sep, K(w, p))
        /\ Paired(S(v, p), a, l, r, S(w, p))
        /\ \A m \in N(v) \ {p, l, r} : Same(v, w, m)
    BY <1>1 DEF SplitBody
  <1>3. /\ u.root = w.root /\ u.level = w.level /\ N(u) = N(w)
        /\ ~is_leaf(u, p) /\ K(u, p) = SetAt(K(w, p), a - 1, sep2) /\ S(u, p) = S(w, p)
        /\ \A m \in N(w) \ {p, l, r} : Same(w, u, m)
    BY <1>1 DEF Shifting, Frame
  <1>4. p \in Inner(u) /\ a \in 1..Len(K(w, p)) /\ l \in N(v)
    BY <1>1, <1>2, <1>3 DEF Inner, Neighbours
  <1>5. K(v, l) \in Seq(Int) /\ Sorted(K(v, l))
    BY <1>1, <1>4, NodeSorted
  <1>6. sep2 \in Int
    <2>1. CASE is_leaf(v, l)
      <3>1. c2 \in 1..(Len(K(v, l)) - 1) /\ sep2 = K(v, l)[c2 + 1]
        BY <1>1, <2>1 DEF Shifted, ShiftedLeaf
      <3>2. c2 + 1 \in 1..Len(K(v, l))
        BY <1>5, <3>1
      <3> QED  BY <1>5, <3>1, <3>2
    <2>2. CASE ~is_leaf(v, l)
      <3>1. c2 \in 1..Len(K(v, l)) /\ sep2 = K(v, l)[c2]
        BY <1>1, <2>2 DEF Shifted, ShiftedInner
      <3> QED  BY <1>5, <3>1
    <2> QED  BY <2>1, <2>2
  <1>7. Entered(K(v, p), a, sep2, K(u, p))
    <2>1. a - 1 \in 0..(Len(K(w, p)) - 1) /\ (a - 1) + 1 = a
      BY <1>1, <1>4
    <2>2. Entered(K(v, p), (a - 1) + 1, sep, K(w, p))
      BY <1>2, <2>1
    <2>3. Entered(K(v, p), (a - 1) + 1, sep2, SetAt(K(w, p), a - 1, sep2))
      BY <1>1, <1>6, <2>1, <2>2, SetAtFact
    <2> QED  BY <1>3, <2>1, <2>3
  <1>8. ASSUME NEW m \in N(v) \ {p, l, r} PROVE Same(v, u, m)
    <2>1. Same(v, w, m) /\ Same(w, u, m)
      BY <1>2, <1>3
    <2> QED  BY <2>1, SameTrans
  <1>9. ASSUME is_leaf(v, l)
        PROVE  /\ is_leaf(u, l) /\ is_leaf(u, r) /\ c2 \in 0..Len(K(v, l))
               /\ Cut(K(v, l), c2, c2, K(u, l), K(u, r))
               /\ Cut(D(v, l), c2, c2, D(u, l), D(u, r))
               /\ \A j \in 1..c2 : K(v, l)[j] < sep2
               /\ \A j \in (c2 + 1)..Len(K(v, l)) : sep2 <= K(v, l)[j]
    <2>1. ShiftedLeaf(v, u, l, r, c2, sep2)
      BY <1>1, <1>9 DEF Shifted
    <2>2. /\ c2 \in 1..(Len(K(v, l)) - 1) /\ sep2 = K(v, l)[c2 + 1]
          /\ is_leaf(u, l) /\ is_leaf(u, r)
          /\ Cut(K(v, l), c2, c2, K(u, l), K(u, r))
          /\ Cut(D(v, l), c2, c2, D(u, l), D(u, r))
      BY <2>1 DEF ShiftedLeaf
    <2> DEFINE keys == K(v, l)
    <2>3. keys \in Seq(Int) /\ Sorted(keys) /\ c2 \in 1..(Len(keys) - 1) /\ sep2 = keys[c2 + 1]
      BY <1>5, <2>2
    <2> HIDE DEF keys
    <2>4. c2 + 1 \in 1..Len(keys) /\ c2 \in 0..Len(keys) /\ Len(keys) \in Nat
      BY <2>3
    <2>5. ASSUME NEW j \in 1..c2 PROVE keys[j] < sep2
      <3>1. j \in 1..Len(keys) /\ j < c2 + 1
        BY <2>3, <2>4
      <3> QED  BY <2>3, <2>4, <3>1 DEF Sorted
    <2>6. ASSUME NEW j \in (c2 + 1)..Len(keys) PROVE sep2 <= keys[j]
      <3>1. j \in 1..Len(keys) /\ (j = c2 + 1 \/ c2 + 1 < j)
        BY <2>3, <2>4
      <3>2. j = c2 + 1 => keys[j] = sep2
        BY <2>3
      <3>3. c2 + 1 < j => keys[c2 + 1] < keys[j]
        BY <2>3, <2>4, <3>1 DEF Sorted
      <3>4. keys[j] \in Int
        BY <2>3, <3>1
      <3> QED  BY <1>6, <2>3, <3>1, <3>2, <3>3, <3>4
    <2> QED  BY <2>2, <2>4, <2>5, <2>6 DEF keys
  <1>10. ASSUME ~is_leaf(v, l)
         PROVE  /\ ~is_leaf(u, l) /\ ~is_leaf(u, r)
                /\ c2 \in 1..Len(K(v, l)) /\ sep2 = K(v, l)[c2]
                /\ Cut(K(v, l), c2 - 1, c2, K(u, l), K(u, r))
                /\ Cut(S(v, l), c2, c2, S(u, l), S(u, r))
    BY <1>1, <1>10 DEF Shifted, ShiftedInner
  <1>11. Paired(S(v, p), a, l, r, S(u, p)) /\ N(u) = N(v) \cup {l, r}
    BY <1>2, <1>3
  <1> QED  BY <1>2, <1>3, <1>4, <1>6, <1>7, <1>8, <1>9, <1>10, <1>11 DEF SplitBody

\* The children concerned know where they are.
LEMMA ShiftBacks ==
  ASSUME NEW w, NEW h, NEW R, NEW u0, NEW v, NEW u, NEW p, NEW a, NEW l, NEW r,
         NEW c, NEW sep, NEW c2, NEW sep2,
         Shift(w, h, R, u0, v, u, p, a, l, r, c, sep, c2, sep2)
  PROVE  SplitBacks(v, u, p, l, r)
  <1>1. /\ SplitBody(v, w, p, a, l, l, r, c, sep) /\ MergeBacks(v, w, p, l) /\ TreeInv(w, h, R)
        /\ Shifting(w, u, p, a, l, r, sep2) /\ Shifted(v, u, l, r, c2, sep2)
        /\ Formed(w) /\ Formed(v) /\ P(w, w.root) = NULL
        /\ l \in N(w) /\ r \in N(w) /\ p \in Inner(w) /\ p \notin {l, r}
    BY ShiftFacts DEF Neighbours
  <1>2. /\ N(w) = N(v) \cup {l, r} /\ v.root = w.root
        /\ \A m \in N(v) \ {p, l, r} : Same(v, w, m)
        /\ is_leaf(v, l) => is_leaf(w, l) /\ is_leaf(w, r)
    BY <1>1 DEF SplitBody
  <1>3. /\ N(u) = N(w) /\ S(u, p) = S(w, p) /\ u.root = w.root
        /\ \A m \in N(w) \ {p, l, r} : Same(w, u, m)
        /\ \A m \in N(w) : P(w, m) \notin {l, r} => P(u, m) = P(w, m) /\ X(u, m) = X(w, m)
    BY <1>1 DEF Shifting, Frame
  <1>4. ASSUME NEW q \in Inner(w) \ {l, r}, NEW i \in 1..Len(S(w, q))
        PROVE  /\ S(w, q)[i] \in N(w) /\ P(w, S(w, q)[i]) = q /\ P(u, S(w, q)[i]) = q
               /\ X(w, S(w, q)[i]) = i - 2 /\ X(u, S(w, q)[i]) = i - 2
    <2>1. S(w, q)[i] \in N(w) /\ P(w, S(w, q)[i]) = q /\ X(w, S(w, q)[i]) = i - 2
      BY <1>1, ChildFacts
    <2>2. P(w, S(w, q)[i]) \notin {l, r}
      BY <2>1
    <2> QED  BY <1>3, <2>1, <2>2
  <1>5. Owns(u, p)
    BY <1>1, <1>3, <1>4 DEF Owns
  <1>6. ASSUME NEW q \in Inner(u) \cap {l, r} PROVE Owns(u, q)
    <2>1. ~is_leaf(u, q)
      BY DEF Inner
    <2>2. ShiftedInner(v, u, l, r, c2, sep2)
      BY <1>1, <2>1 DEF Shifted, ShiftedLeaf
    <2> QED  BY <2>2 DEF ShiftedInner
  <1>7. ASSUME NEW q \in Inner(u) \ {p, l, r}, NEW i \in 1..Len(S(u, q))
        PROVE  LET m == S(u, q)[i] IN P(u, m) = P(v, m) /\ X(u, m) = X(v, m)
    <2>1. q \in N(w) /\ Same(w, u, q) /\ ~is_leaf(u, q) /\ q \in N(v) /\ Same(v, w, q)
      BY <1>2, <1>3 DEF Inner
    <2>2. S(u, q) = S(w, q) /\ ~is_leaf(w, q) /\ ~is_leaf(v, q)
      BY <2>1 DEF Same
    <2>3. S(w, q) = S(v, q) /\ q \in Inner(w) \ {l, r} /\ q \in Inner(v) \ {p, l}
      BY <2>1, <2>2 DEF Same, Inner
    <2> DEFINE m == S(w, q)[i]
    <2>4. P(u, m) = q /\ X(u, m) = i - 2 /\ P(w, m) = q /\ X(w, m) = i - 2
      BY <1>4, <2>2, <2>3
    <2>5. P(v, m) = P(w, m) /\ X(v, m) = X(w, m)
      BY <1>1, <2>2, <2>3 DEF MergeBacks
    <2> HIDE DEF m
    <2>6. P(u, m) = P(v, m) /\ X(u, m) = X(v, m)
      BY <2>4, <2>5
    <2> QED  BY <2>2, <2>6 DEF m
  <1>8. P(u, u.root) = NULL
    <2>1. NULL \notin N(w) /\ w.root \in N(w)
      BY <1>1 DEF Formed, NULL
    <2>2. P(w, w.root) \notin {l, r}
      BY <1>1, <2>1
    <2> QED  BY <1>1, <1>3, <2>1, <2>2
  <1> QED  BY <1>5, <1>6, <1>7, <1>8 DEF SplitBacks

\* One moved from neighbour to neighbour: there is nothing left to be done.
LEMMA ShiftEnds ==
  ASSUME NEW w, NEW h, NEW R, NEW u0, NEW v, NEW u, NEW p, NEW a, NEW l, NEW r,
         NEW c, NEW sep, NEW c2, NEW sep2, NEW o, NEW e,
         Shift(w, h, R, u0, v, u, p, a, l, r, c, sep, c2, sep2),
         Short(w, h, R, l, r, o, e), FullFill(u, l), FullFill(u, r)
  PROVE  Settled(Removed(u), o, e, Filed(w))
  <1> DEFINE g == MergeHeight(v, h, l, l)
             Q == MergeRange(v, R, l, l, r)
  <1>1. SplitBody(v, u, p, a, l, l, r, c2, sep2) /\ SplitBacks(v, u, p, l, r)
    BY ShiftBody, ShiftBacks
  <1>2. /\ TreeInv(v, g, Q) /\ Listed(v) /\ Formed(v)
        /\ Joined(v.link, w.link, l, l, r) /\ Filed(v) = Filed(w) /\ v.level = w.level
        /\ Shifting(w, u, p, a, l, r, sep2) /\ Shifted(v, u, l, r, c2, sep2)
        /\ Formed(w) /\ Neighbours(w, p, a, l, r, sep) /\ TreeInv(w, h, R)
        /\ Listed(w) /\ w.level < MaxLevel /\ p \in N(w)
        /\ K(w, p) \in Seq(Int)
    BY ShiftFacts
  <1> HIDE DEF g, Q
  <1>3. Formed(u)
    BY <1>2, ShiftFormed
  <1>4. is_leaf(v, l) => c2 \in 1..(Len(K(v, l)) - 1)
    BY <1>2 DEF Shifted, ShiftedLeaf
  <1> DEFINE g2 == SplitHeight(u, g, l, l, r)
             Q2 == SplitRange(u, Q, l, l, r, sep2)
  <1>5. TreeInv(u, g2, Q2)
    BY <1>1, <1>2, <1>3, <1>4, SplitKeeps
  <1> HIDE DEF g2, Q2
  <1>6. Listed(u)
    <2>1. u.link = w.link
      BY <1>2 DEF Shifting
    <2>2. Joined(v.link, u.link, l, l, r) /\ v.level < MaxLevel
      BY <1>2, <2>1
    <2> QED  BY <1>1, <1>2, <1>3, <2>2, SplitListed
  <1>7. Filed(u) = Filed(w)
    <2>1. Filed(u) = Filed(v)
      BY <1>1, <1>2, <1>3, SplitFiled
    <2> QED  BY <1>2, <2>1
  <1>8. Sound(u, o, e)
    <2>1. /\ w.ok = TRUE /\ w.order = o /\ w.entries = e /\ o \in Nat \ 0..2 /\ e \in Nat \ {0}
          /\ \A m \in N(w) \ {l, r} : Fill(w, m)
      BY DEF Short
    <2>2. /\ u.ok = TRUE /\ u.order = o /\ u.entries = e /\ u.root = w.root /\ N(u) = N(w)
          /\ \A m \in N(w) \ {p, l, r} : Same(w, u, m)
          /\ S(u, p) = S(w, p) /\ ~is_leaf(u, p)
      BY <1>2, <2>1 DEF Shifting, Frame
    <2>3. ASSUME NEW m \in N(u) PROVE Fill(u, m)
      <3>1. CASE m \in {l, r}
        BY <3>1 DEF Fill
      <3>2. CASE m = p /\ m \notin {l, r}
        <4>1. ~is_leaf(w, p) /\ Fill(w, p)
          BY <1>2, <2>1, <3>2 DEF Neighbours, Inner
        <4> QED  BY <2>1, <2>2, <3>2, <4>1 DEF Fill, FullFill
      <3>3. CASE m \notin {p, l, r}
        <4>1. Same(w, u, m) /\ Fill(w, m)
          BY <2>1, <2>2, <3>3
        <4> QED  BY <2>1, <2>2, <4>1, SameFill
      <3> QED  BY <3>1, <3>2, <3>3
    <2>4. DOMAIN u.link = N(u) \cup ListHeads
      BY <1>6 DEF Listed
    <2> QED  BY <2>1, <2>2, <2>3, <2>4 DEF Sound
  <1>9. Settled(Removed(u), o, e, Filed(u))
    BY <1>5, <1>6, <1>8, DoneFact
  <1> QED  BY <1>7, <1>9

-----------------------------------------------------------------------------
\* Two non-leafs are merged.

\* b is w but for what r holds and which places its children are in.
Close(w, b, r) ==
  /\ Frame(w, b) /\ b.link = w.link /\ N(b) = N(w)
  /\ \A m \in N(w) \ {r} : NodeFormed(b, m) /\ Same(w, b, m)
  /\ \A m \in N(w) : P(b, m) = P(w, m)
  /\ \A m \in N(w) : P(w, m) # r => X(b, m) = X(w, m)
  /\ DOMAIN b.node[r] = DOMAIN w.node[r]

\* A tree is close to itself.
LEMMA CloseSelf ==
  ASSUME NEW w, Formed(w), NEW r
  PROVE  Close(w, w, r)
  <1>1. \A m \in N(w) : NodeFormed(w, m) /\ Same(w, w, m)
    BY DEF Formed, Same
  <1> QED  BY <1>1 DEF Close, Frame

\* So is the tree in which the removal has not been done yet.
LEMMA CloseGap ==
  ASSUME NEW t, NEW w, NEW n, NEW a, NEW h, NEW R, Gap(t, w, n, a), TreeInv(w, h, R)
  PROVE  Close(w, t, n)
  <1>1. /\ Frame(t, w) /\ w.link = t.link /\ N(w) = N(t)
        /\ \A m \in N(t) \ {n} : Same(t, w, m)
        /\ \A m \in N(t) : P(w, m) = P(t, m)
        /\ \A m \in N(t) : (\A i \in (a + 1)..Len(S(w, n)) : S(w, n)[i] # m) => X(w, m) = X(t, m)
        /\ Formed(w) /\ ~is_leaf(w, n)
    BY DEF Gap, PairOut
  <1>2. \A m \in N(t) \ {n} : NodeFormed(t, m)
    BY DEF Gap, Loose
  <1>3. a \in Nat /\ n \in N(t)
    BY DEF Gap, Loose
  <1>4. n \in Inner(w)
    BY <1>1, <1>3 DEF Inner
  <1>5. ASSUME NEW m \in N(w), P(w, m) # n PROVE X(t, m) = X(w, m)
    <2>1. ASSUME NEW i \in (a + 1)..Len(S(w, n)), S(w, n)[i] = m PROVE FALSE
      <3>1. i \in 1..Len(S(w, n))
        BY <1>3
      <3> QED  BY <1>4, <1>5, <2>1, <3>1, ChildFacts
    <2> QED  BY <1>1, <2>1
  <1>6. Frame(w, t)
    BY <1>1 DEF Frame
  <1>7. \A m \in N(w) \ {n} : Same(w, t, m)
    BY <1>1, SameSym
  <1>8. DOMAIN t.node[n] = DOMAIN w.node[n]
    BY <1>1, <1>4, FormedFields DEF Gap, Loose
  <1> QED  BY <1>1, <1>2, <1>5, <1>6, <1>7, <1>8 DEF Close

\* A node stays well formed when a node goes that it does not refer to.
LEMMA FormedLess ==
  ASSUME NEW t, NEW u, NEW r, NEW m, N(u) = N(t) \ {r}, u.node[m] = t.node[m], NodeFormed(t, m),
         P(t, m) # r, ~is_leaf(t, m) => \A i \in 1..Len(S(t, m)) : S(t, m)[i] # r
  PROVE  NodeFormed(u, m) /\ Same(t, u, m) /\ P(u, m) = P(t, m) /\ X(u, m) = X(t, m)
  <1>1. /\ K(u, m) = K(t, m) /\ D(u, m) = D(t, m) /\ S(u, m) = S(t, m)
        /\ P(u, m) = P(t, m) /\ X(u, m) = X(t, m) /\ is_leaf(u, m) = is_leaf(t, m)
    BY DEF K, D, S, P, X, is_leaf
  <1>2. ASSUME ~is_leaf(t, m) PROVE S(t, m) \in Seq(N(u))
    <2> DEFINE s == S(t, m)
    <2>1. s \in Seq(N(t)) /\ \A i \in 1..Len(s) : s[i] # r
      BY <1>2 DEF NodeFormed
    <2> HIDE DEF s
    <2>2. \A i \in 1..Len(s) : s[i] \in N(u)
      BY <2>1
    <2>3. Len(s) \in Nat /\ s = [i \in 1..Len(s) |-> s[i]]
      BY <2>1
    <2>4. s \in Seq(N(u))
      BY <2>2, <2>3
    <2> QED  BY <2>4 DEF s
  <1>3. NodeFormed(u, m)
    BY <1>1, <1>2 DEF NodeFormed
  <1>4. Same(t, u, m)
    BY <1>1 DEF Same
  <1> QED  BY <1>1, <1>3, <1>4

\* The arrays of the merged node.
JoinedKeys(w, l, r, sep) == K(w, l) \o <<sep>> \o K(w, r)
JoinedSubs(w, l, r) == S(w, l) \o S(w, r)

Rows(w, l, r, sep, c, kl, sl) ==
  c = Len(S(w, l)) /\ kl = JoinedKeys(w, l, r, sep) /\ sl = JoinedSubs(w, l, r)

\* The two nodes and their children.
LEMMA JoinedArrays ==
  ASSUME NEW w, NEW h, NEW R, TreeInv(w, h, R), NEW p, NEW a, NEW l, NEW r, NEW sep,
         Neighbours(w, p, a, l, r, sep), ~is_leaf(w, l), NEW c, NEW kl, NEW sl,
         Rows(w, l, r, sep, c, kl, sl)
  PROVE  /\ l \in Inner(w) /\ r \in Inner(w)
         /\ K(w, l) \in Seq(Int) /\ K(w, r) \in Seq(Int)
         /\ S(w, l) \in Seq(N(w)) /\ S(w, r) \in Seq(N(w))
         /\ Len(S(w, l)) = Len(K(w, l)) + 1 /\ Len(S(w, r)) = Len(K(w, r)) + 1
         /\ kl \in Seq(Int) /\ sl \in Seq(N(w)) /\ Len(sl) = Len(kl) + 1
         /\ Len(sl) = Len(S(w, l)) + Len(S(w, r))
         /\ c \in 1..Len(kl) /\ kl[c] = sep
         /\ Cut(kl, c - 1, c, K(w, l), K(w, r)) /\ Cut(sl, c, c, S(w, l), S(w, r))
         /\ \A j \in 1..c : sl[j] = S(w, l)[j] /\ j \in 1..Len(S(w, l))
         /\ \A j \in (c + 1)..Len(sl) : sl[j] = S(w, r)[j - c] /\ j - c \in 1..Len(S(w, r))
  <1>1. /\ Formed(w) /\ sep \in Int /\ ~is_leaf(w, r) /\ l \in N(w) /\ r \in N(w)
    BY NeighbourFacts DEF Neighbours
  <1>2. l \in Inner(w) /\ r \in Inner(w)
    BY <1>1 DEF Inner
  <1>3. /\ K(w, l) \in Seq(Int) /\ K(w, r) \in Seq(Int)
        /\ S(w, l) \in Seq(N(w)) /\ S(w, r) \in Seq(N(w))
        /\ Len(S(w, l)) = Len(K(w, l)) + 1 /\ Len(S(w, r)) = Len(K(w, r)) + 1
    BY <1>1, <1>2, FormedFields DEF Inner
  <1> DEFINE k1 == K(w, l)
             k2 == K(w, r)
             s1 == S(w, l)
             s2 == S(w, r)
  <1>4. kl = k1 \o <<sep>> \o k2 /\ sl = s1 \o s2
    BY DEF Rows, JoinedKeys, JoinedSubs
  <1>5. k1 \in Seq(Int) /\ k2 \in Seq(Int) /\ s1 \in Seq(N(w)) /\ s2 \in Seq(N(w))
        /\ Len(s1) = Len(k1) + 1 /\ Len(s2) = Len(k2) + 1 /\ c = Len(s1)
    BY <1>3 DEF Rows
  <1> HIDE DEF k1, k2, s1, s2
  <1>6. /\ k1 \o <<sep>> \o k2 \in Seq(Int) /\ Len(k1 \o <<sep>> \o k2) = Len(k1) + Len(k2) + 1
        /\ (k1 \o <<sep>> \o k2)[Len(k1) + 1] = sep
        /\ Cut(k1 \o <<sep>> \o k2, Len(k1), Len(k1) + 1, k1, k2)
    BY <1>1, <1>5, JoinMidFact
  <1>7. /\ s1 \o s2 \in Seq(N(w)) /\ Len(s1 \o s2) = Len(s1) + Len(s2)
        /\ Cut(s1 \o s2, Len(s1), Len(s1), s1, s2)
    BY <1>5, JoinFact
  <1>8. Len(k1) + 1 = c /\ Len(k1) = c - 1 /\ Len(s1) = c /\ c \in Nat /\ Len(s2) \in Nat
    BY <1>5
  <1>9. /\ kl \in Seq(Int) /\ Len(kl) = Len(k1) + Len(k2) + 1 /\ kl[c] = sep
        /\ Cut(kl, c - 1, c, k1, k2)
    BY <1>4, <1>6, <1>8
  <1>10. /\ sl \in Seq(N(w)) /\ Len(sl) = Len(s1) + Len(s2) /\ Cut(sl, c, c, s1, s2)
    BY <1>4, <1>7, <1>8
  <1>11. Len(k1) \in Nat /\ Len(k2) \in Nat
    BY <1>5
  <1>12. Len(sl) = Len(kl) + 1 /\ c \in 1..Len(kl)
    BY <1>5, <1>8, <1>9, <1>10, <1>11
  <1>13. \A j \in 1..c : sl[j] = s1[j] /\ j \in 1..Len(s1)
    BY <1>8, <1>10 DEF Cut
  <1>14. ASSUME NEW j \in (c + 1)..Len(sl) PROVE sl[j] = s2[j - c] /\ j - c \in 1..Len(s2)
    <2>1. j - c \in 1..Len(s2) /\ j - c \in 1..(Len(sl) - c) /\ c + (j - c) = j
      BY <1>8, <1>10
    <2>2. s2[j - c] = sl[c + (j - c)]
      BY <1>10, <2>1 DEF Cut
    <2> QED  BY <2>1, <2>2
  <1> QED  BY <1>2, <1>5, <1>9, <1>10, <1>12, <1>13, <1>14 DEF k1, k2, s1, s2

\* Node n has got the arrays k and s.
Wrote(b, g, n, k, s) == g = [b EXCEPT !.node[n].key = k, !.node[n].sub_ptr = s]

\* Nothing else has changed.
LEMMA WroteEffect ==
  ASSUME NEW b, NEW g, NEW n, NEW k, NEW s, Wrote(b, g, n, k, s),
         DOMAIN b = Fields, n \in N(b), DOMAIN b.node[n] = InnerFields
  PROVE  /\ Frame(b, g) /\ g.link = b.link /\ N(g) = N(b)
         /\ DOMAIN g.node[n] = InnerFields /\ g.node[n].type = b.node[n].type
         /\ K(g, n) = k /\ S(g, n) = s /\ P(g, n) = P(b, n) /\ X(g, n) = X(b, n)
         /\ \A m \in N(b) \ {n} : g.node[m] = b.node[m]
         /\ (is_leaf(g, n) <=> is_leaf(b, n))
  <1> DEFINE rec == [b.node[n] EXCEPT !.key = k, !.sub_ptr = s]
             nn == [b.node EXCEPT ![n] = rec]
  <1>1. g = [b EXCEPT !.node = nn]
    BY DEF Wrote, Fields, N
  <1>2. nn[n] = rec /\ DOMAIN nn = DOMAIN b.node /\ \A m \in N(b) \ {n} : nn[m] = b.node[m]
    BY DEF N
  <1>3. /\ DOMAIN rec = InnerFields /\ rec.type = b.node[n].type /\ rec.key = k /\ rec.sub_ptr = s
        /\ rec.parent = b.node[n].parent /\ rec.parent_key_idx = b.node[n].parent_key_idx
    BY DEF InnerFields
  <1> HIDE DEF rec, nn
  <1>4. /\ DOMAIN g = Fields /\ g.node = nn
        /\ g.root = b.root /\ g.level = b.level /\ g.ok = b.ok
        /\ g.order = b.order /\ g.entries = b.entries /\ g.link = b.link
    BY <1>1 DEF Fields
  <1> QED  BY <1>2, <1>3, <1>4 DEF Frame, N, K, S, P, X, is_leaf

\* The node has its new arrays, and its new children are told.
Joining(w, b, b2, l, kl, sl) ==
  \E g : Wrote(b, g, l, kl, sl) /\ b2 = Adopt(g, l, Len(S(w, l))..(Len(sl) - 1))

\* The result, in which r is still there.
JoinedIn(w, b2, p, l, r, kl, sl) ==
  /\ Frame(w, b2) /\ b2.link = w.link /\ N(b2) = N(w)
  /\ K(b2, l) = kl /\ S(b2, l) = sl /\ ~is_leaf(b2, l) /\ DOMAIN b2.node[l] = InnerFields
  /\ \A m \in N(w) \ {r} : NodeFormed(b2, m)
  /\ \A m \in N(w) \ {l, r} : Same(w, b2, m)
  /\ \A m \in N(w) : P(w, m) # r => P(b2, m) = P(w, m) /\ X(b2, m) = X(w, m)
  /\ \A m \in N(w) : P(w, m) = r => P(b2, m) = l
  /\ Owns(b2, l)

\* Joining does what JoinedIn says.
LEMMA JoiningEffect ==
  ASSUME NEW w, NEW h, NEW R, TreeInv(w, h, R), NEW p, NEW a, NEW l, NEW r, NEW sep,
         Neighbours(w, p, a, l, r, sep), ~is_leaf(w, l), NEW b, Close(w, b, r),
         NEW c, NEW kl, NEW sl, Rows(w, l, r, sep, c, kl, sl), NEW b2, Joining(w, b, b2, l, kl, sl)
  PROVE  JoinedIn(w, b2, p, l, r, kl, sl)
  <1> DEFINE I == c..(Len(sl) - 1)
  <1>1. PICK g : Wrote(b, g, l, kl, sl) /\ b2 = Adopt(g, l, I)
    BY DEF Joining, Rows
  <1>2. /\ l \in Inner(w) /\ r \in Inner(w)
        /\ S(w, l) \in Seq(N(w)) /\ S(w, r) \in Seq(N(w))
        /\ kl \in Seq(Int) /\ sl \in Seq(N(w)) /\ Len(sl) = Len(kl) + 1
        /\ Len(sl) = Len(S(w, l)) + Len(S(w, r))
        /\ c \in 1..Len(kl)
        /\ \A j \in 1..c : sl[j] = S(w, l)[j] /\ j \in 1..Len(S(w, l))
        /\ \A j \in (c + 1)..Len(sl) : sl[j] = S(w, r)[j - c] /\ j - c \in 1..Len(S(w, r))
    BY JoinedArrays
  <1>3. /\ Formed(w) /\ DOMAIN w = Fields /\ l # r /\ l \in N(w) /\ r \in N(w)
    BY NeighbourFacts DEF Neighbours
  <1>4. /\ Frame(w, b) /\ b.link = w.link /\ N(b) = N(w)
        /\ \A m \in N(w) \ {r} : NodeFormed(b, m) /\ Same(w, b, m)
        /\ \A m \in N(w) : P(b, m) = P(w, m)
        /\ \A m \in N(w) : P(w, m) # r => X(b, m) = X(w, m)
        /\ DOMAIN b.node[r] = DOMAIN w.node[r]
    BY DEF Close
  <1>5. ~is_leaf(b, l) /\ NodeFormed(b, l) /\ DOMAIN b.node[l] = InnerFields /\ DOMAIN b = Fields
    <2>1. ~is_leaf(b, l) /\ NodeFormed(b, l)
      BY <1>3, <1>4 DEF Same
    <2> QED  BY <1>3, <1>4, <2>1 DEF NodeFormed, InnerFields, Frame
  <1>6. /\ Frame(b, g) /\ g.link = b.link /\ N(g) = N(b)
        /\ DOMAIN g.node[l] = InnerFields
        /\ K(g, l) = kl /\ S(g, l) = sl /\ P(g, l) = P(b, l) /\ X(g, l) = X(b, l)
        /\ \A m \in N(b) \ {l} : g.node[m] = b.node[m]
        /\ ~is_leaf(g, l)
    BY <1>1, <1>3, <1>4, <1>5, WroteEffect
  <1>7. \A m \in N(w) : P(g, m) = P(b, m) /\ X(g, m) = X(b, m)
    BY <1>4, <1>6 DEF P, X
  \* The children that come from r.
  <1>8. ASSUME NEW i \in I
        PROVE  /\ i + 1 \in (c + 1)..Len(sl) /\ (i + 1) - c \in 1..Len(S(w, r))
               /\ At(S(g, l), i) = S(w, r)[(i + 1) - c] /\ At(S(g, l), i) = sl[i + 1]
               /\ At(S(g, l), i) \in N(w) /\ P(w, At(S(g, l), i)) = r
    <2>1. i + 1 \in (c + 1)..Len(sl)
      BY <1>2
    <2> DEFINE j == i + 1
    <2>2. At(S(g, l), i) = sl[j]
      BY <1>6 DEF At
    <2>3. sl[j] = S(w, r)[j - c] /\ j - c \in 1..Len(S(w, r))
      BY <1>2, <2>1
    <2>4. S(w, r)[j - c] \in N(w) /\ P(w, S(w, r)[j - c]) = r
      <3> DEFINE x == j - c
      <3>1. x \in 1..Len(S(w, r)) /\ r \in Inner(w)
        BY <1>2, <2>3
      <3> HIDE DEF x
      <3>2. S(w, r)[x] \in N(w) /\ P(w, S(w, r)[x]) = r
        BY <3>1, ChildFacts
      <3> QED  BY <3>2 DEF x
    <2> QED  BY <2>1, <2>2, <2>3, <2>4
  <1>9. ASSUME NEW i \in I, NEW j \in I, At(S(g, l), i) = At(S(g, l), j)
        PROVE  i = j
    <2> DEFINE x == (i + 1) - c
               y == (j + 1) - c
    <2>1. /\ x \in 1..Len(S(w, r)) /\ y \in 1..Len(S(w, r)) /\ r \in Inner(w)
          /\ S(w, r)[x] = S(w, r)[y]
      <3>1. x \in 1..Len(S(w, r)) /\ At(S(g, l), i) = S(w, r)[x]
        BY <1>8
      <3>2. y \in 1..Len(S(w, r)) /\ At(S(g, l), j) = S(w, r)[y]
        BY <1>8
      <3> HIDE DEF x, y
      <3> QED  BY <1>2, <1>9, <3>1, <3>2
    <2>3. i \in Int /\ j \in Int /\ c \in Int
      BY <1>2
    <2>4. x = y => i = j
      BY <2>3
    <2> HIDE DEF x, y
    <2>2. x = y
      BY <2>1, ChildOnce
    <2> QED  BY <2>2, <2>4
  <1>10. \A m \in N(g) : {"type", "parent", "parent_key_idx", "key"} \subseteq DOMAIN g.node[m]
    <2>1. ASSUME NEW m \in N(b)
          PROVE  {"type", "parent", "parent_key_idx", "key"} \subseteq DOMAIN g.node[m]
      <3>1. CASE m = l
        BY <1>6, <3>1 DEF InnerFields
      <3>2. CASE m = r
        BY <1>3, <1>4, <1>6, <3>2, FormedFields
      <3>3. CASE m \notin {l, r}
        <4>1. NodeFormed(b, m) /\ g.node[m] = b.node[m]
          BY <1>4, <1>6, <3>3
        <4> QED  BY <4>1 DEF NodeFormed
      <3> QED  BY <3>1, <3>2, <3>3
    <2> QED  BY <1>6, <2>1
  <1> HIDE DEF I
  <1>11. DOMAIN g = Fields /\ N(g) = N(w)
    BY <1>4, <1>5, <1>6 DEF Frame
  <1>12. \A i \in I : At(S(g, l), i) \in N(g)
    BY <1>8, <1>11
  <1>13. /\ Frame(g, b2) /\ b2.link = g.link /\ N(b2) = N(g)
         /\ \A n \in N(g) : Alike(g, b2, n)
         /\ \A n \in N(g) : (\A i \in I : At(S(g, l), i) # n) => b2.node[n] = g.node[n]
         /\ \A i \in I : P(b2, At(S(g, l), i)) = l /\ X(b2, At(S(g, l), i)) = i - 1
    BY <1>1, <1>9, <1>10, <1>11, <1>12, AdoptEffect
  <1>14. Frame(w, b2) /\ b2.link = w.link /\ N(b2) = N(w)
    BY <1>4, <1>6, <1>13 DEF Frame
  <1>15. ASSUME NEW m \in N(w), P(w, m) # r
         PROVE  P(b2, m) = P(w, m) /\ X(b2, m) = X(w, m)
    <2>1. b2.node[m] = g.node[m]
      BY <1>8, <1>11, <1>13, <1>15
    <2>2. P(b2, m) = P(g, m) /\ X(b2, m) = X(g, m)
      BY <2>1 DEF P, X
    <2> QED  BY <1>4, <1>7, <1>15, <2>2
  <1>16. ASSUME NEW m \in N(w), P(w, m) = r
         PROVE  P(b2, m) = l /\ X(b2, m) \in Int
    <2>0. m # w.root
      <3>1. P(w, w.root) = NULL /\ NULL \notin N(w)
        BY NeighbourFacts, <1>3 DEF Formed, NULL
      <3> QED  BY <1>3, <1>16, <3>1
    <2>1. Owned(w, m)
      BY <2>0 DEF TreeInv, Parents
    <2> DEFINE j == X(w, m) + 2
    <2>2. j \in 1..Len(S(w, r)) /\ S(w, r)[j] = m
      BY <1>16, <2>1 DEF Owned
    <2> HIDE DEF j
    <2> DEFINE i == (j + c) - 1
    <2>3. i \in I /\ (i + 1) - c = j /\ i - 1 \in Int
      BY <1>2, <2>2 DEF I
    <2> HIDE DEF i
    <2>6. At(S(g, l), i) = S(w, r)[(i + 1) - c]
      BY <1>8, <2>3
    <2>4. At(S(g, l), i) = m
      BY <2>2, <2>3, <2>6
    <2>5. P(b2, m) = l /\ X(b2, m) = i - 1
      BY <1>13, <2>3, <2>4
    <2> QED  BY <2>3, <2>5
  <1>17. ASSUME NEW m \in N(w) PROVE P(b2, m) \in N(b2) \cup {NULL} /\ X(b2, m) \in Int
    <2>1. P(w, m) \in N(w) \cup {NULL} /\ X(w, m) \in Int
      BY <1>3, FormedFields
    <2> QED  BY <1>3, <1>14, <1>15, <1>16, <2>1
  <1>18. ASSUME NEW m \in N(w) \ {l, r} PROVE NodeFormed(b2, m) /\ Same(w, b2, m)
    <2>1. NodeFormed(b, m) /\ Same(w, b, m) /\ g.node[m] = b.node[m]
      BY <1>4, <1>6
    <2>2. Alike(b, b2, m)
      BY <1>11, <1>13, <2>1 DEF Alike
    <2>3. NodeFormed(b2, m) /\ Same(b, b2, m)
      BY <1>4, <1>14, <1>17, <2>1, <2>2, AlikeFormed
    <2> QED  BY <2>1, <2>3, SameTrans
  <1>19. K(b2, l) = kl /\ S(b2, l) = sl /\ ~is_leaf(b2, l) /\ DOMAIN b2.node[l] = InnerFields
    <2>1. Alike(g, b2, l)
      BY <1>3, <1>11, <1>13
    <2> QED  BY <1>6, <2>1 DEF Alike, InnerFields, K, S, is_leaf
  <1>20. NodeFormed(b2, l)
    BY <1>2, <1>3, <1>14, <1>17, <1>19 DEF NodeFormed, InnerFields
  <1>21. Owns(b2, l)
    <2>1. ASSUME NEW j \in 1..Len(sl) PROVE P(b2, sl[j]) = l /\ X(b2, sl[j]) = j - 2
      <3>1. CASE j <= c
        <4>1. sl[j] = S(w, l)[j] /\ j \in 1..Len(S(w, l))
          BY <1>2, <3>1
        <4>2. S(w, l)[j] \in N(w) /\ P(w, S(w, l)[j]) = l /\ X(w, S(w, l)[j]) = j - 2
          BY <1>2, <4>1, ChildFacts
        <4> QED  BY <1>3, <1>15, <4>1, <4>2
      <3>2. CASE ~(j <= c)
        <4>1. j - 1 \in I /\ (j - 1) + 1 = j /\ (j - 1) - 1 = j - 2
          BY <1>2, <3>2 DEF I
        <4>2. At(S(g, l), j - 1) = sl[j]
          BY <1>8, <4>1
        <4>3. P(b2, At(S(g, l), j - 1)) = l /\ X(b2, At(S(g, l), j - 1)) = (j - 1) - 1
          BY <1>13, <4>1
        <4> QED  BY <4>1, <4>2, <4>3
      <3> QED  BY <3>1, <3>2
    <2> QED  BY <1>19, <2>1 DEF Owns
  <1>22. ASSUME NEW m \in N(w) \ {r} PROVE NodeFormed(b2, m)
    BY <1>18, <1>20, <1>22
  <1> QED  BY <1>14, <1>15, <1>16, <1>18, <1>19, <1>21, <1>22 DEF JoinedIn

\* Once r is gone the two non-leafs are merged.
LEMMA InnerMerged ==
  ASSUME NEW w, NEW h, NEW R, TreeInv(w, h, R), NEW p, NEW a, NEW l, NEW r, NEW sep,
         Neighbours(w, p, a, l, r, sep), ~is_leaf(w, l), NEW b2,
         NEW c, NEW kl, NEW sl, Rows(w, l, r, sep, c, kl, sl), JoinedIn(w, b2, p, l, r, kl, sl)
  PROVE  /\ Merging(w, node_delete(b2, r), p, a, l, r, c, sep)
         /\ K(node_delete(b2, r), l) = kl /\ S(node_delete(b2, r), l) = sl
         /\ ~is_leaf(node_delete(b2, r), l)
  <1> DEFINE u == node_delete(b2, r)
  <1>1. /\ l \in Inner(w) /\ r \in Inner(w)
        /\ kl \in Seq(Int) /\ sl \in Seq(N(w)) /\ Len(sl) = Len(kl) + 1
        /\ c \in 1..Len(kl) /\ kl[c] = sep
        /\ Cut(kl, c - 1, c, K(w, l), K(w, r)) /\ Cut(sl, c, c, S(w, l), S(w, r))
        /\ \A j \in 1..c : sl[j] = S(w, l)[j] /\ j \in 1..Len(S(w, l))
        /\ \A j \in (c + 1)..Len(sl) : sl[j] = S(w, r)[j - c] /\ j - c \in 1..Len(S(w, r))
    BY JoinedArrays
  <1>2. /\ Formed(w) /\ DOMAIN w = Fields /\ P(w, p) # r /\ P(w, r) = p /\ p \in Inner(w)
        /\ l # r /\ l \in N(w) /\ r \in N(w) /\ p # l /\ p # r /\ p \in N(w)
    BY NeighbourFacts DEF Neighbours
  <1>3. /\ Frame(w, b2) /\ b2.link = w.link /\ N(b2) = N(w)
        /\ K(b2, l) = kl /\ S(b2, l) = sl /\ ~is_leaf(b2, l) /\ DOMAIN b2.node[l] = InnerFields
        /\ \A m \in N(w) \ {r} : NodeFormed(b2, m)
        /\ \A m \in N(w) \ {l, r} : Same(w, b2, m)
        /\ \A m \in N(w) : P(w, m) # r => P(b2, m) = P(w, m) /\ X(b2, m) = X(w, m)
        /\ \A m \in N(w) : P(w, m) = r => P(b2, m) = l
        /\ Owns(b2, l)
    BY DEF JoinedIn
  <1>4. /\ Frame(b2, u) /\ N(u) = N(b2) \ {r} /\ u.link = Dropped(b2.link, r)
        /\ \A m \in N(b2) \ {r} : u.node[m] = b2.node[m]
    BY <1>2, <1>3, NodeDeleteEffect DEF Frame
  <1> HIDE DEF u
  <1>5. Frame(w, u) /\ N(u) = N(w) \ {r} /\ u.link = Dropped(w.link, r)
    BY <1>3, <1>4 DEF Frame
  <1>6. ASSUME NEW m \in N(u)
        PROVE  /\ K(u, m) = K(b2, m) /\ D(u, m) = D(b2, m) /\ S(u, m) = S(b2, m)
               /\ P(u, m) = P(b2, m) /\ X(u, m) = X(b2, m) /\ is_leaf(u, m) = is_leaf(b2, m)
    BY <1>3, <1>4 DEF K, D, S, P, X, is_leaf
  <1>7. l \in N(u) /\ p \in N(u)
    BY <1>2, <1>5
  <1>8. \A m \in N(u) \ {l} : Same(w, u, m)
    <2>1. ASSUME NEW m \in N(u) \ {l} PROVE Same(w, u, m)
      <3>1. Same(w, b2, m)
        BY <1>3, <1>5
      <3>2. Same(b2, u, m)
        BY <1>6 DEF Same
      <3> QED  BY <3>1, <3>2, SameTrans
    <2> QED  BY <2>1
  <1>9. ASSUME NEW m \in N(u) \ {p} PROVE NodeFormed(u, m)
    <2>1. NodeFormed(b2, m) /\ u.node[m] = b2.node[m] /\ N(u) = N(b2) \ {r} /\ m \in N(w) /\ m # r
      BY <1>3, <1>4
    <2>2. P(b2, m) # r
      BY <1>2, <1>3, <2>1
    <2>3. ASSUME ~is_leaf(b2, m), NEW i \in 1..Len(S(b2, m)), S(b2, m)[i] = r PROVE FALSE
      <3>1. CASE m = l
        <4>1. i \in 1..Len(sl) /\ sl[i] = r
          BY <1>3, <2>3, <3>1
        <4>2. CASE i <= c
          <5>1. S(w, l)[i] = r /\ i \in 1..Len(S(w, l))
            BY <1>1, <4>1, <4>2
          <5>2. P(w, r) = l
            BY <1>1, <5>1, ChildFacts
          <5> QED  BY <1>2, <5>2
        <4>3. CASE ~(i <= c)
          <5> DEFINE x == i - c
          <5>1. S(w, r)[x] = r /\ x \in 1..Len(S(w, r))
            BY <1>1, <4>1, <4>3
          <5> HIDE DEF x
          <5>2. P(w, r) = r
            BY <1>1, <5>1, ChildFacts
          <5> QED  BY <1>2, <5>2
        <4> QED  BY <4>2, <4>3
      <3>2. CASE m # l
        <4>1. Same(w, b2, m)
          BY <1>3, <2>1, <3>2
        <4>2. m \in Inner(w) /\ S(w, m) = S(b2, m)
          BY <2>1, <2>3, <4>1 DEF Same, Inner
        <4>3. P(w, r) = m
          BY <2>3, <4>2, ChildFacts
        <4> QED  BY <1>2, <4>3
      <3> QED  BY <3>1, <3>2
    <2> QED  BY <2>1, <2>2, <2>3, FormedLess
  <1>10. DOMAIN u.node[p] = InnerFields
    <2>1. NodeFormed(b2, p) /\ Same(w, b2, p) /\ ~is_leaf(w, p) /\ u.node[p] = b2.node[p]
      BY <1>2, <1>3, <1>4 DEF Inner
    <2> QED  BY <2>1 DEF NodeFormed, Same, InnerFields
  <1>11. \A m \in N(u) : P(w, m) # r => P(u, m) = P(w, m) /\ X(u, m) = X(w, m)
    BY <1>3, <1>5, <1>6
  <1>12. K(u, l) = kl /\ S(u, l) = sl /\ ~is_leaf(u, l)
    BY <1>3, <1>6, <1>7
  <1>13. Owns(u, l)
    <2>1. ASSUME NEW i \in 1..Len(sl) PROVE P(u, sl[i]) = l /\ X(u, sl[i]) = i - 2
      <3>1. P(b2, sl[i]) = l /\ X(b2, sl[i]) = i - 2
        BY <1>3 DEF Owns
      <3>2. sl[i] \in N(u)
        <4>1. NodeFormed(u, l)
          BY <1>2, <1>7, <1>9
        <4>2. sl \in Seq(N(u))
          BY <1>12, <4>1 DEF NodeFormed
        <4> QED  BY <4>2
      <3> QED  BY <1>6, <3>1, <3>2
    <2> QED  BY <1>12, <2>1 DEF Owns
  <1>14. MergedInner(w, u, l, r, c, sep)
    BY <1>1, <1>12, <1>13 DEF MergedInner
  <1>15. Merging(w, u, p, a, l, r, c, sep)
    BY <1>5, <1>8, <1>9, <1>10, <1>11, <1>14 DEF Merging
  <1> QED  BY <1>12, <1>15 DEF u

-----------------------------------------------------------------------------
\* Two leaves are merged.

\* Leaf n has got the arrays k and d.
WroteLeaf(b, g, n, k, d) == g = [b EXCEPT !.node[n].key = k, !.node[n].data = d]

\* Nothing else has changed.
LEMMA WroteLeafEffect ==
  ASSUME NEW b, NEW g, NEW n, NEW k, NEW d, WroteLeaf(b, g, n, k, d),
         DOMAIN b = Fields, n \in N(b), DOMAIN b.node[n] = LeafFields
  PROVE  /\ Frame(b, g) /\ g.link = b.link /\ N(g) = N(b)
         /\ DOMAIN g.node[n] = LeafFields
         /\ K(g, n) = k /\ D(g, n) = d /\ P(g, n) = P(b, n) /\ X(g, n) = X(b, n)
         /\ \A m \in N(b) \ {n} : g.node[m] = b.node[m]
         /\ (is_leaf(g, n) <=> is_leaf(b, n))
  <1> DEFINE rec == [b.node[n] EXCEPT !.key = k, !.data = d]
             nn == [b.node EXCEPT ![n] = rec]
  <1>1. g = [b EXCEPT !.node = nn]
    BY DEF WroteLeaf, Fields, N
  <1>2. nn[n] = rec /\ DOMAIN nn = DOMAIN b.node /\ \A m \in N(b) \ {n} : nn[m] = b.node[m]
    BY DEF N
  <1>3. /\ DOMAIN rec = LeafFields /\ rec.type = b.node[n].type /\ rec.key = k /\ rec.data = d
        /\ rec.parent = b.node[n].parent /\ rec.parent_key_idx = b.node[n].parent_key_idx
    BY DEF LeafFields
  <1> HIDE DEF rec, nn
  <1>4. /\ DOMAIN g = Fields /\ g.node = nn
        /\ g.root = b.root /\ g.level = b.level /\ g.ok = b.ok
        /\ g.order = b.order /\ g.entries = b.entries /\ g.link = b.link
    BY <1>1 DEF Fields
  <1> QED  BY <1>2, <1>3, <1>4 DEF Frame, N, K, D, P, X, is_leaf

\* Once r is gone the two leaves are merged.
LEMMA LeavesMerged ==
  ASSUME NEW w, NEW h, NEW R, TreeInv(w, h, R), NEW p, NEW a, NEW l, NEW r, NEW sep,
         Neighbours(w, p, a, l, r, sep), is_leaf(w, l), NEW b, Close(w, b, r), NEW g,
         WroteLeaf(b, g, l, K(w, l) \o K(w, r), D(w, l) \o D(w, r))
  PROVE  /\ Merging(w, node_delete(g, r), p, a, l, r, Len(K(w, l)), sep)
         /\ K(node_delete(g, r), l) = K(w, l) \o K(w, r)
         /\ D(node_delete(g, r), l) = D(w, l) \o D(w, r)
         /\ is_leaf(node_delete(g, r), l)
  <1> DEFINE u == node_delete(g, r)
             c == Len(K(w, l))
             kl == K(w, l) \o K(w, r)
             dl == D(w, l) \o D(w, r)
  <1>1. WroteLeaf(b, g, l, kl, dl)
    OBVIOUS
  <1>2. /\ Formed(w) /\ DOMAIN w = Fields /\ P(w, p) # r /\ P(w, r) = p /\ p \in Inner(w)
        /\ l # r /\ l \in N(w) /\ r \in N(w) /\ p # l /\ p # r /\ p \in N(w) /\ is_leaf(w, r)
    BY NeighbourFacts DEF Neighbours
  <1>3. /\ K(w, l) \in Seq(Int) /\ D(w, l) \in Seq(Int) /\ Len(D(w, l)) = Len(K(w, l))
        /\ K(w, r) \in Seq(Int) /\ D(w, r) \in Seq(Int) /\ Len(D(w, r)) = Len(K(w, r))
    BY <1>2, FormedFields DEF NodeFormed
  <1>4. /\ kl \in Seq(Int) /\ dl \in Seq(Int) /\ Len(kl) = Len(K(w, l)) + Len(K(w, r))
        /\ Len(dl) = Len(D(w, l)) + Len(D(w, r))
        /\ Cut(kl, c, c, K(w, l), K(w, r)) /\ Cut(dl, Len(D(w, l)), Len(D(w, l)), D(w, l), D(w, r))
    BY <1>3, JoinFact
  <1> HIDE DEF kl, dl
  <1>5. Cut(dl, c, c, D(w, l), D(w, r)) /\ c \in 0..Len(kl) /\ Len(dl) = Len(kl)
    BY <1>3, <1>4
  <1> HIDE DEF c
  <1>6. /\ Frame(w, b) /\ b.link = w.link /\ N(b) = N(w)
        /\ \A m \in N(w) \ {r} : NodeFormed(b, m) /\ Same(w, b, m)
        /\ \A m \in N(w) : P(b, m) = P(w, m)
        /\ \A m \in N(w) : P(w, m) # r => X(b, m) = X(w, m)
    BY DEF Close
  <1>7. is_leaf(b, l) /\ NodeFormed(b, l) /\ DOMAIN b.node[l] = LeafFields /\ DOMAIN b = Fields
    <2>1. is_leaf(b, l) /\ NodeFormed(b, l)
      BY <1>2, <1>6 DEF Same
    <2> QED  BY <1>2, <1>6, <2>1 DEF NodeFormed, LeafFields, Frame
  <1>8. /\ Frame(b, g) /\ g.link = b.link /\ N(g) = N(b)
        /\ DOMAIN g.node[l] = LeafFields
        /\ K(g, l) = kl /\ D(g, l) = dl /\ P(g, l) = P(b, l) /\ X(g, l) = X(b, l)
        /\ \A m \in N(b) \ {l} : g.node[m] = b.node[m]
        /\ is_leaf(g, l)
    BY <1>1, <1>2, <1>6, <1>7, WroteLeafEffect
  <1>9. /\ Frame(g, u) /\ N(u) = N(g) \ {r} /\ u.link = Dropped(g.link, r)
        /\ \A m \in N(g) \ {r} : u.node[m] = g.node[m]
    BY <1>7, <1>8, NodeDeleteEffect DEF Frame
  <1> HIDE DEF u
  <1>10. Frame(w, u) /\ N(u) = N(w) \ {r} /\ u.link = Dropped(w.link, r)
    BY <1>6, <1>8, <1>9 DEF Frame
  <1>11. \A m \in N(w) : P(w, m) # r
    <2>1. ASSUME NEW m \in N(w), P(w, m) = r PROVE FALSE
      <3>1. m # w.root
        <4>1. P(w, w.root) = NULL /\ NULL \notin N(w)
          BY NeighbourFacts, <1>2 DEF Formed, NULL
        <4> QED  BY <1>2, <2>1, <4>1
      <3>2. Owned(w, m)
        BY <3>1 DEF TreeInv, Parents
      <3> QED  BY <1>2, <2>1, <3>2 DEF Owned, Inner
    <2> QED  BY <2>1
  <1>12. \A m \in N(u) : P(u, m) = P(w, m) /\ X(u, m) = X(w, m)
    <2>1. ASSUME NEW m \in N(u) PROVE P(u, m) = P(w, m) /\ X(u, m) = X(w, m)
      <3>1. m \in N(w) /\ m # r /\ u.node[m] = g.node[m] /\ P(b, m) = P(w, m) /\ X(b, m) = X(w, m)
        BY <1>6, <1>8, <1>9, <1>10, <1>11
      <3>2. P(g, m) = P(b, m) /\ X(g, m) = X(b, m)
        BY <1>6, <1>8, <3>1 DEF P, X
      <3>3. P(u, m) = P(g, m) /\ X(u, m) = X(g, m)
        BY <3>1 DEF P, X
      <3> QED  BY <3>1, <3>2, <3>3
    <2> QED  BY <2>1
  <1>13. l \in N(u) /\ p \in N(u)
    BY <1>2, <1>10
  <1>14. K(u, l) = kl /\ D(u, l) = dl /\ is_leaf(u, l) /\ DOMAIN u.node[l] = LeafFields
    <2>1. u.node[l] = g.node[l]
      BY <1>2, <1>6, <1>8, <1>9
    <2> QED  BY <1>8, <2>1 DEF K, D, is_leaf
  <1>15. ASSUME NEW m \in N(u) \ {l} PROVE u.node[m] = b.node[m] /\ m \in N(w) \ {r}
    BY <1>6, <1>8, <1>9, <1>10
  <1>16. \A m \in N(u) \ {l} : Same(w, u, m)
    <2>1. ASSUME NEW m \in N(u) \ {l} PROVE Same(w, u, m)
      <3>1. Same(w, b, m) /\ u.node[m] = b.node[m]
        BY <1>6, <1>15
      <3> QED  BY <3>1 DEF Same, K, D, S, is_leaf
    <2> QED  BY <2>1
  <1>17. ASSUME NEW m \in N(u) \ {p} PROVE NodeFormed(u, m)
    <2>1. CASE m = l
      <3>1. P(w, l) \in N(w) \cup {NULL} /\ X(w, l) \in Int
        BY <1>2, FormedFields
      <3>2. P(u, l) \in N(u) \cup {NULL} /\ X(u, l) \in Int
        BY <1>2, <1>10, <1>11, <1>12, <1>13, <3>1
      <3> QED  BY <1>4, <1>5, <1>14, <2>1, <3>2 DEF NodeFormed, LeafFields
    <2>2. CASE m # l
      <3>1. NodeFormed(b, m) /\ u.node[m] = b.node[m] /\ N(u) = N(b) \ {r} /\ m \in N(w) /\ Same(w, b, m)
            /\ P(b, m) # r
        BY <1>6, <1>10, <1>11, <1>15, <2>2
      <3>2. ASSUME ~is_leaf(b, m), NEW i \in 1..Len(S(b, m)), S(b, m)[i] = r PROVE FALSE
        <4>2. m \in Inner(w) /\ S(w, m) = S(b, m)
          BY <3>1, <3>2 DEF Same, Inner
        <4>3. P(w, r) = m
          BY <3>2, <4>2, ChildFacts
        <4> QED  BY <1>2, <4>3
      <3> QED  BY <3>1, <3>2, FormedLess
    <2> QED  BY <2>1, <2>2
  <1>18. DOMAIN u.node[p] = InnerFields
    <2>1. NodeFormed(b, p) /\ Same(w, b, p) /\ ~is_leaf(w, p) /\ u.node[p] = b.node[p]
      BY <1>2, <1>6, <1>13, <1>15 DEF Inner
    <2> QED  BY <2>1 DEF NodeFormed, Same, InnerFields
  <1>19. MergedLeaf(w, u, l, r, c)
    BY <1>4, <1>5, <1>14 DEF MergedLeaf
  <1>20. Merging(w, u, p, a, l, r, c, sep)
    BY <1>10, <1>12, <1>16, <1>17, <1>18, <1>19 DEF Merging
  <1> QED  BY <1>14, <1>20 DEF u, c, kl, dl

-----------------------------------------------------------------------------
\* What the code's merges do.

\* Under these conditions the two nodes are merged into l.
Fused(w, u, p, a, l, r, sep, c, kl, sl) ==
  /\ Merging(w, u, p, a, l, r, c, sep)
  /\ K(u, l) = kl /\ S(u, l) = sl /\ ~is_leaf(u, l)

\* A non-leaf takes in its right sibling.
LEMMA MergeFromRight ==
  ASSUME NEW w, NEW h, NEW R, TreeInv(w, h, R), NEW p, NEW a, NEW l, NEW r, NEW sep,
         Neighbours(w, p, a, l, r, sep), ~is_leaf(w, l), NEW c, NEW kl, NEW sl,
         Rows(w, l, r, sep, c, kl, sl)
  PROVE  Fused(w, non_leaf_merge_from_right(w, l, r, a - 1), p, a, l, r, sep, c, kl, sl)
  <1> DEFINE g == [w EXCEPT !.node[l].key = @ \o <<At(w.node[w.node[l].parent].key, a - 1)>> \o w.node[r].key,
                            !.node[l].sub_ptr = @ \o w.node[r].sub_ptr]
  <1>1. /\ Formed(w) /\ DOMAIN w = Fields /\ P(w, l) = p /\ l \in N(w) /\ p \in Inner(w)
        /\ a \in 1..Len(K(w, p)) /\ K(w, p)[a] = sep /\ l \in Inner(w)
    BY NeighbourFacts DEF Neighbours, Inner
  <1>2. DOMAIN w.node[l] = InnerFields
    BY <1>1, FormedFields
  <1>3. At(w.node[w.node[l].parent].key, a - 1) = sep
    <2>1. w.node[w.node[l].parent].key[a] = sep
      BY <1>1 DEF P, K
    <2>2. (a - 1) + 1 = a
      BY <1>1
    <2> QED  BY <2>1, <2>2 DEF At
  <1>4. Wrote(w, g, l, kl, sl)
    <2>1. g = [w EXCEPT !.node[l].key = @ \o <<sep>> \o w.node[r].key,
                        !.node[l].sub_ptr = @ \o w.node[r].sub_ptr]
      BY <1>3
    <2> HIDE DEF g
    <2>2. g = [w EXCEPT !.node[l].key = w.node[l].key \o <<sep>> \o w.node[r].key,
                        !.node[l].sub_ptr = w.node[l].sub_ptr \o w.node[r].sub_ptr]
      BY <1>1, <1>2, <2>1 DEF Fields, InnerFields, N
    <2>3. kl = w.node[l].key \o <<sep>> \o w.node[r].key /\ sl = w.node[l].sub_ptr \o w.node[r].sub_ptr
      BY DEF Rows, JoinedKeys, JoinedSubs, K, S
    <2> QED  BY <2>2, <2>3 DEF Wrote
  <1>5. S(g, l) = sl
    BY <1>1, <1>2, <1>4, WroteEffect
  <1> DEFINE b2 == Adopt(g, l, children(w, l)..(children(g, l) - 1))
  <1>6. non_leaf_merge_from_right(w, l, r, a - 1) = node_delete(b2, r)
    BY DEF non_leaf_merge_from_right
  <1> HIDE DEF g
  <1>7. b2 = Adopt(g, l, Len(S(w, l))..(Len(sl) - 1))
    BY <1>5 DEF children, S
  <1> HIDE DEF b2
  <1>8. Joining(w, w, b2, l, kl, sl)
    BY <1>4, <1>7 DEF Joining
  <1>9. Close(w, w, r)
    BY <1>1, CloseSelf
  <1>10. JoinedIn(w, b2, p, l, r, kl, sl)
    BY <1>8, <1>9, JoiningEffect
  <1>11. /\ Merging(w, node_delete(b2, r), p, a, l, r, c, sep)
         /\ K(node_delete(b2, r), l) = kl /\ S(node_delete(b2, r), l) = sl
         /\ ~is_leaf(node_delete(b2, r), l)
    BY <1>10, InnerMerged
  <1> QED  BY <1>6, <1>11 DEF Fused

\* A non-leaf that is to lose a child goes into its left sibling.
LEMMA MergeIntoLeft ==
  ASSUME NEW w, NEW h, NEW R, TreeInv(w, h, R), NEW p, NEW a, NEW l, NEW r, NEW sep,
         Neighbours(w, p, a, l, r, sep), ~is_leaf(w, l), NEW c, NEW kl, NEW sl,
         Rows(w, l, r, sep, c, kl, sl), NEW t, NEW x, Gap(t, w, r, x)
  PROVE  Fused(w, non_leaf_merge_into_left(t, r, l, a - 1, x - 1), p, a, l, r, sep, c, kl, sl)
  <1> DEFINE g == [t EXCEPT !.node[l].key = @ \o <<At(t.node[t.node[r].parent].key, a - 1)>>
                                              \o Without(t.node[r].key, x - 1),
                            !.node[l].sub_ptr = @ \o Without(t.node[r].sub_ptr, (x - 1) + 1)]
  <1>1. /\ Formed(w) /\ DOMAIN w = Fields /\ P(w, r) = p /\ l \in N(w) /\ r \in N(w) /\ p \in Inner(w)
        /\ a \in 1..Len(K(w, p)) /\ K(w, p)[a] = sep /\ l \in Inner(w) /\ l # r /\ p # r /\ p \in N(w)
    BY NeighbourFacts DEF Neighbours, Inner
  <1>2. Close(w, t, r)
    BY CloseGap
  <1>3. /\ DOMAIN t = Fields /\ N(t) = N(w) /\ P(t, r) = p /\ Same(w, t, l) /\ Same(w, t, p) /\ NodeFormed(t, l)
    BY <1>1, <1>2 DEF Close, Frame
  <1>4. K(t, p) = K(w, p) /\ K(t, l) = K(w, l) /\ S(t, l) = S(w, l) /\ ~is_leaf(t, l)
    BY <1>3 DEF Same
  <1>5. DOMAIN t.node[l] = InnerFields
    BY <1>3, <1>4 DEF NodeFormed, InnerFields
  <1>6. At(t.node[t.node[r].parent].key, a - 1) = sep
    <2>1. t.node[t.node[r].parent].key[a] = sep
      BY <1>1, <1>3, <1>4 DEF P, K
    <2>2. (a - 1) + 1 = a
      BY <1>1
    <2> QED  BY <2>1, <2>2 DEF At
  <1>7. Without(t.node[r].key, x - 1) = K(w, r) /\ Without(t.node[r].sub_ptr, (x - 1) + 1) = S(w, r)
    <2>1. (x - 1) + 1 = x
      BY DEF Gap, Loose
    <2>2. Without(t.node[r].key, x - 1) = K(w, r) /\ Without(t.node[r].sub_ptr, x) = S(w, r)
      BY DEF Gap, PairOut, K, S
    <2> QED  BY <2>1, <2>2
  <1>8. Wrote(t, g, l, kl, sl)
    <2>1. g = [t EXCEPT !.node[l].key = @ \o <<sep>> \o K(w, r),
                        !.node[l].sub_ptr = @ \o S(w, r)]
      BY <1>6, <1>7
    <2> HIDE DEF g
    <2>2. g = [t EXCEPT !.node[l].key = t.node[l].key \o <<sep>> \o K(w, r),
                        !.node[l].sub_ptr = t.node[l].sub_ptr \o S(w, r)]
      BY <1>1, <1>3, <1>5, <2>1 DEF Fields, InnerFields, N
    <2>3. kl = t.node[l].key \o <<sep>> \o K(w, r) /\ sl = t.node[l].sub_ptr \o S(w, r)
      BY <1>4 DEF Rows, JoinedKeys, JoinedSubs, K, S
    <2> QED  BY <2>2, <2>3 DEF Wrote
  <1>9. S(g, l) = sl
    BY <1>1, <1>3, <1>5, <1>8, WroteEffect
  <1> DEFINE b2 == Adopt(g, l, children(t, l)..(children(g, l) - 1))
  <1>10. non_leaf_merge_into_left(t, r, l, a - 1, x - 1) = node_delete(b2, r)
    BY DEF non_leaf_merge_into_left
  <1> HIDE DEF g
  <1>11. b2 = Adopt(g, l, Len(S(w, l))..(Len(sl) - 1))
    BY <1>4, <1>9 DEF children, S
  <1> HIDE DEF b2
  <1>12. Joining(w, t, b2, l, kl, sl)
    BY <1>8, <1>11 DEF Joining
  <1>13. JoinedIn(w, b2, p, l, r, kl, sl)
    BY <1>2, <1>12, JoiningEffect
  <1>14. /\ Merging(w, node_delete(b2, r), p, a, l, r, c, sep)
         /\ K(node_delete(b2, r), l) = kl /\ S(node_delete(b2, r), l) = sl
         /\ ~is_leaf(node_delete(b2, r), l)
    BY <1>13, InnerMerged
  <1> QED  BY <1>10, <1>14 DEF Fused

\* Leaf n of w is leaf n of t without entry number x.
Thinner(t, w, n, x) ==
  /\ Formed(t) /\ n \in Leafs(t) /\ x \in 1..Len(K(t, n)) /\ w = leaf_simple_remove(t, n, x - 1)

\* What leaf_simple_remove does.
LEMMA ThinnerFacts ==
  ASSUME NEW t, NEW w, NEW n, NEW x, Thinner(t, w, n, x)
  PROVE  /\ Frame(t, w) /\ w.link = t.link /\ N(w) = N(t) /\ Formed(w) /\ is_leaf(w, n)
         /\ K(w, n) = Without(K(t, n), x - 1) /\ D(w, n) = Without(D(t, n), x - 1)
         /\ Lost(K(t, n), x, K(w, n)) /\ Lost(D(t, n), x, D(w, n))
         /\ \A m \in N(t) \ {n} : w.node[m] = t.node[m] /\ Same(t, w, m)
         /\ \A m \in N(t) : P(w, m) = P(t, m) /\ X(w, m) = X(t, m)
         /\ DOMAIN w.node[n] = DOMAIN t.node[n] /\ Close(w, t, n)
  <1>1. /\ DOMAIN t = Fields /\ n \in N(t) /\ is_leaf(t, n) /\ DOMAIN t.node[n] = LeafFields
        /\ K(t, n) \in Seq(Int) /\ D(t, n) \in Seq(Int) /\ Len(D(t, n)) = Len(K(t, n))
        /\ P(t, n) \in N(t) \cup {NULL} /\ X(t, n) \in Int
    BY FormedFields DEF Thinner, Leafs, NodeFormed
  <1>2. WroteLeaf(t, w, n, Without(K(t, n), x - 1), Without(D(t, n), x - 1))
    <2>1. w = [t EXCEPT !.node[n].key = Without(@, x - 1), !.node[n].data = Without(@, x - 1)]
      BY DEF Thinner, leaf_simple_remove
    <2>2. w = [t EXCEPT !.node[n].key = Without(t.node[n].key, x - 1),
                        !.node[n].data = Without(t.node[n].data, x - 1)]
      BY <1>1, <2>1 DEF Fields, LeafFields, N
    <2> QED  BY <2>2 DEF WroteLeaf, K, D
  <1>3. /\ Frame(t, w) /\ w.link = t.link /\ N(w) = N(t)
        /\ DOMAIN w.node[n] = LeafFields
        /\ K(w, n) = Without(K(t, n), x - 1) /\ D(w, n) = Without(D(t, n), x - 1)
        /\ P(w, n) = P(t, n) /\ X(w, n) = X(t, n)
        /\ \A m \in N(t) \ {n} : w.node[m] = t.node[m]
        /\ is_leaf(w, n)
    BY <1>1, <1>2, WroteLeafEffect
  <1>4. /\ K(w, n) \in Seq(Int) /\ D(w, n) \in Seq(Int)
        /\ Lost(K(t, n), x, K(w, n)) /\ Lost(D(t, n), x, D(w, n))
    <2>1. x - 1 \in 0..(Len(K(t, n)) - 1) /\ x - 1 \in 0..(Len(D(t, n)) - 1) /\ (x - 1) + 1 = x
      BY <1>1 DEF Thinner
    <2> DEFINE y == x - 1
    <2> HIDE DEF y
    <2>2. y \in 0..(Len(K(t, n)) - 1) /\ y \in 0..(Len(D(t, n)) - 1) /\ y + 1 = x
      BY <2>1 DEF y
    <2>3. Without(K(t, n), y) \in Seq(Int) /\ Lost(K(t, n), y + 1, Without(K(t, n), y))
      BY <1>1, <2>2, WithoutFact
    <2>4. Without(D(t, n), y) \in Seq(Int) /\ Lost(D(t, n), y + 1, Without(D(t, n), y))
      BY <1>1, <2>2, WithoutFact
    <2> QED  BY <1>3, <2>2, <2>3, <2>4 DEF y
  <1>5. Len(D(w, n)) = Len(K(w, n))
    BY <1>1, <1>4 DEF Lost
  <1>6. NodeFormed(w, n)
    BY <1>1, <1>3, <1>4, <1>5 DEF NodeFormed, LeafFields
  <1>7. ASSUME NEW m \in N(t) \ {n}
        PROVE  NodeFormed(w, m) /\ Same(t, w, m) /\ P(w, m) = P(t, m) /\ X(w, m) = X(t, m) /\ NodeFormed(t, m)
    <2>1. NodeFormed(t, m) /\ w.node[m] = t.node[m] /\ N(w) = N(t)
      BY <1>3, <1>7 DEF Thinner, Formed
    <2> QED  BY <2>1 DEF NodeFormed, Same, P, X, K, D, S, is_leaf
  <1>8. Formed(w)
    <2>1. \A m \in N(w) : NodeFormed(w, m)
      BY <1>3, <1>6, <1>7
    <2> QED  BY <1>1, <1>3, <2>1 DEF Formed, Thinner, Frame, Fields
  <1>9. Close(w, t, n)
    <2>1. \A m \in N(w) \ {n} : NodeFormed(t, m) /\ Same(w, t, m)
      BY <1>3, <1>7, SameSym
    <2>2. Frame(w, t)
      BY <1>3 DEF Frame
    <2>3. \A m \in N(w) : P(t, m) = P(w, m) /\ X(t, m) = X(w, m)
      BY <1>3, <1>7
    <2> QED  BY <1>1, <1>3, <2>1, <2>2, <2>3 DEF Close
  <1> QED  BY <1>1, <1>3, <1>4, <1>7, <1>8, <1>9

\* Under these conditions the two leaves are merged into l.
FusedLeaf(w, u, p, a, l, r, sep) ==
  /\ Merging(w, u, p, a, l, r, Len(K(w, l)), sep)
  /\ K(u, l) = K(w, l) \o K(w, r) /\ D(u, l) = D(w, l) \o D(w, r) /\ is_leaf(u, l)

\* A leaf takes in its right sibling.
LEMMA LeafFromRight ==
  ASSUME NEW w, NEW h, NEW R, TreeInv(w, h, R), NEW p, NEW a, NEW l, NEW r, NEW sep,
         Neighbours(w, p, a, l, r, sep), is_leaf(w, l)
  PROVE  FusedLeaf(w, leaf_merge_from_right(w, l, r), p, a, l, r, sep)
  <1> DEFINE g == [w EXCEPT !.node[l].key = @ \o w.node[r].key, !.node[l].data = @ \o w.node[r].data]
  <1>1. Formed(w) /\ DOMAIN w = Fields /\ l \in N(w) /\ l \in Leafs(w)
    BY NeighbourFacts DEF Neighbours, Leafs
  <1>2. DOMAIN w.node[l] = LeafFields
    BY <1>1, FormedFields
  <1>3. leaf_merge_from_right(w, l, r) = node_delete(g, r)
    BY DEF leaf_merge_from_right
  <1>4. WroteLeaf(w, g, l, K(w, l) \o K(w, r), D(w, l) \o D(w, r))
    <2>1. g = [w EXCEPT !.node[l].key = w.node[l].key \o w.node[r].key,
                        !.node[l].data = w.node[l].data \o w.node[r].data]
      BY <1>1, <1>2 DEF Fields, LeafFields, N
    <2> HIDE DEF g
    <2> QED  BY <2>1 DEF WroteLeaf, K, D
  <1> HIDE DEF g
  <1>5. Close(w, w, r)
    BY <1>1, CloseSelf
  <1>6. /\ Merging(w, node_delete(g, r), p, a, l, r, Len(K(w, l)), sep)
        /\ K(node_delete(g, r), l) = K(w, l) \o K(w, r)
        /\ D(node_delete(g, r), l) = D(w, l) \o D(w, r)
        /\ is_leaf(node_delete(g, r), l)
    BY <1>4, <1>5, LeavesMerged
  <1> QED  BY <1>3, <1>6 DEF FusedLeaf

\* A leaf that is to lose an entry goes into its left sibling.
LEMMA LeafIntoLeft ==
  ASSUME NEW w, NEW h, NEW R, TreeInv(w, h, R), NEW p, NEW a, NEW l, NEW r, NEW sep,
         Neighbours(w, p, a, l, r, sep), is_leaf(w, l), NEW t, NEW x, Thinner(t, w, r, x)
  PROVE  FusedLeaf(w, leaf_merge_into_left(t, r, l, x - 1), p, a, l, r, sep)
  <1> DEFINE g == [t EXCEPT !.node[l].key = @ \o Without(t.node[r].key, x - 1),
                            !.node[l].data = @ \o Without(t.node[r].data, x - 1)]
  <1>1. Formed(w) /\ DOMAIN w = Fields /\ l \in N(w) /\ l \in Leafs(w) /\ l # r
    BY NeighbourFacts DEF Neighbours, Leafs
  <1>2. /\ Formed(t) /\ N(w) = N(t) /\ Close(w, t, r) /\ w.node[l] = t.node[l]
        /\ K(w, r) = Without(K(t, r), x - 1) /\ D(w, r) = Without(D(t, r), x - 1)
    BY <1>1, ThinnerFacts DEF Thinner
  <1>3. DOMAIN t.node[l] = LeafFields /\ DOMAIN t = Fields /\ l \in N(t)
    BY <1>1, <1>2, FormedFields
  <1>4. leaf_merge_into_left(t, r, l, x - 1) = node_delete(g, r)
    BY DEF leaf_merge_into_left
  <1>5. WroteLeaf(t, g, l, K(w, l) \o K(w, r), D(w, l) \o D(w, r))
    <2>1. g = [t EXCEPT !.node[l].key = t.node[l].key \o Without(t.node[r].key, x - 1),
                        !.node[l].data = t.node[l].data \o Without(t.node[r].data, x - 1)]
      BY <1>3 DEF Fields, LeafFields, N
    <2> HIDE DEF g
    <2> QED  BY <1>2, <2>1 DEF WroteLeaf, K, D
  <1> HIDE DEF g
  <1>6. /\ Merging(w, node_delete(g, r), p, a, l, r, Len(K(w, l)), sep)
        /\ K(node_delete(g, r), l) = K(w, l) \o K(w, r)
        /\ D(node_delete(g, r), l) = D(w, l) \o D(w, r)
        /\ is_leaf(node_delete(g, r), l)
    BY <1>2, <1>5, LeavesMerged
  <1> QED  BY <1>4, <1>6 DEF FusedLeaf

-----------------------------------------------------------------------------
\* The merge that a shift is measured by.

\* Two non-leafs merged, and what their parent loses with that.
Imagined(w, h, R, u0, v, p, a, l, r, sep, c, kl, sl) ==
  /\ MergingIn(w, h, R, u0, p, a, l, r, c, sep) /\ PairOut(u0, v, p, a)
  /\ K(u0, l) = kl /\ S(u0, l) = sl /\ ~is_leaf(u0, l)

\* There is such a merge: the code's own.
LEMMA ImaginedInner ==
  ASSUME NEW w, NEW h, NEW R, TreeInv(w, h, R), w.ok = TRUE, NEW p, NEW a, NEW l, NEW r, NEW sep,
         Neighbours(w, p, a, l, r, sep), ~is_leaf(w, l), NEW c, NEW kl, NEW sl,
         Rows(w, l, r, sep, c, kl, sl)
  PROVE  \E u0, v : Imagined(w, h, R, u0, v, p, a, l, r, sep, c, kl, sl)
  <1> DEFINE u0 == non_leaf_merge_from_right(w, l, r, a - 1)
             v == non_leaf_simple_remove(u0, p, a - 1)
  <1>1. Fused(w, u0, p, a, l, r, sep, c, kl, sl)
    BY MergeFromRight
  <1> HIDE DEF u0
  <1>2. MergingIn(w, h, R, u0, p, a, l, r, c, sep)
    BY <1>1 DEF Fused, MergingIn
  <1>3. PairOut(u0, v, p, a)
    BY <1>2, MergingOut DEF Gap
  <1> HIDE DEF v
  <1>4. Imagined(w, h, R, u0, v, p, a, l, r, sep, c, kl, sl)
    BY <1>1, <1>2, <1>3 DEF Fused, Imagined
  <1> QED  BY <1>4

\* Two leaves merged, and what their parent loses with that.
ImaginedLeafs(w, h, R, u0, v, p, a, l, r, sep) ==
  /\ MergingIn(w, h, R, u0, p, a, l, r, Len(K(w, l)), sep) /\ PairOut(u0, v, p, a)
  /\ K(u0, l) = K(w, l) \o K(w, r) /\ D(u0, l) = D(w, l) \o D(w, r) /\ is_leaf(u0, l)

\* There is such a merge: the code's own.
LEMMA ImaginedLeaf ==
  ASSUME NEW w, NEW h, NEW R, TreeInv(w, h, R), w.ok = TRUE, NEW p, NEW a, NEW l, NEW r, NEW sep,
         Neighbours(w, p, a, l, r, sep), is_leaf(w, l)
  PROVE  \E u0, v : ImaginedLeafs(w, h, R, u0, v, p, a, l, r, sep)
  <1> DEFINE u0 == leaf_merge_from_right(w, l, r)
             v == non_leaf_simple_remove(u0, p, a - 1)
  <1>1. FusedLeaf(w, u0, p, a, l, r, sep)
    BY LeafFromRight
  <1> HIDE DEF u0
  <1>2. MergingIn(w, h, R, u0, p, a, l, r, Len(K(w, l)), sep)
    BY <1>1 DEF FusedLeaf, MergingIn
  <1>3. PairOut(u0, v, p, a)
    BY <1>2, MergingOut DEF Gap
  <1> HIDE DEF v
  <1>4. ImaginedLeafs(w, h, R, u0, v, p, a, l, r, sep)
    BY <1>1, <1>2, <1>3 DEF FusedLeaf, ImaginedLeafs
  <1> QED  BY <1>4

-----------------------------------------------------------------------------
\* Two non-leafs and the key between them are written.

\* The nodes x and y have got new arrays and p new keys.
WroteThree(b, g, x, k1, s1, p, kp, y, k2, s2) ==
  g = [b EXCEPT !.node[x].key = k1, !.node[x].sub_ptr = s1, !.node[p].key = kp,
                !.node[y].key = k2, !.node[y].sub_ptr = s2]

\* Nothing else has changed.
LEMMA WroteThreeEffect ==
  ASSUME NEW b, NEW g, NEW x, NEW k1, NEW s1, NEW p, NEW kp, NEW y, NEW k2, NEW s2,
         WroteThree(b, g, x, k1, s1, p, kp, y, k2, s2),
         DOMAIN b = Fields, x \in N(b), y \in N(b), p \in N(b), x # y, x # p, y # p,
         DOMAIN b.node[x] = InnerFields, DOMAIN b.node[y] = InnerFields, DOMAIN b.node[p] = InnerFields
  PROVE  /\ Frame(b, g) /\ g.link = b.link /\ N(g) = N(b)
         /\ \A m \in N(b) : DOMAIN g.node[m] = DOMAIN b.node[m] /\ is_leaf(g, m) = is_leaf(b, m)
         /\ K(g, x) = k1 /\ S(g, x) = s1 /\ K(g, y) = k2 /\ S(g, y) = s2
         /\ K(g, p) = kp /\ S(g, p) = S(b, p)
         /\ \A m \in N(b) : P(g, m) = P(b, m) /\ X(g, m) = X(b, m)
         /\ \A m \in N(b) \ {x, p, y} : g.node[m] = b.node[m]
  <1> DEFINE rx == [b.node[x] EXCEPT !.key = k1, !.sub_ptr = s1]
             rp == [b.node[p] EXCEPT !.key = kp]
             ry == [b.node[y] EXCEPT !.key = k2, !.sub_ptr = s2]
             nn == [b.node EXCEPT ![x] = rx, ![p] = rp, ![y] = ry]
  <1>1. g = [b EXCEPT !.node = nn]
    <2> DEFINE g1 == [b EXCEPT !.node[x].key = k1, !.node[x].sub_ptr = s1]
               g2 == [g1 EXCEPT !.node[p].key = kp]
               n1 == [b.node EXCEPT ![x] = rx]
               n2 == [n1 EXCEPT ![p] = rp]
               n3 == [n2 EXCEPT ![y] = ry]
    <2>1. g = [g2 EXCEPT !.node[y].key = k2, !.node[y].sub_ptr = s2]
      BY DEF WroteThree
    <2>2. g1 = [b EXCEPT !.node = n1]
      BY DEF Fields, N
    <2>3. g2 = [g1 EXCEPT !.node = n2]
      <3>1. g1.node = n1 /\ n1[p] = b.node[p] /\ p \in DOMAIN n1
        BY <2>2 DEF Fields, N
      <3> HIDE DEF g1, n1
      <3> QED  BY <3>1
    <2>4. g = [g2 EXCEPT !.node = n3]
      <3>1. DOMAIN g1 = Fields /\ DOMAIN g2 = Fields
        BY DEF Fields
      <3>2. n2[y] = b.node[y] /\ y \in DOMAIN n2
        BY DEF N
      <3> HIDE DEF g1, n2
      <3>3. g2.node = n2
        BY <2>3, <3>1 DEF Fields
      <3> HIDE DEF g2
      <3> QED  BY <2>1, <3>1, <3>2, <3>3 DEF Fields
    <2>5. DOMAIN g1 = Fields
      BY DEF Fields
    <2>6. n3 = nn
      OBVIOUS
    <2> HIDE DEF nn, n1, n2, n3, g1, g2
    <2>7. g2 = [b EXCEPT !.node = n2]
      BY <2>2, <2>3 DEF Fields
    <2>8. g = [b EXCEPT !.node = n3]
      BY <2>4, <2>7 DEF Fields
    <2> QED  BY <2>6, <2>8
  <1>2. /\ nn[x] = rx /\ nn[p] = rp /\ nn[y] = ry /\ DOMAIN nn = DOMAIN b.node
        /\ \A m \in N(b) \ {x, p, y} : nn[m] = b.node[m]
    BY DEF N
  <1>3. /\ DOMAIN rx = InnerFields /\ rx.type = b.node[x].type /\ rx.key = k1 /\ rx.sub_ptr = s1
        /\ rx.parent = b.node[x].parent /\ rx.parent_key_idx = b.node[x].parent_key_idx
    BY DEF InnerFields
  <1>4. /\ DOMAIN ry = InnerFields /\ ry.type = b.node[y].type /\ ry.key = k2 /\ ry.sub_ptr = s2
        /\ ry.parent = b.node[y].parent /\ ry.parent_key_idx = b.node[y].parent_key_idx
    BY DEF InnerFields
  <1>5. /\ DOMAIN rp = InnerFields /\ rp.type = b.node[p].type /\ rp.key = kp /\ rp.sub_ptr = b.node[p].sub_ptr
        /\ rp.parent = b.node[p].parent /\ rp.parent_key_idx = b.node[p].parent_key_idx
    BY DEF InnerFields
  <1> HIDE DEF rx, rp, ry, nn
  <1>6. /\ DOMAIN g = Fields /\ g.node = nn
        /\ g.root = b.root /\ g.level = b.level /\ g.ok = b.ok
        /\ g.order = b.order /\ g.entries = b.entries /\ g.link = b.link
    BY <1>1 DEF Fields
  <1>7. \A m \in N(b) \ {x, p, y} : g.node[m] = b.node[m]
    BY <1>2, <1>6
  <1>8. g.node[x] = rx /\ g.node[y] = ry /\ g.node[p] = rp
    BY <1>2, <1>6
  <1>9. ASSUME NEW m \in N(b)
        PROVE  /\ DOMAIN g.node[m] = DOMAIN b.node[m] /\ is_leaf(g, m) = is_leaf(b, m)
               /\ P(g, m) = P(b, m) /\ X(g, m) = X(b, m)
    <2>1. CASE m \in {x, p, y}
      BY <1>3, <1>4, <1>5, <1>8, <2>1 DEF is_leaf, P, X
    <2>2. CASE m \notin {x, p, y}
      BY <1>7, <2>2 DEF is_leaf, P, X
    <2> QED  BY <2>1, <2>2
  <1>10. Frame(b, g) /\ N(g) = N(b)
    BY <1>2, <1>6 DEF Frame, N
  <1>11. K(g, x) = k1 /\ S(g, x) = s1 /\ K(g, y) = k2 /\ S(g, y) = s2 /\ K(g, p) = kp /\ S(g, p) = S(b, p)
    BY <1>3, <1>4, <1>5, <1>8 DEF K, S
  <1> QED  BY <1>6, <1>7, <1>9, <1>10, <1>11

\* The arrays fit.
Couple(w, k, s) == k \in Seq(Int) /\ s \in Seq(N(w)) /\ Len(s) = Len(k) + 1

\* g is w but for the places of nodes that hang off r and the arrays of l and r
\* and the keys of p.
Swapped(w, b, g, p, kp, l, k1, s1, r, k2, s2) ==
  /\ Frame(w, g) /\ g.link = w.link /\ N(g) = N(w)
  /\ \A m \in N(w) : DOMAIN g.node[m] = DOMAIN w.node[m] /\ is_leaf(g, m) = is_leaf(w, m)
  /\ K(g, l) = k1 /\ S(g, l) = s1 /\ K(g, r) = k2 /\ S(g, r) = s2
  /\ K(g, p) = kp /\ S(g, p) = S(w, p)
  /\ \A m \in N(w) : P(g, m) = P(w, m) /\ X(g, m) = X(b, m)
  /\ \A m \in N(w) \ {l, p, r} : g.node[m] = b.node[m]

\* The children that have moved, and the others of l and r, are told.
Told(w, g, u, l, r) ==
  /\ Frame(g, u) /\ u.link = g.link /\ N(u) = N(g)
  /\ \A m \in N(w) : Alike(g, u, m)
  /\ \A m \in N(w) : P(w, m) \notin {l, r} => P(u, m) = P(w, m) /\ X(u, m) = X(w, m)
  /\ \A m \in N(w) : P(u, m) \in N(w) \cup {NULL} /\ X(u, m) \in Int

\* With that l and r are as in a shift.
LEMMA SwapDone ==
  ASSUME NEW w, NEW p, NEW a, NEW l, NEW r, NEW sep, NEW h, NEW R, TreeInv(w, h, R),
         Neighbours(w, p, a, l, r, sep), ~is_leaf(w, l), NEW b, Close(w, b, r),
         NEW g, NEW sep2, NEW k1, NEW s1, NEW k2, NEW s2, NEW u,
         Swapped(w, b, g, p, SetAt(K(w, p), a - 1, sep2), l, k1, s1, r, k2, s2),
         Couple(w, k1, s1), Couple(w, k2, s2), sep2 \in Int, Told(w, g, u, l, r)
  PROVE  /\ Shifting(w, u, p, a, l, r, sep2)
         /\ K(u, l) = k1 /\ S(u, l) = s1 /\ K(u, r) = k2 /\ S(u, r) = s2
         /\ ~is_leaf(u, l) /\ ~is_leaf(u, r)
  <1> DEFINE kp == SetAt(K(w, p), a - 1, sep2)
  <1>1. /\ Formed(w) /\ p \in Inner(w) /\ p \in N(w) /\ l # r /\ l \in N(w) /\ r \in N(w) /\ p # l /\ p # r
        /\ K(w, p) \in Seq(Int) /\ S(w, p) \in Seq(N(w)) /\ Len(S(w, p)) = Len(K(w, p)) + 1
        /\ a \in 1..Len(K(w, p)) /\ ~is_leaf(w, r) /\ ~is_leaf(w, p)
    BY NeighbourFacts DEF Neighbours, Inner
  <1>2. kp \in Seq(Int) /\ Len(kp) = Len(K(w, p))
    BY <1>1 DEF SetAt
  <1> HIDE DEF kp
  <1>3. Swapped(w, b, g, p, kp, l, k1, s1, r, k2, s2)
    BY DEF kp
  <1>4. /\ Frame(w, g) /\ g.link = w.link /\ N(g) = N(w)
        /\ \A m \in N(w) : DOMAIN g.node[m] = DOMAIN w.node[m] /\ is_leaf(g, m) = is_leaf(w, m)
        /\ K(g, l) = k1 /\ S(g, l) = s1 /\ K(g, r) = k2 /\ S(g, r) = s2
        /\ K(g, p) = kp /\ S(g, p) = S(w, p)
        /\ \A m \in N(w) : P(g, m) = P(w, m) /\ X(g, m) = X(b, m)
        /\ \A m \in N(w) \ {l, p, r} : g.node[m] = b.node[m]
    BY <1>3 DEF Swapped
  <1>5. /\ Frame(g, u) /\ u.link = g.link /\ N(u) = N(g)
        /\ \A m \in N(w) : Alike(g, u, m)
        /\ \A m \in N(w) : P(w, m) \notin {l, r} => P(u, m) = P(w, m) /\ X(u, m) = X(w, m)
        /\ \A m \in N(w) : P(u, m) \in N(w) \cup {NULL} /\ X(u, m) \in Int
    BY DEF Told
  <1>6. Frame(w, u) /\ N(u) = N(w) /\ u.link = w.link
    BY <1>4, <1>5 DEF Frame
  <1>7. ASSUME NEW m \in N(w) \ {p, l, r} PROVE NodeFormed(u, m) /\ Same(w, u, m)
    <2>1. NodeFormed(b, m) /\ Same(w, b, m) /\ N(b) = N(w) /\ g.node[m] = b.node[m]
      BY <1>4, <1>7 DEF Close
    <2>2. Alike(b, u, m)
      BY <1>5, <2>1 DEF Alike
    <2>3. NodeFormed(u, m) /\ Same(b, u, m)
      BY <1>5, <1>6, <2>1, <2>2, AlikeFormed
    <2> QED  BY <2>1, <2>3, SameTrans
  <1>8. ASSUME NEW m \in {p, l, r}
        PROVE  /\ DOMAIN u.node[m] = InnerFields /\ ~is_leaf(u, m)
               /\ K(u, m) = K(g, m) /\ S(u, m) = S(g, m)
    <2>1. m \in N(w) /\ ~is_leaf(w, m) /\ ~is_leaf(g, m) /\ DOMAIN g.node[m] = InnerFields
      BY <1>1, <1>4, FormedFields DEF Inner
    <2>2. Alike(g, u, m)
      BY <1>5, <2>1
    <2>3. "sub_ptr" \in DOMAIN g.node[m]
      BY <2>1 DEF InnerFields
    <2> QED  BY <2>1, <2>2, <2>3 DEF Alike, K, S, is_leaf
  <1>9. ASSUME NEW m \in {p, l, r} PROVE NodeFormed(u, m)
    <2>1. K(g, m) \in Seq(Int) /\ S(g, m) \in Seq(N(u)) /\ Len(S(g, m)) = Len(K(g, m)) + 1
      BY <1>1, <1>2, <1>4, <1>6 DEF Couple
    <2>2. P(u, m) \in N(u) \cup {NULL} /\ X(u, m) \in Int
      BY <1>1, <1>5, <1>6
    <2> QED  BY <1>8, <2>1, <2>2 DEF NodeFormed, InnerFields
  <1>10. \A m \in N(w) : NodeFormed(u, m)
    BY <1>7, <1>9
  <1>11. ~is_leaf(u, p) /\ K(u, p) = kp /\ S(u, p) = S(w, p)
    BY <1>4, <1>8
  <1>12. Shifting(w, u, p, a, l, r, sep2)
    BY <1>5, <1>6, <1>7, <1>10, <1>11 DEF Shifting, kp
  <1>13. /\ K(u, l) = k1 /\ S(u, l) = s1 /\ K(u, r) = k2 /\ S(u, r) = s2
         /\ ~is_leaf(u, l) /\ ~is_leaf(u, r)
    BY <1>4, <1>8
  <1> QED  BY <1>12, <1>13

-----------------------------------------------------------------------------
\* The last child of the left sibling goes to the right.

\* The arrays of the two nodes afterwards.
RolledRight(w, l, r, sep, c, k1, s1, k2, s2, e, sep2) ==
  /\ c = Len(S(w, l)) /\ e = S(w, l)[c] /\ sep2 = K(w, l)[c - 1]
  /\ k1 = Slice(K(w, l), 0, c - 3) /\ s1 = Slice(S(w, l), 0, c - 2)
  /\ k2 = <<sep>> \o K(w, r) /\ s2 = <<e>> \o S(w, r)

\* The merged arrays are cut one place earlier.
LEMMA RolledRightFacts ==
  ASSUME NEW w, NEW h, NEW R, TreeInv(w, h, R), NEW p, NEW a, NEW l, NEW r, NEW sep,
         Neighbours(w, p, a, l, r, sep), ~is_leaf(w, l), Len(S(w, l)) >= 2,
         NEW c, NEW k1, NEW s1, NEW k2, NEW s2, NEW e, NEW sep2,
         RolledRight(w, l, r, sep, c, k1, s1, k2, s2, e, sep2),
         NEW kl, NEW sl, Rows(w, l, r, sep, c, kl, sl)
  PROVE  /\ Couple(w, k1, s1) /\ Couple(w, k2, s2) /\ sep2 \in Int
         /\ c \in Nat /\ c >= 2 /\ Len(s1) = c - 1 /\ \A j \in 1..(c - 1) : s1[j] = S(w, l)[j]
         /\ Len(s2) = Len(S(w, r)) + 1 /\ s2[1] = e
         /\ \A j \in 2..(Len(S(w, r)) + 1) : s2[j] = S(w, r)[j - 1]
         /\ c - 1 \in 1..Len(kl) /\ sep2 = kl[c - 1]
         /\ Cut(kl, c - 2, c - 1, k1, k2) /\ Cut(sl, c - 1, c - 1, s1, s2)
  <1>1. /\ K(w, l) \in Seq(Int) /\ K(w, r) \in Seq(Int)
        /\ S(w, l) \in Seq(N(w)) /\ S(w, r) \in Seq(N(w))
        /\ Len(S(w, l)) = Len(K(w, l)) + 1 /\ Len(S(w, r)) = Len(K(w, r)) + 1
        /\ kl \in Seq(Int) /\ sl \in Seq(N(w)) /\ Len(sl) = Len(kl) + 1
        /\ Len(sl) = Len(S(w, l)) + Len(S(w, r))
        /\ c \in 1..Len(kl) /\ kl[c] = sep
        /\ Cut(kl, c - 1, c, K(w, l), K(w, r)) /\ Cut(sl, c, c, S(w, l), S(w, r))
    BY JoinedArrays
  <1>2. /\ c = Len(S(w, l)) /\ e = S(w, l)[c] /\ sep2 = K(w, l)[c - 1]
        /\ k1 = Slice(K(w, l), 0, c - 3) /\ s1 = Slice(S(w, l), 0, c - 2)
        /\ k2 = <<sep>> \o K(w, r) /\ s2 = <<e>> \o S(w, r)
    BY DEF RolledRight
  <1> DEFINE nk == Len(kl)
             ns == Len(sl)
             nr == Len(S(w, r))
  <1>11. /\ kl \in Seq(Int) /\ c \in 1..Len(kl) /\ kl[c] = sep
         /\ S(w, r) \in Seq(N(w)) /\ Len(sl) = Len(kl) + 1 /\ Len(sl) = Len(S(w, l)) + Len(S(w, r))
    BY <1>1
  <1>12. nk \in Nat /\ ns = nk + 1 /\ nr \in Nat /\ ns = c + nr /\ c \in 1..nk
    <2>1. nk \in Nat /\ nr \in Nat
      BY <1>11
    <2>2. ns = nk + 1 /\ ns = c + nr /\ c \in 1..nk
      BY <1>2, <1>11
    <2> QED  BY <2>1, <2>2
  <1>13. c \in Int /\ c >= 2
    <2>1. c >= 2
      BY <1>2
    <2> QED  BY <1>12, <2>1
  <1>14. sep \in Int
    BY <1>11
  <1> HIDE DEF nk, ns, nr
  <1>15. c \in 2..nk /\ c \in 1..ns /\ c \in Nat /\ c - 1 \in 1..nk
    BY <1>12, <1>13
  <1>3. /\ c \in 2..Len(kl) /\ c \in 1..Len(sl) /\ c \in Nat /\ c >= 2 /\ sep \in Int /\ Len(kl) \in Nat
        /\ c - 1 \in 1..Len(kl)
    BY <1>12, <1>13, <1>14, <1>15 DEF nk, ns
  <1>4. /\ k1 \in Seq(Int) /\ k2 \in Seq(Int) /\ sep2 = kl[c - 1]
        /\ Cut(kl, c - 2, c - 1, k1, k2)
    <2>2. /\ kl \in Seq(Int) /\ c \in 2..Len(kl) /\ K(w, l) \in Seq(Int) /\ K(w, r) \in Seq(Int)
          /\ Cut(kl, c - 1, c, K(w, l), K(w, r)) /\ sep \in Int /\ sep = kl[c]
      BY <1>1, <1>3
    <2>1. /\ Slice(K(w, l), 0, c - 3) \in Seq(Int) /\ <<sep>> \o K(w, r) \in Seq(Int)
          /\ K(w, l)[c - 1] = kl[c - 1]
          /\ Cut(kl, c - 2, c - 1, Slice(K(w, l), 0, c - 3), <<sep>> \o K(w, r))
      BY <2>2, RollRightKey
    <2> QED  BY <1>2, <2>1
  <1>5. /\ s1 \in Seq(N(w)) /\ s2 \in Seq(N(w)) /\ Cut(sl, c - 1, c - 1, s1, s2)
    BY <1>1, <1>2, <1>3, RollRight
  <1>6. Len(k1) = c - 2 /\ Len(s1) = c - 1 /\ Len(k2) = Len(kl) - (c - 1) /\ Len(s2) = Len(sl) - (c - 1)
    BY <1>4, <1>5 DEF Cut
  <1>7. Len(s1) = Len(k1) + 1 /\ Len(s2) = Len(k2) + 1 /\ Len(s2) = Len(S(w, r)) + 1
    <2>1. Len(k1) = c - 2 /\ Len(s1) = c - 1 /\ Len(k2) = nk - (c - 1) /\ Len(s2) = ns - (c - 1)
      BY <1>6 DEF nk, ns
    <2>2. Len(s1) = Len(k1) + 1 /\ Len(s2) = Len(k2) + 1 /\ Len(s2) = nr + 1
      BY <2>1, <1>12, <1>13
    <2> QED  BY <2>2 DEF nr
  <1>8. c - 1 \in 1..Len(kl) /\ sep2 \in Int
    <2>1. kl[c - 1] \in Int
      BY <1>3, <1>11
    <2> QED  BY <1>3, <1>4, <2>1
  <1>9. \A j \in 1..(c - 1) : s1[j] = S(w, l)[j]
    <2>1. ASSUME NEW j \in 1..(c - 1) PROVE s1[j] = S(w, l)[j]
      <3>1. j \in 1..c
        BY <1>3
      <3> QED  BY <1>1, <1>5, <3>1 DEF Cut
    <2> QED  BY <2>1
  <1>10. s2[1] = e /\ \A j \in 2..(Len(S(w, r)) + 1) : s2[j] = S(w, r)[j - 1]
    <2>1. e \in N(w)
      BY <1>1, <1>2, <1>3
    <2>4. \A j \in 1..(Len(S(w, r)) + 1) : (<<e>> \o S(w, r))[j] = IF j = 1 THEN e ELSE S(w, r)[j - 1]
      BY <1>11, <2>1, OpenFact
    <2>2. \A j \in 1..(Len(S(w, r)) + 1) : s2[j] = IF j = 1 THEN e ELSE S(w, r)[j - 1]
      BY <1>2, <2>4
    <2>3. 1 \in 1..(Len(S(w, r)) + 1) /\ \A j \in 2..(Len(S(w, r)) + 1) : j # 1 /\ j \in 1..(Len(S(w, r)) + 1)
      <3>1. 1 \in 1..(nr + 1) /\ \A j \in 2..(nr + 1) : j # 1 /\ j \in 1..(nr + 1)
        BY <1>12
      <3> QED  BY <3>1 DEF nr
    <2> QED  BY <2>2, <2>3
  <1> QED  BY <1>3, <1>4, <1>5, <1>6, <1>7, <1>8, <1>9, <1>10 DEF Couple

\* The two nodes and the key between them are written.
LEMMA FromLeftWrites ==
  ASSUME NEW w, NEW h, NEW R, TreeInv(w, h, R), NEW p, NEW a, NEW l, NEW r, NEW sep,
         Neighbours(w, p, a, l, r, sep), ~is_leaf(w, l), NEW t, NEW x, Gap(t, w, r, x),
         NEW c, NEW k1, NEW s1, NEW k2, NEW s2, NEW e, NEW sep2,
         RolledRight(w, l, r, sep, c, k1, s1, k2, s2, e, sep2)
  PROVE  \E g : /\ Swapped(w, t, g, p, SetAt(K(w, p), a - 1, sep2), l, k1, s1, r, k2, s2)
                /\ non_leaf_shift_from_left(t, r, l, a - 1, x - 1)
                     = Adopt(Renumber(g, r, 1..x), r, {0})
  <1>1. /\ Formed(w) /\ DOMAIN w = Fields /\ P(w, r) = p /\ l \in N(w) /\ r \in N(w) /\ p \in Inner(w)
        /\ a \in 1..Len(K(w, p)) /\ K(w, p)[a] = sep /\ l \in Inner(w) /\ l # r /\ p # r /\ p # l
        /\ p \in N(w) /\ r \in Inner(w) /\ K(w, p) \in Seq(Int)
    BY NeighbourFacts DEF Neighbours, Inner
  <1>2. Close(w, t, r)
    BY CloseGap
  <1>3. /\ DOMAIN t = Fields /\ N(t) = N(w) /\ P(t, r) = p /\ Same(w, t, l) /\ Same(w, t, p)
        /\ NodeFormed(t, l) /\ NodeFormed(t, p) /\ Frame(w, t) /\ t.link = w.link
        /\ DOMAIN t.node[r] = DOMAIN w.node[r]
    BY <1>1, <1>2 DEF Close, Frame
  <1>4. /\ K(t, p) = K(w, p) /\ S(t, p) = S(w, p) /\ K(t, l) = K(w, l) /\ S(t, l) = S(w, l)
        /\ ~is_leaf(t, l) /\ ~is_leaf(t, p)
    BY <1>1, <1>3 DEF Same, Inner
  <1>5. DOMAIN t.node[l] = InnerFields /\ DOMAIN t.node[p] = InnerFields /\ DOMAIN t.node[r] = InnerFields
    BY <1>1, <1>3, <1>4, FormedFields DEF NodeFormed, InnerFields
  <1>6. Without(t.node[r].key, x - 1) = K(w, r) /\ Without(t.node[r].sub_ptr, (x - 1) + 1) = S(w, r)
        /\ (x - 1) + 1 = x /\ ~is_leaf(t, r) /\ ~is_leaf(w, r)
    <2>1. (x - 1) + 1 = x /\ ~is_leaf(t, r)
      BY DEF Gap, Loose
    <2>2. Without(t.node[r].key, x - 1) = K(w, r) /\ Without(t.node[r].sub_ptr, x) = S(w, r) /\ ~is_leaf(w, r)
      BY DEF Gap, PairOut, K, S
    <2> QED  BY <2>1, <2>2
  <1> DEFINE kp == SetAt(K(w, p), a - 1, sep2)
             up == t.node[r].parent
             ll == t.node[l]
             last == children(t, l) - 1
             g == [t EXCEPT
                     !.node[r].key = <<At(t.node[up].key, a - 1)>> \o Without(@, x - 1),
                     !.node[r].sub_ptr = <<At(ll.sub_ptr, last)>> \o Without(@, (x - 1) + 1),
                     !.node[up].key = SetAt(@, a - 1, At(ll.key, last - 1)),
                     !.node[l].key = Slice(@, 0, last - 2),
                     !.node[l].sub_ptr = Slice(@, 0, last - 1)]
  <1>7. /\ c = Len(S(w, l)) /\ e = S(w, l)[c] /\ sep2 = K(w, l)[c - 1]
        /\ k1 = Slice(K(w, l), 0, c - 3) /\ s1 = Slice(S(w, l), 0, c - 2)
        /\ k2 = <<sep>> \o K(w, r) /\ s2 = <<e>> \o S(w, r) /\ c \in Nat
    <2>1. Len(S(w, l)) \in Nat
      BY <1>1, FormedFields
    <2> QED  BY <2>1 DEF RolledRight
  <1>8. /\ up = p /\ At(t.node[up].key, a - 1) = sep
        /\ last = c - 1 /\ last - 1 = c - 2 /\ last - 2 = c - 3
        /\ At(ll.sub_ptr, last) = e /\ At(ll.key, last - 1) = sep2
    <2>1. up = p /\ t.node[up].key = K(w, p) /\ ll.sub_ptr = S(w, l) /\ ll.key = K(w, l)
      BY <1>3, <1>4 DEF P, K, S
    <2>2. (a - 1) + 1 = a /\ last = c - 1 /\ last - 1 = c - 2 /\ last - 2 = c - 3 /\ last + 1 = c /\ (last - 1) + 1 = c - 1
      BY <1>1, <1>4, <1>7 DEF children, S
    <2> HIDE DEF last, up, ll
    <2> QED  BY <1>1, <1>7, <2>1, <2>2 DEF At
  <1>9. non_leaf_shift_from_left(t, r, l, a - 1, x - 1) = Adopt(Renumber(g, r, 1..((x - 1) + 1)), r, {0})
    BY DEF non_leaf_shift_from_left
  <1>10. g = [t EXCEPT
                !.node[r].key = <<sep>> \o Without(@, x - 1),
                !.node[r].sub_ptr = <<e>> \o Without(@, (x - 1) + 1),
                !.node[p].key = SetAt(@, a - 1, sep2),
                !.node[l].key = Slice(@, 0, c - 3),
                !.node[l].sub_ptr = Slice(@, 0, c - 2)]
    <2> HIDE DEF up, last, ll
    <2> QED  BY <1>8
  <1> HIDE DEF g, last, up, ll
  <1>11. g = [t EXCEPT
                !.node[r].key = k2, !.node[r].sub_ptr = s2, !.node[p].key = kp,
                !.node[l].key = k1, !.node[l].sub_ptr = s1]
    <2>1. g = [t EXCEPT
                !.node[r].key = <<sep>> \o Without(t.node[r].key, x - 1),
                !.node[r].sub_ptr = <<e>> \o Without(t.node[r].sub_ptr, (x - 1) + 1),
                !.node[p].key = SetAt(t.node[p].key, a - 1, sep2),
                !.node[l].key = Slice(t.node[l].key, 0, c - 3),
                !.node[l].sub_ptr = Slice(t.node[l].sub_ptr, 0, c - 2)]
      BY <1>1, <1>3, <1>5, <1>10 DEF Fields, InnerFields, N
    <2>2. /\ <<sep>> \o Without(t.node[r].key, x - 1) = k2
          /\ <<e>> \o Without(t.node[r].sub_ptr, (x - 1) + 1) = s2
          /\ SetAt(t.node[p].key, a - 1, sep2) = kp
          /\ Slice(t.node[l].key, 0, c - 3) = k1 /\ Slice(t.node[l].sub_ptr, 0, c - 2) = s1
      BY <1>4, <1>6, <1>7 DEF K, S
    <2> QED  BY <2>1, <2>2
  <1> HIDE DEF kp
  <1>12. WroteThree(t, g, r, k2, s2, p, kp, l, k1, s1)
    BY <1>11 DEF WroteThree
  <1>13. /\ Frame(t, g) /\ g.link = t.link /\ N(g) = N(t)
         /\ \A m \in N(t) : DOMAIN g.node[m] = DOMAIN t.node[m] /\ is_leaf(g, m) = is_leaf(t, m)
         /\ K(g, r) = k2 /\ S(g, r) = s2 /\ K(g, l) = k1 /\ S(g, l) = s1
         /\ K(g, p) = kp /\ S(g, p) = S(t, p)
         /\ \A m \in N(t) : P(g, m) = P(t, m) /\ X(g, m) = X(t, m)
         /\ \A m \in N(t) \ {r, p, l} : g.node[m] = t.node[m]
    BY <1>1, <1>3, <1>5, <1>12, WroteThreeEffect
  <1>14. \A m \in N(w) : DOMAIN g.node[m] = DOMAIN w.node[m] /\ is_leaf(g, m) = is_leaf(w, m)
    <2>1. ASSUME NEW m \in N(w) PROVE DOMAIN g.node[m] = DOMAIN w.node[m] /\ is_leaf(g, m) = is_leaf(w, m)
      <3>1. CASE m = r
        <4>1. is_leaf(g, m) = is_leaf(t, m) /\ DOMAIN g.node[m] = DOMAIN t.node[m]
          BY <1>3, <1>13
        <4>2. is_leaf(t, m) = is_leaf(w, m)
          BY <1>6, <3>1 DEF is_leaf
        <4> QED  BY <1>3, <3>1, <4>1, <4>2
      <3>2. CASE m # r
        <4>1. Same(w, t, m) /\ NodeFormed(t, m) /\ NodeFormed(w, m)
          BY <1>1, <1>2, <3>2 DEF Close, Formed
        <4>2. DOMAIN t.node[m] = DOMAIN w.node[m] /\ is_leaf(t, m) = is_leaf(w, m)
          BY <4>1 DEF Same, NodeFormed, is_leaf
        <4> QED  BY <1>3, <1>13, <4>2
      <3> QED  BY <3>1, <3>2
    <2> QED  BY <2>1
  <1>15. Swapped(w, t, g, p, kp, l, k1, s1, r, k2, s2)
    <2>1. Frame(w, g)
      BY <1>3, <1>13 DEF Frame
    <2>2. \A m \in N(w) : P(g, m) = P(w, m) /\ X(g, m) = X(t, m)
      BY <1>2, <1>3, <1>13 DEF Close
    <2> QED  BY <1>3, <1>4, <1>13, <1>14, <2>1, <2>2 DEF Swapped
  <1> QED  BY <1>6, <1>9, <1>15 DEF kp

\* Where the children of the two nodes are afterwards.
ToRight(w, l, r, c, s1, s2, e) ==
  /\ c \in Nat /\ c >= 2 /\ c = Len(S(w, l)) /\ e = S(w, l)[c]
  /\ Len(s1) = c - 1 /\ \A j \in 1..(c - 1) : s1[j] = S(w, l)[j]
  /\ Len(s2) = Len(S(w, r)) + 1 /\ s2[1] = e
  /\ \A j \in 2..(Len(S(w, r)) + 1) : s2[j] = S(w, r)[j - 1]

\* The child that has moved, and those it has moved away, are told.
LEMMA FromLeftTells ==
  ASSUME NEW w, NEW h, NEW R, TreeInv(w, h, R), NEW p, NEW a, NEW l, NEW r, NEW sep,
         Neighbours(w, p, a, l, r, sep), ~is_leaf(w, l), NEW t, NEW x, Gap(t, w, r, x),
         NEW c, NEW k1, NEW s1, NEW k2, NEW s2, NEW e, NEW kp, ToRight(w, l, r, c, s1, s2, e),
         NEW g, Swapped(w, t, g, p, kp, l, k1, s1, r, k2, s2)
  PROVE  LET u == Adopt(Renumber(g, r, 1..x), r, {0})
         IN Told(w, g, u, l, r) /\ Owns(u, l) /\ Owns(u, r)
                /\ S(u, l) = s1 /\ S(u, r) = s2
  <1> DEFINE I == 1..x
             g1 == Renumber(g, r, I)
             u == Adopt(g1, r, {0})
             n == Len(S(w, r))
  <1>1. /\ Formed(w) /\ DOMAIN w = Fields /\ l \in N(w) /\ r \in N(w) /\ l \in Inner(w)
        /\ l # r /\ ~is_leaf(w, r) /\ r \in Inner(w)
    BY NeighbourFacts DEF Neighbours, Inner
  <1>2. /\ Frame(w, t) /\ t.link = w.link /\ N(t) = N(w)
        /\ \A m \in N(w) \ {r} : NodeFormed(t, m) /\ Same(w, t, m)
        /\ \A m \in N(w) : P(t, m) = P(w, m)
        /\ \A m \in N(w) : P(w, m) # r => X(t, m) = X(w, m)
    BY CloseGap DEF Close
  <1>3. /\ x \in Nat /\ x \in 1..n /\ n \in Nat /\ X(t, r) \in Int
        /\ \A j \in 1..n : X(t, S(w, r)[j]) = IF j <= x THEN j - 2 ELSE j - 1
    <2>1. /\ x \in 1..Len(K(t, r)) /\ K(t, r) \in Seq(Int) /\ S(t, r) \in Seq(Int)
          /\ Len(S(t, r)) = Len(K(t, r)) + 1 /\ X(t, r) \in Int
      BY DEF Gap, Loose
    <2>2. Len(S(w, r)) = Len(S(t, r)) - 1
      BY DEF Gap, PairOut, Lost
    <2>3. n = Len(K(t, r)) /\ Len(K(t, r)) \in Nat
      BY <2>1, <2>2
    <2>4. \A j \in 1..n : X(t, S(w, r)[j]) = IF j <= x THEN j - 2 ELSE j - 1
      BY DEF Gap
    <2> QED  BY <2>1, <2>3, <2>4
  <1>4. /\ c \in Nat /\ c >= 2 /\ c = Len(S(w, l)) /\ e = S(w, l)[c]
        /\ Len(s1) = c - 1 /\ \A j \in 1..(c - 1) : s1[j] = S(w, l)[j]
        /\ Len(s2) = n + 1 /\ s2[1] = e
        /\ \A j \in 2..(n + 1) : s2[j] = S(w, r)[j - 1]
    BY DEF ToRight
  <1> HIDE DEF n
  <1>5. ASSUME NEW j \in 1..n
        PROVE  S(w, r)[j] \in N(w) /\ P(w, S(w, r)[j]) = r /\ X(w, S(w, r)[j]) = j - 2
    BY <1>1, <1>5, ChildFacts DEF n
  <1>6. ASSUME NEW j \in 1..c
        PROVE  S(w, l)[j] \in N(w) /\ P(w, S(w, l)[j]) = l /\ X(w, S(w, l)[j]) = j - 2
    BY <1>1, <1>4, <1>6, ChildFacts
  <1>7. e \in N(w) /\ P(w, e) = l
    <2>1. c \in 1..c
      BY <1>4
    <2> QED  BY <1>4, <1>6, <2>1
  <1>8. /\ Frame(w, g) /\ g.link = w.link /\ N(g) = N(w) /\ DOMAIN g = Fields
        /\ \A m \in N(w) : DOMAIN g.node[m] = DOMAIN w.node[m]
        /\ S(g, l) = s1 /\ S(g, r) = s2
        /\ \A m \in N(w) : P(g, m) = P(w, m) /\ X(g, m) = X(t, m)
    BY <1>1 DEF Swapped, Frame
  <1>9. ASSUME NEW i \in I
        PROVE  i \in 1..n /\ At(s2, i) = S(w, r)[i] /\ i \in Int
    <2>1. i \in 1..n /\ i + 1 \in 2..(n + 1) /\ (i + 1) - 1 = i
      BY <1>3
    <2> QED  BY <1>4, <2>1 DEF At
  <1>10. ASSUME NEW i \in I, NEW j \in I, At(s2, i) = At(s2, j) PROVE i = j
    <2>1. i \in 1..Len(S(w, r)) /\ j \in 1..Len(S(w, r)) /\ S(w, r)[i] = S(w, r)[j]
      BY <1>9, <1>10 DEF n
    <2> QED  BY <1>1, <2>1, ChildOnce
  <1> HIDE DEF I
  <1>11. \A m \in N(g) : {"type", "parent", "parent_key_idx", "key"} \subseteq DOMAIN g.node[m]
    <2>1. \A m \in N(w) : {"type", "parent", "parent_key_idx", "key"} \subseteq DOMAIN w.node[m]
      BY <1>1, FormedFields
    <2>2. N(g) = N(w) /\ \A m \in N(w) : DOMAIN g.node[m] = DOMAIN w.node[m]
      BY <1>8
    <2> QED  BY <2>1, <2>2
  <1>12. \A i \in I : At(S(g, r), i) \in N(g)
    BY <1>5, <1>8, <1>9
  <1>13. /\ Frame(g, g1) /\ g1.link = g.link /\ N(g1) = N(g)
         /\ \A m \in N(g) : Alike(g, g1, m) /\ P(g1, m) = P(g, m)
         /\ \A m \in N(g) : (\A i \in I : At(S(g, r), i) # m) => g1.node[m] = g.node[m]
         /\ \A i \in I : X(g1, At(S(g, r), i)) = i - 1
    BY <1>8, <1>10, <1>11, <1>12, RenumberEffect
  <1> HIDE DEF g1
  <1>14. "sub_ptr" \in DOMAIN g.node[r] /\ "sub_ptr" \in DOMAIN g.node[l] /\ "sub_ptr" \in DOMAIN g1.node[r] /\ "sub_ptr" \in DOMAIN g1.node[l]
    <2>1. DOMAIN w.node[r] = InnerFields /\ DOMAIN w.node[l] = InnerFields
      BY <1>1, FormedFields
    <2>2. DOMAIN g.node[r] = InnerFields /\ DOMAIN g.node[l] = InnerFields
      BY <1>1, <1>8, <2>1
    <2>3. DOMAIN g1.node[r] = InnerFields /\ DOMAIN g1.node[l] = InnerFields
      BY <1>1, <1>8, <1>13, <2>2 DEF Alike
    <2> QED  BY <2>2, <2>3 DEF InnerFields
  <1>15. S(g1, r) = s2 /\ S(g1, l) = s1 /\ DOMAIN g1 = Fields /\ At(s2, 0) = e
    <2>1. S(g1, r) = S(g, r) /\ S(g1, l) = S(g, l)
      BY <1>1, <1>8, <1>13, <1>14 DEF Alike, S
    <2> QED  BY <1>4, <1>8, <1>13, <2>1 DEF Frame, At
  <1>16. \A m \in N(g1) : {"type", "parent", "parent_key_idx", "key"} \subseteq DOMAIN g1.node[m]
    BY <1>11, <1>13 DEF Alike
  <1>17. /\ Frame(g1, u) /\ u.link = g1.link /\ N(u) = N(g1)
         /\ \A m \in N(g1) : Alike(g1, u, m)
         /\ \A m \in N(g1) : (\A i \in {0} : At(S(g1, r), i) # m) => u.node[m] = g1.node[m]
         /\ \A i \in {0} : P(u, At(S(g1, r), i)) = r /\ X(u, At(S(g1, r), i)) = i - 1
    <2>1. \A i \in {0} : At(S(g1, r), i) \in N(g1)
      BY <1>7, <1>8, <1>13, <1>15
    <2>2. \A i \in {0}, j \in {0} : At(S(g1, r), i) = At(S(g1, r), j) => i = j
      OBVIOUS
    <2> QED  BY <1>15, <1>16, <2>1, <2>2, AdoptEffect
  <1> HIDE DEF u
  \* Who is told what.
  <1>18. P(u, e) = r /\ X(u, e) = -1
    BY <1>15, <1>17
  <1>19. ASSUME NEW m \in N(w), m # e
         PROVE  P(u, m) = P(g1, m) /\ X(u, m) = X(g1, m) /\ P(u, m) = P(w, m)
    <2>1. u.node[m] = g1.node[m]
      BY <1>8, <1>13, <1>15, <1>17, <1>19
    <2>2. P(u, m) = P(g1, m) /\ X(u, m) = X(g1, m)
      BY <2>1 DEF P, X
    <2>3. P(g1, m) = P(w, m)
      BY <1>8, <1>13
    <2> QED  BY <2>2, <2>3
  <1>20. ASSUME NEW m \in N(w), \A i \in I : S(w, r)[i] # m
         PROVE  X(g1, m) = X(t, m)
    <2>1. \A i \in I : At(S(g, r), i) # m
      BY <1>8, <1>9, <1>20
    <2>2. g1.node[m] = g.node[m]
      BY <1>8, <1>13, <2>1
    <2> QED  BY <1>8, <2>2 DEF X
  <1>21. ASSUME NEW i \in I PROVE X(g1, S(w, r)[i]) = i - 1
    BY <1>8, <1>9, <1>13
  <1>22. ASSUME NEW m \in N(w), P(w, m) # r, m # e
         PROVE  P(u, m) = P(w, m) /\ X(u, m) = X(w, m)
    <2>1. \A i \in I : S(w, r)[i] # m
      BY <1>5, <1>9, <1>22
    <2>2. X(g1, m) = X(t, m) /\ X(t, m) = X(w, m)
      BY <1>2, <1>20, <1>22, <2>1
    <2> QED  BY <1>19, <1>22, <2>2
  <1>23. ASSUME NEW j \in 1..n
         PROVE  P(u, S(w, r)[j]) = r /\ X(u, S(w, r)[j]) = j - 1
    <2> DEFINE m == S(w, r)[j]
    <2>1. m \in N(w) /\ P(w, m) = r /\ m # e
      BY <1>1, <1>5, <1>7
    <2>2. X(t, m) = IF j <= x THEN j - 2 ELSE j - 1
      BY <1>3
    <2>3. X(g1, m) = j - 1
      <3>1. CASE j <= x
        <4>1. j \in I
          BY <1>3, <3>1 DEF I
        <4> QED  BY <1>21, <4>1
      <3>2. CASE ~(j <= x)
        <4>1. ASSUME NEW i \in I, S(w, r)[i] = m PROVE FALSE
          <5>1. i \in 1..n /\ i # j
            BY <1>3, <1>9, <3>2 DEF I
          <5>2. i \in 1..Len(S(w, r)) /\ j \in 1..Len(S(w, r))
            BY <5>1 DEF n
          <5>3. i = j
            BY <1>1, <4>1, <5>2, ChildOnce
          <5> QED  BY <5>1, <5>3
        <4>2. X(g1, m) = X(t, m)
          <5> HIDE DEF m
          <5> QED  BY <1>20, <2>1, <4>1
        <4> QED  BY <2>2, <3>2, <4>2
      <3> QED  BY <3>1, <3>2
    <2> HIDE DEF m
    <2>4. P(u, m) = r /\ X(u, m) = j - 1
      BY <1>19, <2>1, <2>3
    <2> QED  BY <2>4 DEF m
  <1>24. Told(w, g, u, l, r)
    <2>1. Frame(g, u) /\ u.link = g.link /\ N(u) = N(g)
      BY <1>13, <1>17 DEF Frame
    <2>2. \A m \in N(w) : Alike(g, u, m)
      BY <1>8, <1>13, <1>17 DEF Alike
    <2>3. \A m \in N(w) : P(w, m) \notin {l, r} => P(u, m) = P(w, m) /\ X(u, m) = X(w, m)
      BY <1>7, <1>22
    <2>4. ASSUME NEW m \in N(w) PROVE P(u, m) \in N(w) \cup {NULL} /\ X(u, m) \in Int
      <3>0. P(w, m) \in N(w) \cup {NULL} /\ X(w, m) \in Int
        BY <1>1, FormedFields
      <3>1. CASE m = e
        BY <1>1, <1>18, <3>1
      <3>2. CASE m # e /\ P(w, m) # r
        BY <1>22, <3>0, <3>2
      <3>3. CASE m # e /\ P(w, m) = r
        <4>1. m # w.root
          <5>1. P(w, w.root) = NULL /\ NULL \notin N(w)
            BY NeighbourFacts, <1>1 DEF Formed, NULL
          <5> QED  BY <1>1, <3>3, <5>1
        <4>2. Owned(w, m)
          BY <4>1 DEF TreeInv, Parents
        <4> DEFINE j == X(w, m) + 2
        <4>3. j \in 1..n /\ S(w, r)[j] = m
          BY <3>3, <4>2 DEF Owned, n
        <4> HIDE DEF j
        <4>4. P(u, m) = r /\ X(u, m) = j - 1 /\ j - 1 \in Int
          BY <1>3, <1>23, <4>3
        <4> QED  BY <1>1, <4>4
      <3> QED  BY <3>1, <3>2, <3>3
    <2> QED  BY <2>1, <2>2, <2>3, <2>4 DEF Told
  <1>25. S(u, l) = s1 /\ S(u, r) = s2
    <2>1. S(u, r) = S(g1, r) /\ S(u, l) = S(g1, l)
      BY <1>1, <1>8, <1>13, <1>14, <1>17 DEF Alike, S
    <2> QED  BY <1>15, <2>1
  <1>26. Owns(u, l)
    <2>1. ASSUME NEW j \in 1..Len(s1) PROVE P(u, s1[j]) = l /\ X(u, s1[j]) = j - 2
      <3>1. j \in 1..(c - 1) /\ j \in 1..c /\ j # c /\ c \in 1..c
        BY <1>4
      <3> DEFINE m == S(w, l)[j]
      <3>2. s1[j] = m /\ m \in N(w) /\ P(w, m) = l /\ X(w, m) = j - 2
        BY <1>4, <1>6, <3>1
      <3>3. m # e
        <4>1. ASSUME m = e PROVE FALSE
          <5>1. j = c
            BY <1>1, <1>4, <3>1, <4>1, ChildOnce
          <5> QED  BY <3>1, <5>1
        <4> QED  BY <4>1
      <3> HIDE DEF m
      <3> QED  BY <1>1, <1>22, <3>2, <3>3
    <2> QED  BY <1>25, <2>1 DEF Owns
  <1>27. Owns(u, r)
    <2>1. ASSUME NEW j \in 1..Len(s2) PROVE P(u, s2[j]) = r /\ X(u, s2[j]) = j - 2
      <3>1. CASE j = 1
        BY <1>4, <1>18, <3>1
      <3>2. CASE j # 1
        <4> DEFINE y == j - 1
        <4>1. j \in 2..(n + 1) /\ y \in 1..n /\ y - 1 = j - 2
          BY <1>3, <1>4, <3>2
        <4>2. s2[j] = S(w, r)[y]
          BY <1>4, <4>1
        <4> HIDE DEF y
        <4> QED  BY <1>23, <4>1, <4>2
      <3> QED  BY <3>1, <3>2
    <2> QED  BY <1>25, <2>1 DEF Owns
  <1> QED  BY <1>24, <1>25, <1>26, <1>27 DEF u, g1, I

\* u is w after a shift between l and r.
ShiftsTo(w, h, R, u, p, a, l, r, sep) ==
  \E u0, v, c, c2, sep2 : Shift(w, h, R, u0, v, u, p, a, l, r, c, sep, c2, sep2)

\* The circumstances of a shift.
Around(w, h, R, p, a, l, r, sep) ==
  /\ TreeInv(w, h, R) /\ w.ok = TRUE /\ Listed(w) /\ w.level < MaxLevel
  /\ Neighbours(w, p, a, l, r, sep)

\* With other arrays for l and r, cut from the merged ones, the shift is done.
LEMMA SwapShifts ==
  ASSUME NEW w, NEW p, NEW a, NEW l, NEW r, NEW sep, NEW h, NEW R, Around(w, h, R, p, a, l, r, sep),
         ~is_leaf(w, l), NEW b, Close(w, b, r),
         NEW g, NEW sep2, NEW k1, NEW s1, NEW k2, NEW s2, NEW u,
         Swapped(w, b, g, p, SetAt(K(w, p), a - 1, sep2), l, k1, s1, r, k2, s2),
         Couple(w, k1, s1), Couple(w, k2, s2), Told(w, g, u, l, r), Owns(u, l), Owns(u, r),
         NEW c, NEW kl, NEW sl, Rows(w, l, r, sep, c, kl, sl),
         NEW c2 \in 1..Len(kl), sep2 = kl[c2], sep2 \in Int,
         Cut(kl, c2 - 1, c2, k1, k2), Cut(sl, c2, c2, s1, s2)
  PROVE  /\ ShiftsTo(w, h, R, u, p, a, l, r, sep)
         /\ S(u, l) = s1 /\ S(u, r) = s2 /\ ~is_leaf(u, l) /\ ~is_leaf(u, r)
  <1>1. TreeInv(w, h, R) /\ w.ok = TRUE /\ Listed(w) /\ w.level < MaxLevel /\ Neighbours(w, p, a, l, r, sep)
    BY DEF Around
  <1>2. PICK u0, v : Imagined(w, h, R, u0, v, p, a, l, r, sep, c, kl, sl)
    BY <1>1, ImaginedInner
  <1>3. /\ Shifting(w, u, p, a, l, r, sep2)
        /\ K(u, l) = k1 /\ S(u, l) = s1 /\ K(u, r) = k2 /\ S(u, r) = s2
        /\ ~is_leaf(u, l) /\ ~is_leaf(u, r)
    BY <1>1, SwapDone
  <1>4. ShiftedInner(u0, u, l, r, c2, sep2)
    BY <1>2, <1>3 DEF ShiftedInner, Imagined
  <1>5. Shift(w, h, R, u0, v, u, p, a, l, r, c, sep, c2, sep2)
    BY <1>1, <1>2, <1>3, <1>4 DEF Shift, Shifted, Imagined
  <1> QED  BY <1>3, <1>5 DEF ShiftsTo

\* The code's shift from the left is a shift.
LEMMA InnerFromLeft ==
  ASSUME NEW w, NEW p, NEW a, NEW l, NEW r, NEW sep, NEW h, NEW R, Around(w, h, R, p, a, l, r, sep),
         ~is_leaf(w, l), NEW t, NEW x, Gap(t, w, r, x), Len(S(w, l)) >= 2
  PROVE  LET u == non_leaf_shift_from_left(t, r, l, a - 1, x - 1)
         IN /\ ShiftsTo(w, h, R, u, p, a, l, r, sep)
            /\ ~is_leaf(u, l) /\ ~is_leaf(u, r)
            /\ Len(S(u, l)) = Len(S(w, l)) - 1 /\ Len(S(u, r)) = Len(S(w, r)) + 1
  <1> DEFINE u == non_leaf_shift_from_left(t, r, l, a - 1, x - 1)
             c == Len(S(w, l))
             kl == JoinedKeys(w, l, r, sep)
             sl == JoinedSubs(w, l, r)
             e == S(w, l)[c]
             sep2 == K(w, l)[c - 1]
             k1 == Slice(K(w, l), 0, c - 3)
             s1 == Slice(S(w, l), 0, c - 2)
             k2 == <<sep>> \o K(w, r)
             s2 == <<e>> \o S(w, r)
  <1>1. Rows(w, l, r, sep, c, kl, sl) /\ RolledRight(w, l, r, sep, c, k1, s1, k2, s2, e, sep2)
    BY DEF Rows, RolledRight
  <1>10. c = Len(S(w, l)) /\ e = S(w, l)[c]
    OBVIOUS
  <1> HIDE DEF u, c, kl, sl, e, sep2, k1, s1, k2, s2
  <1>2. TreeInv(w, h, R) /\ Neighbours(w, p, a, l, r, sep)
    BY DEF Around
  <1>3. /\ Couple(w, k1, s1) /\ Couple(w, k2, s2) /\ sep2 \in Int
        /\ c \in Nat /\ c >= 2 /\ Len(s1) = c - 1 /\ \A j \in 1..(c - 1) : s1[j] = S(w, l)[j]
        /\ Len(s2) = Len(S(w, r)) + 1 /\ s2[1] = e
        /\ \A j \in 2..(Len(S(w, r)) + 1) : s2[j] = S(w, r)[j - 1]
        /\ c - 1 \in 1..Len(kl) /\ sep2 = kl[c - 1]
        /\ Cut(kl, c - 2, c - 1, k1, k2) /\ Cut(sl, c - 1, c - 1, s1, s2)
    BY <1>1, <1>2, RolledRightFacts
  <1>4. ToRight(w, l, r, c, s1, s2, e)
    BY <1>3, <1>10 DEF ToRight
  <1>5. PICK g : /\ Swapped(w, t, g, p, SetAt(K(w, p), a - 1, sep2), l, k1, s1, r, k2, s2)
                 /\ u = Adopt(Renumber(g, r, 1..x), r, {0})
    BY <1>1, <1>2, FromLeftWrites DEF u
  <1>6. Told(w, g, u, l, r) /\ Owns(u, l) /\ Owns(u, r)
    BY <1>2, <1>4, <1>5, FromLeftTells
  <1>7. Close(w, t, r)
    BY <1>2, CloseGap
  <1> DEFINE c2 == c - 1
  <1>8. c2 \in 1..Len(kl) /\ sep2 = kl[c2] /\ Cut(kl, c2 - 1, c2, k1, k2) /\ Cut(sl, c2, c2, s1, s2)
    <2>1. (c - 1) - 1 = c - 2
      BY <1>3
    <2> QED  BY <1>3, <2>1
  <1> HIDE DEF c2
  <1>9. /\ ShiftsTo(w, h, R, u, p, a, l, r, sep)
        /\ S(u, l) = s1 /\ S(u, r) = s2 /\ ~is_leaf(u, l) /\ ~is_leaf(u, r)
    BY <1>1, <1>3, <1>5, <1>6, <1>7, <1>8, SwapShifts
  <1> QED  BY <1>3, <1>9, <1>10 DEF u

-----------------------------------------------------------------------------
\* The first child of the right sibling goes to the left.

\* The arrays of the two nodes afterwards.
RolledLeft(w, l, r, sep, c, k1, s1, k2, s2, e, sep2) ==
  /\ c = Len(S(w, l)) /\ e = S(w, r)[1] /\ sep2 = K(w, r)[1]
  /\ k1 = Append(K(w, l), sep) /\ s1 = Append(S(w, l), e)
  /\ k2 = Tail(K(w, r)) /\ s2 = Tail(S(w, r))

\* Where the children of the two nodes are afterwards.
ToLeft(w, l, r, c, s1, s2, e) ==
  /\ c \in Nat /\ c = Len(S(w, l)) /\ e = S(w, r)[1] /\ Len(S(w, r)) >= 2
  /\ Len(s1) = c + 1 /\ s1[c + 1] = e /\ \A j \in 1..c : s1[j] = S(w, l)[j]
  /\ Len(s2) = Len(S(w, r)) - 1 /\ \A j \in 1..(Len(S(w, r)) - 1) : s2[j] = S(w, r)[j + 1]

\* The merged arrays are cut one place later.
LEMMA RolledLeftFacts ==
  ASSUME NEW w, NEW h, NEW R, TreeInv(w, h, R), NEW p, NEW a, NEW l, NEW r, NEW sep,
         Neighbours(w, p, a, l, r, sep), ~is_leaf(w, l), Len(S(w, r)) >= 2,
         NEW c, NEW k1, NEW s1, NEW k2, NEW s2, NEW e, NEW sep2,
         RolledLeft(w, l, r, sep, c, k1, s1, k2, s2, e, sep2),
         NEW kl, NEW sl, Rows(w, l, r, sep, c, kl, sl)
  PROVE  /\ Couple(w, k1, s1) /\ Couple(w, k2, s2) /\ sep2 \in Int
         /\ ToLeft(w, l, r, c, s1, s2, e)
         /\ c + 1 \in 1..Len(kl) /\ sep2 = kl[c + 1]
         /\ Cut(kl, c, c + 1, k1, k2) /\ Cut(sl, c + 1, c + 1, s1, s2)
  <1>1. /\ K(w, l) \in Seq(Int) /\ K(w, r) \in Seq(Int)
        /\ S(w, l) \in Seq(N(w)) /\ S(w, r) \in Seq(N(w))
        /\ Len(S(w, l)) = Len(K(w, l)) + 1 /\ Len(S(w, r)) = Len(K(w, r)) + 1
        /\ kl \in Seq(Int) /\ sl \in Seq(N(w)) /\ Len(sl) = Len(kl) + 1
        /\ Len(sl) = Len(S(w, l)) + Len(S(w, r))
        /\ c \in 1..Len(kl) /\ kl[c] = sep
        /\ Cut(kl, c - 1, c, K(w, l), K(w, r)) /\ Cut(sl, c, c, S(w, l), S(w, r))
    BY JoinedArrays
  <1>2. /\ c = Len(S(w, l)) /\ e = S(w, r)[1] /\ sep2 = K(w, r)[1]
        /\ k1 = Append(K(w, l), sep) /\ s1 = Append(S(w, l), e)
        /\ k2 = Tail(K(w, r)) /\ s2 = Tail(S(w, r))
    BY DEF RolledLeft
  <1> DEFINE nk == Len(kl)
             ns == Len(sl)
             nr == Len(S(w, r))
  <1>11. /\ kl \in Seq(Int) /\ c \in 1..Len(kl) /\ kl[c] = sep
         /\ S(w, r) \in Seq(N(w)) /\ Len(sl) = Len(kl) + 1 /\ Len(sl) = Len(S(w, l)) + Len(S(w, r))
    BY <1>1
  <1>12. nk \in Nat /\ ns = nk + 1 /\ nr \in Nat /\ nr >= 2 /\ ns = c + nr /\ c \in 1..nk
    <2>1. nk \in Nat /\ nr \in Nat
      BY <1>11
    <2>2. ns = nk + 1 /\ ns = c + nr /\ c \in 1..nk
      BY <1>2, <1>11
    <2> QED  BY <2>1, <2>2
  <1>14. sep \in Int
    BY <1>11
  <1> HIDE DEF nk, ns, nr
  <1>15. c \in 1..(nk - 1) /\ c \in 0..(ns - 1) /\ c \in Nat /\ c + 1 \in 1..nk
    BY <1>12
  <1>3. /\ c \in 1..(Len(kl) - 1) /\ c \in 0..(Len(sl) - 1) /\ c \in Nat /\ sep \in Int /\ Len(kl) \in Nat
        /\ c + 1 \in 1..Len(kl)
    BY <1>12, <1>14, <1>15 DEF nk, ns
  <1>4. /\ k1 \in Seq(Int) /\ k2 \in Seq(Int) /\ sep2 = kl[c + 1]
        /\ Cut(kl, c, c + 1, k1, k2)
    <2>2. /\ kl \in Seq(Int) /\ c \in 1..(Len(kl) - 1) /\ K(w, l) \in Seq(Int) /\ K(w, r) \in Seq(Int)
          /\ Cut(kl, c - 1, c, K(w, l), K(w, r)) /\ sep \in Int /\ sep = kl[c]
      BY <1>1, <1>3
    <2>1. /\ Append(K(w, l), sep) \in Seq(Int) /\ Tail(K(w, r)) \in Seq(Int)
          /\ K(w, r)[1] = kl[c + 1]
          /\ Cut(kl, c, c + 1, Append(K(w, l), sep), Tail(K(w, r)))
      BY <2>2, RollLeftKey
    <2> QED  BY <1>2, <2>1
  <1>5. /\ s1 \in Seq(N(w)) /\ s2 \in Seq(N(w)) /\ Cut(sl, c + 1, c + 1, s1, s2)
    <2>2. /\ sl \in Seq(N(w)) /\ c \in 0..(Len(sl) - 1) /\ S(w, l) \in Seq(N(w)) /\ S(w, r) \in Seq(N(w))
          /\ Cut(sl, c, c, S(w, l), S(w, r))
      BY <1>1, <1>3
    <2>1. /\ Append(S(w, l), S(w, r)[1]) \in Seq(N(w)) /\ Tail(S(w, r)) \in Seq(N(w))
          /\ Cut(sl, c + 1, c + 1, Append(S(w, l), S(w, r)[1]), Tail(S(w, r)))
      BY <2>2, RollLeft
    <2> QED  BY <1>2, <2>1
  <1>6. Len(k1) = c /\ Len(s1) = c + 1 /\ Len(k2) = nk - (c + 1) /\ Len(s2) = ns - (c + 1)
    BY <1>4, <1>5 DEF Cut, nk, ns
  <1>7. Len(s1) = Len(k1) + 1 /\ Len(s2) = Len(k2) + 1 /\ Len(s2) = nr - 1
    BY <1>6, <1>12
  <1>8. sep2 \in Int
    <2>1. kl[c + 1] \in Int
      BY <1>3, <1>11
    <2> QED  BY <1>4, <2>1
  <1>9. \A j \in 1..c : s1[j] = S(w, l)[j]
    <2>1. ASSUME NEW j \in 1..c PROVE s1[j] = S(w, l)[j]
      <3>1. j \in 1..(c + 1)
        BY <1>3
      <3>2. s1[j] = sl[j]
        BY <1>5, <3>1 DEF Cut
      <3>3. S(w, l)[j] = sl[j]
        BY <1>1 DEF Cut
      <3> QED  BY <3>2, <3>3
    <2> QED  BY <2>1
  <1>10. s1[c + 1] = e
    <2>1. e \in N(w) /\ S(w, l) \in Seq(N(w)) /\ c = Len(S(w, l))
      <3>1. 1 \in 1..Len(S(w, r))
        BY <1>12 DEF nr
      <3> QED  BY <1>1, <1>2, <3>1
    <2> QED  BY <1>2, <2>1
  <1>13. \A j \in 1..(nr - 1) : s2[j] = S(w, r)[j + 1]
    <2>1. ASSUME NEW j \in 1..(Len(S(w, r)) - 1) PROVE Tail(S(w, r))[j] = S(w, r)[j + 1]
      BY <1>11
    <2> QED  BY <1>2, <2>1 DEF nr
  <1>16. ToLeft(w, l, r, c, s1, s2, e)
    BY <1>2, <1>3, <1>6, <1>7, <1>9, <1>10, <1>12, <1>13 DEF ToLeft, nr
  <1> QED  BY <1>3, <1>4, <1>5, <1>7, <1>8, <1>16 DEF Couple

\* u comes from a tree with the new arrays by telling the children.
ComesOf(w, u, p, a, l, r, c, k1, s1, k2, s2, sep2) ==
  \E g : /\ Swapped(w, w, g, p, SetAt(K(w, p), a - 1, sep2), l, k1, s1, r, k2, s2)
         /\ u = Renumber(Adopt(g, l, {c}), r, 0..(Len(S(w, r)) - 2))

\* The two nodes and the key between them are written.
LEMMA FromRightWrites ==
  ASSUME NEW w, NEW h, NEW R, TreeInv(w, h, R), NEW p, NEW a, NEW l, NEW r, NEW sep,
         Neighbours(w, p, a, l, r, sep), ~is_leaf(w, l),
         NEW c, NEW k1, NEW s1, NEW k2, NEW s2, NEW e, NEW sep2,
         RolledLeft(w, l, r, sep, c, k1, s1, k2, s2, e, sep2)
  PROVE  ComesOf(w, non_leaf_shift_from_right(w, l, r, a - 1), p, a, l, r, c, k1, s1, k2, s2, sep2)
  <1>1. /\ Formed(w) /\ DOMAIN w = Fields /\ P(w, l) = p /\ l \in N(w) /\ r \in N(w) /\ p \in Inner(w)
        /\ a \in 1..Len(K(w, p)) /\ K(w, p)[a] = sep /\ l \in Inner(w) /\ l # r /\ p # r /\ p # l
        /\ p \in N(w) /\ r \in Inner(w) /\ K(w, p) \in Seq(Int)
    BY NeighbourFacts DEF Neighbours, Inner
  <1>2. DOMAIN w.node[l] = InnerFields /\ DOMAIN w.node[p] = InnerFields /\ DOMAIN w.node[r] = InnerFields
    BY <1>1, FormedFields
  <1> DEFINE kp == SetAt(K(w, p), a - 1, sep2)
             up == w.node[l].parent
             rr == w.node[r]
             g == [w EXCEPT
                     !.node[l].key = Append(@, At(w.node[up].key, a - 1)),
                     !.node[l].sub_ptr = Append(@, At(rr.sub_ptr, 0)),
                     !.node[up].key = SetAt(@, a - 1, At(rr.key, 0)),
                     !.node[r].key = Tail(@),
                     !.node[r].sub_ptr = Tail(@)]
  <1>3. /\ c = Len(S(w, l)) /\ e = S(w, r)[1] /\ sep2 = K(w, r)[1]
        /\ k1 = Append(K(w, l), sep) /\ s1 = Append(S(w, l), e)
        /\ k2 = Tail(K(w, r)) /\ s2 = Tail(S(w, r))
    BY DEF RolledLeft
  <1>4. /\ up = p /\ At(w.node[up].key, a - 1) = sep
        /\ At(rr.sub_ptr, 0) = e /\ At(rr.key, 0) = sep2
    <2>1. up = p /\ w.node[up].key = K(w, p) /\ rr.sub_ptr = S(w, r) /\ rr.key = K(w, r)
      BY <1>1 DEF P, K, S
    <2>2. (a - 1) + 1 = a
      BY <1>1
    <2> HIDE DEF up, rr
    <2> QED  BY <1>1, <1>3, <2>1, <2>2 DEF At
  <1>5. non_leaf_shift_from_right(w, l, r, a - 1)
          = Renumber(Adopt(g, l, {children(w, l)}), r, 0..(children(w, r) - 2))
    BY DEF non_leaf_shift_from_right
  <1>6. g = [w EXCEPT
                !.node[l].key = Append(@, sep),
                !.node[l].sub_ptr = Append(@, e),
                !.node[p].key = SetAt(@, a - 1, sep2),
                !.node[r].key = Tail(@),
                !.node[r].sub_ptr = Tail(@)]
    <2> HIDE DEF up, rr
    <2> QED  BY <1>4
  <1> HIDE DEF g, up, rr
  <1>7. g = [w EXCEPT
                !.node[l].key = k1, !.node[l].sub_ptr = s1, !.node[p].key = kp,
                !.node[r].key = k2, !.node[r].sub_ptr = s2]
    <2>1. g = [w EXCEPT
                !.node[l].key = Append(w.node[l].key, sep),
                !.node[l].sub_ptr = Append(w.node[l].sub_ptr, e),
                !.node[p].key = SetAt(w.node[p].key, a - 1, sep2),
                !.node[r].key = Tail(w.node[r].key),
                !.node[r].sub_ptr = Tail(w.node[r].sub_ptr)]
      BY <1>1, <1>2, <1>6 DEF Fields, InnerFields, N
    <2>2. /\ Append(w.node[l].key, sep) = k1 /\ Append(w.node[l].sub_ptr, e) = s1
          /\ SetAt(w.node[p].key, a - 1, sep2) = kp
          /\ Tail(w.node[r].key) = k2 /\ Tail(w.node[r].sub_ptr) = s2
      BY <1>3 DEF K, S
    <2> QED  BY <2>1, <2>2
  <1> HIDE DEF kp
  <1>8. WroteThree(w, g, l, k1, s1, p, kp, r, k2, s2)
    BY <1>7 DEF WroteThree
  <1>9. /\ Frame(w, g) /\ g.link = w.link /\ N(g) = N(w)
        /\ \A m \in N(w) : DOMAIN g.node[m] = DOMAIN w.node[m] /\ is_leaf(g, m) = is_leaf(w, m)
        /\ K(g, l) = k1 /\ S(g, l) = s1 /\ K(g, r) = k2 /\ S(g, r) = s2
        /\ K(g, p) = kp /\ S(g, p) = S(w, p)
        /\ \A m \in N(w) : P(g, m) = P(w, m) /\ X(g, m) = X(w, m)
        /\ \A m \in N(w) \ {l, p, r} : g.node[m] = w.node[m]
    BY <1>1, <1>2, <1>8, WroteThreeEffect
  <1>10. Swapped(w, w, g, p, kp, l, k1, s1, r, k2, s2)
    BY <1>9 DEF Swapped
  <1>11. children(w, l) = c /\ children(w, r) = Len(S(w, r))
    BY <1>3 DEF children, S
  <1> QED  BY <1>5, <1>10, <1>11 DEF kp, ComesOf

\* The child that has moved, and those that have moved up, are told.
LEMMA FromRightTells ==
  ASSUME NEW w, NEW h, NEW R, TreeInv(w, h, R), NEW p, NEW a, NEW l, NEW r, NEW sep,
         Neighbours(w, p, a, l, r, sep), ~is_leaf(w, l),
         NEW c, NEW k1, NEW s1, NEW k2, NEW s2, NEW e, NEW kp, ToLeft(w, l, r, c, s1, s2, e),
         NEW g, Swapped(w, w, g, p, kp, l, k1, s1, r, k2, s2)
  PROVE  LET u == Renumber(Adopt(g, l, {c}), r, 0..(Len(S(w, r)) - 2))
         IN Told(w, g, u, l, r) /\ Owns(u, l) /\ Owns(u, r)
                /\ S(u, l) = s1 /\ S(u, r) = s2
  <1> DEFINE n == Len(S(w, r))
             I == 0..(n - 2)
             g1 == Adopt(g, l, {c})
             u == Renumber(g1, r, I)
  <1>1. /\ Formed(w) /\ DOMAIN w = Fields /\ l \in N(w) /\ r \in N(w) /\ l \in Inner(w)
        /\ l # r /\ ~is_leaf(w, r) /\ r \in Inner(w) /\ S(w, r) \in Seq(N(w))
    <2>1. /\ Formed(w) /\ DOMAIN w = Fields /\ l \in N(w) /\ r \in N(w) /\ l \in Inner(w)
          /\ l # r /\ ~is_leaf(w, r) /\ r \in Inner(w)
      BY NeighbourFacts DEF Neighbours, Inner
    <2> QED  BY <2>1, FormedFields
  <1>2. n \in Nat
    BY <1>1
  <1>4. /\ c \in Nat /\ c = Len(S(w, l)) /\ e = S(w, r)[1] /\ n >= 2
        /\ Len(s1) = c + 1 /\ s1[c + 1] = e /\ \A j \in 1..c : s1[j] = S(w, l)[j]
        /\ Len(s2) = n - 1 /\ \A j \in 1..(n - 1) : s2[j] = S(w, r)[j + 1]
    BY DEF ToLeft
  <1> HIDE DEF n
  <1>5. ASSUME NEW j \in 1..n
        PROVE  S(w, r)[j] \in N(w) /\ P(w, S(w, r)[j]) = r /\ X(w, S(w, r)[j]) = j - 2
    BY <1>1, <1>5, ChildFacts DEF n
  <1>6. ASSUME NEW j \in 1..c
        PROVE  S(w, l)[j] \in N(w) /\ P(w, S(w, l)[j]) = l /\ X(w, S(w, l)[j]) = j - 2
    BY <1>1, <1>4, <1>6, ChildFacts
  <1>7. e \in N(w) /\ P(w, e) = r
    <2>1. 1 \in 1..n
      BY <1>2, <1>4
    <2> QED  BY <1>4, <1>5, <2>1
  <1>8. /\ Frame(w, g) /\ g.link = w.link /\ N(g) = N(w) /\ DOMAIN g = Fields
        /\ \A m \in N(w) : DOMAIN g.node[m] = DOMAIN w.node[m]
        /\ S(g, l) = s1 /\ S(g, r) = s2
        /\ \A m \in N(w) : P(g, m) = P(w, m) /\ X(g, m) = X(w, m)
    BY <1>1 DEF Swapped, Frame
  <1>9. ASSUME NEW i \in I
        PROVE  i + 2 \in 1..n /\ At(s2, i) = S(w, r)[i + 2] /\ i \in Int
    <2>1. i + 2 \in 1..n /\ i + 1 \in 1..(n - 1) /\ (i + 1) + 1 = i + 2 /\ i \in Int
      BY <1>2, <1>4
    <2> DEFINE y == i + 1
    <2> HIDE DEF y
    <2>2. y \in 1..(n - 1) /\ y + 1 = i + 2
      BY <2>1 DEF y
    <2>3. s2[y] = S(w, r)[y + 1]
      BY <1>4, <2>2
    <2> QED  BY <2>1, <2>2, <2>3 DEF At, y
  <1>10. ASSUME NEW i \in I, NEW j \in I, At(s2, i) = At(s2, j) PROVE i = j
    <2> DEFINE y == i + 2
               z == j + 2
    <2>1. y = z => i = j
      BY <1>9
    <2>2. y \in 1..Len(S(w, r)) /\ z \in 1..Len(S(w, r)) /\ S(w, r)[y] = S(w, r)[z]
      <3>1. y \in 1..n /\ At(s2, i) = S(w, r)[y]
        BY <1>9
      <3>2. z \in 1..n /\ At(s2, j) = S(w, r)[z]
        BY <1>9
      <3> HIDE DEF y, z
      <3> QED  BY <1>10, <3>1, <3>2 DEF n
    <2> HIDE DEF y, z
    <2>3. y = z
      BY <1>1, <2>2, ChildOnce
    <2> QED  BY <2>1, <2>3
  <1> HIDE DEF I
  <1>11. \A m \in N(g) : {"type", "parent", "parent_key_idx", "key"} \subseteq DOMAIN g.node[m]
    <2>1. \A m \in N(w) : {"type", "parent", "parent_key_idx", "key"} \subseteq DOMAIN w.node[m]
      BY <1>1, FormedFields
    <2>2. N(g) = N(w) /\ \A m \in N(w) : DOMAIN g.node[m] = DOMAIN w.node[m]
      BY <1>8
    <2> QED  BY <2>1, <2>2
  <1>12. At(S(g, l), c) = e
    BY <1>4, <1>8 DEF At
  <1>13. /\ Frame(g, g1) /\ g1.link = g.link /\ N(g1) = N(g)
         /\ \A m \in N(g) : Alike(g, g1, m)
         /\ \A m \in N(g) : (\A i \in {c} : At(S(g, l), i) # m) => g1.node[m] = g.node[m]
         /\ \A i \in {c} : P(g1, At(S(g, l), i)) = l /\ X(g1, At(S(g, l), i)) = i - 1
    <2>1. \A i \in {c} : At(S(g, l), i) \in N(g)
      BY <1>7, <1>8, <1>12
    <2>2. \A i \in {c}, j \in {c} : At(S(g, l), i) = At(S(g, l), j) => i = j
      OBVIOUS
    <2> QED  BY <1>8, <1>11, <2>1, <2>2, AdoptEffect
  <1> HIDE DEF g1
  <1>14. "sub_ptr" \in DOMAIN g.node[r] /\ "sub_ptr" \in DOMAIN g.node[l] /\ "sub_ptr" \in DOMAIN g1.node[r] /\ "sub_ptr" \in DOMAIN g1.node[l]
    <2>1. DOMAIN w.node[r] = InnerFields /\ DOMAIN w.node[l] = InnerFields
      BY <1>1, FormedFields
    <2>2. DOMAIN g.node[r] = InnerFields /\ DOMAIN g.node[l] = InnerFields
      BY <1>1, <1>8, <2>1
    <2>3. DOMAIN g1.node[r] = InnerFields /\ DOMAIN g1.node[l] = InnerFields
      BY <1>1, <1>8, <1>13, <2>2 DEF Alike
    <2> QED  BY <2>2, <2>3 DEF InnerFields
  <1>15. S(g1, r) = s2 /\ S(g1, l) = s1 /\ DOMAIN g1 = Fields
    <2>1. S(g1, r) = S(g, r) /\ S(g1, l) = S(g, l)
      BY <1>1, <1>8, <1>13, <1>14 DEF Alike, S
    <2> QED  BY <1>8, <1>13, <2>1 DEF Frame
  <1>16. \A m \in N(g1) : {"type", "parent", "parent_key_idx", "key"} \subseteq DOMAIN g1.node[m]
    BY <1>11, <1>13 DEF Alike
  <1>17. /\ Frame(g1, u) /\ u.link = g1.link /\ N(u) = N(g1)
         /\ \A m \in N(g1) : Alike(g1, u, m) /\ P(u, m) = P(g1, m)
         /\ \A m \in N(g1) : (\A i \in I : At(S(g1, r), i) # m) => u.node[m] = g1.node[m]
         /\ \A i \in I : X(u, At(S(g1, r), i)) = i - 1
    <2>1. \A i \in I : At(S(g1, r), i) \in N(g1)
      BY <1>5, <1>8, <1>9, <1>13, <1>15
    <2>2. \A i \in I, j \in I : At(S(g1, r), i) = At(S(g1, r), j) => i = j
      BY <1>10, <1>15
    <2> QED  BY <1>15, <1>16, <2>1, <2>2, RenumberEffect
  <1> HIDE DEF u
  \* Who is told what.
  <1>18. P(g1, e) = l /\ X(g1, e) = c - 1
    BY <1>12, <1>13
  <1>19. ASSUME NEW m \in N(w), m # e
         PROVE  P(g1, m) = P(w, m) /\ X(g1, m) = X(w, m)
    <2>1. g1.node[m] = g.node[m]
      BY <1>8, <1>12, <1>13, <1>19
    <2>2. P(g1, m) = P(g, m) /\ X(g1, m) = X(g, m)
      BY <2>1 DEF P, X
    <2> QED  BY <1>8, <2>2
  <1>20. ASSUME NEW m \in N(w), \A i \in I : S(w, r)[i + 2] # m
         PROVE  P(u, m) = P(g1, m) /\ X(u, m) = X(g1, m)
    <2>1. \A i \in I : At(S(g1, r), i) # m
      BY <1>9, <1>15, <1>20
    <2>2. u.node[m] = g1.node[m]
      BY <1>8, <1>13, <1>17, <2>1
    <2> QED  BY <2>2 DEF P, X
  <1>21. P(u, e) = l /\ X(u, e) = c - 1
    <2>1. ASSUME NEW i \in I, S(w, r)[i + 2] = e PROVE FALSE
      <3> DEFINE y == i + 2
      <3>1. y \in 1..n /\ y # 1 /\ 1 \in 1..n
        BY <1>2, <1>9 DEF I
      <3> HIDE DEF y
      <3>2. y \in 1..Len(S(w, r)) /\ 1 \in 1..Len(S(w, r)) /\ S(w, r)[y] = S(w, r)[1]
        BY <1>4, <2>1, <3>1 DEF n, y
      <3>3. y = 1
        BY <1>1, <3>2, ChildOnce
      <3> QED  BY <3>1, <3>3
    <2> QED  BY <1>7, <1>18, <1>20, <2>1
  <1>22. ASSUME NEW m \in N(w), P(w, m) # r
         PROVE  P(u, m) = P(w, m) /\ X(u, m) = X(w, m)
    <2>1. \A i \in I : S(w, r)[i + 2] # m
      BY <1>5, <1>9, <1>22
    <2> QED  BY <1>7, <1>19, <1>20, <1>22, <2>1
  <1>23. ASSUME NEW i \in I
         PROVE  P(u, S(w, r)[i + 2]) = r /\ X(u, S(w, r)[i + 2]) = i - 1
    <2> DEFINE y == i + 2
               m == S(w, r)[y]
    <2>1. y \in 1..n /\ y # 1 /\ 1 \in 1..n /\ At(s2, i) = m
      BY <1>2, <1>9 DEF I
    <2>2. X(u, m) = i - 1
      BY <1>15, <1>17, <2>1
    <2> HIDE DEF y
    <2>3. m \in N(w) /\ P(w, m) = r
      BY <1>5, <2>1
    <2>4. m # e
      <3>1. ASSUME m = e PROVE FALSE
        <4>1. y \in 1..Len(S(w, r)) /\ 1 \in 1..Len(S(w, r)) /\ S(w, r)[y] = S(w, r)[1]
          BY <1>4, <2>1, <3>1 DEF n
        <4>2. y = 1
          BY <1>1, <4>1, ChildOnce
        <4> QED  BY <2>1, <4>2
      <3> QED  BY <3>1
    <2> HIDE DEF m
    <2>5. P(u, m) = r
      BY <1>8, <1>13, <1>17, <1>19, <2>3, <2>4
    <2> QED  BY <2>2, <2>5 DEF m, y
  <1>24. Told(w, g, u, l, r)
    <2>1. Frame(g, u) /\ u.link = g.link /\ N(u) = N(g)
      BY <1>13, <1>17 DEF Frame
    <2>2. \A m \in N(w) : Alike(g, u, m)
      BY <1>8, <1>13, <1>17 DEF Alike
    <2>3. \A m \in N(w) : P(w, m) \notin {l, r} => P(u, m) = P(w, m) /\ X(u, m) = X(w, m)
      BY <1>22
    <2>4. ASSUME NEW m \in N(w) PROVE P(u, m) \in N(w) \cup {NULL} /\ X(u, m) \in Int
      <3>0. P(w, m) \in N(w) \cup {NULL} /\ X(w, m) \in Int
        BY <1>1, FormedFields
      <3>1. CASE m = e
        BY <1>1, <1>4, <1>21, <3>1
      <3>2. CASE m # e /\ P(w, m) # r
        BY <1>22, <3>0, <3>2
      <3>3. CASE m # e /\ P(w, m) = r
        <4>1. m # w.root
          <5>1. P(w, w.root) = NULL /\ NULL \notin N(w)
            BY NeighbourFacts, <1>1 DEF Formed, NULL
          <5> QED  BY <1>1, <3>3, <5>1
        <4>2. Owned(w, m)
          BY <4>1 DEF TreeInv, Parents
        <4> DEFINE j == X(w, m) + 2
                   i == j - 2
        <4>3. j \in 1..n /\ S(w, r)[j] = m
          BY <3>3, <4>2 DEF Owned, n
        <4> HIDE DEF j
        <4>4. j # 1
          BY <1>4, <3>3, <4>3
        <4>5. i \in I /\ i + 2 = j /\ i - 1 \in Int
          BY <1>2, <4>3, <4>4 DEF I
        <4> HIDE DEF i
        <4>6. P(u, m) = r /\ X(u, m) = i - 1
          BY <1>23, <4>3, <4>5
        <4> QED  BY <1>1, <4>5, <4>6
      <3> QED  BY <3>1, <3>2, <3>3
    <2> QED  BY <2>1, <2>2, <2>3, <2>4 DEF Told
  <1>25. S(u, l) = s1 /\ S(u, r) = s2
    <2>1. S(u, r) = S(g1, r) /\ S(u, l) = S(g1, l)
      BY <1>1, <1>8, <1>13, <1>14, <1>17 DEF Alike, S
    <2> QED  BY <1>15, <2>1
  <1>26. Owns(u, l)
    <2>1. ASSUME NEW j \in 1..Len(s1) PROVE P(u, s1[j]) = l /\ X(u, s1[j]) = j - 2
      <3>1. CASE j = c + 1
        <4>1. c - 1 = j - 2
          BY <1>4, <3>1
        <4> QED  BY <1>4, <1>21, <3>1, <4>1
      <3>2. CASE j # c + 1
        <4>1. j \in 1..c
          BY <1>4, <3>2
        <4> DEFINE m == S(w, l)[j]
        <4>2. s1[j] = m /\ m \in N(w) /\ P(w, m) = l /\ X(w, m) = j - 2
          BY <1>4, <1>6, <4>1
        <4> HIDE DEF m
        <4> QED  BY <1>1, <1>22, <4>2
      <3> QED  BY <3>1, <3>2
    <2> QED  BY <1>25, <2>1 DEF Owns
  <1>27. Owns(u, r)
    <2>1. ASSUME NEW j \in 1..Len(s2) PROVE P(u, s2[j]) = r /\ X(u, s2[j]) = j - 2
      <3> DEFINE i == j - 1
      <3>1. j \in 1..(n - 1) /\ i \in I /\ i - 1 = j - 2 /\ i + 2 = j + 1
        BY <1>2, <1>4 DEF I
      <3>2. s2[j] = S(w, r)[j + 1]
        BY <1>4, <3>1
      <3> HIDE DEF i
      <3>3. P(u, S(w, r)[i + 2]) = r /\ X(u, S(w, r)[i + 2]) = i - 1
        BY <1>23, <3>1
      <3> QED  BY <3>1, <3>2, <3>3
    <2> QED  BY <1>25, <2>1 DEF Owns
  <1> QED  BY <1>24, <1>25, <1>26, <1>27 DEF u, g1, I, n

\* The code's shift from the right is a shift.
LEMMA InnerFromRight ==
  ASSUME NEW w, NEW p, NEW a, NEW l, NEW r, NEW sep, NEW h, NEW R, Around(w, h, R, p, a, l, r, sep),
         ~is_leaf(w, l), Len(S(w, r)) >= 2
  PROVE  LET u == non_leaf_shift_from_right(w, l, r, a - 1)
         IN /\ ShiftsTo(w, h, R, u, p, a, l, r, sep)
            /\ ~is_leaf(u, l) /\ ~is_leaf(u, r)
            /\ Len(S(u, l)) = Len(S(w, l)) + 1 /\ Len(S(u, r)) = Len(S(w, r)) - 1
  <1> DEFINE u == non_leaf_shift_from_right(w, l, r, a - 1)
             c == Len(S(w, l))
             kl == JoinedKeys(w, l, r, sep)
             sl == JoinedSubs(w, l, r)
             e == S(w, r)[1]
             sep2 == K(w, r)[1]
             k1 == Append(K(w, l), sep)
             s1 == Append(S(w, l), e)
             k2 == Tail(K(w, r))
             s2 == Tail(S(w, r))
  <1>1. Rows(w, l, r, sep, c, kl, sl) /\ RolledLeft(w, l, r, sep, c, k1, s1, k2, s2, e, sep2)
    BY DEF Rows, RolledLeft
  <1> HIDE DEF u, c, kl, sl, e, sep2, k1, s1, k2, s2
  <1>2. TreeInv(w, h, R) /\ Neighbours(w, p, a, l, r, sep)
    BY DEF Around
  <1>3. /\ Couple(w, k1, s1) /\ Couple(w, k2, s2) /\ sep2 \in Int
        /\ ToLeft(w, l, r, c, s1, s2, e)
        /\ c + 1 \in 1..Len(kl) /\ sep2 = kl[c + 1]
        /\ Cut(kl, c, c + 1, k1, k2) /\ Cut(sl, c + 1, c + 1, s1, s2)
    BY <1>1, <1>2, RolledLeftFacts
  <1>4. Len(s1) = Len(S(w, l)) + 1 /\ Len(s2) = Len(S(w, r)) - 1 /\ c \in Nat
    BY <1>3 DEF ToLeft
  <1>5. PICK g : /\ Swapped(w, w, g, p, SetAt(K(w, p), a - 1, sep2), l, k1, s1, r, k2, s2)
                 /\ u = Renumber(Adopt(g, l, {c}), r, 0..(Len(S(w, r)) - 2))
    <2>1. ComesOf(w, non_leaf_shift_from_right(w, l, r, a - 1), p, a, l, r, c, k1, s1, k2, s2, sep2)
      BY <1>1, <1>2, FromRightWrites
    <2> QED  BY <2>1 DEF u, ComesOf
  <1>6. Told(w, g, u, l, r) /\ Owns(u, l) /\ Owns(u, r)
    BY <1>2, <1>3, <1>5, FromRightTells
  <1>7. Close(w, w, r)
    BY <1>2, CloseSelf DEF TreeInv
  <1> DEFINE c2 == c + 1
  <1>8. c2 \in 1..Len(kl) /\ sep2 = kl[c2] /\ Cut(kl, c2 - 1, c2, k1, k2) /\ Cut(sl, c2, c2, s1, s2)
    <2>1. (c + 1) - 1 = c
      BY <1>4
    <2> QED  BY <1>3, <2>1
  <1> HIDE DEF c2
  <1>9. /\ ShiftsTo(w, h, R, u, p, a, l, r, sep)
        /\ S(u, l) = s1 /\ S(u, r) = s2 /\ ~is_leaf(u, l) /\ ~is_leaf(u, r)
    BY <1>1, <1>3, <1>5, <1>6, <1>7, <1>8, SwapShifts
  <1> QED  BY <1>4, <1>9 DEF u

-----------------------------------------------------------------------------
\* An entry moves from leaf to leaf.

\* The leaves x and y have got new arrays and p new keys.
WroteLeaves(b, g, x, k1, d1, y, k2, d2, p, kp) ==
  g = [b EXCEPT !.node[x].key = k1, !.node[x].data = d1,
                !.node[y].key = k2, !.node[y].data = d2, !.node[p].key = kp]

\* Nothing else has changed.
LEMMA WroteLeavesEffect ==
  ASSUME NEW b, NEW g, NEW x, NEW k1, NEW d1, NEW y, NEW k2, NEW d2, NEW p, NEW kp,
         WroteLeaves(b, g, x, k1, d1, y, k2, d2, p, kp),
         DOMAIN b = Fields, x \in N(b), y \in N(b), p \in N(b), x # y, x # p, y # p,
         DOMAIN b.node[x] = LeafFields, DOMAIN b.node[y] = LeafFields, DOMAIN b.node[p] = InnerFields
  PROVE  /\ Frame(b, g) /\ g.link = b.link /\ N(g) = N(b)
         /\ \A m \in N(b) : DOMAIN g.node[m] = DOMAIN b.node[m] /\ is_leaf(g, m) = is_leaf(b, m)
         /\ K(g, x) = k1 /\ D(g, x) = d1 /\ K(g, y) = k2 /\ D(g, y) = d2
         /\ K(g, p) = kp /\ S(g, p) = S(b, p)
         /\ \A m \in N(b) : P(g, m) = P(b, m) /\ X(g, m) = X(b, m)
         /\ \A m \in N(b) \ {x, p, y} : g.node[m] = b.node[m]
  <1> DEFINE rx == [b.node[x] EXCEPT !.key = k1, !.data = d1]
             rp == [b.node[p] EXCEPT !.key = kp]
             ry == [b.node[y] EXCEPT !.key = k2, !.data = d2]
             nn == [b.node EXCEPT ![x] = rx, ![y] = ry, ![p] = rp]
  <1>1. g = [b EXCEPT !.node = nn]
    <2> DEFINE g1 == [b EXCEPT !.node[x].key = k1, !.node[x].data = d1]
               g2 == [g1 EXCEPT !.node[y].key = k2, !.node[y].data = d2]
               n1 == [b.node EXCEPT ![x] = rx]
               n2 == [n1 EXCEPT ![y] = ry]
               n3 == [n2 EXCEPT ![p] = rp]
    <2>1. g = [g2 EXCEPT !.node[p].key = kp]
      BY DEF WroteLeaves
    <2>2. g1 = [b EXCEPT !.node = n1]
      BY DEF Fields, N
    <2>3. g2 = [g1 EXCEPT !.node = n2]
      <3>1. g1.node = n1 /\ n1[y] = b.node[y] /\ y \in DOMAIN n1 /\ DOMAIN g1 = Fields
        BY <2>2 DEF Fields, N
      <3> HIDE DEF g1, n1
      <3> QED  BY <3>1 DEF Fields
    <2>4. g = [g2 EXCEPT !.node = n3]
      <3>1. DOMAIN g1 = Fields /\ DOMAIN g2 = Fields
        BY DEF Fields
      <3>2. n2[p] = b.node[p] /\ p \in DOMAIN n2
        BY DEF N
      <3> HIDE DEF g1, n2
      <3>3. g2.node = n2
        BY <2>3, <3>1 DEF Fields
      <3> HIDE DEF g2
      <3> QED  BY <2>1, <3>1, <3>2, <3>3 DEF Fields
    <2>5. DOMAIN g1 = Fields
      BY DEF Fields
    <2>6. n3 = nn
      OBVIOUS
    <2> HIDE DEF nn, n1, n2, n3, g1, g2
    <2>7. g2 = [b EXCEPT !.node = n2]
      BY <2>2, <2>3 DEF Fields
    <2>8. g = [b EXCEPT !.node = n3]
      BY <2>4, <2>7 DEF Fields
    <2> QED  BY <2>6, <2>8
  <1>2. /\ nn[x] = rx /\ nn[p] = rp /\ nn[y] = ry /\ DOMAIN nn = DOMAIN b.node
        /\ \A m \in N(b) \ {x, p, y} : nn[m] = b.node[m]
    BY DEF N
  <1>3. /\ DOMAIN rx = LeafFields /\ rx.type = b.node[x].type /\ rx.key = k1 /\ rx.data = d1
        /\ rx.parent = b.node[x].parent /\ rx.parent_key_idx = b.node[x].parent_key_idx
    BY DEF LeafFields
  <1>4. /\ DOMAIN ry = LeafFields /\ ry.type = b.node[y].type /\ ry.key = k2 /\ ry.data = d2
        /\ ry.parent = b.node[y].parent /\ ry.parent_key_idx = b.node[y].parent_key_idx
    BY DEF LeafFields
  <1>5. /\ DOMAIN rp = InnerFields /\ rp.type = b.node[p].type /\ rp.key = kp /\ rp.sub_ptr = b.node[p].sub_ptr
        /\ rp.parent = b.node[p].parent /\ rp.parent_key_idx = b.node[p].parent_key_idx
    BY DEF InnerFields
  <1> HIDE DEF rx, rp, ry, nn
  <1>6. /\ DOMAIN g = Fields /\ g.node = nn
        /\ g.root = b.root /\ g.level = b.level /\ g.ok = b.ok
        /\ g.order = b.order /\ g.entries = b.entries /\ g.link = b.link
    BY <1>1 DEF Fields
  <1>7. \A m \in N(b) \ {x, p, y} : g.node[m] = b.node[m]
    BY <1>2, <1>6
  <1>8. g.node[x] = rx /\ g.node[y] = ry /\ g.node[p] = rp
    BY <1>2, <1>6
  <1>9. ASSUME NEW m \in N(b)
        PROVE  /\ DOMAIN g.node[m] = DOMAIN b.node[m] /\ is_leaf(g, m) = is_leaf(b, m)
               /\ P(g, m) = P(b, m) /\ X(g, m) = X(b, m)
    <2>1. CASE m \in {x, p, y}
      BY <1>3, <1>4, <1>5, <1>8, <2>1 DEF is_leaf, P, X
    <2>2. CASE m \notin {x, p, y}
      BY <1>7, <2>2 DEF is_leaf, P, X
    <2> QED  BY <2>1, <2>2
  <1>10. Frame(b, g) /\ N(g) = N(b)
    BY <1>2, <1>6 DEF Frame, N
  <1>11. K(g, x) = k1 /\ D(g, x) = d1 /\ K(g, y) = k2 /\ D(g, y) = d2 /\ K(g, p) = kp /\ S(g, p) = S(b, p)
    BY <1>3, <1>4, <1>5, <1>8 DEF K, S, D
  <1> QED  BY <1>6, <1>7, <1>9, <1>10, <1>11

\* The arrays fit.
Rowed(k, d) == k \in Seq(Int) /\ d \in Seq(Int) /\ Len(d) = Len(k)

\* The arrays of both leaves, one behind the other.
LeafRows(w, l, r, kl, dl) == kl = K(w, l) \o K(w, r) /\ dl = D(w, l) \o D(w, r)

\* u is w but for the arrays of l and r and the keys of p.
LeafSwapped(w, b, u, p, kp, l, k1, d1, r, k2, d2) ==
  /\ Frame(w, u) /\ u.link = w.link /\ N(u) = N(w)
  /\ \A m \in N(w) : DOMAIN u.node[m] = DOMAIN w.node[m] /\ is_leaf(u, m) = is_leaf(w, m)
  /\ K(u, l) = k1 /\ D(u, l) = d1 /\ K(u, r) = k2 /\ D(u, r) = d2
  /\ K(u, p) = kp /\ S(u, p) = S(w, p)
  /\ \A m \in N(w) : P(u, m) = P(w, m) /\ X(u, m) = X(w, m)
  /\ \A m \in N(w) \ {l, p, r} : u.node[m] = b.node[m]

\* With arrays for l and r cut from the merged ones, the shift is done.
LEMMA LeafSwapShifts ==
  ASSUME NEW w, NEW p, NEW a, NEW l, NEW r, NEW sep, NEW h, NEW R, Around(w, h, R, p, a, l, r, sep),
         is_leaf(w, l), NEW b, Close(w, b, r),
         NEW u, NEW sep2, NEW k1, NEW d1, NEW k2, NEW d2,
         LeafSwapped(w, b, u, p, SetAt(K(w, p), a - 1, sep2), l, k1, d1, r, k2, d2),
         Rowed(k1, d1), Rowed(k2, d2),
         NEW kl, NEW dl, LeafRows(w, l, r, kl, dl),
         NEW c2 \in 1..(Len(kl) - 1), sep2 = kl[c2 + 1], sep2 \in Int,
         Cut(kl, c2, c2, k1, k2), Cut(dl, c2, c2, d1, d2)
  PROVE  /\ ShiftsTo(w, h, R, u, p, a, l, r, sep)
         /\ K(u, l) = k1 /\ K(u, r) = k2 /\ is_leaf(u, l) /\ is_leaf(u, r)
  <1> DEFINE kp == SetAt(K(w, p), a - 1, sep2)
  <1>1. TreeInv(w, h, R) /\ w.ok = TRUE /\ Listed(w) /\ w.level < MaxLevel /\ Neighbours(w, p, a, l, r, sep)
    BY DEF Around
  <1>2. PICK u0, v : ImaginedLeafs(w, h, R, u0, v, p, a, l, r, sep)
    BY <1>1, ImaginedLeaf
  <1>3. /\ Formed(w) /\ p \in Inner(w) /\ p \in N(w) /\ l # r /\ l \in N(w) /\ r \in N(w) /\ p # l /\ p # r
        /\ K(w, p) \in Seq(Int) /\ S(w, p) \in Seq(N(w)) /\ Len(S(w, p)) = Len(K(w, p)) + 1
        /\ a \in 1..Len(K(w, p)) /\ is_leaf(w, r) /\ ~is_leaf(w, p)
    <2>1. /\ Formed(w) /\ p \in Inner(w) /\ p \in N(w)
          /\ K(w, p) \in Seq(Int) /\ S(w, p) \in Seq(N(w)) /\ Len(S(w, p)) = Len(K(w, p)) + 1
          /\ (is_leaf(w, l) <=> is_leaf(w, r))
      BY <1>1, NeighbourFacts
    <2>2. l # r /\ l \in N(w) /\ r \in N(w) /\ p # l /\ p # r /\ a \in 1..Len(K(w, p))
      BY <1>1 DEF Neighbours
    <2> QED  BY <2>1, <2>2 DEF Inner
  <1>4. kp \in Seq(Int) /\ Len(kp) = Len(K(w, p))
    BY <1>3 DEF SetAt
  <1> HIDE DEF kp
  <1>5. LeafSwapped(w, b, u, p, kp, l, k1, d1, r, k2, d2)
    BY DEF kp
  <1>6. /\ Frame(w, u) /\ u.link = w.link /\ N(u) = N(w)
        /\ \A m \in N(w) : DOMAIN u.node[m] = DOMAIN w.node[m] /\ is_leaf(u, m) = is_leaf(w, m)
        /\ K(u, l) = k1 /\ D(u, l) = d1 /\ K(u, r) = k2 /\ D(u, r) = d2
        /\ K(u, p) = kp /\ S(u, p) = S(w, p)
        /\ \A m \in N(w) : P(u, m) = P(w, m) /\ X(u, m) = X(w, m)
        /\ \A m \in N(w) \ {l, p, r} : u.node[m] = b.node[m]
    BY <1>5 DEF LeafSwapped
  <1>7. ASSUME NEW m \in N(w) \ {p, l, r} PROVE NodeFormed(u, m) /\ Same(w, u, m)
    <2>1. NodeFormed(b, m) /\ Same(w, b, m) /\ N(b) = N(w) /\ u.node[m] = b.node[m]
      BY <1>6, <1>7 DEF Close
    <2> QED  BY <1>6, <2>1 DEF NodeFormed, Same, K, D, S, P, X, is_leaf
  <1>8. ASSUME NEW m \in N(w)
        PROVE  P(u, m) \in N(u) \cup {NULL} /\ X(u, m) \in Int
    BY <1>3, <1>6, FormedFields
  <1>9. ASSUME NEW m \in {l, r} PROVE NodeFormed(u, m) /\ is_leaf(u, m)
    <2>1. is_leaf(u, m) /\ DOMAIN u.node[m] = LeafFields
      <3>1. is_leaf(w, m) /\ m \in N(w)
        BY <1>3
      <3>2. DOMAIN w.node[m] = LeafFields
        BY <1>3, <3>1, FormedFields DEF Leafs
      <3> QED  BY <1>6, <3>1, <3>2
    <2>2. K(u, m) \in Seq(Int) /\ D(u, m) \in Seq(Int) /\ Len(D(u, m)) = Len(K(u, m))
      BY <1>6 DEF Rowed
    <2>3. m \in N(w)
      BY <1>3
    <2> QED  BY <1>8, <2>1, <2>2, <2>3 DEF NodeFormed, LeafFields
  <1>10. NodeFormed(u, p) /\ ~is_leaf(u, p)
    <2>1. ~is_leaf(u, p) /\ DOMAIN u.node[p] = InnerFields
      <3>2. DOMAIN w.node[p] = InnerFields
        BY <1>3, FormedFields
      <3> QED  BY <1>3, <1>6, <3>2
    <2>2. K(u, p) \in Seq(Int) /\ S(u, p) \in Seq(N(u)) /\ Len(S(u, p)) = Len(K(u, p)) + 1
      BY <1>3, <1>4, <1>6
    <2> QED  BY <1>3, <1>8, <2>1, <2>2 DEF NodeFormed, InnerFields
  <1>11. \A m \in N(w) : NodeFormed(u, m)
    BY <1>7, <1>9, <1>10
  <1>12. Shifting(w, u, p, a, l, r, sep2)
    BY <1>6, <1>7, <1>10, <1>11 DEF Shifting, kp
  <1>13. ShiftedLeaf(u0, u, l, r, c2, sep2)
    BY <1>2, <1>6, <1>9 DEF ShiftedLeaf, ImaginedLeafs, LeafRows
  <1>14. Shift(w, h, R, u0, v, u, p, a, l, r, Len(K(w, l)), sep, c2, sep2)
    BY <1>1, <1>2, <1>12, <1>13 DEF Shift, Shifted, ImaginedLeafs
  <1> QED  BY <1>6, <1>9, <1>14 DEF ShiftsTo

\* The merged arrays, and what a leaf shift needs of them.
LEMMA LeafRowsFacts ==
  ASSUME NEW w, NEW h, NEW R, TreeInv(w, h, R), NEW p, NEW a, NEW l, NEW r, NEW sep,
         Neighbours(w, p, a, l, r, sep), is_leaf(w, l), NEW kl, NEW dl, LeafRows(w, l, r, kl, dl)
  PROVE  /\ l \in Leafs(w) /\ r \in Leafs(w)
         /\ Rowed(K(w, l), D(w, l)) /\ Rowed(K(w, r), D(w, r)) /\ Rowed(kl, dl)
         /\ Len(K(w, l)) \in Nat /\ Len(K(w, r)) \in Nat /\ Len(kl) = Len(K(w, l)) + Len(K(w, r))
         /\ Cut(kl, Len(K(w, l)), Len(K(w, l)), K(w, l), K(w, r))
         /\ Cut(dl, Len(K(w, l)), Len(K(w, l)), D(w, l), D(w, r))
  <1>1. Formed(w) /\ l \in N(w) /\ r \in N(w) /\ is_leaf(w, r)
    BY NeighbourFacts DEF Neighbours
  <1>2. /\ K(w, l) \in Seq(Int) /\ D(w, l) \in Seq(Int) /\ Len(D(w, l)) = Len(K(w, l))
        /\ K(w, r) \in Seq(Int) /\ D(w, r) \in Seq(Int) /\ Len(D(w, r)) = Len(K(w, r))
    BY <1>1, FormedFields DEF NodeFormed
  <1>3. /\ kl \in Seq(Int) /\ Len(kl) = Len(K(w, l)) + Len(K(w, r))
        /\ Cut(kl, Len(K(w, l)), Len(K(w, l)), K(w, l), K(w, r))
    BY <1>2, JoinFact DEF LeafRows
  <1>4. /\ dl \in Seq(Int) /\ Len(dl) = Len(D(w, l)) + Len(D(w, r))
        /\ Cut(dl, Len(D(w, l)), Len(D(w, l)), D(w, l), D(w, r))
    BY <1>2, JoinFact DEF LeafRows
  <1>5. Len(K(w, l)) \in Nat /\ Len(K(w, r)) \in Nat /\ l \in Leafs(w) /\ r \in Leafs(w)
    BY <1>1, <1>2 DEF Leafs
  <1> QED  BY <1>2, <1>3, <1>4, <1>5 DEF Rowed

\* The code's shift from the left leaf is a shift.
LEMMA LeafFromLeft ==
  ASSUME NEW w, NEW p, NEW a, NEW l, NEW r, NEW sep, NEW h, NEW R, Around(w, h, R, p, a, l, r, sep),
         is_leaf(w, l), NEW t, NEW x, Thinner(t, w, r, x), Len(K(w, l)) >= 2
  PROVE  LET u == leaf_shift_from_left(t, r, l, a - 1, x - 1)
         IN /\ ShiftsTo(w, h, R, u, p, a, l, r, sep)
            /\ is_leaf(u, l) /\ is_leaf(u, r)
            /\ Len(K(u, l)) = Len(K(w, l)) - 1 /\ Len(K(u, r)) = Len(K(w, r)) + 1
  <1> DEFINE u == leaf_shift_from_left(t, r, l, a - 1, x - 1)
             kl == K(w, l) \o K(w, r)
             dl == D(w, l) \o D(w, r)
             c == Len(K(w, l))
  <1>1. TreeInv(w, h, R) /\ Neighbours(w, p, a, l, r, sep) /\ LeafRows(w, l, r, kl, dl)
    BY DEF Around, LeafRows
  <1> HIDE DEF kl, dl
  <1>2. /\ Formed(w) /\ DOMAIN w = Fields /\ P(w, r) = p /\ p \in Inner(w) /\ p \in N(w)
        /\ (is_leaf(w, l) <=> is_leaf(w, r)) /\ K(w, p) \in Seq(Int)
    BY <1>1, NeighbourFacts
  <1>3. l \in N(w) /\ r \in N(w) /\ a \in 1..Len(K(w, p)) /\ l # r /\ p # r /\ p # l
    BY <1>1 DEF Neighbours
  <1>4. /\ l \in Leafs(w) /\ r \in Leafs(w)
        /\ Rowed(K(w, l), D(w, l)) /\ Rowed(K(w, r), D(w, r)) /\ Rowed(kl, dl)
        /\ Len(K(w, l)) \in Nat /\ Len(K(w, r)) \in Nat /\ Len(kl) = Len(K(w, l)) + Len(K(w, r))
        /\ Cut(kl, Len(K(w, l)), Len(K(w, l)), K(w, l), K(w, r))
        /\ Cut(dl, Len(K(w, l)), Len(K(w, l)), D(w, l), D(w, r))
    BY <1>1, LeafRowsFacts
  <1>5. /\ Frame(t, w) /\ w.link = t.link /\ N(w) = N(t) /\ is_leaf(w, r) /\ Formed(t)
        /\ K(w, r) = Without(K(t, r), x - 1) /\ D(w, r) = Without(D(t, r), x - 1)
        /\ \A m \in N(t) \ {r} : w.node[m] = t.node[m]
        /\ \A m \in N(t) : P(w, m) = P(t, m) /\ X(w, m) = X(t, m)
        /\ DOMAIN w.node[r] = DOMAIN t.node[r] /\ Close(w, t, r) /\ r \in Leafs(t)
    BY ThinnerFacts DEF Thinner
  <1>6. /\ DOMAIN t = Fields /\ w.node[l] = t.node[l] /\ w.node[p] = t.node[p]
        /\ DOMAIN t.node[r] = LeafFields /\ DOMAIN t.node[l] = LeafFields /\ DOMAIN t.node[p] = InnerFields
    <2>1. DOMAIN w.node[r] = LeafFields /\ DOMAIN w.node[l] = LeafFields /\ DOMAIN w.node[p] = InnerFields
      BY <1>2, <1>4, FormedFields
    <2>2. w.node[l] = t.node[l] /\ w.node[p] = t.node[p]
      BY <1>2, <1>3, <1>5
    <2> QED  BY <1>2, <1>5, <2>1, <2>2 DEF Frame
  <1>7. c \in Nat /\ c >= 2 /\ c \in 1..Len(kl) /\ c \in 1..Len(dl)
    <2> DEFINE nk == Len(kl)
               nd == Len(dl)
               nl == Len(K(w, l))
               nr == Len(K(w, r))
    <2>1. nl \in Nat /\ nr \in Nat /\ nk = nl + nr /\ c = nl /\ nl >= 2
      BY <1>4
    <2>2. nd = nk
      BY <1>4 DEF Rowed
    <2> HIDE DEF nk, nd, nl, nr, c
    <2>3. c \in Nat /\ c >= 2 /\ c \in 1..nk /\ c \in 1..nd
      BY <2>1, <2>2
    <2> QED  BY <2>3 DEF nk, nd
  <1> HIDE DEF c
  <1> DEFINE e == K(w, l)[c]
             d == D(w, l)[c]
             k1 == Slice(K(w, l), 0, c - 2)
             d1 == Slice(D(w, l), 0, c - 2)
             k2 == <<e>> \o K(w, r)
             d2 == <<d>> \o D(w, r)
             kp == SetAt(K(w, p), a - 1, e)
  <1>8. k1 \in Seq(Int) /\ k2 \in Seq(Int) /\ e = kl[c] /\ Cut(kl, c - 1, c - 1, k1, k2)
    <2>1. kl \in Seq(Int) /\ K(w, l) \in Seq(Int) /\ K(w, r) \in Seq(Int) /\ Cut(kl, c, c, K(w, l), K(w, r))
      BY <1>4 DEF Rowed, c
    <2> QED  BY <1>7, <2>1, RollRight
  <1>9. d1 \in Seq(Int) /\ d2 \in Seq(Int) /\ Cut(dl, c - 1, c - 1, d1, d2)
    <2>1. dl \in Seq(Int) /\ D(w, l) \in Seq(Int) /\ D(w, r) \in Seq(Int) /\ Cut(dl, c, c, D(w, l), D(w, r))
      BY <1>4 DEF Rowed, c
    <2> QED  BY <1>7, <2>1, RollRight
  <1> DEFINE ll == t.node[l]
             last == entries(t, l) - 1
             up == t.node[r].parent
  <1>10. /\ up = p /\ last = c - 1 /\ last - 1 = c - 2 /\ At(ll.key, last) = e /\ At(ll.data, last) = d
    <2>1. up = p /\ ll.key = K(w, l) /\ ll.data = D(w, l)
      BY <1>2, <1>3, <1>5, <1>6 DEF P, K, D
    <2>2. last = c - 1 /\ last - 1 = c - 2 /\ last + 1 = c
      BY <1>6, <1>7 DEF entries, K, c
    <2> HIDE DEF last, up, ll
    <2> QED  BY <2>1, <2>2 DEF At
  <1>11. u = [t EXCEPT
                !.node[r].key = <<At(ll.key, last)>> \o Without(@, x - 1),
                !.node[r].data = <<At(ll.data, last)>> \o Without(@, x - 1),
                !.node[l].key = Slice(@, 0, last - 1),
                !.node[l].data = Slice(@, 0, last - 1),
                !.node[up].key = SetAt(@, a - 1, At(ll.key, last))]
    BY DEF leaf_shift_from_left
  <1> HIDE DEF u, last, up, ll, e, d
  <1>12. u = [t EXCEPT
                !.node[r].key = <<e>> \o Without(@, x - 1),
                !.node[r].data = <<d>> \o Without(@, x - 1),
                !.node[l].key = Slice(@, 0, c - 2),
                !.node[l].data = Slice(@, 0, c - 2),
                !.node[p].key = SetAt(@, a - 1, e)]
    BY <1>10, <1>11
  <1>13. WroteLeaves(t, u, r, k2, d2, l, k1, d1, p, kp)
    <2>1. u = [t EXCEPT
                !.node[r].key = <<e>> \o Without(t.node[r].key, x - 1),
                !.node[r].data = <<d>> \o Without(t.node[r].data, x - 1),
                !.node[l].key = Slice(t.node[l].key, 0, c - 2),
                !.node[l].data = Slice(t.node[l].data, 0, c - 2),
                !.node[p].key = SetAt(t.node[p].key, a - 1, e)]
      BY <1>2, <1>3, <1>5, <1>6, <1>12 DEF Fields, InnerFields, LeafFields, N
    <2>2. /\ <<e>> \o Without(t.node[r].key, x - 1) = k2 /\ <<d>> \o Without(t.node[r].data, x - 1) = d2
          /\ Slice(t.node[l].key, 0, c - 2) = k1 /\ Slice(t.node[l].data, 0, c - 2) = d1
          /\ SetAt(t.node[p].key, a - 1, e) = kp
      BY <1>5, <1>6 DEF K, D
    <2> HIDE DEF k1, k2, d1, d2, kp
    <2> QED  BY <2>1, <2>2 DEF WroteLeaves
  <1> HIDE DEF k1, k2, d1, d2, kp
  <1>14. /\ Frame(t, u) /\ u.link = t.link /\ N(u) = N(t)
         /\ \A m \in N(t) : DOMAIN u.node[m] = DOMAIN t.node[m] /\ is_leaf(u, m) = is_leaf(t, m)
         /\ K(u, r) = k2 /\ D(u, r) = d2 /\ K(u, l) = k1 /\ D(u, l) = d1
         /\ K(u, p) = kp /\ S(u, p) = S(t, p)
         /\ \A m \in N(t) : P(u, m) = P(t, m) /\ X(u, m) = X(t, m)
         /\ \A m \in N(t) \ {r, p, l} : u.node[m] = t.node[m]
    BY <1>2, <1>3, <1>5, <1>6, <1>13, WroteLeavesEffect
  <1>15. \A m \in N(w) : DOMAIN t.node[m] = DOMAIN w.node[m] /\ is_leaf(t, m) = is_leaf(w, m)
    <2>1. is_leaf(t, r) = is_leaf(w, r)
      BY <1>5 DEF Leafs, is_leaf
    <2> QED  BY <1>5, <2>1 DEF is_leaf
  <1>16. LeafSwapped(w, t, u, p, kp, l, k1, d1, r, k2, d2)
    <2>1. Frame(w, u)
      BY <1>5, <1>14 DEF Frame
    <2>2. S(u, p) = S(w, p)
      BY <1>6, <1>14 DEF S
    <2> QED  BY <1>5, <1>14, <1>15, <2>1, <2>2 DEF LeafSwapped
  <1> DEFINE c2 == c - 1
  <1>17. c2 \in 1..(Len(kl) - 1) /\ c2 + 1 = c /\ e \in Int
    <2>1. c2 \in 1..(Len(kl) - 1) /\ c2 + 1 = c
      BY <1>7
    <2>2. kl[c] \in Int
      BY <1>4, <1>7 DEF Rowed
    <2> QED  BY <1>8, <2>1, <2>2
  <1>18. /\ e = kl[c2 + 1] /\ Cut(kl, c2, c2, k1, k2) /\ Cut(dl, c2, c2, d1, d2)
    BY <1>8, <1>9, <1>17
  <1>19. Rowed(k1, d1) /\ Rowed(k2, d2) /\ Len(k1) = c - 1 /\ Len(k2) = Len(K(w, r)) + 1
    <2>1. Len(k1) = c2 /\ Len(d1) = c2 /\ Len(k2) = Len(kl) - c2 /\ Len(d2) = Len(dl) - c2
      BY <1>18 DEF Cut
    <2>2. Len(dl) = Len(kl) /\ Len(kl) = c + Len(K(w, r)) /\ Len(K(w, r)) \in Nat
      BY <1>4 DEF Rowed, c
    <2>3. Len(k2) = Len(K(w, r)) + 1
      BY <1>7, <2>1, <2>2
    <2> QED  BY <1>8, <1>9, <2>1, <2>2, <2>3 DEF Rowed
  <1> HIDE DEF c2
  <1>20. LeafSwapped(w, t, u, p, SetAt(K(w, p), a - 1, e), l, k1, d1, r, k2, d2)
    BY <1>16 DEF kp
  <1>21. /\ ShiftsTo(w, h, R, u, p, a, l, r, sep)
         /\ K(u, l) = k1 /\ K(u, r) = k2 /\ is_leaf(u, l) /\ is_leaf(u, r)
    BY <1>1, <1>5, <1>17, <1>18, <1>19, <1>20, LeafSwapShifts
  <1> QED  BY <1>19, <1>21 DEF u, c

\* The code's shift from the right leaf is a shift.
LEMMA LeafFromRightShift ==
  ASSUME NEW w, NEW p, NEW a, NEW l, NEW r, NEW sep, NEW h, NEW R, Around(w, h, R, p, a, l, r, sep),
         is_leaf(w, l), Len(K(w, r)) >= 2
  PROVE  LET u == leaf_shift_from_right(w, l, r, a - 1)
         IN /\ ShiftsTo(w, h, R, u, p, a, l, r, sep)
            /\ is_leaf(u, l) /\ is_leaf(u, r)
            /\ Len(K(u, l)) = Len(K(w, l)) + 1 /\ Len(K(u, r)) = Len(K(w, r)) - 1
  <1> DEFINE u == leaf_shift_from_right(w, l, r, a - 1)
             kl == K(w, l) \o K(w, r)
             dl == D(w, l) \o D(w, r)
             c == Len(K(w, l))
  <1>1. TreeInv(w, h, R) /\ Neighbours(w, p, a, l, r, sep) /\ LeafRows(w, l, r, kl, dl)
    BY DEF Around, LeafRows
  <1> HIDE DEF kl, dl
  <1>2. /\ Formed(w) /\ DOMAIN w = Fields /\ P(w, l) = p /\ p \in Inner(w) /\ p \in N(w)
        /\ (is_leaf(w, l) <=> is_leaf(w, r)) /\ K(w, p) \in Seq(Int)
    BY <1>1, NeighbourFacts
  <1>3. l \in N(w) /\ r \in N(w) /\ a \in 1..Len(K(w, p)) /\ l # r /\ p # r /\ p # l
    BY <1>1 DEF Neighbours
  <1>4. /\ l \in Leafs(w) /\ r \in Leafs(w)
        /\ Rowed(K(w, l), D(w, l)) /\ Rowed(K(w, r), D(w, r)) /\ Rowed(kl, dl)
        /\ Len(K(w, l)) \in Nat /\ Len(K(w, r)) \in Nat /\ Len(kl) = Len(K(w, l)) + Len(K(w, r))
        /\ Cut(kl, Len(K(w, l)), Len(K(w, l)), K(w, l), K(w, r))
        /\ Cut(dl, Len(K(w, l)), Len(K(w, l)), D(w, l), D(w, r))
    BY <1>1, LeafRowsFacts
  <1>6. DOMAIN w.node[r] = LeafFields /\ DOMAIN w.node[l] = LeafFields /\ DOMAIN w.node[p] = InnerFields
    BY <1>2, <1>4, FormedFields
  <1>7. c \in Nat /\ c \in 0..(Len(kl) - 1) /\ c \in 0..(Len(dl) - 1) /\ c + 2 \in 1..Len(kl)
    <2> DEFINE nk == Len(kl)
               nd == Len(dl)
               nl == Len(K(w, l))
               nr == Len(K(w, r))
    <2>1. nl \in Nat /\ nr \in Nat /\ nk = nl + nr /\ c = nl /\ nr >= 2
      BY <1>4
    <2>2. nd = nk
      BY <1>4 DEF Rowed
    <2> HIDE DEF nk, nd, nl, nr, c
    <2>3. c \in Nat /\ c \in 0..(nk - 1) /\ c \in 0..(nd - 1) /\ c + 2 \in 1..nk
      BY <2>1, <2>2
    <2> QED  BY <2>3 DEF nk, nd
  <1> HIDE DEF c
  <1> DEFINE e == K(w, r)[1]
             d == D(w, r)[1]
             s == K(w, r)[2]
             k1 == Append(K(w, l), e)
             d1 == Append(D(w, l), d)
             k2 == Tail(K(w, r))
             d2 == Tail(D(w, r))
             kp == SetAt(K(w, p), a - 1, s)
  <1>8. k1 \in Seq(Int) /\ k2 \in Seq(Int) /\ Cut(kl, c + 1, c + 1, k1, k2)
    <2>1. kl \in Seq(Int) /\ K(w, l) \in Seq(Int) /\ K(w, r) \in Seq(Int) /\ Cut(kl, c, c, K(w, l), K(w, r))
      BY <1>4 DEF Rowed, c
    <2> QED  BY <1>7, <2>1, RollLeft
  <1>9. d1 \in Seq(Int) /\ d2 \in Seq(Int) /\ Cut(dl, c + 1, c + 1, d1, d2)
    <2>1. dl \in Seq(Int) /\ D(w, l) \in Seq(Int) /\ D(w, r) \in Seq(Int) /\ Cut(dl, c, c, D(w, l), D(w, r))
      BY <1>4 DEF Rowed, c
    <2> QED  BY <1>7, <2>1, RollLeft
  <1>10. s = kl[c + 2]
    <2>1. 2 \in 1..(Len(kl) - c)
      BY <1>7
    <2>2. Cut(kl, c, c, K(w, l), K(w, r))
      BY <1>4 DEF c
    <2> QED  BY <2>1, <2>2 DEF Cut
  <1> DEFINE rr == w.node[r]
             up == w.node[l].parent
  <1>11. u = [w EXCEPT
                !.node[l].key = Append(@, At(rr.key, 0)),
                !.node[l].data = Append(@, At(rr.data, 0)),
                !.node[r].key = Tail(@),
                !.node[r].data = Tail(@),
                !.node[up].key = SetAt(@, a - 1, At(rr.key, 1))]
    BY DEF leaf_shift_from_right
  <1>5. up = p /\ At(rr.key, 0) = e /\ At(rr.data, 0) = d /\ At(rr.key, 1) = s
    <2>1. up = p /\ rr.key = K(w, r) /\ rr.data = D(w, r)
      BY <1>2 DEF P, K, D
    <2>2. 0 + 1 = 1 /\ 1 + 1 = 2
      OBVIOUS
    <2> HIDE DEF up, rr
    <2> QED  BY <2>1, <2>2 DEF At
  <1> HIDE DEF u, up, rr, e, d, s
  <1>12. u = [w EXCEPT
                !.node[l].key = Append(@, e),
                !.node[l].data = Append(@, d),
                !.node[r].key = Tail(@),
                !.node[r].data = Tail(@),
                !.node[p].key = SetAt(@, a - 1, s)]
    BY <1>5, <1>11
  <1>13. WroteLeaves(w, u, l, k1, d1, r, k2, d2, p, kp)
    <2>1. u = [w EXCEPT
                !.node[l].key = Append(w.node[l].key, e),
                !.node[l].data = Append(w.node[l].data, d),
                !.node[r].key = Tail(w.node[r].key),
                !.node[r].data = Tail(w.node[r].data),
                !.node[p].key = SetAt(w.node[p].key, a - 1, s)]
      BY <1>2, <1>3, <1>6, <1>12 DEF Fields, InnerFields, LeafFields, N
    <2>2. /\ Append(w.node[l].key, e) = k1 /\ Append(w.node[l].data, d) = d1
          /\ Tail(w.node[r].key) = k2 /\ Tail(w.node[r].data) = d2
          /\ SetAt(w.node[p].key, a - 1, s) = kp
      BY DEF K, D
    <2> HIDE DEF k1, k2, d1, d2, kp
    <2> QED  BY <2>1, <2>2 DEF WroteLeaves
  <1> HIDE DEF k1, k2, d1, d2, kp
  <1>14. /\ Frame(w, u) /\ u.link = w.link /\ N(u) = N(w)
         /\ \A m \in N(w) : DOMAIN u.node[m] = DOMAIN w.node[m] /\ is_leaf(u, m) = is_leaf(w, m)
         /\ K(u, l) = k1 /\ D(u, l) = d1 /\ K(u, r) = k2 /\ D(u, r) = d2
         /\ K(u, p) = kp /\ S(u, p) = S(w, p)
         /\ \A m \in N(w) : P(u, m) = P(w, m) /\ X(u, m) = X(w, m)
         /\ \A m \in N(w) \ {l, p, r} : u.node[m] = w.node[m]
    BY <1>2, <1>3, <1>6, <1>13, WroteLeavesEffect
  <1>16. LeafSwapped(w, w, u, p, kp, l, k1, d1, r, k2, d2)
    BY <1>14 DEF LeafSwapped
  <1> DEFINE c2 == c + 1
  <1>17. c2 \in 1..(Len(kl) - 1) /\ c2 + 1 = c + 2 /\ s \in Int
    <2>1. c2 \in 1..(Len(kl) - 1) /\ c2 + 1 = c + 2
      BY <1>7
    <2>2. kl[c + 2] \in Int
      BY <1>4, <1>7 DEF Rowed
    <2> QED  BY <1>10, <2>1, <2>2
  <1>18. /\ s = kl[c2 + 1] /\ Cut(kl, c2, c2, k1, k2) /\ Cut(dl, c2, c2, d1, d2)
    BY <1>8, <1>9, <1>10, <1>17
  <1>19. Rowed(k1, d1) /\ Rowed(k2, d2) /\ Len(k1) = c + 1 /\ Len(k2) = Len(K(w, r)) - 1
    <2>1. Len(k1) = c2 /\ Len(d1) = c2 /\ Len(k2) = Len(kl) - c2 /\ Len(d2) = Len(dl) - c2
      BY <1>18 DEF Cut
    <2>2. Len(dl) = Len(kl) /\ Len(kl) = c + Len(K(w, r)) /\ Len(K(w, r)) \in Nat
      BY <1>4 DEF Rowed, c
    <2>3. Len(k2) = Len(K(w, r)) - 1
      BY <1>7, <2>1, <2>2
    <2> QED  BY <1>8, <1>9, <2>1, <2>2, <2>3 DEF Rowed
  <1> HIDE DEF c2
  <1>20. LeafSwapped(w, w, u, p, SetAt(K(w, p), a - 1, s), l, k1, d1, r, k2, d2)
    BY <1>16 DEF kp
  <1>15. Close(w, w, r)
    BY <1>2, CloseSelf
  <1>21. /\ ShiftsTo(w, h, R, u, p, a, l, r, sep)
         /\ K(u, l) = k1 /\ K(u, r) = k2 /\ is_leaf(u, l) /\ is_leaf(u, r)
    BY <1>1, <1>15, <1>17, <1>18, <1>19, <1>20, LeafSwapShifts
  <1> QED  BY <1>19, <1>21 DEF u, c
=============================================================================
