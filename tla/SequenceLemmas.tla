--------------------------- MODULE SequenceLemmas ---------------------------
(***************************************************************************)
(* Facts about least elements, positions, counts and sums that proofs of   *)
(* several components need.  Induction is used in the form "a non-empty    *)
(* set of numbers has a least element".                                    *)
(***************************************************************************)
EXTENDS Integers, Sequences, SequencesExt, Amounts, FiniteSetTheorems, SequenceTheorems, TLAPS

\* Every non-empty set of natural numbers has a least element.
LEMMA LeastNat ==
  ASSUME NEW T \in SUBSET Nat, T # {}
  PROVE  \E n \in T : \A k \in T : n <= k
<1> DEFINE W == {1 .. n : n \in T}
<1>1. W \subseteq FiniteSubsetsOf(Nat)
  <2>1. ASSUME NEW n \in T PROVE 1 .. n \in SUBSET Nat /\ IsFiniteSet(1 .. n)
    BY <2>1, FS_Interval
  <2> QED  BY <2>1 DEF FiniteSubsetsOf
<1>2. W # {}
  OBVIOUS
<1>3. IsWellFoundedOn(StrictSubsetOrdering(Nat), FiniteSubsetsOf(Nat))
  BY FS_StrictSubsetOrderingWellFounded
<1> HIDE DEF W
<1>4. PICK x \in W : \A y \in W : ~(<<y, x>> \in StrictSubsetOrdering(Nat))
  BY <1>1, <1>2, <1>3, WFMin
<1> USE DEF W
<1>5. PICK n \in T : x = 1 .. n
  BY <1>4
<1>6. ASSUME NEW k \in T, k < n PROVE FALSE
  <2>1. 1 .. k \in W /\ 1 .. k \subseteq Nat /\ 1 .. n \subseteq Nat
    BY <1>6
  <2>2. 1 .. k \subseteq 1 .. n /\ n \in 1 .. n /\ n \notin 1 .. k
    BY <1>6
  <2>3. 1 .. k # 1 .. n
    BY <2>2
  <2>4. <<1 .. k, x>> \in StrictSubsetOrdering(Nat)
    BY <1>5, <2>1, <2>2, <2>3 DEF StrictSubsetOrdering
  <2> QED  BY <1>4, <2>1, <2>4
<1> QED  BY <1>6

\* Min is a least element.
LEMMA MinOfNats ==
  ASSUME NEW T \in SUBSET Nat, T # {}
  PROVE  Min(T) \in T /\ \A k \in T : Min(T) <= k
BY LeastNat DEF Min

-----------------------------------------------------------------------------
(* Taking from the front, appending and concatenating                      *)

\* What Head and Tail of a non-empty sequence are.
LEMMA FrontOfQueue ==
  ASSUME NEW S, NEW q \in Seq(S), q # <<>>
  PROVE  /\ Len(q) \in Nat /\ Len(q) >= 1
         /\ Head(q) = q[1] /\ Head(q) \in S
         /\ Tail(q) \in Seq(S) /\ Len(Tail(q)) = Len(q) - 1
         /\ \A i \in 1 .. Len(q) - 1 : Tail(q)[i] = q[i + 1]
<1>1. Len(q) \in Nat \ {0}
  BY EmptySeq
<1>2. Len(q) \in Nat /\ Len(q) >= 1 /\ 1 \in 1 .. Len(q)
  BY <1>1
<1>3. Head(q) = q[1] /\ q[1] \in S
  BY <1>2
<1>4. Tail(q) \in Seq(S) /\ Len(Tail(q)) = Len(q) - 1
  BY <1>2
<1>5. \A i \in 1 .. Len(q) - 1 : Tail(q)[i] = q[i + 1]
  BY <1>2
<1> QED  BY <1>2, <1>3, <1>4, <1>5

\* The tail of a sequence of one element is empty.
LEMMA TailOfOne ==
  ASSUME NEW S, NEW q \in Seq(S), Len(q) = 1
  PROVE  Tail(q) = <<>>
<1>1. q # <<>>
  OBVIOUS
<1>2. Tail(q) \in Seq(S) /\ Len(Tail(q)) = 0
  BY <1>1, FrontOfQueue
<1> QED  BY <1>2, EmptySeq

\* The head of a concatenation is the head of a non-empty first part.
LEMMA HeadOfConcat ==
  ASSUME NEW S, NEW p \in Seq(S), NEW q \in Seq(S), p # <<>>
  PROVE  p \o q # <<>> /\ Head(p \o q) = p[1]
<1>1. Len(p) \in Nat /\ Len(q) \in Nat /\ Len(p) >= 1
  BY EmptySeq
<1>2. p \o q \in Seq(S) /\ Len(p \o q) = Len(p) + Len(q) /\ (p \o q)[1] = p[1]
  BY <1>1, ConcatProperties
<1>3. p \o q # <<>>
  BY <1>1, <1>2
<1> QED  BY <1>2, <1>3, FrontOfQueue

-----------------------------------------------------------------------------
(* Counting the elements of a queue that belong to a set                   *)

Places(q, T) == {i \in DOMAIN q : q[i] \in T}

\* The places are finitely many.
LEMMA PlacesFinite ==
  ASSUME NEW S, NEW q \in Seq(S), NEW T
  PROVE  IsFiniteSet(Places(q, T)) /\ Cardinality(Places(q, T)) \in Nat
<1>1. DOMAIN q = 1 .. Len(q) /\ Len(q) \in Nat
  OBVIOUS
<1>2. IsFiniteSet(1 .. Len(q))
  BY <1>1, FS_Interval
<1>3. IsFiniteSet(Places(q, T))
  BY <1>1, <1>2, FS_Subset DEF Places
<1> QED  BY <1>3, FS_CardinalityType

\* Appending an element adds its place, and only that.
LEMMA CountAppend ==
  ASSUME NEW S, NEW q \in Seq(S), NEW e \in S, NEW T
  PROVE  Cardinality(Places(Append(q, e), T))
           = Cardinality(Places(q, T)) + (IF e \in T THEN 1 ELSE 0)
<1>1. /\ Len(q) \in Nat /\ DOMAIN q = 1 .. Len(q)
      /\ DOMAIN Append(q, e) = 1 .. Len(q) + 1
      /\ \A i \in 1 .. Len(q) : Append(q, e)[i] = q[i]
      /\ Append(q, e)[Len(q) + 1] = e
  BY AppendProperties
<1>2. IsFiniteSet(Places(q, T)) /\ Cardinality(Places(q, T)) \in Nat
  BY PlacesFinite
<1>3. CASE e \in T
  <2>1. Places(Append(q, e), T) = Places(q, T) \cup {Len(q) + 1}
    BY <1>1, <1>3 DEF Places
  <2>2. Len(q) + 1 \notin Places(q, T)
    BY <1>1 DEF Places
  <2> QED  BY <1>2, <1>3, <2>1, <2>2, FS_AddElement
<1>4. CASE e \notin T
  <2>1. Places(Append(q, e), T) = Places(q, T)
    BY <1>1, <1>4 DEF Places
  <2> QED  BY <1>2, <1>4, <2>1
<1> QED  BY <1>3, <1>4

\* Taking the head removes its place; the others move by one.
LEMMA CountTail ==
  ASSUME NEW S, NEW q \in Seq(S), q # <<>>, NEW T
  PROVE  Cardinality(Places(Tail(q), T))
           = Cardinality(Places(q, T)) - (IF Head(q) \in T THEN 1 ELSE 0)
<1>1. /\ Len(q) \in Nat /\ Len(q) >= 1 /\ DOMAIN q = 1 .. Len(q)
      /\ Head(q) = q[1] /\ Tail(q) \in Seq(S)
      /\ DOMAIN Tail(q) = 1 .. Len(q) - 1
      /\ \A i \in 1 .. Len(q) - 1 : Tail(q)[i] = q[i + 1]
  BY FrontOfQueue
<1> DEFINE A == Places(q, T) \ {1}
           B == Places(Tail(q), T)
           f == [i \in B |-> i + 1]
<1>2. IsFiniteSet(B) /\ IsFiniteSet(Places(q, T)) /\ Cardinality(Places(q, T)) \in Nat
  BY <1>1, PlacesFinite
<1>3. f \in Bijection(B, A)
  <2>1. ASSUME NEW i \in B PROVE i + 1 \in A
    BY <1>1 DEF Places
  <2>2. ASSUME NEW j \in A PROVE j - 1 \in B /\ (j - 1) + 1 = j
    BY <1>1 DEF Places
  <2>3. ASSUME NEW i \in B, NEW j \in B, i + 1 = j + 1 PROVE i = j
    BY <1>1, <2>3 DEF Places
  <2>4. f \in [B -> A] /\ \A i \in B : f[i] = i + 1
    BY <2>1
  <2>5. \A j \in A : \E i \in B : f[i] = j
    BY <2>2, <2>4
  <2> HIDE DEF A, B, f
  <2> QED  BY <2>3, <2>4, <2>5 DEF Bijection, Injection, Surjection, IsInjective
<1>4. Cardinality(A) = Cardinality(B)
  BY <1>2, <1>3, FS_Bijection DEF ExistsBijection
<1>5. Cardinality(A) = Cardinality(Places(q, T)) - (IF 1 \in Places(q, T) THEN 1 ELSE 0)
  <2>1. CASE 1 \in Places(q, T)
    BY <1>2, <2>1, FS_RemoveElement
  <2>2. CASE 1 \notin Places(q, T)
    <3>1. A = Places(q, T)
      BY <2>2
    <3> HIDE DEF A
    <3> QED  BY <1>2, <2>2, <3>1
  <2> QED  BY <2>1, <2>2
<1>6. 1 \in Places(q, T) <=> Head(q) \in T
  BY <1>1 DEF Places
<1> QED  BY <1>4, <1>5, <1>6

-----------------------------------------------------------------------------
(* Inserting and removing in the middle                                    *)

\* t is s with e inserted at position i.
InsertedAt(t, s, i, e) ==
  /\ Len(t) = Len(s) + 1
  /\ \A j \in 1 .. i - 1 : t[j] = s[j]
  /\ t[i] = e
  /\ \A j \in i + 1 .. Len(s) + 1 : t[j] = s[j - 1]

\* InsertAt inserts.
LEMMA InsertAtIsInserted ==
  ASSUME NEW S, NEW s \in Seq(S), NEW i \in 1 .. Len(s) + 1, NEW e \in S
  PROVE  InsertAt(s, i, e) \in Seq(S) /\ InsertedAt(InsertAt(s, i, e), s, i, e)
<1> DEFINE a == SubSeq(s, 1, i - 1)
           b == SubSeq(s, i, Len(s))
           ae == a \o <<e>>
<1>1. Len(s) \in Nat /\ i \in Int /\ i - 1 \in Int /\ i >= 1 /\ i <= Len(s) + 1
  BY LenProperties
<1>2. a \in Seq(S) /\ Len(a) = i - 1 /\ \A j \in 1 .. i - 1 : a[j] = s[j]
  <2>1. \A j \in 1 .. i - 1 : s[j] \in S
    BY <1>1, ElementOfSeq
  <2> HIDE DEF a
  <2>2. /\ a \in Seq(S) /\ Len(a) = (IF 1 <= i - 1 THEN (i - 1) - 1 + 1 ELSE 0)
        /\ \A j \in 1 .. (i - 1) - 1 + 1 : a[j] = s[1 + j - 1]
    BY <1>1, <2>1, SubSeqProperties DEF a
  <2> QED  BY <1>1, <2>2
<1>3. b \in Seq(S) /\ Len(b) = Len(s) - i + 1 /\ \A j \in 1 .. Len(s) - i + 1 : b[j] = s[i + j - 1]
  <2>1. \A j \in i .. Len(s) : s[j] \in S
    BY <1>1, ElementOfSeq
  <2> HIDE DEF b
  <2>2. /\ b \in Seq(S) /\ Len(b) = (IF i <= Len(s) THEN Len(s) - i + 1 ELSE 0)
        /\ \A j \in 1 .. Len(s) - i + 1 : b[j] = s[i + j - 1]
    BY <1>1, <2>1, SubSeqProperties DEF b
  <2> QED  BY <1>1, <2>2
<1> HIDE DEF a, b
<1>4. <<e>> \in Seq(S) /\ Len(<<e>>) = 1 /\ <<e>>[1] = e
  OBVIOUS
<1>5. /\ ae \in Seq(S) /\ Len(ae) = i
      /\ \A j \in 1 .. i : ae[j] = IF j < i THEN s[j] ELSE e
  <2>1. /\ ae \in Seq(S) /\ Len(ae) = Len(a) + Len(<<e>>)
        /\ \A j \in 1 .. Len(a) + Len(<<e>>) : ae[j] = IF j <= Len(a) THEN a[j] ELSE <<e>>[j - Len(a)]
    BY <1>2, <1>4, ConcatProperties
  <2> HIDE DEF ae
  <2> QED  BY <1>1, <1>2, <1>4, <2>1
<1> HIDE DEF ae
<1>6. /\ ae \o b \in Seq(S) /\ Len(ae \o b) = Len(ae) + Len(b)
      /\ \A j \in 1 .. Len(ae) + Len(b) : (ae \o b)[j] = IF j <= Len(ae) THEN ae[j] ELSE b[j - Len(ae)]
  BY <1>3, <1>5, ConcatProperties
<1>7. InsertAt(s, i, e) = ae \o b
  BY DEF InsertAt, a, ae, b
<1>8. ASSUME NEW j \in 1 .. i
      PROVE  InsertAt(s, i, e)[j] = IF j < i THEN s[j] ELSE e
  BY <1>1, <1>3, <1>5, <1>6, <1>7
<1>9. ASSUME NEW j \in i + 1 .. Len(s) + 1
      PROVE  InsertAt(s, i, e)[j] = s[j - 1]
  <2>1. j - i \in 1 .. Len(s) - i + 1 /\ i + (j - i) - 1 = j - 1 /\ j > i /\ j \in 1 .. Len(s) + 1
    BY <1>1
  <2> QED  BY <1>1, <1>3, <1>5, <1>6, <1>7, <2>1
<1>10. InsertAt(s, i, e) \in Seq(S) /\ Len(InsertAt(s, i, e)) = Len(s) + 1
  BY <1>1, <1>3, <1>5, <1>6, <1>7
<1>11. \A j \in 1 .. i - 1 : InsertAt(s, i, e)[j] = s[j]
  BY <1>1, <1>8
<1>12. InsertAt(s, i, e)[i] = e
  BY <1>1, <1>8
<1> DEFINE t == InsertAt(s, i, e)
<1>13. /\ Len(t) = Len(s) + 1
       /\ \A j \in 1 .. i - 1 : t[j] = s[j]
       /\ t[i] = e
       /\ \A j \in i + 1 .. Len(s) + 1 : t[j] = s[j - 1]
  BY <1>9, <1>10, <1>11, <1>12
<1> HIDE DEF t
<1>14. InsertedAt(t, s, i, e)
  BY <1>13 DEF InsertedAt
<1> QED  BY <1>10, <1>14 DEF t

\* What a sequence is after an insertion, by position.
LEMMA InsertAtByPosition ==
  ASSUME NEW S, NEW s \in Seq(S), NEW i \in 1 .. Len(s) + 1, NEW e \in S
  PROVE  /\ InsertAt(s, i, e) \in Seq(S)
         /\ Len(InsertAt(s, i, e)) = Len(s) + 1
         /\ \A j \in 1 .. i - 1 : InsertAt(s, i, e)[j] = s[j]
         /\ InsertAt(s, i, e)[i] = e
         /\ \A j \in i + 1 .. Len(s) + 1 : InsertAt(s, i, e)[j] = s[j - 1]
<1>1. InsertAt(s, i, e) \in Seq(S) /\ InsertedAt(InsertAt(s, i, e), s, i, e)
  BY InsertAtIsInserted
<1> QED  BY <1>1 DEF InsertedAt

\* What is left when an element is taken out, by position.
LEMMA RemoveAtByPosition ==
  ASSUME NEW S, NEW s \in Seq(S), NEW i \in 1 .. Len(s)
  PROVE  /\ RemoveAt(s, i) \in Seq(S)
         /\ Len(RemoveAt(s, i)) = Len(s) - 1
         /\ \A j \in 1 .. i - 1 : RemoveAt(s, i)[j] = s[j]
         /\ \A j \in i .. Len(s) - 1 : RemoveAt(s, i)[j] = s[j + 1]
<1> DEFINE a == SubSeq(s, 1, i - 1)
           b == SubSeq(s, i + 1, Len(s))
<1>1. Len(s) \in Nat /\ i \in Int /\ i - 1 \in Int /\ i + 1 \in Int /\ i >= 1 /\ i <= Len(s)
  BY LenProperties
<1>2. a \in Seq(S) /\ Len(a) = i - 1 /\ \A j \in 1 .. i - 1 : a[j] = s[j]
  <2>1. \A j \in 1 .. i - 1 : s[j] \in S
    BY <1>1, ElementOfSeq
  <2> HIDE DEF a
  <2>2. /\ a \in Seq(S) /\ Len(a) = (IF 1 <= i - 1 THEN (i - 1) - 1 + 1 ELSE 0)
        /\ \A j \in 1 .. (i - 1) - 1 + 1 : a[j] = s[1 + j - 1]
    BY <1>1, <2>1, SubSeqProperties DEF a
  <2> QED  BY <1>1, <2>2
<1>3. b \in Seq(S) /\ Len(b) = Len(s) - i /\ \A j \in 1 .. Len(s) - i : b[j] = s[i + j]
  <2>1. \A j \in i + 1 .. Len(s) : s[j] \in S
    BY <1>1, ElementOfSeq
  <2> HIDE DEF b
  <2>2. /\ b \in Seq(S) /\ Len(b) = (IF i + 1 <= Len(s) THEN Len(s) - (i + 1) + 1 ELSE 0)
        /\ \A j \in 1 .. Len(s) - (i + 1) + 1 : b[j] = s[(i + 1) + j - 1]
    BY <1>1, <2>1, SubSeqProperties DEF b
  <2> QED  BY <1>1, <2>2
<1> HIDE DEF a, b
<1>4. /\ a \o b \in Seq(S) /\ Len(a \o b) = Len(a) + Len(b)
      /\ \A j \in 1 .. Len(a) + Len(b) : (a \o b)[j] = IF j <= Len(a) THEN a[j] ELSE b[j - Len(a)]
  BY <1>2, <1>3, ConcatProperties
<1>5. RemoveAt(s, i) = a \o b
  BY DEF RemoveAt, a, b
<1>6. ASSUME NEW j \in 1 .. i - 1
      PROVE  RemoveAt(s, i)[j] = s[j]
  BY <1>1, <1>2, <1>3, <1>4, <1>5
<1>7. ASSUME NEW j \in i .. Len(s) - 1
      PROVE  RemoveAt(s, i)[j] = s[j + 1]
  <2>1. j - (i - 1) \in 1 .. Len(s) - i /\ i + (j - (i - 1)) = j + 1
    BY <1>1
  <2>2. j \in 1 .. Len(a) + Len(b) /\ ~(j <= Len(a)) /\ Len(a) = i - 1
    BY <1>1, <1>2, <1>3
  <2>3. (a \o b)[j] = b[j - (i - 1)]
    BY <1>4, <2>2
  <2> HIDE DEF a, b
  <2> QED  BY <1>3, <1>5, <2>1, <2>3
<1>8. RemoveAt(s, i) \in Seq(S) /\ Len(RemoveAt(s, i)) = Len(s) - 1
  BY <1>1, <1>2, <1>3, <1>4, <1>5
<1> QED  BY <1>6, <1>7, <1>8

\* What was inserted can be removed again.
LEMMA RemoveInserted ==
  ASSUME NEW S, NEW s \in Seq(S), NEW i \in 1 .. Len(s) + 1, NEW e \in S
  PROVE  RemoveAt(InsertAt(s, i, e), i) = s
<1> DEFINE t == InsertAt(s, i, e)
           r == RemoveAt(t, i)
<1>1. Len(s) \in Nat /\ i \in Int /\ i >= 1 /\ i <= Len(s) + 1
  BY LenProperties
<1>2. /\ t \in Seq(S) /\ Len(t) = Len(s) + 1
      /\ \A j \in 1 .. i - 1 : t[j] = s[j]
      /\ \A j \in i + 1 .. Len(s) + 1 : t[j] = s[j - 1]
  BY InsertAtByPosition
<1> HIDE DEF t
<1>3. i \in 1 .. Len(t)
  BY <1>1, <1>2
<1>4. /\ r \in Seq(S) /\ Len(r) = Len(t) - 1
      /\ \A j \in 1 .. i - 1 : r[j] = t[j]
      /\ \A j \in i .. Len(t) - 1 : r[j] = t[j + 1]
  BY <1>2, <1>3, RemoveAtByPosition
<1> HIDE DEF r
<1>5. Len(r) = Len(s)
  BY <1>1, <1>2, <1>4
<1>6. ASSUME NEW j \in 1 .. Len(r) PROVE r[j] = s[j]
  <2>1. CASE j < i
    BY <1>1, <1>2, <1>4, <1>5, <2>1
  <2>2. CASE j >= i
    <3>1. j + 1 \in i + 1 .. Len(s) + 1 /\ (j + 1) - 1 = j
      BY <1>1, <1>5, <2>2
    <3> QED  BY <1>1, <1>2, <1>4, <1>5, <2>2, <3>1
  <2> QED  BY <1>1, <2>1, <2>2
<1>7. r = s
  BY <1>4, <1>5, <1>6, SeqEqual
<1> QED  BY <1>7 DEF r, t

\* Inserting behind the last element is appending.
LEMMA InsertAtEnd ==
  ASSUME NEW S, NEW s \in Seq(S), NEW e \in S
  PROVE  InsertAt(s, Len(s) + 1, e) = Append(s, e)
<1> DEFINE t == InsertAt(s, Len(s) + 1, e)
           u == Append(s, e)
<1>1. Len(s) \in Nat /\ Len(s) + 1 \in 1 .. Len(s) + 1
  BY LenProperties
<1>2. /\ t \in Seq(S) /\ Len(t) = Len(s) + 1
      /\ \A j \in 1 .. (Len(s) + 1) - 1 : t[j] = s[j]
      /\ t[Len(s) + 1] = e
  BY <1>1, InsertAtByPosition
<1>3. /\ u \in Seq(S) /\ Len(u) = Len(s) + 1 /\ u[Len(s) + 1] = e
      /\ \A j \in 1 .. Len(s) : u[j] = s[j]
  BY AppendProperties
<1> HIDE DEF t, u
<1>4. ASSUME NEW j \in 1 .. Len(t) PROVE t[j] = u[j]
  <2>1. CASE j = Len(s) + 1
    BY <1>1, <1>2, <1>3, <2>1
  <2>2. CASE j # Len(s) + 1
    BY <1>1, <1>2, <1>3, <2>2
  <2> QED  BY <2>1, <2>2
<1>5. t = u
  BY <1>2, <1>3, <1>4, SeqEqual
<1> QED  BY <1>5 DEF t, u

\* Inserting among the elements and appending can be done in either order.
LEMMA InsertThenAppend ==
  ASSUME NEW S, NEW s \in Seq(S), NEW i \in 1 .. Len(s) + 1, NEW e \in S, NEW f \in S
  PROVE  InsertAt(Append(s, f), i, e) = Append(InsertAt(s, i, e), f)
<1> DEFINE p == Append(s, f)
           q == InsertAt(s, i, e)
           l == InsertAt(p, i, e)
           r == Append(q, f)
<1>1. Len(s) \in Nat /\ i \in Int /\ i >= 1 /\ i <= Len(s) + 1
  BY LenProperties
<1>2. /\ p \in Seq(S) /\ Len(p) = Len(s) + 1 /\ p[Len(s) + 1] = f
      /\ \A j \in 1 .. Len(s) : p[j] = s[j]
  BY AppendProperties
<1>3. /\ q \in Seq(S) /\ Len(q) = Len(s) + 1
      /\ \A j \in 1 .. i - 1 : q[j] = s[j]
      /\ q[i] = e
      /\ \A j \in i + 1 .. Len(s) + 1 : q[j] = s[j - 1]
  BY InsertAtByPosition
<1> HIDE DEF p, q
<1>4. i \in 1 .. Len(p) + 1
  BY <1>1, <1>2
<1>5. /\ l \in Seq(S) /\ Len(l) = Len(p) + 1
      /\ \A j \in 1 .. i - 1 : l[j] = p[j]
      /\ l[i] = e
      /\ \A j \in i + 1 .. Len(p) + 1 : l[j] = p[j - 1]
  <2>1. l \in Seq(S) /\ InsertedAt(l, p, i, e)
    BY <1>2, <1>4, InsertAtIsInserted
  <2> HIDE DEF l
  <2> QED  BY <2>1 DEF InsertedAt
<1>6. /\ r \in Seq(S) /\ Len(r) = Len(q) + 1 /\ r[Len(q) + 1] = f
      /\ \A j \in 1 .. Len(q) : r[j] = q[j]
  BY <1>3, AppendProperties
<1> HIDE DEF l, r
<1>7. Len(l) = Len(s) + 2 /\ Len(r) = Len(s) + 2
  BY <1>1, <1>2, <1>3, <1>5, <1>6
<1>8. ASSUME NEW j \in 1 .. Len(l) PROVE l[j] = r[j]
  <2>1. CASE j < i
    <3>1. j \in 1 .. i - 1 /\ j \in 1 .. Len(s) /\ j \in 1 .. Len(q)
      BY <1>1, <1>3, <2>1
    <3>2. l[j] = p[j] /\ p[j] = s[j] /\ q[j] = s[j] /\ r[j] = q[j]
      BY <1>2, <1>3, <1>5, <1>6, <3>1, Zenon
    <3> QED  BY <3>2
  <2>2. CASE j = i
    <3>1. i \in 1 .. Len(q)
      BY <1>1, <1>3
    <3>2. l[i] = e /\ q[i] = e /\ r[i] = q[i]
      BY <1>3, <1>5, <1>6, <3>1, Zenon
    <3> QED  BY <2>2, <3>2
  <2>3. CASE j > i /\ j <= Len(s) + 1
    <3>1. /\ j - 1 \in 1 .. Len(s) /\ j \in i + 1 .. Len(p) + 1
          /\ j \in i + 1 .. Len(s) + 1 /\ j \in 1 .. Len(q)
      BY <1>1, <1>2, <1>3, <2>3
    <3>2. l[j] = p[j - 1] /\ p[j - 1] = s[j - 1] /\ q[j] = s[j - 1] /\ r[j] = q[j]
      BY <1>2, <1>3, <1>5, <1>6, <3>1, Zenon
    <3> QED  BY <3>2
  <2>4. CASE j = Len(s) + 2
    <3>1. j \in i + 1 .. Len(p) + 1 /\ j - 1 = Len(s) + 1 /\ Len(q) + 1 = j
      BY <1>1, <1>2, <1>3, <2>4
    <3>2. l[j] = p[j - 1] /\ p[Len(s) + 1] = f /\ r[Len(q) + 1] = f
      BY <1>2, <1>5, <1>6, <3>1, Zenon
    <3> QED  BY <3>1, <3>2
  <2> QED  BY <1>1, <1>7, <2>1, <2>2, <2>3, <2>4
<1>9. l = r
  BY <1>5, <1>6, <1>7, <1>8, SeqEqual
<1> QED  BY <1>9 DEF l, p, q, r

-----------------------------------------------------------------------------
(* Sums as sizes of sets *)

LEMMA UnitsAre ==
  ASSUME NEW D, NEW a \in [D -> Nat]
  PROVE  \A u : u \in Units(a) <=> \E x \in D : \E k \in 1 .. a[x] : u = <<x, k>>
  BY DEF Units

LEMMA UnitsFinite ==
  ASSUME NEW D, IsFiniteSet(D), NEW a \in [D -> Nat]
  PROVE  IsFiniteSet(Units(a)) /\ Total(a) \in Nat
<1> DEFINE B(x) == {x} \X (1 .. a[x])
           R == {B(x) : x \in D}
           f == [x \in D |-> B(x)]
<1>1. \A x \in D : IsFiniteSet(B(x))
  <2> TAKE x \in D
  <2>0. 1 \in Int /\ a[x] \in Int
    OBVIOUS
  <2>1. IsFiniteSet({x}) /\ IsFiniteSet(1 .. a[x])
    BY <2>0, FS_Singleton, FS_Interval
  <2> QED
    BY <2>1, FS_Product
<1>2. f \in Surjection(D, R)
  BY DEF Surjection
<1>3. IsFiniteSet(R)
  BY <1>2, FS_Surjection
<1>4. Units(a) = UNION R
  BY DEF Units
<1>5. IsFiniteSet(Units(a))
  <2>1. \A T \in R : IsFiniteSet(T)
    BY <1>1
  <2> HIDE DEF R
  <2> QED
    BY <1>3, <1>4, <2>1, FS_UNION
<1> QED
  BY <1>5, FS_CardinalityType DEF Total

\* One holder.
LEMMA TotalOfOne ==
  ASSUME NEW y, NEW a \in [{y} -> Nat]
  PROVE  Total(a) = a[y]
<1>1. Units(a) = {y} \X (1 .. a[y])
  BY UnitsAre
<1>0. 1 \in Int /\ a[y] \in Int /\ a[y] \in Nat
  OBVIOUS
<1>2. IsFiniteSet({y}) /\ IsFiniteSet(1 .. a[y]) /\ Cardinality({y}) = 1
  BY <1>0, FS_Singleton, FS_Interval
<1>3. Cardinality(1 .. a[y]) = a[y]
  <2>1. Cardinality(1 .. a[y]) = IF 1 > a[y] THEN 0 ELSE a[y] - 1 + 1
    BY <1>0, FS_Interval
  <2> QED
    BY <1>0, <2>1
<1>4. Cardinality({y} \X (1 .. a[y])) = Cardinality({y}) * Cardinality(1 .. a[y])
  BY <1>2, FS_Product
<1> QED
  BY <1>0, <1>1, <1>2, <1>3, <1>4 DEF Total

\* Holders of two kinds.
LEMMA TotalOfTwo ==
  ASSUME NEW D, NEW E, IsFiniteSet(D), IsFiniteSet(E), D \cap E = {},
         NEW a \in [D \cup E -> Nat]
  PROVE  Total(a) = Total(Restrict(a, D)) + Total(Restrict(a, E))
<1> DEFINE b == Restrict(a, D)
           c == Restrict(a, E)
<1>0. b \in [D -> Nat] /\ c \in [E -> Nat] /\ (\A x \in D : a[x] = b[x]) /\ (\A x \in E : a[x] = c[x])
  BY DEF Restrict
<1> HIDE DEF b, c
<1>1. Units(a) = Units(b) \cup Units(c)
  <2>1. \A u : u \in Units(a) <=> \E x \in D \cup E : \E k \in 1 .. a[x] : u = <<x, k>>
    BY <1>0, UnitsAre
  <2>2. \A u : u \in Units(b) <=> \E x \in D : \E k \in 1 .. a[x] : u = <<x, k>>
    BY <1>0, UnitsAre
  <2>3. \A u : u \in Units(c) <=> \E x \in E : \E k \in 1 .. a[x] : u = <<x, k>>
    BY <1>0, UnitsAre
  <2> QED
    BY <2>1, <2>2, <2>3
<1>2. Units(b) \cap Units(c) = {}
  <2>1. \A u \in Units(b) : \E x \in D : \E k : u = <<x, k>>
    BY <1>0, UnitsAre
  <2>2. \A u \in Units(c) : \E x \in E : \E k : u = <<x, k>>
    BY <1>0, UnitsAre
  <2> QED
    BY <2>1, <2>2
<1>3. IsFiniteSet(Units(b)) /\ IsFiniteSet(Units(c)) /\ Total(b) \in Nat /\ Total(c) \in Nat
  BY <1>0, UnitsFinite
<1>4. Cardinality(Units(a)) = Cardinality(Units(b)) + Cardinality(Units(c)) - Cardinality({})
  BY <1>1, <1>2, <1>3, FS_Union
<1> QED
  BY <1>3, <1>4, FS_EmptySet DEF Total, b, c

\* How many there are when those in X go and those in Y come.
LEMMA NumberMoves ==
  ASSUME NEW K, NEW X, NEW Y, IsFiniteSet(K), IsFiniteSet(X), IsFiniteSet(Y), K \cap X = {}, K \cap Y = {}
  PROVE  /\ Cardinality(K \cup Y) = Cardinality(K \cup X) - Cardinality(X) + Cardinality(Y)
         /\ Cardinality(K \cup X) \in Nat /\ Cardinality(X) \in Nat /\ Cardinality(Y) \in Nat
         /\ Cardinality(X) <= Cardinality(K \cup X)
<1>1. Cardinality(K) \in Nat /\ Cardinality(X) \in Nat /\ Cardinality(Y) \in Nat
  BY FS_CardinalityType
<1>2. Cardinality(K \cup X) = Cardinality(K) + Cardinality(X) - Cardinality({})
  BY FS_Union
<1>3. Cardinality(K \cup Y) = Cardinality(K) + Cardinality(Y) - Cardinality({})
  BY FS_Union
<1> QED
  BY <1>1, <1>2, <1>3, FS_EmptySet

=============================================================================
