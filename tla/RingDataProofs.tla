--------------------------- MODULE RingDataProofs ---------------------------
(***************************************************************************)
(* What the sort of RingData makes of a list of any length: the members    *)
(* that were given, each as often as it was given, in the order of their   *)
(* bytes.  The bag of a list is described by what putting a member into it *)
(* or taking one out does, so that proofs about rings need not count.      *)
(***************************************************************************)
EXTENDS RingData, FiniteSetTheorems, SequenceTheorems, WellFoundedInduction, TLAPS

(* A set of naturals has a smallest member.                                *)
LEMMA Smallest ==
  ASSUME NEW N \in SUBSET Nat, N # {}
  PROVE  \E n \in N : \A m \in N : n <= m
  <1> DEFINE R == OpToRel(<, Nat)
  <1>1. IsWellFoundedOn(R, Nat)
    BY NatLessThanWellFounded
  <1>2. \A x, y \in Nat : x < y => <<x, y>> \in R
    BY DEF OpToRel
  <1> HIDE DEF R
  <1>3. PICK n \in N : \A m \in N : ~ (<<m, n>> \in R)
    BY <1>1, WFMin
  <1>4. \A m \in N : ~ (m < n)
    BY <1>2, <1>3
  <1> QED BY <1>4

-----------------------------------------------------------------------------
(* InsertAt and RemoveAt, place by place.                                  *)
Inserted(t, s, k, c) ==
  /\ Len(t) = Len(s) + 1
  /\ \A i \in 1 .. Len(s) + 1 :
       t[i] = IF i < k THEN s[i] ELSE IF i = k THEN c ELSE s[i - 1]

(* What inserting into a sequence gives, place by place.                   *)
LEMMA InsertAtIs ==
  ASSUME NEW C, NEW s \in Seq(C), NEW k \in 1 .. Len(s) + 1, NEW c \in C
  PROVE  /\ InsertAt(s, k, c) \in Seq(C)
         /\ Inserted(InsertAt(s, k, c), s, k, c)
  <1> DEFINE left == SubSeq(s, 1, k - 1)
             right == SubSeq(s, k, Len(s))
             mid == left \o <<c>>
  <1>1. /\ left \in Seq(C) /\ Len(left) = k - 1
        /\ \A i \in 1 .. k - 1 : left[i] = s[i]
    BY SubSeqProperties
  <1>2. /\ right \in Seq(C) /\ Len(right) = Len(s) - k + 1
        /\ \A i \in 1 .. Len(s) - k + 1 : right[i] = s[k + i - 1]
    BY SubSeqProperties
  <1> HIDE DEF left, right
  <1>3. /\ mid \in Seq(C) /\ Len(mid) = k
        /\ \A i \in 1 .. k : mid[i] = IF i < k THEN s[i] ELSE c
    BY <1>1
  <1> HIDE DEF mid
  <1>4. InsertAt(s, k, c) = mid \o right
    BY DEF InsertAt, left, right, mid
  <1>5. /\ mid \o right \in Seq(C)
        /\ Len(mid \o right) = Len(s) + 1
        /\ \A i \in 1 .. Len(s) + 1 :
             (mid \o right)[i] = IF i <= k THEN mid[i] ELSE right[i - k]
    BY <1>2, <1>3, ConcatProperties
  <1>6. ASSUME NEW i \in 1 .. Len(s) + 1
        PROVE  (mid \o right)[i] = IF i < k THEN s[i] ELSE IF i = k THEN c ELSE s[i - 1]
    <2>1. CASE i <= k
      BY <1>3, <1>5, <2>1
    <2>2. CASE i > k
      <3> DEFINE j == i - k
      <3>1. j \in 1 .. Len(s) - k + 1 /\ k + j - 1 = i - 1
        BY <2>2
      <3>2. (mid \o right)[i] = right[j]
        BY <1>5, <2>2
      <3> HIDE DEF j
      <3>3. right[j] = s[k + j - 1]
        BY <1>2, <3>1
      <3> QED BY <2>2, <3>1, <3>2, <3>3
    <2>3. i <= k \/ i > k
      OBVIOUS
    <2> QED BY <2>1, <2>2, <2>3
  <1> HIDE DEF mid
  <1> QED BY <1>4, <1>5, <1>6 DEF Inserted

(* What removing from a sequence gives; inserting undoes it.               *)
LEMMA RemoveAtIs ==
  ASSUME NEW C, NEW s \in Seq(C), NEW k \in 1 .. Len(s)
  PROVE  /\ RemoveAt(s, k) \in Seq(C)
         /\ Len(RemoveAt(s, k)) = Len(s) - 1
         /\ \A i \in 1 .. Len(s) - 1 :
              RemoveAt(s, k)[i] = IF i < k THEN s[i] ELSE s[i + 1]
         /\ s = InsertAt(RemoveAt(s, k), k, s[k])
  <1> DEFINE left == SubSeq(s, 1, k - 1)
             right == SubSeq(s, k + 1, Len(s))
             t == RemoveAt(s, k)
  <1>1. /\ left \in Seq(C) /\ Len(left) = k - 1
        /\ \A i \in 1 .. k - 1 : left[i] = s[i]
    BY SubSeqProperties
  <1>2. /\ right \in Seq(C) /\ Len(right) = Len(s) - k
        /\ \A i \in 1 .. Len(s) - k : right[i] = s[k + i]
    <2>1. \A i \in k + 1 .. Len(s) : s[i] \in C
      OBVIOUS
    <2> QED BY <2>1, SubSeqProperties
  <1> HIDE DEF left, right
  <1>3. t = left \o right
    BY DEF RemoveAt, left, right
  <1> HIDE DEF t
  <1>4. /\ t \in Seq(C) /\ Len(t) = Len(s) - 1
        /\ \A i \in 1 .. Len(s) - 1 : t[i] = IF i <= k - 1 THEN left[i] ELSE right[i - (k - 1)]
    <2>1. Len(left) + Len(right) = Len(s) - 1
      BY <1>1, <1>2
    <2>2. /\ left \o right \in Seq(C)
          /\ Len(left \o right) = Len(left) + Len(right)
          /\ \A i \in 1 .. Len(left) + Len(right) :
               (left \o right)[i] = IF i <= Len(left) THEN left[i] ELSE right[i - Len(left)]
      BY <1>1, <1>2, ConcatProperties
    <2> QED BY <1>1, <1>3, <2>1, <2>2
  <1>5. ASSUME NEW i \in 1 .. Len(s) - 1 PROVE t[i] = IF i < k THEN s[i] ELSE s[i + 1]
    <2>1. CASE i < k
      BY <1>1, <1>4, <2>1
    <2>2. CASE i >= k
      <3> DEFINE j == i - (k - 1)
      <3>1. j \in 1 .. Len(s) - k /\ k + j = i + 1
        BY <2>2
      <3>2. t[i] = right[j]
        BY <1>4, <2>2
      <3> HIDE DEF j
      <3>3. right[j] = s[k + j]
        BY <1>2, <3>1
      <3> QED BY <2>2, <3>1, <3>2, <3>3
    <2> QED BY <2>1, <2>2
  <1>6. s[k] \in C /\ k \in 1 .. Len(t) + 1
    BY <1>4
  <1> DEFINE u == InsertAt(t, k, s[k])
  <1>7. /\ u \in Seq(C) /\ Len(u) = Len(s)
        /\ \A i \in 1 .. Len(s) : u[i] = IF i < k THEN t[i] ELSE IF i = k THEN s[k] ELSE t[i - 1]
    <2> DEFINE c == s[k]
    <2>1. Len(t) + 1 = Len(s) /\ t \in Seq(C) /\ c \in C
      BY <1>4, <1>6
    <2> HIDE DEF c
    <2>2. u \in Seq(C) /\ Inserted(u, t, k, c)
      BY <1>6, <2>1, InsertAtIs DEF c
    <2> QED BY <2>1, <2>2 DEF c, Inserted
  <1> HIDE DEF u
  <1>8. ASSUME NEW i \in 1 .. Len(s) PROVE u[i] = s[i]
    <2>1. CASE i < k
      BY <1>5, <1>7, <2>1
    <2>2. CASE i = k
      BY <1>7, <2>2
    <2>3. CASE i > k
      <3>1. i - 1 \in 1 .. Len(s) - 1 /\ i - 1 >= k /\ (i - 1) + 1 = i
        BY <2>3
      <3> QED BY <1>5, <1>7, <2>3, <3>1
    <2> QED BY <2>1, <2>2, <2>3
  <1>9. u = s
    BY <1>7, <1>8
  <1> QED BY <1>4, <1>5, <1>9 DEF t, u

-----------------------------------------------------------------------------
(* The bag B with another x in it.                                         *)
Plus(B, x) ==
  [y \in DOMAIN B \cup {x} |->
     IF y = x THEN (IF x \in DOMAIN B THEN B[x] ELSE 0) + 1 ELSE B[y]]

(* The places of x in s.                                                   *)
Places(s, x) == {i \in DOMAIN s : s[i] = x}

(* The places of a value in a sequence can be counted.                     *)
LEMMA PlacesFinite ==
  ASSUME NEW C, NEW s \in Seq(C), NEW x
  PROVE  IsFiniteSet(Places(s, x)) /\ Cardinality(Places(s, x)) \in Nat
  <1>1. IsFiniteSet(1 .. Len(s))
    BY FS_Interval
  <1>2. Places(s, x) \in SUBSET (1 .. Len(s))
    BY DEF Places
  <1>3. IsFiniteSet(Places(s, x))
    BY <1>1, <1>2, FS_Subset
  <1> QED BY <1>3, FS_CardinalityType

(* A member that is put into a list moves the later ones, but each of them *)
(* is in it as often as before.                                            *)
LEMMA InsertPlaces ==
  ASSUME NEW C, NEW s \in Seq(C), NEW k \in 1 .. Len(s) + 1, NEW c \in C, NEW x
  PROVE  Cardinality(Places(InsertAt(s, k, c), x))
           = Cardinality(Places(s, x)) + IF x = c THEN 1 ELSE 0
  <1> DEFINE t == InsertAt(s, k, c)
             A == Places(s, x)
             B == Places(t, x) \ {k}
             f == [i \in A |-> IF i < k THEN i ELSE i + 1]
  <1>1. /\ t \in Seq(C) /\ Len(t) = Len(s) + 1
        /\ \A i \in 1 .. Len(s) + 1 :
             t[i] = IF i < k THEN s[i] ELSE IF i = k THEN c ELSE s[i - 1]
    <2>1. t \in Seq(C) /\ Inserted(t, s, k, c)
      BY InsertAtIs
    <2> HIDE DEF t
    <2> QED BY <2>1 DEF Inserted
  <1> HIDE DEF t
  <1>2. A = {i \in 1 .. Len(s) : s[i] = x}
    BY DEF Places
  <1>3. Places(t, x) = {i \in 1 .. Len(s) + 1 : t[i] = x}
    BY <1>1 DEF Places
  <1>4. \A i \in 1 .. Len(s) : i < k => t[i] = s[i]
    BY <1>1
  <1>5. \A i \in 1 .. Len(s) : i >= k => t[i + 1] = s[i]
    <2> SUFFICES ASSUME NEW i \in 1 .. Len(s), i >= k PROVE t[i + 1] = s[i]
      OBVIOUS
    <2> DEFINE j == i + 1
    <2>1. j \in 1 .. Len(s) + 1 /\ ~ (j < k) /\ j # k /\ j - 1 = i
      OBVIOUS
    <2> HIDE DEF j
    <2>2. t[j] = s[j - 1]
      BY <1>1, <2>1
    <2> QED BY <2>1, <2>2 DEF j
  <1>6. f \in Bijection(A, B)
    <2>1. ASSUME NEW i \in A PROVE f[i] \in B
      <3>1. i \in 1 .. Len(s) /\ s[i] = x
        BY <1>2
      <3>2. CASE i < k
        BY <1>3, <1>4, <3>1, <3>2
      <3>3. CASE i >= k
        BY <1>3, <1>5, <3>1, <3>3
      <3> QED BY <3>1, <3>2, <3>3
    <2>2. ASSUME NEW i \in A, NEW j \in A, f[i] = f[j] PROVE i = j
      BY <1>2, <2>2
    <2>3. ASSUME NEW j \in B PROVE \E i \in A : f[i] = j
      <3>1. j \in 1 .. Len(s) + 1 /\ t[j] = x /\ j # k
        BY <1>3
      <3>2. CASE j < k
        <4>1. j \in A
          BY <1>2, <1>4, <3>1, <3>2
        <4> QED BY <3>2, <4>1
      <3>3. CASE j > k
        <4> DEFINE i == j - 1
        <4>1. i \in 1 .. Len(s) /\ i >= k /\ i + 1 = j
          BY <3>1, <3>3
        <4> HIDE DEF i
        <4>2. s[i] = x
          BY <1>5, <3>1, <4>1
        <4>3. i \in A
          BY <1>2, <4>1, <4>2
        <4> QED BY <4>1, <4>3
      <3> QED BY <3>1, <3>2, <3>3
    <2>4. f \in [A -> B]
      BY <2>1
    <2> HIDE DEF f
    <2> QED BY <2>2, <2>3, <2>4 DEF Bijection, Injection, Surjection, IsInjective
  <1> HIDE DEF f
  <1>7. IsFiniteSet(A) /\ Cardinality(A) \in Nat /\ Cardinality(B) = Cardinality(A) /\ IsFiniteSet(B)
    <2>1. IsFiniteSet(A) /\ Cardinality(A) \in Nat
      BY PlacesFinite
    <2>2. ExistsBijection(A, B)
      BY <1>6 DEF ExistsBijection
    <2> HIDE DEF A, B
    <2> QED BY <2>1, <2>2, FS_Bijection
  <1>8. t[k] = c /\ k \in 1 .. Len(s) + 1
    BY <1>1
  <1>9. CASE x = c
    <2>1. Places(t, x) = B \cup {k} /\ k \notin B
      BY <1>3, <1>8, <1>9
    <2> HIDE DEF B, A
    <2>2. Cardinality(B \cup {k}) = Cardinality(B) + 1
      BY <1>7, <2>1, FS_AddElement
    <2>3. Cardinality(Places(t, x)) = Cardinality(A) + 1
      BY <1>7, <2>1, <2>2
    <2> QED BY <1>9, <2>3 DEF t, A
  <1>10. CASE x # c
    <2>1. Places(t, x) = B
      BY <1>3, <1>8, <1>10
    <2>2. Cardinality(Places(t, x)) = Cardinality(A) /\ Cardinality(A) \in Nat
      BY <1>7, <2>1
    <2> QED BY <1>10, <2>2 DEF t, A
  <1> QED BY <1>9, <1>10

(* The bag of a list a member is put into.                                 *)
LEMMA BagOfInsert ==
  ASSUME NEW C, NEW s \in Seq(C), NEW k \in 1 .. Len(s) + 1, NEW c \in C
  PROVE  ToBag(InsertAt(s, k, c)) = Plus(ToBag(s), c)
  <1> DEFINE t == InsertAt(s, k, c)
  <1>1. /\ t \in Seq(C) /\ Len(t) = Len(s) + 1
        /\ \A i \in 1 .. Len(s) + 1 :
             t[i] = IF i < k THEN s[i] ELSE IF i = k THEN c ELSE s[i - 1]
    <2>1. t \in Seq(C) /\ Inserted(t, s, k, c)
      BY InsertAtIs
    <2> HIDE DEF t
    <2> QED BY <2>1 DEF Inserted
  <1>2. \A x : Cardinality(Places(t, x)) = Cardinality(Places(s, x)) + IF x = c THEN 1 ELSE 0
    BY InsertPlaces
  <1> HIDE DEF t
  <1>3. /\ ToBag(s) = [x \in Range(s) |-> Cardinality(Places(s, x))]
        /\ ToBag(t) = [x \in Range(t) |-> Cardinality(Places(t, x))]
    BY DEF ToBag, Places
  <1>4. Range(t) = Range(s) \cup {c}
    <2>1. Range(s) = {s[i] : i \in 1 .. Len(s)} /\ Range(t) = {t[i] : i \in 1 .. Len(s) + 1}
      BY <1>1 DEF Range
    <2>2. ASSUME NEW i \in 1 .. Len(s) + 1 PROVE t[i] \in Range(s) \cup {c}
      <3>1. CASE i < k
        BY <1>1, <2>1, <3>1
      <3>2. CASE i = k
        BY <1>1, <3>2
      <3>3. CASE i > k
        <4> DEFINE j == i - 1
        <4>1. j \in 1 .. Len(s) /\ i - 1 = j
          BY <3>3
        <4>2. t[i] = s[j]
          BY <1>1, <3>3
        <4> HIDE DEF j
        <4> QED BY <2>1, <4>1, <4>2
      <3>4. i < k \/ i = k \/ i > k
        OBVIOUS
      <3> QED BY <3>1, <3>2, <3>3, <3>4
    <2>3. ASSUME NEW i \in 1 .. Len(s) PROVE s[i] \in Range(t)
      <3>1. CASE i < k
        BY <1>1, <2>1, <3>1
      <3>2. CASE i >= k
        <4> DEFINE j == i + 1
        <4>1. j \in 1 .. Len(s) + 1 /\ ~ (j < k) /\ j # k /\ j - 1 = i
          BY <3>2
        <4> HIDE DEF j
        <4>2. t[j] = s[j - 1]
          BY <1>1, <4>1
        <4> QED BY <2>1, <4>1, <4>2
      <3>3. i < k \/ i >= k
        OBVIOUS
      <3> QED BY <3>1, <3>2, <3>3
    <2>4. t[k] = c /\ c \in Range(t)
      BY <1>1, <2>1
    <2> QED BY <2>1, <2>2, <2>3, <2>4
  <1>5. ASSUME NEW x, x \notin Range(s) PROVE Cardinality(Places(s, x)) = 0
    <2>1. Places(s, x) = {}
      BY <1>5 DEF Places, Range
    <2> QED BY <2>1, FS_EmptySet
  <1> DEFINE n(x) == Cardinality(Places(s, x))
             B == ToBag(s)
  <1>6. B = [x \in Range(s) |-> n(x)] /\ DOMAIN B = Range(s)
    BY <1>3
  <1>7. \A x : n(x) \in Nat
    BY PlacesFinite
  <1>8. n(c) = IF c \in DOMAIN B THEN B[c] ELSE 0
    BY <1>5, <1>6
  <1>9. ToBag(t) = [x \in DOMAIN B \cup {c} |-> n(x) + IF x = c THEN 1 ELSE 0]
    BY <1>2, <1>3, <1>4, <1>6
  <1> HIDE DEF n, B
  <1>10. ASSUME NEW x \in DOMAIN B \cup {c}
         PROVE  n(x) + (IF x = c THEN 1 ELSE 0) = Plus(B, c)[x]
    <2>1. CASE x = c
      BY <1>8, <2>1 DEF Plus
    <2>2. CASE x # c
      BY <1>6, <1>7, <2>2 DEF Plus
    <2> QED BY <2>1, <2>2
  <1>11. Plus(B, c) = [x \in DOMAIN B \cup {c} |-> Plus(B, c)[x]]
    BY DEF Plus
  <1> QED BY <1>9, <1>10, <1>11 DEF t, B

-----------------------------------------------------------------------------
(* IsSorted(s, Before), written out for the provers.                       *)
InOrder(s) == \A i, j \in 1 .. Len(s) : i < j => Before(s[i], s[j])

(* Where a member goes in a sorted list.                                   *)
LEMMA PlaceIs ==
  ASSUME NEW C, \A c \in C : Bytes(c) \in Int,
         NEW s \in Seq(C), NEW c \in C, InOrder(s)
  PROVE  /\ Place(s, c) \in 1 .. Len(s) + 1
         /\ \A i \in 1 .. Place(s, c) - 1 : Before(s[i], c)
         /\ \A i \in Place(s, c) .. Len(s) : ~Before(s[i], c)
  <1> DEFINE N == {i \in 1 .. Len(s) : ~Before(s[i], c)}
             IsPlace(k) == /\ \A i \in 1 .. k - 1 : Before(s[i], c)
                           /\ \A i \in k .. Len(s) : ~Before(s[i], c)
  <1>1. ASSUME NEW k \in 1 .. Len(s) + 1, IsPlace(k)
        PROVE  Place(s, c) \in 1 .. Len(s) + 1 /\ IsPlace(Place(s, c))
    BY <1>1 DEF Place
  <1>2. CASE N = {}
    <2>1. IsPlace(Len(s) + 1) /\ Len(s) + 1 \in 1 .. Len(s) + 1
      BY <1>2
    <2> QED BY <1>1, <2>1
  <1>3. CASE N # {}
    <2>1. PICK k \in N : \A i \in N : k <= i
      <3>1. N \in SUBSET Nat
        OBVIOUS
      <3> HIDE DEF N
      <3> QED BY <1>3, <3>1, Smallest
    <2>2. k \in 1 .. Len(s) /\ ~Before(s[k], c)
      OBVIOUS
    <2>3. ASSUME NEW i \in 1 .. k - 1 PROVE Before(s[i], c)
      BY <2>1, <2>2
    <2>4. ASSUME NEW i \in k .. Len(s) PROVE ~Before(s[i], c)
      <3>1. i \in 1 .. Len(s) /\ (k = i \/ k < i)
        BY <2>2
      <3>2. k = i \/ Before(s[k], s[i])
        BY <2>2, <3>1 DEF InOrder
      <3> DEFINE a == Bytes(s[k])
                 b == Bytes(s[i])
                 d == Bytes(c)
      <3>3. a \in Int /\ b \in Int /\ d \in Int
        BY <2>2, <3>1
      <3>4. ~ (a <= d) /\ a <= b
        BY <2>2, <3>2, <3>3 DEF Before
      <3> HIDE DEF a, b, d
      <3>5. ~ (b <= d)
        BY <3>3, <3>4
      <3> QED BY <3>5 DEF Before, b, d
    <2>5. IsPlace(k) /\ k \in 1 .. Len(s) + 1
      BY <2>2, <2>3, <2>4
    <2> QED BY <1>1, <2>5
  <1> QED BY <1>2, <1>3

(* Putting a member into a sorted list keeps it sorted.                    *)
LEMMA InsertIs ==
  ASSUME NEW C, \A c \in C : Bytes(c) \in Int,
         NEW s \in Seq(C), NEW c \in C, InOrder(s)
  PROVE  /\ Insert(s, c) \in Seq(C)
         /\ Len(Insert(s, c)) = Len(s) + 1
         /\ InOrder(Insert(s, c))
         /\ ToBag(Insert(s, c)) = Plus(ToBag(s), c)
  <1> DEFINE k == Place(s, c)
             t == InsertAt(s, k, c)
  <1>1. /\ k \in 1 .. Len(s) + 1
        /\ \A i \in 1 .. k - 1 : Before(s[i], c)
        /\ \A i \in k .. Len(s) : ~Before(s[i], c)
    BY PlaceIs
  <1>2. Insert(s, c) = t
    BY DEF Insert
  <1> HIDE DEF k
  <1>3. t \in Seq(C) /\ Inserted(t, s, k, c)
    BY <1>1, InsertAtIs
  <1>4. ToBag(t) = Plus(ToBag(s), c)
    BY <1>1, BagOfInsert
  <1> HIDE DEF t
  <1>5. ASSUME NEW i \in 1 .. Len(s) + 1, NEW j \in 1 .. Len(s) + 1, i < j
        PROVE  Before(t[i], t[j])
    <2>1. /\ \A a, b \in 1 .. Len(s) : a < b => Before(s[a], s[b])
          /\ \A a \in 1 .. Len(s) : s[a] \in C /\ Bytes(s[a]) \in Int
          /\ Bytes(c) \in Int
      BY DEF InOrder
    <2>2. ASSUME NEW a \in k .. Len(s) PROVE Before(c, s[a])
      <3> DEFINE x == Bytes(s[a])
                 d == Bytes(c)
      <3>1. a \in 1 .. Len(s)
        BY <1>1
      <3>2. x \in Int /\ d \in Int
        BY <2>1, <3>1
      <3>3. ~ (x <= d)
        BY <1>1 DEF Before
      <3> HIDE DEF x, d
      <3>4. d <= x
        BY <3>2, <3>3
      <3> QED BY <3>4 DEF Before, x, d
    <2>3. \A a \in 1 .. Len(s) + 1 :
            t[a] = IF a < k THEN s[a] ELSE IF a = k THEN c ELSE s[a - 1]
      BY <1>3 DEF Inserted
    <2>4. CASE j < k
      BY <1>1, <1>5, <2>1, <2>3, <2>4
    <2>5. CASE j = k
      BY <1>1, <1>5, <2>3, <2>5
    <2>6. CASE j > k
      <3> DEFINE b == j - 1
      <3>1. b \in k .. Len(s) /\ b \in 1 .. Len(s) /\ i <= b
        BY <1>1, <1>5, <2>6
      <3>2. t[j] = s[b]
        BY <1>1, <2>3, <2>6
      <3> HIDE DEF b
      <3>3. CASE i < k
        <4>1. i \in 1 .. Len(s) /\ i < b
          BY <1>1, <3>1, <3>3
        <4>2. t[i] = s[i]
          BY <2>3, <3>3
        <4>3. Before(s[i], s[b])
          BY <2>1, <3>1, <4>1
        <4> QED BY <3>2, <4>2, <4>3
      <3>4. CASE i = k
        BY <1>1, <2>2, <2>3, <3>1, <3>2, <3>4
      <3>5. CASE i > k
        <4> DEFINE a == i - 1
        <4>1. a \in 1 .. Len(s) /\ a < b
          BY <1>1, <1>5, <3>1, <3>5 DEF b
        <4>2. t[i] = s[a]
          BY <1>1, <2>3, <3>5
        <4> HIDE DEF a
        <4> QED BY <2>1, <3>1, <3>2, <4>1, <4>2
      <3>6. i < k \/ i = k \/ i > k
        BY <1>1
      <3> QED BY <3>3, <3>4, <3>5, <3>6
    <2>7. j < k \/ j = k \/ j > k
      BY <1>1
    <2> QED BY <2>4, <2>5, <2>6, <2>7
  <1>6. InOrder(t)
    BY <1>3, <1>5 DEF InOrder, Inserted
  <1> QED BY <1>2, <1>3, <1>4, <1>6 DEF Inserted

-----------------------------------------------------------------------------
(* A set that has 0 and the successors of its members has every natural.   *)
LEMMA CountingUp ==
  ASSUME NEW N, 0 \in N, \A n \in Nat : n \in N => n + 1 \in N
  PROVE  Nat \subseteq N
  <1> SUFFICES ASSUME Nat \ N # {} PROVE FALSE
    OBVIOUS
  <1>1. PICK n \in Nat \ N : \A m \in Nat \ N : n <= m
    BY Smallest
  <1>2. n - 1 \in Nat /\ n - 1 \in N /\ (n - 1) + 1 = n
    BY <1>1
  <1> QED BY <1>2

(* The lists that sorting s goes through.                                  *)
Sorts(f, s, n) ==
  /\ f[0] = <<>>
  /\ \A j \in 0 .. n - 1 : f[j + 1] = Insert(f[j], s[j + 1])

(* The insertions one after the other define a function.                   *)
LEMMA SortsExist ==
  ASSUME NEW s, NEW n \in Nat
  PROVE  \E f : Sorts(f, s, n)
  <1> DEFINE N == {k \in Nat : \E f : Sorts(f, s, k)}
  <1>1. 0 \in N
    <2>1. Sorts([j \in {0} |-> <<>>], s, 0)
      BY DEF Sorts
    <2> QED BY <2>1
  <1>2. ASSUME NEW k \in Nat, k \in N PROVE k + 1 \in N
    <2>1. PICK f : Sorts(f, s, k)
      BY <1>2
    <2> DEFINE g == [j \in 0 .. k + 1 |->
                       IF j = k + 1 THEN Insert(f[k], s[k + 1]) ELSE f[j]]
    <2>2. g[0] = <<>>
      BY <2>1 DEF Sorts
    <2>3. ASSUME NEW j \in 0 .. k PROVE g[j + 1] = Insert(g[j], s[j + 1])
      <3>1. g[j] = f[j]
        OBVIOUS
      <3>2. CASE j = k
        BY <3>1, <3>2
      <3>3. CASE j # k
        <4>1. j \in 0 .. k - 1 /\ j + 1 \in 0 .. k
          BY <3>3
        <4>2. g[j + 1] = f[j + 1]
          BY <4>1
        <4> QED BY <2>1, <3>1, <4>1, <4>2 DEF Sorts
      <3> QED BY <3>2, <3>3
    <2> HIDE DEF g
    <2>4. Sorts(g, s, k + 1)
      BY <2>2, <2>3 DEF Sorts
    <2> QED BY <2>4
  <1> HIDE DEF N
  <1>3. n \in N
    BY <1>1, <1>2, CountingUp
  <1> QED BY <1>3 DEF N

(* Sorting is that function's last value.                                  *)
LEMMA SortByBytesIs ==
  ASSUME NEW s, Len(s) \in Nat
  PROVE  \E f : Sorts(f, s, Len(s)) /\ SortByBytes(s) = f[Len(s)]
  <1> DEFINE body(f) == [n \in 0 .. Len(s) |->
                           IF n = 0 THEN <<>> ELSE Insert(f[n - 1], s[n])]
             w == CHOOSE f : f = body(f)
  <1>1. SortByBytes(s) = w[Len(s)]
    BY DEF SortByBytes
  <1>2. PICK f : Sorts(f, s, Len(s))
    BY SortsExist
  <1> DEFINE g == [n \in 0 .. Len(s) |-> f[n]]
  <1>3. g = body(g)
    <2>1. ASSUME NEW n \in 0 .. Len(s) PROVE g[n] = body(g)[n]
      <3>1. CASE n = 0
        BY <1>2, <3>1 DEF Sorts
      <3>2. CASE n # 0
        <4> DEFINE j == n - 1
        <4>1. j \in 0 .. Len(s) - 1 /\ j \in 0 .. Len(s) /\ j + 1 = n
          BY <3>2
        <4>2. body(g)[n] = Insert(g[j], s[n]) /\ g[n] = f[n]
          BY <3>2
        <4> HIDE DEF j
        <4>3. g[j] = f[j]
          BY <4>1
        <4>4. f[j + 1] = Insert(f[j], s[j + 1])
          BY <1>2, <4>1 DEF Sorts
        <4> QED BY <4>1, <4>2, <4>3, <4>4
      <3> QED BY <3>1, <3>2
    <2> QED BY <2>1
  <1>4. w = body(w)
    <2> HIDE DEF body, g
    <2> QED BY <1>3, Zenon DEF w
  <1> HIDE DEF w
  <1>5. w[0] = <<>>
    BY <1>4
  <1>6. ASSUME NEW j \in 0 .. Len(s) - 1 PROVE w[j + 1] = Insert(w[j], s[j + 1])
    <2>1. j + 1 \in 0 .. Len(s) /\ j + 1 # 0 /\ (j + 1) - 1 = j
      OBVIOUS
    <2> QED BY <1>4, <2>1
  <1>7. Sorts(w, s, Len(s))
    BY <1>5, <1>6 DEF Sorts
  <1> QED BY <1>1, <1>7

(* sort_and_compress keeps every member, as often as it was given, and     *)
(* leaves the list sorted (ring.rs:504-517).                               *)
THEOREM SortSorts ==
  ASSUME NEW C, \A c \in C : Bytes(c) \in Int, NEW s \in Seq(C)
  PROVE  /\ SortByBytes(s) \in Seq(C)
         /\ Len(SortByBytes(s)) = Len(s)
         /\ InOrder(SortByBytes(s))
         /\ IsSorted(SortByBytes(s), Before)
         /\ ToBag(SortByBytes(s)) = ToBag(s)
  <1> DEFINE upto(n) == SubSeq(s, 1, n)
             Is(t, n) == /\ t \in Seq(C) /\ Len(t) = n
                         /\ InOrder(t)
                         /\ ToBag(t) = ToBag(upto(n))
  <1>1. Len(s) \in Nat
    OBVIOUS
  <1>2. PICK f : Sorts(f, s, Len(s)) /\ SortByBytes(s) = f[Len(s)]
    BY <1>1, SortByBytesIs
  <1> DEFINE N == {n \in Nat : n <= Len(s) => Is(f[n], n)}
  <1>3. 0 \in N
    <2>1. f[0] = <<>> /\ upto(0) = <<>>
      BY <1>2, SubSeqEmpty DEF Sorts
    <2>2. InOrder(<<>>)
      BY DEF InOrder
    <2>3. <<>> \in Seq(C) /\ Len(<<>>) = 0
      OBVIOUS
    <2> QED BY <2>1, <2>2, <2>3
  <1>4. ASSUME NEW n \in Nat, n \in N PROVE n + 1 \in N
    <2> SUFFICES ASSUME n + 1 <= Len(s) PROVE Is(f[n + 1], n + 1)
      OBVIOUS
    <2>1. Is(f[n], n) /\ n \in 0 .. Len(s) - 1
      BY <1>4
    <2> DEFINE c == s[n + 1]
    <2>2. c \in C
      OBVIOUS
    <2>3. f[n + 1] = Insert(f[n], c)
      BY <1>2, <2>1 DEF Sorts
    <2> HIDE DEF c
    <2>4. /\ Insert(f[n], c) \in Seq(C)
          /\ Len(Insert(f[n], c)) = n + 1
          /\ InOrder(Insert(f[n], c))
          /\ ToBag(Insert(f[n], c)) = Plus(ToBag(f[n]), c)
      <3> DEFINE t == f[n]
      <3>1. t \in Seq(C) /\ Len(t) = n /\ InOrder(t)
        BY <2>1
      <3> HIDE DEF t, Is
      <3>2. /\ Insert(t, c) \in Seq(C)
            /\ Len(Insert(t, c)) = Len(t) + 1
            /\ InOrder(Insert(t, c))
            /\ ToBag(Insert(t, c)) = Plus(ToBag(t), c)
        BY <2>2, <3>1, InsertIs
      <3> QED BY <3>1, <3>2 DEF t
    <2>5. ToBag(upto(n + 1)) = Plus(ToBag(upto(n)), c)
      <3>0. \A i \in 1 .. n + 1 : s[i] \in C
        BY <2>1
      <3>1. /\ upto(n) \in Seq(C) /\ Len(upto(n)) = n
            /\ \A i \in 1 .. n : upto(n)[i] = s[i]
        <4>1. n \in Int /\ 1 \in Int /\ \A i \in 1 .. n : s[i] \in C
          BY <3>0
        <4>2. /\ upto(n) \in Seq(C) /\ Len(upto(n)) = IF 1 <= n THEN n - 1 + 1 ELSE 0
              /\ \A i \in 1 .. n - 1 + 1 : upto(n)[i] = s[1 + i - 1]
          BY <4>1, SubSeqProperties
        <4> HIDE DEF upto
        <4> QED BY <4>2
      <3>2. /\ upto(n + 1) \in Seq(C) /\ Len(upto(n + 1)) = n + 1
            /\ \A i \in 1 .. n + 1 : upto(n + 1)[i] = s[i]
        <4>1. n + 1 \in Int /\ 1 \in Int
          OBVIOUS
        <4>2. /\ upto(n + 1) \in Seq(C)
              /\ Len(upto(n + 1)) = IF 1 <= n + 1 THEN n + 1 - 1 + 1 ELSE 0
              /\ \A i \in 1 .. n + 1 - 1 + 1 : upto(n + 1)[i] = s[1 + i - 1]
          BY <3>0, <4>1, SubSeqProperties
        <4> HIDE DEF upto
        <4> QED BY <4>2
      <3> DEFINE u == upto(n)
                 v == upto(n + 1)
                 t == InsertAt(u, n + 1, c)
      <3> HIDE DEF u, v
      <3>3. n + 1 \in 1 .. Len(u) + 1
        BY <3>1 DEF u
      <3>4. t \in Seq(C) /\ Inserted(t, u, n + 1, c) /\ ToBag(t) = Plus(ToBag(u), c)
        BY <2>2, <3>1, <3>3, InsertAtIs, BagOfInsert DEF u
      <3> HIDE DEF t
      <3>5. Len(t) = n + 1 /\ \A i \in 1 .. n + 1 : t[i] = v[i]
        BY <3>1, <3>2, <3>4 DEF Inserted, u, v, c
      <3>6. t = v
        BY <3>2, <3>4, <3>5 DEF v
      <3> QED BY <3>4, <3>6 DEF u, v
    <2> QED BY <2>1, <2>3, <2>4, <2>5
  <1> HIDE DEF N
  <1>5. Len(s) \in N
    BY <1>3, <1>4, CountingUp
  <1>6. Is(f[Len(s)], Len(s))
    BY <1>1, <1>5 DEF N
  <1>7. upto(Len(s)) = s
    BY SubSeqFull
  <1>8. InOrder(SortByBytes(s)) => IsSorted(SortByBytes(s), Before)
    BY DEF InOrder, IsSorted
  <1> QED BY <1>2, <1>6, <1>7, <1>8

(* Sorting changes nothing in a sorted list: storing a ring and loading it *)
(* gives the same members in the same places (ring.rs:504-517).            *)
LEMMA SortedStays ==
  ASSUME NEW C, \A c \in C : Bytes(c) \in Int, NEW s \in Seq(C), InOrder(s)
  PROVE  SortByBytes(s) = s
  <1> DEFINE Is(t, n) == /\ t \in Seq(C) /\ Len(t) = n
                         /\ \A i \in 1 .. n : t[i] = s[i]
  <1>1. Len(s) \in Nat
    OBVIOUS
  <1>2. PICK f : Sorts(f, s, Len(s)) /\ SortByBytes(s) = f[Len(s)]
    BY <1>1, SortByBytesIs
  <1> DEFINE N == {n \in Nat : n <= Len(s) => Is(f[n], n)}
  <1>3. 0 \in N
    <2>1. f[0] = <<>>
      BY <1>2 DEF Sorts
    <2>2. <<>> \in Seq(C) /\ Len(<<>>) = 0
      OBVIOUS
    <2>3. 1 .. 0 = {}
      OBVIOUS
    <2>4. Is(f[0], 0)
      BY <2>1, <2>2, <2>3
    <2> QED BY <2>4
  <1>4. ASSUME NEW n \in Nat, n \in N PROVE n + 1 \in N
    <2> SUFFICES ASSUME n + 1 <= Len(s) PROVE Is(f[n + 1], n + 1)
      OBVIOUS
    <2> DEFINE c == s[n + 1]
               t == f[n]
    <2>1. /\ t \in Seq(C) /\ Len(t) = n
          /\ \A i \in 1 .. n : t[i] = s[i]
          /\ n \in 0 .. Len(s) - 1
      BY <1>4
    <2>2. c \in C
      OBVIOUS
    <2>3. f[n + 1] = Insert(t, c)
      BY <1>2, <2>1 DEF Sorts
    <2>4. InOrder(t) /\ \A i \in 1 .. n : Before(t[i], c)
      <3>1. 1 .. n + 1 \subseteq 1 .. Len(s)
        BY <2>1
      <3>2. \A i, j \in 1 .. n + 1 : i < j => Before(s[i], s[j])
        BY <3>1 DEF InOrder
      <3>3. ASSUME NEW i \in 1 .. n PROVE Before(t[i], c)
        <4>1. i \in 1 .. n + 1 /\ n + 1 \in 1 .. n + 1 /\ i < n + 1 /\ t[i] = s[i]
          BY <2>1
        <4>2. Before(s[i], s[n + 1])
          BY <3>2, <4>1
        <4> QED BY <4>1, <4>2
      <3>4. ASSUME NEW i \in 1 .. n, NEW j \in 1 .. n, i < j PROVE Before(t[i], t[j])
        <4>1. i \in 1 .. n + 1 /\ j \in 1 .. n + 1
          OBVIOUS
        <4>2. Before(s[i], s[j])
          BY <3>2, <3>4, <4>1
        <4>3. t[i] = s[i] /\ t[j] = s[j]
          BY <2>1
        <4> QED BY <4>2, <4>3
      <3> HIDE DEF t, c
      <3> QED BY <2>1, <3>3, <3>4 DEF InOrder
    <2> HIDE DEF t, c
    <2>5. /\ Place(t, c) \in 1 .. Len(t) + 1
          /\ \A i \in Place(t, c) .. Len(t) : ~Before(t[i], c)
      BY <2>1, <2>2, <2>4, PlaceIs
    <2> DEFINE k == Place(t, c)
    <2> HIDE DEF k
    <2>6. k = n + 1
      <3>1. k \in 1 .. n + 1 /\ \A i \in k .. n : ~Before(t[i], c)
        BY <2>1, <2>5 DEF k
      <3>2. QED BY <2>4, <3>1
    <2>7. Insert(t, c) = InsertAt(t, n + 1, c)
      BY <2>6 DEF Insert, k
    <2>8. n + 1 \in 1 .. Len(t) + 1
      BY <2>1
    <2>9. InsertAt(t, n + 1, c) \in Seq(C) /\ Inserted(InsertAt(t, n + 1, c), t, n + 1, c)
      BY <2>1, <2>2, <2>8, InsertAtIs
    <2> DEFINE u == InsertAt(t, n + 1, c)
    <2> HIDE DEF u
    <2>10. u \in Seq(C) /\ Inserted(u, t, n + 1, c)
      BY <2>9 DEF u
    <2>11. Is(u, n + 1)
      BY <2>1, <2>10 DEF Inserted, c
    <2> QED BY <2>3, <2>7, <2>11 DEF u
  <1> HIDE DEF N
  <1>5. Len(s) \in N
    BY <1>3, <1>4, CountingUp
  <1>6. Is(f[Len(s)], Len(s))
    BY <1>1, <1>5 DEF N
  <1> QED BY <1>2, <1>6

(* The members of a list are those of its bag.                             *)
LEMMA SortKeepsMembers ==
  ASSUME NEW C, \A c \in C : Bytes(c) \in Int, NEW s \in Seq(C)
  PROVE  Range(SortByBytes(s)) = Range(s)
  <1>1. ToBag(SortByBytes(s)) = ToBag(s)
    BY SortSorts
  <1>2. \A t : DOMAIN ToBag(t) = Range(t)
    BY DEF ToBag
  <1> QED BY <1>1, <1>2

(* The bag of a list has each of its members at least once.                *)
LEMMA BagOfList ==
  ASSUME NEW C, NEW s \in Seq(C)
  PROVE  IsABag(ToBag(s))
  <1> DEFINE n(x) == Cardinality(Places(s, x))
  <1>1. ToBag(s) = [x \in Range(s) |-> n(x)]
    BY DEF ToBag, Places
  <1>2. ASSUME NEW x \in Range(s) PROVE n(x) \in Nat /\ n(x) > 0
    <2>1. Places(s, x) # {}
      BY DEF Places, Range
    <2>2. IsFiniteSet(Places(s, x)) /\ n(x) \in Nat
      BY PlacesFinite
    <2>3. n(x) # 0
      BY <2>1, <2>2, FS_EmptySet
    <2> HIDE DEF n
    <2> QED BY <2>2, <2>3
  <1> HIDE DEF n
  <1> QED BY <1>1, <1>2 DEF IsABag

(* A member at the end of a list is in its bag once more.                  *)
LEMMA BagOfAppend ==
  ASSUME NEW C, NEW s \in Seq(C), NEW c \in C
  PROVE  ToBag(Append(s, c)) = Plus(ToBag(s), c)
  <1> DEFINE k == Len(s) + 1
             t == InsertAt(s, k, c)
             u == Append(s, c)
  <1>1. k \in 1 .. Len(s) + 1
    OBVIOUS
  <1>2. t \in Seq(C) /\ Inserted(t, s, k, c) /\ ToBag(t) = Plus(ToBag(s), c)
    BY <1>1, InsertAtIs, BagOfInsert
  <1>3. /\ u \in Seq(C) /\ Len(u) = Len(s) + 1
        /\ \A i \in 1 .. Len(s) + 1 : u[i] = IF i = k THEN c ELSE s[i]
    OBVIOUS
  <1> HIDE DEF t, u
  <1>4. /\ Len(t) = Len(s) + 1
        /\ \A i \in 1 .. Len(s) + 1 : t[i] = u[i]
    BY <1>2, <1>3 DEF Inserted
  <1>5. t = u
    BY <1>2, <1>3, <1>4
  <1> QED BY <1>2, <1>5 DEF u

(* The bag of no members.                                                  *)
LEMMA BagOfNothing == ToBag(<<>>) = [x \in {} |-> 1]
  BY DEF ToBag, Range
=============================================================================
