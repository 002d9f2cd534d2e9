-------------------------- MODULE RingSigningProofs --------------------------
(***************************************************************************)
(* Proofs about RingSigning, for rings of any length and any history of a  *)
(* ring and a ticket.                                                      *)
(***************************************************************************)
EXTENDS RingSigning, BlsagProofs, RingDataProofs

(* The two lists of a Full ring agree, so the hash a ticket was made under *)
(* determines the members it was made for.                                 *)
ListsAgree == IsDecompressed(ring) => ring.points = ring.compressed

TicketInv == ticket # Nil => origin.members = AsVec(ticket.ring_hash.members)

BoundInv == ListsAgree /\ TicketInv /\ TicketBoundToRing

(* Every operation on the ring keeps its two lists alike.                  *)
LEMMA ChangeKeepsLists ==
  ASSUME ListsAgree, NextRing
  PROVE  ListsAgree'
  <1> USE DEF IsDecompressed, FullRing, CompressedRing, ListsAgree
  <1>1. ASSUME NEW s, ring' = FullRing(s) PROVE ListsAgree'
    BY <1>1
  <1>2. ASSUME NEW s, ring' = CompressedRing(s) PROVE ListsAgree'
    BY <1>2
  <1>3. CASE ring' = ring
    BY <1>3
  <1>4. ASSUME NEW pos, IsDecompressed(ring), ring' = RemoveMember(ring, pos)
        PROVE  ListsAgree'
    BY <1>4 DEF RemoveMember
  <1>5. ASSUME NEW s, NewRing(s) PROVE ListsAgree'
    BY <1>1, <1>5 DEF NewRing
  <1>6. ASSUME NEW s, FromCompressed(s) PROVE ListsAgree'
    BY <1>2, <1>6 DEF FromCompressed
  <1>7. CASE RoundTrip
    BY <1>2, <1>7 DEF RoundTrip
  <1>8. CASE DecompressRing
    BY <1>1, <1>3, <1>8 DEF DecompressRing
  <1>9. ASSUME NEW P, AddPublicKey(P) PROVE ListsAgree'
    BY <1>1, <1>3, <1>9 DEF AddPublicKey
  <1>10. ASSUME NEW P, RemovePublicKey(P) PROVE ListsAgree'
    BY <1>3, <1>4, <1>10 DEF RemovePublicKey
  <1>11. QED BY <1>5, <1>6, <1>7, <1>8, <1>9, <1>10 DEF NextRing

(* Every step keeps precomputations bound to their rings.                  *)
LEMMA BoundStep ==
  ASSUME BoundInv, [Next]_vars
  PROVE  BoundInv'
  <1>1. ListsAgree /\ TicketInv /\ TicketBoundToRing
    BY DEF BoundInv
  <1>2. CASE ChangeRing
    <2>1. ListsAgree'
      BY <1>1, <1>2, ChangeKeepsLists DEF ChangeRing
    <2>2. TicketInv' /\ TicketBoundToRing'
      BY <1>1, <1>2 DEF ChangeRing, TicketInv, TicketBoundToRing
    <2>3. QED BY <2>1, <2>2 DEF BoundInv
  <1>3. CASE UNCHANGED <<ring, ticket, origin>> /\ (last' = Nil \/ UNCHANGED last)
    BY <1>1, <1>3 DEF BoundInv, ListsAgree, TicketInv, TicketBoundToRing
  <1>4. ASSUME NEW k, NEW d, PrecomputeSigning(k, d) PROVE BoundInv'
    <2>1. CASE Refuses(k, d)
      BY <1>3, <2>1 DEF Refuses
    <2>2. CASE /\ IsDecompressed(ring)
               /\ ticket'.ring_hash = CanonicalHash(Suite, ring)
               /\ origin'.members = Members
               /\ last' = Nil
               /\ UNCHANGED ring
      <3>1. ticket'.ring_hash.members = ring.points
        BY <1>1, <2>2 DEF CanonicalHash, ListsAgree
      <3>2. QED BY <1>1, <2>2, <3>1 DEF BoundInv, ListsAgree, TicketInv,
                                        TicketBoundToRing, Members
    <2>3. CASE ~Refuses(k, d)
      <3>1. PICK found \in Positions(ring.points, PublicKey(k)), draw \in Draws(RingLen(ring)) :
              /\ ticket' = [alpha |-> draw.nonce, alpha_g |-> PMul(draw.nonce, G),
                            alpha_hp |-> PMul(draw.nonce, PointsOf(d)[found - 1]),
                            ring_hash |-> CanonicalHash(Suite, ring),
                            signer_index |-> found - 1, key_image |-> KeyImage(k),
                            responses |-> draw.responses, secret_key |-> k]
              /\ origin' = [members |-> Members, trusted |-> TrustedAt(d, {found - 1})]
        BY <1>4, <2>3, Zenon DEF PrecomputeSigning
      <3>2. IsDecompressed(ring) /\ last' = Nil /\ UNCHANGED ring
        BY <1>4, <2>3 DEF PrecomputeSigning
      <3>3. QED BY <2>2, <3>1, <3>2
    <2>4. QED BY <2>1, <2>3
  <1>5. ASSUME NEW k, NEW d, NEW m, Sign(k, d, m) PROVE BoundInv'
    <2>1. CASE Refuses(k, d)
      BY <1>3, <2>1 DEF Refuses
    <2>2. CASE last'.members = last'.made_for /\ UNCHANGED <<ring, ticket, origin>>
      BY <1>1, <2>2 DEF BoundInv, ListsAgree, TicketInv, TicketBoundToRing
    <2>3. QED BY <1>5, <2>1, <2>2 DEF Sign, Output
  <1>6. ASSUME NEW H, NEW d, NEW m, SignPrecomputed(H, d, m) PROVE BoundInv'
    <2>1. ticket # Nil /\ ticket' = Nil /\ ring' = ring
      BY <1>6 DEF SignPrecomputed
    <2>2. ListsAgree' /\ TicketInv'
      BY <1>1, <2>1 DEF ListsAgree, TicketInv
    <2>3. CASE last' = Nil
      BY <2>2, <2>3 DEF BoundInv, TicketBoundToRing
    <2>4. CASE /\ IsDecompressed(ring)
               /\ TicketRing(ticket, H)
               /\ last'.members = Members
               /\ last'.made_for = origin.members
      <3>1. ticket.ring_hash.members = ring.points
        BY <1>1, <2>4 DEF TicketRing, CanonicalHash, ListsAgree
      <3>2. QED BY <1>1, <2>1, <2>2, <2>4, <3>1 DEF BoundInv, TicketInv,
                                                   TicketBoundToRing, Members
    <2>5. QED BY <1>6, <2>3, <2>4 DEF SignPrecomputed, Output
  <1>7. CASE UNCHANGED vars
    BY <1>3, <1>7 DEF vars
  <1>8. QED BY <1>2, <1>4, <1>5, <1>6, <1>7 DEF Next

(* A ticket signs only for the ring it was made for, whatever became of    *)
(* the ring in between (precompute.rs:27-28, sign.rs:280-298).             *)
THEOREM TicketBinding == Spec => []TicketBoundToRing
  <1>1. Init => BoundInv
    BY DEF Init, InitRing, FullRing, BoundInv, ListsAgree, TicketInv, TicketBoundToRing
  <1>2. BoundInv /\ [Next]_vars => BoundInv'
    BY BoundStep
  <1>3. BoundInv => TicketBoundToRing
    BY DEF BoundInv
  <1>4. QED BY <1>1, <1>2, <1>3, PTL DEF Spec

-----------------------------------------------------------------------------
(* The operations on bags that RingHoldsKeys counts with.                  *)
LEMMA AddIsPlus ==
  ASSUME NEW B, NEW x
  PROVE  BagAdd(B, x) = Plus(B, x)
  <1>1. CASE x \in DOMAIN B
    <2>1. DOMAIN B \cup {x} = DOMAIN B
      BY <1>1
    <2> QED BY <1>1, <2>1 DEF BagAdd, Plus
  <1>2. CASE x \notin DOMAIN B
    BY <1>2 DEF BagAdd, Plus
  <1> QED BY <1>1, <1>2

(* Taking out of a bag what was put in.                                    *)
LEMMA RemoveUndoesPlus ==
  ASSUME NEW B, IsABag(B), NEW x
  PROVE  BagRemove(Plus(B, x), x) = B
  <1> DEFINE P == Plus(B, x)
  <1>1. /\ x \in DOMAIN P /\ DOMAIN P = DOMAIN B \cup {x}
        /\ P[x] = (IF x \in DOMAIN B THEN B[x] ELSE 0) + 1
        /\ \A y \in DOMAIN B : y # x => P[y] = B[y]
    BY DEF Plus
  <1>2. /\ B = [y \in DOMAIN B |-> B[y]]
        /\ \A y \in DOMAIN B : B[y] \in Nat /\ B[y] > 0
    BY DEF IsABag
  <1> HIDE DEF P
  <1>3. CASE x \in DOMAIN B
    <2>1. P[x] # 1 /\ P[x] - 1 = B[x] /\ DOMAIN P = DOMAIN B
      BY <1>1, <1>2, <1>3
    <2>2. BagRemove(P, x) = [y \in DOMAIN B |-> IF y = x THEN P[y] - 1 ELSE P[y]]
      BY <1>1, <2>1 DEF BagRemove
    <2>3. \A y \in DOMAIN B : (IF y = x THEN P[y] - 1 ELSE P[y]) = B[y]
      BY <1>1, <2>1
    <2> QED BY <1>2, <2>2, <2>3 DEF P
  <1>4. CASE x \notin DOMAIN B
    <2>1. P[x] = 1 /\ DOMAIN P \ {x} = DOMAIN B
      BY <1>1, <1>4
    <2>2. BagRemove(P, x) = [y \in DOMAIN B |-> P[y]]
      BY <1>1, <2>1 DEF BagRemove
    <2>3. \A y \in DOMAIN B : P[y] = B[y]
      BY <1>1, <1>4
    <2> QED BY <1>2, <2>2, <2>3 DEF P
  <1> QED BY <1>3, <1>4

-----------------------------------------------------------------------------
(* The ring: a sorted list of encodings, the members B of it and no other. *)
Holds(s, B) ==
  /\ s \in Seq(Compressed)
  /\ Len(s) <= MaxRing
  /\ InOrder(s)
  /\ ToBag(s) = B

RingInv ==
  /\ Holds(ring.compressed, keys)
  /\ IsDecompressed(ring) =>
       ring.points = ring.compressed /\ ring.compressed \in Seq(Point)

(* Encodings are ordered by their bytes.                                   *)
LEMMA EncodingsOrdered ==
  /\ \A c \in Compressed : Bytes(c) \in Int
  /\ \A c \in Point : Bytes(c) \in Int
  /\ Point \subseteq Compressed /\ Key \subseteq Point /\ Seq(Point) \subseteq Seq(Compressed)
  BY RingConstants DEF Compressed

(* The bounded sequences of the model are sequences.                       *)
LEMMA BoundedIsSeq ==
  ASSUME NEW C, NEW s \in BoundedSeq(C, MaxRing)
  PROVE  s \in Seq(C) /\ Len(s) <= MaxRing
  <1>1. PICK m \in 0 .. MaxRing : s \in [1 .. m -> C]
    BY DEF BoundedSeq, SeqOf
  <1>2. MaxRing \in Nat
    BY RingConstants
  <1> QED BY <1>1, <1>2

(* A sorted list holds the bag of what was sorted.                         *)
LEMMA SortHolds ==
  ASSUME NEW s \in Seq(Compressed), Len(s) <= MaxRing
  PROVE  Holds(SortByBytes(s), ToBag(s))
  BY EncodingsOrdered, SortSorts DEF Holds

(* Sorting points gives points.                                            *)
LEMMA SortOfPoints ==
  ASSUME NEW s \in Seq(Point)
  PROVE  SortByBytes(s) \in Seq(Point)
  BY EncodingsOrdered, SortSorts

(* Every operation on the ring keeps its invariant.                        *)
LEMMA RingStep ==
  ASSUME RingInv, NextRing
  PROVE  RingInv'
  <1> USE DEF IsDecompressed, FullRing, CompressedRing
  <1>1. ASSUME NEW s, Holds(s, keys'), s \in Seq(Point), ring' = FullRing(s) PROVE RingInv'
    BY <1>1 DEF RingInv
  <1>2. ASSUME NEW s, Holds(s, keys'), ring' = CompressedRing(s) PROVE RingInv'
    BY <1>2 DEF RingInv
  <1>3. CASE UNCHANGED <<ring, keys>>
    BY <1>3 DEF RingInv
  <1>4. ASSUME NEW s \in BoundedSeq(Key, MaxRing), NewRing(s) PROVE RingInv'
    <2>1. s \in Seq(Point) /\ Len(s) <= MaxRing /\ s \in Seq(Compressed)
      BY EncodingsOrdered, BoundedIsSeq
    <2>2. Holds(SortByBytes(s), ToBag(s)) /\ SortByBytes(s) \in Seq(Point)
      BY <2>1, SortHolds, SortOfPoints
    <2> QED BY <1>1, <1>4, <2>2 DEF NewRing
  <1>5. ASSUME NEW s \in BoundedSeq(Key \cup {Malformed}, MaxRing), FromCompressed(s)
        PROVE  RingInv'
    <2>1. s \in Seq(Compressed) /\ Len(s) <= MaxRing
      <3>1. s \in Seq(Key \cup {Malformed}) /\ Len(s) <= MaxRing
        BY BoundedIsSeq
      <3>2. Key \cup {Malformed} \subseteq Compressed
        BY EncodingsOrdered DEF Compressed
      <3> QED BY <3>1, <3>2
    <2>2. Holds(SortByBytes(s), ToBag(s))
      BY <2>1, SortHolds
    <2> QED BY <1>2, <1>5, <2>2 DEF FromCompressed
  <1>6. CASE RoundTrip
    <2> DEFINE s == ring.compressed
    <2>1. s \in Seq(Compressed) /\ Len(s) <= MaxRing /\ ToBag(s) = keys
      BY DEF RingInv, Holds
    <2> HIDE DEF s
    <2>2. Holds(SortByBytes(s), keys)
      BY <2>1, SortHolds
    <2>3. ring' = CompressedRing(SortByBytes(s)) /\ keys' = keys
      BY <1>6 DEF RoundTrip, s
    <2> QED BY <1>2, <2>2, <2>3
  <1>7. CASE DecompressRing
    <2>1. CASE \A i \in 1 .. RingLen(ring) : Decompresses(ring.compressed[i])
      <3>1. ring.compressed \in Seq(Point)
        BY <2>1 DEF RingInv, Holds, RingLen, Decompresses
      <3>2. Holds(ring.compressed, keys)
        BY DEF RingInv
      <3> QED BY <1>1, <1>3, <1>7, <2>1, <3>1, <3>2 DEF DecompressRing
    <2> QED BY <1>3, <1>7, <2>1 DEF DecompressRing
  <1>8. ASSUME NEW P \in Key, AddPublicKey(P) PROVE RingInv'
    <2>1. CASE UNCHANGED <<ring, keys>>
      BY <1>3, <2>1
    <2>2. CASE /\ IsDecompressed(ring)
               /\ RingLen(ring) < MaxRing
               /\ ring' = FullRing(SortByBytes(Append(ring.points, P)))
               /\ keys' = BagAdd(keys, P)
      <3> DEFINE s == ring.points
                 t == Append(s, P)
      <3>1. s \in Seq(Point) /\ Len(s) < MaxRing /\ ToBag(s) = keys /\ P \in Point
        BY <2>2, EncodingsOrdered DEF RingInv, Holds, RingLen
      <3> HIDE DEF s
      <3>2. ToBag(t) = keys'
        BY <2>2, <3>1, BagOfAppend, AddIsPlus
      <3>3. t \in Seq(Point) /\ Len(t) <= MaxRing /\ t \in Seq(Compressed)
        <4>1. Len(t) = Len(s) + 1 /\ Len(s) \in Nat /\ t \in Seq(Point)
          BY <3>1
        <4> QED BY <3>1, <4>1, RingConstants, EncodingsOrdered
      <3> HIDE DEF t
      <3>4. Holds(SortByBytes(t), keys') /\ SortByBytes(t) \in Seq(Point)
        BY <3>2, <3>3, SortHolds, SortOfPoints
      <3>5. ring' = FullRing(SortByBytes(t))
        BY <2>2 DEF s, t
      <3> QED BY <1>1, <3>4, <3>5
    <2> QED BY <1>8, <2>1, <2>2 DEF AddPublicKey
  <1>9. ASSUME NEW P \in Key, RemovePublicKey(P) PROVE RingInv'
    <2>1. CASE UNCHANGED <<ring, keys>>
      BY <1>3, <2>1
    <2>2. ASSUME NEW found \in Positions(ring.compressed, P), IsDecompressed(ring),
                 keys' = BagRemove(keys, P),
                 ring' = RemoveMember(ring, CHOOSE i \in 1 .. found :
                           /\ \A j \in i .. found : ring.compressed[j] = P
                           /\ i = 1 \/ ring.compressed[i - 1] # P)
          PROVE  RingInv'
      <3> DEFINE s == ring.compressed
                 N == {i \in 1 .. found : \A j \in i .. found : s[j] = P}
                 IsFirst(i) == /\ \A j \in i .. found : s[j] = P
                               /\ i = 1 \/ s[i - 1] # P
                 first == CHOOSE i \in 1 .. found : IsFirst(i)
      <3>1. /\ s \in Seq(Point) /\ Len(s) <= MaxRing /\ InOrder(s) /\ ToBag(s) = keys
            /\ ring.points = s
        BY <2>2 DEF RingInv, Holds
      <3>2. found \in 1 .. Len(s) /\ s[found] = P
        BY <2>2 DEF Positions
      <3> HIDE DEF s
      <3>3. \E i \in 1 .. found : IsFirst(i)
        <4>1. N \in SUBSET Nat /\ found \in N
          BY <3>2
        <4> HIDE DEF N
        <4>2. PICK i \in N : \A j \in N : i <= j
          BY <4>1, Smallest
        <4>3. i \in 1 .. found /\ \A j \in i .. found : s[j] = P
          BY DEF N
        <4>4. ASSUME i # 1, s[i - 1] = P PROVE FALSE
          <5>1. i - 1 \in 1 .. found /\ \A j \in i - 1 .. found : j = i - 1 \/ j \in i .. found
            BY <3>1, <3>2, <4>3, <4>4
          <5>2. i - 1 \in N
            BY <4>3, <4>4, <5>1 DEF N
          <5> QED BY <4>2, <4>3, <5>2
        <4> QED BY <4>3, <4>4
      <3>4. first \in 1 .. found /\ s[first] = P
        <4>1. first \in 1 .. found /\ IsFirst(first)
          BY <3>3
        <4> HIDE DEF first
        <4> QED BY <3>2, <4>1
      <3>5. ring' = RemoveMember(ring, first)
        BY <2>2 DEF s
      <3> HIDE DEF first
      <3>6. first \in 1 .. Len(s)
        BY <3>2, <3>4
      <3> DEFINE t == RemoveAt(s, first)
      <3>7. /\ t \in Seq(Point)
            /\ Len(t) = Len(s) - 1
            /\ \A i \in 1 .. Len(s) - 1 : t[i] = IF i < first THEN s[i] ELSE s[i + 1]
            /\ s = InsertAt(t, first, s[first])
        BY <3>1, <3>6, RemoveAtIs
      <3> HIDE DEF t
      <3>8. ToBag(t) = keys'
        <4>1. first \in 1 .. Len(t) + 1
          BY <3>1, <3>6, <3>7
        <4>2. P \in Point
          BY EncodingsOrdered
        <4>3. ToBag(s) = Plus(ToBag(t), P)
          BY <3>4, <3>7, <4>1, <4>2, BagOfInsert
        <4>4. IsABag(ToBag(t))
          BY <3>7, BagOfList
        <4> QED BY <2>2, <3>1, <4>3, <4>4, RemoveUndoesPlus
      <3>9. InOrder(t)
        <4> SUFFICES ASSUME NEW i \in 1 .. Len(s) - 1, NEW j \in 1 .. Len(s) - 1, i < j
                     PROVE  Before(t[i], t[j])
          BY <3>7 DEF InOrder
        <4> DEFINE a == IF i < first THEN i ELSE i + 1
                   b == IF j < first THEN j ELSE j + 1
        <4>1. a \in 1 .. Len(s) /\ b \in 1 .. Len(s) /\ a < b
          BY <3>1, <3>6
        <4>2. t[i] = s[a] /\ t[j] = s[b]
          BY <3>7
        <4> HIDE DEF a, b
        <4>3. Before(s[a], s[b])
          BY <3>1, <4>1 DEF InOrder
        <4> QED BY <4>2, <4>3
      <3>10. Holds(t, keys')
        BY <3>1, <3>7, <3>8, <3>9, EncodingsOrdered, RingConstants DEF Holds
      <3>11. ring' = [compressed |-> t, points |-> t]
        BY <3>1, <3>5 DEF RemoveMember, t, s
      <3> QED BY <3>7, <3>10, <3>11 DEF RingInv
    <2> QED BY <1>9, <2>1, <2>2 DEF RemovePublicKey
  <1> QED BY <1>4, <1>5, <1>6, <1>7, <1>8, <1>9 DEF NextRing

(* A ring just built satisfies it.                                         *)
LEMMA InitialRing ==
  ASSUME InitRing
  PROVE  RingInv
  <1> DEFINE s == <<>>
  <1>1. /\ s \in Seq(Point) /\ s \in Seq(Compressed) /\ Len(s) = 0
        /\ \A x : Places(s, x) = {}
    BY DEF Places
  <1>2. ring.compressed = s /\ ring.points = s /\ keys = EmptyBag
    BY DEF InitRing, FullRing
  <1>3. ToBag(s) = EmptyBag
    BY BagOfNothing DEF EmptyBag, SetToBag
  <1>4. Holds(s, keys)
    <2> HIDE DEF s
    <2> QED BY <1>1, <1>2, <1>3, RingConstants DEF Holds, InOrder
  <1> QED BY <1>1, <1>2, <1>4 DEF RingInv

-----------------------------------------------------------------------------
(* The members of a ring that can sign, as signing takes them.             *)
LEMMA MembersAre ==
  ASSUME RingInv, IsDecompressed(ring)
  PROVE  /\ RingLen(ring) \in 0 .. MaxRing
         /\ ring.points = ring.compressed
         /\ Len(ring.points) = RingLen(ring)
         /\ ring.points \in Seq(Point)
         /\ Members \in Vec(RingLen(ring), Point)
         /\ Members = AsVec(ring.compressed)
  <1> DEFINE s == ring.compressed
  <1>1. s \in Seq(Point) /\ Len(s) \in 0 .. MaxRing /\ ring.points = s
    BY DEF RingInv, Holds
  <1> HIDE DEF s
  <1>2. AsVec(s) \in Vec(Len(s), Point)
    BY <1>1 DEF AsVec, Vec
  <1> QED BY <1>1, <1>2 DEF s, Members, RingLen

(* Prepared data of the ring's hash and length: a point for each member,   *)
(* and, if it can be trusted, the one the member is hashed to.             *)
LEMMA PreparedPoints ==
  ASSUME RingInv, IsDecompressed(ring), NEW H, NEW d \in Preparations, Accepts(H, d)
  PROVE  /\ PointsOf(d) \in Vec(RingLen(ring), Point)
         /\ \A indices \in SUBSET (0 .. RingLen(ring) - 1) :
              TrustedAt(d, indices) =>
                \A i \in indices : PointsOf(d)[i] = HashToPoint(Members[i])
  <1> DEFINE s == ring.compressed
             n == RingLen(ring)
             hs == [i \in 1 .. n |-> HashToPoint(s[i])]
             hashed == HashedPoints(Members, n)
  <1>1. /\ n \in Nat /\ s \in Seq(Point) /\ Len(s) = n /\ ring.points = s
        /\ Members = AsVec(s)
    BY MembersAre
  <1> HIDE DEF s, n
  <1>2. /\ hs \in Seq(Point) /\ Len(hs) = n
        /\ \A i \in 1 .. n : hs[i] = HashToPoint(s[i])
    BY <1>1, CurveTypes
  <1>3. hashed = [i \in 0 .. n - 1 |-> HashToPoint(s[i + 1])]
    BY <1>1 DEF HashedPoints, AsVec
  <1>4. AsVec(hs) = hashed
    <2> HIDE DEF hs
    <2>1. \A i \in 0 .. n - 1 : hs[i + 1] = HashToPoint(s[i + 1])
      BY <1>1, <1>2
    <2> QED BY <1>2, <1>3, <2>1 DEF AsVec
  <1>5. hashed \in Vec(n, Point)
    <2>1. \A i \in 0 .. n - 1 : HashToPoint(s[i + 1]) \in Point
      BY <1>1, CurveTypes
    <2> QED BY <1>3, <2>1 DEF Vec
  <1> DEFINE Right == \A indices \in SUBSET (0 .. n - 1) :
                        TrustedAt(d, indices) =>
                          \A i \in indices : PointsOf(d)[i] = HashToPoint(Members[i])
  <1>8. ASSUME Trusted(d) => PointsOf(d) = hashed
        PROVE  Right
    <2>1. \A i \in 0 .. n - 1 : hashed[i] = HashToPoint(Members[i])
      BY <1>1, <1>3 DEF AsVec
    <2> HIDE DEF hs, hashed
    <2> QED BY <1>8, <2>1 DEF TrustedAt
  <1> HIDE DEF hs, hashed, Right
  <1>6. ASSUME d = Nil PROVE PointsOf(d) \in Vec(n, Point) /\ Right
    <2>1. PointsOf(d) = hashed
      BY <1>6 DEF PointsOf, hashed, n
    <2>2. Right
      BY <1>8, <2>1
    <2> QED BY <1>5, <2>1, <2>2
  <1>7. ASSUME d # Nil PROVE PointsOf(d) \in Vec(n, Point) /\ Right
    <2>1. /\ PointsOf(d) = AsVec(d.hashed_points)
          /\ d.ring_hash = CanonicalHash(H, ring)
          /\ Len(d.hashed_points) = n
      BY <1>7 DEF PointsOf, Accepts, SameRing, n
    <2>2. ASSUME d.hashed_points = hs PROVE PointsOf(d) = hashed
      BY <1>4, <2>1, <2>2
    <2>3. ASSUME d \in KeptPreparations PROVE d.hashed_points = hs
      <3>1. PICK t : d = Prepare(Suite, FullRing(t))
        BY <2>3 DEF KeptPreparations
      <3>2. d.ring_hash.members = t /\ d.hashed_points = [i \in 1 .. Len(t) |-> HashToPoint(t[i])]
        BY <3>1 DEF Prepare, FullRing, CanonicalHash
      <3>3. t = s
        BY <2>1, <3>2 DEF CanonicalHash, s
      <3> QED BY <1>1, <3>2, <3>3 DEF hs
    <2>4. ASSUME VerifyPrepared(Suite, d, ring) PROVE d.hashed_points = hs
      BY <1>1, <2>4 DEF VerifyPrepared, Prepare, hs
    <2>5. ASSUME Trusted(d) PROVE PointsOf(d) = hashed
      BY <1>7, <2>2, <2>3, <2>4, <2>5 DEF Trusted
    <2>6. PointsOf(d) \in Vec(n, Point)
      <3>1. CASE d \in KeptPreparations
        BY <1>5, <2>2, <2>3, <3>1
      <3>2. CASE d \in LoadedPreparations
        <4> DEFINE hp == d.hashed_points
        <4>1. PICK kept \in KeptPreparations :
                /\ kept.ring_hash = CanonicalHash(Suite, ring)
                /\ \/ d = [kept EXCEPT !.hashed_points = <<>>]
                   \/ \E slots \in SUBSET (DOMAIN kept.hashed_points) :
                        d = Damaged(kept, slots)
          BY <3>2 DEF LoadedPreparations
        <4>2. PICK t : kept = Prepare(Suite, FullRing(t))
          BY DEF KeptPreparations
        <4>3. /\ kept.ring_hash.members = t
              /\ kept.hashed_points = [i \in 1 .. Len(t) |-> HashToPoint(t[i])]
              /\ kept = [ring_hash |-> kept.ring_hash, hashed_points |-> kept.hashed_points]
          BY <4>2 DEF Prepare, FullRing, CanonicalHash
        <4>4. kept.hashed_points = hs
          <5>1. t = s
            BY <4>1, <4>3 DEF CanonicalHash, s
          <5> QED BY <1>1, <4>3, <5>1 DEF hs
        <4>5. hp \in Seq(Point) /\ Len(hp) = n
          <5>1. CASE d = [kept EXCEPT !.hashed_points = <<>>]
            <6>1. hp = <<>>
              BY <4>3, <5>1
            <6> QED BY <2>1, <6>1
          <5>2. ASSUME NEW slots, d = Damaged(kept, slots)
                PROVE  hp \in Seq(Point) /\ Len(hp) = n
            <6>1. hp = [i \in DOMAIN hs |-> IF i \in slots THEN PAdd(hs[i], G) ELSE hs[i]]
              BY <4>3, <4>4, <5>2 DEF Damaged
            <6>2. DOMAIN hs = 1 .. n /\ \A i \in 1 .. n : hs[i] \in Point
              BY <1>2
            <6>3. \A i \in 1 .. n : PAdd(hs[i], G) \in Point
              BY <6>2, CurveTypes
            <6> QED BY <1>1, <6>1, <6>2, <6>3
          <5> QED BY <4>1, <5>1, <5>2
        <4> HIDE DEF hp
        <4>6. AsVec(hp) \in Vec(n, Point)
          BY <1>1, <4>5 DEF AsVec, Vec
        <4> QED BY <2>1, <4>6 DEF hp
      <3> QED BY <1>7, <3>1, <3>2 DEF Preparations
    <2>7. Right
      BY <1>8, <2>5
    <2> QED BY <2>6, <2>7
  <1>9. PointsOf(d) \in Vec(n, Point) /\ Right
    BY <1>6, <1>7
  <1> QED BY <1>9 DEF Right, n

-----------------------------------------------------------------------------
(* A ticket is made for a member of its ring; its commitments are those of *)
(* its nonce, unless its own point was read from data not to be trusted.   *)
TicketTyped ==
  /\ ticket \in {Nil} \cup Tickets
  /\ origin \in {Nil} \cup Origins
  /\ ticket = Nil <=> origin = Nil

TicketSigns ==
  ticket # Nil =>
    /\ ticket.signer_index \in 0 .. Len(ticket.ring_hash.members) - 1
    /\ ticket.ring_hash.members[ticket.signer_index + 1] = PublicKey(ticket.secret_key)
    /\ ticket.key_image = KeyImage(ticket.secret_key)
    /\ ticket.alpha_g = PMul(ticket.alpha, G)
    /\ origin.trusted =>
         ticket.alpha_hp = PMul(ticket.alpha, HashToPoint(PublicKey(ticket.secret_key)))

IInv == RingInv /\ TicketTyped /\ TicketSigns /\ OneShotVerifies

(* What signing at once gives out verifies, if its data could be trusted.  *)
LEMMA SignVerifies ==
  ASSUME RingInv, IsDecompressed(ring), NEW k \in SecretKeys, NEW d \in Preparations,
         Accepts(Suite, d), NEW m \in Message,
         NEW found \in Positions(ring.points, PublicKey(k)),
         TrustedAt(d, Others(found - 1)), NEW draw \in Draws(RingLen(ring))
  PROVE  Verify(SignWith(k, Members, RingLen(ring), found - 1, PointsOf(d), m,
                         draw.nonce, draw.responses),
                Members, RingLen(ring), m)
  <1> DEFINE n == RingLen(ring)
             pi == found - 1
  <1>1. /\ n \in 0 .. MaxRing /\ Members \in Vec(n, Point) /\ ring.points \in Seq(Point)
        /\ Len(ring.points) = n /\ Members = AsVec(ring.points)
    BY MembersAre DEF Members
  <1>2. RightBeside(PointsOf(d), Members, n, pi)
    <2>1. Others(pi) \in SUBSET (0 .. n - 1)
      BY DEF Others
    <2>2. \A i \in Others(pi) : PointsOf(d)[i] = HashToPoint(Members[i])
      BY <2>1, PreparedPoints
    <2> QED BY <2>2 DEF RightBeside, Others
  <1>3. k \in Scalar /\ draw.nonce \in Scalar /\ draw.responses \in Vec(n, Scalar)
        /\ \A L, R \in Point : Challenge(m, L, R) \in Scalar
    BY <1>1, SigningConstants
  <1> HIDE DEF n
  <1>4. found \in 1 .. n /\ ring.points[found] = PublicKey(k)
    BY <1>1 DEF Positions
  <1>5. n \in Nat \ {0} /\ pi \in 0 .. n - 1 /\ pi + 1 = found
    BY <1>1, <1>4, RingConstants
  <1> HIDE DEF pi
  <1>6. Members[pi] = PublicKey(k)
    BY <1>1, <1>4, <1>5 DEF AsVec
  <1>7. Verify(SignWith(k, Members, n, pi, PointsOf(d), m,
                        draw.nonce, draw.responses), Members, n, m)
    BY <1>1, <1>2, <1>3, <1>5, <1>6, PreparedRoundTrip
  <1> QED BY <1>7 DEF n, pi

(* So does what a ticket gives out, over the ring it was made for.         *)
LEMMA TicketVerifies ==
  ASSUME IInv, IsDecompressed(ring), ticket # Nil, NEW H, NEW d \in Preparations,
         Accepts(H, d), TicketRing(ticket, H), TicketLength(ticket, H),
         origin.trusted, TrustedAt(d, Others(ticket.signer_index)), NEW m \in Message
  PROVE  Verify(CloseRing(TicketChallenge(ticket, m), ticket.key_image,
                          ticket.secret_key, Members, RingLen(ring),
                          ticket.signer_index, PointsOf(d), m,
                          ticket.alpha, ticket.responses),
                Members, RingLen(ring), m)
  <1> DEFINE n == RingLen(ring)
             k == ticket.secret_key
             pi == ticket.signer_index
             a == ticket.alpha
             rs == ticket.responses
             s == ring.compressed
  <1>1. RingInv /\ ticket \in Tickets /\ TicketSigns
    BY DEF IInv, TicketTyped
  <1>2. /\ n \in 0 .. MaxRing /\ Members \in Vec(n, Point) /\ Len(s) = n
        /\ Members = AsVec(s)
    BY <1>1, MembersAre
  <1>3. RightBeside(PointsOf(d), Members, n, pi)
    <2>1. Others(pi) \in SUBSET (0 .. n - 1)
      BY DEF Others
    <2>2. \A i \in Others(pi) : PointsOf(d)[i] = HashToPoint(Members[i])
      BY <1>1, <2>1, PreparedPoints
    <2> QED BY <2>2 DEF RightBeside, Others
  <1>4. k \in SecretKeys /\ a \in Scalar /\ rs \in UNION {Vec(i, Scalar) : i \in 1 .. MaxRing}
    BY <1>1 DEF Tickets
  <1>5. DOMAIN rs = 0 .. n - 1 /\ ticket.ring_hash.members = s
    BY DEF TicketLength, TicketRing, CanonicalHash
  <1>6. pi \in 0 .. n - 1 /\ s[pi + 1] = PublicKey(k)
    BY <1>1, <1>2, <1>5 DEF TicketSigns
  <1>7. /\ ticket.key_image = KeyImage(k)
        /\ TicketChallenge(ticket, m) = NonceChallenge(m, a, HashToPoint(PublicKey(k)))
    BY <1>1 DEF TicketSigns, TicketChallenge, NonceChallenge
  <1>8. k \in Scalar /\ \A L, R \in Point : Challenge(m, L, R) \in Scalar
    BY <1>4, SigningConstants
  <1> HIDE DEF n, k, pi, a, rs, s
  <1>9. rs \in Vec(n, Scalar)
    <2>1. PICK i \in 1 .. MaxRing : rs \in Vec(i, Scalar)
      BY <1>4
    <2>2. DOMAIN rs = 0 .. i - 1
      BY <2>1 DEF Vec
    <2> QED BY <1>5, <2>1, <2>2 DEF Vec
  <1>10. n \in Nat \ {0} /\ Members[pi] = PublicKey(k)
    BY <1>2, <1>6, RingConstants DEF AsVec
  <1>11. Verify(SignWith(k, Members, n, pi, PointsOf(d), m, a, rs), Members, n, m)
    BY <1>2, <1>3, <1>4, <1>6, <1>8, <1>9, <1>10, PreparedRoundTrip
  <1> QED BY <1>7, <1>11 DEF SignWith, n, k, pi, a, rs

(* The invariant holds at first.                                           *)
LEMMA InitialIInv ==
  ASSUME Init
  PROVE  IInv
  BY InitialRing DEF Init, IInv, TicketTyped, TicketSigns, OneShotVerifies

(* A call that is refused.                                                 *)
LEMMA Refusing ==
  ASSUME IInv, UNCHANGED <<ring, keys, ticket, origin>>, last' = Nil
  PROVE  IInv'
  BY DEF IInv, RingInv, Holds, TicketTyped, TicketSigns, OneShotVerifies

(* Making a precomputation.                                                *)
LEMMA PrecomputeStep ==
  ASSUME IInv, NEW k \in SecretKeys, NEW d \in Preparations, PrecomputeSigning(k, d)
  PROVE  IInv'
  <1>1. CASE Refuses(k, d)
    BY <1>1, Refusing DEF Refuses
  <1>2. ASSUME IsDecompressed(ring), Accepts(Suite, d),
               NEW found \in Positions(ring.points, PublicKey(k)),
               NEW draw \in Draws(RingLen(ring)),
               ticket' = [alpha |-> draw.nonce, alpha_g |-> PMul(draw.nonce, G),
                     alpha_hp |-> PMul(draw.nonce, PointsOf(d)[found - 1]),
                     ring_hash |-> CanonicalHash(Suite, ring),
                     signer_index |-> found - 1, key_image |-> KeyImage(k),
                     responses |-> draw.responses, secret_key |-> k],
               origin' = [members |-> Members, trusted |-> TrustedAt(d, {found - 1})],
               last' = Nil, UNCHANGED <<ring, keys>>
        PROVE  IInv'
    <2> DEFINE n == RingLen(ring)
               s == ring.compressed
               pi == found - 1
               a == draw.nonce
               rs == draw.responses
               hp == PointsOf(d)
    <2>1. RingInv
      BY DEF IInv
    <2>2. /\ n \in 0 .. MaxRing /\ Members \in Vec(n, Point) /\ s \in Seq(Point)
          /\ Len(s) = n /\ Members = AsVec(s) /\ ring.points = s
      BY <1>2, <2>1, MembersAre
    <2>3. /\ hp \in Vec(n, Point)
          /\ \A indices \in SUBSET (0 .. n - 1) :
               TrustedAt(d, indices) => \A i \in indices : hp[i] = HashToPoint(Members[i])
      BY <1>2, <2>1, PreparedPoints
    <2>4. a \in Scalar /\ rs \in Vec(n, Scalar) /\ k \in Scalar /\ Suite \in Suites
      BY <2>2, SigningConstants
    <2>5. RingInv'
      BY <1>2, <2>1 DEF RingInv, Holds
    <2>6. found \in 1 .. n /\ s[found] = PublicKey(k)
      BY <2>2 DEF Positions
    <2> DEFINE t == [alpha |-> a, alpha_g |-> PMul(a, G), alpha_hp |-> PMul(a, hp[pi]),
                     ring_hash |-> [suite |-> Suite, members |-> s],
                     signer_index |-> pi, key_image |-> KeyImage(k),
                     responses |-> rs, secret_key |-> k]
    <2>7. ticket' = t
      BY <1>2 DEF CanonicalHash
    <2> HIDE DEF n, s, a, rs, hp
    <2>8. /\ n \in 1 .. MaxRing /\ pi \in 0 .. n - 1 /\ pi \in 0 .. MaxRing - 1
          /\ pi + 1 = found /\ MaxRing \in Nat
      BY <2>2, <2>6, RingConstants
    <2> HIDE DEF pi
    <2>9. Members[pi] = PublicKey(k)
      BY <2>2, <2>6, <2>8 DEF AsVec
    <2>10. t \in Tickets
      <3>1. PMul(a, G) \in Point /\ PMul(a, hp[pi]) \in Point
        BY <2>3, <2>4, <2>8, CurveTypes DEF Vec
      <3>2. KeyImage(k) \in Point
        BY <2>4, CurveTypes DEF KeyImage, PublicKey
      <3>3. s \in BoundedSeq(Point, MaxRing)
        <4>1. s \in [1 .. n -> Point] /\ n \in 0 .. MaxRing
          BY <2>2
        <4> QED BY <4>1 DEF BoundedSeq, SeqOf
      <3>4. rs \in UNION {Vec(i, Scalar) : i \in 1 .. MaxRing}
        BY <2>4, <2>8
      <3> QED BY <2>4, <2>8, <3>1, <3>2, <3>3, <3>4 DEF Tickets
    <2>11. origin' \in Origins
      <3>1. Members \in UNION {Vec(i, Point) : i \in 1 .. MaxRing}
        BY <2>2, <2>8
      <3>2. TrustedAt(d, {found - 1}) \in BOOLEAN
        BY DEF TrustedAt
      <3> QED BY <1>2, <3>1, <3>2 DEF Origins
    <2>12. TicketTyped'
      BY <2>7, <2>10, <2>11, NilIsNone DEF TicketTyped
    <2>13. TicketSigns'
      <3>1. TrustedAt(d, {pi}) => hp[pi] = HashToPoint(PublicKey(k))
        BY <2>3, <2>8, <2>9
      <3>2. /\ ticket'.signer_index = pi
            /\ ticket'.ring_hash.members = s
            /\ ticket'.secret_key = k
            /\ ticket'.key_image = KeyImage(k)
            /\ ticket'.alpha = a
            /\ ticket'.alpha_g = PMul(a, G)
            /\ ticket'.alpha_hp = PMul(a, hp[pi])
        BY <2>7
      <3>3. origin'.trusted = TrustedAt(d, {pi})
        BY <1>2 DEF pi
      <3>4. pi \in 0 .. Len(s) - 1 /\ s[pi + 1] = PublicKey(k)
        BY <2>2, <2>6, <2>8
      <3>5. ticket'.alpha_hp = PMul(ticket'.alpha, HashToPoint(PublicKey(k)))
              \/ ~TrustedAt(d, {pi})
        BY <3>1, <3>2
      <3> HIDE DEF t
      <3> QED BY <3>2, <3>3, <3>4, <3>5 DEF TicketSigns
    <2> QED BY <1>2, <2>5, <2>12, <2>13 DEF IInv, OneShotVerifies
  <1> QED BY <1>1, <1>2 DEF PrecomputeSigning

(* Signing at once.                                                        *)
LEMMA SignStep ==
  ASSUME IInv, NEW k \in SecretKeys, NEW d \in Preparations, NEW m \in Message,
         Sign(k, d, m)
  PROVE  IInv'
  <1>1. CASE Refuses(k, d)
    BY <1>1, Refusing DEF Refuses
  <1>2. ASSUME IsDecompressed(ring), Accepts(Suite, d),
               NEW found \in Positions(ring.points, PublicKey(k)),
               NEW draw \in Draws(RingLen(ring)),
               Output(SignWith(k, Members, RingLen(ring), found - 1, PointsOf(d), m,
                          draw.nonce, draw.responses),
                      m, Members, TrustedAt(d, Others(found - 1))),
               UNCHANGED <<ring, keys, ticket, origin>>
        PROVE  IInv'
    <2>1. RingInv /\ TicketTyped /\ TicketSigns
      BY DEF IInv
    <2>2. RingInv' /\ TicketTyped' /\ TicketSigns'
      BY <1>2, <2>1 DEF RingInv, Holds, TicketTyped, TicketSigns
    <2> DEFINE sig == SignWith(k, Members, RingLen(ring), found - 1, PointsOf(d), m,
                               draw.nonce, draw.responses)
               tr == TrustedAt(d, Others(found - 1))
    <2>3. tr => Verify(sig, Members, RingLen(ring), m)
      BY <1>2, <2>1, SignVerifies
    <2> HIDE DEF sig, tr
    <2>4. last' = [signature |-> sig, message |-> m, members |-> Members,
                   len |-> RingLen(ring), made_for |-> Members, trusted |-> tr]
      BY <1>2 DEF Output, sig, tr
    <2>5. OneShotVerifies'
      BY <2>3, <2>4 DEF OneShotVerifies
    <2> QED BY <2>2, <2>5 DEF IInv
  <1> QED BY <1>1, <1>2 DEF Sign

(* Signing with a precomputation.                                          *)
LEMMA TicketStep ==
  ASSUME IInv, NEW H \in Suites, NEW d \in Preparations, NEW m \in Message,
         SignPrecomputed(H, d, m)
  PROVE  IInv'
  <1>1. ticket # Nil /\ ticket' = Nil /\ origin' = Nil /\ UNCHANGED <<ring, keys>>
    BY DEF SignPrecomputed
  <1>2. RingInv' /\ TicketTyped' /\ TicketSigns'
    BY <1>1 DEF IInv, RingInv, Holds, TicketTyped, TicketSigns
  <1>3. CASE last' = Nil
    BY <1>2, <1>3 DEF IInv, OneShotVerifies
  <1>4. ASSUME IsDecompressed(ring), TicketRing(ticket, H), TicketLength(ticket, H),
               Accepts(H, d),
               Output(CloseRing(TicketChallenge(ticket, m), ticket.key_image,
                                  ticket.secret_key, Members, RingLen(ring),
                                  ticket.signer_index, PointsOf(d), m,
                                  ticket.alpha, ticket.responses),
                        m, origin.members,
                        origin.trusted /\ TrustedAt(d, Others(ticket.signer_index)))
        PROVE  IInv'
    <2> DEFINE sig == CloseRing(TicketChallenge(ticket, m), ticket.key_image,
                                  ticket.secret_key, Members, RingLen(ring),
                                  ticket.signer_index, PointsOf(d), m,
                                  ticket.alpha, ticket.responses)
               tr == origin.trusted /\ TrustedAt(d, Others(ticket.signer_index))
    <2>1. tr => Verify(sig, Members, RingLen(ring), m)
      BY <1>1, <1>4, TicketVerifies
    <2> HIDE DEF sig, tr
    <2>2. last' = [signature |-> sig, message |-> m, members |-> Members,
                   len |-> RingLen(ring), made_for |-> origin.members, trusted |-> tr]
      BY <1>4 DEF Output, sig, tr
    <2>3. OneShotVerifies'
      BY <2>1, <2>2 DEF OneShotVerifies
    <2> QED BY <1>2, <2>3 DEF IInv
  <1> QED BY <1>3, <1>4 DEF SignPrecomputed

(* Every step keeps the invariant.                                         *)
LEMMA IInvStep ==
  ASSUME IInv, [Next]_vars
  PROVE  IInv'
  <1>1. CASE ChangeRing
    <2>1. RingInv'
      BY <1>1, RingStep DEF ChangeRing, IInv
    <2>2. TicketTyped' /\ TicketSigns' /\ OneShotVerifies'
      BY <1>1 DEF ChangeRing, IInv, TicketTyped, TicketSigns, OneShotVerifies
    <2> QED BY <2>1, <2>2 DEF IInv
  <1>2. ASSUME NEW k \in SecretKeys, NEW d \in Preparations, PrecomputeSigning(k, d)
        PROVE  IInv'
    BY <1>2, PrecomputeStep
  <1>3. ASSUME NEW k \in SecretKeys, NEW d \in Preparations, NEW m \in Message,
               Sign(k, d, m)
        PROVE  IInv'
    BY <1>3, SignStep
  <1>4. ASSUME NEW H \in Suites, NEW d \in Preparations, NEW m \in Message,
               SignPrecomputed(H, d, m)
        PROVE  IInv'
    BY <1>4, TicketStep
  <1>5. CASE UNCHANGED vars
    BY <1>5 DEF vars, IInv, RingInv, Holds, TicketTyped, TicketSigns, OneShotVerifies
  <1> QED BY <1>1, <1>2, <1>3, <1>4, <1>5 DEF Next

(* IInv is inductive.                                                      *)
THEOREM SigningInvariance == Spec => []IInv
  <1>1. Init => IInv
    BY InitialIInv
  <1>2. IInv /\ [Next]_vars => IInv'
    BY IInvStep
  <1> QED BY <1>1, <1>2, PTL DEF Spec

(* Types are kept: in particular the two lists of a Full ring are as long  *)
(* as one another, and a ticket has a response for each member of a ring.  *)
THEOREM SigningTypes == Spec => []TypeOK
  <1>1. IInv => TypeOK
    <2> SUFFICES ASSUME IInv PROVE TypeOK
      OBVIOUS
    <2>1. /\ ring.compressed \in Seq(Compressed)
          /\ IsDecompressed(ring) =>
               ring.points = ring.compressed /\ ring.compressed \in Seq(Point)
          /\ ToBag(ring.compressed) = keys
      BY DEF IInv, RingInv, Holds
    <2>2. IsABag(keys)
      BY <2>1, BagOfList
    <2>3. TypeOKRing
      BY <2>1, <2>2 DEF TypeOKRing, RingLen
    <2> QED BY <2>3 DEF TypeOK, IInv, TicketTyped
  <1> QED BY <1>1, SigningInvariance, PTL

(* Through any history of operations a ring holds, in the order of their   *)
(* bytes, the members put in and not removed, each as often as it was put  *)
(* in (ring.rs:217-230, 504-517).                                          *)
THEOREM RingKept == Spec => []RingHoldsKeys
  <1>1. IInv => RingHoldsKeys
    <2> SUFFICES ASSUME IInv PROVE RingHoldsKeys
      OBVIOUS
    <2>1. /\ InOrder(ring.compressed)
          /\ ToBag(ring.compressed) = keys
          /\ IsDecompressed(ring) => ring.points = ring.compressed
      BY DEF IInv, RingInv, Holds
    <2>2. IsSorted(ring.compressed, Before)
      BY <2>1 DEF InOrder, IsSorted
    <2> QED BY <2>1, <2>2 DEF RingHoldsKeys
  <1> QED BY <1>1, SigningInvariance, PTL

(* A signature verifies over the ring it was made for, whatever was done   *)
(* to the ring between precomputing and signing and whatever prepared data *)
(* went in, unless a damaged point was read of data nobody checked         *)
(* (ring.rs:169-198, sign.rs:67-75, 160-166, 235-245, 280-298).            *)
THEOREM OneShotVerified == Spec => []OneShotVerifies
  <1>1. IInv => OneShotVerifies
    BY DEF IInv
  <1> QED BY <1>1, SigningInvariance, PTL
=============================================================================
