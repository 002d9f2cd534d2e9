-------------------------- MODULE ContextualProofs --------------------------
(***************************************************************************)
(* Proofs about Contextual, for rings of any length, any digest suites and *)
(* any history of storing and rebuilding.                                  *)
(***************************************************************************)
EXTENDS Contextual, RingDataProofs

(* The lists of members rings are made of.                                 *)
SortedLists(S) == {s \in Seq(S) : Len(s) <= MaxRing /\ InOrder(s)}

Encodings == Key \cup {Malformed}

(* The encodings in rings are ordered by their bytes.                      *)
LEMMA KeysOrdered ==
  /\ \A c \in Encodings : Bytes(c) \in Int
  /\ \A c \in Key : Bytes(c) \in Int
  /\ Key \subseteq Encodings
  BY CallerConstants DEF Encodings

(* The bounded sequences of the model are those of bounded length.         *)
LEMMA BoundedLists ==
  ASSUME NEW S
  PROVE  BoundedSeq(S, MaxRing) = {s \in Seq(S) : Len(s) <= MaxRing}
  <1>1. MaxRing \in Nat
    BY CallerConstants
  <1>2. ASSUME NEW s \in BoundedSeq(S, MaxRing) PROVE s \in Seq(S) /\ Len(s) <= MaxRing
    <2>1. PICK m \in 0 .. MaxRing : s \in [1 .. m -> S]
      BY DEF BoundedSeq, SeqOf
    <2>2. QED BY <1>1, <2>1
  <1>3. ASSUME NEW s \in Seq(S), Len(s) <= MaxRing PROVE s \in BoundedSeq(S, MaxRing)
    <2>1. Len(s) \in 0 .. MaxRing /\ s \in [1 .. Len(s) -> S]
      BY <1>1, <1>3
    <2>2. QED BY <2>1 DEF BoundedSeq, SeqOf
  <1>4. QED BY <1>2, <1>3

(* Sorting a list gives a sorted one, and every sorted list is the result. *)
LEMMA SortedAre ==
  ASSUME NEW S, \A c \in S : Bytes(c) \in Int
  PROVE  /\ \A s \in BoundedSeq(S, MaxRing) : SortByBytes(s) \in SortedLists(S)
         /\ \A s \in SortedLists(S) : s \in BoundedSeq(S, MaxRing) /\ SortByBytes(s) = s
  <1>1. ASSUME NEW s \in BoundedSeq(S, MaxRing) PROVE SortByBytes(s) \in SortedLists(S)
    <2>1. s \in Seq(S) /\ Len(s) <= MaxRing
      BY BoundedLists
    <2>2. /\ SortByBytes(s) \in Seq(S) /\ Len(SortByBytes(s)) = Len(s)
          /\ InOrder(SortByBytes(s))
      BY <2>1, SortSorts
    <2>3. QED BY <2>1, <2>2 DEF SortedLists
  <1>2. ASSUME NEW s \in SortedLists(S)
        PROVE  s \in BoundedSeq(S, MaxRing) /\ SortByBytes(s) = s
    <2>1. s \in Seq(S) /\ Len(s) <= MaxRing /\ InOrder(s)
      BY DEF SortedLists
    <2>2. SortByBytes(s) = s
      BY <2>1, SortedStays
    <2>3. QED BY <2>1, <2>2, BoundedLists
  <1>3. QED BY <1>1, <1>2

(* The rings of callers are of the sorted lists.                           *)
LEMMA RingsAre ==
  /\ FullRings = {FullRing(s) : s \in SortedLists(Key)}
  /\ CompressedRings = {CompressedRing(s) : s \in SortedLists(Encodings)}
  /\ SortedLists(Key) \subseteq SortedLists(Encodings)
  /\ SortedLists(Encodings) \subseteq Lists
  <1>1. /\ \A s \in BoundedSeq(Key, MaxRing) : SortByBytes(s) \in SortedLists(Key)
        /\ \A s \in SortedLists(Key) : s \in BoundedSeq(Key, MaxRing) /\ SortByBytes(s) = s
    BY KeysOrdered, SortedAre
  <1>2. /\ \A s \in BoundedSeq(Encodings, MaxRing) : SortByBytes(s) \in SortedLists(Encodings)
        /\ \A s \in SortedLists(Encodings) :
             s \in BoundedSeq(Encodings, MaxRing) /\ SortByBytes(s) = s
    BY KeysOrdered, SortedAre
  <1>3. Lists = BoundedSeq(Encodings, MaxRing)
    BY DEF Lists, Encodings
  <1>4. FullRings = {FullRing(s) : s \in SortedLists(Key)}
    BY <1>1 DEF FullRings
  <1>5. CompressedRings = {CompressedRing(s) : s \in SortedLists(Encodings)}
    BY <1>2, <1>3 DEF CompressedRings
  <1>6. SortedLists(Key) \subseteq SortedLists(Encodings)
    BY KeysOrdered DEF SortedLists
  <1>7. QED BY <1>2, <1>3, <1>4, <1>5, <1>6

(* A ring a caller has, in one of the representations.                     *)
LEMMA CallerRingIs ==
  ASSUME NEW r \in CallerRings
  PROVE  /\ r.compressed \in SortedLists(Encodings)
         /\ \/ r.compressed \in SortedLists(Key) /\ r = FullRing(r.compressed)
            \/ r = CompressedRing(r.compressed)
         /\ IsDecompressed(r) <=> r \in FullRings
         /\ r \in FullRings => r.compressed \in SortedLists(Key) /\ r = FullRing(r.compressed)
         /\ r # Nil
  <1>1. ASSUME r \in FullRings
        PROVE  /\ r.compressed \in SortedLists(Key) /\ r = FullRing(r.compressed)
               /\ r.points = r.compressed
    <2>1. PICK s \in SortedLists(Key) : r = FullRing(s)
      BY <1>1, RingsAre
    <2>2. QED BY <2>1 DEF FullRing
  <1>2. ASSUME r \in CompressedRings
        PROVE  /\ r.compressed \in SortedLists(Encodings) /\ r = CompressedRing(r.compressed)
               /\ r.points = Nil
    <2>1. PICK s \in SortedLists(Encodings) : r = CompressedRing(s)
      BY <1>2, RingsAre
    <2>2. QED BY <2>1 DEF CompressedRing
  <1>3. r.compressed \in SortedLists(Encodings) /\ r.compressed \in Lists
    BY <1>1, <1>2, RingsAre DEF CallerRings
  <1>4. r.compressed # Nil
    BY <1>3, NilIsNone
  <1>5. r \in [compressed : Lists, points : Lists \cup {Nil}]
    <2>1. CASE r \in FullRings
      BY <1>1, <1>3, <2>1 DEF FullRing
    <2>2. CASE r \in CompressedRings
      BY <1>2, <1>3, <2>2 DEF CompressedRing
    <2>3. QED BY <2>1, <2>2 DEF CallerRings
  <1>6. r # Nil
    BY <1>5, NilIsNone
  <1>7. IsDecompressed(r) <=> r \in FullRings
    BY <1>1, <1>2, <1>4 DEF IsDecompressed, CallerRings
  <1>8. QED BY <1>1, <1>2, <1>3, <1>6, <1>7 DEF CallerRings

(* What decompressing a caller's ring gives.                               *)
LEMMA DecompressedIs ==
  ASSUME NEW r \in CallerRings
  PROVE  /\ IsDecompressed(Decompressed(r)) <=> FullRing(r.compressed) \in FullRings
         /\ IsDecompressed(Decompressed(r)) => Decompressed(r) = FullRing(r.compressed)
  <1> DEFINE s == r.compressed
  <1>1. /\ s \in SortedLists(Encodings)
        /\ IsDecompressed(r) <=> r \in FullRings
        /\ r \in FullRings => s \in SortedLists(Key) /\ r = FullRing(s)
    BY CallerRingIs
  <1>2. s \in Seq(Encodings) /\ Len(s) <= MaxRing /\ InOrder(s) /\ s # Nil
    <2>1. s \in Lists
      BY <1>1, RingsAre
    <2>2. QED BY <1>1, <2>1, NilIsNone DEF SortedLists
  <1>3. IsDecompressed(FullRing(s))
    BY <1>2 DEF IsDecompressed, FullRing
  <1>4. FullRing(s) \in FullRings <=> s \in SortedLists(Key)
    <2>1. ASSUME FullRing(s) \in FullRings PROVE s \in SortedLists(Key)
      <3>1. PICK t \in SortedLists(Key) : FullRing(s) = FullRing(t)
        BY <2>1, RingsAre
      <3>2. s = t
        BY <3>1 DEF FullRing
      <3>3. QED BY <3>1, <3>2
    <2>2. QED BY <2>1, RingsAre
  <1>5. AllDecompress(r) <=> s \in SortedLists(Key)
    <2>1. AllDecompress(r) <=> \A i \in 1 .. Len(s) : s[i] \in Point
      BY DEF AllDecompress, RingLen
    <2>2. ASSUME \A i \in 1 .. Len(s) : s[i] \in Point PROVE s \in SortedLists(Key)
      <3>1. \A i \in 1 .. Len(s) : s[i] \in Key
        BY <1>2, <2>2, CallerConstants DEF Encodings
      <3>2. s \in Seq(Key)
        BY <1>2, <3>1
      <3>3. QED BY <1>2, <3>2 DEF SortedLists
    <2>3. ASSUME s \in SortedLists(Key) PROVE \A i \in 1 .. Len(s) : s[i] \in Point
      BY <2>3, CallerConstants DEF SortedLists
    <2>4. QED BY <2>1, <2>2, <2>3
  <1>6. CASE AllDecompress(r)
    BY <1>3, <1>4, <1>5, <1>6 DEF Decompressed
  <1>7. CASE ~AllDecompress(r)
    <2>1. Decompressed(r) = r
      BY <1>7 DEF Decompressed
    <2>2. ~IsDecompressed(r)
      BY <1>1, <1>5, <1>7
    <2>3. QED BY <1>4, <1>5, <1>7, <2>1, <2>2
  <1>8. QED BY <1>6, <1>7


-----------------------------------------------------------------------------
(* What BLSAG::verify decides of a signature over a list of members, the   *)
(* guards of the call included.                                            *)
AcceptedOver(members, H, signature, prepared, m) ==
  /\ members \in SortedLists(Key)
  /\ prepared # Nil =>
       /\ prepared.ring_hash = [suite |-> H, members |-> members]
       /\ Len(prepared.hashed_points) = Len(members)
  /\ DOMAIN signature.responses = 0 .. Len(members) - 1
  /\ Under(H)!VerifyWith(signature, AsVec(members), Len(members),
                         PointsOf(H, members, prepared), m)

(* Verification of a bare signature over a caller's ring, decompressed on  *)
(* the way.                                                                *)
LEMMA VerifyBlsagIs ==
  ASSUME NEW H, NEW signature, NEW m, NEW prepared, NEW r \in CallerRings
  PROVE  VerifyBlsag(H, signature, Decompressed(r), prepared, m)
           <=> AcceptedOver(r.compressed, H, signature, prepared, m)
  <1> DEFINE s == r.compressed
  <1>1. FullRing(s) \in FullRings <=> s \in SortedLists(Key)
    <2>1. ASSUME FullRing(s) \in FullRings PROVE s \in SortedLists(Key)
      <3>1. PICK t \in SortedLists(Key) : FullRing(s) = FullRing(t)
        BY <2>1, RingsAre
      <3>2. s = t
        BY <3>1 DEF FullRing
      <3>3. QED BY <3>1, <3>2
    <2>2. QED BY <2>1, RingsAre
  <1>2. CASE ~IsDecompressed(Decompressed(r))
    BY <1>1, <1>2, DecompressedIs DEF VerifyBlsag, AcceptedOver
  <1>3. CASE IsDecompressed(Decompressed(r))
    <2>1. Decompressed(r) = FullRing(s) /\ s \in SortedLists(Key)
      BY <1>1, <1>3, DecompressedIs
    <2>2. /\ FullRing(s).points = s
          /\ FullRing(s).compressed = s
          /\ RingLen(FullRing(s)) = Len(s)
      BY DEF FullRing, RingLen
    <2>3. CanonicalHash(H, FullRing(s)) = [suite |-> H, members |-> s]
      BY <2>2 DEF CanonicalHash
    <2>4. QED BY <1>3, <2>1, <2>2, <2>3 DEF VerifyBlsag, AcceptedOver
  <1>4. QED BY <1>2, <1>3

(* A context: the hash of a sorted list, or a caller's ring.               *)
LEMMA ContextIs ==
  ASSUME NEW context \in Contexts
  PROVE  \/ context.type = "Compact" /\ context.data \in Hashes
         \/ context.type = "Archival" /\ context.data \in CallerRings
  BY DEF Contexts, Compact, Archival

(* What is known of a signature and of what the verifier brings, when it   *)
(* is of one list of members.                                              *)
KnownOf(members, c, H, external) ==
  \/ /\ c.context.type = "Compact"
     /\ external # Nil
     /\ external.compressed = members
     /\ c.context.data = [suite |-> Default, members |-> members]
     /\ c.selected # Nil => c.selected = [suite |-> H, members |-> members]
  \/ /\ c.context.type = "Archival"
     /\ c.context.data.compressed = members
     /\ external # Nil => external.compressed = members

(* What verify decides: some list of members fits all of it, and the       *)
(* signature is accepted over that list.                                   *)
LEMMA VerifyContextualIs ==
  ASSUME NEW c, c.context \in Contexts, NEW H, NEW m, NEW prepared,
         NEW external \in CallerRings \cup {Nil}
  PROVE  VerifyContextual(c, H, external, prepared, m)
           <=> \E members \in SortedLists(Key) :
                 /\ KnownOf(members, c, H, external)
                 /\ AcceptedOver(members, H, c.signature, prepared, m)
  <1>1. CASE c.context.type = "Compact"
    <2>1. VerifyContextual(c, H, external, prepared, m)
            <=> /\ external # Nil
                /\ c.context.data = CanonicalHash(Default, external)
                /\ c.selected # Nil => c.selected = CanonicalHash(H, external)
                /\ VerifyBlsag(H, c.signature, Decompressed(external), prepared, m)
      BY <1>1 DEF VerifyContextual, SelectedMatches
    <2>2. external # Nil =>
            (VerifyBlsag(H, c.signature, Decompressed(external), prepared, m)
               <=> AcceptedOver(external.compressed, H, c.signature, prepared, m))
      BY VerifyBlsagIs
    <2>3. \A members : KnownOf(members, c, H, external)
            <=> /\ external # Nil
                /\ external.compressed = members
                /\ c.context.data = CanonicalHash(Default, external)
                /\ c.selected # Nil => c.selected = CanonicalHash(H, external)
      BY <1>1 DEF KnownOf, CanonicalHash
    <2>4. \A members : AcceptedOver(members, H, c.signature, prepared, m)
            => members \in SortedLists(Key)
      BY DEF AcceptedOver
    <2>5. QED BY <2>1, <2>2, <2>3, <2>4
  <1>2. CASE c.context.type = "Archival"
    <2>1. c.context.data \in CallerRings
      BY <1>2, ContextIs
    <2>2. VerifyContextual(c, H, external, prepared, m)
            <=> /\ external # Nil => CanonicalHash(H, c.context.data) = CanonicalHash(H, external)
                /\ VerifyBlsag(H, c.signature, Decompressed(c.context.data), prepared, m)
      BY <1>2 DEF VerifyContextual
    <2>3. VerifyBlsag(H, c.signature, Decompressed(c.context.data), prepared, m)
            <=> AcceptedOver(c.context.data.compressed, H, c.signature, prepared, m)
      BY <2>1, VerifyBlsagIs
    <2>4. CanonicalHash(H, c.context.data) = CanonicalHash(H, external)
            <=> external.compressed = c.context.data.compressed
      BY DEF CanonicalHash
    <2>5. \A members : KnownOf(members, c, H, external)
            <=> /\ c.context.data.compressed = members
                /\ external # Nil => external.compressed = members
      BY <1>2 DEF KnownOf
    <2>6. \A members : AcceptedOver(members, H, c.signature, prepared, m)
            => members \in SortedLists(Key)
      BY DEF AcceptedOver
    <2>7. QED BY <2>2, <2>3, <2>4, <2>5, <2>6
  <1>3. QED BY <1>1, <1>2, ContextIs

-----------------------------------------------------------------------------
(* The round trip of a signature is taken from BlsagProofs, for one suite  *)
(* at a time: Suite is any of them, and the scheme under it an instance.   *)
CONSTANT Suite

SuiteHashToPoint(P) == HashToPoint(Suite, P)
SuiteChallenge(m, L, R) == Challenge(Suite, m, L, R)

B == INSTANCE BlsagProofs WITH HashToPoint <- SuiteHashToPoint, Challenge <- SuiteChallenge

(* The scheme under the suite is over the curve.                           *)
LEMMA SuiteAssumptions ==
  ASSUME Suite \in Suites
  PROVE  B!CurveTypes /\ B!Distributivity /\ B!Associativity
  BY SuitesOverOneCurve
     DEF B!CurveTypes, B!Distributivity, B!Associativity, SuiteHashToPoint,
         Under!CurveTypes, Under!Distributivity, Under!Associativity, Under!HashToPointUnder

(* The scheme Contextual uses under the suite is that of the instance.     *)
LEMMA SuiteScheme ==
  /\ \A k : Under(Suite)!PublicKey(k) = B!PublicKey(k)
  /\ \A sig_, ring, n, m : Under(Suite)!Verify(sig_, ring, n, m) = B!Verify(sig_, ring, n, m)
  /\ \A k, ring, n, pi, m, a, rs :
       Under(Suite)!SignWith(k, ring, n, pi, Under(Suite)!HashedPoints(ring, n), m, a, rs)
         = B!SignWith(k, ring, n, pi, B!HashedPoints(ring, n), m, a, rs)
  <1>1. \A k : Under(Suite)!PublicKey(k) = B!PublicKey(k)
    BY DEF Under!PublicKey, B!PublicKey
  <1>2. \A sig_, ring, n, m : Under(Suite)!Verify(sig_, ring, n, m) = B!Verify(sig_, ring, n, m)
    BY DEF Under!Verify, B!Verify, Under!VerifyWith, B!VerifyWith, Under!HashedPoints,
           B!HashedPoints, Under!NextChallenge, B!NextChallenge, Under!HashToPointUnder,
           Under!ChallengeUnder, SuiteHashToPoint, SuiteChallenge
  <1>3. \A k, ring, n, pi, m, a, rs :
       Under(Suite)!SignWith(k, ring, n, pi, Under(Suite)!HashedPoints(ring, n), m, a, rs)
         = B!SignWith(k, ring, n, pi, B!HashedPoints(ring, n), m, a, rs)
    BY DEF Under!SignWith, B!SignWith, Under!CloseRing, B!CloseRing, Under!HashedPoints,
           B!HashedPoints, Under!NextChallenge, B!NextChallenge, Under!HashToPointUnder,
           Under!NonceChallenge, B!NonceChallenge, Under!ClosingResponse, B!ClosingResponse,
           Under!KeyImage, B!KeyImage, Under!PublicKey, B!PublicKey,
           Under!ChallengeUnder, SuiteHashToPoint, SuiteChallenge
  <1>4. QED BY <1>1, <1>2, <1>3

(* Closing a ring replaces one response.                                   *)
LEMMA ResponsesStay ==
  ASSUME NEW c1, NEW I, NEW k, NEW ring, NEW n, NEW pi, NEW hp, NEW m, NEW a, NEW rs
  PROVE  DOMAIN B!CloseRing(c1, I, k, ring, n, pi, hp, m, a, rs).responses = DOMAIN rs
  <1>1. \A c0, r : DOMAIN [challenge |-> c0, responses |-> [rs EXCEPT ![pi] = r],
                           key_image |-> I].responses = DOMAIN rs
    OBVIOUS
  <1>2. QED BY <1>1, Zenon DEF B!CloseRing

(* What a member signs under the suite is accepted under it, over the ring *)
(* it was made with (sign.rs:40-193, verify.rs:101-164).                   *)
LEMMA SignedIsAccepted ==
  ASSUME Suite \in Suites,
         NEW k \in SecretKeys, NEW ring \in FullRings, NEW m \in Message,
         NEW found \in Positions(ring.points, Under(Suite)!PublicKey(k)),
         NEW draw \in Draws(RingLen(ring))
  PROVE  AcceptedOver(ring.points, Suite, SignatureOf(Suite, k, ring, found, m, draw),
                      Nil, m)
  <1> DEFINE s == ring.points
             n == Len(s)
             vec == AsVec(s)
             sg == SignatureOf(Suite, k, ring, found, m, draw)
  <1>1. /\ s \in SortedLists(Key) /\ RingLen(ring) = n
        /\ s \in Seq(Key) /\ n \in Nat /\ n <= MaxRing
    <2>1. ring \in CallerRings
      BY DEF CallerRings
    <2>2. ring.compressed \in SortedLists(Key) /\ ring = FullRing(ring.compressed)
      BY <2>1, CallerRingIs
    <2>3. s = ring.compressed
      BY <2>2 DEF FullRing
    <2>4. QED BY <2>2, <2>3 DEF SortedLists, RingLen
  <1>2. /\ found \in 1 .. n /\ s[found] = B!PublicKey(k)
        /\ n \in Nat \ {0} /\ found - 1 \in 0 .. n - 1
    BY <1>1, SuiteScheme DEF Positions
  <1>3. draw.nonce \in Scalar /\ draw.responses \in B!Vec(n, Scalar)
    <2>1. n \in 0 .. MaxRing
      BY <1>1, CallerConstants
    <2>2. draw \in [nonce : Scalar, responses : [0 .. n - 1 -> Scalar]]
      BY <1>1, <2>1, CallerConstants
    <2>3. QED BY <2>2 DEF B!Vec
  <1>4. vec \in B!Vec(n, Point) /\ vec[found - 1] = B!PublicKey(k)
    <2>1. \A i \in 1 .. n : s[i] \in Point
      BY <1>1, CallerConstants
    <2>2. QED BY <1>1, <1>2, <2>1 DEF B!Vec, AsVec
  <1>5. \A L, R \in Point : SuiteChallenge(m, L, R) \in Scalar
    BY SuitesOverOneCurve DEF SuiteChallenge
  <1>6. k \in Scalar
    BY CallerConstants
  <1>7. sg = B!SignWith(k, vec, n, found - 1, B!HashedPoints(vec, n), m,
                        draw.nonce, draw.responses)
    BY <1>1, SuiteScheme DEF SignatureOf
  <1>8. B!Verify(sg, vec, n, m)
    <2> HIDE DEF vec, n, sg
    <2>1. B!Verify(B!SignWith(k, vec, n, found - 1, B!HashedPoints(vec, n), m,
                              draw.nonce, draw.responses), vec, n, m)
      BY <1>2, <1>3, <1>4, <1>5, <1>6, SuiteAssumptions, B!OneShotRoundTrip
    <2>2. QED BY <1>7, <2>1
  <1>9. DOMAIN sg.responses = 0 .. n - 1
    <2>1. DOMAIN sg.responses = DOMAIN draw.responses
      BY <1>7, ResponsesStay DEF B!SignWith
    <2>2. QED BY <1>3, <2>1 DEF B!Vec
  <1>10. Under(Suite)!VerifyWith(sg, vec, n, PointsOf(Suite, s, Nil), m)
    <2> HIDE DEF sg
    <2>1. Under(Suite)!Verify(sg, vec, n, m)
      BY <1>8, SuiteScheme
    <2>2. QED BY <2>1 DEF Under!Verify, PointsOf
  <1>11. QED BY <1>1, <1>9, <1>10 DEF AcceptedOver

-----------------------------------------------------------------------------
(* Where the parts of a signature come from that is still its signer's:    *)
(* the hashes and the ring of its context are of the members it was made   *)
(* over, and the selected hash is lost only with data that lacks it.       *)
Provenance ==
  kept =>
    /\ made.suite \in Suites
    /\ made.members \in SortedLists(Key)
    /\ made.message \in Message
    /\ sig.context \in Contexts
    /\ \/ /\ sig.context = Compact([suite |-> Default, members |-> made.members])
          /\ sig.selected \in {Nil, [suite |-> made.suite, members |-> made.members]}
          /\ complete /\ made.suite # Default => sig.selected # Nil
       \/ /\ sig.context.type = "Archival"
          /\ sig.context.data.compressed = made.members
          /\ sig.selected = Nil

(* A signature of the chosen suite is accepted over its ring.              *)
SuiteSigned ==
  kept /\ made.suite = Suite =>
    AcceptedOver(made.members, Suite, sig.signature, Nil, made.message)

IInv == TypeOK /\ Provenance /\ SuiteSigned

(* The hashes of callers' rings.                                           *)
LEMMA HashIs ==
  /\ \A H \in Suites, s \in SortedLists(Encodings) :
       [suite |-> H, members |-> s] \in Hashes
  /\ \A hash \in Hashes : hash # Nil
  /\ \A H \in Suites, r \in CallerRings : CanonicalHash(H, r) \in Hashes
  <1>1. ASSUME NEW H \in Suites, NEW s \in SortedLists(Encodings)
        PROVE  [suite |-> H, members |-> s] \in Hashes
    <2>1. CompressedRing(s) \in CompressedRings
      BY RingsAre
    <2>2. CanonicalHash(H, CompressedRing(s)) = [suite |-> H, members |-> s]
      BY DEF CanonicalHash, CompressedRing
    <2>3. QED BY <2>1, <2>2 DEF Hashes
  <1>2. ASSUME NEW hash \in Hashes PROVE hash # Nil
    <2>1. PICK H \in Suites, r \in CompressedRings : hash = CanonicalHash(H, r)
      BY DEF Hashes
    <2>2. r.compressed \in Lists
      BY CallerRingIs, RingsAre DEF CallerRings
    <2>3. hash \in [suite : Suites, members : Lists]
      BY <2>1, <2>2 DEF CanonicalHash
    <2>4. QED BY <2>3, NilIsNone
  <1>3. ASSUME NEW H \in Suites, NEW r \in CallerRings PROVE CanonicalHash(H, r) \in Hashes
    <2>1. r.compressed \in SortedLists(Encodings)
      BY CallerRingIs
    <2>2. QED BY <1>1, <2>1 DEF CanonicalHash
  <1>4. QED BY <1>1, <1>2, <1>3

(* Signing.                                                                *)
LEMMA SignKeeps ==
  ASSUME IInv, NEW H \in Suites, NEW k \in SecretKeys, NEW ring \in CallerRings,
         NEW m \in Message, Sign(H, k, ring, m)
  PROVE  IInv'
  <1>1. CASE UNCHANGED <<sig, made, kept, complete>>
    BY <1>1 DEF IInv, TypeOK, Provenance, SuiteSigned, AcceptedOver
  <1>2. CASE IsDecompressed(ring) /\ result' = "Ok"
    <2>1. PICK found \in Positions(ring.points, Under(H)!PublicKey(k)),
               draw \in Draws(RingLen(ring)) :
            \/ sig' = CompactSignature(SignatureOf(H, k, ring, found, m, draw), H, ring)
            \/ sig' = ArchivalSignature(SignatureOf(H, k, ring, found, m, draw), ring)
      BY <1>2 DEF Sign
    <2> DEFINE signature == SignatureOf(H, k, ring, found, m, draw)
    <2>2. made' = [suite |-> H, members |-> ring.points, message |-> m]
      BY <1>2 DEF Sign
    <2>3. /\ ring \in FullRings
          /\ ring.points \in SortedLists(Key)
          /\ ring.points \in SortedLists(Encodings)
          /\ ring.compressed = ring.points
      <3>1. ring \in FullRings
        BY <1>2, CallerRingIs
      <3>2. ring.compressed \in SortedLists(Key) /\ ring = FullRing(ring.compressed)
        BY <3>1, CallerRingIs
      <3>3. ring.compressed = ring.points
        BY <3>2 DEF FullRing
      <3>4. QED BY <3>1, <3>2, <3>3, RingsAre
    <2>4. sig'.signature = signature
      BY <2>1 DEF CompactSignature, ArchivalSignature
    <2>5. SuiteSigned'
      <3>1. ASSUME H = Suite
            PROVE  AcceptedOver(ring.points, Suite, signature, Nil, m)
        BY <2>3, <3>1, SignedIsAccepted
      <3>2. made'.suite = H /\ made'.members = ring.points /\ made'.message = m
        BY <2>2
      <3>3. QED BY <2>4, <3>1, <3>2 DEF SuiteSigned, AcceptedOver
    <2> HIDE DEF signature
    <2>6. /\ CanonicalHash(H, ring) = [suite |-> H, members |-> ring.points]
          /\ CanonicalHash(Default, ring) = [suite |-> Default, members |-> ring.points]
          /\ CanonicalHash(H, ring) \in Hashes
          /\ CanonicalHash(Default, ring) \in Hashes
          /\ CanonicalHash(H, ring) # Nil
      BY <2>3, HashIs, DefaultSuite DEF CanonicalHash
    <2>7. CASE sig' = CompactSignature(signature, H, ring)
      <3>1. /\ sig'.context = Compact(CanonicalHash(Default, ring))
            /\ sig'.selected = IF CanonicalHash(H, ring) # CanonicalHash(Default, ring)
                               THEN CanonicalHash(H, ring) ELSE Nil
        BY <2>7 DEF CompactSignature, LookupHash
      <3>2. sig'.context \in Contexts /\ sig'.context.type = "Compact"
            /\ sig'.context.data = CanonicalHash(Default, ring)
        BY <2>6, <3>1 DEF Contexts, Compact
      <3>3. TypeOK'
        BY <2>6, <3>1, <3>2 DEF TypeOK
      <3>4. Provenance'
        <4>1. H # Default => CanonicalHash(H, ring) # CanonicalHash(Default, ring)
          BY <2>6
        <4>2. QED BY <2>2, <2>3, <2>6, <3>1, <3>2, <4>1 DEF Provenance
      <3>5. QED BY <2>5, <3>3, <3>4 DEF IInv
    <2>8. CASE sig' = ArchivalSignature(signature, ring)
      <3>1. /\ sig'.context = Archival(ring)
            /\ sig'.selected = Nil
        BY <2>8 DEF ArchivalSignature
      <3>2. sig'.context \in Contexts /\ sig'.context.type = "Archival"
            /\ sig'.context.data = ring
        BY <3>1 DEF Contexts, Archival
      <3>3. TypeOK'
        BY <3>1, <3>2 DEF TypeOK
      <3>4. Provenance'
        BY <2>2, <2>3, <3>1, <3>2 DEF Provenance
      <3>5. QED BY <2>5, <3>3, <3>4 DEF IInv
    <2>9. QED BY <2>1, <2>7, <2>8 DEF signature
  <1>3. QED BY <1>1, <1>2 DEF Sign

(* Random values in the place of a signature.                              *)
LEMMA FakeKeeps ==
  ASSUME IInv, NEW ring \in CallerRings, Fake(ring)
  PROVE  IInv'
  <1>1. ~kept'
    BY DEF Fake
  <1>2. \E signature :
          \/ sig' = FromParts(signature, Compact(CanonicalHash(Default, ring)), Nil)
          \/ sig' = ArchivalSignature(signature, ring)
    BY DEF Fake
  <1>3. CanonicalHash(Default, ring) \in Hashes
    BY HashIs, DefaultSuite
  <1>4. sig'.context \in Contexts /\ sig'.selected = Nil
    BY <1>2, <1>3 DEF FromParts, ArchivalSignature, NormalizedSelected, Contexts
  <1>5. QED BY <1>1, <1>4 DEF IInv, TypeOK, Provenance, SuiteSigned

(* Taking a signature apart and building another.                          *)
LEMMA RebuildKeeps ==
  ASSUME IInv, NEW context \in Contexts, NEW hash \in Hashes \cup {Nil},
         Rebuild(context, hash)
  PROVE  IInv'
  <1>1. ~kept' /\ sig' = FromParts(sig.signature, context, hash)
    BY DEF Rebuild
  <1>2. sig'.context = context /\ sig'.selected = NormalizedSelected(context, hash)
    BY <1>1 DEF FromParts
  <1>3. QED BY <1>1, <1>2 DEF IInv, TypeOK, Provenance, SuiteSigned, NormalizedSelected

(* Storing a signature and loading it.                                     *)
LEMMA LoadKeeps ==
  ASSUME IInv, NEW has_selected \in BOOLEAN, Load(has_selected)
  PROVE  IInv'
  <1> DEFINE hash == IF has_selected THEN sig.selected ELSE Nil
  <1>1. /\ sig # Nil
        /\ sig' = FromParts(sig.signature, Stored(sig.context), hash)
        /\ complete' = (complete /\ has_selected)
        /\ made' = made /\ kept' = kept
    BY DEF Load
  <1>2. /\ sig'.signature = sig.signature
        /\ sig'.context = Stored(sig.context)
        /\ sig'.selected = NormalizedSelected(Stored(sig.context), hash)
    BY <1>1 DEF FromParts
  <1>3. /\ sig.context \in Contexts
        /\ sig.selected \in Hashes \cup {Nil}
        /\ sig.selected # Nil => sig.context.type = "Compact" /\ sig.selected # sig.context.data
    BY <1>1 DEF IInv, TypeOK
  <1>4. hash \in Hashes \cup {Nil}
    BY <1>3
  <1>5. SuiteSigned'
    BY <1>1, <1>2 DEF IInv, SuiteSigned, AcceptedOver
  <1>6. CASE sig.context.type = "Compact"
    <2>1. Stored(sig.context) = sig.context
      BY <1>6 DEF Stored
    <2>2. sig'.context = sig.context /\ sig'.selected = hash
      BY <1>2, <1>3, <1>6, <2>1 DEF NormalizedSelected
    <2>3. TypeOK'
      BY <1>3, <1>4, <2>2 DEF TypeOK
    <2>4. Provenance'
      BY <1>1, <1>3, <1>6, <2>2 DEF IInv, Provenance
    <2>5. QED BY <1>5, <2>3, <2>4 DEF IInv
  <1>7. CASE sig.context.type = "Archival"
    <2> DEFINE s == sig.context.data.compressed
    <2>1. s \in SortedLists(Encodings)
      BY <1>3, <1>7, ContextIs, CallerRingIs
    <2>2. SortByBytes(s) = s
      BY <2>1, KeysOrdered, SortedAre
    <2>3. Stored(sig.context) = Archival(CompressedRing(s))
      BY <1>7, <2>2 DEF Stored
    <2>4. /\ CompressedRing(s) \in CallerRings
          /\ CompressedRing(s).compressed = s
      BY <2>1, RingsAre DEF CallerRings, CompressedRing
    <2>5. /\ sig'.context \in Contexts
          /\ sig'.context.type = "Archival"
          /\ sig'.context.data = CompressedRing(s)
          /\ sig'.selected = Nil
      BY <1>2, <2>3, <2>4 DEF NormalizedSelected, Archival, Contexts
    <2>6. TypeOK'
      BY <2>5 DEF TypeOK
    <2>7. Provenance'
      BY <1>1, <1>7, <2>4, <2>5 DEF IInv, Provenance, Compact
    <2>8. QED BY <1>5, <2>6, <2>7 DEF IInv
  <1>8. QED BY <1>3, <1>6, <1>7, ContextIs

(* The inductive invariant, over any history of signing, faking, storing   *)
(* and rebuilding (contextual.rs:91-353).                                  *)
THEOREM HistoryInvariance == Spec => []IInv
  <1>1. Init => IInv
    BY DEF Init, IInv, TypeOK, Provenance, SuiteSigned
  <1>2. IInv /\ [Next]_vars => IInv'
    <2> SUFFICES ASSUME IInv, [Next]_vars PROVE IInv'
      OBVIOUS
    <2>1. CASE \E H \in Suites, k \in SecretKeys, ring \in CallerRings, m \in Message :
                 Sign(H, k, ring, m)
      BY <2>1, SignKeeps
    <2>2. CASE \E ring \in CallerRings : Fake(ring)
      BY <2>2, FakeKeeps
    <2>3. CASE \E has_selected \in BOOLEAN : Load(has_selected)
      BY <2>3, LoadKeeps
    <2>4. CASE \E context \in Contexts, hash \in SelectedHashes \cup {Nil} :
                 Rebuild(context, hash)
      <3>1. SelectedHashes \subseteq Hashes
        BY HashIs DEF SelectedHashes, CallerRings
      <3>2. QED BY <2>4, <3>1, RebuildKeeps
    <2>5. CASE UNCHANGED vars
      BY <2>5 DEF vars, IInv, TypeOK, Provenance, SuiteSigned, AcceptedOver
    <2>6. QED BY <2>1, <2>2, <2>3, <2>4, <2>5 DEF Next
  <1>3. QED BY <1>1, <1>2, PTL DEF Spec

(* What precompute gives stands for the points computed in place.          *)
LEMMA PreparedIs ==
  ASSUME NEW H, NEW s \in SortedLists(Key), NEW prepared \in {Nil, Prepare(H, FullRing(s))}
  PROVE  /\ PointsOf(H, s, prepared) = Under(H)!HashedPoints(AsVec(s), Len(s))
         /\ prepared # Nil =>
              /\ prepared.ring_hash = [suite |-> H, members |-> s]
              /\ Len(prepared.hashed_points) = Len(s)
  <1> DEFINE hs == [i \in 1 .. Len(s) |-> HashToPoint(H, s[i])]
  <1>1. Len(s) \in Nat
    BY DEF SortedLists
  <1>2. FullRing(s).points = s /\ FullRing(s).compressed = s
    BY DEF FullRing
  <1>3. /\ Prepare(H, FullRing(s)).ring_hash = [suite |-> H, members |-> s]
        /\ Prepare(H, FullRing(s)).hashed_points = hs
    BY <1>2 DEF Prepare, CanonicalHash
  <1>4. Len(hs) = Len(s)
    BY <1>1
  <1>5. AsVec(hs) = Under(H)!HashedPoints(AsVec(s), Len(s))
    <2>1. \A j \in 0 .. Len(s) - 1 : hs[j + 1] = HashToPoint(H, s[j + 1])
      BY <1>1
    <2>2. AsVec(hs) = [j \in 0 .. Len(s) - 1 |-> hs[j + 1]]
      BY <1>4 DEF AsVec
    <2>3. Under(H)!HashedPoints(AsVec(s), Len(s))
            = [j \in 0 .. Len(s) - 1 |-> HashToPoint(H, s[j + 1])]
      BY DEF Under!HashedPoints, Under!HashToPointUnder, AsVec
    <2> HIDE DEF hs
    <2>4. QED BY <2>1, <2>2, <2>3
  <1> HIDE DEF hs
  <1>6. QED BY <1>3, <1>4, <1>5 DEF PointsOf

(* The context of a signature is well formed, and a selected hash is kept  *)
(* only beside a different lookup hash (contextual.rs:92-103).             *)
THEOREM ContextTypes == Spec => []TypeOK
  <1>1. IInv => TypeOK
    BY DEF IInv
  <1>2. QED BY <1>1, HistoryInvariance, PTL

(* A verification says yes exactly when one ring fits everything known of  *)
(* it and the signature verifies over it, whatever the suite, the ring and *)
(* the prepared data the verifier brings, and whatever parts the signature *)
(* was rebuilt from (contextual.rs:291-352).                               *)
THEOREM OneRing == Spec => []VerifiesOverOneRing
  <1>1. IInv => VerifiesOverOneRing
    <2> SUFFICES ASSUME IInv, sig # Nil,
                        NEW H \in Suites, NEW external \in CallerRings \cup {Nil},
                        NEW prepared \in PreparedData(H, MembersOf(sig.context)) \cup {Nil},
                        NEW m \in Message
                 PROVE  VerifyContextual(sig, H, external, prepared, m) <=>
                          \E ring \in FullRings :
                            /\ Fits(ring.points, sig, H, external, prepared)
                            /\ DOMAIN sig.signature.responses = DOMAIN AsVec(ring.points)
                            /\ Verifies(H, sig.signature, ring, prepared, m)
      BY DEF VerifiesOverOneRing
    <2>1. sig.context \in Contexts
      BY DEF IInv, TypeOK
    <2>2. VerifyContextual(sig, H, external, prepared, m)
            <=> \E s \in SortedLists(Key) :
                  /\ KnownOf(s, sig, H, external)
                  /\ AcceptedOver(s, H, sig.signature, prepared, m)
      BY <2>1, VerifyContextualIs
    <2> DEFINE Yes(s) == /\ Fits(s, sig, H, external, prepared)
                         /\ DOMAIN sig.signature.responses = DOMAIN AsVec(s)
                         /\ Under(H)!VerifyWith(sig.signature, AsVec(s), Len(s),
                                                PointsOf(H, s, prepared), m)
    <2>3. ASSUME NEW s \in SortedLists(Key)
          PROVE  Yes(s) <=> /\ KnownOf(s, sig, H, external)
                            /\ AcceptedOver(s, H, sig.signature, prepared, m)
      <3>1. DOMAIN AsVec(s) = 0 .. Len(s) - 1
        BY DEF AsVec
      <3>2. external # Nil => external \in CallerRings
        OBVIOUS
      <3>3. sig.context.type \in {"Compact", "Archival"}
        BY <2>1, ContextIs
      <3>4. Fits(s, sig, H, external, prepared)
              <=> /\ KnownOf(s, sig, H, external)
                  /\ prepared # Nil =>
                       /\ prepared.ring_hash = [suite |-> H, members |-> s]
                       /\ Len(prepared.hashed_points) = Len(s)
        BY <3>3 DEF Fits, KnownOf
      <3>5. QED BY <3>1, <3>4 DEF AcceptedOver
    <2>4. (\E ring \in FullRings : Yes(ring.points) /\ RingLen(ring) = Len(ring.points))
            <=> \E s \in SortedLists(Key) : Yes(s)
      <3> HIDE DEF Yes
      <3>1. \A s : FullRing(s).points = s /\ RingLen(FullRing(s)) = Len(s)
        BY DEF FullRing, RingLen
      <3>2. ASSUME NEW ring \in FullRings, Yes(ring.points)
            PROVE  \E s \in SortedLists(Key) : Yes(s)
        <4>1. PICK s \in SortedLists(Key) : ring = FullRing(s)
          BY RingsAre
        <4>2. QED BY <3>1, <3>2, <4>1
      <3>3. ASSUME NEW s \in SortedLists(Key), Yes(s)
            PROVE  \E ring \in FullRings :
                     Yes(ring.points) /\ RingLen(ring) = Len(ring.points)
        <4>1. FullRing(s) \in FullRings
          BY RingsAre
        <4>2. QED BY <3>1, <3>3, <4>1
      <3>4. QED BY <3>2, <3>3
    <2>5. \A ring \in FullRings : RingLen(ring) = Len(ring.points)
      <3>1. \A s : FullRing(s).points = s /\ RingLen(FullRing(s)) = Len(s)
        BY DEF FullRing, RingLen
      <3>2. QED BY <3>1, RingsAre
    <2>6. ASSUME NEW ring \in FullRings
          PROVE  Verifies(H, sig.signature, ring, prepared, m)
                   <=> Under(H)!VerifyWith(sig.signature, AsVec(ring.points), RingLen(ring),
                                           PointsOf(H, ring.points, prepared), m)
      <3>1. PICK s \in SortedLists(Key) : ring = FullRing(s)
        BY RingsAre
      <3>2. ring.points = s /\ RingLen(ring) = Len(s)
        BY <3>1 DEF FullRing, RingLen
      <3>3. CASE prepared \in {Nil, Prepare(H, ring)}
        <4>1. PointsOf(H, s, prepared) = Under(H)!HashedPoints(AsVec(s), Len(s))
          BY <3>1, <3>3, PreparedIs
        <4>2. QED BY <3>2, <3>3, <4>1 DEF Verifies, Under!Verify
      <3>4. CASE prepared \notin {Nil, Prepare(H, ring)}
        BY <3>2, <3>4 DEF Verifies, PointsOf
      <3>5. QED BY <3>3, <3>4
    <2>7. QED BY <2>2, <2>3, <2>4, <2>5, <2>6
  <1>2. QED BY <1>1, HistoryInvariance, PTL

(* Made from one signature, the compact and the archival form accept the   *)
(* same external rings, prepared data and messages under the suite it was  *)
(* made with (contextual.rs:157-215, 291-352).                             *)
THEOREM Modes == Spec => []ModesAgree
  <1>1. IInv => ModesAgree
    <2> DEFINE ring == FullRing(made.members)
               H == made.suite
               compact == CompactSignature(sig.signature, H, ring)
               archival == ArchivalSignature(sig.signature, ring)
    <2> SUFFICES ASSUME IInv, kept,
                        NEW external \in CallerRings,
                        NEW prepared \in PreparedData(made.suite, made.members) \cup {Nil},
                        NEW m \in Message
                 PROVE  VerifyContextual(compact, H, external, prepared, m)
                          = VerifyContextual(archival, H, external, prepared, m)
      BY DEF ModesAgree
    <2>1. H \in Suites /\ made.members \in SortedLists(Key)
      BY DEF IInv, Provenance
    <2>2. /\ ring \in CallerRings /\ ring.compressed = made.members
          /\ CanonicalHash(Default, ring) = [suite |-> Default, members |-> made.members]
          /\ CanonicalHash(H, ring) = [suite |-> H, members |-> made.members]
      BY <2>1, RingsAre DEF CallerRings, FullRing, CanonicalHash
    <2>3. CanonicalHash(Default, ring) \in Hashes /\ CanonicalHash(H, ring) \in Hashes
      BY <2>1, <2>2, HashIs, DefaultSuite
    <2>4. external # Nil
      BY CallerRingIs
    <2> HIDE DEF ring
    <2>5. /\ compact.signature = sig.signature /\ archival.signature = sig.signature
          /\ compact.context \in Contexts /\ archival.context \in Contexts
          /\ compact.context.type = "Compact"
          /\ compact.context.data = CanonicalHash(Default, ring)
          /\ archival.context.type = "Archival" /\ archival.context.data = ring
          /\ compact.selected = IF CanonicalHash(H, ring) # CanonicalHash(Default, ring)
                                THEN CanonicalHash(H, ring) ELSE Nil
      BY <2>2, <2>3 DEF CompactSignature, ArchivalSignature, LookupHash, Contexts,
                        Compact, Archival
    <2> HIDE DEF compact, archival
    <2>6. \A s : KnownOf(s, compact, H, external) <=> KnownOf(s, archival, H, external)
      BY <2>2, <2>4, <2>5 DEF KnownOf
    <2>7. VerifyContextual(compact, H, external, prepared, m)
            <=> VerifyContextual(archival, H, external, prepared, m)
      BY <2>5, <2>6, VerifyContextualIs
    <2>8. QED BY <2>7 DEF VerifyContextual
  <1>2. QED BY <1>1, HistoryInvariance, PTL

(* What a context shows is the hash of its ring, in either mode and after  *)
(* any number of trips (contextual.rs:62-75).                              *)
THEOREM View == Spec => []ViewIsOfRing
  <1>1. IInv => ViewIsOfRing
    <2> SUFFICES ASSUME IInv, kept
                 PROVE  /\ ViewHash(sig) = [suite |-> Default, members |-> made.members]
                        /\ complete => ViewHashWith(sig, made.suite)
                                         = [suite |-> made.suite, members |-> made.members]
      BY DEF ViewIsOfRing
    <2>1. [suite |-> made.suite, members |-> made.members] # Nil
      BY RingsAre, HashIs DEF IInv, Provenance
    <2>2. QED BY <2>1 DEF IInv, Provenance, ViewHash, ViewHashWith, NormalizedSelected,
                          CanonicalHash, Compact
  <1>2. QED BY <1>1, HistoryInvariance, PTL

(* A contextual signature that nobody has rebuilt verifies over its ring   *)
(* under its suite, however often it has been stored (contextual.rs:       *)
(* 313-316, 343-344).  Suite is any one suite, whose signatures these are. *)
THEOREM StoredVerified == Spec => []((kept => made.suite = Suite) => StoredVerifies)
  <1>1. IInv => ((kept => made.suite = Suite) => StoredVerifies)
    <2> SUFFICES ASSUME IInv, kept, made.suite = Suite,
                        NEW external \in {FullRing(made.members), CompressedRing(made.members)},
                        NEW prepared \in {Nil, Prepare(Suite, FullRing(made.members))}
                 PROVE  VerifyContextual(sig, Suite, external, prepared, made.message)
      BY DEF StoredVerifies
    <2> DEFINE s == made.members
    <2>1. s \in SortedLists(Key) /\ s \in SortedLists(Encodings)
      BY RingsAre DEF IInv, Provenance
    <2>2. external \in CallerRings /\ external.compressed = s /\ external # Nil
      <3>1. external \in CallerRings /\ external.compressed = s
        BY <2>1, RingsAre DEF CallerRings, FullRing, CompressedRing
      <3>2. QED BY <3>1, CallerRingIs
    <2>3. AcceptedOver(s, Suite, sig.signature, Nil, made.message)
      BY DEF IInv, SuiteSigned
    <2>4. AcceptedOver(s, Suite, sig.signature, prepared, made.message)
      <3>1. PointsOf(Suite, s, prepared) = PointsOf(Suite, s, Nil)
        BY <2>1, PreparedIs
      <3>2. prepared # Nil =>
              /\ prepared.ring_hash = [suite |-> Suite, members |-> s]
              /\ Len(prepared.hashed_points) = Len(s)
        BY <2>1, PreparedIs
      <3>3. QED BY <2>3, <3>1, <3>2 DEF AcceptedOver
    <2>5. KnownOf(s, sig, Suite, external) /\ sig.context \in Contexts
      <3>1. KnownOf(s, sig, Suite, external)
        BY <2>2 DEF IInv, Provenance, KnownOf, Compact
      <3>2. QED BY <3>1 DEF IInv, Provenance
    <2>6. QED BY <2>1, <2>2, <2>4, <2>5, VerifyContextualIs
  <1>2. QED BY <1>1, HistoryInvariance, PTL

=============================================================================
