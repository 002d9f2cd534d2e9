----------------------------- MODULE Contextual -----------------------------
(***************************************************************************)
(* ContextualBLSAG (src/blsag/contextual.rs): a bLSAG signature that       *)
(* travels with its ring (Archival) or with one or two hashes of it        *)
(* (Compact).  It is made under one digest suite, stored and loaded, taken *)
(* apart and rebuilt, and verified under any suite against any ring the    *)
(* verifier has.                                                           *)
(*                                                                         *)
(* verify changes nothing and is an operator; the other operations are     *)
(* actions.  The data a caller may pass to speed up signing is modelled in *)
(* RingSigning, as signing passes it on; verify reads what it is given.    *)
(***************************************************************************)
EXTENDS RingData

CONSTANTS
  Scalar, Point, Zero, G, Malformed,
  SSub(_, _), SMul(_, _), PAdd(_, _), PMul(_, _),
  HashToPoint(_, _),         \* of a suite
  Challenge(_, _, _, _),     \* of a suite
  Suites,      \* the digest suites H a caller may choose
  Default,     \* SHA3-512, the suite of Ring::canonical_hash
  Key,         \* bound: the points in callers' rings
  MaxRing,     \* bound: longest ring
  Message,
  SecretKeys,  \* bound: the secret keys callers sign with
  Draws(_)     \* bound: what the RNG returns for a ring of a length: the nonce
               \* and one response per member

ASSUME DefaultSuite == Default \in Suites

ASSUME CallerConstants ==
  /\ MaxRing \in Nat
  /\ Key \subseteq Point
  /\ Malformed \notin Point
  /\ SecretKeys \subseteq Scalar
  /\ \A c \in Key \cup {Malformed} : Bytes(c) \in Int
  /\ \A n \in 0 .. MaxRing :
       Draws(n) \subseteq [nonce : Scalar, responses : [0 .. n - 1 -> Scalar]]

VARIABLES
  sig,     \* the ContextualBLSAG, [signature, context, selected], or Nil
  result,  \* what the last call returned
  \* History: the suite, members and message its signature was made with;
  \* whether the context is still the signer's and, if so, with the hash of
  \* the selected suite.
  made, kept, complete

vars == <<sig, result, made, kept, complete>>

(* The scheme under a suite.                                               *)
Under(H) == INSTANCE SuiteBlsag WITH HashToPointOf <- HashToPoint, ChallengeOf <- Challenge

ASSUME SuitesOverOneCurve ==
  \A H \in Suites :
    /\ Under(H)!CurveTypes
    /\ Under(H)!Distributivity
    /\ Under(H)!Associativity
    /\ \A m \in Message, L, R \in Point : Challenge(H, m, L, R) \in Scalar

(* The rings callers have, in both representations.                        *)
Lists == BoundedSeq(Key \cup {Malformed}, MaxRing)
FullRings == {FullRing(SortByBytes(s)) : s \in BoundedSeq(Key, MaxRing)}
CompressedRings == {CompressedRing(SortByBytes(s)) : s \in Lists}
CallerRings == FullRings \cup CompressedRings
Hashes == {CanonicalHash(H, r) : H \in Suites, r \in CompressedRings}

(* Bound: the selected hashes a caller rebuilds with are of rings somebody *)
(* could sign over.                                                        *)
SelectedHashes == {CanonicalHash(H, r) : H \in Suites, r \in FullRings}

ASSUME NilIsNone ==
  /\ Nil \notin Lists
  /\ Nil \notin [compressed : Lists, points : Lists \cup {Nil}]
  /\ Nil \notin [suite : Suites, members : Lists]

(* RingContext                                                             *)
Compact(hash) == [type |-> "Compact", data |-> hash]
Archival(ring) == [type |-> "Archival", data |-> ring]
Contexts == {Compact(hash) : hash \in Hashes} \cup {Archival(r) : r \in CallerRings}

(* normalized_compact_selected_hash; mutations: the hash is taken as it    *)
(* comes, or never kept.                                                   *)
AnySelected(context, hash) == hash
NoSelected(context, hash) == Nil
NormalizedSelected(context, hash) ==
  IF context.type = "Compact" /\ hash # context.data THEN hash ELSE Nil

FromParts(signature, context, hash) ==
  [signature |-> signature, context |-> context,
   selected |-> NormalizedSelected(context, hash)]

-----------------------------------------------------------------------------
(* BLSAG::sign_with_rng, without prepared data.                            *)
SignatureOf(H, k, ring, found, m, draw) ==
  Under(H)!SignWith(k, AsVec(ring.points), RingLen(ring), found - 1,
                    Under(H)!HashedPoints(AsVec(ring.points), RingLen(ring)), m,
                    draw.nonce, draw.responses)

(* The hash a compact signature is looked up by; mutation: that of the     *)
(* suite.                                                                  *)
SuiteHash(H, ring) == CanonicalHash(H, ring)
LookupHash(H, ring) == CanonicalHash(Default, ring)

(* sign_compact_with_rng and sign_archival_with_rng                        *)
CompactSignature(signature, H, ring) ==
  [signature |-> signature, context |-> Compact(LookupHash(H, ring)),
   selected |-> IF CanonicalHash(H, ring) # LookupHash(H, ring)
                THEN CanonicalHash(H, ring) ELSE Nil]
ArchivalSignature(signature, ring) ==
  [signature |-> signature, context |-> Archival(ring), selected |-> Nil]

Sign(H, k, ring, m) ==
  \/ /\ ~IsDecompressed(ring)
     /\ result' = "CompressedRing"
     /\ UNCHANGED <<sig, made, kept, complete>>
  \/ /\ IsDecompressed(ring)
     /\ Positions(ring.points, Under(H)!PublicKey(k)) = {}
     /\ result' = "SignerNotFound"
     /\ UNCHANGED <<sig, made, kept, complete>>
  \/ /\ IsDecompressed(ring)
     /\ \E found \in Positions(ring.points, Under(H)!PublicKey(k)),
           draw \in Draws(RingLen(ring)) :
          LET signature == SignatureOf(H, k, ring, found, m, draw)
          IN  \/ sig' = CompactSignature(signature, H, ring)
              \/ sig' = ArchivalSignature(signature, ring)
     /\ made' = [suite |-> H, members |-> ring.points, message |-> m]
     /\ kept' = TRUE
     /\ complete' = TRUE
     /\ result' = "Ok"

(* generate_fake_compact_with_rng and generate_fake_archival_with_rng: a   *)
(* signature of random values, over a ring in either representation.       *)
Fake(ring) ==
  /\ \E draw \in Draws(RingLen(ring)), key_image \in Key :
       LET signature == [challenge |-> draw.nonce, responses |-> draw.responses,
                         key_image |-> key_image]
       IN  \/ sig' = FromParts(signature, Compact(CanonicalHash(Default, ring)), Nil)
           \/ sig' = ArchivalSignature(signature, ring)
  /\ made' = Nil
  /\ kept' = FALSE
  /\ complete' = FALSE
  /\ result' = "Ok"

(* Serialization and back: a ring comes back compressed, and data written  *)
(* before there was a selected hash lacks it.                              *)
Stored(context) ==
  IF context.type = "Archival"
  THEN Archival(CompressedRing(SortByBytes(context.data.compressed)))
  ELSE context

Load(has_selected) ==
  /\ sig # Nil
  /\ sig' = FromParts(sig.signature, Stored(sig.context),
                      IF has_selected THEN sig.selected ELSE Nil)
  /\ complete' = (complete /\ has_selected)
  /\ result' = "Ok"
  /\ UNCHANGED <<made, kept>>

(* into_parts and from_parts, with another context and another hash.       *)
Rebuild(context, hash) ==
  /\ sig # Nil
  /\ sig' = FromParts(sig.signature, context, hash)
  /\ kept' = FALSE
  /\ complete' = FALSE
  /\ result' = "Ok"
  /\ UNCHANGED made

Init == sig = Nil /\ result = Nil /\ made = Nil /\ kept = FALSE /\ complete = FALSE

Next ==
  \/ \E H \in Suites, k \in SecretKeys, ring \in CallerRings, m \in Message :
       Sign(H, k, ring, m)
  \/ \E ring \in CallerRings : Fake(ring)
  \/ \E has_selected \in BOOLEAN : Load(has_selected)
  \/ \E context \in Contexts, hash \in SelectedHashes \cup {Nil} : Rebuild(context, hash)

Spec == Init /\ [][Next]_vars

-----------------------------------------------------------------------------
(* precompute, and the data a verifier may bring: of some ring, or loaded  *)
(* with the hash of the members in question and its points lost or wrong.  *)
Prepare(H, ring) ==
  [ring_hash |-> CanonicalHash(H, ring),
   hashed_points |-> [i \in 1 .. Len(ring.points) |-> HashToPoint(H, ring.points[i])]]
Damaged(d, slots) ==
  [d EXCEPT !.hashed_points = [i \in DOMAIN @ |-> IF i \in slots THEN PAdd(@[i], G) ELSE @[i]]]
PreparedData(H, members) ==
  LET honest == {Prepare(H, ring) : ring \in FullRings}
  IN  honest \cup
        UNION {{[d EXCEPT !.hashed_points = <<>>]}
                 \cup {Damaged(d, slots) : slots \in SUBSET (DOMAIN d.hashed_points)} :
               d \in {prepared \in honest : prepared.ring_hash.members = members}}

(* BLSAG::verify: the points are the prepared ones or computed in place.   *)
PointsOf(H, members, prepared) ==
  IF prepared = Nil THEN Under(H)!HashedPoints(AsVec(members), Len(members))
  ELSE AsVec(prepared.hashed_points)

VerifyBlsag(H, signature, ring, prepared, m) ==
  /\ IsDecompressed(ring)
  /\ DOMAIN signature.responses = 0 .. RingLen(ring) - 1
  /\ prepared # Nil =>
       /\ prepared.ring_hash = CanonicalHash(H, ring)
       /\ Len(prepared.hashed_points) = RingLen(ring)
  /\ Under(H)!VerifyWith(signature, AsVec(ring.points), RingLen(ring),
                         PointsOf(H, ring.points, prepared), m)

AllDecompress(ring) == \A i \in 1 .. RingLen(ring) : ring.compressed[i] \in Point

(* The ring decompressed on the way, with which a ring that does not       *)
(* decompress is rejected; mutation: it is verified as it is.              *)
AsItIs(ring) == ring
Decompressed(ring) ==
  IF AllDecompress(ring) THEN FullRing(ring.compressed) ELSE ring

(* The hash of the selected suite against the external ring; mutation: it  *)
(* is not compared.                                                        *)
SelectedIgnored(c, H, ring) == TRUE
SelectedMatches(c, H, ring) ==
  c.selected # Nil => c.selected = CanonicalHash(H, ring)

(* verify                                                                  *)
VerifyContextual(c, H, external, prepared, m) ==
  \/ /\ c.context.type = "Compact"
     /\ external # Nil
     /\ c.context.data = CanonicalHash(Default, external)
     /\ SelectedMatches(c, H, external)
     /\ VerifyBlsag(H, c.signature, Decompressed(external), prepared, m)
  \/ /\ c.context.type = "Archival"
     /\ external # Nil =>
          CanonicalHash(H, c.context.data) = CanonicalHash(H, external)
     /\ VerifyBlsag(H, c.signature, Decompressed(c.context.data), prepared, m)

(* ContextualRingContext                                                   *)
ViewHash(c) ==
  IF c.context.type = "Compact" THEN c.context.data
  ELSE CanonicalHash(Default, c.context.data)
ViewHashWith(c, H) ==
  LET selected == NormalizedSelected(c.context, c.selected)
  IN  IF selected # Nil THEN selected
      ELSE IF c.context.type = "Compact" THEN c.context.data
      ELSE CanonicalHash(H, c.context.data)

-----------------------------------------------------------------------------
(* The context is well formed, and a selected hash is kept only beside a   *)
(* different lookup hash (contextual.rs:92-103).                           *)
TypeOK ==
  sig # Nil =>
    /\ sig.context \in Contexts
    /\ sig.selected \in Hashes \cup {Nil}
    /\ sig.selected # Nil => sig.context.type = "Compact" /\ sig.selected # sig.context.data

(* A verification says yes exactly when one ring fits everything that is   *)
(* known of it -- the lookup hash, the selected hash under the verifier's  *)
(* suite, the ring inside, the one the verifier brings, the one its        *)
(* prepared data is of -- and the signature verifies over it, whatever     *)
(* parts the signature was rebuilt from (contextual.rs:291-352).  Data     *)
(* that is not what precompute gives decides by the points stored in it.   *)
Fits(members, c, H, external, prepared) ==
  /\ c.context.type = "Compact" =>
       /\ external # Nil
       /\ c.context.data = [suite |-> Default, members |-> members]
       /\ c.selected \in {Nil, [suite |-> H, members |-> members]}
  /\ c.context.type = "Archival" => c.context.data.compressed = members
  /\ external # Nil => external.compressed = members
  /\ prepared # Nil =>
       /\ prepared.ring_hash = [suite |-> H, members |-> members]
       /\ Len(prepared.hashed_points) = Len(members)

Verifies(H, signature, ring, prepared, m) ==
  IF prepared \in {Nil, Prepare(H, ring)}
  THEN Under(H)!Verify(signature, AsVec(ring.points), RingLen(ring), m)
  ELSE Under(H)!VerifyWith(signature, AsVec(ring.points), RingLen(ring),
                           AsVec(prepared.hashed_points), m)

MembersOf(context) ==
  IF context.type = "Compact" THEN context.data.members ELSE context.data.compressed

VerifiesOverOneRing ==
  sig # Nil =>
    \A H \in Suites :
      \A external \in CallerRings \cup {Nil},
         prepared \in PreparedData(H, MembersOf(sig.context)) \cup {Nil}, m \in Message :
        VerifyContextual(sig, H, external, prepared, m) <=>
          \E ring \in FullRings :
            /\ Fits(ring.points, sig, H, external, prepared)
            /\ DOMAIN sig.signature.responses = DOMAIN AsVec(ring.points)
            /\ Verifies(H, sig.signature, ring, prepared, m)

(* A contextual signature that nobody has rebuilt verifies over its ring,  *)
(* under its suite, however often it has been stored, in either            *)
(* representation of the ring, with the selected hash or from data that    *)
(* lacks it (contextual.rs:313-316, 343-344).                              *)
StoredVerifies ==
  kept =>
    \A external \in {FullRing(made.members), CompressedRing(made.members)},
       prepared \in {Nil, Prepare(made.suite, FullRing(made.members))} :
      VerifyContextual(sig, made.suite, external, prepared, made.message)

(* The two modes agree: made from one signature, under its suite, they     *)
(* accept the same external rings, prepared data and messages.             *)
ModesAgree ==
  kept =>
    \A external \in CallerRings,
       prepared \in PreparedData(made.suite, made.members) \cup {Nil}, m \in Message :
      LET ring == FullRing(made.members)
          Accepts(c) == VerifyContextual(c, made.suite, external, prepared, m)
      IN  Accepts(CompactSignature(sig.signature, made.suite, ring))
            = Accepts(ArchivalSignature(sig.signature, ring))

(* What the context of a signature shows is the hash of its ring, in       *)
(* either mode and after any number of trips: under the default suite, and *)
(* under the suite it was made with (contextual.rs:62-75).                 *)
ViewIsOfRing ==
  kept =>
    /\ ViewHash(sig) = [suite |-> Default, members |-> made.members]
    /\ complete => ViewHashWith(sig, made.suite)
                     = [suite |-> made.suite, members |-> made.members]
=============================================================================
