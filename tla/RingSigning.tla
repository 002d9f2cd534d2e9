----------------------------- MODULE RingSigning -----------------------------
(***************************************************************************)
(* One-shot bLSAG signing over a ring that its owner goes on changing      *)
(* (src/blsag/sign.rs, precompute.rs, src/ring.rs).  A caller signs at     *)
(* once, or prepares a SigningPrecomputation, here the ticket, and signs   *)
(* with it later; both may be given a PreparedRing, which is whatever the  *)
(* caller kept from some ring or loaded from storage.                      *)
(*                                                                         *)
(* The points and challenges are those of one suite, Suite.  A ticket does *)
(* not record its suite: a call under another one is told by the ring's    *)
(* hash alone.                                                             *)
(***************************************************************************)
EXTENDS Ring

CONSTANTS
  Message,
  SecretKeys,  \* bound: the secret keys callers sign with
  Draws(_),    \* bound: what the RNG returns for a ring of a length: the nonce
               \* and one response per member
  Suite        \* the suite of the caller

ASSUME SigningConstants ==
  /\ SecretKeys \subseteq Scalar
  /\ \A n \in 0 .. MaxRing :
       Draws(n) \subseteq [nonce : Scalar, responses : Vec(n, Scalar)]
  /\ Suite \in Suites
  /\ \A m \in Message, L, R \in Point : Challenge(m, L, R) \in Scalar

(* SigningPrecomputation, and what is remembered of the ring it was made   *)
(* for.                                                                    *)
Tickets ==
  [alpha : Scalar, alpha_g : Point, alpha_hp : Point,
   ring_hash : [suite : Suites, members : BoundedSeq(Point, MaxRing)],
   signer_index : 0 .. MaxRing - 1, key_image : Point,
   responses : UNION {Vec(n, Scalar) : n \in 1 .. MaxRing}, secret_key : SecretKeys]
Origins == [members : UNION {Vec(n, Point) : n \in 1 .. MaxRing}, trusted : BOOLEAN]

ASSUME NilIsNone == Nil \notin Tickets \cup Origins

VARIABLES
  ticket,  \* the caller's SigningPrecomputation, or Nil
  \* History: the ring the ticket was made for, and whether the PreparedRing
  \* that went into it could be trusted where it was read; the last signature
  \* given out and what it was made from.
  origin, last

vars == <<ring, keys, result, ticket, origin, last>>

Members == AsVec(ring.points)

(* What a caller may pass as precomputed_data: nothing, the preparation of *)
(* some ring, current or not, or data loaded from storage that carries the *)
(* right hash over no points or over points some of which are wrong.       *)
KeptPreparations ==
  {Prepare(Suite, FullRing(SortByBytes(s))) : s \in BoundedSeq(Key, MaxRing)}
Damaged(d, slots) ==
  [d EXCEPT !.hashed_points = [i \in DOMAIN @ |-> IF i \in slots THEN PAdd(@[i], G) ELSE @[i]]]
LoadedPreparations ==
  UNION {{[d EXCEPT !.hashed_points = <<>>]}
           \cup {Damaged(d, slots) : slots \in SUBSET (DOMAIN d.hashed_points)} :
         d \in {kept \in KeptPreparations : kept.ring_hash = CanonicalHash(Suite, ring)}}
Preparations == {Nil} \cup KeptPreparations \cup LoadedPreparations

(* Data the documentation lets a caller rely on: computed by precompute,   *)
(* or checked with PreparedRing::verify.                                   *)
Trusted(d) ==
  \/ d \in {Nil} \cup KeptPreparations
  \/ VerifyPrepared(Suite, d, ring)

-----------------------------------------------------------------------------
(* The checks on precomputed_data common to signing and precomputing;      *)
(* mutation: the length is taken for the ring's identity.                  *)
SameLength(H, d) == Len(d.hashed_points) = RingLen(ring)
SameRing(H, d) == d.ring_hash = CanonicalHash(H, ring)

Rejects(H, d, error) ==
  /\ d # Nil
  /\ \/ ~SameRing(H, d) /\ error = "RingMismatch"
     \/ /\ SameRing(H, d)
        /\ Len(d.hashed_points) # RingLen(ring)
        /\ error = "InvalidPrecomputedData"

Accepts(H, d) ==
  d # Nil => SameRing(H, d) /\ Len(d.hashed_points) = RingLen(ring)

PointsOf(d) ==
  IF d = Nil THEN HashedPoints(Members, RingLen(ring)) ELSE AsVec(d.hashed_points)

(* Data that may be relied on when these members' points are read from it: *)
(* trusted as a whole, or right at least where it is read.                 *)
TrustedAt(d, indices) ==
  \/ Trusted(d)
  \/ \A i \in indices : PointsOf(d)[i] = HashToPoint(Members[i])
Others(pi) == (0 .. RingLen(ring) - 1) \ {pi}

(* The early returns of sign_inner and of precompute_signing.              *)
Refuses(k, d) ==
  /\ \/ ~IsDecompressed(ring) /\ result' = "CompressedRing"
     \/ /\ IsDecompressed(ring)
        /\ \/ Positions(ring.points, PublicKey(k)) = {} /\ result' = "SignerNotFound"
           \/ /\ Positions(ring.points, PublicKey(k)) # {}
              /\ Rejects(Suite, d, result')
  /\ UNCHANGED <<ring, keys, ticket, origin>>
  /\ last' = Nil

Output(sig, m, made_for, trusted) ==
  last' = [signature |-> sig, message |-> m, members |-> Members,
           len |-> RingLen(ring), made_for |-> made_for, trusted |-> trusted]

(* sign_with_rng                                                           *)
Sign(k, d, m) ==
  \/ Refuses(k, d)
  \/ /\ IsDecompressed(ring)
     /\ Accepts(Suite, d)
     /\ \E found \in Positions(ring.points, PublicKey(k)), draw \in Draws(RingLen(ring)) :
          Output(SignWith(k, Members, RingLen(ring), found - 1, PointsOf(d), m,
                          draw.nonce, draw.responses),
                 m, Members, TrustedAt(d, Others(found - 1)))
     /\ result' = "Signed"
     /\ UNCHANGED <<ring, keys, ticket, origin>>

(* precompute_signing.  The signer's own point is taken from the prepared  *)
(* data, unlike in sign_inner, and no other is.                            *)
PrecomputeSigning(k, d) ==
  \/ Refuses(k, d)
  \/ /\ IsDecompressed(ring)
     /\ Accepts(Suite, d)
     /\ \E found \in Positions(ring.points, PublicKey(k)), draw \in Draws(RingLen(ring)) :
          /\ ticket' = [alpha |-> draw.nonce, alpha_g |-> PMul(draw.nonce, G),
                     alpha_hp |-> PMul(draw.nonce, PointsOf(d)[found - 1]),
                     ring_hash |-> CanonicalHash(Suite, ring),
                     signer_index |-> found - 1, key_image |-> KeyImage(k),
                     responses |-> draw.responses, secret_key |-> k]
          /\ origin' = [members |-> Members, trusted |-> TrustedAt(d, {found - 1})]
     /\ result' = "Precomputed"
     /\ last' = Nil
     /\ UNCHANGED <<ring, keys>>

(* What a ticket is compared with the ring by; mutation: the length only.  *)
TicketLength(t, H) == DOMAIN t.responses = 0 .. RingLen(ring) - 1
TicketRing(t, H) == t.ring_hash = CanonicalHash(H, ring)

(* The challenge that follows the signer, from the ticket's commitments.   *)
TicketChallenge(t, m) == Challenge(m, t.alpha_g, t.alpha_hp)

(* sign_precomputed takes the ticket by value: it is gone in every case.   *)
SignPrecomputed(H, d, m) ==
  /\ ticket # Nil
  /\ ticket' = Nil
  /\ origin' = Nil
  /\ UNCHANGED <<ring, keys>>
  /\ \/ ~IsDecompressed(ring) /\ result' = "CompressedRing" /\ last' = Nil
     \/ /\ IsDecompressed(ring)
        /\ ~TicketRing(ticket, H) \/ ~TicketLength(ticket, H)
        /\ result' = "RingMismatch"
        /\ last' = Nil
     \/ /\ IsDecompressed(ring)
        /\ TicketRing(ticket, H)
        /\ TicketLength(ticket, H)
        /\ \/ Rejects(H, d, result') /\ last' = Nil
           \/ /\ Accepts(H, d)
              /\ Output(CloseRing(TicketChallenge(ticket, m), ticket.key_image,
                                  ticket.secret_key, Members, RingLen(ring),
                                  ticket.signer_index, PointsOf(d), m,
                                  ticket.alpha, ticket.responses),
                        m, origin.members,
                        origin.trusted /\ TrustedAt(d, Others(ticket.signer_index)))
              /\ result' = "Signed"

ChangeRing == NextRing /\ last' = Nil /\ UNCHANGED <<ticket, origin>>

Init == InitRing /\ ticket = Nil /\ origin = Nil /\ last = Nil

Next ==
  \/ ChangeRing
  \/ \E k \in SecretKeys, d \in Preparations :
       PrecomputeSigning(k, d) \/ \E m \in Message : Sign(k, d, m)
  \/ \E H \in Suites, d \in Preparations, m \in Message : SignPrecomputed(H, d, m)

Spec == Init /\ [][Next]_vars

-----------------------------------------------------------------------------
TypeOK ==
  /\ TypeOKRing
  /\ ticket \in {Nil} \cup Tickets
  /\ origin \in {Nil} \cup Origins
  /\ ticket = Nil <=> origin = Nil

(* A signature verifies over the ring it was made for, whatever was done   *)
(* to the ring between the calls and whatever prepared data, current,      *)
(* stale or damaged, was passed, unless a damaged point was read of data   *)
(* that PreparedRing::verify would refuse: sign_with_rng reads the points  *)
(* of the other members, precompute_signing the signer's own               *)
(* (ring.rs:169-198, sign.rs:67-75, 160-166, 235-245, 280-298).            *)
OneShotVerifies ==
  last # Nil /\ last.trusted => Verify(last.signature, last.members, last.len, last.message)

(* A ticket signs only for the ring it was made for (precompute.rs:27-28): *)
(* the same members in the same places, even when the ring has been        *)
(* changed, rebuilt or sent through storage in between.                    *)
TicketBoundToRing == last # Nil => last.members = last.made_for
=============================================================================
