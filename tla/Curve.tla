------------------------------- MODULE Curve -------------------------------
(***************************************************************************)
(* The Ristretto group and the hash functions as the crate uses them.  The *)
(* arithmetic itself is the library curve25519-dalek's: what the crate     *)
(* relies on is stated as assumptions, so that a theorem about the         *)
(* signature code holds in every group that satisfies them, and TLC checks *)
(* them on the small group of a run.                                       *)
(*                                                                         *)
(* A point and its 32-byte canonical encoding are one value (compression   *)
(* is a bijection onto the encodings that decompress).  Malformed stands   *)
(* for the encodings that do not decompress.                               *)
(***************************************************************************)
CONSTANTS
  Scalar,           \* the scalar field
  Point,            \* the group elements
  Zero,             \* Scalar::ZERO
  G,                \* RISTRETTO_BASEPOINT_POINT
  Malformed,        \* a compressed encoding that is not on the curve
  SSub(_, _),       \* difference of two scalars
  SMul(_, _),       \* product of two scalars
  PAdd(_, _),       \* sum of two points
  PMul(_, _),       \* scalar times point
  HashToPoint(_),   \* H_p: RistrettoPoint::from_hash, tag nazgul-H_p-v3
  Challenge(_, _, _)  \* Scalar::from_hash(message prefix || L || R)

Compressed == Point \cup {Malformed}

(* CompressedRistretto::decompress is Some.                                *)
Decompresses(c) == c \in Point

ASSUME CurveTypes ==
  /\ Zero \in Scalar
  /\ G \in Point
  /\ Malformed \notin Point
  /\ \A a, b \in Scalar : SSub(a, b) \in Scalar /\ SMul(a, b) \in Scalar
  /\ \A P, R \in Point : PAdd(P, R) \in Point
  /\ \A a \in Scalar, P \in Point : PMul(a, P) \in Point
  /\ \A P \in Point : HashToPoint(P) \in Point

(* The group is a module over the scalars.  These two laws are all that    *)
(* closing a ring needs.                                                   *)
ASSUME Distributivity ==
  \A a, b \in Scalar, P \in Point :
    PAdd(PMul(SSub(a, b), P), PMul(b, P)) = PMul(a, P)

ASSUME Associativity ==
  \A a, b \in Scalar, P \in Point : PMul(SMul(a, b), P) = PMul(a, PMul(b, P))

PublicKey(k) == PMul(k, G)

KeyImage(k) == PMul(k, HashToPoint(PublicKey(k)))
=============================================================================
