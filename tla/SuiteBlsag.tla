----------------------------- MODULE SuiteBlsag -----------------------------
(***************************************************************************)
(* The bLSAG scheme of Blsag under one of several digest suites, as the    *)
(* code's functions are generic over the digest H: the suite is a          *)
(* parameter of the two hashes and nothing else depends on it.             *)
(***************************************************************************)
CONSTANTS
  Scalar, Point, Zero, G, Malformed,
  SSub(_, _), SMul(_, _), PAdd(_, _), PMul(_, _),
  HashToPointOf(_, _),      \* of a suite
  ChallengeOf(_, _, _, _),  \* of a suite
  H

HashToPointUnder(P) == HashToPointOf(H, P)
ChallengeUnder(m, L, R) == ChallengeOf(H, m, L, R)

INSTANCE Blsag WITH HashToPoint <- HashToPointUnder, Challenge <- ChallengeUnder
=============================================================================
