------------------------------ MODULE MCCurve ------------------------------
(***************************************************************************)
(* A small group for TLC: the integers modulo the prime Q, a point being   *)
(* its discrete logarithm.  The hash functions are arbitrary functions     *)
(* that mix their arguments; being small they collide, which the           *)
(* properties checked here do not mind.                                    *)
(***************************************************************************)
EXTENDS Integers

Q == 5

MCScalar == 0 .. Q - 1
MCPoint == 0 .. Q - 1
MCSSub(a, b) == (a - b + Q) % Q
MCSMul(a, b) == (a * b) % Q
MCPAdd(a, b) == (a + b) % Q
MCPMul(a, b) == (a * b) % Q
MCHashToPoint(P) == (P * P + 2) % Q
MCChallenge(m, L, R) == (m + 2 * L + 3 * R * R + L * R) % Q
=============================================================================
