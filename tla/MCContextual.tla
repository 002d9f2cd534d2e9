---------------------------- MODULE MCContextual ----------------------------
(* Contextual over the small group, with two suites.  The malformed        *)
(* encoding sorts between the keys 1 and 2.                                *)
EXTENDS Contextual, MCCurve

MCSuiteHashToPoint(H, P) == IF H = "Sha3" THEN MCHashToPoint(P) ELSE (P + 3) % Q

MCSuiteChallenge(H, m, L, R) ==
  IF H = "Sha3" THEN MCChallenge(m, L, R) ELSE (2 * m + L + 4 * R + L * R * R) % Q

MCDraws(n) ==
  {[nonce |-> 3, responses |-> [i \in 0 .. n - 1 |-> (2 * i + 3) % Q]]}

MCBytes(c) == IF c = Malformed THEN 3 ELSE 2 * c
=============================================================================
