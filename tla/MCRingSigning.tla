---------------------------- MODULE MCRingSigning ----------------------------
(* RingSigning over the small group.  The malformed encoding sorts between *)
(* the keys 1 and 2.                                                       *)
EXTENDS RingSigning, MCCurve

(* Two draws of the RNG, with different nonces and mixed responses.        *)
MCDraws(n) ==
  {[nonce |-> 1, responses |-> [i \in 0 .. n - 1 |-> (2 * i + 3) % Q]],
   [nonce |-> 3, responses |-> [i \in 0 .. n - 1 |-> (i + 1) % Q]]}

MCBytes(c) == IF c = Malformed THEN 3 ELSE 2 * c
=============================================================================
