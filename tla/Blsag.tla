------------------------------- MODULE Blsag -------------------------------
(***************************************************************************)
(* The bLSAG scheme as pure definitions: the challenge computed for one    *)
(* ring member (engine.rs), one-shot signing (sign.rs) and one-shot        *)
(* verification (verify.rs).  A ring, a response vector or a vector of     *)
(* challenges is a function on 0 .. n-1, indexed as in the code.           *)
(***************************************************************************)
EXTENDS Curve, Integers

Vec(n, S) == [0 .. n - 1 -> S]

(* The challenge that follows the member P (hashed to the point hp):       *)
(* H(m || s*G + c*P || s*hp + c*I).                                        *)
NextChallenge(m, s, c, P, hp, I) ==
  Challenge(m, PAdd(PMul(s, G), PMul(c, P)), PAdd(PMul(s, hp), PMul(c, I)))

(* The challenge that follows the signer, from its nonce a.                *)
NonceChallenge(m, a, hp) == Challenge(m, PMul(a, G), PMul(a, hp))

(* The signer's response: closes the ring.                                 *)
ClosingResponse(a, c, k) == SSub(a, SMul(c, k))

-----------------------------------------------------------------------------
(* verify.rs: walk the ring from c_0 and compare.  hp[j] is the point the  *)
(* member is hashed to, from the PreparedRing or computed in place.        *)
VerifyWith(sig, ring, n, hp, m) ==
  LET c[j \in 0 .. n] ==
        IF j = 0 THEN sig.challenge
        ELSE NextChallenge(m, sig.responses[j - 1], c[j - 1], ring[j - 1],
                           hp[j - 1], sig.key_image)
  IN  c[n] = sig.challenge

HashedPoints(ring, n) == [j \in 0 .. n - 1 |-> HashToPoint(ring[j])]

Verify(sig, ring, n, m) == VerifyWith(sig, ring, n, HashedPoints(ring, n), m)

(* What Verify decides, without the walk: some vector of challenges starts *)
(* at c_0 and satisfies the equation of every member, around the ring.     *)
Closes(sig, ring, n, m) ==
  \E c \in Vec(n, Scalar) :
    /\ c[0] = sig.challenge
    /\ \A j \in 0 .. n - 1 :
         c[(j + 1) % n] = NextChallenge(m, sig.responses[j], c[j], ring[j],
                                        HashToPoint(ring[j]), sig.key_image)

-----------------------------------------------------------------------------
(* sign.rs: from the signer at index pi with the nonce a, whose challenge  *)
(* is c1, around the ring and back.  rs holds one random response per      *)
(* member (the one at pi is overwritten).  c[j] is current_challenge after *)
(* j turns of the loop over cycle().skip(pi + 1).take(n - 1).              *)
CloseRing(c1, I, k, ring, n, pi, hp, m, a, rs) ==
  LET at(j) == (pi + 1 + j) % n
      c[j \in 0 .. n - 1] ==
        IF j = 0 THEN c1
        ELSE NextChallenge(m, rs[at(j - 1)], c[j - 1], ring[at(j - 1)],
                           hp[at(j - 1)], I)
      c0 == IF pi = n - 1 THEN c[0]
            ELSE c[1 + CHOOSE j \in 0 .. n - 2 : at(j) = n - 1]
  IN  [challenge |-> c0,
       responses |-> [rs EXCEPT ![pi] = ClosingResponse(a, c[n - 1], k)],
       key_image |-> I]

(* The challenges the loop goes through, without the loop: ch[j] is the    *)
(* one of member j, and every member but the signer leads to the next.     *)
GoesAround(ch, c1, I, ring, n, pi, m, rs) ==
  /\ ch \in Vec(n, Scalar)
  /\ ch[(pi + 1) % n] = c1
  /\ \A j \in (0 .. n - 1) \ {pi} :
       ch[(j + 1) % n] = NextChallenge(m, rs[j], ch[j], ring[j], HashToPoint(ring[j]), I)

(* sign_inner: the signer's own member is hashed in place.                 *)
SignWith(k, ring, n, pi, hp, m, a, rs) ==
  CloseRing(NonceChallenge(m, a, HashToPoint(PublicKey(k))), KeyImage(k),
            k, ring, n, pi, hp, m, a, rs)
=============================================================================
