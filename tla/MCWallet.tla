------------------------------ MODULE MCWallet ------------------------------
(***************************************************************************)
(* Wallet over the small group, with another basepoint so that a scalar    *)
(* and its public key differ.  The hash functions are tables: the tweaks   *)
(* never lead to the identity, and the five key images are distinct.       *)
(***************************************************************************)
EXTENDS Wallet, MCCurve

MCSAdd(a, b) == (a + b) % Q

MCWalletHashToPoint(P) == <<2, 1, 1, 3, 2>>[P + 1]

(* The child of a public key, and the tweak that leads to it from there:   *)
(* with the basepoint 2, half the difference.                              *)
MCChild(P, data) == <<<<1, 2>>, <<2, 3>>, <<3, 4>>, <<1, 4>>, <<2, 1>>>>[P + 1][data]
MCTweak(P, data) == (3 * (MCChild(P, data) - P + Q)) % Q

MCDecoys == {<<>>, <<4>>, <<1, 3>>, [i \in 1 .. 21 |-> 0]}

MCDraws(n) == {[nonce |-> 3, responses |-> [i \in 0 .. n - 1 |-> (i * i + 2) % Q]]}

MCBytes(c) == c
=============================================================================
