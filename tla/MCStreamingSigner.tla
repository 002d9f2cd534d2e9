-------------------------- MODULE MCStreamingSigner --------------------------
(***************************************************************************)
(* StreamingSigner with rings of up to three members drawn from two points.*)
(* The announced hashes are those of a ring of one, of the two orders of a *)
(* ring of two, of a ring of three with a duplicate, and one computed      *)
(* under another suite.                                                    *)
(***************************************************************************)
EXTENDS StreamingSignerInv, MCCurve

Hash(H, r) == [suite |-> H, members |-> r]

MCRingHashes ==
  {Hash("Sha3", [i \in 0 .. 0 |-> 1]),
   Hash("Sha3", [i \in 0 .. 1 |-> i + 1]),
   Hash("Sha3", [i \in 0 .. 1 |-> 2 - i]),
   Hash("Sha3", [i \in 0 .. 2 |-> IF i = 0 THEN 1 ELSE 2]),
   Hash("Blake3", [i \in 0 .. 0 |-> 1])}
=============================================================================
