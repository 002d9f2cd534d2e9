--------------------------- MODULE SigningSession ---------------------------
(***************************************************************************)
(* What a signing device promises to the host that feeds it a ring, however*)
(* the ring arrives: it settles once on a ring whose hash the host named,  *)
(* and then issues at most one signature, made for that ring by the key of *)
(* one of its members.  StreamingSigner implements this specification.     *)
(***************************************************************************)
EXTENDS Blsag

CONSTANTS
  Nil,
  MaxRing,      \* longest ring
  SecretKeys,   \* the keys a device may be given
  RingHash(_),  \* the hash of a ring
  RingHashes    \* the hashes a host may name

VARIABLES
  ring,         \* the ring settled on, [members, len], or Nil
  issued        \* the signature issued, [message, signature], or Nil

vars == <<ring, issued>>

Init == ring = Nil /\ issued = Nil

Settle ==
  /\ ring = Nil
  /\ \E n \in 1 .. MaxRing : \E r \in Vec(n, Point) :
       /\ RingHash(r) \in RingHashes
       /\ ring' = [members |-> r, len |-> n]
  /\ UNCHANGED issued

(* sig signs m for the ring r under the key k of the member pi.            *)
IsSignatureBy(k, pi, sig, r, m) ==
  /\ r.members[pi] = PublicKey(k)
  /\ sig.key_image = KeyImage(k)
  /\ Closes(sig, r.members, r.len, m)

Issue ==
  /\ ring # Nil
  /\ issued = Nil
  /\ issued' # Nil
  /\ \E k \in SecretKeys, pi \in 0 .. ring.len - 1 :
       IsSignatureBy(k, pi, issued'.signature, ring, issued'.message)
  /\ UNCHANGED ring

Next == Settle \/ Issue

Spec == Init /\ [][Next]_vars
=============================================================================
