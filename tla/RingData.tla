------------------------------ MODULE RingData ------------------------------
(***************************************************************************)
(* The values of Ring (src/ring.rs).  A ring keeps its members as encodings*)
(* sorted by their bytes, and, in Full representation, also as points; the *)
(* points are absent (Nil) in Compressed representation.                   *)
(***************************************************************************)
EXTENDS Integers, SequencesExt

CONSTANTS
  Nil,      \* None
  Bytes(_)  \* the encodings in the order of their bytes: their ranks

Before(c, d) == Bytes(c) <= Bytes(d)

(* sort_and_compress, one member after the other put before the first that *)
(* has greater bytes; mutation: the members stay as they came.             *)
Place(s, c) ==
  CHOOSE k \in 1 .. Len(s) + 1 :
    /\ \A i \in 1 .. k - 1 : Before(s[i], c)
    /\ \A i \in k .. Len(s) : ~Before(s[i], c)
Insert(s, c) == InsertAt(s, Place(s, c), c)

AsGiven(s) == s
SortByBytes(s) ==
  LET sorted[n \in 0 .. Len(s)] ==
        IF n = 0 THEN <<>> ELSE Insert(sorted[n - 1], s[n])
  IN  sorted[Len(s)]

FullRing(s) == [compressed |-> s, points |-> s]
CompressedRing(s) == [compressed |-> s, points |-> Nil]

IsDecompressed(r) == r.points # Nil

RingLen(r) == Len(r.compressed)

(* The hash of the members under the suite H: collision free.              *)
CanonicalHash(H, r) == [suite |-> H, members |-> r.compressed]

(* The positions at which a binary search may end.                         *)
Positions(s, c) == {i \in 1 .. Len(s) : s[i] = c}

(* A sequence indexed from 0, as in the code.                              *)
AsVec(s) == [i \in 0 .. Len(s) - 1 |-> s[i + 1]]
=============================================================================
