-------------------------------- MODULE Ring --------------------------------
(***************************************************************************)
(* Ring and PreparedRing (src/ring.rs) as a caller uses them.              *)
(*                                                                         *)
(* Each public operation of a ring is one action; panicking is an outcome  *)
(* like the errors, with the ring untouched.                               *)
(***************************************************************************)
EXTENDS Blsag, RingData, BagsExt

CONSTANTS
  Key,       \* bound: the points callers put in rings
  MaxRing,   \* bound: longest ring
  Suites     \* the digest suites H a caller may choose

ASSUME RingConstants ==
  /\ Key \subseteq Point
  /\ MaxRing \in Nat
  /\ \A c \in Compressed : Bytes(c) \in Nat
  /\ \A c, d \in Compressed : Bytes(c) = Bytes(d) => c = d

VARIABLES
  ring,    \* the caller's ring
  keys,    \* history: the bag of the members put in and not removed
  result   \* what the last call returned

-----------------------------------------------------------------------------
InitRing ==
  /\ ring = FullRing(<<>>)
  /\ keys = EmptyBag
  /\ result = Nil

(* Ring::new, From<Vec<RistrettoPoint>>                                    *)
NewRing(s) ==
  /\ ring' = FullRing(SortByBytes(s))
  /\ keys' = ToBag(s)
  /\ result' = "Ok"

(* Ring::from_compressed, and deserialization: nothing is decoded.         *)
FromCompressed(s) ==
  /\ ring' = CompressedRing(SortByBytes(s))
  /\ keys' = ToBag(s)
  /\ result' = "Ok"

(* Serialization and back: the representation changes, not the members.    *)
RoundTrip ==
  /\ ring' = CompressedRing(SortByBytes(ring.compressed))
  /\ result' = "Ok"
  /\ UNCHANGED keys

(* decompress takes the ring by value and returns it: the caller keeps a   *)
(* copy for the case of an error.                                          *)
DecompressRing ==
  /\ \/ IsDecompressed(ring) /\ result' = "Ok" /\ UNCHANGED ring
     \/ /\ ~IsDecompressed(ring)
        /\ IF \A i \in 1 .. RingLen(ring) : Decompresses(ring.compressed[i])
           THEN ring' = FullRing(ring.compressed) /\ result' = "Ok"
           ELSE result' = "DecompressionFailed" /\ UNCHANGED ring
  /\ UNCHANGED keys

(* add_public_key; the length is bounded here only.                        *)
AddPublicKey(P) ==
  \/ ~IsDecompressed(ring) /\ result' = "Panic" /\ UNCHANGED <<ring, keys>>
  \/ /\ IsDecompressed(ring)
     /\ RingLen(ring) < MaxRing
     /\ ring' = FullRing(SortByBytes(Append(ring.points, P)))
     /\ keys' = BagAdd(keys, P)
     /\ result' = "Ok"

(* Removing from both lists; mutation: the points are forgotten.           *)
RemoveEncoding(r, pos) == [r EXCEPT !.compressed = RemoveAt(@, pos)]
RemoveMember(r, pos) ==
  [compressed |-> RemoveAt(r.compressed, pos), points |-> RemoveAt(r.points, pos)]

(* remove_public_key: from wherever the search ends, back to the first.    *)
RemovePublicKey(P) ==
  \/ ~IsDecompressed(ring) /\ result' = "Panic" /\ UNCHANGED <<ring, keys>>
  \/ /\ IsDecompressed(ring)
     /\ Positions(ring.compressed, P) = {}
     /\ result' = "Absent"
     /\ UNCHANGED <<ring, keys>>
  \/ /\ IsDecompressed(ring)
     /\ \E found \in Positions(ring.compressed, P) :
          LET first == CHOOSE i \in 1 .. found :
                         /\ \A j \in i .. found : ring.compressed[j] = P
                         /\ i = 1 \/ ring.compressed[i - 1] # P
          IN  ring' = RemoveMember(ring, first)
     /\ keys' = BagRemove(keys, P)
     /\ result' = "Removed"

NextRing ==
  \/ \E s \in BoundedSeq(Key, MaxRing) : NewRing(s)
  \/ \E s \in BoundedSeq(Key \cup {Malformed}, MaxRing) : FromCompressed(s)
  \/ RoundTrip
  \/ DecompressRing
  \/ \E P \in Key : AddPublicKey(P) \/ RemovePublicKey(P)

-----------------------------------------------------------------------------
(* PreparedRing: the hash of a ring and the points its members are hashed  *)
(* to.                                                                     *)
Prepare(H, r) ==
  [ring_hash |-> CanonicalHash(H, r),
   hashed_points |-> [i \in 1 .. Len(r.points) |-> HashToPoint(r.points[i])]]

(* PreparedRing::is_valid_for and verify: the hash only, or the points too.*)
IsValidFor(H, d, r) == d.ring_hash = CanonicalHash(H, r)
VerifyPrepared(H, d, r) ==
  /\ IsValidFor(H, d, r)
  /\ Len(d.hashed_points) = RingLen(r)
  /\ d.hashed_points = Prepare(H, r).hashed_points

-----------------------------------------------------------------------------
TypeOKRing ==
  /\ ring.compressed \in Seq(Compressed)
  /\ IsDecompressed(ring) =>
       ring.points \in Seq(Point) /\ Len(ring.points) = RingLen(ring)
  /\ IsABag(keys)

(* Through any history of operations the members are the ones put in and   *)
(* not removed, with their multiplicities, sorted by their bytes, and the  *)
(* two lists of a Full ring agree (ring.rs:217-230): binary search,        *)
(* signing by index and the hash of the ring all rely on it.               *)
RingHoldsKeys ==
  /\ IsSorted(ring.compressed, Before)
  /\ ToBag(ring.compressed) = keys
  /\ IsDecompressed(ring) => ring.points = ring.compressed
=============================================================================
