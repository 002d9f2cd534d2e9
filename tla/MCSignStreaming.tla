--------------------------- MODULE MCSignStreaming ---------------------------
(* SignStreaming over the small group, with rings of up to three.  The     *)
(* malformed encoding sorts between the points 1 and 2.                    *)
EXTENDS SignStreaming, MCCurve

MCBytes(c) == IF c = Malformed THEN 3 ELSE 2 * c

MCRingHashes == {AnnouncedHash(r) : r \in SortedRings}
=============================================================================
