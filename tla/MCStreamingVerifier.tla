------------------------- MODULE MCStreamingVerifier -------------------------
(* StreamingVerifier over the small group, with rings of up to three.      *)
EXTENDS StreamingVerifier, MCCurve
=============================================================================
