-------------------------- MODULE MCVerifyStreaming --------------------------
(* VerifyStreaming over the small group, with rings of up to three.        *)
EXTENDS VerifyStreaming, MCCurve

MCBytes(c) == IF c = Malformed THEN 3 ELSE 2 * c
=============================================================================
