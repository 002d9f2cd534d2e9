-------------------------- MODULE MCLegacySigning --------------------------
(* LegacySigning over the small group, with up to two decoys and two keys  *)
(* in a row.                                                               *)
EXTENDS LegacySigning, MCCurve

MCMix(s, seed) == FoldLeft(LAMBDA acc, x : (3 * acc + x * x + 2 * x + 1) % Q, seed, s)

MCRows(r) == IF r = <<>> THEN <<>> ELSE FlattenSeq([j \in 1 .. Cardinality(DOMAIN r) |-> r[j - 1]])

MCHashToScalar(prefix, points) == MCMix(points, MCMix(MCRows(prefix.ring), prefix.message))

MCCoefficient(j, r, images) == MCMix(MCRows(r) \o images, j)

MCDraws(width) ==
  {[nonce |-> [h \in 1 .. width |-> h + 1],
    responses |-> [j \in 1 .. MaxDecoys + 1 |-> [h \in 1 .. width |-> (2 * j + h) % Q]]],
   [nonce |-> [h \in 1 .. width |-> 3 * h % Q],
    responses |-> [j \in 1 .. MaxDecoys + 1 |-> [h \in 1 .. width |-> (j * j + h + 1) % Q]]]}
=============================================================================
