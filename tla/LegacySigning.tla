--------------------------- MODULE LegacySigning ---------------------------
(***************************************************************************)
(* SAG, MLSAG and CLSAG (src/sag.rs, src/mlsag.rs, src/clsag.rs).  The     *)
(* three sign by one loop, which feeds the hash of each ring index in turn *)
(* and ends at the index before the signer's.  Each turn is a step here.   *)
(*                                                                         *)
(* What differs is what a member contributes: a row of keys is one key in  *)
(* SAG, is signed key by key in MLSAG, and is aggregated into one key in   *)
(* CLSAG.  A response, or a nonce, is the sequence of its scalars, of      *)
(* length one but in MLSAG.                                                *)
(***************************************************************************)
EXTENDS Curve, Integers, SequencesExt

CONSTANTS
  HashToScalar(_, _),    \* of a prefix and the points absorbed after it
  Coefficient(_, _, _),  \* CLSAG: of a column, the ring and the key images
  Schemes,               \* those of a run, among "SAG", "MLSAG", "CLSAG"
  Nil,
  MaxDecoys,             \* bound: decoys a caller brings
  MaxKeys,               \* bound: keys in a row
  Key,                   \* bound: the points in decoys' rows
  SecretKeys,            \* bound: the secret keys callers sign with
  Message,
  Draws(_)               \* bound: what the RNG returns for responses of a width: the
                         \* nonce and a response for each member

VARIABLES
  pc,
  scheme, ks, decoys, secret_index, message,  \* the arguments
  ring, key_images, a, rs, cs, hashes, i,     \* locals; hashes without the prefix
  signature                                   \* the value returned

arguments == <<scheme, ks, decoys, secret_index, message>>
vars == <<pc, arguments, ring, key_images, a, rs, cs, hashes, i, signature>>

-----------------------------------------------------------------------------
(* What callers may bring.                                                 *)
ASSUME LegacyConstants ==
  /\ Schemes \subseteq {"SAG", "MLSAG", "CLSAG"}
  /\ MaxDecoys \in Nat /\ MaxKeys \in Nat \ {0}
  /\ Key \subseteq Point /\ SecretKeys \subseteq Scalar
  /\ \A w \in 1 .. MaxKeys :
       Draws(w) \subseteq [nonce : [1 .. w -> Scalar],
                          responses : [1 .. MaxDecoys + 1 -> [1 .. w -> Scalar]]]

(* The hashes are scalars, over the rings with a decoy that calls make.    *)
Rings ==
  LET RingKey == Key \cup {PublicKey(k) : k \in SecretKeys}
  IN  UNION {[0 .. l -> [1 .. w -> RingKey]] : l \in 1 .. MaxDecoys, w \in 1 .. MaxKeys}
ASSUME HashTypes ==
  /\ \A r \in Rings, m \in Message, points \in [1 .. 1 -> Point] \cup [1 .. 2 -> Point] :
       HashToScalar([ring |-> r, message |-> m], points) \in Scalar
  /\ \A m \in Message, points \in UNION {[1 .. 2 * w -> Point] : w \in 1 .. MaxKeys} :
       HashToScalar([ring |-> <<>>, message |-> m], points) \in Scalar
  /\ \A r \in Rings, images \in UNION {[1 .. w -> Point] : w \in 1 .. MaxKeys} :
       \A j \in DOMAIN images : Coefficient(j, r, images) \in Scalar

(* Addition undoes subtraction, and zero times any point is the identity.  *)
ASSUME Addition ==
  /\ \A x, y \in Scalar : SSub(SSub(x, SSub(Zero, y)), y) = x
  /\ \A P \in Point : PMul(Zero, P) = PMul(Zero, G)

(* No two keys of callers have one image.                                  *)
ASSUME KeyImagesDiffer ==
  \A x, y \in SecretKeys : KeyImage(x) = KeyImage(y) => x = y

-----------------------------------------------------------------------------
Map(f(_), s) == [j \in 1 .. Len(s) |-> f(s[j])]

-----------------------------------------------------------------------------
(* generate_key_image                                                      *)
KeyImages(sch, keys) ==
  CASE sch = "SAG" -> <<>>
    [] sch = "MLSAG" -> Map(KeyImage, keys)
    [] sch = "CLSAG" ->
         LET base == HashToPoint(PublicKey(keys[1]))
         IN  Map(LAMBDA k : PMul(k, base), keys)

(* CLSAG's sums over the columns, weighted: of keys or images, of secrets. *)
SumPoints(s) ==
  LET sum[j \in 0 .. Len(s)] == IF j = 0 THEN PMul(Zero, G) ELSE PAdd(sum[j - 1], s[j])
  IN  sum[Len(s)]
SumScalars(s) ==
  LET sum[j \in 0 .. Len(s)] == IF j = 0 THEN Zero ELSE SSub(sum[j - 1], SSub(Zero, s[j]))
  IN  sum[Len(s)]
AggregatePoint(r, images, s) ==
  SumPoints([j \in 1 .. Len(s) |-> PMul(Coefficient(j, r, images), s[j])])
AggregateScalar(r, images, s) ==
  SumScalars([j \in 1 .. Len(s) |-> SMul(Coefficient(j, r, images), s[j])])

(* The columns that are signed: the keys of row j, the points they are     *)
(* hashed to, their images, and the signer's secrets.                      *)
SignedKeys(sch, r, images, j) ==
  IF sch = "CLSAG" THEN <<AggregatePoint(r, images, r[j])>> ELSE r[j]
SignedBases(sch, r, j) ==
  IF sch = "CLSAG" THEN <<HashToPoint(r[j][1])>> ELSE Map(HashToPoint, r[j])
SignedImages(sch, r, images) ==
  IF sch = "CLSAG" THEN <<AggregatePoint(r, images, images)>> ELSE images
Secrets(sch, r, images, keys) ==
  IF sch = "CLSAG" THEN <<AggregateScalar(r, images, keys)>> ELSE keys

(* The points absorbed for one member, column by column: L, and R where    *)
(* there is a key image.                                                   *)
Absorbed(sch, L, R) ==
  IF sch = "SAG" THEN L
  ELSE [h \in 1 .. 2 * Len(L) |-> IF h % 2 = 1 THEN L[(h + 1) \div 2] ELSE R[h \div 2]]

Contribution(sch, r, images, j, s, c) ==
  LET keys == SignedKeys(sch, r, images, j)
      base == SignedBases(sch, r, j)
      imgs == SignedImages(sch, r, images)
  IN  Absorbed(sch, [h \in 1 .. Len(keys) |-> PAdd(PMul(s[h], G), PMul(c, keys[h]))],
                    [h \in 1 .. Len(imgs) |-> PAdd(PMul(s[h], base[h]), PMul(c, imgs[h]))])

Commitment(sch, r, j, nonce) ==
  LET base == SignedBases(sch, r, j)
  IN  Absorbed(sch, Map(LAMBDA x : PMul(x, G), nonce),
                    [h \in 1 .. Len(nonce) |-> PMul(nonce[h], base[h])])

(* What the hashes start from: MLSAG does not absorb the ring.             *)
Prefix(sch, r, m) == [ring |-> IF sch = "MLSAG" THEN <<>> ELSE r, message |-> m]

(* take(nc): the first columns of every row.                               *)
Cut(r, nc) == [j \in DOMAIN r |-> SubSeq(r[j], 1, nc)]

(* verify takes the number of columns from the first row.  It indexes out  *)
(* of range when that row is longer than another or than the responses.    *)
Columns(sig) == Len(sig.ring[0])
VerifyPanics(sch, sig) ==
  \E j \in DOMAIN sig.ring :
    \/ Len(sig.ring[j]) < Columns(sig)
    \/ sch = "MLSAG" /\ Len(sig.responses[j]) < Columns(sig)

Verify(sch, sig, m) ==
  LET len == Cardinality(DOMAIN sig.ring)
      rows == Cut(sig.ring, Columns(sig))
      images == IF sch = "SAG" THEN <<>> ELSE SubSeq(sig.key_images, 1, Columns(sig))
      c[j \in 0 .. len] ==
        IF j = 0 THEN sig.challenge
        ELSE HashToScalar(Prefix(sch, rows, m),
                          Contribution(sch, rows, images, j - 1, sig.responses[j - 1], c[j - 1]))
  IN  c[len] = sig.challenge

(* link: for MLSAG any two that are equal among the images of both, for    *)
(* CLSAG the first ones; mutation: MLSAG compares those too.               *)
FirstImages(sch, images1, images2) == images1[1] = images2[1]
Links(sch, images1, images2) ==
  IF sch = "MLSAG"
  THEN LET all == images1 \o images2
       IN  \E h, j \in 1 .. Len(all) : h < j /\ all[h] = all[j]
  ELSE images1[1] = images2[1]

-----------------------------------------------------------------------------
n == Len(decoys) + 1
nc == IF scheme = "SAG" THEN 1 ELSE Len(decoys[1])

(* The arguments of a call: decoys' rows of one width; keys for fewer, as  *)
(* many or more columns.                                                   *)
Init ==
  /\ pc = "insert"
  /\ scheme \in Schemes
  /\ \E width \in IF scheme = "SAG" THEN {1} ELSE 1 .. MaxKeys :
       /\ decoys \in BoundedSeq([1 .. width -> Key], MaxDecoys)
       /\ ks \in UNION {[1 .. w -> SecretKeys] :
                       w \in 1 .. IF scheme = "SAG" THEN 1 ELSE width + 1}
  /\ secret_index \in 0 .. MaxDecoys
  /\ message \in Message
  /\ ring = Nil /\ key_images = Nil /\ a = Nil /\ rs = Nil /\ cs = Nil /\ hashes = Nil
  /\ i = Nil /\ signature = Nil

(* The index expressions that are out of range: the first row of no decoys,*)
(* the place to insert at, a key for each column.                          *)
Panics ==
  \/ scheme # "SAG" /\ decoys = <<>>
  \/ secret_index > Len(decoys)
  \/ decoys # <<>> /\ Len(ks) < Len(decoys[1])

Insert ==
  /\ pc = "insert"
  /\ \/ Panics /\ pc' = "panic" /\ UNCHANGED <<ring, key_images, a, rs, cs, hashes, i>>
     \/ /\ ~Panics
        /\ LET rows == InsertAt(decoys, secret_index + 1, Map(PublicKey, ks))
               width == IF scheme = "MLSAG" THEN nc ELSE 1
           IN  /\ ring' = [j \in 0 .. n - 1 |-> rows[j + 1]]
               /\ \E draw \in Draws(width) :
                    /\ a' = draw.nonce
                    /\ rs' = [j \in 0 .. n - 1 |-> draw.responses[j + 1]]
        /\ key_images' = KeyImages(scheme, ks)
        /\ cs' = [j \in 0 .. n - 1 |-> Zero]
        /\ hashes' = [j \in 0 .. n - 1 |-> <<>>]
        /\ i' = (secret_index + 1) % n
        /\ pc' = "commit"
  /\ UNCHANGED <<arguments, signature>>

(* What the columns hold.                                                  *)
SigningRows == Cut(ring, nc)
SigningImages == IF scheme = "SAG" THEN <<>> ELSE SubSeq(key_images, 1, nc)

(* Feed the hash at index j and compute the challenge there.               *)
Feed(j, points) ==
  /\ hashes' = [hashes EXCEPT ![j] = @ \o points]
  /\ cs' = [cs EXCEPT ![j] = HashToScalar(Prefix(scheme, SigningRows, message), hashes'[j])]

(* The nonce's points, at the index after the signer's.                    *)
Commit ==
  /\ pc = "commit"
  /\ Feed(i, Commitment(scheme, SigningRows, secret_index, a))
  /\ pc' = "turn"
  /\ UNCHANGED <<arguments, ring, key_images, a, rs, i, signature>>

(* The loop ends at the index before the signer's; mutation: the case of   *)
(* the signer at index 0 is forgotten.                                     *)
LastTurnUnlessFirst == secret_index >= 1 /\ i = secret_index - 1
LastTurn ==
  \/ secret_index >= 1 /\ i = secret_index - 1
  \/ secret_index = 0 /\ i = n - 1

Turn ==
  /\ pc = "turn"
  /\ Feed((i + 1) % n, Contribution(scheme, SigningRows, SigningImages, i, rs[i], cs[i]))
  /\ \/ LastTurn /\ pc' = "close" /\ UNCHANGED i
     \/ ~LastTurn /\ i' = (i + 1) % n /\ UNCHANGED pc
  /\ UNCHANGED <<arguments, ring, key_images, a, rs, signature>>

(* The signer's response; the challenge returned is that of index 0;       *)
(* mutation: that of the signer.                                           *)
SignersChallenge == cs[secret_index]
FirstChallenge == cs[0]

Close ==
  /\ pc = "close"
  /\ LET secrets == Secrets(scheme, SigningRows, SigningImages, SubSeq(ks, 1, nc))
     IN  rs' = [rs EXCEPT ![secret_index] =
                  [h \in 1 .. Len(a) |-> SSub(a[h], SMul(cs[secret_index], secrets[h]))]]
  /\ signature' = [challenge |-> FirstChallenge, responses |-> rs', ring |-> ring,
                   key_images |-> key_images]
  /\ pc' = "done"
  /\ UNCHANGED <<arguments, ring, key_images, a, cs, hashes, i>>

Next == Insert \/ Commit \/ Turn \/ Close

Spec == Init /\ [][Next]_vars

-----------------------------------------------------------------------------
(* The points fed to a hash in one go.                                     *)
OneFeed == IF scheme = "SAG" THEN 1 ELSE 2 * Len(a)

(* The turns before the hash at j is fed, and those fed so far.            *)
Turns(j) == (j - secret_index - 1 + n) % n
Fed == CASE pc = "commit" -> 0
         [] pc = "turn" -> Turns(i) + 1
         [] OTHER -> n

(* With a decoy each hash is fed once, the one after the signer's first    *)
(* and the signer's own last: the loop ends, in time, wherever the signer  *)
(* is (sag.rs:63-81, mlsag.rs:127-163, clsag.rs:178-218).                  *)
FedOnce ==
  n > 1 /\ hashes # Nil =>
    \A j \in 0 .. n - 1 : Len(hashes[j]) = IF Turns(j) < Fed THEN OneFeed ELSE 0

(* With a decoy the signature verifies, for every scheme, position of the  *)
(* signer and width of the rows, with repeated keys too; without one the   *)
(* hash of the only member is fed twice (sag.rs:63-81).  The exception:  *)
(* a signer in the first row who brings a key too many makes that row the  *)
(* longest, and verify panics on its own signature (mlsag.rs:203,          *)
(* clsag.rs:257).                                                          *)
SurplusInFirstRow == secret_index = 0 /\ Len(ks) > nc
LegacyVerifies ==
  n > 1 /\ signature # Nil =>
    IF VerifyPanics(scheme, signature) THEN SurplusInFirstRow
    ELSE ~SurplusInFirstRow /\ Verify(scheme, signature, message)

(* The images of another signature under the same scheme.                  *)
OtherKeys == UNION {[1 .. w -> SecretKeys] : w \in 1 .. MaxKeys}
Repeats(keys) == \E h, j \in 1 .. Len(keys) : h < j /\ keys[h] = keys[j]
ShareKey(keys1, keys2) == \E h \in 1 .. Len(keys1), j \in 1 .. Len(keys2) : keys1[h] = keys2[j]

(* Two signatures are linked exactly when they have a key in common, in    *)
(* CLSAG the first, provided that neither uses one of its keys twice       *)
(* (mlsag.rs:242-262, clsag.rs:345-350).                                   *)
LinkedByKey ==
  scheme # "SAG" /\ signature # Nil =>
    \A keys \in OtherKeys :
      ~Repeats(ks) /\ ~Repeats(keys) =>
        (Links(scheme, signature.key_images, KeyImages(scheme, keys))
           <=> IF scheme = "MLSAG" THEN ShareKey(ks, keys) ELSE ks[1] = keys[1])

(* The documentation (mlsag.rs:243): two signatures are linked when they   *)
(* are signed by the same person, here whatever their keys.                *)
LinkedOnlyByKey ==
  scheme = "MLSAG" /\ signature # Nil =>
    \A keys \in OtherKeys :
      Links(scheme, signature.key_images, KeyImages(scheme, keys)) => ShareKey(ks, keys)
=============================================================================
