------------------------ MODULE LegacySigningProofs ------------------------
(***************************************************************************)
(* SAG, MLSAG and CLSAG, for any number of decoys and of keys in a row:    *)
(* the loop feeds each hash once, the signature made verifies, and it      *)
(* links by the keys it is made with.                                      *)
(***************************************************************************)
EXTENDS LegacySigning, SequenceTheorems, FiniteSetTheorems, TLAPS

(* What BlsagProofs has on walks and indices and on the closing response   *)
(* serves the older schemes too.                                           *)
B == INSTANCE BlsagProofs

(* A row of keys, or of scalars, and its first columns.                    *)
LEMMA RowIs ==
  ASSUME NEW S, NEW w \in Nat, NEW s \in [1 .. w -> S]
  PROVE  /\ s \in Seq(S) /\ Len(s) = w
         /\ \A m \in 0 .. w : SubSeq(s, 1, m) = [h \in 1 .. m |-> s[h]]
  <1>1. s \in Seq(S)
    BY SeqDef
  <1>2. Len(s) = w
    BY <1>1, LenProperties
  <1>3. ASSUME NEW m \in 0 .. w PROVE SubSeq(s, 1, m) = [h \in 1 .. m |-> s[h]]
    BY <1>1, <1>2
  <1> QED BY <1>1, <1>2, <1>3

-----------------------------------------------------------------------------
(* CLSAG's sums, column by column.                                         *)
PointSum(sum, s, w) ==
  /\ sum \in [0 .. w -> Point]
  /\ sum[0] = PMul(Zero, G)
  /\ \A j \in 1 .. w : sum[j] = PAdd(sum[j - 1], s[j])
ScalarSum(sum, s, w) ==
  /\ sum \in [0 .. w -> Scalar]
  /\ sum[0] = Zero
  /\ \A j \in 1 .. w : sum[j] = SSub(sum[j - 1], SSub(Zero, s[j]))

(* The recursion that adds up points has a solution.                       *)
LEMMA SumPointsIs ==
  ASSUME NEW w \in Nat, NEW s \in [1 .. w -> Point]
  PROVE  \E sum : PointSum(sum, s, w) /\ SumPoints(s) = sum[w]
  <1> DEFINE body(f) == [j \in 0 .. Len(s) |-> IF j = 0 THEN PMul(Zero, G)
                                           ELSE PAdd(f[j - 1], s[j])]
             sum == CHOOSE f : f = body(f)
             F == [j \in 0 .. w - 1 |-> [P \in Point |-> PAdd(P, s[j + 1])]]
  <1>0. Len(s) = w
    BY RowIs
  <1>1. SumPoints(s) = sum[Len(s)]
    BY <1>0, Zenon DEF SumPoints
  <1>2. PMul(Zero, G) \in Point /\ F \in [0 .. w - 1 -> [Point -> Point]]
    BY CurveTypes
  <1>3. PICK g \in [0 .. w -> Point] : B!Walks(g, w, PMul(Zero, G), F)
    BY <1>2, B!WalkExists, CurveTypes, Distributivity, Associativity
  <1>4. ASSUME NEW j \in 1 .. w PROVE g[j] = PAdd(g[j - 1], s[j])
    <2>1. j - 1 \in 0 .. w - 1 /\ (j - 1) + 1 = j /\ g[j - 1] \in Point
      OBVIOUS
    <2>2. F[j - 1][g[j - 1]] = PAdd(g[j - 1], s[(j - 1) + 1])
      BY <2>1
    <2> HIDE DEF F
    <2>3. g[(j - 1) + 1] = F[j - 1][g[j - 1]]
      BY <1>3, <2>1 DEF B!Walks
    <2> QED BY <2>1, <2>2, <2>3
  <1> HIDE DEF F, sum
  <1>5. g = body(g)
    <2>1. ASSUME NEW j \in 0 .. w PROVE g[j] = body(g)[j]
      <3>1. CASE j = 0
        BY <1>0, <1>3, <3>1 DEF B!Walks
      <3>2. CASE j # 0
        BY <1>0, <1>4, <3>2
      <3> QED BY <3>1, <3>2
    <2> QED BY <1>0, <2>1
  <1>6. sum = body(sum)
    <2> HIDE DEF body
    <2> QED BY <1>5, Zenon DEF sum
  <1>7. sum[0] = PMul(Zero, G)
    BY <1>0, <1>6
  <1>8. ASSUME NEW j \in 1 .. w PROVE sum[j] = PAdd(sum[j - 1], s[j])
    BY <1>0, <1>6
  <1>9. \A j \in 0 .. w : sum[j] \in Point
    <2> DEFINE S == {k \in Nat : k <= w => sum[k] \in Point}
    <2>1. 0 \in S
      BY <1>2, <1>7
    <2>2. ASSUME NEW k \in Nat, k \in S PROVE k + 1 \in S
      <3> SUFFICES ASSUME k + 1 <= w PROVE sum[k + 1] \in Point
        OBVIOUS
      <3>1. sum[k] \in Point /\ k + 1 \in 1 .. w /\ (k + 1) - 1 = k
        BY <2>2
      <3>2. sum[k + 1] = PAdd(sum[k], s[k + 1])
        BY <1>8, <3>1
      <3> QED BY <3>1, <3>2, CurveTypes
    <2> HIDE DEF S
    <2>3. Nat \subseteq S
      BY <2>1, <2>2, B!SetInduction, CurveTypes, Distributivity, Associativity
    <2> QED BY <2>3 DEF S
  <1>10. sum \in [0 .. w -> Point]
    <2>1. sum = [j \in 0 .. w |-> sum[j]]
      BY <1>0, <1>6
    <2> QED BY <1>9, <2>1
  <1> QED BY <1>0, <1>1, <1>7, <1>8, <1>10 DEF PointSum

(* The recursion that adds up scalars has a solution.                      *)
LEMMA SumScalarsIs ==
  ASSUME NEW w \in Nat, NEW s \in [1 .. w -> Scalar]
  PROVE  \E sum : ScalarSum(sum, s, w) /\ SumScalars(s) = sum[w]
  <1> DEFINE body(f) == [j \in 0 .. Len(s) |-> IF j = 0 THEN Zero
                                           ELSE SSub(f[j - 1], SSub(Zero, s[j]))]
             sum == CHOOSE f : f = body(f)
             F == [j \in 0 .. w - 1 |-> [x \in Scalar |-> SSub(x, SSub(Zero, s[j + 1]))]]
  <1>0. Len(s) = w
    BY RowIs
  <1>1. SumScalars(s) = sum[Len(s)]
    BY <1>0, Zenon DEF SumScalars
  <1>2. Zero \in Scalar /\ F \in [0 .. w - 1 -> [Scalar -> Scalar]]
    BY CurveTypes
  <1>3. PICK g \in [0 .. w -> Scalar] : B!Walks(g, w, Zero, F)
    BY <1>2, B!WalkExists, CurveTypes, Distributivity, Associativity
  <1>4. ASSUME NEW j \in 1 .. w PROVE g[j] = SSub(g[j - 1], SSub(Zero, s[j]))
    <2>1. j - 1 \in 0 .. w - 1 /\ (j - 1) + 1 = j /\ g[j - 1] \in Scalar
      OBVIOUS
    <2>2. F[j - 1][g[j - 1]] = SSub(g[j - 1], SSub(Zero, s[(j - 1) + 1]))
      BY <2>1
    <2> HIDE DEF F
    <2>3. g[(j - 1) + 1] = F[j - 1][g[j - 1]]
      BY <1>3, <2>1 DEF B!Walks
    <2> QED BY <2>1, <2>2, <2>3
  <1> HIDE DEF F, sum
  <1>5. g = body(g)
    <2>1. ASSUME NEW j \in 0 .. w PROVE g[j] = body(g)[j]
      <3>1. CASE j = 0
        BY <1>0, <1>3, <3>1 DEF B!Walks
      <3>2. CASE j # 0
        BY <1>0, <1>4, <3>2
      <3> QED BY <3>1, <3>2
    <2> QED BY <1>0, <2>1
  <1>6. sum = body(sum)
    <2> HIDE DEF body
    <2> QED BY <1>5, Zenon DEF sum
  <1>7. sum[0] = Zero
    BY <1>0, <1>6
  <1>8. ASSUME NEW j \in 1 .. w PROVE sum[j] = SSub(sum[j - 1], SSub(Zero, s[j]))
    BY <1>0, <1>6
  <1>9. \A j \in 0 .. w : sum[j] \in Scalar
    <2> DEFINE S == {k \in Nat : k <= w => sum[k] \in Scalar}
    <2>1. 0 \in S
      BY <1>2, <1>7
    <2>2. ASSUME NEW k \in Nat, k \in S PROVE k + 1 \in S
      <3> SUFFICES ASSUME k + 1 <= w PROVE sum[k + 1] \in Scalar
        OBVIOUS
      <3>1. sum[k] \in Scalar /\ k + 1 \in 1 .. w /\ (k + 1) - 1 = k
        BY <2>2
      <3>2. sum[k + 1] = SSub(sum[k], SSub(Zero, s[k + 1]))
        BY <1>8, <3>1
      <3> QED BY <3>1, <3>2, CurveTypes
    <2> HIDE DEF S
    <2>3. Nat \subseteq S
      BY <2>1, <2>2, B!SetInduction, CurveTypes, Distributivity, Associativity
    <2> QED BY <2>3 DEF S
  <1>10. sum \in [0 .. w -> Scalar]
    <2>1. sum = [j \in 0 .. w |-> sum[j]]
      BY <1>0, <1>6
    <2> QED BY <1>9, <2>1
  <1> QED BY <1>0, <1>1, <1>7, <1>8, <1>10 DEF ScalarSum

(* The sum of multiples of a point is the multiple by the sum.             *)
LEMMA SumLaw ==
  ASSUME NEW w \in Nat, NEW x \in [1 .. w -> Scalar], NEW P \in Point
  PROVE  /\ SumScalars(x) \in Scalar
         /\ SumPoints([j \in 1 .. w |-> PMul(x[j], P)]) = PMul(SumScalars(x), P)
  <1> DEFINE s == [j \in 1 .. w |-> PMul(x[j], P)]
  <1>1. s \in [1 .. w -> Point]
    BY CurveTypes
  <1>2. PICK y : ScalarSum(y, x, w) /\ SumScalars(x) = y[w]
    BY SumScalarsIs
  <1>3. PICK S : PointSum(S, s, w) /\ SumPoints(s) = S[w]
    <2> HIDE DEF s
    <2> QED BY <1>1, SumPointsIs
  <1>4. ASSUME NEW p \in Scalar, NEW q \in Scalar
        PROVE  PMul(SSub(p, SSub(Zero, q)), P) = PAdd(PMul(p, P), PMul(q, P))
    <2> DEFINE r == SSub(p, SSub(Zero, q))
    <2>1. r \in Scalar
      BY CurveTypes
    <2>2. SSub(r, q) = p
      BY Addition
    <2> HIDE DEF r
    <2>3. PAdd(PMul(SSub(r, q), P), PMul(q, P)) = PMul(r, P)
      BY <2>1, Distributivity
    <2> QED BY <2>2, <2>3 DEF r
  <1> DEFINE T == {k \in Nat : k <= w => S[k] = PMul(y[k], P)}
  <1>5. 0 \in T
    BY <1>2, <1>3, Addition DEF PointSum, ScalarSum
  <1>6. ASSUME NEW k \in Nat, k \in T PROVE k + 1 \in T
    <2> SUFFICES ASSUME k + 1 <= w PROVE S[k + 1] = PMul(y[k + 1], P)
      OBVIOUS
    <2>1. k + 1 \in 1 .. w /\ (k + 1) - 1 = k /\ k \in 0 .. w
      OBVIOUS
    <2>2. S[k] = PMul(y[k], P) /\ y[k] \in Scalar /\ x[k + 1] \in Scalar
      BY <1>2, <1>6, <2>1 DEF ScalarSum
    <2>3. S[k + 1] = PAdd(S[k], s[k + 1])
      BY <1>3, <2>1 DEF PointSum
    <2>4. y[k + 1] = SSub(y[k], SSub(Zero, x[k + 1]))
      BY <1>2, <2>1 DEF ScalarSum
    <2>5. s[k + 1] = PMul(x[k + 1], P)
      BY <2>1
    <2> QED BY <1>4, <2>2, <2>3, <2>4, <2>5
  <1> HIDE DEF T
  <1>7. w \in T
    BY <1>5, <1>6, B!SetInduction, CurveTypes, Distributivity, Associativity
  <1> QED BY <1>2, <1>3, <1>7 DEF T, ScalarSum

-----------------------------------------------------------------------------
(* The scalars a nonce or a response has, for rows of w keys.              *)
Width(sch, w) == IF sch = "MLSAG" THEN w ELSE 1

(* What the signer at index pi holds: rows of w keys, its own row and the  *)
(* images made from its secret keys.                                       *)
Holds(sch, r, images, pi, keys, w) ==
  /\ sch \in {"SAG", "MLSAG", "CLSAG"} /\ w \in Nat \ {0} /\ (sch = "SAG" => w = 1)
  /\ keys \in [1 .. w -> SecretKeys]
  /\ r[pi] = [h \in 1 .. w |-> PublicKey(keys[h])]
  /\ sch = "MLSAG" => images = [h \in 1 .. w |-> KeyImage(keys[h])]
  /\ sch = "CLSAG" =>
       /\ images = [h \in 1 .. w |-> PMul(keys[h], HashToPoint(PublicKey(keys[1])))]
       /\ \A j \in 1 .. w : Coefficient(j, r, images) \in Scalar

LEMMA Single ==
  ASSUME NEW x
  PROVE  Len(<<x>>) = 1 /\ <<x>> = [h \in 1 .. 1 |-> x] /\ <<x>>[1] = x
  OBVIOUS

(* In every column that is signed the signer's key is its secret times the *)
(* basepoint and its image the secret times the point hashed to; in CLSAG  *)
(* the sums over the columns keep this.                                    *)
LEMMA SignerColumns ==
  ASSUME NEW sch, NEW r, NEW images, NEW pi, NEW keys, NEW w,
         Holds(sch, r, images, pi, keys, w)
  PROVE  LET secrets == Secrets(sch, r, images, keys)
             base == SignedBases(sch, r, pi)
             W == Width(sch, w)
         IN  /\ W \in Nat \ {0}
             /\ secrets \in [1 .. W -> Scalar]
             /\ base \in [1 .. W -> Point]
             /\ SignedKeys(sch, r, images, pi) = [h \in 1 .. W |-> PMul(secrets[h], G)]
             /\ sch # "SAG" =>
                  SignedImages(sch, r, images) = [h \in 1 .. W |-> PMul(secrets[h], base[h])]
  <1> USE DEF Holds, Width
  <1>1. \A h \in 1 .. w : keys[h] \in Scalar /\ PublicKey(keys[h]) \in Point
    BY CurveTypes, LegacyConstants DEF PublicKey
  <1>2. Len(r[pi]) = w /\ r[pi] \in [1 .. w -> Point]
    BY <1>1, RowIs
  <1>3. \A h \in 1 .. w : HashToPoint(r[pi][h]) \in Point
    BY <1>2, CurveTypes
  <1>4. CASE sch # "CLSAG"
    <2>1. Secrets(sch, r, images, keys) = keys
      BY <1>4 DEF Secrets
    <2>2. SignedBases(sch, r, pi) = [h \in 1 .. w |-> HashToPoint(r[pi][h])]
      BY <1>2, <1>4 DEF SignedBases, Map
    <2>3. SignedKeys(sch, r, images, pi) = [h \in 1 .. w |-> PMul(keys[h], G)]
      BY <1>4 DEF SignedKeys, PublicKey
    <2>4. Width(sch, w) = w
      BY <1>4
    <2>5. keys \in [1 .. w -> Scalar]
      BY LegacyConstants
    <2>6. SignedBases(sch, r, pi) \in [1 .. w -> Point]
      BY <1>3, <2>2
    <2>7. ASSUME sch # "SAG"
          PROVE  SignedImages(sch, r, images)
                   = [h \in 1 .. w |-> PMul(keys[h], SignedBases(sch, r, pi)[h])]
      <3>1. SignedImages(sch, r, images) = [h \in 1 .. w |-> KeyImage(keys[h])]
        BY <1>4, <2>7 DEF SignedImages
      <3>2. \A h \in 1 .. w : KeyImage(keys[h]) = PMul(keys[h], SignedBases(sch, r, pi)[h])
        BY <2>2 DEF KeyImage
      <3> QED BY <3>1, <3>2
    <2> QED BY <2>1, <2>3, <2>4, <2>5, <2>6, <2>7
  <1>5. CASE sch = "CLSAG"
    <2> DEFINE base == HashToPoint(r[pi][1])
               x == [j \in 1 .. w |-> SMul(Coefficient(j, r, images), keys[j])]
    <2>1. base \in Point
      BY <1>3
    <2>2. x \in [1 .. w -> Scalar]
      BY <1>1, <1>5, CurveTypes
    <2>3. Len(keys) = w
      BY RowIs
    <2>4. Len(images) = w
      <3>1. images \in [1 .. w -> Point]
        BY <1>1, <1>5, CurveTypes
      <3> QED BY <3>1, RowIs
    <2>5. Secrets(sch, r, images, keys) = <<SumScalars(x)>>
      BY <1>5, <2>3 DEF Secrets, AggregateScalar
    <2>6. SignedKeys(sch, r, images, pi) = <<SumPoints([j \in 1 .. w |-> PMul(x[j], G)])>>
      <3>1. ASSUME NEW j \in 1 .. w
            PROVE  PMul(Coefficient(j, r, images), r[pi][j]) = PMul(x[j], G)
        BY <1>1, <1>5, Associativity, CurveTypes DEF PublicKey
      <3>2. SignedKeys(sch, r, images, pi)
              = <<SumPoints([j \in 1 .. w |-> PMul(Coefficient(j, r, images), r[pi][j])])>>
        BY <1>2, <1>5 DEF SignedKeys, AggregatePoint
      <3>3. [j \in 1 .. w |-> PMul(Coefficient(j, r, images), r[pi][j])]
              = [j \in 1 .. w |-> PMul(x[j], G)]
        BY <3>1
      <3> QED BY <3>2, <3>3
    <2>7. SignedImages(sch, r, images) = <<SumPoints([j \in 1 .. w |-> PMul(x[j], base)])>>
      <3>1. ASSUME NEW j \in 1 .. w
            PROVE  PMul(Coefficient(j, r, images), images[j]) = PMul(x[j], base)
        BY <1>1, <1>5, <2>1, Associativity
      <3>2. SignedImages(sch, r, images)
              = <<SumPoints([j \in 1 .. w |-> PMul(Coefficient(j, r, images), images[j])])>>
        BY <1>5, <2>4 DEF SignedImages, AggregatePoint
      <3>3. [j \in 1 .. w |-> PMul(Coefficient(j, r, images), images[j])]
              = [j \in 1 .. w |-> PMul(x[j], base)]
        BY <3>1
      <3> QED BY <3>2, <3>3
    <2>8. SignedBases(sch, r, pi) = <<base>>
      BY <1>5 DEF SignedBases
    <2> HIDE DEF x, base
    <2>9. /\ SumScalars(x) \in Scalar
          /\ SumPoints([j \in 1 .. w |-> PMul(x[j], G)]) = PMul(SumScalars(x), G)
          /\ SumPoints([j \in 1 .. w |-> PMul(x[j], base)]) = PMul(SumScalars(x), base)
      <3>1. w \in Nat /\ G \in Point
        BY CurveTypes
      <3>2. /\ SumScalars(x) \in Scalar
            /\ SumPoints([j \in 1 .. w |-> PMul(x[j], G)]) = PMul(SumScalars(x), G)
        BY <2>2, <3>1, SumLaw
      <3>3. SumPoints([j \in 1 .. w |-> PMul(x[j], base)]) = PMul(SumScalars(x), base)
        BY <2>1, <2>2, <3>1, SumLaw
      <3> QED BY <3>2, <3>3
    <2> QED BY <1>5, <2>1, <2>5, <2>6, <2>7, <2>8, <2>9, Single
  <1> QED BY <1>4, <1>5

(* With the closing response the signer's slot gives the points that its   *)
(* nonce gave.                                                             *)
ClosingFor(sch, r, images, keys, nonce, c) ==
  [h \in 1 .. Len(nonce) |-> SSub(nonce[h], SMul(c, Secrets(sch, r, images, keys)[h]))]

LEMMA SignerCloses ==
  ASSUME NEW sch, NEW r, NEW images, NEW pi, NEW keys, NEW w,
         Holds(sch, r, images, pi, keys, w),
         NEW nonce \in [1 .. Width(sch, w) -> Scalar], NEW c \in Scalar
  PROVE  Contribution(sch, r, images, pi, ClosingFor(sch, r, images, keys, nonce, c), c)
           = Commitment(sch, r, pi, nonce)
  <1> DEFINE W == Width(sch, w)
             k == Secrets(sch, r, images, keys)
             base == SignedBases(sch, r, pi)
             pks == SignedKeys(sch, r, images, pi)
             imgs == SignedImages(sch, r, images)
             s == [h \in 1 .. Len(nonce) |-> SSub(nonce[h], SMul(c, k[h]))]
             L == [h \in 1 .. Len(pks) |-> PAdd(PMul(s[h], G), PMul(c, pks[h]))]
             R == [h \in 1 .. Len(imgs) |-> PAdd(PMul(s[h], base[h]), PMul(c, imgs[h]))]
             A == Map(LAMBDA x : PMul(x, G), nonce)
             Bs == [h \in 1 .. Len(nonce) |-> PMul(nonce[h], base[h])]
  <1>1. /\ W \in Nat /\ k \in [1 .. W -> Scalar] /\ base \in [1 .. W -> Point]
        /\ pks = [h \in 1 .. W |-> PMul(k[h], G)]
        /\ sch # "SAG" => imgs = [h \in 1 .. W |-> PMul(k[h], base[h])]
    BY SignerColumns
  <1>2. Contribution(sch, r, images, pi, s, c) = Absorbed(sch, L, R)
    BY DEF Contribution
  <1>3. Commitment(sch, r, pi, nonce) = Absorbed(sch, A, Bs)
    BY DEF Commitment
  <1>4. Len(nonce) = W
    BY <1>1, RowIs
  <1>5. A = [h \in 1 .. W |-> PMul(nonce[h], G)]
    BY <1>4 DEF Map
  <1> HIDE DEF W, k, base, pks, imgs
  <1>6. Len(pks) = W
    <2>1. pks \in [1 .. W -> Point]
      BY <1>1, CurveTypes
    <2> QED BY <1>1, <2>1, RowIs
  <1>7. ASSUME sch # "SAG" PROVE Len(imgs) = W
    <2>1. imgs \in [1 .. W -> Point]
      BY <1>1, <1>7, CurveTypes
    <2> QED BY <1>1, <2>1, RowIs
  <1>8. ASSUME NEW P \in Point, NEW h \in 1 .. W
        PROVE  PAdd(PMul(s[h], P), PMul(c, PMul(k[h], P))) = PMul(nonce[h], P)
    <2>1. nonce[h] \in Scalar /\ k[h] \in Scalar /\ s[h] = SSub(nonce[h], SMul(c, k[h]))
      BY <1>1, <1>4 DEF W
    <2>2. SMul(c, k[h]) \in Scalar /\ PMul(SMul(c, k[h]), P) = PMul(c, PMul(k[h], P))
      BY <2>1, Associativity, CurveTypes
    <2> HIDE DEF s
    <2> QED BY <2>1, <2>2, Distributivity
  <1> HIDE DEF s
  <1>9. L = A
    BY <1>1, <1>5, <1>6, <1>8, CurveTypes
  <1>10. ASSUME sch # "SAG" PROVE R = Bs
    BY <1>1, <1>4, <1>7, <1>8, <1>10
  <1>11. Absorbed(sch, L, R) = Absorbed(sch, A, Bs)
    <2> HIDE DEF L, R, A, Bs
    <2> QED BY <1>9, <1>10 DEF Absorbed
  <1>12. s = ClosingFor(sch, r, images, keys, nonce, c)
    BY DEF s, k, ClosingFor
  <1> QED BY <1>2, <1>3, <1>11, <1>12

-----------------------------------------------------------------------------
(* What is fed to a hash in one go.                                        *)
FeedLength(sch, w) == IF sch = "SAG" THEN 1 ELSE 2 * Width(sch, w)

LEMMA AbsorbedIs ==
  ASSUME NEW sch, NEW w \in Nat \ {0}, sch = "SAG" => w = 1,
         NEW L \in [1 .. w -> Point], NEW R, sch # "SAG" => R \in [1 .. w -> Point]
  PROVE  Absorbed(sch, L, R) \in [1 .. IF sch = "SAG" THEN 1 ELSE 2 * w -> Point]
  <1>1. Len(L) = w
    BY RowIs
  <1>2. CASE sch = "SAG"
    BY <1>2 DEF Absorbed
  <1>3. CASE sch # "SAG"
    <2>1. ASSUME NEW h \in 1 .. 2 * w
          PROVE  (IF h % 2 = 1 THEN L[(h + 1) \div 2] ELSE R[h \div 2]) \in Point
      <3>1. CASE h % 2 = 1
        <4>1. (h + 1) \div 2 \in 1 .. w
          BY <3>1
        <4> QED BY <3>1, <4>1
      <3>2. CASE h % 2 # 1
        <4>1. h \div 2 \in 1 .. w
          BY <3>2
        <4> QED BY <1>3, <3>2, <4>1
      <3> QED BY <3>1, <3>2
    <2>2. Absorbed(sch, L, R)
            = [h \in 1 .. 2 * w |-> IF h % 2 = 1 THEN L[(h + 1) \div 2] ELSE R[h \div 2]]
      BY <1>1, <1>3 DEF Absorbed
    <2> QED BY <1>3, <2>1, <2>2
  <1> QED BY <1>2, <1>3

LEMMA CommitmentIs ==
  ASSUME NEW sch, NEW r, NEW images, NEW pi, NEW keys, NEW w,
         Holds(sch, r, images, pi, keys, w),
         NEW nonce \in [1 .. Width(sch, w) -> Scalar]
  PROVE  Commitment(sch, r, pi, nonce) \in [1 .. FeedLength(sch, w) -> Point]
  <1> DEFINE W == Width(sch, w)
             base == SignedBases(sch, r, pi)
             A == Map(LAMBDA x : PMul(x, G), nonce)
             Bs == [h \in 1 .. Len(nonce) |-> PMul(nonce[h], base[h])]
  <1>1. W \in Nat \ {0} /\ base \in [1 .. W -> Point]
    BY SignerColumns
  <1>2. sch = "SAG" => W = 1
    BY DEF Width
  <1>3. Len(nonce) = W
    BY <1>1, RowIs
  <1> HIDE DEF base
  <1>4. A \in [1 .. W -> Point]
    BY <1>3, CurveTypes DEF Map
  <1>5. Bs \in [1 .. W -> Point]
    BY <1>1, <1>3, CurveTypes
  <1>6. Commitment(sch, r, pi, nonce) = Absorbed(sch, A, Bs)
    BY DEF Commitment, base
  <1> HIDE DEF A, Bs
  <1> HIDE DEF W
  <1>7. Absorbed(sch, A, Bs) \in [1 .. IF sch = "SAG" THEN 1 ELSE 2 * W -> Point]
    BY <1>1, <1>2, <1>4, <1>5, AbsorbedIs
  <1> QED BY <1>6, <1>7 DEF FeedLength, W

(* The keys that are signed, of any row, and the images are points.        *)
Shaped(sch, r, images, j, w) ==
  /\ sch \in {"SAG", "MLSAG", "CLSAG"} /\ w \in Nat \ {0} /\ (sch = "SAG" => w = 1)
  /\ r[j] \in [1 .. w -> Point]
  /\ sch # "SAG" => images \in [1 .. w -> Point]
  /\ sch = "CLSAG" => \A h \in 1 .. w : Coefficient(h, r, images) \in Scalar

LEMMA ColumnsAre ==
  ASSUME NEW sch, NEW r, NEW images, NEW j, NEW w, Shaped(sch, r, images, j, w)
  PROVE  LET W == Width(sch, w)
         IN  /\ W \in Nat \ {0}
             /\ SignedKeys(sch, r, images, j) \in [1 .. W -> Point]
             /\ SignedBases(sch, r, j) \in [1 .. W -> Point]
             /\ sch # "SAG" => SignedImages(sch, r, images) \in [1 .. W -> Point]
  <1> USE DEF Shaped, Width
  <1>1. Len(r[j]) = w
    BY RowIs
  <1>2. CASE sch # "CLSAG"
    <2>1. SignedBases(sch, r, j) = [h \in 1 .. w |-> HashToPoint(r[j][h])]
      BY <1>1, <1>2 DEF SignedBases, Map
    <2>2. SignedBases(sch, r, j) \in [1 .. w -> Point]
      BY <2>1, CurveTypes
    <2> QED BY <1>2, <2>2 DEF SignedKeys, SignedImages
  <1>3. CASE sch = "CLSAG"
    <2>1. ASSUME NEW s \in [1 .. w -> Point]
          PROVE  AggregatePoint(r, images, s) \in Point
      <3> DEFINE t == [h \in 1 .. w |-> PMul(Coefficient(h, r, images), s[h])]
      <3>1. t \in [1 .. w -> Point]
        BY <1>3, CurveTypes
      <3>2. AggregatePoint(r, images, s) = SumPoints(t)
        <4>1. Len(s) = w
          BY RowIs
        <4> QED BY <4>1 DEF AggregatePoint
      <3> HIDE DEF t
      <3>3. PICK sum : PointSum(sum, t, w) /\ SumPoints(t) = sum[w]
        BY <3>1, SumPointsIs
      <3> QED BY <3>2, <3>3 DEF PointSum
    <2>2. HashToPoint(r[j][1]) \in Point
      BY CurveTypes
    <2>3. SignedKeys(sch, r, images, j) = <<AggregatePoint(r, images, r[j])>>
      BY <1>3 DEF SignedKeys
    <2>4. SignedImages(sch, r, images) = <<AggregatePoint(r, images, images)>>
      BY <1>3 DEF SignedImages
    <2>5. SignedBases(sch, r, j) = <<HashToPoint(r[j][1])>>
      BY <1>3 DEF SignedBases
    <2>6. AggregatePoint(r, images, r[j]) \in Point /\ AggregatePoint(r, images, images) \in Point
      BY <1>3, <2>1
    <2>7. ASSUME NEW x \in Point PROVE <<x>> \in [1 .. 1 -> Point]
      <3>1. [h \in 1 .. 1 |-> x] \in [1 .. 1 -> Point]
        OBVIOUS
      <3>2. <<x>> = [h \in 1 .. 1 |-> x]
        BY Single
      <3> QED BY <3>1, <3>2, Zenon
    <2>8. SignedKeys(sch, r, images, j) \in [1 .. 1 -> Point]
      BY <2>3, <2>6, <2>7, Zenon
    <2>9. SignedImages(sch, r, images) \in [1 .. 1 -> Point]
      BY <2>4, <2>6, <2>7, Zenon
    <2>10. SignedBases(sch, r, j) \in [1 .. 1 -> Point]
      BY <2>2, <2>5, <2>7, Zenon
    <2>11. Width(sch, w) = 1
      BY <1>3
    <2> QED BY <2>8, <2>9, <2>10, <2>11
  <1> QED BY <1>2, <1>3

LEMMA ContributionIs ==
  ASSUME NEW sch, NEW r, NEW images, NEW j, NEW w, Shaped(sch, r, images, j, w),
         NEW s \in [1 .. Width(sch, w) -> Scalar], NEW c \in Scalar
  PROVE  Contribution(sch, r, images, j, s, c) \in [1 .. FeedLength(sch, w) -> Point]
  <1> DEFINE W == Width(sch, w)
             base == SignedBases(sch, r, j)
             pks == SignedKeys(sch, r, images, j)
             imgs == SignedImages(sch, r, images)
             L == [h \in 1 .. Len(pks) |-> PAdd(PMul(s[h], G), PMul(c, pks[h]))]
             R == [h \in 1 .. Len(imgs) |-> PAdd(PMul(s[h], base[h]), PMul(c, imgs[h]))]
  <1>1. /\ W \in Nat \ {0} /\ pks \in [1 .. W -> Point] /\ base \in [1 .. W -> Point]
        /\ sch # "SAG" => imgs \in [1 .. W -> Point]
    BY ColumnsAre
  <1>2. sch = "SAG" => W = 1
    BY DEF Width
  <1>3. Contribution(sch, r, images, j, s, c) = Absorbed(sch, L, R)
    BY DEF Contribution
  <1> HIDE DEF base, pks, imgs
  <1>4. L \in [1 .. W -> Point]
    <2>1. Len(pks) = W
      BY <1>1, RowIs
    <2> QED BY <1>1, <2>1, CurveTypes
  <1>5. ASSUME sch # "SAG" PROVE R \in [1 .. W -> Point]
    <2>1. Len(imgs) = W
      BY <1>1, <1>5, RowIs
    <2> QED BY <1>1, <1>5, <2>1, CurveTypes
  <1> HIDE DEF L, R, W
  <1>6. Absorbed(sch, L, R) \in [1 .. IF sch = "SAG" THEN 1 ELSE 2 * W -> Point]
    BY <1>1, <1>2, <1>4, <1>5, AbsorbedIs
  <1> QED BY <1>3, <1>6 DEF FeedLength, W

-----------------------------------------------------------------------------
(* The inductive invariant.  The arguments of a call:                      *)
Callers ==
  /\ scheme \in Schemes /\ message \in Message /\ secret_index \in Nat
  /\ \E l \in 0 .. MaxDecoys, width \in 1 .. MaxKeys, w \in 1 .. MaxKeys + 1 :
       /\ decoys \in [1 .. l -> [1 .. width -> Key]]
       /\ ks \in [1 .. w -> SecretKeys]
       /\ scheme = "SAG" => w = 1 /\ width = 1

(* What a call that did not panic works with.                              *)
Signing == pc \notin {"insert", "panic"}
Prepared ==
  Signing =>
    /\ ~Panics
    /\ DOMAIN ring = 0 .. n - 1
    /\ ring[secret_index] = Map(PublicKey, ks)
    /\ \A j \in 0 .. n - 1 : j # secret_index => ring[j] \in [1 .. nc -> Key]
    /\ key_images = KeyImages(scheme, ks)
    /\ a \in [1 .. Width(scheme, nc) -> Scalar]
    /\ i \in 0 .. n - 1

(* The points that belong to the hash of index j.                          *)
Before(j) == IF j = 0 THEN n - 1 ELSE j - 1
Points(j) ==
  IF Turns(j) = 0 THEN Commitment(scheme, SigningRows, secret_index, a)
  ELSE Contribution(scheme, SigningRows, SigningImages, Before(j), rs[Before(j)], cs[Before(j)])

(* The hashes fed so far have just those points, the others none.          *)
Chain ==
  n > 1 /\ Signing =>
    /\ DOMAIN hashes = 0 .. n - 1
    /\ rs \in [0 .. n - 1 -> [1 .. Width(scheme, nc) -> Scalar]]
    /\ cs \in [0 .. n - 1 -> Scalar]
    /\ pc = "commit" => i = (secret_index + 1) % n
    /\ pc = "turn" => i # secret_index
    /\ \A j \in 0 .. n - 1 :
         /\ Turns(j) >= Fed => hashes[j] = <<>>
         /\ Turns(j) < Fed =>
              /\ hashes[j] = Points(j)
              /\ cs[j] = HashToScalar(Prefix(scheme, SigningRows, message), Points(j))

(* What is returned, and the closing response in it.                       *)
Closing == ClosingFor(scheme, SigningRows, SigningImages, SubSeq(ks, 1, nc), a, cs[secret_index])
Finished ==
  /\ ~Signing => hashes = Nil
  /\ pc # "done" => signature = Nil
  /\ pc = "done" =>
       /\ signature = [challenge |-> cs[0], responses |-> rs, ring |-> ring,
                       key_images |-> key_images]
       /\ n > 1 => rs[secret_index] = Closing

LegacyInv == Callers /\ Prepared /\ Chain /\ Finished

-----------------------------------------------------------------------------
(* The indices around the ring from the one after the signer's.            *)
LEMMA TurnsIs ==
  ASSUME n \in Nat \ {0}, secret_index \in 0 .. n - 1, NEW j \in 0 .. n - 1
  PROVE  Turns(j) = IF j > secret_index THEN j - secret_index - 1
                    ELSE j - secret_index - 1 + n
  <1> DEFINE x == j - secret_index - 1 + n
  <1>1. x \in 0 .. 2 * n - 1
    OBVIOUS
  <1>2. Turns(j) = x % n
    BY DEF Turns
  <1> HIDE DEF x
  <1>3. x % n = IF x < n THEN x ELSE x - n
    BY <1>1, B!ModOnce, CurveTypes, Distributivity, Associativity
  <1> QED BY <1>2, <1>3 DEF x

LEMMA AfterIs ==
  ASSUME n \in Nat \ {0}, NEW j \in 0 .. n - 1
  PROVE  (j + 1) % n = IF j = n - 1 THEN 0 ELSE j + 1
  <1> DEFINE x == j + 1
  <1>1. x \in 0 .. 2 * n - 1
    OBVIOUS
  <1> HIDE DEF x
  <1>2. x % n = IF x < n THEN x ELSE x - n
    BY <1>1, B!ModOnce, CurveTypes, Distributivity, Associativity
  <1> QED BY <1>2 DEF x

LEMMA Around ==
  ASSUME n \in Nat, n > 1, secret_index \in 0 .. n - 1
  PROVE  /\ \A j \in 0 .. n - 1 :
              /\ Turns(j) \in 0 .. n - 1
              /\ (j + 1) % n \in 0 .. n - 1 /\ (j + 1) % n # j
              /\ Before((j + 1) % n) = j
              /\ Turns(j) = 0 <=> j = (secret_index + 1) % n
              /\ Turns(j) = n - 1 <=> j = secret_index
              /\ j # secret_index => Turns((j + 1) % n) = Turns(j) + 1
              /\ Before(j) \in 0 .. n - 1 /\ Before(j) # j
              /\ Turns(j) # 0 => Before(j) # secret_index /\ Turns(Before(j)) = Turns(j) - 1
         /\ \A j, k \in 0 .. n - 1 : Turns(j) = Turns(k) => j = k
         /\ i \in 0 .. n - 1 /\ i # secret_index => (LastTurn <=> Turns(i) = n - 2)
  <1>1. n \in Nat \ {0}
    OBVIOUS
  <1>2. ASSUME NEW j \in 0 .. n - 1
        PROVE  /\ Turns(j) \in 0 .. n - 1
               /\ (j + 1) % n \in 0 .. n - 1 /\ (j + 1) % n # j
               /\ Before((j + 1) % n) = j
               /\ Turns(j) = 0 <=> j = (secret_index + 1) % n
               /\ Turns(j) = n - 1 <=> j = secret_index
               /\ j # secret_index => Turns((j + 1) % n) = Turns(j) + 1
               /\ Before(j) \in 0 .. n - 1 /\ Before(j) # j
               /\ Turns(j) # 0 => Before(j) # secret_index /\ Turns(Before(j)) = Turns(j) - 1
    <2>1. Turns(j) = IF j > secret_index THEN j - secret_index - 1
                     ELSE j - secret_index - 1 + n
      BY <1>1, TurnsIs
    <2>2. (j + 1) % n = IF j = n - 1 THEN 0 ELSE j + 1
      BY <1>1, AfterIs
    <2>3. (secret_index + 1) % n = IF secret_index = n - 1 THEN 0 ELSE secret_index + 1
      BY <1>1, AfterIs
    <2>4. (j + 1) % n \in 0 .. n - 1 /\ (j + 1) % n # j
      BY <2>2
    <2>5. Before((j + 1) % n) = j
      BY <2>2 DEF Before
    <2>6. Before(j) \in 0 .. n - 1 /\ Before(j) # j
      BY DEF Before
    <2>7. j # secret_index => Turns((j + 1) % n) = Turns(j) + 1
      <3> DEFINE k == (j + 1) % n
      <3>1. Turns(k) = IF k > secret_index THEN k - secret_index - 1
                       ELSE k - secret_index - 1 + n
        BY <1>1, <2>4, TurnsIs
      <3> QED BY <2>1, <2>2, <3>1
    <2>8. Turns(j) # 0 => Before(j) # secret_index /\ Turns(Before(j)) = Turns(j) - 1
      <3> DEFINE k == Before(j)
      <3>1. Turns(k) = IF k > secret_index THEN k - secret_index - 1
                       ELSE k - secret_index - 1 + n
        BY <1>1, <2>6, TurnsIs
      <3> QED BY <2>1, <3>1 DEF Before
    <2> QED BY <2>1, <2>2, <2>3, <2>4, <2>5, <2>6, <2>7, <2>8
  <1>3. ASSUME NEW j \in 0 .. n - 1, NEW k \in 0 .. n - 1, Turns(j) = Turns(k)
        PROVE  j = k
    BY <1>1, <1>3, TurnsIs
  <1>4. ASSUME i \in 0 .. n - 1, i # secret_index
        PROVE  LastTurn <=> Turns(i) = n - 2
    BY <1>1, <1>4, TurnsIs DEF LastTurn
  <1> QED BY <1>2, <1>3, <1>4

-----------------------------------------------------------------------------
(* The shape of what a call with a decoy works with.                       *)
LEMMA Shape ==
  ASSUME Callers, Prepared, Signing, n > 1
  PROVE  /\ n \in Nat /\ n - 1 \in 1 .. MaxDecoys /\ nc \in 1 .. MaxKeys
         /\ secret_index \in 0 .. n - 1
         /\ \E w \in nc .. MaxKeys + 1 : ks \in [1 .. w -> SecretKeys]
         /\ Len(ks) \in Nat /\ Len(ks) >= nc
         /\ scheme = "SAG" => nc = 1 /\ Len(ks) = 1
         /\ scheme \in {"SAG", "MLSAG", "CLSAG"}
  <1>1. PICK l \in 0 .. MaxDecoys, width \in 1 .. MaxKeys, w \in 1 .. MaxKeys + 1 :
          /\ decoys \in [1 .. l -> [1 .. width -> Key]]
          /\ ks \in [1 .. w -> SecretKeys]
          /\ scheme = "SAG" => w = 1 /\ width = 1
    BY DEF Callers
  <1>2. Len(decoys) = l /\ Len(ks) = w
    BY <1>1, LegacyConstants, RowIs
  <1>3. n = l + 1 /\ l \in 1 .. MaxDecoys
    BY <1>2, LegacyConstants DEF n
  <1>4. decoys[1] \in [1 .. width -> Key]
    BY <1>1, <1>3
  <1>5. Len(decoys[1]) = width
    BY <1>4, LegacyConstants, RowIs
  <1>6. nc = width
    BY <1>1, <1>5 DEF nc
  <1>7. decoys # <<>>
    BY <1>2, <1>3
  <1>8. secret_index <= l /\ w >= width /\ secret_index \in Nat
    BY <1>2, <1>5, <1>7 DEF Prepared, Panics, Callers
  <1>9. scheme \in {"SAG", "MLSAG", "CLSAG"}
    BY LegacyConstants DEF Callers
  <1> QED BY <1>1, <1>2, <1>3, <1>6, <1>8, <1>9, LegacyConstants

(* What is signed: the first columns of every row, and of the signer's     *)
(* keys and images.                                                        *)
LEMMA Columned ==
  ASSUME Callers, Prepared, Signing, n > 1
  PROVE  /\ Holds(scheme, SigningRows, SigningImages, secret_index, SubSeq(ks, 1, nc), nc)
         /\ \A j \in 0 .. n - 1 : Shaped(scheme, SigningRows, SigningImages, j, nc)
         /\ SigningRows \in Rings
  <1> DEFINE RingKey == Key \cup {PublicKey(k) : k \in SecretKeys}
             keys == SubSeq(ks, 1, nc)
  <1>1. /\ n \in Nat /\ n - 1 \in 1 .. MaxDecoys /\ nc \in 1 .. MaxKeys
        /\ secret_index \in 0 .. n - 1
        /\ \E w \in nc .. MaxKeys + 1 : ks \in [1 .. w -> SecretKeys]
        /\ scheme = "SAG" => nc = 1
        /\ scheme \in {"SAG", "MLSAG", "CLSAG"}
    BY Shape
  <1>2. PICK w \in nc .. MaxKeys + 1 : ks \in [1 .. w -> SecretKeys]
    BY <1>1
  <1>3. nc \in Nat \ {0} /\ w \in Nat /\ nc \in 0 .. w
    BY <1>1, LegacyConstants
  <1>4. Len(ks) = w /\ keys = [h \in 1 .. nc |-> ks[h]]
    BY <1>2, <1>3, RowIs
  <1>5. keys \in [1 .. nc -> SecretKeys]
    <2>1. [h \in 1 .. nc |-> ks[h]] \in [1 .. nc -> SecretKeys]
      BY <1>2, <1>3
    <2> HIDE DEF keys
    <2> QED BY <1>4, <2>1
  <1>6. SigningRows = [j \in 0 .. n - 1 |-> SubSeq(ring[j], 1, nc)]
    BY DEF SigningRows, Cut, Prepared
  <1>7. SigningRows[secret_index] = [h \in 1 .. nc |-> PublicKey(keys[h])]
    <2>1. ring[secret_index] = [h \in 1 .. w |-> PublicKey(ks[h])]
      BY <1>4 DEF Prepared, Map
    <2>2. ring[secret_index] \in [1 .. w -> {PublicKey(k) : k \in SecretKeys}]
      BY <1>2, <2>1
    <2>3. SubSeq(ring[secret_index], 1, nc) = [h \in 1 .. nc |-> ring[secret_index][h]]
      BY <1>3, <2>2, RowIs
    <2>4. \A h \in 1 .. nc : ring[secret_index][h] = PublicKey(keys[h])
      BY <1>3, <1>4, <2>1
    <2> QED BY <1>1, <1>6, <2>3, <2>4
  <1>8. ASSUME NEW j \in 0 .. n - 1, j # secret_index
        PROVE  SigningRows[j] \in [1 .. nc -> Key]
    <2>1. ring[j] \in [1 .. nc -> Key]
      BY <1>8 DEF Prepared
    <2>2. SubSeq(ring[j], 1, nc) = [h \in 1 .. nc |-> ring[j][h]]
      BY <1>3, <2>1, RowIs
    <2> QED BY <1>6, <2>1, <2>2
  <1>9. ASSUME NEW j \in 0 .. n - 1 PROVE SigningRows[j] \in [1 .. nc -> RingKey]
    <2>1. CASE j = secret_index
      <3>1. \A h \in 1 .. nc : PublicKey(keys[h]) \in RingKey
        BY <1>5
      <3>2. [h \in 1 .. nc |-> PublicKey(keys[h])] \in [1 .. nc -> RingKey]
        BY <3>1
      <3> HIDE DEF keys, RingKey
      <3> QED BY <1>7, <2>1, <3>2
    <2>2. CASE j # secret_index
      <3>1. SigningRows[j] \in [1 .. nc -> Key] /\ Key \subseteq RingKey
        BY <1>8, <2>2
      <3> HIDE DEF RingKey
      <3> QED BY <3>1
    <2> QED BY <2>1, <2>2
  <1>10. RingKey \subseteq Point
    BY LegacyConstants, CurveTypes DEF PublicKey
  <1>11. SigningRows \in [0 .. n - 1 -> [1 .. nc -> RingKey]]
    BY <1>6, <1>9
  <1>12. SigningRows \in Rings
    <2> HIDE DEF RingKey
    <2> DEFINE sets == {[0 .. l -> [1 .. v -> RingKey]] : l \in 1 .. MaxDecoys,
                                                         v \in 1 .. MaxKeys}
    <2>1. [0 .. n - 1 -> [1 .. nc -> RingKey]] \in sets
      BY <1>1
    <2> HIDE DEF sets
    <2>2. SigningRows \in UNION sets
      BY <1>11, <2>1
    <2>3. Rings = UNION sets
      BY DEF Rings, RingKey, sets
    <2> QED BY <2>2, <2>3
  <1>13. ASSUME scheme = "MLSAG"
         PROVE  SigningImages = [h \in 1 .. nc |-> KeyImage(keys[h])]
    <2>1. key_images = [h \in 1 .. w |-> KeyImage(ks[h])]
      BY <1>4, <1>13 DEF Prepared, KeyImages, Map
    <2>2. key_images \in [1 .. w -> {KeyImage(k) : k \in SecretKeys}]
      BY <1>2, <2>1
    <2>3. SubSeq(key_images, 1, nc) = [h \in 1 .. nc |-> key_images[h]]
      BY <1>3, <2>2, RowIs
    <2>4. \A h \in 1 .. nc : key_images[h] = KeyImage(keys[h])
      BY <1>3, <1>4, <2>1
    <2> QED BY <1>13, <2>3, <2>4 DEF SigningImages
  <1>14. ASSUME scheme = "CLSAG"
         PROVE  SigningImages
                  = [h \in 1 .. nc |-> PMul(keys[h], HashToPoint(PublicKey(keys[1])))]
    <2> DEFINE base == HashToPoint(PublicKey(ks[1]))
    <2>1. key_images = [h \in 1 .. w |-> PMul(ks[h], base)]
      BY <1>4, <1>14 DEF Prepared, KeyImages, Map
    <2>2. keys[1] = ks[1]
      BY <1>3, <1>4
    <2> HIDE DEF base
    <2>3. key_images \in [1 .. w -> {PMul(k, base) : k \in SecretKeys}]
      BY <1>2, <2>1
    <2>4. SubSeq(key_images, 1, nc) = [h \in 1 .. nc |-> key_images[h]]
      BY <1>3, <2>3, RowIs
    <2>5. \A h \in 1 .. nc : key_images[h] = PMul(keys[h], base)
      BY <1>3, <1>4, <2>1
    <2> QED BY <1>14, <2>2, <2>4, <2>5 DEF SigningImages, base
  <1>15. \A h \in 1 .. nc : keys[h] \in Scalar /\ PublicKey(keys[h]) \in Point
    BY <1>5, LegacyConstants, CurveTypes DEF PublicKey
  <1>16. ASSUME scheme # "SAG" PROVE SigningImages \in [1 .. nc -> Point]
    <2>1. \A h \in 1 .. nc : KeyImage(keys[h]) \in Point
      BY <1>15, CurveTypes DEF KeyImage
    <2>2. HashToPoint(PublicKey(keys[1])) \in Point
      BY <1>3, <1>15, CurveTypes
    <2>3. \A h \in 1 .. nc : PMul(keys[h], HashToPoint(PublicKey(keys[1]))) \in Point
      BY <1>15, <2>2, CurveTypes
    <2> HIDE DEF keys
    <2> QED BY <1>1, <1>13, <1>14, <1>16, <2>1, <2>3
  <1>17. ASSUME scheme = "CLSAG"
         PROVE  \A j \in 1 .. nc : Coefficient(j, SigningRows, SigningImages) \in Scalar
    <2>1. SigningImages \in [1 .. nc -> Point]
      BY <1>16, <1>17
    <2>2. SigningImages \in UNION {[1 .. v -> Point] : v \in 1 .. MaxKeys}
      BY <1>1, <2>1
    <2>3. DOMAIN SigningImages = 1 .. nc
      BY <2>1
    <2> QED BY <1>12, <2>2, <2>3, HashTypes
  <1> HIDE DEF keys
  <1>18. Holds(scheme, SigningRows, SigningImages, secret_index, keys, nc)
    BY <1>1, <1>3, <1>5, <1>7, <1>13, <1>14, <1>17 DEF Holds
  <1>19. ASSUME NEW j \in 0 .. n - 1
         PROVE  Shaped(scheme, SigningRows, SigningImages, j, nc)
    <2>1. SigningRows[j] \in [1 .. nc -> Point]
      BY <1>9, <1>10
    <2> QED BY <1>1, <1>3, <1>16, <1>17, <2>1 DEF Shaped
  <1> QED BY <1>12, <1>18, <1>19 DEF keys

(* The points of a hash are as many as one feed has, and hash to a scalar. *)
LEMMA PointsAre ==
  ASSUME Callers, Prepared, Signing, n > 1, NEW j \in 0 .. n - 1,
         rs \in [0 .. n - 1 -> [1 .. Width(scheme, nc) -> Scalar]],
         Turns(j) # 0 => cs[Before(j)] \in Scalar
  PROVE  /\ Points(j) \in [1 .. OneFeed -> Point]
         /\ OneFeed \in Nat
         /\ HashToScalar(Prefix(scheme, SigningRows, message), Points(j)) \in Scalar
  <1>1. /\ Holds(scheme, SigningRows, SigningImages, secret_index, SubSeq(ks, 1, nc), nc)
        /\ Before(j) \in 0 .. n - 1
        /\ Shaped(scheme, SigningRows, SigningImages, Before(j), nc)
        /\ SigningRows \in Rings
        /\ nc \in 1 .. MaxKeys /\ nc \in Nat
        /\ scheme \in {"SAG", "MLSAG", "CLSAG"}
    <2>1. n \in Nat /\ secret_index \in 0 .. n - 1 /\ nc \in 1 .. MaxKeys /\ nc \in Nat
      BY Shape, LegacyConstants
    <2>2. Before(j) \in 0 .. n - 1
      BY <2>1, Around
    <2> QED BY <2>1, <2>2, Columned, Shape
  <1>2. a \in [1 .. Width(scheme, nc) -> Scalar] /\ rs[Before(j)] \in [1 .. Width(scheme, nc) -> Scalar]
    BY <1>1 DEF Prepared
  <1>3. Points(j) \in [1 .. FeedLength(scheme, nc) -> Point]
    <2>1. CASE Turns(j) = 0
      BY <1>1, <1>2, <2>1, CommitmentIs DEF Points
    <2>2. CASE Turns(j) # 0
      BY <1>1, <1>2, <2>2, ContributionIs DEF Points
    <2> QED BY <2>1, <2>2
  <1>4. FeedLength(scheme, nc) = OneFeed /\ OneFeed \in Nat
    <2>1. Len(a) = Width(scheme, nc) /\ Width(scheme, nc) \in Nat
      <3>1. Width(scheme, nc) \in Nat
        BY <1>1 DEF Width
      <3> QED BY <1>2, <3>1, RowIs
    <2> QED BY <2>1 DEF FeedLength, OneFeed
  <1>5. HashToScalar(Prefix(scheme, SigningRows, message), Points(j)) \in Scalar
    <2> DEFINE P == Points(j)
    <2> HIDE DEF P
    <2>1. message \in Message
      BY DEF Callers
    <2>2. CASE scheme = "MLSAG"
      <3>1. P \in [1 .. 2 * nc -> Point]
        BY <1>3, <2>2 DEF FeedLength, Width, P
      <3>2. P \in UNION {[1 .. 2 * w -> Point] : w \in 1 .. MaxKeys}
        BY <1>1, <3>1
      <3>3. Prefix(scheme, SigningRows, message) = [ring |-> <<>>, message |-> message]
        BY <2>2 DEF Prefix
      <3> QED BY <2>1, <3>2, <3>3, HashTypes DEF P
    <2>3. CASE scheme # "MLSAG"
      <3>1. P \in [1 .. 1 -> Point] \cup [1 .. 2 -> Point]
        BY <1>1, <1>3, <2>3 DEF FeedLength, Width, P
      <3>2. Prefix(scheme, SigningRows, message) = [ring |-> SigningRows, message |-> message]
        BY <2>3 DEF Prefix
      <3> QED BY <1>1, <2>1, <3>1, <3>2, HashTypes DEF P
    <2> QED BY <2>2, <2>3
  <1> QED BY <1>3, <1>4, <1>5

-----------------------------------------------------------------------------
(* A row inserted among l others.                                          *)
Inserted(t, s, l, p, e) ==
  /\ \A j \in 1 .. p - 1 : t[j] = s[j]
  /\ t[p] = e
  /\ \A j \in p + 1 .. l + 1 : t[j] = s[j - 1]

LEMMA InsertIs ==
  ASSUME NEW S, NEW l \in Nat, NEW s \in [1 .. l -> S], NEW p \in 1 .. l + 1,
         NEW e \in S
  PROVE  Inserted(InsertAt(s, p, e), s, l, p, e)
  <1> DEFINE front == SubSeq(s, 1, p - 1)
             back == SubSeq(s, p, Len(s))
  <1>1. s \in Seq(S) /\ Len(s) = l
    BY RowIs
  <1>3. /\ front \in Seq(S) /\ Len(front) = p - 1
        /\ \A j \in 1 .. p - 1 : front[j] = s[j]
    BY <1>1
  <1>4. /\ back \in Seq(S) /\ Len(back) = l - p + 1
        /\ \A j \in 1 .. l - p + 1 : back[j] = s[j + p - 1]
    BY <1>1
  <1>5. <<e>> \in Seq(S) /\ Len(<<e>>) = 1 /\ <<e>>[1] = e
    OBVIOUS
  <1>6. InsertAt(s, p, e) = front \o <<e>> \o back
    BY DEF InsertAt
  <1> HIDE DEF front, back
  <1>7. /\ front \o <<e>> \in Seq(S) /\ Len(front \o <<e>>) = p
        /\ \A j \in 1 .. p : (front \o <<e>>)[j] = IF j < p THEN s[j] ELSE e
    BY <1>3, <1>5
  <1> DEFINE fe == front \o <<e>>
  <1> HIDE DEF fe
  <1>8. /\ fe \in Seq(S) /\ Len(fe) = p
        /\ \A j \in 1 .. p : fe[j] = IF j < p THEN s[j] ELSE e
    BY <1>7 DEF fe
  <1>9. InsertAt(s, p, e) = fe \o back
    BY <1>6 DEF fe
  <1>10. ASSUME NEW j \in 1 .. p
         PROVE  (fe \o back)[j] = IF j < p THEN s[j] ELSE e
    <2>1. (fe \o back)[j] = fe[j]
      BY <1>4, <1>8
    <2> QED BY <1>8, <2>1
  <1>11. ASSUME NEW j \in p + 1 .. l + 1
         PROVE  (fe \o back)[j] = s[j - 1]
    <2>1. (fe \o back)[j] = back[j - p]
      BY <1>4, <1>8
    <2>2. j - p \in 1 .. l - p + 1 /\ (j - p) + p - 1 = j - 1
      OBVIOUS
    <2>3. back[j - p] = s[(j - p) + p - 1]
      BY <1>4, <2>2
    <2> QED BY <2>1, <2>2, <2>3
  <1> DEFINE t == fe \o back
  <1> HIDE DEF t
  <1>12. \A j \in 1 .. p : t[j] = IF j < p THEN s[j] ELSE e
    BY <1>10 DEF t
  <1>13. \A j \in p + 1 .. l + 1 : t[j] = s[j - 1]
    BY <1>11 DEF t
  <1>14. InsertAt(s, p, e) = t
    BY <1>9 DEF t
  <1>15. Inserted(t, s, l, p, e)
    BY <1>12, <1>13 DEF Inserted
  <1> QED BY <1>14, <1>15

(* What depends on the arguments only.                                     *)
LEMMA ArgumentsOnly ==
  ASSUME UNCHANGED arguments
  PROVE  /\ n' = n /\ nc' = nc /\ Panics' = Panics
         /\ Callers => Callers'
         /\ \A j : Turns(j)' = Turns(j)
  BY DEF arguments, n, nc, Panics, Callers, Turns

LEMMA InitInv ==
  ASSUME Init PROVE LegacyInv
  <1>1. Callers
    <2>1. PICK width \in IF scheme = "SAG" THEN {1} ELSE 1 .. MaxKeys :
            /\ decoys \in BoundedSeq([1 .. width -> Key], MaxDecoys)
            /\ ks \in UNION {[1 .. w -> SecretKeys] :
                            w \in 1 .. IF scheme = "SAG" THEN 1 ELSE width + 1}
      BY DEF Init
    <2>2. PICK l \in 0 .. MaxDecoys : decoys \in [1 .. l -> [1 .. width -> Key]]
      BY <2>1 DEF BoundedSeq, SeqOf
    <2>3. PICK w \in 1 .. IF scheme = "SAG" THEN 1 ELSE width + 1 : ks \in [1 .. w -> SecretKeys]
      BY <2>1
    <2>4. width \in 1 .. MaxKeys /\ w \in 1 .. MaxKeys + 1
          /\ (scheme = "SAG" => w = 1 /\ width = 1)
      BY LegacyConstants
    <2>5. scheme \in Schemes /\ message \in Message /\ secret_index \in Nat
      BY LegacyConstants DEF Init
    <2> QED BY <2>2, <2>3, <2>4, <2>5 DEF Callers
  <1>2. pc = "insert" /\ hashes = Nil /\ signature = Nil
    BY DEF Init
  <1> QED BY <1>1, <1>2 DEF LegacyInv, Prepared, Chain, Finished, Signing

(* A call that does not panic prepares its locals.                         *)
LEMMA InsertStep ==
  ASSUME LegacyInv, Insert PROVE LegacyInv'
  <1> USE DEF LegacyInv
  <1>0. UNCHANGED <<arguments, signature>> /\ pc = "insert"
    BY DEF Insert
  <1>1. /\ n' = n /\ nc' = nc /\ Panics' = Panics /\ Callers'
        /\ \A j : Turns(j)' = Turns(j)
    BY <1>0, ArgumentsOnly
  <1>2. signature' = Nil
    BY <1>0 DEF Finished
  <1>3. CASE Panics /\ pc' = "panic" /\ UNCHANGED <<ring, key_images, a, rs, cs, hashes, i>>
    <2>1. hashes' = Nil /\ ~Signing'
      BY <1>0, <1>3 DEF Finished, Signing
    <2> QED BY <1>1, <1>2, <1>3, <2>1 DEF Prepared, Chain, Finished
  <1>4. CASE ~Panics /\ pc' # "panic"
    <2> DEFINE W == Width(scheme, nc)
               e == Map(PublicKey, ks)
               rows == InsertAt(decoys, secret_index + 1, e)
    <2>1. PICK l \in 0 .. MaxDecoys, width \in 1 .. MaxKeys, w \in 1 .. MaxKeys + 1 :
            /\ decoys \in [1 .. l -> [1 .. width -> Key]]
            /\ ks \in [1 .. w -> SecretKeys]
            /\ scheme = "SAG" => w = 1 /\ width = 1
      BY DEF Callers
    <2>2. l \in Nat /\ n = l + 1 /\ Len(decoys) = l
      <3>1. Len(decoys) = l
        BY <2>1, LegacyConstants, RowIs
      <3> QED BY <3>1, LegacyConstants DEF n
    <2>3. nc = width
      <3>1. CASE scheme = "SAG"
        BY <2>1, <3>1 DEF nc
      <3>2. CASE scheme # "SAG"
        <4>1. l >= 1
          BY <1>4, <2>1, <2>2, <3>2 DEF Panics
        <4>2. decoys[1] \in [1 .. width -> Key]
          BY <2>1, <4>1
        <4>3. Len(decoys[1]) = width
          BY <4>2, LegacyConstants, RowIs
        <4> QED BY <3>2, <4>3 DEF nc
      <3> QED BY <3>1, <3>2
    <2>4. secret_index \in 0 .. n - 1
      BY <1>4, <2>2 DEF Panics, Callers
    <2>5. W \in 1 .. MaxKeys /\ W = IF scheme = "MLSAG" THEN nc ELSE 1
      BY <2>3, LegacyConstants DEF Width
    <2> HIDE DEF W
    <2>6. PICK draw \in Draws(W) :
            /\ a' = draw.nonce
            /\ rs' = [j \in 0 .. n - 1 |-> draw.responses[j + 1]]
      BY <1>0, <1>4, <2>5 DEF Insert
    <2>7. /\ ring' = [j \in 0 .. n - 1 |-> rows[j + 1]]
          /\ key_images' = KeyImages(scheme, ks)
          /\ cs' = [j \in 0 .. n - 1 |-> Zero]
          /\ hashes' = [j \in 0 .. n - 1 |-> <<>>]
          /\ i' = (secret_index + 1) % n
          /\ pc' = "commit"
      BY <1>0, <1>4 DEF Insert
    <2>8. draw \in [nonce : [1 .. W -> Scalar],
                     responses : [1 .. MaxDecoys + 1 -> [1 .. W -> Scalar]]]
      BY <2>5, <2>6, LegacyConstants
    <2>9. a' \in [1 .. W -> Scalar] /\ rs' \in [0 .. n - 1 -> [1 .. W -> Scalar]]
      <3>1. draw.nonce \in [1 .. W -> Scalar]
            /\ draw.responses \in [1 .. MaxDecoys + 1 -> [1 .. W -> Scalar]]
        BY <2>8
      <3>2. \A j \in 0 .. n - 1 : j + 1 \in 1 .. MaxDecoys + 1
        BY <2>2, LegacyConstants
      <3> QED BY <2>6, <3>1, <3>2
    <2>10. /\ \A j \in 1 .. secret_index : rows[j] = decoys[j]
           /\ rows[secret_index + 1] = e
           /\ \A j \in secret_index + 2 .. l + 1 : rows[j] = decoys[j - 1]
      <3> DEFINE p == secret_index + 1
                 S == [1 .. width -> Key] \cup {e}
      <3>1. /\ p \in 1 .. l + 1 /\ p - 1 = secret_index /\ p + 1 = secret_index + 2
            /\ l \in Nat /\ decoys \in [1 .. l -> S] /\ e \in S
        BY <2>1, <2>2, <2>4
      <3> HIDE DEF e, p, S
      <3>2. Inserted(InsertAt(decoys, p, e), decoys, l, p, e)
        BY <3>1, InsertIs
      <3>3. rows = InsertAt(decoys, p, e)
        BY DEF p
      <3> HIDE DEF rows
      <3> QED BY <3>1, <3>2, <3>3 DEF p, Inserted
    <2> HIDE DEF rows, e
    <2>11. ring'[secret_index] = e
      <3>1. secret_index + 1 \in 1 .. l + 1 /\ secret_index + 1 = secret_index + 1
        BY <2>2, <2>4
      <3>2. rows[secret_index + 1] = e
        BY <2>10, <3>1
      <3> QED BY <2>4, <2>7, <3>2
    <2>12. ASSUME NEW j \in 0 .. n - 1, j # secret_index
           PROVE  ring'[j] \in [1 .. nc -> Key]
      <3>1. ring'[j] = rows[j + 1] /\ j + 1 \in 1 .. l + 1
        BY <2>2, <2>7
      <3>3. CASE j < secret_index
        BY <2>1, <2>2, <2>3, <2>4, <2>10, <3>1, <3>3
      <3>4. CASE j > secret_index
        BY <2>1, <2>2, <2>3, <2>4, <2>10, <3>1, <3>4
      <3> QED BY <2>4, <2>12, <3>3, <3>4
    <2>13. i' \in 0 .. n - 1
      BY <2>2, <2>4, <2>7, AfterIs
    <2>14. scheme' = scheme /\ ks' = ks /\ secret_index' = secret_index
      BY <1>0 DEF arguments
    <2>15. Prepared'
      <3>1. DOMAIN ring' = 0 .. n - 1
        BY <2>7
      <3> QED BY <1>1, <1>4, <2>7, <2>9, <2>11, <2>12, <2>13, <2>14, <3>1 DEF Prepared, W, e
    <2>16. Chain'
      <3>0. rs' \in [0 .. n - 1 -> [1 .. Width(scheme, nc) -> Scalar]]
        BY <2>9 DEF W
      <3>1. cs' \in [0 .. n - 1 -> Scalar] /\ DOMAIN hashes' = 0 .. n - 1
        BY <2>7, CurveTypes
      <3>2. Fed' = 0
        BY <2>7 DEF Fed
      <3>3. ASSUME n > 1, NEW j \in 0 .. n - 1
            PROVE  Turns(j)' >= Fed' /\ ~(Turns(j)' < Fed') /\ hashes'[j] = <<>>
        <4>1. n \in Nat
          BY <2>2
        <4>2. Turns(j) \in 0 .. n - 1
          BY <2>4, <3>3, <4>1, Around
        <4> QED BY <1>1, <2>7, <3>2, <4>1, <4>2
      <3> QED BY <1>1, <2>7, <2>14, <3>0, <3>1, <3>3 DEF Chain
    <2>17. Finished'
      BY <1>2, <2>7 DEF Finished, Signing
    <2> QED BY <1>1, <2>15, <2>16, <2>17
  <1> QED BY <1>0, <1>3, <1>4 DEF Insert

(* There is always the signer in the ring.                                 *)
LEMMA RingNotEmpty ==
  ASSUME Callers PROVE n \in Nat \ {0}
  <1>1. PICK l \in 0 .. MaxDecoys, width \in 1 .. MaxKeys, w \in 1 .. MaxKeys + 1 :
          decoys \in [1 .. l -> [1 .. width -> Key]]
    BY DEF Callers
  <1>2. l \in Nat
    BY LegacyConstants
  <1>3. Len(decoys) = l
    BY <1>1, <1>2, RowIs
  <1> QED BY <1>2, <1>3 DEF n

(* The loop leaves alone what the call works with.                         *)
LEMMA PreparedKept ==
  ASSUME Callers, Prepared, Signing, UNCHANGED <<arguments, ring, key_images, a>>,
         i' \in 0 .. n - 1
  PROVE  /\ Callers' /\ Prepared' /\ SigningRows' = SigningRows /\ SigningImages' = SigningImages
         /\ n' = n /\ nc' = nc /\ OneFeed' = OneFeed
         /\ \A j : Turns(j)' = Turns(j)
  <1>1. /\ n' = n /\ nc' = nc /\ Panics' = Panics /\ Callers'
        /\ \A j : Turns(j)' = Turns(j)
    BY ArgumentsOnly
  <1>2. scheme' = scheme /\ ks' = ks /\ secret_index' = secret_index
    BY DEF arguments
  <1>3. Prepared'
    BY <1>1, <1>2 DEF Prepared
  <1>4. SigningRows' = SigningRows /\ SigningImages' = SigningImages /\ OneFeed' = OneFeed
    BY <1>1, <1>2 DEF SigningRows, SigningImages, Cut, OneFeed
  <1> QED BY <1>1, <1>3, <1>4

(* Feeding the next hash what belongs to it keeps the chain.               *)
LEMMA FeedStep ==
  ASSUME LegacyInv, Signing, pc # "done", n > 1,
         NEW k \in 0 .. n - 1, Turns(k) = Fed, Feed(k, Points(k)),
         UNCHANGED <<arguments, ring, key_images, a, rs, signature>>,
         pc' \in {"turn", "close"}, i' \in 0 .. n - 1, pc' = "turn" => i' # secret_index,
         Fed' = Fed + 1
  PROVE  LegacyInv'
  <1> USE DEF LegacyInv
  <1> DEFINE H(points) == HashToScalar(Prefix(scheme, SigningRows, message), points)
  <1>1. /\ Callers' /\ Prepared' /\ SigningRows' = SigningRows /\ SigningImages' = SigningImages
        /\ n' = n /\ nc' = nc /\ OneFeed' = OneFeed
        /\ \A j : Turns(j)' = Turns(j)
    BY PreparedKept
  <1>2. n \in Nat /\ secret_index \in 0 .. n - 1
    BY Shape
  <1>3. /\ DOMAIN hashes = 0 .. n - 1
        /\ rs \in [0 .. n - 1 -> [1 .. Width(scheme, nc) -> Scalar]]
        /\ cs \in [0 .. n - 1 -> Scalar]
    BY DEF Chain
  <1>4. ASSUME NEW j \in 0 .. n - 1
        PROVE  /\ Turns(j) \in 0 .. n - 1
               /\ Turns(j) >= Fed => hashes[j] = <<>>
               /\ Turns(j) < Fed => hashes[j] = Points(j) /\ cs[j] = H(Points(j))
    BY <1>2, Around DEF Chain
  <1>5. Points(k) \in [1 .. OneFeed -> Point] /\ OneFeed \in Nat /\ H(Points(k)) \in Scalar
    <2>1. Turns(k) # 0 => cs[Before(k)] \in Scalar
      BY <1>2, <1>3, Around
    <2> QED BY <1>3, <2>1, PointsAre
  <1>6. hashes' = [hashes EXCEPT ![k] = Points(k)]
    <2>1. hashes' = [hashes EXCEPT ![k] = hashes[k] \o Points(k)]
      BY DEF Feed
    <2>2. hashes[k] = <<>>
      BY <1>4, <1>2
    <2>3. Points(k) \in Seq(Point)
      BY <1>5, RowIs
    <2>4. <<>> \o Points(k) = Points(k)
      BY <2>3
    <2> QED BY <2>1, <2>2, <2>4
  <1>7. cs' = [cs EXCEPT ![k] = H(Points(k))]
    <2>1. hashes'[k] = Points(k)
      BY <1>3, <1>6
    <2> QED BY <2>1 DEF Feed
  <1>8. ASSUME NEW j \in 0 .. n - 1, Turns(j) <= Fed
        PROVE  Points(j)' = Points(j)
    <2>1. Turns(j)' = Turns(j) /\ scheme' = scheme /\ secret_index' = secret_index
      BY <1>1 DEF arguments
    <2>2. CASE Turns(j) = 0
      BY <1>1, <2>1, <2>2 DEF Points
    <2>3. CASE Turns(j) # 0
      <3>1. Before(j) \in 0 .. n - 1 /\ Turns(Before(j)) = Turns(j) - 1 /\ Turns(j) \in Nat
        BY <1>2, <2>3, Around
      <3>2. Before(j) # k
        BY <1>8, <3>1
      <3>3. cs'[Before(j)] = cs[Before(j)]
        BY <1>3, <1>7, <3>1, <3>2
      <3>4. Before(j)' = Before(j)
        BY <1>1 DEF Before
      <3> QED BY <1>1, <2>1, <2>3, <3>3, <3>4 DEF Points
    <2> QED BY <2>2, <2>3
  <1>9. cs' \in [0 .. n - 1 -> Scalar] /\ DOMAIN hashes' = 0 .. n - 1
    BY <1>3, <1>5, <1>6, <1>7
  <1>10. ASSUME NEW j \in 0 .. n - 1
         PROVE  /\ Turns(j)' >= Fed' => hashes'[j] = <<>>
                /\ Turns(j)' < Fed' => hashes'[j] = Points(j)' /\ cs'[j] = H(Points(j)')
    <2>1. Turns(j)' = Turns(j) /\ Turns(j) \in Nat /\ Turns(k) \in Nat
      BY <1>1, <1>4
    <2>2. CASE j = k
      <3>1. Points(k)' = Points(k)
        BY <1>8, <2>1
      <3> QED BY <1>3, <1>6, <1>7, <2>1, <2>2, <3>1
    <2>3. CASE j # k
      <3>1. hashes'[j] = hashes[j] /\ cs'[j] = cs[j]
        BY <1>3, <1>6, <1>7, <2>3
      <3>2. Turns(j) # Turns(k)
        BY <1>2, <2>3, Around
      <3>3. Turns(j) < Fed => Points(j)' = Points(j)
        BY <1>8, <2>1
      <3> QED BY <1>4, <2>1, <3>1, <3>2, <3>3
    <2> QED BY <2>2, <2>3
  <1>11. Chain'
    <2>1. rs' = rs /\ scheme' = scheme /\ message' = message /\ secret_index' = secret_index
      BY DEF arguments
    <2> QED BY <1>1, <1>3, <1>9, <1>10, <2>1 DEF Chain
  <1>12. Finished'
    BY DEF Finished, Signing
  <1> QED BY <1>1, <1>11, <1>12

(* The loop of a ring of one, whose hash is fed twice.                     *)
LEMMA AloneStep ==
  ASSUME LegacyInv, Signing, pc # "done", ~(n > 1),
         UNCHANGED <<arguments, ring, key_images, a, signature>>,
         pc' \in {"turn", "close"}, i' \in 0 .. n - 1
  PROVE  LegacyInv'
  <1>1. Callers' /\ Prepared' /\ n' = n
    BY PreparedKept DEF LegacyInv
  <1> QED BY <1>1 DEF LegacyInv, Chain, Finished, Signing

LEMMA CommitStep ==
  ASSUME LegacyInv, Commit PROVE LegacyInv'
  <1>1. /\ pc = "commit" /\ pc' = "turn" /\ i' = i /\ Signing
        /\ UNCHANGED <<arguments, ring, key_images, a, rs, signature>>
        /\ Feed(i, Commitment(scheme, SigningRows, secret_index, a))
    BY DEF Commit, Signing
  <1>2. i \in 0 .. n - 1 /\ Callers
    BY <1>1 DEF LegacyInv, Prepared
  <1>3. CASE n > 1
    <2>1. n \in Nat /\ secret_index \in 0 .. n - 1
      BY <1>1, <1>3, Shape DEF LegacyInv
    <2>2. i = (secret_index + 1) % n
      BY <1>1, <1>3 DEF LegacyInv, Chain
    <2>3. i # secret_index /\ Turns(i) = 0
      BY <1>2, <1>3, <2>1, <2>2, Around
    <2>4. Turns(i)' = Turns(i)
      BY <1>1 DEF Turns, n, arguments
    <2>5. Fed = 0 /\ Fed' = 1
      BY <1>1, <2>3, <2>4 DEF Fed
    <2>6. Points(i) = Commitment(scheme, SigningRows, secret_index, a)
      BY <2>3 DEF Points
    <2> QED BY <1>1, <1>2, <1>3, <2>3, <2>5, <2>6, FeedStep
  <1>4. CASE ~(n > 1)
    BY <1>1, <1>2, <1>4, AloneStep
  <1> QED BY <1>3, <1>4

LEMMA TurnStep ==
  ASSUME LegacyInv, Turn PROVE LegacyInv'
  <1> DEFINE k == (i + 1) % n
  <1>1. /\ pc = "turn" /\ Signing
        /\ UNCHANGED <<arguments, ring, key_images, a, rs, signature>>
        /\ Feed(k, Contribution(scheme, SigningRows, SigningImages, i, rs[i], cs[i]))
        /\ \/ LastTurn /\ pc' = "close" /\ i' = i
           \/ ~LastTurn /\ i' = k /\ pc' = "turn"
    BY DEF Turn, Signing
  <1>2. i \in 0 .. n - 1 /\ Callers /\ n \in Nat \ {0}
    BY <1>1, RingNotEmpty DEF LegacyInv, Prepared
  <1>3. CASE n > 1
    <2>1. n \in Nat /\ secret_index \in 0 .. n - 1
      BY <1>1, <1>3, Shape DEF LegacyInv
    <2>2. i # secret_index
      BY <1>1, <1>3 DEF LegacyInv, Chain
    <2>3. /\ k \in 0 .. n - 1 /\ Before(k) = i /\ Turns(k) = Turns(i) + 1
          /\ Turns(i) \in Nat
          /\ LastTurn <=> Turns(i) = n - 2
          /\ Turns(k) = n - 1 <=> k = secret_index
      BY <1>2, <1>3, <2>1, <2>2, Around
    <2> HIDE DEF k
    <2>4. n' = n
      BY <1>1 DEF n, arguments
    <2>5. Fed = Turns(k)
      BY <1>1, <2>3 DEF Fed
    <2>6. Points(k) = Contribution(scheme, SigningRows, SigningImages, i, rs[i], cs[i])
      BY <2>3 DEF Points
    <2>7. CASE LastTurn /\ pc' = "close" /\ i' = i
      <3>1. Fed' = Fed + 1
        BY <2>1, <2>3, <2>4, <2>5, <2>7 DEF Fed
      <3> QED BY <1>1, <1>2, <1>3, <2>3, <2>5, <2>6, <2>7, <3>1, FeedStep
    <2>8. CASE ~LastTurn /\ i' = k /\ pc' = "turn"
      <3>1. Turns(i)' = Turns(k)
        BY <1>1, <2>8 DEF Turns, n, arguments
      <3>2. Fed' = Fed + 1
        BY <2>5, <2>8, <3>1 DEF Fed
      <3>3. k # secret_index
        BY <2>1, <2>3, <2>8
      <3> QED BY <1>1, <1>3, <2>3, <2>5, <2>6, <2>8, <3>2, <3>3, FeedStep
    <2> QED BY <1>1, <2>7, <2>8
  <1>4. CASE ~(n > 1)
    <2>1. k \in 0 .. n - 1
      BY <1>2, AfterIs
    <2> QED BY <1>1, <1>2, <1>4, <2>1, AloneStep
  <1> QED BY <1>3, <1>4

(* The closing response touches no hash: no hash is made from it.          *)
LEMMA CloseStep ==
  ASSUME LegacyInv, Close PROVE LegacyInv'
  <1> USE DEF LegacyInv
  <1>1. /\ pc = "close" /\ pc' = "done" /\ Signing /\ Signing'
        /\ UNCHANGED <<arguments, ring, key_images, a, cs, hashes, i>>
        /\ rs' = [rs EXCEPT ![secret_index] = Closing]
        /\ signature' = [challenge |-> cs[0], responses |-> rs', ring |-> ring,
                         key_images |-> key_images]
    BY DEF Close, Signing, FirstChallenge, Closing, ClosingFor
  <1>2. /\ Callers' /\ Prepared' /\ SigningRows' = SigningRows /\ SigningImages' = SigningImages
        /\ n' = n /\ nc' = nc
        /\ \A j : Turns(j)' = Turns(j)
    <2>1. i' \in 0 .. n - 1
      BY <1>1 DEF Prepared
    <2> QED BY <1>1, <2>1, PreparedKept
  <1>3. /\ scheme' = scheme /\ message' = message /\ secret_index' = secret_index /\ ks' = ks
        /\ a' = a /\ cs' = cs
    BY <1>1 DEF arguments
  <1>4. Closing' = Closing
    BY <1>2, <1>3 DEF Closing
  <1>5. ASSUME n > 1
        PROVE  /\ rs \in [0 .. n - 1 -> [1 .. Width(scheme, nc) -> Scalar]]
               /\ secret_index \in 0 .. n - 1
               /\ Closing \in [1 .. Width(scheme, nc) -> Scalar]
    <2> DEFINE W == Width(scheme, nc)
               secrets == Secrets(scheme, SigningRows, SigningImages, SubSeq(ks, 1, nc))
    <2>1. /\ secret_index \in 0 .. n - 1
          /\ Holds(scheme, SigningRows, SigningImages, secret_index, SubSeq(ks, 1, nc), nc)
      BY <1>1, <1>5, Shape, Columned
    <2>2. W \in Nat /\ secrets \in [1 .. W -> Scalar]
      BY <2>1, SignerColumns
    <2>3. rs \in [0 .. n - 1 -> [1 .. W -> Scalar]] /\ cs[secret_index] \in Scalar
      BY <1>1, <1>5, <2>1 DEF Chain
    <2>4. a \in [1 .. W -> Scalar]
      BY <1>1 DEF Prepared
    <2> HIDE DEF W, secrets
    <2>5. Len(a) = W
      BY <2>2, <2>4, RowIs
    <2>6. [h \in 1 .. W |-> SSub(a[h], SMul(cs[secret_index], secrets[h]))] \in [1 .. W -> Scalar]
      BY <2>2, <2>3, <2>4, CurveTypes
    <2>7. Closing = [h \in 1 .. W |-> SSub(a[h], SMul(cs[secret_index], secrets[h]))]
      BY <2>5 DEF Closing, ClosingFor, secrets
    <2> QED BY <2>1, <2>3, <2>6, <2>7 DEF W
  <1>6. ASSUME n > 1 PROVE Chain'
    <2>1. rs' \in [0 .. n - 1 -> [1 .. Width(scheme, nc) -> Scalar]]
      BY <1>1, <1>5, <1>6
    <2>2. n \in Nat
      BY <1>1, <1>6, Shape
    <2>3. ASSUME NEW j \in 0 .. n - 1 PROVE Points(j)' = Points(j)
      <3>1. CASE Turns(j) = 0
        BY <1>2, <1>3, <3>1 DEF Points
      <3>2. CASE Turns(j) # 0
        <4>1. Before(j) \in 0 .. n - 1 /\ Before(j) # secret_index
          BY <1>5, <1>6, <2>2, <3>2, Around
        <4>2. rs'[Before(j)] = rs[Before(j)] /\ Before(j)' = Before(j)
          BY <1>1, <1>2, <1>5, <1>6, <4>1 DEF Before
        <4> QED BY <1>2, <1>3, <3>2, <4>2 DEF Points
      <3> QED BY <3>1, <3>2
    <2>4. Fed = n /\ Fed' = n
      BY <1>1, <1>2 DEF Fed
    <2> QED BY <1>1, <1>2, <1>3, <1>6, <2>1, <2>3, <2>4 DEF Chain
  <1>7. n > 1 => rs'[secret_index] = Closing
    BY <1>1, <1>5
  <1>8. Finished'
    BY <1>1, <1>2, <1>3, <1>4, <1>7 DEF Finished
  <1>9. ~(n > 1) => Chain'
    BY <1>2 DEF Chain
  <1> QED BY <1>2, <1>6, <1>8, <1>9

(* A call prepares its locals from its arguments, its loop feeds the       *)
(* hashes one after the other, each with the points that belong to it, and *)
(* its closing response is made from the challenge reached (sag.rs:45-92,  *)
(* mlsag.rs:85-180, clsag.rs:75-230).                                      *)
THEOREM LegacyInvariance == Spec => []LegacyInv
  <1>1. Init => LegacyInv
    BY InitInv
  <1>2. LegacyInv /\ [Next]_vars => LegacyInv'
    <2>1. ASSUME LegacyInv, UNCHANGED vars PROVE LegacyInv'
      <3>1. /\ UNCHANGED <<pc, arguments, ring, key_images, a, rs, cs, hashes, i, signature>>
            /\ scheme' = scheme /\ ks' = ks /\ message' = message
            /\ secret_index' = secret_index /\ decoys' = decoys
        BY <2>1 DEF vars, arguments
      <3>2. /\ n' = n /\ nc' = nc /\ Panics' = Panics /\ (Callers => Callers')
            /\ \A j : Turns(j)' = Turns(j)
        BY <3>1, ArgumentsOnly
      <3>3. SigningRows' = SigningRows /\ SigningImages' = SigningImages
        BY <3>1, <3>2 DEF SigningRows, SigningImages
      <3>4. Signing' = Signing /\ Closing' = Closing
        BY <3>1, <3>2, <3>3 DEF Signing, Closing
      <3>5. Fed' = Fed /\ \A j : Points(j)' = Points(j)
        BY <3>1, <3>2, <3>3 DEF Fed, Points, Before, Turns
      <3>6. Prepared => Prepared'
        BY <3>1, <3>2, <3>4 DEF Prepared
      <3>7. Chain => Chain'
        BY <3>1, <3>2, <3>3, <3>4, <3>5 DEF Chain
      <3>8. Finished => Finished'
        BY <3>1, <3>2, <3>4 DEF Finished
      <3> QED BY <2>1, <3>2, <3>6, <3>7, <3>8 DEF LegacyInv
    <2> QED BY <2>1, InsertStep, CommitStep, TurnStep, CloseStep DEF Next
  <1> QED BY <1>1, <1>2, PTL DEF Spec

-----------------------------------------------------------------------------
(* A state of the invariant has fed what FedOnce says.                     *)
LEMMA InvFedOnce ==
  ASSUME LegacyInv PROVE FedOnce
  <1> USE DEF LegacyInv
  <1> SUFFICES ASSUME n > 1, hashes # Nil, NEW j \in 0 .. n - 1
               PROVE  Len(hashes[j]) = IF Turns(j) < Fed THEN OneFeed ELSE 0
    BY DEF FedOnce
  <1>1. Signing
    BY DEF Finished
  <1>2. n \in Nat /\ secret_index \in 0 .. n - 1
    BY <1>1, Shape
  <1>3. /\ rs \in [0 .. n - 1 -> [1 .. Width(scheme, nc) -> Scalar]]
        /\ cs \in [0 .. n - 1 -> Scalar]
        /\ Turns(j) >= Fed => hashes[j] = <<>>
        /\ Turns(j) < Fed => hashes[j] = Points(j)
    BY <1>1 DEF Chain
  <1>4. Turns(j) \in Int /\ Fed \in Int
    <2>1. i \in 0 .. n - 1
      BY <1>1 DEF Prepared
    <2> QED BY <1>2, <2>1, Around DEF Fed
  <1>5. CASE Turns(j) < Fed
    <2>1. Turns(j) # 0 => cs[Before(j)] \in Scalar
      BY <1>2, <1>3, Around
    <2>2. Points(j) \in [1 .. OneFeed -> Point] /\ OneFeed \in Nat
      BY <1>1, <1>3, <2>1, PointsAre
    <2>3. Len(Points(j)) = OneFeed
      BY <2>2, RowIs
    <2> QED BY <1>3, <1>5, <2>3
  <1>6. CASE Turns(j) >= Fed
    BY <1>3, <1>4, <1>6
  <1> QED BY <1>4, <1>5, <1>6

(* With a decoy each hash is fed once, in the order from the signer        *)
(* around, and the loop ends with the signer's own (sag.rs:63-81,          *)
(* mlsag.rs:127-163, clsag.rs:178-218).                                    *)
THEOREM HashesFedOnce == Spec => []FedOnce
  BY LegacyInvariance, InvFedOnce, PTL

-----------------------------------------------------------------------------
(* At the end the challenge after each index is the hash of what verify    *)
(* makes of the response and the challenge at that index; at the signer's  *)
(* by the closing response.                                                *)
LEMMA Equations ==
  ASSUME LegacyInv, pc = "done", n > 1, NEW k \in 0 .. n - 1
  PROVE  /\ (k + 1) % n = IF k = n - 1 THEN 0 ELSE k + 1
         /\ cs[(k + 1) % n]
              = HashToScalar(Prefix(scheme, SigningRows, message),
                             Contribution(scheme, SigningRows, SigningImages, k, rs[k], cs[k]))
  <1> USE DEF LegacyInv
  <1> DEFINE m == (k + 1) % n
  <1>1. Signing
    BY DEF Signing
  <1>2. n \in Nat /\ secret_index \in 0 .. n - 1
    BY <1>1, Shape
  <1>3. /\ m \in 0 .. n - 1 /\ Before(m) = k /\ Turns(m) \in 0 .. n - 1
        /\ k # secret_index => Turns(m) # 0
        /\ k = secret_index => Turns(m) = 0
    <2>1. /\ m \in 0 .. n - 1 /\ Before(m) = k /\ Turns(k) \in 0 .. n - 1
          /\ k # secret_index => Turns(m) = Turns(k) + 1
      BY <1>2, Around
    <2> HIDE DEF m
    <2>2. Turns(m) \in 0 .. n - 1 /\ (Turns(m) = 0 <=> m = (secret_index + 1) % n)
      BY <1>2, <2>1, Around
    <2>3. k = secret_index => m = (secret_index + 1) % n
      BY DEF m
    <2> QED BY <2>1, <2>2, <2>3
  <1>4. m = IF k = n - 1 THEN 0 ELSE k + 1
    BY <1>2, AfterIs
  <1> HIDE DEF m
  <1>5. Fed = n
    BY DEF Fed
  <1>6. cs[m] = HashToScalar(Prefix(scheme, SigningRows, message), Points(m))
    BY <1>1, <1>2, <1>3, <1>5 DEF Chain
  <1>7. Points(m) = Contribution(scheme, SigningRows, SigningImages, k, rs[k], cs[k])
    <2>1. CASE k # secret_index
      BY <1>3, <2>1 DEF Points
    <2>2. CASE k = secret_index
      <3>1. Points(m) = Commitment(scheme, SigningRows, secret_index, a)
        BY <1>3, <2>2 DEF Points
      <3>2. Holds(scheme, SigningRows, SigningImages, secret_index, SubSeq(ks, 1, nc), nc)
        BY <1>1, Columned
      <3>3. a \in [1 .. Width(scheme, nc) -> Scalar] /\ cs[secret_index] \in Scalar
        BY <1>1, <1>2 DEF Prepared, Chain
      <3>4. Contribution(scheme, SigningRows, SigningImages, secret_index, Closing,
                         cs[secret_index])
              = Commitment(scheme, SigningRows, secret_index, a)
        BY <3>2, <3>3, SignerCloses DEF Closing
      <3>5. rs[secret_index] = Closing
        BY DEF Finished
      <3> QED BY <2>2, <3>1, <3>4, <3>5
    <2> QED BY <2>1, <2>2
  <1> QED BY <1>4, <1>6, <1>7 DEF m

(* The widths of the rows that are returned.                               *)
LEMMA RowLengths ==
  ASSUME LegacyInv, pc = "done", n > 1
  PROVE  /\ \A j \in 0 .. n - 1 : Len(ring[j]) = IF j = secret_index THEN Len(ks) ELSE nc
         /\ \A j \in 0 .. n - 1 : scheme = "MLSAG" => Len(rs[j]) = nc
  <1> USE DEF LegacyInv
  <1>1. Signing
    BY DEF Signing
  <1>2. nc \in Nat /\ Len(ks) \in Nat
    BY <1>1, Shape, LegacyConstants
  <1>3. Len(ring[secret_index]) = Len(ks)
    <2>1. ring[secret_index] = [h \in 1 .. Len(ks) |-> PublicKey(ks[h])]
      BY <1>1 DEF Prepared, Map
    <2>2. ring[secret_index] \in [1 .. Len(ks) -> {PublicKey(ks[h]) : h \in 1 .. Len(ks)}]
      BY <2>1
    <2> QED BY <1>2, <2>2, RowIs
  <1>4. ASSUME NEW j \in 0 .. n - 1, j # secret_index PROVE Len(ring[j]) = nc
    <2>1. ring[j] \in [1 .. nc -> Key]
      BY <1>1, <1>4 DEF Prepared
    <2> QED BY <1>2, <2>1, RowIs
  <1>5. ASSUME NEW j \in 0 .. n - 1, scheme = "MLSAG" PROVE Len(rs[j]) = nc
    <2>1. rs[j] \in [1 .. nc -> Scalar]
      BY <1>1, <1>5 DEF Chain, Width
    <2> QED BY <1>2, <2>1, RowIs
  <1> QED BY <1>3, <1>4, <1>5

(* What verify walks over is what was signed, and its walk is cs.          *)
LEMMA WalkSucceeds ==
  ASSUME LegacyInv, pc = "done", n > 1, Len(ring[0]) = nc
  PROVE  Verify(scheme, signature, message)
  <1> DEFINE H(j, c) == HashToScalar(Prefix(scheme, SigningRows, message),
                          Contribution(scheme, SigningRows, SigningImages, j, rs[j], c))
             body(f) == [j \in 0 .. n |-> IF j = 0 THEN cs[0] ELSE H(j - 1, f[j - 1])]
             c == CHOOSE f : f = body(f)
             g == [j \in 0 .. n |-> IF j = n THEN cs[0] ELSE cs[j]]
  <1>1. signature = [challenge |-> cs[0], responses |-> rs, ring |-> ring,
                    key_images |-> key_images]
    BY DEF LegacyInv, Finished
  <1>2. n \in Nat /\ Signing /\ DOMAIN ring = 0 .. n - 1
    BY Shape DEF LegacyInv, Signing, Prepared
  <1>3. Cardinality(DOMAIN signature.ring) = n
    <2>1. Cardinality(0 .. n - 1) = n
      BY <1>2, FS_Interval
    <2> QED BY <1>1, <1>2, <2>1
  <1>4. Columns(signature) = nc /\ Cut(signature.ring, nc) = SigningRows
    BY <1>1 DEF Columns, SigningRows
  <1>5. Verify(scheme, signature, message) <=> c[n] = cs[0]
    <2> DEFINE len == Cardinality(DOMAIN signature.ring)
               rows == Cut(signature.ring, Columns(signature))
               images == IF scheme = "SAG" THEN <<>>
                         ELSE SubSeq(signature.key_images, 1, Columns(signature))
               step(f) == [j \in 0 .. len |-> IF j = 0 THEN signature.challenge
                  ELSE HashToScalar(Prefix(scheme, rows, message),
                         Contribution(scheme, rows, images, j - 1, signature.responses[j - 1],
                                      f[j - 1]))]
               d == CHOOSE f : f = step(f)
    <2>1. Verify(scheme, signature, message) <=> d[len] = signature.challenge
      BY DEF Verify
    <2>2. /\ len = n /\ rows = SigningRows /\ images = SigningImages
          /\ signature.challenge = cs[0] /\ signature.responses = rs
      BY <1>1, <1>3, <1>4 DEF SigningImages
    <2> HIDE DEF len, rows, images
    <2>3. d = c
      BY <2>2
    <2> HIDE DEF d, c
    <2> QED BY <2>1, <2>2, <2>3
  <1>6. ASSUME NEW j \in 1 .. n PROVE g[j] = H(j - 1, g[j - 1])
    <2>1. j - 1 \in 0 .. n - 1 /\ (j - 1) + 1 = j
      BY <1>2
    <2>2. /\ ((j - 1) + 1) % n = IF j - 1 = n - 1 THEN 0 ELSE (j - 1) + 1
          /\ cs[((j - 1) + 1) % n] = H(j - 1, cs[j - 1])
      BY <2>1, Equations
    <2>3. g[j] = cs[((j - 1) + 1) % n] /\ g[j - 1] = cs[j - 1]
      BY <1>2, <2>1, <2>2
    <2> HIDE DEF H, g
    <2> QED BY <2>2, <2>3
  <1> HIDE DEF H
  <1>7. g = body(g)
    <2>1. g[0] = cs[0]
      BY <1>2
    <2>2. ASSUME NEW j \in 0 .. n PROVE g[j] = body(g)[j]
      <3>1. CASE j = 0
        BY <2>1, <3>1
      <3>2. CASE j # 0
        <4>1. j \in 1 .. n
          BY <1>2, <3>2
        <4> QED BY <1>6, <3>2, <4>1
      <3> QED BY <3>1, <3>2
    <2> QED BY <2>2
  <1>8. c = body(c)
    <2> HIDE DEF body, g
    <2> QED BY <1>7, Zenon DEF c
  <1> HIDE DEF c
  <1>9. c[0] = cs[0] /\ \A j \in 1 .. n : c[j] = H(j - 1, c[j - 1])
    BY <1>2, <1>8
  <1> DEFINE S == {k \in Nat : k <= n => c[k] = g[k]}
  <1>10. 0 \in S
    BY <1>2, <1>9
  <1>11. ASSUME NEW k \in Nat, k \in S PROVE k + 1 \in S
    <2> SUFFICES ASSUME k + 1 <= n PROVE c[k + 1] = g[k + 1]
      OBVIOUS
    <2>1. c[k] = g[k] /\ k + 1 \in 1 .. n /\ (k + 1) - 1 = k
      BY <1>2, <1>11
    <2> HIDE DEF g
    <2>2. c[k + 1] = H(k, c[k]) /\ g[k + 1] = H(k, g[k])
      BY <1>6, <1>9, <2>1
    <2> QED BY <2>1, <2>2
  <1> HIDE DEF S
  <1>12. n \in S
    BY <1>2, <1>10, <1>11, B!SetInduction, CurveTypes, Distributivity, Associativity
  <1>13. c[n] = g[n]
    BY <1>2, <1>12 DEF S
  <1> QED BY <1>2, <1>5, <1>13

(* What is returned verifies, by the equations of all indices.             *)
LEMMA InvLegacyVerifies ==
  ASSUME LegacyInv PROVE LegacyVerifies
  <1> USE DEF LegacyInv
  <1> SUFFICES ASSUME n > 1, signature # Nil
               PROVE  IF VerifyPanics(scheme, signature) THEN SurplusInFirstRow
                      ELSE ~SurplusInFirstRow /\ Verify(scheme, signature, message)
    BY DEF LegacyVerifies
  <1>1. pc = "done" /\ Signing
    BY DEF Finished, Signing
  <1>2. /\ n \in Nat /\ nc \in Nat /\ Len(ks) \in Nat /\ Len(ks) >= nc
        /\ secret_index \in 0 .. n - 1
    BY <1>1, Shape, LegacyConstants
  <1>3. /\ signature.ring = ring /\ signature.responses = rs
        /\ DOMAIN ring = 0 .. n - 1
    BY <1>1 DEF Finished, Prepared
  <1>4. /\ \A j \in 0 .. n - 1 : Len(ring[j]) = IF j = secret_index THEN Len(ks) ELSE nc
        /\ \A j \in 0 .. n - 1 : scheme = "MLSAG" => Len(rs[j]) = nc
    BY <1>1, RowLengths
  <1>5. Columns(signature) = IF secret_index = 0 THEN Len(ks) ELSE nc
    BY <1>2, <1>3, <1>4 DEF Columns
  <1>6. CASE SurplusInFirstRow
    <2>1. 1 \in 0 .. n - 1 /\ Len(ring[1]) = nc /\ nc < Columns(signature)
      BY <1>2, <1>4, <1>5, <1>6 DEF SurplusInFirstRow
    <2> QED BY <1>3, <1>6, <2>1 DEF VerifyPanics
  <1>7. CASE ~SurplusInFirstRow
    <2>1. Columns(signature) = nc
      BY <1>2, <1>5, <1>7 DEF SurplusInFirstRow
    <2>2. ~VerifyPanics(scheme, signature)
      BY <1>2, <1>3, <1>4, <2>1 DEF VerifyPanics
    <2>3. Len(ring[0]) = nc
      BY <1>3, <2>1 DEF Columns
    <2> QED BY <1>1, <1>7, <2>2, <2>3, WalkSucceeds
  <1> QED BY <1>6, <1>7

(* With a decoy the signature verifies, for each scheme, position of the   *)
(* signer and width; verify panics just when the signer's row is the first *)
(* and has a key too many (mlsag.rs:203, clsag.rs:257).                    *)
THEOREM SignaturesVerify == Spec => []LegacyVerifies
  BY LegacyInvariance, InvLegacyVerifies, PTL

-----------------------------------------------------------------------------
(* MLSAG's images of two signatures, one after the other.                  *)
LEMMA BothImages ==
  ASSUME NEW w \in Nat, NEW v \in Nat, NEW keys1 \in [1 .. w -> SecretKeys],
         NEW keys2 \in [1 .. v -> SecretKeys]
  PROVE  LET all == KeyImages("MLSAG", keys1) \o KeyImages("MLSAG", keys2)
         IN  /\ Len(all) = w + v
             /\ \A h \in 1 .. w : all[h] = KeyImage(keys1[h])
             /\ \A h \in 1 .. v : all[w + h] = KeyImage(keys2[h])
  <1> DEFINE images1 == KeyImages("MLSAG", keys1)
             images2 == KeyImages("MLSAG", keys2)
             I == {KeyImage(k) : k \in SecretKeys}
  <1>1. Len(keys1) = w /\ Len(keys2) = v
    BY RowIs
  <1>2. images1 = [h \in 1 .. w |-> KeyImage(keys1[h])]
    BY <1>1 DEF KeyImages, Map
  <1>3. images2 = [h \in 1 .. v |-> KeyImage(keys2[h])]
    BY <1>1 DEF KeyImages, Map
  <1>4. images1 \in [1 .. w -> I] /\ images2 \in [1 .. v -> I]
    BY <1>2, <1>3
  <1> HIDE DEF images1, images2, I
  <1>5. /\ images1 \in Seq(I) /\ Len(images1) = w
        /\ images2 \in Seq(I) /\ Len(images2) = v
    BY <1>4, RowIs
  <1>6. Len(images1 \o images2) = w + v
    <2>1. Len(images1 \o images2) = Len(images1) + Len(images2)
      BY <1>5, ConcatProperties
    <2> QED BY <1>5, <2>1
  <1>7. ASSUME NEW h \in 1 .. w PROVE (images1 \o images2)[h] = KeyImage(keys1[h])
    <2>1. (images1 \o images2)[h] = images1[h]
      BY <1>5
    <2> QED BY <1>2, <2>1
  <1>8. ASSUME NEW h \in 1 .. v PROVE (images1 \o images2)[w + h] = KeyImage(keys2[h])
    <2>1. (images1 \o images2)[w + h] = images2[h]
      BY <1>5
    <2> QED BY <1>3, <2>1
  <1> QED BY <1>6, <1>7, <1>8 DEF images1, images2

(* Two signatures of MLSAG, neither with a key twice, have two equal       *)
(* images exactly when they have a key in common.                          *)
LEMMA LinksByShared ==
  ASSUME NEW w \in Nat, NEW v \in Nat, NEW keys1 \in [1 .. w -> SecretKeys],
         NEW keys2 \in [1 .. v -> SecretKeys], ~Repeats(keys1), ~Repeats(keys2)
  PROVE  Links("MLSAG", KeyImages("MLSAG", keys1), KeyImages("MLSAG", keys2))
           <=> ShareKey(keys1, keys2)
  <1> DEFINE all == KeyImages("MLSAG", keys1) \o KeyImages("MLSAG", keys2)
  <1>1. /\ Len(all) = w + v
        /\ \A h \in 1 .. w : all[h] = KeyImage(keys1[h])
        /\ \A h \in 1 .. v : all[w + h] = KeyImage(keys2[h])
    BY BothImages
  <1>2. Links("MLSAG", KeyImages("MLSAG", keys1), KeyImages("MLSAG", keys2))
          <=> \E h, j \in 1 .. Len(all) : h < j /\ all[h] = all[j]
    BY DEF Links
  <1>3. Len(keys1) = w /\ Len(keys2) = v
    BY RowIs
  <1> HIDE DEF all
  <1>4. ASSUME NEW h \in 1 .. w + v, NEW j \in 1 .. w + v, h < j, all[h] = all[j]
        PROVE  ShareKey(keys1, keys2)
    <2>1. CASE j <= w
      <3>1. KeyImage(keys1[h]) = KeyImage(keys1[j]) /\ h \in 1 .. w /\ j \in 1 .. w
        BY <1>1, <1>4, <2>1
      <3>2. keys1[h] = keys1[j]
        BY <3>1, KeyImagesDiffer
      <3> QED BY <1>3, <1>4, <3>1, <3>2 DEF Repeats
    <2>2. CASE h > w
      <3> DEFINE p == h - w
                 q == j - w
      <3>1. p \in 1 .. v /\ q \in 1 .. v /\ w + p = h /\ w + q = j /\ p < q
        BY <1>4, <2>2
      <3> HIDE DEF p, q
      <3>2. KeyImage(keys2[p]) = KeyImage(keys2[q])
        BY <1>1, <1>4, <3>1
      <3>3. keys2[p] = keys2[q]
        BY <3>1, <3>2, KeyImagesDiffer
      <3> QED BY <1>3, <3>1, <3>3 DEF Repeats
    <2>3. CASE h <= w /\ j > w
      <3> DEFINE q == j - w
      <3>1. h \in 1 .. w /\ q \in 1 .. v /\ w + q = j
        BY <2>3
      <3> HIDE DEF q
      <3>2. KeyImage(keys1[h]) = KeyImage(keys2[q])
        BY <1>1, <1>4, <3>1
      <3>3. keys1[h] = keys2[q]
        BY <3>1, <3>2, KeyImagesDiffer
      <3> QED BY <1>3, <3>1, <3>3 DEF ShareKey
    <2> QED BY <2>1, <2>2, <2>3
  <1>5. ASSUME ShareKey(keys1, keys2)
        PROVE  \E h, j \in 1 .. w + v : h < j /\ all[h] = all[j]
    <2>1. PICK h \in 1 .. w, q \in 1 .. v : keys1[h] = keys2[q]
      BY <1>3, <1>5 DEF ShareKey
    <2>2. all[h] = all[w + q]
      BY <1>1, <2>1
    <2> QED BY <2>2
  <1> QED BY <1>1, <1>2, <1>4, <1>5

(* The images returned are those of the call's keys.                       *)
LEMMA InvLinkedByKey ==
  ASSUME LegacyInv PROVE LinkedByKey
  <1> USE DEF LegacyInv
  <1> SUFFICES ASSUME scheme # "SAG", signature # Nil, NEW keys \in OtherKeys,
                      ~Repeats(ks), ~Repeats(keys)
               PROVE  Links(scheme, signature.key_images, KeyImages(scheme, keys))
                        <=> IF scheme = "MLSAG" THEN ShareKey(ks, keys) ELSE ks[1] = keys[1]
    BY DEF LinkedByKey
  <1>1. pc = "done" /\ Signing
    BY DEF Finished, Signing
  <1>2. signature.key_images = KeyImages(scheme, ks)
    BY <1>1 DEF Finished, Prepared
  <1>3. PICK w \in 1 .. MaxKeys + 1 : ks \in [1 .. w -> SecretKeys]
    BY DEF Callers
  <1>4. PICK v \in 1 .. MaxKeys : keys \in [1 .. v -> SecretKeys]
    BY DEF OtherKeys
  <1>5. w \in Nat \ {0} /\ v \in Nat \ {0}
    BY LegacyConstants
  <1>6. CASE scheme = "MLSAG"
    BY <1>2, <1>3, <1>4, <1>5, <1>6, LinksByShared
  <1>7. CASE scheme # "MLSAG"
    <2>1. scheme = "CLSAG"
      BY <1>7, LegacyConstants DEF Callers
    <2>2. Len(ks) = w /\ Len(keys) = v
      BY <1>3, <1>4, <1>5, RowIs
    <2>3. KeyImages("CLSAG", ks)[1] = KeyImage(ks[1])
      BY <1>5, <2>2 DEF KeyImages, Map, KeyImage
    <2>4. KeyImages("CLSAG", keys)[1] = KeyImage(keys[1])
      BY <1>5, <2>2 DEF KeyImages, Map, KeyImage
    <2>5. ks[1] \in SecretKeys /\ keys[1] \in SecretKeys
      BY <1>3, <1>4, <1>5
    <2> QED BY <1>2, <1>7, <2>1, <2>3, <2>4, <2>5, KeyImagesDiffer DEF Links
  <1> QED BY <1>6, <1>7

(* Two signatures that use none of their keys twice are linked exactly     *)
(* when they have a key in common, in CLSAG the first (mlsag.rs:242-262,   *)
(* clsag.rs:345-350).                                                      *)
THEOREM LinksByKey == Spec => []LinkedByKey
  BY LegacyInvariance, InvLinkedByKey, PTL
=============================================================================
