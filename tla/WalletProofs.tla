----------------------------- MODULE WalletProofs -----------------------------
(***************************************************************************)
(* Proofs about Wallet: keys derived by any path in any of their types,    *)
(* and calls of signing and verifying with progress over rings of any      *)
(* length.                                                                 *)
(***************************************************************************)
EXTENDS Wallet, BlsagProofs, RingDataProofs

(* The keys there are: a pair, with or without its secret, a scalar, and a *)
(* point.                                                                  *)
Pairs == [type : {"KeyPair"}, secret : Scalar \cup {Absent}, public : Point]
ScalarKeys == [type : {"Scalar"}, secret : Scalar, public : {Absent}]
PointKeys == [type : {"Point"}, secret : {Absent}, public : Point]
AnyKey == Pairs \cup ScalarKeys \cup PointKeys

(* The pair of a key is a pair: its public part is that of its secret.     *)
Matched(key) ==
  HasSecret(key) /\ key.public # Absent => key.public = PublicKey(key.secret)

(* g is the public keys along the path of the origin o, and ends at P.     *)
Path(g, o, P) ==
  /\ g[0] = PublicKey(o.root)
  /\ \A j \in 0 .. Len(o.path) - 1 : g[j + 1] = DerivePoint(g[j], o.path[j + 1])
  /\ g[Len(o.path)] = P

Reached(o, P) == \E g : Path(g, o, P)

(* A key, its secret if it has one, and the path it came by.               *)
ComesFrom(key, o) ==
  /\ key \in AnyKey
  /\ Matched(key)
  /\ Reached(o, PublicOf(key))

KeysInv ==
  /\ keys \in [Holder -> AnyKey]
  /\ origin \in [Holder -> [root : Root, path : Seq(Data)]]
  /\ \A h \in Holder : ComesFrom(keys[h], origin[h])

(* A path leads to one key.                                                *)
LEMMA OnePath ==
  ASSUME NEW o, Len(o.path) \in Nat, NEW P, NEW R, Reached(o, P), Reached(o, R)
  PROVE  P = R
  <1> DEFINE n == Len(o.path)
  <1>1. PICK g : Path(g, o, P)
    BY DEF Reached
  <1>2. PICK f : Path(f, o, R)
    BY DEF Reached
  <1> DEFINE S == {j \in Nat : j <= n => g[j] = f[j]}
  <1>3. 0 \in S
    BY <1>1, <1>2 DEF Path
  <1>4. ASSUME NEW j \in Nat, j \in S PROVE j + 1 \in S
    <2> SUFFICES ASSUME j + 1 <= n PROVE g[j + 1] = f[j + 1]
      OBVIOUS
    <2>1. g[j] = f[j] /\ j \in 0 .. n - 1
      BY <1>4
    <2> QED BY <1>1, <1>2, <2>1 DEF Path
  <1>5. n \in S
    <2> HIDE DEF S
    <2> QED BY <1>3, <1>4, SetInduction
  <1> QED BY <1>1, <1>2, <1>5 DEF Path

(* A child derived from a reached point is reached by the longer path.     *)
LEMMA PathGrows ==
  ASSUME NEW o \in [root : Root, path : Seq(Data)], NEW P, Reached(o, P), NEW data \in Data
  PROVE  Reached([o EXCEPT !.path = Append(@, data)], DerivePoint(P, data))
  <1> DEFINE n == Len(o.path)
             u == [o EXCEPT !.path = Append(@, data)]
  <1>1. PICK g : Path(g, o, P)
    BY DEF Reached
  <1> DEFINE f == [j \in 0 .. n + 1 |-> IF j = n + 1 THEN DerivePoint(P, data) ELSE g[j]]
  <1>2. /\ u.root = o.root /\ u.path = Append(o.path, data) /\ n \in Nat
        /\ Len(u.path) = n + 1 /\ u.path[n + 1] = data
        /\ \A j \in 1 .. n : u.path[j] = o.path[j]
    OBVIOUS
  <1> HIDE DEF u
  <1>3. f[0] = PublicKey(u.root) /\ f[n + 1] = DerivePoint(P, data)
    BY <1>1, <1>2 DEF Path
  <1>4. ASSUME NEW j \in 0 .. n PROVE f[j + 1] = DerivePoint(f[j], u.path[j + 1])
    <2>1. CASE j = n
      <3>1. f[n] = P
        BY <1>1, <1>2 DEF Path
      <3> QED BY <1>2, <1>3, <2>1, <3>1
    <2>2. CASE j < n
      <3>1. f[j] = g[j] /\ f[j + 1] = g[j + 1] /\ j \in 0 .. n - 1 /\ j + 1 \in 1 .. n
        BY <1>2, <2>2
      <3>2. g[j + 1] = DerivePoint(g[j], o.path[j + 1])
        BY <1>1, <3>1 DEF Path
      <3> QED BY <1>2, <3>1, <3>2
    <2> QED BY <1>2, <2>1, <2>2
  <1> HIDE DEF f
  <1>5. Path(f, u, DerivePoint(P, data))
    BY <1>2, <1>3, <1>4 DEF Path
  <1> QED BY <1>5 DEF Reached, u

-----------------------------------------------------------------------------
(* The child's public key is the one derived from the public key alone,    *)
(* whichever type derives it.                                              *)
LEMMA ChildIs ==
  ASSUME NEW key \in AnyKey, Matched(key), NEW data \in Data
  PROVE  /\ Child(key, data) \in AnyKey
         /\ Matched(Child(key, data))
         /\ PublicOf(Child(key, data)) = DerivePoint(PublicOf(key), data)
  <1>1. /\ \A P \in Point : Tweak(P, data) \in Scalar
        /\ \A P \in Point : DerivePoint(P, data) \in Point
        /\ \A s \in Scalar : PublicKey(s) \in Point
        /\ Absent \notin Scalar /\ Absent \notin Point
    BY KeyConstants, CurveTypes DEF DerivePoint, PublicKey
  <1>2. ASSUME NEW s \in Scalar
        PROVE  /\ SAdd(s, Tweak(PublicKey(s), data)) \in Scalar
               /\ PublicKey(SAdd(s, Tweak(PublicKey(s), data))) = DerivePoint(PublicKey(s), data)
    <2> DEFINE t == Tweak(PublicKey(s), data)
    <2>1. t \in Scalar /\ PublicKey(s) \in Point
      BY <1>1
    <2> HIDE DEF t
    <2>2. SAdd(s, t) \in Scalar /\ PMul(SAdd(s, t), G) = PAdd(PMul(s, G), PMul(t, G))
      BY <2>1, KeyConstants, Additivity
    <2> QED BY <2>2 DEF PublicKey, DerivePoint, t
  <1>3. CASE key \in Pairs
    <2> DEFINE P == key.public
               s == key.secret
    <2>1. key.type = "KeyPair" /\ P \in Point /\ s \in Scalar \cup {Absent}
      BY <1>3 DEF Pairs
    <2>2. Child(key, data) = DerivePair(key, data) /\ PublicOf(key) = P
      BY <2>1 DEF Child, PublicOf
    <2>3. CASE s = Absent
      <3>1. DerivePair(key, data) = KeyPair(Absent, DerivePoint(P, data))
        BY <2>3 DEF DerivePair, HasSecret, DerivePoint
      <3> QED BY <1>1, <2>1, <2>2, <3>1 DEF KeyPair, AnyKey, Pairs, Matched, HasSecret, PublicOf
    <2>4. CASE s # Absent
      <3>1. P = PublicKey(s) /\ s \in Scalar
        BY <1>1, <2>1, <2>4 DEF Matched, HasSecret
      <3>2. DerivePair(key, data) = KeyPair(SAdd(s, Tweak(P, data)), DerivePoint(P, data))
        BY <2>4 DEF DerivePair, HasSecret, DerivePoint
      <3>3. SAdd(s, Tweak(P, data)) \in Scalar
            /\ PublicKey(SAdd(s, Tweak(P, data))) = DerivePoint(P, data)
        BY <1>2, <3>1
      <3> QED BY <1>1, <2>1, <2>2, <3>2, <3>3 DEF KeyPair, AnyKey, Pairs, Matched, HasSecret,
                                                 PublicOf
    <2> QED BY <2>3, <2>4
  <1>4. CASE key \in ScalarKeys
    <2>1. key.type = "Scalar" /\ key.secret \in Scalar
      BY <1>4 DEF ScalarKeys
    <2>2. Child(key, data) = ScalarKey(DeriveScalar(key.secret, data))
      BY <2>1 DEF Child
    <2>3. /\ DeriveScalar(key.secret, data) \in Scalar
          /\ PublicKey(DeriveScalar(key.secret, data)) = DerivePoint(PublicOf(key), data)
      BY <1>2, <2>1 DEF DeriveScalar, PublicOf
    <2> QED BY <2>1, <2>2, <2>3 DEF ScalarKey, AnyKey, ScalarKeys, Matched, PublicOf
  <1>5. CASE key \in PointKeys
    <2>1. key.type = "Point" /\ key.public \in Point
      BY <1>5 DEF PointKeys
    <2>2. Child(key, data) = PointKey(DerivePoint(key.public, data)) /\ PublicOf(key) = key.public
      BY <2>1 DEF Child, PublicOf
    <2> QED BY <1>1, <2>1, <2>2 DEF PointKey, AnyKey, PointKeys, Matched, HasSecret, PublicOf
  <1> QED BY <1>3, <1>4, <1>5 DEF AnyKey

(* A generated key pair is matched.                                        *)
LEMMA NewPairIs ==
  ASSUME NEW s \in Scalar
  PROVE  /\ NewKeyPair(s) \in AnyKey
         /\ Matched(NewKeyPair(s))
         /\ PublicOf(NewKeyPair(s)) = PublicKey(s)
  BY KeyTypes DEF NewKeyPair, KeyPair, AnyKey, Pairs, Matched, PublicOf

(* Converting a key, or sending it, leaves its public key as it was.       *)
LEMMA ConversionIs ==
  ASSUME NEW key \in AnyKey, Matched(key), NEW new \in Conversions(key)
  PROVE  new \in AnyKey /\ Matched(new) /\ PublicOf(new) = PublicOf(key)
  <1>1. /\ \A s \in Scalar : PublicKey(s) \in Point
        /\ Absent \notin Scalar /\ Absent \notin Point
    BY KeyConstants, KeyTypes
  <1>2. CASE key \in Pairs
    <2>1. key.type = "KeyPair" /\ key.public \in Point /\ key.secret \in Scalar \cup {Absent}
          /\ PublicOf(key) = key.public
      BY <1>2 DEF Pairs, PublicOf
    <2>2. CASE new = PointKey(key.public)
      BY <2>1, <2>2 DEF PointKey, AnyKey, PointKeys, Matched, HasSecret, PublicOf
    <2>3. CASE HasSecret(key) /\ new = ScalarKey(key.secret)
      <3>1. key.secret \in Scalar /\ key.public = PublicKey(key.secret)
        BY <1>1, <2>1, <2>3 DEF HasSecret, Matched
      <3> QED BY <2>1, <2>3, <3>1 DEF ScalarKey, AnyKey, ScalarKeys, Matched, PublicOf
    <2>4. new \in {PointKey(key.public)} \cup
                  (IF HasSecret(key) THEN {ScalarKey(key.secret)} ELSE {})
      BY <2>1 DEF Conversions
    <2> QED BY <2>2, <2>3, <2>4
  <1>3. CASE key \in ScalarKeys
    <2>1. key.type = "Scalar" /\ key.secret \in Scalar /\ PublicOf(key) = PublicKey(key.secret)
      BY <1>3 DEF ScalarKeys, PublicOf
    <2>2. CASE new = NewKeyPair(key.secret)
      BY <2>1, <2>2, NewPairIs
    <2>3. CASE new = PointKey(PublicKey(key.secret))
      BY <1>1, <2>1, <2>3 DEF PointKey, AnyKey, PointKeys, Matched, HasSecret, PublicOf
    <2>4. new \in {NewKeyPair(key.secret), PointKey(PublicKey(key.secret))}
      BY <2>1 DEF Conversions
    <2> QED BY <2>2, <2>3, <2>4
  <1>4. CASE key \in PointKeys
    <2>1. key.type = "Point" /\ key.public \in Point /\ PublicOf(key) = key.public
      BY <1>4 DEF PointKeys, PublicOf
    <2>2. new = KeyPair(Absent, key.public)
      BY <2>1 DEF Conversions
    <2> QED BY <2>1, <2>2 DEF KeyPair, AnyKey, Pairs, Matched, HasSecret, PublicOf
  <1> QED BY <1>2, <1>3, <1>4 DEF AnyKey

(* What import makes of an exported key is matched, with the same public   *)
(* half.                                                                   *)
LEMMA ImportIs ==
  ASSUME NEW key \in AnyKey, Matched(key)
  PROVE  /\ FromPublic(key) \in AnyKey /\ Matched(FromPublic(key))
         /\ PublicOf(FromPublic(key)) = PublicOf(key)
         /\ HasSecret(key) =>
              /\ FromSecret(key) \in AnyKey /\ Matched(FromSecret(key))
              /\ PublicOf(FromSecret(key)) = PublicOf(key)
  <1>1. /\ \A s \in Scalar : PublicKey(s) \in Point
        /\ Absent \notin Scalar /\ Absent \notin Point
    BY KeyConstants, KeyTypes
  <1>2. PublicOf(key) \in Point
    BY <1>1 DEF PublicOf, AnyKey, Pairs, ScalarKeys, PointKeys
  <1>3. /\ FromPublic(key) \in AnyKey /\ Matched(FromPublic(key))
        /\ PublicOf(FromPublic(key)) = PublicOf(key)
    <2> DEFINE P == PublicOf(key)
    <2>1. FromPublic(key) = PointKey(P) /\ P \in Point
      BY <1>2 DEF FromPublic
    <2> HIDE DEF P
    <2>2. PointKey(P) \in AnyKey /\ Matched(PointKey(P)) /\ PublicOf(PointKey(P)) = P
      BY <2>1 DEF PointKey, AnyKey, PointKeys, Matched, HasSecret, PublicOf
    <2> QED BY <2>1, <2>2 DEF P
  <1>4. ASSUME HasSecret(key)
        PROVE  /\ FromSecret(key) \in AnyKey /\ Matched(FromSecret(key))
               /\ PublicOf(FromSecret(key)) = PublicOf(key)
    <2>1. key.secret \in Scalar
      BY <1>4 DEF HasSecret, AnyKey, Pairs, ScalarKeys, PointKeys
    <2>2. CASE key.type = "KeyPair"
      <3>1. key.public \in Point /\ FromSecret(key) = NewKeyPair(key.secret)
            /\ PublicOf(key) = key.public
        BY <2>2 DEF FromSecret, PublicOf, AnyKey, Pairs, ScalarKeys, PointKeys
      <3>2. key.public = PublicKey(key.secret)
        BY <1>1, <1>4, <3>1 DEF Matched
      <3> QED BY <2>1, <3>1, <3>2, NewPairIs
    <2>3. CASE key.type # "KeyPair"
      <3>1. key.type = "Scalar" /\ FromSecret(key) = ScalarKey(key.secret)
        BY <1>4, <2>3 DEF FromSecret, HasSecret, AnyKey, Pairs, ScalarKeys, PointKeys
      <3> QED BY <2>1, <3>1 DEF ScalarKey, AnyKey, ScalarKeys, Matched, PublicOf
    <2> QED BY <2>2, <2>3
  <1> QED BY <1>3, <1>4

(* A step that gives the holder g a key that comes from o, and leaves the  *)
(* others as they are.                                                     *)
LEMMA OneKeyChanges ==
  ASSUME KeysInv, NEW g \in Holder, NEW key, NEW o \in [root : Root, path : Seq(Data)],
         ComesFrom(key, o),
         keys' = [keys EXCEPT ![g] = key], origin' = [origin EXCEPT ![g] = o]
  PROVE  KeysInv'
  <1>1. key \in AnyKey
    BY DEF ComesFrom
  <1>2. keys' \in [Holder -> AnyKey] /\ origin' \in [Holder -> [root : Root, path : Seq(Data)]]
    BY <1>1 DEF KeysInv
  <1>3. ASSUME NEW h \in Holder PROVE ComesFrom(keys'[h], origin'[h])
    <2>1. CASE h = g
      BY <2>1 DEF KeysInv
    <2>2. CASE h # g
      <3>1. keys'[h] = keys[h] /\ origin'[h] = origin[h]
        BY <2>2 DEF KeysInv
      <3> QED BY <3>1 DEF KeysInv
    <2> QED BY <2>1, <2>2
  <1> QED BY <1>2, <1>3 DEF KeysInv

(* A generated key pair comes from its root, by no derivation.             *)
LEMMA FromRoot ==
  ASSUME NEW s \in Root
  PROVE  /\ [root |-> s, path |-> <<>>] \in [root : Root, path : Seq(Data)]
         /\ ComesFrom(NewKeyPair(s), [root |-> s, path |-> <<>>])
  <1> DEFINE o == [root |-> s, path |-> <<>>]
             g == [j \in 0 .. 0 |-> PublicKey(s)]
  <1>1. o.root = s /\ o.path = <<>> /\ Len(o.path) = 0
    OBVIOUS
  <1>2. Path(g, o, PublicKey(s))
    BY <1>1 DEF Path
  <1>3. Reached(o, PublicKey(s))
    BY <1>2 DEF Reached
  <1>4. s \in Scalar
    BY KeyConstants
  <1>5. ComesFrom(NewKeyPair(s), o)
    BY <1>3, <1>4, NewPairIs DEF ComesFrom
  <1> QED BY <1>5

(* The holders start with matched keys of their roots.                     *)
LEMMA InitialKeys ==
  ASSUME InitKeys
  PROVE  KeysInv
  <1>1. PICK s \in Root : /\ keys = [h \in Holder |-> NewKeyPair(s)]
                          /\ origin = [h \in Holder |-> [root |-> s, path |-> <<>>]]
    BY DEF InitKeys
  <1>2. /\ [root |-> s, path |-> <<>>] \in [root : Root, path : Seq(Data)]
        /\ ComesFrom(NewKeyPair(s), [root |-> s, path |-> <<>>])
    BY FromRoot
  <1>3. NewKeyPair(s) \in AnyKey
    BY <1>2 DEF ComesFrom
  <1> QED BY <1>1, <1>2, <1>3 DEF KeysInv

(* Every operation of the holders keeps their invariant.                   *)
LEMMA KeysStep ==
  ASSUME KeysInv, NextKeys
  PROVE  KeysInv'
  <1> USE DEF KeysInv
  <1>1. ASSUME NEW h \in Holder, NEW s \in Root, Generate(h, s) PROVE KeysInv'
    BY <1>1, FromRoot, OneKeyChanges DEF Generate
  <1>2. ASSUME NEW h \in Holder, NEW data \in Data, DeriveChild(h, data) PROVE KeysInv'
    <2> DEFINE key == keys[h]
               o == origin[h]
               new == Child(key, data)
               u == [o EXCEPT !.path = Append(@, data)]
    <2>1. key \in AnyKey /\ o \in [root : Root, path : Seq(Data)] /\ ComesFrom(key, o)
      OBVIOUS
    <2>2. keys' = [keys EXCEPT ![h] = new]
      BY <1>2 DEF DeriveChild
    <2>3. origin' = [origin EXCEPT ![h] = u]
      BY <1>2 DEF DeriveChild
    <2> HIDE DEF key, o
    <2>4. new \in AnyKey /\ Matched(new) /\ PublicOf(new) = DerivePoint(PublicOf(key), data)
      BY <2>1, ChildIs DEF ComesFrom
    <2>5. Reached(u, DerivePoint(PublicOf(key), data))
      BY <2>1, PathGrows DEF ComesFrom
    <2>6. u \in [root : Root, path : Seq(Data)]
      <3>1. Append(o.path, data) \in Seq(Data)
        BY <2>1
      <3> QED BY <2>1, <3>1
    <2> HIDE DEF new, u
    <2>7. ComesFrom(new, u)
      BY <2>4, <2>5 DEF ComesFrom
    <2> HIDE DEF KeysInv
    <2> QED BY <2>2, <2>3, <2>6, <2>7, OneKeyChanges
  <1>3. ASSUME NEW h \in Holder, Convert(h) PROVE KeysInv'
    <2>1. PICK new \in Conversions(keys[h]) : keys' = [keys EXCEPT ![h] = new]
      BY <1>3 DEF Convert
    <2>2. keys[h] \in AnyKey /\ origin[h] \in [root : Root, path : Seq(Data)]
          /\ Matched(keys[h]) /\ Reached(origin[h], PublicOf(keys[h]))
      BY DEF ComesFrom
    <2>3. new \in AnyKey /\ Matched(new) /\ PublicOf(new) = PublicOf(keys[h])
      BY <2>2, ConversionIs
    <2>4. ComesFrom(new, origin[h])
      BY <2>2, <2>3 DEF ComesFrom
    <2>5. origin' = [origin EXCEPT ![h] = origin[h]]
      BY <1>3 DEF Convert
    <2> HIDE DEF KeysInv
    <2> QED BY <2>1, <2>2, <2>4, <2>5, OneKeyChanges
  <1>4. CASE UNCHANGED <<keys, origin>>
    BY <1>4
  <1>5. ASSUME NEW h \in Holder, NEW g \in Holder, SendSecret(h, g) \/ SendPublic(h, g)
        PROVE  KeysInv'
    <2> DEFINE key == keys[h]
    <2>1. key \in AnyKey /\ origin[h] \in [root : Root, path : Seq(Data)]
          /\ Matched(key) /\ Reached(origin[h], PublicOf(key))
      BY DEF ComesFrom
    <2>2. CASE HasSecret(key) /\ keys' = [keys EXCEPT ![g] = FromSecret(key)]
               /\ origin' = [origin EXCEPT ![g] = origin[h]]
      <3> HIDE DEF key
      <3>1. ComesFrom(FromSecret(key), origin[h])
        BY <2>1, <2>2, ImportIs DEF ComesFrom
      <3> HIDE DEF KeysInv
      <3> QED BY <2>1, <2>2, <3>1, OneKeyChanges
    <2>3. CASE keys' = [keys EXCEPT ![g] = FromPublic(key)]
               /\ origin' = [origin EXCEPT ![g] = origin[h]]
      <3> HIDE DEF key
      <3>1. ComesFrom(FromPublic(key), origin[h])
        BY <2>1, ImportIs DEF ComesFrom
      <3> HIDE DEF KeysInv
      <3> QED BY <2>1, <2>3, <3>1, OneKeyChanges
    <2> QED BY <1>4, <1>5, <2>2, <2>3 DEF SendSecret, SendPublic
  <1> QED BY <1>1, <1>2, <1>3, <1>4, <1>5 DEF NextKeys, ImportDamaged

(* The keys' invariant gives the properties of keys.                       *)
LEMMA KeysAgree ==
  ASSUME KeysInv
  PROVE  KeysMatch /\ SamePathSameKey
  <1>1. KeysMatch
    BY DEF KeysInv, ComesFrom, Matched, KeysMatch
  <1>2. ASSUME NEW h \in Holder, NEW g \in Holder, origin[h] = origin[g]
        PROVE  PublicOf(keys[h]) = PublicOf(keys[g])
    <2> DEFINE o == origin[h]
               P == PublicOf(keys[h])
               R == PublicOf(keys[g])
    <2>1. o \in [root : Root, path : Seq(Data)] /\ Reached(o, P) /\ Reached(o, R)
      BY <1>2 DEF KeysInv, ComesFrom
    <2>2. Len(o.path) \in Nat
      BY <2>1
    <2> HIDE DEF o, P, R
    <2>3. P = R
      BY <2>1, <2>2, OnePath
    <2> QED BY <2>3 DEF P, R
  <1> QED BY <1>1, <1>2 DEF SamePathSameKey

-----------------------------------------------------------------------------
(* The rings calls are made with, and what is passed to sign over them.    *)
RingOk(r) ==
  /\ r.compressed \in Seq(Point)
  /\ RingLen(r) \in 1 .. MaxRing
  /\ IsDecompressed(r) => r.points = r.compressed

SigningArgs(a) ==
  /\ RingOk(a.ring)
  /\ a.secret \in Scalar
  /\ a.message \in Message
  /\ a.draw.nonce \in Scalar
  /\ a.draw.responses \in Vec(RingLen(a.ring), Scalar)

(* The prepared data hashes each member to its point.                      *)
Hashes(d, r) ==
  \A i \in 0 .. RingLen(r) - 1 : HashedPoint(d, r, i) = HashToPoint(AsVec(r.points)[i])

(* Prepared data that passes the guards is that of the ring.               *)
LEMMA PreparedIs ==
  ASSUME NEW r, RingOk(r), IsDecompressed(r), NEW d \in Preparations(r),
         ~Mismatched(d, r), ~Invalid(d, r)
  PROVE  d \in {Nil, PreparedOf(r)} /\ Hashes(d, r)
  <1> DEFINE s == r.compressed
             n == RingLen(r)
             hs == [i \in 1 .. n |-> HashToPoint(s[i])]
             gs == [i \in 1 .. n |-> G]
  <1>1. s \in Seq(Point) /\ Len(s) = n /\ n \in 1 .. MaxRing /\ r.points = s
    BY DEF RingOk, RingLen
  <1>2. MaxRing \in Nat
    BY WalletConstants
  <1>3. PreparedOf(r) = [ring_hash |-> [suite |-> Suite, members |-> s], hashed_points |-> hs]
    BY DEF PreparedOf, Prepared, CanonicalHash
  <1>4. CASE d # Nil
    <2>1. d.ring_hash = [suite |-> Suite, members |-> s] /\ Len(d.hashed_points) = n
      BY <1>4 DEF Mismatched, SameRing, Invalid, CanonicalHash
    <2>2. ASSUME d = Prepared(r, <<>>) PROVE FALSE
      <3>1. Len(d.hashed_points) = 0
        BY <2>2 DEF Prepared
      <3> QED BY <1>1, <1>2, <2>1, <3>1
    <2>3. ASSUME d = PreparedOf(FullRing(gs)) PROVE d = PreparedOf(r)
      <3>1. RingLen(FullRing(gs)) = n
        BY <1>1, <1>2 DEF RingLen, FullRing
      <3>2. d = [ring_hash |-> [suite |-> Suite, members |-> gs],
                 hashed_points |-> [i \in 1 .. n |-> HashToPoint(gs[i])]]
        BY <2>3, <3>1 DEF PreparedOf, Prepared, CanonicalHash, FullRing
      <3>3. gs = s
        BY <2>1, <3>2
      <3> QED BY <1>3, <3>2, <3>3
    <2>4. d = PreparedOf(r)
      BY <1>4, <2>2, <2>3 DEF Preparations
    <2>5. \A i \in 0 .. n - 1 : HashedPoint(d, r, i) = HashToPoint(AsVec(r.points)[i])
      <3> SUFFICES ASSUME NEW i \in 0 .. n - 1
                   PROVE  HashedPoint(d, r, i) = HashToPoint(AsVec(r.points)[i])
        OBVIOUS
      <3>1. i + 1 \in 1 .. n
        BY <1>1, <1>2
      <3>2. d.hashed_points[i + 1] = HashToPoint(s[i + 1])
        BY <1>3, <2>4, <3>1
      <3>3. AsVec(r.points)[i] = s[i + 1]
        BY <1>1 DEF AsVec
      <3> QED BY <1>4, <3>2, <3>3 DEF HashedPoint
    <2> QED BY <2>4, <2>5 DEF Hashes
  <1>5. CASE d = Nil
    <2>1. \A i \in 0 .. n - 1 : AsVec(r.points)[i] = r.points[i + 1]
      BY <1>1 DEF AsVec
    <2>2. \A i \in 0 .. n - 1 : HashedPoint(d, r, i) = HashToPoint(r.points[i + 1])
      BY <1>5 DEF HashedPoint
    <2>3. \A i \in 0 .. n - 1 : HashedPoint(d, r, i) = HashToPoint(AsVec(r.points)[i])
      BY <2>1, <2>2
    <2>4. d \in {Nil, PreparedOf(r)}
      BY <1>5
    <2> QED BY <2>3, <2>4 DEF Hashes
  <1> QED BY <1>4, <1>5

(* Data that is refused is not the preparation of the ring.                *)
LEMMA RefusedData ==
  ASSUME NEW r, RingLen(r) \in Nat, NEW d, Mismatched(d, r) \/ Invalid(d, r)
  PROVE  d \notin {Nil, PreparedOf(r)}
  <1>1. PreparedOf(r).ring_hash = CanonicalHash(Suite, r)
    BY DEF PreparedOf, Prepared
  <1>2. Len(PreparedOf(r).hashed_points) = RingLen(r)
    BY DEF PreparedOf, Prepared
  <1> QED BY <1>1, <1>2 DEF Mismatched, SameRing, Invalid

(* The points of a decompressed ring, as the functions index them.         *)
LEMMA VecOfRing ==
  ASSUME NEW r, RingOk(r), IsDecompressed(r)
  PROVE  /\ RingLen(r) \in Nat \ {0}
         /\ RingLen(r) \in 1 .. MaxRing
         /\ AsVec(r.points) \in Vec(RingLen(r), Point)
         /\ \A i \in 0 .. RingLen(r) - 1 :
              AsVec(r.points)[i] = r.points[i + 1] /\ AsVec(r.points)[i] = r.compressed[i + 1]
  <1> DEFINE s == r.compressed
  <1>1. s \in Seq(Point) /\ r.points = s /\ Len(s) \in 1 .. MaxRing /\ MaxRing \in Nat
        /\ RingLen(r) = Len(s)
    BY WalletConstants DEF RingOk, RingLen
  <1> HIDE DEF s
  <1>2. AsVec(s) = [i \in 0 .. Len(s) - 1 |-> s[i + 1]]
    BY DEF AsVec
  <1>3. \A i \in 0 .. Len(s) - 1 : s[i + 1] \in Point
    BY <1>1
  <1>4. AsVec(s) \in Vec(Len(s), Point)
    BY <1>2, <1>3 DEF Vec
  <1> QED BY <1>1, <1>2, <1>4 DEF s

-----------------------------------------------------------------------------
(* How far the loop of signing has come: ch stands for the challenges of   *)
(* all members, as the closed form has them.                               *)
Place0(a, index, ch) ==
  GoesAround(ch, NonceChallenge(a.message, a.draw.nonce, HashToPoint(PublicKey(a.secret))),
             KeyImage(a.secret), AsVec(a.ring.points), RingLen(a.ring), index, a.message,
             a.draw.responses)

Around(a, index, turns, c, c0) ==
  \A ch : Place0(a, index, ch) =>
    /\ c = ch[(index + 1 + turns) % RingLen(a.ring)]
    /\ index + 1 + turns >= RingLen(a.ring) => c0 = ch[0]

SigningInv ==
  pc = "signing" =>
    /\ SigningArgs(args)
    /\ IsDecompressed(args.ring)
    /\ Hashes(args.prepared, args.ring)
    /\ locals.index \in 0 .. RingLen(args.ring) - 1
    /\ AsVec(args.ring.points)[locals.index] = PublicKey(args.secret)
    /\ locals.image = KeyImage(args.secret)
    /\ total = RingLen(args.ring) - 1
    /\ step \in 0 .. total
    /\ Around(args, locals.index, step, challenge, c_0)

(* How far the loop of verifying has come: w is the walk of Verify.        *)
Follows(w, a) ==
  /\ w[0] = a.signature.challenge
  /\ \A j \in 0 .. RingLen(a.ring) - 1 :
       w[j + 1] = NextChallenge(a.message, a.signature.responses[j], w[j],
                                AsVec(a.ring.points)[j],
                                HashToPoint(AsVec(a.ring.points)[j]), a.signature.key_image)

Walked(a, turns, c) == \A w : Follows(w, a) => c = w[turns]

VerifyingInv ==
  pc = "verifying" =>
    /\ RingOk(args.ring)
    /\ IsDecompressed(args.ring)
    /\ args.prepared \in {Nil, PreparedOf(args.ring)}
    /\ Hashes(args.prepared, args.ring)
    /\ args.message \in Message
    /\ args.signature.challenge \in Scalar
    /\ args.signature.responses \in Vec(RingLen(args.ring), Scalar)
    /\ args.signature.key_image \in Point
    /\ locals = Nil
    /\ total = RingLen(args.ring)
    /\ step \in 0 .. total
    /\ Walked(args, step, challenge)

SignedInv ==
  outcome = "Signed" =>
    /\ SigningArgs(args)
    /\ IsDecompressed(args.ring)
    /\ signature \in [challenge : Scalar, responses : Vec(RingLen(args.ring), Scalar),
                     key_image : {KeyImage(args.secret)}]

(* What the callback was told last: the turns of whole chunks, or all.     *)
MeterInv ==
  /\ pc # "idle" => done <= step /\ step <= total /\ step - done < Chunk(total)
  /\ pc # "idle" => done % Chunk(total) = 0 \/ done = total
  /\ pc # "idle" => (step = total => done = total)

StateInv ==
  /\ pc \in {"idle", "signing", "verifying"}
  /\ pc = "idle" => locals = Nil /\ total = 0 /\ step = 0 /\ done = 0
  /\ pc # "idle" => outcome = "None"
  /\ total \in 0 .. MaxRing /\ step \in Nat /\ done \in Nat
  /\ MeterInv

CallsInv ==
  StateInv /\ SigningInv /\ VerifyingInv /\ SignedInv /\ SignsAlike /\ ProgressVerdictIsVerify

-----------------------------------------------------------------------------
(* A chunk has at least one turn.                                          *)
LEMMA ChunkIs ==
  ASSUME NEW n \in Nat
  PROVE  Chunk(n) \in Nat \ {0}
  BY DEF Chunk

(* The multiple after a multiple.                                          *)
LEMMA NextMultiple ==
  ASSUME NEW c \in Nat \ {0}, NEW x \in Nat, x % c = 0
  PROVE  (x + c) % c = 0
  <1> DEFINE q == x \div c
             p == (x + c) \div c
             r == (x + c) % c
             e == p - q - 1
  <1>1. q \in Int /\ p \in Int /\ r \in 0 .. c - 1
    OBVIOUS
  <1>2. x = c * q
    OBVIOUS
  <1>3. x + c = c * p + r
    OBVIOUS
  <1> HIDE DEF q, p, r
  <1>4. c * e + r = 0 /\ e \in Int
    BY <1>1, <1>2, <1>3
  <1> HIDE DEF e
  <1>5. e >= 1 => c * e >= c
    BY <1>4
  <1>6. e <= -1 => c * e <= -c
    BY <1>4
  <1>7. e = 0 => r = 0
    BY <1>1, <1>4
  <1>8. r = 0
    <2>1. c * e \in Int
      BY <1>4
    <2>2. ~(e >= 1) /\ ~(e <= -1)
      BY <1>1, <1>4, <1>5, <1>6, <2>1
    <2> QED BY <1>4, <1>7, <2>2
  <1> QED BY <1>8 DEF r

(* What one turn more tells the callback.                                  *)
LEMMA OneTurnTold ==
  ASSUME NEW n \in Nat, NEW s \in Nat, s < n, NEW d \in Nat, d <= s, s - d < Chunk(n),
         d % Chunk(n) = 0 \/ d = n
  PROVE  /\ Told(s + 1, n, d) \in Nat
         /\ Told(s + 1, n, d) <= s + 1
         /\ s + 1 - Told(s + 1, n, d) < Chunk(n)
         /\ Told(s + 1, n, d) % Chunk(n) = 0 \/ Told(s + 1, n, d) = n
         /\ s + 1 = n => Told(s + 1, n, d) = n
         /\ Told(s + 1, n, d) = d \/ Told(s + 1, n, d) - d \in 1 .. Chunk(n)
  <1> DEFINE c == Chunk(n)
             t == Told(s + 1, n, d)
  <1>1. c \in Nat \ {0}
    BY ChunkIs
  <1>2. d % c = 0
    OBVIOUS
  <1>3. t = IF (s + 1) % c = 0 \/ s + 1 = n THEN s + 1 ELSE d
    BY DEF Told, Reports
  <1>4. s - d < c
    OBVIOUS
  <1> HIDE DEF c, t
  <1>5. CASE (s + 1) % c = 0 \/ s + 1 = n
    <2>1. t = s + 1
      BY <1>3, <1>5
    <2>2. s + 1 - t < c /\ t - d \in 1 .. c /\ t \in Nat /\ t <= s + 1
      BY <1>1, <1>4, <2>1
    <2> QED BY <1>5, <2>1, <2>2 DEF c, t
  <1>6. CASE ~((s + 1) % c = 0 \/ s + 1 = n)
    <2>1. t = d
      BY <1>3, <1>6
    <2>2. s + 1 # d + c
      BY <1>1, <1>2, <1>6, NextMultiple
    <2>3. s + 1 - t < c
      BY <1>1, <1>4, <2>1, <2>2
    <2> QED BY <1>2, <1>6, <2>1, <2>3 DEF c, t
  <1> QED BY <1>5, <1>6

-----------------------------------------------------------------------------
(* The challenge from the nonce is where the way around the ring begins.   *)
LEMMA AroundBegins ==
  ASSUME NEW a, NEW n \in Nat \ {0}, n = RingLen(a.ring), NEW index \in 0 .. n - 1,
         NEW c, c = NonceChallenge(a.message, a.draw.nonce, HashToPoint(PublicKey(a.secret)))
  PROVE  Around(a, index, 0, c, InitialC0(index, n, c))
  <1> SUFFICES ASSUME NEW ch, Place0(a, index, ch)
               PROVE  /\ c = ch[(index + 1 + 0) % n]
                      /\ index + 1 + 0 >= n => InitialC0(index, n, c) = ch[0]
    BY DEF Around
  <1>1. ch[(index + 1) % n] = c
    BY DEF Place0, GoesAround
  <1>2. index + 1 + 0 = index + 1
    OBVIOUS
  <1>3. ASSUME index + 1 >= n PROVE InitialC0(index, n, c) = ch[0]
    <2>1. index = n - 1 /\ (index + 1) % n = 0
      BY <1>3, NextIndexIs
    <2> QED BY <1>1, <2>1 DEF InitialC0
  <1> QED BY <1>1, <1>2, <1>3

(* A turn of the signing loop is one step on the way around the ring.      *)
LEMMA AroundTurns ==
  ASSUME NEW a, NEW n \in Nat \ {0}, n = RingLen(a.ring), NEW index \in 0 .. n - 1,
         NEW turns \in Nat, turns < n - 1, NEW c, NEW c0, Around(a, index, turns, c, c0),
         NEW i, i = (index + 1 + turns) % n,
         NEW c2, c2 = NextChallenge(a.message, a.draw.responses[i], c, AsVec(a.ring.points)[i],
                                    HashToPoint(AsVec(a.ring.points)[i]), KeyImage(a.secret))
  PROVE  /\ i \in 0 .. n - 1
         /\ Around(a, index, turns + 1, c2, IF i = n - 1 THEN c2 ELSE c0)
  <1> DEFINE x == index + 1 + turns
  <1>1. x \in 0 .. 2 * n - 2 /\ x \in 0 .. 2 * n - 1 /\ x # n + index /\ index + 1 + (turns + 1) = x + 1 /\ x # index
    OBVIOUS
  <1>2. i = x % n
    OBVIOUS
  <1> HIDE DEF x
  <1>3. i = IF x < n THEN x ELSE x - n
    BY <1>1, <1>2, ModOnce
  <1>4. i \in (0 .. n - 1) \ {index}
    BY <1>1, <1>3
  <1>5. (i + 1) % n = IF i + 1 < n THEN i + 1 ELSE 0
    BY <1>4, NextIndexIs
  <1>6. (x + 1) % n = IF x + 1 < n THEN x + 1 ELSE x + 1 - n
    <2> DEFINE y == x + 1
    <2>1. y \in 0 .. 2 * n - 1
      BY <1>1
    <2> HIDE DEF y
    <2>2. y % n = IF y < n THEN y ELSE y - n
      BY <2>1, ModOnce
    <2> QED BY <1>1, <2>2 DEF y
  <1>7. (x + 1) % n = (i + 1) % n
    <2>1. CASE x < n
      <3>1. i = x /\ x + 1 <= n
        BY <1>1, <1>3, <2>1
      <3>2. CASE x + 1 < n
        BY <1>5, <1>6, <3>1, <3>2
      <3>3. CASE x + 1 = n
        <4>1. (i + 1) % n = 0
          BY <1>5, <3>1, <3>3
        <4>2. (x + 1) % n = x + 1 - n /\ x + 1 - n = 0
          BY <1>1, <1>6, <3>3
        <4> QED BY <4>1, <4>2
      <3> QED BY <1>1, <3>1, <3>2, <3>3
    <2>2. CASE ~(x < n)
      <3>1. i = x - n /\ i + 1 < n /\ i + 1 = x + 1 - n /\ ~(x + 1 < n)
        BY <1>1, <1>3, <1>4, <2>2
      <3>2. (x + 1) % n = x + 1 - n
        BY <1>6, <3>1
      <3>3. (i + 1) % n = i + 1
        BY <1>5, <3>1
      <3> QED BY <3>1, <3>2, <3>3
    <2> QED BY <2>1, <2>2
  <1>8. ASSUME NEW ch, Place0(a, index, ch)
        PROVE  /\ c2 = ch[(x + 1) % n]
               /\ x + 1 >= n => (IF i = n - 1 THEN c2 ELSE c0) = ch[0]
    <2>1. c = ch[i] /\ (x >= n => c0 = ch[0])
      BY <1>8 DEF Around, x
    <2>2. ch[(i + 1) % n] = NextChallenge(a.message, a.draw.responses[i], ch[i],
                                AsVec(a.ring.points)[i],
                                HashToPoint(AsVec(a.ring.points)[i]), KeyImage(a.secret))
      BY <1>4, <1>8 DEF Place0, GoesAround
    <2>3. c2 = ch[(i + 1) % n]
      BY <2>1, <2>2
    <2>4. ASSUME x + 1 >= n PROVE (IF i = n - 1 THEN c2 ELSE c0) = ch[0]
      <3>1. CASE x >= n
        <4>1. i # n - 1
          BY <1>1, <1>3, <3>1
        <4> QED BY <2>1, <3>1, <4>1
      <3>2. CASE x = n - 1
        <4>1. i = n - 1 /\ (i + 1) % n = 0
          BY <1>3, <1>5, <3>2
        <4> QED BY <2>3, <4>1
      <3>3. x >= n \/ x = n - 1
        BY <1>1, <2>4
      <3> QED BY <3>1, <3>2, <3>3
    <2> QED BY <1>7, <2>3, <2>4
  <1>9. Around(a, index, turns + 1, c2, IF i = n - 1 THEN c2 ELSE c0)
    BY <1>1, <1>8 DEF Around
  <1> QED BY <1>4, <1>9

(* All the turns taken, what is returned is what the closed form makes.    *)
LEMMA AroundReturns ==
  ASSUME NEW a, SigningArgs(a), IsDecompressed(a.ring),
         NEW index \in 0 .. RingLen(a.ring) - 1,
         AsVec(a.ring.points)[index] = PublicKey(a.secret),
         NEW c, NEW c0, Around(a, index, RingLen(a.ring) - 1, c, c0)
  PROVE  /\ [challenge |-> c0,
             responses |-> [a.draw.responses EXCEPT ![index] =
                              ClosingResponse(a.draw.nonce, c, a.secret)],
             key_image |-> KeyImage(a.secret)]
              = SignWith(a.secret, AsVec(a.ring.points), RingLen(a.ring), index,
                         HashedPoints(AsVec(a.ring.points), RingLen(a.ring)), a.message,
                         a.draw.nonce, a.draw.responses)
         /\ c0 \in Scalar
         /\ [a.draw.responses EXCEPT ![index] = ClosingResponse(a.draw.nonce, c, a.secret)]
              \in Vec(RingLen(a.ring), Scalar)
  <1> DEFINE n == RingLen(a.ring)
             V == AsVec(a.ring.points)
             k == a.secret
             m == a.message
             rs == a.draw.responses
             nonce == a.draw.nonce
             c1 == NonceChallenge(m, nonce, HashToPoint(PublicKey(k)))
             I == KeyImage(k)
  <1>1. /\ n \in Nat \ {0} /\ V \in Vec(n, Point) /\ k \in Scalar /\ nonce \in Scalar
        /\ rs \in Vec(n, Scalar) /\ \A L, R \in Point : Challenge(m, L, R) \in Scalar
        /\ index \in 0 .. n - 1 /\ V[index] = PublicKey(k)
    BY VecOfRing, WalletConstants DEF SigningArgs
  <1> HIDE DEF n, V, k, m, rs, nonce
  <1>2. PublicKey(k) \in Point /\ I \in Point
    BY <1>1, KeyTypes
  <1>3. c1 \in Scalar
    BY <1>1, <1>2, NextChallengeIsScalar
  <1>4. \A j \in 0 .. n - 1, x \in Scalar :
          NextChallenge(m, rs[j], x, V[j], HashToPoint(V[j]), I) \in Scalar
    <2> SUFFICES ASSUME NEW j \in 0 .. n - 1, NEW x \in Scalar
                 PROVE  NextChallenge(m, rs[j], x, V[j], HashToPoint(V[j]), I) \in Scalar
      OBVIOUS
    <2>1. rs[j] \in Scalar /\ V[j] \in Point
      BY <1>1 DEF Vec
    <2> QED BY <1>1, <1>2, <2>1, NextChallengeIsScalar
  <1> HIDE DEF c1, I
  <1>5. PICK ch : GoesAround(ch, c1, I, V, n, index, m, rs)
    BY <1>1, <1>3, <1>4, AroundExists
  <1>6. Place0(a, index, ch)
    BY <1>5 DEF Place0, n, V, k, m, rs, nonce, c1, I
  <1>7. ch \in Vec(n, Scalar)
    BY <1>5 DEF GoesAround
  <1>8. (index + 1 + (n - 1)) % n = index
    <2> DEFINE x == index + 1 + (n - 1)
    <2>1. x \in 0 .. 2 * n - 1 /\ x = n + index
      BY <1>1
    <2> HIDE DEF x
    <2>2. x % n = IF x < n THEN x ELSE x - n
      BY <1>1, <2>1, ModOnce
    <2>3. x % n = index
      BY <1>1, <2>1, <2>2
    <2> QED BY <2>3 DEF x
  <1>9. c = ch[index] /\ c0 = ch[0]
    <2>1. index + 1 + (n - 1) >= n
      BY <1>1
    <2> QED BY <1>6, <1>8, <2>1 DEF Around, n
  <1>10. SignWith(k, V, n, index, HashedPoints(V, n), m, nonce, rs)
           = [challenge |-> ch[0],
              responses |-> [rs EXCEPT ![index] = ClosingResponse(nonce, ch[index], k)],
              key_image |-> KeyImage(k)]
    <2>1. GoesAround(ch, NonceChallenge(m, nonce, HashToPoint(PublicKey(k))), KeyImage(k),
                     V, n, index, m, rs)
      BY <1>5 DEF c1, I
    <2> QED BY <1>1, <2>1, SignWithIs
  <1>11. ch[0] \in Scalar /\ ch[index] \in Scalar
    BY <1>1, <1>7 DEF Vec
  <1>12. ClosingResponse(nonce, ch[index], k) \in Scalar
    BY <1>1, <1>11, CurveTypes DEF ClosingResponse
  <1>13. [rs EXCEPT ![index] = ClosingResponse(nonce, c, k)] \in Vec(n, Scalar)
    BY <1>1, <1>9, <1>12 DEF Vec
  <1> QED BY <1>9, <1>10, <1>11, <1>13 DEF n, V, k, m, rs, nonce

-----------------------------------------------------------------------------
(* A turn of the verifying loop is one step of the walk of verify.         *)
LEMMA WalkedTurns ==
  ASSUME NEW a, NEW turns \in 0 .. RingLen(a.ring) - 1, NEW c, Walked(a, turns, c)
  PROVE  Walked(a, turns + 1,
           NextChallenge(a.message, a.signature.responses[turns], c,
                         AsVec(a.ring.points)[turns],
                         HashToPoint(AsVec(a.ring.points)[turns]), a.signature.key_image))
  BY DEF Walked, Follows

(* All the turns taken, the comparison is that of Verify.                  *)
LEMMA WalkedReturns ==
  ASSUME NEW a, RingOk(a.ring), IsDecompressed(a.ring), a.message \in Message,
         a.signature.challenge \in Scalar,
         a.signature.responses \in Vec(RingLen(a.ring), Scalar),
         a.signature.key_image \in Point,
         NEW c, Walked(a, RingLen(a.ring), c)
  PROVE  c = a.signature.challenge
           <=> Verify(a.signature, AsVec(a.ring.points), RingLen(a.ring), a.message)
  <1> DEFINE n == RingLen(a.ring)
             V == AsVec(a.ring.points)
             m == a.message
             sig == a.signature
             hp == HashedPoints(V, n)
             rs == sig.responses
             I == sig.key_image
  <1>1. /\ n \in Nat \ {0} /\ V \in Vec(n, Point)
        /\ \A L, R \in Point : Challenge(m, L, R) \in Scalar
        /\ sig.challenge \in Scalar /\ rs \in Vec(n, Scalar) /\ I \in Point
    BY VecOfRing, WalletConstants
  <1>2. Walked(a, n, c)
    OBVIOUS
  <1> HIDE DEF n, V, m, sig
  <1>3. \A j \in 0 .. n - 1 : hp[j] = HashToPoint(V[j])
    BY DEF HashedPoints
  <1> HIDE DEF hp
  <1>4. WalkTyped(sig, V, n, hp, m)
    <2> SUFFICES ASSUME NEW j \in 0 .. n - 1, NEW x \in Scalar
                 PROVE  NextChallenge(m, rs[j], x, V[j], hp[j], I) \in Scalar
      BY <1>1 DEF WalkTyped
    <2>1. rs[j] \in Scalar /\ V[j] \in Point /\ hp[j] = HashToPoint(V[j])
      BY <1>1, <1>3 DEF Vec
    <2> HIDE DEF rs, I
    <2>2. NextChallenge(m, rs[j], x, V[j], HashToPoint(V[j]), I) \in Scalar
      BY <1>1, <2>1, NextChallengeIsScalar
    <2> QED BY <2>1, <2>2
  <1>5. HasWalk(sig, V, n, hp, m)
    BY <1>1, <1>4, VerifyWithWalk
  <1>6. PICK w \in Vec(n + 1, Scalar) :
          /\ w[0] = sig.challenge
          /\ \A j \in 0 .. n - 1 : w[j + 1] = NextChallenge(m, rs[j], w[j], V[j], hp[j], I)
          /\ VerifyWith(sig, V, n, hp, m) <=> w[n] = sig.challenge
    BY <1>5 DEF HasWalk
  <1>7. Follows(w, a)
    BY <1>3, <1>6 DEF Follows, n, V, m, sig
  <1>8. c = w[n]
    BY <1>2, <1>7 DEF Walked
  <1>9. VerifyWith(sig, V, n, hp, m) <=> c = sig.challenge
    BY <1>6, <1>8
  <1> QED BY <1>9 DEF Verify, n, V, m, sig, hp

-----------------------------------------------------------------------------
(* What calls do to their state.                                           *)
LEMMA CallsUnchanged ==
  ASSUME CallsInv, UNCHANGED callVars
  PROVE  CallsInv'
  BY DEF CallsInv, callVars, StateInv, MeterInv, SigningInv, VerifyingInv, SignedInv,
         SignsAlike, ProgressVerdictIsVerify

(* No call is in progress at first.                                        *)
LEMMA InitialCalls ==
  ASSUME InitCalls
  PROVE  CallsInv
  BY WalletConstants DEF InitCalls, CallsInv, StateInv, MeterInv, SigningInv, VerifyingInv,
                         SignedInv, SignsAlike, ProgressVerdictIsVerify

(* A call that is refused by a guard changes nothing the invariant is      *)
(* about.                                                                  *)
LEMMA RefusedSign ==
  ASSUME CallsInv, pc = "idle", NEW error, NEW a, Refused(error, a),
         error \notin {"Signed", "Valid", "Invalid"}
  PROVE  CallsInv'
  BY DEF Refused, CallsInv, StateInv, MeterInv, SigningInv, VerifyingInv, SignedInv,
         SignsAlike, ProgressVerdictIsVerify

(* A signing call that passes the guards begins its way around the ring.   *)
LEMMA BeginSignStep ==
  ASSUME CallsInv, NEW k \in Scalar, NEW r, RingOk(r), NEW d \in Preparations(r),
         NEW m \in Message, NEW draw \in Draws(RingLen(r)), BeginSign(k, r, d, m, draw)
  PROVE  CallsInv'
  <1> DEFINE a == [secret |-> k, ring |-> r, prepared |-> d, message |-> m, draw |-> draw]
             places == {i \in 1 .. RingLen(r) : r.compressed[i] = PublicKey(k)}
             n == RingLen(r)
             first == NonceChallenge(m, draw.nonce, HashToPoint(PublicKey(k)))
  <1>1. pc = "idle"
    BY DEF BeginSign
  <1>2. CASE \E error \in {"CompressedRing", "SignerNotFound", "RingMismatch",
                           "InvalidPrecomputedData"} : Refused(error, a)
    BY <1>1, <1>2, RefusedSign
  <1>3. ASSUME IsDecompressed(r), ~Mismatched(d, r), ~Invalid(d, r),
               Begins("signing", a, n - 1, first), NEW found \in places,
               locals' = [index |-> found - 1, image |-> SigningImage(k, d, r)],
               c_0' = InitialC0(found - 1, n, first)
        PROVE  CallsInv'
    <2> DEFINE pi == found - 1
    <2>1. /\ n \in Nat \ {0} /\ n \in 1 .. MaxRing
          /\ \A i \in 0 .. n - 1 : AsVec(r.points)[i] = r.compressed[i + 1]
      BY <1>3, VecOfRing
    <2>2. MaxRing \in Nat
      BY WalletConstants
    <2>3. found \in 1 .. n /\ r.compressed[found] = PublicKey(k)
      OBVIOUS
    <2>4. /\ args' = a /\ pc' = "signing" /\ total' = n - 1 /\ challenge' = first
          /\ outcome' = "None" /\ signature' = Nil /\ step' = 0 /\ done' = 0
          /\ locals'.index = pi /\ locals'.image = KeyImage(k)
          /\ c_0' = InitialC0(pi, n, first)
      BY <1>1, <1>3 DEF Begins, CallsInv, StateInv, SigningImage
    <2> HIDE DEF n, places
    <2>5. pi \in 0 .. n - 1 /\ pi + 1 = found
      BY <2>1, <2>3
    <2> HIDE DEF pi
    <2>6. AsVec(r.points)[pi] = PublicKey(k)
      BY <2>1, <2>3, <2>5
    <2>7. SigningArgs(a)
      <3>1. draw.nonce \in Scalar /\ draw.responses \in Vec(RingLen(r), Scalar)
        BY <2>1, WalletConstants DEF n
      <3> QED BY <3>1 DEF SigningArgs
    <2>8. Hashes(d, r)
      BY <1>3, PreparedIs
    <2>9. Around(a, pi, 0, first, InitialC0(pi, n, first))
      <3>1. n = RingLen(a.ring)
            /\ first = NonceChallenge(a.message, a.draw.nonce, HashToPoint(PublicKey(a.secret)))
        BY DEF n
      <3> HIDE DEF a, first
      <3> QED BY <2>1, <2>5, <3>1, AroundBegins
    <2>10. a.ring = r /\ a.prepared = d /\ a.secret = k
      OBVIOUS
    <2> HIDE DEF a, first
    <2>11. SigningInv'
      BY <1>3, <2>1, <2>4, <2>5, <2>6, <2>7, <2>8, <2>9, <2>10 DEF SigningInv, n
    <2>12. StateInv'
      <3>1. total' \in 0 .. MaxRing /\ total' \in Nat
        BY <2>1, <2>2, <2>4
      <3>2. Chunk(total') \in Nat \ {0}
        BY <3>1, ChunkIs
      <3>3. 0 % Chunk(total') = 0
        BY <3>2
      <3>4. MeterInv'
        BY <2>4, <3>1, <3>2, <3>3 DEF MeterInv
      <3> QED BY <2>4, <3>1, <3>4 DEF StateInv
    <2> QED BY <2>4, <2>11, <2>12 DEF CallsInv, VerifyingInv, SignedInv, SignsAlike,
                                     ProgressVerdictIsVerify
  <1> QED BY <1>2, <1>3 DEF BeginSign

(* A verifying call begins the walk, or returns at a guard.                *)
LEMMA BeginVerifyStep ==
  ASSUME CallsInv, NEW r, RingOk(r), NEW d, IsDecompressed(r) => d \in Preparations(r),
         NEW m \in Message, NEW sig, sig.challenge \in Scalar, sig.key_image \in Point,
         \A i \in DOMAIN sig.responses : sig.responses[i] \in Scalar,
         sig.responses = [i \in DOMAIN sig.responses |-> sig.responses[i]],
         BeginVerify(sig, r, d, m)
  PROVE  CallsInv'
  <1> DEFINE a == [signature |-> sig, ring |-> r, prepared |-> d, message |-> m]
             n == RingLen(r)
             rejects == \/ ~IsDecompressed(r)
                        \/ DOMAIN sig.responses # 0 .. n - 1
                        \/ Mismatched(d, r)
                        \/ Invalid(d, r)
  <1>1. pc = "idle"
    BY DEF BeginVerify
  <1>2. n \in 1 .. MaxRing /\ MaxRing \in Nat
    BY WalletConstants DEF RingOk
  <1>3. CASE rejects /\ Refused("Invalid", a)
    <2>1. args' = a /\ outcome' = "Invalid"
      BY <1>3 DEF Refused
    <2>2. \/ ~IsDecompressed(r)
          \/ DOMAIN sig.responses # 0 .. n - 1
          \/ d \notin {Nil, PreparedOf(r)}
      BY <1>2, <1>3, RefusedData
    <2>3. ProgressVerdictIsVerify'
      BY <2>1, <2>2 DEF ProgressVerdictIsVerify
    <2>4. StateInv' /\ SigningInv' /\ VerifyingInv' /\ SignedInv' /\ SignsAlike'
      BY <1>1, <1>3 DEF Refused, CallsInv, StateInv, MeterInv, SigningInv, VerifyingInv,
                        SignedInv, SignsAlike
    <2> QED BY <2>3, <2>4 DEF CallsInv
  <1>4. CASE ~rejects /\ Begins("verifying", a, n, sig.challenge) /\ UNCHANGED <<locals, c_0>>
    <2>1. /\ args' = a /\ pc' = "verifying" /\ total' = n /\ challenge' = sig.challenge
          /\ outcome' = "None" /\ signature' = Nil /\ step' = 0 /\ done' = 0 /\ locals' = Nil
      BY <1>1, <1>4 DEF Begins, CallsInv, StateInv
    <2>2. d \in {Nil, PreparedOf(r)} /\ Hashes(d, r) /\ IsDecompressed(r)
      BY <1>4, PreparedIs
    <2>3. sig.responses \in Vec(n, Scalar)
      BY <1>4 DEF Vec
    <2>4. Walked(a, 0, sig.challenge)
      BY DEF Walked, Follows
    <2>5. a.ring = r /\ a.prepared = d /\ a.message = m /\ a.signature = sig
      OBVIOUS
    <2> HIDE DEF a, rejects, n
    <2>6. VerifyingInv'
      BY <1>2, <2>1, <2>2, <2>3, <2>4, <2>5 DEF VerifyingInv, n
    <2>7. StateInv'
      <3>1. total' \in 0 .. MaxRing /\ total' \in Nat /\ total' # 0
        BY <1>2, <2>1
      <3>2. Chunk(total') \in Nat \ {0}
        BY <3>1, ChunkIs
      <3>3. 0 % Chunk(total') = 0
        BY <3>2
      <3>4. MeterInv'
        BY <2>1, <3>1, <3>2, <3>3 DEF MeterInv
      <3> QED BY <2>1, <3>1, <3>4 DEF StateInv
    <2> QED BY <2>1, <2>6, <2>7 DEF CallsInv, SigningInv, SignedInv, SignsAlike,
                                     ProgressVerdictIsVerify
  <1> QED BY <1>3, <1>4 DEF BeginVerify

(* A turn of the signing loop.                                             *)
LEMMA SignTurnStep ==
  ASSUME CallsInv, SignTurn
  PROVE  CallsInv'
  <1> DEFINE r == args.ring
             n == RingLen(r)
             V == AsVec(r.points)
             pi == locals.index
             i == (pi + 1 + step) % n
             c2 == NextChallenge(args.message, args.draw.responses[i], challenge, V[i],
                                 HashToPoint(V[i]), KeyImage(args.secret))
  <1>1. /\ pc = "signing" /\ SigningArgs(args) /\ RingOk(r) /\ IsDecompressed(r)
        /\ Hashes(args.prepared, r) /\ pi \in 0 .. n - 1 /\ V[pi] = PublicKey(args.secret)
        /\ locals.image = KeyImage(args.secret)
        /\ total = n - 1 /\ step \in 0 .. total /\ Around(args, pi, step, challenge, c_0)
    BY DEF SignTurn, CallsInv, SigningInv, SigningArgs
  <1>2. /\ n \in Nat \ {0} /\ n \in 1 .. MaxRing
        /\ \A j \in 0 .. n - 1 : V[j] = r.points[j + 1]
    BY <1>1, VecOfRing
  <1>3. /\ Turn(i, args.draw.responses[i], locals.image)
        /\ c_0' = IF i = n - 1 THEN challenge' ELSE c_0
    BY DEF SignTurn
  <1>4. /\ step < total /\ step' = step + 1 /\ done' = Told(step + 1, total, done)
        /\ pc' = pc /\ args' = args /\ locals' = locals /\ total' = total
        /\ outcome' = outcome /\ signature' = signature
        /\ challenge' = NextChallenge(args.message, args.draw.responses[i], challenge,
                                      r.points[i + 1], HashedPoint(args.prepared, r, i),
                                      locals.image)
    BY <1>3 DEF Turn
  <1> HIDE DEF n, V, pi, i
  <1>5. /\ i \in 0 .. n - 1
        /\ Around(args, pi, step + 1, c2, IF i = n - 1 THEN c2 ELSE c_0)
    <2>1. n = RingLen(args.ring) /\ i = (pi + 1 + step) % n /\ step \in Nat /\ step < n - 1
      BY <1>1, <1>2, <1>4 DEF n, i
    <2>2. c2 = NextChallenge(args.message, args.draw.responses[i], challenge,
                             AsVec(args.ring.points)[i],
                             HashToPoint(AsVec(args.ring.points)[i]), KeyImage(args.secret))
      BY DEF V
    <2> HIDE DEF c2, r
    <2> QED BY <1>1, <1>2, <2>1, <2>2, AroundTurns
  <1>6. challenge' = c2
    <2>1. HashedPoint(args.prepared, r, i) = HashToPoint(V[i])
      BY <1>1, <1>5 DEF Hashes, n, V
    <2>2. V[i] = r.points[i + 1]
      BY <1>2, <1>5
    <2> QED BY <1>1, <1>4, <2>1, <2>2
  <1> HIDE DEF c2
  <1>7. Around(args, pi, step', challenge', c_0')
    BY <1>3, <1>4, <1>5, <1>6
  <1>8. step' \in 0 .. total
    BY <1>1, <1>2, <1>4
  <1>9. SigningInv'
    BY <1>1, <1>4, <1>7, <1>8 DEF SigningInv, r, n, V, pi
  <1>10. StateInv'
    <2>1. StateInv /\ MeterInv
      BY DEF CallsInv, StateInv
    <2>2. total \in Nat /\ step \in Nat /\ done \in Nat /\ step < total
      BY <1>1, <1>2, <1>4, <2>1 DEF StateInv
    <2>3. done <= step /\ step - done < Chunk(total)
          /\ (done % Chunk(total) = 0 \/ done = total)
      BY <1>1, <2>1 DEF MeterInv
    <2>4. /\ done' \in Nat /\ done' <= step' /\ step' - done' < Chunk(total)
          /\ (done' % Chunk(total) = 0 \/ done' = total)
          /\ (step' = total => done' = total)
      BY <1>4, <2>2, <2>3, OneTurnTold
    <2>5. MeterInv'
      BY <1>4, <1>8, <2>2, <2>4 DEF MeterInv
    <2> QED BY <1>1, <1>4, <2>1, <2>2, <2>4, <2>5 DEF StateInv
  <1> QED BY <1>1, <1>4, <1>9, <1>10 DEF CallsInv, StateInv, VerifyingInv, SignedInv, SignsAlike,
                                          ProgressVerdictIsVerify

(* A turn of the verifying loop.                                           *)
LEMMA VerifyTurnStep ==
  ASSUME CallsInv, VerifyTurn
  PROVE  CallsInv'
  <1> DEFINE r == args.ring
             n == RingLen(r)
             V == AsVec(r.points)
             sig == args.signature
             c2 == NextChallenge(args.message, sig.responses[step], challenge, V[step],
                                 HashToPoint(V[step]), sig.key_image)
  <1>1. /\ pc = "verifying" /\ RingOk(r) /\ IsDecompressed(r)
        /\ Hashes(args.prepared, r)
        /\ total = n /\ step \in 0 .. total /\ Walked(args, step, challenge)
    BY DEF VerifyTurn, CallsInv, VerifyingInv
  <1>2. /\ n \in Nat \ {0} /\ n \in 1 .. MaxRing
        /\ \A j \in 0 .. n - 1 : V[j] = r.points[j + 1]
    BY <1>1, VecOfRing
  <1>3. /\ step < total /\ step' = step + 1 /\ done' = Told(step + 1, total, done)
        /\ pc' = pc /\ args' = args /\ locals' = locals /\ total' = total
        /\ outcome' = outcome /\ signature' = signature
        /\ challenge' = NextChallenge(args.message, sig.responses[step], challenge,
                                      r.points[step + 1], HashedPoint(args.prepared, r, step),
                                      sig.key_image)
    BY DEF VerifyTurn, Turn
  <1>4. step \in 0 .. n - 1
    BY <1>1, <1>2, <1>3
  <1>5. Walked(args, step + 1, c2)
    BY <1>1, <1>4, WalkedTurns
  <1>6. challenge' = c2
    <2>1. HashedPoint(args.prepared, r, step) = HashToPoint(V[step])
      BY <1>1, <1>4 DEF Hashes
    <2>2. V[step] = r.points[step + 1]
      BY <1>2, <1>4
    <2> HIDE DEF n, V, sig, r
    <2> QED BY <1>3, <2>1, <2>2
  <1> HIDE DEF c2
  <1>7. Walked(args, step', challenge')
    BY <1>3, <1>5, <1>6
  <1>8. step' \in 0 .. total
    BY <1>1, <1>2, <1>3
  <1>9. VerifyingInv'
    BY <1>3, <1>7, <1>8 DEF VerifyingInv, CallsInv
  <1>10. StateInv'
    <2>1. StateInv /\ MeterInv
      BY DEF CallsInv, StateInv
    <2>2. total \in Nat /\ step \in Nat /\ done \in Nat /\ step < total
      BY <1>1, <1>2, <1>3, <2>1 DEF StateInv
    <2>3. done <= step /\ step - done < Chunk(total)
          /\ (done % Chunk(total) = 0 \/ done = total)
      BY <1>1, <2>1 DEF MeterInv
    <2>4. /\ done' \in Nat /\ done' <= step' /\ step' - done' < Chunk(total)
          /\ (done' % Chunk(total) = 0 \/ done' = total)
          /\ (step' = total => done' = total)
      BY <1>3, <2>2, <2>3, OneTurnTold
    <2>5. MeterInv'
      BY <1>3, <1>8, <2>2, <2>4 DEF MeterInv
    <2> QED BY <1>1, <1>3, <2>1, <2>2, <2>4, <2>5 DEF StateInv
  <1> QED BY <1>1, <1>3, <1>9, <1>10 DEF CallsInv, StateInv, SigningInv, SignedInv, SignsAlike,
                                          ProgressVerdictIsVerify

(* A call that returns leaves no call in progress.                         *)
LEMMA ReturnedState ==
  ASSUME CallsInv, NEW what, NEW sig, Returns(what, sig)
  PROVE  StateInv' /\ SigningInv' /\ VerifyingInv'
  BY WalletConstants DEF Returns, StateInv, MeterInv, SigningInv, VerifyingInv

(* Signing ends with the signature that signing at once makes.             *)
LEMMA EndSignStep ==
  ASSUME CallsInv, EndSign
  PROVE  CallsInv'
  <1> DEFINE r == args.ring
             n == RingLen(r)
             V == AsVec(r.points)
             pi == locals.index
             k == args.secret
             rs == [args.draw.responses EXCEPT ![pi] =
                      ClosingResponse(args.draw.nonce, challenge, k)]
             sig == [challenge |-> c_0, responses |-> rs, key_image |-> KeyImage(k)]
  <1>1. /\ pc = "signing" /\ SigningArgs(args) /\ RingOk(r) /\ IsDecompressed(r)
        /\ pi \in 0 .. n - 1 /\ V[pi] = PublicKey(k)
        /\ locals.image = KeyImage(k)
        /\ total = n - 1 /\ Around(args, pi, step, challenge, c_0)
    BY DEF EndSign, CallsInv, SigningInv, SigningArgs
  <1>2. step = total /\ outcome' = "Signed" /\ signature' = sig /\ args' = args
    BY <1>1 DEF EndSign, Returns
  <1>3. StateInv' /\ SigningInv' /\ VerifyingInv'
    BY ReturnedState DEF EndSign
  <1>4. /\ sig = SignWith(k, V, n, pi, HashedPoints(V, n), args.message, args.draw.nonce,
                          args.draw.responses)
        /\ c_0 \in Scalar /\ rs \in Vec(n, Scalar)
    <2>1. Around(args, pi, n - 1, challenge, c_0)
      BY <1>1, <1>2
    <2> HIDE DEF pi
    <2> QED BY <1>1, <2>1, AroundReturns
  <1>5. sig \in [challenge : Scalar, responses : Vec(n, Scalar), key_image : {KeyImage(k)}]
    BY <1>4
  <1> HIDE DEF sig, rs
  <1>6. SignedInv'
    BY <1>1, <1>2, <1>5 DEF SignedInv
  <1>7. SignsAlike'
    BY <1>1, <1>2, <1>4 DEF SignsAlike
  <1>8. ProgressVerdictIsVerify'
    BY <1>2 DEF ProgressVerdictIsVerify
  <1> QED BY <1>3, <1>6, <1>7, <1>8 DEF CallsInv

(* Verifying ends with the verdict that verifying at once gives.           *)
LEMMA EndVerifyStep ==
  ASSUME CallsInv, EndVerify
  PROVE  CallsInv'
  <1> DEFINE r == args.ring
             n == RingLen(r)
             V == AsVec(r.points)
             sig == args.signature
             valid == challenge = sig.challenge
  <1>1. /\ pc = "verifying" /\ RingOk(r) /\ IsDecompressed(r)
        /\ args.prepared \in {Nil, PreparedOf(r)} /\ args.message \in Message
        /\ sig.challenge \in Scalar /\ sig.responses \in Vec(n, Scalar)
        /\ sig.key_image \in Point
        /\ total = n /\ Walked(args, step, challenge)
    BY DEF EndVerify, CallsInv, VerifyingInv
  <1>2. step = total /\ args' = args /\ outcome' = IF valid THEN "Valid" ELSE "Invalid"
    BY DEF EndVerify, Returns
  <1>3. StateInv' /\ SigningInv' /\ VerifyingInv'
    BY ReturnedState DEF EndVerify
  <1>4. valid <=> Verify(sig, V, n, args.message)
    <2>1. Walked(args, n, challenge)
      BY <1>1, <1>2
    <2> QED BY <1>1, <2>1, WalkedReturns
  <1>5. DOMAIN sig.responses = 0 .. n - 1
    BY <1>1 DEF Vec
  <1> HIDE DEF valid
  <1>6. outcome' = "Valid" <=> valid
    BY <1>2
  <1>7. ProgressVerdictIsVerify'
    BY <1>1, <1>2, <1>4, <1>5, <1>6 DEF ProgressVerdictIsVerify
  <1>8. outcome' # "Signed"
    BY <1>2
  <1> QED BY <1>3, <1>7, <1>8 DEF CallsInv, SignedInv, SignsAlike

-----------------------------------------------------------------------------
(* The calls of the callback, as Meter allows them.                        *)
Moves == Meter!Next \/ UNCHANGED Meter!vars

(* A call that begins is a meter that starts.                              *)
LEMMA BeginMoves ==
  ASSUME CallsInv, CallsInv', pc = "idle", pc' # "idle", UNCHANGED <<step, done>>
  PROVE  Moves
  <1>1. done = 0 /\ done' = 0 /\ total' \in 0 .. MaxRing
    BY DEF CallsInv, StateInv
  <1>2. Meter!Start
    BY <1>1 DEF Meter!Start
  <1> QED BY <1>2 DEF Moves, Meter!Next

(* A turn moves the meter or leaves it.                                    *)
LEMMA TurnMoves ==
  ASSUME CallsInv, pc # "idle", NEW i, NEW response, NEW image, Turn(i, response, image)
  PROVE  Moves
  <1>1. /\ step < total /\ done' = Told(step + 1, total, done) /\ UNCHANGED <<pc, total>>
    BY DEF Turn
  <1>2. StateInv /\ MeterInv
    BY DEF CallsInv, StateInv
  <1>3. /\ total \in Nat /\ step \in Nat /\ done \in Nat
        /\ done <= step /\ step - done < Chunk(total)
        /\ (done % Chunk(total) = 0 \/ done = total)
    BY <1>2, WalletConstants DEF StateInv, MeterInv
  <1>4. /\ done' = done \/ done' - done \in 1 .. Chunk(total)
        /\ done' \in Nat /\ done' <= step + 1
    BY <1>1, <1>3, OneTurnTold
  <1>5. CASE done' = done
    BY <1>1, <1>5 DEF Moves, Meter!vars
  <1>6. CASE done' - done \in 1 .. Chunk(total)
    <2> DEFINE s == done' - done
    <2>1. s \in 1 .. Meter!LargestStep
      BY <1>6 DEF Meter!LargestStep, Chunk
    <2>2. done + s <= total /\ done' = done + s
      BY <1>1, <1>3, <1>4
    <2>3. Meter!Report
      <3> HIDE DEF s
      <3> QED BY <1>1, <2>1, <2>2 DEF Meter!Report
    <2> QED BY <2>3 DEF Moves, Meter!Next
  <1> QED BY <1>4, <1>5, <1>6

(* A call that returns is a meter that stops.                              *)
LEMMA ReturnMoves ==
  ASSUME CallsInv, pc # "idle", NEW what, NEW sig, Returns(what, sig)
  PROVE  Moves
  <1>1. done = total
    BY DEF Returns, CallsInv, StateInv, MeterInv
  <1>2. Meter!Finish
    BY <1>1 DEF Meter!Finish, Returns
  <1> QED BY <1>2 DEF Moves, Meter!Next

(* Every step of a call keeps the invariant and moves the meter.           *)
LEMMA CallSteps ==
  ASSUME CallsInv, CallStep
  PROVE  CallsInv' /\ Moves
  <1>1. CASE SignTurn
    BY <1>1, SignTurnStep, TurnMoves DEF SignTurn
  <1>2. CASE EndSign
    BY <1>2, EndSignStep, ReturnMoves DEF EndSign
  <1>3. CASE VerifyTurn
    BY <1>3, VerifyTurnStep, TurnMoves DEF VerifyTurn
  <1>4. CASE EndVerify
    BY <1>4, EndVerifyStep, ReturnMoves DEF EndVerify
  <1> QED BY <1>1, <1>2, <1>3, <1>4 DEF CallStep

-----------------------------------------------------------------------------
(* A holder is told that a ring lacks its key only if the ring was made    *)
(* for a key that came by another path.                                    *)
PartiesInv ==
  outcome = "SignerNotFound" => origin[parties.signer] # origin[parties.member]

IInv == KeysInv /\ CallsInv /\ PartiesInv

(* The rings put together around a public key.                             *)
LEMMA RingsAre ==
  ASSUME NEW P \in Point, NEW r \in RingsWith(P)
  PROVE  RingOk(r) /\ \E i \in 1 .. RingLen(r) : r.compressed[i] = P
  <1>1. PICK decoys \in Decoys :
          r \in {FullRing(SortByBytes(Append(decoys, P))),
                 CompressedRing(SortByBytes(Append(decoys, P)))}
    BY DEF RingsWith
  <1> DEFINE t == Append(decoys, P)
             s == SortByBytes(t)
  <1>2. decoys \in Seq(Point) /\ Len(decoys) < MaxRing /\ MaxRing \in Nat
        /\ \A c \in Point : Bytes(c) \in Int
    BY WalletConstants
  <1>3. t \in Seq(Point) /\ Len(t) = Len(decoys) + 1 /\ Len(decoys) \in Nat
        /\ t[Len(t)] = P
    BY <1>2
  <1> HIDE DEF t
  <1>4. s \in Seq(Point) /\ Len(s) = Len(t)
    BY <1>2, <1>3, SortSorts
  <1>5. Range(s) = Range(t)
    BY <1>2, <1>3, SortKeepsMembers
  <1> HIDE DEF s
  <1>6. \E i \in 1 .. Len(s) : s[i] = P
    <2>1. DOMAIN s = 1 .. Len(s) /\ DOMAIN t = 1 .. Len(t) /\ Len(t) \in 1 .. Len(t)
      BY <1>3, <1>4
    <2>2. P \in Range(t)
      BY <1>3, <2>1 DEF Range
    <2> QED BY <1>5, <2>1, <2>2 DEF Range
  <1>7. r = FullRing(s) \/ r = CompressedRing(s)
    BY <1>1 DEF s, t
  <1>8. r.compressed = s /\ (IsDecompressed(r) => r.points = s)
    BY <1>7 DEF FullRing, CompressedRing, IsDecompressed
  <1>9. Len(s) \in 1 .. MaxRing
    BY <1>2, <1>3, <1>4
  <1> QED BY <1>4, <1>6, <1>8, <1>9 DEF RingOk, RingLen

(* Beginning to sign starts the meter or leaves it.                        *)
LEMMA BeginSignMoves ==
  ASSUME CallsInv, CallsInv', NEW k, NEW r, NEW d, NEW m, NEW draw, BeginSign(k, r, d, m, draw)
  PROVE  Moves
  <1> DEFINE a == [secret |-> k, ring |-> r, prepared |-> d, message |-> m, draw |-> draw]
  <1>1. CASE \E error : Refused(error, a)
    BY <1>1 DEF Refused, Moves, Meter!vars
  <1>2. CASE \E n, first : Begins("signing", a, n, first)
    <2>1. pc = "idle" /\ pc' # "idle" /\ UNCHANGED <<step, done>>
      BY <1>2 DEF Begins, BeginSign
    <2> QED BY <2>1, BeginMoves
  <1> QED BY <1>1, <1>2 DEF BeginSign

(* Beginning to verify starts the meter or leaves it.                      *)
LEMMA BeginVerifyMoves ==
  ASSUME CallsInv, CallsInv', NEW sig, NEW r, NEW d, NEW m, BeginVerify(sig, r, d, m)
  PROVE  Moves
  <1> DEFINE a == [signature |-> sig, ring |-> r, prepared |-> d, message |-> m]
  <1>1. CASE \E error : Refused(error, a)
    BY <1>1 DEF Refused, Moves, Meter!vars
  <1>2. CASE \E n, first : Begins("verifying", a, n, first)
    <2>1. pc = "idle" /\ pc' # "idle" /\ UNCHANGED <<step, done>>
      BY <1>2 DEF Begins, BeginVerify
    <2> QED BY <2>1, BeginMoves
  <1> QED BY <1>1, <1>2 DEF BeginVerify

(* A holder calls the signing function with a ring of another's key.       *)
LEMMA StartSignStep ==
  ASSUME IInv, NEW h \in Holder, NEW g \in Holder, StartSign(h, g)
  PROVE  IInv' /\ Moves
  <1> DEFINE k == keys[h].secret
             P == PublicOf(keys[g])
  <1>1. KeysInv /\ CallsInv
    BY DEF IInv
  <1>2. PICK r \in RingsWith(P), m \in Message :
          \E d \in Preparations(r), draw \in Draws(RingLen(r)) : BeginSign(k, r, d, m, draw)
    BY DEF StartSign
  <1>3. PICK d \in Preparations(r), draw \in Draws(RingLen(r)) : BeginSign(k, r, d, m, draw)
    BY <1>2
  <1>4. /\ keys[h] \in AnyKey /\ keys[g] \in AnyKey /\ HasSecret(keys[h])
        /\ parties' = [signer |-> h, member |-> g] /\ UNCHANGED keyVars
    BY <1>1 DEF StartSign, KeysInv
  <1>5. k \in Scalar /\ PublicOf(keys[h]) = PublicKey(k)
    <2>1. KeysMatch
      BY <1>1, KeysAgree
    <2>2. k \in Scalar
      BY <1>4 DEF HasSecret, AnyKey, Pairs, ScalarKeys, PointKeys
    <2>3. CASE keys[h].type = "Scalar"
      BY <2>2, <2>3 DEF PublicOf
    <2>4. CASE keys[h].type # "Scalar"
      <3>1. keys[h].public # Absent
        BY <1>4, <2>4, KeyConstants DEF AnyKey, Pairs, ScalarKeys, PointKeys
      <3> QED BY <1>4, <2>1, <2>2, <2>4, <3>1 DEF KeysMatch, PublicOf
    <2> QED BY <2>2, <2>3, <2>4
  <1>6. P \in Point
    <2>1. \A s \in Scalar : PublicKey(s) \in Point
      BY KeyTypes
    <2> QED BY <1>4, <2>1 DEF PublicOf, AnyKey, Pairs, ScalarKeys, PointKeys
  <1> HIDE DEF P
  <1>7. RingOk(r) /\ \E i \in 1 .. RingLen(r) : r.compressed[i] = P
    BY <1>6, RingsAre
  <1> HIDE DEF k
  <1>8. CallsInv'
    BY <1>1, <1>3, <1>5, <1>7, BeginSignStep
  <1>9. KeysInv'
    BY <1>1, <1>4 DEF KeysInv, keyVars
  <1>10. PartiesInv'
    <2> SUFFICES ASSUME outcome' = "SignerNotFound", origin[h] = origin[g] PROVE FALSE
      BY <1>4 DEF PartiesInv, keyVars
    <2>1. P = PublicKey(k)
      BY <1>1, <1>5, KeysAgree DEF SamePathSameKey, P
    <2>2. {i \in 1 .. RingLen(r) : r.compressed[i] = PublicKey(k)} = {}
      BY <1>3 DEF BeginSign, Refused, Begins
    <2> QED BY <1>7, <2>1, <2>2
  <1>11. Moves
    BY <1>1, <1>3, <1>8, BeginSignMoves
  <1> QED BY <1>8, <1>9, <1>10, <1>11 DEF IInv

(* Someone calls the verifying function on the last signature.             *)
LEMMA StartVerifyStep ==
  ASSUME IInv, StartVerify
  PROVE  IInv' /\ Moves
  <1>1. KeysInv /\ CallsInv /\ outcome = "Signed" /\ UNCHANGED keyVars
    BY DEF IInv, StartVerify
  <1> DEFINE r0 == args.ring
             r1 == CompressedRing(r0.compressed)
             n == RingLen(r0)
             X == [challenge : Scalar, responses : Vec(n, Scalar),
                   key_image : {KeyImage(args.secret)}]
  <1>2. /\ RingOk(r0) /\ IsDecompressed(r0) /\ args.message \in Message
        /\ args.secret \in Scalar /\ signature \in X
    BY <1>1 DEF CallsInv, SignedInv, SigningArgs
  <1>3. PICK sig \in Received(signature, r0), d \in Preparations(r0), r \in {r0, r1} :
          BeginVerify(sig, r, d, args.message)
    BY DEF StartVerify
  <1>4. RingOk(r) /\ (IsDecompressed(r) => r = r0)
    <2>1. RingOk(r1) /\ ~IsDecompressed(r1)
      BY <1>2 DEF RingOk, RingLen, CompressedRing, IsDecompressed
    <2> QED BY <1>2, <2>1
  <1>5. n \in 1 .. MaxRing /\ MaxRing \in Nat /\ KeyImage(args.secret) \in Point
    BY <1>2, WalletConstants, KeyTypes DEF RingOk
  <1>6. /\ sig.challenge \in Scalar /\ sig.key_image \in Point
        /\ \A i \in DOMAIN sig.responses : sig.responses[i] \in Scalar
        /\ sig.responses = [i \in DOMAIN sig.responses |-> sig.responses[i]]
    <2> DEFINE sg == signature
               rs == sg.responses
    <2>1. sg.challenge \in Scalar /\ rs \in Vec(n, Scalar) /\ sg.key_image \in Point
      BY <1>2, <1>5
    <2>2. sg = [challenge |-> sg.challenge, responses |-> rs, key_image |-> sg.key_image]
      BY <1>2
    <2> DEFINE Ok(x) == /\ x.challenge \in Scalar /\ x.key_image \in Point
                        /\ \A i \in DOMAIN x.responses : x.responses[i] \in Scalar
                        /\ x.responses = [i \in DOMAIN x.responses |-> x.responses[i]]
    <2> HIDE DEF n
    <2>3. Ok(sg)
      BY <2>1 DEF Vec
    <2>4. ASSUME sig = [sg EXCEPT !.challenge = SSub(@, SSub(rs[0], sg.challenge))]
          PROVE  Ok(sig)
      <3>1. rs[0] \in Scalar
        BY <1>5, <2>1 DEF Vec
      <3>2. SSub(sg.challenge, SSub(rs[0], sg.challenge)) \in Scalar
        BY <2>1, <3>1, CurveTypes
      <3>3. sig = [challenge |-> SSub(sg.challenge, SSub(rs[0], sg.challenge)),
                   responses |-> rs, key_image |-> sg.key_image]
        BY <2>2, <2>4
      <3> QED BY <2>1, <3>2, <3>3 DEF Vec
    <2>5. ASSUME sig = [sg EXCEPT !.responses = [i \in 0 .. n - 2 |-> @[i]]] PROVE Ok(sig)
      <3> DEFINE short == [i \in 0 .. n - 2 |-> rs[i]]
      <3>1. \A i \in 0 .. n - 2 : rs[i] \in Scalar
        BY <1>5, <2>1 DEF Vec
      <3>2. sig = [challenge |-> sg.challenge, responses |-> short, key_image |-> sg.key_image]
        BY <2>2, <2>5
      <3>3. DOMAIN short = 0 .. n - 2 /\ \A i \in 0 .. n - 2 : short[i] \in Scalar
        BY <3>1
      <3>4. short = [i \in DOMAIN short |-> short[i]]
        OBVIOUS
      <3> HIDE DEF short
      <3> QED BY <2>1, <3>2, <3>3, <3>4
    <2>6. ASSUME NEW draw \in Draws(n), sig = FakeSignature(draw, sg.key_image) PROVE Ok(sig)
      <3>1. draw.nonce \in Scalar /\ draw.responses \in Vec(n, Scalar)
        BY <1>5, WalletConstants
      <3> QED BY <2>1, <2>6, <3>1 DEF FakeSignature, Vec
    <2>7. \/ sig = sg
          \/ sig = [sg EXCEPT !.challenge = SSub(@, SSub(rs[0], sg.challenge))]
          \/ sig = [sg EXCEPT !.responses = [i \in 0 .. n - 2 |-> @[i]]]
          \/ \E draw \in Draws(n) : sig = FakeSignature(draw, sg.key_image)
      BY <1>3 DEF Received, n
    <2> HIDE DEF Ok
    <2>8. Ok(sig)
      BY <2>3, <2>4, <2>5, <2>6, <2>7
    <2> QED BY <2>8 DEF Ok
  <1>7. CallsInv'
    BY <1>1, <1>2, <1>3, <1>4, <1>6, BeginVerifyStep
  <1>8. outcome' # "SignerNotFound"
    BY <1>3 DEF BeginVerify, Refused, Begins
  <1>9. KeysInv'
    BY <1>1 DEF KeysInv, keyVars
  <1>10. Moves
    BY <1>1, <1>3, <1>7, BeginVerifyMoves
  <1> QED BY <1>7, <1>8, <1>9, <1>10 DEF IInv, PartiesInv

(* Every step of the wallet keeps the invariant and moves the meter.       *)
LEMMA WalletStep ==
  ASSUME IInv, [Next]_vars
  PROVE  IInv' /\ Moves
  <1>1. KeysInv /\ CallsInv /\ PartiesInv
    BY DEF IInv
  <1>2. CASE KeyStep \/ UNCHANGED vars
    <2>1. UNCHANGED callVars
      BY <1>2 DEF KeyStep, vars
    <2>2. CallsInv'
      BY <1>1, <2>1, CallsUnchanged
    <2>3. Moves
      BY <2>1 DEF callVars, Moves, Meter!vars
    <2>4. CASE KeyStep
      <3>1. KeysInv'
        BY <1>1, <2>4, KeysStep DEF KeyStep
      <3>2. PartiesInv'
        BY <2>1, <2>4 DEF KeyStep, Free, callVars, PartiesInv
      <3> QED BY <2>2, <2>3, <3>1, <3>2 DEF IInv
    <2>5. CASE UNCHANGED vars
      <3>1. KeysInv'
        BY <1>1, <2>5 DEF vars, keyVars, KeysInv
      <3>2. PartiesInv'
        BY <1>1, <2>5 DEF vars, keyVars, callVars, PartiesInv
      <3> QED BY <2>2, <2>3, <3>1, <3>2 DEF IInv
    <2> QED BY <1>2, <2>4, <2>5
  <1>3. ASSUME NEW h \in Holder, NEW g \in Holder, StartSign(h, g) PROVE IInv' /\ Moves
    BY <1>3, StartSignStep
  <1>4. CASE StartVerify
    BY <1>4, StartVerifyStep
  <1>5. CASE Drop
    <2>1. /\ pc = "idle" /\ UNCHANGED <<keyVars, pc, locals, total, step, challenge, c_0, done>>
          /\ outcome' = "None"
      BY <1>5 DEF Drop
    <2>2. KeysInv'
      BY <1>1, <2>1 DEF keyVars, KeysInv
    <2>3. CallsInv'
      BY <1>1, <2>1 DEF CallsInv, StateInv, MeterInv, SigningInv, VerifyingInv, SignedInv,
                        SignsAlike, ProgressVerdictIsVerify
    <2>4. Moves
      BY <2>1 DEF Moves, Meter!vars
    <2> QED BY <2>1, <2>2, <2>3, <2>4 DEF IInv, PartiesInv
  <1>6. CASE CallStep /\ UNCHANGED <<keyVars, parties>>
    <2>1. CallsInv' /\ Moves
      BY <1>1, <1>6, CallSteps
    <2>2. KeysInv'
      BY <1>1, <1>6 DEF keyVars, KeysInv
    <2>3. outcome' # "SignerNotFound"
      <3>1. outcome = "None" \/ pc = "idle"
        BY <1>1 DEF CallsInv, StateInv
      <3> QED BY <1>6, <3>1 DEF CallStep, SignTurn, EndSign, VerifyTurn, EndVerify, Turn, Returns
    <2> QED BY <2>1, <2>2, <2>3 DEF IInv, PartiesInv
  <1> QED BY <1>2, <1>3, <1>4, <1>5, <1>6 DEF Next

(* The invariant holds at first.                                           *)
LEMMA InitialWallet ==
  ASSUME Init
  PROVE  IInv
  BY InitialKeys, InitialCalls DEF Init, InitCalls, IInv, PartiesInv

(* IInv is inductive.                                                      *)
THEOREM WalletInvariance == Spec => []IInv
  <1>1. Init => IInv
    BY InitialWallet
  <1>2. IInv /\ [Next]_vars => IInv'
    BY WalletStep
  <1> QED BY <1>1, <1>2, PTL DEF Spec

(* Keys are of one of the three types, and a call has the state of its     *)
(* kind: an index within the ring, turns within the loop.                  *)
THEOREM WalletTypes == Spec => []TypeOK
  <1>1. IInv => TypeOK
    <2> SUFFICES ASSUME IInv PROVE TypeOK
      OBVIOUS
    <2>1. KeysInv /\ StateInv /\ SigningInv /\ VerifyingInv /\ MeterInv
      BY DEF IInv, CallsInv, StateInv
    <2>2. ASSUME NEW h \in Holder
          PROVE  /\ keys[h] \in [type : {"KeyPair", "Scalar", "Point"},
                                secret : Scalar \cup {Absent}, public : Point \cup {Absent}]
                 /\ HasSecret(keys[h]) \/ keys[h].type # "Scalar"
                 /\ keys[h].public = Absent <=> keys[h].type = "Scalar"
      BY <2>1, KeyConstants DEF KeysInv, AnyKey, Pairs, ScalarKeys, PointKeys, HasSecret
    <2>3. pc = "signing" => locals.index \in 0 .. total /\ done \in 0 .. step /\ step \in 0 .. total
      BY <2>1 DEF SigningInv, StateInv, MeterInv
    <2>4. pc = "verifying" => locals = Nil /\ done \in 0 .. step /\ step \in 0 .. total
      BY <2>1 DEF VerifyingInv, StateInv, MeterInv
    <2>5. pc = "idle" => locals = Nil /\ total = 0 /\ step = 0 /\ done = 0
      BY <2>1 DEF StateInv
    <2> QED BY <2>2, <2>3, <2>4, <2>5 DEF TypeOK
  <1> QED BY <1>1, WalletInvariance, PTL

(* A key pair that has a secret has its public key, after any sequence of  *)
(* derivations and conversions of any length (keypair.rs:101-117).         *)
THEOREM PairsMatch == Spec => []KeysMatch
  <1>1. IInv => KeysMatch
    BY KeysAgree DEF IInv
  <1> QED BY <1>1, WalletInvariance, PTL

(* A root and the data derived with determine the public key, whichever    *)
(* types derived it on the way (keypair.rs:94-96, traits.rs:105-106).      *)
THEOREM OneKeyPerPath == Spec => []SamePathSameKey
  <1>1. IInv => SamePathSameKey
    BY KeysAgree DEF IInv
  <1> QED BY <1>1, WalletInvariance, PTL

(* Signing with progress makes what the closed form makes (sign.rs:37-39). *)
THEOREM ProgressSignsAlike == Spec => []SignsAlike
  <1>1. IInv => SignsAlike
    BY DEF IInv, CallsInv
  <1> QED BY <1>1, WalletInvariance, PTL

(* Verifying with progress decides as verify does (verify.rs:18).          *)
THEOREM ProgressVerdict == Spec => []ProgressVerdictIsVerify
  <1>1. IInv => ProgressVerdictIsVerify
    BY DEF IInv, CallsInv
  <1> QED BY <1>1, WalletInvariance, PTL

(* What the holder of a derived secret signs over a ring made of the       *)
(* public key another derived verifies, and such a holder is never told    *)
(* that the ring lacks its key (keypair.rs:94-96, sign.rs:59-61).          *)
THEOREM DerivedKeysSign == Spec => []WalletSigns
  <1>1. IInv => WalletSigns
    <2> SUFFICES ASSUME IInv PROVE WalletSigns
      OBVIOUS
    <2>1. SignedInv /\ SignsAlike /\ PartiesInv
      BY DEF IInv, CallsInv
    <2>2. ASSUME outcome = "Signed"
          PROVE  Verify(signature, AsVec(args.ring.points), RingLen(args.ring), args.message)
      <3> DEFINE n == RingLen(args.ring)
                 V == AsVec(args.ring.points)
                 k == args.secret
                 m == args.message
                 rs == args.draw.responses
                 a == args.draw.nonce
      <3>1. PICK pi \in 0 .. n - 1 :
              V[pi] = PublicKey(k) /\ signature = SignWith(k, V, n, pi, HashedPoints(V, n), m, a, rs)
        BY <2>1, <2>2 DEF SignsAlike
      <3>2. /\ n \in Nat \ {0} /\ V \in Vec(n, Point) /\ k \in Scalar /\ a \in Scalar
            /\ rs \in Vec(n, Scalar) /\ \A L, R \in Point : Challenge(m, L, R) \in Scalar
        BY <2>1, <2>2, VecOfRing, WalletConstants DEF SignedInv, SigningArgs
      <3> HIDE DEF n, V, k, m, rs, a
      <3>3. Verify(SignWith(k, V, n, pi, HashedPoints(V, n), m, a, rs), V, n, m)
        BY <3>1, <3>2, OneShotRoundTrip
      <3> QED BY <3>1, <3>3 DEF n, V, m
    <2> QED BY <2>1, <2>2 DEF WalletSigns, PartiesInv
  <1> QED BY <1>1, WalletInvariance, PTL

(* Signatures are linked exactly when one secret made both, distinct       *)
(* secrets having distinct key images (mod.rs:179-183).                    *)
THEOREM LinkedExactly == Spec => []LinkedBySecret
  <1>1. IInv => LinkedBySecret
    <2> SUFFICES ASSUME IInv, outcome = "Signed", NEW h \in Holder, NEW m \in Message,
                        NEW draw \in Draws(1), HasSecret(keys[h])
                 PROVE  Link(signature, AloneSignature(keys[h].secret, m, draw))
                          <=> keys[h].secret = args.secret
      BY DEF LinkedBySecret
    <2>1. signature.key_image = KeyImage(args.secret) /\ args.secret \in Scalar
      BY DEF IInv, CallsInv, SignedInv, SigningArgs
    <2>2. keys[h].secret \in Scalar
      BY DEF IInv, KeysInv, HasSecret, AnyKey, Pairs, ScalarKeys, PointKeys
    <2>3. AloneSignature(keys[h].secret, m, draw).key_image = KeyImage(keys[h].secret)
      BY DEF AloneSignature, SignWith, CloseRing
    <2> QED BY <2>1, <2>2, <2>3, KeyImagesDiffer DEF Link
  <1> QED BY <1>1, WalletInvariance, PTL

(* The callback is called as a progress bar is promised: forward only, by  *)
(* at most a tenth of the loop, and up to its end before the call returns  *)
(* (sign.rs:399-401, verify.rs:18-19).  That a call returns is left to the *)
(* run.                                                                    *)
THEOREM MeterMoves == Spec => Meter!Init /\ [][Meter!Next]_(Meter!vars)
  <1>1. Init => Meter!Init
    BY DEF Init, InitCalls, Meter!Init
  <1>2. IInv /\ [Next]_vars => [Meter!Next]_(Meter!vars)
    BY WalletStep DEF Moves
  <1> QED BY <1>1, <1>2, WalletInvariance, PTL DEF Spec
=============================================================================
