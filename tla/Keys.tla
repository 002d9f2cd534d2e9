-------------------------------- MODULE Keys --------------------------------
(***************************************************************************)
(* Keys and child derivation (src/keypair.rs, src/scalar.rs) and the       *)
(* bindings over them (src/wasm.rs).  Each holder has one key, in one of   *)
(* three types: a KeyPair, which may lack its secret, a Scalar or a        *)
(* RistrettoPoint.  A holder generates a key, derives a child from the one *)
(* it has, converts it to another type, or sends it as bytes to another    *)
(* holder, who derives on from there.                                      *)
(*                                                                         *)
(* Each type derives by code of its own; a child derived without the       *)
(* secret must be the public key of the child derived with it.             *)
(***************************************************************************)
EXTENDS Curve, Integers, Sequences

CONSTANTS
  Absent,       \* the part a key lacks
  Holder,
  Data,         \* bound: derivation data
  MaxDepth,     \* bound: derivations from a root
  Root,         \* bound: the secrets that are generated
  SAdd(_, _),   \* sum of two scalars
  Tweak(_, _)   \* Scalar::from_hash(public key || derivation data)

ASSUME KeyConstants ==
  /\ Root \subseteq Scalar
  /\ MaxDepth \in Nat
  /\ Absent \notin Scalar \cup Point
  /\ \A a, b \in Scalar : SAdd(a, b) \in Scalar
  /\ \A P \in Point, data \in Data : Tweak(P, data) \in Scalar

ASSUME Additivity ==
  \A a, b \in Scalar : PMul(SAdd(a, b), G) = PAdd(PMul(a, G), PMul(b, G))

VARIABLES
  keys,    \* the key of each holder
  result,  \* what the last operation on keys returned
  origin   \* history: the root each key comes from and the data it was derived with

keyVars == <<keys, result, origin>>

KeyPair(secret, public) == [type |-> "KeyPair", secret |-> secret, public |-> public]
ScalarKey(secret) == [type |-> "Scalar", secret |-> secret, public |-> Absent]
PointKey(public) == [type |-> "Point", secret |-> Absent, public |-> public]

HasSecret(key) == key.secret # Absent
PublicOf(key) == IF key.type = "Scalar" THEN PublicKey(key.secret) ELSE key.public

NewKeyPair(secret) == KeyPair(secret, PublicKey(secret))

-----------------------------------------------------------------------------
(* derive_child of each type.  Mutations: the tweak of a scalar is made of *)
(* the secret; that of a point is added as a multiple of the point; the    *)
(* secret of a key pair stays as it is.                                    *)
DeriveHardened(s, data) == SAdd(s, Tweak(PMul(s, PublicKey(s)), data))
DeriveScalar(s, data) == SAdd(s, Tweak(PublicKey(s), data))

DeriveOnSelf(P, data) == PAdd(P, PMul(Tweak(P, data), P))
DerivePoint(P, data) == PAdd(P, PMul(Tweak(P, data), G))

DerivePairAsPoint(key, data) == KeyPair(key.secret, DerivePoint(key.public, data))
DerivePair(key, data) ==
  LET tweak == Tweak(key.public, data)
  IN  KeyPair(IF HasSecret(key) THEN SAdd(key.secret, tweak) ELSE Absent,
              PAdd(key.public, PMul(tweak, G)))

Child(key, data) ==
  CASE key.type = "KeyPair" -> DerivePair(key, data)
    [] key.type = "Scalar" -> ScalarKey(DeriveScalar(key.secret, data))
    [] key.type = "Point" -> PointKey(DerivePoint(key.public, data))

(* new and compute_pubkey of a scalar; from_public_key_only of a point;    *)
(* into_keys and public of a key pair.                                     *)
Conversions(key) ==
  CASE key.type = "Scalar" -> {NewKeyPair(key.secret), PointKey(PublicKey(key.secret))}
    [] key.type = "Point" -> {KeyPair(Absent, key.public)}
    [] key.type = "KeyPair" ->
         {PointKey(key.public)} \cup
         (IF HasSecret(key) THEN {ScalarKey(key.secret)} ELSE {})

(* What from_bytes makes of the bytes of a key's secret, or of its public  *)
(* part.                                                                   *)
FromSecret(key) ==
  IF key.type = "KeyPair" THEN NewKeyPair(key.secret) ELSE ScalarKey(key.secret)
FromPublic(key) == PointKey(PublicOf(key))

-----------------------------------------------------------------------------
InitKeys ==
  \E s \in Root :
    /\ keys = [h \in Holder |-> NewKeyPair(s)]
    /\ origin = [h \in Holder |-> [root |-> s, path |-> <<>>]]
    /\ result = "Ok"

Generate(h, secret) ==
  /\ keys' = [keys EXCEPT ![h] = NewKeyPair(secret)]
  /\ origin' = [origin EXCEPT ![h] = [root |-> secret, path |-> <<>>]]
  /\ result' = "Ok"

DeriveChild(h, data) ==
  /\ Len(origin[h].path) < MaxDepth
  /\ keys' = [keys EXCEPT ![h] = Child(@, data)]
  /\ origin' = [origin EXCEPT ![h].path = Append(@, data)]
  /\ result' = "Ok"

Convert(h) ==
  /\ \E key \in Conversions(keys[h]) : keys' = [keys EXCEPT ![h] = key]
  /\ result' = "Ok"
  /\ UNCHANGED origin

(* h exports its secret or its public part as bytes and g imports them.    *)
(* There is no secret to export without one, and a KeyPair panics; bytes   *)
(* of the wrong length or that encode nothing are refused.                 *)
SendSecret(h, g) ==
  \/ /\ keys[h].type = "KeyPair"
     /\ ~HasSecret(keys[h])
     /\ result' = "panic"
     /\ UNCHANGED <<keys, origin>>
  \/ /\ HasSecret(keys[h])
     /\ keys' = [keys EXCEPT ![g] = FromSecret(keys[h])]
     /\ origin' = [origin EXCEPT ![g] = origin[h]]
     /\ result' = "Ok"

SendPublic(h, g) ==
  /\ keys' = [keys EXCEPT ![g] = FromPublic(keys[h])]
  /\ origin' = [origin EXCEPT ![g] = origin[h]]
  /\ result' = "Ok"

ImportDamaged ==
  /\ result' = "Err"
  /\ UNCHANGED <<keys, origin>>

NextKeys ==
  \/ \E h \in Holder :
       \/ \E secret \in Root : Generate(h, secret)
       \/ \E data \in Data : DeriveChild(h, data)
       \/ Convert(h)
       \/ \E g \in Holder : SendSecret(h, g) \/ SendPublic(h, g)
  \/ ImportDamaged

-----------------------------------------------------------------------------
(* A key pair that has a secret has its public key, after any sequence of  *)
(* derivations and conversions (keypair.rs:101-117).                       *)
KeysMatch ==
  \A h \in Holder :
    HasSecret(keys[h]) /\ keys[h].public # Absent =>
      keys[h].public = PublicKey(keys[h].secret)

(* Two keys that come from one root by the same data have one public key,  *)
(* whichever of the derivations were made with the secret, without it, or  *)
(* on a bare scalar (keypair.rs:94-96, traits.rs:105-106).                 *)
SamePathSameKey ==
  \A h, g \in Holder :
    origin[h] = origin[g] => PublicOf(keys[h]) = PublicOf(keys[g])
=============================================================================
