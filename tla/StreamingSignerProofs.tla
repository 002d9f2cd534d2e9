------------------------ MODULE StreamingSignerProofs ------------------------
(***************************************************************************)
(* Proofs about StreamingSigner, for rings of any length, any group that   *)
(* satisfies the assumptions of Curve and any callers; and about the one   *)
(* caller the crate has, sign_streaming_with_rng (SignStreaming).          *)
(***************************************************************************)
EXTENDS StreamingSignerInv, SignStreaming, BlsagProofs, FiniteSetTheorems

(* Two rings with the same accumulated binding are the same ring.          *)
LEMMA BindingInjective ==
  ASSUME NEW n \in Nat, NEW X, NEW f \in Vec(n, X), NEW Y, NEW g \in Vec(n, Y),
         BindingOf(f, 0 .. n - 1) = BindingOf(g, 0 .. n - 1)
  PROVE  f = g
  <1>1. ASSUME NEW i \in 0 .. n - 1 PROVE f[i] = g[i]
    <2>1. <<i, f[i]>> \in BindingOf(g, 0 .. n - 1)
      BY <1>1 DEF BindingOf
    <2>2. PICK j \in 0 .. n - 1 : <<i, f[i]>> = <<j, g[j]>>
      BY <2>1 DEF BindingOf
    <2>3. QED BY <2>2
  <1>2. QED BY <1>1 DEF Vec

-----------------------------------------------------------------------------
(* The index asked for, without the modulus.                               *)
LEMMA ExpectedIndexIs ==
  ASSUME NEW s, s.ring_len \in Nat \ {0}, s.signer_index \in 0 .. s.ring_len - 1,
         s.sign_step \in 0 .. s.ring_len - 1
  PROVE  ExpectedIndex(s) = IF s.signer_index + 1 + s.sign_step < s.ring_len
                            THEN s.signer_index + 1 + s.sign_step
                            ELSE s.signer_index + 1 + s.sign_step - s.ring_len
  <1>1. ASSUME NEW n \in Nat \ {0}, NEW pi \in 0 .. n - 1, NEW j \in 0 .. n - 1
        PROVE  (pi + 1 + j) % n = IF pi + 1 + j < n THEN pi + 1 + j ELSE pi + 1 + j - n
    BY TurnIndexIs DEF TurnIndex
  <1> DEFINE n == s.ring_len
             pi == s.signer_index
             j == s.sign_step
  <1>2. n \in Nat \ {0} /\ pi \in 0 .. n - 1 /\ j \in 0 .. n - 1
    OBVIOUS
  <1>3. ExpectedIndex(s) = (pi + 1 + j) % n
    BY DEF ExpectedIndex
  <1> HIDE DEF n, pi, j
  <1>4. (pi + 1 + j) % n = IF pi + 1 + j < n THEN pi + 1 + j ELSE pi + 1 + j - n
    BY <1>1, <1>2
  <1>5. QED BY <1>3, <1>4 DEF n, pi, j

(* The second pass asks for the indices after the signer's, each once, and *)
(* for the signer's last.                                                  *)
LEMMA SigningOrder ==
  ASSUME NEW s, s.ring_len \in Nat \ {0}, s.signer_index \in 0 .. s.ring_len - 1,
         s.sign_step \in 0 .. s.ring_len - 1
  PROVE  /\ ExpectedIndex(s) \in 0 .. s.ring_len - 1
         /\ ExpectedIndex(s) \notin Answered(s)
         /\ Answered(s) \subseteq 0 .. s.ring_len - 1
         /\ s.sign_step = s.ring_len - 1 =>
              /\ ExpectedIndex(s) = s.signer_index
              /\ Answered(s) = (0 .. s.ring_len - 1) \ {s.signer_index}
         /\ s.sign_step # s.ring_len - 1 => ExpectedIndex(s) # s.signer_index
  BY ExpectedIndexIs DEF Answered

(* Answering the index asked for adds it to the indices answered, and the  *)
(* next one asked for is its successor around the ring, which no answered  *)
(* index precedes.                                                         *)
LEMMA SigningOrderStep ==
  ASSUME NEW s, s.ring_len \in Nat \ {0}, s.signer_index \in 0 .. s.ring_len - 1,
         s.sign_step \in 0 .. s.ring_len - 1, s.sign_step # s.ring_len - 1,
         NEW t, t.ring_len = s.ring_len, t.signer_index = s.signer_index,
         t.sign_step = s.sign_step + 1
  PROVE  /\ Answered(t) = Answered(s) \cup {ExpectedIndex(s)}
         /\ ExpectedIndex(t) = (ExpectedIndex(s) + 1) % s.ring_len
         /\ \A i \in Answered(s) : (i + 1) % s.ring_len # ExpectedIndex(t)
  <1> DEFINE e == ExpectedIndex(s)
  <1>1. e = IF s.signer_index + 1 + s.sign_step < s.ring_len
            THEN s.signer_index + 1 + s.sign_step
            ELSE s.signer_index + 1 + s.sign_step - s.ring_len
    BY ExpectedIndexIs
  <1>2. ExpectedIndex(t) = IF s.signer_index + 2 + s.sign_step < s.ring_len
                           THEN s.signer_index + 2 + s.sign_step
                           ELSE s.signer_index + 2 + s.sign_step - s.ring_len
    <2>1. /\ t.ring_len \in Nat \ {0}
          /\ t.signer_index \in 0 .. t.ring_len - 1
          /\ t.sign_step \in 0 .. t.ring_len - 1
      OBVIOUS
    <2>2. ExpectedIndex(t) = IF t.signer_index + 1 + t.sign_step < t.ring_len
                             THEN t.signer_index + 1 + t.sign_step
                             ELSE t.signer_index + 1 + t.sign_step - t.ring_len
      BY <2>1, ExpectedIndexIs
    <2>3. QED BY <2>2
  <1>3. e \in 0 .. s.ring_len - 1
    BY <1>1
  <1>4. (e + 1) % s.ring_len = IF e + 1 < s.ring_len THEN e + 1 ELSE 0
    <2> DEFINE n == s.ring_len
    <2>1. n \in Nat \ {0} /\ e \in 0 .. n - 1
      BY <1>3
    <2> HIDE DEF n, e
    <2>2. (e + 1) % n = IF e + 1 < n THEN e + 1 ELSE 0
      BY <2>1, NextIndexIs
    <2>3. QED BY <2>2 DEF n
  <1>5. ExpectedIndex(t) = (e + 1) % s.ring_len
    <2> HIDE DEF e
    <2>1. QED BY <1>1, <1>2, <1>4
  <1>6. Answered(t) = Answered(s) \cup {e}
    <2> HIDE DEF e
    <2>1. QED BY <1>1 DEF Answered
  <1>7. ASSUME NEW i \in Answered(s) PROVE (i + 1) % s.ring_len # ExpectedIndex(t)
    <2>1. i \in 0 .. s.ring_len - 1
      BY DEF Answered
    <2>2. (i + 1) % s.ring_len = IF i + 1 < s.ring_len THEN i + 1 ELSE 0
      BY <2>1, NextIndexIs
    <2>3. QED BY <2>1, <2>2, <1>2 DEF Answered
  <1>8. QED BY <1>5, <1>6, <1>7

-----------------------------------------------------------------------------
(* Challenges are scalars.                                                 *)
LEMMA ChallengeTypes ==
  ASSUME NEW m \in Message, NEW s \in Scalar, NEW c \in Scalar, NEW P \in Point,
         NEW hp \in Point, NEW I \in Point
  PROVE  /\ NextChallenge(m, s, c, P, hp, I) \in Scalar
         /\ NonceChallenge(m, s, hp) \in Scalar
  <1>1. /\ PAdd(PMul(s, G), PMul(c, P)) \in Point
        /\ PAdd(PMul(s, hp), PMul(c, I)) \in Point
        /\ PMul(s, G) \in Point
        /\ PMul(s, hp) \in Point
    BY CurveTypes
  <1>2. QED BY <1>1, SignerConstants DEF NextChallenge, NonceChallenge

-----------------------------------------------------------------------------
(* The invariant holds of a fresh signer.                                  *)
LEMMA InitInv == Init => IInv
  BY DEF Init, IInv, SwitchInv, TypeOK, FirstPassInv, SessionInv, DeliveredInv,
         ChainInv, SignatureInv

(* A call that fails leaves everything the invariant speaks of.            *)
LEMMA FailsInv ==
  ASSUME IInv, UNCHANGED <<fields, history>>
  PROVE  IInv'
  <1> USE DEF fields, history
  <1>1. TypeOK'
    BY DEF IInv, SwitchInv, TypeOK
  <1>2. FirstPassInv'
    BY DEF IInv, SwitchInv, FirstPassInv, AcceptedRing
  <1>3. SessionInv'
    BY DEF IInv, SwitchInv, SessionInv
  <1>4. DeliveredInv'
    BY DEF IInv, SwitchInv, DeliveredInv
  <1>5. ChainInv'
    BY DEF IInv, ChainInv
  <1>6. SignatureInv'
    <2>1. SignedAround' <=> SignedAround
      BY DEF SignedAround
    <2>2. QED BY <2>1 DEF IInv, SignatureInv
  <1>7. QED BY <1>1, <1>2, <1>3, <1>4, <1>5, <1>6 DEF IInv, SwitchInv

(* init_validation keeps the invariant.                                    *)
LEMMA InitValidationInv ==
  ASSUME IInv, NEW n \in 0 .. MaxRing, NEW hash \in RingHashes,
         InitValidation(n, hash)
  PROVE  IInv'
  <1>1. CASE UNCHANGED <<fields, history>>
    BY <1>1, FailsInv
  <1>2. CASE /\ MayStart
             /\ n # 0
             /\ validating' = [ring_len |-> n, expected_ring_hash |-> hash,
                               hasher |-> EmptyVec, members_seen |-> 0,
                               ring_binding |-> {}]
             /\ phase' = "Validating"
             /\ UNCHANGED <<validated, signing, history>>
    <2> USE <1>2 DEF MayStart, history
    <2>1. EmptyVec \in Vec(0, Point)
      BY DEF EmptyVec, Vec
    <2>2. validating' \in ValidatingState
      BY <2>1, SignerConstants DEF ValidatingState, Lengths, Bindings, Vec
    <2>3. TypeOK'
      BY <2>2 DEF IInv, SwitchInv, TypeOK
    <2>4. FirstPassInv'
      BY <2>1 DEF IInv, SwitchInv, FirstPassInv, BindingOf
    <2>5. SessionInv' /\ DeliveredInv' /\ ChainInv' /\ SignatureInv'
      BY DEF IInv, SwitchInv, SessionInv, DeliveredInv, ChainInv, SignatureInv
    <2>6. QED BY <2>3, <2>4, <2>5 DEF IInv, SwitchInv
  <1>3. QED BY <1>1, <1>2 DEF InitValidation, Fails

(* One more member absorbed: the hash and the binding grow together.       *)
LEMMA ValidateInv ==
  ASSUME IInv, phase = "Validating", NEW i, i = validating.members_seen,
         NEW c \in Point, Validate(i, c)
  PROVE  IInv'
  <1> DEFINE n    == validating.members_seen
             N    == validating.ring_len
             absorbed == Absorb(validating.hasher, n, c)
             bind == Accumulate(validating.ring_binding, i, c)
  <1>1. /\ validating \in ValidatingState
        /\ N \in Lengths
        /\ n \in 0 .. MaxRing
        /\ n < N
        /\ validating.hasher \in Vec(n, Point)
        /\ validating.ring_binding = BindingOf(validating.hasher, 0 .. n - 1)
        /\ validating.ring_binding \in Bindings
    BY DEF IInv, SwitchInv, TypeOK, FirstPassInv, ValidatingState
  <1>2. N \in Nat /\ N <= MaxRing /\ MaxRing \in Nat
    BY <1>1, SignerConstants DEF Lengths
  <1>3. absorbed \in Vec(n + 1, Point)
    BY <1>1 DEF Absorb, Vec
  <1>4. bind = BindingOf(absorbed, 0 .. n)
    <2>1. n \notin 0 .. n - 1 /\ (0 .. n - 1) \cup {n} = 0 .. n
      BY <1>1
    <2>2. \A j \in 0 .. n - 1 : absorbed[j] = validating.hasher[j]
      BY <1>1 DEF Absorb
    <2>3. absorbed[n] = c
      BY <1>1 DEF Absorb
    <2>4. QED
      <3> HIDE DEF absorbed
      <3>1. bind = Accumulate(BindingOf(validating.hasher, 0 .. n - 1), n, c)
        BY <1>1
      <3>2. @ = BindingOf(absorbed, (0 .. n - 1) \cup {n})
        <4> DEFINE S == 0 .. n - 1
                   r == validating.hasher
        <4>1. n \notin S /\ (\A j \in S : absorbed[j] = r[j]) /\ absorbed[n] = c
          BY <2>1, <2>2, <2>3
        <4> HIDE DEF S, r, n
        <4>2. Accumulate(BindingOf(r, S), n, c) = BindingOf(absorbed, S \cup {n})
          BY <4>1 DEF Accumulate, SymmetricDifference, BindingOf
        <4>3. QED BY <4>2 DEF S, r, n
      <3>3. QED BY <2>1, <3>1, <3>2
  <1>5. bind \in Bindings
    BY <1>1, <1>3, <1>4 DEF BindingOf, Bindings, Vec
  <1>6. accepted = Nil /\ session = Nil /\ signature = Nil
    BY DEF IInv, SwitchInv, FirstPassInv, SignatureInv
  <1> HIDE DEF absorbed, bind
  <1>7. CASE /\ n + 1 # N
             /\ validating' = [validating EXCEPT !.hasher = absorbed,
                                                 !.ring_binding = bind,
                                                 !.members_seen = n + 1]
             /\ UNCHANGED <<phase, validated, signing, history>>
    <2> USE <1>7 DEF history
    <2>1. validating' \in ValidatingState
      <3>1. n + 1 \in 0 .. MaxRing
        BY <1>1, <1>2
      <3>2. absorbed \in UNION {Vec(j, Point) : j \in 0 .. MaxRing}
        BY <1>3, <3>1
      <3>3. QED BY <1>1, <1>5, <3>1, <3>2 DEF ValidatingState
    <2>2. TypeOK'
      BY <2>1 DEF IInv, SwitchInv, TypeOK
    <2>3. FirstPassInv'
      <3>1. /\ validating'.members_seen = n + 1
            /\ validating'.ring_len = N
            /\ validating'.hasher = absorbed
            /\ validating'.ring_binding = bind
        BY <1>1 DEF ValidatingState
      <3>2. n + 1 < N /\ validating'.members_seen - 1 = n
        BY <1>1, <1>2, <3>1
      <3>3. QED BY <1>3, <1>4, <1>6, <3>1, <3>2 DEF FirstPassInv
    <2>4. SessionInv' /\ DeliveredInv' /\ ChainInv' /\ SignatureInv'
      BY <1>6 DEF SessionInv, DeliveredInv, ChainInv, SignatureInv
    <2>5. QED BY <2>2, <2>3, <2>4 DEF IInv, SwitchInv
  <1>8. CASE /\ validating' = Nil
             /\ phase' = "Idle"
             /\ UNCHANGED <<validated, signing, history>>
    <2> USE <1>8 DEF history
    <2>1. TypeOK'
      BY DEF IInv, SwitchInv, TypeOK
    <2>2. FirstPassInv' /\ SessionInv' /\ DeliveredInv' /\ ChainInv' /\ SignatureInv'
      BY <1>6 DEF FirstPassInv, SessionInv, DeliveredInv, ChainInv, SignatureInv
    <2>3. QED BY <2>1, <2>2 DEF IInv, SwitchInv
  <1>9. CASE /\ n + 1 = N
             /\ HashMatches(validating, absorbed)
             /\ validating' = Nil
             /\ validated' = [ring_len |-> N, ring_binding |-> bind]
             /\ phase' = "Validated"
             /\ accepted' = [members |-> absorbed, len |-> N]
             /\ UNCHANGED <<signing, session, delivered, responses, challenges, signature>>
    <2> USE <1>9
    <2>1. TypeOK'
      BY <1>1, <1>5 DEF IInv, SwitchInv, TypeOK, ValidatedState
    <2>2. RingHash(absorbed) \in RingHashes
      BY <1>1 DEF HashMatches, ValidatingState
    <2>3. AcceptedRing'
      BY <1>1, <1>3, <2>2 DEF AcceptedRing, RingHash
    <2>4. N - 1 = n
      BY <1>1, <1>2
    <2>5. FirstPassInv'
      BY <2>3, <2>4, <1>4 DEF FirstPassInv
    <2>6. SessionInv' /\ DeliveredInv' /\ ChainInv' /\ SignatureInv'
      BY <1>6 DEF SessionInv, DeliveredInv, ChainInv, SignatureInv
    <2>7. QED BY <2>1, <2>5, <2>6 DEF IInv, SwitchInv
  <1>10. QED BY <1>7, <1>8, <1>9 DEF Validate, absorbed, bind

(* validate_member keeps the invariant.                                    *)
LEMMA ValidateMemberInv ==
  ASSUME IInv, NEW i \in Index, NEW c \in Encodings, ValidateMember(i, c)
  PROVE  IInv'
  <1>1. CASE UNCHANGED <<fields, history>>
    BY <1>1, FailsInv
  <1>2. CASE /\ phase = "Validating"
             /\ i = validating.members_seen
             /\ Decompresses(c)
             /\ Validate(i, c)
    BY <1>2, ValidateInv DEF Decompresses
  <1>3. QED BY <1>1, <1>2 DEF ValidateMember, Fails

(* The second pass starts with nothing answered, from the nonce.           *)
LEMMA BeginSigningInv ==
  ASSUME IInv, phase = "Validated", NEW pi \in Index, pi < validated.ring_len,
         NEW k \in SecretKeys, NEW m \in Message, BeginSigning(pi, k, m)
  PROVE  IInv'
  <1> DEFINE n == validated.ring_len
             Start(alpha) == NonceChallenge(m, alpha, HashToPoint(PublicKey(k)))
  <1>1. PICK alpha \in Random :
        /\ validated' = Nil
        /\ signing' =
             [ring_len |-> n, signer_index |-> pi, message |-> m,
              key_image |-> KeyImage(k), c_current |-> Start(alpha),
              c_0 |-> InitialC0(pi, n, Start(alpha)),
              alpha |-> alpha, secret_key |-> k, derived_signer |-> PublicKey(k),
              sign_step |-> 0, expected_ring_binding |-> validated.ring_binding,
              ring_binding |-> {}]
        /\ phase' = "Signing"
        /\ session' = [signer_index |-> pi, secret_key |-> k, message |-> m,
                       alpha |-> alpha]
        /\ delivered' = [j \in 0 .. n - 1 |-> Nil]
        /\ responses' = [j \in 0 .. n - 1 |-> Nil]
        /\ challenges' = [j \in 0 .. n - 1 |->
                            IF j = (pi + 1) % n THEN Start(alpha) ELSE Nil]
        /\ UNCHANGED <<validating, accepted, signature>>
    BY DEF BeginSigning
  <1>2. /\ n \in Lengths
        /\ n = accepted.len
        /\ validated.ring_binding = BindingOf(accepted.members, 0 .. n - 1)
        /\ validated.ring_binding \in Bindings
        /\ AcceptedRing
        /\ validating = Nil
        /\ signature = Nil
    BY DEF IInv, SwitchInv, TypeOK, FirstPassInv, SignatureInv, ValidatedState
  <1>3. n \in Nat \ {0} /\ n <= MaxRing /\ pi \in 0 .. n - 1 /\ 0 \in Index
    BY <1>2, SignerConstants DEF Lengths, Index
  <1>4. k \in Scalar /\ alpha \in Scalar
    BY SignerConstants
  <1>5. /\ PublicKey(k) \in Point
        /\ HashToPoint(PublicKey(k)) \in Point
        /\ KeyImage(k) \in Point
        /\ Start(alpha) \in Scalar
    BY <1>4, KeyTypes, ChallengeTypes, CurveTypes
  <1> DEFINE c == Start(alpha)
  <1> HIDE DEF Start
  <1>6. InitialC0(pi, n, c) \in Scalar
    BY <1>5, CurveTypes DEF InitialC0
  <1>7. {} \in Bindings
    BY DEF Bindings
  <1>8. signing' \in SigningState
    BY <1>1, <1>2, <1>3, <1>5, <1>6, <1>7 DEF SigningState
  <1>9. /\ (pi + 1) % n = IF pi + 1 < n THEN pi + 1 ELSE 0
        /\ ExpectedIndex(signing') = (pi + 1) % n
    <2>1. (pi + 1) % n = IF pi + 1 < n THEN pi + 1 ELSE 0
      BY <1>3, NextIndexIs
    <2>2. ExpectedIndex(signing') = IF pi + 1 + 0 < n THEN pi + 1 + 0 ELSE pi + 1 + 0 - n
      <3>1. /\ signing'.ring_len = n
            /\ signing'.signer_index = pi
            /\ signing'.sign_step = 0
        BY <1>1
      <3>2. QED BY <1>3, <3>1, ExpectedIndexIs
    <2>3. QED BY <1>3, <2>1, <2>2
  <1>10. (pi + 1) % n \in 0 .. n - 1
    BY <1>3, <1>9
  <1>11. Answered(signing') = {}
    BY <1>1, <1>3 DEF Answered
  <1>12. TypeOK'
    BY <1>1, <1>2, <1>8 DEF TypeOK
  <1>13. FirstPassInv'
    BY <1>1, <1>2 DEF FirstPassInv, AcceptedRing
  <1>14. SessionInv'
    BY <1>1, <1>2, <1>3 DEF SessionInv
  <1>15. DeliveredInv'
    BY <1>1, <1>2, <1>11 DEF DeliveredInv, BindingOf, Vec
  <1>16. ChainInv'
    <2>1. responses' \in Vec(n, Scalar \cup {Nil}) /\ challenges' \in Vec(n, Scalar \cup {Nil})
      BY <1>1, <1>5 DEF Vec
    <2>2. challenges'[(pi + 1) % n] = c
      BY <1>1, <1>10
    <2>3. pi = n - 1 => signing'.c_0 = challenges'[0]
      <3>1. ASSUME pi = n - 1 PROVE (pi + 1) % n = 0
        BY <3>1, <1>3, <1>9
      <3>2. ASSUME pi = n - 1 PROVE signing'.c_0 = c
        BY <3>2, <1>1 DEF InitialC0
      <3>3. QED BY <2>2, <3>1, <3>2
    <2>4. /\ signing'.c_current = c
          /\ signing'.signer_index = pi
          /\ c = NonceChallenge(signing'.message, signing'.alpha,
                                HashToPoint(PublicKey(signing'.secret_key)))
      BY <1>1 DEF Start
    <2>5. QED BY <1>1, <1>2, <1>9, <1>11, <2>1, <2>2, <2>3, <2>4 DEF ChainInv
  <1>17. SignatureInv'
    BY <1>1, <1>2 DEF SignatureInv
  <1>18. QED BY <1>12, <1>13, <1>14, <1>15, <1>16, <1>17 DEF IInv, SwitchInv

(* init_signing keeps the invariant.                                       *)
LEMMA InitSigningInv ==
  ASSUME IInv, NEW pi \in Index, NEW k \in SecretKeys, NEW c \in Encodings,
         NEW m \in Message, InitSigning(pi, k, c, m)
  PROVE  IInv'
  <1>1. CASE UNCHANGED <<fields, history>>
    BY <1>1, FailsInv
  <1>2. CASE phase = "Validated" /\ pi < validated.ring_len /\ BeginSigning(pi, k, m)
    BY <1>2, BeginSigningInv
  <1>3. QED BY <1>1, <1>2 DEF InitSigning, Fails

-----------------------------------------------------------------------------
(* What the invariant says of a signing pass, in the terms of SignMember.  *)
LEMMA SigningFacts ==
  ASSUME IInv, phase = "Signing"
  PROVE  /\ signing \in SigningState
         /\ AcceptedRing
         /\ signing.ring_len = accepted.len
         /\ accepted.len \in Nat \ {0}
         /\ accepted.len <= MaxRing
         /\ signing.signer_index \in 0 .. accepted.len - 1
         /\ signing.sign_step \in 0 .. accepted.len - 1
         /\ signing.secret_key \in Scalar
         /\ signing.alpha \in Scalar
         /\ validating = Nil
         /\ validated = Nil
         /\ signature = Nil
  <1>1. /\ signing \in SigningState
        /\ AcceptedRing
        /\ signing.ring_len = accepted.len
        /\ signing.signer_index < accepted.len
        /\ signing.sign_step < accepted.len
        /\ validating = Nil
        /\ validated = Nil
        /\ signature = Nil
    BY DEF IInv, SwitchInv, TypeOK, FirstPassInv, SessionInv, SignatureInv
  <1>2. /\ signing.signer_index \in Nat
        /\ signing.sign_step \in Nat
        /\ signing.secret_key \in Scalar
        /\ signing.alpha \in Scalar
    BY <1>1, SignerConstants DEF SigningState, Index
  <1>3. accepted.len \in Nat \ {0} /\ accepted.len <= MaxRing
    BY <1>1, SignerConstants DEF AcceptedRing, Lengths
  <1>4. QED BY <1>1, <1>2, <1>3

(* A slot other than the signer's: one more index answered, one more       *)
(* equation satisfied.                                                     *)
LEMMA SignOtherInv ==
  ASSUME IInv, phase = "Signing", signing.sign_step # signing.ring_len - 1,
         NEW i, i = ExpectedIndex(signing), NEW c \in Point, SignOther(i, c)
  PROVE  IInv'
  <1> DEFINE s == signing
             n == accepted.len
             m == signing.message
             Following(r) == NextChallenge(s.message, r, s.c_current, c, HashToPoint(c),
                                           s.key_image)
  <1>1. PICK r \in Random :
        /\ signing' =
             [s EXCEPT !.ring_binding = Accumulate(@, i, c),
                       !.c_current = Following(r),
                       !.sign_step = @ + 1,
                       !.c_0 = CapturedC0(i, s.ring_len, Following(r), @)]
        /\ delivered' = [delivered EXCEPT ![i] = c]
        /\ responses' = [responses EXCEPT ![i] = r]
        /\ challenges' = [challenges EXCEPT ![(i + 1) % s.ring_len] = Following(r)]
        /\ UNCHANGED <<phase, validating, validated, accepted, session, signature>>
    BY DEF SignOther
  <1> DEFINE next == Following(r)
  <1>2. /\ s \in SigningState
        /\ AcceptedRing
        /\ s.ring_len = n
        /\ n \in Nat \ {0}
        /\ n <= MaxRing
        /\ s.signer_index \in 0 .. n - 1
        /\ s.sign_step \in 0 .. n - 1
        /\ validating = Nil
        /\ validated = Nil
        /\ signature = Nil
    BY SigningFacts
  <1>3. /\ i \in 0 .. n - 1
        /\ i \notin Answered(s)
        /\ Answered(s) \subseteq 0 .. n - 1
    BY <1>2, SigningOrder
  <1>4. /\ HashToPoint(c) \in Point
        /\ r \in Scalar
        /\ next \in Scalar
    <2>1. HashToPoint(c) \in Point /\ r \in Scalar
      BY CurveTypes, SignerConstants
    <2>2. s.message \in Message /\ s.c_current \in Scalar /\ s.key_image \in Point
      BY <1>2 DEF SigningState
    <2>3. QED BY <2>1, <2>2, ChallengeTypes
  <1> HIDE DEF Following
  <1>5. /\ s'.ring_len = n
        /\ s'.signer_index = s.signer_index
        /\ s'.message = s.message
        /\ s'.key_image = s.key_image
        /\ s'.c_current = next
        /\ s'.c_0 = CapturedC0(i, n, next, s.c_0)
        /\ s'.alpha = s.alpha
        /\ s'.secret_key = s.secret_key
        /\ s'.derived_signer = s.derived_signer
        /\ s'.sign_step = s.sign_step + 1
        /\ s'.expected_ring_binding = s.expected_ring_binding
        /\ s'.ring_binding = Accumulate(s.ring_binding, i, c)
    BY <1>1, <1>2 DEF SigningState
  <1>6. /\ Answered(s') = Answered(s) \cup {i}
        /\ ExpectedIndex(s') = (i + 1) % n
        /\ \A j \in Answered(s) : (j + 1) % n # (i + 1) % n
    BY <1>2, <1>5, SigningOrderStep
  <1>7. s'.sign_step < n
    BY <1>2, <1>5
  <1>8. delivered \in Vec(n, Point \cup {Nil})
    BY DEF IInv, SwitchInv, DeliveredInv
  <1>9. s'.ring_binding = BindingOf(delivered', Answered(s'))
    <2>1. s.ring_binding = BindingOf(delivered, Answered(s))
      BY DEF IInv, SwitchInv, DeliveredInv
    <2>2. /\ \A j \in Answered(s) : delivered'[j] = delivered[j]
          /\ delivered'[i] = c
      BY <1>1, <1>3, <1>8 DEF Vec
    <2>3. Accumulate(BindingOf(delivered, Answered(s)), i, c)
            = BindingOf(delivered', Answered(s) \cup {i})
      BY <1>3, <2>2 DEF Accumulate, SymmetricDifference, BindingOf
    <2>4. QED BY <1>5, <1>6, <2>1, <2>3
  <1>10. TypeOK'
    <2>1. Accumulate(s.ring_binding, i, c) \in Bindings
      BY <1>2, <1>3 DEF SigningState, Bindings, Accumulate, SymmetricDifference
    <2>2. CapturedC0(i, n, next, s.c_0) \in Scalar
      BY <1>2, <1>4 DEF SigningState, CapturedC0
    <2>3. s.sign_step + 1 \in Index
      BY <1>2, <1>5, <1>7, SignerConstants DEF Index
    <2>4. signing' \in SigningState
      BY <1>1, <1>2, <1>4, <2>1, <2>2, <2>3 DEF SigningState
    <2>5. QED BY <1>1, <1>2, <2>4 DEF TypeOK
  <1>11. FirstPassInv'
    BY <1>1, <1>2 DEF FirstPassInv, AcceptedRing
  <1>12. SessionInv'
    BY <1>1, <1>2, <1>5, <1>7 DEF IInv, SwitchInv, SessionInv
  <1>13. DeliveredInv'
    <2>1. delivered' \in Vec(n, Point \cup {Nil})
      BY <1>1, <1>8 DEF Vec
    <2>2. \A j \in Answered(s') : delivered'[j] \in Point
      BY <1>1, <1>3, <1>6, <1>8 DEF IInv, SwitchInv, DeliveredInv, Vec
    <2>3. QED BY <1>1, <1>9, <2>1, <2>2 DEF DeliveredInv
  <1>14. ChainInv'
    <2>1. /\ responses \in Vec(n, Scalar \cup {Nil})
          /\ challenges \in Vec(n, Scalar \cup {Nil})
          /\ challenges[i] = s.c_current
          /\ challenges[(s.signer_index + 1) % n] =
               NonceChallenge(s.message, s.alpha, HashToPoint(PublicKey(s.secret_key)))
          /\ \A j \in Answered(s) :
               /\ responses[j] \in Scalar
               /\ challenges[j] \in Scalar
               /\ challenges[(j + 1) % n] =
                    NextChallenge(s.message, responses[j], challenges[j], delivered[j],
                                  HashToPoint(delivered[j]), s.key_image)
          /\ (s.signer_index = n - 1 \/ n - 1 \in Answered(s)) => s.c_0 = challenges[0]
      BY DEF IInv, ChainInv
    <2>2. \A j \in 0 .. n - 1 : (j + 1) % n = IF j + 1 < n THEN j + 1 ELSE 0
      BY <1>2, NextIndexIs
    <2>3. (i + 1) % n \in 0 .. n - 1
      BY <1>2, <1>3, <2>2
    <2>4. /\ (i + 1) % n # i
          /\ (i + 1) % n # (s.signer_index + 1) % n
          /\ (i + 1) % n \notin Answered(s)
      <3>1. i # s.signer_index
        BY <1>2, SigningOrder
      <3>2. n # 1
        BY <1>2
      <3>3. (i + 1) % n \notin Answered(s')
        <4>1. /\ s'.ring_len \in Nat \ {0}
              /\ s'.signer_index \in 0 .. s'.ring_len - 1
              /\ s'.sign_step \in 0 .. s'.ring_len - 1
          BY <1>2, <1>5, <1>7
        <4>2. ExpectedIndex(s') \notin Answered(s')
          BY <4>1, SigningOrder
        <4>3. QED BY <4>2, <1>6
      <3>4. /\ (i + 1) % n = IF i + 1 < n THEN i + 1 ELSE 0
            /\ (s.signer_index + 1) % n =
                 IF s.signer_index + 1 < n THEN s.signer_index + 1 ELSE 0
        BY <1>2, <1>3, <2>2
      <3>5. (i + 1) % n # i
        BY <1>2, <1>3, <3>2, <3>4
      <3>6. (i + 1) % n # (s.signer_index + 1) % n
        BY <1>2, <1>3, <3>1, <3>4
      <3>7. QED BY <1>6, <3>3, <3>5, <3>6
    <2>5. /\ responses' \in Vec(n, Scalar \cup {Nil})
          /\ challenges' \in Vec(n, Scalar \cup {Nil})
      BY <1>1, <1>2, <1>4, <2>1 DEF Vec
    <2>6. /\ challenges'[(i + 1) % n] = next
          /\ \A j \in 0 .. n - 1 : j # (i + 1) % n => challenges'[j] = challenges[j]
          /\ responses'[i] = r
          /\ \A j \in 0 .. n - 1 : j # i => responses'[j] = responses[j]
          /\ delivered'[i] = c
          /\ \A j \in 0 .. n - 1 : j # i => delivered'[j] = delivered[j]
      BY <1>1, <1>2, <1>3, <1>8, <2>1, <2>3 DEF Vec
    <2>7. challenges'[ExpectedIndex(s')] = s'.c_current
      BY <1>5, <1>6, <2>6
    <2>8. (s.signer_index + 1) % n \in 0 .. n - 1
      BY <1>2, <2>2
    <2>9. challenges'[(s.signer_index + 1) % n] =
            NonceChallenge(s.message, s.alpha, HashToPoint(PublicKey(s.secret_key)))
      BY <2>1, <2>4, <2>6, <2>8
    <2>10. ASSUME NEW j \in Answered(s')
           PROVE  /\ responses'[j] \in Scalar
                  /\ challenges'[j] \in Scalar
                  /\ challenges'[(j + 1) % n] =
                       NextChallenge(s.message, responses'[j], challenges'[j],
                                     delivered'[j], HashToPoint(delivered'[j]),
                                     s.key_image)
      <3>1. CASE j = i
        <4>1. challenges'[i] = s.c_current /\ s.c_current \in Scalar
          BY <1>2, <1>3, <2>1, <2>4, <2>6 DEF SigningState
        <4>2. QED BY <3>1, <4>1, <1>4, <2>6 DEF Following
      <3>2. CASE j # i
        <4>1. j \in Answered(s) /\ j \in 0 .. n - 1
          BY <1>3, <1>6, <3>2
        <4>2. (j + 1) % n \in 0 .. n - 1 /\ (j + 1) % n # (i + 1) % n /\ j # (i + 1) % n
          BY <1>2, <1>6, <2>2, <2>4, <4>1
        <4>3. /\ challenges'[(j + 1) % n] = challenges[(j + 1) % n]
              /\ challenges'[j] = challenges[j]
              /\ responses'[j] = responses[j]
              /\ delivered'[j] = delivered[j]
          BY <2>6, <3>2, <4>1, <4>2
        <4>4. QED BY <2>1, <4>1, <4>3
      <3>3. QED BY <3>1, <3>2
    <2>11. ASSUME s.signer_index = n - 1 \/ n - 1 \in Answered(s')
           PROVE  s'.c_0 = challenges'[0]
      <3>1. CASE i = n - 1
        <4>1. (i + 1) % n = 0
          BY <1>2, <2>2, <3>1
        <4>2. s'.c_0 = next
          BY <1>5, <3>1 DEF CapturedC0
        <4>3. QED BY <2>6, <4>1, <4>2
      <3>2. CASE i # n - 1
        <4>1. s.signer_index = n - 1 \/ n - 1 \in Answered(s)
          BY <1>6, <2>11, <3>2
        <4>2. 0 # (i + 1) % n /\ 0 \in 0 .. n - 1
          BY <1>2, <1>3, <2>2, <3>2
        <4>3. QED BY <1>5, <2>1, <2>6, <3>2, <4>1, <4>2 DEF CapturedC0
      <3>3. QED BY <3>1, <3>2
    <2>12. QED
      BY <1>1, <1>5, <2>5, <2>7, <2>9, <2>10, <2>11 DEF ChainInv
  <1>15. SignatureInv'
    BY <1>1, <1>2 DEF SignatureInv
  <1>16. QED BY <1>10, <1>11, <1>12, <1>13, <1>14, <1>15 DEF IInv, SwitchInv

(* The signer's slot: the bindings agree, so the passes delivered the same *)
(* ring; its member is the signer's key, so the response closes the ring.  *)
LEMMA SignOwnInv ==
  ASSUME IInv, phase = "Signing", signing.sign_step = signing.ring_len - 1,
         NEW i, i = ExpectedIndex(signing), NEW c \in Point, SignOwn(i, c)
  PROVE  IInv'
  <1> DEFINE s    == signing
             n    == accepted.len
             R    == accepted.members
             k    == signing.secret_key
             bind == Accumulate(s.ring_binding, i, c)
             s_pi == ClosingResponse(s.alpha, s.c_current, k)
  <1>1. /\ s \in SigningState
        /\ AcceptedRing
        /\ s.ring_len = n
        /\ n \in Nat \ {0}
        /\ s.signer_index \in 0 .. n - 1
        /\ s.sign_step \in 0 .. n - 1
        /\ k \in Scalar
        /\ s.alpha \in Scalar
        /\ validating = Nil
        /\ validated = Nil
        /\ signature = Nil
    BY SigningFacts
  <1>2. /\ i = s.signer_index
        /\ Answered(s) = (0 .. n - 1) \ {i}
    BY <1>1, SigningOrder
  <1>3. CASE /\ phase' = "Poisoned"
             /\ signing' = Nil
             /\ UNCHANGED <<validating, validated, accepted, signature>>
    <2>1. TypeOK' /\ FirstPassInv'
      BY <1>1, <1>3 DEF TypeOK, FirstPassInv, AcceptedRing
    <2>2. SessionInv' /\ DeliveredInv' /\ ChainInv' /\ SignatureInv'
      BY <1>1, <1>3 DEF SessionInv, DeliveredInv, ChainInv, SignatureInv
    <2>3. QED BY <2>1, <2>2 DEF IInv, SwitchInv
  <1>4. CASE /\ delivered' = [delivered EXCEPT ![i] = c]
             /\ BindingMatches(s, bind)
             /\ IsSigner(s, c)
             /\ signing' = Nil
             /\ phase' = "Done"
             /\ responses' = [responses EXCEPT ![i] = s_pi]
             /\ signature' = [challenge |-> s.c_0, responses |-> responses',
                              key_image |-> s.key_image]
             /\ UNCHANGED <<validating, validated, accepted, session, challenges>>
    <2>1. TypeOK' /\ FirstPassInv'
      BY <1>1, <1>4 DEF TypeOK, FirstPassInv, AcceptedRing
    <2>2. SessionInv' /\ DeliveredInv' /\ ChainInv'
      BY <1>4 DEF SessionInv, DeliveredInv, ChainInv
    <2>3. /\ delivered \in Vec(n, Point \cup {Nil})
          /\ s.ring_binding = BindingOf(delivered, Answered(s))
          /\ s.expected_ring_binding = BindingOf(R, 0 .. n - 1)
          /\ s.derived_signer = PublicKey(k)
          /\ s.key_image = KeyImage(k)
          /\ session = [signer_index |-> s.signer_index, secret_key |-> k,
                        message |-> s.message, alpha |-> s.alpha]
      BY DEF IInv, SwitchInv, SessionInv, DeliveredInv
    <2>4. /\ delivered' \in Vec(n, Point \cup {Nil})
          /\ delivered'[i] = c
          /\ \A j \in Answered(s) : delivered'[j] = delivered[j]
      BY <1>1, <1>2, <1>4, <2>3 DEF Vec
    <2>5. bind = BindingOf(delivered', 0 .. n - 1)
      <3>1. Accumulate(BindingOf(delivered, Answered(s)), i, c)
              = BindingOf(delivered', Answered(s) \cup {i})
        BY <1>2, <2>4 DEF Accumulate, SymmetricDifference, BindingOf
      <3>2. Answered(s) \cup {i} = 0 .. n - 1
        BY <1>1, <1>2
      <3>3. QED BY <2>3, <3>1, <3>2
    <2>6. delivered' = R
      <3>1. R \in Vec(n, Point) /\ n \in Nat
        BY <1>1 DEF AcceptedRing
      <3>2. BindingOf(delivered', 0 .. n - 1) = BindingOf(R, 0 .. n - 1)
        BY <1>4, <2>3, <2>5 DEF BindingMatches
      <3>3. QED BY <2>4, <3>1, <3>2, BindingInjective
    <2>7. R[i] = PublicKey(k)
      BY <1>4, <2>3, <2>4, <2>6 DEF IsSigner
    <2>8. /\ GoesAround(challenges,
                        NonceChallenge(s.message, s.alpha, HashToPoint(PublicKey(k))),
                        KeyImage(k), R, n, i, s.message, signature'.responses)
          /\ signature'.challenge = challenges[0]
          /\ signature'.responses[i] = ClosingResponse(s.alpha, challenges[i], k)
      <3>1. /\ responses \in Vec(n, Scalar \cup {Nil})
            /\ challenges \in Vec(n, Scalar \cup {Nil})
            /\ challenges[i] = s.c_current
            /\ challenges[(i + 1) % n] =
                 NonceChallenge(s.message, s.alpha, HashToPoint(PublicKey(k)))
            /\ \A j \in Answered(s) :
                 /\ responses[j] \in Scalar
                 /\ challenges[j] \in Scalar
                 /\ challenges[(j + 1) % n] =
                      NextChallenge(s.message, responses[j], challenges[j], delivered[j],
                                    HashToPoint(delivered[j]), s.key_image)
            /\ (s.signer_index = n - 1 \/ n - 1 \in Answered(s)) => s.c_0 = challenges[0]
        BY <1>2 DEF IInv, ChainInv
      <3>2. s.c_current \in Scalar
        BY <1>1 DEF SigningState
      <3>3. challenges \in Vec(n, Scalar)
        <4>1. \A j \in 0 .. n - 1 : challenges[j] \in Scalar
          BY <1>2, <3>1, <3>2
        <4>2. QED BY <3>1, <4>1 DEF Vec
      <3>4. challenges[0] = signature'.challenge
        BY <1>1, <1>2, <1>4, <3>1
      <3>5. /\ signature'.responses[i] = s_pi
            /\ \A j \in Answered(s) : signature'.responses[j] = responses[j]
            /\ signature'.key_image = KeyImage(k)
        BY <1>1, <1>2, <1>4, <2>3, <3>1 DEF Vec
      <3>6. ASSUME NEW j \in (0 .. n - 1) \ {i}
            PROVE  challenges[(j + 1) % n] =
                     NextChallenge(s.message, signature'.responses[j], challenges[j], R[j],
                                   HashToPoint(R[j]), KeyImage(k))
        <4>1. j \in Answered(s) /\ delivered[j] = R[j]
          BY <1>2, <2>4, <2>6
        <4>2. QED BY <2>3, <3>1, <3>5, <4>1
      <3>7. GoesAround(challenges,
                       NonceChallenge(s.message, s.alpha, HashToPoint(PublicKey(k))),
                       KeyImage(k), R, n, i, s.message, signature'.responses)
        BY <3>1, <3>3, <3>6 DEF GoesAround
      <3>8. QED BY <3>1, <3>4, <3>5, <3>7
    <2>12. Closes(signature', R, n, s.message)
      <3> DEFINE sig == signature'
      <3>1. /\ sig.challenge = challenges[0]
            /\ sig.key_image = KeyImage(k)
            /\ sig.responses[i] = ClosingResponse(s.alpha, challenges[i], k)
        BY <1>4, <2>3, <2>8
      <3>2. GoesAround(challenges,
                       NonceChallenge(s.message, s.alpha, HashToPoint(PublicKey(k))),
                       KeyImage(k), R, n, i, s.message, sig.responses)
        BY <2>8
      <3> HIDE DEF sig
      <3>3. n \in Nat \ {0} /\ i \in 0 .. n - 1 /\ k \in Scalar /\ s.alpha \in Scalar
        BY <1>1, <1>2
      <3>4. Closes(sig, R, n, s.message)
        BY <2>7, <3>1, <3>2, <3>3, AroundCloses
      <3>5. QED BY <3>4 DEF sig
    <2>9. signature' \in Signatures /\ responses' \in Vec(n, Scalar)
      <3>1. /\ responses \in Vec(n, Scalar \cup {Nil})
            /\ \A j \in Answered(s) : responses[j] \in Scalar
        BY DEF IInv, ChainInv
      <3>2. s_pi \in Scalar /\ s.c_0 \in Scalar /\ s.key_image \in Point
        BY <1>1, CurveTypes DEF SigningState, ClosingResponse
      <3>3. responses' \in Vec(n, Scalar)
        BY <1>1, <1>2, <1>4, <3>1, <3>2 DEF Vec
      <3>4. n \in Lengths
        BY <1>1 DEF AcceptedRing
      <3>5. QED BY <1>4, <3>2, <3>3, <3>4 DEF Signatures
    <2>10. SignatureInv'
      <3>1. k \in SecretKeys /\ s.message \in Message
        BY <1>1 DEF SigningState
      <3>2. session' = session /\ accepted' = accepted
        BY <1>4
      <3>3. session' = [signer_index |-> i, secret_key |-> k, message |-> s.message,
                        alpha |-> s.alpha]
        BY <1>2, <2>3, <3>2
      <3>4. signature'.key_image = KeyImage(k)
        BY <1>4, <2>3
      <3>5. /\ session'.signer_index = i
            /\ session'.secret_key = k
            /\ session'.message = s.message
        BY <3>3
      <3>6. /\ delivered' = accepted'.members
            /\ session'.signer_index \in 0 .. accepted'.len - 1
            /\ session'.secret_key \in SecretKeys
            /\ session'.message \in Message
            /\ accepted'.members[session'.signer_index] = PublicKey(session'.secret_key)
            /\ signature' \in Signatures
            /\ signature'.key_image = KeyImage(session'.secret_key)
        BY <1>1, <1>2, <2>6, <2>7, <2>9, <3>1, <3>2, <3>4, <3>5
      <3>7. Closes(signature', accepted'.members, accepted'.len, session'.message)
        BY <2>12, <3>2, <3>5
      <3>8. phase' = "Done" /\ challenges' = challenges
        BY <1>4
      <3>9. signature'.responses = responses'
        BY <1>4
      <3>10. session'.alpha = s.alpha
        BY <3>3
      <3>11. SignedAround'
        BY <2>8, <2>9, <3>2, <3>5, <3>8, <3>9, <3>10 DEF SignedAround
      <3>12. QED BY <3>6, <3>7, <3>8, <3>11 DEF SignatureInv
    <2>11. QED BY <2>1, <2>2, <2>10 DEF IInv, SwitchInv
  <1>5. QED BY <1>3, <1>4 DEF SignOwn, Poison

(* sign_member keeps the invariant.                                        *)
LEMMA SignMemberInv ==
  ASSUME IInv, NEW i \in Index, NEW c \in Encodings, SignMember(i, c)
  PROVE  IInv'
  <1>1. CASE UNCHANGED <<fields, history>>
    BY <1>1, FailsInv
  <1>2. CASE /\ phase = "Signing"
             /\ i = ExpectedIndex(signing)
             /\ Decompresses(c)
             /\ signing.sign_step = signing.ring_len - 1
             /\ SignOwn(i, c)
    BY <1>2, SignOwnInv DEF Decompresses
  <1>3. CASE /\ phase = "Signing"
             /\ i = ExpectedIndex(signing)
             /\ Decompresses(c)
             /\ signing.sign_step # signing.ring_len - 1
             /\ SignOther(i, c)
    BY <1>3, SignOtherInv DEF Decompresses
  <1>4. QED BY <1>1, <1>2, <1>3 DEF SignMember, Fails

-----------------------------------------------------------------------------
(* Every call keeps the invariant.                                         *)
LEMMA NextInv == IInv /\ [Next]_vars => IInv'
  <1> SUFFICES ASSUME IInv, [Next]_vars PROVE IInv'
    OBVIOUS
  <1>1. CASE UNCHANGED vars
    BY <1>1, FailsInv DEF vars
  <1>2. ASSUME NEW n \in 0 .. MaxRing, NEW hash \in RingHashes, InitValidation(n, hash)
        PROVE IInv'
    BY <1>2, InitValidationInv
  <1>3. ASSUME NEW i \in Index, NEW c \in Encodings, ValidateMember(i, c)
        PROVE IInv'
    BY <1>3, ValidateMemberInv
  <1>4. ASSUME NEW i \in Index, NEW k \in SecretKeys, NEW c \in Encodings,
               NEW m \in Message, InitSigning(i, k, c, m)
        PROVE IInv'
    BY <1>4, InitSigningInv
  <1>5. ASSUME NEW i \in Index, NEW c \in Encodings, SignMember(i, c)
        PROVE IInv'
    BY <1>5, SignMemberInv
  <1>6. QED BY <1>1, <1>2, <1>3, <1>4, <1>5 DEF Next

(* The invariant holds in every reachable state.                           *)
THEOREM Invariance == Spec => []IInv
  <1>1. QED BY InitInv, NextInv, PTL DEF Spec

(* The state of the signer is well formed and matches its phase            *)
(* (streaming.rs:219-243), whatever is called in whatever order.           *)
THEOREM TypeCorrect == Spec => []TypeOK
  <1>1. IInv => TypeOK
    BY DEF IInv, SwitchInv
  <1>2. QED BY Invariance, <1>1, PTL

(* A signature is only issued for the ring of the first pass, whose hash   *)
(* the caller had named (streaming.rs:513-518).                            *)
THEOREM RingAgreement == Spec => []NoRingSwitch
  <1>1. IInv => NoRingSwitch
    BY DEF IInv, SwitchInv, FirstPassInv, SignatureInv, AcceptedRing, NoRingSwitch
  <1>2. QED BY Invariance, <1>1, PTL

(* A signature is only issued by the key of the ring's member at the       *)
(* claimed index (streaming.rs:520-532).                                   *)
THEOREM Membership == Spec => []SignerIsMember
  <1>1. IInv => SignerIsMember
    BY DEF IInv, SignatureInv, SignerIsMember
  <1>2. QED BY Invariance, <1>1, PTL

-----------------------------------------------------------------------------
(* What the invariant says of a signature that is out.                     *)
LEMMA SignedFacts ==
  ASSUME IInv, signature # Nil
  PROVE  /\ accepted.len \in Nat \ {0}
         /\ accepted.members \in Vec(accepted.len, Point)
         /\ session.signer_index \in 0 .. accepted.len - 1
         /\ session.secret_key \in Scalar
         /\ session.message \in Message
         /\ signature \in Signatures
         /\ signature.key_image = KeyImage(session.secret_key)
         /\ SignedAround
         /\ Closes(signature, accepted.members, accepted.len, session.message)
  <1>1. phase = "Done" /\ AcceptedRing
    BY DEF IInv, SwitchInv, FirstPassInv, SignatureInv
  <1>2. session.secret_key \in SecretKeys
    BY <1>1 DEF IInv, SignatureInv
  <1>3. QED BY <1>1, <1>2, SignerConstants DEF IInv, SignatureInv, AcceptedRing, Lengths

(* A signature that is out passes the standard verification.               *)
LEMMA SignedVerifies ==
  ASSUME IInv, signature # Nil
  PROVE  Verify(signature, accepted.members, accepted.len, session.message)
  <1> DEFINE sig == signature
             R == accepted.members
             n == accepted.len
             m == session.message
  <1>1. /\ n \in Nat \ {0} /\ R \in Vec(n, Point) /\ m \in Message
        /\ sig \in Signatures /\ SignedAround /\ Closes(sig, R, n, m)
    BY SignedFacts
  <1>2. /\ sig.challenge \in Scalar /\ sig.key_image \in Point
        /\ sig.responses \in Vec(n, Scalar)
    BY <1>1 DEF Signatures, SignedAround
  <1> HIDE DEF sig, R, n, m
  <1>3. ASSUME NEW j \in 0 .. n - 1, NEW c \in Scalar
        PROVE  NextChallenge(m, sig.responses[j], c, R[j], HashToPoint(R[j]),
                             sig.key_image) \in Scalar
    <2>1. sig.responses[j] \in Scalar /\ R[j] \in Point
      BY <1>1, <1>2 DEF Vec
    <2>2. \A L, Q \in Point : Challenge(m, L, Q) \in Scalar
      BY <1>1, SignerConstants
    <2>3. QED BY <1>2, <2>1, <2>2, NextChallengeIsScalar
  <1>4. Verify(sig, R, n, m)
    BY <1>1, <1>2, <1>3, VerifyIsCloses
  <1>5. QED BY <1>4 DEF sig, R, n, m

(* Every signature issued passes the standard verification over the ring   *)
(* validated in the first pass (streaming.rs:25-28, verify.rs:102-163).    *)
THEOREM RoundTrip == Spec => []SignatureVerifies
  <1>1. IInv => SignatureVerifies
    BY SignedVerifies DEF SignatureVerifies
  <1>2. QED BY Invariance, <1>1, PTL

(* It is the signature that one-shot signing makes from the same nonce and *)
(* responses (streaming.rs:27, sign.rs:90-194).                            *)
THEOREM SameAsOneShot == Spec => []MatchesOneShot
  <1>1. ASSUME IInv, signature # Nil
        PROVE  signature = SignWith(session.secret_key, accepted.members, accepted.len,
                                    session.signer_index,
                                    HashedPoints(accepted.members, accepted.len),
                                    session.message, session.alpha, signature.responses)
    <2> DEFINE sig == signature
               R == accepted.members
               n == accepted.len
               m == session.message
               pi == session.signer_index
               k == session.secret_key
               a == session.alpha
               rs == signature.responses
    <2>1. /\ n \in Nat \ {0} /\ pi \in 0 .. n - 1 /\ sig \in Signatures
          /\ sig.key_image = KeyImage(k)
      BY <1>1, SignedFacts
    <2>2. /\ rs \in Vec(n, Scalar)
          /\ GoesAround(challenges, NonceChallenge(m, a, HashToPoint(PublicKey(k))),
                        KeyImage(k), R, n, pi, m, rs)
          /\ sig.challenge = challenges[0]
          /\ rs[pi] = ClosingResponse(a, challenges[pi], k)
      BY <1>1, SignedFacts DEF SignedAround
    <2>3. sig = [challenge |-> sig.challenge, responses |-> rs,
                 key_image |-> sig.key_image]
      BY <2>1 DEF Signatures
    <2> HIDE DEF sig, R, n, m, pi, k, a, rs
    <2>4. SignWith(k, R, n, pi, HashedPoints(R, n), m, a, rs)
            = [challenge |-> challenges[0],
               responses |-> [rs EXCEPT ![pi] = ClosingResponse(a, challenges[pi], k)],
               key_image |-> KeyImage(k)]
      BY <2>1, <2>2, SignWithIs
    <2>5. [rs EXCEPT ![pi] = ClosingResponse(a, challenges[pi], k)] = rs
      BY <2>2 DEF Vec
    <2>6. sig = SignWith(k, R, n, pi, HashedPoints(R, n), m, a, rs)
      BY <2>1, <2>2, <2>3, <2>4, <2>5
    <2>7. QED BY <2>6 DEF sig, R, n, m, pi, k, a, rs
  <1>2. IInv => MatchesOneShot
    BY <1>1 DEF MatchesOneShot
  <1>3. QED BY Invariance, <1>2, PTL

-----------------------------------------------------------------------------
(* A step that accepts no ring and issues nothing is one the session does  *)
(* not see.                                                                *)
LEMMA UnseenStep ==
  ASSUME UNCHANGED <<accepted, signature>>,
         signature = Nil \/ UNCHANGED session
  PROVE  UNCHANGED Session!vars
  BY DEF Session!vars

(* A validated member accepts a ring in the session, or nothing.           *)
LEMMA ValidateRefines ==
  ASSUME IInv, IInv', phase = "Validating", NEW i, NEW c \in Point, Validate(i, c)
  PROVE  [Session!Next]_(Session!vars)
  <1>1. CASE UNCHANGED <<accepted, signature>>
    BY <1>1, UnseenStep DEF IInv, SignatureInv
  <1>2. CASE /\ phase' = "Validated"
             /\ UNCHANGED signature
    <2>1. accepted = Nil /\ signature = Nil
      BY DEF IInv, SwitchInv, FirstPassInv, SignatureInv
    <2>2. AcceptedRing'
      BY <1>2 DEF IInv, SwitchInv, FirstPassInv
    <2>3. /\ accepted'.len \in 1 .. MaxRing
          /\ accepted'.members \in Session!Vec(accepted'.len, Point)
          /\ RingHash(accepted'.members) \in RingHashes
          /\ accepted' = [members |-> accepted'.members, len |-> accepted'.len]
      BY <2>2 DEF AcceptedRing, Lengths, Vec, Session!Vec, RingHash
    <2>4. Session!Settle
      BY <1>2, <2>1, <2>3 DEF Session!Settle
    <2>5. QED BY <2>4 DEF Session!Next
  <1>3. QED BY <1>1, <1>2 DEF Validate, history

(* The signer's own turn issues the signature of the session.              *)
LEMMA SignOwnRefines ==
  ASSUME IInv, IInv', phase = "Signing", NEW i, NEW c, SignOwn(i, c)
  PROVE  [Session!Next]_(Session!vars)
  <1>1. CASE UNCHANGED <<accepted, session, signature>>
    BY <1>1, UnseenStep
  <1>2. CASE phase' = "Done" /\ UNCHANGED <<accepted, session>>
    <2>1. signature = Nil /\ AcceptedRing
      BY DEF IInv, SwitchInv, FirstPassInv, SignatureInv
    <2>2. /\ session'.signer_index \in 0 .. accepted'.len - 1
          /\ session'.secret_key \in SecretKeys
          /\ session'.message \in Message
          /\ accepted'.members[session'.signer_index] = PublicKey(session'.secret_key)
          /\ signature' \in Signatures
          /\ signature'.key_image = KeyImage(session'.secret_key)
          /\ Closes(signature', accepted'.members, accepted'.len, session'.message)
      BY <1>2 DEF IInv, SignatureInv
    <2>3. accepted # Nil
      BY <2>1, NilIsNone DEF AcceptedRing, Rings
    <2>4. /\ signature' # Nil
          /\ [message |-> session'.message, signature |-> signature'] # Nil
      BY <2>2, NilIsNone
    <2>5. Session!IsSignatureBy(session'.secret_key, session'.signer_index, signature',
                                accepted, session'.message)
      <3>1. Closes(signature', accepted.members, accepted.len, session'.message)
        BY <1>2, <2>2
      <3>2. Session!Closes(signature', accepted.members, accepted.len, session'.message)
        BY <3>1 DEF Closes, Session!Closes, Vec, Session!Vec, NextChallenge,
                    Session!NextChallenge
      <3>3. QED
        BY <1>2, <2>2, <3>2 DEF Session!IsSignatureBy, PublicKey, Session!PublicKey,
                               KeyImage, Session!KeyImage
    <2>6. Session!Issue
      BY <1>2, <2>1, <2>2, <2>3, <2>4, <2>5 DEF Session!Issue
    <2>7. QED BY <2>6 DEF Session!Next
  <1>3. QED BY <1>1, <1>2 DEF SignOwn, Poison

(* Every step of the signer is a step of the session, or one it does not   *)
(* see.                                                                    *)
LEMMA StepRefines ==
  ASSUME IInv, IInv', [Next]_vars
  PROVE  [Session!Next]_(Session!vars)
  <1>1. CASE UNCHANGED <<accepted, session, signature>>
    BY <1>1, UnseenStep
  <1>2. ASSUME NEW n \in 0 .. MaxRing, NEW hash \in RingHashes, InitValidation(n, hash)
        PROVE  UNCHANGED <<accepted, session, signature>>
    BY <1>2 DEF InitValidation, Fails, history
  <1>3. ASSUME NEW i \in Index, NEW c \in Encodings, ValidateMember(i, c)
        PROVE  [Session!Next]_(Session!vars)
    <2>1. CASE Fails("InvalidState") \/ Fails("OutOfOrder") \/ Fails("InvalidPoint")
      BY <1>1, <2>1 DEF Fails, history
    <2>2. CASE phase = "Validating" /\ Decompresses(c) /\ Validate(i, c)
      BY <2>2, ValidateRefines DEF Decompresses
    <2>3. QED BY <1>3, <2>1, <2>2 DEF ValidateMember
  <1>4. ASSUME NEW pi \in Index, NEW k \in SecretKeys, NEW c \in Encodings,
               NEW m \in Message, InitSigning(pi, k, c, m)
        PROVE  [Session!Next]_(Session!vars)
    <2>1. CASE UNCHANGED <<accepted, session, signature>>
      BY <1>1, <2>1
    <2>2. CASE phase = "Validated" /\ BeginSigning(pi, k, m)
      <3>1. UNCHANGED <<accepted, signature>>
        BY <2>2 DEF BeginSigning
      <3>2. signature = Nil
        BY <2>2 DEF IInv, SignatureInv
      <3>3. QED BY <3>1, <3>2, UnseenStep
    <2>3. QED BY <1>4, <2>1, <2>2 DEF InitSigning, Fails, history
  <1>5. ASSUME NEW i \in Index, NEW c \in Encodings, SignMember(i, c)
        PROVE  [Session!Next]_(Session!vars)
    <2>1. CASE UNCHANGED <<accepted, session, signature>>
      BY <1>1, <2>1
    <2>2. CASE phase = "Signing" /\ SignOwn(i, c)
      BY <2>2, SignOwnRefines
    <2>3. CASE SignOther(i, c)
      BY <1>1, <2>3 DEF SignOther
    <2>4. QED BY <1>5, <2>1, <2>2, <2>3 DEF SignMember, Fails, history
  <1>6. CASE UNCHANGED vars
    BY <1>1, <1>6 DEF vars, history
  <1>7. QED BY <1>1, <1>2, <1>3, <1>4, <1>5, <1>6 DEF Next

(* The streaming signer implements the abstract signing session.           *)
THEOREM Refinement == Spec => ImplementsSession
  <1>1. Init => Session!Init
    BY DEF Init, Session!Init
  <1>2. IInv /\ IInv' /\ [Next]_vars => [Session!Next]_(Session!vars)
    BY StepRefines
  <1>3. QED BY <1>1, <1>2, Invariance, PTL DEF Spec, ImplementsSession, Session!Spec

-----------------------------------------------------------------------------
(* A member not yet answered has no response in the record.               *)
LEMMA UnansweredStep ==
  ASSUME IInv, UnansweredInv, [Next]_vars
  PROVE  UnansweredInv'
  <1>1. CASE UNCHANGED <<phase, accepted, signing, responses>>
    BY <1>1 DEF UnansweredInv, Answered
  <1>2. CASE phase' # "Signing"
    BY <1>2 DEF UnansweredInv
  <1>3. ASSUME NEW pi \in Index, NEW k \in SecretKeys, NEW m \in Message,
               phase = "Validated", BeginSigning(pi, k, m)
        PROVE  UnansweredInv'
    <2>1. validated.ring_len = accepted.len
      BY <1>3 DEF IInv, SwitchInv, FirstPassInv
    <2>2. accepted' = accepted /\ responses' = [j \in 0 .. accepted.len - 1 |-> Nil]
      BY <1>3, <2>1 DEF BeginSigning
    <2>3. QED BY <2>2 DEF UnansweredInv
  <1>4. ASSUME NEW i, NEW c, phase = "Signing", i = ExpectedIndex(signing),
               signing.sign_step # signing.ring_len - 1, SignOther(i, c)
        PROVE  UnansweredInv'
    <2> DEFINE s == signing
               n == accepted.len
    <2>1. /\ s \in SigningState /\ s.ring_len = n /\ n \in Nat \ {0}
          /\ s.signer_index \in 0 .. n - 1 /\ s.sign_step \in 0 .. n - 1
      BY <1>4, SigningFacts
    <2>2. PICK r \in Random : responses' = [responses EXCEPT ![i] = r]
      BY <1>4 DEF SignOther
    <2>3. /\ s'.ring_len = n /\ s'.signer_index = s.signer_index
          /\ s'.sign_step = s.sign_step + 1
      BY <1>4, <2>1 DEF SignOther, SigningState
    <2>4. Answered(s') = Answered(s) \cup {i}
      BY <1>4, <2>1, <2>3, SigningOrderStep
    <2>5. responses \in Vec(n, Scalar \cup {Nil})
      BY <1>4 DEF IInv, ChainInv
    <2>6. \A j \in 0 .. n - 1 : j # i => responses'[j] = responses[j]
      BY <2>2, <2>5 DEF Vec
    <2>7. accepted' = accepted
      BY <1>4 DEF SignOther
    <2>8. \A j \in (0 .. n - 1) \ Answered(s') : responses'[j] = Nil
      BY <1>4, <2>4, <2>6 DEF UnansweredInv
    <2>9. QED BY <2>7, <2>8 DEF UnansweredInv
  <1>5. CASE UNCHANGED vars
    BY <1>1, <1>5 DEF vars, fields, history
  <1>6. ASSUME NEW n, NEW hash, InitValidation(n, hash) PROVE UnansweredInv'
    BY <1>1, <1>2, <1>6 DEF InitValidation, Fails, fields, history
  <1>7. ASSUME NEW i, NEW c, ValidateMember(i, c) PROVE UnansweredInv'
    BY <1>1, <1>2, <1>7 DEF ValidateMember, Validate, Fails, fields, history
  <1>8. ASSUME NEW pi \in Index, NEW k \in SecretKeys, NEW c, NEW m \in Message,
               InitSigning(pi, k, c, m)
        PROVE  UnansweredInv'
    BY <1>1, <1>3, <1>8 DEF InitSigning, Fails, fields, history
  <1>9. ASSUME NEW i, NEW c, SignMember(i, c) PROVE UnansweredInv'
    <2>1. CASE UNCHANGED <<fields, history>>
      BY <1>1, <2>1 DEF fields, history
    <2>2. CASE SignOwn(i, c)
      BY <1>2, <2>2 DEF SignOwn, Poison
    <2>3. QED BY <1>4, <1>9, <2>1, <2>2 DEF SignMember, Fails
  <1>10. QED BY <1>5, <1>6, <1>7, <1>8, <1>9 DEF Next

(* No member is answered twice, and the nonce is never replaced once a     *)
(* response depends on it (streaming.rs:489-505).                          *)
THEOREM OneResponse == Spec => NoSecondResponse
  <1> DEFINE A == session # Nil =>
                    /\ session' = session
                    /\ \A i \in DOMAIN responses :
                         responses[i] # Nil => responses'[i] = responses[i]
  <1>1. IInv /\ UnansweredInv /\ [Next]_vars => [A]_vars
    <2> SUFFICES ASSUME IInv, UnansweredInv, Next, session # Nil
                 PROVE  /\ session' = session
                        /\ \A i \in DOMAIN responses :
                             responses[i] # Nil => responses'[i] = responses[i]
      OBVIOUS
    <2>1. phase \notin {"Idle", "Validating", "Validated"}
      BY DEF IInv, SignatureInv
    <2>2. CASE UNCHANGED <<session, responses>>
      BY <2>2
    <2>3. CASE \E n, hash : InitValidation(n, hash)
      BY <2>1, <2>2, <2>3 DEF InitValidation, MayStart, Fails, history
    <2>4. CASE \E i, c : ValidateMember(i, c)
      BY <2>1, <2>2, <2>4 DEF ValidateMember, Fails, history
    <2>5. CASE \E pi, k, c, m : InitSigning(pi, k, c, m)
      BY <2>1, <2>2, <2>5 DEF InitSigning, Fails, history
    <2>6. ASSUME NEW i, NEW c, SignMember(i, c)
          PROVE  /\ session' = session
                 /\ \A j \in DOMAIN responses :
                      responses[j] # Nil => responses'[j] = responses[j]
      <3>1. CASE UNCHANGED <<fields, history>>
        BY <2>2, <3>1 DEF history
      <3>2. CASE phase = "Signing" /\ i = ExpectedIndex(signing)
                 /\ (SignOwn(i, c) \/ SignOther(i, c))
        <4>1. /\ i \in 0 .. accepted.len - 1 /\ i \notin Answered(signing)
          <5>1. /\ signing.ring_len = accepted.len /\ accepted.len \in Nat \ {0}
                /\ signing.signer_index \in 0 .. accepted.len - 1
                /\ signing.sign_step \in 0 .. accepted.len - 1
            BY <3>2, SigningFacts
          <5>2. QED BY <3>2, <5>1, SigningOrder
        <4>2. responses[i] = Nil
          BY <3>2, <4>1 DEF UnansweredInv
        <4>3. session' = session /\ (\/ responses' = responses
                                     \/ \E r : responses' = [responses EXCEPT ![i] = r])
          BY <3>2 DEF SignOwn, SignOther, Poison
        <4>4. QED BY <4>2, <4>3
      <3>3. QED BY <2>6, <3>1, <3>2 DEF SignMember, Fails
    <2>7. QED BY <2>3, <2>4, <2>5, <2>6 DEF Next
  <1>2. Init => UnansweredInv
    BY DEF Init, UnansweredInv
  <1>3. IInv /\ UnansweredInv /\ [Next]_vars => UnansweredInv'
    BY UnansweredStep
  <1>4. Spec => []UnansweredInv
    BY <1>2, <1>3, Invariance, PTL DEF Spec
  <1>5. QED BY <1>1, <1>4, Invariance, PTL DEF Spec, NoSecondResponse

------------------------------------------------------------------------------
(* The last call of a pass over the same ring does not poison a signer     *)
(* whose key is at its index: both accumulators digest the same pairs.     *)
LEMMA OwnSlotPoisons ==
  ASSUME IInv, phase = "Signing", signing.sign_step = signing.ring_len - 1,
         NEW i, i = ExpectedIndex(signing), NEW c \in Point, SignOwn(i, c)
  PROVE  PoisonedForCause'
  <1> DEFINE s    == signing
             n    == accepted.len
             R    == accepted.members
             bind == Accumulate(s.ring_binding, i, c)
  <1>1. /\ s.ring_len = n
        /\ n \in Nat \ {0}
        /\ s.signer_index \in 0 .. n - 1
        /\ s.sign_step \in 0 .. n - 1
    BY SigningFacts
  <1>2. /\ i = s.signer_index /\ i \in 0 .. n - 1
        /\ Answered(s) = (0 .. n - 1) \ {i}
    BY <1>1, SigningOrder
  <1>3. /\ delivered \in Vec(n, Point \cup {Nil})
        /\ s.ring_binding = BindingOf(delivered, Answered(s))
        /\ s.expected_ring_binding = BindingOf(R, 0 .. n - 1)
        /\ s.derived_signer = PublicKey(s.secret_key)
        /\ session.signer_index = s.signer_index
        /\ session.secret_key = s.secret_key
    BY DEF IInv, SwitchInv, SessionInv, DeliveredInv
  <1>4. /\ accepted' = accepted
        /\ delivered' = [delivered EXCEPT ![i] = c]
        /\ session' = session
    BY DEF SignOwn, Poison
  <1>5. /\ delivered'[i] = c
        /\ \A j \in Answered(s) : delivered'[j] = delivered[j]
    BY <1>2, <1>3, <1>4 DEF Vec
  <1>6. bind = BindingOf(delivered', 0 .. n - 1)
    <2>1. Accumulate(BindingOf(delivered, Answered(s)), i, c)
            = BindingOf(delivered', Answered(s) \cup {i})
      BY <1>2, <1>5 DEF Accumulate, SymmetricDifference, BindingOf
    <2>2. Answered(s) \cup {i} = 0 .. n - 1
      BY <1>2
    <2>3. QED BY <1>3, <2>1, <2>2
  <1>7. ASSUME delivered' = R, phase' = "Poisoned"
        PROVE  R[i] # PublicKey(s.secret_key)
    <2>1. BindingMatches(s, bind)
      BY <1>3, <1>6, <1>7 DEF BindingMatches
    <2>2. ~IsSigner(s, c)
      BY <1>7, <2>1 DEF SignOwn
    <2>3. QED BY <1>3, <1>5, <1>7, <2>2 DEF IsSigner
  <1>8. QED BY <1>2, <1>3, <1>4, <1>7 DEF PoisonedForCause

(* No other call poisons the signer.                                       *)
LEMMA PoisonedStep ==
  ASSUME IInv, PoisonedForCause, [Next]_vars
  PROVE  PoisonedForCause'
  <1>1. CASE UNCHANGED <<phase, accepted, session, delivered>>
    BY <1>1 DEF PoisonedForCause
  <1>2. CASE phase' # "Poisoned"
    BY <1>2 DEF PoisonedForCause
  <1>3. CASE UNCHANGED vars
    BY <1>1, <1>3 DEF vars, fields, history
  <1>4. ASSUME NEW n, NEW hash, InitValidation(n, hash) PROVE PoisonedForCause'
    BY <1>1, <1>2, <1>4 DEF InitValidation, Fails, fields, history
  <1>5. ASSUME NEW i, NEW c, ValidateMember(i, c) PROVE PoisonedForCause'
    BY <1>1, <1>2, <1>5 DEF ValidateMember, Validate, Fails, fields, history
  <1>6. ASSUME NEW pi, NEW k, NEW c, NEW m, InitSigning(pi, k, c, m)
        PROVE  PoisonedForCause'
    BY <1>1, <1>2, <1>6 DEF InitSigning, BeginSigning, Fails, fields, history
  <1>7. ASSUME NEW i, NEW c, SignMember(i, c) PROVE PoisonedForCause'
    <2>1. CASE UNCHANGED <<fields, history>>
      BY <1>1, <2>1 DEF fields, history
    <2>2. CASE phase = "Signing" /\ SignOther(i, c)
      BY <1>2, <2>2 DEF SignOther
    <2>3. CASE /\ phase = "Signing" /\ i = ExpectedIndex(signing) /\ Decompresses(c)
               /\ signing.sign_step = signing.ring_len - 1 /\ SignOwn(i, c)
      BY <2>3, OwnSlotPoisons DEF Decompresses
    <2>4. QED BY <1>7, <2>1, <2>2, <2>3 DEF SignMember, Fails
  <1>8. QED BY <1>3, <1>4, <1>5, <1>6, <1>7 DEF Next

(* A caller who delivers one ring twice, with the signer's key at its      *)
(* index, does not lose the session, whatever calls failed or were         *)
(* repeated on the way (streaming.rs:513-532).                             *)
THEOREM PoisonedRightly == Spec => []PoisonedForCause
  <1>1. Init => PoisonedForCause
    BY DEF Init, PoisonedForCause
  <1>2. IInv /\ PoisonedForCause /\ [Next]_vars => PoisonedForCause'
    BY PoisonedStep
  <1>3. QED BY <1>1, <1>2, Invariance, PTL DEF Spec

------------------------------------------------------------------------------
(* The arguments of the call.                                              *)
Given ==
  /\ len \in 0 .. MaxRing
  /\ ring \in SortedRings
  /\ ring \in Vec(len, Member \cup {Malformed})
  /\ secret_key \in SecretKeys
  /\ message \in Message

Found == signer_index \in 0 .. len - 1 /\ ring[signer_index] = PublicKey(secret_key)

Accepted == accepted = [members |-> ring, len |-> len]

(* How far the signer is when the call is at a statement.                  *)
Validating ==
  /\ phase = "Validating"
  /\ validating.ring_len = len
  /\ validating.expected_ring_hash = AnnouncedHash(ring)
  /\ validating.members_seen = step
  /\ \A i \in 0 .. step - 1 : validating.hasher[i] = ring[i]

Signing ==
  /\ phase = "Signing"
  /\ Accepted
  /\ signing.signer_index = signer_index
  /\ signing.secret_key = secret_key
  /\ signing.message = message
  /\ signing.sign_step = step
  /\ \A i \in Answered(signing) : delivered[i] = ring[i] /\ out.responses[i] = responses[i]

Signed ==
  /\ phase = "Done"
  /\ Accepted
  /\ session.message = message
  /\ out = signature

SignerFollows ==
  /\ pc \in {"find_signer", "init_validation"} => phase = "Idle"
  /\ pc \in {"find_signer", "init_validation", "init_signing"} => step = 0
  /\ pc \notin {"find_signer", "returned"} => Found
  /\ pc = "validate" => Validating
  /\ pc = "init_signing" => phase = "Validated" /\ Accepted
  /\ pc = "sign" => Signing
  /\ outcome = "Ok" => Signed

CallInv == IInv /\ Given /\ CallTypeOK /\ SignerFollows /\ OutcomeIsRight

-----------------------------------------------------------------------------
(* A method call of the function is a step of the signer, so the signer's  *)
(* invariant holds after it.                                               *)
LEMMA MethodKeeps ==
  ASSUME IInv,
         \/ \E n \in 0 .. MaxRing, r \in SortedRings : InitValidation(n, AnnouncedHash(r))
         \/ \E i \in Index, c \in Encodings : ValidateMember(i, c)
         \/ \E i \in Index, k \in SecretKeys, c \in Encodings, m \in Message :
              InitSigning(i, k, c, m)
         \/ \E i \in Index, c \in Encodings : SignMember(i, c)
  PROVE  IInv'
  <1>1. \A r \in SortedRings : AnnouncedHash(r) \in RingHashes
    BY CallerHashes
  <1>2. Next
    BY <1>1 DEF Next
  <1>3. QED BY <1>2, NextInv

-----------------------------------------------------------------------------
(* A ring given to the function has the length that is computed.           *)
LEMMA RingLength ==
  ASSUME NEW r \in SortedRings
  PROVE  /\ Cardinality(DOMAIN r) \in 0 .. MaxRing
         /\ r \in Vec(Cardinality(DOMAIN r), Member \cup {Malformed})
  <1>1. PICK n \in 0 .. MaxRing : r \in Vec(n, Member \cup {Malformed})
    BY DEF SortedRings
  <1>2. DOMAIN r = 0 .. n - 1
    BY <1>1 DEF Vec
  <1>3. Cardinality(0 .. n - 1) = n
    <2>1. n \in Nat /\ 0 \in Int /\ n - 1 \in Int
      BY <1>1, SignerConstants
    <2>2. Cardinality(0 .. n - 1) = IF 0 > n - 1 THEN 0 ELSE n - 1 - 0 + 1
      BY <2>1, FS_Interval
    <2>3. QED BY <2>1, <2>2
  <1>4. QED BY <1>1, <1>2, <1>3

(* The invariant holds of a fresh signer and any arguments.                *)
LEMMA CallStarts == CallInit => CallInv
  <1> SUFFICES ASSUME CallInit PROVE CallInv
    OBVIOUS
  <1>1. IInv
    BY InitInv DEF CallInit
  <1>2. Given
    <2>1. ring \in SortedRings /\ len = Cardinality(DOMAIN ring)
      BY DEF CallInit
    <2>2. QED BY <2>1, RingLength DEF CallInit, Given
  <1>3. len \in Nat
    BY <1>2, SignerConstants DEF Given
  <1>4. out \in [challenge : Scalar, responses : Vec(len, Scalar), key_image : Point]
    BY CurveTypes DEF CallInit, Vec
  <1>5. CallTypeOK
    BY <1>3, <1>4 DEF CallInit, CallTypeOK
  <1>6. SignerFollows
    BY NilIsNone, NilIsNoLocal DEF CallInit, Init, SignerFollows
  <1>7. OutcomeIsRight
    BY DEF CallInit, OutcomeIsRight
  <1>8. QED BY <1>1, <1>2, <1>5, <1>6, <1>7 DEF CallInv

(* The first of the members that are the signer's.                         *)
LEMMA FirstOf ==
  ASSUME NEW N \in SUBSET Nat, N # {}
  PROVE  LET i == CHOOSE i \in N : \A j \in N : i <= j IN i \in N
  <1> DEFINE R == OpToRel(<, Nat)
  <1>1. IsWellFoundedOn(R, Nat)
    BY NatLessThanWellFounded
  <1>2. \A x, y \in Nat : x < y => <<x, y>> \in R
    BY DEF OpToRel
  <1> HIDE DEF R
  <1>3. PICK x \in N : \A y \in N : ~(<<y, x>> \in R)
    BY <1>1, WFMin
  <1>4. \A y \in N : ~(y < x)
    BY <1>2, <1>3
  <1>5. \E i \in N : \A j \in N : i <= j
    BY <1>4
  <1>6. QED BY <1>5, Zenon

(* The search for the signer.                                              *)
LEMMA FindSignerKeeps ==
  ASSUME CallInv, FindSigner
  PROVE  CallInv'
  <1> DEFINE at == {i \in DOMAIN ring : ring[i] = PublicKey(secret_key)}
  <1>1. /\ pc = "find_signer"
        /\ UNCHANGED vars
        /\ UNCHANGED <<ring, full, len, secret_key, message>>
        /\ UNCHANGED <<step, out>>
    BY DEF FindSigner, arguments
  <1>2. IInv'
    BY <1>1, NextInv DEF CallInv
  <1>3. Given'
    BY <1>1 DEF CallInv, Given
  <1>4. /\ phase = "Idle" /\ phase' = "Idle" /\ step = 0
        /\ DOMAIN ring = 0 .. len - 1 /\ len \in Nat
        /\ step \in 0 .. len
        /\ out \in [challenge : Scalar, responses : Vec(len, Scalar), key_image : Point]
        /\ outcome = Nil /\ signer_index \in DOMAIN ring \cup {Nil}
    BY <1>1, SignerConstants DEF CallInv, SignerFollows, CallTypeOK, Given, Vec, vars,
       fields
  <1>5. CASE /\ at = {}
             /\ pc' = "returned" /\ outcome' = "SignerNotFound" /\ UNCHANGED signer_index
    <2>1. outcome' # Nil /\ outcome' # "Ok"
      BY <1>5, NilIsNone, NilIsNoLocal
    <2>2. CallTypeOK'
      BY <1>1, <1>4, <1>5, <2>1 DEF CallTypeOK
    <2>3. SignerFollows'
      BY <1>5, <2>1 DEF SignerFollows
    <2>4. OutcomeIsRight'
      BY <1>1, <1>5 DEF OutcomeIsRight
    <2>5. QED BY <1>2, <1>3, <2>2, <2>3, <2>4 DEF CallInv
  <1>6. CASE /\ at # {}
             /\ signer_index' = CHOOSE i \in at : \A j \in at : i <= j
             /\ pc' = "init_validation" /\ UNCHANGED outcome
    <2>1. at \in SUBSET Nat
      BY <1>4
    <2> HIDE DEF at
    <2>2. signer_index' \in at
      BY <1>6, <2>1, FirstOf
    <2>3. signer_index' \in 0 .. len - 1 /\ ring[signer_index'] = PublicKey(secret_key)
      BY <1>4, <2>2 DEF at
    <2>4. CallTypeOK'
      BY <1>1, <1>4, <1>6, <2>3 DEF CallTypeOK
    <2>5. SignerFollows'
      BY <1>1, <1>4, <1>6, <2>3, NilIsNone, NilIsNoLocal DEF SignerFollows, Found
    <2>6. OutcomeIsRight'
      BY <1>6 DEF OutcomeIsRight
    <2>7. QED BY <1>2, <1>3, <2>4, <2>5, <2>6 DEF CallInv
  <1>7. QED BY <1>5, <1>6 DEF FindSigner

-----------------------------------------------------------------------------
(* The start of the first pass: it fails exactly on the empty ring.        *)
LEMMA InitValidationKeeps ==
  ASSUME CallInv, CallInitValidation
  PROVE  CallInv'
  <1>1. /\ pc = "init_validation"
        /\ InitValidation(len, AnnouncedHash(ring))
        /\ UNCHANGED <<ring, full, len, secret_key, message>>
        /\ UNCHANGED <<signer_index, step, out>>
    BY DEF CallInitValidation, arguments
  <1>2. /\ len \in 0 .. MaxRing /\ ring \in SortedRings /\ phase = "Idle" /\ step = 0
        /\ Found /\ len \in Nat \ {0}
    BY <1>1, SignerConstants DEF CallInv, Given, SignerFollows, Found
  <1>3. IInv'
    BY <1>1, <1>2, MethodKeeps DEF CallInv
  <1>4. Given'
    BY <1>1 DEF CallInv, Given
  <1>5. /\ validating' = [ring_len |-> len, expected_ring_hash |-> AnnouncedHash(ring),
                          hasher |-> EmptyVec, members_seen |-> 0, ring_binding |-> {}]
        /\ phase' = "Validating"
        /\ result' = "Ok"
    BY <1>1, <1>2 DEF InitValidation, MayStart, Fails
  <1>6. pc' = "validate" /\ UNCHANGED outcome
    BY <1>5 DEF CallInitValidation
  <1>7. outcome = Nil
    BY <1>1 DEF CallInv, CallTypeOK
  <1>8. CallTypeOK'
    BY <1>1, <1>6, <1>7 DEF CallInv, CallTypeOK
  <1>9. Validating'
    BY <1>1, <1>2, <1>5 DEF Validating, AnnouncedHash
  <1>10. Found'
    BY <1>1, <1>2 DEF Found
  <1>11. SignerFollows'
    BY <1>6, <1>7, <1>9, <1>10, NilIsNone, NilIsNoLocal DEF SignerFollows
  <1>12. OutcomeIsRight'
    BY <1>6 DEF OutcomeIsRight
  <1>13. QED BY <1>3, <1>4, <1>8, <1>11, <1>12 DEF CallInv

(* The member submitted does not decompress: the call returns at once.     *)
LEMMA RejectedMember ==
  ASSUME CallInv, CallValidateMember, ~Decompresses(ring[step])
  PROVE  pc' = "returned" /\ outcome' = "DecompressionFailed"
  <1>1. pc = "validate" /\ ValidateMember(step, ring[step])
    BY DEF CallValidateMember
  <1>2. phase = "Validating" /\ validating.members_seen = step
    BY <1>1 DEF CallInv, SignerFollows, Validating
  <1>3. result' = "InvalidPoint"
    BY <1>1, <1>2 DEF ValidateMember, Fails, Decompresses
  <1>4. pc' = "returned" /\ outcome' = MapStreamingErr(result')
    BY <1>3 DEF CallValidateMember, Propagates
  <1>5. QED BY <1>3, <1>4 DEF MapStreamingErr

(* The ring absorbed is the one whose hash was announced.                  *)
LEMMA AbsorbsRing ==
  ASSUME CallInv, pc = "validate", Decompresses(ring[step])
  PROVE  LET absorbed == Absorb(validating.hasher, step, ring[step])
         IN  /\ step \in 0 .. len - 1
             /\ \A i \in 0 .. step : absorbed[i] = ring[i]
             /\ step + 1 = len => absorbed = ring
  <1> DEFINE absorbed == Absorb(validating.hasher, step, ring[step])
  <1>1. Validating /\ Found /\ len \in Nat
    BY SignerConstants DEF CallInv, SignerFollows, Given
  <1>2. phase = "Validating" /\ validating.ring_len = len /\ validating.members_seen = step
        /\ \A i \in 0 .. step - 1 : validating.hasher[i] = ring[i]
    BY <1>1 DEF Validating
  <1>3. step < len
    BY <1>2 DEF CallInv, IInv, SwitchInv, FirstPassInv
  <1>4. step \in 0 .. len
    BY DEF CallInv, CallTypeOK
  <1>5. step \in 0 .. len - 1
    BY <1>1, <1>3, <1>4
  <1>6. absorbed = [i \in 0 .. step |-> IF i = step THEN ring[step] ELSE validating.hasher[i]]
    BY DEF Absorb
  <1>7. \A i \in 0 .. step : absorbed[i] = ring[i]
    BY <1>2, <1>5, <1>6
  <1>8. ASSUME step + 1 = len PROVE absorbed = ring
    <2>1. ring \in [0 .. len - 1 -> Member \cup {Malformed}]
      BY DEF CallInv, Given, Vec
    <2>2. 0 .. step = 0 .. len - 1
      BY <1>1, <1>5, <1>8
    <2>3. QED BY <1>6, <1>7, <2>1, <2>2
  <1>9. QED BY <1>5, <1>7, <1>8

(* A member of the first pass: the signer takes it, or it is no point and  *)
(* the call returns.                                                       *)
LEMMA ValidateMemberKeeps ==
  ASSUME CallInv, CallValidateMember
  PROVE  CallInv'
  <1> DEFINE absorbed == Absorb(validating.hasher, step, ring[step])
  <1>1. /\ pc = "validate"
        /\ ValidateMember(step, ring[step])
        /\ UNCHANGED <<ring, full, len, secret_key, message>>
        /\ UNCHANGED <<signer_index, out>>
    BY DEF CallValidateMember, arguments
  <1>2. /\ phase = "Validating" /\ validating.ring_len = len
        /\ validating.members_seen = step /\ validating.expected_ring_hash = AnnouncedHash(ring)
        /\ Validating /\ Found
        /\ outcome = Nil
    BY <1>1 DEF CallInv, SignerFollows, Validating, CallTypeOK
  <1>3. /\ len \in 0 .. MaxRing /\ ring \in [0 .. len - 1 -> Member \cup {Malformed}]
        /\ len \in Nat /\ MaxRing \in Nat
        /\ step \in 0 .. len - 1
    <2>1. step < len
      BY <1>2 DEF CallInv, IInv, SwitchInv, FirstPassInv
    <2>2. QED BY <2>1, SignerConstants DEF CallInv, Given, Vec, CallTypeOK
  <1>4. IInv'
    <2>1. step \in 0 .. MaxRing /\ ring[step] \in Member \cup {Malformed}
      BY <1>3
    <2>2. QED BY <1>1, <2>1, MethodKeeps DEF CallInv, Index, Encodings
  <1>5. Given'
    BY <1>1 DEF CallInv, Given
  <1>6. Found'
    BY <1>1, <1>2 DEF Found
  <1>7. CASE ~Decompresses(ring[step])
    <2>1. pc' = "returned" /\ outcome' = "DecompressionFailed"
      BY <1>7, RejectedMember
    <2>2. UNCHANGED step
      <3>1. result' = "InvalidPoint"
        BY <1>1, <1>2, <1>7 DEF ValidateMember, Fails, Decompresses
      <3>2. QED BY <3>1 DEF CallValidateMember
    <2>3. outcome' # Nil /\ outcome' # "Ok"
      BY <2>1, NilIsNone, NilIsNoLocal
    <2>4. CallTypeOK'
      BY <1>1, <2>1, <2>2, <2>3 DEF CallInv, CallTypeOK
    <2>5. SignerFollows'
      BY <2>1, <2>3 DEF SignerFollows
    <2>6. OutcomeIsRight'
      <3>1. step \in DOMAIN ring /\ signer_index \in DOMAIN ring
            /\ ring[signer_index] = PublicKey(secret_key)
        BY <1>2, <1>3 DEF Found
      <3>2. QED BY <1>1, <1>7, <2>1, <3>1 DEF OutcomeIsRight
    <2>7. QED BY <1>4, <1>5, <2>4, <2>5, <2>6 DEF CallInv
  <1>8. CASE Decompresses(ring[step])
    <2>1. /\ \A i \in 0 .. step : absorbed[i] = ring[i]
          /\ step + 1 = len => absorbed = ring
      BY <1>1, <1>8, AbsorbsRing
    <2>2. Validate(step, ring[step])
      BY <1>1, <1>2, <1>8 DEF ValidateMember, Decompresses
    <2> HIDE DEF absorbed
    <2>3. CASE step + 1 # len
      <3>1. /\ validating' = [validating EXCEPT !.hasher = absorbed,
                                !.ring_binding = Accumulate(@, step, ring[step]),
                                !.members_seen = step + 1]
            /\ result' = "Ack" /\ UNCHANGED phase
        BY <1>2, <2>2, <2>3 DEF Validate, absorbed
      <3>2. validating \in ValidatingState
        BY <1>2 DEF CallInv, IInv, SwitchInv, TypeOK
      <3>3. /\ validating'.hasher = absorbed /\ validating'.members_seen = step + 1
            /\ validating'.ring_len = len
            /\ validating'.expected_ring_hash = AnnouncedHash(ring)
        BY <1>2, <3>1, <3>2 DEF ValidatingState
      <3>4. step + 1 < len
        BY <1>3, <2>3
      <3>5. step' = step + 1 /\ UNCHANGED pc /\ UNCHANGED outcome
        BY <3>1, <3>4 DEF CallValidateMember
      <3>6. CallTypeOK'
        BY <1>1, <1>3, <3>4, <3>5 DEF CallInv, CallTypeOK
      <3>7. Validating'
        <4>1. 0 .. (step + 1) - 1 = 0 .. step
          BY <1>3
        <4>2. QED BY <1>1, <1>2, <2>1, <3>1, <3>3, <3>5, <4>1 DEF Validating, AnnouncedHash
      <3>8. SignerFollows'
        BY <1>1, <1>2, <1>6, <3>5, <3>7, NilIsNone, NilIsNoLocal DEF SignerFollows
      <3>9. OutcomeIsRight'
        BY <1>1, <3>5 DEF OutcomeIsRight
      <3>10. QED BY <1>4, <1>5, <3>6, <3>8, <3>9 DEF CallInv
    <2>4. CASE step + 1 = len
      <3>1. HashMatches(validating, absorbed)
        BY <1>2, <2>1, <2>4 DEF HashMatches, RingHash, AnnouncedHash
      <3>2. /\ phase' = "Validated" /\ result' = "Ack"
            /\ accepted' = [members |-> ring, len |-> len]
        BY <1>2, <2>1, <2>2, <2>4, <3>1 DEF Validate, absorbed
      <3>3. ~(step + 1 < len)
        BY <1>3, <2>4
      <3>4. step' = 0 /\ pc' = "init_signing" /\ UNCHANGED outcome
        BY <3>2, <3>3 DEF CallValidateMember
      <3>5. CallTypeOK'
        BY <1>1, <1>2, <1>3, <3>4 DEF CallInv, CallTypeOK
      <3>6. SignerFollows'
        BY <1>1, <1>2, <1>6, <3>2, <3>4, NilIsNone, NilIsNoLocal DEF SignerFollows, Accepted
      <3>7. OutcomeIsRight'
        BY <3>4 DEF OutcomeIsRight
      <3>8. QED BY <1>4, <1>5, <3>5, <3>6, <3>7 DEF CallInv
    <2>5. QED BY <2>3, <2>4
  <1>9. QED BY <1>7, <1>8

-----------------------------------------------------------------------------
(* The start of the second pass.                                           *)
LEMMA InitSigningKeeps ==
  ASSUME CallInv, CallInitSigning
  PROVE  CallInv'
  <1>1. /\ pc = "init_signing"
        /\ InitSigning(signer_index, secret_key, PublicKey(secret_key), message)
        /\ UNCHANGED <<ring, full, len, secret_key, message>>
        /\ UNCHANGED <<signer_index, step, out>>
    BY DEF CallInitSigning, arguments
  <1>2. /\ phase = "Validated" /\ Accepted /\ Found /\ step = 0 /\ outcome = Nil
        /\ secret_key \in SecretKeys /\ message \in Message
    BY <1>1 DEF CallInv, SignerFollows, CallTypeOK, Given
  <1>3. /\ len \in 0 .. MaxRing /\ ring \in [0 .. len - 1 -> Member \cup {Malformed}]
        /\ len \in Nat /\ MaxRing \in Nat /\ signer_index \in 0 .. len - 1
    BY <1>2, SignerConstants DEF CallInv, Given, Vec, Found
  <1>4. IInv'
    <2>1. /\ signer_index \in 0 .. MaxRing
          /\ PublicKey(secret_key) \in Member \cup {Malformed}
      BY <1>2, <1>3 DEF Found
    <2>2. QED BY <1>1, <1>2, <2>1, MethodKeeps DEF CallInv, Index, Encodings
  <1>5. Given' /\ Found'
    BY <1>1, <1>2 DEF CallInv, Given, Found
  <1>6. validated.ring_len = len
    BY <1>2 DEF CallInv, IInv, SwitchInv, FirstPassInv, Accepted
  <1>7. BeginSigning(signer_index, secret_key, message)
    <2>1. ~(signer_index >= validated.ring_len)
      BY <1>3, <1>6
    <2>2. PublicKey(secret_key) = PublicKey(secret_key)
      BY DEF PublicKey
    <2>3. QED BY <1>1, <1>2, <2>1, <2>2 DEF InitSigning
  <1>8. /\ phase' = "Signing" /\ result' = "Ok" /\ UNCHANGED accepted
        /\ signing'.signer_index = signer_index /\ signing'.secret_key = secret_key
        /\ signing'.message = message /\ signing'.sign_step = 0
        /\ signing'.ring_len = len
    BY <1>6, <1>7 DEF BeginSigning
  <1>9. pc' = "sign" /\ UNCHANGED outcome
    BY <1>8 DEF CallInitSigning
  <1>10. Answered(signing') = {}
    BY <1>3, <1>8 DEF Answered
  <1>11. Signing'
    BY <1>1, <1>2, <1>8, <1>10 DEF Signing, Accepted
  <1>12. CallTypeOK'
    BY <1>1, <1>2, <1>9 DEF CallInv, CallTypeOK
  <1>13. SignerFollows'
    BY <1>2, <1>5, <1>9, <1>11, NilIsNone, NilIsNoLocal DEF SignerFollows
  <1>14. OutcomeIsRight'
    BY <1>9 DEF OutcomeIsRight
  <1>15. QED BY <1>4, <1>5, <1>12, <1>13, <1>14 DEF CallInv

-----------------------------------------------------------------------------
(* A member is signed with: the signer expects it, and it decompresses.    *)
LEMMA SigningAt ==
  ASSUME CallInv, pc = "sign"
  PROVE  LET i == SigningIndex(signer_index, step)
         IN  /\ i = ExpectedIndex(signing)
             /\ i \in 0 .. len - 1 /\ len \in Nat \ {0} /\ step \in 0 .. len - 1
             /\ signer_index \in 0 .. len - 1
             /\ signing.ring_len = len
             /\ ring \in Vec(len, Point)
             /\ signing \in SigningState
             /\ Answered(signing) \subseteq 0 .. len - 1
             /\ i \notin Answered(signing)
             /\ step = len - 1 => /\ i = signer_index
                                  /\ Answered(signing) = (0 .. len - 1) \ {i}
  <1> DEFINE i == SigningIndex(signer_index, step)
             s == signing
  <1>1. Signing /\ Found
    BY DEF CallInv, SignerFollows
  <1>2. /\ phase = "Signing" /\ accepted = [members |-> ring, len |-> len]
        /\ s.signer_index = signer_index /\ s.sign_step = step
    BY <1>1 DEF Signing, Accepted
  <1>3. accepted.members = ring /\ accepted.len = len
    BY <1>2
  <1>4. /\ s \in SigningState /\ AcceptedRing /\ s.ring_len = accepted.len
        /\ accepted.len \in Nat \ {0}
        /\ s.signer_index \in 0 .. accepted.len - 1
        /\ s.sign_step \in 0 .. accepted.len - 1
    BY <1>2, SigningFacts
       DEF CallInv
  <1>5. /\ s.ring_len = len /\ len \in Nat \ {0}
        /\ signer_index \in 0 .. len - 1 /\ step \in 0 .. len - 1
    BY <1>2, <1>3, <1>4
  <1>6. i = ExpectedIndex(s)
    BY <1>2, <1>5 DEF SigningIndex, ExpectedIndex
  <1>7. ring \in Vec(len, Point)
    BY <1>3, <1>4 DEF AcceptedRing, Vec
  <1>8. /\ s.ring_len \in Nat \ {0} /\ s.signer_index \in 0 .. s.ring_len - 1
        /\ s.sign_step \in 0 .. s.ring_len - 1
    BY <1>4
  <1> HIDE DEF s, i
  <1>9. /\ ExpectedIndex(s) \in 0 .. s.ring_len - 1
        /\ ExpectedIndex(s) \notin Answered(s)
        /\ Answered(s) \subseteq 0 .. s.ring_len - 1
        /\ s.sign_step = s.ring_len - 1 =>
             /\ ExpectedIndex(s) = s.signer_index
             /\ Answered(s) = (0 .. s.ring_len - 1) \ {s.signer_index}
    BY <1>8, SigningOrder
  <1>10. QED BY <1>2, <1>4, <1>5, <1>6, <1>7, <1>9 DEF s, i

(* The second pass delivers the ring again, so the bindings agree and the  *)
(* last member is the signer's: the signature comes out.                   *)
LEMMA OwnSlotCompletes ==
  ASSUME CallInv, pc = "sign", step = len - 1, NEW i, i = signer_index,
         SignOwn(i, ring[i])
  PROVE  /\ phase' = "Done" /\ result' = "Complete"
         /\ responses' = [responses EXCEPT
                            ![i] = ClosingResponse(signing.alpha, signing.c_current,
                                                     signing.secret_key)]
         /\ signature' = [challenge |-> signing.c_0, responses |-> responses',
                          key_image |-> signing.key_image]
         /\ UNCHANGED <<accepted, session>>
  <1> DEFINE A == Answered(signing)
             N == 0 .. len - 1
             pair(j) == <<j, ring[j]>>
             bind == Accumulate(signing.ring_binding, i, ring[i])
  <1>1. Signing /\ Found
    BY DEF CallInv, SignerFollows
  <1>2. /\ phase = "Signing" /\ Accepted /\ signing.secret_key = secret_key
        /\ \A j \in A : delivered[j] = ring[j]
    BY <1>1 DEF Signing
  <1>3. i \in N /\ A = N \ {i} /\ i \notin A
    BY SigningAt
  <1>4. /\ signing.ring_binding = BindingOf(delivered, A)
        /\ signing.expected_ring_binding = BindingOf(ring, N)
        /\ signing.derived_signer = PublicKey(secret_key)
    BY <1>2 DEF CallInv, IInv, SwitchInv, DeliveredInv, SessionInv, Accepted
  <1>5. signing.ring_binding = {pair(j) : j \in A}
    BY <1>2, <1>4 DEF BindingOf
  <1>6. signing.expected_ring_binding = {pair(j) : j \in N}
    BY <1>4 DEF BindingOf
  <1>7. bind = {pair(j) : j \in N}
    <2>1. bind = (signing.ring_binding \ {<<i, ring[i]>>}) \cup ({<<i, ring[i]>>} \ signing.ring_binding)
      BY DEF Accumulate, SymmetricDifference
    <2>2. <<i, ring[i]>> \notin {pair(j) : j \in A}
      BY <1>3
    <2>3. bind = {pair(j) : j \in A} \cup {<<i, ring[i]>>}
      BY <1>5, <2>1, <2>2
    <2>4. {pair(j) : j \in A} \cup {<<i, ring[i]>>} = {pair(j) : j \in N}
      BY <1>3
    <2>5. QED BY <2>3, <2>4
  <1>8. BindingMatches(signing, bind)
    BY <1>6, <1>7 DEF BindingMatches
  <1>9. IsSigner(signing, ring[i])
    BY <1>1, <1>4 DEF IsSigner, Found, PublicKey
  <1>10. QED BY <1>8, <1>9 DEF SignOwn

(* The last member of the second pass is the signer itself, and the        *)
(* signature is complete.                                                  *)
LEMMA SignOwnKeeps ==
  ASSUME CallInv, CallSignMember, step = len - 1, IInv',
         NEW i, i = SigningIndex(signer_index, step), SignOwn(i, ring[i])
  PROVE  CallInv'
  <1>1. /\ pc = "sign"
        /\ UNCHANGED <<ring, full, len, secret_key, message>>
        /\ UNCHANGED signer_index
    BY DEF CallSignMember, arguments
  <1>2. /\ i \in 0 .. len - 1 /\ i = signer_index /\ len \in Nat \ {0}
        /\ Answered(signing) = (0 .. len - 1) \ {i}
        /\ signing \in SigningState /\ ring \in Vec(len, Point)
    BY <1>1, SigningAt
  <1>3. /\ phase' = "Done" /\ result' = "Complete"
        /\ responses' = [responses EXCEPT
                           ![i] = ClosingResponse(signing.alpha, signing.c_current,
                                                    signing.secret_key)]
        /\ signature' = [challenge |-> signing.c_0, responses |-> responses',
                         key_image |-> signing.key_image]
        /\ UNCHANGED <<accepted, session>>
    BY <1>1, <1>2, OwnSlotCompletes
  <1>4. Signing /\ Accepted /\ outcome = Nil
    BY <1>1 DEF CallInv, SignerFollows, Signing, CallTypeOK
  <1>5. out \in [challenge : Scalar, responses : Vec(len, Scalar), key_image : Point]
    BY DEF CallInv, CallTypeOK
  <1>6. DOMAIN responses = 0 .. len - 1
    <2>1. responses \in Vec(accepted.len, Scalar \cup {Nil}) /\ accepted.len = len
      BY <1>4 DEF CallInv, IInv, ChainInv, Signing, Accepted
    <2>2. QED BY <2>1 DEF Vec
  <1>7. out' = [challenge |-> signature'.challenge,
                responses |-> [out.responses EXCEPT ![signer_index] = responses'[i]],
                key_image |-> signature'.key_image]
    BY <1>3 DEF CallSignMember
  <1>8. out'.responses = responses'
    <2>1. out.responses \in [0 .. len - 1 -> Scalar]
      BY <1>5 DEF Vec
    <2>2. \A j \in (0 .. len - 1) \ {i} : out.responses[j] = responses[j]
      BY <1>2, <1>4 DEF Signing
    <2> DEFINE rs == out'.responses
    <2>3. rs = [out.responses EXCEPT ![signer_index] = responses'[i]]
      BY <1>7
    <2> HIDE DEF rs
    <2>4. DOMAIN rs = 0 .. len - 1 /\ rs = [j \in 0 .. len - 1 |-> rs[j]]
      BY <2>1, <2>3
    <2>5. responses' = [j \in 0 .. len - 1 |-> responses'[j]]
      BY <1>3, <1>6
    <2>6. ASSUME NEW j \in 0 .. len - 1 PROVE rs[j] = responses'[j]
      BY <1>2, <1>3, <1>6, <2>1, <2>2, <2>3
    <2>7. rs = responses'
      BY <2>4, <2>5, <2>6
    <2>8. QED BY <2>7 DEF rs
  <1>9. out' = signature'
    <2>1. out' = [challenge |-> signing.c_0, responses |-> out'.responses,
                  key_image |-> signing.key_image]
      BY <1>3, <1>7
    <2>2. QED BY <1>3, <1>8, <2>1
  <1>10. out' \in [challenge : Scalar, responses : Vec(len, Scalar), key_image : Point]
    <2>1. signing.c_0 \in Scalar /\ signing.key_image \in Point
      BY <1>2 DEF SigningState
    <2>2. SignedAround' /\ accepted'.len = len
      BY <1>3, <1>4 DEF IInv, SignatureInv, Accepted
    <2>3. signature'.responses \in Vec(len, Scalar)
      BY <2>2 DEF SignedAround, Vec
    <2>4. QED BY <1>3, <1>9, <2>1, <2>3
  <1>11. step' = len /\ pc' = "returned" /\ outcome' = "Ok"
    <2>1. step + 1 = len /\ ~(step + 1 < len)
      BY <1>2
    <2>2. QED BY <1>3, <2>1 DEF CallSignMember
  <1>12. Given'
    BY <1>1 DEF CallInv, Given
  <1>13. CallTypeOK'
    <2>1. outcome' # Nil
      BY <1>11, NilIsNone, NilIsNoLocal
    <2>2. step' \in 0 .. len' /\ signer_index' \in DOMAIN ring' \cup {Nil}
      BY <1>1, <1>2, <1>11 DEF CallInv, CallTypeOK
    <2>3. QED BY <1>1, <1>10, <1>11, <2>1, <2>2 DEF CallTypeOK
  <1>14. session.message = message
    BY <1>4 DEF CallInv, IInv, SwitchInv, SessionInv, Signing
  <1>15. SignerFollows'
    BY <1>1, <1>3, <1>4, <1>9, <1>11, <1>14 DEF SignerFollows, Signed, Accepted
  <1>16. OutcomeIsRight'
    <2>1. DOMAIN ring = 0 .. len - 1 /\ \A j \in 0 .. len - 1 : ring[j] \in Point
      BY <1>2 DEF Vec
    <2>2. ring[signer_index] = PublicKey(secret_key)
      BY <1>1 DEF CallInv, SignerFollows, Found
    <2>3. QED BY <1>1, <1>2, <1>11, <2>1, <2>2 DEF OutcomeIsRight, Decompresses
  <1>17. QED BY <1>12, <1>13, <1>15, <1>16 DEF CallInv

(* Any other slot: the response is put where it belongs.                   *)
LEMMA SignOtherKeeps ==
  ASSUME CallInv, CallSignMember, step # len - 1, IInv',
         NEW i, i = SigningIndex(signer_index, step), SignOther(i, ring[i])
  PROVE  CallInv'
  <1>1. /\ pc = "sign"
        /\ UNCHANGED <<ring, full, len, secret_key, message>>
        /\ UNCHANGED signer_index
    BY DEF CallSignMember, arguments
  <1>2. /\ i \in 0 .. len - 1 /\ i = ExpectedIndex(signing) /\ len \in Nat \ {0}
        /\ step \in 0 .. len - 1 /\ signer_index \in 0 .. len - 1
        /\ Answered(signing) \subseteq 0 .. len - 1 /\ i \notin Answered(signing)
        /\ signing \in SigningState /\ signing.ring_len = len
    BY <1>1, SigningAt
  <1> DEFINE Following(r) == NextChallenge(signing.message, r, signing.c_current, ring[i],
                                           HashToPoint(ring[i]), signing.key_image)
             After(r) ==
               [signing EXCEPT !.ring_binding = Accumulate(@, i, ring[i]),
                               !.c_current = Following(r),
                               !.sign_step = @ + 1,
                               !.c_0 = CapturedC0(i, signing.ring_len, Following(r), @)]
  <1>3. PICK r \in Random :
          /\ signing' = After(r)
          /\ result' = "ScalarResponse"
          /\ delivered' = [delivered EXCEPT ![i] = ring[i]]
          /\ responses' = [responses EXCEPT ![i] = r]
          /\ UNCHANGED <<phase, accepted, session>>
    BY Zenon DEF SignOther
  <1> HIDE DEF Following
  <1>4. Signing /\ Found /\ outcome = Nil
    BY <1>1 DEF CallInv, SignerFollows, CallTypeOK
  <1>5. /\ phase = "Signing" /\ Accepted
        /\ signing.signer_index = signer_index /\ signing.secret_key = secret_key
        /\ signing.message = message /\ signing.sign_step = step
        /\ \A j \in Answered(signing) :
             delivered[j] = ring[j] /\ out.responses[j] = responses[j]
    BY <1>4 DEF Signing
  <1>6. /\ signing'.signer_index = signer_index /\ signing'.secret_key = secret_key
        /\ signing'.message = message /\ signing'.sign_step = step + 1
        /\ signing'.ring_len = len
    BY <1>2, <1>3, <1>5 DEF SigningState
  <1>7. Answered(signing') = Answered(signing) \cup {i}
    <2> DEFINE s == signing
               t == signing'
    <2>1. /\ s.ring_len \in Nat \ {0} /\ s.signer_index \in 0 .. s.ring_len - 1
          /\ s.sign_step \in 0 .. s.ring_len - 1 /\ s.sign_step # s.ring_len - 1
          /\ t.ring_len = s.ring_len /\ t.signer_index = s.signer_index
          /\ t.sign_step = s.sign_step + 1
      BY <1>2, <1>5, <1>6
    <2> HIDE DEF s, t
    <2>2. Answered(t) = Answered(s) \cup {ExpectedIndex(s)}
      BY <2>1, SigningOrderStep
    <2>3. QED BY <1>2, <2>2 DEF s, t
  <1>8. DOMAIN responses = 0 .. len - 1 /\ DOMAIN delivered = 0 .. len - 1
    <2>1. /\ responses \in Vec(accepted.len, Scalar \cup {Nil})
          /\ delivered \in Vec(accepted.len, Point \cup {Nil}) /\ accepted.len = len
      BY <1>5 DEF CallInv, IInv, SwitchInv, ChainInv, DeliveredInv, Accepted
    <2>2. QED BY <2>1 DEF Vec
  <1>9. out \in [challenge : Scalar, responses : Vec(len, Scalar), key_image : Point]
    BY DEF CallInv, CallTypeOK
  <1>10. out' = [out EXCEPT !.responses[i] = r]
    <2>1. ResponseSlot(i) = i /\ responses'[i] = r
      BY <1>2, <1>3, <1>8 DEF ResponseSlot
    <2>2. QED BY <1>3, <2>1 DEF CallSignMember
  <1>11. /\ out' \in [challenge : Scalar, responses : Vec(len, Scalar), key_image : Point]
         /\ out'.responses = [out.responses EXCEPT ![i] = r]
    <2>1. r \in Scalar
      BY <1>3, SignerConstants
    <2>2. QED BY <1>2, <1>9, <1>10, <2>1 DEF Vec
  <1>12. ASSUME NEW j \in Answered(signing')
         PROVE  delivered'[j] = ring[j] /\ out'.responses[j] = responses'[j]
    <2>1. out.responses \in [0 .. len - 1 -> Scalar]
      BY <1>9 DEF Vec
    <2>2. CASE j = i
      BY <1>2, <1>3, <1>8, <1>11, <2>1, <2>2
    <2>3. CASE j \in Answered(signing) /\ j # i
      BY <1>2, <1>3, <1>5, <1>8, <1>11, <2>1, <2>3
    <2>4. QED BY <1>7, <2>2, <2>3
  <1>13. step' = step + 1 /\ UNCHANGED <<pc, outcome>>
    <2>1. step + 1 < len
      BY <1>2
    <2>2. QED BY <1>3, <2>1 DEF CallSignMember
  <1>14. Signing'
    BY <1>1, <1>3, <1>5, <1>6, <1>12, <1>13 DEF Signing, Accepted
  <1>15. Given' /\ Found'
    BY <1>1, <1>4 DEF CallInv, Given, Found
  <1>16. CallTypeOK'
    <2>1. step' \in 0 .. len
      BY <1>2, <1>13
    <2>2. QED BY <1>1, <1>11, <1>13, <2>1 DEF CallInv, CallTypeOK
  <1>17. SignerFollows'
    BY <1>1, <1>4, <1>13, <1>14, <1>15, NilIsNone, NilIsNoLocal DEF SignerFollows
  <1>18. OutcomeIsRight'
    BY <1>1, <1>13 DEF OutcomeIsRight
  <1>19. QED BY <1>15, <1>16, <1>17, <1>18 DEF CallInv

(* A member of the second pass.                                            *)
LEMMA SignMemberKeeps ==
  ASSUME CallInv, CallSignMember
  PROVE  CallInv'
  <1> DEFINE i == SigningIndex(signer_index, step)
  <1>1. pc = "sign" /\ SignMember(i, ring[i])
    BY DEF CallSignMember
  <1>2. /\ i \in 0 .. len - 1 /\ i = ExpectedIndex(signing) /\ len \in Nat \ {0}
        /\ signing.ring_len = len /\ ring \in Vec(len, Point)
    BY <1>1, SigningAt
  <1>3. phase = "Signing" /\ signing.sign_step = step
    BY <1>1 DEF CallInv, SignerFollows, Signing
  <1>4. len \in 0 .. MaxRing /\ ring \in Vec(len, Member \cup {Malformed}) /\ MaxRing \in Nat
    BY SignerConstants DEF CallInv, Given
  <1> HIDE DEF i
  <1>5. IInv'
    <2>1. i \in 0 .. MaxRing /\ ring[i] \in Member \cup {Malformed}
      BY <1>2, <1>4 DEF Vec
    <2>2. QED BY <1>1, <2>1, MethodKeeps DEF CallInv, Index, Encodings
  <1>6. ExpectedIndex(signing) = i /\ Decompresses(ring[i])
    BY <1>2 DEF ExpectedIndex, Decompresses, Vec
  <1>7. \/ step = len - 1 /\ SignOwn(i, ring[i])
        \/ step # len - 1 /\ SignOther(i, ring[i])
    BY <1>1, <1>2, <1>3, <1>6 DEF SignMember
  <1>8. i = SigningIndex(signer_index, step)
    BY DEF i
  <1>9. CASE step = len - 1 /\ SignOwn(i, ring[i])
    BY <1>5, <1>8, <1>9, SignOwnKeeps
  <1>10. CASE step # len - 1 /\ SignOther(i, ring[i])
    BY <1>5, <1>8, <1>10, SignOtherKeeps
  <1>11. QED BY <1>7, <1>9, <1>10

-----------------------------------------------------------------------------
(* Every step of the call keeps the invariant.                             *)
LEMMA CallSteps == CallInv /\ [CallNext]_callVars => CallInv'
  <1> SUFFICES ASSUME CallInv, [CallNext]_callVars PROVE CallInv'
    OBVIOUS
  <1>1. CASE UNCHANGED callVars
    <2>1. /\ UNCHANGED vars /\ UNCHANGED <<ring, full, len, secret_key, message>>
          /\ UNCHANGED <<pc, signer_index, step, out, outcome>>
      BY <1>1 DEF callVars, arguments
    <2>2. IInv'
      BY <2>1, NextInv DEF CallInv
    <2>3. Given' /\ CallTypeOK' /\ OutcomeIsRight'
      BY <2>1 DEF CallInv, Given, CallTypeOK, OutcomeIsRight
    <2>4. Found' = Found /\ Accepted' = Accepted /\ Validating' = Validating
          /\ Signing' = Signing /\ Signed' = Signed
      BY <2>1 DEF Found, Accepted, Validating, AnnouncedHash, Signing, Answered, Signed,
           vars, fields, history
    <2>5. SignerFollows'
      BY <2>1, <2>4 DEF CallInv, SignerFollows, vars, fields, history
    <2>6. QED BY <2>2, <2>3, <2>5 DEF CallInv
  <1>2. CASE FindSigner
    BY <1>2, FindSignerKeeps
  <1>3. CASE CallInitValidation
    BY <1>3, InitValidationKeeps
  <1>4. CASE CallValidateMember
    BY <1>4, ValidateMemberKeeps
  <1>5. CASE CallInitSigning
    BY <1>5, InitSigningKeeps
  <1>6. CASE CallSignMember
    BY <1>6, SignMemberKeeps
  <1>7. QED BY <1>1, <1>2, <1>3, <1>4, <1>5, <1>6 DEF CallNext

(* The signer is always where the statement the call is at expects it, for *)
(* rings of any length (streaming_wrappers.rs:48-133).                     *)
THEOREM CallInvariance == CallSpec => []CallInv
  <1>1. QED BY CallStarts, CallSteps, PTL DEF CallSpec

(* The locals of the call keep their types, and there is an outcome        *)
(* exactly when it has returned (streaming_wrappers.rs:48-133).            *)
THEOREM CallTypes == CallSpec => []CallTypeOK
  <1>1. CallInv => CallTypeOK
    BY DEF CallInv
  <1>2. QED BY CallInvariance, <1>1, PTL

(* The outcome depends on the ring and the key only, and the unexpected    *)
(* protocol error never comes up (streaming_wrappers.rs:41-46, 106-109).   *)
THEOREM RightOutcome == CallSpec => []OutcomeIsRight
  <1>1. CallInv => OutcomeIsRight
    BY DEF CallInv
  <1>2. QED BY CallInvariance, <1>1, PTL

(* The signature assembled is the signer's and verifies over the ring, for *)
(* rings of any length and every group (streaming_wrappers.rs:8-9).        *)
THEOREM OutputVerified == CallSpec => []OutputVerifies
  <1>1. ASSUME CallInv, outcome = "Ok"
        PROVE  out = signature /\ Verify(out, ring, len, message)
    <2>1. /\ phase = "Done" /\ accepted = [members |-> ring, len |-> len]
          /\ session.message = message /\ out = signature /\ IInv
      BY <1>1 DEF CallInv, SignerFollows, Signed, Accepted
    <2>2. signature # Nil
      <3>1. signature \in Signatures
        BY <2>1 DEF IInv, SignatureInv
      <3>2. QED BY <3>1, NilIsNone
    <2>3. Verify(signature, accepted.members, accepted.len, session.message)
      BY <2>1, <2>2, SignedVerifies
    <2>4. accepted.members = ring /\ accepted.len = len
      BY <2>1
    <2>5. Verify(out, ring, len, message)
      BY <2>1, <2>3, <2>4
    <2>6. Verify(out, ring, len, message)
      BY <2>5 DEF Verify, VerifyWith, HashedPoints, NextChallenge
    <2>7. QED BY <2>1, <2>6
  <1>2. CallInv => OutputVerifies
    BY <1>1 DEF OutputVerifies
  <1>3. QED BY CallInvariance, <1>2, PTL
=============================================================================
