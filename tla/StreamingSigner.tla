--------------------------- MODULE StreamingSigner ---------------------------
(***************************************************************************)
(* StreamingBlsagSigner (src/blsag/streaming.rs): a bLSAG signer that is   *)
(* given the ring one member at a time, twice.  In the first pass it       *)
(* hashes the members and compares with the hash it was promised; in the   *)
(* second, which starts after the signer's index and wraps around, it      *)
(* produces one response per member.  It keeps no ring: an                 *)
(* order-independent accumulator, RingBinding, ties the second pass to the *)
(* first.                                                                  *)
(*                                                                         *)
(* Any method may be called at any time with any argument; each call is    *)
(* one action and leaves its outcome in result.  Digests are collision     *)
(* free: a ring hash is the suite with the members absorbed, and the XOR   *)
(* of the members' digests is the symmetric difference of what they digest.*)
(***************************************************************************)
EXTENDS Blsag, FiniteSets

CONSTANTS
  Nil,         \* None
  MaxRing,     \* bound: longest ring a caller announces
  Member,      \* bound: the points callers submit as ring members
  Message,
  SecretKeys,  \* bound: the secret keys callers sign with
  Random,      \* bound: the scalars the RNG returns
  Suite,       \* the digest suite H of the signer
  RingHashes   \* the hashes callers announce

Lengths == 1 .. MaxRing
Rings == UNION {Vec(n, Point) : n \in Lengths}
Signatures ==
  [challenge : Scalar, responses : UNION {Vec(n, Scalar) : n \in Lengths},
   key_image : Point]

ASSUME SignerConstants ==
  /\ MaxRing \in Nat
  /\ Member \subseteq Point
  /\ SecretKeys \subseteq Scalar
  /\ Random \subseteq Scalar
  /\ \A m \in Message, L, R \in Point : Challenge(m, L, R) \in Scalar

ASSUME NilIsNone ==
  /\ Nil \notin Compressed \cup Scalar
  /\ Nil \notin [members : Rings, len : Lengths]
  /\ Nil \notin Signatures
  /\ Nil \notin [message : Message, signature : Signatures]

VARIABLES
  phase, validating, validated, signing,  \* the fields of the signer
  result,                                 \* what the last call returned
  \* History, of no influence on the signer: the ring accepted by the first
  \* pass; the arguments and nonce of the signing pass; per index, the member
  \* it was given, the response it gave back and the challenge it used; the
  \* signature the caller can assemble.
  accepted, session, delivered, responses, challenges, signature

fields  == <<phase, validating, validated, signing>>
history == <<accepted, session, delivered, responses, challenges, signature>>
vars    == <<fields, result, history>>

Index == 0 .. MaxRing   \* the last one is out of range in every ring
Encodings == Member \cup {Malformed}

-----------------------------------------------------------------------------
RingHash(r) == [suite |-> Suite, members |-> r]

EmptyVec == [i \in {} |-> Nil]

(* Feed one more member to the running hash of n of them.                  *)
Absorb(r, n, c) == [i \in 0 .. n |-> IF i = n THEN c ELSE r[i]]

SymmetricDifference(S, T) == (S \ T) \cup (T \ S)

(* RingBinding::accumulate; mutations: the index is not digested, or the   *)
(* order of arrival is in its place.                                       *)
AccumulateUnindexed(b, i, c) == SymmetricDifference(b, {<<0, c>>})
AccumulateInOrder(b, i, c) == SymmetricDifference(b, {<<Cardinality(b), c>>})
Accumulate(b, i, c) == SymmetricDifference(b, {<<i, c>>})

(* A call that returns an error before changing anything, or after having  *)
(* put back the state it had taken out of its Option; mutation: it does    *)
(* not put it back.                                                        *)
FailsWithoutRestoring(error) ==
  /\ result' = error
  /\ validated' = Nil
  /\ signing' = Nil
  /\ UNCHANGED <<phase, validating, history>>
Fails(error) ==
  /\ result' = error
  /\ UNCHANGED <<fields, history>>

-----------------------------------------------------------------------------
Init ==
  /\ phase = "Idle"
  /\ validating = Nil
  /\ validated = Nil
  /\ signing = Nil
  /\ result = Nil
  /\ accepted = Nil
  /\ session = Nil
  /\ delivered = Nil
  /\ responses = Nil
  /\ challenges = Nil
  /\ signature = Nil

(* init_validation's first guard; mutation: a signer that has validated a  *)
(* ring may start over.                                                    *)
StartsUnlessBusy == phase \in {"Idle", "Validated", "Done"}
MayStart == phase = "Idle"

InitValidation(n, hash) ==
  \/ ~MayStart /\ Fails("InvalidState")
  \/ MayStart /\ n = 0 /\ Fails("EmptyRing")
  \/ /\ MayStart
     /\ n # 0
     /\ validating' = [ring_len |-> n, expected_ring_hash |-> hash,
                       hasher |-> EmptyVec, members_seen |-> 0, ring_binding |-> {}]
     /\ phase' = "Validating"
     /\ result' = "Ok"
     /\ UNCHANGED <<validated, signing, history>>

HashMatches(v, r) == RingHash(r) = v.expected_ring_hash

Validate(i, c) ==
  LET n    == validating.members_seen
      ring == Absorb(validating.hasher, n, c)
      bind == Accumulate(validating.ring_binding, i, c)
      last == n + 1 = validating.ring_len
  IN  \/ /\ ~last
         /\ validating' = [validating EXCEPT !.hasher = ring,
                                             !.ring_binding = bind,
                                             !.members_seen = n + 1]
         /\ result' = "Ack"
         /\ UNCHANGED <<phase, validated, signing, history>>
      \/ /\ last
         /\ ~HashMatches(validating, ring)
         /\ validating' = Nil
         /\ phase' = "Idle"
         /\ result' = "RingHashMismatch"
         /\ UNCHANGED <<validated, signing, history>>
      \/ /\ last
         /\ HashMatches(validating, ring)
         /\ validating' = Nil
         /\ validated' = [ring_len |-> validating.ring_len, ring_binding |-> bind]
         /\ phase' = "Validated"
         /\ result' = "Ack"
         /\ accepted' = [members |-> ring, len |-> validating.ring_len]
         /\ UNCHANGED <<signing, session, delivered, responses, challenges, signature>>

ValidateMember(i, c) ==
  \/ phase # "Validating" /\ Fails("InvalidState")
  \/ /\ phase = "Validating"
     /\ \/ i # validating.members_seen /\ Fails("OutOfOrder")
        \/ /\ i = validating.members_seen
           /\ \/ ~Decompresses(c) /\ Fails("InvalidPoint")
              \/ Decompresses(c) /\ Validate(i, c)

-----------------------------------------------------------------------------
(* The challenge c_0 is known at once when the signer is the last member,  *)
(* and otherwise when the last member has been answered; mutations: the    *)
(* first case is forgotten, the second is off by one.                      *)
InitialC0Forgotten(pi, n, c) == Zero
InitialC0(pi, n, c) == IF pi = n - 1 THEN c ELSE Zero
CapturedC0AtFirst(i, n, c, old) == IF i = 0 THEN c ELSE old
CapturedC0(i, n, c, old) == IF i = n - 1 THEN c ELSE old

(* The remaining error of init_signing, a claimed key that does not        *)
(* decompress, cannot happen: by then it is the encoding of sk*G.          *)
BeginSigning(pi, k, m) ==
  \E alpha \in Random :
    LET n == validated.ring_len
        c == NonceChallenge(m, alpha, HashToPoint(PublicKey(k)))
    IN  /\ validated' = Nil
        /\ signing' =
             [ring_len |-> n, signer_index |-> pi, message |-> m,
              key_image |-> KeyImage(k), c_current |-> c, c_0 |-> InitialC0(pi, n, c),
              alpha |-> alpha, secret_key |-> k, derived_signer |-> PublicKey(k),
              sign_step |-> 0, expected_ring_binding |-> validated.ring_binding,
              ring_binding |-> {}]
        /\ phase' = "Signing"
        /\ result' = "Ok"
        /\ session' = [signer_index |-> pi, secret_key |-> k, message |-> m,
                       alpha |-> alpha]
        /\ delivered' = [j \in 0 .. n - 1 |-> Nil]
        /\ responses' = [j \in 0 .. n - 1 |-> Nil]
        /\ challenges' = [j \in 0 .. n - 1 |-> IF j = (pi + 1) % n THEN c ELSE Nil]
        /\ UNCHANGED <<validating, accepted, signature>>

InitSigning(pi, k, pubkey, m) ==
  \/ phase \in {"Idle", "Validating"} /\ Fails("ValidationNotComplete")
  \/ phase \in {"Signing", "Done", "Poisoned"} /\ Fails("InvalidState")
  \/ /\ phase = "Validated"
     /\ \/ pi >= validated.ring_len /\ Fails("OutOfOrder")
        \/ /\ pi < validated.ring_len
           /\ \/ PublicKey(k) # pubkey /\ Fails("IdentityMismatch")
              \/ PublicKey(k) = pubkey /\ BeginSigning(pi, k, m)

-----------------------------------------------------------------------------
(* The index the second pass asks for; mutation: it never advances.        *)
ExpectedIndexStuck(s) == (s.signer_index + 1) % s.ring_len
ExpectedIndex(s) == (s.signer_index + 1 + s.sign_step) % s.ring_len

(* The comparison of the two passes' bindings, and of the last member with *)
(* the signer's own key; mutation: the latter is skipped.                  *)
BindingMatches(s, b) == b = s.expected_ring_binding
IdentityIgnored(s, c) == TRUE
IsSigner(s, c) == c = s.derived_signer

Poison(error) ==
  /\ signing' = Nil
  /\ phase' = "Poisoned"
  /\ result' = error
  /\ UNCHANGED <<validating, validated, accepted, session, responses, challenges,
                 signature>>

(* The signer's own slot, the last of the pass.                            *)
SignOwn(i, c) ==
  LET s    == signing
      bind == Accumulate(s.ring_binding, i, c)
      s_pi == ClosingResponse(s.alpha, s.c_current, s.secret_key)
  IN  /\ delivered' = [delivered EXCEPT ![i] = c]
      /\ \/ ~BindingMatches(s, bind) /\ Poison("RingSwitchDetected")
         \/ BindingMatches(s, bind) /\ ~IsSigner(s, c) /\ Poison("IdentityMismatch")
         \/ /\ BindingMatches(s, bind)
            /\ IsSigner(s, c)
            /\ signing' = Nil
            /\ phase' = "Done"
            /\ result' = "Complete"
            /\ responses' = [responses EXCEPT ![i] = s_pi]
            /\ signature' = [challenge |-> s.c_0, responses |-> responses',
                             key_image |-> s.key_image]
            /\ UNCHANGED <<validating, validated, accepted, session, challenges>>

(* Any other slot: a random response and the next challenge.               *)
SignOther(i, c) ==
  \E r \in Random :
    LET s    == signing
        next == NextChallenge(s.message, r, s.c_current, c, HashToPoint(c), s.key_image)
    IN  /\ signing' =
             [s EXCEPT !.ring_binding = Accumulate(@, i, c),
                       !.c_current = next,
                       !.sign_step = @ + 1,
                       !.c_0 = CapturedC0(i, s.ring_len, next, @)]
        /\ result' = "ScalarResponse"
        /\ delivered' = [delivered EXCEPT ![i] = c]
        /\ responses' = [responses EXCEPT ![i] = r]
        /\ challenges' = [challenges EXCEPT ![(i + 1) % s.ring_len] = next]
        /\ UNCHANGED <<phase, validating, validated, accepted, session, signature>>

SignMember(i, c) ==
  \/ phase # "Signing" /\ Fails("InvalidState")
  \/ /\ phase = "Signing"
     /\ \/ i # ExpectedIndex(signing) /\ Fails("OutOfOrder")
        \/ /\ i = ExpectedIndex(signing)
           /\ \/ ~Decompresses(c) /\ Fails("InvalidPoint")
              \/ /\ Decompresses(c)
                 /\ \/ signing.sign_step = signing.ring_len - 1 /\ SignOwn(i, c)
                    \/ signing.sign_step # signing.ring_len - 1 /\ SignOther(i, c)

Next ==
  \/ \E n \in 0 .. MaxRing, hash \in RingHashes : InitValidation(n, hash)
  \/ \E i \in Index, c \in Encodings : ValidateMember(i, c)
  \/ \E i \in Index, k \in SecretKeys, c \in Encodings, m \in Message :
       InitSigning(i, k, c, m)
  \/ \E i \in Index, c \in Encodings : SignMember(i, c)

Spec == Init /\ [][Next]_vars

-----------------------------------------------------------------------------
Bindings == SUBSET (Nat \X Point)

ValidatingState ==
  [ring_len : Lengths, expected_ring_hash : RingHashes,
   hasher : UNION {Vec(n, Point) : n \in 0 .. MaxRing},
   members_seen : 0 .. MaxRing, ring_binding : Bindings]
ValidatedState == [ring_len : Lengths, ring_binding : Bindings]
SigningState ==
  [ring_len : Lengths, signer_index : Index, message : Message, key_image : Point,
   c_current : Scalar, c_0 : Scalar, alpha : Random, secret_key : SecretKeys,
   derived_signer : Point, sign_step : Index, expected_ring_binding : Bindings,
   ring_binding : Bindings]

(* The state of a phase is there exactly in that phase: an early return    *)
(* has put back what it had taken, and no transition leaves a stale one.   *)
TypeOK ==
  /\ phase \in {"Idle", "Validating", "Validated", "Signing", "Done", "Poisoned"}
  /\ IF phase = "Validating" THEN validating \in ValidatingState ELSE validating = Nil
  /\ IF phase = "Validated" THEN validated \in ValidatedState ELSE validated = Nil
  /\ IF phase = "Signing" THEN signing \in SigningState ELSE signing = Nil

(* Whatever the caller submits, a signature comes out only when every      *)
(* member given in the second pass is the one given at that index in the   *)
(* first, whose hash the caller had named (streaming.rs:513-518).          *)
NoRingSwitch ==
  signature # Nil =>
    /\ delivered = accepted.members
    /\ RingHash(accepted.members) \in RingHashes

(* Nothing in init_signing looks at the ring: that the key belongs to it,  *)
(* at the claimed index, is settled by the last sign_member                *)
(* (streaming.rs:520-532).                                                 *)
SignerIsMember ==
  signature # Nil =>
    accepted.members[session.signer_index] = PublicKey(session.secret_key)

(* The signer is poisoned, and session and nonce lost, only for a cause:   *)
(* the second pass was over another ring, or the ring has another member   *)
(* at the claimed index.  A caller who feeds the same ring twice loses no  *)
(* session, whatever calls failed or were repeated on the way and although *)
(* the passes begin at different indices (streaming.rs:513-532).           *)
PoisonedForCause ==
  phase = "Poisoned" =>
    \/ delivered # accepted.members
    \/ accepted.members[session.signer_index] # PublicKey(session.secret_key)

(* What a caller assembles from the responses and the final output passes  *)
(* the standard verification over the ring validated in the first pass,    *)
(* whatever calls failed or were retried on the way (streaming.rs:25-28).  *)
SignatureVerifies ==
  signature # Nil =>
    Verify(signature, accepted.members, accepted.len, session.message)

(* The output is the one sign_with_rng computes from the same nonce and    *)
(* responses ("mathematically identical", streaming.rs:27).                *)
MatchesOneShot ==
  signature # Nil =>
    LET r == accepted.members
        n == accepted.len
    IN  signature = SignWith(session.secret_key, r, n, session.signer_index,
                             HashedPoints(r, n), session.message, session.alpha,
                             signature.responses)

(* A response that has been given out for an index is never followed by    *)
(* another one for it under the same nonce, and the nonce is never         *)
(* replaced once responses depend on it: a failed or repeated call cannot  *)
(* make the signer answer twice (streaming.rs:489-505).                    *)
NoSecondResponse ==
  [][session # Nil =>
       /\ session' = session
       /\ \A i \in DOMAIN responses :
            responses[i] # Nil => responses'[i] = responses[i]]_vars

Session == INSTANCE SigningSession WITH
  ring <- accepted,
  issued <- IF signature = Nil THEN Nil
            ELSE [message |-> session.message, signature |-> signature]

(* The signer, with all its failing calls, restarts and the poisoned state,*)
(* settles on one ring and issues at most one signature by one of its      *)
(* members.                                                                *)
ImplementsSession == Session!Spec

(* The claim of the module's documentation (streaming.rs:19-21): a second  *)
(* pass over a different ring is caught before the signer produces any     *)
(* signature component.                                                    *)
SwitchCaughtBeforeOutput ==
  session # Nil =>
    \A i \in DOMAIN delivered :
      (delivered[i] # Nil /\ delivered[i] # accepted.members[i])
        => \A j \in DOMAIN responses : responses[j] = Nil
=============================================================================
