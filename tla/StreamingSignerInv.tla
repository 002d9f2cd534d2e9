------------------------- MODULE StreamingSignerInv -------------------------
(***************************************************************************)
(* The inductive invariant of StreamingSigner: what ties the signer's      *)
(* constant-size state to the history of the two passes.                   *)
(***************************************************************************)
EXTENDS StreamingSigner

(* The accumulator over a set of indices: one pair for each.               *)
BindingOf(r, indices) == {<<i, r[i]>> : i \in indices}

(* The indices the second pass has been through: from pi+1, wrapping.      *)
Answered(s) ==
  {i \in 0 .. s.ring_len - 1 :
     \/ s.signer_index < i /\ i <= s.signer_index + s.sign_step
     \/ i + s.ring_len <= s.signer_index + s.sign_step}

AcceptedRing ==
  /\ accepted.len \in Lengths
  /\ accepted.members \in Vec(accepted.len, Point)
  /\ RingHash(accepted.members) \in RingHashes
  /\ accepted = [members |-> accepted.members, len |-> accepted.len]

FirstPassInv ==
  /\ phase = "Validating" =>
       /\ validating.members_seen < validating.ring_len
       /\ validating.hasher \in Vec(validating.members_seen, Point)
       /\ validating.ring_binding =
            BindingOf(validating.hasher, 0 .. validating.members_seen - 1)
  /\ phase \in {"Idle", "Validating"} => accepted = Nil
  /\ phase \notin {"Idle", "Validating"} => AcceptedRing
  /\ phase = "Validated" =>
       /\ validated.ring_len = accepted.len
       /\ validated.ring_binding = BindingOf(accepted.members, 0 .. accepted.len - 1)

(* What the second pass was started with.                                  *)
SessionInv ==
  LET s == signing IN
  phase = "Signing" =>
    /\ s.ring_len = accepted.len
    /\ s.signer_index < s.ring_len
    /\ s.sign_step < s.ring_len
    /\ s.expected_ring_binding = BindingOf(accepted.members, 0 .. accepted.len - 1)
    /\ s.derived_signer = PublicKey(s.secret_key)
    /\ s.key_image = KeyImage(s.secret_key)
    /\ session = [signer_index |-> s.signer_index, secret_key |-> s.secret_key,
                  message |-> s.message, alpha |-> s.alpha]

DeliveredInv ==
  phase = "Signing" =>
    /\ delivered \in Vec(accepted.len, Point \cup {Nil})
    /\ \A i \in Answered(signing) : delivered[i] \in Point
    /\ signing.ring_binding = BindingOf(delivered, Answered(signing))

(* The challenges computed so far satisfy the equation of every member     *)
(* answered, and lead from the nonce's challenge to the current one.       *)
ChainInv ==
  LET s == signing
      n == accepted.len
  IN
  phase = "Signing" =>
    /\ responses \in Vec(n, Scalar \cup {Nil})
    /\ challenges \in Vec(n, Scalar \cup {Nil})
    /\ challenges[ExpectedIndex(s)] = s.c_current
    /\ challenges[(s.signer_index + 1) % n] =
         NonceChallenge(s.message, s.alpha, HashToPoint(PublicKey(s.secret_key)))
    /\ \A i \in Answered(s) :
         /\ responses[i] \in Scalar
         /\ challenges[i] \in Scalar
         /\ challenges[(i + 1) % n] =
              NextChallenge(s.message, responses[i], challenges[i], delivered[i],
                            HashToPoint(delivered[i]), s.key_image)
    /\ (s.signer_index = n - 1 \/ n - 1 \in Answered(s)) => s.c_0 = challenges[0]

(* Only the members answered have a response.                              *)
UnansweredInv ==
  phase = "Signing" =>
    \A i \in (0 .. accepted.len - 1) \ Answered(signing) : responses[i] = Nil

(* The signature is the end of the challenges computed on the way.         *)
SignedAround ==
  LET pi == session.signer_index
      k  == session.secret_key
      n  == accepted.len
      rs == signature.responses
  IN  /\ rs \in Vec(n, Scalar)
      /\ GoesAround(challenges,
                    NonceChallenge(session.message, session.alpha,
                                   HashToPoint(PublicKey(k))),
                    KeyImage(k), accepted.members, n, pi, session.message, rs)
      /\ signature.challenge = challenges[0]
      /\ rs[pi] = ClosingResponse(session.alpha, challenges[pi], k)

SignatureInv ==
  /\ phase # "Done" => signature = Nil
  /\ phase \in {"Idle", "Validating", "Validated"} => session = Nil
  /\ phase = "Done" =>
       /\ delivered = accepted.members
       /\ session.signer_index \in 0 .. accepted.len - 1
       /\ session.secret_key \in SecretKeys
       /\ session.message \in Message
       /\ accepted.members[session.signer_index] = PublicKey(session.secret_key)
       /\ signature \in Signatures
       /\ signature.key_image = KeyImage(session.secret_key)
       /\ SignedAround
       /\ Closes(signature, accepted.members, accepted.len, session.message)

SwitchInv == TypeOK /\ FirstPassInv /\ SessionInv /\ DeliveredInv

IInv == SwitchInv /\ ChainInv /\ SignatureInv
=============================================================================
