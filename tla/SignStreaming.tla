---------------------------- MODULE SignStreaming ----------------------------
(***************************************************************************)
(* BLSAG::sign_streaming_with_rng (src/blsag/streaming_wrappers.rs): one   *)
(* call of the function, which makes a signer of its own and drives it     *)
(* through both passes.  Each method call on the signer is one step.       *)
(***************************************************************************)
EXTENDS StreamingSigner, FiniteSets

CONSTANTS
  Bytes(_)  \* the encodings in the order of their bytes: their ranks

(* A ring as the function is given it: the sorted encodings, and whether   *)
(* the points are there too (Full representation).                         *)
SortedRings ==
  UNION {{r \in Vec(n, Member \cup {Malformed}) :
            \A i, j \in 0 .. n - 1 : i < j => Bytes(r[i]) <= Bytes(r[j])}
         : n \in 0 .. MaxRing}

VARIABLES
  pc,
  ring, full, len, secret_key, message,  \* the arguments
  signer_index, step,                    \* locals
  out,                                   \* the BLSAG under assembly
  outcome                                \* the value returned

arguments == <<ring, full, len, secret_key, message>>
callVars  == <<vars, pc, arguments, signer_index, step, out, outcome>>

(* map_streaming_err                                                       *)
MapStreamingErr(e) ==
  CASE e = "InvalidPoint" -> "DecompressionFailed"
    [] e = "IdentityMismatch" -> "SignerNotFound"
    [] OTHER -> "StreamingProtocol"

(* The hash announced to the signer; mutation: that of the default suite.  *)
DefaultHash(r) == [suite |-> "Sha3", members |-> r]
AnnouncedHash(r) == [suite |-> Suite, members |-> r]

(* The signer is given the hashes of whatever rings the function is.       *)
ASSUME CallerHashes == {AnnouncedHash(r) : r \in SortedRings} \subseteq RingHashes
ASSUME NilIsNoLocal ==
  Nil \notin Nat \cup {"SignerNotFound", "DecompressionFailed", "StreamingProtocol", "Ok"}

-----------------------------------------------------------------------------
(* A fresh signer, and any arguments.                                      *)
CallInit ==
  /\ Init
  /\ pc = "find_signer"
  /\ ring \in SortedRings
  /\ len = Cardinality(DOMAIN ring)
  /\ full \in IF \A i \in DOMAIN ring : Decompresses(ring[i]) THEN BOOLEAN ELSE {FALSE}
  /\ secret_key \in SecretKeys
  /\ message \in Message
  /\ signer_index = Nil
  /\ step = 0
  /\ out = [challenge |-> Zero, responses |-> [i \in 0 .. len - 1 |-> Zero],
            key_image |-> G]
  /\ outcome = Nil

(* The operator ? on the result of a call: an error is mapped and          *)
(* returned; mutations: the call is tried again, or nothing is returned.   *)
Retries(e) == UNCHANGED <<pc, outcome>>
Ignores(e) == pc' = "returned" /\ UNCHANGED outcome
Propagates(e) == pc' = "returned" /\ outcome' = MapStreamingErr(e)

FindSigner ==
  /\ pc = "find_signer"
  /\ LET at == {i \in DOMAIN ring : ring[i] = PublicKey(secret_key)}
     IN  \/ /\ at = {}
            /\ pc' = "returned"
            /\ outcome' = "SignerNotFound"
            /\ UNCHANGED signer_index
         \/ /\ at # {}
            /\ signer_index' = CHOOSE i \in at : \A j \in at : i <= j
            /\ pc' = "init_validation"
            /\ UNCHANGED outcome
  /\ UNCHANGED <<vars, arguments, step, out>>

CallInitValidation ==
  /\ pc = "init_validation"
  /\ InitValidation(len, AnnouncedHash(ring))
  /\ \/ result' # "Ok" /\ Propagates(result')
     \/ result' = "Ok" /\ pc' = "validate" /\ UNCHANGED outcome
  /\ UNCHANGED <<arguments, signer_index, step, out>>

CallValidateMember ==
  /\ pc = "validate"
  /\ ValidateMember(step, ring[step])
  /\ \/ result' # "Ack" /\ Propagates(result') /\ UNCHANGED step
     \/ /\ result' = "Ack"
        /\ UNCHANGED outcome
        /\ IF step + 1 < len
           THEN step' = step + 1 /\ UNCHANGED pc
           ELSE step' = 0 /\ pc' = "init_signing"
  /\ UNCHANGED <<arguments, signer_index, out>>

CallInitSigning ==
  /\ pc = "init_signing"
  /\ InitSigning(signer_index, secret_key, PublicKey(secret_key), message)
  /\ \/ result' # "Ok" /\ Propagates(result')
     \/ result' = "Ok" /\ pc' = "sign" /\ UNCHANGED outcome
  /\ UNCHANGED <<arguments, signer_index, step, out>>

(* The member submitted at a step of the second pass; mutation: the signer *)
(* comes first.                                                            *)
SignerFirst(pi, j) == (pi + j) % len
SigningIndex(pi, j) == (pi + 1 + j) % len

(* Where a response goes; mutation: in the order in which they come.       *)
ArrivalOrder(i) == step
ResponseSlot(i) == i

CallSignMember ==
  /\ pc = "sign"
  /\ LET i == SigningIndex(signer_index, step)
     IN  /\ SignMember(i, ring[i])
         /\ \/ /\ result' = "ScalarResponse"
               /\ out' = [out EXCEPT !.responses[ResponseSlot(i)] = responses'[i]]
            \/ /\ result' = "Complete"
               /\ out' = [challenge |-> signature'.challenge,
                          responses |-> [out.responses EXCEPT ![signer_index] = responses'[i]],
                          key_image |-> signature'.key_image]
            \/ result' \notin {"ScalarResponse", "Complete"} /\ UNCHANGED out
  /\ \/ /\ result' \in {"ScalarResponse", "Complete"}
        /\ step' = step + 1
        /\ IF step + 1 < len THEN UNCHANGED <<pc, outcome>>
                             ELSE pc' = "returned" /\ outcome' = "Ok"
     \/ /\ result' \notin {"ScalarResponse", "Complete"}
        /\ Propagates(result')
        /\ UNCHANGED step
  /\ UNCHANGED <<arguments, signer_index>>

CallNext == FindSigner \/ CallInitValidation \/ CallValidateMember \/ CallInitSigning \/ CallSignMember

(* A call, once made, runs to its end on the caller's thread.              *)
CallSpec == CallInit /\ [][CallNext]_callVars /\ WF_callVars(CallNext)

-----------------------------------------------------------------------------
CallTypeOK ==
  /\ pc \in {"find_signer", "init_validation", "validate", "init_signing", "sign",
             "returned"}
  /\ signer_index \in DOMAIN ring \cup {Nil}
  /\ step \in 0 .. len
  /\ out \in [challenge : Scalar, responses : Vec(len, Scalar), key_image : Point]
  /\ (outcome # Nil) = (pc = "returned")

(* What the function returns depends on the ring and the key only, and the *)
(* protocol error, which the documentation calls unexpected, never comes   *)
(* up (streaming_wrappers.rs:41-46, 106-109).                              *)
OutcomeIsRight ==
  pc = "returned" =>
    outcome = IF \A i \in DOMAIN ring : ring[i] # PublicKey(secret_key) THEN "SignerNotFound"
              ELSE IF \E i \in DOMAIN ring : ~Decompresses(ring[i]) THEN "DecompressionFailed"
              ELSE "Ok"

(* The signature assembled from the steps is the signer's and verifies     *)
(* over the ring by the one-shot method (streaming_wrappers.rs:8-9).       *)
OutputVerifies ==
  outcome = "Ok" => out = signature /\ Verify(out, ring, len, message)

(* The function returns.                                                   *)
Returns == <>(pc = "returned")

(* The documentation (streaming_wrappers.rs:36-37): functionally           *)
(* equivalent to sign_with_rng, whose outcome is the following.            *)
SignWithRngOutcome ==
  IF ~full THEN "CompressedRing"
  ELSE IF \A i \in DOMAIN ring : ring[i] # PublicKey(secret_key) THEN "SignerNotFound"
  ELSE "Ok"

EquivalentToSignWithRng ==
  pc = "returned" => (outcome = "Ok" <=> SignWithRngOutcome = "Ok")
=============================================================================
