--------------------------- MODULE VerifyStreaming ---------------------------
(***************************************************************************)
(* BLSAG::verify_streaming (src/blsag/streaming_wrappers.rs): one call of  *)
(* the function, which drives a streaming verifier of its own.  Each       *)
(* method call on the verifier is one step.  The verifier is that of       *)
(* StreamingVerifier; the definitions of the call are added to it.         *)
(***************************************************************************)
EXTENDS StreamingVerifier, FiniteSets

CONSTANTS
  Bytes(_)  \* the encodings in the order of their bytes: their ranks

SortedRings ==
  UNION {{r \in Vec(n, Member \cup {Malformed}) :
            \A i, j \in 0 .. n - 1 : i < j => Bytes(r[i]) <= Bytes(r[j])}
         : n \in 0 .. MaxRing}

VARIABLES
  pc,
  ring, full, len, sig, signed,             \* the arguments; signed is the message
  step,
  returned                                  \* the value returned

arguments == <<ring, full, len, sig, signed>>
callVars  == <<vars, pc, arguments, step, returned>>

(* The number of responses of the signature.                               *)
ResponseCount == Cardinality(DOMAIN sig.responses)

-----------------------------------------------------------------------------
(* A fresh verifier, and any arguments.                                    *)
CallInit ==
  /\ Init
  /\ pc = "check_length"
  /\ ring \in SortedRings
  /\ len = Cardinality(DOMAIN ring)
  /\ full \in IF \A i \in DOMAIN ring : Decompresses(ring[i]) THEN BOOLEAN ELSE {FALSE}
  /\ \E c \in Scalar, n \in 0 .. MaxRing, ki \in KeyImages : \E rs \in Vec(n, Response) :
       sig = [challenge |-> c, responses |-> rs, key_image |-> ki]
  /\ signed \in Message
  /\ step = 0
  /\ returned = Nil

Return(b) == pc' = "returned" /\ returned' = b

(* The guard on the lengths; mutation: more responses than members pass.   *)
EnoughResponses == ResponseCount >= len
RightLength == ResponseCount = len

CheckLength ==
  /\ pc = "check_length"
  /\ \/ ~RightLength /\ Return(FALSE)
     \/ RightLength /\ pc' = "init" /\ UNCHANGED returned
  /\ UNCHANGED <<vars, arguments, step>>

CallInitVerifier ==
  /\ pc = "init"
  /\ InitVerifier(sig.challenge, sig.key_image, signed, len)
  /\ \/ result' # "Ok" /\ Return(FALSE)
     \/ result' = "Ok" /\ pc' = "verify" /\ UNCHANGED returned
  /\ UNCHANGED <<arguments, step>>

(* An error from the verifier; mutation: the member is skipped.            *)
Skipped == step' = step + 1 /\ UNCHANGED <<pc, returned>>
Rejected == Return(FALSE) /\ UNCHANGED step

(* The value returned on Complete; mutation: having got so far is enough.  *)
AnyVerdict(b) == TRUE
Verdict(b) == b

CallVerifyMember ==
  /\ pc = "verify"
  /\ VerifyMember(step, ring[step], sig.responses[step])
  /\ \/ result' = "Ack" /\ step' = step + 1 /\ UNCHANGED <<pc, returned>>
     \/ result' = "Complete" /\ Return(Verdict(verdict')) /\ UNCHANGED step
     \/ result' \notin {"Ack", "Complete"} /\ Rejected
  /\ UNCHANGED arguments

CallNext == CheckLength \/ CallInitVerifier \/ CallVerifyMember

CallSpec == CallInit /\ [][CallNext]_callVars

-----------------------------------------------------------------------------
(* The walk never runs past the ring: the return after the loop, marked as *)
(* not reached, is not (streaming_wrappers.rs:176-177).                    *)
CallTypeOK ==
  /\ pc \in {"check_length", "init", "verify", "returned"}
  /\ pc = "verify" => step \in 0 .. len - 1
  /\ (returned \in BOOLEAN) = (pc = "returned")

(* The function returns true exactly for a signature with as many          *)
(* responses as the ring has members, all of them points, that the         *)
(* one-shot method accepts over a ring that is not empty.                  *)
ReturnsVerify ==
  pc = "returned" =>
    returned = (/\ len # 0
                /\ ResponseCount = len
                /\ \A i \in DOMAIN ring : Decompresses(ring[i])
                /\ Verify(sig, ring, len, signed))

(* The documentation (streaming_wrappers.rs:142-143): functionally         *)
(* equivalent to verify, here over a ring that both accept, a Full one.    *)
EquivalentToVerify ==
  pc = "returned" /\ full =>
    returned = (ResponseCount = len /\ Verify(sig, ring, len, signed))
=============================================================================
