-------------------------- MODULE StreamingVerifier --------------------------
(***************************************************************************)
(* StreamingBlsagVerifier (src/blsag/streaming.rs): a bLSAG verifier that  *)
(* is given the ring members and their responses one at a time and keeps   *)
(* only the current challenge.  Any method may be called at any time with  *)
(* any argument; each call is one action and leaves its outcome in result. *)
(***************************************************************************)
EXTENDS Blsag

CONSTANTS
  Nil,         \* None
  MaxRing,     \* bound: longest ring a caller announces
  Member,      \* bound: the points callers submit as ring members
  Message,
  Response,    \* bound: the response scalars callers submit
  KeyImages    \* bound: the points callers submit as key images

Lengths == 1 .. MaxRing

ASSUME VerifierConstants ==
  /\ MaxRing \in Nat
  /\ Member \subseteq Point
  /\ KeyImages \subseteq Point
  /\ Response \subseteq Scalar
  /\ Nil \notin BOOLEAN
  /\ \A m \in Message, L, R \in Point : Challenge(m, L, R) \in Scalar

VARIABLES
  phase, ring_len, c_0, c_current, key_image,  \* the fields of the verifier
  message,           \* what message_hash has absorbed
  members_verified,
  result,            \* what the last call returned
  \* History, of no influence on the verifier: the members and responses it
  \* has acknowledged, the challenge computed before each, and the verdict.
  members, responses, challenges, verdict

fields  == <<phase, ring_len, c_0, c_current, key_image, message, members_verified>>
history == <<members, responses, challenges, verdict>>
vars    == <<fields, result, history>>

Index == 0 .. MaxRing

(* The signature and the ring the caller has submitted piece by piece.     *)
Submitted == [challenge |-> c_0, responses |-> responses, key_image |-> key_image]

-----------------------------------------------------------------------------
Init ==
  /\ phase = "Idle"
  /\ ring_len = 0
  /\ c_0 = Zero
  /\ c_current = Zero
  /\ key_image = G
  /\ message = Nil
  /\ members_verified = 0
  /\ result = Nil
  /\ members = [i \in {} |-> Nil]
  /\ responses = [i \in {} |-> Nil]
  /\ challenges = [i \in 0 .. 0 |-> Zero]
  /\ verdict = Nil

Fails(error) ==
  /\ result' = error
  /\ UNCHANGED <<fields, history>>

(* The guard of init; mutation: a verifier that has decided may be reused. *)
StartsUnlessBusy == phase # "Verifying"
MayStart == phase = "Idle"

(* The challenge the walk starts from; mutation: init leaves the old one.  *)
StartingChallengeStale(c) == c_current
StartingChallenge(c) == c

Begin(c, ki, m, n) ==
  /\ ring_len' = n
  /\ c_0' = c
  /\ c_current' = StartingChallenge(c)
  /\ key_image' = ki
  /\ message' = m
  /\ members_verified' = 0
  /\ phase' = "Verifying"
  /\ result' = "Ok"
  /\ challenges' = [i \in 0 .. 0 |-> c]
  /\ UNCHANGED <<members, responses, verdict>>

(* init                                                                    *)
InitVerifier(c, ki, m, n) ==
  \/ ~MayStart /\ Fails("InvalidState")
  \/ MayStart /\ n = 0 /\ Fails("EmptyRing")
  \/ /\ MayStart
     /\ n # 0
     /\ \/ ~Decompresses(ki) /\ Fails("InvalidPoint")
        \/ Decompresses(ki) /\ Begin(c, ki, m, n)

(* The last member decides; mutation: off by one.                          *)
IsLastOffByOne(seen) == seen > ring_len
IsLast(seen) == seen = ring_len

(* An index i accepted in order is the position at which the history       *)
(* records the member.                                                     *)
Chain(i, P, s) ==
  LET seen == members_verified + 1
      next == NextChallenge(message, s, c_current, P, HashToPoint(P), key_image)
  IN  /\ c_current' = next
      /\ members_verified' = seen
      /\ members' = [j \in 0 .. i |-> IF j = i THEN P ELSE members[j]]
      /\ responses' = [j \in 0 .. i |-> IF j = i THEN s ELSE responses[j]]
      /\ challenges' = [j \in 0 .. i + 1 |-> IF j = i + 1 THEN next ELSE challenges[j]]
      /\ \/ /\ IsLast(seen)
            /\ phase' = "Done"
            /\ verdict' = (next = c_0)
            /\ result' = "Complete"
         \/ /\ ~IsLast(seen)
            /\ result' = "Ack"
            /\ UNCHANGED <<phase, verdict>>
      /\ UNCHANGED <<ring_len, c_0, key_image, message>>

(* verify_member                                                           *)
VerifyMember(i, c, s) ==
  \/ phase # "Verifying" /\ Fails("InvalidState")
  \/ /\ phase = "Verifying"
     /\ \/ i # members_verified /\ Fails("OutOfOrder")
        \/ /\ i = members_verified
           /\ \/ ~Decompresses(c) /\ Fails("InvalidPoint")
              \/ Decompresses(c) /\ Chain(i, c, s)

Next ==
  \/ \E c \in Scalar, ki \in KeyImages \cup {Malformed}, m \in Message,
        n \in 0 .. MaxRing : InitVerifier(c, ki, m, n)
  \/ \E i \in Index, c \in Member \cup {Malformed}, s \in Response :
       VerifyMember(i, c, s)

Spec == Init /\ [][Next]_vars

-----------------------------------------------------------------------------
TypeOK ==
  /\ phase \in {"Idle", "Verifying", "Done"}
  /\ ring_len \in 0 .. MaxRing
  /\ c_0 \in Scalar /\ c_current \in Scalar
  /\ key_image \in Point
  /\ phase # "Idle" => message \in Message /\ ring_len \in Lengths
  /\ members_verified \in 0 .. ring_len
  /\ verdict \in BOOLEAN \cup {Nil}

(* The verdict is the one the standard verification gives the signature    *)
(* and the ring that were submitted, whatever calls failed or were         *)
(* repeated on the way (streaming.rs:705-757, verify.rs:102-163).          *)
VerdictIsVerify ==
  verdict # Nil => verdict = Verify(Submitted, members, ring_len, message)

(* A verifier decides when it has seen as many members as were announced,  *)
(* and then for good: no call takes a verdict back, changes what it was    *)
(* about or lets the verifier be used for another signature.               *)
VerdictIsFinal ==
  [][/\ verdict # Nil => UNCHANGED <<verdict, fields, members, responses>>
     /\ verdict' # verdict => DOMAIN members' = 0 .. ring_len - 1]_vars

-----------------------------------------------------------------------------
(* The inductive invariant of the proofs.                                  *)
(* c is a vector of challenges that starts at c_0 and satisfies the        *)
(* equations of the members 0 .. k-1.                                      *)
Follows(c, k) ==
  /\ c[0] = c_0
  /\ \A j \in 0 .. k - 1 :
       c[j + 1] = NextChallenge(message, responses[j], c[j], members[j],
                                HashToPoint(members[j]), key_image)

ChainInv ==
  phase # "Idle" =>
    /\ members \in Vec(members_verified, Point)
    /\ responses \in Vec(members_verified, Scalar)
    /\ challenges \in Vec(members_verified + 1, Scalar)
    /\ Follows(challenges, members_verified)
    /\ challenges[members_verified] = c_current

(* Every such vector leads to the current challenge.                       *)
UniqueInv ==
  phase # "Idle" =>
    \A c \in Vec(ring_len + 1, Scalar) :
      Follows(c, members_verified) => c[members_verified] = c_current

PhaseInv ==
  /\ phase = "Idle" => members_verified = 0 /\ ring_len = 0
                       /\ members = [i \in {} |-> Nil] /\ responses = [i \in {} |-> Nil]
  /\ phase = "Verifying" => members_verified < ring_len
  /\ phase = "Done" => members_verified = ring_len /\ verdict = (c_current = c_0)
  /\ phase # "Done" => verdict = Nil

IInv == TypeOK /\ PhaseInv /\ ChainInv /\ UniqueInv
=============================================================================
