------------------------------- MODULE Wallet -------------------------------
(***************************************************************************)
(* Keys and calls composed: a holder signs with the secret it has derived, *)
(* over a ring that another has put together from the public key it has    *)
(* derived, perhaps without ever having the secret; the signature, or one  *)
(* that was damaged on the way or made up, is verified over that ring.     *)
(* Keys are copied into a call: nobody's key changes what it computes.     *)
(***************************************************************************)
EXTENDS Keys, ProgressCalls

CONSTANTS
  Decoys,   \* bound: the other members of a ring
  Message,
  Draws(_)  \* bound: what the RNG returns for a ring of a length: the nonce
            \* and one response per member

ASSUME WalletConstants ==
  /\ MaxRing \in Nat
  /\ \A decoys \in Decoys : decoys \in Seq(Point) /\ Len(decoys) < MaxRing
  /\ \A n \in 1 .. MaxRing : Draws(n) \subseteq [nonce : Scalar, responses : Vec(n, Scalar)]
  /\ \A m \in Message, L, R \in Point : Challenge(m, L, R) \in Scalar
  /\ \A P \in Point : Bytes(P) \in Int

(* Two secrets have two key images: linking rests on it.                   *)
ASSUME KeyImagesDiffer == \A a, b \in Scalar : KeyImage(a) = KeyImage(b) => a = b

VARIABLE parties  \* history: who signs and whose public key is in the ring

vars == <<keyVars, callVars, parties>>

Init == InitKeys /\ InitCalls /\ parties = Nil

(* What a call returned is dropped before the caller goes on to anything   *)
(* but verifying it.                                                       *)
Free == pc = "idle" /\ outcome = "None"

Drop ==
  /\ pc = "idle"
  /\ outcome # "None"
  /\ args' = Nil /\ outcome' = "None" /\ signature' = Nil /\ parties' = Nil
  /\ UNCHANGED <<keyVars, pc, locals, total, step, challenge, c_0, done>>

KeyStep == Free /\ NextKeys /\ UNCHANGED <<callVars, parties>>

RingsWith(P) ==
  UNION {LET members == SortByBytes(Append(decoys, P))
         IN  {FullRing(members), CompressedRing(members)} : decoys \in Decoys}

StartSign(h, g) ==
  /\ Free
  /\ HasSecret(keys[h])
  /\ \E ring \in RingsWith(PublicOf(keys[g])), m \in Message :
       \E d \in Preparations(ring), draw \in Draws(RingLen(ring)) :
         BeginSign(keys[h].secret, ring, d, m, draw)
  /\ parties' = [signer |-> h, member |-> g]
  /\ UNCHANGED keyVars

(* The signature as it was made, with a value changed or missing, or a     *)
(* fake one.                                                               *)
Received(sig, ring) ==
  {sig,
   [sig EXCEPT !.challenge = SSub(@, SSub(sig.responses[0], sig.challenge))],
   [sig EXCEPT !.responses = [i \in 0 .. RingLen(ring) - 2 |-> @[i]]]}
  \cup {FakeSignature(draw, sig.key_image) : draw \in Draws(RingLen(ring))}

StartVerify ==
  /\ outcome = "Signed"
  /\ \E sig \in Received(signature, args.ring), d \in Preparations(args.ring),
        ring \in {args.ring, CompressedRing(args.ring.compressed)} :
       BeginVerify(sig, ring, d, args.message)
  /\ parties' = Nil
  /\ UNCHANGED keyVars

Next ==
  \/ KeyStep
  \/ \E h, g \in Holder : h # g /\ StartSign(h, g)
  \/ StartVerify
  \/ Drop
  \/ CallStep /\ UNCHANGED <<keyVars, parties>>

(* A call, once begun, runs to its end on the caller's thread.             *)
Fairness == WF_vars(CallStep /\ UNCHANGED <<keyVars, parties>>)

Spec == Init /\ [][Next]_vars /\ Fairness

-----------------------------------------------------------------------------
TypeOK ==
  /\ \A h \in Holder :
       /\ keys[h] \in [type : {"KeyPair", "Scalar", "Point"},
                       secret : Scalar \cup {Absent}, public : Point \cup {Absent}]
       /\ HasSecret(keys[h]) \/ keys[h].type # "Scalar"
       /\ keys[h].public = Absent <=> keys[h].type = "Scalar"
  /\ pc = "idle" => locals = Nil /\ total = 0 /\ step = 0 /\ done = 0
  /\ pc = "signing" => locals.index \in 0 .. total /\ done \in 0 .. step /\ step \in 0 .. total
  /\ pc = "verifying" => locals = Nil /\ done \in 0 .. step /\ step \in 0 .. total

(* A holder signs with its derived secret over a decompressed ring made of *)
(* the public key another derived from the same root: it is never told     *)
(* that the ring lacks its key, and what it signs verifies                 *)
(* (keypair.rs:94-96, sign.rs:59-61).                                      *)
WalletSigns ==
  /\ outcome = "SignerNotFound" => origin[parties.signer] # origin[parties.member]
  /\ outcome = "Signed" =>
       Verify(signature, AsVec(args.ring.points), RingLen(args.ring), args.message)

(* A signature is linked with those made with the same secret, over any    *)
(* ring and by any holder, and with no other (mod.rs:179-183).             *)
AloneSignature(k, m, draw) ==
  LET ring == [i \in {0} |-> PublicKey(k)]
  IN  SignWith(k, ring, 1, 0, HashedPoints(ring, 1), m, draw.nonce, draw.responses)

LinkedBySecret ==
  outcome = "Signed" =>
    \A h \in Holder, m \in Message, draw \in Draws(1) :
      HasSecret(keys[h]) =>
        (Link(signature, AloneSignature(keys[h].secret, m, draw))
           <=> keys[h].secret = args.secret)
=============================================================================
