--------------------------- MODULE ProgressCalls ---------------------------
(***************************************************************************)
(* sign_with_rng_and_progress (src/blsag/sign.rs) and verify_with_progress *)
(* (src/blsag/verify.rs), one turn of their loops at a time: the chain of  *)
(* challenges, the challenge of index 0 caught on the way, and the calls   *)
(* of the callback.  Both are separate code from verify and from the       *)
(* closed form of Blsag, which they are compared with.                     *)
(*                                                                         *)
(* A call runs to its end without the caller doing anything else.  Its     *)
(* arguments are kept until the next one begins.                           *)
(***************************************************************************)
EXTENDS Blsag, RingData

CONSTANTS
  Suite,   \* the digest suite of the calls
  MaxRing  \* bound: longest ring

VARIABLES
  pc,         \* "idle", "signing" or "verifying"
  args,       \* the arguments
  locals,     \* when signing: [index, image], the signer's place and key image
  total,      \* the turns of the loop: loop_len when signing, n when verifying
  step,       \* the turns taken
  challenge,  \* current_challenge or reconstructed_c
  c_0,        \* when signing
  done,       \* what the callback was last told, 0 before its first call
  outcome,    \* what the last call returned: an error, "Signed", "Valid" or "Invalid"
  signature   \* the signature it returned, or Nil

callVars == <<pc, args, locals, total, step, challenge, c_0, done, outcome, signature>>

InitCalls ==
  /\ pc = "idle" /\ args = Nil /\ locals = Nil /\ total = 0 /\ step = 0
  /\ challenge = Zero /\ c_0 = Zero /\ done = 0
  /\ outcome = "None" /\ signature = Nil

-----------------------------------------------------------------------------
(* PreparedRing, and what a caller may have of it: none, that of the ring, *)
(* that of another ring of its length, and one whose points were lost.     *)
Prepared(ring, points) ==
  [ring_hash |-> CanonicalHash(Suite, ring), hashed_points |-> points]
PreparedOf(ring) ==
  Prepared(ring, [i \in 1 .. RingLen(ring) |-> HashToPoint(ring.compressed[i])])
Preparations(ring) ==
  {Nil, PreparedOf(ring), Prepared(ring, <<>>),
   PreparedOf(FullRing([i \in 1 .. RingLen(ring) |-> G]))}

(* The checks on it; mutation: any data of the right length will do.       *)
SameLengthOnly(d, ring) == TRUE
SameRing(d, ring) == d.ring_hash = CanonicalHash(Suite, ring)

Mismatched(d, ring) == d # Nil /\ ~SameRing(d, ring)
Invalid(d, ring) == d # Nil /\ Len(d.hashed_points) # RingLen(ring)

(* What the member of index i is hashed to.                                *)
HashedPoint(d, ring, i) ==
  IF d = Nil THEN HashToPoint(ring.points[i + 1]) ELSE d.hashed_points[i + 1]

(* The callback is called after a chunk of turns and after the last one;   *)
(* mutation: after a chunk of turns.                                       *)
Chunk(len) == IF len < 10 THEN 1 ELSE len \div 10
ReportsChunks(turn, len) == turn % Chunk(len) = 0
Reports(turn, len) == turn % Chunk(len) = 0 \/ turn = len

(* What it is told; mutation: it is told of the turn that comes next.      *)
ToldAhead(turn, len, before) == IF Reports(turn, len) THEN turn + 1 ELSE before
Told(turn, len, before) == IF Reports(turn, len) THEN turn ELSE before

Refused(error, arguments) ==
  /\ outcome' = error
  /\ args' = arguments
  /\ signature' = Nil
  /\ UNCHANGED <<pc, locals, total, step, challenge, c_0, done>>

Begins(call, arguments, turns, first) ==
  /\ pc' = call
  /\ args' = arguments
  /\ total' = turns
  /\ challenge' = first
  /\ outcome' = "None"
  /\ signature' = Nil
  /\ UNCHANGED <<step, done>>

(* One turn, at the member of index i.                                     *)
Turn(i, response, image) ==
  /\ step < total
  /\ challenge' = NextChallenge(args.message, response, challenge, args.ring.points[i + 1],
                                HashedPoint(args.prepared, args.ring, i), image)
  /\ step' = step + 1
  /\ done' = Told(step + 1, total, done)
  /\ UNCHANGED <<pc, args, locals, total, outcome, signature>>

(* The end of a call: its locals are gone.                                 *)
Returns(what, sig) ==
  /\ step = total
  /\ outcome' = what
  /\ signature' = sig
  /\ pc' = "idle"
  /\ locals' = Nil
  /\ total' = 0 /\ step' = 0 /\ done' = 0 /\ challenge' = Zero /\ c_0' = Zero
  /\ UNCHANGED args

-----------------------------------------------------------------------------
(* The key image; mutation: on the point the first member is hashed to.    *)
ImageOnFirst(k, d, ring) == PMul(k, HashedPoint(d, ring, 0))
SigningImage(k, d, ring) == KeyImage(k)

(* c_0 before the loop; mutation: the signer who is last is forgotten.     *)
NoInitialC0(index, n, c) == Zero
InitialC0(index, n, c) == IF index = n - 1 THEN c ELSE Zero

BeginSign(k, ring, d, m, draw) ==
  LET arguments == [secret |-> k, ring |-> ring, prepared |-> d, message |-> m,
                    draw |-> draw]
      places == {i \in 1 .. RingLen(ring) : ring.compressed[i] = PublicKey(k)}
      n == RingLen(ring)
      first == NonceChallenge(m, draw.nonce, HashToPoint(PublicKey(k)))
  IN  /\ pc = "idle"
      /\ \/ ~IsDecompressed(ring) /\ Refused("CompressedRing", arguments)
         \/ /\ IsDecompressed(ring)
            /\ places = {}
            /\ Refused("SignerNotFound", arguments)
         \/ /\ IsDecompressed(ring)
            /\ places # {}
            /\ \/ Mismatched(d, ring) /\ Refused("RingMismatch", arguments)
               \/ /\ ~Mismatched(d, ring)
                  /\ Invalid(d, ring)
                  /\ Refused("InvalidPrecomputedData", arguments)
         \/ /\ IsDecompressed(ring)
            /\ ~Mismatched(d, ring)
            /\ ~Invalid(d, ring)
            /\ Begins("signing", arguments, n - 1, first)
            /\ \E found \in places :
                 /\ locals' = [index |-> found - 1, image |-> SigningImage(k, d, ring)]
                 /\ c_0' = InitialC0(found - 1, n, first)

SignTurn ==
  /\ pc = "signing"
  /\ LET n == RingLen(args.ring)
         i == (locals.index + 1 + step) % n
     IN  /\ Turn(i, args.draw.responses[i], locals.image)
         /\ c_0' = IF i = n - 1 THEN challenge' ELSE c_0

EndSign ==
  /\ pc = "signing"
  /\ Returns("Signed",
       [challenge |-> c_0,
        responses |-> [args.draw.responses EXCEPT ![locals.index] =
                         ClosingResponse(args.draw.nonce, challenge, args.secret)],
        key_image |-> locals.image])

-----------------------------------------------------------------------------
BeginVerify(sig, ring, d, m) ==
  LET arguments == [signature |-> sig, ring |-> ring, prepared |-> d, message |-> m]
      rejects == \/ ~IsDecompressed(ring)
                 \/ DOMAIN sig.responses # 0 .. RingLen(ring) - 1
                 \/ Mismatched(d, ring)
                 \/ Invalid(d, ring)
  IN  /\ pc = "idle"
      /\ \/ rejects /\ Refused("Invalid", arguments)
         \/ /\ ~rejects
            /\ Begins("verifying", arguments, RingLen(ring), sig.challenge)
            /\ UNCHANGED <<locals, c_0>>

VerifyTurn ==
  /\ pc = "verifying"
  /\ Turn(step, args.signature.responses[step], args.signature.key_image)
  /\ UNCHANGED c_0

EndVerify ==
  /\ pc = "verifying"
  /\ Returns(IF challenge = args.signature.challenge THEN "Valid" ELSE "Invalid", Nil)

CallStep == SignTurn \/ EndSign \/ VerifyTurn \/ EndVerify

-----------------------------------------------------------------------------
(* link, and generate_fake_with_rng: a signature of random values          *)
Link(sig1, sig2) == sig1.key_image = sig2.key_image

FakeSignature(draw, key_image) ==
  [challenge |-> draw.nonce, responses |-> draw.responses, key_image |-> key_image]

-----------------------------------------------------------------------------
(* What signing with progress returns is what the closed form makes of the *)
(* same nonce and responses, with prepared data or without it, wherever    *)
(* the signer is (sign.rs:37-39, 399).                                     *)
SignsAlike ==
  outcome = "Signed" =>
    LET n == RingLen(args.ring)
        ring == AsVec(args.ring.points)
    IN  \E place \in {i \in 0 .. n - 1 : ring[i] = PublicKey(args.secret)} :
          signature = SignWith(args.secret, ring, n, place, HashedPoints(ring, n),
                               args.message, args.draw.nonce, args.draw.responses)

(* The verdict with progress is that of verify: yes exactly to a signature *)
(* of the ring's length that verifies over it, the prepared data, if any,  *)
(* being the ring's (verify.rs:18).                                        *)
ProgressVerdictIsVerify ==
  outcome \in {"Valid", "Invalid"} =>
    LET ring == args.ring
    IN  outcome = "Valid" <=>
          /\ IsDecompressed(ring)
          /\ DOMAIN args.signature.responses = 0 .. RingLen(ring) - 1
          /\ args.prepared \in {Nil, PreparedOf(ring)}
          /\ Verify(args.signature, AsVec(ring.points), RingLen(ring), args.message)

Meter == INSTANCE ProgressMeter WITH open <- pc # "idle", MaxTotal <- MaxRing

(* The callback's calls are those a progress bar is promised, and every    *)
(* call that begins comes to its end (sign.rs:399-401, verify.rs:18-19).   *)
ImplementsMeter == Meter!Spec
=============================================================================
