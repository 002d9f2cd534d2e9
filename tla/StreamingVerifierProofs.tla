----------------------- MODULE StreamingVerifierProofs -----------------------
(***************************************************************************)
(* Proofs about StreamingVerifier, for rings of any length, any group that *)
(* satisfies the assumptions of Curve and any callers.                     *)
(***************************************************************************)
EXTENDS VerifyStreaming, BlsagProofs, FiniteSetTheorems

(* Challenges are scalars.                                                 *)
LEMMA NextChallengeType ==
  ASSUME NEW m \in Message, NEW s \in Scalar, NEW c \in Scalar, NEW P \in Point,
         NEW I \in Point
  PROVE  NextChallenge(m, s, c, P, HashToPoint(P), I) \in Scalar
  <1>1. G \in Point /\ HashToPoint(P) \in Point
    BY CurveTypes
  <1> DEFINE L == PAdd(PMul(s, G), PMul(c, P))
             R == PAdd(PMul(s, HashToPoint(P)), PMul(c, I))
  <1>2. L \in Point
    <2>1. PMul(s, G) \in Point /\ PMul(c, P) \in Point
      BY <1>1, CurveTypes
    <2>2. QED BY <2>1, CurveTypes
  <1>3. R \in Point
    <2>1. PMul(s, HashToPoint(P)) \in Point /\ PMul(c, I) \in Point
      BY <1>1, CurveTypes
    <2>2. QED BY <2>1, CurveTypes
  <1> HIDE DEF L, R
  <1>4. Challenge(m, L, R) \in Scalar
    BY <1>2, <1>3, VerifierConstants
  <1>5. QED BY <1>4 DEF NextChallenge, L, R

-----------------------------------------------------------------------------
(* The invariant holds of a fresh verifier.                                *)
LEMMA InitEstablishes == Init => IInv
  <1> SUFFICES ASSUME Init PROVE IInv
    OBVIOUS
  <1>1. TypeOK
    BY CurveTypes, VerifierConstants DEF Init, TypeOK, Lengths
  <1>2. PhaseInv
    BY DEF Init, PhaseInv
  <1>3. ChainInv /\ UniqueInv
    BY DEF Init, ChainInv, UniqueInv
  <1>4. QED BY <1>1, <1>2, <1>3 DEF IInv

(* A call that fails, or none at all.                                      *)
LEMMA StutterKeeps ==
  ASSUME IInv, UNCHANGED <<fields, history>>
  PROVE  IInv'
  <1>1. TypeOK'
    BY DEF IInv, TypeOK, fields, history
  <1>2. PhaseInv'
    BY DEF IInv, PhaseInv, fields, history
  <1>3. ChainInv'
    BY DEF IInv, ChainInv, Follows, fields, history
  <1>4. UniqueInv'
    BY DEF IInv, UniqueInv, Follows, fields, history
  <1>5. QED BY <1>1, <1>2, <1>3, <1>4 DEF IInv

(* A call of init that succeeds.                                           *)
LEMMA BeginKeeps ==
  ASSUME IInv, MayStart,
         NEW c \in Scalar, NEW ki \in Point, NEW m \in Message, NEW n \in Lengths,
         Begin(c, ki, m, n)
  PROVE  IInv'
  <1> USE VerifierConstants DEF MayStart
  <1>1. TypeOK'
    BY DEF IInv, TypeOK, Begin, StartingChallenge, Lengths
  <1>2. PhaseInv'
    BY DEF IInv, PhaseInv, Begin, Lengths
  <1>3. members' = [i \in {} |-> Nil] /\ responses' = [i \in {} |-> Nil]
    BY DEF IInv, PhaseInv, Begin
  <1>4. ChainInv'
    BY <1>3 DEF ChainInv, Follows, Vec, Begin, StartingChallenge
  <1>5. UniqueInv'
    BY DEF UniqueInv, Follows, Begin, StartingChallenge
  <1>6. QED BY <1>1, <1>2, <1>4, <1>5 DEF IInv

(* One more member acknowledged: the vectors of challenges grow by the     *)
(* equation of that member.                                                *)
LEMMA ChainKeeps ==
  ASSUME IInv, phase = "Verifying",
         NEW P \in Point, NEW s \in Scalar, Chain(members_verified, P, s)
  PROVE  IInv'
  <1> DEFINE k == members_verified
             next == NextChallenge(message, s, c_current, P, HashToPoint(P), key_image)
  <1>1. /\ k \in Nat /\ ring_len \in Nat /\ k < ring_len
        /\ message \in Message /\ c_current \in Scalar /\ key_image \in Point
        /\ ring_len \in Lengths
    BY VerifierConstants DEF IInv, TypeOK, PhaseInv, Lengths
  <1>2. next \in Scalar
    BY <1>1, NextChallengeType
  <1> HIDE DEF next
  <1>3. /\ c_current' = next
        /\ members_verified' = k + 1
        /\ members' = [j \in 0 .. k |-> IF j = k THEN P ELSE members[j]]
        /\ responses' = [j \in 0 .. k |-> IF j = k THEN s ELSE responses[j]]
        /\ challenges' = [j \in 0 .. k + 1 |-> IF j = k + 1 THEN next ELSE challenges[j]]
        /\ UNCHANGED <<ring_len, c_0, key_image, message>>
    BY DEF Chain, next
  <1>4. \/ phase' = "Done" /\ k + 1 = ring_len /\ verdict' = (next = c_0)
        \/ phase' = "Verifying" /\ k + 1 # ring_len /\ verdict' = verdict
    BY DEF Chain, IsLast, next
  <1>5. TypeOK'
    <2>1. verdict' \in BOOLEAN \cup {Nil}
      <3>1. CASE verdict' = (next = c_0)
        BY <3>1, Zenon
      <3>2. CASE verdict' = verdict
        BY <3>2 DEF IInv, TypeOK
      <3>3. QED BY <1>4, <3>1, <3>2
    <2>2. members_verified' \in 0 .. ring_len'
      BY <1>1, <1>3
    <2>3. phase' \in {"Idle", "Verifying", "Done"}
      BY <1>4
    <2>4. /\ ring_len' \in 0 .. MaxRing /\ c_0' \in Scalar /\ c_current' \in Scalar
          /\ key_image' \in Point /\ message' \in Message /\ ring_len' \in Lengths
      BY <1>1, <1>2, <1>3 DEF IInv, TypeOK
    <2>5. QED BY <2>1, <2>2, <2>3, <2>4 DEF TypeOK
  <1>6. PhaseInv'
    BY <1>1, <1>2, <1>3, <1>4 DEF IInv, PhaseInv
  <1>7. /\ members \in Vec(k, Point) /\ responses \in Vec(k, Scalar)
        /\ challenges \in Vec(k + 1, Scalar)
        /\ Follows(challenges, k) /\ challenges[k] = c_current
    BY DEF IInv, ChainInv
  <1>8. /\ members' \in Vec(k + 1, Point) /\ responses' \in Vec(k + 1, Scalar)
        /\ challenges' \in Vec(k + 2, Scalar)
    BY <1>1, <1>2, <1>3, <1>7 DEF Vec
  (* A vector with room for k + 1 equations satisfies them when it         *)
  (* satisfies the first k and the new one.                                *)
  <1>9. ASSUME NEW c
        PROVE  Follows(c, members_verified)' <=>
                 /\ Follows(c, members_verified)
                 /\ c[k + 1] = NextChallenge(message, s, c[k], P, HashToPoint(P), key_image)
    <2>1. \A j \in 0 .. k - 1 : members'[j] = members[j] /\ responses'[j] = responses[j]
      BY <1>1, <1>3
    <2>2. members'[k] = P /\ responses'[k] = s
      BY <1>1, <1>3
    <2>3. 0 .. members_verified' - 1 = (0 .. k - 1) \cup {k}
      BY <1>1, <1>3
    <2>4. Follows(c, members_verified)' <=>
            /\ c[0] = c_0
            /\ \A j \in (0 .. k - 1) \cup {k} :
                 c[j + 1] = NextChallenge(message, responses'[j], c[j], members'[j],
                                          HashToPoint(members'[j]), key_image)
      <3>1. Follows(c, members_verified)' <=>
              /\ c[0] = c_0'
              /\ \A j \in 0 .. members_verified' - 1 :
                   c[j + 1] = NextChallenge(message', responses'[j], c[j], members'[j],
                                            HashToPoint(members'[j]), key_image')
        BY DEF Follows
      <3>2. message' = message /\ key_image' = key_image /\ c_0' = c_0
        BY <1>3
      <3>3. QED BY <2>3, <3>1, <3>2
    <2>5. QED BY <2>1, <2>2, <2>4 DEF Follows
  <1>10. ChainInv'
    <2>1. challenges'[k + 1] = next /\ \A j \in 0 .. k : challenges'[j] = challenges[j]
      BY <1>1, <1>3
    <2>2. /\ challenges'[0] = c_0
          /\ \A j \in 0 .. k - 1 :
               challenges'[j + 1] =
                 NextChallenge(message, responses[j], challenges'[j], members[j],
                               HashToPoint(members[j]), key_image)
      BY <1>1, <1>7, <2>1 DEF Follows
    <2>3. challenges'[k + 1]
            = NextChallenge(message, s, challenges'[k], P, HashToPoint(P), key_image)
      BY <1>1, <1>7, <2>1 DEF next
    <2>4. Follows(challenges, members_verified)'
      <3>1. \A j \in 0 .. k - 1 : members'[j] = members[j] /\ responses'[j] = responses[j]
        BY <1>1, <1>3
      <3>2. members'[k] = P /\ responses'[k] = s
        BY <1>1, <1>3
      <3>3. 0 .. members_verified' - 1 = (0 .. k - 1) \cup {k}
        BY <1>1, <1>3
      <3>4. ASSUME NEW j \in 0 .. members_verified' - 1
            PROVE  challenges'[j + 1] =
                     NextChallenge(message, responses'[j], challenges'[j], members'[j],
                                   HashToPoint(members'[j]), key_image)
        <4>1. CASE j = k
          BY <4>1, <2>3, <3>2
        <4>2. CASE j \in 0 .. k - 1
          <5>1. members'[j] = members[j] /\ responses'[j] = responses[j]
            BY <4>2, <3>1
          <5>2. QED BY <4>2, <5>1, <2>2
        <4>3. QED BY <3>3, <4>1, <4>2
      <3>5. message' = message /\ key_image' = key_image /\ c_0' = c_0
        BY <1>3
      <3>6. challenges'[0] = c_0'
        BY <2>2, <3>5
      <3>7. \A j \in 0 .. members_verified' - 1 :
              challenges'[j + 1] =
                NextChallenge(message', responses'[j], challenges'[j], members'[j],
                              HashToPoint(members'[j]), key_image')
        BY <3>4, <3>5
      <3>8. QED BY <3>6, <3>7 DEF Follows
    <2>5. QED BY <1>1, <1>3, <1>8, <2>1, <2>4 DEF ChainInv
  <1>11. UniqueInv'
    <2> SUFFICES ASSUME NEW c \in Vec(ring_len + 1, Scalar),
                        Follows(c, members_verified)'
                 PROVE  c[k + 1] = next
      BY <1>3 DEF UniqueInv, Follows
    <2>1. Follows(c, members_verified)
      BY <1>9
    <2>2. c[k] = c_current
      BY <2>1 DEF IInv, UniqueInv
    <2>3. QED BY <1>9, <2>2 DEF next
  <1>12. QED BY <1>5, <1>6, <1>10, <1>11 DEF IInv

(* Every call keeps the invariant.                                         *)
LEMMA NextKeeps == IInv /\ [Next]_vars => IInv'
  <1> SUFFICES ASSUME IInv, [Next]_vars PROVE IInv'
    OBVIOUS
  <1>1. ASSUME NEW c \in Scalar, NEW ki \in KeyImages \cup {Malformed},
               NEW m \in Message, NEW n \in 0 .. MaxRing, InitVerifier(c, ki, m, n)
        PROVE  IInv'
    <2>1. CASE UNCHANGED <<fields, history>>
      BY <2>1, StutterKeeps
    <2>2. CASE MayStart /\ n # 0 /\ Decompresses(ki) /\ Begin(c, ki, m, n)
      <3>1. ki \in Point /\ n \in Lengths
        BY <2>2, VerifierConstants DEF Decompresses, Lengths
      <3>2. QED BY <2>2, <3>1, BeginKeeps
    <2>3. QED BY <1>1, <2>1, <2>2 DEF InitVerifier, Fails
  <1>2. ASSUME NEW i \in Index, NEW c \in Member \cup {Malformed}, NEW s \in Response,
               VerifyMember(i, c, s)
        PROVE  IInv'
    <2>1. CASE UNCHANGED <<fields, history>>
      BY <2>1, StutterKeeps
    <2>2. CASE phase = "Verifying" /\ i = members_verified /\ Decompresses(c)
               /\ Chain(i, c, s)
      <3>1. c \in Point /\ s \in Scalar
        BY <2>2, VerifierConstants DEF Decompresses
      <3>2. QED BY <2>2, <3>1, ChainKeeps
    <2>3. QED BY <1>2, <2>1, <2>2 DEF VerifyMember, Fails
  <1>3. CASE UNCHANGED vars
    BY <1>3, StutterKeeps DEF vars
  <1>4. QED BY <1>1, <1>2, <1>3 DEF Next

(* The invariant holds throughout every run of the verifier.               *)
THEOREM Invariance == Spec => []IInv
  <1>1. QED BY InitEstablishes, NextKeeps, PTL DEF Spec

(* The fields keep their types and the count never passes the length       *)
(* announced (streaming.rs:705-757).                                       *)
THEOREM TypeCorrect == Spec => []TypeOK
  <1>1. IInv => TypeOK
    BY DEF IInv
  <1>2. QED BY <1>1, Invariance, PTL

-----------------------------------------------------------------------------
(* The verdict in terms of the equations around the ring.                  *)
VerdictIffCloses ==
  verdict # Nil =>
    (verdict = TRUE <=> Closes(Submitted, members, ring_len, message))

(* The vector of challenges of a verifier that has decided closes the ring *)
(* exactly when the last one is the first.                                 *)
LEMMA DecidedIsClosed == IInv => VerdictIffCloses
  <1> SUFFICES ASSUME IInv, verdict # Nil
               PROVE  verdict = TRUE <=> Closes(Submitted, members, ring_len, message)
    BY DEF VerdictIffCloses
  <1> DEFINE n == ring_len
  <1>1. /\ phase = "Done" /\ members_verified = n /\ verdict = (c_current = c_0)
        /\ n \in Nat \ {0}
    BY VerifierConstants DEF IInv, PhaseInv, TypeOK, Lengths
  <1>2. /\ Submitted.challenge = c_0
        /\ Submitted.responses = responses
        /\ Submitted.key_image = key_image
    BY DEF Submitted
  <1> HIDE DEF n
  <1>3. ASSUME verdict = TRUE
        PROVE  Closes(Submitted, members, n, message)
    <2> DEFINE c == [j \in 0 .. n - 1 |-> challenges[j]]
    <2>1. /\ challenges \in Vec(n + 1, Scalar)
          /\ Follows(challenges, n) /\ challenges[n] = c_current
      BY <1>1 DEF IInv, ChainInv
    <2>2. c \in Vec(n, Scalar) /\ c[0] = c_0
      BY <1>1, <2>1 DEF Vec, Follows
    <2>3. ASSUME NEW j \in 0 .. n - 1
          PROVE  c[(j + 1) % n] = NextChallenge(message, responses[j], c[j], members[j],
                                                HashToPoint(members[j]), key_image)
      <3>1. challenges[j + 1] = NextChallenge(message, responses[j], challenges[j],
                                  members[j], HashToPoint(members[j]), key_image)
        BY <2>1 DEF Follows
      <3>2. c[j] = challenges[j]
        OBVIOUS
      <3>3. (j + 1) % n = IF j + 1 < n THEN j + 1 ELSE 0
        BY <1>1, NextIndexIs
      <3>4. c[(j + 1) % n] = challenges[j + 1]
        <4>1. CASE j + 1 < n
          BY <1>1, <3>3, <4>1
        <4>2. CASE j + 1 = n
          <5>1. challenges[n] = c_0
            BY <1>1, <1>3, <2>1
          <5>2. c[(j + 1) % n] = c[0]
            BY <3>3, <4>2
          <5>3. QED BY <2>2, <4>2, <5>1, <5>2
        <4>3. QED BY <1>1, <4>1, <4>2
      <3>5. QED BY <3>1, <3>2, <3>4
    <2> HIDE DEF c
    <2>4. QED BY <1>2, <2>2, <2>3 DEF Closes
  <1>4. ASSUME Closes(Submitted, members, n, message)
        PROVE  verdict = TRUE
    <2>1. PICK c \in Vec(n, Scalar) :
            /\ c[0] = c_0
            /\ \A j \in 0 .. n - 1 :
                 c[(j + 1) % n] = NextChallenge(message, responses[j], c[j], members[j],
                                                HashToPoint(members[j]), key_image)
      BY <1>2, <1>4 DEF Closes
    <2> DEFINE d == [j \in 0 .. n |-> IF j = n THEN c_0 ELSE c[j]]
    <2>2. c_0 \in Scalar
      BY DEF IInv, TypeOK
    <2>3. d \in Vec(n + 1, Scalar) /\ d[0] = c_0 /\ d[n] = c_0
      BY <1>1, <2>1, <2>2 DEF Vec
    <2>4. ASSUME NEW j \in 0 .. n - 1
          PROVE  d[j + 1] = NextChallenge(message, responses[j], d[j], members[j],
                                          HashToPoint(members[j]), key_image)
      <3>1. (j + 1) % n = IF j + 1 < n THEN j + 1 ELSE 0
        BY <1>1, NextIndexIs
      <3>2. d[j] = c[j]
        BY <1>1
      <3>3. d[j + 1] = c[(j + 1) % n]
        <4>1. CASE j + 1 < n
          BY <1>1, <3>1, <4>1
        <4>2. CASE j + 1 = n
          BY <1>1, <2>1, <3>1, <4>2
        <4>3. QED BY <1>1, <4>1, <4>2
      <3>4. QED BY <2>1, <3>2, <3>3
    <2> HIDE DEF d
    <2>5. Follows(d, n)
      BY <2>3, <2>4 DEF Follows
    <2>6. d[n] = c_current
      BY <1>1, <2>3, <2>5 DEF IInv, UniqueInv, n
    <2>7. QED BY <1>1, <2>3, <2>6
  <1>5. QED BY <1>3, <1>4 DEF n

(* So the verdict is that of the walk.                                     *)
LEMMA DecidedIsVerified == IInv => VerdictIsVerify
  <1> SUFFICES ASSUME IInv, verdict # Nil
               PROVE  verdict = Verify(Submitted, members, ring_len, message)
    BY DEF VerdictIsVerify
  <1> DEFINE sub == Submitted
             n == ring_len
             V == Verify(sub, members, n, message)
  <1>1. /\ phase = "Done" /\ verdict = (c_current = c_0)
        /\ n \in Nat \ {0} /\ message \in Message /\ key_image \in Point
        /\ members \in Vec(n, Point) /\ responses \in Vec(n, Scalar)
        /\ c_0 \in Scalar
    BY VerifierConstants DEF IInv, PhaseInv, ChainInv, TypeOK, Lengths
  <1>2. /\ sub.challenge = c_0
        /\ sub.responses = responses
        /\ sub.key_image = key_image
    BY DEF Submitted
  <1>3. verdict = TRUE <=> Closes(sub, members, n, message)
    BY DecidedIsClosed DEF VerdictIffCloses
  <1> HIDE DEF sub, n
  <1>4. sub.challenge \in Scalar
    BY <1>1, <1>2
  <1>5. ASSUME NEW j \in 0 .. n - 1, NEW c \in Scalar
        PROVE  NextChallenge(message, sub.responses[j], c, members[j],
                             HashToPoint(members[j]), sub.key_image) \in Scalar
    <2>1. sub.responses[j] \in Scalar /\ members[j] \in Point /\ sub.key_image \in Point
      BY <1>1, <1>2 DEF Vec
    <2> QED BY <1>1, <2>1, NextChallengeType
  <1>6. V <=> Closes(sub, members, n, message)
    BY <1>1, <1>4, <1>5, VerifyIsCloses
  <1>7. V \in BOOLEAN
    BY Zenon DEF Verify, VerifyWith
  <1> HIDE DEF V
  <1>8. verdict \in BOOLEAN
    BY <1>1, Zenon
  <1>9. verdict = V
    BY <1>3, <1>6, <1>7, <1>8, Zenon
  <1> QED BY <1>9 DEF V, sub, n

(* The verdict of a streaming verifier is that of the standard             *)
(* verification of what it was given (streaming.rs:705-757,                *)
(* verify.rs:102-163).                                                     *)
THEOREM Agreement == Spec => []VerdictIsVerify
  <1>1. QED BY Invariance, DecidedIsVerified, PTL

(* A verdict is given when the whole ring has been seen, and is final      *)
(* (streaming.rs:678-680, 711-713, 748-752).                               *)
THEOREM Finality == Spec => VerdictIsFinal
  <1> DEFINE A == /\ verdict # Nil => UNCHANGED <<verdict, fields, members, responses>>
                  /\ verdict' # verdict => DOMAIN members' = 0 .. ring_len - 1
  <1>1. IInv /\ IInv' /\ [Next]_vars => [A]_vars
    <2> SUFFICES ASSUME IInv, IInv', Next PROVE A
      OBVIOUS
    <2>1. verdict # Nil => phase = "Done"
      BY DEF IInv, PhaseInv
    <2>2. CASE UNCHANGED <<fields, history>>
      BY <2>2 DEF fields, history
    <2>3. ASSUME NEW c \in Scalar, NEW ki, NEW m, NEW n, MayStart, Begin(c, ki, m, n)
          PROVE  A
      BY <2>1, <2>3 DEF MayStart, Begin
    <2>4. ASSUME NEW P, NEW s, phase = "Verifying", Chain(members_verified, P, s)
          PROVE  A
      <3>1. verdict = Nil
        BY <2>1, <2>4
      <3>2. members_verified \in Nat /\ ring_len \in Nat
        BY VerifierConstants DEF IInv, TypeOK
      <3>3. verdict' # verdict => members_verified + 1 = ring_len
        BY <2>4 DEF Chain, IsLast
      <3>4. DOMAIN members' = 0 .. members_verified
        BY <2>4 DEF Chain
      <3>5. QED BY <3>1, <3>2, <3>3, <3>4
    <2>5. QED BY <2>2, <2>3, <2>4 DEF Next, InitVerifier, VerifyMember, Fails
  <1>2. QED BY <1>1, Invariance, PTL DEF Spec, VerdictIsFinal

-----------------------------------------------------------------------------
(* The call of verify_streaming that drives the verifier.                  *)
(* The arguments of the call.                                              *)
Given ==
  /\ len \in 0 .. MaxRing
  /\ ring \in Vec(len, Member \cup {Malformed})
  /\ signed \in Message
  /\ \E c \in Scalar, n \in 0 .. MaxRing, ki \in KeyImages : \E rs \in Vec(n, Response) :
       /\ sig = [challenge |-> c, responses |-> rs, key_image |-> ki]
       /\ ResponseCount = n

(* How far the verifier is when the call is at a statement.                *)
Walking ==
  /\ phase = "Verifying"
  /\ ring_len = len
  /\ c_0 = sig.challenge
  /\ key_image = sig.key_image
  /\ message = signed
  /\ members_verified = step
  /\ step \in 0 .. len - 1
  /\ \A i \in 0 .. step - 1 :
       members[i] = ring[i] /\ responses[i] = sig.responses[i] /\ ring[i] \in Point

VerifierFollows ==
  /\ pc \in {"check_length", "init", "verify", "returned"}
  /\ pc \in {"check_length", "init"} => phase = "Idle" /\ step = 0
  /\ pc \in {"init", "verify"} => ResponseCount = len
  /\ pc = "verify" => Walking
  /\ pc # "returned" => returned = Nil
  /\ pc = "returned" => returned \in BOOLEAN

CallInv == IInv /\ Given /\ VerifierFollows /\ ReturnsVerify

(* The length of a vector.                                                 *)
LEMMA Counting ==
  ASSUME NEW n \in Nat, NEW S, NEW f \in Vec(n, S)
  PROVE  Cardinality(DOMAIN f) = n
  <1>1. DOMAIN f = 0 .. n - 1
    BY DEF Vec
  <1>2. Cardinality(0 .. n - 1) = n
    BY FS_Interval
  <1>3. QED BY <1>1, <1>2

(* A call begins with a verifier of its own and any arguments.             *)
LEMMA CallBegins == CallInit => CallInv
  <1> SUFFICES ASSUME CallInit PROVE CallInv
    OBVIOUS
  <1>1. IInv /\ phase = "Idle"
    <2>1. Init
      BY DEF CallInit
    <2>2. QED BY <2>1, InitEstablishes DEF Init
  <1>2. len \in 0 .. MaxRing /\ ring \in Vec(len, Member \cup {Malformed})
    <2>1. PICK n \in 0 .. MaxRing : ring \in Vec(n, Member \cup {Malformed})
      BY DEF CallInit, SortedRings
    <2>2. len = n
      BY <2>1, VerifierConstants, Counting DEF CallInit
    <2>3. QED BY <2>1, <2>2
  <1>3. \E c \in Scalar, n \in 0 .. MaxRing, ki \in KeyImages : \E rs \in Vec(n, Response) :
          /\ sig = [challenge |-> c, responses |-> rs, key_image |-> ki]
          /\ ResponseCount = n
    <2>1. PICK c \in Scalar, n \in 0 .. MaxRing, ki \in KeyImages :
            \E rs \in Vec(n, Response) :
              sig = [challenge |-> c, responses |-> rs, key_image |-> ki]
      BY DEF CallInit
    <2>2. PICK rs \in Vec(n, Response) :
            sig = [challenge |-> c, responses |-> rs, key_image |-> ki]
      BY <2>1
    <2>3. sig.responses = rs /\ n \in Nat
      BY <2>2, VerifierConstants
    <2>4. ResponseCount = n
      BY <2>2, <2>3, Counting DEF ResponseCount
    <2>5. QED BY <2>2, <2>4
  <1>4. Given
    BY <1>2, <1>3 DEF Given, CallInit
  <1>5. VerifierFollows /\ ReturnsVerify
    BY <1>1 DEF VerifierFollows, ReturnsVerify, CallInit
  <1>6. QED BY <1>1, <1>4, <1>5 DEF CallInv

(* What Given says of the signature.                                       *)
LEMMA SignatureIs ==
  ASSUME Given
  PROVE  /\ sig.challenge \in Scalar
         /\ sig.key_image \in KeyImages
         /\ ResponseCount \in 0 .. MaxRing
         /\ sig.responses \in Vec(ResponseCount, Response)
         /\ sig = [challenge |-> sig.challenge, responses |-> sig.responses,
                   key_image |-> sig.key_image]
  <1>1. PICK c \in Scalar, n \in 0 .. MaxRing, ki \in KeyImages :
          \E rs \in Vec(n, Response) :
            /\ sig = [challenge |-> c, responses |-> rs, key_image |-> ki]
            /\ ResponseCount = n
    BY DEF Given
  <1>2. PICK rs \in Vec(n, Response) :
          /\ sig = [challenge |-> c, responses |-> rs, key_image |-> ki]
          /\ ResponseCount = n
    BY <1>1
  <1>3. sig.challenge = c /\ sig.responses = rs /\ sig.key_image = ki
    BY <1>2
  <1>4. QED BY <1>1, <1>2, <1>3

(* The arguments stay.                                                     *)
LEMMA GivenStays ==
  ASSUME Given, UNCHANGED arguments
  PROVE  Given' /\ ResponseCount' = ResponseCount
  BY DEF Given, arguments, ResponseCount

(* The value returned when the call returns without a verdict.             *)
LEMMA ReturnsFalse ==
  ASSUME Return(FALSE), UNCHANGED arguments,
         \/ len = 0
         \/ ResponseCount # len
         \/ \E i \in DOMAIN ring : ring[i] \notin Point
  PROVE  ReturnsVerify' /\ returned' \in BOOLEAN /\ pc' = "returned"
  <1>1. pc' = "returned" /\ returned' = FALSE
    BY DEF Return
  <1>2. ring' = ring /\ len' = len /\ ResponseCount' = ResponseCount
    BY DEF arguments, ResponseCount
  <1>3. CASE len = 0
    BY <1>1, <1>2, <1>3 DEF ReturnsVerify
  <1>4. CASE ResponseCount # len
    BY <1>1, <1>2, <1>4 DEF ReturnsVerify
  <1>5. CASE \E i \in DOMAIN ring : ring[i] \notin Point
    <2>1. ~(\A i \in DOMAIN ring' : Decompresses(ring'[i]))
      BY <1>2, <1>5 DEF Decompresses
    <2>2. QED BY <1>1, <2>1 DEF ReturnsVerify
  <1>6. QED BY <1>3, <1>4, <1>5

(* The guard on the lengths.                                               *)
LEMMA CheckLengthKeeps ==
  ASSUME CallInv, CheckLength
  PROVE  CallInv'
  <1>1. /\ pc = "check_length" /\ UNCHANGED arguments /\ step' = step
        /\ phase' = phase
    BY DEF CheckLength, vars, fields
  <1>2. IInv'
    <2>1. UNCHANGED <<fields, history>>
      BY DEF CheckLength, vars, fields, history
    <2>2. QED BY <2>1, StutterKeeps DEF CallInv
  <1>3. Given' /\ ResponseCount' = ResponseCount
    BY <1>1, GivenStays DEF CallInv
  <1>4. phase = "Idle" /\ step = 0 /\ returned = Nil
    BY <1>1 DEF CallInv, VerifierFollows
  <1>5. CASE ResponseCount # len /\ Return(FALSE)
    <2>1. ReturnsVerify' /\ returned' \in BOOLEAN /\ pc' = "returned"
      BY <1>1, <1>5, ReturnsFalse
    <2>2. VerifierFollows'
      BY <2>1 DEF VerifierFollows
    <2>3. QED BY <1>2, <1>3, <2>1, <2>2 DEF CallInv
  <1>6. CASE ResponseCount = len /\ pc' = "init" /\ UNCHANGED returned
    <2>1. len' = len
      BY <1>1 DEF arguments
    <2>2. VerifierFollows' /\ ReturnsVerify'
      BY <1>1, <1>3, <1>4, <1>6, <2>1 DEF VerifierFollows, ReturnsVerify
    <2>3. QED BY <1>2, <1>3, <2>2 DEF CallInv
  <1>7. QED BY <1>5, <1>6 DEF CheckLength, RightLength

(* The call of init: it fails exactly on the empty ring.                   *)
LEMMA InitVerifierKeeps ==
  ASSUME CallInv, CallInitVerifier
  PROVE  CallInv'
  <1>1. /\ pc = "init" /\ UNCHANGED arguments /\ step' = step
        /\ InitVerifier(sig.challenge, sig.key_image, signed, len)
    BY DEF CallInitVerifier
  <1>2. /\ phase = "Idle" /\ step = 0 /\ returned = Nil /\ ResponseCount = len
        /\ Given /\ IInv
    BY <1>1 DEF CallInv, VerifierFollows
  <1>3. /\ sig.challenge \in Scalar /\ sig.key_image \in KeyImages \cup {Malformed}
        /\ sig.key_image \in Point /\ signed \in Message /\ len \in 0 .. MaxRing
    BY <1>2, SignatureIs, VerifierConstants DEF Given
  <1>4. IInv'
    <2>1. Next
      BY <1>1, <1>3 DEF Next
    <2>2. QED BY <1>2, <2>1, NextKeeps
  <1>5. Given' /\ ResponseCount' = ResponseCount
    BY <1>1, <1>2, GivenStays
  <1>6. MayStart /\ Decompresses(sig.key_image)
    BY <1>2, <1>3 DEF MayStart, Decompresses
  <1>7. CASE len = 0
    <2>1. result' # "Ok"
      BY <1>1, <1>6, <1>7 DEF InitVerifier, Fails
    <2>2. Return(FALSE)
      BY <2>1 DEF CallInitVerifier
    <2>3. ReturnsVerify' /\ returned' \in BOOLEAN /\ pc' = "returned"
      BY <1>1, <1>7, <2>2, ReturnsFalse
    <2>4. VerifierFollows'
      BY <2>3 DEF VerifierFollows
    <2>5. QED BY <1>4, <1>5, <2>3, <2>4 DEF CallInv
  <1>8. CASE len # 0
    <2>1. Begin(sig.challenge, sig.key_image, signed, len)
      BY <1>1, <1>6, <1>8 DEF InitVerifier
    <2>2. result' = "Ok"
      BY <2>1 DEF Begin
    <2>3. pc' = "verify" /\ returned' = Nil
      BY <1>2, <2>2 DEF CallInitVerifier
    <2>4. len' = len /\ sig' = sig /\ signed' = signed /\ ring' = ring
      BY <1>1 DEF arguments
    <2>5. Walking'
      BY <1>1, <1>2, <1>3, <1>8, <2>1, <2>4, VerifierConstants DEF Walking, Begin
    <2>6. VerifierFollows' /\ ReturnsVerify'
      BY <1>2, <1>5, <2>3, <2>4, <2>5 DEF VerifierFollows, ReturnsVerify
    <2>7. QED BY <1>4, <1>5, <2>6 DEF CallInv
  <1>9. QED BY <1>7, <1>8

(* The last member: what was submitted is the signature and the ring of    *)
(* the call, and the verdict is returned.                                  *)
LEMMA LastMember ==
  ASSUME Given, ResponseCount = len, UNCHANGED arguments,
         IInv', VerdictIsVerify', len # 0,
         phase' = "Done", ring_len' = len, c_0' = sig.challenge,
         key_image' = sig.key_image, message' = signed,
         \A i \in 0 .. len - 1 :
           members'[i] = ring[i] /\ responses'[i] = sig.responses[i] /\ ring[i] \in Point,
         Return(verdict')
  PROVE  ReturnsVerify' /\ returned' \in BOOLEAN /\ pc' = "returned"
  <1>1. pc' = "returned" /\ returned' = verdict'
    BY DEF Return
  <1>2. len \in Nat /\ ring \in Vec(len, Member \cup {Malformed})
    BY VerifierConstants DEF Given
  <1>3. verdict' = (c_current' = c_0') /\ members_verified' = len
    BY DEF IInv, PhaseInv
  <1>4. verdict' \in BOOLEAN
    BY <1>3, Zenon
  <1>5. members' \in Vec(len, Point) /\ responses' \in Vec(len, Scalar)
    BY <1>3 DEF IInv, ChainInv
  <1>6. members' = ring
    BY <1>2, <1>5 DEF Vec
  <1>7. sig.responses \in Vec(len, Response)
    BY SignatureIs
  <1>8. responses' = sig.responses
    BY <1>2, <1>5, <1>7 DEF Vec
  <1>9. Submitted' = sig
    <2>1. Submitted' = [challenge |-> sig.challenge, responses |-> sig.responses,
                        key_image |-> sig.key_image]
      BY <1>8 DEF Submitted
    <2>2. QED BY <2>1, SignatureIs
  <1>10. verdict' = Verify(sig, ring, len, signed)
    <2>1. verdict' # Nil
      BY <1>4, VerifierConstants
    <2>2. verdict' = Verify(Submitted', members', ring_len', message')
      BY <2>1 DEF VerdictIsVerify
    <2>3. QED BY <1>6, <1>9, <2>2
  <1>11. \A i \in DOMAIN ring : ring[i] \in Point
    BY <1>2 DEF Vec
  <1>12. /\ ring' = ring /\ len' = len /\ sig' = sig /\ signed' = signed
         /\ ResponseCount' = len
    BY DEF arguments, ResponseCount
  <1>13. returned' = Verify(sig', ring', len', signed')
    BY <1>1, <1>10, <1>12
  <1>14. \A i \in DOMAIN ring' : Decompresses(ring'[i])
    BY <1>11, <1>12 DEF Decompresses
  <1>15. ReturnsVerify'
    <2>1. returned' = TRUE \/ returned' = FALSE
      BY <1>1, <1>4
    <2>2. CASE returned' = TRUE
      <3>1. Verify(sig', ring', len', signed')
        BY <1>13, <2>2
      <3>2. QED BY <1>12, <1>14, <2>2, <3>1 DEF ReturnsVerify
    <2>3. CASE returned' = FALSE
      <3>1. ~Verify(sig', ring', len', signed')
        BY <1>13, <2>3
      <3>2. QED BY <2>3, <3>1 DEF ReturnsVerify
    <2>4. QED BY <2>1, <2>2, <2>3
  <1>16. QED BY <1>1, <1>4, <1>15

(* A turn of the loop: the member is no point and the call returns, or the *)
(* verifier takes it, and after the last one the verdict is returned.      *)
LEMMA VerifyMemberKeeps ==
  ASSUME CallInv, CallVerifyMember
  PROVE  CallInv'
  <1> DEFINE c == ring[step]
             s == sig.responses[step]
  <1>1. /\ pc = "verify" /\ UNCHANGED arguments
        /\ VerifyMember(step, c, s)
    BY DEF CallVerifyMember
  <1>2. /\ Walking /\ returned = Nil /\ ResponseCount = len
        /\ Given /\ IInv
    BY <1>1 DEF CallInv, VerifierFollows
  <1>3. /\ len \in Nat /\ step \in 0 .. len - 1 /\ step \in Nat /\ len <= MaxRing
        /\ len # 0 /\ step \in Index
    BY <1>2, VerifierConstants DEF Given, Walking, Index
  <1>4. c \in Member \cup {Malformed} /\ s \in Response
    <2>1. sig.responses \in Vec(len, Response)
      BY <1>2, SignatureIs
    <2>2. QED BY <1>2, <1>3, <2>1 DEF Given, Vec
  <1>5. IInv' /\ VerdictIsVerify'
    <2>1. Next
      BY <1>1, <1>3, <1>4 DEF Next
    <2>2. IInv'
      BY <1>2, <2>1, NextKeeps
    <2>3. (IInv => VerdictIsVerify)'
      BY DecidedIsVerified, PTL
    <2>4. QED BY <2>2, <2>3
  <1>6. Given' /\ ResponseCount' = ResponseCount
    BY <1>1, <1>2, GivenStays
  <1>7. phase = "Verifying" /\ step = members_verified
    BY <1>2 DEF Walking
  <1>8. CASE c \notin Point
    <2>1. result' = "InvalidPoint"
      BY <1>1, <1>7, <1>8 DEF VerifyMember, Fails, Decompresses
    <2>2. Return(FALSE)
      BY <2>1 DEF CallVerifyMember, Rejected
    <2>3. \E i \in DOMAIN ring : ring[i] \notin Point
      BY <1>2, <1>3, <1>8 DEF Given, Vec
    <2>4. ReturnsVerify' /\ returned' \in BOOLEAN /\ pc' = "returned"
      BY <1>1, <2>2, <2>3, ReturnsFalse
    <2>5. VerifierFollows'
      BY <2>4 DEF VerifierFollows
    <2>6. QED BY <1>5, <1>6, <2>4, <2>5 DEF CallInv
  <1>9. CASE c \in Point
    <2>1. Chain(step, c, s)
      BY <1>1, <1>7, <1>9 DEF VerifyMember, Decompresses
    <2>2. /\ members_verified' = step + 1
          /\ ring_len' = len /\ c_0' = sig.challenge /\ key_image' = sig.key_image
          /\ message' = signed
      BY <1>2, <2>1 DEF Chain, Walking
    <2>3. members'[step] = c /\ responses'[step] = s
      BY <1>3, <2>1 DEF Chain
    <2>4. \A i \in 0 .. step - 1 : members'[i] = members[i] /\ responses'[i] = responses[i]
      BY <1>3, <2>1 DEF Chain
    <2>5. \A i \in 0 .. step :
            members'[i] = ring[i] /\ responses'[i] = sig.responses[i] /\ ring[i] \in Point
      <3>1. \A i \in 0 .. step - 1 :
              members[i] = ring[i] /\ responses[i] = sig.responses[i] /\ ring[i] \in Point
        BY <1>2 DEF Walking
      <3>2. 0 .. step = (0 .. step - 1) \cup {step}
        BY <1>3
      <3>3. QED BY <1>9, <2>3, <2>4, <3>1, <3>2
    <2>6. CASE result' = "Complete"
      <3>1. phase' = "Done" /\ step + 1 = len /\ Return(verdict')
        BY <1>2, <1>7, <2>1, <2>6 DEF Chain, IsLast, Walking, CallVerifyMember, Verdict
      <3>2. \A i \in 0 .. len - 1 :
              members'[i] = ring[i] /\ responses'[i] = sig.responses[i] /\ ring[i] \in Point
        BY <1>3, <2>5, <3>1
      <3>3. ReturnsVerify' /\ returned' \in BOOLEAN /\ pc' = "returned"
        BY <1>1, <1>2, <1>3, <1>5, <2>2, <3>1, <3>2, LastMember
      <3>4. VerifierFollows'
        BY <3>3 DEF VerifierFollows
      <3>5. QED BY <1>5, <1>6, <3>3, <3>4 DEF CallInv
    <2>7. CASE result' = "Ack"
      <3>1. phase' = "Verifying" /\ step + 1 # len
        BY <1>2, <1>7, <2>1, <2>7 DEF Chain, IsLast, Walking
      <3>2. step' = step + 1 /\ pc' = "verify" /\ returned' = Nil
        BY <1>1, <1>2, <2>7 DEF CallVerifyMember
      <3>3. len' = len /\ sig' = sig /\ signed' = signed /\ ring' = ring
        BY <1>1 DEF arguments
      <3>4. step' \in 0 .. len' - 1 /\ 0 .. step' - 1 = 0 .. step
        BY <1>3, <3>1, <3>2, <3>3
      <3>5. Walking'
        BY <2>2, <2>5, <3>1, <3>2, <3>3, <3>4 DEF Walking
      <3>6. VerifierFollows' /\ ReturnsVerify'
        BY <1>2, <1>6, <3>2, <3>3, <3>5 DEF VerifierFollows, ReturnsVerify
      <3>7. QED BY <1>5, <1>6, <3>6 DEF CallInv
    <2>8. result' \in {"Complete", "Ack"}
      BY <2>1 DEF Chain
    <2>9. QED BY <2>6, <2>7, <2>8
  <1>10. QED BY <1>8, <1>9

(* Where the verifier is at each statement of the call that drives it      *)
(* (streaming_wrappers.rs:147-179).                                        *)
THEOREM CallInvariance == CallSpec => []CallInv
  <1>1. CallInv /\ [CallNext]_callVars => CallInv'
    <2> SUFFICES ASSUME CallInv, [CallNext]_callVars PROVE CallInv'
      OBVIOUS
    <2>1. CASE UNCHANGED callVars
      <3>1. UNCHANGED <<fields, history>> /\ UNCHANGED arguments
            /\ UNCHANGED <<pc, step, returned, phase>>
        BY <2>1 DEF callVars, vars, fields, history
      <3>2. IInv'
        BY <3>1, StutterKeeps DEF CallInv
      <3>3. Given' /\ ResponseCount' = ResponseCount
        BY <3>1, GivenStays DEF CallInv
      <3>4. VerifierFollows' /\ ReturnsVerify'
        BY <3>1, <3>3 DEF CallInv, VerifierFollows, Walking, ReturnsVerify,
                          arguments, fields, history
      <3>5. QED BY <3>2, <3>3, <3>4 DEF CallInv
    <2>2. QED BY <2>1, CheckLengthKeeps, InitVerifierKeeps, VerifyMemberKeeps DEF CallNext
  <1>2. QED BY <1>1, CallBegins, PTL DEF CallSpec

(* The walk never runs past the ring: the return after the loop is not     *)
(* reached (streaming_wrappers.rs:176-177).                                *)
THEOREM CallTypes == CallSpec => []CallTypeOK
  <1>1. CallInv => CallTypeOK
    <2> SUFFICES ASSUME CallInv PROVE CallTypeOK
      OBVIOUS
    <2>1. /\ pc \in {"check_length", "init", "verify", "returned"}
          /\ pc = "verify" => step \in 0 .. len - 1
      BY DEF CallInv, VerifierFollows, Walking
    <2>2. returned \in BOOLEAN <=> pc = "returned"
      BY VerifierConstants DEF CallInv, VerifierFollows
    <2>3. QED BY <2>1, <2>2 DEF CallTypeOK
  <1>2. QED BY <1>1, CallInvariance, PTL

(* verify_streaming returns true exactly for a signature with as many      *)
(* responses as the ring has members, all of them points, that one-shot    *)
(* verification accepts over a ring that is not empty                      *)
(* (streaming_wrappers.rs:147-179, verify.rs:101-164).                     *)
THEOREM CallVerdict == CallSpec => []ReturnsVerify
  <1>1. CallInv => ReturnsVerify
    BY DEF CallInv
  <1>2. QED BY <1>1, CallInvariance, PTL
=============================================================================
