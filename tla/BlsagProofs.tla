---------------------------- MODULE BlsagProofs ----------------------------
(***************************************************************************)
(* What the recursive definitions of Blsag compute, for every length of a  *)
(* ring: the walk of Verify exists, is unique, and succeeds exactly when   *)
(* the signature Closes the ring; and what SignWith makes closes it.       *)
(*                                                                         *)
(* A walk is a function on 0 .. n whose value at j + 1 is given by a       *)
(* function F[j] of the value at j.  Induction over the naturals is used   *)
(* for sets of them: a set that has 0 and the successor of each of its     *)
(* members has every natural, since there is no smallest one outside it.   *)
(***************************************************************************)
EXTENDS Blsag, WellFoundedInduction, TLAPS

(* A set with zero and all successors has every natural.                   *)
LEMMA SetInduction ==
  ASSUME NEW S, 0 \in S, \A n \in Nat : n \in S => n + 1 \in S
  PROVE  Nat \subseteq S
  <1> DEFINE T == Nat \ S
             R == OpToRel(<, Nat)
  <1>1. IsWellFoundedOn(R, Nat)
    BY NatLessThanWellFounded
  <1>2. \A x, y \in Nat : x < y => <<x, y>> \in R
    BY DEF OpToRel
  <1> HIDE DEF R
  <1> SUFFICES ASSUME T # {} PROVE FALSE
    OBVIOUS
  <1>3. PICK x \in T : \A y \in T : ~ (<<y, x>> \in R)
    BY <1>1, WFMin
  <1>4. x # 0
    OBVIOUS
  <1>5. x - 1 \in T
    BY <1>4
  <1>6. x - 1 < x /\ x \in Nat /\ x - 1 \in Nat
    BY <1>5
  <1>7. QED BY <1>2, <1>3, <1>5, <1>6

(* A walk from x0 by F, k steps of it.                                     *)
Walks(g, k, x0, F) ==
  /\ g[0] = x0
  /\ \A j \in 0 .. k - 1 : g[j + 1] = F[j][g[j]]

(* There is a walk of every length.                                        *)
LEMMA WalkExists ==
  ASSUME NEW n \in Nat, NEW X, NEW x0 \in X, NEW F \in [0 .. n - 1 -> [X -> X]]
  PROVE  \E g \in [0 .. n -> X] : Walks(g, n, x0, F)
  <1> DEFINE S == {k \in Nat : k <= n => \E g \in [0 .. k -> X] : Walks(g, k, x0, F)}
  <1>1. 0 \in S
    <2> DEFINE g == [j \in 0 .. 0 |-> x0]
    <2>1. g \in [0 .. 0 -> X] /\ Walks(g, 0, x0, F)
      BY DEF Walks
    <2> QED BY <2>1
  <1>2. ASSUME NEW k \in Nat, k \in S PROVE k + 1 \in S
    <2> SUFFICES ASSUME k + 1 <= n
                 PROVE  \E g \in [0 .. k + 1 -> X] : Walks(g, k + 1, x0, F)
      OBVIOUS
    <2>1. PICK g \in [0 .. k -> X] : Walks(g, k, x0, F)
      BY <1>2
    <2> DEFINE h == [j \in 0 .. k + 1 |-> IF j = k + 1 THEN F[k][g[k]] ELSE g[j]]
    <2>2. F[k] \in [X -> X] /\ g[k] \in X
      OBVIOUS
    <2>3. h \in [0 .. k + 1 -> X]
      BY <2>2
    <2>4. h[0] = x0
      BY <2>1 DEF Walks
    <2>5. ASSUME NEW j \in 0 .. k PROVE h[j + 1] = F[j][h[j]]
      <3>1. CASE j = k
        BY <3>1
      <3>2. CASE j < k
        <4>1. h[j] = g[j] /\ h[j + 1] = g[j + 1]
          BY <3>2
        <4>2. g[j + 1] = F[j][g[j]]
          BY <2>1, <3>2 DEF Walks
        <4> QED BY <4>1, <4>2
      <3> QED BY <3>1, <3>2
    <2> HIDE DEF h
    <2>6. Walks(h, k + 1, x0, F)
      BY <2>4, <2>5 DEF Walks
    <2> QED BY <2>3, <2>6
  <1> HIDE DEF S
  <1>3. n \in S
    BY <1>1, <1>2, SetInduction
  <1> QED BY <1>3 DEF S

(* There is only one.                                                      *)
LEMMA WalkUnique ==
  ASSUME NEW n \in Nat, NEW x0, NEW F, NEW g, NEW h,
         Walks(g, n, x0, F), Walks(h, n, x0, F)
  PROVE  \A j \in 0 .. n : g[j] = h[j]
  <1> DEFINE S == {k \in Nat : k <= n => g[k] = h[k]}
  <1>1. 0 \in S
    BY DEF Walks
  <1>2. ASSUME NEW k \in Nat, k \in S PROVE k + 1 \in S
    <2> SUFFICES ASSUME k + 1 <= n PROVE g[k + 1] = h[k + 1]
      OBVIOUS
    <2>1. g[k] = h[k]
      BY <1>2
    <2>2. g[k + 1] = F[k][g[k]] /\ h[k + 1] = F[k][h[k]]
      BY DEF Walks
    <2> QED BY <2>1, <2>2
  <1> HIDE DEF S
  <1>3. Nat \subseteq S
    BY <1>1, <1>2, SetInduction
  <1> QED BY <1>3 DEF S

-----------------------------------------------------------------------------
(* The walk of VerifyWith: the vector of its challenges, and its verdict.  *)
HasWalk(sig, ring, n, hp, m) ==
  \E c \in Vec(n + 1, Scalar) :
    /\ c[0] = sig.challenge
    /\ \A j \in 0 .. n - 1 :
         c[j + 1] = NextChallenge(m, sig.responses[j], c[j], ring[j], hp[j],
                                  sig.key_image)
    /\ VerifyWith(sig, ring, n, hp, m) <=> c[n] = sig.challenge

(* Every challenge of a walk is a scalar.                                  *)
WalkTyped(sig, ring, n, hp, m) ==
  /\ sig.challenge \in Scalar
  /\ \A j \in 0 .. n - 1, c \in Scalar :
       NextChallenge(m, sig.responses[j], c, ring[j], hp[j], sig.key_image) \in Scalar

(* The function that verify defines recursively is a walk.                 *)
LEMMA VerifyWithWalk ==
  ASSUME NEW n \in Nat, NEW sig, NEW ring, NEW hp, NEW m,
         WalkTyped(sig, ring, n, hp, m)
  PROVE  HasWalk(sig, ring, n, hp, m)
  <1> DEFINE next(j, c) == NextChallenge(m, sig.responses[j], c, ring[j], hp[j],
                                         sig.key_image)
             body(f) == [j \in 0 .. n |-> IF j = 0 THEN sig.challenge
                                           ELSE next(j - 1, f[j - 1])]
             w == CHOOSE f : f = body(f)
             F == [j \in 0 .. n - 1 |-> [c \in Scalar |-> next(j, c)]]
  <1>1. VerifyWith(sig, ring, n, hp, m) <=> w[n] = sig.challenge
    BY DEF VerifyWith
  <1>2. sig.challenge \in Scalar /\ F \in [0 .. n - 1 -> [Scalar -> Scalar]]
    BY DEF WalkTyped
  <1>3. PICK g \in [0 .. n -> Scalar] : Walks(g, n, sig.challenge, F)
    BY <1>2, WalkExists
  <1> HIDE DEF next, w
  <1>4. ASSUME NEW j \in 0 .. n - 1 PROVE g[j + 1] = next(j, g[j])
    <2>1. g[j] \in Scalar /\ F[j] = [c \in Scalar |-> next(j, c)]
      OBVIOUS
    <2>2. F[j][g[j]] = next(j, g[j])
      BY <2>1
    <2> HIDE DEF F
    <2>3. g[j + 1] = F[j][g[j]]
      BY <1>3 DEF Walks
    <2> QED BY <2>2, <2>3
  <1>5. g = body(g)
    <2>1. ASSUME NEW j \in 0 .. n PROVE g[j] = body(g)[j]
      <3>1. CASE j = 0
        BY <1>3, <3>1 DEF Walks
      <3>2. CASE j # 0
        <4>1. j - 1 \in 0 .. n - 1 /\ (j - 1) + 1 = j
          BY <3>2
        <4>2. g[(j - 1) + 1] = next(j - 1, g[j - 1])
          BY <1>4, <4>1
        <4> QED BY <3>2, <4>1, <4>2
      <3> QED BY <3>1, <3>2
    <2> QED BY <2>1
  <1>6. w = body(w)
    <2> HIDE DEF body
    <2> QED BY <1>5, Zenon DEF w
  <1>7. w[0] = sig.challenge
    BY <1>6
  <1>8. ASSUME NEW j \in 0 .. n - 1 PROVE w[j + 1] = next(j, w[j])
    <2>1. j + 1 \in 0 .. n /\ j + 1 # 0 /\ (j + 1) - 1 = j
      OBVIOUS
    <2> QED BY <1>6, <2>1
  <1> HIDE DEF body
  <1> DEFINE S == {k \in Nat : k <= n => w[k] = g[k]}
  <1>9. 0 \in S
    BY <1>3, <1>7 DEF Walks
  <1>10. ASSUME NEW k \in Nat, k \in S PROVE k + 1 \in S
    <2> SUFFICES ASSUME k + 1 <= n PROVE w[k + 1] = g[k + 1]
      OBVIOUS
    <2>1. w[k] = g[k] /\ k \in 0 .. n - 1
      BY <1>10
    <2> QED BY <1>4, <1>8, <2>1
  <1>11. n \in S
    <2> HIDE DEF S
    <2> QED BY <1>9, <1>10, SetInduction
  <1>12. w[n] = g[n]
    BY <1>11
  <1>13. g \in Vec(n + 1, Scalar)
    BY DEF Vec
  <1>14. g[0] = sig.challenge
    BY <1>3 DEF Walks
  <1> QED BY <1>1, <1>4, <1>12, <1>13, <1>14 DEF next, HasWalk

(* The index after an index, around the ring.                              *)
LEMMA NextIndexIs ==
  ASSUME NEW n \in Nat \ {0}, NEW j \in 0 .. n - 1
  PROVE  (j + 1) % n = IF j + 1 < n THEN j + 1 ELSE 0
  OBVIOUS

(* The walk of Verify succeeds exactly on the signatures that close the    *)
(* ring (verify.rs:102-163), for a ring of any length but zero.            *)
THEOREM VerifyIsCloses ==
  ASSUME NEW n \in Nat \ {0}, NEW sig, NEW ring, NEW m,
         sig.challenge \in Scalar,
         \A j \in 0 .. n - 1, c \in Scalar :
           NextChallenge(m, sig.responses[j], c, ring[j], HashToPoint(ring[j]),
                         sig.key_image) \in Scalar
  PROVE  Verify(sig, ring, n, m) <=> Closes(sig, ring, n, m)
  <1> DEFINE next(j, c) == NextChallenge(m, sig.responses[j], c, ring[j],
                                         HashToPoint(ring[j]), sig.key_image)
             c0 == sig.challenge
             hp == HashedPoints(ring, n)
             F == [j \in 0 .. n - 1 |-> [c \in Scalar |-> next(j, c)]]
  <1>1. /\ c0 \in Scalar
        /\ \A j \in 0 .. n - 1, c \in Scalar : next(j, c) \in Scalar
    OBVIOUS
  <1>2. \A j \in 0 .. n - 1 : hp[j] = HashToPoint(ring[j])
    BY DEF HashedPoints
  <1>3. \A j \in 0 .. n - 1, c \in Scalar :
          NextChallenge(m, sig.responses[j], c, ring[j], hp[j], sig.key_image) = next(j, c)
    BY <1>2
  <1>4. Verify(sig, ring, n, m) <=> VerifyWith(sig, ring, n, hp, m)
    BY DEF Verify
  <1>5. Closes(sig, ring, n, m) <=>
          \E c \in Vec(n, Scalar) :
            /\ c[0] = c0
            /\ \A j \in 0 .. n - 1 : c[(j + 1) % n] = next(j, c[j])
    BY DEF Closes
  <1> HIDE DEF next, hp, c0
  <1>6. PICK c \in Vec(n + 1, Scalar) :
          /\ c[0] = c0
          /\ \A j \in 0 .. n - 1 : c[j + 1] = next(j, c[j])
          /\ VerifyWith(sig, ring, n, hp, m) <=> c[n] = c0
    <2>1. WalkTyped(sig, ring, n, hp, m)
      BY <1>1, <1>3 DEF WalkTyped, c0
    <2>2. HasWalk(sig, ring, n, hp, m)
      BY <2>1, VerifyWithWalk
    <2>3. PICK c \in Vec(n + 1, Scalar) :
            /\ c[0] = c0
            /\ \A j \in 0 .. n - 1 :
                 c[j + 1] = NextChallenge(m, sig.responses[j], c[j], ring[j], hp[j],
                                          sig.key_image)
            /\ VerifyWith(sig, ring, n, hp, m) <=> c[n] = c0
      BY <2>2 DEF c0, HasWalk
    <2>4. \A j \in 0 .. n - 1 : c[j] \in Scalar
      BY DEF Vec
    <2>5. \A j \in 0 .. n - 1 : c[j + 1] = next(j, c[j])
      BY <1>3, <2>3, <2>4
    <2> QED BY <2>3, <2>5
  <1>7. ASSUME c[n] = c0 PROVE Closes(sig, ring, n, m)
    <2> DEFINE d == [j \in 0 .. n - 1 |-> c[j]]
    <2>1. d \in Vec(n, Scalar) /\ d[0] = c0
      BY <1>6 DEF Vec
    <2>2. ASSUME NEW j \in 0 .. n - 1 PROVE d[(j + 1) % n] = next(j, d[j])
      <3>1. (j + 1) % n = IF j + 1 < n THEN j + 1 ELSE 0
        BY NextIndexIs
      <3>2. d[(j + 1) % n] = c[j + 1]
        <4>1. CASE j + 1 < n
          BY <3>1, <4>1
        <4>2. CASE j + 1 = n
          BY <1>7, <2>1, <3>1, <4>2
        <4> QED BY <4>1, <4>2
      <3>3. d[j] = c[j]
        OBVIOUS
      <3> QED BY <1>6, <3>2, <3>3
    <2> HIDE DEF d
    <2> QED BY <1>5, <2>1, <2>2
  <1>8. ASSUME Closes(sig, ring, n, m) PROVE c[n] = c0
    <2>1. PICK d \in Vec(n, Scalar) :
            /\ d[0] = c0
            /\ \A j \in 0 .. n - 1 : d[(j + 1) % n] = next(j, d[j])
      BY <1>5, <1>8
    <2> DEFINE e == [j \in 0 .. n |-> IF j = n THEN c0 ELSE d[j]]
    <2>2. e[0] = c0 /\ e[n] = c0
      BY <2>1
    <2>3. \A j \in 0 .. n - 1 : e[j] = d[j] /\ d[j] \in Scalar
      BY DEF Vec
    <2>4. ASSUME NEW j \in 0 .. n - 1 PROVE e[j + 1] = next(j, e[j])
      <3>1. (j + 1) % n = IF j + 1 < n THEN j + 1 ELSE 0
        BY NextIndexIs
      <3>2. e[j + 1] = d[(j + 1) % n]
        <4>1. CASE j + 1 < n
          BY <3>1, <4>1
        <4>2. CASE j + 1 = n
          BY <2>1, <3>1, <4>2
        <4> QED BY <4>1, <4>2
      <3> QED BY <2>1, <2>3, <3>2
    <2> HIDE DEF e
    <2>5. \A j \in 0 .. n - 1, x \in Scalar : F[j][x] = next(j, x)
      OBVIOUS
    <2> HIDE DEF F
    <2>6. Walks(e, n, c0, F)
      BY <2>2, <2>3, <2>4, <2>5 DEF Walks
    <2>7. \A j \in 0 .. n - 1 : c[j] \in Scalar
      BY DEF Vec
    <2>8. Walks(c, n, c0, F)
      BY <1>6, <2>5, <2>7 DEF Walks
    <2>9. c[n] = e[n]
      BY <2>6, <2>8, WalkUnique
    <2> QED BY <2>2, <2>9
  <1> QED BY <1>4, <1>6, <1>7, <1>8

-----------------------------------------------------------------------------
(* Indices wrap at most once: with a divisor n, a number below 2*n is      *)
(* reduced by one subtraction at most.                                     *)
LEMMA ModOnce ==
  ASSUME NEW n \in Nat \ {0}, NEW x \in 0 .. 2 * n - 1
  PROVE  x % n = IF x < n THEN x ELSE x - n
  OBVIOUS

(* The index the loop is at after j turns.                                 *)
TurnIndex(n, pi, j) == (pi + 1 + j) % n

(* The index of a turn, around the ring from the signer.                   *)
LEMMA TurnIndexIs ==
  ASSUME NEW n \in Nat \ {0}, NEW pi \in 0 .. n - 1, NEW j \in 0 .. n - 1
  PROVE  TurnIndex(n, pi, j) = IF pi + 1 + j < n THEN pi + 1 + j ELSE pi + 1 + j - n
  <1> DEFINE x == pi + 1 + j
  <1>1. x \in 0 .. 2 * n - 1
    OBVIOUS
  <1> HIDE DEF x
  <1>2. x % n = IF x < n THEN x ELSE x - n
    BY <1>1, ModOnce
  <1> QED BY <1>2 DEF x, TurnIndex

(* The turns visit the members after the signer, and the signer last.      *)
LEMMA TurnsVisit ==
  ASSUME NEW n \in Nat \ {0}, NEW pi \in 0 .. n - 1
  PROVE  /\ TurnIndex(n, pi, 0) = (pi + 1) % n
         /\ TurnIndex(n, pi, n - 1) = pi
         /\ \A j \in 0 .. n - 1 : TurnIndex(n, pi, j) \in 0 .. n - 1
         /\ \A j \in 0 .. n - 2 :
              /\ TurnIndex(n, pi, j) # pi
              /\ TurnIndex(n, pi, j + 1) = (TurnIndex(n, pi, j) + 1) % n
  <1>1. TurnIndex(n, pi, 0) = (pi + 1) % n
    BY DEF TurnIndex
  <1>2. TurnIndex(n, pi, n - 1) = pi
    BY TurnIndexIs
  <1>3. ASSUME NEW j \in 0 .. n - 1 PROVE TurnIndex(n, pi, j) \in 0 .. n - 1
    BY TurnIndexIs
  <1>4. ASSUME NEW j \in 0 .. n - 2
        PROVE  /\ TurnIndex(n, pi, j) # pi
               /\ TurnIndex(n, pi, j + 1) = (TurnIndex(n, pi, j) + 1) % n
    <2> DEFINE t == TurnIndex(n, pi, j)
               u == TurnIndex(n, pi, j + 1)
    <2>1. j \in 0 .. n - 1 /\ j + 1 \in 0 .. n - 1
      OBVIOUS
    <2>2. t = IF pi + 1 + j < n THEN pi + 1 + j ELSE pi + 1 + j - n
      BY <2>1, TurnIndexIs
    <2>3. u = IF pi + 1 + (j + 1) < n THEN pi + 1 + (j + 1) ELSE pi + 1 + (j + 1) - n
      BY <2>1, TurnIndexIs
    <2> HIDE DEF t, u
    <2>4. t \in 0 .. n - 1 /\ t # pi
      BY <2>2
    <2>5. (t + 1) % n = IF t + 1 < n THEN t + 1 ELSE 0
      BY <2>4, NextIndexIs
    <2>6. u = (t + 1) % n
      BY <2>2, <2>3, <2>5
    <2> QED BY <2>4, <2>6 DEF t, u
  <1> QED BY <1>1, <1>2, <1>3, <1>4

(* Every index is the one of some turn.                                    *)
LEMMA TurnsCover ==
  ASSUME NEW n \in Nat \ {0}, NEW pi \in 0 .. n - 1, NEW i \in 0 .. n - 1
  PROVE  \E j \in 0 .. n - 1 : TurnIndex(n, pi, j) = i
  <1>1. CASE i <= pi
    <2>1. n - pi - 1 + i \in 0 .. n - 1
      BY <1>1
    <2>2. TurnIndex(n, pi, n - pi - 1 + i) = i
      BY <1>1, <2>1, TurnIndexIs
    <2> QED BY <2>1, <2>2
  <1>2. CASE i > pi
    <2>1. i - pi - 1 \in 0 .. n - 1
      BY <1>2
    <2>2. TurnIndex(n, pi, i - pi - 1) = i
      BY <1>2, <2>1, TurnIndexIs
    <2> QED BY <2>1, <2>2
  <1> QED BY <1>1, <1>2

(* Two turns at the same index are the same turn.                          *)
LEMMA TurnsDistinct ==
  ASSUME NEW n \in Nat \ {0}, NEW pi \in 0 .. n - 1,
         NEW j \in 0 .. n - 1, NEW k \in 0 .. n - 1,
         TurnIndex(n, pi, j) = TurnIndex(n, pi, k)
  PROVE  j = k
  BY TurnIndexIs

(* Points of which those of the signer's fellow members are right.         *)
RightBeside(hp, ring, n, pi) ==
  \A j \in (0 .. n - 1) \ {pi} : hp[j] = HashToPoint(ring[j])

(* What the loop of signing makes, given the challenges it goes through.   *)
(* It reads no point for the signer.                                       *)
LEMMA CloseRingIs ==
  ASSUME NEW n \in Nat \ {0}, NEW pi \in 0 .. n - 1, NEW c1, NEW I, NEW k, NEW ring,
         NEW m, NEW a, NEW rs, NEW ch, GoesAround(ch, c1, I, ring, n, pi, m, rs),
         NEW hp, RightBeside(hp, ring, n, pi)
  PROVE  CloseRing(c1, I, k, ring, n, pi, hp, m, a, rs)
           = [challenge |-> ch[0],
              responses |-> [rs EXCEPT ![pi] = ClosingResponse(a, ch[pi], k)],
              key_image |-> I]
  <1> DEFINE at(j) == (pi + 1 + j) % n
             next(j, c) == NextChallenge(m, rs[j], c, ring[j], hp[j], I)
             body(f) == [j \in 0 .. n - 1 |-> IF j = 0 THEN c1
                                               ELSE next(at(j - 1), f[j - 1])]
             w == CHOOSE f : f = body(f)
             J == CHOOSE j \in 0 .. n - 2 : at(j) = n - 1
             c0 == IF pi = n - 1 THEN w[0] ELSE w[1 + J]
             g == [j \in 0 .. n - 1 |-> ch[at(j)]]
  <1>1. CloseRing(c1, I, k, ring, n, pi, hp, m, a, rs)
          = [challenge |-> c0,
             responses |-> [rs EXCEPT ![pi] = ClosingResponse(a, w[n - 1], k)],
             key_image |-> I]
    BY DEF CloseRing
  <1>2. ch[(pi + 1) % n] = c1
    BY DEF GoesAround
  <1>3. ASSUME NEW j \in 0 .. n - 1, j # pi
        PROVE  ch[(j + 1) % n] = next(j, ch[j])
    <2>1. hp[j] = HashToPoint(ring[j])
      BY <1>3 DEF RightBeside
    <2>2. ch[(j + 1) % n]
            = NextChallenge(m, rs[j], ch[j], ring[j], HashToPoint(ring[j]), I)
      BY <1>3 DEF GoesAround
    <2> QED BY <2>1, <2>2
  <1>4. \A j : at(j) = TurnIndex(n, pi, j)
    BY DEF TurnIndex
  <1>5. /\ at(0) = (pi + 1) % n
        /\ at(n - 1) = pi
        /\ \A j \in 0 .. n - 1 : at(j) \in 0 .. n - 1
        /\ \A j \in 0 .. n - 2 : at(j) # pi /\ at(j + 1) = (at(j) + 1) % n
    BY TurnsVisit DEF TurnIndex
  <1> HIDE DEF at, next, w, c0
  <1>6. /\ g[0] = c1
        /\ \A j \in 0 .. n - 2 : g[j + 1] = next(at(j), g[j])
    <2>1. g[0] = c1
      BY <1>2, <1>5
    <2>2. ASSUME NEW j \in 0 .. n - 2 PROVE g[j + 1] = next(at(j), g[j])
      <3>1. j \in 0 .. n - 1 /\ j + 1 \in 0 .. n - 1
        OBVIOUS
      <3>2. g[j + 1] = ch[at(j + 1)] /\ g[j] = ch[at(j)]
        BY <3>1
      <3>3. at(j) \in 0 .. n - 1 /\ at(j) # pi /\ at(j + 1) = (at(j) + 1) % n
        BY <1>5, <3>1
      <3>4. ch[(at(j) + 1) % n] = next(at(j), ch[at(j)])
        BY <1>3, <3>3
      <3> QED BY <3>2, <3>3, <3>4
    <2> QED BY <2>1, <2>2
  <1>7. g = body(g)
    <2>1. ASSUME NEW j \in 0 .. n - 1 PROVE g[j] = body(g)[j]
      <3> HIDE DEF g
      <3>1. CASE j = 0
        BY <1>6, <3>1
      <3>2. CASE j # 0
        <4>1. j - 1 \in 0 .. n - 2 /\ (j - 1) + 1 = j
          BY <3>2
        <4>2. g[(j - 1) + 1] = next(at(j - 1), g[j - 1])
          BY <1>6, <4>1
        <4> QED BY <3>2, <4>1, <4>2
      <3> QED BY <3>1, <3>2
    <2> QED BY <2>1
  <1>8. w = body(w)
    <2> HIDE DEF body, g
    <2> QED BY <1>7, Zenon DEF w
  <1>9. w[0] = c1
    BY <1>8
  <1>10. ASSUME NEW j \in 0 .. n - 2 PROVE w[j + 1] = next(at(j), w[j])
    <2>1. j + 1 \in 0 .. n - 1 /\ j + 1 # 0 /\ (j + 1) - 1 = j
      OBVIOUS
    <2> QED BY <1>8, <2>1
  <1>11. \A j \in 0 .. n - 1 : w[j] = g[j]
    <2> HIDE DEF body, g
    <2> DEFINE S == {j \in Nat : j <= n - 1 => w[j] = g[j]}
    <2>1. 0 \in S
      BY <1>6, <1>9
    <2>2. ASSUME NEW j \in Nat, j \in S PROVE j + 1 \in S
      <3> SUFFICES ASSUME j + 1 <= n - 1 PROVE w[j + 1] = g[j + 1]
        OBVIOUS
      <3>1. w[j] = g[j] /\ j \in 0 .. n - 2
        BY <2>2
      <3> QED BY <1>6, <1>10, <3>1
    <2> HIDE DEF S
    <2>3. Nat \subseteq S
      BY <2>1, <2>2, SetInduction
    <2> QED BY <2>3 DEF S
  <1>12. \A j \in 0 .. n - 1 : w[j] = ch[at(j)]
    BY <1>11
  <1> HIDE DEF body, g
  <1>13. w[n - 1] = ch[pi]
    BY <1>5, <1>12
  <1>14. c0 = ch[0]
    <2>1. CASE pi = n - 1
      <3>1. (pi + 1) % n = 0
        BY <2>1, NextIndexIs
      <3> QED BY <1>5, <1>12, <2>1, <3>1 DEF c0
    <2>2. CASE pi # n - 1
      <3>1. n - 2 - pi \in 0 .. n - 2 /\ at(n - 2 - pi) = n - 1
        <4>1. n - 2 - pi \in 0 .. n - 2 /\ n - 2 - pi \in 0 .. n - 1
          BY <2>2
        <4>2. TurnIndex(n, pi, n - 2 - pi) = n - 1
          BY <4>1, TurnIndexIs
        <4> QED BY <1>4, <4>1, <4>2
      <3>2. J \in 0 .. n - 2 /\ at(J) = n - 1
        BY <3>1
      <3> HIDE DEF J
      <3>3. n - 1 \in 0 .. n - 1 /\ ~ (n - 1 + 1 < n)
        OBVIOUS
      <3>4. (n - 1 + 1) % n = 0
        BY <3>3, NextIndexIs
      <3>5. 1 + J = J + 1 /\ J + 1 \in 0 .. n - 1
        BY <3>2
      <3>6. at(J + 1) = 0
        BY <1>5, <3>2, <3>4
      <3> QED BY <1>12, <2>2, <3>5, <3>6 DEF c0
    <2> QED BY <2>1, <2>2
  <1> QED BY <1>1, <1>13, <1>14

-----------------------------------------------------------------------------
(* The signer's response closes the ring over any base point.              *)
LEMMA ClosingLaw ==
  ASSUME NEW a \in Scalar, NEW c \in Scalar, NEW k \in Scalar, NEW B \in Point
  PROVE  PAdd(PMul(ClosingResponse(a, c, k), B), PMul(c, PMul(k, B))) = PMul(a, B)
  <1>1. SMul(c, k) \in Scalar
    BY CurveTypes
  <1>2. QED BY <1>1, Distributivity, Associativity DEF ClosingResponse

(* With that response, the equation of the signer's slot is the challenge  *)
(* its nonce began with.                                                   *)
LEMMA SignerEquation ==
  ASSUME NEW m, NEW a \in Scalar, NEW c \in Scalar, NEW k \in Scalar
  PROVE  NextChallenge(m, ClosingResponse(a, c, k), c, PublicKey(k),
                       HashToPoint(PublicKey(k)), KeyImage(k))
           = NonceChallenge(m, a, HashToPoint(PublicKey(k)))
  <1>1. G \in Point /\ HashToPoint(PublicKey(k)) \in Point
    BY CurveTypes DEF PublicKey
  <1>2. PAdd(PMul(ClosingResponse(a, c, k), G), PMul(c, PublicKey(k))) = PMul(a, G)
    BY <1>1, ClosingLaw DEF PublicKey
  <1>3. PAdd(PMul(ClosingResponse(a, c, k), HashToPoint(PublicKey(k))),
             PMul(c, KeyImage(k))) = PMul(a, HashToPoint(PublicKey(k)))
    BY <1>1, ClosingLaw DEF KeyImage
  <1>4. QED BY <1>2, <1>3 DEF NextChallenge, NonceChallenge

(* Public keys and key images are points.                                  *)
LEMMA KeyTypes ==
  ASSUME NEW k \in Scalar
  PROVE  /\ PublicKey(k) \in Point
         /\ HashToPoint(PublicKey(k)) \in Point
         /\ KeyImage(k) \in Point
  BY CurveTypes DEF PublicKey, KeyImage

(* Challenges are scalars, for a message whose challenges are.             *)
LEMMA NextChallengeIsScalar ==
  ASSUME NEW m, \A L, R \in Point : Challenge(m, L, R) \in Scalar,
         NEW s \in Scalar, NEW c \in Scalar, NEW P \in Point, NEW I \in Point
  PROVE  /\ NextChallenge(m, s, c, P, HashToPoint(P), I) \in Scalar
         /\ NonceChallenge(m, s, HashToPoint(P)) \in Scalar
  <1>1. G \in Point /\ HashToPoint(P) \in Point
    BY CurveTypes
  <1>2. /\ PMul(s, G) \in Point /\ PMul(c, P) \in Point
        /\ PMul(s, HashToPoint(P)) \in Point /\ PMul(c, I) \in Point
    BY <1>1, CurveTypes
  <1>3. /\ PAdd(PMul(s, G), PMul(c, P)) \in Point
        /\ PAdd(PMul(s, HashToPoint(P)), PMul(c, I)) \in Point
    BY <1>2, CurveTypes
  <1> QED BY <1>2, <1>3 DEF NextChallenge, NonceChallenge

-----------------------------------------------------------------------------
(* From any challenge c1, with any responses, the loop goes around.        *)
LEMMA AroundExists ==
  ASSUME NEW n \in Nat \ {0}, NEW pi \in 0 .. n - 1, NEW c1 \in Scalar, NEW I,
         NEW ring, NEW m, NEW rs,
         \A j \in 0 .. n - 1, c \in Scalar :
           NextChallenge(m, rs[j], c, ring[j], HashToPoint(ring[j]), I) \in Scalar
  PROVE  \E ch : GoesAround(ch, c1, I, ring, n, pi, m, rs)
  <1> DEFINE at(j) == TurnIndex(n, pi, j)
             next(j, c) == NextChallenge(m, rs[j], c, ring[j], HashToPoint(ring[j]), I)
             F == [j \in 0 .. n - 2 |-> [c \in Scalar |-> next(at(j), c)]]
             turn(i) == CHOOSE j \in 0 .. n - 1 : at(j) = i
  <1>1. /\ at(0) = (pi + 1) % n
        /\ at(n - 1) = pi
        /\ \A j \in 0 .. n - 1 : at(j) \in 0 .. n - 1
        /\ \A j \in 0 .. n - 2 : at(j) # pi /\ at(j + 1) = (at(j) + 1) % n
    BY TurnsVisit
  <1>2. \A i \in 0 .. n - 1 : \E j \in 0 .. n - 1 : at(j) = i
    BY TurnsCover
  <1>3. \A j, k \in 0 .. n - 1 : at(j) = at(k) => j = k
    BY TurnsDistinct
  <1>4. \A j \in 0 .. n - 1, c \in Scalar : next(j, c) \in Scalar
    OBVIOUS
  <1> HIDE DEF at, next
  <1>5. \A i \in 0 .. n - 1 : turn(i) \in 0 .. n - 1 /\ at(turn(i)) = i
    BY <1>2
  <1> HIDE DEF turn
  <1>6. n - 1 \in Nat /\ n - 1 - 1 = n - 2
    OBVIOUS
  <1>7. F \in [0 .. n - 1 - 1 -> [Scalar -> Scalar]]
    BY <1>1, <1>4
  <1>8. PICK g \in [0 .. n - 1 -> Scalar] : Walks(g, n - 1, c1, F)
    BY <1>6, <1>7, WalkExists
  <1>9. g[0] = c1
    BY <1>8 DEF Walks
  <1>10. ASSUME NEW j \in 0 .. n - 2 PROVE g[j + 1] = next(at(j), g[j])
    <2>1. g[j] \in Scalar /\ F[j] = [c \in Scalar |-> next(at(j), c)]
      OBVIOUS
    <2>2. F[j][g[j]] = next(at(j), g[j])
      BY <2>1
    <2> HIDE DEF F
    <2>3. g[j + 1] = F[j][g[j]]
      BY <1>6, <1>8 DEF Walks
    <2> QED BY <2>2, <2>3
  <1> DEFINE ch == [i \in 0 .. n - 1 |-> g[turn(i)]]
  <1>11. ASSUME NEW j \in 0 .. n - 1 PROVE ch[at(j)] = g[j]
    <2>1. at(j) \in 0 .. n - 1
      BY <1>1
    <2>2. ch[at(j)] = g[turn(at(j))]
      BY <2>1
    <2>3. turn(at(j)) = j
      BY <1>3, <1>5, <2>1
    <2> QED BY <2>2, <2>3
  <1>12. ch \in Vec(n, Scalar)
    BY <1>5 DEF Vec
  <1> HIDE DEF ch
  <1>13. ch[(pi + 1) % n] = c1
    <2>1. 0 \in 0 .. n - 1
      OBVIOUS
    <2> QED BY <1>1, <1>9, <1>11, <2>1
  <1>14. ASSUME NEW i \in (0 .. n - 1) \ {pi}
         PROVE  ch[(i + 1) % n] = next(i, ch[i])
    <2> DEFINE j == turn(i)
    <2>1. j \in 0 .. n - 1 /\ at(j) = i
      BY <1>5
    <2> HIDE DEF j
    <2>2. j \in 0 .. n - 2
      <3>1. j # n - 1
        BY <1>1, <2>1
      <3> QED BY <2>1, <3>1
    <2>3. j + 1 \in 0 .. n - 1 /\ at(j + 1) = (i + 1) % n
      BY <1>1, <2>1, <2>2
    <2>4. ch[i] = g[j] /\ ch[(i + 1) % n] = g[j + 1]
      <3>1. ch[at(j)] = g[j] /\ ch[at(j + 1)] = g[j + 1]
        BY <1>11, <2>1, <2>3
      <3> QED BY <2>1, <2>3, <3>1
    <2>5. g[j + 1] = next(i, g[j])
      BY <1>10, <2>1, <2>2
    <2> QED BY <2>4, <2>5
  <1> QED BY <1>12, <1>13, <1>14 DEF GoesAround, next

(* A ring gone around from the signer's nonce closes with its response.    *)
LEMMA AroundCloses ==
  ASSUME NEW n \in Nat \ {0}, NEW pi \in 0 .. n - 1, NEW k \in Scalar, NEW a \in Scalar,
         NEW ring, ring[pi] = PublicKey(k), NEW m, NEW rs, NEW ch,
         GoesAround(ch, NonceChallenge(m, a, HashToPoint(PublicKey(k))), KeyImage(k),
                    ring, n, pi, m, rs),
         NEW sig, sig.challenge = ch[0], sig.key_image = KeyImage(k),
         \A j \in (0 .. n - 1) \ {pi} : sig.responses[j] = rs[j],
         sig.responses[pi] = ClosingResponse(a, ch[pi], k)
  PROVE  Closes(sig, ring, n, m)
  <1>1. /\ ch \in Vec(n, Scalar)
        /\ ch[(pi + 1) % n] = NonceChallenge(m, a, HashToPoint(PublicKey(k)))
        /\ \A j \in (0 .. n - 1) \ {pi} :
             ch[(j + 1) % n] = NextChallenge(m, rs[j], ch[j], ring[j],
                                             HashToPoint(ring[j]), KeyImage(k))
    BY DEF GoesAround
  <1>2. ASSUME NEW j \in 0 .. n - 1
        PROVE  ch[(j + 1) % n] = NextChallenge(m, sig.responses[j], ch[j], ring[j],
                                               HashToPoint(ring[j]), sig.key_image)
    <2>1. CASE j = pi
      <3>1. ch[pi] \in Scalar
        BY <1>1 DEF Vec
      <3>2. NextChallenge(m, ClosingResponse(a, ch[pi], k), ch[pi], PublicKey(k),
                          HashToPoint(PublicKey(k)), KeyImage(k))
              = NonceChallenge(m, a, HashToPoint(PublicKey(k)))
        BY <3>1, SignerEquation
      <3> QED BY <1>1, <2>1, <3>2
    <2>2. CASE j # pi
      <3>1. sig.responses[j] = rs[j] /\ j \in (0 .. n - 1) \ {pi}
        BY <2>2
      <3> QED BY <1>1, <3>1
    <2> QED BY <2>1, <2>2
  <1> QED BY <1>1, <1>2 DEF Closes

(* What signing makes, with its ring gone around.                          *)
LEMMA SignWithPointsIs ==
  ASSUME NEW n \in Nat \ {0}, NEW pi \in 0 .. n - 1, NEW k, NEW ring, NEW m, NEW a,
         NEW rs, NEW ch,
         GoesAround(ch, NonceChallenge(m, a, HashToPoint(PublicKey(k))), KeyImage(k),
                    ring, n, pi, m, rs),
         NEW hp, RightBeside(hp, ring, n, pi)
  PROVE  SignWith(k, ring, n, pi, hp, m, a, rs)
           = [challenge |-> ch[0],
              responses |-> [rs EXCEPT ![pi] = ClosingResponse(a, ch[pi], k)],
              key_image |-> KeyImage(k)]
  BY CloseRingIs DEF SignWith

(* In particular over the points computed for the ring's members.          *)
LEMMA SignWithIs ==
  ASSUME NEW n \in Nat \ {0}, NEW pi \in 0 .. n - 1, NEW k, NEW ring, NEW m, NEW a,
         NEW rs, NEW ch,
         GoesAround(ch, NonceChallenge(m, a, HashToPoint(PublicKey(k))), KeyImage(k),
                    ring, n, pi, m, rs)
  PROVE  SignWith(k, ring, n, pi, HashedPoints(ring, n), m, a, rs)
           = [challenge |-> ch[0],
              responses |-> [rs EXCEPT ![pi] = ClosingResponse(a, ch[pi], k)],
              key_image |-> KeyImage(k)]
  <1>1. RightBeside(HashedPoints(ring, n), ring, n, pi)
    BY DEF RightBeside, HashedPoints
  <1> QED BY <1>1, SignWithPointsIs

(* What signing makes, with its ring gone around, verifies.                *)
LEMMA AroundVerifies ==
  ASSUME NEW n \in Nat \ {0}, NEW pi \in 0 .. n - 1, NEW k \in Scalar, NEW a \in Scalar,
         NEW ring \in Vec(n, Point), ring[pi] = PublicKey(k),
         NEW rs \in Vec(n, Scalar),
         NEW m, \A L, R \in Point : Challenge(m, L, R) \in Scalar,
         NEW ch,
         GoesAround(ch, NonceChallenge(m, a, HashToPoint(PublicKey(k))), KeyImage(k),
                    ring, n, pi, m, rs)
  PROVE  Verify([challenge |-> ch[0],
                 responses |-> [rs EXCEPT ![pi] = ClosingResponse(a, ch[pi], k)],
                 key_image |-> KeyImage(k)], ring, n, m)
  <1> DEFINE s_pi == ClosingResponse(a, ch[pi], k)
             sig == [challenge |-> ch[0], responses |-> [rs EXCEPT ![pi] = s_pi],
                     key_image |-> KeyImage(k)]
  <1>1. ch \in Vec(n, Scalar)
    BY DEF GoesAround
  <1>2. s_pi \in Scalar
    <2>1. ch[pi] \in Scalar
      BY <1>1 DEF Vec
    <2> QED BY <2>1, CurveTypes DEF ClosingResponse
  <1> HIDE DEF s_pi
  <1>3. /\ sig.challenge = ch[0]
        /\ sig.responses = [rs EXCEPT ![pi] = s_pi]
        /\ sig.key_image = KeyImage(k)
    OBVIOUS
  <1> HIDE DEF sig
  <1>4. /\ \A j \in (0 .. n - 1) \ {pi} : sig.responses[j] = rs[j]
        /\ sig.responses[pi] = s_pi
    BY <1>3 DEF Vec
  <1>5. Closes(sig, ring, n, m)
    <2>1. /\ sig.challenge = ch[0]
          /\ sig.key_image = KeyImage(k)
          /\ \A j \in (0 .. n - 1) \ {pi} : sig.responses[j] = rs[j]
          /\ sig.responses[pi] = ClosingResponse(a, ch[pi], k)
      BY <1>3, <1>4 DEF s_pi
    <2> QED BY <2>1, AroundCloses
  <1>6. sig.challenge \in Scalar
    <2>1. 0 \in 0 .. n - 1
      OBVIOUS
    <2> QED BY <1>1, <1>3, <2>1 DEF Vec
  <1>7. ASSUME NEW j \in 0 .. n - 1, NEW c \in Scalar
        PROVE  NextChallenge(m, sig.responses[j], c, ring[j], HashToPoint(ring[j]),
                             sig.key_image) \in Scalar
    <2>1. sig.responses[j] \in Scalar
      <3>1. rs[j] \in Scalar
        BY DEF Vec
      <3> QED BY <1>2, <1>4, <3>1
    <2>2. ring[j] \in Point /\ KeyImage(k) \in Point
      BY KeyTypes DEF Vec
    <2> QED BY <1>3, <2>1, <2>2, NextChallengeIsScalar
  <1>8. Verify(sig, ring, n, m)
    BY <1>5, <1>6, <1>7, VerifyIsCloses
  <1> QED BY <1>8 DEF sig, s_pi

(* A signature made by a member of a ring passes the verification over it, *)
(* for a ring of any length, the signer anywhere in it, and whatever the   *)
(* nonce, the random responses and the point prepared for the signer       *)
(* (sign.rs:90-194, verify.rs:102-163).                                    *)
THEOREM PreparedRoundTrip ==
  ASSUME NEW n \in Nat \ {0}, NEW pi \in 0 .. n - 1, NEW k \in Scalar, NEW a \in Scalar,
         NEW ring \in Vec(n, Point), ring[pi] = PublicKey(k),
         NEW rs \in Vec(n, Scalar),
         NEW m, \A L, R \in Point : Challenge(m, L, R) \in Scalar,
         NEW hp, RightBeside(hp, ring, n, pi)
  PROVE  Verify(SignWith(k, ring, n, pi, hp, m, a, rs), ring, n, m)
  <1> DEFINE I == KeyImage(k)
             c1 == NonceChallenge(m, a, HashToPoint(PublicKey(k)))
             sig == SignWith(k, ring, n, pi, hp, m, a, rs)
  <1>1. PublicKey(k) \in Point /\ I \in Point
    BY KeyTypes
  <1>2. c1 \in Scalar
    <2> HIDE DEF I
    <2> QED BY <1>1, NextChallengeIsScalar
  <1> HIDE DEF I, c1
  <1>3. ASSUME NEW j \in 0 .. n - 1, NEW c \in Scalar
        PROVE  NextChallenge(m, rs[j], c, ring[j], HashToPoint(ring[j]), I) \in Scalar
    <2>1. ring[j] \in Point /\ rs[j] \in Scalar
      BY DEF Vec
    <2> QED BY <1>1, <2>1, NextChallengeIsScalar
  <1>4. PICK ch : GoesAround(ch, c1, I, ring, n, pi, m, rs)
    BY <1>2, <1>3, AroundExists
  <1>5. sig = [challenge |-> ch[0],
               responses |-> [rs EXCEPT ![pi] = ClosingResponse(a, ch[pi], k)],
               key_image |-> KeyImage(k)]
    BY <1>4, SignWithPointsIs DEF I, c1
  <1>6. Verify([challenge |-> ch[0],
                responses |-> [rs EXCEPT ![pi] = ClosingResponse(a, ch[pi], k)],
                key_image |-> KeyImage(k)], ring, n, m)
    BY <1>4, AroundVerifies DEF I, c1
  <1> QED BY <1>5, <1>6

(* In particular with the points computed for the ring.                    *)
THEOREM OneShotRoundTrip ==
  ASSUME NEW n \in Nat \ {0}, NEW pi \in 0 .. n - 1, NEW k \in Scalar, NEW a \in Scalar,
         NEW ring \in Vec(n, Point), ring[pi] = PublicKey(k),
         NEW rs \in Vec(n, Scalar),
         NEW m, \A L, R \in Point : Challenge(m, L, R) \in Scalar
  PROVE  Verify(SignWith(k, ring, n, pi, HashedPoints(ring, n), m, a, rs), ring, n, m)
  <1>1. RightBeside(HashedPoints(ring, n), ring, n, pi)
    BY DEF RightBeside, HashedPoints
  <1> QED BY <1>1, PreparedRoundTrip
=============================================================================
