--------------------------- MODULE ProgressMeter ---------------------------
(***************************************************************************)
(* What the caller of sign_with_rng_and_progress or verify_with_progress   *)
(* is promised of the callback's calls, as someone who draws a progress    *)
(* bar sees them: the bar of a call moves forward only, in steps of at     *)
(* most a tenth (of one, when there are fewer than ten members to go       *)
(* through), and is full before the call returns, which it does.           *)
(***************************************************************************)
EXTENDS Integers

CONSTANT MaxTotal  \* bound: the members a call goes through

VARIABLES
  open,   \* a call is under way
  total,  \* the members it goes through
  done    \* those the callback has been told of

vars == <<open, total, done>>

LargestStep == IF total < 10 THEN 1 ELSE total \div 10

Init == open = FALSE /\ total = 0 /\ done = 0

Start ==
  /\ ~open
  /\ open' = TRUE
  /\ total' \in 0 .. MaxTotal
  /\ done' = 0

Report ==
  /\ open
  /\ \E step \in 1 .. LargestStep :
       /\ done + step <= total
       /\ done' = done + step
  /\ UNCHANGED <<open, total>>

Finish ==
  /\ open
  /\ done = total
  /\ open' = FALSE
  /\ total' = 0
  /\ done' = 0

Next == Start \/ Report \/ Finish

Spec == Init /\ [][Next]_vars /\ WF_vars(Report \/ Finish)
=============================================================================
