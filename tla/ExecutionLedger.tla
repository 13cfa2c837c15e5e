--------------------------- MODULE ExecutionLedger ---------------------------
(***************************************************************************)
(* What the acceptance table of one AI execution promises its readers      *)
(* (schema/ai_execution_acceptances.ts): every attempt has at most one     *)
(* verdict; only a failure may be revised, and only while its attempt is   *)
(* the current one; only after a failure is there a next attempt.          *)
(***************************************************************************)
EXTENDS Integers

CONSTANT MaxAttempt   \* bound: the last attempt

VARIABLES attempt, verdict

Outcomes == {"SUCCEEDED", "FAILED", "INTERRUPTED"}

Init ==
  /\ attempt = 0
  /\ verdict = [a \in 0..MaxAttempt |-> "NONE"]

Record ==
  /\ verdict[attempt] = "NONE"
  /\ \E o \in Outcomes : verdict' = [verdict EXCEPT ![attempt] = o]
  /\ UNCHANGED attempt

Revise ==
  /\ verdict[attempt] = "FAILED"
  /\ \E o \in Outcomes : verdict' = [verdict EXCEPT ![attempt] = o]
  /\ UNCHANGED attempt

NextAttempt ==
  /\ verdict[attempt] = "FAILED"
  /\ attempt < MaxAttempt
  /\ attempt' = attempt + 1
  /\ UNCHANGED verdict

Next == Record \/ Revise \/ NextAttempt

Spec == Init /\ [][Next]_<<attempt, verdict>>
=============================================================================
