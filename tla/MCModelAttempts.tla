---------------------------- MODULE MCModelAttempts ----------------------------
(* Instances of ModelAttempts: three attempts of one process with one         *)
(* credential and one of another process with its own, all at one model.      *)
EXTENDS ModelAttempts, TLC

CONSTANTS a1, a2, a3, a4, p1, p2, credential, model

AttemptHome == [a \in Attempts |-> IF a = a4 THEN p2 ELSE p1]
LanesOf == [a \in Attempts |-> IF a = a4 THEN <<model>> ELSE <<credential, model>>]
SharedModel == [a \in Attempts |-> model]
\* Two attempts that differ in nothing.
Alike == Permutations({a2, a3})
=============================================================================
