--------------------------- MODULE ObservationPromise ---------------------------
(***************************************************************************)
(* What an accepted result is promised: the observations that were stored  *)
(* with it reach its episode at least once, or are put aside where an      *)
(* operator can take them up again.  They do not vanish.                   *)
(***************************************************************************)
CONSTANT Attempts   \* the accepted attempts of an execution

VARIABLE promise    \* by attempt: none, owed, kept, or aside

Init == promise = [a \in Attempts |-> "none"]

Becomes(a, from, to) == promise[a] \in from /\ promise' = [promise EXCEPT ![a] = to]

Owe(a) == Becomes(a, {"none", "aside"}, "owed")
Keep(a) == Becomes(a, {"owed", "aside"}, "kept")
PutAside(a) == Becomes(a, {"owed"}, "aside")

Next == \E a \in Attempts : Owe(a) \/ Keep(a) \/ PutAside(a)

Spec == Init /\ [][Next]_promise
=============================================================================
