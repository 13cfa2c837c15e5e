------------------------------ MODULE MCAiBudget ------------------------------
\* Requests that report more or less than their estimates, and an event without
\* a reservation.
EXTENDS AiBudget

CONSTANTS a1, a2, a3, t1

MCEstimate == [a \in Requests |-> 2]
MCUsed == [a \in Requests |-> IF a = a1 THEN 3 ELSE 1]
ManyLimits == {[attempts |-> 1, tokens |-> 9], [attempts |-> 2, tokens |-> 5]}
=============================================================================
