----------------------------- MODULE MCAuditOutbox -----------------------------
(* Instances of AuditOutbox: a row of each process; r1 refers to the project. *)
EXTENDS AuditOutbox

CONSTANTS r1, r2, p1, p2

RowHome == [r \in Rows |-> IF r = r1 THEN p1 ELSE p2]
=============================================================================
