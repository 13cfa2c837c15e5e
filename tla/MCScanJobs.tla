----------------------------- MODULE MCScanJobs -----------------------------
(* Instances of ScanJobs for TLC: jobs of one project, or of two projects   *)
(* whose ids hash to the same advisory-lock key.                            *)
EXTENDS ScanJobs, TLC

CONSTANTS p1, p2, j1, j2, q1, q2, k1

OneProject == [j \in Jobs |-> q1]
TwoProjects == [j \in Jobs |-> IF j = j1 THEN q1 ELSE q2]
OneKey == [q \in Projects |-> k1]

\* Nothing distinguishes processes, nor the two requested jobs of one project.
Symmetry == Permutations(Procs) \cup Permutations(Jobs)
=============================================================================
