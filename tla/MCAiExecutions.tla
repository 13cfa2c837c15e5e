---------------------------- MODULE MCAiExecutions ----------------------------
(* Instances of AiExecutions for TLC.                                        *)
EXTENDS AiExecutions

CONSTANTS u1, s1

\* A failure whose turn may be resumed and one that may be tried again later.
TwoFailures ==
  {[reason |-> "EXECUTION_FAILED", recovery |-> "REQUIRED", resumable |-> TRUE],
   [reason |-> "EXECUTION_PROVIDER_FAILURE", recovery |-> "REQUIRED", resumable |-> FALSE]}
=============================================================================
