----------------------------- MODULE ScanPromise -----------------------------
(***************************************************************************)
(* What a queued scan promises, with no word of queues, workers, leases or *)
(* locks: an accepted job ends once, and leaves either one set of scan     *)
(* effects or one failure notice (lib/job-lease.ts, lib/scan-runner.ts).   *)
(***************************************************************************)
EXTENDS Integers

CONSTANT Jobs

VARIABLES outcome, published, notices

vars == <<outcome, published, notices>>

Init ==
  /\ outcome = [j \in Jobs |-> "none"]
  /\ published = [j \in Jobs |-> 0]
  /\ notices = [j \in Jobs |-> 0]

\* The row is committed.
Accept(j) ==
  /\ outcome[j] = "none"
  /\ outcome' = [outcome EXCEPT ![j] = "accepted"]
  /\ UNCHANGED <<published, notices>>

\* Effects and completion become visible together.
Complete(j) ==
  /\ outcome[j] = "accepted"
  /\ outcome' = [outcome EXCEPT ![j] = "completed"]
  /\ published' = [published EXCEPT ![j] = 1]
  /\ UNCHANGED notices

\* The failure and its event become visible together.
GiveUp(j) ==
  /\ outcome[j] = "accepted"
  /\ outcome' = [outcome EXCEPT ![j] = "failed"]
  /\ notices' = [notices EXCEPT ![j] = 1]
  /\ UNCHANGED published

Next == \E j \in Jobs : Accept(j) \/ Complete(j) \/ GiveUp(j)

Spec == Init /\ [][Next]_vars
=============================================================================
