---------------------------- MODULE ProjectBootstrap ----------------------------
(***************************************************************************)
(* Creating a project from the template.  A job is claimed with a lease by *)
(* one of the processes; the attempt copies the template into a root of    *)
(* its own, installs its dependencies and inserts the project.  A job      *)
(* whose lease ran out is reclaimed: its root goes and it is tried again.  *)
(*                                                                         *)
(* A claim raises the attempt, so the worker of the row is the run with    *)
(* the row's attempt.  The root of attempt n of job j is <<j, n>>.         *)
(***************************************************************************)
EXTENDS Integers, FiniteSets

CONSTANTS
  Jobs,
  Procs,        \* API server processes
  MaxAttempts,  \* project_bootstrap_jobs.max_attempts
  Faulty,       \* what may fail: "crash", "update", "commit", "remove"
  MaxFaults     \* bound: failures

ASSUME ConstantsAssumption ==
  /\ MaxAttempts \in Nat \ {0} /\ MaxFaults \in Nat
  /\ Faulty \subseteq {"crash", "update", "commit", "remove"}

VARIABLES
  status, attempt, lease,  \* columns of a job; without a lease it has no worker
  working,                 \* the jobs whose working_root_path is set
  run,                     \* the closure of a process for a job: where it is, its attempt
  roots,                   \* the roots there are, complete or not
  marked,                  \* those that carry the marker of a managed root
  left,                    \* history: the roots that a removal left where they are
  projects,                \* the roots of the projects inserted
  removing,                \* the roots a process is about to remove after a reclaim
  faults

vars == <<status, attempt, lease, working, run, roots, marked, left, projects, removing, faults>>
disk == <<roots, marked, left>>
row == <<status, attempt, lease, working>>

AllRoots == Jobs \X (1..MaxAttempts)
NoRun == [at |-> "none", n |-> 0, lost |-> FALSE]

TypeOK ==
  /\ status \in [Jobs -> {"none", "queued", "running", "completed", "failed"}]
  /\ attempt \in [Jobs -> 0..MaxAttempts] /\ lease \in [Jobs -> {"none", "live", "expired"}]
  /\ working \subseteq Jobs
  /\ run \in [Procs -> [Jobs ->
       [at : {"none", "queued", "root", "copy", "copying", "install", "commit", "clean", "fail"},
        n : 0..MaxAttempts, lost : BOOLEAN]]]
  /\ roots \subseteq AllRoots /\ marked \subseteq AllRoots /\ left \subseteq AllRoots /\ projects \subseteq AllRoots
  /\ removing \in [Procs -> SUBSET AllRoots] /\ faults \in 0..MaxFaults
  /\ \A j \in Jobs : status[j] = "running" <=> lease[j] # "none"

Init ==
  /\ status = [j \in Jobs |-> "none"] /\ attempt = [j \in Jobs |-> 0]
  /\ lease = [j \in Jobs |-> "none"] /\ working = {}
  /\ run = [p \in Procs |-> [j \in Jobs |-> NoRun]]
  /\ roots = {} /\ marked = {} /\ left = {} /\ projects = {} /\ removing = [p \in Procs |-> {}] /\ faults = 0

Fault(kind) == kind \in Faulty /\ faults < MaxFaults /\ faults' = faults + 1
Goes(p, j, at) == run' = [run EXCEPT ![p][j].at = at]
Ends(p, j) == run' = [run EXCEPT ![p][j] = NoRun]

\* The attempt ends with its root removed: its lease is lost, or it failed.
Loses(p, j) == run' = [run EXCEPT ![p][j].at = "clean", ![p][j].lost = TRUE]
Fails(p, j) == Goes(p, j, "clean")

RootOf(p, j) == <<j, run[p][j].n>>
-----------------------------------------------------------------------------
\* createProjectBootstrapJob; a second request with its key finds the row.
Create(j) ==
  /\ status[j] = "none" /\ status' = [status EXCEPT ![j] = "queued"]
  /\ UNCHANGED <<attempt, lease, working, run, disk, projects, removing, faults>>

\* enqueueProjectBootstrapJob, by the request and by the dispatcher.
Enqueue(p, j) ==
  /\ status[j] = "queued" /\ attempt[j] < MaxAttempts /\ run[p][j].at = "none"
  /\ Goes(p, j, "queued")
  /\ UNCHANGED <<row, disk, projects, removing, faults>>

Claimable(j) == status[j] = "queued" /\ attempt[j] < MaxAttempts

Claimed(j) ==
  /\ status' = [status EXCEPT ![j] = "running"] /\ attempt' = [attempt EXCEPT ![j] = @ + 1]
  /\ lease' = [lease EXCEPT ![j] = "live"]

Claim(p, j) ==
  /\ run[p][j].at = "queued"
  /\ \/ /\ Claimable(j) /\ Claimed(j) /\ UNCHANGED faults
        /\ run' = [run EXCEPT ![p][j] = [NoRun EXCEPT !.at = "root", !.n = attempt[j] + 1]]
     \/ ~Claimable(j) /\ Ends(p, j) /\ UNCHANGED <<status, attempt, lease, faults>>
     \/ /\ Fault("update") /\ Ends(p, j)
        /\ (Claimable(j) /\ Claimed(j)) \/ UNCHANGED <<status, attempt, lease>>
  /\ UNCHANGED <<working, disk, projects, removing>>

\* Mutant: the updates ask for the attempt alone.
SameAttempt(p, j) == run[p][j].n = attempt[j]

\* The condition of the worker's updates and of assertWorkerLease.
Owns(p, j) == status[j] = "running" /\ lease[j] = "live" /\ run[p][j].n = attempt[j]

SetRoot(p, j) ==
  /\ run[p][j].at = "root"
  /\ \/ Owns(p, j) /\ working' = working \cup {j} /\ Goes(p, j, "copy") /\ UNCHANGED faults
     \/ ~Owns(p, j) /\ Loses(p, j) /\ UNCHANGED <<working, faults>>
     \/ /\ Fault("update") /\ Fails(p, j)
        /\ working' \in {working, IF Owns(p, j) THEN working \cup {j} ELSE working}
  /\ UNCHANGED <<status, attempt, lease, disk, projects, removing>>

\* The lease is asked for, then the template is copied, whoever owns the job
\* while the copy is made.
StartCopy(p, j) ==
  /\ run[p][j].at = "copy"
  /\ \/ Owns(p, j) /\ Goes(p, j, "copying") /\ roots' = roots \cup {RootOf(p, j)}
     \/ ~Owns(p, j) /\ Loses(p, j) /\ UNCHANGED roots
  /\ UNCHANGED <<row, marked, left, projects, removing, faults>>

\* The marker is the last file written.  A copy that fails removes what it wrote,
\* if that succeeds.
EndCopy(p, j) ==
  /\ run[p][j].at = "copying"
  /\ \/ Goes(p, j, "install") /\ marked' = marked \cup {RootOf(p, j)} /\ UNCHANGED <<roots, faults>>
     \/ Fails(p, j) /\ roots' = roots \ {RootOf(p, j)} /\ UNCHANGED <<marked, faults>>
     \/ Fails(p, j) /\ Fault("remove") /\ UNCHANGED <<roots, marked>>
  /\ UNCHANGED <<row, left, projects, removing>>

\* The lease is asked for, the dependencies are installed, the lease is asked
\* for again and the root is validated.
Install(p, j) ==
  /\ run[p][j].at = "install"
  /\ \/ Owns(p, j) /\ RootOf(p, j) \in roots /\ Goes(p, j, "commit")
     \/ Owns(p, j) /\ Fails(p, j)
     \/ ~Owns(p, j) /\ Loses(p, j)
  /\ UNCHANGED <<row, disk, projects, removing, faults>>

\* Mutant: the project is inserted before the transaction.
InsertAlways(p, j) ==
  /\ projects' = projects \cup {RootOf(p, j)}
  /\ IF Owns(p, j)
       THEN /\ status' = [status EXCEPT ![j] = "completed"]
            /\ lease' = [lease EXCEPT ![j] = "none"] /\ working' = working \ {j}
       ELSE UNCHANGED <<status, lease, working>>

\* The transaction of commitCreatedProject: the project and the job, or nothing.
Inserts(p, j) ==
  IF Owns(p, j)
    THEN /\ projects' = projects \cup {RootOf(p, j)}
         /\ status' = [status EXCEPT ![j] = "completed"]
         /\ lease' = [lease EXCEPT ![j] = "none"] /\ working' = working \ {j}
    ELSE UNCHANGED <<projects, status, lease, working>>

CommitProject(p, j) ==
  /\ run[p][j].at = "commit"
  /\ \/ /\ Inserts(p, j) /\ UNCHANGED faults
        /\ IF Owns(p, j) THEN Ends(p, j) ELSE Loses(p, j)
     \/ /\ Fault("commit") /\ Fails(p, j)
        /\ Inserts(p, j) \/ UNCHANGED <<projects, status, lease, working>>
  /\ UNCHANGED <<attempt, disk, removing>>

\* removeManagedProjectRoot of the roots in S, its errors caught: a root without
\* the marker stays, and a removal that fails may have taken the marker.
Remove(S) ==
  /\ \/ roots' = roots \ (S \cap marked) /\ marked' = marked \ S /\ UNCHANGED faults
     \/ Fault("remove") /\ UNCHANGED roots /\ marked' \in {marked, marked \ S}
  /\ left' = left \cup (S \cap roots')

\* The catch block: the root goes; an attempt that lost its lease says nothing.
Clean(p, j) ==
  /\ run[p][j].at = "clean" /\ Remove({RootOf(p, j)})
  /\ IF run[p][j].lost THEN Ends(p, j) ELSE Goes(p, j, "fail")
  /\ UNCHANGED <<row, projects, removing>>

\* Mutant: a job may be tried again after its last attempt.
RetryOnceMore(j) == attempt[j] <= MaxAttempts

MayRetry(j) == attempt[j] < MaxAttempts

\* The attempt of the row is over: the job is queued again or has failed.
Over(j, retry) ==
  /\ status' = [status EXCEPT ![j] = IF retry THEN "queued" ELSE "failed"]
  /\ lease' = [lease EXCEPT ![j] = "none"] /\ working' = working \ {j}

\* finishFailedAttempt; only some failures are worth a retry.
FinishFailed(p, j) ==
  /\ run[p][j].at = "fail" /\ Ends(p, j)
  /\ \/ /\ Owns(p, j) /\ UNCHANGED faults
        /\ Over(j, MayRetry(j)) \/ Over(j, FALSE)
     \/ ~Owns(p, j) /\ UNCHANGED <<status, lease, working, faults>>
     \/ Fault("update") /\ UNCHANGED <<status, lease, working>>
  /\ UNCHANGED <<attempt, disk, projects, removing>>

\* No heartbeat came in time.
Expire(j) ==
  /\ status[j] = "running" /\ lease[j] = "live"
  /\ lease' = [lease EXCEPT ![j] = "expired"]
  /\ UNCHANGED <<status, attempt, working, run, disk, projects, removing, faults>>

\* reclaimExpiredBootstrapLeases: the row first, then the root it named.
Reclaim(p, j) ==
  /\ status[j] = "running" /\ lease[j] = "expired" /\ removing[p] = {}
  /\ Over(j, MayRetry(j))
  /\ removing' = [removing EXCEPT ![p] = IF j \in working THEN {<<j, attempt[j]>>} ELSE {}]
  /\ UNCHANGED <<attempt, run, disk, projects, faults>>

RemoveRoot(p) ==
  /\ removing[p] # {} /\ Remove(removing[p]) /\ removing' = [removing EXCEPT ![p] = {}]
  /\ UNCHANGED <<row, run, projects>>

Crash(p) ==
  /\ Fault("crash")
  /\ run' = [run EXCEPT ![p] = [j \in Jobs |-> NoRun]]
  /\ removing' = [removing EXCEPT ![p] = {}]
  /\ UNCHANGED <<row, disk, projects>>
-----------------------------------------------------------------------------
Run(p, j) ==
  \/ Claim(p, j) \/ SetRoot(p, j) \/ StartCopy(p, j) \/ EndCopy(p, j) \/ Install(p, j)
  \/ CommitProject(p, j) \/ Clean(p, j) \/ FinishFailed(p, j)

Next ==
  \/ \E j \in Jobs : Create(j) \/ Expire(j)
  \/ \E p \in Procs, j \in Jobs : Enqueue(p, j) \/ Run(p, j) \/ Reclaim(p, j)
  \/ \E p \in Procs : RemoveRoot(p) \/ Crash(p)

Spec == Init /\ [][Next]_vars

\* The dispatcher comes round in every process, a queued closure runs, and a
\* lease nobody renews runs out.
Forsaken(j) == \A p \in Procs : run[p][j].at = "none" \/ run[p][j].n # attempt[j]

Fairness ==
  \A j \in Jobs :
    /\ WF_vars(Forsaken(j) /\ Expire(j))
    /\ \A p \in Procs :
         WF_vars(Enqueue(p, j)) /\ WF_vars(Run(p, j)) /\ WF_vars(Reclaim(p, j)) /\ WF_vars(RemoveRoot(p))

FairSpec == Spec /\ Fairness
-----------------------------------------------------------------------------
(* Properties                                                               *)

\* A job is completed exactly when a project was made of it, and at most one is:
\* of several attempts that believe they own it, one inserts a project.
ProjectIffCompleted ==
  \A j \in Jobs :
    LET made == {x \in projects : x[1] = j}
    IN IF status[j] = "completed" THEN Cardinality(made) = 1 ELSE made = {}

\* Rows, projects and attempts agree.
JobsSound == TypeOK /\ ProjectIffCompleted

Tracked(x) ==
  \/ x \in projects
  \/ \E p \in Procs : run[p][x[1]].n = x[2] \/ x \in removing[p]
  \/ x[1] \in working /\ attempt[x[1]] = x[2]

\* A root is the one of a project, of an attempt that runs and removes it if it
\* fails, of the attempt the row names, or one that is being removed.  No attempt
\* and no reclaim forgets a root it did not try to remove; a crash may.
ForgottenForCause ==
  [][\A x \in roots' : Tracked(x) /\ ~Tracked(x)' => x \in left' \/ \E p \in Procs : Crash(p)]_vars

\* The attempt that made root x is cleaning up after an error.
CleansUp(x) == \E p \in Procs : run[p][x[1]] = [at |-> "clean", n |-> x[2], lost |-> FALSE]

\* A project is inserted with its root there, and neither a reclaim nor an
\* attempt that lost its lease takes that root away: only the attempt that made
\* the project can, when the answer of its commit is lost.
RootRemovedByMakerOnly ==
  [][\A x \in projects' \ roots' : x \in projects /\ (x \in roots => CleansUp(x))]_vars

\* Roots come and go with the attempts and projects they belong to.
RootsFollowProjects == ForgottenForCause /\ RootRemovedByMakerOnly

\* The removals promise more: that only a crash leaves a root nobody knows of.
ForgottenByCrashOnly ==
  [][\A x \in roots' : Tracked(x) /\ ~Tracked(x)' => \E p \in Procs : Crash(p)]_vars

\* project_bootstrap_jobs.ts says that a project is inserted only after its
\* root is complete, and nothing takes that root away later.
ProjectHasRoot == projects \subseteq roots

\* A job that is asked for is completed or fails.
JobEnds == \A j \in Jobs : status[j] = "queued" ~> status[j] \in {"completed", "failed"}
=============================================================================
