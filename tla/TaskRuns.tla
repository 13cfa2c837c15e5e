------------------------------- MODULE TaskRuns -------------------------------
(***************************************************************************)
(* One task with a prompt and everybody who may move it: the user, the     *)
(* calls of executeTaskLifecycle (on request, by recovery, or by the job   *)
(* that answers an automatic-execution intent), the manual verification,   *)
(* the sweeps of abandoned tasks and the recovery coordinator.             *)
(*                                                                         *)
(* A step is one statement or transaction of the database.  What a call    *)
(* has read stays in its record until it acts on it.                       *)
(*                                                                         *)
(* Generation g of the task is retryCount = g.  The idempotency key of an  *)
(* execution names the task and the generation, so exec[g] is the only     *)
(* execution generation g can create; correlationId is the generation it   *)
(* points to, or NoPtr for an id that no execution has.  "open" stands for *)
(* the statuses pending and queued.  A worker id is fresh per claim.       *)
(***************************************************************************)
EXTENDS Integers

CONSTANTS
  Autos,       \* processes; each runs at most one automatic job of the task
  Calls,       \* requests, recovery jobs and manual verifications in flight
  Sweepers,    \* reconcilers of abandoned tasks, one per process
  MaxRetries,  \* tasks.maxRetries
  MaxClaims,   \* bound: claims in one behaviour
  MaxAttempt,  \* bound: the last attempt of an execution
  MaxAsks,     \* bound: requests for an automatic execution
  MaxFaults    \* bound: crashes, database errors, refusals

ASSUME ConstantsAssumption ==
  /\ MaxRetries \in Nat /\ MaxClaims \in Nat /\ MaxAttempt \in Nat
  /\ MaxAsks \in Nat /\ MaxFaults \in Nat
  /\ Autos \cap Calls = {}

VARIABLES
  task,      \* tasks: status, gen (retryCount), ptr (correlationId), holder (workerId), lease
  intent,    \* the automatic-execution event of the task: its generation and whether it is due
  exec,      \* ai_executions by generation, with the verdict of the current attempt
  run,       \* the calls in flight and what they have read
  sweep,     \* the generation a sweep has read, or none
  claims, faults, asked, autoRuns   \* claims, faults, requests and automatic runs so far

vars == <<task, intent, exec, run, sweep, claims, faults, asked, autoRuns>>

NoPtr == -1
AnyPtr == -2      \* the caller does not say which correlation it expects
NoGen == -1
NoWorker == 0
Runs == Autos \cup Calls
Gens == 0..MaxRetries
Workers == 1..MaxClaims
Claimable == {"open", "verifying"}

NoIntent == [gen |-> NoGen, due |-> FALSE]
NoExec == [status |-> "none", worker |-> NoWorker, lease |-> "none", attempt |-> 0,
           verdict |-> "none", gate |-> "open"]
Idle == [pc |-> "idle", gen |-> 0, ptr |-> NoPtr, from |-> "open", allowed |-> {},
         resume |-> FALSE, exec |-> 0, attempt |-> 0, worker |-> NoWorker]

TypeOK ==
  /\ task \in [status : Claimable \cup {"running", "completed", "failed", "cancelled"},
               gen : Gens, ptr : Gens \cup {NoPtr}, holder : Workers \cup {NoWorker},
               lease : {"none", "live", "expired"}]
  /\ intent \in [gen : Gens \cup {NoGen}, due : BOOLEAN]
  /\ exec \in [Gens -> [status : {"none", "running", "paused", "failed", "completed", "cancelled"},
                        worker : Workers \cup {NoWorker}, lease : {"none", "live", "expired"},
                        attempt : 0..MaxAttempt,
                        verdict : {"none", "resume", "retry", "expired", "final"},
                        gate : {"open", "shut"}]]
  /\ run \in [Runs -> [pc : {"idle", "persist", "queued", "admit", "read", "planned", "retry", "claim",
                             "work", "verify", "reread", "mark", "clear"},
                       gen : Gens, ptr : Gens \cup {NoPtr, AnyPtr}, from : Claimable,
                       allowed : SUBSET Claimable, resume : BOOLEAN, exec : Gens,
                       attempt : 0..MaxAttempt, worker : Workers \cup {NoWorker}]]
  /\ sweep \in [Sweepers -> Gens \cup {NoGen}]
  /\ claims \in 0..MaxClaims /\ faults \in 0..MaxFaults
  /\ asked \in 0..MaxAsks /\ autoRuns \in 0..MaxClaims

Init ==
  /\ task = [status |-> "open", gen |-> 0, ptr |-> NoPtr, holder |-> NoWorker, lease |-> "none"]
  /\ intent = NoIntent
  /\ exec = [g \in Gens |-> NoExec]
  /\ run = [r \in Runs |-> Idle]
  /\ sweep = [s \in Sweepers |-> NoGen]
  /\ claims = 0 /\ faults = 0 /\ asked = 0 /\ autoRuns = 0
-----------------------------------------------------------------------------
Ends(r) == run' = [run EXCEPT ![r] = Idle]
Goes(r, pc) == run' = [run EXCEPT ![r].pc = pc]
Fault == faults < MaxFaults /\ faults' = faults + 1

\* A refused call: the automatic job looks at the task again, others answer 409.
Conflict(r) == IF r \in Autos THEN Goes(r, "reread") ELSE Ends(r)

\* insertTaskAutoExecutionIntent, for the task locked at generation g.
Insert(g) == intent' = IF intent.gen = g THEN intent ELSE [gen |-> g, due |-> TRUE]

\* The matching intent is deleted, one of another generation stays.
Remove(g) == intent' = IF intent.gen = g THEN NoIntent ELSE intent
-----------------------------------------------------------------------------
(* The user.  Each of these handlers reads the task first and repeats what  *)
(* it decided on in the WHERE of its update.                                *)

\* PATCH /tasks/:id with status verifying: the intent is part of it.
Patch ==
  /\ task.status \in Claimable /\ task.holder = NoWorker
  /\ asked < MaxAsks
  /\ task' = [task EXCEPT !.status = "verifying"]
  /\ Insert(task.gen)
  /\ asked' = asked + 1
  /\ UNCHANGED <<exec, run, sweep, claims, faults, autoRuns>>

\* POST /tasks/:id/retry
Retry ==
  /\ task.status \in {"failed", "cancelled"}
  /\ task.gen < MaxRetries
  /\ task' = [task EXCEPT !.status = "open", !.gen = @ + 1, !.ptr = NoPtr]
  /\ UNCHANGED <<intent, exec, run, sweep, claims, faults, asked, autoRuns>>

\* POST /tasks/:id/rollback
Rollback ==
  /\ task.status \in Claimable \cup {"failed"}
  /\ task.holder = NoWorker
  /\ \A g \in Gens : exec[g].status \notin {"running", "paused"}
  /\ task' = [task EXCEPT !.status = "cancelled"]
  /\ UNCHANGED <<intent, exec, run, sweep, claims, faults, asked, autoRuns>>

\* POST /tasks/:id/verification, with the last open check passed.
Verify ==
  /\ task.status = "verifying" /\ task.holder = NoWorker
  /\ task' = [task EXCEPT !.status = "completed"]
  /\ UNCHANGED <<intent, exec, run, sweep, claims, faults, asked, autoRuns>>
-----------------------------------------------------------------------------
(* The automatic job of process a: scheduleAiTaskExecution and              *)
(* runAiTaskExecution.  While it is not idle a second call for the task     *)
(* returns at once.                                                         *)

\* The wake-up after the commit of an intent, or dispatchDeferredAiTaskExecutions.
Dispatch(a) ==
  /\ run[a].pc = "idle"
  /\ task.status = "verifying"
  /\ intent.gen # NoGen /\ intent.due
  /\ run' = [run EXCEPT ![a] = [Idle EXCEPT !.pc = "persist", !.gen = task.gen,
                                            !.ptr = AnyPtr, !.allowed = {"verifying"}]]
  /\ UNCHANGED <<task, intent, exec, sweep, claims, faults, asked, autoRuns>>

\* persistDeferredAiTaskExecution and the enqueue.
Persist(a) ==
  /\ run[a].pc = "persist"
  /\ IF task.status = "verifying" /\ task.gen = run[a].gen
     THEN Insert(task.gen) /\ Goes(a, "queued")
     ELSE UNCHANGED intent /\ Ends(a)
  /\ UNCHANGED <<task, exec, sweep, claims, faults, asked, autoRuns>>

\* The local queue is full: the intent waits for thirty seconds.
QueueFull(a) ==
  /\ run[a].pc = "queued"
  /\ Fault
  /\ Goes(a, "mark")
  /\ UNCHANGED <<task, intent, exec, sweep, claims, asked, autoRuns>>

Eligible(a) == task.status = "verifying" /\ task.gen = run[a].gen

\* The job starts and reads the task.
Look(a) ==
  /\ run[a].pc = "queued"
  /\ Goes(a, IF Eligible(a) THEN "admit" ELSE "clear")
  /\ UNCHANGED <<task, intent, exec, sweep, claims, faults, asked, autoRuns>>

\* No provider is configured or the project is rate limited.
Decline(a) ==
  /\ run[a].pc = "admit"
  /\ Fault
  /\ Goes(a, "mark")
  /\ UNCHANGED <<task, intent, exec, sweep, claims, asked, autoRuns>>

\* After a conflict.
Reread(a) ==
  /\ run[a].pc = "reread"
  /\ Goes(a, IF Eligible(a) THEN "mark" ELSE "clear")
  /\ UNCHANGED <<task, intent, exec, sweep, claims, faults, asked, autoRuns>>

\* Mutant: the completion of the job is never resolved.
MarkStaysBusy(a) ==
  /\ run[a].pc = "mark"
  /\ intent' = IF intent.gen = run[a].gen THEN [intent EXCEPT !.due = FALSE] ELSE intent
  /\ UNCHANGED <<task, exec, run, sweep, claims, faults, asked, autoRuns>>

\* markDeferredAiTaskExecution
Mark(a) ==
  /\ run[a].pc = "mark"
  /\ intent' = IF intent.gen = run[a].gen THEN [intent EXCEPT !.due = FALSE] ELSE intent
  /\ Ends(a)
  /\ UNCHANGED <<task, exec, sweep, claims, faults, asked, autoRuns>>

\* clearDeferredAiTaskExecution
Clear(a) ==
  /\ run[a].pc = "clear"
  /\ Remove(run[a].gen)
  /\ Ends(a)
  /\ UNCHANGED <<task, exec, sweep, claims, faults, asked, autoRuns>>

IntentDue ==
  /\ intent.gen # NoGen /\ ~intent.due
  /\ intent' = [intent EXCEPT !.due = TRUE]
  /\ UNCHANGED <<task, exec, run, sweep, claims, faults, asked, autoRuns>>
-----------------------------------------------------------------------------
(* The other calls of executeTaskLifecycle.                                 *)

Calling(c, pc, allowed, resume) ==
  run' = [run EXCEPT ![c] =
    [Idle EXCEPT !.pc = pc, !.gen = task.gen, !.ptr = task.ptr, !.allowed = allowed, !.resume = resume,
                 !.exec = IF resume THEN task.ptr ELSE 0,
                 !.attempt = IF resume THEN exec[task.ptr].attempt ELSE 0]]

\* POST /ai/tasks/:id/execute reads the task.
ExecuteRequest(c) ==
  /\ run[c].pc = "idle"
  /\ task.status \in Claimable
  /\ Calling(c, "read", {task.status}, FALSE)
  /\ UNCHANGED <<task, intent, exec, sweep, claims, faults, asked, autoRuns>>

\* The execution the task points to ended with a verdict that allows this.
Recoverable(verdicts) ==
  /\ task.status \in Claimable
  /\ task.ptr # NoPtr
  /\ exec[task.ptr].status \in {"paused", "failed"}
  /\ exec[task.ptr].verdict \in verdicts
  /\ exec[task.ptr].gate = "open"

\* POST /ai/tasks/:id/resume
ResumeRequest(c) ==
  /\ run[c].pc = "idle"
  /\ Recoverable({"resume", "expired"})
  /\ Calling(c, "read", {task.status}, TRUE)
  /\ UNCHANGED <<task, intent, exec, sweep, claims, faults, asked, autoRuns>>

\* dispatchAutonomousTaskRecoveries: the plan is queued as a job.
PlanResume(c) ==
  /\ run[c].pc = "idle"
  /\ Recoverable({"resume", "expired"}) /\ task.gen < MaxRetries
  /\ Calling(c, "planned", Claimable, TRUE)
  /\ UNCHANGED <<task, intent, exec, sweep, claims, faults, asked, autoRuns>>

PlanRetry(c) ==
  /\ run[c].pc = "idle"
  /\ Recoverable({"retry"}) /\ task.gen < MaxRetries
  /\ run' = [run EXCEPT ![c] =
       [Idle EXCEPT !.pc = "retry", !.gen = task.gen, !.ptr = task.ptr, !.allowed = {task.status},
                    !.exec = task.ptr, !.attempt = exec[task.ptr].attempt]]
  /\ UNCHANGED <<task, intent, exec, sweep, claims, faults, asked, autoRuns>>

\* deferRecoveryForRateLimit: the verdict gets a retryAt.
Defer(c) ==
  /\ run[c].pc \in {"planned", "retry"}
  /\ Fault
  /\ LET g == run[c].exec
     IN  exec' = IF exec[g].attempt = run[c].attempt
                    /\ exec[g].verdict \in (IF run[c].pc = "retry" THEN {"retry"} ELSE {"resume", "expired"})
                 THEN [exec EXCEPT ![g].gate = "shut"] ELSE exec
  /\ Ends(c)
  /\ UNCHANGED <<task, intent, sweep, claims, asked, autoRuns>>

\* The task and the execution are still what the plan was made for.
StillPlanned(c) ==
  LET e == exec[run[c].exec]
  IN  /\ task.status \in run[c].allowed /\ task.gen = run[c].gen /\ task.ptr = run[c].ptr
      /\ e.attempt = run[c].attempt /\ e.status \in {"paused", "failed"}
      /\ e.verdict = "retry" /\ e.gate = "open"

\* claimTaskRetry: the next generation, with a correlation of its own.
ClaimRetry(c) ==
  /\ run[c].pc = "retry"
  /\ IF StillPlanned(c)
     THEN /\ task' = [task EXCEPT !.gen = @ + 1, !.ptr = NoPtr]
          /\ run' = [run EXCEPT ![c] = [Idle EXCEPT !.pc = "read", !.gen = task.gen + 1,
                                                    !.ptr = AnyPtr, !.allowed = Claimable]]
     ELSE UNCHANGED task /\ Ends(c)
  /\ UNCHANGED <<intent, exec, sweep, claims, faults, asked, autoRuns>>
-----------------------------------------------------------------------------
(* executeTaskLifecycle.                                                    *)

\* The first read; the status to go back to after a failure is kept.
Read(r) ==
  /\ run[r].pc \in {"admit", "read", "planned"}
  /\ IF /\ task.gen = run[r].gen
        /\ run[r].ptr \in {AnyPtr, task.ptr}
        /\ task.status \in Claimable \cup {"running"}
     THEN run' = [run EXCEPT ![r].pc = "claim", ![r].ptr = task.ptr,
                             ![r].from = IF task.status = "running" THEN "verifying" ELSE task.status]
     ELSE Conflict(r)
  /\ UNCHANGED <<task, intent, exec, sweep, claims, faults, asked, autoRuns>>

\* The task is as it was read; all else is decided under its lock.
Locked(r) ==
  /\ task.status \in run[r].allowed
  /\ task.gen = run[r].gen
  /\ task.ptr = run[r].ptr

\* The execution a claim would run.
Target(r) == IF run[r].resume THEN run[r].exec ELSE run[r].gen

CanResume(r) ==
  LET e == exec[run[r].exec]
  IN  /\ run[r].ptr = run[r].exec
      /\ e.status \in {"paused", "failed"} /\ e.attempt = run[r].attempt

CanStart(r) ==
  LET e == exec[run[r].gen]
  IN  e.status = "none" \/ (run[r].ptr = run[r].gen /\ e.status \in {"paused", "failed"})

Granted(r) ==
  Locked(r) /\ IF run[r].resume
               THEN CanResume(r) /\ exec[run[r].exec].gate = "open"
                    /\ exec[run[r].exec].verdict \in {"resume", "expired"}
               ELSE CanStart(r)

\* Mutant: the task keeps pointing to the execution before.
TakeKeepsPointer(r) ==
  LET g == Target(r)
      a == IF run[r].resume THEN exec[g].attempt + 1 ELSE exec[g].attempt
  IN  /\ claims < MaxClaims
      /\ a <= MaxAttempt
      /\ claims' = claims + 1
      /\ autoRuns' = IF r \in Autos THEN autoRuns + 1 ELSE autoRuns
      /\ task' = [task EXCEPT !.status = "running", !.holder = claims + 1, !.lease = "live"]
      /\ exec' = [exec EXCEPT ![g] = [@ EXCEPT !.status = "running", !.worker = claims + 1, !.lease = "live"]]
      /\ run' = [run EXCEPT ![r].pc = "work", ![r].exec = g, ![r].attempt = a, ![r].worker = claims + 1]
      /\ UNCHANGED <<sweep, faults, asked>>

\* The effects of a claim, but for the intent.
Take(r) ==
  LET g == Target(r)
      a == IF run[r].resume THEN exec[g].attempt + 1 ELSE exec[g].attempt
  IN  /\ claims < MaxClaims
      /\ a <= MaxAttempt
      /\ claims' = claims + 1
      /\ autoRuns' = IF r \in Autos THEN autoRuns + 1 ELSE autoRuns
      /\ task' = [task EXCEPT !.status = "running", !.ptr = g, !.holder = claims + 1, !.lease = "live"]
      /\ exec' = [exec EXCEPT ![g] =
           [@ EXCEPT !.status = "running", !.worker = claims + 1, !.lease = "live", !.attempt = a,
                     !.verdict = IF run[r].resume THEN "none" ELSE exec[g].verdict, !.gate = "open"]]
      /\ run' = [run EXCEPT ![r].pc = "work", ![r].exec = g, ![r].attempt = a, ![r].worker = claims + 1]
      /\ UNCHANGED <<sweep, faults, asked>>

\* Execution, attempt, token, task and intent in one transaction.
Claim(r) == run[r].pc = "claim" /\ Granted(r) /\ Take(r) /\ Remove(run[r].gen)

\* The transaction returns a conflict, and commits, while the retry window is
\* still closed; every other conflict is thrown and rolls it back.
ClaimRefused(r) ==
  /\ run[r].pc = "claim"
  /\ ~Granted(r)
  /\ IF Locked(r) /\ run[r].resume /\ CanResume(r) /\ exec[run[r].exec].gate = "shut"
     THEN Remove(run[r].gen) ELSE UNCHANGED intent
  /\ Conflict(r)
  /\ UNCHANGED <<task, exec, sweep, claims, faults, asked, autoRuns>>

Holds(r) == task.status = "running" /\ task.holder = run[r].worker
OwnsExec(r) ==
  LET e == exec[run[r].exec]
  IN  e.status = "running" /\ e.worker = run[r].worker /\ e.attempt = run[r].attempt /\ e.lease = "live"

\* heartbeatTaskExecution renews both leases or neither; a renewal shows as a
\* lease that does not expire.
HeartbeatRejected(r) ==
  /\ run[r].pc = "work"
  /\ ~(Holds(r) /\ task.lease = "live" /\ OwnsExec(r))
  /\ Conflict(r)
  /\ UNCHANGED <<task, intent, exec, sweep, claims, faults, asked, autoRuns>>

\* What a call records: of the execution, its verdict and the task's status.  A
\* rate limit leaves an attempt that may be resumed when its retry window opens.
Recorded(execs, verdicts, tasks, gates) == [exec : execs, verdict : verdicts, task : tasks, gate : gates]
Outcomes ==
  UNION {Recorded({"completed"}, {"final"}, {"completed", "verifying"}, {"open"}),
         Recorded({"failed"}, {"resume"}, {"verifying"}, {"open"}),
         Recorded({"failed"}, {"resume"}, {"back"}, {"open", "shut"}),
         Recorded({"failed"}, {"retry", "final"}, {"back"}, {"open"}),
         Recorded({"cancelled"}, {"final"}, {"back"}, {"open"})}

\* The attempt has no verdict, or only that its lease expired.
Unjudged(r) == exec[run[r].exec].verdict \in {"none", "expired"}

\* Mutant: the task is not locked with its worker and status.
RecordsForExec(r) == OwnsExec(r) /\ Unjudged(r)

Records(r) == Holds(r) /\ OwnsExec(r) /\ Unjudged(r)

\* finalizeTaskExecutionAcceptance: the verdict and the task in one
\* transaction.  A verdict that is already there makes it a duplicate.
Finish(r, o) ==
  /\ run[r].pc = "work"
  /\ IF Records(r)
     THEN /\ exec' = [exec EXCEPT ![run[r].exec] =
               [@ EXCEPT !.status = o.exec, !.verdict = o.verdict, !.gate = o.gate,
                         !.worker = NoWorker, !.lease = "none"]]
          /\ task' = [task EXCEPT !.status = IF o.task = "back" THEN run[r].from ELSE o.task,
                                  !.holder = NoWorker, !.lease = "none"]
     ELSE UNCHANGED <<exec, task>>
  /\ IF r \in Autos /\ ~(Records(r) /\ o.exec = "completed") THEN Goes(r, "mark") ELSE Ends(r)
  /\ UNCHANGED <<intent, sweep, claims, faults, asked, autoRuns>>

\* A statement fails, or its answer is lost; a call that worked has then
\* failed to record anything.  The job defers the intent, if that succeeds.
RunFails(r) ==
  /\ run[r].pc \notin {"idle", "verify"}
  /\ Fault
  /\ IF r \in Autos /\ run[r].pc \notin {"persist", "mark"} THEN Goes(r, "mark") ELSE Ends(r)
  /\ UNCHANGED <<task, intent, exec, sweep, claims, asked, autoRuns>>

\* The process of the call dies.
Crash(r) ==
  /\ run[r].pc # "idle"
  /\ Fault
  /\ Ends(r)
  /\ UNCHANGED <<task, intent, exec, sweep, claims, asked, autoRuns>>
-----------------------------------------------------------------------------
(* The manual verification, POST /tasks/:id/execute.                        *)

VerifyClaim(c) ==
  /\ run[c].pc = "idle"
  /\ task.status = "open"
  /\ claims < MaxClaims
  /\ claims' = claims + 1
  /\ task' = [task EXCEPT !.status = "running", !.holder = claims + 1, !.lease = "live"]
  /\ run' = [run EXCEPT ![c] = [Idle EXCEPT !.pc = "verify", !.worker = claims + 1]]
  /\ UNCHANGED <<intent, exec, sweep, faults, asked, autoRuns>>

\* Status s is the result, or the one before if the verification threw; an
\* incomplete one asks for an automatic execution.
VerifyEnds(c, s) ==
  /\ run[c].pc = "verify"
  /\ IF Holds(c) /\ task.lease = "live"
     THEN /\ s = "verifying" => asked < MaxAsks
          /\ task' = [task EXCEPT !.status = s, !.holder = NoWorker, !.lease = "none"]
          /\ IF s = "verifying" THEN Insert(task.gen) /\ asked' = asked + 1
             ELSE UNCHANGED <<intent, asked>>
     ELSE UNCHANGED <<task, intent, asked>>
  /\ Ends(c)
  /\ UNCHANGED <<exec, sweep, claims, faults, autoRuns>>
-----------------------------------------------------------------------------
(* Leases, windows and the reconcilers.                                     *)

TaskLeaseExpires ==
  /\ task.lease = "live"
  /\ task' = [task EXCEPT !.lease = "expired"]
  /\ UNCHANGED <<intent, exec, run, sweep, claims, faults, asked, autoRuns>>

ExecLeaseExpires(g) ==
  /\ exec[g].lease = "live"
  /\ exec' = [exec EXCEPT ![g].lease = "expired"]
  /\ UNCHANGED <<task, intent, run, sweep, claims, faults, asked, autoRuns>>

GateOpens(g) ==
  /\ exec[g].gate = "shut"
  /\ exec' = [exec EXCEPT ![g].gate = "open"]
  /\ UNCHANGED <<task, intent, run, sweep, claims, faults, asked, autoRuns>>

\* The reconciler of executions; an attempt that has a verdict keeps it.
SweepExec(g) ==
  /\ exec[g].status = "running" /\ exec[g].lease = "expired" /\ exec[g].verdict = "none"
  /\ exec' = [exec EXCEPT ![g] = [@ EXCEPT !.status = "paused", !.verdict = "expired",
                                           !.worker = NoWorker, !.lease = "none"]]
  /\ UNCHANGED <<task, intent, run, sweep, claims, faults, asked, autoRuns>>

\* Mutant: a running task is taken for abandoned.
AbandonedAnyLease == task.status = "running"

Abandoned == task.status = "running" /\ task.lease = "expired"

SweepRead(s) ==
  /\ sweep[s] = NoGen
  /\ Abandoned
  /\ sweep' = [sweep EXCEPT ![s] = task.gen]
  /\ UNCHANGED <<task, intent, exec, run, claims, faults, asked, autoRuns>>

\* reconcileStaleAiTasks and, at startup, reconcileAiTasks, which leaves the
\* count of a task it fails alone.  Both count from what they have read.
SweepWrite(s) ==
  /\ sweep[s] # NoGen
  /\ IF Abandoned
     THEN \/ /\ sweep[s] < MaxRetries
             /\ task' = [task EXCEPT !.status = "verifying", !.gen = sweep[s] + 1,
                                     !.holder = NoWorker, !.lease = "none"]
          \/ /\ sweep[s] >= MaxRetries
             /\ \E g \in {sweep[s], task.gen} :
                  task' = [task EXCEPT !.status = "failed", !.gen = g, !.holder = NoWorker, !.lease = "none"]
     ELSE UNCHANGED task
  /\ sweep' = [sweep EXCEPT ![s] = NoGen]
  /\ UNCHANGED <<intent, exec, run, claims, faults, asked, autoRuns>>
-----------------------------------------------------------------------------
Lifecycle(r) ==
  \/ Read(r) \/ Claim(r) \/ ClaimRefused(r) \/ HeartbeatRejected(r)
  \/ (\E o \in Outcomes : Finish(r, o))
Job(a) == Persist(a) \/ Look(a) \/ Reread(a) \/ Mark(a) \/ Clear(a)
Steps(c) == ClaimRetry(c) \/ (\E s \in {"completed", "failed", "verifying", "open"} : VerifyEnds(c, s))

Next ==
  \/ Patch \/ Retry \/ Rollback \/ Verify \/ IntentDue
  \/ \E a \in Autos : Dispatch(a) \/ Job(a) \/ QueueFull(a) \/ Decline(a)
  \/ \E c \in Calls : ExecuteRequest(c) \/ ResumeRequest(c) \/ PlanResume(c) \/ PlanRetry(c) \/ Defer(c)
                      \/ VerifyClaim(c) \/ Steps(c)
  \/ \E r \in Runs : Lifecycle(r) \/ RunFails(r) \/ Crash(r)
  \/ TaskLeaseExpires
  \/ \E g \in Gens : ExecLeaseExpires(g) \/ GateOpens(g) \/ SweepExec(g)
  \/ \E s \in Sweepers : SweepRead(s) \/ SweepWrite(s)

Spec == Init /\ [][Next]_vars

\* A call that still runs keeps its leases alive.  Timers, queued jobs and
\* the periodic dispatch and sweeps go on; retry windows end.
Alive(w) == \E r \in Runs : run[r].pc \in {"work", "verify"} /\ run[r].worker = w

Fairness ==
  /\ \A a \in Autos : WF_vars(Dispatch(a)) /\ WF_vars(Job(a))
  /\ \A r \in Runs : WF_vars(Lifecycle(r))
  /\ \A c \in Calls : WF_vars(Steps(c))
  /\ \A s \in Sweepers : WF_vars(SweepRead(s)) /\ WF_vars(SweepWrite(s))
  /\ WF_vars(IntentDue)
  /\ WF_vars(~Alive(task.holder) /\ TaskLeaseExpires)
  /\ \A g \in Gens : /\ WF_vars(~Alive(exec[g].worker) /\ ExecLeaseExpires(g))
                     /\ WF_vars(SweepExec(g)) /\ WF_vars(GateOpens(g))

FairSpec == Spec /\ Fairness
-----------------------------------------------------------------------------
(* Properties.                                                              *)

Working(r) == run[r].pc = "work" /\ Holds(r)

\* While a claimed run holds the task no intent of its generation exists, so
\* that the dispatcher cannot start the generation a second time beside it,
\* whoever asks, retries or sweeps in between (the claim deletes the intent
\* and every insert needs a verifying task).
ClaimedTaskHasNoIntent == \A r \in Runs : Working(r) => intent.gen # task.gen

\* A call that holds the task runs the execution the task points to, at the
\* generation and attempt it claimed, and nobody else runs that execution;
\* the most that can have happened to it is that its lease was swept.
HolderRunsPointed ==
  \A r \in Runs : Working(r) =>
    /\ task.ptr = run[r].exec
    /\ task.gen = run[r].gen
    /\ exec[task.ptr].attempt = run[r].attempt
    /\ exec[task.ptr].worker = run[r].worker \/ exec[task.ptr].status = "paused"

\* The task, its intent and its executions agree about the run that holds it.
RunsAgree == TypeOK /\ ClaimedTaskHasNoIntent /\ HolderRunsPointed

\* An execution is accepted as completed only together with the task it was
\* claimed for: the task was running it, held by the same worker, and gets
\* its result (finalizeExecutionAcceptance with a task finalization).
ResultsAgree ==
  [][\A g \in Gens : exec[g].status # "completed" /\ exec'[g].status = "completed" =>
       /\ task.status = "running" /\ task.ptr = g /\ task.holder = exec[g].worker
       /\ task'.status \in {"completed", "verifying"} /\ task'.holder = NoWorker]_vars

\* A running task is given up only by the call that holds it, or after its
\* lease ran out: no user, sweep or other call takes it from a live holder.
EndedByHolder ==
  [][task.status = "running" /\ task'.holder # task.holder =>
       \/ task.lease = "expired"
       \/ \E r \in Runs : run[r].worker = task.holder /\ run[r].pc \in {"work", "verify"}
                          /\ run'[r].pc \notin {"work", "verify"}]_vars

\* No task stays running for ever: a dead or fenced call, a result that
\* cannot be recorded or a crash ends with a sweep.
RunningEnds == task.status = "running" ~> task.status # "running"

\* The execution of this generation can be claimed.
Servable ==
  LET e == exec[task.gen]
  IN  e.status = "none" \/ (task.ptr = task.gen /\ e.status \in {"paused", "failed"})

Waiting == task.status = "verifying" /\ intent.gen = task.gen /\ Servable

\* An intent that can be served is: refusals, full queues, database errors
\* and crashes defer it, and none of them loses its turn for ever.
IntentServed == Waiting ~> ~Waiting \/ claims = MaxClaims

\* Both: a task neither stays running nor waits for ever.
TasksMoveOn == RunningEnds /\ IntentServed

\* What the repository says and the code does not do.

\* An intent of the task's generation is deleted only by a claim.
DeletedOnlyByClaim ==
  [][task.status = "verifying" /\ intent.gen = task.gen /\ intent'.gen # intent.gen => claims' # claims]_vars

\* A request for an automatic execution leads to one run at most.
RequestRunsOnce == autoRuns <= asked

\* A call that reaches its end while it holds everything records an outcome.
LiveRunIsRecorded ==
  [][\A r \in Runs :
       run[r].pc = "work" /\ run'[r].pc \in {"idle", "mark"} /\ UNCHANGED faults
       /\ Holds(r) /\ task.lease = "live" /\ OwnsExec(r) => task'.status # "running"]_vars

\* A task that waits can be triggered again: its generation has no execution
\* yet, or the one it points to.
RetriggerPossible ==
  task.status \in Claimable => exec[task.gen].status = "none" \/ task.ptr = task.gen

\* Every intent is consumed, by a claim or because the task moved on.
IntentConsumed ==
  task.status = "verifying" /\ intent.gen = task.gen
    ~> task.status # "verifying" \/ intent.gen # task.gen \/ claims = MaxClaims

\* A retry that recovery has counted is run, unless the task moves on.
RetryIsRun ==
  \A g \in Gens :
    (\E c \in Calls : run[c].pc = "read" /\ run[c].ptr = AnyPtr /\ run[c].gen = g)
      ~> exec[g].status # "none" \/ task.gen # g \/ task.status \notin Claimable \/ claims = MaxClaims
=============================================================================
