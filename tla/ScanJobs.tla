------------------------------ MODULE ScanJobs ------------------------------
(***************************************************************************)
(* Durable project scans: the scan_jobs rows, the project rows they        *)
(* occupy, the advisory lock of a project, and the API server processes    *)
(* that create, claim, run, fail and recover the jobs                      *)
(* (lib/job-lease.ts, lib/scan-runner.ts, lib/advisory-lock.ts and the     *)
(* scan parts of lib/job-reconciliation.ts, with the two kinds of producer *)
(* in routes/projects.ts and routes/git.ts).                               *)
(*                                                                         *)
(* A step is one database statement or transaction together with the       *)
(* synchronous code that runs on its answer: JavaScript interleaves only   *)
(* at an await.  A database fault either keeps a statement from happening  *)
(* or loses its answer after it committed.                                 *)
(*                                                                         *)
(* Time.  Every deadline is compared with the clock of the database, so a  *)
(* lease is "live" until its deadline passes and "expired" from then on; a *)
(* renewal moves the deadline of a live lease.                             *)
(***************************************************************************)
EXTENDS Integers, FiniteSets

CONSTANTS
  Procs,        \* API server processes
  Jobs,         \* scan_jobs rows that may be created
  Projects,
  ProjectOf,    \* the project a job scans
  Keys,         \* values of hashId
  LockKey,      \* the advisory-lock key a project id hashes to
  Admitted,     \* jobs created by POST /scan; the others follow a git push
  NoWorker,     \* the null worker_id
  MaxRetries,   \* scan_jobs.max_retries
  Slots,        \* heavyJobQueue concurrency
  MaxPending,   \* heavyJobQueue waiting capacity
  Faults,       \* kinds of fault the environment may inject
  MaxFaults,    \* bound: faults injected in one behaviour
  MaxDirect     \* bound: direct scans started in one behaviour

FaultKinds == {"crash", "database", "session", "pushAnswer"}

ASSUME ConstantsAssumption ==
  /\ IsFiniteSet(Jobs)
  /\ ProjectOf \in [Jobs -> Projects]
  /\ LockKey \in [Projects -> Keys]
  /\ Admitted \in SUBSET Jobs
  /\ NoWorker \notin Procs
  /\ MaxRetries \in Nat
  /\ Slots \in Nat \ {0}
  /\ MaxPending \in Nat \ {0}
  /\ Faults \in SUBSET FaultKinds
  /\ MaxFaults \in Nat
  /\ MaxDirect \in Nat

VARIABLES
  \* scan_jobs
  status, worker, lease, retry, createdAt,
  \* projects.status, and the events table: outcomes published per job
  project, scanned, failures,
  \* pg_try_advisory_lock sessions
  lock,
  \* memory of each process
  up, runner, timer, stale,
  \* requests that create jobs, scans that use none
  route, direct,
  \* history: claims of a row, and counted retries that a late sweep wrote over; bounds
  attempts, lost, faults, directs

rowVars == <<status, worker, lease, retry, createdAt>>
outcomeVars == <<project, scanned, failures>>
memoryVars == <<up, runner, timer, stale>>
requestVars == <<route, direct>>
boundVars == <<attempts, lost, faults, directs>>
vars == <<rowVars, outcomeVars, lock, memoryVars, requestVars, boundVars>>

Active == {"queued", "running"}
Terminal == {"completed", "failed"}
Statuses == {"absent"} \cup Active \cup Terminal
Phases == {"idle", "waiting", "claim", "scan", "commit", "fail", "release"}

\* Phases of a runner that holds a slot; it holds the project lock in each.
Running == {"claim", "scan", "commit", "fail", "release"}

Free == <<"free">>
Orphan == <<"orphan">>
RunnerOf(p, j) == <<"runner", p, j>>
RouteOf(p, j) == <<"route", p, j>>
DirectOf(p, q) == <<"direct", p, q>>
Holders ==
  {Free, Orphan} \cup ({"runner", "route"} \X Procs \X Jobs) \cup ({"direct"} \X Procs \X Projects)

TypeOK ==
  /\ status \in [Jobs -> Statuses]
  /\ worker \in [Jobs -> Procs \cup {NoWorker}]
  /\ lease \in [Jobs -> {"none", "live", "expired"}]
  /\ retry \in [Jobs -> 0..MaxRetries]
  /\ createdAt \in [Jobs -> Nat]
  /\ project \in [Projects -> {"active", "scanning"}]
  /\ scanned \in [Jobs -> Nat]
  /\ failures \in [Jobs -> Nat]
  /\ lock \in [Keys -> Holders]
  /\ up \in [Procs -> BOOLEAN]
  /\ runner \in [Procs -> [Jobs -> Phases]]
  /\ timer \in [Procs -> SUBSET Jobs]
  /\ stale \in [Procs -> SUBSET (Jobs \X (0..MaxRetries))]
  /\ route \in [Jobs -> [proc : Procs \cup {NoWorker}, at : {"idle", "check", "insert", "enqueue", "undo", "done"}]]
  /\ direct \in [Procs -> [Projects -> {"idle", "check", "scan", "release"}]]
  /\ attempts \in [Jobs -> Nat]
  /\ lost \in [Jobs -> Nat]
  /\ faults \in 0..MaxFaults
  /\ directs \in 0..MaxDirect

Init ==
  /\ status = [j \in Jobs |-> "absent"]
  /\ worker = [j \in Jobs |-> NoWorker]
  /\ lease = [j \in Jobs |-> "none"]
  /\ retry = [j \in Jobs |-> 0]
  /\ createdAt = [j \in Jobs |-> 0]
  /\ project = [q \in Projects |-> "active"]
  /\ scanned = [j \in Jobs |-> 0]
  /\ failures = [j \in Jobs |-> 0]
  /\ lock = [k \in Keys |-> Free]
  /\ up = [p \in Procs |-> TRUE]
  /\ runner = [p \in Procs |-> [j \in Jobs |-> "idle"]]
  /\ timer = [p \in Procs |-> {}]
  /\ stale = [p \in Procs |-> {}]
  /\ route = [j \in Jobs |-> [proc |-> NoWorker, at |-> "idle"]]
  /\ direct = [p \in Procs |-> [q \in Projects |-> "idle"]]
  /\ attempts = [j \in Jobs |-> 0]
  /\ lost = [j \in Jobs |-> 0]
  /\ faults = 0
  /\ directs = 0
-----------------------------------------------------------------------------
\* The environment injects one more fault of a kind it may inject.
Inject(kind) ==
  /\ kind \in Faults
  /\ faults < MaxFaults
  /\ faults' = faults + 1
  /\ UNCHANGED <<attempts, lost, directs>>

ActiveJobs(q) == {j \in Jobs : ProjectOf[j] = q /\ status[j] \in Active}
Queued == {j \in Jobs : status[j] = "queued"}

KeyOf(j) == LockKey[ProjectOf[j]]

\* pg_advisory_unlock by the session of holder h; a session that was lost holds nothing.
Unlock(k, h) == lock' = IF lock[k] = h THEN [lock EXCEPT ![k] = Free] ELSE lock

\* The connection went back to the pool with the lock still held, until its session ends.
LeaveLocked(k, h) == lock' = IF lock[k] = h THEN [lock EXCEPT ![k] = Orphan] ELSE lock

\* pg_try_advisory_lock failed, before or after the server granted it to the session.
LockAnswerLost(k) ==
  \/ UNCHANGED lock
  \/ lock[k] = Free /\ lock' = [lock EXCEPT ![k] = Orphan]

\* lock.release(): the unlock statement, and the connection returned whether or not it worked.
GiveBack(k, h) ==
  \/ Unlock(k, h) /\ UNCHANGED boundVars
  \/ LeaveLocked(k, h) /\ Inject("database")

(* The process-local queue.  JobQueue.tla models it; here only what a       *)
(* producer can observe: a tracked id is refused, so is any id when full.   *)
Tracked(p) == {j \in Jobs : runner[p][j] # "idle"}
Capacity(p) == MaxPending - Cardinality({j \in Jobs : runner[p][j] = "waiting"})
FreeSlot(p) == Cardinality({j \in Jobs : runner[p][j] \in Running}) < Slots

Oldest(S, n) == {j \in S : Cardinality({k \in S : createdAt[k] < createdAt[j]}) < n}

\* enqueueWithId of each row in S, oldest first, at process p.
Enqueue(p, S) ==
  runner' = [runner EXCEPT ![p] =
    [j \in Jobs |->
       IF j \in Oldest(S \ Tracked(p), Capacity(p)) THEN "waiting" ELSE runner[p][j]]]

EndRow(j, outcome) ==
  /\ status' = [status EXCEPT ![j] = outcome]
  /\ worker' = [worker EXCEPT ![j] = NoWorker]
  /\ lease' = [lease EXCEPT ![j] = "none"]
  /\ UNCHANGED <<retry, createdAt>>

ShowActive(q) == project' = [project EXCEPT ![q] = "active"]

\* Mutant: the fence forgets the deadline.
OwnsExpired(p, j) == status[j] = "running" /\ worker[j] = p

\* The fence of every write a worker makes to its row.
Owns(p, j) == status[j] = "running" /\ worker[j] = p /\ lease[j] = "live"

\* Mutant: recovery looks at the lease only.
AbandonedAnyStatus(j) == lease[j] # "live"

\* The fence of recovery (staleScanLeaseCondition).
Abandoned(j) == status[j] = "running" /\ lease[j] # "live"
-----------------------------------------------------------------------------
(* Producers.                                                               *)

\* The transaction that queues a scan: row, project status and event together.
InsertRow(j) ==
  /\ status' = [status EXCEPT ![j] = "queued"]
  /\ createdAt' = [createdAt EXCEPT ![j] = 1 + Cardinality({k \in Jobs : status[k] # "absent"})]
  /\ project' = [project EXCEPT ![ProjectOf[j]] = "scanning"]
  /\ UNCHANGED <<worker, lease, retry, scanned, failures>>

Route(j, p, at) == route' = [route EXCEPT ![j] = [proc |-> p, at |-> at]]

\* POST /scan takes the project lock.  Every request has a fresh job id, used once; a request that finds it held changes nothing.
RouteLock(p, j) ==
  /\ j \in Admitted /\ up[p] /\ route[j].at = "idle"
  /\ lock[KeyOf(j)] = Free
  /\ lock' = [lock EXCEPT ![KeyOf(j)] = RouteOf(p, j)]
  /\ Route(j, p, "check")
  /\ UNCHANGED <<rowVars, outcomeVars, memoryVars, direct, boundVars>>

\* The lock statement fails, perhaps after the server granted it: the answer is 503.
RouteLockFails(p, j) ==
  /\ j \in Admitted /\ up[p] /\ route[j].at = "idle"
  /\ Inject("database")
  /\ LockAnswerLost(KeyOf(j))
  /\ Route(j, NoWorker, "done")
  /\ UNCHANGED <<rowVars, outcomeVars, memoryVars, direct>>

\* An active job is returned instead of creating a duplicate.
RouteReuse(p, j) ==
  /\ route[j] = [proc |-> p, at |-> "check"]
  /\ ActiveJobs(ProjectOf[j]) # {}
  /\ GiveBack(KeyOf(j), RouteOf(p, j))
  /\ Route(j, NoWorker, "done")
  /\ UNCHANGED <<rowVars, outcomeVars, memoryVars, direct>>

\* Mutant: the request is admitted whatever is active.
RouteAdmitUnchecked(p, j) ==
  /\ route[j] = [proc |-> p, at |-> "check"]
  /\ Route(j, p, "insert")
  /\ UNCHANGED <<rowVars, outcomeVars, lock, memoryVars, direct, boundVars>>

RouteAdmit(p, j) ==
  /\ route[j] = [proc |-> p, at |-> "check"]
  /\ ActiveJobs(ProjectOf[j]) = {}
  /\ Route(j, p, "insert")
  /\ UNCHANGED <<rowVars, outcomeVars, lock, memoryVars, direct, boundVars>>

RouteInsert(p, j) ==
  /\ route[j] = [proc |-> p, at |-> "insert"]
  /\ InsertRow(j)
  /\ Route(j, p, "enqueue")
  /\ UNCHANGED <<lock, memoryVars, direct, boundVars>>

\* The insert fails, or commits unseen: either way the lock is released and the answer is 500.
RouteInsertFails(p, j) ==
  /\ route[j] = [proc |-> p, at |-> "insert"]
  /\ Inject("database")
  /\ UNCHANGED <<rowVars, outcomeVars>> \/ InsertRow(j)
  /\ Unlock(KeyOf(j), RouteOf(p, j)) \/ LeaveLocked(KeyOf(j), RouteOf(p, j))
  /\ Route(j, NoWorker, "done")
  /\ UNCHANGED <<memoryVars, direct>>

RouteEnqueue(p, j) ==
  /\ j \in Admitted
  /\ route[j] = [proc |-> p, at |-> "enqueue"]
  /\ GiveBack(KeyOf(j), RouteOf(p, j))
  /\ Enqueue(p, {j})
  /\ Route(j, NoWorker, "done")
  /\ UNCHANGED <<rowVars, outcomeVars, up, timer, stale, direct>>

\* After a git push (and in AI chat) the row is inserted without the lock and without a look at the others.
PushInsert(p, j) ==
  /\ j \in Jobs \ Admitted /\ up[p] /\ route[j].at = "idle"
  /\ InsertRow(j)
  /\ Route(j, p, "enqueue")
  /\ UNCHANGED <<lock, memoryVars, direct, boundVars>>

PushEnqueue(p, j) ==
  /\ j \in Jobs \ Admitted
  /\ route[j] = [proc |-> p, at |-> "enqueue"]
  /\ Enqueue(p, {j})
  /\ Route(j, NoWorker, "done")
  /\ UNCHANGED <<rowVars, outcomeVars, lock, up, timer, stale, direct, boundVars>>

\* The insert fails: the catch block finds no row to fail, but shows the project as active.
PushInsertFails(p, j) ==
  /\ j \in Jobs \ Admitted /\ up[p] /\ route[j].at = "idle"
  /\ Inject("database")
  /\ ShowActive(ProjectOf[j])
  /\ Route(j, NoWorker, "done")
  /\ UNCHANGED <<rowVars, scanned, failures, lock, memoryVars, direct>>

\* The insert commits but its answer is lost, so the route takes it for failed.
PushAnswerLost(p, j) ==
  /\ j \in Jobs \ Admitted /\ up[p] /\ route[j].at = "idle"
  /\ Inject("pushAnswer")
  /\ InsertRow(j)
  /\ Route(j, p, "undo")
  /\ UNCHANGED <<lock, memoryVars, direct>>

\* The catch block writes the outcome by id alone: no status and no owner in its WHERE.
PushUndo(p, j) ==
  /\ route[j] = [proc |-> p, at |-> "undo"]
  /\ status' = [status EXCEPT ![j] = "failed"]
  /\ ShowActive(ProjectOf[j])
  /\ Route(j, NoWorker, "done")
  /\ UNCHANGED <<worker, lease, retry, createdAt, scanned, failures, lock, memoryVars, direct, boundVars>>
-----------------------------------------------------------------------------
(* A direct scan (performScan without ownership): the lock, no job.         *)

\* Mutant: a direct caller does not take the lock.
DirectLockBypassed(p, q) ==
  /\ up[p] /\ direct[p][q] = "idle" /\ directs < MaxDirect
  /\ direct' = [direct EXCEPT ![p][q] = "check"]
  /\ directs' = directs + 1
  /\ UNCHANGED <<rowVars, outcomeVars, lock, memoryVars, route, attempts, lost, faults>>

DirectLock(p, q) ==
  /\ up[p] /\ direct[p][q] = "idle" /\ directs < MaxDirect
  /\ lock[LockKey[q]] = Free
  /\ lock' = [lock EXCEPT ![LockKey[q]] = DirectOf(p, q)]
  /\ direct' = [direct EXCEPT ![p][q] = "check"]
  /\ directs' = directs + 1
  /\ UNCHANGED <<rowVars, outcomeVars, memoryVars, route, attempts, lost, faults>>

DirectStart(p, q) ==
  /\ direct[p][q] = "check"
  /\ ActiveJobs(q) = {}
  /\ direct' = [direct EXCEPT ![p][q] = "scan"]
  /\ UNCHANGED <<rowVars, outcomeVars, lock, memoryVars, route, boundVars>>

\* Refused because a job is active, ended in an error, or done: the lock is given back.
DirectEnds(p, q) ==
  /\ \/ direct[p][q] = "check" /\ ActiveJobs(q) # {}
     \/ direct[p][q] \in {"scan", "release"}
  /\ direct' = [direct EXCEPT ![p][q] = "idle"]
  /\ GiveBack(LockKey[q], DirectOf(p, q))
  /\ UNCHANGED <<rowVars, outcomeVars, memoryVars, route>>

\* The unfenced transaction; it also restores a project that shows "scanning".
DirectCommit(p, q) ==
  /\ direct[p][q] = "scan"
  /\ ShowActive(q)
  /\ direct' = [direct EXCEPT ![p][q] = "release"]
  /\ UNCHANGED <<rowVars, scanned, failures, lock, memoryVars, route, boundVars>>
-----------------------------------------------------------------------------
(* The runner (runScanJob), one per process and tracked job.                *)

RunnerTo(p, j, phase) == runner' = [runner EXCEPT ![p][j] = phase]

\* scheduleQueuedScanRetry
RetryLater(p, j) == timer' = [timer EXCEPT ![p] = @ \cup {j}]

\* A slot takes the job from the queue and the runner tries the project lock.
Start(p, j) ==
  /\ runner[p][j] = "waiting" /\ FreeSlot(p)
  /\ lock[KeyOf(j)] = Free
  /\ lock' = [lock EXCEPT ![KeyOf(j)] = RunnerOf(p, j)]
  /\ RunnerTo(p, j, "claim")
  /\ UNCHANGED <<rowVars, outcomeVars, up, timer, stale, requestVars, boundVars>>

\* The lock is busy: the row stays queued and a timer tries again.
StartBusy(p, j) ==
  /\ runner[p][j] = "waiting" /\ FreeSlot(p)
  /\ lock[KeyOf(j)] # Free
  /\ RunnerTo(p, j, "idle")
  /\ RetryLater(p, j)
  /\ UNCHANGED <<rowVars, outcomeVars, lock, up, stale, requestVars, boundVars>>

\* The lock statement fails, perhaps after the server granted it to the session.
StartFails(p, j) ==
  /\ runner[p][j] = "waiting" /\ FreeSlot(p)
  /\ Inject("database")
  /\ LockAnswerLost(KeyOf(j))
  /\ RunnerTo(p, j, "idle")
  /\ RetryLater(p, j)
  /\ UNCHANGED <<rowVars, outcomeVars, up, stale, requestVars>>

\* claimScanJob when it matched.
ClaimRow(p, j) ==
  /\ status' = [status EXCEPT ![j] = "running"]
  /\ worker' = [worker EXCEPT ![j] = p]
  /\ lease' = [lease EXCEPT ![j] = "live"]
  /\ attempts' = [attempts EXCEPT ![j] = @ + 1]
  /\ UNCHANGED <<retry, createdAt>>

Claim(p, j) ==
  /\ runner[p][j] = "claim" /\ status[j] = "queued"
  /\ ClaimRow(p, j)
  /\ RunnerTo(p, j, "scan")
  /\ UNCHANGED <<outcomeVars, lock, up, timer, stale, requestVars, lost, faults, directs>>

\* Another worker or recovery moved the row: skip it.
ClaimRefused(p, j) ==
  /\ runner[p][j] = "claim" /\ status[j] # "queued"
  /\ RunnerTo(p, j, "release")
  /\ UNCHANGED <<rowVars, outcomeVars, lock, up, timer, stale, requestVars, boundVars>>

\* The claim throws, perhaps after it committed: the runner believes the job is queued.
ClaimFails(p, j) ==
  /\ runner[p][j] = "claim"
  /\ "database" \in Faults /\ faults < MaxFaults
  /\ faults' = faults + 1
  /\ \/ UNCHANGED <<rowVars, attempts>>
     \/ status[j] = "queued" /\ ClaimRow(p, j)
  /\ RunnerTo(p, j, "release")
  /\ RetryLater(p, j)
  /\ UNCHANGED <<outcomeVars, lock, up, stale, requestVars, lost, directs>>

\* The interval renews a live lease; if there is none, it aborts the scan with ScanJobLeaseLostError.
Heartbeat(p, j) ==
  /\ runner[p][j] = "scan" /\ ~Owns(p, j)
  /\ RunnerTo(p, j, "release")
  /\ UNCHANGED <<rowVars, outcomeVars, lock, up, timer, stale, requestVars, boundVars>>

\* The scan throws: no root, an unreadable tree, a rejected write, a heartbeat that could not be sent.
ScanFails(p, j) ==
  /\ runner[p][j] = "scan"
  /\ RunnerTo(p, j, "fail")
  /\ UNCHANGED <<rowVars, outcomeVars, lock, up, timer, stale, requestVars, boundVars>>

\* The last checkCancelled passes; the completion fence of the transaction comes next.
ScanDone(p, j) ==
  /\ runner[p][j] = "scan"
  /\ RunnerTo(p, j, "commit")
  /\ UNCHANGED <<rowVars, outcomeVars, lock, up, timer, stale, requestVars, boundVars>>

\* Effects, project status and completion of one transaction.
PersistScan(j) ==
  /\ EndRow(j, "completed")
  /\ scanned' = [scanned EXCEPT ![j] = @ + 1]
  /\ ShowActive(ProjectOf[j])
  /\ UNCHANGED failures

Commit(p, j) ==
  /\ runner[p][j] = "commit" /\ Owns(p, j)
  /\ PersistScan(j)
  /\ RunnerTo(p, j, "release")
  /\ UNCHANGED <<lock, up, timer, stale, requestVars, boundVars>>

\* Mutant: the effects are committed before the fence is tried.
CommitRejectedKeepsEffects(p, j) ==
  /\ runner[p][j] = "commit" /\ ~Owns(p, j)
  /\ scanned' = [scanned EXCEPT ![j] = @ + 1]
  /\ RunnerTo(p, j, "release")
  /\ UNCHANGED <<rowVars, project, failures, lock, up, timer, stale, requestVars, boundVars>>

\* ScanJobLeaseLostError: every effect is rolled back and the row is left to its new owner.
CommitRejected(p, j) ==
  /\ runner[p][j] = "commit" /\ ~Owns(p, j)
  /\ RunnerTo(p, j, "release")
  /\ UNCHANGED <<rowVars, outcomeVars, lock, up, timer, stale, requestVars, boundVars>>

\* The transaction throws, perhaps after it committed: the runner takes the scan for failed.
CommitFails(p, j) ==
  /\ runner[p][j] = "commit"
  /\ Inject("database")
  /\ \/ UNCHANGED <<rowVars, outcomeVars>>
     \/ Owns(p, j) /\ PersistScan(j)
  /\ RunnerTo(p, j, "fail")
  /\ UNCHANGED <<lock, up, timer, stale, requestVars>>

\* terminalizeFailedScanJob when its guard matched.
PersistFailure(j) ==
  /\ EndRow(j, "failed")
  /\ failures' = [failures EXCEPT ![j] = @ + 1]
  /\ ShowActive(ProjectOf[j])
  /\ UNCHANGED scanned

Fail(p, j) ==
  /\ runner[p][j] = "fail" /\ Owns(p, j)
  /\ PersistFailure(j)
  /\ RunnerTo(p, j, "release")
  /\ UNCHANGED <<lock, up, timer, stale, requestVars, boundVars>>

FailRejected(p, j) ==
  /\ runner[p][j] = "fail" /\ ~Owns(p, j)
  /\ RunnerTo(p, j, "release")
  /\ UNCHANGED <<rowVars, outcomeVars, lock, up, timer, stale, requestVars, boundVars>>

\* The failure cannot be recorded: the row is left running, without heartbeats.
FailFails(p, j) ==
  /\ runner[p][j] = "fail"
  /\ Inject("database")
  /\ RunnerTo(p, j, "release")
  /\ UNCHANGED <<rowVars, outcomeVars, lock, up, timer, stale, requestVars>>

\* Mutant: the lock is not released.
ReleaseKeepsLock(p, j) ==
  /\ runner[p][j] = "release"
  /\ RunnerTo(p, j, "idle")
  /\ UNCHANGED <<rowVars, outcomeVars, lock, up, timer, stale, requestVars, boundVars>>

\* The finally block; the slot and the tracked id are free again.
Release(p, j) ==
  /\ runner[p][j] = "release"
  /\ GiveBack(KeyOf(j), RunnerOf(p, j))
  /\ RunnerTo(p, j, "idle")
  /\ UNCHANGED <<rowVars, outcomeVars, up, timer, stale, requestVars>>
-----------------------------------------------------------------------------
(* Recovery: timers, the dispatcher, the sweeps and startup reconciliation. *)

TimerFires(p, j) ==
  /\ j \in timer[p]
  /\ timer' = [timer EXCEPT ![p] = @ \ {j}]
  /\ Enqueue(p, {j})
  /\ UNCHANGED <<rowVars, outcomeVars, lock, up, stale, requestVars, boundVars>>

\* The scans stage enqueues as many of the oldest queued rows as the local queue can hold.
Dispatch(p) ==
  /\ up[p] /\ Capacity(p) > 0
  /\ Enqueue(p, Oldest(Queued, Capacity(p)))
  /\ UNCHANGED <<rowVars, outcomeVars, lock, up, timer, stale, requestVars, boundVars>>

\* requeueStalePendingJobs and startup offer every queued row.
RequeuePending(p) ==
  /\ up[p]
  /\ Enqueue(p, Queued)
  /\ UNCHANGED <<rowVars, outcomeVars, lock, up, timer, stale, requestVars, boundVars>>

\* A sweep reads the abandoned rows with their retry counts; a process runs one at a time.
SweepRead(p) ==
  /\ up[p] /\ stale[p] = {}
  /\ stale' = [stale EXCEPT ![p] = {<<j, retry[j]>> : j \in {i \in Jobs : Abandoned(i)}}]
  /\ UNCHANGED <<rowVars, outcomeVars, lock, up, runner, timer, requestVars, boundVars>>

Swept(p, j, r) == stale' = [stale EXCEPT ![p] = @ \ {<<j, r>>}]

\* The counted retries that a sweep takes back if it read r before they were counted.
Overwritten(j, r) == IF r < retry[j] THEN retry[j] - r ELSE 0

\* Mutant: the retry is not counted.
SweepRequeueUncounted(p, j, r) ==
  /\ <<j, r>> \in stale[p] /\ r < MaxRetries
  /\ Abandoned(j)
  /\ status' = [status EXCEPT ![j] = "queued"]
  /\ worker' = [worker EXCEPT ![j] = NoWorker]
  /\ lease' = [lease EXCEPT ![j] = "none"]
  /\ Enqueue(p, {j})
  /\ Swept(p, j, r)
  /\ UNCHANGED <<retry, createdAt, outcomeVars, lock, up, timer, requestVars, boundVars>>

\* Within the budget, the row is queued again; retry_count is written from the value read.
SweepRequeue(p, j, r) ==
  /\ <<j, r>> \in stale[p] /\ r < MaxRetries
  /\ Abandoned(j)
  /\ status' = [status EXCEPT ![j] = "queued"]
  /\ retry' = [retry EXCEPT ![j] = r + 1]
  /\ worker' = [worker EXCEPT ![j] = NoWorker]
  /\ lease' = [lease EXCEPT ![j] = "none"]
  /\ Enqueue(p, {j})
  /\ Swept(p, j, r)
  /\ lost' = [lost EXCEPT ![j] = @ + Overwritten(j, r)]
  /\ UNCHANGED <<createdAt, outcomeVars, lock, up, timer, requestVars, attempts, faults, directs>>

\* Beyond it, the row fails under the same fence.
SweepFail(p, j, r) ==
  /\ <<j, r>> \in stale[p] /\ r >= MaxRetries
  /\ Abandoned(j)
  /\ PersistFailure(j)
  /\ Swept(p, j, r)
  /\ UNCHANGED <<lock, up, runner, timer, requestVars, boundVars>>

\* The row is no longer abandoned: another recovery was first.
SweepSkip(p, j, r) ==
  /\ <<j, r>> \in stale[p] /\ ~Abandoned(j)
  /\ Swept(p, j, r)
  /\ UNCHANGED <<rowVars, outcomeVars, lock, up, runner, timer, requestVars, boundVars>>

\* A failed statement ends the whole pass.
SweepFails(p) ==
  /\ stale[p] # {}
  /\ Inject("database")
  /\ stale' = [stale EXCEPT ![p] = {}]
  /\ UNCHANGED <<rowVars, outcomeVars, lock, up, runner, timer, requestVars>>
-----------------------------------------------------------------------------
(* The environment.                                                         *)

\* The deadline of the current lease passes.
LeaseExpires(j) ==
  /\ status[j] = "running" /\ lease[j] = "live"
  /\ lease' = [lease EXCEPT ![j] = "expired"]
  /\ UNCHANGED <<status, worker, retry, createdAt, outcomeVars, lock, memoryVars, requestVars, boundVars>>

HolderProc(h) == IF h \in {Free, Orphan} THEN NoWorker ELSE h[2]

Crash(p) ==
  /\ up[p]
  /\ Inject("crash")
  /\ up' = [up EXCEPT ![p] = FALSE]
  /\ runner' = [runner EXCEPT ![p] = [j \in Jobs |-> "idle"]]
  /\ timer' = [timer EXCEPT ![p] = {}]
  /\ stale' = [stale EXCEPT ![p] = {}]
  /\ lock' = [k \in Keys |-> IF HolderProc(lock[k]) = p THEN Orphan ELSE lock[k]]
  /\ route' = [j \in Jobs |->
                 IF route[j].proc # p THEN route[j]
                 ELSE [proc |-> NoWorker, at |-> "done"]]
  /\ direct' = [direct EXCEPT ![p] = [q \in Projects |-> "idle"]]
  /\ UNCHANGED <<rowVars, outcomeVars>>

Restart(p) ==
  /\ ~up[p]
  /\ up' = [up EXCEPT ![p] = TRUE]
  /\ UNCHANGED <<rowVars, outcomeVars, lock, runner, timer, stale, requestVars, boundVars>>

\* The server ends a session nobody uses any more, and with it its lock.
SessionEnds(k) ==
  /\ lock[k] = Orphan
  /\ lock' = [lock EXCEPT ![k] = Free]
  /\ UNCHANGED <<rowVars, outcomeVars, memoryVars, requestVars, boundVars>>

\* The server drops the session of a holder that is still at work.
SessionLost(k) ==
  /\ HolderProc(lock[k]) # NoWorker
  /\ Inject("session")
  /\ lock' = [lock EXCEPT ![k] = Free]
  /\ UNCHANGED <<rowVars, outcomeVars, memoryVars, requestVars>>
-----------------------------------------------------------------------------
RequestStep ==
  \/ \E p \in Procs, j \in Jobs :
       \/ RouteLock(p, j) \/ RouteLockFails(p, j) \/ RouteReuse(p, j) \/ RouteAdmit(p, j)
       \/ RouteInsert(p, j) \/ RouteInsertFails(p, j) \/ RouteEnqueue(p, j)
       \/ PushInsert(p, j) \/ PushEnqueue(p, j) \/ PushInsertFails(p, j)
       \/ PushAnswerLost(p, j) \/ PushUndo(p, j)
  \/ \E p \in Procs, q \in Projects :
       DirectLock(p, q) \/ DirectStart(p, q) \/ DirectEnds(p, q) \/ DirectCommit(p, q)

RunnerStep(p, j) ==
  \/ Start(p, j) \/ StartBusy(p, j) \/ StartFails(p, j)
  \/ Claim(p, j) \/ ClaimRefused(p, j) \/ ClaimFails(p, j)
  \/ Heartbeat(p, j) \/ ScanFails(p, j) \/ ScanDone(p, j)
  \/ Commit(p, j) \/ CommitRejected(p, j) \/ CommitFails(p, j)
  \/ Fail(p, j) \/ FailRejected(p, j) \/ FailFails(p, j)
  \/ Release(p, j)

SweepStep(p, j, r) == SweepRequeue(p, j, r) \/ SweepFail(p, j, r) \/ SweepSkip(p, j, r)

RecoveryStep ==
  \E p \in Procs :
    \/ Dispatch(p) \/ RequeuePending(p)
    \/ SweepRead(p) \/ SweepFails(p)
    \/ \E j \in Jobs : TimerFires(p, j) \/ \E r \in 0..MaxRetries : SweepStep(p, j, r)

EnvironmentStep ==
  \/ \E j \in Jobs : LeaseExpires(j)
  \/ \E p \in Procs : Crash(p) \/ Restart(p)
  \/ \E k \in Keys : SessionEnds(k) \/ SessionLost(k)

Next ==
  \/ RequestStep
  \/ \E p \in Procs, j \in Jobs : RunnerStep(p, j)
  \/ RecoveryStep
  \/ EnvironmentStep

Spec == Init /\ [][Next]_vars

(* Fairness: event loops run, timers and intervals fire, requests and scans *)
(* end, a deadline passes, a supervisor restarts a process, and the server  *)
(* ends idle sessions.  Nothing is assumed of faults or of new requests.    *)
Fairness ==
  /\ \A p \in Procs, j \in Jobs :
       /\ WF_vars(RunnerStep(p, j))
       /\ WF_vars(TimerFires(p, j))
       /\ WF_vars(RouteReuse(p, j) \/ RouteAdmit(p, j) \/ RouteInsert(p, j) \/ RouteEnqueue(p, j))
       /\ \A r \in 0..MaxRetries : WF_vars(SweepStep(p, j, r))
  /\ \A p \in Procs, q \in Projects :
       WF_vars(DirectStart(p, q) \/ DirectEnds(p, q) \/ DirectCommit(p, q))
  /\ \A p \in Procs :
       /\ WF_vars(Dispatch(p))
       /\ WF_vars(SweepRead(p))
       /\ WF_vars(Restart(p))
  /\ \A j \in Jobs : WF_vars(LeaseExpires(j))
  /\ \A k \in Keys : WF_vars(SessionEnds(k))

FairSpec == Spec /\ Fairness
-----------------------------------------------------------------------------
(* What a job leaves behind agrees with how it ended: its scan effects are  *)
(* in the database exactly when it completed, its failure event exactly     *)
(* when it failed, each once, through lost leases, lost answers, crashes    *)
(* and retries ("completion and persisted effects cannot diverge").         *)
OutcomeMatchesEffects ==
  \A j \in Jobs :
    /\ scanned[j] = IF status[j] = "completed" THEN 1 ELSE 0
    /\ failures[j] = IF status[j] = "failed" THEN 1 ELSE 0

(* Only one scan of a project runs at a time across all processes, direct   *)
(* scans included (SR-002), although leases expire while scans run, locks   *)
(* leak into the pool and jobs are claimed again elsewhere.                 *)
Scanners(q) ==
  {h \in Holders : \E p \in Procs :
     \/ h = DirectOf(p, q) /\ direct[p][q] = "scan"
     \/ \E j \in Jobs : /\ h = RunnerOf(p, j) /\ ProjectOf[j] = q
                        /\ runner[p][j] \in {"scan", "commit", "fail"}}

OneScanPerProject == \A q \in Projects : \A a, b \in Scanners(q) : a = b

(* A project never stays "scanning" without a job that can still end.       *)
ScanningHasActiveJob ==
  \A q \in Projects : project[q] = "scanning" => ActiveJobs(q) # {}

(* POST /scan returns the active job instead of creating a duplicate: a     *)
(* project never has two active jobs that both came from it, even when      *)
(* recovery queues an old one again while a request is being admitted.      *)
OneAdmittedJobPerProject ==
  \A q \in Projects : \A i, j \in ActiveJobs(q) \cap Admitted : i = j

(* The status of a project tells whether it has a scan to come: while a job *)
(* is queued or running, the project shows "scanning".                      *)
ActiveJobShows ==
  \A j \in Jobs : status[j] \in Active => project[ProjectOf[j]] = "scanning"

(* What a project shows and what its jobs are agree, in both directions.    *)
StatusTruthful == ScanningHasActiveJob /\ ActiveJobShows

(* A project has one scan at a time and one job that was asked for.         *)
OneAtATime == OneScanPerProject /\ OneAdmittedJobPerProject

(* A scan is attempted at most 1 + MaxRetries times.  The code does not     *)
(* keep this once two processes sweep: a sweep writes retry_count from what *)
(* it read, perhaps over retries that were counted since.                   *)
AttemptsWithinBudget == \A j \in Jobs : attempts[j] <= MaxRetries + 1

(* What it keeps: a scan is attempted beyond its budget only by as many     *)
(* times as a late sweep of another process wrote over a counted retry,     *)
(* however often workers crash, leases run out, answers are lost and sweeps *)
(* of several processes recover the job.                                    *)
AttemptsAccounted == \A j \in Jobs : attempts[j] <= MaxRetries + 1 + lost[j]

(* Only the live owner of a row completes it, and a row fails only at the   *)
(* hand of its live owner or after its lease ran out.                       *)
EndedByOwnerOrRecovery ==
  [][\A j \in Jobs :
       /\ status[j] # "completed" /\ status'[j] = "completed" =>
            \E p \in Procs :
              worker[j] = p /\ lease[j] = "live" /\ runner[p][j] = "commit"
       /\ status[j] # "failed" /\ status'[j] = "failed" =>
            /\ status[j] = "running"
            /\ lease[j] = "live" => \E p \in Procs : worker[j] = p /\ runner[p][j] = "fail"]_vars

(* A completed or failed job keeps that status, whatever late workers,      *)
(* sweeps and retries still do; only a push that undoes an insert whose     *)
(* answer was lost writes over it.                                          *)
TerminalStays ==
  [][\A j \in Jobs :
       status[j] \in Terminal => status'[j] = status[j] \/ route[j].at = "undo"]_vars

(* The same without the exception, which a lost answer needs.               *)
TerminalIsFinal ==
  [][\A j \in Jobs : status[j] \in Terminal => status'[j] = status[j]]_vars

(* Every job that was queued ends, in spite of crashes, busy locks, full    *)
(* local queues, lost enqueues and lost answers.                            *)
EveryJobEnds == \A j \in Jobs : status[j] \in Active ~> status[j] \in Terminal

(* No project is wedged in "scanning".                                      *)
ScanningEnds == \A q \in Projects : project[q] = "scanning" ~> project[q] = "active"

(* Both: what was asked for ends, for the job and for its project.          *)
ScansEnd == EveryJobEnds /\ ScanningEnds

(* The promise to whoever asked for a scan, which all of this implements.   *)
Outcome ==
  [j \in Jobs |->
     IF status[j] = "absent" THEN "none"
     ELSE IF status[j] \in Active THEN "accepted" ELSE status[j]]

Promise == INSTANCE ScanPromise WITH outcome <- Outcome, published <- scanned, notices <- failures

(* The queue, leases, locks, retries and recovery implement the promise:    *)
(* one outcome per job, with its effects, for good.                         *)
KeepsPromise == Promise!Spec
=============================================================================
