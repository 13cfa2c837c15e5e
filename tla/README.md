# A verification project for EngineeringOS

EngineeringOS scans source repositories, keeps a knowledge graph of what it
found and runs an AI engineering assistant over it. It is a TypeScript
monorepo: an API server (`artifacts/api-server`), a model orchestrator
(`lib/ai-orchestrator`), a PostgreSQL schema (`lib/db`), a scanner, a knowledge
engine and a dashboard. What is hard about it is not in any one function: work
is accepted into PostgreSQL rows and carried out by processes that crash, lose
leases, lose answers, race each other and are recovered by timers.

The modules here model that durable work: who may run it, who may end it, and
what it leaves behind. All paths below are relative to `artifacts/api-server/src`
unless they say otherwise. The file and line each definition stands for is in
`PROJECT.json`, under "map"; the places where something can go wrong are there
under "hazards".

Contents: 1 the system, 2 the plan, 3 the modules and the code, 4 the runs,
5 fairness, 6 the proofs, 7 what the checks found, 8 what is left out.

## 1. The system

### How the parts interact

A route accepts work by inserting a row (a scan job, a discovery session, an AI
execution, an outbox event) in a transaction, and then hands a closure for it to
the in-process queue `heavyJobQueue`. The closure claims the row, which sets a
worker, a lease and a status in one conditional UPDATE; it renews the lease from
an interval while it works; and it ends with a write whose WHERE names the
worker, the status and the lease. Every process runs the same timers: a
dispatcher offers queued rows to its local queue, sweeps look for rows whose
lease ran out and queue, pause or fail them, and startup reconciliation does
both. PostgreSQL is the only shared state; JavaScript runs one turn at a time,
so steps interleave at each `await`.

### Inventory

For each part: its state, its operations, what is hard, and what makes it correct.

**In-process job queue** (`lib/job-queue.ts`). A bounded FIFO of closures, a
slot counter, two sets of row ids, a warning flag. Operations: enqueue with or
without an id, drain, settle. Hard: several producers hold closures for one
row; a closure may throw synchronously, reject or resolve. Correct if the counter is the number
of jobs in flight, the id sets are exact, no row runs twice, no job waits beside
a free slot, jobs start in order, and each accepted job starts.

**Durable scan jobs** (`lib/job-lease.ts`, `lib/scan-runner.ts`,
`lib/advisory-lock.ts`, `lib/job-reconciliation.ts`, `routes/projects.ts`,
`routes/git.ts`). State: `scan_jobs` rows, `projects.status`, events, one
session-level advisory lock per hashed project id, and per process the local
queue, retry timers and sweeps in progress. Operations: admission under the
lock, insertion by a push without it, direct scans, claim, heartbeat, the
completion transaction, failure, retry, dispatch, sweep, startup. Hard: crashes
between any two steps, committed statements whose answer is lost, late workers,
sweeps that act on what they read earlier, lock sessions that leak or are lost.
Correct if effects and outcome agree, one scan of a project runs at a time, one
requested job of a project is active at a time, only the owner or recovery ends
a row, every job ends and no project stays "scanning".

**AI execution lifecycle** (`lib/ai-execution-state.ts`,
`lib/ai-execution-acceptance.ts`, parts of `lib/ai-recovery-coordinator.ts`,
`lib/structured-task-execution.ts` and `routes/ai/chat.ts`). State: an
`ai_executions` row, one verdict per attempt in `ai_execution_acceptances`, a
hashed resume token, a checkpoint. Operations: create, claim with and without a
token, heartbeat, checkpoint, complete, fail, cancel, abandon, recover by token
or operator, reconcile, settle an exhausted recovery, end an observation. Hard:
handlers read the row and finalize it in a later transaction while others claim,
stop or recover it. Correct if row and verdict agree, a verdict is only replaced
where that is meant, a token opens one attempt, a success stands, a cancellation
wins, a live run is ended by its holder, and stopped or lost runs end.

**Task runs and recovery** (`lib/task-execution-service.ts`, `lib/ai-recovery-coordinator.ts`,
`lib/task-auto-execution-outbox.ts`, `lib/job-reconciliation.ts`, `lib/task-operations.ts`,
`routes/ai/tasks.ts`). State: a task with its generation (`retryCount`), its
pointer to an execution (`correlationId`), a worker and a lease; one intent, a row
that asks for an automatic execution; one execution per generation. Operations: the
user's transitions, a request for an automatic execution and its job, a call that
executes the task (on request, by recovery, by the job), manual verification, the
retry of recovery, the sweep of abandoned tasks. Hard: each of them reads, awaits
and writes under a fence of its own. Correct if a task has one run, the run is of
the execution the task points to, only the holder records or gives up, a running
task stops running and an intent that can be served is.

**Task observation outbox** (`lib/task-observation-outbox.ts`,
`lib/agent-state/observation-materializer.ts`). Rows written by the acceptance of
a result, claimed with a five-minute lease that nothing renews, retried up to
twelve recorded failures, dead-lettered and put back; a payload that is refused for what
it says is dead-lettered at once. Correct if each row is delivered or put aside for a
cause, nothing vanishes, and a worker that lost its claim changes nothing.

**Model cooldowns and attempt leases** (`lib/ai-orchestrator/src/openrouter` of the
monorepo). Per process a chain of promises per lane with a bound on waiters; between
processes a lease row; cooldowns shared through the database with a local copy.
Correct if a lane has one holder in a process, waiters that give up disturb nobody,
a release frees nobody else's lane, and, as long as leases last, requests do not meet and
no first request goes into a cooldown.

**Audit outbox** (`lib/audit.ts`). Audit rows that failed, in memory and in a
table, drained, reloaded at startup; a count that healthz shows. Hard: the startup takes
up old scans, which record audits, before it reloads the queue. Correct if a row whose
copy is stored is never lost, the count hides none, and a waiting row is written.

**AI budget** (`lib/ai-budget.ts`). Reservations of a day under a row lock, counted by
several statements, reconciled with usage events. Correct if an admission counts what
there is, an attempt is refused only at the limit, and no request is free.

**Discovery sessions** (`lib/discovery-runner.ts`, `routes/discovery.ts`,
`lib/job-lease.ts`). A session row, a temporary source, a managed root, an advisory
lock, a lease; import into a project; the collection of old sessions. Correct if an
outcome is the owner's and stays, a session is imported once, an imported project
keeps its root, and a session ends.

**Project bootstrap** (`lib/project-bootstrap.ts`). A job row with a lease and a
number of attempts, each with a root of its own. Correct if a job makes one project
exactly when it is completed, roots belong to somebody, and a job ends.

**Proposals and delivery workspaces** (`lib/delivery-workspace.ts`,
`lib/apply-change-reconciliation.ts`, `routes/ai/chat.ts`). A proposal is
written to an isolated workspace, checked and promoted file by file with a
journal. Correct if an interrupted promotion is completed or undone and no
foreign change is overwritten.

**GitHub delivery** (`lib/github-delivery-service.ts`), **local review
branches** (`lib/local-review-branch.ts`). Journalled calls of the GitHub API;
a sequence of git commands with cleanup.

**Mission runtime, replanning and approval** (`lib/mission-runtime.ts`,
`lib/mission-auto-replan.ts`). Goals, plans and decisions in long transactions.
**Agent episode ledger** (`lib/agent-state`): an append-only hash chain of what
an execution did.

**Recipe runner** (`lib/recipe-operation-runner.ts`) and the tool loop of
`lib/task-execution-service.ts`. They drive tools and providers, and call the
execution lifecycle.

**Workspace runtime** (`lib/workspace-runtime.ts`, `lib/workspace-runtime-store.ts`,
`lib/workspace-runtime-supervisor-client.ts`, `scripts/workspace-runtime-supervisor.mjs`
of the monorepo). The preview of a project is a development server. State: a row with
session, status, pid, worker and lease; a session object in the memory of each API
worker that had the preview; the supervisor's entry for the project; the processes.
Operations: start and restart, stop, heartbeat, the reconciliation of a start whose
outcome is unknown, recovery, replacement of a worker; the supervisor's start, stop,
adopt and observe. Hard: process and row are changed in different places, each of which
can fail or be replaced, and a stalled worker writes what it learnt before. Correct if a
session has one owner, its row names its own process, a stopped preview is gone and
a lost one does not keep saying that it runs.

**Plugin runtime** (`lib/plugin-runtime.ts`): plugins after events. **Shadow replay and
skills**, **upload store**, **operator alerts**: small stores beside the rest.

**HTTP routes** (`routes/`): validation and projections around the above.
**AI orchestrator**, **knowledge engine**, **scanner** (`lib/`): sequential code
about data. **Dashboard**, **schema, generated API and scripts**: clients and
declarations.

## 2. The plan

The order follows how much the rest depends on a part.

| step | modules | contents |
|---|---|---|
| 1, done | JobQueue | the queue every durable job goes through |
| 2, done | ScanJobs, ScanPromise | durable jobs, locks, leases and recovery; the promise they implement |
| 3, done | AiExecutions, ExecutionLedger | executions and verdicts; the ledger they implement |
| 4, done | TaskRuns | a task beside its executions: intents, calls, verification, retries, sweeps |
| 5, done | ObservationOutbox, ObservationPromise | delivery of what an acceptance stored; the promise it implements |
| 6, done | ModelAttempts | lanes, leases and cooldowns of providers |
| 7, done | AuditOutbox | memory and table, drain and reload |
| 8, done | AiBudget | admission and reconciliation around midnight |
| 9, done | DiscoverySessions, ProjectBootstrap | leased jobs that own directories |
| 10, done | WorkspaceRuntime | previews: row, workers, supervisor and processes |
| 11 | DeliveryPromotion | journal and recovery of a promotion (section 8 says why it comes last) |
| 12 | EpisodeLedger | the hash chain of an episode and its terminalization, beside AiExecutions |

Compositions. TaskRuns has a small execution of its own per generation, with the
claims, verdicts and leases that a task can tell apart; AiExecutions has the whole
of one execution. ObservationOutbox has the acceptance and resumption of an
execution as two actions. ScanJobs, DiscoverySessions and ProjectBootstrap have of
the queue what a producer sees: tracked ids, capacity, free slots.

Abstract specifications: ScanPromise, ExecutionLedger, ObservationPromise.

Theorems: every safety property of the runs but EstimatesFit is proved, some under
hypotheses (section 6). Worth proving next: what remains of OutcomesAgree when a push may lose its
answer, and the agreement of rows of each new module.

## 3. The modules and the code

One step of a model is one database statement or transaction with the
synchronous code that runs on its answer. A handler that awaits between a read
and a write takes two steps and remembers what it read.

### JobQueue (`lib/job-queue.ts`)

`queue`, `running`, `pendingIds`, `runningIds` and `warned` are the fields of
the class; `executing` holds the closures whose promise has not settled. `EnqueueWithId`,
`RefuseWithId`, `EnqueueAnonymous`, `RefuseAnonymous` are the answers of
`enqueueWithIdDetailed` and `enqueue` that change state (a duplicate changes
nothing); each ends in `drain()`, which is `DrainFrom`. `Settle` is either
callback of the promise; `Closures` are the closures producers hand over. A call of the constructor with limits that are not positive integers throws, hence
`LimitsAssumption`.

### ScanJobs

- `status worker lease retry createdAt` are the row; `project` is
  `projects.status`; `scanned` and `failures` count the effects and failure
  events committed for a job; `lock` says who holds the advisory lock of a key,
  `Orphan` being a session nobody uses any more.
- `up runner timer stale` are the memory of a process: alive, where its
  closure for a job is, jobs with a retry timer, and rows a sweep has read.
- `route` and `direct` are requests in progress. `attempts` counts claims, `lost` the
  counted retries that a late sweep has written over (`Overwritten`); `faults` and
  `directs` count towards their bounds.
- Producers: `RouteLock` to `RouteEnqueue` are POST /scan in `routes/projects.ts`;
  `PushInsert` to `PushUndo` are the scan after a push in `routes/git.ts` (a scan
  asked for in AI chat inserts its row in the same way); `Direct...` are
  `performScan` without a job.
- The runner: `Start`, `StartBusy`, `StartFails`, `Claim...`, `Heartbeat`,
  `ScanFails`, `ScanDone`, `Commit...`, `Fail...`, `Release` follow `runScanJob`
  in the order of its statements.
- Recovery: `TimerFires`, `Dispatch`, `RequeuePending`, `SweepRead`,
  `SweepRequeue`, `SweepFail`, `SweepSkip`, `SweepFails`.
- Environment: `LeaseExpires`, `Crash`, `Restart`, `SessionEnds`, `SessionLost`.

What is merged or abstracted. The local queue appears as what a producer can
observe of it: tracked ids, capacity and free slots. `Dispatch` reads and
enqueues in one step, as the enqueue rechecks the id and the claim rechecks the row. A
heartbeat on a live lease changes nothing the model tells apart; one that finds
no live lease aborts the scan, which is `Heartbeat`; one that throws is among
`ScanFails`. `RouteEnqueue` releases the lock and enqueues. When the insert of
a push fails, the catch block is the same step. A worker id is the process that
runs the job, of which it has at most one per row. Exceptions of the audit and plugin
calls that follow a commit reach the runner like a lost answer, which is
`CommitFails`. What a scan reads and writes is one effect.

### ScanPromise

Three variables and three actions: a job is accepted, then completed with one
set of effects or given up with one notice. `KeepsPromise` is the refinement, with
`Outcome` mapping the row's status.

### AiExecutions

- `kind status attempt worker lease token marker` are the row. `token` is the
  number of times the stored hash was replaced, so a token is valid while its number is
  the current one. `marker` is `checkpoint.recovery`.
- `acc` holds the verdict of each attempt; `issued` the tokens that were handed
  out; `opened` the token each attempt was opened with.
- `phase att answer` are the workers: what each is doing, the attempt it claimed,
  and how its completion was answered. `sweep`, `ask` and `settling` hold what a
  reconciler, a user's request and the recovery coordinator read before they act.
- `Finalize` is `finalizeExecutionAcceptance`: `Stale`, `Interrupts`,
  `Reclaims`, `Duplicate`, `Fenced`, `Records` are its conditions in the code's
  order, `VerdictOf` and `InterruptionOf` the rows it writes. Its callers are
  `FinishComplete`, `FinishFail`, `FinishInterrupt` (workers), `EndAsked` (stop
  and abandon) and `SweepFinalize` (`reconcileAiExecutions`).
- `ResumeEligible`, `RetryEligible`, `OperatorEligible` decide which tokens are
  accepted; `Claim` and `ClaimWithToken` are `claimAiExecution`;
  `RecoverResume`, `RecoverRetry`, `OperatorResume` issue tokens.
- `Settle` is `settleExhaustedExecutionRecovery`; `ObservationEnds` is the end
  of an observation, which records no verdict, and `ObservationUnclaimed` that of one whose
  claim was refused (`routes/ai/chat.ts:6743` names no linked task, so an observation
  with one is never claimed).

What is abstracted. Each claim has a worker id of its own (a UUID in the code),
so a snapshot of status and worker stands for the code's snapshot of the row.
`cancelRequestedAt` is set exactly when the status becomes cancelling. A
finalization key embeds the attempt, so the answer by key is the answer by
attempt. Heartbeats and checkpoints renew a live lease, which shows as
`LeaseExpires` not happening. The two transactions of `requestAiExecutionRecovery`
(resume) are one step because the second compares everything the first read; the two
reads of a settlement are one. Whether a `retryAt` has passed, whether evidence
carries a completion (`RejectComplete`) and whether the final message still
matches (`Settle`) are left open. Only a completion bound to a recipe looks at the
deadline when it first reads the row; the model allows both. The reconcilers are those of
production, which look at expired leases only. Left out: the checkpoint
sequence, budgets of child executions, linked tasks and goals, and the terminalization of episodes, which a constant turns off (section 8).

### ExecutionLedger

What readers of the acceptance table may rely on: an attempt gets one verdict,
only a failure of the current attempt is revised, only a failure is followed by
another attempt. `KeepsLedger` is the refinement.

### TaskRuns

- `task` is the row: status (`open` is pending or queued), generation, pointer,
  holder, lease. `intent` is its event in `task_auto_execution_outbox`. `exec` has, by
  generation, the execution that the idempotency key of this generation names.
- `run` is a call in flight, with what it has read; `sweep` the generation a
  sweep has read. `Autos` are the jobs of the automatic execution, one per process;
  `Calls` are requests, recoveries and manual verifications.
- `Patch`, `Retry`, `Rollback` and `Verify` are the user's; the last asks for an
  automatic execution. `Dispatch` and `Persist` to `Clear` are the job
  (`scheduleAiTaskExecution`, `runAiTaskExecution`): it stores the intent, looks at
  the task, calls, and after a refusal reads again and defers or clears.
- `ExecuteRequest`, `ResumeRequest`, `PlanResume`, `PlanRetry`, `ClaimRetry` start
  calls of `executeTaskLifecycle`; `Read`, `Claim`, `ClaimRefused`,
  `HeartbeatRejected`, `Finish`, `RunFails` are its statements. `Claim` is the
  transaction that claims execution and task and deletes the intent. `VerifyClaim` and
  `VerifyEnds` are the manual verification, which holds the task without an execution.
- `SweepRead` and `SweepWrite` are `reconcileStaleAiTasks` and `reconcileAiTasks`,
  `SweepExec` is the reconciliation of executions.

Abstracted: a worker id is fresh per claim, and the verdict of a result is one of
resume, retry, expired and final. A rate limit gives `resume` with its retry window not
open yet (`gate`).

### ObservationOutbox and ObservationPromise

`row` is the outbox row of an attempt, `job` the closure a process has for it,
`stored` what the episodes have. `Accept` and `Resume` are what the execution does to
it; `Dispatch`, `Claim`, `Store`, `Delete`, `RecordFailure` follow the functions of
`task-observation-outbox.ts`; `Requeue` is the operator's. `Store` materializes, finds
that the episode is missing or that the execution has moved on, or is refused (`Refuse`): the other
values of `PERMANENT_FAILURE_CODES` (`:14-27`) and an invalid payload (`:121-139`) are
about what the row says, so a payload that was refused once is refused again (`refused`). A delivery is repeated
after the lease ran out, and the second delivery stores the same observations: storing
is idempotent by the key of an observation. ObservationPromise says: owed, then
stored or put aside; `lost` is not one of its states.

### ModelAttempts

`chain` and `waiters` are `localAttemptTails` and `localAttemptWaiters`; a link stays
until it and all before it are released, as a promise that waits for its
predecessor does. `lease` and `cooling` are the two kinds of rows of
`openrouter_model_cooldowns`, `known` the cooldowns a process has in memory.
`Begin` to `Check` reserve the lanes in order, `Send` to `Clear` are the request and
its repetition, `ReleaseRow` and `Unlink` go back in reverse. A lease may expire under
its holder at any moment (`LeaseExpires`): it lasts `max(90 s, timeoutMs + 30 s)`
(`model-cooldown-store.ts:306-314`), is never renewed, and covers the catalog, the
admission, a request whose transport sets no timer (`openai-compatible-client.ts:1048-1226`)
and its repetition (`:1767-1783`). `late` remembers the lanes on which that happened;
MaxLate bounds them. Abstracted: the length of a cooldown, credentials' cooldowns, the choice of
the next model.

### AuditOutbox

`pending` and `due` are the queue of a process, `outbox` and `history` the tables,
`gauge` the count, `drain` the loop and the row it is at. A statement that fails may
have been committed. `Start`, `Select` and `Load` are a start: reconcileStuckJobs
(`index.ts:209`) takes up scans, whose runs record audits, and loadPendingAudits
(`index.ts:236`) then reads the copies, clears the queue and fills it (`audit.ts:141`). So
`Record`, `Persist` and a drain may run at any time while the process is up, also between
the read and the clearing; `cleared` and `beside` remember what a load did to rows and to a
drain that it met. `Detach` is the second statement for a row whose project is
deleted. `Select` reads the copies of all processes, so two processes may deliver one
row; an insert does nothing on
conflict (`audit.ts:51`), so the tables are sets.

### AiBudget

`rows` and `events` are the two tables, `query since counted tokens` the
transaction that holds the budget, which counts in the seven statements of
`usageForDay`, one step each (READ COMMITTED). `missed` and `missedKnown` are history
variables: the attempts whose reservation or usage changed between two statements
so that neither counted them. The properties except these, and section 7 says what
follows from them.

### DiscoverySessions

`request` is the route, `job` the closure of a process, `lock` the process whose
database session holds the advisory lock, `row` the columns of the session;
`sources roots removing` are directories, `live made import` projects and imports.
`Collect` is `cleanupOldSessions`, `RemoveRoot` the removal that follows a decision, which
may leave the root.
`MaxRequests` bounds the requests.

### ProjectBootstrap

An attempt of a job has the root `<<job, attempt>>`. `run` is the closure of a
process, which does not know that its lease is gone before its next update.
`Reclaim` clears `working_root_path` and hands the root to `removing`; `RemoveRoot` is
a later step. `Clean` is the catch block. Both are removeManagedProjectRoot (`Remove`),
whose errors are swallowed and which leaves a root without its marker alone; `StartCopy`
makes the directory and `EndCopy` writes the marker last, so a copy whose own clean-up
fails leaves a root that nothing removes. `left` remembers the roots a removal was tried
on and left. An error of the commit leaves open whether it was committed.

### WorkspaceRuntime

- `row` is the row of `workspace_runtime`; sessions are numbered in the order they are
  begun, so the row holds the number of the latest. `mem` is the sessions map of a
  worker and `obj` its session objects, with their status, pid, heartbeat timer, the stop
  and the heartbeat in progress; an object that left the map lives on while a call holds it.
- `start` is `startExclusive`, from `StartAsked` (what it finds) over `Begin`,
  `StartRenews`, `StartCalls`, `StartCallFails` (the retry), `StartObserves` and
  `StartRecords` to `StartPersists`, which are its statements in order; starts of one
  worker queue up. `StopAsked` to `StopWrites` are `stop` and `stopSession`, whose
  promise everybody who asks meanwhile shares.
- `HeartbeatFires` to `HeartbeatEnds` are `heartbeat` and
  `reconcilePendingSupervisorStart`; `rec` and the `Recover...` actions are `recover`.
- `call` is the start request of a session at the supervisor, `sup` its entry for the
  project, `proc` the processes. `SupervisorStarts`, `SupervisorReady`,
  `SupervisorGivesUp` are its start; `Adopt`, `Observed` and `StopCalls` are what its
  other handlers do; an adopted process is not watched (`watched`).
- Faults: a worker that crashes, is replaced (`shutdown` with `preserveProcesses`) or
  stalls past its lease; a process that exits or stops listening; a supervisor that is
  killed or told to end; an answer of the supervisor to a start that is lost
  (`SupervisorReady`), so that the worker asks again. `outage` remembers that there was
  one of the last two kinds. A database statement of a worker is answered: one that is
  committed and not answered, or that throws, is not among the faults.

Abstracted: one project. A process stands for its group; its signals always work in the
end, and no pid is used twice. A worker that ends takes its calls with it. Requests to the
supervisor are taken up in the order they are sent and within a lease (`InTransit`). What is left open: whether
a process comes to listen, whether a port is free, what the environment's
capture says. Left out: workers that spawn processes themselves, which happens only
without a supervisor, as in tests; sessions without an attestation, which the routes do
not start; alerts; and the observations made before and after a start or stop.

### MC modules

They give the constants the values a configuration cannot write: functions,
records and the symmetry set. TaskRuns and ObservationOutbox need none.

## 4. The runs

| run | configuration | shows |
|---|---|---|
| queue | 2 slots, 2 places, 8 closures of 4 ids and none | `Bookkeeping`: slots, ids and closures agree, no row twice, no idling; order; every accepted job starts |
| scan_jobs | 2 requested jobs of a project, a direct scan, 2 processes, 1 retry, a crash or database fault | outcomes agree with effects, `OneAtATime` (one scan, one requested job), `StatusTruthful` (the project shows scanning exactly with an active job), rows are ended by who may, attempts beyond the budget are accounted for, ScanPromise is kept |
| scan_liveness | 1 process, a requested and a pushed job of projects that share a lock key, 1 retry, a fault of any kind | each job ends, each project leaves scanning, an outcome stays |
| ai_executions | 3 claims, 3 attempts, a task execution or an observation, a user, a reconciler | `VerdictsSound`, `EndsFenced`, ExecutionLedger, and that cancellations and first runs end |
| task_runs | 1 automatic job, 1 call, 1 sweep, 2 generations, 2 claims, 1 request, 1 fault | `RunsAgree`: the holder runs what the task points to and no intent is beside it; results and releases are the holder's; running ends; intents that can be served are |
| observations | 2 processes, 2 attempts, 2 tries, 3 claims, 1 fault or refused payload, 1 requeue | ObservationPromise is kept, a row ends at its worker's hand and aside only for a cause, every row settles |
| attempts | 3 attempts of one process with 2 lanes each, one of which may repeat, and 1 of another with the model's lane, 1 fault, 1 lease that runs out under its holder | `ChainsSound`, requests meet only where a lease ran out, and so do requests and cooldowns |
| audits | 2 rows, 2 processes, one row of a deleted project, 2 faults | a row is lost only by a crash or a load while it has no copy, the count hides at most one and only after a load beside a drain, rows are written |
| budget | 2 requests, an event without a reservation, 2 days, limits of 1 to 3 | `AttemptsCounted`: admitted below and refused at the limit; estimates fit; nothing is free |
| discovery | a clone and a scan of an existing project, 2 processes, 2 imports, 2 faults | `OutcomesStand`, `ImportsSound`, a session ends unless its lock is stranded |
| bootstrap | 1 job, 3 attempts, 2 processes, 2 faults | one project per completed job, roots follow projects, the job ends |
| runtime | 2 workers, 2 sessions, 2 processes, 2 requests, 1 fault of any kind | `RuntimeSound`: row, process and owner agree, and stopped means gone; sessions have their owner in turn; a lost preview stops saying that it runs |

A property that is a conjunction is one subject seen from several sides; each
conjunct has a name, a comment and, where it is proved, a theorem of its own.

Why the bounds are enough. In the queue, two closures for each of two ids give a
duplicate of a waiting and of an executing job, and eight closures for four
places fill the queue. In scan_jobs, two processes and a retry give a late
worker beside its successor beside a sweep that read the row before either, and two
jobs are all that exclusion and admission speak of. In scan_liveness the waiting
place is smaller than the number of jobs, so enqueues are refused, and two ids with
the same `hashId` make one project's scan wait for another's; a lost session and an
unanswered push occur there. In ai_executions, three claims on an
attempt or across attempts give a late worker, its successor and the one a token
opened; the limits of recovery are 1 (malformed output) and 2 (provider), so
that both are reached within three attempts; they are 2 and 3 in the code. The kinds
are one that resumes freely and an observation; the remaining kinds differ in
the eligibility of tokens only and are covered by the theorems. In task_runs two
claims give a run and its successor on the same or the next generation, beside a
sweep and a call that have read before either. In observations three claims give
a delivery, its repetition and one after a dead letter; two tries instead of
twelve reach the dead letter. In attempts, three attempts of one process make a
holder, a waiter that gives up in the middle and one behind it; the fourth comes
from another process, and one lease that runs out is enough for two requests to meet. In
audits, two faults are a failing write and a failing copy, a crash, or a failing drain; a
row of each process makes a queue that a load reads and the other process drains. In budget, two requests and an event are what an
admission can count or overlook, with a day that ends in between. In discovery, one
request at a time keeps the run small: two sessions differ in kind and exist in
different behaviours; a refusal by a full queue is not reached. In bootstrap, three
attempts are those of the code's default, and two faults a commit that is not answered
or a copy that stops in the middle with a removal that fails. In runtime, two sessions are one that is
stopped or lost and its successor, two requests a start and a stop of it or a restart,
and the fault falls on any step of either; a third object is there for the worker that
adopts what another began. The safety properties were also checked once with three
requests (1.7 million states).

Named bounds: MaxFaults, MaxDirect (ScanJobs); MaxClaims, MaxAttempt, MaxToken
(AiExecutions); MaxClaims, MaxAttempt, MaxAsks, MaxFaults (TaskRuns); MaxAttempt,
MaxClaims, MaxFaults, MaxRequeues (ObservationOutbox); MaxFaults, MaxLate
(ModelAttempts); MaxAuditFaults (AuditOutbox); MaxFaults (ProjectBootstrap); MaxDay (AiBudget); MaxFaults, MaxRequests
(DiscoverySessions); MaxSessions, MaxProcs, MaxObjects, MaxFaults, MaxRequests
(WorkspaceRuntime). `CHECK_DEADLOCK FALSE` stands where the system may come to rest:
everything ended and no fault or claim left. The queue never rests.

Symmetry is used in scan_jobs and attempts, which have no liveness property: processes and
jobs of the first, and two attempts of the second, are interchangeable.

## 5. Fairness

- JobQueue: each executing job settles. The queue documents that closures handle
  their own errors, and both callbacks settle. Nothing is assumed of producers.
- ScanJobs: event loops run (runner steps, requests already begun), retry timers
  fire, the dispatcher and sweeps are intervals, a crashed process is restarted by its
  supervisor, deadlines pass, and the database ends a session nobody uses.
  Nothing is assumed of faults or of new requests, and one runner's steps are
  fair together, so that a scan may fail or succeed.
- AiExecutions: reconcilers run periodically, leases run out, a worker that is
  not resting ends its turn, loses its lease or dies, and a user's request that
  read the row carries on. Nothing is assumed of claims, tokens or settlements.
  `LeaseExpires` is fair because a worker that renews for ever is one that never
  ends its turn.
- TaskRuns: the dispatcher of every process and the sweeps are intervals, a call or
  job that is under way goes on, leases run out. Nothing is assumed of users, of
  requests, of recovery or of faults; a call may end in any verdict.
- ObservationOutbox: some process dispatches a row that may be claimed again and again
  (the dispatcher is an interval), a delivery goes on, leases and delays pass.
- AuditOutbox: the drain's timer fires, statements are answered, delays pass, a
  process that is down is started.
- DiscoverySessions: dispatchers and sweeps come round, a run goes on, and a lease
  runs out when no run of the session is left to renew it. Nothing is assumed of
  requests, imports and collections.
- ProjectBootstrap: the same, and a removal that was decided is tried.
- WorkspaceRuntime: timers fire and calls are answered, sweeps come round (every
  ten seconds, `index.ts`), a lease that nobody renews runs out, and whoever runs the
  supervisor starts it again, which is outside the repository's code. Nothing is assumed
  of users, processes and faults.
- ModelAttempts and AiBudget have no fairness; nothing temporal is checked of them.

## 6. The proofs

The proofs hold for all values of the constants under the named assumptions of the
modules. Where a theorem has a hypothesis of its own, its statement says so.

| proofs in | about | invariant |
|---|---|---|
| HeavyJobs_proofs | JobQueue and ProjectBootstrap | `QueueInv`, `IInv` |
| ScanJobs_proofs | ScanJobs, with ScanPromise | `TypeOK`, `RequestInv`, `OutcomeInv`, `LockInv`, `AdmissionInv`, `BudgetInv` |
| AiExecutions_proofs | AiExecutions, with ExecutionLedger | `TypeInv`, `TokenInv`, `OwnerInv` |
| TaskRuns_proofs | TaskRuns | `TypeInv`, `HoldInv` |
| Outboxes_proofs | ObservationOutbox, with ObservationPromise, and AuditOutbox | `IInv`, `AuditInv` |
| ModelCalls_proofs | ModelAttempts and AiBudget | `IInv`, `ChainInv`, `BudgetInv` |
| DiscoverySessions_proofs | DiscoverySessions | `IInv` |
| WorkspaceRuntime_proofs | WorkspaceRuntime | `Structure`, `GoneInv`, `KnownInv` |

Three modules hold the proofs of two components each and extend both; that is why
JobQueue, AuditOutbox and AiBudget name their specification, variables and type
invariant with a prefix (`QueueSpec`, `auditVars`, `BudgetTypeOK`). Each invariant was
checked by TLC on the instance of the component's run before it was proved. Type
correctness is a theorem or part of an invariant for every module, and the runs
repeat it where a conjunction has TypeOK.

**JobQueue.** `QueueInv` says that queue and executing hold disjoint jobs without
repetition, that ids among them are distinct, that the counter is the number
executing, that the id sets are the ids of the two, and that the queue is empty
unless every slot is taken. None of the properties is inductive alone: exact id
sets need distinct ids, distinct ids need exact id sets at the next enqueue, and
the counter needs a settling job to be counted once. `DrainOutcome` and
`DrainRestores` show that a drain re-establishes it from the state every call
leaves before its drain. The type invariant, SlotsAccurate, TrackingAccurate,
NoDoubleExecution and WorkConserving follow. JobsStartInOrder looks at what a drain
takes: from the front of the queue, whose rest keeps its order.

**ScanJobs.** TypeOK is inductive. `RowSteps` reduces every action to one of six
things that can happen to a row (inserted, claimed, queued again, completed,
failed, undone), on which the invariants about rows rest:
ScanningHasActiveJob; `OutcomeInv`, which adds to OutcomeMatchesEffects that a
request that has not inserted yet has no row and that no undo is pending; and from it
EndedByOwnerOrRecovery and the refinement PromiseKept. These three assume
`"pushAnswer" \notin Faults`: with it a late undo writes over an outcome (TerminalIsFinal, section 7).
`LockInv` says that every runner past its lock, every direct scan and every
request in its critical section holds its lock; OneScanPerProject follows, and
with `AdmissionOpen` (between its check and its insert a request's project has no
active requested job) so does OneAdmittedJobPerProject. These two assume
`"session" \notin Faults`: nothing in the code watches the lock's session.
EndedStays (TerminalStays) needs `RequestInv` only, which says that a request that has
not inserted finds no row and that an undo is a push's. StatusIsTruthful joins
ScanningHasActiveJob with its converse, ActiveJobShows; it assumes
`Admitted = Jobs /\ "session" \notin Faults`, as a push queues a job beside a scan
(section 7), and rests on `DirectsAlone`: while a direct scan is under way no requested
job of its project is active, so the status it writes at its end hides none.
AttemptsAreAccounted (AttemptsAccounted) holds for any number of processes that sweep: by
`BudgetInv` a row has made at most as many attempts as retries are counted in it or were
written over, and one more unless it is queued. A sweep that writes an old count adds to
`lost` what it takes away from the row, so the sum never falls.

**AiExecutions.** `TypeInv` adds that the token is at most the rotations plus
the attempts, which TypeOK needs to be inductive. VerdictMatchesRow is
inductive over it: `FinalizeMatches` treats each way a finalization writes, from
the lemma that all its callers pass coherent arguments. On it rest the
refinement LedgerKept and CancellationHolds. `TokenInv` adds that attempts were
opened by tokens older than the current one. `OwnerInv` adds `ClaimsGrow` (a
worker that has not claimed yet has no trace anywhere, the row's worker is one
that has claimed) and that a reconciler which remembers a running worker read the
row after that worker's lease had run out: SuccessesStand and LiveRunsAreOwned
follow, as a late worker's number is never that of the row's owner.

**TaskRuns.** `TypeInv` adds to TypeOK what a call's record must be for its next step.
`HoldInv` ties the worker ids to the claims made so far (a worker that has not been
claimed has no trace, so two runs never share one), says that a run which holds
the task points where it claimed, and that no intent of a held generation exists;
ClaimedTaskHasNoIntent and HolderRunsPointed are conjuncts. EndedByHolder and
ResultsAgree are read off each action under it.

**ObservationOutbox.** Of a row `IInv` says that its attempt was accepted, that its
failures and its end add up, and that it is gone only if stored; of a job, that it
condemns a row only when the execution has moved on or the payload is refused, and
deletes it only after storing. AsideForCause is a part; LeasedRowIsItsWorkers and the refinement PromiseKept
follow step by step.

**ModelAttempts.** `IInv` says that an attempt owns, unexpired, the row of every lane it
reserved, unless that lane's lease ran out under it (`late`), and that a model cools down
under an attempt about to send only if its lease ran out under this attempt or the one that was
limited. RequestsMeetAfterExpiryOnly (MeetOnlyAfterExpiry) and CooldownRespected follow.
`ChainInv` is about the promises of a process: the links of a
lane are of distinct attempts, an unreleased link is of an attempt that waits for the
lane or has it and each such attempt has one, the first link is unreleased and whoever
holds the lane has it, and the waiters are as many as the unreleased links. That a
release drops the links up to the next unreleased one keeps it is what the lemmas on
sequences before it are for; ChainsAreSound (ChainsSound) follows.

**AuditOutbox.** `AuditInv` bounds the count below by the rows that wait and the ones the
drain is at, less one after a load that met a drain, and says that a row being removed is
in `audit_logs`. CountCovers, CopiesOutlive and ForgottenWithCause (each way a row that is
known stops being known) follow, and RowsAreKept joins the last two.

**AiBudget.** `BudgetInv` follows the statements of one admission: what is counted lies
between the number of attempts the statements have passed and the number of those
that did not change behind its back (`Tally`); it rests on what each attempt can be
(`Each`) and on the lock of the budget (`Locked`). The lemmas about cardinalities are
from FiniteSetTheorems. NothingIsFree and both halves of AttemptsCounted follow.

**DiscoverySessions.** `IInv` has, beside TypeOK, what a row says of its request and its
closures (`RowInv`), that a session with a project is imported and is so once
(`ImportInv`), that the root of a clone is there as long as the session is or may get
ready (`CloneInv`), and that what is being removed is and gets no project's root
(`RemovalInv`). ImportedRootStays is not inductive without the last two: a removal is decided in one
step and done in another. `Kept` treats the steps that neither import, collect nor touch
a directory together. ImportsAreSound and OutcomesStay follow. The proof showed that the module's
assumption on roots was too weak: two sessions may share a root only when both scan what
exists, as a clone's root is named by its session.

**ProjectBootstrap.** `IInv` says that a completed job has one project and no other has
one (`MadeOnce`), that the root of a run that may commit is there while the run owns the
row (`RunInv`), that no two runs have the same attempt (`OneRun`), and that what is
being removed is of an attempt that is over (`RemovedIsOver`). JobsAreSound is MadeOnce;
RootsFollow reads off each action which roots it takes away or forgets: `Removed` says
what a removal does, failing or not, `Tried` that a run which is past its clean-up has
tried, and `HandedOn` that a reclaim's root is removed or being removed.

**WorkspaceRuntime.** Three invariants; the last two are inductive beside the first.
`Structure` numbers sessions in the order they are begun, gives each object one worker
and one session for good, and says that whatever row, object, start, recovery, request
or supervisor hold as a pid of a session is a process of it. It holds with all faults;
SessionsGoInTurn follows, also for workers that stalled between a question and its answer.
`GoneInv` says that until an `outage` a session gets one process and nothing under way
can ask for a second one (`OneProcess`), and that whoever believes a session was stopped
saw its process die (`StopsSure`): a stop that kills one process has then killed all,
which is StoppedSessionsAreGone. `KnownInv` says that while a start knows no pid of its
session nobody does (`BlindInv`), so that what it records takes no pid away, and that a
row which is or is about to be running has one (`PidInv`). The proof has two kinds of
steps: calm ones (`Calm`), after which nobody knows a pid he did not know, and the ones that learn one
(`Sees`, `Spots`, `Spawns`, `Served` and the like), which are treated one by one.
When an answer is lost, a start asks again for a process that others know, and neither
invariant survives: section 7 shows what comes of it. Hence
RuntimeIsSound (no answer is lost, everything else may happen) and
RuntimeIsSoundInService (everything may happen, until the first outage).

**Only model-checked.** All liveness: AcceptedStarts, ScansEnd, RunsSettle, TasksMoveOn,
RowSettles, Delivered, SessionEnds, JobEnds, LostPreviewEnds (the prover has no fairness
reasoning). EstimatesFit, which adds tokens by a fold over a set: what a recursion
computes needs an induction the provers cannot do. RuntimeSound after an outage where
answers are lost, with the run's single fault. Outside the hypotheses of their theorems
ActiveJobShows and IdentitiesAgree fail (section 7).

## 7. What the checks found

**Statements that the code does not keep.** Each is defined in its module and
says what a comment, a message or a design note of the repository says. TLC refutes
it when it is added to the run's configuration, with the constants changed as said.
The properties that the runs check hold beside all of these: where a step
below is an exception in a property, the text says so.

| statement | run | what happens |
|---|---|---|
| AttemptsWithinBudget | scan_jobs | A sweep writes `retryCount + 1` from a row read before its earlier awaits, with a fence on status and lease only (`lib/job-reconciliation.ts:785-806`). With two processes a retry goes uncounted and a scan is attempted more often than the budget of `lib/db/src/schema/scan_jobs.ts:37-40` (of the monorepo). AttemptsAccounted says that nothing else exceeds it. |
| ActiveJobShows | scan_liveness with one project (`ProjectOf <- OneProject`, `Projects = {q1}`) and no faults | The end of a scan shows its project active also when a push has queued another scan; the guard that is to prevent it (`lib/scan-runner.ts:774-785`) tests the project's status, not who set it. |
| TerminalIsFinal | scan_liveness | When a push's insert commits but its answer is lost, the catch block fails the row by id although it may have completed (`routes/git.ts:1496-1505`). TerminalStays excepts this step and nothing else. |

| statement | run | what happens |
|---|---|---|
| RunEnds | ai_executions | An attempt that already failed, claimed again without a token and lost again, is reconciled as a duplicate each time: the row stays running (`lib/ai-execution-acceptance.ts:2635-2663`). |
| AcceptedMeansSucceeded | ai_executions | A completion overtaken by the reconciler is answered as accepted although the verdict on record is a failure (`lib/ai-execution-state.ts:3868-3891`). |
| SettlesTheEnded | ai_executions with `Kinds = {"contract"}`, `MaxAttempt = 1`, `MaxToken = 2`, `ProviderLimit = 1`, `Users = {}` | A settlement queued for an execution that is then claimed again ends the run under its live worker (`lib/ai-execution-acceptance.ts:331-332`). CancellationWins and LiveRunIsItsOwners except this step and nothing else. |

| statement | run | what happens |
|---|---|---|
| DeletedOnlyByClaim | task_runs with `Sweepers = {}`, `MaxAsks = 2` | An automatic job that found the task running or finished deletes the intent of its generation in a later transaction (`routes/ai/tasks.ts:521-526`): the intent of a request made since goes with it. |
| RequestRunsOnce | task_runs with `Autos = {a1, a2}`, `Calls = {}`, `Sweepers = {}`, `MaxRetries = 0` | Two processes dispatch one intent; the second persists it anew after the first run failed, and claims the task again (`routes/ai/tasks.ts:399-439`). |
| LiveRunIsRecorded | task_runs | After a failed run the user is told to try again (`routes/ai/tasks.ts:318`); the second run claims the same attempt, whose verdict stays, and cannot record anything. |
| RetriggerPossible | task_runs with `Autos = {}`, `MaxAsks = 0`, `MaxClaims = 3`, `MaxRetries = 2` | A sweep counts the generation from what it read (`lib/job-reconciliation.ts:906-930`): it can go back to a generation whose execution the task no longer points to, and every call is then refused. |
| IntentConsumed | task_runs | An intent for a generation whose execution completed is refused and deferred for ever (`routes/ai/tasks.ts:596-602`). IntentServed excepts it. |
| RetryIsRun | task_runs | A retry that recovery has counted is not run when its process stops before the claim (`lib/ai-recovery-coordinator.ts:810-832`). |

| statement | run | what happens |
|---|---|---|
| AcceptedAreObserved | observations | An execution accepted as retryable is resumed before its observations are delivered: though nothing is wrong with them they are refused for good (`lib/agent-state/observation-materializer.ts:727-740`, `lib/task-observation-outbox.ts:20`). |
| OneRequestPerLane | attempts | A request outlives its lease, and another process sends beside it: a first one because the transport of a whole answer sets no timer (`lib/ai-orchestrator/src/openai-compatible-client.ts:1048-1226` of the monorepo), a repeated one because the lease is sized for one (`:1767-1782`, `openrouter/model-cooldown-store.ts:306-314`). MeetOnlyAfterExpiry and CooldownRespected except a lease that ran out, and nothing else. |
| ForgottenByCrashOnly (AuditOutbox) | audits | A row recorded by a scan that the startup took up, whose copy could not be stored or was stored after the copies were read, is cleared with the queue by the load that follows (`index.ts:209`, `:236`, `lib/audit.ts:141`). In the first case it is lost without a crash, although "the exact row is retained and retried until the database accepts it" (`lib/audit.ts:222`). ForgottenForCause excepts a load beside a row without a copy. |
| CountCoversQueue | audits | The load sets the count (`lib/audit.ts:149`) while a drain is at a row; the removal of that row then takes one off (`:178`): it is one below the rows that wait. NeverUnderReported excepts exactly that one. |
| CountsWaitingRows | audits | Removing the copy of a delivered row fails: the count stays up, and nothing waits (`lib/audit.ts:176-212`). |
| StoredRowsRecovered | audits | The load at startup fails: stored rows are not read again before another start (`lib/audit.ts:151-154`). |
| AttemptsWithinLimit | budget | A reservation consumed between the statements that count consumed and reserved ones is in neither count: one more request is admitted (`lib/ai-budget.ts:178-187`). |
| NoTokenTwice | budget | In the statements that add tokens the order is the other way: its tokens are added twice, and a request is refused (`lib/ai-budget.ts:232-262`). |
| PendingEnds | discovery | A claim that throws leaves the advisory lock with its session; every later run skips the discovery session (`lib/discovery-runner.ts:398`). SessionEnds excepts it. |
| RetiredBeforeReady | discovery | The dispatcher queues a session before its request does: the run has no cleanup, and the session is ready beside its clone (`routes/discovery.ts:303`). |
| ProjectKeepsRoot | discovery | A session that scans a project whose root is managed takes that root as its own (`lib/discovery-adapters.ts:299`). If it is never imported, its collection a day later removes the root of the live project (`routes/discovery.ts:100`), although the comments at `:83-86` and `:109` promise that a project's root is preserved. ImportedRootStays speaks of the roots no such session refers to. |
| ForgottenByCrashOnly (ProjectBootstrap) | bootstrap | A removal that fails is logged and not repeated (`lib/project-bootstrap.ts:515-520`, `:588-593`), and a root whose copy stopped before its marker is not removed at all (`lib/project-materialization.ts:99-114`): a failed job leaves a root nobody knows of. ForgottenForCause asks for the try only. |
| ProjectHasRoot | bootstrap | The commit that inserts the project is not answered: the catch block removes the project's root (`lib/project-bootstrap.ts:515`). RootRemovedByMakerOnly excepts it. |
| StartingEnds | runtime | A heartbeat of a starting session that renews after the row was set to running forgets the session (`lib/workspace-runtime.ts:2084-2090`); its lease runs out, a start on another worker begins the next session over it, and the supervisor refuses that one because the first process lives. The "durable lease is retained for reconciliation" (`:1765`), but every observation finds the other session: the project stays "starting". |
| FailedMeansGone | runtime | A start "was not present in the supervisor" (`lib/workspace-runtime.ts:1378`, `:2051`) because its worker stalled before it sent the request: the session is recorded as failed, and the request then starts a process nobody owns. |
| StoppedIsGone | runtime | A stop during a start kills the process; the supervisor is restarted and the start, whose answer is lost, repeats its request (`lib/workspace-runtime.ts:1725-1730`): the stopped preview runs again. A lost answer is enough: the repeated request finds no entry. StoppedMeansGone speaks of supervisors that stay up and answer. |
| IdentitiesAgree | runtime with `Faulty = {"answer", "stall", "supervisor"}`, `MaxFaults = 3` | The answer to a start is lost and its worker stalls while another recovers the session and sees its pid; the supervisor is restarted, the start asks again, is told that it failed and records no pid (`lib/workspace-runtime.ts:1790-1825`); the recovery then sets the row to running. RuntimeIsSound excludes the lost answer; the run has one fault. |

**What stays possible.** In ProjectBootstrap a reclaim clears `working_root_path`
before it removes the directory: a crash in between leaves a root nobody knows of, as does
a removal that fails. ForgottenForCause says that these are the only ways. In AuditOutbox
a row without a copy goes with its process or with a load. In ObservationOutbox only recorded
failures count as tries, so a row whose worker crashes each time is repeated without
end; RowSettles holds because crashes are bounded.

## 8. What is left out

Of the modelled components: what a scan, a discovery or an attempt computes and
stores, what a verdict argues from, clocks (a deadline passes at any moment, and one
clock is used in each comparison), formatting, logging. "partly" in the component list
means that some state-changing operations of the listed files are outside the model:
for executions, child budgets, linked goals and missions; for tasks, the mission's
checks before a claim, chat recovery and deletion; for models, the cooldowns of
credentials and pools and the choice of the next model; for the budget, its alert; for
previews, what section 3 lists.

Of the rest.

- Proposals and delivery workspaces, GitHub delivery, local review branches: live promotion is off outside the tests (`lib/live-workspace-apply-policy.ts:22-26`),
  so what could be modelled is a journal that production does not write; the other two are models of GitHub and git, which are outside the
  repository.
- Missions write long transactions whose guards are about their contents: a model
  that keeps the guards is as long as the code, one that drops them says nothing.
- The episode ledger is a hash chain under a row lock: what can go wrong is in the
  bytes that are hashed. Its terminalization, which ends an execution without a
  verdict (`lib/agent-state/agent-episode-ledger.ts:1430`), is never reached:
  `lib/agent-state/runtime-start-hypothesis-collection-policy.ts:9` is false and the
  test seam beside it is not used in production.
- Plugins, shadow replay, skills, uploads and alerts are small stores with one writer.
- Orchestrator, knowledge engine and scanner are sequential code about data.
  Routes, dashboard, schema and generated code hold no state of their own.
