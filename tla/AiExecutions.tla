----------------------------- MODULE AiExecutions -----------------------------
(***************************************************************************)
(* One durable AI execution: its ai_executions row, the verdicts of its    *)
(* attempts (ai_execution_acceptances), and everybody who may write them:  *)
(* the workers that claim it, the user who stops, abandons or resumes it,  *)
(* the holders of resume tokens and the reconcilers of all processes       *)
(* (lib/ai-execution-state.ts, lib/ai-execution-acceptance.ts).            *)
(*                                                                         *)
(* A step is one statement or transaction of the database.  A handler that *)
(* reads the row in one statement and finalizes it in a later transaction  *)
(* takes two steps and keeps in between what it read.                      *)
(*                                                                         *)
(* A worker id is a fresh UUID per claim: worker n made the n-th claim.    *)
(* A lease is "live" until its deadline and "expired" after it; only a     *)
(* live lease is renewed.  A token is the number of times the stored hash  *)
(* has been replaced.                                                      *)
(***************************************************************************)
EXTENDS Integers

CONSTANTS
  Kinds,        \* kinds of request: "chat", "contract", "query", "observation"
  Failures,     \* what workers say of a failure: reason, recovery, resumable
  Users,        \* requests that stop or abandon the execution
  Sweepers,     \* reconcilers, one per process
  ParserLimit, ProviderLimit,   \* attempts from which recovery is exhausted
  MaxClaims,    \* bound: claims in one behaviour
  MaxAttempt,   \* bound: the last attempt
  MaxToken      \* bound: no token is handed out from this hash on

FailReasons ==
  {"EXECUTION_FAILED", "EXECUTION_PROVIDER_FAILURE", "MODEL_OUTPUT_INVALID", "EXECUTION_ACCEPTANCE_INCOMPLETE"}

ASSUME ConstantsAssumption ==
  /\ Kinds \in SUBSET {"chat", "contract", "query", "observation"}
  /\ Failures \in SUBSET [reason : FailReasons, recovery : {"REQUIRED", "INCOMPLETE"}, resumable : BOOLEAN]
  /\ \A v \in Failures : v.resumable => v.recovery = "REQUIRED"
  /\ ParserLimit \in Nat /\ ProviderLimit \in Nat
  /\ MaxClaims \in Nat
  /\ MaxAttempt \in Nat
  /\ MaxToken \in Nat

VARIABLES
  \* ai_executions; marker is checkpoint.recovery
  kind, status, attempt, worker, lease, token, marker,
  \* ai_execution_acceptances, by attempt
  acc,
  \* tokens handed out, and the token that opened each attempt
  issued, opened,
  \* workers: claims made, where each one is, its attempt, what it was told
  claims, phase, att, answer,
  \* what a reconciler and a user's request have read, and the attempts
  \* whose exhausted recovery is about to be settled
  sweep, ask, settling

rowVars == <<kind, status, attempt, worker, lease, token, marker>>
ledgerVars == <<acc, issued, opened>>
workerVars == <<claims, phase, att, answer>>
vars == <<rowVars, ledgerVars, workerVars, sweep, ask, settling>>

NoWorker == 0
Workers == 1..MaxClaims
Attempts == 0..MaxAttempt
Tokens == 0..(MaxToken + MaxAttempt)
Terminal == {"paused", "failed", "completed", "cancelled"}
Statuses == {"absent", "queued", "running", "cancelling"} \cup Terminal
Reasons ==
  {"ACCEPTED", "EXECUTION_LEASE_EXPIRED", "EXECUTION_CANCELLED", "EXECUTION_ABANDONED"} \cup FailReasons

Verdicts ==
  [outcome : {"SUCCEEDED", "FAILED", "INTERRUPTED"}, terminal : Terminal, reason : Reasons,
   recovery : {"NONE", "REQUIRED", "INCOMPLETE"}, resumable : BOOLEAN, by : Workers \cup {NoWorker}]
NoVerdict ==
  [outcome |-> "NONE", terminal |-> "none", reason |-> "none", recovery |-> "NONE",
   resumable |-> FALSE, by |-> NoWorker]

NotAsked == [step |-> "idle", attempt |-> 0, reason |-> "EXECUTION_CANCELLED"]
NotSeen == [status |-> "absent", worker |-> NoWorker, attempt |-> 0]

TypeOK ==
  /\ kind \in Kinds \cup {"none"}
  /\ status \in Statuses
  /\ attempt \in Attempts
  /\ worker \in Workers \cup {NoWorker}
  /\ lease \in {"none", "live", "expired"}
  /\ token \in Tokens
  /\ marker \in {"none", "uncertain", "resume"}
  /\ acc \in [Attempts -> Verdicts \cup {NoVerdict}]
  /\ issued \in SUBSET Tokens
  /\ opened \in [Attempts -> Tokens]
  /\ claims \in 0..MaxClaims
  /\ phase \in [Workers -> {"new", "run", "completing", "refused", "failing", "interrupting", "done"}]
  /\ att \in [Workers -> Attempts]
  /\ answer \in [Workers -> {"none", "won", "duplicate"}]
  /\ sweep \in [Sweepers -> [status : Statuses, worker : Workers \cup {NoWorker}, attempt : Attempts]]
  /\ ask \in [Users -> [step : {"idle", "end", "mark"}, attempt : Attempts,
                        reason : {"EXECUTION_CANCELLED", "EXECUTION_ABANDONED"}]]
  /\ settling \in SUBSET Attempts

Init ==
  /\ kind = "none"
  /\ status = "absent"
  /\ attempt = 0
  /\ worker = NoWorker
  /\ lease = "none"
  /\ token = 0
  /\ marker = "none"
  /\ acc = [a \in Attempts |-> NoVerdict]
  /\ issued = {}
  /\ opened = [a \in Attempts |-> 0]
  /\ claims = 0
  /\ phase = [w \in Workers |-> "new"]
  /\ att = [w \in Workers |-> 0]
  /\ answer = [w \in Workers |-> "none"]
  /\ sweep = [s \in Sweepers |-> NotSeen]
  /\ ask = [u \in Users |-> NotAsked]
  /\ settling = {}
-----------------------------------------------------------------------------
(* finalizeExecutionAcceptance.  A finalization f is the record of its      *)
(* arguments; f.seen is expectedExecutionState, NotSeen if there is none.   *)

Judged == acc[attempt].outcome # "NONE"
OwnedLive(w) == worker = w /\ lease = "live"

Stale(f) ==
  \/ f.seen # NotSeen /\ (status # f.seen.status \/ worker # f.seen.worker)
  \/ attempt # f.attempt

\* Mutant: only a stop before the start or during a pause replaces a verdict.
InterruptsUnlessCancelling(f) ==
  ~Stale(f) /\ Judged /\ f.outcome = "INTERRUPTED" /\ status \in {"queued", "paused"}

\* replaceExistingInterruption: a stop overrides the verdict of a pause.
Interrupts(f) ==
  /\ ~Stale(f)
  /\ Judged
  /\ f.outcome = "INTERRUPTED"
  /\ status \in {"queued", "paused", "cancelling"}

\* reclaimOwnsLiveLease: the worker that claimed a paused attempt again.
Reclaims(f) ==
  /\ f.by # NoWorker
  /\ status = "running"
  /\ OwnedLive(f.by)
  /\ acc[attempt].reason = "EXECUTION_LEASE_EXPIRED"
  /\ acc[attempt].terminal = "paused"

Duplicate(f) == ~Stale(f) /\ Judged /\ ~Interrupts(f) /\ ~Reclaims(f)

\* Mutant: a stop without a worker is let through to a running row.
FencedWorkersOnly(f) ==
  IF f.outcome = "SUCCEEDED"
  THEN ~(status = "running" /\ OwnedLive(f.by))
  ELSE status = "running" /\ f.by # NoWorker /\ ~OwnedLive(f.by)

\* A running row is only ended by its owner or from a reconciler's snapshot.
Fenced(f) ==
  IF f.outcome = "SUCCEEDED"
  THEN ~(status = "running" /\ OwnedLive(f.by))
  ELSE status = "running" /\ IF f.by = NoWorker THEN f.seen = NotSeen ELSE ~OwnedLive(f.by)

Records(f) == ~Stale(f) /\ (~Judged \/ Reclaims(f)) /\ ~Fenced(f)

\* A cancellation that was asked for turns a failure into an interruption.
VerdictOf(f) ==
  LET stopped == f.outcome # "SUCCEEDED" /\ (f.outcome = "INTERRUPTED" \/ status = "cancelling")
  IN  [outcome |-> IF stopped THEN "INTERRUPTED" ELSE f.outcome,
       terminal |-> IF stopped THEN "cancelled" ELSE f.terminal,
       reason |-> IF stopped THEN "EXECUTION_CANCELLED" ELSE f.reason,
       recovery |-> f.recovery, resumable |-> f.resumable,
       by |-> IF f.by # NoWorker THEN f.by ELSE worker]

InterruptionOf(f) ==
  [outcome |-> "INTERRUPTED", terminal |-> "cancelled", reason |-> f.reason, recovery |-> "INCOMPLETE",
   resumable |-> FALSE, by |-> IF f.by # NoWorker THEN f.by ELSE acc[attempt].by]

EndRow(v) ==
  /\ acc' = [acc EXCEPT ![attempt] = v]
  /\ status' = v.terminal
  /\ worker' = NoWorker
  /\ lease' = "none"

Finalize(f) ==
  \/ Interrupts(f) /\ EndRow(InterruptionOf(f))
  \/ Records(f) /\ EndRow(VerdictOf(f))
  \/ ~Interrupts(f) /\ ~Records(f) /\ UNCHANGED <<acc, status, worker, lease>>

Answer(f) == IF Interrupts(f) \/ Records(f) THEN "won" ELSE IF Duplicate(f) THEN "duplicate" ELSE "none"
-----------------------------------------------------------------------------
(* Eligibility of the current verdict: deriveAcceptanceNextAction and the   *)
(* two acceptance checks.  Whether a retryAt has passed is left open.       *)

NextAction(v) ==
  IF v.outcome = "SUCCEEDED" THEN "NONE"
  ELSE IF v.recovery = "REQUIRED" /\ v.resumable THEN "RESUME_ALLOWED"
  ELSE IF v.reason = "EXECUTION_PROVIDER_FAILURE" /\ ~v.resumable THEN "RETRY"
  ELSE "OTHER"

ResumeEligible ==
  LET v == acc[attempt]
      chat == kind = "chat"
      transient == chat /\ v.reason = "EXECUTION_PROVIDER_FAILURE" /\ NextAction(v) = "RETRY"
      parser == chat /\ v.reason = "MODEL_OUTPUT_INVALID" /\ NextAction(v) = "RESUME_ALLOWED"
  IN  /\ chat => parser \/ transient
      /\ Judged => v.resumable \/ transient
      /\ status = "failed" => v.resumable

RetryEligible ==
  /\ NextAction(acc[attempt]) = "RETRY"
  /\ acc[attempt].recovery = "REQUIRED"

OperatorEligible == status = "paused" /\ marker = "resume" /\ (Judged => acc[attempt].resumable)
-----------------------------------------------------------------------------
(* Creation and claims.                                                     *)

\* createAiExecution; a second one with the same key finds the row.
Create ==
  /\ status = "absent"
  /\ kind' \in Kinds
  /\ status' = "queued"
  /\ token < MaxToken
  /\ token' = token + 1
  /\ issued' = issued \cup {token + 1}
  /\ UNCHANGED <<attempt, worker, lease, marker, acc, opened, workerVars, sweep, ask, settling>>

Occupy(a) ==
  /\ claims < MaxClaims
  /\ claims' = claims + 1
  /\ status' = "running"
  /\ worker' = claims + 1
  /\ lease' = "live"
  /\ phase' = [phase EXCEPT ![claims + 1] = "run"]
  /\ att' = [att EXCEPT ![claims + 1] = a]
  /\ UNCHANGED <<kind, marker, acc, issued, answer, sweep, ask, settling>>

\* claimAiExecution without a token: a new request, or a repeated one whose
\* idempotency key or execution id names an execution that was paused or
\* failed.  The keys of observations are random: nobody repeats them.
Claim ==
  /\ status = "queued" \/ (kind # "observation" /\ status \in {"paused", "failed"})
  /\ Occupy(attempt)
  /\ UNCHANGED <<attempt, token, opened>>

\* Mutant: the token is checked and not consumed.
ClaimWithTokenUnspent(t) ==
  /\ status \in {"paused", "failed"}
  /\ t \in issued /\ t = token
  /\ ResumeEligible \/ RetryEligible \/ OperatorEligible
  /\ attempt < MaxAttempt
  /\ attempt' = attempt + 1
  /\ opened' = [opened EXCEPT ![attempt + 1] = t]
  /\ Occupy(attempt + 1)
  /\ UNCHANGED token

\* claimAiExecution with a token: it is consumed and opens the next attempt.
ClaimWithToken(t) ==
  /\ status \in {"paused", "failed"}
  /\ t \in issued /\ t = token
  /\ ResumeEligible \/ RetryEligible \/ OperatorEligible
  /\ attempt < MaxAttempt
  /\ token' = token + 1
  /\ attempt' = attempt + 1
  /\ opened' = [opened EXCEPT ![attempt + 1] = t]
  /\ Occupy(attempt + 1)

Rotate ==
  /\ token < MaxToken
  /\ token' = token + 1
  /\ issued' = issued \cup {token + 1}
  /\ UNCHANGED <<kind, status, attempt, worker, lease, acc, opened, workerVars, sweep, ask, settling>>

\* recoverAiExecutionResumeToken
RecoverResume ==
  /\ status \in {"paused", "failed"}
  /\ ResumeEligible
  /\ Rotate
  /\ UNCHANGED marker

\* recoverAiExecutionRetryToken
RecoverRetry ==
  /\ status \in {"paused", "failed"}
  /\ kind \in {"chat", "contract"}
  /\ RetryEligible
  /\ Rotate
  /\ UNCHANGED marker

\* requestAiExecutionRecovery (resume): the compare-and-set on everything it
\* read makes its two transactions one step.
OperatorResume ==
  /\ status = "paused"
  /\ marker = "uncertain"
  /\ ResumeEligible
  /\ acc[attempt].resumable
  /\ marker' = "resume"
  /\ Rotate
-----------------------------------------------------------------------------
(* Workers.                                                                 *)

Become(w, p) == phase' = [phase EXCEPT ![w] = p]

LeaseExpires ==
  /\ lease = "live"
  /\ lease' = "expired"
  /\ UNCHANGED <<kind, status, attempt, worker, token, marker, ledgerVars, workerVars, sweep, ask, settling>>

\* checkpointAiExecution replaces the checkpoint; that it and
\* heartbeatAiExecution renew a live lease shows as LeaseExpires not happening.
Checkpoint(w) ==
  /\ phase[w] = "run"
  /\ status = "running" /\ OwnedLive(w) /\ attempt = att[w]
  /\ marker # "none"
  /\ marker' = "none"
  /\ UNCHANGED <<kind, status, attempt, worker, lease, token, ledgerVars, workerVars, sweep, ask, settling>>

Working(w, p) == Become(w, p) /\ UNCHANGED <<rowVars, ledgerVars, claims, att, answer, sweep, ask, settling>>

\* The first attempt of an observation ends without a verdict.
Observing(w) == kind = "observation" /\ att[w] = 0

\* terminalizeChatObservationExecution
ObservationEnds(w) ==
  /\ phase[w] = "run"
  /\ Observing(w) /\ OwnedLive(w) /\ attempt = att[w]
  /\ \/ status = "running" /\ status' \in {"completed", "failed", "cancelled"}
     \/ status = "cancelling" /\ status' = "cancelled"
  /\ worker' = NoWorker
  /\ lease' = "none"
  /\ Become(w, "done")
  /\ UNCHANGED <<kind, attempt, token, marker, ledgerVars, claims, att, answer, sweep, ask, settling>>

\* terminalizeChatObservationExecution without a worker: the row was created
\* and its claim refused, as that of a linked task's always is.
ObservationUnclaimed ==
  /\ kind = "observation"
  /\ status = "queued"
  /\ status' = "failed"
  /\ UNCHANGED <<kind, attempt, worker, lease, token, marker, ledgerVars, workerVars, sweep, ask, settling>>

\* completeAiExecutionWithResult reads the row; only a run bound to a recipe
\* looks at the deadline.
BeginComplete(w) ==
  /\ phase[w] = "run"
  /\ ~Observing(w)
  /\ worker = w /\ status = "running"
  /\ Working(w, "completing")

\* failAiExecution reads the row.
BeginFail(w) ==
  /\ phase[w] \in {"run", "refused"}
  /\ ~Observing(w)
  /\ OwnedLive(w)
  /\ \/ status = "running" /\ Working(w, "failing")
     \/ status \in {"running", "cancelling"} /\ Working(w, "interrupting")

\* A heartbeat, a checkpoint or the read of a finalization was refused.
Leave(w) ==
  /\ phase[w] \in {"run", "refused"}
  /\ ~(status = "running" /\ OwnedLive(w))
  /\ Working(w, "done")

WorkerDies(w) ==
  /\ phase[w] \notin {"new", "done"}
  /\ Working(w, "done")

Completion(w) ==
  [attempt |-> att[w], by |-> w, outcome |-> "SUCCEEDED", terminal |-> "completed", reason |-> "ACCEPTED",
   recovery |-> "NONE", resumable |-> FALSE, seen |-> NotSeen]

FinishComplete(w) ==
  /\ phase[w] = "completing"
  /\ Finalize(Completion(w))
  /\ answer' = [answer EXCEPT ![w] = Answer(Completion(w))]
  /\ Become(w, IF Answer(Completion(w)) = "none" THEN "refused" ELSE "done")
  /\ UNCHANGED <<kind, attempt, token, marker, issued, opened, claims, att, sweep, ask, settling>>

\* Evidence, effects or proof do not carry a success.
RejectComplete(w) ==
  /\ phase[w] = "completing"
  /\ Working(w, "refused")

Failure(w, v) ==
  [attempt |-> att[w], by |-> w, outcome |-> "FAILED", terminal |-> "failed", reason |-> v.reason,
   recovery |-> v.recovery, resumable |-> v.resumable, seen |-> NotSeen]

Interruption(w, a, r) ==
  [attempt |-> a, by |-> w, outcome |-> "INTERRUPTED", terminal |-> "cancelled", reason |-> r,
   recovery |-> "INCOMPLETE", resumable |-> FALSE, seen |-> NotSeen]

Finish(w, f) ==
  /\ Finalize(f)
  /\ Become(w, "done")
  /\ UNCHANGED <<kind, attempt, token, marker, issued, opened, claims, att, answer, sweep, ask, settling>>

FinishFail(w) ==
  /\ phase[w] = "failing"
  /\ \E v \in Failures : Finish(w, Failure(w, v))

FinishInterrupt(w) ==
  /\ phase[w] = "interrupting"
  /\ Finish(w, Interruption(w, att[w], "EXECUTION_CANCELLED"))
-----------------------------------------------------------------------------
(* The user's requests and the reconcilers.                                 *)

Asking(u, r) == ask' = [ask EXCEPT ![u] = r] /\ UNCHANGED <<rowVars, ledgerVars, workerVars, sweep, settling>>

\* requestAiExecutionCancel reads the row and decides by its status.
AskCancel(u) ==
  /\ ask[u].step = "idle"
  /\ status # "absent"
  /\ Asking(u, [step |-> IF status \in {"queued", "paused"} THEN "end" ELSE "mark",
                attempt |-> attempt, reason |-> "EXECUTION_CANCELLED"])

\* requestAiExecutionRecovery (abandon) reads the row.
AskAbandon(u) ==
  /\ ask[u].step = "idle"
  /\ status = "paused" /\ marker # "none"
  /\ Asking(u, [step |-> "end", attempt |-> attempt, reason |-> "EXECUTION_ABANDONED"])

EndAsked(u) ==
  /\ ask[u].step = "end"
  /\ Finalize(Interruption(NoWorker, ask[u].attempt, ask[u].reason))
  /\ ask' = [ask EXCEPT ![u] = NotAsked]
  /\ UNCHANGED <<kind, attempt, token, marker, issued, opened, workerVars, sweep, settling>>

MarkCancelling(u) ==
  /\ ask[u].step = "mark"
  /\ status' = IF status = "running" THEN "cancelling" ELSE status
  /\ ask' = [ask EXCEPT ![u] = NotAsked]
  /\ UNCHANGED <<kind, attempt, worker, lease, token, marker, ledgerVars, workerVars, sweep, settling>>

\* reconcileAiExecutions selects the row.
Recoverable == status = "cancelling" \/ (status = "running" /\ lease = "expired")

SweepRead(s) ==
  /\ sweep[s] = NotSeen
  /\ Recoverable
  /\ sweep' = [sweep EXCEPT ![s] = [status |-> status, worker |-> worker, attempt |-> attempt]]
  /\ UNCHANGED <<rowVars, ledgerVars, workerVars, ask, settling>>

Recovery(s) ==
  IF sweep[s].status = "cancelling"
  THEN [Interruption(NoWorker, sweep[s].attempt, "EXECUTION_CANCELLED") EXCEPT !.seen = sweep[s]]
  ELSE [attempt |-> sweep[s].attempt, by |-> NoWorker, outcome |-> "FAILED", terminal |-> "paused",
        reason |-> "EXECUTION_LEASE_EXPIRED", recovery |-> "REQUIRED", resumable |-> kind # "chat",
        seen |-> sweep[s]]

\* The checkpoint is marked uncertain unless it cannot be rewritten safely.
SweepFinalize(s) ==
  /\ sweep[s] # NotSeen
  /\ Finalize(Recovery(s))
  /\ \/ UNCHANGED marker
     \/ Records(Recovery(s)) /\ sweep[s].status = "running" /\ marker' = "uncertain"
  /\ sweep' = [sweep EXCEPT ![s] = NotSeen]
  /\ UNCHANGED <<kind, attempt, token, issued, opened, workerVars, ask, settling>>
-----------------------------------------------------------------------------
(* The recovery coordinator.                                                *)

\* planChatRecovery: automatic recovery of the current attempt is exhausted.
Exhausted ==
  LET v == acc[attempt]
  IN  /\ status \in {"paused", "failed"}
      /\ v.outcome = "FAILED" /\ v.recovery = "REQUIRED"
      /\ \/ /\ kind = "chat" /\ attempt >= ParserLimit
            /\ v.reason = "MODEL_OUTPUT_INVALID" /\ NextAction(v) = "RESUME_ALLOWED"
         \/ /\ kind = "chat" /\ attempt >= ProviderLimit
            /\ v.reason = "EXECUTION_PROVIDER_FAILURE" /\ NextAction(v) = "RETRY"
         \/ /\ kind \in {"contract", "query"} /\ attempt >= ProviderLimit
            /\ NextAction(v) \in {"RESUME_ALLOWED", "RETRY"}

\* dispatchAutonomousTaskRecoveries selects the row and queues the settlement.
SettleRead ==
  /\ Exhausted
  /\ settling' = settling \cup {attempt}
  /\ UNCHANGED <<rowVars, ledgerVars, workerVars, sweep, ask>>

Settled(v) ==
  [outcome |-> "FAILED", terminal |-> "failed", reason |-> "EXECUTION_ACCEPTANCE_INCOMPLETE",
   recovery |-> "INCOMPLETE", resumable |-> FALSE, by |-> v.by]

\* Mutant: whether the execution was completed or cancelled is not looked at.
SettleAny(a) ==
  /\ a \in settling
  /\ settling' = settling \ {a}
  /\ \/ attempt = a /\ EndRow(Settled(acc[a]))
     \/ UNCHANGED <<acc, status, worker, lease>>
  /\ UNCHANGED <<kind, attempt, token, marker, issued, opened, workerVars, sweep, ask>>

\* settleExhaustedExecutionRecovery; it does nothing either if the row has no
\* final message, or another one.
Settle(a) ==
  /\ a \in settling
  /\ settling' = settling \ {a}
  /\ \/ /\ attempt = a
        /\ status \notin {"cancelled", "completed"}
        /\ acc[a].outcome \in {"FAILED", "INTERRUPTED"}
        /\ EndRow(Settled(acc[a]))
     \/ UNCHANGED <<acc, status, worker, lease>>
  /\ UNCHANGED <<kind, attempt, token, marker, issued, opened, workerVars, sweep, ask>>
-----------------------------------------------------------------------------
Acts(w) ==
  \/ Checkpoint(w) \/ ObservationEnds(w) \/ BeginComplete(w) \/ BeginFail(w) \/ Leave(w) \/ WorkerDies(w)
  \/ FinishComplete(w) \/ RejectComplete(w) \/ FinishFail(w) \/ FinishInterrupt(w)
Asks(u) == AskCancel(u) \/ AskAbandon(u) \/ EndAsked(u) \/ MarkCancelling(u)
Reconciles(s) == SweepRead(s) \/ SweepFinalize(s)

Next ==
  \/ Create \/ Claim \/ ObservationUnclaimed
  \/ RecoverResume \/ RecoverRetry \/ OperatorResume \/ LeaseExpires \/ SettleRead
  \/ \E a \in Attempts : Settle(a)
  \/ \E t \in Tokens : ClaimWithToken(t)
  \/ \E w \in Workers : Acts(w)
  \/ \E u \in Users : Asks(u)
  \/ \E s \in Sweepers : Reconciles(s)

Spec == Init /\ [][Next]_vars

\* Reconcilers run periodically, leases run out, and a worker that stopped
\* running its turn ends it, loses it or dies; nobody has to ask for anything.
Fairness ==
  /\ WF_vars(LeaseExpires)
  /\ \A s \in Sweepers : WF_vars(Reconciles(s))
  /\ \A w \in Workers :
       WF_vars(ObservationEnds(w) \/ BeginComplete(w) \/ BeginFail(w) \/ Leave(w) \/ WorkerDies(w)
               \/ FinishComplete(w) \/ RejectComplete(w) \/ FinishFail(w) \/ FinishInterrupt(w))
  /\ \A u \in Users : WF_vars(EndAsked(u) \/ MarkCancelling(u))

FairSpec == Spec /\ Fairness
-----------------------------------------------------------------------------
(* What must not go wrong.                                                  *)

\* The row and the verdict of its current attempt tell the same story: a
\* row that has ended carries the verdict that ended it (an observation may
\* have none), an active one at most a failure to be revised, and earlier
\* attempts all failed (finalizeExecutionAcceptance and
\* settleExhaustedExecutionRecovery write both, claims and stops only one).
VerdictMatchesRow ==
  /\ status \in {"absent", "queued"} => ~Judged
  /\ status \in {"running", "cancelling"} =>
       ~Judged \/ (kind # "observation" /\ acc[attempt].outcome = "FAILED")
  /\ status \in Terminal =>
       \/ acc[attempt].terminal = status
       \/ kind = "observation" /\ ~Judged /\ status # "paused"
  /\ \A a \in Attempts :
       /\ acc[a].outcome = "SUCCEEDED" <=> acc[a].terminal = "completed"
       /\ acc[a].outcome = "INTERRUPTED" <=> acc[a].terminal = "cancelled"
       /\ acc[a].outcome = "FAILED" <=> acc[a].terminal \in {"failed", "paused"}
       /\ a < attempt => acc[a].outcome = "FAILED"
       /\ a > attempt => acc[a] = NoVerdict

\* No token opens two attempts, however often it is presented: claims race
\* with each other and with everybody who issues the next one.
TokenOpensOneAttempt ==
  \A a, b \in Attempts : opened[a] # 0 /\ opened[a] = opened[b] => a = b

\* A worker that was told its success was recorded stays the one whose
\* success is on record, whatever stops, retries, recoveries and settlements
\* follow.
WinnersStand ==
  \A w \in Workers : answer[w] = "won" => acc[att[w]].outcome = "SUCCEEDED" /\ acc[att[w]].by = w

\* Row, verdicts, tokens and the answers workers were given fit together
\* after any interleaving of claims, completions, stops and recoveries.
VerdictsSound == TypeOK /\ VerdictMatchesRow /\ TokenOpensOneAttempt /\ WinnersStand

\* From a requested cancellation the execution only goes to cancelled: no
\* completion, failure, recovery or claim gets past it.  Only the settlement
\* of an exhausted recovery can (SettlesTheEnded).
CancellationWins ==
  [][status = "cancelling" /\ UNCHANGED settling => status' \in {"cancelling", "cancelled"}]_vars

\* While a lease is live nobody but its holder ends the run, not a worker of
\* an earlier claim on the same attempt nor a reconciler with an old snapshot.
\* Only the settlement of an exhausted recovery can (SettlesTheEnded).
LiveRunIsItsOwners ==
  [][status = "running" /\ lease = "live" /\ status' \in Terminal /\ UNCHANGED settling
     => phase'[worker] # phase[worker]]_vars

\* Both fences of an ending: a cancellation that was asked for, and a lease.
EndsFenced == CancellationWins /\ LiveRunIsItsOwners

\* The acceptance rows keep what ExecutionLedger promises.
L == INSTANCE ExecutionLedger WITH verdict <- [a \in Attempts |-> acc[a].outcome]
KeepsLedger == L!Spec

\* A requested cancellation ends the execution although its worker died.
CancellationEnds == status = "cancelling" ~> status \in Terminal

\* A run on an attempt without a verdict does not stay running: its worker
\* ends it or recovery pauses it.
FirstRunEnds == (status = "running" /\ ~Judged) ~> status # "running"

\* Both: neither a cancellation nor a first run is left to a dead worker.
RunsSettle == CancellationEnds /\ FirstRunEnds

\* The same for every run, also one that claimed a paused or failed attempt
\* again ("an expired lease is restored as interrupted, paused or failed").
RunEnds == status = "running" ~> status # "running"

\* A completion that is answered accepted is on record as a success ("return
\* whether the write won"): classifyAiExecutionCompletionRefusal is for the rest.
AcceptedMeansSucceeded ==
  \A w \in Workers : answer[w] \in {"won", "duplicate"} => acc[att[w]].outcome = "SUCCEEDED"

\* A settlement only rewrites an execution that has ended ("refine an
\* already-terminal provider failure when bounded recovery is exhausted").
SettlesTheEnded == [][settling' # settling /\ acc' # acc => status \in Terminal]_vars
=============================================================================
