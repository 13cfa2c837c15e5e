-------------------------- MODULE AiExecutions_proofs --------------------------
(* Proofs about AI executions, for any number of claims, attempts, tokens,    *)
(* users and reconcilers, and any kinds and failures.                         *)
EXTENDS AiExecutions, TLAPS

-----------------------------------------------------------------------------
(* Finalizations.                                                             *)

Finalizations ==
  [attempt : Attempts, by : Workers \cup {NoWorker}, outcome : {"SUCCEEDED", "FAILED", "INTERRUPTED"},
   terminal : Terminal, reason : Reasons, recovery : {"NONE", "REQUIRED", "INCOMPLETE"}, resumable : BOOLEAN,
   seen : [status : Statuses, worker : Workers \cup {NoWorker}, attempt : Attempts]]

\* What every caller passes: an outcome and the status that goes with it.
Coherent(f) ==
  /\ f \in Finalizations
  /\ f.outcome = "SUCCEEDED" <=> f.terminal = "completed"
  /\ f.outcome = "INTERRUPTED" <=> f.terminal = "cancelled"
  /\ f.outcome = "FAILED" <=> f.terminal \in {"failed", "paused"}

(* No worker is a claim.                                                      *)
LEMMA ClaimsAreWorkers == NoWorker \notin Workers /\ 0 \in Attempts /\ 0 \in Tokens
BY ConstantsAssumption DEF NoWorker, Workers, Attempts, Tokens

LEMMA NotSeenTypes == NotSeen \in [status : Statuses, worker : Workers \cup {NoWorker}, attempt : Attempts]
BY ClaimsAreWorkers DEF NotSeen, Statuses

(* What workers, users and reconcilers pass is coherent.                      *)
LEMMA CallersAreCoherent ==
  ASSUME TypeOK
  PROVE  /\ \A w \in Workers : Coherent(Completion(w))
         /\ \A w \in Workers, v \in Failures : Coherent(Failure(w, v))
         /\ \A w \in Workers \cup {NoWorker}, a \in Attempts,
               r \in {"EXECUTION_CANCELLED", "EXECUTION_ABANDONED"} : Coherent(Interruption(w, a, r))
         /\ \A s \in Sweepers : Coherent(Recovery(s))
<1> USE NotSeenTypes DEF Coherent, Finalizations, Terminal, Reasons, FailReasons
<1>1. \A w \in Workers : att[w] \in Attempts
  BY DEF TypeOK
<1>2. \A w \in Workers : Coherent(Completion(w))
  BY <1>1 DEF Completion
<1>3. \A v \in Failures : v \in [reason : FailReasons, recovery : {"REQUIRED", "INCOMPLETE"}, resumable : BOOLEAN]
  BY ConstantsAssumption
<1>4. \A w \in Workers, v \in Failures : Coherent(Failure(w, v))
  BY <1>1, <1>3 DEF Failure
<1>5. \A w \in Workers \cup {NoWorker}, a \in Attempts,
        r \in {"EXECUTION_CANCELLED", "EXECUTION_ABANDONED"} : Coherent(Interruption(w, a, r))
  BY DEF Interruption
<1>6. ASSUME NEW s \in Sweepers PROVE Coherent(Recovery(s))
  <2>1. sweep[s] \in [status : Statuses, worker : Workers \cup {NoWorker}, attempt : Attempts]
    BY DEF TypeOK
  <2>2. CASE sweep[s].status = "cancelling"
    BY <2>1, <2>2 DEF Recovery, Interruption
  <2>3. CASE sweep[s].status # "cancelling"
    BY <2>1, <2>3 DEF Recovery
  <2> QED
    BY <2>2, <2>3
<1> QED
  BY <1>2, <1>4, <1>5, <1>6

(* A verdict has its type, and the terminal status that goes with its outcome. *)
LEMMA VerdictsRecorded ==
  ASSUME TypeOK, NEW f, Coherent(f), NEW v, v = VerdictOf(f) \/ v = InterruptionOf(f)
  PROVE  /\ v \in Verdicts
         /\ v.terminal \in Terminal
         /\ v.outcome = "SUCCEEDED" <=> v.terminal = "completed"
         /\ v.outcome = "INTERRUPTED" <=> v.terminal = "cancelled"
         /\ v.outcome = "FAILED" <=> v.terminal \in {"failed", "paused"}
<1>1. acc[attempt].by \in Workers \cup {NoWorker} /\ worker \in Workers \cup {NoWorker}
  BY DEF TypeOK, Verdicts, NoVerdict
<1>2. CASE v = InterruptionOf(f)
  BY <1>1, <1>2 DEF Coherent, Finalizations, InterruptionOf, Verdicts, Terminal, Reasons
<1>3. CASE v = VerdictOf(f)
  BY <1>1, <1>3 DEF Coherent, Finalizations, VerdictOf, Verdicts, Terminal, Reasons
<1> QED
  BY <1>2, <1>3

(* A finalization leaves everything as it is or ends the row with a verdict.  *)
LEMMA FinalizeEnds ==
  ASSUME TypeOK, NEW f, Coherent(f), Finalize(f)
  PROVE  \/ UNCHANGED <<acc, status, worker, lease>>
         \/ \E v \in Verdicts :
              /\ EndRow(v)
              /\ v.terminal \in Terminal
              /\ v.outcome = "SUCCEEDED" <=> v.terminal = "completed"
              /\ v.outcome = "INTERRUPTED" <=> v.terminal = "cancelled"
              /\ v.outcome = "FAILED" <=> v.terminal \in {"failed", "paused"}
BY VerdictsRecorded DEF Finalize

(* A settlement leaves everything as it is or replaces a failure by another.  *)
LEMMA SettleRevises ==
  ASSUME TypeOK, VerdictMatchesRow, NEW a \in Attempts, Settle(a)
  PROVE  \/ UNCHANGED <<acc, status, worker, lease>>
         \/ /\ EndRow(Settled(acc[attempt]))
            /\ acc[attempt].outcome = "FAILED"
            /\ status # "cancelled" /\ status # "completed"
<1>1. CASE UNCHANGED <<acc, status, worker, lease>>
  BY <1>1
<1>2. CASE /\ attempt = a /\ status \notin {"cancelled", "completed"}
           /\ acc[a].outcome \in {"FAILED", "INTERRUPTED"} /\ EndRow(Settled(acc[a]))
  <2>1. acc[attempt].outcome # "INTERRUPTED"
    <3>1. SUFFICES ASSUME acc[attempt].outcome = "INTERRUPTED" PROVE FALSE
      OBVIOUS
    <3>2. acc[attempt].terminal = "cancelled" /\ Judged
      BY <1>2, <3>1 DEF VerdictMatchesRow, Judged
    <3>3. status \in Terminal
      BY <3>1, <3>2 DEF VerdictMatchesRow, TypeOK, Statuses
    <3> QED
      BY <1>2, <3>2, <3>3 DEF VerdictMatchesRow
  <2> QED
    BY <1>2, <2>1
<1> QED
  BY <1>1, <1>2 DEF Settle

LEMMA SettledTypes ==
  ASSUME NEW v \in Verdicts \cup {NoVerdict}
  PROVE  /\ Settled(v) \in Verdicts
         /\ Settled(v).outcome = "FAILED" /\ Settled(v).terminal = "failed"
<1>1. v.by \in Workers \cup {NoWorker}
  BY DEF Verdicts, NoVerdict
<1> QED
  BY <1>1 DEF Settled, Verdicts, Terminal, Reasons, FailReasons

-----------------------------------------------------------------------------
(* Types.  A token is replaced a bounded number of times without a claim and  *)
(* once by the claim that opens an attempt.                                   *)

TypeInv == TypeOK /\ token <= MaxToken + attempt

RowTypes ==
  /\ status \in Statuses
  /\ worker \in Workers \cup {NoWorker}
  /\ lease \in {"none", "live", "expired"}
  /\ acc \in [Attempts -> Verdicts \cup {NoVerdict}]

LEMMA FinalizeTypes ==
  ASSUME TypeOK, NEW f, Coherent(f), Finalize(f)
  PROVE  RowTypes'
<1>1. CASE UNCHANGED <<acc, status, worker, lease>>
  BY <1>1 DEF RowTypes, TypeOK
<1>2. ASSUME NEW v \in Verdicts, EndRow(v), v.terminal \in Terminal PROVE RowTypes'
  BY <1>2 DEF EndRow, RowTypes, TypeOK, Statuses
<1> QED
  BY <1>1, <1>2, FinalizeEnds

LEMMA SettleTypes ==
  ASSUME TypeOK, NEW a \in Attempts, Settle(a)
  PROVE  RowTypes'
<1>1. acc[a] \in Verdicts \cup {NoVerdict} /\ Settled(acc[a]) \in Verdicts /\ Settled(acc[a]).terminal = "failed"
  BY SettledTypes DEF TypeOK
<1>2. CASE UNCHANGED <<acc, status, worker, lease>>
  BY <1>2 DEF RowTypes, TypeOK
<1>3. CASE EndRow(Settled(acc[a]))
  BY <1>1, <1>3 DEF EndRow, RowTypes, TypeOK, Statuses, Terminal
<1> QED
  BY <1>2, <1>3 DEF Settle

LEMMA BecomeTypes ==
  ASSUME TypeOK, NEW w \in Workers,
         NEW p \in {"new", "run", "completing", "refused", "failing", "interrupting", "done"}, Become(w, p)
  PROVE  phase' \in [Workers -> {"new", "run", "completing", "refused", "failing", "interrupting", "done"}]
BY DEF TypeOK, Become

LEMMA OccupyTypes ==
  ASSUME TypeOK, NEW a \in Attempts, Occupy(a)
  PROVE  /\ claims + 1 \in Workers /\ claims' \in 0..MaxClaims
         /\ RowTypes'
         /\ phase' \in [Workers -> {"new", "run", "completing", "refused", "failing", "interrupting", "done"}]
         /\ att' \in [Workers -> Attempts]
<1>1. claims + 1 \in Workers /\ claims + 1 \in 0..MaxClaims
  BY ConstantsAssumption DEF TypeOK, Occupy, Workers
<1> QED
  BY <1>1 DEF Occupy, TypeOK, RowTypes, Statuses

LEMMA RotateTypes ==
  ASSUME TypeInv, Rotate
  PROVE  token' \in Tokens /\ issued' \in SUBSET Tokens /\ token' <= MaxToken + attempt
<1>1. /\ token \in 0..(MaxToken + MaxAttempt) /\ token < MaxToken /\ token' = token + 1
      /\ MaxToken \in Nat /\ MaxAttempt \in Nat /\ attempt \in 0..MaxAttempt
  BY ConstantsAssumption DEF TypeInv, TypeOK, Rotate, Tokens, Attempts
<1>2. token' \in Tokens /\ token' <= MaxToken + attempt
  BY <1>1 DEF Tokens
<1> QED
  BY <1>2 DEF TypeInv, TypeOK, Rotate

LEMMA InitTypes == Init => TypeInv
<1> SUFFICES ASSUME Init PROVE TypeInv
  OBVIOUS
<1>1. token <= MaxToken + attempt
  BY ConstantsAssumption DEF Init
<1> QED
  BY <1>1, NotSeenTypes, ClaimsAreWorkers, ConstantsAssumption DEF Init, TypeInv, TypeOK, Statuses, NotAsked

LEMMA TypeStep == TypeInv /\ [Next]_vars => TypeInv'
<1> SUFFICES ASSUME TypeInv, [Next]_vars PROVE TypeInv'
  OBVIOUS
<1> USE DEF rowVars, ledgerVars, workerVars
<1>0. TypeOK
  BY DEF TypeInv
<1>a. /\ MaxToken \in Nat /\ MaxAttempt \in Nat
      /\ token \in 0..(MaxToken + MaxAttempt) /\ attempt \in 0..MaxAttempt /\ token <= MaxToken + attempt
  BY ConstantsAssumption DEF TypeInv, TypeOK, Tokens, Attempts
<1>b. SUFFICES ASSUME Next PROVE TypeInv'
  BY DEF vars, TypeInv, TypeOK
<1>1. CASE Create
  <2>1. token' \in Tokens /\ issued' \in SUBSET Tokens /\ token' <= MaxToken + attempt'
    BY <1>1, <1>a DEF Create, TypeInv, TypeOK, Tokens
  <2> QED
    BY <1>1, <2>1 DEF Create, TypeInv, TypeOK, Statuses
<1>2. CASE Claim
  <2>1. Occupy(attempt) /\ attempt \in Attempts /\ UNCHANGED <<attempt, token, opened>>
    BY <1>2 DEF Claim, TypeInv, TypeOK
  <2> QED
    BY <2>1, <1>0, OccupyTypes DEF Occupy, TypeInv, TypeOK, RowTypes
<1>3. ASSUME NEW t \in Tokens, ClaimWithToken(t) PROVE TypeInv'
  <2>1. attempt + 1 \in Attempts /\ token + 1 \in Tokens /\ token + 1 <= MaxToken + (attempt + 1)
    BY <1>3, <1>a DEF ClaimWithToken, Attempts, Tokens
  <2>2. Occupy(attempt + 1) /\ attempt' = attempt + 1 /\ token' = token + 1
    BY <1>3 DEF ClaimWithToken
  <2>3. opened' \in [Attempts -> Tokens]
    BY <1>3 DEF ClaimWithToken, TypeInv, TypeOK
  <2> QED
    BY <2>1, <2>2, <2>3, <1>0, OccupyTypes DEF Occupy, TypeInv, TypeOK, RowTypes
<1>4. CASE RecoverResume
  BY <1>4, RotateTypes DEF RecoverResume, Rotate, TypeInv, TypeOK
<1>5. CASE RecoverRetry
  BY <1>5, RotateTypes DEF RecoverRetry, Rotate, TypeInv, TypeOK
<1>6. CASE OperatorResume
  BY <1>6, RotateTypes DEF OperatorResume, Rotate, TypeInv, TypeOK
<1>7. CASE LeaseExpires
  BY <1>7 DEF LeaseExpires, TypeInv, TypeOK
<1>8. ASSUME NEW w \in Workers, Acts(w) PROVE TypeInv'
  <2>1. CASE Checkpoint(w)
    BY <2>1 DEF Checkpoint, TypeInv, TypeOK
  <2>2. ASSUME NEW p \in {"completing", "refused", "failing", "interrupting", "done"}, Working(w, p) PROVE TypeInv'
    BY <2>2, <1>0, BecomeTypes DEF Working, TypeInv, TypeOK
  <2>3. CASE BeginComplete(w) \/ BeginFail(w) \/ Leave(w) \/ WorkerDies(w) \/ RejectComplete(w)
    BY <2>2, <2>3 DEF BeginComplete, BeginFail, Leave, WorkerDies, RejectComplete
  <2>4. CASE FinishComplete(w)
    <3>1. RowTypes'
      BY <2>4, <1>0, CallersAreCoherent, FinalizeTypes DEF FinishComplete
    <3>2. answer' \in [Workers -> {"none", "won", "duplicate"}]
      BY <2>4 DEF FinishComplete, Answer, TypeInv, TypeOK
    <3>3. phase' \in [Workers -> {"new", "run", "completing", "refused", "failing", "interrupting", "done"}]
      BY <2>4, <1>0, BecomeTypes DEF FinishComplete
    <3> QED
      BY <2>4, <3>1, <3>2, <3>3 DEF FinishComplete, TypeInv, TypeOK, RowTypes
  <2>5. ASSUME NEW f, Coherent(f), Finish(w, f) PROVE TypeInv'
    <3>1. RowTypes'
      BY <2>5, <1>0, FinalizeTypes DEF Finish
    <3>2. phase' \in [Workers -> {"new", "run", "completing", "refused", "failing", "interrupting", "done"}]
      BY <2>5, <1>0, BecomeTypes DEF Finish
    <3> QED
      BY <2>5, <3>1, <3>2 DEF Finish, TypeInv, TypeOK, RowTypes
  <2>6. CASE FinishFail(w)
    BY <2>5, <2>6, <1>0, CallersAreCoherent DEF FinishFail
  <2>7. CASE FinishInterrupt(w)
    BY <2>5, <2>7, <1>0, CallersAreCoherent DEF FinishInterrupt, TypeOK
  <2>8. CASE ObservationEnds(w)
    <3>1. phase' \in [Workers -> {"new", "run", "completing", "refused", "failing", "interrupting", "done"}]
      BY <2>8, <1>0, BecomeTypes DEF ObservationEnds
    <3> QED
      BY <2>8, <3>1 DEF ObservationEnds, TypeInv, TypeOK, Statuses, Terminal
  <2> QED
    BY <1>8, <2>1, <2>3, <2>4, <2>6, <2>7, <2>8 DEF Acts
<1>9. ASSUME NEW u \in Users, Asks(u) PROVE TypeInv'
  <2>1. CASE AskCancel(u) \/ AskAbandon(u)
    BY <2>1 DEF AskCancel, AskAbandon, Asking, TypeInv, TypeOK
  <2>2. CASE EndAsked(u)
    <3>1. RowTypes'
      BY <2>2, <1>0, CallersAreCoherent, FinalizeTypes DEF EndAsked, TypeOK
    <3>2. ask' = [ask EXCEPT ![u] = NotAsked]
      BY <2>2 DEF EndAsked
    <3> QED
      BY <2>2, <3>1, <3>2, ClaimsAreWorkers DEF EndAsked, NotAsked, TypeInv, TypeOK, RowTypes
  <2>3. CASE MarkCancelling(u)
    BY <2>3, ClaimsAreWorkers DEF MarkCancelling, NotAsked, TypeInv, TypeOK, Statuses
  <2> QED
    BY <1>9, <2>1, <2>2, <2>3 DEF Asks
<1>10. ASSUME NEW s \in Sweepers, Reconciles(s) PROVE TypeInv'
  <2>1. CASE SweepRead(s)
    BY <2>1 DEF SweepRead, TypeInv, TypeOK
  <2>2. CASE SweepFinalize(s)
    <3>1. RowTypes'
      BY <2>2, <1>0, CallersAreCoherent, FinalizeTypes DEF SweepFinalize
    <3>2. sweep' = [sweep EXCEPT ![s] = NotSeen] /\ marker' \in {"none", "uncertain", "resume"}
      BY <2>2 DEF SweepFinalize, TypeInv, TypeOK
    <3> QED
      BY <2>2, <3>1, <3>2, NotSeenTypes DEF SweepFinalize, TypeInv, TypeOK, RowTypes
  <2> QED
    BY <1>10, <2>1, <2>2 DEF Reconciles
<1>11. CASE SettleRead
  BY <1>11 DEF SettleRead, TypeInv, TypeOK
<1>12. ASSUME NEW a \in Attempts, Settle(a) PROVE TypeInv'
  <2>1. RowTypes'
    BY <1>0, <1>12, SettleTypes
  <2> QED
    BY <1>12, <2>1 DEF Settle, TypeInv, TypeOK, RowTypes
<1>13. CASE ObservationUnclaimed
  BY <1>13 DEF ObservationUnclaimed, TypeInv, TypeOK, Statuses, Terminal
<1> QED
  BY <1>b, <1>1, <1>2, <1>3, <1>4, <1>5, <1>6, <1>7, <1>8, <1>9, <1>10, <1>11, <1>12, <1>13 DEF Next

\* Every variable stays in its range; tokens only because a claim that
\* replaces one also opens an attempt.
THEOREM TypeCorrect == Spec => []TypeOK
<1>1. Spec => []TypeInv
  BY InitTypes, TypeStep, PTL DEF Spec
<1>2. TypeInv => TypeOK
  BY DEF TypeInv
<1> QED
  BY <1>1, <1>2, PTL

-----------------------------------------------------------------------------
(* The row and the verdicts.  VerdictMatchesRow is inductive among typed      *)
(* states: a verdict and the row are only written together.                   *)

LEMMA TypesKnown == TypeInv => TypeOK
BY DEF TypeInv

(* A verdict that was not written yet has the terminal status of none.        *)
LEMMA InitMatches == Init => VerdictMatchesRow
<1> SUFFICES ASSUME Init PROVE VerdictMatchesRow
  OBVIOUS
<1>1. \A a \in Attempts : acc[a] = NoVerdict
  BY DEF Init
<1>2. attempt \in Attempts /\ attempt = 0 /\ \A a \in Attempts : ~(a < attempt)
  BY ClaimsAreWorkers, ConstantsAssumption DEF Init, Attempts
<1> QED
  BY <1>1, <1>2 DEF Init, VerdictMatchesRow, Judged, NoVerdict, Terminal

(* A row that ends with a verdict matches it.                                 *)
LEMMA EndMatches ==
  ASSUME TypeOK, VerdictMatchesRow, UNCHANGED attempt,
         NEW v \in Verdicts, EndRow(v), v.terminal \in Terminal,
         v.outcome = "SUCCEEDED" <=> v.terminal = "completed",
         v.outcome = "INTERRUPTED" <=> v.terminal = "cancelled",
         v.outcome = "FAILED" <=> v.terminal \in {"failed", "paused"}
  PROVE  VerdictMatchesRow'
<1>1. attempt \in Attempts /\ acc' = [acc EXCEPT ![attempt] = v] /\ status' = v.terminal
  BY DEF EndRow, TypeOK
<1>2. acc \in [Attempts -> Verdicts \cup {NoVerdict}]
  BY DEF TypeOK
<1>3. acc'[attempt] = v /\ \A a \in Attempts : a # attempt => acc'[a] = acc[a]
  BY <1>1, <1>2
<1>4. ~(attempt < attempt) /\ ~(attempt > attempt)
  BY <1>1 DEF Attempts
<1>5. ASSUME NEW a \in Attempts
      PROVE  /\ acc'[a].outcome = "SUCCEEDED" <=> acc'[a].terminal = "completed"
             /\ acc'[a].outcome = "INTERRUPTED" <=> acc'[a].terminal = "cancelled"
             /\ acc'[a].outcome = "FAILED" <=> acc'[a].terminal \in {"failed", "paused"}
             /\ a < attempt' => acc'[a].outcome = "FAILED"
             /\ a > attempt' => acc'[a] = NoVerdict
  <2>1. CASE a = attempt
    BY <1>3, <1>4, <2>1
  <2>2. CASE a # attempt
    BY <1>3, <2>2 DEF VerdictMatchesRow
  <2> QED
    BY <2>1, <2>2
<1>6. v.terminal \notin {"absent", "queued", "running", "cancelling"}
  BY DEF Terminal
<1>7. status' \in Terminal => acc'[attempt'].terminal = status'
  BY <1>1, <1>3
<1> QED
  BY <1>1, <1>5, <1>6, <1>7 DEF VerdictMatchesRow

LEMMA FinalizeMatches ==
  ASSUME TypeOK, VerdictMatchesRow, NEW f, Coherent(f), Finalize(f), UNCHANGED <<kind, attempt>>
  PROVE  VerdictMatchesRow'
<1>1. CASE UNCHANGED <<acc, status, worker, lease>>
  BY <1>1 DEF VerdictMatchesRow, Judged
<1> QED
  BY <1>1, FinalizeEnds, EndMatches

LEMMA SettleMatches ==
  ASSUME TypeOK, VerdictMatchesRow, NEW a \in Attempts, Settle(a)
  PROVE  VerdictMatchesRow'
<1>1. UNCHANGED <<kind, attempt>>
  BY DEF Settle
<1>2. CASE UNCHANGED <<acc, status, worker, lease>>
  BY <1>1, <1>2 DEF VerdictMatchesRow, Judged
<1>3. CASE EndRow(Settled(acc[attempt]))
  <2>1. acc[attempt] \in Verdicts \cup {NoVerdict}
    BY DEF TypeOK
  <2>2. /\ Settled(acc[attempt]) \in Verdicts
        /\ Settled(acc[attempt]).outcome = "FAILED" /\ Settled(acc[attempt]).terminal = "failed"
    BY <2>1, SettledTypes
  <2> QED
    BY <1>1, <1>3, <2>2, EndMatches DEF Terminal
<1> QED
  BY <1>2, <1>3, SettleRevises

(* Only a failure is followed by another claim: an observation that ended     *)
(* without a verdict is not claimed again.                                    *)
LEMMA ResumedFailed ==
  ASSUME VerdictMatchesRow, TypeOK, status \in {"paused", "failed"},
         Judged \/ status = "paused" \/ kind # "observation"
  PROVE  acc[attempt].outcome = "FAILED"
<1>1. attempt \in Attempts /\ status \in Terminal
  BY DEF TypeOK, Terminal
<1>2. acc[attempt].terminal = status
  BY <1>1 DEF VerdictMatchesRow
<1> QED
  BY <1>1, <1>2 DEF VerdictMatchesRow

LEMMA TokenResumesFailed ==
  ASSUME VerdictMatchesRow, TypeOK, NEW t \in Tokens, ClaimWithToken(t)
  PROVE  acc[attempt].outcome = "FAILED"
<1>1. status \in {"paused", "failed"} /\ (ResumeEligible \/ RetryEligible \/ OperatorEligible)
  BY DEF ClaimWithToken
<1>2. CASE status = "paused" \/ Judged
  BY <1>1, <1>2, ResumedFailed
<1>3. CASE status = "failed" /\ ~Judged
  <2>1. acc[attempt] = NoVerdict
    BY <1>3 DEF Judged, TypeOK, Verdicts
  <2>2. ~acc[attempt].resumable /\ acc[attempt].recovery # "REQUIRED"
    BY <2>1 DEF NoVerdict
  <2> QED
    BY <1>1, <1>3, <2>2 DEF ResumeEligible, RetryEligible, OperatorEligible
<1> QED
  BY <1>1, <1>2, <1>3

LEMMA MatchStep == TypeInv /\ VerdictMatchesRow /\ [Next]_vars => VerdictMatchesRow'
<1> SUFFICES ASSUME TypeInv, VerdictMatchesRow, [Next]_vars PROVE VerdictMatchesRow'
  OBVIOUS
<1> USE DEF rowVars, ledgerVars, workerVars
<1>0. TypeOK /\ attempt \in Attempts
  BY DEF TypeInv, TypeOK
<1>a. UNCHANGED <<kind, status, attempt, acc>> => VerdictMatchesRow'
  BY DEF VerdictMatchesRow, Judged
<1>b. ASSUME NEW f, Coherent(f), Finalize(f), UNCHANGED <<kind, attempt>> PROVE VerdictMatchesRow'
  BY <1>b, <1>0, FinalizeMatches
<1>1. CASE Create
  BY <1>1 DEF Create, VerdictMatchesRow, Judged, Terminal
<1>2. CASE Claim
  <2>1. ~Judged \/ (kind # "observation" /\ acc[attempt].outcome = "FAILED")
    BY <1>0, <1>2, ResumedFailed DEF Claim, VerdictMatchesRow
  <2>2. UNCHANGED <<kind, acc, attempt>> /\ status' = "running"
    BY <1>2 DEF Claim, Occupy
  <2> QED
    BY <2>1, <2>2 DEF VerdictMatchesRow, Judged, Terminal
<1>3. ASSUME NEW t \in Tokens, ClaimWithToken(t) PROVE VerdictMatchesRow'
  <2>1. acc[attempt].outcome = "FAILED"
    BY <1>0, <1>3, TokenResumesFailed
  <2>2. UNCHANGED acc /\ attempt' = attempt + 1 /\ status' = "running" /\ attempt < MaxAttempt
    BY <1>3 DEF ClaimWithToken, Occupy
  <2>3. /\ attempt' \in Attempts /\ attempt' > attempt
        /\ \A a \in Attempts : (a < attempt' => a < attempt \/ a = attempt) /\ (a > attempt' => a > attempt)
    BY <1>0, <2>2, ConstantsAssumption DEF Attempts
  <2>4. acc[attempt'] = NoVerdict
    BY <2>3 DEF VerdictMatchesRow
  <2>5. acc'[attempt'].outcome = "NONE"
    BY <2>2, <2>4 DEF NoVerdict
  <2>6. \A a \in Attempts : (a < attempt' => acc[a].outcome = "FAILED") /\ (a > attempt' => acc[a] = NoVerdict)
    BY <2>1, <2>3 DEF VerdictMatchesRow
  <2> QED
    BY <2>2, <2>5, <2>6 DEF VerdictMatchesRow, Judged, Terminal
<1>4. CASE RecoverResume \/ RecoverRetry \/ OperatorResume \/ LeaseExpires
  BY <1>4, <1>a DEF RecoverResume, RecoverRetry, OperatorResume, Rotate, LeaseExpires
<1>5. ASSUME NEW w \in Workers, Acts(w) PROVE VerdictMatchesRow'
  <2>1. CASE Checkpoint(w) \/ BeginComplete(w) \/ BeginFail(w) \/ Leave(w) \/ WorkerDies(w) \/ RejectComplete(w)
    BY <2>1, <1>a DEF Checkpoint, BeginComplete, BeginFail, Leave, WorkerDies, RejectComplete, Working
  <2>2. CASE FinishComplete(w)
    BY <2>2, <1>0, <1>b, CallersAreCoherent DEF FinishComplete
  <2>3. CASE FinishFail(w)
    BY <2>3, <1>0, <1>b, CallersAreCoherent DEF FinishFail, Finish
  <2>4. CASE FinishInterrupt(w)
    BY <2>4, <1>0, <1>b, CallersAreCoherent DEF FinishInterrupt, Finish, TypeOK
  <2>5. CASE ObservationEnds(w)
    <3>1. /\ kind' = "observation" /\ UNCHANGED <<attempt, acc>>
          /\ status' \in {"completed", "failed", "cancelled"} /\ status \in {"running", "cancelling"}
      BY <2>5 DEF ObservationEnds, Observing
    <3>2. ~Judged /\ kind' = kind
      BY <2>5, <3>1 DEF ObservationEnds, VerdictMatchesRow
    <3> QED
      BY <3>1, <3>2 DEF VerdictMatchesRow, Judged
  <2> QED
    BY <1>5, <2>1, <2>2, <2>3, <2>4, <2>5 DEF Acts
<1>6. ASSUME NEW u \in Users, Asks(u) PROVE VerdictMatchesRow'
  <2>1. CASE AskCancel(u) \/ AskAbandon(u)
    BY <2>1, <1>a DEF AskCancel, AskAbandon, Asking
  <2>2. CASE EndAsked(u)
    BY <2>2, <1>0, <1>b, CallersAreCoherent DEF EndAsked, TypeOK
  <2>3. CASE MarkCancelling(u)
    BY <2>3 DEF MarkCancelling, VerdictMatchesRow, Judged, Terminal
  <2> QED
    BY <1>6, <2>1, <2>2, <2>3 DEF Asks
<1>7. ASSUME NEW s \in Sweepers, Reconciles(s) PROVE VerdictMatchesRow'
  <2>1. CASE SweepRead(s)
    BY <2>1, <1>a DEF SweepRead
  <2>2. CASE SweepFinalize(s)
    BY <2>2, <1>0, <1>b, CallersAreCoherent DEF SweepFinalize
  <2> QED
    BY <1>7, <2>1, <2>2 DEF Reconciles
<1>8. CASE SettleRead \/ UNCHANGED vars
  BY <1>8, <1>a DEF SettleRead, vars
<1>9. ASSUME NEW a \in Attempts, Settle(a) PROVE VerdictMatchesRow'
  BY <1>0, <1>9, SettleMatches
<1>10. CASE ObservationUnclaimed
  BY <1>0, <1>10 DEF ObservationUnclaimed, VerdictMatchesRow, Judged, Terminal
<1> QED
  BY <1>1, <1>2, <1>3, <1>4, <1>5, <1>6, <1>7, <1>8, <1>9, <1>10 DEF Next

\* An execution that has ended carries the verdict that ended it, an active
\* one at most a failure to be revised, and every earlier attempt failed.
THEOREM RowMatchesVerdict == Spec => []VerdictMatchesRow
<1>1. Spec => [](TypeInv /\ VerdictMatchesRow)
  BY InitTypes, InitMatches, TypeStep, MatchStep, PTL DEF Spec
<1> QED
  BY <1>1, PTL

-----------------------------------------------------------------------------
(* The acceptance rows implement ExecutionLedger.  What makes each            *)
(* finalization a Record or a Revise is that the row of a judged attempt that *)
(* may still be finalized carries a failure.                                  *)

LedgerStep == L!Next \/ UNCHANGED <<attempt, [a \in Attempts |-> acc[a].outcome]>>

(* Replacing one verdict replaces one outcome.                                *)
LEMMA OutcomeReplaced ==
  ASSUME TypeOK, NEW v \in Verdicts, EndRow(v)
  PROVE  [a \in Attempts |-> acc[a].outcome]'
           = [[a \in Attempts |-> acc[a].outcome] EXCEPT ![attempt] = v.outcome]
BY DEF TypeOK, EndRow

(* A verdict is only replaced when it is a failure.                           *)
LEMMA ReplacedFailed ==
  ASSUME TypeOK, VerdictMatchesRow, NEW f, Coherent(f), Interrupts(f) \/ Records(f)
  PROVE  acc[attempt].outcome \in {"NONE", "FAILED"}
<1>1. attempt \in Attempts
  BY DEF TypeOK
<1>2. CASE Interrupts(f)
  BY <1>1, <1>2, ResumedFailed DEF Interrupts, VerdictMatchesRow
<1>3. CASE Records(f)
  BY <1>1, <1>3 DEF Records, Reclaims, Judged, VerdictMatchesRow
<1> QED
  BY <1>2, <1>3

LEMMA FinalizeKeepsLedger ==
  ASSUME TypeOK, VerdictMatchesRow, NEW f, Coherent(f), Finalize(f), UNCHANGED attempt
  PROVE  LedgerStep
<1>1. CASE UNCHANGED <<acc, status, worker, lease>>
  BY <1>1 DEF LedgerStep
<1>2. CASE Interrupts(f) \/ Records(f)
  <2>1. PICK v \in Verdicts : EndRow(v) /\ v.outcome \in {"SUCCEEDED", "FAILED", "INTERRUPTED"}
    <3>1. PICK v : EndRow(v) /\ (v = VerdictOf(f) \/ v = InterruptionOf(f))
      BY <1>2 DEF Finalize
    <3>2. v \in Verdicts /\ v.outcome \in {"SUCCEEDED", "FAILED", "INTERRUPTED"}
      BY <3>1, VerdictsRecorded DEF Terminal
    <3> QED
      BY <3>1, <3>2
  <2>2. attempt \in Attempts /\ acc[attempt].outcome \in {"NONE", "FAILED"}
    BY <1>2, ReplacedFailed DEF TypeOK
  <2>3. [a \in Attempts |-> acc[a].outcome]'
          = [[a \in Attempts |-> acc[a].outcome] EXCEPT ![attempt] = v.outcome]
    BY <2>1, OutcomeReplaced
  <2>4. [a \in Attempts |-> acc[a].outcome][attempt] \in {"NONE", "FAILED"}
    BY <2>2
  <2>5. L!Record \/ L!Revise
    BY <2>1, <2>3, <2>4 DEF L!Record, L!Revise, L!Outcomes
  <2> QED
    BY <2>5 DEF LedgerStep, L!Next
<1> QED
  BY <1>1, <1>2 DEF Finalize

LEMMA SettleKeepsLedger ==
  ASSUME TypeOK, VerdictMatchesRow, NEW b \in Attempts, Settle(b)
  PROVE  LedgerStep
<1>1. UNCHANGED attempt /\ attempt \in Attempts
  BY DEF Settle, TypeOK
<1>2. CASE UNCHANGED <<acc, status, worker, lease>>
  BY <1>1, <1>2 DEF LedgerStep
<1>3. CASE EndRow(Settled(acc[attempt])) /\ acc[attempt].outcome = "FAILED"
  <2>1. Settled(acc[attempt]) \in Verdicts /\ Settled(acc[attempt]).outcome = "FAILED"
    BY SettledTypes DEF TypeOK
  <2>2. [a \in Attempts |-> acc[a].outcome]'
          = [[a \in Attempts |-> acc[a].outcome] EXCEPT ![attempt] = "FAILED"]
    BY <1>3, <2>1, OutcomeReplaced
  <2>3. [a \in Attempts |-> acc[a].outcome][attempt] = "FAILED"
    BY <1>1, <1>3
  <2>4. L!Revise
    BY <1>1, <2>2, <2>3 DEF L!Revise, L!Outcomes
  <2> QED
    BY <2>4 DEF LedgerStep, L!Next
<1> QED
  BY <1>2, <1>3, SettleRevises

LEMMA LedgerSteps == TypeInv /\ VerdictMatchesRow /\ [Next]_vars => LedgerStep
<1> SUFFICES ASSUME TypeInv, VerdictMatchesRow, [Next]_vars PROVE LedgerStep
  OBVIOUS
<1> USE DEF rowVars, ledgerVars, workerVars
<1>0. TypeOK
  BY DEF TypeInv
<1>a. UNCHANGED <<attempt, acc>> => LedgerStep
  BY DEF LedgerStep
<1>b. ASSUME NEW f, Coherent(f), Finalize(f), UNCHANGED attempt PROVE LedgerStep
  BY <1>b, <1>0, FinalizeKeepsLedger
<1>1. CASE \/ Create \/ Claim \/ RecoverResume \/ RecoverRetry \/ OperatorResume \/ LeaseExpires \/ SettleRead
         \/ ObservationUnclaimed \/ UNCHANGED vars
  BY <1>1, <1>a DEF Create, Claim, Occupy, RecoverResume, RecoverRetry, OperatorResume, Rotate, LeaseExpires,
                    SettleRead, ObservationUnclaimed, vars
<1>2. ASSUME NEW t \in Tokens, ClaimWithToken(t) PROVE LedgerStep
  <2>1. acc[attempt].outcome = "FAILED" /\ attempt \in Attempts
    BY <1>0, <1>2, TokenResumesFailed DEF TypeOK
  <2>2. UNCHANGED acc /\ attempt' = attempt + 1 /\ attempt < MaxAttempt
    BY <1>2 DEF ClaimWithToken, Occupy
  <2>3. L!NextAttempt
    BY <2>1, <2>2 DEF L!NextAttempt
  <2> QED
    BY <2>3 DEF LedgerStep, L!Next
<1>3. ASSUME NEW w \in Workers, Acts(w) PROVE LedgerStep
  <2>1. CASE Checkpoint(w) \/ BeginComplete(w) \/ BeginFail(w) \/ Leave(w) \/ WorkerDies(w) \/ RejectComplete(w)
    BY <2>1, <1>a DEF Checkpoint, BeginComplete, BeginFail, Leave, WorkerDies, RejectComplete, Working
  <2>2. CASE FinishComplete(w)
    BY <2>2, <1>0, <1>b, CallersAreCoherent DEF FinishComplete
  <2>3. CASE FinishFail(w) \/ FinishInterrupt(w)
    BY <2>3, <1>0, <1>b, CallersAreCoherent DEF FinishFail, FinishInterrupt, Finish, TypeOK
  <2>4. CASE ObservationEnds(w)
    BY <2>4, <1>a DEF ObservationEnds
  <2> QED
    BY <1>3, <2>1, <2>2, <2>3, <2>4 DEF Acts
<1>4. ASSUME NEW u \in Users, Asks(u) PROVE LedgerStep
  <2>1. CASE AskCancel(u) \/ AskAbandon(u) \/ MarkCancelling(u)
    BY <2>1, <1>a DEF AskCancel, AskAbandon, Asking, MarkCancelling
  <2>2. CASE EndAsked(u)
    BY <2>2, <1>0, <1>b, CallersAreCoherent DEF EndAsked, TypeOK
  <2> QED
    BY <1>4, <2>1, <2>2 DEF Asks
<1>5. ASSUME NEW s \in Sweepers, Reconciles(s) PROVE LedgerStep
  <2>1. CASE SweepRead(s)
    BY <2>1, <1>a DEF SweepRead
  <2>2. CASE SweepFinalize(s)
    BY <2>2, <1>0, <1>b, CallersAreCoherent DEF SweepFinalize
  <2> QED
    BY <1>5, <2>1, <2>2 DEF Reconciles
<1>6. ASSUME NEW a \in Attempts, Settle(a) PROVE LedgerStep
  BY <1>0, <1>6, SettleKeepsLedger
<1> QED
  BY <1>1, <1>2, <1>3, <1>4, <1>5, <1>6 DEF Next

\* Every attempt gets at most one verdict, only a failure of the current
\* attempt is revised, and only a failure is followed by a next attempt:
\* AiExecutions implements ExecutionLedger.
THEOREM LedgerKept == Spec => KeepsLedger
<1>1. Init => L!Init
  BY DEF Init, L!Init, NoVerdict, Attempts
<1>2. TypeInv /\ VerdictMatchesRow /\ [Next]_vars
        => [L!Next]_<<attempt, [a \in Attempts |-> acc[a].outcome]>>
  BY LedgerSteps DEF LedgerStep
<1>3. Spec => [](TypeInv /\ VerdictMatchesRow)
  BY InitTypes, InitMatches, TypeStep, MatchStep, PTL DEF Spec
<1> QED
  BY <1>1, <1>2, <1>3, PTL DEF Spec, KeepsLedger, L!Spec

-----------------------------------------------------------------------------
(* Tokens.  The token that opened an attempt is an earlier hash than the      *)
(* stored one: the claim that consumed it replaced it.                        *)

OpenedEarlier == \A a \in Attempts : opened[a] # 0 => opened[a] < token

TokenInv == OpenedEarlier /\ TokenOpensOneAttempt

LEMMA TokenStep == TypeInv /\ TokenInv /\ [Next]_vars => TokenInv'
<1> SUFFICES ASSUME TypeInv, TokenInv, [Next]_vars PROVE TokenInv'
  OBVIOUS
<1> USE DEF rowVars, ledgerVars, workerVars
<1>0. token \in Nat /\ opened \in [Attempts -> Nat] /\ attempt \in Attempts
  BY ConstantsAssumption DEF TypeInv, TypeOK, Tokens, Attempts
<1>a. UNCHANGED <<token, opened>> => TokenInv'
  BY DEF TokenInv, OpenedEarlier, TokenOpensOneAttempt
<1>b. token' = token + 1 /\ UNCHANGED opened => TokenInv'
  BY <1>0 DEF TokenInv, OpenedEarlier, TokenOpensOneAttempt
<1>1. CASE Create \/ RecoverResume \/ RecoverRetry \/ OperatorResume
  BY <1>1, <1>b DEF Create, RecoverResume, RecoverRetry, OperatorResume, Rotate
<1>2. ASSUME NEW t \in Tokens, ClaimWithToken(t) PROVE TokenInv'
  <2>1. token' = token + 1 /\ opened' = [opened EXCEPT ![attempt + 1] = token]
    BY <1>2 DEF ClaimWithToken
  <2>2. attempt + 1 \in Attempts
    BY <1>0, <1>2, ConstantsAssumption DEF ClaimWithToken, Attempts
  <2>3. opened'[attempt + 1] = token /\ \A a \in Attempts : a # attempt + 1 => opened'[a] = opened[a]
    BY <1>0, <2>1, <2>2
  <2>4. OpenedEarlier'
    BY <1>0, <2>1, <2>3 DEF TokenInv, OpenedEarlier
  <2>5. ASSUME NEW a \in Attempts, NEW b \in Attempts, opened'[a] # 0, opened'[a] = opened'[b] PROVE a = b
    BY <1>0, <2>3, <2>5 DEF TokenInv, OpenedEarlier, TokenOpensOneAttempt
  <2> QED
    BY <2>4, <2>5 DEF TokenInv, TokenOpensOneAttempt
<1>3. CASE Claim \/ LeaseExpires \/ SettleRead \/ ObservationUnclaimed \/ (\E a \in Attempts : Settle(a)) \/ UNCHANGED vars
  BY <1>3, <1>a DEF Claim, LeaseExpires, SettleRead, Settle, ObservationUnclaimed, vars
<1>4. ASSUME NEW w \in Workers, Acts(w) PROVE TokenInv'
  BY <1>4, <1>a DEF Acts, Checkpoint, BeginComplete, BeginFail, Leave, WorkerDies, RejectComplete, Working,
                    FinishComplete, FinishFail, FinishInterrupt, Finish, ObservationEnds
<1>5. ASSUME NEW u \in Users, Asks(u) PROVE TokenInv'
  BY <1>5, <1>a DEF Asks, AskCancel, AskAbandon, Asking, EndAsked, MarkCancelling
<1>6. ASSUME NEW s \in Sweepers, Reconciles(s) PROVE TokenInv'
  BY <1>6, <1>a DEF Reconciles, SweepRead, SweepFinalize
<1> QED
  BY <1>1, <1>2, <1>3, <1>4, <1>5, <1>6 DEF Next

\* However often a token is presented, it opens at most one attempt.
THEOREM OneAttemptPerToken == Spec => []TokenOpensOneAttempt
<1>1. Init => TokenInv
  BY DEF Init, TokenInv, OpenedEarlier, TokenOpensOneAttempt
<1>2. Spec => [](TypeInv /\ TokenInv)
  BY <1>1, InitTypes, TypeStep, TokenStep, PTL DEF Spec
<1>3. TokenInv => TokenOpensOneAttempt
  BY DEF TokenInv
<1> QED
  BY <1>2, <1>3, PTL

-----------------------------------------------------------------------------
(* Cancellation.                                                              *)

LEMMA FinalizeCancels ==
  ASSUME NEW f, Coherent(f), Finalize(f), status = "cancelling"
  PROVE  status' \in {"cancelling", "cancelled"}
<1>1. CASE Interrupts(f)
  BY <1>1 DEF Finalize, Records, Duplicate, Interrupts, Reclaims, EndRow, InterruptionOf, VerdictOf
<1>2. CASE Records(f)
  <2>1. f.outcome # "SUCCEEDED"
    BY <1>2 DEF Records, Fenced
  <2>2. VerdictOf(f).terminal = "cancelled" /\ InterruptionOf(f).terminal = "cancelled"
    BY <2>1 DEF VerdictOf, InterruptionOf
  <2> QED
    BY <1>2, <2>2 DEF Finalize, EndRow
<1> QED
  BY <1>1, <1>2 DEF Finalize

\* Whoever acts on an execution whose cancellation was asked for, and however
\* old what it has read: the row stays cancelling or becomes cancelled, the
\* settlement of an exhausted recovery excepted.
THEOREM CancellationHolds == Spec => CancellationWins
<1>1. ASSUME TypeInv, [Next]_vars, status = "cancelling", UNCHANGED settling PROVE status' \in {"cancelling", "cancelled"}
  <2> USE DEF rowVars, ledgerVars, workerVars
  <2>0. TypeOK
    BY <1>1 DEF TypeInv
  <2>a. UNCHANGED status => status' \in {"cancelling", "cancelled"}
    BY <1>1
  <2>b. ASSUME NEW f, Coherent(f), Finalize(f) PROVE status' \in {"cancelling", "cancelled"}
    BY <1>1, <2>b, FinalizeCancels
  <2>1. CASE RecoverResume \/ RecoverRetry \/ OperatorResume \/ LeaseExpires \/ UNCHANGED vars
    BY <2>1, <2>a DEF RecoverResume, RecoverRetry, OperatorResume, Rotate, LeaseExpires, vars
  <2>2. ~Create /\ ~Claim /\ ~ObservationUnclaimed /\ \A t \in Tokens : ~ClaimWithToken(t)
    BY <1>1 DEF Create, Claim, ClaimWithToken, ObservationUnclaimed
  <2>3. ASSUME NEW w \in Workers, Acts(w) PROVE status' \in {"cancelling", "cancelled"}
    <3>1. CASE Checkpoint(w) \/ BeginComplete(w) \/ BeginFail(w) \/ Leave(w) \/ WorkerDies(w) \/ RejectComplete(w)
      BY <3>1, <2>a DEF Checkpoint, BeginComplete, BeginFail, Leave, WorkerDies, RejectComplete, Working
    <3>2. CASE FinishComplete(w)
      BY <3>2, <2>0, <2>b, CallersAreCoherent DEF FinishComplete
    <3>3. CASE FinishFail(w) \/ FinishInterrupt(w)
      BY <3>3, <2>0, <2>b, CallersAreCoherent DEF FinishFail, FinishInterrupt, Finish, TypeOK
    <3>4. CASE ObservationEnds(w)
      BY <1>1, <3>4 DEF ObservationEnds
    <3> QED
      BY <2>3, <3>1, <3>2, <3>3, <3>4 DEF Acts
  <2>4. ASSUME NEW u \in Users, Asks(u) PROVE status' \in {"cancelling", "cancelled"}
    <3>1. CASE AskCancel(u) \/ AskAbandon(u) \/ MarkCancelling(u)
      BY <1>1, <3>1, <2>a DEF AskCancel, AskAbandon, Asking, MarkCancelling
    <3>2. CASE EndAsked(u)
      BY <3>2, <2>0, <2>b, CallersAreCoherent DEF EndAsked, TypeOK
    <3> QED
      BY <2>4, <3>1, <3>2 DEF Asks
  <2>5. ASSUME NEW s \in Sweepers, Reconciles(s) PROVE status' \in {"cancelling", "cancelled"}
    <3>1. CASE SweepRead(s)
      BY <3>1, <2>a DEF SweepRead
    <3>2. CASE SweepFinalize(s)
      BY <3>2, <2>0, <2>b, CallersAreCoherent DEF SweepFinalize
    <3> QED
      BY <2>5, <3>1, <3>2 DEF Reconciles
  <2>6. CASE SettleRead \/ \E a \in Attempts : Settle(a)
    <3>1. ~\E a \in Attempts : Settle(a)
      BY <1>1 DEF Settle
    <3> QED
      BY <2>6, <3>1, <2>a DEF SettleRead
  <2> QED
    BY <1>1, <2>1, <2>2, <2>3, <2>4, <2>5, <2>6 DEF Next
<1>2. TypeInv /\ [Next]_vars
        => [status = "cancelling" /\ UNCHANGED settling => status' \in {"cancelling", "cancelled"}]_vars
  BY <1>1
<1>3. Spec => []TypeInv
  BY InitTypes, TypeStep, PTL DEF Spec
<1> QED
  BY <1>2, <1>3, PTL DEF Spec, CancellationWins

-----------------------------------------------------------------------------
(* Winners and owners.  Worker numbers grow with the claims: a worker beyond  *)
(* the last claim was told nothing, and a reconciler that saw a running row   *)
(* saw it after the lease of that claim had run out, for good.                *)

ClaimsGrow ==
  /\ worker <= claims
  /\ status = "running" => worker # NoWorker
  /\ \A w \in Workers : w > claims => answer[w] = "none" /\ phase[w] = "new"
  /\ \A s \in Sweepers :
       sweep[s] # NotSeen =>
         /\ sweep[s].status \in {"running", "cancelling"}
         /\ sweep[s].worker <= claims
         /\ sweep[s].status = "running" /\ status = "running" /\ worker = sweep[s].worker => lease = "expired"

OwnerInv == TypeInv /\ VerdictMatchesRow /\ ClaimsGrow /\ WinnersStand

LEMMA ClaimsGrowWhenRowEnds ==
  ASSUME TypeOK, ClaimsGrow, NEW f, Coherent(f), Finalize(f), UNCHANGED claims
  PROVE  /\ worker' <= claims' /\ (status' = "running" => worker' # NoWorker)
         /\ status' = "running" => status = "running" /\ worker' = worker /\ lease' = lease
<1>1. worker \in Int /\ claims \in Nat
  BY ConstantsAssumption DEF TypeOK, Workers, NoWorker
<1>2. ASSUME NEW v \in Verdicts, EndRow(v), v.terminal \in Terminal
      PROVE  worker' = 0 /\ status' # "running"
  BY <1>2 DEF EndRow, NoWorker, Terminal
<1> QED
  BY <1>1, <1>2, FinalizeEnds DEF ClaimsGrow

(* A success on record is not touched by any finalization.                    *)
LEMMA SuccessStays ==
  ASSUME TypeOK, VerdictMatchesRow, NEW f, Coherent(f), Finalize(f),
         NEW a \in Attempts, acc[a].outcome = "SUCCEEDED"
  PROVE  acc'[a] = acc[a]
<1>1. CASE a = attempt
  <2>1. ~Interrupts(f) /\ ~Records(f)
    BY <1>1, ReplacedFailed
  <2> QED
    BY <2>1 DEF Finalize
<1>2. CASE a # attempt
  BY <1>2 DEF Finalize, EndRow, TypeOK
<1> QED
  BY <1>1, <1>2

LEMMA SettleKeepsSuccess ==
  ASSUME TypeOK, VerdictMatchesRow, NEW b \in Attempts, Settle(b),
         NEW a \in Attempts, acc[a].outcome = "SUCCEEDED"
  PROVE  acc'[a] = acc[a]
<1>1. CASE UNCHANGED <<acc, status, worker, lease>>
  BY <1>1
<1>2. CASE EndRow(Settled(acc[attempt])) /\ acc[attempt].outcome = "FAILED"
  BY <1>2 DEF EndRow, TypeOK
<1> QED
  BY <1>1, <1>2, SettleRevises

LEMMA WinnersStandStill ==
  ASSUME TypeOK, VerdictMatchesRow, WinnersStand, NEW f, Coherent(f), Finalize(f), UNCHANGED <<att, answer>>
  PROVE  WinnersStand'
BY SuccessStays DEF WinnersStand, TypeOK

(* A completion answered "won" is the one on record.                          *)
LEMMA WinnerRecorded ==
  ASSUME TypeOK, NEW w \in Workers, Finalize(Completion(w)), Answer(Completion(w)) = "won"
  PROVE  acc'[att[w]].outcome = "SUCCEEDED" /\ acc'[att[w]].by = w
<1>1. ~Interrupts(Completion(w)) /\ Records(Completion(w))
  BY DEF Answer, Interrupts, Duplicate, Completion
<1>2. att[w] = attempt /\ attempt \in Attempts
  BY <1>1 DEF Records, Stale, Completion, TypeOK
<1>3. acc' = [acc EXCEPT ![attempt] = VerdictOf(Completion(w))]
  BY <1>1 DEF Finalize, EndRow
<1>4. VerdictOf(Completion(w)).outcome = "SUCCEEDED" /\ VerdictOf(Completion(w)).by = w
  BY ClaimsAreWorkers DEF VerdictOf, Completion
<1> QED
  BY <1>2, <1>3, <1>4 DEF TypeOK

(* A claim makes a worker nobody has heard of yet.                            *)
LEMMA OccupyKeepsOwners ==
  ASSUME TypeOK, ClaimsGrow, WinnersStand, NEW a \in Attempts, Occupy(a)
  PROVE  ClaimsGrow' /\ WinnersStand'
<1>1. /\ claims \in Nat /\ claims + 1 \in Workers /\ claims' = claims + 1
      /\ worker' = claims + 1 /\ status' = "running"
      /\ UNCHANGED <<acc, answer, sweep>>
  BY ConstantsAssumption, OccupyTypes DEF Occupy, TypeOK, Workers
<1>2. \A w \in Workers : w \in Int /\ (w > claims + 1 => w > claims /\ w # claims + 1)
  BY <1>1, ConstantsAssumption DEF Workers
<1>3. /\ \A w \in Workers : w # claims + 1 => phase'[w] = phase[w] /\ att'[w] = att[w]
      /\ answer[claims + 1] = "none"
  <2>1. phase' = [phase EXCEPT ![claims + 1] = "run"] /\ att' = [att EXCEPT ![claims + 1] = a]
    BY DEF Occupy
  <2>2. answer[claims + 1] = "none"
    BY <1>1 DEF ClaimsGrow
  <2> QED
    BY <2>1, <2>2, <1>1 DEF TypeOK
<1>4. \A w \in Workers : w > claims' => answer'[w] = "none" /\ phase'[w] = "new"
  BY <1>1, <1>2, <1>3 DEF ClaimsGrow
<1>5. ASSUME NEW s \in Sweepers, sweep'[s] # NotSeen
      PROVE  /\ sweep'[s].status \in {"running", "cancelling"}
             /\ sweep'[s].worker <= claims' /\ worker' # sweep'[s].worker
  <2>1. sweep[s].worker \in Int /\ sweep[s].worker <= claims /\ sweep[s].status \in {"running", "cancelling"}
    BY <1>1, <1>5, ConstantsAssumption DEF ClaimsGrow, TypeOK, Workers, NoWorker
  <2> QED
    BY <1>1, <2>1
<1>6. ClaimsGrow'
  BY <1>1, <1>4, <1>5 DEF ClaimsGrow, NoWorker
<1>7. WinnersStand'
  BY <1>1, <1>3 DEF WinnersStand
<1> QED
  BY <1>6, <1>7

LEMMA OwnerStep == OwnerInv /\ [Next]_vars => OwnerInv'
<1> SUFFICES ASSUME OwnerInv, [Next]_vars PROVE ClaimsGrow' /\ WinnersStand'
  BY TypeStep, MatchStep DEF OwnerInv
<1> USE DEF rowVars, ledgerVars, workerVars
<1>0. TypeOK /\ TypeInv /\ VerdictMatchesRow /\ ClaimsGrow /\ WinnersStand /\ attempt \in Attempts /\ claims \in Nat
  BY ConstantsAssumption DEF OwnerInv, TypeInv, TypeOK
<1>a. UNCHANGED <<status, worker, lease, acc, claims, att, answer, phase, sweep>> => ClaimsGrow' /\ WinnersStand'
  BY <1>0 DEF ClaimsGrow, WinnersStand
<1>b. ASSUME NEW f, Coherent(f), Finalize(f), UNCHANGED <<claims, att, answer, phase, sweep>>
      PROVE  ClaimsGrow' /\ WinnersStand'
  <2>1. WinnersStand'
    BY <1>0, <1>b, WinnersStandStill
  <2>2. ClaimsGrow'
    BY <1>0, <1>b, ClaimsGrowWhenRowEnds DEF ClaimsGrow
  <2> QED
    BY <2>1, <2>2
<1>c. ASSUME NEW w \in Workers, phase[w] # "new",
             NEW p, Become(w, p), UNCHANGED claims
      PROVE  \A x \in Workers : x > claims' => phase'[x] = "new"
  BY <1>0, <1>c DEF ClaimsGrow, Become, TypeOK
<1>1. CASE Create
  BY <1>0, <1>1 DEF Create, ClaimsGrow, WinnersStand
<1>2. CASE Claim
  BY <1>0, <1>2, OccupyKeepsOwners DEF Claim
<1>3. ASSUME NEW t \in Tokens, ClaimWithToken(t) PROVE ClaimsGrow' /\ WinnersStand'
  <2>1. attempt + 1 \in Attempts /\ Occupy(attempt + 1)
    BY <1>0, <1>3, ConstantsAssumption DEF ClaimWithToken, Attempts
  <2> QED
    BY <1>0, <2>1, OccupyKeepsOwners
<1>4. CASE RecoverResume \/ RecoverRetry \/ OperatorResume \/ SettleRead \/ UNCHANGED vars
  BY <1>4, <1>a DEF RecoverResume, RecoverRetry, OperatorResume, Rotate, SettleRead, vars
<1>5. CASE LeaseExpires \/ ObservationUnclaimed
  BY <1>0, <1>5 DEF LeaseExpires, ObservationUnclaimed, ClaimsGrow, WinnersStand
<1>6. ASSUME NEW w \in Workers, Acts(w) PROVE ClaimsGrow' /\ WinnersStand'
  <2>1. CASE Checkpoint(w)
    BY <2>1, <1>a DEF Checkpoint
  <2>2. ASSUME NEW p, Working(w, p), phase[w] # "new" PROVE ClaimsGrow' /\ WinnersStand'
    BY <1>0, <1>c, <2>2 DEF Working, ClaimsGrow, WinnersStand
  <2>3. CASE BeginComplete(w) \/ BeginFail(w) \/ Leave(w) \/ WorkerDies(w) \/ RejectComplete(w)
    BY <2>2, <2>3 DEF BeginComplete, BeginFail, Leave, WorkerDies, RejectComplete
  <2>4. CASE FinishComplete(w)
    <3>1. /\ phase[w] = "completing" /\ Finalize(Completion(w)) /\ Coherent(Completion(w))
          /\ answer' = [answer EXCEPT ![w] = Answer(Completion(w))]
          /\ UNCHANGED <<claims, att, sweep>>
      BY <1>0, <2>4, CallersAreCoherent DEF FinishComplete
    <3>2. \A x \in Workers : x > claims' => phase'[x] = "new"
      BY <1>c, <2>4 DEF FinishComplete
    <3>3. \A x \in Workers : x > claims' => answer'[x] = "none"
      BY <1>0, <3>1 DEF ClaimsGrow, TypeOK
    <3>4. ClaimsGrow'
      BY <1>0, <3>1, <3>2, <3>3, ClaimsGrowWhenRowEnds DEF ClaimsGrow
    <3>5. ASSUME NEW x \in Workers, answer'[x] = "won"
          PROVE  acc'[att'[x]].outcome = "SUCCEEDED" /\ acc'[att'[x]].by = x
      <4>1. CASE x = w
        BY <1>0, <3>1, <3>5, <4>1, WinnerRecorded DEF TypeOK
      <4>2. CASE x # w
        <5>1. answer[x] = "won" /\ att[x] \in Attempts
          BY <1>0, <3>1, <3>5, <4>2 DEF TypeOK
        <5>2. acc'[att[x]] = acc[att[x]]
          BY <1>0, <3>1, <5>1, SuccessStays DEF WinnersStand
        <5> QED
          BY <1>0, <3>1, <5>1, <5>2 DEF WinnersStand
      <4> QED
        BY <4>1, <4>2
    <3> QED
      BY <3>4, <3>5 DEF WinnersStand
  <2>5. ASSUME NEW f, Coherent(f), Finish(w, f), phase[w] # "new" PROVE ClaimsGrow' /\ WinnersStand'
    <3>1. WinnersStand'
      BY <1>0, <2>5, WinnersStandStill DEF Finish
    <3>2. \A x \in Workers : x > claims' => phase'[x] = "new"
      BY <1>c, <2>5 DEF Finish
    <3>3. ClaimsGrow'
      BY <1>0, <2>5, <3>2, ClaimsGrowWhenRowEnds DEF Finish, ClaimsGrow
    <3> QED
      BY <3>1, <3>3
  <2>6. CASE FinishFail(w) \/ FinishInterrupt(w)
    BY <1>0, <2>5, <2>6, CallersAreCoherent DEF FinishFail, FinishInterrupt, TypeOK
  <2>7. CASE ObservationEnds(w)
    <3>1. \A x \in Workers : x > claims' => phase'[x] = "new"
      BY <1>c, <2>7 DEF ObservationEnds
    <3>2. worker' = 0 /\ 0 <= claims
      BY <1>0, <2>7 DEF ObservationEnds, NoWorker
    <3> QED
      BY <1>0, <2>7, <3>1, <3>2 DEF ObservationEnds, ClaimsGrow, WinnersStand
  <2> QED
    BY <1>6, <2>1, <2>3, <2>4, <2>6, <2>7 DEF Acts
<1>7. ASSUME NEW u \in Users, Asks(u) PROVE ClaimsGrow' /\ WinnersStand'
  <2>1. CASE AskCancel(u) \/ AskAbandon(u)
    BY <2>1, <1>a DEF AskCancel, AskAbandon, Asking
  <2>2. CASE EndAsked(u)
    BY <2>2, <1>0, <1>b, CallersAreCoherent DEF EndAsked, TypeOK
  <2>3. CASE MarkCancelling(u)
    BY <1>0, <2>3 DEF MarkCancelling, ClaimsGrow, WinnersStand
  <2> QED
    BY <1>7, <2>1, <2>2, <2>3 DEF Asks
<1>8. ASSUME NEW s \in Sweepers, Reconciles(s) PROVE ClaimsGrow' /\ WinnersStand'
  <2>1. CASE SweepRead(s)
    BY <1>0, <2>1 DEF SweepRead, Recoverable, ClaimsGrow, WinnersStand, TypeOK
  <2>2. CASE SweepFinalize(s)
    <3>1. /\ Coherent(Recovery(s)) /\ Finalize(Recovery(s))
          /\ sweep' = [sweep EXCEPT ![s] = NotSeen] /\ UNCHANGED <<claims, att, answer, phase>>
      BY <1>0, <2>2, CallersAreCoherent DEF SweepFinalize
    <3>2. WinnersStand'
      BY <1>0, <3>1, WinnersStandStill
    <3>3. \A x \in Sweepers : sweep'[x] # NotSeen => sweep'[x] = sweep[x]
      BY <1>0, <3>1 DEF TypeOK
    <3>4. ClaimsGrow'
      BY <1>0, <3>1, <3>3, ClaimsGrowWhenRowEnds DEF ClaimsGrow
    <3> QED
      BY <3>2, <3>4
  <2> QED
    BY <1>8, <2>1, <2>2 DEF Reconciles
<1>9. ASSUME NEW b \in Attempts, Settle(b) PROVE ClaimsGrow' /\ WinnersStand'
  <2>1. UNCHANGED <<claims, att, answer, phase, sweep>>
    BY <1>9 DEF Settle
  <2>2. WinnersStand'
    BY <1>0, <1>9, <2>1, SettleKeepsSuccess DEF WinnersStand, TypeOK
  <2>3. CASE UNCHANGED <<acc, status, worker, lease>>
    BY <2>1, <2>3, <1>a
  <2>4. CASE EndRow(Settled(acc[attempt]))
    <3>1. worker' = 0 /\ status' = "failed"
      BY <1>0, <2>4, SettledTypes DEF EndRow, NoWorker, TypeOK
    <3>2. 0 <= claims
      BY <1>0
    <3> QED
      BY <1>0, <2>1, <2>2, <3>1, <3>2 DEF ClaimsGrow
  <2> QED
    BY <1>0, <1>9, <2>3, <2>4, SettleRevises
<1> QED
  BY <1>1, <1>2, <1>3, <1>4, <1>5, <1>6, <1>7, <1>8, <1>9 DEF Next

LEMMA OwnersHold == Spec => []OwnerInv
<1>1. Init => ClaimsGrow /\ WinnersStand
  BY ConstantsAssumption DEF Init, ClaimsGrow, WinnersStand, NoWorker, Workers
<1> QED
  BY <1>1, InitTypes, InitMatches, OwnerStep, PTL DEF Spec, OwnerInv

\* A success that its worker was told of stays on record as that worker's.
THEOREM SuccessesStand == Spec => []WinnersStand
<1>1. OwnerInv => WinnersStand
  BY DEF OwnerInv
<1> QED
  BY <1>1, OwnersHold, PTL

-----------------------------------------------------------------------------
(* Live runs.                                                                 *)

LiveRunEnds == status = "running" /\ lease = "live" /\ status' \in Terminal /\ UNCHANGED settling

OwnerEndsIt == phase'[worker] # phase[worker]

(* A live run is ended by a finalization that its owner makes or that fits a  *)
(* reconciler's snapshot of a running row.                                    *)
LEMMA LiveRunEnder ==
  ASSUME NEW f, Coherent(f), Finalize(f), LiveRunEnds
  PROVE  worker = f.by \/ (f.by = NoWorker /\ f.seen # NotSeen /\ f.seen.status = "running" /\ f.seen.worker = worker)
<1>1. status = "running" /\ status' # "running"
  BY DEF LiveRunEnds, Terminal
<1>2. Records(f)
  BY <1>1 DEF Finalize, Interrupts
<1>3. ~Stale(f) /\ ~Fenced(f)
  BY <1>2 DEF Records
<1> QED
  BY <1>1, <1>3 DEF Stale, Fenced, OwnedLive

LEMMA LiveRunStep == OwnerInv /\ [Next]_vars /\ LiveRunEnds => OwnerEndsIt
<1> SUFFICES ASSUME OwnerInv, [Next]_vars, LiveRunEnds PROVE OwnerEndsIt
  OBVIOUS
<1> USE DEF rowVars, ledgerVars, workerVars
<1>0. /\ TypeOK /\ ClaimsGrow /\ worker # NoWorker
      /\ status = "running" /\ lease = "live" /\ status' \notin {"running", "cancelling"}
  BY DEF OwnerInv, TypeInv, ClaimsGrow, LiveRunEnds, Terminal
<1>1. ~Create /\ ~Claim /\ ~ObservationUnclaimed /\ \A t \in Tokens : ~ClaimWithToken(t)
  BY <1>0 DEF Create, Claim, ClaimWithToken, ObservationUnclaimed
<1>2. ~RecoverResume /\ ~RecoverRetry /\ ~OperatorResume /\ ~LeaseExpires /\ ~SettleRead /\ ~(UNCHANGED vars)
  BY <1>0 DEF RecoverResume, RecoverRetry, OperatorResume, Rotate, LeaseExpires, SettleRead, vars
<1>3. ASSUME NEW w \in Workers, Acts(w) PROVE OwnerEndsIt
  <2>1. ~(Checkpoint(w) \/ BeginComplete(w) \/ BeginFail(w) \/ Leave(w) \/ WorkerDies(w) \/ RejectComplete(w))
    BY <1>0 DEF Checkpoint, BeginComplete, BeginFail, Leave, WorkerDies, RejectComplete, Working
  <2>2. CASE FinishComplete(w)
    <3>1. Coherent(Completion(w)) /\ Finalize(Completion(w)) /\ Completion(w).by = w
      BY <1>0, <2>2, CallersAreCoherent DEF FinishComplete, Completion
    <3>2. worker = w
      BY <3>1, LiveRunEnder, ClaimsAreWorkers
    <3>3. phase[w] = "completing" /\ phase'[w] \in {"refused", "done"}
      BY <1>0, <2>2 DEF FinishComplete, Become, TypeOK
    <3> QED
      BY <3>2, <3>3 DEF OwnerEndsIt
  <2>3. ASSUME NEW f, Coherent(f), f.by = w, Finish(w, f), phase[w] \in {"failing", "interrupting"} PROVE OwnerEndsIt
    <3>1. worker = w
      BY <2>3, LiveRunEnder, ClaimsAreWorkers DEF Finish
    <3>2. phase'[w] = "done"
      BY <1>0, <2>3 DEF Finish, Become, TypeOK
    <3> QED
      BY <2>3, <3>1, <3>2 DEF OwnerEndsIt
  <2>4. CASE FinishFail(w)
    <3>1. PICK v \in Failures : Finish(w, Failure(w, v))
      BY <2>4 DEF FinishFail
    <3>2. Coherent(Failure(w, v)) /\ Failure(w, v).by = w
      BY <1>0, CallersAreCoherent DEF Failure
    <3> QED
      BY <2>3, <2>4, <3>1, <3>2 DEF FinishFail
  <2>5. CASE FinishInterrupt(w)
    <3>1. Coherent(Interruption(w, att[w], "EXECUTION_CANCELLED"))
      BY <1>0, CallersAreCoherent DEF TypeOK
    <3>2. Interruption(w, att[w], "EXECUTION_CANCELLED").by = w
      BY DEF Interruption
    <3> QED
      BY <2>3, <2>5, <3>1, <3>2 DEF FinishInterrupt
  <2>6. CASE ObservationEnds(w)
    <3>1. worker = w /\ phase[w] = "run" /\ phase'[w] = "done"
      BY <1>0, <2>6 DEF ObservationEnds, OwnedLive, Become, TypeOK
    <3> QED
      BY <3>1 DEF OwnerEndsIt
  <2> QED
    BY <1>3, <2>1, <2>2, <2>4, <2>5, <2>6 DEF Acts
<1>4. ASSUME NEW u \in Users, Asks(u) PROVE FALSE
  <2>1. ~(AskCancel(u) \/ AskAbandon(u) \/ MarkCancelling(u))
    BY <1>0 DEF AskCancel, AskAbandon, Asking, MarkCancelling
  <2>2. PICK f : Coherent(f) /\ Finalize(f) /\ f.by = NoWorker /\ f.seen = NotSeen
    <3>1. EndAsked(u)
      BY <1>4, <2>1 DEF Asks
    <3>2. LET f == Interruption(NoWorker, ask[u].attempt, ask[u].reason)
          IN  Coherent(f) /\ Finalize(f) /\ f.by = NoWorker /\ f.seen = NotSeen
      <4>1. ask[u].attempt \in Attempts /\ ask[u].reason \in {"EXECUTION_CANCELLED", "EXECUTION_ABANDONED"}
        BY <1>0 DEF TypeOK
      <4>2. Coherent(Interruption(NoWorker, ask[u].attempt, ask[u].reason))
        BY <1>0, <4>1, CallersAreCoherent
      <4> QED
        BY <3>1, <4>2 DEF EndAsked, Interruption
    <3> QED
      BY <3>2
  <2> QED
    BY <1>0, <2>2, LiveRunEnder
<1>5. ASSUME NEW s \in Sweepers, Reconciles(s) PROVE FALSE
  <2>1. SweepFinalize(s)
    BY <1>0, <1>5 DEF Reconciles, SweepRead
  <2>2. Coherent(Recovery(s)) /\ Finalize(Recovery(s))
    BY <1>0, <2>1, CallersAreCoherent DEF SweepFinalize
  <2>3. Recovery(s).by = NoWorker /\ Recovery(s).seen = sweep[s] /\ sweep[s] # NotSeen
    <3>1. CASE sweep[s].status = "cancelling"
      BY <2>1, <3>1 DEF SweepFinalize, Recovery, Interruption
    <3>2. CASE sweep[s].status # "cancelling"
      BY <2>1, <3>2 DEF SweepFinalize, Recovery
    <3> QED
      BY <3>1, <3>2
  <2>4. sweep[s].status = "running" /\ sweep[s].worker = worker
    BY <1>0, <2>2, <2>3, LiveRunEnder
  <2> QED
    BY <1>0, <2>3, <2>4 DEF ClaimsGrow
<1>6. \A a \in Attempts : ~Settle(a)
  BY DEF Settle, LiveRunEnds
<1> QED
  BY <1>1, <1>2, <1>3, <1>4, <1>5, <1>6 DEF Next

\* While a lease is live only its holder ends the run, the settlement of an
\* exhausted recovery excepted.
THEOREM LiveRunsAreOwned == Spec => LiveRunIsItsOwners
<1>1. OwnerInv /\ [Next]_vars
        => [status = "running" /\ lease = "live" /\ status' \in Terminal /\ UNCHANGED settling
              => phase'[worker] # phase[worker]]_vars
  BY LiveRunStep DEF LiveRunEnds, OwnerEndsIt
<1> QED
  BY <1>1, OwnersHold, PTL DEF Spec, LiveRunIsItsOwners

\* Rows, verdicts, tokens and answers fit together.
THEOREM VerdictsAreSound == Spec => []VerdictsSound
BY TypeCorrect, RowMatchesVerdict, OneAttemptPerToken, SuccessesStand, PTL DEF VerdictsSound

\* Both fences hold.
THEOREM EndsAreFenced == Spec => EndsFenced
BY CancellationHolds, LiveRunsAreOwned DEF EndsFenced
=============================================================================
