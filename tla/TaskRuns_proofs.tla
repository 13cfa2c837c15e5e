---------------------------- MODULE TaskRuns_proofs ----------------------------
(* Proofs about task runs, for any number of jobs, calls, sweeps, retries,    *)
(* claims, attempts, requests and faults.                                     *)
EXTENDS TaskRuns, TLAPS

TaskRecords == [status : Claimable \cup {"running", "completed", "failed", "cancelled"},
                gen : Gens, ptr : Gens \cup {NoPtr}, holder : Workers \cup {NoWorker},
                lease : {"none", "live", "expired"}]
IntentRecords == [gen : Gens \cup {NoGen}, due : BOOLEAN]
ExecRecords == [status : {"none", "running", "paused", "failed", "completed", "cancelled"},
                worker : Workers \cup {NoWorker}, lease : {"none", "live", "expired"},
                attempt : 0..MaxAttempt,
                verdict : {"none", "resume", "retry", "expired", "final"},
                gate : {"open", "shut"}]
Places == {"idle", "persist", "queued", "admit", "read", "planned", "retry", "claim",
           "work", "verify", "reread", "mark", "clear"}
RunRecords == [pc : Places, gen : Gens, ptr : Gens \cup {NoPtr, AnyPtr}, from : Claimable,
               allowed : SUBSET Claimable, resume : BOOLEAN, exec : Gens,
               attempt : 0..MaxAttempt, worker : Workers \cup {NoWorker}]

-----------------------------------------------------------------------------
(* Types.  A retry is planned only while there is one left, and an automatic  *)
(* run is a claim.                                                            *)

RunTypes ==
  /\ run \in [Runs -> RunRecords]
  /\ \A r \in Runs : run[r].pc = "retry" => run[r].gen < MaxRetries

CounterTypes ==
  /\ claims \in 0..MaxClaims /\ faults \in 0..MaxFaults
  /\ asked \in 0..MaxAsks /\ autoRuns \in 0..MaxClaims /\ autoRuns <= claims

TypeInv ==
  /\ task \in TaskRecords
  /\ intent \in IntentRecords
  /\ exec \in [Gens -> ExecRecords]
  /\ RunTypes
  /\ sweep \in [Sweepers -> Gens \cup {NoGen}]
  /\ CounterTypes

LEMMA TypesKnown == TypeInv => TypeOK
BY DEF TypeInv, TypeOK, TaskRecords, IntentRecords, ExecRecords, RunRecords, Places, RunTypes, CounterTypes

LEMMA OutcomeTypes ==
  ASSUME NEW o \in Outcomes
  PROVE  /\ o.exec \in {"completed", "failed", "cancelled"} /\ o.verdict \in {"resume", "retry", "final"}
         /\ o.task \in {"completed", "verifying", "back"} /\ o.gate \in {"open", "shut"}
         /\ o.exec = "completed" => o.task \in {"completed", "verifying"}
<1>1. \/ o \in Recorded({"completed"}, {"final"}, {"completed", "verifying"}, {"open"})
      \/ o \in Recorded({"failed"}, {"resume"}, {"verifying"}, {"open"})
      \/ o \in Recorded({"failed"}, {"resume"}, {"back"}, {"open", "shut"})
      \/ o \in Recorded({"failed"}, {"retry", "final"}, {"back"}, {"open"})
      \/ o \in Recorded({"cancelled"}, {"final"}, {"back"}, {"open"})
  BY DEF Outcomes
<1> QED
  BY <1>1 DEF Recorded

LEMMA ZeroTypes ==
  /\ 0 \in Gens /\ 0 \in 0..MaxAttempt /\ NoWorker \notin Workers /\ NoPtr \notin Gens /\ NoGen \notin Gens
  /\ Idle \in RunRecords /\ NoExec \in ExecRecords /\ NoIntent \in IntentRecords
BY ConstantsAssumption
   DEF Gens, NoWorker, NoPtr, NoGen, Workers, Idle, NoExec, NoIntent, RunRecords, Places, ExecRecords,
       IntentRecords, Claimable

LEMMA InitTypes == Init => TypeInv
<1> SUFFICES ASSUME Init PROVE TypeInv
  OBVIOUS
<1>1. task \in TaskRecords
  BY ZeroTypes DEF Init, TaskRecords, Claimable
<1>2. RunTypes
  BY ZeroTypes DEF Init, RunTypes, Idle
<1>3. CounterTypes
  BY ConstantsAssumption DEF Init, CounterTypes
<1> QED
  BY <1>1, <1>2, <1>3, ZeroTypes DEF Init, TypeInv

LEMMA GoesTypes ==
  ASSUME RunTypes, NEW r \in Runs, NEW pc \in Places, pc # "retry", Goes(r, pc) \/ Ends(r)
  PROVE  RunTypes'
<1>1. CASE Goes(r, pc)
  BY <1>1 DEF RunTypes, Goes, RunRecords
<1>2. CASE Ends(r)
  BY <1>2, ZeroTypes DEF RunTypes, Ends, Idle
<1> QED
  BY <1>1, <1>2

LEMMA BecomesTypes ==
  ASSUME RunTypes, NEW r \in Runs, NEW v \in RunRecords, v.pc = "retry" => v.gen < MaxRetries,
         run' = [run EXCEPT ![r] = v]
  PROVE  RunTypes'
BY DEF RunTypes

LEMMA InsertTypes ==
  ASSUME intent \in IntentRecords, NEW g \in Gens, Insert(g) \/ Remove(g)
  PROVE  intent' \in IntentRecords
<1>1. [gen |-> g, due |-> TRUE] \in IntentRecords
  BY DEF IntentRecords
<1> QED
  BY <1>1, ZeroTypes DEF Insert, Remove

LEMMA FaultTypes ==
  ASSUME CounterTypes, Fault, UNCHANGED <<claims, asked, autoRuns>>
  PROVE  CounterTypes'
BY ConstantsAssumption DEF CounterTypes, Fault

LEMMA AskTypes ==
  ASSUME CounterTypes, asked < MaxAsks, asked' = asked + 1, UNCHANGED <<claims, faults, autoRuns>>
  PROVE  CounterTypes'
BY ConstantsAssumption DEF CounterTypes

LEMMA CallingTypes ==
  ASSUME TypeInv, NEW c \in Calls, NEW pc \in Places, pc # "retry", NEW allowed \in SUBSET Claimable,
         NEW resume \in BOOLEAN, resume => task.ptr # NoPtr, Calling(c, pc, allowed, resume)
  PROVE  RunTypes'
<1> DEFINE v == [Idle EXCEPT !.pc = pc, !.gen = task.gen, !.ptr = task.ptr, !.allowed = allowed,
                             !.resume = resume, !.exec = IF resume THEN task.ptr ELSE 0,
                             !.attempt = IF resume THEN exec[task.ptr].attempt ELSE 0]
<1>1. c \in Runs /\ task.gen \in Gens /\ task.ptr \in Gens \cup {NoPtr}
  BY DEF TypeInv, TaskRecords, Runs
<1>2. resume => task.ptr \in Gens /\ exec[task.ptr].attempt \in 0..MaxAttempt
  BY <1>1 DEF TypeInv, ExecRecords
<1>3. v \in RunRecords /\ v.pc = pc
  BY <1>1, <1>2, ZeroTypes DEF Idle, RunRecords, Claimable
<1>4. run' = [run EXCEPT ![c] = v]
  BY DEF Calling
<1> HIDE DEF v
<1> QED
  BY <1>1, <1>3, <1>4, BecomesTypes DEF TypeInv

\* What a claim writes.
LEMMA TakeTypes ==
  ASSUME TypeInv, NEW r \in Runs, Granted(r), Take(r)
  PROVE  /\ claims + 1 \in Workers /\ Target(r) \in Gens
         /\ task' \in TaskRecords /\ exec' \in [Gens -> ExecRecords] /\ RunTypes'
         /\ CounterTypes' /\ sweep' = sweep
<1> DEFINE g == Target(r)
           a == IF run[r].resume THEN exec[g].attempt + 1 ELSE exec[g].attempt
<1>1. claims + 1 \in Workers /\ claims + 1 \in 0..MaxClaims
  BY ConstantsAssumption DEF TypeInv, CounterTypes, Take, Workers
<1>2. run[r] \in RunRecords
  BY DEF TypeInv, RunTypes
<1>3. g \in Gens
  BY <1>2 DEF Target, RunRecords
<1>4. exec[g] \in ExecRecords
  BY <1>3 DEF TypeInv
<1>5. a \in 0..MaxAttempt
  BY <1>4, ConstantsAssumption DEF ExecRecords, Take
<1>6. /\ task' = [task EXCEPT !.status = "running", !.ptr = g, !.holder = claims + 1, !.lease = "live"]
      /\ run' = [run EXCEPT ![r].pc = "work", ![r].exec = g, ![r].attempt = a, ![r].worker = claims + 1]
      /\ claims' = claims + 1 /\ autoRuns' \in {autoRuns, autoRuns + 1}
      /\ claims < MaxClaims /\ UNCHANGED <<sweep, faults, asked>>
  BY DEF Take
<1>6a. exec' = [exec EXCEPT ![g] =
         [exec[g] EXCEPT !.status = "running", !.worker = claims + 1, !.lease = "live", !.attempt = a,
                         !.verdict = IF run[r].resume THEN "none" ELSE exec[g].verdict, !.gate = "open"]]
  BY <1>3, <1>4 DEF Take, TypeInv, ExecRecords
<1> HIDE DEF g, a
<1>7. task' \in TaskRecords
  BY <1>1, <1>3, <1>6 DEF TypeInv, TaskRecords
<1>8. exec' \in [Gens -> ExecRecords]
  <2> DEFINE e == [exec[g] EXCEPT !.status = "running", !.worker = claims + 1, !.lease = "live", !.attempt = a,
                                  !.verdict = IF run[r].resume THEN "none" ELSE exec[g].verdict, !.gate = "open"]
  <2>1. e \in ExecRecords
    BY <1>1, <1>4, <1>5 DEF ExecRecords
  <2>2. exec' = [exec EXCEPT ![g] = e]
    BY <1>6a
  <2> HIDE DEF e
  <2> QED
    BY <1>3, <2>1, <2>2 DEF TypeInv
<1>9. RunTypes'
  <2>1. [run[r] EXCEPT !.pc = "work", !.exec = g, !.attempt = a, !.worker = claims + 1] \in RunRecords
    BY <1>1, <1>2, <1>3, <1>5 DEF RunRecords, Places
  <2>2. run' = [run EXCEPT ![r] = [run[r] EXCEPT !.pc = "work", !.exec = g, !.attempt = a, !.worker = claims + 1]]
    BY <1>6 DEF TypeInv, RunTypes
  <2> QED
    BY <1>2, <2>1, <2>2, BecomesTypes DEF TypeInv, RunRecords
<1>10. CounterTypes'
  BY <1>1, <1>6, ConstantsAssumption DEF TypeInv, CounterTypes
<1> QED
  BY <1>1, <1>3, <1>6, <1>7, <1>8, <1>9, <1>10 DEF g

LEMMA TypeStep == TypeInv /\ [Next]_vars => TypeInv'
<1> SUFFICES ASSUME TypeInv, Next PROVE TypeInv'
  BY DEF vars, TypeInv, RunTypes, CounterTypes
<1> USE DEF TypeInv
<1>a. task.gen \in Gens /\ \A r \in Runs : run[r] \in RunRecords
  BY DEF TaskRecords, RunTypes
<1>b. ASSUME NEW r \in Runs, NEW pc \in Places, pc # "retry", Goes(r, pc) \/ Ends(r) PROVE RunTypes'
  BY <1>b, GoesTypes
<1>c. ASSUME Fault, UNCHANGED <<claims, asked, autoRuns>> PROVE CounterTypes'
  BY <1>c, FaultTypes
<1>d. ASSUME UNCHANGED <<claims, faults, asked, autoRuns>> PROVE CounterTypes'
  BY <1>d DEF CounterTypes
<1>e. ASSUME UNCHANGED run PROVE RunTypes'
  BY <1>e DEF RunTypes
<1>1. CASE Patch
  <2>1. task' \in TaskRecords
    BY <1>1 DEF Patch, TaskRecords, Claimable
  <2> QED
    BY <1>1, <2>1, <1>a, <1>e, InsertTypes, AskTypes DEF Patch
<1>2. CASE Retry
  <2>1. task.gen + 1 \in Gens
    BY <1>2, <1>a, ConstantsAssumption DEF Retry, Gens
  <2>2. task' \in TaskRecords
    BY <1>2, <2>1 DEF Retry, TaskRecords, Claimable
  <2> QED
    BY <1>2, <2>2, <1>d, <1>e DEF Retry
<1>3. CASE Rollback \/ Verify \/ TaskLeaseExpires
  <2>1. task' \in TaskRecords
    BY <1>3 DEF Rollback, Verify, TaskLeaseExpires, TaskRecords
  <2> QED
    BY <1>3, <2>1, <1>d, <1>e DEF Rollback, Verify, TaskLeaseExpires
<1>4. CASE IntentDue
  <2>1. intent' \in IntentRecords
    BY <1>4 DEF IntentDue, IntentRecords
  <2> QED
    BY <1>4, <2>1, <1>d, <1>e DEF IntentDue
<1>5. ASSUME NEW a \in Autos, Dispatch(a) PROVE TypeInv'
  <2> DEFINE v == [Idle EXCEPT !.pc = "persist", !.gen = task.gen, !.ptr = AnyPtr, !.allowed = {"verifying"}]
  <2>1. v \in RunRecords /\ v.pc = "persist"
    BY <1>a, ZeroTypes DEF Idle, RunRecords, Places, Claimable
  <2>2. run' = [run EXCEPT ![a] = v] /\ a \in Runs
    BY <1>5 DEF Dispatch, Runs
  <2> HIDE DEF v
  <2>3. RunTypes'
    BY <2>1, <2>2, BecomesTypes
  <2> QED
    BY <1>5, <2>3, <1>d DEF Dispatch
<1>6. ASSUME NEW a \in Autos, Job(a) PROVE TypeInv'
  <2>1. a \in Runs /\ run[a].gen \in Gens
    BY <1>a DEF Runs, RunRecords
  <2>2. RunTypes'
    BY <1>6, <2>1, <1>b DEF Job, Persist, Look, Reread, Mark, Clear, Places
  <2>3. intent' \in IntentRecords
    BY <1>6, <2>1, <1>a, InsertTypes DEF Job, Persist, Look, Reread, Mark, Clear, IntentRecords
  <2> QED
    BY <1>6, <2>2, <2>3, <1>d DEF Job, Persist, Look, Reread, Mark, Clear
<1>7. ASSUME NEW a \in Autos, QueueFull(a) \/ Decline(a) PROVE TypeInv'
  <2>1. a \in Runs
    BY DEF Runs
  <2> QED
    BY <1>7, <2>1, <1>b, <1>c DEF QueueFull, Decline, Places
<1>8. ASSUME NEW c \in Calls, ExecuteRequest(c) \/ ResumeRequest(c) \/ PlanResume(c) PROVE TypeInv'
  <2>1. RunTypes'
    BY <1>8, CallingTypes DEF ExecuteRequest, ResumeRequest, PlanResume, Recoverable, Places
  <2> QED
    BY <1>8, <2>1, <1>d DEF ExecuteRequest, ResumeRequest, PlanResume
<1>9. ASSUME NEW c \in Calls, PlanRetry(c) PROVE TypeInv'
  <2> DEFINE v == [Idle EXCEPT !.pc = "retry", !.gen = task.gen, !.ptr = task.ptr, !.allowed = {task.status},
                               !.exec = task.ptr, !.attempt = exec[task.ptr].attempt]
  <2>1. task.ptr \in Gens /\ task.status \in Claimable /\ task.gen < MaxRetries
    BY <1>9 DEF PlanRetry, Recoverable, TaskRecords
  <2>2. exec[task.ptr].attempt \in 0..MaxAttempt
    BY <2>1 DEF ExecRecords
  <2>3. v \in RunRecords /\ v.gen < MaxRetries
    BY <2>1, <2>2, <1>a, ZeroTypes DEF Idle, RunRecords, Places
  <2>4. run' = [run EXCEPT ![c] = v] /\ c \in Runs
    BY <1>9 DEF PlanRetry, Runs
  <2> HIDE DEF v
  <2>5. RunTypes'
    BY <2>3, <2>4, BecomesTypes
  <2> QED
    BY <1>9, <2>5, <1>d DEF PlanRetry
<1>10. ASSUME NEW c \in Calls, Defer(c) PROVE TypeInv'
  <2>1. c \in Runs /\ run[c].exec \in Gens
    BY <1>a DEF Runs, RunRecords
  <2>2. [exec[run[c].exec] EXCEPT !.gate = "shut"] \in ExecRecords
    BY <2>1 DEF ExecRecords
  <2>3. exec' \in [Gens -> ExecRecords]
    BY <1>10, <2>1, <2>2 DEF Defer
  <2>4. RunTypes'
    BY <1>10, <2>1, <1>b DEF Defer, Places
  <2> QED
    BY <1>10, <2>3, <2>4, <1>c DEF Defer
<1>11. ASSUME NEW c \in Calls, VerifyClaim(c) PROVE TypeInv'
  <2> DEFINE v == [Idle EXCEPT !.pc = "verify", !.worker = claims + 1]
  <2>1. claims + 1 \in Workers /\ c \in Runs
    BY <1>11, ConstantsAssumption DEF VerifyClaim, CounterTypes, Workers, Runs
  <2>2. v \in RunRecords /\ v.pc = "verify"
    BY <2>1, ZeroTypes DEF Idle, RunRecords, Places
  <2>3. run' = [run EXCEPT ![c] = v]
    BY <1>11 DEF VerifyClaim
  <2> HIDE DEF v
  <2>4. RunTypes'
    BY <2>1, <2>2, <2>3, BecomesTypes
  <2>5. task' \in TaskRecords
    BY <1>11, <2>1 DEF VerifyClaim, TaskRecords
  <2>6. CounterTypes'
    BY <1>11, ConstantsAssumption DEF VerifyClaim, CounterTypes
  <2> QED
    BY <1>11, <2>4, <2>5, <2>6 DEF VerifyClaim
<1>12. ASSUME NEW c \in Calls, ClaimRetry(c) PROVE TypeInv'
  <2>1. c \in Runs
    BY DEF Runs
  <2>2. CASE StillPlanned(c)
    <3> DEFINE v == [Idle EXCEPT !.pc = "read", !.gen = task.gen + 1, !.ptr = AnyPtr, !.allowed = Claimable]
    <3>1. task.gen + 1 \in Gens
      BY <1>12, <2>1, <2>2, <1>a, ConstantsAssumption DEF ClaimRetry, StillPlanned, RunTypes, Gens
    <3>2. v \in RunRecords /\ v.pc = "read"
      BY <3>1, ZeroTypes DEF Idle, RunRecords, Places
    <3>3. run' = [run EXCEPT ![c] = v]
      BY <1>12, <2>2 DEF ClaimRetry
    <3> HIDE DEF v
    <3>4. RunTypes'
      BY <2>1, <3>2, <3>3, BecomesTypes
    <3>5. task' \in TaskRecords
      BY <1>12, <2>2, <3>1 DEF ClaimRetry, TaskRecords
    <3> QED
      BY <1>12, <3>4, <3>5, <1>d DEF ClaimRetry
  <2>3. CASE ~StillPlanned(c)
    BY <1>12, <2>1, <2>3, <1>b, <1>d DEF ClaimRetry, Places
  <2> QED
    BY <2>2, <2>3
<1>13. ASSUME NEW c \in Calls, NEW s \in {"completed", "failed", "verifying", "open"}, VerifyEnds(c, s) PROVE TypeInv'
  <2>1. RunTypes'
    BY <1>13, <1>b DEF VerifyEnds, Runs, Places
  <2>2. task' \in TaskRecords
    BY <1>13, ZeroTypes DEF VerifyEnds, TaskRecords, Claimable
  <2>3. intent' \in IntentRecords
    BY <1>13, <1>a, InsertTypes DEF VerifyEnds
  <2>4. CounterTypes'
    BY <1>13, <1>d, AskTypes DEF VerifyEnds
  <2> QED
    BY <1>13, <2>1, <2>2, <2>3, <2>4 DEF VerifyEnds
<1>14. ASSUME NEW r \in Runs, Read(r) PROVE TypeInv'
  <2>1. CASE run' = [run EXCEPT ![r].pc = "claim", ![r].ptr = task.ptr,
                                ![r].from = IF task.status = "running" THEN "verifying" ELSE task.status]
             /\ task.status \in Claimable \cup {"running"}
    <3> DEFINE from == IF task.status = "running" THEN "verifying" ELSE task.status
               v == [run[r] EXCEPT !.pc = "claim", !.ptr = task.ptr, !.from = from]
    <3>1. from \in Claimable /\ task.ptr \in Gens \cup {NoPtr}
      BY <2>1 DEF TaskRecords, Claimable
    <3>2. run' = [run EXCEPT ![r] = v]
      BY <2>1 DEF RunTypes
    <3> HIDE DEF from
    <3>3. v \in RunRecords /\ v.pc = "claim"
      BY <3>1, <1>a DEF RunRecords, Places
    <3> HIDE DEF v
    <3>4. RunTypes'
      BY <3>2, <3>3, BecomesTypes
    <3> QED
      BY <1>14, <3>4, <1>d DEF Read
  <2>2. CASE Conflict(r)
    BY <1>14, <2>2, <1>b, <1>d DEF Read, Conflict, Places
  <2> QED
    BY <1>14, <2>1, <2>2 DEF Read
<1>15. ASSUME NEW r \in Runs, Claim(r) PROVE TypeInv'
  <2>1. run[r].gen \in Gens
    BY <1>a DEF RunRecords
  <2> QED
    BY <1>15, <2>1, TakeTypes, InsertTypes DEF Claim
<1>16. ASSUME NEW r \in Runs, ClaimRefused(r) PROVE TypeInv'
  <2>1. run[r].gen \in Gens
    BY <1>a DEF RunRecords
  <2>2. RunTypes'
    BY <1>16, <1>b DEF ClaimRefused, Conflict, Places
  <2>3. intent' \in IntentRecords
    BY <1>16, <2>1, InsertTypes DEF ClaimRefused
  <2> QED
    BY <1>16, <2>2, <2>3, <1>d DEF ClaimRefused
<1>17. ASSUME NEW r \in Runs, HeartbeatRejected(r) PROVE TypeInv'
  BY <1>17, <1>b, <1>d DEF HeartbeatRejected, Conflict, Places
<1>18. ASSUME NEW r \in Runs, NEW o \in Outcomes, Finish(r, o) PROVE TypeInv'
  <2>1. RunTypes'
    BY <1>18, <1>b DEF Finish, Places
  <2>2. run[r].exec \in Gens /\ run[r].from \in Claimable
    BY <1>a DEF RunRecords
  <2>3. /\ o.exec \in {"completed", "failed", "cancelled"} /\ o.verdict \in {"resume", "retry", "final"}
        /\ o.task \in {"completed", "verifying", "back"} /\ o.gate \in {"open", "shut"}
    BY OutcomeTypes
  <2>4. [exec[run[r].exec] EXCEPT !.status = o.exec, !.verdict = o.verdict, !.gate = o.gate,
                                  !.worker = NoWorker, !.lease = "none"]
          \in ExecRecords
    BY <2>2, <2>3, ZeroTypes DEF ExecRecords
  <2>5. exec' \in [Gens -> ExecRecords]
    BY <1>18, <2>2, <2>4 DEF Finish
  <2>6. task' \in TaskRecords
    BY <1>18, <2>2, <2>3 DEF Finish, TaskRecords, Claimable
  <2> QED
    BY <1>18, <2>1, <2>5, <2>6, <1>d DEF Finish
<1>19. ASSUME NEW r \in Runs, RunFails(r) \/ Crash(r) PROVE TypeInv'
  <2>1. RunTypes'
    BY <1>19, <1>b DEF RunFails, Crash, Places
  <2> QED
    BY <1>19, <2>1, <1>c DEF RunFails, Crash
<1>20. ASSUME NEW g \in Gens, ExecLeaseExpires(g) \/ GateOpens(g) \/ SweepExec(g) PROVE TypeInv'
  <2>1. exec[g] \in ExecRecords
    OBVIOUS
  <2>2. /\ [exec[g] EXCEPT !.lease = "expired"] \in ExecRecords
        /\ [exec[g] EXCEPT !.gate = "open"] \in ExecRecords
        /\ [exec[g] EXCEPT !.status = "paused", !.verdict = "expired", !.worker = NoWorker, !.lease = "none"]
             \in ExecRecords
    BY <2>1 DEF ExecRecords
  <2>3. exec' \in [Gens -> ExecRecords]
    BY <1>20, <2>2 DEF ExecLeaseExpires, GateOpens, SweepExec
  <2> QED
    BY <1>20, <2>3, <1>d, <1>e DEF ExecLeaseExpires, GateOpens, SweepExec
<1>21. ASSUME NEW s \in Sweepers, SweepRead(s) PROVE TypeInv'
  BY <1>21, <1>a, <1>d, <1>e DEF SweepRead
<1>22. ASSUME NEW s \in Sweepers, SweepWrite(s) PROVE TypeInv'
  <2>1. sweep[s] \in Gens
    BY <1>22 DEF SweepWrite
  <2>2. sweep[s] < MaxRetries => sweep[s] + 1 \in Gens
    BY <2>1, ConstantsAssumption DEF Gens
  <2>3. task' \in TaskRecords
    BY <1>22, <2>1, <2>2, <1>a DEF SweepWrite, TaskRecords, Claimable
  <2> QED
    BY <1>22, <2>3, <1>d, <1>e DEF SweepWrite
<1> QED
  BY <1>1, <1>2, <1>3, <1>4, <1>5, <1>6, <1>7, <1>8, <1>9, <1>10, <1>11, <1>12, <1>13, <1>14, <1>15,
     <1>16, <1>17, <1>18, <1>19, <1>20, <1>21, <1>22 DEF Next, Steps, Lifecycle

\* Every variable stays in its range: a retry is counted only while one is
\* left, and every attempt, claim and request is within its bound.
THEOREM TypeCorrect == Spec => []TypeOK
<1>1. Spec => []TypeInv
  BY InitTypes, TypeStep, PTL DEF Spec
<1> QED
  BY <1>1, TypesKnown, PTL

-----------------------------------------------------------------------------
(* Holders.  A worker id belongs to one call; the task and the executions     *)
(* name workers that have claimed.                                            *)

Busy == {"work", "verify"}

WorkersInv ==
  /\ \A r \in Runs : run[r].pc \in Busy => run[r].worker \in 1..claims
  /\ \A r, q \in Runs : run[r].pc \in Busy /\ run[q].pc \in Busy /\ run[r].worker = run[q].worker => r = q
  /\ task.holder \in 0..claims
  /\ \A g \in Gens : exec[g].worker \in 0..claims

HoldInv == WorkersInv /\ ClaimedTaskHasNoIntent /\ HolderRunsPointed

\* What a step leaves alone that does not start a run: no call becomes busy,
\* no worker is named anew, and the task stays with its holder, at its
\* generation and its execution, or is not running any more.
NoNewRuns ==
  /\ claims' = claims
  /\ \A r \in Runs : run'[r].pc \in Busy => run'[r] = run[r]

NoNewWorkers ==
  /\ task'.holder \in {task.holder, NoWorker}
  /\ \A g \in Gens : exec'[g].worker \in {exec[g].worker, NoWorker}

TaskKept ==
  /\ task'.status = task.status /\ task'.gen = task.gen /\ task'.ptr = task.ptr /\ task'.holder = task.holder
  /\ \A g \in Gens :
       /\ exec'[g].attempt = exec[g].attempt
       /\ exec'[g].worker = exec[g].worker \/ exec'[g].status = "paused"
       /\ exec[g].status = "paused" => exec'[g].status = "paused"
  /\ intent'.gen \in {intent.gen, NoGen} \/ task.status # "running"

Calm == NoNewRuns /\ NoNewWorkers /\ (TaskKept \/ task'.status # "running")

LEMMA GoesQuietly ==
  ASSUME TypeInv, NEW r \in Runs, NEW pc \in Places \ Busy, Goes(r, pc) \/ Ends(r) \/ Conflict(r), UNCHANGED claims
  PROVE  NoNewRuns
<1>1. CASE Goes(r, pc) \/ Goes(r, "reread")
  BY <1>1 DEF TypeInv, RunTypes, RunRecords, NoNewRuns, Goes, Busy
<1>2. CASE Ends(r)
  BY <1>2 DEF TypeInv, RunTypes, RunRecords, NoNewRuns, Ends, Idle, Busy
<1> QED
  BY <1>1, <1>2 DEF Conflict

LEMMA CallsQuietly ==
  ASSUME TypeInv, NEW c \in Calls, NEW pc \in Places \ Busy, NEW allowed, NEW resume,
         Calling(c, pc, allowed, resume), UNCHANGED claims
  PROVE  NoNewRuns
BY DEF TypeInv, RunTypes, RunRecords, NoNewRuns, Calling, Idle, Busy, Runs

LEMMA NothingMoves ==
  ASSUME UNCHANGED <<task, exec, intent>>
  PROVE  NoNewWorkers /\ TaskKept
BY DEF NoNewWorkers, TaskKept

\* A step of Next is calm or starts a run.
LEMMA CalmSteps ==
  ASSUME TypeInv, Next
  PROVE  Calm \/ (\E r \in Runs : Claim(r)) \/ (\E c \in Calls : VerifyClaim(c))
<1>a. \A r \in Runs : run[r] \in RunRecords
  BY DEF TypeInv, RunTypes
<1>b. UNCHANGED <<run, claims>> => NoNewRuns
  BY DEF NoNewRuns
<1>c. UNCHANGED exec /\ task'.holder \in {task.holder, NoWorker} => NoNewWorkers
  BY DEF NoNewWorkers
<1>d. task \in TaskRecords
  BY DEF TypeInv
<1>1. CASE Patch \/ Retry \/ Rollback \/ Verify
  <2>1. task'.status # "running" /\ task'.holder = task.holder
    BY <1>1, <1>d DEF Patch, Retry, Rollback, Verify, TaskRecords, Claimable
  <2> QED
    BY <1>1, <2>1, <1>b, <1>c DEF Calm, Patch, Retry, Rollback, Verify
<1>2. CASE TaskLeaseExpires
  <2>1. TaskKept /\ task'.holder = task.holder
    BY <1>2, <1>d DEF TaskLeaseExpires, TaskRecords, TaskKept
  <2> QED
    BY <1>2, <2>1, <1>b, <1>c DEF Calm, TaskLeaseExpires
<1>3. CASE IntentDue
  <2>1. intent'.gen = intent.gen
    BY <1>3 DEF IntentDue, TypeInv, IntentRecords
  <2>2. TaskKept
    BY <1>3, <2>1 DEF IntentDue, TaskKept
  <2> QED
    BY <1>3, <2>2, <1>b, <1>c DEF Calm, IntentDue
<1>4. ASSUME NEW a \in Autos, Dispatch(a) PROVE Calm
  <2>1. NoNewRuns
    BY <1>4, <1>a DEF Dispatch, NoNewRuns, Idle, Busy, Runs, TypeInv, RunTypes
  <2> QED
    BY <1>4, <2>1, NothingMoves DEF Calm, Dispatch
<1>5. ASSUME NEW a \in Autos, Job(a) PROVE Calm
  <2>1. a \in Runs
    BY DEF Runs
  <2>2. NoNewRuns
    BY <1>5, <2>1, GoesQuietly DEF Job, Persist, Look, Reread, Mark, Clear, Places, Busy
  <2>3. UNCHANGED <<task, exec>>
    BY <1>5 DEF Job, Persist, Look, Reread, Mark, Clear
  <2>4. intent'.gen \in {intent.gen, NoGen} \/ task.status # "running"
    BY <1>5 DEF Job, Persist, Look, Reread, Mark, Clear, Insert, Remove, NoIntent, TypeInv, IntentRecords
  <2>5. TaskKept
    BY <2>3, <2>4 DEF TaskKept
  <2> QED
    BY <2>2, <2>3, <2>5, <1>c DEF Calm
<1>6. ASSUME NEW a \in Autos, QueueFull(a) \/ Decline(a) PROVE Calm
  <2>1. NoNewRuns
    BY <1>6, GoesQuietly DEF QueueFull, Decline, Places, Busy, Runs
  <2> QED
    BY <1>6, <2>1, NothingMoves DEF Calm, QueueFull, Decline
<1>7. ASSUME NEW c \in Calls, ExecuteRequest(c) \/ ResumeRequest(c) \/ PlanResume(c) PROVE Calm
  <2>1. NoNewRuns
    BY <1>7, CallsQuietly DEF ExecuteRequest, ResumeRequest, PlanResume, Places, Busy
  <2> QED
    BY <1>7, <2>1, NothingMoves DEF Calm, ExecuteRequest, ResumeRequest, PlanResume
<1>8. ASSUME NEW c \in Calls, PlanRetry(c) PROVE Calm
  <2>1. NoNewRuns
    BY <1>8, <1>a DEF PlanRetry, NoNewRuns, Idle, Busy, Runs, TypeInv, RunTypes
  <2> QED
    BY <1>8, <2>1, NothingMoves DEF Calm, PlanRetry
<1>9. ASSUME NEW c \in Calls, Defer(c) PROVE Calm
  <2>1. c \in Runs /\ run[c].exec \in Gens
    BY <1>a DEF Runs, RunRecords
  <2>2. NoNewRuns
    BY <1>9, <2>1, GoesQuietly DEF Defer, Places, Busy
  <2>3. \A g \in Gens : /\ exec'[g].attempt = exec[g].attempt /\ exec'[g].worker = exec[g].worker
                        /\ exec'[g].status = exec[g].status
    BY <1>9, <2>1 DEF Defer, TypeInv, ExecRecords
  <2> QED
    BY <1>9, <2>2, <2>3 DEF Calm, Defer, NoNewWorkers, TaskKept
<1>10. ASSUME NEW c \in Calls, ClaimRetry(c) PROVE Calm
  <2>1. c \in Runs /\ run[c].allowed \subseteq Claimable
    BY <1>a DEF Runs, RunRecords
  <2>2. CASE StillPlanned(c)
    <3>1. NoNewRuns
      BY <1>10, <2>1, <2>2 DEF ClaimRetry, NoNewRuns, Idle, Busy, TypeInv, RunTypes
    <3>2. task'.status # "running" /\ task'.holder = task.holder
      BY <1>10, <1>d, <2>1, <2>2 DEF ClaimRetry, StillPlanned, Claimable, TaskRecords
    <3> QED
      BY <1>10, <3>1, <3>2, <1>c DEF Calm, ClaimRetry
  <2>3. CASE ~StillPlanned(c)
    <3>1. NoNewRuns
      BY <1>10, <2>1, <2>3, GoesQuietly DEF ClaimRetry, Places, Busy
    <3> QED
      BY <1>10, <2>3, <3>1, NothingMoves DEF Calm, ClaimRetry
  <2> QED
    BY <2>2, <2>3
<1>11. ASSUME NEW c \in Calls, NEW s \in {"completed", "failed", "verifying", "open"}, VerifyEnds(c, s) PROVE Calm
  <2>1. NoNewRuns
    BY <1>11, GoesQuietly DEF VerifyEnds, Runs, Places, Busy
  <2>2. CASE UNCHANGED <<task, intent>>
    BY <1>11, <2>1, <2>2, NothingMoves DEF Calm, VerifyEnds
  <2>3. CASE task' = [task EXCEPT !.status = s, !.holder = NoWorker, !.lease = "none"]
    <3>1. task'.status # "running" /\ task'.holder = NoWorker
      BY <1>d, <2>3 DEF TaskRecords
    <3> QED
      BY <1>11, <2>1, <3>1, <1>c DEF Calm, VerifyEnds
  <2> QED
    BY <1>11, <2>2, <2>3 DEF VerifyEnds
<1>12. ASSUME NEW r \in Runs, Read(r) PROVE Calm
  <2>1. NoNewRuns
    <3>1. CASE Conflict(r)
      BY <1>12, <3>1, GoesQuietly DEF Read, Places, Busy
    <3>2. CASE run' = [run EXCEPT ![r].pc = "claim", ![r].ptr = task.ptr,
                                  ![r].from = IF task.status = "running" THEN "verifying" ELSE task.status]
      <4>1. run'[r].pc = "claim" /\ \A q \in Runs \ {r} : run'[q] = run[q]
        BY <3>2, <1>a DEF TypeInv, RunTypes, RunRecords
      <4> QED
        BY <1>12, <4>1 DEF Read, NoNewRuns, Busy
    <3> QED
      BY <1>12, <3>1, <3>2 DEF Read
  <2> QED
    BY <1>12, <2>1, NothingMoves DEF Calm, Read
<1>13. ASSUME NEW r \in Runs, ClaimRefused(r) PROVE Calm
  <2>1. NoNewRuns
    BY <1>13, GoesQuietly DEF ClaimRefused, Places, Busy
  <2>2. intent'.gen \in {intent.gen, NoGen}
    BY <1>13 DEF ClaimRefused, Remove, NoIntent
  <2>3. TaskKept
    BY <1>13, <2>2 DEF ClaimRefused, TaskKept
  <2> QED
    BY <1>13, <2>1, <2>3, <1>c DEF Calm, ClaimRefused
<1>14. ASSUME NEW r \in Runs, HeartbeatRejected(r) \/ RunFails(r) \/ Crash(r) PROVE Calm
  <2>1. NoNewRuns
    BY <1>14, GoesQuietly DEF HeartbeatRejected, RunFails, Crash, Places, Busy
  <2> QED
    BY <1>14, <2>1, NothingMoves DEF Calm, HeartbeatRejected, RunFails, Crash
<1>15. ASSUME NEW r \in Runs, NEW o \in Outcomes, Finish(r, o) PROVE Calm
  <2>1. NoNewRuns
    BY <1>15, GoesQuietly DEF Finish, Places, Busy
  <2>2. CASE UNCHANGED <<exec, task>>
    BY <1>15, <2>1, <2>2, NothingMoves DEF Calm, Finish
  <2>3. CASE Records(r)
    <3>1. run[r].exec \in Gens /\ run[r].from \in Claimable /\ o.task \in {"completed", "verifying", "back"}
      BY <1>a, OutcomeTypes DEF RunRecords
    <3>2. task'.status # "running" /\ task'.holder = NoWorker
      BY <1>15, <1>d, <2>3, <3>1 DEF Finish, TaskRecords, Claimable
    <3>3. exec' = [exec EXCEPT ![run[r].exec] =
                     [exec[run[r].exec] EXCEPT !.status = o.exec, !.verdict = o.verdict, !.gate = o.gate,
                                               !.worker = NoWorker, !.lease = "none"]]
      BY <1>15, <2>3 DEF Finish
    <3>4. \A g \in Gens : exec'[g].worker \in {exec[g].worker, NoWorker}
      BY <3>1, <3>3 DEF TypeInv, ExecRecords
    <3> QED
      BY <2>1, <3>2, <3>4 DEF Calm, NoNewWorkers
  <2> QED
    BY <1>15, <2>2, <2>3 DEF Finish
<1>16. ASSUME NEW g \in Gens, ExecLeaseExpires(g) \/ GateOpens(g) \/ SweepExec(g) PROVE Calm
  <2>1. \A h \in Gens : /\ exec'[h].attempt = exec[h].attempt
                        /\ exec'[h].worker = exec[h].worker
                           \/ (exec'[h].worker = NoWorker /\ exec'[h].status = "paused")
                        /\ exec[h].status = "paused" => exec'[h].status = "paused"
    <3>1. exec[g] \in ExecRecords
      BY DEF TypeInv
    <3>2. CASE ExecLeaseExpires(g)
      BY <3>1, <3>2 DEF ExecLeaseExpires, TypeInv, ExecRecords
    <3>3. CASE GateOpens(g)
      BY <3>1, <3>3 DEF GateOpens, TypeInv, ExecRecords
    <3>4. CASE SweepExec(g)
      BY <3>1, <3>4 DEF SweepExec, TypeInv, ExecRecords
    <3> QED
      BY <1>16, <3>2, <3>3, <3>4
  <2> QED
    BY <1>16, <2>1, <1>b DEF Calm, NoNewWorkers, TaskKept, ExecLeaseExpires, GateOpens, SweepExec
<1>17. ASSUME NEW s \in Sweepers, SweepRead(s) PROVE Calm
  BY <1>17, <1>b, NothingMoves DEF Calm, SweepRead
<1>18. ASSUME NEW s \in Sweepers, SweepWrite(s) PROVE Calm
  <2>1. CASE UNCHANGED task
    BY <1>18, <2>1, <1>b, NothingMoves DEF Calm, SweepWrite
  <2>2. CASE Abandoned
    <3>1. task'.status # "running" /\ task'.holder = NoWorker
      BY <1>18, <1>d, <2>2 DEF SweepWrite, TaskRecords
    <3> QED
      BY <1>18, <3>1, <1>b, <1>c DEF Calm, SweepWrite
  <2> QED
    BY <1>18, <2>1, <2>2 DEF SweepWrite
<1> QED
  BY <1>1, <1>2, <1>3, <1>4, <1>5, <1>6, <1>7, <1>8, <1>9, <1>10, <1>11, <1>12, <1>13, <1>14, <1>15,
     <1>16, <1>17, <1>18 DEF Next, Steps, Lifecycle

(* A calm step disturbs no holder.                                            *)
LEMMA CalmKeeps ==
  ASSUME TypeInv, HoldInv, Calm
  PROVE  HoldInv'
<1>1. WorkersInv'
  BY ZeroTypes DEF HoldInv, WorkersInv, Calm, NoNewRuns, NoNewWorkers, NoWorker, TypeInv, CounterTypes
<1>2. ASSUME NEW r \in Runs, Working(r)'
      PROVE  Working(r) /\ run'[r] = run[r] /\ TaskKept /\ task.status = "running"
  BY <1>2 DEF Calm, NoNewRuns, Working, Holds, Busy, TaskKept
<1>3. ClaimedTaskHasNoIntent'
  BY <1>2, ZeroTypes DEF HoldInv, ClaimedTaskHasNoIntent, TaskKept, TypeInv, TaskRecords
<1>4. HolderRunsPointed'
  <2> SUFFICES ASSUME NEW r \in Runs, Working(r)'
               PROVE  (/\ task.ptr = run[r].exec
                       /\ task.gen = run[r].gen
                       /\ exec[task.ptr].attempt = run[r].attempt
                       /\ exec[task.ptr].worker = run[r].worker \/ exec[task.ptr].status = "paused")'
    BY DEF HolderRunsPointed
  <2>1. Working(r) /\ run'[r] = run[r] /\ TaskKept
    BY <1>2
  <2>2. task.ptr = run[r].exec /\ run[r].exec \in Gens
    BY <2>1 DEF HoldInv, HolderRunsPointed, TypeInv, RunTypes, RunRecords
  <2> QED
    BY <2>1, <2>2 DEF HoldInv, HolderRunsPointed, TaskKept
<1> QED
  BY <1>1, <1>3, <1>4 DEF HoldInv

(* A claim finds the task waiting and leaves it with one new holder.          *)
LEMMA ClaimKeeps ==
  ASSUME TypeInv, HoldInv, NEW r \in Runs, Claim(r)
  PROVE  HoldInv'
<1> DEFINE g == Target(r)
           a == IF run[r].resume THEN exec[g].attempt + 1 ELSE exec[g].attempt
<1>1. /\ task'.status = "running" /\ task'.ptr = g /\ task'.holder = claims + 1 /\ task'.gen = task.gen
      /\ claims' = claims + 1
  BY DEF Claim, Take, TypeInv, TaskRecords
<1>2. g \in Gens /\ claims \in Nat
  BY TakeTypes, ConstantsAssumption DEF Claim, TypeInv, CounterTypes
<1>3. /\ run'[r].pc = "work" /\ run'[r].exec = g /\ run'[r].attempt = a /\ run'[r].worker = claims + 1
      /\ run'[r].gen = run[r].gen
      /\ \A q \in Runs \ {r} : run'[q] = run[q]
  BY DEF Claim, Take, TypeInv, RunTypes, RunRecords
<1>4. /\ exec'[g].attempt = a /\ exec'[g].worker = claims + 1
      /\ \A h \in Gens \ {g} : exec'[h] = exec[h]
  BY <1>2 DEF Claim, Take, TypeInv, ExecRecords
<1> HIDE DEF g, a
<1>5. WorkersInv'
  <2>1. \A q \in Runs : run'[q].pc \in Busy => run'[q].worker \in 1..claims'
    BY <1>1, <1>2, <1>3 DEF HoldInv, WorkersInv
  <2>2. \A q \in Runs : q # r /\ run'[q].pc \in Busy => run'[q].worker # claims + 1
    BY <1>2, <1>3 DEF HoldInv, WorkersInv
  <2>3. \A p, q \in Runs : run'[p].pc \in Busy /\ run'[q].pc \in Busy /\ run'[p].worker = run'[q].worker => p = q
    BY <1>3, <2>2 DEF HoldInv, WorkersInv
  <2>4. task'.holder \in 0..claims' /\ \A h \in Gens : exec'[h].worker \in 0..claims'
    BY <1>1, <1>2, <1>4 DEF HoldInv, WorkersInv
  <2> QED
    BY <2>1, <2>3, <2>4 DEF WorkersInv
<1>6. ASSUME NEW q \in Runs, Working(q)' PROVE q = r
  BY <1>1, <1>2, <1>3, <1>6 DEF Working, Holds, HoldInv, WorkersInv, Busy
<1>7. run[r].gen = task.gen
  BY DEF Claim, Granted, Locked
<1>8. ClaimedTaskHasNoIntent'
  BY <1>1, <1>7, ZeroTypes DEF ClaimedTaskHasNoIntent, Claim, Remove, NoIntent, TypeInv, TaskRecords
<1>9. HolderRunsPointed'
  BY <1>1, <1>3, <1>4, <1>6, <1>7 DEF HolderRunsPointed
<1> QED
  BY <1>5, <1>8, <1>9 DEF HoldInv

(* A verification claims a task that nobody holds.                            *)
LEMMA VerifyClaimKeeps ==
  ASSUME TypeInv, HoldInv, NEW c \in Calls, VerifyClaim(c)
  PROVE  HoldInv'
<1>1. task'.holder = claims + 1 /\ claims' = claims + 1 /\ UNCHANGED exec
  BY DEF VerifyClaim, TypeInv, TaskRecords
<1>2. claims \in Nat /\ c \in Runs
  BY ConstantsAssumption DEF TypeInv, CounterTypes, Runs
<1>3. /\ run'[c].pc = "verify" /\ run'[c].worker = claims + 1
      /\ \A q \in Runs \ {c} : run'[q] = run[q]
  BY <1>2 DEF VerifyClaim, TypeInv, RunTypes, Idle
<1>4. WorkersInv'
  <2>1. \A q \in Runs : run'[q].pc \in Busy => run'[q].worker \in 1..claims'
    BY <1>1, <1>2, <1>3 DEF HoldInv, WorkersInv
  <2>2. \A q \in Runs : q # c /\ run'[q].pc \in Busy => run'[q].worker # claims + 1
    BY <1>2, <1>3 DEF HoldInv, WorkersInv
  <2>3. \A p, q \in Runs : run'[p].pc \in Busy /\ run'[q].pc \in Busy /\ run'[p].worker = run'[q].worker => p = q
    BY <1>3, <2>2 DEF HoldInv, WorkersInv
  <2>4. task'.holder \in 0..claims' /\ \A h \in Gens : exec'[h].worker \in 0..claims'
    BY <1>1, <1>2 DEF HoldInv, WorkersInv
  <2> QED
    BY <2>1, <2>3, <2>4 DEF WorkersInv
<1>5. \A q \in Runs : ~Working(q)'
  BY <1>1, <1>2, <1>3 DEF Working, Holds, HoldInv, WorkersInv, Busy
<1> QED
  BY <1>4, <1>5 DEF HoldInv, ClaimedTaskHasNoIntent, HolderRunsPointed

LEMMA InitHolds == Init => HoldInv
<1> SUFFICES ASSUME Init PROVE HoldInv
  OBVIOUS
<1>1. \A r \in Runs : run[r].pc = "idle"
  BY DEF Init, Idle
<1>2. task.holder = 0 /\ claims = 0 /\ \A g \in Gens : exec[g].worker = 0
  BY DEF Init, NoExec, NoWorker
<1> QED
  BY <1>1, <1>2 DEF HoldInv, WorkersInv, Busy, ClaimedTaskHasNoIntent, HolderRunsPointed, Working

LEMMA HoldStep == TypeInv /\ HoldInv /\ [Next]_vars => HoldInv'
<1> SUFFICES ASSUME TypeInv, HoldInv, [Next]_vars PROVE HoldInv'
  OBVIOUS
<1>1. CASE Next
  BY <1>1, CalmSteps, CalmKeeps, ClaimKeeps, VerifyClaimKeeps
<1>2. CASE UNCHANGED vars
  <2>1. Calm
    BY <1>2, NothingMoves DEF vars, Calm, NoNewRuns
  <2> QED
    BY <2>1, CalmKeeps
<1> QED
  BY <1>1, <1>2

LEMMA Invariants == Spec => [](TypeInv /\ HoldInv)
BY InitTypes, TypeStep, InitHolds, HoldStep, PTL DEF Spec

\* The intent of a generation is gone while a claimed run of it holds the
\* task, whatever was read before the claim and is acted on after it.
THEOREM NoIntentBesideARun == Spec => []ClaimedTaskHasNoIntent
<1>1. HoldInv => ClaimedTaskHasNoIntent
  BY DEF HoldInv
<1> QED
  BY <1>1, Invariants, PTL

\* A call that holds the task runs the execution it points to.
THEOREM PointedRuns == Spec => []HolderRunsPointed
<1>1. HoldInv => HolderRunsPointed
  BY DEF HoldInv
<1> QED
  BY <1>1, Invariants, PTL

-----------------------------------------------------------------------------
(* Who writes the holder of the task, and who completes executions.           *)

LEMMA HolderMoves ==
  ASSUME TypeInv, Next
  PROVE  \/ task'.holder = task.holder
         \/ \E r \in Runs : Claim(r) \/ (\E o \in Outcomes : Finish(r, o))
         \/ \E c \in Calls : VerifyClaim(c) \/ (\E s \in {"completed", "failed", "verifying", "open"} : VerifyEnds(c, s))
         \/ \E s \in Sweepers : SweepWrite(s)
<1>d. task \in TaskRecords
  BY DEF TypeInv
<1>1. CASE Patch \/ Retry \/ Rollback \/ Verify \/ TaskLeaseExpires
  BY <1>1, <1>d DEF Patch, Retry, Rollback, Verify, TaskLeaseExpires, TaskRecords
<1>2. ASSUME NEW c \in Calls, ClaimRetry(c) PROVE task'.holder = task.holder
  BY <1>2, <1>d DEF ClaimRetry, TaskRecords
<1>3. ASSUME UNCHANGED task PROVE task'.holder = task.holder
  BY <1>3
<1>4. ASSUME NEW a \in Autos, Dispatch(a) \/ Job(a) \/ QueueFull(a) \/ Decline(a) PROVE UNCHANGED task
  BY <1>4 DEF Dispatch, Job, Persist, Look, Reread, Mark, Clear, QueueFull, Decline
<1>5. ASSUME NEW c \in Calls, ExecuteRequest(c) \/ ResumeRequest(c) \/ PlanResume(c) \/ PlanRetry(c) \/ Defer(c)
      PROVE  UNCHANGED task
  BY <1>5 DEF ExecuteRequest, ResumeRequest, PlanResume, PlanRetry, Defer
<1>6. ASSUME NEW r \in Runs, Read(r) \/ ClaimRefused(r) \/ HeartbeatRejected(r) \/ RunFails(r) \/ Crash(r)
      PROVE  UNCHANGED task
  BY <1>6 DEF Read, ClaimRefused, HeartbeatRejected, RunFails, Crash
<1>7. ASSUME NEW g \in Gens, ExecLeaseExpires(g) \/ GateOpens(g) \/ SweepExec(g) PROVE UNCHANGED task
  BY <1>7 DEF ExecLeaseExpires, GateOpens, SweepExec
<1>8. ASSUME IntentDue \/ \E s \in Sweepers : SweepRead(s) PROVE UNCHANGED task
  BY <1>8 DEF IntentDue, SweepRead
<1> QED
  BY <1>1, <1>2, <1>3, <1>4, <1>5, <1>6, <1>7, <1>8 DEF Next, Steps, Lifecycle

LEMMA EndsStep ==
  ASSUME TypeInv, Next, task.status = "running", task'.holder # task.holder
  PROVE  \/ task.lease = "expired"
         \/ \E r \in Runs : run[r].worker = task.holder /\ run[r].pc \in Busy /\ run'[r].pc \notin Busy
<1>1. ASSUME NEW r \in Runs, Claim(r) PROVE FALSE
  <2>1. run[r].allowed \subseteq Claimable
    BY DEF TypeInv, RunTypes, RunRecords
  <2> QED
    BY <1>1, <2>1 DEF Claim, Granted, Locked, Claimable
<1>2. ASSUME NEW c \in Calls, VerifyClaim(c) PROVE FALSE
  BY <1>2 DEF VerifyClaim
<1>3. ASSUME NEW r \in Runs, NEW o \in Outcomes, Finish(r, o)
      PROVE  run[r].worker = task.holder /\ run[r].pc \in Busy /\ run'[r].pc \notin Busy
  <2>1. Records(r) /\ run[r].pc = "work"
    BY <1>3 DEF Finish
  <2>2. run'[r].pc \in {"idle", "mark"}
    BY <1>3 DEF Finish, Goes, Ends, Idle, TypeInv, RunTypes, RunRecords
  <2> QED
    BY <2>1, <2>2 DEF Records, Holds, Busy
<1>4. ASSUME NEW c \in Calls, NEW s \in {"completed", "failed", "verifying", "open"}, VerifyEnds(c, s)
      PROVE  run[c].worker = task.holder /\ run[c].pc \in Busy /\ run'[c].pc \notin Busy
  <2>1. Holds(c) /\ run[c].pc = "verify"
    BY <1>4 DEF VerifyEnds
  <2>2. run'[c].pc = "idle"
    BY <1>4 DEF VerifyEnds, Ends, Idle, TypeInv, RunTypes, Runs
  <2> QED
    BY <2>1, <2>2 DEF Holds, Busy
<1>5. ASSUME NEW s \in Sweepers, SweepWrite(s) PROVE task.lease = "expired"
  BY <1>5 DEF SweepWrite, Abandoned
<1> QED
  BY <1>1, <1>2, <1>3, <1>4, <1>5, HolderMoves DEF Runs

\* A running task is given up by the call that holds it or after its lease
\* ran out.
THEOREM GivenUpByHolder == Spec => EndedByHolder
<1>1. TypeInv /\ [Next]_vars =>
        [task.status = "running" /\ task'.holder # task.holder =>
           \/ task.lease = "expired"
           \/ \E r \in Runs : run[r].worker = task.holder /\ run[r].pc \in {"work", "verify"}
                              /\ run'[r].pc \notin {"work", "verify"}]_vars
  <2> SUFFICES ASSUME TypeInv, Next, task.status = "running", task'.holder # task.holder
               PROVE  \/ task.lease = "expired"
                      \/ \E r \in Runs : run[r].worker = task.holder /\ run[r].pc \in {"work", "verify"}
                                         /\ run'[r].pc \notin {"work", "verify"}
    OBVIOUS
  <2> QED
    BY EndsStep DEF Busy
<1> QED
  BY <1>1, Invariants, PTL DEF Spec, EndedByHolder

LEMMA Completes ==
  ASSUME TypeInv, Next, NEW g \in Gens, exec[g].status # "completed", exec'[g].status = "completed"
  PROVE  \E r \in Runs, o \in Outcomes : Finish(r, o)
<1>a. exec[g] \in ExecRecords /\ \A h \in Gens : exec[h] \in ExecRecords
  BY DEF TypeInv
<1>1. ~UNCHANGED exec
  OBVIOUS
<1>2. ASSUME NEW r \in Runs, Claim(r) PROVE FALSE
  <2>1. Target(r) \in Gens
    BY <1>2, TakeTypes DEF Claim
  <2>2. exec'[Target(r)].status = "running" /\ \A h \in Gens \ {Target(r)} : exec'[h] = exec[h]
    BY <1>2, <1>a, <2>1 DEF Claim, Take, TypeInv, ExecRecords
  <2> QED
    BY <2>1, <2>2
<1>3. ASSUME NEW c \in Calls, Defer(c) PROVE FALSE
  <2>1. run[c].exec \in Gens
    BY DEF TypeInv, RunTypes, RunRecords, Runs
  <2> QED
    BY <1>3, <1>a, <2>1 DEF Defer, TypeInv, ExecRecords
<1>4. ASSUME NEW h \in Gens, ExecLeaseExpires(h) PROVE FALSE
  BY <1>4, <1>a DEF ExecLeaseExpires, TypeInv, ExecRecords
<1>5. ASSUME NEW h \in Gens, GateOpens(h) PROVE FALSE
  BY <1>5, <1>a DEF GateOpens, TypeInv, ExecRecords
<1>6. ASSUME NEW h \in Gens, SweepExec(h) PROVE FALSE
  BY <1>6, <1>a DEF SweepExec, TypeInv, ExecRecords
<1>7. ASSUME NEW a \in Autos, Dispatch(a) \/ Job(a) \/ QueueFull(a) \/ Decline(a) PROVE FALSE
  BY <1>1, <1>7 DEF Dispatch, Job, Persist, Look, Reread, Mark, Clear, QueueFull, Decline
<1>8. ASSUME NEW c \in Calls, ExecuteRequest(c) \/ ResumeRequest(c) \/ PlanResume(c) \/ PlanRetry(c)
      PROVE  FALSE
  BY <1>1, <1>8 DEF ExecuteRequest, ResumeRequest, PlanResume, PlanRetry
<1>9. ASSUME NEW c \in Calls, VerifyClaim(c) \/ Steps(c) PROVE FALSE
  BY <1>1, <1>9 DEF VerifyClaim, Steps, ClaimRetry, VerifyEnds
<1>10. ASSUME NEW r \in Runs, Read(r) \/ ClaimRefused(r) \/ HeartbeatRejected(r) \/ RunFails(r) \/ Crash(r)
       PROVE  FALSE
  BY <1>1, <1>10 DEF Read, ClaimRefused, HeartbeatRejected, RunFails, Crash
<1>11. ASSUME NEW s \in Sweepers, SweepRead(s) \/ SweepWrite(s) PROVE FALSE
  BY <1>1, <1>11 DEF SweepRead, SweepWrite
<1>12. ASSUME Patch \/ Retry \/ Rollback \/ Verify \/ IntentDue \/ TaskLeaseExpires PROVE FALSE
  BY <1>1, <1>12 DEF Patch, Retry, Rollback, Verify, IntentDue, TaskLeaseExpires
<1> QED
  BY <1>2, <1>3, <1>4, <1>5, <1>6, <1>7, <1>8, <1>9, <1>10, <1>11, <1>12 DEF Next, Lifecycle

LEMMA CompletesWithTask ==
  ASSUME TypeInv, HoldInv, NEW r \in Runs, NEW o \in Outcomes, Finish(r, o),
         NEW g \in Gens, exec[g].status # "completed", exec'[g].status = "completed"
  PROVE  /\ task.status = "running" /\ task.ptr = g /\ task.holder = exec[g].worker
         /\ task'.status \in {"completed", "verifying"} /\ task'.holder = NoWorker
<1>1. Records(r) /\ run[r].pc = "work"
  BY DEF Finish
<1>2. run[r].exec \in Gens
  BY DEF TypeInv, RunTypes, RunRecords
<1>3. exec' = [exec EXCEPT ![run[r].exec] =
                 [exec[run[r].exec] EXCEPT !.status = o.exec, !.verdict = o.verdict, !.gate = o.gate,
                                           !.worker = NoWorker, !.lease = "none"]]
  BY <1>1 DEF Finish
<1>4. g = run[r].exec /\ o.exec = "completed"
  BY <1>2, <1>3 DEF TypeInv, ExecRecords
<1>5. task.status = "running" /\ task.holder = run[r].worker /\ exec[g].worker = run[r].worker
  BY <1>1, <1>4 DEF Records, Holds, OwnsExec
<1>6. task.ptr = g
  BY <1>1, <1>4 DEF HoldInv, HolderRunsPointed, Working, Records
<1>7. o.task \in {"completed", "verifying"}
  BY <1>4, OutcomeTypes
<1>8. task'.status \in {"completed", "verifying"} /\ task'.holder = NoWorker
  BY <1>1, <1>7 DEF Finish, TypeInv, TaskRecords
<1> QED
  BY <1>5, <1>6, <1>8

\* An execution is completed together with the task that runs it.
THEOREM ResultsReachTheTask == Spec => ResultsAgree
<1>1. TypeInv /\ HoldInv /\ [Next]_vars =>
        [\A g \in Gens : exec[g].status # "completed" /\ exec'[g].status = "completed" =>
           /\ task.status = "running" /\ task.ptr = g /\ task.holder = exec[g].worker
           /\ task'.status \in {"completed", "verifying"} /\ task'.holder = NoWorker]_vars
  BY Completes, CompletesWithTask
<1> QED
  BY <1>1, Invariants, PTL DEF Spec, ResultsAgree

\* The task, its intent and its executions agree about the run that holds it.
THEOREM TaskAndRunsAgree == Spec => []RunsAgree
BY TypeCorrect, NoIntentBesideARun, PointedRuns, PTL DEF RunsAgree
=============================================================================
