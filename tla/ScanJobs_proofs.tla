--------------------------- MODULE ScanJobs_proofs ---------------------------
(* Proofs about durable scans, for any number of processes, jobs, projects,  *)
(* lock keys, retries and faults.                                            *)
EXTENDS ScanJobs, FiniteSetTheorems, TLAPS

-----------------------------------------------------------------------------
(* Types.                                                                    *)

LEMMA HolderTypes ==
  /\ Free \in Holders /\ Orphan \in Holders
  /\ \A p \in Procs, j \in Jobs : RunnerOf(p, j) \in Holders /\ RouteOf(p, j) \in Holders
  /\ \A p \in Procs, q \in Projects : DirectOf(p, q) \in Holders
BY DEF Holders, Free, Orphan, RunnerOf, RouteOf, DirectOf

LEMMA InitTypes == Init => TypeOK
<1> SUFFICES ASSUME Init PROVE TypeOK
  OBVIOUS
<1> QED
  BY HolderTypes, ConstantsAssumption DEF Init, TypeOK, Statuses, Phases

(* Types of what the helpers assign.                                         *)
LEMMA EnqueueTypes ==
  ASSUME TypeOK, NEW p \in Procs, NEW S, Enqueue(p, S)
  PROVE  runner' \in [Procs -> [Jobs -> Phases]]
BY DEF TypeOK, Enqueue, Phases

LEMMA UnlockTypes ==
  ASSUME TypeOK, NEW k, NEW h, Unlock(k, h) \/ LeaveLocked(k, h)
  PROVE  lock' \in [Keys -> Holders]
BY HolderTypes DEF TypeOK, Unlock, LeaveLocked

LEMMA LockAnswerLostTypes ==
  ASSUME TypeOK, NEW k, LockAnswerLost(k)
  PROVE  lock' \in [Keys -> Holders]
BY HolderTypes DEF TypeOK, LockAnswerLost

LEMMA RouteTypes ==
  ASSUME TypeOK, NEW p \in Procs \cup {NoWorker}, NEW j \in Jobs,
         NEW at \in {"idle", "check", "insert", "enqueue", "undo", "done"}, Route(j, p, at)
  PROVE  route' \in [Jobs -> [proc : Procs \cup {NoWorker},
                              at : {"idle", "check", "insert", "enqueue", "undo", "done"}]]
BY DEF TypeOK, Route

LEMMA RunnerToTypes ==
  ASSUME TypeOK, NEW p \in Procs, NEW j \in Jobs, NEW phase \in Phases, RunnerTo(p, j, phase)
  PROVE  runner' \in [Procs -> [Jobs -> Phases]]
BY DEF TypeOK, RunnerTo

LEMMA InjectTypes ==
  ASSUME TypeOK, NEW kind, Inject(kind)
  PROVE  faults' \in 0..MaxFaults /\ attempts' = attempts /\ lost' = lost /\ directs' = directs
BY ConstantsAssumption DEF TypeOK, Inject

LEMMA GiveBackTypes ==
  ASSUME TypeOK, NEW k, NEW h, GiveBack(k, h)
  PROVE  /\ lock' \in [Keys -> Holders]
         /\ faults' \in 0..MaxFaults /\ attempts' = attempts /\ lost' = lost /\ directs' = directs
BY UnlockTypes, InjectTypes DEF GiveBack, boundVars, TypeOK

RowTypes ==
  /\ status \in [Jobs -> Statuses]
  /\ worker \in [Jobs -> Procs \cup {NoWorker}]
  /\ lease \in [Jobs -> {"none", "live", "expired"}]
  /\ retry \in [Jobs -> 0..MaxRetries]
  /\ createdAt \in [Jobs -> Nat]
  /\ project \in [Projects -> {"active", "scanning"}]
  /\ scanned \in [Jobs -> Nat]
  /\ failures \in [Jobs -> Nat]

LEMMA InsertRowTypes ==
  ASSUME TypeOK, NEW j \in Jobs, InsertRow(j)
  PROVE  RowTypes'
<1>1. Cardinality({k \in Jobs : status[k] # "absent"}) \in Nat
  BY ConstantsAssumption, FS_Subset, FS_CardinalityType, {k \in Jobs : status[k] # "absent"} \subseteq Jobs
<1>2. 1 + Cardinality({k \in Jobs : status[k] # "absent"}) \in Nat
  BY <1>1
<1>3. createdAt' \in [Jobs -> Nat]
  BY <1>2 DEF InsertRow, TypeOK
<1> QED
  BY <1>3, ConstantsAssumption DEF InsertRow, RowTypes, TypeOK, Statuses, Active

LEMMA EndRowTypes ==
  ASSUME TypeOK, NEW j \in Jobs, NEW outcome \in Terminal, EndRow(j, outcome)
  PROVE  /\ status' \in [Jobs -> Statuses]
         /\ worker' \in [Jobs -> Procs \cup {NoWorker}]
         /\ lease' \in [Jobs -> {"none", "live", "expired"}]
         /\ retry' \in [Jobs -> 0..MaxRetries]
         /\ createdAt' \in [Jobs -> Nat]
BY DEF EndRow, TypeOK, Statuses

LEMMA PersistTypes ==
  ASSUME TypeOK, NEW j \in Jobs, PersistScan(j) \/ PersistFailure(j)
  PROVE  RowTypes'
<1>1. scanned \in [Jobs -> Nat] /\ failures \in [Jobs -> Nat]
  BY DEF TypeOK
<1>2. scanned' \in [Jobs -> Nat] /\ failures' \in [Jobs -> Nat]
  BY <1>1 DEF PersistScan, PersistFailure
<1>3. project' \in [Projects -> {"active", "scanning"}]
  BY ConstantsAssumption DEF TypeOK, PersistScan, PersistFailure, ShowActive
<1> QED
  BY <1>2, <1>3, EndRowTypes DEF PersistScan, PersistFailure, RowTypes, Terminal

LEMMA ClaimRowTypes ==
  ASSUME TypeOK, NEW p \in Procs, NEW j \in Jobs, ClaimRow(p, j), UNCHANGED outcomeVars
  PROVE  RowTypes' /\ attempts' \in [Jobs -> Nat]
<1>1. attempts \in [Jobs -> Nat]
  BY DEF TypeOK
<1>2. attempts[j] + 1 \in Nat
  BY <1>1
<1>3. attempts' \in [Jobs -> Nat]
  BY <1>1, <1>2 DEF ClaimRow
<1>4. status' \in [Jobs -> Statuses] /\ worker' \in [Jobs -> Procs \cup {NoWorker}]
  BY DEF ClaimRow, TypeOK, Statuses, Active
<1>5. /\ lease' \in [Jobs -> {"none", "live", "expired"}]
      /\ retry' \in [Jobs -> 0..MaxRetries] /\ createdAt' \in [Jobs -> Nat]
  BY DEF ClaimRow, TypeOK
<1> QED
  BY <1>3, <1>4, <1>5 DEF outcomeVars, RowTypes, TypeOK

LEMMA RequeueTypes ==
  ASSUME TypeOK, NEW p \in Procs, NEW j \in Jobs, NEW r \in 0..MaxRetries, SweepRequeue(p, j, r)
  PROVE  RowTypes' /\ lost' \in [Jobs -> Nat]
<1>1. retry \in [Jobs -> 0..MaxRetries] /\ MaxRetries \in Nat /\ r < MaxRetries /\ lost \in [Jobs -> Nat]
  BY ConstantsAssumption DEF TypeOK, SweepRequeue
<1>2. retry' \in [Jobs -> 0..MaxRetries]
  BY <1>1 DEF SweepRequeue
<1>3. Overwritten(j, r) \in Nat
  BY <1>1 DEF Overwritten
<1>4. lost' \in [Jobs -> Nat]
  BY <1>1, <1>3 DEF SweepRequeue
<1> QED
  BY <1>2, <1>4 DEF SweepRequeue, outcomeVars, RowTypes, TypeOK, Statuses, Active

LEMMA TypeStep == TypeOK /\ [Next]_vars => TypeOK'
<1> SUFFICES ASSUME TypeOK, [Next]_vars PROVE TypeOK'
  OBVIOUS
<1> USE DEF rowVars, outcomeVars, memoryVars, requestVars, boundVars
<1> SUFFICES ASSUME Next PROVE TypeOK'
  BY DEF vars, TypeOK
<1>1. ASSUME NEW p \in Procs, NEW j \in Jobs, RouteLock(p, j) PROVE TypeOK'
  BY <1>1, ConstantsAssumption, HolderTypes, RouteTypes DEF RouteLock, TypeOK, KeyOf
<1>2. ASSUME NEW p \in Procs, NEW j \in Jobs, RouteReuse(p, j) PROVE TypeOK'
  BY <1>2, GiveBackTypes, RouteTypes DEF RouteReuse, TypeOK
<1>3. ASSUME NEW p \in Procs, NEW j \in Jobs, RouteAdmit(p, j) PROVE TypeOK'
  BY <1>3, RouteTypes DEF RouteAdmit, TypeOK
<1>4. ASSUME NEW p \in Procs, NEW j \in Jobs, RouteInsert(p, j) PROVE TypeOK'
  BY <1>4, InsertRowTypes, RouteTypes DEF RouteInsert, TypeOK, RowTypes
<1>5. ASSUME NEW p \in Procs, NEW j \in Jobs, RouteInsertFails(p, j) PROVE TypeOK'
  BY <1>5, InsertRowTypes, RouteTypes, UnlockTypes, InjectTypes DEF RouteInsertFails, TypeOK, RowTypes
<1>6. ASSUME NEW p \in Procs, NEW j \in Jobs, RouteEnqueue(p, j) PROVE TypeOK'
  BY <1>6, EnqueueTypes, RouteTypes, GiveBackTypes DEF RouteEnqueue, TypeOK
<1>7. ASSUME NEW p \in Procs, NEW j \in Jobs, PushInsert(p, j) PROVE TypeOK'
  BY <1>7, InsertRowTypes, RouteTypes DEF PushInsert, TypeOK, RowTypes
<1>8. ASSUME NEW p \in Procs, NEW j \in Jobs, PushEnqueue(p, j) PROVE TypeOK'
  BY <1>8, EnqueueTypes, RouteTypes DEF PushEnqueue, TypeOK
<1>9. ASSUME NEW p \in Procs, NEW j \in Jobs, PushAnswerLost(p, j) PROVE TypeOK'
  BY <1>9, InsertRowTypes, RouteTypes, InjectTypes DEF PushAnswerLost, TypeOK, RowTypes
<1>10. ASSUME NEW p \in Procs, NEW j \in Jobs, PushUndo(p, j) PROVE TypeOK'
  BY <1>10, ConstantsAssumption, RouteTypes DEF PushUndo, TypeOK, ShowActive, Statuses, Terminal
<1>11. ASSUME NEW p \in Procs, NEW q \in Projects, DirectLock(p, q) PROVE TypeOK'
  BY <1>11, ConstantsAssumption, HolderTypes DEF DirectLock, TypeOK
<1>12. ASSUME NEW p \in Procs, NEW q \in Projects, DirectStart(p, q) PROVE TypeOK'
  BY <1>12, ConstantsAssumption DEF DirectStart, TypeOK
<1>13. ASSUME NEW p \in Procs, NEW q \in Projects, DirectEnds(p, q) PROVE TypeOK'
  BY <1>13, GiveBackTypes DEF DirectEnds, TypeOK
<1>14. ASSUME NEW p \in Procs, NEW q \in Projects, DirectCommit(p, q) PROVE TypeOK'
  BY <1>14, ConstantsAssumption DEF DirectCommit, TypeOK, ShowActive
<1>15. ASSUME NEW p \in Procs, NEW j \in Jobs, Start(p, j) PROVE TypeOK'
  BY <1>15, ConstantsAssumption, HolderTypes, RunnerToTypes DEF Start, TypeOK, KeyOf, Phases
<1>16. ASSUME NEW p \in Procs, NEW j \in Jobs, StartBusy(p, j) PROVE TypeOK'
  BY <1>16, RunnerToTypes DEF StartBusy, TypeOK, RetryLater, Phases
<1>17. ASSUME NEW p \in Procs, NEW j \in Jobs, StartFails(p, j) PROVE TypeOK'
  BY <1>17, LockAnswerLostTypes, RunnerToTypes, InjectTypes DEF StartFails, TypeOK, RetryLater, Phases
<1>18. ASSUME NEW p \in Procs, NEW j \in Jobs, Claim(p, j) PROVE TypeOK'
  BY <1>18, ClaimRowTypes, RunnerToTypes DEF Claim, TypeOK, RowTypes, Phases
<1>19. ASSUME NEW p \in Procs, NEW j \in Jobs, ClaimRefused(p, j) PROVE TypeOK'
  BY <1>19, RunnerToTypes DEF ClaimRefused, TypeOK, Phases
<1>20. ASSUME NEW p \in Procs, NEW j \in Jobs, ClaimFails(p, j) PROVE TypeOK'
  BY <1>20, ConstantsAssumption, ClaimRowTypes, RunnerToTypes DEF ClaimFails, TypeOK, RetryLater, RowTypes, Phases
<1>21. ASSUME NEW p \in Procs, NEW j \in Jobs, Heartbeat(p, j) PROVE TypeOK'
  BY <1>21, RunnerToTypes DEF Heartbeat, TypeOK, Phases
<1>22. ASSUME NEW p \in Procs, NEW j \in Jobs, ScanFails(p, j) PROVE TypeOK'
  BY <1>22, RunnerToTypes DEF ScanFails, TypeOK, Phases
<1>23. ASSUME NEW p \in Procs, NEW j \in Jobs, ScanDone(p, j) PROVE TypeOK'
  BY <1>23, RunnerToTypes DEF ScanDone, TypeOK, Phases
<1>24. ASSUME NEW p \in Procs, NEW j \in Jobs, CommitRejected(p, j) PROVE TypeOK'
  BY <1>24, RunnerToTypes DEF CommitRejected, TypeOK, Phases
<1>25. ASSUME NEW p \in Procs, NEW j \in Jobs, FailRejected(p, j) PROVE TypeOK'
  BY <1>25, RunnerToTypes DEF FailRejected, TypeOK, Phases
<1>26. ASSUME NEW p \in Procs, NEW j \in Jobs, Commit(p, j) PROVE TypeOK'
  BY <1>26, PersistTypes, RunnerToTypes DEF Commit, TypeOK, RowTypes, Phases
<1>27. ASSUME NEW p \in Procs, NEW j \in Jobs, CommitFails(p, j) PROVE TypeOK'
  BY <1>27, PersistTypes, RunnerToTypes, InjectTypes DEF CommitFails, TypeOK, RowTypes, Phases
<1>28. ASSUME NEW p \in Procs, NEW j \in Jobs, Fail(p, j) PROVE TypeOK'
  BY <1>28, PersistTypes, RunnerToTypes DEF Fail, TypeOK, RowTypes, Phases
<1>29. ASSUME NEW p \in Procs, NEW j \in Jobs, FailFails(p, j) PROVE TypeOK'
  BY <1>29, RunnerToTypes, InjectTypes DEF FailFails, TypeOK, Phases
<1>30. ASSUME NEW p \in Procs, NEW j \in Jobs, Release(p, j) PROVE TypeOK'
  BY <1>30, GiveBackTypes, RunnerToTypes DEF Release, TypeOK, Phases
<1>31. ASSUME NEW p \in Procs, NEW j \in Jobs, RouteLockFails(p, j) PROVE TypeOK'
  BY <1>31, LockAnswerLostTypes, RouteTypes, InjectTypes DEF RouteLockFails, TypeOK
<1>32. ASSUME NEW p \in Procs, NEW j \in Jobs, TimerFires(p, j) PROVE TypeOK'
  BY <1>32, EnqueueTypes DEF TimerFires, TypeOK
<1>33. ASSUME NEW p \in Procs, Dispatch(p) PROVE TypeOK'
  BY <1>33, EnqueueTypes DEF Dispatch, TypeOK
<1>34. ASSUME NEW p \in Procs, RequeuePending(p) PROVE TypeOK'
  BY <1>34, EnqueueTypes DEF RequeuePending, TypeOK
<1>35. ASSUME NEW p \in Procs, SweepRead(p) PROVE TypeOK'
  BY <1>35, ConstantsAssumption DEF SweepRead, TypeOK
<1>36. ASSUME NEW p \in Procs, SweepFails(p) PROVE TypeOK'
  BY <1>36, InjectTypes DEF SweepFails, TypeOK
<1>37. ASSUME NEW p \in Procs, NEW j \in Jobs, NEW r \in 0..MaxRetries, SweepRequeue(p, j, r) PROVE TypeOK'
  BY <1>37, RequeueTypes, EnqueueTypes DEF SweepRequeue, TypeOK, Swept, RowTypes
<1>38. ASSUME NEW p \in Procs, NEW j \in Jobs, NEW r \in 0..MaxRetries, SweepFail(p, j, r) PROVE TypeOK'
  BY <1>38, PersistTypes DEF SweepFail, TypeOK, Swept, RowTypes
<1>39. ASSUME NEW p \in Procs, NEW j \in Jobs, NEW r \in 0..MaxRetries, SweepSkip(p, j, r) PROVE TypeOK'
  BY <1>39 DEF SweepSkip, TypeOK, Swept
<1>40. ASSUME NEW j \in Jobs, LeaseExpires(j) PROVE TypeOK'
  BY <1>40 DEF LeaseExpires, TypeOK
<1>41. ASSUME NEW p \in Procs, Crash(p) PROVE TypeOK'
  BY <1>41, HolderTypes, ConstantsAssumption, InjectTypes DEF Crash, TypeOK, Phases
<1>42. ASSUME NEW p \in Procs, Restart(p) PROVE TypeOK'
  BY <1>42 DEF Restart, TypeOK
<1>43. ASSUME NEW k \in Keys, SessionEnds(k) PROVE TypeOK'
  BY <1>43, HolderTypes DEF SessionEnds, TypeOK
<1>44. ASSUME NEW k \in Keys, SessionLost(k) PROVE TypeOK'
  BY <1>44, HolderTypes, InjectTypes DEF SessionLost, TypeOK
<1>45. ASSUME NEW p \in Procs, NEW j \in Jobs, PushInsertFails(p, j) PROVE TypeOK'
  BY <1>45, ConstantsAssumption, RouteTypes, InjectTypes DEF PushInsertFails, ShowActive, TypeOK
<1> QED
  BY <1>45, <1>1, <1>2, <1>3, <1>4, <1>5, <1>6, <1>7, <1>8, <1>9, <1>10, <1>11, <1>12, <1>13, <1>14, <1>15, <1>16, <1>17, <1>18, <1>19, <1>20, <1>21, <1>22, <1>23, <1>24, <1>25, <1>26, <1>27, <1>28, <1>29, <1>30, <1>31, <1>32, <1>33, <1>34, <1>35, <1>36, <1>37, <1>38, <1>39, <1>40, <1>41, <1>42, <1>43, <1>44
     DEF Next, RequestStep, RunnerStep, RecoveryStep, SweepStep, EnvironmentStep

(* Rows, project statuses and retry counts only ever have the values their   *)
(* columns allow, and every process is in a phase of its code.               *)
THEOREM TypeCorrect == Spec => []TypeOK
BY InitTypes, TypeStep, PTL DEF Spec

-----------------------------------------------------------------------------
(* What a step can do to a row and its project: the case split every proof   *)
(* about outcomes starts from.                                               *)

Inserts(j) ==
  /\ InsertRow(j)
  /\ route[j].at \in {"idle", "insert"} /\ route'[j].at \notin {"idle", "check", "insert"}
  /\ j \in Admitted => route[j].at = "insert"

Claims(j) ==
  /\ status[j] = "queued" /\ status' = [status EXCEPT ![j] = "running"]
  /\ UNCHANGED <<retry, createdAt, project, scanned, failures>>

Requeues(j) ==
  /\ status[j] = "running" /\ status' = [status EXCEPT ![j] = "queued"]
  /\ UNCHANGED <<createdAt, project, scanned, failures>>

Completes(p, j) == runner[p][j] = "commit" /\ Owns(p, j) /\ PersistScan(j)

Fails(j) ==
  /\ Abandoned(j) \/ \E p \in Procs : runner[p][j] = "fail" /\ Owns(p, j)
  /\ PersistFailure(j)

Undoes(j) ==
  /\ route[j].at = "undo"
  /\ status' = [status EXCEPT ![j] = "failed"]
  /\ ShowActive(ProjectOf[j])
  /\ UNCHANGED <<scanned, failures>>

KeepsRows ==
  /\ UNCHANGED <<status, scanned, failures>>
  /\ \/ project' = project
     \/ \E p \in Procs, q \in Projects : direct[p][q] = "scan" /\ ShowActive(q)
     \/ \E j \in Jobs \ Admitted : ShowActive(ProjectOf[j])

RowStep ==
  \/ KeepsRows
  \/ \E j \in Jobs : \/ Inserts(j) \/ Claims(j) \/ Requeues(j) \/ Fails(j) \/ Undoes(j)
                     \/ \E p \in Procs : Completes(p, j)

LEMMA RowSteps == TypeOK /\ [Next]_vars => RowStep
<1> SUFFICES ASSUME TypeOK, [Next]_vars PROVE RowStep
  OBVIOUS
<1> USE DEF rowVars, outcomeVars
<1> SUFFICES ASSUME Next PROVE RowStep
  BY DEF vars, RowStep, KeepsRows
<1>1. ASSUME NEW j \in Jobs,
              LeaseExpires(j) PROVE RowStep
  BY <1>1 DEF LeaseExpires, RowStep, KeepsRows
<1>2. ASSUME NEW k \in Keys, SessionEnds(k) \/ SessionLost(k) PROVE RowStep
  BY <1>2 DEF SessionEnds, SessionLost, RowStep, KeepsRows
<1>3. ASSUME NEW p \in Procs,
              Dispatch(p) \/ RequeuePending(p) \/ SweepRead(p) \/ SweepFails(p) \/ Crash(p) \/ Restart(p) PROVE RowStep
  BY <1>3 DEF Dispatch, RequeuePending, SweepRead, SweepFails, Crash, Restart, RowStep, KeepsRows
<1>4. ASSUME NEW p \in Procs, NEW j \in Jobs,
              RouteLock(p, j) \/ RouteReuse(p, j) \/ RouteAdmit(p, j) \/ RouteEnqueue(p, j) \/ PushEnqueue(p, j) \/ Start(p, j) PROVE RowStep
  BY <1>4 DEF RouteLock, RouteReuse, RouteAdmit, RouteEnqueue, PushEnqueue, Start, RowStep, KeepsRows
<1>5. ASSUME NEW p \in Procs, NEW j \in Jobs,
              StartBusy(p, j) \/ StartFails(p, j) \/ ClaimRefused(p, j) \/ Heartbeat(p, j) \/ ScanFails(p, j) \/ ScanDone(p, j) PROVE RowStep
  BY <1>5 DEF StartBusy, StartFails, ClaimRefused, Heartbeat, ScanFails, ScanDone, RowStep, KeepsRows
<1>6. ASSUME NEW p \in Procs, NEW j \in Jobs,
              CommitRejected(p, j) \/ FailRejected(p, j) \/ FailFails(p, j) \/ Release(p, j) \/ RouteLockFails(p, j) \/ TimerFires(p, j) PROVE RowStep
  BY <1>6 DEF CommitRejected, FailRejected, FailFails, Release, RouteLockFails, TimerFires, RowStep, KeepsRows
<1>7. ASSUME NEW p \in Procs, NEW j \in Jobs, NEW r \in 0..MaxRetries, SweepSkip(p, j, r) PROVE RowStep
  BY <1>7 DEF SweepSkip, RowStep, KeepsRows
<1>8. ASSUME NEW p \in Procs, NEW q \in Projects,
              DirectLock(p, q) \/ DirectStart(p, q) \/ DirectEnds(p, q) PROVE RowStep
  BY <1>8 DEF DirectLock, DirectStart, DirectEnds, RowStep, KeepsRows
<1>8a. ASSUME NEW p \in Procs, NEW j \in Jobs, PushInsertFails(p, j) PROVE RowStep
  BY <1>8a, ConstantsAssumption DEF PushInsertFails, RowStep, KeepsRows
<1>9. ASSUME NEW p \in Procs, NEW q \in Projects, DirectCommit(p, q) PROVE RowStep
  BY <1>9 DEF DirectCommit, RowStep, KeepsRows
<1>10. ASSUME NEW p \in Procs, NEW j \in Jobs, RouteInsert(p, j) \/ RouteInsertFails(p, j) PROVE RowStep
  <2>1. CASE UNCHANGED <<rowVars, outcomeVars>>
    BY <2>1 DEF RowStep, KeepsRows
  <2>2. ASSUME InsertRow(j) PROVE Inserts(j)
    BY <1>10, <2>2 DEF TypeOK, RouteInsert, RouteInsertFails, Route, Inserts
  <2> QED
    BY <1>10, <2>1, <2>2 DEF RouteInsert, RouteInsertFails, RowStep
<1>11. ASSUME NEW p \in Procs, NEW j \in Jobs, PushInsert(p, j) \/ PushAnswerLost(p, j) PROVE RowStep
  <2>1. Inserts(j)
    BY <1>11 DEF TypeOK, PushInsert, PushAnswerLost, Route, Inserts
  <2> QED
    BY <2>1 DEF RowStep
<1>12. ASSUME NEW p \in Procs, NEW j \in Jobs, PushUndo(p, j) PROVE RowStep
  <2>1. Undoes(j)
    BY <1>12 DEF PushUndo, Undoes
  <2> QED
    BY <2>1 DEF RowStep
<1>13. ASSUME NEW p \in Procs, NEW j \in Jobs, Claim(p, j) \/ ClaimFails(p, j) PROVE RowStep
  BY <1>13 DEF Claim, ClaimFails, ClaimRow, RowStep, KeepsRows, Claims
<1>14. ASSUME NEW p \in Procs, NEW j \in Jobs, Commit(p, j) \/ CommitFails(p, j) PROVE RowStep
  BY <1>14 DEF Commit, CommitFails, RowStep, KeepsRows, Completes
<1>15. ASSUME NEW p \in Procs, NEW j \in Jobs, Fail(p, j) PROVE RowStep
  BY <1>15 DEF Fail, RowStep, Fails
<1>16. ASSUME NEW p \in Procs, NEW j \in Jobs, NEW r \in 0..MaxRetries, SweepRequeue(p, j, r) PROVE RowStep
  BY <1>16 DEF SweepRequeue, Abandoned, RowStep, Requeues
<1>17. ASSUME NEW p \in Procs, NEW j \in Jobs, NEW r \in 0..MaxRetries, SweepFail(p, j, r) PROVE RowStep
  BY <1>17 DEF SweepFail, RowStep, Fails
<1> QED
  BY <1>1, <1>2, <1>3, <1>4, <1>5, <1>6, <1>7, <1>8, <1>8a, <1>9, <1>10, <1>11, <1>12, <1>13, <1>14, <1>15, <1>16, <1>17
     DEF Next, RequestStep, RunnerStep, RecoveryStep, SweepStep, EnvironmentStep

-----------------------------------------------------------------------------
(* A project that shows "scanning" has a job: each row that ends takes its   *)
(* project out of "scanning" in the same transaction.                        *)

LEMMA ScanningStep == TypeOK /\ ScanningHasActiveJob /\ RowStep => ScanningHasActiveJob'
<1> SUFFICES ASSUME TypeOK, ScanningHasActiveJob, RowStep,
                    NEW q \in Projects, project'[q] = "scanning"
             PROVE  \E i \in Jobs : ProjectOf[i] = q /\ status'[i] \in Active
  BY DEF ScanningHasActiveJob, ActiveJobs
<1> USE DEF Active
<1>1. project[q] = "scanning" =>
        \E i \in Jobs : ProjectOf[i] = q /\ status[i] \in Active
  BY DEF ScanningHasActiveJob, ActiveJobs
<1>2. CASE KeepsRows
  BY <1>1, <1>2 DEF KeepsRows, ShowActive, TypeOK
<1>3. ASSUME NEW j \in Jobs, Inserts(j) \/ Claims(j) \/ Requeues(j)
      PROVE  \E i \in Jobs : ProjectOf[i] = q /\ status'[i] \in Active
  BY <1>1, <1>3 DEF Inserts, InsertRow, Claims, Requeues, TypeOK
<1>4. ASSUME NEW j \in Jobs,
             Fails(j) \/ Undoes(j) \/ \E p \in Procs : Completes(p, j)
      PROVE  \E i \in Jobs : ProjectOf[i] = q /\ status'[i] \in Active
  <2>1. ShowActive(ProjectOf[j]) /\ \A i \in Jobs \ {j} : status'[i] = status[i]
    BY <1>4 DEF Fails, Undoes, Completes, PersistFailure, PersistScan, EndRow, TypeOK
  <2>2. ProjectOf[j] # q /\ project[q] = "scanning"
    BY <2>1, ConstantsAssumption DEF ShowActive, TypeOK
  <2> QED
    BY <1>1, <2>1, <2>2
<1> QED
  BY <1>2, <1>3, <1>4 DEF RowStep

(* No project is left "scanning" with nothing to scan it, whatever fails.    *)
THEOREM ScanningIsBacked == Spec => []ScanningHasActiveJob
<1>1. Init => ScanningHasActiveJob
  BY DEF Init, ScanningHasActiveJob
<1> QED
  BY <1>1, TypeCorrect, RowSteps, ScanningStep, PTL DEF Spec

-----------------------------------------------------------------------------
(* Requests.                                                                 *)

Fresh == {"idle", "check", "insert"}

\* Only a push whose answer may be lost ever takes its insert for failed.
MayUndo(j) == "pushAnswer" \in Faults /\ j \notin Admitted

\* A request that has not inserted its row finds no row with its id.
UnusedIds == \A j \in Jobs : route[j].at \in Fresh => status[j] = "absent"

UndoesArePushes == \A j \in Jobs : route[j].at = "undo" => MayUndo(j)

RequestInv == UnusedIds /\ UndoesArePushes

\* A request never returns to the time before its insert.
Forward(i) ==
  /\ route'[i].at \in Fresh => route[i].at \in Fresh
  /\ route'[i].at = "undo" => route[i].at = "undo" \/ MayUndo(i)

RouteOrPush(p, j) ==
  \/ RouteLock(p, j) \/ RouteLockFails(p, j) \/ RouteReuse(p, j) \/ RouteAdmit(p, j)
  \/ RouteInsert(p, j) \/ RouteInsertFails(p, j) \/ RouteEnqueue(p, j)
  \/ PushInsert(p, j) \/ PushEnqueue(p, j) \/ PushInsertFails(p, j)
  \/ PushAnswerLost(p, j) \/ PushUndo(p, j)

(* Requests are moved by their own steps and by a crash, and by nothing else. *)
LEMMA WhoMovesRoutes ==
  [Next]_vars =>
    \/ UNCHANGED route
    \/ \E p \in Procs, j \in Jobs : RouteOrPush(p, j)
    \/ \E p \in Procs : Crash(p)
<1> USE DEF requestVars
<1>1. ASSUME NEW p \in Procs, NEW j \in Jobs, RunnerStep(p, j) PROVE UNCHANGED route
  <2>1. CASE \/ Start(p, j) \/ StartBusy(p, j) \/ StartFails(p, j)
             \/ Claim(p, j) \/ ClaimRefused(p, j) \/ ClaimFails(p, j)
    BY <2>1 DEF Start, StartBusy, StartFails, Claim, ClaimRefused, ClaimFails
  <2>2. CASE \/ Heartbeat(p, j) \/ ScanFails(p, j) \/ ScanDone(p, j) \/ Release(p, j)
    BY <2>2 DEF Heartbeat, ScanFails, ScanDone, Release
  <2>3. CASE Commit(p, j) \/ CommitRejected(p, j) \/ CommitFails(p, j)
    BY <2>3 DEF Commit, CommitRejected, CommitFails
  <2>4. CASE Fail(p, j) \/ FailRejected(p, j) \/ FailFails(p, j)
    BY <2>4 DEF Fail, FailRejected, FailFails
  <2> QED
    BY <1>1, <2>1, <2>2, <2>3, <2>4 DEF RunnerStep
<1>2. ASSUME RecoveryStep PROVE UNCHANGED route
  <2>1. ASSUME NEW p \in Procs, NEW j \in Jobs, TimerFires(p, j) PROVE UNCHANGED route
    BY <2>1 DEF TimerFires
  <2>2. ASSUME NEW p \in Procs, NEW j \in Jobs, NEW r \in 0..MaxRetries, SweepStep(p, j, r)
        PROVE  UNCHANGED route
    BY <2>2 DEF SweepStep, SweepRequeue, SweepFail, SweepSkip
  <2>3. ASSUME NEW p \in Procs, Dispatch(p) \/ RequeuePending(p) \/ SweepRead(p) \/ SweepFails(p)
        PROVE  UNCHANGED route
    BY <2>3 DEF Dispatch, RequeuePending, SweepRead, SweepFails
  <2> QED
    BY <1>2, <2>1, <2>2, <2>3 DEF RecoveryStep
<1>3. ASSUME EnvironmentStep PROVE UNCHANGED route \/ \E p \in Procs : Crash(p)
  BY <1>3 DEF EnvironmentStep, LeaseExpires, Restart, SessionEnds, SessionLost
<1>4. ASSUME NEW p \in Procs, NEW q \in Projects,
             DirectLock(p, q) \/ DirectStart(p, q) \/ DirectEnds(p, q) \/ DirectCommit(p, q)
      PROVE  UNCHANGED route
  BY <1>4 DEF DirectLock, DirectStart, DirectEnds, DirectCommit
<1>5. ASSUME RequestStep PROVE UNCHANGED route \/ \E p \in Procs, j \in Jobs : RouteOrPush(p, j)
  BY <1>4, <1>5 DEF RequestStep, RouteOrPush
<1> QED
  BY <1>1, <1>2, <1>3, <1>5 DEF Next, vars

LEMMA RouteSteps ==
  ASSUME TypeOK, [Next]_vars, NEW i \in Jobs
  PROVE  Forward(i)
<1>1. ASSUME UNCHANGED route PROVE Forward(i)
  BY <1>1 DEF Forward
<1>2. ASSUME NEW p \in Procs \cup {NoWorker}, NEW j \in Jobs, NEW at \in {"check", "insert", "enqueue", "done"},
             Route(j, p, at), at \in Fresh => route[j].at \in Fresh
      PROVE  Forward(i)
  BY <1>2 DEF TypeOK, Route, Forward
<1>3. ASSUME NEW p \in Procs, NEW j \in Jobs, RouteOrPush(p, j) PROVE Forward(i)
  <2>1. CASE RouteLock(p, j) \/ RouteLockFails(p, j) \/ RouteAdmit(p, j) \/ RouteReuse(p, j)
    BY <1>2, <2>1 DEF RouteLock, RouteLockFails, RouteAdmit, RouteReuse, Fresh
  <2>2. CASE \/ RouteInsert(p, j) \/ RouteInsertFails(p, j) \/ RouteEnqueue(p, j)
             \/ PushInsert(p, j) \/ PushEnqueue(p, j) \/ PushInsertFails(p, j) \/ PushUndo(p, j)
    BY <1>2, <2>2
       DEF RouteInsert, RouteInsertFails, RouteEnqueue, PushInsert, PushEnqueue, PushInsertFails,
           PushUndo, Fresh
  <2>3. CASE PushAnswerLost(p, j)
    <3>1. MayUndo(j) /\ route[j].at \in Fresh
      BY <2>3 DEF PushAnswerLost, Inject, MayUndo, Fresh
    <3> QED
      BY <2>3, <3>1 DEF PushAnswerLost, TypeOK, Route, Forward, Fresh
  <2> QED
    BY <1>3, <2>1, <2>2, <2>3 DEF RouteOrPush
<1>4. ASSUME NEW p \in Procs, Crash(p) PROVE Forward(i)
  BY <1>4 DEF Crash, Fresh, Forward
<1> QED
  BY <1>1, <1>3, <1>4, WhoMovesRoutes

(* A job that has ended is written again by nothing but the undo of a push.  *)
LEMMA EndedRows ==
  ASSUME TypeOK, UnusedIds, RowStep, NEW i \in Jobs, status[i] \in Terminal
  PROVE  status'[i] = status[i] \/ route[i].at = "undo"
<1> USE DEF Terminal
<1>1. CASE KeepsRows
  BY <1>1 DEF KeepsRows
<1>2. ASSUME NEW j \in Jobs, Inserts(j) PROVE status'[i] = status[i]
  <2>1. status[j] = "absent"
    BY <1>2 DEF Inserts, UnusedIds, Fresh
  <2> QED
    BY <1>2, <2>1 DEF Inserts, InsertRow, TypeOK
<1>3. ASSUME NEW j \in Jobs, Claims(j) \/ Requeues(j) PROVE status'[i] = status[i]
  BY <1>3 DEF Claims, Requeues, TypeOK
<1>4. ASSUME NEW j \in Jobs, Fails(j) \/ \E p \in Procs : Completes(p, j) PROVE status'[i] = status[i]
  BY <1>4 DEF Fails, Completes, Abandoned, Owns, PersistFailure, PersistScan, EndRow, TypeOK
<1>5. ASSUME NEW j \in Jobs, Undoes(j) PROVE status'[i] = status[i] \/ route[i].at = "undo"
  BY <1>5 DEF Undoes, TypeOK
<1> QED
  BY <1>1, <1>2, <1>3, <1>4, <1>5 DEF RowStep

LEMMA RequestStepInv ==
  ASSUME TypeOK, RequestInv, [Next]_vars
  PROVE  RequestInv'
<1>1. RowStep /\ \A i \in Jobs : Forward(i)
  BY RowSteps, RouteSteps
<1>2. UndoesArePushes'
  BY <1>1 DEF RequestInv, UndoesArePushes, Forward, MayUndo
<1>3. UnusedIds'
  <2> SUFFICES ASSUME NEW i \in Jobs, route'[i].at \in Fresh PROVE status'[i] = "absent"
    BY DEF UnusedIds
  <2>1. route[i].at \in Fresh /\ status[i] = "absent"
    BY <1>1 DEF RequestInv, UnusedIds, Forward
  <2>2. CASE KeepsRows
    BY <2>1, <2>2 DEF KeepsRows
  <2>3. ASSUME NEW j \in Jobs, Inserts(j) PROVE status'[i] = "absent"
    BY <2>1, <2>3 DEF Inserts, InsertRow, Fresh, TypeOK
  <2>4. ASSUME NEW j \in Jobs, Claims(j) \/ Requeues(j) PROVE status'[i] = "absent"
    BY <2>1, <2>4 DEF Claims, Requeues, TypeOK
  <2>5. ASSUME NEW j \in Jobs, Fails(j) \/ \E p \in Procs : Completes(p, j)
        PROVE  status'[i] = "absent"
    BY <2>1, <2>5
       DEF Fails, Completes, Abandoned, Owns, PersistFailure, PersistScan, EndRow, TypeOK
  <2>6. ASSUME NEW j \in Jobs, Undoes(j) PROVE status'[i] = "absent"
    BY <2>1, <2>6 DEF Undoes, Fresh, TypeOK
  <2> QED
    BY <1>1, <2>2, <2>3, <2>4, <2>5, <2>6 DEF RowStep
<1> QED
  BY <1>2, <1>3 DEF RequestInv

LEMMA RequestInvariant == Spec => []RequestInv
<1>1. Init => RequestInv
  BY DEF Init, RequestInv, UnusedIds, UndoesArePushes
<1>2. TypeOK /\ RequestInv /\ [Next]_vars => RequestInv'
  BY RequestStepInv
<1> QED
  BY <1>1, <1>2, TypeCorrect, PTL DEF Spec

(* A completed or failed job keeps that status, whatever late workers,       *)
(* sweeps, timers and retries still do to it and whichever fault happens;    *)
(* the undo of a push is the one write that does not look at the status.     *)
THEOREM EndedStays == Spec => TerminalStays
<1> DEFINE Stays ==
      \A j \in Jobs :
        status[j] \in Terminal => status'[j] = status[j] \/ route[j].at = "undo"
<1>1. TypeOK /\ RequestInv /\ [Next]_vars => Stays
  BY RowSteps, EndedRows DEF RequestInv
<1> QED
  BY <1>1, RequestInvariant, TypeCorrect, PTL DEF Spec, TerminalStays

-----------------------------------------------------------------------------
(* Outcomes.  The undo of a failed push writes a row whatever became of it,  *)
(* so what follows assumes that no push takes a committed insert for failed. *)

NothingToUndo == \A j \in Jobs : route[j].at # "undo"

OutcomeInv == OutcomeMatchesEffects /\ UnusedIds /\ NothingToUndo

LEMMA OutcomeInit == Init => OutcomeMatchesEffects
BY DEF Init, OutcomeMatchesEffects

LEMMA OutcomeStep ==
  ASSUME TypeOK, OutcomeInv, [Next]_vars
  PROVE  OutcomeMatchesEffects'
<1>0. RowStep
  BY RowSteps
<1>1. status \in [Jobs -> Statuses] /\ scanned \in [Jobs -> Nat] /\ failures \in [Jobs -> Nat]
  BY DEF TypeOK
<1>2. OutcomeMatchesEffects
  BY DEF OutcomeInv
<1>3. CASE KeepsRows
  BY <1>2, <1>3 DEF KeepsRows, OutcomeMatchesEffects
<1>4. ASSUME NEW j \in Jobs, Inserts(j) PROVE OutcomeMatchesEffects'
  <2>1. status[j] = "absent"
    BY <1>4 DEF Inserts, OutcomeInv, UnusedIds, Fresh
  <2> QED
    BY <1>1, <1>2, <1>4, <2>1 DEF Inserts, InsertRow, OutcomeMatchesEffects
<1>5. ASSUME NEW j \in Jobs, Claims(j) \/ Requeues(j) PROVE OutcomeMatchesEffects'
  BY <1>1, <1>2, <1>5 DEF Claims, Requeues, OutcomeMatchesEffects
<1>6. ASSUME NEW j \in Jobs, Fails(j) PROVE OutcomeMatchesEffects'
  <2>1. status[j] = "running"
    BY <1>6 DEF Fails, Abandoned, Owns
  <2> QED
    BY <1>1, <1>2, <1>6, <2>1 DEF Fails, PersistFailure, EndRow, OutcomeMatchesEffects
<1>7. ASSUME NEW j \in Jobs, NEW p \in Procs, Completes(p, j) PROVE OutcomeMatchesEffects'
  BY <1>1, <1>2, <1>7 DEF Completes, Owns, PersistScan, EndRow, OutcomeMatchesEffects
<1>8. ASSUME NEW j \in Jobs, Undoes(j) PROVE OutcomeMatchesEffects'
  BY <1>8 DEF Undoes, OutcomeInv, NothingToUndo
<1> QED
  BY <1>0, <1>3, <1>4, <1>5, <1>6, <1>7, <1>8 DEF RowStep

LEMMA OutcomeInvariant == "pushAnswer" \notin Faults /\ Spec => []OutcomeInv
<1> SUFFICES ASSUME "pushAnswer" \notin Faults PROVE Spec => []OutcomeInv
  OBVIOUS
<1>1. RequestInv => UnusedIds /\ NothingToUndo
  BY DEF RequestInv, UndoesArePushes, NothingToUndo, MayUndo
<1>2. OutcomeInv <=> OutcomeMatchesEffects /\ UnusedIds /\ NothingToUndo
  BY DEF OutcomeInv
<1>3. TypeOK /\ OutcomeInv /\ [Next]_vars => OutcomeMatchesEffects'
  BY OutcomeStep
<1> QED
  BY <1>1, <1>2, <1>3, OutcomeInit, RequestInvariant, TypeCorrect, PTL DEF Spec

(* Completion and effects do not diverge: a job's scan effects are stored    *)
(* exactly when it completed, its failure event exactly when it failed, once *)
(* each, whatever crashes, lost answers, lost leases and lost locks occur.   *)
THEOREM OutcomesAgree == "pushAnswer" \notin Faults /\ Spec => []OutcomeMatchesEffects
<1>1. OutcomeInv => OutcomeMatchesEffects
  BY DEF OutcomeInv
<1> QED
  BY <1>1, OutcomeInvariant, PTL

(* Only the live owner of a row completes it, and only its live owner or     *)
(* recovery after the lease ran out fails it.                                *)
THEOREM EndedByRight == "pushAnswer" \notin Faults /\ Spec => EndedByOwnerOrRecovery
<1> DEFINE Right ==
      \A j \in Jobs :
        /\ status[j] # "completed" /\ status'[j] = "completed" =>
             \E p \in Procs :
               worker[j] = p /\ lease[j] = "live" /\ runner[p][j] = "commit"
        /\ status[j] # "failed" /\ status'[j] = "failed" =>
             /\ status[j] = "running"
             /\ lease[j] = "live" => \E p \in Procs : worker[j] = p /\ runner[p][j] = "fail"
<1>1. ASSUME TypeOK, NothingToUndo, RowStep PROVE Right
  <2> SUFFICES ASSUME NEW i \in Jobs
               PROVE /\ status[i] # "completed" /\ status'[i] = "completed" =>
                          \E p \in Procs :
                            worker[i] = p /\ lease[i] = "live" /\ runner[p][i] = "commit"
                     /\ status[i] # "failed" /\ status'[i] = "failed" =>
                          /\ status[i] = "running"
                          /\ lease[i] = "live" => \E p \in Procs : worker[i] = p /\ runner[p][i] = "fail"
    OBVIOUS
  <2>1. CASE UNCHANGED status
    BY <2>1
  <2>2. ASSUME NEW j \in Jobs, Inserts(j) \/ Claims(j) \/ Requeues(j)
        PROVE  status'[i] # status[i] => status'[i] \in Active
    BY <1>1, <2>2 DEF Inserts, InsertRow, Claims, Requeues, TypeOK, Active
  <2>3. ASSUME NEW j \in Jobs, Fails(j)
        PROVE  status'[i] # status[i] =>
                 /\ status'[i] = "failed" /\ status[i] = "running"
                 /\ lease[i] = "live" => \E p \in Procs : worker[i] = p /\ runner[p][i] = "fail"
    BY <1>1, <2>3 DEF Fails, Abandoned, Owns, PersistFailure, EndRow, TypeOK
  <2>4. ASSUME NEW j \in Jobs, NEW p \in Procs, Completes(p, j)
        PROVE  status'[i] # status[i] =>
                 /\ status'[i] = "completed"
                 /\ worker[i] = p /\ lease[i] = "live" /\ runner[p][i] = "commit"
    BY <1>1, <2>4 DEF Completes, Owns, PersistScan, EndRow, TypeOK
  <2>5. ASSUME NEW j \in Jobs, Undoes(j) PROVE FALSE
    BY <1>1, <2>5 DEF Undoes, NothingToUndo
  <2> QED
    BY <1>1, <2>1, <2>2, <2>3, <2>4, <2>5 DEF RowStep, KeepsRows, Active
<1>2. TypeOK /\ OutcomeInv /\ [Next]_vars => Right
  BY <1>1, RowSteps DEF OutcomeInv
<1> QED
  BY <1>2, OutcomeInvariant, TypeCorrect, PTL DEF Spec, EndedByOwnerOrRecovery

(* The detailed system implements the promise of ScanPromise: every step is  *)
(* a step of the promise or leaves what the requester sees as it is.         *)
THEOREM PromiseKept == "pushAnswer" \notin Faults /\ Spec => KeepsPromise
<1>1. Init => Promise!Init
  BY DEF Init, Promise!Init, Outcome
<1>2. ASSUME TypeOK, OutcomeInv, RowStep PROVE [Promise!Next]_(Promise!vars)
  <2> USE DEF Active
  <2>1. /\ status \in [Jobs -> Statuses]
        /\ scanned \in [Jobs -> Nat] /\ failures \in [Jobs -> Nat]
    BY <1>2 DEF TypeOK
  <2>2. CASE KeepsRows
    BY <2>2 DEF KeepsRows, Promise!vars, Outcome
  <2>3. ASSUME NEW j \in Jobs, Inserts(j) PROVE Promise!Accept(j)
    <3>1. status[j] = "absent"
      BY <1>2, <2>3 DEF Inserts, OutcomeInv, UnusedIds, Fresh
    <3> QED
      BY <2>1, <2>3, <3>1 DEF Inserts, InsertRow, Promise!Accept, Outcome
  <2>4. ASSUME NEW j \in Jobs, Claims(j) \/ Requeues(j) PROVE UNCHANGED Promise!vars
    <3>1. Outcome' = Outcome
      BY <2>1, <2>4 DEF Claims, Requeues, Outcome
    <3> QED
      BY <2>4, <3>1 DEF Claims, Requeues, Promise!vars
  <2>5. ASSUME NEW j \in Jobs, NEW p \in Procs, Completes(p, j) PROVE Promise!Complete(j)
    <3>1. status[j] = "running" /\ scanned[j] = 0
      BY <1>2, <2>5 DEF Completes, Owns, OutcomeInv, OutcomeMatchesEffects
    <3>2. scanned' = [scanned EXCEPT ![j] = 1] /\ failures' = failures
      BY <2>1, <2>5, <3>1 DEF Completes, PersistScan
    <3>3. Outcome[j] = "accepted" /\ Outcome' = [Outcome EXCEPT ![j] = "completed"]
      BY <2>1, <2>5, <3>1 DEF Completes, PersistScan, EndRow, Outcome
    <3> QED
      BY <3>2, <3>3 DEF Promise!Complete
  <2>6. ASSUME NEW j \in Jobs, Fails(j) PROVE Promise!GiveUp(j)
    <3>1. status[j] = "running" /\ failures[j] = 0
      BY <1>2, <2>6 DEF Fails, Abandoned, Owns, OutcomeInv, OutcomeMatchesEffects
    <3>2. failures' = [failures EXCEPT ![j] = 1] /\ scanned' = scanned
      BY <2>1, <2>6, <3>1 DEF Fails, PersistFailure
    <3>3. Outcome[j] = "accepted" /\ Outcome' = [Outcome EXCEPT ![j] = "failed"]
      BY <2>1, <2>6, <3>1 DEF Fails, PersistFailure, EndRow, Outcome
    <3> QED
      BY <3>2, <3>3 DEF Promise!GiveUp
  <2>7. ASSUME NEW j \in Jobs, Undoes(j) PROVE FALSE
    BY <1>2, <2>7 DEF Undoes, OutcomeInv, NothingToUndo
  <2> QED
    BY <1>2, <2>2, <2>3, <2>4, <2>5, <2>6, <2>7 DEF RowStep, Promise!Next
<1>3. TypeOK /\ OutcomeInv /\ [Next]_vars => [Promise!Next]_(Promise!vars)
  BY <1>2, RowSteps
<1> QED
  BY <1>1, <1>3, OutcomeInvariant, TypeCorrect, PTL DEF Spec, KeepsPromise, Promise!Spec

-----------------------------------------------------------------------------
(* The project lock.  A session that the server drops takes the lock from a  *)
(* holder that is still at work, so what follows assumes that none is lost.  *)

HoldsRoute == {"check", "insert", "enqueue"}

\* Whoever is past taking the lock is the holder the database knows.
RunnersHold ==
  \A p \in Procs, j \in Jobs : runner[p][j] \in Running => lock[KeyOf(j)] = RunnerOf(p, j)

DirectsHold ==
  \A p \in Procs, q \in Projects : direct[p][q] # "idle" => lock[LockKey[q]] = DirectOf(p, q)

RoutesHold ==
  \A j \in Admitted :
    route[j].at \in HoldsRoute =>
      route[j].proc \in Procs /\ lock[KeyOf(j)] = RouteOf(route[j].proc, j)

LockInv == RunnersHold /\ DirectsHold /\ RoutesHold

LEMMA HoldersDiffer ==
  /\ Free # Orphan
  /\ \A p \in Procs, j \in Jobs :
       /\ RunnerOf(p, j) \notin {Free, Orphan} /\ RouteOf(p, j) \notin {Free, Orphan}
       /\ \A p2 \in Procs, j2 \in Jobs :
            /\ RunnerOf(p, j) # RouteOf(p2, j2)
            /\ RunnerOf(p, j) = RunnerOf(p2, j2) => p = p2 /\ j = j2
            /\ RouteOf(p, j) = RouteOf(p2, j2) => p = p2 /\ j = j2
       /\ \A p2 \in Procs, q \in Projects :
            RunnerOf(p, j) # DirectOf(p2, q) /\ RouteOf(p, j) # DirectOf(p2, q)
  /\ \A p \in Procs, q \in Projects :
       /\ DirectOf(p, q) \notin {Free, Orphan}
       /\ \A p2 \in Procs, q2 \in Projects : DirectOf(p, q) = DirectOf(p2, q2) => p = p2 /\ q = q2
BY DEF Free, Orphan, RunnerOf, RouteOf, DirectOf

LEMMA KeyTypes == \A j \in Jobs : KeyOf(j) \in Keys
BY ConstantsAssumption DEF KeyOf

LEMMA HolderProcs ==
  /\ \A p \in Procs, j \in Jobs : HolderProc(RunnerOf(p, j)) = p /\ HolderProc(RouteOf(p, j)) = p
  /\ \A p \in Procs, q \in Projects : HolderProc(DirectOf(p, q)) = p
BY HoldersDiffer DEF HolderProc, RunnerOf, RouteOf, DirectOf

(* Enqueueing starts nothing.                                                *)
LEMMA EnqueueRunning ==
  ASSUME TypeOK, NEW p \in Procs, NEW S, Enqueue(p, S)
  PROVE  \A p2 \in Procs, j \in Jobs : runner'[p2][j] \in Running => runner[p2][j] \in Running
BY DEF TypeOK, Enqueue, Running, Tracked

(* Nobody comes to hold the lock, and it does not change.                    *)
LEMMA LockUntouched ==
  ASSUME LockInv, UNCHANGED <<lock, direct, route>>,
         \A p \in Procs, j \in Jobs : runner'[p][j] \in Running => runner[p][j] \in Running
  PROVE  LockInv'
BY DEF LockInv, RunnersHold, DirectsHold, RoutesHold, KeyOf

LEMMA RunnerMoves ==
  ASSUME TypeOK, LockInv, UNCHANGED <<lock, direct, route>>, NEW p \in Procs, NEW j \in Jobs,
         NEW phase \in Phases, RunnerTo(p, j, phase), phase \in Running => runner[p][j] \in Running
  PROVE  LockInv'
<1>1. \A p2 \in Procs, j2 \in Jobs : runner'[p2][j2] \in Running => runner[p2][j2] \in Running
  BY DEF TypeOK, RunnerTo
<1> QED
  BY <1>1, LockUntouched

LEMMA RunnerReleases ==
  ASSUME TypeOK, LockInv, UNCHANGED <<direct, route>>, NEW p \in Procs, NEW j \in Jobs,
         RunnerTo(p, j, "idle"),
         GiveBack(KeyOf(j), RunnerOf(p, j))
  PROVE  LockInv'
<1>1. \A k \in Keys : lock[k] # RunnerOf(p, j) => lock'[k] = lock[k]
  BY DEF TypeOK, GiveBack, Unlock, LeaveLocked
<1>2. RunnersHold'
  BY <1>1, KeyTypes, HoldersDiffer DEF TypeOK, LockInv, RunnersHold, RunnerTo, Running, KeyOf
<1>3. DirectsHold'
  BY <1>1, ConstantsAssumption, HoldersDiffer DEF LockInv, DirectsHold
<1>4. RoutesHold'
  BY <1>1, KeyTypes, HoldersDiffer, ConstantsAssumption DEF LockInv, RoutesHold, KeyOf
<1> QED
  BY <1>2, <1>3, <1>4 DEF LockInv

LEMMA RunnerStarts ==
  ASSUME TypeOK, LockInv, NEW p \in Procs, NEW j \in Jobs, Start(p, j)
  PROVE  LockInv'
<1> USE DEF Start, requestVars
<1>1. lock'[KeyOf(j)] = RunnerOf(p, j) /\ \A k \in Keys : lock[k] # Free => lock'[k] = lock[k]
  BY KeyTypes DEF TypeOK
<1>2. RunnersHold'
  BY <1>1, KeyTypes, HoldersDiffer DEF TypeOK, LockInv, RunnersHold, RunnerTo, KeyOf
<1>3. DirectsHold'
  BY <1>1, ConstantsAssumption, HoldersDiffer DEF LockInv, DirectsHold
<1>4. RoutesHold'
  BY <1>1, KeyTypes, HoldersDiffer, ConstantsAssumption DEF LockInv, RoutesHold, KeyOf
<1> QED
  BY <1>2, <1>3, <1>4 DEF LockInv

LEMMA RunnerLockSteps ==
  ASSUME TypeOK, LockInv, NEW p \in Procs, NEW j \in Jobs, RunnerStep(p, j)
  PROVE  LockInv'
<1> USE DEF requestVars, Phases, Running
<1>1. CASE Start(p, j)
  BY <1>1, RunnerStarts
<1>2. CASE Release(p, j)
  BY <1>2, RunnerReleases DEF Release
<1>3. CASE StartBusy(p, j) \/ ClaimRefused(p, j) \/ Claim(p, j) \/ ClaimFails(p, j)
  BY <1>3, RunnerMoves DEF StartBusy, ClaimRefused, Claim, ClaimFails
<1>4. CASE Heartbeat(p, j) \/ ScanFails(p, j) \/ ScanDone(p, j)
  BY <1>4, RunnerMoves DEF Heartbeat, ScanFails, ScanDone
<1>5. CASE Commit(p, j) \/ CommitRejected(p, j) \/ CommitFails(p, j)
  BY <1>5, RunnerMoves DEF Commit, CommitRejected, CommitFails
<1>6. CASE Fail(p, j) \/ FailRejected(p, j) \/ FailFails(p, j)
  BY <1>6, RunnerMoves DEF Fail, FailRejected, FailFails
<1>7. CASE StartFails(p, j)
  <2>1. \A p2 \in Procs, j2 \in Jobs : runner'[p2][j2] \in Running => runner[p2][j2] \in Running
    BY <1>7 DEF TypeOK, StartFails, RunnerTo
  <2>2. \A k \in Keys : lock[k] # Free => lock'[k] = lock[k]
    BY <1>7 DEF TypeOK, StartFails, LockAnswerLost
  <2>3. RunnersHold' /\ DirectsHold' /\ RoutesHold'
    BY <1>7, <2>1, <2>2, KeyTypes, HoldersDiffer, ConstantsAssumption
       DEF StartFails, LockInv, RunnersHold, DirectsHold, RoutesHold, KeyOf
  <2> QED
    BY <2>3 DEF LockInv
<1> QED
  BY <1>1, <1>2, <1>3, <1>4, <1>5, <1>6, <1>7 DEF RunnerStep

(* A request moves and keeps its lock, or had none to keep.                  *)
LEMMA RouteMoves ==
  ASSUME TypeOK, LockInv, UNCHANGED <<lock, runner, direct>>,
         NEW p \in Procs \cup {NoWorker}, NEW j \in Jobs,
         NEW at \in {"insert", "enqueue", "undo", "done"}, Route(j, p, at),
         j \in Admitted /\ at # "done" => route[j].at \in HoldsRoute /\ p = route[j].proc
  PROVE  LockInv'
<1>1. RunnersHold' /\ DirectsHold'
  BY DEF LockInv, RunnersHold, DirectsHold, KeyOf
<1>2. RoutesHold'
  BY ConstantsAssumption DEF TypeOK, LockInv, RoutesHold, Route, KeyOf, HoldsRoute
<1> QED
  BY <1>1, <1>2 DEF LockInv

LEMMA RouteReleases ==
  ASSUME TypeOK, LockInv, UNCHANGED direct, NEW p \in Procs, NEW j \in Jobs,
         \A p2 \in Procs, i \in Jobs : runner'[p2][i] \in Running => runner[p2][i] \in Running,
         route[j].proc = p, Route(j, NoWorker, "done"),
         GiveBack(KeyOf(j), RouteOf(p, j)) \/ Unlock(KeyOf(j), RouteOf(p, j)) \/ LeaveLocked(KeyOf(j), RouteOf(p, j))
  PROVE  LockInv'
<1>1. \A k \in Keys : lock[k] # RouteOf(p, j) => lock'[k] = lock[k]
  BY DEF TypeOK, GiveBack, Unlock, LeaveLocked
<1>2. RunnersHold'
  BY <1>1, KeyTypes, HoldersDiffer DEF LockInv, RunnersHold, KeyOf
<1>3. DirectsHold'
  BY <1>1, ConstantsAssumption, HoldersDiffer DEF LockInv, DirectsHold
<1>4. RoutesHold'
  BY <1>1, KeyTypes, HoldersDiffer, ConstantsAssumption
     DEF TypeOK, LockInv, RoutesHold, Route, KeyOf, HoldsRoute
<1> QED
  BY <1>2, <1>3, <1>4 DEF LockInv

LEMMA RouteLocks ==
  ASSUME TypeOK, LockInv, NEW p \in Procs, NEW j \in Jobs, RouteLock(p, j)
  PROVE  LockInv'
<1> USE DEF RouteLock, memoryVars
<1>1. lock'[KeyOf(j)] = RouteOf(p, j) /\ \A k \in Keys : lock[k] # Free => lock'[k] = lock[k]
  BY KeyTypes DEF TypeOK
<1>2. RunnersHold'
  BY <1>1, KeyTypes, HoldersDiffer DEF LockInv, RunnersHold, KeyOf
<1>3. DirectsHold'
  BY <1>1, ConstantsAssumption, HoldersDiffer DEF LockInv, DirectsHold
<1>4. RoutesHold'
  BY <1>1, KeyTypes, HoldersDiffer, ConstantsAssumption
     DEF TypeOK, LockInv, RoutesHold, Route, KeyOf
<1> QED
  BY <1>2, <1>3, <1>4 DEF LockInv

LEMMA RouteLockSteps ==
  ASSUME TypeOK, LockInv, NEW p \in Procs, NEW j \in Jobs,
         RouteOrPush(p, j)
  PROVE  LockInv'
<1> USE DEF memoryVars
<1>1. CASE RouteReuse(p, j) \/ RouteInsertFails(p, j)
  BY <1>1, RouteReleases DEF RouteReuse, RouteInsertFails
<1>2. CASE RouteEnqueue(p, j)
  BY <1>2, RouteReleases, EnqueueRunning DEF RouteEnqueue
<1>3. CASE RouteAdmit(p, j) \/ RouteInsert(p, j)
  BY <1>3, RouteMoves DEF RouteAdmit, RouteInsert, HoldsRoute
<1>4. CASE PushInsert(p, j) \/ PushInsertFails(p, j) \/ PushAnswerLost(p, j) \/ PushUndo(p, j)
  BY <1>4, RouteMoves DEF PushInsert, PushInsertFails, PushAnswerLost, PushUndo
<1>5. CASE PushEnqueue(p, j)
  <2>1. \A p2 \in Procs, i \in Jobs : runner'[p2][i] \in Running => runner[p2][i] \in Running
    BY <1>5, EnqueueRunning DEF PushEnqueue
  <2>2. RunnersHold' /\ DirectsHold'
    BY <1>5, <2>1 DEF PushEnqueue, LockInv, RunnersHold, DirectsHold, KeyOf
  <2>3. RoutesHold'
    BY <1>5, ConstantsAssumption DEF PushEnqueue, TypeOK, LockInv, RoutesHold, Route, KeyOf
  <2> QED
    BY <2>2, <2>3 DEF LockInv
<1>6. CASE RouteLock(p, j)
  BY <1>6, RouteLocks
<1>7. CASE RouteLockFails(p, j)
  <2>1. \A k \in Keys : lock[k] # Free => lock'[k] = lock[k]
    BY <1>7 DEF TypeOK, RouteLockFails, LockAnswerLost
  <2>2. RunnersHold' /\ DirectsHold'
    BY <1>7, <2>1, KeyTypes, HoldersDiffer, ConstantsAssumption
       DEF RouteLockFails, LockInv, RunnersHold, DirectsHold, KeyOf
  <2>3. \A i \in Jobs : route'[i].at \in HoldsRoute => route'[i] = route[i]
    BY <1>7 DEF RouteLockFails, TypeOK, Route, HoldsRoute
  <2>4. RoutesHold'
    BY <2>1, <2>3, KeyTypes, HoldersDiffer, ConstantsAssumption DEF LockInv, RoutesHold, KeyOf
  <2> QED
    BY <2>2, <2>4 DEF LockInv
<1> QED
  BY <1>1, <1>2, <1>3, <1>4, <1>5, <1>6, <1>7 DEF RouteOrPush

LEMMA DirectLockSteps ==
  ASSUME TypeOK, LockInv, NEW p \in Procs, NEW q \in Projects,
         DirectLock(p, q) \/ DirectStart(p, q) \/ DirectEnds(p, q) \/ DirectCommit(p, q)
  PROVE  LockInv'
<1> USE DEF memoryVars
<1>1. UNCHANGED <<runner, route>>
  BY DEF DirectLock, DirectStart, DirectEnds, DirectCommit
<1>2. CASE DirectStart(p, q) \/ DirectCommit(p, q)
  <2>1. \A p2 \in Procs, q2 \in Projects : direct'[p2][q2] # "idle" => direct[p2][q2] # "idle"
    <3>1. direct \in [Procs -> [Projects -> {"idle", "check", "scan", "release"}]]
      BY DEF TypeOK
    <3>2. PICK at \in {"scan", "release"} : direct' = [direct EXCEPT ![p][q] = at]
      BY <1>2 DEF DirectStart, DirectCommit
    <3>3. direct[p][q] # "idle"
      BY <1>2 DEF DirectStart, DirectCommit
    <3> QED
      BY <3>1, <3>2, <3>3
  <2> QED
    BY <1>1, <1>2, <2>1
       DEF DirectStart, DirectCommit, LockInv, RunnersHold, DirectsHold, RoutesHold, KeyOf
<1>3. CASE DirectLock(p, q) \/ DirectEnds(p, q)
  <2>1. \A k \in Keys : lock[k] \notin {Free, DirectOf(p, q)} => lock'[k] = lock[k]
    BY <1>3, ConstantsAssumption DEF DirectLock, DirectEnds, GiveBack, Unlock, LeaveLocked, TypeOK
  <2>2. RunnersHold'
    BY <1>1, <2>1, KeyTypes, HoldersDiffer DEF LockInv, RunnersHold, KeyOf
  <2>3. RoutesHold'
    BY <1>1, <2>1, KeyTypes, HoldersDiffer, ConstantsAssumption DEF LockInv, RoutesHold, KeyOf
  <2>4. direct \in [Procs -> [Projects -> {"idle", "check", "scan", "release"}]]
    BY DEF TypeOK
  <2>5. CASE DirectLock(p, q)
    <3>1. lock'[LockKey[q]] = DirectOf(p, q) /\ lock[LockKey[q]] = Free
      BY <2>5, ConstantsAssumption DEF DirectLock, TypeOK
    <3>2. \A p2 \in Procs, q2 \in Projects :
            direct'[p2][q2] # "idle" => (p2 = p /\ q2 = q) \/ direct[p2][q2] # "idle"
      BY <2>4, <2>5 DEF DirectLock
    <3>3. \A p2 \in Procs, q2 \in Projects :
            direct[p2][q2] # "idle" => lock'[LockKey[q2]] = DirectOf(p2, q2)
      BY <2>5, <3>1, ConstantsAssumption, HoldersDiffer DEF LockInv, DirectsHold, DirectLock, TypeOK
    <3>4. DirectsHold'
      BY <3>1, <3>2, <3>3 DEF DirectsHold
    <3> QED
      BY <2>2, <2>3, <3>4 DEF LockInv
  <2>6. CASE DirectEnds(p, q)
    <3>1. \A p2 \in Procs, q2 \in Projects :
            direct'[p2][q2] # "idle" => (p2 # p \/ q2 # q) /\ direct[p2][q2] # "idle"
      BY <2>4, <2>6 DEF DirectEnds
    <3>2. DirectsHold'
      BY <2>1, <3>1, ConstantsAssumption, HoldersDiffer DEF LockInv, DirectsHold
    <3> QED
      BY <2>2, <2>3, <3>2 DEF LockInv
  <2> QED
    BY <1>3, <2>5, <2>6
<1> QED
  BY <1>2, <1>3

LEMMA RecoveryLockSteps ==
  ASSUME TypeOK, LockInv, RecoveryStep
  PROVE  LockInv'
<1> USE DEF requestVars
<1>1. ASSUME NEW p \in Procs, Dispatch(p) \/ RequeuePending(p) PROVE LockInv'
  BY <1>1, EnqueueRunning, LockUntouched DEF Dispatch, RequeuePending
<1>2. ASSUME NEW p \in Procs, SweepRead(p) \/ SweepFails(p) PROVE LockInv'
  BY <1>2, LockUntouched DEF SweepRead, SweepFails
<1>3. ASSUME NEW p \in Procs, NEW j \in Jobs, TimerFires(p, j) PROVE LockInv'
  BY <1>3, EnqueueRunning, LockUntouched DEF TimerFires
<1>4. ASSUME NEW p \in Procs, NEW j \in Jobs, NEW r \in 0..MaxRetries, SweepStep(p, j, r) PROVE LockInv'
  BY <1>4, EnqueueRunning, LockUntouched DEF SweepStep, SweepRequeue, SweepFail, SweepSkip
<1> QED
  BY <1>1, <1>2, <1>3, <1>4 DEF RecoveryStep

LEMMA CrashLocks ==
  ASSUME TypeOK, LockInv, NEW p \in Procs, Crash(p)
  PROVE  LockInv'
<1>1. \A k \in Keys : HolderProc(lock[k]) # p => lock'[k] = lock[k]
  BY DEF Crash
<1>2. \A p2 \in Procs, j \in Jobs :
        runner'[p2][j] \in Running => p2 # p /\ runner[p2][j] \in Running
  BY DEF Crash, TypeOK, Running
<1>3. \A p2 \in Procs, q \in Projects :
        direct'[p2][q] # "idle" => p2 # p /\ direct[p2][q] # "idle"
  BY DEF Crash, TypeOK
<1>4. \A j \in Jobs : route'[j].at \in HoldsRoute => route[j].proc # p /\ route'[j] = route[j]
  BY DEF Crash, HoldsRoute
<1>5. RunnersHold'
  BY <1>1, <1>2, KeyTypes, HolderProcs DEF LockInv, RunnersHold, KeyOf
<1>6. DirectsHold'
  BY <1>1, <1>3, ConstantsAssumption, HolderProcs DEF LockInv, DirectsHold
<1>7. RoutesHold'
  BY <1>1, <1>4, KeyTypes, ConstantsAssumption, HolderProcs DEF LockInv, RoutesHold, KeyOf
<1> QED
  BY <1>5, <1>6, <1>7 DEF LockInv

LEMMA EnvironmentLockSteps ==
  ASSUME "session" \notin Faults, TypeOK, LockInv, EnvironmentStep
  PROVE  LockInv'
<1> USE DEF requestVars, memoryVars
<1>1. CASE \E j \in Jobs : LeaseExpires(j)
  BY <1>1, LockUntouched DEF LeaseExpires
<1>2. ASSUME NEW p \in Procs, Restart(p) PROVE LockInv'
  BY <1>2, LockUntouched DEF Restart
<1>3. ASSUME NEW k \in Keys, SessionEnds(k) PROVE LockInv'
  <2>1. \A k2 \in Keys : lock[k2] # Orphan => lock'[k2] = lock[k2]
    BY <1>3 DEF SessionEnds, TypeOK
  <2> QED
    BY <1>3, <2>1, KeyTypes, HoldersDiffer, ConstantsAssumption
       DEF SessionEnds, LockInv, RunnersHold, DirectsHold, RoutesHold, KeyOf
<1>4. ASSUME NEW k \in Keys, SessionLost(k) PROVE FALSE
  BY <1>4 DEF SessionLost, Inject
<1> QED
  BY <1>1, <1>2, <1>3, <1>4, CrashLocks DEF EnvironmentStep

LEMMA LockStep ==
  ASSUME "session" \notin Faults, TypeOK, LockInv, [Next]_vars
  PROVE  LockInv'
<1>1. CASE UNCHANGED vars
  BY <1>1, LockUntouched DEF vars, requestVars, memoryVars
<1>2. CASE RequestStep
  BY <1>2, RouteLockSteps, DirectLockSteps DEF RequestStep, RouteOrPush
<1>3. CASE \E p \in Procs, j \in Jobs : RunnerStep(p, j)
  BY <1>3, RunnerLockSteps
<1> QED
  BY <1>1, <1>2, <1>3, RecoveryLockSteps, EnvironmentLockSteps DEF Next

LEMMA LockInvariant == "session" \notin Faults /\ Spec => []LockInv
<1> SUFFICES ASSUME "session" \notin Faults PROVE Spec => []LockInv
  OBVIOUS
<1>1. Init => LockInv
  BY ConstantsAssumption DEF Init, LockInv, RunnersHold, DirectsHold, RoutesHold, Running, HoldsRoute
<1>2. TypeOK /\ LockInv /\ [Next]_vars => LockInv'
  BY LockStep
<1> QED
  BY <1>1, <1>2, TypeCorrect, PTL DEF Spec

(* SR-002: at most one scan of a project is in progress across all           *)
(* processes, direct scans included, whatever leases expire and whichever    *)
(* processes crash.                                                          *)
THEOREM OneScan == "session" \notin Faults /\ Spec => []OneScanPerProject
<1>1. LockInv => OneScanPerProject
  <2> SUFFICES ASSUME LockInv, NEW q \in Projects, NEW a \in Scanners(q)
               PROVE  a = lock[LockKey[q]]
    BY DEF OneScanPerProject
  <2> QED
    BY DEF Scanners, LockInv, RunnersHold, DirectsHold, Running, KeyOf
<1> QED
  BY <1>1, LockInvariant, PTL

-----------------------------------------------------------------------------
(* Admission.                                                                *)

\* Between the check and the insert no other admitted job of the project becomes active.
AdmissionOpen ==
  \A i \in Admitted :
    route[i].at = "insert" => ActiveJobs(ProjectOf[i]) \cap Admitted = {}

AdmissionInv == AdmissionOpen /\ OneAdmittedJobPerProject

Admits(i) == ActiveJobs(ProjectOf[i]) = {} /\ UNCHANGED status

LEMMA RouteAdmits ==
  ASSUME TypeOK, [Next]_vars, NEW i \in Jobs, route'[i].at = "insert"
  PROVE  route[i].at = "insert" \/ Admits(i)
<1>1. ASSUME NEW p \in Procs, NEW j \in Jobs, RouteAdmit(p, j)
      PROVE  route[i].at = "insert" \/ Admits(i)
  <2>1. i = j \/ route'[i] = route[i]
    BY <1>1 DEF RouteAdmit, Route, TypeOK
  <2> QED
    BY <1>1, <2>1 DEF RouteAdmit, rowVars, Admits
<1>2. ASSUME NEW p \in Procs \cup {NoWorker}, NEW j \in Jobs,
             NEW at \in {"check", "enqueue", "undo", "done"}, Route(j, p, at)
      PROVE  route[i].at = "insert"
  BY <1>2 DEF Route, TypeOK
<1>3. ASSUME NEW p \in Procs, NEW j \in Jobs, RouteOrPush(p, j), ~RouteAdmit(p, j)
      PROVE  route[i].at = "insert"
  BY <1>2, <1>3
     DEF RouteOrPush, RouteLock, RouteLockFails, RouteReuse, RouteInsert, RouteInsertFails, RouteEnqueue,
         PushInsert, PushEnqueue, PushInsertFails, PushAnswerLost, PushUndo
<1>4. ASSUME UNCHANGED route PROVE route[i].at = "insert"
  BY <1>4
<1>5. ASSUME NEW p \in Procs, Crash(p) PROVE route[i].at = "insert"
  <2>1. route'[i] = route[i] \/ route'[i].at = "done"
    BY <1>5 DEF Crash
  <2> QED
    BY <2>1
<1> QED
  BY <1>1, <1>3, <1>4, <1>5, WhoMovesRoutes

\* Which rows are active, but for one insert, only shrinks.
LEMMA ActiveSteps ==
  ASSUME TypeOK, RowStep
  PROVE  \/ \A i \in Jobs : status'[i] \in Active => status[i] \in Active
         \/ \E j \in Jobs : /\ j \in Admitted => route[j].at = "insert"
                           /\ route'[j].at # "insert"
                           /\ \A i \in Jobs \ {j} : status'[i] = status[i]
<1> USE DEF Active
<1>1. CASE KeepsRows
  BY <1>1 DEF KeepsRows
<1>2. ASSUME NEW j \in Jobs, Inserts(j)
      PROVE  /\ j \in Admitted => route[j].at = "insert"
             /\ route'[j].at # "insert"
             /\ \A i \in Jobs \ {j} : status'[i] = status[i]
  BY <1>2 DEF Inserts, InsertRow, TypeOK
<1>3. ASSUME NEW j \in Jobs, Claims(j) \/ Requeues(j) \/ Fails(j) \/ Undoes(j) \/ \E p \in Procs : Completes(p, j)
      PROVE  \A i \in Jobs : status'[i] \in Active => status[i] \in Active
  BY <1>3 DEF Claims, Requeues, Fails, Undoes, Completes, PersistScan, PersistFailure, EndRow, TypeOK
<1> QED
  BY <1>1, <1>2, <1>3 DEF RowStep

LEMMA AdmissionStep ==
  ASSUME TypeOK, LockInv, AdmissionInv, [Next]_vars
  PROVE  AdmissionInv'
<1>1. RowStep
  BY RowSteps
<1>2. ASSUME NEW i \in Admitted, route'[i].at = "insert"
      PROVE  route[i].at = "insert" \/ Admits(i)
  <2>1. i \in Jobs
    BY ConstantsAssumption
  <2> QED
    BY <1>2, <2>1, RouteAdmits
<1>3. ASSUME \A i \in Jobs : status'[i] \in Active => status[i] \in Active
      PROVE  AdmissionInv'
  <2>1. AdmissionOpen'
    BY <1>2, <1>3 DEF AdmissionInv, AdmissionOpen, Admits, ActiveJobs
  <2>2. OneAdmittedJobPerProject'
    BY <1>3 DEF AdmissionInv, OneAdmittedJobPerProject, ActiveJobs
  <2> QED
    BY <2>1, <2>2 DEF AdmissionInv
<1>4. ASSUME NEW j \in Jobs, j \in Admitted => route[j].at = "insert", route'[j].at # "insert",
             \A i \in Jobs \ {j} : status'[i] = status[i]
      PROVE  AdmissionInv'
  <2>1. ASSUME j \in Admitted, NEW i \in Admitted, route[i].at = "insert", ProjectOf[i] = ProjectOf[j]
        PROVE  i = j
    <3>1. /\ route[i].proc \in Procs /\ lock[KeyOf(i)] = RouteOf(route[i].proc, i)
          /\ route[j].proc \in Procs /\ lock[KeyOf(j)] = RouteOf(route[j].proc, j)
      BY <1>4, <2>1 DEF LockInv, RoutesHold, HoldsRoute
    <3>2. KeyOf(i) = KeyOf(j) /\ i \in Jobs
      BY <2>1, ConstantsAssumption DEF KeyOf
    <3> QED
      BY <3>1, <3>2, HoldersDiffer
  <2>2. AdmissionOpen'
    <3> SUFFICES ASSUME NEW i \in Admitted, route'[i].at = "insert",
                        NEW k \in Admitted, ProjectOf[k] = ProjectOf[i], status'[k] \in Active
                 PROVE  FALSE
      BY DEF AdmissionOpen, ActiveJobs
    <3>1. i # j /\ i \in Jobs /\ k \in Jobs
      BY <1>4, ConstantsAssumption
    <3>2. route[i].at = "insert" \/ Admits(i)
      BY <1>2
    <3>3. CASE k = j
      BY <1>4, <2>1, <3>1, <3>2, <3>3 DEF Admits, ActiveJobs
    <3>4. CASE k # j
      BY <1>4, <3>1, <3>2, <3>4 DEF AdmissionInv, AdmissionOpen, Admits, ActiveJobs
    <3> QED
      BY <3>3, <3>4
  <2>3. OneAdmittedJobPerProject'
    <3> SUFFICES ASSUME NEW i \in Admitted, NEW k \in Admitted, i # k, ProjectOf[i] = ProjectOf[k],
                        status'[i] \in Active, status'[k] \in Active
                 PROVE  FALSE
      BY DEF OneAdmittedJobPerProject, ActiveJobs
    <3>1. i \in Jobs /\ k \in Jobs
      BY ConstantsAssumption
    <3>2. CASE i # j /\ k # j
      BY <1>4, <3>1, <3>2, ConstantsAssumption
         DEF AdmissionInv, OneAdmittedJobPerProject, ActiveJobs
    <3>3. CASE i = j \/ k = j
      BY <1>4, <3>1, <3>3 DEF AdmissionInv, AdmissionOpen, ActiveJobs
    <3> QED
      BY <3>2, <3>3
  <2> QED
    BY <2>2, <2>3 DEF AdmissionInv
<1> QED
  BY <1>1, <1>3, <1>4, ActiveSteps

LEMMA AdmissionInvariant == "session" \notin Faults /\ Spec => []AdmissionInv
<1>1. Init => AdmissionInv
  BY ConstantsAssumption DEF Init, AdmissionInv, AdmissionOpen, OneAdmittedJobPerProject, ActiveJobs, Active
<1>2. TypeOK /\ LockInv /\ AdmissionInv /\ [Next]_vars => AdmissionInv'
  BY AdmissionStep
<1> QED
  BY <1>1, <1>2, LockInvariant, TypeCorrect, PTL DEF Spec

(* POST /scan never leaves two active jobs of its making on one project, for *)
(* any number of processes and requests, with crashes, database faults and   *)
(* recovery under way: the check and the insert are one under the lock.      *)
THEOREM AdmitsOne == "session" \notin Faults /\ Spec => []OneAdmittedJobPerProject
<1>1. AdmissionInv => OneAdmittedJobPerProject
  BY DEF AdmissionInv
<1> QED
  BY <1>1, AdmissionInvariant, PTL


(* Both together: a project has one scan and one job that was asked for.     *)
THEOREM OneScanAndJob == "session" \notin Faults /\ Spec => []OneAtATime
BY OneScan, AdmitsOne, PTL DEF OneAtATime

-----------------------------------------------------------------------------
(* What a project shows.  A push queues a job next to others, and a session  *)
(* that is lost lets a direct scan run next to a job; either ends while the  *)
(* other goes on, so what follows has neither.                               *)

\* A direct scan has the project to itself until it commits.
DirectsAlone ==
  \A p \in Procs, q \in Projects : direct[p][q] = "scan" => ActiveJobs(q) \cap Admitted = {}

\* A direct scan starts when no job of its project is active.
DirectStarts(p, q) == ActiveJobs(q) = {} /\ UNCHANGED status

LEMMA DirectSteps ==
  ASSUME TypeOK, [Next]_vars, NEW p \in Procs, NEW q \in Projects, direct'[p][q] = "scan"
  PROVE  direct[p][q] = "scan" \/ DirectStarts(p, q)
<1> USE DEF requestVars
<1>1. ASSUME UNCHANGED direct PROVE direct[p][q] = "scan"
  BY <1>1
<1>2. ASSUME NEW p2 \in Procs, NEW q2 \in Projects,
             DirectLock(p2, q2) \/ DirectEnds(p2, q2) \/ DirectCommit(p2, q2)
      PROVE  direct[p][q] = "scan"
  <2>1. PICK at \in {"check", "idle", "release"} : direct' = [direct EXCEPT ![p2][q2] = at]
    BY <1>2 DEF DirectLock, DirectEnds, DirectCommit
  <2>2. direct \in [Procs -> [Projects -> {"idle", "check", "scan", "release"}]]
    BY DEF TypeOK
  <2> QED
    BY <2>1, <2>2
<1>3. ASSUME NEW p2 \in Procs, NEW q2 \in Projects, DirectStart(p2, q2)
      PROVE  direct[p][q] = "scan" \/ DirectStarts(p, q)
  BY <1>3 DEF DirectStart, DirectStarts, TypeOK, rowVars
<1>4. ASSUME NEW p2 \in Procs, Crash(p2) PROVE direct[p][q] = "scan"
  BY <1>4 DEF Crash, TypeOK
<1>5. ASSUME NEW p2 \in Procs, NEW j \in Jobs, RunnerStep(p2, j) PROVE UNCHANGED direct
  BY <1>5 DEF RunnerStep, Start, StartBusy, StartFails, Claim, ClaimRefused, ClaimFails, Heartbeat, ScanFails,
     ScanDone, Commit, CommitRejected, CommitFails, Fail, FailRejected, FailFails, Release
<1>6. ASSUME RecoveryStep PROVE UNCHANGED direct
  <2>1. ASSUME NEW p2 \in Procs, Dispatch(p2) \/ RequeuePending(p2) \/ SweepRead(p2) \/ SweepFails(p2)
        PROVE  UNCHANGED direct
    BY <2>1 DEF Dispatch, RequeuePending, SweepRead, SweepFails
  <2>2. ASSUME NEW p2 \in Procs, NEW j \in Jobs, TimerFires(p2, j) PROVE UNCHANGED direct
    BY <2>2 DEF TimerFires
  <2>3. ASSUME NEW p2 \in Procs, NEW j \in Jobs, NEW r \in 0..MaxRetries, SweepStep(p2, j, r)
        PROVE  UNCHANGED direct
    BY <2>3 DEF SweepStep, SweepRequeue, SweepFail, SweepSkip
  <2> QED
    BY <1>6, <2>1, <2>2, <2>3 DEF RecoveryStep
<1>7. ASSUME EnvironmentStep PROVE UNCHANGED direct \/ \E p2 \in Procs : Crash(p2)
  BY <1>7 DEF EnvironmentStep, LeaseExpires, Restart, SessionEnds, SessionLost
<1>8. ASSUME NEW p2 \in Procs, NEW j \in Jobs, RouteOrPush(p2, j) PROVE UNCHANGED direct
  BY <1>8 DEF RouteOrPush, RouteLock, RouteLockFails, RouteReuse, RouteAdmit, RouteInsert, RouteInsertFails,
     RouteEnqueue, PushInsert, PushEnqueue, PushInsertFails, PushAnswerLost, PushUndo
<1> QED
  BY <1>1, <1>2, <1>3, <1>4, <1>5, <1>6, <1>7, <1>8 DEF Next, RequestStep, RouteOrPush, vars

LEMMA DirectsStep ==
  ASSUME TypeOK, LockInv, DirectsAlone, [Next]_vars
  PROVE  DirectsAlone'
<1> SUFFICES ASSUME NEW p \in Procs, NEW q \in Projects, direct'[p][q] = "scan",
                    NEW i \in Admitted, ProjectOf[i] = q, status'[i] \in Active
             PROVE  FALSE
  BY DEF DirectsAlone, ActiveJobs
<1>1. i \in Jobs
  BY ConstantsAssumption
<1>2. direct[p][q] = "scan" \/ DirectStarts(p, q)
  BY DirectSteps
<1>3. status[i] \notin Active
  BY <1>1, <1>2 DEF DirectsAlone, DirectStarts, ActiveJobs
<1>4. direct[p][q] = "scan"
  BY <1>2, <1>3 DEF DirectStarts
<1>5. route[i].at = "insert"
  BY <1>1, <1>3, RowSteps, ActiveSteps
<1>6. lock[KeyOf(i)] = RouteOf(route[i].proc, i) /\ route[i].proc \in Procs
  BY <1>5 DEF LockInv, RoutesHold, HoldsRoute
<1>7. lock[LockKey[q]] = DirectOf(p, q)
  BY <1>4 DEF LockInv, DirectsHold
<1> QED
  BY <1>1, <1>6, <1>7, HoldersDiffer DEF KeyOf

LEMMA ShowsStep ==
  ASSUME Admitted = Jobs, TypeOK, AdmissionInv, DirectsAlone, RequestInv, ActiveJobShows, [Next]_vars
  PROVE  ActiveJobShows'
<1> SUFFICES ASSUME NEW i \in Jobs, status'[i] \in Active PROVE project'[ProjectOf[i]] = "scanning"
  BY DEF ActiveJobShows
<1>1. ProjectOf[i] \in Projects
  BY ConstantsAssumption
<1>2. status[i] \in Active => project[ProjectOf[i]] = "scanning"
  BY DEF ActiveJobShows
<1>3. CASE KeepsRows
  <2>1. project' # project => \E p \in Procs, q \in Projects : direct[p][q] = "scan" /\ ShowActive(q)
    BY <1>3 DEF KeepsRows
  <2>2. ASSUME NEW p \in Procs, NEW q \in Projects, direct[p][q] = "scan" PROVE q # ProjectOf[i]
    BY <1>3, <2>2 DEF KeepsRows, DirectsAlone, ActiveJobs
  <2> QED
    BY <1>1, <1>2, <1>3, <2>1, <2>2 DEF KeepsRows, ShowActive, TypeOK
<1>4. ASSUME NEW j \in Jobs, Inserts(j) PROVE project'[ProjectOf[i]] = "scanning"
  BY <1>1, <1>2, <1>4 DEF Inserts, InsertRow, TypeOK
<1>5. ASSUME NEW j \in Jobs, Claims(j) \/ Requeues(j) PROVE project'[ProjectOf[i]] = "scanning"
  BY <1>2, <1>5 DEF Claims, Requeues, TypeOK, Active
<1>6. ASSUME NEW j \in Jobs, Fails(j) \/ \E p \in Procs : Completes(p, j)
      PROVE  project'[ProjectOf[i]] = "scanning"
  <2>1. /\ status[j] = "running" /\ status'[j] \in Terminal
        /\ \A k \in Jobs \ {j} : status'[k] = status[k]
        /\ ShowActive(ProjectOf[j])
    BY <1>6 DEF Fails, Completes, Abandoned, Owns, PersistFailure, PersistScan, EndRow, TypeOK, Terminal
  <2>2. i # j /\ status[i] \in Active
    BY <2>1 DEF Active, Terminal
  <2>3. ProjectOf[i] # ProjectOf[j]
    BY <1>1, <2>1, <2>2 DEF AdmissionInv, OneAdmittedJobPerProject, ActiveJobs, Active
  <2> QED
    BY <1>1, <1>2, <2>1, <2>2, <2>3 DEF ShowActive, TypeOK
<1>7. ASSUME NEW j \in Jobs, Undoes(j) PROVE FALSE
  BY <1>7 DEF Undoes, RequestInv, UndoesArePushes, MayUndo
<1> QED
  BY <1>3, <1>4, <1>5, <1>6, <1>7, RowSteps DEF RowStep

(* What a project shows and what its jobs are agree: a project whose scans   *)
(* are all asked for shows "scanning" exactly while one of them is to come   *)
(* or in progress, direct scans, crashes and recovery notwithstanding.       *)
THEOREM StatusIsTruthful ==
  Admitted = Jobs /\ "session" \notin Faults /\ Spec => []StatusTruthful
<1> SUFFICES ASSUME Admitted = Jobs, "session" \notin Faults PROVE Spec => []StatusTruthful
  OBVIOUS
<1>1. Init => DirectsAlone /\ ActiveJobShows
  BY DEF Init, DirectsAlone, ActiveJobShows, Active
<1>2. TypeOK /\ LockInv /\ DirectsAlone /\ [Next]_vars => DirectsAlone'
  BY DirectsStep
<1>3. TypeOK /\ AdmissionInv /\ DirectsAlone /\ RequestInv /\ ActiveJobShows /\ [Next]_vars => ActiveJobShows'
  BY ShowsStep
<1>4. StatusTruthful <=> ScanningHasActiveJob /\ ActiveJobShows
  BY DEF StatusTruthful
<1> QED
  BY <1>1, <1>2, <1>3, <1>4, ScanningIsBacked, LockInvariant, AdmissionInvariant, RequestInvariant, TypeCorrect, PTL DEF Spec

-----------------------------------------------------------------------------
(* The retry budget.  A sweep writes retry_count from the value it read, so  *)
(* sweeps of several processes may write over each other's counts.           *)

\* The attempt that a row which left the queue has used beyond its counted retries.
Unaccounted(j) == IF status[j] \in {"absent", "queued"} THEN 0 ELSE 1

\* Each attempt is the one in progress, a counted retry or one whose count was written over.
BudgetInv == \A j \in Jobs : attempts[j] <= retry[j] + Unaccounted(j) + lost[j]

\* No attempt begins, and no row goes back to the queue.
Settles ==
  /\ UNCHANGED <<retry, attempts, lost>>
  /\ \A j \in Jobs : status[j] \notin {"absent", "queued"} => status'[j] \notin {"absent", "queued"}

Begins(p, j) == status[j] = "queued" /\ ClaimRow(p, j) /\ UNCHANGED lost

LEMMA AttemptSteps ==
  ASSUME TypeOK, RequestInv, [Next]_vars
  PROVE  \/ Settles
         \/ \E p \in Procs, j \in Jobs : Begins(p, j) \/ \E r \in 0..MaxRetries : SweepRequeue(p, j, r)
<1> DEFINE Goal ==
      \/ Settles
      \/ \E p \in Procs, j \in Jobs : Begins(p, j) \/ \E r \in 0..MaxRetries : SweepRequeue(p, j, r)
<1> USE DEF rowVars, boundVars
<1>1. ASSUME UNCHANGED <<status, retry, attempts, lost>> PROVE Goal
  BY <1>1 DEF Settles
<1>2. ASSUME NEW j \in Jobs, UNCHANGED <<retry, attempts, lost>>, status[j] = "absent",
             status' = [status EXCEPT ![j] = "queued"]
      PROVE  Goal
  BY <1>2 DEF Settles, TypeOK
<1>3. ASSUME NEW j \in Jobs, UNCHANGED <<retry, attempts, lost>>, NEW s \in Terminal, status' = [status EXCEPT ![j] = s]
      PROVE  Goal
  BY <1>3 DEF Settles, TypeOK, Terminal
<1>4. ASSUME NEW p \in Procs, NEW j \in Jobs, RouteOrPush(p, j) PROVE Goal
  <2>1. CASE RouteLock(p, j) \/ RouteLockFails(p, j) \/ RouteReuse(p, j) \/ RouteAdmit(p, j)
    BY <1>1, <2>1 DEF RouteLock, RouteLockFails, RouteReuse, RouteAdmit, GiveBack, Inject
  <2>2. CASE RouteEnqueue(p, j) \/ PushEnqueue(p, j) \/ PushInsertFails(p, j)
    BY <1>1, <2>2 DEF RouteEnqueue, PushEnqueue, PushInsertFails, GiveBack, Inject
  <2>3. CASE RouteInsert(p, j) \/ RouteInsertFails(p, j) \/ PushInsert(p, j) \/ PushAnswerLost(p, j)
    <3>1. status[j] = "absent" /\ UNCHANGED <<attempts, lost>>
      BY <2>3 DEF RouteInsert, RouteInsertFails, PushInsert, PushAnswerLost, Inject, RequestInv, UnusedIds, Fresh
    <3>2. InsertRow(j) \/ UNCHANGED rowVars
      BY <2>3 DEF RouteInsert, RouteInsertFails, PushInsert, PushAnswerLost
    <3> QED
      BY <1>1, <1>2, <3>1, <3>2 DEF InsertRow
  <2>4. CASE PushUndo(p, j)
    BY <1>3, <2>4 DEF PushUndo, Terminal
  <2> QED
    BY <1>4, <2>1, <2>2, <2>3, <2>4 DEF RouteOrPush
<1>5. ASSUME NEW p \in Procs, NEW q \in Projects,
             DirectLock(p, q) \/ DirectStart(p, q) \/ DirectEnds(p, q) \/ DirectCommit(p, q)
      PROVE  Goal
  BY <1>1, <1>5 DEF DirectLock, DirectStart, DirectEnds, DirectCommit, GiveBack, Inject
<1>6. ASSUME NEW p \in Procs, NEW j \in Jobs, RunnerStep(p, j) PROVE Goal
  <2>1. CASE Start(p, j) \/ StartBusy(p, j) \/ StartFails(p, j) \/ ClaimRefused(p, j) \/ Heartbeat(p, j)
    BY <1>1, <2>1 DEF Start, StartBusy, StartFails, ClaimRefused, Heartbeat, Inject
  <2>2. CASE ScanFails(p, j) \/ ScanDone(p, j) \/ CommitRejected(p, j) \/ FailRejected(p, j) \/ FailFails(p, j) \/ Release(p, j)
    BY <1>1, <2>2 DEF ScanFails, ScanDone, CommitRejected, FailRejected, FailFails, Release, GiveBack, Inject
  <2>3. CASE Claim(p, j) \/ ClaimFails(p, j)
    BY <1>1, <2>3 DEF Claim, ClaimFails, Begins
  <2>4. CASE Commit(p, j) \/ CommitFails(p, j) \/ Fail(p, j)
    <3>1. UNCHANGED <<attempts, lost>> /\ (UNCHANGED rowVars \/ \E s \in Terminal : EndRow(j, s))
      BY <2>4 DEF Commit, CommitFails, Fail, Inject, PersistScan, PersistFailure, Terminal
    <3> QED
      BY <1>1, <1>3, <3>1 DEF EndRow
  <2> QED
    BY <1>6, <2>1, <2>2, <2>3, <2>4 DEF RunnerStep
<1>7. ASSUME RecoveryStep PROVE Goal
  <2>1. ASSUME NEW p \in Procs, Dispatch(p) \/ RequeuePending(p) \/ SweepRead(p) \/ SweepFails(p) PROVE Goal
    BY <1>1, <2>1 DEF Dispatch, RequeuePending, SweepRead, SweepFails, Inject
  <2>2. ASSUME NEW p \in Procs, NEW j \in Jobs, TimerFires(p, j) PROVE Goal
    BY <1>1, <2>2 DEF TimerFires
  <2>3. ASSUME NEW p \in Procs, NEW j \in Jobs, NEW r \in 0..MaxRetries, SweepFail(p, j, r) PROVE Goal
    BY <1>3, <2>3 DEF SweepFail, PersistFailure, EndRow, Terminal
  <2>4. ASSUME NEW p \in Procs, NEW j \in Jobs, NEW r \in 0..MaxRetries, SweepSkip(p, j, r) PROVE Goal
    BY <1>1, <2>4 DEF SweepSkip
  <2> QED
    BY <1>7, <2>1, <2>2, <2>3, <2>4 DEF RecoveryStep, SweepStep
<1>8. ASSUME EnvironmentStep PROVE Goal
  BY <1>1, <1>8 DEF EnvironmentStep, LeaseExpires, Crash, Restart, SessionEnds, SessionLost, Inject
<1> QED
  BY <1>1, <1>4, <1>5, <1>6, <1>7, <1>8 DEF Next, RequestStep, RouteOrPush, vars

LEMMA BudgetStep ==
  ASSUME TypeOK, RequestInv, BudgetInv, [Next]_vars
  PROVE  BudgetInv'
<1>1. /\ retry \in [Jobs -> 0..MaxRetries] /\ MaxRetries \in Nat
      /\ attempts \in [Jobs -> Nat] /\ lost \in [Jobs -> Nat] /\ status \in [Jobs -> Statuses]
  BY ConstantsAssumption DEF TypeOK
<1>2. \A i \in Jobs : attempts[i] <= retry[i] + Unaccounted(i) + lost[i]
  BY DEF BudgetInv
<1>3. CASE Settles
  <2> SUFFICES ASSUME NEW i \in Jobs PROVE attempts'[i] <= retry'[i] + Unaccounted(i)' + lost'[i]
    BY DEF BudgetInv
  <2>1. Unaccounted(i) <= Unaccounted(i)' /\ Unaccounted(i) \in Nat /\ Unaccounted(i)' \in Nat
    BY <1>3 DEF Settles, Unaccounted
  <2> QED
    BY <1>1, <1>2, <1>3, <2>1 DEF Settles
<1>4. ASSUME NEW p \in Procs, NEW j \in Jobs, Begins(p, j) PROVE BudgetInv'
  <2> SUFFICES ASSUME NEW i \in Jobs PROVE attempts'[i] <= retry'[i] + Unaccounted(i)' + lost'[i]
    BY DEF BudgetInv
  <2>1. CASE i = j
    <3>1. attempts[i] <= retry[i] + lost[i] /\ Unaccounted(i)' = 1
      BY <1>1, <1>2, <1>4, <2>1 DEF Begins, ClaimRow, Unaccounted
    <3>2. attempts'[i] = attempts[i] + 1 /\ retry'[i] = retry[i] /\ lost'[i] = lost[i]
      BY <1>1, <1>4, <2>1 DEF Begins, ClaimRow
    <3> QED
      BY <1>1, <3>1, <3>2
  <2>2. CASE i # j
    BY <1>1, <1>2, <1>4, <2>2 DEF Begins, ClaimRow, Unaccounted
  <2> QED
    BY <2>1, <2>2
<1>5. ASSUME NEW p \in Procs, NEW j \in Jobs, NEW r \in 0..MaxRetries, SweepRequeue(p, j, r) PROVE BudgetInv'
  <2>1. /\ retry' = [retry EXCEPT ![j] = r + 1] /\ status' = [status EXCEPT ![j] = "queued"]
        /\ lost' = [lost EXCEPT ![j] = @ + Overwritten(j, r)]
        /\ UNCHANGED attempts
    BY <1>5 DEF SweepRequeue
  <2>2. status[j] = "running"
    BY <1>5 DEF SweepRequeue, Abandoned
  <2> SUFFICES ASSUME NEW i \in Jobs PROVE attempts'[i] <= retry'[i] + Unaccounted(i)' + lost'[i]
    BY DEF BudgetInv
  <2>3. CASE i = j
    <3>1. attempts[i] <= retry[i] + 1 + lost[i] /\ Unaccounted(i)' = 0
      BY <1>1, <1>2, <2>1, <2>2, <2>3 DEF Unaccounted
    <3>2. retry[i] <= r + Overwritten(i, r) /\ Overwritten(i, r) \in Nat
      BY <1>1, <2>3 DEF Overwritten
    <3>3. retry'[i] = r + 1 /\ lost'[i] = lost[i] + Overwritten(i, r) /\ attempts'[i] = attempts[i]
      BY <1>1, <2>1, <2>3
    <3> HIDE DEF Overwritten
    <3> QED
      BY <1>1, <3>1, <3>2, <3>3
  <2>4. CASE i # j
    BY <1>1, <1>2, <2>1, <2>4 DEF Unaccounted
  <2> QED
    BY <2>3, <2>4
<1> QED
  BY <1>3, <1>4, <1>5, AttemptSteps

(* With any number of processes, a scan is attempted beyond the retries it   *)
(* is allowed only by as many times as a late sweep wrote over a counted     *)
(* retry, in whatever order timers, sweeps, claims, expiries and crashes     *)
(* come.                                                                     *)
THEOREM AttemptsAreAccounted == Spec => []AttemptsAccounted
<1>1. Init => BudgetInv
  BY DEF Init, BudgetInv, Unaccounted
<1>2. TypeOK /\ RequestInv /\ BudgetInv /\ [Next]_vars => BudgetInv'
  BY BudgetStep
<1>3. TypeOK /\ BudgetInv => AttemptsAccounted
  <2> SUFFICES ASSUME TypeOK, BudgetInv, NEW j \in Jobs PROVE attempts[j] <= MaxRetries + 1 + lost[j]
    BY DEF AttemptsAccounted
  <2>1. retry[j] \in 0..MaxRetries /\ MaxRetries \in Nat /\ attempts[j] \in Nat /\ lost[j] \in Nat
    BY ConstantsAssumption DEF TypeOK
  <2>2. attempts[j] <= retry[j] + Unaccounted(j) + lost[j] /\ Unaccounted(j) \in {0, 1}
    BY DEF BudgetInv, Unaccounted
  <2> QED
    BY <2>1, <2>2
<1> QED
  BY <1>1, <1>2, <1>3, RequestInvariant, TypeCorrect, PTL DEF Spec
=============================================================================
