------------------------ MODULE DiscoverySessions_proofs ------------------------
(***************************************************************************)
(* Proofs about DiscoverySessions.  A root that a clone was copied into    *)
(* belongs to one session for good: it is removed only when the request of *)
(* the session failed, when the session is collected, or after the project *)
(* that was made of it is deleted, and in none of these states can the     *)
(* session be imported (again).                                            *)
(***************************************************************************)
EXTENDS DiscoverySessions, TLAPS

Places == {"none", "queued", "claim", "work", "retire", "store", "fail", "release", "end"}
JobType == [at : Places, route : BOOLEAN, locked : BOOLEAN]

\* A row is there once its request has inserted it, only such a row gets old, and
\* a run is past its claim only when the row has been claimed.
RowInv ==
  /\ \A s \in Sessions : request[s] \in {"none", "resolved"} => status[s] = "none"
  /\ \A s \in old : status[s] # "none"
  /\ \A p \in Procs, s \in Sessions :
       job[p][s].at \in {"work", "retire", "store"} => status[s] \notin {"none", "pending"}

\* A session with a project, or one that had one, is not imported again.
ImportInv ==
  /\ \A s \in linked : status[s] = "imported"
  /\ \A s \in Sessions : made[s] <= 1 /\ (made[s] = 1 => status[s] \in {"imported", "deleted"})

\* The root of a clone is there while the session is ready, or may get so; when
\* it is a project's the session refers to the project, or was collected.
CloneInv ==
  \A s \in Cloned :
    /\ status[s] = "ready" => Root[s] \in roots
    /\ \A p \in Procs : status[s] = "discovering" /\ job[p][s].at \in {"retire", "store"} => Root[s] \in roots
    /\ Root[s] \in live => s \in linked \/ status[s] = "deleted"

\* What is being removed is no project's root and will never be one.
RemovalInv ==
  \A p \in Procs : \A r \in removing[p] \ Rescanned :
    r \notin live /\ \A s \in Cloned : Root[s] = r => status[s] \in {"imported", "deleted"}

IInv == TypeOK /\ RowInv /\ ImportInv /\ CloneInv /\ RemovalInv /\ ImportedRootStays
-----------------------------------------------------------------------------
(* A closure moves.                                                         *)

Jobs == [Procs -> [Sessions -> JobType]]

\* The closure of process p for session s is at a place, the others stay.
JobAt(p, s, at) ==
  /\ job' \in Jobs /\ job'[p][s].at = at
  /\ \A q \in Procs, t \in Sessions : q # p \/ t # s => job'[q][t] = job[q][t]

LEMMA JobSet ==
  ASSUME TypeOK, NEW p \in Procs, NEW s \in Sessions, NEW j \in JobType, job' = [job EXCEPT ![p][s] = j]
  PROVE  JobAt(p, s, j.at)
<1>1. job \in Jobs
  BY DEF TypeOK, Jobs, JobType, Places
<1> QED
  BY <1>1 DEF JobAt, Jobs

LEMMA JobRecords ==
  ASSUME NEW j \in JobType, NEW at \in Places
  PROVE  /\ [j EXCEPT !.at = at] \in JobType /\ [j EXCEPT !.at = at].at = at
         /\ \A b \in BOOLEAN : LET k == [[j EXCEPT !.at = at] EXCEPT !.locked = b]
                               IN  k \in JobType /\ k.at = at
<1> DEFINE i == [j EXCEPT !.at = at]
<1>1. i \in JobType /\ i.at = at
  BY DEF JobType
<1> HIDE DEF i
<1>2. \A b \in BOOLEAN : [i EXCEPT !.locked = b] \in JobType /\ [i EXCEPT !.locked = b].at = at
  BY <1>1 DEF JobType
<1> QED
  BY <1>1, <1>2 DEF i

LEMMA GoesTo ==
  ASSUME TypeOK, NEW p \in Procs, NEW s \in Sessions, NEW at \in Places
  PROVE  /\ Goes(p, s, at) => JobAt(p, s, at)
         /\ \A b \in BOOLEAN : job' = [job EXCEPT ![p][s].at = at, ![p][s].locked = b] => JobAt(p, s, at)
<1>1. job \in Jobs /\ job[p] \in [Sessions -> JobType] /\ job[p][s] \in JobType
  BY DEF TypeOK, Jobs, JobType, Places
<1>2. ASSUME Goes(p, s, at) PROVE JobAt(p, s, at)
  <2> DEFINE j == [job[p][s] EXCEPT !.at = at]
  <2>1. job' = [job EXCEPT ![p][s] = j]
    BY <1>1, <1>2 DEF Goes, Jobs
  <2>2. j \in JobType /\ j.at = at
    BY <1>1, JobRecords
  <2> HIDE DEF j
  <2> QED
    BY <2>1, <2>2, JobSet
<1>3. ASSUME NEW b \in BOOLEAN, job' = [job EXCEPT ![p][s].at = at, ![p][s].locked = b]
      PROVE  JobAt(p, s, at)
  <2> DEFINE j == [[job[p][s] EXCEPT !.at = at] EXCEPT !.locked = b]
  <2>1. job' = [job EXCEPT ![p] = [job[p] EXCEPT ![s] = j]]
    BY <1>1, <1>3 DEF Jobs
  <2>2. j \in JobType /\ j.at = at
    BY <1>1, JobRecords
  <2> HIDE DEF j
  <2>3. job' = [job EXCEPT ![p][s] = j]
    BY <1>1, <2>1 DEF Jobs
  <2> QED
    BY <2>2, <2>3, JobSet
<1> QED
  BY <1>2, <1>3

LEMMA Enqueued ==
  ASSUME TypeOK, NEW p \in Procs, NEW s \in Sessions, NEW route \in BOOLEAN, Enqueue(p, s, route)
  PROVE  UNCHANGED job \/ (job[p][s].at = "none" /\ JobAt(p, s, "queued"))
<1> DEFINE j == [NoJob EXCEPT !.at = "queued", !.route = route]
<1>1. NoJob \in JobType
  BY DEF NoJob, JobType, Places
<1>2. j \in JobType /\ j.at = "queued"
  BY <1>1 DEF JobType, Places
<1>3. \/ UNCHANGED job
      \/ job[p][s].at = "none" /\ job' = [job EXCEPT ![p][s] = j]
  BY DEF Enqueue
<1> HIDE DEF j
<1> QED
  BY <1>2, <1>3, JobSet

LEMMA Removed ==
  ASSUME TypeOK, NEW p \in Procs, NEW s \in Sessions, job' = [job EXCEPT ![p][s] = NoJob]
  PROVE  JobAt(p, s, "none")
<1>1. NoJob \in JobType /\ NoJob.at = "none"
  BY DEF NoJob, JobType, Places
<1> QED
  BY <1>1, JobSet
-----------------------------------------------------------------------------
(* Steps that leave the roots and the projects alone.                       *)

\* A root that was scanned by another session stays so.
LEMMA RescannedGrows ==
  ASSUME \A s \in Sessions : request[s] # "none" => request'[s] # "none"
  PROVE  Rescanned \subseteq Rescanned'
BY DEF Rescanned

\* What such a step may do to a closure, and to the status of a session.
JobMoves(q, t) ==
  /\ job'[q][t].at \in {"work", "retire", "store"} =>
       job[q][t].at \in {"work", "retire", "store"} \/ status'[t] = "discovering"
  /\ job'[q][t].at \in {"retire", "store"} =>
       job[q][t].at \in {"retire", "store"} \/ Root[t] \in roots

StatusMoves(t) ==
  \/ status'[t] = status[t]
  \/ status[t] = "pending" /\ status'[t] = "discovering"
  \/ status[t] = "discovering" /\ status'[t] = "error"
  \/ status[t] = "discovering" /\ status'[t] = "ready" /\ \E q \in Procs : job[q][t].at = "store"

QuietStep ==
  /\ TypeOK' /\ UNCHANGED <<linked, roots, live, made>>
  /\ \A t \in Sessions :
       /\ request[t] # "none" => request'[t] # "none"
       /\ request'[t] \in {"none", "resolved"} => request'[t] = request[t]
       /\ StatusMoves(t)
  /\ \A t \in old' : t \in old \/ status[t] # "none"
  /\ \A q \in Procs : removing'[q] \subseteq removing[q]
  /\ \A q \in Procs, t \in Sessions : JobMoves(q, t)

LEMMA Kept ==
  ASSUME IInv, QuietStep
  PROVE  IInv'
<1>1. TypeOK /\ TypeOK' /\ RowInv /\ ImportInv /\ CloneInv /\ RemovalInv /\ ImportedRootStays
  BY DEF IInv, QuietStep
<1>2. UNCHANGED <<linked, roots, live, made>>
  BY DEF QuietStep
<1>3. \A t \in Sessions : StatusMoves(t)
  BY DEF QuietStep
<1>4. \A q \in Procs, t \in Sessions : JobMoves(q, t)
  BY DEF QuietStep
<1>5. Rescanned \subseteq Rescanned'
  BY RescannedGrows DEF QuietStep
<1>6. old \subseteq Sessions /\ old' \subseteq Sessions /\ linked \subseteq Sessions
  BY <1>1 DEF TypeOK
<1>7. RowInv'
  <2>1. ASSUME NEW t \in Sessions, request'[t] \in {"none", "resolved"} PROVE status'[t] = "none"
    BY <1>1, <1>3, <2>1 DEF QuietStep, RowInv, StatusMoves
  <2>2. ASSUME NEW t \in old' PROVE status'[t] # "none"
    BY <1>1, <1>3, <1>6, <2>2 DEF QuietStep, RowInv, StatusMoves
  <2>3. ASSUME NEW q \in Procs, NEW t \in Sessions, job'[q][t].at \in {"work", "retire", "store"}
        PROVE  status'[t] \notin {"none", "pending"}
    BY <1>1, <1>3, <1>4, <2>3 DEF RowInv, StatusMoves, JobMoves
  <2> QED
    BY <2>1, <2>2, <2>3 DEF RowInv
<1>8. ImportInv'
  BY <1>1, <1>2, <1>3, <1>6 DEF ImportInv, StatusMoves
<1>9. CloneInv'
  <2>1. Cloned \subseteq Sessions
    BY ConstantsAssumption
  <2> SUFFICES ASSUME NEW s \in Cloned
               PROVE  /\ status'[s] = "ready" => Root[s] \in roots
                      /\ \A q \in Procs :
                           status'[s] = "discovering" /\ job'[q][s].at \in {"retire", "store"} =>
                             Root[s] \in roots
                      /\ Root[s] \in live => s \in linked \/ status'[s] = "deleted"
    BY <1>2 DEF CloneInv
  <2>2. s \in Sessions /\ StatusMoves(s)
    BY <1>3, <2>1
  <2>3. status'[s] = "ready" => Root[s] \in roots
    BY <1>1, <2>2 DEF CloneInv, StatusMoves
  <2>4. ASSUME NEW q \in Procs, status'[s] = "discovering", job'[q][s].at \in {"retire", "store"}
        PROVE  Root[s] \in roots
    <3>1. job[q][s].at \in {"retire", "store"} \/ Root[s] \in roots
      BY <1>4, <2>2, <2>4 DEF JobMoves
    <3>2. status[s] \in {"pending", "discovering"}
      BY <2>2, <2>4 DEF StatusMoves
    <3> QED
      BY <1>1, <2>2, <3>1, <3>2 DEF CloneInv, RowInv
  <2>5. Root[s] \in live => s \in linked \/ status'[s] = "deleted"
    BY <1>1, <2>2 DEF CloneInv, StatusMoves
  <2> QED
    BY <2>3, <2>4, <2>5
<1>10. RemovalInv'
  <2> SUFFICES ASSUME NEW q \in Procs, NEW r \in removing'[q] \ Rescanned'
               PROVE  /\ r \notin live
                      /\ \A s \in Cloned : Root[s] = r => status'[s] \in {"imported", "deleted"}
    BY <1>2 DEF RemovalInv
  <2>1. r \in removing[q] \ Rescanned
    BY <1>5 DEF QuietStep
  <2> QED
    BY <1>1, <1>3, <2>1, ConstantsAssumption DEF RemovalInv, StatusMoves
<1>11. ImportedRootStays'
  BY <1>1, <1>2, <1>5 DEF ImportedRootStays
<1> QED
  BY <1>1, <1>7, <1>8, <1>9, <1>10, <1>11 DEF IInv

LEMMA ClosureMoves ==
  ASSUME NEW p \in Procs, NEW s \in Sessions, NEW at, JobAt(p, s, at),
         at \in {"work", "retire", "store"} =>
           job[p][s].at \in {"work", "retire", "store"} \/ status'[s] = "discovering",
         at \in {"retire", "store"} => job[p][s].at \in {"retire", "store"} \/ Root[s] \in roots
  PROVE  \A q \in Procs, t \in Sessions : JobMoves(q, t)
BY DEF JobAt, JobMoves

LEMMA Quiet ==
  ASSUME TypeOK', UNCHANGED <<request, old, linked, roots, live, made, removing>>,
         \A t \in Sessions : StatusMoves(t), \A q \in Procs, t \in Sessions : JobMoves(q, t)
  PROVE  QuietStep
BY DEF QuietStep

\* The closure of a session moves, and its row, its source and its lock with it.
LEMMA RunTypes ==
  ASSUME TypeOK, NEW s \in Sessions, job' \in Jobs,
         UNCHANGED <<request, old, linked, projects, removing, roots>>,
         status' \in [Sessions -> {"none", "pending", "discovering", "ready", "error", "imported",
                                   "deleted"}],
         worker' \in [Sessions -> Procs \cup {NoProc}],
         lease' \in [Sessions -> {"none", "live", "expired"}],
         \A t \in Sessions : (worker'[t] = NoProc) <=> (lease'[t] = "none"),
         lock' \in [Sessions -> Procs \cup {NoProc}], sources' \subseteq sources,
         faults' \in 0..MaxFaults
  PROVE  TypeOK'
BY DEF TypeOK, Jobs, JobType, Places, projects

LEMMA Faults ==
  ASSUME TypeOK, NEW kind, Fault(kind)
  PROVE  faults' \in 0..MaxFaults
BY ConstantsAssumption DEF TypeOK, Fault

LEMMA DispatchKept ==
  ASSUME IInv, NEW p \in Procs, NEW s \in Sessions, Dispatch(p, s)
  PROVE  IInv'
<1>1. TypeOK
  BY DEF IInv
<1>2. UNCHANGED job \/ JobAt(p, s, "queued")
  BY <1>1, Enqueued DEF Dispatch
<1>3. job' \in Jobs
  BY <1>1, <1>2 DEF TypeOK, Jobs, JobType, Places, JobAt
<1>4. TypeOK'
  BY <1>1, <1>3, RunTypes DEF Dispatch, row, files, TypeOK
<1>5. \A q \in Procs, t \in Sessions : JobMoves(q, t)
  BY <1>2, ClosureMoves DEF JobMoves
<1> QED
  BY <1>4, <1>5, Quiet, Kept DEF Dispatch, row, files, projects, StatusMoves

LEMMA TakeLockKept ==
  ASSUME IInv, NEW p \in Procs, NEW s \in Sessions, TakeLock(p, s)
  PROVE  IInv'
<1>1. TypeOK
  BY DEF IInv
<1>2. JobAt(p, s, "claim") \/ JobAt(p, s, "end")
  BY <1>1, GoesTo DEF TakeLock, Places
<1>3. job' \in Jobs
  BY <1>2 DEF JobAt
<1>4. lock' \in [Sessions -> Procs \cup {NoProc}] /\ faults' \in 0..MaxFaults
  BY <1>1, Faults DEF TakeLock, TypeOK
<1>5. TypeOK'
  BY <1>1, <1>3, <1>4, RunTypes DEF TakeLock, row, files, TypeOK
<1>6. \A q \in Procs, t \in Sessions : JobMoves(q, t)
  BY <1>2, ClosureMoves
<1> QED
  BY <1>5, <1>6, Quiet, Kept DEF TakeLock, row, files, projects, StatusMoves

LEMMA ClaimKept ==
  ASSUME IInv, NEW p \in Procs, NEW s \in Sessions, Claim(p, s)
  PROVE  IInv'
<1>1. TypeOK
  BY DEF IInv
<1>2. CASE Claimable(s) /\ Claimed(p, s) /\ (JobAt(p, s, "work") \/ JobAt(p, s, "end"))
  <2>1. job' \in Jobs
    BY <1>2 DEF JobAt
  <2>2. faults' \in 0..MaxFaults
    BY <1>1, Faults DEF Claim, TypeOK
  <2>3. TypeOK'
    BY <1>1, <1>2, <2>1, <2>2, RunTypes, ConstantsAssumption DEF Claim, Claimed, files, TypeOK
  <2>4. status'[s] = "discovering" /\ \A t \in Sessions : StatusMoves(t)
    BY <1>1, <1>2 DEF Claimable, Claimed, StatusMoves, TypeOK
  <2>5. \A q \in Procs, t \in Sessions : JobMoves(q, t)
    BY <1>2, <2>4, ClosureMoves
  <2> QED
    BY <2>3, <2>4, <2>5, Quiet, Kept DEF Claim, files, projects
<1>3. CASE UNCHANGED <<status, worker, lease>> /\ JobAt(p, s, "end")
  <2>1. job' \in Jobs
    BY <1>3 DEF JobAt
  <2>2. faults' \in 0..MaxFaults
    BY <1>1, Faults DEF Claim, TypeOK
  <2>3. TypeOK'
    BY <1>1, <1>3, <2>1, <2>2, RunTypes DEF Claim, files, TypeOK
  <2>4. \A q \in Procs, t \in Sessions : JobMoves(q, t)
    BY <1>3, ClosureMoves
  <2> QED
    BY <1>3, <2>3, <2>4, Quiet, Kept DEF Claim, files, projects, StatusMoves
<1>4. \A at \in {"work", "end"} : Goes(p, s, at) => JobAt(p, s, at)
  BY <1>1, GoesTo DEF Places
<1>5. job' = [job EXCEPT ![p][s].at = "end", ![p][s].locked = FALSE] => JobAt(p, s, "end")
  BY <1>1, GoesTo DEF Places
<1> QED
  BY <1>2, <1>3, <1>4, <1>5 DEF Claim

LEMMA WorkKept ==
  ASSUME IInv, NEW p \in Procs, NEW s \in Sessions, Work(p, s)
  PROVE  IInv'
<1>1. TypeOK
  BY DEF IInv
<1>2. (JobAt(p, s, "retire") /\ Root[s] \in roots) \/ JobAt(p, s, "fail")
  BY <1>1, GoesTo DEF Work, Places
<1>3. job' \in Jobs
  BY <1>2 DEF JobAt
<1>4. TypeOK'
  BY <1>1, <1>3, RunTypes DEF Work, row, files, TypeOK
<1>5. \A q \in Procs, t \in Sessions : JobMoves(q, t)
  BY <1>2, ClosureMoves DEF Work
<1> QED
  BY <1>4, <1>5, Quiet, Kept DEF Work, row, files, projects, StatusMoves

LEMMA RetireSourceKept ==
  ASSUME IInv, NEW p \in Procs, NEW s \in Sessions, RetireSource(p, s)
  PROVE  IInv'
<1>1. TypeOK
  BY DEF IInv
<1>2. JobAt(p, s, "store") /\ job' \in Jobs
  BY <1>1, GoesTo DEF RetireSource, Places, JobAt
<1>3. sources' \subseteq sources
  BY DEF RetireSource
<1>4. TypeOK'
  BY <1>1, <1>2, <1>3, RunTypes DEF RetireSource, row, TypeOK
<1>5. \A q \in Procs, t \in Sessions : JobMoves(q, t)
  BY <1>2, ClosureMoves DEF RetireSource
<1> QED
  BY <1>4, <1>5, Quiet, Kept DEF RetireSource, row, projects, StatusMoves

LEMMA EndRunKept ==
  ASSUME IInv, NEW p \in Procs, NEW s \in Sessions, EndRun(p, s)
  PROVE  IInv'
<1>1. TypeOK
  BY DEF IInv
<1>2. JobAt(p, s, "none") /\ job' \in Jobs
  BY <1>1, Removed DEF EndRun, JobAt
<1>3. sources' \subseteq sources /\ lock' \in [Sessions -> Procs \cup {NoProc}]
  BY <1>1 DEF EndRun, TypeOK
<1>4. TypeOK'
  BY <1>1, <1>2, <1>3, RunTypes DEF EndRun, row, TypeOK
<1>5. \A q \in Procs, t \in Sessions : JobMoves(q, t)
  BY <1>2, ClosureMoves DEF EndRun
<1> QED
  BY <1>4, <1>5, Quiet, Kept DEF EndRun, row, projects, StatusMoves

\* A worker-scoped update that stores an outcome.
LEMMA OutcomeKept ==
  ASSUME IInv, NEW p \in Procs, NEW s \in Sessions, NEW st \in {"ready", "error"},
         NEW done \in {"release", "fail", "end"}, NEW refused \in {"release", "fail", "end"},
         Outcome(p, s, st, done, refused), st = "ready" => job[p][s].at = "store",
         UNCHANGED <<request, worker, lease, old, linked, lock, files, projects>>
  PROVE  IInv'
<1>1. TypeOK
  BY DEF IInv
<1>2. JobAt(p, s, done) \/ JobAt(p, s, refused)
  BY <1>1, GoesTo DEF Outcome, Places
<1>3. job' \in Jobs
  BY <1>2 DEF JobAt
<1>4. status' = status \/ (status[s] = "discovering" /\ status' = [status EXCEPT ![s] = st])
  BY DEF Outcome, Owns
<1>5. faults' \in 0..MaxFaults
  BY <1>1, Faults DEF Outcome, TypeOK
<1>6. status' \in [Sessions -> {"none", "pending", "discovering", "ready", "error", "imported",
                                "deleted"}]
  BY <1>1, <1>4 DEF TypeOK
<1>7. TypeOK'
  BY <1>1, <1>3, <1>5, <1>6, RunTypes DEF files, TypeOK
<1>8. \A t \in Sessions : StatusMoves(t)
  BY <1>1, <1>4 DEF TypeOK, StatusMoves
<1>9. \A q \in Procs, t \in Sessions : JobMoves(q, t)
  BY <1>2, ClosureMoves
<1> QED
  BY <1>7, <1>8, <1>9, Quiet, Kept DEF files, projects

LEMMA ReleaseLeaseKept ==
  ASSUME IInv, NEW p \in Procs, NEW s \in Sessions, ReleaseLease(p, s)
  PROVE  IInv'
<1>1. TypeOK
  BY DEF IInv
<1>2. JobAt(p, s, "end") /\ job' \in Jobs
  BY <1>1, GoesTo DEF ReleaseLease, Places, JobAt
<1>3. faults' \in 0..MaxFaults
  BY <1>1, Faults DEF ReleaseLease, TypeOK
<1>4. /\ worker' \in [Sessions -> Procs \cup {NoProc}]
      /\ lease' \in [Sessions -> {"none", "live", "expired"}]
      /\ \A t \in Sessions : (worker'[t] = NoProc) <=> (lease'[t] = "none")
  BY <1>1 DEF ReleaseLease, TypeOK
<1>5. TypeOK'
  BY <1>1, <1>2, <1>3, <1>4, RunTypes DEF ReleaseLease, files, TypeOK
<1>6. \A q \in Procs, t \in Sessions : JobMoves(q, t)
  BY <1>2, ClosureMoves
<1> QED
  BY <1>5, <1>6, Quiet, Kept DEF ReleaseLease, files, projects, StatusMoves

LEMMA ExpireKept ==
  ASSUME IInv, NEW s \in Sessions, Expire(s)
  PROVE  IInv'
<1>1. TypeOK
  BY DEF IInv
<1>2. TypeOK'
  BY <1>1, RunTypes DEF Expire, files, TypeOK, Jobs, JobType, Places
<1> QED
  BY <1>2, Quiet, Kept DEF Expire, files, projects, StatusMoves, JobMoves

LEMMA SweepKept ==
  ASSUME IInv, NEW s \in Sessions, Sweep(s)
  PROVE  IInv'
<1>1. TypeOK
  BY DEF IInv
<1>2. TypeOK'
  BY <1>1, RunTypes DEF Sweep, files, TypeOK, Jobs, JobType, Places
<1>3. \A t \in Sessions : StatusMoves(t)
  BY <1>1 DEF Sweep, Abandoned, StatusMoves, TypeOK
<1> QED
  BY <1>2, <1>3, Quiet, Kept DEF Sweep, files, projects, JobMoves

LEMMA CheckImportKept ==
  ASSUME IInv, NEW i \in Imports, NEW s \in Sessions, CheckImport(i, s)
  PROVE  IInv'
<1>1. TypeOK
  BY DEF IInv
<1>2. TypeOK'
  BY <1>1 DEF CheckImport, row, files, TypeOK
<1> QED
  BY <1>2, Quiet, Kept DEF CheckImport, row, files, StatusMoves, JobMoves

LEMMA AgeKept ==
  ASSUME IInv, NEW s \in Sessions, Age(s)
  PROVE  IInv'
<1>1. TypeOK
  BY DEF IInv
<1>2. TypeOK'
  BY <1>1 DEF Age, files, projects, TypeOK
<1>3. QuietStep
  BY <1>2 DEF Age, files, projects, QuietStep, StatusMoves, JobMoves
<1> QED
  BY <1>3, Kept

LEMMA QueueKept ==
  ASSUME IInv, NEW s \in Sessions, Queue(s)
  PROVE  IInv'
<1>1. TypeOK /\ Home[s] \in Procs
  BY ConstantsAssumption DEF IInv
<1>2. UNCHANGED job \/ JobAt(Home[s], s, "queued")
  BY <1>1, Enqueued DEF Queue
<1>3. job' \in Jobs
  BY <1>1, <1>2 DEF TypeOK, Jobs, JobType, Places, JobAt
<1>4. TypeOK'
  BY <1>1, <1>3 DEF Queue, row, files, projects, TypeOK, Jobs, JobType, Places
<1>5. \A q \in Procs, t \in Sessions : JobMoves(q, t)
  BY <1>1, <1>2, ClosureMoves DEF JobMoves
<1>6. QuietStep
  BY <1>1, <1>4, <1>5 DEF Queue, row, files, projects, QuietStep, StatusMoves, TypeOK
<1> QED
  BY <1>6, Kept

LEMMA CrashKept ==
  ASSUME IInv, NEW p \in Procs, Crash(p)
  PROVE  IInv'
<1>1. TypeOK
  BY DEF IInv
<1>2. NoJob \in JobType /\ NoJob.at = "none"
  BY DEF NoJob, JobType, Places
<1>3. job' = [job EXCEPT ![p] = [s \in Sessions |-> NoJob]] /\ job \in Jobs
  BY <1>1 DEF Crash, TypeOK, Jobs, JobType, Places
<1>4. /\ job' \in Jobs
      /\ \A q \in Procs, t \in Sessions : job'[q][t].at = job[q][t].at \/ job'[q][t].at = "none"
  <2> HIDE DEF NoJob
  <2> QED
    BY <1>2, <1>3 DEF Jobs
<1>5. TypeOK'
  <2>1. faults' \in 0..MaxFaults
    BY <1>1, Faults DEF Crash
  <2>2. /\ request' \in [Sessions -> {"none", "resolved", "inserted", "done"}]
        /\ lock' \in [Sessions -> Procs \cup {NoProc}]
        /\ removing' \in [Procs -> SUBSET Roots]
    BY <1>1 DEF Crash, TypeOK
  <2> QED
    BY <1>1, <1>4, <2>1, <2>2 DEF Crash, row, projects, TypeOK, Jobs, JobType, Places
<1>6. \A q \in Procs, t \in Sessions : JobMoves(q, t)
  BY <1>4 DEF JobMoves
<1>7. QuietStep
  BY <1>1, <1>5, <1>6 DEF Crash, row, projects, QuietStep, StatusMoves, TypeOK
<1> QED
  BY <1>7, Kept
-----------------------------------------------------------------------------
(* Steps that make or take a root, or a project.                            *)

\* A root that a clone was copied into is scanned by the session alone.
LEMMA OneSession ==
  ASSUME NEW s \in Cloned, NEW t \in Sessions, Root[s] = Root[t]
  PROVE  s = t
BY ConstantsAssumption

LEMMA NotRescanned ==
  ASSUME NEW s \in Cloned
  PROVE  Root[s] \notin Rescanned
BY OneSession DEF Rescanned

LEMMA ResolveKept ==
  ASSUME IInv, NEW s \in Sessions, Resolve(s)
  PROVE  IInv'
<1>1. TypeOK /\ RowInv /\ ImportInv /\ CloneInv /\ RemovalInv /\ ImportedRootStays
  BY DEF IInv
<1>2. TypeOK'
  BY <1>1, ConstantsAssumption DEF Resolve, row, projects, TypeOK
<1>3. UNCHANGED <<status, old, linked, job, live, made, removing>> /\ roots \subseteq roots'
  BY DEF Resolve, row, projects
<1>4. Rescanned \subseteq Rescanned'
  BY <1>1, RescannedGrows DEF Resolve, TypeOK
<1>5. RowInv'
  BY <1>1, <1>3 DEF RowInv, Resolve, TypeOK
<1>6. ImportInv' /\ CloneInv'
  BY <1>1, <1>3 DEF ImportInv, CloneInv
<1>7. RemovalInv'
  BY <1>1, <1>3, <1>4 DEF RemovalInv
<1>8. ImportedRootStays'
  BY <1>1, <1>3, <1>4 DEF ImportedRootStays
<1> QED
  BY <1>1, <1>2, <1>5, <1>6, <1>7, <1>8 DEF IInv

LEMMA InsertKept ==
  ASSUME IInv, NEW s \in Sessions, Insert(s)
  PROVE  IInv'
<1>1. TypeOK /\ RowInv /\ ImportInv /\ CloneInv /\ RemovalInv /\ ImportedRootStays
  BY DEF IInv
<1>2. request[s] = "resolved" /\ status[s] = "none"
  BY <1>1 DEF Insert, RowInv
<1>3. /\ UNCHANGED <<old, linked, job, live, made, removing>>
      /\ status' = status \/ status' = [status EXCEPT ![s] = "pending"]
      /\ roots' = roots \/ (s \in Cloned /\ roots' = roots \ {Root[s]})
      /\ \E r \in {"inserted", "done"} : request' = [request EXCEPT ![s] = r]
  BY DEF Insert, projects
<1>4. TypeOK'
  <2>1. faults' \in 0..MaxFaults
    BY <1>1, Faults DEF Insert, TypeOK
  <2> QED
    BY <1>1, <1>3, <2>1 DEF Insert, projects, TypeOK
<1>5. Rescanned \subseteq Rescanned'
  BY <1>1, <1>3, RescannedGrows DEF TypeOK
<1>6. /\ status'[s] \in {"none", "pending"}
      /\ \A t \in Sessions \ {s} : status'[t] = status[t] /\ request'[t] = request[t]
      /\ request'[s] \in {"inserted", "done"}
  BY <1>1, <1>2, <1>3 DEF TypeOK
<1>7. linked \subseteq Sessions /\ old \subseteq Sessions /\ Cloned \subseteq Sessions
  BY <1>1, ConstantsAssumption DEF TypeOK
<1>8. RowInv'
  BY <1>1, <1>2, <1>3, <1>6, <1>7 DEF RowInv
<1>9. ImportInv'
  BY <1>1, <1>2, <1>3, <1>6, <1>7 DEF ImportInv
<1>10. \A t \in Cloned \ {s} : Root[t] \in roots => Root[t] \in roots'
  BY <1>3, <1>7, OneSession
<1>11. s \in Cloned => Root[s] \notin live
  BY <1>1, <1>2 DEF CloneInv, ImportInv
<1>12. CloneInv'
  BY <1>1, <1>3, <1>6, <1>7, <1>10, <1>11 DEF CloneInv
<1>13. RemovalInv'
  BY <1>1, <1>2, <1>3, <1>5, <1>6, <1>7 DEF RemovalInv
<1>14. ImportedRootStays'
  BY <1>1, <1>3, <1>5, <1>11 DEF ImportedRootStays
<1> QED
  BY <1>1, <1>4, <1>8, <1>9, <1>12, <1>13, <1>14 DEF IInv

LEMMA CommitImportKept ==
  ASSUME IInv, NEW i \in Imports, CommitImport(i)
  PROVE  IInv'
<1> DEFINE s == import[i]
<1>1. TypeOK /\ RowInv /\ ImportInv /\ CloneInv /\ RemovalInv /\ ImportedRootStays
  BY DEF IInv
<1>2. s \in Sessions
  BY <1>1 DEF CommitImport, TypeOK
<1>3. /\ UNCHANGED <<request, worker, lease, old, job, lock, files, faults>>
      /\ import' = [import EXCEPT ![i] = NoSession]
  BY DEF CommitImport
<1>4. CASE UNCHANGED <<status, linked, live, made>>
  <2>1. TypeOK'
    BY <1>1, <1>3, <1>4 DEF files, TypeOK
  <2> QED
    BY <1>3, <1>4, <2>1, Quiet, Kept DEF files, StatusMoves, JobMoves
<1>5. CASE /\ Root[s] \notin live /\ status[s] = "ready"
           /\ status' = [status EXCEPT ![s] = "imported"] /\ linked' = linked \cup {s}
           /\ live' = live \cup {Root[s]} /\ made' = [made EXCEPT ![s] = @ + 1]
  <2> HIDE DEF s
  <2>1. Root[s] \in Roots /\ Cloned \subseteq Sessions /\ linked \subseteq Sessions /\ old \subseteq Sessions
    BY <1>1, <1>2, ConstantsAssumption DEF TypeOK
  <2>2. TypeOK'
    BY <1>1, <1>2, <1>3, <1>5, <2>1 DEF files, TypeOK
  <2>3. /\ status'[s] = "imported" /\ s \in linked'
        /\ \A t \in Sessions \ {s} : status'[t] = status[t]
    BY <1>1, <1>2, <1>5 DEF TypeOK
  <2>4. Rescanned' = Rescanned
    BY <1>3 DEF Rescanned
  <2>5. request[s] \notin {"none", "resolved"}
    BY <1>1, <1>2, <1>5 DEF RowInv
  <2>6. RowInv'
    BY <1>1, <1>2, <1>3, <2>1, <2>3, <2>5 DEF RowInv
  <2>7. ImportInv'
    <3>1. made[s] = 0 /\ made'[s] = 1 /\ \A t \in Sessions \ {s} : made'[t] = made[t]
      <4>1. made[s] \in Nat /\ made[s] <= 1 /\ made[s] # 1
        BY <1>1, <1>2, <1>5 DEF ImportInv, TypeOK
      <4>2. made[s] = 0
        BY <4>1
      <4>3. made \in [Sessions -> Nat]
        BY <1>1 DEF TypeOK
      <4> QED
        BY <1>2, <1>5, <4>2, <4>3
    <3> QED
      BY <1>1, <1>2, <1>5, <2>1, <2>3, <3>1 DEF ImportInv
  <2>8. CloneInv'
    <3>1. \A t \in Cloned \ {s} : Root[t] \in live' => Root[t] \in live
      BY <1>2, <1>5, OneSession
    <3> QED
      BY <1>1, <1>2, <1>3, <1>5, <2>1, <2>3, <3>1 DEF CloneInv, files
  <2>9. RemovalInv'
    <3>1. \A p \in Procs : \A r \in removing[p] \ Rescanned : r # Root[s]
      <4>1. CASE s \in Cloned
        BY <1>1, <1>5, <4>1 DEF RemovalInv
      <4>2. CASE s \notin Cloned
        BY <1>2, <2>5, <4>2 DEF Rescanned
      <4> QED
        BY <4>1, <4>2
    <3> QED
      BY <1>1, <1>3, <1>5, <2>1, <2>3, <2>4, <3>1 DEF RemovalInv, files
  <2>10. ImportedRootStays'
    <3>1. Root[s] \in Rescanned \/ Root[s] \in roots
      BY <1>1, <1>2, <1>5, <2>5 DEF CloneInv, Rescanned
    <3> QED
      BY <1>1, <1>3, <1>5, <2>4, <3>1 DEF ImportedRootStays, files
  <2> QED
    BY <2>2, <2>6, <2>7, <2>8, <2>9, <2>10 DEF IInv
<1> QED
  BY <1>4, <1>5 DEF CommitImport, Importable

LEMMA DeleteProjectKept ==
  ASSUME IInv, NEW p \in Procs, NEW r \in Roots, DeleteProject(p, r)
  PROVE  IInv'
<1>1. TypeOK /\ RowInv /\ ImportInv /\ CloneInv /\ RemovalInv /\ ImportedRootStays
  BY DEF IInv
<1>2. /\ r \in live /\ live' = live \ {r} /\ linked' = {s \in linked : Root[s] # r}
      /\ removing' = [removing EXCEPT ![p] = @ \cup {r}]
      /\ UNCHANGED <<request, status, worker, lease, old, job, lock, sources, roots, made, import,
                     faults>>
  BY DEF DeleteProject
<1>3. Cloned \subseteq Sessions /\ linked' \subseteq linked /\ linked \subseteq Sessions
  BY <1>1, <1>2, ConstantsAssumption DEF TypeOK
<1>4. TypeOK'
  BY <1>1, <1>2, <1>3 DEF TypeOK
<1>5. Rescanned' = Rescanned
  BY <1>2 DEF Rescanned
<1>6. RowInv' /\ ImportInv' /\ ImportedRootStays'
  BY <1>1, <1>2, <1>3, <1>5 DEF RowInv, ImportInv, ImportedRootStays
<1>7. CloneInv'
  BY <1>1, <1>2 DEF CloneInv
<1>8. RemovalInv'
  <2>1. \A s \in Cloned : Root[s] = r => status[s] \in {"imported", "deleted"}
    BY <1>1, <1>2 DEF CloneInv, ImportInv
  <2>2. \A q \in Procs : removing'[q] \subseteq removing[q] \cup {r}
    BY <1>1, <1>2 DEF TypeOK
  <2> QED
    BY <1>1, <1>2, <1>5, <2>1, <2>2 DEF RemovalInv
<1> QED
  BY <1>4, <1>6, <1>7, <1>8 DEF IInv

LEMMA RemoveRootKept ==
  ASSUME IInv, NEW p \in Procs, NEW r \in Roots, RemoveRoot(p, r)
  PROVE  IInv'
<1>1. TypeOK /\ RowInv /\ ImportInv /\ CloneInv /\ RemovalInv /\ ImportedRootStays
  BY DEF IInv
<1>2. /\ r \in removing[p] /\ roots' \in {roots, roots \ {r}}
      /\ removing' = [removing EXCEPT ![p] = @ \ {r}]
      /\ UNCHANGED <<request, status, worker, lease, old, linked, job, lock, sources, live, made,
                     import, faults>>
  BY DEF RemoveRoot, row, projects
<1>3. TypeOK'
  BY <1>1, <1>2 DEF TypeOK
<1>4. Rescanned' = Rescanned
  BY <1>2 DEF Rescanned
<1>5. RowInv' /\ ImportInv'
  BY <1>1, <1>2 DEF RowInv, ImportInv
<1>6. CloneInv'
  <2>1. \A s \in Cloned : Root[s] = r => status[s] \in {"imported", "deleted"}
    BY <1>1, <1>2, NotRescanned DEF RemovalInv
  <2> QED
    BY <1>1, <1>2, <2>1 DEF CloneInv
<1>7. RemovalInv'
  <2>1. \A q \in Procs : removing'[q] \subseteq removing[q]
    BY <1>1, <1>2 DEF TypeOK
  <2> QED
    BY <1>1, <1>2, <1>4, <2>1 DEF RemovalInv
<1>8. ImportedRootStays'
  BY <1>1, <1>2, <1>4 DEF ImportedRootStays, RemovalInv
<1> QED
  BY <1>3, <1>5, <1>6, <1>7, <1>8 DEF IInv

\* What a collection does to the rows.
LEMMA DeletedRows ==
  ASSUME IInv, NEW s \in Sessions, s \in old, Deleted(s),
         UNCHANGED <<request, old, job, lock, sources, roots, projects, faults>>,
         removing' \in [Procs -> SUBSET Roots]
  PROVE  /\ TypeOK' /\ RowInv' /\ ImportInv' /\ CloneInv' /\ ImportedRootStays'
         /\ Rescanned' = Rescanned /\ request[s] # "none"
         /\ status'[s] = "deleted" /\ \A t \in Sessions \ {s} : status'[t] = status[t]
<1>1. TypeOK /\ RowInv /\ ImportInv /\ CloneInv /\ ImportedRootStays
  BY DEF IInv
<1>2. Cloned \subseteq Sessions /\ linked \subseteq Sessions /\ old \subseteq Sessions
  BY <1>1, ConstantsAssumption DEF TypeOK
<1>3. TypeOK'
  BY <1>1 DEF Deleted, projects, TypeOK
<1>4. /\ status'[s] = "deleted" /\ linked' = linked \ {s}
      /\ \A t \in Sessions \ {s} : status'[t] = status[t]
  BY <1>1 DEF Deleted, TypeOK
<1>5. request[s] \notin {"none", "resolved"}
  BY <1>1 DEF RowInv
<1>6. Rescanned' = Rescanned
  BY DEF Rescanned
<1>7. RowInv'
  BY <1>1, <1>2, <1>4, <1>5 DEF RowInv
<1>8. ImportInv'
  BY <1>1, <1>2, <1>4 DEF ImportInv, projects
<1>9. CloneInv'
  BY <1>1, <1>2, <1>4 DEF CloneInv, projects
<1>10. ImportedRootStays'
  BY <1>1, <1>6 DEF ImportedRootStays, projects
<1> QED
  BY <1>3, <1>4, <1>5, <1>6, <1>7, <1>8, <1>9, <1>10

LEMMA CollectKept ==
  ASSUME IInv, NEW p \in Procs, NEW s \in Sessions, Collect(p, s)
  PROVE  IInv'
<1>1. TypeOK /\ RowInv /\ CloneInv /\ RemovalInv
  BY DEF IInv
<1>2. removing' = [removing EXCEPT ![p] = {Root[s]}] /\ live' = live
  BY DEF Collect, projects
<1>3. removing' \in [Procs -> SUBSET Roots]
  BY <1>1, <1>2, ConstantsAssumption DEF TypeOK
<1>4. /\ TypeOK' /\ RowInv' /\ ImportInv' /\ CloneInv' /\ ImportedRootStays'
      /\ Rescanned' = Rescanned /\ request[s] # "none"
      /\ status'[s] = "deleted" /\ \A t \in Sessions \ {s} : status'[t] = status[t]
  BY <1>3, DeletedRows DEF Collect, Collectable
<1>5. RemovalInv'
  <2>1. ASSUME Root[s] \notin Rescanned
        PROVE  /\ Root[s] \notin live
               /\ \A t \in Cloned : Root[t] = Root[s] => status'[t] = "deleted"
    <3>1. s \in Cloned
      BY <1>4, <2>1 DEF Rescanned
    <3> QED
      BY <1>1, <1>4, <3>1, OneSession, ConstantsAssumption DEF CloneInv, Collect, Collectable
  <2>2. \A q \in Procs : removing'[q] \subseteq removing[q] \cup {Root[s]}
    BY <1>1, <1>2 DEF TypeOK
  <2> QED
    BY <1>1, <1>2, <1>4, <2>1, <2>2, ConstantsAssumption DEF RemovalInv
<1> QED
  BY <1>4, <1>5 DEF IInv

LEMMA CollectImportedKept ==
  ASSUME IInv, NEW s \in Sessions, CollectImported(s)
  PROVE  IInv'
<1>1. TypeOK /\ RemovalInv
  BY DEF IInv
<1>2. UNCHANGED <<live, removing>> /\ removing' \in [Procs -> SUBSET Roots]
  BY <1>1 DEF CollectImported, files, projects, TypeOK
<1>3. /\ TypeOK' /\ RowInv' /\ ImportInv' /\ CloneInv' /\ ImportedRootStays'
      /\ Rescanned' = Rescanned
      /\ status'[s] = "deleted" /\ \A t \in Sessions \ {s} : status'[t] = status[t]
  BY <1>2, DeletedRows DEF CollectImported, files
<1>4. RemovalInv'
  BY <1>1, <1>2, <1>3, ConstantsAssumption DEF RemovalInv
<1> QED
  BY <1>3, <1>4 DEF IInv
-----------------------------------------------------------------------------
(* The theorems.                                                            *)

LEMMA Initially == Init => IInv
<1> SUFFICES ASSUME Init PROVE IInv
  OBVIOUS
<1>1. NoJob \in JobType /\ NoJob.at = "none"
  BY DEF NoJob, JobType, Places
<1> HIDE DEF NoJob
<1>2. job = [p \in Procs |-> [s \in Sessions |-> NoJob]]
  BY DEF Init
<1>3. job \in Jobs /\ \A p \in Procs, s \in Sessions : job[p][s].at = "none"
  BY <1>1, <1>2 DEF Jobs
<1>4. TypeOK
  BY <1>3, ConstantsAssumption DEF Init, TypeOK, Jobs, JobType, Places
<1>5. RowInv /\ ImportInv
  BY <1>3 DEF Init, RowInv, ImportInv
<1>6. CloneInv
  BY <1>3, ConstantsAssumption DEF Init, CloneInv
<1>7. RemovalInv /\ ImportedRootStays
  BY DEF Init, RemovalInv, ImportedRootStays
<1> QED
  BY <1>4, <1>5, <1>6, <1>7 DEF IInv

LEMMA RunKept ==
  ASSUME IInv, NEW p \in Procs, NEW s \in Sessions, Run(p, s)
  PROVE  IInv'
<1>1. CASE StoreReady(p, s)
  BY <1>1, OutcomeKept DEF StoreReady
<1>2. CASE StoreError(p, s)
  BY <1>2, OutcomeKept DEF StoreError
<1> QED
  BY <1>1, <1>2, TakeLockKept, ClaimKept, WorkKept, RetireSourceKept, ReleaseLeaseKept, EndRunKept
     DEF Run

LEMMA StepsKeep == IInv /\ [Next]_vars => IInv'
<1> SUFFICES ASSUME IInv, [Next]_vars PROVE IInv'
  OBVIOUS
<1>1. CASE UNCHANGED vars
  BY <1>1 DEF vars, row, files, projects, IInv, TypeOK, RowInv, ImportInv, CloneInv, RemovalInv,
              ImportedRootStays, Rescanned
<1>2. ASSUME NEW s \in Sessions,
             \/ Resolve(s) \/ Insert(s) \/ Queue(s) \/ Expire(s) \/ Sweep(s)
             \/ Age(s) \/ CollectImported(s)
      PROVE  IInv'
  BY <1>2, ResolveKept, InsertKept, QueueKept, ExpireKept, SweepKept, AgeKept, CollectImportedKept
<1>3. ASSUME NEW s \in Sessions, NEW p \in Procs, Dispatch(p, s) \/ Run(p, s) \/ Collect(p, s)
      PROVE  IInv'
  BY <1>3, DispatchKept, RunKept, CollectKept
<1>4. ASSUME NEW i \in Imports, CommitImport(i) \/ \E s \in Sessions : CheckImport(i, s)
      PROVE  IInv'
  BY <1>4, CommitImportKept, CheckImportKept
<1>5. ASSUME NEW p \in Procs, Crash(p) \/ \E r \in Roots : DeleteProject(p, r) \/ RemoveRoot(p, r)
      PROVE  IInv'
  BY <1>5, CrashKept, DeleteProjectKept, RemoveRootKept
<1> QED
  BY <1>1, <1>2, <1>3, <1>4, <1>5 DEF Next

\* The inductive invariant.
THEOREM SessionsInvariance == Spec => []IInv
BY Initially, StepsKeep, PTL DEF Spec

\* Whatever requests, runs, imports, collections, removals and crashes race, a
\* session makes at most one project, and a project keeps its root unless
\* another session scanned it.
THEOREM ImportsAreSound == Spec => []ImportsSound
<1>1. IInv => ImportsSound
  BY DEF IInv, ImportInv, ImportsSound, OneProjectPerSession
<1> QED
  BY <1>1, SessionsInvariance, PTL

\* How a step changes the status of a session.
WorkerEnds(t) ==
  \E p \in Procs :
    /\ Owns(p, t) /\ job[p][t].at \in {"store", "fail"}
    /\ job'[p][t] # job[p][t]

StatusChange(t) ==
  \/ status'[t] = status[t]
  \/ status[t] = "none" /\ status'[t] = "pending"
  \/ status[t] = "pending" /\ status'[t] = "discovering"
  \/ WorkerEnds(t) /\ status'[t] \in {"ready", "error"}
  \/ Abandoned(t) /\ status'[t] = "error"
  \/ status[t] = "ready" /\ status'[t] = "imported"
  \/ status'[t] = "deleted"

LEMMA OutcomeChanges ==
  ASSUME IInv, NEW p \in Procs, NEW s \in Sessions, NEW t \in Sessions, StoreReady(p, s) \/ StoreError(p, s)
  PROVE  StatusChange(t)
<1>1. TypeOK
  BY DEF IInv
<1>2. CASE status' = status
  BY <1>2 DEF StatusChange
<1>3. CASE /\ Owns(p, s) /\ job[p][s].at \in {"store", "fail"}
           /\ \E st \in {"ready", "error"} : status' = [status EXCEPT ![s] = st]
           /\ \E at \in {"release", "fail", "end"} : at # job[p][s].at /\ Goes(p, s, at)
  <2>1. /\ status'[s] \in {"ready", "error"}
        /\ \A u \in Sessions \ {s} : status'[u] = status[u]
    BY <1>1, <1>3 DEF TypeOK
  <2>2. PICK at \in {"release", "fail", "end"} : at # job[p][s].at /\ JobAt(p, s, at)
    BY <1>1, <1>3, GoesTo DEF Places
  <2>3. WorkerEnds(s)
    BY <1>3, <2>2 DEF WorkerEnds, JobAt
  <2> QED
    BY <2>1, <2>3 DEF StatusChange
<1> QED
  BY <1>2, <1>3 DEF StoreReady, StoreError, Outcome

LEMMA StatusChanges ==
  ASSUME IInv, Next, NEW t \in Sessions
  PROVE  StatusChange(t)
<1>1. TypeOK /\ RowInv
  BY DEF IInv
<1>2. ASSUME NEW s \in Sessions,
             Resolve(s) \/ Queue(s) \/ Expire(s) \/ Age(s) \/ \E i \in Imports : CheckImport(i, s)
      PROVE  StatusChange(t)
  BY <1>2 DEF Resolve, Queue, Expire, Age, CheckImport, row, StatusChange
<1>3. ASSUME NEW s \in Sessions, Insert(s) PROVE StatusChange(t)
  <2>1. status[s] = "none"
    BY <1>1, <1>3 DEF Insert, RowInv
  <2>2. status' = status \/ status' = [status EXCEPT ![s] = "pending"]
    BY <1>3 DEF Insert
  <2> QED
    BY <1>1, <2>1, <2>2 DEF StatusChange, TypeOK
<1>4. ASSUME NEW s \in Sessions, Sweep(s) PROVE StatusChange(t)
  BY <1>1, <1>4 DEF Sweep, StatusChange, TypeOK
<1>5. ASSUME NEW s \in Sessions, CollectImported(s) \/ \E p \in Procs : Collect(p, s)
      PROVE  StatusChange(t)
  BY <1>1, <1>5 DEF CollectImported, Collect, Deleted, StatusChange, TypeOK
<1>6. ASSUME NEW s \in Sessions, NEW p \in Procs,
             \/ Dispatch(p, s) \/ TakeLock(p, s) \/ Work(p, s) \/ RetireSource(p, s)
             \/ ReleaseLease(p, s) \/ EndRun(p, s)
      PROVE  StatusChange(t)
  BY <1>6 DEF Dispatch, TakeLock, Work, RetireSource, ReleaseLease, EndRun, row, StatusChange
<1>7. ASSUME NEW s \in Sessions, NEW p \in Procs, Claim(p, s) PROVE StatusChange(t)
  <2>1. status' = status \/ (status[s] = "pending" /\ status' = [status EXCEPT ![s] = "discovering"])
    BY <1>7 DEF Claim, Claimable, Claimed
  <2> QED
    BY <1>1, <2>1 DEF StatusChange, TypeOK
<1>8. ASSUME NEW s \in Sessions, NEW p \in Procs, Run(p, s) PROVE StatusChange(t)
  BY <1>6, <1>7, <1>8, OutcomeChanges DEF Run
<1>9. ASSUME NEW i \in Imports, CommitImport(i) PROVE StatusChange(t)
  <2>1. \/ status' = status
        \/ \E s \in Sessions : status[s] = "ready" /\ status' = [status EXCEPT ![s] = "imported"]
    BY <1>1, <1>9 DEF CommitImport, Importable, TypeOK
  <2> QED
    BY <1>1, <2>1 DEF StatusChange, TypeOK
<1>10. ASSUME NEW p \in Procs, Crash(p) \/ \E r \in Roots : DeleteProject(p, r) \/ RemoveRoot(p, r)
       PROVE  StatusChange(t)
  BY <1>10 DEF Crash, DeleteProject, RemoveRoot, row, StatusChange
<1> QED
  BY <1>2, <1>3, <1>4, <1>5, <1>6, <1>8, <1>9, <1>10 DEF Next

\* An outcome is given once, by the worker that holds the session or, when its
\* lease has run out, by the sweep.
THEOREM OutcomesStay == Spec => OutcomesStand
<1>1. ASSUME IInv, [Next]_vars, NEW t \in Sessions PROVE StatusChange(t)
  <2>1. CASE UNCHANGED vars
    BY <2>1 DEF vars, row, StatusChange
  <2> QED
    BY <1>1, <2>1, StatusChanges
<1>2. IInv /\ [Next]_vars =>
        [\A s \in Sessions :
           /\ status[s] = "ready" => status'[s] \in {"ready", "imported", "deleted"}
           /\ status[s] = "error" => status'[s] \in {"error", "deleted"}
           /\ status[s] = "imported" => status'[s] \in {"imported", "deleted"}
           /\ status[s] = "deleted" => status'[s] = "deleted"]_vars
  BY <1>1 DEF StatusChange, WorkerEnds, Owns, Abandoned
<1>3. IInv /\ [Next]_vars =>
        [\A s \in Sessions :
           status[s] = "discovering" /\ status'[s] \in {"ready", "error"} =>
             \/ lease[s] # "live"
             \/ job[worker[s]][s].at \in {"store", "fail"}
                /\ job'[worker[s]][s] # job[worker[s]][s]]_vars
  BY <1>1 DEF StatusChange, WorkerEnds, Owns, Abandoned
<1> QED
  BY <1>2, <1>3, SessionsInvariance, PTL DEF Spec, OutcomesStand, OutcomeIsFinal, LiveWorkerDecides
=================================================================================
