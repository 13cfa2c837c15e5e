----------------------------- MODULE Outboxes_proofs -----------------------------
(***************************************************************************)
(* Proofs about the two outboxes, ObservationOutbox and AuditOutbox.       *)
(*                                                                         *)
(* Observations: a step changes at most one row and at most one job; what  *)
(* is said of rows and jobs (RowFacts, Jobs) is inductive together with    *)
(* the types.                                                              *)
(*                                                                         *)
(* Audits: the invariant speaks of one process at a time: a row that it    *)
(* persists or drains is in its queue, was cleared by its load or is       *)
(* accepted, and the count covers the queue and the row that has left it   *)
(* and will be taken off the count, but for one row when the load ran      *)
(* beside a drain.                                                         *)
(***************************************************************************)
EXTENDS ObservationOutbox, AuditOutbox, FiniteSetTheorems, TLAPS

RowType ==
  [status : {"none", "pending", "running", "dead"}, due : BOOLEAN, worker : Workers \cup {NoWorker},
   lease : {"none", "live", "expired"}, fails : 0..MaxFails]

JobType ==
  [pc : {"idle", "queued", "store", "delete", "fail"}, worker : Workers \cup {NoWorker}, permanent : BOOLEAN]

Counters == claims \in 0..MaxClaims /\ faults \in 0..MaxFaults /\ requeues \in 0..MaxRequeues

\* A row belongs to an accepted attempt, a leased one is running, tries and
\* causes add up, and a row that is gone was stored.
Row(r, a, att, ver, ow, rf, st) ==
  /\ r.status # "none" => a < att \/ (a = att /\ ver # "none")
  /\ r.lease = "live" => r.status = "running"
  /\ r.status \in {"pending", "running"} => r.fails < MaxFails
  /\ r.status = "dead" => r.fails = MaxFails \/ a < att \/ a \in rf
  /\ r.status # "none" => a \in ow
  /\ a \in ow /\ r.status = "none" => a \in st
  /\ a \in st => a \in ow

\* A delivery is of an attempt that was reached, it is condemned only when the
\* execution moved on or its observations are refused, and deletes only what is stored.
Job(j, a, att, ow, rf, st) ==
  /\ j.pc \in {"store", "delete", "fail"} => a <= att /\ a \in ow
  /\ j.permanent => a < att \/ a \in rf
  /\ j.pc = "delete" => a \in st

RowFacts == \A a \in Attempts : Row(row[a], a, attempt, verdict, owed, refused, stored)
Jobs == \A p \in Procs, a \in Attempts : Job(job[p][a], a, attempt, owed, refused, stored)
IInv == TypeOK /\ RowFacts /\ Jobs

LEMMA TypeShape ==
  TypeOK <=> /\ attempt \in Attempts /\ verdict \in {"none", "retry", "final"}
             /\ episodes \subseteq Attempts /\ owed \subseteq Attempts /\ stored \subseteq Attempts
             /\ refused \subseteq Attempts
             /\ row \in [Attempts -> RowType] /\ job \in [Procs -> [Attempts -> JobType]]
             /\ Counters
BY DEF TypeOK, RowType, JobType, Counters

\* A job that becomes j, and what that leaves of the others.
LEMMA JobBecomes ==
  ASSUME TypeOK, NEW p \in Procs, NEW a \in Attempts, NEW j \in JobType,
         job' = [job EXCEPT ![p][a] = j]
  PROVE  /\ job' \in [Procs -> [Attempts -> JobType]]
         /\ job'[p][a] = j
         /\ \A q \in Procs, b \in Attempts : q # p \/ b # a => job'[q][b] = job[q][b]
<1>1. job \in [Procs -> [Attempts -> JobType]]
  BY TypeShape
<1> QED
  BY <1>1

LEMMA RowBecomes ==
  ASSUME TypeOK, NEW a \in Attempts, NEW r \in RowType,
         row' = [row EXCEPT ![a] = r]
  PROVE  /\ row' \in [Attempts -> RowType]
         /\ row'[a] = r
         /\ \A b \in Attempts : b # a => row'[b] = row[b]
<1>1. row \in [Attempts -> RowType]
  BY TypeShape
<1> QED
  BY <1>1

\* The ways jobs and rows are written, as records.
LEMMA JobWrites ==
  ASSUME TypeOK, NEW p \in Procs, NEW a \in Attempts
  PROVE  /\ job[p][a] \in JobType
         /\ Idle \in JobType
         /\ \A pc \in {"idle", "queued", "store", "delete", "fail"} :
              /\ [job[p][a] EXCEPT !.pc = pc] \in JobType
              /\ Goes(p, a, pc) => job' = [job EXCEPT ![p][a] = [job[p][a] EXCEPT !.pc = pc]]
         /\ Ends(p, a) => job' = [job EXCEPT ![p][a] = Idle]
<1>1. job \in [Procs -> [Attempts -> JobType]]
  BY TypeShape
<1>2. job[p][a] \in JobType
  BY <1>1
<1>3. Idle \in JobType
  BY DEF Idle, JobType, Workers, NoWorker
<1>4. ASSUME NEW pc \in {"idle", "queued", "store", "delete", "fail"}
      PROVE  [job[p][a] EXCEPT !.pc = pc] \in JobType
  BY <1>2 DEF JobType
<1>5. ASSUME NEW pc \in {"idle", "queued", "store", "delete", "fail"}, Goes(p, a, pc)
      PROVE  job' = [job EXCEPT ![p][a] = [job[p][a] EXCEPT !.pc = pc]]
  BY <1>1, <1>5 DEF Goes
<1>6. Ends(p, a) => job' = [job EXCEPT ![p][a] = Idle]
  BY DEF Ends
<1> QED
  BY <1>2, <1>3, <1>4, <1>5, <1>6

LEMMA RowWrites ==
  ASSUME TypeOK, NEW a \in Attempts
  PROVE  /\ row[a] \in RowType
         /\ NoRow \in RowType
         /\ [NoRow EXCEPT !.status = "pending", !.due = TRUE] \in RowType
<1>1. row[a] \in RowType
  BY TypeShape
<1>2. 0 \in 0..MaxFails
  BY ConstantsAssumption
<1>3. NoRow \in RowType
  BY <1>2 DEF NoRow, RowType, NoWorker
<1>4. [NoRow EXCEPT !.status = "pending", !.due = TRUE] \in RowType
  BY <1>2 DEF NoRow, RowType, NoWorker
<1> QED
  BY <1>1, <1>3, <1>4
-----------------------------------------------------------------------------
LEMMA Initially == Init => IInv
<1> SUFFICES ASSUME Init PROVE IInv
  OBVIOUS
<1> USE ConstantsAssumption DEF Init
<1>1. NoRow \in RowType
  BY DEF NoRow, RowType, NoWorker
<1>2. Idle \in JobType
  BY DEF Idle, JobType, NoWorker
<1>3. Counters /\ attempt \in Attempts
  BY DEF Counters, Attempts
<1>4. TypeOK
  BY <1>1, <1>2, <1>3, TypeShape
<1>5. RowFacts
  BY DEF RowFacts, Row, NoRow
<1>6. Jobs
  BY DEF Jobs, Job, Idle
<1> QED
  BY <1>4, <1>5, <1>6 DEF IInv
-----------------------------------------------------------------------------
(* The inductive step, action by action.                                    *)

\* What a job says holds when attempts and stored observations only grow.
LEMMA JobsGrow ==
  ASSUME TypeOK, Jobs, job' = job, attempt' \in Attempts, attempt' >= attempt, stored \subseteq stored', owed \subseteq owed',
         refused' = refused
  PROVE  Jobs'
BY TypeShape DEF Jobs, Job, Attempts

LEMMA AcceptKeeps ==
  ASSUME IInv, NEW v \in {"retry", "final"}, NEW observed \in BOOLEAN, Accept(v, observed)
  PROVE  IInv'
<1>1. TypeOK /\ RowFacts /\ Jobs
  BY DEF IInv
<1>2. attempt \in Attempts /\ verdict = "none" /\ verdict' = v
  BY <1>1, TypeShape DEF Accept
<1>3. UNCHANGED <<attempt, episodes, refused, stored, job, claims, faults, requeues>>
  BY DEF Accept
<1> DEFINE r == [NoRow EXCEPT !.status = "pending", !.due = TRUE]
<1>4. CASE observed
  <2>1. r \in RowType /\ r.status = "pending" /\ r.lease = "none" /\ r.fails = 0
    BY <1>1, <1>2, RowWrites DEF NoRow
  <2>2. owed' = owed \cup {attempt} /\ row' = [row EXCEPT ![attempt] = r]
    BY <1>4 DEF Accept
  <2> HIDE DEF r
  <2>3. row' \in [Attempts -> RowType] /\ row'[attempt] = r /\ \A b \in Attempts : b # attempt => row'[b] = row[b]
    BY <1>1, <1>2, <2>1, <2>2, RowBecomes
  <2>4. TypeOK'
    BY <1>1, <1>2, <1>3, <2>2, <2>3, TypeShape DEF TypeOK, RowType, JobType
  <2>5. RowFacts'
    <3> SUFFICES ASSUME NEW b \in Attempts PROVE Row(row'[b], b, attempt, v, owed', refused, stored)
      BY <1>2, <1>3 DEF RowFacts, Row
    <3>1. Row(row[b], b, attempt, "none", owed, refused, stored)
      BY <1>1, <1>2 DEF RowFacts
    <3>2. CASE b = attempt
      BY <2>1, <2>2, <2>3, <3>1, <3>2, ConstantsAssumption DEF Row
    <3>3. CASE b # attempt
      BY <2>2, <2>3, <3>1, <3>3 DEF Row
    <3> QED
      BY <3>2, <3>3
  <2>6. attempt' >= attempt /\ attempt' \in Attempts
    BY <1>2, <1>3, ConstantsAssumption DEF Attempts
  <2>7. Jobs'
    BY <1>1, <1>3, <2>2, <2>6, JobsGrow
  <2> QED
    BY <2>4, <2>5, <2>7 DEF IInv
<1>5. CASE ~observed
  <2>1. UNCHANGED <<owed, row>>
    BY <1>5 DEF Accept
  <2> QED
    BY <1>1, <1>2, <1>3, <2>1 DEF IInv, TypeOK, RowFacts, Row, Jobs, Job
<1> QED
  BY <1>4, <1>5

LEMMA ResumeKeeps ==
  ASSUME IInv, Resume PROVE IInv'
<1>1. TypeOK /\ RowFacts /\ Jobs
  BY DEF IInv
<1>2. attempt \in Nat /\ attempt' = attempt + 1 /\ attempt' \in Attempts /\ verdict' = "none"
  BY <1>1, ConstantsAssumption DEF Resume, TypeOK, Attempts
<1>3. UNCHANGED <<episodes, owed, refused, row, stored, job, claims, faults, requeues>>
  BY DEF Resume
<1>4. TypeOK'
  BY <1>1, <1>2, <1>3 DEF TypeOK
<1>5. RowFacts'
  BY <1>1, <1>2, <1>3 DEF RowFacts, Row, Attempts
<1>6. Jobs'
  BY <1>1, <1>2, <1>3, JobsGrow
<1> QED
  BY <1>4, <1>5, <1>6 DEF IInv

LEMMA EpisodeKeeps ==
  ASSUME IInv, EpisodeOpens PROVE IInv'
<1>1. episodes' = episodes \cup {attempt}
      /\ UNCHANGED <<attempt, verdict, owed, refused, row, stored, job, claims, faults, requeues>>
  BY DEF EpisodeOpens
<1> QED
  BY <1>1 DEF IInv, TypeOK, RowFacts, Row, Jobs, Job

\* A step that leaves the execution alone and replaces one job and one row.
LEMMA OneRowOneJob ==
  ASSUME IInv, NEW p \in Procs, NEW a \in Attempts, NEW j \in JobType, NEW r \in RowType,
         job' = [job EXCEPT ![p][a] = j], row' = [row EXCEPT ![a] = r],
         Job(j, a, attempt, owed, refused', stored'), Row(r, a, attempt, verdict, owed, refused', stored'),
         stored' = stored \/ stored' = stored \cup {a}, refused' = refused \/ refused' = refused \cup {a},
         Counters', UNCHANGED <<attempt, verdict, episodes, owed>>
  PROVE  IInv'
<1>1. TypeOK /\ RowFacts /\ Jobs
  BY DEF IInv
<1>2. job' \in [Procs -> [Attempts -> JobType]] /\ job'[p][a] = j
      /\ \A q \in Procs, b \in Attempts : q # p \/ b # a => job'[q][b] = job[q][b]
  <2>1. job \in [Procs -> [Attempts -> JobType]]
    BY <1>1, TypeShape
  <2> QED
    BY <2>1
<1>3. row' \in [Attempts -> RowType] /\ row'[a] = r /\ \A b \in Attempts : b # a => row'[b] = row[b]
  <2>1. row \in [Attempts -> RowType]
    BY <1>1, TypeShape
  <2> QED
    BY <2>1
<1>4. TypeOK'
  BY <1>1, <1>2, <1>3 DEF TypeOK, RowType, JobType, Counters
<1>5. RowFacts'
  BY <1>1, <1>3 DEF RowFacts, Row
<1>6. Jobs'
  <2> SUFFICES ASSUME NEW q \in Procs, NEW b \in Attempts PROVE Job(job'[q][b], b, attempt, owed, refused', stored')
    BY DEF Jobs
  <2>1. CASE q = p /\ b = a
    BY <1>2, <2>1
  <2>2. CASE q # p \/ b # a
    BY <1>1, <1>2, <2>2 DEF Jobs, Job
  <2> QED
    BY <2>1, <2>2
<1> QED
  BY <1>4, <1>5, <1>6 DEF IInv

\* A row or a job that is not written is written as it is.
LEMMA Unwritten ==
  ASSUME TypeOK, NEW p \in Procs, NEW a \in Attempts
  PROVE  /\ row' = row => row' = [row EXCEPT ![a] = row[a]]
         /\ job' = job => job' = [job EXCEPT ![p][a] = job[p][a]]
BY TypeShape

LEMMA DispatchKeeps ==
  ASSUME IInv, NEW p \in Procs, NEW a \in Attempts, Dispatch(p, a) PROVE IInv'
<1>1. TypeOK /\ RowFacts /\ Jobs /\ Counters
  BY TypeShape DEF IInv
<1> DEFINE j == [job[p][a] EXCEPT !.pc = "queued"]
<1>2. job' = [job EXCEPT ![p][a] = j] /\ j \in JobType /\ job[p][a] \in JobType
  BY <1>1, JobWrites DEF Dispatch
<1>3. Job(j, a, attempt, owed, refused, stored)
  BY <1>1, <1>2 DEF Jobs, Job, JobType
<1> HIDE DEF j
<1>4. row' = [row EXCEPT ![a] = row[a]] /\ row[a] \in RowType /\ Row(row[a], a, attempt, verdict, owed, refused, stored)
  BY <1>1, Unwritten, RowWrites DEF Dispatch, RowFacts
<1>5. UNCHANGED <<attempt, verdict, episodes, owed, refused, stored, claims, faults, requeues>>
  BY DEF Dispatch
<1>6. Counters'
  BY <1>1, <1>5 DEF Counters, TypeOK
<1> QED
  BY <1>2, <1>3, <1>4, <1>5, <1>6, OneRowOneJob

LEMMA ClaimKeeps ==
  ASSUME IInv, NEW p \in Procs, NEW a \in Attempts, Claim(p, a) PROVE IInv'
<1>1. TypeOK /\ RowFacts /\ Jobs /\ Counters
  BY TypeShape DEF IInv
<1>2. UNCHANGED <<attempt, verdict, episodes, owed, refused, stored, faults, requeues>>
  BY DEF Claim
<1>3. row[a] \in RowType /\ Row(row[a], a, attempt, verdict, owed, refused, stored)
  BY <1>1, RowWrites DEF RowFacts
<1>4. CASE Claimable(a)
  <2> DEFINE j == [Idle EXCEPT !.pc = "store", !.worker = claims + 1]
             r == [row[a] EXCEPT !.status = "running", !.worker = claims + 1, !.lease = "live"]
  <2>1. claims + 1 \in Workers /\ claims' = claims + 1 /\ claims' \in 0..MaxClaims
    BY <1>1, <1>4, ConstantsAssumption DEF Claim, Workers, Counters
  <2>2. job' = [job EXCEPT ![p][a] = j] /\ row' = [row EXCEPT ![a] = r]
    BY <1>1, <1>4, TypeShape DEF Claim
  <2>3. j \in JobType /\ j.pc = "store" /\ ~j.permanent
    BY <2>1 DEF Idle, JobType
  <2>4. r \in RowType /\ r.status = "running" /\ r.fails = row[a].fails
    BY <2>1, <1>3 DEF RowType
  <2>5. row[a].status \in {"pending", "running"}
    BY <1>4 DEF Claimable
  <2> HIDE DEF j, r
  <2>6. attempt \in Nat /\ a \in Nat
    BY <1>1, ConstantsAssumption DEF TypeOK, Attempts
  <2>7. Job(j, a, attempt, owed, refused, stored') /\ Row(r, a, attempt, verdict, owed, refused, stored')
    BY <1>2, <1>3, <2>3, <2>4, <2>5, <2>6 DEF Job, Row
  <2>8. Counters'
    BY <1>1, <1>2, <2>1 DEF Counters, TypeOK
  <2> QED
    BY <1>2, <2>2, <2>3, <2>4, <2>7, <2>8, OneRowOneJob
<1>5. CASE ~Claimable(a)
  <2>1. UNCHANGED <<row, claims>> /\ job' = [job EXCEPT ![p][a] = Idle] /\ Idle \in JobType
    BY <1>1, <1>5, JobWrites DEF Claim
  <2>2. Job(Idle, a, attempt, owed, refused, stored)
    BY DEF Job, Idle
  <2>3. row' = [row EXCEPT ![a] = row[a]] /\ Counters'
    BY <1>1, <1>2, <2>1, Unwritten DEF Counters, TypeOK
  <2> QED
    BY <1>2, <1>3, <2>1, <2>2, <2>3, OneRowOneJob
<1> QED
  BY <1>4, <1>5

LEMMA StoreKeeps ==
  ASSUME IInv, NEW p \in Procs, NEW a \in Attempts, Store(p, a) PROVE IInv'
<1>1. TypeOK /\ RowFacts /\ Jobs /\ Counters
  BY TypeShape DEF IInv
<1>2. UNCHANGED <<attempt, verdict, episodes, owed, row, claims, requeues>>
  BY DEF Store
<1>3. row' = [row EXCEPT ![a] = row[a]] /\ row[a] \in RowType /\ Row(row[a], a, attempt, verdict, owed, refused, stored)
  BY <1>1, <1>2, Unwritten, RowWrites DEF RowFacts
<1>4. job[p][a] \in JobType /\ job[p][a].pc = "store" /\ Job(job[p][a], a, attempt, owed, refused, stored)
  BY <1>1, JobWrites DEF Store, Jobs
<1>5. attempt \in Nat /\ a \in Nat
  BY <1>1, ConstantsAssumption DEF TypeOK, Attempts
<1>6. CASE Materialize(p, a)
  <2>1. PICK pc \in {"delete", "fail"} : Goes(p, a, pc) /\ (UNCHANGED faults \/ Fault)
    BY <1>6 DEF Materialize
  <2>2. stored' = stored \cup {a} /\ UNCHANGED refused
    BY <1>6 DEF Materialize
  <2> DEFINE j == [job[p][a] EXCEPT !.pc = pc]
  <2>3. job' = [job EXCEPT ![p][a] = j] /\ j \in JobType
    <3>1. CASE pc = "delete"
      BY <1>1, <2>1, <3>1, JobWrites
    <3>2. CASE pc = "fail"
      BY <1>1, <2>1, <3>2, JobWrites
    <3> QED
      BY <2>1, <3>1, <3>2
  <2>4. j.permanent = job[p][a].permanent
    BY <1>4 DEF JobType
  <2> HIDE DEF j
  <2>5. Job(j, a, attempt, owed, refused, stored')
    BY <1>4, <1>5, <2>2, <2>4 DEF Job
  <2>6. Row(row[a], a, attempt, verdict, owed, refused, stored')
    BY <1>3, <1>4, <2>2 DEF Row, Job
  <2>7. Counters'
    BY <1>1, <1>2, <2>1, <2>2, ConstantsAssumption DEF Counters, TypeOK, Fault
  <2> QED
    BY <1>2, <1>3, <2>2, <2>3, <2>5, <2>6, <2>7, OneRowOneJob
<1>7. ASSUME NEW permanent \in BOOLEAN, FailsFor(p, a, permanent), UNCHANGED stored,
             refused' = refused \/ refused' = refused \cup {a}, UNCHANGED faults \/ Fault,
             permanent => a < attempt \/ a \in refused'
      PROVE  IInv'
  <2> DEFINE j == [job[p][a] EXCEPT !.pc = "fail", !.permanent = permanent]
  <2>1. job' = [job EXCEPT ![p][a] = j]
    BY <1>1, <1>7, TypeShape DEF FailsFor
  <2>2. j \in JobType /\ j.pc = "fail" /\ j.permanent = permanent
    BY <1>4 DEF JobType
  <2> HIDE DEF j
  <2>3. Job(j, a, attempt, owed, refused', stored')
    BY <1>4, <1>7, <2>2 DEF Job
  <2>4. Row(row[a], a, attempt, verdict, owed, refused', stored')
    BY <1>3, <1>7 DEF Row
  <2>5. Counters'
    BY <1>1, <1>2, <1>7, ConstantsAssumption DEF Counters, TypeOK, Fault
  <2> QED
    BY <1>2, <1>3, <1>7, <2>1, <2>2, <2>3, <2>4, <2>5, OneRowOneJob
<1>8. CASE Refuse(p, a)
  BY <1>7, <1>8 DEF Refuse
<1>9. CASE MissesEpisode(p, a)
  <2> DEFINE found == a \in episodes
  <2>1. found \in BOOLEAN /\ FailsFor(p, a, found) /\ UNCHANGED <<refused, stored, faults>>
    BY <1>9 DEF MissesEpisode
  <2>2. found => a < attempt
    BY <1>4, <1>5, <1>9 DEF MissesEpisode, Current, Job
  <2> HIDE DEF found
  <2> QED
    BY <1>7, <2>1, <2>2
<1> QED
  BY <1>6, <1>8, <1>9 DEF Store

LEMMA DeleteKeeps ==
  ASSUME IInv, NEW p \in Procs, NEW a \in Attempts, Delete(p, a) PROVE IInv'
<1>1. TypeOK /\ RowFacts /\ Jobs /\ Counters
  BY TypeShape DEF IInv
<1>2. UNCHANGED <<attempt, verdict, episodes, owed, refused, stored, claims, faults, requeues>>
  BY DEF Delete
<1>3. job' = [job EXCEPT ![p][a] = Idle] /\ Idle \in JobType /\ Job(Idle, a, attempt, owed, refused, stored)
  BY <1>1, JobWrites DEF Delete, Job, Idle
<1>4. a \in stored
  BY <1>1 DEF Delete, Jobs, Job
<1>5. PICK r \in {NoRow, row[a]} : row' = [row EXCEPT ![a] = r]
  BY <1>1, TypeShape DEF Delete
<1>6. r \in RowType
  BY <1>1, <1>5, RowWrites
<1>7. Row(r, a, attempt, verdict, owed, refused, stored)
  BY <1>1, <1>4, <1>5 DEF RowFacts, Row, NoRow
<1>8. Counters'
  BY <1>1, <1>2 DEF Counters, TypeOK
<1> QED
  BY <1>2, <1>3, <1>5, <1>6, <1>7, <1>8, OneRowOneJob

LEMMA FailsKeeps ==
  ASSUME IInv, NEW p \in Procs, NEW a \in Attempts, Fails(p, a) PROVE IInv'
<1>1. TypeOK /\ RowFacts /\ Jobs /\ Counters
  BY TypeShape DEF IInv
<1>2. UNCHANGED <<attempt, verdict, episodes, owed, refused, row, stored, claims, requeues>>
  BY DEF Fails
<1> DEFINE j == [job[p][a] EXCEPT !.pc = "fail"]
<1>3. job' = [job EXCEPT ![p][a] = j] /\ j \in JobType /\ job[p][a] \in JobType
  BY <1>1, JobWrites DEF Fails
<1>4. j.permanent = job[p][a].permanent
  BY <1>3 DEF JobType
<1> HIDE DEF j
<1>5. Job(j, a, attempt, owed, refused, stored) 
  BY <1>1, <1>4, <1>2 DEF Job, Jobs, Fails, j
<1>6. row' = [row EXCEPT ![a] = row[a]] /\ row[a] \in RowType /\ Row(row[a], a, attempt, verdict, owed, refused, stored)
  BY <1>1, <1>2, Unwritten, RowWrites DEF RowFacts
<1>7. Counters'
  BY <1>1, <1>2, ConstantsAssumption DEF Counters, TypeOK, Fails, Fault
<1> QED
  BY <1>2, <1>3, <1>5, <1>6, <1>7, OneRowOneJob

LEMMA RecordFailureKeeps ==
  ASSUME IInv, NEW p \in Procs, NEW a \in Attempts, RecordFailure(p, a) PROVE IInv'
<1>1. TypeOK /\ RowFacts /\ Jobs /\ Counters
  BY TypeShape DEF IInv
<1>2. UNCHANGED <<attempt, verdict, episodes, owed, refused, stored, claims, faults, requeues>>
  BY DEF RecordFailure
<1>3. job' = [job EXCEPT ![p][a] = Idle] /\ Idle \in JobType /\ Job(Idle, a, attempt, owed, refused, stored)
  BY <1>1, JobWrites DEF RecordFailure, Job, Idle
<1>4. row[a] \in RowType /\ Row(row[a], a, attempt, verdict, owed, refused, stored)
  BY <1>1, RowWrites DEF RowFacts
<1>5. Counters'
  BY <1>1, <1>2 DEF Counters, TypeOK
<1>6. CASE Holds(p, a)
  <2> DEFINE dead == job[p][a].permanent \/ row[a].fails + 1 >= MaxFails
             r == FailedRow(a, dead)
  <2>1. row' = [row EXCEPT ![a] = r]
    BY <1>6 DEF RecordFailure
  <2>2. row[a].status = "running" /\ row[a].fails < MaxFails /\ row[a].fails \in Nat /\ MaxFails \in Nat
    BY <1>4, <1>6, ConstantsAssumption DEF Holds, Row, RowType
  <2>3. r.status = (IF dead THEN "dead" ELSE "pending") /\ r.lease = "none" /\ r.fails = row[a].fails + 1
    BY DEF FailedRow, Failed
  <2>4. r \in RowType
    BY <2>2 DEF FailedRow, Failed, RowType, NoWorker
  <2>5. job[p][a].permanent => a < attempt \/ a \in refused
    BY <1>1 DEF Jobs, Job
  <2> HIDE DEF r
  <2>6. Row(r, a, attempt, verdict, owed, refused, stored)
    BY <1>4, <2>2, <2>3, <2>5 DEF Row
  <2> QED
    BY <1>2, <1>3, <1>5, <2>1, <2>4, <2>6, OneRowOneJob
<1>7. CASE ~Holds(p, a)
  <2>1. row' = [row EXCEPT ![a] = row[a]]
    BY <1>1, <1>7, Unwritten DEF RecordFailure
  <2> QED
    BY <1>2, <1>3, <1>4, <1>5, <2>1, OneRowOneJob
<1> QED
  BY <1>6, <1>7

LEMMA GivesUpKeeps ==
  ASSUME IInv, NEW p \in Procs, NEW a \in Attempts, GivesUp(p, a) PROVE IInv'
<1>1. TypeOK /\ RowFacts /\ Jobs /\ Counters
  BY TypeShape DEF IInv
<1>2. UNCHANGED <<attempt, verdict, episodes, owed, refused, row, stored, claims, requeues>>
  BY DEF GivesUp
<1>3. job' = [job EXCEPT ![p][a] = Idle] /\ Idle \in JobType /\ Job(Idle, a, attempt, owed, refused, stored)
  BY <1>1, JobWrites DEF GivesUp, Job, Idle
<1>4. row' = [row EXCEPT ![a] = row[a]] /\ row[a] \in RowType /\ Row(row[a], a, attempt, verdict, owed, refused, stored)
  BY <1>1, <1>2, Unwritten, RowWrites DEF RowFacts
<1>5. Counters'
  BY <1>1, <1>2, ConstantsAssumption DEF Counters, TypeOK, GivesUp, Fault
<1> QED
  BY <1>2, <1>3, <1>4, <1>5, OneRowOneJob

LEMMA CrashKeeps ==
  ASSUME IInv, NEW p \in Procs, Crash(p) PROVE IInv'
<1>1. TypeOK /\ RowFacts /\ Jobs /\ Counters
  BY TypeShape DEF IInv
<1>2. UNCHANGED <<attempt, verdict, episodes, owed, refused, row, stored, claims, requeues>> /\ Fault
  BY DEF Crash
<1>3. Idle \in JobType /\ \A a \in Attempts : Job(Idle, a, attempt, owed, refused, stored)
  BY DEF Idle, JobType, NoWorker, Job
<1>4. job \in [Procs -> [Attempts -> JobType]] /\ job' = [job EXCEPT ![p] = [a \in Attempts |-> Idle]]
  BY <1>1, TypeShape DEF Crash
<1>5. job' \in [Procs -> [Attempts -> JobType]]
  BY <1>3, <1>4
<1>6. Counters'
  BY <1>1, <1>2, ConstantsAssumption DEF Counters, Fault
<1>7. TypeOK'
  BY <1>1, <1>2, <1>5, <1>6 DEF TypeOK, JobType, Counters
<1>8. RowFacts'
  BY <1>1, <1>2 DEF RowFacts, Row
<1>9. Jobs'
  <2> SUFFICES ASSUME NEW q \in Procs, NEW b \in Attempts PROVE Job(job'[q][b], b, attempt, owed, refused, stored)
    BY <1>2 DEF Jobs, Job
  <2>1. job'[q][b] = Idle \/ job'[q][b] = job[q][b]
    BY <1>4
  <2> QED
    BY <1>1, <1>3, <2>1 DEF Jobs
<1> QED
  BY <1>7, <1>8, <1>9 DEF IInv

LEMMA RowStepKeeps ==
  ASSUME IInv, NEW a \in Attempts, LeaseExpires(a) \/ BackoffEnds(a) \/ Requeue(a) PROVE IInv'
<1>1. TypeOK /\ RowFacts /\ Jobs /\ Counters
  BY TypeShape DEF IInv
<1>2. UNCHANGED <<attempt, verdict, episodes, owed, refused, stored, job, claims, faults>> /\ Counters'
  BY <1>1, ConstantsAssumption DEF LeaseExpires, BackoffEnds, Requeue, Counters
<1>3. row \in [Attempts -> RowType] /\ row[a] \in RowType /\ Row(row[a], a, attempt, verdict, owed, refused, stored)
  BY <1>1, TypeShape DEF RowFacts
<1>4. PICK r \in RowType : row' = [row EXCEPT ![a] = r] /\ Row(r, a, attempt, verdict, owed, refused, stored)
  <2>1. CASE LeaseExpires(a)
    <3> DEFINE r == [row[a] EXCEPT !.lease = "expired"]
    <3>1. row' = [row EXCEPT ![a] = r] /\ r \in RowType /\ r.lease = "expired"
          /\ r.status = row[a].status /\ r.fails = row[a].fails
      BY <1>3, <2>1 DEF LeaseExpires, RowType
    <3>2. Row(r, a, attempt, verdict, owed, refused, stored)
      BY <1>3, <3>1 DEF Row
    <3> QED
      BY <3>1, <3>2
  <2>2. CASE BackoffEnds(a)
    <3> DEFINE r == [row[a] EXCEPT !.due = TRUE]
    <3>1. row' = [row EXCEPT ![a] = r] /\ r \in RowType /\ r.lease = row[a].lease
          /\ r.status = row[a].status /\ r.fails = row[a].fails
      BY <1>3, <2>2 DEF BackoffEnds, RowType
    <3>2. Row(r, a, attempt, verdict, owed, refused, stored)
      BY <1>3, <3>1 DEF Row
    <3> QED
      BY <3>1, <3>2
  <2>3. CASE Requeue(a)
    <3> DEFINE r == [NoRow EXCEPT !.status = "pending", !.due = TRUE]
    <3>1. row' = [row EXCEPT ![a] = r] /\ r \in RowType /\ r.lease = "none" /\ r.status = "pending" /\ r.fails = 0
      BY <1>1, <2>3, RowWrites DEF Requeue, NoRow
    <3>2. row[a].status = "dead"
      BY <2>3 DEF Requeue
    <3>3. Row(r, a, attempt, verdict, owed, refused, stored)
      BY <1>3, <3>1, <3>2, ConstantsAssumption DEF Row
    <3> QED
      BY <3>1, <3>3
  <2> QED
    BY <2>1, <2>2, <2>3
<1>5. row' \in [Attempts -> RowType] /\ row'[a] = r /\ \A b \in Attempts : b # a => row'[b] = row[b]
  BY <1>1, <1>4, RowBecomes
<1>6. TypeOK'
  BY <1>1, <1>2, <1>5 DEF TypeOK, RowType, Counters
<1>7. RowFacts'
  BY <1>1, <1>2, <1>4, <1>5 DEF RowFacts, Row
<1>8. Jobs'
  BY <1>1, <1>2 DEF Jobs, Job
<1> QED
  BY <1>6, <1>7, <1>8 DEF IInv

LEMMA StepKeeps == IInv /\ [Next]_vars => IInv'
<1> SUFFICES ASSUME IInv, [Next]_vars PROVE IInv'
  OBVIOUS
<1>1. CASE \E v \in {"retry", "final"}, observed \in BOOLEAN : Accept(v, observed)
  BY <1>1, AcceptKeeps
<1>2. CASE Resume \/ EpisodeOpens
  BY <1>2, ResumeKeeps, EpisodeKeeps
<1>3. CASE \E p \in Procs : Crash(p)
  BY <1>3, CrashKeeps
<1>4. CASE \E a \in Attempts : LeaseExpires(a) \/ BackoffEnds(a) \/ Requeue(a)
  BY <1>4, RowStepKeeps
<1>5. CASE \E p \in Procs, a \in Attempts : Dispatch(p, a) \/ Delivery(p, a) \/ Fails(p, a) \/ GivesUp(p, a)
  BY <1>5, DispatchKeeps, ClaimKeeps, StoreKeeps, DeleteKeeps, RecordFailureKeeps, FailsKeeps, GivesUpKeeps
     DEF Delivery
<1>6. CASE UNCHANGED vars
  BY <1>6 DEF vars, IInv, TypeOK, RowFacts, Row, Jobs, Job
<1> QED
  BY <1>1, <1>2, <1>3, <1>4, <1>5, <1>6 DEF Next

LEMMA Always == Spec => []IInv
<1> QED
  BY Initially, StepKeeps, PTL DEF Spec

\* Types: tries, claims and faults keep within their bounds.
THEOREM TypeCorrect == Spec => []TypeOK
<1>1. IInv => TypeOK
  BY DEF IInv
<1> QED
  BY <1>1, Always, PTL

\* A row is put aside (recordObservationOutboxFailure) only after all its tries,
\* when its execution moved on, or when its observations are refused for what
\* they say.
THEOREM SetAsideForCause == Spec => []AsideForCause
<1>1. IInv => AsideForCause
  BY DEF IInv, RowFacts, Row, AsideForCause
<1> QED
  BY <1>1, Always, PTL
-----------------------------------------------------------------------------
(* The leased row.                                                          *)

LEMMA LeasedStep ==
  ASSUME IInv, [Next]_vars, NEW a \in Attempts, row[a].lease = "live", row'[a].status # "running"
  PROVE  \E p \in Procs : job[p][a].worker = row[a].worker /\ job'[p][a] = Idle
<1>1. TypeOK /\ row \in [Attempts -> RowType] /\ job \in [Procs -> [Attempts -> JobType]]
  BY TypeShape DEF IInv
<1>2. row[a].status = "running" /\ (a < attempt \/ (a = attempt /\ verdict # "none"))
  BY DEF IInv, RowFacts, Row
<1>3. row' # row
  BY <1>2
<1>4. ASSUME NEW v \in {"retry", "final"}, NEW observed \in BOOLEAN, Accept(v, observed) PROVE FALSE
  <2>1. a < attempt /\ attempt \in Nat /\ a \in Nat
    BY <1>1, <1>2, <1>4, ConstantsAssumption DEF Accept, TypeOK, Attempts
  <2>2. row'[a] = row[a]
    BY <1>1, <1>4, <2>1 DEF Accept
  <2> QED
    BY <1>2, <2>2
<1>5. ASSUME NEW b \in Attempts, LeaseExpires(b) \/ BackoffEnds(b) \/ Requeue(b) PROVE FALSE
  <2>1. row'[a].status = row[a].status
    BY <1>1, <1>2, <1>5 DEF LeaseExpires, BackoffEnds, Requeue, RowType
  <2> QED
    BY <1>2, <2>1
<1>6. ASSUME NEW p \in Procs, NEW b \in Attempts, Claim(p, b) PROVE FALSE
  <2>1. row'[a].status = "running"
    BY <1>1, <1>2, <1>6 DEF Claim, RowType
  <2> QED
    BY <2>1
<1>7. ASSUME NEW p \in Procs, NEW b \in Attempts, Delete(p, b) \/ RecordFailure(p, b)
      PROVE  job[p][a].worker = row[a].worker /\ job'[p][a] = Idle
  <2>1. b = a /\ Holds(p, b)
    BY <1>1, <1>2, <1>7 DEF Delete, RecordFailure
  <2>2. job' = [job EXCEPT ![p][a] = Idle]
    BY <1>1, <1>7, <2>1, JobWrites DEF Delete, RecordFailure
  <2>3. job'[p][a] = Idle
    BY <1>1, <2>2, JobWrites, JobBecomes
  <2> QED
    BY <2>1, <2>3 DEF Holds
<1>8. PICK p \in Procs, b \in Attempts : Delete(p, b) \/ RecordFailure(p, b)
  BY <1>3, <1>4, <1>5, <1>6
     DEF Next, vars, Resume, EpisodeOpens, Crash, Dispatch, Delivery, Store, Fails, GivesUp
<1> QED
  BY <1>7, <1>8

\* A leased row is ended by its worker only: the updates of
\* runObservationOutboxRow and recordObservationOutboxFailure compare workerId.
THEOREM LeasesRespected == Spec => LeasedRowIsItsWorkers
<1>1. IInv /\ [Next]_vars =>
        \A a \in Attempts :
          row[a].lease = "live" /\ row'[a].status # "running" =>
            \E p \in Procs : job[p][a].worker = row[a].worker /\ job'[p][a] = Idle
  BY LeasedStep
<1> QED
  BY <1>1, Always, PTL DEF Spec, LeasedRowIsItsWorkers
-----------------------------------------------------------------------------
(* The promise.                                                             *)

Promises == [a \in Attempts |-> Promised(a)]

\* A step that changes the promise of one attempt in an allowed way.
LEMMA OnePromise ==
  ASSUME NEW a \in Attempts,
         \A b \in Attempts : b # a => Promised(b)' = Promised(b),
         \/ Promised(a)' = Promised(a)
         \/ Promised(a) \in {"none", "aside"} /\ Promised(a)' = "owed"
         \/ Promised(a) \in {"owed", "aside"} /\ Promised(a)' = "kept"
         \/ Promised(a) = "owed" /\ Promised(a)' = "aside"
  PROVE  [P!Next]_Promises
<1> DEFINE before(b) == Promised(b)
           after(b) == Promised(b)'
<1>1. Promises = [b \in Attempts |-> before(b)] /\ Promises' = [b \in Attempts |-> after(b)]
  BY DEF Promises
<1>2. \A b \in Attempts : b # a => after(b) = before(b)
  OBVIOUS
<1>3. \/ after(a) = before(a)
      \/ before(a) \in {"none", "aside"} /\ after(a) = "owed"
      \/ before(a) \in {"owed", "aside"} /\ after(a) = "kept"
      \/ before(a) = "owed" /\ after(a) = "aside"
  OBVIOUS
<1> HIDE DEF before, after
<1>4. Promises[a] = before(a) /\ Promises' = [Promises EXCEPT ![a] = after(a)]
  BY <1>1, <1>2
<1>5. CASE after(a) = before(a)
  BY <1>1, <1>2, <1>5
<1>6. CASE before(a) \in {"none", "aside"} /\ after(a) = "owed"
  BY <1>4, <1>6 DEF P!Next, P!Owe, P!Becomes, Promises
<1>7. CASE before(a) \in {"owed", "aside"} /\ after(a) = "kept"
  BY <1>4, <1>7 DEF P!Next, P!Keep, P!Becomes, Promises
<1>8. CASE before(a) = "owed" /\ after(a) = "aside"
  BY <1>4, <1>8 DEF P!Next, P!PutAside, P!Becomes, Promises
<1> QED
  BY <1>3, <1>5, <1>6, <1>7, <1>8

\* What a step of the outbox does to attempt a decides what it promises.
LEMMA OneRow ==
  ASSUME IInv, NEW a \in Attempts, UNCHANGED owed, stored' = stored \/ stored' = stored \cup {a},
         \A b \in Attempts : b # a => row'[b] = row[b],
         \/ row'[a].status = row[a].status
         \/ row[a].status = "dead" /\ row'[a].status = "pending"
         \/ row[a].status \in {"pending", "running"} /\ row'[a].status \in {"pending", "running", "dead"}
         \/ a \in stored
  PROVE  [P!Next]_Promises
<1>1. TypeOK /\ Row(row[a], a, attempt, verdict, owed, refused, stored)
  BY DEF IInv, RowFacts
<1>2. \A b \in Attempts : b # a => Promised(b)' = Promised(b)
  BY DEF Promised
<1>3. \/ Promised(a)' = Promised(a)
      \/ Promised(a) \in {"none", "aside"} /\ Promised(a)' = "owed"
      \/ Promised(a) \in {"owed", "aside"} /\ Promised(a)' = "kept"
      \/ Promised(a) = "owed" /\ Promised(a)' = "aside"
  BY <1>1 DEF Promised, Row
<1> QED
  BY <1>2, <1>3, OnePromise

LEMMA PromiseStep ==
  ASSUME IInv, [Next]_vars PROVE [P!Next]_Promises
<1>1. TypeOK /\ RowFacts /\ Jobs /\ row \in [Attempts -> RowType] /\ attempt \in Attempts
  BY TypeShape DEF IInv
<1>2. ASSUME UNCHANGED <<owed, stored, row>> PROVE [P!Next]_Promises
  <2>1. Promises' = Promises
    BY <1>2 DEF Promises, Promised
  <2> QED
    BY <2>1
<1>3. ASSUME NEW v \in {"retry", "final"}, NEW observed \in BOOLEAN, Accept(v, observed), observed
      PROVE  [P!Next]_Promises
  <2> DEFINE r == [NoRow EXCEPT !.status = "pending", !.due = TRUE]
  <2>1. PICK a \in Attempts : a = attempt
    BY <1>1
  <2>2. row' = [row EXCEPT ![a] = r] /\ r.status = "pending"
    BY <1>3, <2>1 DEF Accept, NoRow
  <2> HIDE DEF r
  <2>3. row'[a].status = "pending" /\ \A b \in Attempts : b # a => row'[b] = row[b]
    BY <1>1, <2>2
  <2>4. owed' = owed \cup {a} /\ UNCHANGED stored
    BY <1>3, <2>1 DEF Accept
  <2>5. \A b \in Attempts : b # a => Promised(b)' = Promised(b)
    BY <2>3, <2>4 DEF Promised
  <2>6. Promised(a)' = IF a \in stored THEN "kept" ELSE "owed"
    BY <2>3, <2>4 DEF Promised
  <2>7. Row(row[a], a, a, "none", owed, refused, stored)
    BY <1>1, <1>3, <2>1 DEF RowFacts, Accept
  <2>8. row[a].status = "none"
    BY <2>7, ConstantsAssumption DEF Row, Attempts
  <2>9. \/ Promised(a)' = Promised(a)
        \/ Promised(a) \in {"none", "aside"} /\ Promised(a)' = "owed"
        \/ Promised(a) \in {"owed", "aside"} /\ Promised(a)' = "kept"
    <3>1. Promised(a) = IF a \notin owed THEN "none" ELSE IF a \in stored THEN "kept" ELSE "lost"
      BY <2>8 DEF Promised
    <3>2. a \in owed => a \in stored
      BY <2>7, <2>8 DEF Row
    <3>3. a \in stored => a \in owed
      BY <2>7 DEF Row
    <3> QED
      BY <2>6, <3>1, <3>2, <3>3
  <2> QED
    BY <2>5, <2>9, OnePromise
<1>4. ASSUME NEW a \in Attempts, LeaseExpires(a) \/ BackoffEnds(a) \/ Requeue(a) PROVE [P!Next]_Promises
  <2>1. UNCHANGED <<owed, stored>> /\ \A b \in Attempts : b # a => row'[b] = row[b]
    BY <1>1, <1>4 DEF LeaseExpires, BackoffEnds, Requeue
  <2>2. \/ row'[a].status = row[a].status
        \/ row[a].status = "dead" /\ row'[a].status = "pending"
    BY <1>1, <1>4 DEF LeaseExpires, BackoffEnds, Requeue, RowType, NoRow
  <2> QED
    BY <2>1, <2>2, OneRow
<1>5. ASSUME NEW p \in Procs, NEW a \in Attempts, Claim(p, a) PROVE [P!Next]_Promises
  <2>1. UNCHANGED <<owed, stored>> /\ \A b \in Attempts : b # a => row'[b] = row[b]
    BY <1>1, <1>5 DEF Claim
  <2>2. \/ row'[a].status = row[a].status
        \/ row[a].status \in {"pending", "running"} /\ row'[a].status = "running"
    BY <1>1, <1>5 DEF Claim, Claimable, RowType
  <2> QED
    BY <2>1, <2>2, OneRow
<1>6. ASSUME NEW p \in Procs, NEW a \in Attempts, Store(p, a) PROVE [P!Next]_Promises
  <2>1. UNCHANGED <<owed, row>> /\ (stored' = stored \/ stored' = stored \cup {a})
    BY <1>6 DEF Store, Materialize, Refuse, MissesEpisode
  <2> QED
    BY <2>1, OneRow
<1>7. ASSUME NEW p \in Procs, NEW a \in Attempts, Delete(p, a) PROVE [P!Next]_Promises
  <2>1. UNCHANGED <<owed, stored>> /\ \A b \in Attempts : b # a => row'[b] = row[b]
    BY <1>1, <1>7 DEF Delete
  <2>2. a \in stored
    BY <1>1, <1>7 DEF Delete, Jobs, Job
  <2> QED
    BY <2>1, <2>2, OneRow
<1>8. ASSUME NEW p \in Procs, NEW a \in Attempts, RecordFailure(p, a) PROVE [P!Next]_Promises
  <2>1. UNCHANGED <<owed, stored>> /\ \A b \in Attempts : b # a => row'[b] = row[b]
    BY <1>1, <1>8 DEF RecordFailure
  <2>2. \/ row'[a] = row[a]
        \/ row[a].status = "running" /\ row'[a].status \in {"pending", "dead"}
    BY <1>1, <1>8 DEF RecordFailure, Holds, FailedRow, Failed
  <2> QED
    BY <2>1, <2>2, OneRow
<1>9. CASE UNCHANGED <<owed, stored, row>>
  BY <1>2, <1>9
<1>10. CASE ~UNCHANGED <<owed, stored, row>>
  <2>1. CASE \E v \in {"retry", "final"}, observed \in BOOLEAN : Accept(v, observed)
    BY <1>3, <1>10, <2>1 DEF Accept
  <2>2. CASE \E a \in Attempts : LeaseExpires(a) \/ BackoffEnds(a) \/ Requeue(a)
    BY <1>4, <2>2
  <2>3. CASE \E p \in Procs, a \in Attempts : Delivery(p, a)
    BY <1>5, <1>6, <1>7, <1>8, <2>3 DEF Delivery
  <2> QED
    BY <1>10, <2>1, <2>2, <2>3
       DEF Next, vars, Resume, EpisodeOpens, Crash, Dispatch, Fails, GivesUp
<1> QED
  BY <1>9, <1>10

\* The outbox implements its promise: what finalizeExecutionAcceptance stored
\* for delivery is delivered or put aside, and never disappears.
THEOREM PromiseKept == Spec => KeepsPromise
<1>1. Init => P!Init
  BY DEF Init, P!Init, Promised
<1>2. IInv /\ [Next]_vars => [P!Next]_Promises
  BY PromiseStep
<1> QED
  BY <1>1, <1>2, Always, PTL DEF Spec, KeepsPromise, P!Spec, Promises

\* Both: rows end at the hand of their workers, and aside only for a cause.
THEOREM RowsEndForCause == Spec => RowEndsForCause
BY TypeCorrect, SetAsideForCause, LeasesRespected, PTL DEF RowEndsForCause
-----------------------------------------------------------------------------
(* AuditOutbox                                                              *)

\* What a process has in hand: its due rows wait, only a load clears, and a row
\* that is persisted or drained waits, was cleared or is accepted.
Held(p) ==
  /\ due[p] \subseteq pending[p]
  /\ phase[p] # "serving" => cleared[p] = {}
  /\ drain[p].at = "off" <=> drain[p].row = NoAudit
  /\ drain[p].at \in {"write", "detach", "retry"} => drain[p].row \in pending[p] \cup cleared[p] \cup history
  /\ drain[p].at = "remove" => drain[p].row \in history
  /\ \A r \in Rows : Home[r] = p /\ record[r] = "persist" => r \in pending[p] \cup cleared[p] \cup history

\* The row a drain will take off the count although it is not in the queue.
Apart(p) ==
  \/ drain[p].at = "remove"
  \/ drain[p].at \in {"write", "detach"} /\ drain[p].row \notin pending[p]

Count(p) ==
  gauge[p] + (IF beside[p] THEN 1 ELSE 0) >= Cardinality(pending[p]) + (IF Apart(p) THEN 1 ELSE 0)

Queues == \A p \in Servers : Held(p) /\ Count(p)

AuditInv == AuditTypeOK /\ Queues

LEMMA Counts ==
  ASSUME NEW S \in SUBSET Rows, NEW r
  PROVE  /\ IsFiniteSet(S) /\ Cardinality(S) \in Nat
         /\ Cardinality(S \cup {r}) \in Nat /\ Cardinality(S \cup {r}) <= Cardinality(S) + 1
         /\ r \in S => Cardinality(S \ {r}) = Cardinality(S) - 1
<1>1. IsFiniteSet(S)
  BY AuditAssumption, FS_Subset
<1>2. Cardinality(S) \in Nat
  BY <1>1, FS_CardinalityType
<1>3. IsFiniteSet(S \cup {r}) /\ (Cardinality(S \cup {r}) = Cardinality(S) \/ Cardinality(S \cup {r}) = Cardinality(S) + 1)
  BY <1>1, FS_AddElement
<1>4. r \in S => Cardinality(S \ {r}) = Cardinality(S) - 1
  BY <1>1, FS_RemoveElement
<1> QED
  BY <1>1, <1>2, <1>3, <1>4

DrainType == [at : {"off", "write", "detach", "remove", "retry"}, row : Rows \cup {NoAudit}]

LEMMA DrainTypes ==
  /\ NoDrain \in DrainType
  /\ \A r \in Rows, a \in {"write", "detach", "remove", "retry"} : [at |-> a, row |-> r] \in DrainType
BY DEF DrainType, NoDrain

LEMMA AuditShape ==
  AuditTypeOK <=>
    /\ phase \in [Servers -> {"down", "starting", "loading", "serving"}] /\ read \in [Servers -> SUBSET Rows]
    /\ record \in [Rows -> {"idle", "persist", "done"}]
    /\ pending \in [Servers -> SUBSET Rows] /\ due \in [Servers -> SUBSET Rows]
    /\ gauge \in [Servers -> Nat] /\ drain \in [Servers -> DrainType]
    /\ history \subseteq Rows /\ outbox \subseteq Rows
    /\ cleared \in [Servers -> SUBSET Rows] /\ beside \in [Servers -> BOOLEAN]
    /\ deleted \in BOOLEAN /\ auditFaults \in 0..MaxAuditFaults
BY DEF AuditTypeOK, DrainType

LEMMA Nothing == Cardinality({}) = 0
BY FS_EmptySet

LEMMA AuditInitially == AuditInit => AuditInv
<1> SUFFICES ASSUME AuditInit PROVE AuditInv
  OBVIOUS
<1>1. AuditTypeOK
  <2>1. NoDrain \in DrainType /\ 0 \in 0..MaxAuditFaults /\ 0 \in Nat
    BY DrainTypes, AuditAssumption
  <2> QED
    BY <2>1, AuditShape DEF AuditInit
<1>2. Queues
  BY Nothing DEF AuditInit, Queues, Held, Count, Apart, NoDrain
<1> QED
  BY <1>1, <1>2 DEF AuditInv

\* A step of one process keeps what is said of the others: audit_logs only grows.
LEMMA OneProcess ==
  ASSUME Queues, NEW p \in Servers, history \subseteq history',
         \A q \in Servers \ {p} :
            /\ phase'[q] = phase[q] /\ pending'[q] = pending[q] /\ due'[q] = due[q] /\ gauge'[q] = gauge[q]
            /\ drain'[q] = drain[q] /\ cleared'[q] = cleared[q] /\ beside'[q] = beside[q],
         \A r \in Rows : Home[r] # p => record'[r] = record[r],
         Held(p)', Count(p)'
  PROVE  Queues'
<1> SUFFICES ASSUME NEW q \in Servers \ {p}
             PROVE  Held(q)' /\ Count(q)'
  BY DEF Queues
<1>1. Held(q) /\ Count(q)
  BY DEF Queues
<1>2. Held(q)'
  BY <1>1 DEF Held
<1>3. Count(q)'
  BY <1>1 DEF Count, Apart
<1> QED
  BY <1>2, <1>3
-----------------------------------------------------------------------------
(* Types.                                                                   *)

\* What statements do to the tables and the faults.
LEMMA FaultType == AuditTypeOK /\ (AuditFault \/ UNCHANGED auditFaults) => auditFaults' \in 0..MaxAuditFaults
BY AuditAssumption DEF AuditTypeOK, AuditFault

LEMMA Statements ==
  ASSUME AuditTypeOK, NEW r \in Rows
  PROVE  /\ Written(history, r) \/ NotAnswered(history, r) =>
              /\ history \subseteq history' /\ history' \subseteq Rows /\ auditFaults' \in 0..MaxAuditFaults
         /\ Written(history, r) => r \in history'
         /\ Written(outbox, r) \/ NotAnswered(outbox, r) =>
              /\ outbox \subseteq outbox' /\ outbox' \subseteq Rows /\ auditFaults' \in 0..MaxAuditFaults
<1>1. history \subseteq Rows /\ outbox \subseteq Rows
  BY DEF AuditTypeOK
<1>2. Written(history, r) \/ NotAnswered(history, r) \/ Written(outbox, r) \/ NotAnswered(outbox, r) => auditFaults' \in 0..MaxAuditFaults
  BY FaultType DEF Written, NotAnswered
<1>3. Written(history, r) \/ NotAnswered(history, r) => history' = history \/ history' = history \cup {r}
  BY DEF Written, NotAnswered
<1>4. Written(outbox, r) \/ NotAnswered(outbox, r) => outbox' = outbox \/ outbox' = outbox \cup {r}
  BY DEF Written, NotAnswered
<1>5. Written(history, r) => r \in history'
  BY DEF Written
<1> QED
  BY <1>1, <1>2, <1>3, <1>4, <1>5


\* Where the loop goes: to a row that is due, or it ends.
LEMMA Loops ==
  ASSUME AuditInv, NEW p \in Servers, Onward(p)
  PROVE  \E dr \in DrainType :
            /\ drain' = [drain EXCEPT ![p] = dr]
            /\ dr.at \in {"off", "write"} /\ (dr.at = "off" <=> dr.row = NoAudit) /\ (dr.at = "write" => dr.row \in due[p])
<1>1. CASE \E r \in due[p] : DrainGoes(p, "write", r)
  <2>1. PICK r \in due[p] : DrainGoes(p, "write", r)
    BY <1>1
  <2>2. r \in Rows
    BY AuditShape DEF AuditInv
  <2> DEFINE dr == [at |-> "write", row |-> r]
  <2>3. dr \in DrainType /\ drain' = [drain EXCEPT ![p] = dr] /\ dr.at = "write" /\ dr.row = r /\ r # NoAudit
    BY <2>1, <2>2, DrainTypes, AuditAssumption DEF DrainGoes
  <2> QED
    BY <2>3
<1>2. CASE drain' = [drain EXCEPT ![p] = NoDrain]
  BY <1>2, DrainTypes DEF NoDrain
<1> QED
  BY <1>1, <1>2 DEF Onward
-----------------------------------------------------------------------------
(* The steps, one lemma each.                                               *)

LEMMA Records ==
  ASSUME AuditInv, NEW r \in Rows, Record(r) \/ Persist(r)
  PROVE  AuditInv'
<1> DEFINE p == Home[r]
<1>1. p \in Servers /\ AuditTypeOK /\ Queues /\ Held(p) /\ Count(p)
  BY AuditAssumption DEF AuditInv, Queues
<1>2. UNCHANGED <<phase, read, drain, deleted, cleared, beside>>
  BY DEF Record, Persist, loadVars
<1>3. record' \in [Rows -> {"idle", "persist", "done"}] /\ \A s \in Rows \ {r} : record'[s] = record[s]
  BY <1>1, AuditShape DEF Record, Persist
<1>4. history \subseteq history' /\ history' \subseteq Rows /\ outbox' \subseteq Rows /\ auditFaults' \in 0..MaxAuditFaults
  <2>1. CASE Record(r)
    <3>1. history \subseteq history' /\ history' \subseteq Rows /\ auditFaults' \in 0..MaxAuditFaults
      BY <1>1, <2>1, Statements, AuditShape DEF Record
    <3> QED
      BY <1>1, <2>1, <3>1, AuditShape DEF Record
  <2>2. CASE Persist(r)
    BY <1>1, <2>2, Statements, AuditShape DEF Persist
  <2> QED
    BY <2>1, <2>2
<1>5. CASE UNCHANGED <<pending, due, gauge>> /\ record'[r] = "done"
  <2>1. AuditTypeOK'
    BY <1>1, <1>2, <1>3, <1>4, <1>5 DEF AuditTypeOK, DrainType
  <2>2. Held(p)' /\ Count(p)'
    <3>1. Held(p)'
      BY <1>1, <1>2, <1>3, <1>4, <1>5 DEF Held
    <3>2. Count(p)'
      BY <1>1, <1>2, <1>5 DEF Count, Apart
    <3> QED
      BY <3>1, <3>2
  <2> HIDE DEF p
  <2>3. Queues'
    BY <1>1, <1>2, <1>3, <1>4, <1>5, <2>2, OneProcess DEF p
  <2> QED
    BY <2>1, <2>3 DEF AuditInv
<1>6. CASE Waits(p, r)
  <2>1. /\ pending' = [pending EXCEPT ![p] = pending[p] \cup {r}]
        /\ due' = [due EXCEPT ![p] = due[p] \cup {r}]
        /\ gauge' = [gauge EXCEPT ![p] = gauge[p] + 1]
    BY <1>6 DEF Waits
  <2>2. /\ pending \in [Servers -> SUBSET Rows] /\ due \in [Servers -> SUBSET Rows] /\ gauge \in [Servers -> Nat]
        /\ beside[p] \in BOOLEAN
    BY <1>1, AuditShape
  <2>3. /\ pending' \in [Servers -> SUBSET Rows] /\ due' \in [Servers -> SUBSET Rows] /\ gauge' \in [Servers -> Nat]
        /\ pending'[p] = pending[p] \cup {r} /\ due'[p] = due[p] \cup {r} /\ gauge'[p] = gauge[p] + 1
        /\ \A q \in Servers \ {p} : pending'[q] = pending[q] /\ due'[q] = due[q] /\ gauge'[q] = gauge[q]
    BY <1>1, <2>1, <2>2
  <2>4. AuditTypeOK'
    BY <1>1, <1>2, <1>3, <1>4, <2>3 DEF AuditTypeOK, DrainType
  <2>5. Held(p)'
    BY <1>1, <1>2, <1>3, <1>4, <2>3 DEF Held
  <2>6. Count(p)'
    <3>1. /\ Cardinality(pending[p] \cup {r}) \in Nat /\ Cardinality(pending[p]) \in Nat
          /\ Cardinality(pending[p] \cup {r}) <= Cardinality(pending[p]) + 1
      BY <1>1, <2>2, Counts
    <3>2. Apart(p)' => Apart(p)
      BY <1>2, <2>3 DEF Apart
    <3>3. gauge[p] \in Nat /\ beside'[p] = beside[p]
      BY <1>1, <1>2, <2>2
    <3> QED
      BY <1>1, <2>3, <3>1, <3>2, <3>3 DEF Count
  <2> HIDE DEF p
  <2>7. Queues'
    BY <1>1, <1>2, <1>3, <1>4, <2>3, <2>5, <2>6, OneProcess DEF p
  <2> QED
    BY <2>4, <2>7 DEF AuditInv
<1> QED
  BY <1>1, <1>5, <1>6, AuditShape DEF Record, Persist

\* A drained row goes on to the removal of its copy or to another try.
LEMMA GoesOn ==
  ASSUME AuditInv, NEW p \in Servers, NEW r \in Rows, NEW to \in {"remove", "retry"}, Leaves(p, r, to),
         r = drain[p].row, drain[p].at \in {"write", "detach"},
         IF to = "remove" THEN Written(history, r) ELSE NotAnswered(history, r),
         UNCHANGED <<phase, read, record, gauge, outbox, deleted, loadVars>>
  PROVE  AuditInv'
<1>0. AuditTypeOK /\ Queues /\ Held(p) /\ Count(p)
  BY DEF AuditInv, Queues
<1>1. /\ pending' \in [Servers -> SUBSET Rows] /\ due' \in [Servers -> SUBSET Rows] /\ drain' \in [Servers -> DrainType]
      /\ pending'[p] = IF to = "remove" THEN pending[p] \ {r} ELSE pending[p]
      /\ due'[p] = due[p] \ {r} /\ drain'[p] = [at |-> to, row |-> r]
      /\ \A q \in Servers \ {p} : pending'[q] = pending[q] /\ due'[q] = due[q] /\ drain'[q] = drain[q]
  <2>0. pending \in [Servers -> SUBSET Rows] /\ due \in [Servers -> SUBSET Rows] /\ drain \in [Servers -> DrainType]
        /\ [at |-> to, row |-> r] \in DrainType
    BY <1>0, AuditShape, DrainTypes
  <2>1. drain' = [drain EXCEPT ![p] = [at |-> to, row |-> r]] /\ due' = [due EXCEPT ![p] = due[p] \ {r}]
    BY <2>0 DEF Leaves, DrainGoes
  <2>2. pending' = [pending EXCEPT ![p] = IF to = "remove" THEN pending[p] \ {r} ELSE pending[p]]
    BY <2>0 DEF Leaves
  <2> QED
    BY <2>0, <2>1, <2>2
<1>2. history \subseteq history' /\ history' \subseteq Rows /\ auditFaults' \in 0..MaxAuditFaults /\ (to = "remove" => r \in history')
  BY <1>0, Statements
<1>3. UNCHANGED <<phase, read, record, gauge, outbox, deleted, cleared, beside>>
  BY DEF loadVars
<1>4. AuditTypeOK'
  BY <1>0, <1>1, <1>2, <1>3 DEF AuditTypeOK, DrainType
<1>5. Held(p)'
  <2>1. CASE to = "remove"
    <3>1. pending'[p] = pending[p] \ {r} /\ r \in history' /\ drain'[p].at = "remove" /\ drain'[p].row = r /\ r # NoAudit
      BY <1>1, <1>2, <2>1, AuditAssumption
    <3> QED
      BY <1>0, <1>1, <1>2, <1>3, <3>1 DEF Held
  <2>2. CASE to = "retry"
    <3>1. pending'[p] = pending[p] /\ drain'[p].at = "retry" /\ drain'[p].row = r /\ r # NoAudit
      BY <1>1, <2>2, AuditAssumption
    <3> QED
      BY <1>0, <1>1, <1>2, <1>3, <3>1 DEF Held
  <2> QED
    BY <2>1, <2>2
<1>6. Count(p)'
  <2>1. /\ Cardinality(pending[p]) \in Nat /\ gauge[p] \in Nat /\ beside[p] \in BOOLEAN
        /\ r \in pending[p] => Cardinality(pending[p] \ {r}) = Cardinality(pending[p]) - 1
    BY <1>0, AuditShape, Counts
  <2>2. r \notin pending[p] => pending[p] \ {r} = pending[p]
    OBVIOUS
  <2>3. Apart(p) <=> r \notin pending[p]
    BY DEF Apart
  <2>4. CASE to = "remove"
    <3>1. pending'[p] = pending[p] \ {r} /\ Apart(p)'
      BY <1>1, <2>4 DEF Apart
    <3>2. gauge[p] + (IF beside[p] THEN 1 ELSE 0) >= Cardinality(pending[p] \ {r}) + 1
      BY <1>0, <2>1, <2>2, <2>3 DEF Count
    <3> QED
      BY <1>3, <3>1, <3>2 DEF Count
  <2>5. CASE to = "retry"
    <3>1. pending'[p] = pending[p] /\ ~Apart(p)'
      BY <1>1, <2>5 DEF Apart
    <3> QED
      BY <1>0, <1>3, <2>1, <3>1 DEF Count
  <2> QED
    BY <2>4, <2>5
<1>7. Queues'
  BY <1>0, <1>1, <1>2, <1>3, <1>5, <1>6, OneProcess
<1> QED
  BY <1>4, <1>7 DEF AuditInv

\* The drain alone moves, and the count of its process.
LEMMA DrainMoves ==
  ASSUME AuditInv, NEW p \in Servers, NEW dr \in DrainType, drain' = [drain EXCEPT ![p] = dr],
         NEW ga \in Nat, gauge' = [gauge EXCEPT ![p] = ga],
         UNCHANGED <<phase, read, record, pending, due, history, deleted, loadVars>>,
         outbox' \subseteq Rows, auditFaults' \in 0..MaxAuditFaults,
         dr.at = "off" <=> dr.row = NoAudit,
         dr.at \in {"write", "detach", "retry"} => dr.row \in pending[p] \cup cleared[p] \cup history,
         dr.at # "remove",
         ga + (IF beside[p] THEN 1 ELSE 0) >=
            Cardinality(pending[p]) + (IF dr.at \in {"write", "detach"} /\ dr.row \notin pending[p] THEN 1 ELSE 0)
  PROVE  AuditInv'
<1>0. AuditTypeOK /\ Queues /\ Held(p) /\ Count(p)
  BY DEF AuditInv, Queues
<1>1. /\ drain' \in [Servers -> DrainType] /\ gauge' \in [Servers -> Nat]
      /\ drain'[p] = dr /\ gauge'[p] = ga
      /\ \A q \in Servers \ {p} : drain'[q] = drain[q] /\ gauge'[q] = gauge[q]
  BY <1>0, AuditShape
<1>2. UNCHANGED <<phase, read, record, pending, due, history, deleted, cleared, beside>>
  BY DEF loadVars
<1>3. AuditTypeOK'
  BY <1>0, <1>1, <1>2 DEF AuditTypeOK, DrainType
<1>4. Held(p)'
  BY <1>0, <1>1, <1>2 DEF Held
<1>5. Count(p)'
  BY <1>1, <1>2 DEF Count, Apart
<1>6. Queues'
  BY <1>0, <1>1, <1>2, <1>4, <1>5, OneProcess
<1> QED
  BY <1>3, <1>6 DEF AuditInv

LEMMA Drains ==
  ASSUME AuditInv, NEW p \in Servers, Draining(p)
  PROVE  AuditInv'
<1> DEFINE r == drain[p].row
<1>0. AuditTypeOK /\ Queues /\ Held(p) /\ Count(p) /\ gauge[p] \in Nat /\ Cardinality(pending[p]) \in Nat /\ beside[p] \in BOOLEAN
  BY AuditShape, Counts DEF AuditInv, Queues
<1>r. drain[p].at # "off" => r \in Rows
  BY <1>0, AuditShape DEF Held, DrainType
<1>g. gauge' = gauge => gauge' = [gauge EXCEPT ![p] = gauge[p]]
  BY <1>0, AuditShape
<1>1. CASE Write(p) \/ Detach(p)
  <2>1. drain[p].at \in {"write", "detach"} /\ UNCHANGED <<phase, read, record, gauge, outbox, deleted, loadVars>>
    BY <1>1 DEF Write, Detach
  <2>2. CASE Refused(r) /\ Detaches(p, r) /\ UNCHANGED <<history, auditFaults>> /\ drain[p].at = "write"
    <3> DEFINE dr == [at |-> "detach", row |-> r]
    <3>1. /\ drain' = [drain EXCEPT ![p] = dr] /\ dr \in DrainType /\ dr.at = "detach" /\ dr.row = r /\ r # NoAudit
          /\ UNCHANGED <<pending, due>>
      BY <1>r, <2>1, <2>2, DrainTypes, AuditAssumption DEF Detaches, DrainGoes
    <3>2. outbox' \subseteq Rows /\ auditFaults' \in 0..MaxAuditFaults
      BY <1>0, <2>1, <2>2, AuditShape
    <3>3. dr.row \in pending[p] \cup cleared[p] \cup history
      BY <1>0, <2>1, <3>1 DEF Held
    <3>4. gauge[p] + (IF beside[p] THEN 1 ELSE 0) >= Cardinality(pending[p]) + (IF r \notin pending[p] THEN 1 ELSE 0)
      BY <1>0, <2>1 DEF Count, Apart
    <3> HIDE DEF dr
    <3> QED
      BY <1>0, <1>g, <2>1, <2>2, <3>1, <3>2, <3>3, <3>4, DrainMoves
  <2>3. CASE Written(history, r) /\ Leaves(p, r, "remove")
    BY <1>r, <2>1, <2>3, GoesOn
  <2>4. CASE NotAnswered(history, r) /\ Leaves(p, r, "retry")
    BY <1>r, <2>1, <2>4, GoesOn
  <2> QED
    BY <1>1, <2>2, <2>3, <2>4 DEF Write, Detach
<1>2. CASE Remove(p)
  <2> DEFINE less == IF gauge[p] > 0 THEN gauge[p] - 1 ELSE 0
  <2>1. drain[p].at = "remove" /\ UNCHANGED <<phase, read, record, pending, due, history, deleted, loadVars>>
    BY <1>2 DEF Remove
  <2>2. r \in Rows /\ r # NoAudit /\ r \in history
    BY <1>0, <1>r, <2>1, AuditAssumption DEF Held
  <2>3. outbox' \subseteq Rows /\ auditFaults' \in 0..MaxAuditFaults
    BY <1>0, <1>2, FaultType, AuditShape DEF Remove
  <2>4. gauge[p] + (IF beside[p] THEN 1 ELSE 0) >= Cardinality(pending[p]) + 1
    BY <1>0, <2>1 DEF Count, Apart
  <2>5. CASE Onward(p) /\ gauge' = [gauge EXCEPT ![p] = less]
    <3>1. PICK dr \in DrainType :
            /\ drain' = [drain EXCEPT ![p] = dr]
            /\ dr.at \in {"off", "write"} /\ (dr.at = "off" <=> dr.row = NoAudit) /\ (dr.at = "write" => dr.row \in due[p])
      BY <2>5, Loops
    <3>2. dr.at = "write" => dr.row \in pending[p]
      BY <1>0, <3>1 DEF Held
    <3>3. less \in Nat /\ less + (IF beside[p] THEN 1 ELSE 0) >= Cardinality(pending[p])
      BY <1>0, <2>4
    <3> HIDE DEF less
    <3>4. less + (IF beside[p] THEN 1 ELSE 0) >=
            Cardinality(pending[p]) + (IF dr.at \in {"write", "detach"} /\ dr.row \notin pending[p] THEN 1 ELSE 0)
      BY <1>0, <3>1, <3>2, <3>3
    <3> QED
      BY <2>1, <2>3, <2>5, <3>1, <3>2, <3>3, <3>4, DrainMoves
  <2>6. CASE DrainGoes(p, "retry", r) /\ UNCHANGED gauge
    <3> DEFINE dr == [at |-> "retry", row |-> r]
    <3>1. drain' = [drain EXCEPT ![p] = dr] /\ dr \in DrainType /\ dr.at = "retry" /\ dr.row = r
      BY <2>2, <2>6, DrainTypes DEF DrainGoes
    <3>2. gauge[p] + (IF beside[p] THEN 1 ELSE 0) >= Cardinality(pending[p])
      BY <1>0, <2>4
    <3>3. gauge[p] + (IF beside[p] THEN 1 ELSE 0) >=
            Cardinality(pending[p]) + (IF dr.at \in {"write", "detach"} /\ dr.row \notin pending[p] THEN 1 ELSE 0)
      BY <1>0, <3>1, <3>2
    <3>4. dr.at = "off" <=> dr.row = NoAudit
      BY <2>2, <3>1
    <3> HIDE DEF dr
    <3> QED
      BY <1>0, <1>g, <2>1, <2>2, <2>3, <2>6, <3>1, <3>3, <3>4, DrainMoves
  <2> QED
    BY <1>2, <2>5, <2>6 DEF Remove
<1>3. CASE Retry(p) \/ StartDrain(p)
  <2>1. /\ drain[p].at \in {"retry", "off"}
        /\ UNCHANGED <<phase, read, record, pending, due, gauge, history, deleted, loadVars>>
    BY <1>3 DEF Retry, Discount, StartDrain
  <2>2. outbox' \subseteq Rows /\ auditFaults' \in 0..MaxAuditFaults
    BY <1>0, <1>3, <1>r, <2>1, Statements, AuditShape DEF Retry, StartDrain
  <2>3. PICK dr \in DrainType :
          /\ drain' = [drain EXCEPT ![p] = dr]
          /\ dr.at \in {"off", "write"} /\ (dr.at = "off" <=> dr.row = NoAudit) /\ (dr.at = "write" => dr.row \in due[p])
    BY <1>3, Loops DEF Retry, StartDrain
  <2>4. dr.at = "write" => dr.row \in pending[p]
    BY <1>0, <2>3 DEF Held
  <2>5. gauge[p] + (IF beside[p] THEN 1 ELSE 0) >=
          Cardinality(pending[p]) + (IF dr.at \in {"write", "detach"} /\ dr.row \notin pending[p] THEN 1 ELSE 0)
    BY <1>0, <2>1, <2>3, <2>4 DEF Count, Apart
  <2> QED
    BY <1>0, <1>g, <2>1, <2>2, <2>3, <2>4, <2>5, DrainMoves
<1> QED
  BY <1>1, <1>2, <1>3 DEF Draining

LEMMA Loads ==
  ASSUME AuditInv, NEW p \in Servers, Starting(p)
  PROVE  AuditInv'
<1>0. /\ AuditTypeOK /\ Queues /\ Held(p) /\ Count(p) /\ gauge[p] \in Nat /\ read[p] \in SUBSET Rows
      /\ phase \in [Servers -> {"down", "starting", "loading", "serving"}] /\ read \in [Servers -> SUBSET Rows]
  BY AuditShape DEF AuditInv, Queues
<1>1. UNCHANGED <<record, drain, history, outbox, deleted>>
  BY DEF Starting, Start, Select, Load
<1>2. CASE Start(p) \/ Select(p)
  <2>1. UNCHANGED <<pending, due, gauge, cleared, beside>>
    BY <1>2 DEF Start, Select, loadVars
  <2>2. read' \in [Servers -> SUBSET Rows] /\ auditFaults' \in 0..MaxAuditFaults
    BY <1>0, <1>2, FaultType, AuditShape DEF Start, Select
  <2>3. phase[p] # "serving" /\ \E ph \in {"starting", "loading", "serving"} : phase' = [phase EXCEPT ![p] = ph]
    BY <1>2 DEF Start, Select
  <2>4. phase' \in [Servers -> {"down", "starting", "loading", "serving"}] /\ \A q \in Servers \ {p} : phase'[q] = phase[q]
    BY <1>0, <2>3
  <2>5. AuditTypeOK'
    BY <1>0, <1>1, <2>1, <2>2, <2>4 DEF AuditTypeOK
  <2>6. Held(p)'
    BY <1>0, <1>1, <2>1, <2>3 DEF Held
  <2>7. Count(p)'
    BY <1>0, <1>1, <2>1 DEF Count, Apart
  <2>8. Queues'
    BY <1>0, <1>1, <2>1, <2>4, <2>6, <2>7, OneProcess
  <2> QED
    BY <2>5, <2>8 DEF AuditInv
<1>3. CASE Load(p)
  <2> DEFINE n == Cardinality(read[p])
             cl == pending[p] \ read[p]
             be == drain[p].row \in Rows
  <2>1. n \in Nat /\ cl \in SUBSET Rows /\ be \in BOOLEAN
    <3>1. n \in Nat
      BY <1>0, Counts
    <3>2. cl \in SUBSET Rows
      BY <1>0, AuditShape
    <3>3. be \in BOOLEAN
      OBVIOUS
    <3> QED
      BY <3>1, <3>2, <3>3
  <2>2. /\ phase[p] = "loading" /\ phase' = [phase EXCEPT ![p] = "serving"] /\ pending' = [pending EXCEPT ![p] = read[p]]
        /\ due' = [due EXCEPT ![p] = {}] /\ gauge' = [gauge EXCEPT ![p] = n] /\ read' = [read EXCEPT ![p] = {}]
        /\ cleared' = [cleared EXCEPT ![p] = cl] /\ beside' = [beside EXCEPT ![p] = be] /\ auditFaults' = auditFaults
    BY <1>3 DEF Load
  <2>3. /\ phase'[p] = "serving" /\ pending'[p] = read[p] /\ due'[p] = {} /\ gauge'[p] = n
        /\ cleared'[p] = pending[p] \ read[p] /\ beside'[p] = be
        /\ \A q \in Servers \ {p} :
              /\ phase'[q] = phase[q] /\ pending'[q] = pending[q] /\ due'[q] = due[q] /\ gauge'[q] = gauge[q]
              /\ cleared'[q] = cleared[q] /\ beside'[q] = beside[q]
    BY <1>0, <2>2, AuditShape
  <2>4. AuditTypeOK'
    <3> HIDE DEF n, cl, be
    <3> QED
      BY <1>0, <1>1, <2>1, <2>2 DEF AuditTypeOK
  <2>5. Held(p)'
    <3>1. cleared[p] = {}
      BY <1>0, <2>2 DEF Held
    <3>2. pending[p] \subseteq pending'[p] \cup cleared'[p]
      BY <2>3
    <3> QED
      BY <1>0, <1>1, <2>3, <3>1, <3>2 DEF Held
  <2>6. Count(p)'
    <3>1. Apart(p)' => be
      <4>1. Apart(p)' => drain[p].at \in {"write", "detach", "remove"}
        BY <1>1 DEF Apart
      <4> QED
        BY <1>0, <4>1, AuditShape DEF Held, DrainType
    <3> HIDE DEF be
    <3> QED
      BY <2>1, <2>3, <3>1 DEF Count
  <2> HIDE DEF n, cl, be
  <2>7. Queues'
    BY <1>0, <1>1, <2>3, <2>5, <2>6, OneProcess
  <2> QED
    BY <2>4, <2>7 DEF AuditInv
<1> QED
  BY <1>2, <1>3 DEF Starting

LEMMA Crashes ==
  ASSUME AuditInv, NEW p \in Servers, Dies(p)
  PROVE  AuditInv'
<1>0. AuditTypeOK /\ Queues
  BY DEF AuditInv
<1>1. /\ phase' = [phase EXCEPT ![p] = "down"] /\ read' = [read EXCEPT ![p] = {}]
      /\ pending' = [pending EXCEPT ![p] = {}] /\ due' = [due EXCEPT ![p] = {}]
      /\ gauge' = [gauge EXCEPT ![p] = 0] /\ drain' = [drain EXCEPT ![p] = NoDrain]
      /\ record' = [r \in Rows |-> IF Home[r] = p /\ record[r] = "persist" THEN "done" ELSE record[r]]
      /\ cleared' = [cleared EXCEPT ![p] = {}] /\ beside' = [beside EXCEPT ![p] = FALSE]
      /\ UNCHANGED <<history, outbox, deleted>>
  BY DEF Dies
<1>2. auditFaults' \in 0..MaxAuditFaults /\ NoDrain \in DrainType
  BY <1>0, FaultType, DrainTypes DEF Dies
<1>3. AuditTypeOK'
  BY <1>0, <1>1, <1>2 DEF AuditTypeOK, DrainType
<1>4. /\ phase'[p] = "down" /\ pending'[p] = {} /\ due'[p] = {} /\ gauge'[p] = 0 /\ drain'[p] = NoDrain
      /\ cleared'[p] = {} /\ beside'[p] = FALSE
      /\ \A q \in Servers \ {p} :
            /\ phase'[q] = phase[q] /\ pending'[q] = pending[q] /\ due'[q] = due[q] /\ gauge'[q] = gauge[q]
            /\ drain'[q] = drain[q] /\ cleared'[q] = cleared[q] /\ beside'[q] = beside[q]
  BY <1>0, <1>1, AuditShape
<1>5. \A r \in Rows : /\ Home[r] # p => record'[r] = record[r]
                      /\ Home[r] = p => record'[r] # "persist"
  BY <1>1
<1>6. Held(p)'
  BY <1>4, <1>5 DEF Held, NoDrain
<1>7. Count(p)'
  BY <1>4, Nothing DEF Count, Apart, NoDrain
<1>8. Queues'
  BY <1>0, <1>1, <1>4, <1>5, <1>6, <1>7, OneProcess
<1> QED
  BY <1>3, <1>8 DEF AuditInv

LEMMA DuesReturn ==
  ASSUME AuditInv, NEW p \in Servers, NEW r \in Rows, DueAgain(p, r)
  PROVE  AuditInv'
<1>0. AuditTypeOK /\ Queues /\ Held(p) /\ Count(p)
  BY DEF AuditInv, Queues
<1>1. /\ r \in pending[p] /\ due' = [due EXCEPT ![p] = due[p] \cup {r}]
      /\ UNCHANGED <<phase, read, record, pending, gauge, drain, history, outbox, deleted, cleared, beside, auditFaults>>
  BY DEF DueAgain, loadVars
<1>2. /\ due' \in [Servers -> SUBSET Rows] /\ due'[p] = due[p] \cup {r}
      /\ \A q \in Servers \ {p} : due'[q] = due[q]
  BY <1>0, <1>1, AuditShape
<1>3. AuditTypeOK'
  BY <1>0, <1>1, <1>2 DEF AuditTypeOK
<1>4. Held(p)'
  BY <1>0, <1>1, <1>2 DEF Held
<1>5. Count(p)'
  BY <1>0, <1>1 DEF Count, Apart
<1>6. Queues'
  BY <1>0, <1>1, <1>2, <1>4, <1>5, OneProcess
<1> QED
  BY <1>3, <1>6 DEF AuditInv

LEMMA Invariance == AuditInv /\ [AuditNext]_auditVars => AuditInv'
<1> SUFFICES ASSUME AuditInv, [AuditNext]_auditVars PROVE AuditInv'
  OBVIOUS
<1>1. CASE UNCHANGED auditVars
  BY <1>1 DEF auditVars, loadVars, AuditInv, AuditTypeOK, Queues, Held, Count, Apart
<1>2. CASE DeleteProject
  BY <1>2 DEF DeleteProject, loadVars, AuditInv, AuditTypeOK, Queues, Held, Count, Apart
<1>3. CASE Recording
  BY <1>3, Records DEF Recording
<1>4. CASE \E p \in Servers : Draining(p)
  BY <1>4, Drains
<1>5. CASE \E p \in Servers : Starting(p)
  BY <1>5, Loads
<1>6. CASE \E p \in Servers : Dies(p)
  BY <1>6, Crashes
<1>7. CASE \E p \in Servers, r \in Rows : DueAgain(p, r)
  BY <1>7, DuesReturn
<1> QED
  BY <1>1, <1>2, <1>3, <1>4, <1>5, <1>6, <1>7 DEF AuditNext

LEMMA AuditAlways == AuditSpec => []AuditInv
<1> QED
  BY AuditInitially, Invariance, PTL DEF AuditSpec
-----------------------------------------------------------------------------
(* What follows.                                                            *)

\* Every variable stays in its range: the count of healthz never gets below 0.
THEOREM AuditTypeCorrect == AuditSpec => []AuditTypeOK
<1> QED
  BY AuditAlways, PTL DEF AuditInv

\* The count of healthz is never below the number of rows that wait, and in a
\* process whose load ran beside its drain at most one below it
\* (incrementPendingAudits, decrementPendingAudits, setPendingAudits).
THEOREM CountCovers == AuditSpec => []NeverUnderReported
<1>1. AuditInv => NeverUnderReported
  <2> SUFFICES ASSUME AuditInv, NEW p \in Servers
               PROVE  gauge[p] + (IF beside[p] THEN 1 ELSE 0) >= Cardinality(pending[p])
    BY DEF NeverUnderReported
  <2>1. gauge[p] \in Nat /\ Cardinality(pending[p]) \in Nat /\ beside[p] \in BOOLEAN
    BY Counts, AuditShape DEF AuditInv
  <2>2. Count(p)
    BY DEF AuditInv, Queues
  <2> QED
    BY <2>1, <2>2 DEF Count
<1> QED
  BY <1>1, AuditAlways, PTL

\* A copy is removed only when audit_logs has the row (removePersistedAudit).
THEOREM CopiesOutlive == AuditSpec => CopyOutlivesDelivery
<1>1. AuditInv /\ [AuditNext]_auditVars => [outbox \ outbox' \subseteq history]_auditVars
  <2> SUFFICES ASSUME AuditInv, AuditNext, NEW r \in outbox, r \notin outbox' PROVE r \in history
    OBVIOUS
  <2>1. PICK p \in Servers : Remove(p)
    BY DEF AuditNext, Recording, Draining, Starting, Record, Persist, Write, Detach, Retry, StartDrain, Start, Select, Load,
           Dies, DueAgain, DeleteProject, Written, NotAnswered
  <2>2. drain[p].at = "remove" /\ r = drain[p].row
    BY <2>1 DEF Remove
  <2> QED
    BY <2>2 DEF AuditInv, Queues, Held
<1> QED
  BY <1>1, AuditAlways, PTL DEF AuditSpec, CopyOutlivesDelivery

\* A row that a drain has in hand and leaves behind is accepted, stored, waits
\* or was cleared by the load of its process.
LEMMA DrainsForget ==
  ASSUME AuditInv, NEW p \in Servers, Draining(p), NEW r \in Rows, Known(r), ~Known(r)'
  PROVE  r \notin outbox /\ Has(p, r) /\ r \in cleared'[p]
<1>0. AuditTypeOK /\ Held(p)
  BY DEF AuditInv, Queues
<1>1. r \notin history' /\ r \notin outbox' /\ \A q \in Servers : ~Has(q, r)'
  BY DEF Known
<1>2. UNCHANGED <<record, cleared>>
  BY DEF Draining, StartDrain, Write, Detach, Remove, Retry, loadVars
<1>3. history \subseteq history'
  BY DEF Draining, StartDrain, Write, Detach, Remove, Retry, Written, NotAnswered
<1>4. \A q \in Servers \ {p} : drain'[q] = drain[q] /\ pending'[q] = pending[q]
  BY <1>0, AuditShape DEF Draining, StartDrain, Write, Detach, Remove, Retry, Leaves, Detaches, DrainGoes, Onward
<1>5. r \notin history /\ \A q \in Servers \ {p} : ~Has(q, r)
  BY <1>1, <1>2, <1>3, <1>4 DEF Has
<1>6. ~(Home[r] = p /\ record[r] = "persist")
  BY <1>1, <1>2 DEF Has
<1>7. r # NoAudit
  BY AuditAssumption
<1>8. CASE Write(p) \/ Detach(p)
  <2> DEFINE s == drain[p].row
  <2>1. s \in Rows /\ outbox' = outbox
    BY <1>0, <1>8, AuditShape DEF Held, Write, Detach, DrainType
  <2>2. drain'[p].row = s
    BY <1>0, <1>8, AuditShape DEF Write, Detach, Leaves, Detaches, DrainGoes
  <2>3. pending[p] \subseteq pending'[p] \cup history'
    <3>1. CASE Written(history, s) /\ Leaves(p, s, "remove")
      <4>1. pending'[p] = pending[p] \ {s} /\ s \in history'
        BY <1>0, <3>1, AuditShape DEF Leaves, Written
      <4> QED
        BY <4>1
    <3>2. CASE UNCHANGED pending
      BY <3>2
    <3> QED
      BY <1>8, <3>1, <3>2 DEF Write, Detach, Detaches, Leaves
  <2>4. r \notin outbox /\ r \notin pending[p] /\ drain[p].row # r
    BY <1>1, <2>1, <2>2, <2>3 DEF Has
  <2> QED
    BY <1>5, <1>6, <2>4 DEF Known, Has
<1>9. CASE Remove(p) \/ StartDrain(p)
  <2>1. outbox \subseteq outbox' \cup history
    BY <1>0, <1>9 DEF Held, Remove, StartDrain
  <2>2. pending' = pending /\ drain[p].row \in history \cup {NoAudit}
    BY <1>0, <1>9 DEF Held, Remove, StartDrain
  <2> QED
    BY <1>1, <1>5, <1>6, <1>7, <2>1, <2>2 DEF Known, Has
<1>10. CASE Retry(p)
  <2>1. outbox \subseteq outbox' /\ pending' = pending /\ drain[p].at = "retry"
    BY <1>10 DEF Retry, Written, NotAnswered
  <2>2. r \notin outbox /\ r \notin pending[p]
    BY <1>1, <2>1 DEF Has
  <2>3. drain[p].row = r
    BY <1>5, <1>6, <2>2 DEF Known, Has
  <2>4. r \in cleared[p]
    BY <1>0, <1>5, <2>1, <2>2, <2>3 DEF Held
  <2> QED
    BY <1>2, <2>2, <2>3, <2>4 DEF Has
<1> QED
  BY <1>8, <1>9, <1>10 DEF Draining

\* A row that is written or waits is forgotten only while no copy is stored, by a
\* crash of the process that has it or because its load cleared the queue
\* (recordAudit, drainPendingAudits, loadPendingAudits).
THEOREM ForgottenWithCause == AuditSpec => ForgottenForCause
<1>1. AuditInv /\ [AuditNext]_auditVars =>
        [\A r \in Rows : Known(r) /\ ~Known(r)' =>
           /\ r \notin outbox
           /\ \E p \in Servers : Has(p, r) /\ (phase'[p] = "down" \/ r \in cleared'[p])]_auditVars
  <2> SUFFICES ASSUME AuditInv, AuditNext, NEW r \in Rows, Known(r), ~Known(r)'
               PROVE  r \notin outbox /\ \E p \in Servers : Has(p, r) /\ (phase'[p] = "down" \/ r \in cleared'[p])
    OBVIOUS
  <2>0. AuditTypeOK /\ Queues /\ r \notin history' /\ r \notin outbox' /\ \A p \in Servers : ~Has(p, r)'
    BY DEF Known, AuditInv
  <2>1. CASE Recording
    <3>1. PICK s \in Rows : Record(s) \/ Persist(s)
      BY <2>1 DEF Recording
    <3>2. history \subseteq history' /\ outbox \subseteq outbox' /\ UNCHANGED <<drain, cleared>>
      BY <3>1 DEF Record, Persist, Written, NotAnswered, loadVars
    <3>3. \A p \in Servers : pending[p] \subseteq pending'[p]
      BY <2>0, <3>1, AuditShape DEF Record, Persist, Waits
    <3>4. r \notin history /\ r \notin outbox /\ \A p \in Servers : r \notin pending[p] /\ drain[p].row # r
      BY <2>0, <3>2, <3>3 DEF Has
    <3>5. record[r] = "persist" /\ Has(Home[r], r) /\ Home[r] \in Servers
      BY <3>4, AuditAssumption DEF Known, Has
    <3>6. r \in cleared[Home[r]]
      BY <2>0, <3>4, <3>5 DEF Queues, Held
    <3> QED
      BY <3>2, <3>4, <3>5, <3>6
  <2>2. CASE \E p \in Servers : Draining(p)
    BY <2>2, DrainsForget
  <2>3. CASE \E p \in Servers : Starting(p)
    <3>1. PICK p \in Servers : Starting(p)
      BY <2>3
    <3>2. UNCHANGED <<record, drain, history, outbox>>
      BY <3>1 DEF Starting, Start, Select, Load
    <3>3. r \notin history /\ r \notin outbox /\ \E q \in Servers : r \in pending[q]
      BY <2>0, <3>2 DEF Known, Has
    <3>4. Load(p)
      BY <2>0, <3>1, <3>3 DEF Starting, Start, Select, Has
    <3>5. /\ \A q \in Servers \ {p} : pending'[q] = pending[q]
          /\ pending'[p] = read[p] /\ cleared'[p] = pending[p] \ read[p]
      BY <2>0, <3>4, AuditShape DEF Load
    <3>6. r \in pending[p] /\ r \notin read[p]
      BY <2>0, <3>3, <3>5 DEF Has
    <3> QED
      BY <3>3, <3>5, <3>6 DEF Has
  <2>4. CASE \E p \in Servers : Dies(p)
    <3>1. PICK p \in Servers : Dies(p)
      BY <2>4
    <3>2. /\ UNCHANGED <<history, outbox>> /\ phase'[p] = "down"
          /\ \A q \in Servers \ {p} : pending'[q] = pending[q] /\ drain'[q] = drain[q]
          /\ Home[r] # p => record'[r] = record[r]
      BY <2>0, <3>1, AuditShape DEF Dies
    <3>3. \A q \in Servers \ {p} : ~Has(q, r)
      BY <2>0, <3>2 DEF Has
    <3> QED
      BY <2>0, <3>2, <3>3 DEF Known
  <2>5. CASE DeleteProject \/ \E p \in Servers, s \in Rows : DueAgain(p, s)
    BY <2>0, <2>5 DEF DeleteProject, DueAgain, Known, Has
  <2> QED
    BY <2>1, <2>2, <2>3, <2>4, <2>5 DEF AuditNext
<1> QED
  BY <1>1, AuditAlways, PTL DEF AuditSpec, ForgottenForCause

\* Both: neither a waiting row nor its copy is lost but in those two ways.
THEOREM RowsAreKept == AuditSpec => NoRowLost
BY CopiesOutlive, ForgottenWithCause DEF NoRowLost
=============================================================================
