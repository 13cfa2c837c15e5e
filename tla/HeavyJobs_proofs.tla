---------------------------- MODULE HeavyJobs_proofs ---------------------------
(***************************************************************************)
(* Proofs about the in-process queue (JobQueue) and about the durable jobs *)
(* that create projects on it (ProjectBootstrap).                          *)
(*                                                                         *)
(* The queue bounds concurrency, tracks its ids, never runs two closures   *)
(* of one row and keeps the order, for any number of jobs, slots and       *)
(* pending places.                                                         *)
(*                                                                         *)
(* Of the bootstrap: the attempt number of a run is its own, for each      *)
(* claim raises the number of the row.  Hence a root has one maker, and a  *)
(* reclaim names the root of an attempt that is over for good.             *)
(***************************************************************************)
EXTENDS JobQueue, ProjectBootstrap, FiniteSetTheorems, SequenceTheorems, TLAPS
-----------------------------------------------------------------------------
(* The queue.                                                                *)

Elements(q) == {q[i] : i \in 1..Len(q)}

(* The queue, counter and id sets describe the closures they stand for.      *)
(* Stated of arbitrary values because drain() starts from a state between    *)
(* the assignments of its caller and its own.                                *)
Consistent(q, r, p, x, e) ==
  /\ q \in Seq(Closures)
  /\ e \in SUBSET Closures
  /\ IsFiniteSet(e)
  /\ r = Cardinality(e)
  /\ p = Named(Elements(q))
  /\ x = Named(e)
  /\ \A i, k \in 1..Len(q) :
       i # k => q[i] # q[k] /\ (IdOf[q[i]] # NoId => IdOf[q[i]] # IdOf[q[k]])
  /\ \A j, k \in e : j # k /\ IdOf[j] # NoId => IdOf[j] # IdOf[k]
  /\ \A i \in 1..Len(q), j \in e :
       q[i] # j /\ (IdOf[j] # NoId => IdOf[q[i]] # IdOf[j])

QueueInv ==
  /\ Consistent(queue, running, pendingIds, runningIds, executing)
  /\ running \in 0..Concurrency
  /\ WorkConserving
  /\ warned \in BOOLEAN

LEMMA NamedIds == \A S \in SUBSET Closures : Named(S) \in SUBSET Ids
BY IdAssumption DEF Named

LEMMA SmallerCases ==
  ASSUME NEW C \in Nat, NEW r \in 0..C, NEW l \in Nat, l <= 1 \/ r >= C - 1
  PROVE  \/ Smaller(C - r, l) = 0 /\ (l = 0 \/ r = C)
         \/ Smaller(C - r, l) = 1 /\ l > 0 /\ r < C
BY DEF Smaller

(* One turn of drain() starts at most one job when at most one slot is free  *)
(* or at most one job waits: the two situations its callers leave.           *)
LEMMA DrainOutcome ==
  ASSUME NEW q \in Seq(Closures), NEW r \in 0..Concurrency, NEW p, NEW x, NEW e,
         Len(q) <= 1 \/ r >= Concurrency - 1,
         DrainFrom(q, r, p, x, e)
  PROVE  \/ /\ Len(q) = 0 \/ r = Concurrency
            /\ queue' = q /\ running' = r /\ executing' = e
            /\ pendingIds' = p /\ runningIds' = x /\ warned' = warned
         \/ /\ Len(q) > 0 /\ r < Concurrency
            /\ queue' \in Seq(Closures)
            /\ Len(queue') = Len(q) - 1
            /\ \A i \in 1..Len(q) - 1 : queue'[i] = q[i + 1]
            /\ running' = r + 1 /\ executing' = e \cup {q[1]}
            /\ pendingIds' = p \ Named({q[1]})
            /\ runningIds' = x \cup Named({q[1]})
            /\ warned' = FALSE
<1> DEFINE n == Smaller(Concurrency - r, Len(q))
           started == {q[i] : i \in 1..n}
<1>1. Len(q) \in Nat /\ Concurrency \in Nat
  BY LimitsAssumption
<1>2. \/ n = 0 /\ (Len(q) = 0 \/ r = Concurrency)
      \/ n = 1 /\ Len(q) > 0 /\ r < Concurrency
  BY <1>1, SmallerCases
<1>3. /\ queue' = SubSeq(q, n + 1, Len(q))
      /\ running' = r + n
      /\ pendingIds' = p \ Named(started)
      /\ runningIds' = x \cup Named(started)
      /\ executing' = e \cup started
      /\ warned' = IF n > 0 THEN FALSE ELSE warned
  BY DEF DrainFrom
<1> HIDE DEF n, started
<1>4. CASE n = 0
  <2>1. Len(q) = 0 \/ r = Concurrency
    BY <1>2, <1>4
  <2>2. started = {} /\ Named(started) = {}
    BY <1>4 DEF started, Named
  <2>3. SubSeq(q, 0 + 1, Len(q)) = q
    BY SubSeqFull
  <2>4. running' = r
    BY <1>3, <1>4
  <2>5. queue' = q
    BY <1>3, <1>4, <2>3
  <2>6. warned' = warned
    BY <1>3, <1>4
  <2> QED
    BY <1>3, <2>1, <2>2, <2>4, <2>5, <2>6
<1>5. CASE n = 1
  <2>1. Len(q) > 0 /\ r < Concurrency
    BY <1>2, <1>5
  <2>2. started = {q[1]}
    BY <1>5 DEF started
  <2>3. \A i \in 2..Len(q) : q[i] \in Closures
    BY ElementOfSeq
  <2>4. /\ SubSeq(q, 2, Len(q)) \in Seq(Closures)
        /\ Len(SubSeq(q, 2, Len(q))) = IF 2 <= Len(q) THEN Len(q) - 2 + 1 ELSE 0
        /\ \A i \in 1..Len(q) - 2 + 1 : SubSeq(q, 2, Len(q))[i] = q[2 + i - 1]
    BY <1>1, <2>3, SubSeqProperties
  <2>5. queue' = SubSeq(q, 2, Len(q))
    BY <1>3, <1>5
  <2>6. /\ queue' \in Seq(Closures)
        /\ Len(queue') = Len(q) - 1
        /\ \A i \in 1..Len(q) - 1 : queue'[i] = q[i + 1]
    <3>1. Len(queue') = Len(q) - 1
      <4>1. \A l \in Nat : l > 0 => (IF 2 <= l THEN l - 2 + 1 ELSE 0) = l - 1
        OBVIOUS
      <4>2. Len(queue') = IF 2 <= Len(q) THEN Len(q) - 2 + 1 ELSE 0
        BY <2>4, <2>5
      <4> QED
        BY <1>1, <2>1, <4>1, <4>2
    <3>2. ASSUME NEW i \in 1..Len(q) - 1
          PROVE  queue'[i] = q[i + 1]
      <4>1. i \in 1..Len(q) - 2 + 1 /\ 2 + i - 1 = i + 1
        BY <1>1
      <4> QED
        BY <2>4, <2>5, <4>1
    <3> QED
      BY <2>4, <2>5, <3>1, <3>2
  <2>7. running' = r + 1 /\ warned' = FALSE
    BY <1>3, <1>5
  <2> QED
    BY <1>3, <2>1, <2>2, <2>6, <2>7
<1> QED
  BY <1>2, <1>4, <1>5

(* Whatever consistent state a caller hands to drain(), the state drain()    *)
(* leaves satisfies the inductive invariant.                                 *)
LEMMA DrainRestores ==
  ASSUME NEW q, NEW r \in 0..Concurrency, NEW p, NEW x, NEW e,
         Consistent(q, r, p, x, e),
         Len(q) <= 1 \/ r >= Concurrency - 1,
         warned \in BOOLEAN,
         DrainFrom(q, r, p, x, e)
  PROVE  QueueInv'
<1>1. q \in Seq(Closures) /\ Len(q) \in Nat /\ Concurrency \in Nat
  BY LimitsAssumption DEF Consistent
<1>2. CASE /\ Len(q) = 0 \/ r = Concurrency
           /\ queue' = q /\ running' = r /\ executing' = e
           /\ pendingIds' = p /\ runningIds' = x /\ warned' = warned
  <2>1. Consistent(queue', running', pendingIds', runningIds', executing')
    BY <1>2
  <2>2. WorkConserving'
    BY <1>1, <1>2, EmptySeq DEF WorkConserving
  <2> QED
    BY <1>2, <2>1, <2>2 DEF QueueInv
<1>3. CASE /\ Len(q) > 0 /\ r < Concurrency
           /\ queue' \in Seq(Closures)
           /\ Len(queue') = Len(q) - 1
           /\ \A i \in 1..Len(q) - 1 : queue'[i] = q[i + 1]
           /\ running' = r + 1 /\ executing' = e \cup {q[1]}
           /\ pendingIds' = p \ Named({q[1]})
           /\ runningIds' = x \cup Named({q[1]})
           /\ warned' = FALSE
  <2>1. 1 \in 1..Len(q) /\ q[1] \in Closures
    BY <1>1, <1>3, ElementOfSeq
  <2>2. \A i \in 1..Len(queue') :
          i \in 1..Len(q) - 1 /\ i + 1 \in 1..Len(q) /\ i + 1 # 1 /\ queue'[i] = q[i + 1]
    <3>1. \A l \in Nat : \A i \in 1..l - 1 : i + 1 \in 1..l /\ i + 1 # 1
      OBVIOUS
    <3> QED
      BY <1>1, <1>3, <3>1
  <2>3. q[1] \notin e
    BY <2>1 DEF Consistent
  <2>4. IsFiniteSet(executing') /\ running' = Cardinality(executing')
    BY <1>3, <2>3, FS_AddElement DEF Consistent
  <2>5. Elements(q) = Elements(queue') \cup {q[1]}
    <3>1. Elements(queue') \subseteq Elements(q)
      BY <2>2 DEF Elements
    <3>2. ASSUME NEW i \in 1..Len(q), i # 1
          PROVE  q[i] \in Elements(queue')
      <4>1. i - 1 \in 1..Len(queue') /\ (i - 1) + 1 = i
        BY <1>1, <1>3, <3>2
      <4>2. queue'[i - 1] = q[i]
        BY <2>2, <4>1
      <4> QED
        BY <4>1, <4>2 DEF Elements
    <3> QED
      BY <2>1, <3>1, <3>2 DEF Elements
  <2>6. \A j \in Elements(queue') : IdOf[j] # NoId => IdOf[j] # IdOf[q[1]]
    BY <2>1, <2>2 DEF Elements, Consistent
  <2>7. pendingIds' = Named(Elements(queue'))
    BY <1>3, <2>5, <2>6 DEF Named, Consistent
  <2>8. runningIds' = Named(executing')
    BY <1>3 DEF Named, Consistent
  <2>9. \A i, k \in 1..Len(queue') :
          i # k => /\ queue'[i] # queue'[k]
                   /\ IdOf[queue'[i]] # NoId => IdOf[queue'[i]] # IdOf[queue'[k]]
    <3> SUFFICES ASSUME NEW i \in 1..Len(queue'), NEW k \in 1..Len(queue'), i # k
                 PROVE  /\ queue'[i] # queue'[k]
                        /\ IdOf[queue'[i]] # NoId => IdOf[queue'[i]] # IdOf[queue'[k]]
      OBVIOUS
    <3>1. /\ i + 1 \in 1..Len(q) /\ k + 1 \in 1..Len(q) /\ i + 1 # k + 1
          /\ queue'[i] = q[i + 1] /\ queue'[k] = q[k + 1]
      <4>1. i + 1 # k + 1
        OBVIOUS
      <4> QED
        BY <2>2, <4>1
    <3>2. /\ q[i + 1] # q[k + 1]
          /\ IdOf[q[i + 1]] # NoId => IdOf[q[i + 1]] # IdOf[q[k + 1]]
      BY <3>1 DEF Consistent
    <3> QED
      BY <3>1, <3>2
  <2>10. \A j, k \in executing' : j # k /\ IdOf[j] # NoId => IdOf[j] # IdOf[k]
    BY <1>3, <2>1 DEF Consistent
  <2>11. \A i \in 1..Len(queue'), j \in executing' :
           queue'[i] # j /\ (IdOf[j] # NoId => IdOf[queue'[i]] # IdOf[j])
    BY <1>3, <2>1, <2>2 DEF Consistent
  <2>12. executing' \in SUBSET Closures
    BY <1>3, <2>1 DEF Consistent
  <2>13. Consistent(queue', running', pendingIds', runningIds', executing')
    BY <1>3, <2>4, <2>7, <2>8, <2>9, <2>10, <2>11, <2>12 DEF Consistent
  <2>14. WorkConserving'
    <3>1. Len(queue') = 0 => queue' = <<>>
      BY <1>3, EmptySeq
    <3>2. Len(queue') # 0 => running' = Concurrency
      BY <1>1, <1>3
    <3> QED
      BY <3>1, <3>2 DEF WorkConserving
  <2>15. running' \in 0..Concurrency
    BY <1>1, <1>3
  <2> QED
    BY <1>3, <2>13, <2>14, <2>15 DEF QueueInv
<1>4. \/ /\ Len(q) = 0 \/ r = Concurrency
         /\ queue' = q /\ running' = r /\ executing' = e
         /\ pendingIds' = p /\ runningIds' = x /\ warned' = warned
      \/ /\ Len(q) > 0 /\ r < Concurrency
         /\ queue' \in Seq(Closures)
         /\ Len(queue') = Len(q) - 1
         /\ \A i \in 1..Len(q) - 1 : queue'[i] = q[i + 1]
         /\ running' = r + 1 /\ executing' = e \cup {q[1]}
         /\ pendingIds' = p \ Named({q[1]})
         /\ runningIds' = x \cup Named({q[1]})
         /\ warned' = FALSE
  BY <1>1, DrainOutcome
<1> QED
  BY <1>2, <1>3, <1>4

LEMMA AppendConsistent ==
  ASSUME QueueInv, NEW j \in Closures, Fresh(j), IdOf[j] # NoId => ~Has(IdOf[j])
  PROVE  /\ Consistent(Append(queue, j), running, pendingIds \cup Named({j}),
                       runningIds, executing)
         /\ Len(Append(queue, j)) <= 1 \/ running >= Concurrency - 1
<1> DEFINE q == Append(queue, j)
<1>1. queue \in Seq(Closures) /\ Len(queue) \in Nat /\ Concurrency \in Nat
  BY LimitsAssumption DEF QueueInv, Consistent
<1>2. /\ q \in Seq(Closures) /\ Len(q) = Len(queue) + 1
      /\ \A i \in 1..Len(queue) : q[i] = queue[i]
      /\ q[Len(q)] = j
  BY <1>1
<1>3. \A i \in 1..Len(q) : i \in 1..Len(queue) \/ i = Len(q)
  BY <1>1, <1>2
<1> HIDE DEF q
<1>4. \A i \in 1..Len(queue) :
        queue[i] # j /\ (IdOf[j] # NoId => IdOf[queue[i]] # IdOf[j])
  BY DEF QueueInv, Consistent, Fresh, Waiting, Has, Named, Elements
<1>5. \A k \in executing : k # j /\ (IdOf[j] # NoId => IdOf[k] # IdOf[j])
  BY DEF QueueInv, Consistent, Fresh, Has, Named
<1>6. Elements(q) = Elements(queue) \cup {j}
  <2>1. 1..Len(q) = 1..Len(queue) \cup {Len(q)}
    BY <1>1, <1>2
  <2> QED
    BY <1>2, <2>1 DEF Elements
<1>7. \A i, k \in 1..Len(q) :
        i # k => q[i] # q[k] /\ (IdOf[q[i]] # NoId => IdOf[q[i]] # IdOf[q[k]])
  BY <1>2, <1>3, <1>4 DEF QueueInv, Consistent
<1>8. \A i \in 1..Len(q), k \in executing :
        q[i] # k /\ (IdOf[k] # NoId => IdOf[q[i]] # IdOf[k])
  BY <1>2, <1>3, <1>5 DEF QueueInv, Consistent
<1>9. pendingIds \cup Named({j}) = Named(Elements(q))
  BY <1>6 DEF Named, QueueInv, Consistent
<1>10. Consistent(q, running, pendingIds \cup Named({j}), runningIds, executing)
  BY <1>2, <1>7, <1>8, <1>9 DEF QueueInv, Consistent
<1>11. Len(q) <= 1 \/ running >= Concurrency - 1
  <2>1. CASE queue = <<>>
    BY <1>2, <2>1
  <2>2. CASE running = Concurrency
    BY <1>1, <2>2
  <2> QED
    BY <2>1, <2>2 DEF QueueInv, WorkConserving
<1> QED
  BY <1>10, <1>11 DEF q

LEMMA SettleConsistent ==
  ASSUME QueueInv, NEW j \in executing
  PROVE  /\ Consistent(queue, running - 1, pendingIds, runningIds \ {IdOf[j]},
                       executing \ {j})
         /\ running - 1 \in 0..Concurrency
         /\ Len(queue) <= 1 \/ running - 1 >= Concurrency - 1
<1>1. queue \in Seq(Closures) /\ Concurrency \in Nat /\ running \in 0..Concurrency
  BY LimitsAssumption DEF QueueInv, Consistent
<1>2. IsFiniteSet(executing \ {j}) /\ Cardinality(executing \ {j}) = running - 1
  BY FS_RemoveElement DEF QueueInv, Consistent
<1>3. running - 1 \in 0..Concurrency
  <2>1. Cardinality(executing \ {j}) \in Nat
    BY <1>2, FS_CardinalityType
  <2> QED
    BY <1>1, <1>2, <2>1
<1>4. runningIds \ {IdOf[j]} = Named(executing \ {j})
  BY DEF QueueInv, Consistent, Named
<1>5. Consistent(queue, running - 1, pendingIds, runningIds \ {IdOf[j]}, executing \ {j})
  BY <1>2, <1>4 DEF QueueInv, Consistent
<1>6. Len(queue) <= 1 \/ running - 1 >= Concurrency - 1
  BY <1>1, EmptySeq DEF QueueInv, WorkConserving
<1> QED
  BY <1>3, <1>5, <1>6

(* The inductive invariant holds initially and every call preserves it.      *)
LEMMA QueueInvariance == QueueSpec => []QueueInv
<1>1. QueueInit => QueueInv
  <2> SUFFICES ASSUME QueueInit PROVE QueueInv
    OBVIOUS
  <2>1. Elements(queue) = {} /\ Named(Elements(queue)) = {} /\ Named(executing) = {}
    BY DEF QueueInit, Elements, Named
  <2>2. IsFiniteSet(executing) /\ Cardinality(executing) = 0
    BY FS_EmptySet DEF QueueInit
  <2>3. 0 \in 0..Concurrency
    BY LimitsAssumption
  <2>4. queue \in Seq(Closures) /\ 1..Len(queue) = {}
    BY EmptySeq DEF QueueInit
  <2>5. Consistent(queue, running, pendingIds, runningIds, executing)
    BY <2>1, <2>2, <2>4 DEF QueueInit, Consistent
  <2> QED
    BY <2>3, <2>5 DEF QueueInit, QueueInv, WorkConserving
<1>2. QueueInv /\ [QueueNext]_queueVars => QueueInv'
  <2> SUFFICES ASSUME QueueInv, [QueueNext]_queueVars PROVE QueueInv'
    OBVIOUS
  <2>1. running \in 0..Concurrency /\ warned \in BOOLEAN
    BY DEF QueueInv
  <2>2. ASSUME NEW j \in Closures, EnqueueWithId(j) PROVE QueueInv'
    <3>1. Named({j}) = {IdOf[j]}
      BY <2>2 DEF EnqueueWithId, Named
    <3>2. DrainFrom(Append(queue, j), running, pendingIds \cup Named({j}), runningIds, executing)
      BY <2>2, <3>1 DEF EnqueueWithId
    <3> QED
      BY <2>1, <2>2, <3>2, AppendConsistent, DrainRestores DEF EnqueueWithId
  <2>3. ASSUME NEW j \in Closures, EnqueueAnonymous(j) PROVE QueueInv'
    <3>1. pendingIds \cup Named({j}) = pendingIds
      BY <2>3 DEF EnqueueAnonymous, Named
    <3>2. DrainFrom(Append(queue, j), running, pendingIds \cup Named({j}), runningIds, executing)
      BY <2>3, <3>1 DEF EnqueueAnonymous
    <3> QED
      BY <2>1, <2>3, <3>2, AppendConsistent, DrainRestores DEF EnqueueAnonymous
  <2>4. ASSUME NEW j \in Closures, RefuseWithId(j) \/ RefuseAnonymous(j) PROVE QueueInv'
    BY <2>4 DEF RefuseWithId, RefuseAnonymous, ReportFull, QueueInv, WorkConserving
  <2>5. ASSUME NEW j \in Closures, Settle(j) PROVE QueueInv'
    BY <2>1, <2>5, SettleConsistent, DrainRestores DEF Settle
  <2>6. CASE UNCHANGED queueVars
    BY <2>6 DEF queueVars, QueueInv, WorkConserving
  <2> QED
    BY <2>2, <2>3, <2>4, <2>5, <2>6 DEF QueueNext
<1> QED
  BY <1>1, <1>2, PTL DEF QueueSpec

LEMMA InvariantImplies ==
  QueueInv => QueueTypeOK /\ SlotsAccurate /\ TrackingAccurate /\ NoDoubleExecution /\ WorkConserving
<1> SUFFICES ASSUME QueueInv
             PROVE  QueueTypeOK /\ SlotsAccurate /\ TrackingAccurate /\ NoDoubleExecution /\ WorkConserving
  OBVIOUS
<1>1. Elements(queue) = Waiting /\ Waiting \in SUBSET Closures
  BY ElementOfSeq DEF QueueInv, Consistent, Elements, Waiting
<1>2. QueueTypeOK
  BY <1>1, NamedIds DEF QueueInv, Consistent, QueueTypeOK
<1>3. SlotsAccurate
  BY LimitsAssumption DEF QueueInv, Consistent, SlotsAccurate
<1>4. TrackingAccurate
  BY <1>1 DEF QueueInv, Consistent, TrackingAccurate
<1>5. NoDoubleExecution
  BY DEF QueueInv, Consistent, NoDoubleExecution
<1> QED
  BY <1>2, <1>3, <1>4, <1>5 DEF QueueInv

(* The queue's state is well typed.                                          *)
THEOREM TypeCorrect == QueueSpec => []QueueTypeOK
BY QueueInvariance, InvariantImplies, PTL

(* running counts the jobs in flight exactly and never exceeds the limit:    *)
(* the concurrency bound of job-queue.ts holds for every queue.              *)
THEOREM ConcurrencyBounded == QueueSpec => []SlotsAccurate
BY QueueInvariance, InvariantImplies, PTL

(* has() is truthful: the id sets are the ids of the tracked closures.       *)
THEOREM TrackingCorrect == QueueSpec => []TrackingAccurate
BY QueueInvariance, InvariantImplies, PTL

(* Two closures of one row are never in the queue together (PR-D1).          *)
THEOREM NoDoubleExecutionHolds == QueueSpec => []NoDoubleExecution
BY QueueInvariance, InvariantImplies, PTL

(* No job waits while a slot is free.                                        *)
THEOREM WorkConservation == QueueSpec => []WorkConserving
BY QueueInvariance, InvariantImplies, PTL

(* All of it together, which is what the runs check.                         *)
THEOREM BookkeepingHolds == QueueSpec => []Bookkeeping
BY QueueInvariance, InvariantImplies, PTL DEF Bookkeeping
-----------------------------------------------------------------------------
(* The order of the queue.                                                   *)

LEMMA SubSeqOfAppend ==
  ASSUME NEW S, NEW s \in Seq(S), NEW j \in S, NEW n \in 0..Len(s)
  PROVE  SubSeq(Append(s, j), n + 1, Len(s) + 1) = Append(SubSeq(s, n + 1, Len(s)), j)
<1> DEFINE a == Append(s, j)
           u == SubSeq(a, n + 1, Len(s) + 1)
           v == SubSeq(s, n + 1, Len(s))
<1>1. Len(s) \in Nat /\ n \in Nat /\ n <= Len(s)
  BY LenProperties
<1>2. /\ a \in Seq(S) /\ Len(a) = Len(s) + 1 /\ a[Len(s) + 1] = j
      /\ \A i \in 1..Len(s) : a[i] = s[i]
  BY <1>1
<1>3. \A i \in n + 1..Len(s) + 1 : a[i] \in S
  BY <1>1, <1>2, ElementOfSeq
<1> HIDE DEF a
<1>4. /\ u \in Seq(S) /\ Len(u) = Len(s) - n + 1
      /\ \A i \in 1..Len(s) - n + 1 : u[i] = a[n + i]
  <2>1. /\ u \in Seq(S)
        /\ Len(u) = IF n + 1 <= Len(s) + 1 THEN Len(s) + 1 - (n + 1) + 1 ELSE 0
        /\ \A i \in 1..Len(s) + 1 - (n + 1) + 1 : u[i] = a[n + 1 + i - 1]
    BY <1>1, <1>3, SubSeqProperties
  <2> HIDE DEF u
  <2> QED
    BY <1>1, <2>1
<1>5. /\ v \in Seq(S) /\ Len(v) = Len(s) - n
      /\ \A i \in 1..Len(s) - n : v[i] = s[n + i]
  <2>1. \A i \in n + 1..Len(s) : s[i] \in S
    BY <1>1, ElementOfSeq
  <2>2. /\ v \in Seq(S)
        /\ Len(v) = IF n + 1 <= Len(s) THEN Len(s) - (n + 1) + 1 ELSE 0
        /\ \A i \in 1..Len(s) - (n + 1) + 1 : v[i] = s[n + 1 + i - 1]
    BY <1>1, <2>1, SubSeqProperties
  <2> HIDE DEF v
  <2> QED
    BY <1>1, <2>2
<1> HIDE DEF u, v
<1>6. /\ Append(v, j) \in Seq(S) /\ Len(Append(v, j)) = Len(s) - n + 1
      /\ Append(v, j)[Len(s) - n + 1] = j
      /\ \A i \in 1..Len(s) - n : Append(v, j)[i] = v[i]
  BY <1>1, <1>5
<1>7. ASSUME NEW i \in 1..Len(u)
      PROVE  u[i] = Append(v, j)[i]
  <2>1. i \in 1..Len(s) - n \/ i = Len(s) - n + 1
    BY <1>1, <1>4
  <2>2. CASE i \in 1..Len(s) - n
    <3>1. n + i \in 1..Len(s) /\ i \in 1..Len(s) - n + 1
      BY <1>1, <2>2
    <3> QED
      BY <1>2, <1>4, <1>5, <1>6, <2>2, <3>1
  <2>3. CASE i = Len(s) - n + 1
    <3>1. n + i = Len(s) + 1 /\ i \in 1..Len(s) - n + 1
      BY <1>1, <2>3
    <3> QED
      BY <1>2, <1>4, <1>6, <2>3, <3>1
  <2> QED
    BY <2>1, <2>2, <2>3
<1>8. u = Append(v, j)
  BY <1>4, <1>6, <1>7, SeqEqual
<1> QED
  BY <1>8 DEF a, u, v

(* What drain() leaves is what it found without some of the oldest jobs.     *)
LEMMA DrainTakesOldest ==
  ASSUME NEW q \in Seq(Closures), NEW r \in 0..Concurrency, NEW p, NEW x, NEW e,
         DrainFrom(q, r, p, x, e)
  PROVE  \E n \in 0..Len(q) : queue' = SubSeq(q, n + 1, Len(q))
<1>1. Smaller(Concurrency - r, Len(q)) \in 0..Len(q)
  BY LimitsAssumption, LenProperties DEF Smaller
<1> QED
  BY <1>1 DEF DrainFrom

(* Jobs start in the order they were accepted: drain() takes the oldest and  *)
(* an accepted job joins at the end, whether or not it starts at once.       *)
THEOREM JobsStartInOrder == QueueSpec => StartsInOrder
<1> DEFINE rest(n) == SubSeq(queue, n + 1, Len(queue))
           Step == \E n \in 0..Len(queue) :
                     \/ queue' = rest(n)
                     \/ \E j \in Closures \ Waiting : queue' = Append(rest(n), j)
<1>1. QueueInv /\ [QueueNext]_queueVars => [Step]_queueVars
  <2> SUFFICES ASSUME QueueInv, QueueNext PROVE Step
    OBVIOUS
  <2>1. /\ queue \in Seq(Closures) /\ running \in 0..Concurrency /\ Len(queue) \in Nat
        /\ executing \subseteq Closures
    BY LenProperties DEF QueueInv, Consistent
  <2>2. rest(0) = queue /\ 0 \in 0..Len(queue)
    BY <2>1, SubSeqFull
  <2> HIDE DEF rest
  <2>3. ASSUME NEW j \in Closures, Fresh(j), NEW p, NEW x,
               DrainFrom(Append(queue, j), running, p, x, executing)
        PROVE  Step
    <3>1. Append(queue, j) \in Seq(Closures) /\ Len(Append(queue, j)) = Len(queue) + 1
      BY <2>1
    <3>2. PICK n \in 0..Len(queue) + 1 : queue' = SubSeq(Append(queue, j), n + 1, Len(queue) + 1)
      BY <2>1, <2>3, <3>1, DrainTakesOldest
    <3>3. CASE n <= Len(queue)
      <4>1. n \in 0..Len(queue)
        BY <2>1, <3>3
      <4>2. queue' = Append(rest(n), j)
        BY <2>1, <3>2, <4>1, SubSeqOfAppend DEF rest
      <4>3. j \in Closures \ Waiting
        BY <2>3 DEF Fresh
      <4> QED
        BY <4>1, <4>2, <4>3
    <3>4. CASE n = Len(queue) + 1
      <4>1. queue' = <<>>
        BY <2>1, <3>2, <3>4, SubSeqEmpty
      <4>2. rest(Len(queue)) = <<>>
        BY <2>1, SubSeqEmpty DEF rest
      <4> QED
        BY <2>1, <4>1, <4>2
    <3> QED
      BY <2>1, <3>3, <3>4
  <2>4. ASSUME NEW j \in Closures, EnqueueWithId(j) PROVE Step
    BY <2>3, <2>4 DEF EnqueueWithId
  <2>5. ASSUME NEW j \in Closures, EnqueueAnonymous(j) PROVE Step
    BY <2>3, <2>5 DEF EnqueueAnonymous
  <2>6. ASSUME NEW j \in Closures, RefuseWithId(j) \/ RefuseAnonymous(j) PROVE Step
    BY <2>2, <2>6 DEF RefuseWithId, RefuseAnonymous, ReportFull
  <2>7. ASSUME NEW j \in Closures, Settle(j) PROVE Step
    <3>1. running - 1 \in 0..Concurrency
      BY <2>7, SettleConsistent DEF Settle
    <3>2. \E n \in 0..Len(queue) : queue' = rest(n)
      BY <2>1, <2>7, <3>1, DrainTakesOldest DEF Settle, rest
    <3> QED
      BY <3>2
  <2> QED
    BY <2>4, <2>5, <2>6, <2>7 DEF QueueNext
<1>2. [Step]_queueVars => [\E n \in 0..Len(queue) :
       LET remains == SubSeq(queue, n + 1, Len(queue))
       IN  \/ queue' = remains
           \/ \E j \in Closures \ Waiting : queue' = Append(remains, j)]_queueVars
  OBVIOUS
<1> QED
  BY <1>1, <1>2, QueueInvariance, PTL DEF QueueSpec, StartsInOrder
-----------------------------------------------------------------------------
(* The bootstrap jobs.                                                       *)

RunType ==
  [at : {"none", "queued", "root", "copy", "copying", "install", "commit", "clean", "fail"},
   n : 0..MaxAttempts, lost : BOOLEAN]

\* The row of a job: only a running attempt has a root in the row.
RowInv ==
  \A j \in Jobs :
    /\ status[j] = "running" => attempt[j] > 0
    /\ j \in working => status[j] = "running"

\* The run r of a process for job j, whose row has status st, attempt n and lease
\* le.  Its root is there when it is to become a project's; once its project is
\* inserted the run has only lost the answer.
RunIs(j, r, n, st, le, rts, made) ==
  /\ r.n <= n /\ (r.at \in {"none", "queued"} <=> r.n = 0)
  /\ r.lost => r.at = "clean"
  /\ r.at = "commit" /\ r.n = n /\ st = "running" /\ le = "live" => <<j, r.n>> \in rts
  /\ <<j, r.n>> \in made => r.at \in {"clean", "fail"} /\ ~r.lost

RunOK(p, j) == RunIs(j, run[p][j], attempt[j], status[j], lease[j], roots, projects)

RunInv == \A p \in Procs, j \in Jobs : RunOK(p, j)

OneRun == \A p, q \in Procs, j \in Jobs : run[p][j].n = run[q][j].n /\ run[p][j].n # 0 => p = q

\* What is being removed belongs to an attempt that is over.
RemovedIsOver ==
  \A p \in Procs : \A x \in removing[p] :
    /\ x \notin projects /\ x[2] <= attempt[x[1]]
    /\ attempt[x[1]] = x[2] => status[x[1]] \notin {"running", "completed"}

\* A job is completed when it has its project, the only one.
MadeOnce ==
  /\ \A x \in projects : status[x[1]] = "completed"
  /\ \A j \in Jobs : status[j] = "completed" => \E n \in 1..MaxAttempts : <<j, n>> \in projects
  /\ \A x, y \in projects : x[1] = y[1] => x = y

IInv == TypeOK /\ MadeOnce /\ RowInv /\ RunInv /\ OneRun /\ RemovedIsOver
-----------------------------------------------------------------------------
LEMMA RootFacts ==
  ASSUME NEW x \in AllRoots
  PROVE  x[1] \in Jobs /\ x[2] \in 1..MaxAttempts /\ x = <<x[1], x[2]>>
BY DEF AllRoots

\* A removal takes none but the roots it is asked to take, and writes down those it
\* leaves.
LEMMA Removed ==
  ASSUME TypeOK, NEW S \in SUBSET AllRoots, Remove(S)
  PROVE  /\ roots' \subseteq roots /\ roots \ S \subseteq roots'
         /\ marked' \in SUBSET AllRoots /\ left' \in SUBSET AllRoots /\ faults' \in 0..MaxFaults
         /\ left \subseteq left' /\ S \cap roots' \subseteq left'
         /\ \A x : S = {x} => roots' = roots \/ roots' = roots \ {x}
<1>1. \/ roots' = roots \ (S \cap marked) /\ marked' = marked \ S /\ UNCHANGED faults
      \/ Fault("remove") /\ UNCHANGED roots /\ marked' \in {marked, marked \ S}
  BY DEF Remove
<1>2. roots' \subseteq roots /\ roots \ S \subseteq roots' /\ marked' \in SUBSET AllRoots
  BY <1>1 DEF TypeOK
<1>3. faults' \in 0..MaxFaults
  BY <1>1, ConstantsAssumption DEF Fault, TypeOK
<1>4. left' = left \cup (S \cap roots') /\ left' \in SUBSET AllRoots
  BY DEF Remove, TypeOK
<1>5. ASSUME NEW x, S = {x} PROVE roots' = roots \/ roots' = roots \ {x}
  BY <1>2, <1>5
<1> QED
  BY <1>2, <1>3, <1>4, <1>5

LEMMA FaultTypes ==
  ASSUME faults \in 0..MaxFaults, NEW kind, Fault(kind) \/ UNCHANGED faults
  PROVE  faults' \in 0..MaxFaults
BY ConstantsAssumption DEF Fault

\* What is said of a run holds on when its root is as it was and it does not
\* come to own the row.
LEMMA RunKept ==
  ASSUME NEW q, NEW k, RunOK(q, k), run'[q][k] = run[q][k],
         attempt[k] \in Nat, attempt'[k] \in Nat, run[q][k].n \in Nat, attempt[k] <= attempt'[k],
         <<k, run[q][k].n>> \in roots' <=> <<k, run[q][k].n>> \in roots,
         <<k, run[q][k].n>> \in projects' => <<k, run[q][k].n>> \in projects,
         Owns(q, k)' => Owns(q, k)
  PROVE  RunOK(q, k)'
<1>1. run'[q][k].n <= attempt'[k]
  BY DEF RunOK, RunIs
<1> QED
  BY <1>1 DEF RunOK, RunIs, Owns

\* A run that has begun has a root of its own.
LEMMA RunFacts ==
  ASSUME IInv, NEW p \in Procs, NEW j \in Jobs, run[p][j].at \notin {"none", "queued"}
  PROVE  /\ run[p][j].n \in 1..MaxAttempts /\ RootOf(p, j) \in AllRoots
         /\ RootOf(p, j)[1] = j /\ RootOf(p, j)[2] = run[p][j].n
         /\ \A q \in Procs, k \in Jobs : <<k, run[q][k].n>> = RootOf(p, j) => q = p /\ k = j
<1>1. run[p][j] \in RunType /\ RunOK(p, j)
  BY DEF IInv, TypeOK, RunType, RunInv
<1>2. run[p][j].n \in 1..MaxAttempts
  BY <1>1, ConstantsAssumption DEF RunType, RunOK, RunIs
<1>3. \A q \in Procs, k \in Jobs : <<k, run[q][k].n>> = RootOf(p, j) => q = p /\ k = j
  BY <1>2 DEF RootOf, IInv, OneRun
<1> QED
  BY <1>2, <1>3 DEF RootOf, AllRoots

\* A step of one run that leaves the rows and the projects as they are.
LEMMA RunMoves ==
  ASSUME IInv, NEW p \in Procs, NEW j \in Jobs, NEW r \in RunType,
         run' = [run EXCEPT ![p][j] = r], r.n \in {0, run[p][j].n},
         UNCHANGED <<row, projects, removing>>, faults' \in 0..MaxFaults,
         marked' \in SUBSET AllRoots, left' \in SUBSET AllRoots,
         \/ UNCHANGED roots
         \/ run[p][j].at \notin {"none", "queued"} /\ roots' \in {roots \cup {RootOf(p, j)}, roots \ {RootOf(p, j)}},
         RunIs(j, r, attempt[j], status[j], lease[j], roots', projects)
  PROVE  IInv'
<1> USE DEF IInv
<1>1. /\ run \in [Procs -> [Jobs -> RunType]] /\ run' \in [Procs -> [Jobs -> RunType]]
      /\ run'[p][j] = r
      /\ \A q \in Procs, k \in Jobs : q # p \/ k # j => run'[q][k] = run[q][k]
  BY DEF TypeOK, RunType
<1>2. UNCHANGED <<status, attempt, lease, working>>
  BY DEF row
<1>3. TypeOK'
  <2>1. roots' \subseteq AllRoots
    BY RunFacts DEF TypeOK
  <2> QED
    BY <1>1, <1>2, <2>1 DEF TypeOK, RunType
<1>4. MadeOnce' /\ RowInv' /\ RemovedIsOver'
  BY <1>2 DEF MadeOnce, RowInv, RemovedIsOver
<1>5. RunInv'
  <2>0. RunOK(p, j)'
    BY <1>1, <1>2 DEF RunOK
  <2> SUFFICES ASSUME NEW q \in Procs, NEW k \in Jobs, q # p \/ k # j PROVE RunOK(q, k)'
    BY <2>0 DEF RunInv
  <2>1. run'[q][k] = run[q][k] /\ run[q][k].n \in Nat /\ attempt[k] \in Nat
    BY <1>1, ConstantsAssumption DEF RunType, TypeOK
  <2>2. <<k, run[q][k].n>> \in roots' <=> <<k, run[q][k].n>> \in roots
    BY RunFacts
  <2>3. Owns(q, k)' => Owns(q, k)
    BY <1>2, <2>1 DEF Owns
  <2> QED
    BY <1>2, <2>1, <2>2, <2>3, RunKept DEF RunInv
<1>6. OneRun'
  BY <1>1 DEF OneRun
<1> QED
  BY <1>3, <1>4, <1>5, <1>6

\* Where Goes, Loses and Ends take a run.
At(p, j, at, lost) == [at |-> at, n |-> run[p][j].n, lost |-> lost]

LEMMA RunTo ==
  ASSUME IInv, NEW p \in Procs, NEW j \in Jobs
  PROVE  /\ \A at : Goes(p, j, at) => run' = [run EXCEPT ![p][j] = At(p, j, at, run[p][j].lost)]
         /\ Fails(p, j) => run' = [run EXCEPT ![p][j] = At(p, j, "clean", run[p][j].lost)]
         /\ Loses(p, j) => run' = [run EXCEPT ![p][j] = At(p, j, "clean", TRUE)]
         /\ Ends(p, j) => run' = [run EXCEPT ![p][j] = NoRun]
<1>1. run \in [Procs -> [Jobs -> RunType]]
  BY DEF IInv, TypeOK, RunType
<1>2. run[p] \in [Jobs -> RunType] /\ run[p][j] \in RunType
  BY <1>1
<1>3. \A at : [run[p][j] EXCEPT !.at = at] = At(p, j, at, run[p][j].lost)
  BY <1>2 DEF RunType, At
<1>4. [[run[p][j] EXCEPT !.at = "clean"] EXCEPT !.lost = TRUE] = At(p, j, "clean", TRUE)
  <2>1. [run[p][j] EXCEPT !.at = "clean"] = At(p, j, "clean", run[p][j].lost)
    BY <1>3
  <2>2. \A r \in RunType, b \in BOOLEAN : [r EXCEPT !.lost = b] = [at |-> r.at, n |-> r.n, lost |-> b]
    BY DEF RunType
  <2>3. /\ At(p, j, "clean", run[p][j].lost) \in RunType
        /\ At(p, j, "clean", run[p][j].lost).at = "clean" /\ At(p, j, "clean", run[p][j].lost).n = run[p][j].n
    BY <1>2 DEF RunType, At
  <2> QED
    BY <2>1, <2>2, <2>3 DEF At
<1>5. ASSUME NEW at, Goes(p, j, at)
      PROVE  run' = [run EXCEPT ![p][j] = At(p, j, at, run[p][j].lost)]
  BY <1>1, <1>2, <1>3, <1>5 DEF Goes
<1>6. ASSUME Loses(p, j)
      PROVE  run' = [run EXCEPT ![p][j] = At(p, j, "clean", TRUE)]
  <2>1. run' = [run EXCEPT ![p] = [run[p] EXCEPT ![j] = [[run[p][j] EXCEPT !.at = "clean"] EXCEPT !.lost = TRUE]]]
    BY <1>1, <1>2, <1>6 DEF Loses
  <2> QED
    BY <1>4, <2>1
<1> QED
  BY <1>5, <1>6 DEF Ends, Fails

LEMMA AtFacts ==
  ASSUME IInv, NEW p \in Procs, NEW j \in Jobs,
         NEW at \in {"queued", "root", "copy", "copying", "install", "commit", "clean", "fail"}, NEW lost \in BOOLEAN
  PROVE  /\ At(p, j, at, lost) \in RunType
         /\ At(p, j, at, lost).at = at /\ At(p, j, at, lost).n = run[p][j].n /\ At(p, j, at, lost).lost = lost
         /\ run[p][j] \in RunType /\ run[p][j].lost \in BOOLEAN
<1>1. run[p][j] \in RunType
  BY DEF IInv, TypeOK, RunType
<1> QED
  BY <1>1 DEF At, RunType

LEMMA ClaimedRun ==
  ASSUME NEW r \in RunType, NEW at, NEW n
  PROVE  [r EXCEPT !.at = at, !.n = n] = [at |-> at, n |-> n, lost |-> r.lost]
<1> DEFINE r2 == [r EXCEPT !.at = at]
<1>1. r2 \in [at : {at}, n : 0..MaxAttempts, lost : {r.lost}]
  BY DEF RunType
<1> HIDE DEF r2
<1>2. [r2 EXCEPT !.n = n] = [at |-> at, n |-> n, lost |-> r.lost]
  BY <1>1
<1> QED
  BY <1>2 DEF r2

LEMMA NoRunFacts == NoRun \in RunType /\ NoRun.at = "none" /\ NoRun.n = 0 /\ NoRun.lost = FALSE
BY ConstantsAssumption DEF NoRun, RunType
-----------------------------------------------------------------------------
(* The steps.                                                               *)

LEMMA Initially == Init => IInv
<1> SUFFICES ASSUME Init PROVE IInv
  OBVIOUS
<1>1. TypeOK
  BY ConstantsAssumption DEF Init, TypeOK, NoRun
<1>2. MadeOnce /\ RowInv /\ OneRun /\ RemovedIsOver
  BY DEF Init, MadeOnce, RowInv, OneRun, RemovedIsOver, NoRun
<1>3. RunInv
  BY DEF Init, RunInv, RunOK, RunIs, NoRun
<1> QED
  BY <1>1, <1>2, <1>3 DEF IInv

\* The steps of a run that touch neither the row nor the projects.
LEMMA RunSteps ==
  ASSUME IInv, NEW p \in Procs, NEW j \in Jobs,
         Enqueue(p, j) \/ StartCopy(p, j) \/ EndCopy(p, j) \/ Install(p, j) \/ Clean(p, j)
  PROVE  IInv'
<1> DEFINE old == run[p][j]
           Becomes(to) == run' = [run EXCEPT ![p][j] = to] /\ RunIs(j, to, attempt[j], status[j], lease[j], roots', projects)
<1>0. /\ run[p][j] \in RunType /\ RunIs(j, old, attempt[j], status[j], lease[j], roots, projects)
      /\ attempt[j] \in Nat /\ <<j, 0>> \notin projects
      /\ marked \in SUBSET AllRoots /\ left \in SUBSET AllRoots /\ faults \in 0..MaxFaults
  BY ConstantsAssumption DEF IInv, TypeOK, RunType, RunInv, RunOK, AllRoots
<1>1. /\ UNCHANGED <<row, projects, removing>> /\ faults' \in 0..MaxFaults
      /\ marked' \in SUBSET AllRoots /\ left' \in SUBSET AllRoots
      /\ old \in RunType /\ RunIs(j, old, attempt[j], status[j], lease[j], roots, projects)
      /\ old.lost \in BOOLEAN /\ attempt[j] \in Nat /\ <<j, 0>> \notin projects
  <2>1. old.lost \in BOOLEAN
    BY <1>0 DEF RunType
  <2>2. CASE Enqueue(p, j) \/ StartCopy(p, j) \/ Install(p, j)
    BY <1>0, <2>1, <2>2 DEF Enqueue, StartCopy, Install, disk
  <2>3. CASE EndCopy(p, j)
    <3>1. RootOf(p, j) \in AllRoots
      BY <2>3, RunFacts DEF EndCopy
    <3>2. faults' \in 0..MaxFaults
      BY <1>0, <2>3, FaultTypes DEF EndCopy
    <3>3. /\ UNCHANGED <<row, left, projects, removing>>
          /\ marked' = marked \/ marked' = marked \cup {RootOf(p, j)}
      BY <2>3 DEF EndCopy
    <3> QED
      BY <1>0, <2>1, <3>1, <3>2, <3>3
  <2>4. CASE Clean(p, j)
    <3>1. RootOf(p, j) \in AllRoots
      BY <2>4, RunFacts DEF Clean
    <3> QED
      BY <1>0, <2>1, <2>4, <3>1, Removed DEF Clean, IInv
  <2> QED
    BY <2>2, <2>3, <2>4
<1>2. CASE Enqueue(p, j)
  <2>1. old.at = "none" /\ run' = [run EXCEPT ![p][j] = At(p, j, "queued", old.lost)] /\ UNCHANGED roots
    BY <1>2, RunTo DEF Enqueue, disk
  <2>2. Becomes(At(p, j, "queued", old.lost))
    BY <1>1, <2>1, AtFacts DEF RunIs
  <2>3. At(p, j, "queued", old.lost) \in RunType /\ At(p, j, "queued", old.lost).n = old.n
    BY <1>1, AtFacts
  <2> QED
    BY <1>1, <2>1, <2>2, <2>3, RunMoves
<1>3. CASE StartCopy(p, j)
  <2>1. PICK at \in {"copying", "clean"}, lost \in {old.lost, TRUE} :
          /\ old.at = "copy" /\ run' = [run EXCEPT ![p][j] = At(p, j, at, lost)]
          /\ at # "clean" => lost = old.lost
    <3>1. /\ old.at = "copy"
          /\ Goes(p, j, "copying") \/ Loses(p, j)
      BY <1>3 DEF StartCopy
    <3>2. CASE Goes(p, j, "copying")
      <4>1. run' = [run EXCEPT ![p][j] = At(p, j, "copying", old.lost)]
        BY <3>2, RunTo
      <4> QED
        BY <3>1, <4>1
    <3>3. CASE Loses(p, j)
      <4>1. run' = [run EXCEPT ![p][j] = At(p, j, "clean", TRUE)]
        BY <3>3, RunTo
      <4> QED
        BY <3>1, <4>1
    <3> QED
      BY <3>1, <3>2, <3>3
  <2>2. lost \in BOOLEAN
    BY <1>1
  <2>3. Becomes(At(p, j, at, lost))
    BY <1>1, <2>1, <2>2, AtFacts DEF RunIs
  <2> DEFINE r == At(p, j, at, lost)
  <2>4. r \in RunType /\ r.n = old.n
    BY <2>2, AtFacts
  <2>5. run' = [run EXCEPT ![p][j] = r] /\ RunIs(j, r, attempt[j], status[j], lease[j], roots', projects)
    BY <2>1, <2>3
  <2>6. roots' = roots \/ roots' = roots \cup {RootOf(p, j)}
    BY <1>3 DEF StartCopy
  <2>7. \/ UNCHANGED roots
        \/ run[p][j].at \notin {"none", "queued"} /\ roots' \in {roots \cup {RootOf(p, j)}, roots \ {RootOf(p, j)}}
    BY <2>1, <2>6
  <2> HIDE DEF r
  <2> QED
    BY <1>1, <2>4, <2>5, <2>7, RunMoves
<1>4. CASE EndCopy(p, j)
  <2>1. old.at = "copying"
    BY <1>4 DEF EndCopy
  <2>2. CASE Goes(p, j, "install") /\ UNCHANGED roots
    <3>1. run' = [run EXCEPT ![p][j] = At(p, j, "install", old.lost)]
      BY <2>2, RunTo
    <3>2. Becomes(At(p, j, "install", old.lost))
      BY <1>1, <2>1, <3>1, AtFacts DEF RunIs
    <3>3. At(p, j, "install", old.lost) \in RunType /\ At(p, j, "install", old.lost).n = old.n
      BY <1>1, AtFacts
    <3> QED
      BY <1>1, <2>1, <2>2, <3>2, <3>3, RunMoves
  <2>3. CASE Fails(p, j) /\ (UNCHANGED roots \/ roots' = roots \ {RootOf(p, j)})
    <3>1. run' = [run EXCEPT ![p][j] = At(p, j, "clean", old.lost)]
      BY <2>3, RunTo
    <3>2. Becomes(At(p, j, "clean", old.lost))
      BY <1>1, <2>1, <3>1, AtFacts DEF RunIs
    <3>3. At(p, j, "clean", old.lost) \in RunType /\ At(p, j, "clean", old.lost).n = old.n
      BY <1>1, AtFacts
    <3> QED
      BY <1>1, <2>1, <2>3, <3>2, <3>3, RunMoves
  <2> QED
    BY <1>4, <2>2, <2>3 DEF EndCopy
<1>5. CASE Install(p, j)
  <2>1. old.at = "install" /\ UNCHANGED roots
    BY <1>5 DEF Install, disk
  <2>2. CASE RootOf(p, j) \in roots /\ Goes(p, j, "commit")
    <3>1. run' = [run EXCEPT ![p][j] = At(p, j, "commit", old.lost)]
      BY <2>2, RunTo
    <3>2. Becomes(At(p, j, "commit", old.lost))
      BY <1>1, <2>1, <2>2, <3>1, AtFacts DEF RunIs, RootOf
    <3>3. At(p, j, "commit", old.lost) \in RunType /\ At(p, j, "commit", old.lost).n = old.n
      BY <1>1, AtFacts
    <3> QED
      BY <1>1, <2>1, <3>2, <3>3, RunMoves
  <2>3. CASE Fails(p, j) \/ Loses(p, j)
    <3>1. PICK lost \in {old.lost, TRUE} : run' = [run EXCEPT ![p][j] = At(p, j, "clean", lost)]
      <4>1. CASE Fails(p, j)
        <5>1. run' = [run EXCEPT ![p][j] = At(p, j, "clean", old.lost)]
          BY <4>1, RunTo
        <5> QED
          BY <5>1
      <4>2. CASE Loses(p, j)
        <5>1. run' = [run EXCEPT ![p][j] = At(p, j, "clean", TRUE)]
          BY <4>2, RunTo
        <5> QED
          BY <5>1
      <4> QED
        BY <2>3, <4>1, <4>2
    <3>2. lost \in BOOLEAN
      BY <1>1
    <3>3. Becomes(At(p, j, "clean", lost))
      BY <1>1, <2>1, <3>1, <3>2, AtFacts DEF RunIs
    <3>4. At(p, j, "clean", lost) \in RunType /\ At(p, j, "clean", lost).n = old.n
      BY <3>2, AtFacts
    <3> QED
      BY <1>1, <2>1, <3>3, <3>4, RunMoves
  <2> QED
    BY <1>5, <2>2, <2>3 DEF Install
<1>6. CASE Clean(p, j)
  <2>1. old.at = "clean" /\ (UNCHANGED roots \/ roots' = roots \ {RootOf(p, j)}) /\ RootOf(p, j) = <<j, old.n>>
    <3>1. old.at = "clean" /\ RootOf(p, j) \in AllRoots
      BY <1>6, RunFacts DEF Clean
    <3>2. UNCHANGED roots \/ roots' = roots \ {RootOf(p, j)}
      BY <1>6, <3>1, Removed DEF Clean, IInv
    <3> QED
      BY <3>1, <3>2 DEF RootOf
  <2>2. CASE old.lost
    <3>1. run' = [run EXCEPT ![p][j] = NoRun]
      BY <1>6, <2>2, RunTo DEF Clean
    <3>2. Becomes(NoRun)
      BY <1>1, <3>1, NoRunFacts DEF RunIs
    <3> QED
      BY <1>1, <2>1, <3>2, NoRunFacts, RunMoves
  <2>3. CASE ~old.lost
    <3>1. run' = [run EXCEPT ![p][j] = At(p, j, "fail", old.lost)]
      BY <1>6, <2>3, RunTo DEF Clean
    <3>2. Becomes(At(p, j, "fail", old.lost))
      BY <1>1, <2>1, <2>3, <3>1, AtFacts DEF RunIs
    <3>3. At(p, j, "fail", old.lost) \in RunType /\ At(p, j, "fail", old.lost).n = old.n
      BY <1>1, AtFacts
    <3> QED
      BY <1>1, <2>1, <3>2, <3>3, RunMoves
  <2> QED
    BY <2>2, <2>3
<1> QED
  BY <1>2, <1>3, <1>4, <1>5, <1>6

StatusType == {"none", "queued", "running", "completed", "failed"}
LeaseType == {"none", "live", "expired"}
Leased(st, le) == st = "running" /\ le = "live"

\* A step of one run, which becomes r, that writes the row of its job: its status
\* st, attempt n and lease le.
RowStep(p, j, r, st, n, le) ==
  /\ run' = [run EXCEPT ![p][j] = r] /\ r \in RunType
  /\ r.n \in {0, run[p][j].n} \/ (r.n = n /\ attempt[j] < n)
  /\ status' = [status EXCEPT ![j] = st] /\ st \in StatusType
  /\ attempt' = [attempt EXCEPT ![j] = n] /\ n \in 0..MaxAttempts /\ attempt[j] <= n
  /\ lease' = [lease EXCEPT ![j] = le] /\ le \in LeaseType
  /\ working' \in {working, working \cup {j}, working \ {j}}
  /\ st = "running" <=> le # "none"
  /\ st = "running" => n > 0
  /\ j \in working' => st = "running"
  /\ n = attempt[j] /\ Leased(st, le) => Leased(status[j], lease[j])
  /\ n = attempt[j] /\ st \in {"running", "completed"} => status[j] \in {"running", "completed"}
  /\ UNCHANGED <<roots, marked, left>> /\ faults' \in 0..MaxFaults
  /\ \/ UNCHANGED projects /\ (st = "completed" <=> status[j] = "completed")
     \/ /\ projects' = projects \cup {<<j, run[p][j].n>>} /\ st = "completed"
        /\ n = attempt[j] /\ run[p][j].n = n /\ status[j] = "running"
  /\ removing' \in [Procs -> SUBSET AllRoots]
  /\ \A q \in Procs : \A x \in removing'[q] :
       \/ x \in removing[q]
       \/ /\ x = <<j, attempt[j]>> /\ UNCHANGED projects /\ x \notin projects
          /\ st \notin {"running", "completed"}
  /\ RunIs(j, r, n, st, le, roots, projects')

LEMMA RowMoves ==
  ASSUME IInv, NEW p \in Procs, NEW j \in Jobs, NEW r, NEW st, NEW n, NEW le, RowStep(p, j, r, st, n, le)
  PROVE  IInv'
<1> USE DEF RowStep
<1> USE DEF IInv
<1>1. /\ run \in [Procs -> [Jobs -> RunType]] /\ run' \in [Procs -> [Jobs -> RunType]]
      /\ run'[p][j] = r
      /\ \A q \in Procs, k \in Jobs : q # p \/ k # j => run'[q][k] = run[q][k]
  BY DEF TypeOK, RunType
<1>2. /\ status \in [Jobs -> StatusType] /\ attempt \in [Jobs -> 0..MaxAttempts] /\ lease \in [Jobs -> LeaseType]
      /\ status'[j] = st /\ attempt'[j] = n /\ lease'[j] = le
      /\ \A k \in Jobs \ {j} : status'[k] = status[k] /\ attempt'[k] = attempt[k] /\ lease'[k] = lease[k]
  BY DEF TypeOK, StatusType, LeaseType
<1>3. \A k \in Jobs : attempt[k] \in Nat /\ attempt'[k] \in Nat /\ attempt[k] <= attempt'[k]
  BY <1>2, ConstantsAssumption
<1>4. \A q \in Procs, k \in Jobs : run[q][k].n \in Nat /\ run[q][k].n <= attempt[k]
  <2> SUFFICES ASSUME NEW q \in Procs, NEW k \in Jobs PROVE run[q][k].n \in Nat /\ run[q][k].n <= attempt[k]
    OBVIOUS
  <2>1. run[q][k] \in RunType /\ RunOK(q, k)
    BY <1>1 DEF RunInv
  <2> QED
    BY <2>1, ConstantsAssumption DEF RunType, RunOK, RunIs
<1>5. projects' # projects => /\ <<j, run[p][j].n>> \in AllRoots /\ run[p][j].n # 0
  BY <1>2, ConstantsAssumption DEF AllRoots, RowInv
<1>6. TypeOK'
  <2>1. status' \in [Jobs -> StatusType] /\ attempt' \in [Jobs -> 0..MaxAttempts] /\ lease' \in [Jobs -> LeaseType]
    BY <1>2
  <2>2. \A k \in Jobs : status'[k] = "running" <=> lease'[k] # "none"
    BY <1>2 DEF TypeOK
  <2>3. /\ working' \subseteq Jobs /\ roots' \subseteq AllRoots /\ projects' \subseteq AllRoots
        /\ marked' \subseteq AllRoots /\ left' \subseteq AllRoots
    BY <1>5 DEF TypeOK
  <2> QED
    BY <1>1, <2>1, <2>2, <2>3 DEF TypeOK, RunType, StatusType, LeaseType
<1>7. MadeOnce'
  <2>1. CASE UNCHANGED projects /\ (st = "completed" <=> status[j] = "completed")
    BY <1>2, <2>1 DEF MadeOnce, TypeOK, AllRoots
  <2>2. CASE /\ projects' = projects \cup {<<j, run[p][j].n>>} /\ st = "completed"
             /\ n = attempt[j] /\ run[p][j].n = n /\ status[j] = "running"
    <3>1. \A x \in projects : x[1] # j
      BY <2>2 DEF MadeOnce
    <3>2. n \in 1..MaxAttempts
      BY <2>2, <1>3, ConstantsAssumption DEF RowInv
    <3>3. \A x \in projects' : status'[x[1]] = "completed"
      <4>1. \A x \in projects : x[1] \in Jobs \ {j}
        BY <3>1 DEF TypeOK, AllRoots
      <4> QED
        BY <1>2, <2>2, <4>1 DEF MadeOnce
    <3>4. \A k \in Jobs : status'[k] = "completed" => \E m \in 1..MaxAttempts : <<k, m>> \in projects'
      BY <1>2, <2>2, <3>2 DEF MadeOnce
    <3>5. \A x, y \in projects' : x[1] = y[1] => x = y
      BY <2>2, <3>1 DEF MadeOnce
    <3> QED
      BY <3>3, <3>4, <3>5 DEF MadeOnce
  <2> QED
    BY <2>1, <2>2
<1>8. RowInv'
  BY <1>2 DEF RowInv, TypeOK
<1>9. RunInv'
  <2>1. RunOK(p, j)'
    BY <1>1, <1>2 DEF RunOK
  <2>2. ASSUME NEW q \in Procs, NEW k \in Jobs, q # p \/ k # j PROVE RunOK(q, k)'
    <3>1. run'[q][k] = run[q][k] /\ run[q][k].n \in Nat /\ RunOK(q, k)
      BY <1>1, <1>4, <2>2 DEF RunInv
    <3>2. <<k, run[q][k].n>> \in projects' => <<k, run[q][k].n>> \in projects
      BY <1>5, <2>2 DEF OneRun
    <3>3. Owns(q, k)' => Owns(q, k)
      <4>1. CASE k = j
        <5>1. run[q][j].n <= attempt[j] /\ attempt[j] \in Nat /\ run[q][j].n \in Nat
          BY <1>3, <1>4
        <5>2. run[q][j].n = n => n = attempt[j]
          BY <5>1
        <5> QED
          BY <1>2, <3>1, <4>1, <5>2 DEF Owns, Leased
      <4>2. CASE k # j
        BY <1>2, <3>1, <4>2 DEF Owns
      <4> QED
        BY <4>1, <4>2
    <3> QED
      BY <1>3, <3>1, <3>2, <3>3, RunKept
  <2> QED
    BY <2>1, <2>2 DEF RunInv
<1>10. OneRun'
  BY <1>1, <1>3, <1>4 DEF OneRun
<1>11. RemovedIsOver'
  <2> SUFFICES ASSUME NEW q \in Procs, NEW x \in removing'[q]
               PROVE  /\ x \notin projects' /\ x[2] <= attempt'[x[1]]
                      /\ attempt'[x[1]] = x[2] => status'[x[1]] \notin {"running", "completed"}
    BY DEF RemovedIsOver
  <2>1. x[1] \in Jobs /\ x[2] \in Nat /\ x = <<x[1], x[2]>>
    BY RootFacts, ConstantsAssumption
  <2>2. CASE x \in removing[q]
    <3>1. /\ x \notin projects /\ x[2] <= attempt[x[1]]
          /\ attempt[x[1]] = x[2] => status[x[1]] \notin {"running", "completed"}
      BY <2>2 DEF RemovedIsOver
    <3>2. x \notin projects'
      BY <2>1, <3>1
    <3>3. CASE x[1] = j
      BY <1>2, <1>3, <2>1, <3>1, <3>2, <3>3
    <3>4. CASE x[1] # j
      BY <1>2, <2>1, <3>1, <3>2, <3>4
    <3> QED
      BY <3>3, <3>4
  <2>3. CASE x = <<j, attempt[j]>> /\ UNCHANGED projects /\ x \notin projects /\ st \notin {"running", "completed"}
    BY <1>2, <1>3, <2>1, <2>3
  <2> QED
    BY <2>2, <2>3
<1> QED
  BY <1>6, <1>7, <1>8, <1>9, <1>10, <1>11

\* The facts about a row and a run that RowMoves asks for.
LEMMA RowFacts ==
  ASSUME IInv, NEW p \in Procs, NEW j \in Jobs
  PROVE  /\ status[j] \in StatusType /\ attempt[j] \in 0..MaxAttempts /\ lease[j] \in LeaseType /\ attempt[j] \in Nat
         /\ status[j] = "running" <=> lease[j] # "none"
         /\ status[j] = "running" => attempt[j] > 0
         /\ j \in working => status[j] = "running"
         /\ status = [status EXCEPT ![j] = status[j]] /\ attempt = [attempt EXCEPT ![j] = attempt[j]]
         /\ lease = [lease EXCEPT ![j] = lease[j]] /\ run = [run EXCEPT ![p][j] = run[p][j]]
         /\ run[p][j] \in RunType /\ run[p][j].n \in Nat /\ run[p][j].lost \in BOOLEAN
         /\ RunIs(j, run[p][j], attempt[j], status[j], lease[j], roots, projects)
         /\ <<j, 0>> \notin projects /\ <<j, 0>> \notin roots
         /\ removing \in [Procs -> SUBSET AllRoots] /\ faults \in 0..MaxFaults
         /\ \A n : <<j, n>> \in projects => status[j] = "completed"
<1> USE DEF IInv
<1>1. /\ run \in [Procs -> [Jobs -> RunType]] /\ run[p] \in [Jobs -> RunType] /\ run[p][j] \in RunType
      /\ RunIs(j, run[p][j], attempt[j], status[j], lease[j], roots, projects)
  BY DEF TypeOK, RunType, RunInv, RunOK
<1>2. run = [run EXCEPT ![p][j] = run[p][j]]
  BY <1>1
<1>3. <<j, 0>> \notin AllRoots
  BY DEF AllRoots
<1>4. run[p][j].n \in Nat /\ run[p][j].lost \in BOOLEAN
  BY <1>1, ConstantsAssumption DEF RunType
<1>5. \A n : <<j, n>> \in projects => status[j] = "completed"
  BY DEF MadeOnce
<1> QED
  BY <1>1, <1>2, <1>3, <1>4, <1>5, ConstantsAssumption DEF TypeOK, RowInv, StatusType, LeaseType

\* The row and the run of a job change without a project and without a removal.
LEMMA RowSteps ==
  ASSUME IInv, NEW p \in Procs, NEW j \in Jobs,
         \/ Create(j) \/ Expire(j) \/ Claim(p, j) \/ SetRoot(p, j) \/ FinishFailed(p, j)
  PROVE  IInv'
<1>0. /\ status[j] \in StatusType /\ attempt[j] \in 0..MaxAttempts /\ lease[j] \in LeaseType /\ attempt[j] \in Nat
      /\ status[j] = "running" <=> lease[j] # "none"
      /\ status[j] = "running" => attempt[j] > 0
      /\ j \in working => status[j] = "running"
      /\ status = [status EXCEPT ![j] = status[j]] /\ attempt = [attempt EXCEPT ![j] = attempt[j]]
      /\ lease = [lease EXCEPT ![j] = lease[j]] /\ run = [run EXCEPT ![p][j] = run[p][j]]
      /\ run[p][j] \in RunType /\ run[p][j].n \in Nat /\ run[p][j].lost \in BOOLEAN
      /\ RunIs(j, run[p][j], attempt[j], status[j], lease[j], roots, projects)
      /\ <<j, 0>> \notin projects /\ <<j, 0>> \notin roots
      /\ removing \in [Procs -> SUBSET AllRoots]
      /\ \A n : <<j, n>> \in projects => status[j] = "completed"
  BY RowFacts
<1>1. /\ UNCHANGED <<roots, marked, left, projects, removing>> /\ faults' \in 0..MaxFaults
  BY FaultTypes, RowFacts DEF Create, Expire, Claim, SetRoot, FinishFailed, disk
<1>2. CASE Create(j)
  <2>1. status[j] = "none" /\ UNCHANGED <<run, attempt, lease, working>> /\ status' = [status EXCEPT ![j] = "queued"]
    BY <1>2 DEF Create
  <2>2. RunIs(j, run[p][j], attempt[j], "queued", lease[j], roots, projects)
    BY <1>0 DEF RunIs, Leased
  <2>3. lease[j] = "none" /\ j \notin working
    BY <2>1, <1>0 DEF LeaseType
  <2>4. RowStep(p, j, run[p][j], "queued", attempt[j], lease[j])
    BY <1>1, <2>1, <2>2, <2>3, <1>0 DEF RowStep, StatusType, Leased
  <2> QED
    BY <2>4, RowMoves
<1>3. CASE Expire(j)
  <2>1. /\ status[j] = "running" /\ UNCHANGED <<run, attempt, status, working>>
        /\ lease' = [lease EXCEPT ![j] = "expired"]
    BY <1>3 DEF Expire
  <2>2. RunIs(j, run[p][j], attempt[j], status[j], "expired", roots, projects)
    BY <1>0 DEF RunIs, Leased
  <2>3. RowStep(p, j, run[p][j], status[j], attempt[j], "expired")
    BY <1>1, <2>1, <2>2, <1>0 DEF RowStep, LeaseType, StatusType, Leased
  <2> QED
    BY <2>3, RowMoves
<1>4. CASE Claim(p, j)
  <2>1. UNCHANGED working /\ Leased(status[j], lease[j]) = (status[j] = "running" /\ lease[j] = "live")
    BY <1>4 DEF Claim, Leased
  <2>2. ASSUME Claimable(j), Claimed(j),
               NEW r \in RunType, run' = [run EXCEPT ![p][j] = r],
               r = NoRun \/ (r.at = "root" /\ r.n = attempt[j] + 1 /\ r.lost = FALSE)
        PROVE  RowStep(p, j, r, "running", attempt[j] + 1, "live")
    <3>1. /\ status[j] = "queued" /\ attempt[j] < MaxAttempts
          /\ status' = [status EXCEPT ![j] = "running"] /\ attempt' = [attempt EXCEPT ![j] = attempt[j] + 1]
          /\ lease' = [lease EXCEPT ![j] = "live"]
      BY <2>2 DEF Claimable, Claimed
    <3>2. attempt[j] + 1 \in 0..MaxAttempts /\ attempt[j] < attempt[j] + 1 /\ attempt[j] + 1 > 0
      BY <3>1, <1>0, ConstantsAssumption
    <3>3. r.n \in Nat /\ <<j, r.n>> \notin projects
      BY <2>2, <3>1, <1>0, NoRunFacts
    <3>4. RunIs(j, r, attempt[j] + 1, "running", "live", roots, projects)
      BY <2>2, <3>2, <3>3, NoRunFacts, <1>0 DEF RunIs
    <3> QED
      BY <1>1, <2>1, <2>2, <3>1, <3>2, <3>4, <1>0, NoRunFacts DEF RowStep, StatusType, LeaseType, Leased
  <2>3. ASSUME UNCHANGED <<status, attempt, lease>>, run' = [run EXCEPT ![p][j] = NoRun]
        PROVE  RowStep(p, j, NoRun, status[j], attempt[j], lease[j])
    <3>1. RunIs(j, NoRun, attempt[j], status[j], lease[j], roots, projects)
      BY <1>0, NoRunFacts DEF RunIs
    <3> QED
      BY <1>1, <2>1, <2>3, <3>1, <1>0, NoRunFacts DEF RowStep
  <2>4. CASE Claimable(j) /\ Claimed(j) /\ run' = [run EXCEPT ![p][j] = [NoRun EXCEPT !.at = "root", !.n = attempt[j] + 1]]
    <3>1. [NoRun EXCEPT !.at = "root", !.n = attempt[j] + 1] = [at |-> "root", n |-> attempt[j] + 1, lost |-> FALSE]
      <4>1. [NoRun EXCEPT !.at = "root", !.n = attempt[j] + 1] = [at |-> "root", n |-> attempt[j] + 1, lost |-> NoRun.lost]
        <5>1. NoRun \in RunType
          BY NoRunFacts
        <5> QED
          BY <5>1, ClaimedRun
      <4> QED
        BY <4>1, NoRunFacts
    <3>2. attempt[j] + 1 \in 0..MaxAttempts
      BY <2>4, <1>0, ConstantsAssumption DEF Claimable
    <3>3. /\ [at |-> "root", n |-> attempt[j] + 1, lost |-> FALSE] \in RunType
          /\ run' = [run EXCEPT ![p][j] = [at |-> "root", n |-> attempt[j] + 1, lost |-> FALSE]]
      BY <2>4, <3>1, <3>2 DEF RunType
    <3> QED
      BY <2>2, <2>4, <3>3, RowMoves
  <2>5. CASE Ends(p, j) /\ Claimable(j) /\ Claimed(j)
    BY <2>2, <2>5, RunTo, NoRunFacts, RowMoves
  <2>6. CASE Ends(p, j) /\ UNCHANGED <<status, attempt, lease>>
    BY <2>3, <2>6, RunTo, RowMoves
  <2> QED
    BY <1>4, <2>4, <2>5, <2>6 DEF Claim
<1>5. CASE SetRoot(p, j)
  <2>1. /\ run[p][j].at = "root" /\ UNCHANGED <<status, attempt, lease>>
        /\ working' = working \/ (Owns(p, j) /\ working' = working \cup {j})
    BY <1>5 DEF SetRoot
  <2>2. PICK at \in {"copy", "clean"}, lost \in {run[p][j].lost, TRUE} :
          run' = [run EXCEPT ![p][j] = At(p, j, at, lost)] /\ (at = "copy" => lost = run[p][j].lost)
    <3>1. Goes(p, j, "copy") \/ Loses(p, j) \/ Fails(p, j)
      BY <1>5 DEF SetRoot
    <3>2. CASE Goes(p, j, "copy")
      <4>1. run' = [run EXCEPT ![p][j] = At(p, j, "copy", run[p][j].lost)]
        BY <3>2, RunTo
      <4> QED
        BY <4>1
    <3>3. CASE Loses(p, j)
      <4>1. run' = [run EXCEPT ![p][j] = At(p, j, "clean", TRUE)]
        BY <3>3, RunTo
      <4> QED
        BY <4>1
    <3>4. CASE Fails(p, j)
      <4>1. run' = [run EXCEPT ![p][j] = At(p, j, "clean", run[p][j].lost)]
        BY <3>4, RunTo
      <4> QED
        BY <4>1
    <3> QED
      BY <3>1, <3>2, <3>3, <3>4
  <2>3. lost \in BOOLEAN
    BY <1>0
  <2> DEFINE r == At(p, j, at, lost)
  <2>4. r \in RunType /\ r.at = at /\ r.n = run[p][j].n /\ r.lost = lost
    BY <2>3, AtFacts
  <2> HIDE DEF r
  <2>5. RunIs(j, r, attempt[j], status[j], lease[j], roots, projects)
    BY <2>1, <2>2, <2>4, <1>0 DEF RunIs
  <2>6. j \in working' => status[j] = "running"
    BY <2>1, <1>0 DEF Owns
  <2>7. RowStep(p, j, r, status[j], attempt[j], lease[j])
    BY <1>1, <2>1, <2>2, <2>4, <2>5, <2>6, <1>0 DEF RowStep, r
  <2> QED
    BY <2>7, RowMoves
<1>6. CASE FinishFailed(p, j)
  <2>1. run' = [run EXCEPT ![p][j] = NoRun] /\ UNCHANGED attempt
    BY <1>6, RunTo DEF FinishFailed
  <2>2. CASE UNCHANGED <<status, lease, working>>
    <3>1. RunIs(j, NoRun, attempt[j], status[j], lease[j], roots, projects)
      BY <1>0, NoRunFacts DEF RunIs
    <3>2. RowStep(p, j, NoRun, status[j], attempt[j], lease[j])
      BY <1>1, <2>1, <2>2, <3>1, <1>0, NoRunFacts DEF RowStep
    <3> QED
      BY <3>2, RowMoves
  <2>3. CASE Owns(p, j) /\ (Over(j, MayRetry(j)) \/ Over(j, FALSE))
    <3>1. PICK st \in {"queued", "failed"} :
            /\ status' = [status EXCEPT ![j] = st] /\ lease' = [lease EXCEPT ![j] = "none"]
            /\ working' = working \ {j} /\ status[j] = "running"
      BY <2>3 DEF Over, Owns
    <3>2. RunIs(j, NoRun, attempt[j], st, "none", roots, projects)
      BY <1>0, NoRunFacts DEF RunIs
    <3>3. RowStep(p, j, NoRun, st, attempt[j], "none")
      BY <1>1, <2>1, <3>1, <3>2, <1>0, NoRunFacts DEF RowStep, StatusType, LeaseType, Leased
    <3> QED
      BY <3>3, RowMoves
  <2> QED
    BY <1>6, <2>2, <2>3 DEF FinishFailed
<1> QED
  BY <1>2, <1>3, <1>4, <1>5, <1>6

\* The project is inserted with the end of its job, or nothing is.
LEMMA Commits ==
  ASSUME IInv, NEW p \in Procs, NEW j \in Jobs, CommitProject(p, j)
  PROVE  IInv'
<1> DEFINE old == run[p][j]
<1>1. /\ status[j] \in StatusType /\ attempt[j] \in 0..MaxAttempts /\ lease[j] \in LeaseType /\ attempt[j] \in Nat
      /\ status[j] = "running" <=> lease[j] # "none"
      /\ status[j] = "running" => attempt[j] > 0
      /\ j \in working => status[j] = "running"
      /\ status = [status EXCEPT ![j] = status[j]] /\ attempt = [attempt EXCEPT ![j] = attempt[j]]
      /\ lease = [lease EXCEPT ![j] = lease[j]]
      /\ old \in RunType /\ old.n \in Nat /\ old.lost \in BOOLEAN
      /\ RunIs(j, old, attempt[j], status[j], lease[j], roots, projects)
      /\ <<j, 0>> \notin projects
      /\ removing \in [Procs -> SUBSET AllRoots] /\ faults \in 0..MaxFaults
      /\ \A n : <<j, n>> \in projects => status[j] = "completed"
  BY RowFacts
<1>2. old.at = "commit" /\ old.n > 0 /\ old.lost = FALSE /\ <<j, old.n>> \notin projects
  BY <1>1 DEF CommitProject, RunIs
<1>3. UNCHANGED <<attempt, roots, marked, left, removing>> /\ faults' \in 0..MaxFaults
  BY <1>1, FaultTypes DEF CommitProject, disk
<1>4. CASE Owns(p, j) /\ Inserts(p, j)
  <2>1. PICK r \in {NoRun, At(p, j, "clean", FALSE)} : run' = [run EXCEPT ![p][j] = r]
    <3>1. Ends(p, j) \/ Fails(p, j)
      BY <1>4 DEF CommitProject
    <3>2. CASE Ends(p, j)
      <4>1. run' = [run EXCEPT ![p][j] = NoRun]
        BY <3>2, RunTo
      <4> QED
        BY <4>1
    <3>3. CASE Fails(p, j)
      <4>1. run' = [run EXCEPT ![p][j] = At(p, j, "clean", old.lost)]
        BY <3>3, RunTo
      <4> QED
        BY <1>2, <4>1
    <3> QED
      BY <3>1, <3>2, <3>3
  <2>2. /\ r \in RunType /\ r.lost = FALSE
        /\ (r.at = "none" /\ r.n = 0) \/ (r.at = "clean" /\ r.n = old.n)
    <3>1. CASE r = NoRun
      BY <3>1, NoRunFacts
    <3>2. CASE r = At(p, j, "clean", FALSE)
      BY <3>2, AtFacts
    <3> QED
      BY <2>1, <3>1, <3>2
  <2>3. /\ projects' = projects \cup {<<j, old.n>>} /\ old.n = attempt[j]
        /\ status' = [status EXCEPT ![j] = "completed"] /\ lease' = [lease EXCEPT ![j] = "none"]
        /\ working' = working \ {j} /\ status[j] = "running"
    BY <1>4 DEF Inserts, Owns, RootOf
  <2>4. RunIs(j, r, attempt[j], "completed", "none", roots, projects')
    BY <1>1, <1>2, <2>2, <2>3 DEF RunIs
  <2>5. RowStep(p, j, r, "completed", attempt[j], "none")
    BY <1>1, <1>3, <2>1, <2>2, <2>3, <2>4 DEF RowStep, StatusType, LeaseType, Leased
  <2> QED
    BY <2>5, RowMoves
<1>5. CASE UNCHANGED <<projects, status, lease, working>> /\ (Loses(p, j) \/ Fails(p, j))
  <2>1. PICK lost \in BOOLEAN : run' = [run EXCEPT ![p][j] = At(p, j, "clean", lost)]
    <3>1. CASE Fails(p, j)
      <4>1. run' = [run EXCEPT ![p][j] = At(p, j, "clean", old.lost)]
        BY <3>1, RunTo
      <4> QED
        BY <1>1, <4>1
    <3>2. CASE Loses(p, j)
      <4>1. run' = [run EXCEPT ![p][j] = At(p, j, "clean", TRUE)]
        BY <3>2, RunTo
      <4> QED
        BY <4>1
    <3> QED
      BY <1>5, <3>1, <3>2
  <2> DEFINE r == At(p, j, "clean", lost)
  <2>2. r \in RunType /\ r.at = "clean" /\ r.n = old.n /\ run' = [run EXCEPT ![p][j] = r]
    BY <2>1, AtFacts
  <2> HIDE DEF r
  <2>3. RunIs(j, r, attempt[j], status[j], lease[j], roots, projects)
    BY <1>1, <1>2, <2>2 DEF RunIs
  <2>4. RowStep(p, j, r, status[j], attempt[j], lease[j])
    BY <1>1, <1>3, <1>5, <2>2, <2>3 DEF RowStep
  <2> QED
    BY <2>4, RowMoves
<1> QED
  BY <1>4, <1>5 DEF CommitProject, Inserts

\* A reclaim takes the root its row names for removal: its attempt is over.
LEMMA Reclaims ==
  ASSUME IInv, NEW p \in Procs, NEW j \in Jobs, Reclaim(p, j)
  PROVE  IInv'
<1> DEFINE old == run[p][j]
<1>1. /\ attempt[j] \in 0..MaxAttempts /\ attempt[j] \in Nat /\ status[j] = "running" /\ attempt[j] > 0
      /\ attempt = [attempt EXCEPT ![j] = attempt[j]] /\ run = [run EXCEPT ![p][j] = old]
      /\ old \in RunType /\ old.n \in Nat
      /\ RunIs(j, old, attempt[j], status[j], lease[j], roots, projects)
      /\ removing \in [Procs -> SUBSET AllRoots] /\ faults \in 0..MaxFaults
      /\ \A n : <<j, n>> \notin projects
  BY RowFacts DEF Reclaim
<1>2. PICK st \in {"queued", "failed"} :
        /\ status' = [status EXCEPT ![j] = st] /\ lease' = [lease EXCEPT ![j] = "none"] /\ working' = working \ {j}
  BY DEF Reclaim, Over
<1>3. UNCHANGED <<attempt, run, roots, marked, left, projects, faults>>
  BY DEF Reclaim, disk
<1>4. /\ removing' \in [Procs -> SUBSET AllRoots]
      /\ \A q \in Procs : \A x \in removing'[q] : x \in removing[q] \/ x = <<j, attempt[j]>>
  <2>1. <<j, attempt[j]>> \in AllRoots
    BY <1>1 DEF AllRoots
  <2> QED
    BY <1>1, <2>1 DEF Reclaim
<1>5. RunIs(j, old, attempt[j], st, "none", roots, projects)
  BY <1>1 DEF RunIs
<1>6. RowStep(p, j, old, st, attempt[j], "none")
  BY <1>1, <1>2, <1>3, <1>4, <1>5 DEF RowStep, StatusType, LeaseType, Leased
<1> QED
  BY <1>6, RowMoves

LEMMA Removals ==
  ASSUME IInv, NEW p \in Procs, RemoveRoot(p) \/ Crash(p)
  PROVE  IInv'
<1> USE DEF IInv
<1>1. /\ UNCHANGED <<status, attempt, lease, working, projects>>
      /\ removing' = [removing EXCEPT ![p] = {}]
  BY DEF RemoveRoot, Crash, row, TypeOK
<1>0. /\ roots' \subseteq roots /\ \A x \in roots \ roots' : x \in removing[p]
      /\ marked' \in SUBSET AllRoots /\ left' \in SUBSET AllRoots /\ faults' \in 0..MaxFaults
  <2>1. CASE Crash(p)
    BY <2>1, FaultTypes DEF Crash, disk, TypeOK
  <2>2. CASE RemoveRoot(p)
    <3>1. removing[p] \in SUBSET AllRoots
      BY DEF TypeOK
    <3> QED
      BY <2>2, <3>1, Removed DEF RemoveRoot
  <2> QED
    BY <2>1, <2>2
<1>2. /\ run \in [Procs -> [Jobs -> RunType]] /\ run' \in [Procs -> [Jobs -> RunType]]
      /\ \A q \in Procs, k \in Jobs : run'[q][k] = run[q][k] \/ run'[q][k] = NoRun
  <2>1. run \in [Procs -> [Jobs -> RunType]]
    BY DEF TypeOK, RunType
  <2> QED
    BY <2>1, NoRunFacts DEF RemoveRoot, Crash
<1>4. TypeOK'
  BY <1>0, <1>1, <1>2 DEF TypeOK, RunType
<1>5. MadeOnce' /\ RowInv' /\ RemovedIsOver'
  BY <1>1 DEF MadeOnce, RowInv, RemovedIsOver, TypeOK
<1>6. RunInv'
  <2> SUFFICES ASSUME NEW q \in Procs, NEW k \in Jobs PROVE RunOK(q, k)'
    BY DEF RunInv
  <2>1. RunIs(k, run[q][k], attempt[k], status[k], lease[k], roots, projects)
    BY DEF RunInv, RunOK
  <2>2. CASE run'[q][k] = NoRun
    <3>1. <<k, 0>> \notin projects /\ attempt[k] \in Nat
      BY RowFacts
    <3> QED
      BY <1>1, <2>2, <3>1, NoRunFacts DEF RunOK, RunIs
  <2>3. CASE run'[q][k] = run[q][k]
    <3>1. ASSUME <<k, run[q][k].n>> \in removing[p] PROVE ~(status[k] = "running" /\ run[q][k].n = attempt[k])
      BY <3>1 DEF RemovedIsOver
    <3> QED
      BY <1>0, <1>1, <2>1, <2>3, <3>1 DEF RunOK, RunIs
  <2> QED
    BY <1>2, <2>2, <2>3
<1>7. OneRun'
  BY <1>2, NoRunFacts DEF OneRun
<1> QED
  BY <1>4, <1>5, <1>6, <1>7

LEMMA Invariance == IInv /\ [Next]_vars => IInv'
<1> SUFFICES ASSUME IInv, [Next]_vars PROVE IInv'
  OBVIOUS
<1>1. CASE UNCHANGED vars
  BY <1>1 DEF vars, IInv, TypeOK, MadeOnce, RowInv, RunInv, RunOK, OneRun, RemovedIsOver
<1>2. CASE \E p \in Procs, j \in Jobs : Enqueue(p, j) \/ Run(p, j) \/ Reclaim(p, j)
  BY <1>2, RunSteps, RowSteps, Commits, Reclaims DEF Run
<1>3. CASE \E p \in Procs : RemoveRoot(p) \/ Crash(p)
  BY <1>3, Removals
<1>4. CASE \E j \in Jobs : Create(j) \/ Expire(j)
  <2>1. CASE \E p \in Procs : TRUE
    BY <1>4, <2>1, RowSteps
  <2>2. CASE Procs = {}
    <3>1. RunInv' /\ OneRun' /\ RemovedIsOver'
      BY <2>2 DEF RunInv, OneRun, RemovedIsOver
    <3>2. TypeOK' /\ MadeOnce' /\ RowInv'
      <4> PICK j \in Jobs : Create(j) \/ Expire(j)
        BY <1>4
      <4>1. /\ UNCHANGED <<attempt, working, run, roots, marked, left, projects, removing, faults>>
            /\ \A x \in AllRoots : x[1] \in Jobs
        BY DEF Create, Expire, AllRoots, disk
      <4>2. CASE Create(j)
        BY <4>1, <4>2 DEF Create, IInv, TypeOK, MadeOnce, RowInv
      <4>3. CASE Expire(j)
        BY <4>1, <4>3 DEF Expire, IInv, TypeOK, MadeOnce, RowInv
      <4> QED
        BY <4>2, <4>3
    <3> QED
      BY <3>1, <3>2 DEF IInv
  <2> QED
    BY <2>1, <2>2
<1> QED
  BY <1>1, <1>2, <1>3, <1>4 DEF Next

LEMMA Always == Spec => []IInv
BY Initially, Invariance, PTL DEF Spec
-----------------------------------------------------------------------------
(* What follows.                                                            *)

\* Of the attempts of a job that believe they own it one inserts a project, and
\* the job is completed exactly then (commitCreatedProject, assertWorkerLease).
THEOREM JobsAreSound == Spec => []JobsSound
<1>1. IInv => JobsSound
  <2> SUFFICES ASSUME IInv, NEW j \in Jobs,
                      NEW made, made = {x \in projects : x[1] = j}
               PROVE  IF status[j] = "completed" THEN Cardinality(made) = 1 ELSE made = {}
    BY DEF IInv, JobsSound, ProjectIffCompleted
  <2>1. CASE status[j] = "completed"
    <3>1. PICK n \in 1..MaxAttempts : <<j, n>> \in projects
      BY <2>1 DEF IInv, MadeOnce
    <3>2. made = {<<j, n>>}
      BY <3>1 DEF IInv, MadeOnce
    <3> QED
      BY <2>1, <3>2, FS_Singleton
  <2>2. CASE status[j] # "completed"
    BY <2>2 DEF IInv, MadeOnce
  <2> QED
    BY <2>1, <2>2
<1> QED
  BY <1>1, Always, PTL

\* The number of a run stays until the run ends.
LEMMA Numbers ==
  ASSUME IInv, NEW p \in Procs, NEW j \in Jobs
  PROVE  /\ (\E at : Goes(p, j, at)) \/ Loses(p, j) \/ Fails(p, j) =>
              \A q \in Procs, k \in Jobs : run'[q][k].n = run[q][k].n
         /\ Ends(p, j) => \A q \in Procs, k \in Jobs : q # p \/ k # j => run'[q][k].n = run[q][k].n
<1>1. run \in [Procs -> [Jobs -> RunType]]
  BY DEF IInv, TypeOK, RunType
<1>2. \A at, lost : At(p, j, at, lost).n = run[p][j].n
  BY DEF At
<1>3. ASSUME NEW r, run' = [run EXCEPT ![p][j] = r]
      PROVE  /\ \A q \in Procs, k \in Jobs : q # p \/ k # j => run'[q][k] = run[q][k]
             /\ run'[p][j] = r
  BY <1>1, <1>3
<1>4. ASSUME (\E at : Goes(p, j, at)) \/ Loses(p, j) \/ Fails(p, j)
      PROVE  \A q \in Procs, k \in Jobs : run'[q][k].n = run[q][k].n
  <2>1. PICK r : run' = [run EXCEPT ![p][j] = r] /\ r.n = run[p][j].n
    <3>1. CASE Fails(p, j)
      <4>1. run' = [run EXCEPT ![p][j] = At(p, j, "clean", run[p][j].lost)]
        BY <3>1, RunTo
      <4> QED
        BY <1>2, <4>1
    <3>2. CASE Loses(p, j)
      <4>1. run' = [run EXCEPT ![p][j] = At(p, j, "clean", TRUE)]
        BY <3>2, RunTo
      <4> QED
        BY <1>2, <4>1
    <3>3. CASE \E at : Goes(p, j, at)
      <4>1. PICK at : Goes(p, j, at)
        BY <3>3
      <4>2. run' = [run EXCEPT ![p][j] = At(p, j, at, run[p][j].lost)]
        BY <4>1, RunTo
      <4> QED
        BY <1>2, <4>2
    <3> QED
      BY <1>4, <3>1, <3>2, <3>3
  <2>2. \A q \in Procs, k \in Jobs : q # p \/ k # j => run'[q][k] = run[q][k]
    BY <1>3, <2>1
  <2>3. run'[p][j] = r
    BY <1>3, <2>1
  <2> QED
    BY <2>1, <2>2, <2>3
<1>5. ASSUME Ends(p, j)
      PROVE  \A q \in Procs, k \in Jobs : q # p \/ k # j => run'[q][k].n = run[q][k].n
  <2>1. run' = [run EXCEPT ![p][j] = NoRun]
    BY <1>5, RunTo
  <2> QED
    BY <1>3, <2>1
<1> QED
  BY <1>4, <1>5

\* Where a step takes a run.
LEMMA RunAfter ==
  ASSUME IInv, NEW p \in Procs, NEW j \in Jobs,
         \/ \E at \in {"queued", "copy", "copying", "install", "commit"} : Goes(p, j, at)
         \/ Loses(p, j) \/ Fails(p, j) \/ Ends(p, j)
  PROVE  /\ run'[p][j].at # "fail"
         /\ \A q \in Procs, k \in Jobs : q # p \/ k # j => run'[q][k] = run[q][k]
<1>1. run \in [Procs -> [Jobs -> RunType]] /\ run[p][j].lost \in BOOLEAN
  BY RowFacts DEF IInv, TypeOK, RunType
<1>2. ASSUME NEW to, run' = [run EXCEPT ![p][j] = to]
      PROVE  /\ run'[p][j] = to
             /\ \A q \in Procs, k \in Jobs : q # p \/ k # j => run'[q][k] = run[q][k]
  BY <1>1, <1>2
<1>3. CASE Ends(p, j)
  BY <1>2, <1>3, RunTo, NoRunFacts
<1>4. ASSUME NEW at \in {"queued", "copy", "copying", "install", "commit", "clean"}, NEW lost \in BOOLEAN,
             run' = [run EXCEPT ![p][j] = At(p, j, at, lost)]
      PROVE  /\ run'[p][j].at # "fail"
             /\ \A q \in Procs, k \in Jobs : q # p \/ k # j => run'[q][k] = run[q][k]
  <2>1. At(p, j, at, lost).at = at
    BY DEF At
  <2>2. run'[p][j] = At(p, j, at, lost)
    BY <1>2, <1>4
  <2> QED
    BY <1>2, <1>4, <2>1, <2>2
<1>5. CASE \E at \in {"queued", "copy", "copying", "install", "commit"} : Goes(p, j, at)
  <2>1. PICK at \in {"queued", "copy", "copying", "install", "commit"} :
          Goes(p, j, at)
    BY <1>5
  <2>2. run' = [run EXCEPT ![p][j] = At(p, j, at, run[p][j].lost)]
    BY <2>1, RunTo
  <2> QED
    BY <1>1, <1>4, <2>2
<1>6. CASE Loses(p, j) \/ Fails(p, j)
  <2>1. PICK lost \in BOOLEAN : run' = [run EXCEPT ![p][j] = At(p, j, "clean", lost)]
    <3>1. CASE Loses(p, j)
      <4>1. run' = [run EXCEPT ![p][j] = At(p, j, "clean", TRUE)]
        BY <3>1, RunTo
      <4> QED
        BY <4>1
    <3>2. CASE Fails(p, j)
      <4>1. run' = [run EXCEPT ![p][j] = At(p, j, "clean", run[p][j].lost)]
        BY <3>2, RunTo
      <4> QED
        BY <1>1, <4>1
    <3> QED
      BY <1>6, <3>1, <3>2
  <2> QED
    BY <1>4, <2>1
<1> QED
  BY <1>3, <1>5, <1>6

\* An attempt says that it failed after it tried to remove its root.
Tried == \A p \in Procs, j \in Jobs : run[p][j].at = "fail" /\ RootOf(p, j) \in roots => RootOf(p, j) \in left

\* A root appears when a copy starts; what a removal left stays written down.
LEMMA RootsAppear ==
  ASSUME IInv, [Next]_vars
  PROVE  /\ left \subseteq left'
         /\ \A x \in roots' \ roots : \E p \in Procs, j \in Jobs :
              StartCopy(p, j) /\ Goes(p, j, "copying") /\ x = RootOf(p, j)
<1>1. CASE UNCHANGED vars
  BY <1>1 DEF vars
<1>2. ASSUME NEW p \in Procs, NEW j \in Jobs,
             \/ Create(j) \/ Expire(j) \/ Enqueue(p, j) \/ Reclaim(p, j) \/ Crash(p)
             \/ Claim(p, j) \/ SetRoot(p, j) \/ Install(p, j) \/ CommitProject(p, j) \/ FinishFailed(p, j)
      PROVE  UNCHANGED <<roots, left>>
  BY <1>2 DEF Create, Expire, Enqueue, Reclaim, Crash, Claim, SetRoot, Install, CommitProject, FinishFailed, disk
<1>3. ASSUME NEW p \in Procs, NEW j \in Jobs, StartCopy(p, j)
      PROVE  /\ left' = left
             /\ UNCHANGED roots \/ (Goes(p, j, "copying") /\ roots' = roots \cup {RootOf(p, j)})
  BY <1>3 DEF StartCopy
<1>4. ASSUME NEW p \in Procs, NEW j \in Jobs, EndCopy(p, j)
      PROVE  left' = left /\ roots' \subseteq roots
  BY <1>4 DEF EndCopy
<1>5. ASSUME NEW p \in Procs, NEW j \in Jobs, Clean(p, j)
      PROVE  left \subseteq left' /\ roots' \subseteq roots
  <2>1. {RootOf(p, j)} \in SUBSET AllRoots
    BY <1>5, RunFacts DEF Clean
  <2> QED
    BY <1>5, <2>1, Removed DEF Clean, IInv
<1>6. ASSUME NEW p \in Procs, RemoveRoot(p)
      PROVE  left \subseteq left' /\ roots' \subseteq roots
  <2>1. removing[p] \in SUBSET AllRoots
    BY DEF IInv, TypeOK
  <2> QED
    BY <1>6, <2>1, Removed DEF RemoveRoot, IInv
<1>7. ASSUME NEW j \in Jobs, Create(j) \/ Expire(j) PROVE UNCHANGED <<roots, left>>
  BY <1>7 DEF Create, Expire, disk
<1>8. ASSUME NEW p \in Procs, Crash(p) PROVE UNCHANGED <<roots, left>>
  BY <1>8 DEF Crash, disk
<1> QED
  BY <1>1, <1>2, <1>3, <1>4, <1>5, <1>6, <1>7, <1>8 DEF Next, Run

\* Who is about to report a failure was so before, or has just cleaned up.
LEMMA FailsAfter ==
  ASSUME IInv, [Next]_vars, NEW q \in Procs, NEW k \in Jobs, run'[q][k].at = "fail"
  PROVE  run'[q][k] = run[q][k] \/ Clean(q, k)
<1>1. CASE UNCHANGED run
  BY <1>1
<1>2. CASE \E p \in Procs, j \in Jobs :
             /\ \/ \E at \in {"queued", "copy", "copying", "install", "commit"} : Goes(p, j, at)
                \/ Loses(p, j) \/ Fails(p, j) \/ Ends(p, j)
  BY <1>2, RunAfter
<1>3. CASE \E p \in Procs, j \in Jobs : Clean(p, j)
  <2>1. PICK p \in Procs, j \in Jobs : Clean(p, j)
    BY <1>3
  <2>2. run \in [Procs -> [Jobs -> RunType]]
    BY DEF IInv, TypeOK, RunType
  <2>3. CASE q = p /\ k = j
    BY <2>1, <2>3
  <2>4. CASE q # p \/ k # j
    <3>1. Ends(p, j) \/ Goes(p, j, "fail")
      BY <2>1 DEF Clean
    <3>2. run'[q][k] = run[q][k]
      BY <2>2, <2>4, <3>1 DEF Ends, Goes
    <3> QED
      BY <3>2
  <2> QED
    BY <2>3, <2>4
<1>4. CASE \E p \in Procs, j \in Jobs : Claim(p, j)
  <2>1. PICK p \in Procs, j \in Jobs : Claim(p, j)
    BY <1>4
  <2>2. CASE Ends(p, j)
    BY <1>2, <2>2
  <2>3. CASE run' = [run EXCEPT ![p][j] = [NoRun EXCEPT !.at = "root", !.n = attempt[j] + 1]]
    <3>1. run \in [Procs -> [Jobs -> RunType]] /\ NoRun \in RunType
      BY NoRunFacts DEF IInv, TypeOK, RunType
    <3>2. [NoRun EXCEPT !.at = "root", !.n = attempt[j] + 1].at = "root"
      BY <3>1, ClaimedRun
    <3>3. /\ run'[p][j].at = "root"
          /\ q # p \/ k # j => run'[q][k] = run[q][k]
      BY <2>3, <3>1, <3>2
    <3> QED
      BY <3>3
  <2> QED
    BY <2>1, <2>2, <2>3 DEF Claim
<1>5. CASE \E p \in Procs : Crash(p)
  <2>1. run' [q][k] = run[q][k] \/ run'[q][k] = NoRun
    BY <1>5 DEF Crash, IInv, TypeOK
  <2> QED
    BY <2>1, NoRunFacts
<1>6. ASSUME NEW p \in Procs, NEW j \in Jobs,
             \/ Enqueue(p, j) \/ SetRoot(p, j) \/ StartCopy(p, j) \/ EndCopy(p, j) \/ Install(p, j)
             \/ CommitProject(p, j) \/ FinishFailed(p, j)
      PROVE  \/ \E at \in {"queued", "copy", "copying", "install", "commit"} : Goes(p, j, at)
             \/ Loses(p, j) \/ Fails(p, j) \/ Ends(p, j)
  BY <1>6 DEF Enqueue, SetRoot, StartCopy, EndCopy, Install, CommitProject, FinishFailed
<1>7. ASSUME NEW p \in Procs, NEW j \in Jobs, Create(j) \/ Expire(j) \/ Reclaim(p, j) \/ RemoveRoot(p)
      PROVE  UNCHANGED run
  BY <1>7 DEF Create, Expire, Reclaim, RemoveRoot
<1>8. ASSUME NEW j \in Jobs, Create(j) \/ Expire(j) PROVE UNCHANGED run
  BY <1>8 DEF Create, Expire
<1>9. ASSUME NEW p \in Procs, RemoveRoot(p) PROVE UNCHANGED run
  BY <1>9 DEF RemoveRoot
<1> QED
  BY <1>1, <1>2, <1>3, <1>4, <1>5, <1>6, <1>7, <1>8, <1>9 DEF Next, Run, vars

LEMMA TriedKept == IInv /\ Tried /\ [Next]_vars => Tried'
<1> SUFFICES ASSUME IInv, Tried, [Next]_vars, NEW q \in Procs, NEW k \in Jobs,
                    run'[q][k].at = "fail", NEW x, x = <<k, run'[q][k].n>>, x \in roots'
             PROVE  x \in left'
  BY DEF Tried, RootOf
<1>1. CASE run'[q][k] = run[q][k]
  <2>1. x = RootOf(q, k)
    BY <1>1 DEF RootOf
  <2>2. CASE x \in roots
    BY <1>1, <2>1, <2>2, RootsAppear DEF Tried
  <2>3. CASE x \notin roots
    <3>1. PICK p \in Procs, j \in Jobs : StartCopy(p, j) /\ x = RootOf(p, j)
      BY <2>3, RootsAppear
    <3>2. run[p][j].at = "copy"
      BY <3>1 DEF StartCopy
    <3>3. <<k, run[q][k].n>> = RootOf(p, j)
      BY <1>1, <3>1
    <3>4. q = p /\ k = j
      BY <3>2, <3>3, RunFacts
    <3> QED
      BY <1>1, <3>2, <3>4
  <2> QED
    BY <2>2, <2>3
<1>2. CASE Clean(q, k)
  <2>1. RootOf(q, k) \in AllRoots /\ Remove({RootOf(q, k)})
    BY <1>2, RunFacts DEF Clean
  <2>2. x = RootOf(q, k)
    <3>1. Ends(q, k) \/ Goes(q, k, "fail")
      BY <1>2 DEF Clean
    <3>2. ~Ends(q, k)
      BY RunAfter
    <3>3. run'[q][k].n = run[q][k].n
      BY <3>1, <3>2, Numbers
    <3> QED
      BY <3>3 DEF RootOf
  <2> QED
    BY <2>1, <2>2, Removed DEF IInv
<1> QED
  BY <1>1, <1>2, FailsAfter

\* Whoever knows of a root hands it on, or the root goes, or its removal failed.
LEMMA HandedOn ==
  ASSUME IInv, IInv', Tried, Next, \A p \in Procs : ~Crash(p),
         NEW x \in roots', x \notin left', Tracked(x)
  PROVE  Tracked(x)'
<1> DEFINE k == x[1]
<1>1. x \in AllRoots /\ k \in Jobs /\ x[2] \in Nat /\ x[2] # 0 /\ x = <<k, x[2]>>
  <2>1. x \in AllRoots
    BY DEF IInv, TypeOK, AllRoots
  <2> QED
    BY <2>1, RootFacts, ConstantsAssumption
<1> HIDE DEF k
<1>2. Tracked(x) <=> \/ x \in projects
                     \/ \E q \in Procs : run[q][k].n = x[2] \/ x \in removing[q]
                     \/ k \in working /\ attempt[k] = x[2]
  BY DEF Tracked, k
<1>3. Tracked(x)' <=> \/ x \in projects'
                      \/ \E q \in Procs : run'[q][k].n = x[2] \/ x \in removing'[q]
                      \/ k \in working' /\ attempt'[k] = x[2]
  BY DEF Tracked, k
<1>4. ASSUME NEW p \in Procs, NEW j \in Jobs, Enqueue(p, j) \/ StartCopy(p, j) \/ EndCopy(p, j) \/ Install(p, j)
      PROVE  Tracked(x)'
  <2>1. UNCHANGED <<row, projects, removing>> /\ ((\E at : Goes(p, j, at)) \/ Loses(p, j) \/ Fails(p, j))
    BY <1>4 DEF Enqueue, StartCopy, EndCopy, Install
  <2> QED
    BY <1>1, <1>2, <1>3, <2>1, Numbers DEF row
<1>5. ASSUME NEW p \in Procs, NEW j \in Jobs, Clean(p, j)
      PROVE  Tracked(x)'
  <2>1. /\ UNCHANGED <<row, projects, removing>> /\ (Ends(p, j) \/ Goes(p, j, "fail"))
        /\ x # <<j, run[p][j].n>>
    <3>1. RootOf(p, j) \in AllRoots /\ Remove({RootOf(p, j)})
      BY <1>5, RunFacts DEF Clean
    <3>2. x # RootOf(p, j)
      BY <3>1, Removed DEF IInv
    <3> QED
      BY <1>5, <3>2 DEF Clean, RootOf
  <2>2. \A q \in Procs : run[q][k].n = x[2] => run'[q][k].n = x[2]
    BY <1>1, <2>1, Numbers
  <2> QED
    BY <1>2, <1>3, <2>1, <2>2 DEF row
<1>6. ASSUME NEW p \in Procs, NEW j \in Jobs, Claim(p, j)
      PROVE  Tracked(x)'
  <2>1. run[p][j].at = "queued" /\ UNCHANGED <<working, projects, removing>>
    BY <1>6 DEF Claim
  <2>2. run[p][j].n = 0
    BY <2>1, RowFacts DEF RunIs
  <2>3. \A q \in Procs, i \in Jobs : q # p \/ i # j => run'[q][i].n = run[q][i].n
    <3>1. run \in [Procs -> [Jobs -> RunType]]
      BY DEF IInv, TypeOK, RunType
    <3> QED
      BY <1>6, <3>1 DEF Claim, Ends
  <2>4. k \in working => attempt'[k] = attempt[k]
    BY <1>1, <1>6 DEF Claim, Claimable, Claimed, IInv, RowInv, TypeOK
  <2> QED
    BY <1>1, <1>2, <1>3, <2>1, <2>2, <2>3, <2>4
<1>7. ASSUME NEW p \in Procs, NEW j \in Jobs, SetRoot(p, j)
      PROVE  Tracked(x)'
  <2>1. /\ UNCHANGED <<attempt, projects, removing>> /\ working \subseteq working'
        /\ (\E at : Goes(p, j, at)) \/ Loses(p, j) \/ Fails(p, j)
    BY <1>7 DEF SetRoot
  <2> QED
    BY <1>1, <1>2, <1>3, <2>1, Numbers
<1>8. ASSUME NEW p \in Procs, NEW j \in Jobs, CommitProject(p, j)
      PROVE  Tracked(x)'
  <2>1. CASE Owns(p, j) /\ Inserts(p, j)
    <3>1. /\ projects' = projects \cup {<<j, run[p][j].n>>} /\ working' = working \ {j}
          /\ UNCHANGED <<attempt, removing>> /\ run[p][j].n = attempt[j] /\ (Ends(p, j) \/ Fails(p, j))
      BY <1>8, <2>1 DEF CommitProject, Inserts, Owns, RootOf
    <3>2. CASE x = <<j, attempt[j]>>
      BY <1>3, <3>1, <3>2
    <3>3. CASE x # <<j, attempt[j]>>
      <4>1. \A q \in Procs : run[q][k].n = x[2] => run'[q][k].n = x[2]
        BY <1>1, <3>1, <3>3, Numbers
      <4>2. k \in working /\ attempt[k] = x[2] => k \in working'
        BY <1>1, <3>1, <3>3
      <4> QED
        BY <1>2, <1>3, <3>1, <4>1, <4>2
    <3> QED
      BY <3>2, <3>3
  <2>2. CASE UNCHANGED <<projects, working>> /\ (Loses(p, j) \/ Fails(p, j))
    BY <1>1, <1>2, <1>3, <1>8, <2>2, Numbers DEF CommitProject
  <2> QED
    BY <1>8, <2>1, <2>2 DEF CommitProject, Inserts
<1>9. ASSUME NEW p \in Procs, NEW j \in Jobs, FinishFailed(p, j)
      PROVE  Tracked(x)'
  <2>1. /\ run[p][j].at = "fail" /\ Ends(p, j) /\ UNCHANGED <<attempt, roots, left, projects, removing>>
        /\ working' = working \/ (working' = working \ {j} /\ run[p][j].n = attempt[j])
    BY <1>9 DEF FinishFailed, Over, Owns, disk
  <2>2. x # <<j, run[p][j].n>>
    BY <2>1 DEF Tried, RootOf
  <2>3. \A q \in Procs : run[q][k].n = x[2] => run'[q][k].n = x[2]
    BY <1>1, <2>1, <2>2, Numbers
  <2>4. k \in working /\ attempt[k] = x[2] => k \in working'
    BY <1>1, <2>1, <2>2
  <2> QED
    BY <1>2, <1>3, <2>1, <2>3, <2>4
<1>10. ASSUME NEW p \in Procs, NEW j \in Jobs, Reclaim(p, j)
       PROVE  Tracked(x)'
  <2>1. /\ UNCHANGED <<attempt, run, roots, projects>> /\ working' = working \ {j} /\ removing[p] = {}
        /\ removing' = [removing EXCEPT ![p] = IF j \in working THEN {<<j, attempt[j]>>} ELSE {}]
    BY <1>10 DEF Reclaim, Over, disk
  <2>2. \A q \in Procs : removing[q] \subseteq removing'[q]
    BY <2>1 DEF IInv, TypeOK
  <2>3. k \in working /\ attempt[k] = x[2] => k \in working' \/ x \in removing'[p]
    BY <1>1, <2>1 DEF IInv, TypeOK
  <2> QED
    BY <1>2, <1>3, <2>1, <2>2, <2>3
<1>11. ASSUME NEW p \in Procs, RemoveRoot(p)
       PROVE  Tracked(x)'
  <2>1. /\ UNCHANGED <<row, run, projects>> /\ Remove(removing[p])
        /\ removing' = [removing EXCEPT ![p] = {}]
    BY <1>11 DEF RemoveRoot
  <2>2. \A q \in Procs : x \in removing[q] => x \in removing'[q]
    <3>1. removing[p] \in SUBSET AllRoots
      BY DEF IInv, TypeOK
    <3>2. x \notin removing[p]
      BY <2>1, <3>1, Removed DEF IInv
    <3> QED
      BY <2>1, <3>2 DEF IInv, TypeOK
  <2> QED
    BY <1>2, <1>3, <2>1, <2>2 DEF row
<1>12. ASSUME NEW j \in Jobs, Create(j) \/ Expire(j)
       PROVE  Tracked(x)'
  BY <1>2, <1>3, <1>12 DEF Create, Expire
<1> QED
  BY <1>4, <1>5, <1>6, <1>7, <1>8, <1>9, <1>10, <1>11, <1>12 DEF Next, Run

\* The root of a project goes by the hand of its maker, if at all.
LEMMA MakersOwn ==
  ASSUME IInv, Next, NEW x \in projects', x \notin roots'
  PROVE  x \in projects /\ (x \in roots => CleansUp(x))
<1>0. \/ UNCHANGED <<projects, roots>>
      \/ \E p \in Procs, j \in Jobs : CommitProject(p, j) \/ Clean(p, j) \/ EndCopy(p, j) \/ StartCopy(p, j)
      \/ \E p \in Procs : RemoveRoot(p)
  <2>1. ASSUME NEW j, Create(j) \/ Expire(j) PROVE UNCHANGED <<projects, roots>>
    BY <2>1 DEF Create, Expire, disk
  <2>2. ASSUME NEW p, NEW j,
               \/ Enqueue(p, j) \/ Claim(p, j) \/ SetRoot(p, j) \/ Install(p, j)
               \/ FinishFailed(p, j) \/ Reclaim(p, j)
        PROVE  UNCHANGED <<projects, roots>>
    BY <2>2 DEF Enqueue, Claim, SetRoot, Install, FinishFailed, Reclaim, disk
  <2>3. ASSUME NEW p, Crash(p) PROVE UNCHANGED <<projects, roots>>
    BY <2>3 DEF Crash, disk
  <2> QED
    BY <2>1, <2>2, <2>3 DEF Next, Run
<1>1. x \in projects
  <2>1. CASE UNCHANGED projects
    BY <2>1
  <2>2. CASE ~UNCHANGED projects
    <3>1. PICK p \in Procs, j \in Jobs : CommitProject(p, j)
      BY <1>0, <2>2 DEF Clean, StartCopy, EndCopy, RemoveRoot
    <3>2. /\ Owns(p, j) /\ run[p][j].at = "commit" /\ UNCHANGED roots
          /\ projects' = projects \cup {RootOf(p, j)}
      BY <2>2, <3>1 DEF CommitProject, Inserts, disk
    <3>3. RootOf(p, j) \in roots
      BY <3>2, RowFacts DEF RunIs, Owns, RootOf
    <3> QED
      BY <3>2, <3>3
  <2> QED
    BY <2>1, <2>2
<1>2. ASSUME x \in roots PROVE CleansUp(x)
  <2>1. CASE \E p \in Procs, j \in Jobs : Clean(p, j)
    <3>1. PICK p \in Procs, j \in Jobs : Clean(p, j)
      BY <2>1
    <3>2. run[p][j].at = "clean" /\ x = <<j, run[p][j].n>>
      <4>1. {RootOf(p, j)} \in SUBSET AllRoots /\ Remove({RootOf(p, j)})
        BY <3>1, RunFacts DEF Clean
      <4>2. x = RootOf(p, j)
        BY <1>2, <4>1, Removed DEF IInv
      <4> QED
        BY <3>1, <4>2 DEF Clean, RootOf
    <3>3. run[p][j] \in RunType /\ run[p][j].lost = FALSE
      BY <1>1, <3>2, RowFacts DEF RunIs
    <3>4. run[p][j] = [at |-> "clean", n |-> run[p][j].n, lost |-> FALSE]
      BY <3>2, <3>3 DEF RunType
    <3>5. run[p][x[1]] = [at |-> "clean", n |-> x[2], lost |-> FALSE]
      BY <3>2, <3>4
    <3> QED
      BY <3>5 DEF CleansUp
  <2>2. CASE \E p \in Procs : RemoveRoot(p)
    <3>1. PICK p \in Procs : RemoveRoot(p)
      BY <2>2
    <3>2. removing[p] \in SUBSET AllRoots /\ Remove(removing[p])
      BY <3>1 DEF RemoveRoot, IInv, TypeOK
    <3>3. x \in removing[p]
      BY <1>2, <3>2, Removed DEF IInv
    <3> QED
      BY <1>1, <3>3 DEF IInv, RemovedIsOver
  <2>3. CASE roots \subseteq roots'
    BY <1>2, <2>3
  <2>4. CASE \E p \in Procs, j \in Jobs : EndCopy(p, j)
    <3>1. PICK p \in Procs, j \in Jobs : EndCopy(p, j)
      BY <2>4
    <3>2. run[p][j].at = "copying" /\ x = <<j, run[p][j].n>>
      BY <1>2, <3>1 DEF EndCopy, RootOf
    <3> QED
      BY <1>1, <3>2, RowFacts DEF RunIs
  <2> QED
    BY <1>0, <2>1, <2>2, <2>3, <2>4 DEF CommitProject, StartCopy, disk
<1> QED
  BY <1>1, <1>2

\* No attempt and no reclaim forgets a root it did not try to remove, and the root
\* of a project is taken away by the attempt that made it alone, when the answer of
\* its commit is lost (the catch block, reclaimExpiredBootstrapLeases).
THEOREM RootsFollow == Spec => RootsFollowProjects
<1>1. Init => Tried
  BY DEF Init, Tried
<1>2. Spec => []Tried
  BY <1>1, TriedKept, Always, PTL DEF Spec
<1>3. IInv /\ IInv' /\ Tried /\ [Next]_vars =>
        [\A x \in roots' : Tracked(x) /\ ~Tracked(x)' => x \in left' \/ \E p \in Procs : Crash(p)]_vars
  BY HandedOn
<1>4. IInv /\ [Next]_vars =>
        [\A x \in projects' \ roots' : x \in projects /\ (x \in roots => CleansUp(x))]_vars
  BY MakersOwn
<1> QED
  BY <1>2, <1>3, <1>4, Always, PTL DEF Spec, RootsFollowProjects, ForgottenForCause, RootRemovedByMakerOnly

================================================================================
