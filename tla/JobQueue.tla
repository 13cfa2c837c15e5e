------------------------------ MODULE JobQueue ------------------------------
(***************************************************************************)
(* The bounded in-process job queue of the API server                      *)
(* (artifacts/api-server/src/lib/job-queue.ts).  One instance of it,       *)
(* heavyJobQueue, limits the scans, discoveries and outbox deliveries that *)
(* one process runs at a time.                                             *)
(*                                                                         *)
(* A job is a closure (an element of Closures) handed in by a producer.  A *)
(* durable job carries the id of its database row, an anonymous one        *)
(* carries NoId.  Several closures may carry the same id: the route that   *)
(* created the row, the dispatcher and the sweeps all build their own.     *)
(*                                                                         *)
(* JavaScript runs each call to completion, so a call together with the    *)
(* drain() it ends in is one action.                                       *)
(***************************************************************************)
EXTENDS Integers, Sequences, FiniteSets

CONSTANTS
  Closures,     \* closures a producer may hand to the queue
  Ids,          \* database row ids
  NoId,         \* the null id of an anonymous job
  IdOf,         \* the id each closure was enqueued with
  Concurrency,  \* slots
  MaxPending    \* capacity of the waiting queue

\* The constructor throws unless both limits are positive integers.
ASSUME LimitsAssumption ==
  /\ Concurrency \in Nat \ {0}
  /\ MaxPending \in Nat \ {0}

ASSUME IdAssumption ==
  /\ NoId \notin Ids
  /\ IdOf \in [Closures -> Ids \cup {NoId}]

VARIABLES
  queue,        \* closures waiting for a slot, oldest first
  executing,    \* closures started whose promise has not settled
  running,      \* the slot counter
  pendingIds,   \* ids the queue believes to be waiting
  runningIds,   \* ids the queue believes to be executing
  warned        \* capacityWarningEmitted

queueVars == <<queue, executing, running, pendingIds, runningIds, warned>>

Waiting == {queue[i] : i \in 1..Len(queue)}

Named(js) == {IdOf[j] : j \in js} \ {NoId}

QueueTypeOK ==
  /\ queue \in Seq(Closures)
  /\ executing \in SUBSET Closures
  /\ running \in 0..Concurrency
  /\ pendingIds \in SUBSET Ids
  /\ runningIds \in SUBSET Ids
  /\ warned \in BOOLEAN

QueueInit ==
  /\ queue = <<>>
  /\ executing = {}
  /\ running = 0
  /\ pendingIds = {}
  /\ runningIds = {}
  /\ warned = FALSE
-----------------------------------------------------------------------------
Has(id) == id \in pendingIds \/ id \in runningIds

Full(q) == Len(q) >= MaxPending

Smaller(a, b) == IF a <= b THEN a ELSE b

\* Mutant: the loop pops the newest job instead of shifting the oldest.
DrainNewest(q, r, p, x, e) ==
  LET n == Smaller(Concurrency - r, Len(q))
      started == {q[i] : i \in Len(q) - n + 1..Len(q)}
  IN  /\ queue' = SubSeq(q, 1, Len(q) - n)
      /\ running' = r + n
      /\ pendingIds' = p \ Named(started)
      /\ runningIds' = x \cup Named(started)
      /\ executing' = e \cup started
      /\ warned' = IF n > 0 THEN FALSE ELSE warned

(* drain(): while a slot is free and a job waits, shift the oldest job,     *)
(* move its id to the running ids, take a slot and call it.  q, r, p and x  *)
(* are the queue, counter and id sets the loop starts from.  Whether the    *)
(* call throws or returns a promise, the job settles in a later turn.       *)
DrainFrom(q, r, p, x, e) ==
  LET n == Smaller(Concurrency - r, Len(q))
      started == {q[i] : i \in 1..n}
  IN  /\ queue' = SubSeq(q, n + 1, Len(q))
      /\ running' = r + n
      /\ pendingIds' = p \ Named(started)
      /\ runningIds' = x \cup Named(started)
      /\ executing' = e \cup started
      /\ warned' = IF n > 0 THEN FALSE ELSE warned

\* A closure is handed over once; it is in nobody's hands again when it has settled.
Fresh(j) == j \notin Waiting /\ j \notin executing

\* reportCapacityFull: the producer is told, the row stays in the database.
ReportFull ==
  /\ warned' = TRUE
  /\ UNCHANGED <<queue, executing, running, pendingIds, runningIds>>

\* enqueueWithIdDetailed answering "enqueued".
EnqueueWithId(j) ==
  /\ Fresh(j)
  /\ IdOf[j] # NoId
  /\ ~Has(IdOf[j])
  /\ ~Full(queue)
  /\ DrainFrom(Append(queue, j), running, pendingIds \cup {IdOf[j]}, runningIds, executing)

\* enqueueWithIdDetailed answering "full"; a duplicate is answered before and changes nothing.
RefuseWithId(j) ==
  /\ Fresh(j)
  /\ IdOf[j] # NoId
  /\ ~Has(IdOf[j])
  /\ Full(queue)
  /\ ReportFull

\* enqueue: no deduplication, false when the queue is full.
EnqueueAnonymous(j) ==
  /\ Fresh(j)
  /\ IdOf[j] = NoId
  /\ ~Full(queue)
  /\ DrainFrom(Append(queue, j), running, pendingIds, runningIds, executing)

RefuseAnonymous(j) ==
  /\ Fresh(j)
  /\ IdOf[j] = NoId
  /\ Full(queue)
  /\ ReportFull

\* Mutant: a settled job keeps its slot.
SettleKeepsSlot(j) ==
  /\ j \in executing
  /\ DrainFrom(queue, running, pendingIds, runningIds \ {IdOf[j]}, executing \ {j})

\* Both callbacks of jobPromise.then: forget the id, release the slot, drain.
Settle(j) ==
  /\ j \in executing
  /\ DrainFrom(queue, running - 1, pendingIds, runningIds \ {IdOf[j]}, executing \ {j})

QueueNext ==
  \E j \in Closures :
    \/ EnqueueWithId(j)
    \/ RefuseWithId(j)
    \/ EnqueueAnonymous(j)
    \/ RefuseAnonymous(j)
    \/ Settle(j)

QueueSpec == QueueInit /\ [][QueueNext]_queueVars

\* Jobs are documented to handle their own errors and to end: each settles.
FairQueueSpec == QueueSpec /\ \A j \in Closures : WF_queueVars(Settle(j))
-----------------------------------------------------------------------------
(* The slot counter is exactly the number of jobs in flight, so the limit   *)
(* on concurrent heavy work is real: no settle path releases a slot twice   *)
(* or forgets one (job-queue.ts, releaseSlot).                              *)
SlotsAccurate == running = Cardinality(executing) /\ running <= Concurrency

(* The id sets agree with the closures they describe, which is what has()   *)
(* answers producers from: no id is forgotten while its job is waiting or   *)
(* executing, and none lingers after it settled.                            *)
TrackingAccurate ==
  /\ pendingIds = Named(Waiting)
  /\ runningIds = Named(executing)

(* PR-D1: two closures of one database row are never in the queue at once,  *)
(* neither both waiting, nor one waiting while the other executes.          *)
NoDoubleExecution ==
  /\ \A i, k \in 1..Len(queue) :
       i # k /\ IdOf[queue[i]] # NoId => IdOf[queue[i]] # IdOf[queue[k]]
  /\ \A j, k \in executing :
       j # k /\ IdOf[j] # NoId => IdOf[j] # IdOf[k]
  /\ \A i \in 1..Len(queue), j \in executing :
       IdOf[j] # NoId => IdOf[queue[i]] # IdOf[j]

(* A job only waits while every slot is taken: no settle leaves the queue   *)
(* wedged with work and a free slot, and "full" is only ever answered by a  *)
(* queue that is working at its limit.                                      *)
WorkConserving == queue # <<>> => running = Concurrency

(* What the queue keeps about itself is exact at every moment: slots, ids   *)
(* and closures agree, no row is in it twice, and it does not idle with     *)
(* work waiting.                                                            *)
Bookkeeping ==
  QueueTypeOK /\ SlotsAccurate /\ TrackingAccurate /\ NoDoubleExecution /\ WorkConserving

(* Jobs start in the order they were accepted: what waits after a step is   *)
(* what waited before it, without some of its oldest, and possibly with the *)
(* job just accepted at the end.                                            *)
StartsInOrder ==
  [][\E n \in 0..Len(queue) :
       LET rest == SubSeq(queue, n + 1, Len(queue))
       IN  \/ queue' = rest
           \/ \E j \in Closures \ Waiting : queue' = Append(rest, j)]_queueVars

(* Every accepted job is eventually started, whatever else is offered.      *)
AcceptedStarts == \A j \in Closures : j \in Waiting ~> j \in executing
=============================================================================
