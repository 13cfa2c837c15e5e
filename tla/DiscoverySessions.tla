--------------------------- MODULE DiscoverySessions ---------------------------
(***************************************************************************)
(* Discovery of a project's source, and its import.  A request resolves    *)
(* the source (a clone is copied into a root the application manages),     *)
(* inserts a session and queues its run; a dispatcher in every process     *)
(* queues the pending sessions too.  A run claims the session with a       *)
(* lease, works, retires the clone and stores the outcome.  A ready        *)
(* session is imported as a project.  A collection deletes the sessions    *)
(* of yesterday with their roots.                                          *)
(*                                                                         *)
(* Every root here is managed, so that its removal removes it; a root the  *)
(* user owns is never removed and needs no model.                          *)
(***************************************************************************)
EXTENDS Integers, FiniteSets

CONSTANTS
  Sessions,
  Cloned,      \* those whose source is temporary; the others scan a project's root
  Roots, Root, \* managed roots, and the root a session scans
  Existing,    \* the roots of the projects there are at first
  Imports,     \* import requests
  Procs,       \* API server processes
  Home,        \* the process that answers the request of a session
  NoProc, NoSession,
  QueueSlots,  \* heavyJobQueue: how many jobs wait
  Faulty,      \* what may fail: "crash", "lock", "insert", "claim", "update"
  MaxFaults,   \* bound: failures
  MaxRequests  \* bound: discovery requests

ASSUME ConstantsAssumption ==
  /\ Cloned \subseteq Sessions /\ Root \in [Sessions -> Roots] /\ Existing \subseteq Roots
  /\ \A s \in Cloned : Root[s] \notin Existing /\ \A t \in Sessions : Root[s] = Root[t] => s = t
  /\ Home \in [Sessions -> Procs] /\ NoProc \notin Procs /\ NoSession \notin Sessions
  /\ QueueSlots \in Nat \ {0} /\ MaxFaults \in Nat /\ MaxRequests \in Nat
  /\ Faulty \subseteq {"crash", "lock", "insert", "claim", "update"}

VARIABLES
  request,   \* POST /projects/discover of a session
  status,    \* discovery_sessions.status, "none" without a row, "deleted" after
  worker,    \* discovery_sessions.worker_id: one run of a session ever claims it
  lease,     \* discovery_sessions.lease_until
  old,       \* the sessions that started more than 24 hours ago
  linked,    \* the sessions with an imported_project_id
  job,       \* the closure a process has for a session, and where it is
  lock,      \* the process whose database session holds the advisory lock
  sources,   \* the temporary sources there are, by session
  roots,     \* the roots there are
  live,      \* the roots of the projects there are
  made,      \* how many projects were made of a session
  import,    \* the session an import request has checked
  removing,  \* roots whose removal was decided, by process
  faults

vars == <<request, status, worker, lease, old, linked, job, lock, sources, roots, live, made,
          import, removing, faults>>
row == <<status, worker, lease, old, linked>>
files == <<sources, roots, removing>>
projects == <<live, made, import>>

NoJob == [at |-> "none", route |-> FALSE, locked |-> FALSE]

TypeOK ==
  /\ request \in [Sessions -> {"none", "resolved", "inserted", "done"}]
  /\ status \in [Sessions -> {"none", "pending", "discovering", "ready", "error", "imported",
                              "deleted"}]
  /\ worker \in [Sessions -> Procs \cup {NoProc}]
  /\ lease \in [Sessions -> {"none", "live", "expired"}]
  /\ old \subseteq Sessions /\ linked \subseteq Sessions
  /\ job \in [Procs -> [Sessions ->
       [at : {"none", "queued", "claim", "work", "retire", "store", "fail", "release", "end"},
        route : BOOLEAN, locked : BOOLEAN]]]
  /\ lock \in [Sessions -> Procs \cup {NoProc}]
  /\ sources \subseteq Cloned /\ roots \subseteq Roots /\ live \subseteq Roots
  /\ made \in [Sessions -> Nat] /\ import \in [Imports -> Sessions \cup {NoSession}]
  /\ removing \in [Procs -> SUBSET Roots] /\ faults \in 0..MaxFaults
  /\ \A s \in Sessions : (worker[s] = NoProc) <=> (lease[s] = "none")

Init ==
  /\ request = [s \in Sessions |-> "none"] /\ status = [s \in Sessions |-> "none"]
  /\ worker = [s \in Sessions |-> NoProc] /\ lease = [s \in Sessions |-> "none"]
  /\ old = {} /\ linked = {}
  /\ job = [p \in Procs |-> [s \in Sessions |-> NoJob]]
  /\ lock = [s \in Sessions |-> NoProc]
  /\ sources = {} /\ roots = Existing /\ live = Existing
  /\ made = [s \in Sessions |-> 0] /\ import = [i \in Imports |-> NoSession]
  /\ removing = [p \in Procs |-> {}] /\ faults = 0

Fault(kind) == kind \in Faulty /\ faults < MaxFaults /\ faults' = faults + 1
-----------------------------------------------------------------------------
(* POST /projects/discover                                                  *)

\* The adapter resolves the source; a clone is copied into a root of its own,
\* another session takes the root of a project that exists.
Resolve(s) ==
  /\ request[s] = "none"
  /\ Cardinality({t \in Sessions : request[t] # "none"}) < MaxRequests
  /\ request' = [request EXCEPT ![s] = "resolved"]
  /\ \/ /\ s \in Cloned
        /\ sources' = sources \cup {s} /\ roots' = roots \cup {Root[s]}
     \/ s \notin Cloned /\ Root[s] \in live /\ UNCHANGED <<sources, roots>>
  /\ UNCHANGED <<row, job, lock, projects, removing, faults>>

\* The row is inserted; a failure, after which it may be there, takes the
\* files of a clone away.
Insert(s) ==
  /\ request[s] = "resolved"
  /\ \/ /\ status' = [status EXCEPT ![s] = "pending"]
        /\ request' = [request EXCEPT ![s] = "inserted"]
        /\ UNCHANGED <<sources, roots, faults>>
     \/ /\ Fault("insert") /\ status' \in {status, [status EXCEPT ![s] = "pending"]}
        /\ request' = [request EXCEPT ![s] = "done"]
        /\ sources' = sources \ {s}
        /\ roots' = IF s \in Cloned THEN roots \ {Root[s]} ELSE roots
  /\ UNCHANGED <<worker, lease, old, linked, job, lock, projects, removing>>

Waiting(p) == {s \in Sessions : job[p][s].at = "queued"}

\* heavyJobQueue.enqueueWithId: nothing for an id that is tracked, nor when the
\* queue is full.
Enqueue(p, s, route) ==
  job' = IF job[p][s].at = "none" /\ Cardinality(Waiting(p)) < QueueSlots
           THEN [job EXCEPT ![p][s] = [NoJob EXCEPT !.at = "queued", !.route = route]]
           ELSE job

\* The request queues the run with the cleanup of its source, and answers 202
\* whatever the queue said.
Queue(s) ==
  /\ request[s] = "inserted"
  /\ Enqueue(Home[s], s, TRUE)
  /\ request' = [request EXCEPT ![s] = "done"]
  /\ UNCHANGED <<row, lock, files, projects, faults>>

\* The dispatcher, and the reconciliation of a process that starts.
Dispatch(p, s) ==
  /\ status[s] = "pending" /\ job[p][s].at = "none"
  /\ Enqueue(p, s, FALSE)
  /\ UNCHANGED <<request, row, lock, files, projects, faults>>
-----------------------------------------------------------------------------
(* runDiscovery                                                             *)

Goes(p, s, at) == job' = [job EXCEPT ![p][s].at = at]

\* The advisory lock: taken, busy, or an error without which the run goes on.
TakeLock(p, s) ==
  /\ job[p][s].at = "queued"
  /\ \/ /\ lock[s] = NoProc
        /\ lock' = [lock EXCEPT ![s] = p]
        /\ job' = [job EXCEPT ![p][s].at = "claim", ![p][s].locked = TRUE]
        /\ UNCHANGED faults
     \/ lock[s] # NoProc /\ Goes(p, s, "end") /\ UNCHANGED <<lock, faults>>
     \/ Fault("lock") /\ Goes(p, s, "claim") /\ UNCHANGED lock
  /\ UNCHANGED <<request, row, files, projects>>

\* claimDiscoverySession's condition.
Claimable(s) == status[s] = "pending"

Claimed(p, s) ==
  /\ status' = [status EXCEPT ![s] = "discovering"]
  /\ worker' = [worker EXCEPT ![s] = p]
  /\ lease' = [lease EXCEPT ![s] = "live"]

\* A claim that throws leaves the lock with its database session: it is
\* outside the try.
Claim(p, s) ==
  /\ job[p][s].at = "claim"
  /\ \/ Claimable(s) /\ Claimed(p, s) /\ Goes(p, s, "work") /\ UNCHANGED faults
     \/ ~Claimable(s) /\ Goes(p, s, "end") /\ UNCHANGED <<status, worker, lease, faults>>
     \/ /\ Fault("claim")
        /\ \/ Claimable(s) /\ Claimed(p, s)
           \/ UNCHANGED <<status, worker, lease>>
        /\ job' = [job EXCEPT ![p][s].at = "end", ![p][s].locked = FALSE]
  /\ UNCHANGED <<request, old, linked, lock, files, projects>>

\* Mutant: the update asks for the row alone.
Unscoped(p, s) == status[s] \notin {"none", "deleted"}

\* The condition of a worker's updateSession.
Owns(p, s) == status[s] = "discovering" /\ worker[s] = p /\ lease[s] = "live"

\* The nine stages, each with a worker-scoped update: the last one is through,
\* a stage fails (no root, a bad file, a lost lease).
Work(p, s) ==
  /\ job[p][s].at = "work"
  /\ \/ Owns(p, s) /\ Root[s] \in roots /\ Goes(p, s, "retire")
     \/ Goes(p, s, "fail")
  /\ UNCHANGED <<request, row, lock, files, projects, faults>>

\* await beforeReady?.()
RetireSource(p, s) ==
  /\ job[p][s].at = "retire" /\ Goes(p, s, "store")
  /\ sources' = IF job[p][s].route THEN sources \ {s} ELSE sources
  /\ UNCHANGED <<request, row, lock, roots, removing, projects, faults>>

\* A worker-scoped update of the status: done, refused, or not answered.
Outcome(p, s, st, done, refused) ==
  \/ /\ Owns(p, s) /\ status' = [status EXCEPT ![s] = st]
     /\ Goes(p, s, done) /\ UNCHANGED faults
  \/ ~Owns(p, s) /\ Goes(p, s, refused) /\ UNCHANGED <<status, faults>>
  \/ /\ Fault("update") /\ Goes(p, s, refused)
     /\ status' \in {status, IF Owns(p, s) THEN [status EXCEPT ![s] = st] ELSE status}

StoreReady(p, s) ==
  /\ job[p][s].at = "store" /\ Outcome(p, s, "ready", "release", "fail")
  /\ UNCHANGED <<request, worker, lease, old, linked, lock, files, projects>>

StoreError(p, s) ==
  /\ job[p][s].at = "fail" /\ Outcome(p, s, "error", "release", "end")
  /\ UNCHANGED <<request, worker, lease, old, linked, lock, files, projects>>

\* releaseDiscoverySessionLease; a failure leaves the columns.
ReleaseLease(p, s) ==
  /\ job[p][s].at = "release" /\ Goes(p, s, "end")
  /\ \/ /\ IF status[s] \in {"ready", "error", "imported"} /\ worker[s] = p
             THEN /\ worker' = [worker EXCEPT ![s] = NoProc]
                  /\ lease' = [lease EXCEPT ![s] = "none"]
             ELSE UNCHANGED <<worker, lease>>
        /\ UNCHANGED faults
     \/ Fault("update") /\ UNCHANGED <<worker, lease>>
  /\ UNCHANGED <<request, status, old, linked, lock, files, projects>>

\* The finally blocks: the lock is released, and the closure of the request
\* cleans its source.
EndRun(p, s) ==
  /\ job[p][s].at = "end"
  /\ job' = [job EXCEPT ![p][s] = NoJob]
  /\ lock' = IF job[p][s].locked THEN [lock EXCEPT ![s] = NoProc] ELSE lock
  /\ sources' = IF job[p][s].route THEN sources \ {s} ELSE sources
  /\ UNCHANGED <<request, row, roots, removing, projects, faults>>

\* No heartbeat came in time.
Expire(s) ==
  /\ status[s] = "discovering" /\ lease[s] = "live"
  /\ lease' = [lease EXCEPT ![s] = "expired"]
  /\ UNCHANGED <<request, status, worker, old, linked, job, lock, files, projects, faults>>

\* Mutant: only a session without a lease counts as abandoned.
Leaseless(s) == status[s] = "discovering" /\ lease[s] = "none"

Abandoned(s) == status[s] = "discovering" /\ lease[s] \in {"none", "expired"}

\* failStaleDiscoverySessions, and the reconciliation of a process that starts.
Sweep(s) ==
  /\ Abandoned(s)
  /\ status' = [status EXCEPT ![s] = "error"]
  /\ worker' = [worker EXCEPT ![s] = NoProc] /\ lease' = [lease EXCEPT ![s] = "none"]
  /\ UNCHANGED <<request, old, linked, job, lock, files, projects, faults>>
-----------------------------------------------------------------------------
(* POST /projects/import, DELETE /projects/:id and cleanupOldSessions       *)

\* The session is ready and its root exists.
CheckImport(i, s) ==
  /\ import[i] = NoSession /\ status[s] = "ready" /\ Root[s] \in roots
  /\ import' = [import EXCEPT ![i] = s]
  /\ UNCHANGED <<request, row, job, lock, files, live, made, faults>>

\* The condition of the claim.
Importable(s) == status[s] = "ready"

\* The transaction: the project, whose root is unique, and the claim.  It
\* rolls back when either fails.
CommitImport(i) ==
  LET s == import[i]
  IN /\ s # NoSession
     /\ import' = [import EXCEPT ![i] = NoSession]
     /\ IF Root[s] \notin live /\ Importable(s)
          THEN /\ status' = [status EXCEPT ![s] = "imported"]
               /\ linked' = linked \cup {s}
               /\ live' = live \cup {Root[s]} /\ made' = [made EXCEPT ![s] = @ + 1]
          ELSE UNCHANGED <<status, linked, live, made>>
     /\ UNCHANGED <<request, worker, lease, old, job, lock, files, faults>>

\* The project goes, with the reference of its session, then its root.
DeleteProject(p, r) ==
  /\ r \in live
  /\ live' = live \ {r} /\ linked' = {s \in linked : Root[s] # r}
  /\ removing' = [removing EXCEPT ![p] = @ \cup {r}]
  /\ UNCHANGED <<request, status, worker, lease, old, job, lock, sources, roots, made, import,
                 faults>>

\* removeManagedProjectRoot: a root without its marker, or whose removal fails,
\* stays, and nobody tries again.
RemoveRoot(p, r) ==
  /\ r \in removing[p]
  /\ removing' = [removing EXCEPT ![p] = @ \ {r}] /\ roots' \in {roots, roots \ {r}}
  /\ UNCHANGED <<request, row, job, lock, sources, projects, faults>>

\* Mutant: the deletion asks for the age alone.
Yesterdays(s) == s \in old /\ status[s] # "deleted"

\* The condition of the first deletion of cleanupOldSessions.
Collectable(s) == s \in old /\ status[s] # "deleted" /\ s \notin linked

Deleted(s) ==
  /\ status' = [status EXCEPT ![s] = "deleted"] /\ linked' = linked \ {s}
  /\ worker' = [worker EXCEPT ![s] = NoProc] /\ lease' = [lease EXCEPT ![s] = "none"]

\* A session no project was made of goes, then its root.
Collect(p, s) ==
  /\ Collectable(s) /\ removing[p] = {} /\ Deleted(s)
  /\ removing' = [removing EXCEPT ![p] = {Root[s]}]
  /\ UNCHANGED <<request, old, job, lock, sources, roots, projects, faults>>

\* An imported one goes alone.
CollectImported(s) ==
  /\ s \in old \cap linked /\ Deleted(s)
  /\ UNCHANGED <<request, old, job, lock, files, projects, faults>>

Age(s) ==
  /\ status[s] # "none" /\ s \notin old /\ old' = old \cup {s}
  /\ UNCHANGED <<request, status, worker, lease, linked, job, lock, files, projects, faults>>

\* A process restarts: its requests, closures, database sessions and removals
\* are gone.
Crash(p) ==
  /\ Fault("crash")
  /\ request' = [s \in Sessions |->
       IF Home[s] = p /\ request[s] # "none" THEN "done" ELSE request[s]]
  /\ job' = [job EXCEPT ![p] = [s \in Sessions |-> NoJob]]
  /\ lock' = [s \in Sessions |-> IF lock[s] = p THEN NoProc ELSE lock[s]]
  /\ removing' = [removing EXCEPT ![p] = {}]
  /\ UNCHANGED <<row, sources, roots, projects>>
-----------------------------------------------------------------------------
Run(p, s) ==
  \/ TakeLock(p, s) \/ Claim(p, s) \/ Work(p, s) \/ RetireSource(p, s)
  \/ StoreReady(p, s) \/ StoreError(p, s) \/ ReleaseLease(p, s) \/ EndRun(p, s)

Next ==
  \/ \E s \in Sessions :
       \/ Resolve(s) \/ Insert(s) \/ Queue(s) \/ Expire(s) \/ Sweep(s)
       \/ Age(s) \/ CollectImported(s)
       \/ \E i \in Imports : CheckImport(i, s)
       \/ \E p \in Procs : Dispatch(p, s) \/ Run(p, s) \/ Collect(p, s)
  \/ \E i \in Imports : CommitImport(i)
  \/ \E p \in Procs : Crash(p) \/ \E r \in Roots : DeleteProject(p, r) \/ RemoveRoot(p, r)

Spec == Init /\ [][Next]_vars

\* A lease nobody renews runs out, the sweep and the dispatchers of the
\* processes come round, and a run goes on: the queue is the one of JobQueue.
\* Nothing is said of requests, imports, collections and failures.
Forsaken(s) == \A p \in Procs : job[p][s].at \in {"none", "end"}

Fairness ==
  \A s \in Sessions :
    /\ WF_vars(Forsaken(s) /\ Expire(s)) /\ WF_vars(Sweep(s))
    /\ \A p \in Procs : WF_vars(Dispatch(p, s)) /\ WF_vars(Run(p, s))

FairSpec == Spec /\ Fairness
-----------------------------------------------------------------------------
(* Properties                                                               *)

\* An outcome is never overwritten: a session that is ready, in error or
\* imported keeps that, but for the import of a ready one and its collection.
\* The sweep, a late worker, two imports and the collection race for the row.
OutcomeIsFinal ==
  [][\A s \in Sessions :
       /\ status[s] = "ready" => status'[s] \in {"ready", "imported", "deleted"}
       /\ status[s] = "error" => status'[s] \in {"error", "deleted"}
       /\ status[s] = "imported" => status'[s] \in {"imported", "deleted"}
       /\ status[s] = "deleted" => status'[s] = "deleted"]_vars

\* While a worker's lease is live nobody takes the session out of discovery but
\* this worker and the collection of yesterday's sessions.
LiveWorkerDecides ==
  [][\A s \in Sessions :
       status[s] = "discovering" /\ status'[s] \in {"ready", "error"} =>
         \/ lease[s] # "live"
         \/ job[worker[s]][s].at \in {"store", "fail"} /\ job'[worker[s]][s] # job[worker[s]][s]]_vars

\* An outcome is given by the worker that holds the session, and stays.
OutcomesStand == OutcomeIsFinal /\ LiveWorkerDecides

\* A session is imported at most once, whatever becomes of the project.
OneProjectPerSession == \A s \in Sessions : made[s] <= 1

\* The roots that a session of another project's scan refers to.
Rescanned == {Root[s] : s \in {t \in Sessions \ Cloned : request[t] # "none"}}

\* The root of a project is there, if no other session scanned it: neither the
\* collection that races with an import nor the end of an earlier request
\* takes it away.
ImportedRootStays == \A r \in live \ Rescanned : r \in roots

\* An import makes one project, and this project keeps its root.
ImportsSound == TypeOK /\ OneProjectPerSession /\ ImportedRootStays

Ended(s) == status[s] \in {"ready", "error", "imported", "deleted"}

\* The advisory lock is held by a database session that no run uses: the claim
\* threw after the lock was taken.
LockStranded(s) == lock[s] # NoProc /\ ~job[lock[s]][s].locked

\* Every session that waits for its run ends, unless its lock is stranded.
SessionEnds == \A s \in Sessions : status[s] = "pending" ~> Ended(s) \/ LockStranded(s)

\* The same without the exception, which a claim that throws needs.
PendingEnds == \A s \in Sessions : status[s] = "pending" ~> Ended(s)

\* routes/discovery.ts says of imported sessions that they do not own their
\* project's root: the collection of a session leaves a project its root.
ProjectKeepsRoot == \A r \in live : r \in roots

\* discovery-runner.ts says that temporary sources are retired before the
\* session becomes ready.
RetiredBeforeReady == \A s \in Sessions : status[s] = "ready" => s \notin sources
=============================================================================
