------------------------------ MODULE AuditOutbox ------------------------------
(***************************************************************************)
(* Audit rows that could not be written.  A process keeps them in memory,  *)
(* stores a copy in the table pending_audit_logs and writes them again     *)
(* until audit_logs has them.  A process that starts reads the copies of   *)
(* every process and puts them in the place of its queue; jobs it has taken *)
(* up again may record audits, and drain the queue, before it does so.     *)
(* healthz shows a count of the rows that wait.                            *)
(*                                                                         *)
(* A step is one statement of the database with what the process does when *)
(* its answer comes; the answer of a failing one does not tell whether it  *)
(* was committed.                                                          *)
(***************************************************************************)
EXTENDS Integers, FiniteSets

CONSTANTS
  Rows,       \* audit rows
  Servers,      \* API server processes
  Home,       \* the process whose operation a row is about
  Bound,      \* the rows that refer to the project
  NoAudit,
  MaxAuditFaults   \* bound: crashes and database errors

ASSUME AuditAssumption ==
  /\ Home \in [Rows -> Servers] /\ Bound \subseteq Rows /\ NoAudit \notin Rows
  /\ IsFiniteSet(Rows) /\ MaxAuditFaults \in Nat

VARIABLES
  phase,     \* whether a process is down, starts, loads its queue or serves
  read,      \* the copies a loading process has read
  record,    \* recordAudit of a row
  pending,   \* pendingAudits of a process
  due,       \* the rows in it whose nextAttemptAt has come
  gauge,     \* auditWritesPending of a process
  drain,     \* drainPendingAudits of a process, and the row it is at
  history,   \* audit_logs
  outbox,    \* pending_audit_logs
  deleted,   \* whether the project is deleted
  cleared,   \* history: the rows that a load took out of the queue of a process
  beside,    \* history: whether the load of a process ran beside its drain
  auditFaults

loadVars == <<cleared, beside>>
auditVars == <<phase, read, record, pending, due, gauge, drain, history, outbox, deleted, loadVars, auditFaults>>

NoDrain == [at |-> "off", row |-> NoAudit]

AuditTypeOK ==
  /\ phase \in [Servers -> {"down", "starting", "loading", "serving"}]
  /\ read \in [Servers -> SUBSET Rows]
  /\ record \in [Rows -> {"idle", "persist", "done"}]
  /\ pending \in [Servers -> SUBSET Rows] /\ due \in [Servers -> SUBSET Rows]
  /\ gauge \in [Servers -> Nat]
  /\ drain \in [Servers -> [at : {"off", "write", "detach", "remove", "retry"}, row : Rows \cup {NoAudit}]]
  /\ history \subseteq Rows /\ outbox \subseteq Rows
  /\ cleared \in [Servers -> SUBSET Rows] /\ beside \in [Servers -> BOOLEAN]
  /\ deleted \in BOOLEAN /\ auditFaults \in 0..MaxAuditFaults

AuditInit ==
  /\ phase = [p \in Servers |-> "down"] /\ read = [p \in Servers |-> {}]
  /\ record = [r \in Rows |-> "idle"]
  /\ pending = [p \in Servers |-> {}] /\ due = [p \in Servers |-> {}]
  /\ gauge = [p \in Servers |-> 0] /\ drain = [p \in Servers |-> NoDrain]
  /\ cleared = [p \in Servers |-> {}] /\ beside = [p \in Servers |-> FALSE]
  /\ history = {} /\ outbox = {} /\ deleted = FALSE /\ auditFaults = 0

AuditFault == auditFaults < MaxAuditFaults /\ auditFaults' = auditFaults + 1
DrainGoes(p, at, r) == drain' = [drain EXCEPT ![p] = [at |-> at, row |-> r]]

\* The answers of a statement that puts a row in a table: it is there, or an
\* error after which it may be there.
Written(table, r) == table' = table \cup {r} /\ UNCHANGED auditFaults
NotAnswered(table, r) == AuditFault /\ table' \in {table, table \cup {r}}

\* The row refers to a project that is deleted: audit_logs refuses it.
Refused(r) == deleted /\ r \in Bound
-----------------------------------------------------------------------------
(* recordAudit                                                              *)

Waits(p, r) ==
  /\ pending' = [pending EXCEPT ![p] = @ \cup {r}]
  /\ due' = [due EXCEPT ![p] = @ \cup {r}]
  /\ gauge' = [gauge EXCEPT ![p] = @ + 1]

Record(r) ==
  /\ record[r] = "idle" /\ phase[Home[r]] # "down"
  /\ \/ /\ ~Refused(r) /\ Written(history, r)
        /\ record' = [record EXCEPT ![r] = "done"]
        /\ UNCHANGED <<pending, due, gauge>>
     \/ /\ IF Refused(r) THEN UNCHANGED <<history, auditFaults>> ELSE NotAnswered(history, r)
        /\ Waits(Home[r], r)
        /\ record' = [record EXCEPT ![r] = "persist"]
  /\ UNCHANGED <<phase, read, drain, outbox, deleted, loadVars>>

\* persistPendingAudit, and mutationsWithoutAudit when it fails.
Persist(r) ==
  /\ record[r] = "persist"
  /\ Written(outbox, r) \/ NotAnswered(outbox, r)
  /\ record' = [record EXCEPT ![r] = "done"]
  /\ UNCHANGED <<phase, read, pending, due, gauge, drain, history, deleted, loadVars>>
-----------------------------------------------------------------------------
(* drainPendingAudits                                                       *)

\* The loop goes on with a row that is due, or ends.
Onward(p) ==
  \/ \E r \in due[p] : DrainGoes(p, "write", r)
  \/ due[p] = {} /\ drain' = [drain EXCEPT ![p] = NoDrain]

StartDrain(p) ==
  /\ phase[p] # "down" /\ drain[p].at = "off" /\ due[p] # {}
  /\ Onward(p)
  /\ UNCHANGED <<phase, read, record, pending, due, gauge, history, outbox, deleted, loadVars, auditFaults>>

\* Mutant: the row is taken for accepted whatever the answer was.
LeavesAnyway(p, r, to) ==
  /\ pending' = [pending EXCEPT ![p] = @ \ {r}]
  /\ due' = [due EXCEPT ![p] = @ \ {r}]
  /\ DrainGoes(p, "remove", r)

\* The row is accepted and leaves the queue, or it is tried again later (if a
\* load has cleared it meanwhile, it is not in the queue any more).
Leaves(p, r, to) ==
  /\ pending' = IF to = "remove" THEN [pending EXCEPT ![p] = @ \ {r}] ELSE pending
  /\ due' = [due EXCEPT ![p] = @ \ {r}]
  /\ DrainGoes(p, to, r)

\* Mutant: there is no second statement.
NotDetached(p, r) == Leaves(p, r, "retry")

\* The row is written again without its project.
Detaches(p, r) == DrainGoes(p, "detach", r) /\ UNCHANGED <<pending, due>>

\* The statement of a row is answered.
Write(p) ==
  LET r == drain[p].row
  IN  /\ drain[p].at = "write"
      /\ \/ Refused(r) /\ Detaches(p, r) /\ UNCHANGED <<history, auditFaults>>
         \/ ~Refused(r) /\ Written(history, r) /\ Leaves(p, r, "remove")
         \/ NotAnswered(history, r) /\ (Refused(r) => UNCHANGED history) /\ Leaves(p, r, "retry")
      /\ UNCHANGED <<phase, read, record, gauge, outbox, deleted, loadVars>>

\* The row is written without its project.
Detach(p) ==
  LET r == drain[p].row
  IN  /\ drain[p].at = "detach"
      /\ \/ Written(history, r) /\ Leaves(p, r, "remove")
         \/ NotAnswered(history, r) /\ Leaves(p, r, "retry")
      /\ UNCHANGED <<phase, read, record, gauge, outbox, deleted, loadVars>>

\* removePersistedAudit, and what a failure does to a row that is accepted.
Remove(p) ==
  LET r == drain[p].row
  IN  /\ drain[p].at = "remove"
      /\ \/ /\ outbox' = outbox \ {r} /\ UNCHANGED auditFaults
            /\ gauge' = [gauge EXCEPT ![p] = IF @ > 0 THEN @ - 1 ELSE 0]
            /\ Onward(p)
         \/ /\ AuditFault /\ outbox' \in {outbox, outbox \ {r}}
            /\ DrainGoes(p, "retry", r)
            /\ UNCHANGED gauge
      /\ UNCHANGED <<phase, read, record, pending, due, history, deleted, loadVars>>

\* Mutant: the count goes down with every try.
Discounts(p) == gauge' = [gauge EXCEPT ![p] = IF @ > 0 THEN @ - 1 ELSE 0]

\* The update of the copy leaves the count alone.
Discount(p) == UNCHANGED gauge

\* The number of tries of the copy is updated; this writes it anew.
Retry(p) ==
  LET r == drain[p].row
  IN  /\ drain[p].at = "retry"
      /\ Written(outbox, r) \/ NotAnswered(outbox, r)
      /\ Discount(p)
      /\ Onward(p)
      /\ UNCHANGED <<phase, read, record, pending, due, history, deleted, loadVars>>

\* The delay of a row passes.
DueAgain(p, r) ==
  /\ r \in pending[p] \ due[p]
  /\ due' = [due EXCEPT ![p] = @ \cup {r}]
  /\ UNCHANGED <<phase, read, record, pending, gauge, drain, history, outbox, deleted, loadVars, auditFaults>>
-----------------------------------------------------------------------------
(* loadPendingAudits                                                        *)

\* reconcileStuckJobs and what else comes before the load.
Start(p) ==
  /\ phase[p] = "down"
  /\ phase' = [phase EXCEPT ![p] = "starting"]
  /\ UNCHANGED <<read, record, pending, due, gauge, drain, history, outbox, deleted, loadVars, auditFaults>>

\* The copies are read; if they cannot be, the queue stays as it is.
Select(p) ==
  /\ phase[p] = "starting"
  /\ \/ phase' = [phase EXCEPT ![p] = "loading"] /\ read' = [read EXCEPT ![p] = outbox] /\ UNCHANGED auditFaults
     \/ AuditFault /\ phase' = [phase EXCEPT ![p] = "serving"] /\ UNCHANGED read
  /\ UNCHANGED <<record, pending, due, gauge, drain, history, outbox, deleted, loadVars>>

\* The queue is cleared and filled with what was read, whatever it held and
\* whatever a drain is at.
Load(p) ==
  /\ phase[p] = "loading"
  /\ phase' = [phase EXCEPT ![p] = "serving"]
  /\ pending' = [pending EXCEPT ![p] = read[p]]
  /\ due' = [due EXCEPT ![p] = {}]
  /\ gauge' = [gauge EXCEPT ![p] = Cardinality(read[p])]
  /\ read' = [read EXCEPT ![p] = {}]
  /\ cleared' = [cleared EXCEPT ![p] = pending[p] \ read[p]]
  /\ beside' = [beside EXCEPT ![p] = drain[p].row \in Rows]
  /\ UNCHANGED <<record, drain, history, outbox, deleted, auditFaults>>

\* A process dies; what it was recording is recorded no further.
Dies(p) ==
  /\ AuditFault /\ phase[p] # "down"
  /\ phase' = [phase EXCEPT ![p] = "down"] /\ read' = [read EXCEPT ![p] = {}]
  /\ pending' = [pending EXCEPT ![p] = {}] /\ due' = [due EXCEPT ![p] = {}]
  /\ gauge' = [gauge EXCEPT ![p] = 0] /\ drain' = [drain EXCEPT ![p] = NoDrain]
  /\ record' = [r \in Rows |-> IF Home[r] = p /\ record[r] = "persist" THEN "done" ELSE record[r]]
  /\ cleared' = [cleared EXCEPT ![p] = {}] /\ beside' = [beside EXCEPT ![p] = FALSE]
  /\ UNCHANGED <<history, outbox, deleted>>

DeleteProject ==
  /\ ~deleted /\ deleted' = TRUE
  /\ UNCHANGED <<phase, read, record, pending, due, gauge, drain, history, outbox, loadVars, auditFaults>>
-----------------------------------------------------------------------------
Recording == \E r \in Rows : Record(r) \/ Persist(r)
Draining(p) == StartDrain(p) \/ Write(p) \/ Detach(p) \/ Remove(p) \/ Retry(p)
Starting(p) == Start(p) \/ Select(p) \/ Load(p)

AuditNext ==
  \/ Recording \/ DeleteProject
  \/ \E p \in Servers : Draining(p) \/ Starting(p) \/ Dies(p) \/ \E r \in Rows : DueAgain(p, r)

AuditSpec == AuditInit /\ [][AuditNext]_auditVars

\* The timer of the queue fires, statements are answered, delays pass, and a
\* process that is down is started.
AuditFairness ==
  /\ \A r \in Rows : WF_auditVars(Persist(r))
  /\ \A p \in Servers : /\ WF_auditVars(Draining(p)) /\ WF_auditVars(Starting(p))
                      /\ \A r \in Rows : WF_auditVars(DueAgain(p, r))

FairAuditSpec == AuditSpec /\ AuditFairness
-----------------------------------------------------------------------------
(* Properties.                                                              *)

\* A process has the row in its queue, or in a statement of a recording or a drain.
Has(p, r) ==
  r \in pending[p] \/ drain[p].row = r \/ (Home[r] = p /\ record[r] = "persist")

Known(r) == r \in history \cup outbox \/ \E p \in Servers : Has(p, r)

\* An audit that is written or waits is forgotten in two ways only, both while
\* no copy is stored: its process dies, or its load took the row out of the
\* queue.  No step of another process, no refused row, no failing statement and
\* no other race loses it.
ForgottenForCause ==
  [][\A r \in Rows : Known(r) /\ ~Known(r)' =>
       /\ r \notin outbox
       /\ \E p \in Servers :
            Has(p, r) /\ (phase'[p] = "down" \/ r \in cleared'[p])]_auditVars

\* A stored copy is taken away only when audit_logs has the row.
CopyOutlivesDelivery == [][outbox \ outbox' \subseteq history]_auditVars

\* No audit is lost, neither the waiting row nor its copy, but in those ways.
NoRowLost == ForgottenForCause /\ CopyOutlivesDelivery

\* healthz never shows fewer rows than wait; it is one short at most in a
\* process whose load ran beside its drain.
NeverUnderReported ==
  \A p \in Servers : gauge[p] + (IF beside[p] THEN 1 ELSE 0) >= Cardinality(pending[p])

\* A row that waits, or that a starting process has read, is written, whatever
\* becomes of its project, unless the process dies or its load takes the row
\* out of the queue.
Delivered ==
  \A p \in Servers, r \in Rows :
    r \in pending[p] \cup read[p] ~> r \in history \/ phase[p] = "down" \/ r \in cleared[p]

\* What the comment of recordAudit says (the row is retained and retried until
\* the database accepts it) and a load beside a recording breaks: a row is
\* forgotten only by a crash.
ForgottenByCrashOnly ==
  [][\A r \in Rows : Known(r) /\ ~Known(r)' => \E p \in Servers : Has(p, r) /\ phase'[p] = "down"]_auditVars

\* What healthz is meant to show and a load beside a drain breaks.
CountCoversQueue == \A p \in Servers : gauge[p] >= Cardinality(pending[p])

\* What operational-counters.ts says of the count and a failing removal breaks:
\* between two drains it is the number of rows that wait for a retry.
CountsWaitingRows == \A p \in Servers : drain[p].at = "off" => gauge[p] = Cardinality(pending[p])

\* What the comment of loadPendingAudits says and a failing load breaks: the
\* stored rows are recovered once the database answers.
StoredRowsRecovered == \A r \in Rows : r \in outbox ~> r \in history
=============================================================================
