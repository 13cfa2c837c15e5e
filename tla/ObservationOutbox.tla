--------------------------- MODULE ObservationOutbox ---------------------------
(***************************************************************************)
(* The observations of one task execution.  The transaction that accepts a *)
(* result stores them in an outbox row of the attempt; jobs of any process *)
(* claim the row with a lease that is never renewed, materialize the       *)
(* observations into the episode of the attempt and delete the row.        *)
(*                                                                         *)
(* A step is one statement or transaction of the database; a worker id is  *)
(* fresh per claim.                                                        *)
(***************************************************************************)
EXTENDS Integers

CONSTANTS
  Procs,        \* API server processes
  MaxAttempt,   \* bound: the last attempt of the execution
  MaxFails,     \* MAX_TASK_OBSERVATION_OUTBOX_ATTEMPTS
  MaxClaims,    \* bound: claims in one behaviour
  MaxFaults,    \* bound: crashes, database errors and payloads that are refused
  MaxRequeues   \* bound: rows an operator takes up again

ASSUME ConstantsAssumption ==
  /\ MaxAttempt \in Nat /\ MaxFails \in Nat \ {0} /\ MaxClaims \in Nat
  /\ MaxFaults \in Nat /\ MaxRequeues \in Nat

VARIABLES
  attempt,   \* ai_executions.attempt
  verdict,   \* of the current attempt: none, retry (it may be resumed) or final
  episodes,  \* the attempts that have an episode
  owed,      \* the attempts whose acceptance stored observations
  refused,   \* the attempts whose observations a delivery refused for what they say
  row,       \* the outbox rows by attempt
  stored,    \* the attempts whose observations are in their episode
  job,       \* the outbox jobs of the processes, by row
  claims, faults, requeues

vars == <<attempt, verdict, episodes, owed, refused, row, stored, job, claims, faults, requeues>>

Attempts == 0..MaxAttempt
Workers == 1..MaxClaims
NoWorker == 0

NoRow == [status |-> "none", due |-> FALSE, worker |-> NoWorker, lease |-> "none", fails |-> 0]
Idle == [pc |-> "idle", worker |-> NoWorker, permanent |-> FALSE]

TypeOK ==
  /\ attempt \in Attempts /\ verdict \in {"none", "retry", "final"}
  /\ episodes \subseteq Attempts /\ owed \subseteq Attempts /\ stored \subseteq Attempts
  /\ refused \subseteq Attempts
  /\ row \in [Attempts -> [status : {"none", "pending", "running", "dead"}, due : BOOLEAN,
                           worker : Workers \cup {NoWorker}, lease : {"none", "live", "expired"},
                           fails : 0..MaxFails]]
  /\ job \in [Procs -> [Attempts -> [pc : {"idle", "queued", "store", "delete", "fail"},
                                     worker : Workers \cup {NoWorker}, permanent : BOOLEAN]]]
  /\ claims \in 0..MaxClaims /\ faults \in 0..MaxFaults /\ requeues \in 0..MaxRequeues

Init ==
  /\ attempt = 0 /\ verdict = "none" /\ episodes = {} /\ owed = {} /\ refused = {} /\ stored = {}
  /\ row = [a \in Attempts |-> NoRow]
  /\ job = [p \in Procs |-> [a \in Attempts |-> Idle]]
  /\ claims = 0 /\ faults = 0 /\ requeues = 0
-----------------------------------------------------------------------------
(* The execution.                                                           *)

\* finalizeExecutionAcceptance, with or without observations.
Accept(v, observed) ==
  /\ verdict = "none"
  /\ verdict' = v
  /\ IF observed
     THEN /\ owed' = owed \cup {attempt}
          /\ row' = [row EXCEPT ![attempt] = [NoRow EXCEPT !.status = "pending", !.due = TRUE]]
     ELSE UNCHANGED <<owed, row>>
  /\ UNCHANGED <<attempt, episodes, refused, stored, job, claims, faults, requeues>>

\* A resume token opens the next attempt.
Resume ==
  /\ verdict = "retry" /\ attempt < MaxAttempt
  /\ attempt' = attempt + 1 /\ verdict' = "none"
  /\ UNCHANGED <<episodes, owed, refused, row, stored, job, claims, faults, requeues>>

EpisodeOpens ==
  /\ episodes' = episodes \cup {attempt}
  /\ UNCHANGED <<attempt, verdict, owed, refused, row, stored, job, claims, faults, requeues>>
-----------------------------------------------------------------------------
(* The outbox.                                                              *)

\* Mutant: a row whose worker died is left alone.
PendingOnly(a) == row[a].status = "pending" /\ row[a].due

Claimable(a) ==
  \/ row[a].status = "pending" /\ row[a].due
  \/ row[a].status = "running" /\ row[a].lease = "expired"

Goes(p, a, pc) == job' = [job EXCEPT ![p][a].pc = pc]
Ends(p, a) == job' = [job EXCEPT ![p][a] = Idle]
Fault == faults < MaxFaults /\ faults' = faults + 1

\* dispatchPendingTaskObservationOutbox; the local queue refuses a second job
\* of the row.
Dispatch(p, a) ==
  /\ job[p][a].pc = "idle"
  /\ Claimable(a)
  /\ Goes(p, a, "queued")
  /\ UNCHANGED <<attempt, verdict, episodes, owed, refused, row, stored, claims, faults, requeues>>

\* claimObservationOutboxRow
Claim(p, a) ==
  /\ job[p][a].pc = "queued"
  /\ IF Claimable(a)
     THEN /\ claims < MaxClaims
          /\ claims' = claims + 1
          /\ row' = [row EXCEPT ![a] = [@ EXCEPT !.status = "running", !.worker = claims + 1, !.lease = "live"]]
          /\ job' = [job EXCEPT ![p][a] = [Idle EXCEPT !.pc = "store", !.worker = claims + 1]]
     ELSE Ends(p, a) /\ UNCHANGED <<row, claims>>
  /\ UNCHANGED <<attempt, verdict, episodes, owed, refused, stored, faults, requeues>>

\* The episode of the attempt is there and its execution has not moved on.
Current(a) == a \in episodes /\ attempt = a

FailsFor(p, a, permanent) ==
  job' = [job EXCEPT ![p][a] = [@ EXCEPT !.pc = "fail", !.permanent = permanent]]

\* The transaction of materializeServerOwnedObservations.  Its answer may be lost.
Materialize(p, a) ==
  /\ Current(a) /\ a \notin refused
  /\ stored' = stored \cup {a}
  /\ \/ Goes(p, a, "delete") /\ UNCHANGED faults
     \/ Fault /\ Goes(p, a, "fail")
  /\ UNCHANGED refused

\* The payload is invalid, or contradicts itself, its project or its episode:
\* a permanent failure, and the same payload is refused at every delivery.
Refuse(p, a) ==
  /\ a \notin stored
  /\ refused' = refused \cup {a}
  /\ FailsFor(p, a, TRUE)
  /\ IF a \in refused THEN UNCHANGED faults ELSE Fault
  /\ UNCHANGED stored

\* A missing episode is a failure to try again after, another attempt is not.
MissesEpisode(p, a) ==
  /\ ~Current(a)
  /\ FailsFor(p, a, a \in episodes)
  /\ UNCHANGED <<refused, stored, faults>>

Store(p, a) ==
  /\ job[p][a].pc = "store"
  /\ Materialize(p, a) \/ Refuse(p, a) \/ MissesEpisode(p, a)
  /\ UNCHANGED <<attempt, verdict, episodes, owed, row, claims, requeues>>

\* Mutant: the worker is not compared.
HoldsAny(p, a) == row[a].status = "running"

Holds(p, a) == row[a].status = "running" /\ row[a].worker = job[p][a].worker

Delete(p, a) ==
  /\ job[p][a].pc = "delete"
  /\ row' = IF Holds(p, a) THEN [row EXCEPT ![a] = NoRow] ELSE row
  /\ Ends(p, a)
  /\ UNCHANGED <<attempt, verdict, episodes, owed, refused, stored, claims, faults, requeues>>

\* A statement of the delivery fails.
Fails(p, a) ==
  /\ job[p][a].pc \in {"store", "delete"}
  /\ Fault
  /\ Goes(p, a, "fail")
  /\ UNCHANGED <<attempt, verdict, episodes, owed, refused, row, stored, claims, requeues>>

Failed(a, dead) ==
  [status |-> IF dead THEN "dead" ELSE "pending", due |-> dead, worker |-> NoWorker, lease |-> "none",
   fails |-> row[a].fails + 1]

\* Mutant: a row that is out of tries is deleted.
FailedDropped(a, dead) == IF dead THEN NoRow ELSE Failed(a, dead)

FailedRow(a, dead) == Failed(a, dead)

\* recordObservationOutboxFailure
RecordFailure(p, a) ==
  /\ job[p][a].pc = "fail"
  /\ row' = IF Holds(p, a)
            THEN [row EXCEPT ![a] = FailedRow(a, job[p][a].permanent \/ row[a].fails + 1 >= MaxFails)]
            ELSE row
  /\ Ends(p, a)
  /\ UNCHANGED <<attempt, verdict, episodes, owed, refused, stored, claims, faults, requeues>>

\* The failure cannot be recorded, or the claim cannot be made.
GivesUp(p, a) ==
  /\ job[p][a].pc \in {"queued", "fail"}
  /\ Fault
  /\ Ends(p, a)
  /\ UNCHANGED <<attempt, verdict, episodes, owed, refused, row, stored, claims, requeues>>

Crash(p) ==
  /\ \E a \in Attempts : job[p][a].pc # "idle"
  /\ Fault
  /\ job' = [job EXCEPT ![p] = [a \in Attempts |-> Idle]]
  /\ UNCHANGED <<attempt, verdict, episodes, owed, refused, row, stored, claims, requeues>>

LeaseExpires(a) ==
  /\ row[a].lease = "live"
  /\ row' = [row EXCEPT ![a].lease = "expired"]
  /\ UNCHANGED <<attempt, verdict, episodes, owed, refused, stored, job, claims, faults, requeues>>

BackoffEnds(a) ==
  /\ row[a].status = "pending" /\ ~row[a].due
  /\ row' = [row EXCEPT ![a].due = TRUE]
  /\ UNCHANGED <<attempt, verdict, episodes, owed, refused, stored, job, claims, faults, requeues>>

\* requeueDeadLetteredTaskObservationOutboxRow
Requeue(a) ==
  /\ row[a].status = "dead"
  /\ requeues < MaxRequeues /\ requeues' = requeues + 1
  /\ row' = [row EXCEPT ![a] = [NoRow EXCEPT !.status = "pending", !.due = TRUE]]
  /\ UNCHANGED <<attempt, verdict, episodes, owed, refused, stored, job, claims, faults>>
-----------------------------------------------------------------------------
Delivery(p, a) == Claim(p, a) \/ Store(p, a) \/ Delete(p, a) \/ RecordFailure(p, a)

Next ==
  \/ \E v \in {"retry", "final"}, observed \in BOOLEAN : Accept(v, observed)
  \/ Resume \/ EpisodeOpens
  \/ \E p \in Procs : Crash(p)
  \/ \E a \in Attempts : LeaseExpires(a) \/ BackoffEnds(a) \/ Requeue(a)
  \/ \E p \in Procs, a \in Attempts : Dispatch(p, a) \/ Delivery(p, a) \/ Fails(p, a) \/ GivesUp(p, a)

Spec == Init /\ [][Next]_vars

\* The reconciliation of some process dispatches the rows again and again, a
\* queued job runs to its end, leases and delays pass.
Fairness ==
  \A a \in Attempts : /\ WF_vars(LeaseExpires(a) \/ BackoffEnds(a))
                      /\ WF_vars(\E p \in Procs : Dispatch(p, a))
                      /\ \A p \in Procs : WF_vars(Delivery(p, a))

FairSpec == Spec /\ Fairness
-----------------------------------------------------------------------------
(* Properties.                                                              *)

\* The promise of ObservationPromise, as the outbox keeps it: the row of an
\* attempt disappears only after its observations were stored.
Promised(a) ==
  IF a \notin owed THEN "none"
  ELSE IF a \in stored THEN "kept"
  ELSE IF row[a].status = "dead" THEN "aside"
  ELSE IF row[a].status = "none" THEN "lost" ELSE "owed"

P == INSTANCE ObservationPromise WITH promise <- [a \in Attempts |-> Promised(a)]
KeepsPromise == P!Spec

\* A row is put aside only after all its tries, when the execution went on to
\* another attempt, or when its observations are refused for what they say:
\* sound observations of the current attempt get every try, and no late worker,
\* lost answer or episode that opens late uses tries up or condemns a row that
\* another worker delivers.
AsideForCause ==
  \A a \in Attempts : row[a].status = "dead" =>
    row[a].fails = MaxFails \/ a < attempt \/ a \in refused

\* A leased row is touched by its worker only: a late worker neither deletes
\* it nor records its failure, and no operator takes it up.
LeasedRowIsItsWorkers ==
  [][\A a \in Attempts :
       row[a].lease = "live" /\ row'[a].status # "running" =>
         \E p \in Procs : job[p][a].worker = row[a].worker /\ job'[p][a] = Idle]_vars

\* A row ends at the hand of its worker, and is given up only for a cause.
RowEndsForCause == [](TypeOK /\ AsideForCause) /\ LeasedRowIsItsWorkers

\* Every row is delivered or put aside: crashes, lost answers and expired
\* leases delay that and do not prevent it.
RowSettles ==
  \A a \in Attempts : row[a].status \in {"pending", "running"}
                        ~> row[a].status \in {"none", "dead"} \/ claims = MaxClaims

\* What the repository says and the code does not do: the sound observations of
\* an accepted result are stored in the end, whatever the execution does next.
AcceptedAreObserved ==
  \A a \in Attempts : a \in owed \ refused /\ a \in episodes ~> a \in stored \/ claims = MaxClaims
=============================================================================
