------------------------------- MODULE AiBudget -------------------------------
(***************************************************************************)
(* The daily AI budget of a project.  A request to a provider is admitted  *)
(* in a transaction that locks the budget, counts the usage of the day and *)
(* inserts a reservation; the outcome of the request consumes the          *)
(* reservation, and a usage event replaces its estimated charge.           *)
(*                                                                         *)
(* The transaction is READ COMMITTED: each statement of usageForDay sees   *)
(* what is committed when it runs, and is a step here; the connection of   *)
(* the transaction runs them in their order.  An attempt id is             *)
(* fresh, so only the process of an attempt writes its reservation and its *)
(* event, and one step may read and write them.  A process may stop        *)
(* anywhere; a statement without an answer may have been committed.        *)
(***************************************************************************)
EXTENDS Integers, FiniteSets
LOCAL INSTANCE FiniteSetsExt

CONSTANTS
  Requests,   \* requests to providers, by their attempt id
  Telemetry,  \* the ones that only report an event: nothing was reserved for them
  NoRequest,
  Estimate,   \* the tokens an attempt reserves
  Used,       \* the tokens its provider reports, when it does
  Baseline,   \* AI_BUDGET_PROVIDER_RESERVATION_TOKENS
  Limits,     \* the limits an owner may set
  MaxDay      \* bound: the last day

ASSUME BudgetAssumption ==
  /\ IsFiniteSet(Requests) /\ Telemetry \subseteq Requests /\ NoRequest \notin Requests
  /\ Estimate \in [Requests -> Nat \ {0}] /\ Used \in [Requests -> Nat] /\ Baseline \in Nat
  /\ Limits # {} /\ Limits \subseteq [attempts : Nat \ {0}, tokens : Nat \ {0}]
  /\ MaxDay \in Nat

VARIABLES
  day,        \* the UTC day
  limit,      \* dailyAttemptLimit and dailyTokenLimit
  phase,      \* what the process of an attempt does next
  outcome,    \* the usageStatus of the request
  rows,       \* ai_budget_reservations
  events,     \* ai_usage_events
  admitting,  \* the attempt whose transaction holds the budget
  query,      \* its next statement
  since,      \* the day it counts
  counted,    \* the attempts it has counted
  tokens,     \* the tokens it has counted
  missed,     \* the attempts that changed behind its back: not counted
  missedKnown \* the ones whose tokens were not counted

admission == <<admitting, query, since, counted, tokens, missed, missedKnown>>
budgetVars == <<day, limit, phase, outcome, rows, events, admission>>

Queries == {"telemetry", "consumed", "reserved", "unreserved", "known", "held", "charged"}
NoRow == [status |-> "none", utcDay |-> 0, charged |-> 0]
NoEvent == [usage |-> "none", on |-> 0]

BudgetTypeOK ==
  /\ day \in 0..MaxDay /\ limit \in Limits
  /\ phase \in [Requests -> {"idle", "admission", "calling", "settle", "report", "resettle",
                             "noAttempts", "noTokens", "over"}]
  /\ outcome \in [Requests -> {"unknown", "partial", "known"}]
  /\ rows \in [Requests -> [status : {"none", "reserved", "consumed"}, utcDay : 0..MaxDay, charged : Nat]]
  /\ events \in [Requests -> [usage : {"none", "unknown", "partial", "known"}, on : 0..MaxDay]]
  /\ admitting \in Requests \cup {NoRequest}
  /\ query \in Queries \cup {"none", "decide"}
  /\ since \in 0..MaxDay /\ counted \in Nat /\ tokens \in Nat
  /\ missed \subseteq Requests /\ missedKnown \subseteq Requests

BudgetInit ==
  /\ day = 0 /\ limit \in Limits
  /\ phase = [a \in Requests |-> "idle"] /\ outcome = [a \in Requests |-> "unknown"]
  /\ rows = [a \in Requests |-> NoRow] /\ events = [a \in Requests |-> NoEvent]
  /\ admitting = NoRequest /\ query = "none" /\ since = 0 /\ counted = 0 /\ tokens = 0
  /\ missed = {} /\ missedKnown = {}

Greater(m, n) == IF m >= n THEN m ELSE n
Moves(a, p) == phase' = [phase EXCEPT ![a] = p]
-----------------------------------------------------------------------------
(* usageForDay                                                              *)

Rows(d) == {a \in Requests : rows[a].status # "none" /\ rows[a].utcDay = d}

RowsThat(d, s) == {a \in Rows(d) : rows[a].status = s}
KnownEvent(a) == events[a].usage = "known"
Reports(a) == IF outcome[a] = "unknown" THEN 0 ELSE Used[a]

\* The events of the day, or a later one, that have no reservation.
Unreserved(d) == {a \in Requests : events[a].usage # "none" /\ events[a].on >= d /\ rows[a].status = "none"}

\* The attempts a statement counts.
CountedBy(q, d) ==
  CASE q = "telemetry" -> Unreserved(d)
    [] q = "consumed"  -> RowsThat(d, "consumed")
    [] q = "reserved"  -> RowsThat(d, "reserved")
    [] OTHER           -> {}

\* The attempts a statement adds the tokens of.
AddedBy(q, d) ==
  CASE q = "unreserved" -> Unreserved(d)
    [] q = "known"      -> {a \in Rows(d) : KnownEvent(a)}
    [] q = "held"       -> {a \in RowsThat(d, "reserved") : ~KnownEvent(a)}
    [] q = "charged"    -> {a \in RowsThat(d, "consumed") : ~KnownEvent(a)}
    [] OTHER            -> {}

\* The tokens of an attempt, to the statement that adds it.
Tokens(a) ==
  IF KnownEvent(a) THEN Used[a]
  ELSE IF rows[a].status = "none" THEN Greater(Baseline, Reports(a))
  ELSE IF rows[a].status = "reserved" THEN Estimate[a]
  ELSE Greater(rows[a].charged, Estimate[a])

\* Mutant: tokens reserved for requests under way are not added.
HeldForgotten(q) ==
  CASE q = "telemetry" -> "consumed" [] q = "consumed" -> "reserved"
    [] q = "reserved" -> "unreserved" [] q = "unreserved" -> "known"
    [] q = "known" -> "charged" [] OTHER -> "decide"

\* The order of the statements.
Following(q) ==
  CASE q = "telemetry" -> "consumed" [] q = "consumed" -> "reserved"
    [] q = "reserved" -> "unreserved" [] q = "unreserved" -> "known"
    [] q = "known" -> "held" [] q = "held" -> "charged" [] OTHER -> "decide"
-----------------------------------------------------------------------------
(* admitAiProviderAttempt                                                   *)

\* SELECT ... FOR UPDATE of the budget.
LockBudget(a) == admitting = NoRequest /\ admitting' = a

Admit(a) ==
  /\ phase[a] = "idle" /\ a \notin Telemetry
  /\ LockBudget(a)
  /\ Moves(a, "admission")
  /\ query' = "telemetry" /\ since' = day /\ counted' = 0 /\ tokens' = 0
  /\ missed' = {} /\ missedKnown' = {}
  /\ UNCHANGED <<day, limit, outcome, rows, events>>

\* A statement of usageForDay.
Count ==
  /\ query \in Queries
  /\ counted' = counted + Cardinality(CountedBy(query, since))
  /\ tokens' = tokens + MapThenSumSet(Tokens, AddedBy(query, since))
  /\ query' = Following(query)
  /\ UNCHANGED <<day, limit, phase, outcome, rows, events, admitting, since, missed, missedKnown>>

Unlock ==
  /\ admitting' = NoRequest /\ query' = "none" /\ since' = 0 /\ counted' = 0 /\ tokens' = 0
  /\ missed' = {} /\ missedKnown' = {}

Refuse(a, why) ==
  /\ Moves(a, why) /\ Unlock
  /\ UNCHANGED <<day, limit, outcome, rows, events>>

\* Mutant: the last attempt may be taken twice.
AttemptsAtMost == counted > limit.attempts

AttemptsSpent == counted >= limit.attempts
TokensSpent(a) == Estimate[a] > limit.tokens \/ tokens + Estimate[a] > limit.tokens

RefuseAttempts(a) == query = "decide" /\ a = admitting /\ AttemptsSpent /\ Refuse(a, "noAttempts")
RefuseTokens(a) ==
  query = "decide" /\ a = admitting /\ ~AttemptsSpent /\ TokensSpent(a) /\ Refuse(a, "noTokens")

\* The reservation is for the day of the insertion.  Without an answer to the
\* commit the request is not made.
Reserve(a) ==
  /\ query = "decide" /\ a = admitting
  /\ ~AttemptsSpent /\ ~TokensSpent(a)
  /\ rows' = [rows EXCEPT ![a] = [status |-> "reserved", utcDay |-> day, charged |-> 0]]
  /\ \E p \in {"calling", "over"} : Moves(a, p)
  /\ Unlock
  /\ UNCHANGED <<day, limit, outcome, events>>
-----------------------------------------------------------------------------
(* The request and its reconciliation                                       *)

Answer(a) ==
  /\ phase[a] = "calling"
  /\ \E u \in {"unknown", "partial", "known"} : outcome' = [outcome EXCEPT ![a] = u]
  /\ Moves(a, "settle")
  /\ UNCHANGED <<day, limit, rows, events, admission>>

\* Mutant: a partial report is not charged.
PartialFree(a) ==
  [rows[a] EXCEPT !.status = "consumed", !.charged = IF outcome[a] = "known" THEN Used[a] ELSE Estimate[a]]

\* reconcileAiBudgetReservation: once, and free only with a known event.
Reconciled(a) ==
  IF rows[a].status # "reserved" THEN rows[a]
  ELSE [rows[a] EXCEPT !.status = "consumed",
                       !.charged = IF KnownEvent(a) THEN 0 ELSE Greater(Estimate[a], Reports(a))]

\* A reservation that is consumed between the two statements that count
\* reservations is in neither count.
SlipsBy(a) == query = "reserved" /\ Reconciled(a) # rows[a] /\ rows[a].utcDay = since

\* With or without its answer; an error is logged.
Reconcile(a) ==
  \/ /\ rows' = [rows EXCEPT ![a] = Reconciled(a)]
     /\ missed' = IF SlipsBy(a) THEN missed \cup {a} ELSE missed
  \/ UNCHANGED <<rows, missed>>

\* completeProviderRequest, before there is an event.
Settle(a) ==
  /\ phase[a] = "settle"
  /\ Reconcile(a)
  /\ Moves(a, "report")
  /\ UNCHANGED <<day, limit, outcome, events, admitting, query, since, counted, tokens, missedKnown>>

\* An event that arrives after the statements that would have counted it.
Late(a) ==
  /\ missed' = IF a \in Telemetry /\ query \notin {"none", "telemetry"} THEN missed \cup {a} ELSE missed
  /\ missedKnown' =
       IF \/ a \notin Telemetry /\ outcome[a] = "known" /\ query \in {"held", "charged"}
          \/ a \in Telemetry /\ query \in {"known", "held", "charged", "decide"}
       THEN missedKnown \cup {a} ELSE missedKnown

\* recordAiUsageAttempt: the event.  What follows an error is skipped.
Report(a) ==
  /\ phase[a] = IF a \in Telemetry THEN "idle" ELSE "report"
  /\ \/ /\ events' = [events EXCEPT ![a] = [usage |-> outcome[a], on |-> day]]
        /\ Late(a)
        /\ \E p \in {"resettle", "over"} : Moves(a, p)
     \/ UNCHANGED <<events, missed, missedKnown>> /\ Moves(a, "over")
  /\ UNCHANGED <<day, limit, outcome, rows, admitting, query, since, counted, tokens>>

\* recordAiUsageAttempt: the reconciliation.
Resettle(a) ==
  /\ phase[a] = "resettle"
  /\ Reconcile(a)
  /\ Moves(a, "over")
  /\ UNCHANGED <<day, limit, outcome, events, admitting, query, since, counted, tokens, missedKnown>>
-----------------------------------------------------------------------------
(* The environment                                                          *)

\* The process of an attempt stops; its transaction is rolled back.
Stop(a) ==
  /\ phase[a] \in {"admission", "calling", "settle", "report", "resettle"}
  /\ Moves(a, "over")
  /\ IF a = admitting THEN Unlock ELSE UNCHANGED admission
  /\ UNCHANGED <<day, limit, outcome, rows, events>>

\* updateAiProjectBudget waits for the lock.
SetLimits ==
  /\ admitting = NoRequest
  /\ limit' \in Limits \ {limit}
  /\ UNCHANGED <<day, phase, outcome, rows, events, admission>>

Midnight ==
  /\ day < MaxDay /\ day' = day + 1
  /\ UNCHANGED <<limit, phase, outcome, rows, events, admission>>

BudgetNext ==
  \/ \E a \in Requests :
       \/ Admit(a) \/ RefuseAttempts(a) \/ RefuseTokens(a) \/ Reserve(a)
       \/ Answer(a) \/ Settle(a) \/ Report(a) \/ Resettle(a) \/ Stop(a)
  \/ Count \/ SetLimits \/ Midnight

BudgetSpec == BudgetInit /\ [][BudgetNext]_budgetVars
-----------------------------------------------------------------------------
(* Properties                                                               *)

\* The attempts and events a day's budget is charged with.
Charged(d) == Rows(d) \cup Unreserved(d)

\* An attempt gets its reservation only while the attempts of its day, other
\* than the ones that changed behind the back of its admission, are below the
\* limit - also when the day ends during the admission, and whatever limits the
\* owner sets.
AdmittedBelowLimit ==
  [][\A a \in Requests : rows[a].status = "none" /\ rows'[a].status # "none" =>
       Cardinality(Charged(day) \ missed) < limit.attempts]_budgetVars

\* Likewise for the tokens: what is charged, as far as it was estimated, leaves
\* room for the estimate of the new attempt.
EstimatesFit ==
  [][\A a \in Requests : rows[a].status = "none" /\ rows'[a].status # "none" =>
       MapThenSumSet(LAMBDA b : IF b \in Telemetry \/ Tokens(b) < Estimate[b] THEN Tokens(b) ELSE Estimate[b],
                     Charged(day) \ missedKnown)
         + Estimate[a] <= limit.tokens]_budgetVars

\* An attempt is refused for the number of attempts only when the day that it
\* counted has reached the limit: no reservation is counted twice.
RefusedAtLimit ==
  [][\A a \in Requests : phase[a] # "noAttempts" /\ phase'[a] = "noAttempts" =>
       Cardinality(Charged(since)) >= limit.attempts]_budgetVars

\* The number of attempts is counted right in both directions.
AttemptsCounted == AdmittedBelowLimit /\ RefusedAtLimit

\* A request that is over never costs less than its provider has reported, and
\* one without a report never less than its estimate - whichever of the event
\* and the reconciliations are lost, and in whatever order the others come.
NothingIsFree ==
  \A a \in Requests :
    /\ rows[a].status # "none" /\ ~KnownEvent(a) => Tokens(a) >= Estimate[a]
    /\ rows[a].status = "consumed" => Tokens(a) >= Reports(a)

\* The attempts of a day stay within the limit (of a limit that is not changed).
AttemptsWithinLimit == \A d \in 0..MaxDay : Cardinality(Rows(d)) <= limit.attempts

\* An attempt is refused for tokens only when the day has no room for them.
NoTokenTwice ==
  [][\A a \in Requests : phase[a] # "noTokens" /\ phase'[a] = "noTokens" =>
       MapThenSumSet(Tokens, Charged(since)) + Estimate[a] > limit.tokens]_budgetVars
=============================================================================
