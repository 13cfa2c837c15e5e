----------------------------- MODULE ModelAttempts -----------------------------
(***************************************************************************)
(* Attempts at rate-limited models.  An attempt reserves its lanes (the    *)
(* credential, the publisher and the model) one after the other: in its    *)
(* process by a chain of promises, between processes by a lease row that   *)
(* expires.  It then looks at the shared cooldowns, sends one request or,  *)
(* after a transient failure, two, and releases the lanes in reverse.      *)
(*                                                                         *)
(* A step runs from one await to the next.  A lease runs out after a fixed *)
(* time, whatever its holder is at: the transport of a whole answer sets   *)
(* no timer, the catalog is read and a request repeated under the leases.  *)
(***************************************************************************)
EXTENDS Naturals, Sequences, FiniteSets

CONSTANTS
  Attempts,     \* attempts
  Procs,        \* API server processes
  Home,         \* the process of an attempt
  Keys,         \* lanes
  Lanes,        \* the lanes of an attempt, in the order they are reserved
  Model,        \* the model of an attempt: one of its lanes, and what it cools down
  Retrying,     \* the attempts whose caller allows a second request
  MaxWaiters,   \* MAX_LOCAL_MODEL_ATTEMPT_WAITERS
  MaxFaults,    \* bound: crashes and database errors
  MaxLate,      \* bound: lanes whose lease runs out under an attempt
  NoAttempt

ASSUME ConstantsAssumption ==
  /\ Home \in [Attempts -> Procs] /\ Lanes \in [Attempts -> Seq(Keys)] /\ Model \in [Attempts -> Keys]
  /\ \A a \in Attempts : \A i, j \in DOMAIN Lanes[a] : Lanes[a][i] = Lanes[a][j] => i = j
  /\ \A a \in Attempts : \E i \in DOMAIN Lanes[a] : Lanes[a][i] = Model[a]
  /\ Retrying \subseteq Attempts /\ NoAttempt \notin Attempts
  /\ MaxWaiters \in Nat /\ MaxFaults \in Nat /\ MaxLate \in Nat

VARIABLES
  pc,       \* where an attempt is
  got,      \* the number of its lanes it has reserved
  tries,    \* the requests it has sent
  chain,    \* localAttemptTails: the links of a lane that are not yet resolved
  waiters,  \* localAttemptWaiters
  lease,    \* the lease rows of openrouter_model_cooldowns
  late,     \* history: the lanes whose lease ran out under an attempt
  cooling,  \* the cooldown rows of openrouter_model_cooldowns
  known,    \* the cooldowns a process has in memory
  faults

vars == <<pc, got, tries, chain, waiters, lease, late, cooling, known, faults>>

Open == [holder |-> NoAttempt, expired |-> FALSE]

TypeOK ==
  /\ pc \in [Attempts -> {"idle", "join", "local", "lease", "check", "send", "request", "cool", "clear",
                          "release", "unlink", "refused", "done"}]
  /\ \A a \in Attempts : got[a] \in 0..Len(Lanes[a])
  /\ tries \in [Attempts -> 0..2]
  /\ \A p \in Procs, k \in Keys :
       \A i \in DOMAIN chain[p][k] : chain[p][k][i] \in [who : Attempts, released : BOOLEAN]
  /\ waiters \in [Procs -> [Keys -> 0..MaxWaiters]]
  /\ lease \in [Keys -> [holder : Attempts \cup {NoAttempt}, expired : BOOLEAN]]
  /\ late \subseteq Attempts \X Keys
  /\ cooling \subseteq Keys /\ known \in [Procs -> SUBSET Keys] /\ faults \in 0..MaxFaults

Init ==
  /\ pc = [a \in Attempts |-> "idle"] /\ got = [a \in Attempts |-> 0] /\ tries = [a \in Attempts |-> 0]
  /\ chain = [p \in Procs |-> [k \in Keys |-> <<>>]]
  /\ waiters = [p \in Procs |-> [k \in Keys |-> 0]]
  /\ lease = [k \in Keys |-> Open] /\ late = {}
  /\ cooling = {} /\ known = [p \in Procs |-> {}] /\ faults = 0

Fault == faults < MaxFaults /\ faults' = faults + 1
Goes(a, to) == pc' = [pc EXCEPT ![a] = to]
-----------------------------------------------------------------------------
(* The chain of a lane in one process.                                      *)

\* The lane an attempt is about to reserve, or to release.
Wanted(a) == Lanes[a][got[a] + 1]
Latest(a) == Lanes[a][got[a]]

Waiting(a) == chain[Home[a]][Wanted(a)]

\* A promise of the chain resolves when its link and all before it are released.
Resolved(links) ==
  LET open == {i \in DOMAIN links : ~links[i].released}
  IN  IF open = {} THEN <<>> ELSE SubSeq(links, CHOOSE i \in open : \A j \in open : i <= j, Len(links))

Unlinked(a, k) ==
  LET links == chain[Home[a]][k]
  IN  [chain EXCEPT ![Home[a]][k] =
         Resolved([i \in DOMAIN links |-> [links[i] EXCEPT !.released = @ \/ links[i].who = a]])]

\* Mutant: a link that is given up stays closed.
LeavesClosed(a, k) == waiters' = [waiters EXCEPT ![Home[a]][k] = @ - 1] /\ UNCHANGED chain

LeavesChain(a, k) ==
  /\ chain' = Unlinked(a, k)
  /\ waiters' = [waiters EXCEPT ![Home[a]][k] = @ - 1]

Full(a) == waiters[Home[a]][Wanted(a)] >= MaxWaiters

\* The first half of acquireLocalModelAttemptLease.
Join(a) ==
  /\ pc[a] = "join"
  /\ IF Full(a)
     THEN Goes(a, "refused") /\ UNCHANGED <<chain, waiters>>
     ELSE /\ waiters' = [waiters EXCEPT ![Home[a]][Wanted(a)] = @ + 1]
          /\ chain' = [chain EXCEPT ![Home[a]][Wanted(a)] = Append(@, [who |-> a, released |-> FALSE])]
          /\ Goes(a, "local")
  /\ UNCHANGED <<got, tries, lease, late, cooling, known, faults>>

Turn(a) == Waiting(a) # <<>> /\ Head(Waiting(a)).who = a

\* waitForLocalLease finds its predecessor resolved.
LocalTurn(a) ==
  /\ pc[a] = "local" /\ Turn(a)
  /\ Goes(a, "lease")
  /\ UNCHANGED <<got, tries, chain, waiters, lease, late, cooling, known, faults>>

\* The wait ends without a lease: here, for the row, or by the caller's signal.
GiveUp(a) ==
  /\ pc[a] \in {"local", "lease"}
  /\ LeavesChain(a, Wanted(a))
  /\ Goes(a, "refused")
  /\ UNCHANGED <<got, tries, lease, late, cooling, known, faults>>
-----------------------------------------------------------------------------
(* The lease of a lane between processes.                                   *)

Reserves(a) ==
  /\ got' = [got EXCEPT ![a] = @ + 1]
  /\ Goes(a, IF got[a] + 1 = Len(Lanes[a]) THEN "check" ELSE "join")

\* acquireAttemptLease: the row is inserted, or updated when it has expired.
TakeLease(a) ==
  /\ pc[a] = "lease"
  /\ lease[Wanted(a)].holder = NoAttempt \/ lease[Wanted(a)].expired
  /\ lease' = [lease EXCEPT ![Wanted(a)] = [holder |-> a, expired |-> FALSE]]
  /\ Reserves(a)
  /\ UNCHANGED <<tries, chain, waiters, late, cooling, known, faults>>

\* The statement fails; it may have been committed.
TakeFails(a) ==
  /\ pc[a] = "lease"
  /\ Fault
  /\ \/ UNCHANGED lease
     \/ /\ lease[Wanted(a)].holder = NoAttempt \/ lease[Wanted(a)].expired
        /\ lease' = [lease EXCEPT ![Wanted(a)] = [holder |-> a, expired |-> FALSE]]
  /\ LeavesChain(a, Wanted(a))
  /\ Goes(a, "refused")
  /\ UNCHANGED <<got, tries, late, cooling, known>>

\* An attempt that was refused a lane releases the ones it has.
Refused(a) ==
  /\ pc[a] = "refused"
  /\ Goes(a, IF got[a] = 0 THEN "done" ELSE "release")
  /\ UNCHANGED <<got, tries, chain, waiters, lease, late, cooling, known, faults>>

\* Mutant: the token is not compared.
IsAnyToken(a) == TRUE

IsToken(a) == lease[Latest(a)].holder = a

\* The row is deleted by its token; an error leaves it to expire.
ReleaseRow(a) ==
  /\ pc[a] = "release"
  /\ \/ /\ lease' = IF IsToken(a) THEN [lease EXCEPT ![Latest(a)] = Open] ELSE lease
        /\ UNCHANGED faults
     \/ Fault /\ UNCHANGED lease
  /\ Goes(a, "unlink")
  /\ UNCHANGED <<got, tries, chain, waiters, late, cooling, known>>

Unlink(a) ==
  /\ pc[a] = "unlink"
  /\ LeavesChain(a, Latest(a))
  /\ got' = [got EXCEPT ![a] = @ - 1]
  /\ Goes(a, IF got[a] = 1 THEN "done" ELSE "release")
  /\ UNCHANGED <<tries, lease, late, cooling, known, faults>>

\* The lanes an attempt has reserved.
Reserved(a) == {Lanes[a][i] : i \in 1..got[a]}

\* Nothing renews a lease, and nothing ends what runs under it.
LeaseExpires(k) ==
  LET a == lease[k].holder
  IN  /\ a # NoAttempt /\ ~lease[k].expired
      /\ lease' = [lease EXCEPT ![k].expired = TRUE]
      /\ IF k \in Reserved(a)
         THEN Cardinality(late) < MaxLate /\ late' = late \cup {<<a, k>>}
         ELSE UNCHANGED late
      /\ UNCHANGED <<pc, got, tries, chain, waiters, cooling, known, faults>>
-----------------------------------------------------------------------------
(* The requests and the cooldowns.                                          *)

Cooling(a) == Model[a] \in cooling \cup known[Home[a]]

\* Mutant: only what the process remembers is looked at.
CoolingHere(a) == Model[a] \in known[Home[a]]

SeenCooling(a) == Cooling(a)

\* readModelCooldowns: a process remembers the cooldown it reads, and stops the
\* attempt when it cannot read.
Reads(a, stop, go) ==
  \/ /\ Goes(a, IF SeenCooling(a) THEN stop ELSE go)
     /\ known' = [known EXCEPT ![Home[a]] = IF SeenCooling(a) THEN @ \cup {Model[a]} ELSE @]
     /\ UNCHANGED faults
  \/ Fault /\ Goes(a, stop) /\ UNCHANGED known

\* The cooldowns are read before the lanes are reserved, and after.
Begin(a) ==
  /\ pc[a] = "idle"
  /\ Reads(a, "done", "join")
  /\ UNCHANGED <<got, tries, chain, waiters, lease, late, cooling>>

Check(a) ==
  /\ pc[a] = "check"
  /\ Reads(a, "release", "send")
  /\ UNCHANGED <<got, tries, chain, waiters, lease, late, cooling>>

Send(a) ==
  /\ pc[a] = "send"
  /\ tries' = [tries EXCEPT ![a] = 1]
  /\ Goes(a, "request")
  /\ UNCHANGED <<got, chain, waiters, lease, late, cooling, known, faults>>

Succeeds(a) ==
  /\ pc[a] = "request"
  /\ known' = [known EXCEPT ![Home[a]] = @ \ {Model[a]}]
  /\ Goes(a, "clear")
  /\ UNCHANGED <<got, tries, chain, waiters, lease, late, cooling, faults>>

\* A transient failure, and a refused response format, is tried again under the
\* same leases; any other one, and the second, is the end.
FailsTransiently(a) ==
  /\ pc[a] = "request"
  /\ IF tries[a] = 1 /\ a \in Retrying
     THEN tries' = [tries EXCEPT ![a] = 2] /\ UNCHANGED pc
     ELSE Goes(a, "release") /\ UNCHANGED tries
  /\ UNCHANGED <<got, chain, waiters, lease, late, cooling, known, faults>>

RateLimited(a) ==
  /\ pc[a] = "request"
  /\ known' = [known EXCEPT ![Home[a]] = @ \cup {Model[a]}]
  /\ Goes(a, "cool")
  /\ UNCHANGED <<got, tries, chain, waiters, lease, late, cooling, faults>>

\* persistSharedPoolModelCooldown and clearSharedPoolModelCooldown
Cool(a) ==
  /\ pc[a] = "cool"
  /\ \/ cooling' = cooling \cup {Model[a]} /\ UNCHANGED faults
     \/ Fault /\ UNCHANGED cooling
  /\ Goes(a, "release")
  /\ UNCHANGED <<got, tries, chain, waiters, lease, late, known>>

Clear(a) ==
  /\ pc[a] = "clear"
  /\ \/ cooling' = cooling \ {Model[a]} /\ UNCHANGED faults
     \/ Fault /\ UNCHANGED cooling
  /\ Goes(a, "release")
  /\ UNCHANGED <<got, tries, chain, waiters, lease, late, known>>

CooldownEnds(k) ==
  /\ k \in cooling
  /\ cooling' = cooling \ {k}
  /\ UNCHANGED <<pc, got, tries, chain, waiters, lease, late, known, faults>>

KnownEnds(p, k) ==
  /\ k \in known[p]
  /\ known' = [known EXCEPT ![p] = @ \ {k}]
  /\ UNCHANGED <<pc, got, tries, chain, waiters, lease, late, cooling, faults>>

Crash(p) ==
  /\ Fault
  /\ pc' = [a \in Attempts |-> IF Home[a] = p /\ pc[a] # "idle" THEN "done" ELSE pc[a]]
  /\ got' = [a \in Attempts |-> IF Home[a] = p THEN 0 ELSE got[a]]
  /\ chain' = [chain EXCEPT ![p] = [k \in Keys |-> <<>>]]
  /\ waiters' = [waiters EXCEPT ![p] = [k \in Keys |-> 0]]
  /\ known' = [known EXCEPT ![p] = {}]
  /\ UNCHANGED <<tries, lease, late, cooling>>
-----------------------------------------------------------------------------
Reserving(a) == Begin(a) \/ Join(a) \/ LocalTurn(a) \/ GiveUp(a) \/ TakeLease(a) \/ TakeFails(a) \/ Check(a)
Requesting(a) == Send(a) \/ Succeeds(a) \/ FailsTransiently(a) \/ RateLimited(a) \/ Cool(a) \/ Clear(a)
Releasing(a) == Refused(a) \/ ReleaseRow(a) \/ Unlink(a)
Step(a) == Reserving(a) \/ Requesting(a) \/ Releasing(a)

Next ==
  \/ \E a \in Attempts : Step(a)
  \/ \E k \in Keys : LeaseExpires(k) \/ CooldownEnds(k)
  \/ \E p \in Procs : Crash(p) \/ \E k \in Keys : KnownEnds(p, k)

Spec == Init /\ [][Next]_vars

-----------------------------------------------------------------------------
(* Properties.                                                              *)

Holding(a) == Reserved(a) \cup (IF pc[a] = "lease" THEN {Wanted(a)} ELSE {})

\* In one process a lane is held by one attempt at a time: waiters that give up
\* in the middle of the chain let nobody pass the holder.
OneLocalHolder ==
  \A a, b \in Attempts : a # b /\ Home[a] = Home[b] => Holding(a) \cap Holding(b) = {}

\* The count that bounds the waiters is the number of links that are waited
\* for or held: waits that end early do not use it up.
WaitersExact ==
  \A p \in Procs, k \in Keys :
    waiters[p][k] = Cardinality({i \in DOMAIN chain[p][k] : ~chain[p][k][i].released})

\* Two requests meet on a lane only when the lease of that lane ran out under one
\* of them: late releases and unanswered statements free nobody else's lane.
MeetOnlyAfterExpiry ==
  \A a, b \in Attempts : a # b /\ pc[a] = "request" /\ pc[b] = "request" =>
    \A k \in Reserved(a) \cap Reserved(b) : late \cap {<<a, k>>, <<b, k>>} # {}

\* A first request is sent into a cooldown only if the lease of the model ran out
\* under it, or under another attempt, which was told of the cooldown since the check.
CooldownRespected ==
  [][\A a \in Attempts : tries[a] = 0 /\ tries'[a] = 1 /\ Cooling(a) =>
       \E b \in Attempts : Model[b] = Model[a] /\ <<b, Model[b]>> \in late]_vars

\* An open link of a chain belongs to an attempt of this process that waits for
\* the lane or holds it, and will release the link: no waiter that gave up and no
\* holder that failed leaves the waiters behind it hanging.
LinksAreOwned ==
  \A p \in Procs, k \in Keys : \A i \in DOMAIN chain[p][k] :
    LET a == chain[p][k][i].who
    IN  \/ chain[p][k][i].released
        \/ Home[a] = p /\ k \in Reserved(a)
        \/ Home[a] = p /\ pc[a] \in {"local", "lease"} /\ Wanted(a) = k

\* The chains of one process let its attempts into a lane one by one, count
\* who waits, and leave nobody hanging.
ChainsSound == TypeOK /\ OneLocalHolder /\ WaitersExact /\ LinksAreOwned

\* What the comment of acquireModelAttemptLease says and the leases do not do:
\* an exact model has one attempt at a time.
OneRequestPerLane ==
  \A a, b \in Attempts :
    a # b /\ pc[a] = "request" /\ pc[b] = "request" => Reserved(a) \cap Reserved(b) = {}
=============================================================================
