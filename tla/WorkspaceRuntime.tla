-------------------------- MODULE WorkspaceRuntime --------------------------
(***************************************************************************)
(* The preview of a project: a development server that outlives the API    *)
(* process that asked for it.  API workers (WorkspaceRuntimeManager in     *)
(* artifacts/api-server/src/lib/workspace-runtime.ts) own it in turn       *)
(* through a row with a lease; a supervisor                                *)
(* (scripts/workspace-runtime-supervisor.mjs) spawns and kills the process *)
(* group; every worker keeps a session object of its own in memory.        *)
(*                                                                         *)
(* One project.  Its sessions are numbered in the order they are begun, so *)
(* the row holds the number of the latest.  A process stands for its group *)
(* and is never confused with another one that got its pid.                *)
(***************************************************************************)
EXTENDS Naturals

CONSTANTS
  Workers,      \* API server processes
  NoWorker,     \* a row without worker id
  MaxSessions,  \* bound: sessions begun
  MaxProcs,     \* bound: processes spawned
  MaxObjects,   \* bound: session objects in use
  Faulty,       \* what may happen: "crash", "replace", "stall", "exit", "hang", "supervisor", "answer"
  MaxFaults,    \* bound: faults
  MaxRequests   \* bound: starts and stops asked for by users

ASSUME ConstantsAssumption ==
  /\ NoWorker \notin Workers
  /\ {MaxSessions, MaxProcs, MaxObjects} \subseteq Nat \ {0} /\ {MaxFaults, MaxRequests} \subseteq Nat
  /\ Faulty \subseteq {"crash", "replace", "stall", "exit", "hang", "supervisor", "answer"}

VARIABLES
  row,      \* the row of workspace_runtime
  mem,      \* the object in the sessions map of a worker, or 0
  obj,      \* session objects
  start,    \* where the start of a worker is; starts of a project queue up
  rec,      \* where the recovery of a worker is, and the row it claimed
  call,     \* the start request of a session at the supervisor
  sup,      \* the supervisor's entry for the project
  proc,     \* process groups
  outage,   \* the supervisor was down once, or its answer to a start was lost
  faults,   \* how many there were
  asked     \* starts and stops asked for so far

vars == <<row, mem, obj, start, rec, call, sup, proc, outage, faults, asked>>
api == <<mem, obj, start>>
world == <<outage, faults, asked>>

Sessions == 1..MaxSessions
Procs == 1..MaxProcs
Objects == 1..MaxObjects
Active == {"starting", "running"}
Ended == {"stopped", "failed"}

NoObject ==
  [w |-> NoWorker, s |-> 0, st |-> "none", pid |-> 0, timer |-> FALSE, stop |-> "no",
   final |-> "none", prev |-> "none", sure |-> FALSE, kill |-> 0, hb |-> "no", seen |-> 0]
Idle == [at |-> "idle", o |-> 0, n |-> 0, pid |-> 0]
NoRecovery == [at |-> "idle", s |-> 0, pid |-> 0, st |-> "none", kill |-> 0]
NoCall == [at |-> "none", pid |-> 0]
NoEntry == [s |-> 0, st |-> "none", pid |-> 0, watched |-> FALSE]
Down == [NoEntry EXCEPT !.st = "down"]

TypeOK ==
  /\ row \in [s : 0..MaxSessions, st : Active \cup Ended \cup {"none"}, pid : 0..MaxProcs,
              worker : Workers \cup {NoWorker}, lease : BOOLEAN]
  /\ mem \in [Workers -> 0..MaxObjects]
  /\ obj \in [Objects ->
       [w : Workers \cup {NoWorker}, s : 0..MaxSessions, st : Active \cup Ended \cup {"none"},
        pid : 0..MaxProcs, timer : BOOLEAN,
        stop : {"no", "call", "refused", "killing", "write", "done"},
        final : Ended \cup {"none"}, prev : Active \cup Ended \cup {"none"}, sure : BOOLEAN,
        kill : 0..MaxProcs,
        hb : {"no", "renew", "observe", "present", "absent", "adopted", "lost"}, seen : 0..MaxProcs]]
  /\ start \in [Workers ->
       [at : {"idle", "wait", "begin", "renew", "ready", "call", "look", "fail", "record",
              "confirm", "persist"},
        o : 0..MaxObjects, n : 0..2, pid : 0..MaxProcs]]
  /\ rec \in [Workers ->
       [at : {"idle", "observe", "save", "absent", "check", "killing", "kill", "fail", "adopted"},
        s : 0..MaxSessions, pid : 0..MaxProcs, st : Active \cup {"none"}, kill : 0..MaxProcs]]
  /\ call \in [Sessions -> [at : {"none", "sent", "boot"}, pid : 0..MaxProcs]]
  /\ sup \in [s : 0..MaxSessions, st : Active \cup {"ended", "none", "down"}, pid : 0..MaxProcs,
              watched : BOOLEAN]
  /\ proc \in [Procs -> [s : 0..MaxSessions, st : {"none", "booting", "up", "hung", "gone"}]]
  /\ outage \in BOOLEAN /\ faults \in 0..MaxFaults /\ asked \in 0..MaxRequests

Init ==
  /\ row = [s |-> 0, st |-> "none", pid |-> 0, worker |-> NoWorker, lease |-> FALSE]
  /\ mem = [w \in Workers |-> 0] /\ obj = [o \in Objects |-> NoObject]
  /\ start = [w \in Workers |-> Idle] /\ rec = [w \in Workers |-> NoRecovery]
  /\ call = [s \in Sessions |-> NoCall] /\ sup = NoEntry
  /\ proc = [p \in Procs |-> [s |-> 0, st |-> "none"]]
  /\ outage = FALSE /\ faults = 0 /\ asked = 0

Fault(kind) == kind \in Faulty /\ faults < MaxFaults /\ faults' = faults + 1 /\ UNCHANGED asked
Requested == asked < MaxRequests /\ asked' = asked + 1 /\ UNCHANGED <<outage, faults>>
-----------------------------------------------------------------------------
(* Processes and what is seen of them.                                      *)

Up(p) == p # 0 /\ proc[p].st = "up"
Alive(p) == p # 0 /\ proc[p].st \in {"booting", "up", "hung"}
Killed(p) == IF p = 0 THEN proc ELSE [proc EXCEPT ![p].st = "gone"]

\* The supervisor hears of the exit of a child of its own, not of an adopted process.
Noticed(p) ==
  IF p # 0 /\ sup.pid = p /\ sup.watched /\ sup.st \in Active THEN [sup EXCEPT !.st = "ended"] ELSE sup

\* A managed port is open that no running entry explains.
Stray == \E p \in Procs : Up(p) /\ ~(sup.st = "running" /\ sup.pid = p)

\* observeStart, and the client's check of its answer: session s runs, nothing runs, or who knows.
Observed(s) ==
  CASE sup.st = "running" /\ Up(sup.pid) /\ sup.s = s /\ ~Stray -> "running"
    [] sup.st \in {"none", "ended"} /\ ~Stray -> "stopped"
    [] OTHER -> "unknown"

\* adopt: the listener is verified, and an entry made when there is no active one.
Adoptable(s, p) ==
  /\ Up(p)
  /\ (sup.st = "running" /\ sup.s = s /\ sup.pid = p) \/ sup.st \in {"none", "ended"}
Adopt(s, p) ==
  sup' = IF sup.st = "running" THEN sup ELSE [s |-> s, st |-> "running", pid |-> p, watched |-> FALSE]
-----------------------------------------------------------------------------
(* The row and the objects.                                                 *)

\* The WHERE of updateOwnedSession.
Owns(w, s) == row.s = s /\ row.worker = w

Freed(r) == [r EXCEPT !.worker = NoWorker, !.lease = FALSE]
Release(w, s) == row' = IF Owns(w, s) THEN Freed(row) ELSE row

\* The object leaves the map of its worker, if it is still there.
Dropped(o) == mem' = [w \in Workers |-> IF mem[w] = o THEN 0 ELSE mem[w]]

\* Objects that neither a map nor a running call refers to are no more.
Keep(new) ==
  obj' = [o \in Objects |->
    IF \/ \E w \in Workers : mem'[w] = o \/ start'[w].o = o
       \/ new[o].stop \in {"call", "refused", "killing", "write"} \/ new[o].hb # "no"
    THEN new[o] ELSE NoObject]

Goes(w, at) == start' = [start EXCEPT ![w].at = at]
Leaves(w) == start' = [start EXCEPT ![w] = Idle]
Recovers(w, at) == rec' = [rec EXCEPT ![w].at = at]
Rests(w) == rec' = [rec EXCEPT ![w] = NoRecovery]

\* stop and start look at the row before they touch a session they believe active.
Mine(o) == Owns(obj[o].w, obj[o].s) /\ row.lease

\* stopSession begins: the status is set before anything is asked of the supervisor.
Stopping(o, final) ==
  IF obj[o].stop # "no" THEN obj
  ELSE [obj EXCEPT ![o].timer = FALSE, ![o].prev = obj[o].st, ![o].final = final, ![o].st = final,
                   ![o].stop = IF obj[o].sure THEN "write" ELSE "call"]
-----------------------------------------------------------------------------
(* Starting, by one worker.                                                 *)

\* startExclusive up to begin.  A start that finds an active row and no object
\* recovers it, as the sweep does.
StartAsked(w) ==
  LET o == mem[w] IN
  /\ Requested /\ start[w].at = "idle" /\ row.s < MaxSessions
  /\ \/ /\ o = 0 /\ row.st \notin Active
        /\ Goes(w, "begin") /\ UNCHANGED <<mem, obj>>
     \/ /\ o # 0 /\ obj[o].st \in Active /\ ~Mine(o)
        /\ IF row.st = "stopped" THEN Goes(w, "begin") ELSE UNCHANGED start
        /\ Dropped(o) /\ Keep([obj EXCEPT ![o].timer = FALSE])
     \/ /\ o # 0 /\ obj[o].st \in Active /\ Mine(o)
        /\ start' = [start EXCEPT ![w] = [Idle EXCEPT !.at = "wait", !.o = o, !.n = 1]]
        /\ UNCHANGED mem /\ Keep(Stopping(o, "stopped"))
     \/ /\ o # 0 /\ obj[o].st \in Ended
        /\ start' = [start EXCEPT ![w] = [Idle EXCEPT !.at = "wait", !.o = o]]
        /\ UNCHANGED mem /\ Keep(Stopping(o, "stopped"))
  /\ UNCHANGED <<row, rec, call, sup, proc>>

\* The stop is through; a restart asks for the status "stopped".
StartWaited(w) ==
  LET o == start[w].o IN
  /\ start[w].at = "wait" /\ obj[o].stop = "done"
  /\ IF start[w].n = 1 /\ obj[o].st # "stopped" THEN Leaves(w)
     ELSE start' = [start EXCEPT ![w] = [Idle EXCEPT !.at = "begin"]]
  /\ UNCHANGED mem /\ Keep(obj)
  /\ UNCHANGED <<row, rec, call, sup, proc, world>>

\* Mutant: the row is taken whoever owns it.
TakenAnyway == TRUE

\* The condition under which begin takes the row.
Takeover == row.st \notin Active \/ ~row.lease

Begin(w) ==
  /\ start[w].at = "begin"
  /\ \/ /\ Takeover /\ row.s < MaxSessions
        /\ row' = [s |-> row.s + 1, st |-> "starting", pid |-> 0, worker |-> w, lease |-> TRUE]
        /\ \E o \in Objects :
             /\ obj[o] = NoObject /\ \A q \in Objects : obj[q] = NoObject => o <= q
             /\ mem' = [mem EXCEPT ![w] = o] /\ start' = [start EXCEPT ![w] = [Idle EXCEPT !.at = "renew", !.o = o]]
             /\ Keep([obj EXCEPT ![o] = [NoObject EXCEPT !.w = w, !.s = row.s + 1, !.st = "starting"]])
     \/ /\ ~Takeover \/ row.s = MaxSessions
        /\ Leaves(w) /\ UNCHANGED <<row, mem, obj>>
  /\ UNCHANGED <<rec, call, sup, proc, world>>

\* The object is forgotten and the start ends with an error.
GivesUp(w) ==
  LET o == start[w].o IN
  /\ Leaves(w) /\ Dropped(o) /\ Keep([obj EXCEPT ![o].timer = FALSE])

\* The first heartbeat; it renews nothing when a stop came first.
StartRenews(w) ==
  LET o == start[w].o  owned == Owns(w, obj[o].s) /\ row.st = "starting" IN
  /\ start[w].at = "renew"
  /\ \/ /\ mem[w] = o /\ (obj[o].st = "starting" => owned)
        /\ row' = IF obj[o].st = "starting" THEN [row EXCEPT !.lease = TRUE] ELSE row
        /\ Goes(w, "ready") /\ UNCHANGED mem /\ Keep([obj EXCEPT ![o].timer = TRUE])
     \/ /\ mem[w] # o \/ (obj[o].st = "starting" /\ ~owned)
        /\ GivesUp(w) /\ UNCHANGED row
  /\ UNCHANGED <<rec, call, sup, proc, world>>

Sent(s) == call' = [call EXCEPT ![s].at = "sent"]

\* failStartingSession.
FailStarting(w) ==
  LET o == start[w].o IN
  /\ row' = IF Owns(w, obj[o].s) /\ row.st = "starting"
              THEN [Freed(row) EXCEPT !.st = "failed", !.pid = 0] ELSE row
  /\ Leaves(w) /\ Dropped(o) /\ Keep([obj EXCEPT ![o].timer = FALSE, ![o].st = "failed"])

\* The environment is captured: it may be unknown and is then not recorded, or
\* recorded, which asks for the row, or not the expected one.
StartCalls(w) ==
  LET o == start[w].o IN
  /\ start[w].at = "ready"
  /\ \/ /\ Sent(obj[o].s) /\ start' = [start EXCEPT ![w].at = "call", ![w].n = 1]
        /\ UNCHANGED <<row, mem, obj>>
     \/ ~(Owns(w, obj[o].s) /\ row.st = "starting") /\ GivesUp(w) /\ UNCHANGED <<row, call>>
     \/ FailStarting(w) /\ UNCHANGED call
  /\ UNCHANGED <<rec, sup, proc, world>>

\* The request was refused or its answer never came: it is sent again, once.
StartCallFails(w) ==
  LET s == obj[start[w].o].s IN
  /\ start[w].at = "call" /\ call[s].at = "none"
  /\ \/ start[w].n = 1 /\ Sent(s) /\ start' = [start EXCEPT ![w].n = 2]
     \/ start[w].n = 2 /\ Goes(w, "look") /\ UNCHANGED call
  /\ UNCHANGED <<row, mem, obj, rec, sup, proc, world>>

StartObserves(w) ==
  LET o == start[w].o IN
  /\ start[w].at = "look"
  /\ \/ /\ Observed(obj[o].s) = "running"
        /\ start' = [start EXCEPT ![w].at = "record", ![w].pid = sup.pid]
        /\ UNCHANGED mem /\ Keep([obj EXCEPT ![o].pid = sup.pid])
     \/ Observed(obj[o].s) = "stopped" /\ Goes(w, "fail") /\ UNCHANGED <<mem, obj>>
     \/ /\ Observed(obj[o].s) = "unknown" /\ Leaves(w) /\ UNCHANGED mem
        /\ Keep([obj EXCEPT ![o].timer = @ /\ Owns(w, obj[o].s)])
  /\ UNCHANGED <<row, rec, call, sup, proc, world>>

StartFails(w) ==
  /\ start[w].at = "fail" /\ FailStarting(w)
  /\ UNCHANGED <<rec, call, sup, proc, world>>

\* The pid goes into the row.
StartRecords(w) ==
  LET o == start[w].o IN
  /\ start[w].at = "record"
  /\ \/ /\ Owns(w, obj[o].s) /\ row.st = "starting" /\ row' = [row EXCEPT !.pid = start[w].pid]
        /\ Goes(w, "confirm") /\ UNCHANGED <<mem, obj>>
     \/ ~(Owns(w, obj[o].s) /\ row.st = "starting") /\ GivesUp(w) /\ UNCHANGED row
  /\ UNCHANGED <<rec, call, sup, proc, world>>

\* The listener is looked at; the object says "running" before the row does.
StartConfirms(w) ==
  LET o == start[w].o IN
  /\ start[w].at = "confirm" /\ UNCHANGED mem
  /\ IF Up(start[w].pid)
       THEN Goes(w, "persist") /\ Keep([obj EXCEPT ![o].st = "running"])
       ELSE Leaves(w) /\ Keep(Stopping(o, "failed"))
  /\ UNCHANGED <<row, rec, call, sup, proc, world>>

StartPersists(w) ==
  LET o == start[w].o IN
  /\ start[w].at = "persist" /\ Leaves(w) /\ UNCHANGED mem
  /\ \/ /\ Owns(w, obj[o].s) /\ row' = [row EXCEPT !.st = "running"]
        /\ Keep([obj EXCEPT ![o].st = "running"])
     \/ ~Owns(w, obj[o].s) /\ UNCHANGED row /\ Keep([obj EXCEPT ![o].timer = FALSE])
  /\ UNCHANGED <<rec, call, sup, proc, world>>
-----------------------------------------------------------------------------
(* Stopping a session object.  Whoever asks meanwhile waits for the same.   *)

StopAsked(w) ==
  LET o == mem[w] IN
  /\ Requested /\ o # 0 /\ UNCHANGED start
  /\ \/ /\ obj[o].st \in Active /\ ~Mine(o)
        /\ Dropped(o) /\ Keep([obj EXCEPT ![o].timer = FALSE])
     \/ /\ obj[o].st \notin Active \/ Mine(o)
        /\ UNCHANGED mem /\ Keep(Stopping(o, "stopped"))
  /\ UNCHANGED <<row, rec, call, sup, proc>>

\* Mutant: a supervisor that does not know the session has nothing to stop.
RefusalConfirms(o) ==
  /\ obj[o].stop = "call" /\ UNCHANGED <<mem, start>>
  /\ IF sup.s = obj[o].s /\ sup.pid # 0
       THEN Keep([obj EXCEPT ![o].stop = "killing", ![o].kill = sup.pid])
       ELSE Keep([obj EXCEPT ![o].stop = "write", ![o].sure = TRUE])
  /\ UNCHANGED <<row, rec, call, sup, proc, world>>

\* The supervisor looks for its entry and sends the signals.
StopCalls(o) ==
  /\ obj[o].stop = "call" /\ UNCHANGED <<mem, start>>
  /\ \/ sup.s # obj[o].s /\ Keep([obj EXCEPT ![o].stop = "refused"]) /\ UNCHANGED sup
     \/ /\ sup.s = obj[o].s /\ sup.pid # 0
        /\ Keep([obj EXCEPT ![o].stop = "killing", ![o].kill = sup.pid]) /\ UNCHANGED sup
     \/ /\ sup.s = obj[o].s /\ sup.pid = 0 /\ sup' = NoEntry
        /\ Keep([obj EXCEPT ![o].stop = "write", ![o].sure = TRUE])
  /\ UNCHANGED <<row, rec, call, proc, world>>

\* The group is gone: the supervisor deletes the project's entry, whosever it is by now.
StopKills(o) ==
  /\ obj[o].stop = "killing"
  /\ proc' = Killed(obj[o].kill) /\ sup' = NoEntry
  /\ UNCHANGED <<mem, start>> /\ Keep([obj EXCEPT ![o].stop = "write", ![o].sure = TRUE, ![o].kill = 0])
  /\ UNCHANGED <<row, rec, call, world>>

\* Those who waited for the stop of o get its error.
Disappointed(o) ==
  start' = [w \in Workers |-> IF start[w].at = "wait" /\ start[w].o = o THEN Idle ELSE start[w]]

\* The stop was not confirmed: the session is what it was, if the row still says so.
StopFails(o) ==
  LET keeps == Mine(o) /\ obj[o].prev \in Active IN
  /\ obj[o].stop = "refused" /\ Disappointed(o)
  /\ IF keeps THEN UNCHANGED mem ELSE Dropped(o)
  /\ Keep([obj EXCEPT ![o].stop = "no", ![o].st = obj[o].prev, ![o].final = "none",
                      ![o].prev = "none", ![o].timer = keeps])
  /\ UNCHANGED <<row, rec, call, sup, proc, world>>

\* The row is ended by its owner; it may also have been ended in the same way already.
StopWrites(o) ==
  LET s == obj[o].s  owned == Owns(obj[o].w, s)
      same == row.s = s /\ row.st = obj[o].final /\ row.worker = NoWorker
  IN
  /\ obj[o].stop = "write" /\ UNCHANGED mem
  /\ row' = IF owned THEN [Freed(row) EXCEPT !.st = obj[o].final, !.pid = 0] ELSE row
  /\ IF owned \/ same
       THEN UNCHANGED start /\ Keep([obj EXCEPT ![o].stop = "done", ![o].pid = 0, ![o].prev = "none"])
       ELSE Disappointed(o) /\ Keep([obj EXCEPT ![o].stop = "no"])
  /\ UNCHANGED <<rec, call, sup, proc, world>>
-----------------------------------------------------------------------------
(* The heartbeat of a session object.                                       *)

Beats(o) == obj[o].timer /\ obj[o].hb = "no" /\ mem[obj[o].w] = o

\* Mutant: the heartbeat of a running session does not ask for its process.
BeatsBlindly(o) ==
  /\ Beats(o) /\ UNCHANGED <<mem, start, sup>>
  /\ Keep([obj EXCEPT ![o].hb = IF obj[o].st = "starting" THEN "renew" ELSE "no"])
  /\ UNCHANGED <<row, rec, call, proc, world>>

HeartbeatFires(o) ==
  LET s == obj[o].s  p == obj[o].pid IN
  /\ Beats(o) /\ UNCHANGED <<mem, start>>
  /\ \/ obj[o].st = "starting" /\ Keep([obj EXCEPT ![o].hb = "renew"]) /\ UNCHANGED sup
     \/ obj[o].st = "running" /\ Adoptable(s, p) /\ Adopt(s, p) /\ Keep([obj EXCEPT ![o].hb = "adopted"])
     \/ obj[o].st = "running" /\ ~Adoptable(s, p) /\ Keep([obj EXCEPT ![o].hb = "lost"]) /\ UNCHANGED sup
     \/ obj[o].st \in Ended /\ Keep([obj EXCEPT ![o].timer = FALSE]) /\ UNCHANGED sup
  /\ UNCHANGED <<row, rec, call, proc, world>>

\* Its start request was made and is over, and no pid came of it.
Unresolved(o) ==
  /\ obj[o].pid = 0
  /\ \A w \in Workers : start[w].o = o => start[w].at \notin {"renew", "ready", "call", "look", "fail"}

\* The heartbeat ends and the object leaves the map.
Forgets(o) == Dropped(o) /\ Keep([obj EXCEPT ![o].hb = "no", ![o].timer = FALSE])

\* The renewal of a starting session, with the status it had when the timer fired.
HeartbeatRenews(o) ==
  LET s == obj[o].s IN
  /\ obj[o].hb = "renew" /\ UNCHANGED start
  /\ \/ /\ Owns(obj[o].w, s) /\ row.st = "starting" /\ row' = [row EXCEPT !.lease = TRUE]
        /\ UNCHANGED mem
        /\ Keep([obj EXCEPT ![o].hb = IF Unresolved(o) /\ mem[obj[o].w] = o THEN "observe" ELSE "no"])
     \/ ~(Owns(obj[o].w, s) /\ row.st = "starting") /\ Forgets(o) /\ UNCHANGED row
  /\ UNCHANGED <<rec, call, sup, proc, world>>

\* reconcilePendingSupervisorStart asks the supervisor ...
HeartbeatObserves(o) ==
  LET seen == IF mem[obj[o].w] = o /\ obj[o].st = "starting" THEN Observed(obj[o].s) ELSE "unknown" IN
  /\ obj[o].hb = "observe" /\ UNCHANGED <<mem, start>>
  /\ \/ seen = "running" /\ Keep([obj EXCEPT ![o].hb = "present", ![o].seen = sup.pid])
     \/ seen = "stopped" /\ Keep([obj EXCEPT ![o].hb = "absent"])
     \/ seen = "unknown" /\ Keep([obj EXCEPT ![o].hb = "no"])
  /\ UNCHANGED <<row, rec, call, sup, proc, world>>

\* ... and settles the start with what it answered.
HeartbeatSettles(o) ==
  LET owned == Owns(obj[o].w, obj[o].s) /\ row.st = "starting" IN
  /\ UNCHANGED start
  /\ \/ /\ obj[o].hb = "present" /\ owned /\ row' = [row EXCEPT !.st = "running", !.pid = obj[o].seen]
        /\ UNCHANGED mem
        /\ Keep([obj EXCEPT ![o].hb = "no", ![o].st = "running", ![o].pid = obj[o].seen, ![o].seen = 0])
     \/ obj[o].hb = "present" /\ ~owned /\ Forgets(o) /\ UNCHANGED row
     \/ /\ obj[o].hb = "absent" /\ Forgets(o)
        /\ row' = IF owned THEN [Freed(row) EXCEPT !.st = "failed"] ELSE row
  /\ UNCHANGED <<rec, call, sup, proc, world>>

\* relinquishSessionForRetry, or the renewal after the second look.
HeartbeatEnds(o) ==
  LET w == obj[o].w  s == obj[o].s IN
  /\ UNCHANGED start
  /\ \/ /\ obj[o].hb = "lost" \/ (obj[o].hb = "adopted" /\ ~Up(obj[o].pid))
        /\ Release(w, s) /\ Forgets(o)
     \/ /\ obj[o].hb = "adopted" /\ Up(obj[o].pid)
        /\ \/ obj[o].st \in Ended /\ UNCHANGED <<row, mem>> /\ Keep([obj EXCEPT ![o].hb = "no"])
           \/ /\ obj[o].st \in Active /\ Owns(w, s) /\ row.st = obj[o].st
              /\ row' = [row EXCEPT !.lease = TRUE] /\ UNCHANGED mem /\ Keep([obj EXCEPT ![o].hb = "no"])
           \/ obj[o].st \in Active /\ ~(Owns(w, s) /\ row.st = obj[o].st) /\ Forgets(o) /\ UNCHANGED row
  /\ UNCHANGED <<rec, call, sup, proc, world>>
-----------------------------------------------------------------------------
(* Recovery: at startup, from a sweep, and by a stop or start that finds an *)
(* active row and no object.                                                *)

\* The WHERE of claimRecovery.
Claimable == row.st \in Active /\ ~row.lease

RecoverClaims(w) ==
  /\ rec[w].at = "idle" /\ Claimable
  /\ row' = [row EXCEPT !.worker = w, !.lease = TRUE]
  /\ rec' = [rec EXCEPT ![w] =
       [at |-> IF row.st = "starting" /\ row.pid = 0 THEN "observe" ELSE "check",
        s |-> row.s, pid |-> row.pid, st |-> row.st, kill |-> 0]]
  /\ UNCHANGED <<api, call, sup, proc, world>>

\* A request the supervisor has not taken up although it serves no other start.
\* What is asked after it is answered after it, and a lease outlasts it.
InTransit(s) == call[s].at = "sent" /\ \A t \in Sessions : call[t].at # "boot"

\* A start nobody recorded: what does the supervisor say of it?
RecoverObserves(w) ==
  LET seen == Observed(rec[w].s) IN
  /\ rec[w].at = "observe" /\ ~InTransit(rec[w].s)
  /\ \/ seen = "running" /\ rec' = [rec EXCEPT ![w].at = "save", ![w].pid = sup.pid] /\ UNCHANGED row
     \/ seen = "stopped" /\ Recovers(w, "absent") /\ UNCHANGED row
     \/ seen = "unknown" /\ Rests(w) /\ Release(w, rec[w].s)
  /\ UNCHANGED <<api, call, sup, proc, world>>

RecoverSaves(w) ==
  LET s == rec[w].s  owned == Owns(w, s) /\ row.st = "starting" IN
  /\ \/ rec[w].at = "save" /\ owned /\ row' = [row EXCEPT !.pid = rec[w].pid] /\ Recovers(w, "check")
     \/ rec[w].at = "save" /\ ~owned /\ Release(w, s) /\ Rests(w)
     \/ /\ rec[w].at = "absent" /\ Rests(w)
        /\ row' = IF owned THEN [Freed(row) EXCEPT !.st = "failed"] ELSE row
  /\ UNCHANGED <<api, call, sup, proc, world>>

\* The process and its port are looked at.  A process that does not listen is
\* stopped by the supervisor or, when that refuses, directly.
RecoverChecks(w) ==
  LET s == rec[w].s  p == rec[w].pid IN
  /\ rec[w].at = "check"
  /\ \/ Adoptable(s, p) /\ Adopt(s, p) /\ Recovers(w, "adopted") /\ UNCHANGED row
     \/ Up(p) /\ ~Adoptable(s, p) /\ Release(w, s) /\ Rests(w) /\ UNCHANGED sup
     \/ ~Alive(p) /\ Recovers(w, "fail") /\ UNCHANGED <<row, sup>>
     \/ /\ Alive(p) /\ ~Up(p) /\ UNCHANGED <<row, sup>>
        /\ IF sup.s = s THEN rec' = [rec EXCEPT ![w].at = "killing", ![w].kill = sup.pid]
           ELSE Recovers(w, "kill")
  /\ UNCHANGED <<api, call, proc, world>>

RecoverKills(w) ==
  /\ Recovers(w, "fail")
  /\ \/ rec[w].at = "killing" /\ proc' = Killed(rec[w].kill) /\ sup' = NoEntry
     \/ rec[w].at = "kill" /\ proc' = Killed(rec[w].pid) /\ sup' = Noticed(rec[w].pid)
  /\ UNCHANGED <<row, api, call, world>>

RecoverFails(w) ==
  /\ rec[w].at = "fail" /\ Rests(w)
  /\ row' = IF Owns(w, rec[w].s) THEN [Freed(row) EXCEPT !.st = "failed"] ELSE row
  /\ UNCHANGED <<api, call, sup, proc, world>>

\* The object of an adopted session: the one in the map if it is of that
\* session, whatever became of it, or a new one.
Adopted(w, s, p) ==
  LET o == mem[w] IN
  IF o # 0 /\ obj[o].s = s
    THEN UNCHANGED mem /\ Keep([obj EXCEPT ![o].st = "running", ![o].timer = TRUE])
    ELSE \E q \in Objects :
           /\ obj[q] = NoObject /\ \A x \in Objects : obj[x] = NoObject => q <= x
           /\ mem' = [mem EXCEPT ![w] = q]
           /\ Keep([obj EXCEPT ![q] =
                [NoObject EXCEPT !.w = w, !.s = s, !.st = "running", !.pid = p, !.timer = TRUE]])

\* The second look, the status of a recovered start, and the memory.
RecoverAdopts(w) ==
  LET s == rec[w].s  p == rec[w].pid IN
  /\ rec[w].at = "adopted" /\ Rests(w) /\ UNCHANGED start
  /\ \/ ~Up(p) /\ Release(w, s) /\ UNCHANGED <<mem, obj>>
     \/ Up(p) /\ rec[w].st = "starting" /\ ~Owns(w, s) /\ UNCHANGED <<row, mem, obj>>
     \/ /\ Up(p) /\ (rec[w].st = "starting" => Owns(w, s))
        /\ row' = IF rec[w].st = "starting" THEN [row EXCEPT !.st = "running"] ELSE row
        /\ Adopted(w, s, p)
  /\ UNCHANGED <<call, sup, proc, world>>
-----------------------------------------------------------------------------
(* The supervisor.                                                          *)

\* The answer to a start reaches the worker that waits for it, if it still does.
Answers(s, p) ==
  /\ call' = [call EXCEPT ![s] = NoCall]
  /\ start' = [w \in Workers |->
       IF start[w].at = "call" /\ obj[start[w].o].s = s THEN [start[w] EXCEPT !.at = "record", !.pid = p]
       ELSE start[w]]
  /\ UNCHANGED mem
  /\ Keep([o \in Objects |->
       IF \E w \in Workers : start[w].at = "call" /\ start[w].o = o /\ obj[o].s = s
         THEN [obj[o] EXCEPT !.pid = p] ELSE obj[o]])

\* startExclusive of the supervisor, one request of the project at a time.  No
\* port may be free, or the spawn fails.
SupervisorStarts(s) ==
  /\ call[s].at = "sent" /\ \A t \in Sessions : call[t].at # "boot"
  /\ \/ sup.st = "running" /\ sup.s = s /\ Answers(s, sup.pid) /\ UNCHANGED <<sup, proc>>
     \/ /\ ~(sup.st = "running" /\ sup.s = s)
        /\ call' = [call EXCEPT ![s] = NoCall] /\ UNCHANGED <<api, sup, proc>>
     \/ /\ sup.st \in {"none", "ended"}
        /\ \E p \in Procs :
             /\ proc[p].st = "none" /\ \A q \in Procs : proc[q].st = "none" => p <= q
             /\ proc' = [proc EXCEPT ![p] = [s |-> s, st |-> "booting"]]
             /\ sup' = [s |-> s, st |-> "starting", pid |-> p, watched |-> TRUE]
             /\ call' = [call EXCEPT ![s] = [at |-> "boot", pid |-> p]]
        /\ UNCHANGED api
  /\ UNCHANGED <<row, rec, world>>

\* The entry the pending start of s made, if it is still the project's.
Its(s) == sup.s = s /\ sup.pid = call[s].pid

\* The answer may be lost: the worker asks again.
SupervisorReady(s) ==
  /\ call[s].at = "boot" /\ Up(call[s].pid)
  /\ sup' = IF Its(s) THEN [sup EXCEPT !.st = "running"] ELSE sup
  /\ \/ Answers(s, call[s].pid) /\ UNCHANGED world
     \/ /\ Fault("answer") /\ outage' = TRUE
        /\ call' = [call EXCEPT ![s] = NoCall] /\ UNCHANGED api
  /\ UNCHANGED <<row, rec, proc>>

\* No port in time, or the wrong listener: the group is killed and the answer is "failed".
SupervisorGivesUp(s) ==
  /\ call[s].at = "boot"
  /\ proc' = Killed(call[s].pid)
  /\ sup' = IF Its(s) THEN [sup EXCEPT !.st = "ended", !.pid = 0] ELSE sup
  /\ Answers(s, 0)
  /\ UNCHANGED <<row, rec, world>>

\* The requests it was serving get no answer.
Unanswered ==
  /\ call' = [s \in Sessions |-> NoCall]
  /\ rec' = [w \in Workers |->
       IF rec[w].at = "killing" THEN [rec[w] EXCEPT !.at = "kill", !.kill = 0] ELSE rec[w]]
  /\ UNCHANGED <<mem, start>>
  /\ Keep([o \in Objects |->
       IF obj[o].stop = "killing" THEN [obj[o] EXCEPT !.stop = "refused", !.kill = 0] ELSE obj[o]])

\* Killed, its children live on; or told to end, which ends the project's process first.
SupervisorStops ==
  /\ sup.st # "down" /\ Fault("supervisor") /\ sup' = Down /\ Unanswered
  /\ outage' = TRUE /\ (UNCHANGED proc \/ proc' = Killed(sup.pid))
  /\ UNCHANGED row

SupervisorReturns ==
  /\ sup.st = "down" /\ sup' = NoEntry
  /\ UNCHANGED <<row, api, rec, call, proc, world>>
-----------------------------------------------------------------------------
(* The processes, time and faults.                                          *)

Listens(p) ==
  /\ proc[p].st = "booting" /\ proc' = [proc EXCEPT ![p].st = "up"]
  /\ UNCHANGED <<row, api, rec, call, sup, world>>

Exits(p) ==
  /\ Alive(p) /\ Fault("exit") /\ proc' = Killed(p) /\ sup' = Noticed(p)
  /\ UNCHANGED <<row, api, rec, call, outage>>

Hangs(p) ==
  /\ Up(p) /\ Fault("hang") /\ proc' = [proc EXCEPT ![p].st = "hung"]
  /\ UNCHANGED <<row, api, rec, call, sup, outage>>

\* Somebody is busy with the row and ends or renews within its lease.
Attended ==
  \E w \in Workers :
    /\ row.worker = w
    /\ \/ start[w].o # 0 /\ obj[start[w].o].s = row.s
       \/ rec[w].s = row.s
       \/ \E o \in Objects :
            /\ obj[o].w = w /\ obj[o].s = row.s
            /\ \/ obj[o].timer /\ mem[w] = o
               \/ obj[o].hb # "no" \/ obj[o].stop \in {"call", "refused", "killing", "write"}

LeaseRunsOut ==
  /\ row.lease /\ row.st \in Active /\ ~InTransit(row.s)
  /\ row' = [row EXCEPT !.lease = FALSE]
  /\ UNCHANGED <<api, rec, call, sup, proc>>
Lapse == ~Attended /\ LeaseRunsOut /\ UNCHANGED world
Stall == Attended /\ Fault("stall") /\ LeaseRunsOut /\ UNCHANGED outage

\* What a worker was killing when it went is killed.
Gone(w) ==
  LET kills == {o \in Objects : obj[o].w = w /\ obj[o].stop = "killing"}
      pids == {obj[o].kill : o \in kills} \cup ({rec[w].kill} \ {0})
  IN
  /\ mem' = [mem EXCEPT ![w] = 0] /\ Leaves(w) /\ Rests(w)
  /\ obj' = [o \in Objects |-> IF obj[o].w = w THEN NoObject ELSE obj[o]]
  /\ proc' = [p \in Procs |-> IF p \in pids THEN [proc[p] EXCEPT !.st = "gone"] ELSE proc[p]]
  /\ sup' = IF pids = {} THEN sup ELSE NoEntry

\* A crash, or a replacement that hands its row over (shutdown with preserveProcesses).
WorkerEnds(w) ==
  /\ \/ Fault("crash") /\ UNCHANGED row
     \/ Fault("replace") /\ row' = IF row.worker = w THEN Freed(row) ELSE row
  /\ Gone(w) /\ UNCHANGED <<call, outage>>
-----------------------------------------------------------------------------
Starts(w) ==
  \/ StartWaited(w) \/ Begin(w) \/ StartRenews(w) \/ StartCalls(w) \/ StartCallFails(w)
  \/ StartObserves(w) \/ StartFails(w) \/ StartRecords(w) \/ StartConfirms(w) \/ StartPersists(w)
Stops(o) == StopCalls(o) \/ StopKills(o) \/ StopFails(o) \/ StopWrites(o)
Heartbeats(o) ==
  \/ HeartbeatFires(o) \/ HeartbeatRenews(o) \/ HeartbeatObserves(o)
  \/ HeartbeatSettles(o) \/ HeartbeatEnds(o)
Recoveries(w) ==
  \/ RecoverClaims(w) \/ RecoverObserves(w) \/ RecoverSaves(w) \/ RecoverChecks(w)
  \/ RecoverKills(w) \/ RecoverFails(w) \/ RecoverAdopts(w)
Serves(s) == SupervisorStarts(s) \/ SupervisorReady(s) \/ SupervisorGivesUp(s)

Next ==
  \/ \E w \in Workers : StartAsked(w) \/ Starts(w) \/ StopAsked(w) \/ Recoveries(w) \/ WorkerEnds(w)
  \/ \E o \in Objects : Stops(o) \/ Heartbeats(o)
  \/ \E s \in Sessions : Serves(s)
  \/ \E p \in Procs : Listens(p) \/ Exits(p) \/ Hangs(p)
  \/ SupervisorStops \/ SupervisorReturns \/ Lapse \/ Stall

Spec == Init /\ [][Next]_vars

\* Timers fire, calls are answered, sweeps come round, a lease nobody renews
\* runs out, and the supervisor is started again.
Fairness ==
  /\ \A w \in Workers : WF_vars(Starts(w)) /\ WF_vars(Recoveries(w))
  /\ \A o \in Objects : WF_vars(Stops(o)) /\ WF_vars(Heartbeats(o))
  /\ \A s \in Sessions : WF_vars(Serves(s))
  /\ WF_vars(SupervisorReturns) /\ WF_vars(Lapse)

FairSpec == Spec /\ Fairness
-----------------------------------------------------------------------------
(* Properties                                                               *)

\* A row that says "running" names a process of its own session, and an ended
\* row has no owner: of a start, a heartbeat and two recoveries that write pids
\* and statuses, none writes what it learnt of another session.
IdentitiesAgree ==
  /\ row.st = "running" => row.pid # 0 /\ proc[row.pid].s = row.s
  /\ row.st \in Ended => row.worker = NoWorker /\ ~row.lease

\* When a session is recorded as stopped (stopSession) none of its processes
\* lives and none is started later, unless the supervisor was down or did not
\* answer.
StoppedMeansGone ==
  ~outage /\ row.st = "stopped" => \A p \in Procs : proc[p].s = row.s => ~Alive(p)

\* The row, its processes and its owner agree whoever starts, stops, beats or
\* recovers.  A start whose answer is lost can be overtaken and then record no
\* pid: IdentitiesAgree needs answered starts, or a single fault.
RuntimeSound == TypeOK /\ IdentitiesAgree /\ StoppedMeansGone

\* A live lease keeps a session and its owner from every other worker, and a
\* session that ended never comes back, whatever stalled workers still write.
SessionsInTurn ==
  [][/\ row.st \in Active /\ row.lease => row'.s = row.s /\ row'.worker \in {row.worker, NoWorker}
     /\ row.st \in Ended /\ row'.s = row.s => row'.st \in Ended]_vars

\* A preview whose process died or stopped listening does not keep saying that
\* it runs, also when its worker is gone and the supervisor does not watch it.
LostPreviewEnds == row.st = "running" /\ ~Up(row.pid) ~> row.st # "running" \/ Up(row.pid)

(* Statements that the code does not keep.                                  *)

\* An unresolved start, whose "durable lease is retained for reconciliation"
\* (workspace-runtime.ts, startExclusive), is reconciled in the end.
StartingEnds == row.st = "starting" ~> row.st # "starting"

\* A start recorded as failed because it "was not present in the supervisor"
\* (recover, reconcilePendingSupervisorStart) has no process.
FailedMeansGone ==
  ~outage /\ row.st = "failed" => \A p \in Procs : proc[p].s = row.s => ~Alive(p)

\* StoppedMeansGone also when the supervisor was restarted or did not answer.
StoppedIsGone == row.st = "stopped" => \A p \in Procs : proc[p].s = row.s => ~Alive(p)
=============================================================================
