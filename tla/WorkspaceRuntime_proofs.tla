------------------------ MODULE WorkspaceRuntime_proofs ------------------------
(***************************************************************************)
(* Proofs about WorkspaceRuntime.  Three invariants build on one another.  *)
(* Structure: sessions are numbered in the order they are begun, an object *)
(* belongs to one worker and one session for good, and what the row, an    *)
(* object, a start, a recovery, a request or the supervisor holds as a pid *)
(* of a session is a process of that session.  GoneInv: as long as the     *)
(* supervisor answers, a session gets one process, so that a stop that saw *)
(* it die saw all of it.  KnownInv: while a start does not know a pid of   *)
(* its session nobody does, so that what it records takes no pid away; it  *)
(* holds until an answer of the supervisor to a start is lost.             *)
(***************************************************************************)
EXTENDS WorkspaceRuntime, TLAPS

RowType ==
  [s : 0..MaxSessions, st : Active \cup Ended \cup {"none"}, pid : 0..MaxProcs,
   worker : Workers \cup {NoWorker}, lease : BOOLEAN]
ObjectType ==
  [w : Workers \cup {NoWorker}, s : 0..MaxSessions, st : Active \cup Ended \cup {"none"},
   pid : 0..MaxProcs, timer : BOOLEAN,
   stop : {"no", "call", "refused", "killing", "write", "done"},
   final : Ended \cup {"none"}, prev : Active \cup Ended \cup {"none"}, sure : BOOLEAN,
   kill : 0..MaxProcs,
   hb : {"no", "renew", "observe", "present", "absent", "adopted", "lost"}, seen : 0..MaxProcs]
StartPlaces ==
  {"idle", "wait", "begin", "renew", "ready", "call", "look", "fail", "record", "confirm", "persist"}
StartType == [at : StartPlaces, o : 0..MaxObjects, n : 0..2, pid : 0..MaxProcs]
RecType ==
  [at : {"idle", "observe", "save", "absent", "check", "killing", "kill", "fail", "adopted"},
   s : 0..MaxSessions, pid : 0..MaxProcs, st : Active \cup {"none"}, kill : 0..MaxProcs]
CallType == [at : {"none", "sent", "boot"}, pid : 0..MaxProcs]
SupType ==
  [s : 0..MaxSessions, st : Active \cup {"ended", "none", "down"}, pid : 0..MaxProcs,
   watched : BOOLEAN]
ProcType == [s : 0..MaxSessions, st : {"none", "booting", "up", "hung", "gone"}]

ApiTypes ==
  /\ mem \in [Workers -> 0..MaxObjects] /\ obj \in [Objects -> ObjectType]
  /\ start \in [Workers -> StartType]
Counts == outage \in BOOLEAN /\ faults \in 0..MaxFaults /\ asked \in 0..MaxRequests

LEMMA TypeShape ==
  TypeOK <=>
    /\ row \in RowType /\ ApiTypes /\ rec \in [Workers -> RecType]
    /\ call \in [Sessions -> CallType] /\ sup \in SupType /\ proc \in [Procs -> ProcType] /\ Counts
BY DEF TypeOK, RowType, ApiTypes, ObjectType, StartType, StartPlaces, RecType, CallType, SupType,
       ProcType, Counts

\* A pid that is known of session s is of a process of that session.
Of(p, s, pr) == p # 0 => s # 0 /\ pr[p].s = s

\* An object when n sessions were begun and pr are the processes.
ObjectGood(r, n, pr) ==
  /\ r \in ObjectType
  /\ r.w = NoWorker => r = NoObject
  /\ r.w # NoWorker => r.s \in 1..n
  /\ r.stop # "no" => r.final \in Ended
  /\ r.stop = "write" => r.sure
  /\ r.stop = "killing" => r.kill # 0
  /\ r.hb = "present" => r.seen # 0
  /\ Of(r.pid, r.s, pr) /\ Of(r.seen, r.s, pr) /\ Of(r.kill, r.s, pr)
ObjectsGood == \A o \in Objects : ObjectGood(obj[o], row.s, proc)

\* The places of a start that has a session, and this session.
Stages == {"renew", "ready", "call", "look", "fail", "record", "confirm", "persist"}
Session(w) == obj[start[w].o].s

MemGood == \A w \in Workers : mem[w] # 0 => obj[mem[w]].w = w
StartGood(w) ==
  /\ start[w].at \in {"idle", "begin"} <=> start[w].o = 0
  /\ start[w].o # 0 => obj[start[w].o].w = w
  /\ start[w].pid # 0 => start[w].o # 0 /\ proc[start[w].pid].s = Session(w)
  /\ start[w].at = "persist" => start[w].pid # 0
StartsGood ==
  /\ \A w \in Workers : StartGood(w)
  /\ \A w, v \in Workers :
       w # v /\ start[w].at \in Stages /\ start[v].at \in Stages => Session(w) # Session(v)
RecGood(r, n, pr) ==
  /\ r.s <= n /\ Of(r.pid, r.s, pr) /\ Of(r.kill, r.s, pr)
  /\ r.at = "save" => r.pid # 0
RecsGood == \A w \in Workers : RecGood(rec[w], row.s, proc)
CallsGood ==
  \A s \in Sessions :
    /\ call[s].at # "none" => s <= row.s
    /\ call[s].at = "boot" => call[s].pid # 0 /\ proc[call[s].pid].s = s
ProcsGood == \A p \in Procs : proc[p].s <= row.s /\ (proc[p].st = "none" <=> proc[p].s = 0)
SupGood == sup.s <= row.s /\ Of(sup.pid, sup.s, proc)
\* A row when pr are the processes.
RowFine(r, pr) ==
  /\ r.st \notin Active => r.worker = NoWorker /\ ~r.lease
  /\ r.st = "none" <=> r.s = 0
  /\ Of(r.pid, r.s, pr)
RowGood == RowFine(row, proc)

Structure ==
  /\ TypeOK /\ ObjectsGood /\ MemGood /\ StartsGood /\ RecsGood /\ CallsGood /\ ProcsGood
  /\ SupGood /\ RowGood

\* One of the processes of session s died.
Dead(s) == \E p \in Procs : proc[p].s = s /\ proc[p].st = "gone"

\* A session has one process, and nothing can ask for another.
OneProcess ==
  /\ \A p, q \in Procs : proc[p].s # 0 /\ proc[q].s = proc[p].s => p = q
  /\ \A p \in Procs : proc[p].s # 0 =>
       /\ call[proc[p].s].at # "sent"
       /\ \A w \in Workers : start[w].at \in Stages /\ Session(w) = proc[p].s =>
            /\ start[w].at \notin {"renew", "ready"}
            /\ start[w].at = "call" => call[proc[p].s].at = "boot"
  /\ \A w \in Workers : start[w].at \in {"renew", "ready"} => call[Session(w)].at = "none"

\* Whoever believes that a session was stopped is right.
StopsSure ==
  /\ \A o \in Objects : obj[o].sure => Dead(obj[o].s)
  /\ sup.s # 0 /\ sup.pid = 0 => Dead(sup.s)
  /\ row.st = "stopped" => Dead(row.s)
GoneInv == ~outage => OneProcess /\ StopsSure

\* A start that knows no pid, and a session of which no pid is known.
Blind(w) ==
  \/ start[w].at \in {"renew", "ready", "call", "look", "fail"}
  \/ start[w].at \in {"record", "confirm"} /\ start[w].pid = 0
Unknown(s) ==
  /\ row.s = s => row.pid = 0
  /\ \A o \in Objects : obj[o].s = s => obj[o].pid = 0 /\ obj[o].seen = 0
  /\ \A v \in Workers : rec[v].s = s => rec[v].pid = 0
  /\ sup.s = s => sup.st # "running"
BlindInv ==
  \A w \in Workers : Blind(w) =>
    Unknown(Session(w)) /\ (start[w].at # "call" => call[Session(w)].at = "none")

\* A row that is or is about to be "running" has a pid.
PidInv ==
  /\ row.st = "running" => row.pid # 0
  /\ \A w \in Workers :
       /\ start[w].at \in {"confirm", "persist"} /\ start[w].pid # 0 /\ row.s = Session(w)
       /\ row.st \in Active
       => row.pid # 0
  /\ \A w \in Workers :
       rec[w].at \in {"check", "adopted"} /\ rec[w].s = row.s /\ row.st \in Active => row.pid # 0
KnownInv == "answer" \notin Faulty \/ ~outage => BlindInv /\ PidInv
-----------------------------------------------------------------------------
(* Objects.                                                                 *)

\* q is what becomes of object r: the same session's, and no pid is learnt.
Follow(r, q, n, pr) ==
  /\ r.w # NoWorker /\ ObjectGood(q, n, pr) /\ q.w = r.w /\ q.s = r.s
  /\ q.pid \in {0, r.pid} /\ q.seen \in {0, r.seen} /\ (q.sure => r.sure)

LEMMA FollowBeat ==
  ASSUME NEW n, NEW pr, NEW r, ObjectGood(r, n, pr), r.w # NoWorker,
         NEW hb \in {"no", "renew", "observe", "absent", "adopted", "lost"}
  PROVE  Follow(r, [r EXCEPT !.hb = hb], n, pr)
BY DEF Follow, ObjectGood, ObjectType

LEMMA FollowTimer ==
  ASSUME NEW n, NEW pr, NEW r, ObjectGood(r, n, pr), r.w # NoWorker, NEW timer \in BOOLEAN
  PROVE  Follow(r, [r EXCEPT !.timer = timer], n, pr)
BY DEF Follow, ObjectGood, ObjectType

LEMMA FollowStatus ==
  ASSUME NEW n, NEW pr, NEW r, ObjectGood(r, n, pr), r.w # NoWorker, NEW st \in Active \cup Ended
  PROVE  Follow(r, [r EXCEPT !.st = st], n, pr)
BY DEF Follow, ObjectGood, ObjectType

LEMMA Bounds ==
  /\ MaxSessions \in Nat \ {0} /\ MaxProcs \in Nat \ {0} /\ MaxObjects \in Nat \ {0}
  /\ MaxFaults \in Nat /\ MaxRequests \in Nat /\ NoWorker \notin Workers
BY ConstantsAssumption

\* What Follow asks of a record with the identity of r.
Succeeds(r, q) ==
  /\ q \in ObjectType /\ q.w = r.w /\ q.s = r.s /\ q.pid \in {0, r.pid} /\ q.seen \in {0, r.seen}
  /\ q.kill \in {0, r.kill} /\ (q.sure => r.sure)
  /\ (q.stop # "no" => q.final \in Ended) /\ (q.stop = "write" => q.sure)
  /\ (q.stop = "killing" => q.kill # 0) /\ (q.hb = "present" => q.seen # 0)

LEMMA FollowBy ==
  ASSUME NEW n, NEW pr, NEW r, NEW q, ObjectGood(r, n, pr), r.w # NoWorker, Succeeds(r, q)
  PROVE  Follow(r, q, n, pr)
<1>1. Of(q.pid, q.s, pr) /\ Of(q.seen, q.s, pr) /\ Of(q.kill, q.s, pr)
  BY DEF Succeeds, ObjectGood, Of
<1>2. ObjectGood(q, n, pr)
  BY <1>1 DEF Succeeds, ObjectGood
<1> QED
  BY <1>2 DEF Follow, Succeeds

LEMMA FollowBoth ==
  ASSUME NEW n, NEW pr, NEW r, ObjectGood(r, n, pr), r.w # NoWorker
  PROVE  /\ Follow(r, [r EXCEPT !.timer = FALSE, !.st = "failed"], n, pr)
         /\ Follow(r, [r EXCEPT !.st = "running", !.timer = TRUE], n, pr)
         /\ Follow(r, [r EXCEPT !.hb = "no", !.timer = FALSE], n, pr)
<1>1. Succeeds(r, [r EXCEPT !.timer = FALSE, !.st = "failed"])
  <2> DEFINE q == [r EXCEPT !.timer = FALSE, !.st = "failed"]
  <2>1. q \in ObjectType
    BY DEF ObjectGood, ObjectType, Active, Ended
  <2>2. /\ q.w = r.w /\ q.s = r.s /\ q.pid = r.pid /\ q.seen = r.seen /\ q.kill = r.kill
        /\ (q.sure => r.sure) /\ (r.sure => q.sure) /\ q.stop = r.stop /\ q.final = r.final /\ q.hb = r.hb
    BY DEF ObjectGood, ObjectType
  <2> HIDE DEF q
  <2>3. Succeeds(r, q)
    BY <2>1, <2>2 DEF Succeeds, ObjectGood
  <2> QED
    BY <2>3 DEF q
<1>2. Succeeds(r, [r EXCEPT !.st = "running", !.timer = TRUE])
  <2> DEFINE q == [r EXCEPT !.st = "running", !.timer = TRUE]
  <2>1. q \in ObjectType
    BY DEF ObjectGood, ObjectType, Active, Ended
  <2>2. /\ q.w = r.w /\ q.s = r.s /\ q.pid = r.pid /\ q.seen = r.seen /\ q.kill = r.kill
        /\ (q.sure => r.sure) /\ (r.sure => q.sure) /\ q.stop = r.stop /\ q.final = r.final /\ q.hb = r.hb
    BY DEF ObjectGood, ObjectType
  <2> HIDE DEF q
  <2>3. Succeeds(r, q)
    BY <2>1, <2>2 DEF Succeeds, ObjectGood
  <2> QED
    BY <2>3 DEF q
<1>3. Succeeds(r, [r EXCEPT !.hb = "no", !.timer = FALSE])
  <2> DEFINE q == [r EXCEPT !.hb = "no", !.timer = FALSE]
  <2>1. q \in ObjectType
    BY DEF ObjectGood, ObjectType, Active, Ended
  <2>2. /\ q.w = r.w /\ q.s = r.s /\ q.pid = r.pid /\ q.seen = r.seen /\ q.kill = r.kill
        /\ (q.sure => r.sure) /\ (r.sure => q.sure) /\ q.stop = r.stop /\ q.final = r.final /\ q.hb = "no"
    BY DEF ObjectGood, ObjectType
  <2> HIDE DEF q
  <2>3. Succeeds(r, q)
    BY <2>1, <2>2 DEF Succeeds, ObjectGood
  <2> QED
    BY <2>3 DEF q
<1> QED
  BY <1>1, <1>2, <1>3, FollowBy

\* The stages of a stop.
LEMMA FollowStop ==
  ASSUME NEW n, NEW pr, NEW r, ObjectGood(r, n, pr), r.w # NoWorker
  PROVE  /\ r.stop # "no" => Follow(r, [r EXCEPT !.stop = "refused"], n, pr)
         /\ Follow(r, [r EXCEPT !.stop = "no"], n, pr)
         /\ r.stop # "no" => Follow(r, [r EXCEPT !.stop = "refused", !.kill = 0], n, pr)
         /\ r.stop # "no" => Follow(r, [r EXCEPT !.stop = "done", !.pid = 0, !.prev = "none"], n, pr)
         /\ \A b \in BOOLEAN :
              Follow(r, [r EXCEPT !.stop = "no", !.st = r.prev, !.final = "none", !.prev = "none",
                                  !.timer = b], n, pr)
<1>0. 0 \in 0..MaxProcs
  BY Bounds
<1>1. r.stop # "no" => Follow(r, [r EXCEPT !.stop = "refused"], n, pr)
  BY DEF Follow, ObjectGood, ObjectType
<1>2. Follow(r, [r EXCEPT !.stop = "no"], n, pr)
  BY DEF Follow, ObjectGood, ObjectType
<1>3. ASSUME r.stop # "no"
      PROVE  Succeeds(r, [r EXCEPT !.stop = "refused", !.kill = 0])
  <2> DEFINE q == [r EXCEPT !.stop = "refused", !.kill = 0]
  <2>1. q \in ObjectType
    BY <1>0 DEF ObjectGood, ObjectType
  <2>2. /\ q.w = r.w /\ q.s = r.s /\ q.pid = r.pid /\ q.seen = r.seen /\ q.kill = 0
        /\ (q.sure => r.sure) /\ (r.sure => q.sure) /\ q.stop = "refused" /\ q.final = r.final /\ q.hb = r.hb
    BY DEF ObjectGood, ObjectType
  <2> HIDE DEF q
  <2>3. Succeeds(r, q)
    BY <1>3, <2>1, <2>2 DEF Succeeds, ObjectGood
  <2> QED
    BY <2>3 DEF q
<1>4. ASSUME r.stop # "no"
      PROVE  Succeeds(r, [r EXCEPT !.stop = "done", !.pid = 0, !.prev = "none"])
  <2> DEFINE q == [r EXCEPT !.stop = "done", !.pid = 0, !.prev = "none"]
  <2>1. q \in ObjectType
    BY <1>0 DEF ObjectGood, ObjectType
  <2>2. /\ q.w = r.w /\ q.s = r.s /\ q.pid = 0 /\ q.seen = r.seen /\ q.kill = r.kill
        /\ (q.sure => r.sure) /\ (r.sure => q.sure) /\ q.stop = "done" /\ q.final = r.final /\ q.hb = r.hb
    BY DEF ObjectGood, ObjectType
  <2> HIDE DEF q
  <2>3. Succeeds(r, q)
    BY <1>4, <2>1, <2>2 DEF Succeeds, ObjectGood
  <2> QED
    BY <2>3 DEF q
<1>5. ASSUME NEW b \in BOOLEAN
      PROVE  Succeeds(r, [r EXCEPT !.stop = "no", !.st = r.prev, !.final = "none", !.prev = "none",
                                   !.timer = b])
  <2> DEFINE q == [r EXCEPT !.stop = "no", !.st = r.prev, !.final = "none", !.prev = "none",
                           !.timer = b]
  <2>1. q \in ObjectType
    BY DEF ObjectGood, ObjectType, Active, Ended
  <2>2. /\ q.w = r.w /\ q.s = r.s /\ q.pid = r.pid /\ q.seen = r.seen /\ q.kill = r.kill
        /\ (q.sure => r.sure) /\ (r.sure => q.sure) /\ q.stop = "no" /\ q.final = "none" /\ q.hb = r.hb
    BY DEF ObjectGood, ObjectType
  <2> HIDE DEF q
  <2>3. Succeeds(r, q)
    BY <2>1, <2>2 DEF Succeeds, ObjectGood
  <2> QED
    BY <2>3 DEF q
<1> QED
  BY <1>1, <1>2, <1>3, <1>4, <1>5, FollowBy

LEMMA FollowStopping ==
  ASSUME NEW n, NEW pr, NEW r, ObjectGood(r, n, pr), r.w # NoWorker, NEW final \in Ended,
         NEW stop \in {"write", "call"}, stop = "write" => r.sure
  PROVE  Follow(r, [r EXCEPT !.timer = FALSE, !.prev = r.st, !.final = final, !.st = final,
                             !.stop = stop], n, pr)
<1>1. Succeeds(r, [r EXCEPT !.timer = FALSE, !.prev = r.st, !.final = final, !.st = final,
                            !.stop = stop])
  <2> DEFINE q == [r EXCEPT !.timer = FALSE, !.prev = r.st, !.final = final, !.st = final, !.stop = stop]
  <2>1. q \in ObjectType
    BY DEF ObjectGood, ObjectType, Active, Ended
  <2>2. /\ q.w = r.w /\ q.s = r.s /\ q.pid = r.pid /\ q.seen = r.seen /\ q.kill = r.kill
        /\ (q.sure => r.sure) /\ (r.sure => q.sure) /\ q.stop = stop /\ q.final = final /\ q.hb = r.hb
    BY DEF ObjectGood, ObjectType
  <2> HIDE DEF q
  <2>3. Succeeds(r, q)
    BY <2>1, <2>2 DEF Succeeds, ObjectGood
  <2> QED
    BY <2>3 DEF q
<1> QED
  BY <1>1, FollowBy

\* q is the same session's object as r.
Changed(r, q, n, pr) == r.w # NoWorker /\ ObjectGood(q, n, pr) /\ q.w = r.w /\ q.s = r.s

LEMMA FollowChanges ==
  ASSUME NEW n, NEW pr, NEW r, NEW q, Follow(r, q, n, pr)
  PROVE  Changed(r, q, n, pr)
BY DEF Follow, Changed

LEMMA NoObjectGood ==
  ASSUME NEW n, NEW pr
  PROVE  ObjectGood(NoObject, n, pr) /\ NoObject.w = NoWorker /\ NoObject.s = 0
<1>1. NoObject \in ObjectType
  BY Bounds DEF NoObject, ObjectType
<1> QED
  BY <1>1 DEF ObjectGood, NoObject, Of

\* Sessions and processes keep their numbers.
ProcsGrow == \A p \in Procs : proc[p].s # 0 => proc'[p].s = proc[p].s
Grown == row.s <= row'.s /\ row'.s \in Nat /\ ProcsGrow

LEMMA OfGrows ==
  ASSUME ProcsGrow, NEW p \in 0..MaxProcs, NEW s, Of(p, s, proc)
  PROVE  Of(p, s, proc')
BY Bounds DEF ProcsGrow, Of, Procs

LEMMA ObjectGrows ==
  ASSUME TypeOK, Grown, NEW r, ObjectGood(r, row.s, proc)
  PROVE  ObjectGood(r, row'.s, proc')
<1>1. row.s \in Nat /\ row'.s \in Nat /\ row.s <= row'.s
  BY Bounds DEF TypeOK, Grown
<1>2. r.pid \in 0..MaxProcs /\ r.seen \in 0..MaxProcs /\ r.kill \in 0..MaxProcs /\ r.s \in 0..MaxSessions
  BY DEF ObjectGood, ObjectType
<1>3. Of(r.pid, r.s, proc') /\ Of(r.seen, r.s, proc') /\ Of(r.kill, r.s, proc')
  BY <1>2, OfGrows DEF ObjectGood, Grown
<1>4. r.s \in 1..row.s => r.s \in 1..row'.s
  BY <1>1, <1>2, Bounds
<1> QED
  BY <1>3, <1>4 DEF ObjectGood

\* What becomes of the objects in a step.
Held(o) == obj'[o].w = obj[o].w /\ obj'[o].s = obj[o].s
Kept ==
  \A w \in Workers, o \in Objects :
    (mem'[w] = o \/ start'[w].o = o) /\ obj[o].w # NoWorker => Held(o)
ObjectsAfter == obj' \in [Objects -> ObjectType] /\ ObjectsGood' /\ Kept

\* Each object is what new says or is no more, and is what new says when it is referred to.
LEMMA KeepFacts ==
  ASSUME NEW new, Keep(new)
  PROVE  /\ obj' = [o \in Objects |-> obj'[o]]
         /\ \A o \in Objects : obj'[o] \in {new[o], NoObject}
         /\ \A o \in Objects, w \in Workers : mem'[w] = o \/ start'[w].o = o => obj'[o] = new[o]
BY DEF Keep

LEMMA KeepAny ==
  ASSUME NEW new, Keep(new), TypeOK, Grown,
         \A o \in Objects : ObjectGood(new[o], row'.s, proc'),
         \A o \in Objects : obj[o].w # NoWorker => new[o].w = obj[o].w /\ new[o].s = obj[o].s
  PROVE  ObjectsAfter
<1>1. \A o \in Objects : ObjectGood(obj'[o], row'.s, proc')
  BY KeepFacts, NoObjectGood
<1>2. obj' \in [Objects -> ObjectType]
  BY <1>1, KeepFacts DEF ObjectGood
<1>3. Kept
  BY KeepFacts DEF Kept, Held
<1> QED
  BY <1>1, <1>2, <1>3 DEF ObjectsAfter, ObjectsGood

OneChanges(o, r) ==
  \A x \in Objects : obj'[x] \in {obj[x], NoObject} \/ (x = o /\ obj'[x] = r)

LEMMA KeepOne ==
  ASSUME NEW o \in Objects, NEW r, Structure, Grown, Changed(obj[o], r, row'.s, proc'),
         Keep([obj EXCEPT ![o] = r])
  PROVE  ObjectsAfter /\ OneChanges(o, r)
<1> DEFINE new == [obj EXCEPT ![o] = r]
<1>0. obj \in [Objects -> ObjectType]
  BY TypeShape DEF Structure, ApiTypes
<1>1. new[o] = r /\ \A x \in Objects : x # o => new[x] = obj[x]
  BY <1>0
<1>2. Keep(new)
  OBVIOUS
<1> HIDE DEF new
<1>3. \A x \in Objects : ObjectGood(obj[x], row'.s, proc')
  BY ObjectGrows DEF Structure, ObjectsGood
<1>4. \A x \in Objects : ObjectGood(new[x], row'.s, proc')
  BY <1>1, <1>3 DEF Changed
<1>5. \A x \in Objects : obj[x].w # NoWorker => new[x].w = obj[x].w /\ new[x].s = obj[x].s
  BY <1>1 DEF Changed
<1>6. ObjectsAfter
  BY <1>2, <1>4, <1>5, KeepAny DEF Structure
<1>7. OneChanges(o, r)
  BY <1>1, <1>2, KeepFacts DEF OneChanges
<1> QED
  BY <1>6, <1>7

NoneChanges == \A x \in Objects : obj'[x] \in {obj[x], NoObject}

LEMMA KeepAll ==
  ASSUME Structure, Grown, obj' = obj \/ Keep(obj)
  PROVE  ObjectsAfter /\ NoneChanges
<1>0. obj \in [Objects -> ObjectType]
  BY TypeShape DEF Structure, ApiTypes
<1>3. \A x \in Objects : ObjectGood(obj[x], row'.s, proc')
  BY ObjectGrows DEF Structure, ObjectsGood
<1>4. CASE Keep(obj)
  BY <1>3, <1>4, KeepAny, KeepFacts DEF Structure, NoneChanges
<1>5. CASE obj' = obj
  BY <1>0, <1>3, <1>5 DEF ObjectsAfter, ObjectsGood, Kept, Held, NoneChanges
<1> QED
  BY <1>4, <1>5
-----------------------------------------------------------------------------
(* The maps and the starts.                                                 *)

MemAfter == mem' \in [Workers -> 0..MaxObjects] /\ MemGood'

LEMMA MemQuiet ==
  ASSUME Structure, Kept, \/ UNCHANGED mem
                          \/ \E o : Dropped(o)
                          \/ \E v \in Workers : mem' = [mem EXCEPT ![v] = 0]
  PROVE  MemAfter
<1>1. mem \in [Workers -> 0..MaxObjects]
  BY TypeShape DEF Structure, ApiTypes
<1>2. mem' \in [Workers -> 0..MaxObjects] /\ \A w \in Workers : mem'[w] \in {0, mem[w]}
  <2>1. 0 \in 0..MaxObjects
    BY Bounds
  <2> QED
    BY <1>1, <2>1 DEF Dropped
<1>3. \A w \in Workers : mem'[w] # 0 => mem'[w] \in Objects /\ obj[mem'[w]].w = w /\ w # NoWorker
  BY <1>1, <1>2, Bounds DEF Structure, MemGood, Objects
<1> QED
  BY <1>2, <1>3 DEF MemAfter, MemGood, Kept, Held

Frees(w) == start'[w].at \in {"idle", "begin"} /\ start'[w].o = 0 /\ start'[w].pid = 0
Waits(w) ==
  /\ start'[w].at = "wait" /\ start'[w].o # 0 /\ start'[w].pid = 0 /\ obj'[start'[w].o].w = w
Goes1(w) ==
  /\ start[w].o # 0 /\ start'[w].o = start[w].o /\ start'[w].pid = start[w].pid
  /\ start'[w].at # "idle" /\ start'[w].at # "begin"
  /\ start'[w].at \in Stages => start[w].at \in Stages
  /\ start'[w].at = "persist" => start[w].pid # 0
StartsStep == \A w \in Workers : Frees(w) \/ Waits(w) \/ Goes1(w)

\* A start gets no further than before: it asks for no process and learns no pid.
StartCalm(w) ==
  start'[w].at \in Stages =>
    /\ start'[w].at \in {"renew", "ready"} => start[w].at \in {"renew", "ready"}
    /\ start'[w].at = "call" => start[w].at = "call"
    /\ start'[w].at \in {"confirm", "persist"} => start[w].at \in {"confirm", "persist"}
    /\ Blind(w)' => Blind(w)
    /\ Blind(w)' /\ start[w].at = "call" /\ start'[w].at # "call" => call[Session(w)].at = "none"
StartsCalm == \A w \in Workers : StartCalm(w)
Onward == StartsStep /\ StartsCalm /\ start' \in [Workers -> StartType]
StartsAfter == start' \in [Workers -> StartType] /\ StartsGood'

LEMMA StartFacts ==
  ASSUME Structure, NEW w \in Workers
  PROVE  /\ start \in [Workers -> StartType]
         /\ start[w].o \in 0..MaxObjects /\ start[w].pid \in 0..MaxProcs /\ start[w].n \in 0..2
         /\ start[w].at \in StartPlaces /\ w # NoWorker
         /\ start[w].o # 0 => /\ start[w].o \in Objects /\ obj[start[w].o].w = w
                              /\ Session(w) \in 1..row.s
         /\ start[w].at \in Stages => start[w].o # 0
<1>1. start \in [Workers -> StartType]
  BY TypeShape DEF Structure, ApiTypes
<1>2. start[w].o # 0 => start[w].o \in Objects /\ obj[start[w].o].w = w
  BY <1>1, Bounds DEF Structure, StartsGood, StartGood, StartType, Objects
<1>3. start[w].o # 0 => Session(w) \in 1..row.s
  BY <1>2, Bounds DEF Structure, ObjectsGood, ObjectGood, Session
<1>4. start[w].at \in Stages => start[w].o # 0
  BY DEF Structure, StartsGood, StartGood, Stages
<1> QED
  BY <1>1, <1>2, <1>3, <1>4, Bounds DEF StartType

LEMMA StartsQuiet ==
  ASSUME Structure, Grown, ObjectsAfter, StartsStep, start' \in [Workers -> StartType]
  PROVE  StartsAfter
<1>1. ASSUME NEW w \in Workers, Goes1(w)
      PROVE  start'[w].o # 0 /\ obj'[start'[w].o].w = w /\ Session(w)' = Session(w) /\ Session(w) # 0
  BY <1>1, StartFacts, Bounds DEF Goes1, Session, ObjectsAfter, Kept, Held
<1>2. ASSUME NEW w \in Workers
      PROVE  StartGood(w)'
  <2>1. CASE Frees(w)
    BY <2>1 DEF Frees, StartGood
  <2>2. CASE Waits(w)
    BY <2>2 DEF Waits, StartGood
  <2>3. CASE Goes1(w)
    <3>1. start[w].pid # 0 => proc'[start[w].pid].s = Session(w)
      BY <1>1, <2>3, StartFacts, Bounds DEF Grown, ProcsGrow, Procs, Structure, StartsGood, StartGood
    <3> QED
      BY <1>1, <2>3, <3>1 DEF Goes1, StartGood
  <2> QED
    BY <2>1, <2>2, <2>3 DEF StartsStep
<1>3. ASSUME NEW w \in Workers, NEW v \in Workers, w # v, start'[w].at \in Stages, start'[v].at \in Stages
      PROVE  Session(w)' # Session(v)'
  <2>1. Goes1(w) /\ Goes1(v)
    BY <1>3 DEF StartsStep, Frees, Waits, Stages
  <2> QED
    BY <1>1, <1>3, <2>1 DEF Goes1, Structure, StartsGood
<1> QED
  BY <1>2, <1>3 DEF StartsAfter, StartsGood

LEMMA IdleIs == Idle.at = "idle" /\ Idle.o = 0 /\ Idle.n = 0 /\ Idle.pid = 0 /\ Idle \in StartType
BY Bounds DEF Idle, StartType, StartPlaces

LEMMA StartSame ==
  ASSUME Structure, start' = start
  PROVE  Onward
<1>1. ASSUME NEW w \in Workers
      PROVE  Frees(w) \/ Waits(w) \/ Goes1(w)
  <2>1. StartGood(w)
    BY DEF Structure, StartsGood
  <2> QED
    BY <2>1, StartFacts DEF StartGood, Frees, Waits, Goes1
<1>2. ASSUME NEW w \in Workers
      PROVE  StartCalm(w)
  BY DEF StartCalm, Blind
<1> QED
  BY <1>1, <1>2, TypeShape DEF StartsStep, StartsCalm, Onward, Structure, ApiTypes

\* One start goes on.
LEMMA StartOne ==
  ASSUME Structure, NEW w \in Workers, NEW r \in StartType, start' = [start EXCEPT ![w] = r],
         Frees(w) \/ Waits(w) \/ Goes1(w)
  PROVE  StartsStep /\ start' \in [Workers -> StartType] /\ (StartCalm(w) => Onward)
<1>0. start \in [Workers -> StartType]
  BY TypeShape DEF Structure, ApiTypes
<1>1. ASSUME NEW v \in Workers, v # w
      PROVE  Frees(v) \/ Waits(v) \/ Goes1(v)
  <2>1. StartGood(v) /\ start'[v] = start[v]
    BY <1>0, <1>1 DEF Structure, StartsGood
  <2> QED
    BY <2>1, StartFacts DEF StartGood, Frees, Waits, Goes1
<1>2. StartsStep /\ start' \in [Workers -> StartType]
  BY <1>0, <1>1 DEF StartsStep
<1>3. ASSUME NEW v \in Workers, v # w
      PROVE  StartCalm(v)
  <2>1. start'[v] = start[v]
    BY <1>0, <1>3
  <2> QED
    BY <2>1 DEF StartCalm, Blind
<1> QED
  BY <1>2, <1>3 DEF StartsCalm, Onward

LEMMA StartLeaves ==
  ASSUME Structure, NEW w \in Workers, Leaves(w)
  PROVE  Onward
<1>1. start'[w] = Idle
  BY TypeShape DEF Structure, ApiTypes, Leaves
<1> QED
  BY <1>1, IdleIs, StartOne DEF Leaves, Frees, StartCalm, Stages

LEMMA StartGoes ==
  ASSUME Structure, NEW w \in Workers, NEW at \in Stages, start[w].at \in Stages, Goes(w, at),
         at = "persist" => start[w].pid # 0
  PROVE  StartsStep /\ start' \in [Workers -> StartType] /\ (StartCalm(w) => Onward)
<1> DEFINE r == [start[w] EXCEPT !.at = at]
<1>0. start \in [Workers -> StartType] /\ start[w] \in StartType /\ at \in StartPlaces
  BY TypeShape DEF Structure, ApiTypes, Stages, StartPlaces
<1>1. start' = [start EXCEPT ![w] = r]
  BY <1>0 DEF Goes
<1>2. r \in StartType /\ r.at = at /\ r.o = start[w].o /\ r.pid = start[w].pid
  BY <1>0 DEF StartType
<1> HIDE DEF r
<1>3. start'[w] = r
  BY <1>0, <1>1
<1>4. Goes1(w)
  BY <1>2, <1>3, StartFacts DEF Goes1, Stages
<1> QED
  BY <1>1, <1>2, <1>4, StartOne
-----------------------------------------------------------------------------
(* What a step leaves alone, and the row.                                   *)

LEMMA RestStays ==
  ASSUME Structure, Grown
  PROVE  /\ rec' = rec => rec' \in [Workers -> RecType] /\ RecsGood'
         /\ call' = call => call' \in [Sessions -> CallType] /\ CallsGood'
         /\ sup' = sup => sup' \in SupType /\ SupGood'
         /\ proc' = proc => proc' \in [Procs -> ProcType] /\ ProcsGood'
<1>0. /\ rec \in [Workers -> RecType] /\ call \in [Sessions -> CallType] /\ sup \in SupType
      /\ proc \in [Procs -> ProcType] /\ row \in RowType
  BY TypeShape DEF Structure
<1>1. row.s \in Nat /\ row'.s \in Nat /\ row.s <= row'.s
  BY <1>0, Bounds DEF RowType, Grown
<1>2. ASSUME rec' = rec
      PROVE  RecsGood'
  <2>1. ASSUME NEW w \in Workers
        PROVE  RecGood(rec[w], row'.s, proc')
    <3>1. RecGood(rec[w], row.s, proc) /\ rec[w] \in RecType
      BY <1>0 DEF Structure, RecsGood
    <3>2. rec[w].s \in Nat /\ rec[w].pid \in 0..MaxProcs /\ rec[w].kill \in 0..MaxProcs
      BY <3>1, Bounds DEF RecType
    <3>3. Of(rec[w].pid, rec[w].s, proc') /\ Of(rec[w].kill, rec[w].s, proc')
      BY <3>1, <3>2, OfGrows DEF RecGood, Grown
    <3> QED
      BY <1>1, <3>1, <3>2, <3>3 DEF RecGood
  <2> QED
    BY <1>2, <2>1 DEF RecsGood
<1>3. ASSUME call' = call
      PROVE  CallsGood'
  <2>1. ASSUME NEW s \in Sessions
        PROVE  /\ call[s].at # "none" => s <= row'.s
               /\ call[s].at = "boot" => call[s].pid # 0 /\ proc'[call[s].pid].s = s
    <3>1. call[s].pid \in 0..MaxProcs /\ s \in Nat /\ s # 0
      BY <1>0, Bounds DEF CallType, Sessions
    <3> QED
      BY <1>1, <3>1, Bounds DEF Structure, CallsGood, Grown, ProcsGrow, Procs
  <2> QED
    BY <1>3, <2>1 DEF CallsGood
<1>4. ASSUME sup' = sup
      PROVE  SupGood'
  <2>1. sup.pid \in 0..MaxProcs /\ sup.s \in Nat
    BY <1>0, Bounds DEF SupType
  <2> QED
    BY <1>1, <1>4, <2>1, OfGrows DEF Structure, SupGood, Grown
<1>5. ASSUME proc' = proc
      PROVE  ProcsGood'
  <2>1. \A p \in Procs : proc[p].s \in Nat
    BY <1>0, Bounds DEF ProcType
  <2> QED
    BY <1>1, <1>5, <2>1 DEF Structure, ProcsGood
<1> QED
  BY <1>0, <1>2, <1>3, <1>4, <1>5

\* What SessionsInTurn asks of the next row.
InTurn(r) ==
  /\ row.st \in Active /\ row.lease => r.s = row.s /\ r.worker \in {row.worker, NoWorker}
  /\ row.st \in Ended /\ r.s = row.s => r.st \in Ended
RowNext(r, pr) == r \in RowType /\ RowFine(r, pr) /\ InTurn(r)
RowStays(r, pr) == RowNext(r, pr) /\ r.s = row.s

\* Somebody is sure that session s was stopped.
SureOf(s) == \E o \in Objects : obj[o].sure /\ obj[o].s = s

\* Nothing is said of a process that was not said before, except that it was stopped by
\* one who is sure.
RowCalm(r) ==
  /\ r.s = row.s
  /\ r.st \in Active => row.st \in Active /\ r.pid = row.pid
  /\ r.pid # 0 => row.pid # 0
  /\ r.st = "running" => row.st = "running"
  /\ r.st = "stopped" => row.st = "stopped" \/ SureOf(row.s)

\* The writes of the owner; the lapse and the claim of a lease.
LEMMA RowWrites ==
  ASSUME Structure, ProcsGrow, row.worker # NoWorker,
         NEW p \in 0..MaxProcs, Of(p, row.s, proc'), NEW final \in Ended
  PROVE  /\ row.st \in Active
         /\ RowStays([row EXCEPT !.lease = TRUE], proc')
         /\ RowStays(Freed(row), proc')
         /\ RowStays([Freed(row) EXCEPT !.st = "failed"], proc')
         /\ RowStays([Freed(row) EXCEPT !.st = final, !.pid = 0], proc')
         /\ RowStays([row EXCEPT !.pid = p], proc')
         /\ RowStays([row EXCEPT !.st = "running"], proc')
         /\ RowStays([row EXCEPT !.st = "running", !.pid = p], proc')
<1>0. row \in RowType /\ 0 \in 0..MaxProcs
  BY TypeShape, Bounds DEF Structure
<1>1. row.st \in Active /\ row.s # 0 /\ row.st # "none"
  BY DEF Structure, RowGood, RowFine, Active
<1>2. Of(row.pid, row.s, proc') /\ Of(0, row.s, proc')
  <2>1. row.pid \in 0..MaxProcs
    BY <1>0 DEF RowType
  <2> QED
    BY <2>1, OfGrows DEF Structure, RowGood, RowFine, Of
<1>3. RowStays([row EXCEPT !.lease = TRUE], proc')
  BY <1>0, <1>1, <1>2 DEF RowStays, RowNext, RowType, RowFine, InTurn, Active, Ended
<1>4. RowStays(Freed(row), proc')
  BY <1>0, <1>1, <1>2 DEF RowStays, RowNext, RowType, RowFine, InTurn, Active, Ended, Freed
<1>5. RowStays([Freed(row) EXCEPT !.st = "failed"], proc')
  BY <1>0, <1>1, <1>2 DEF RowStays, RowNext, RowType, RowFine, InTurn, Active, Ended, Freed
<1>6. RowStays([Freed(row) EXCEPT !.st = final, !.pid = 0], proc')
  BY <1>0, <1>1, <1>2 DEF RowStays, RowNext, RowType, RowFine, InTurn, Active, Ended, Freed
<1>7. RowStays([row EXCEPT !.pid = p], proc')
  BY <1>0, <1>1, <1>2 DEF RowStays, RowNext, RowType, RowFine, InTurn, Active, Ended
<1>8. RowStays([row EXCEPT !.st = "running"], proc')
  BY <1>0, <1>1, <1>2 DEF RowStays, RowNext, RowType, RowFine, InTurn, Active, Ended
<1>9. RowStays([row EXCEPT !.st = "running", !.pid = p], proc')
  BY <1>0, <1>1, <1>2 DEF RowStays, RowNext, RowType, RowFine, InTurn, Active, Ended
<1> QED
  BY <1>1, <1>3, <1>4, <1>5, <1>6, <1>7, <1>8, <1>9

LEMMA RowLease ==
  ASSUME Structure, ProcsGrow
  PROVE  /\ RowStays(row, proc')
         /\ row.st \in Active => RowStays([row EXCEPT !.lease = FALSE], proc')
         /\ \A w \in Workers : row.st \in Active /\ ~row.lease =>
              RowStays([row EXCEPT !.worker = w, !.lease = TRUE], proc')
<1>0. row \in RowType
  BY TypeShape DEF Structure
<1>1. row.st \in Active => row.s # 0 /\ row.st # "none"
  BY DEF Structure, RowGood, RowFine, Active
<1>2. Of(row.pid, row.s, proc')
  <2>1. row.pid \in 0..MaxProcs
    BY <1>0 DEF RowType
  <2> QED
    BY <2>1, OfGrows DEF Structure, RowGood, RowFine
<1>3. RowStays(row, proc')
  BY <1>0, <1>2 DEF RowStays, RowNext, RowFine, InTurn, Structure, RowGood
<1>4. row.st \in Active => RowStays([row EXCEPT !.lease = FALSE], proc')
  BY <1>0, <1>1, <1>2 DEF RowStays, RowNext, RowType, RowFine, InTurn, Active, Ended
<1>5. ASSUME NEW w \in Workers, row.st \in Active, ~row.lease
      PROVE  RowStays([row EXCEPT !.worker = w, !.lease = TRUE], proc')
  BY <1>0, <1>1, <1>2, <1>5 DEF RowStays, RowNext, RowType, RowFine, InTurn, Active, Ended
<1> QED
  BY <1>3, <1>4, <1>5

LEMMA RowGrows ==
  ASSUME Structure, ProcsGrow, RowStays(row', proc')
  PROVE  Grown
BY TypeShape, Bounds DEF Structure, RowType, RowStays, Grown

LEMMA Counted ==
  ASSUME TypeOK, UNCHANGED world \/ Requested \/ (\E kind : Fault(kind)),
         outage' \in {outage, TRUE}
  PROVE  Counts'
<1>1. Counts
  BY TypeShape
<1>2. MaxFaults \in Nat /\ MaxRequests \in Nat
  BY Bounds
<1>3. CASE UNCHANGED world
  BY <1>1, <1>3 DEF Counts, world
<1>4. CASE Requested
  BY <1>1, <1>2, <1>4 DEF Counts, Requested
<1>5. ASSUME NEW kind, Fault(kind)
      PROVE  Counts'
  <2>1. outage' \in BOOLEAN
    BY <1>1, Zenon DEF Counts
  <2>2. faults' \in 0..MaxFaults /\ asked' \in 0..MaxRequests
    BY <1>1, <1>2, <1>5 DEF Counts, Fault
  <2> QED
    BY <2>1, <2>2 DEF Counts
<1> QED
  BY <1>3, <1>4, <1>5

RecsAfter == rec' \in [Workers -> RecType] /\ RecsGood'
CallsAfter == call' \in [Sessions -> CallType] /\ CallsGood'
SupAfter == sup' \in SupType /\ SupGood'
ProcsAfter == proc' \in [Procs -> ProcType] /\ ProcsGood'

LEMMA Together ==
  ASSUME RowNext(row', proc'), ObjectsAfter, MemAfter, StartsAfter, RecsAfter, CallsAfter, SupAfter,
         ProcsAfter, Counts'
  PROVE  Structure' /\ InTurn(row')
<1>1. TypeOK'
  <2>1. ApiTypes'
    BY DEF ApiTypes, ObjectsAfter, MemAfter, StartsAfter
  <2> QED
    BY <2>1 DEF TypeOK, RowNext, RecsAfter, CallsAfter, SupAfter, ProcsAfter, RowType, ApiTypes,
                ObjectType, StartType, StartPlaces, RecType, CallType, SupType, ProcType, Counts
<1> QED
  BY <1>1 DEF Structure, RowGood, RowNext, ObjectsAfter, MemAfter, StartsAfter, RecsAfter,
              CallsAfter, SupAfter, ProcsAfter

LEMMA StepTogether ==
  ASSUME Structure, Grown, RowNext(row', proc'), ObjectsAfter, MemAfter,
         StartsStep, start' \in [Workers -> StartType], RecsAfter, CallsAfter, SupAfter, ProcsAfter, Counts'
  PROVE  Structure' /\ InTurn(row')
BY StartsQuiet, Together
-----------------------------------------------------------------------------
(* The changes of one object.                                               *)

LEMMA Still ==
  ASSUME Structure, UNCHANGED <<row, proc>>
  PROVE  RowStays(row', proc') /\ ProcsGrow /\ Grown
<1>1. ProcsGrow
  BY DEF ProcsGrow
<1>2. RowStays(row', proc')
  BY <1>1, RowLease
<1> QED
  BY <1>1, <1>2, RowGrows

LEMMA ObjectFacts ==
  ASSUME Structure, NEW o \in Objects
  PROVE  /\ obj \in [Objects -> ObjectType] /\ obj[o] \in ObjectType
         /\ ObjectGood(obj[o], row.s, proc) /\ (Grown => ObjectGood(obj[o], row'.s, proc'))
         /\ (obj[o].stop # "no" \/ obj[o].hb # "no" \/ obj[o].timer \/ obj[o].pid # 0 => obj[o].w # NoWorker)
         /\ (obj[o].st \in Active \cup Ended => obj[o].w # NoWorker)
<1>1. obj \in [Objects -> ObjectType] /\ ObjectGood(obj[o], row.s, proc)
  BY TypeShape DEF Structure, ApiTypes, ObjectsGood
<1>2. Grown => ObjectGood(obj[o], row'.s, proc')
  BY <1>1, ObjectGrows DEF Structure
<1>3. obj[o] = NoObject => /\ obj[o].stop = "no" /\ obj[o].hb = "no" /\ ~obj[o].timer /\ obj[o].pid = 0
                           /\ obj[o].st = "none"
  BY DEF NoObject
<1> QED
  BY <1>1, <1>2, <1>3 DEF ObjectGood, Active, Ended

ObjectsFollow ==
  \A x \in Objects : obj'[x] \in {obj[x], NoObject} \/ Follow(obj[x], obj'[x], row'.s, proc')
ObjectsQuiet == ObjectsAfter /\ ObjectsFollow

LEMMA KeepFollow ==
  ASSUME NEW o \in Objects, NEW r, Structure, Grown, Follow(obj[o], r, row'.s, proc'),
         Keep([obj EXCEPT ![o] = r])
  PROVE  ObjectsQuiet
<1>1. ObjectsAfter /\ OneChanges(o, r)
  BY FollowChanges, KeepOne
<1> QED
  BY <1>1 DEF OneChanges, ObjectsFollow, ObjectsQuiet

LEMMA KeepNone ==
  ASSUME Structure, Grown, obj' = obj \/ Keep(obj)
  PROVE  ObjectsQuiet
BY KeepAll DEF ObjectsFollow, ObjectsQuiet, NoneChanges

LEMMA KeepBeat ==
  ASSUME Structure, Grown, NEW o \in Objects, obj[o].w # NoWorker, NEW hb \in {"no", "renew", "observe", "absent", "adopted", "lost"},
         Keep([obj EXCEPT ![o].hb = hb])
  PROVE  ObjectsQuiet
<1> DEFINE r == [obj[o] EXCEPT !.hb = hb]
<1>1. [obj EXCEPT ![o].hb = hb] = [obj EXCEPT ![o] = r]
  BY ObjectFacts
<1>2. Follow(obj[o], r, row'.s, proc')
  BY ObjectFacts, FollowBeat
<1> HIDE DEF r
<1> QED
  BY <1>1, <1>2, KeepFollow

LEMMA KeepTimer ==
  ASSUME Structure, Grown, NEW o \in Objects, obj[o].w # NoWorker, NEW timer \in BOOLEAN,
         Keep([obj EXCEPT ![o].timer = timer])
  PROVE  ObjectsQuiet
<1> DEFINE r == [obj[o] EXCEPT !.timer = timer]
<1>1. [obj EXCEPT ![o].timer = timer] = [obj EXCEPT ![o] = r]
  BY ObjectFacts
<1>2. Follow(obj[o], r, row'.s, proc')
  BY ObjectFacts, FollowTimer
<1> HIDE DEF r
<1> QED
  BY <1>1, <1>2, KeepFollow

LEMMA KeepStatus ==
  ASSUME Structure, Grown, NEW o \in Objects, obj[o].w # NoWorker, NEW st \in Active \cup Ended,
         Keep([obj EXCEPT ![o].st = st])
  PROVE  ObjectsQuiet
<1> DEFINE r == [obj[o] EXCEPT !.st = st]
<1>1. [obj EXCEPT ![o].st = st] = [obj EXCEPT ![o] = r]
  BY ObjectFacts
<1>2. Follow(obj[o], r, row'.s, proc')
  BY ObjectFacts, FollowStatus
<1> HIDE DEF r
<1> QED
  BY <1>1, <1>2, KeepFollow

LEMMA KeepFailed ==
  ASSUME Structure, Grown, NEW o \in Objects, obj[o].w # NoWorker,
         Keep([obj EXCEPT ![o].timer = FALSE, ![o].st = "failed"])
  PROVE  ObjectsQuiet
<1> DEFINE r == [obj[o] EXCEPT !.timer = FALSE, !.st = "failed"]
<1>1. [obj EXCEPT ![o].timer = FALSE, ![o].st = "failed"] = [obj EXCEPT ![o] = r]
  BY ObjectFacts
<1>2. Follow(obj[o], r, row'.s, proc')
  BY ObjectFacts, FollowBoth
<1> HIDE DEF r
<1> QED
  BY <1>1, <1>2, KeepFollow

LEMMA KeepRuns ==
  ASSUME Structure, Grown, NEW o \in Objects, obj[o].w # NoWorker,
         Keep([obj EXCEPT ![o].st = "running", ![o].timer = TRUE])
  PROVE  ObjectsQuiet
<1> DEFINE r == [obj[o] EXCEPT !.st = "running", !.timer = TRUE]
<1>1. [obj EXCEPT ![o].st = "running", ![o].timer = TRUE] = [obj EXCEPT ![o] = r]
  BY ObjectFacts
<1>2. Follow(obj[o], r, row'.s, proc')
  BY ObjectFacts, FollowBoth
<1> HIDE DEF r
<1> QED
  BY <1>1, <1>2, KeepFollow

LEMMA KeepForgotten ==
  ASSUME Structure, Grown, NEW o \in Objects, obj[o].w # NoWorker,
         Keep([obj EXCEPT ![o].hb = "no", ![o].timer = FALSE])
  PROVE  ObjectsQuiet
<1> DEFINE r == [obj[o] EXCEPT !.hb = "no", !.timer = FALSE]
<1>1. [obj EXCEPT ![o].hb = "no", ![o].timer = FALSE] = [obj EXCEPT ![o] = r]
  BY ObjectFacts
<1>2. Follow(obj[o], r, row'.s, proc')
  BY ObjectFacts, FollowBoth
<1> HIDE DEF r
<1> QED
  BY <1>1, <1>2, KeepFollow

LEMMA KeepRefused ==
  ASSUME Structure, Grown, NEW o \in Objects, obj[o].w # NoWorker, obj[o].stop # "no",
         Keep([obj EXCEPT ![o].stop = "refused"])
  PROVE  ObjectsQuiet
<1> DEFINE r == [obj[o] EXCEPT !.stop = "refused"]
<1>1. [obj EXCEPT ![o].stop = "refused"] = [obj EXCEPT ![o] = r]
  BY ObjectFacts
<1>2. Follow(obj[o], r, row'.s, proc')
  BY ObjectFacts, FollowStop
<1> HIDE DEF r
<1> QED
  BY <1>1, <1>2, KeepFollow

LEMMA KeepUnstopped ==
  ASSUME Structure, Grown, NEW o \in Objects, obj[o].w # NoWorker,
         Keep([obj EXCEPT ![o].stop = "no"])
  PROVE  ObjectsQuiet
<1> DEFINE r == [obj[o] EXCEPT !.stop = "no"]
<1>1. [obj EXCEPT ![o].stop = "no"] = [obj EXCEPT ![o] = r]
  BY ObjectFacts
<1>2. Follow(obj[o], r, row'.s, proc')
  BY ObjectFacts, FollowStop
<1> HIDE DEF r
<1> QED
  BY <1>1, <1>2, KeepFollow

LEMMA KeepDone ==
  ASSUME Structure, Grown, NEW o \in Objects, obj[o].w # NoWorker, obj[o].stop # "no",
         Keep([obj EXCEPT ![o].stop = "done", ![o].pid = 0, ![o].prev = "none"])
  PROVE  ObjectsQuiet
<1> DEFINE r == [obj[o] EXCEPT !.stop = "done", !.pid = 0, !.prev = "none"]
<1>1. [obj EXCEPT ![o].stop = "done", ![o].pid = 0, ![o].prev = "none"] = [obj EXCEPT ![o] = r]
  BY ObjectFacts
<1>2. Follow(obj[o], r, row'.s, proc')
  BY ObjectFacts, FollowStop
<1> HIDE DEF r
<1> QED
  BY <1>1, <1>2, KeepFollow

LEMMA KeepRestored ==
  ASSUME Structure, Grown, NEW o \in Objects, obj[o].w # NoWorker, NEW timer \in BOOLEAN,
         Keep([obj EXCEPT ![o].stop = "no", ![o].st = obj[o].prev, ![o].final = "none", ![o].prev = "none", ![o].timer = timer])
  PROVE  ObjectsQuiet
<1> DEFINE r == [obj[o] EXCEPT !.stop = "no", !.st = obj[o].prev, !.final = "none", !.prev = "none", !.timer = timer]
<1>1. [obj EXCEPT ![o].stop = "no", ![o].st = obj[o].prev, ![o].final = "none", ![o].prev = "none", ![o].timer = timer] = [obj EXCEPT ![o] = r]
  BY ObjectFacts
<1>2. Follow(obj[o], r, row'.s, proc')
  BY ObjectFacts, FollowStop
<1> HIDE DEF r
<1> QED
  BY <1>1, <1>2, KeepFollow

LEMMA KeepStopping ==
  ASSUME Structure, Grown, NEW o \in Objects, obj[o].w # NoWorker, NEW final \in Ended,
         Keep(Stopping(o, final))
  PROVE  ObjectsQuiet
<1>1. CASE obj[o].stop # "no"
  BY <1>1, KeepNone DEF Stopping
<1>2. CASE obj[o].stop = "no"
  <2> DEFINE stop == IF obj[o].sure THEN "write" ELSE "call"
             r == [obj[o] EXCEPT !.timer = FALSE, !.prev = obj[o].st, !.final = final, !.st = final,
                                 !.stop = stop]
  <2>1. Stopping(o, final) =
          [obj EXCEPT ![o].timer = FALSE, ![o].prev = obj[o].st, ![o].final = final, ![o].st = final,
                      ![o].stop = stop]
    BY <1>2 DEF Stopping
  <2>2. stop \in {"write", "call"} /\ (stop = "write" => obj[o].sure)
    OBVIOUS
  <2> HIDE DEF stop
  <2>3. Stopping(o, final) = [obj EXCEPT ![o] = r]
    BY <2>1, ObjectFacts
  <2>4. Follow(obj[o], r, row'.s, proc')
    BY <2>2, ObjectFacts, FollowStopping
  <2> HIDE DEF r
  <2> QED
    BY <2>3, <2>4, KeepFollow
<1> QED
  BY <1>1, <1>2

-----------------------------------------------------------------------------
(* The starts.                                                              *)

LEMMA MemFacts ==
  ASSUME Structure, NEW w \in Workers
  PROVE  /\ mem \in [Workers -> 0..MaxObjects] /\ w # NoWorker
         /\ mem[w] # 0 => mem[w] \in Objects /\ obj[mem[w]].w = w
<1>1. mem \in [Workers -> 0..MaxObjects]
  BY TypeShape DEF Structure, ApiTypes
<1>2. mem[w] # 0 => mem[w] \in Objects
  BY <1>1, Bounds DEF Objects
<1> QED
  BY <1>1, <1>2, Bounds DEF Structure, MemGood

\* A recovery learns no pid, and comes no closer to saying that the session runs.
RecCalm(w) ==
  /\ rec'[w].pid # 0 => rec[w].pid # 0 /\ rec'[w].s = rec[w].s
  /\ rec'[w].at \in {"check", "adopted"} =>
       rec[w].at \in {"check", "adopted"} /\ rec'[w].s = rec[w].s
RecsCalm == RecsAfter /\ \A w \in Workers : RecCalm(w)

\* A step of a worker that asks for nothing and learns nothing.
Calm ==
  /\ RowStays(row', proc') /\ RowCalm(row') /\ ObjectsQuiet /\ MemAfter /\ Onward /\ RecsCalm
  /\ UNCHANGED <<call, sup, proc>> /\ outage' = outage /\ Counts'

LEMMA CalmStructure ==
  ASSUME Structure, Calm
  PROVE  Structure' /\ InTurn(row')
<1>1. Grown
  BY RowGrows DEF Calm, ProcsGrow
<1> QED
  BY <1>1, StepTogether, RestStays
     DEF Calm, Onward, ObjectsQuiet, RowStays, RecsCalm, CallsAfter, SupAfter, ProcsAfter

LEMMA CalmStep ==
  ASSUME Structure, RowStays(row', proc'), RowCalm(row'), UNCHANGED <<rec, call, sup, proc>>, ObjectsQuiet,
         UNCHANGED mem \/ (\E o : Dropped(o)), Onward, UNCHANGED world \/ Requested
  PROVE  Calm
<1>1. MemAfter
  BY MemQuiet DEF ObjectsQuiet, ObjectsAfter
<1>2. Counts' /\ outage' = outage
  BY Counted DEF world, Requested, Structure
<1>3. RecsCalm
  BY RowGrows, RestStays DEF RecsCalm, RecsAfter, RecCalm, ProcsGrow
<1> QED
  BY <1>1, <1>2, <1>3 DEF Calm

LEMMA SameRow ==
  ASSUME Structure, UNCHANGED <<row, rec, call, sup, proc>>, ObjectsQuiet,
         UNCHANGED mem \/ (\E o : Dropped(o)), Onward, UNCHANGED world \/ Requested
  PROVE  Calm
<1>1. RowCalm(row')
  BY DEF RowCalm
<1> QED
  BY <1>1, Still, CalmStep

LEMMA StartBegins ==
  ASSUME Structure, NEW w \in Workers, start[w].at = "idle", Goes(w, "begin")
  PROVE  Onward
<1> DEFINE r == [start[w] EXCEPT !.at = "begin"]
<1>0. start \in [Workers -> StartType] /\ start[w] \in StartType /\ start[w].o = 0 /\ start[w].pid = 0
  BY TypeShape DEF Structure, ApiTypes, StartsGood, StartGood
<1>1. start' = [start EXCEPT ![w] = r]
  BY <1>0 DEF Goes
<1>2. r \in StartType /\ r.at = "begin" /\ r.o = 0 /\ r.pid = 0
  BY <1>0 DEF StartType, StartPlaces
<1> HIDE DEF r
<1>3. Frees(w)
  BY <1>0, <1>1, <1>2 DEF Frees
<1>4. StartCalm(w)
  BY <1>0, <1>1, <1>2 DEF StartCalm, Stages
<1> QED
  BY <1>1, <1>2, <1>3, <1>4, StartOne

LEMMA StartAwaits ==
  ASSUME Structure, ObjectsAfter, NEW w \in Workers, NEW o \in Objects, obj[o].w = w,
         NEW r \in StartType, r.at = "wait", r.o = o, r.pid = 0, start' = [start EXCEPT ![w] = r]
  PROVE  Onward
<1>0. start \in [Workers -> StartType] /\ w # NoWorker /\ o # 0
  BY TypeShape, Bounds DEF Structure, ApiTypes, Objects
<1>3. start'[w] = r
  BY <1>0
<1>4. obj'[o].w = w
  BY <1>0, <1>3 DEF ObjectsAfter, Kept, Held
<1>5. Waits(w)
  BY <1>0, <1>3, <1>4 DEF Waits
<1>6. StartCalm(w)
  BY <1>3 DEF StartCalm, Stages
<1> QED
  BY <1>5, <1>6, StartOne

LEMMA WaitIs ==
  ASSUME NEW o \in Objects
  PROVE  /\ LET r == [Idle EXCEPT !.at = "wait", !.o = o] IN
              r \in StartType /\ r.at = "wait" /\ r.o = o /\ r.pid = 0
         /\ LET r == [Idle EXCEPT !.at = "wait", !.o = o, !.n = 1] IN
              r \in StartType /\ r.at = "wait" /\ r.o = o /\ r.pid = 0
<1>1. o \in 0..MaxObjects /\ 1 \in 0..2
  BY Bounds DEF Objects
<1>2. /\ [Idle EXCEPT !.at = "wait", !.o = o] \in StartType
      /\ [Idle EXCEPT !.at = "wait", !.o = o, !.n = 1] \in StartType
  BY <1>1, IdleIs DEF StartType, StartPlaces
<1> QED
  BY <1>2, IdleIs DEF StartType

LEMMA StartAskedCalm ==
  ASSUME Structure, NEW w \in Workers, StartAsked(w)
  PROVE  Calm
<1> DEFINE o == mem[w]
<1>0. /\ UNCHANGED <<row, rec, call, sup, proc>> /\ Requested /\ start[w].at = "idle"
      /\ Grown /\ (o # 0 => o \in Objects /\ obj[o].w = w) /\ w # NoWorker
  BY Still, MemFacts DEF StartAsked
<1>1. CASE o = 0 /\ Goes(w, "begin") /\ UNCHANGED <<mem, obj>>
  BY <1>0, <1>1, KeepNone, StartBegins, SameRow
<1>2. CASE /\ o # 0 /\ obj[o].st \in Active /\ ~Mine(o)
           /\ IF row.st = "stopped" THEN Goes(w, "begin") ELSE UNCHANGED start
           /\ Dropped(o) /\ Keep([obj EXCEPT ![o].timer = FALSE])
  <2>1. ObjectsQuiet
    BY <1>0, <1>2, KeepTimer
  <2>2. Onward
    BY <1>0, <1>2, StartBegins, StartSame
  <2> QED
    BY <1>0, <1>2, <2>1, <2>2, SameRow
<1>3. ASSUME NEW r \in StartType, r.at = "wait", r.o = o, r.pid = 0, o # 0,
             start' = [start EXCEPT ![w] = r], UNCHANGED mem, Keep(Stopping(o, "stopped"))
      PROVE  Calm
  <2>1. ObjectsQuiet
    BY <1>0, <1>3, KeepStopping DEF Ended
  <2>2. Onward
    BY <1>0, <1>3, <2>1, StartAwaits DEF ObjectsQuiet
  <2> QED
    BY <1>0, <1>3, <2>1, <2>2, SameRow
<1>4. CASE /\ o # 0
           /\ start' = [start EXCEPT ![w] = [Idle EXCEPT !.at = "wait", !.o = o, !.n = 1]]
           /\ UNCHANGED mem /\ Keep(Stopping(o, "stopped"))
  BY <1>0, <1>3, <1>4, WaitIs
<1>5. CASE /\ o # 0
           /\ start' = [start EXCEPT ![w] = [Idle EXCEPT !.at = "wait", !.o = o]]
           /\ UNCHANGED mem /\ Keep(Stopping(o, "stopped"))
  BY <1>0, <1>3, <1>5, WaitIs
<1> QED
  BY <1>1, <1>2, <1>4, <1>5 DEF StartAsked

RowQuiet == RowStays(row', proc') /\ RowCalm(row') /\ Grown

LEMMA RowSame ==
  ASSUME Structure, row' = row, proc' = proc
  PROVE  RowQuiet
<1>1. RowCalm(row')
  BY DEF RowCalm
<1> QED
  BY <1>1, Still DEF RowQuiet

\* The writes of the owner that say nothing new.
LEMMA RowOwned ==
  ASSUME Structure, proc' = proc, row.worker # NoWorker,
         NEW final \in Ended, final = "stopped" => SureOf(row.s),
         \/ row' = [row EXCEPT !.lease = TRUE] \/ row' = Freed(row)
         \/ row' = [Freed(row) EXCEPT !.st = "failed"]
         \/ row' = [Freed(row) EXCEPT !.st = final, !.pid = 0]
  PROVE  RowQuiet
<1>0. row \in RowType /\ ProcsGrow /\ 0 \in 0..MaxProcs /\ Of(0, row.s, proc')
  BY TypeShape, Bounds DEF Structure, ProcsGrow, Of
<1>1. RowStays(row', proc') /\ row.st \in Active
  BY <1>0, RowWrites
<1>2. Grown
  BY <1>0, <1>1, RowGrows
<1>3. CASE row' = [row EXCEPT !.lease = TRUE]
  <2>1. row'.s = row.s /\ row'.st = row.st /\ row'.pid = row.pid
    BY <1>0, <1>3 DEF RowType
  <2> QED
    BY <1>1, <1>2, <2>1 DEF RowQuiet, RowCalm, Active, Ended
<1>4. CASE row' = Freed(row)
  <2>1. row'.s = row.s /\ row'.st = row.st /\ row'.pid = row.pid
    BY <1>0, <1>4 DEF RowType, Freed
  <2> QED
    BY <1>1, <1>2, <2>1 DEF RowQuiet, RowCalm, Active, Ended
<1>5. CASE row' = [Freed(row) EXCEPT !.st = "failed"]
  <2>1. row'.s = row.s /\ row'.st = "failed" /\ row'.pid = row.pid
    BY <1>0, <1>5 DEF RowType, Freed
  <2> QED
    BY <1>1, <1>2, <2>1 DEF RowQuiet, RowCalm, Active, Ended
<1>6. CASE row' = [Freed(row) EXCEPT !.st = final, !.pid = 0]
  <2>1. row'.s = row.s /\ row'.st = final /\ row'.pid = 0
    BY <1>0, <1>6 DEF RowType, Freed
  <2> QED
    BY <1>1, <1>2, <2>1 DEF RowQuiet, RowCalm, Active, Ended
<1> QED
  BY <1>1, <1>2, <1>3, <1>4, <1>5, <1>6 DEF RowQuiet

LEMMA QuietRow ==
  ASSUME Structure, RowQuiet, UNCHANGED <<rec, call, sup, proc>>, ObjectsQuiet,
         UNCHANGED mem \/ (\E o : Dropped(o)), Onward, UNCHANGED world
  PROVE  Calm
BY CalmStep DEF RowQuiet

LEMMA StartWaitedCalm ==
  ASSUME Structure, NEW w \in Workers, StartWaited(w)
  PROVE  Calm
<1>0. /\ UNCHANGED <<row, rec, call, sup, proc, world>> /\ Grown /\ UNCHANGED mem /\ Keep(obj)
      /\ \/ Leaves(w) \/ start' = [start EXCEPT ![w] = [Idle EXCEPT !.at = "begin"]]
  BY Still DEF StartWaited
<1>1. ObjectsQuiet
  BY <1>0, KeepNone
<1>2. ASSUME start' = [start EXCEPT ![w] = [Idle EXCEPT !.at = "begin"]]
      PROVE  Onward
  <2> DEFINE r == [Idle EXCEPT !.at = "begin"]
  <2>1. r \in StartType /\ r.at = "begin" /\ r.o = 0 /\ r.pid = 0
    BY IdleIs DEF StartType, StartPlaces
  <2>2. start' = [start EXCEPT ![w] = r]
    BY <1>2
  <2> HIDE DEF r
  <2>3. start'[w] = r
    BY <2>2, StartFacts
  <2>4. Frees(w) /\ StartCalm(w)
    BY <2>1, <2>3 DEF Frees, StartCalm, Stages
  <2> QED
    BY <2>1, <2>2, <2>4, StartOne
<1>3. Onward
  BY <1>0, <1>2, StartLeaves
<1> QED
  BY <1>0, <1>1, <1>3, SameRow

\* A start that ends and forgets its object.
LEMMA GivesUpCalm ==
  ASSUME Structure, NEW w \in Workers, start[w].o # 0, RowQuiet, GivesUp(w),
         UNCHANGED <<rec, call, sup, proc, world>>
  PROVE  Calm
<1>0. start[w].o \in Objects /\ obj[start[w].o].w # NoWorker /\ Grown
  BY StartFacts DEF RowQuiet
<1>1. ObjectsQuiet
  BY <1>0, KeepTimer DEF GivesUp
<1>2. Onward
  BY StartLeaves DEF GivesUp
<1> QED
  BY <1>1, <1>2, QuietRow DEF GivesUp

LEMMA StartGoesCalm ==
  ASSUME Structure, NEW w \in Workers, Goes(w, "ready"), start[w].at = "renew"
  PROVE  Onward
<1>1. "ready" \in Stages /\ start[w].at \in Stages /\ "ready" # "persist"
  BY DEF Stages
<1>2. start'[w].at = "ready"
  BY StartFacts DEF Goes, StartType
<1>3. StartCalm(w)
  BY <1>2 DEF StartCalm, Blind
<1> QED
  BY <1>1, <1>3, StartGoes

LEMMA StartRenewsCalm ==
  ASSUME Structure, NEW w \in Workers, StartRenews(w)
  PROVE  Calm
<1> DEFINE o == start[w].o
<1>0. /\ UNCHANGED <<rec, call, sup, proc, world>> /\ o # 0 /\ o \in Objects /\ obj[o].w = w
      /\ w # NoWorker /\ start[w].at = "renew"
  BY StartFacts DEF StartRenews, Stages
<1>1. CASE /\ mem[w] = o /\ (obj[o].st = "starting" => Owns(w, obj[o].s) /\ row.st = "starting")
           /\ row' = IF obj[o].st = "starting" THEN [row EXCEPT !.lease = TRUE] ELSE row
           /\ Goes(w, "ready") /\ UNCHANGED mem /\ Keep([obj EXCEPT ![o].timer = TRUE])
  <2>1. RowQuiet
    <3>1. CASE obj[o].st = "starting"
      BY <1>0, <1>1, <3>1, RowOwned DEF Owns, Ended
    <3>2. CASE obj[o].st # "starting"
      BY <1>0, <1>1, <3>2, RowSame
    <3> QED
      BY <3>1, <3>2
  <2>2. ObjectsQuiet
    BY <1>0, <1>1, <2>1, KeepTimer DEF RowQuiet
  <2>3. Onward
    BY <1>0, <1>1, StartGoesCalm
  <2> QED
    BY <1>0, <1>1, <2>1, <2>2, <2>3, QuietRow
<1>2. CASE GivesUp(w) /\ UNCHANGED row
  BY <1>0, <1>2, RowSame, GivesUpCalm
<1> QED
  BY <1>1, <1>2 DEF StartRenews

LEMMA FailStartingCalm ==
  ASSUME Structure, NEW w \in Workers, start[w].o # 0, FailStarting(w),
         UNCHANGED <<rec, call, sup, proc, world>>
  PROVE  Calm
<1> DEFINE o == start[w].o
<1>0. o \in Objects /\ obj[o].w # NoWorker /\ w # NoWorker
  BY StartFacts
<1>1. RowQuiet
  <2>1. CASE Owns(w, obj[o].s) /\ row.st = "starting"
    <3>1. row.worker # NoWorker /\ "failed" \in Ended /\ row' = [Freed(row) EXCEPT !.st = "failed", !.pid = 0]
      BY <1>0, <2>1 DEF FailStarting, Owns, Ended
    <3> QED
      BY <3>1, RowOwned
  <2>2. CASE ~(Owns(w, obj[o].s) /\ row.st = "starting")
    BY <2>2, RowSame DEF FailStarting
  <2> QED
    BY <2>1, <2>2
<1>2. ObjectsQuiet
  BY <1>0, <1>1, KeepFailed DEF FailStarting, RowQuiet
<1>3. Onward
  BY StartLeaves DEF FailStarting
<1> QED
  BY <1>1, <1>2, <1>3, QuietRow DEF FailStarting

\* A start sends its request, again if need be.
Asks(w) ==
  /\ start[w].at = "ready" \/ (start[w].at = "call" /\ call[Session(w)].at = "none")
  /\ Sent(Session(w)) /\ \E n \in {1, 2} : start' = [start EXCEPT ![w].at = "call", ![w].n = n]
  /\ UNCHANGED <<row, mem, obj, rec, sup, proc, world>>

LEMMA StartCallsCases ==
  ASSUME Structure, NEW w \in Workers, StartCalls(w)
  PROVE  Calm \/ Asks(w)
<1>0. start[w].at = "ready" /\ start[w].o # 0 /\ UNCHANGED <<rec, sup, proc, world>>
  BY StartFacts DEF StartCalls, Stages
<1>1. CASE /\ Sent(obj[start[w].o].s) /\ start' = [start EXCEPT ![w].at = "call", ![w].n = 1]
           /\ UNCHANGED <<row, mem, obj>>
  BY <1>0, <1>1 DEF Asks, Session
<1>2. CASE GivesUp(w) /\ UNCHANGED <<row, call>>
  BY <1>0, <1>2, RowSame, GivesUpCalm
<1>3. CASE FailStarting(w) /\ UNCHANGED call
  BY <1>0, <1>3, FailStartingCalm
<1> QED
  BY <1>1, <1>2, <1>3 DEF StartCalls

LEMMA StartCallFailsCases ==
  ASSUME Structure, NEW w \in Workers, StartCallFails(w)
  PROVE  Calm \/ Asks(w)
<1>0. /\ start[w].at = "call" /\ call[Session(w)].at = "none"
      /\ UNCHANGED <<row, mem, obj, rec, sup, proc, world>>
  BY DEF StartCallFails, Session
<1>1. CASE Sent(Session(w)) /\ start' = [start EXCEPT ![w].n = 2]
  <2>1. [start EXCEPT ![w].n = 2] = [start EXCEPT ![w].at = "call", ![w].n = 2]
    BY <1>0, StartFacts DEF StartType
  <2> QED
    BY <1>0, <1>1, <2>1 DEF Asks
<1>2. CASE Goes(w, "look") /\ UNCHANGED call
  <2>1. "look" \in Stages /\ start[w].at \in Stages /\ "look" # "persist"
    BY <1>0 DEF Stages
  <2>2. start'[w].at = "look"
    BY <1>2, StartFacts DEF Goes, StartType
  <2>3. StartCalm(w)
    BY <1>0, <2>2 DEF StartCalm, Blind
  <2>4. Onward
    BY <1>2, <2>1, <2>3, StartGoes
  <2> QED
    BY <1>0, <1>2, <2>4, Still, KeepNone, SameRow
<1> QED
  BY <1>0, <1>1, <1>2 DEF StartCallFails, Session

\* A start learns from the supervisor that its process runs.
Finds(w) ==
  LET o == start[w].o IN
  /\ start[w].at = "look" /\ Observed(obj[o].s) = "running"
  /\ start' = [start EXCEPT ![w].at = "record", ![w].pid = sup.pid]
  /\ Keep([obj EXCEPT ![o].pid = sup.pid])
  /\ UNCHANGED <<row, mem, rec, call, sup, proc, world>>

LEMMA StartObservesCases ==
  ASSUME Structure, NEW w \in Workers, StartObserves(w)
  PROVE  Calm \/ Finds(w)
<1> DEFINE o == start[w].o
<1>0. /\ start[w].at = "look" /\ o \in Objects /\ obj[o].w # NoWorker
      /\ UNCHANGED <<row, rec, call, sup, proc, world>> /\ Grown
  BY StartFacts, Still DEF StartObserves, Stages
<1>1. CASE /\ Observed(obj[o].s) = "running"
           /\ start' = [start EXCEPT ![w].at = "record", ![w].pid = sup.pid]
           /\ UNCHANGED mem /\ Keep([obj EXCEPT ![o].pid = sup.pid])
  BY <1>0, <1>1 DEF Finds
<1>2. CASE Goes(w, "fail") /\ UNCHANGED <<mem, obj>>
  <2>1. "fail" \in Stages /\ start[w].at \in Stages /\ "fail" # "persist"
    BY <1>0 DEF Stages
  <2>2. start'[w].at = "fail"
    BY <1>2, StartFacts DEF Goes, StartType
  <2>3. StartCalm(w)
    BY <1>0, <2>2 DEF StartCalm, Blind
  <2>4. Onward
    BY <1>2, <2>1, <2>3, StartGoes
  <2> QED
    BY <1>0, <1>2, <2>4, KeepNone, SameRow
<1>3. CASE /\ Leaves(w) /\ UNCHANGED mem
           /\ Keep([obj EXCEPT ![o].timer = @ /\ Owns(w, obj[o].s)])
  <2>1. obj[o].timer \in BOOLEAN
    BY <1>0, ObjectFacts DEF ObjectType
  <2>2. \E timer \in BOOLEAN : Keep([obj EXCEPT ![o].timer = timer])
    BY <1>3, <2>1
  <2>3. ObjectsQuiet
    BY <1>0, <2>2, KeepTimer
  <2> QED
    BY <1>0, <1>3, <2>3, StartLeaves, SameRow
<1> QED
  BY <1>1, <1>2, <1>3 DEF StartObserves

LEMMA StartFailsCalm ==
  ASSUME Structure, NEW w \in Workers, StartFails(w)
  PROVE  Calm
BY StartFacts, FailStartingCalm DEF StartFails, Stages

\* A start records the pid it got.
Records(w) ==
  /\ start[w].at = "record" /\ Owns(w, Session(w)) /\ row.st = "starting"
  /\ row' = [row EXCEPT !.pid = start[w].pid] /\ Goes(w, "confirm")
  /\ UNCHANGED <<mem, obj, rec, call, sup, proc, world>>

LEMMA StartRecordsCases ==
  ASSUME Structure, NEW w \in Workers, StartRecords(w)
  PROVE  Calm \/ Records(w)
<1>0. start[w].o # 0 /\ UNCHANGED <<rec, call, sup, proc, world>>
  BY StartFacts DEF StartRecords, Stages
<1>1. CASE GivesUp(w) /\ UNCHANGED row
  BY <1>0, <1>1, RowSame, GivesUpCalm
<1> QED
  BY <1>0, <1>1 DEF StartRecords, Records, Session

LEMMA StartConfirmsCalm ==
  ASSUME Structure, NEW w \in Workers, StartConfirms(w)
  PROVE  Calm
<1> DEFINE o == start[w].o
<1>0. /\ start[w].at = "confirm" /\ o \in Objects /\ obj[o].w # NoWorker
      /\ UNCHANGED <<row, mem, rec, call, sup, proc, world>> /\ Grown
  BY StartFacts, Still DEF StartConfirms, Stages
<1>1. CASE Up(start[w].pid)
  <2>1. Goes(w, "persist") /\ Keep([obj EXCEPT ![o].st = "running"]) /\ start[w].pid # 0
    BY <1>1 DEF StartConfirms, Up
  <2>2. "persist" \in Stages /\ start[w].at \in Stages
    BY <1>0 DEF Stages
  <2>3. start'[w].at = "persist"
    BY <2>1, StartFacts DEF Goes, StartType
  <2>4. StartCalm(w)
    BY <1>0, <2>3 DEF StartCalm, Blind
  <2>5. Onward
    BY <2>1, <2>2, <2>4, StartGoes
  <2>6. ObjectsQuiet
    BY <1>0, <2>1, KeepStatus DEF Active
  <2> QED
    BY <1>0, <2>5, <2>6, SameRow
<1>2. CASE ~Up(start[w].pid)
  <2>1. Leaves(w) /\ Keep(Stopping(o, "failed"))
    BY <1>2 DEF StartConfirms
  <2>2. ObjectsQuiet
    BY <1>0, <2>1, KeepStopping DEF Ended
  <2> QED
    BY <1>0, <2>1, <2>2, StartLeaves, SameRow
<1> QED
  BY <1>1, <1>2

\* The row is said to be running.
Persists(w) ==
  /\ start[w].at = "persist" /\ Owns(w, Session(w)) /\ row' = [row EXCEPT !.st = "running"]
  /\ ObjectsQuiet /\ Leaves(w) /\ UNCHANGED <<mem, rec, call, sup, proc, world>>

LEMMA StartPersistsCases ==
  ASSUME Structure, NEW w \in Workers, StartPersists(w)
  PROVE  Calm \/ Persists(w)
<1> DEFINE o == start[w].o
<1>0. /\ start[w].at = "persist" /\ o \in Objects /\ obj[o].w # NoWorker /\ w # NoWorker /\ Leaves(w)
      /\ UNCHANGED <<mem, rec, call, sup, proc, world>>
  BY StartFacts DEF StartPersists, Stages
<1>1. CASE /\ Owns(w, obj[o].s) /\ row' = [row EXCEPT !.st = "running"]
           /\ Keep([obj EXCEPT ![o].st = "running"])
  <2>1. ProcsGrow /\ row.worker # NoWorker /\ 0 \in 0..MaxProcs /\ Of(0, row.s, proc') /\ "failed" \in Ended
    BY <1>0, <1>1, Bounds DEF ProcsGrow, Owns, Of, Ended
  <2>2. Grown
    BY <1>1, <2>1, RowWrites, RowGrows
  <2>3. ObjectsQuiet
    BY <1>0, <1>1, <2>2, KeepStatus DEF Active
  <2> QED
    BY <1>0, <1>1, <2>3 DEF Persists, Session
<1>2. CASE UNCHANGED row /\ Keep([obj EXCEPT ![o].timer = FALSE])
  <2>1. RowQuiet
    BY <1>0, <1>2, RowSame
  <2>2. ObjectsQuiet
    BY <1>0, <1>2, <2>1, KeepTimer DEF RowQuiet
  <2> QED
    BY <1>0, <1>2, <2>1, <2>2, StartLeaves, QuietRow
<1> QED
  BY <1>1, <1>2 DEF StartPersists
-----------------------------------------------------------------------------
(* Stops and heartbeats.                                                    *)

LEMMA StopAskedCalm ==
  ASSUME Structure, NEW w \in Workers, StopAsked(w)
  PROVE  Calm
<1> DEFINE o == mem[w]
<1>0. /\ Requested /\ o \in Objects /\ obj[o].w # NoWorker /\ Grown
      /\ UNCHANGED <<row, start, rec, call, sup, proc>>
  BY MemFacts, Still DEF StopAsked
<1>1. CASE Dropped(o) /\ Keep([obj EXCEPT ![o].timer = FALSE])
  BY <1>0, <1>1, KeepTimer, StartSame, SameRow
<1>2. CASE UNCHANGED mem /\ Keep(Stopping(o, "stopped"))
  <2>1. ObjectsQuiet
    BY <1>0, <1>2, KeepStopping DEF Ended
  <2> QED
    BY <1>0, <1>2, <2>1, StartSame, SameRow
<1> QED
  BY <1>1, <1>2 DEF StopAsked

\* The supervisor is asked to stop the process it knows.
LEMMA KeepKilling ==
  ASSUME Structure, Grown, NEW o \in Objects, obj[o].stop = "call", sup.s = obj[o].s, sup.pid # 0,
         UNCHANGED <<row, proc>>, Keep([obj EXCEPT ![o].stop = "killing", ![o].kill = sup.pid])
  PROVE  ObjectsQuiet
<1> DEFINE r == [obj[o] EXCEPT !.stop = "killing", !.kill = sup.pid]
<1>0. /\ ObjectGood(obj[o], row.s, proc) /\ obj[o] \in ObjectType /\ obj \in [Objects -> ObjectType]
      /\ obj[o].w # NoWorker
  BY ObjectFacts
<1>1. [obj EXCEPT ![o].stop = "killing", ![o].kill = sup.pid] = [obj EXCEPT ![o] = r]
  BY <1>0
<1>2. sup.pid \in 0..MaxProcs /\ Of(sup.pid, obj[o].s, proc)
  BY TypeShape DEF Structure, SupGood, SupType
<1>3. r \in ObjectType
  BY <1>0, <1>2 DEF ObjectType
<1>4. /\ r.w = obj[o].w /\ r.s = obj[o].s /\ r.pid = obj[o].pid /\ r.seen = obj[o].seen
      /\ r.kill = sup.pid /\ (r.sure => obj[o].sure) /\ (obj[o].sure => r.sure)
      /\ r.stop = "killing" /\ r.final = obj[o].final /\ r.hb = obj[o].hb
  BY <1>0 DEF ObjectType
<1> HIDE DEF r
<1>5. ObjectGood(r, row'.s, proc')
  BY <1>0, <1>2, <1>3, <1>4 DEF ObjectGood
<1>6. Follow(obj[o], r, row'.s, proc')
  BY <1>0, <1>4, <1>5 DEF Follow
<1> QED
  BY <1>1, <1>6, KeepFollow

\* The supervisor says that the session has no process any more.
Confirms(o) ==
  /\ obj[o].stop = "call" /\ sup.s = obj[o].s /\ sup.pid = 0 /\ sup' = NoEntry
  /\ Keep([obj EXCEPT ![o].stop = "write", ![o].sure = TRUE])
  /\ UNCHANGED <<row, mem, start, rec, call, proc, world>>

LEMMA StopCallsCases ==
  ASSUME Structure, NEW o \in Objects, StopCalls(o)
  PROVE  Calm \/ Confirms(o)
<1>0. /\ obj[o].stop = "call" /\ obj[o].w # NoWorker /\ Grown
      /\ UNCHANGED <<row, mem, start, rec, call, proc, world>>
  BY ObjectFacts, Still DEF StopCalls
<1>1. CASE Keep([obj EXCEPT ![o].stop = "refused"]) /\ UNCHANGED sup
  <2>1. ObjectsQuiet
    BY <1>0, <1>1, KeepRefused
  <2> QED
    BY <1>0, <1>1, <2>1, StartSame, SameRow
<1>2. CASE /\ sup.s = obj[o].s /\ sup.pid # 0 /\ UNCHANGED sup
           /\ Keep([obj EXCEPT ![o].stop = "killing", ![o].kill = sup.pid])
  <2>1. ObjectsQuiet
    BY <1>0, <1>2, KeepKilling
  <2> QED
    BY <1>0, <1>2, <2>1, StartSame, SameRow
<1> QED
  BY <1>0, <1>1, <1>2 DEF StopCalls, Confirms

LEMMA Disappoints ==
  ASSUME Structure, NEW o, Disappointed(o)
  PROVE  Onward
<1>0. start \in [Workers -> StartType]
  BY TypeShape DEF Structure, ApiTypes
<1>1. ASSUME NEW w \in Workers
      PROVE  start'[w] \in {Idle, start[w]}
  BY DEF Disappointed
<1>2. start' \in [Workers -> StartType]
  BY <1>0, <1>1, IdleIs DEF Disappointed
<1>3. ASSUME NEW w \in Workers
      PROVE  Frees(w) \/ Waits(w) \/ Goes1(w)
  <2>1. StartGood(w)
    BY DEF Structure, StartsGood
  <2> QED
    BY <1>1, <2>1, IdleIs, StartFacts DEF StartGood, Frees, Waits, Goes1
<1>4. ASSUME NEW w \in Workers
      PROVE  StartCalm(w)
  BY <1>1, IdleIs DEF StartCalm, Blind, Stages
<1> QED
  BY <1>2, <1>3, <1>4 DEF StartsStep, StartsCalm, Onward

LEMMA StopFailsCalm ==
  ASSUME Structure, NEW o \in Objects, StopFails(o)
  PROVE  Calm
<1> DEFINE keeps == Mine(o) /\ obj[o].prev \in Active
<1>0. /\ obj[o].stop = "refused" /\ obj[o].w # NoWorker /\ Grown
      /\ UNCHANGED <<row, rec, call, sup, proc, world>> /\ Disappointed(o)
  BY ObjectFacts, Still DEF StopFails
<1>1. UNCHANGED mem \/ Dropped(o)
  BY DEF StopFails
<1>2. \E timer \in BOOLEAN :
        Keep([obj EXCEPT ![o].stop = "no", ![o].st = obj[o].prev, ![o].final = "none",
                         ![o].prev = "none", ![o].timer = timer])
  <2>1. keeps \in BOOLEAN
    OBVIOUS
  <2> QED
    BY <2>1 DEF StopFails
<1>3. ObjectsQuiet
  BY <1>0, <1>2, KeepRestored
<1> QED
  BY <1>0, <1>1, <1>3, Disappoints, SameRow

LEMMA StopWritesCalm ==
  ASSUME Structure, NEW o \in Objects, StopWrites(o)
  PROVE  Calm
<1> DEFINE owned == Owns(obj[o].w, obj[o].s)
           same == row.s = obj[o].s /\ row.st = obj[o].final /\ row.worker = NoWorker
<1>0. /\ obj[o].stop = "write" /\ obj[o].w # NoWorker /\ obj[o].final \in Ended /\ obj[o].sure
      /\ UNCHANGED <<mem, rec, call, sup, proc, world>>
  BY ObjectFacts DEF StopWrites, ObjectGood
<1>1. RowQuiet
  <2>1. CASE owned
    <3>1. SureOf(row.s) /\ row.worker # NoWorker
      BY <1>0, <2>1 DEF SureOf, Owns
    <3>2. row' = [Freed(row) EXCEPT !.st = obj[o].final, !.pid = 0]
      BY <2>1 DEF StopWrites
    <3> QED
      BY <1>0, <3>1, <3>2, RowOwned
  <2>2. CASE ~owned
    BY <1>0, <2>2, RowSame DEF StopWrites
  <2> QED
    BY <2>1, <2>2
<1>2. CASE UNCHANGED start /\ Keep([obj EXCEPT ![o].stop = "done", ![o].pid = 0, ![o].prev = "none"])
  <2>1. ObjectsQuiet
    BY <1>0, <1>1, <1>2, KeepDone DEF RowQuiet
  <2> QED
    BY <1>0, <1>1, <1>2, <2>1, StartSame, QuietRow
<1>3. CASE Disappointed(o) /\ Keep([obj EXCEPT ![o].stop = "no"])
  <2>1. ObjectsQuiet
    BY <1>0, <1>1, <1>3, KeepUnstopped DEF RowQuiet
  <2> QED
    BY <1>0, <1>1, <1>3, <2>1, Disappoints, QuietRow
<1> QED
  BY <1>2, <1>3 DEF StopWrites

\* A heartbeat that ends, with what it writes.
LEMMA ForgetsCalm ==
  ASSUME Structure, NEW o \in Objects, obj[o].w # NoWorker, RowQuiet, Forgets(o),
         UNCHANGED <<start, rec, call, sup, proc, world>>
  PROVE  Calm
<1>1. ObjectsQuiet
  BY KeepForgotten DEF Forgets, RowQuiet
<1> QED
  BY <1>1, StartSame, QuietRow DEF Forgets

LEMMA ReleaseQuiet ==
  ASSUME Structure, NEW w, NEW s, w # NoWorker, Release(w, s), proc' = proc
  PROVE  RowQuiet
<1>1. CASE Owns(w, s)
  <2>1. row.worker # NoWorker /\ row' = Freed(row) /\ "failed" \in Ended /\ "failed" # "stopped"
    BY <1>1 DEF Owns, Release, Ended
  <2> QED
    BY <2>1, RowOwned
<1>2. CASE ~Owns(w, s)
  BY <1>2, RowSame DEF Release
<1> QED
  BY <1>1, <1>2

\* A heartbeat verifies the listener, and the supervisor adopts it.
Verifies(o) ==
  LET s == obj[o].s  p == obj[o].pid IN
  /\ obj[o].w # NoWorker /\ Adoptable(s, p) /\ Adopt(s, p) /\ ObjectsQuiet
  /\ UNCHANGED <<row, mem, start, rec, call, proc, world>>

LEMMA HeartbeatFiresCases ==
  ASSUME Structure, NEW o \in Objects, HeartbeatFires(o)
  PROVE  Calm \/ Verifies(o)
<1>0. /\ obj[o].w # NoWorker /\ Grown /\ UNCHANGED <<row, mem, start, rec, call, proc, world>>
  BY ObjectFacts, Still DEF HeartbeatFires, Beats
<1>1. ASSUME NEW hb \in {"renew", "adopted", "lost"}, Keep([obj EXCEPT ![o].hb = hb])
      PROVE  ObjectsQuiet
  BY <1>0, <1>1, KeepBeat
<1>2. CASE Keep([obj EXCEPT ![o].hb = "renew"]) /\ UNCHANGED sup
  BY <1>0, <1>1, <1>2, StartSame, SameRow
<1>3. CASE Adoptable(obj[o].s, obj[o].pid) /\ Adopt(obj[o].s, obj[o].pid) /\ Keep([obj EXCEPT ![o].hb = "adopted"])
  BY <1>0, <1>1, <1>3 DEF Verifies
<1>4. CASE Keep([obj EXCEPT ![o].hb = "lost"]) /\ UNCHANGED sup
  BY <1>0, <1>1, <1>4, StartSame, SameRow
<1>5. CASE Keep([obj EXCEPT ![o].timer = FALSE]) /\ UNCHANGED sup
  BY <1>0, <1>5, KeepTimer, StartSame, SameRow
<1> QED
  BY <1>2, <1>3, <1>4, <1>5 DEF HeartbeatFires

LEMMA HeartbeatRenewsCalm ==
  ASSUME Structure, NEW o \in Objects, HeartbeatRenews(o)
  PROVE  Calm
<1>0. /\ obj[o].w # NoWorker /\ UNCHANGED <<start, rec, call, sup, proc, world>>
  BY ObjectFacts DEF HeartbeatRenews
<1>1. CASE /\ Owns(obj[o].w, obj[o].s) /\ row' = [row EXCEPT !.lease = TRUE] /\ UNCHANGED mem
           /\ Keep([obj EXCEPT ![o].hb = IF Unresolved(o) /\ mem[obj[o].w] = o THEN "observe" ELSE "no"])
  <2>1. row.worker # NoWorker /\ "failed" \in Ended /\ "failed" # "stopped"
    BY <1>0, <1>1 DEF Owns, Ended
  <2>2. RowQuiet
    BY <1>0, <1>1, <2>1, RowOwned
  <2>3. \E hb \in {"observe", "no"} : Keep([obj EXCEPT ![o].hb = hb])
    BY <1>1
  <2>4. ObjectsQuiet
    BY <1>0, <2>2, <2>3, KeepBeat DEF RowQuiet
  <2> QED
    BY <1>0, <1>1, <2>2, <2>4, StartSame, QuietRow
<1>2. CASE Forgets(o) /\ UNCHANGED row
  BY <1>0, <1>2, RowSame, ForgetsCalm
<1> QED
  BY <1>1, <1>2 DEF HeartbeatRenews

\* A heartbeat learns from the supervisor that the process runs.
Sees(o) ==
  /\ obj[o].w # NoWorker /\ Observed(obj[o].s) = "running"
  /\ Keep([obj EXCEPT ![o].hb = "present", ![o].seen = sup.pid])
  /\ UNCHANGED <<row, mem, start, rec, call, sup, proc, world>>

LEMMA HeartbeatObservesCases ==
  ASSUME Structure, NEW o \in Objects, HeartbeatObserves(o)
  PROVE  Calm \/ Sees(o)
<1>0. /\ obj[o].w # NoWorker /\ Grown /\ UNCHANGED <<row, mem, start, rec, call, sup, proc, world>>
  BY ObjectFacts, Still DEF HeartbeatObserves
<1>1. CASE Observed(obj[o].s) = "running" /\ Keep([obj EXCEPT ![o].hb = "present", ![o].seen = sup.pid])
  BY <1>0, <1>1 DEF Sees
<1>2. ASSUME NEW hb \in {"absent", "no"}, Keep([obj EXCEPT ![o].hb = hb])
      PROVE  Calm
  <2>1. ObjectsQuiet
    BY <1>0, <1>2, KeepBeat
  <2> QED
    BY <1>0, <2>1, StartSame, SameRow
<1> QED
  BY <1>1, <1>2 DEF HeartbeatObserves

\* A heartbeat settles the start it has seen.
Settles(o) ==
  /\ obj[o].hb = "present" /\ Owns(obj[o].w, obj[o].s) /\ row.st = "starting"
  /\ row' = [row EXCEPT !.st = "running", !.pid = obj[o].seen]
  /\ Keep([obj EXCEPT ![o].hb = "no", ![o].st = "running", ![o].pid = obj[o].seen, ![o].seen = 0])
  /\ UNCHANGED <<mem, start, rec, call, sup, proc, world>>

LEMMA HeartbeatSettlesCases ==
  ASSUME Structure, NEW o \in Objects, HeartbeatSettles(o)
  PROVE  Calm \/ Settles(o)
<1> DEFINE owned == Owns(obj[o].w, obj[o].s) /\ row.st = "starting"
<1>0. /\ obj[o].w # NoWorker /\ UNCHANGED <<start, rec, call, sup, proc, world>>
  BY ObjectFacts DEF HeartbeatSettles
<1>1. CASE /\ obj[o].hb = "present" /\ owned
           /\ row' = [row EXCEPT !.st = "running", !.pid = obj[o].seen] /\ UNCHANGED mem
           /\ Keep([obj EXCEPT ![o].hb = "no", ![o].st = "running", ![o].pid = obj[o].seen, ![o].seen = 0])
  BY <1>0, <1>1 DEF Settles
<1>2. CASE Forgets(o) /\ UNCHANGED row
  BY <1>0, <1>2, RowSame, ForgetsCalm
<1>3. CASE Forgets(o) /\ row' = IF owned THEN [Freed(row) EXCEPT !.st = "failed"] ELSE row
  <2>1. CASE owned
    <3>1. row.worker # NoWorker /\ "failed" \in Ended /\ "failed" # "stopped"
      BY <1>0, <2>1 DEF Owns, Ended
    <3>2. RowQuiet
      BY <1>0, <1>3, <2>1, <3>1, RowOwned
    <3> QED
      BY <1>0, <1>3, <3>2, ForgetsCalm
  <2>2. CASE ~owned
    BY <1>0, <1>3, <2>2, RowSame, ForgetsCalm
  <2> QED
    BY <2>1, <2>2
<1> QED
  BY <1>1, <1>2, <1>3 DEF HeartbeatSettles

LEMMA HeartbeatEndsCalm ==
  ASSUME Structure, NEW o \in Objects, HeartbeatEnds(o)
  PROVE  Calm
<1>0. /\ obj[o].w # NoWorker /\ UNCHANGED <<start, rec, call, sup, proc, world>>
  BY ObjectFacts DEF HeartbeatEnds
<1>1. CASE Release(obj[o].w, obj[o].s) /\ Forgets(o)
  BY <1>0, <1>1, ReleaseQuiet, ForgetsCalm
<1>2. CASE UNCHANGED <<row, mem>> /\ Keep([obj EXCEPT ![o].hb = "no"])
  <2>1. ObjectsQuiet
    BY <1>0, <1>2, Still, KeepBeat
  <2> QED
    BY <1>0, <1>2, <2>1, StartSame, SameRow
<1>3. CASE /\ Owns(obj[o].w, obj[o].s) /\ row' = [row EXCEPT !.lease = TRUE] /\ UNCHANGED mem
           /\ Keep([obj EXCEPT ![o].hb = "no"])
  <2>1. row.worker # NoWorker /\ "failed" \in Ended /\ "failed" # "stopped"
    BY <1>0, <1>3 DEF Owns, Ended
  <2>2. RowQuiet
    BY <1>0, <1>3, <2>1, RowOwned
  <2>3. ObjectsQuiet
    BY <1>0, <1>3, <2>2, KeepBeat DEF RowQuiet
  <2> QED
    BY <1>0, <1>3, <2>2, <2>3, StartSame, QuietRow
<1>4. CASE Forgets(o) /\ UNCHANGED row
  BY <1>0, <1>4, RowSame, ForgetsCalm
<1> QED
  BY <1>1, <1>2, <1>3, <1>4 DEF HeartbeatEnds
-----------------------------------------------------------------------------
(* Recoveries.                                                              *)

LEMMA RecFacts ==
  ASSUME Structure, NEW w \in Workers
  PROVE  /\ rec \in [Workers -> RecType] /\ rec[w] \in RecType /\ RecGood(rec[w], row.s, proc)
         /\ rec[w].s \in 0..MaxSessions /\ rec[w].pid \in 0..MaxProcs /\ rec[w].kill \in 0..MaxProcs
         /\ w # NoWorker
<1>1. rec \in [Workers -> RecType]
  BY TypeShape DEF Structure
<1> QED
  BY <1>1, Bounds DEF Structure, RecsGood, RecType

\* One recovery goes on.
LEMMA RecOne ==
  ASSUME Structure, Grown, NEW w \in Workers, NEW r \in RecType, RecGood(r, row'.s, proc'),
         rec' = [rec EXCEPT ![w] = r]
  PROVE  RecsAfter /\ (RecCalm(w) => RecsCalm)
<1>0. rec \in [Workers -> RecType]
  BY RecFacts
<1>1. rec' \in [Workers -> RecType] /\ rec'[w] = r /\ \A v \in Workers : v # w => rec'[v] = rec[v]
  BY <1>0
<1>2. ASSUME NEW v \in Workers
      PROVE  RecGood(rec[v], row'.s, proc')
  <2>1. RecGood(rec[v], row.s, proc) /\ rec[v].s \in Nat /\ rec[v].pid \in 0..MaxProcs /\ rec[v].kill \in 0..MaxProcs
    BY RecFacts, Bounds
  <2>2. Of(rec[v].pid, rec[v].s, proc') /\ Of(rec[v].kill, rec[v].s, proc')
    BY <2>1, OfGrows DEF RecGood, Grown
  <2>3. row.s \in Nat /\ row'.s \in Nat /\ row.s <= row'.s
    BY TypeShape, Bounds DEF Structure, RowType, Grown
  <2> QED
    BY <2>1, <2>2, <2>3 DEF RecGood
<1>3. RecsGood'
  BY <1>1, <1>2 DEF RecsGood
<1>4. \A v \in Workers : v # w => RecCalm(v)
  BY <1>1 DEF RecCalm
<1> QED
  BY <1>1, <1>3, <1>4 DEF RecsAfter, RecsCalm

LEMMA RecRests ==
  ASSUME Structure, Grown, NEW w \in Workers, Rests(w)
  PROVE  RecsCalm
<1>1. /\ NoRecovery \in RecType /\ NoRecovery.pid = 0 /\ NoRecovery.s = 0 /\ NoRecovery.kill = 0
      /\ NoRecovery.at = "idle"
  BY Bounds DEF NoRecovery, RecType
<1>2. RecGood(NoRecovery, row'.s, proc')
  BY <1>1 DEF RecGood, Of, Grown
<1>3. RecCalm(w)
  BY <1>1, RecFacts DEF Rests, RecCalm
<1> QED
  BY <1>1, <1>2, <1>3, RecOne DEF Rests

\* A recovery that stays with its session and its pid.
LEMMA RecGoes ==
  ASSUME Structure, Grown, NEW w \in Workers,
         NEW at \in {"observe", "absent", "check", "kill", "fail", "adopted"}, Recovers(w, at)
  PROVE  RecsAfter /\ (RecCalm(w) => RecsCalm) /\ rec'[w] = [rec[w] EXCEPT !.at = at]
<1> DEFINE r == [rec[w] EXCEPT !.at = at]
<1>0. rec' = [rec EXCEPT ![w] = r] /\ rec'[w] = r
  BY RecFacts DEF Recovers
<1>1. r \in RecType /\ r.at = at /\ r.s = rec[w].s /\ r.pid = rec[w].pid /\ r.kill = rec[w].kill
  BY RecFacts DEF RecType
<1> HIDE DEF r
<1>2. Of(r.pid, r.s, proc') /\ Of(r.kill, r.s, proc')
  BY <1>1, RecFacts, OfGrows DEF RecGood, Grown
<1>3. r.s <= row'.s
  <2>1. row.s \in Nat /\ row'.s \in Nat /\ row.s <= row'.s /\ rec[w].s \in Nat /\ rec[w].s <= row.s
    BY TypeShape, RecFacts, Bounds DEF Structure, RowType, Grown, RecGood
  <2> QED
    BY <1>1, <2>1
<1>4. RecGood(r, row'.s, proc')
  BY <1>1, <1>2, <1>3 DEF RecGood
<1> QED
  BY <1>0, <1>1, <1>4, RecOne DEF r

\* A step of a recovery that asks for nothing and learns nothing.
LEMMA RecStep ==
  ASSUME Structure, RowQuiet, RecsCalm, UNCHANGED <<api, call, sup, proc, world>>
  PROVE  Calm
<1>1. UNCHANGED mem /\ UNCHANGED obj /\ UNCHANGED start
  BY DEF api
<1>2. ObjectsQuiet
  BY <1>1, KeepNone DEF RowQuiet
<1>3. Onward
  BY <1>1, StartSame
<1>4. MemAfter
  BY <1>1, <1>2, MemQuiet DEF ObjectsQuiet, ObjectsAfter
<1>5. Counts' /\ outage' = outage
  BY Counted DEF world, Structure
<1> QED
  BY <1>2, <1>3, <1>4, <1>5 DEF Calm, RowQuiet

\* A recovery ends, with what it writes.
LEMMA RecEnds ==
  ASSUME Structure, NEW w \in Workers, RowQuiet, Rests(w), UNCHANGED <<api, call, sup, proc, world>>
  PROVE  Calm
BY RecRests, RecStep DEF RowQuiet

\* The supervisor tells a recovery that a process of the session runs.
Spots(w) ==
  /\ rec[w].at = "observe" /\ Observed(rec[w].s) = "running"
  /\ rec' = [rec EXCEPT ![w].at = "save", ![w].pid = sup.pid]
  /\ UNCHANGED <<row, api, call, sup, proc, world>>

LEMMA RecoverObservesCases ==
  ASSUME Structure, NEW w \in Workers, RecoverObserves(w)
  PROVE  Calm \/ Spots(w)
<1>0. rec[w].at = "observe" /\ UNCHANGED <<api, call, sup, proc, world>> /\ w # NoWorker
  BY RecFacts DEF RecoverObserves
<1>1. CASE /\ Observed(rec[w].s) = "running" /\ UNCHANGED row
           /\ rec' = [rec EXCEPT ![w].at = "save", ![w].pid = sup.pid]
  BY <1>0, <1>1 DEF Spots
<1>2. CASE Recovers(w, "absent") /\ UNCHANGED row
  <2>1. RowQuiet
    BY <1>0, <1>2, RowSame
  <2>2. RecsAfter /\ (RecCalm(w) => RecsCalm) /\ rec'[w] = [rec[w] EXCEPT !.at = "absent"]
    BY <1>2, <2>1, RecGoes DEF RowQuiet
  <2>3. RecCalm(w)
    BY <2>2, RecFacts DEF RecCalm, RecType
  <2> QED
    BY <1>0, <2>1, <2>2, <2>3, RecStep
<1>3. CASE Rests(w) /\ Release(w, rec[w].s)
  BY <1>0, <1>3, ReleaseQuiet, RecEnds
<1> QED
  BY <1>1, <1>2, <1>3 DEF RecoverObserves

\* A recovery records the pid it was told.
Saves(w) ==
  /\ rec[w].at = "save" /\ Owns(w, rec[w].s) /\ row.st = "starting"
  /\ row' = [row EXCEPT !.pid = rec[w].pid] /\ Recovers(w, "check")
  /\ UNCHANGED <<api, call, sup, proc, world>>

LEMMA RecoverSavesCases ==
  ASSUME Structure, NEW w \in Workers, RecoverSaves(w)
  PROVE  Calm \/ Saves(w)
<1> DEFINE owned == Owns(w, rec[w].s) /\ row.st = "starting"
<1>0. UNCHANGED <<api, call, sup, proc, world>> /\ w # NoWorker
  BY RecFacts DEF RecoverSaves
<1>1. CASE rec[w].at = "save" /\ owned /\ row' = [row EXCEPT !.pid = rec[w].pid] /\ Recovers(w, "check")
  BY <1>0, <1>1 DEF Saves
<1>2. CASE Release(w, rec[w].s) /\ Rests(w)
  BY <1>0, <1>2, ReleaseQuiet, RecEnds
<1>3. CASE Rests(w) /\ row' = IF owned THEN [Freed(row) EXCEPT !.st = "failed"] ELSE row
  <2>1. CASE owned
    <3>1. row.worker # NoWorker /\ "failed" \in Ended /\ "failed" # "stopped"
      BY <1>0, <2>1 DEF Owns, Ended
    <3>2. RowQuiet
      BY <1>0, <1>3, <2>1, <3>1, RowOwned
    <3> QED
      BY <1>0, <1>3, <3>2, RecEnds
  <2>2. CASE ~owned
    BY <1>0, <1>3, <2>2, RowSame, RecEnds
  <2> QED
    BY <2>1, <2>2
<1> QED
  BY <1>1, <1>2, <1>3 DEF RecoverSaves

\* A recovery verifies the listener, and the supervisor adopts it.
Readopts(w) ==
  /\ rec[w].at = "check" /\ Adoptable(rec[w].s, rec[w].pid) /\ Adopt(rec[w].s, rec[w].pid)
  /\ Recovers(w, "adopted") /\ UNCHANGED <<row, api, call, proc, world>>

LEMMA RecoverChecksCases ==
  ASSUME Structure, NEW w \in Workers, RecoverChecks(w)
  PROVE  Calm \/ Readopts(w)
<1> DEFINE s == rec[w].s
           p == rec[w].pid
<1>0. rec[w].at = "check" /\ UNCHANGED <<api, call, proc, world>> /\ w # NoWorker
  BY RecFacts DEF RecoverChecks
<1>1. CASE Adoptable(s, p) /\ Adopt(s, p) /\ Recovers(w, "adopted") /\ UNCHANGED row
  BY <1>0, <1>1 DEF Readopts
<1>2. CASE Release(w, s) /\ Rests(w) /\ UNCHANGED sup
  BY <1>0, <1>2, ReleaseQuiet, RecEnds
<1>3. ASSUME NEW at \in {"fail", "kill"}, Recovers(w, at), UNCHANGED <<row, sup>>
      PROVE  Calm
  <2>1. RowQuiet
    BY <1>0, <1>3, RowSame
  <2>2. RecsAfter /\ (RecCalm(w) => RecsCalm) /\ rec'[w] = [rec[w] EXCEPT !.at = at]
    BY <1>3, <2>1, RecGoes DEF RowQuiet
  <2>3. RecCalm(w)
    BY <2>2, RecFacts DEF RecCalm, RecType
  <2> QED
    BY <1>0, <1>3, <2>1, <2>2, <2>3, RecStep
<1>4. CASE Recovers(w, "fail") /\ UNCHANGED <<row, sup>>
  BY <1>3, <1>4
<1>5. CASE /\ Alive(p) /\ UNCHANGED <<row, sup>> /\ sup.s = s
           /\ rec' = [rec EXCEPT ![w].at = "killing", ![w].kill = sup.pid]
  <2> DEFINE r == [rec[w] EXCEPT !.at = "killing", !.kill = sup.pid]
  <2>1. RowQuiet
    BY <1>0, <1>5, RowSame
  <2>2. sup.pid \in 0..MaxProcs /\ Of(sup.pid, s, proc) /\ rec \in [Workers -> RecType]
    BY <1>5, TypeShape DEF Structure, SupGood, SupType
  <2>3. rec' = [rec EXCEPT ![w] = r]
    BY <1>5, <2>2
  <2>4. r \in RecType /\ r.at = "killing" /\ r.s = s /\ r.pid = p /\ r.kill = sup.pid
    BY <2>2, RecFacts DEF RecType
  <2> HIDE DEF r
  <2>5. RecGood(r, row'.s, proc')
    <3>1. RecGood(rec[w], row.s, proc) /\ row' = row /\ proc' = proc
      BY <1>0, <1>5, RecFacts
    <3> QED
      BY <2>2, <2>4, <3>1 DEF RecGood
  <2>6. rec'[w] = r
    BY <2>2, <2>3
  <2>7. RecCalm(w)
    BY <2>4, <2>6 DEF RecCalm
  <2>8. RecsCalm
    BY <2>1, <2>3, <2>4, <2>5, <2>7, RecOne DEF RowQuiet
  <2> QED
    BY <1>0, <1>5, <2>1, <2>8, RecStep
<1>6. CASE Recovers(w, "kill") /\ UNCHANGED <<row, sup>>
  BY <1>3, <1>6
<1> QED
  BY <1>1, <1>2, <1>4, <1>5, <1>6 DEF RecoverChecks

LEMMA RecoverFailsCalm ==
  ASSUME Structure, NEW w \in Workers, RecoverFails(w)
  PROVE  Calm
<1>0. UNCHANGED <<api, call, sup, proc, world>> /\ w # NoWorker /\ Rests(w)
  BY RecFacts DEF RecoverFails
<1>1. CASE Owns(w, rec[w].s)
  <2>1. row.worker # NoWorker /\ "failed" \in Ended /\ "failed" # "stopped"
    BY <1>0, <1>1 DEF Owns, Ended
  <2>2. row' = [Freed(row) EXCEPT !.st = "failed"]
    BY <1>1 DEF RecoverFails
  <2>3. RowQuiet
    BY <1>0, <2>1, <2>2, RowOwned
  <2> QED
    BY <1>0, <2>3, RecEnds
<1>2. CASE ~Owns(w, rec[w].s)
  BY <1>0, <1>2, RowSame, RecEnds DEF RecoverFails
<1> QED
  BY <1>1, <1>2

\* A recovery says that the session runs, and remembers it.
Remembers(w) ==
  LET s == rec[w].s  p == rec[w].pid IN
  /\ rec[w].at = "adopted" /\ Rests(w) /\ UNCHANGED start
  /\ Up(p) /\ (rec[w].st = "starting" => Owns(w, s))
  /\ row' = IF rec[w].st = "starting" THEN [row EXCEPT !.st = "running"] ELSE row
  /\ Adopted(w, s, p)
  /\ UNCHANGED <<call, sup, proc, world>>

LEMMA RecoverAdoptsCases ==
  ASSUME Structure, NEW w \in Workers, RecoverAdopts(w)
  PROVE  Calm \/ Remembers(w)
<1>0. /\ rec[w].at = "adopted" /\ Rests(w) /\ UNCHANGED <<start, call, sup, proc, world>> /\ w # NoWorker
  BY RecFacts DEF RecoverAdopts
<1>1. CASE Release(w, rec[w].s) /\ UNCHANGED <<mem, obj>>
  BY <1>0, <1>1, ReleaseQuiet, RecEnds DEF api
<1>2. CASE UNCHANGED <<row, mem, obj>>
  BY <1>0, <1>2, RowSame, RecEnds DEF api
<1> QED
  BY <1>0, <1>1, <1>2 DEF RecoverAdopts, Remembers
-----------------------------------------------------------------------------
(* The steps that ask for something, learn something or end something.      *)

\* Only of session l something is learnt, and only of session k somebody becomes sure.
ObjNews(l, k) ==
  \A x \in Objects :
    /\ (obj'[x].pid # 0 \/ obj'[x].seen # 0) /\ obj'[x].s # l =>
         obj[x].s = obj'[x].s /\ (obj[x].pid # 0 \/ obj[x].seen # 0)
    /\ obj'[x].sure /\ obj'[x].s # k => obj[x].sure /\ obj[x].s = obj'[x].s

LEMMA NoObjectNews == NoObject.pid = 0 /\ NoObject.seen = 0 /\ ~NoObject.sure
BY DEF NoObject

LEMMA QuietNews ==
  ASSUME ObjectsQuiet
  PROVE  ObjNews(0, 0)
<1>1. ASSUME NEW x \in Objects, obj'[x] \in {obj[x], NoObject}
      PROVE  /\ (obj'[x].pid # 0 \/ obj'[x].seen # 0) /\ obj'[x].s # 0 =>
                  obj[x].s = obj'[x].s /\ (obj[x].pid # 0 \/ obj[x].seen # 0)
             /\ obj'[x].sure /\ obj'[x].s # 0 => obj[x].sure /\ obj[x].s = obj'[x].s
  BY <1>1, NoObjectNews
<1>2. ASSUME NEW x \in Objects, Follow(obj[x], obj'[x], row'.s, proc')
      PROVE  /\ (obj'[x].pid # 0 \/ obj'[x].seen # 0) /\ obj'[x].s # 0 =>
                  obj[x].s = obj'[x].s /\ (obj[x].pid # 0 \/ obj[x].seen # 0)
             /\ obj'[x].sure /\ obj'[x].s # 0 => obj[x].sure /\ obj[x].s = obj'[x].s
  BY <1>2 DEF Follow
<1> QED
  BY <1>1, <1>2 DEF ObjNews, ObjectsQuiet, ObjectsFollow

\* One object becomes r.
LEMMA KeepNews ==
  ASSUME NEW o \in Objects, NEW r, Structure, Grown, Changed(obj[o], r, row'.s, proc'), NEW l, NEW k,
         (r.pid # 0 \/ r.seen # 0) /\ r.s # l => obj[o].pid # 0 \/ obj[o].seen # 0,
         r.sure /\ r.s # k => obj[o].sure,
         Keep([obj EXCEPT ![o] = r])
  PROVE  ObjectsAfter /\ ObjNews(l, k)
<1>1. ObjectsAfter /\ OneChanges(o, r)
  BY KeepOne
<1>2. r.s = obj[o].s
  BY DEF Changed
<1>3. ASSUME NEW x \in Objects, obj'[x] \in {obj[x], NoObject}
      PROVE  /\ (obj'[x].pid # 0 \/ obj'[x].seen # 0) /\ obj'[x].s # l =>
                  obj[x].s = obj'[x].s /\ (obj[x].pid # 0 \/ obj[x].seen # 0)
             /\ obj'[x].sure /\ obj'[x].s # k => obj[x].sure /\ obj[x].s = obj'[x].s
  BY <1>3, NoObjectNews
<1> QED
  BY <1>1, <1>2, <1>3 DEF OneChanges, ObjNews

LEMMA RowHolds ==
  ASSUME Structure, ProcsGrow, row' = row
  PROVE  RowStays(row', proc') /\ RowNext(row', proc') /\ Grown
<1>1. RowStays(row', proc')
  BY RowLease
<1> QED
  BY <1>1, RowGrows DEF RowStays

\* Nothing but the status of the processes changes.
Marked ==
  /\ proc' \in [Procs -> ProcType]
  /\ \A p \in Procs : proc'[p].s = proc[p].s /\ (proc'[p].st = "none" <=> proc[p].st = "none")

LEMMA MarkedFacts ==
  ASSUME Structure, Marked
  PROVE  ProcsGrow /\ (Grown => ProcsAfter)
<1>1. ProcsGrow
  BY DEF ProcsGrow, Marked
<1>2. ASSUME Grown
      PROVE  ProcsGood'
  <2>1. row.s \in Nat /\ row'.s \in Nat /\ row.s <= row'.s /\ \A p \in Procs : proc[p].s \in Nat
    BY <1>2, TypeShape, Bounds DEF Structure, RowType, ProcType, Grown
  <2>2. ASSUME NEW p \in Procs
        PROVE  proc'[p].s <= row'.s /\ (proc'[p].st = "none" <=> proc'[p].s = 0)
    BY <2>1 DEF Structure, ProcsGood, Marked
  <2> QED
    BY <2>2 DEF ProcsGood
<1> QED
  BY <1>1, <1>2 DEF ProcsAfter, Marked

LEMMA KilledMarks ==
  ASSUME Structure, NEW p \in 0..MaxProcs, p # 0 => proc[p].s # 0, proc' = Killed(p) \/ proc' = proc
  PROVE  Marked
<1>0. proc \in [Procs -> ProcType] /\ (p # 0 => p \in Procs)
  BY TypeShape, Bounds DEF Structure, Procs
<1>1. CASE proc' = proc
  BY <1>0, <1>1 DEF Marked
<1>2. CASE proc' = Killed(p) /\ p # 0
  <2>1. proc' = [proc EXCEPT ![p].st = "gone"] /\ p \in Procs
    BY <1>0, <1>2 DEF Killed
  <2>2. proc' \in [Procs -> ProcType]
    BY <1>0, <2>1 DEF ProcType
  <2>3. /\ \A q \in Procs : q # p => proc'[q] = proc[q]
        /\ proc'[p].s = proc[p].s /\ proc'[p].st = "gone"
    BY <1>0, <2>1 DEF ProcType
  <2>4. proc[p].st # "none"
    BY <1>2, <2>1 DEF Structure, ProcsGood
  <2> QED
    BY <2>2, <2>3, <2>4 DEF Marked
<1>3. CASE proc' = Killed(p) /\ p = 0
  BY <1>0, <1>3 DEF Marked, Killed
<1> QED
  BY <1>1, <1>2, <1>3

LEMMA SupFacts ==
  ASSUME Structure
  PROVE  /\ sup \in SupType /\ sup.pid \in 0..MaxProcs /\ sup.s \in 0..MaxSessions /\ sup.s <= row.s
         /\ Of(sup.pid, sup.s, proc) /\ row.s \in 0..MaxSessions
         /\ proc \in [Procs -> ProcType] /\ row \in RowType /\ row.pid \in 0..MaxProcs
BY TypeShape DEF Structure, SupGood, SupType, RowType

\* An entry as before, none, or that of a process that exited.
LEMMA SupQuiet ==
  ASSUME Structure, Grown, sup' \in {sup, NoEntry, Down} \/ (\E p : sup' = Noticed(p))
  PROVE  SupAfter
<1>0. /\ sup \in SupType /\ 0 \in 0..MaxProcs /\ 0 \in 0..MaxSessions
      /\ row.s \in Nat /\ row'.s \in Nat /\ row.s <= row'.s /\ sup.s \in Nat /\ sup.s <= row.s
      /\ Of(sup.pid, sup.s, proc')
  BY SupFacts, OfGrows, Bounds DEF Grown
<1>1. CASE sup' \in {NoEntry, Down}
  <2>0. NoEntry \in SupType /\ NoEntry.pid = 0 /\ NoEntry.s = 0
    BY <1>0 DEF NoEntry, SupType
  <2>a. Down \in SupType /\ Down.pid = 0 /\ Down.s = 0
    BY <2>0 DEF Down, SupType
  <2>1. sup' \in SupType /\ sup'.pid = 0 /\ sup'.s = 0
    BY <1>1, <2>0, <2>a
  <2> QED
    BY <1>0, <2>1 DEF SupAfter, SupGood, Of
<1>2. CASE sup' = sup
  BY <1>0, <1>2 DEF SupAfter, SupGood
<1>3. CASE sup' = [sup EXCEPT !.st = "ended"]
  <2>1. sup' \in SupType /\ sup'.pid = sup.pid /\ sup'.s = sup.s
    BY <1>0, <1>3 DEF SupType
  <2> QED
    BY <1>0, <2>1 DEF SupAfter, SupGood
<1> QED
  BY <1>1, <1>2, <1>3 DEF Noticed

\* The row and all but the request of one session stay.
LEMMA AsksStep ==
  ASSUME Structure, NEW w \in Workers, Asks(w)
  PROVE  Structure' /\ InTurn(row')
<1> DEFINE s == Session(w)
<1>0. /\ UNCHANGED <<row, mem, obj, rec, sup, proc, world>> /\ start[w].at \in Stages /\ start[w].o # 0
      /\ s \in 1..row.s /\ row.s \in 0..MaxSessions /\ Grown
      /\ RowStays(row', proc')
  BY StartFacts, SupFacts, Still DEF Asks, Stages
<1>1. s \in Sessions /\ row.s \in Nat
  BY <1>0, Bounds DEF Sessions
<1>2. CallsAfter
  <2>1. call \in [Sessions -> CallType] /\ call' = [call EXCEPT ![s].at = "sent"]
    BY TypeShape DEF Structure, Asks, Sent
  <2>2. call' \in [Sessions -> CallType]
    BY <1>1, <2>1 DEF CallType
  <2>3. call'[s].at = "sent" /\ \A t \in Sessions : t # s => call'[t] = call[t]
    BY <1>1, <2>1 DEF CallType
  <2>4. s <= row.s
    BY <1>0, <1>1
  <2> QED
    BY <1>0, <2>2, <2>3, <2>4 DEF CallsAfter, CallsGood, Structure
<1>3. PICK n \in {1, 2} : start' = [start EXCEPT ![w].at = "call", ![w].n = n]
  BY DEF Asks
<1>4. StartsStep /\ start' \in [Workers -> StartType]
  <2> DEFINE r == [start[w] EXCEPT !.at = "call", !.n = n]
  <2>0. start \in [Workers -> StartType] /\ start[w] \in StartType
    BY StartFacts
  <2>1. start' = [start EXCEPT ![w] = r]
    BY <1>3, <2>0
  <2>a. "call" \in StartPlaces /\ n \in 0..2
    BY DEF StartPlaces
  <2>b. r \in StartType
    BY <2>0, <2>a DEF StartType
  <2>c. r.at = "call" /\ r.o = start[w].o /\ r.pid = start[w].pid
    BY <2>0 DEF StartType
  <2>2. r \in StartType /\ r.at = "call" /\ r.o = start[w].o /\ r.pid = start[w].pid
    BY <2>b, <2>c
  <2> HIDE DEF r
  <2>3. start'[w] = r
    BY <2>0, <2>1
  <2>4. Goes1(w)
    BY <1>0, <2>2, <2>3 DEF Goes1, Stages
  <2> QED
    BY <2>1, <2>2, <2>4, StartOne
<1>5. ObjectsAfter
  BY <1>0, KeepAll
<1>6. MemAfter
  BY <1>0, <1>5, MemQuiet DEF ObjectsAfter
<1>7. RecsAfter /\ SupAfter /\ ProcsAfter
  BY <1>0, RestStays DEF RecsAfter, SupAfter, ProcsAfter
<1>8. Counts'
  BY <1>0, Counted DEF Structure, world
<1> QED
  BY <1>0, <1>2, <1>4, <1>5, <1>6, <1>7, <1>8, StepTogether DEF RowStays

LEMMA ObservedRuns ==
  ASSUME Structure, NEW s, Observed(s) = "running"
  PROVE  sup.st = "running" /\ sup.s = s /\ sup.pid # 0 /\ sup.pid \in Procs /\ Up(sup.pid)
<1>1. sup.st = "running" /\ Up(sup.pid) /\ sup.s = s
  BY DEF Observed
<1> QED
  BY <1>1, SupFacts, Bounds DEF Up, Procs

\* One start changes, the rest but the objects and the row stays.
LEMMA ApiTogether ==
  ASSUME Structure, Grown, RowNext(row', proc'), ObjectsAfter, UNCHANGED mem,
         StartsStep, start' \in [Workers -> StartType], UNCHANGED <<rec, call, proc, world>>, SupAfter
  PROVE  Structure' /\ InTurn(row')
<1>1. MemAfter
  BY MemQuiet DEF ObjectsAfter
<1>2. RecsAfter /\ CallsAfter /\ ProcsAfter
  BY RestStays DEF RecsAfter, CallsAfter, ProcsAfter
<1>3. Counts'
  BY Counted DEF Structure, world
<1> QED
  BY <1>1, <1>2, <1>3, StepTogether

\* An object learns the pid p, seen or its own.
LEMMA LearnsPid ==
  ASSUME Structure, Grown, NEW o \in Objects, obj[o].w # NoWorker, NEW p \in 0..MaxProcs,
         Of(p, obj[o].s, proc'), Keep([obj EXCEPT ![o].pid = p])
  PROVE  ObjectsAfter /\ ObjNews(obj[o].s, 0)
<1> DEFINE r == [obj[o] EXCEPT !.pid = p]
<1>0. ObjectGood(obj[o], row'.s, proc') /\ obj[o] \in ObjectType /\ obj \in [Objects -> ObjectType]
  BY ObjectFacts
<1>1. [obj EXCEPT ![o].pid = p] = [obj EXCEPT ![o] = r]
  BY <1>0
<1>2. r \in ObjectType
  BY <1>0 DEF ObjectType
<1>3. /\ r.w = obj[o].w /\ r.s = obj[o].s /\ r.pid = p /\ r.seen = obj[o].seen
      /\ r.kill = obj[o].kill /\ (r.sure => obj[o].sure) /\ (obj[o].sure => r.sure)
      /\ r.stop = obj[o].stop /\ r.final = obj[o].final /\ r.hb = obj[o].hb
  BY <1>0 DEF ObjectType
<1> HIDE DEF r
<1>4. Changed(obj[o], r, row'.s, proc')
  BY <1>0, <1>2, <1>3 DEF Changed, ObjectGood
<1> QED
  BY <1>1, <1>3, <1>4, KeepNews

LEMMA FindsStep ==
  ASSUME Structure, NEW w \in Workers, Finds(w)
  PROVE  Structure' /\ InTurn(row') /\ ObjectsAfter /\ ObjNews(Session(w), 0)
<1> DEFINE o == start[w].o
<1>0. /\ UNCHANGED <<row, mem, rec, call, sup, proc, world>> /\ start[w].at \in Stages /\ o # 0
      /\ o \in Objects /\ obj[o].w = w /\ w # NoWorker
      /\ Grown /\ RowStays(row', proc')
  BY StartFacts, Still DEF Finds, Stages
<1>1. sup.pid \in 0..MaxProcs /\ sup.pid # 0 /\ sup.s = obj[o].s /\ Of(sup.pid, obj[o].s, proc')
  BY <1>0, ObservedRuns, SupFacts DEF Finds
<1>2. ObjectsAfter /\ ObjNews(Session(w), 0)
  BY <1>0, <1>1, LearnsPid DEF Finds, Session
<1>3. start'[w].at = "record" /\ start'[w].o = o /\ start'[w].pid = sup.pid
  BY StartFacts DEF Finds, StartType
<1>4. start' \in [Workers -> StartType] /\ \A v \in Workers : v # w => start'[v] = start[v]
  <2>1. "record" \in StartPlaces
    BY DEF StartPlaces
  <2> QED
    BY <1>1, <2>1, StartFacts DEF Finds, StartType
<1>5. ASSUME NEW v \in Workers
      PROVE  StartGood(v)' /\ (start'[v].at \in Stages => start[v].at \in Stages /\ Session(v)' = Session(v))
  <2>1. start[v].o # 0 => start'[v].o = start[v].o /\ obj'[start[v].o].w = v /\ Session(v)' = Session(v)
    BY <1>0, <1>2, <1>3, <1>4, StartFacts DEF ObjectsAfter, Kept, Held, Session
  <2>2. CASE v # w
    <3>1. StartGood(v) /\ start'[v] = start[v] /\ proc' = proc
      BY <1>0, <1>4, <2>2 DEF Structure, StartsGood
    <3> QED
      BY <2>1, <3>1, StartFacts DEF StartGood
  <2>3. CASE v = w
    BY <1>0, <1>1, <1>3, <2>1, <2>3 DEF StartGood, Session, Of
  <2> QED
    BY <2>2, <2>3
<1>6. StartsAfter
  BY <1>4, <1>5 DEF StartsAfter, StartsGood, Structure
<1>7. MemAfter
  BY <1>0, <1>2, MemQuiet DEF ObjectsAfter
<1>8. RecsAfter /\ CallsAfter /\ SupAfter /\ ProcsAfter
  BY <1>0, RestStays DEF RecsAfter, CallsAfter, SupAfter, ProcsAfter
<1>9. Counts'
  BY <1>0, Counted DEF Structure, world
<1> QED
  BY <1>0, <1>2, <1>6, <1>7, <1>8, <1>9, Together DEF RowStays

LEMMA RecordsStep ==
  ASSUME Structure, NEW w \in Workers, Records(w)
  PROVE  Structure' /\ InTurn(row') /\ ObjectsAfter /\ ObjNews(0, 0) /\ StartsStep
<1>0. /\ UNCHANGED <<mem, obj, rec, call, sup, proc, world>> /\ start[w].at \in Stages /\ w # NoWorker
      /\ row.worker # NoWorker /\ row.s = Session(w) /\ Session(w) # 0
  BY StartFacts, SupFacts, Bounds DEF Records, Stages, Owns
<1>1. /\ ProcsGrow /\ start[w].pid \in 0..MaxProcs /\ Of(start[w].pid, row.s, proc') /\ "failed" \in Ended
  BY <1>0, StartFacts DEF ProcsGrow, Structure, StartsGood, StartGood, Of, Ended
<1>2. RowStays(row', proc')
  BY <1>0, <1>1, RowWrites DEF Records
<1>3. Grown
  BY <1>1, <1>2, RowGrows
<1>4. ObjectsQuiet
  BY <1>0, <1>3, KeepNone
<1>5. StartsStep /\ start' \in [Workers -> StartType]
  <2>1. "confirm" \in Stages /\ "confirm" # "persist"
    BY DEF Stages
  <2> QED
    BY <1>0, <2>1, StartGoes DEF Records
<1>6. SupAfter
  BY <1>0, <1>3, RestStays DEF SupAfter
<1> QED
  BY <1>0, <1>2, <1>3, <1>4, <1>5, <1>6, QuietNews, ApiTogether DEF RowStays, ObjectsQuiet

LEMMA PersistsStep ==
  ASSUME Structure, NEW w \in Workers, Persists(w)
  PROVE  Structure' /\ InTurn(row') /\ ObjectsAfter /\ ObjNews(0, 0) /\ Onward
<1>0. /\ UNCHANGED <<mem, rec, call, sup, proc, world>> /\ w # NoWorker /\ row.worker # NoWorker
      /\ ObjectsQuiet /\ ProcsGrow /\ 0 \in 0..MaxProcs /\ Of(0, row.s, proc') /\ "failed" \in Ended
  BY StartFacts, Bounds DEF Persists, Owns, ProcsGrow, Of, Ended
<1>2. RowStays(row', proc')
  BY <1>0, RowWrites DEF Persists
<1>3. Grown
  BY <1>0, <1>2, RowGrows
<1>5. Onward
  BY StartLeaves DEF Persists
<1>6. SupAfter
  BY <1>0, <1>3, RestStays DEF SupAfter
<1> QED
  BY <1>0, <1>2, <1>3, <1>5, <1>6, QuietNews, ApiTogether DEF RowStays, ObjectsQuiet, Onward

\* The stop of o is known to be through.
LEMMA KeepSure ==
  ASSUME Structure, Grown, NEW o \in Objects, obj[o].stop # "no",
         \/ Keep([obj EXCEPT ![o].stop = "write", ![o].sure = TRUE])
         \/ Keep([obj EXCEPT ![o].stop = "write", ![o].sure = TRUE, ![o].kill = 0])
  PROVE  ObjectsAfter /\ ObjNews(0, obj[o].s)
<1>0. /\ ObjectGood(obj[o], row'.s, proc') /\ obj[o] \in ObjectType /\ obj \in [Objects -> ObjectType]
      /\ obj[o].w # NoWorker /\ 0 \in 0..MaxProcs
  BY ObjectFacts, Bounds
<1>1. ASSUME NEW r \in ObjectType, r.w = obj[o].w, r.s = obj[o].s, r.pid = obj[o].pid,
             r.seen = obj[o].seen, r.kill \in {0, obj[o].kill}, r.sure, r.stop = "write",
             r.final = obj[o].final, r.hb = obj[o].hb, Keep([obj EXCEPT ![o] = r])
      PROVE  ObjectsAfter /\ ObjNews(0, obj[o].s)
  <2>1. ObjectGood(r, row'.s, proc')
    BY <1>0, <1>1 DEF ObjectGood, Of
  <2> QED
    BY <1>0, <1>1, <2>1, KeepNews DEF Changed
<1>2. CASE Keep([obj EXCEPT ![o].stop = "write", ![o].sure = TRUE])
  <2> DEFINE r == [obj[o] EXCEPT !.stop = "write", !.sure = TRUE]
  <2>1. Keep([obj EXCEPT ![o] = r])
    BY <1>0, <1>2
  <2>2. r \in ObjectType
    BY <1>0 DEF ObjectType
  <2>3. /\ r.w = obj[o].w /\ r.s = obj[o].s /\ r.pid = obj[o].pid /\ r.seen = obj[o].seen
        /\ r.kill = obj[o].kill /\ r.sure /\ r.stop = "write" /\ r.final = obj[o].final /\ r.hb = obj[o].hb
    BY <1>0 DEF ObjectType
  <2> HIDE DEF r
  <2> QED
    BY <1>1, <2>1, <2>2, <2>3
<1>3. CASE Keep([obj EXCEPT ![o].stop = "write", ![o].sure = TRUE, ![o].kill = 0])
  <2> DEFINE r == [obj[o] EXCEPT !.stop = "write", !.sure = TRUE, !.kill = 0]
  <2>1. Keep([obj EXCEPT ![o] = r])
    BY <1>0, <1>3
  <2>2. r \in ObjectType
    BY <1>0 DEF ObjectType
  <2>3. /\ r.w = obj[o].w /\ r.s = obj[o].s /\ r.pid = obj[o].pid /\ r.seen = obj[o].seen
        /\ r.kill = 0 /\ r.sure /\ r.stop = "write" /\ r.final = obj[o].final /\ r.hb = obj[o].hb
    BY <1>0 DEF ObjectType
  <2> HIDE DEF r
  <2> QED
    BY <1>1, <2>1, <2>2, <2>3
<1> QED
  BY <1>2, <1>3

LEMMA ConfirmsStep ==
  ASSUME Structure, NEW o \in Objects, Confirms(o)
  PROVE  Structure' /\ InTurn(row') /\ ObjectsAfter /\ ObjNews(0, obj[o].s)
<1>0. /\ UNCHANGED <<row, mem, start, rec, call, proc, world>> /\ Grown /\ RowStays(row', proc')
      /\ obj[o].stop # "no"
  BY Still DEF Confirms
<1>1. ObjectsAfter /\ ObjNews(0, obj[o].s)
  BY <1>0, KeepSure DEF Confirms
<1>2. SupAfter
  BY <1>0, SupQuiet DEF Confirms
<1>3. StartsStep /\ start' \in [Workers -> StartType]
  BY <1>0, StartSame DEF Onward
<1> QED
  BY <1>0, <1>1, <1>2, <1>3, ApiTogether DEF RowStays

LEMMA StopKillsStep ==
  ASSUME Structure, NEW o \in Objects, StopKills(o)
  PROVE  Structure' /\ InTurn(row') /\ ObjectsAfter /\ ObjNews(0, obj[o].s) /\ Marked
<1>0. /\ UNCHANGED <<row, mem, start, rec, call, world>> /\ obj[o].stop # "no"
      /\ obj[o].kill \in 0..MaxProcs /\ Of(obj[o].kill, obj[o].s, proc)
      /\ proc' = Killed(obj[o].kill) /\ sup' = NoEntry
  BY ObjectFacts DEF StopKills, ObjectType, ObjectGood
<1>1. Marked
  BY <1>0, KilledMarks DEF Of
<1>2. Grown /\ RowNext(row', proc') /\ ProcsAfter
  BY <1>0, <1>1, MarkedFacts, RowHolds
<1>3. ObjectsAfter /\ ObjNews(0, obj[o].s)
  BY <1>0, <1>2, KeepSure DEF StopKills
<1>4. SupAfter
  BY <1>0, <1>2, SupQuiet
<1>5. StartsStep /\ start' \in [Workers -> StartType]
  BY <1>0, StartSame DEF Onward
<1>6. MemAfter
  BY <1>0, <1>3, MemQuiet DEF ObjectsAfter
<1>7. RecsAfter /\ CallsAfter
  BY <1>0, <1>2, RestStays DEF RecsAfter, CallsAfter
<1>8. Counts'
  BY <1>0, Counted DEF Structure, world
<1> QED
  BY <1>1, <1>2, <1>3, <1>4, <1>5, <1>6, <1>7, <1>8, StepTogether

LEMMA AdoptFacts ==
  ASSUME Structure, Grown, NEW s \in 0..MaxSessions, NEW p \in 0..MaxProcs, s <= row.s, Of(p, s, proc'),
         Adoptable(s, p), Adopt(s, p)
  PROVE  /\ SupAfter /\ sup'.pid = p /\ sup'.s = s /\ sup'.st = "running"
         /\ p \in Procs /\ Up(p) /\ s # 0
<1>0. /\ row.s \in Nat /\ row'.s \in Nat /\ row.s <= row'.s /\ s \in Nat
      /\ p \in Procs /\ Up(p) /\ s # 0
  BY SupFacts, Bounds DEF Grown, Adoptable, Up, Procs, Of
<1>1. CASE sup.st = "running"
  <2>1. sup' = sup /\ sup.s = s /\ sup.pid = p
    BY <1>1 DEF Adoptable, Adopt
  <2> QED
    BY <1>0, <1>1, <2>1, RestStays DEF SupAfter
<1>2. CASE sup.st # "running"
  <2>1. sup' = [s |-> s, st |-> "running", pid |-> p, watched |-> FALSE]
    BY <1>2 DEF Adopt
  <2>2. sup' \in SupType
    BY <2>1 DEF SupType, Active
  <2> QED
    BY <1>0, <2>1, <2>2 DEF SupAfter, SupGood
<1> QED
  BY <1>1, <1>2

LEMMA VerifiesStep ==
  ASSUME Structure, NEW o \in Objects, Verifies(o)
  PROVE  /\ Structure' /\ InTurn(row') /\ ObjectsAfter /\ ObjNews(0, 0)
         /\ sup'.pid = obj[o].pid /\ sup'.s = obj[o].s /\ sup'.st = "running" /\ obj[o].pid # 0
<1>0. /\ UNCHANGED <<row, mem, start, rec, call, proc, world>> /\ ObjectsQuiet
      /\ obj[o].w # NoWorker /\ Grown /\ RowStays(row', proc')
  BY Still DEF Verifies
<1>1. /\ obj[o].s \in 0..MaxSessions /\ obj[o].pid \in 0..MaxProcs /\ Of(obj[o].pid, obj[o].s, proc')
      /\ obj[o].s <= row.s
  BY <1>0, ObjectFacts, SupFacts, Bounds DEF ObjectType, ObjectGood
<1>2. SupAfter /\ sup'.pid = obj[o].pid /\ sup'.s = obj[o].s /\ sup'.st = "running" /\ obj[o].pid \in Procs
  BY <1>0, <1>1, AdoptFacts DEF Verifies
<1>3. StartsStep /\ start' \in [Workers -> StartType]
  BY <1>0, StartSame DEF Onward
<1>4. obj[o].pid # 0
  BY <1>2 DEF Procs
<1> QED
  BY <1>0, <1>2, <1>3, <1>4, QuietNews, ApiTogether DEF RowStays, ObjectsQuiet

LEMMA SeesStep ==
  ASSUME Structure, NEW o \in Objects, Sees(o)
  PROVE  Structure' /\ InTurn(row') /\ ObjectsAfter /\ ObjNews(obj[o].s, 0)
<1> DEFINE r == [obj[o] EXCEPT !.hb = "present", !.seen = sup.pid]
<1>0. /\ UNCHANGED <<row, mem, start, rec, call, sup, proc, world>> /\ obj[o].w # NoWorker
      /\ Grown /\ RowStays(row', proc') /\ obj[o] \in ObjectType /\ ObjectGood(obj[o], row'.s, proc')
      /\ obj \in [Objects -> ObjectType]
  BY Still, ObjectFacts DEF Sees
<1>1. sup.pid \in 0..MaxProcs /\ sup.pid # 0 /\ Of(sup.pid, obj[o].s, proc')
  BY <1>0, ObservedRuns, SupFacts DEF Sees
<1>2. Keep([obj EXCEPT ![o] = r])
  BY <1>0 DEF Sees
<1>3. r \in ObjectType
  BY <1>0, <1>1 DEF ObjectType
<1>4. /\ r.w = obj[o].w /\ r.s = obj[o].s /\ r.pid = obj[o].pid /\ r.seen = sup.pid
      /\ r.kill = obj[o].kill /\ (r.sure => obj[o].sure) /\ (obj[o].sure => r.sure)
      /\ r.stop = obj[o].stop /\ r.final = obj[o].final /\ r.hb = "present"
  BY <1>0 DEF ObjectType
<1> HIDE DEF r
<1>5. Changed(obj[o], r, row'.s, proc')
  BY <1>0, <1>1, <1>3, <1>4 DEF Changed, ObjectGood
<1>6. ObjectsAfter /\ ObjNews(obj[o].s, 0)
  BY <1>0, <1>2, <1>4, <1>5, KeepNews
<1>7. StartsStep /\ start' \in [Workers -> StartType]
  BY <1>0, StartSame DEF Onward
<1>8. SupAfter
  BY <1>0, RestStays DEF SupAfter
<1> QED
  BY <1>0, <1>6, <1>7, <1>8, ApiTogether DEF RowStays

LEMMA SettlesStep ==
  ASSUME Structure, NEW o \in Objects, Settles(o)
  PROVE  Structure' /\ InTurn(row') /\ ObjectsAfter /\ ObjNews(0, 0) /\ obj[o].seen # 0 /\ row.s = obj[o].s
<1> DEFINE r == [obj[o] EXCEPT !.hb = "no", !.st = "running", !.pid = obj[o].seen, !.seen = 0]
<1>0. /\ UNCHANGED <<mem, start, rec, call, sup, proc, world>> /\ obj[o].w # NoWorker
      /\ obj[o] \in ObjectType /\ obj \in [Objects -> ObjectType] /\ ObjectGood(obj[o], row.s, proc)
      /\ obj[o].seen # 0 /\ obj[o].seen \in 0..MaxProcs /\ row.s = obj[o].s /\ row.worker # NoWorker
  BY ObjectFacts DEF Settles, Owns, ObjectGood, ObjectType
<1>1. ProcsGrow /\ Of(obj[o].seen, row.s, proc') /\ "failed" \in Ended /\ 0 \in 0..MaxProcs
  BY <1>0, Bounds DEF ProcsGrow, Ended, ObjectGood
<1>2. RowStays(row', proc')
  BY <1>0, <1>1, RowWrites DEF Settles
<1>3. Grown
  BY <1>1, <1>2, RowGrows
<1>4. Keep([obj EXCEPT ![o] = r])
  BY <1>0 DEF Settles
<1>5. r \in ObjectType
  BY <1>0, <1>1 DEF ObjectType, Active
<1>6. /\ r.w = obj[o].w /\ r.s = obj[o].s /\ r.pid = obj[o].seen /\ r.seen = 0
      /\ r.kill = obj[o].kill /\ (r.sure => obj[o].sure) /\ (obj[o].sure => r.sure)
      /\ r.stop = obj[o].stop /\ r.final = obj[o].final /\ r.hb = "no"
  BY <1>0 DEF ObjectType
<1> HIDE DEF r
<1>7. ObjectGood(obj[o], row'.s, proc')
  BY <1>3, ObjectFacts
<1>8. Changed(obj[o], r, row'.s, proc')
  BY <1>0, <1>5, <1>6, <1>7 DEF Changed, ObjectGood, Of
<1>9. ObjectsAfter /\ ObjNews(0, 0)
  BY <1>0, <1>3, <1>4, <1>6, <1>8, KeepNews
<1>10. StartsStep /\ start' \in [Workers -> StartType]
  BY <1>0, StartSame DEF Onward
<1>11. SupAfter
  BY <1>0, <1>3, RestStays DEF SupAfter
<1> QED
  BY <1>0, <1>2, <1>3, <1>9, <1>10, <1>11, ApiTogether DEF RowStays

\* The objects and the starts stay.
LEMMA RecTogether ==
  ASSUME Structure, Grown, RowNext(row', proc'), UNCHANGED <<api, call>>, Counts',
         RecsAfter, SupAfter, ProcsAfter
  PROVE  Structure' /\ InTurn(row') /\ ObjectsAfter /\ ObjNews(0, 0) /\ Onward
<1>1. UNCHANGED mem /\ UNCHANGED obj /\ UNCHANGED start /\ UNCHANGED call
  BY DEF api
<1>2. ObjectsQuiet
  BY <1>1, KeepNone
<1>3. Onward
  BY <1>1, StartSame
<1>4. MemAfter
  BY <1>1, <1>2, MemQuiet DEF ObjectsQuiet, ObjectsAfter
<1>5. CallsAfter
  BY <1>1, RestStays DEF CallsAfter
<1> QED
  BY <1>2, <1>3, <1>4, <1>5, QuietNews, StepTogether DEF ObjectsQuiet, Onward

LEMMA RecoverClaimsStep ==
  ASSUME Structure, NEW w \in Workers, RecoverClaims(w)
  PROVE  Structure' /\ InTurn(row') /\ ObjectsAfter /\ ObjNews(0, 0) /\ Onward
<1> DEFINE r == [at |-> IF row.st = "starting" /\ row.pid = 0 THEN "observe" ELSE "check",
                 s |-> row.s, pid |-> row.pid, st |-> row.st, kill |-> 0]
<1>0. /\ UNCHANGED <<api, call, sup, proc, world>> /\ row.st \in Active /\ ~row.lease
      /\ row' = [row EXCEPT !.worker = w, !.lease = TRUE] /\ ProcsGrow /\ rec' = [rec EXCEPT ![w] = r]
  BY DEF RecoverClaims, Claimable, ProcsGrow
<1>1. RowStays(row', proc')
  BY <1>0, RowLease
<1>2. Grown
  BY <1>0, <1>1, RowGrows
<1>3. /\ row.s \in 0..MaxSessions /\ row.pid \in 0..MaxProcs /\ 0 \in 0..MaxProcs
      /\ Of(row.pid, row.s, proc') /\ row.s <= row'.s
  BY <1>0, <1>2, SupFacts, Bounds, OfGrows DEF Structure, RowGood, RowFine, Grown
<1>4. r \in RecType
  BY <1>0, <1>3 DEF RecType
<1>5. RecGood(r, row'.s, proc')
  BY <1>3 DEF RecGood, Of
<1> HIDE DEF r
<1>6. RecsAfter
  BY <1>0, <1>2, <1>4, <1>5, RecOne
<1>7. SupAfter /\ ProcsAfter
  BY <1>0, <1>2, RestStays DEF SupAfter, ProcsAfter
<1>8. Counts'
  BY <1>0, Counted DEF Structure, world
<1> QED
  BY <1>0, <1>1, <1>2, <1>6, <1>7, <1>8, RecTogether DEF RowStays

LEMMA SpotsStep ==
  ASSUME Structure, NEW w \in Workers, Spots(w)
  PROVE  Structure' /\ InTurn(row') /\ ObjectsAfter /\ ObjNews(0, 0) /\ Onward
<1> DEFINE r == [rec[w] EXCEPT !.at = "save", !.pid = sup.pid]
<1>0. UNCHANGED <<row, api, call, sup, proc, world>> /\ Grown /\ RowStays(row', proc')
  BY Still DEF Spots
<1>1. sup.pid \in 0..MaxProcs /\ sup.pid # 0 /\ Of(sup.pid, rec[w].s, proc')
  BY <1>0, ObservedRuns, SupFacts DEF Spots
<1>2. rec' = [rec EXCEPT ![w] = r]
  BY RecFacts DEF Spots
<1>3. r \in RecType
  BY <1>1, RecFacts DEF RecType
<1>4. r.at = "save" /\ r.s = rec[w].s /\ r.pid = sup.pid /\ r.kill = rec[w].kill
  BY RecFacts DEF RecType
<1> HIDE DEF r
<1>5. RecGood(rec[w], row'.s, proc')
  <2>1. row' = row /\ proc' = proc
    BY <1>0
  <2> QED
    BY <2>1, RecFacts
<1>6. RecGood(r, row'.s, proc')
  BY <1>1, <1>4, <1>5 DEF RecGood
<1>7. RecsAfter
  BY <1>0, <1>2, <1>3, <1>6, RecOne
<1>8. SupAfter /\ ProcsAfter
  BY <1>0, RestStays DEF SupAfter, ProcsAfter
<1>9. Counts'
  BY <1>0, Counted DEF Structure, world
<1> QED
  BY <1>0, <1>7, <1>8, <1>9, RecTogether DEF RowStays

LEMMA SavesStep ==
  ASSUME Structure, NEW w \in Workers, Saves(w)
  PROVE  Structure' /\ InTurn(row') /\ ObjectsAfter /\ ObjNews(0, 0) /\ Onward
<1>0. /\ UNCHANGED <<api, call, sup, proc, world>> /\ ProcsGrow /\ row.worker # NoWorker
      /\ row.s = rec[w].s /\ row' = [row EXCEPT !.pid = rec[w].pid] /\ "failed" \in Ended
  BY RecFacts DEF Saves, ProcsGrow, Owns, Ended
<1>1. rec[w].pid \in 0..MaxProcs /\ Of(rec[w].pid, row.s, proc')
  BY <1>0, RecFacts DEF RecGood
<1>2. RowStays(row', proc')
  BY <1>0, <1>1, RowWrites
<1>3. Grown
  BY <1>0, <1>2, RowGrows
<1>4. RecsAfter
  BY <1>3, RecGoes DEF Saves
<1>5. SupAfter /\ ProcsAfter
  BY <1>0, <1>3, RestStays DEF SupAfter, ProcsAfter
<1>6. Counts'
  BY <1>0, Counted DEF Structure, world
<1> QED
  BY <1>0, <1>2, <1>3, <1>4, <1>5, <1>6, RecTogether DEF RowStays

LEMMA ReadoptsStep ==
  ASSUME Structure, NEW w \in Workers, Readopts(w)
  PROVE  /\ Structure' /\ InTurn(row') /\ ObjectsAfter /\ ObjNews(0, 0) /\ Onward /\ RecsCalm
         /\ sup'.pid = rec[w].pid /\ sup'.s = rec[w].s /\ sup'.st = "running" /\ rec[w].pid # 0
<1>0. UNCHANGED <<row, api, call, proc, world>> /\ Grown /\ RowStays(row', proc')
  BY Still DEF Readopts
<1>1. /\ rec[w].s \in 0..MaxSessions /\ rec[w].pid \in 0..MaxProcs /\ Of(rec[w].pid, rec[w].s, proc')
      /\ rec[w].s <= row.s
  BY <1>0, RecFacts DEF RecGood
<1>2. SupAfter /\ sup'.pid = rec[w].pid /\ sup'.s = rec[w].s /\ sup'.st = "running" /\ rec[w].pid \in Procs
  BY <1>0, <1>1, AdoptFacts DEF Readopts
<1>3. RecsAfter /\ (RecCalm(w) => RecsCalm) /\ rec'[w] = [rec[w] EXCEPT !.at = "adopted"]
  BY <1>0, RecGoes DEF Readopts
<1>4. RecCalm(w)
  BY <1>3, RecFacts DEF RecCalm, RecType, Readopts
<1>5. ProcsAfter
  BY <1>0, RestStays DEF ProcsAfter
<1>6. Counts'
  BY <1>0, Counted DEF Structure, world
<1>7. rec[w].pid # 0
  BY <1>2 DEF Procs
<1> QED
  BY <1>0, <1>2, <1>3, <1>4, <1>5, <1>6, <1>7, RecTogether DEF RowStays

LEMMA RecoverKillsStep ==
  ASSUME Structure, NEW w \in Workers, RecoverKills(w)
  PROVE  Structure' /\ InTurn(row') /\ ObjectsAfter /\ ObjNews(0, 0) /\ Onward /\ RecsCalm /\ Marked
<1>0. /\ UNCHANGED <<row, api, call, world>> /\ rec[w].at \in {"killing", "kill"}
      /\ Recovers(w, "fail")
      /\ \/ proc' = Killed(rec[w].kill) /\ sup' = NoEntry
         \/ proc' = Killed(rec[w].pid) /\ sup' = Noticed(rec[w].pid)
  BY DEF RecoverKills
<1>1. Marked
  BY <1>0, RecFacts, KilledMarks DEF RecGood, Of
<1>2. Grown /\ RowNext(row', proc') /\ ProcsAfter
  BY <1>0, <1>1, MarkedFacts, RowHolds
<1>3. RecsAfter /\ (RecCalm(w) => RecsCalm) /\ rec'[w] = [rec[w] EXCEPT !.at = "fail"]
  BY <1>0, <1>2, RecGoes
<1>4. RecCalm(w)
  BY <1>3, RecFacts DEF RecCalm, RecType
<1>5. SupAfter
  BY <1>0, <1>2, SupQuiet
<1>6. Counts'
  BY <1>0, Counted DEF Structure, world
<1> QED
  BY <1>0, <1>1, <1>2, <1>3, <1>4, <1>5, <1>6, RecTogether

\* A new object r takes the place o.
LEMMA NewObject ==
  ASSUME Structure, Grown, NEW w \in Workers, NEW o \in Objects, obj[o] = NoObject, NEW r,
         ObjectGood(r, row'.s, proc'), r.w = w, ~r.sure, NEW l,
         (r.pid # 0 \/ r.seen # 0) => r.s = l,
         Keep([obj EXCEPT ![o] = r]), mem' = [mem EXCEPT ![w] = o]
  PROVE  /\ ObjectsAfter /\ MemAfter /\ ObjNews(l, 0) /\ obj'[o] = r
         /\ \A x \in Objects : x # o => obj'[x] \in {obj[x], NoObject}
<1> DEFINE new == [obj EXCEPT ![o] = r]
<1>0. obj \in [Objects -> ObjectType] /\ mem \in [Workers -> 0..MaxObjects] /\ w # NoWorker /\ o # 0
      /\ o \in 0..MaxObjects
  BY ObjectFacts, MemFacts, Bounds DEF Objects
<1>1. new[o] = r /\ (\A x \in Objects : x # o => new[x] = obj[x]) /\ Keep(new)
  BY <1>0
<1> HIDE DEF new
<1>2. \A x \in Objects : ObjectGood(new[x], row'.s, proc')
  BY <1>1, ObjectFacts
<1>3. NoObject.w = NoWorker
  BY DEF NoObject
<1>4. \A x \in Objects : obj[x].w # NoWorker => new[x].w = obj[x].w /\ new[x].s = obj[x].s
  BY <1>1, <1>3
<1>5. ObjectsAfter
  BY <1>1, <1>2, <1>4, KeepAny DEF Structure
<1>6. mem'[w] = o /\ obj'[o] = r
  BY <1>0, <1>1, KeepFacts
<1>7. MemAfter
  <2>1. mem' \in [Workers -> 0..MaxObjects]
    BY <1>0
  <2>2. ASSUME NEW v \in Workers, mem'[v] # 0
        PROVE  obj'[mem'[v]].w = v
    <3>1. CASE v = w
      BY <1>6, <3>1
    <3>2. CASE v # w
      <4>1. mem'[v] = mem[v] /\ mem[v] \in Objects /\ obj[mem[v]].w = v /\ v # NoWorker
        BY <1>0, <2>2, <3>2, MemFacts
      <4> QED
        BY <1>5, <4>1 DEF ObjectsAfter, Kept, Held
    <3> QED
      BY <3>1, <3>2
  <2> QED
    BY <2>1, <2>2 DEF MemAfter, MemGood
<1>8. \A x \in Objects : x # o => obj'[x] \in {obj[x], NoObject}
  BY <1>1, KeepFacts
<1>9. ObjNews(l, 0)
  BY <1>6, <1>8, NoObjectNews DEF ObjNews
<1> QED
  BY <1>5, <1>6, <1>7, <1>8, <1>9

LEMMA NoObjectIs ==
  /\ NoObject \in ObjectType /\ NoObject.pid = 0 /\ NoObject.seen = 0 /\ NoObject.kill = 0
  /\ ~NoObject.sure /\ NoObject.stop = "no" /\ NoObject.hb = "no" /\ NoObject.final = "none"
<1>1. NoObject \in ObjectType
  BY Bounds DEF NoObject, ObjectType
<1> QED
  BY <1>1 DEF NoObject

\* A session is begun.
Begins(w) ==
  /\ start[w].at = "begin" /\ Takeover /\ row.s < MaxSessions
  /\ row' = [s |-> row.s + 1, st |-> "starting", pid |-> 0, worker |-> w, lease |-> TRUE]
  /\ \E o \in Objects :
       /\ obj[o] = NoObject /\ mem' = [mem EXCEPT ![w] = o]
       /\ start' = [start EXCEPT ![w] = [Idle EXCEPT !.at = "renew", !.o = o]]
       /\ Keep([obj EXCEPT ![o] = [NoObject EXCEPT !.w = w, !.s = row.s + 1, !.st = "starting"]])
  /\ UNCHANGED <<rec, call, sup, proc, world>>

LEMMA BeginCases ==
  ASSUME Structure, NEW w \in Workers, Begin(w)
  PROVE  Calm \/ Begins(w)
<1>0. start[w].at = "begin" /\ UNCHANGED <<rec, call, sup, proc, world>>
  BY DEF Begin
<1>1. CASE Leaves(w) /\ UNCHANGED <<row, mem, obj>>
  BY <1>0, <1>1, Still, KeepNone, StartLeaves, SameRow
<1> QED
  BY <1>0, <1>1 DEF Begin, Begins

LEMMA BeginsStep ==
  ASSUME Structure, NEW w \in Workers, Begins(w)
  PROVE  /\ Structure' /\ InTurn(row') /\ ObjectsAfter /\ ObjNews(0, 0)
         /\ row'.s = row.s + 1 /\ row'.st = "starting" /\ row'.pid = 0
         /\ start'[w].at = "renew" /\ Session(w)' = row.s + 1
         /\ \A v \in Workers : v # w => start'[v] = start[v]
         /\ \A x \in Objects : obj'[x].s = row.s + 1 => obj'[x].pid = 0 /\ obj'[x].seen = 0 /\ ~obj'[x].sure
<1> DEFINE n == row.s + 1
<1>0. /\ UNCHANGED <<rec, call, sup, proc, world>> /\ row.s \in Nat /\ n \in Nat /\ n # 0 /\ n \in 0..MaxSessions
      /\ n # row.s /\ row.s <= n /\ 0 \in 0..MaxProcs /\ w # NoWorker
  BY SupFacts, MemFacts, Bounds DEF Begins
<1>1. /\ row' = [s |-> n, st |-> "starting", pid |-> 0, worker |-> w, lease |-> TRUE]
      /\ row'.s = n /\ row'.st = "starting" /\ row'.pid = 0
  BY DEF Begins
<1>2. row' \in RowType
  BY <1>0, <1>1 DEF RowType, Active
<1>3. Grown
  BY <1>0, <1>1 DEF Grown, ProcsGrow
<1>4. RowNext(row', proc')
  BY <1>0, <1>1, <1>2 DEF RowNext, RowFine, Of, InTurn, Begins, Takeover, Active
<1>5. PICK o \in Objects :
        /\ obj[o] = NoObject /\ mem' = [mem EXCEPT ![w] = o]
        /\ start' = [start EXCEPT ![w] = [Idle EXCEPT !.at = "renew", !.o = o]]
        /\ Keep([obj EXCEPT ![o] = [NoObject EXCEPT !.w = w, !.s = n, !.st = "starting"]])
  BY DEF Begins
<1> DEFINE r == [NoObject EXCEPT !.w = w, !.s = n, !.st = "starting"]
<1>6. r \in ObjectType
  BY <1>0, NoObjectIs DEF ObjectType, Active
<1>7. /\ r.w = w /\ r.s = n /\ r.pid = 0 /\ r.seen = 0 /\ r.kill = 0 /\ ~r.sure /\ r.stop = "no" /\ r.hb = "no"
  BY NoObjectIs DEF ObjectType
<1>8. Keep([obj EXCEPT ![o] = r])
  BY <1>5
<1> HIDE DEF r, n
<1>9. ObjectGood(r, row'.s, proc')
  BY <1>0, <1>1, <1>6, <1>7 DEF ObjectGood, Of
<1>10. /\ ObjectsAfter /\ MemAfter /\ ObjNews(0, 0) /\ obj'[o] = r
       /\ \A x \in Objects : x # o => obj'[x] \in {obj[x], NoObject}
  BY <1>3, <1>5, <1>7, <1>8, <1>9, NewObject
<1>11. start \in [Workers -> StartType] /\ o # 0 /\ o \in 0..MaxObjects
  BY StartFacts, Bounds DEF Objects
<1>12. /\ start' \in [Workers -> StartType]
       /\ start'[w].at = "renew" /\ start'[w].o = o /\ start'[w].pid = 0
       /\ \A v \in Workers : v # w => start'[v] = start[v]
  <2> DEFINE q == [Idle EXCEPT !.at = "renew", !.o = o]
  <2>1. q \in StartType
    BY <1>11, IdleIs DEF StartType, StartPlaces
  <2>2. q.at = "renew" /\ q.o = o /\ q.pid = 0
    BY IdleIs DEF StartType
  <2>3. start' = [start EXCEPT ![w] = q]
    BY <1>5
  <2> HIDE DEF q
  <2> QED
    BY <1>11, <2>1, <2>2, <2>3
<1>13. Session(w)' = n
  BY <1>7, <1>10, <1>12 DEF Session
<1>14. ASSUME NEW v \in Workers, v # w
       PROVE  StartGood(v)' /\ (start'[v].at \in Stages => start[v].at \in Stages /\ Session(v)' = Session(v)
                                                           /\ Session(v) # n)
  <2>1. StartGood(v) /\ start'[v] = start[v] /\ proc' = proc
    BY <1>0, <1>12, <1>14 DEF Structure, StartsGood
  <2>2. start[v].o # 0 => obj'[start[v].o].w = v /\ Session(v)' = Session(v) /\ Session(v) \in 1..row.s
    BY <1>10, <2>1, StartFacts DEF ObjectsAfter, Kept, Held, Session
  <2>3. start[v].o # 0 => Session(v) # n
    BY <1>0, <2>2 DEF n
  <2> QED
    BY <2>1, <2>2, <2>3, StartFacts DEF StartGood
<1>15. StartGood(w)'
  BY <1>7, <1>10, <1>11, <1>12 DEF StartGood
<1>16. StartsAfter
  <2>1. \A v \in Workers : StartGood(v)'
    BY <1>14, <1>15
  <2>2. ASSUME NEW v \in Workers, NEW u \in Workers, u # v, start'[u].at \in Stages, start'[v].at \in Stages
        PROVE  Session(u)' # Session(v)'
    <3>1. CASE u = w
      BY <1>13, <1>14, <2>2, <3>1
    <3>2. CASE v = w
      BY <1>13, <1>14, <2>2, <3>2
    <3>3. CASE u # w /\ v # w
      BY <1>14, <2>2, <3>3 DEF Structure, StartsGood
    <3> QED
      BY <3>1, <3>2, <3>3
  <2> QED
    BY <1>12, <2>1, <2>2 DEF StartsAfter, StartsGood
<1>17. RecsAfter /\ CallsAfter /\ SupAfter /\ ProcsAfter
  BY <1>0, <1>3, RestStays DEF RecsAfter, CallsAfter, SupAfter, ProcsAfter
<1>18. Counts'
  BY <1>0, Counted DEF Structure, world
<1>19. ASSUME NEW x \in Objects, obj'[x].s = n
       PROVE  obj'[x].pid = 0 /\ obj'[x].seen = 0 /\ ~obj'[x].sure
  <2>1. CASE x = o
    BY <1>7, <1>10, <2>1
  <2>2. CASE x # o /\ obj'[x] = NoObject
    BY <2>2, NoObjectNews
  <2>3. CASE x # o /\ obj'[x] = obj[x]
    <3>1. ObjectGood(obj[x], row.s, proc)
      BY ObjectFacts
    <3>2. obj[x].w = NoWorker
      BY <1>0, <1>19, <2>3, <3>1 DEF ObjectGood, n
    <3> QED
      BY <2>3, <3>1, <3>2, NoObjectNews DEF ObjectGood
  <2> QED
    BY <1>10, <2>1, <2>2, <2>3
<1>20. Structure' /\ InTurn(row')
  BY <1>4, <1>10, <1>16, <1>17, <1>18, Together
<1> QED
  BY <1>1, <1>10, <1>12, <1>13, <1>19, <1>20 DEF n

LEMMA NewsGrows ==
  ASSUME ObjectsAfter, ObjNews(0, 0), NEW l
  PROVE  ObjNews(l, 0)
<1>1. ASSUME NEW x \in Objects, obj'[x].pid # 0 \/ obj'[x].seen # 0
      PROVE  obj[x].s = obj'[x].s /\ (obj[x].pid # 0 \/ obj[x].seen # 0)
  <2>1. obj'[x].s # 0
    BY <1>1 DEF ObjectsAfter, ObjectsGood, ObjectGood, Of
  <2> QED
    BY <1>1, <2>1 DEF ObjNews
<1> QED
  BY <1>1 DEF ObjNews

LEMMA RemembersStep ==
  ASSUME Structure, NEW w \in Workers, Remembers(w)
  PROVE  /\ Structure' /\ InTurn(row') /\ ObjectsAfter /\ ObjNews(rec[w].s, 0) /\ Onward /\ RecsCalm /\ rec[w].pid # 0
         /\ row' = row \/ (row.s = rec[w].s /\ row.st \in Active /\ row' = [row EXCEPT !.st = "running"])
<1> DEFINE s == rec[w].s
           p == rec[w].pid
           o == mem[w]
<1>0. /\ UNCHANGED <<start, call, sup, proc, world>> /\ w # NoWorker /\ ProcsGrow /\ Rests(w)
      /\ p \in 0..MaxProcs /\ p # 0 /\ s \in 0..MaxSessions /\ Of(p, s, proc) /\ s <= row.s /\ s # 0
      /\ 0 \in 0..MaxProcs /\ Of(0, row.s, proc') /\ "failed" \in Ended
  BY RecFacts, Bounds DEF Remembers, ProcsGrow, Up, RecGood, Of, Ended
<1>1. /\ RowStays(row', proc')
      /\ row' = row \/ (row.s = s /\ row.st \in Active /\ row' = [row EXCEPT !.st = "running"])
  <2>1. CASE rec[w].st = "starting"
    <3>1. row.worker # NoWorker /\ row.s = s /\ row' = [row EXCEPT !.st = "running"]
      BY <1>0, <2>1 DEF Remembers, Owns
    <3> QED
      BY <1>0, <3>1, RowWrites
  <2>2. CASE rec[w].st # "starting"
    BY <1>0, <2>2, RowLease DEF Remembers
  <2> QED
    BY <2>1, <2>2
<1>2. Grown
  BY <1>0, <1>1, RowGrows
<1>3. ObjectsAfter /\ MemAfter /\ ObjNews(s, 0)
  <2>1. CASE o # 0 /\ obj[o].s = s
    <3>1. UNCHANGED mem /\ Keep([obj EXCEPT ![o].st = "running", ![o].timer = TRUE])
      BY <2>1 DEF Remembers, Adopted
    <3>2. ObjectsQuiet
      BY <1>0, <1>2, <2>1, <3>1, MemFacts, KeepRuns
    <3> QED
      BY <3>1, <3>2, QuietNews, NewsGrows, MemQuiet DEF ObjectsQuiet, ObjectsAfter
  <2>2. CASE ~(o # 0 /\ obj[o].s = s)
    <3>1. PICK q \in Objects :
            /\ obj[q] = NoObject /\ mem' = [mem EXCEPT ![w] = q]
            /\ Keep([obj EXCEPT ![q] =
                 [NoObject EXCEPT !.w = w, !.s = s, !.st = "running", !.pid = p, !.timer = TRUE]])
      BY <2>2 DEF Remembers, Adopted
    <3> DEFINE r == [NoObject EXCEPT !.w = w, !.s = s, !.st = "running", !.pid = p, !.timer = TRUE]
    <3>2. r \in ObjectType
      BY <1>0, NoObjectIs DEF ObjectType, Active
    <3>3. /\ r.w = w /\ r.s = s /\ r.pid = p /\ r.seen = 0 /\ r.kill = 0 /\ ~r.sure /\ r.stop = "no" /\ r.hb = "no"
      BY NoObjectIs DEF ObjectType
    <3>4. Keep([obj EXCEPT ![q] = r])
      BY <3>1
    <3> HIDE DEF r
    <3>5. s \in 1..row'.s /\ Of(p, s, proc')
      <4>1. s \in Nat /\ row.s \in Nat /\ row'.s \in Nat /\ row.s <= row'.s
        BY <1>0, <1>2, SupFacts, Bounds DEF Grown
      <4> QED
        BY <1>0, <4>1
    <3>6. ObjectGood(r, row'.s, proc')
      BY <1>0, <3>2, <3>3, <3>5 DEF ObjectGood, Of
    <3> QED
      BY <1>2, <3>1, <3>3, <3>4, <3>6, NewObject
  <2> QED
    BY <2>1, <2>2
<1>4. Onward
  BY <1>0, StartSame
<1>5. RecsCalm
  BY <1>0, <1>2, RecRests
<1>6. CallsAfter /\ SupAfter /\ ProcsAfter
  BY <1>0, <1>2, RestStays DEF CallsAfter, SupAfter, ProcsAfter
<1>7. Counts'
  BY <1>0, Counted DEF Structure, world
<1>8. Structure' /\ InTurn(row')
  BY <1>1, <1>2, <1>3, <1>4, <1>5, <1>6, <1>7, StepTogether DEF RowStays, Onward, RecsCalm
<1> QED
  BY <1>0, <1>1, <1>3, <1>4, <1>5, <1>8
-----------------------------------------------------------------------------
(* The supervisor.                                                          *)

LEMMA CallFacts ==
  ASSUME Structure, NEW s \in Sessions
  PROVE  /\ call \in [Sessions -> CallType] /\ call[s].pid \in 0..MaxProcs /\ s \in Nat /\ s # 0
         /\ s \in 0..MaxSessions
         /\ (call[s].at # "none" => s <= row.s)
         /\ (call[s].at = "boot" => call[s].pid \in Procs /\ proc[call[s].pid].s = s)
<1>1. call \in [Sessions -> CallType] /\ call[s].pid \in 0..MaxProcs
  BY TypeShape DEF Structure, CallType
<1> QED
  BY <1>1, Bounds DEF Structure, CallsGood, Sessions, Procs

\* Requests that are not new, or are over.
LEMMA CallsFollow ==
  ASSUME Structure, Grown, call' = [t \in Sessions |-> call'[t]],
         \A t \in Sessions : call'[t] \in {call[t], NoCall}
  PROVE  CallsAfter
<1>0. call \in [Sessions -> CallType]
  BY TypeShape DEF Structure
<1>1. NoCall \in CallType /\ NoCall.at = "none"
  BY Bounds DEF NoCall, CallType
<1>2. call' \in [Sessions -> CallType]
  BY <1>0, <1>1
<1>3. ASSUME NEW t \in Sessions
      PROVE  /\ call'[t].at # "none" => t <= row'.s
             /\ call'[t].at = "boot" => call'[t].pid # 0 /\ proc'[call'[t].pid].s = t
  <2>1. CASE call'[t] = NoCall
    BY <1>1, <2>1
  <2>2. CASE call'[t] = call[t]
    <3>1. row.s \in Nat /\ row'.s \in Nat /\ row.s <= row'.s
      BY SupFacts, Bounds DEF Grown
    <3> QED
      BY <2>2, <3>1, CallFacts DEF Grown, ProcsGrow, Procs
  <2> QED
    BY <2>1, <2>2
<1> QED
  BY <1>2, <1>3 DEF CallsAfter, CallsGood

LEMMA CallOver ==
  ASSUME Structure, Grown, NEW s \in Sessions, call' = [call EXCEPT ![s] = NoCall]
  PROVE  CallsAfter /\ call'[s].at = "none" /\ \A t \in Sessions : t # s => call'[t] = call[t]
<1>0. call \in [Sessions -> CallType] /\ NoCall.at = "none"
  BY TypeShape DEF Structure, NoCall
<1>1. call'[s] = NoCall /\ \A t \in Sessions : t # s => call'[t] = call[t]
  BY <1>0
<1>2. call' = [t \in Sessions |-> call'[t]]
  BY <1>0
<1> QED
  BY <1>0, <1>1, <1>2, CallsFollow

\* The worker that waits for the request of session s gets the pid p.
LEMMA AnswersFacts ==
  ASSUME Structure, Grown, NEW s \in Sessions, NEW p \in 0..MaxProcs, Of(p, s, proc'), Answers(s, p)
  PROVE  /\ ObjectsAfter /\ MemAfter /\ StartsAfter /\ CallsAfter /\ ObjNews(s, 0)
         /\ p = 0 => ObjNews(0, 0)
         /\ \A w \in Workers :
              /\ \/ start'[w] = start[w] /\ ~(start[w].at = "call" /\ Session(w) = s)
                 \/ start[w].at = "call" /\ Session(w) = s /\ start'[w].at = "record" /\ start'[w].pid = p
              /\ start'[w].at \in Stages => start[w].at \in Stages /\ Session(w)' = Session(w)
<1> DEFINE told(o) == \E w \in Workers : start[w].at = "call" /\ start[w].o = o /\ obj[o].s = s
           new == [o \in Objects |-> IF told(o) THEN [obj[o] EXCEPT !.pid = p] ELSE obj[o]]
<1>1. Keep(new) /\ mem' = mem /\ call' = [call EXCEPT ![s] = NoCall]
  BY DEF Answers
<1>2. ASSUME NEW o \in Objects, told(o)
      PROVE  /\ obj[o].s = s /\ obj[o].w # NoWorker /\ new[o] = [obj[o] EXCEPT !.pid = p]
             /\ Changed(obj[o], new[o], row'.s, proc') /\ new[o].pid = p /\ new[o].seen = obj[o].seen
             /\ (new[o].sure => obj[o].sure)
  <2>1. PICK w \in Workers : start[w].at = "call" /\ start[w].o = o /\ obj[o].s = s
    BY <1>2
  <2>2. obj[o].w # NoWorker /\ obj[o].s = s
    BY <2>1, StartFacts DEF Stages
  <2> DEFINE r == [obj[o] EXCEPT !.pid = p]
  <2>3. obj[o] \in ObjectType /\ ObjectGood(obj[o], row'.s, proc')
    BY ObjectFacts
  <2>4. r \in ObjectType
    BY <2>3 DEF ObjectType
  <2>5. /\ r.w = obj[o].w /\ r.s = obj[o].s /\ r.pid = p /\ r.seen = obj[o].seen
        /\ r.kill = obj[o].kill /\ (r.sure => obj[o].sure) /\ (obj[o].sure => r.sure)
        /\ r.stop = obj[o].stop /\ r.final = obj[o].final /\ r.hb = obj[o].hb
    BY <2>3 DEF ObjectType
  <2>6. new[o] = r
    BY <1>2
  <2> HIDE DEF r
  <2>7. Changed(obj[o], r, row'.s, proc')
    BY <2>2, <2>3, <2>4, <2>5 DEF Changed, ObjectGood
  <2> QED
    BY <2>2, <2>5, <2>6, <2>7 DEF r
<1>3. ASSUME NEW o \in Objects, ~told(o)
      PROVE  new[o] = obj[o]
  BY <1>3
<1> HIDE DEF new
<1>4. \A o \in Objects : ObjectGood(new[o], row'.s, proc')
  BY <1>2, <1>3, ObjectFacts DEF Changed
<1>5. \A o \in Objects : obj[o].w # NoWorker => new[o].w = obj[o].w /\ new[o].s = obj[o].s
  BY <1>2, <1>3 DEF Changed
<1>6. ObjectsAfter
  BY <1>1, <1>4, <1>5, KeepAny DEF Structure
<1>7. MemAfter
  BY <1>1, <1>6, MemQuiet DEF ObjectsAfter
<1>8. ASSUME NEW l, p = 0 \/ l = s
      PROVE  ObjNews(l, 0)
  <2>1. ASSUME NEW x \in Objects
        PROVE  /\ (obj'[x].pid # 0 \/ obj'[x].seen # 0) /\ obj'[x].s # l =>
                    obj[x].s = obj'[x].s /\ (obj[x].pid # 0 \/ obj[x].seen # 0)
               /\ obj'[x].sure /\ obj'[x].s # 0 => obj[x].sure /\ obj[x].s = obj'[x].s
    <3>1. CASE obj'[x] = NoObject
      BY <3>1, NoObjectNews
    <3>2. CASE obj'[x] = new[x] /\ told(x)
      BY <1>2, <1>8, <3>2 DEF Changed
    <3>3. CASE obj'[x] = new[x] /\ ~told(x)
      BY <1>3, <3>3
    <3> QED
      BY <1>1, <3>1, <3>2, <3>3, KeepFacts
  <2> QED
    BY <2>1 DEF ObjNews
<1> HIDE DEF told
<1>9. CallsAfter
  BY <1>1, CallOver
<1>10. ASSUME NEW w \in Workers
       PROVE  /\ start'[w] \in StartType /\ StartGood(w)'
              /\ \/ start'[w] = start[w] /\ ~(start[w].at = "call" /\ Session(w) = s)
                 \/ start[w].at = "call" /\ Session(w) = s /\ start'[w].at = "record" /\ start'[w].pid = p
              /\ start'[w].at \in Stages => start[w].at \in Stages /\ Session(w)' = Session(w)
  <2>0. start[w] \in StartType /\ StartGood(w)
    BY StartFacts DEF Structure, StartsGood
  <2>1. start[w].o # 0 => start'[w].o = start[w].o
    BY <2>0 DEF Answers, StartType
  <2>2. start[w].o # 0 => obj'[start[w].o].w = w /\ Session(w)' = Session(w)
    BY <1>6, <2>1, StartFacts DEF ObjectsAfter, Kept, Held, Session
  <2>3. CASE start[w].at = "call" /\ Session(w) = s
    <3>1. start'[w] = [start[w] EXCEPT !.at = "record", !.pid = p]
      BY <2>3 DEF Answers, Session
    <3>2. start'[w] \in StartType
      BY <2>0, <3>1 DEF StartType, StartPlaces
    <3>3. start'[w].at = "record" /\ start'[w].pid = p /\ start'[w].o = start[w].o /\ start[w].o # 0
      BY <2>0, <2>3, <3>1, StartFacts DEF StartType, Stages
    <3>4. StartGood(w)'
      BY <2>2, <2>3, <3>3 DEF StartGood, Session, Of
    <3> QED
      BY <2>2, <2>3, <3>2, <3>3, <3>4 DEF Stages
  <2>4. CASE ~(start[w].at = "call" /\ Session(w) = s)
    <3>1. start'[w] = start[w]
      BY <2>4 DEF Answers, Session
    <3>2. start[w].pid # 0 => proc'[start[w].pid].s = Session(w)
      BY <2>0, StartFacts, Bounds DEF StartGood, Grown, ProcsGrow, Procs
    <3>3. StartGood(w)'
      BY <2>0, <2>2, <3>1, <3>2, StartFacts DEF StartGood, Session
    <3> QED
      BY <2>0, <2>2, <2>4, <3>1, <3>3, StartFacts
  <2> QED
    BY <2>3, <2>4
<1>11. StartsAfter
  <2>1. start' \in [Workers -> StartType]
    BY <1>10 DEF Answers
  <2>2. ASSUME NEW u \in Workers, NEW v \in Workers, u # v, start'[u].at \in Stages, start'[v].at \in Stages
        PROVE  Session(u)' # Session(v)'
    BY <1>10, <2>2 DEF Structure, StartsGood
  <2> QED
    BY <1>10, <2>1, <2>2 DEF StartsAfter, StartsGood
<1> QED
  BY <1>6, <1>7, <1>8, <1>9, <1>10, <1>11

\* A process is spawned for the request of session s.
Spawns(s) ==
  /\ call[s].at = "sent"
  /\ \E p \in Procs :
       /\ proc[p].st = "none" /\ proc' = [proc EXCEPT ![p] = [s |-> s, st |-> "booting"]]
       /\ sup' = [s |-> s, st |-> "starting", pid |-> p, watched |-> TRUE]
       /\ call' = [call EXCEPT ![s] = [at |-> "boot", pid |-> p]]
  /\ UNCHANGED <<row, api, rec, world>>

LEMMA SpawnsStep ==
  ASSUME Structure, NEW s \in Sessions, Spawns(s)
  PROVE  Structure' /\ InTurn(row') /\ ObjectsAfter /\ ObjNews(0, 0) /\ Onward
<1>0. UNCHANGED <<row, rec, world>> /\ UNCHANGED mem /\ UNCHANGED obj /\ UNCHANGED start
  BY DEF Spawns, api
<1>1. PICK p \in Procs :
        /\ proc[p].st = "none" /\ proc' = [proc EXCEPT ![p] = [s |-> s, st |-> "booting"]]
        /\ sup' = [s |-> s, st |-> "starting", pid |-> p, watched |-> TRUE]
        /\ call' = [call EXCEPT ![s] = [at |-> "boot", pid |-> p]]
  BY DEF Spawns
<1>2. /\ proc \in [Procs -> ProcType] /\ call \in [Sessions -> CallType] /\ proc[p].s = 0
      /\ s \in 0..MaxSessions /\ p \in 0..MaxProcs /\ p # 0 /\ s # 0 /\ s <= row.s /\ row.s \in Nat
  <2>1. p \in 0..MaxProcs /\ p # 0 /\ row.s \in Nat
    BY SupFacts, Bounds DEF Procs
  <2>2. proc[p].s = 0
    BY <1>1 DEF Structure, ProcsGood
  <2> QED
    BY <2>1, <2>2, SupFacts, CallFacts DEF Spawns
<1>3. /\ proc'[p] = [s |-> s, st |-> "booting"] /\ \A q \in Procs : q # p => proc'[q] = proc[q]
      /\ call'[s] = [at |-> "boot", pid |-> p] /\ \A t \in Sessions : t # s => call'[t] = call[t]
  BY <1>1, <1>2
<1>4. ProcsGrow
  BY <1>2, <1>3 DEF ProcsGrow
<1>5. Grown /\ RowNext(row', proc')
  BY <1>0, <1>4, RowHolds
<1>6. ProcsAfter
  <2>1. [s |-> s, st |-> "booting"] \in ProcType
    BY <1>2 DEF ProcType
  <2>2. proc' \in [Procs -> ProcType]
    BY <1>1, <1>2, <2>1
  <2>3. ASSUME NEW q \in Procs
        PROVE  proc'[q].s <= row.s /\ (proc'[q].st = "none" <=> proc'[q].s = 0)
    <3>1. CASE q = p
      BY <1>2, <1>3, <3>1
    <3>2. CASE q # p
      BY <1>3, <3>2 DEF Structure, ProcsGood
    <3> QED
      BY <3>1, <3>2
  <2> QED
    BY <1>0, <2>2, <2>3 DEF ProcsAfter, ProcsGood
<1>7. CallsAfter
  <2>1. [at |-> "boot", pid |-> p] \in CallType
    BY <1>2 DEF CallType
  <2>2. call' \in [Sessions -> CallType]
    BY <1>1, <1>2, <2>1
  <2>3. ASSUME NEW t \in Sessions
        PROVE  /\ call'[t].at # "none" => t <= row.s
               /\ call'[t].at = "boot" => call'[t].pid # 0 /\ proc'[call'[t].pid].s = t
    <3>1. CASE t = s
      BY <1>2, <1>3, <3>1
    <3>2. CASE t # s
      BY <1>3, <1>4, <3>2, CallFacts, Bounds DEF ProcsGrow, Procs
    <3> QED
      BY <3>1, <3>2
  <2> QED
    BY <1>0, <2>2, <2>3 DEF CallsAfter, CallsGood
<1>8. SupAfter
  <2>1. sup' \in SupType
    BY <1>1, <1>2 DEF SupType, Active
  <2> QED
    BY <1>0, <1>1, <1>2, <1>3, <2>1 DEF SupAfter, SupGood, Of
<1>9. ObjectsQuiet
  BY <1>0, <1>5, KeepNone
<1>10. Onward
  BY <1>0, StartSame
<1>11. MemAfter
  BY <1>0, <1>9, MemQuiet DEF ObjectsQuiet, ObjectsAfter
<1>12. RecsAfter
  BY <1>0, <1>5, RestStays DEF RecsAfter
<1>13. Counts'
  BY <1>0, Counted DEF Structure, world
<1> QED
  BY <1>5, <1>6, <1>7, <1>8, <1>9, <1>10, <1>11, <1>12, <1>13, QuietNews, StepTogether
  DEF ObjectsQuiet, Onward

\* The request of session s is refused.
Refuses(s) ==
  /\ call[s].at = "sent" /\ call' = [call EXCEPT ![s] = NoCall]
  /\ UNCHANGED <<row, api, rec, sup, proc, world>>

LEMMA RefusesStep ==
  ASSUME Structure, NEW s \in Sessions, call' = [call EXCEPT ![s] = NoCall],
         UNCHANGED <<row, api, rec, proc>>, SupAfter, Counts'
  PROVE  Structure' /\ InTurn(row') /\ ObjectsAfter /\ ObjNews(0, 0) /\ Onward
<1>0. /\ UNCHANGED row /\ UNCHANGED rec /\ UNCHANGED proc
      /\ UNCHANGED mem /\ UNCHANGED obj /\ UNCHANGED start
  BY DEF api
<1>1. ProcsGrow
  BY <1>0 DEF ProcsGrow
<1>2. Grown /\ RowNext(row', proc')
  BY <1>0, <1>1, RowHolds
<1>3. ObjectsQuiet
  BY <1>0, <1>2, KeepNone
<1>4. Onward
  BY <1>0, StartSame
<1>5. MemAfter
  BY <1>0, <1>3, MemQuiet DEF ObjectsQuiet, ObjectsAfter
<1>6. RecsAfter /\ ProcsAfter
  BY <1>0, <1>2, RestStays DEF RecsAfter, ProcsAfter
<1>7. CallsAfter
  BY <1>2, CallOver
<1> QED
  BY <1>2, <1>3, <1>4, <1>5, <1>6, <1>7, QuietNews, StepTogether DEF ObjectsQuiet, Onward

\* The supervisor answers the request of session s with the pid p.
Served(s, p) ==
  /\ \A w \in Workers :
       /\ \/ start'[w] = start[w] /\ ~(start[w].at = "call" /\ Session(w) = s)
          \/ start[w].at = "call" /\ Session(w) = s /\ start'[w].at = "record" /\ start'[w].pid = p
       /\ start'[w].at \in Stages => start[w].at \in Stages /\ Session(w)' = Session(w)
  /\ call'[s].at = "none" /\ \A t \in Sessions : t # s => call'[t] = call[t]
  /\ ObjNews(s, 0) /\ (p = 0 => ObjNews(0, 0))

LEMMA ServedStep ==
  ASSUME Structure, Grown, RowNext(row', proc'), NEW s \in Sessions, NEW p \in 0..MaxProcs,
         Of(p, s, proc'), Answers(s, p), UNCHANGED <<rec, world>>, SupAfter, ProcsAfter
  PROVE  Structure' /\ InTurn(row') /\ Served(s, p)
<1>1. /\ ObjectsAfter /\ MemAfter /\ StartsAfter /\ CallsAfter
      /\ ObjNews(s, 0) /\ (p = 0 => ObjNews(0, 0))
  BY AnswersFacts
<1>2. RecsAfter
  BY RestStays DEF RecsAfter
<1>3. Counts'
  BY Counted DEF Structure, world
<1>4. call'[s].at = "none" /\ \A t \in Sessions : t # s => call'[t] = call[t]
  BY CallOver DEF Answers
<1>5. Served(s, p)
  BY <1>1, <1>4, AnswersFacts DEF Served
<1> QED
  BY <1>1, <1>2, <1>3, <1>5, Together

LEMMA StartsCases ==
  ASSUME Structure, NEW s \in Sessions, SupervisorStarts(s)
  PROVE  \/ /\ sup.st = "running" /\ sup.s = s /\ Structure' /\ InTurn(row') /\ Served(s, sup.pid)
            /\ UNCHANGED <<row, rec, sup, proc, world>>
         \/ Refuses(s) \/ Spawns(s)
<1>0. UNCHANGED <<row, rec, world>>
  BY DEF SupervisorStarts
<1>1. CASE sup.st = "running" /\ sup.s = s /\ Answers(s, sup.pid) /\ UNCHANGED <<sup, proc>>
  <2>1. RowNext(row', proc') /\ Grown
    BY <1>0, <1>1, Still DEF RowStays
  <2>2. Of(sup.pid, s, proc') /\ sup.pid \in 0..MaxProcs
    BY <1>1, SupFacts
  <2>3. SupAfter /\ ProcsAfter
    BY <1>1, <2>1, RestStays DEF SupAfter, ProcsAfter
  <2> QED
    BY <1>0, <1>1, <2>1, <2>2, <2>3, ServedStep
<1>2. CASE call' = [call EXCEPT ![s] = NoCall] /\ UNCHANGED <<api, sup, proc>>
  BY <1>0, <1>2 DEF Refuses, SupervisorStarts
<1>3. CASE /\ \E p \in Procs :
                /\ proc[p].st = "none" /\ \A q \in Procs : proc[q].st = "none" => p <= q
                /\ proc' = [proc EXCEPT ![p] = [s |-> s, st |-> "booting"]]
                /\ sup' = [s |-> s, st |-> "starting", pid |-> p, watched |-> TRUE]
                /\ call' = [call EXCEPT ![s] = [at |-> "boot", pid |-> p]]
           /\ UNCHANGED api
  BY <1>0, <1>3 DEF Spawns, SupervisorStarts
<1> QED
  BY <1>1, <1>2, <1>3 DEF SupervisorStarts

LEMMA RefusesIs ==
  ASSUME Structure, NEW s \in Sessions, Refuses(s)
  PROVE  Structure' /\ InTurn(row') /\ ObjectsAfter /\ ObjNews(0, 0) /\ Onward
<1>1. Grown
  BY Still DEF Refuses
<1>2. SupAfter
  BY <1>1, RestStays DEF Refuses, SupAfter
<1>3. Counts'
  BY Counted DEF Structure, Refuses, world
<1> QED
  BY <1>2, <1>3, RefusesStep DEF Refuses

LEMMA SupReady ==
  ASSUME Structure, Grown, NEW s \in Sessions,
         \/ sup' = IF Its(s) THEN [sup EXCEPT !.st = "running"] ELSE sup
         \/ sup' = IF Its(s) THEN [sup EXCEPT !.st = "ended", !.pid = 0] ELSE sup
  PROVE  SupAfter
<1>0. sup \in SupType /\ 0 \in 0..MaxProcs /\ row.s \in Nat /\ row'.s \in Nat /\ row.s <= row'.s
  BY SupFacts, Bounds DEF Grown
<1>1. sup' \in SupType /\ sup'.s = sup.s /\ sup'.pid \in {0, sup.pid}
  BY <1>0 DEF SupType, Active
<1>2. Of(sup.pid, sup.s, proc') /\ sup.s <= row'.s
  BY <1>0, SupFacts, OfGrows, Bounds DEF Grown
<1> QED
  BY <1>1, <1>2 DEF SupAfter, SupGood, Of

\* The answer to a start is lost.
Loses(s) ==
  /\ call' = [call EXCEPT ![s] = NoCall] /\ Fault("answer") /\ outage' = TRUE
  /\ UNCHANGED <<row, api, rec, proc>>

LEMMA ReadyCases ==
  ASSUME Structure, NEW s \in Sessions, SupervisorReady(s)
  PROVE  /\ Structure' /\ InTurn(row') /\ UNCHANGED <<row, rec, proc>>
         /\ call[s].at = "boot" /\ call[s].pid # 0
         /\ sup' = IF Its(s) THEN [sup EXCEPT !.st = "running"] ELSE sup
         /\ \/ Served(s, call[s].pid) /\ UNCHANGED world
            \/ Loses(s)
<1>0. /\ UNCHANGED row /\ UNCHANGED rec /\ UNCHANGED proc /\ call[s].at = "boot" /\ call[s].pid # 0
      /\ sup' = IF Its(s) THEN [sup EXCEPT !.st = "running"] ELSE sup
  BY DEF SupervisorReady, Up
<1>1. RowNext(row', proc') /\ Grown
  BY <1>0, Still DEF RowStays
<1>2. SupAfter
  BY <1>0, <1>1, SupReady
<1>3. CASE Answers(s, call[s].pid) /\ UNCHANGED world
  <2>1. Of(call[s].pid, s, proc') /\ call[s].pid \in 0..MaxProcs
    BY <1>0, CallFacts DEF Of
  <2>2. ProcsAfter
    BY <1>0, <1>1, RestStays DEF ProcsAfter
  <2>3. Structure' /\ InTurn(row') /\ Served(s, call[s].pid)
    BY <1>0, <1>1, <1>2, <1>3, <2>1, <2>2, ServedStep
  <2> QED
    BY <1>0, <1>3, <2>3
<1>4. CASE Fault("answer") /\ outage' = TRUE /\ call' = [call EXCEPT ![s] = NoCall] /\ UNCHANGED api
  <2>1. Counts'
    BY <1>4, Counted DEF Structure
  <2>2. Structure' /\ InTurn(row')
    BY <1>0, <1>2, <1>4, <2>1, RefusesStep
  <2> QED
    BY <1>0, <1>4, <2>2 DEF Loses
<1> QED
  BY <1>3, <1>4 DEF SupervisorReady

LEMMA GivesUpStep ==
  ASSUME Structure, NEW s \in Sessions, SupervisorGivesUp(s)
  PROVE  /\ Structure' /\ InTurn(row') /\ Served(s, 0) /\ Marked /\ UNCHANGED <<row, rec, world>>
         /\ call[s].at = "boot" /\ proc' = Killed(call[s].pid)
         /\ sup' = IF Its(s) THEN [sup EXCEPT !.st = "ended", !.pid = 0] ELSE sup
<1>0. /\ UNCHANGED row /\ UNCHANGED rec /\ UNCHANGED world /\ Answers(s, 0)
      /\ call[s].at = "boot" /\ proc' = Killed(call[s].pid)
      /\ sup' = IF Its(s) THEN [sup EXCEPT !.st = "ended", !.pid = 0] ELSE sup
  BY DEF SupervisorGivesUp
<1>1. Marked
  BY <1>0, CallFacts, KilledMarks
<1>2. Grown /\ RowNext(row', proc') /\ ProcsAfter
  BY <1>0, <1>1, MarkedFacts, RowHolds
<1>3. SupAfter
  BY <1>0, <1>2, SupReady
<1>4. Of(0, s, proc') /\ 0 \in 0..MaxProcs
  BY Bounds DEF Of
<1>5. Structure' /\ InTurn(row') /\ Served(s, 0)
  BY <1>0, <1>2, <1>3, <1>4, ServedStep
<1> QED
  BY <1>0, <1>1, <1>5

LEMMA FollowUnanswered ==
  ASSUME Structure, Grown, NEW o \in Objects
  PROVE  LET q == IF obj[o].stop = "killing" THEN [obj[o] EXCEPT !.stop = "refused", !.kill = 0] ELSE obj[o]
         IN  q = obj[o] \/ Follow(obj[o], q, row'.s, proc')
<1>1. CASE obj[o].stop = "killing"
  <2>1. obj[o].w # NoWorker /\ ObjectGood(obj[o], row'.s, proc') /\ obj[o].stop # "no"
    BY <1>1, ObjectFacts
  <2>2. Follow(obj[o], [obj[o] EXCEPT !.stop = "refused", !.kill = 0], row'.s, proc')
    BY <2>1, FollowStop
  <2> QED
    BY <1>1, <2>2
<1>2. CASE obj[o].stop # "killing"
  BY <1>2
<1> QED
  BY <1>1, <1>2

LEMMA UnansweredFacts ==
  ASSUME Structure, Grown, Unanswered
  PROVE  /\ ObjectsQuiet /\ MemAfter /\ Onward /\ RecsCalm /\ CallsAfter
         /\ \A t \in Sessions : call'[t] = NoCall
<1>0. mem' = mem /\ start' = start
  BY DEF Unanswered
<1>1. ObjectsQuiet
  <2> DEFINE new == [o \in Objects |->
               IF obj[o].stop = "killing" THEN [obj[o] EXCEPT !.stop = "refused", !.kill = 0] ELSE obj[o]]
  <2>1. Keep(new)
    BY DEF Unanswered
  <2>2. \A o \in Objects : new[o] = obj[o] \/ Follow(obj[o], new[o], row'.s, proc')
    BY FollowUnanswered
  <2> HIDE DEF new
  <2>3. \A o \in Objects : ObjectGood(new[o], row'.s, proc')
    BY <2>2, ObjectFacts DEF Follow
  <2>4. \A o \in Objects : obj[o].w # NoWorker => new[o].w = obj[o].w /\ new[o].s = obj[o].s
    BY <2>2 DEF Follow
  <2>5. ObjectsAfter
    BY <2>1, <2>3, <2>4, KeepAny DEF Structure
  <2>6. ObjectsFollow
    BY <2>1, <2>2, KeepFacts DEF ObjectsFollow
  <2> QED
    BY <2>5, <2>6 DEF ObjectsQuiet
<1>2. MemAfter
  BY <1>0, <1>1, MemQuiet DEF ObjectsQuiet, ObjectsAfter
<1>3. Onward
  BY <1>0, StartSame
<1>4. RecsCalm
  <2>0. 0 \in 0..MaxProcs /\ row.s \in Nat /\ row'.s \in Nat /\ row.s <= row'.s
    BY SupFacts, Bounds DEF Grown
  <2>1. ASSUME NEW w \in Workers
        PROVE  rec'[w] \in RecType /\ RecGood(rec'[w], row'.s, proc') /\ RecCalm(w)
    <3>1. rec[w] \in RecType /\ RecGood(rec[w], row.s, proc)
      BY RecFacts
    <3>2. Of(rec[w].pid, rec[w].s, proc') /\ Of(rec[w].kill, rec[w].s, proc')
      BY <3>1, RecFacts, OfGrows DEF RecGood, Grown
    <3>3. rec[w].s <= row'.s
      BY <2>0, <3>1, Bounds DEF RecGood, RecType
    <3>4. CASE rec[w].at = "killing"
      <4> DEFINE r == [rec[w] EXCEPT !.at = "kill", !.kill = 0]
      <4>1. rec'[w] = r
        BY <3>4 DEF Unanswered
      <4>2. r \in RecType
        BY <2>0, <3>1 DEF RecType
      <4>3. r.at = "kill" /\ r.kill = 0 /\ r.s = rec[w].s /\ r.pid = rec[w].pid
        BY <3>1 DEF RecType
      <4> HIDE DEF r
      <4> QED
        BY <3>1, <3>2, <3>3, <4>1, <4>2, <4>3 DEF RecGood, RecCalm, Of
    <3>5. CASE rec[w].at # "killing"
      <4>1. rec'[w] = rec[w]
        BY <3>5 DEF Unanswered
      <4> QED
        BY <3>1, <3>2, <3>3, <4>1 DEF RecGood, RecCalm
    <3> QED
      BY <3>4, <3>5
  <2>2. rec' \in [Workers -> RecType]
    BY <2>1 DEF Unanswered
  <2> QED
    BY <2>1, <2>2 DEF RecsCalm, RecsAfter, RecsGood
<1>5. \A t \in Sessions : call'[t] = NoCall
  BY DEF Unanswered
<1>6. CallsAfter
  BY <1>5, CallsFollow DEF Unanswered
<1> QED
  BY <1>1, <1>2, <1>3, <1>4, <1>5, <1>6

LEMMA SupervisorStopsStep ==
  ASSUME Structure, SupervisorStops
  PROVE  /\ Structure' /\ InTurn(row') /\ ObjectsAfter /\ ObjNews(0, 0) /\ Onward /\ RecsCalm
         /\ UNCHANGED row /\ outage' = TRUE /\ sup' = Down /\ \A t \in Sessions : call'[t] = NoCall
<1>0. /\ UNCHANGED row /\ sup' = Down /\ outage' = TRUE /\ Unanswered /\ Fault("supervisor")
      /\ (proc' = proc \/ proc' = Killed(sup.pid))
  BY DEF SupervisorStops
<1>1. Marked
  <2>1. sup.pid # 0 => proc[sup.pid].s # 0
    BY SupFacts DEF Of
  <2> QED
    BY <1>0, <2>1, SupFacts, KilledMarks
<1>2. Grown /\ RowNext(row', proc') /\ ProcsAfter
  BY <1>0, <1>1, MarkedFacts, RowHolds
<1>3. /\ ObjectsQuiet /\ MemAfter /\ Onward /\ RecsCalm /\ CallsAfter
      /\ \A t \in Sessions : call'[t] = NoCall
  BY <1>0, <1>2, UnansweredFacts
<1>4. SupAfter
  BY <1>0, <1>2, SupQuiet
<1>5. Counts'
  BY <1>0, Counted DEF Structure
<1>6. Structure' /\ InTurn(row')
  BY <1>2, <1>3, <1>4, <1>5, StepTogether DEF ObjectsQuiet, Onward, RecsCalm
<1> QED
  BY <1>0, <1>3, <1>6, QuietNews DEF ObjectsQuiet
-----------------------------------------------------------------------------
(* The processes, time and faults.                                          *)

\* The dead stay dead.
Buried == \A p \in Procs : proc[p].st = "gone" => proc'[p].st = "gone"

LEMMA KilledBuries ==
  ASSUME Structure, NEW p \in 0..MaxProcs, proc' = Killed(p) \/ proc' = proc
  PROVE  Buried /\ (proc' = Killed(p) /\ p # 0 => p \in Procs /\ proc'[p].st = "gone")
<1>0. proc \in [Procs -> ProcType]
  BY SupFacts
<1>1. CASE proc' = proc /\ proc' # Killed(p)
  BY <1>1 DEF Buried
<1>2. CASE proc' = Killed(p) /\ p = 0
  BY <1>2 DEF Killed, Buried
<1>3. CASE proc' = Killed(p) /\ p # 0
  <2>1. p \in Procs /\ proc' = [proc EXCEPT ![p].st = "gone"]
    BY <1>3, Bounds DEF Procs, Killed
  <2>2. proc'[p].st = "gone" /\ \A q \in Procs : q # p => proc'[q] = proc[q]
    BY <1>0, <2>1 DEF ProcType
  <2> QED
    BY <2>1, <2>2 DEF Buried
<1> QED
  BY <1>1, <1>2, <1>3

LEMMA WorldStep ==
  ASSUME Structure, row' = row, Marked, UNCHANGED <<api, rec, call>>, Counts',
         sup' \in {sup, NoEntry, Down} \/ (\E p : sup' = Noticed(p))
  PROVE  Structure' /\ InTurn(row') /\ ObjectsAfter /\ ObjNews(0, 0) /\ Onward
<1>1. Grown /\ RowNext(row', proc') /\ ProcsAfter
  BY MarkedFacts, RowHolds
<1>2. SupAfter
  BY <1>1, SupQuiet
<1>3. RecsAfter
  BY <1>1, RestStays DEF RecsAfter
<1> QED
  BY <1>1, <1>2, <1>3, RecTogether

LEMMA ReturnsStep ==
  ASSUME Structure, SupervisorReturns
  PROVE  Structure' /\ InTurn(row') /\ ObjectsAfter /\ ObjNews(0, 0) /\ Onward /\ Marked
<1>0. /\ row' = row /\ UNCHANGED <<api, rec, call>> /\ proc' = proc /\ UNCHANGED world /\ sup' = NoEntry
  BY DEF SupervisorReturns
<1>1. Marked
  BY <1>0, SupFacts DEF Marked
<1>2. Counts'
  BY <1>0, Counted DEF Structure, world
<1> QED
  BY <1>0, <1>1, <1>2, WorldStep

\* The step of a process from one state to another.
LEMMA ProcTurns ==
  ASSUME Structure, NEW p \in Procs, NEW st \in {"up", "hung"}, proc[p].st \in {"booting", "up"},
         proc' = [proc EXCEPT ![p].st = st]
  PROVE  Marked /\ Buried
<1>0. proc \in [Procs -> ProcType]
  BY SupFacts
<1>1. /\ proc'[p].s = proc[p].s /\ proc'[p].st = st
      /\ \A q \in Procs : q # p => proc'[q] = proc[q]
  BY <1>0 DEF ProcType
<1>2. proc' \in [Procs -> ProcType]
  BY <1>0 DEF ProcType
<1> QED
  BY <1>1, <1>2 DEF Marked, Buried

LEMMA ListensStep ==
  ASSUME Structure, NEW p \in Procs, Listens(p)
  PROVE  /\ Structure' /\ InTurn(row') /\ ObjectsAfter /\ ObjNews(0, 0) /\ Onward /\ Marked /\ Buried
         /\ UNCHANGED <<row, api, rec, call, sup, outage>>
<1>0. /\ row' = row /\ UNCHANGED <<row, api, rec, call, sup, outage>> /\ sup' = sup /\ UNCHANGED world
      /\ UNCHANGED <<api, rec, call>>
      /\ proc[p].st = "booting" /\ proc' = [proc EXCEPT ![p].st = "up"]
  BY DEF Listens, world
<1>1. Marked /\ Buried
  BY <1>0, ProcTurns
<1>2. Counts'
  BY <1>0, Counted DEF Structure, world
<1>3. Structure' /\ InTurn(row') /\ ObjectsAfter /\ ObjNews(0, 0) /\ Onward
  BY <1>0, <1>1, <1>2, WorldStep
<1> QED
  BY <1>0, <1>1, <1>3

LEMMA HangsStep ==
  ASSUME Structure, NEW p \in Procs, Hangs(p)
  PROVE  /\ Structure' /\ InTurn(row') /\ ObjectsAfter /\ ObjNews(0, 0) /\ Onward /\ Marked /\ Buried
         /\ UNCHANGED <<row, api, rec, call, sup, outage>>
<1>0. /\ row' = row /\ UNCHANGED <<row, api, rec, call, sup, outage>> /\ sup' = sup
      /\ UNCHANGED <<api, rec, call>> /\ Fault("hang") /\ outage' = outage
      /\ proc[p].st = "up" /\ proc' = [proc EXCEPT ![p].st = "hung"]
  BY DEF Hangs, Up
<1>1. Marked /\ Buried
  BY <1>0, ProcTurns
<1>2. Counts'
  BY <1>0, Counted DEF Structure
<1>3. Structure' /\ InTurn(row') /\ ObjectsAfter /\ ObjNews(0, 0) /\ Onward
  BY <1>0, <1>1, <1>2, WorldStep
<1> QED
  BY <1>0, <1>1, <1>3

LEMMA ExitsStep ==
  ASSUME Structure, NEW p \in Procs, Exits(p)
  PROVE  /\ Structure' /\ InTurn(row') /\ ObjectsAfter /\ ObjNews(0, 0) /\ Onward /\ Marked /\ Buried
         /\ UNCHANGED <<row, api, rec, call, outage>> /\ sup' = Noticed(p)
<1>0. /\ row' = row /\ UNCHANGED <<row, api, rec, call, outage>> /\ sup' = Noticed(p)
      /\ UNCHANGED <<api, rec, call>> /\ Fault("exit") /\ outage' = outage
      /\ proc[p].st # "none" /\ proc' = Killed(p) /\ p \in 0..MaxProcs
  BY SupFacts, Bounds DEF Exits, Alive, Procs
<1>1. Marked /\ Buried
  <2>1. p # 0 => proc[p].s # 0
    BY <1>0 DEF Structure, ProcsGood
  <2> QED
    BY <1>0, <2>1, KilledMarks, KilledBuries
<1>2. Counts'
  BY <1>0, Counted DEF Structure
<1>3. Structure' /\ InTurn(row') /\ ObjectsAfter /\ ObjNews(0, 0) /\ Onward
  BY <1>0, <1>1, <1>2, WorldStep
<1> QED
  BY <1>0, <1>1, <1>3

LEMMA RecsSame ==
  ASSUME Structure, Grown, rec' = rec
  PROVE  RecsCalm
BY RestStays DEF RecsCalm, RecsAfter, RecCalm

LEMMA LapseCalm ==
  ASSUME Structure, Lapse \/ Stall
  PROVE  Calm
<1>0. /\ row.st \in Active /\ row' = [row EXCEPT !.lease = FALSE]
      /\ UNCHANGED mem /\ UNCHANGED obj /\ UNCHANGED start
      /\ UNCHANGED <<call, sup, proc>> /\ UNCHANGED rec /\ UNCHANGED proc /\ outage' = outage
  BY DEF Lapse, Stall, LeaseRunsOut, world, api
<1>1. ProcsGrow
  BY <1>0 DEF ProcsGrow
<1>2. RowStays(row', proc')
  BY <1>0, <1>1, RowLease
<1>3. RowCalm(row')
  BY <1>0, SupFacts DEF RowCalm, RowType
<1>4. Grown
  BY <1>1, <1>2, RowGrows
<1>5. ObjectsQuiet
  BY <1>0, <1>4, KeepNone
<1>6. MemAfter
  BY <1>0, <1>5, MemQuiet DEF ObjectsQuiet, ObjectsAfter
<1>7. Onward
  BY <1>0, StartSame
<1>8. RecsCalm
  BY <1>0, <1>4, RecsSame
<1>9. Counts'
  BY Counted DEF Structure, Lapse, Stall, world
<1> QED
  BY <1>0, <1>2, <1>3, <1>5, <1>6, <1>7, <1>8, <1>9 DEF Calm

\* The processes that a worker was killing.
Kills(w) ==
  {obj[o].kill : o \in {o \in Objects : obj[o].w = w /\ obj[o].stop = "killing"}} \cup ({rec[w].kill} \ {0})

LEMMA GoneFacts ==
  ASSUME Structure, NEW w \in Workers, Gone(w), Grown
  PROVE  /\ ObjectsQuiet /\ MemAfter /\ Onward /\ RecsCalm /\ (sup' = sup \/ sup' = NoEntry)
<1>0. /\ mem' = [mem EXCEPT ![w] = 0] /\ Leaves(w) /\ Rests(w) /\ (sup' = sup \/ sup' = NoEntry)
      /\ obj' = [o \in Objects |-> IF obj[o].w = w THEN NoObject ELSE obj[o]]
  BY DEF Gone
<1>1. obj' \in [Objects -> ObjectType] /\ ObjectsGood'
  <2>1. \A o \in Objects : obj'[o] \in ObjectType /\ ObjectGood(obj'[o], row'.s, proc')
    BY <1>0, ObjectFacts, NoObjectGood, NoObjectIs
  <2> QED
    BY <1>0, <2>1 DEF ObjectsGood
<1>2. Kept
  <2>1. ASSUME NEW v \in Workers, NEW o \in Objects, mem'[v] = o \/ start'[v].o = o, obj[o].w # NoWorker
        PROVE  Held(o)
    <3>0. o # 0
      BY Bounds DEF Objects
    <3>1. obj[o].w = v /\ v # w
      <4>1. CASE mem'[v] = o
        BY <1>0, <3>0, <4>1, MemFacts
      <4>2. CASE start'[v].o = o
        <5>1. v # w /\ start'[v] = start[v]
          BY <1>0, <3>0, <4>2, StartFacts, IdleIs DEF Leaves
        <5> QED
          BY <3>0, <4>2, <5>1, StartFacts
      <4> QED
        BY <2>1, <4>1, <4>2
    <3>2. obj'[o] = obj[o]
      BY <1>0, <3>1
    <3> QED
      BY <3>2 DEF Held
  <2> QED
    BY <2>1 DEF Kept
<1>3. ObjectsQuiet
  <2>1. ObjectsFollow
    BY <1>0 DEF ObjectsFollow
  <2> QED
    BY <1>1, <1>2, <2>1 DEF ObjectsQuiet, ObjectsAfter
<1>4. MemAfter
  BY <1>0, <1>2, MemQuiet
<1>5. Onward
  BY <1>0, StartLeaves
<1>6. RecsCalm
  BY <1>0, RecRests
<1> QED
  BY <1>0, <1>3, <1>4, <1>5, <1>6

LEMMA GoneMarks ==
  ASSUME Structure, NEW w \in Workers, Gone(w)
  PROVE  Marked /\ Buried
<1>0. proc \in [Procs -> ProcType]
  BY SupFacts
<1>1. proc' = [p \in Procs |-> IF p \in Kills(w) THEN [proc[p] EXCEPT !.st = "gone"] ELSE proc[p]]
  BY DEF Gone, Kills
<1>2. ASSUME NEW p \in Procs, p \in Kills(w)
      PROVE  proc[p].s # 0
  <2>0. p # 0
    BY Bounds DEF Procs
  <2>1. CASE \E o \in Objects : obj[o].stop = "killing" /\ p = obj[o].kill
    BY <2>0, <2>1, ObjectFacts DEF ObjectGood, Of
  <2>2. CASE p = rec[w].kill
    BY <2>0, <2>2, RecFacts DEF RecGood, Of
  <2> QED
    BY <1>2, <2>1, <2>2 DEF Kills
<1>3. ASSUME NEW p \in Procs
      PROVE  /\ proc'[p] \in ProcType /\ proc'[p].s = proc[p].s
             /\ proc'[p].st = "none" <=> proc[p].st = "none"
             /\ proc[p].st = "gone" => proc'[p].st = "gone"
  <2>0. proc[p] \in ProcType /\ (proc[p].st = "none" <=> proc[p].s = 0)
    BY <1>0 DEF Structure, ProcsGood
  <2>1. CASE p \in Kills(w)
    <3>1. proc'[p] = [proc[p] EXCEPT !.st = "gone"]
      BY <1>1, <2>1
    <3> QED
      BY <1>2, <2>0, <2>1, <3>1 DEF ProcType
  <2>2. CASE p \notin Kills(w)
    <3>1. proc'[p] = proc[p]
      BY <1>1, <2>2
    <3> QED
      BY <2>0, <3>1
  <2> QED
    BY <2>1, <2>2
<1> QED
  BY <1>1, <1>3 DEF Marked, Buried

LEMMA WorkerEndsStep ==
  ASSUME Structure, NEW w \in Workers, WorkerEnds(w)
  PROVE  /\ Structure' /\ InTurn(row') /\ ObjectsAfter /\ ObjNews(0, 0) /\ Onward /\ RecsCalm /\ Marked /\ Buried
         /\ RowCalm(row') /\ call' = call /\ outage' = outage /\ (sup' = sup \/ sup' = NoEntry)
<1>0. /\ Gone(w) /\ call' = call /\ outage' = outage /\ w # NoWorker
      /\ (\E kind : Fault(kind)) /\ (row' = row \/ (row.worker = w /\ row' = Freed(row)))
  BY Bounds DEF WorkerEnds
<1>1. Marked /\ Buried /\ ProcsGrow
  BY <1>0, GoneMarks, MarkedFacts
<1>2. RowStays(row', proc')
  <2>1. Of(0, row.s, proc') /\ 0 \in 0..MaxProcs /\ "failed" \in Ended
    BY Bounds DEF Of, Ended
  <2> QED
    BY <1>0, <1>1, <2>1, RowWrites, RowLease
<1>3. RowCalm(row')
  BY <1>0, SupFacts DEF RowCalm, Freed, RowType
<1>4. Grown /\ ProcsAfter
  BY <1>1, <1>2, RowGrows, MarkedFacts
<1>5. /\ ObjectsQuiet /\ MemAfter /\ Onward /\ RecsCalm /\ (sup' = sup \/ sup' = NoEntry)
  BY <1>0, <1>4, GoneFacts
<1>6. SupAfter /\ CallsAfter
  BY <1>0, <1>4, <1>5, SupQuiet, RestStays DEF CallsAfter
<1>7. Counts'
  BY <1>0, Counted DEF Structure
<1>8. Structure' /\ InTurn(row')
  BY <1>2, <1>4, <1>5, <1>6, <1>7, StepTogether DEF RowStays, ObjectsQuiet, Onward, RecsCalm
<1> QED
  BY <1>0, <1>1, <1>3, <1>5, <1>8, QuietNews DEF ObjectsQuiet
-----------------------------------------------------------------------------
(* The structure, and the turns of the sessions.                            *)

LEMMA StutterCalm ==
  ASSUME Structure, UNCHANGED vars
  PROVE  Calm
<1>0. /\ UNCHANGED <<row, rec, call, sup, proc>> /\ UNCHANGED <<row, proc>> /\ UNCHANGED mem
      /\ UNCHANGED world /\ obj' = obj /\ start' = start
  BY DEF vars, world
<1>1. ObjectsQuiet
  BY <1>0, Still, KeepNone
<1> QED
  BY <1>0, <1>1, StartSame, SameRow

LEMMA StartingStructure ==
  ASSUME Structure, NEW w \in Workers, StartAsked(w) \/ Starts(w) \/ StopAsked(w)
  PROVE  Structure' /\ InTurn(row')
<1>1. CASE StartAsked(w) \/ StopAsked(w)
  BY <1>1, StartAskedCalm, StopAskedCalm, CalmStructure
<1>2. CASE StartWaited(w) \/ StartRenews(w) \/ StartFails(w) \/ StartConfirms(w)
  BY <1>2, StartWaitedCalm, StartRenewsCalm, StartFailsCalm, StartConfirmsCalm, CalmStructure
<1>3. CASE Begin(w)
  BY <1>3, BeginCases, BeginsStep, CalmStructure
<1>4. CASE StartCalls(w) \/ StartCallFails(w)
  BY <1>4, StartCallsCases, StartCallFailsCases, AsksStep, CalmStructure
<1>5. CASE StartObserves(w)
  BY <1>5, StartObservesCases, FindsStep, CalmStructure
<1>6. CASE StartRecords(w)
  BY <1>6, StartRecordsCases, RecordsStep, CalmStructure
<1>7. CASE StartPersists(w)
  BY <1>7, StartPersistsCases, PersistsStep, CalmStructure
<1> QED
  BY <1>1, <1>2, <1>3, <1>4, <1>5, <1>6, <1>7 DEF Starts

LEMMA RecoveringStructure ==
  ASSUME Structure, NEW w \in Workers, Recoveries(w) \/ WorkerEnds(w)
  PROVE  Structure' /\ InTurn(row')
<1>1. CASE RecoverClaims(w)
  BY <1>1, RecoverClaimsStep
<1>2. CASE RecoverObserves(w)
  BY <1>2, RecoverObservesCases, SpotsStep, CalmStructure
<1>3. CASE RecoverSaves(w)
  BY <1>3, RecoverSavesCases, SavesStep, CalmStructure
<1>4. CASE RecoverChecks(w)
  BY <1>4, RecoverChecksCases, ReadoptsStep, CalmStructure
<1>5. CASE RecoverKills(w)
  BY <1>5, RecoverKillsStep
<1>6. CASE RecoverFails(w)
  BY <1>6, RecoverFailsCalm, CalmStructure
<1>7. CASE RecoverAdopts(w)
  BY <1>7, RecoverAdoptsCases, RemembersStep, CalmStructure
<1>8. CASE WorkerEnds(w)
  BY <1>8, WorkerEndsStep
<1> QED
  BY <1>1, <1>2, <1>3, <1>4, <1>5, <1>6, <1>7, <1>8 DEF Recoveries

LEMMA StoppingStructure ==
  ASSUME Structure, NEW o \in Objects, Stops(o) \/ Heartbeats(o)
  PROVE  Structure' /\ InTurn(row')
<1>1. CASE StopCalls(o)
  BY <1>1, StopCallsCases, ConfirmsStep, CalmStructure
<1>2. CASE StopKills(o)
  BY <1>2, StopKillsStep
<1>3. CASE StopFails(o) \/ StopWrites(o)
  BY <1>3, StopFailsCalm, StopWritesCalm, CalmStructure
<1>4. CASE HeartbeatFires(o)
  BY <1>4, HeartbeatFiresCases, VerifiesStep, CalmStructure
<1>5. CASE HeartbeatRenews(o) \/ HeartbeatEnds(o)
  BY <1>5, HeartbeatRenewsCalm, HeartbeatEndsCalm, CalmStructure
<1>6. CASE HeartbeatObserves(o)
  BY <1>6, HeartbeatObservesCases, SeesStep, CalmStructure
<1>7. CASE HeartbeatSettles(o)
  BY <1>7, HeartbeatSettlesCases, SettlesStep, CalmStructure
<1> QED
  BY <1>1, <1>2, <1>3, <1>4, <1>5, <1>6, <1>7 DEF Stops, Heartbeats

LEMMA ServingStructure ==
  ASSUME Structure, NEW s \in Sessions, Serves(s)
  PROVE  Structure' /\ InTurn(row')
<1>1. CASE SupervisorStarts(s)
  BY <1>1, StartsCases, RefusesIs, SpawnsStep
<1>2. CASE SupervisorReady(s)
  BY <1>2, ReadyCases
<1>3. CASE SupervisorGivesUp(s)
  BY <1>3, GivesUpStep
<1> QED
  BY <1>1, <1>2, <1>3 DEF Serves

LEMMA StructureStep ==
  ASSUME Structure, [Next]_vars
  PROVE  Structure' /\ InTurn(row')
<1>1. ASSUME NEW w \in Workers, StartAsked(w) \/ Starts(w) \/ StopAsked(w) \/ Recoveries(w) \/ WorkerEnds(w)
      PROVE  Structure' /\ InTurn(row')
  BY <1>1, StartingStructure, RecoveringStructure
<1>2. ASSUME NEW o \in Objects, Stops(o) \/ Heartbeats(o)
      PROVE  Structure' /\ InTurn(row')
  BY <1>2, StoppingStructure
<1>3. ASSUME NEW s \in Sessions, Serves(s)
      PROVE  Structure' /\ InTurn(row')
  BY <1>3, ServingStructure
<1>4. ASSUME NEW p \in Procs, Listens(p) \/ Exits(p) \/ Hangs(p)
      PROVE  Structure' /\ InTurn(row')
  BY <1>4, ListensStep, ExitsStep, HangsStep
<1>5. CASE SupervisorStops \/ SupervisorReturns
  BY <1>5, SupervisorStopsStep, ReturnsStep
<1>6. CASE Lapse \/ Stall \/ UNCHANGED vars
  BY <1>6, LapseCalm, StutterCalm, CalmStructure
<1> QED
  BY <1>1, <1>2, <1>3, <1>4, <1>5, <1>6 DEF Next

LEMMA StructureInit ==
  ASSUME Init
  PROVE  Structure
<1>0. /\ 0 \in 0..MaxSessions /\ 0 \in 0..MaxProcs /\ 0 \in 0..MaxObjects /\ 0 \in 0..MaxFaults
      /\ 0 \in 0..MaxRequests
  BY Bounds
<1>1. row \in RowType /\ RowGood /\ row.s = 0 /\ row.s \in Nat
  BY <1>0 DEF Init, RowType, RowGood, RowFine, Of, Active
<1>2. /\ proc \in [Procs -> ProcType] /\ ProcsGood
  BY <1>0 DEF Init, ProcType, ProcsGood
<1>3. obj \in [Objects -> ObjectType] /\ ObjectsGood /\ mem \in [Workers -> 0..MaxObjects] /\ MemGood
  BY <1>0, NoObjectGood, NoObjectIs DEF Init, ObjectsGood, MemGood
<1>4. start \in [Workers -> StartType] /\ StartsGood
  BY IdleIs DEF Init, StartsGood, StartGood, Stages
<1>5. rec \in [Workers -> RecType] /\ RecsGood
  <2>1. NoRecovery \in RecType /\ RecGood(NoRecovery, 0, proc)
    BY <1>0 DEF NoRecovery, RecType, RecGood, Of
  <2> QED
    BY <1>1, <2>1 DEF Init, RecsGood
<1>6. call \in [Sessions -> CallType] /\ CallsGood
  BY <1>0 DEF Init, NoCall, CallType, CallsGood
<1>7. sup \in SupType /\ SupGood
  BY <1>0, <1>1 DEF Init, NoEntry, SupType, SupGood, Of
<1>8. Counts
  BY <1>0 DEF Init, Counts
<1>9. ApiTypes
  BY <1>3, <1>4 DEF ApiTypes
<1> QED
  BY <1>1, <1>2, <1>3, <1>4, <1>5, <1>6, <1>7, <1>8, <1>9, TypeShape DEF Structure

\* In every state the pids and sessions that the row, the objects, the starts, the recoveries,
\* the requests and the supervisor hold belong together.
THEOREM StructureHolds == Spec => []Structure
<1>1. Structure /\ [Next]_vars => Structure'
  BY StructureStep
<1> QED
  BY <1>1, StructureInit, PTL DEF Spec

\* The variables keep their types.
THEOREM TypesHold == Spec => []TypeOK
<1>1. Structure => TypeOK
  BY DEF Structure
<1> QED
  BY <1>1, StructureHolds, PTL

\* A live lease keeps a session from every other worker, and a session that ended never comes
\* back (begin, claimRecovery, updateOwnedSession): whatever a worker writes that stalled between
\* its question and its answer.
THEOREM SessionsGoInTurn == Spec => SessionsInTurn
<1>1. Structure /\ [Next]_vars =>
        (/\ row.st \in Active /\ row.lease => row'.s = row.s /\ row'.worker \in {row.worker, NoWorker}
         /\ row.st \in Ended /\ row'.s = row.s => row'.st \in Ended)
  BY StructureStep DEF InTurn
<1> QED
  BY <1>1, StructureHolds, PTL DEF Spec, SessionsInTurn
-----------------------------------------------------------------------------
(* One process of a session, as long as the supervisor answers.             *)

LEMMA SessionStays ==
  ASSUME Structure, ObjectsAfter, StartsStep, NEW w \in Workers, start'[w].at \in Stages
  PROVE  /\ start[w].at \in Stages /\ start[w].o # 0 /\ Session(w) \in Sessions /\ Session(w)' = Session(w)
         /\ start'[w].pid = start[w].pid
<1>1. Goes1(w)
  BY DEF StartsStep, Frees, Waits, Stages
<1>2. start[w].at \in Stages /\ start[w].o # 0 /\ start'[w].o = start[w].o /\ start'[w].pid = start[w].pid
  BY <1>1 DEF Goes1
<1>3. Session(w) \in Sessions
  BY <1>2, StartFacts, SupFacts, Bounds DEF Sessions
<1> QED
  BY <1>2, <1>3, StartFacts DEF ObjectsAfter, Kept, Held, Session

\* The start of w asks for no process of a session that had one.
Silent(w) ==
  start'[w].at \in Stages =>
    \/ /\ \A p \in Procs : proc'[p].s # Session(w)'
       /\ start'[w].at \in {"renew", "ready"} => call'[Session(w)'].at = "none"
    \/ /\ start[w].at \in Stages /\ Session(w)' = Session(w)
       /\ call'[Session(w)].at \in {"none", call[Session(w)].at}
       /\ start'[w].at \in {"renew", "ready"} => start[w].at \in {"renew", "ready"}
       /\ start'[w].at = "call" =>
            /\ start[w].at = "call"
            /\ call[Session(w)].at = "boot" => call'[Session(w)].at = "boot"

\* Dead after the step.
Fallen(s) == \E p \in Procs : proc'[p].s = s /\ proc'[p].st = "gone"

\* No process is spawned or asked for, and what is said to be stopped is session k or was
\* said to be stopped before.
Mourns(k) ==
  /\ k = 0 \/ Fallen(k)
  /\ outage' = outage /\ Buried /\ \A p \in Procs : proc'[p].s = proc[p].s
  /\ \A s \in Sessions : call'[s].at \in {"none", call[s].at} \/ \A p \in Procs : proc'[p].s # s
  /\ \A w \in Workers : Silent(w)
  /\ \A x \in Objects : obj'[x].sure /\ obj'[x].s # k => obj[x].sure /\ obj[x].s = obj'[x].s
  /\ sup'.s # 0 /\ sup'.pid = 0 => (sup.s = sup'.s /\ sup.pid = 0) \/ sup'.s = k
  /\ row'.st = "stopped" => row'.s = row.s /\ (row.st = "stopped" \/ SureOf(row.s))

LEMMA MournsKeeps ==
  ASSUME Structure, Structure', GoneInv, NEW k, Mourns(k), ~outage'
  PROVE  GoneInv'
<1>0. ~outage /\ OneProcess /\ StopsSure
  BY DEF Mourns, GoneInv
<1>1. \A s : Dead(s) => Fallen(s)
  BY DEF Mourns, Buried, Dead, Fallen
<1>2. OneProcess'
  <2>1. \A p, q \in Procs : proc'[p].s # 0 /\ proc'[q].s = proc'[p].s => p = q
    BY <1>0 DEF Mourns, OneProcess
  <2>2. ASSUME NEW p \in Procs, proc'[p].s # 0
        PROVE  call'[proc'[p].s].at # "sent"
    <3>1. proc'[p].s = proc[p].s /\ call[proc[p].s].at # "sent"
      BY <1>0, <2>2 DEF Mourns, OneProcess
    <3>2. proc[p].s \in Sessions
      BY <2>2, <3>1, SupFacts, Bounds DEF ProcType, Sessions
    <3> QED
      BY <3>1, <3>2 DEF Mourns
  <2>3. ASSUME NEW p \in Procs, proc'[p].s # 0, NEW w \in Workers, start'[w].at \in Stages,
               Session(w)' = proc'[p].s
        PROVE  /\ start'[w].at \notin {"renew", "ready"}
               /\ start'[w].at = "call" => call'[proc'[p].s].at = "boot"
    <3>1. Silent(w) /\ proc'[p].s = proc[p].s
      BY DEF Mourns
    <3> QED
      BY <1>0, <2>3, <3>1 DEF Silent, OneProcess
  <2>4. ASSUME NEW w \in Workers, start'[w].at \in {"renew", "ready"}
        PROVE  call'[Session(w)'].at = "none"
    <3>1. Silent(w) /\ start'[w].at \in Stages
      BY <2>4 DEF Mourns, Stages
    <3> QED
      BY <1>0, <2>4, <3>1 DEF Silent, OneProcess
  <2> QED
    BY <2>1, <2>2, <2>3, <2>4 DEF OneProcess
<1>3. StopsSure'
  <2>1. ASSUME NEW x \in Objects, obj'[x].sure
        PROVE  Fallen(obj'[x].s)
    <3>1. CASE obj'[x].s # k
      BY <1>0, <1>1, <2>1, <3>1 DEF Mourns, StopsSure
    <3>2. CASE obj'[x].s = k
      <4>1. ObjectGood(obj'[x], row'.s, proc')
        BY DEF Structure, ObjectsGood
      <4>2. obj'[x].s # 0
        BY <2>1, <4>1, NoObjectNews DEF ObjectGood
      <4> QED
        BY <3>2, <4>2 DEF Mourns
    <3> QED
      BY <3>1, <3>2
  <2>2. sup'.s # 0 /\ sup'.pid = 0 => Fallen(sup'.s)
    BY <1>0, <1>1 DEF Mourns, StopsSure
  <2>3. row'.st = "stopped" => Fallen(row'.s)
    BY <1>0, <1>1 DEF Mourns, StopsSure, SureOf
  <2> QED
    BY <2>1, <2>2, <2>3 DEF StopsSure, Dead, Fallen
<1> QED
  BY <1>2, <1>3 DEF GoneInv

LEMMA OnwardSilent ==
  ASSUME Structure, ObjectsAfter, Onward, NEW w \in Workers,
         \A s \in Sessions : call'[s] = call[s]
  PROVE  Silent(w)
<1>1. start'[w].at \in Stages =>
        /\ start[w].at \in Stages /\ Session(w)' = Session(w) /\ call'[Session(w)] = call[Session(w)]
  BY SessionStays DEF Onward
<1> QED
  BY <1>1 DEF Silent, Onward, StartsCalm, StartCalm

\* What a step says of the row and the supervisor.
RowMourns == row'.st = "stopped" => row'.s = row.s /\ (row.st = "stopped" \/ SureOf(row.s))
SupMourns(k) == sup'.s # 0 /\ sup'.pid = 0 => (sup.s = sup'.s /\ sup.pid = 0) \/ sup'.s = k

LEMMA OnwardMourns ==
  ASSUME Structure, ObjectsAfter, Onward, call' = call, NEW l, NEW k, ObjNews(l, k), outage' = outage,
         k = 0 \/ Fallen(k), Buried, \A p \in Procs : proc'[p].s = proc[p].s, SupMourns(k), RowMourns
  PROVE  Mourns(k)
<1>1. \A w \in Workers : Silent(w)
  BY OnwardSilent
<1>2. \A x \in Objects : obj'[x].sure /\ obj'[x].s # k => obj[x].sure /\ obj[x].s = obj'[x].s
  BY DEF ObjNews
<1>3. \A s \in Sessions : call'[s].at \in {"none", call[s].at}
  OBVIOUS
<1> QED
  BY <1>1, <1>2, <1>3 DEF Mourns, SupMourns, RowMourns

LEMMA ProcSame ==
  ASSUME proc' = proc
  PROVE  Buried /\ \A p \in Procs : proc'[p].s = proc[p].s
BY DEF Buried

LEMMA MarkedSame ==
  ASSUME Marked
  PROVE  \A p \in Procs : proc'[p].s = proc[p].s
BY DEF Marked

LEMMA CalmMourns ==
  ASSUME Structure, Calm
  PROVE  Mourns(0)
<1>1. /\ ObjectsAfter /\ Onward /\ call' = call /\ proc' = proc /\ sup' = sup /\ outage' = outage
      /\ RowCalm(row') /\ ObjNews(0, 0)
  BY QuietNews DEF Calm, ObjectsQuiet
<1>2. SupMourns(0) /\ RowMourns
  BY <1>1 DEF SupMourns, RowMourns, RowCalm
<1> QED
  BY <1>1, <1>2, ProcSame, OnwardMourns

\* A step of the API processes.
LEMMA ApiMourns ==
  ASSUME Structure, ObjectsAfter, Onward, UNCHANGED <<call, proc>>, UNCHANGED world,
         NEW l, ObjNews(l, 0), row' = row \/ (row'.s = row.s /\ row'.st # "stopped"),
         sup' = sup \/ sup' = NoEntry \/ sup'.pid # 0
  PROVE  Mourns(0)
<1>1. SupMourns(0) /\ RowMourns
  BY DEF SupMourns, RowMourns, NoEntry
<1> QED
  BY <1>1, ProcSame, OnwardMourns DEF world

LEMMA AsksMourns ==
  ASSUME Structure, GoneInv, ~outage, NEW w \in Workers, Asks(w)
  PROVE  Mourns(0)
<1>0. /\ UNCHANGED row /\ UNCHANGED mem /\ UNCHANGED obj /\ UNCHANGED sup /\ UNCHANGED proc
      /\ outage' = outage /\ OneProcess /\ start[w].at \in Stages
      /\ start[w].at = "ready" \/ (start[w].at = "call" /\ call[Session(w)].at = "none")
  BY DEF Asks, GoneInv, world, Stages
<1>1. Session(w) \in Sessions /\ Session(w) # 0 /\ start \in [Workers -> StartType] /\ start[w].o # 0
  BY <1>0, StartFacts, SupFacts, Bounds DEF Sessions
<1>2. \A p \in Procs : proc[p].s # Session(w)
  BY <1>0, <1>1 DEF OneProcess
<1>3. \A t \in Sessions : t # Session(w) => call'[t] = call[t]
  BY <1>1, CallFacts DEF Asks, Sent
<1>4. \A v \in Workers : v # w => start'[v] = start[v]
  BY <1>1 DEF Asks
<1>5. PICK n \in {1, 2} : start' = [start EXCEPT ![w].at = "call", ![w].n = n]
  BY DEF Asks
<1>6. start'[w].at = "call" /\ start'[w].o = start[w].o
  BY <1>1, <1>5 DEF StartType
<1>7. Silent(w)
  BY <1>0, <1>2, <1>6 DEF Silent, Session
<1>8. ASSUME NEW v \in Workers, v # w
      PROVE  Silent(v)
  <2>1. ASSUME start[v].at \in Stages
        PROVE  Session(v) \in Sessions /\ Session(v) # Session(w)
    BY <1>0, <1>8, <2>1, StartFacts, SupFacts, Bounds DEF Sessions, Structure, StartsGood
  <2> QED
    BY <1>0, <1>3, <1>4, <1>8, <2>1 DEF Silent, Session
<1>9. Buried /\ \A p \in Procs : proc'[p].s = proc[p].s
  BY <1>0, ProcSame
<1> QED
  BY <1>0, <1>2, <1>3, <1>7, <1>8, <1>9 DEF Mourns

LEMMA BeginsMourns ==
  ASSUME Structure, NEW w \in Workers, Begins(w)
  PROVE  Mourns(0)
<1>0. /\ call' = call /\ proc' = proc /\ sup' = sup /\ outage' = outage /\ row.s < MaxSessions
  BY DEF Begins, world
<1>1. /\ ObjectsAfter /\ ObjNews(0, 0) /\ row'.st = "starting"
      /\ start'[w].at = "renew" /\ Session(w)' = row.s + 1
      /\ \A v \in Workers : v # w => start'[v] = start[v]
  BY BeginsStep
<1>2. Silent(w)
  <2>1. row.s + 1 \in Sessions
    BY <1>0, SupFacts, Bounds DEF Sessions
  <2>2. \A p \in Procs : proc[p].s # row.s + 1
    BY SupFacts, Bounds DEF Structure, ProcsGood, ProcType
  <2>3. call[row.s + 1].at = "none"
    BY <2>1, SupFacts, Bounds DEF Structure, CallsGood
  <2> QED
    BY <1>0, <1>1, <2>2, <2>3 DEF Silent
<1>3. ASSUME NEW v \in Workers, v # w
      PROVE  Silent(v)
  <2>1. ASSUME start[v].at \in Stages
        PROVE  Session(v)' = Session(v)
    BY <1>1, <1>3, <2>1, StartFacts DEF ObjectsAfter, Kept, Held, Session
  <2> QED
    BY <1>0, <1>1, <1>3, <2>1 DEF Silent
<1>4. Buried /\ \A p \in Procs : proc'[p].s = proc[p].s
  BY <1>0, ProcSame
<1> QED
  BY <1>0, <1>1, <1>2, <1>3, <1>4 DEF Mourns, ObjNews

LEMMA FindsMourns ==
  ASSUME Structure, NEW w \in Workers, Finds(w)
  PROVE  Mourns(0)
<1>0. /\ row' = row /\ call' = call /\ proc' = proc /\ sup' = sup /\ outage' = outage
      /\ start[w].at = "look" /\ start' = [start EXCEPT ![w].at = "record", ![w].pid = sup.pid]
  BY DEF Finds, world
<1>1. ObjectsAfter /\ ObjNews(Session(w), 0)
  BY FindsStep
<1>2. start[w].at \in Stages /\ start \in [Workers -> StartType]
  BY <1>0, StartFacts DEF Stages
<1>3. \A v \in Workers : start'[v] = start[v] \/ (v = w /\ start'[v].at = "record" /\ start'[v].o = start[v].o)
  BY <1>0, <1>2 DEF StartType
<1>4. ASSUME NEW v \in Workers
      PROVE  Silent(v)
  <2>1. ASSUME start[v].at \in Stages
        PROVE  Session(v)' = Session(v)
    BY <1>1, <1>3, <2>1, StartFacts DEF ObjectsAfter, Kept, Held, Session
  <2> QED
    BY <1>0, <1>2, <1>3, <2>1 DEF Silent
<1>5. Buried /\ \A p \in Procs : proc'[p].s = proc[p].s
  BY <1>0, ProcSame
<1> QED
  BY <1>0, <1>1, <1>4, <1>5 DEF Mourns, ObjNews

LEMMA RecordsMourns ==
  ASSUME Structure, NEW w \in Workers, Records(w)
  PROVE  Mourns(0)
<1>0. /\ row'.st # "stopped" /\ call' = call /\ proc' = proc /\ sup' = sup /\ outage' = outage
      /\ start[w].at = "record" /\ start' = [start EXCEPT ![w].at = "confirm"]
  BY SupFacts DEF Records, world, Goes, RowType
<1>1. ObjectsAfter /\ ObjNews(0, 0) /\ StartsStep
  BY RecordsStep
<1>2. \A v \in Workers : start'[v] = start[v] \/ start'[v].at = "confirm"
  BY <1>0, StartFacts DEF StartType
<1>3. \A v \in Workers : Silent(v)
  BY <1>0, <1>1, <1>2, SessionStays DEF Silent
<1>5. Buried /\ \A p \in Procs : proc'[p].s = proc[p].s
  BY <1>0, ProcSame
<1> QED
  BY <1>0, <1>1, <1>3, <1>5 DEF Mourns, ObjNews

LEMMA ConfirmsMourns ==
  ASSUME Structure, GoneInv, ~outage, NEW o \in Objects, Confirms(o)
  PROVE  Mourns(obj[o].s)
<1>0. /\ row' = row /\ start' = start /\ call' = call /\ proc' = proc /\ sup' = NoEntry /\ outage' = outage
      /\ obj[o].stop = "call" /\ sup.s = obj[o].s /\ sup.pid = 0 /\ StopsSure
  BY DEF Confirms, world, GoneInv
<1>1. ObjectsAfter /\ ObjNews(0, obj[o].s) /\ Onward
  BY <1>0, ConfirmsStep, StartSame
<1>2. Fallen(obj[o].s)
  <2>1. obj[o].s # 0
    BY <1>0, ObjectFacts DEF ObjectGood
  <2> QED
    BY <1>0, <2>1 DEF StopsSure, Dead, Fallen
<1>3. SupMourns(obj[o].s) /\ RowMourns
  BY <1>0 DEF SupMourns, RowMourns, NoEntry
<1> QED
  BY <1>0, <1>1, <1>2, <1>3, ProcSame, OnwardMourns

LEMMA StopKillsMourns ==
  ASSUME Structure, NEW o \in Objects, StopKills(o)
  PROVE  Mourns(obj[o].s)
<1>0. /\ row' = row /\ start' = start /\ call' = call /\ proc' = Killed(obj[o].kill)
      /\ sup' = NoEntry /\ outage' = outage /\ obj[o].stop = "killing"
  BY DEF StopKills, world
<1>1. ObjectsAfter /\ ObjNews(0, obj[o].s) /\ Onward /\ Marked
  BY <1>0, StopKillsStep, StartSame
<1>2. /\ obj[o].kill # 0 /\ obj[o].kill \in 0..MaxProcs /\ proc[obj[o].kill].s = obj[o].s
  BY <1>0, ObjectFacts DEF ObjectGood, ObjectType, Of
<1>3. Buried /\ Fallen(obj[o].s)
  BY <1>0, <1>1, <1>2, KilledBuries, MarkedSame DEF Fallen
<1>4. SupMourns(obj[o].s) /\ RowMourns
  BY <1>0 DEF SupMourns, RowMourns, NoEntry
<1> QED
  BY <1>0, <1>1, <1>3, <1>4, MarkedSame, OnwardMourns

LEMMA RecoverKillsMourns ==
  ASSUME Structure, NEW w \in Workers, RecoverKills(w)
  PROVE  Mourns(0)
<1>0. /\ row' = row /\ call' = call /\ outage' = outage
      /\ \/ proc' = Killed(rec[w].kill) /\ sup' = NoEntry
         \/ proc' = Killed(rec[w].pid) /\ sup' = Noticed(rec[w].pid)
  BY DEF RecoverKills, world
<1>1. ObjectsAfter /\ ObjNews(0, 0) /\ Onward /\ Marked
  BY RecoverKillsStep
<1>2. Buried
  BY <1>0, RecFacts, KilledBuries
<1>3. SupMourns(0) /\ RowMourns
  BY <1>0, SupFacts DEF SupMourns, RowMourns, NoEntry, Noticed, SupType
<1> QED
  BY <1>0, <1>1, <1>2, <1>3, MarkedSame, OnwardMourns

LEMMA ServedSilent ==
  ASSUME Structure, NEW s \in Sessions, NEW p, Served(s, p)
  PROVE  /\ \A w \in Workers : Silent(w)
         /\ \A t \in Sessions : call'[t].at \in {"none", call[t].at}
<1>1. ASSUME NEW w \in Workers
      PROVE  Silent(w)
  <2>1. ASSUME start[w].at \in Stages
        PROVE  Session(w) \in Sessions
    BY <2>1, StartFacts, SupFacts, Bounds DEF Sessions
  <2>2. CASE start'[w] = start[w] /\ ~(start[w].at = "call" /\ Session(w) = s)
    BY <2>1, <2>2 DEF Silent, Served
  <2>3. CASE start[w].at = "call" /\ Session(w) = s /\ start'[w].at = "record"
    BY <2>1, <2>3 DEF Silent, Served
  <2> QED
    BY <2>2, <2>3 DEF Served
<1>2. \A t \in Sessions : call'[t].at \in {"none", call[t].at}
  BY DEF Served
<1> QED
  BY <1>1, <1>2

LEMMA ServedMourns ==
  ASSUME Structure, Structure', NEW s \in Sessions, NEW p, Served(s, p), UNCHANGED <<row, world>>, NEW k,
         k = 0 \/ Fallen(k), Buried, \A q \in Procs : proc'[q].s = proc[q].s, SupMourns(k)
  PROVE  Mourns(k)
<1>1. outage' = outage /\ row' = row
  BY DEF world
<1>2. \A x \in Objects : obj'[x].sure => obj[x].sure /\ obj[x].s = obj'[x].s
  <2>1. ASSUME NEW x \in Objects, obj'[x].sure, obj'[x].s # 0
        PROVE  obj[x].sure /\ obj[x].s = obj'[x].s
    BY <2>1 DEF Served, ObjNews
  <2>2. ASSUME NEW x \in Objects, obj'[x].sure
        PROVE  obj'[x].s # 0
    <3>1. ObjectGood(obj'[x], row'.s, proc')
      BY DEF Structure, ObjectsGood
    <3> QED
      BY <2>2, <3>1, NoObjectNews DEF ObjectGood
  <2> QED
    BY <2>1, <2>2
<1> QED
  BY <1>1, <1>2, ServedSilent DEF Mourns, SupMourns

LEMMA SpawnsGone ==
  ASSUME Structure, Structure', GoneInv, ~outage, NEW s \in Sessions, Spawns(s)
  PROVE  GoneInv'
<1>0. /\ row' = row /\ rec' = rec /\ outage' = outage /\ mem' = mem /\ obj' = obj /\ start' = start
      /\ call[s].at = "sent" /\ OneProcess /\ StopsSure
  BY DEF Spawns, api, world, GoneInv
<1>1. PICK p \in Procs :
        /\ proc[p].st = "none" /\ proc' = [proc EXCEPT ![p] = [s |-> s, st |-> "booting"]]
        /\ sup' = [s |-> s, st |-> "starting", pid |-> p, watched |-> TRUE]
        /\ call' = [call EXCEPT ![s] = [at |-> "boot", pid |-> p]]
  BY DEF Spawns
<1>2. /\ proc'[p] = [s |-> s, st |-> "booting"] /\ \A q \in Procs : q # p => proc'[q] = proc[q]
      /\ call'[s] = [at |-> "boot", pid |-> p] /\ \A t \in Sessions : t # s => call'[t] = call[t]
      /\ proc[p].s = 0 /\ p # 0 /\ s # 0
  BY <1>1, CallFacts, SupFacts, Bounds DEF Procs, Structure, ProcsGood
<1>3. \A q \in Procs : proc[q].s # s
  BY <1>0, <1>2 DEF OneProcess
<1>4. OneProcess'
  <2>1. \A q, r \in Procs : proc'[q].s # 0 /\ proc'[r].s = proc'[q].s => q = r
    BY <1>0, <1>2, <1>3 DEF OneProcess
  <2>2. ASSUME NEW w \in Workers, start[w].at \in {"renew", "ready"}
        PROVE  /\ call[Session(w)].at = "none" /\ Session(w) # s /\ Session(w) \in Sessions
               /\ call'[Session(w)].at = "none"
    <3>1. call[Session(w)].at = "none" /\ Session(w) \in Sessions
      BY <1>0, <2>2, StartFacts, SupFacts, Bounds DEF OneProcess, Stages, Sessions
    <3> QED
      BY <1>0, <1>2, <3>1
  <2>3. ASSUME NEW q \in Procs, proc'[q].s # 0
        PROVE  /\ call'[proc'[q].s].at # "sent"
               /\ \A w \in Workers : start'[w].at \in Stages /\ Session(w)' = proc'[q].s =>
                    /\ start'[w].at \notin {"renew", "ready"}
                    /\ start'[w].at = "call" => call'[proc'[q].s].at = "boot"
    <3>1. CASE q = p
      <4>1. proc'[q].s = s /\ call'[s].at = "boot"
        BY <1>2, <3>1
      <4> QED
        BY <1>0, <2>2, <4>1 DEF Session
    <3>2. CASE q # p
      <4>1. proc'[q].s = proc[q].s /\ proc[q].s # s /\ proc[q].s \in Sessions
        BY <1>2, <1>3, <2>3, <3>2, SupFacts, Bounds DEF ProcType, Sessions
      <4>2. call'[proc[q].s] = call[proc[q].s]
        BY <1>2, <4>1
      <4> QED
        BY <1>0, <2>3, <4>1, <4>2 DEF OneProcess, Session
    <3> QED
      BY <3>1, <3>2
  <2>4. \A w \in Workers : start'[w].at \in {"renew", "ready"} => call'[Session(w)'].at = "none"
    BY <1>0, <2>2 DEF Session
  <2> QED
    BY <2>1, <2>3, <2>4 DEF OneProcess
<1>5. StopsSure'
  <2>1. \A t : Dead(t) => Fallen(t)
    BY <1>1, <1>2 DEF Dead, Fallen
  <2>2. sup'.pid # 0
    BY <1>1, <1>2
  <2> QED
    BY <1>0, <2>1, <2>2 DEF StopsSure, Dead, Fallen
<1> QED
  BY <1>4, <1>5 DEF GoneInv

LEMMA StartingGone ==
  ASSUME Structure, GoneInv, ~outage', NEW w \in Workers, StartAsked(w) \/ Starts(w) \/ StopAsked(w)
  PROVE  GoneInv'
<1>0. Structure'
  BY StartingStructure
<1>a. ~outage
  BY DEF StartAsked, StopAsked, Starts, StartWaited, Begin, StartRenews, StartCalls, StartCallFails,
         StartObserves, StartFails, StartRecords, StartConfirms, StartPersists, world, Requested
<1>1. CASE StartAsked(w) \/ StopAsked(w)
  BY <1>0, <1>1, StartAskedCalm, StopAskedCalm, CalmMourns, MournsKeeps
<1>2. CASE StartWaited(w) \/ StartRenews(w) \/ StartFails(w) \/ StartConfirms(w)
  BY <1>0, <1>2, StartWaitedCalm, StartRenewsCalm, StartFailsCalm, StartConfirmsCalm, CalmMourns, MournsKeeps
<1>3. CASE Begin(w)
  BY <1>0, <1>3, BeginCases, BeginsMourns, CalmMourns, MournsKeeps
<1>4. CASE StartCalls(w) \/ StartCallFails(w)
  BY <1>0, <1>a, <1>4, StartCallsCases, StartCallFailsCases, AsksMourns, CalmMourns, MournsKeeps
<1>5. CASE StartObserves(w)
  BY <1>0, <1>5, StartObservesCases, FindsMourns, CalmMourns, MournsKeeps
<1>6. CASE StartRecords(w)
  BY <1>0, <1>6, StartRecordsCases, RecordsMourns, CalmMourns, MournsKeeps
<1>7. CASE StartPersists(w)
  <2>1. ASSUME Persists(w)
        PROVE  Mourns(0)
    <3>1. /\ row'.s = row.s /\ row'.st # "stopped" /\ sup' = sup
          /\ UNCHANGED <<call, proc>> /\ UNCHANGED world
      BY <2>1, SupFacts DEF Persists, world, RowType
    <3>2. ObjectsAfter /\ ObjNews(0, 0) /\ Onward
      BY <2>1, PersistsStep
    <3> QED
      BY <3>1, <3>2, ApiMourns
  <2> QED
    BY <1>0, <1>7, <2>1, StartPersistsCases, CalmMourns, MournsKeeps
<1> QED
  BY <1>1, <1>2, <1>3, <1>4, <1>5, <1>6, <1>7 DEF Starts

LEMMA RecoveringGone ==
  ASSUME Structure, GoneInv, ~outage', NEW w \in Workers, Recoveries(w) \/ WorkerEnds(w)
  PROVE  GoneInv'
<1>0. Structure'
  BY RecoveringStructure
<1>1. CASE RecoverClaims(w)
  <2>1. /\ row'.s = row.s /\ row'.st # "stopped" /\ sup' = sup /\ UNCHANGED <<call, proc>> /\ UNCHANGED world
    BY <1>1, SupFacts DEF RecoverClaims, Claimable, Active, world, RowType
  <2>2. ObjectsAfter /\ ObjNews(0, 0) /\ Onward
    BY <1>1, RecoverClaimsStep
  <2> QED
    BY <1>0, <2>1, <2>2, ApiMourns, MournsKeeps
<1>2. CASE RecoverObserves(w)
  <2>1. ASSUME Spots(w)
        PROVE  Mourns(0)
    <3>1. row' = row /\ sup' = sup /\ UNCHANGED <<call, proc>> /\ UNCHANGED world
      BY <2>1 DEF Spots
    <3> QED
      BY <2>1, <3>1, SpotsStep, ApiMourns
  <2> QED
    BY <1>0, <1>2, <2>1, RecoverObservesCases, CalmMourns, MournsKeeps
<1>3. CASE RecoverSaves(w)
  <2>1. ASSUME Saves(w)
        PROVE  Mourns(0)
    <3>1. /\ row'.s = row.s /\ row'.st # "stopped" /\ sup' = sup
          /\ UNCHANGED <<call, proc>> /\ UNCHANGED world
      BY <2>1, SupFacts DEF Saves, world, RowType
    <3> QED
      BY <2>1, <3>1, SavesStep, ApiMourns
  <2> QED
    BY <1>0, <1>3, <2>1, RecoverSavesCases, CalmMourns, MournsKeeps
<1>4. CASE RecoverChecks(w)
  <2>1. ASSUME Readopts(w)
        PROVE  Mourns(0)
    <3>1. row' = row /\ UNCHANGED <<call, proc>> /\ UNCHANGED world
      BY <2>1 DEF Readopts
    <3> QED
      BY <2>1, <3>1, ReadoptsStep, ApiMourns
  <2> QED
    BY <1>0, <1>4, <2>1, RecoverChecksCases, CalmMourns, MournsKeeps
<1>5. CASE RecoverKills(w)
  BY <1>0, <1>5, RecoverKillsMourns, MournsKeeps
<1>6. CASE RecoverFails(w)
  BY <1>0, <1>6, RecoverFailsCalm, CalmMourns, MournsKeeps
<1>7. CASE RecoverAdopts(w)
  <2>1. ASSUME Remembers(w)
        PROVE  Mourns(0)
    <3>1. sup' = sup /\ UNCHANGED <<call, proc>> /\ UNCHANGED world
      BY <2>1 DEF Remembers
    <3>2. /\ ObjectsAfter /\ ObjNews(rec[w].s, 0) /\ Onward
          /\ row' = row \/ (row.s = rec[w].s /\ row.st \in Active /\ row' = [row EXCEPT !.st = "running"])
      BY <2>1, RemembersStep
    <3>3. row' = row \/ (row'.s = row.s /\ row'.st # "stopped")
      BY <3>2, SupFacts DEF RowType
    <3> QED
      BY <3>1, <3>2, <3>3, ApiMourns
  <2> QED
    BY <1>0, <1>7, <2>1, RecoverAdoptsCases, CalmMourns, MournsKeeps
<1>8. CASE WorkerEnds(w)
  <2>1. /\ ObjectsAfter /\ ObjNews(0, 0) /\ Onward /\ Marked /\ Buried
        /\ RowCalm(row') /\ call' = call /\ outage' = outage /\ (sup' = sup \/ sup' = NoEntry)
    BY <1>8, WorkerEndsStep
  <2>2. SupMourns(0) /\ RowMourns
    BY <2>1 DEF SupMourns, RowMourns, RowCalm, NoEntry
  <2>3. Mourns(0)
    BY <2>1, <2>2, MarkedSame, OnwardMourns
  <2> QED
    BY <1>0, <2>3, MournsKeeps
<1> QED
  BY <1>1, <1>2, <1>3, <1>4, <1>5, <1>6, <1>7, <1>8 DEF Recoveries

LEMMA StoppingGone ==
  ASSUME Structure, GoneInv, ~outage', NEW o \in Objects, Stops(o) \/ Heartbeats(o)
  PROVE  GoneInv'
<1>0. Structure'
  BY StoppingStructure
<1>1. CASE StopCalls(o)
  <2>1. ~outage
    BY <1>1 DEF StopCalls, world
  <2> QED
    BY <1>0, <1>1, <2>1, StopCallsCases, ConfirmsMourns, CalmMourns, MournsKeeps
<1>2. CASE StopKills(o)
  BY <1>0, <1>2, StopKillsMourns, MournsKeeps
<1>3. CASE StopFails(o) \/ StopWrites(o)
  BY <1>0, <1>3, StopFailsCalm, StopWritesCalm, CalmMourns, MournsKeeps
<1>4. CASE HeartbeatFires(o)
  <2>1. ASSUME Verifies(o)
        PROVE  Mourns(0)
    <3>1. row' = row /\ start' = start /\ UNCHANGED <<call, proc>> /\ UNCHANGED world
      BY <2>1 DEF Verifies
    <3> QED
      BY <2>1, <3>1, StartSame, VerifiesStep, ApiMourns
  <2> QED
    BY <1>0, <1>4, <2>1, HeartbeatFiresCases, CalmMourns, MournsKeeps
<1>5. CASE HeartbeatRenews(o) \/ HeartbeatEnds(o)
  BY <1>0, <1>5, HeartbeatRenewsCalm, HeartbeatEndsCalm, CalmMourns, MournsKeeps
<1>6. CASE HeartbeatObserves(o)
  <2>1. ASSUME Sees(o)
        PROVE  Mourns(0)
    <3>1. row' = row /\ start' = start /\ sup' = sup /\ UNCHANGED <<call, proc>> /\ UNCHANGED world
      BY <2>1 DEF Sees
    <3> QED
      BY <2>1, <3>1, StartSame, SeesStep, ApiMourns
  <2> QED
    BY <1>0, <1>6, <2>1, HeartbeatObservesCases, CalmMourns, MournsKeeps
<1>7. CASE HeartbeatSettles(o)
  <2>1. ASSUME Settles(o)
        PROVE  Mourns(0)
    <3>1. /\ row'.s = row.s /\ row'.st # "stopped" /\ start' = start /\ sup' = sup
          /\ UNCHANGED <<call, proc>> /\ UNCHANGED world
      BY <2>1, SupFacts DEF Settles, RowType
    <3> QED
      BY <2>1, <3>1, StartSame, SettlesStep, ApiMourns
  <2> QED
    BY <1>0, <1>7, <2>1, HeartbeatSettlesCases, CalmMourns, MournsKeeps
<1> QED
  BY <1>1, <1>2, <1>3, <1>4, <1>5, <1>6, <1>7 DEF Stops, Heartbeats

LEMMA ServingGone ==
  ASSUME Structure, GoneInv, ~outage', NEW s \in Sessions, Serves(s)
  PROVE  GoneInv'
<1>0. Structure' /\ s # 0
  BY ServingStructure, CallFacts
<1>1. CASE SupervisorStarts(s)
  <2>0. ~outage
    BY <1>1 DEF SupervisorStarts, world
  <2>1. CASE Served(s, sup.pid) /\ UNCHANGED <<row, rec, sup, proc, world>>
    <3>1. SupMourns(0)
      BY <2>1 DEF SupMourns
    <3>2. UNCHANGED <<row, world>> /\ proc' = proc
      BY <2>1
    <3> QED
      BY <1>0, <2>1, <3>1, <3>2, ProcSame, ServedMourns, MournsKeeps
  <2>2. CASE Refuses(s)
    <3>1. /\ row' = row /\ proc' = proc /\ sup' = sup /\ start' = start /\ obj' = obj /\ outage' = outage
          /\ call[s].at = "sent" /\ ObjNews(0, 0) /\ ObjectsAfter /\ Onward
          /\ call'[s].at = "none" /\ \A t \in Sessions : t # s => call'[t] = call[t]
      <4>1. call \in [Sessions -> CallType] /\ NoCall.at = "none"
        BY CallFacts DEF NoCall
      <4> QED
        BY <2>2, <4>1, RefusesIs DEF Refuses, api, world
    <3>2. \A w \in Workers : Silent(w)
      <4>1. ASSUME NEW w \in Workers, start'[w].at \in Stages
            PROVE  Session(w) \in Sessions /\ Session(w)' = Session(w) /\ start[w].at \in Stages
        BY <3>1, <4>1, SessionStays DEF Onward
      <4> QED
        BY <3>1, <4>1 DEF Silent
    <3>3. Mourns(0)
      BY <3>1, <3>2, ProcSame DEF Mourns, ObjNews
    <3> QED
      BY <1>0, <3>3, MournsKeeps
  <2>3. CASE Spawns(s)
    BY <1>0, <2>0, <2>3, SpawnsGone
  <2> QED
    BY <1>1, <2>1, <2>2, <2>3, StartsCases
<1>2. CASE SupervisorReady(s)
  <2>1. /\ UNCHANGED <<row, rec, proc>> /\ Served(s, call[s].pid) /\ UNCHANGED world
        /\ sup' = IF Its(s) THEN [sup EXCEPT !.st = "running"] ELSE sup
    BY <1>2, ReadyCases DEF Loses
  <2>2. SupMourns(0)
    BY <2>1, SupFacts DEF SupMourns, SupType
  <2>3. UNCHANGED <<row, world>> /\ proc' = proc
    BY <2>1
  <2> QED
    BY <1>0, <2>1, <2>2, <2>3, ProcSame, ServedMourns, MournsKeeps
<1>3. CASE SupervisorGivesUp(s)
  <2>1. /\ Served(s, 0) /\ Marked /\ UNCHANGED <<row, rec, world>>
        /\ call[s].at = "boot" /\ proc' = Killed(call[s].pid)
        /\ sup' = IF Its(s) THEN [sup EXCEPT !.st = "ended", !.pid = 0] ELSE sup
    BY <1>3, GivesUpStep
  <2>2. call[s].pid \in 0..MaxProcs /\ call[s].pid # 0 /\ proc[call[s].pid].s = s
    BY <2>1, CallFacts, Bounds DEF Procs
  <2>3. Buried /\ Fallen(s) /\ \A q \in Procs : proc'[q].s = proc[q].s
    BY <2>1, <2>2, KilledBuries, MarkedSame DEF Fallen
  <2>4. SupMourns(s)
    BY <2>1, SupFacts DEF SupMourns, SupType, Its
  <2>5. UNCHANGED <<row, world>>
    BY <2>1
  <2> QED
    BY <1>0, <2>1, <2>3, <2>4, <2>5, ServedMourns, MournsKeeps
<1> QED
  BY <1>1, <1>2, <1>3 DEF Serves

LEMMA WorldGone ==
  ASSUME Structure, Structure', GoneInv, ~outage', row' = row, call' = call, outage' = outage,
         ObjectsAfter, ObjNews(0, 0), Onward, Marked, Buried, sup' = sup \/ sup' = NoEntry \/ (\E p : sup' = Noticed(p))
  PROVE  GoneInv'
<1>1. SupMourns(0) /\ RowMourns
  BY SupFacts DEF SupMourns, RowMourns, NoEntry, Noticed, SupType
<1>2. Mourns(0)
  BY <1>1, MarkedSame, OnwardMourns
<1> QED
  BY <1>2, MournsKeeps

LEMMA GoneStep ==
  ASSUME Structure, GoneInv, [Next]_vars
  PROVE  GoneInv'
<1>0. SUFFICES ASSUME ~outage' PROVE GoneInv'
  BY DEF GoneInv
<1>1. ASSUME NEW w \in Workers, StartAsked(w) \/ Starts(w) \/ StopAsked(w) \/ Recoveries(w) \/ WorkerEnds(w)
      PROVE  GoneInv'
  BY <1>0, <1>1, StartingGone, RecoveringGone
<1>2. ASSUME NEW o \in Objects, Stops(o) \/ Heartbeats(o)
      PROVE  GoneInv'
  BY <1>0, <1>2, StoppingGone
<1>3. ASSUME NEW s \in Sessions, Serves(s)
      PROVE  GoneInv'
  BY <1>0, <1>3, ServingGone
<1>4. ASSUME NEW p \in Procs, Listens(p) \/ Exits(p) \/ Hangs(p)
      PROVE  GoneInv'
  <2>1. CASE Listens(p)
    BY <1>0, <2>1, ListensStep, WorldGone
  <2>2. CASE Exits(p)
    BY <1>0, <2>2, ExitsStep, WorldGone
  <2>3. CASE Hangs(p)
    BY <1>0, <2>3, HangsStep, WorldGone
  <2> QED
    BY <1>4, <2>1, <2>2, <2>3
<1>5. CASE SupervisorReturns
  <2>1. row' = row /\ call' = call /\ outage' = outage /\ sup' = NoEntry /\ Buried
    BY <1>5, ProcSame DEF SupervisorReturns, world
  <2> QED
    BY <1>0, <1>5, <2>1, ReturnsStep, WorldGone
<1>6. CASE SupervisorStops
  BY <1>0, <1>6, SupervisorStopsStep
<1>7. CASE Lapse \/ Stall \/ UNCHANGED vars
  BY <1>0, <1>7, LapseCalm, StutterCalm, CalmStructure, CalmMourns, MournsKeeps
<1> QED
  BY <1>1, <1>2, <1>3, <1>4, <1>5, <1>6, <1>7 DEF Next

LEMMA GoneInit ==
  ASSUME Init
  PROVE  GoneInv
<1>1. OneProcess
  BY DEF Init, OneProcess, Idle, Stages
<1>2. StopsSure
  BY NoObjectNews DEF Init, StopsSure, NoEntry
<1> QED
  BY <1>1, <1>2 DEF GoneInv

\* As long as the supervisor answers, a session gets one process, and who believes that a
\* session was stopped saw this process die.
THEOREM ProcessesCounted == Spec => [](Structure /\ GoneInv)
<1>1. Init => Structure /\ GoneInv
  BY StructureInit, GoneInit
<1>2. (Structure /\ GoneInv) /\ [Next]_vars => (Structure /\ GoneInv)'
  <2> SUFFICES ASSUME Structure, GoneInv, [Next]_vars
               PROVE  Structure' /\ GoneInv'
    OBVIOUS
  <2> QED
    BY StructureStep, GoneStep
<1> QED
  BY <1>1, <1>2, PTL DEF Spec

LEMMA GoneIsGone ==
  ASSUME Structure, GoneInv
  PROVE  StoppedMeansGone
<1> SUFFICES ASSUME ~outage, row.st = "stopped", NEW p \in Procs, proc[p].s = row.s
             PROVE  ~Alive(p)
  BY DEF StoppedMeansGone
<1>1. PICK q \in Procs : proc[q].s = row.s /\ proc[q].st = "gone"
  BY DEF GoneInv, StopsSure, Dead
<1>2. row.s # 0
  BY DEF Structure, RowGood, RowFine
<1>3. p = q
  BY <1>1, <1>2 DEF GoneInv, OneProcess
<1> QED
  BY <1>1, <1>3 DEF Alive

\* What stopSession promises: a session that is recorded as stopped has no process, now and
\* later, unless the supervisor was down or its answer to a start was lost; whatever workers
\* crash, stall or are replaced, and whoever confirms the stop.
THEOREM StoppedSessionsAreGone == Spec => []StoppedMeansGone
<1>1. Structure /\ GoneInv => StoppedMeansGone
  BY GoneIsGone
<1> QED
  BY <1>1, ProcessesCounted, PTL
-----------------------------------------------------------------------------
(* What is known of a session, when no answer of the supervisor is lost.    *)

\* Unknown after the step.
StaysDark(s) ==
  /\ row'.s = s => row'.pid = 0
  /\ \A o \in Objects : obj'[o].s = s => obj'[o].pid = 0 /\ obj'[o].seen = 0
  /\ \A v \in Workers : rec'[v].s = s => rec'[v].pid = 0
  /\ sup'.s = s => sup'.st # "running"

\* No pid is learnt but of session l.
Learns(l) ==
  /\ row'.pid # 0 /\ row'.s # l => row'.s = row.s /\ row.pid # 0
  /\ \A x \in Objects :
       (obj'[x].pid # 0 \/ obj'[x].seen # 0) /\ obj'[x].s # l =>
         obj[x].s = obj'[x].s /\ (obj[x].pid # 0 \/ obj[x].seen # 0)
  /\ \A v \in Workers : rec'[v].pid # 0 /\ rec'[v].s # l => rec'[v].s = rec[v].s /\ rec[v].pid # 0
  /\ sup'.st = "running" /\ sup'.s # l => sup.st = "running" /\ sup'.s = sup.s

\* A start that knows no pid is not of session l.
Dim(w, l) ==
  Blind(w)' =>
    \/ /\ Blind(w) /\ Session(w)' = Session(w) /\ Session(w) # l
       /\ start'[w].at # "call" => call'[Session(w)].at = "none"
    \/ StaysDark(Session(w)') /\ call'[Session(w)'].at = "none"

LEMMA BlindKept ==
  ASSUME BlindInv, NEW l, Learns(l), \A w \in Workers : Dim(w, l)
  PROVE  BlindInv'
<1>1. ASSUME NEW w \in Workers, Blind(w)'
      PROVE  /\ StaysDark(Session(w)')
             /\ start'[w].at # "call" => call'[Session(w)'].at = "none"
  <2>1. CASE /\ Blind(w) /\ Session(w)' = Session(w) /\ Session(w) # l
             /\ start'[w].at # "call" => call'[Session(w)].at = "none"
    <3>1. Unknown(Session(w))
      BY <2>1 DEF BlindInv
    <3>2. StaysDark(Session(w))
      BY <2>1, <3>1 DEF Unknown, StaysDark, Learns
    <3> QED
      BY <2>1, <3>2
  <2>2. CASE StaysDark(Session(w)') /\ call'[Session(w)'].at = "none"
    BY <2>2
  <2> QED
    BY <1>1, <2>1, <2>2 DEF Dim
<1> QED
  BY <1>1 DEF BlindInv, Unknown, StaysDark

\* No start and no recovery gets to where a pid is in the row.
PidCalm ==
  /\ row'.s = row.s /\ (row'.st \in Active => row.st \in Active /\ row'.pid = row.pid)
  /\ row'.st = "running" => row.st = "running"
  /\ \A w \in Workers : start'[w].at \in {"confirm", "persist"} =>
       /\ start[w].at \in {"confirm", "persist"} /\ start'[w].pid = start[w].pid
       /\ Session(w)' = Session(w)
  /\ \A w \in Workers : rec'[w].at \in {"check", "adopted"} =>
       rec[w].at \in {"check", "adopted"} /\ rec'[w].s = rec[w].s

LEMMA PidKept ==
  ASSUME PidInv, PidCalm \/ row'.pid # 0
  PROVE  PidInv'
<1>1. CASE row'.pid # 0
  BY <1>1 DEF PidInv
<1>2. CASE PidCalm
  <2>1. row'.st = "running" => row'.pid # 0
    BY <1>2 DEF PidInv, PidCalm, Active
  <2>2. ASSUME NEW w \in Workers, start'[w].at \in {"confirm", "persist"}, start'[w].pid # 0,
               row'.s = Session(w)', row'.st \in Active
        PROVE  row'.pid # 0
    BY <1>2, <2>2 DEF PidInv, PidCalm
  <2>3. ASSUME NEW w \in Workers, rec'[w].at \in {"check", "adopted"}, rec'[w].s = row'.s,
               row'.st \in Active
        PROVE  row'.pid # 0
    BY <1>2, <2>3 DEF PidInv, PidCalm
  <2> QED
    BY <2>1, <2>2, <2>3 DEF PidInv
<1> QED
  BY <1>1, <1>2

\* Somebody knows a pid of session l, so that no start that knows none is of it.
LEMMA KnownIsSeen ==
  ASSUME Structure, BlindInv, NEW l, l = 0 \/ ~Unknown(l), NEW w \in Workers, Blind(w)
  PROVE  Session(w) # l /\ Session(w) \in Sessions /\ start[w].at \in Stages
<1>1. start[w].at \in Stages
  BY DEF Blind, Stages
<1>2. Session(w) \in Sessions /\ Session(w) # 0
  BY <1>1, StartFacts, SupFacts, Bounds DEF Sessions
<1> QED
  BY <1>1, <1>2 DEF BlindInv

LEMMA OnwardDims ==
  ASSUME Structure, BlindInv, ObjectsAfter, Onward, NEW l, l = 0 \/ ~Unknown(l),
         \A s \in Sessions : call'[s].at \in {"none", call[s].at}
  PROVE  \A w \in Workers : Dim(w, l)
<1>1. ASSUME NEW w \in Workers, Blind(w)'
      PROVE  /\ Blind(w) /\ Session(w)' = Session(w) /\ Session(w) # l
             /\ start'[w].at # "call" => call'[Session(w)].at = "none"
  <2>1. start'[w].at \in Stages
    BY <1>1 DEF Blind, Stages
  <2>2. StartCalm(w) /\ Session(w)' = Session(w) /\ Session(w) \in Sessions
    BY <2>1, SessionStays DEF Onward, StartsCalm
  <2>3. Blind(w) /\ (start[w].at = "call" /\ start'[w].at # "call" => call[Session(w)].at = "none")
    BY <1>1, <2>1, <2>2 DEF StartCalm
  <2>4. Session(w) # l
    BY <2>3, KnownIsSeen
  <2>5. start'[w].at # "call" => call[Session(w)].at = "none"
    BY <2>3 DEF BlindInv
  <2> QED
    BY <2>2, <2>3, <2>4, <2>5
<1> QED
  BY <1>1 DEF Dim

LEMMA OnwardPids ==
  ASSUME Structure, ObjectsAfter, Onward, RowCalm(row') \/ row' = row,
         rec' = rec \/ \A w \in Workers : RecCalm(w)
  PROVE  PidCalm
<1>1. ASSUME NEW w \in Workers, start'[w].at \in {"confirm", "persist"}
      PROVE  /\ start[w].at \in {"confirm", "persist"} /\ start'[w].pid = start[w].pid
             /\ Session(w)' = Session(w)
  <2>1. start'[w].at \in Stages /\ StartCalm(w)
    BY <1>1 DEF Stages, Onward, StartsCalm
  <2> QED
    BY <1>1, <2>1, SessionStays DEF Onward, StartCalm
<1>2. row'.s = row.s /\ (row'.st \in Active => row.st \in Active /\ row'.pid = row.pid)
  BY DEF RowCalm
<1>3. row'.st = "running" => row.st = "running"
  BY DEF RowCalm
<1> QED
  BY <1>1, <1>2, <1>3 DEF PidCalm, RecCalm

\* A step onward that learns a pid of session l only.
LEMMA OnwardKnown ==
  ASSUME Structure, BlindInv, PidInv, ObjectsAfter, Onward, NEW l, NEW k, ObjNews(l, k),
         l = 0 \/ ~Unknown(l), \A s \in Sessions : call'[s].at \in {"none", call[s].at},
         row'.pid # 0 /\ row'.s # l => row'.s = row.s /\ row.pid # 0,
         \A v \in Workers : rec'[v].pid # 0 /\ rec'[v].s # l => rec'[v].s = rec[v].s /\ rec[v].pid # 0,
         sup'.st = "running" /\ sup'.s # l => sup.st = "running" /\ sup'.s = sup.s,
         PidCalm \/ row'.pid # 0
  PROVE  BlindInv' /\ PidInv'
<1>1. Learns(l)
  BY DEF Learns, ObjNews
<1> QED
  BY <1>1, OnwardDims, BlindKept, PidKept

LEMMA CalmKnown ==
  ASSUME Structure, BlindInv, PidInv, Calm
  PROVE  BlindInv' /\ PidInv'
<1>1. /\ ObjectsAfter /\ Onward /\ call' = call /\ sup' = sup /\ RowCalm(row') /\ ObjNews(0, 0)
      /\ \A w \in Workers : RecCalm(w)
  BY QuietNews DEF Calm, ObjectsQuiet, RecsCalm
<1>2. PidCalm
  BY <1>1, OnwardPids
<1>3. row'.pid # 0 => row'.s = row.s /\ row.pid # 0
  BY <1>1 DEF RowCalm
<1>4. \A v \in Workers : rec'[v].pid # 0 => rec'[v].s = rec[v].s /\ rec[v].pid # 0
  BY <1>1 DEF RecCalm
<1> QED
  BY <1>1, <1>2, <1>3, <1>4, OnwardKnown

\* A step that leaves the row and what the recoveries know.
LEMMA QuietKnown ==
  ASSUME Structure, BlindInv, PidInv, ObjectsAfter, Onward, NEW l, NEW k, ObjNews(l, k),
         l = 0 \/ ~Unknown(l), \A s \in Sessions : call'[s].at \in {"none", call[s].at},
         row' = row, rec' = rec \/ \A w \in Workers : RecCalm(w),
         sup'.st = "running" /\ sup'.s # l => sup.st = "running" /\ sup'.s = sup.s
  PROVE  BlindInv' /\ PidInv'
<1>1. PidCalm
  BY OnwardPids
<1>2. \A v \in Workers : rec'[v].pid # 0 => rec'[v].s = rec[v].s /\ rec[v].pid # 0
  BY DEF RecCalm
<1> QED
  BY <1>1, <1>2, OnwardKnown

LEMMA AsksKnown ==
  ASSUME Structure, BlindInv, PidInv, NEW w \in Workers, Asks(w)
  PROVE  BlindInv' /\ PidInv'
<1>0. /\ row' = row /\ UNCHANGED mem /\ obj' = obj /\ rec' = rec /\ sup' = sup
      /\ start[w].at = "ready" \/ start[w].at = "call"
  BY DEF Asks
<1>1. /\ start[w].at \in Stages /\ Session(w) \in Sessions /\ start[w].o # 0
      /\ Blind(w) /\ start \in [Workers -> StartType]
  BY <1>0, StartFacts, SupFacts, Bounds DEF Sessions, Stages, Blind
<1>2. \A t \in Sessions : t # Session(w) => call'[t] = call[t]
  BY <1>1, CallFacts DEF Asks, Sent
<1>3. PICK n \in {1, 2} : start' = [start EXCEPT ![w].at = "call", ![w].n = n]
  BY DEF Asks
<1>4. /\ start'[w].at = "call" /\ start'[w].o = start[w].o
      /\ \A v \in Workers : v # w => start'[v] = start[v]
  BY <1>1, <1>3 DEF StartType
<1>5. ASSUME NEW v \in Workers
      PROVE  Dim(v, 0)
  <2>1. Session(v)' = Session(v)
    BY <1>0, <1>4 DEF Session
  <2>2. CASE v = w
    <3>1. Session(w) # 0
      BY <1>1, Bounds DEF Sessions
    <3> QED
      BY <1>1, <1>4, <2>1, <2>2, <3>1 DEF Dim
  <2>3. CASE v # w
    <3>1. ASSUME Blind(v)'
          PROVE  Blind(v) /\ start'[v].at = start[v].at
      BY <1>4, <2>3, <3>1 DEF Blind
    <3>2. ASSUME Blind(v)
          PROVE  Session(v) # 0 /\ Session(v) # Session(w) /\ Session(v) \in Sessions
      <4>1. Session(v) # 0 /\ Session(v) \in Sessions /\ start[v].at \in Stages
        BY <3>2, KnownIsSeen
      <4> QED
        BY <1>1, <2>3, <4>1 DEF Structure, StartsGood
    <3> QED
      BY <1>2, <2>1, <3>1, <3>2 DEF Dim, BlindInv
  <2> QED
    BY <2>2, <2>3
<1>6. Learns(0)
  BY <1>0 DEF Learns
<1>7. PidCalm
  BY <1>0, <1>4 DEF PidCalm, Session
<1> QED
  BY <1>5, <1>6, <1>7, BlindKept, PidKept

LEMMA FindsKnown ==
  ASSUME Structure, BlindInv, PidInv, NEW w \in Workers, Finds(w)
  PROVE  BlindInv' /\ PidInv'
<1>0. /\ row' = row /\ rec' = rec /\ call' = call /\ sup' = sup /\ start[w].at = "look"
      /\ start' = [start EXCEPT ![w].at = "record", ![w].pid = sup.pid] /\ sup.pid # 0
  BY ObservedRuns DEF Finds
<1>1. ObjectsAfter /\ ObjNews(Session(w), 0)
  BY FindsStep
<1>2. start \in [Workers -> StartType] /\ start[w].at \in Stages
  BY <1>0, StartFacts DEF Stages
<1>3. /\ start'[w].at = "record" /\ start'[w].pid # 0
      /\ \A v \in Workers : v # w => start'[v] = start[v]
  BY <1>0, <1>2 DEF StartType
<1>4. ASSUME NEW v \in Workers, v # w, start[v].at \in Stages
      PROVE  Session(v)' = Session(v) /\ Session(v) # Session(w)
  BY <1>1, <1>2, <1>3, <1>4, StartFacts
  DEF ObjectsAfter, Kept, Held, Session, Structure, StartsGood
<1>5. ASSUME NEW v \in Workers
      PROVE  Dim(v, Session(w))
  <2>1. CASE v = w
    BY <1>3, <2>1 DEF Dim, Blind
  <2>2. CASE v # w
    <3>1. ASSUME Blind(v)'
          PROVE  Blind(v) /\ start[v].at \in Stages /\ start'[v].at = start[v].at
      BY <1>3, <2>2, <3>1 DEF Blind, Stages
    <3> QED
      BY <1>0, <1>4, <2>2, <3>1 DEF Dim, BlindInv
  <2> QED
    BY <2>1, <2>2
<1>6. Learns(Session(w))
  BY <1>0, <1>1 DEF Learns, ObjNews
<1>7. PidCalm
  <2>1. \A v \in Workers : start'[v].at \in {"confirm", "persist"} => v # w /\ start[v].at \in Stages
    BY <1>3 DEF Stages
  <2> QED
    BY <1>0, <1>3, <1>4, <2>1 DEF PidCalm
<1> QED
  BY <1>5, <1>6, <1>7, BlindKept, PidKept

LEMMA RecordsKnown ==
  ASSUME Structure, BlindInv, PidInv, NEW w \in Workers, Records(w)
  PROVE  BlindInv' /\ PidInv'
<1>0. /\ rec' = rec /\ call' = call /\ sup' = sup /\ obj' = obj /\ start[w].at = "record"
      /\ start' = [start EXCEPT ![w].at = "confirm"] /\ row.s = Session(w) /\ row.st = "starting"
      /\ row' = [row EXCEPT !.pid = start[w].pid]
  BY DEF Records, Goes, Owns
<1>1. /\ start \in [Workers -> StartType] /\ start[w].at \in Stages /\ row \in RowType
      /\ start[w].o # 0 /\ Session(w) # 0
  BY <1>0, StartFacts, SupFacts, Bounds DEF Stages
<1>2. /\ start'[w].at = "confirm" /\ start'[w].pid = start[w].pid
      /\ \A v \in Workers : v # w => start'[v] = start[v]
      /\ \A v \in Workers : start'[v].o = start[v].o
      /\ row'.s = row.s /\ row'.st = "starting" /\ row'.pid = start[w].pid
  BY <1>0, <1>1 DEF StartType, RowType
<1>3. \A v \in Workers : Session(v)' = Session(v)
  BY <1>0, <1>2 DEF Session
<1>4. \A v \in Workers : v # w /\ start[v].at \in Stages => Session(v) # Session(w)
  BY <1>1 DEF Structure, StartsGood
<1>5. \A v \in Workers : Blind(v) => start[v].at \in Stages /\ Session(v) # 0
  BY KnownIsSeen
<1>6. CASE start[w].pid = 0
  <2>1. Blind(w) /\ row.pid = 0
    BY <1>0, <1>6 DEF Blind, BlindInv, Unknown
  <2>2. ASSUME NEW v \in Workers
        PROVE  Dim(v, 0)
    <3>1. ASSUME Blind(v)'
          PROVE  Blind(v) /\ (start'[v].at # "call" => start[v].at # "call")
      BY <1>0, <1>2, <1>6, <3>1 DEF Blind
    <3> QED
      BY <1>0, <1>3, <1>5, <3>1 DEF Dim, BlindInv
  <2>3. Learns(0)
    BY <1>0, <1>2, <1>6 DEF Learns
  <2>4. PidInv'
    <3>1. ASSUME NEW v \in Workers, start'[v].at \in {"confirm", "persist"}, start'[v].pid # 0
          PROVE  row'.s # Session(v)'
      <4>1. v # w /\ start[v].at \in Stages
        BY <1>2, <1>6, <3>1 DEF Stages
      <4> QED
        BY <1>0, <1>2, <1>3, <1>4, <4>1
    <3>2. ASSUME NEW v \in Workers, rec[v].at \in {"check", "adopted"}
          PROVE  rec[v].s # row.s
      BY <1>0, <2>1, <3>2 DEF PidInv, Active
    <3> QED
      BY <1>0, <1>2, <3>1, <3>2 DEF PidInv
  <2> QED
    BY <2>2, <2>3, <2>4, BlindKept
<1>7. CASE start[w].pid # 0
  <2>1. ASSUME NEW v \in Workers
        PROVE  Dim(v, Session(w))
    <3>1. ASSUME Blind(v)'
          PROVE  v # w /\ Blind(v) /\ start'[v].at = start[v].at
      BY <1>2, <1>7, <3>1 DEF Blind
    <3> QED
      BY <1>0, <1>3, <1>4, <1>5, <3>1 DEF Dim, BlindInv
  <2>2. Learns(Session(w))
    BY <1>0, <1>2 DEF Learns
  <2> QED
    BY <1>2, <1>7, <2>1, <2>2, BlindKept, PidKept
<1> QED
  BY <1>6, <1>7

LEMMA PersistsKnown ==
  ASSUME Structure, BlindInv, PidInv, NEW w \in Workers, Persists(w)
  PROVE  BlindInv' /\ PidInv'
<1>0. /\ rec' = rec /\ call' = call /\ sup' = sup /\ start[w].at = "persist"
      /\ row.s = Session(w) /\ row.worker # NoWorker /\ row' = [row EXCEPT !.st = "running"]
  BY Bounds DEF Persists, Owns
<1>1. ObjectsAfter /\ ObjNews(0, 0) /\ Onward
  BY PersistsStep
<1>2. row.pid # 0
  <2>1. start[w].pid # 0 /\ row.st \in Active
    BY <1>0 DEF Structure, StartsGood, StartGood, RowGood, RowFine
  <2> QED
    BY <1>0, <2>1 DEF PidInv
<1>3. row'.s = row.s /\ row'.pid # 0
  BY <1>0, <1>2, SupFacts DEF RowType
<1> QED
  BY <1>0, <1>1, <1>2, <1>3, OnwardKnown

LEMMA BeginsKnown ==
  ASSUME Structure, BlindInv, PidInv, NEW w \in Workers, Begins(w)
  PROVE  BlindInv' /\ PidInv'
<1>0. /\ call' = call /\ rec' = rec /\ sup' = sup /\ row.s < MaxSessions
  BY DEF Begins
<1>1. /\ ObjectsAfter /\ ObjNews(0, 0) /\ row'.s = row.s + 1 /\ row'.st = "starting" /\ row'.pid = 0
      /\ start'[w].at = "renew" /\ Session(w)' = row.s + 1
      /\ \A v \in Workers : v # w => start'[v] = start[v]
      /\ \A x \in Objects : obj'[x].s = row.s + 1 => obj'[x].pid = 0 /\ obj'[x].seen = 0
  BY BeginsStep
<1>2. row.s + 1 \in Sessions /\ row.s \in Nat
  BY <1>0, SupFacts, Bounds DEF Sessions
<1>3. ASSUME NEW v \in Workers
      PROVE  rec[v].s <= row.s /\ rec[v].s \in Nat /\ rec[v].s # row.s + 1
  BY <1>2, RecFacts, Bounds DEF RecGood
<1>4. ASSUME NEW v \in Workers, v # w, start[v].at \in Stages
      PROVE  Session(v)' = Session(v) /\ Session(v) # row.s + 1
  BY <1>1, <1>2, <1>4, StartFacts DEF ObjectsAfter, Kept, Held, Session
<1>5. StaysDark(row.s + 1) /\ call[row.s + 1].at = "none"
  <2>1. sup.s # row.s + 1
    BY <1>2, SupFacts, Bounds
  <2>2. call[row.s + 1].at = "none"
    BY <1>2, SupFacts, Bounds DEF Structure, CallsGood
  <2> QED
    BY <1>0, <1>1, <1>3, <2>1, <2>2 DEF StaysDark
<1>6. ASSUME NEW v \in Workers
      PROVE  Dim(v, 0)
  <2>1. CASE v = w
    BY <1>0, <1>1, <1>5, <2>1 DEF Dim
  <2>2. CASE v # w
    <3>1. ASSUME Blind(v)'
          PROVE  Blind(v) /\ start'[v].at = start[v].at
      BY <1>1, <2>2, <3>1 DEF Blind
    <3>2. ASSUME Blind(v)
          PROVE  Session(v) # 0 /\ Session(v)' = Session(v)
      BY <1>4, <2>2, <3>2, KnownIsSeen
    <3> QED
      BY <1>0, <3>1, <3>2 DEF Dim, BlindInv
  <2> QED
    BY <2>1, <2>2
<1>7. Learns(0)
  BY <1>0, <1>1 DEF Learns, ObjNews
<1>8. PidInv'
  <2>1. ASSUME NEW v \in Workers, start'[v].at \in {"confirm", "persist"}
        PROVE  row'.s # Session(v)'
    <3>1. v # w /\ start[v].at \in Stages
      BY <1>1, <2>1 DEF Stages
    <3> QED
      BY <1>1, <1>4, <3>1
  <2> QED
    BY <1>0, <1>1, <1>3, <2>1 DEF PidInv
<1> QED
  BY <1>6, <1>7, <1>8, BlindKept

LEMMA StartingKnown ==
  ASSUME Structure, BlindInv, PidInv, NEW w \in Workers, StartAsked(w) \/ Starts(w) \/ StopAsked(w)
  PROVE  BlindInv' /\ PidInv'
<1>1. CASE StartAsked(w) \/ StopAsked(w)
  BY <1>1, StartAskedCalm, StopAskedCalm, CalmKnown
<1>2. CASE StartWaited(w) \/ StartRenews(w) \/ StartFails(w) \/ StartConfirms(w)
  BY <1>2, StartWaitedCalm, StartRenewsCalm, StartFailsCalm, StartConfirmsCalm, CalmKnown
<1>3. CASE Begin(w)
  BY <1>3, BeginCases, BeginsKnown, CalmKnown
<1>4. CASE StartCalls(w) \/ StartCallFails(w)
  BY <1>4, StartCallsCases, StartCallFailsCases, AsksKnown, CalmKnown
<1>5. CASE StartObserves(w)
  BY <1>5, StartObservesCases, FindsKnown, CalmKnown
<1>6. CASE StartRecords(w)
  BY <1>6, StartRecordsCases, RecordsKnown, CalmKnown
<1>7. CASE StartPersists(w)
  BY <1>7, StartPersistsCases, PersistsKnown, CalmKnown
<1> QED
  BY <1>1, <1>2, <1>3, <1>4, <1>5, <1>6, <1>7 DEF Starts

LEMMA StoppingKnown ==
  ASSUME Structure, BlindInv, PidInv, NEW o \in Objects, Stops(o) \/ Heartbeats(o)
  PROVE  BlindInv' /\ PidInv'
<1>1. CASE StopCalls(o)
  <2>1. ASSUME Confirms(o)
        PROVE  BlindInv' /\ PidInv'
    <3>1. row' = row /\ start' = start /\ rec' = rec /\ call' = call /\ sup'.st # "running"
      BY <2>1 DEF Confirms, NoEntry
    <3> QED
      BY <2>1, <3>1, ConfirmsStep, StartSame, QuietKnown
  <2> QED
    BY <1>1, <2>1, StopCallsCases, CalmKnown
<1>2. CASE StopKills(o)
  <2>1. row' = row /\ start' = start /\ rec' = rec /\ call' = call /\ sup'.st # "running"
    BY <1>2 DEF StopKills, NoEntry
  <2> QED
    BY <1>2, <2>1, StopKillsStep, StartSame, QuietKnown
<1>3. CASE StopFails(o) \/ StopWrites(o)
  BY <1>3, StopFailsCalm, StopWritesCalm, CalmKnown
<1>4. CASE HeartbeatFires(o)
  <2>1. ASSUME Verifies(o)
        PROVE  BlindInv' /\ PidInv'
    <3>1. row' = row /\ start' = start /\ rec' = rec /\ call' = call
      BY <2>1 DEF Verifies
    <3>2. /\ ObjectsAfter /\ ObjNews(0, 0) /\ sup'.s = obj[o].s /\ obj[o].pid # 0
      BY <2>1, VerifiesStep
    <3>3. ObjNews(obj[o].s, 0)
      BY <3>2, NewsGrows
    <3>4. ~Unknown(obj[o].s)
      BY <3>2 DEF Unknown
    <3> QED
      BY <3>1, <3>2, <3>3, <3>4, StartSame, QuietKnown
  <2> QED
    BY <1>4, <2>1, HeartbeatFiresCases, CalmKnown
<1>5. CASE HeartbeatRenews(o) \/ HeartbeatEnds(o)
  BY <1>5, HeartbeatRenewsCalm, HeartbeatEndsCalm, CalmKnown
<1>6. CASE HeartbeatObserves(o)
  <2>1. ASSUME Sees(o)
        PROVE  BlindInv' /\ PidInv'
    <3>1. row' = row /\ start' = start /\ rec' = rec /\ call' = call /\ sup' = sup
      BY <2>1 DEF Sees
    <3>2. ~Unknown(obj[o].s)
      BY <2>1, ObservedRuns DEF Unknown, Sees
    <3> QED
      BY <2>1, <3>1, <3>2, SeesStep, StartSame, QuietKnown
  <2> QED
    BY <1>6, <2>1, HeartbeatObservesCases, CalmKnown
<1>7. CASE HeartbeatSettles(o)
  <2>1. ASSUME Settles(o)
        PROVE  BlindInv' /\ PidInv'
    <3>1. start' = start /\ rec' = rec /\ call' = call /\ sup' = sup
      BY <2>1 DEF Settles
    <3>2. ObjectsAfter /\ ObjNews(0, 0) /\ obj[o].seen # 0 /\ row.s = obj[o].s
      BY <2>1, SettlesStep
    <3>3. row'.s = row.s /\ row'.pid # 0
      BY <2>1, <3>2, SupFacts DEF Settles, RowType
    <3>4. ~Unknown(row.s) /\ ObjNews(row.s, 0)
      BY <3>2, NewsGrows DEF Unknown
    <3> QED
      BY <3>1, <3>2, <3>3, <3>4, StartSame, OnwardKnown
  <2> QED
    BY <1>7, <2>1, HeartbeatSettlesCases, CalmKnown
<1> QED
  BY <1>1, <1>2, <1>3, <1>4, <1>5, <1>6, <1>7 DEF Stops, Heartbeats

LEMMA ClaimsKnown ==
  ASSUME Structure, BlindInv, PidInv, NEW w \in Workers, RecoverClaims(w)
  PROVE  BlindInv' /\ PidInv'
<1> DEFINE r == [at |-> IF row.st = "starting" /\ row.pid = 0 THEN "observe" ELSE "check",
                 s |-> row.s, pid |-> row.pid, st |-> row.st, kill |-> 0]
<1>0. /\ start' = start /\ obj' = obj /\ call' = call /\ sup' = sup /\ row.st \in Active
      /\ row' = [row EXCEPT !.worker = w, !.lease = TRUE] /\ rec' = [rec EXCEPT ![w] = r]
  BY DEF RecoverClaims, Claimable, api
<1>1. ObjectsAfter /\ ObjNews(0, 0) /\ ObjNews(row.s, 0) /\ Onward
  BY RecoverClaimsStep, NewsGrows
<1>2. row'.s = row.s /\ row'.st = row.st /\ row'.pid = row.pid
  BY <1>0, SupFacts DEF RowType
<1>3. /\ rec'[w] = r /\ \A v \in Workers : v # w => rec'[v] = rec[v]
  BY <1>0, RecFacts
<1>4. CASE row.pid # 0
  <2>1. ~Unknown(row.s)
    BY <1>4 DEF Unknown
  <2>2. \A v \in Workers : rec'[v].pid # 0 /\ rec'[v].s # row.s => rec'[v].s = rec[v].s /\ rec[v].pid # 0
    BY <1>3
  <2> QED
    BY <1>0, <1>1, <1>2, <1>4, <2>1, <2>2, OnwardKnown
<1>5. CASE row.pid = 0
  <2>1. r.at = "observe" /\ r.pid = 0
    BY <1>0, <1>5 DEF PidInv, Active
  <2>2. \A v \in Workers : rec'[v].pid # 0 => rec'[v].s = rec[v].s /\ rec[v].pid # 0
    BY <1>3, <2>1
  <2>3. PidCalm
    BY <1>0, <1>2, <1>3, <2>1 DEF PidCalm, Session
  <2> QED
    BY <1>0, <1>1, <1>2, <1>5, <2>2, <2>3, OnwardKnown
<1> QED
  BY <1>4, <1>5

LEMMA RecoveringKnown ==
  ASSUME Structure, BlindInv, PidInv, NEW w \in Workers, Recoveries(w) \/ WorkerEnds(w)
  PROVE  BlindInv' /\ PidInv'
<1>0. \A l : ObjNews(0, 0) /\ ObjectsAfter => ObjNews(l, 0)
  BY NewsGrows
<1>1. CASE RecoverClaims(w)
  BY <1>1, ClaimsKnown
<1>2. CASE RecoverObserves(w)
  <2>1. ASSUME Spots(w)
        PROVE  BlindInv' /\ PidInv'
    <3>1. row' = row /\ call' = call /\ sup' = sup /\ start' = start /\ obj' = obj
      BY <2>1 DEF Spots, api
    <3>2. ObjectsAfter /\ ObjNews(rec[w].s, 0) /\ Onward
      BY <1>0, <2>1, SpotsStep
    <3>3. ~Unknown(rec[w].s)
      BY <2>1, ObservedRuns DEF Unknown, Spots
    <3>4. /\ rec'[w].at = "save" /\ rec'[w].s = rec[w].s
          /\ \A v \in Workers : v # w => rec'[v] = rec[v]
      BY <2>1, RecFacts DEF Spots, RecType
    <3>5. PidCalm
      BY <3>1, <3>4 DEF PidCalm, Session
    <3> QED
      BY <3>1, <3>2, <3>3, <3>4, <3>5, OnwardKnown
  <2> QED
    BY <1>2, <2>1, RecoverObservesCases, CalmKnown
<1>3. CASE RecoverSaves(w)
  <2>1. ASSUME Saves(w)
        PROVE  BlindInv' /\ PidInv'
    <3>1. /\ call' = call /\ sup' = sup /\ rec[w].at = "save" /\ row.s = rec[w].s
          /\ row' = [row EXCEPT !.pid = rec[w].pid]
      BY <2>1 DEF Saves, Owns
    <3>2. ObjectsAfter /\ ObjNews(rec[w].s, 0) /\ Onward
      BY <1>0, <2>1, SavesStep
    <3>3. rec[w].pid # 0
      BY <3>1, RecFacts DEF RecGood
    <3>4. ~Unknown(rec[w].s)
      BY <3>3 DEF Unknown
    <3>5. row'.s = rec[w].s /\ row'.pid # 0
      BY <3>1, <3>3, SupFacts DEF RowType
    <3>6. rec'[w].s = rec[w].s /\ \A v \in Workers : v # w => rec'[v] = rec[v]
      BY <2>1, RecFacts DEF Saves, Recovers, RecType
    <3> QED
      BY <3>1, <3>2, <3>4, <3>5, <3>6, OnwardKnown
  <2> QED
    BY <1>3, <2>1, RecoverSavesCases, CalmKnown
<1>4. CASE RecoverChecks(w)
  <2>1. ASSUME Readopts(w)
        PROVE  BlindInv' /\ PidInv'
    <3>1. row' = row /\ call' = call
      BY <2>1 DEF Readopts
    <3>2. /\ ObjectsAfter /\ ObjNews(rec[w].s, 0) /\ Onward /\ RecsCalm
          /\ sup'.s = rec[w].s /\ rec[w].pid # 0
      BY <1>0, <2>1, ReadoptsStep
    <3>3. ~Unknown(rec[w].s)
      BY <3>2 DEF Unknown
    <3> QED
      BY <3>1, <3>2, <3>3, QuietKnown DEF RecsCalm
  <2> QED
    BY <1>4, <2>1, RecoverChecksCases, CalmKnown
<1>5. CASE RecoverKills(w)
  <2>1. row' = row /\ call' = call /\ (sup' = NoEntry \/ sup' = Noticed(rec[w].pid))
    BY <1>5 DEF RecoverKills
  <2>2. sup'.st = "running" => sup.st = "running" /\ sup'.s = sup.s
    BY <2>1, SupFacts DEF NoEntry, Noticed, SupType
  <2>3. ObjectsAfter /\ ObjNews(0, 0) /\ Onward /\ RecsCalm
    BY <1>5, RecoverKillsStep
  <2> QED
    BY <2>1, <2>2, <2>3, QuietKnown DEF RecsCalm
<1>6. CASE RecoverFails(w)
  BY <1>6, RecoverFailsCalm, CalmKnown
<1>7. CASE RecoverAdopts(w)
  <2>1. ASSUME Remembers(w)
        PROVE  BlindInv' /\ PidInv'
    <3>1. call' = call /\ sup' = sup /\ rec[w].at = "adopted"
      BY <2>1 DEF Remembers
    <3>2. /\ ObjectsAfter /\ ObjNews(rec[w].s, 0) /\ Onward /\ RecsCalm /\ rec[w].pid # 0
          /\ row' = row \/ (row.s = rec[w].s /\ row.st \in Active /\ row' = [row EXCEPT !.st = "running"])
      BY <2>1, RemembersStep
    <3>3. ~Unknown(rec[w].s)
      BY <3>2 DEF Unknown
    <3>4. \A v \in Workers : rec'[v].pid # 0 => rec'[v].s = rec[v].s /\ rec[v].pid # 0
      BY <3>2 DEF RecsCalm, RecCalm
    <3>5. CASE row' = row
      BY <3>1, <3>2, <3>3, <3>5, QuietKnown DEF RecsCalm
    <3>6. CASE row.s = rec[w].s /\ row.st \in Active /\ row' = [row EXCEPT !.st = "running"]
      <4>1. row.pid # 0
        BY <3>1, <3>6 DEF PidInv
      <4>2. row'.s = row.s /\ row'.pid # 0
        BY <3>6, <4>1, SupFacts DEF RowType
      <4> QED
        BY <3>1, <3>2, <3>3, <3>4, <4>1, <4>2, OnwardKnown
    <3> QED
      BY <3>2, <3>5, <3>6
  <2> QED
    BY <1>7, <2>1, RecoverAdoptsCases, CalmKnown
<1>8. CASE WorkerEnds(w)
  <2>1. /\ ObjectsAfter /\ ObjNews(0, 0) /\ Onward /\ RecsCalm
        /\ RowCalm(row') /\ call' = call /\ (sup' = sup \/ sup' = NoEntry)
    BY <1>8, WorkerEndsStep
  <2>2. PidCalm
    BY <2>1, OnwardPids DEF RecsCalm
  <2>3. \A v \in Workers : rec'[v].pid # 0 => rec'[v].s = rec[v].s /\ rec[v].pid # 0
    BY <2>1 DEF RecsCalm, RecCalm
  <2>4. row'.pid # 0 => row'.s = row.s /\ row.pid # 0
    BY <2>1 DEF RowCalm
  <2>5. sup'.st = "running" => sup.st = "running" /\ sup'.s = sup.s
    BY <2>1 DEF NoEntry
  <2> QED
    BY <2>1, <2>2, <2>3, <2>4, <2>5, OnwardKnown
<1> QED
  BY <1>1, <1>2, <1>3, <1>4, <1>5, <1>6, <1>7, <1>8 DEF Recoveries

LEMMA ServedKnown ==
  ASSUME Structure, BlindInv, PidInv, NEW s \in Sessions, NEW p, Served(s, p), row' = row, rec' = rec,
         NEW l, l = s \/ (l = 0 /\ p = 0), \A w \in Workers : Blind(w)' => Session(w) # l,
         sup'.st = "running" /\ sup'.s # l => sup.st = "running" /\ sup'.s = sup.s
  PROVE  BlindInv' /\ PidInv'
<1>1. ASSUME NEW w \in Workers, start'[w].at \in Stages
      PROVE  /\ Session(w)' = Session(w)
             /\ \/ start'[w] = start[w]
                \/ /\ start[w].at = "call" /\ Session(w) = s
                   /\ start'[w].at = "record" /\ start'[w].pid = p
  BY <1>1 DEF Served
<1>2. ASSUME NEW w \in Workers
      PROVE  Dim(w, l)
  <2>1. ASSUME Blind(w)'
        PROVE  /\ Blind(w) /\ Session(w) \in Sessions /\ start'[w].at \in Stages
               /\ start'[w].at # "call" => start[w].at # "call" \/ Session(w) = s
    <3>1. start'[w].at \in Stages
      BY <2>1 DEF Blind, Stages
    <3>2. Blind(w)
      BY <1>1, <2>1, <3>1 DEF Blind
    <3>3. Session(w) \in Sessions
      BY <3>2, KnownIsSeen
    <3> QED
      BY <1>1, <3>1, <3>2, <3>3
  <2>2. ASSUME Blind(w)', start'[w].at # "call"
        PROVE  call'[Session(w)].at = "none"
    BY <2>1, <2>2 DEF Served, BlindInv
  <2> QED
    BY <1>1, <2>1, <2>2 DEF Dim
<1>3. Learns(l)
  <2>1. ObjNews(l, 0)
    BY DEF Served
  <2> QED
    BY <2>1 DEF Learns, ObjNews
<1>4. PidCalm
  <2>1. ASSUME NEW w \in Workers, start'[w].at \in {"confirm", "persist"}
        PROVE  start'[w] = start[w] /\ Session(w)' = Session(w)
    BY <1>1, <2>1 DEF Stages
  <2> QED
    BY <2>1 DEF PidCalm
<1> QED
  BY <1>2, <1>3, <1>4, BlindKept, PidKept

LEMMA SpawnsKnown ==
  ASSUME Structure, BlindInv, PidInv, NEW s \in Sessions, Spawns(s)
  PROVE  BlindInv' /\ PidInv'
<1>0. /\ row' = row /\ rec' = rec /\ obj' = obj /\ start' = start /\ call[s].at = "sent"
      /\ sup'.st = "starting"
  BY DEF Spawns, api
<1>1. \A t \in Sessions : t # s => call'[t] = call[t]
  BY CallFacts DEF Spawns
<1>2. ASSUME NEW w \in Workers
      PROVE  Dim(w, 0)
  <2>1. Blind(w) => Session(w) # 0 /\ Session(w) \in Sessions
    BY KnownIsSeen
  <2> QED
    BY <1>0, <1>1, <2>1 DEF Dim, BlindInv, Blind, Session
<1>3. Learns(0)
  BY <1>0 DEF Learns
<1>4. PidCalm
  BY <1>0 DEF PidCalm, Session
<1> QED
  BY <1>2, <1>3, <1>4, BlindKept, PidKept

LEMMA ServingKnown ==
  ASSUME Structure, BlindInv, PidInv, "answer" \notin Faulty \/ ~outage', NEW s \in Sessions, Serves(s)
  PROVE  BlindInv' /\ PidInv'
<1>1. CASE SupervisorStarts(s)
  <2>1. CASE sup.st = "running" /\ sup.s = s /\ Served(s, sup.pid) /\ UNCHANGED <<row, rec, sup, proc, world>>
    <3>1. \A w \in Workers : Blind(w) => Session(w) # s
      BY <2>1 DEF BlindInv, Unknown
    <3>2. \A w \in Workers : start'[w] = start[w]
      BY <2>1, <3>1 DEF Served, Blind
    <3>3. \A w \in Workers : Blind(w)' => Blind(w)
      BY <3>2 DEF Blind
    <3> QED
      BY <2>1, <3>1, <3>3, ServedKnown
  <2>2. CASE Refuses(s)
    <3>1. call \in [Sessions -> CallType] /\ NoCall.at = "none"
      BY CallFacts DEF NoCall
    <3>2. /\ row' = row /\ rec' = rec /\ sup' = sup
          /\ \A t \in Sessions : call'[t].at \in {"none", call[t].at}
      BY <2>2, <3>1 DEF Refuses
    <3> QED
      BY <2>2, <3>2, RefusesIs, QuietKnown
  <2>3. CASE Spawns(s)
    BY <2>3, SpawnsKnown
  <2> QED
    BY <1>1, <2>1, <2>2, <2>3, StartsCases
<1>2. CASE SupervisorReady(s)
  <2>1. /\ UNCHANGED <<row, rec, proc>> /\ Served(s, call[s].pid) /\ call[s].at = "boot"
        /\ call[s].pid # 0 /\ sup' = IF Its(s) THEN [sup EXCEPT !.st = "running"] ELSE sup
    BY <1>2, ReadyCases DEF Loses, Fault
  <2>2. sup'.st = "running" /\ sup'.s # s => sup.st = "running" /\ sup'.s = sup.s
    BY <2>1, SupFacts DEF Its, SupType
  <2>3. ASSUME NEW w \in Workers, Blind(w)'
        PROVE  Session(w) # s
    <3>1. start'[w] = start[w] /\ ~(start[w].at = "call" /\ Session(w) = s)
      BY <2>1, <2>3 DEF Served, Blind
    <3>2. Blind(w)
      BY <2>3, <3>1 DEF Blind
    <3> QED
      BY <2>1, <3>1, <3>2 DEF BlindInv
  <2> QED
    BY <2>1, <2>2, <2>3, ServedKnown
<1>3. CASE SupervisorGivesUp(s)
  <2>1. /\ Served(s, 0) /\ UNCHANGED <<row, rec, world>>
        /\ sup' = IF Its(s) THEN [sup EXCEPT !.st = "ended", !.pid = 0] ELSE sup
    BY <1>3, GivesUpStep
  <2>2. sup'.st = "running" => sup.st = "running" /\ sup'.s = sup.s
    BY <2>1, SupFacts DEF SupType
  <2>3. ASSUME NEW w \in Workers, Blind(w)'
        PROVE  Session(w) # 0
    <3>1. Blind(w)
      BY <2>1, <2>3 DEF Served, Blind
    <3> QED
      BY <3>1, KnownIsSeen
  <2> QED
    BY <2>1, <2>2, <2>3, ServedKnown
<1> QED
  BY <1>1, <1>2, <1>3 DEF Serves

LEMMA KnownStep ==
  ASSUME Structure, BlindInv, PidInv, "answer" \notin Faulty \/ ~outage', [Next]_vars
  PROVE  BlindInv' /\ PidInv'
<1>1. ASSUME NEW w \in Workers, StartAsked(w) \/ Starts(w) \/ StopAsked(w) \/ Recoveries(w) \/ WorkerEnds(w)
      PROVE  BlindInv' /\ PidInv'
  BY <1>1, StartingKnown, RecoveringKnown
<1>2. ASSUME NEW o \in Objects, Stops(o) \/ Heartbeats(o)
      PROVE  BlindInv' /\ PidInv'
  BY <1>2, StoppingKnown
<1>3. ASSUME NEW s \in Sessions, Serves(s)
      PROVE  BlindInv' /\ PidInv'
  BY <1>3, ServingKnown
<1>4. ASSUME NEW p \in Procs, Listens(p) \/ Exits(p) \/ Hangs(p)
      PROVE  BlindInv' /\ PidInv'
  <2>1. row' = row /\ rec' = rec /\ call' = call /\ (sup' = sup \/ sup' = Noticed(p))
    BY <1>4 DEF Listens, Exits, Hangs
  <2>2. sup'.st = "running" => sup.st = "running" /\ sup'.s = sup.s
    BY <2>1, SupFacts DEF Noticed, SupType
  <2>3. ObjectsAfter /\ ObjNews(0, 0) /\ Onward
    BY <1>4, ListensStep, ExitsStep, HangsStep
  <2> QED
    BY <2>1, <2>2, <2>3, QuietKnown
<1>5. CASE SupervisorReturns
  <2>1. row' = row /\ rec' = rec /\ call' = call /\ sup'.st # "running"
    BY <1>5 DEF SupervisorReturns, NoEntry
  <2> QED
    BY <1>5, <2>1, ReturnsStep, QuietKnown
<1>6. CASE SupervisorStops
  <2>1. /\ ObjectsAfter /\ ObjNews(0, 0) /\ Onward /\ RecsCalm /\ row' = row
        /\ sup'.st # "running" /\ \A t \in Sessions : call'[t].at = "none"
    BY <1>6, SupervisorStopsStep, SupFacts DEF Down, NoEntry, NoCall
  <2> QED
    BY <2>1, QuietKnown DEF RecsCalm
<1>7. CASE Lapse \/ Stall \/ UNCHANGED vars
  BY <1>7, LapseCalm, StutterCalm, CalmKnown
<1> QED
  BY <1>1, <1>2, <1>3, <1>4, <1>5, <1>6, <1>7 DEF Next

LEMMA KnownInit ==
  ASSUME Init
  PROVE  BlindInv /\ PidInv
BY DEF Init, BlindInv, PidInv, Blind, Idle, NoRecovery, Active

LEMMA OutageStays ==
  ASSUME [Next]_vars, outage
  PROVE  outage'
<1>1. ASSUME NEW w \in Workers, StartAsked(w) \/ Starts(w) \/ StopAsked(w)
      PROVE  outage'
  BY <1>1 DEF StartAsked, StopAsked, Starts, StartWaited, Begin, StartRenews, StartCalls, StartCallFails,
              StartObserves, StartFails, StartRecords, StartConfirms, StartPersists, world, Requested
<1>2. ASSUME NEW w \in Workers, Recoveries(w) \/ WorkerEnds(w)
      PROVE  outage'
  BY <1>2 DEF Recoveries, RecoverClaims, RecoverObserves, RecoverSaves, RecoverChecks, RecoverKills,
              RecoverFails, RecoverAdopts, WorkerEnds, world
<1>3. ASSUME NEW o \in Objects, Stops(o) \/ Heartbeats(o)
      PROVE  outage'
  BY <1>3 DEF Stops, StopCalls, StopKills, StopFails, StopWrites, Heartbeats, HeartbeatFires,
              HeartbeatRenews, HeartbeatObserves, HeartbeatSettles, HeartbeatEnds, world
<1>4. ASSUME NEW s \in Sessions, Serves(s)
      PROVE  outage'
  BY <1>4 DEF Serves, SupervisorStarts, SupervisorReady, SupervisorGivesUp, world
<1>5. ASSUME NEW p \in Procs, Listens(p) \/ Exits(p) \/ Hangs(p)
      PROVE  outage'
  BY <1>5 DEF Listens, Exits, Hangs, world
<1>6. CASE SupervisorStops \/ SupervisorReturns \/ Lapse \/ Stall \/ UNCHANGED vars
  BY <1>6 DEF SupervisorStops, SupervisorReturns, Lapse, Stall, world, vars
<1> QED
  BY <1>1, <1>2, <1>3, <1>4, <1>5, <1>6 DEF Next

\* As long as a start knows no pid of its session nobody does, and a row that says "running"
\* has a pid.
THEOREM PidsFollow == Spec => []KnownInv
<1>1. Init => KnownInv
  BY KnownInit DEF KnownInv
<1>2. Structure /\ KnownInv /\ [Next]_vars => KnownInv'
  <2> SUFFICES ASSUME Structure, KnownInv, [Next]_vars, "answer" \notin Faulty \/ ~outage'
               PROVE  BlindInv' /\ PidInv'
    BY DEF KnownInv
  <2>1. "answer" \notin Faulty \/ ~outage
    BY OutageStays
  <2> QED
    BY <2>1, KnownStep DEF KnownInv
<1> QED
  BY <1>1, <1>2, StructureHolds, PTL DEF Spec

LEMMA RowIsSound ==
  ASSUME Structure, GoneInv, PidInv
  PROVE  RuntimeSound
<1>1. IdentitiesAgree
  <2>1. row.st = "running" => row.pid # 0 /\ proc[row.pid].s = row.s
    BY DEF PidInv, Structure, RowGood, RowFine, Of
  <2>2. row.st \in Ended => row.worker = NoWorker /\ ~row.lease
    BY DEF Structure, RowGood, RowFine, Active, Ended
  <2> QED
    BY <2>1, <2>2 DEF IdentitiesAgree
<1> QED
  BY <1>1, GoneIsGone DEF RuntimeSound, Structure

\* The row, its processes and its owner agree in every state, when no answer of the supervisor
\* to a start is lost: whatever pids two starts, two recoveries and a heartbeat write.
THEOREM RuntimeIsSound ==
  ASSUME "answer" \notin Faulty
  PROVE  Spec => []RuntimeSound
<1>1. (Structure /\ GoneInv) /\ KnownInv => RuntimeSound
  BY RowIsSound DEF KnownInv
<1> QED
  BY <1>1, ProcessesCounted, PidsFollow, PTL

\* The same for every kind of fault, until the supervisor is down or does not answer.
THEOREM RuntimeIsSoundInService == Spec => [](~outage => RuntimeSound)
<1>1. (Structure /\ GoneInv) /\ KnownInv => (~outage => RuntimeSound)
  BY RowIsSound DEF KnownInv
<1> QED
  BY <1>1, ProcessesCounted, PidsFollow, PTL
=============================================================================
