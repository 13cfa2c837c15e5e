--------------------------- MODULE ModelCalls_proofs ---------------------------
(***************************************************************************)
(* Proofs about what a call of a model passes: the budget of its project   *)
(* (AiBudget), then the lanes of its credential and model (ModelAttempts). *)
(*                                                                         *)
(* Of the lanes it matters who owns the lease rows: an attempt that works  *)
(* owns the rows of all the lanes it has reserved, but of those whose      *)
(* lease ran out under it.  The chains of the processes, which are not needed for    *)
(* that, have an invariant of their own.                                   *)
(*                                                                         *)
(* What an admission to the budget has counted lies between the requests   *)
(* its statements have passed (Tallied) and the ones of them that did not  *)
(* change behind its back: nothing leaves Tallied while the budget is      *)
(* locked, and what enters it late is in missed.  The tokens are sums over *)
(* sets, which are left to the model checker.                              *)
(***************************************************************************)
EXTENDS AiBudget, ModelAttempts, SequenceTheorems, FiniteSetTheorems, WellFoundedInduction, TLAPS
-----------------------------------------------------------------------------
(* The lanes.                                                               *)

States ==
  {"idle", "join", "local", "lease", "check", "send", "request", "cool", "clear", "release", "unlink", "refused", "done"}
Working == {"join", "local", "lease", "check", "send", "request", "cool", "clear", "refused"}
Unsent == {"idle", "join", "local", "lease", "check", "send", "refused"}
Row == [holder : Attempts \cup {NoAttempt}, expired : BOOLEAN]
Owned(a) == [holder |-> a, expired |-> FALSE]

Types ==
  /\ pc \in [Attempts -> States] /\ got \in [Attempts -> Nat] /\ tries \in [Attempts -> 0..2]
  /\ lease \in [Keys -> Row] /\ late \subseteq Attempts \X Keys
  /\ cooling \subseteq Keys /\ known \in [Procs -> SUBSET Keys]

\* An attempt in state s with g lanes and t requests, under the rows l when the
\* lanes e had ended.
Attempt(a, s, g, t, l, e) ==
  /\ g <= Len(Lanes[a])
  /\ s = "idle" => g = 0
  /\ s \in {"release", "unlink"} => g > 0
  /\ s \in {"join", "local", "lease"} => g < Len(Lanes[a])
  /\ s \in {"check", "send", "request", "cool", "clear"} => g = Len(Lanes[a])
  /\ s \in Unsent => t = 0
  /\ s = "request" => t \in {1, 2}
  /\ s \in Working => \A i \in 1..g : <<a, Lanes[a][i]>> \notin e => l[Lanes[a][i]] = Owned(a)

Owning == \A a \in Attempts : Attempt(a, pc[a], got[a], tries[a], lease, late)

RanOut(a) == \E b \in Attempts : Model[b] = Model[a] /\ <<b, Model[b]>> \in late
Cooled == \A a \in Attempts : pc[a] = "send" /\ Cooling(a) => RanOut(a)

IInv == Types /\ Owning /\ Cooled

\* Every lane is a key, and the model of an attempt is one of its lanes.
LEMMA LaneFacts ==
  ASSUME NEW a \in Attempts
  PROVE  /\ Len(Lanes[a]) \in Nat /\ Len(Lanes[a]) > 0
         /\ \A i \in 1..Len(Lanes[a]) : Lanes[a][i] \in Keys
         /\ \E i \in 1..Len(Lanes[a]) : Lanes[a][i] = Model[a]
         /\ Model[a] \in Keys /\ Home[a] \in Procs
<1>1. Lanes[a] \in Seq(Keys)
  BY ConstantsAssumption
<1>2. DOMAIN Lanes[a] = 1..Len(Lanes[a]) /\ Len(Lanes[a]) \in Nat
  BY <1>1
<1>3. \E i \in DOMAIN Lanes[a] : Lanes[a][i] = Model[a]
  BY ConstantsAssumption
<1>4. \A i \in 1..Len(Lanes[a]) : Lanes[a][i] \in Keys
  BY <1>1
<1>5. Len(Lanes[a]) > 0
  BY <1>2, <1>3
<1>6. Model[a] \in Keys /\ Home[a] \in Procs
  BY ConstantsAssumption
<1> QED
  BY <1>2, <1>3, <1>4, <1>5, <1>6

LEMMA Initially == Init => IInv
<1> SUFFICES ASSUME Init PROVE IInv
  OBVIOUS
<1>1. Types
  BY DEF Init, Types, States, Row, Open
<1>2. Owning
  <2> SUFFICES ASSUME NEW a \in Attempts PROVE Attempt(a, "idle", 0, 0, lease, late)
    BY DEF Init, Owning
  <2> QED
    BY LaneFacts DEF Attempt, Working, Unsent
<1>3. Cooled
  BY DEF Init, Cooled
<1> QED
  BY <1>1, <1>2, <1>3 DEF IInv
-----------------------------------------------------------------------------
(* Steps that move one attempt.                                             *)

\* Nothing of what an attempt owns changes when the rows it owns do not.
LEMMA OthersKeep ==
  ASSUME Types, Owning, NEW b \in Attempts, NEW l,
         \A k \in Keys : lease[k] = Owned(b) => l[k] = Owned(b)
  PROVE  Attempt(b, pc[b], got[b], tries[b], l, late)
<1>1. Attempt(b, pc[b], got[b], tries[b], lease, late)
  BY DEF Owning
<1>2. \A i \in 1..got[b] : Lanes[b][i] \in Keys
  BY <1>1, LaneFacts DEF Attempt, Types
<1> QED
  BY <1>1, <1>2 DEF Attempt

\* A step that moves attempt a alone keeps Owning, if it keeps what a owns and
\* the rows of the others.
LEMMA OneMoves ==
  ASSUME Types, Owning, NEW a \in Attempts, NEW s, NEW g, NEW t,
         pc' = [pc EXCEPT ![a] = s], got' = [got EXCEPT ![a] = g], tries' = [tries EXCEPT ![a] = t],
         Attempt(a, s, g, t, lease', late), UNCHANGED late,
         \A b \in Attempts \ {a} : \A k \in Keys : lease[k] = Owned(b) => lease'[k] = Owned(b)
  PROVE  Owning'
<1> SUFFICES ASSUME NEW b \in Attempts
             PROVE  Attempt(b, pc'[b], got'[b], tries'[b], lease', late)
  BY DEF Owning
<1>1. CASE b = a
  BY <1>1 DEF Types
<1>2. CASE b # a
  <2>1. Attempt(b, pc[b], got[b], tries[b], lease', late)
    BY <1>2, OthersKeep
  <2> QED
    BY <2>1, <1>2 DEF Types
<1> QED
  BY <1>1, <1>2

\* The cooldowns stay respected by a step that starts no attempt and cools
\* nothing down.
LEMMA CooledKept ==
  ASSUME Types, Cooled,
         \A b \in Attempts : pc'[b] = "send" => pc[b] = "send",
         late \subseteq late',
         cooling' \subseteq cooling,
         \A p \in Procs : known'[p] \subseteq known[p] \cup cooling
  PROVE  Cooled'
<1> SUFFICES ASSUME NEW a \in Attempts, pc'[a] = "send", Model[a] \in cooling' \cup known'[Home[a]]
             PROVE  \E b \in Attempts : Model[b] = Model[a] /\ <<b, Model[b]>> \in late'
  BY DEF Cooled, Cooling, RanOut
<1>1. Cooling(a)
  BY LaneFacts DEF Cooling
<1> QED
  BY <1>1 DEF Cooled, RanOut

\* A row that is written is a row, and who owned another one keeps it.
LEMMA RowWritten ==
  ASSUME Types, NEW k \in Keys, NEW r \in Row, lease' = [lease EXCEPT ![k] = r]
  PROVE  /\ lease' \in [Keys -> Row] /\ lease'[k] = r
         /\ \A b \in Attempts : lease[k] # Owned(b) =>
              \A j \in Keys : lease[j] = Owned(b) => lease'[j] = Owned(b)
<1>1. lease' \in [Keys -> Row] /\ lease'[k] = r /\ \A j \in Keys \ {k} : lease'[j] = lease[j]
  BY DEF Types
<1> QED
  BY <1>1

LEMMA RowFacts == Open \in Row /\ \A a \in Attempts : Owned(a) \in Row
BY DEF Open, Owned, Row

-----------------------------------------------------------------------------
(* The steps, one lemma each.                                               *)

LEMMA Reading ==
  ASSUME IInv, NEW a \in Attempts, Begin(a) \/ Check(a)
  PROVE  IInv'
<1> USE DEF IInv
<1> PICK stop \in {"done", "release"}, go \in {"join", "send"} :
      /\ \/ pc[a] = "idle" /\ stop = "done" /\ go = "join"
         \/ pc[a] = "check" /\ stop = "release" /\ go = "send"
      /\ Reads(a, stop, go)
  BY DEF Begin, Check
<1>1. UNCHANGED <<got, tries, lease, late, cooling>>
  BY DEF Begin, Check
<1>2. PICK s \in {stop, go} : pc' = [pc EXCEPT ![a] = s] /\ (s = go => ~Cooling(a) /\ known' = known)
  <2>1. CASE SeenCooling(a)
    BY <2>1 DEF Reads, Goes
  <2>2. CASE ~SeenCooling(a)
    <3>1. known' = known
      BY <2>2 DEF Reads, Types
    <3> QED
      BY <2>2, <3>1 DEF Reads, Goes, SeenCooling
  <2> QED
    BY <2>1, <2>2
<1>3. known' \in [Procs -> SUBSET Keys] /\ \A p \in Procs : known'[p] \subseteq known[p] \cup cooling
  <2>1. UNCHANGED known \/ (SeenCooling(a) /\ known' = [known EXCEPT ![Home[a]] = @ \cup {Model[a]}])
    BY DEF Reads, Types
  <2>2. CASE UNCHANGED known
    BY <2>2 DEF Types
  <2>3. CASE SeenCooling(a) /\ known' = [known EXCEPT ![Home[a]] = @ \cup {Model[a]}]
    <3>1. Model[a] \in known[Home[a]] \cup cooling /\ Model[a] \in Keys /\ Home[a] \in Procs
      BY <2>3, LaneFacts DEF SeenCooling, Cooling
    <3>2. known \in [Procs -> SUBSET Keys]
      BY DEF Types
    <3> QED
      BY <2>3, <3>1, <3>2
  <2> QED
    BY <2>1, <2>2, <2>3
<1>4. Types'
  BY <1>1, <1>2, <1>3 DEF Types, States
<1>5. Attempt(a, pc[a], got[a], tries[a], lease, late)
  BY DEF Owning
<1>6. Attempt(a, s, got[a], tries[a], lease', late)
  <2>1. (pc[a] \in Working /\ got[a] \in Nat) \/ (pc[a] = "idle" /\ got[a] = 0)
    <3>1. got[a] \in Nat
      BY DEF Types
    <3>2. pc[a] = "idle" => got[a] = 0
      BY <1>5 DEF Attempt
    <3>3. pc[a] \in {"idle", "check"}
      OBVIOUS
    <3>4. "check" \in Working
      BY DEF Working
    <3> QED
      BY <3>1, <3>2, <3>3, <3>4
  <2>2. \A i \in 1..got[a] : <<a, Lanes[a][i]>> \notin late => lease'[Lanes[a][i]] = Owned(a)
    BY <1>1, <1>5, <2>1 DEF Attempt
  <2> QED
    BY <1>1, <1>5, <2>2, LaneFacts DEF Attempt, Working, Unsent
<1>7. Owning'
  <2>1. got' = [got EXCEPT ![a] = got[a]] /\ tries' = [tries EXCEPT ![a] = tries[a]] /\ UNCHANGED <<late, lease>>
    BY <1>1 DEF Types
  <2> QED
    BY <1>2, <1>6, <2>1, OneMoves
<1>8. CASE s # "send"
  <2>1. Cooled'
    BY <1>1, <1>2, <1>3, <1>8, CooledKept DEF Types
  <2> QED
    BY <2>1, <1>4, <1>7
<1>9. CASE s = "send"
  <2>1. s = go /\ known' = known /\ ~Cooling(a)
    BY <1>2, <1>9
  <2>2. UNCHANGED <<cooling, known, late>> /\ \A b \in Attempts \ {a} : pc'[b] = pc[b]
    BY <1>1, <1>2, <2>1 DEF Types
  <2>3. Cooled'
    BY <2>1, <2>2 DEF Cooled, Cooling, RanOut
  <2> QED
    BY <2>3, <1>4, <1>7
<1> QED
  BY <1>8, <1>9

LEMMA Waits ==
  ASSUME IInv, NEW a \in Attempts, Join(a) \/ LocalTurn(a) \/ GiveUp(a) \/ Refused(a)
  PROVE  IInv'
<1> USE DEF IInv
<1>1. UNCHANGED <<got, tries, lease, late, cooling, known>>
  BY DEF Join, LocalTurn, GiveUp, Refused
<1>2. Attempt(a, pc[a], got[a], tries[a], lease, late)
  BY DEF Owning
<1>3. PICK s \in {"refused", "local", "lease", "done", "release"} :
        pc' = [pc EXCEPT ![a] = s] /\ Attempt(a, s, got[a], tries[a], lease', late)
  <2>1. CASE Join(a)
    BY <2>1, <1>1, <1>2 DEF Join, Goes, Attempt, Working, Unsent
  <2>2. CASE LocalTurn(a)
    BY <2>2, <1>1, <1>2 DEF LocalTurn, Goes, Attempt, Working, Unsent
  <2>3. CASE GiveUp(a)
    BY <2>3, <1>1, <1>2 DEF GiveUp, Goes, Attempt, Working, Unsent
  <2>4. CASE Refused(a)
    <3>1. pc[a] = "refused" /\ pc' = [pc EXCEPT ![a] = IF got[a] = 0 THEN "done" ELSE "release"]
      BY <2>4 DEF Refused, Goes
    <3>2. got[a] \in Nat /\ got[a] <= Len(Lanes[a])
      BY <1>2 DEF Attempt, Types
    <3>3. CASE got[a] = 0
      BY <3>1, <3>2, <3>3 DEF Attempt, Working, Unsent
    <3>4. CASE got[a] # 0
      BY <3>1, <3>2, <3>4 DEF Attempt, Working, Unsent
    <3> QED
      BY <3>3, <3>4
  <2> QED
    BY <2>1, <2>2, <2>3, <2>4
<1>4. Types'
  BY <1>1, <1>3 DEF Types, States
<1>5. Owning'
  BY <1>1, <1>3, OneMoves DEF Types
<1>6. Cooled'
  BY <1>1, <1>3, CooledKept DEF Types
<1> QED
  BY <1>4, <1>5, <1>6

\* A row that is open, or has expired, is owned by nobody.
LEMMA Taking ==
  ASSUME IInv, NEW a \in Attempts, TakeLease(a) \/ TakeFails(a)
  PROVE  IInv'
<1> USE DEF IInv
<1> DEFINE g == got[a]
           k == Lanes[a][g + 1]
<1>1. UNCHANGED <<tries, late, cooling, known>> /\ pc[a] = "lease"
  BY DEF TakeLease, TakeFails
<1>2. Attempt(a, "lease", g, tries[a], lease, late)
  BY <1>1 DEF Owning
<1>3. g \in Nat /\ g < Len(Lanes[a]) /\ tries[a] = 0 /\ \A i \in 1..g : <<a, Lanes[a][i]>> \notin late => lease[Lanes[a][i]] = Owned(a)
  BY <1>2 DEF Attempt, Types, Working, Unsent
<1>4. k \in Keys /\ \A i \in 1..g : Lanes[a][i] \in Keys /\ Lanes[a][i] # k
  <2>1. \A i, j \in 1..Len(Lanes[a]) : Lanes[a][i] = Lanes[a][j] => i = j
    BY LaneFacts, ConstantsAssumption
  <2> QED
    BY <1>3, <2>1, LaneFacts
<1>5. \/ UNCHANGED lease
      \/ (lease[k].holder = NoAttempt \/ lease[k].expired) /\ lease' = [lease EXCEPT ![k] = Owned(a)]
  BY DEF TakeLease, TakeFails, Wanted, Owned
<1>6. (\A b \in Attempts : \A l \in Keys : lease[l] = Owned(b) => lease'[l] = Owned(b)) /\ lease' \in [Keys -> Row]
  <2>1. CASE UNCHANGED lease
    BY <2>1 DEF Types
  <2>2. CASE (lease[k].holder = NoAttempt \/ lease[k].expired) /\ lease' = [lease EXCEPT ![k] = Owned(a)]
    <3>1. \A b \in Attempts : lease[k] # Owned(b)
      BY <2>2, ConstantsAssumption DEF Owned
    <3> HIDE DEF k
    <3> QED
      BY <2>2, <3>1, <1>4, RowFacts, RowWritten
  <2> QED
    BY <1>5, <2>1, <2>2
<1>7. lease' \in [Keys -> Row]
  BY <1>6
<1>8. CASE TakeLease(a)
  <2>1. lease' = [lease EXCEPT ![k] = Owned(a)] /\ got' = [got EXCEPT ![a] = g + 1]
    BY <1>8 DEF TakeLease, Wanted, Owned, Reserves
  <2>2. PICK s \in {"check", "join"} :
          pc' = [pc EXCEPT ![a] = s] /\ (s = "check" <=> g + 1 = Len(Lanes[a]))
    BY <1>8 DEF TakeLease, Reserves, Goes
  <2>3. \A i \in 1..(g + 1) : <<a, Lanes[a][i]>> \notin late => lease'[Lanes[a][i]] = Owned(a)
    <3>1. lease'[k] = Owned(a)
      BY <2>1, <1>4 DEF Types
    <3>2. ASSUME NEW i \in 1..g, <<a, Lanes[a][i]>> \notin late PROVE lease'[Lanes[a][i]] = Owned(a)
      BY <3>2, <1>3, <1>4, <1>6
    <3> QED
      BY <3>1, <3>2, <1>3
  <2>4. Attempt(a, s, g + 1, 0, lease', late)
    BY <2>2, <2>3, <1>3, LaneFacts DEF Attempt, Working, Unsent
  <2>5. tries' = [tries EXCEPT ![a] = 0]
    BY <1>1, <1>3 DEF Types
  <2>6. Owning'
    BY <2>1, <2>2, <2>4, <2>5, <1>1, <1>6, OneMoves
  <2>7. Types'
    BY <2>1, <2>2, <1>1, <1>3, <1>7 DEF Types, States
  <2>8. Cooled'
    BY <2>2, <1>1, CooledKept DEF Types
  <2> QED
    BY <2>6, <2>7, <2>8
<1>9. CASE TakeFails(a)
  <2>1. pc' = [pc EXCEPT ![a] = "refused"] /\ got' = got
    BY <1>9 DEF TakeFails, Goes
  <2>2. Attempt(a, "refused", g, tries[a], lease', late)
    BY <1>3, <1>4, <1>6 DEF Attempt, Working, Unsent, Types
  <2>3. got' = [got EXCEPT ![a] = g] /\ tries' = [tries EXCEPT ![a] = tries[a]] /\ UNCHANGED late
    BY <2>1, <1>1 DEF Types
  <2>6. \A b \in Attempts \ {a} : \A l \in Keys : lease[l] = Owned(b) => lease'[l] = Owned(b)
    BY <1>6
  <2> HIDE DEF g, k
  <2>4. Owning'
    BY <2>1, <2>2, <2>3, <2>6, OneMoves
  <2>5. Types'
    BY <2>1, <1>1, <1>7 DEF Types, States
  <2>7. Cooled'
    BY <2>1, <1>1, CooledKept DEF Types
  <2> QED
    BY <2>4, <2>5, <2>7
<1> QED
  BY <1>8, <1>9

LEMMA Gives ==
  ASSUME IInv, NEW a \in Attempts, ReleaseRow(a) \/ Unlink(a)
  PROVE  IInv'
<1> USE DEF IInv
<1> DEFINE g == got[a]
<1>1. UNCHANGED <<tries, late, cooling, known>> /\ tries' = [tries EXCEPT ![a] = tries[a]]
  BY DEF ReleaseRow, Unlink, Types
<1>2. Attempt(a, pc[a], g, tries[a], lease, late)
  BY DEF Owning
<1>3. g \in Nat /\ g > 0 /\ g <= Len(Lanes[a])
  BY <1>2 DEF ReleaseRow, Unlink, Attempt, Types
<1>4. CASE ReleaseRow(a)
  <2>1. pc' = [pc EXCEPT ![a] = "unlink"] /\ got' = [got EXCEPT ![a] = g]
    BY <1>4 DEF ReleaseRow, Goes, Types
  <2>2. UNCHANGED lease \/ (lease[Latest(a)].holder = a /\ lease' = [lease EXCEPT ![Latest(a)] = Open])
    BY <1>4 DEF ReleaseRow, IsToken
  <2>3. (\A b \in Attempts \ {a} : \A k \in Keys : lease[k] = Owned(b) => lease'[k] = Owned(b)) /\ lease' \in [Keys -> Row]
    <3>1. CASE UNCHANGED lease
      BY <3>1 DEF Types
    <3>2. CASE lease[Latest(a)].holder = a /\ lease' = [lease EXCEPT ![Latest(a)] = Open]
      <4>1. \A b \in Attempts \ {a} : lease[Latest(a)] # Owned(b)
        BY <3>2 DEF Owned
      <4>2. Latest(a) \in Keys
        BY <1>3, LaneFacts DEF Latest
      <4> QED
        BY <3>2, <4>1, <4>2, RowFacts, RowWritten
    <3> QED
      BY <2>2, <3>1, <3>2
  <2>4. lease' \in [Keys -> Row]
    BY <2>3
  <2>5. Owning'
    BY <2>1, <2>3, <1>1, <1>3, OneMoves DEF Attempt, Working, Unsent
  <2>6. Types'
    BY <2>1, <2>4, <1>1, <1>3 DEF Types, States
  <2>7. Cooled'
    BY <2>1, <1>1, CooledKept DEF Types
  <2> QED
    BY <2>5, <2>6, <2>7
<1>5. CASE Unlink(a)
  <2>1. UNCHANGED lease /\ got' = [got EXCEPT ![a] = g - 1]
    BY <1>5 DEF Unlink
  <2>2. PICK s \in {"done", "release"} : pc' = [pc EXCEPT ![a] = s] /\ (s = "done" <=> g = 1)
    BY <1>5 DEF Unlink, Goes
  <2>3. Attempt(a, s, g - 1, tries[a], lease, late)
    BY <2>2, <1>3, LaneFacts DEF Attempt, Working, Unsent
  <2>4. Owning'
    BY <2>1, <2>2, <2>3, <1>1, OneMoves
  <2>5. Types'
    BY <2>1, <2>2, <1>1, <1>3 DEF Types, States
  <2>6. Cooled'
    BY <2>2, <1>1, CooledKept DEF Types
  <2> QED
    BY <2>4, <2>5, <2>6
<1> QED
  BY <1>4, <1>5

\* A model that is cooled down by a request has no first request ahead of it: its
\* row belongs to the attempt that was limited, unless its lease ran out.
LEMMA CoolsDown ==
  ASSUME IInv, NEW a \in Attempts, pc[a] \in {"request", "cool"},
         \A b \in Attempts : pc'[b] = "send" => pc[b] = "send" /\ b # a,
         UNCHANGED late,
         \A k \in cooling' : k \in cooling \/ k = Model[a],
         \A p \in Procs : \A k \in known'[p] : k \in known[p] \/ k = Model[a]
  PROVE  Cooled'
<1> USE DEF IInv
<1> SUFFICES ASSUME NEW b \in Attempts, pc[b] = "send", b # a, Model[b] \in cooling' \cup known'[Home[b]]
             PROVE  RanOut(b)
  BY DEF Cooled, Cooling, RanOut
<1>1. CASE Cooling(b)
  BY <1>1 DEF Cooled
<1>2. CASE Model[b] = Model[a]
  <2>1. Attempt(a, pc[a], got[a], tries[a], lease, late) /\ Attempt(b, "send", got[b], tries[b], lease, late)
    BY DEF Owning
  <2>2. <<a, Model[a]>> \notin late => lease[Model[a]] = Owned(a)
    BY <2>1, LaneFacts DEF Attempt, Working
  <2>3. <<b, Model[b]>> \notin late => lease[Model[b]] = Owned(b)
    BY <2>1, LaneFacts DEF Attempt, Working
  <2>4. Owned(a) # Owned(b)
    <3>1. Owned(a).holder = a /\ Owned(b).holder = b
      BY DEF Owned
    <3> QED
      BY <3>1
  <2> QED
    BY <1>2, <2>2, <2>3, <2>4 DEF RanOut
<1> QED
  BY <1>1, <1>2, LaneFacts DEF Cooling

LEMMA RequestStates ==
  ASSUME IInv, NEW a \in Attempts, Requesting(a)
  PROVE  IInv'
<1> USE DEF IInv
<1>1. UNCHANGED <<got, lease, late>> /\ got' = [got EXCEPT ![a] = got[a]]
  BY DEF Requesting, Send, Succeeds, FailsTransiently, RateLimited, Cool, Clear, Types
<1>2. Attempt(a, pc[a], got[a], tries[a], lease, late) /\ got[a] \in Nat /\ Len(Lanes[a]) \in Nat /\ Len(Lanes[a]) > 0
  BY LaneFacts DEF Owning, Types
<1>3. pc[a] \in {"send", "request", "cool", "clear"}
  BY DEF Requesting, Send, Succeeds, FailsTransiently, RateLimited, Cool, Clear
<1>4. got[a] = Len(Lanes[a]) /\ \A i \in 1..got[a] : <<a, Lanes[a][i]>> \notin late => lease[Lanes[a][i]] = Owned(a)
  BY <1>2, <1>3 DEF Attempt, Working
<1>5. PICK s \in {"request", "clear", "cool", "release"}, t \in 0..2 :
        /\ pc' = [pc EXCEPT ![a] = s] /\ tries' = [tries EXCEPT ![a] = t]
        /\ s = "request" => t \in {1, 2}
  <2>1. CASE Send(a)
    <3>1. tries[a] = 0
      BY <2>1, <1>2 DEF Send, Attempt, Unsent
    <3> QED
      BY <2>1, <3>1 DEF Send, Goes
  <2>2. CASE FailsTransiently(a)
    <3>1. CASE tries[a] = 1 /\ a \in Retrying
      <4>1. pc' = [pc EXCEPT ![a] = "request"]
        BY <2>2, <3>1 DEF FailsTransiently, Types
      <4>2. tries' = [tries EXCEPT ![a] = 2]
        BY <2>2, <3>1 DEF FailsTransiently
      <4> QED
        BY <3>1, <4>1, <4>2
    <3>2. CASE ~(tries[a] = 1 /\ a \in Retrying)
      BY <2>2, <3>2 DEF FailsTransiently, Goes, Types
    <3> QED
      BY <3>1, <3>2
  <2>3. CASE Succeeds(a) \/ RateLimited(a) \/ Cool(a) \/ Clear(a)
    <3>1. PICK s \in {"clear", "cool", "release"} : pc' = [pc EXCEPT ![a] = s] /\ tries' = tries
      BY <2>3 DEF Succeeds, RateLimited, Cool, Clear, Goes
    <3> QED
      BY <3>1 DEF Types
  <2> QED
    BY <2>1, <2>2, <2>3 DEF Requesting
<1>6. Owning'
  <2>1. Attempt(a, s, got[a], t, lease', late)
    BY <1>1, <1>2, <1>4, <1>5 DEF Attempt, Unsent, Working
  <2> QED
    BY <1>1, <1>5, <2>1, OneMoves
<1>7. cooling' \subseteq Keys /\ known' \in [Procs -> SUBSET Keys]
  <2>1. CASE Send(a) \/ FailsTransiently(a)
    BY <2>1 DEF Send, FailsTransiently, Types
  <2>2. CASE Succeeds(a) \/ RateLimited(a)
    BY <2>2, LaneFacts DEF Succeeds, RateLimited, Types
  <2>3. CASE Cool(a) \/ Clear(a)
    BY <2>3, LaneFacts DEF Cool, Clear, Types
  <2> QED
    BY <2>1, <2>2, <2>3 DEF Requesting
<1>8. Types'
  BY <1>1, <1>5, <1>7 DEF Types, States
<1>9. Cooled'
  <2>1. \A b \in Attempts : pc'[b] = "send" => pc[b] = "send" /\ b # a
    BY <1>5 DEF Types
  <2>2. CASE RateLimited(a) \/ Cool(a)
    <3>1. /\ pc[a] \in {"request", "cool"} /\ UNCHANGED late
          /\ \A k \in cooling' : k \in cooling \/ k = Model[a]
      BY <2>2 DEF RateLimited, Cool
    <3>2. \A p \in Procs : \A k \in known'[p] : k \in known[p] \/ k = Model[a]
      <4>1. known \in [Procs -> SUBSET Keys] /\ Home[a] \in Procs
        BY LaneFacts DEF Types
      <4>2. known' = known \/ known' = [known EXCEPT ![Home[a]] = @ \cup {Model[a]}]
        BY <2>2 DEF RateLimited, Cool
      <4> QED
        BY <4>1, <4>2
    <3> QED
      BY <2>1, <3>1, <3>2, CoolsDown
  <2>3. CASE Send(a) \/ Succeeds(a) \/ FailsTransiently(a) \/ Clear(a)
    <3>1. cooling' \subseteq cooling
      BY <2>3 DEF Send, Succeeds, FailsTransiently, Clear
    <3>2. \A p \in Procs : known'[p] \subseteq known[p]
      BY <2>3, LaneFacts DEF Send, Succeeds, FailsTransiently, Clear, Types
    <3> QED
      BY <1>1, <2>1, <3>1, <3>2, CooledKept
  <2> QED
    BY <2>2, <2>3 DEF Requesting
<1> QED
  BY <1>6, <1>8, <1>9

LEMMA Clocks ==
  ASSUME IInv, \/ \E k \in Keys : LeaseExpires(k) \/ CooldownEnds(k)
               \/ \E p \in Procs, k \in Keys : KnownEnds(p, k)
  PROVE  IInv'
<1> USE DEF IInv
<1>1. UNCHANGED <<pc, got, tries>> /\ late \subseteq late'
  BY DEF LeaseExpires, CooldownEnds, KnownEnds
<1>2. cooling' \subseteq cooling /\ (\A p \in Procs : known'[p] \subseteq known[p]) /\ known' \in [Procs -> SUBSET Keys]
  BY DEF LeaseExpires, CooldownEnds, KnownEnds, Types
<1>3. Cooled'
  BY <1>1, <1>2, CooledKept
<1>4. CASE UNCHANGED <<lease, late>>
  <2>1. Owning'
    BY <1>1, <1>4 DEF Owning
  <2> QED
    BY <1>1, <1>2, <1>3, <1>4, <2>1 DEF Types
<1>5. CASE \E k \in Keys : LeaseExpires(k)
  <2> PICK k \in Keys : LeaseExpires(k)
    BY <1>5
  <2> DEFINE r == [lease[k] EXCEPT !.expired = TRUE]
             h == lease[k].holder
  <2>1. /\ lease' = [lease EXCEPT ![k] = r] /\ h # NoAttempt
        /\ k \in Reserved(h) => late' = late \cup {<<h, k>>}
        /\ k \notin Reserved(h) => late' = late
    BY DEF LeaseExpires
  <2>2. r \in Row /\ lease[k] \in Row /\ h \in Attempts
    BY <2>1 DEF Types, Row
  <2> HIDE DEF r, h
  <2>3. lease' \in [Keys -> Row] /\ (\A j \in Keys \ {k} : lease'[j] = lease[j]) /\ late' \subseteq Attempts \X Keys
    BY <2>1, <2>2 DEF Types
  <2>4. Owning'
    <3> SUFFICES ASSUME NEW b \in Attempts
                 PROVE  Attempt(b, pc[b], got[b], tries[b], lease', late')
      BY <1>1 DEF Owning
    <3>1. Attempt(b, pc[b], got[b], tries[b], lease, late)
      BY DEF Owning
    <3>2. ASSUME NEW i \in 1..got[b], <<b, Lanes[b][i]>> \notin late', lease[Lanes[b][i]] = Owned(b)
          PROVE  lease'[Lanes[b][i]] = Owned(b)
      <4>1. Lanes[b][i] \in Keys
        BY <3>1, LaneFacts DEF Attempt, Types
      <4>2. Lanes[b][i] \in Reserved(b)
        BY DEF Reserved
      <4>3. CASE Lanes[b][i] = k
        <5>1. h = b
          BY <3>2, <4>3 DEF Owned, h
        <5> QED
          BY <2>1, <3>2, <4>2, <4>3, <5>1
      <4> QED
        BY <2>3, <3>2, <4>1, <4>3
    <3> QED
      BY <1>1, <3>1, <3>2 DEF Attempt
  <2> QED
    BY <1>1, <1>2, <1>3, <2>3, <2>4 DEF Types
<1> QED
  BY <1>4, <1>5 DEF CooldownEnds, KnownEnds

LEMMA Crashes ==
  ASSUME IInv, NEW p \in Procs, Crash(p)
  PROVE  IInv'
<1> USE DEF IInv
<1>1. UNCHANGED <<tries, lease, late, cooling>>
  BY DEF Crash
<1>2. /\ pc' = [a \in Attempts |-> IF Home[a] = p /\ pc[a] # "idle" THEN "done" ELSE pc[a]]
      /\ got' = [a \in Attempts |-> IF Home[a] = p THEN 0 ELSE got[a]]
      /\ known' = [known EXCEPT ![p] = {}]
  BY DEF Crash
<1>3. Types'
  BY <1>1, <1>2 DEF Types, States
<1>4. Owning'
  <2> SUFFICES ASSUME NEW b \in Attempts
               PROVE  Attempt(b, pc'[b], got'[b], tries[b], lease, late)
    BY <1>1 DEF Owning
  <2>1. Attempt(b, pc[b], got[b], tries[b], lease, late)
    BY DEF Owning
  <2>2. CASE Home[b] # p
    BY <1>2, <2>1, <2>2
  <2>3. CASE Home[b] = p /\ pc[b] = "idle"
    <3>1. pc'[b] = pc[b] /\ got'[b] = 0 /\ got[b] = 0
      BY <1>2, <2>1, <2>3 DEF Attempt
    <3> QED
      BY <2>1, <3>1
  <2>4. CASE Home[b] = p /\ pc[b] # "idle"
    <3>1. pc'[b] = "done" /\ got'[b] = 0
      BY <1>2, <2>4
    <3> QED
      BY <3>1, LaneFacts DEF Attempt, Working, Unsent
  <2> QED
    BY <2>2, <2>3, <2>4
<1>5. Cooled'
  <2>1. \A b \in Attempts : pc'[b] = "send" => pc[b] = "send"
    BY <1>2
  <2>2. \A q \in Procs : known'[q] \subseteq known[q]
    BY <1>2 DEF Types
  <2> QED
    BY <1>1, <2>1, <2>2, CooledKept
<1> QED
  BY <1>3, <1>4, <1>5

LEMMA Invariance == IInv /\ [Next]_vars => IInv'
<1> SUFFICES ASSUME IInv, [Next]_vars PROVE IInv'
  OBVIOUS
<1>1. CASE UNCHANGED vars
  BY <1>1 DEF vars, IInv, Types, Owning, Cooled, Cooling, RanOut
<1>2. CASE \E a \in Attempts : Step(a)
  <2> PICK a \in Attempts : Step(a)
    BY <1>2
  <2>1. CASE Reserving(a)
    BY <2>1, Reading, Waits, Taking DEF Reserving
  <2>2. CASE Requesting(a)
    BY <2>2, RequestStates
  <2>3. CASE Releasing(a)
    BY <2>3, Waits, Gives DEF Releasing
  <2> QED
    BY <2>1, <2>2, <2>3 DEF Step
<1>3. CASE \/ \E k \in Keys : LeaseExpires(k) \/ CooldownEnds(k)
           \/ \E p \in Procs, k \in Keys : KnownEnds(p, k)
  BY <1>3, Clocks
<1>4. CASE \E p \in Procs : Crash(p)
  BY <1>4, Crashes
<1> QED
  BY <1>1, <1>2, <1>3, <1>4 DEF Next

LEMMA Always == Spec => []IInv
<1> QED
  BY Initially, Invariance, PTL DEF Spec
-----------------------------------------------------------------------------
(* What follows from who owns the rows.                                     *)

\* Two requests meet on a lane only when its lease ran out under one of them: else
\* both would own the row (acquireAttemptLease, release).
THEOREM RequestsMeetAfterExpiryOnly == Spec => []MeetOnlyAfterExpiry
<1>1. IInv => MeetOnlyAfterExpiry
  <2> SUFFICES ASSUME IInv, NEW a \in Attempts, NEW b \in Attempts, a # b,
                      pc[a] = "request", pc[b] = "request",
                      NEW k \in Reserved(a) \cap Reserved(b), <<a, k>> \notin late, <<b, k>> \notin late
               PROVE  FALSE
    BY DEF MeetOnlyAfterExpiry
  <2>1. PICK i \in 1..got[a], j \in 1..got[b] : Lanes[a][i] = k /\ Lanes[b][j] = k
    BY DEF Reserved
  <2>2. Attempt(a, "request", got[a], tries[a], lease, late) /\ Attempt(b, "request", got[b], tries[b], lease, late)
    BY DEF IInv, Owning
  <2>3. lease[k] = Owned(a) /\ lease[k] = Owned(b)
    BY <2>1, <2>2 DEF Attempt, Working
  <2>4. Owned(a).holder = a /\ Owned(b).holder = b
    BY DEF Owned
  <2> QED
    BY <2>3, <2>4
<1> QED
  BY <1>1, Always, PTL

\* A first request goes into a cooldown only after a lease of its model ran out
\* under an attempt (readModelCooldowns after the leases).
THEOREM CooldownsRespected == Spec => CooldownRespected
<1>1. IInv /\ [Next]_vars =>
        [\A a \in Attempts : tries[a] = 0 /\ tries'[a] = 1 /\ Cooling(a) =>
           \E b \in Attempts : Model[b] = Model[a] /\ <<b, Model[b]>> \in late]_vars
  <2> SUFFICES ASSUME IInv, Next, NEW a \in Attempts, tries[a] = 0, tries'[a] = 1, Cooling(a)
               PROVE  RanOut(a)
    BY DEF RanOut
  <2>1. \E b \in Attempts : Send(b) \/ FailsTransiently(b)
    <3>1. tries' # tries
      OBVIOUS
    <3>2. PICK b \in Attempts : Step(b)
      BY <3>1 DEF Next, LeaseExpires, CooldownEnds, KnownEnds, Crash
    <3>3. ~Reserving(b)
      BY <3>1 DEF Reserving, Begin, Join, LocalTurn, GiveUp, TakeLease, TakeFails, Check
    <3>4. ~Releasing(b)
      BY <3>1 DEF Releasing, Refused, ReleaseRow, Unlink
    <3>5. Send(b) \/ FailsTransiently(b)
      BY <3>1, <3>2, <3>3, <3>4 DEF Step, Requesting, Succeeds, RateLimited, Cool, Clear
    <3> QED
      BY <3>5
  <2>2. Send(a)
    BY <2>1 DEF Send, FailsTransiently, IInv, Types
  <2>3. pc[a] = "send"
    BY <2>2 DEF Send
  <2> QED
    BY <2>3 DEF IInv, Cooled
<1> QED
  BY <1>1, Always, PTL DEF Spec, CooldownRespected
-----------------------------------------------------------------------------
(* The chains of a process.  A lane has one link for each attempt that came  *)
(* for it; the first link is open, and whoever holds the lane has it.        *)

Link == [who : Attempts, released : BOOLEAN]
Past == {"refused", "release", "unlink", "done"}

OpenLinks(links) == {i \in DOMAIN links : ~links[i].released}

\* Attempt a, in state s with g lanes, has reserved lane k, has come to wait for
\* it, or is the next to get its row.
Has(a, k, g) == \E i \in 1..g : Lanes[a][i] = k
Occupies(a, k, s, g) == Has(a, k, g) \/ (s \in {"local", "lease"} /\ Lanes[a][g + 1] = k)
Holds(a, k, s, g) == Has(a, k, g) \/ (s = "lease" /\ Lanes[a][g + 1] = k)

OwnLinks(p, k, links, s, g) ==
  \A i \in 1..Len(links) :
    LET a == links[i].who
    IN  Home[a] = p /\ IF links[i].released THEN s[a] \in Past ELSE Occupies(a, k, s[a], g[a])

EachHasLink(p, k, links, s, g) ==
  \A a \in Attempts :
    Home[a] = p /\ Occupies(a, k, s[a], g[a]) =>
      \E i \in 1..Len(links) : links[i].who = a /\ ~links[i].released

HolderIsFirst(p, k, links, s, g) ==
  \A a \in Attempts :
    Home[a] = p /\ Holds(a, k, s[a], g[a]) => Len(links) > 0 /\ links[1].who = a

\* The chain of lane k in process p, with w waiters, for attempts in states s.
Lane(p, k, links, w, s, g) ==
  /\ links \in Seq(Link)
  /\ Len(links) > 0 => ~links[1].released
  /\ \A i, j \in 1..Len(links) : links[i].who = links[j].who => i = j
  /\ OwnLinks(p, k, links, s, g)
  /\ EachHasLink(p, k, links, s, g)
  /\ HolderIsFirst(p, k, links, s, g)
  /\ w \in 0..MaxWaiters /\ w = Cardinality(OpenLinks(links))

ChainTypes ==
  /\ chain \in [Procs -> [Keys -> Seq(Link)]] /\ waiters \in [Procs -> [Keys -> Nat]]
  /\ faults \in 0..MaxFaults

ChainInv ==
  ChainTypes /\ \A p \in Procs, k \in Keys : Lane(p, k, chain[p][k], waiters[p][k], pc, got)

(* Sequences of links.                                                       *)

LEMMA LeastNatural ==
  ASSUME NEW S, S \subseteq Nat, S # {}
  PROVE  \E n \in S : \A m \in S : n <= m
<1> DEFINE R == {ss \in Nat \X Nat : ss[1] < ss[2]}
<1>1. IsWellFoundedOn(R, Nat)
  BY NatLessThanWellFounded DEF OpToRel
<1> HIDE DEF R
<1>2. \E n \in S : \A m \in S : ~ (<<m, n>> \in R)
  BY <1>1, WFMin
<1>3. \A n, m \in Nat : <<m, n>> \notin R => n <= m
  BY DEF R
<1> QED
  BY <1>2, <1>3

LEMMA LinkTypes ==
  ASSUME NEW links \in Seq(Link)
  PROVE  \A i \in 1..Len(links) : links[i] \in Link /\ links[i].who \in Attempts
<1>1. \A i \in 1..Len(links) : links[i] \in Link
  OBVIOUS
<1>2. \A link \in Link : link.who \in Attempts
  BY DEF Link
<1> QED
  BY <1>1, <1>2

LEMMA OpenIsFinite ==
  ASSUME NEW links \in Seq(Link)
  PROVE  /\ OpenLinks(links) = {i \in 1..Len(links) : ~links[i].released}
         /\ IsFiniteSet(OpenLinks(links)) /\ Cardinality(OpenLinks(links)) \in Nat
<1>1. OpenLinks(links) = {i \in 1..Len(links) : ~links[i].released} /\ Len(links) \in Nat
  BY DEF OpenLinks
<1>2. IsFiniteSet(1..Len(links))
  BY <1>1, FS_Interval
<1>3. IsFiniteSet(OpenLinks(links))
  BY <1>1, <1>2, FS_Subset
<1> QED
  BY <1>1, <1>3, FS_CardinalityType

(* What is dropped from a chain is its released beginning.                   *)
LEMMA ResolvedFacts ==
  ASSUME NEW links \in Seq(Link)
  PROVE  \E m \in 0..Len(links) :
           /\ Resolved(links) \in Seq(Link) /\ Len(Resolved(links)) = Len(links) - m
           /\ \A i \in 1..(Len(links) - m) : Resolved(links)[i] = links[i + m]
           /\ \A i \in 1..m : links[i].released
           /\ Len(Resolved(links)) > 0 => ~Resolved(links)[1].released
<1> DEFINE open == {i \in DOMAIN links : ~links[i].released}
           first == CHOOSE i \in open : \A j \in open : i <= j
<1>1. DOMAIN links = 1..Len(links) /\ Len(links) \in Nat
  OBVIOUS
<1>2. CASE open = {}
  <2>1. Resolved(links) = <<>>
    BY <1>2 DEF Resolved
  <2>2. Len(links) \in 0..Len(links) /\ (\A i \in 1..Len(links) : links[i].released)
    BY <1>1, <1>2
  <2>3. /\ Resolved(links) \in Seq(Link) /\ Len(Resolved(links)) = 0
        /\ Len(links) - Len(links) = 0 /\ 1..0 = {}
    BY <1>1, <2>1, EmptySeq
  <2> QED
    BY <2>2, <2>3
<1>3. CASE open # {}
  <2>1. open \subseteq Nat
    BY <1>1
  <2>2. first \in open /\ \A j \in open : first <= j
    <3> HIDE DEF open
    <3> QED
      BY <1>3, <2>1, LeastNatural
  <2>3. Resolved(links) = SubSeq(links, first, Len(links))
    BY <1>3 DEF Resolved
  <2>4. first \in 1..Len(links) /\ ~links[first].released /\ \A i \in 1..(first - 1) : links[i].released
    BY <1>1, <2>2
  <2> HIDE DEF first
  <2>5. \A i \in first..Len(links) : links[i] \in Link
    BY <1>1, <2>4
  <2>6. /\ SubSeq(links, first, Len(links)) \in Seq(Link)
        /\ Len(SubSeq(links, first, Len(links))) = Len(links) - (first - 1)
        /\ \A i \in 1..(Len(links) - (first - 1)) :
             SubSeq(links, first, Len(links))[i] = links[i + (first - 1)]
    BY <1>1, <2>4, <2>5, SubSeqProperties
  <2>7. first - 1 \in 0..Len(links) /\ Len(links) - (first - 1) >= 1 /\ 1 + (first - 1) = first
    BY <1>1, <2>4
  <2>8. Resolved(links)[1] = links[first]
    BY <1>1, <2>3, <2>6, <2>7
  <2> QED
    BY <2>3, <2>4, <2>6, <2>7, <2>8
<1> QED
  BY <1>2, <1>3

Marked(links, a) == [i \in DOMAIN links |-> [links[i] EXCEPT !.released = @ \/ links[i].who = a]]

\* Chain l is what is left of links when a has left: m released links are cut.
Left(links, a, l, m) ==
  /\ m \in 0..Len(links) /\ l \in Seq(Link) /\ Len(l) = Len(links) - m
  /\ \A i \in 1..Len(l) :
       /\ i + m \in 1..Len(links) /\ l[i].who = links[i + m].who
       /\ l[i].released <=> links[i + m].released \/ links[i + m].who = a
  /\ \A i \in 1..m : links[i].released \/ links[i].who = a
  /\ Len(l) > 0 => ~l[1].released

(* The chain that attempt a leaves: its link is released, then the chain is  *)
(* cut at the first link that is open.                                       *)
LEMMA Leaving ==
  ASSUME NEW links \in Seq(Link), NEW a \in Attempts
  PROVE  \E m \in Nat : Left(links, a, Resolved(Marked(links, a)), m)
<1> DEFINE M == Marked(links, a)
           l == Resolved(M)
<1>1. Len(links) \in Nat /\ DOMAIN links = 1..Len(links) /\ \A i \in 1..Len(links) : links[i] \in Link
  OBVIOUS
<1>2. ASSUME NEW i \in 1..Len(links)
      PROVE  M[i] \in Link /\ M[i].who = links[i].who /\ (M[i].released <=> links[i].released \/ links[i].who = a)
  <2>1. M[i] = [links[i] EXCEPT !.released = @ \/ links[i].who = a]
    BY <1>1 DEF Marked
  <2>2. links[i] \in [who : Attempts, released : BOOLEAN]
    BY <1>1 DEF Link
  <2>3. M[i] = [links[i] EXCEPT !.released = links[i].released \/ links[i].who = a]
    BY <2>1, <2>2
  <2>4. CASE links[i].released \/ links[i].who = a
    <3>1. (links[i].released \/ links[i].who = a) = TRUE
      BY <2>4
    <3>2. M[i] = [links[i] EXCEPT !.released = TRUE]
      BY <2>3, <3>1
    <3> QED
      BY <2>2, <2>4, <3>2 DEF Link
  <2>5. CASE ~(links[i].released \/ links[i].who = a)
    <3>1. (links[i].released \/ links[i].who = a) = FALSE
      BY <2>5
    <3>2. M[i] = [links[i] EXCEPT !.released = FALSE]
      BY <2>3, <3>1
    <3> QED
      BY <2>2, <2>5, <3>2 DEF Link
  <2> QED
    BY <2>4, <2>5
<1>3. M \in Seq(Link) /\ Len(M) = Len(links)
  <2>1. M \in [1..Len(links) -> Link]
    BY <1>1, <1>2 DEF Marked
  <2> QED
    BY <1>1, <2>1, SeqDef
<1> HIDE DEF M
<1>4. PICK m \in 0..Len(M) :
           /\ l \in Seq(Link) /\ Len(l) = Len(M) - m
           /\ \A i \in 1..(Len(M) - m) : l[i] = M[i + m]
           /\ \A i \in 1..m : M[i].released
           /\ Len(l) > 0 => ~l[1].released
  BY <1>3, ResolvedFacts
<1> HIDE DEF l
<1>5. \A i \in 1..Len(l) : i + m \in 1..Len(links) /\ l[i] = M[i + m]
  BY <1>1, <1>3, <1>4
<1>6. \A i \in 1..Len(l) :
        /\ i + m \in 1..Len(links) /\ l[i].who = links[i + m].who
        /\ l[i].released <=> links[i + m].released \/ links[i + m].who = a
  BY <1>2, <1>5
<1>7. \A i \in 1..m : links[i].released \/ links[i].who = a
  <2> SUFFICES ASSUME NEW i \in 1..m PROVE links[i].released \/ links[i].who = a
    OBVIOUS
  <2>1. i \in 1..Len(links) /\ M[i].released
    BY <1>1, <1>3, <1>4
  <2> QED
    BY <1>2, <2>1
<1>8. l \in Seq(Link) /\ Len(l) = Len(links) - m /\ (Len(l) > 0 => ~l[1].released) /\ m \in 0..Len(links)
  BY <1>3, <1>4
<1>9. Left(links, a, l, m)
  BY <1>6, <1>7, <1>8 DEF Left
<1>10. m \in Nat
  BY <1>1, <1>8
<1> QED
  BY <1>9, <1>10 DEF l, M

(* One open link less, when a had one.                                       *)
LEMMA LeavingCount ==
  ASSUME NEW links \in Seq(Link), NEW a \in Attempts,
         NEW j \in 1..Len(links), links[j].who = a, ~links[j].released,
         \A i \in 1..Len(links) : links[i].who = a => i = j
  PROVE  /\ Cardinality(OpenLinks(Resolved(Marked(links, a)))) = Cardinality(OpenLinks(links)) - 1
         /\ Cardinality(OpenLinks(links)) \in Nat \ {0}
<1> DEFINE l == Resolved(Marked(links, a))
           S == OpenLinks(l)
           T == OpenLinks(links) \ {j}
<1>0. PICK m \in Nat : Left(links, a, l, m)
  BY Leaving
<1> HIDE DEF l
<1>1. /\ m \in 0..Len(links) /\ l \in Seq(Link) /\ Len(l) = Len(links) - m
      /\ \A i \in 1..Len(l) :
           /\ i + m \in 1..Len(links) /\ l[i].who = links[i + m].who
           /\ l[i].released <=> links[i + m].released \/ links[i + m].who = a
      /\ \A i \in 1..m : links[i].released \/ links[i].who = a
  BY <1>0 DEF Left
<1>2. /\ S = {i \in 1..Len(l) : ~l[i].released} /\ IsFiniteSet(S)
      /\ OpenLinks(links) = {i \in 1..Len(links) : ~links[i].released} /\ IsFiniteSet(OpenLinks(links))
      /\ Cardinality(OpenLinks(links)) \in Nat
  BY <1>1, OpenIsFinite
<1>3. j \in OpenLinks(links)
  BY <1>2
<1>4. Cardinality(T) = Cardinality(OpenLinks(links)) - 1 /\ Cardinality(T) \in Nat
  BY <1>2, <1>3, FS_RemoveElement, FS_CardinalityType
<1>5. ExistsBijection(S, T)
  <2> DEFINE f == [i \in S |-> i + m]
  <2>1. Len(links) \in Nat /\ Len(l) \in Nat
    BY <1>1
  <2>2. \A i \in S : i + m \in T
    BY <1>1, <1>2, <2>1
  <2>3. \A i \in T : i - m \in S /\ (i - m) + m = i
    <3> SUFFICES ASSUME NEW i \in T PROVE i - m \in S /\ (i - m) + m = i
      OBVIOUS
    <3>1. i \in 1..Len(links) /\ ~links[i].released /\ links[i].who # a
      BY <1>2
    <3>2. i \notin 1..m
      BY <1>1, <3>1
    <3>3. i - m \in 1..Len(l) /\ (i - m) + m = i
      BY <1>1, <2>1, <3>1, <3>2
    <3> QED
      BY <1>1, <1>2, <3>1, <3>3
  <2>4. f \in [S -> T] /\ \A i \in S : f[i] = i + m
    BY <2>2
  <2>5. \A x, y \in S : f[x] = f[y] => x = y
    BY <1>2, <2>1, <2>4
  <2>6. \A y \in T : \E x \in S : f[x] = y
    BY <2>3, <2>4
  <2> HIDE DEF f, S, T
  <2>7. f \in Bijection(S, T)
    BY <2>4, <2>5, <2>6 DEF Bijection, Injection, Surjection, IsInjective
  <2> QED
    BY <2>7 DEF ExistsBijection
<1>6. Cardinality(T) = Cardinality(S)
  BY <1>2, <1>5, FS_Bijection
<1> QED
  BY <1>2, <1>4, <1>6 DEF l

-----------------------------------------------------------------------------
(* What a step of an attempt does to one lane.                               *)

LEMMA HoldingOccupies ==
  ASSUME NEW a, NEW k, NEW s, NEW g, Holds(a, k, s, g)
  PROVE  Occupies(a, k, s, g)
BY DEF Holds, Occupies

\* Nobody has come for the lane: its chain is empty.
LEMMA EmptyLane ==
  ASSUME NEW p, NEW k, NEW s, NEW g, \A b \in Attempts : Home[b] = p => ~Occupies(b, k, s[b], g[b])
  PROVE  Lane(p, k, <<>>, 0, s, g)
<1>1. OpenLinks(<<>>) = {}
  BY DEF OpenLinks
<1>2. Cardinality(OpenLinks(<<>>)) = 0
  BY <1>1, FS_EmptySet
<1>3. HolderIsFirst(p, k, <<>>, s, g)
  BY HoldingOccupies DEF HolderIsFirst
<1> QED
  BY <1>2, <1>3, ConstantsAssumption DEF Lane, OwnLinks, EachHasLink

\* The chain stays as it is when those who came for the lane are the same, and
\* only its first attempt may begin to hold it.
LEMMA LaneKept ==
  ASSUME NEW p, NEW k, NEW links, NEW w, Lane(p, k, links, w, pc, got),
         \A b \in Attempts : Home[b] = p =>
           /\ pc[b] \in Past => pc'[b] \in Past
           /\ Occupies(b, k, pc'[b], got'[b]) <=> Occupies(b, k, pc[b], got[b])
           /\ Holds(b, k, pc'[b], got'[b]) =>
                Holds(b, k, pc[b], got[b]) \/ (Len(links) > 0 /\ links[1].who = b)
  PROVE  Lane(p, k, links, w, pc', got')
<1>1. /\ links \in Seq(Link)
      /\ OwnLinks(p, k, links, pc, got) /\ EachHasLink(p, k, links, pc, got) /\ HolderIsFirst(p, k, links, pc, got)
  BY DEF Lane
<1>2. \A i \in 1..Len(links) : links[i].who \in Attempts
  BY <1>1, LinkTypes
<1>3. OwnLinks(p, k, links, pc', got')
  BY <1>1, <1>2 DEF OwnLinks
<1>4. EachHasLink(p, k, links, pc', got')
  BY <1>1 DEF EachHasLink
<1>5. HolderIsFirst(p, k, links, pc', got')
  BY <1>1 DEF HolderIsFirst
<1> QED
  BY <1>3, <1>4, <1>5 DEF Lane

\* An attempt that joins the chain comes last in it.
LEMMA LaneJoined ==
  ASSUME NEW p, NEW k, NEW links, NEW w, Lane(p, k, links, w, pc, got),
         NEW a \in Attempts, Home[a] = p, w < MaxWaiters,
         pc[a] \notin Past, ~Occupies(a, k, pc[a], got[a]),
         Occupies(a, k, pc'[a], got'[a]), ~Holds(a, k, pc'[a], got'[a]),
         \A b \in Attempts \ {a} : pc'[b] = pc[b] /\ got'[b] = got[b]
  PROVE  Lane(p, k, Append(links, [who |-> a, released |-> FALSE]), w + 1, pc', got')
<1> DEFINE e == [who |-> a, released |-> FALSE]
           l == Append(links, e)
           n == Len(links)
<1>1. /\ links \in Seq(Link) /\ n \in Nat
      /\ n > 0 => ~links[1].released
      /\ \A i, j \in 1..n : links[i].who = links[j].who => i = j
      /\ OwnLinks(p, k, links, pc, got) /\ EachHasLink(p, k, links, pc, got) /\ HolderIsFirst(p, k, links, pc, got)
      /\ w \in 0..MaxWaiters /\ w = Cardinality(OpenLinks(links))
  BY DEF Lane
<1>2. \A i \in 1..n : links[i] \in Link /\ links[i].who \in Attempts
  BY <1>1, LinkTypes
<1>3. e \in Link /\ e.who = a /\ e.released = FALSE
  BY DEF Link
<1> HIDE DEF e
<1>4. l \in Seq(Link) /\ Len(l) = n + 1 /\ (\A i \in 1..n : l[i] = links[i]) /\ l[n + 1] = e
  BY <1>1, <1>3, AppendProperties
<1> HIDE DEF l
<1>5. \A i \in 1..n : links[i].who # a
  BY <1>1, <1>2 DEF OwnLinks
<1>6. 1..(n + 1) = 1..n \cup {n + 1} /\ n + 1 \notin 1..n
  BY <1>1
<1>7. Len(l) > 0 => ~l[1].released
  <2>1. CASE n = 0
    BY <1>3, <1>4, <2>1
  <2>2. CASE n # 0
    BY <1>1, <1>4, <2>2
  <2> QED
    BY <2>1, <2>2
<1>8. \A i, j \in 1..Len(l) : l[i].who = l[j].who => i = j
  BY <1>1, <1>3, <1>4, <1>5, <1>6
<1>9. OwnLinks(p, k, l, pc', got')
  <2> SUFFICES ASSUME NEW i \in 1..(n + 1)
               PROVE  Home[l[i].who] = p /\ IF l[i].released THEN pc'[l[i].who] \in Past
                                            ELSE Occupies(l[i].who, k, pc'[l[i].who], got'[l[i].who])
    BY <1>4 DEF OwnLinks
  <2>1. CASE i = n + 1
    BY <1>3, <1>4, <2>1
  <2>2. CASE i \in 1..n
    BY <1>1, <1>2, <1>4, <1>5, <2>2 DEF OwnLinks
  <2> QED
    BY <1>6, <2>1, <2>2
<1>10. EachHasLink(p, k, l, pc', got')
  <2> SUFFICES ASSUME NEW b \in Attempts, Home[b] = p, Occupies(b, k, pc'[b], got'[b])
               PROVE  \E i \in 1..(n + 1) : l[i].who = b /\ ~l[i].released
    BY <1>4 DEF EachHasLink
  <2>1. CASE b = a
    BY <1>3, <1>4, <1>6, <2>1
  <2>2. CASE b # a
    <3>1. PICK i \in 1..n : links[i].who = b /\ ~links[i].released
      BY <1>1, <2>2 DEF EachHasLink
    <3> QED
      BY <1>4, <1>6, <3>1
  <2> QED
    BY <2>1, <2>2
<1>11. HolderIsFirst(p, k, l, pc', got')
  <2> SUFFICES ASSUME NEW b \in Attempts, Home[b] = p, Holds(b, k, pc'[b], got'[b])
               PROVE  Len(l) > 0 /\ l[1].who = b
    BY DEF HolderIsFirst
  <2>1. b # a
    OBVIOUS
  <2>2. n > 0 /\ links[1].who = b
    BY <1>1, <2>1 DEF HolderIsFirst
  <2> QED
    BY <1>1, <1>4, <2>2
<1>12. w + 1 \in 0..MaxWaiters /\ w + 1 = Cardinality(OpenLinks(l))
  <2>1. /\ OpenLinks(links) = {i \in 1..n : ~links[i].released} /\ IsFiniteSet(OpenLinks(links))
        /\ OpenLinks(l) = {i \in 1..(n + 1) : ~l[i].released}
    BY <1>1, <1>4, OpenIsFinite
  <2>2. OpenLinks(l) = OpenLinks(links) \cup {n + 1} /\ n + 1 \notin OpenLinks(links)
    BY <1>3, <1>4, <1>6, <2>1
  <2>3. Cardinality(OpenLinks(l)) = Cardinality(OpenLinks(links)) + 1
    BY <2>1, <2>2, FS_AddElement
  <2> QED
    BY <1>1, <2>3, ConstantsAssumption
<1> QED
  BY <1>4, <1>7, <1>8, <1>9, <1>10, <1>11, <1>12 DEF Lane, l, e

\* An attempt that leaves the chain lets nobody pass but its successors.
LEMMA LaneLeft ==
  ASSUME NEW p, NEW k, NEW links, NEW w, Lane(p, k, links, w, pc, got),
         NEW a \in Attempts, Home[a] = p,
         Occupies(a, k, pc[a], got[a]), ~Occupies(a, k, pc'[a], got'[a]), pc'[a] \in Past,
         \A b \in Attempts \ {a} : pc'[b] = pc[b] /\ got'[b] = got[b]
  PROVE  Lane(p, k, Resolved(Marked(links, a)), w - 1, pc', got')
<1> DEFINE l == Resolved(Marked(links, a))
           n == Len(links)
<1>1. /\ links \in Seq(Link) /\ n \in Nat
      /\ n > 0 => ~links[1].released
      /\ \A i, j \in 1..n : links[i].who = links[j].who => i = j
      /\ OwnLinks(p, k, links, pc, got) /\ EachHasLink(p, k, links, pc, got) /\ HolderIsFirst(p, k, links, pc, got)
      /\ w \in 0..MaxWaiters /\ w = Cardinality(OpenLinks(links))
  BY DEF Lane
<1>2. \A i \in 1..n : links[i] \in Link /\ links[i].who \in Attempts
  BY <1>1, LinkTypes
<1>3. PICK m \in Nat : Left(links, a, l, m)
  BY <1>1, Leaving
<1>4. PICK j \in 1..n : links[j].who = a /\ ~links[j].released
  BY <1>1 DEF EachHasLink
<1>5. Cardinality(OpenLinks(l)) = w - 1 /\ w > 0
  BY <1>1, <1>4, LeavingCount
<1> HIDE DEF l
<1>6. /\ m \in 0..n /\ l \in Seq(Link) /\ Len(l) = n - m
      /\ \A i \in 1..Len(l) :
           /\ i + m \in 1..n /\ l[i].who = links[i + m].who
           /\ l[i].released <=> links[i + m].released \/ links[i + m].who = a
      /\ \A i \in 1..m : links[i].released \/ links[i].who = a
      /\ Len(l) > 0 => ~l[1].released
  BY <1>3 DEF Left
<1>7. \A i, i2 \in 1..Len(l) : l[i].who = l[i2].who => i = i2
  <2> SUFFICES ASSUME NEW i \in 1..Len(l), NEW i2 \in 1..Len(l), l[i].who = l[i2].who PROVE i = i2
    OBVIOUS
  <2>1. i + m = i2 + m
    BY <1>1, <1>6
  <2> QED
    BY <1>6, <2>1
<1>8. OwnLinks(p, k, l, pc', got')
  <2> SUFFICES ASSUME NEW i \in 1..Len(l)
               PROVE  Home[l[i].who] = p /\ IF l[i].released THEN pc'[l[i].who] \in Past
                                            ELSE Occupies(l[i].who, k, pc'[l[i].who], got'[l[i].who])
    BY DEF OwnLinks
  <2>1. /\ i + m \in 1..n /\ l[i].who = links[i + m].who /\ l[i].who \in Attempts
        /\ l[i].released <=> links[i + m].released \/ links[i + m].who = a
    BY <1>2, <1>6
  <2>2. CASE l[i].who = a
    BY <2>1, <2>2
  <2>3. CASE l[i].who # a
    <3>1. Home[l[i].who] = p /\ IF links[i + m].released THEN pc[l[i].who] \in Past
                                ELSE Occupies(l[i].who, k, pc[l[i].who], got[l[i].who])
      BY <1>1, <2>1 DEF OwnLinks
    <3> QED
      BY <2>1, <2>3, <3>1
  <2> QED
    BY <2>2, <2>3
<1>9. EachHasLink(p, k, l, pc', got')
  <2> SUFFICES ASSUME NEW b \in Attempts, Home[b] = p, Occupies(b, k, pc'[b], got'[b])
               PROVE  \E i \in 1..Len(l) : l[i].who = b /\ ~l[i].released
    BY DEF EachHasLink
  <2>1. b # a
    OBVIOUS
  <2>2. PICK i \in 1..n : links[i].who = b /\ ~links[i].released
    BY <1>1, <2>1 DEF EachHasLink
  <2>3. i \notin 1..m
    BY <1>6, <2>1, <2>2
  <2>4. i - m \in 1..Len(l) /\ (i - m) + m = i
    BY <1>1, <1>6, <2>3
  <2>5. PICK h \in 1..Len(l) : h + m = i
    BY <2>4
  <2>6. l[h].who = links[i].who /\ (l[h].released <=> links[i].released \/ links[i].who = a)
    BY <1>6, <2>5
  <2> QED
    BY <2>1, <2>2, <2>5, <2>6
<1>10. HolderIsFirst(p, k, l, pc', got')
  <2> SUFFICES ASSUME NEW b \in Attempts, Home[b] = p, Holds(b, k, pc'[b], got'[b])
               PROVE  Len(l) > 0 /\ l[1].who = b
    BY DEF HolderIsFirst
  <2>1. b # a
    BY HoldingOccupies
  <2>2. n > 0 /\ links[1].who = b /\ ~links[1].released
    BY <1>1, <2>1 DEF HolderIsFirst
  <2>3. m = 0
    BY <1>1, <1>6, <2>1, <2>2
  <2>4. Len(l) = n /\ l[1].who = links[1 + m].who /\ 1 + m = 1
    BY <1>1, <1>6, <2>2, <2>3
  <2> QED
    BY <2>2, <2>4
<1>11. w - 1 \in 0..MaxWaiters
  BY <1>1, <1>5, ConstantsAssumption
<1> QED
  BY <1>5, <1>6, <1>7, <1>8, <1>9, <1>10, <1>11 DEF Lane, l

-----------------------------------------------------------------------------
(* The steps, for all lanes.                                                 *)

LEMMA LanesDiffer ==
  ASSUME NEW a \in Attempts
  PROVE  \A i, j \in 1..Len(Lanes[a]) : Lanes[a][i] = Lanes[a][j] => i = j
<1>1. DOMAIN Lanes[a] = 1..Len(Lanes[a])
  BY ConstantsAssumption
<1> QED
  BY <1>1, ConstantsAssumption

\* Attempt a, going to state t with n lanes, is where it was on lane k.
Keeps(a, k, t, n) ==
  /\ pc[a] \in Past => t \in Past
  /\ Occupies(a, k, t, n) <=> Occupies(a, k, pc[a], got[a])
  /\ Holds(a, k, t, n) =>
       \/ Holds(a, k, pc[a], got[a])
       \/ Len(chain[Home[a]][k]) > 0 /\ chain[Home[a]][k][1].who = a

LEMMA KeptLane ==
  ASSUME IInv, ChainInv, NEW a \in Attempts, NEW t, NEW n,
         pc' = [pc EXCEPT ![a] = t], got' = [got EXCEPT ![a] = n],
         NEW p \in Procs, NEW k \in Keys, p = Home[a] => Keeps(a, k, t, n)
  PROVE  Lane(p, k, chain[p][k], waiters[p][k], pc', got')
<1>1. pc'[a] = t /\ got'[a] = n /\ \A b \in Attempts \ {a} : pc'[b] = pc[b] /\ got'[b] = got[b]
  BY DEF IInv, Types
<1>2. Lane(p, k, chain[p][k], waiters[p][k], pc, got)
  BY DEF ChainInv
<1>3. \A b \in Attempts : Home[b] = p =>
        /\ pc[b] \in Past => pc'[b] \in Past
        /\ Occupies(b, k, pc'[b], got'[b]) <=> Occupies(b, k, pc[b], got[b])
        /\ Holds(b, k, pc'[b], got'[b]) =>
             Holds(b, k, pc[b], got[b]) \/ (Len(chain[p][k]) > 0 /\ chain[p][k][1].who = b)
  <2> SUFFICES ASSUME NEW b \in Attempts, Home[b] = p
               PROVE  /\ pc[b] \in Past => pc'[b] \in Past
                      /\ Occupies(b, k, pc'[b], got'[b]) <=> Occupies(b, k, pc[b], got[b])
                      /\ Holds(b, k, pc'[b], got'[b]) =>
                           Holds(b, k, pc[b], got[b]) \/ (Len(chain[p][k]) > 0 /\ chain[p][k][1].who = b)
    OBVIOUS
  <2>1. CASE b = a
    BY <1>1, <2>1 DEF Keeps
  <2>2. CASE b # a
    BY <1>1, <2>2
  <2> QED
    BY <2>1, <2>2
<1> QED
  BY <1>2, <1>3, LaneKept

LEMMA Unchained ==
  ASSUME IInv, ChainInv, NEW a \in Attempts, NEW t, NEW n,
         pc' = [pc EXCEPT ![a] = t], got' = [got EXCEPT ![a] = n],
         UNCHANGED <<chain, waiters>>, faults' \in 0..MaxFaults,
         \A k \in Keys : Keeps(a, k, t, n)
  PROVE  ChainInv'
<1>1. ChainTypes'
  BY DEF ChainInv, ChainTypes
<1>2. ASSUME NEW p \in Procs, NEW k \in Keys PROVE Lane(p, k, chain'[p][k], waiters'[p][k], pc', got')
  BY KeptLane
<1> QED
  BY <1>1, <1>2 DEF ChainInv

LEMMA Chained ==
  ASSUME IInv, ChainInv, NEW a \in Attempts, NEW t, NEW n,
         pc' = [pc EXCEPT ![a] = t], got' = [got EXCEPT ![a] = n],
         NEW k \in Keys, NEW l, NEW w,
         chain' = [chain EXCEPT ![Home[a]][k] = l], waiters' = [waiters EXCEPT ![Home[a]][k] = w],
         Lane(Home[a], k, l, w, pc', got'), faults' \in 0..MaxFaults,
         \A k2 \in Keys \ {k} : Keeps(a, k2, t, n)
  PROVE  ChainInv'
<1>1. l \in Seq(Link) /\ w \in Nat /\ Home[a] \in Procs
  BY LaneFacts, ConstantsAssumption DEF Lane
<1>2. chain \in [Procs -> [Keys -> Seq(Link)]] /\ waiters \in [Procs -> [Keys -> Nat]]
  BY DEF ChainInv, ChainTypes
<1>3. ChainTypes'
  BY <1>1, <1>2 DEF ChainTypes
<1>4. ASSUME NEW p \in Procs, NEW k2 \in Keys PROVE Lane(p, k2, chain'[p][k2], waiters'[p][k2], pc', got')
  <2>1. CASE p = Home[a] /\ k2 = k
    <3>1. chain'[p][k2] = l /\ waiters'[p][k2] = w
      BY <1>1, <1>2, <2>1
    <3> QED
      BY <2>1, <3>1
  <2>2. CASE ~(p = Home[a] /\ k2 = k)
    <3>1. chain'[p][k2] = chain[p][k2] /\ waiters'[p][k2] = waiters[p][k2]
      BY <1>1, <1>2, <2>2
    <3>2. Lane(p, k2, chain[p][k2], waiters[p][k2], pc', got')
      BY <2>2, KeptLane
    <3> QED
      BY <3>1, <3>2
  <2> QED
    BY <2>1, <2>2
<1> QED
  BY <1>3, <1>4 DEF ChainInv

LEMMA FaultTypes ==
  ASSUME faults \in 0..MaxFaults, Fault \/ UNCHANGED faults
  PROVE  faults' \in 0..MaxFaults
BY ConstantsAssumption DEF Fault

LEMMA GotTypes ==
  ASSUME IInv, NEW a \in Attempts
  PROVE  /\ got[a] \in Nat /\ got[a] <= Len(Lanes[a]) /\ pc[a] \in States
         /\ pc[a] \in {"join", "local", "lease"} => got[a] < Len(Lanes[a])
         /\ pc[a] \in {"release", "unlink"} => got[a] > 0
         /\ got = [got EXCEPT ![a] = got[a]] /\ pc = [pc EXCEPT ![a] = pc[a]]
<1>1. Attempt(a, pc[a], got[a], tries[a], lease, late)
  BY DEF IInv, Owning
<1> QED
  BY <1>1 DEF IInv, Types, Attempt

\* The steps of an attempt that neither comes for a lane nor leaves one.
LEMMA ElsewhereChains ==
  ASSUME IInv, ChainInv, NEW a \in Attempts,
         Begin(a) \/ Check(a) \/ Requesting(a) \/ Refused(a) \/ ReleaseRow(a) \/ (Join(a) /\ Full(a))
  PROVE  ChainInv'
<1>1. UNCHANGED <<got, chain, waiters>> /\ (Fault \/ UNCHANGED faults)
  BY DEF Begin, Check, Reads, Requesting, Send, Succeeds, FailsTransiently, RateLimited, Cool, Clear,
         Refused, ReleaseRow, Join
<1>2. PICK t \in States \ {"local", "lease"} :
        /\ pc' = [pc EXCEPT ![a] = t] /\ pc[a] \notin {"local", "lease"}
        /\ pc[a] \in Past => t \in Past
  <2>1. CASE Begin(a) \/ Check(a)
    <3>1. pc[a] \in {"idle", "check"} /\ \E t \in {"done", "join", "release", "send"} : pc' = [pc EXCEPT ![a] = t]
      BY <2>1 DEF Begin, Check, Reads, Goes
    <3> QED
      BY <3>1 DEF States, Past
  <2>2. CASE Requesting(a)
    <3>1. /\ pc[a] \in {"send", "request", "cool", "clear"}
          /\ \/ \E t \in {"request", "clear", "release", "cool"} : pc' = [pc EXCEPT ![a] = t]
             \/ UNCHANGED pc
      BY <2>2 DEF Requesting, Send, Succeeds, FailsTransiently, RateLimited, Cool, Clear, Goes
    <3>2. UNCHANGED pc => pc' = [pc EXCEPT ![a] = pc[a]]
      BY GotTypes
    <3> QED
      BY <3>1, <3>2 DEF States, Past
  <2>3. CASE Refused(a)
    BY <2>3 DEF Refused, Goes, States, Past
  <2>4. CASE ReleaseRow(a)
    BY <2>4 DEF ReleaseRow, Goes, States, Past
  <2>5. CASE Join(a) /\ Full(a)
    BY <2>5 DEF Join, Goes, States, Past
  <2> QED
    BY <2>1, <2>2, <2>3, <2>4, <2>5
<1>3. \A k \in Keys : Keeps(a, k, t, got[a])
  BY <1>2 DEF Keeps, Occupies, Holds
<1>4. got' = [got EXCEPT ![a] = got[a]] /\ faults' \in 0..MaxFaults
  BY <1>1, GotTypes, FaultTypes DEF ChainInv, ChainTypes
<1> QED
  BY <1>1, <1>2, <1>3, <1>4, Unchained

LEMMA TurnChains ==
  ASSUME IInv, ChainInv, NEW a \in Attempts, LocalTurn(a) \/ TakeLease(a)
  PROVE  ChainInv'
<1>1. /\ UNCHANGED <<chain, waiters>> /\ faults' \in 0..MaxFaults
      /\ got[a] \in Nat
  BY GotTypes DEF LocalTurn, TakeLease, ChainInv, ChainTypes
<1>2. CASE LocalTurn(a)
  <2>1. pc[a] = "local" /\ pc' = [pc EXCEPT ![a] = "lease"] /\ got' = [got EXCEPT ![a] = got[a]]
    BY <1>2, GotTypes DEF LocalTurn, Goes
  <2>2. Len(chain[Home[a]][Wanted(a)]) > 0 /\ chain[Home[a]][Wanted(a)][1].who = a
    <3>1. Wanted(a) \in Keys /\ Home[a] \in Procs
      BY <2>1, GotTypes, LaneFacts DEF Wanted
    <3>2. Waiting(a) \in Seq(Link) /\ Waiting(a) # <<>> /\ Head(Waiting(a)).who = a
      BY <1>2, <3>1 DEF LocalTurn, Turn, Waiting, ChainInv, ChainTypes
    <3>3. Len(Waiting(a)) > 0 /\ Waiting(a)[1].who = a
      BY <3>2
    <3> QED
      BY <3>3 DEF Waiting
  <2>3. \A k \in Keys : Keeps(a, k, "lease", got[a])
    BY <2>1, <2>2 DEF Keeps, Occupies, Holds, Past, Wanted
  <2> QED
    BY <1>1, <2>1, <2>3, Unchained
<1>3. CASE TakeLease(a)
  <2>1. PICK t \in {"check", "join"} :
          pc[a] = "lease" /\ pc' = [pc EXCEPT ![a] = t] /\ got' = [got EXCEPT ![a] = got[a] + 1]
    BY <1>3, GotTypes DEF TakeLease, Reserves, Goes, IInv, Types
  <2>2. \A k \in Keys : Has(a, k, got[a] + 1) <=> Has(a, k, got[a]) \/ Lanes[a][got[a] + 1] = k
    <3>1. 1..(got[a] + 1) = 1..got[a] \cup {got[a] + 1}
      BY <1>1
    <3> QED
      BY <3>1 DEF Has
  <2>3. \A k \in Keys : Keeps(a, k, t, got[a] + 1)
    BY <2>1, <2>2 DEF Keeps, Occupies, Holds, Past
  <2> QED
    BY <1>1, <2>1, <2>3, Unchained
<1> QED
  BY <1>2, <1>3

LEMMA JoinChains ==
  ASSUME IInv, ChainInv, NEW a \in Attempts, Join(a), ~Full(a)
  PROVE  ChainInv'
<1> DEFINE k == Wanted(a)
           p == Home[a]
           e == [who |-> a, released |-> FALSE]
<1>1. /\ pc[a] = "join" /\ pc' = [pc EXCEPT ![a] = "local"] /\ got' = [got EXCEPT ![a] = got[a]]
      /\ chain' = [chain EXCEPT ![p][k] = Append(@, e)]
      /\ waiters' = [waiters EXCEPT ![p][k] = @ + 1]
      /\ UNCHANGED <<got, faults>>
  BY GotTypes DEF Join, Goes
<1>2. /\ got[a] \in Nat /\ got[a] < Len(Lanes[a]) /\ k = Lanes[a][got[a] + 1]
      /\ k \in Keys /\ p \in Procs
  BY <1>1, GotTypes, LaneFacts DEF Wanted
<1>3. ~Has(a, k, got[a])
  <2> SUFFICES ASSUME NEW i \in 1..got[a], Lanes[a][i] = k PROVE FALSE
    BY DEF Has
  <2>1. i \in 1..Len(Lanes[a]) /\ got[a] + 1 \in 1..Len(Lanes[a]) /\ i # got[a] + 1
    BY <1>2, LaneFacts
  <2> QED
    BY <1>2, <2>1, LanesDiffer
<1>4. /\ chain \in [Procs -> [Keys -> Seq(Link)]] /\ waiters \in [Procs -> [Keys -> Nat]]
      /\ Lane(p, k, chain[p][k], waiters[p][k], pc, got)
  BY <1>2 DEF ChainInv, ChainTypes
<1>5. waiters[p][k] < MaxWaiters
  BY <1>2, <1>4, ConstantsAssumption DEF Full
<1>6. /\ pc'[a] = "local" /\ got'[a] = got[a]
      /\ \A b \in Attempts \ {a} : pc'[b] = pc[b] /\ got'[b] = got[b]
  BY <1>1 DEF IInv, Types
<1>7. /\ pc[a] \notin Past /\ ~Occupies(a, k, pc[a], got[a])
      /\ Occupies(a, k, pc'[a], got'[a]) /\ ~Holds(a, k, pc'[a], got'[a])
  BY <1>1, <1>2, <1>3, <1>6 DEF Past, Occupies, Holds
<1> HIDE DEF k, p
<1>8. p = Home[a]
  BY DEF p
<1>9. Lane(p, k, Append(chain[p][k], e), waiters[p][k] + 1, pc', got')
  BY <1>4, <1>5, <1>6, <1>7, <1>8, LaneJoined
<1>10. \A k2 \in Keys \ {k} : Keeps(a, k2, "local", got[a])
  BY <1>1, <1>2 DEF Keeps, Occupies, Holds, Past
<1>11. /\ chain' = [chain EXCEPT ![p][k] = Append(chain[p][k], e)]
       /\ waiters' = [waiters EXCEPT ![p][k] = waiters[p][k] + 1]
       /\ faults' \in 0..MaxFaults
  BY <1>1, <1>2, <1>4 DEF ChainInv, ChainTypes
<1> QED
  BY <1>1, <1>2, <1>8, <1>9, <1>10, <1>11, Chained

LEMMA LeaveChains ==
  ASSUME IInv, ChainInv, NEW a \in Attempts, GiveUp(a) \/ TakeFails(a) \/ Unlink(a)
  PROVE  ChainInv'
<1> DEFINE g == got[a]
           p == Home[a]
<1>1. PICK k \in {Lanes[a][g], Lanes[a][g + 1]}, t \in Past, n \in {g, g - 1} :
        /\ LeavesChain(a, k) /\ pc' = [pc EXCEPT ![a] = t] /\ got' = [got EXCEPT ![a] = n]
        /\ \/ pc[a] \in {"local", "lease"} /\ k = Lanes[a][g + 1] /\ n = g
           \/ pc[a] = "unlink" /\ k = Lanes[a][g] /\ n = g - 1
  <2>1. CASE GiveUp(a) \/ TakeFails(a)
    <3>1. /\ pc[a] \in {"local", "lease"} /\ LeavesChain(a, Lanes[a][g + 1])
          /\ pc' = [pc EXCEPT ![a] = "refused"] /\ got' = [got EXCEPT ![a] = g]
      BY <2>1, GotTypes DEF GiveUp, TakeFails, Goes, Wanted
    <3> QED
      BY <3>1 DEF Past
  <2>2. CASE Unlink(a)
    <3>1. /\ pc[a] = "unlink" /\ LeavesChain(a, Lanes[a][g]) /\ got' = [got EXCEPT ![a] = g - 1]
          /\ \E t \in {"done", "release"} : pc' = [pc EXCEPT ![a] = t]
      BY <2>2 DEF Unlink, Goes, Latest
    <3> QED
      BY <3>1 DEF Past
  <2> QED
    BY <2>1, <2>2
<1>2. g \in Nat /\ g <= Len(Lanes[a]) /\ Len(Lanes[a]) \in Nat /\ p \in Procs
  BY GotTypes, LaneFacts
<1>3. pc[a] \in {"local", "lease"} => g < Len(Lanes[a]) /\ n = g /\ k = Lanes[a][g + 1]
  BY <1>1, GotTypes
<1>4. pc[a] = "unlink" => g > 0 /\ n = g - 1 /\ k = Lanes[a][g]
  BY <1>1, GotTypes
<1>5. k \in Keys
  BY <1>1, <1>2, <1>3, <1>4, LaneFacts
<1>6. Occupies(a, k, pc[a], g) /\ ~Occupies(a, k, t, n)
  <2>1. CASE pc[a] \in {"local", "lease"}
    <3>1. k = Lanes[a][g + 1] /\ g + 1 \in 1..Len(Lanes[a])
      BY <1>2, <1>3, <2>1
    <3>2. \A i \in 1..g : i \in 1..Len(Lanes[a]) /\ i # g + 1
      BY <1>2
    <3>3. ~Has(a, k, g)
      BY <3>1, <3>2, LanesDiffer DEF Has
    <3>4. n = g /\ t \in Past
      BY <1>3, <2>1
    <3> QED
      BY <2>1, <3>1, <3>3, <3>4 DEF Occupies, Past
  <2>2. CASE pc[a] = "unlink"
    <3>1. Has(a, k, g) /\ ~Has(a, k, g - 1)
      BY <1>2, <1>4, <2>2, LanesDiffer DEF Has
    <3> QED
      BY <1>4, <2>2, <3>1 DEF Occupies, Past
  <2> QED
    BY <1>1, <2>1, <2>2
<1>7. \A k2 \in Keys \ {k} : Keeps(a, k2, t, n)
  <2> SUFFICES ASSUME NEW k2 \in Keys \ {k} PROVE Keeps(a, k2, t, n)
    OBVIOUS
  <2>1. CASE pc[a] \in {"local", "lease"}
    BY <1>3, <2>1 DEF Keeps, Occupies, Holds, Past
  <2>2. CASE pc[a] = "unlink"
    <3>1. Has(a, k2, g) <=> Has(a, k2, g - 1)
      <4>1. 1..g = 1..(g - 1) \cup {g}
        BY <1>2, <1>4, <2>2
      <4> QED
        BY <1>4, <2>2, <4>1 DEF Has
    <3> QED
      BY <1>4, <2>2, <3>1 DEF Keeps, Occupies, Holds, Past
  <2> QED
    BY <1>1, <2>1, <2>2
<1>8. /\ chain \in [Procs -> [Keys -> Seq(Link)]] /\ waiters \in [Procs -> [Keys -> Nat]]
      /\ Lane(p, k, chain[p][k], waiters[p][k], pc, got)
  BY <1>2, <1>5 DEF ChainInv, ChainTypes
<1>9. /\ pc'[a] = t /\ got'[a] = n
      /\ \A b \in Attempts \ {a} : pc'[b] = pc[b] /\ got'[b] = got[b]
  BY <1>1 DEF IInv, Types
<1>10. Lane(p, k, Resolved(Marked(chain[p][k], a)), waiters[p][k] - 1, pc', got')
  BY <1>6, <1>8, <1>9, LaneLeft
<1>11. /\ chain' = [chain EXCEPT ![p][k] = Resolved(Marked(chain[p][k], a))]
       /\ waiters' = [waiters EXCEPT ![p][k] = waiters[p][k] - 1]
  BY <1>1, <1>2, <1>5, <1>8 DEF LeavesChain, Unlinked, Marked
<1>12. faults' \in 0..MaxFaults
  BY FaultTypes DEF GiveUp, TakeFails, Unlink, ChainInv, ChainTypes
<1> QED
  BY <1>1, <1>5, <1>7, <1>10, <1>11, <1>12, Chained

LEMMA CrashChains ==
  ASSUME IInv, ChainInv, NEW p \in Procs, Crash(p)
  PROVE  ChainInv'
<1>1. /\ pc' = [a \in Attempts |-> IF Home[a] = p /\ pc[a] # "idle" THEN "done" ELSE pc[a]]
      /\ got' = [a \in Attempts |-> IF Home[a] = p THEN 0 ELSE got[a]]
      /\ chain' = [chain EXCEPT ![p] = [k \in Keys |-> <<>>]]
      /\ waiters' = [waiters EXCEPT ![p] = [k \in Keys |-> 0]]
      /\ faults' \in 0..MaxFaults
  BY FaultTypes DEF Crash, ChainInv, ChainTypes
<1>2. /\ chain \in [Procs -> [Keys -> Seq(Link)]] /\ waiters \in [Procs -> [Keys -> Nat]]
  BY DEF ChainInv, ChainTypes
<1>3. ChainTypes'
  <2>1. [k \in Keys |-> <<>>] \in [Keys -> Seq(Link)]
    OBVIOUS
  <2> QED
    BY <1>1, <1>2, <2>1 DEF ChainTypes
<1>4. ASSUME NEW q \in Procs, NEW k \in Keys, q # p
      PROVE  Lane(q, k, chain'[q][k], waiters'[q][k], pc', got')
  <2>1. Lane(q, k, chain[q][k], waiters[q][k], pc, got)
    BY DEF ChainInv
  <2>2. \A b \in Attempts : Home[b] = q => pc'[b] = pc[b] /\ got'[b] = got[b]
    BY <1>1, <1>4
  <2>3. Lane(q, k, chain[q][k], waiters[q][k], pc', got')
    BY <2>1, <2>2, LaneKept
  <2> QED
    BY <1>1, <1>2, <1>4, <2>3
<1>5. ASSUME NEW k \in Keys PROVE Lane(p, k, chain'[p][k], waiters'[p][k], pc', got')
  <2>1. chain'[p][k] = <<>> /\ waiters'[p][k] = 0
    BY <1>1, <1>2
  <2>2. \A b \in Attempts : Home[b] = p => pc'[b] \in {"idle", "done"} /\ got'[b] = 0
    BY <1>1
  <2>3. \A b \in Attempts : Home[b] = p => ~Occupies(b, k, pc'[b], got'[b])
    BY <2>2 DEF Occupies, Has
  <2> QED
    BY <2>1, <2>3, EmptyLane
<1> QED
  BY <1>3, <1>4, <1>5 DEF ChainInv

LEMMA ChainStep == IInv /\ ChainInv /\ [Next]_vars => ChainInv'
<1> SUFFICES ASSUME IInv, ChainInv, [Next]_vars PROVE ChainInv'
  OBVIOUS
<1>1. CASE UNCHANGED <<pc, got, chain, waiters, faults>>
  BY <1>1 DEF ChainInv, ChainTypes
<1>2. CASE \E a \in Attempts : Step(a)
  <2> PICK a \in Attempts : Step(a)
    BY <1>2
  <2>1. CASE Begin(a) \/ Check(a) \/ Requesting(a) \/ Refused(a) \/ ReleaseRow(a) \/ (Join(a) /\ Full(a))
    BY <2>1, ElsewhereChains
  <2>2. CASE LocalTurn(a) \/ TakeLease(a)
    BY <2>2, TurnChains
  <2>3. CASE Join(a) /\ ~Full(a)
    BY <2>3, JoinChains
  <2>4. CASE GiveUp(a) \/ TakeFails(a) \/ Unlink(a)
    BY <2>4, LeaveChains
  <2> QED
    BY <2>1, <2>2, <2>3, <2>4 DEF Step, Reserving, Releasing
<1>3. CASE \/ \E k \in Keys : LeaseExpires(k) \/ CooldownEnds(k)
           \/ \E p \in Procs, k \in Keys : KnownEnds(p, k)
  BY <1>1, <1>3 DEF LeaseExpires, CooldownEnds, KnownEnds
<1>4. CASE \E p \in Procs : Crash(p)
  BY <1>4, CrashChains
<1> QED
  BY <1>1, <1>2, <1>3, <1>4 DEF Next, vars

LEMMA ChainsAlways == Spec => []ChainInv
<1>1. Init => ChainInv
  <2> SUFFICES ASSUME Init PROVE ChainInv
    OBVIOUS
  <2>1. ChainTypes
    <3>1. [k \in Keys |-> <<>>] \in [Keys -> Seq(Link)]
      OBVIOUS
    <3> QED
      BY <3>1, ConstantsAssumption DEF Init, ChainTypes
  <2>2. ASSUME NEW p \in Procs, NEW k \in Keys PROVE Lane(p, k, chain[p][k], waiters[p][k], pc, got)
    <3>1. chain[p][k] = <<>> /\ waiters[p][k] = 0
      BY DEF Init
    <3>2. \A b \in Attempts : ~Occupies(b, k, pc[b], got[b])
      BY DEF Init, Occupies, Has
    <3> QED
      BY <3>1, <3>2, EmptyLane
  <2> QED
    BY <2>1, <2>2 DEF ChainInv
<1> QED
  BY <1>1, Always, ChainStep, PTL DEF Spec

\* A lane has one holder in a process, the waiters behind it are counted one by
\* one whatever order they give up in, and each open link has an attempt that will
\* release it (acquireLocalModelAttemptLease, waitForLocalLease).
THEOREM ChainsAreSound == Spec => []ChainsSound
<1>1. IInv /\ ChainInv => ChainsSound
  <2> SUFFICES ASSUME IInv, ChainInv PROVE ChainsSound
    OBVIOUS
  <2>1. \A p \in Procs, k \in Keys : Lane(p, k, chain[p][k], waiters[p][k], pc, got)
    BY DEF ChainInv
  <2>2. chain \in [Procs -> [Keys -> Seq(Link)]] /\ waiters \in [Procs -> [Keys -> Nat]]
    BY DEF ChainInv, ChainTypes
  <2>3. \A p \in Procs, k \in Keys : DOMAIN chain[p][k] = 1..Len(chain[p][k])
    BY <2>2
  <2>4. TypeOK
    <3>1. \A a \in Attempts : got[a] \in 0..Len(Lanes[a])
      BY GotTypes, LaneFacts
    <3>2. \A p \in Procs, k \in Keys : \A i \in DOMAIN chain[p][k] : chain[p][k][i] \in [who : Attempts, released : BOOLEAN]
      <4>1. ASSUME NEW p \in Procs, NEW k \in Keys, NEW i \in DOMAIN chain[p][k] PROVE chain[p][k][i] \in Link
        <5>1. chain[p][k] \in Seq(Link)
          BY <2>2
        <5> QED
          BY <5>1
      <4> QED
        BY <4>1 DEF Link
    <3>3. waiters \in [Procs -> [Keys -> 0..MaxWaiters]]
      <4>1. \A p \in Procs : waiters[p] \in [Keys -> 0..MaxWaiters]
        BY <2>1, <2>2 DEF Lane
      <4> QED
        BY <2>2, <4>1
    <3>4. faults \in 0..MaxFaults
      BY DEF ChainInv, ChainTypes
    <3> QED
      BY <3>1, <3>2, <3>3, <3>4 DEF TypeOK, IInv, Types, States, Row
  <2>5. \A a \in Attempts : \A k \in Holding(a) : k \in Keys /\ Holds(a, k, pc[a], got[a])
    <3> SUFFICES ASSUME NEW a \in Attempts, NEW k \in Holding(a)
                 PROVE  k \in Keys /\ Holds(a, k, pc[a], got[a])
      OBVIOUS
    <3>1. Holds(a, k, pc[a], got[a])
      BY DEF Holding, Reserved, Wanted, Holds, Has
    <3>2. got[a] <= Len(Lanes[a]) /\ got[a] \in Nat /\ (pc[a] = "lease" => got[a] < Len(Lanes[a]))
      BY GotTypes
    <3>3. k \in Keys
      BY <3>1, <3>2, LaneFacts DEF Holds, Has
    <3> QED
      BY <3>1, <3>3
  <2>6. OneLocalHolder
    <3> SUFFICES ASSUME NEW a \in Attempts, NEW b \in Attempts, Home[a] = Home[b],
                        NEW k, k \in Holding(a), k \in Holding(b)
                 PROVE  a = b
      BY DEF OneLocalHolder
    <3>1. HolderIsFirst(Home[a], k, chain[Home[a]][k], pc, got)
      BY <2>1, <2>5, LaneFacts DEF Lane
    <3> QED
      BY <2>5, <3>1 DEF HolderIsFirst
  <2>7. WaitersExact
    <3> SUFFICES ASSUME NEW p \in Procs, NEW k \in Keys
                 PROVE  waiters[p][k] = Cardinality({i \in DOMAIN chain[p][k] : ~chain[p][k][i].released})
      BY DEF WaitersExact
    <3>1. Lane(p, k, chain[p][k], waiters[p][k], pc, got)
      BY <2>1
    <3>2. waiters[p][k] = Cardinality(OpenLinks(chain[p][k]))
      BY <3>1 DEF Lane
    <3> QED
      BY <3>2 DEF OpenLinks
  <2>8. LinksAreOwned
    <3> SUFFICES ASSUME NEW p \in Procs, NEW k \in Keys, NEW i \in DOMAIN chain[p][k], ~chain[p][k][i].released
                 PROVE  LET a == chain[p][k][i].who
                        IN  \/ Home[a] = p /\ k \in Reserved(a)
                            \/ Home[a] = p /\ pc[a] \in {"local", "lease"} /\ Wanted(a) = k
      BY DEF LinksAreOwned
    <3>1. OwnLinks(p, k, chain[p][k], pc, got) /\ i \in 1..Len(chain[p][k])
      BY <2>1, <2>3 DEF Lane
    <3> QED
      BY <3>1 DEF OwnLinks, Occupies, Has, Reserved, Wanted
  <2> QED
    BY <2>4, <2>6, <2>7, <2>8 DEF ChainsSound
<1> QED
  BY <1>1, Always, ChainsAlways, PTL

-----------------------------------------------------------------------------
(* The budget.                                                              *)

Phases == {"idle", "admission", "calling", "settle", "report", "resettle", "noAttempts", "noTokens", "over"}
RowType == [status : {"none", "reserved", "consumed"}, utcDay : 0..MaxDay, charged : Nat]
EventType == [usage : {"none", "unknown", "partial", "known"}, on : 0..MaxDay]

Shape ==
  /\ day \in 0..MaxDay /\ limit \in Limits
  /\ phase \in [Requests -> Phases] /\ outcome \in [Requests -> {"unknown", "partial", "known"}]
  /\ rows \in [Requests -> RowType] /\ events \in [Requests -> EventType]
  /\ admitting \in Requests \cup {NoRequest} /\ query \in Queries \cup {"none", "decide"}
  /\ since \in 0..MaxDay /\ counted \in Nat
  /\ missed \subseteq Requests /\ missedKnown \subseteq Requests

Reported(a, ou) == IF ou = "unknown" THEN 0 ELSE Used[a]

\* An attempt in phase ph with outcome ou, reservation ro and event ev, when ad is
\* admitted.
RequestIs(a, ph, ou, ro, ev, ad) ==
  /\ ph = "admission" <=> ad = a
  /\ ph \in {"idle", "admission"} => ro.status = "none"
  /\ ph = "calling" => ro.status = "reserved"
  /\ ph \in {"settle", "report"} => ro.status # "none"
  /\ ph \in {"idle", "admission", "calling", "settle", "report"} => ev.usage = "none"
  /\ a \in Telemetry => ro.status = "none" /\ ph \in {"idle", "resettle", "over"}
  /\ a \notin Telemetry /\ ph = "resettle" => ro.status # "none"
  /\ ev.usage # "none" => ev.usage = ou /\ (a \in Telemetry \/ ro.status # "none")
  /\ ro.status = "consumed" => ev.usage = "known" \/ ro.charged >= Reported(a, ou)

Each == \A a \in Requests : RequestIs(a, phase[a], outcome[a], rows[a], events[a], admitting)

Horizon == IF query = "none" THEN day ELSE since

Locked ==
  /\ query = "none" <=> admitting = NoRequest
  /\ Horizon <= day
  /\ \A a \in Requests : rows[a].status # "none" => rows[a].utcDay <= Horizon

\* The statements before q count an attempt with reservation ro and event ev.
Passed(ro, ev, q, d) ==
  /\ q \notin {"none", "telemetry"}
  /\ \/ ev.usage # "none" /\ ev.on >= d /\ ro.status = "none"
     \/ q # "consumed" /\ ro.utcDay = d /\ ro.status = "consumed"
     \/ q \notin {"consumed", "reserved"} /\ ro.utcDay = d /\ ro.status = "reserved"

Tallied == {a \in Requests : Passed(rows[a], events[a], query, since)}

Tally == Cardinality(Tallied \ missed) <= counted /\ counted <= Cardinality(Tallied)

BudgetInv == Shape /\ Each /\ Locked /\ Tally
-----------------------------------------------------------------------------
(* Finite sets of attempts.                                                 *)

LEMMA Sets ==
  ASSUME NEW S \in SUBSET Requests
  PROVE  /\ IsFiniteSet(S) /\ Cardinality(S) \in Nat
         /\ \A T \in SUBSET S : Cardinality(T) \in Nat /\ Cardinality(T) <= Cardinality(S)
<1>1. IsFiniteSet(S)
  BY BudgetAssumption, FS_Subset
<1>2. Cardinality(S) \in Nat
  BY <1>1, FS_CardinalityType
<1>3. ASSUME NEW T \in SUBSET S
      PROVE  Cardinality(T) \in Nat /\ Cardinality(T) <= Cardinality(S)
  BY <1>1, FS_Subset, FS_CardinalityType
<1> QED
  BY <1>1, <1>2, <1>3

LEMMA Nothing == Cardinality({}) = 0
BY FS_EmptySet

\* One more statement counts the attempts T, which are not in S.
LEMMA Adds ==
  ASSUME NEW S \in SUBSET Requests, NEW T \in SUBSET Requests, S \cap T = {},
         NEW M, NEW n \in Nat, Cardinality(S \ M) <= n, n <= Cardinality(S)
  PROVE  Cardinality((S \cup T) \ M) <= n + Cardinality(T) /\ n + Cardinality(T) <= Cardinality(S \cup T)
<1>1. IsFiniteSet(S) /\ IsFiniteSet(T) /\ IsFiniteSet(S \ M)
  BY Sets
<1>2. Cardinality(S) \in Nat /\ Cardinality(T) \in Nat /\ Cardinality(S \ M) \in Nat /\ Cardinality(S \cup T) \in Nat
  BY Sets
<1>3. Cardinality(S \cup T) = Cardinality(S) + Cardinality(T)
  <2>1. Cardinality(S \cup T) = Cardinality(S) + Cardinality(T) - Cardinality(S \cap T)
    BY <1>1, FS_Union
  <2>2. Cardinality(S \cap T) = 0
    BY Nothing
  <2> QED
    BY <1>2, <2>1, <2>2
<1>4. Cardinality((S \cup T) \ M) <= Cardinality(S \ M) + Cardinality(T)
  <2>1. Cardinality((S \ M) \cup T) = Cardinality(S \ M) + Cardinality(T) - Cardinality((S \ M) \cap T)
    BY <1>1, FS_Union
  <2>2. (S \ M) \cap T = {}
    OBVIOUS
  <2>3. Cardinality((S \ M) \cap T) = 0
    BY <2>2, Nothing
  <2>4. Cardinality((S \cup T) \ M) \in Nat /\ Cardinality((S \cup T) \ M) <= Cardinality((S \ M) \cup T)
    <3>1. (S \ M) \cup T \in SUBSET Requests /\ (S \cup T) \ M \in SUBSET ((S \ M) \cup T)
      OBVIOUS
    <3> QED
      BY <3>1, Sets
  <2> QED
    BY <1>2, <2>1, <2>3, <2>4
<1>5. Cardinality((S \cup T) \ M) \in Nat
  <2>1. (S \cup T) \ M \in SUBSET Requests
    OBVIOUS
  <2> QED
    BY <2>1, Sets
<1> QED
  BY <1>2, <1>3, <1>4, <1>5
-----------------------------------------------------------------------------
LEMMA BudgetInitially == BudgetInit => BudgetInv
<1> SUFFICES ASSUME BudgetInit PROVE BudgetInv
  OBVIOUS
<1>1. Shape
  <2>1. 0 \in 0..MaxDay /\ NoRow \in RowType /\ NoEvent \in EventType
    BY BudgetAssumption DEF RowType, EventType, NoRow, NoEvent
  <2> QED
    BY <2>1, BudgetAssumption DEF BudgetInit, Shape, Phases
<1>2. Each
  BY BudgetAssumption DEF BudgetInit, Each, RequestIs, NoRow, NoEvent
<1>3. Locked
  BY BudgetAssumption DEF BudgetInit, Locked, Horizon, NoRow
<1>4. Tally
  <2>1. Tallied = {} /\ Tallied \ missed = {} /\ counted = 0
    BY DEF BudgetInit, Tallied, Passed
  <2> QED
    BY <2>1, Nothing DEF Tally
<1> QED
  BY <1>1, <1>2, <1>3, <1>4 DEF BudgetInv

\* A step of one attempt keeps what is said of the others.
LEMMA OneRequestMoves ==
  ASSUME Shape, Each, NEW a \in Requests, NEW ph, NEW ou, NEW ro, NEW ev,
         phase' = [phase EXCEPT ![a] = ph], outcome' = [outcome EXCEPT ![a] = ou],
         rows' = [rows EXCEPT ![a] = ro], events' = [events EXCEPT ![a] = ev],
         \A b \in Requests \ {a} : admitting' = b <=> admitting = b,
         RequestIs(a, ph, ou, ro, ev, admitting')
  PROVE  Each'
<1> SUFFICES ASSUME NEW b \in Requests
             PROVE  RequestIs(b, phase'[b], outcome'[b], rows'[b], events'[b], admitting')
  BY DEF Each
<1>1. CASE b = a
  BY <1>1 DEF Shape
<1>2. CASE b # a
  <2>1. /\ phase'[b] = phase[b] /\ outcome'[b] = outcome[b] /\ rows'[b] = rows[b] /\ events'[b] = events[b]
        /\ admitting' = b <=> admitting = b
    BY <1>2 DEF Shape
  <2>2. RequestIs(b, phase[b], outcome[b], rows[b], events[b], admitting)
    BY DEF Each
  <2> QED
    BY <2>1, <2>2 DEF RequestIs
<1> QED
  BY <1>1, <1>2

\* A step of one attempt keeps the tally if the attempt stays passed, and is
\* missed when it is passed now.
LEMMA OneTally ==
  ASSUME Shape, Tally, NEW a \in Requests, NEW ro, NEW ev,
         rows' = [rows EXCEPT ![a] = ro], events' = [events EXCEPT ![a] = ev],
         UNCHANGED <<query, since, counted>>, missed \subseteq missed', missed' \subseteq Requests,
         Passed(rows[a], events[a], query, since) => Passed(ro, ev, query, since),
         Passed(ro, ev, query, since) => Passed(rows[a], events[a], query, since) \/ a \in missed'
  PROVE  Tally'
<1>1. Tallied \subseteq Tallied' /\ Tallied' \ missed' \subseteq Tallied \ missed
  <2> SUFFICES ASSUME NEW b \in Requests
               PROVE  /\ b \in Tallied => b \in Tallied'
                      /\ b \in Tallied' /\ b \notin missed' => b \in Tallied
    BY DEF Tallied
  <2>1. CASE b = a
    BY <2>1 DEF Tallied, Shape
  <2>2. CASE b # a
    BY <2>2 DEF Tallied, Shape
  <2> QED
    BY <2>1, <2>2
<1>2. Tallied \in SUBSET Requests /\ Tallied' \in SUBSET Requests
  BY DEF Tallied
<1>3. /\ Cardinality(Tallied) \in Nat /\ Cardinality(Tallied') \in Nat
      /\ Cardinality(Tallied) <= Cardinality(Tallied')
  BY <1>1, <1>2, Sets
<1>4. /\ Cardinality(Tallied \ missed) \in Nat /\ Cardinality(Tallied' \ missed') \in Nat
      /\ Cardinality(Tallied' \ missed') <= Cardinality(Tallied \ missed)
  <2>1. Tallied \ missed \in SUBSET Requests
    BY <1>2
  <2> QED
    BY <1>1, <2>1, Sets
<1> QED
  BY <1>3, <1>4 DEF Tally, Shape

\* The budget is not locked: nothing is passed.
LEMMA NoTally ==
  ASSUME query' \in {"none", "telemetry"}, counted' = 0
  PROVE  Tally'
<1>1. Tallied' = {} /\ Tallied' \ missed' = {}
  BY DEF Tallied, Passed
<1> QED
  BY <1>1, Nothing DEF Tally
-----------------------------------------------------------------------------
(* The steps, one lemma each.                                               *)

LEMMA Admits ==
  ASSUME BudgetInv, NEW a \in Requests, Admit(a)
  PROVE  BudgetInv'
<1> USE DEF BudgetInv
<1>1. /\ phase[a] = "idle" /\ a \notin Telemetry /\ admitting = NoRequest /\ query = "none"
      /\ phase' = [phase EXCEPT ![a] = "admission"] /\ admitting' = a /\ query' = "telemetry"
      /\ since' = day /\ counted' = 0 /\ missed' = {} /\ missedKnown' = {}
      /\ UNCHANGED <<day, limit, outcome, rows, events>>
  BY DEF Admit, LockBudget, Moves, Locked
<1>2. Shape'
  BY <1>1 DEF Shape, Phases, Queries
<1>3. Each'
  <2>1. /\ outcome' = [outcome EXCEPT ![a] = outcome[a]] /\ rows' = [rows EXCEPT ![a] = rows[a]]
        /\ events' = [events EXCEPT ![a] = events[a]]
    BY <1>1 DEF Shape
  <2>2. RequestIs(a, "admission", outcome[a], rows[a], events[a], admitting')
    <3>1. RequestIs(a, phase[a], outcome[a], rows[a], events[a], admitting)
      BY DEF Each
    <3> QED
      BY <1>1, <3>1 DEF RequestIs
  <2>3. \A b \in Requests \ {a} : admitting' = b <=> admitting = b
    BY <1>1, BudgetAssumption
  <2> QED
    BY <1>1, <2>1, <2>2, <2>3, OneRequestMoves
<1>4. Locked'
  <2>1. a # NoRequest
    BY BudgetAssumption
  <2>2. Horizon = day /\ Horizon' = day
    BY <1>1 DEF Horizon
  <2> QED
    BY <1>1, <2>1, <2>2 DEF Locked, Shape
<1>5. Tally'
  BY <1>1, NoTally
<1> QED
  BY <1>2, <1>3, <1>4, <1>5

LEMMA Counting ==
  ASSUME BudgetInv, Count
  PROVE  BudgetInv'
<1> USE DEF BudgetInv
<1>1. /\ query \in Queries /\ query' = Following(query)
      /\ counted' = counted + Cardinality(CountedBy(query, since))
      /\ UNCHANGED <<day, limit, phase, outcome, rows, events, admitting, since, missed, missedKnown>>
  BY DEF Count
<1>2. CountedBy(query, since) \in SUBSET Requests
  BY DEF CountedBy, Unreserved, RowsThat, Rows
<1>3. query # "none" /\ query' # "none" /\ query' \in Queries \cup {"decide"}
  BY <1>1 DEF Queries, Following
<1>4. Shape'
  <2>1. Cardinality(CountedBy(query, since)) \in Nat
    BY <1>2, Sets
  <2>2. counted' \in Nat
    BY <1>1, <2>1 DEF Shape
  <2> QED
    BY <1>1, <1>3, <2>2 DEF Shape
<1>5. Each'
  BY <1>1 DEF Each
<1>6. Locked'
  BY <1>1, <1>3 DEF Locked, Horizon
<1>7. Tally'
  <2>1. Tallied' = Tallied \cup CountedBy(query, since)
    <3> SUFFICES ASSUME NEW b \in Requests
                 PROVE  b \in Tallied' <=> b \in Tallied \/ b \in CountedBy(query, since)
      BY <1>2 DEF Tallied
    <3>1. rows[b].status \in {"none", "reserved", "consumed"}
      BY DEF Shape, RowType
    <3>2. b \in Tallied' <=> Passed(rows[b], events[b], query', since)
      BY <1>1 DEF Tallied
    <3>3. b \in Tallied <=> Passed(rows[b], events[b], query, since)
      BY DEF Tallied
    <3>4. CASE query = "telemetry"
      <4>1. query' = "consumed" /\ (b \in CountedBy(query, since) <=> b \in Unreserved(since))
        BY <1>1, <3>4 DEF Following, CountedBy
      <4> QED
        BY <3>1, <3>2, <3>3, <3>4, <4>1 DEF Passed, Unreserved
    <3>5. CASE query = "consumed"
      <4>1. query' = "reserved" /\ (b \in CountedBy(query, since) <=> b \in RowsThat(since, "consumed"))
        BY <1>1, <3>5 DEF Following, CountedBy
      <4> QED
        BY <3>1, <3>2, <3>3, <3>5, <4>1 DEF Passed, RowsThat, Rows
    <3>6. CASE query = "reserved"
      <4>1. query' = "unreserved" /\ (b \in CountedBy(query, since) <=> b \in RowsThat(since, "reserved"))
        BY <1>1, <3>6 DEF Following, CountedBy
      <4> QED
        BY <3>1, <3>2, <3>3, <3>6, <4>1 DEF Passed, RowsThat, Rows
    <3>7. CASE query \in {"unreserved", "known", "held", "charged"}
      <4>1. query' \notin {"none", "telemetry", "consumed", "reserved"} /\ b \notin CountedBy(query, since)
        BY <1>1, <3>7 DEF Following, CountedBy
      <4> QED
        BY <3>2, <3>3, <3>7, <4>1 DEF Passed
    <3> QED
      BY <1>1, <3>4, <3>5, <3>6, <3>7 DEF Queries
  <2>2. Tallied \cap CountedBy(query, since) = {}
    <3> SUFFICES ASSUME NEW b \in Requests, Passed(rows[b], events[b], query, since), b \in CountedBy(query, since)
                 PROVE  FALSE
      BY DEF Tallied
    <3>1. CASE query = "telemetry"
      BY <3>1 DEF Passed
    <3>2. CASE query = "consumed"
      BY <3>2 DEF Passed, CountedBy, RowsThat, Rows
    <3>3. CASE query = "reserved"
      BY <3>3 DEF Passed, CountedBy, RowsThat, Rows
    <3>4. CASE query \notin {"telemetry", "consumed", "reserved"}
      BY <3>4 DEF CountedBy
    <3> QED
      BY <3>1, <3>2, <3>3, <3>4
  <2>3. Tallied \in SUBSET Requests
    BY DEF Tallied
  <2>4. /\ Cardinality((Tallied \cup CountedBy(query, since)) \ missed) <= counted + Cardinality(CountedBy(query, since))
        /\ counted + Cardinality(CountedBy(query, since)) <= Cardinality(Tallied \cup CountedBy(query, since))
    BY <1>2, <2>2, <2>3, Adds DEF Tally, Shape
  <2> QED
    BY <1>1, <2>1, <2>4 DEF Tally
<1> QED
  BY <1>4, <1>5, <1>6, <1>7

\* The transaction of an admission ends, with or without a reservation.
LEMMA Ends ==
  ASSUME BudgetInv, NEW a \in Requests, RefuseAttempts(a) \/ RefuseTokens(a) \/ Reserve(a)
  PROVE  BudgetInv'
<1> USE DEF BudgetInv
<1>1. /\ a = admitting /\ query = "decide" /\ UNCHANGED <<day, limit, outcome, events>>
      /\ admitting' = NoRequest /\ query' = "none" /\ since' = 0 /\ counted' = 0
      /\ missed' = {} /\ missedKnown' = {}
  BY DEF RefuseAttempts, RefuseTokens, Reserve, Refuse, Unlock
<1>2. PICK ph \in {"calling", "over", "noAttempts", "noTokens"}, ro \in RowType :
        /\ phase' = [phase EXCEPT ![a] = ph] /\ rows' = [rows EXCEPT ![a] = ro]
        /\ \/ ph \in {"noAttempts", "noTokens"} /\ ro = rows[a]
           \/ ph \in {"calling", "over"} /\ ro.status = "reserved" /\ ro.utcDay = day
  <2>1. CASE RefuseAttempts(a) \/ RefuseTokens(a)
    <3>1. rows' = [rows EXCEPT ![a] = rows[a]] /\ rows[a] \in RowType
      BY <2>1 DEF RefuseAttempts, RefuseTokens, Refuse, Shape
    <3> QED
      BY <2>1, <3>1 DEF RefuseAttempts, RefuseTokens, Refuse, Moves
  <2>2. CASE Reserve(a)
    <3>1. [status |-> "reserved", utcDay |-> day, charged |-> 0] \in RowType
      BY DEF Shape, RowType
    <3> QED
      BY <2>2, <3>1 DEF Reserve, Moves
  <2> QED
    BY <2>1, <2>2
<1>3. RequestIs(a, phase[a], outcome[a], rows[a], events[a], admitting)
  BY DEF Each
<1>4. phase[a] = "admission" /\ a \notin Telemetry /\ events[a].usage = "none" /\ rows[a].status = "none"
  BY <1>1, <1>3 DEF RequestIs
<1>5. Shape'
  BY <1>1, <1>2, BudgetAssumption DEF Shape, Phases
<1>6. Each'
  <2>1. outcome' = [outcome EXCEPT ![a] = outcome[a]] /\ events' = [events EXCEPT ![a] = events[a]]
    BY <1>1 DEF Shape
  <2>2. RequestIs(a, ph, outcome[a], ro, events[a], admitting')
    BY <1>1, <1>2, <1>3, <1>4, BudgetAssumption DEF RequestIs
  <2>3. \A b \in Requests \ {a} : admitting' = b <=> admitting = b
    BY <1>1, BudgetAssumption
  <2> QED
    BY <1>2, <2>1, <2>2, <2>3, OneRequestMoves
<1>7. Locked'
  <2>1. Horizon = since /\ Horizon' = day /\ since <= day
    BY <1>1 DEF Horizon, Locked
  <2>2. \A b \in Requests : rows'[b].status # "none" => rows'[b].utcDay <= day
    <3> SUFFICES ASSUME NEW b \in Requests, rows'[b].status # "none"
                 PROVE  rows'[b].utcDay <= day
      OBVIOUS
    <3>1. CASE b = a
      BY <1>2, <1>4, <3>1 DEF Shape
    <3>2. CASE b # a
      <4>1. rows'[b] = rows[b] /\ rows[b].utcDay \in 0..MaxDay
        BY <1>2, <3>2 DEF Shape, RowType
      <4>2. rows[b].utcDay <= since
        BY <2>1, <4>1 DEF Locked
      <4> QED
        BY <2>1, <4>1, <4>2, BudgetAssumption DEF Shape
    <3> QED
      BY <3>1, <3>2
  <2> QED
    BY <1>1, <2>1, <2>2 DEF Locked, Shape
<1>8. Tally'
  BY <1>1, NoTally
<1> QED
  BY <1>5, <1>6, <1>7, <1>8

LEMMA Answers ==
  ASSUME BudgetInv, NEW a \in Requests, Answer(a)
  PROVE  BudgetInv'
<1> USE DEF BudgetInv
<1>1. /\ phase[a] = "calling" /\ phase' = [phase EXCEPT ![a] = "settle"]
      /\ UNCHANGED <<day, limit, rows, events, admitting, query, since, counted, missed, missedKnown>>
  BY DEF Answer, Moves, admission
<1>2. PICK u \in {"unknown", "partial", "known"} : outcome' = [outcome EXCEPT ![a] = u]
  BY DEF Answer
<1>3. Shape'
  BY <1>1, <1>2 DEF Shape, Phases
<1>4. Each'
  <2>1. rows' = [rows EXCEPT ![a] = rows[a]] /\ events' = [events EXCEPT ![a] = events[a]]
    BY <1>1 DEF Shape
  <2>2. RequestIs(a, "settle", u, rows[a], events[a], admitting')
    <3>1. RequestIs(a, phase[a], outcome[a], rows[a], events[a], admitting)
      BY DEF Each
    <3> QED
      BY <1>1, <3>1 DEF RequestIs
  <2>3. \A b \in Requests \ {a} : admitting' = b <=> admitting = b
    BY <1>1
  <2>4. phase' = [phase EXCEPT ![a] = "settle"]
    BY <1>1
  <2> QED
    BY <1>2, <2>1, <2>2, <2>3, <2>4, OneRequestMoves
<1>5. Locked'
  BY <1>1 DEF Locked, Horizon
<1>6. Tally'
  BY <1>1 DEF Tally, Tallied
<1> QED
  BY <1>3, <1>4, <1>5, <1>6

\* The reservation that a reconciliation leaves.
LEMMA ReconciledRow ==
  ASSUME Shape, NEW a \in Requests
  PROVE  /\ Reconciled(a) \in RowType /\ Reconciled(a).utcDay = rows[a].utcDay
         /\ rows[a].status # "reserved" => Reconciled(a) = rows[a]
         /\ rows[a].status = "reserved" =>
              /\ Reconciled(a).status = "consumed"
              /\ KnownEvent(a) \/ Reconciled(a).charged >= Reported(a, outcome[a])
<1>1. rows[a] \in RowType /\ Estimate[a] \in Nat /\ Used[a] \in Nat
  BY BudgetAssumption DEF Shape
<1>2. Reports(a) \in Nat /\ Reports(a) = Reported(a, outcome[a])
  BY <1>1 DEF Reports, Reported
<1>3. Greater(Estimate[a], Reports(a)) \in Nat /\ Greater(Estimate[a], Reports(a)) >= Reports(a)
  BY <1>1, <1>2 DEF Greater
<1> QED
  BY <1>1, <1>2, <1>3 DEF Reconciled, RowType

LEMMA Settles ==
  ASSUME BudgetInv, NEW a \in Requests, Settle(a) \/ Resettle(a)
  PROVE  BudgetInv'
<1> USE DEF BudgetInv
<1>1. /\ UNCHANGED <<day, limit, outcome, events, admitting, query, since, counted, missedKnown>>
      /\ Reconcile(a)
  BY DEF Settle, Resettle
<1>2. PICK ph \in {"report", "over"} :
        /\ phase' = [phase EXCEPT ![a] = ph]
        /\ phase[a] = IF ph = "report" THEN "settle" ELSE "resettle"
  BY DEF Settle, Resettle, Moves
<1>3. PICK ro \in {rows[a], Reconciled(a)} :
        /\ rows' = [rows EXCEPT ![a] = ro]
        /\ missed' = IF ro = Reconciled(a) /\ SlipsBy(a) THEN missed \cup {a} ELSE missed
  BY <1>1 DEF Reconcile, Shape, SlipsBy
<1>4. RequestIs(a, phase[a], outcome[a], rows[a], events[a], admitting)
  BY DEF Each
<1>5. ro \in RowType /\ ro.utcDay = rows[a].utcDay /\ (rows[a].status # "reserved" => ro = rows[a])
  BY ReconciledRow DEF Shape
<1>6. ro = rows[a] \/ (rows[a].status = "reserved" /\ ro.status = "consumed"
                        /\ (events[a].usage = "known" \/ ro.charged >= Reported(a, outcome[a])))
  BY ReconciledRow DEF KnownEvent
<1>7. Shape'
  BY <1>1, <1>2, <1>3, <1>5 DEF Shape, Phases
<1>8. Each'
  <2>1. outcome' = [outcome EXCEPT ![a] = outcome[a]] /\ events' = [events EXCEPT ![a] = events[a]]
    BY <1>1 DEF Shape
  <2>2. RequestIs(a, ph, outcome[a], ro, events[a], admitting')
    <3>1. CASE ro = rows[a]
      BY <1>1, <1>2, <1>4, <3>1 DEF RequestIs
    <3>2. CASE ro # rows[a]
      BY <1>1, <1>2, <1>4, <1>6, <3>2 DEF RequestIs
    <3> QED
      BY <3>1, <3>2
  <2> QED
    BY <1>1, <1>2, <1>3, <2>1, <2>2, OneRequestMoves
<1>9. Locked'
  <2>1. \A b \in Requests : rows'[b].status # "none" => rows[b].status # "none" /\ rows'[b].utcDay = rows[b].utcDay
    <3> SUFFICES ASSUME NEW b \in Requests, rows'[b].status # "none"
                 PROVE  rows[b].status # "none" /\ rows'[b].utcDay = rows[b].utcDay
      OBVIOUS
    <3>1. CASE b = a
      BY <1>3, <1>5, <1>6, <3>1 DEF Shape
    <3>2. CASE b # a
      BY <1>3, <3>2 DEF Shape
    <3> QED
      BY <3>1, <3>2
  <2> QED
    BY <1>1, <2>1 DEF Locked, Horizon
<1>10. Tally'
  <2>1. events' = [events EXCEPT ![a] = events[a]] /\ missed \subseteq missed' /\ missed' \subseteq Requests
    BY <1>1, <1>3 DEF Shape
  <2>2. Passed(rows[a], events[a], query, since) => Passed(ro, events[a], query, since)
    BY <1>5, <1>6 DEF Passed
  <2>3. ASSUME Passed(ro, events[a], query, since), ~Passed(rows[a], events[a], query, since)
        PROVE  a \in missed'
    <3>1. /\ ro # rows[a] /\ ro = Reconciled(a) /\ rows[a].status = "reserved" /\ ro.status = "consumed"
          /\ query = "reserved" /\ rows[a].utcDay = since
      BY <1>3, <1>5, <1>6, <2>3 DEF Passed
    <3> QED
      BY <1>3, <3>1 DEF SlipsBy
  <2> QED
    BY <1>1, <1>3, <2>1, <2>2, <2>3, OneTally
<1> QED
  BY <1>7, <1>8, <1>9, <1>10

LEMMA Reporting ==
  ASSUME BudgetInv, NEW a \in Requests, Report(a)
  PROVE  BudgetInv'
<1> USE DEF BudgetInv
<1>1. /\ UNCHANGED <<day, limit, outcome, rows, admitting, query, since, counted>>
      /\ phase[a] = IF a \in Telemetry THEN "idle" ELSE "report"
  BY DEF Report
<1>2. [usage |-> outcome[a], on |-> day] \in EventType
  BY DEF Shape, EventType
<1>3. PICK ev \in {events[a], [usage |-> outcome[a], on |-> day]}, ph \in {"resettle", "over"} :
        /\ events' = [events EXCEPT ![a] = ev] /\ phase' = [phase EXCEPT ![a] = ph]
        /\ ph = "resettle" => ev # events[a] \/ events' = [events EXCEPT ![a] = [usage |-> outcome[a], on |-> day]]
        /\ ev = events[a] \/ Late(a)
  <2>1. events = [events EXCEPT ![a] = events[a]]
    BY DEF Shape
  <2> QED
    BY <2>1 DEF Report, Moves
<1>4. RequestIs(a, phase[a], outcome[a], rows[a], events[a], admitting)
  BY DEF Each
<1>5. missed \subseteq missed' /\ missed' \subseteq Requests /\ missedKnown' \subseteq Requests
  <2>1. Late(a) \/ UNCHANGED <<missed, missedKnown>>
    BY DEF Report
  <2> QED
    BY <2>1 DEF Late, Shape
<1>6. Shape'
  <2>1. ev \in EventType
    BY <1>2, <1>3 DEF Shape
  <2> QED
    BY <1>1, <1>3, <1>5, <2>1 DEF Shape, Phases
<1>7. events[a].usage = "none"
  BY <1>1, <1>4 DEF RequestIs
<1>8. Each'
  <2>1. outcome' = [outcome EXCEPT ![a] = outcome[a]] /\ rows' = [rows EXCEPT ![a] = rows[a]]
    BY <1>1 DEF Shape
  <2>2. RequestIs(a, ph, outcome[a], rows[a], ev, admitting')
    <3>1. CASE a \in Telemetry
      BY <1>1, <1>3, <1>4, <1>7, <3>1 DEF RequestIs
    <3>2. CASE a \notin Telemetry
      BY <1>1, <1>3, <1>4, <1>7, <3>2 DEF RequestIs
    <3> QED
      BY <3>1, <3>2
  <2> QED
    BY <1>1, <1>3, <2>1, <2>2, OneRequestMoves
<1>9. Locked'
  BY <1>1 DEF Locked, Horizon
<1>10. Tally'
  <2>1. rows' = [rows EXCEPT ![a] = rows[a]]
    BY <1>1 DEF Shape
  <2>2. Passed(rows[a], events[a], query, since) => Passed(rows[a], ev, query, since)
    BY <1>7 DEF Passed
  <2>3. ASSUME Passed(rows[a], ev, query, since), ~Passed(rows[a], events[a], query, since)
        PROVE  a \in missed'
    <3>1. ev # events[a] /\ rows[a].status = "none" /\ query \notin {"none", "telemetry"}
      BY <2>3 DEF Passed
    <3>2. a \in Telemetry
      BY <1>1, <1>4, <3>1 DEF RequestIs
    <3> QED
      BY <1>3, <3>1, <3>2 DEF Late
  <2> QED
    BY <1>1, <1>3, <1>5, <2>1, <2>2, <2>3, OneTally
<1> QED
  BY <1>6, <1>8, <1>9, <1>10

LEMMA Stops ==
  ASSUME BudgetInv, NEW a \in Requests, Stop(a)
  PROVE  BudgetInv'
<1> USE DEF BudgetInv
<1>1. /\ phase' = [phase EXCEPT ![a] = "over"] /\ UNCHANGED <<day, limit, outcome, rows, events>>
      /\ phase[a] \in {"admission", "calling", "settle", "report", "resettle"}
  BY DEF Stop, Moves
<1>2. RequestIs(a, phase[a], outcome[a], rows[a], events[a], admitting)
  BY DEF Each
<1>3. /\ outcome' = [outcome EXCEPT ![a] = outcome[a]] /\ rows' = [rows EXCEPT ![a] = rows[a]]
      /\ events' = [events EXCEPT ![a] = events[a]]
  BY <1>1 DEF Shape
<1>4. CASE a = admitting
  <2>1. /\ admitting' = NoRequest /\ query' = "none" /\ since' = 0 /\ counted' = 0
        /\ missed' = {} /\ missedKnown' = {}
    BY <1>4 DEF Stop, Unlock
  <2>2. Shape'
    BY <1>1, <2>1, BudgetAssumption DEF Shape, Phases
  <2>3. Each'
    <3>1. RequestIs(a, "over", outcome[a], rows[a], events[a], admitting')
      BY <1>1, <1>2, <2>1, BudgetAssumption DEF RequestIs
    <3>2. \A b \in Requests \ {a} : admitting' = b <=> admitting = b
      BY <1>4, <2>1, BudgetAssumption
    <3> QED
      BY <1>1, <1>3, <3>1, <3>2, OneRequestMoves
  <2>4. Locked'
    <3>1. query # "none"
      BY <1>4, BudgetAssumption DEF Locked
    <3>2. Horizon = since /\ Horizon' = day /\ since <= day
      BY <1>1, <2>1, <3>1 DEF Horizon, Locked
    <3>3. ASSUME NEW b \in Requests, rows'[b].status # "none"
          PROVE  rows'[b].utcDay <= day
      <4>1. rows'[b] = rows[b] /\ rows[b].utcDay \in 0..MaxDay
        BY <1>1 DEF Shape, RowType
      <4>2. rows[b].utcDay <= since
        BY <3>2, <3>3, <4>1 DEF Locked
      <4> QED
        BY <3>2, <4>1, <4>2, BudgetAssumption DEF Shape
    <3> QED
      BY <1>1, <2>1, <3>2, <3>3 DEF Locked, Shape
  <2>5. Tally'
    BY <2>1, NoTally
  <2> QED
    BY <2>2, <2>3, <2>4, <2>5
<1>5. CASE a # admitting
  <2>1. UNCHANGED <<admitting, query, since, counted, missed, missedKnown>>
    BY <1>5 DEF Stop, admission
  <2>2. Shape'
    BY <1>1, <2>1 DEF Shape, Phases
  <2>3. Each'
    <3>1. RequestIs(a, "over", outcome[a], rows[a], events[a], admitting')
      BY <1>1, <1>2, <1>5, <2>1 DEF RequestIs
    <3>2. \A b \in Requests \ {a} : admitting' = b <=> admitting = b
      BY <2>1
    <3> QED
      BY <1>1, <1>3, <3>1, <3>2, OneRequestMoves
  <2>4. Locked' /\ Tally'
    BY <1>1, <2>1 DEF Locked, Horizon, Tally, Tallied
  <2> QED
    BY <2>2, <2>3, <2>4
<1> QED
  BY <1>4, <1>5

LEMMA Outside ==
  ASSUME BudgetInv, SetLimits \/ Midnight \/ UNCHANGED budgetVars
  PROVE  BudgetInv'
<1> USE DEF BudgetInv
<1>1. UNCHANGED <<phase, outcome, rows, events, admitting, query, since, counted, missed, missedKnown>>
  BY DEF SetLimits, Midnight, budgetVars, admission
<1>2. day' \in 0..MaxDay /\ day <= day'
  BY BudgetAssumption DEF SetLimits, Midnight, budgetVars, Shape
<1>3. limit' \in Limits
  BY DEF SetLimits, Midnight, budgetVars, Shape
<1>4. Shape' /\ Each' /\ Tally'
  BY <1>1, <1>2, <1>3 DEF Shape, Each, Tally, Tallied
<1>5. Locked'
  <2>1. Horizon \in Nat /\ Horizon <= Horizon' /\ Horizon' <= day'
    BY <1>1, <1>2, BudgetAssumption DEF Horizon, Locked, Shape
  <2>2. ASSUME NEW b \in Requests, rows'[b].status # "none"
        PROVE  rows'[b].utcDay <= Horizon'
    <3>1. rows'[b] = rows[b] /\ rows[b].utcDay \in Nat
      BY <1>1, BudgetAssumption DEF Shape, RowType
    <3>2. rows[b].utcDay <= Horizon
      BY <2>2, <3>1 DEF Locked
    <3>3. Horizon' \in Nat
      BY <1>1, <1>2, BudgetAssumption DEF Horizon, Shape
    <3> QED
      BY <2>1, <3>1, <3>2, <3>3
  <2> QED
    BY <1>1, <2>1, <2>2 DEF Locked
<1> QED
  BY <1>4, <1>5

LEMMA Inductive == BudgetInv /\ [BudgetNext]_budgetVars => BudgetInv'
<1> SUFFICES ASSUME BudgetInv, [BudgetNext]_budgetVars PROVE BudgetInv'
  OBVIOUS
<1>1. CASE Count
  BY <1>1, Counting
<1>2. CASE SetLimits \/ Midnight \/ UNCHANGED budgetVars
  BY <1>2, Outside
<1>3. ASSUME NEW a \in Requests, Admit(a)
      PROVE  BudgetInv'
  BY <1>3, Admits
<1>4. ASSUME NEW a \in Requests, RefuseAttempts(a) \/ RefuseTokens(a) \/ Reserve(a)
      PROVE  BudgetInv'
  BY <1>4, Ends
<1>5. ASSUME NEW a \in Requests, Answer(a)
      PROVE  BudgetInv'
  BY <1>5, Answers
<1>6. ASSUME NEW a \in Requests, Settle(a) \/ Resettle(a)
      PROVE  BudgetInv'
  BY <1>6, Settles
<1>7. ASSUME NEW a \in Requests, Report(a)
      PROVE  BudgetInv'
  BY <1>7, Reporting
<1>8. ASSUME NEW a \in Requests, Stop(a)
      PROVE  BudgetInv'
  BY <1>8, Stops
<1> QED
  BY <1>1, <1>2, <1>3, <1>4, <1>5, <1>6, <1>7, <1>8 DEF BudgetNext

-----------------------------------------------------------------------------
(* What follows from the invariant.                                         *)

LEMMA OnlyReserveReserves ==
  ASSUME BudgetInv, [BudgetNext]_budgetVars, NEW b \in Requests, rows[b].status = "none", rows'[b].status # "none"
  PROVE  Reserve(b)
<1> USE DEF BudgetInv
<1>1. CASE UNCHANGED budgetVars \/ Count \/ SetLimits \/ Midnight
  BY <1>1 DEF budgetVars, Count, SetLimits, Midnight
<1>2. ASSUME NEW a \in Requests,
             Admit(a) \/ RefuseAttempts(a) \/ RefuseTokens(a) \/ Answer(a) \/ Report(a) \/ Stop(a)
      PROVE  FALSE
  BY <1>2 DEF Admit, RefuseAttempts, RefuseTokens, Refuse, Answer, Report, Stop
<1>3. ASSUME NEW a \in Requests, Settle(a) \/ Resettle(a)
      PROVE  FALSE
  <2>1. rows' = rows \/ rows' = [rows EXCEPT ![a] = Reconciled(a)]
    BY <1>3 DEF Settle, Resettle, Reconcile
  <2>2. rows[a].status # "reserved" => Reconciled(a) = rows[a]
    BY ReconciledRow
  <2> QED
    BY <2>1, <2>2 DEF Shape
<1>4. ASSUME NEW a \in Requests, Reserve(a)
      PROVE  a = b
  BY <1>4 DEF Reserve, Shape
<1> QED
  BY <1>1, <1>2, <1>3, <1>4 DEF BudgetNext

LEMMA OnlyRefusalsRefuse ==
  ASSUME BudgetInv, [BudgetNext]_budgetVars, NEW b \in Requests, phase[b] # "noAttempts", phase'[b] = "noAttempts"
  PROVE  RefuseAttempts(b)
<1> USE DEF BudgetInv
<1>1. CASE UNCHANGED budgetVars \/ Count \/ SetLimits \/ Midnight
  BY <1>1 DEF budgetVars, Count, SetLimits, Midnight
<1>2. ASSUME NEW a \in Requests, NEW p \in Phases \ {"noAttempts"}, Moves(a, p)
      PROVE  FALSE
  BY <1>2 DEF Moves, Shape
<1>3. ASSUME NEW a \in Requests,
             Admit(a) \/ RefuseTokens(a) \/ Reserve(a) \/ Answer(a) \/ Settle(a) \/ Report(a) \/ Resettle(a) \/ Stop(a)
      PROVE  \E p \in Phases \ {"noAttempts"} : Moves(a, p)
  BY <1>3 DEF Admit, RefuseTokens, Refuse, Reserve, Answer, Settle, Report, Resettle, Stop, Phases
<1>4. ASSUME NEW a \in Requests, RefuseAttempts(a)
      PROVE  a = b
  BY <1>4 DEF RefuseAttempts, Refuse, Moves, Shape
<1> QED
  BY <1>1, <1>2, <1>3, <1>4 DEF BudgetNext

LEMMA Admission ==
  ASSUME BudgetInv, NEW b \in Requests, Reserve(b)
  PROVE  Cardinality(Charged(day) \ missed) < limit.attempts
<1> USE DEF BudgetInv
<1>1. query = "decide" /\ ~(counted >= limit.attempts) /\ limit.attempts \in Nat /\ counted \in Nat
  BY BudgetAssumption DEF Reserve, AttemptsSpent, Shape
<1>2. Horizon = since /\ since <= day /\ since \in Nat /\ day \in Nat
  BY <1>1, BudgetAssumption DEF Horizon, Locked, Shape
<1>3. ASSUME NEW c \in Charged(day)
      PROVE  c \in Tallied
  <2>1. c \in Requests
    BY <1>3 DEF Charged, Rows, Unreserved
  <2>2. rows[c] \in RowType /\ events[c] \in EventType
    BY <2>1 DEF Shape
  <2>3. CASE c \in Rows(day)
    <3>1. rows[c].status \in {"reserved", "consumed"} /\ rows[c].utcDay = day
      BY <2>2, <2>3 DEF Rows, RowType
    <3>2. rows[c].utcDay <= since
      BY <1>2, <2>1, <3>1 DEF Locked
    <3>3. rows[c].utcDay = since
      BY <1>2, <3>1, <3>2
    <3> QED
      BY <1>1, <2>1, <3>1, <3>3 DEF Tallied, Passed
  <2>4. CASE c \in Unreserved(day)
    <3>1. events[c].on \in Nat /\ events[c].on >= day /\ events[c].usage # "none" /\ rows[c].status = "none"
      BY <2>2, <2>4, BudgetAssumption DEF Unreserved, EventType
    <3>2. events[c].on >= since
      BY <1>2, <3>1
    <3> QED
      BY <1>1, <2>1, <3>1, <3>2 DEF Tallied, Passed
  <2> QED
    BY <1>3, <2>3, <2>4 DEF Charged
<1>4. Tallied \ missed \in SUBSET Requests /\ Charged(day) \ missed \in SUBSET (Tallied \ missed)
  BY <1>3 DEF Tallied
<1>5. /\ Cardinality(Charged(day) \ missed) \in Nat /\ Cardinality(Tallied \ missed) \in Nat
      /\ Cardinality(Charged(day) \ missed) <= Cardinality(Tallied \ missed)
  BY <1>4, Sets
<1>6. Cardinality(Tallied \ missed) <= counted
  BY DEF Tally
<1> QED
  BY <1>1, <1>5, <1>6

LEMMA Refusal ==
  ASSUME BudgetInv, NEW b \in Requests, RefuseAttempts(b)
  PROVE  Cardinality(Charged(since)) >= limit.attempts
<1> USE DEF BudgetInv
<1>1. counted >= limit.attempts /\ limit.attempts \in Nat /\ counted \in Nat
  BY BudgetAssumption DEF RefuseAttempts, AttemptsSpent, Shape
<1>2. Tallied \in SUBSET Charged(since) /\ Charged(since) \in SUBSET Requests
  BY DEF Tallied, Passed, Charged, Rows, Unreserved
<1>3. /\ Cardinality(Tallied) \in Nat /\ Cardinality(Charged(since)) \in Nat
      /\ Cardinality(Tallied) <= Cardinality(Charged(since))
  BY <1>2, Sets
<1>4. counted <= Cardinality(Tallied)
  BY DEF Tally
<1> QED
  BY <1>1, <1>3, <1>4

LEMMA Costs == BudgetInv => NothingIsFree
<1> SUFFICES ASSUME BudgetInv, NEW a \in Requests
             PROVE  /\ rows[a].status # "none" /\ ~KnownEvent(a) => Tokens(a) >= Estimate[a]
                    /\ rows[a].status = "consumed" => Tokens(a) >= Reports(a)
  BY DEF NothingIsFree
<1>1. /\ rows[a] \in RowType /\ Estimate[a] \in Nat /\ Used[a] \in Nat
      /\ RequestIs(a, phase[a], outcome[a], rows[a], events[a], admitting)
  BY BudgetAssumption DEF BudgetInv, Shape, Each
<1>2. Reports(a) = Reported(a, outcome[a]) /\ Reports(a) \in Nat /\ Reports(a) <= Used[a]
  BY <1>1 DEF Reports, Reported
<1>3. CASE KnownEvent(a)
  BY <1>1, <1>2, <1>3 DEF Tokens
<1>4. CASE ~KnownEvent(a) /\ rows[a].status = "reserved"
  BY <1>1, <1>4 DEF Tokens
<1>5. CASE ~KnownEvent(a) /\ rows[a].status = "consumed"
  <2>1. rows[a].charged \in Nat /\ rows[a].charged >= Reports(a)
    BY <1>1, <1>2, <1>5 DEF RequestIs, KnownEvent, RowType
  <2>2. Tokens(a) = Greater(rows[a].charged, Estimate[a])
    BY <1>5 DEF Tokens
  <2> QED
    BY <1>1, <1>2, <2>1, <2>2 DEF Greater
<1> QED
  BY <1>1, <1>3, <1>4, <1>5 DEF RowType
-----------------------------------------------------------------------------
\* The invariant of the proofs: types, the lock, and what is counted.
THEOREM Invariant == BudgetSpec => []BudgetInv
<1> QED
  BY BudgetInitially, Inductive, PTL DEF BudgetSpec

\* An attempt is admitted only while the attempts of its day that did not change
\* behind the back of its admission are below the limit (admitAiProviderAttempt).
THEOREM AdmissionsBelowLimit == BudgetSpec => AdmittedBelowLimit
<1>1. BudgetInv /\ [BudgetNext]_budgetVars =>
        [\A a \in Requests : rows[a].status = "none" /\ rows'[a].status # "none" =>
           Cardinality(Charged(day) \ missed) < limit.attempts]_budgetVars
  BY OnlyReserveReserves, Admission
<1> QED
  BY <1>1, Invariant, PTL DEF BudgetSpec, AdmittedBelowLimit

\* An attempt is refused for the number of attempts only when the counted day has
\* reached the limit (usageForDay counts no reservation twice).
THEOREM RefusalsAtLimit == BudgetSpec => RefusedAtLimit
<1>1. BudgetInv /\ [BudgetNext]_budgetVars =>
        [\A a \in Requests : phase[a] # "noAttempts" /\ phase'[a] = "noAttempts" =>
           Cardinality(Charged(since)) >= limit.attempts]_budgetVars
  BY OnlyRefusalsRefuse, Refusal
<1> QED
  BY <1>1, Invariant, PTL DEF BudgetSpec, RefusedAtLimit

\* A request costs at least its estimate or what its provider reports, whatever
\* writes of its process are lost (reconcileAiBudgetReservation).
THEOREM NoFreeRequest == BudgetSpec => []NothingIsFree
<1> QED
  BY Invariant, Costs, PTL

\* Both: attempts are admitted below the limit and refused at it.
THEOREM AttemptsAreCounted == BudgetSpec => AttemptsCounted
BY AdmissionsBelowLimit, RefusalsAtLimit DEF AttemptsCounted
================================================================================
