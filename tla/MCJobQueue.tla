----------------------------- MODULE MCJobQueue -----------------------------
(* The queue with two ids that two producers race for, one further id and   *)
(* an anonymous job: enough for a duplicate of a waiting job, a duplicate   *)
(* of an executing one, and a full queue.                                   *)
EXTENDS JobQueue

CONSTANTS a1, a2, b1, b2, c1, d1, n1, n2, ida, idb, idc, idd

MCClosures == {a1, a2, b1, b2, c1, d1, n1, n2}
MCIds == {ida, idb, idc, idd}
MCIdOf ==
  [j \in MCClosures |->
     CASE j \in {a1, a2} -> ida
       [] j \in {b1, b2} -> idb
       [] j = c1 -> idc
       [] j = d1 -> idd
       [] OTHER -> NoId]
=============================================================================
