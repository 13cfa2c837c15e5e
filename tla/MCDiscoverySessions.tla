-------------------------- MODULE MCDiscoverySessions --------------------------
(* Instances of DiscoverySessions: the root of c is a clone's, the root of w  *)
(* is the one of a project that exists.                                       *)
EXTENDS DiscoverySessions

CONSTANTS c, w, own, kept, p1, p2, i1, i2

SessionRoot == [s \in Sessions |-> IF s = w THEN kept ELSE own]
AllHome == [s \in Sessions |-> p1]
=============================================================================
