--------------------------- MODULE MCProjectBootstrap ---------------------------
(* Instances of ProjectBootstrap.                                             *)
EXTENDS ProjectBootstrap

CONSTANTS j1, p1, p2
=============================================================================
