------------------------ MODULE MCWorkspaceRuntime -------------------------
(* Instances of WorkspaceRuntime.                                           *)
EXTENDS WorkspaceRuntime

CONSTANTS w1, w2
=============================================================================
