--------------------------- MODULE MCWallWorkflow ---------------------------
(* Instances of WallWorkflow for TLC. *)
EXTENDS WallWorkflow
=============================================================================
