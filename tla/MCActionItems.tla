---------------------------- MODULE MCActionItems ----------------------------
(* Small instances of ActionItems. *)
EXTENDS ActionItems
=============================================================================
