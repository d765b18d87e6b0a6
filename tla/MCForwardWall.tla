--------------------------- MODULE MCForwardWall ---------------------------
(* Small instances of ForwardWall. *)
EXTENDS ForwardWall
=============================================================================
