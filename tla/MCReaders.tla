------------------------------ MODULE MCReaders ------------------------------
(* What a reader's position is worth, what the reader is told to do about   *)
(* it, and the judge that reads the same envelope.  They share no table: in *)
(* a behaviour one of the three moves.                                      *)
EXTENDS MCPositionState, ActionItems, JudgeStream

VARIABLE part

readerVars == <<vars, itemsVars, judgeVars, part>>

ReadersInit ==
  /\ Init /\ ItemsInit /\ JudgeInit
  /\ part \in {"positions", "items", "judge"}
ReadersNext ==
  \/ part = "positions" /\ SerialNext /\ UNCHANGED <<itemsVars, judgeVars, part>>
  \/ part = "items" /\ ItemsNext /\ UNCHANGED <<vars, judgeVars, part>>
  \/ part = "judge" /\ JudgeNext /\ UNCHANGED <<vars, itemsVars, part>>
ReadersSpec == ReadersInit /\ [][ReadersNext]_readerVars
=============================================================================
