------------------------- MODULE MCExecutionLedger -------------------------
(* Small instances of ExecutionLedger. *)
EXTENDS ExecutionLedger, TLC

CONSTANTS u1, s1, s2, w1, w2

Symmetry == Permutations(Signals) \union Permutations(Workers)

\* Bound: the last row may be of a later day, and is then no sell (the three
\* properties compare no dates; MCPositionState lets days pass between any two).
DaysLate == today > 0 => /\ Len(events) >= MaxEvents - 1
                         /\ \A w \in Workers : pending[w] = Idle
=============================================================================
