------------------------------ MODULE FillBook ------------------------------
(***************************************************************************)
(* What the execution ledger promises its reader, docs/EXECUTION_CAPTURE_  *)
(* SPEC.md section 4: every fill reported stays in the book, under the     *)
(* position it was reported for, with exactly one current version.  A      *)
(* correction replaces the version, never the fill.                        *)
(***************************************************************************)
CONSTANTS Fills,      \* names of fills
          Positions,  \* a user and a signal
          Versions    \* what a report says of a fill

VARIABLE book  \* fill -> [position, version]

Init == book = [f \in {} |-> {}]

Entries == [position : Positions, version : Versions]

\* A fill nobody reported before enters the book.
Report(f) ==
  /\ f \notin DOMAIN book
  /\ \E r \in Entries : book' = [g \in DOMAIN book \union {f} |-> IF g = f THEN r ELSE book[g]]

\* The current version of a fill is replaced.
Amend(f) ==
  /\ f \in DOMAIN book /\ DOMAIN book' = DOMAIN book
  /\ \E v \in Versions : book' = [book EXCEPT ![f].version = v]

Next == \E f \in Fills : Report(f) \/ Amend(f)

Spec == Init /\ [][Next]_book
=============================================================================
