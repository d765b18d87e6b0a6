----------------------------- MODULE HashChain -----------------------------
(***************************************************************************)
(* The hash-chained, append-only log of nq/paper/forward_wall.py: a CSV    *)
(* whose every row carries row_hash = SHA-256(prior_row_hash | payload).   *)
(* append_row re-verifies the whole chain and refuses a date that is not   *)
(* strictly after the last one.  What the primitive is for is everything   *)
(* that is NOT append_row: the file sits in a git repository, so a person  *)
(* or a merge can rewrite a cell, reorder or delete rows, or restore an    *)
(* older version.  SHA-256 is taken to be collision free.                  *)
(***************************************************************************)
EXTENDS Naturals, Sequences

CONSTANTS Dates,     \* row dates, compared as ISO strings are
          Values,    \* everything else a payload holds
          MaxRows,   \* bound: rows the log may hold
          MaxEdits   \* bound: edits made behind the log's back

ASSUME DatesAssumption == Dates \subseteq Nat
ASSUME BoundsAssumption == MaxRows \in Nat /\ MaxEdits \in Nat

Payload == [date : Dates, value : Values]

VARIABLES log,        \* the rows of the file: <<[pay, hash], ...>>
          histories,  \* history: payload sequences append_row ever produced
          edits       \* edits made so far

vars == <<log, histories, edits>>

(***************************************************************************)
(* A collision-free digest is identified with its preimage.  The preimage  *)
(* of a row is its predecessor's digest and its own payload, so a digest   *)
(* is the sequence of payloads it commits to, and GENESIS is empty.        *)
(***************************************************************************)
Genesis == <<>>
ChainHash(prior, pay) == Append(prior, pay)
Prior(l, i) == IF i = 1 THEN Genesis ELSE l[i - 1].hash

\* Mutant: only the row being extended is checked.
VerifyLast(l) ==
  \A i \in DOMAIN l : i = Len(l) => l[i].hash = ChainHash(Prior(l, i), l[i].pay)

\* verify_chain: each stored hash is recomputed from its stored predecessor.
Verify(l) == \A i \in DOMAIN l : l[i].hash = ChainHash(Prior(l, i), l[i].pay)

Payloads(l) == [i \in DOMAIN l |-> l[i].pay]

Init == log = <<>> /\ histories = {<<>>} /\ edits = 0

\* What append_row asks of the file.
Later(p) == log # <<>> => p.date > log[Len(log)].pay.date
Accepts(p) == Verify(log) /\ Later(p)

\* append_row: refuse a broken chain, refuse back-dating, write one row.
AppendRow(p) ==
  /\ Len(log) < MaxRows
  /\ Accepts(p)
  /\ LET h == ChainHash(Prior(log, Len(log) + 1), p)
     IN  /\ log' = Append(log, [pay |-> p, hash |-> h])
         /\ histories' = histories \union {h}
  /\ UNCHANGED edits

-----------------------------------------------------------------------------
(* What happens to the file outside append_row. *)

Touch(l) ==
  /\ edits < MaxEdits
  /\ log' = l
  /\ edits' = edits + 1
  /\ UNCHANGED histories

\* A cell is rewritten (a gap "filled in", a return corrected).
Rewrite(i, p) == Touch([log EXCEPT ![i].pay = p])

\* Two rows are exchanged.
Reorder(i, j) == Touch([log EXCEPT ![i] = log[j], ![j] = log[i]])

\* A row is deleted; the last one when an older version of the file returns.
Delete(i) == Touch([k \in 1..(Len(log) - 1) |-> IF k < i THEN log[k] ELSE log[k + 1]])

Next ==
  \/ \E p \in Payload : AppendRow(p)
  \/ \E i \in DOMAIN log : \E p \in Payload : Rewrite(i, p)
  \/ \E i, j \in DOMAIN log : Reorder(i, j)
  \/ \E i \in DOMAIN log : Delete(i)

Spec == Init /\ [][Next]_vars

-----------------------------------------------------------------------------
Row == [pay : Payload, hash : Seq(Payload)]

TypeOK ==
  /\ log \in Seq(Row)
  /\ histories \subseteq Seq(Payload)
  /\ edits \in 0..MaxEdits

\* A log that verifies is a log append_row wrote, in that order: no edit, no
\* reordering and no interior deletion survives verification (prereg 3.2).
VerifiedIsHistory == Verify(log) => Payloads(log) \in histories

\* Whatever was done to the file, a log that verifies has strictly increasing
\* dates: no row is back-dated and no session is logged twice (prereg 3.4).
VerifiedIsOrdered ==
  Verify(log) => \A i \in DOMAIN log :
                   i > 1 => log[i].pay.date > log[i - 1].pay.date

\* append_row never writes onto a log that was rewritten or reordered: rows
\* only ever extend a sequence of payloads an earlier append produced.
GrowsFromHistory ==
  [][Len(log') > Len(log) => Payloads(log) \in histories]_vars

\* A file that verifies is one append_row wrote, in the order of its dates.
ChainInv == VerifiedIsHistory /\ VerifiedIsOrdered
=============================================================================
