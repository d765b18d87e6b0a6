--------------------------- MODULE ObservationLog ---------------------------
(***************************************************************************)
(* What the forward wall promises, forward/prereg.md section 3: a daily    *)
(* record in which every trading day, from the first one logged, is either *)
(* an observation or a gap; a day's fate is sealed in date order and never *)
(* revised.  Nothing here says how the days are found or written.          *)
(***************************************************************************)
EXTENDS Naturals

CONSTANTS Days,      \* the days of the forward record
          Calendar   \* those the NSE calendar counts as trading days

VARIABLES fate,      \* day -> "unlogged", "ok" or "gap"
          frontier   \* the last day logged, 0 before the first

vars == <<fate, frontier>>

Init == fate = [d \in Days |-> "unlogged"] /\ frontier = 0

\* Every trading day between the frontier and d has its fate already.
NothingSkipped(d) ==
  frontier = 0 \/ \A e \in Calendar : ~(frontier < e /\ e < d)

Seal(d, s) ==
  /\ d > frontier
  /\ NothingSkipped(d)
  /\ fate' = [fate EXCEPT ![d] = s]
  /\ frontier' = d

\* The session is logged on its day, or a missed trading day is marked.
Observe(d) == Seal(d, "ok")
MarkGap(d) == d \in Calendar /\ frontier > 0 /\ Seal(d, "gap")

Next == \E d \in Days : Observe(d) \/ MarkGap(d)

Spec == Init /\ [][Next]_vars
=============================================================================
