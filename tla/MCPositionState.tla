-------------------------- MODULE MCPositionState --------------------------
(* Small instances of PositionState. *)
EXTENDS PositionState

CONSTANTS u1, s1, w1

\* A share of 100 keeps half its value on day 1.
OneDemerger == <<[ex |-> 1, num |-> 1, den |-> 2, prior |-> 100]>>
NoDemerger == <<>>

\* One request at a time and at most MaxEvents of them: what the walk computes
\* depends on the rows alone, however they got there.  With the table full
\* none is left, and only the day goes on.
Serial ==
  \A w \in Workers : pending[w] # Idle => pending[w].seen = Len(events) /\ Room

\* Bound: at most one report carries executed_at, and then to date it back.
Dated == {i \in DOMAIN events : events[i].version.at # Unsaid}
FewDated ==
  /\ Cardinality(Dated) <= 1
  /\ \A i \in Dated : events[i].version.at < events[i].created
  /\ \A w \in Workers : pending[w] # Idle => pending[w].version.at # today

\* Bound: one share a fill, but for one sell of two among fills none of which
\* is dated back.
Large == {i \in DOMAIN events : events[i].version.qty > 1}
FewLarge ==
  /\ Cardinality(Large) <= 1
  /\ \A i \in Large : events[i].version.side = "SELL" /\ Dated = {}
  /\ \A w \in Workers : pending[w] # Idle /\ pending[w].version.qty > 1 => Large = {} /\ Dated = {}

SerialNext == NextDay \/ (Room /\ Next /\ (Serial /\ FewDated /\ FewLarge)')
SerialSpec == Init /\ [][SerialNext]_vars
=============================================================================
