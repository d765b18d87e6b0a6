---------------------------- MODULE RebalanceBook ----------------------------
(***************************************************************************)
(* The rotation simulator, nq/engine/rebalance_book.py: a book that moves  *)
(* toward target weights at every open, and the accounting rules it checks *)
(* itself against after every session.                                     *)
(*                                                                         *)
(* Which names are held is modelled; quantities, cash, costs, the size     *)
(* threshold and the band are left out, so that a purchase may come to     *)
(* nothing and a position that stays may change its size.  A bar has an    *)
(* open.  Sessions are not numbered: a rebalance may follow any of them.   *)
(***************************************************************************)
EXTENDS Integers, FiniteSets

CONSTANTS Universe,
          TopN,         \* top_n
          KeepTo,       \* int(top_n * buffer_mult), the cap on positions
          StaleAbsent   \* STALE_ABSENT_DAYS

ASSUME RebalanceAssumption ==
  /\ IsFiniteSet(Universe)
  /\ TopN \in Nat \ {0} /\ KeepTo \in Nat /\ TopN <= KeepTo /\ StaleAbsent \in Nat \ {0}

VARIABLES
  absent,    \* for each position, the sessions it has had no quote in a row
  targets,   \* names with a positive weight
  zeros,     \* names with a zero weight
  quoted,    \* names with a bar in the last session
  due        \* the last session is the end of a period and not yet ranked

rebalanceVars == <<absent, targets, zeros, quoted, due>>

Positions == DOMAIN absent

RebalanceInit ==
  absent = <<>> /\ targets = {} /\ zeros = {} /\ quoted = {} /\ due = FALSE

-----------------------------------------------------------------------------

\* The names a session looks at.
LookedAt == Positions \union targets \union zeros

\* Positions without a quote, one session more.
AbsentOnce == [n \in (Positions \intersect LookedAt) \ quoted' |-> absent[n] + 1]

\* Absent for too long: closed at the last mark.
Stuck == {n \in DOMAIN AbsentOnce : AbsentOnce[n] >= StaleAbsent}

\* Quoted, and of no weight: sold whole, however small the position.
\* Mutant: only if the weight is an explicit zero.
SoldIfZero == zeros \intersect Positions \intersect quoted'
Sold == ((LookedAt \ targets) \intersect Positions) \intersect quoted'

\* One session.  Of the quoted names of positive weight some new ones are
\* bought, and some positions sold whole, their target being less than a share.  Then the zero
\* weights are dropped.  Before the first rebalance there is nothing to do.
Trade(bought, trimmed, period) ==
  /\ ~due
  /\ quoted' \in SUBSET Universe
  /\ bought \union trimmed \subseteq quoted'
  /\ absent' = [n \in (Positions \union bought) \ (Sold \union trimmed \union Stuck) |->
                  IF n \in DOMAIN AbsentOnce THEN AbsentOnce[n]
                  ELSE IF n \in quoted' THEN 0 ELSE absent[n]]
  /\ zeros' = {} /\ due' = period
  /\ UNCHANGED targets

\* The names of positive weight: the first of the ranking, and positions still
\* ranked within the buffer; none when the exposure is zero.  Mutant: any
\* position that is ranked.
ChosenUncapped(ranked, exposed) ==
  IF exposed THEN {ranked[i] : i \in {j \in DOMAIN ranked : j <= TopN \/ ranked[j] \in Positions}} ELSE {}
Chosen(ranked, exposed) ==
  IF exposed
  THEN {ranked[i] : i \in {j \in DOMAIN ranked : j <= TopN \/ (j <= KeepTo /\ ranked[j] \in Positions)}}
  ELSE {}

\* The close of the last session of a period: some of the quoted names have a
\* rank.  If none has, the weights stay.
Rankings == {r \in UNION {[1..k -> quoted] : k \in 0..Cardinality(quoted)} :
               \A i, j \in DOMAIN r : r[i] = r[j] => i = j}
Rerank(ranked, exposed) ==
  /\ due /\ due' = FALSE
  /\ IF DOMAIN ranked = {} THEN UNCHANGED <<targets, zeros>>
     ELSE targets' = Chosen(ranked, exposed) /\ zeros' = Positions \ targets'
  /\ UNCHANGED <<absent, quoted>>

RebalanceNext ==
  \/ \E bought \in SUBSET (targets \ Positions), trimmed \in SUBSET (targets \intersect Positions), period \in BOOLEAN :
       Trade(bought, trimmed, period)
  \/ \E ranked \in Rankings, exposed \in BOOLEAN : Rerank(ranked, exposed)

\* The simulation walks through every session of the panel.
RebalanceSpec == RebalanceInit /\ [][RebalanceNext]_rebalanceVars /\ WF_rebalanceVars(RebalanceNext)

-----------------------------------------------------------------------------
(* Properties. *)

\* The type of every variable.
RebalanceTypeOK ==
  /\ Positions \subseteq Universe /\ absent \in [Positions -> 0..StaleAbsent - 1]
  /\ targets \subseteq Universe /\ zeros \subseteq Universe /\ quoted \subseteq Universe
  /\ due \in BOOLEAN

\* rebalance_book.py:371: the positions that could have been traded are never
\* more than the cap, so that the engine never stops on its own rule.  That
\* targets outlive a session without a quote is what it takes.
CapHolds == Cardinality(Positions \intersect quoted) <= KeepTo

\* A position without a quote is inside the window in which it will be closed.
AbsenceWindow ==
  \A n \in Positions : IF n \in quoted THEN absent[n] = 0 ELSE absent[n] \in 1..StaleAbsent - 1

\* A position that is to be sold is held only for want of a quote: since the
\* ranking that dropped it there has been none.
ExitNotForgotten == \A n \in Positions \ targets : n \in zeros \/ n \notin quoted

\* A position that was dropped leaves the book, or is wanted again.
DroppedLeaves ==
  \A n \in Universe : (n \in Positions \ targets) ~> (n \notin Positions \/ n \in targets)

\* The rotation never reaches the states its own rules stop it in.
RebalanceInv == RebalanceTypeOK /\ CapHolds /\ AbsenceWindow /\ ExitNotForgotten
=============================================================================
