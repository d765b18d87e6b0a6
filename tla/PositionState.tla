---------------------------- MODULE PositionState ----------------------------
(***************************************************************************)
(* position_state of services/execution_ledger.py over the tables that     *)
(* ExecutionLedger can reach: average cost, realized P&L, and the re-basing *)
(* of a position that was demerged while held.  Amounts are integers, per  *)
(* of them to the rupee: a division makes the unit finer instead.          *)
(***************************************************************************)
EXTENDS ExecutionLedger, SequencesExt

CONSTANT Demergers  \* <<[ex, num, den, prior], ...>>, oldest ex-date first

ASSUME DemergersAssumption ==
  /\ Demergers \in Seq([ex : Nat, num : Nat \ {0}, den : Nat \ {0}, prior : Nat \ {0}])
  /\ \A k \in DOMAIN Demergers : /\ Demergers[k].num <= Demergers[k].den
                                 /\ k > 1 => Demergers[k - 1].ex <= Demergers[k].ex
ASSUME PricesAssumption == Prices \subseteq Nat \ {0}

-----------------------------------------------------------------------------
(* When a fill happened. *)

\* executed_at or created_at.
When(i) == IF events[i].version.at = Unsaid THEN events[i].created ELSE events[i].version.at

\* The price is above the geometric midpoint of the two sides of the ex-date.
AboveMidpoint(i, k) ==
  events[i].version.price * events[i].version.price * Demergers[k].den
    > Demergers[k].prior * Demergers[k].prior * Demergers[k].num

\* _phase: the ex-dates the fill happened after, by its date, less those its
\* price says it was on the other side of.  Mutant: its date alone.
ByDate(i) == Cardinality({k \in DOMAIN Demergers : Demergers[k].ex <= When(i)})
PhaseByDate(i) == ByDate(i)
Phase(i) == Min({p \in 0..ByDate(i) : \A k \in (p + 1)..ByDate(i) : AboveMidpoint(i, k)})

\* The sort of position_state: phase first, then _sort_key.
SortKey(i) == <<Phase(i), When(i), i>>
Precedes(a, b) ==
  \E n \in 1..3 : a[n] < b[n] /\ \A m \in 1..(n - 1) : a[m] = b[m]

InOrder(u, s) ==
  LET keys == {SortKey(i) : i \in Effective(u, s)}
      Nth(n) == CHOOSE k \in keys : Cardinality({l \in keys : Precedes(l, k)}) = n - 1
  IN  [n \in 1..Cardinality(keys) |-> Nth(n)[3]]

-----------------------------------------------------------------------------
(* The walk over the fills.  Paid, proceeds, departed, short and unheld (the  *)
(* gain of the sells that found no share held) are counted for the properties *)
(* alone.                                                                     *)

Opening == [per |-> 1, shares |-> 0, cost |-> 0, bought |-> 0, boughtCost |-> 0, sold |-> 0,
            realized |-> 0, unheld |-> 0, paid |-> 0, proceeds |-> 0, departed |-> 0, short |-> FALSE,
            phase |-> 0]

\* The same amounts, counted in a unit n times finer.
Finer(a, n) ==
  [a EXCEPT !.per = @ * n, !.cost = @ * n, !.boughtCost = @ * n, !.realized = @ * n,
            !.unheld = @ * n, !.paid = @ * n, !.proceeds = @ * n, !.departed = @ * n]

\* cross, one ex-date: what is held keeps the retained part of its cost.
Rebase(a, k) ==
  LET d == Demergers[k]
  IN  IF a.shares = 0 THEN [a EXCEPT !.phase = k]
      ELSE [Finer(a, d.den) EXCEPT !.phase = k,
                                   !.cost = a.cost * d.num,
                                   !.boughtCost = a.boughtCost * d.num,
                                   !.departed = @ + a.cost * (d.den - d.num)]

Cross(a, upto) == FoldLeft(Rebase, a, [k \in 1..(upto - a.phase) |-> a.phase + k])

Buy(a, v) ==
  LET amount == v.qty * v.price * a.per
  IN  [a EXCEPT !.shares = @ + v.qty, !.bought = @ + v.qty,
                !.cost = @ + amount, !.boughtCost = @ + amount, !.paid = @ + amount]

\* What the average is taken of when shares are sold: the cost of those held
\* while any are, then that of all buys, and nothing before the first buy.
\* Mutant: always that of all buys.
AverageOfAll(a) ==
  IF a.bought > 0 THEN [cost |-> a.boughtCost, of |-> a.bought] ELSE [cost |-> 0, of |-> 1]
Average(a) == IF a.shares > 0 THEN [cost |-> a.cost, of |-> a.shares] ELSE AverageOfAll(a)

Sell(a, v) ==
  LET reduce == Min({v.qty, a.shares})
      avg == Average(a)
      b == Finer(a, avg.of)
      amount == v.qty * v.price * b.per
      gain == amount - v.qty * avg.cost
  IN  [b EXCEPT !.realized = @ + gain,
                !.unheld = IF a.shares = 0 THEN @ + gain ELSE @,
                !.proceeds = @ + amount,
                !.cost = @ - reduce * avg.cost,
                !.sold = @ + v.qty,
                !.shares = @ - reduce,
                !.short = @ \/ v.qty > a.shares]

Apply(a, i) ==
  LET v == events[i].version  b == Cross(a, Phase(i))
  IN  IF v.side = "BUY" THEN Buy(b, v) ELSE Sell(b, v)

\* position_state.
State(u, s) == Cross(FoldLeft(Apply, Opening, InOrder(u, s)), Len(Demergers))

\* cost_basis_remaining, an average of all buys for each share that remains,
\* times the shares bought.
CostBasisRemaining(a) == a.boughtCost * Max({0, a.bought - a.sold})

-----------------------------------------------------------------------------
Position == Users \X Signals
StateOf(p) == State(p[1], p[2])
OrderOf(p) == InOrder(p[1], p[2])

\* Every rupee is accounted for: unless a sell went short on the way, what
\* was paid less what left with spun-off shares is the cost of what is held
\* plus what sells returned less their gain; the shares are the remaining
\* quantity, and nothing of the cost outlives the last of them.
EveryRupeeAccounted ==
  \A p \in Position :
    LET a == StateOf(p)
    IN  ~a.short => /\ a.paid - a.departed = a.cost + a.proceeds - a.realized
                    /\ a.shares = RawRemaining(p[1], p[2])
                    /\ a.shares = 0 => a.cost = 0

\* The fill was reported with a price of its own side of every ex-date, at
\* worst late: a price below the midpoint only once the ex-date has passed.
Credible(i) == \A k \in DOMAIN Demergers : AboveMidpoint(i, k) \/ Demergers[k].ex <= When(i)

\* The price is that of a market in which nothing but the demerger moves it.
AtFlatPrice(i) ==
  LET d == Demergers[1]  price == events[i].version.price
  IN  IF AboveMidpoint(i, 1) THEN price = d.prior ELSE price * d.den = d.prior * d.num

\* No phantom gain or loss: where prices moved by the demerger alone, no sell
\* from a holding realizes anything, oversold or not, whichever side of the
\* ex-date fills were made on and however late they were reported
\* (execution_ledger.py:139-144).  Not so a sell that finds no share held, as
\* one does when its buy was reported after it: it is booked at the average
\* of all buys, and before the first of them at nothing (187), so that all it
\* fetched is a gain.
FlatMarketRealizesNothing ==
  \A p \in Position :
    LET a == StateOf(p)
    IN  /\ Len(Demergers) = 1
        /\ \A i \in ToSet(OrderOf(p)) : Credible(i) /\ AtFlatPrice(i)
        => a.realized = a.unheld

BuysFirst(p) ==
  LET o == OrderOf(p)
  IN  \A m, n \in DOMAIN o : m < n /\ events[o[n]].version.side = "BUY"
                               => events[o[m]].version.side = "BUY"

\* The cost basis shown is the cost of the shares still held, through partial
\* sells and demergers, as long as no buy follows a sell.
BasisOfBuysFirst ==
  \A p \in Position :
    LET a == StateOf(p) IN ~a.short /\ BuysFirst(p) => CostBasisRemaining(a) = a.cost * a.bought

-----------------------------------------------------------------------------
(* Corrections that change nothing. *)

\* The step corrected row i by saying the same of the fill again.
Restated(i) ==
  LET new == events'[NextId]
  IN  /\ events' # events
      /\ new.corrects = i
      /\ [new.version EXCEPT !.at = Unsaid] = [events[i].version EXCEPT !.at = Unsaid]

\* Two walks came to the same position, whatever unit each counts in.
SamePosition(a, b) ==
  /\ a.bought = b.bought /\ a.sold = b.sold /\ a.shares = b.shares
  /\ \A f \in {"cost", "boughtCost", "realized", "paid", "proceeds", "departed"} :
       a[f] * b.per = b[f] * a.per

\* A correction takes the place of the row it corrects, so restating a fill
\* changes nothing in a position that never went short.
RestatementIsNeutral ==
  [][\A i \in DOMAIN events :
       LET p == <<events[i].user, events[i].signal>> IN
       IsCurrent(i) /\ Restated(i) /\ ~StateOf(p).short => SamePosition(StateOf(p), StateOf(p)')]_vars

\* Money is conserved and the basis shown is that of the shares held.
PositionInv == EveryRupeeAccounted /\ BasisOfBuysFirst
=============================================================================
