---------------------------- MODULE HeldPosition ----------------------------
(***************************************************************************)
(* One position of the weekly book and a corporate action: the loop of     *)
(* backtest in scripts/run_bhanushali_weekly_rank.py under the live exit   *)
(* plan (config P), and the stage its card shows                           *)
(* (scripts/run_bhanushali_cron.py).                                       *)
(*                                                                         *)
(* The name's listed share keeps 1/Split of its value at a demerger, and   *)
(* each scan replays the position from its entry under the register and    *)
(* the reviews of that day, so a behaviour is a replay: the two files are  *)
(* fixed and bars come in.  Prices are per undivided share until divided.  *)
(* The register is right (a wrong ratio ends the scan), the ex-date's bar  *)
(* moves by the demerger alone and opens no higher, and the owner reviews  *)
(* no demerger as a genuine move.  Costs are left out.                     *)
(***************************************************************************)
EXTENDS Integers, FiniteSetsExt

CONSTANTS Whole,        \* shares at entry
          Entry, Stop,  \* of the position
          Levels,       \* prices of bars
          Split,        \* the listed share keeps one part in Split
          StaleAfter,   \* stale_absent_days
          LastBar       \* bound: sessions

Risk == Entry - Stop
Tranche == (4 * Whole) \div 10  \* tp1_frac, pattern_frac

ASSUME HeldAssumption ==
  /\ {Whole, Entry, Stop, Risk, StaleAfter, LastBar} \cup Levels \subseteq Nat \ {0} /\ Split \in Nat \ {0, 1}
  /\ 10 * Tranche = 4 * Whole /\ Tranche % Split = 0 /\ Whole % Split = 0
  /\ \A p \in Levels \cup {Entry, Stop} : p % Split = 0

VARIABLES
  sess,    \* sessions since the entry
  ex,      \* the demerger's ex-date; 0: none
  filed,   \* "cliff": registered; "smooth": registered, and the vendor has
           \* adjusted the series; "missing": not registered
  passed,  \* its first bar has come
  last,    \* the last close, undivided
  high,    \* the highest of the week, undivided
  held,    \* the position
  whole,   \* the position there would be had nothing been carved out
  carved   \* history: the R of a sale of all at the close before the ex-date

heldVars == <<sess, ex, filed, passed, last, high, held, whole, carved>>

AtEntry ==
  [sh |-> Whole, frac_left |-> Whole, ca_scale |-> 1, en |-> Entry, stop |-> Stop, risk0 |-> Risk,
   realized_r |-> 0, proceeds |-> 0, t1_done |-> FALSE, pt_done |-> FALSE, pk |-> Entry, pk_wh |-> 0,
   pending |-> "none", absent_run |-> 0, last_mark |-> Entry, ca_hold |-> FALSE, ca_view |-> FALSE,
   sold |-> 0, stale |-> FALSE]
StillOpen(p) == p.sh > 0

HeldInit ==
  /\ sess = 0 /\ ex \in 0..LastBar
  /\ filed \in IF ex = 0 THEN {"missing"} ELSE {"cliff", "smooth", "missing"}
  /\ passed = FALSE /\ last \in Levels /\ high = last
  /\ held = AtEntry /\ whole = AtEntry /\ carved = 0

-----------------------------------------------------------------------------
(* A bar's effect on a position. *)

\* Mutant: a later tranche weighs what it would have weighed.
WeightUnscaled(p, shares) == Min({shares, p.frac_left})

\* After a demerger a share carries less of the original value.
Weight(p, shares) == shares \div p.ca_scale

\* Profit per share in the position's risk, times the risk at entry.
Multiple(p, px) == ((px - p.en) * Risk) \div p.risk0

Sell(p, shares, weight, px) ==
  [p EXCEPT !.sh = @ - shares, !.proceeds = @ + shares * px, !.sold = sess + 1,
            !.realized_r = @ + weight * Multiple(p, px), !.frac_left = @ - weight]

SellPart(p, px) == Sell(p, Tranche, Weight(p, Tranche), px)
SellRest(p, px) == Sell(p, p.sh, p.frac_left, px)

\* The exit that the weekly close decided fills at the open.
FillPending(p, bar) ==
  LET q == [p EXCEPT !.pending = "none"]
  IN CASE p.pending = "none" -> p
       [] p.pending = "part" -> SellPart(q, bar.open)
       [] OTHER -> SellRest(q, bar.open)

\* The first tranche is a resting limit at 2R.
Target(p, bar) ==
  IF ~p.t1_done /\ bar.high >= p.en + 2 * p.risk0
  THEN [SellPart(p, p.en + 2 * p.risk0) EXCEPT !.t1_done = TRUE] ELSE p

\* The weekly close: the stop, the blow-off pattern once 2.5R were seen, the
\* break of the average.
Decide(p, bar) ==
  LET q == [p EXCEPT !.pk = Max({@, bar.high})]
      stopped == bar.close <= q.stop
      pattern == /\ ~q.pt_done /\ 2 * (q.pk - q.en) >= 5 * q.risk0
                 /\ bar.week >= q.pk_wh /\ bar.weak
      exit == CASE stopped -> "full"
                [] ~stopped /\ pattern -> "part"
                [] ~stopped /\ ~pattern /\ bar.broken -> "full"
                [] OTHER -> "none"
  IN [q EXCEPT !.pending = exit, !.pt_done = @ \/ exit = "part", !.pk_wh = Max({@, bar.week})]

\* _ca_hold_check: a drop of CA_HOLD_DROP that nothing explains.  A position
\* that reads the adjusted view is no longer watched.
Alarming(p, bar, px) == ~p.ca_view /\ ~bar.reviewed /\ 100 * px <= 85 * bar.prev

Hold(p) == [p EXCEPT !.ca_hold = TRUE]
AfterFill(p, bar) ==
  LET q == Target(p, bar)
  IN IF ~StillOpen(p) THEN p
     ELSE IF Alarming(q, bar, bar.close) THEN Hold(q)
     ELSE IF bar.ends THEN Decide(q, bar) ELSE q

\* Mutant: the open is looked at after what was to fill at it.
ManageFillFirst(p, bar) ==
  LET q == [p EXCEPT !.absent_run = 0, !.last_mark = bar.close]
  IN IF q.ca_hold THEN q
     ELSE LET f == FillPending(q, bar)
          IN IF StillOpen(f) /\ Alarming(f, bar, bar.open) THEN Hold(f) ELSE AfterFill(f, bar)

\* One session of a position that has a bar; a held one is frozen.
Manage(p, bar) ==
  LET q == [p EXCEPT !.absent_run = 0, !.last_mark = bar.close]
  IN IF q.ca_hold \/ Alarming(q, bar, bar.open) THEN Hold(q) ELSE AfterFill(FillPending(q, bar), bar)

\* One without: after StaleAfter of them it is closed at its last mark.
Wait(p) ==
  LET q == [p EXCEPT !.absent_run = @ + 1]
  IN IF q.absent_run < StaleAfter THEN q ELSE [SellRest(q, q.last_mark) EXCEPT !.stale = TRUE]

\* What the carve-out realises of a position, in R.
CreditR(p, pre) == (p.frac_left - p.frac_left \div Split) * Multiple(p, pre)

\* _apply_demerger: the slice is realised at the prior close, and every level
\* of what is left is scaled.
ApplyDemerger(p, pre) ==
  [p EXCEPT !.realized_r = @ + CreditR(p, pre),
            !.proceeds = @ + p.sh * (pre - pre \div Split),
            !.frac_left = @ \div Split, !.ca_scale = @ * Split, !.ca_view = TRUE,
            !.en = @ \div Split, !.stop = @ \div Split, !.risk0 = @ \div Split,
            !.pk = @ \div Split, !.pk_wh = @ \div Split, !.last_mark = @ \div Split]

-----------------------------------------------------------------------------
(* The bars. *)

Demerged(d) == ex # 0 /\ d >= ex

\* What the listed share's bar says, when the vendor has not smoothed it away.
Divided(bar) ==
  [bar EXCEPT !.open = @ \div Split, !.high = @ \div Split, !.close = @ \div Split,
              !.week = @ \div Split, !.prev = IF passed THEN @ \div Split ELSE @]

Series(bar) == IF Demerged(sess + 1) /\ filed # "smooth" THEN Divided(bar) ELSE bar

\* A registered ex-date, on its first bar, re-bases a position held into it
\* unless the series shows no cliff.
IntoDemerger(p, bar) ==
  IF /\ filed # "missing" /\ Demerged(sess + 1) /\ ~passed
     /\ 100 * bar.close <= 95 * bar.prev
  THEN ApplyDemerger(p, bar.prev) ELSE p

Bars(prev) ==
  {bar \in [open : Levels, high : Levels, close : Levels, week : Levels \cup {high}, prev : {prev},
            ends : BOOLEAN, weak : BOOLEAN, broken : BOOLEAN, reviewed : BOOLEAN] :
     /\ bar.high >= Max({bar.open, bar.close}) /\ bar.week = Max({high, bar.high})
     /\ bar.weak => bar.ends /\ bar.close < bar.week
     /\ bar.broken => bar.ends
     /\ bar.reviewed => 100 * Min({bar.open, bar.close}) <= 85 * prev
     /\ Demerged(sess + 1) /\ ~passed => bar.close = prev /\ bar.open <= prev /\ ~bar.reviewed}

Bar ==
  /\ sess < LastBar /\ StillOpen(held)
  /\ \E bar \in Bars(last) :
       LET seen == Series(bar)
           p == IntoDemerger(held, seen)
           divides == p.ca_view /\ ~held.ca_view
       IN  /\ held' = Manage(p, seen)
           /\ whole' = IF filed = "missing" THEN whole
                       ELSE Manage([whole EXCEPT !.ca_view = p.ca_view], bar)
           /\ carved' = IF divides THEN held.realized_r + held.sh * (last - Entry) ELSE carved
           /\ last' = bar.close
           /\ high' = IF bar.ends THEN 0 ELSE bar.week
  /\ passed' = Demerged(sess + 1)
  /\ sess' = sess + 1
  /\ UNCHANGED <<ex, filed>>

NoBar ==
  /\ sess < LastBar /\ StillOpen(held)
  /\ held' = Wait(held)
  /\ whole' = IF filed = "missing" THEN whole ELSE Wait(whole)
  /\ sess' = sess + 1
  /\ UNCHANGED <<ex, filed, passed, last, high, carved>>

HeldNext == Bar \/ NoBar
HeldSpec == HeldInit /\ [][HeldNext]_heldVars

-----------------------------------------------------------------------------
(* The card. *)

\* _exit_stage: read in shares, so that a demerger has sold none.
SharesSold(p) == Whole - p.frac_left * p.ca_scale
Stage(p) ==
  [target |-> SharesSold(p) >= Tranche, pattern |-> SharesSold(p) >= 2 * Tranche,
   queued |-> p.pending]

-----------------------------------------------------------------------------
HeldTypeOK ==
  /\ sess \in 0..LastBar /\ ex \in 0..LastBar /\ filed \in {"cliff", "smooth", "missing"}
  /\ passed \in BOOLEAN /\ last \in Levels /\ high \in Levels \cup {0}
  /\ \A p \in {held, whole} :
       /\ p.sh \in 0..Whole /\ p.frac_left \in 0..Whole /\ p.proceeds \in Nat /\ p.realized_r \in Int
       /\ p.pending \in {"none", "part", "full"} /\ p.absent_run \in 0..StaleAfter

\* The R a trade is recorded with is its money: what was received for it less
\* what was paid for the part that has left, a carve-out included, and what it
\* still weighs is what it still holds.
RIsMoney ==
  /\ held.frac_left * held.ca_scale = held.sh
  /\ held.realized_r = held.proceeds - (Whole * Entry - held.sh * held.en)

\* "the flags and fraction_remaining cannot disagree": a card names exactly
\* the tranches whose shares have left, and queues the one that has not.
StageAgrees ==
  StillOpen(held) =>
    /\ Stage(held).target = held.t1_done
    /\ Stage(held).pattern = (held.pt_done /\ Stage(held).queued # "part")

\* "an unregistered one would still be stopped out on the re-based price": no
\* share of a position held into an unregistered demerger is sold after it,
\* except by a suspension (which also ends what is frozen).
NoPhantomLoss ==
  filed = "missing" /\ ex # 0 => held.sold < ex \/ held.stale

\* "Net effect, exactly: the original trade, with (1 - r) of its remaining
\* exposure closed at the prior close": the re-based position leaves when the
\* undivided one would have, and its R is their weighted mean; a demerger the
\* vendor has smoothed away changes nothing.
CarveOutIsExact ==
  filed # "missing" =>
    /\ \A k \in {"sh", "t1_done", "pt_done", "pending", "ca_hold", "sold"} : held[k] = whole[k]
    /\ IF held.ca_view THEN Split * held.realized_r = whole.realized_r + (Split - 1) * carved
                       ELSE held = whole

\* The position's books.
HeldInv == HeldTypeOK /\ RIsMoney /\ StageAgrees

\* What a demerger does to it.
DemergerInv == NoPhantomLoss /\ CarveOutIsExact
=============================================================================
