----------------------------- MODULE WeeklyBook -----------------------------
(***************************************************************************)
(* One name in the weekly book of scripts/run_bhanushali_weekly_rank.py,   *)
(* under the live exit plan (config P), and what the Saturday scan of      *)
(* scripts/run_bhanushali_cron.py publishes about it.                      *)
(*                                                                         *)
(* Each scan replays the book from inception over the bars, so the book is *)
(* a function of the sessions seen; here it advances with them.  A weekly  *)
(* close may signal a buy for the following week and may decide an exit of *)
(* what is held, whole or in part, that fills at the name's next open.     *)
(* Prices only decide which of these happens, so they are choices here.    *)
(* Corporate actions and their holds are left out.                         *)
(***************************************************************************)
EXTENDS Integers, FiniteSets, FiniteSetsExt

CONSTANTS LastDay,      \* bound: sessions of the exchange are 1..LastDay
          WeekEnds,    \* the last session of each week
          StaleAbsent  \* stale_absent_days

ASSUME CalendarAssumption == LastDay \in Nat /\ WeekEnds \subseteq 1..LastDay
ASSUME StaleAssumption == StaleAbsent \in Nat \ {0}

VARIABLES
  latest,    \* the last session that has closed
  bars,      \* sessions in which the name traded
  book,      \* the replayed position; entry 0 when the book is flat
  signal,    \* last_signal: the weekly close of the open setup, 0 if none
  resting,   \* the order of that setup can still fill
  record,    \* closed trades, as entry and exit session
  envelope   \* the last published scan

market == <<latest, bars, book, signal, resting, record>>
bookVars == <<market, envelope>>

None == 0
Flat == [entry |-> None, pending |-> "none", part |-> FALSE, absent |-> 0]
Held(b) == b.entry # None

LastBar == IF bars = {} THEN None ELSE Max(bars)
Week(d) == Cardinality({e \in WeekEnds : e < d})

BookInit ==
  /\ latest = 0 /\ bars = {} /\ book = Flat /\ signal = None /\ resting = FALSE
  /\ record = {}
  /\ envelope = [gen |-> 0, buy |-> None, hold |-> None, exit |-> "none", closed |-> {}]

-----------------------------------------------------------------------------
(* A session of the exchange. *)

\* A held name that has a bar: a pending exit fills at the open.
AtOpen(b) ==
  IF b.pending = "full" THEN Flat ELSE [b EXCEPT !.pending = "none", !.absent = 0]

\* A held name without one waits, and after StaleAbsent sessions is closed at
\* the last traded price.
Absent(b) ==
  IF ~Held(b) THEN b
  ELSE IF b.absent + 1 = StaleAbsent THEN Flat ELSE [b EXCEPT !.absent = @ + 1]

\* What the weekly close can decide; the pattern tranche is sold once.
Decisions(b) == IF b.part THEN {"none", "full"} ELSE {"none", "full", "part"}

Decide(b, d) == [b EXCEPT !.pending = d, !.part = @ \/ d = "part"]

\* The week ends with day d for a name whose last bar is in it.
ClosesWeek(d, bar) == d \in WeekEnds /\ bar # None /\ Week(bar) = Week(d)

\* A resting order fills at the open, inside its band, of a name not held.
MayFill(b, traded) == traded /\ resting /\ ~Held(b)

\* The weekly close either sets up a buy, dated by the name's last bar, or not.
Setups(closing, bar) == IF closing THEN {None, bar} ELSE {signal}

Session(traded) ==
  /\ latest < LastDay
  /\ latest' = latest + 1
  /\ bars' = IF traded THEN bars \union {latest'} ELSE bars
  /\ LET b == IF traded THEN AtOpen(book) ELSE Absent(book)
         bar == IF traded THEN latest' ELSE LastBar
         closing == ClosesWeek(latest', bar)
     IN  /\ record' = IF Held(book) /\ ~Held(b)
                      THEN record \union {[entry |-> book.entry, exit |-> latest']} ELSE record
         /\ \E fills \in {f \in BOOLEAN : f => MayFill(b, traded)} :
              LET c == IF fills THEN [Flat EXCEPT !.entry = latest'] ELSE b
              IN  /\ \E d \in IF closing /\ Held(c) /\ c.entry # bar THEN Decisions(c) ELSE {c.pending} :
                       book' = Decide(c, d)
                  /\ signal' \in Setups(closing, bar)
                  /\ resting' = IF closing THEN signal' # None
                                ELSE resting /\ ~(traded /\ Held(c))
  /\ UNCHANGED envelope

(* The Saturday scan. *)

\* A scan publishes only what is newer than the last envelope; one that finds
\* no new session fails, or publishes the same again.
DataAdvanced == envelope.gen < latest

\* A signal on a held name gets no buy card; an exit that waits for its open
\* is on the hold card; the history lists every closed trade of the replay.
BuyCard == IF Held(book) THEN None ELSE signal
HoldCard == [entry |-> book.entry, exit |-> book.pending]
History == record

Scan ==
  /\ latest \in WeekEnds /\ DataAdvanced
  /\ envelope' = [gen |-> latest, buy |-> BuyCard, hold |-> HoldCard.entry,
                  exit |-> HoldCard.exit, closed |-> History]
  /\ UNCHANGED market

-----------------------------------------------------------------------------
BookTypeOK ==
  LET Position == [entry : 0..LastDay, pending : {"none", "part", "full"},
                   part : BOOLEAN, absent : 0..(StaleAbsent - 1)]
      Trades == [entry : 1..LastDay, exit : 1..LastDay]
  IN  /\ latest \in 0..LastDay /\ bars \subseteq 1..latest
      /\ book \in Position /\ (book.pending # "none" => Held(book))
      /\ signal \in WeekEnds \union bars \union {None} /\ resting \in BOOLEAN
      /\ record \subseteq Trades
      /\ envelope.gen \in WeekEnds \union {0}
      /\ envelope.buy \in 0..LastDay /\ envelope.hold \in 0..LastDay
      /\ envelope.exit \in {"none", "part", "full"} /\ envelope.closed \subseteq record
=============================================================================
