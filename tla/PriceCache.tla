------------------------------ MODULE PriceCache ------------------------------
(***************************************************************************)
(* One name in the price cache of a month, which two jobs refresh: the     *)
(* daily wall (scripts/run_paper_cron.py, scripts/ensure_ohlcv_depth.py)   *)
(* and the weekly scan (_refresh_ohlcv of scripts/run_bhanushali_cron.py,  *)
(* nq/data/history_guard.py), over nq/data/ohlcv.py.                       *)
(*                                                                         *)
(* The vendor re-bases the bars before every ex-date, and may shorten a    *)
(* series.  A bar is abstracted to the ex-dates it is adjusted for.  A job *)
(* that fails before its end leaves no cache, and one that fails before    *)
(* its push publishes nothing: such a run is no step.  The two jobs do not *)
(* overlap, some other name always answers, every day is a session, the    *)
(* starts of the full fetches are one, and the adjustment guard, blind to  *)
(* ex-dates later than its reference, is a scan that fails.                *)
(***************************************************************************)
EXTENDS Integers, FiniteSets, FiniteSetsExt

CONSTANTS FirstRun,    \* the day the jobs begin; the history begins on day 1
          LastRun,     \* bound: days
          FirstScan,   \* the day of the first scan
          Week,        \* days between scans
          MonthDays,   \* days of a month
          ScanWindow,  \* days a scan's top-up goes back
          WallWindow,  \* days the wall's top-up goes back
          FullBars,    \* a full fetch drops a shorter series
          WarmBars,    \* MIN_CACHED_BARS
          MinWeeks,    \* MIN_WEEKS, what the history guard asks for
          SignalWeeks, \* weeks a signal needs: an average, and its slope
          CutDays,     \* days a shortened series may begin
          MaxSplits    \* bound: ex-dates

\* A scan's top-up goes back a week further than the wall's.
ASSUME PriceAssumption ==
  /\ {FirstRun, LastRun, FirstScan, Week, MonthDays, ScanWindow, WallWindow, FullBars, WarmBars,
      MinWeeks, SignalWeeks} \subseteq Nat \ {0}
  /\ FirstScan \in FirstRun..(FirstRun + Week - 1)
  /\ WallWindow + Week <= ScanWindow /\ ScanWindow < FirstRun /\ FullBars <= FirstRun
  /\ CutDays \subseteq Nat \ {0} /\ MaxSplits \in Nat

VARIABLES
  clock,     \* today
  nextScan,  \* the day of the next scan
  exdates,   \* ex-dates so far
  served,    \* first day the vendor serves
  basis,     \* the month's cache: the ex-dates each cached bar is adjusted for
  begun,     \* the month's cache has some name
  deepened,  \* the month's cache reaches as far back as the wall needs
  kept,      \* a scan of today has saved its cache
  spliced,   \* the last published scan: the ex-dates its bars disagree about
  trade,     \* entry day of the open trade; 0: none
  lost       \* history: the months in which a scan lost its work

priceVars == <<clock, nextScan, exdates, served, basis, begun, deepened, kept, spliced, trade, lost>>

NoBars == [d \in {} |-> {}]
Month(d) == d \div MonthDays

PriceInit ==
  /\ clock = FirstRun /\ nextScan = FirstScan /\ exdates = {} /\ served = 1
  /\ basis = NoBars /\ begun = FALSE /\ deepened = FALSE
  /\ kept = FALSE /\ spliced = {} /\ trade = 0 /\ lost = {}

-----------------------------------------------------------------------------
(* The vendor and the cache. *)

\* The series from a day on, or nothing when it is too short or not answered.
Download(answered, from, bars) ==
  LET days == {d \in from..clock : d >= served}
  IN IF answered /\ Cardinality(days) >= bars
     THEN [d \in days |-> {s \in exdates : s > d}] ELSE NoBars

\* New bars win.
MergeBars(old, new) ==
  [d \in DOMAIN old \union DOMAIN new |-> IF d \in DOMAIN new THEN new[d] ELSE old[d]]

\* A split between the two fetches shows on the first day both have.  Mutant:
\* on the last one.
ReadjustedLast(old, new) ==
  LET both == DOMAIN old \intersect DOMAIN new
  IN both # {} /\ old[Max(both)] # new[Max(both)]
Readjusted(old, new) ==
  LET both == DOMAIN old \intersect DOMAIN new
  IN both # {} /\ old[Min(both)] # new[Min(both)]

FullFetch(answered) == Download(answered, 1, FullBars)

\* The wall's refresh.  Mutant: its top-up goes as far back as a scan's.
WallFreshWide(answered) ==
  IF begun THEN Download(answered, clock - ScanWindow, 1) ELSE FullFetch(answered)
WallFresh(answered) ==
  IF begun THEN Download(answered, clock - WallWindow, 1) ELSE FullFetch(answered)

\* The scan's.
ScanCache(answered, again) ==
  IF Cardinality(DOMAIN basis) < WarmBars THEN MergeBars(basis, FullFetch(answered))
  ELSE LET fresh == Download(answered, clock - ScanWindow, 1)
           merged == MergeBars(basis, fresh)
       IN IF Readjusted(basis, fresh) THEN MergeBars(merged, FullFetch(again)) ELSE merged

\* Cached bars before an ex-date and not adjusted for it, and the ex-dates
\* about which bars disagree.
Stale(bars, s) == {d \in DOMAIN bars : d < s /\ s \notin bars[d]}
Disagreed(bars) ==
  {s \in exdates : Stale(bars, s) # {} /\ \E e \in DOMAIN bars : e >= s \/ s \in bars[e]}

-----------------------------------------------------------------------------
(* The weekly rebuild. *)

WeeksOf(days) == {d \div Week : d \in days}

\* The history guard: a name with an open trade has weeks enough.  It also
\* asks that the series does not begin later than before the refresh, which a
\* merge never does.  Mutant: it asks for one bar.
GuardedBar(bars) == trade # 0 => bars # NoBars
Guarded(bars) == trade # 0 => Cardinality(WeeksOf(DOMAIN bars)) >= MinWeeks

\* The rebuild finds a trade again when the weeks up to its entry are there.
Found(bars, entry) == Cardinality(WeeksOf({d \in DOMAIN bars : d <= entry})) >= SignalWeeks

\* The history before the first run is long enough for a signal, and what the
\* top-ups of a month leave by themselves is too short for the guard.
ASSUME WeeksAssumption ==
  /\ Cardinality(WeeksOf(1..FirstRun)) >= SignalWeeks
  /\ MonthDays - 1 + ScanWindow <= Week * (MinWeeks - 2)

-----------------------------------------------------------------------------
\* The wall's two fetches: the second once a month.
WallRun ==
  \E answered, again \in BOOLEAN :
    LET bars == MergeBars(basis, WallFresh(answered)) IN
      /\ basis' = IF deepened THEN bars ELSE MergeBars(bars, FullFetch(again))
      /\ begun' = TRUE /\ deepened' = TRUE
      /\ UNCHANGED <<clock, nextScan, exdates, served, kept, spliced, trade, lost>>

\* The trade the rebuild leaves: the one it finds again, or a new one.  Exits
\* are left out.
Rebuilt(bars) ==
  IF trade # 0 THEN {IF Found(bars, trade) THEN trade ELSE 0}
  ELSE {0} \union {e \in DOMAIN bars : e = clock /\ Found(bars, e)}

\* A scan.  After its push a later step may still fail, and the cache with it.
Scan ==
  /\ clock = nextScan /\ ~kept
  /\ \E answered, again, green \in BOOLEAN :
       LET bars == ScanCache(answered, again) IN
         /\ Guarded(bars)
         /\ spliced' = Disagreed(bars)
         /\ trade' \in Rebuilt(bars)
         /\ IF green THEN basis' = bars /\ begun' = TRUE ELSE UNCHANGED <<basis, begun>>
         /\ kept' = green
         /\ lost' = IF answered /\ again THEN lost ELSE lost \union {Month(clock)}
         /\ UNCHANGED <<clock, nextScan, exdates, served, deepened>>

\* What the vendor does overnight.
Splits == IF Cardinality(exdates) < MaxSplits THEN {exdates, exdates \union {clock + 1}} ELSE {exdates}
Cuts == {served} \union {d \in CutDays : served = 1 /\ d <= clock + 1}

\* The cache's key names the month.
SameKey == Month(clock + 1) = Month(clock)

NextDay ==
  /\ clock < LastRun
  /\ clock' = clock + 1
  /\ nextScan' = IF clock = nextScan THEN nextScan + Week ELSE nextScan
  /\ exdates' \in Splits
  /\ served' \in Cuts
  /\ IF SameKey THEN UNCHANGED <<basis, begun, deepened>>
     ELSE basis' = NoBars /\ begun' = FALSE /\ deepened' = FALSE
  /\ kept' = FALSE
  /\ lost' = IF clock = nextScan /\ ~kept THEN lost \union {Month(clock)} ELSE lost
  /\ UNCHANGED <<spliced, trade>>

PriceNext == WallRun \/ Scan \/ NextDay
PriceSpec == PriceInit /\ [][PriceNext]_priceVars

-----------------------------------------------------------------------------
PricesTypeOK ==
  /\ clock \in Nat /\ FirstRun <= clock /\ nextScan \in clock..(clock + Week - 1)
  /\ exdates \subseteq 1..clock /\ served \in Nat \ {0} /\ trade \in 0..clock
  /\ DOMAIN basis \subseteq 1..clock
  /\ basis = [d \in DOMAIN basis |-> basis[d]]
  /\ \A d \in DOMAIN basis : basis[d] \subseteq exdates
  /\ begun \in BOOLEAN /\ deepened \in BOOLEAN /\ kept \in BOOLEAN
  /\ ~begun => basis = NoBars
  /\ kept => clock = nextScan

\* A bar the vendor has re-based since it was cached lives no longer than the
\* month of the ex-date.
StaleInMonth == \A s \in exdates : Stale(basis, s) # {} => Month(s) = Month(clock)

\* The scan that comes next.
ScanAhead == IF kept THEN nextScan + Week ELSE nextScan

\* The first of the bars from a day on is stale if any bar is, and lies before
\* whatever a later top-up of the wall may re-base.
FirstTells(bars, from) ==
  \E m \in DOMAIN bars :
    /\ from <= m /\ m <= clock - WallWindow
    /\ \A e \in DOMAIN bars : e >= from => m <= e
    /\ \A s \in exdates : Stale(bars, s) # {} => s \notin bars[m] /\ m < s - WallWindow

\* While no scan of the month has lost its work and the vendor serves the
\* whole series, the next scan's top-up will show any stale bar.
NextScanSees ==
  served = 1 /\ Month(clock) \notin lost /\ basis # NoBars => FirstTells(basis, ScanAhead - ScanWindow)

PricesInv == PricesTypeOK /\ StaleInMonth /\ NextScanSees

\* A scan publishes a series that mixes prices from before and after a split
\* only in a month in which some scan was skipped, halted, failed late or was
\* not answered, or after the vendor cut the series: scan and wall share the
\* cache, and only the scan looks for splits.
SplicesAreLost == served = 1 => \A s \in spliced : Month(s) \in lost

\* An open trade is erased only when the vendor cut the series and what is left
\* is long enough to pass the guard, though it begins too late for the entry: a
\* name that is missing or thin for any other reason halts the scan.
TradeKept ==
  [][trade # 0 /\ trade' # trade => served > 1 /\ Cardinality(WeeksOf(served..clock)) >= MinWeeks]_priceVars

\* What the first line of history_guard.py promises: a vendor that shortens a
\* name's history must not erase an open trade.
OpenTradeStays == [][trade # 0 => trade' = trade]_priceVars
=============================================================================
