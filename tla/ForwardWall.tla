---------------------------- MODULE ForwardWall ----------------------------
(***************************************************************************)
(* The forward wall: the daily run of scripts/run_paper_cron.py and        *)
(* nq/paper/wall_cron.update_wall against one state directory.             *)
(*                                                                         *)
(* One run steps the base paper book over every new session and saves it,  *)
(* fixes the wall's registered start if there is none, steps and saves the *)
(* veto book, and then appends hash-chained rows: a gap for each trading   *)
(* day it missed, and one ok row.  Each saved file is a separate write, so *)
(* a run can die between any two of them and the next run starts from      *)
(* whatever files it left.  Prices enter as the base book's NAV after each *)
(* session, on a log scale, so returns are differences of NAVs; HashChain  *)
(* models the chain, so here a row is its payload.                         *)
(***************************************************************************)
EXTENDS Integers, Sequences, FiniteSets, Functions

CONSTANTS MaxDay,       \* bound: the days modelled are 1..MaxDay
          Calendar,     \* trading days of NSE_HOLIDAYS and the weekday rule
          Sessions,     \* days on which the exchange did trade
          CalendarEnd,  \* NSE_HOLIDAYS_COVERED_THROUGH at the start
          Inception,    \* the paper book's first day (--start)
          PreregDay,    \* WALL_PREREG_DATE
          Window,       \* DRIFT_WINDOW
          Navs,         \* log NAVs the base book can reach; it starts at 0
          Backfill,     \* --allow-wall-backfill
          MaxCrashes    \* bound: runs that die half way

Days == 1..MaxDay

ASSUME DaysAssumption == MaxDay \in Nat /\ Calendar \subseteq Days /\ Sessions \subseteq Days
ASSUME MarksAssumption == Inception \in Nat /\ PreregDay \in Nat /\ CalendarEnd \in Nat
ASSUME DataAssumption == Navs \subseteq Int /\ Window \in Nat /\ Backfill \in BOOLEAN
ASSUME CrashesAssumption == MaxCrashes \in Nat

VARIABLES
  today, calendarEnd,        \* the date; NSE_HOLIDAYS_COVERED_THROUGH
  bars, covered,             \* sessions the OHLCV cache holds; last session of
                             \* the factor panel, 0 if there is none
  base, veto, anchor, wall,  \* the files: base book's NAV curve, veto book's,
                             \* forward_wall_start.json, forward_wall.csv
  pc, toLog,                 \* the run: what it does next, sessions to log
  crashes

outside == <<today, calendarEnd, bars, covered>>
files == <<base, veto, anchor, wall>>
vars == <<outside, files, pc, toLog, crashes>>

NoAnchor == 0
Full == 2          \* exposures in halves: drift_mult 1.0 ...
Degrossed == 1     \* ... and DRIFT_DEGROSS 0.5

\* The last and the first of a set, and whether a curve has stepped past a day.
IsLast(d, S) == d \in S /\ \A e \in S : e <= d
IsFirst(d, S) == d \in S /\ \A e \in S : d <= e
After(S, d) == \A e \in S : e < d

Extend(f, g) == [d \in DOMAIN f \union DOMAIN g |-> IF d \in DOMAIN f THEN f[d] ELSE g[d]]

-----------------------------------------------------------------------------
(* The rows of the wall. *)

\* _daily_from_curve: the return of session d against the curve's previous
\* NAV, or against the initial capital.
Newest(S) == CHOOSE d \in S : IsLast(d, S)
Ret(d) ==
  LET before == {e \in DOMAIN base : e < d}
  IN  base[d] - (IF before = {} THEN 0 ELSE base[Newest(before)])

\* The row of session d; NAVs are in half log units, as exposures are halves.
OkRow(d, mult, drift) ==
  [date |-> d, status |-> "ok", ret |-> Ret(d), nav |-> Full * base[d],
   veto |-> veto[d], mult |-> mult, drift |-> drift]

GapRow(d) ==
  [date |-> d, status |-> "gap", ret |-> 0, nav |-> 0,
   veto |-> "none", mult |-> 0, drift |-> 0]

LastDate == IF wall = <<>> THEN 0 ELSE wall[Len(wall)].date
OkIndices(w) == {i \in DOMAIN w : w[i].status = "ok"}

\* _drift_mult: full exposure until Window ok rows are logged, then full
\* unless the last Window logged base returns compound to a loss.
DriftMult(w) ==
  LET ok == OkIndices(w)
      recent == {i \in ok : Cardinality({j \in ok : j >= i}) <= Window}
  IN  IF Cardinality(ok) < Window \/ SumFunctionOnSet([i \in recent |-> w[i].ret], recent) >= 0
      THEN Full ELSE Degrossed

\* drift_equity of the last ok row; the initial capital before the first.
DriftNav(w) ==
  IF OkIndices(w) = {} THEN 0
  ELSE w[Newest(OkIndices(w))].drift

\* Mutant: the day after the last row is never looked at.
MissingAfterNext(d) ==
  {e \in Calendar : wall # <<>> /\ LastDate + 1 < e /\ e < d}

\* Trading days strictly between the last row and d; none on an empty wall.
MissingBefore(d) ==
  {e \in Calendar : wall # <<>> /\ LastDate < e /\ e < d}

-----------------------------------------------------------------------------
Init ==
  /\ today = 1 /\ calendarEnd = CalendarEnd /\ bars = {} /\ covered = 0
  /\ base = <<>> /\ veto = <<>> /\ anchor = NoAnchor /\ wall = <<>>
  /\ pc = "idle" /\ toLog = {} /\ crashes = 0

(* Around the runs: days pass, the published calendar is extended, the       *)
(* OHLCV cache gains sessions (a late one may arrive after its successor),   *)
(* the factor panel is rebuilt from it.                                      *)

NextDay ==
  /\ today < MaxDay
  /\ today' = today + 1
  /\ UNCHANGED <<calendarEnd, bars, covered, files, pc, toLog, crashes>>

\* A release of config.py whose holiday list reaches up to day d.
ExtendCalendar(d) ==
  /\ pc = "idle" /\ d > calendarEnd
  /\ calendarEnd' = d
  /\ UNCHANGED <<today, bars, covered, files, pc, toLog, crashes>>

\* The cache holds bars of sessions.
Traded(d) == d \in Sessions

BarsArrive(d) ==
  /\ pc = "idle" /\ Traded(d) /\ d \notin bars /\ d <= today
  /\ bars' = bars \union {d}
  /\ UNCHANGED <<today, calendarEnd, covered, files, pc, toLog, crashes>>

BuildFactors(d) ==
  /\ pc = "idle" /\ d \in bars /\ d > covered
  /\ covered' = d
  /\ UNCHANGED <<today, calendarEnd, bars, files, pc, toLog, crashes>>

(* One run, file by file. *)

\* PaperBook.load: the book starts where the file left it.
Load == base

\* load, step every session after the last stepped one, save paper_state.json.
StepBase ==
  /\ pc = "idle"
  /\ LET new == {d \in bars : d >= Inception /\ After(DOMAIN Load, d)}
     IN  /\ new # {} \/ DOMAIN Load # {}
         /\ \E nav \in [new -> Navs] : base' = Extend(Load, nav)
  /\ pc' = "anchor"
  /\ UNCHANGED <<outside, veto, anchor, wall, toLog, crashes>>

\* The start file exists.  Mutant: it is not looked for.
RegisteredNever == FALSE
Registered == anchor # NoAnchor

\* _wall_start: read the registered start, or write it once: the last session
\* of the book.  Before the pre-registration it raises and the wall is skipped.
Anchor ==
  /\ pc = "anchor"
  /\ \E d \in DOMAIN base :
       /\ IsLast(d, DOMAIN base)
       /\ IF Registered THEN UNCHANGED anchor /\ pc' = "veto"
          ELSE IF d < PreregDay THEN UNCHANGED anchor /\ pc' = "idle"
          ELSE anchor' = d /\ pc' = "veto"
  /\ UNCHANGED <<outside, base, veto, wall, toLog, crashes>>

\* _step_veto_book: without a factor panel it raises before loading anything;
\* otherwise the veto book steps the base book's window and is saved.  On a
\* session past the panel no name is vetoed and the step is inert.
StepVeto ==
  /\ pc = "veto"
  /\ IF covered = 0 THEN pc' = "idle" /\ UNCHANGED veto
     ELSE \E first, last \in DOMAIN base :
            /\ IsFirst(first, DOMAIN base) /\ IsLast(last, DOMAIN base)
            /\ LET new == {d \in bars : /\ first <= d /\ d <= last
                                        /\ After(DOMAIN veto, d)}
               IN  veto' = Extend(veto, [d \in new |->
                             IF d <= covered THEN "vetoed" ELSE "inert"])
            /\ pc' = "plan"
  /\ UNCHANGED <<outside, base, anchor, wall, toLog, crashes>>

\* update_wall: unlogged sessions of both books from the registered start.
Todo == {d \in DOMAIN base \intersect DOMAIN veto : d >= anchor /\ d > LastDate}

\* _assert_veto_arm_live.  Mutant: the panel's last session counts as stale.
PanelPast(S) == \A d \in S : d < covered
PanelCovers(S) == \A d \in S : d <= covered

\* All unlogged sessions under Backfill, else only the newest.  Mutant: all.
ChosenAll == Todo
Chosen == IF Backfill THEN Todo ELSE {d \in Todo : IsLast(d, Todo)}

\* If the panel misses one session, none is logged.
Plan ==
  /\ pc = "plan"
  /\ IF Todo # {} /\ PanelCovers(Todo)
     THEN toLog' = Chosen /\ pc' = "log"
     ELSE pc' = "idle" /\ UNCHANGED toLog
  /\ UNCHANGED <<outside, files, crashes>>

\* record_trading_day refuses a date the calendar does not cover.
RefuseUncovered ==
  /\ pc = "log"
  /\ \E d \in toLog : IsFirst(d, toLog) /\ d > calendarEnd
  /\ pc' = "idle" /\ toLog' = {}
  /\ UNCHANGED <<outside, files, crashes>>

AppendGap ==
  /\ pc = "log"
  /\ \E d \in toLog : /\ IsFirst(d, toLog) /\ d <= calendarEnd
                      /\ \E g \in MissingBefore(d) :
                           /\ IsFirst(g, MissingBefore(d))
                           /\ wall' = Append(wall, GapRow(g))
  /\ UNCHANGED <<outside, base, veto, anchor, pc, toLog, crashes>>

\* The exposure of session d, from the rows before it.  Mutant: d's own counts.
MultWithToday(d) == DriftMult(Append(wall, OkRow(d, Full, 0)))
Mult(d) == DriftMult(wall)

\* One row of record_trading_day.  append_row would refuse a date that is not
\* past the last row's; it never has to, which WallOrdered checks.
AppendOk ==
  /\ pc = "log"
  /\ \E d \in toLog :
       /\ IsFirst(d, toLog) /\ d <= calendarEnd
       /\ MissingBefore(d) = {}
       /\ wall' = Append(wall, OkRow(d, Mult(d), DriftNav(wall) + Mult(d) * Ret(d)))
       /\ toLog' = toLog \ {d}
       /\ pc' = IF toLog' = {} THEN "idle" ELSE "log"
  /\ UNCHANGED <<outside, base, veto, anchor, crashes>>

\* The run dies; what it had not written is lost.
Crash ==
  /\ pc # "idle" /\ crashes < MaxCrashes
  /\ pc' = "idle" /\ toLog' = {} /\ crashes' = crashes + 1
  /\ UNCHANGED <<outside, files>>

Run == \/ StepBase \/ Anchor \/ StepVeto \/ Plan
       \/ RefuseUncovered \/ AppendGap \/ AppendOk

Next == \/ NextDay \/ Run \/ Crash
        \/ \E d \in Days : ExtendCalendar(d) \/ BarsArrive(d) \/ BuildFactors(d)

Spec == Init /\ [][Next]_vars

\* The scheduler keeps starting runs, a run that has started goes on, the
\* calendar is extended, vendor data arrives and the factors are rebuilt from it.
Fairness ==
  /\ WF_vars(NextDay)
  /\ SF_vars(\E d \in Days : ExtendCalendar(d) \/ BarsArrive(d) \/ BuildFactors(d))
  /\ WF_vars(Run)

FairSpec == Spec /\ Fairness

-----------------------------------------------------------------------------
WallRow == [date : Days, status : {"ok", "gap"}, ret : Int, nav : Int,
            veto : {"vetoed", "inert", "none"}, mult : {0, Degrossed, Full},
            drift : Int]

TypeOK ==
  /\ today \in Nat /\ calendarEnd \in Nat /\ bars \subseteq Sessions /\ covered \in Days \union {0}
  /\ DOMAIN base \subseteq Sessions /\ \A d \in DOMAIN base : base[d] \in Navs
  /\ DOMAIN veto \subseteq Sessions
  /\ \A d \in DOMAIN veto : veto[d] \in {"vetoed", "inert"}
  /\ anchor \in Days \union {NoAnchor}
  /\ wall \in Seq(WallRow)
  /\ pc \in {"idle", "anchor", "veto", "plan", "log"}
  /\ toLog \subseteq DOMAIN base \intersect DOMAIN veto
  /\ crashes \in 0..MaxCrashes

\* Dates strictly increase: no back-dating, no session logged twice, even when
\* runs die between the gaps and the row and are repeated (prereg 3.4).
WallOrdered ==
  \A i, j \in DOMAIN wall : i < j => wall[i].date < wall[j].date

\* Recomputed history never becomes forward evidence: nothing is logged from
\* before the registered start, however early the book's curve begins.
NothingBeforeStart == \A i \in DOMAIN wall : anchor # NoAnchor /\ wall[i].date >= anchor

\* Between two consecutive rows there is no trading day: a missed day is
\* marked, not skipped, even when the run that marks it dies half way.
NoHoleAfterFirstRow ==
  \A i \in DOMAIN wall : i > 1 =>
    \A e \in Calendar : ~(wall[i - 1].date < e /\ e < wall[i].date)

\* An ok row records the two saved books: its base return, NAV and veto arm
\* are those in their files, which are written before the row.
RowsMatchBooks ==
  \A i \in OkIndices(wall) :
    LET d == wall[i].date
    IN  /\ d \in DOMAIN base \intersect DOMAIN veto
        /\ wall[i].ret = Ret(d) /\ wall[i].nav = Full * base[d]
        /\ wall[i].veto = veto[d]

\* The exposure in a row comes from the rows above it alone: no lookahead, and
\* gaps neither count towards the window nor reset it.
ExposureFromLog ==
  \A i \in OkIndices(wall) : wall[i].mult = DriftMult(SubSeq(wall, 1, i - 1))

\* The registered start is written once and rows are never revised.
AppendOnly ==
  [][/\ anchor # NoAnchor => anchor' = anchor
     /\ Len(wall') >= Len(wall)
     /\ \A i \in DOMAIN wall : wall'[i] = wall[i]]_vars

\* A missed session is never reconstructed: unless the owner asked for a
\* backfill, an ok row is only ever written for the book's newest session.
NoReconstruction ==
  [][\A i \in DOMAIN wall' :
       (i > Len(wall) /\ wall'[i].status = "ok" /\ ~Backfill)
         => \A d \in DOMAIN base : d <= wall'[i].date]_vars

\* The newest session is logged in the end, through late data, stale factors,
\* a calendar that ran out and runs that die.
EventuallyLogged ==
  <>[](\A d \in Sessions :
         (d >= PreregDay /\ d >= Inception /\ After(Sessions \ {d}, d)) => LastDate = d)

\* The wall keeps the promise of ObservationLog.
Fate(d) ==
  IF \E i \in OkIndices(wall) : wall[i].date = d THEN "ok"
  ELSE IF \E i \in DOMAIN wall : wall[i].date = d THEN "gap"
  ELSE "unlogged"

Log == INSTANCE ObservationLog WITH
  fate <- [d \in Days |-> Fate(d)], frontier <- LastDate
ImplementsObservationLog == Log!Spec

\* The wall is a complete and ordered record: files of the right kinds, dates
\* that increase, nothing from before the start, no trading day skipped.
WallInv == TypeOK /\ WallOrdered /\ NothingBeforeStart /\ NoHoleAfterFirstRow

\* The wall is an honest record: each observation is what the saved books say
\* of its session, at the exposure its own history prescribes.
HonestRows == RowsMatchBooks /\ ExposureFromLog
=============================================================================
