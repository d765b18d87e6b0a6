------------------------------ MODULE PaperBook ------------------------------
(***************************************************************************)
(* The paper book (nq/paper/book.py) as its cron steps it                  *)
(* (scripts/run_paper_cron.py), beside the backtest it must equal          *)
(* (nq/engine/portfolio.py, simulate, with its hooks off as shipped).      *)
(*                                                                         *)
(* Prices only decide which exit rule is met and whether a name is         *)
(* eligible, so a bar is the first rule of nq/engine/exits.py it meets.  A *)
(* price is the bar it was read from.  Sizes and cash are left out: an     *)
(* order that is affordable is filled.                                     *)
(***************************************************************************)
EXTENDS Integers, Sequences, FiniteSets, SequencesExt

CONSTANTS Names, Absent,
          MaxPos,       \* max_positions
          MinHold, MaxHold,
          StaleDays,    \* STALE_ABSENT_DAYS
          LastDay,      \* bound: sessions
          LateDay,      \* bound: sessions, once a run came before a bar
          MaxMissed     \* bound: sessions between two runs of the cron

ASSUME PaperAssumption ==
  /\ IsFiniteSet(Names)
  /\ MaxPos \in Nat /\ StaleDays \in Nat \ {0} /\ LastDay \in Nat /\ LateDay \in 0..LastDay /\ MaxMissed \in Nat
  /\ MinHold \in Nat /\ MaxHold \in Nat \ {0} /\ MinHold <= MaxHold

VARIABLES
  closed,    \* sessions that have closed
  unstepped, \* those the saved book has not stepped, with their bars
  saved,     \* paper_state.json
  backtest,  \* simulate over every session with all of its bars
  late       \* history: a run stepped a session before all its bars were in

paperVars == <<closed, unstepped, saved, backtest, late>>

Rules == {"stop", "target", "trailing", "none"}
Quoted(day) == {n \in Names : day.bars[n] # Absent}
Days == {[date |-> closed + 1, bars |-> b, eligible |-> e] :
           b \in [Names -> Rules \union {Absent}], e \in SUBSET Names}

\* A position: its entry session, days held, days absent in a row, and the
\* session its mark is from, at the close or, on the day of entry, at the fill.
Entered(d) == [entry |-> d, days |-> 0, absent |-> 0, mark |-> d, atFill |-> TRUE]

NoTrades == {}
EmptyBook == [held |-> <<>>, pending |-> <<>>, trades |-> NoTrades]
Held(book) == DOMAIN book.held

PaperInit ==
  /\ closed = 0 /\ unstepped = <<>> /\ late = FALSE
  /\ saved = EmptyBook /\ backtest = EmptyBook

-----------------------------------------------------------------------------
(* One session. *)

\* One order at the open: it fills if there is a slot.
Filled(held, n, day) ==
  IF n \in DOMAIN held \/ n \notin Quoted(day) \/ Cardinality(DOMAIN held) >= MaxPos THEN held
  ELSE [m \in DOMAIN held \union {n} |-> IF m = n THEN Entered(day.date) ELSE held[m]]

\* Pending entries fill in order.
Fill(book, day) ==
  LET One(held, n) == Filled(held, n, day)
  IN [book EXCEPT !.held = FoldLeft(One, @, book.pending), !.pending = <<>>]

\* A session older, with or without a quote.
Aged(p, quoted) == [p EXCEPT !.days = @ + 1, !.absent = IF quoted THEN 0 ELSE @ + 1]

\* Why an aged position is closed today, "none" if it is not.
Reason(p, bar) ==
  IF bar = Absent THEN IF p.days >= MaxHold \/ p.absent >= StaleDays THEN "stale" ELSE "none"
  ELSE IF bar = "stop" THEN "stop"
  ELSE IF p.days < MinHold THEN "none"
  ELSE IF bar = "target" THEN "target"
  ELSE IF p.days >= MaxHold THEN "time"
  ELSE IF bar = "trailing" THEN "trailing" ELSE "none"

Exit(book, day) ==
  LET aged == [n \in Held(book) |-> Aged(book.held[n], n \in Quoted(day))]
      why == [n \in Held(book) |-> IF book.held[n].entry = day.date THEN "none" ELSE Reason(aged[n], day.bars[n])]
      gone == {n \in Held(book) : why[n] # "none"}
  IN [book EXCEPT
       !.held = [n \in Held(book) \ gone |->
                   IF book.held[n].entry = day.date THEN book.held[n]
                   ELSE IF n \in Quoted(day) THEN [aged[n] EXCEPT !.mark = day.date, !.atFill = FALSE]
                   ELSE aged[n]],
       !.trades = @ \union
         {[name |-> n, entry |-> book.held[n].entry, exit |-> day.date, why |-> why[n],
           price |-> IF why[n] = "stale" THEN book.held[n].mark ELSE day.date,
           atFill |-> why[n] = "stale" /\ book.held[n].atFill] : n \in gone}]

\* The names that may be bought, in the order of their rank, as far as there
\* are free slots: some order, the same for the same names.  Mutant: a slot
\* that is taken counts as free.
FreeSlotsAll(book) == MaxPos
FreeSlots(book) == MaxPos - Cardinality(Held(book))
Buyable(book, day) == (day.eligible \intersect Quoted(day)) \ Held(book)
Select(book, day) ==
  LET free == FreeSlots(book)
      names == SetToSeq(Buyable(book, day))
  IN [book EXCEPT !.pending = IF free > 0 THEN SubSeq(names, 1, IF Len(names) < free THEN Len(names) ELSE free) ELSE @]

Session(book, day) == Select(Exit(Fill(book, day), day), day)

-----------------------------------------------------------------------------
(* The cron. *)

Close ==
  /\ closed < (IF late THEN LateDay ELSE LastDay) /\ Len(unstepped) < MaxMissed
  /\ \E day \in Days :
       /\ day.eligible \subseteq Quoted(day)
       /\ closed' = closed + 1
       /\ unstepped' = Append(unstepped, day)
       /\ backtest' = Session(backtest, day)
  /\ UNCHANGED <<saved, late>>

\* What the panel has of the last session when some names are late.
AsSeen(days, missing) ==
  [i \in DOMAIN days |->
     IF i < Len(days) THEN days[i]
     ELSE [days[i] EXCEPT !.bars = [n \in Names |-> IF n \in missing THEN Absent ELSE @[n]]]]

\* Every session after the last one stepped.  Mutant: the last of them only.
ToStepLast(days) == SubSeq(days, Len(days), Len(days))
ToStep(days) == days

\* The marks of the last session's close, for the positions quoted in it.
Refreshed(book, day) ==
  [book EXCEPT !.held = [n \in Held(book) |->
     IF n \in Quoted(day) THEN [book.held[n] EXCEPT !.mark = day.date, !.atFill = FALSE] ELSE book.held[n]]]

\* One run: load, step, refresh the marks, save.  A run that fails before it
\* saves leaves nothing.
Cron(missing) ==
  /\ unstepped # <<>> /\ missing \subseteq Quoted(Last(unstepped))
  /\ LET days == AsSeen(unstepped, missing) IN
     saved' = Refreshed(FoldLeft(Session, saved, ToStep(days)), Last(days))
  /\ unstepped' = <<>> /\ late' = (late \/ missing # {})
  /\ UNCHANGED <<closed, backtest>>

PaperNext == Close \/ \E missing \in SUBSET Names : Cron(missing)

PaperSpec == PaperInit /\ [][PaperNext]_paperVars

-----------------------------------------------------------------------------
(* Properties. *)

Position ==
  [entry : 1..LastDay, days : 0..MaxHold - 1, absent : 0..StaleDays - 1, mark : 1..LastDay, atFill : BOOLEAN]

\* The type of every variable; what is held is younger than max_hold_days
\* and quoted within STALE_ABSENT_DAYS.
PaperTypeOK ==
  /\ closed \in 0..LastDay /\ Len(unstepped) \in 0..MaxMissed /\ late \in BOOLEAN
  /\ \A book \in {saved, backtest} :
       /\ Held(book) \subseteq Names /\ \A n \in Held(book) : book.held[n] \in Position
       /\ book.pending \in Seq(Names)
       /\ \A t \in book.trades : t.name \in Names /\ t.entry < t.exit /\ t.exit <= closed

\* The orders that wait for the open never ask for a slot that is taken, nor
\* for a name that is held: max_positions holds for positions and orders
\* together, so the check at the open turns nothing away.
SlotsKept ==
  \A book \in {saved, backtest} :
    /\ Cardinality(Held(book)) + Len(book.pending) <= MaxPos
    /\ Held(book) \intersect Range(book.pending) = {}

\* No position outlives max_hold_days sessions since its entry, quoted or not.
NoOverstay ==
  \A n \in Held(backtest) : closed - backtest.held[n].entry < MaxHold

\* nq/paper/book.py:5 "byte-consistent with the validated backtest": once
\* every session is stepped, however the runs were spaced, the saved book and
\* the backtest hold the same names since the same day, wait for the same
\* names and have closed the same trades for the same reason, unless a run
\* came before a bar.  The one price that differs is that of a name that was
\* never quoted again after the day it was bought: the run that shows the
\* book has marked it at that day's close, the backtest at its fill.
SameBook ==
  unstepped = <<>> /\ ~late =>
    LET Plain(p) == <<p.entry, p.days, p.absent, p.mark>>
        Deal(t) == <<t.name, t.entry, t.exit, t.why, t.price>>
    IN /\ Held(saved) = Held(backtest) /\ saved.pending = backtest.pending
       /\ \A n \in Held(saved) :
            /\ Plain(saved.held[n]) = Plain(backtest.held[n])
            /\ saved.held[n].atFill # backtest.held[n].atFill => backtest.held[n].mark = backtest.held[n].entry
       /\ {Deal(t) : t \in saved.trades} = {Deal(t) : t \in backtest.trades}
       /\ \A t \in saved.trades : t \in backtest.trades \/ t.price = t.entry

\* No book has more positions than slots, or one past its age or absence.
PaperInv == PaperTypeOK /\ SlotsKept /\ NoOverstay
=============================================================================
