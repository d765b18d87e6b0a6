----------------------------- MODULE ActionItems -----------------------------
(***************************************************************************)
(* What a reader of the dashboard is told about one name: the weekly book  *)
(* and its envelope (WeeklyBook), the daily monitor that re-prices the     *)
(* exits the model has taken (scripts/run_bhanushali_monitor.py), the      *)
(* shares the reader's ledger holds, and the action items that             *)
(* services/reconciliation.py derives from the three.                      *)
(*                                                                         *)
(* A signal id is the name with a date: that of the setup on a buy card,   *)
(* that of the entry on a hold card and in the closed record, so one       *)
(* position can be held under either.  Two items are left out: SELL_DUE,   *)
(* which restates the daily price against the levels of a hold card, and   *)
(* UNTAKEN_BUY, which needs an actionability no weekly buy card carries.   *)
(***************************************************************************)
EXTENDS WeeklyBook

CONSTANTS Lookback,  \* MISSED_LOOKBACK_DAYS
          Lag        \* bound: sessions a run's date is behind

ASSUME LookbackAssumption == Lookback \in Nat /\ Lag \in Nat

VARIABLES
  monitor,   \* the published weekly_monitor.json: the envelope it read, its
             \* date and last bar, and its missed_exits
  held       \* signal ids under which the reader's ledger has shares left

itemsVars == <<bookVars, monitor, held>>

ItemsInit ==
  /\ BookInit /\ held = {}
  /\ monitor = [gen |-> 0, day |-> 0, bar |-> None, missed |-> {}]

-----------------------------------------------------------------------------
(* The daily monitor. *)

\* Trades of the closed record within the lookback of a run dated day.
Recent(day) == {t \in envelope.closed : t.exit >= day - Lookback}

\* The cached bars reach the exit, so that a price of today can be set beside it.
Priceable(due, bar) == bar # None /\ bar >= due

\* Booked misses.  Mutant: the record is not read.
BookedNone(day, bar) == {}
Booked(day, bar) ==
  {[sid |-> t.entry, due |-> t.exit, source |-> "booked"] :
     t \in {u \in Recent(day) : Priceable(u.exit, bar)}}

\* The cards a sell was issued on.
ExitCard == envelope.hold # None /\ envelope.exit # "none"

\* The first bar at or after a date, among those the cache holds.
DueOpen(when, bar) ==
  {d \in bars : /\ when <= d /\ d <= bar
                /\ \A e \in bars : ~(when <= e /\ e < d)}

\* Issued misses, once a bar later than the due open is there.  A booked row
\* has precedence.
Issued(day, bar) ==
  {[sid |-> envelope.hold, due |-> due, source |-> "issued"] :
     due \in {d \in DueOpen(envelope.gen, bar) :
                /\ ExitCard /\ d < bar
                /\ envelope.hold \notin {r.sid : r \in Booked(day, bar)}}}

\* A run with a cache that ends at bar, which a failed download leaves behind
\* the name's last.  Its date is the newest bar of the carded names.
RunMonitor(day, bar) ==
  /\ bar \in bars \union {None} /\ day \in (latest - Lag)..latest
  /\ envelope.gen # 0
  /\ monitor' = [gen |-> envelope.gen, day |-> day, bar |-> bar,
                 missed |-> Booked(day, bar) \union Issued(day, bar)]
  /\ UNCHANGED <<bookVars, held>>

(* The reader, who records fills against the cards. *)

MarkBought(sid) ==
  /\ sid \in {envelope.buy, envelope.hold} \ ({None} \union held)
  /\ held' = held \union {sid}
  /\ UNCHANGED <<bookVars, monitor>>

\* All that is left under one signal id.
MarkSold(sid) ==
  /\ sid \in held
  /\ held' = held \ {sid}
  /\ UNCHANGED <<bookVars, monitor>>

ItemsNext ==
  \/ Scan /\ UNCHANGED <<monitor, held>>
  \/ \E traded \in BOOLEAN : Session(traded) /\ UNCHANGED <<monitor, held>>
  \/ \E day, bar \in 0..LastDay : RunMonitor(day, bar)
  \/ \E sid \in 1..LastDay : MarkBought(sid) \/ MarkSold(sid)

ItemsSpec == ItemsInit /\ [][ItemsNext]_itemsVars

-----------------------------------------------------------------------------
(* build_action_items, for shares held under one signal id. *)

OfSignal(sid) == {r \in monitor.missed : r.sid = sid}
OfTicker == {r \in monitor.missed : \A s \in monitor.missed : s.due <= r.due}

\* The rows told: by signal id, or else the name's most recent.  Mutants: by
\* signal id alone; by name first.
MissedBySignal(sid) == OfSignal(sid)
MissedByTicker(sid) == OfTicker
Missed(sid) == IF OfSignal(sid) # {} THEN OfSignal(sid) ELSE OfTicker

StaleHold(sid) == envelope.hold = sid /\ envelope.exit # "none" /\ Missed(sid) = {}

Told(sid) == Missed(sid) # {} \/ StaleHold(sid)

-----------------------------------------------------------------------------
ATypeOK ==
  /\ BookTypeOK
  /\ held \subseteq 1..LastDay
  /\ monitor.gen \in 0..envelope.gen /\ monitor.day \in 0..latest
  /\ monitor.bar \in bars \union {None}
  /\ monitor.missed \subseteq [sid : 1..LastDay, due : bars \union 1..latest, source : {"booked", "issued"}]

\* The monitor has read this envelope and could price trade t.
Priced(t) ==
  /\ monitor.gen = envelope.gen
  /\ monitor.day - Lookback <= t.exit /\ t.exit <= monitor.bar

\* reconciliation.py:59: whatever id the shares were recorded under, that of
\* the setup or that of the entry, a reader is told of an exit the record has
\* booked and the monitor could price.
MissIsTold == \A t \in envelope.closed : Priced(t) => \A sid \in held : Missed(sid) # {}

\* A reader who recorded the buy on the hold card is told of the exit of that
\* trade, once and with its own date, whatever else the name did since.
OwnExitQuoted ==
  \A t \in envelope.closed :
    Priced(t) /\ t.entry \in held => {r.due : r \in Missed(t.entry)} = {t.exit}

\* run_bhanushali_monitor.py:147: the monitor "invents NO new judgement".  A
\* miss names a trade of the book that was sold, or is being sold, at least
\* in part, however stale the envelope it was read from.
NoInventedMiss ==
  \A r \in monitor.missed :
    \/ \E t \in record : t.entry = r.sid
    \/ book.entry = r.sid /\ (book.part \/ book.pending # "none")

\* A whole sale that has been published: the record has it, or the hold card
\* says sell.
Owed(sid) ==
  \/ \E t \in envelope.closed : t.entry = sid
  \/ envelope.hold = sid /\ envelope.exit = "full"
Sighted(sid) == \A t \in envelope.closed : t.entry = sid => Priced(t)

\* reconciliation.py:25: "Missed actions stay open".  A whole sale that was
\* published stays so until the reader has sold, though the card leaves the
\* envelope and the record takes over; and who was told of it is told again by
\* every run but one that cannot price it.
StaysTold ==
  [][\A sid \in held \intersect held' :
       Owed(sid) =>
         /\ Owed(sid)'
         /\ OfSignal(sid) # {} /\ (monitor' = monitor \/ Sighted(sid)') => Told(sid)']_itemsVars

\* reconciliation.py:114: on a MISSED_EXIT "the model is already flat here".
FlatWhenMissed ==
  \A sid \in held :
    Missed(sid) # {} /\ monitor.gen = envelope.gen
      => envelope.hold = None \/ envelope.exit = "full"

\* A reader is told of exits that were issued, and of the one that closes the
\* entry the reader's shares came from.
ItemsInv == ATypeOK /\ NoInventedMiss /\ OwnExitQuoted
=============================================================================
