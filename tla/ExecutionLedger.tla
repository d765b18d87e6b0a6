--------------------------- MODULE ExecutionLedger ---------------------------
(***************************************************************************)
(* The self-reported execution ledger: dashboard/backend/routers/          *)
(* execution.py over services/execution_ledger.py.  Readers execute on     *)
(* their own broker and report each fill; a report is one row of an        *)
(* append-only table, a correction is one more row that names the row it   *)
(* supersedes, and everything else (what is held, whether an oversell is   *)
(* warned of) is derived from the rows.                                    *)
(*                                                                         *)
(* A row's id is its index.  Time is counted in days and rows of one day   *)
(* are ordered by id.  record_event commits each row on its own; the sell  *)
(* handler reads the position before it inserts, so it is two steps.       *)
(***************************************************************************)
EXTENDS Integers, Sequences, FiniteSetsExt

CONSTANTS Users, Signals,  \* a position is a user's fills on one signal
          Qtys, Prices,    \* shares and price of a fill
          Workers, Idle,   \* request handlers of the backend; one without a request
          StaleTrail,      \* readers may correct a row that is superseded already
          SelfDated,       \* reports may carry executed_at (the popup's do not)
          MaxEvents,       \* bound: rows of the table
          MaxDay           \* bound: days

ASSUME QtysAssumption == Qtys \subseteq Nat \ {0}
ASSUME FlagsAssumption == StaleTrail \in BOOLEAN /\ SelfDated \in BOOLEAN
ASSUME BoundsAssumption == MaxEvents \in Nat /\ MaxDay \in Nat

VARIABLES events,   \* execution_events, in id order
          trace,    \* history: [fill, seen] of each row
          warned,   \* history: ids whose response carried the oversell warning
          pending,  \* worker -> the sell it has validated and not yet inserted
          today

vars == <<events, trace, warned, pending, today>>

Unsaid == -1   \* no executed_at in the request
NoEvent == 0   \* no corrects_event_id
Sides == {"BUY", "SELL"}

Version == [side : Sides, qty : Qtys, price : Prices, at : {Unsaid} \union (0..MaxDay)]
Event == [user : Users, signal : Signals, version : Version,
          created : 0..MaxDay, corrects : 0..MaxEvents]

-----------------------------------------------------------------------------
(* Derived from the rows. *)

\* _events_for: the rows of one reader on one signal.
Rows(u, s) == {i \in DOMAIN events : events[i].user = u /\ events[i].signal = s}

\* Mutants: corrections are skipped as well as what they correct; a correction
\* is current for good, so chains do not resolve.
EffectiveOriginals(u, s) ==
  {i \in Rows(u, s) : events[i].corrects = NoEvent /\ \A j \in Rows(u, s) : events[j].corrects # i}
EffectiveOneLevel(u, s) ==
  {i \in Rows(u, s) : events[i].corrects # NoEvent \/ \A j \in Rows(u, s) : events[j].corrects # i}

\* _effective_events: drop what a later row corrects; chains resolve by
\* themselves, since a correction can be corrected.
Effective(u, s) ==
  {i \in Rows(u, s) : \A j \in Rows(u, s) : events[j].corrects # i}

Signed(v) == IF v.side = "BUY" THEN v.qty ELSE -v.qty

\* position_state: raw_remaining_qty and remaining_qty.
SharesOf(rows) == LET Held(i) == Signed(events[i].version)
                  IN  MapThenSumSet(Held, rows)
RawRemaining(u, s) == SharesOf(Effective(u, s))
Remaining(u, s) == Max({0, RawRemaining(u, s)})

\* Mutant: the boundary is off by one.
ValidateLate(qty, before) == IF qty > before + 1 THEN {"oversell"} ELSE {}

\* validate: the one warning the maths depend on; it never blocks.
Validate(qty, before) == IF qty > before THEN {"oversell"} ELSE {}

-----------------------------------------------------------------------------
ExecutedAt == {Unsaid} \union (IF SelfDated THEN 0..today ELSE {})
Request(side) == {v \in Version : v.side = side /\ v.at \in ExecutedAt}

Init ==
  /\ events = <<>>
  /\ trace = <<>>
  /\ warned = {}
  /\ pending = [w \in Workers |-> Idle]
  /\ today = 0

NextId == Len(events) + 1
Room == Len(events) < MaxEvents

\* record_event: append one row and commit it.
RecordEvent(u, s, v, prior, fill, seen) ==
  /\ Room
  /\ events' = Append(events, [user |-> u, signal |-> s, version |-> v,
                               created |-> today, corrects |-> prior])
  /\ trace' = Append(trace, [fill |-> fill, seen |-> seen])

\* POST /buy: averaging in is allowed, so nothing is asked of the position.
RecordBuy(u, s, v) ==
  /\ v \in Request("BUY")
  /\ RecordEvent(u, s, v, NoEvent, NextId, Len(events))
  /\ UNCHANGED <<warned, pending, today>>

\* POST /sell up to validate: the remaining quantity is read before the row
\* is written, in no transaction with it.
ReadSell(w, u, s, v) ==
  /\ pending[w] = Idle
  /\ v \in Request("SELL")
  /\ pending' = [pending EXCEPT ![w] =
       [user |-> u, signal |-> s, version |-> v, seen |-> Len(events),
        warnings |-> Validate(v.qty, Remaining(u, s))]]
  /\ UNCHANGED <<events, trace, warned, today>>

\* POST /sell from record_event on: warned of or not, the row is written.
RecordSell(w) ==
  /\ pending[w] # Idle
  /\ LET p == pending[w]
     IN  /\ RecordEvent(p.user, p.signal, p.version, NoEvent, NextId, p.seen)
         /\ warned' = IF p.warnings # {} THEN warned \union {NextId} ELSE warned
  /\ pending' = [pending EXCEPT ![w] = Idle]
  /\ UNCHANGED today

\* Mutant: the position is left out of the query for the prior row.
PriorOfUser(u, s) == {i \in DOMAIN events : events[i].user = u}

\* The rows record_correction's query finds: the reader's own, on this signal.
Prior(u, s) == Rows(u, s)

\* What the reader picks from the audit trail: a current row, unless the
\* trail on the screen is older than the table.
Picked(u, s) ==
  {i \in Prior(u, s) : StaleTrail \/ i \in Effective(events[i].user, events[i].signal)}

\* POST /correct: the prior row must exist; that it is current is not asked.
RecordCorrection(u, s, i, v) ==
  /\ i \in Picked(u, s)
  /\ v.at \in ExecutedAt
  /\ RecordEvent(u, s, v, i, trace[i].fill, Len(events))
  /\ UNCHANGED <<warned, pending, today>>

\* The backend restarts: requests in flight are gone, committed rows are not.
Restart ==
  /\ \E w \in Workers : pending[w] # Idle
  /\ pending' = [w \in Workers |-> Idle]
  /\ UNCHANGED <<events, trace, warned, today>>

NextDay ==
  /\ today < MaxDay
  /\ today' = today + 1
  /\ UNCHANGED <<events, trace, warned, pending>>

Next ==
  \/ \E u \in Users, s \in Signals, v \in Version :
       \/ RecordBuy(u, s, v)
       \/ \E w \in Workers : ReadSell(w, u, s, v)
       \/ \E i \in DOMAIN events : RecordCorrection(u, s, i, v)
  \/ \E w \in Workers : RecordSell(w)
  \/ Restart
  \/ NextDay

Spec == Init /\ [][Next]_vars

-----------------------------------------------------------------------------
Pending == [user : Users, signal : Signals, version : Version,
            seen : 0..MaxEvents, warnings : SUBSET {"oversell"}]

Trace == [fill : Nat, seen : 0..MaxEvents]

TypeOK ==
  /\ events \in Seq(Event)
  /\ trace \in Seq(Trace)
  /\ Len(trace) = Len(events)
  /\ Len(events) <= MaxEvents
  /\ warned \subseteq DOMAIN events
  /\ pending \in [Workers -> Pending \union {Idle}]
  /\ today \in 0..MaxDay

\* The rows that report on fill f, and the fills reported at all.
Chain(f) == {i \in DOMAIN events : trace[i].fill = f}
Fills == {i \in DOMAIN events : trace[i].fill = i}
IsCurrent(i) == i \in Effective(events[i].user, events[i].signal)
CurrentRows(f) == {i \in Chain(f) : IsCurrent(i)}

\* However reports and corrections interleave, no fill leaves the maths: it
\* stays in the position it was reported for, no row of another position
\* speaks of it, and some row that reports on it is current there.
NoFillVanishes ==
  \A i \in DOMAIN events :
    LET u == events[i].user  s == events[i].signal
    IN  /\ Chain(trace[i].fill) \subseteq Rows(u, s)
        /\ Chain(trace[i].fill) \intersect Effective(u, s) # {}

\* The maths use one row per fill: a correction supersedes what it corrects,
\* so a fill is never counted twice (routers/execution.py:160-161).
OneCurrentRowPerFill ==
  \A f \in Fills : \A i, j \in CurrentRows(f) : i = j

\* What a position held when the table had n rows, and whether its row i left
\* it fewer shares than it had.
EffectiveUpTo(u, s, n) ==
  {i \in Rows(u, s) : i <= n /\ \A j \in Rows(u, s) : j <= n => events[j].corrects # i}
HeldAt(u, s, n) == SharesOf(EffectiveUpTo(u, s, n))
TookShares(u, s, i) == HeldAt(u, s, i) < HeldAt(u, s, i - 1)

\* A sell that leaves its position short carries the warning itself
\* (execution_ledger.py:137), unless a row that took shares from the position
\* was written between its reading and its own writing.  Corrections are
\* never warned of, those that leave a position short included.
SilentOversellIsARace ==
  \A u \in Users, s \in Signals : \A i \in Rows(u, s) :
    TookShares(u, s, i) /\ HeldAt(u, s, i) < 0 =>
      \/ i \in warned
      \/ events[i].corrects # NoEvent
      \/ \E j \in Rows(u, s) : trace[i].seen < j /\ j < i /\ TookShares(u, s, j)

-----------------------------------------------------------------------------
(* The ledger implements FillBook, when readers correct current rows. *)

Current(f) == CHOOSE i \in CurrentRows(f) : TRUE
Entry(i) == [position |-> <<events[i].user, events[i].signal>>, version |-> events[i].version]
Book == [f \in Fills |-> Entry(Current(f))]

\* Every fill keeps exactly one current version through any interleaving of
\* reports, corrections and restarts.
Promise == INSTANCE FillBook WITH
  Fills <- 1..MaxEvents, Positions <- Users \X Signals, Versions <- Version, book <- Book
ImplementsFillBook == Promise!Spec

\* The table is well formed and every fill reported has a row in the maths.
LedgerInv == TypeOK /\ NoFillVanishes
=============================================================================
