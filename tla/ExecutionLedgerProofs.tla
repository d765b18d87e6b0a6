----------------------- MODULE ExecutionLedgerProofs -----------------------
(***************************************************************************)
(* Proofs about ExecutionLedger and PositionState, for any readers,        *)
(* signals, fills, workers, demergers and bounds.  Every row knows the     *)
(* fill it reports on (the history variable trace); that corrections point *)
(* backwards, within a position and within a fill, is the inductive heart. *)
(***************************************************************************)
EXTENDS PositionState, OrderLemmas

\* A row reports on a fill of its own position, first reported no later; a
\* correction names an earlier row that reports on the same fill.
RowWellFormed(i) ==
  LET f == trace[i].fill  c == events[i].corrects
  IN  /\ f \in 1..i
      /\ trace[f].fill = f
      /\ events[f].user = events[i].user
      /\ events[f].signal = events[i].signal
      /\ c # NoEvent => /\ c \in 1..(i - 1)
                        /\ trace[c].fill = f
                        /\ events[c].user = events[i].user
                        /\ events[c].signal = events[i].signal

Chained == \A i \in DOMAIN events : RowWellFormed(i)

IInv == TypeOK /\ Chained

-----------------------------------------------------------------------------
(* Type correctness. *)

LEMMA InitTypeOK == Init => TypeOK
<1> SUFFICES ASSUME Init PROVE TypeOK
  OBVIOUS
<1>1. events \in Seq(Event) /\ Len(events) = 0 /\ trace \in Seq(Trace)
  BY DEF Init
<1>2. today \in 0..MaxDay /\ Len(events) <= MaxEvents
  BY <1>1, BoundsAssumption DEF Init
<1>3. pending \in [Workers -> Pending \union {Idle}] /\ warned = {}
  BY DEF Init
<1> QED BY <1>1, <1>2, <1>3 DEF TypeOK, Init

\* What record_event appends is a row, and the table stays within its bound.
LEMMA RecordTypes ==
  ASSUME TypeOK, NEW u \in Users, NEW s \in Signals, NEW v \in Version,
         NEW prior \in 0..MaxEvents, NEW fill \in Nat, NEW seen \in 0..MaxEvents,
         RecordEvent(u, s, v, prior, fill, seen)
  PROVE  /\ events' \in Seq(Event)
         /\ trace' \in Seq(Trace)
         /\ Len(trace') = Len(events')
         /\ Len(events') = Len(events) + 1
         /\ Len(events') <= MaxEvents
         /\ NextId \in DOMAIN events'
         /\ DOMAIN events \subseteq DOMAIN events'
<1> DEFINE e == [user |-> u, signal |-> s, version |-> v, created |-> today, corrects |-> prior]
<1>1. e \in Event
  BY DEF Event, TypeOK
<1>2. events' = Append(events, e) /\ trace' = Append(trace, [fill |-> fill, seen |-> seen])
  BY DEF RecordEvent
<1>3. Len(events) \in Nat /\ Len(events) < MaxEvents
  BY DEF RecordEvent, Room, TypeOK
<1> HIDE DEF e
<1>4. events' \in Seq(Event) /\ Len(events') = Len(events) + 1
  BY <1>1, <1>2 DEF TypeOK
<1>5. trace' \in Seq(Trace) /\ Len(trace') = Len(trace) + 1
  <2>1. [fill |-> fill, seen |-> seen] \in Trace
    BY DEF Trace
  <2> QED BY <1>2, <2>1 DEF TypeOK
<1>6. DOMAIN events = 1..Len(events) /\ DOMAIN events' = 1..Len(events')
  BY <1>4 DEF TypeOK
<1> QED BY <1>3, <1>4, <1>5, <1>6, BoundsAssumption DEF TypeOK, NextId

LEMMA NextTypeOK == ASSUME TypeOK, [Next]_vars PROVE TypeOK'
<1>0. CASE UNCHANGED vars
  BY <1>0 DEF TypeOK, vars, Pending
<1>1. ASSUME NEW u \in Users, NEW s \in Signals, NEW v \in Version, RecordBuy(u, s, v)
      PROVE  TypeOK'
  <2>1. NextId \in Nat /\ Len(events) \in 0..MaxEvents /\ NoEvent \in 0..MaxEvents
    BY BoundsAssumption DEF TypeOK, NextId, NoEvent
  <2>2. RecordEvent(u, s, v, NoEvent, NextId, Len(events))
    BY <1>1 DEF RecordBuy
  <2> QED BY <1>1, <2>1, <2>2, RecordTypes DEF TypeOK, RecordBuy
<1>2. ASSUME NEW u \in Users, NEW s \in Signals, NEW v \in Version, NEW w \in Workers,
             ReadSell(w, u, s, v)
      PROVE  TypeOK'
  <2> DEFINE p == [user |-> u, signal |-> s, version |-> v, seen |-> Len(events),
                   warnings |-> Validate(v.qty, Remaining(u, s))]
  <2>1. Validate(v.qty, Remaining(u, s)) \in SUBSET {"oversell"}
    BY DEF Validate
  <2>2. Len(events) \in 0..MaxEvents
    BY BoundsAssumption DEF TypeOK
  <2>3. p \in Pending
    BY <2>1, <2>2 DEF Pending
  <2>4. pending' = [pending EXCEPT ![w] = p]
    BY <1>2 DEF ReadSell
  <2> HIDE DEF p
  <2> QED BY <1>2, <2>3, <2>4 DEF TypeOK, ReadSell
<1>3. ASSUME NEW u \in Users, NEW s \in Signals, NEW v \in Version, NEW i \in DOMAIN events,
             RecordCorrection(u, s, i, v)
      PROVE  TypeOK'
  <2>1. i \in 0..MaxEvents /\ Len(events) \in 0..MaxEvents
    BY BoundsAssumption DEF TypeOK
  <2>2. trace[i].fill \in Nat
    <3>1. i \in DOMAIN trace
      BY DEF TypeOK
    <3>2. trace[i] \in Trace
      BY <3>1 DEF TypeOK
    <3> QED BY <3>2 DEF Trace
  <2>3. RecordEvent(u, s, v, i, trace[i].fill, Len(events))
    BY <1>3 DEF RecordCorrection
  <2> QED BY <1>3, <2>1, <2>2, <2>3, RecordTypes DEF TypeOK, RecordCorrection
<1>4. ASSUME NEW w \in Workers, RecordSell(w) PROVE TypeOK'
  <2>1. pending[w] \in Pending
    BY <1>4 DEF TypeOK, RecordSell
  <2>2. /\ pending[w].user \in Users
        /\ pending[w].signal \in Signals
        /\ pending[w].version \in Version
        /\ pending[w].seen \in 0..MaxEvents
    BY <2>1 DEF Pending
  <2>3. NextId \in Nat /\ NoEvent \in 0..MaxEvents
    BY BoundsAssumption DEF TypeOK, NextId, NoEvent
  <2>4. RecordEvent(pending[w].user, pending[w].signal, pending[w].version, NoEvent, NextId, pending[w].seen)
    BY <1>4 DEF RecordSell
  <2> HIDE DEF NextId
  <2>5. NextId \in DOMAIN events' /\ DOMAIN events \subseteq DOMAIN events'
    BY <2>2, <2>3, <2>4, RecordTypes
  <2>6. warned' \subseteq DOMAIN events'
    BY <1>4, <2>5 DEF RecordSell, TypeOK
  <2>7. pending' \in [Workers -> Pending \union {Idle}] /\ today' = today
    BY <1>4 DEF RecordSell, TypeOK
  <2> QED BY <2>2, <2>3, <2>4, <2>6, <2>7, RecordTypes DEF TypeOK
<1>5. CASE Restart
  BY <1>5 DEF TypeOK, Restart
<1>6. CASE NextDay
  <2>1. today' \in 0..MaxDay
    BY <1>6, BoundsAssumption DEF TypeOK, NextDay
  <2> QED BY <1>6, <2>1 DEF TypeOK, NextDay
<1> QED BY <1>0, <1>1, <1>2, <1>3, <1>4, <1>5, <1>6 DEF Next

\* Type correctness of the table, the requests in flight and the histories.
THEOREM TypeCorrect == Spec => []TypeOK
<1>1. Init => TypeOK
  BY InitTypeOK
<1>2. TypeOK /\ [Next]_vars => TypeOK'
  BY NextTypeOK
<1> QED BY <1>1, <1>2, PTL DEF Spec
-----------------------------------------------------------------------------
(* The inductive invariant. *)

\* record_event adds one row and disturbs none.
LEMMA NewRow ==
  ASSUME TypeOK, NEW u \in Users, NEW s \in Signals, NEW v \in Version,
         NEW prior \in 0..MaxEvents, NEW fill \in Nat, NEW seen \in 0..MaxEvents,
         RecordEvent(u, s, v, prior, fill, seen)
  PROVE  /\ \A i \in DOMAIN events : events'[i] = events[i] /\ trace'[i] = trace[i]
         /\ DOMAIN events' = DOMAIN events \union {NextId}
         /\ DOMAIN events = 1..Len(events)
         /\ NextId \in Nat /\ NextId \notin DOMAIN events /\ NextId # NoEvent
         /\ events'[NextId].user = u /\ events'[NextId].signal = s
         /\ events'[NextId].version = v /\ events'[NextId].corrects = prior
         /\ trace'[NextId].fill = fill
<1> USE DEF RecordEvent, TypeOK, NextId, NoEvent
<1>1. Len(events) \in Nat /\ DOMAIN events = 1..Len(events) /\ Len(trace) = Len(events)
  OBVIOUS
<1>2. /\ Len(events') = Len(events) + 1
      /\ \A i \in 1..Len(events) : events'[i] = events[i]
      /\ events'[Len(events) + 1] = [user |-> u, signal |-> s, version |-> v,
                                     created |-> today, corrects |-> prior]
  OBVIOUS
<1>3. /\ \A i \in 1..Len(events) : trace'[i] = trace[i]
      /\ trace'[Len(events) + 1] = [fill |-> fill, seen |-> seen]
  OBVIOUS
<1>4. DOMAIN events' = 1..(Len(events) + 1)
  OBVIOUS
<1> QED BY <1>1, <1>2, <1>3, <1>4

LEMMA RecordChained ==
  ASSUME TypeOK, Chained, NEW u \in Users, NEW s \in Signals, NEW v \in Version,
         NEW prior \in 0..MaxEvents, NEW fill \in Nat, NEW seen \in 0..MaxEvents,
         RecordEvent(u, s, v, prior, fill, seen),
         \/ prior = NoEvent /\ fill = NextId
         \/ prior \in Rows(u, s) /\ fill = trace[prior].fill
  PROVE  Chained'
<1>0. PICK n \in Nat : n = NextId
  BY DEF TypeOK, NextId
<1>1. /\ \A i \in DOMAIN events : events'[i] = events[i] /\ trace'[i] = trace[i]
      /\ DOMAIN events' = DOMAIN events \union {n}
      /\ DOMAIN events = 1..Len(events)
      /\ n \in Nat /\ n \notin DOMAIN events /\ n # NoEvent
      /\ events'[n].user = u /\ events'[n].signal = s /\ events'[n].corrects = prior
      /\ trace'[n].fill = fill
  BY <1>0, NewRow
<1>2. DOMAIN events = 1..(n - 1)
  BY <1>0, <1>1 DEF TypeOK, NextId
<1>3. ASSUME NEW i \in DOMAIN events PROVE RowWellFormed(i)'
  <2>1. RowWellFormed(i)
    BY DEF Chained
  <2>2. i \in Nat /\ 1..i \subseteq DOMAIN events /\ 1..(i - 1) \subseteq DOMAIN events
    BY <1>1, <1>2
  <2> QED BY <1>1, <2>1, <2>2 DEF RowWellFormed
<1>4. RowWellFormed(n)'
  <2>1. CASE prior = NoEvent /\ fill = n
    BY <1>1, <2>1 DEF RowWellFormed, NoEvent
  <2>2. CASE prior \in Rows(u, s) /\ fill = trace[prior].fill
    <3>1. /\ prior \in DOMAIN events /\ prior \in 1..(n - 1)
          /\ events[prior].user = u /\ events[prior].signal = s
      BY <2>2, <1>2 DEF Rows
    <3>2. RowWellFormed(prior)
      BY <3>1 DEF Chained
    <3>3. /\ fill \in 1..prior /\ fill \in DOMAIN events /\ trace[fill].fill = fill
          /\ events[fill].user = u /\ events[fill].signal = s
      BY <2>2, <3>1, <3>2, <1>2, <1>1 DEF RowWellFormed
    <3> QED BY <1>1, <2>2, <3>1, <3>3 DEF RowWellFormed
  <2> QED BY <1>0, <2>1, <2>2
<1> QED BY <1>1, <1>3, <1>4 DEF Chained

LEMMA NextChained == ASSUME IInv, [Next]_vars PROVE Chained'
<1> USE DEF IInv
<1>0. ASSUME UNCHANGED <<events, trace>> PROVE Chained'
  BY <1>0 DEF Chained, RowWellFormed
<1>1. ASSUME NEW u \in Users, NEW s \in Signals, NEW v \in Version, RecordBuy(u, s, v)
      PROVE  Chained'
  <2>1. NextId \in Nat /\ Len(events) \in 0..MaxEvents /\ NoEvent \in 0..MaxEvents
    BY BoundsAssumption DEF TypeOK, NextId, NoEvent
  <2>2. RecordEvent(u, s, v, NoEvent, NextId, Len(events))
    BY <1>1 DEF RecordBuy
  <2> QED BY <2>1, <2>2, RecordChained
<1>2. ASSUME NEW u \in Users, NEW s \in Signals, NEW v \in Version, NEW i \in DOMAIN events,
             RecordCorrection(u, s, i, v)
      PROVE  Chained'
  <2>1. i \in 0..MaxEvents /\ Len(events) \in 0..MaxEvents
    BY BoundsAssumption DEF TypeOK
  <2>2. trace[i].fill \in Nat
    BY DEF Chained, RowWellFormed
  <2>3. RecordEvent(u, s, v, i, trace[i].fill, Len(events)) /\ i \in Rows(u, s)
    BY <1>2 DEF RecordCorrection, Picked, Prior
  <2> QED BY <2>1, <2>2, <2>3, RecordChained
<1>3. ASSUME NEW w \in Workers, RecordSell(w) PROVE Chained'
  <2>1. pending[w] \in Pending
    BY <1>3 DEF TypeOK, RecordSell
  <2>2. /\ pending[w].user \in Users
        /\ pending[w].signal \in Signals
        /\ pending[w].version \in Version
        /\ pending[w].seen \in 0..MaxEvents
    BY <2>1 DEF Pending
  <2>3. NextId \in Nat /\ NoEvent \in 0..MaxEvents
    BY BoundsAssumption DEF TypeOK, NextId, NoEvent
  <2>4. RecordEvent(pending[w].user, pending[w].signal, pending[w].version, NoEvent, NextId, pending[w].seen)
    BY <1>3 DEF RecordSell
  <2> QED BY <2>2, <2>3, <2>4, RecordChained
<1>4. ASSUME NEW u \in Users, NEW s \in Signals, NEW v \in Version, NEW w \in Workers,
             ReadSell(w, u, s, v)
      PROVE  Chained'
  BY <1>0, <1>4 DEF ReadSell
<1>5. ASSUME Restart \/ NextDay \/ UNCHANGED vars PROVE Chained'
  BY <1>0, <1>5 DEF Restart, NextDay, vars
<1> QED BY <1>1, <1>2, <1>3, <1>4, <1>5 DEF Next

THEOREM InvariantHolds == Spec => []IInv
<1>1. Init => Chained
  BY DEF Init, Chained
<1>2. Init => IInv
  BY <1>1, InitTypeOK DEF IInv
<1>3. IInv /\ [Next]_vars => IInv'
  BY NextTypeOK, NextChained DEF IInv
<1> QED BY <1>2, <1>3, PTL DEF Spec

-----------------------------------------------------------------------------
(* No fill vanishes: of the rows that report on a fill, the last one is     *)
(* current, because whatever would supersede it reports on the same fill.   *)

LEMMA LastOfChainIsCurrent ==
  ASSUME IInv, NEW i \in DOMAIN events
  PROVE  \E m \in Chain(trace[i].fill) : IsCurrent(m)
<1> DEFINE C == Chain(trace[i].fill)
<1>1. Len(events) \in Nat /\ DOMAIN events = 1..Len(events)
  BY DEF IInv, TypeOK
<1>2. C \in SUBSET (0..Len(events)) /\ C # {}
  BY <1>1 DEF Chain
<1> HIDE DEF C
<1>3. PICK m \in C : \A k \in C : k <= m
  BY <1>1, <1>2, GreatestElement
<1>4. m \in DOMAIN events /\ trace[m].fill = trace[i].fill
  BY <1>3 DEF C, Chain
<1>5. ASSUME NEW j \in DOMAIN events, events[j].corrects = m PROVE FALSE
  <2>1. m # NoEvent
    BY <1>1, <1>4 DEF NoEvent
  <2>2. RowWellFormed(j)
    BY DEF IInv, Chained
  <2>3. m \in 1..(j - 1) /\ trace[m].fill = trace[j].fill
    BY <1>5, <2>1, <2>2 DEF RowWellFormed
  <2>4. j \in C
    BY <1>4, <2>3 DEF C, Chain
  <2>5. j <= m
    BY <1>3, <2>4
  <2> QED BY <1>1, <2>3, <2>5
<1>6. IsCurrent(m)
  BY <1>4, <1>5 DEF IsCurrent, Effective, Rows
<1> QED BY <1>3, <1>6 DEF C

LEMMA NoFillVanishesNow == IInv => NoFillVanishes
<1> SUFFICES ASSUME IInv, NEW i \in DOMAIN events
             PROVE  /\ Chain(trace[i].fill) \subseteq Rows(events[i].user, events[i].signal)
                    /\ Chain(trace[i].fill) \intersect Effective(events[i].user, events[i].signal) # {}
  BY DEF NoFillVanishes
<1>1. ASSUME NEW k \in Chain(trace[i].fill)
      PROVE  /\ k \in DOMAIN events
             /\ events[k].user = events[i].user
             /\ events[k].signal = events[i].signal
  <2>1. k \in DOMAIN events /\ trace[k].fill = trace[i].fill
    BY DEF Chain
  <2>2. RowWellFormed(k) /\ RowWellFormed(i)
    BY <2>1 DEF IInv, Chained
  <2> QED BY <2>1, <2>2 DEF RowWellFormed
<1>2. PICK m \in Chain(trace[i].fill) : IsCurrent(m)
  BY LastOfChainIsCurrent
<1>3. m \in Effective(events[i].user, events[i].signal)
  BY <1>1, <1>2 DEF IsCurrent
<1> QED BY <1>1, <1>2, <1>3 DEF Rows

\* Whatever the readers correct, and however stale the trail they correct it
\* from, every fill stays in the maths of its own position.
THEOREM FillsNeverVanish == Spec => []NoFillVanishes
<1>1. IInv => NoFillVanishes
  BY NoFillVanishesNow
<1> QED BY <1>1, InvariantHolds, PTL

-----------------------------------------------------------------------------
(* One current row per fill, when readers correct current rows: the new row *)
(* takes the place of the only current one.                                 *)

LEMMA CurrentAfter ==
  ASSUME IInv, NEW u \in Users, NEW s \in Signals, NEW v \in Version,
         NEW prior \in 0..MaxEvents, NEW fill \in Nat, NEW seen \in 0..MaxEvents,
         RecordEvent(u, s, v, prior, fill, seen),
         prior = NoEvent \/ prior \in Rows(u, s),
         NEW n \in Nat, n = NextId
  PROVE  /\ \A i \in DOMAIN events : IsCurrent(i)' <=> (IsCurrent(i) /\ i # prior)
         /\ IsCurrent(n)'
<1>1. /\ \A i \in DOMAIN events : events'[i] = events[i] /\ trace'[i] = trace[i]
      /\ DOMAIN events' = DOMAIN events \union {n}
      /\ DOMAIN events = 1..Len(events)
      /\ n \notin DOMAIN events /\ n # NoEvent
      /\ events'[n].user = u /\ events'[n].signal = s /\ events'[n].corrects = prior
  BY NewRow DEF IInv
<1>2. DOMAIN events = 1..(n - 1)
  BY <1>1 DEF IInv, TypeOK, NextId
<1>3. ASSUME NEW i \in DOMAIN events
      PROVE  IsCurrent(i)' <=> (IsCurrent(i) /\ i # prior)
  <2>1. i # NoEvent
    BY <1>2 DEF NoEvent
  <2>2. prior = i => events[i].user = u /\ events[i].signal = s
    BY <2>1 DEF Rows
  <2>3. IsCurrent(i) <=> \A j \in DOMAIN events :
          events[j].user = events[i].user /\ events[j].signal = events[i].signal
            => events[j].corrects # i
    BY DEF IsCurrent, Effective, Rows
  <2>4. IsCurrent(i)' <=> \A j \in DOMAIN events' :
          events'[j].user = events'[i].user /\ events'[j].signal = events'[i].signal
            => events'[j].corrects # i
    BY <1>1 DEF IsCurrent, Effective, Rows
  <2> QED BY <1>1, <2>2, <2>3, <2>4
<1>4. IsCurrent(n)'
  <2>1. ASSUME NEW j \in DOMAIN events PROVE events[j].corrects # n
    <3>1. RowWellFormed(j)
      BY DEF IInv, Chained
    <3> QED BY <1>1, <1>2, <3>1 DEF RowWellFormed
  <2>2. prior # n
    BY <1>1 DEF Rows
  <2> QED BY <1>1, <2>1, <2>2 DEF IsCurrent, Effective, Rows
<1> QED BY <1>3, <1>4

LEMMA ReportedAfter ==
  ASSUME IInv, NEW u \in Users, NEW s \in Signals, NEW v \in Version,
         NEW seen \in 0..MaxEvents,
         NEW n \in Nat, n = NextId,
         RecordEvent(u, s, v, NoEvent, n, seen)
  PROVE  /\ Fills' = Fills \union {n}
         /\ n \notin DOMAIN events
         /\ CurrentRows(n)' = {n}
         /\ \A f \in Fills : CurrentRows(f)' = CurrentRows(f)
<1>0. NoEvent \in 0..MaxEvents
  BY BoundsAssumption DEF NoEvent
<1>1. /\ \A i \in DOMAIN events : events'[i] = events[i] /\ trace'[i] = trace[i]
      /\ DOMAIN events' = DOMAIN events \union {n}
      /\ DOMAIN events = 1..Len(events)
      /\ n \notin DOMAIN events /\ n # NoEvent
      /\ trace'[n].fill = n
  BY <1>0, NewRow DEF IInv
<1>2. DOMAIN events = 1..(n - 1)
  BY <1>1 DEF IInv, TypeOK, NextId
<1>3. \A i \in DOMAIN events : trace[i].fill \in 1..i
  BY DEF IInv, Chained, RowWellFormed
<1>4. /\ \A i \in DOMAIN events : IsCurrent(i)' <=> (IsCurrent(i) /\ i # NoEvent)
      /\ IsCurrent(n)'
  BY <1>0, CurrentAfter
<1>5. \A i \in DOMAIN events : IsCurrent(i)' <=> IsCurrent(i)
  BY <1>2, <1>4 DEF NoEvent
<1>6. Fills' = Fills \union {n}
  BY <1>1 DEF Fills
<1>7. CurrentRows(n)' = {n}
  <2>1. \A i \in DOMAIN events : trace[i].fill # n
    BY <1>2, <1>3
  <2> QED BY <1>1, <1>4, <2>1 DEF CurrentRows, Chain
<1>8. ASSUME NEW f \in Fills PROVE CurrentRows(f)' = CurrentRows(f)
  <2>1. f # n
    BY <1>1 DEF Fills
  <2> QED BY <1>1, <1>5, <2>1 DEF CurrentRows, Chain
<1> QED BY <1>1, <1>6, <1>7, <1>8

LEMMA CorrectedAfter ==
  ASSUME IInv, OneCurrentRowPerFill,
         NEW u \in Users, NEW s \in Signals, NEW v \in Version,
         NEW prior \in Rows(u, s), IsCurrent(prior),
         NEW seen \in 0..MaxEvents,
         NEW n \in Nat, n = NextId,
         NEW f \in Nat, f = trace[prior].fill,
         RecordEvent(u, s, v, prior, f, seen)
  PROVE  /\ Fills' = Fills /\ f \in Fills
         /\ CurrentRows(f) = {prior}
         /\ CurrentRows(f)' = {n}
         /\ \A g \in Fills : g # f => CurrentRows(g)' = CurrentRows(g)
<1>0. prior \in DOMAIN events /\ prior \in 0..MaxEvents
  BY BoundsAssumption DEF IInv, TypeOK, Rows
<1>1. /\ \A i \in DOMAIN events : events'[i] = events[i] /\ trace'[i] = trace[i]
      /\ DOMAIN events' = DOMAIN events \union {n}
      /\ DOMAIN events = 1..Len(events)
      /\ n \notin DOMAIN events
      /\ trace'[n].fill = f
  BY <1>0, NewRow DEF IInv
<1>2. f \in Fills
  <2>1. RowWellFormed(prior)
    BY <1>0 DEF IInv, Chained
  <2> QED BY <1>0, <1>1, <2>1 DEF RowWellFormed, Fills
<1>3. /\ \A i \in DOMAIN events : IsCurrent(i)' <=> (IsCurrent(i) /\ i # prior)
      /\ IsCurrent(n)'
  BY <1>0, CurrentAfter
<1>4. f # n
  BY <1>1, <1>2 DEF Fills
<1>5. Fills' = Fills
  BY <1>1, <1>4 DEF Fills
<1>6. CurrentRows(f) = {prior}
  <2>1. prior \in CurrentRows(f)
    BY <1>0 DEF CurrentRows, Chain
  <2> QED BY <1>2, <2>1 DEF OneCurrentRowPerFill
<1>7. CurrentRows(f)' = {n}
  BY <1>1, <1>3, <1>6 DEF CurrentRows, Chain
<1>8. ASSUME NEW g \in Fills, g # f PROVE CurrentRows(g)' = CurrentRows(g)
  BY <1>0, <1>1, <1>3, <1>8 DEF CurrentRows, Chain
<1> QED BY <1>2, <1>5, <1>6, <1>7, <1>8

\* What a step does to the table: nothing, one report, or one correction.
Reports(n, u, s, v) == \E seen \in 0..MaxEvents : RecordEvent(u, s, v, NoEvent, n, seen)
Corrects(n, u, s, v, i) ==
  /\ i \in Picked(u, s)
  /\ \E seen \in 0..MaxEvents : RecordEvent(u, s, v, i, trace[i].fill, seen)

LEMMA TableSteps ==
  ASSUME IInv, [Next]_vars, NEW n \in Nat, n = NextId
  PROVE  \/ UNCHANGED <<events, trace>>
         \/ \E u \in Users, s \in Signals, v \in Version : Reports(n, u, s, v)
         \/ \E u \in Users, s \in Signals, v \in Version, i \in DOMAIN events :
               Corrects(n, u, s, v, i)
<1>1. Len(events) \in 0..MaxEvents
  BY BoundsAssumption DEF IInv, TypeOK
<1>2. ASSUME NEW u \in Users, NEW s \in Signals, NEW v \in Version, RecordBuy(u, s, v)
      PROVE  Reports(n, u, s, v)
  BY <1>1, <1>2 DEF RecordBuy, Reports
<1>3. ASSUME NEW u \in Users, NEW s \in Signals, NEW v \in Version, NEW i \in DOMAIN events,
             RecordCorrection(u, s, i, v)
      PROVE  Corrects(n, u, s, v, i)
  BY <1>1, <1>3 DEF RecordCorrection, Corrects
<1>4. ASSUME NEW w \in Workers, RecordSell(w)
      PROVE  \E u \in Users, s \in Signals, v \in Version : Reports(n, u, s, v)
  <2>1. pending[w] \in Pending
    BY <1>4 DEF IInv, TypeOK, RecordSell
  <2>2. /\ pending[w].user \in Users
        /\ pending[w].signal \in Signals
        /\ pending[w].version \in Version
        /\ pending[w].seen \in 0..MaxEvents
    BY <2>1 DEF Pending
  <2>3. Reports(n, pending[w].user, pending[w].signal, pending[w].version)
    BY <1>4, <2>2 DEF RecordSell, Reports
  <2> QED BY <2>2, <2>3
<1>5. ASSUME NEW u \in Users, NEW s \in Signals, NEW v \in Version, NEW w \in Workers,
             ReadSell(w, u, s, v)
      PROVE  UNCHANGED <<events, trace>>
  BY <1>5 DEF ReadSell
<1>6. ASSUME Restart \/ NextDay \/ UNCHANGED vars PROVE UNCHANGED <<events, trace>>
  BY <1>6 DEF Restart, NextDay, vars
<1> QED BY <1>2, <1>3, <1>4, <1>5, <1>6 DEF Next

LEMMA NextOneCurrent ==
  ASSUME ~StaleTrail, IInv, OneCurrentRowPerFill, [Next]_vars
  PROVE  OneCurrentRowPerFill'
<1>0. PICK n \in Nat : n = NextId
  BY DEF IInv, TypeOK, NextId
<1>1. CASE UNCHANGED <<events, trace>>
  BY <1>1 DEF OneCurrentRowPerFill, Fills, CurrentRows, Chain, IsCurrent, Effective, Rows
<1>2. ASSUME NEW u \in Users, NEW s \in Signals, NEW v \in Version, Reports(n, u, s, v)
      PROVE  OneCurrentRowPerFill'
  <2>1. PICK seen \in 0..MaxEvents : RecordEvent(u, s, v, NoEvent, n, seen)
    BY <1>2 DEF Reports
  <2>2. /\ Fills' = Fills \union {n}
        /\ CurrentRows(n)' = {n}
        /\ \A f \in Fills : CurrentRows(f)' = CurrentRows(f)
    BY <1>0, <2>1, ReportedAfter
  <2> QED BY <2>2 DEF OneCurrentRowPerFill
<1>3. ASSUME NEW u \in Users, NEW s \in Signals, NEW v \in Version, NEW i \in DOMAIN events,
             Corrects(n, u, s, v, i)
      PROVE  OneCurrentRowPerFill'
  <2>1. i \in Rows(u, s) /\ IsCurrent(i)
    BY <1>3 DEF Corrects, Picked, Prior, IsCurrent
  <2>2. PICK f \in Nat : f = trace[i].fill
    BY DEF IInv, Chained, RowWellFormed
  <2>3. PICK seen \in 0..MaxEvents : RecordEvent(u, s, v, i, f, seen)
    BY <1>3, <2>2 DEF Corrects
  <2>4. /\ Fills' = Fills
        /\ CurrentRows(f)' = {n}
        /\ \A g \in Fills : g # f => CurrentRows(g)' = CurrentRows(g)
    BY <1>0, <2>1, <2>2, <2>3, CorrectedAfter
  <2> QED BY <2>4 DEF OneCurrentRowPerFill
<1> QED BY <1>0, <1>1, <1>2, <1>3, TableSteps

LEMMA InitOneCurrent == Init => OneCurrentRowPerFill
  BY DEF Init, OneCurrentRowPerFill, Fills

\* A fill is never counted twice while readers correct current rows only.
THEOREM OneRowPerFill == ASSUME ~StaleTrail PROVE Spec => []OneCurrentRowPerFill
<1>1. IInv /\ OneCurrentRowPerFill /\ [Next]_vars => OneCurrentRowPerFill'
  BY NextOneCurrent
<1> QED BY <1>1, InitOneCurrent, InvariantHolds, PTL DEF Spec

-----------------------------------------------------------------------------
(* The refinement: a report enters the book, a correction amends its fill.  *)

LEMMA BookInit == Init => Promise!Init
<1> SUFFICES ASSUME Init PROVE Promise!Init
  OBVIOUS
<1>1. Fills = {}
  BY DEF Init, Fills
<1> QED BY <1>1 DEF Promise!Init, Book

LEMMA BookNext ==
  ASSUME ~StaleTrail, IInv, OneCurrentRowPerFill, [Next]_vars
  PROVE  [Promise!Next]_Book
<1>0. PICK n \in Nat : n = NextId
  BY DEF IInv, TypeOK, NextId
<1>e. Fills \subseteq DOMAIN events /\ DOMAIN events = 1..Len(events) /\ Len(events) \in Nat
  BY DEF Fills, IInv, TypeOK
<1>1. ASSUME UNCHANGED <<events, trace>> PROVE UNCHANGED Book
  BY <1>1 DEF Book, Entry, Current, Fills, CurrentRows, Chain, IsCurrent, Effective, Rows
<1>c. ASSUME NEW f \in Fills PROVE Current(f) \in CurrentRows(f) /\ Current(f) \in DOMAIN events
  <2>1. f \in DOMAIN events /\ trace[f].fill = f
    BY DEF Fills
  <2>2. CurrentRows(f) # {}
    BY <2>1, LastOfChainIsCurrent DEF CurrentRows
  <2> QED BY <2>2 DEF Current, CurrentRows, Chain
<1>2. ASSUME NEW u \in Users, NEW s \in Signals, NEW v \in Version, Reports(n, u, s, v)
      PROVE  Promise!Next
  <2>1. PICK seen \in 0..MaxEvents : RecordEvent(u, s, v, NoEvent, n, seen)
    BY <1>2 DEF Reports
  <2>2. /\ Fills' = Fills \union {n} /\ n \notin DOMAIN events
        /\ CurrentRows(n)' = {n}
        /\ \A f \in Fills : CurrentRows(f)' = CurrentRows(f)
    BY <1>0, <2>1, ReportedAfter
  <2>3. /\ \A i \in DOMAIN events : events'[i] = events[i]
        /\ events'[n].user = u /\ events'[n].signal = s /\ events'[n].version = v
        /\ n \in 1..MaxEvents
    <3>1. NoEvent \in 0..MaxEvents
      BY BoundsAssumption DEF NoEvent
    <3>2. n \in 1..MaxEvents
      BY <1>0, <2>1, BoundsAssumption DEF RecordEvent, Room, NextId, IInv, TypeOK
    <3> QED BY <1>0, <2>1, <3>1, <3>2, NewRow DEF IInv
  <2>4. \A f \in Fills : Current(f)' = Current(f)
    BY <2>2 DEF Current
  <2>5. Current(n)' = n
    BY <2>2 DEF Current
  <2>6. \A f \in Fills : Book'[f] = Book[f]
    BY <1>c, <2>2, <2>3, <2>4 DEF Book, Entry
  <2>7. Book'[n] = [position |-> <<u, s>>, version |-> v]
    BY <2>2, <2>3, <2>5 DEF Book, Entry
  <2>8. Promise!Report(n)
    <3> DEFINE r == [position |-> <<u, s>>, version |-> v]
    <3>1. r \in Promise!Entries
      BY DEF Promise!Entries
    <3>2. n \notin DOMAIN Book /\ DOMAIN Book = Fills
      BY <1>e, <2>2 DEF Book
    <3>3. Book' = [g \in Fills \union {n} |-> Book'[g]]
      BY <2>2 DEF Book
    <3>4. Book' = [g \in Fills \union {n} |-> IF g = n THEN r ELSE Book[g]]
      BY <2>6, <2>7, <3>3
    <3> HIDE DEF r
    <3> QED BY <3>1, <3>2, <3>4 DEF Promise!Report
  <2> QED BY <2>3, <2>8 DEF Promise!Next
<1>3. ASSUME NEW u \in Users, NEW s \in Signals, NEW v \in Version, NEW i \in DOMAIN events,
             Corrects(n, u, s, v, i)
      PROVE  Promise!Next
  <2>1. i \in Rows(u, s) /\ IsCurrent(i)
    BY <1>3 DEF Corrects, Picked, Prior, IsCurrent
  <2>2. PICK f \in Nat : f = trace[i].fill
    BY DEF IInv, Chained, RowWellFormed
  <2>3. PICK seen \in 0..MaxEvents : RecordEvent(u, s, v, i, f, seen)
    BY <1>3, <2>2 DEF Corrects
  <2>4. /\ Fills' = Fills /\ f \in Fills
        /\ CurrentRows(f) = {i} /\ CurrentRows(f)' = {n}
        /\ \A g \in Fills : g # f => CurrentRows(g)' = CurrentRows(g)
    BY <1>0, <2>1, <2>2, <2>3, CorrectedAfter
  <2>5. /\ \A j \in DOMAIN events : events'[j] = events[j]
        /\ events'[n].user = u /\ events'[n].signal = s /\ events'[n].version = v
    <3>1. i \in 0..MaxEvents
      BY BoundsAssumption DEF IInv, TypeOK
    <3> QED BY <1>0, <2>3, <3>1, NewRow DEF IInv
  <2>6. Current(f) = i /\ Current(f)' = n
    BY <2>4 DEF Current
  <2>7. \A g \in Fills : g # f => Current(g)' = Current(g)
    BY <2>4 DEF Current
  <2>8. \A g \in Fills : g # f => Book'[g] = Book[g]
    BY <1>c, <2>4, <2>5, <2>7 DEF Book, Entry
  <2>9. /\ Book[f] = [position |-> <<u, s>>, version |-> events[i].version]
        /\ Book'[f] = [position |-> <<u, s>>, version |-> v]
    BY <2>1, <2>4, <2>5, <2>6 DEF Book, Entry, Rows
  <2>10. f \in DOMAIN Book
    BY <2>4 DEF Book
  <2>11. Promise!Amend(f)
    <3>1. /\ Book = [g \in Fills |-> Book[g]]
          /\ Book' = [g \in Fills |-> Book'[g]]
      BY <2>4 DEF Book
    <3>2. Book' = [Book EXCEPT ![f] = Book'[f]]
      BY <2>4, <2>8, <3>1
    <3>3. Book'[f] = [Book[f] EXCEPT !.version = v]
      BY <2>9
    <3>4. Book' = [Book EXCEPT ![f].version = v]
      BY <3>2, <3>3
    <3>5. DOMAIN Book' = DOMAIN Book
      BY <2>4 DEF Book
    <3> QED BY <2>10, <3>4, <3>5 DEF Promise!Amend
  <2>12. f \in 1..MaxEvents
    <3>1. f \in 1..Len(events) /\ Len(events) <= MaxEvents /\ MaxEvents \in Nat
      BY <1>e, <2>4, BoundsAssumption DEF IInv, TypeOK
    <3> QED BY <3>1, <1>e
  <2> QED BY <2>11, <2>12 DEF Promise!Next
<1> QED BY <1>0, <1>1, <1>2, <1>3, TableSteps

\* Whatever is interleaved, restarted or raced, the derived positions are
\* those of a book in which each fill has one version, in its position.
THEOREM LedgerImplementsBook == ASSUME ~StaleTrail PROVE Spec => ImplementsFillBook
<1>1. IInv /\ OneCurrentRowPerFill /\ [Next]_vars => [Promise!Next]_Book
  BY BookNext
<1> QED BY <1>1, BookInit, InvariantHolds, OneRowPerFill, PTL DEF Spec, ImplementsFillBook, Promise!Spec

\* The events table keeps its types and no fill leaves the maths, for any
\* handlers, bounds and restarts, stale corrections included.
THEOREM LedgerIsComplete == Spec => []LedgerInv
BY TypeCorrect, FillsNeverVanish, PTL DEF LedgerInv

-----------------------------------------------------------------------------
(* What a position holds is the sum of its current rows, so an oversell is *)
(* the doing of the sell that made it, or of what that sell had not read.  *)

\* What each row adds to its position.
Weights == [i \in DOMAIN events |-> Signed(events[i].version)]

LEMMA QtyInt == \A v \in Version : v.qty \in Int /\ v.qty > 0
<1>1. \A v \in Version : v.qty \in Qtys
  BY DEF Version
<1>2. \A q \in Qtys : q \in Int /\ q > 0
  BY QtysAssumption
<1> QED BY <1>1, <1>2

\* What any rows add up to.
LEMMA SharesAreSum ==
  TypeOK => /\ Weights \in [DOMAIN events -> Int]
            /\ \A S \in SUBSET DOMAIN events : \E g : Additive(Weights, S, g) /\ SharesOf(S) = g[S]
<1> SUFFICES ASSUME TypeOK
             PROVE  /\ Weights \in [DOMAIN events -> Int]
                    /\ \A S \in SUBSET DOMAIN events : \E g : Additive(Weights, S, g) /\ SharesOf(S) = g[S]
  OBVIOUS
<1>1. Weights \in [DOMAIN events -> Int]
  <2>1. ASSUME NEW i \in DOMAIN events PROVE Signed(events[i].version) \in Int
    <3>1. events[i] \in Event
      BY DEF TypeOK
    <3>2. events[i].version \in Version
      BY <3>1 DEF Event
    <3>3. events[i].version.qty \in Int
      BY <3>2, QtyInt
    <3> QED BY <3>3 DEF Signed
  <2> QED BY <2>1 DEF Weights
<1>2. ASSUME NEW Eff \in SUBSET DOMAIN events
      PROVE  \E g : Additive(Weights, Eff, g) /\ SharesOf(Eff) = g[Eff]
  <2> DEFINE h == [i \in Eff |-> Signed(events[i].version)]
             F(g) == [t \in SUBSET Eff |-> IF t = {} THEN 0 ELSE Signed(events[CHOOSE x \in t : TRUE].version)
                                                               + g[t \ {CHOOSE x \in t : TRUE}]]
  <2>1. Eff \subseteq DOMAIN events /\ IsFiniteSet(Eff)
    <3>1. DOMAIN events = 1..Len(events) /\ Len(events) \in Nat
      BY DEF TypeOK
    <3>2. IsFiniteSet(1..Len(events))
      BY <3>1, FS_Interval
    <3> QED BY <3>1, <3>2, FS_Subset
  <2>2. h \in [Eff -> Int] /\ \A i \in Eff : h[i] = Weights[i] /\ h[i] = Signed(events[i].version)
    BY <1>1, <2>1 DEF Weights
  <2>3. ASSUME NEW g PROVE (g = F(g)) <=> SumsTo(h, Eff, g)
    <3> DEFINE H == [t \in SUBSET Eff |-> IF t = {} THEN 0
                          ELSE h[CHOOSE x \in t : TRUE] + g[t \ {CHOOSE x \in t : TRUE}]]
    <3>1. ASSUME NEW t \in SUBSET Eff PROVE F(g)[t] = H[t]
      <4>1. t # {} => (CHOOSE x \in t : TRUE) \in Eff
        OBVIOUS
      <4> QED BY <2>2, <4>1
    <3>2. F(g) = H
      BY <3>1
    <3> QED BY <3>2 DEF SumsTo
  <2>4. PICK X : SumsTo(h, Eff, X)
    <3> HIDE DEF h
    <3> QED BY <2>1, <2>2, SumExists
  <2>5. \E g : g = F(g) /\ SharesOf(Eff) = g[Eff]
    <3>1. X = F(X)
      BY <2>3, <2>4
    <3>2. \E g : g = F(g)
      <4> HIDE DEF F
      <4> QED BY <3>1
    <3> QED BY <3>2 DEF SharesOf, MapThenSumSet, MapThenFoldSet
  <2>6. PICK g : SumsTo(h, Eff, g) /\ SharesOf(Eff) = g[Eff]
    BY <2>3, <2>5
  <2>7. Additive(h, Eff, g)
    <3> HIDE DEF h
    <3> QED BY <2>1, <2>2, <2>6, SumIsAdditive
  <2>8. Additive(Weights, Eff, g)
    <3> HIDE DEF h
    <3> QED BY <2>2, <2>7 DEF Additive
  <2> QED BY <2>6, <2>8
<1> QED BY <1>1, <1>2

LEMMA SharesAreSumNext ==
  TypeOK' => (/\ Weights \in [DOMAIN events -> Int]
              /\ \A S \in SUBSET DOMAIN events : \E g : Additive(Weights, S, g) /\ SharesOf(S) = g[S])'
BY SharesAreSum, PTL

LEMMA RawIsSum ==
  TypeOK => /\ Weights \in [DOMAIN events -> Int]
            /\ \A u, s : \E g : /\ Additive(Weights, Effective(u, s), g)
                              /\ RawRemaining(u, s) = g[Effective(u, s)]
<1>1. \A u, s : Effective(u, s) \in SUBSET DOMAIN events
  BY DEF Effective, Rows
<1> QED BY <1>1, SharesAreSum DEF RawRemaining

LEMMA RawIsSumNext ==
  TypeOK' => (/\ Weights \in [DOMAIN events -> Int]
              /\ \A u, s : \E g : /\ Additive(Weights, Effective(u, s), g)
                                /\ RawRemaining(u, s) = g[Effective(u, s)])'
BY RawIsSum, PTL

\* One row more: other positions keep their quantity; an uncorrecting row adds
\* its own to its position's.
LEMMA RawAfter ==
  ASSUME IInv, TypeOK', NEW u \in Users, NEW s \in Signals, NEW v \in Version,
         NEW prior \in 0..MaxEvents, NEW fill \in Nat, NEW seen \in 0..MaxEvents,
         RecordEvent(u, s, v, prior, fill, seen),
         prior = NoEvent \/ prior \in Rows(u, s),
         NEW n \in Nat, n = NextId
  PROVE  /\ Rows(u, s)' = Rows(u, s) \union {n} /\ n \notin DOMAIN events
         /\ \A a, b : a # u \/ b # s => Rows(a, b)' = Rows(a, b) /\ RawRemaining(a, b)' = RawRemaining(a, b)
         /\ prior = NoEvent => RawRemaining(u, s)' = RawRemaining(u, s) + Signed(v)
         /\ RawRemaining(u, s) \in Int
<1>1. /\ \A i \in DOMAIN events : events'[i] = events[i] /\ trace'[i] = trace[i]
      /\ DOMAIN events' = DOMAIN events \union {n}
      /\ DOMAIN events = 1..Len(events) /\ Len(events) \in Nat
      /\ n \notin DOMAIN events /\ n # NoEvent
      /\ events'[n].user = u /\ events'[n].signal = s /\ events'[n].version = v
  BY NewRow DEF IInv, TypeOK
<1>2. /\ \A i \in DOMAIN events : IsCurrent(i)' <=> (IsCurrent(i) /\ i # prior)
      /\ IsCurrent(n)'
  BY CurrentAfter
<1>3. Rows(u, s)' = Rows(u, s) \union {n}
  BY <1>1 DEF Rows
<1>4. \A a, b : a # u \/ b # s => Rows(a, b)' = Rows(a, b)
  BY <1>1 DEF Rows
<1>5. \A a, b : /\ Effective(a, b) = {i \in Rows(a, b) : IsCurrent(i)}
                /\ Effective(a, b)' = {i \in Rows(a, b)' : IsCurrent(i)'}
                /\ Rows(a, b) \subseteq DOMAIN events
  BY DEF IsCurrent, Effective, Rows
<1>6. \A a, b : a # u \/ b # s => Effective(a, b)' = Effective(a, b)
  <2> SUFFICES ASSUME NEW a, NEW b, a # u \/ b # s PROVE Effective(a, b)' = Effective(a, b)
    OBVIOUS
  <2>1. \A i \in Rows(a, b) : i \in DOMAIN events /\ i # prior
    <3>1. prior = NoEvent => prior \notin DOMAIN events
      BY <1>1 DEF NoEvent
    <3> QED BY <1>5, <3>1 DEF Rows
  <2> QED BY <1>2, <1>4, <1>5, <2>1
<1>7. prior = NoEvent => Effective(u, s)' = Effective(u, s) \union {n} /\ n \notin Effective(u, s)
  <2>1. \A i \in DOMAIN events : i # NoEvent
    BY <1>1 DEF NoEvent
  <2> QED BY <1>1, <1>2, <1>3, <1>5, <2>1
<1>8. PICK h, k : h = Weights /\ k = Weights'
  OBVIOUS
<1>9. /\ h \in [DOMAIN events -> Int] /\ k \in [DOMAIN events' -> Int]
      /\ \A i \in DOMAIN events : k[i] = h[i]
      /\ k[n] = Signed(v)
  <2>1. h \in [DOMAIN events -> Int] /\ k \in [DOMAIN events' -> Int]
    BY <1>8, RawIsSum, RawIsSumNext DEF IInv
  <2>2. \A i \in DOMAIN events : h[i] = Signed(events[i].version)
    BY <1>8 DEF Weights
  <2>3. \A i \in DOMAIN events' : k[i] = Signed(events'[i].version)
    BY <1>8 DEF Weights, Signed
  <2> QED BY <1>1, <2>1, <2>2, <2>3
<1>10. \A a, b : /\ \E g : Additive(h, Effective(a, b), g) /\ RawRemaining(a, b) = g[Effective(a, b)]
                 /\ \E f : Additive(k, Effective(a, b)', f) /\ RawRemaining(a, b)' = f[Effective(a, b)']
  BY <1>8, RawIsSum, RawIsSumNext DEF IInv
<1>11. \A a, b : IsFiniteSet(Effective(a, b)) /\ \A i \in Effective(a, b) : h[i] = k[i]
  <2>1. IsFiniteSet(DOMAIN events)
    BY <1>1, FS_Interval
  <2>2. \A a, b : Effective(a, b) \subseteq DOMAIN events
    BY <1>5
  <2> HIDE DEF Effective
  <2> QED BY <1>9, <2>1, <2>2, FS_Subset
<1> HIDE DEF Weights
<1>12. ASSUME NEW a, NEW b, a # u \/ b # s PROVE RawRemaining(a, b)' = RawRemaining(a, b)
  <2>1. PICK S : S = Effective(a, b) /\ S = Effective(a, b)'
    BY <1>6, <1>12
  <2>2. PICK g : Additive(h, S, g) /\ RawRemaining(a, b) = g[S]
    BY <1>10, <2>1
  <2>3. PICK f : Additive(k, S, f) /\ RawRemaining(a, b)' = f[S]
    BY <1>10, <2>1
  <2>4. IsFiniteSet(S) /\ S \subseteq S /\ \A i \in S : h[i] = k[i]
    BY <1>11, <2>1
  <2>5. g[S] = f[S]
    BY <2>2, <2>3, <2>4, SumsAgree
  <2> QED BY <2>2, <2>3, <2>5
<1>13. PICK S : S = Effective(u, s)
  OBVIOUS
<1>14. PICK g : Additive(h, S, g) /\ RawRemaining(u, s) = g[S]
  BY <1>10, <1>13
<1>15. RawRemaining(u, s) \in Int
  BY <1>14 DEF Additive
<1>16. ASSUME prior = NoEvent PROVE RawRemaining(u, s)' = RawRemaining(u, s) + Signed(v)
  <2>1. PICK T : T = S \union {n} /\ T = Effective(u, s)' /\ n \notin S
    BY <1>7, <1>13, <1>16
  <2>2. PICK f : Additive(k, T, f) /\ RawRemaining(u, s)' = f[T]
    BY <1>10, <2>1
  <2>3. IsFiniteSet(S) /\ S \subseteq T /\ \A i \in S : h[i] = k[i]
    BY <1>11, <1>13, <2>1
  <2>4. g[S] = f[S]
    BY <1>14, <2>2, <2>3, SumsAgree
  <2>5. f[T] = k[n] + f[T \ {n}] /\ f[S] \in Int
    BY <2>1, <2>2 DEF Additive
  <2>6. T \ {n} = S
    BY <2>1
  <2>7. g[S] \in Int /\ Signed(v) \in Int
    <3>1. k[n] \in Int
      BY <1>1, <1>9
    <3> QED BY <1>9, <2>4, <2>5, <3>1
  <2>8. f[T] = Signed(v) + g[S]
    BY <1>9, <2>4, <2>5, <2>6
  <2>9. \A x, y \in Int : x + y = y + x
    OBVIOUS
  <2>10. f[T] = g[S] + Signed(v)
    BY <2>7, <2>8, <2>9
  <2> QED BY <1>14, <2>2, <2>10
<1> QED BY <1>1, <1>3, <1>4, <1>12, <1>15, <1>16

LEMMA RemainingIs ==
  ASSUME NEW r \in Int, NEW m, m = Max({0, r})
  PROVE  (r >= 0 => m = r) /\ (r < 0 => m = 0)
<1>1. m = CHOOSE x \in {0, r} : \A y \in {0, r} : x >= y
  BY DEF Max
<1>2. ASSUME r >= 0 PROVE m = r
  <2>1. \A y \in {0, r} : r >= y
    BY <1>2
  <2>2. m \in {0, r} /\ \A y \in {0, r} : m >= y
    BY <1>1, <2>1
  <2> QED BY <1>2, <2>2
<1>3. ASSUME r < 0 PROVE m = 0
  <2>1. \A y \in {0, r} : 0 >= y
    BY <1>3
  <2>2. m \in {0, r} /\ \A y \in {0, r} : m >= y
    BY <1>1, <2>1
  <2> QED BY <1>3, <2>2
<1> QED BY <1>2, <1>3

LEMMA RemainingInt ==
  ASSUME NEW r \in Int PROVE Max({0, r}) \in Int
<1>1. \E x \in {0, r} : \A y \in {0, r} : x >= y
  <2>1. CASE r >= 0
    BY <2>1
  <2>2. CASE r < 0
    BY <2>2
  <2> QED BY <2>1, <2>2
<1>2. Max({0, r}) \in {0, r}
  BY <1>1 DEF Max
<1> QED BY <1>2

\* A quantity that has fallen fell at some row in between.
LEMMA SomeFall ==
  ASSUME NEW a \in Nat, NEW b \in Nat, a <= b, NEW h, \A n \in a..b : h[n] \in Int, h[b] < h[a]
  PROVE  \E j \in (a + 1)..b : h[j] < h[j - 1]
<1> DEFINE T == {n \in a..b : h[n] < h[a]}
<1>1. PICK m \in T : \A k \in T : ~(k < m)
  <2>1. T \in SUBSET Nat /\ b \in T
    OBVIOUS
  <2> QED BY <2>1, LeastElement
<1>2. m \in a..b /\ m # a /\ h[m] < h[a] /\ a \in a..b
  OBVIOUS
<1>3. m \in (a + 1)..b /\ m - 1 \in a..b /\ m - 1 < m
  BY <1>2
<1>4. ~(h[m - 1] < h[a])
  BY <1>1, <1>3
<1>5. h[m] < h[m - 1]
  <2>1. h[m] \in Int /\ h[a] \in Int /\ h[m - 1] \in Int
    BY <1>2, <1>3
  <2> HIDE DEF T
  <2> QED BY <1>2, <1>4, <2>1
<1> QED BY <1>3, <1>5

\* What a position held is a quantity, now that of all its rows.
LEMMA HeldIs ==
  ASSUME TypeOK, NEW u, NEW s
  PROVE  /\ \A n : HeldAt(u, s, n) \in Int
         /\ HeldAt(u, s, Len(events)) = RawRemaining(u, s)
<1>1. \A n : EffectiveUpTo(u, s, n) \in SUBSET DOMAIN events
  BY DEF EffectiveUpTo, Rows
<1>2. \A n : HeldAt(u, s, n) \in Int
  <2> TAKE n
  <2>1. PICK g : Additive(Weights, EffectiveUpTo(u, s, n), g)
                 /\ HeldAt(u, s, n) = g[EffectiveUpTo(u, s, n)]
    BY <1>1, SharesAreSum DEF HeldAt
  <2> QED BY <2>1 DEF Additive
<1>3. EffectiveUpTo(u, s, Len(events)) = Effective(u, s)
  <2>1. \A i \in Rows(u, s) : i <= Len(events)
    BY DEF Rows, TypeOK
  <2> QED BY <2>1 DEF EffectiveUpTo, Effective
<1> QED BY <1>2, <1>3 DEF HeldAt, RawRemaining

\* A position that holds less than it did lost shares by a row of its own.
LEMMA FallIsARow ==
  ASSUME TypeOK, NEW u, NEW s, NEW a \in Nat, a <= Len(events),
         HeldAt(u, s, Len(events)) < HeldAt(u, s, a)
  PROVE  \E j \in Rows(u, s) : a < j /\ TookShares(u, s, j)
<1> DEFINE h == [n \in Nat |-> HeldAt(u, s, n)]
<1>1. Len(events) \in Nat /\ DOMAIN events = 1..Len(events)
  BY DEF TypeOK
<1>2. \A n \in Nat : h[n] = HeldAt(u, s, n) /\ h[n] \in Int
  BY HeldIs
<1>3. PICK j \in (a + 1)..Len(events) : h[j] < h[j - 1]
  <2>1. h[Len(events)] < h[a] /\ \A n \in a..Len(events) : h[n] \in Int
    BY <1>1, <1>2
  <2> HIDE DEF h
  <2> QED BY <1>1, <2>1, SomeFall
<1>4. j \in DOMAIN events /\ a < j /\ j \in Nat /\ j - 1 \in Nat
  BY <1>1, <1>3
<1>5. HeldAt(u, s, j) < HeldAt(u, s, j - 1)
  BY <1>2, <1>3, <1>4
<1>6. j \in Rows(u, s)
  <2> SUFFICES ASSUME j \notin Rows(u, s) PROVE FALSE
    OBVIOUS
  <2>1. \A i \in Rows(u, s) : i \in Nat /\ (i <= j <=> i <= j - 1)
    BY <1>1, <1>4 DEF Rows
  <2>2. EffectiveUpTo(u, s, j) = EffectiveUpTo(u, s, j - 1)
    BY <2>1 DEF EffectiveUpTo
  <2>3. HeldAt(u, s, j) = HeldAt(u, s, j - 1)
    BY <2>2 DEF HeldAt
  <2>4. HeldAt(u, s, j) \in Int
    BY HeldIs
  <2> QED BY <1>5, <2>3, <2>4
<1> QED BY <1>4, <1>5, <1>6 DEF TookShares

\* What a position held is not rewritten by rows to come.
LEMMA HeldStays ==
  ASSUME TypeOK, TypeOK', Len(events) <= Len(events'),
         \A i \in DOMAIN events : events'[i] = events[i],
         NEW u, NEW s, NEW n \in Nat, n <= Len(events)
  PROVE  HeldAt(u, s, n)' = HeldAt(u, s, n)
<1>1. /\ Len(events) \in Nat /\ DOMAIN events = 1..Len(events)
      /\ Len(events') \in Nat /\ DOMAIN events' = 1..Len(events')
  BY DEF TypeOK
<1>2. \A i : i \in Rows(u, s)' /\ i <= n <=> i \in Rows(u, s) /\ i <= n
  BY <1>1 DEF Rows
<1>3. EffectiveUpTo(u, s, n)' = EffectiveUpTo(u, s, n)
  <2>1. \A j \in Rows(u, s) : events'[j] = events[j]
    BY DEF Rows
  <2> QED BY <1>2, <2>1 DEF EffectiveUpTo
<1>4. PICK S : S = EffectiveUpTo(u, s, n)
  OBVIOUS
<1>5. S \in SUBSET DOMAIN events /\ S \in SUBSET DOMAIN events' /\ IsFiniteSet(S)
  <2>1. S \in SUBSET DOMAIN events
    BY <1>4 DEF EffectiveUpTo, Rows
  <2>2. IsFiniteSet(1..Len(events))
    BY <1>1, FS_Interval
  <2> QED BY <1>1, <2>1, <2>2, FS_Subset
<1>6. PICK h, k : h = Weights /\ k = Weights'
  OBVIOUS
<1>7. \A i \in S : h[i] = k[i]
  <2>1. \A i \in S : h[i] = Signed(events[i].version)
    BY <1>5, <1>6 DEF Weights
  <2>2. \A i \in S : k[i] = Signed(events'[i].version)
    BY <1>5, <1>6 DEF Weights, Signed
  <2>3. \A i \in S : events'[i] = events[i]
    BY <1>5
  <2> QED BY <2>1, <2>2, <2>3
<1>8. PICK g : Additive(h, S, g) /\ HeldAt(u, s, n) = g[S]
  BY <1>4, <1>5, <1>6, SharesAreSum DEF HeldAt
<1>9. PICK f : Additive(k, S, f) /\ HeldAt(u, s, n)' = f[S]
  <2>1. \E f : Additive(k, S, f) /\ SharesOf(S)' = f[S]
    BY <1>5, <1>6, SharesAreSumNext
  <2>2. HeldAt(u, s, n)' = SharesOf(S)'
    BY <1>3, <1>4 DEF HeldAt, SharesOf, Signed
  <2> QED BY <2>1, <2>2
<1>10. g[S] = f[S]
  BY <1>5, <1>7, <1>8, <1>9, SumsAgree
<1> QED BY <1>8, <1>9, <1>10

\* What SilentOversellIsARace asks of one row.
RowWarned(u, s, i) ==
  TookShares(u, s, i) /\ HeldAt(u, s, i) < 0 =>
    \/ i \in warned
    \/ events[i].corrects # NoEvent
    \/ \E j \in Rows(u, s) : trace[i].seen < j /\ j < i /\ TookShares(u, s, j)

\* What a sell in flight was told of the position it had read.
Told(p) ==
  /\ p.seen <= Len(events)
  /\ p.warnings = Validate(p.version.qty, Max({0, HeldAt(p.user, p.signal, p.seen)}))
SellsTold == \A w \in Workers : pending[w] # Idle => Told(pending[w])

\* The rows to come and the warnings to come take nothing from what a row owed.
LEMMA RowStays ==
  ASSUME TypeOK, TypeOK', Len(events) <= Len(events'), warned \subseteq warned',
         \A i \in DOMAIN events : events'[i] = events[i] /\ trace'[i] = trace[i],
         NEW u, NEW s, NEW i \in Rows(u, s), RowWarned(u, s, i)
  PROVE  RowWarned(u, s, i)'
<1>1. /\ Len(events) \in Nat /\ DOMAIN events = 1..Len(events)
      /\ Len(events') \in Nat /\ DOMAIN events' = 1..Len(events')
  BY DEF TypeOK
<1>2. \A j \in Rows(u, s) : TookShares(u, s, j)' <=> TookShares(u, s, j)
  <2> TAKE j \in Rows(u, s)
  <2>1. j \in Nat /\ j - 1 \in Nat /\ j <= Len(events) /\ j - 1 <= Len(events)
    BY <1>1 DEF Rows
  <2>2. HeldAt(u, s, j)' = HeldAt(u, s, j)
    BY <2>1, HeldStays
  <2>3. HeldAt(u, s, j - 1)' = HeldAt(u, s, j - 1)
    BY <2>1, HeldStays
  <2> QED BY <2>2, <2>3 DEF TookShares
<1>3. HeldAt(u, s, i)' = HeldAt(u, s, i)
  <2>1. i \in Nat /\ i <= Len(events)
    BY <1>1 DEF Rows
  <2> QED BY <2>1, HeldStays
<1>4. Rows(u, s) \subseteq Rows(u, s)' /\ i \in DOMAIN events
  BY <1>1 DEF Rows
<1>5. ASSUME TookShares(u, s, i)', HeldAt(u, s, i)' < 0
      PROVE  \/ i \in warned' \/ events'[i].corrects # NoEvent
             \/ \E j \in Rows(u, s)' : trace'[i].seen < j /\ j < i /\ TookShares(u, s, j)'
  <2>1. TookShares(u, s, i) /\ HeldAt(u, s, i) < 0
    BY <1>2, <1>3, <1>5
  <2>2. \/ i \in warned \/ events[i].corrects # NoEvent
        \/ \E j \in Rows(u, s) : trace[i].seen < j /\ j < i /\ TookShares(u, s, j)
    BY <2>1 DEF RowWarned
  <2> QED BY <1>2, <1>4, <2>2
<1> QED BY <1>5 DEF RowWarned, NoEvent

\* The row a request writes: a correction is excused, a buy adds shares, and a
\* sell that fitted what it read is short only of what was taken since.
LEMMA RowAdded ==
  ASSUME IInv, TypeOK', NEW u \in Users, NEW s \in Signals, NEW v \in Version,
         NEW prior \in 0..MaxEvents, NEW fill \in Nat, NEW seen \in 0..MaxEvents,
         RecordEvent(u, s, v, prior, fill, seen),
         prior = NoEvent \/ prior \in Rows(u, s), seen <= Len(events),
         NEW n \in Nat, n = NextId,
         prior # NoEvent \/ v.side = "BUY" \/ n \in warned'
           \/ v.qty <= Max({0, HeldAt(u, s, seen)})
  PROVE  RowWarned(u, s, n)'
<1>1. /\ Rows(u, s)' = Rows(u, s) \union {n} /\ n \notin DOMAIN events
      /\ prior = NoEvent => RawRemaining(u, s)' = RawRemaining(u, s) + Signed(v)
      /\ RawRemaining(u, s) \in Int
  BY RawAfter
<1>2. /\ \A i \in DOMAIN events : events'[i] = events[i]
      /\ events'[n].corrects = prior /\ trace'[n].seen = seen
      /\ Len(events) \in Nat /\ DOMAIN events = 1..Len(events)
      /\ Len(events') = n /\ n = Len(events) + 1
  <2>1. trace'[n].seen = seen
    <3>1. Len(trace) = Len(events) /\ trace' = Append(trace, [fill |-> fill, seen |-> seen]) /\ trace \in Seq(Trace)
      BY DEF IInv, TypeOK, RecordEvent
    <3>2. n = Len(trace) + 1
      BY <3>1 DEF NextId
    <3> QED BY <3>1, <3>2
  <2>2. Len(events') = Len(events) + 1
    BY DEF IInv, TypeOK, RecordEvent
  <2>3. Len(events) \in Nat /\ DOMAIN events = 1..Len(events)
    BY DEF IInv, TypeOK
  <2> QED BY <2>1, <2>2, <2>3, NewRow DEF IInv, NextId
<1>3. HeldAt(u, s, n)' = RawRemaining(u, s)'
  <2>1. (HeldAt(u, s, Len(events)) = RawRemaining(u, s))'
    BY HeldIs, PTL
  <2> QED BY <1>2, <2>1
<1>4. HeldAt(u, s, n - 1)' = RawRemaining(u, s)
  <2>1. n - 1 \in Nat /\ n - 1 = Len(events) /\ Len(events) <= Len(events')
    BY <1>2
  <2>2. HeldAt(u, s, n - 1)' = HeldAt(u, s, n - 1)
    BY <1>2, <2>1, HeldStays DEF IInv
  <2>3. HeldAt(u, s, Len(events)) = RawRemaining(u, s)
    BY HeldIs DEF IInv
  <2> QED BY <2>1, <2>2, <2>3
<1>5. v.qty \in Int /\ v.qty > 0 /\ v.side \in {"BUY", "SELL"}
  <2>1. \A x \in Version : x.side \in Sides
    BY DEF Version
  <2> QED BY <2>1, QtyInt DEF Sides
<1>6. ASSUME prior = NoEvent, v.side = "BUY" PROVE ~TookShares(u, s, n)'
  <2>1. RawRemaining(u, s)' = RawRemaining(u, s) + v.qty
    BY <1>1, <1>6 DEF Signed
  <2>2. ~(RawRemaining(u, s)' < RawRemaining(u, s))
    BY <1>1, <1>5, <2>1
  <2> QED BY <1>3, <1>4, <2>2 DEF TookShares
<1>7. ASSUME prior = NoEvent, v.side = "SELL", v.qty <= Max({0, HeldAt(u, s, seen)}),
             HeldAt(u, s, n)' < 0
      PROVE  \E j \in Rows(u, s)' : trace'[n].seen < j /\ j < n /\ TookShares(u, s, j)'
  <2>1. RawRemaining(u, s)' = RawRemaining(u, s) - v.qty
    BY <1>1, <1>5, <1>7 DEF Signed
  <2>2. RawRemaining(u, s) < v.qty
    BY <1>1, <1>3, <1>5, <1>7, <2>1
  <2>3. PICK h \in Int : h = HeldAt(u, s, seen)
    BY HeldIs DEF IInv
  <2>4. h >= 0 /\ v.qty <= h
    <3>1. h < 0 => Max({0, h}) = 0
      BY RemainingIs
    <3>2. h >= 0 => Max({0, h}) = h
      BY RemainingIs
    <3>3. v.qty <= Max({0, h})
      BY <1>7, <2>3
    <3> QED BY <1>5, <3>1, <3>2, <3>3
  <2>5. HeldAt(u, s, Len(events)) < HeldAt(u, s, seen)
    <3>1. HeldAt(u, s, Len(events)) = RawRemaining(u, s)
      BY HeldIs DEF IInv
    <3>2. RawRemaining(u, s) < h
      BY <1>1, <1>5, <2>2, <2>4
    <3> QED BY <2>3, <3>1, <3>2
  <2>6. seen \in Nat
    BY BoundsAssumption
  <2>7. PICK j \in Rows(u, s) : seen < j /\ TookShares(u, s, j)
    BY <2>5, <2>6, FallIsARow DEF IInv
  <2>8. j \in Nat /\ j - 1 \in Nat /\ j <= Len(events) /\ j - 1 <= Len(events) /\ j < n
        /\ Len(events) <= Len(events')
    BY <1>2 DEF Rows
  <2>9. HeldAt(u, s, j)' = HeldAt(u, s, j)
    BY <1>2, <2>8, HeldStays DEF IInv
  <2>10. HeldAt(u, s, j - 1)' = HeldAt(u, s, j - 1)
    BY <1>2, <2>8, HeldStays DEF IInv
  <2>11. TookShares(u, s, j)'
    BY <2>7, <2>9, <2>10 DEF TookShares
  <2> QED BY <1>1, <1>2, <2>7, <2>8, <2>11
<1>8. ASSUME TookShares(u, s, n)', HeldAt(u, s, n)' < 0
      PROVE  \/ n \in warned' \/ events'[n].corrects # NoEvent
             \/ \E j \in Rows(u, s)' : trace'[n].seen < j /\ j < n /\ TookShares(u, s, j)'
  BY <1>2, <1>5, <1>6, <1>7, <1>8
<1> QED BY <1>8 DEF RowWarned, NoEvent

\* A request's row leaves every row with its warning, and the sells still in
\* flight with what they were told.
LEMMA RecordKeeps ==
  ASSUME IInv, TypeOK', NEW u \in Users, NEW s \in Signals, NEW v \in Version,
         NEW prior \in 0..MaxEvents, NEW fill \in Nat, NEW seen \in 0..MaxEvents,
         RecordEvent(u, s, v, prior, fill, seen),
         prior = NoEvent \/ prior \in Rows(u, s), seen <= Len(events),
         warned \subseteq warned',
         SilentOversellIsARace, SellsTold,
         prior # NoEvent \/ v.side = "BUY" \/ NextId \in warned'
           \/ v.qty <= Max({0, HeldAt(u, s, seen)}),
         \A w \in Workers : pending'[w] # Idle => pending'[w] = pending[w]
  PROVE  SilentOversellIsARace' /\ SellsTold'
<1>0. PICK n \in Nat : n = NextId
  BY DEF IInv, TypeOK, NextId
<1>1. /\ Rows(u, s)' = Rows(u, s) \union {n}
      /\ \A a, b : a # u \/ b # s => Rows(a, b)' = Rows(a, b)
  BY <1>0, RawAfter
<1>2. /\ Len(events) <= Len(events')
      /\ \A i \in DOMAIN events : events'[i] = events[i] /\ trace'[i] = trace[i]
  <2>1. Len(events) \in Nat /\ Len(events') = Len(events) + 1
    BY DEF IInv, TypeOK, RecordEvent
  <2>2. \A i \in DOMAIN events : events'[i] = events[i] /\ trace'[i] = trace[i]
    BY NewRow DEF IInv
  <2> QED BY <2>1, <2>2
<1>3. ASSUME NEW a \in Users, NEW b \in Signals, NEW i \in Rows(a, b)' PROVE RowWarned(a, b, i)'
  <2>1. CASE i \in Rows(a, b)
    <3>1. RowWarned(a, b, i)
      BY <2>1 DEF SilentOversellIsARace, RowWarned
    <3> QED BY <1>2, <2>1, <3>1, RowStays DEF IInv
  <2>2. CASE i \notin Rows(a, b)
    <3>1. a = u /\ b = s /\ i = n
      BY <1>1, <2>2
    <3>2. RowWarned(u, s, n)'
      BY <1>0, RowAdded
    <3> QED BY <3>1, <3>2
  <2> QED BY <2>1, <2>2
<1>4. ASSUME NEW w \in Workers, pending'[w] # Idle PROVE Told(pending[w])'
  <2>1. PICK p : p = pending[w] /\ p = pending'[w]
    BY <1>4
  <2>2. Told(p) /\ p \in Pending
    BY <1>4, <2>1 DEF SellsTold, IInv, TypeOK
  <2>3. PICK a, b, m : a = p.user /\ b = p.signal /\ m = p.seen
    OBVIOUS
  <2>4. m \in Nat /\ m <= Len(events) /\ Len(events) \in Nat /\ Len(events') \in Nat
    BY <2>2, <2>3, BoundsAssumption DEF Told, Pending, IInv, TypeOK
  <2>5. HeldAt(a, b, m)' = HeldAt(a, b, m)
    BY <1>2, <2>4, HeldStays DEF IInv
  <2>6. m <= Len(events')
    BY <1>2, <2>4
  <2>7. Told(p)'
    BY <2>2, <2>3, <2>5, <2>6 DEF Told
  <2> QED BY <2>1, <2>7 DEF Told
<1> QED BY <1>3, <1>4 DEF SilentOversellIsARace, RowWarned, SellsTold

LEMMA OversellInit == Init => SilentOversellIsARace /\ SellsTold
<1> SUFFICES ASSUME Init PROVE SilentOversellIsARace /\ SellsTold
  OBVIOUS
<1>1. SellsTold
  BY DEF Init, SellsTold
<1>2. \A u, s : Rows(u, s) = {}
  BY DEF Init, Rows
<1> QED BY <1>1, <1>2 DEF SilentOversellIsARace

\* A step that leaves the table alone.
LEMMA SameTable ==
  ASSUME IInv, TypeOK', UNCHANGED <<events, trace, warned>>, SilentOversellIsARace
  PROVE  SilentOversellIsARace' /\ \A p \in Pending : Told(p) => Told(p)'
<1>1. /\ Len(events) <= Len(events') /\ Len(events) \in Nat
      /\ \A i \in DOMAIN events : events'[i] = events[i] /\ trace'[i] = trace[i]
  BY DEF IInv, TypeOK
<1>2. ASSUME NEW a \in Users, NEW b \in Signals, NEW i \in Rows(a, b)' PROVE RowWarned(a, b, i)'
  <2>1. i \in Rows(a, b)
    BY DEF Rows
  <2>2. RowWarned(a, b, i)
    BY <2>1 DEF SilentOversellIsARace, RowWarned
  <2> QED BY <1>1, <2>1, <2>2, RowStays DEF IInv
<1>3. ASSUME NEW p \in Pending, Told(p) PROVE Told(p)'
  <2>1. PICK a, b, m : a = p.user /\ b = p.signal /\ m = p.seen
    OBVIOUS
  <2>2. m \in Nat /\ m <= Len(events)
    BY <1>3, <2>1, BoundsAssumption DEF Told, Pending
  <2>3. HeldAt(a, b, m)' = HeldAt(a, b, m)
    BY <1>1, <2>2, HeldStays DEF IInv
  <2> QED BY <1>3, <2>1, <2>3 DEF Told
<1> QED BY <1>2, <1>3 DEF SilentOversellIsARace, RowWarned

LEMMA OversellNext ==
  ASSUME IInv, TypeOK', SilentOversellIsARace, SellsTold, [Next]_vars
  PROVE  SilentOversellIsARace' /\ SellsTold'
<1>t. /\ Len(events) \in 0..MaxEvents /\ NoEvent \in 0..MaxEvents /\ NextId \in Nat
      /\ Len(events) <= Len(events)
  BY BoundsAssumption DEF IInv, TypeOK, NoEvent, NextId
<1>1. ASSUME NEW u \in Users, NEW s \in Signals, NEW v \in Version, RecordBuy(u, s, v)
      PROVE  SilentOversellIsARace' /\ SellsTold'
  <2>1. RecordEvent(u, s, v, NoEvent, NextId, Len(events)) /\ v.side = "BUY"
    BY <1>1 DEF RecordBuy, Request
  <2>2. warned' = warned /\ pending' = pending
    BY <1>1 DEF RecordBuy
  <2> QED BY <1>t, <2>1, <2>2, RecordKeeps
<1>2. ASSUME NEW u \in Users, NEW s \in Signals, NEW v \in Version, NEW i \in DOMAIN events,
             RecordCorrection(u, s, i, v)
      PROVE  SilentOversellIsARace' /\ SellsTold'
  <2>1. i \in 0..MaxEvents /\ i # NoEvent
    BY BoundsAssumption DEF IInv, TypeOK, NoEvent
  <2>2. trace[i].fill \in Nat
    BY DEF IInv, Chained, RowWellFormed
  <2>3. RecordEvent(u, s, v, i, trace[i].fill, Len(events)) /\ i \in Rows(u, s)
    BY <1>2 DEF RecordCorrection, Picked, Prior
  <2>4. warned' = warned /\ pending' = pending
    BY <1>2 DEF RecordCorrection
  <2> QED BY <1>t, <2>1, <2>2, <2>3, <2>4, RecordKeeps
<1>3. ASSUME NEW w \in Workers, RecordSell(w) PROVE SilentOversellIsARace' /\ SellsTold'
  <2>1. pending[w] \in Pending /\ Told(pending[w])
    BY <1>3 DEF IInv, TypeOK, RecordSell, SellsTold
  <2>2. PICK p : p = pending[w]
    OBVIOUS
  <2>3. PICK u \in Users, s \in Signals, v \in Version, seen \in 0..MaxEvents :
          u = p.user /\ s = p.signal /\ v = p.version /\ seen = p.seen
    BY <2>1, <2>2 DEF Pending
  <2>4. /\ RecordEvent(u, s, v, NoEvent, NextId, seen)
        /\ warned' = IF p.warnings # {} THEN warned \union {NextId} ELSE warned
        /\ pending' = [pending EXCEPT ![w] = Idle]
    BY <1>3, <2>2, <2>3 DEF RecordSell
  <2>5. /\ seen <= Len(events)
        /\ NextId \in warned' \/ v.qty <= Max({0, HeldAt(u, s, seen)})
    <3>1. seen <= Len(events) /\ p.warnings = Validate(v.qty, Max({0, HeldAt(u, s, seen)}))
      BY <2>1, <2>2, <2>3 DEF Told
    <3>2. PICK m \in Int : m = Max({0, HeldAt(u, s, seen)})
      BY HeldIs, RemainingInt DEF IInv
    <3>3. p.warnings = {} => v.qty <= m
      <4>1. v.qty \in Int
        BY QtyInt
      <4>2. p.warnings = {} => ~(v.qty > m)
        BY <3>1, <3>2 DEF Validate
      <4> QED BY <3>2, <4>1, <4>2
    <3>4. p.warnings # {} => NextId \in warned'
      BY <2>4
    <3> QED BY <3>1, <3>2, <3>3, <3>4
  <2>6. /\ warned \subseteq warned'
        /\ \A x \in Workers : pending'[x] # Idle => pending'[x] = pending[x]
    BY <2>4 DEF IInv, TypeOK
  <2> QED BY <1>t, <2>4, <2>5, <2>6, RecordKeeps
<1>4. ASSUME NEW u \in Users, NEW s \in Signals, NEW v \in Version, NEW w \in Workers,
             ReadSell(w, u, s, v)
      PROVE  SilentOversellIsARace' /\ SellsTold'
  <2>1. PICK p : /\ p = [user |-> u, signal |-> s, version |-> v, seen |-> Len(events),
                         warnings |-> Validate(v.qty, Remaining(u, s))]
                 /\ pending' = [pending EXCEPT ![w] = p] /\ UNCHANGED <<events, trace, warned>>
    BY <1>4 DEF ReadSell
  <2>2. Told(p)
    <3>1. HeldAt(u, s, Len(events)) = RawRemaining(u, s)
      BY HeldIs DEF IInv
    <3> QED BY <1>t, <2>1, <3>1 DEF Told, Remaining
  <2>3. p \in Pending
    <3>1. Validate(v.qty, Remaining(u, s)) \in SUBSET {"oversell"}
      BY DEF Validate
    <3> QED BY <1>t, <2>1, <3>1 DEF Pending
  <2>4. ASSUME NEW x \in Workers, pending'[x] # Idle PROVE Told(pending[x])'
    <3>1. PICK q \in Pending : q = pending'[x] /\ Told(q)
      <4>1. CASE x = w
        BY <2>1, <2>2, <2>3, <4>1 DEF IInv, TypeOK
      <4>2. CASE x # w
        BY <2>1, <2>4, <4>2 DEF IInv, TypeOK, SellsTold
      <4> QED BY <4>1, <4>2
    <3>2. Told(q)'
      BY <2>1, <3>1, SameTable
    <3> QED BY <3>1, <3>2 DEF Told
  <2>5. SilentOversellIsARace'
    BY <2>1, SameTable
  <2> QED BY <2>4, <2>5 DEF SellsTold
<1>5. ASSUME Restart \/ NextDay \/ UNCHANGED vars PROVE SilentOversellIsARace' /\ SellsTold'
  <2>1. UNCHANGED <<events, trace, warned>>
    BY <1>5 DEF Restart, NextDay, vars
  <2>2. \A w \in Workers : pending'[w] # Idle => pending'[w] = pending[w] /\ pending[w] # Idle
    BY <1>5 DEF Restart, NextDay, vars
  <2>3. ASSUME NEW w \in Workers, pending'[w] # Idle PROVE Told(pending[w])'
    <3>1. PICK q \in Pending : q = pending'[w] /\ Told(q)
      BY <2>2, <2>3 DEF SellsTold, IInv, TypeOK
    <3>2. Told(q)'
      BY <2>1, <3>1, SameTable
    <3> QED BY <3>1, <3>2 DEF Told
  <2>4. SilentOversellIsARace'
    BY <2>1, SameTable
  <2> QED BY <2>3, <2>4 DEF SellsTold
<1> QED BY <1>1, <1>2, <1>3, <1>4, <1>5 DEF Next

\* A sell that leaves its position short carries its own warning, unless a row
\* that took shares from the position was written between what the sell read
\* and its own row.  (Of a correction no warning is owed: the handler of
\* /correct asks none.)
THEOREM OversellsAreWarnedOf == Spec => []SilentOversellIsARace
<1>1. IInv /\ TypeOK' /\ SilentOversellIsARace /\ SellsTold /\ [Next]_vars
        => SilentOversellIsARace' /\ SellsTold'
  BY OversellNext
<1> QED BY <1>1, OversellInit, InvariantHolds, TypeCorrect, PTL DEF Spec

-----------------------------------------------------------------------------
(***************************************************************************)
(* What a position is worth (PositionState).  The order of the fills       *)
(* enumerates the effective rows (OrderIs), and the two folds are chains:  *)
(* a property of an account kept by every re-basing and every fill holds   *)
(* at the end of the walk (CrossKeeps, WalkStays).                         *)
(***************************************************************************)

\* What the walk has counted so far.
Accounts ==
  [per : Nat \ {0}, shares : Nat, cost : Int, bought : Nat, boughtCost : Int, sold : Nat,
   realized : Int, unheld : Int, paid : Int, proceeds : Int, departed : Int, short : BOOLEAN,
   phase : 0..Len(Demergers)]

Fields == {"per", "shares", "cost", "bought", "boughtCost", "sold", "realized", "unheld",
           "paid", "proceeds", "departed", "short", "phase"}

LEMMA DemergerTypes ==
  /\ Len(Demergers) \in Nat /\ DOMAIN Demergers = 1..Len(Demergers)
  /\ \A k \in 1..Len(Demergers) :
       /\ Demergers[k].ex \in Nat /\ Demergers[k].prior \in Nat /\ Demergers[k].prior > 0
       /\ Demergers[k].num \in Nat /\ Demergers[k].num > 0
       /\ Demergers[k].den \in Nat /\ Demergers[k].den > 0
<1>1. Demergers \in Seq([ex : Nat, num : Nat \ {0}, den : Nat \ {0}, prior : Nat \ {0}])
  BY DemergersAssumption
<1>2. Len(Demergers) \in Nat /\ DOMAIN Demergers = 1..Len(Demergers)
  BY <1>1
<1>3. ASSUME NEW k \in 1..Len(Demergers)
      PROVE  /\ Demergers[k].ex \in Nat /\ Demergers[k].prior \in Nat \ {0}
             /\ Demergers[k].num \in Nat \ {0} /\ Demergers[k].den \in Nat \ {0}
  <2>1. PICK S : S = [ex : Nat, num : Nat \ {0}, den : Nat \ {0}, prior : Nat \ {0}]
    OBVIOUS
  <2>2. Demergers \in Seq(S)
    BY <1>1, <2>1
  <2>3. Demergers[k] \in S
    BY <2>2
  <2> QED BY <2>1, <2>3
<1>4. \A x \in Nat \ {0} : x \in Nat /\ x > 0
  OBVIOUS
<1> QED BY <1>2, <1>3, <1>4

LEMMA FillTypes ==
  ASSUME NEW v \in Version
  PROVE  v.qty \in Nat /\ v.qty > 0 /\ v.price \in Nat /\ v.price > 0 /\ v.side \in Sides
<1>1. v.qty \in Qtys /\ v.price \in Prices /\ v.side \in Sides
  BY DEF Version
<1>2. \A x \in Nat \ {0} : x \in Nat /\ x > 0
  OBVIOUS
<1> QED BY <1>1, <1>2, QtysAssumption, PricesAssumption

LEMMA AccountIs ==
  ASSUME NEW a \in Accounts
  PROVE  /\ a.per \in Nat /\ a.per > 0 /\ a.shares \in Nat /\ a.cost \in Int /\ a.bought \in Nat
         /\ a.boughtCost \in Int /\ a.sold \in Nat /\ a.realized \in Int /\ a.unheld \in Int
         /\ a.paid \in Int /\ a.proceeds \in Int /\ a.departed \in Int /\ a.short \in BOOLEAN
         /\ a.phase \in 0..Len(Demergers)
         /\ DOMAIN a = Fields
BY DEF Accounts, Fields

LEMMA ProductTypes ==
  /\ \A x, y \in Int : x * y \in Int /\ x + y \in Int
  /\ \A x, y \in Nat : x * y \in Nat /\ x + y \in Nat
  /\ \A x, y \in Nat : x > 0 /\ y > 0 => x * y > 0
OBVIOUS

\* Whatever has the fields of an account, typed as such, is one.
LEMMA IsAccount ==
  ASSUME NEW b, b = [f \in Fields |-> b[f]],
         b.per \in Nat, b.per > 0, b.shares \in Nat, b.cost \in Int, b.bought \in Nat,
         b.boughtCost \in Int, b.sold \in Nat, b.realized \in Int, b.unheld \in Int,
         b.paid \in Int, b.proceeds \in Int, b.departed \in Int, b.short \in BOOLEAN,
         b.phase \in 0..Len(Demergers)
  PROVE  b \in Accounts
BY DEF Accounts, Fields

LEMMA OpeningIs == Opening \in Accounts
BY DemergerTypes DEF Opening, Accounts

LEMMA FinerIs ==
  ASSUME NEW a \in Accounts, NEW n \in Nat, n > 0, NEW b, b = Finer(a, n)
  PROVE  /\ b \in Accounts
         /\ b.per = a.per * n /\ b.cost = a.cost * n /\ b.boughtCost = a.boughtCost * n
         /\ b.realized = a.realized * n /\ b.unheld = a.unheld * n
         /\ b.paid = a.paid * n /\ b.proceeds = a.proceeds * n /\ b.departed = a.departed * n
         /\ b.shares = a.shares /\ b.bought = a.bought /\ b.sold = a.sold
         /\ b.short = a.short /\ b.phase = a.phase
<1>1. /\ b.per = a.per * n /\ b.cost = a.cost * n /\ b.boughtCost = a.boughtCost * n
      /\ b.realized = a.realized * n /\ b.unheld = a.unheld * n
      /\ b.paid = a.paid * n /\ b.proceeds = a.proceeds * n /\ b.departed = a.departed * n
      /\ b.shares = a.shares /\ b.bought = a.bought /\ b.sold = a.sold
      /\ b.short = a.short /\ b.phase = a.phase
  BY AccountIs DEF Finer, Fields
<1>2. a.per * n > 0
  BY AccountIs
<1>3. b = [f \in Fields |-> b[f]]
  BY AccountIs DEF Finer
<1>4. n \in Int
  OBVIOUS
<1>5. /\ a.cost * n \in Int /\ a.boughtCost * n \in Int /\ a.realized * n \in Int
      /\ a.unheld * n \in Int /\ a.paid * n \in Int /\ a.proceeds * n \in Int /\ a.departed * n \in Int
      /\ a.per * n \in Nat
  BY <1>4, AccountIs, ProductTypes, Zenon
<1>6. /\ b.per \in Nat /\ b.per > 0 /\ b.shares \in Nat /\ b.cost \in Int /\ b.bought \in Nat
      /\ b.boughtCost \in Int /\ b.sold \in Nat /\ b.realized \in Int /\ b.unheld \in Int /\ b.paid \in Int
      /\ b.proceeds \in Int /\ b.departed \in Int /\ b.short \in BOOLEAN
      /\ b.phase \in 0..Len(Demergers)
  BY <1>1, <1>2, <1>5, AccountIs, Zenon
<1>7. b \in Accounts
  BY <1>3, <1>6, IsAccount
<1> QED BY <1>1, <1>7

LEMMA RebaseIs ==
  ASSUME NEW a \in Accounts, NEW k \in 1..Len(Demergers), NEW d, d = Demergers[k],
         NEW b, b = Rebase(a, k)
  PROVE  /\ b \in Accounts /\ b.phase = k
         /\ b.shares = a.shares /\ b.bought = a.bought /\ b.sold = a.sold /\ b.short = a.short
         /\ a.shares = 0 => /\ b.per = a.per /\ b.cost = a.cost /\ b.boughtCost = a.boughtCost
                            /\ b.realized = a.realized /\ b.unheld = a.unheld
                            /\ b.paid = a.paid /\ b.proceeds = a.proceeds
                            /\ b.departed = a.departed
         /\ a.shares # 0 => /\ b.per = a.per * d.den /\ b.cost = a.cost * d.num
                            /\ b.boughtCost = a.boughtCost * d.num
                            /\ b.realized = a.realized * d.den
                            /\ b.unheld = a.unheld * d.den /\ b.paid = a.paid * d.den
                            /\ b.proceeds = a.proceeds * d.den
                            /\ b.departed = a.departed * d.den + a.cost * (d.den - d.num)
<1>1. CASE a.shares = 0
  <2>1. b = [a EXCEPT !.phase = k]
    BY <1>1 DEF Rebase
  <2>2. b = [f \in Fields |-> b[f]]
    BY <2>1, AccountIs
  <2>3. \A f \in Fields : f # "phase" => b[f] = a[f]
    BY <2>1, AccountIs
  <2>4. b.phase = k
    BY <2>1, AccountIs DEF Fields
  <2>5. /\ b.per = a.per /\ b.cost = a.cost /\ b.boughtCost = a.boughtCost
        /\ b.realized = a.realized /\ b.unheld = a.unheld /\ b.paid = a.paid
        /\ b.proceeds = a.proceeds /\ b.departed = a.departed
        /\ b.shares = a.shares /\ b.bought = a.bought /\ b.sold = a.sold /\ b.short = a.short
    BY <2>3 DEF Fields
  <2>6. /\ b.per \in Nat /\ b.per > 0 /\ b.shares \in Nat /\ b.cost \in Int /\ b.bought \in Nat
        /\ b.boughtCost \in Int /\ b.sold \in Nat /\ b.realized \in Int /\ b.unheld \in Int /\ b.paid \in Int
        /\ b.proceeds \in Int /\ b.departed \in Int /\ b.short \in BOOLEAN
    BY <2>5, AccountIs, Zenon
  <2>7. k \in 0..Len(Demergers)
    BY DemergerTypes
  <2>8. b \in Accounts
    BY <2>2, <2>4, <2>6, <2>7, IsAccount
  <2> QED BY <1>1, <2>4, <2>5, <2>8
<1>2. CASE a.shares # 0
  <2>1. PICK c : c = Finer(a, d.den)
    OBVIOUS
  <2>2. d.den \in Nat /\ d.den > 0 /\ d.num \in Nat
    BY DemergerTypes
  <2>3. /\ c \in Accounts
        /\ c.per = a.per * d.den /\ c.cost = a.cost * d.den /\ c.boughtCost = a.boughtCost * d.den
        /\ c.realized = a.realized * d.den /\ c.unheld = a.unheld * d.den /\ c.paid = a.paid * d.den
        /\ c.proceeds = a.proceeds * d.den /\ c.departed = a.departed * d.den
        /\ c.shares = a.shares /\ c.bought = a.bought /\ c.sold = a.sold
        /\ c.short = a.short /\ c.phase = a.phase
    <3>1. PICK n : n = d.den
      OBVIOUS
    <3>2. n \in Nat /\ n > 0 /\ c = Finer(a, n)
      BY <2>1, <2>2, <3>1
    <3>3. /\ c \in Accounts
          /\ c.per = a.per * n /\ c.cost = a.cost * n /\ c.boughtCost = a.boughtCost * n
          /\ c.realized = a.realized * n /\ c.unheld = a.unheld * n /\ c.paid = a.paid * n
          /\ c.proceeds = a.proceeds * n /\ c.departed = a.departed * n
          /\ c.shares = a.shares /\ c.bought = a.bought /\ c.sold = a.sold
          /\ c.short = a.short /\ c.phase = a.phase
      BY <3>2, FinerIs, ZenonT(30)
    <3> QED BY <3>1, <3>3, Zenon
  <2>4. b = [c EXCEPT !.phase = k, !.cost = a.cost * d.num, !.boughtCost = a.boughtCost * d.num,
                      !.departed = @ + a.cost * (d.den - d.num)]
    BY <1>2, <2>1 DEF Rebase
  <2>5. PICK x, y, z : x = a.cost * d.num /\ y = a.boughtCost * d.num /\ z = c.departed + a.cost * (d.den - d.num)
    OBVIOUS
  <2>6. b = [c EXCEPT !.phase = k, !.cost = x, !.boughtCost = y, !.departed = z]
    BY <2>4, <2>5
  <2>7. x \in Int /\ y \in Int /\ z \in Int
    <3>1. d.den - d.num \in Int /\ d.num \in Int
      BY <2>2
    <3>2. a.cost \in Int /\ a.boughtCost \in Int /\ c.departed \in Int
      BY <2>3, AccountIs
    <3> QED BY <2>5, <3>1, <3>2, ProductTypes, Zenon
  <2>8. b = [f \in Fields |-> b[f]]
    BY <2>3, <2>6, AccountIs
  <2>9. /\ b.phase = k /\ b.cost = x /\ b.boughtCost = y /\ b.departed = z
        /\ b.per = c.per /\ b.realized = c.realized /\ b.unheld = c.unheld /\ b.paid = c.paid /\ b.proceeds = c.proceeds
        /\ b.shares = c.shares /\ b.bought = c.bought /\ b.sold = c.sold /\ b.short = c.short
    BY <2>3, <2>6, AccountIs DEF Fields
  <2>10. /\ b.per \in Nat /\ b.per > 0 /\ b.shares \in Nat /\ b.cost \in Int /\ b.bought \in Nat
         /\ b.boughtCost \in Int /\ b.sold \in Nat /\ b.realized \in Int /\ b.unheld \in Int /\ b.paid \in Int
         /\ b.proceeds \in Int /\ b.departed \in Int /\ b.short \in BOOLEAN
    <3>1. /\ c.per \in Nat /\ c.per > 0 /\ c.shares \in Nat /\ c.bought \in Nat /\ c.sold \in Nat
          /\ c.realized \in Int /\ c.unheld \in Int /\ c.paid \in Int /\ c.proceeds \in Int /\ c.short \in BOOLEAN
      BY <2>3, AccountIs
    <3> QED BY <2>7, <2>9, <3>1, Zenon
  <2>11. k \in 0..Len(Demergers)
    BY DemergerTypes
  <2>12. b \in Accounts
    BY <2>8, <2>9, <2>10, <2>11, IsAccount
  <2> QED BY <1>2, <2>3, <2>5, <2>9, <2>12, Zenon
<1> QED BY <1>1, <1>2

LEMMA BuyIs ==
  ASSUME NEW a \in Accounts, NEW v \in Version, NEW x, x = v.qty * v.price * a.per,
         NEW b, b = Buy(a, v)
  PROVE  /\ b \in Accounts /\ x \in Int /\ b.per = a.per /\ b.phase = a.phase /\ b.short = a.short
         /\ b.shares = a.shares + v.qty /\ b.bought = a.bought + v.qty /\ b.sold = a.sold
         /\ b.cost = a.cost + x /\ b.boughtCost = a.boughtCost + x /\ b.paid = a.paid + x
         /\ b.realized = a.realized /\ b.unheld = a.unheld
         /\ b.proceeds = a.proceeds /\ b.departed = a.departed
<1>1. v.qty \in Nat /\ v.price \in Nat
  BY FillTypes
<1>2. x \in Int
  <2>1. v.qty * v.price \in Int
    BY <1>1
  <2> QED BY <2>1, AccountIs
<1>3. b = [a EXCEPT !.shares = @ + v.qty, !.bought = @ + v.qty,
                    !.cost = @ + x, !.boughtCost = @ + x, !.paid = @ + x]
  BY DEF Buy
<1>4. b = [f \in Fields |-> b[f]]
  BY <1>3, AccountIs
<1>5. /\ b.per = a.per /\ b.phase = a.phase /\ b.short = a.short
      /\ b.shares = a.shares + v.qty /\ b.bought = a.bought + v.qty /\ b.sold = a.sold
      /\ b.cost = a.cost + x /\ b.boughtCost = a.boughtCost + x /\ b.paid = a.paid + x
      /\ b.realized = a.realized /\ b.unheld = a.unheld
      /\ b.proceeds = a.proceeds /\ b.departed = a.departed
  BY <1>3, AccountIs DEF Fields
<1>6. b \in Accounts
  <2>1. /\ a.shares + v.qty \in Nat /\ a.bought + v.qty \in Nat /\ a.cost + x \in Int
        /\ a.boughtCost + x \in Int /\ a.paid + x \in Int
    BY <1>1, <1>2, AccountIs, ProductTypes, Zenon
  <2>2. /\ b.per \in Nat /\ b.per > 0 /\ b.shares \in Nat /\ b.cost \in Int /\ b.bought \in Nat
        /\ b.boughtCost \in Int /\ b.sold \in Nat /\ b.realized \in Int /\ b.unheld \in Int /\ b.paid \in Int
        /\ b.proceeds \in Int /\ b.departed \in Int /\ b.short \in BOOLEAN
        /\ b.phase \in 0..Len(Demergers)
    BY <1>5, <2>1, AccountIs, Zenon
  <2> QED BY <1>4, <2>2, IsAccount
<1> QED BY <1>2, <1>5, <1>6

LEMMA SmallerOf ==
  ASSUME NEW x \in Nat, NEW y \in Nat, NEW m, m = Min({x, y})
  PROVE  /\ m \in Nat /\ m <= x /\ m <= y
         /\ x <= y => m = x
<1>1. \E k \in {x, y} : \A l \in {x, y} : k <= l
  <2>1. CASE x <= y
    BY <2>1
  <2>2. CASE y < x
    BY <2>2
  <2> QED BY <2>1, <2>2
<1>2. m \in {x, y} /\ \A l \in {x, y} : m <= l
  BY <1>1 DEF Min
<1> QED BY <1>2

\* What a sell does: one of more shares than are held goes short.
LEMMA SellIs ==
  ASSUME NEW a \in Accounts, NEW v \in Version, NEW b, b = Sell(a, v)
  PROVE  /\ b \in Accounts /\ b.phase = a.phase /\ b.bought = a.bought /\ b.sold = a.sold + v.qty
         /\ a.short => b.short
         /\ ~b.short => v.qty <= a.shares /\ a.shares > 0
         /\ ~b.short => \E n, x \in Int :
              /\ n = a.shares /\ x = (v.qty * v.price) * (a.per * n)
              /\ b.shares = n - v.qty /\ b.per = a.per * n
              /\ b.cost = a.cost * n - v.qty * a.cost /\ b.boughtCost = a.boughtCost * n
              /\ b.realized = a.realized * n + x - v.qty * a.cost
              /\ b.proceeds = a.proceeds * n + x
              /\ b.paid = a.paid * n /\ b.departed = a.departed * n
         /\ a.shares > 0 => \E n, r, x \in Int :
              /\ n = a.shares /\ x = (v.qty * v.price) * (a.per * n)
              /\ b.shares = n - r /\ b.per = a.per * n /\ b.cost = a.cost * n - r * a.cost
              /\ b.realized = a.realized * n + (x - v.qty * a.cost)
              /\ b.unheld = a.unheld * n
         /\ a.shares = 0 => \E n, y, g \in Int :
              /\ b.shares = 0 /\ b.per = a.per * n /\ b.cost = a.cost * n - 0 * y
              /\ b.realized = a.realized * n + g /\ b.unheld = a.unheld * n + g
<1>1. v.qty \in Nat /\ v.qty > 0 /\ v.price \in Nat
  BY FillTypes
<1>2. PICK avg : avg = Average(a)
  OBVIOUS
<1>3. /\ avg.cost \in Int /\ avg.of \in Nat /\ avg.of > 0
      /\ a.shares > 0 => avg.cost = a.cost /\ avg.of = a.shares
  BY <1>2, AccountIs DEF Average, AverageOfAll
<1>4. PICK reduce : reduce = Min({v.qty, a.shares})
  OBVIOUS
<1>5. /\ reduce \in Nat /\ reduce <= a.shares
      /\ v.qty <= a.shares => reduce = v.qty
      /\ a.shares = 0 => reduce = 0
  <2>1. a.shares \in Nat
    BY AccountIs
  <2>2. /\ reduce \in Nat /\ reduce <= a.shares
        /\ v.qty <= a.shares => reduce = v.qty
    BY <1>1, <1>4, <2>1, SmallerOf
  <2> QED BY <2>1, <2>2
<1>6. PICK c : c = Finer(a, avg.of)
  OBVIOUS
<1> DEFINE n == avg.of
<1>7. /\ c \in Accounts
      /\ c.per = a.per * n /\ c.cost = a.cost * n /\ c.boughtCost = a.boughtCost * n
      /\ c.realized = a.realized * n /\ c.unheld = a.unheld * n /\ c.paid = a.paid * n
      /\ c.proceeds = a.proceeds * n /\ c.departed = a.departed * n
      /\ c.shares = a.shares /\ c.bought = a.bought /\ c.sold = a.sold
      /\ c.short = a.short /\ c.phase = a.phase
  <2>1. PICK m : m = avg.of
    OBVIOUS
  <2>2. m \in Nat /\ m > 0 /\ c = Finer(a, m)
    BY <1>3, <1>6, <2>1
  <2>3. /\ c \in Accounts
        /\ c.per = a.per * m /\ c.cost = a.cost * m /\ c.boughtCost = a.boughtCost * m
        /\ c.realized = a.realized * m /\ c.unheld = a.unheld * m /\ c.paid = a.paid * m
        /\ c.proceeds = a.proceeds * m /\ c.departed = a.departed * m
        /\ c.shares = a.shares /\ c.bought = a.bought /\ c.sold = a.sold
        /\ c.short = a.short /\ c.phase = a.phase
    BY <2>2, FinerIs, ZenonT(30)
  <2> QED BY <2>1, <2>3, Zenon
<1>8. PICK x, w, y, k, z, g, t :
        /\ x = v.qty * v.price * c.per
        /\ w = x - v.qty * avg.cost
        /\ y = c.realized + w
        /\ k = (IF a.shares = 0 THEN c.unheld + w ELSE c.unheld)
        /\ z = c.cost - reduce * avg.cost
        /\ g = c.proceeds + x
        /\ t = (c.short \/ v.qty > a.shares)
  OBVIOUS
<1>9. b = [c EXCEPT !.realized = y, !.unheld = k, !.proceeds = g, !.cost = z, !.sold = @ + v.qty,
                    !.shares = @ - reduce, !.short = t]
  BY <1>2, <1>4, <1>6, <1>8 DEF Sell
<1>10. b = [f \in Fields |-> b[f]]
  BY <1>7, <1>9, AccountIs
<1>11. /\ b.realized = y /\ b.unheld = k /\ b.proceeds = g /\ b.cost = z /\ b.sold = c.sold + v.qty
       /\ b.shares = c.shares - reduce /\ b.short = t
       /\ b.per = c.per /\ b.bought = c.bought /\ b.boughtCost = c.boughtCost
       /\ b.paid = c.paid /\ b.departed = c.departed /\ b.phase = c.phase
  BY <1>7, <1>9, AccountIs DEF Fields
<1>12. /\ x \in Int /\ w \in Int /\ y \in Int /\ k \in Int /\ z \in Int /\ g \in Int
       /\ t \in BOOLEAN
  <2>1. /\ c.per \in Int /\ c.realized \in Int /\ c.unheld \in Int /\ c.cost \in Int /\ c.proceeds \in Int
        /\ v.qty \in Int /\ v.price \in Int /\ reduce \in Int
    <3>1. c \in Accounts
      BY <1>7
    <3>2. c.per \in Int /\ c.realized \in Int /\ c.unheld \in Int /\ c.cost \in Int /\ c.proceeds \in Int
      BY <3>1, AccountIs
    <3>3. v.qty \in Int /\ v.price \in Int /\ reduce \in Int
      BY <1>1, <1>5
    <3> QED BY <3>2, <3>3
  <2>2. v.qty * v.price \in Int /\ v.qty * avg.cost \in Int /\ reduce * avg.cost \in Int
    BY <1>3, <2>1, ProductTypes, Zenon
  <2>3. x \in Int
    BY <1>8, <2>1, <2>2, ProductTypes, Zenon
  <2>4. \A p, r \in Int : p - r \in Int
    OBVIOUS
  <2>7. w \in Int
    BY <1>8, <2>2, <2>3, <2>4, Zenon
  <2>8. c.unheld + w \in Int
    BY <2>1, <2>7, ProductTypes, Zenon
  <2>9. k \in Int
    BY <1>8, <2>1, <2>8, Zenon
  <2>5. y \in Int /\ z \in Int /\ g \in Int
    BY <1>8, <2>1, <2>2, <2>3, <2>4, <2>7, ProductTypes, Zenon
  <2>6. t \in BOOLEAN
    BY <1>8
  <2> QED BY <2>3, <2>5, <2>6, <2>7, <2>9
<1>13. b \in Accounts
  <2>1. /\ c.per \in Nat /\ c.per > 0 /\ c.bought \in Nat /\ c.boughtCost \in Int /\ c.paid \in Int
        /\ c.departed \in Int /\ c.phase \in 0..Len(Demergers)
        /\ c.sold + v.qty \in Nat /\ c.shares - reduce \in Nat
    <3>1. c \in Accounts /\ c.shares = a.shares
      BY <1>7
    <3>2. /\ c.per \in Nat /\ c.per > 0 /\ c.bought \in Nat /\ c.boughtCost \in Int /\ c.paid \in Int
          /\ c.departed \in Int /\ c.phase \in 0..Len(Demergers) /\ c.sold \in Nat /\ c.shares \in Nat
      BY <3>1, AccountIs
    <3>3. /\ v.qty \in Nat /\ reduce \in Nat /\ reduce <= c.shares
      BY <1>1, <1>5, <3>1
    <3>4. \A p, r \in Nat : /\ p + r \in Nat
                            /\ r <= p => p - r \in Nat
      OBVIOUS
    <3>5. c.sold + v.qty \in Nat /\ c.shares - reduce \in Nat
      BY <3>2, <3>3, <3>4, Zenon
    <3> QED BY <3>2, <3>5, Zenon
  <2>2. /\ b.per \in Nat /\ b.per > 0 /\ b.shares \in Nat /\ b.cost \in Int /\ b.bought \in Nat
        /\ b.boughtCost \in Int /\ b.sold \in Nat /\ b.realized \in Int /\ b.unheld \in Int /\ b.paid \in Int
        /\ b.proceeds \in Int /\ b.departed \in Int /\ b.short \in BOOLEAN
        /\ b.phase \in 0..Len(Demergers)
    BY <1>11, <1>12, <2>1, Zenon
  <2> QED BY <1>10, <2>2, IsAccount
<1>14. a.short => b.short
  BY <1>7, <1>8, <1>11
<1>15. ASSUME ~b.short PROVE v.qty <= a.shares /\ a.shares > 0
  <2>1. ~(v.qty > a.shares)
    BY <1>8, <1>11, <1>15
  <2> QED BY <1>1, <2>1, AccountIs
<1>16. ASSUME ~b.short
       PROVE  /\ n = a.shares /\ x = (v.qty * v.price) * (a.per * n)
              /\ b.shares = n - v.qty /\ b.per = a.per * n
              /\ b.cost = a.cost * n - v.qty * a.cost /\ b.boughtCost = a.boughtCost * n
              /\ b.realized = a.realized * n + x - v.qty * a.cost
              /\ b.proceeds = a.proceeds * n + x
              /\ b.paid = a.paid * n /\ b.departed = a.departed * n
  <2>1. n = a.shares /\ avg.cost = a.cost /\ reduce = v.qty
    BY <1>3, <1>5, <1>15, <1>16
  <2>2. c.realized \in Int /\ v.qty * a.cost \in Int
    <3>1. a.cost \in Int /\ v.qty \in Int
      BY <1>1, AccountIs
    <3>2. c \in Accounts
      BY <1>7
    <3>3. c.realized \in Int
      BY <3>2, AccountIs
    <3> QED BY <3>1, <3>3, ProductTypes, Zenon
  <2>3. \A p, q, r \in Int : p + (q - r) = p + q - r
    OBVIOUS
  <2> HIDE DEF n
  <2>4. y = c.realized + (x - v.qty * a.cost)
    BY <1>8, <2>1, Zenon
  <2>5. y = c.realized + x - v.qty * a.cost
    BY <1>12, <2>2, <2>3, <2>4, Zenon
  <2> QED BY <1>7, <1>8, <1>11, <2>1, <2>5, Zenon
<1>17. n \in Int /\ reduce \in Int
  BY <1>3, <1>5
<1>18. ASSUME a.shares > 0
       PROVE  /\ n = a.shares /\ x = (v.qty * v.price) * (a.per * n)
              /\ b.shares = n - reduce /\ b.per = a.per * n
              /\ b.cost = a.cost * n - reduce * a.cost
              /\ b.realized = a.realized * n + (x - v.qty * a.cost)
              /\ b.unheld = a.unheld * n
  <2>1. n = a.shares /\ avg.cost = a.cost /\ a.shares # 0
    BY <1>3, <1>18
  <2> HIDE DEF n
  <2> QED BY <1>7, <1>8, <1>11, <2>1, Zenon
<1>19. ASSUME a.shares = 0
       PROVE  /\ b.shares = 0 /\ b.per = a.per * n
              /\ b.cost = a.cost * n - 0 * avg.cost
              /\ b.realized = a.realized * n + w /\ b.unheld = a.unheld * n + w
  <2>1. reduce = 0 /\ 0 - 0 = 0
    BY <1>5, <1>19
  <2> HIDE DEF n
  <2> QED BY <1>7, <1>8, <1>11, <1>19, <2>1, Zenon
<1> HIDE DEF n
<1>20. a.shares = 0 => \E l, j, h \in Int :
              /\ b.shares = 0 /\ b.per = a.per * l /\ b.cost = a.cost * l - 0 * j
              /\ b.realized = a.realized * l + h /\ b.unheld = a.unheld * l + h
  BY <1>3, <1>12, <1>17, <1>19, Zenon
<1>21. a.shares > 0 => \E l, r, j \in Int :
              /\ l = a.shares /\ j = (v.qty * v.price) * (a.per * l)
              /\ b.shares = l - r /\ b.per = a.per * l /\ b.cost = a.cost * l - r * a.cost
              /\ b.realized = a.realized * l + (j - v.qty * a.cost)
              /\ b.unheld = a.unheld * l
  BY <1>12, <1>17, <1>18, Zenon
<1>22. ~b.short => \E l, j \in Int :
              /\ l = a.shares /\ j = (v.qty * v.price) * (a.per * l)
              /\ b.shares = l - v.qty /\ b.per = a.per * l
              /\ b.cost = a.cost * l - v.qty * a.cost /\ b.boughtCost = a.boughtCost * l
              /\ b.realized = a.realized * l + j - v.qty * a.cost
              /\ b.proceeds = a.proceeds * l + j
              /\ b.paid = a.paid * l /\ b.departed = a.departed * l
  BY <1>12, <1>16, <1>17, Zenon
<1>23. b.phase = a.phase /\ b.bought = a.bought /\ b.sold = a.sold + v.qty
  BY <1>7, <1>11
<1> QED BY <1>13, <1>14, <1>15, <1>20, <1>21, <1>22, <1>23, Zenon
-----------------------------------------------------------------------------
(* The folds of the walk are chains. *)

\* Crossing ex-dates is a chain of re-basings.
LEMMA CrossChain ==
  ASSUME NEW a \in Accounts, NEW orders \in Seq(1..Len(Demergers))
  PROVE  \E f \in [0..Len(orders) -> Accounts] :
           /\ f[0] = a /\ f[Len(orders)] = FoldLeft(Rebase, a, orders)
           /\ \A k \in 1..Len(orders) : f[k] = Rebase(f[k - 1], orders[k])
<1>0. a \in Accounts /\ orders \in Seq(1..Len(Demergers))
  OBVIOUS
<1>t. \A b \in Accounts, k \in 1..Len(Demergers) : Rebase(b, k) \in Accounts
  BY RebaseIs
<1> DEFINE n == Len(orders)
           V == Accounts
           F(g) == [s \in SUBSET DOMAIN orders |-> IF s = {} THEN a ELSE Rebase(g[s \ {Max(s)}], orders[Max(s)])]
           step == [p \in (1..n) \X V |-> Rebase(p[2], orders[p[1]])]
<1>1. n \in Nat /\ DOMAIN orders = 1..n /\ \A i \in 1..n : orders[i] \in 1..Len(Demergers)
  BY <1>0
<1>2. step \in [(1..n) \X V -> V]
  BY <1>1, <1>t
<1>3. PICK h \in [SUBSET (1..n) -> V] : Chains(n, a, step, h)
  <2> HIDE DEF step, n, V
  <2>1. a \in V
    BY <1>0 DEF V
  <2> QED BY <1>1, <1>2, <2>1, ChainExists
<1>4. h = F(h)
  <2> DEFINE G(s) == IF s = {} THEN a ELSE step[<<Max(s), h[s \ {Max(s)}]>>]
             H(s) == IF s = {} THEN a ELSE Rebase(h[s \ {Max(s)}], orders[Max(s)])
  <2>1. ASSUME NEW s \in SUBSET (1..n) PROVE G(s) = H(s)
    <3>1. s # {} => Max(s) \in 1..n
      BY <1>1, MaxOfSome
    <3>2. s # {} => h[s \ {Max(s)}] \in V
      OBVIOUS
    <3> QED BY <3>1, <3>2
  <2>2. h = [s \in SUBSET (1..n) |-> G(s)]
    BY <1>3 DEF Chains
  <2>3. h = [s \in SUBSET (1..n) |-> H(s)]
    <3> HIDE DEF G, H
    <3> QED BY <2>1, <2>2
  <2> QED BY <1>1, <2>3
<1>5. \E g : g = F(g)
  <2> HIDE DEF F
  <2> QED BY <1>4
<1>6. PICK g : g = F(g) /\ FoldLeft(Rebase, a, orders) = g[DOMAIN orders]
  BY <1>5 DEF FoldLeft, MapThenFoldSet
<1>7. \A s \in SUBSET (1..n) : g[s] = IF s = {} THEN a ELSE Rebase(g[s \ {Max(s)}], orders[Max(s)])
  <2> DEFINE H(s) == IF s = {} THEN a ELSE Rebase(g[s \ {Max(s)}], orders[Max(s)])
  <2>1. g = [s \in SUBSET (1..n) |-> H(s)]
    BY <1>1, <1>6
  <2> HIDE DEF H
  <2>2. \A s \in SUBSET (1..n) : g[s] = H(s)
    BY <2>1
  <2> QED BY <2>2 DEF H
<1> DEFINE f == [k \in 0..n |-> g[1..k]]
<1>8. f[0] = a /\ f[n] = FoldLeft(Rebase, a, orders)
  BY <1>1, <1>6, <1>7
<1>9. ASSUME NEW k \in 1..n PROVE f[k] = Rebase(f[k - 1], orders[k])
  <2>1. 1..k \in SUBSET (1..n) /\ 1..k # {} /\ k \in Nat /\ k > 0 /\ k \in 0..n /\ k - 1 \in 0..n
    <3>1. k \in Nat /\ k > 0 /\ k <= n
      BY <1>1
    <3> HIDE DEF n
    <3>2. k \in 1..k /\ k \in 0..n /\ k - 1 \in 0..n
      BY <1>1, <3>1
    <3>3. \A i \in 1..k : i \in 1..n
      BY <1>1, <3>1
    <3> QED BY <3>1, <3>2, <3>3
  <2>2. Max(1..k) = k /\ (1..k) \ {k} = 1..(k - 1)
    BY <2>1, MaxOfPrefix
  <2>3. g[1..k] = Rebase(g[1..(k - 1)], orders[k])
    BY <1>7, <2>1, <2>2
  <2> QED BY <2>1, <2>3
<1>10. \A k \in 0..n : f[k] \in V
  <2> DEFINE G == [k \in 0..n |-> V]
  <2> HIDE DEF f
  <2>1. f[0] \in G[0] /\ \A k \in 1..n : f[k - 1] \in G[k - 1] => f[k] \in G[k]
    BY <1>0, <1>1, <1>8, <1>9, <1>t
  <2>2. \A k \in 0..n : f[k] \in G[k]
    <3> HIDE DEF G, n
    <3> QED BY <1>1, <2>1, ChainStays
  <2> QED BY <2>2
<1>11. f \in [0..n -> V]
  BY <1>10
<1> HIDE DEF f
<1> QED BY <1>8, <1>9, <1>11

\* The walk is a chain of fills.
LEMMA WalkChain ==
  ASSUME NEW u, NEW orders \in Seq(u), \A b \in Accounts, i \in u : Apply(b, i) \in Accounts
  PROVE  \E f \in [0..Len(orders) -> Accounts] :
           /\ f[0] = Opening /\ f[Len(orders)] = FoldLeft(Apply, Opening, orders)
           /\ \A k \in 1..Len(orders) : f[k] = Apply(f[k - 1], orders[k])
<1>0. Opening \in Accounts /\ orders \in Seq(u)
  BY OpeningIs
<1>t. \A b \in Accounts, i \in u : Apply(b, i) \in Accounts
  OBVIOUS
<1> DEFINE n == Len(orders)
           V == Accounts
           F(g) == [s \in SUBSET DOMAIN orders |-> IF s = {} THEN Opening ELSE Apply(g[s \ {Max(s)}], orders[Max(s)])]
           step == [p \in (1..n) \X V |-> Apply(p[2], orders[p[1]])]
<1>1. n \in Nat /\ DOMAIN orders = 1..n /\ \A i \in 1..n : orders[i] \in u
  BY <1>0
<1>2. step \in [(1..n) \X V -> V]
  BY <1>1, <1>t
<1>3. PICK h \in [SUBSET (1..n) -> V] : Chains(n, Opening, step, h)
  <2> HIDE DEF step, n, V
  <2>1. Opening \in V
    BY <1>0 DEF V
  <2> QED BY <1>1, <1>2, <2>1, ChainExists
<1>4. h = F(h)
  <2> DEFINE G(s) == IF s = {} THEN Opening ELSE step[<<Max(s), h[s \ {Max(s)}]>>]
             H(s) == IF s = {} THEN Opening ELSE Apply(h[s \ {Max(s)}], orders[Max(s)])
  <2>1. ASSUME NEW s \in SUBSET (1..n) PROVE G(s) = H(s)
    <3>1. s # {} => Max(s) \in 1..n
      BY <1>1, MaxOfSome
    <3>2. s # {} => h[s \ {Max(s)}] \in V
      OBVIOUS
    <3> QED BY <3>1, <3>2
  <2>2. h = [s \in SUBSET (1..n) |-> G(s)]
    BY <1>3 DEF Chains
  <2>3. h = [s \in SUBSET (1..n) |-> H(s)]
    <3> HIDE DEF G, H
    <3> QED BY <2>1, <2>2
  <2> QED BY <1>1, <2>3
<1>5. \E g : g = F(g)
  <2> HIDE DEF F
  <2> QED BY <1>4
<1>6. PICK g : g = F(g) /\ FoldLeft(Apply, Opening, orders) = g[DOMAIN orders]
  BY <1>5 DEF FoldLeft, MapThenFoldSet
<1>7. \A s \in SUBSET (1..n) : g[s] = IF s = {} THEN Opening ELSE Apply(g[s \ {Max(s)}], orders[Max(s)])
  <2> DEFINE H(s) == IF s = {} THEN Opening ELSE Apply(g[s \ {Max(s)}], orders[Max(s)])
  <2>1. g = [s \in SUBSET (1..n) |-> H(s)]
    BY <1>1, <1>6
  <2> HIDE DEF H
  <2>2. \A s \in SUBSET (1..n) : g[s] = H(s)
    BY <2>1
  <2> QED BY <2>2 DEF H
<1> DEFINE f == [k \in 0..n |-> g[1..k]]
<1>8. f[0] = Opening /\ f[n] = FoldLeft(Apply, Opening, orders)
  BY <1>1, <1>6, <1>7
<1>9. ASSUME NEW k \in 1..n PROVE f[k] = Apply(f[k - 1], orders[k])
  <2>1. 1..k \in SUBSET (1..n) /\ 1..k # {} /\ k \in Nat /\ k > 0 /\ k \in 0..n /\ k - 1 \in 0..n
    <3>1. k \in Nat /\ k > 0 /\ k <= n
      BY <1>1
    <3> HIDE DEF n
    <3>2. k \in 1..k /\ k \in 0..n /\ k - 1 \in 0..n
      BY <1>1, <3>1
    <3>3. \A i \in 1..k : i \in 1..n
      BY <1>1, <3>1
    <3> QED BY <3>1, <3>2, <3>3
  <2>2. Max(1..k) = k /\ (1..k) \ {k} = 1..(k - 1)
    BY <2>1, MaxOfPrefix
  <2>3. g[1..k] = Apply(g[1..(k - 1)], orders[k])
    BY <1>7, <2>1, <2>2
  <2> QED BY <2>1, <2>3
<1>10. \A k \in 0..n : f[k] \in V
  <2> DEFINE G == [k \in 0..n |-> V]
  <2> HIDE DEF f
  <2>1. f[0] \in G[0] /\ \A k \in 1..n : f[k - 1] \in G[k - 1] => f[k] \in G[k]
    BY <1>0, <1>1, <1>8, <1>9, <1>t
  <2>2. \A k \in 0..n : f[k] \in G[k]
    <3> HIDE DEF G, n
    <3> QED BY <1>1, <2>1, ChainStays
  <2> QED BY <2>2
<1>11. f \in [0..n -> V]
  BY <1>10
<1> HIDE DEF f
<1> QED BY <1>8, <1>9, <1>11

\* What holds of an account and is kept by re-basings holds after Cross.
LEMMA CrossKeeps ==
  ASSUME NEW G \in SUBSET Accounts, \A b \in G, k \in 1..Len(Demergers) : Rebase(b, k) \in G,
         NEW a \in G, NEW upto \in 0..Len(Demergers)
  PROVE  Cross(a, upto) \in G
<1> DEFINE orders == [k \in 1..(upto - a.phase) |-> a.phase + k]
<1>1. a \in Accounts /\ Len(Demergers) \in Nat /\ a.phase \in 0..Len(Demergers)
  BY DemergerTypes, AccountIs
<1>2. orders \in Seq(1..Len(Demergers))
  <2> DEFINE m == upto - a.phase
  <2>m. m \in Int
    BY <1>1
  <2>1. \E n \in Nat : 1..m = 1..n /\ (n > 0 => n = m)
    <3> HIDE DEF m
    <3>1. CASE m >= 0
      <4>1. m \in Nat
        BY <2>m, <3>1
      <4> QED BY <4>1
    <3>2. CASE m < 0
      <4>1. 1..m = 1..0
        BY <2>m, <3>2
      <4> WITNESS 0 \in Nat
      <4> QED BY <4>1
    <3> QED BY <2>m, <3>1, <3>2
  <2>n. PICK n \in Nat : 1..m = 1..n /\ (n > 0 => n = m)
    BY <2>1
  <2>2. \A k \in 1..n : a.phase + k \in 1..Len(Demergers)
    BY <1>1, <2>n
  <2>3. orders \in [1..n -> 1..Len(Demergers)]
    BY <2>n, <2>2
  <2>4. \A S : orders \in [1..n -> S] => orders \in Seq(S)
    <3> HIDE DEF orders
    <3> QED OBVIOUS
  <2> QED BY <2>3, <2>4, Zenon
<1>3. Cross(a, upto) = FoldLeft(Rebase, a, orders)
  BY DEF Cross
<1> HIDE DEF orders
<1>4. Len(orders) \in Nat /\ \A k \in 1..Len(orders) : orders[k] \in 1..Len(Demergers)
  BY <1>2
<1>5. PICK f \in [0..Len(orders) -> Accounts] :
        /\ f[0] = a /\ f[Len(orders)] = Cross(a, upto)
        /\ \A k \in 1..Len(orders) : f[k] = Rebase(f[k - 1], orders[k])
  <2>1. \E f \in [0..Len(orders) -> Accounts] :
          /\ f[0] = a /\ f[Len(orders)] = FoldLeft(Rebase, a, orders)
          /\ \A k \in 1..Len(orders) : f[k] = Rebase(f[k - 1], orders[k])
    BY <1>1, <1>2, CrossChain
  <2> QED BY <1>3, <2>1
<1> DEFINE n == Len(orders)
           H == [k \in 0..n |-> G]
<1>6. f[0] \in H[0] /\ \A k \in 1..n : f[k - 1] \in H[k - 1] => f[k] \in H[k]
  BY <1>4, <1>5
<1>7. \A k \in 0..n : f[k] \in H[k]
  <2> HIDE DEF H, n
  <2> QED BY <1>4, <1>6, ChainStays DEF n
<1> QED BY <1>4, <1>5, <1>7

\* Crossing an ex-date moves no shares.
LEMMA CrossIs ==
  ASSUME NEW a \in Accounts, NEW upto \in 0..Len(Demergers), NEW b, b = Cross(a, upto)
  PROVE  /\ b \in Accounts /\ b.shares = a.shares /\ b.short = a.short
         /\ b.bought = a.bought /\ b.sold = a.sold
<1> DEFINE G == {c \in Accounts : /\ c.shares = a.shares /\ c.short = a.short
                                 /\ c.bought = a.bought /\ c.sold = a.sold}
<1>1. \A c \in G, k \in 1..Len(Demergers) : Rebase(c, k) \in G
  BY RebaseIs
<1>2. G \in SUBSET Accounts /\ a \in G
  OBVIOUS
<1> HIDE DEF G
<1>3. b \in G
  BY <1>1, <1>2, CrossKeeps
<1> QED BY <1>3 DEF G

-----------------------------------------------------------------------------
(* The order of the fills. *)

LEMMA RowTypes ==
  ASSUME TypeOK, NEW i \in DOMAIN events
  PROVE  /\ events[i].version \in Version /\ i \in Nat /\ When(i) \in Nat
<1>1. events[i] \in Event /\ i \in Nat
  BY DEF TypeOK
<1>2. events[i].version \in Version /\ events[i].created \in 0..MaxDay
  BY <1>1 DEF Event
<1>3. events[i].version.at \in {Unsaid} \union (0..MaxDay)
  BY <1>2 DEF Version
<1>4. When(i) \in 0..MaxDay
  BY <1>2, <1>3 DEF When
<1> QED BY <1>1, <1>2, <1>4, BoundsAssumption

LEMMA ByDateIs ==
  ASSUME TypeOK, NEW i \in DOMAIN events
  PROVE  /\ ByDate(i) \in 0..Len(Demergers)
         /\ ByDate(i) = 0 => \A k \in 1..Len(Demergers) : ~(Demergers[k].ex <= When(i))
<1> DEFINE K == {k \in DOMAIN Demergers : Demergers[k].ex <= When(i)}
<1>1. Len(Demergers) \in Nat /\ DOMAIN Demergers = 1..Len(Demergers) /\ K \in SUBSET (1..Len(Demergers))
  BY DemergerTypes
<1>2. ByDate(i) = Cardinality(K)
  BY DEF ByDate
<1>3. \A k \in 1..Len(Demergers) : Demergers[k].ex <= When(i) => k \in K
  BY <1>1
<1> HIDE DEF K
<1> DEFINE n == Len(Demergers)
           S == 1..n
<1>4. IsFiniteSet(S) /\ Cardinality(S) = n
  <2> HIDE DEF n
  <2>1. n \in Nat
    BY <1>1 DEF n
  <2> QED BY <2>1, FS_Interval
<1>5. IsFiniteSet(K) /\ Cardinality(K) <= Len(Demergers)
  <2>1. K \in SUBSET S
    BY <1>1
  <2> HIDE DEF S
  <2> QED BY <1>4, <2>1, FS_Subset
<1>6. Cardinality(K) \in Nat /\ (Cardinality(K) = 0 => K = {})
  BY <1>5, FS_CardinalityType, FS_EmptySet
<1> QED BY <1>1, <1>2, <1>3, <1>5, <1>6

LEMMA PhaseIs ==
  ASSUME TypeOK, NEW i \in DOMAIN events
  PROVE  /\ Phase(i) \in 0..ByDate(i) /\ Phase(i) \in 0..Len(Demergers)
         /\ \A k \in (Phase(i) + 1)..ByDate(i) : AboveMidpoint(i, k)
         /\ \A p \in 0..ByDate(i) : (\A k \in (p + 1)..ByDate(i) : AboveMidpoint(i, k)) => Phase(i) <= p
<1> DEFINE P == {p \in 0..ByDate(i) : \A k \in (p + 1)..ByDate(i) : AboveMidpoint(i, k)}
<1>1. ByDate(i) \in 0..Len(Demergers) /\ Len(Demergers) \in Nat
  BY ByDateIs, DemergerTypes
<1>2. Phase(i) = Min(P)
  BY DEF Phase
<1>3. ByDate(i) \in P
  BY <1>1
<1>4. P \in SUBSET Nat /\ P # {}
  BY <1>1, <1>3
<1>5. \A p : p \in P <=> p \in 0..ByDate(i) /\ \A k \in (p + 1)..ByDate(i) : AboveMidpoint(i, k)
  OBVIOUS
<1> HIDE DEF P
<1>6. \E m \in P : \A k \in P : m <= k
  <2>1. PICK m \in P : \A k \in P : ~(k < m)
    BY <1>4, LeastElement
  <2> QED BY <1>4, <2>1
<1>7. Phase(i) \in P /\ \A k \in P : Phase(i) <= k
  BY <1>2, <1>6 DEF Min
<1>8. Phase(i) \in 0..ByDate(i)
  BY <1>5, <1>7
<1>9. Phase(i) \in 0..Len(Demergers)
  BY <1>1, <1>8
<1> QED BY <1>5, <1>7, <1>8, <1>9

LEMMA PrecedesIs ==
  ASSUME NEW a1, NEW a2, NEW a3, NEW b1, NEW b2, NEW b3
  PROVE  Precedes(<<a1, a2, a3>>, <<b1, b2, b3>>)
           <=> \/ a1 < b1
               \/ a1 = b1 /\ a2 < b2
               \/ a1 = b1 /\ a2 = b2 /\ a3 < b3
<1> DEFINE a == <<a1, a2, a3>>
           b == <<b1, b2, b3>>
           At(n) == a[n] < b[n] /\ \A m \in 1..(n - 1) : a[m] = b[m]
<1>1. a[1] = a1 /\ a[2] = a2 /\ a[3] = a3 /\ b[1] = b1 /\ b[2] = b2 /\ b[3] = b3
  OBVIOUS
<1> HIDE DEF a, b
<1>2. Precedes(a, b) <=> At(1) \/ At(2) \/ At(3)
  <2>1. 1..3 = {1, 2, 3}
    OBVIOUS
  <2>2. Precedes(a, b) <=> \E n \in 1..3 : At(n)
    BY DEF Precedes
  <2> HIDE DEF At
  <2> QED BY <2>1, <2>2
<1>3. 1..(1 - 1) = {} /\ 1..(2 - 1) = {1} /\ 1..(3 - 1) = {1, 2}
  OBVIOUS
<1>4. /\ At(1) <=> a1 < b1
      /\ At(2) <=> a2 < b2 /\ a1 = b1
      /\ At(3) <=> a3 < b3 /\ a1 = b1 /\ a2 = b2
  BY <1>1, <1>3
<1> HIDE DEF At
<1>5. Precedes(a, b) <=> a1 < b1 \/ (a1 = b1 /\ a2 < b2) \/ (a1 = b1 /\ a2 = b2 /\ a3 < b3)
  BY <1>2, <1>4
<1> QED BY <1>5 DEF a, b

\* The keys of some rows, and their order.
Keys(E) == {SortKey(i) : i \in E}
KeyOrder(E) == {p \in Keys(E) \X Keys(E) : Precedes(p[1], p[2])}

LEMMA KeysAreOrdered ==
  ASSUME TypeOK, NEW E \in SUBSET DOMAIN events
  PROVE  /\ IsFiniteSet(Keys(E)) /\ StrictOrder(Keys(E), KeyOrder(E))
         /\ \A k \in Keys(E) : k[3] \in E /\ k = SortKey(k[3])
<1>1. \A i \in E : SortKey(i) = <<Phase(i), When(i), i>> /\ Phase(i) \in Int /\ When(i) \in Int /\ i \in Int
  <2> TAKE i \in E
  <2>1. Phase(i) \in 0..Len(Demergers) /\ When(i) \in Nat /\ i \in Nat
    BY PhaseIs, RowTypes
  <2> QED BY <2>1 DEF SortKey
<1>2. \A k \in Keys(E) : /\ k[3] \in E /\ k = SortKey(k[3])
                        /\ k = <<k[1], k[2], k[3]>> /\ k[1] \in Int /\ k[2] \in Int /\ k[3] \in Int
  <2> TAKE k \in Keys(E)
  <2>1. PICK i \in E : k = SortKey(i)
    BY DEF Keys
  <2>2. k = <<Phase(i), When(i), i>> /\ Phase(i) \in Int /\ When(i) \in Int /\ i \in Int
    BY <1>1, <2>1
  <2>3. k[1] = Phase(i) /\ k[2] = When(i) /\ k[3] = i
    BY <2>2
  <2> QED BY <2>1, <2>2, <2>3
<1>3. IsFiniteSet(Keys(E))
  <2> DEFINE key == [i \in E |-> SortKey(i)]
  <2>1. IsFiniteSet(E)
    <3>1. Len(events) \in Nat /\ DOMAIN events = 1..Len(events)
      BY DEF TypeOK
    <3>2. IsFiniteSet(1..Len(events))
      BY <3>1, FS_Interval
    <3> QED BY <3>1, <3>2, FS_Subset
  <2>2. key \in Surjection(E, Keys(E))
    BY DEF Surjection, Keys
  <2> HIDE DEF key
  <2> QED BY <2>1, <2>2, FS_Surjection
<1>4. \A x, y \in Keys(E) :
        <<x, y>> \in KeyOrder(E) <=> \/ x[1] < y[1]
                                     \/ x[1] = y[1] /\ x[2] < y[2]
                                     \/ x[1] = y[1] /\ x[2] = y[2] /\ x[3] < y[3]
  <2> TAKE x, y \in Keys(E)
  <2>1. <<x, y>> \in KeyOrder(E) <=> Precedes(x, y)
    BY DEF KeyOrder
  <2>2. Precedes(<<x[1], x[2], x[3]>>, <<y[1], y[2], y[3]>>) <=>
          \/ x[1] < y[1]
          \/ x[1] = y[1] /\ x[2] < y[2]
          \/ x[1] = y[1] /\ x[2] = y[2] /\ x[3] < y[3]
    BY PrecedesIs
  <2> QED BY <1>2, <2>1, <2>2
<1>5. \A x \in Keys(E) : <<x, x>> \notin KeyOrder(E)
  BY <1>2, <1>4
<1>6. \A x, y, z \in Keys(E) :
        <<x, y>> \in KeyOrder(E) /\ <<y, z>> \in KeyOrder(E) => <<x, z>> \in KeyOrder(E)
  <2> SUFFICES ASSUME NEW x \in Keys(E), NEW y \in Keys(E), NEW z \in Keys(E),
                      <<x, y>> \in KeyOrder(E), <<y, z>> \in KeyOrder(E)
               PROVE  <<x, z>> \in KeyOrder(E)
    OBVIOUS
  <2> QED BY <1>2, <1>4
<1>7. \A x, y \in Keys(E) : x = y \/ <<x, y>> \in KeyOrder(E) \/ <<y, x>> \in KeyOrder(E)
  <2> TAKE x, y \in Keys(E)
  <2>1. x[1] = y[1] /\ x[2] = y[2] /\ x[3] = y[3] => x = y
    BY <1>2
  <2> QED BY <1>2, <1>4, <2>1
<1>8. StrictOrder(Keys(E), KeyOrder(E))
  BY <1>5, <1>6, <1>7 DEF StrictOrder
<1> QED BY <1>2, <1>3, <1>8

\* The walk takes each effective row once, those of an earlier phase first.
LEMMA OrderIs ==
  ASSUME TypeOK, NEW u, NEW s, NEW o, o = InOrder(u, s)
  PROVE  \E n \in Nat :
           /\ o \in [1..n -> Effective(u, s)]
           /\ \A m, l \in 1..n : o[m] = o[l] => m = l
           /\ \A i \in Effective(u, s) : \E m \in 1..n : o[m] = i
           /\ \A m, l \in 1..n : m < l => Phase(o[m]) <= Phase(o[l])
<1> DEFINE E == Effective(u, s)
           K == Keys(E)
           R == KeyOrder(E)
           Rank(k) == Cardinality(Before(K, R, k))
           N == Cardinality(K)
           Nth(m) == CHOOSE k \in K : Cardinality({l \in K : Precedes(l, k)}) = m - 1
<1>1. E \in SUBSET DOMAIN events
  BY DEF Effective, Rows
<1>2. IsFiniteSet(K) /\ StrictOrder(K, R) /\ \A k \in K : k[3] \in E /\ k = SortKey(k[3])
  <2> HIDE DEF E
  <2> QED BY <1>1, KeysAreOrdered
<1>3. o = [m \in 1..N |-> Nth(m)[3]]
  BY DEF InOrder, Keys
<1>4. \A k \in K : {l \in K : Precedes(l, k)} = Before(K, R, k)
  BY DEF Before, KeyOrder
<1>5. \A i \in E : SortKey(i) \in K /\ SortKey(i)[3] = i /\ SortKey(i)[1] = Phase(i)
  BY DEF Keys, SortKey
<1>6. N \in Nat
  BY <1>2, FS_CardinalityType
<1>7. \A x, y \in K : <<x, y>> \in R => x[1] <= y[1]
  <2> TAKE x, y \in K
  <2>1. PICK i \in E, j \in E : x = SortKey(i) /\ y = SortKey(j)
    BY DEF Keys
  <2>2. Phase(i) \in Int /\ Phase(j) \in Int
    <3>1. i \in DOMAIN events /\ j \in DOMAIN events
      BY <1>1
    <3>2. Phase(i) \in 0..Len(Demergers) /\ Phase(j) \in 0..Len(Demergers)
      BY <3>1, PhaseIs
    <3> QED BY <3>2
  <2>3. Precedes(x, y) => Phase(i) <= Phase(j)
    <3>1. Precedes(<<Phase(i), When(i), i>>, <<Phase(j), When(j), j>>)
            => Phase(i) < Phase(j) \/ Phase(i) = Phase(j)
      BY PrecedesIs
    <3> QED BY <2>1, <2>2, <3>1 DEF SortKey
  <2> QED BY <1>5, <2>1, <2>3 DEF KeyOrder
<1> DEFINE F(m) == Nth(m)[3]
<1>8. \A m \in 1..N : o[m] = F(m)
  <2> HIDE DEF F, N
  <2>1. o = [m \in 1..N |-> F(m)]
    BY <1>3 DEF F
  <2> QED BY <2>1
<1>9. DOMAIN o = 1..N /\ o = [m \in 1..N |-> o[m]]
  BY <1>3
<1> HIDE DEF E, K, R
<1>10. ASSUME NEW m \in 1..N
       PROVE  /\ Nth(m) \in K /\ Rank(Nth(m)) = m - 1
              /\ \A k \in K : Rank(k) = m - 1 => k = Nth(m)
  <2>1. m - 1 \in 0..(N - 1)
    BY <1>6
  <2>2. PICK x \in K : Rank(x) = m - 1 /\ \A y \in K : Rank(y) = m - 1 => y = x
    BY <1>2, <2>1, RankIsPlace
  <2>3. Nth(m) \in K /\ Rank(Nth(m)) = m - 1
    <3>1. \E k \in K : Cardinality({l \in K : Precedes(l, k)}) = m - 1
      BY <1>4, <2>2
    <3>2. Nth(m) \in K /\ Cardinality({l \in K : Precedes(l, Nth(m))}) = m - 1
      BY <3>1
    <3> QED BY <1>4, <3>2
  <2> HIDE DEF Nth, Rank
  <2> QED BY <2>2, <2>3
<1> HIDE DEF Nth
<1>11. \A m \in 1..N : o[m] \in E /\ Nth(m) = SortKey(o[m])
  BY <1>2, <1>8, <1>10
<1>12. \A k \in K : Rank(k) \in 0..(N - 1) /\ \A y \in K : <<k, y>> \in R => Rank(k) < Rank(y)
  BY <1>2, RankGrows
<1> HIDE DEF Rank
<1>13. o \in [1..N -> E]
  BY <1>9, <1>11
<1>14. \A m, l \in 1..N : o[m] = o[l] => m = l
  <2> SUFFICES ASSUME NEW m \in 1..N, NEW l \in 1..N, o[m] = o[l] PROVE m = l
    OBVIOUS
  <2>1. m - 1 = l - 1
    BY <1>10, <1>11
  <2> HIDE DEF N
  <2> QED BY <1>6, <2>1
<1>15. ASSUME NEW i \in E PROVE \E m \in 1..N : o[m] = i
  <2>1. SortKey(i) \in K /\ Rank(SortKey(i)) \in 0..(N - 1)
    BY <1>5, <1>12
  <2> DEFINE m == Rank(SortKey(i)) + 1
  <2>2. m \in 1..N /\ Rank(SortKey(i)) = m - 1
    <3> HIDE DEF N
    <3> QED BY <1>6, <2>1
  <2> HIDE DEF m
  <2>3. SortKey(i) = Nth(m)
    BY <1>10, <2>1, <2>2
  <2>4. o[m] = i
    BY <1>5, <1>8, <2>2, <2>3
  <2> QED BY <2>2, <2>4
<1>16. ASSUME NEW m \in 1..N, NEW l \in 1..N, m < l PROVE Phase(o[m]) <= Phase(o[l])
  <2>1. Nth(m) \in K /\ Nth(l) \in K /\ Rank(Nth(m)) = m - 1 /\ Rank(Nth(l)) = l - 1
    BY <1>10
  <2>2. Rank(Nth(m)) < Rank(Nth(l))
    <3> HIDE DEF N
    <3> QED BY <1>6, <1>16, <2>1
  <2>3. ~(<<Nth(l), Nth(m)>> \in R) /\ Nth(l) # Nth(m)
    <3>1. Rank(Nth(m)) \in Int /\ Rank(Nth(l)) \in Int
      BY <1>12, <2>1
    <3> QED BY <1>12, <2>1, <2>2, <3>1
  <2>4. <<Nth(m), Nth(l)>> \in R
    BY <1>2, <2>1, <2>3 DEF StrictOrder
  <2>5. Nth(m)[1] <= Nth(l)[1]
    BY <1>7, <2>1, <2>4
  <2> QED BY <1>5, <1>11, <2>5
<1> HIDE DEF N
<1> QED BY <1>6, <1>13, <1>14, <1>15, <1>16 DEF E

-----------------------------------------------------------------------------
(* Money is conserved. *)

\* Unless a sell went short, what was paid less what departed is the cost of
\* what is held plus what sells returned less their gain.
Balanced(a) ==
  ~a.short => /\ a.paid - a.departed = a.cost + a.proceeds - a.realized
              /\ a.shares = a.bought - a.sold
              /\ a.shares = 0 => a.cost = 0

\* The sums a re-basing and a sell leave balanced.
LEMMA ScaledBalance ==
  \A p, d, c, r, g, n \in Int : p - d = c + r - g => p * n - d * n = c * n + r * n - g * n
<1> SUFFICES ASSUME NEW p \in Int, NEW d \in Int, NEW c \in Int, NEW r \in Int, NEW g \in Int,
                    NEW n \in Int, p - d = c + r - g
             PROVE  p * n - d * n = c * n + r * n - g * n
  OBVIOUS
<1>1. (p - d) * n = (c + r - g) * n
  OBVIOUS
<1>2. (p - d) * n = p * n - d * n
  OBVIOUS
<1>3. (c + r - g) * n = c * n + r * n - g * n
  OBVIOUS
<1> QED BY <1>1, <1>2, <1>3

LEMMA RebasedBalance ==
  \A p, d, c, r, g, x, y \in Int :
    p - d = c + r - g => p * y - (d * y + c * (y - x)) = c * x + r * y - g * y
<1> SUFFICES ASSUME NEW p \in Int, NEW d \in Int, NEW c \in Int, NEW r \in Int, NEW g \in Int,
                    NEW x \in Int, NEW y \in Int, p - d = c + r - g
             PROVE  p * y - (d * y + c * (y - x)) = c * x + r * y - g * y
  OBVIOUS
<1>1. p * y - d * y = c * y + r * y - g * y
  BY ScaledBalance
<1>2. c * (y - x) = c * y - c * x
  OBVIOUS
<1> QED BY <1>1, <1>2

LEMMA SoldBalance ==
  \A p, d, c, r, g, n, x, q \in Int :
    p - d = c + r - g
      => p * n - d * n = (c * n - q * c) + (r * n + x) - (g * n + x - q * c)
<1> SUFFICES ASSUME NEW p \in Int, NEW d \in Int, NEW c \in Int, NEW r \in Int, NEW g \in Int,
                    NEW n \in Int, NEW x \in Int, NEW q \in Int, p - d = c + r - g
             PROVE  p * n - d * n = (c * n - q * c) + (r * n + x) - (g * n + x - q * c)
  OBVIOUS
<1>1. p * n - d * n = c * n + r * n - g * n
  BY ScaledBalance
<1> QED BY <1>1

LEMMA RebaseBalanced ==
  ASSUME NEW a \in Accounts, Balanced(a), NEW k \in 1..Len(Demergers), NEW b, b = Rebase(a, k)
  PROVE  Balanced(b)
<1>1. SUFFICES ASSUME ~b.short
               PROVE  /\ b.paid - b.departed = b.cost + b.proceeds - b.realized
                      /\ b.shares = b.bought - b.sold
                      /\ b.shares = 0 => b.cost = 0
  BY DEF Balanced
<1>2. PICK d : d = Demergers[k]
  OBVIOUS
<1>3. b.shares = a.shares /\ b.bought = a.bought /\ b.sold = a.sold /\ b.short = a.short
  BY RebaseIs
<1>4. /\ a.paid - a.departed = a.cost + a.proceeds - a.realized
      /\ a.shares = a.bought - a.sold
      /\ a.shares = 0 => a.cost = 0
  BY <1>1, <1>3 DEF Balanced
<1>5. CASE a.shares = 0
  <2>1. /\ b.cost = a.cost /\ b.realized = a.realized /\ b.paid = a.paid
        /\ b.proceeds = a.proceeds /\ b.departed = a.departed
    BY <1>2, <1>5, RebaseIs
  <2> QED BY <1>3, <1>4, <2>1
<1>6. CASE a.shares # 0
  <2>1. /\ b.cost = a.cost * d.num /\ b.realized = a.realized * d.den /\ b.paid = a.paid * d.den
        /\ b.proceeds = a.proceeds * d.den
        /\ b.departed = a.departed * d.den + a.cost * (d.den - d.num)
    BY <1>2, <1>6, RebaseIs
  <2>2. /\ a.paid \in Int /\ a.departed \in Int /\ a.cost \in Int /\ a.proceeds \in Int
        /\ a.realized \in Int
    BY AccountIs
  <2>3. d.den \in Int /\ d.num \in Int
    BY <1>2, DemergerTypes
  <2>8. b.paid - b.departed = b.cost + b.proceeds - b.realized
    <3>1. a.paid * d.den - (a.departed * d.den + a.cost * (d.den - d.num))
            = a.cost * d.num + a.proceeds * d.den - a.realized * d.den
      <4>1. PICK p \in Int, q \in Int, c \in Int, r \in Int, g \in Int, x \in Int, y \in Int :
              /\ p = a.paid /\ q = a.departed /\ c = a.cost /\ r = a.proceeds /\ g = a.realized
              /\ x = d.num /\ y = d.den
        BY <2>2, <2>3
      <4>2. p - q = c + r - g
        BY <1>4, <4>1
      <4>3. p * y - (q * y + c * (y - x)) = c * x + r * y - g * y
        BY <4>2, RebasedBalance
      <4> QED BY <4>1, <4>3, Zenon
    <3> QED BY <2>1, <3>1, Zenon
  <2> QED BY <1>3, <1>4, <1>6, <2>8
<1> QED BY <1>5, <1>6

LEMMA BuyBalanced ==
  ASSUME NEW a \in Accounts, Balanced(a), NEW v \in Version, NEW b, b = Buy(a, v)
  PROVE  Balanced(b)
<1>1. PICK x \in Int :
        /\ b.short = a.short
        /\ b.shares = a.shares + v.qty /\ b.bought = a.bought + v.qty /\ b.sold = a.sold
        /\ b.cost = a.cost + x /\ b.boughtCost = a.boughtCost + x /\ b.paid = a.paid + x
        /\ b.realized = a.realized /\ b.proceeds = a.proceeds /\ b.departed = a.departed
  <2>1. v.qty * v.price * a.per \in Int
    BY BuyIs
  <2> QED BY <2>1, BuyIs
<1>2. v.qty \in Nat /\ v.qty > 0
  BY FillTypes
<1>3. /\ a.paid \in Int /\ a.departed \in Int /\ a.cost \in Int /\ a.proceeds \in Int
      /\ a.realized \in Int /\ a.shares \in Nat /\ a.bought \in Int /\ a.sold \in Int
  BY AccountIs
<1>4. ASSUME ~b.short
      PROVE  /\ b.paid - b.departed = b.cost + b.proceeds - b.realized
             /\ b.shares = b.bought - b.sold
             /\ b.shares # 0
  <2>1. a.paid - a.departed = a.cost + a.proceeds - a.realized /\ a.shares = a.bought - a.sold
    BY <1>1, <1>4 DEF Balanced
  <2>2. PICK q \in Int, d \in Int, c \in Int, r \in Int, g \in Int :
          /\ q = a.paid /\ d = a.departed /\ c = a.cost /\ r = a.proceeds /\ g = a.realized
    BY <1>3
  <2>3. b.paid - b.departed = b.cost + b.proceeds - b.realized
    <3>1. q - d = c + r - g
      BY <2>1, <2>2
    <3>2. (q + x) - d = (c + x) + r - g
      BY <3>1
    <3> QED BY <1>1, <2>2, <3>2, Zenon
  <2>4. b.shares = a.shares + v.qty /\ b.bought = a.bought + v.qty /\ b.sold = a.sold
    BY <1>1
  <2>5. b.shares = b.bought - b.sold /\ b.shares # 0
    BY <1>2, <1>3, <2>1, <2>4
  <2> QED BY <2>3, <2>5
<1> QED BY <1>4 DEF Balanced

LEMMA SellBalanced ==
  ASSUME NEW a \in Accounts, Balanced(a), NEW v \in Version, NEW b, b = Sell(a, v)
  PROVE  Balanced(b)
<1>1. SUFFICES ASSUME ~b.short
               PROVE  /\ b.paid - b.departed = b.cost + b.proceeds - b.realized
                      /\ b.shares = b.bought - b.sold
                      /\ b.shares = 0 => b.cost = 0
  BY DEF Balanced
<1>2. PICK n, x \in Int :
        /\ n = a.shares /\ b.shares = n - v.qty
        /\ b.cost = a.cost * n - v.qty * a.cost
        /\ b.realized = a.realized * n + x - v.qty * a.cost
        /\ b.proceeds = a.proceeds * n + x
        /\ b.paid = a.paid * n /\ b.departed = a.departed * n
  BY <1>1, SellIs
<1>3. /\ ~a.short /\ b.bought = a.bought /\ b.sold = a.sold + v.qty
  BY <1>1, SellIs
<1>4. /\ a.paid - a.departed = a.cost + a.proceeds - a.realized
      /\ a.shares = a.bought - a.sold
  BY <1>3 DEF Balanced
<1>5. /\ a.paid \in Int /\ a.departed \in Int /\ a.cost \in Int /\ a.proceeds \in Int
      /\ a.realized \in Int /\ a.shares \in Int /\ a.bought \in Int /\ a.sold \in Int
      /\ v.qty \in Int
  BY AccountIs, FillTypes
<1>9. b.paid - b.departed = b.cost + b.proceeds - b.realized
  <2>1. a.paid * n - a.departed * n
          = (a.cost * n - v.qty * a.cost) + (a.proceeds * n + x) - (a.realized * n + x - v.qty * a.cost)
    <3>1. PICK p \in Int, d \in Int, c \in Int, r \in Int, g \in Int, q \in Int :
            /\ p = a.paid /\ d = a.departed /\ c = a.cost /\ r = a.proceeds /\ g = a.realized
            /\ q = v.qty
      BY <1>5
    <3>2. p - d = c + r - g
      BY <1>4, <3>1
    <3>3. p * n - d * n = (c * n - q * c) + (r * n + x) - (g * n + x - q * c)
      BY <3>2, SoldBalance
    <3> QED BY <3>1, <3>3, Zenon
  <2> QED BY <1>2, <2>1, Zenon
<1>s. n = a.shares /\ b.shares = n - v.qty
  BY <1>2
<1>10. b.shares = b.bought - b.sold
  BY <1>s, <1>3, <1>4, <1>5
<1>11. ASSUME b.shares = 0 PROVE b.cost = 0
  <2>1. n = v.qty
    BY <1>s, <1>5, <1>11
  <2>2. \A y, z \in Int : y * z - z * y = 0
    OBVIOUS
  <2> QED BY <1>2, <1>5, <2>1, <2>2, Zenon
<1> QED BY <1>9, <1>10, <1>11

LEMMA CrossBalanced ==
  ASSUME NEW a \in Accounts, Balanced(a), NEW upto \in 0..Len(Demergers)
  PROVE  Balanced(Cross(a, upto))
<1> DEFINE G == {c \in Accounts : Balanced(c)}
<1>1. \A c \in G, k \in 1..Len(Demergers) : Rebase(c, k) \in G
  BY RebaseIs, RebaseBalanced
<1>2. G \in SUBSET Accounts /\ a \in G
  OBVIOUS
<1> HIDE DEF G
<1>3. Cross(a, upto) \in G
  BY <1>1, <1>2, CrossKeeps
<1> QED BY <1>3 DEF G

\* One fill of the walk.
LEMMA ApplyIs ==
  ASSUME TypeOK, NEW i \in DOMAIN events, NEW a \in Accounts,
         NEW v, v = events[i].version, NEW c, c = Cross(a, Phase(i)), NEW b, b = Apply(a, i)
  PROVE  /\ v \in Version /\ c \in Accounts /\ b \in Accounts
         /\ \/ v.side = "BUY" /\ b = Buy(c, v)
            \/ v.side # "BUY" /\ b = Sell(c, v)
         /\ c.shares = a.shares /\ c.bought = a.bought /\ c.sold = a.sold /\ c.short = a.short
         /\ a.short => b.short
         /\ b.bought - b.sold = a.bought - a.sold + Signed(v)
<1>1. v \in Version /\ Phase(i) \in 0..Len(Demergers)
  BY RowTypes, PhaseIs
<1>2. /\ c \in Accounts
      /\ c.shares = a.shares /\ c.bought = a.bought /\ c.sold = a.sold /\ c.short = a.short
  BY <1>1, CrossIs
<1>3. b = IF v.side = "BUY" THEN Buy(c, v) ELSE Sell(c, v)
  BY DEF Apply
<1>4. v.qty \in Nat
  BY <1>1, FillTypes
<1>5. CASE v.side = "BUY"
  <2>1. b = Buy(c, v)
    BY <1>3, <1>5
  <2>2. b \in Accounts /\ b.short = c.short /\ b.bought = c.bought + v.qty /\ b.sold = c.sold
    BY <1>1, <1>2, <2>1, BuyIs
  <2>3. b.bought - b.sold = a.bought - a.sold + Signed(v)
    <3>1. a.bought \in Int /\ a.sold \in Int
      BY AccountIs
    <3> QED BY <1>2, <1>4, <1>5, <2>2, <3>1 DEF Signed
  <2> QED BY <1>1, <1>2, <1>5, <2>1, <2>2, <2>3
<1>6. CASE v.side # "BUY"
  <2>1. b = Sell(c, v)
    BY <1>3, <1>6
  <2>2. b \in Accounts /\ (c.short => b.short) /\ b.bought = c.bought /\ b.sold = c.sold + v.qty
    BY <1>1, <1>2, <2>1, SellIs
  <2>3. b.bought - b.sold = a.bought - a.sold + Signed(v)
    <3>1. a.bought \in Int /\ a.sold \in Int
      BY AccountIs
    <3> QED BY <1>2, <1>4, <1>6, <2>2, <3>1 DEF Signed
  <2> QED BY <1>1, <1>2, <1>6, <2>1, <2>2, <2>3
<1> QED BY <1>5, <1>6

LEMMA ApplyBalanced ==
  ASSUME TypeOK, NEW i \in DOMAIN events, NEW a \in Accounts, Balanced(a)
  PROVE  Balanced(Apply(a, i))
<1>1. PICK v, c, b : v = events[i].version /\ c = Cross(a, Phase(i)) /\ b = Apply(a, i)
  OBVIOUS
<1>2. /\ v \in Version /\ c \in Accounts
      /\ \/ b = Buy(c, v)
         \/ b = Sell(c, v)
  BY <1>1, ApplyIs
<1>3. Balanced(c)
  <2>1. Phase(i) \in 0..Len(Demergers)
    BY PhaseIs
  <2> QED BY <1>1, <2>1, CrossBalanced
<1> QED BY <1>1, <1>2, <1>3, BuyBalanced, SellBalanced

\* The walk of a position, fill by fill.
Walks(f, n, o) ==
  /\ n \in Nat /\ f \in [0..n -> Accounts] /\ f[0] = Opening
  /\ \A k \in 1..n : f[k] = Apply(f[k - 1], o[k])

LEMMA WalkIs ==
  ASSUME TypeOK, NEW u, NEW s, NEW o, o = InOrder(u, s)
  PROVE  \E n : \E f :
           /\ Walks(f, n, o) /\ State(u, s) = Cross(f[n], Len(Demergers))
           /\ o \in [1..n -> Effective(u, s)]
           /\ \A m, l \in 1..n : o[m] = o[l] => m = l
           /\ \A i \in Effective(u, s) : \E m \in 1..n : o[m] = i
           /\ \A m, l \in 1..n : m < l => Phase(o[m]) <= Phase(o[l])
<1>1. PICK n \in Nat :
           /\ o \in [1..n -> Effective(u, s)]
           /\ \A m, l \in 1..n : o[m] = o[l] => m = l
           /\ \A i \in Effective(u, s) : \E m \in 1..n : o[m] = i
           /\ \A m, l \in 1..n : m < l => Phase(o[m]) <= Phase(o[l])
  BY OrderIs
<1>2. o \in Seq(Effective(u, s)) /\ Len(o) = n
  BY <1>1
<1>3. \A b \in Accounts, i \in Effective(u, s) : Apply(b, i) \in Accounts
  <2>1. Effective(u, s) \subseteq DOMAIN events
    BY DEF Effective, Rows
  <2> QED BY <2>1, ApplyIs
<1>4. PICK f \in [0..Len(o) -> Accounts] :
        /\ f[0] = Opening /\ f[Len(o)] = FoldLeft(Apply, Opening, o)
        /\ \A k \in 1..Len(o) : f[k] = Apply(f[k - 1], o[k])
  BY <1>2, <1>3, WalkChain
<1>5. Walks(f, n, o)
  BY <1>1, <1>2, <1>4 DEF Walks
<1>6. State(u, s) = Cross(f[n], Len(Demergers))
  BY <1>2, <1>4 DEF State
<1> QED BY <1>1, <1>5, <1>6

\* What holds of the opening and is kept by each fill holds after all of them.
LEMMA WalkStays ==
  ASSUME NEW f, NEW n, NEW o, Walks(f, n, o), NEW G, f[0] \in G[0],
         \A k \in 1..n : f[k - 1] \in Accounts /\ f[k - 1] \in G[k - 1] => Apply(f[k - 1], o[k]) \in G[k]
  PROVE  \A k \in 0..n : f[k] \in G[k]
<1>1. n \in Nat /\ \A k \in 1..n : f[k - 1] \in Accounts /\ f[k] = Apply(f[k - 1], o[k])
  BY DEF Walks
<1>2. \A k \in 1..n : f[k - 1] \in G[k - 1] => f[k] \in G[k]
  BY <1>1
<1> QED BY <1>1, <1>2, ChainStays

-----------------------------------------------------------------------------
(* Every rupee is accounted for. *)

LEMMA StateIs ==
  ASSUME TypeOK, NEW u, NEW s, NEW a, a = State(u, s)
  PROVE  a \in Accounts /\ Balanced(a) /\ a.bought - a.sold = RawRemaining(u, s)
<1>1. PICK o : o = InOrder(u, s)
  OBVIOUS
<1> DEFINE E == Effective(u, s)
<1>2. PICK n : \E f :
           /\ Walks(f, n, o) /\ State(u, s) = Cross(f[n], Len(Demergers))
           /\ o \in [1..n -> E]
           /\ \A m, l \in 1..n : o[m] = o[l] => m = l
           /\ \A i \in E : \E m \in 1..n : o[m] = i
  BY <1>1, WalkIs
<1>3. PICK f :
           /\ Walks(f, n, o) /\ State(u, s) = Cross(f[n], Len(Demergers))
           /\ o \in [1..n -> E]
           /\ \A m, l \in 1..n : o[m] = o[l] => m = l
           /\ \A i \in E : \E m \in 1..n : o[m] = i
  BY <1>2
<1>4. /\ n \in Nat /\ n \in 0..n /\ f[0] = Opening /\ \A k \in 0..n : f[k] \in Accounts
      /\ \A k \in 1..n : f[k] = Apply(f[k - 1], o[k]) /\ k - 1 \in 0..n /\ k \in 0..n
  BY <1>3 DEF Walks
<1>5. E \subseteq DOMAIN events
  BY DEF Effective, Rows
<1>6. PICK g : Additive(Weights, E, g) /\ RawRemaining(u, s) = g[E]
  BY RawIsSum
<1>7. \A i \in E : Weights[i] = Signed(events[i].version) /\ Weights[i] \in Int
  BY <1>5, RawIsSum DEF Weights
<1>8. Len(Demergers) \in 0..Len(Demergers)
  BY DemergerTypes
<1> HIDE DEF E
\* The rows taken by the first k fills.
<1> DEFINE Taken(k) == {o[j] : j \in 1..k}
<1>9. Taken(0) = {} /\ Taken(n) = E
  <2>1. 1..0 = {}
    OBVIOUS
  <2>2. \A j \in 1..n : o[j] \in E
    BY <1>3
  <2> QED BY <1>3, <2>1, <2>2
<1>10. ASSUME NEW k \in 1..n
       PROVE  Taken(k) \in SUBSET E /\ o[k] \in Taken(k) /\ Taken(k) \ {o[k]} = Taken(k - 1)
  <2>1. k \in Nat /\ k > 0 /\ k <= n
    BY <1>4
  <2>2. 1..k \subseteq 1..n /\ k \in 1..k /\ (1..k) \ {k} = 1..(k - 1) /\ 1..(k - 1) \subseteq 1..k
    BY <1>4, <2>1
  <2>3. \A j \in 1..k : o[j] \in E /\ (o[j] = o[k] => j = k)
    BY <1>3, <2>2
  <2> QED BY <2>2, <2>3
<1> DEFINE G == [k \in 0..n |-> {c \in Accounts : Balanced(c) /\ c.bought - c.sold = g[Taken(k)]}]
<1>11. Opening \in Accounts /\ Balanced(Opening) /\ Opening.bought - Opening.sold = 0
  BY OpeningIs DEF Balanced, Opening
<1>12. f[0] \in G[0]
  <2>1. g[Taken(0)] = 0
    BY <1>6, <1>9 DEF Additive
  <2>2. 0 \in 0..n
    BY <1>4
  <2> HIDE DEF Taken
  <2> QED BY <1>4, <1>11, <2>1, <2>2
<1>13. ASSUME NEW k \in 1..n, f[k - 1] \in G[k - 1] PROVE Apply(f[k - 1], o[k]) \in G[k]
  <2>1. k \in 0..n /\ k - 1 \in 0..n
    BY <1>4
  <2> HIDE DEF Taken
  <2>2. f[k - 1] \in Accounts /\ Balanced(f[k - 1]) /\ f[k - 1].bought - f[k - 1].sold = g[Taken(k - 1)]
    BY <1>13, <2>1
  <2>3. o[k] \in E /\ o[k] \in DOMAIN events
    BY <1>3, <1>5
  <2>4. PICK i, c, b : i = o[k] /\ c = f[k - 1] /\ b = Apply(c, i)
    OBVIOUS
  <2>5. b \in Accounts /\ b.bought - b.sold = c.bought - c.sold + Signed(events[i].version)
    BY <2>2, <2>3, <2>4, ApplyIs
  <2>6. Balanced(b)
    BY <2>2, <2>3, <2>4, ApplyBalanced
  <2>7. g[Taken(k)] = Weights[i] + g[Taken(k - 1)]
    BY <1>6, <1>10, <2>4 DEF Additive
  <2>8. c.bought - c.sold \in Int /\ Weights[i] \in Int /\ Weights[i] = Signed(events[i].version)
    <3>1. c.bought \in Int /\ c.sold \in Int
      BY <2>2, <2>4, AccountIs
    <3> QED BY <1>7, <2>3, <2>4, <3>1
  <2>9. b.bought - b.sold = g[Taken(k)]
    <3>1. c.bought - c.sold = g[Taken(k - 1)]
      BY <2>2, <2>4
    <3>2. \A x, y \in Int : x + y = y + x
      OBVIOUS
    <3>3. b.bought - b.sold = Weights[i] + (c.bought - c.sold)
      BY <2>5, <2>8, <3>2
    <3> QED BY <2>7, <3>1, <3>3
  <2> QED BY <2>1, <2>4, <2>5, <2>6, <2>9
<1>14. f[n] \in G[n]
  <2> HIDE DEF G
  <2>1. \A k \in 0..n : f[k] \in G[k]
    BY <1>3, <1>12, <1>13, WalkStays
  <2> QED BY <1>4, <2>1
<1>15. f[n] \in Accounts /\ Balanced(f[n]) /\ f[n].bought - f[n].sold = RawRemaining(u, s)
  <2> HIDE DEF Taken
  <2> QED BY <1>4, <1>6, <1>9, <1>14
<1>16. a \in Accounts /\ a.bought = f[n].bought /\ a.sold = f[n].sold
  BY <1>3, <1>8, <1>15, CrossIs
<1>17. Balanced(a)
  BY <1>3, <1>8, <1>15, CrossBalanced
<1> QED BY <1>15, <1>16, <1>17

LEMMA EveryRupeeNow == TypeOK => EveryRupeeAccounted
<1> SUFFICES ASSUME TypeOK, NEW p \in Position, NEW a, a = StateOf(p), ~a.short
             PROVE  /\ a.paid - a.departed = a.cost + a.proceeds - a.realized
                    /\ a.shares = RawRemaining(p[1], p[2])
                    /\ a.shares = 0 => a.cost = 0
  BY DEF EveryRupeeAccounted
<1>1. a = State(p[1], p[2])
  BY DEF StateOf
<1>2. Balanced(a) /\ a.bought - a.sold = RawRemaining(p[1], p[2])
  BY <1>1, StateIs
<1> QED BY <1>2 DEF Balanced

-----------------------------------------------------------------------------
(* The cost basis of a position that was bought first. *)

\* The basis of what remains is what is held at cost; before any sell, all
\* that was bought is held.
Based(a) ==
  ~a.short => /\ a.cost * a.bought = a.boughtCost * a.shares
              /\ a.sold = 0 => a.cost = a.boughtCost /\ a.shares = a.bought

LEMMA ScaledBasis ==
  \A c, m, e, h, n \in Int : c * m = e * h => (c * n) * m = (e * n) * h
<1> SUFFICES ASSUME NEW c \in Int, NEW m \in Int, NEW e \in Int, NEW h \in Int, NEW n \in Int,
                    c * m = e * h
             PROVE  (c * n) * m = (e * n) * h
  OBVIOUS
<1>1. (c * n) * m = (c * m) * n /\ (e * n) * h = (e * h) * n
  OBVIOUS
<1> QED BY <1>1

LEMMA SoldBasis ==
  \A c, m, e, n, q \in Int : c * m = e * n => (c * n - q * c) * m = (e * n) * (n - q)
<1> SUFFICES ASSUME NEW c \in Int, NEW m \in Int, NEW e \in Int, NEW n \in Int, NEW q \in Int,
                    c * m = e * n
             PROVE  (c * n - q * c) * m = (e * n) * (n - q)
  OBVIOUS
<1>1. (c * n - q * c) * m = (c * m) * (n - q)
  OBVIOUS
<1> QED BY <1>1

LEMMA RebaseBased ==
  ASSUME NEW a \in Accounts, Based(a), NEW k \in 1..Len(Demergers), NEW b, b = Rebase(a, k)
  PROVE  Based(b)
<1>1. PICK d : d = Demergers[k]
  OBVIOUS
<1>2. b.shares = a.shares /\ b.bought = a.bought /\ b.sold = a.sold /\ b.short = a.short
  BY RebaseIs
<1>3. CASE a.shares = 0
  <2>1. b.cost = a.cost /\ b.boughtCost = a.boughtCost
    BY <1>1, <1>3, RebaseIs
  <2> QED BY <1>2, <2>1 DEF Based
<1>4. CASE a.shares # 0
  <2>1. b.cost = a.cost * d.num /\ b.boughtCost = a.boughtCost * d.num
    BY <1>1, <1>4, RebaseIs
  <2>2. ASSUME ~b.short
        PROVE  /\ b.cost * b.bought = b.boughtCost * b.shares
               /\ b.sold = 0 => b.cost = b.boughtCost /\ b.shares = b.bought
    <3>1. /\ a.cost * a.bought = a.boughtCost * a.shares
          /\ a.sold = 0 => a.cost = a.boughtCost /\ a.shares = a.bought
      BY <1>2, <2>2 DEF Based
    <3>2. PICK c \in Int, m \in Int, e \in Int, h \in Int, n \in Int :
            c = a.cost /\ m = a.bought /\ e = a.boughtCost /\ h = a.shares /\ n = d.num
      <4>1. a.cost \in Int /\ a.bought \in Int /\ a.boughtCost \in Int /\ a.shares \in Int
        BY AccountIs
      <4>2. d.num \in Int
        BY <1>1, DemergerTypes
      <4> QED BY <4>1, <4>2
    <3>3. c * m = e * h
      BY <3>1, <3>2
    <3>4. (c * n) * m = (e * n) * h
      BY <3>3, ScaledBasis
    <3>5. b.cost * b.bought = b.boughtCost * b.shares
      BY <1>2, <2>1, <3>2, <3>4, Zenon
    <3>6. ASSUME b.sold = 0 PROVE b.cost = b.boughtCost /\ b.shares = b.bought
      <4>1. a.cost = a.boughtCost /\ a.shares = a.bought
        BY <1>2, <3>1, <3>6
      <4> QED BY <1>2, <2>1, <4>1, Zenon
    <3> QED BY <3>5, <3>6
  <2> QED BY <2>2 DEF Based
<1> QED BY <1>3, <1>4

LEMMA CrossBased ==
  ASSUME NEW a \in Accounts, Based(a), NEW upto \in 0..Len(Demergers)
  PROVE  Based(Cross(a, upto))
<1> DEFINE G == {c \in Accounts : Based(c)}
<1>1. \A c \in G, k \in 1..Len(Demergers) : Rebase(c, k) \in G
  BY RebaseIs, RebaseBased
<1>2. G \in SUBSET Accounts /\ a \in G
  OBVIOUS
<1> HIDE DEF G
<1>3. Cross(a, upto) \in G
  BY <1>1, <1>2, CrossKeeps
<1> QED BY <1>3 DEF G

\* A buy keeps the basis as long as nothing was sold.
LEMMA BuyBased ==
  ASSUME NEW a \in Accounts, Based(a), NEW v \in Version, NEW b, b = Buy(a, v), a.sold = 0
  PROVE  Based(b) /\ b.sold = 0
<1>1. PICK x :
        /\ b.short = a.short
        /\ b.shares = a.shares + v.qty /\ b.bought = a.bought + v.qty /\ b.sold = a.sold
        /\ b.cost = a.cost + x /\ b.boughtCost = a.boughtCost + x
  BY BuyIs
<1>2. ASSUME ~b.short
      PROVE  b.cost = b.boughtCost /\ b.shares = b.bought
  <2>1. a.cost = a.boughtCost /\ a.shares = a.bought
    BY <1>1, <1>2 DEF Based
  <2> QED BY <1>1, <2>1
<1> QED BY <1>1, <1>2 DEF Based

LEMMA SellBased ==
  ASSUME NEW a \in Accounts, Based(a), NEW v \in Version, NEW b, b = Sell(a, v)
  PROVE  Based(b) /\ b.sold # 0
<1>1. b.bought = a.bought /\ b.sold = a.sold + v.qty /\ (a.short => b.short)
  BY SellIs
<1>2. v.qty \in Nat /\ v.qty > 0 /\ a.sold \in Nat
  BY FillTypes, AccountIs
<1>3. b.sold # 0
  BY <1>1, <1>2
<1>4. ASSUME ~b.short
      PROVE  b.cost * b.bought = b.boughtCost * b.shares
  <2>1. PICK n, x \in Int :
          /\ n = a.shares /\ b.shares = n - v.qty
          /\ b.cost = a.cost * n - v.qty * a.cost /\ b.boughtCost = a.boughtCost * n
    BY <1>4, SellIs
  <2>2. a.cost * a.bought = a.boughtCost * a.shares
    BY <1>1, <1>4 DEF Based
  <2>3. PICK c \in Int, m \in Int, e \in Int, q \in Int :
          c = a.cost /\ m = a.bought /\ e = a.boughtCost /\ q = v.qty
    BY <1>2, AccountIs
  <2>4. c * m = e * n
    BY <2>1, <2>2, <2>3
  <2>5. (c * n - q * c) * m = (e * n) * (n - q)
    BY <2>4, SoldBasis
  <2> QED BY <1>1, <2>1, <2>3, <2>5, Zenon
<1> QED BY <1>3, <1>4 DEF Based

LEMMA WalkBased ==
  ASSUME TypeOK, NEW E \in SUBSET DOMAIN events, NEW o, NEW n, NEW f, Walks(f, n, o), o \in [1..n -> E],
         \A l, m \in 1..n : l < m /\ events[o[m]].version.side = "BUY"
                            => events[o[l]].version.side = "BUY"
  PROVE  Based(f[n])
<1> DEFINE Buys(k) == \A j \in 1..k : events[o[j]].version.side = "BUY"
           G == [k \in 0..n |-> {a \in Accounts : Based(a) /\ (Buys(k) => a.sold = 0)}]
<1>1. /\ n \in Nat /\ n \in 0..n /\ f[0] = Opening /\ 0 \in 0..n
      /\ \A k \in 1..n : k \in 0..n /\ k - 1 \in 0..n
  BY DEF Walks
<1>2. f[0] \in G[0]
  <2>1. Opening \in Accounts /\ Based(Opening) /\ Opening.sold = 0
    BY OpeningIs DEF Opening, Based
  <2> HIDE DEF Buys
  <2> QED BY <1>1, <2>1
<1>3. ASSUME NEW k \in 1..n, f[k - 1] \in Accounts, f[k - 1] \in G[k - 1]
      PROVE  Apply(f[k - 1], o[k]) \in G[k]
  <2>1. k \in 0..n /\ k - 1 \in 0..n /\ o[k] \in E
    BY <1>1
  <2>2. \A j \in 1..(k - 1) : j \in 1..n /\ j < k
    BY <1>1
  <2>3. k \in 1..k /\ 1..(k - 1) \subseteq 1..k
    BY <1>1
  <2>4. events[o[k]].version.side = "BUY" => Buys(k - 1)
    BY <2>2
  <2>5. Buys(k) => events[o[k]].version.side = "BUY" /\ Buys(k - 1)
    BY <2>3
  <2>6. PICK i, a, v, c, b : /\ i = o[k] /\ a = f[k - 1] /\ v = events[i].version
                            /\ c = Cross(a, Phase(i)) /\ b = Apply(a, i)
    OBVIOUS
  <2> HIDE DEF Buys
  <2>7. i \in DOMAIN events /\ a \in Accounts /\ Based(a) /\ (Buys(k - 1) => a.sold = 0)
    BY <1>3, <2>1, <2>6
  <2>8. /\ v \in Version /\ c \in Accounts /\ b \in Accounts
        /\ \/ v.side = "BUY" /\ b = Buy(c, v)
           \/ v.side # "BUY" /\ b = Sell(c, v)
        /\ c.sold = a.sold
    BY <2>6, <2>7, ApplyIs
  <2>9. Based(c)
    <3>1. Phase(i) \in 0..Len(Demergers)
      BY <2>7, PhaseIs
    <3> QED BY <2>6, <2>7, <3>1, CrossBased
  <2>10. Based(b) /\ (Buys(k) => b.sold = 0)
    <3>1. CASE v.side = "BUY" /\ b = Buy(c, v)
      <4>1. c.sold = 0
        BY <2>4, <2>6, <2>7, <2>8, <3>1
      <4> QED BY <2>8, <2>9, <3>1, <4>1, BuyBased
    <3>2. CASE v.side # "BUY" /\ b = Sell(c, v)
      <4>1. ~Buys(k)
        BY <2>5, <2>6, <3>2
      <4> QED BY <2>8, <2>9, <3>2, <4>1, SellBased
    <3> QED BY <2>8, <3>1, <3>2
  <2> QED BY <2>1, <2>6, <2>8, <2>10
<1>4. \A k \in 0..n : f[k] \in G[k]
  <2> HIDE DEF G
  <2> QED BY <1>2, <1>3, WalkStays
<1>5. f[n] \in G[n]
  BY <1>1, <1>4
<1> HIDE DEF Buys
<1> QED BY <1>1, <1>5

LEMMA BasisNow == TypeOK => BasisOfBuysFirst
<1> SUFFICES ASSUME TypeOK, NEW p \in Position, NEW a, a = StateOf(p), ~a.short, BuysFirst(p)
             PROVE  CostBasisRemaining(a) = a.cost * a.bought
  BY DEF BasisOfBuysFirst
<1> DEFINE u == p[1]
           s == p[2]
           o == InOrder(u, s)
<1>1. a = State(u, s) /\ OrderOf(p) = o
  BY DEF StateOf, OrderOf
<1>2. PICK n : \E f : /\ Walks(f, n, o) /\ State(u, s) = Cross(f[n], Len(Demergers))
                      /\ o \in [1..n -> Effective(u, s)]
  BY WalkIs
<1>3. PICK f : /\ Walks(f, n, o) /\ State(u, s) = Cross(f[n], Len(Demergers))
               /\ o \in [1..n -> Effective(u, s)]
  BY <1>2
<1>4. \A l, m \in 1..n : l < m /\ events[o[m]].version.side = "BUY"
                         => events[o[l]].version.side = "BUY"
  <2>1. DOMAIN o = 1..n
    BY <1>3
  <2> HIDE DEF o
  <2> QED BY <1>1, <2>1 DEF BuysFirst
<1> HIDE DEF o, u, s
<1>5. Based(f[n])
  <2>1. Effective(u, s) \in SUBSET DOMAIN events
    BY DEF Effective, Rows
  <2> QED BY <1>3, <1>4, <2>1, WalkBased
<1>6. f[n] \in Accounts /\ Len(Demergers) \in 0..Len(Demergers)
  <2>1. n \in Nat /\ f \in [0..n -> Accounts]
    BY <1>3 DEF Walks
  <2>2. n \in 0..n
    BY <2>1
  <2> QED BY <2>1, <2>2, DemergerTypes
<1>7. Based(a)
  BY <1>1, <1>3, <1>5, <1>6, CrossBased
<1>8. a \in Accounts /\ Balanced(a)
  BY <1>1, StateIs
<1>9. a.bought - a.sold = a.shares /\ a.shares \in Nat /\ a.cost * a.bought = a.boughtCost * a.shares
  BY <1>7, <1>8, AccountIs DEF Balanced, Based
<1>10. Max({0, a.bought - a.sold}) = a.shares
  <2>1. PICK m : m = Max({0, a.shares})
    OBVIOUS
  <2>2. m = a.shares
    BY <1>9, <2>1, RemainingIs
  <2> QED BY <1>9, <2>1, <2>2
<1> QED BY <1>9, <1>10 DEF CostBasisRemaining

\* For any readers, rows, prices and demergers, money is conserved in every
\* position that no sell took short, nothing of the cost outlives its last
\* share, and the basis shown after buys only is that of the shares held.
THEOREM MoneyIsConserved == Spec => []PositionInv
<1>1. TypeOK => PositionInv
  BY EveryRupeeNow, BasisNow DEF PositionInv
<1> QED BY <1>1, TypeCorrect, PTL

-----------------------------------------------------------------------------
(* A market in which only the demerger moves the price. *)

\* The products of a walk at the prices of such a market: p rupees a share
\* before the ex-date, x after it, where x * d = p * m.
LEMMA FlatBuy ==
  \A c, h, p, e, q \in Int : c = h * (p * e) => c + q * p * e = (h + q) * (p * e)
<1> SUFFICES ASSUME NEW c \in Int, NEW h \in Int, NEW p \in Int, NEW e \in Int, NEW q \in Int,
                    c = h * (p * e)
             PROVE  c + q * p * e = (h + q) * (p * e)
  OBVIOUS
<1>1. (h + q) * (p * e) = h * (p * e) + q * p * e
  OBVIOUS
<1> QED BY <1>1

LEMMA FlatBuyAfter ==
  \A c, d, h, p, m, e, q, x \in Int :
    c * d = h * ((p * m) * e) /\ x * d = p * m => (c + q * x * e) * d = (h + q) * ((p * m) * e)
<1> SUFFICES ASSUME NEW c \in Int, NEW d \in Int, NEW h \in Int, NEW p \in Int, NEW m \in Int,
                    NEW e \in Int, NEW q \in Int, NEW x \in Int,
                    c * d = h * ((p * m) * e), x * d = p * m
             PROVE  (c + q * x * e) * d = (h + q) * ((p * m) * e)
  OBVIOUS
<1>1. PICK y \in Int : y = p * m
  OBVIOUS
<1>2. (c + q * x * e) * d = c * d + q * (x * d) * e
  OBVIOUS
<1>3. (h + q) * (y * e) = h * (y * e) + q * y * e
  OBVIOUS
<1> QED BY <1>1, <1>2, <1>3

LEMMA FlatSell ==
  \A c, n, p, e, q \in Int :
    c = n * (p * e) => /\ (q * p) * (e * n) - q * c = 0
                       /\ c * n - q * c = (n - q) * (p * (e * n))
<1> SUFFICES ASSUME NEW c \in Int, NEW n \in Int, NEW p \in Int, NEW e \in Int, NEW q \in Int,
                    c = n * (p * e)
             PROVE  /\ (q * p) * (e * n) - q * c = 0
                    /\ c * n - q * c = (n - q) * (p * (e * n))
  OBVIOUS
<1>1. (q * p) * (e * n) = q * (n * (p * e))
  OBVIOUS
<1>2. c * n - q * c = (n - q) * c /\ (n - q) * (p * (e * n)) = (n - q) * (n * (p * e))
  OBVIOUS
<1> QED BY <1>1, <1>2

LEMMA FlatSellAfter ==
  \A c, d, n, p, m, e, q, x \in Int :
    c * d = n * ((p * m) * e) /\ x * d = p * m /\ d > 0
      => /\ (q * x) * (e * n) - q * c = 0
         /\ (c * n - q * c) * d = (n - q) * ((p * m) * (e * n))
<1> SUFFICES ASSUME NEW c \in Int, NEW d \in Int, NEW n \in Int, NEW p \in Int, NEW m \in Int,
                    NEW e \in Int, NEW q \in Int, NEW x \in Int,
                    c * d = n * ((p * m) * e), x * d = p * m, d > 0
             PROVE  /\ (q * x) * (e * n) - q * c = 0
                    /\ (c * n - q * c) * d = (n - q) * ((p * m) * (e * n))
  OBVIOUS
<1>1. PICK y \in Int : y = p * m
  OBVIOUS
<1>2. PICK z \in Int : z = (q * x) * (e * n) - q * c
  OBVIOUS
<1>3. z * d = 0
  <2>1. ((q * x) * (e * n) - q * c) * d = q * (x * d) * (e * n) - q * (c * d)
    OBVIOUS
  <2>2. q * y * (e * n) - q * (n * (y * e)) = 0
    OBVIOUS
  <2> QED BY <1>1, <1>2, <2>1, <2>2
<1>4. z = 0
  <2>1. \A k, l \in Int : l > 0 /\ k * l = 0 => k = 0
    OBVIOUS
  <2> QED BY <1>3, <2>1
<1>5. (c * n - q * c) * d = (n - q) * (c * d) /\ (n - q) * (y * (e * n)) = (n - q) * (n * (y * e))
  OBVIOUS
<1> QED BY <1>1, <1>2, <1>4, <1>5

LEMMA FlatRebase ==
  \A c, d, h, p, m, e \in Int :
    c = h * (p * e) => (c * m) * d = h * ((p * m) * (e * d))
<1> SUFFICES ASSUME NEW c \in Int, NEW d \in Int, NEW h \in Int, NEW p \in Int, NEW m \in Int,
                    NEW e \in Int, c = h * (p * e)
             PROVE  (c * m) * d = h * ((p * m) * (e * d))
  OBVIOUS
<1>1. h * ((p * m) * (e * d)) = ((h * (p * e)) * m) * d
  OBVIOUS
<1> QED BY <1>1

LEMMA SequenceOf ==
  ASSUME NEW n \in Nat, NEW S, NEW g \in [1..n -> S]
  PROVE  g \in Seq(S) /\ Len(g) = n
OBVIOUS

\* Held at what it is worth, before the ex-date or after it, and nothing
\* realized but by sells that found no share held.
AtWorth(a) ==
  LET d == Demergers[1]
  IN  /\ a.realized = a.unheld
      /\ a.phase = 0 => a.cost = a.shares * (d.prior * a.per)
      /\ a.phase = 1 => a.cost * d.den = a.shares * ((d.prior * d.num) * a.per)

LEMMA CrossAtWorth ==
  ASSUME Len(Demergers) = 1, NEW a \in Accounts, AtWorth(a), NEW upto \in 0..1, a.phase <= upto,
         NEW b, b = Cross(a, upto)
  PROVE  b \in Accounts /\ AtWorth(b) /\ b.phase = upto
<1> DEFINE orders == [k \in 1..(upto - a.phase) |-> a.phase + k]
<1>1. a.phase \in 0..1 /\ b = FoldLeft(Rebase, a, orders)
  BY AccountIs DEF Cross
<1>2. CASE a.phase = upto
  <2>1. orders \in Seq(1..Len(Demergers)) /\ Len(orders) = 0
    <3>1. 1..(upto - a.phase) = 1..0
      BY <1>1, <1>2
    <3>2. orders \in [1..0 -> 1..Len(Demergers)]
      BY <3>1
    <3> HIDE DEF orders
    <3>3. 0 \in Nat
      OBVIOUS
    <3> QED BY <3>2, <3>3, SequenceOf
  <2> HIDE DEF orders
  <2>2. PICK f \in [0..Len(orders) -> Accounts] :
          /\ f[0] = a /\ f[Len(orders)] = FoldLeft(Rebase, a, orders)
          /\ \A k \in 1..Len(orders) : f[k] = Rebase(f[k - 1], orders[k])
    BY <2>1, CrossChain
  <2>3. b = a
    BY <1>1, <2>1, <2>2
  <2> QED BY <1>2, <2>3
<1>3. CASE a.phase # upto
  <2>0. a.phase = 0 /\ upto = 1
    BY <1>1, <1>3
  <2>1. orders \in Seq(1..Len(Demergers)) /\ Len(orders) = 1 /\ orders[1] = 1
    <3>1. 1..(upto - a.phase) = 1..1 /\ \A k \in 1..1 : a.phase + k = 1
      BY <2>0
    <3>2. orders \in [1..1 -> 1..Len(Demergers)] /\ orders[1] = 1
      BY <3>1
    <3> HIDE DEF orders
    <3>3. 1 \in Nat
      OBVIOUS
    <3> QED BY <3>2, <3>3, SequenceOf
  <2> HIDE DEF orders
  <2>2. PICK f \in [0..Len(orders) -> Accounts] :
          /\ f[0] = a /\ f[Len(orders)] = FoldLeft(Rebase, a, orders)
          /\ \A k \in 1..Len(orders) : f[k] = Rebase(f[k - 1], orders[k])
    BY <2>1, CrossChain
  <2>3. b = Rebase(a, 1)
    <3>1. 1 \in 1..1 /\ 1 - 1 = 0
      OBVIOUS
    <3>2. f[1] = Rebase(f[0], 1)
      BY <2>1, <2>2, <3>1
    <3> QED BY <1>1, <2>1, <2>2, <3>2
  <2>4. PICK d : d = Demergers[1]
    OBVIOUS
  <2>5. 1 \in 1..Len(Demergers)
    OBVIOUS
  <2>6. /\ b \in Accounts /\ b.phase = 1 /\ b.shares = a.shares
        /\ a.shares = 0 => b.cost = a.cost /\ b.realized = a.realized /\ b.unheld = a.unheld
        /\ a.shares # 0 => /\ b.per = a.per * d.den /\ b.cost = a.cost * d.num
                           /\ b.realized = a.realized * d.den /\ b.unheld = a.unheld * d.den
    BY <2>3, <2>4, <2>5, RebaseIs
  <2>7. d.prior \in Int /\ d.num \in Int /\ d.den \in Int
    BY <2>4, <2>5, DemergerTypes
  <2>w. a.realized = a.unheld /\ a.cost = a.shares * (d.prior * a.per)
    BY <2>0, <2>4 DEF AtWorth
  <2>r. b.realized = b.unheld
    BY <2>6, <2>w, Zenon
  <2>8. b.cost * d.den = b.shares * ((d.prior * d.num) * b.per)
    <3>2. PICK c \in Int, h \in Int, p \in Int, m \in Int, e \in Int, n \in Int :
            c = a.cost /\ h = a.shares /\ p = d.prior /\ m = d.num /\ e = a.per /\ n = d.den
      <4>1. a.cost \in Int /\ a.shares \in Int /\ a.per \in Int
        BY AccountIs
      <4> QED BY <2>7, <4>1
    <3>3. c = h * (p * e)
      BY <2>w, <3>2, Zenon
    <3>4. CASE h = 0
      <4>1. c = 0
        BY <3>3, <3>4
      <4>2. b.cost = c /\ b.shares = h
        BY <2>6, <3>2, <3>4
      <4>3. \A x, y, z \in Int : 0 * x = 0 * (y * z)
        OBVIOUS
      <4>4. p * m \in Int /\ b.per \in Int /\ n \in Int
        BY <2>6, AccountIs
      <4>5. 0 * n = 0 * ((p * m) * b.per)
        BY <4>3, <4>4
      <4> QED BY <3>2, <3>4, <4>1, <4>2, <4>5, Zenon
    <3>5. CASE h # 0
      <4>1. b.per = e * n /\ b.cost = c * m /\ b.shares = h
        BY <2>6, <3>2, <3>5, Zenon
      <4>2. (c * m) * n = h * ((p * m) * (e * n))
        BY <3>3, FlatRebase
      <4> QED BY <3>2, <4>1, <4>2, Zenon
    <3> QED BY <3>4, <3>5
  <2>9. AtWorth(b)
    BY <2>4, <2>6, <2>r, <2>8 DEF AtWorth
  <2> QED BY <2>0, <2>6, <2>9
<1> QED BY <1>2, <1>3

\* A fill of such a market is on the side of the ex-date its price says.
LEMMA FlatFill ==
  ASSUME TypeOK, Len(Demergers) = 1, NEW i \in DOMAIN events, Credible(i), AtFlatPrice(i),
         NEW d, d = Demergers[1], NEW v, v = events[i].version
  PROVE  \/ Phase(i) = 0 /\ v.price = d.prior
         \/ Phase(i) = 1 /\ v.price * d.den = d.prior * d.num
<1>1. 1 \in 1..Len(Demergers) /\ DOMAIN Demergers = 1..Len(Demergers)
  BY DemergerTypes
<1>2. ByDate(i) \in 0..1 /\ (ByDate(i) = 0 => ~(d.ex <= When(i)))
  BY <1>1, ByDateIs
<1>3. AboveMidpoint(i, 1) \/ d.ex <= When(i)
  BY <1>1 DEF Credible
<1>4. IF AboveMidpoint(i, 1) THEN v.price = d.prior ELSE v.price * d.den = d.prior * d.num
  BY DEF AtFlatPrice
<1>p. /\ Phase(i) \in 0..ByDate(i)
      /\ \A k \in (Phase(i) + 1)..ByDate(i) : AboveMidpoint(i, k)
      /\ \A p \in 0..ByDate(i) : (\A k \in (p + 1)..ByDate(i) : AboveMidpoint(i, k)) => Phase(i) <= p
  BY PhaseIs
<1>5. CASE AboveMidpoint(i, 1)
  <2>1. 0 \in 0..ByDate(i) /\ \A k \in (0 + 1)..ByDate(i) : k = 1
    BY <1>2
  <2>2. Phase(i) <= 0
    BY <1>p, <1>5, <2>1
  <2>3. Phase(i) = 0
    BY <1>2, <1>p, <2>2
  <2> QED BY <1>4, <1>5, <2>3
<1>6. CASE ~AboveMidpoint(i, 1)
  <2>1. ByDate(i) = 1
    BY <1>2, <1>3, <1>6
  <2>2. Phase(i) # 0
    <3>1. ASSUME Phase(i) = 0 PROVE FALSE
      <4>1. 1 \in (Phase(i) + 1)..ByDate(i)
        BY <2>1, <3>1
      <4> QED BY <1>6, <1>p, <4>1
    <3> QED BY <3>1
  <2>3. Phase(i) = 1
    BY <1>p, <2>1, <2>2
  <2> QED BY <1>4, <1>6, <2>3
<1> QED BY <1>5, <1>6

LEMMA BuyAtWorth ==
  ASSUME Len(Demergers) = 1, NEW a \in Accounts, AtWorth(a), NEW v \in Version, NEW b, b = Buy(a, v),
         NEW d, d = Demergers[1],
         \/ a.phase = 0 /\ v.price = d.prior
         \/ a.phase = 1 /\ v.price * d.den = d.prior * d.num
  PROVE  AtWorth(b) /\ b.phase = a.phase
<1>1. PICK w : w = v.qty * v.price * a.per
  OBVIOUS
<1>2. /\ b.per = a.per /\ b.phase = a.phase /\ b.shares = a.shares + v.qty
      /\ b.cost = a.cost + w /\ b.realized = a.realized /\ b.unheld = a.unheld
  BY <1>1, BuyIs
<1>3. 1 \in 1..Len(Demergers)
  OBVIOUS
<1>4. PICK c \in Int, h \in Int, p \in Int, m \in Int, e \in Int, n \in Int, q \in Int, x \in Int :
        /\ c = a.cost /\ h = a.shares /\ p = d.prior /\ m = d.num /\ e = a.per /\ n = d.den
        /\ q = v.qty /\ x = v.price
  <2>1. a.cost \in Int /\ a.shares \in Int /\ a.per \in Int
    BY AccountIs
  <2>2. d.prior \in Int /\ d.num \in Int /\ d.den \in Int
    BY <1>3, DemergerTypes
  <2>3. v.qty \in Int /\ v.price \in Int
    BY FillTypes
  <2> QED BY <2>1, <2>2, <2>3
<1>5. b.cost = c + q * x * e /\ b.shares = h + q /\ b.per = e
  BY <1>1, <1>2, <1>4, Zenon
<1>6. /\ b.realized = b.unheld
      /\ b.phase = 0 => b.cost = b.shares * (d.prior * b.per)
      /\ b.phase = 1 => b.cost * d.den = b.shares * ((d.prior * d.num) * b.per)
  <2>1. /\ a.realized = a.unheld
        /\ a.phase = 0 => c = h * (p * e)
        /\ a.phase = 1 => c * n = h * ((p * m) * e)
    BY <1>2, <1>4, Zenon DEF AtWorth
  <2>2. CASE a.phase = 0 /\ v.price = d.prior
    <3>1. c + q * p * e = (h + q) * (p * e)
      <4>1. c = h * (p * e)
        BY <2>1, <2>2
      <4> QED BY <4>1, FlatBuy
    <3>2. x = p /\ b.phase = 0 /\ b.phase # 1
      BY <1>2, <1>4, <2>2
    <3> QED BY <1>2, <1>4, <1>5, <2>1, <3>1, <3>2, Zenon
  <2>3. CASE a.phase = 1 /\ v.price * d.den = d.prior * d.num
    <3>1. (c + q * x * e) * n = (h + q) * ((p * m) * e)
      <4>1. c * n = h * ((p * m) * e) /\ x * n = p * m
        BY <1>4, <2>1, <2>3, Zenon
      <4> QED BY <4>1, FlatBuyAfter
    <3>2. b.phase = 1 /\ b.phase # 0
      BY <1>2, <2>3
    <3> QED BY <1>2, <1>4, <1>5, <2>1, <3>1, <3>2, Zenon
  <2> QED BY <2>2, <2>3
<1> QED BY <1>2, <1>6 DEF AtWorth

LEMMA SellAtWorth ==
  ASSUME Len(Demergers) = 1, NEW a \in Accounts, AtWorth(a), NEW v \in Version, NEW b, b = Sell(a, v),
         NEW d, d = Demergers[1],
         \/ a.phase = 0 /\ v.price = d.prior
         \/ a.phase = 1 /\ v.price * d.den = d.prior * d.num
  PROVE  AtWorth(b) /\ b.phase = a.phase
<1>2. b.phase = a.phase
  BY SellIs
<1>3. 1 \in 1..Len(Demergers)
  OBVIOUS
<1>4. PICK c \in Int, p \in Int, m \in Int, e \in Int, k \in Int, q \in Int, x \in Int :
        /\ c = a.cost /\ p = d.prior /\ m = d.num /\ e = a.per /\ k = d.den
        /\ q = v.qty /\ x = v.price /\ k > 0
  <2>1. a.cost \in Int /\ a.per \in Int
    BY AccountIs
  <2>2. d.prior \in Int /\ d.num \in Int /\ d.den \in Int /\ d.den > 0
    BY <1>3, DemergerTypes
  <2>3. v.qty \in Int /\ v.price \in Int
    BY FillTypes
  <2> QED BY <2>1, <2>2, <2>3
<1>1. /\ a.realized = a.unheld
      /\ a.phase = 0 => c = a.shares * (p * e)
      /\ a.phase = 1 => c * k = a.shares * ((p * m) * e)
  BY <1>4, Zenon DEF AtWorth
<1>6. ASSUME a.shares > 0
      PROVE  /\ b.realized = b.unheld
             /\ b.phase = 0 => b.cost = b.shares * (d.prior * b.per)
             /\ b.phase = 1 => b.cost * d.den = b.shares * ((d.prior * d.num) * b.per)
  <2>0. PICK n, r, y \in Int :
          /\ n = a.shares /\ y = (v.qty * v.price) * (a.per * n)
          /\ b.shares = n - r /\ b.per = a.per * n /\ b.cost = a.cost * n - r * a.cost
          /\ b.realized = a.realized * n + (y - v.qty * a.cost)
          /\ b.unheld = a.unheld * n
    BY <1>6, SellIs
  <2>1. /\ a.phase = 0 => c = n * (p * e)
        /\ a.phase = 1 => c * k = n * ((p * m) * e)
    BY <1>1, <2>0, Zenon
  <2>5. /\ b.realized = b.unheld + ((q * x) * (e * n) - q * c)
        /\ b.cost = c * n - r * c /\ b.shares = n - r /\ b.per = e * n
    BY <1>1, <1>4, <2>0, Zenon
  <2>6. b.unheld \in Int /\ \A t \in Int : t + 0 = t
    BY SellIs, AccountIs
  <2>2. CASE a.phase = 0 /\ v.price = d.prior
    <3>0. c = n * (p * e)
      BY <2>1, <2>2
    <3>1. (q * p) * (e * n) - q * c = 0
      BY <3>0, FlatSell
    <3>2. c * n - r * c = (n - r) * (p * (e * n))
      BY <3>0, FlatSell
    <3>3. x = p /\ b.phase = 0 /\ b.phase # 1
      BY <1>2, <1>4, <2>2
    <3>4. b.realized = b.unheld
      BY <2>5, <2>6, <3>1, <3>3, Zenon
    <3> QED BY <1>4, <2>5, <3>2, <3>3, <3>4, Zenon
  <2>3. CASE a.phase = 1 /\ v.price * d.den = d.prior * d.num
    <3>0. c * k = n * ((p * m) * e) /\ x * k = p * m /\ k > 0
      BY <1>4, <2>1, <2>3, Zenon
    <3>1. (q * x) * (e * n) - q * c = 0
      BY <3>0, FlatSellAfter
    <3>2. (c * n - r * c) * k = (n - r) * ((p * m) * (e * n))
      BY <3>0, FlatSellAfter
    <3>3. b.phase = 1 /\ b.phase # 0
      BY <1>2, <2>3
    <3>4. b.realized = b.unheld
      BY <2>5, <2>6, <3>1, Zenon
    <3> QED BY <1>4, <2>5, <3>2, <3>3, <3>4, Zenon
  <2> QED BY <2>2, <2>3
<1>7. ASSUME a.shares = 0
      PROVE  /\ b.realized = b.unheld
             /\ b.phase = 0 => b.cost = b.shares * (d.prior * b.per)
             /\ b.phase = 1 => b.cost * d.den = b.shares * ((d.prior * d.num) * b.per)
  <2>0. PICK n, y, g \in Int :
          /\ b.shares = 0 /\ b.per = a.per * n /\ b.cost = a.cost * n - 0 * y
          /\ b.realized = a.realized * n + g /\ b.unheld = a.unheld * n + g
    BY <1>7, SellIs
  <2>1. b.realized = b.unheld
    BY <1>1, <2>0, Zenon
  <2>2. \A z \in Int : 0 * z = 0
    OBVIOUS
  <2>3. p * e \in Int /\ (p * m) * e \in Int
    BY ProductTypes
  <2>4. c = 0
    <3>1. a.phase = 0 => c = 0
      BY <1>1, <1>7, <2>2, <2>3, Zenon
    <3>2. a.phase = 1 => c * k = 0
      BY <1>1, <1>7, <2>2, <2>3, Zenon
    <3>3. \A z, l \in Int : l > 0 /\ z * l = 0 => z = 0
      OBVIOUS
    <3>4. a.phase = 0 \/ a.phase = 1
      OBVIOUS
    <3> QED BY <1>4, <3>1, <3>2, <3>3, <3>4
  <2>5. b.cost = 0
    <3>1. b.cost = 0 * n - 0 * y
      BY <1>4, <2>0, <2>4, Zenon
    <3> QED BY <3>1
  <2>6. b.per \in Int /\ p * b.per \in Int /\ (p * m) * b.per \in Int
    <3>1. b.per \in Int
      BY SellIs, AccountIs
    <3> QED BY <3>1, ProductTypes
  <2>7. b.cost = b.shares * (p * b.per) /\ b.cost * k = b.shares * ((p * m) * b.per)
    BY <2>0, <2>2, <2>5, <2>6, Zenon
  <2> QED BY <1>4, <2>1, <2>7, Zenon
<1>8. a.shares > 0 \/ a.shares = 0
  BY AccountIs
<1> QED BY <1>2, <1>6, <1>7, <1>8 DEF AtWorth

\* The walk of a position in such a market, in which the fills of the phase
\* before the ex-date come first.
LEMMA WalkAtWorth ==
  ASSUME TypeOK, Len(Demergers) = 1, NEW E \in SUBSET DOMAIN events, NEW o, NEW n, NEW f,
         Walks(f, n, o), o \in [1..n -> E],
         \A m, l \in 1..n : m < l => Phase(o[m]) <= Phase(o[l]),
         \A k \in 1..n : Credible(o[k]) /\ AtFlatPrice(o[k])
  PROVE  AtWorth(f[n])
<1> DEFINE Reached(k) == IF k = 0 THEN 0 ELSE Phase(o[k])
           G == [k \in 0..n |-> {a \in Accounts : AtWorth(a) /\ a.phase = Reached(k)}]
<1>1. /\ n \in Nat /\ n \in 0..n /\ f[0] = Opening /\ 0 \in 0..n
      /\ \A k \in 1..n : k \in 0..n /\ k - 1 \in 0..n /\ k # 0 /\ (k # 1 => k - 1 \in 1..n /\ k - 1 < k)
  BY DEF Walks
<1>2. f[0] \in G[0]
  <2>1. Opening \in Accounts
    BY OpeningIs
  <2>2. Opening.realized = 0 /\ Opening.unheld = 0 /\ Opening.phase = 0 /\ Opening.shares = 0 /\ Opening.cost = 0 /\ Opening.per = 1
    BY DEF Opening
  <2>3. Demergers[1].prior \in Int
    BY DemergerTypes
  <2>4. \A x \in Int : 0 = 0 * (x * 1)
    OBVIOUS
  <2>5. AtWorth(Opening)
    BY <2>2, <2>3, <2>4 DEF AtWorth
  <2> QED BY <1>1, <2>1, <2>2, <2>5
<1>3. ASSUME NEW k \in 1..n, f[k - 1] \in Accounts, f[k - 1] \in G[k - 1]
      PROVE  Apply(f[k - 1], o[k]) \in G[k]
  <2>1. k \in 0..n /\ k - 1 \in 0..n /\ k # 0 /\ (k # 1 => k - 1 \in 1..n /\ k - 1 < k) /\ o[k] \in E
    BY <1>1
  <2>2. PICK i, a, v, c, b, d : /\ i = o[k] /\ a = f[k - 1] /\ v = events[i].version
                               /\ c = Cross(a, Phase(i)) /\ b = Apply(a, i) /\ d = Demergers[1]
    OBVIOUS
  <2>3. i \in DOMAIN events /\ a \in Accounts /\ AtWorth(a) /\ a.phase = Reached(k - 1)
    BY <1>3, <2>1, <2>2
  <2>4. \/ Phase(i) = 0 /\ v.price = d.prior
        \/ Phase(i) = 1 /\ v.price * d.den = d.prior * d.num
    BY <2>2, <2>3, FlatFill
  <2>5. Phase(i) \in 0..1 /\ Reached(k) = Phase(i)
    BY <2>1, <2>2, <2>4
  <2>6. a.phase <= Phase(i)
    <3>1. CASE k = 1
      BY <2>3, <2>5, <3>1
    <3>2. CASE k # 1
      <4>1. Reached(k - 1) = Phase(o[k - 1])
        BY <2>1, <3>2
      <4> QED BY <2>1, <2>2, <2>3, <3>2, <4>1
    <3> QED BY <3>1, <3>2
  <2>7. c \in Accounts /\ AtWorth(c) /\ c.phase = Phase(i)
    BY <2>2, <2>3, <2>5, <2>6, CrossAtWorth
  <2>8. /\ v \in Version /\ b \in Accounts
        /\ b = Buy(c, v) \/ b = Sell(c, v)
    BY <2>2, <2>3, ApplyIs
  <2>9. \/ c.phase = 0 /\ v.price = d.prior
        \/ c.phase = 1 /\ v.price * d.den = d.prior * d.num
    BY <2>4, <2>7
  <2>10. AtWorth(b) /\ b.phase = c.phase
    <3>1. CASE b = Buy(c, v)
      BY <2>2, <2>7, <2>8, <2>9, <3>1, BuyAtWorth
    <3>2. CASE b = Sell(c, v)
      BY <2>2, <2>7, <2>8, <2>9, <3>2, SellAtWorth
    <3> QED BY <2>8, <3>1, <3>2
  <2> HIDE DEF Reached
  <2> QED BY <2>1, <2>2, <2>5, <2>7, <2>8, <2>10
<1>4. \A k \in 0..n : f[k] \in G[k]
  <2> HIDE DEF G
  <2> QED BY <1>2, <1>3, WalkStays
<1>5. f[n] \in G[n]
  BY <1>1, <1>4
<1> HIDE DEF Reached
<1> QED BY <1>1, <1>5

LEMMA FlatNow == TypeOK => FlatMarketRealizesNothing
<1> SUFFICES ASSUME TypeOK, NEW p \in Position, NEW a, a = StateOf(p), Len(Demergers) = 1,
                    \A i \in ToSet(OrderOf(p)) : Credible(i) /\ AtFlatPrice(i)
             PROVE  a.realized = a.unheld
  BY DEF FlatMarketRealizesNothing
<1> DEFINE u == p[1]
           s == p[2]
           o == InOrder(u, s)
<1>1. a = State(u, s) /\ OrderOf(p) = o
  BY DEF StateOf, OrderOf
<1>2. PICK n : \E f : /\ Walks(f, n, o) /\ State(u, s) = Cross(f[n], Len(Demergers))
                      /\ o \in [1..n -> Effective(u, s)]
                      /\ \A m, l \in 1..n : m < l => Phase(o[m]) <= Phase(o[l])
  BY WalkIs
<1>3. PICK f : /\ Walks(f, n, o) /\ State(u, s) = Cross(f[n], Len(Demergers))
               /\ o \in [1..n -> Effective(u, s)]
               /\ \A m, l \in 1..n : m < l => Phase(o[m]) <= Phase(o[l])
  BY <1>2
<1>4. \A k \in 1..n : Credible(o[k]) /\ AtFlatPrice(o[k])
  <2>1. \A k \in 1..n : o[k] \in ToSet(o)
    BY <1>3 DEF ToSet
  <2> HIDE DEF o
  <2> QED BY <1>1, <2>1
<1> HIDE DEF o, u, s
<1>5. AtWorth(f[n])
  <2>1. Effective(u, s) \in SUBSET DOMAIN events
    BY DEF Effective, Rows
  <2> QED BY <1>3, <1>4, <2>1, WalkAtWorth
<1>6. f[n] \in Accounts /\ f[n].phase <= 1
  <2>1. n \in Nat /\ f \in [0..n -> Accounts]
    BY <1>3 DEF Walks
  <2>2. f[n] \in Accounts
    BY <2>1
  <2>3. f[n].phase \in 0..Len(Demergers)
    BY <2>2, AccountIs
  <2> QED BY <2>2, <2>3
<1>7. AtWorth(a)
  <2>1. a = Cross(f[n], 1) /\ 1 \in 0..1
    BY <1>1, <1>3
  <2> QED BY <1>5, <1>6, <2>1, CrossAtWorth
<1> QED BY <1>7 DEF AtWorth

\* For any price a share had and any part of it retained, where prices move
\* by the demerger alone and fills carry a price of their own side of it, all
\* that is ever realized is the gain of the sells that found no share held:
\* no sell from a holding gains or loses, in whatever order fills come in.
THEOREM NoPhantomGain == Spec => []FlatMarketRealizesNothing
<1> QED BY FlatNow, TypeCorrect, PTL
=============================================================================
