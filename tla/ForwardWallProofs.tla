------------------------- MODULE ForwardWallProofs -------------------------
(***************************************************************************)
(* Proofs about ForwardWall for every calendar, every set of sessions and  *)
(* any number of days and of runs that die.  The files alone do not keep   *)
(* the wall in order: what does is that the sessions a run still has to    *)
(* log lie past the last row, which IInv adds.                             *)
(***************************************************************************)
EXTENDS ForwardWall, OrderLemmas, SequenceTheorems

\* The rest of the inductive invariant: the start is registered before the
\* first row, and what a run still has to log is newer than the last row.
RunInv ==
  /\ wall # <<>> => anchor # NoAnchor
  /\ pc # "log" => toLog = {}
  /\ pc \in {"veto", "plan", "log"} => anchor # NoAnchor
  /\ \A d \in toLog : d > LastDate /\ d >= anchor

IInv ==
  TypeOK /\ RunInv /\ WallOrdered /\ NothingBeforeStart /\ NoHoleAfterFirstRow

LEMMA WallFacts ==
  ASSUME TypeOK
  PROVE  /\ wall \in Seq(WallRow) /\ Len(wall) \in Nat /\ DOMAIN wall = 1..Len(wall)
         /\ \A i \in DOMAIN wall : wall[i] \in WallRow
         /\ LastDate \in Nat
<1>1. wall \in Seq(WallRow) /\ Len(wall) \in Nat /\ DOMAIN wall = 1..Len(wall)
  BY LenProperties DEF TypeOK
<1>2. \A i \in DOMAIN wall : wall[i] \in WallRow
  BY <1>1, ElementOfSeq
<1>3. \A r \in WallRow : r.date \in Nat
  BY DaysAssumption DEF WallRow, Days
<1>4. LastDate \in Nat
  <2>1. CASE wall = <<>>
    BY <2>1 DEF LastDate
  <2>2. CASE wall # <<>>
    <3>1. Len(wall) \in DOMAIN wall
      BY <1>1, <2>2
    <3> QED BY <3>1, <2>2, <1>2, <1>3 DEF LastDate
  <2> QED BY <2>1, <2>2
<1> QED BY <1>1, <1>2, <1>4

\* Extending a curve keeps what it held.
LEMMA ExtendFacts ==
  ASSUME NEW f, NEW g
  PROVE  /\ DOMAIN Extend(f, g) = DOMAIN f \union DOMAIN g
         /\ \A d \in DOMAIN f : Extend(f, g)[d] = f[d]
         /\ \A d \in DOMAIN g \ DOMAIN f : Extend(f, g)[d] = g[d]
BY DEF Extend

\* A nonempty set of days or of row numbers has a newest element.
LEMMA NewestFact ==
  ASSUME NEW n \in Nat, NEW S \in SUBSET (0..n), S # {}
  PROVE  Newest(S) \in S
<1>1. \E m \in S : IsLast(m, S)
  BY GreatestElement DEF IsLast
<1> QED BY <1>1 DEF Newest, IsLast

LEMMA RetInt ==
  ASSUME TypeOK, NEW d \in DOMAIN base
  PROVE  Ret(d) \in Int
<1> DEFINE before == {e \in DOMAIN base : e < d}
<1>1. \A e \in DOMAIN base : base[e] \in Int
  BY DataAssumption DEF TypeOK
<1>2. before \in SUBSET (0..MaxDay) /\ MaxDay \in Nat
  BY DaysAssumption DEF TypeOK, Days
<1>3. before # {} => Newest(before) \in DOMAIN base
  BY <1>2, NewestFact
<1> QED BY <1>1, <1>3 DEF Ret

LEMMA DriftNavInt ==
  ASSUME TypeOK
  PROVE  DriftNav(wall) \in Int
<1>1. OkIndices(wall) \in SUBSET (0..Len(wall)) /\ Len(wall) \in Nat
  BY WallFacts DEF OkIndices
<1>2. OkIndices(wall) # {} => Newest(OkIndices(wall)) \in DOMAIN wall
  BY <1>1, NewestFact DEF OkIndices
<1>3. \A r \in WallRow : r.drift \in Int
  BY DEF WallRow
<1> QED BY <1>2, <1>3, WallFacts DEF DriftNav

\* The rows written have the type of a wall row.
LEMMA OkRowType ==
  ASSUME TypeOK, NEW d \in DOMAIN base \intersect DOMAIN veto
  PROVE  /\ OkRow(d, DriftMult(wall), DriftNav(wall) + DriftMult(wall) * Ret(d)) \in WallRow
         /\ OkRow(d, DriftMult(wall), DriftNav(wall) + DriftMult(wall) * Ret(d)).date = d
<1>1. DriftMult(wall) \in {Degrossed, Full}
  BY DEF DriftMult
<1>2. Ret(d) \in Int /\ DriftNav(wall) \in Int /\ Full * base[d] \in Int
  <2>1. base[d] \in Int
    BY DataAssumption DEF TypeOK
  <2>2. Ret(d) \in Int /\ DriftNav(wall) \in Int
    BY RetInt, DriftNavInt
  <2> QED BY <2>1, <2>2 DEF Full
<1>3. DriftNav(wall) + DriftMult(wall) * Ret(d) \in Int
  BY <1>1, <1>2 DEF Degrossed, Full
<1>4. d \in Days /\ veto[d] \in {"vetoed", "inert", "none"}
  BY DaysAssumption DEF TypeOK
<1> QED BY <1>1, <1>2, <1>3, <1>4 DEF OkRow, WallRow

LEMMA GapRowType ==
  ASSUME NEW g \in Calendar
  PROVE  (GapRow(g) \in WallRow) /\ (GapRow(g).date = g)
BY DaysAssumption DEF GapRow, WallRow

LEMMA InitInv == Init => IInv
<1> SUFFICES ASSUME Init PROVE IInv
  OBVIOUS
<1>1. TypeOK
  BY CrashesAssumption, MarksAssumption DEF Init, TypeOK, NoAnchor
<1> QED BY <1>1 DEF Init, IInv, RunInv, WallOrdered, NothingBeforeStart, NoHoleAfterFirstRow

\* Appending a row after the last one keeps the wall sorted and gap-free.
LEMMA AppendKeepsOrder ==
  ASSUME IInv, anchor # NoAnchor, NEW r \in WallRow,
         r.date > LastDate, r.date >= anchor,
         wall # <<>> => \A e \in Calendar : ~(LastDate < e /\ e < r.date),
         wall' = Append(wall, r), anchor' = anchor
  PROVE  (WallOrdered /\ NothingBeforeStart /\ NoHoleAfterFirstRow)'
<1> DEFINE n == Len(wall)
<1>1. /\ wall \in Seq(WallRow) /\ n \in Nat /\ DOMAIN wall = 1..n
      /\ \A i \in DOMAIN wall : wall[i].date \in Nat
      /\ LastDate \in Nat /\ r.date \in Nat
  BY WallFacts, DaysAssumption DEF IInv, WallRow, Days
<1>2. /\ DOMAIN wall' = 1..(n + 1)
      /\ \A i \in 1..n : wall'[i] = wall[i]
      /\ wall'[n + 1] = r
  BY <1>1
<1>3. n > 0 => wall # <<>> /\ LastDate = wall[n].date /\ n \in DOMAIN wall
  BY <1>1 DEF LastDate
<1>4. \A i \in 1..n : wall[i].date <= LastDate
  BY <1>1, <1>3 DEF IInv, WallOrdered
<1>5. WallOrdered'
  <2> SUFFICES ASSUME NEW i \in 1..(n + 1), NEW j \in 1..(n + 1), i < j
               PROVE  wall'[i].date < wall'[j].date
    BY <1>2 DEF WallOrdered
  <2>1. CASE j <= n
    BY <2>1, <1>1, <1>2 DEF IInv, WallOrdered
  <2>2. CASE j = n + 1
    BY <2>2, <1>1, <1>2, <1>4
  <2> QED BY <2>1, <2>2, <1>1
<1>6. NothingBeforeStart'
  BY <1>1, <1>2 DEF IInv, NothingBeforeStart
<1>7. NoHoleAfterFirstRow'
  <2> SUFFICES ASSUME NEW i \in 1..(n + 1), i > 1, NEW e \in Calendar
               PROVE  ~(wall'[i - 1].date < e /\ e < wall'[i].date)
    BY <1>2 DEF NoHoleAfterFirstRow
  <2>1. CASE i <= n
    <3>1. i \in 1..n /\ i - 1 \in 1..n
      BY <2>1, <1>1
    <3>2. wall'[i - 1] = wall[i - 1] /\ wall'[i] = wall[i]
      BY <3>1, <1>2
    <3> QED BY <3>1, <3>2, <1>1 DEF IInv, NoHoleAfterFirstRow
  <2>2. CASE i = n + 1
    <3>1. i - 1 = n /\ n \in 1..n
      BY <2>2, <1>1
    <3>2. wall'[i - 1] = wall[n] /\ wall'[i] = r
      BY <3>1, <2>2, <1>2
    <3>3. wall # <<>> /\ LastDate = wall[n].date
      BY <3>1, <1>3
    <3> QED BY <3>2, <3>3
  <2> QED BY <2>1, <2>2, <1>1
<1> QED BY <1>5, <1>6, <1>7

\* A step that leaves the wall and the registered start alone.
LEMMA WallUnchanged ==
  ASSUME IInv, UNCHANGED <<anchor, wall>>
  PROVE  (WallOrdered /\ NothingBeforeStart /\ NoHoleAfterFirstRow)'
BY DEF IInv, WallOrdered, NothingBeforeStart, NoHoleAfterFirstRow

LEMMA StepInv == IInv /\ [Next]_vars => IInv'
<1> SUFFICES ASSUME IInv, [Next]_vars PROVE IInv'
  OBVIOUS
<1> USE DEF IInv
<1>1. CASE NextDay
  <2>1. TypeOK' /\ RunInv'
    BY <1>1, DaysAssumption DEF NextDay, TypeOK, RunInv, files, LastDate
  <2> QED BY <2>1, <1>1, WallUnchanged DEF NextDay, files
<1>2. ASSUME NEW d \in Days, BarsArrive(d) PROVE IInv'
  <2>1. TypeOK' /\ RunInv'
    BY <1>2 DEF BarsArrive, Traded, TypeOK, RunInv, files, LastDate
  <2> QED BY <2>1, <1>2, WallUnchanged DEF BarsArrive, files
<1>3. ASSUME NEW d \in Days, BuildFactors(d) PROVE IInv'
  <2>1. TypeOK' /\ RunInv'
    BY <1>3 DEF BuildFactors, TypeOK, RunInv, files, LastDate
  <2> QED BY <2>1, <1>3, WallUnchanged DEF BuildFactors, files
<1>4. ASSUME NEW d \in Days, ExtendCalendar(d) PROVE IInv'
  <2>1. TypeOK' /\ RunInv'
    BY <1>4, DaysAssumption DEF ExtendCalendar, Days, TypeOK, RunInv, files, LastDate
  <2> QED BY <2>1, <1>4, WallUnchanged DEF ExtendCalendar, files
<1>5. CASE StepBase
  <2> DEFINE new == {d \in bars : d >= Inception /\ After(DOMAIN base, d)}
  <2>1. PICK nav \in [new -> Navs] : base' = Extend(base, nav)
    BY <1>5 DEF StepBase, Load
  <2>2. DOMAIN base' = DOMAIN base \union new
        /\ \A d \in DOMAIN base' : base'[d] \in Navs
    <3>1. /\ DOMAIN Extend(base, nav) = DOMAIN base \union DOMAIN nav
          /\ \A d \in DOMAIN base : Extend(base, nav)[d] = base[d]
          /\ \A d \in DOMAIN nav \ DOMAIN base : Extend(base, nav)[d] = nav[d]
      BY ExtendFacts
    <3>2. DOMAIN nav = new /\ \A d \in new : nav[d] \in Navs
      BY <2>1
    <3> HIDE DEF new
    <3> QED BY <2>1, <3>1, <3>2 DEF TypeOK
  <2>3. TypeOK' /\ RunInv'
    BY <1>5, <2>2 DEF StepBase, TypeOK, RunInv, outside, LastDate
  <2> QED BY <2>3, <1>5, WallUnchanged DEF StepBase
<1>6. CASE Anchor
  <2>1. PICK d \in DOMAIN base :
          IF anchor # NoAnchor THEN UNCHANGED anchor /\ pc' = "veto"
          ELSE IF d < PreregDay THEN UNCHANGED anchor /\ pc' = "idle"
          ELSE anchor' = d /\ pc' = "veto"
    BY <1>6 DEF Anchor, Registered
  <2>2. d \in Days /\ d # NoAnchor
    BY DaysAssumption DEF TypeOK, Days, NoAnchor
  <2>3. TypeOK' /\ RunInv'
    BY <1>6, <2>1, <2>2 DEF Anchor, TypeOK, RunInv, outside, LastDate
  <2>4. CASE UNCHANGED anchor
    BY <2>3, <2>4, <1>6, WallUnchanged DEF Anchor
  <2>5. CASE anchor = NoAnchor
    BY <2>3, <2>5, <1>6 DEF Anchor, RunInv, WallOrdered, NothingBeforeStart, NoHoleAfterFirstRow
  <2> QED BY <2>1, <2>4, <2>5
<1>7. CASE StepVeto
  <2>1. DOMAIN veto' \subseteq Sessions /\ DOMAIN veto \subseteq DOMAIN veto'
        /\ \A d \in DOMAIN veto' : veto'[d] \in {"vetoed", "inert"}
    <3>1. CASE covered = 0
      BY <3>1, <1>7 DEF StepVeto, TypeOK
    <3>2. CASE covered # 0
      <4>1. PICK first, last \in DOMAIN base :
              LET new == {d \in bars : first <= d /\ d <= last /\ After(DOMAIN veto, d)}
              IN  veto' = Extend(veto, [d \in new |->
                            IF d <= covered THEN "vetoed" ELSE "inert"])
        BY <3>2, <1>7 DEF StepVeto
      <4> DEFINE new == {d \in bars : first <= d /\ d <= last /\ After(DOMAIN veto, d)}
                 g == [d \in new |-> IF d <= covered THEN "vetoed" ELSE "inert"]
      <4>2. /\ DOMAIN veto' = DOMAIN veto \union new
            /\ \A d \in DOMAIN veto : veto'[d] = veto[d]
            /\ \A d \in new \ DOMAIN veto : veto'[d] \in {"vetoed", "inert"}
        <5>1. /\ DOMAIN Extend(veto, g) = DOMAIN veto \union DOMAIN g
              /\ \A d \in DOMAIN veto : Extend(veto, g)[d] = veto[d]
              /\ \A d \in DOMAIN g \ DOMAIN veto : Extend(veto, g)[d] = g[d]
          <6> HIDE DEF g
          <6> QED BY ExtendFacts
        <5>2. DOMAIN g = new /\ \A d \in new : g[d] \in {"vetoed", "inert"}
          OBVIOUS
        <5>3. veto' = Extend(veto, g)
          BY <4>1
        <5> HIDE DEF new, g
        <5> QED BY <5>1, <5>2, <5>3
      <4>3. new \subseteq Sessions
        BY DEF TypeOK
      <4>4. DOMAIN veto \subseteq Sessions
            /\ \A d \in DOMAIN veto : veto[d] \in {"vetoed", "inert"}
        BY DEF TypeOK
      <4> HIDE DEF new, g
      <4> QED BY <4>2, <4>3, <4>4
    <3> QED BY <3>1, <3>2
  <2>2. pc' \in {"idle", "plan"} /\ pc = "veto"
    BY <1>7 DEF StepVeto
  <2>3. UNCHANGED <<outside, base, anchor, wall, toLog, crashes>>
    BY <1>7 DEF StepVeto
  <2>4. TypeOK' /\ RunInv'
    BY <2>1, <2>2, <2>3 DEF TypeOK, RunInv, outside, LastDate
  <2> QED BY <2>3, <2>4, WallUnchanged
<1>8. CASE Plan
  <2>1. toLog' \subseteq Todo \/ toLog' = toLog
    BY <1>8 DEF Plan, Chosen
  <2>2. UNCHANGED <<outside, files, crashes>> /\ pc = "plan"
        /\ (pc' = "log" \/ (pc' = "idle" /\ toLog' = toLog))
    BY <1>8 DEF Plan, Chosen
  <2>3. TypeOK' /\ RunInv'
    BY <2>1, <2>2 DEF TypeOK, RunInv, Todo, outside, files, LastDate
  <2> QED BY <2>2, <2>3, WallUnchanged DEF files
<1>9. CASE RefuseUncovered
  <2>1. TypeOK' /\ RunInv'
    BY <1>9 DEF RefuseUncovered, TypeOK, RunInv, outside, files, LastDate
  <2> QED BY <2>1, <1>9, WallUnchanged DEF RefuseUncovered, files
<1>10. CASE AppendGap
  <2>1. PICK d \in toLog, g \in Calendar :
          /\ IsFirst(d, toLog) /\ IsFirst(g, MissingBefore(d))
          /\ wall' = Append(wall, GapRow(g))
    BY <1>10 DEF AppendGap, MissingBefore
  <2>2. UNCHANGED <<outside, base, veto, anchor, pc, toLog, crashes>> /\ pc = "log"
    BY <1>10 DEF AppendGap
  <2>3. g \in Calendar /\ wall # <<>> /\ LastDate < g /\ g < d
        /\ \A e \in Calendar : ~(LastDate < e /\ e < g)
    <3>1. /\ g \in MissingBefore(d)
          /\ \A e \in MissingBefore(d) : g <= e
      BY <2>1 DEF IsFirst
    <3>2. g \in Calendar /\ wall # <<>> /\ LastDate < g /\ g < d
      BY <3>1 DEF MissingBefore
    <3>3. LastDate \in Nat /\ d \in Nat /\ \A e \in Calendar : e \in Nat
      BY DaysAssumption, WallFacts DEF Days, TypeOK
    <3>4. ASSUME NEW e \in Calendar, LastDate < e, e < g PROVE FALSE
      <4>1. e \in MissingBefore(d)
        BY <3>2, <3>3, <3>4 DEF MissingBefore
      <4> QED BY <4>1, <3>1, <3>2, <3>3, <3>4
    <3> QED BY <3>2, <3>4
  <2>4. (GapRow(g) \in WallRow) /\ (GapRow(g).date = g)
    BY <2>3, GapRowType
  <2>5. anchor # NoAnchor /\ g >= anchor
    BY <2>3, WallFacts, DaysAssumption DEF NothingBeforeStart, LastDate, Days, TypeOK, NoAnchor, WallRow
  <2>6. (WallOrdered /\ NothingBeforeStart /\ NoHoleAfterFirstRow)'
    BY <2>1, <2>2, <2>3, <2>4, <2>5, AppendKeepsOrder
  <2>7. wall' \in Seq(WallRow) /\ wall' # <<>> /\ LastDate' = g
    BY <2>1, <2>4, WallFacts DEF LastDate
  <2>8. TypeOK'
    BY <2>2, <2>7 DEF TypeOK, outside
  <2>9. RunInv'
    <3>1. \A e \in toLog : e \in Nat /\ d <= e
      <4>1. \A e \in toLog : e \in Days
        BY DaysAssumption DEF TypeOK
      <4> QED BY <4>1, <2>1, DaysAssumption DEF IsFirst, Days
    <3>2. d \in Nat /\ g \in Nat
      BY <3>1, <2>3, DaysAssumption DEF Days
    <3> QED BY <3>1, <3>2, <2>2, <2>3, <2>5, <2>7 DEF RunInv
  <2> QED BY <2>6, <2>8, <2>9
<1>11. CASE AppendOk
  <2> DEFINE mult == DriftMult(wall)
             row(d) == OkRow(d, mult, DriftNav(wall) + mult * Ret(d))
  <2>1. PICK d \in toLog :
          /\ IsFirst(d, toLog) /\ MissingBefore(d) = {}
          /\ wall' = Append(wall, row(d)) /\ toLog' = toLog \ {d}
          /\ pc' = IF toLog' = {} THEN "idle" ELSE "log"
    BY <1>11 DEF AppendOk, Mult
  <2>2. UNCHANGED <<outside, base, veto, anchor, crashes>> /\ pc = "log"
    BY <1>11 DEF AppendOk, Mult
  <2>3. row(d) \in WallRow /\ row(d).date = d
    BY OkRowType DEF TypeOK
  <2>4. anchor # NoAnchor /\ d > LastDate /\ d >= anchor
    BY <2>2 DEF RunInv
  <2>5. wall # <<>> => \A e \in Calendar : ~(LastDate < e /\ e < d)
    BY <2>1 DEF MissingBefore
  <2>6. (WallOrdered /\ NothingBeforeStart /\ NoHoleAfterFirstRow)'
    BY <2>1, <2>2, <2>3, <2>4, <2>5, AppendKeepsOrder
  <2>7. wall' \in Seq(WallRow) /\ wall' # <<>> /\ LastDate' = d
    BY <2>1, <2>3, WallFacts DEF LastDate
  <2>8. TypeOK'
    BY <2>1, <2>2, <2>7 DEF TypeOK, outside
  <2>9. RunInv'
    <3>1. toLog \subseteq Int
      BY DaysAssumption DEF TypeOK, Days
    <3>2. \A e \in toLog' : e > d /\ e >= anchor
      BY <2>1, <3>1 DEF IsFirst, RunInv
    <3>3. pc' \in {"idle", "log"} /\ (pc' # "log" => toLog' = {})
      BY <2>1
    <3> HIDE DEF row, mult
    <3> QED BY <2>2, <2>4, <2>7, <3>2, <3>3 DEF RunInv
  <2> QED BY <2>6, <2>8, <2>9
<1>12. CASE Crash
  <2>1. TypeOK' /\ RunInv'
    BY <1>12, CrashesAssumption DEF Crash, TypeOK, RunInv, outside, files, LastDate
  <2> QED BY <2>1, <1>12, WallUnchanged DEF Crash, files
<1>13. CASE UNCHANGED vars
  <2>1. TypeOK' /\ RunInv'
    BY <1>13 DEF vars, TypeOK, RunInv, outside, files, LastDate
  <2> QED BY <2>1, <1>13, WallUnchanged DEF vars, files
<1> QED
  BY <1>1, <1>2, <1>3, <1>4, <1>5, <1>6, <1>7, <1>8, <1>9, <1>10, <1>11, <1>12, <1>13
  DEF Next, Run

-----------------------------------------------------------------------------
\* The inductive invariant of the runs: types, order, start and holes, with
\* the run's own claim on the days it still has to log.
THEOREM InvariantHolds == Spec => []IInv
BY InitInv, StepInv, PTL DEF Spec

\* Every file keeps its type through any number of days, runs and crashes.
THEOREM TypeCorrect == Spec => []TypeOK
<1>1. IInv => TypeOK
  BY DEF IInv
<1> QED BY <1>1, InvariantHolds, PTL

\* No back-dating and no double logging: wall dates strictly increase.
THEOREM WallStaysOrdered == Spec => []WallOrdered
<1>1. IInv => WallOrdered
  BY DEF IInv
<1> QED BY <1>1, InvariantHolds, PTL

\* Nothing from before the registered start enters the wall.
THEOREM StartIsRespected == Spec => []NothingBeforeStart
<1>1. IInv => NothingBeforeStart
  BY DEF IInv
<1> QED BY <1>1, InvariantHolds, PTL

\* Two consecutive rows have no trading day between them, whatever crashes.
THEOREM NoTradingDaySkipped == Spec => []NoHoleAfterFirstRow
<1>1. IInv => NoHoleAfterFirstRow
  BY DEF IInv
<1> QED BY <1>1, InvariantHolds, PTL

-----------------------------------------------------------------------------
(* What a step does to the wall. *)

\* Every step leaves the wall as it is or appends a row newer than the last,
\* and skips no trading day after the first row.
LEMMA WallSteps ==
  ASSUME IInv, [Next]_vars
  PROVE  \/ /\ wall' = wall
            /\ anchor' = anchor \/ wall = <<>>
         \/ \E r \in WallRow :
              /\ wall' = Append(wall, r) /\ anchor' = anchor /\ r.date > LastDate
              /\ r.status = "gap" => r.date \in Calendar /\ wall # <<>>
              /\ wall # <<>> => \A e \in Calendar : ~(LastDate < e /\ e < r.date)
<1>1. CASE AppendGap
  <2>1. PICK d \in toLog, g \in Calendar :
          /\ IsFirst(g, MissingBefore(d))
          /\ wall' = Append(wall, GapRow(g)) /\ anchor' = anchor
    BY <1>1 DEF AppendGap, MissingBefore
  <2>2. wall # <<>> /\ LastDate < g /\ g < d /\ \A e \in MissingBefore(d) : g <= e
    BY <2>1 DEF IsFirst, MissingBefore
  <2>3. LastDate \in Nat /\ d \in Nat /\ \A e \in Calendar : e \in Nat
    BY DaysAssumption, WallFacts DEF Days, TypeOK, IInv
  <2>4. \A e \in Calendar : ~(LastDate < e /\ e < g)
    <3> SUFFICES ASSUME NEW e \in Calendar, LastDate < e, e < g PROVE FALSE
      OBVIOUS
    <3>1. e \in MissingBefore(d)
      BY <2>2, <2>3 DEF MissingBefore
    <3> QED BY <3>1, <2>2, <2>3
  <2>5. GapRow(g) \in WallRow /\ GapRow(g).date = g
    BY GapRowType
  <2> QED BY <2>1, <2>2, <2>3, <2>4, <2>5
<1>2. CASE AppendOk
  <2> DEFINE row(d) == OkRow(d, DriftMult(wall), DriftNav(wall) + DriftMult(wall) * Ret(d))
  <2>1. PICK d \in toLog :
          MissingBefore(d) = {} /\ wall' = Append(wall, row(d)) /\ anchor' = anchor
    BY <1>2 DEF AppendOk, Mult
  <2>2. row(d) \in WallRow /\ row(d).date = d
    BY OkRowType DEF TypeOK, IInv
  <2>3. row(d).status = "ok"
    BY DEF OkRow
  <2>4. d > LastDate
    BY DEF IInv, RunInv
  <2>5. wall # <<>> => \A e \in Calendar : ~(LastDate < e /\ e < d)
    BY <2>1 DEF MissingBefore
  <2> HIDE DEF row
  <2> QED BY <2>1, <2>2, <2>3, <2>4, <2>5
<1>3. CASE Anchor
  BY <1>3 DEF Anchor, Registered, IInv, RunInv
<1>4. CASE UNCHANGED <<anchor, wall>>
  BY <1>4
<1>5. ~AppendGap /\ ~AppendOk /\ ~Anchor => UNCHANGED <<anchor, wall>>
  BY DEF Next, Run, vars, files, NextDay, ExtendCalendar, BarsArrive, BuildFactors, StepBase,
         StepVeto, Plan, RefuseUncovered, Crash
<1> QED BY <1>1, <1>2, <1>3, <1>4, <1>5

\* What has been registered or logged stays as it is.
LEMMA NothingRevised ==
  ASSUME IInv, [Next]_vars
  PROVE  /\ anchor # NoAnchor => anchor' = anchor
         /\ Len(wall') >= Len(wall)
         /\ \A i \in DOMAIN wall : wall'[i] = wall[i]
<1>1. wall \in Seq(WallRow) /\ Len(wall) \in Nat /\ DOMAIN wall = 1..Len(wall)
  BY WallFacts DEF IInv
<1>2. /\ Len(wall') >= Len(wall)
      /\ \A i \in DOMAIN wall : wall'[i] = wall[i]
  BY <1>1, WallSteps
<1>3. CASE Anchor
  BY <1>2, <1>3 DEF Anchor, Registered
<1>4. ~Anchor => anchor' = anchor
  BY DEF Next, Run, vars, files, NextDay, ExtendCalendar, BarsArrive, BuildFactors, StepBase,
       StepVeto, Plan, RefuseUncovered, Crash, AppendGap, AppendOk
<1> QED BY <1>2, <1>3, <1>4

\* The wall is append-only and its registered start is written once.
THEOREM RowsAreNeverRevised == Spec => AppendOnly
BY InvariantHolds, NothingRevised, PTL DEF Spec, AppendOnly

\* Appending a row seals the fate of its day and of no other.
LEMMA AppendSeals ==
  ASSUME IInv, NEW r \in WallRow, r.date > LastDate, wall' = Append(wall, r)
  PROVE  /\ LastDate' = r.date
         /\ \A e \in Days : Fate(e)' = IF e = r.date THEN r.status ELSE Fate(e)
<1> DEFINE n == Len(wall)
<1>1. /\ wall \in Seq(WallRow) /\ n \in Nat /\ DOMAIN wall = 1..n
      /\ \A i \in DOMAIN wall : wall[i] \in WallRow
      /\ LastDate \in Nat /\ r.date \in Nat /\ r.status \in {"ok", "gap"}
  BY WallFacts, DaysAssumption DEF IInv, WallRow, Days
<1>2. /\ DOMAIN wall' = 1..(n + 1) /\ Len(wall') = n + 1 /\ wall' # <<>>
      /\ \A i \in 1..n : wall'[i] = wall[i]
      /\ wall'[n + 1] = r
  BY <1>1
<1>3. \A i \in 1..n : wall[i].date # r.date
  <2>1. n > 0 => wall # <<>> /\ LastDate = wall[n].date /\ n \in DOMAIN wall
    BY <1>1 DEF LastDate
  <2>2. \A i \in 1..n : wall[i].date \in Nat
    <3>1. \A q \in WallRow : q.date \in Nat
      BY DaysAssumption DEF WallRow, Days
    <3> QED BY <3>1, <1>1
  <2>3. \A i \in 1..n : wall[i].date <= LastDate
    BY <1>1, <2>1, <2>2 DEF IInv, WallOrdered
  <2> QED BY <1>1, <2>2, <2>3
<1>4. LastDate' = r.date
  BY <1>2 DEF LastDate
<1>5. ASSUME NEW e \in Days
      PROVE  Fate(e)' = IF e = r.date THEN r.status ELSE Fate(e)
  <2>1. CASE e = r.date
    <3>1. \A i \in DOMAIN wall' : wall'[i].date = e => i = n + 1
      BY <2>1, <1>1, <1>2, <1>3
    <3> QED BY <3>1, <2>1, <1>1, <1>2 DEF Fate, OkIndices
  <2>2. CASE e # r.date
    <3>1. \A i \in DOMAIN wall' : wall'[i].date = e => i \in DOMAIN wall /\ wall'[i] = wall[i]
      BY <2>2, <1>1, <1>2
    <3>2. \A i \in DOMAIN wall : i \in DOMAIN wall' /\ wall'[i] = wall[i]
      BY <1>1, <1>2
    <3> QED BY <3>1, <3>2, <2>2 DEF Fate, OkIndices
  <2> QED BY <2>1, <2>2
<1> QED BY <1>4, <1>5

\* The daily run implements the abstract daily record: every file write of a
\* run is one sealed day or invisible, for every schedule of data and crashes.
THEOREM WallImplementsLog == Spec => ImplementsObservationLog
<1> DEFINE f == [d \in Days |-> Fate(d)]
<1>1. Init => Log!Init
  <2> SUFFICES ASSUME Init PROVE Log!Init
    OBVIOUS
  <2>1. wall = <<>>
    BY DEF Init
  <2> QED BY <2>1 DEF Log!Init, Fate, OkIndices, LastDate
<1>2. ASSUME IInv, [Next]_vars PROVE [Log!Next]_(Log!vars)
  <2>1. CASE wall' = wall
    <3>1. f' = f /\ LastDate' = LastDate
      BY <2>1 DEF Fate, OkIndices, LastDate
    <3> QED BY <3>1 DEF Log!vars
  <2>2. ASSUME NEW r \in WallRow,
               wall' = Append(wall, r), r.date > LastDate,
               r.status = "gap" => r.date \in Calendar /\ wall # <<>>,
               wall # <<>> => \A e \in Calendar : ~(LastDate < e /\ e < r.date)
        PROVE  Log!Next
    <3>1. r.date \in Days /\ r.status \in {"ok", "gap"}
      BY DEF WallRow
    <3>2. /\ LastDate' = r.date
          /\ \A e \in Days : Fate(e)' = IF e = r.date THEN r.status ELSE Fate(e)
      BY <1>2, <2>2, AppendSeals
    <3>3. f' = [f EXCEPT ![r.date] = r.status]
      BY <3>1, <3>2
    <3>4. wall # <<>> => LastDate > 0
      BY <1>2, WallFacts, DaysAssumption DEF IInv, LastDate, WallRow, Days
    <3>5. wall = <<>> => LastDate = 0
      BY DEF LastDate
    <3>6. Log!NothingSkipped(r.date)
      BY <2>2, <3>5 DEF Log!NothingSkipped
    <3>7. Log!Seal(r.date, r.status)
      BY <2>2, <3>2, <3>3, <3>6 DEF Log!Seal
    <3>8. Log!Observe(r.date) \/ Log!MarkGap(r.date)
      BY <2>2, <3>1, <3>4, <3>7 DEF Log!Observe, Log!MarkGap
    <3> QED BY <3>1, <3>8 DEF Log!Next
  <2> QED BY <1>2, <2>1, <2>2, WallSteps
<1> QED BY <1>1, <1>2, InvariantHolds, PTL DEF Spec, ImplementsObservationLog, Log!Spec

-----------------------------------------------------------------------------
(* The newest session only. *)

\* The veto book never runs ahead of the base book, so stepping it reaches the
\* base book's newest session; that session is what a run then plans to log.
FreshInv ==
  /\ DOMAIN base \subseteq bars
  /\ \A v \in DOMAIN veto : \E b \in DOMAIN base : v <= b
  /\ pc = "plan" => \A d \in DOMAIN base : IsLast(d, DOMAIN base) => d \in DOMAIN veto
  /\ pc = "log" /\ ~Backfill => \A d \in toLog : \A e \in DOMAIN base : e <= d

\* What a step of the veto book adds to it, and that it keeps what it had.
LEMMA StepVetoFacts ==
  ASSUME TypeOK, StepVeto, covered # 0
  PROVE  \E last \in DOMAIN base :
           /\ IsLast(last, DOMAIN base) /\ pc' = "plan"
           /\ \A d \in DOMAIN veto : d \in DOMAIN veto' /\ veto'[d] = veto[d]
           /\ \A d \in DOMAIN veto' : d \in DOMAIN veto \/ d <= last
           /\ last \in bars /\ After(DOMAIN veto, last) => last \in DOMAIN veto'
<1>1. PICK first, last \in DOMAIN base :
        /\ IsFirst(first, DOMAIN base) /\ IsLast(last, DOMAIN base)
        /\ LET new == {d \in bars : first <= d /\ d <= last /\ After(DOMAIN veto, d)}
           IN  veto' = Extend(veto, [d \in new |-> IF d <= covered THEN "vetoed" ELSE "inert"])
        /\ pc' = "plan"
  BY DEF StepVeto
<1> DEFINE new == {d \in bars : first <= d /\ d <= last /\ After(DOMAIN veto, d)}
           g == [d \in new |-> IF d <= covered THEN "vetoed" ELSE "inert"]
<1>2. veto' = Extend(veto, g) /\ DOMAIN g = new
  BY <1>1
<1>3. \A d \in new : d <= last
  OBVIOUS
<1>4. last \in bars /\ After(DOMAIN veto, last) => last \in new
  <2>1. last <= last /\ first <= last
    BY <1>1 DEF IsFirst, IsLast
  <2> QED BY <2>1
<1> HIDE DEF new, g
<1>5. /\ DOMAIN veto' = DOMAIN veto \union new
      /\ \A d \in DOMAIN veto : veto'[d] = veto[d]
  BY <1>2, ExtendFacts
<1> QED BY <1>1, <1>3, <1>4, <1>5

\* Stepping the base book adds sessions past all it had, and revises none.
LEMMA StepBaseFacts ==
  ASSUME TypeOK, StepBase
  PROVE  /\ DOMAIN base \subseteq DOMAIN base'
         /\ \A d \in DOMAIN base : base'[d] = base[d]
         /\ \A d \in DOMAIN base' : d \in DOMAIN base \/ (d \in bars /\ After(DOMAIN base, d))
<1> DEFINE new == {d \in bars : d >= Inception /\ After(DOMAIN base, d)}
<1>1. PICK nav \in [new -> Navs] : base' = Extend(base, nav)
  BY DEF StepBase, Load
<1>2. DOMAIN nav = new /\ \A d \in new : d \in bars /\ After(DOMAIN base, d)
  BY <1>1
<1> HIDE DEF new
<1>3. /\ DOMAIN base' = DOMAIN base \union new
      /\ \A d \in DOMAIN base : base'[d] = base[d]
  BY <1>1, <1>2, ExtendFacts
<1> QED BY <1>2, <1>3

\* A book with sessions has a newest one.
LEMMA BaseHasLast ==
  ASSUME TypeOK, DOMAIN base # {}
  PROVE  \E l \in DOMAIN base : IsLast(l, DOMAIN base)
<1>1. DOMAIN base \in SUBSET (0..MaxDay) /\ MaxDay \in Nat
  BY DaysAssumption DEF TypeOK, Days
<1> QED BY <1>1, GreatestElement DEF IsLast

LEMMA StepFresh == ASSUME IInv, FreshInv, [Next]_vars PROVE FreshInv'
<1>0. DOMAIN base \subseteq Nat /\ DOMAIN veto \subseteq Nat /\ TypeOK
  <2>1. TypeOK /\ DOMAIN base \subseteq Sessions /\ DOMAIN veto \subseteq Sessions
    BY DEF IInv, TypeOK
  <2>2. Sessions \subseteq Nat
    BY DaysAssumption DEF Days
  <2> QED BY <2>1, <2>2
<1>1. CASE StepBase
  <2>1. bars' = bars /\ veto' = veto /\ pc' = "anchor"
    BY <1>1 DEF StepBase, outside
  <2> QED BY <2>1, <1>0, <1>1, StepBaseFacts DEF FreshInv
<1>2. CASE StepVeto
  <2>1. bars' = bars /\ base' = base /\ toLog' = toLog
    BY <1>2 DEF StepVeto, outside
  <2>2. CASE covered = 0
    BY <2>1, <2>2, <1>2 DEF StepVeto, FreshInv
  <2>3. CASE covered # 0
    <3>1. PICK last \in DOMAIN base :
            /\ IsLast(last, DOMAIN base) /\ pc' = "plan"
            /\ \A d \in DOMAIN veto : d \in DOMAIN veto'
            /\ \A d \in DOMAIN veto' : d \in DOMAIN veto \/ d <= last
            /\ last \in bars /\ After(DOMAIN veto, last) => last \in DOMAIN veto'
      BY <2>3, <1>0, <1>2, StepVetoFacts
    <3>2. last \in DOMAIN veto'
      <4>1. CASE After(DOMAIN veto, last)
        BY <4>1, <3>1 DEF FreshInv
      <4>2. CASE ~After(DOMAIN veto, last)
        <5>1. PICK v \in DOMAIN veto : ~(v < last)
          BY <4>2 DEF After
        <5>2. v <= last
          BY <3>1, <1>0 DEF FreshInv, IsLast
        <5> QED BY <5>1, <5>2, <3>1, <1>0
      <4> QED BY <4>1, <4>2
    <3>3. \A d \in DOMAIN base : IsLast(d, DOMAIN base) => d = last
      BY <3>1, <1>0 DEF IsLast
    <3> QED BY <2>1, <3>1, <3>2, <3>3 DEF FreshInv
  <2> QED BY <2>2, <2>3
<1>3. CASE Plan
  <2>1. UNCHANGED <<bars, base, veto, anchor, wall>> /\ pc = "plan" /\ pc' \in {"log", "idle"}
    BY <1>3 DEF Plan, outside, files
  <2>2. ASSUME pc' = "log", ~Backfill, NEW d \in toLog', NEW e \in DOMAIN base
        PROVE  e <= d
    <3>1. d \in Todo /\ IsLast(d, Todo)
      BY <2>2, <1>3 DEF Plan, Chosen
    <3>2. PICK l \in DOMAIN base : IsLast(l, DOMAIN base)
      BY <1>0, BaseHasLast
    <3>3. l \in DOMAIN veto /\ d <= l /\ e <= l
      BY <2>1, <3>1, <3>2 DEF FreshInv, IsLast, Todo
    <3>4. l >= anchor /\ l > LastDate
      <4>1. LastDate \in Nat /\ anchor \in Nat /\ d \in Nat /\ l \in Nat
        BY <1>0, <3>1, WallFacts, DaysAssumption DEF TypeOK, Todo, NoAnchor, Days
      <4> QED BY <4>1, <3>1, <3>3 DEF Todo
    <3>5. l <= d
      BY <3>1, <3>3, <3>4 DEF Todo, IsLast
    <3> QED BY <3>1, <3>3, <3>5, <1>0 DEF Todo
  <2> QED BY <2>1, <2>2 DEF FreshInv
<1>4. CASE AppendGap \/ AppendOk
  <2>1. UNCHANGED <<bars, base, veto>> /\ pc = "log" /\ pc' \in {"log", "idle"} /\ toLog' \subseteq toLog
    BY <1>4 DEF AppendGap, AppendOk, outside
  <2> QED BY <2>1 DEF FreshInv
<1>5. CASE Anchor \/ RefuseUncovered \/ Crash
  <2>1. UNCHANGED <<bars, base, veto>> /\ pc' \in {"idle", "veto"}
    BY <1>5 DEF Anchor, RefuseUncovered, Crash, outside, files
  <2> QED BY <2>1 DEF FreshInv
<1>6. CASE \/ NextDay \/ UNCHANGED vars
           \/ \E d \in Days : ExtendCalendar(d) \/ BarsArrive(d) \/ BuildFactors(d)
  <2>1. bars \subseteq bars' /\ UNCHANGED <<base, veto, pc, toLog>>
    BY <1>6 DEF NextDay, ExtendCalendar, BarsArrive, BuildFactors, vars, outside, files
  <2> QED BY <2>1 DEF FreshInv
<1> QED BY <1>1, <1>2, <1>3, <1>4, <1>5, <1>6 DEF Next, Run

\* Reconstructed history never becomes an observation: without a backfill, an
\* ok row is only ever written for the newest session of the base book.
THEOREM NothingIsReconstructed == Spec => NoReconstruction
<1>1. Init => FreshInv
  BY DEF Init, FreshInv
<1>2. ASSUME IInv, FreshInv, [Next]_vars
      PROVE  \A i \in DOMAIN wall' :
               (i > Len(wall) /\ wall'[i].status = "ok" /\ ~Backfill)
                 => \A d \in DOMAIN base : d <= wall'[i].date
  <2>1. wall \in Seq(WallRow) /\ Len(wall) \in Nat /\ DOMAIN wall = 1..Len(wall)
    BY <1>2, WallFacts DEF IInv
  <2>2. CASE AppendOk
    <3> DEFINE row(d) == OkRow(d, DriftMult(wall), DriftNav(wall) + DriftMult(wall) * Ret(d))
    <3>1. PICK d \in toLog : wall' = Append(wall, row(d)) /\ pc = "log"
      BY <2>2 DEF AppendOk, Mult
    <3>2. row(d).date = d
      BY DEF OkRow
    <3>3. ~Backfill => \A e \in DOMAIN base : e <= d
      BY <1>2, <3>1 DEF FreshInv
    <3> HIDE DEF row
    <3> QED BY <2>1, <3>1, <3>2, <3>3
  <2>3. CASE AppendGap
    <3>1. PICK g \in Calendar : wall' = Append(wall, GapRow(g))
      BY <2>3 DEF AppendGap, MissingBefore
    <3>2. GapRow(g).status # "ok"
      BY DEF GapRow
    <3> QED BY <2>1, <3>1, <3>2
  <2>4. ~AppendOk /\ ~AppendGap => wall' = wall
    BY <1>2 DEF Next, Run, vars, files, NextDay, ExtendCalendar, BarsArrive, BuildFactors, StepBase,
         Anchor, StepVeto, Plan, RefuseUncovered, Crash
  <2> QED BY <2>1, <2>2, <2>3, <2>4
<1> QED BY <1>1, <1>2, StepFresh, InvariantHolds, PTL DEF Spec, NoReconstruction

-----------------------------------------------------------------------------
(* The rows and the saved books. *)

\* The return of a session is what it was when later sessions were not known.
LEMMA RetIsFinal ==
  ASSUME TypeOK, StepBase, NEW d \in DOMAIN base
  PROVE  Ret(d)' = Ret(d)
<1>1. /\ DOMAIN base \subseteq DOMAIN base'
      /\ \A e \in DOMAIN base : base'[e] = base[e]
      /\ \A e \in DOMAIN base' : e \in DOMAIN base \/ (e \in bars /\ After(DOMAIN base, e))
  BY StepBaseFacts
<1>2. bars \subseteq Nat /\ DOMAIN base \subseteq Nat
  <2>1. bars \subseteq Sessions /\ DOMAIN base \subseteq Sessions
    BY DEF TypeOK
  <2>2. Sessions \subseteq Nat
    BY DaysAssumption DEF Days
  <2> QED BY <2>1, <2>2
<1>3. {e \in DOMAIN base' : e < d} = {e \in DOMAIN base : e < d}
  <2>1. ASSUME NEW e \in DOMAIN base', e < d PROVE e \in DOMAIN base
    <3>1. CASE e \in bars /\ After(DOMAIN base, e)
      <4>1. d < e /\ d \in Nat /\ e \in Nat
        BY <3>1, <1>2 DEF After
      <4> QED BY <4>1, <2>1
    <3> QED BY <3>1, <2>1, <1>1
  <2> QED BY <2>1, <1>1
<1>4. CASE {e \in DOMAIN base : e < d} = {}
  BY <1>1, <1>3, <1>4 DEF Ret
<1>5. CASE {e \in DOMAIN base : e < d} # {}
  <2> DEFINE before == {e \in DOMAIN base : e < d}
  <2>1. before \in SUBSET (0..MaxDay) /\ MaxDay \in Nat
    BY DaysAssumption DEF TypeOK, Days
  <2>2. Newest(before) \in DOMAIN base
    BY <2>1, <1>5, NewestFact
  <2> QED BY <1>1, <1>3, <1>5, <2>2 DEF Ret
<1> QED BY <1>4, <1>5

LEMMA StepMatches == ASSUME IInv, RowsMatchBooks, [Next]_vars PROVE RowsMatchBooks'
<1>0. /\ TypeOK /\ wall \in Seq(WallRow) /\ Len(wall) \in Nat /\ DOMAIN wall = 1..Len(wall)
  BY WallFacts DEF IInv
<1>1. CASE StepBase
  <2>1. wall' = wall /\ veto' = veto /\ OkIndices(wall)' = OkIndices(wall)
    BY <1>1 DEF StepBase, OkIndices
  <2>2. \A d \in DOMAIN base : d \in DOMAIN base' /\ base'[d] = base[d] /\ Ret(d)' = Ret(d)
    BY <1>0, <1>1, StepBaseFacts, RetIsFinal
  <2> QED BY <2>1, <2>2 DEF RowsMatchBooks
<1>2. CASE StepVeto
  <2>1. wall' = wall /\ base' = base /\ OkIndices(wall)' = OkIndices(wall)
        /\ \A d : Ret(d)' = Ret(d)
    BY <1>2 DEF StepVeto, OkIndices, Ret
  <2>2. \A d \in DOMAIN veto : d \in DOMAIN veto' /\ veto'[d] = veto[d]
    <3>1. CASE covered = 0
      BY <3>1, <1>2 DEF StepVeto
    <3>2. CASE covered # 0
      BY <3>2, <1>0, <1>2, StepVetoFacts
    <3> QED BY <3>1, <3>2
  <2> QED BY <2>1, <2>2 DEF RowsMatchBooks
<1>3. ASSUME NEW r, wall' = Append(wall, r), UNCHANGED <<base, veto>>,
             r.status = "ok" =>
               /\ r.date \in DOMAIN base \intersect DOMAIN veto
               /\ r.ret = Ret(r.date) /\ r.nav = Full * base[r.date] /\ r.veto = veto[r.date]
      PROVE  RowsMatchBooks'
  <2>1. \A d : Ret(d)' = Ret(d)
    BY <1>3 DEF Ret
  <2>2. \A i \in DOMAIN wall' : (i \in DOMAIN wall /\ wall'[i] = wall[i]) \/ wall'[i] = r
    BY <1>0, <1>3
  <2> QED BY <1>3, <2>1, <2>2 DEF RowsMatchBooks, OkIndices
<1>4. CASE AppendOk
  <2> DEFINE row(d) == OkRow(d, DriftMult(wall), DriftNav(wall) + DriftMult(wall) * Ret(d))
  <2>1. PICK d \in toLog : wall' = Append(wall, row(d)) /\ UNCHANGED <<base, veto>>
    BY <1>4 DEF AppendOk, Mult
  <2>2. /\ row(d).date = d /\ row(d).ret = Ret(d)
        /\ row(d).nav = Full * base[d] /\ row(d).veto = veto[d]
    BY DEF OkRow
  <2>3. d \in DOMAIN base \intersect DOMAIN veto
    BY <1>0 DEF TypeOK
  <2> HIDE DEF row
  <2> QED BY <2>1, <2>2, <2>3, <1>3
<1>5. CASE AppendGap
  <2>1. PICK g \in Calendar : wall' = Append(wall, GapRow(g)) /\ UNCHANGED <<base, veto>>
    BY <1>5 DEF AppendGap, MissingBefore
  <2>2. GapRow(g).status # "ok"
    BY DEF GapRow
  <2> QED BY <2>1, <2>2, <1>3
<1>6. CASE UNCHANGED <<base, veto, wall>>
  <2>1. (\A d : Ret(d)' = Ret(d)) /\ OkIndices(wall)' = OkIndices(wall)
    BY <1>6 DEF Ret, OkIndices
  <2> QED BY <2>1, <1>6 DEF RowsMatchBooks
<1>7. ~StepBase /\ ~StepVeto /\ ~AppendOk /\ ~AppendGap => UNCHANGED <<base, veto, wall>>
  BY DEF Next, Run, vars, files, NextDay, ExtendCalendar, BarsArrive, BuildFactors,
         Anchor, Plan, RefuseUncovered, Crash
<1> QED BY <1>1, <1>2, <1>4, <1>5, <1>6, <1>7

\* A row stays what the saved books say of its session: they are written
\* before it, and neither book ever revises a session.
THEOREM RowsAgreeWithBooks == Spec => []RowsMatchBooks
<1>1. Init => RowsMatchBooks
  BY DEF Init, RowsMatchBooks, OkIndices
<1> QED BY <1>1, StepMatches, InvariantHolds, PTL DEF Spec

-----------------------------------------------------------------------------
(* The exposures. *)

\* The rows above a row are the same once another is appended; those above
\* the appended one are all there were.
LEMMA RowsAbove ==
  ASSUME NEW w \in Seq(WallRow), NEW r \in WallRow, NEW i \in 1..(Len(w) + 1)
  PROVE  SubSeq(Append(w, r), 1, i - 1) = SubSeq(w, 1, i - 1)
<1>1. Append(w, r) \in Seq(WallRow) /\ Len(Append(w, r)) = Len(w) + 1 /\ Len(w) \in Nat
  OBVIOUS
<1>2. /\ SubSeq(Append(w, r), 1, i - 1) = [k \in 1..(i - 1) |-> Append(w, r)[k]]
      /\ SubSeq(w, 1, i - 1) = [k \in 1..(i - 1) |-> w[k]]
  BY <1>1
<1>3. \A k \in 1..(i - 1) : Append(w, r)[k] = w[k]
  BY <1>1
<1> QED BY <1>2, <1>3

LEMMA StepExposure == ASSUME IInv, ExposureFromLog, [Next]_vars PROVE ExposureFromLog'
<1>1. wall \in Seq(WallRow) /\ Len(wall) \in Nat /\ DOMAIN wall = 1..Len(wall)
  BY WallFacts DEF IInv
<1>2. ASSUME NEW r \in WallRow, wall' = Append(wall, r),
             r.status = "ok" => r.mult = DriftMult(wall)
      PROVE  ExposureFromLog'
  <2>1. SUFFICES ASSUME NEW i \in DOMAIN wall', wall'[i].status = "ok"
                 PROVE  wall'[i].mult = DriftMult(SubSeq(wall', 1, i - 1))
    BY DEF ExposureFromLog, OkIndices
  <2>2. i \in 1..(Len(wall) + 1)
    BY <1>1, <1>2
  <2>3. SubSeq(wall', 1, i - 1) = SubSeq(wall, 1, i - 1)
    BY <1>1, <1>2, <2>2, RowsAbove
  <2>4. CASE i \in DOMAIN wall
    <3>1. wall'[i] = wall[i]
      BY <2>4, <1>1, <1>2
    <3> QED BY <3>1, <2>1, <2>3, <2>4 DEF ExposureFromLog, OkIndices
  <2>5. CASE i = Len(wall) + 1
    <3>1. wall'[i] = r
      BY <2>5, <1>1, <1>2
    <3>2. SubSeq(wall, 1, i - 1) = wall
      BY <2>5, <1>1
    <3> QED BY <3>1, <3>2, <2>1, <2>3, <1>2
  <2> QED BY <2>2, <2>4, <2>5, <1>1
<1>3. CASE AppendOk
  <2> DEFINE row(d) == OkRow(d, DriftMult(wall), DriftNav(wall) + DriftMult(wall) * Ret(d))
  <2>1. PICK d \in toLog : wall' = Append(wall, row(d))
    BY <1>3 DEF AppendOk, Mult
  <2>2. row(d) \in WallRow
    BY OkRowType DEF TypeOK, IInv
  <2>3. row(d).mult = DriftMult(wall)
    BY DEF OkRow
  <2> HIDE DEF row
  <2> QED BY <2>1, <2>2, <2>3, <1>2
<1>4. CASE AppendGap
  <2>1. PICK g \in Calendar : wall' = Append(wall, GapRow(g))
    BY <1>4 DEF AppendGap, MissingBefore
  <2>2. GapRow(g) \in WallRow /\ GapRow(g).status # "ok"
    BY GapRowType DEF GapRow
  <2> QED BY <2>1, <2>2, <1>2
<1>5. CASE wall' = wall
  BY <1>5 DEF ExposureFromLog, OkIndices
<1>6. ~AppendOk /\ ~AppendGap => wall' = wall
  BY DEF Next, Run, vars, files, NextDay, ExtendCalendar, BarsArrive, BuildFactors, StepBase,
         Anchor, StepVeto, Plan, RefuseUncovered, Crash
<1> QED BY <1>3, <1>4, <1>5, <1>6

\* No lookahead: the exposure of a row is a function of the rows above it.
THEOREM ExposureIsFromTheLog == Spec => []ExposureFromLog
<1>1. Init => ExposureFromLog
  BY DEF Init, ExposureFromLog, OkIndices
<1> QED BY <1>1, StepExposure, InvariantHolds, PTL DEF Spec

\* The wall is a complete and ordered record of the days since its start, for
\* any calendar, sessions, late bars and crashes of update_wall's runs.
THEOREM WallIsARecord == Spec => []WallInv
BY TypeCorrect, WallStaysOrdered, StartIsRespected, NoTradingDaySkipped, PTL DEF WallInv

\* Every observation agrees with the saved books and with the drift rule over
\* the rows above it.
THEOREM WallIsHonest == Spec => []HonestRows
BY RowsAgreeWithBooks, ExposureIsFromTheLog, PTL DEF HonestRows
=============================================================================
