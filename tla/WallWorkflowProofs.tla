------------------------- MODULE WallWorkflowProofs -------------------------
(***************************************************************************)
(* Proofs about WallWorkflow.  A job starts from what is committed and its *)
(* daily program takes the steps of ForwardWall, so the wall of a working  *)
(* copy always continues the committed one; the rest is what a job has     *)
(* established when it reaches a step of the workflow.                     *)
(***************************************************************************)
EXTENDS WallWorkflow, ForwardWallProofs

\* A wall in order from its start on, with no hole.
Sound(w, start) ==
  /\ \A i, j \in DOMAIN w : i < j => w[i].date < w[j].date
  /\ \A i \in DOMAIN w : start # NoAnchor /\ w[i].date >= start
  /\ \A i \in DOMAIN w : i > 1 =>
       \A e \in Calendar : ~(w[i - 1].date < e /\ e < w[i].date)

\* What is committed can be checked out, and the working copy, also the one a
\* failed job has left, continues it.
Continues ==
  /\ Sound(repo.wall, repo.anchor)
  /\ repo.anchor # NoAnchor => anchor = repo.anchor
  /\ Len(repo.wall) <= Len(wall)
  /\ \A i \in 1..Len(repo.wall) : wall[i] = repo.wall[i]

\* The panel is absent until it is built, and then as new as the cache.
PanelInv ==
  /\ job \in {"download", "run1", "build"} => covered = 0
  /\ job \in {"built", "run2"} => PanelCovers(bars)

\* The daily program runs in the two runs only, and the first ends early.
ProgramInv ==
  /\ job \in {"run1", "run2"} <=> pc # "idle"
  /\ job = "run1" => pc \in {"anchor", "veto"}

\* No veto session is inert, in the files or in a row.
LiveInv ==
  /\ \A d \in DOMAIN veto : veto[d] = "vetoed"
  /\ \A d \in DOMAIN repo.veto : repo.veto[d] = "vetoed"
  /\ \A i \in DOMAIN wall : wall[i].status = "ok" => wall[i].veto = "vetoed"

\* The days there are, and what the assertion has found.
DayInv ==
  /\ today >= 1 /\ (MaxDay >= 1 => today <= MaxDay)
  /\ job = "commit" => WallAdvanced

\* A job adds one ok row, as its last.
OneRow ==
  /\ \A d, e \in toLog : d = e
  /\ \A i \in DOMAIN wall :
       (i > Len(repo.wall) /\ wall[i].status = "ok")
         => i = Len(wall) /\ job \in {"assert", "commit", "off"}

WIInv ==
  /\ IInv /\ WTypeOK /\ Continues /\ PanelInv /\ ProgramInv /\ LiveInv /\ DayInv

LEMMA RepoFacts ==
  ASSUME WTypeOK
  PROVE  /\ Len(repo.wall) \in Nat /\ DOMAIN repo.wall = 1..Len(repo.wall)
         /\ DOMAIN pushed = 1..Len(repo.wall)
         /\ \A i \in DOMAIN repo.wall : repo.wall[i] \in WallRow
         /\ \A i \in DOMAIN pushed : pushed[i] \in Days
<1>1. repo.wall \in Seq(WallRow) /\ pushed \in Seq(Days) /\ Len(pushed) = Len(repo.wall)
  BY DEF WTypeOK
<1> HIDE DEF WallRow
<1>2. /\ Len(repo.wall) \in Nat /\ DOMAIN repo.wall = 1..Len(repo.wall)
      /\ DOMAIN pushed = 1..Len(repo.wall)
  BY <1>1, LenProperties
<1> QED BY <1>1, <1>2, ElementOfSeq

LEMMA WInitInv == WInit => WIInv
<1> SUFFICES ASSUME WInit PROVE WIInv
  OBVIOUS
<1>1. IInv
  BY InitInv DEF WInit
<1>2. WTypeOK
  BY <1>1 DEF IInv, WInit, WTypeOK, NoAnchor
<1>3. Continues
  BY DEF WInit, Init, Continues, Sound
<1>4. PanelInv /\ ProgramInv /\ LiveInv /\ DayInv
  BY DaysAssumption DEF WInit, Init, PanelInv, ProgramInv, LiveInv, DayInv
<1> QED BY <1>1, <1>2, <1>3, <1>4 DEF WIInv

-----------------------------------------------------------------------------
(* The steps of the daily program and of the world around it. *)

\* A step of ForwardWall keeps the continuation.
LEMMA ProgramContinues ==
  ASSUME WIInv, [Next]_vars, UNCHANGED repo
  PROVE  Continues'
<1>1. /\ Len(repo.wall) \in Nat /\ Len(wall) \in Nat /\ DOMAIN wall = 1..Len(wall)
  BY RepoFacts, WallFacts DEF WIInv, IInv
<1>2. /\ anchor # NoAnchor => anchor' = anchor
      /\ Len(wall') >= Len(wall)
      /\ \A i \in DOMAIN wall : wall'[i] = wall[i]
  BY NothingRevised DEF WIInv
<1>3. wall' \in Seq(WallRow) /\ Len(wall') \in Nat
  BY StepInv, LenProperties DEF WIInv, IInv, TypeOK
<1> QED BY <1>1, <1>2, <1>3 DEF WIInv, Continues

\* A step that touches neither the workflow's own state nor what the wall is.
LEMMA WorldStep ==
  ASSUME WIInv, [Next]_vars, UNCHANGED <<repo, pushed, veto, wall>>,
         job' \in {"off", "download", "run1", "build", "built", "run2", "assert", "commit"}
  PROVE  IInv' /\ WTypeOK' /\ Continues' /\ LiveInv'
<1>1. IInv' /\ Continues'
  BY StepInv, ProgramContinues DEF WIInv
<1>2. WTypeOK'
  BY <1>1 DEF WIInv, WTypeOK, IInv
<1> QED BY <1>1, <1>2 DEF WIInv, LiveInv

LEMMA DayPassesStep == ASSUME WIInv, DayPasses PROVE WIInv'
<1>1. NextDay /\ job = "off" /\ UNCHANGED <<job, repo, pushed>>
  BY DEF DayPasses, workflow
<1>2. IInv' /\ WTypeOK' /\ Continues' /\ LiveInv'
  BY <1>1, WorldStep DEF WIInv, WTypeOK, Next, NextDay, files
<1>3. PanelInv' /\ ProgramInv' /\ DayInv'
  BY <1>1, DaysAssumption DEF WIInv, IInv, TypeOK, NextDay, PanelInv, ProgramInv, DayInv
<1> QED BY <1>2, <1>3 DEF WIInv

LEMMA CalendarStep == ASSUME WIInv, NEW d \in Days, CalendarReleased(d) PROVE WIInv'
<1>1. ExtendCalendar(d) /\ job = "off" /\ UNCHANGED <<job, repo, pushed>>
  BY DEF CalendarReleased, workflow
<1>2. IInv' /\ WTypeOK' /\ Continues' /\ LiveInv'
  BY <1>1, WorldStep DEF WIInv, WTypeOK, Next, ExtendCalendar, files
<1>3. PanelInv' /\ ProgramInv' /\ DayInv'
  BY <1>1 DEF WIInv, ExtendCalendar, PanelInv, ProgramInv, DayInv
<1> QED BY <1>2, <1>3 DEF WIInv

LEMMA DownloadStep == ASSUME WIInv, NEW d \in Days, Download(d) PROVE WIInv'
<1>1. BarsArrive(d) /\ job \in {"download", "build"} /\ UNCHANGED <<job, repo, pushed>>
  BY DEF Download, workflow
<1>2. IInv' /\ WTypeOK' /\ Continues' /\ LiveInv'
  BY <1>1, WorldStep DEF WIInv, WTypeOK, Next, BarsArrive, files
<1>3. PanelInv' /\ ProgramInv' /\ DayInv'
  BY <1>1 DEF WIInv, BarsArrive, PanelInv, ProgramInv, DayInv
<1> QED BY <1>2, <1>3 DEF WIInv

LEMMA StartRunStep == ASSUME WIInv, StartRun PROVE WIInv'
<1>1. /\ StepBase /\ UNCHANGED <<repo, pushed>>
      /\ \/ job = "download" /\ job' = "run1"
         \/ job = "built" /\ job' = "run2"
  BY DEF StartRun
<1>2. IInv' /\ WTypeOK' /\ Continues' /\ LiveInv'
  BY <1>1, WorldStep DEF Next, Run, StepBase
<1>3. PanelInv' /\ ProgramInv' /\ DayInv'
  BY <1>1 DEF WIInv, StepBase, outside, PanelInv, PanelCovers, ProgramInv, DayInv
<1> QED BY <1>2, <1>3 DEF WIInv

LEMMA BuildStep == ASSUME WIInv, Build PROVE WIInv'
<1>1. PICK d \in PanelEnd : BuildFactors(d)
  BY DEF Build
<1>2. job = "build" /\ job' = "built" /\ UNCHANGED <<repo, pushed>>
  BY DEF Build
<1>3. d \in bars /\ d \in Days /\ \A e \in bars : e <= d
  BY DaysAssumption DEF PanelEnd, IsLast, WIInv, IInv, TypeOK
<1>4. IInv' /\ WTypeOK' /\ Continues' /\ LiveInv'
  BY <1>1, <1>2, <1>3, WorldStep DEF Next, BuildFactors, files
<1>5. PanelInv' /\ ProgramInv' /\ DayInv'
  BY <1>1, <1>2, <1>3 DEF WIInv, BuildFactors, PanelInv, PanelCovers, ProgramInv, DayInv
<1> QED BY <1>4, <1>5 DEF WIInv

\* The steps between the base book and the end of the daily program.
GoOnRun == Anchor \/ StepVeto \/ Plan \/ RefuseUncovered \/ AppendGap \/ AppendOk

\* The panel of the second run reaches every session, so that nothing the veto
\* book steps is inert.
LEMMA StepVetoLive ==
  ASSUME WIInv, StepVeto, job \in {"run1", "run2"}
  PROVE  \A d \in DOMAIN veto' : veto'[d] = "vetoed"
<1>1. CASE covered = 0
  BY <1>1 DEF StepVeto, WIInv, LiveInv
<1>2. CASE covered # 0
  <2>1. PICK first, last \in DOMAIN base :
          LET new == {d \in bars : first <= d /\ d <= last /\ After(DOMAIN veto, d)}
          IN  veto' = Extend(veto, [d \in new |-> IF d <= covered THEN "vetoed" ELSE "inert"])
    BY <1>2 DEF StepVeto
  <2> DEFINE new == {d \in bars : first <= d /\ d <= last /\ After(DOMAIN veto, d)}
             g == [d \in new |-> IF d <= covered THEN "vetoed" ELSE "inert"]
  <2>2. \A d \in bars : d <= covered
    BY <1>2 DEF WIInv, PanelInv, PanelCovers
  <2>3. DOMAIN g = new /\ \A d \in new : g[d] = "vetoed"
    BY <2>2
  <2>4. veto' = Extend(veto, g)
    BY <2>1
  <2>5. \A d \in DOMAIN veto : veto[d] = "vetoed"
    BY DEF WIInv, LiveInv
  <2>6. /\ DOMAIN Extend(veto, g) = DOMAIN veto \union DOMAIN g
        /\ \A d \in DOMAIN veto : Extend(veto, g)[d] = veto[d]
        /\ \A d \in DOMAIN g \ DOMAIN veto : Extend(veto, g)[d] = g[d]
    <3> HIDE DEF g
    <3> QED BY ExtendFacts
  <2> HIDE DEF g, new
  <2> QED BY <2>3, <2>4, <2>5, <2>6
<1> QED BY <1>1, <1>2

\* The rows that are written carry the veto file's entry.
LEMMA GoOnLive == ASSUME WIInv, GoOn PROVE LiveInv'
<1>1. GoOnRun /\ job \in {"run1", "run2"} /\ UNCHANGED <<repo, pushed>>
  BY DEF GoOn, GoOnRun
<1>2. wall \in Seq(WallRow) /\ Len(wall) \in Nat /\ DOMAIN wall = 1..Len(wall)
  BY WallFacts DEF WIInv, IInv
<1>3. CASE StepVeto
  BY <1>1, <1>3, StepVetoLive DEF StepVeto, WIInv, LiveInv
<1>4. CASE AppendGap
  <2>1. PICK g \in Calendar : wall' = Append(wall, GapRow(g))
    BY <1>4 DEF AppendGap, MissingBefore
  <2>2. GapRow(g).status # "ok"
    BY DEF GapRow
  <2>3. \A i \in DOMAIN wall' : wall'[i] = GapRow(g) \/ (i \in DOMAIN wall /\ wall'[i] = wall[i])
    BY <2>1, <1>2
  <2>4. UNCHANGED <<veto, repo>>
    BY <1>1, <1>4 DEF AppendGap
  <2> HIDE DEF GapRow
  <2> QED BY <2>2, <2>3, <2>4 DEF WIInv, LiveInv
<1>5. CASE AppendOk
  <2>1. PICK d \in toLog : wall' = Append(wall, OkRow(d, Mult(d), DriftNav(wall) + Mult(d) * Ret(d)))
    BY <1>5 DEF AppendOk
  <2> DEFINE r == OkRow(d, Mult(d), DriftNav(wall) + Mult(d) * Ret(d))
  <2>2. r.veto = "vetoed"
    BY DEF OkRow, WIInv, IInv, TypeOK, LiveInv
  <2>3. \A i \in DOMAIN wall' : wall'[i] = r \/ (i \in DOMAIN wall /\ wall'[i] = wall[i])
    BY <2>1, <1>2
  <2>4. UNCHANGED <<veto, repo>>
    BY <1>1, <1>5 DEF AppendOk
  <2> HIDE DEF r
  <2> QED BY <2>2, <2>3, <2>4 DEF WIInv, LiveInv
<1>6. ~StepVeto /\ ~AppendGap /\ ~AppendOk => UNCHANGED <<veto, wall>>
  BY <1>1 DEF GoOnRun, Anchor, Plan, RefuseUncovered, files
<1> QED BY <1>1, <1>3, <1>4, <1>5, <1>6 DEF WIInv, LiveInv

LEMMA GoOnStep == ASSUME WIInv, GoOn PROVE WIInv'
<1>1. /\ GoOnRun /\ job \in {"run1", "run2"} /\ UNCHANGED <<repo, pushed>>
      /\ job' = IF pc' # "idle" THEN job ELSE IF job = "run1" THEN "build" ELSE "assert"
  BY DEF GoOn, GoOnRun
<1>2. Next
  BY <1>1 DEF GoOnRun, Next, Run
<1>3. IInv' /\ Continues'
  BY <1>1, <1>2, StepInv, ProgramContinues DEF WIInv
<1>4. WTypeOK'
  BY <1>1, <1>3 DEF WIInv, WTypeOK, IInv
<1>5. UNCHANGED outside
  BY <1>1 DEF GoOnRun, Anchor, StepVeto, Plan, RefuseUncovered, AppendGap, AppendOk
<1>6. job = "run1" => pc' \in {"idle", "veto"}
  BY <1>1 DEF GoOnRun, Anchor, StepVeto, Plan, RefuseUncovered, AppendGap, AppendOk,
              WIInv, PanelInv, ProgramInv
<1>7. PanelInv' /\ ProgramInv' /\ DayInv'
  BY <1>1, <1>5, <1>6 DEF WIInv, outside, PanelInv, PanelCovers, ProgramInv, DayInv
<1> QED BY <1>3, <1>4, <1>7, GoOnLive DEF WIInv

-----------------------------------------------------------------------------
(* The steps of the workflow. *)

LEMMA CheckoutStep == ASSUME WIInv, Checkout PROVE WIInv'
<1>1. /\ anchor' = repo.anchor /\ wall' = repo.wall /\ veto' = repo.veto
      /\ base' = <<>> /\ covered' = 0 /\ bars' \subseteq Sessions
      /\ pc' = "idle" /\ toLog' = {} /\ job' = "download"
      /\ UNCHANGED <<today, calendarEnd, crashes, repo, pushed>>
  BY DEF Checkout, WIInv, WTypeOK
<1>2. TypeOK'
  BY <1>1 DEF WIInv, IInv, WTypeOK, TypeOK, LiveInv
<1>3. Sound(wall', anchor')
  BY <1>1 DEF WIInv, Continues
<1>4. WallOrdered' /\ NothingBeforeStart' /\ NoHoleAfterFirstRow'
  BY <1>3 DEF Sound, WallOrdered, NothingBeforeStart, NoHoleAfterFirstRow
<1>5. RunInv'
  <2>1. wall' # <<>> => 1 \in DOMAIN wall'
    BY <1>1, RepoFacts DEF WIInv, WTypeOK
  <2> QED BY <1>1, <1>3, <2>1 DEF RunInv, Sound
<1>6. WTypeOK'
  BY <1>1, <1>2 DEF WIInv, WTypeOK
<1>7. Continues'
  BY <1>1, RepoFacts DEF WIInv, Continues
<1>8. LiveInv'
  BY <1>1, RepoFacts DEF WIInv, LiveInv, Continues
<1>9. PanelInv' /\ ProgramInv' /\ DayInv'
  BY <1>1 DEF WIInv, PanelInv, ProgramInv, DayInv
<1> QED BY <1>2, <1>4, <1>5, <1>6, <1>7, <1>8, <1>9 DEF WIInv, IInv

\* A step of the workflow that leaves the program where it is.
LEMMA JobStep ==
  ASSUME WIInv, UNCHANGED <<vars, repo, pushed>>, ProgramInv', PanelInv', DayInv',
         job' \in {"off", "download", "run1", "build", "built", "run2", "assert", "commit"}
  PROVE  WIInv'
<1>1. UNCHANGED <<veto, wall>>
  BY DEF vars, files
<1> QED BY <1>1, WorldStep DEF WIInv

LEMMA AssertStep == ASSUME WIInv, AssertAdvanced PROVE WIInv'
<1>1. UNCHANGED <<pc, today, calendarEnd, wall>>
  BY DEF AssertAdvanced, vars, outside, files
<1>2. ProgramInv' /\ PanelInv' /\ DayInv'
  BY <1>1 DEF AssertAdvanced, WIInv, ProgramInv, PanelInv, DayInv, WallAdvanced, LastDate
<1> QED BY <1>2, JobStep DEF AssertAdvanced

LEMMA RedStep == ASSUME WIInv, Red PROVE WIInv'
<1>1. UNCHANGED <<pc, today>> /\ job' = "off" /\ job \in {"assert", "commit", "download"}
  BY DEF Red, vars, outside
<1>2. ProgramInv' /\ PanelInv' /\ DayInv'
  BY <1>1 DEF WIInv, ProgramInv, PanelInv, DayInv
<1> QED BY <1>1, <1>2, JobStep DEF Red

LEMMA JobFailsStep == ASSUME WIInv, JobFails PROVE WIInv'
<1>1. /\ job' = "off" /\ crashes' = crashes + 1 /\ crashes < MaxCrashes
      /\ pc' = "idle" /\ toLog' = {}
      /\ UNCHANGED <<today, calendarEnd, bars, covered, base, veto, anchor, wall, repo, pushed>>
  BY DEF JobFails, outside, files
<1>2. IInv'
  BY <1>1, CrashesAssumption DEF WIInv, IInv, TypeOK, RunInv, LastDate, WallOrdered,
     NothingBeforeStart, NoHoleAfterFirstRow
<1>3. WTypeOK' /\ Continues' /\ LiveInv' /\ PanelInv' /\ ProgramInv' /\ DayInv'
  BY <1>1, <1>2 DEF WIInv, IInv, WTypeOK, Continues, LiveInv, PanelInv, ProgramInv, DayInv
<1> QED BY <1>2, <1>3 DEF WIInv

LEMMA PushStep == ASSUME WIInv, Push PROVE WIInv'
<1>1. /\ repo'.wall = wall /\ repo'.anchor = anchor /\ repo'.veto = veto /\ repo'.bars = bars
      /\ anchor # NoAnchor /\ wall # <<>> /\ job = "commit" /\ job' = "off"
      /\ pushed' = [i \in DOMAIN wall |-> IF i \in DOMAIN pushed THEN pushed[i] ELSE today]
      /\ UNCHANGED vars
  BY DEF Push, Committed
<1>2. UNCHANGED <<today, calendarEnd, bars, covered, base, veto, anchor, wall, pc, toLog, crashes>>
  BY <1>1 DEF vars, outside, files
<1>3. IInv'
  BY <1>1, StepInv DEF WIInv
<1>4. wall \in Seq(WallRow) /\ Len(wall) \in Nat /\ DOMAIN wall = 1..Len(wall)
  BY WallFacts DEF WIInv, IInv
<1>5. today \in Days
  <2>1. Len(wall) \in DOMAIN wall /\ wall[Len(wall)] \in WallRow
    BY <1>1, <1>4, ElementOfSeq
  <2>2. \E d \in Days : TRUE
    BY <2>1 DEF WallRow
  <2> QED BY <2>2, DaysAssumption DEF Days, WIInv, DayInv, IInv, TypeOK
<1>6. WTypeOK'
  <2>1. \A i \in DOMAIN pushed : pushed[i] \in Days
    BY RepoFacts DEF WIInv
  <2>2. pushed' \in [1..Len(wall) -> Days]
    BY <1>1, <1>4, <1>5, <2>1
  <2>3. pushed' \in Seq(Days) /\ Len(pushed') = Len(wall)
    BY <2>2, <1>4
  <2>4. repo'.wall \in Seq(WallRow) /\ repo'.bars \subseteq Sessions
        /\ DOMAIN repo'.veto \subseteq Sessions /\ repo'.anchor \in Days \union {NoAnchor}
    BY <1>1, <1>4 DEF WIInv, IInv, TypeOK
  <2> QED BY <1>1, <1>3, <2>3, <2>4 DEF WTypeOK, IInv
<1>7. Continues'
  <2>1. Sound(wall, anchor)
    BY DEF WIInv, IInv, WallOrdered, NothingBeforeStart, NoHoleAfterFirstRow, Sound
  <2> QED BY <1>1, <1>2, <1>4, <2>1 DEF Continues
<1>8. LiveInv' /\ PanelInv' /\ ProgramInv' /\ DayInv'
  BY <1>1, <1>2 DEF WIInv, LiveInv, PanelInv, ProgramInv, DayInv
<1> QED BY <1>3, <1>6, <1>7, <1>8 DEF WIInv

LEMMA WStepInv == WIInv /\ [WNext]_allVars => WIInv'
<1> SUFFICES ASSUME WIInv, [WNext]_allVars PROVE WIInv'
  OBVIOUS
<1>1. CASE UNCHANGED allVars
  <2>1. UNCHANGED <<vars, job, repo, pushed, pc, covered, bars, today, calendarEnd, wall>>
    BY <1>1 DEF allVars, workflow, vars, outside, files
  <2>2. ProgramInv' /\ PanelInv' /\ DayInv'
    BY <2>1 DEF WIInv, ProgramInv, PanelInv, PanelCovers, DayInv, WallAdvanced, LastDate
  <2> QED BY <2>1, <2>2, JobStep DEF WIInv, WTypeOK
<1>2. CASE WNext
  BY <1>2, DayPassesStep, CheckoutStep, StartRunStep, GoOnStep, BuildStep, AssertStep, PushStep,
     RedStep, JobFailsStep, CalendarStep, DownloadStep DEF WNext
<1> QED BY <1>1, <1>2

\* The inductive invariant of the jobs.
THEOREM WorkflowInvariant == WSpec => []WIInv
BY WInitInv, WStepInv, PTL DEF WSpec

-----------------------------------------------------------------------------
\* A green job never publishes a stale wall: when a commit is made every
\* trading day since the first row has its row, although the assertion looks
\* at the days after the last one only.
THEOREM GreenJobsAreCurrent == WSpec => []GreenMeansCurrent
<1>1. ASSUME WIInv PROVE GreenMeansCurrent
  <2> SUFFICES ASSUME job = "commit", wall # <<>>,
                      NEW e \in Calendar, wall[1].date <= e, e <= today
               PROVE  \E i \in DOMAIN wall : wall[i].date = e
    BY DEF GreenMeansCurrent
  <2> DEFINE n == Len(wall)
  <2>1. /\ n \in Nat /\ DOMAIN wall = 1..n /\ n >= 1 /\ LastDate = wall[n].date
        /\ \A i \in 1..n : wall[i].date \in Nat
    <3>1. \A q \in WallRow : q.date \in Nat
      BY DaysAssumption DEF WallRow, Days
    <3>2. n \in Nat /\ DOMAIN wall = 1..n /\ \A i \in 1..n : wall[i] \in WallRow
      BY <1>1, WallFacts DEF WIInv, IInv
    <3>3. wall \in Seq(WallRow)
      BY <1>1, WallFacts DEF WIInv, IInv
    <3> QED BY <3>1, <3>2, <3>3 DEF LastDate
  <2>2. e \in Nat /\ e <= LastDate
    BY <1>1, <2>1, DaysAssumption DEF WIInv, DayInv, WallAdvanced, Days
  <2> DEFINE before == {i \in 1..n : wall[i].date <= e}
  <2>3. before \in SUBSET (0..n) /\ 1 \in before
    BY <2>1
  <2>4. PICK m \in before : \A k \in before : k <= m
    <3> HIDE DEF before
    <3> QED BY <2>1, <2>3, GreatestElement
  <2>5. m \in 1..n /\ wall[m].date <= e
    BY <2>4
  <2>6. CASE m = n
    BY <2>1, <2>2, <2>5, <2>6
  <2>7. CASE m # n
    <3>0. n \in Nat /\ m \in 1..n
      BY <2>1, <2>5
    <3>1. m + 1 \in 1..n /\ m + 1 > 1 /\ (m + 1) - 1 = m
      <4> HIDE DEF n, before
      <4> QED BY <3>0, <2>7
    <3>2. ~(wall[m + 1].date <= e)
      BY <3>1, <2>4, <2>5
    <3>3. ~(wall[m].date < e /\ e < wall[m + 1].date)
      BY <1>1, <2>1, <3>1 DEF WIInv, IInv, NoHoleAfterFirstRow
    <3> QED BY <2>1, <2>2, <2>5, <3>1, <3>2, <3>3
  <2> QED BY <2>6, <2>7
<1> QED BY <1>1, WorkflowInvariant, PTL

\* Across checkouts, failures and pushes the committed wall is append-only and
\* its start is registered once.
THEOREM CommitsAreNeverRevised == WSpec => PublishedAppendOnly
<1>1. ASSUME WIInv, [WNext]_allVars
      PROVE  /\ repo.anchor # NoAnchor => repo'.anchor = repo.anchor
             /\ SubSeq(repo'.wall, 1, Len(repo.wall)) = repo.wall
  <2>1. repo.wall \in Seq(WallRow) /\ Len(repo.wall) \in Nat /\ DOMAIN repo.wall = 1..Len(repo.wall)
    BY <1>1, RepoFacts DEF WIInv, WTypeOK
  <2>2. CASE UNCHANGED repo
    <3>1. SubSeq(repo.wall, 1, Len(repo.wall)) = repo.wall
      BY <2>1
    <3> QED BY <2>2, <3>1
  <2>3. CASE Push
    <3>1. repo'.anchor = anchor /\ repo'.wall = wall
      BY <2>3 DEF Push, Committed
    <3>2. wall \in Seq(WallRow) /\ Len(wall) \in Nat /\ DOMAIN wall = 1..Len(wall)
      BY <1>1, WallFacts DEF WIInv, IInv
    <3>3. Len(repo.wall) <= Len(wall) /\ \A i \in 1..Len(repo.wall) : wall[i] = repo.wall[i]
      BY <1>1 DEF WIInv, Continues
    <3>4. SubSeq(wall, 1, Len(repo.wall)) = repo.wall
      BY <2>1, <3>2, <3>3
    <3> QED BY <1>1, <3>1, <3>4 DEF WIInv, Continues
  <2>4. ~Push => UNCHANGED repo
    BY <1>1 DEF WNext, allVars, workflow, DayPasses, Checkout, StartRun, GoOn, Build,
       AssertAdvanced, Red, JobFails, CalendarReleased, Download
  <2> QED BY <2>2, <2>3, <2>4
<1> QED BY <1>1, WorkflowInvariant, PTL DEF WSpec, PublishedAppendOnly

-----------------------------------------------------------------------------
(* What a job adds is one ok row, for its newest session, as long as the     *)
(* owner asks for no backfill.                                               *)

OnTimeInv == WIInv /\ OneRow /\ PublishedOnTime

\* Steps that write no row and plan none.
LEMMA QuietStep ==
  ASSUME OnTimeInv, UNCHANGED <<wall, repo, pushed>>, toLog' = toLog \/ toLog' = {},
         job \in {"assert", "commit", "off"} => job' \in {"assert", "commit", "off"}
  PROVE  OneRow' /\ PublishedOnTime'
BY DEF OnTimeInv, OneRow, PublishedOnTime, OkIndices

LEMMA GoOnOneRow ==
  ASSUME OnTimeInv, ~Backfill, GoOn
  PROVE  OneRow' /\ PublishedOnTime'
<1>1. /\ GoOnRun /\ job \in {"run1", "run2"} /\ UNCHANGED <<repo, pushed>>
      /\ job' = IF pc' # "idle" THEN job ELSE IF job = "run1" THEN "build" ELSE "assert"
  BY DEF GoOn, GoOnRun
<1>2. PublishedOnTime'
  BY <1>1 DEF OnTimeInv, PublishedOnTime, OkIndices
<1>3. wall \in Seq(WallRow) /\ Len(wall) \in Nat /\ DOMAIN wall = 1..Len(wall)
  BY WallFacts DEF OnTimeInv, WIInv, IInv
<1>4. \A i \in DOMAIN wall : wall[i].status = "ok" => i <= Len(repo.wall)
  BY <1>1, <1>3, RepoFacts DEF OnTimeInv, WIInv, OneRow
<1>5. Len(repo.wall) \in Nat /\ Len(repo.wall) <= Len(wall)
  BY RepoFacts DEF OnTimeInv, WIInv, Continues
<1>6. CASE Plan
  <2>1. toLog' = Chosen \/ toLog' = toLog
    BY <1>6 DEF Plan
  <2>2. \A d, e \in Chosen : d = e
    <3>1. \A d \in Todo : d \in Nat
      BY DaysAssumption DEF Todo, OnTimeInv, WIInv, IInv, TypeOK, Days
    <3> QED BY <3>1 DEF Chosen, IsLast
  <2>3. UNCHANGED wall
    BY <1>6 DEF Plan, files
  <2> QED BY <1>1, <1>2, <1>3, <1>4, <1>5, <2>1, <2>2, <2>3 DEF OneRow, OnTimeInv
<1>7. CASE AppendGap
  <2>1. PICK g \in Calendar : wall' = Append(wall, GapRow(g))
    BY <1>7 DEF AppendGap, MissingBefore
  <2>2. GapRow(g).status # "ok"
    BY DEF GapRow
  <2>3. \A i \in DOMAIN wall' : wall'[i] = GapRow(g) \/ (i \in DOMAIN wall /\ wall'[i] = wall[i])
    BY <2>1, <1>3
  <2>4. toLog' = toLog
    BY <1>7 DEF AppendGap
  <2> HIDE DEF GapRow
  <2>5. \A i \in DOMAIN wall' : wall'[i].status = "ok" => i \in DOMAIN wall /\ i <= Len(repo.wall)
    BY <2>2, <2>3, <1>4
  <2> QED BY <1>1, <1>2, <1>3, <1>5, <2>4, <2>5 DEF OneRow, OnTimeInv
<1>8. CASE AppendOk
  <2>1. PICK d \in toLog :
          /\ wall' = Append(wall, OkRow(d, Mult(d), DriftNav(wall) + Mult(d) * Ret(d)))
          /\ toLog' = toLog \ {d} /\ pc' = IF toLog' = {} THEN "idle" ELSE "log"
    BY <1>8 DEF AppendOk
  <2>2. toLog' = {} /\ pc' = "idle"
    BY <2>1 DEF OnTimeInv, OneRow
  <2>3. job' = "assert"
    BY <1>1, <1>8, <2>2 DEF AppendOk, OnTimeInv, WIInv, ProgramInv
  <2>4. \A i \in DOMAIN wall' : i = Len(wall') \/ (i \in DOMAIN wall /\ wall'[i] = wall[i])
    BY <2>1, <1>3
  <2> QED BY <1>1, <1>2, <1>4, <1>5, <1>3, <2>2, <2>3, <2>4 DEF OneRow
<1>9. CASE ~Plan /\ ~AppendGap /\ ~AppendOk
  <2>1. UNCHANGED wall /\ (toLog' = toLog \/ toLog' = {})
    BY <1>1, <1>9 DEF GoOnRun, Anchor, StepVeto, RefuseUncovered, files
  <2> QED BY <1>1, <2>1, QuietStep
<1> QED BY <1>6, <1>7, <1>8, <1>9

\* The push is made on the day of the assertion, which found no trading day
\* after the last row.
LEMMA PushOnTime ==
  ASSUME OnTimeInv, Push
  PROVE  OneRow' /\ PublishedOnTime'
<1>1. /\ repo'.wall = wall /\ wall # <<>> /\ job = "commit" /\ job' = "off"
      /\ pushed' = [i \in DOMAIN wall |-> IF i \in DOMAIN pushed THEN pushed[i] ELSE today]
      /\ UNCHANGED <<wall, toLog>>
  BY DEF Push, Committed, vars, files
<1>2. wall \in Seq(WallRow) /\ Len(wall) \in Nat /\ DOMAIN wall = 1..Len(wall)
  BY WallFacts DEF OnTimeInv, WIInv, IInv
<1>3. OneRow'
  BY <1>1, <1>2 DEF OnTimeInv, OneRow
<1>4. PublishedOnTime'
  <2> SUFFICES ASSUME NEW i \in DOMAIN wall, wall[i].status = "ok", NEW e \in Calendar
               PROVE  ~(wall[i].date < e /\ e <= pushed'[i])
    BY <1>1 DEF PublishedOnTime, OkIndices
  <2>1. DOMAIN pushed = 1..Len(repo.wall) /\ Len(repo.wall) \in Nat /\ DOMAIN repo.wall = 1..Len(repo.wall)
    BY RepoFacts DEF OnTimeInv, WIInv
  <2>2. CASE i <= Len(repo.wall)
    <3>1. i \in DOMAIN pushed /\ wall[i] = repo.wall[i] /\ i \in DOMAIN repo.wall
      BY <1>2, <2>1, <2>2 DEF OnTimeInv, WIInv, Continues
    <3>2. pushed'[i] = pushed[i]
      BY <1>1, <3>1
    <3> QED BY <3>1, <3>2 DEF OnTimeInv, PublishedOnTime, OkIndices
  <2>3. CASE i > Len(repo.wall)
    <3>1. i = Len(wall)
      BY <2>3 DEF OnTimeInv, OneRow
    <3>2. pushed'[i] = today
      BY <1>1, <1>2, <2>1, <2>3
    <3>3. LastDate = wall[i].date
      BY <1>1, <3>1 DEF LastDate
    <3> QED BY <1>1, <3>2, <3>3 DEF OnTimeInv, WIInv, DayInv, WallAdvanced
  <2> QED BY <1>2, <2>1, <2>2, <2>3
<1> QED BY <1>3, <1>4

\* An observation is published when it is known: no trading day passes between
\* the session of a committed row and the push that first carried it.
THEOREM RowsArePublishedOnTime ==
  ASSUME ~Backfill
  PROVE  WSpec => []PublishedOnTime
<1>1. WInit => OnTimeInv
  <2>1. WInit => WIInv
    BY WInitInv
  <2>2. WInit => OneRow /\ PublishedOnTime
    BY DEF WInit, Init, OneRow, PublishedOnTime, OkIndices
  <2> QED BY <2>1, <2>2 DEF OnTimeInv
<1>2. OnTimeInv /\ [WNext]_allVars => OnTimeInv'
  <2> SUFFICES ASSUME OnTimeInv, [WNext]_allVars PROVE OneRow' /\ PublishedOnTime'
    BY WStepInv DEF OnTimeInv
  <2>1. CASE UNCHANGED allVars
    BY <2>1, QuietStep DEF allVars, vars, files, workflow
  <2>2. CASE GoOn
    BY <2>2, GoOnOneRow
  <2>3. CASE Push
    BY <2>3, PushOnTime
  <2>4. CASE Checkout
    <3>1. wall' = repo.wall /\ toLog' = {} /\ UNCHANGED <<repo, pushed>>
      BY <2>4 DEF Checkout
    <3>2. DOMAIN repo.wall = 1..Len(repo.wall) /\ Len(repo.wall) \in Nat
      BY RepoFacts DEF OnTimeInv, WIInv
    <3>3. OneRow'
      BY <3>1, <3>2 DEF OneRow
    <3> QED BY <3>1, <3>3 DEF OnTimeInv, PublishedOnTime, OkIndices
  <2>5. CASE DayPasses \/ StartRun \/ Build \/ \E d \in Days : CalendarReleased(d) \/ Download(d)
    BY <2>5, QuietStep DEF DayPasses, NextDay, StartRun, StepBase, Build, BuildFactors,
       CalendarReleased, ExtendCalendar, Download, BarsArrive, workflow, files
  <2>6. CASE AssertAdvanced \/ Red \/ JobFails
    BY <2>6, QuietStep DEF AssertAdvanced, Red, JobFails, vars, files
  <2> QED BY <2>1, <2>2, <2>3, <2>4, <2>5, <2>6 DEF WNext
<1>3. OnTimeInv => PublishedOnTime
  BY DEF OnTimeInv
<1> QED BY <1>1, <1>2, <1>3, PTL DEF WSpec

\* No committed row has an inert veto session.
THEOREM CommittedVetoIsLive == WSpec => []PublishedNotInert
<1>1. WIInv => PublishedNotInert
  <2> SUFFICES ASSUME WIInv, NEW i \in DOMAIN repo.wall, repo.wall[i].status = "ok"
               PROVE  repo.wall[i].veto = "vetoed"
    BY DEF PublishedNotInert, OkIndices
  <2>1. i \in 1..Len(repo.wall) /\ Len(repo.wall) \in Nat
    BY RepoFacts DEF WIInv
  <2>2. i \in DOMAIN wall /\ wall[i] = repo.wall[i]
    BY <2>1, WallFacts DEF WIInv, IInv, Continues
  <2> QED BY <2>2 DEF WIInv, LiveInv
<1> QED BY <1>1, WorkflowInvariant, PTL

\* What is committed was published on its day and with the veto arm live.
THEOREM WorkflowIsHonest ==
  ASSUME ~Backfill
  PROVE  WSpec => []WorkflowInv
<1>1. WIInv /\ PublishedOnTime /\ PublishedNotInert => WorkflowInv
  BY DEF WIInv, WorkflowInv
<1> QED BY <1>1, WorkflowInvariant, RowsArePublishedOnTime, CommittedVetoIsLive, PTL
=============================================================================
