---------------------------- MODULE WallWorkflow ----------------------------
(***************************************************************************)
(* The scheduled job around the forward wall, cron-forward-wall.yml.       *)
(*                                                                         *)
(* A job checks the repository out on a fresh runner, runs the daily       *)
(* program of ForwardWall twice (the first run downloads prices and has no *)
(* factor panel, the second finds the panel built in between), asserts     *)
(* that the wall advanced, and commits.  The repository holds the anchor,  *)
(* the wall and the veto book; paper_state.json and the factor panel are   *)
(* not committed, so every job starts with an empty base book and no       *)
(* factors.  The OHLCV cache is saved by the jobs that succeed, and starts *)
(* empty in a new month.  Jobs do not overlap (concurrency group) and end  *)
(* on the day they start.                                                  *)
(***************************************************************************)
EXTENDS ForwardWall

VARIABLES
  job,       \* step of the job the runner is at, "off" when there is no job
  repo,      \* what is committed: anchor, wall, veto; and the cache entry
  pushed     \* history: the day each committed row was first pushed

workflow == <<job, repo, pushed>>
allVars == <<vars, workflow>>

Committed == [anchor |-> anchor, wall |-> wall, veto |-> veto, bars |-> bars]

WInit ==
  /\ Init
  /\ job = "off" /\ pushed = <<>>
  /\ repo = [anchor |-> NoAnchor, wall |-> <<>>, veto |-> <<>>, bars |-> {}]

\* A day ends; no job runs across midnight.
DayPasses == job = "off" /\ NextDay /\ UNCHANGED workflow

\* The calendar is a file of the repository: the next checkout has it.
CalendarReleased(d) == job = "off" /\ ExtendCalendar(d) /\ UNCHANGED workflow

\* A fresh runner: committed files, no base book, no factor panel, and the
\* cache entry of the month, if there is one.
Checkout ==
  /\ job = "off"
  /\ anchor' = repo.anchor /\ wall' = repo.wall /\ veto' = repo.veto
  /\ base' = <<>> /\ covered' = 0 /\ bars' \in {repo.bars, {}}
  /\ pc' = "idle" /\ toLog' = {} /\ job' = "download"
  /\ UNCHANGED <<today, calendarEnd, crashes, repo, pushed>>

\* The first run's top-up and the deep fetch of ensure_ohlcv_depth.
Download(d) == job \in {"download", "build"} /\ BarsArrive(d) /\ UNCHANGED workflow

\* Either run of run_paper_cron; it fails the job if there are no prices, and
\* exits 0 whatever its wall half does.
StartRun ==
  /\ \/ job = "download" /\ job' = "run1"
     \/ job = "built" /\ job' = "run2"
  /\ StepBase
  /\ UNCHANGED <<repo, pushed>>

GoOn ==
  /\ job \in {"run1", "run2"}
  /\ Anchor \/ StepVeto \/ Plan \/ RefuseUncovered \/ AppendGap \/ AppendOk
  /\ job' = IF pc' # "idle" THEN job ELSE IF job = "run1" THEN "build" ELSE "assert"
  /\ UNCHANGED <<repo, pushed>>

\* The last day of the new panel is that of the cache the second run reads.
\* Mutant: of the cache as it was before the download.
PanelEndStale == bars
PanelEnd == {d \in bars : IsLast(d, bars)}

\* build_ff_india_factors.
Build ==
  /\ job = "build"
  /\ \E d \in PanelEnd : BuildFactors(d)
  /\ job' = "built"
  /\ UNCHANGED <<repo, pushed>>

\* assert_wall_advanced: no trading day from the last row to today, which the
\* calendar must cover.  On a cold start with no wall it passes.
WallAdvanced ==
  wall = <<>> \/ (today <= calendarEnd
                  /\ \A e \in Calendar : ~(LastDate < e /\ e <= today))

AssertAdvanced ==
  /\ job = "assert" /\ WallAdvanced
  /\ job' = "commit"
  /\ UNCHANGED <<vars, repo, pushed>>

\* The commit needs the anchor and the wall; the push and the cache entry are
\* the job's last steps.
Push ==
  /\ job = "commit"
  /\ anchor # NoAnchor /\ wall # <<>>
  /\ repo' = Committed
  /\ pushed' = [i \in DOMAIN wall |-> IF i \in DOMAIN pushed THEN pushed[i] ELSE today]
  /\ job' = "off"
  /\ UNCHANGED vars

\* A job that cannot go on is red: its working copy is lost.
Red ==
  /\ \/ job = "assert" /\ ~WallAdvanced
     \/ job = "commit" /\ (anchor = NoAnchor \/ wall = <<>>)
     \/ job = "download" /\ bars \subseteq {d \in Days : d < Inception}
  /\ job' = "off"
  /\ UNCHANGED <<vars, repo, pushed>>

\* Any step can fail or time out, the push included.
JobFails ==
  /\ job # "off" /\ crashes < MaxCrashes
  /\ job' = "off" /\ crashes' = crashes + 1
  /\ pc' = "idle" /\ toLog' = {}
  /\ UNCHANGED <<outside, files, repo, pushed>>

WNext ==
  \/ DayPasses \/ Checkout \/ StartRun \/ GoOn \/ Build
  \/ AssertAdvanced \/ Push \/ Red \/ JobFails
  \/ \E d \in Days : CalendarReleased(d) \/ Download(d)

WSpec == WInit /\ [][WNext]_allVars

-----------------------------------------------------------------------------
WTypeOK ==
  /\ TypeOK
  /\ job \in {"off", "download", "run1", "build", "built", "run2", "assert", "commit"}
  /\ repo.anchor \in Days \union {NoAnchor} /\ repo.wall \in Seq(WallRow)
  /\ repo.bars \subseteq Sessions /\ DOMAIN repo.veto \subseteq Sessions
  /\ pushed \in Seq(Days) /\ Len(pushed) = Len(repo.wall)

\* prereg 3: an observation is published when it is known.  No trading day
\* passes between a committed ok row's session and the push that first
\* carried it, although the job saw a book of recomputed history.
PublishedOnTime ==
  \A i \in OkIndices(repo.wall) :
    \A e \in Calendar : ~(repo.wall[i].date < e /\ e <= pushed[i])

\* assert_wall_advanced.py: a green job never publishes a stale wall.  When a
\* commit is made every trading day up to that day has its row.
GreenMeansCurrent ==
  job = "commit" /\ wall # <<>> =>
    \A e \in Calendar : (wall[1].date <= e /\ e <= today) => \E i \in DOMAIN wall : wall[i].date = e

\* The runs of one job and the next, each from a fresh checkout, never leave
\* an inert veto session in the committed wall: the panel is built from the
\* cache the second run reads.
PublishedNotInert == \A i \in OkIndices(repo.wall) : repo.wall[i].veto = "vetoed"

\* Across checkouts, failures and pushes the committed wall is append-only and
\* its start is registered once.
PublishedAppendOnly ==
  [][/\ repo.anchor # NoAnchor => repo'.anchor = repo.anchor
     /\ SubSeq(repo'.wall, 1, Len(repo.wall)) = repo.wall]_allVars

\* .gitignore:128-129: paper_state.json persists "so the cloud cron resumes the
\* book instead of resetting it every day".  One resumed book has one NAV
\* history, so rows of consecutive sessions compound: each NAV is the previous
\* row's NAV moved by the row's return.
RowsCompound ==
  \A i \in OkIndices(repo.wall) :
    (i > 1 /\ repo.wall[i - 1].status = "ok"
           /\ \A e \in Sessions : ~(repo.wall[i - 1].date < e /\ e < repo.wall[i].date))
      => repo.wall[i].nav = repo.wall[i - 1].nav + Full * repo.wall[i].ret

\* What is committed was published on its day and with the veto arm live.
WorkflowInv == WTypeOK /\ PublishedOnTime /\ PublishedNotInert
=============================================================================
