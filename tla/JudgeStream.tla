----------------------------- MODULE JudgeStream -----------------------------
(***************************************************************************)
(* The informed judge: scripts/run_judge_cron.py as cron-judge.yml runs it *)
(* whenever the scanner's workflow completes, and nq/paper/judge_log.py.   *)
(*                                                                         *)
(* A run checks the branch out, calls the model once for each card of the  *)
(* envelope whose key the log does not hold, and publishes its rows in one *)
(* push at the end.  A call is paid for and its answer seen whether or not *)
(* its row gets that far.  Runs of the workflow do not overlap, and one is *)
(* over before the next scan is due.  The chain over the rows is that of   *)
(* HashChain; append_row's refusal of a second row for a key is left out:  *)
(* OneRowPerKey holds without it.                                          *)
(***************************************************************************)
EXTENDS Naturals, FiniteSetsExt

CONSTANTS Tickers,
          LastSlot,  \* bound: scans are due in slots 1..LastSlot
          MaxCalls   \* bound: calls in all

ASSUME JudgeAssumption == LastSlot \in Nat \ {0} /\ MaxCalls \in Nat

VARIABLES
  slot,      \* as-of date of the data
  offered,   \* signals_today_weekly.json on the branch; asOf 0 before the first
  judged,    \* rows of judge_log.jsonl on the branch
  queued,    \* a run of the workflow waits
  job,       \* the run in progress: its cards to do, and the rows it has added
  asked,     \* history: calls made for each key
  wasted     \* history: those whose row was never published

judgeVars == <<slot, offered, judged, queued, job, asked, wasted>>

Slots == 1..LastSlot
IssuedCard == [ticker : Tickers, since : Slots]    \* since: the card's signal_date
Key == [asOf : Slots, ticker : Tickers]
Results == {"verdict", "failed", "no chart"}
JudgeRow == [key : Key, since : Slots, result : Results]
NoJob == [open |-> FALSE, asOf |-> 0, todo |-> {}, new |-> {}]

KeyOf(asOf, card) == [asOf |-> asOf, ticker |-> card.ticker]
Keys(rows) == {r.key : r \in rows}
AllRows == judged \union job.new
AskedFor(rows) == Keys({r \in rows : r.result # "no chart"})

JudgeInit ==
  /\ slot = 1 /\ offered = [asOf |-> 0, cards |-> {}]
  /\ judged = {} /\ queued = FALSE /\ job = NoJob
  /\ asked = [k \in Key |-> 0] /\ wasted = [k \in Key |-> 0]

-----------------------------------------------------------------------------
(* What starts a run. *)

\* tier "signal" is that of a new buy card and of every card of a position held.
Envelopes == {cards \in SUBSET (offered.cards \union [ticker : Tickers, since : {slot}]) :
             \A c, d \in cards : c.ticker = d.ticker => c = d}

\* The scan pushes its envelope and completes.
Publish(cards) ==
  /\ cards \in Envelopes
  /\ offered' = [asOf |-> slot, cards |-> cards] /\ queued' = TRUE
  /\ UNCHANGED <<slot, judged, job, asked, wasted>>

\* It completes with nothing pushed, which starts the judge no less, or the
\* judge is dispatched by hand.  A waiting run is replaced by the next.
Trigger ==
  /\ ~queued /\ queued' = TRUE
  /\ UNCHANGED <<slot, offered, judged, job, asked, wasted>>

NextSlot ==
  /\ slot < LastSlot /\ ~queued /\ ~job.open
  /\ slot' = slot + 1
  /\ UNCHANGED <<offered, judged, queued, job, asked, wasted>>

(* A run. *)

\* Mutant: the log is not consulted.
TodoAll(env, rows) == env.cards
Todo(env, rows) == {c \in env.cards : KeyOf(env.asOf, c) \notin Keys(rows)}

\* The checkout is of the branch as it is when the run starts.
Start ==
  /\ queued /\ ~job.open /\ Todo(offered, judged) # {}
  /\ queued' = FALSE
  /\ job' = [open |-> TRUE, asOf |-> offered.asOf, todo |-> Todo(offered, judged), new |-> {}]
  /\ UNCHANGED <<slot, offered, judged, asked, wasted>>

\* Nothing to do, no key, no SDK, or not the pinned model.
Skip ==
  /\ queued /\ ~job.open /\ queued' = FALSE
  /\ UNCHANGED <<slot, offered, judged, job, asked, wasted>>

CallsLeft == MapThenSumSet(LAMBDA k : asked[k], Key) < MaxCalls
Called(c) == [asked EXCEPT ![KeyOf(job.asOf, c)] = @ + 1]

\* One card: no chart and no call, or one call; a row of either.
JudgeCard(c, result) ==
  LET row == [key |-> KeyOf(job.asOf, c), since |-> c.since, result |-> result]
  IN  /\ job.open /\ c \in job.todo
      /\ IF result = "no chart" THEN UNCHANGED asked
         ELSE CallsLeft /\ asked' = Called(c)
      /\ job' = [job EXCEPT !.todo = @ \ {c}, !.new = @ \union {row}]
      /\ UNCHANGED <<slot, offered, judged, queued, wasted>>

\* The script raises, before a call or between an answer and its row; the rows
\* it has are committed all the same.
GiveUp ==
  /\ job.open /\ job.todo # {}
  /\ job' = [job EXCEPT !.todo = {}]
  /\ \/ UNCHANGED <<asked, wasted>>
     \/ \E c \in job.todo :
          /\ CallsLeft /\ asked' = Called(c)
          /\ wasted' = [wasted EXCEPT ![KeyOf(job.asOf, c)] = @ + 1]
  /\ UNCHANGED <<slot, offered, judged, queued>>

Push ==
  /\ job.open /\ job.todo = {}
  /\ judged' = judged \union job.new /\ job' = NoJob
  /\ UNCHANGED <<slot, offered, queued, asked, wasted>>

\* The step runs out of its thirty minutes, which fails the job before the
\* commit, or the branch refuses three pushes: the rows go with the runner.
LoseRows ==
  /\ job.open /\ job' = NoJob
  /\ wasted' = [k \in Key |-> IF k \in AskedFor(job.new) THEN wasted[k] + 1 ELSE wasted[k]]
  /\ UNCHANGED <<slot, offered, judged, queued, asked>>

JudgeNext ==
  \/ \E cards \in Envelopes : Publish(cards)
  \/ Trigger \/ NextSlot \/ Start \/ Skip
  \/ \E c \in job.todo, result \in Results : JudgeCard(c, result)
  \/ GiveUp \/ Push \/ LoseRows

JudgeSpec == JudgeInit /\ [][JudgeNext]_judgeVars

-----------------------------------------------------------------------------
JudgeTypeOK ==
  /\ slot \in Slots /\ queued \in BOOLEAN
  /\ offered.asOf \in 0..slot /\ offered.cards \in SUBSET IssuedCard
  /\ offered.asOf = 0 => offered.cards = {}
  /\ judged \in SUBSET JudgeRow
  /\ job \in [open : BOOLEAN, asOf : 0..LastSlot, todo : SUBSET IssuedCard, new : SUBSET JudgeRow]
  /\ job.todo # {} => job.asOf \in Slots
  /\ asked \in [Key -> Nat] /\ wasted \in [Key -> Nat]

\* judge_log.py:11: "A replayed cron run must not double-log a card", whatever
\* the runs before it published, and whatever scan comes in between.
OneRowPerKey == \A r, s \in AllRows : r.key = s.key => r = s

\* 0125-informed-judge-forward.md, section 3: calls per card "exactly one",
\* under one envelope.  A card is asked about again only when the answer to
\* every earlier call was lost before it was published: no answer that counts
\* was chosen over another, and a call that failed on record is not retried.
EveryCallAccounted ==
  \A k \in Key : asked[k] = wasted[k] + (IF k \in AskedFor(AllRows) THEN 1 ELSE 0)

\* However runs are started, replayed and cut short, the log holds one row for
\* a key and every call beyond it is one whose answer was lost.
JudgeInv == JudgeTypeOK /\ OneRowPerKey /\ EveryCallAccounted

\* judge.py:10: "one independent call per card".  No card, by name and signal
\* date, has two verdicts.
OneVerdictPerCard ==
  \A r, s \in judged :
    r.result = "verdict" /\ s.result = "verdict" /\ r.since = s.since
      /\ r.key.ticker = s.key.ticker => r = s
=============================================================================
