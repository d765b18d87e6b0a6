# nifty-satvik: verification project

TLA+ models, TLC configurations and TLAPS proofs for the parts of this
repository whose correctness is a matter of *order*: what is written before
what, what survives a run that dies, what a reader is told and when. Line
numbers are those of the repository at the modelled commit; `PROJECT.json`
(`map`) ties every definition to the lines it stands for.

To repeat a check: `tlc -config MCForwardWall.cfg MCForwardWall.tla`; to repeat
a proof: `tlapm ForwardWallProofs.tla`.

## 1. The system

The repository runs systematic books on Indian equities and shows them to
readers who execute by hand on their own broker. Its parts talk to each other
through files committed to git and, in the dashboard, through a database.

```
 market data ──► paper book ──► forward wall ──► (two cron runs, assertion, push)
 (OHLCV cache,    (base+veto)    (hash chain)
  factor panel)
      │
      └────────► weekly book ──► Saturday scan ──► envelope + closed record
                                                        │
                                daily monitor ◄─────────┤ re-prices exits
                                     │                  │
                                     └──► reconciliation ◄── execution ledger ◄── readers
                                               │              (append-only rows)
                                           action items
```

The Saturday scan also feeds the weekly archive with its drift log, the
prediction ledger and, by a workflow of its own, the judge; scan and wall share
a month's price cache. The dashboard freezes each signal the first time it is
served, behind accounts whose sessions several tabs share.

### Inventory

| Part | State | Operations | What is hard | Correct when |
|---|---|---|---|---|
| **Hash-chained log** `nq/paper/forward_wall.py` | rows of a CSV, each with `row_hash` | `append_row`, `verify_chain`, `read_verified` | the file lives in git, so anybody can edit, reorder or restore it | a log that verifies is one `append_row` wrote, in date order |
| **Forward wall, daily run** `run_paper_cron.py`, `wall_cron.py`, `forward_wall_job.py` | base book, veto book, registered start, wall: four files | step, register, step, plan, gap rows, ok row | each file is a separate write and a run dies between any two; late bars; a panel that lags; a calendar that runs out | one row per trading day, in order, equal to the saved books, never revised, never reconstructed; logged in the end |
| **Forward wall workflow** `cron-forward-wall.yml`, `assert_wall_advanced.py` | checkout, cache entry, step of the job | checkout, first run, factor build, second run, assert, commit and push | a job that fails loses its working copy; the daily run swallows errors; only some files are committed | what is published is append-only, on time and current |
| **Execution ledger** `routers/execution.py`, `execution_ledger.py` | append-only table | buy, sell, correct | read-then-write with no transaction; corrections of corrections; old audit trails; restarts | every fill has one current version in its position; a sell that oversells is warned of |
| **Position maths** `execution_ledger.py:position_state` | none (derived) | fold over effective rows, demergers | late, back-dated and corrected fills; both sides of an ex-date | money is conserved; no phantom gain |
| **Weekly book and Saturday scan** `run_bhanushali_weekly_rank.py`, `run_bhanushali_cron.py` | replayed book, resting setup, closed record, envelope | session, weekly decision, publish | exits pending on a name that stops trading; several trades of one name | cards and record agree with the book |
| **Daily monitor** `run_bhanushali_monitor.py` | `weekly_monitor.json` | missed-exit report | reads last week's envelope and a cache that can be behind | reports the exits the model took, no others |
| **Reconciliation** `services/reconciliation.py` | none (derived) | `build_action_items` | a position can be held under two ids; the card leaves the envelope when the record takes over | a reader who still holds is told until the sale |
| **Paper book** `nq/paper/book.py` | saved positions, orders, closed trades, equity curve | step a session, refresh marks, save | a cron that misses days and steps several at once; bars that come late; marks written for display and saved | equal to the backtest once every session is stepped |
| **Rotation** `nq/engine/rebalance_book.py` | positions, targets, absence counts | open, absence, rank | a name that is dropped or bought while it has no quote | never stops on its own accounting rules |
| **Corporate actions** `run_bhanushali_weekly_rank.py` | one position, two files of registers and reviews | hold, review, re-base, carve out | each scan replays from inception under the files of its day | no phantom loss; R is money |
| **Price cache** `run_bhanushali_cron.py:_refresh_ohlcv`, `run_paper_cron.py`, `nq/data/history_guard.py` | the month's cached bars of a name | wall top-up, scan top-up, full fetch, guard, rebuild | two jobs refresh one cache and only one looks for splits; answers that do not come | no published series mixes bases; an open trade is not lost |
| **Weekly archive, drift log** `archive_weekly_snapshot.py`, `check_history_drift.py` | write-once directories, drift rows, declarations | archive, compare, check | reruns of a date; which directory is the predecessor | every rewrite of the past is logged, and red until declared |
| **Prediction ledger** `nq/brain/predictions.py`, `run_prediction_producer.py` | forecasts and resolutions, chained | produce, resolve | scans in the middle of a week; one bad row stops every later run | one forecast to a card, one resolution, of a price that came later |
| **Signal snapshots** `services/signal_snapshots.py` | one chained table | look up, freeze a batch | requests that freeze at once on one tail; a batch refused as a whole | the first version served is frozen |
| **Judge** `run_judge_cron.py`, `judge_log.py`, `cron-judge.yml` | log of verdicts, the waiting run | trigger, call, log, push | runs replayed, queued, cut short; a push that fails after calls were paid for | one row to a key, no call unaccounted for |
| **Sessions** `auth.py`, `api.js`, `AuthContext.jsx` | refresh-token rows, a browser's storage, requests in flight | login, rotate, log out, revoke all, deactivate | two tabs on one token, lost answers, replay detection, handlers that read before an ending and commit after it | what is revoked stays revoked |
| **Sign-in** `auth.py` | failure count, lock, second factor of a user | login, set up, verify, disable | handlers that decide on a row they loaded earlier | a lock took five failures; a factor in force was verified |
| **Access requests** `routers/access_requests.py`, `auth.py:register` | forms, users | submit, approve, reject, register | races between forms, decisions and registration; aliases of one address | one account and one pending form to a person |
| Other simulators, model wall, forward wall audit, discipline score, broker orders, NAV history, price stream, data access, clients, read-only routes, scheduler health, market data, research, frontend | caches, files | | thin, dormant, external, numerical or presentation | not modelled, see section 8 |

The hazards these parts are exposed to, each at its line, are in
`PROJECT.json` (`hazards`) with the property that would catch it.

## 2. The modules

| Module | Models | Built on |
|---|---|---|
| `HashChain` | the chain and edits behind its back | – |
| `ObservationLog` | *abstract*: a daily record sealed in date order | – |
| `ForwardWall` | the daily run, file by file | implements `ObservationLog` |
| `WallWorkflow` | the scheduled job: checkout, two runs, assert, push | EXTENDS `ForwardWall` |
| `FillBook` | *abstract*: every fill has one current version | – |
| `ExecutionLedger` | the three handlers over the table | implements `FillBook` |
| `PositionState` | the fold that turns rows into a position | EXTENDS `ExecutionLedger` |
| `WeeklyBook` | one name in the weekly book, and the scan | – |
| `ActionItems` | envelope, monitor, reader, reconciliation | EXTENDS `WeeklyBook` |
| `HeldPosition` | one position of the weekly book across a demerger, beside its undivided twin | – |
| `PriceCache` | one name in the cache that scan and wall share | – |
| `PaperBook` | the paper book under its cron, beside the backtest | – |
| `RebalanceBook` | the rotation's positions, targets and absences | – |
| `WeeklyArchive` | dated snapshots, drift log, its check | – |
| `PredictionLedger` | forecasts and resolutions | – |
| `SignalSnapshots` | requests that freeze signals at once | – |
| `JudgeStream` | the judge's workflow, calls and log | – |
| `Sessions`, `SignIn`, `AccessRequests` | refresh tokens; lock and second factor; how accounts come to be | – |
| `OrderLemmas` | for the proofs: least and greatest elements, iteration over a finite set and sums, ranks in an order, the chain of values a fold passes through | – |
| `ForwardWallProofs`, `WallWorkflowProofs` | theorems of the module they are named after | |
| `ExecutionLedgerProofs` | theorems of `ExecutionLedger`, `PositionState` | |
| `RecordsProofs` | theorems of `HashChain`, `WeeklyArchive`, `SignalSnapshots`, `PredictionLedger` | |
| `BookProofs` | theorems of `RebalanceBook`, `PriceCache`, `HeldPosition`, `PaperBook` | |
| `ReadersProofs` | theorems of `ActionItems` with `WeeklyBook`, `JudgeStream` | |
| `AccountsProofs` | theorems of `Sessions`, `SignIn`, `AccessRequests` | |
| `MC*` | instances for TLC | |

### HashChain

`log` is the file, a row is its payload and its `hash`. SHA-256 is taken to be
collision free, so a digest is identified with what it commits to: the sequence
of payloads up to its row. `AppendRow` is `append_row` with both refusals
(broken chain, date not after the last). `Rewrite`, `Reorder` and `Delete` are
what a person, a merge or a restored commit does to the file; a deleted last
row is an older version of the file coming back. `histories` is a history
variable: every sequence of payloads `append_row` ever produced.

### ForwardWall

`base`, `veto`, `anchor`, `wall` are `paper_state.json`'s equity curve, the veto
book's, `forward_wall_start.json` and `forward_wall.csv`. `pc` is where the run
is, so that `Crash` can come between any two writes:

| Action | Code |
|---|---|
| `StepBase` | `run_paper_cron` loads the book, steps every session after the last one stepped, saves |
| `Anchor` | `_wall_start`: read the registered start or write it once; before the pre-registration the wall half is skipped |
| `StepVeto` | `_step_veto_book`; without a panel it raises and the wall half is skipped; past the panel a step is inert |
| `Plan` | `update_wall`: unlogged sessions of both books, the liveness guard on all of them, then the newest (all under `--allow-wall-backfill`) |
| `RefuseUncovered`, `AppendGap`, `AppendOk` | `record_trading_day`: refuse past the calendar, one gap row per missed trading day, the ok row with the drift multiplier |
| `NextDay`, `ExtendCalendar`, `BarsArrive`, `BuildFactors` | the world: days, releases of the holiday list, the cache, the factor build |

A bar may arrive after its successor was stepped; the calendar may differ from
the days the exchange did trade (an unscheduled closure, a special session).
Prices enter as the NAV after each session, on a log scale, so a return is a
difference; exposures are halves, so amounts are integers. `HashChain` models
the chain, so here a row is its payload. `signals_today.json` and wording are
left out.

### WallWorkflow

A job is a fresh checkout of `repo` (anchor, wall, veto book), an empty base
book and no panel, because `paper_state.json` and the panel are not committed,
and the month's cache entry or none. It downloads, runs the daily program,
builds the factors, runs it again, asserts, commits and pushes; any step can
fail (`JobFails`), and `Red` is a job that cannot go on. Jobs do not overlap
(the concurrency group) and end on the day they start. `pushed` is a history
variable: the day each row was first published.

### ExecutionLedger and PositionState

`events` is `execution_events`; a row's id is its index. `record_event` commits
one row, so `RecordBuy` and `RecordCorrection` are one step each, while the sell
handler reads the position (`ReadSell`) before it writes (`RecordSell`) and
other handlers run in between. `Restart` loses requests in flight. `trace` and
`warned` are history variables: which fill a row reports on and how much of the
table its handler had seen; which responses carried the warning. The two flags
are about readers: `StaleTrail` lets them correct a row that is superseded
already, `SelfDated` lets reports carry `executed_at`. Notes, tranches and
tickers are left out: nothing in the maths reads them.

`PositionState` is the fold of `position_state` over any table the ledger can
reach: the phase of a fill around the demergers, the sort, the running average,
the re-basing, realized P&L and the cost basis shown. Its amounts are exact
fractions: integers, `per` of them to the rupee, and a division (an average, a
retained share) makes the unit finer (`Finer`) and loses nothing. Rounding to
two decimals and realized R are left out.

### WeeklyBook and ActionItems

One name. Each scan replays the book from inception, so the book is a function
of the sessions seen and advances with them. A resting setup may fill at an
open; a weekly close may set up a buy and may decide an exit, whole or in part,
that fills at the name's next open; a held name without a bar for
`stale_absent_days` sessions is closed. Prices only decide which of these
happens, so they are choices. `Scan` publishes `envelope`: buy card, hold card
with its exit, and the closed record.

`RunMonitor` is the daily run of the monitor, `build_missed_exits_report` over an envelope that may be a week
old and a cache that may end behind the name's last bar. `MarkBought`
and `MarkSold` are the reader, who may record a buy under the id of the setup or
of the entry. `Missed`, `StaleHold` and `Told` are `build_action_items`.

Left out: ranking across names, sizing, cash, NAV, mid-week scans, sells of a
part of the shares, the intra-week flags with SELL_DUE (they restate a price
against a level), UNTAKEN_BUY (no weekly buy card carries the actionability it
asks for, `reconciliation.py:153-160`). Corporate actions are in `HeldPosition`.

### HeldPosition

One position of the weekly book under the live exit plan: 40% at a resting
limit at 2R, 40% at the next open after a blow-off week (armed at 2.5R), the rest until a
weekly close below the average, the stop on the weekly close, and the close of
a suspended name. `Bar` is one session with a bar, in the order of the loop:
re-base, mark, open check, pending fill, limit, close check, weekly decision.
`NoBar` is a session without. Since each scan replays from inception, a
behaviour is one replay: `filed` (the demerger is in the register and in the
prices as a cliff, in the register and smoothed away by the vendor, or missing
from it) and the reviews are fixed and bars come in. `whole` is the twin: the
same position in a name that was never divided.

Assumed: the ratio in the register is right (a wrong one ends the scan), the
bar of the ex-date moves by the demerger alone and opens no higher, the owner
does not review a demerger as a genuine move, one demerger after the entry,
ratio 1/`Split`. The averages of the runner's exit are the choice `broken`.

### PriceCache

The bars of one name in the cache of a month. `basis[d]` is the set of ex-dates
the cached bar of day d is adjusted for; a bar is stale when the vendor has
re-based it since. `WallRun` tops up the last sessions without comparing;
`Scan` tops up, compares the first common date, fetches the whole series when
that differs, and passes the history guard and the rebuild; it may be skipped,
halt, fail late, publish without saving the cache, or get no answer for the
name. `NextDay` brings an ex-date, a cut of the series (`served`), the roll of
the month. `spliced` records the ex-dates across which a published series was
mixed, `lost` the months in which a scan lost its work.

### PaperBook

`saved` is the book the cron loads, steps and saves, `backtest` the one
`simulate` would have at the same session; both use the same `Session`, on the
bars each could see. `Cron` steps every session not stepped yet, in one run,
and refreshes the marks; a bar may come after the run that needed it (`late`).
A bar is the first exit rule it meets.

### RebalanceBook

`absent` holds the positions with the sessions they had no quote for, `targets`
and `zeros` what the last ranking wants and wants sold. `Trade` is a session
(which names are quoted is a choice), `Rerank` a rebalance. `CapHolds` and
`AbsenceWindow` are the conditions on which the engine raises.

### WeeklyArchive, PredictionLedger, SignalSnapshots

`WeeklyArchive`: `record` is the closed record, which any scan may rebuild
differently; `Run` archives it in `dirs` (a rerun of a date gets a stamped
directory), compares it with the predecessor by name and appends to `drift`;
`Declare` is the reviewed list of known rewrites; `green` is the outcome of
the check. `PredictionLedger`: `touch` is the price path, an input; `Produce`
forecasts the cards of the last closed week that have none, unless they are
days old, and resolves what has been touched, in ledger order, until a row raises.
`SignalSnapshots`: a request takes the tail (`Serve`), looks the signals up one
by one (`Look`) and commits its batch (`Finish`), which the unique signal id or
an outage refuses as a whole; the answer is served all the same.

### JudgeStream

`Publish` is a scan that pushes its envelope; `Trigger` is one that completes
without a push, which starts the judge all the same, or a run started by hand. One run goes on and one waits (`queued`),
the newest replacing it. `Start` reads the envelope and log of the branch,
`JudgeCard` is one paid call, `Skip`, `GiveUp`, `Push`, `LoseRows` are the ends
of a run. `asked` counts calls for each key, `wasted` those whose row was lost.

### Sessions, SignIn, AccessRequests

Every handler runs on a thread of its own with its own database session, so
what it reads and what it commits are two steps and others come in between.
`Sessions`: `rows` are the tokens of one user, `store` what the browser keeps,
`calls` the exchanges in flight; `Ask`, `Check`, `Rotate`, `SoundAlarm`,
`Refuse`, `Receive`, `Lose`, the logout in two halves, and the endings
`ResetPassword` and `Deactivate`. `begun` holds the logins that have read the user
(`BeginLogin`, `auth.py:324-373`) by the endings there had been; `Login` commits the
token of one of them, at once or after a second factor (395-417, 804-821), without
looking at the password again. A row's `since` is what its handler had read under,
`born` what it was committed under. `Clear` empties the storage, by the user's hand
or by a broadcast of another tab's logout, heard however late. `refreshAuth`
(`AuthContext.jsx:497-521`) is called by no component and is left out.

`SignIn`: `Load` and `Commit` of each operation on the row of a user; a commit
writes the columns it changed.
`AccessRequests`: `ReadSubmit`, `ReadRegister`, `ReadDecision`, then `Conclude`.
`crossed`, `dropped`, `left`, `mixed` and `overtaken` are history variables:
which tokens two calls held, whose answers were lost, who logged out, which
decisions were made on a row that had changed.

## 3. The runs

Components that share no state are checked in one run: its `part` says which of
them moves in a behaviour, so the state count is a sum and not a product. An
invariant named `...Inv` is the conjunction of the named parts above it in its
module.

| Run | Bounds | Shows |
|---|---|---|
| `forward_wall` | 5 days, `FairSpec`, 1 crash; 181 thousand states | the wall is an honest record of the saved books (`WallInv`, `HonestRows`, `NoReconstruction`), is append-only, implements `ObservationLog`, and reaches the newest session in the end (`EventuallyLogged`) |
| `wall_workflow` | 5 days, 1 failure; 1.1 million states | what is pushed is append-only, on its day, current, never inert |
| `workflow_resume` | 2 days | **violation**: committed rows do not compound |
| `execution_ledger` | 4 rows, 2 positions, 2 handlers, symmetry, the last row may be of a later day | one current version of each fill; a sell that leaves its position short carries its own warning unless another row took shares between its read and its write (`SilentOversellIsARace`); implements `FillBook` |
| `ledger_stale_trail` | 3 rows | **violation**: a fill counts twice |
| `position_restated` | 3 rows | **violation**: buy, sell, the buy corrected with its own figures: the whole sale becomes a gain |
| `readers`: positions | 4 rows, 2 days, 1 demerger; 80 thousand states | money is conserved, the basis of buys first is theirs (`PositionInv`); in a flat market only sells that find no share held realize anything (`FlatMarketRealizesNothing`) |
| `readers`: items | 6 sessions, 3 weeks; 326 thousand states | a reader is told of the exits the monitor could price, of the right one (`ItemsInv`, `MissIsTold`), and until the sale (`StaysTold`) |
| `readers`: judge | 2 names, 2 scans, 2 calls; 93 thousand states | one row to a key, every call beyond it one whose answer was lost (`JudgeInv`) |
| `items_flat` | as items | **violation**: told to sell what the model still holds |
| `judge_twice` | as judge | **violation**: a held card gets a verdict at every scan |
| `records`: chain | 3 dates, 2 values, 3 rows, 2 edits | a log that verifies was written by `append_row`, in date order (`ChainInv`) |
| `records`: archive | 1 trade, 3 as-ofs, 4 runs | no snapshot is overwritten (`ArchiveInv`); a scan of a later date logs every rewrite (`RewriteIsLogged`) and is green only if it was declared (`GreenIsDeclared`) |
| `records`: predictions | 2 stocks, 2 weeks of 3 days, every price path | one forecast, one resolution, by no price older than the stamp, nor of the stamp's session unless the scan was in the middle of a week (`PredictionInv`); only a back-dated forecast keeps a decided one open (`OnlyBackdatedBlock`) |
| `records`: snapshots | 3 signals, 2 requests, 2 editions, 1 outage | one snapshot to a signal, the chain breaks only by a race, a shown signal is frozen unless its batch was refused (`SnapshotsInv`); one that is asked for again and again is frozen (`EverySignalFrozen`) |
| `records`: paper | 5 sessions, 2 names, 1 slot, up to 2 sessions between runs, late bars; 218 thousand states | slots and ages (`PaperInv`); the stepped book equals the backtest (`SameBook`) |
| `records`: rotation | 4 names, top 1, kept to 2, absence 2 | the engine never stops on its own rules (`RebalanceInv`); what was dropped leaves or is wanted again (`DroppedLeaves`) |
| `records`: prices | 10 days over a month's end, 1 split, 1 cut | no mixed series is published but in a month that lost a scan (`PricesInv`, `SplicesAreLost`); an open trade is lost only to a cut that passes the guard (`TradeKept`) |
| `records`: position | 4 bars, 3 levels, 1 demerger | R is money and the card agrees with the position (`HeldInv`); an unregistered demerger is no phantom loss and a registered one is the undivided trade with a carve-out (`DemergerInv`) |
| `trade_erased` | as prices | **violation**: a cut series passes the guard and loses its open trade |
| `accounts`: sessions | 1 browser, 2 callers, 3 tokens, 2 endings, any number of logins under way; 1.7 million states | what is revoked stays revoked but for what a login or an exchange under way writes (`SessionsInv`); alarms, twins and tokens that survive a logout have a race or a lost answer behind them (`RotationInv`) |
| `accounts`: sign-in | 2 requests, a lock after 2 failures, 2 secrets; 568 thousand states | a lock took its failures and a factor in force was verified (`SignInInv`) |
| `accounts`: access | 2 handlers, 2 forms, 2 addresses of one person; 119 thousand states | one account and one open form to a person (`AccessInv`) |

Why the bounds are enough. *Chain*: with three rows there is a first, a middle
and a last one; two edits allow an edit that is undone or covered by another.
*Wall*: Calendar {1,2,3,5} against Sessions {1,2,4,5} has a closure the
calendar does not know, a special session it does not list, a day after both,
and a published calendar that ends on day 4; `Window` 1 puts the drift rule at
its boundary from the second row on, NAVs {0,1} give gains, losses and ties; one
crash reaches every pair of writes. The workflow uses a calendar whose last day
is past its end, so that assertions fail for want of a release. *Ledger*: a
correction of a correction needs three rows, a race on top of it four.
*Positions*: buy, sell, buy, correction, on both sides of one ex-date. In
`MCPositionState` requests are handled one at a time (`Serial`) and at most one
is dated back (`FewDated`): the fold reads rows only, so interleavings add
nothing there and `execution_ledger` explores them. *Action items*: week ends {1,3,5}
and one session more are an entry, a part exit, a whole exit, a new setup and a
new entry of one name; what fills in the last session is seen by the monitor and
not published any more; suspensions last
two sessions, the lookback is three, a run's date lags by at most one. *Judge*:
two as-of dates make a card held over a scan, two calls a retry; by hand also
with four calls (719 thousand states). *Archive*: as-ofs {7,14,28} sort as
strings as the directory names do; four runs are a rerun of a rerun and its
successor. *Predictions*: two weeks are two setups of a name, three days
leave room for a scan in the middle of a week. *Snapshots*: batches of three that overlap in part.
*Paper*: MinHold 2, MaxHold 3, StaleDays 2 are the exits in every order; a
missed run makes one that steps two sessions. *Rotation*: TopN 1 under KeepTo
2 has a name that is kept but would not be bought. *Prices*: the code's windows
(25 and 15 days, a month) are scaled to 5, 3 and 8 days with a week of 2, so
that a scan's window covers a wall window and a week, and a month is longer
than both, as in the code; 57 weeks for a signal against the guard's 45 are 9
against 8. *Position*: levels 88 (under the stop of 90), 100 (the entry) and
130 (past 2R and the arming at 2.5R); four bars are entry, a tranche, the
ex-date and its exit; by hand also with five (45 thousand states). *Sessions*:
three tokens are a login, its child and either a twin, a grandchild or a second login;
two endings let a handler miss one and see the other, and a login whose answer the
browser does not hear stands for one in another browser. Two values stand for the callers,
the sign-in requests and the handlers of access requests, which never move together;
states are told apart (`Matters`) by what is still read: the logins that have begun
only as long as a token is left for one, and what a row's handler had read only as
long as no ending has come since.

`CHECK_DEADLOCK FALSE` is set throughout: the models stop at their bounds
(`MaxDay`, `LastDay`, `MaxRows`, `MaxEdits`, `MaxEvents`,
`MaxCrashes`, `MaxRuns`, `MaxTokens`, ...), where a finished
history has no further step. `EventuallyLogged` is what rules out stopping
early in the daily run.

## 4. Fairness

The daily run (`FairSpec`):

- `WF(NextDay)`: days pass.
- `WF(Run)`: the scheduler keeps starting runs and a started run goes on. Runs
  that die are bounded by `MaxCrashes`; without the bound a run that dies every
  day logs nothing.
- `SF` of the world's actions (calendar releases, bars, factors): these happen
  between runs, and a run is almost always possible, so they are enabled again
  and again and never for good. Each can happen only finitely often, so strong
  fairness of their disjunction exhausts all three: what is assumed is that the
  vendor delivers, the factor build is repeated and config.py is released.

`EventuallyLogged` fails without the third item, and rightly: with no factors or
no calendar the code refuses every row by design.

The records (`RecordsFairness` repeats these for the parts of its run):

- `PredictionSpec`: sessions follow each other and the producer runs again and
  again, because the scan is scheduled weekly.
- `SnapshotsSpec`: `WF(Answer(r))`: a request that was taken up is answered.
  Nothing makes a reader ask; `EverySignalFrozen` is about signals readers keep
  asking for.
- `RebalanceSpec`: `WF(RebalanceNext)`: the simulation walks through every
  session of its panel.

## 5. What is proved

The proofs hold for every value of the constants under the named assumptions of
the modules: any calendar and sessions, any window and NAVs, `Backfill` on or
off, any number of crashes, users, handlers, rows, names. The assumptions say
that bounds are numbers and that sets of names, signals and stocks are finite;
the ones that say more are named below. Each proof has the same shape: an
inductive invariant (`...IInv`), that the initial states satisfy it, one lemma
for each action, and what follows from it; what is told below is why the
invariant has to say more than the property.

*The wall*

**HashChain** (`RecordsProofs`). `VerifiedLogIsHistory`, `VerifiedLogIsOrdered`,
`AppendExtendsHistory`, `ChainIsSound`. The invariant (`HashInv`) does not follow the rows,
which anybody may edit, but the digests: every digest stored in the file was
produced by some `append_row`, and everything `append_row` produced is in date
order. It is needed because verification itself is not invariant: an edited
file does not verify, and a later edit may make it verify again.
`DigestIsPrefix` then says that in a log that verifies the digest of row i
spells out all payloads up to i, although `verify_chain` looks at neighbours
only; since no induction schema can be instantiated, it is proved by the least
row for which it would fail (`OrderLemmas`).

**ForwardWall** (`ForwardWallProofs`). `TypeCorrect`, `WallStaysOrdered`,
`StartIsRespected`, `NoTradingDaySkipped`, `RowsAreNeverRevised`,
`WallImplementsLog`, `NothingIsReconstructed`, `RowsAgreeWithBooks`,
`ExposureIsFromTheLog`: every safety property of the run, and
`WallIsARecord` and `WallIsHonest` join them as the run checks them. Order and gaps are
not inductive alone: the inductive invariant adds what a run knows in each phase (`RunInv`): the start is
registered once the veto book is stepped and whenever the wall has rows; there
are sessions to log only in the last phase, and all of them are past the last
row and not before the start. That is what lets a run that dies between two
gap rows be repeated. `WallSteps` says what any
step does to the wall (nothing, or one later row); `RowsAreNeverRevised` and the
refinement (`AppendSeals`: an appended row is a `Seal` step of `ObservationLog`)
follow from it. Three more theorems relate the rows to the books.
`NothingIsReconstructed` rests on `FreshInv`: the veto book never runs ahead of
the base book, so stepping it reaches the newest base session, and that is the
one a run plans to log; without that conjunct a run could plan an older session
that both books share. `RowsAgreeWithBooks` holds because neither book ever
revises a session (`RetIsFinal`: a return does not change when later sessions
are stepped), `ExposureIsFromTheLog` because the rows above a row never change
(`RowsAbove`).

**WallWorkflow** (`WallWorkflowProofs`). `WorkflowInvariant`,
`GreenJobsAreCurrent`, `CommitsAreNeverRevised`, and under `~Backfill`
`RowsArePublishedOnTime`, `CommittedVetoIsLive`, `WorkflowIsHonest`. The proof
rests on the one of `ForwardWall`: within a job the daily program takes its
steps, so its invariant holds between a checkout and a push; what is new is
that every working copy continues the committed wall (`Continues`), the one a
failed job has left included, and that the panel is absent until it is built
and then as new as the cache (`PanelInv`), which is why no veto session of a
job is inert. On time means that a job adds at most one observation, its last
row (`OneRow`), which needs `~Backfill`: the flag is there to log the past.

*Ledger and readers*

**ExecutionLedger** (`ExecutionLedgerProofs`). `TypeCorrect`, `FillsNeverVanish`,
`LedgerIsComplete`, `OversellsAreWarnedOf`, and under `~StaleTrail`
`OneRowPerFill` and `LedgerImplementsBook`. The invariant
`Chained` says that a row reports on a fill of its own position that was
reported no later, and that a correction names an earlier row of that fill and
position. The greatest row of a fill's chain is then current
(`LastOfChainIsCurrent`). `~StaleTrail` is an assumption of two
theorems because the code does not ensure it: see `ledger_stale_trail`.
`OversellsAreWarnedOf` is about a sum over the rows of a position. A fold over
a finite set is the value of an iteration (`IterateExists`, `IterateUnique`),
and one that adds a number for each element takes the same value in whatever
order it picks them (`SumsAgree`), so a new row adds what it says (`SumStep`).
The property counts what the position held when the table had i rows (`HeldAt`), and
asks of each row that took shares and left less than nothing: its own warning, or
a row that took shares after its handler had read. The invariant adds `Told`: the warning
of a sell in flight is the one owed for what the position held when the table was
as it had read it. Such counts do not change as rows are added (`RowStays`), and
without a row that took shares they only go up. Of a correction nothing is asked:
`/correct` never warns.

**PositionState** (`ExecutionLedgerProofs`). `MoneyIsConserved` and
`NoPhantomGain`, for any fills and prices, any demergers in order of their
ex-dates, any corrections. They are about what one reading of the table
computes, so they need of the ledger only `TypeOK`; the induction is along the
walk. The sort ranks the rows by how many come before them, each rank is taken
once (`RankIsPlace`), and so the walk meets every effective row once and in
phases that never go back (`OrderIs`). A fold passes through a chain of values,
one for each element (`ChainExists`), along which an invariant is carried
(`ChainStays`). `EveryRupeeAccounted` carries `Balanced`: what was paid less
what left with spun-off shares is the cost held plus the proceeds less the
gain, and no cost without shares. `BasisOfBuysFirst` also carries `Based`: the
average of all buys is that of the shares held until a buy follows a sell.
`FlatMarketRealizesNothing` carries `AtWorth`: every share held costs what a
share is worth in the account's phase, which holds because a credible fill at
the flat price is put in the phase its price belongs to, however late it was
reported. It allows a position that went short, and so has to say what a sell with no
share held realizes (`unheld`): against the average of all buys, or against nothing
before the first of them. The assumptions say what the code checks: prices are positive
(`routers/execution.py:95, 104, 118`), what is retained is more than nothing
and at most all (`execution_ledger.py:99`), and demergers are sorted by date.
That the price before the ex-date is positive is assumed, too; without one the
code does not date by price.

**ActionItems, WeeklyBook** (`ReadersProofs`). `ItemsInvariant`, `ItemsAreSound`, `ExitsAreTold`,
`MissesStayTold`, for every calendar, lookback and lag. An exit that waits was
decided at the end of a week after which the name has not traded, so no later
week closes over it and a card that says sell is followed by the sale
(`ExitWaits`, `Published`); without that a later scan could take the exit back
that the monitor has reported. What the monitor found over the envelope that is
still the last is what it would find today (`MonitorRead`).

**JudgeStream** (`ReadersProofs`). `EveryCallCounts`, for any names, scans
and calls. The invariant joins `JudgeInv` with what a run knows while it goes
on: the cards to do are one for a name and not in the log (`OneCardEach`,
`TodoIsNew`), the rows it holds are of none of them (`NewIsNew`), and between runs
there are none (`ClosedIsEmpty`). It holds without the duplicate guard of
`append_row`, which the model leaves out.

*The books*

**PaperBook** (`BookProofs`). `BooksKeepTheirSlots` and `SavedBookIsBacktest`,
for any finite set of names, slots, ages, and spacing of the runs. After session c a position is as
old as its entry says, and positions and orders together fit the slots
(`BookAt`); both must be known of the saved book at the session it was stepped
to, which lies behind the last one that closed. A run folds the session over
all that wait; `FoldIsSteps` turns the fold into a chain of books one session
apart. `SameBook` speaks of moments at which nothing waits and is not
inductive: what is (`Replays`) is that the sessions that wait would make of the
saved book one that matches the backtest. Two books match when they differ in
nothing but whether a mark is the fill of the day of entry or its close. A
session keeps that (`SessionMatches`), whatever it does with stale prices, and
so does refreshing the marks, because after a session every quoted position is
marked in it (`MarkedToday`).

**RebalanceBook** (`BookProofs`). `BookTypes`, `EngineNeverStops`,
`AbsentAreClosing`, `DroppedAreSold`, `RotationKeepsItsRules`, for any universe,
cap and absence window. The invariant adds `TargetsFit`: no
ranking wants more names than the buffer holds. After a session every quoted
position is one that is wanted, so the wanted bound the quoted; a name that was
dropped while it had no quote is not counted, and leaves when it is quoted again.

**HeldPosition** (`BookProofs`). `HeldInvariant`, `PositionBooksBalance`,
`DemergerIsExact`, for any entry, split, levels and path of bars. A position is good
(`Good`) when its weight is its shares', its levels are the entry's in its own
unit and the tranches its flags name are those that have left; everything a bar
does keeps it so. The demerger is a simulation: at its ex-date a registered
position becomes the undivided one counted in another unit (`Alike`), one bar
seen in the two units does the same to both, and R, a mean over the
tranches, comes out the same (`Mean`). The products of weights and prices are
moved by a handful of arithmetic lemmas, each about numbers alone.

**PriceCache** (`BookProofs`). `CacheIsSound`, `SplicesNeedALostScan` and
`TradesAreKept`, for any windows, month and week that satisfy `PriceAssumption` (a scan's window
covers the wall's and a week), any number of splits, any days of a cut. `PricesInv` is itself inductive. A working scan
leaves no stale bar and has the whole of its window; the first day of the next
scan's window then lies before whatever the wall may re-base until that scan,
so that day tells (`FirstTells`); a published mix needs a scan that was lost.
`TradesAreKept` needs to know where the bars of a cache can come from
(`InParts`): the whole history before the first run, or this month's windows
and the series as the vendor has cut it. With the whole history the rebuild
finds every trade (`DeepFinds`); windows alone have too few weeks for the guard
(`FewWeeks`); so a trade that is erased was cut off, with weeks enough left
(`LostToACut`). `WeeksAssumption` gives the two facts about lengths: the history
before the first run is long enough for a signal (520 days by default,
`run_bhanushali_cron.py:802, 1215`), and a month with a window spans fewer weeks than the guard asks for, which 31
and 25 days do by far for 45 weeks (`history_guard.py:28`,
`run_bhanushali_cron.py:804`).

*The records*

**WeeklyArchive** (`RecordsProofs`). `ArchiveInvariant`, `ArchiveIsSound`, `EveryRewriteIsLogged`,
`GreenMeansDeclared`, for any trades, dates and reruns. What is published is
what the last snapshot by name holds (`Published`), and a date has its plain
snapshot before its reruns (`PlainFirst`): without the second the rerun of a
date could sort after a snapshot that does not exist yet, and the predecessor a
scan compares with would not be the record it replaces.

**SignalSnapshots** (`RecordsProofs`). `SnapshotsAreSound`, for any signals, requests and
outages. A request in the middle of its work has looked at every signal before
its todo, and those that have a card are frozen or in its batch (`Looked`); the
batch is chained from the tail it read, which another may have moved since
(`ChainedTo`): the one way in which the chain breaks.

**PredictionLedger** (`RecordsProofs`). `PredictionsAreSound`, for any finite set of stocks and any
price path. A card is fresh only while no forecast names it, and among the
cards of one run no two are the same. A forecast is stamped at or after its setup and a
path begins after the setup; so when the two are one session the outcome is
strictly later, and when they are not the refusal of `append_resolution` is all
that keeps order, which allows the session of the stamp itself.

*Accounts*

**Sessions** (`AccountsProofs`). `SessionTypes`, `EndingsHold`,
`SessionsAreSound`, `RotationInvariant`, `RotationIsSound`, for any number of browsers, callers, tokens and endings.
`EndedStaysEnded` is about what is in the table; its induction also needs what
is in flight. `ChecksHold` says what a handler knows between its read and its
commit: unless sessions were ended since, its token was minted after the last
ending. `ParentsThere`: a token's parent is a row. `NothingAhead`: no login and no row
claims more endings than there were, so a login that began before the last one
leaves `since` behind. Those are what outlives an ending: `EndingsHold` names a login
or an exchange that was under way, and nothing besides. `RotationInv` explains
alarms: a token is in one browser, the calls that hold one token have crossed,
and a token that was used up is held by the call that used it or was in a lost
answer; so an exchange that finds its token used up was crossed, or an answer of
its login was lost.

**SignIn** (`AccountsProofs`). `SignInIsSound`, for any number of wrong passwords and
handlers. A handler goes on only with a row its checks let through
(`Admitted`); as long as no attempt was counted on a stale row, the count is
that of the wrong passwords (`Counted`).

**AccessRequests** (`AccountsProofs`). `AccessIsSound`, for any addresses, people and
handlers. A decision is about a form, whose address does not change
(`InFlight`); a second open form of a person takes two handlers that both read
before either wrote.

**What the attempts changed.** `Reason` of `PaperBook` was a nested CASE whose
guards overlapped, so it did not say which exit rule comes first; it is
now the order of `decide_exit`. `StaysTold` had to say which sale a reader is
owed (one that was published whole, `Owed`) and which runs may pass over it
(those that cannot price the trade, `Sighted`). Some assumptions were missing:
that the sets of names, signals and stocks are finite (orders, batches and
cards are enumerated), that sessions are counted from one, and
`WeeksAssumption`. `PositionState`
counted in a unit in which the bounds of its run leave every division exact;
its properties would not hold for all fills that way, and it counts in
fractions now.

**Only model-checked.** Every safety property of a passing run is stated by a
theorem. Out of the prover's reach are liveness and `ENABLED`
(`EventuallyLogged`, `OnlyBackdatedBlock`, `EverySignalFrozen`, `DroppedLeaves`);
they and what the violation runs refute stay with TLC.

## 6. Findings

Each is a run in which the code violates what the repository says of it.

1. `workflow_resume`. `.gitignore:128-129` says `paper_state.json` must persist
   across cron runs so that the book is resumed. The workflow does not commit it
   (`cron-forward-wall.yml:124`), so each job steps the base book again from
   cash, on prices as they are that day, and committed rows do not compound.
   `results/forward_wall.csv` has such rows.
2. `ledger_stale_trail`. `record_correction` asks that the corrected row exists,
   not that it is current (`routers/execution.py:163`): correcting a row twice
   leaves two current rows for one fill.
3. `position_restated`. A correction without `executed_at` is dated by its own
   creation (`execution_ledger.py:91`), so it sorts after the sells recorded
   since. A share bought and sold at 100 has realized nothing; when its buy is corrected
   with the same figures, the sell comes first, is booked against an average of
   nothing (line 187), and realizes 100.
4. `items_flat`. Every EXIT_REQUIRED card counts as a whole exit
   (`run_bhanushali_monitor.py:361`), the pattern tranche included, so a reader
   is told that the model is flat while it keeps the runner.
5. `trade_erased`. The history guard asks for 45 weeks
   (`history_guard.py:28, 87`) where a signal needs 57
   (`run_bhanushali_weekly_rank.py:287, 387`), so a series the vendor has cut
   can pass it and lose its open trade. Its third test compares with a cache
   that a merge never shortens, and cannot fire.
6. `judge_twice`. The judge takes every card of tier `signal`
   (`run_judge_cron.py:167`), and a held position's card has that tier, so one
   card is judged at each scan. `results/judge_log.jsonl` has such rows.

Divergences seen while modelling and not kept as runs, by component.

*Wall*
- No gap rows are written between the registered start and the first row
  (`forward_wall_job.py:93` against its docstring, lines 11-12).
- `drift_equity` skips the returns of gapped sessions (`forward_wall_job.py:100`
  against `forward/prereg.md:29`).
- A daily run repeated by hand after the panel was extended outside the workflow
  can log inert veto sessions (`wall_cron.py:122`).

*Ledger, positions, items*
- A sell that was reported before its buy realizes all it fetched, at an average of
  nothing (`execution_ledger.py:187`), where the docstring (135-137) has an oversell
  "use the last known average cost"; `FlatMarketRealizesNothing` keeps such sells
  apart (`unheld`).
- A buy whose answer was lost and is sent again is a second fill
  (`routers/execution.py:132`): requests carry no key.
- `cost_basis_remaining` uses the average of all buys
  (`execution_ledger.py:226`), realized P&L the running one; after a sell and a
  re-buy they part (docstring 132-135).
- STALE_HOLD is looked for among the cards of the envelope
  (`reconciliation.py:144`), where a closed trade has none any more (docstring
  16-18). A close that cannot be priced leaves no row.
- The due open of an issued exit is the first bar at or after `generated_at`,
  the Friday that decided it, where the comment means the model's execution
  price (`run_bhanushali_monitor.py:370` against 183-187).
- SELL_DUE does not clear when the flagged tranche alone is sold
  (`reconciliation.py:22-24`).
- An entry and a new setup of a name on one day have the same signal id.
- The discipline score takes the original of a corrected buy and skips its
  correction (`discipline.py:99`).

*Weekly book, corporate actions* (`run_bhanushali_weekly_rank.py`)
- A frozen position without bars for `stale_absent_days` is closed at the price
  after the drop, though the docstring (698-701) says it is frozen.
- After a re-basing the position is no longer watched, so a second demerger
  that is not registered is not seen; of two registered ones of a name the last
  row wins.
- A name that stops trading right after its entry is closed at its entry price
  (line 1326), not at its last traded close.
- `pk` takes the high of the week's last bar only (about line 1053), though the
  peak is meant.

*Price cache*
- After a lost scan a series stays mixed until the month rolls; a run that
  published and did not save its cache counts as lost (comments at
  `run_bhanushali_cron.py:785`, `scanner.yml:44-45`). A name that is not answered
  for weeks leaves a gap that can hide a split.
- A full fetch does not reach bars before the vendor's cut, hence `served = 1`
  in the properties.

*Paper book*
- The comment at `run_paper_cron.py:236-241` calls the refreshed marks display
  only; they are saved and can become the price of a stale exit (the `atFill`
  case of `SameBook`).
- A late bar makes the live book differ from the backtest (`run_paper_cron.py:8`).

*Records*
- A rerun of the same date never logs what it changed, where
  `archive_weekly_snapshot.py:20` says that it must never be silent; the second
  rerun has `gap_days` 0 (comment 227-228).
- A forecast's path starts after the Friday of its setup
  (`run_prediction_producer.py:79`), not after its stamp. A scan in the middle of a
  week stamps it under the newest bar, which may be the one that decides it, where
  lines 9-10 say that "the forecast strictly pre-dates its outcome". Had it been
  decided before, `append_resolution` raises and stops every later run
  (`predictions.py:130`).

*Judge*
- The 30-minute limit fails the job before its commit: rows are lost and paid
  calls made again. `append_row` verifies the chain after the call is paid.
- A failed scan still triggers the judge, on the last envelope, where
  0125 (lines 232-246) calls cards that were not judged a declared gap.

*Accounts*
- A login or an exchange that was under way when the password was reset, the user
  suspended or a replay found commits a working token after it (`auth.py:327-413`,
  791-821, 505-559), where the comment at 769-771 means "to invalidate any
  session already in flight". A login that waits for its second factor has five
  minutes (597), and a suspension stops that one only if it is read before the code
  is (804-806).
- Login does not check `is_active`, though the admin's deactivation "prevents
  login, revokes sessions" (`admin.py:108`); an admin's password reset does not
  revoke sessions (`admin.py:179-203`).
- Two tabs can raise a false alarm of theft (`auth.py:515-518`).
- `register` compares addresses as typed (`auth.py:918-919`), though
  `access_requests.py:185` promises one account to a person; approve and reject
  ignore the status of the form.

## 7. Plan

Done in this order, the most important behaviour first: the chain, the daily
run and its refinement, the workflow, the ledger and its refinement, the
position maths, the weekly book with monitor and reconciliation; then the
records of the scan, the two books, the price cache, the judge, the accounts and
the corporate actions. What is left:

1. **Refinements to prove.** `CapHolds` as a refinement of an abstract rotation.
2. **An abstract specification for `SignalSnapshots`**: a write-once register for
   each signal.
3. **A second demerger** of a name in `HeldPosition`, and several names with
   cash and ranking in `WeeklyBook`.
4. **SignalBook**, the simulator that differs most from the paper book.

## 8. Not modelled, and why

Most of the repository's lines are batch statistics, arithmetic on prices,
presentation, and clients of services; what it does in an order that can go
wrong is in the modules above.

- *Other simulators*: `signal_book` has the absence rule, the exits and the
  slots of `PaperBook` over other signals; the adapter and the panel compute
  numbers.
- *Model wall*: the chain of `forward_wall.py` over again with one book and no gap
  rows; only its test calls it.
- *Forward wall audit*: it reads the finished logs, with the `verify_chain` of
  `HashChain`, and changes nothing.
- *Discipline score*: means over ledger rows at the time of a request; it keeps
  nothing.
- *Broker orders and positions, NAV history*: dormant. `_safe_kite_holdings`
  (`positions.py:149-161`) answers with an empty list since the broker was
  unlinked, so pairing and classification have no input.
- *Price stream*: dead code; nothing calls `init_kite_ticker` or `broadcast`.
- *Data access and caches, broker and market-data clients*: read-through caches
  and thin clients of services this repository does not own.
- *Read-only routes, frontend*: formatting and presentation; the callers of the
  refresh endpoint and the signal ids are in `Sessions` and `ActionItems`.
- *Scheduler health and output contracts*: probes that change nothing the
  modelled parts read.
- *Market data*: downloads and arithmetic on price series; the cache they fill is
  `PriceCache`, and the cache-depth guard of the workflow is in `WallWorkflow`.
- *Research and validation*: batch statistics over frozen data.
- *Audit log, rate limits, seeding*: an insert for each event, a library's
  limiter, a start-up script.
- *Passwords, codes, mail*: data that the properties do not tell apart.
