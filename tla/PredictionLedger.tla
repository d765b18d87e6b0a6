-------------------------- MODULE PredictionLedger --------------------------
(***************************************************************************)
(* The prediction ledger (nq/brain/predictions.py) and its producer        *)
(* (scripts/run_prediction_producer.py), which the Saturday job runs after *)
(* the scan: a forecast for each fresh card, and a resolution once the     *)
(* price path has touched a level of it.                                   *)
(*                                                                         *)
(* Sessions are numbered, weeks have WeekDays of them and end with a       *)
(* Friday.  The scan also runs in the middle of a week, when its as-of is  *)
(* later than the Friday whose setups it still shows.  The price path is   *)
(* an input: the session at which each card's levels are first touched,    *)
(* fixed at the start.  Probabilities and outcomes are left out, and the   *)
(* chain of rows is HashChain's.                                           *)
(***************************************************************************)
EXTENDS Integers, Sequences, FiniteSets

CONSTANTS Stocks, WeekDays, Never,
          LastSession     \* bound: sessions

ASSUME PredictionAssumption ==
  /\ IsFiniteSet(Stocks) /\ WeekDays \in Nat \ {0}
  /\ LastSession \in Nat \ {0} /\ Never \notin Nat

VARIABLES
  today,      \* the session whose close the cached bars end with
  touch,      \* input: when the levels of a card are first touched
  forecasts,  \* prediction rows, in the ledger's order
  resolved    \* resolution rows: the forecasts they name, and their dates

predictionVars == <<today, touch, forecasts, resolved>>

Fridays == {d \in 1..LastSession : d % WeekDays = 0}
Cards == Stocks \X Fridays
Setup(card) == card[2]

PredictionInit ==
  /\ today = 1 /\ forecasts = <<>> /\ resolved = {}
  /\ touch \in {f \in [Cards -> 1..LastSession \union {Never}] :
                  \A c \in Cards : f[c] # Never => f[c] > Setup(c)}

-----------------------------------------------------------------------------

NextSession ==
  /\ today < LastSession /\ today' = today + 1
  /\ UNCHANGED <<touch, forecasts, resolved>>

\* The setup week a scan of today shows: the last one that has closed.
SetupWeek == {f \in Fridays : f <= today /\ \A g \in Fridays : g <= today => g <= f}

\* Forecasts of the fresh cards that have none, stamped at the as-of, unless
\* the cards are days old.  Mutant: those that have one are not skipped.
SeenNever(card) == FALSE
Seen(card) == \E i \in DOMAIN forecasts : forecasts[i].card = card
Fresh(names, late) == IF late THEN {} ELSE {c \in names \X SetupWeek : ~Seen(c)}

\* The order of the cards in the envelope is that of their rank.
Orders(cards) == {s \in [1..Cardinality(cards) -> cards] : \A i, j \in DOMAIN s : i # j => s[i] # s[j]}
Forecast(s) == [i \in DOMAIN s |-> [card |-> s[i], stamp |-> today]]

\* The path of a card starts after its setup and ends with the cached bars.
\* Mutant: it starts after the stamp.
DecidedAfterStamp(f) == touch[f.card] # Never /\ touch[f.card] <= today /\ touch[f.card] > f.stamp
Decided(f) == touch[f.card] # Never /\ touch[f.card] <= today

\* append_resolution raises for a date before the stamp, and the run is over.
Backdated(f) == touch[f.card] # Never /\ touch[f.card] < f.stamp
Open(ledger) == {i \in DOMAIN ledger : \A r \in resolved : r.predicts # i}
Reached(ledger, i) ==
  \A j \in Open(ledger) : j <= i => ~(Decided(ledger[j]) /\ Backdated(ledger[j]))

\* A run of the producer after a scan with the fresh names it showed.
Produce(names, late) ==
  \E order \in Orders(Fresh(names, late)) :
    LET ledger == forecasts \o Forecast(order) IN
    /\ forecasts' = ledger
    /\ resolved' = resolved \union
         {[predicts |-> i, at |-> touch[ledger[i].card]] :
            i \in {k \in Open(ledger) : Decided(ledger[k]) /\ Reached(ledger, k)}}
    /\ UNCHANGED <<today, touch>>

PredictionNext ==
  NextSession \/ \E names \in SUBSET Stocks, late \in BOOLEAN : Produce(names, late)

\* The scan runs at least weekly.
PredictionSpec ==
  /\ PredictionInit /\ [][PredictionNext]_predictionVars
  /\ WF_predictionVars(NextSession)
  /\ WF_predictionVars(\E names \in SUBSET Stocks, late \in BOOLEAN : Produce(names, late))

-----------------------------------------------------------------------------
(* Properties. *)

\* The type of every variable.
PredictionTypeOK ==
  /\ today \in 1..LastSession
  /\ touch \in [Cards -> 1..LastSession \union {Never}]
  /\ \A i \in DOMAIN forecasts : forecasts[i].card \in Cards /\ forecasts[i].stamp \in 1..today
  /\ resolved \subseteq [predicts : DOMAIN forecasts, at : 1..today]

\* A card is forecast once, and a forecast resolved once.
OneForecastEach ==
  /\ \A i, j \in DOMAIN forecasts : forecasts[i].card = forecasts[j].card => i = j
  /\ \A r, s \in resolved : r.predicts = s.predicts => r = s

\* No outcome is older than its forecast, though the producer reads the path
\* from the setup and not from the stamp.  One of the very session of the
\* stamp, whose bar was in the cache, resolves only a forecast that a scan of
\* the middle of a week stamped after its setup.
ResolvedInOrder ==
  \A r \in resolved :
    LET forecast == forecasts[r.predicts] IN
    forecast.stamp < r.at \/ (forecast.stamp = r.at /\ Setup(forecast.card) < forecast.stamp)

\* A forecast that is decided is resolved in the end, unless a forecast at
\* or before it in the ledger was stamped after its own outcome: that one
\* makes every later run stop where it stands.
OnlyBackdatedBlock ==
  \A c \in Cards :
    ((\E i \in DOMAIN forecasts : forecasts[i].card = c) /\ touch[c] \in 1..today)
      ~> \E i \in DOMAIN forecasts :
           /\ forecasts[i].card = c
           /\ \/ \E r \in resolved : r.predicts = i
              \/ \E j \in 1..i : touch[forecasts[j].card] # Never /\ touch[forecasts[j].card] < forecasts[j].stamp

\* One forecast to a card, resolved once and by no price older than its stamp,
\* nor of the stamp's own session when the card was stamped with its setup.
PredictionInv == PredictionTypeOK /\ OneForecastEach /\ ResolvedInOrder
=============================================================================
