------------------------------ MODULE MCRecords ------------------------------
(* The hash-chained log, three records of the weekly scan, two books, the    *)
(* price cache and a demerged position, which share nothing: in a behaviour  *)
(* one of the eight moves.                                                   *)
EXTENDS HashChain, WeeklyArchive, PredictionLedger, SignalSnapshots, PaperBook, RebalanceBook,
        PriceCache, HeldPosition

VARIABLE part

bookVars == <<paperVars, rebalanceVars, priceVars, heldVars>>
scanVars == <<archiveVars, predictionVars, snapshotVars>>
recordsVars == <<vars, scanVars, bookVars, part>>

\* What a step of each part leaves alone.
ByChain == part = "chain" /\ UNCHANGED <<scanVars, bookVars, part>>
ByArchive == part = "archive" /\ UNCHANGED <<vars, predictionVars, snapshotVars, bookVars, part>>
ByPredictions == part = "predictions" /\ UNCHANGED <<vars, archiveVars, snapshotVars, bookVars, part>>
BySnapshots == part = "snapshots" /\ UNCHANGED <<vars, archiveVars, predictionVars, bookVars, part>>
ByPaper == part = "paper" /\ UNCHANGED <<vars, scanVars, rebalanceVars, priceVars, heldVars, part>>
ByRotation == part = "rotation" /\ UNCHANGED <<vars, scanVars, paperVars, priceVars, heldVars, part>>
ByPrices == part = "prices" /\ UNCHANGED <<vars, scanVars, paperVars, rebalanceVars, heldVars, part>>
ByPosition == part = "position" /\ UNCHANGED <<vars, scanVars, paperVars, rebalanceVars, priceVars, part>>

RecordsNext ==
  \/ ByChain /\ Next
  \/ ByArchive /\ ArchiveNext
  \/ ByPredictions /\ PredictionNext
  \/ BySnapshots /\ SnapshotsNext
  \/ ByPaper /\ PaperNext
  \/ ByRotation /\ RebalanceNext
  \/ ByPrices /\ PriceNext
  \/ ByPosition /\ HeldNext

\* The price paths are an input of the prediction ledger alone, the demerger of
\* the position.
RecordsInit ==
  /\ Init /\ ArchiveInit /\ PredictionInit /\ SnapshotsInit
  /\ PaperInit /\ RebalanceInit /\ PriceInit /\ HeldInit
  /\ part \in {"chain", "archive", "predictions", "snapshots", "paper", "rotation", "prices",
              "position"}
  /\ part # "predictions" => touch = [c \in Cards |-> Never]
  /\ part # "position" => ex = 0 /\ last = Entry

\* The fairness of PredictionSpec, SnapshotsSpec and RebalanceSpec.
RecordsFairness ==
  /\ WF_recordsVars(ByPredictions /\ NextSession)
  /\ WF_recordsVars(ByPredictions /\ \E names \in SUBSET Stocks, old \in BOOLEAN : Produce(names, old))
  /\ \A r \in Requests : WF_recordsVars(BySnapshots /\ Answer(r))
  /\ WF_recordsVars(ByRotation /\ RebalanceNext)

RecordsSpec == RecordsInit /\ [][RecordsNext]_recordsVars /\ RecordsFairness
=============================================================================
