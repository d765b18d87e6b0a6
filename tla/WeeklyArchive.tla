---------------------------- MODULE WeeklyArchive ----------------------------
(***************************************************************************)
(* The archive of the weekly record: scripts/archive_weekly_snapshot.py,   *)
(* which keeps a dated snapshot of every scan and logs what it changed     *)
(* about past trades, and scripts/check_history_drift.py, which reads the  *)
(* log's last row after the commit.                                        *)
(*                                                                         *)
(* The record is rebuilt from inception at every scan, so any trade may    *)
(* come out differently.  A run that fails before its push leaves nothing, *)
(* so that a run is one step.  Fingerprints, NAV and the count of days to   *)
(* the predecessor are left out.                                           *)
(***************************************************************************)
EXTENDS Integers, Sequences, FiniteSets, SequencesExt

CONSTANTS Trades,
          AsOfs,      \* as-of dates a scan may have
          MaxRuns     \* bound: scans

ASSUME ArchiveAssumption == AsOfs \subseteq Nat \ {0} /\ MaxRuns \in Nat

VARIABLES
  record,    \* the published history: what it says of each trade
  dirs,      \* snapshots, in the order they were written
  drift,     \* drift_log.jsonl
  declared,  \* history_restatements.json
  green      \* the verdict of the check after the last scan

archiveVars == <<record, dirs, drift, declared, green>>

\* A closed trade on its terms, with prices re-based by a dividend, or on
\* other terms.
Closed == {"closed", "rebased", "restated"}
Known == {"none", "open"} \union Closed
Histories == [Trades -> Known]
Blank == [t \in Trades |-> "none"]

ArchiveInit ==
  /\ record = Blank /\ dirs = <<>> /\ drift = <<>> /\ declared = {} /\ green = TRUE

-----------------------------------------------------------------------------
(* The difference of two histories. *)

Restated(old, new) == {t \in Trades : old[t] \in Closed /\ new[t] \in Closed /\ old[t] # new[t]}
Vanished(old, new) == {t \in Trades : old[t] \in Closed /\ new[t] \notin Closed}
VanishedOpen(old, new) == {t \in Trades : old[t] = "open" /\ new[t] = "none"}

Rebased(old, new) == {t \in Restated(old, new) : {old[t], new[t]} = {"closed", "rebased"}}

Rewritten(old, new) == Restated(old, new) \union Vanished(old, new) \union VanishedOpen(old, new)

-----------------------------------------------------------------------------
(* A scan. *)

\* Names sort by date; the plain directory of a date before its reruns, and
\* these by their stamp.
SortsBefore(d, e) == d.asof < e.asof \/ (d.asof = e.asof /\ d.stamp < e.stamp)

\* The last snapshot by name, but for the plain one of this date.  Mutants:
\* reruns do not count; the snapshot of this date does.
OthersPlain(a) == {d \in Range(dirs) : d.asof # a /\ d.stamp = 0}
Others(a) == {d \in Range(dirs) : d.asof # a \/ d.stamp # 0}
Predecessor(a) == {d \in Others(a) : \A e \in Others(a) : e = d \/ SortsBefore(e, d)}

Taken(a) == \E d \in Range(dirs) : d.asof = a /\ d.stamp = 0

\* A dated directory is written once; a rerun gets one with a time stamp.
\* Mutant: it writes over the first.
SnapshotOver(a, new) == [asof |-> a, stamp |-> 0, record |-> new]
Snapshot(a, new) == [asof |-> a, stamp |-> IF Taken(a) THEN Len(dirs) + 1 ELSE 0, record |-> new]

\* The row of the drift log.
FirstRow(a) == [asof |-> a, restated |-> {}, rebased |-> {}, gone |-> {}]
DriftOf(a, old, new) ==
  [asof |-> a,
   restated |-> Restated(old.record, new), rebased |-> Rebased(old.record, new),
   gone |-> Vanished(old.record, new) \union VanishedOpen(old.record, new)]
DriftRow(a, new) ==
  IF Predecessor(a) = {} THEN FirstRow(a) ELSE DriftOf(a, CHOOSE d \in Predecessor(a) : TRUE, new)

\* Red for any change that is neither declared nor a re-basing.  Mutant: a
\* re-based name is let off altogether.
UndeclaredRestated(row) == (row.restated \ row.rebased) \ declared
Undeclared(row) == ((row.restated \ row.rebased) \union row.gone) \ declared

LastAsOf == IF dirs = <<>> THEN 0 ELSE Last(dirs).asof

\* A scan whose data did not go back (_assert_data_advanced), then the
\* archive, the push and the check.
Run(a, new) ==
  /\ Len(dirs) < MaxRuns /\ a \in AsOfs /\ a >= LastAsOf
  /\ record' = new
  /\ dirs' = Append(dirs, Snapshot(a, new))
  /\ drift' = Append(drift, DriftRow(a, new))
  /\ green' = (Undeclared(DriftRow(a, new)) = {})
  /\ UNCHANGED declared

\* The owner declares a change, with a reason.
Declare(t) ==
  /\ declared' = declared \union {t}
  /\ UNCHANGED <<record, dirs, drift, green>>

ArchiveNext ==
  \/ \E a \in AsOfs, new \in Histories : Run(a, new)
  \/ \E t \in Trades : Declare(t)

-----------------------------------------------------------------------------
(* Properties. *)

\* The type of every variable; one row of the log for each snapshot.
ArchiveTypeOK ==
  /\ record \in Histories /\ declared \subseteq Trades /\ green \in BOOLEAN
  /\ Len(dirs) <= MaxRuns /\ Len(drift) = Len(dirs)
  /\ \A i \in DOMAIN dirs :
       /\ dirs[i].asof \in AsOfs /\ dirs[i].stamp \in {0, i} /\ dirs[i].record \in Histories
       /\ drift[i].asof = dirs[i].asof

\* No two snapshots share a directory, so that none is overwritten, and the
\* last one by name is the record that is published.
WrittenOnce ==
  \A i, j \in DOMAIN dirs :
    /\ i # j => <<dirs[i].asof, dirs[i].stamp>> # <<dirs[j].asof, dirs[j].stamp>>
    /\ i < j => SortsBefore(dirs[i], dirs[j])

\* A scan of a later date logs everything it changed about a past trade of
\* the record that was published before it, reruns included.
RewriteIsLogged ==
  [][Len(dirs') > Len(dirs) /\ dirs # <<>> /\ Last(dirs').asof > Last(dirs).asof =>
       Rewritten(record, record') = Last(drift').restated \union Last(drift').gone]_archiveVars

\* The check after a scan of a later date is green only if every trade that
\* the scan changed was declared or merely re-based.
GreenIsDeclared ==
  [][Len(dirs') > Len(dirs) /\ dirs # <<>> /\ Last(dirs').asof > Last(dirs).asof /\ green' =>
       Rewritten(record, record') \subseteq declared \union Rebased(record, record')]_archiveVars

\* Snapshots and drift rows are well formed, and no snapshot is written twice.
ArchiveInv == ArchiveTypeOK /\ WrittenOnce
=============================================================================
