--------------------------- MODULE SignalSnapshots ---------------------------
(***************************************************************************)
(* The frozen signals: dashboard/backend/services/signal_snapshots.py,     *)
(* called by routers/signals.py before it answers.  Each request runs on a *)
(* thread of its own: it reads the chain's tail once, then looks each      *)
(* signal up, then commits the batch, which the unique signal_id refuses   *)
(* as a whole when another request has frozen one of its signals.          *)
(*                                                                         *)
(* A content hash stands for everything it covers, so it is the sequence   *)
(* of the cards chained so far.  A card without an entry or a stop is      *)
(* NoCard; the sanity gate marks a row and changes nothing else.           *)
(***************************************************************************)
EXTENDS Integers, Sequences, FiniteSets, SequencesExt

CONSTANTS Signals, Requests,
          NoCard,
          Editions,     \* bound: scans, each with another card for a signal
          MaxOutages    \* bound: commits the database refuses

ASSUME SnapshotsAssumption ==
  IsFiniteSet(Signals) /\ Editions \in Nat \ {0} /\ MaxOutages \in Nat

VARIABLES
  edition,   \* the number of the scan that wrote the envelope
  table,     \* signal_snapshots in the order of their ids
  serving,   \* the request on each thread
  outages,
  shown,     \* history: signals answered with a card, and the card's edition
  refused    \* history: signals of batches that were rolled back

snapshotVars == <<edition, table, serving, outages, shown, refused>>

Frozen(s) == \E i \in DOMAIN table : table[i].signal = s
TailHash == IF table = <<>> THEN <<>> ELSE Last(table).hash

Waiting == [step |-> "idle", todo |-> <<>>, cards |-> 0, prev |-> <<>>, batch |-> <<>>, since |-> 0]

\* The cards of an edition: every signal in one order; the first edition has
\* no levels for the last signal yet.
Order == SetToSeq(Signals)
Card(s, e) == IF e = 1 /\ s = Last(Order) THEN NoCard ELSE e

SnapshotsInit ==
  /\ edition = 1 /\ table = <<>> /\ outages = 0
  /\ serving = [r \in Requests |-> Waiting]
  /\ shown = {} /\ refused = {}

-----------------------------------------------------------------------------

\* A later scan publishes other cards under the same ids.
Rescan ==
  /\ edition < Editions /\ edition' = edition + 1
  /\ UNCHANGED <<table, serving, outages, shown, refused>>

\* The envelope is read, and the tail of the chain.
Serve(r) ==
  /\ serving[r].step = "idle"
  /\ serving' = [serving EXCEPT ![r] =
       [step |-> "look", todo |-> Order, cards |-> edition, prev |-> TailHash,
        batch |-> <<>>, since |-> Len(table)]]
  /\ UNCHANGED <<edition, table, outages, shown, refused>>

\* What the next row chains to: the batch's own last row.  Mutant: the tail
\* that was read.
TipRead(r) == serving[r].prev
Tip(r) == IF serving[r].batch = <<>> THEN serving[r].prev ELSE Last(serving[r].batch).hash

SnapshotRow(r, s) ==
  LET card == Card(s, serving[r].cards) IN
  [signal |-> s, card |-> card, prev |-> Tip(r), hash |-> Append(Tip(r), card),
   since |-> serving[r].since, place |-> Len(serving[r].batch) + 1]

\* The next signal: skipped without a card, or when it is frozen already.
\* Mutant: the first frozen signal ends the loop.
WantedUntilKnown(r, s) == Card(s, serving[r].cards) # NoCard /\ ~\E t \in Signals : Frozen(t)
Wanted(r, s) == Card(s, serving[r].cards) # NoCard /\ ~Frozen(s)
Look(r) ==
  /\ serving[r].step = "look" /\ serving[r].todo # <<>>
  /\ LET s == Head(serving[r].todo) IN
     serving' = [serving EXCEPT ![r].todo = Tail(@),
                   ![r].batch = IF Wanted(r, s) THEN Append(@, SnapshotRow(r, s)) ELSE @]
  /\ UNCHANGED <<edition, table, outages, shown, refused>>

Batch(r) == {serving[r].batch[i].signal : i \in DOMAIN serving[r].batch}
Answered(r) ==
  {[signal |-> s, card |-> Card(s, serving[r].cards)] : s \in {t \in Signals : Card(t, serving[r].cards) # NoCard}}

\* One commit for the batch, or none.  Whichever it is, the reader gets the
\* cards.  Mutant: rows of other requests do not stand in the way.
CollidesNever(r) == FALSE
Collides(r) == \E s \in Batch(r) : Frozen(s)
Finish(r, up) ==
  /\ serving[r].step = "look" /\ serving[r].todo = <<>>
  /\ ~up => outages < MaxOutages /\ serving[r].batch # <<>>
  /\ outages' = IF up THEN outages ELSE outages + 1
  /\ IF up /\ ~Collides(r)
     THEN table' = table \o serving[r].batch /\ refused' = refused
     ELSE table' = table /\ refused' = refused \union Batch(r)
  /\ shown' = shown \union Answered(r)
  /\ serving' = [serving EXCEPT ![r] = Waiting]
  /\ UNCHANGED edition

Answer(r) == Look(r) \/ \E up \in BOOLEAN : Finish(r, up)

SnapshotsNext ==
  \/ Rescan
  \/ \E r \in Requests : Serve(r) \/ Answer(r)

\* A request that was taken up is answered; nobody need ask.
SnapshotsSpec ==
  /\ SnapshotsInit /\ [][SnapshotsNext]_snapshotVars
  /\ \A r \in Requests : WF_snapshotVars(Answer(r))

-----------------------------------------------------------------------------
(* Properties. *)

\* The type of every variable.
SnapshotsTypeOK ==
  /\ edition \in 1..Editions /\ outages \in 0..MaxOutages
  /\ \A i \in DOMAIN table : table[i].signal \in Signals /\ table[i].card \in 1..Editions
  /\ \A r \in Requests :
       /\ serving[r].step \in {"idle", "look"} /\ serving[r].cards \in 0..Editions
       /\ IsSuffix(serving[r].todo, Order) /\ Batch(r) \subseteq Signals
  /\ shown \subseteq [signal : Signals, card : 1..Editions] /\ refused \subseteq Signals

\* A signal has one snapshot, whoever froze it.
OneSnapshotEach ==
  \A i, j \in DOMAIN table : table[i].signal = table[j].signal => i = j

\* Every row is chained to the row before it, but for the first row of a
\* batch whose tail was read before other rows were committed.
ChainBreaksOnlyByRace ==
  \A i \in DOMAIN table :
    \/ table[i].prev = (IF i = 1 THEN <<>> ELSE table[i - 1].hash)
    \/ table[i].place = 1 /\ table[i].since < i - 1

\* A signal that a reader was shown is frozen, unless the batch it came in
\* was refused for another request's sake or by an outage: a refused batch
\* takes signals with it that nobody else was freezing.
ShownIsFrozen == \A p \in shown : Frozen(p.signal) \/ p.signal \in refused

\* A signal that readers keep asking for is frozen in the end, whatever other
\* requests and the database do to the batches it is in.
EverySignalFrozen ==
  \A s \in Signals :
    []<>(\E r \in Requests : serving[r].step = "look" /\ Card(s, serving[r].cards) # NoCard) => <>[]Frozen(s)

\* One snapshot to a signal, chained to the one before it but for a race, and
\* a signal is shown only when it has one.
SnapshotsInv == SnapshotsTypeOK /\ OneSnapshotEach /\ ChainBreaksOnlyByRace /\ ShownIsFrozen
=============================================================================
