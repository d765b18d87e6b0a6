-------------------------- MODULE RecordsProofs --------------------------
(***************************************************************************)
(* Proofs about the records the jobs keep: the hash-chained log, the       *)
(* weekly archive and its drift log, the signal snapshots and the          *)
(* prediction ledger.                                                      *)
(***************************************************************************)
EXTENDS HashChain, WeeklyArchive, SignalSnapshots, PredictionLedger, OrderLemmas,
        SequenceTheorems, FiniteSetTheorems, TLAPS

-----------------------------------------------------------------------------
(***************************************************************************)
(* The hash-chained log (HashChain), for every set of dates and values.    *)
(* The argument does not follow the file, which anybody may edit, but the  *)
(* digests in it: whatever is done to the rows, every digest stored in the *)
(* file was produced by some append_row (HashInv), so a file whose digests *)
(* match its payloads holds a sequence that append_row once wrote.         *)
(***************************************************************************)

\* A history is in date order.
Ordered(h) == \A i \in DOMAIN h : i > 1 => h[i].date > h[i - 1].date

\* Every digest in the file was produced by append_row, from GENESIS on, and
\* what append_row produced is in date order.
HashInv ==
  /\ <<>> \in histories
  /\ \A i \in DOMAIN log : log[i].hash \in histories
  /\ \A h \in histories : Ordered(h)

ChainIInv == TypeOK /\ HashInv

\* verify_chain walks neighbours only; yet in a chain that verifies each
\* digest spells out all payloads up to its row.
LEMMA DigestIsPrefix ==
  ASSUME NEW l \in Seq(Row), Verify(l), NEW i \in DOMAIN l
  PROVE  l[i].hash = [k \in 1..i |-> l[k].pay]
<1> DEFINE Bad == {n \in DOMAIN l : l[n].hash # [k \in 1..n |-> l[k].pay]}
<1>1. DOMAIN l = 1..Len(l) /\ Len(l) \in Nat
  BY LenProperties
<1>2. \A n \in DOMAIN l : l[n].pay \in Payload /\ l[n].hash \in Seq(Payload)
  <2> TAKE n \in DOMAIN l
  <2>1. l[n] \in Row
    BY <1>1
  <2> QED BY <2>1 DEF Row
<1>3. SUFFICES ASSUME Bad # {} PROVE FALSE
  OBVIOUS
<1>4. PICK m \in Bad : \A k \in Bad : ~(k < m)
  <2>1. Bad \in SUBSET Nat
    BY <1>1
  <2> QED BY <2>1, <1>3, LeastElement
<1>5. l[m].hash = Append(Prior(l, m), l[m].pay)
  BY <1>4 DEF Verify, ChainHash
<1>6. CASE m = 1
  <2>1. l[m].hash = <<l[1].pay>>
    BY <1>5, <1>6, <1>2, <1>4 DEF Prior, Genesis
  <2>2. <<l[1].pay>> = [k \in 1..1 |-> l[k].pay]
    OBVIOUS
  <2> QED BY <2>1, <2>2, <1>6, <1>4
<1>7. CASE m > 1
  <2>1. m - 1 \in DOMAIN l /\ m - 1 < m
    BY <1>7, <1>1, <1>4
  <2>2. l[m - 1].hash = [k \in 1..(m - 1) |-> l[k].pay]
    BY <2>1, <1>1, <1>4
  <2>3. l[m].hash = Append([k \in 1..(m - 1) |-> l[k].pay], l[m].pay)
    BY <1>5, <2>2, <1>7, <1>1, <1>4 DEF Prior
  <2>4. [k \in 1..(m - 1) |-> l[k].pay] \in Seq(Payload)
    BY <2>1, <2>2, <1>2
  <2>5. Append([k \in 1..(m - 1) |-> l[k].pay], l[m].pay) = [k \in 1..m |-> l[k].pay]
    BY <2>4, <1>1, <1>2, <1>4, <1>7
  <2> QED BY <2>3, <2>5, <1>4
<1> QED BY <1>6, <1>7, <1>4, <1>1

-----------------------------------------------------------------------------
LEMMA ChainInitInv == Init => ChainIInv
  BY BoundsAssumption DEF Init, ChainIInv, TypeOK, HashInv, Ordered

\* An edit keeps the set of digests within what append_row produced.
LEMMA TouchInv ==
  ASSUME ChainIInv, NEW l \in Seq(Row), Touch(l),
         \A i \in DOMAIN l : \E j \in DOMAIN log : l[i].hash = log[j].hash
  PROVE  ChainIInv'
<1>1. TypeOK'
  BY BoundsAssumption DEF ChainIInv, TypeOK, Touch
<1>2. HashInv'
  BY DEF ChainIInv, HashInv, Touch
<1> QED BY <1>1, <1>2 DEF ChainIInv

LEMMA AppendInv ==
  ASSUME ChainIInv, NEW p \in Payload, AppendRow(p)
  PROVE  ChainIInv'
<1> DEFINE n == Len(log)
           h == ChainHash(Prior(log, n + 1), p)
<1>1. log \in Seq(Row) /\ n \in Nat /\ DOMAIN log = 1..n
  BY LenProperties DEF ChainIInv, TypeOK
<1>2. Prior(log, n + 1) \in histories /\ Prior(log, n + 1) \in Seq(Payload)
  BY <1>1 DEF ChainIInv, TypeOK, HashInv, Prior, Genesis
<1>3. h \in Seq(Payload)
  BY <1>2 DEF ChainHash
<1>4. /\ log' = Append(log, [pay |-> p, hash |-> h])
      /\ histories' = histories \union {h}
      /\ edits' = edits
  BY DEF AppendRow, Accepts, Later
<1>5. TypeOK'
  BY <1>1, <1>3, <1>4 DEF ChainIInv, TypeOK, Row
<1>6. Ordered(h)
  <2> DEFINE q == Prior(log, n + 1)
  <2>1. Len(h) = Len(q) + 1 /\ DOMAIN h = 1..(Len(q) + 1) /\ Len(q) \in Nat
    BY <1>2, <1>3, LenProperties DEF ChainHash
  <2>2. \A i \in 1..Len(q) : h[i] = q[i]
    BY <1>2, <2>1 DEF ChainHash
  <2>3. h[Len(q) + 1] = p
    BY <1>2, <2>1 DEF ChainHash
  <2>4. Ordered(q) /\ DOMAIN q = 1..Len(q)
    BY <1>2, LenProperties DEF ChainIInv, HashInv
  <2>5. Len(q) > 0 => p.date > q[Len(q)].date
    <3> SUFFICES ASSUME Len(q) > 0 PROVE p.date > q[Len(q)].date
      OBVIOUS
    <3>1. n > 0 /\ n \in DOMAIN log
      BY <1>1 DEF Prior, Genesis
    <3>2. q = log[n].hash
      BY <1>1, <3>1 DEF Prior
    <3>3. log[n].hash = ChainHash(Prior(log, n), log[n].pay)
      BY <3>1 DEF AppendRow, Accepts, Later, Verify
    <3>4. Prior(log, n) \in Seq(Payload) /\ log[n].pay \in Payload
      <4>1. log[n] \in Row
        BY <1>1, <3>1
      <4>2. n # 1 => log[n - 1] \in Row
        BY <1>1, <3>1
      <4> QED BY <4>1, <4>2 DEF Prior, Genesis, Row
    <3>5. q[Len(q)] = log[n].pay
      BY <3>2, <3>3, <3>4 DEF ChainHash
    <3>6. log # <<>>
      BY <3>1, <1>1
    <3> QED BY <3>5, <3>6 DEF AppendRow, Accepts, Later
  <2>6. ASSUME NEW i \in DOMAIN h, i > 1
        PROVE  h[i].date > h[i - 1].date
    <3>1. CASE i <= Len(q)
      BY <2>1, <2>2, <2>4, <2>6, <3>1 DEF Ordered
    <3>2. CASE i = Len(q) + 1
      BY <2>1, <2>2, <2>3, <2>5, <2>6, <3>2
    <3> QED BY <2>1, <3>1, <3>2
  <2> QED BY <2>6 DEF Ordered
<1>7. HashInv'
  <2>1. \A i \in DOMAIN log' : log'[i].hash = h \/ (i \in DOMAIN log /\ log'[i] = log[i])
    BY <1>1, <1>3, <1>4 DEF Row
  <2> QED BY <2>1, <1>4, <1>6 DEF ChainIInv, HashInv
<1> QED BY <1>5, <1>7 DEF ChainIInv

LEMMA ChainStepInv == ChainIInv /\ [Next]_vars => ChainIInv'
<1> SUFFICES ASSUME ChainIInv, [Next]_vars PROVE ChainIInv'
  OBVIOUS
<1>1. log \in Seq(Row) /\ Len(log) \in Nat /\ DOMAIN log = 1..Len(log)
  BY LenProperties DEF ChainIInv, TypeOK
<1>2. CASE \E p \in Payload : AppendRow(p)
  BY <1>2, AppendInv
<1>3. ASSUME NEW i \in DOMAIN log, NEW p \in Payload, Rewrite(i, p) PROVE ChainIInv'
  <2> DEFINE l == [log EXCEPT ![i].pay = p]
  <2>1. l \in Seq(Row) /\ DOMAIN l = DOMAIN log
    <3>1. log[i] \in Row
      BY <1>1
    <3>2. [log[i] EXCEPT !.pay = p] \in Row
      BY <3>1 DEF Row
    <3> QED BY <1>1, <3>2
  <2>2. \A j \in DOMAIN l : l[j].hash = log[j].hash
    BY <1>1, <1>3, <2>1 DEF Row
  <2>3. Touch(l)
    BY <1>3 DEF Rewrite
  <2> QED BY <2>1, <2>2, <2>3, TouchInv
<1>4. ASSUME NEW i \in DOMAIN log, NEW j \in DOMAIN log, Reorder(i, j) PROVE ChainIInv'
  <2> DEFINE l == [log EXCEPT ![i] = log[j], ![j] = log[i]]
  <2>1. l \in Seq(Row) /\ DOMAIN l = DOMAIN log
    BY <1>1, <1>4
  <2>2. \A k \in DOMAIN l : l[k] \in {log[k], log[i], log[j]}
    BY <1>1, <1>4, <2>1
  <2>3. Touch(l)
    BY <1>4 DEF Reorder
  <2> QED BY <2>1, <2>2, <2>3, <1>4, TouchInv
<1>5. ASSUME NEW i \in DOMAIN log, Delete(i) PROVE ChainIInv'
  <2> DEFINE l == [k \in 1..(Len(log) - 1) |-> IF k < i THEN log[k] ELSE log[k + 1]]
  <2>1. Len(log) - 1 \in Nat
    BY <1>1, <1>5
  <2>2. \A k \in 1..(Len(log) - 1) : l[k] \in Row /\ \E j \in DOMAIN log : l[k] = log[j]
    BY <1>1, <1>5
  <2>3. l \in Seq(Row) /\ DOMAIN l = 1..(Len(log) - 1)
    BY <2>1, <2>2
  <2>4. Touch(l)
    BY <1>5 DEF Delete
  <2>5. \A k \in DOMAIN l : \E j \in DOMAIN log : l[k].hash = log[j].hash
    BY <2>2, <2>3
  <2> QED BY <2>3, <2>4, <2>5, TouchInv
<1>6. CASE UNCHANGED vars
  BY <1>6 DEF vars, ChainIInv, TypeOK, HashInv, Ordered
<1> QED BY <1>2, <1>3, <1>4, <1>5, <1>6 DEF Next

\* The types of the log and of its history, for every run.
THEOREM ChainTypes == Spec => []ChainIInv
  BY ChainInitInv, ChainStepInv, PTL DEF Spec

-----------------------------------------------------------------------------
LEMMA InvImpliesHistory == ChainIInv => VerifiedIsHistory
<1> SUFFICES ASSUME ChainIInv, Verify(log) PROVE Payloads(log) \in histories
  BY DEF VerifiedIsHistory
<1>1. log \in Seq(Row) /\ Len(log) \in Nat /\ DOMAIN log = 1..Len(log)
  BY LenProperties DEF ChainIInv, TypeOK
<1>2. CASE Len(log) = 0
  <2>1. Payloads(log) = <<>>
    BY <1>1, <1>2 DEF Payloads
  <2> QED BY <2>1 DEF ChainIInv, HashInv
<1>3. CASE Len(log) > 0
  <2>1. Len(log) \in DOMAIN log
    BY <1>1, <1>3
  <2>2. log[Len(log)].hash = [k \in 1..Len(log) |-> log[k].pay]
    BY <1>1, <2>1, DigestIsPrefix
  <2>3. log[Len(log)].hash = Payloads(log)
    BY <2>2, <1>1 DEF Payloads
  <2> QED BY <2>1, <2>3 DEF ChainIInv, HashInv
<1> QED BY <1>1, <1>2, <1>3

LEMMA InvImpliesOrdered == ChainIInv => VerifiedIsOrdered
<1> SUFFICES ASSUME ChainIInv, Verify(log), NEW i \in DOMAIN log, i > 1
             PROVE  log[i].pay.date > log[i - 1].pay.date
  BY DEF VerifiedIsOrdered
<1>1. log \in Seq(Row) /\ Len(log) \in Nat /\ DOMAIN log = 1..Len(log)
  BY LenProperties DEF ChainIInv, TypeOK
<1>2. Payloads(log) \in histories
  BY InvImpliesHistory DEF VerifiedIsHistory
<1>3. Ordered(Payloads(log))
  BY <1>2 DEF ChainIInv, HashInv
<1>4. i - 1 \in DOMAIN log
  BY <1>1
<1> QED BY <1>1, <1>3, <1>4 DEF Ordered, Payloads

\* No edit, reordering or deletion inside the log survives verification.
THEOREM VerifiedLogIsHistory == Spec => []VerifiedIsHistory
  BY ChainTypes, InvImpliesHistory, PTL

\* A log that verifies is in strict date order, whatever was done to it.
THEOREM VerifiedLogIsOrdered == Spec => []VerifiedIsOrdered
  BY ChainTypes, InvImpliesOrdered, PTL

\* An append extends a sequence that an earlier append wrote.
THEOREM AppendExtendsHistory == Spec => GrowsFromHistory
<1>1. ChainIInv /\ [Next]_vars => [Len(log') > Len(log) => Payloads(log) \in histories]_vars
  <2> SUFFICES ASSUME ChainIInv, Next, Len(log') > Len(log)
               PROVE  Payloads(log) \in histories
    BY DEF vars
  <2>1. log \in Seq(Row) /\ Len(log) \in Nat /\ DOMAIN log = 1..Len(log)
    BY LenProperties DEF ChainIInv, TypeOK
  <2>2. ASSUME NEW i \in DOMAIN log, NEW p \in Payload, Rewrite(i, p) PROVE FALSE
    BY <2>1, <2>2 DEF Rewrite, Touch
  <2>3. ASSUME NEW i \in DOMAIN log, NEW j \in DOMAIN log, Reorder(i, j) PROVE FALSE
    BY <2>1, <2>3 DEF Reorder, Touch
  <2>4. ASSUME NEW i \in DOMAIN log, Delete(i) PROVE FALSE
    BY <2>1, <2>4 DEF Delete, Touch
  <2>5. Verify(log)
    BY <2>2, <2>3, <2>4 DEF Next, AppendRow, Accepts
  <2> QED BY <2>5, InvImpliesHistory DEF VerifiedIsHistory
<1> QED BY <1>1, ChainTypes, PTL DEF Spec, GrowsFromHistory

\* What verify_chain accepts is a log that append_row wrote, in date order,
\* for any dates, values and number of edits.
THEOREM ChainIsSound == Spec => []ChainInv
BY VerifiedLogIsHistory, VerifiedLogIsOrdered, PTL DEF ChainInv

-----------------------------------------------------------------------------
(***************************************************************************)
(* The weekly archive and its drift log (WeeklyArchive), for every set of  *)
(* trades and dates. What is published is what the last snapshot holds     *)
(* (Published), and a date has its plain snapshot before its reruns        *)
(* (PlainFirst), so the predecessor a scan compares with is the record it  *)
(* replaces.                                                               *)
(***************************************************************************)

Dir == [asof : AsOfs, stamp : Nat, record : Histories]
Drift == [asof : AsOfs, restated : SUBSET Trades, rebased : SUBSET Trades, gone : SUBSET Trades]

ArchiveTypes ==
  /\ record \in Histories /\ declared \subseteq Trades /\ green \in BOOLEAN
  /\ dirs \in Seq(Dir) /\ drift \in Seq(Drift)
  /\ Len(dirs) <= MaxRuns /\ Len(drift) = Len(dirs)
  /\ \A i \in DOMAIN dirs : dirs[i].stamp \in {0, i} /\ drift[i].asof = dirs[i].asof

\* A date has its plain snapshot before its reruns.
PlainFirst == \A i \in DOMAIN dirs : Taken(dirs[i].asof)

\* What is published is what the last snapshot holds.
Published == dirs # <<>> => record = Last(dirs).record

ArchiveIInv == ArchiveTypes /\ WrittenOnce /\ PlainFirst /\ Published

LEMMA DirFacts ==
  ASSUME ArchiveTypes
  PROVE  /\ Len(dirs) \in Nat /\ DOMAIN dirs = 1..Len(dirs) /\ DOMAIN drift = 1..Len(dirs)
         /\ \A i \in DOMAIN dirs : dirs[i] \in Dir /\ drift[i] \in Drift
<1>1. dirs \in Seq(Dir) /\ drift \in Seq(Drift) /\ Len(drift) = Len(dirs)
  BY DEF ArchiveTypes
<1> QED BY <1>1

LEMMA ArchiveInitInv == ArchiveInit => ArchiveIInv
<1> SUFFICES ASSUME ArchiveInit PROVE ArchiveIInv
  OBVIOUS
<1>1. ArchiveTypes
  <2>1. record \in Histories
    BY DEF ArchiveInit, Blank, Histories, Known
  <2> QED BY <2>1, ArchiveAssumption DEF ArchiveInit, ArchiveTypes
<1>2. WrittenOnce /\ PlainFirst /\ Published
  BY DEF ArchiveInit, WrittenOnce, PlainFirst, Published
<1> QED BY <1>1, <1>2 DEF ArchiveIInv

\* Snapshots are in the order of their dates, and the last one is the latest.
LEMMA LastIsLatest ==
  ASSUME ArchiveIInv
  PROVE  \A i \in DOMAIN dirs :
           /\ dirs # <<>> /\ LastAsOf = dirs[Len(dirs)].asof
           /\ dirs[i].asof <= LastAsOf
           /\ i = Len(dirs) \/ SortsBefore(dirs[i], dirs[Len(dirs)])
<1> TAKE i \in DOMAIN dirs
<1>1. Len(dirs) \in Nat /\ DOMAIN dirs = 1..Len(dirs) /\ \A j \in DOMAIN dirs : dirs[j] \in Dir
  BY DirFacts DEF ArchiveIInv
<1>2. dirs # <<>> /\ LastAsOf = dirs[Len(dirs)].asof /\ Len(dirs) \in DOMAIN dirs
  BY <1>1 DEF LastAsOf, Last
<1>3. dirs[i].asof \in Nat /\ dirs[Len(dirs)].asof \in Nat
  BY <1>1, <1>2, ArchiveAssumption DEF Dir
<1>4. i = Len(dirs) \/ SortsBefore(dirs[i], dirs[Len(dirs)])
  BY <1>1, <1>2 DEF ArchiveIInv, WrittenOnce
<1> QED BY <1>2, <1>3, <1>4 DEF SortsBefore

\* A scan of a later date is compared with the last snapshot.
LEMMA PredecessorIsLast ==
  ASSUME ArchiveIInv, NEW a \in AsOfs, dirs # <<>>, a > LastAsOf
  PROVE  Predecessor(a) = {Last(dirs)}
<1> DEFINE n == Len(dirs)
<1>1. n \in Nat /\ DOMAIN dirs = 1..n /\ \A j \in DOMAIN dirs : dirs[j] \in Dir
  BY DirFacts DEF ArchiveIInv
<1>2. n \in DOMAIN dirs /\ Last(dirs) = dirs[n]
  <2>1. dirs \in Seq(Dir)
    BY DEF ArchiveIInv, ArchiveTypes
  <2> QED BY <1>1, <2>1 DEF Last
<1>3. \A i \in DOMAIN dirs :
        dirs[i].asof <= LastAsOf /\ (i = n \/ SortsBefore(dirs[i], dirs[n]))
  BY LastIsLatest
<1>4. \A d \in Dir : d.asof \in Nat /\ d.stamp \in Nat
  BY ArchiveAssumption DEF Dir
<1>5. LastAsOf \in Nat /\ a \in Nat
  BY <1>1, <1>2, <1>4, LastIsLatest, ArchiveAssumption
<1>6. Others(a) = {dirs[i] : i \in DOMAIN dirs}
  <2>1. \A i \in DOMAIN dirs : dirs[i].asof # a
    BY <1>1, <1>3, <1>4, <1>5
  <2> QED BY <2>1 DEF Others, Range
<1>7. dirs[n] \in Predecessor(a)
  BY <1>2, <1>3, <1>6 DEF Predecessor
<1>8. \A i \in DOMAIN dirs : dirs[i] \in Predecessor(a) => dirs[i] = dirs[n]
  <2> TAKE i \in DOMAIN dirs
  <2> HAVE dirs[i] \in Predecessor(a)
  <2>1. dirs[n] = dirs[i] \/ SortsBefore(dirs[n], dirs[i])
    BY <1>2, <1>6 DEF Predecessor
  <2>2. dirs[i] \in Dir /\ dirs[n] \in Dir
    BY <1>1, <1>2
  <2>3. i = n \/ SortsBefore(dirs[i], dirs[n])
    BY <1>3
  <2> QED BY <1>4, <2>1, <2>2, <2>3 DEF SortsBefore
<1> QED BY <1>2, <1>6, <1>7, <1>8 DEF Predecessor

LEMMA DriftRowType ==
  ASSUME ArchiveIInv, NEW a \in AsOfs, NEW new \in Histories
  PROVE  DriftRow(a, new) \in Drift /\ DriftRow(a, new).asof = a
<1>1. FirstRow(a) \in Drift /\ FirstRow(a).asof = a
  BY DEF FirstRow, Drift
<1>2. \A d : DriftOf(a, d, new) \in Drift /\ DriftOf(a, d, new).asof = a
  <2> TAKE d
  <2>1. /\ Restated(d.record, new) \in SUBSET Trades /\ Rebased(d.record, new) \in SUBSET Trades
        /\ Vanished(d.record, new) \union VanishedOpen(d.record, new) \in SUBSET Trades
    BY DEF Restated, Rebased, Vanished, VanishedOpen
  <2> QED BY <2>1 DEF DriftOf, Drift
<1> QED BY <1>1, <1>2 DEF DriftRow

LEMMA RunInv ==
  ASSUME ArchiveIInv, NEW a \in AsOfs, NEW new \in Histories, Run(a, new)
  PROVE  ArchiveIInv'
<1> DEFINE n == Len(dirs)
           d == Snapshot(a, new)
           row == DriftRow(a, new)
<1>1. n \in Nat /\ DOMAIN dirs = 1..n /\ DOMAIN drift = 1..n
      /\ \A j \in DOMAIN dirs : dirs[j] \in Dir /\ drift[j] \in Drift
  BY DirFacts DEF ArchiveIInv
<1>2. d \in Dir /\ d.asof = a /\ d.record = new /\ d.stamp = IF Taken(a) THEN n + 1 ELSE 0
  BY <1>1 DEF Snapshot, Dir
<1>3. row \in Drift /\ row.asof = a
  BY DriftRowType
<1>4. /\ record' = new /\ dirs' = Append(dirs, d) /\ drift' = Append(drift, row)
      /\ declared' = declared /\ green' \in BOOLEAN /\ n < MaxRuns /\ a >= LastAsOf
  BY DEF Run
<1>5. dirs \in Seq(Dir) /\ drift \in Seq(Drift) /\ Len(drift) = n
  BY DEF ArchiveIInv, ArchiveTypes
<1> HIDE DEF n, d, row
<1>6. /\ dirs' \in Seq(Dir) /\ drift' \in Seq(Drift) /\ Len(dirs') = n + 1 /\ Len(drift') = n + 1
      /\ DOMAIN dirs' = 1..(n + 1) /\ dirs'[n + 1] = d /\ drift'[n + 1] = row
      /\ \A i \in 1..n : dirs'[i] = dirs[i] /\ drift'[i] = drift[i]
  BY <1>1, <1>2, <1>3, <1>4, <1>5 DEF n
<1>7. \A i \in 1..n : dirs[i].asof \in Nat /\ dirs[i].stamp \in 0..n /\ dirs[i].asof <= a
  <2> TAKE i \in 1..n
  <2>1. dirs[i] \in Dir /\ dirs[i].stamp \in {0, i}
    BY <1>1 DEF ArchiveIInv, ArchiveTypes
  <2>2. dirs[i].asof \in Nat /\ a \in Nat
    BY <2>1, ArchiveAssumption DEF Dir
  <2>3. dirs[i].asof <= LastAsOf /\ LastAsOf = dirs[n].asof /\ n \in 1..n
    BY <1>1, LastIsLatest DEF n
  <2>4. LastAsOf \in Nat
    BY <1>1, <2>3, ArchiveAssumption DEF Dir
  <2> QED BY <1>1, <1>4, <2>1, <2>2, <2>3, <2>4
<1>8. ArchiveTypes'
  <2>1. \A i \in 1..(n + 1) : dirs'[i].stamp \in {0, i} /\ drift'[i].asof = dirs'[i].asof
    <3> TAKE i \in 1..(n + 1)
    <3>1. CASE i \in 1..n
      BY <1>1, <1>6, <3>1 DEF ArchiveIInv, ArchiveTypes
    <3>2. CASE i = n + 1
      BY <1>2, <1>3, <1>6, <3>2
    <3> QED BY <1>1, <3>1, <3>2
  <2>2. n + 1 <= MaxRuns
    BY <1>1, <1>4, ArchiveAssumption
  <2> QED BY <1>4, <1>6, <2>1, <2>2 DEF ArchiveIInv, ArchiveTypes
<1>9. \A i \in 1..n : SortsBefore(dirs[i], d)
  <2> TAKE i \in 1..n
  <2>1. CASE dirs[i].asof = a
    <3>1. Taken(a)
      BY <1>1, <2>1 DEF ArchiveIInv, PlainFirst
    <3> QED BY <1>1, <1>2, <1>7, <2>1, <3>1 DEF SortsBefore
  <2>2. CASE dirs[i].asof # a
    <3>1. a \in Nat
      BY ArchiveAssumption
    <3> QED BY <1>2, <1>7, <2>2, <3>1 DEF SortsBefore
  <2> QED BY <2>1, <2>2
<1>10. WrittenOnce'
  <2>1. \A i, j \in 1..(n + 1) : i < j => SortsBefore(dirs'[i], dirs'[j])
    <3> TAKE i, j \in 1..(n + 1)
    <3> HAVE i < j
    <3>1. i \in 1..n /\ (j \in 1..n \/ j = n + 1)
      BY <1>1
    <3> QED BY <1>1, <1>6, <1>9, <3>1 DEF ArchiveIInv, WrittenOnce
  <2>2. \A x \in Dir, y \in Dir : SortsBefore(x, y) => <<x.asof, x.stamp>> # <<y.asof, y.stamp>>
    <3> TAKE x \in Dir, y \in Dir
    <3>1. x.asof \in Nat /\ y.asof \in Nat /\ x.stamp \in Nat /\ y.stamp \in Nat
      BY ArchiveAssumption DEF Dir
    <3> QED BY <3>1 DEF SortsBefore
  <2>3. \A i \in 1..(n + 1) : dirs'[i] \in Dir
    BY <1>6
  <2>4. \A i, j \in 1..(n + 1) : i # j =>
          <<dirs'[i].asof, dirs'[i].stamp>> # <<dirs'[j].asof, dirs'[j].stamp>>
    <3> TAKE i, j \in 1..(n + 1)
    <3>1. i < j \/ j < i \/ i = j
      OBVIOUS
    <3> QED BY <2>1, <2>2, <2>3, <3>1
  <2> QED BY <1>6, <2>1, <2>4 DEF WrittenOnce, SortsBefore
<1>11. PlainFirst'
  <2>1. \A x : Taken(x) => Taken(x)'
    <3> SUFFICES ASSUME NEW x, Taken(x) PROVE Taken(x)'
      OBVIOUS
    <3>1. PICK i \in 1..n : dirs[i].asof = x /\ dirs[i].stamp = 0
      BY <1>1 DEF Taken, Range
    <3>2. i \in DOMAIN dirs' /\ dirs'[i] = dirs[i]
      BY <1>1, <1>6
    <3> QED BY <3>1, <3>2 DEF Taken, Range
  <2>2. Taken(a)'
    <3>1. CASE Taken(a)
      BY <2>1, <3>1
    <3>2. CASE ~Taken(a)
      <4>1. n + 1 \in DOMAIN dirs' /\ dirs'[n + 1].asof = a /\ dirs'[n + 1].stamp = 0
        BY <1>1, <1>2, <1>6, <3>2
      <4> QED BY <4>1 DEF Taken, Range
    <3> QED BY <3>1, <3>2
  <2>3. \A i \in 1..(n + 1) : i \in 1..n \/ i = n + 1
    BY <1>1
  <2> QED BY <1>1, <1>2, <1>6, <2>1, <2>2, <2>3 DEF ArchiveIInv, PlainFirst
<1>12. Published'
  <2>1. Last(dirs') = d
    BY <1>6 DEF Last
  <2> QED BY <1>2, <1>4, <2>1 DEF Published
<1> QED BY <1>8, <1>10, <1>11, <1>12 DEF ArchiveIInv

LEMMA ArchiveStepInv == ArchiveIInv /\ [ArchiveNext]_archiveVars => ArchiveIInv'
<1> SUFFICES ASSUME ArchiveIInv, [ArchiveNext]_archiveVars PROVE ArchiveIInv'
  OBVIOUS
<1>1. ASSUME NEW t \in Trades, Declare(t) PROVE ArchiveIInv'
  BY <1>1 DEF Declare, ArchiveIInv, ArchiveTypes, WrittenOnce, PlainFirst, Published, Taken
<1>2. CASE ArchiveNext
  BY <1>1, <1>2, RunInv DEF ArchiveNext
<1>3. CASE UNCHANGED archiveVars
  BY <1>3 DEF archiveVars, ArchiveIInv, ArchiveTypes, WrittenOnce, PlainFirst, Published, Taken
<1> QED BY <1>2, <1>3

\* What a scan of a later date writes to the drift log.
LEMMA LaterScan ==
  ASSUME ArchiveIInv, [ArchiveNext]_archiveVars, Len(dirs') > Len(dirs), dirs # <<>>,
         Last(dirs').asof > Last(dirs).asof
  PROVE  \E a \in AsOfs :
           LET row == DriftOf(a, Last(dirs), record') IN
           /\ Last(drift') = row /\ green' = (Undeclared(row) = {})
           /\ Last(dirs).record = record
<1>1. dirs \in Seq(Dir) /\ drift \in Seq(Drift) /\ Len(dirs) \in Nat /\ DOMAIN dirs = 1..Len(dirs)
  BY DirFacts DEF ArchiveIInv, ArchiveTypes
<1>2. dirs' # dirs
  BY <1>1
<1>3. PICK a \in AsOfs, new \in Histories : Run(a, new)
  BY <1>2 DEF ArchiveNext, Declare, archiveVars
<1>4. /\ dirs' = Append(dirs, Snapshot(a, new)) /\ drift' = Append(drift, DriftRow(a, new))
      /\ record' = new /\ green' = (Undeclared(DriftRow(a, new)) = {})
  BY <1>3 DEF Run
<1>5. Last(dirs') = Snapshot(a, new) /\ Last(drift') = DriftRow(a, new)
  <2>1. Snapshot(a, new) \in Dir
    BY <1>1 DEF Snapshot, Dir
  <2>2. DriftRow(a, new) \in Drift
    BY DriftRowType
  <2>3. Len(drift) \in Nat
    BY <1>1
  <2> QED BY <1>1, <1>4, <2>1, <2>2, <2>3 DEF Last
<1>6. a > LastAsOf
  BY <1>5 DEF Snapshot, LastAsOf
<1>7. Predecessor(a) = {Last(dirs)}
  BY <1>6, PredecessorIsLast
<1>8. DriftRow(a, new) = DriftOf(a, Last(dirs), new)
  <2>1. (CHOOSE d \in Predecessor(a) : TRUE) = Last(dirs)
    BY <1>7
  <2> QED BY <1>7, <2>1 DEF DriftRow
<1> QED BY <1>4, <1>5, <1>8 DEF ArchiveIInv, Published

-----------------------------------------------------------------------------
\* The snapshots and the drift log stay in step throughout.
THEOREM ArchiveInvariant == ArchiveInit /\ [][ArchiveNext]_archiveVars => []ArchiveIInv
BY ArchiveInitInv, ArchiveStepInv, PTL

\* No snapshot is written twice, in any number of scans and reruns.
THEOREM ArchiveIsSound == ArchiveInit /\ [][ArchiveNext]_archiveVars => []ArchiveInv
<1>1. ASSUME ArchiveIInv PROVE ArchiveInv
  <2>1. \A i \in DOMAIN dirs : dirs[i].asof \in AsOfs /\ dirs[i].record \in Histories
    BY <1>1, DirFacts DEF ArchiveIInv, Dir
  <2> QED BY <1>1, <2>1 DEF ArchiveIInv, ArchiveInv, ArchiveTypes, ArchiveTypeOK
<1> QED BY <1>1, ArchiveInvariant, PTL

\* A scan of a later date logs everything it changed about a past trade of the
\* record published before it.
THEOREM EveryRewriteIsLogged == ArchiveInit /\ [][ArchiveNext]_archiveVars => RewriteIsLogged
<1>1. ASSUME ArchiveIInv, [ArchiveNext]_archiveVars, Len(dirs') > Len(dirs), dirs # <<>>,
             Last(dirs').asof > Last(dirs).asof
      PROVE  Rewritten(record, record') = Last(drift').restated \union Last(drift').gone
  <2>1. PICK a \in AsOfs : Last(drift') = DriftOf(a, Last(dirs), record') /\ Last(dirs).record = record
    BY <1>1, LaterScan
  <2>2. /\ Last(drift').restated = Restated(record, record')
        /\ Last(drift').gone = Vanished(record, record') \union VanishedOpen(record, record')
    BY <2>1 DEF DriftOf
  <2> QED BY <2>2 DEF Rewritten
<1> QED BY <1>1, ArchiveInvariant, PTL DEF RewriteIsLogged

\* A green check after it means that every such change was declared or is a
\* re-basing of prices.
THEOREM GreenMeansDeclared == ArchiveInit /\ [][ArchiveNext]_archiveVars => GreenIsDeclared
<1>1. ASSUME ArchiveIInv, [ArchiveNext]_archiveVars, Len(dirs') > Len(dirs), dirs # <<>>,
             Last(dirs').asof > Last(dirs).asof, green'
      PROVE  Rewritten(record, record') \subseteq declared \union Rebased(record, record')
  BY <1>1, LaterScan DEF DriftOf, Rewritten, Undeclared
<1> QED BY <1>1, ArchiveInvariant, PTL DEF GreenIsDeclared

-----------------------------------------------------------------------------
(***************************************************************************)
(* The signal snapshots (SignalSnapshots), for every number of signals,    *)
(* requests and outages. A request in the middle of its work has looked at *)
(* each signal before its todo once, and those that have a card are frozen *)
(* or in its batch (Looked); its batch is chained from the tail it read,   *)
(* which another request may have moved since (ChainedTo).                 *)
(***************************************************************************)

SnapRow ==
  [signal : Signals, card : 1..Editions, prev : Seq(1..Editions), hash : Seq(1..Editions),
   since : Nat, place : Nat]
Work ==
  [step : {"idle", "look"}, todo : Seq(Signals), cards : 0..Editions, prev : Seq(1..Editions),
   batch : Seq(SnapRow), since : Nat]

SnapTypes ==
  /\ edition \in 1..Editions /\ outages \in 0..MaxOutages
  /\ table \in Seq(SnapRow) /\ serving \in [Requests -> Work]
  /\ \A r \in Requests : serving[r].step = "look" => serving[r].cards \in 1..Editions
  /\ shown \subseteq [signal : Signals, card : 1..Editions] /\ refused \subseteq Signals

InBatch(w, s) == \E i \in DOMAIN w.batch : w.batch[i].signal = s

\* A request has looked at the signals before its todo, each once: those with
\* a card are frozen or in its batch.
Looked(w) ==
  LET n == Len(Order) - Len(w.todo) IN
  /\ n \in 0..Len(Order)
  /\ \A i \in DOMAIN w.todo : w.todo[i] = Order[n + i]
  /\ \A i \in DOMAIN w.batch : \E m \in 1..n : w.batch[i].signal = Order[m]
  /\ \A i, j \in DOMAIN w.batch : w.batch[i].signal = w.batch[j].signal => i = j
  /\ \A m \in 1..n : Card(Order[m], w.cards) # NoCard => Frozen(Order[m]) \/ InBatch(w, Order[m])

\* A batch is chained from the tail the request has read.
ChainedTo(w) ==
  /\ w.since <= Len(table)
  /\ w.prev = IF w.since = 0 THEN <<>> ELSE table[w.since].hash
  /\ \A i \in DOMAIN w.batch :
       /\ w.batch[i].place = i /\ w.batch[i].since = w.since
       /\ w.batch[i].prev = IF i = 1 THEN w.prev ELSE w.batch[i - 1].hash

InWork == \A r \in Requests : serving[r].step = "look" => Looked(serving[r]) /\ ChainedTo(serving[r])
AtRest == \A r \in Requests : serving[r].step = "idle" => serving[r] = Waiting

SnapIInv ==
  /\ SnapTypes /\ InWork /\ AtRest
  /\ OneSnapshotEach /\ ChainBreaksOnlyByRace /\ ShownIsFrozen

-----------------------------------------------------------------------------
\* The envelope lists every signal once.
LEMMA OrderFacts ==
  /\ Len(Order) \in Nat /\ Order \in Seq(Signals) /\ DOMAIN Order = 1..Len(Order)
  /\ \A i, j \in 1..Len(Order) : Order[i] = Order[j] => i = j
  /\ \A s \in Signals : \E i \in 1..Len(Order) : Order[i] = s
<1> DEFINE n == Cardinality(Signals)
<1>1. n \in Nat /\ ExistsBijection(1..n, Signals) /\ IsFiniteSet(Signals)
  BY SnapshotsAssumption, FS_CardinalityType
<1>2. \E f \in [1..n -> Signals] : IsInjective(f)
  BY <1>1 DEF ExistsBijection, Bijection, Injection
<1>3. Order \in [1..n -> Signals] /\ IsInjective(Order)
  BY <1>2 DEF Order, SetToSeq
<1>4. Order \in Injection(1..n, Signals) /\ Cardinality(1..n) = n
  BY <1>1, <1>3, FS_Interval DEF Injection
<1>5. Order \in Surjection(1..n, Signals)
  BY <1>1, <1>4, FS_Injection
<1>6. Order \in Seq(Signals) /\ Len(Order) = n /\ DOMAIN Order = 1..n
  BY <1>1, <1>3
<1> QED BY <1>1, <1>3, <1>5, <1>6 DEF IsInjective, Surjection

LEMMA WorkFacts ==
  ASSUME NEW w \in Work
  PROVE  /\ w.todo \in Seq(Signals) /\ Len(w.todo) \in Nat /\ DOMAIN w.todo = 1..Len(w.todo)
         /\ w.batch \in Seq(SnapRow) /\ Len(w.batch) \in Nat /\ DOMAIN w.batch = 1..Len(w.batch)
         /\ \A i \in DOMAIN w.batch : w.batch[i] \in SnapRow
         /\ w.since \in Nat /\ w.prev \in Seq(1..Editions)
BY DEF Work

LEMMA TableFacts ==
  ASSUME SnapTypes
  PROVE  /\ Len(table) \in Nat /\ DOMAIN table = 1..Len(table)
         /\ \A i \in DOMAIN table : table[i] \in SnapRow
<1>1. table \in Seq(SnapRow)
  BY DEF SnapTypes
<1> QED BY <1>1

LEMMA WaitingIsWork == Waiting \in Work
<1>1. <<>> \in Seq(Signals) /\ <<>> \in Seq(1..Editions) /\ <<>> \in Seq(SnapRow)
  OBVIOUS
<1>2. 0 \in 0..Editions /\ 0 \in Nat
  BY SnapshotsAssumption
<1> QED BY <1>1, <1>2 DEF Waiting, Work

LEMMA SnapInitInv == SnapshotsInit => SnapIInv
<1> SUFFICES ASSUME SnapshotsInit PROVE SnapIInv
  OBVIOUS
<1>1. SnapTypes
  BY WaitingIsWork, SnapshotsAssumption DEF SnapshotsInit, SnapTypes, Waiting
<1>2. InWork /\ AtRest
  BY DEF SnapshotsInit, InWork, AtRest, Waiting
<1>3. OneSnapshotEach /\ ChainBreaksOnlyByRace /\ ShownIsFrozen
  BY DEF SnapshotsInit, OneSnapshotEach, ChainBreaksOnlyByRace, ShownIsFrozen
<1> QED BY <1>1, <1>2, <1>3 DEF SnapIInv

\* A step that leaves the table alone: only the request it serves matters.
LEMMA TableKept ==
  ASSUME SnapIInv, NEW r \in Requests, NEW w \in Work,
         serving' = [serving EXCEPT ![r] = w],
         table' = table /\ edition' \in 1..Editions /\ outages' \in 0..MaxOutages,
         w.step = "look" => w.cards \in 1..Editions /\ Looked(w) /\ ChainedTo(w),
         w.step = "idle" => w = Waiting,
         shown' \subseteq [signal : Signals, card : 1..Editions] /\ refused' \subseteq Signals,
         \A p \in shown' : Frozen(p.signal) \/ p.signal \in refused'
  PROVE  SnapIInv'
<1>1. SnapTypes'
  BY DEF SnapIInv, SnapTypes
<1>2. \A x : Looked(x) /\ ChainedTo(x) => Looked(x)' /\ ChainedTo(x)'
  BY DEF Looked, ChainedTo, Frozen, InBatch
<1>3. InWork' /\ AtRest'
  BY <1>2 DEF SnapIInv, SnapTypes, InWork, AtRest, Waiting
<1>4. OneSnapshotEach' /\ ChainBreaksOnlyByRace' /\ ShownIsFrozen'
  BY DEF SnapIInv, OneSnapshotEach, ChainBreaksOnlyByRace, ShownIsFrozen, Frozen
<1> QED BY <1>1, <1>3, <1>4 DEF SnapIInv

LEMMA RescanInv == ASSUME SnapIInv, Rescan PROVE SnapIInv'
<1>1. SnapTypes'
  BY SnapshotsAssumption DEF SnapIInv, SnapTypes, Rescan
<1>2. \A x : Looked(x) /\ ChainedTo(x) => Looked(x)' /\ ChainedTo(x)'
  BY DEF Looked, ChainedTo, Frozen, InBatch, Rescan
<1>3. InWork' /\ AtRest'
  BY <1>2 DEF SnapIInv, InWork, AtRest, Waiting, Rescan
<1>4. OneSnapshotEach' /\ ChainBreaksOnlyByRace' /\ ShownIsFrozen'
  BY DEF SnapIInv, OneSnapshotEach, ChainBreaksOnlyByRace, ShownIsFrozen, Frozen, Rescan
<1> QED BY <1>1, <1>3, <1>4 DEF SnapIInv

LEMMA ServeInv == ASSUME SnapIInv, NEW r \in Requests, Serve(r) PROVE SnapIInv'
<1> DEFINE w == [step |-> "look", todo |-> Order, cards |-> edition, prev |-> TailHash,
                 batch |-> <<>>, since |-> Len(table)]
<1>1. SnapTypes /\ Len(table) \in Nat /\ DOMAIN table = 1..Len(table)
      /\ \A i \in DOMAIN table : table[i] \in SnapRow
  BY TableFacts DEF SnapIInv
<1>2. TailHash = IF Len(table) = 0 THEN <<>> ELSE table[Len(table)].hash
  BY <1>1 DEF TailHash, Last, SnapTypes
<1>3. TailHash \in Seq(1..Editions)
  <2>1. CASE Len(table) = 0
    BY <1>2, <2>1
  <2>2. CASE Len(table) # 0
    <3>1. table[Len(table)] \in SnapRow
      BY <1>1, <2>2
    <3> QED BY <1>2, <2>2, <3>1 DEF SnapRow
  <2> QED BY <2>1, <2>2
<1>4. w \in Work
  BY <1>1, <1>3, OrderFacts DEF Work, SnapTypes
<1>5. Looked(w) /\ ChainedTo(w) /\ w.cards \in 1..Editions
  <2>1. Looked(w)
    BY OrderFacts DEF Looked
  <2> QED BY <1>1, <1>2, <2>1 DEF ChainedTo, SnapTypes
<1>6. serving' = [serving EXCEPT ![r] = w] /\ table' = table /\ edition' = edition
      /\ outages' = outages /\ shown' = shown /\ refused' = refused
  BY DEF Serve
<1> HIDE DEF w
<1>7. w.step = "look"
  BY DEF w
<1>8. /\ edition' \in 1..Editions /\ outages' \in 0..MaxOutages
      /\ shown' \subseteq [signal : Signals, card : 1..Editions] /\ refused' \subseteq Signals
      /\ \A p \in shown' : Frozen(p.signal) \/ p.signal \in refused'
  BY <1>6 DEF SnapIInv, SnapTypes, ShownIsFrozen
<1>9. w.step # "idle"
  BY <1>7
<1> QED BY <1>4, <1>5, <1>6, <1>8, <1>9, TableKept

LEMMA LookInv == ASSUME SnapIInv, NEW r \in Requests, Look(r) PROVE SnapIInv'
<1> DEFINE w == serving[r]
           s == Head(w.todo)
           n == Len(Order) - Len(w.todo)
           row == SnapshotRow(r, s)
           todo == Tail(w.todo)
           batch == IF Wanted(r, s) THEN Append(w.batch, row) ELSE w.batch
           v == [w EXCEPT !.todo = todo, !.batch = batch]
<1>1. SnapTypes /\ w \in Work /\ w.step = "look" /\ w.todo # <<>> /\ w.cards \in 1..Editions
      /\ Looked(w) /\ ChainedTo(w)
  BY DEF SnapIInv, SnapTypes, InWork, Look
<1>2. /\ w.todo \in Seq(Signals) /\ Len(w.todo) \in Nat \ {0} /\ DOMAIN w.todo = 1..Len(w.todo)
      /\ w.batch \in Seq(SnapRow) /\ Len(w.batch) \in Nat /\ DOMAIN w.batch = 1..Len(w.batch)
      /\ \A i \in DOMAIN w.batch : w.batch[i] \in SnapRow
      /\ w.since \in Nat /\ w.prev \in Seq(1..Editions)
  <2> HIDE DEF w
  <2> QED BY <1>1, WorkFacts
<1>20. n = Len(Order) - Len(w.todo) /\ n \in 0..Len(Order)
  <2> HIDE DEF w
  <2> QED BY <1>1 DEF Looked
<1>21. \A i \in DOMAIN w.todo : w.todo[i] = Order[n + i]
  <2> HIDE DEF w
  <2> QED BY <1>1 DEF Looked
<1>22. \A i \in DOMAIN w.batch : \E m \in 1..n : w.batch[i].signal = Order[m]
  <2> HIDE DEF w
  <2> QED BY <1>1 DEF Looked
<1>23. /\ \A i, j \in DOMAIN w.batch : w.batch[i].signal = w.batch[j].signal => i = j
       /\ \A m \in 1..n : Card(Order[m], w.cards) # NoCard => Frozen(Order[m]) \/ InBatch(w, Order[m])
  <2> HIDE DEF w
  <2> QED BY <1>1 DEF Looked
<1>24. s = w.todo[1]
  BY <1>2
<1>25. /\ Wanted(r, s) <=> Card(s, w.cards) # NoCard /\ ~Frozen(s)
       /\ row = [signal |-> s, card |-> Card(s, w.cards), prev |-> Tip(r),
                 hash |-> Append(Tip(r), Card(s, w.cards)),
                 since |-> w.since, place |-> Len(w.batch) + 1]
       /\ Tip(r) = IF w.batch = <<>> THEN w.prev ELSE Last(w.batch).hash
  BY DEF Wanted, SnapshotRow, Tip
<1>10. serving' = [serving EXCEPT ![r] = v] /\ table' = table /\ edition' = edition
       /\ outages' = outages /\ shown' = shown /\ refused' = refused
  BY DEF Look
<1> HIDE DEF w, n, s, row
<1>26. Len(Order) \in Nat /\ Len(w.todo) \in Nat \ {0} /\ Len(w.batch) \in Nat
  BY <1>2, OrderFacts
<1>27. n \in Nat /\ n + 1 \in 1..Len(Order) /\ Len(Order) - (Len(w.todo) - 1) = n + 1
       /\ n + 1 \in 0..Len(Order) /\ 1 \in 1..Len(w.todo)
  BY <1>20, <1>26
<1>3. s \in Signals /\ s = Order[n + 1]
  <2>1. 1 \in DOMAIN w.todo /\ w.todo[1] \in Signals
    BY <1>2, <1>27
  <2> QED BY <1>21, <1>24, <2>1
<1>4. /\ todo \in Seq(Signals) /\ Len(todo) = Len(w.todo) - 1
      /\ DOMAIN todo = 1..Len(todo) /\ \A i \in DOMAIN todo : todo[i] = w.todo[i + 1]
  BY <1>2
<1>5. Tip(r) = (IF Len(w.batch) = 0 THEN w.prev ELSE w.batch[Len(w.batch)].hash)
  BY <1>2, <1>25 DEF Last
<1>6. Tip(r) \in Seq(1..Editions)
  <2>1. CASE Len(w.batch) = 0
    BY <1>2, <1>5, <2>1
  <2>2. CASE Len(w.batch) # 0
    <3>1. w.batch[Len(w.batch)] \in SnapRow
      BY <1>2, <2>2
    <3> QED BY <1>5, <2>2, <3>1 DEF SnapRow
  <2> QED BY <2>1, <2>2
<1>7. Wanted(r, s) =>
        /\ row \in SnapRow /\ row.signal = s /\ row.prev = Tip(r) /\ row.since = w.since
        /\ row.place = Len(w.batch) + 1
  <2> SUFFICES ASSUME Wanted(r, s)
               PROVE  /\ row \in SnapRow /\ row.signal = s /\ row.prev = Tip(r) /\ row.since = w.since
                      /\ row.place = Len(w.batch) + 1
    OBVIOUS
  <2>1. Card(s, w.cards) \in 1..Editions
    BY <1>1, <1>25 DEF Card
  <2>2. Append(Tip(r), Card(s, w.cards)) \in Seq(1..Editions)
    BY <1>6, <2>1
  <2> QED BY <1>2, <1>3, <1>6, <1>25, <2>1, <2>2 DEF SnapRow
<1>8. /\ batch \in Seq(SnapRow) /\ DOMAIN batch = 1..Len(batch) /\ Len(batch) \in Nat
      /\ Len(batch) = IF Wanted(r, s) THEN Len(w.batch) + 1 ELSE Len(w.batch)
      /\ \A i \in 1..Len(w.batch) : i \in DOMAIN batch /\ batch[i] = w.batch[i]
      /\ Wanted(r, s) => batch[Len(w.batch) + 1] = row
  BY <1>2, <1>7
<1>9. v \in Work /\ v.step = "look" /\ v.cards = w.cards /\ v.todo = todo /\ v.batch = batch
      /\ v.prev = w.prev /\ v.since = w.since
  BY <1>1, <1>4, <1>8 DEF Work
<1> HIDE DEF v, batch, todo
<1>11. Looked(v)
  <2>1. Len(Order) - Len(todo) = n + 1 /\ n + 1 \in 0..Len(Order)
    BY <1>4, <1>27
  <2>2. \A i \in DOMAIN todo : todo[i] = Order[(n + 1) + i]
    <3> TAKE i \in DOMAIN todo
    <3>0. i \in 1..(Len(w.todo) - 1)
      BY <1>4
    <3>1. i + 1 \in 1..Len(w.todo) /\ n + (i + 1) = (n + 1) + i
      BY <1>26, <1>27, <3>0
    <3>2. w.todo[i + 1] = Order[n + (i + 1)]
      BY <1>2, <1>21, <3>1
    <3> QED BY <1>4, <3>1, <3>2
  <2>3. \A i \in DOMAIN batch :
          \/ i \in 1..Len(w.batch) /\ batch[i] = w.batch[i]
          \/ Wanted(r, s) /\ i = Len(w.batch) + 1 /\ batch[i].signal = s
    BY <1>7, <1>8, <1>26
  <2>4. \A i \in DOMAIN batch : \E m \in 1..(n + 1) : batch[i].signal = Order[m]
    <3> TAKE i \in DOMAIN batch
    <3>1. CASE i \in 1..Len(w.batch) /\ batch[i] = w.batch[i]
      <4>1. PICK m \in 1..n : w.batch[i].signal = Order[m]
        BY <1>2, <1>22, <3>1
      <4>2. m \in 1..(n + 1)
        BY <1>27
      <4> QED BY <3>1, <4>1, <4>2
    <3>2. CASE batch[i].signal = s
      <4>1. n + 1 \in 1..(n + 1)
        BY <1>27
      <4> QED BY <1>3, <3>2, <4>1
    <3> QED BY <2>3, <3>1, <3>2
  <2>5. \A i \in 1..Len(w.batch) : w.batch[i].signal # s
    <3> TAKE i \in 1..Len(w.batch)
    <3>1. PICK m \in 1..n : w.batch[i].signal = Order[m]
      BY <1>2, <1>22
    <3>2. m \in 1..Len(Order) /\ m # n + 1
      BY <1>26, <1>27
    <3> QED BY <1>3, <1>27, <3>1, <3>2, OrderFacts
  <2>6. \A i, j \in DOMAIN batch : batch[i].signal = batch[j].signal => i = j
    BY <1>2, <1>23, <2>3, <2>5
  <2>7. \A m \in 1..(n + 1) : Card(Order[m], w.cards) # NoCard =>
          Frozen(Order[m]) \/ \E i \in DOMAIN batch : batch[i].signal = Order[m]
    <3> TAKE m \in 1..(n + 1)
    <3> HAVE Card(Order[m], w.cards) # NoCard
    <3>1. CASE m \in 1..n
      <4>1. Frozen(Order[m]) \/ \E i \in DOMAIN w.batch : w.batch[i].signal = Order[m]
        BY <1>23, <3>1 DEF InBatch
      <4> QED BY <1>2, <1>8, <4>1
    <3>2. CASE m = n + 1
      <4>1. CASE Frozen(s)
        BY <1>3, <3>2, <4>1
      <4>2. CASE ~Frozen(s)
        <5>1. Wanted(r, s)
          BY <1>3, <1>25, <3>2, <4>2
        <5>2. Len(w.batch) + 1 \in DOMAIN batch /\ batch[Len(w.batch) + 1].signal = Order[m]
          BY <1>3, <1>7, <1>8, <1>26, <3>2, <5>1
        <5> QED BY <5>2
      <4> QED BY <4>1, <4>2
    <3> QED BY <1>27, <3>1, <3>2
  <2> QED BY <1>9, <2>1, <2>2, <2>4, <2>6, <2>7 DEF Looked, InBatch
<1>12. ChainedTo(v)
  <2>1. ASSUME NEW i \in DOMAIN batch
        PROVE  /\ batch[i].place = i /\ batch[i].since = w.since
               /\ batch[i].prev = IF i = 1 THEN w.prev ELSE batch[i - 1].hash
    <3>1. CASE i \in 1..Len(w.batch)
      <4>1. i # 1 => i - 1 \in 1..Len(w.batch)
        BY <1>2, <3>1
      <4> QED BY <1>1, <1>2, <1>8, <3>1, <4>1 DEF ChainedTo
    <3>2. CASE i \notin 1..Len(w.batch)
      <4>1. Wanted(r, s) /\ i = Len(w.batch) + 1 /\ batch[i] = row
        BY <1>2, <1>8, <2>1, <3>2
      <4>2. i # 1 => Len(w.batch) \in 1..Len(w.batch) /\ i - 1 = Len(w.batch) /\ Len(w.batch) # 0
        BY <1>2, <4>1
      <4> QED BY <1>2, <1>5, <1>7, <1>8, <4>1, <4>2
    <3> QED BY <3>1, <3>2
  <2> QED BY <1>1, <1>9, <2>1 DEF ChainedTo
<1>13. /\ edition' \in 1..Editions /\ outages' \in 0..MaxOutages
       /\ shown' \subseteq [signal : Signals, card : 1..Editions] /\ refused' \subseteq Signals
       /\ \A p \in shown' : Frozen(p.signal) \/ p.signal \in refused'
  BY <1>10 DEF SnapIInv, SnapTypes, ShownIsFrozen
<1>14. v.step # "idle" /\ v.cards \in 1..Editions
  BY <1>1, <1>9
<1> QED BY <1>9, <1>10, <1>11, <1>12, <1>13, <1>14, TableKept

\* A request that is through has looked at every signal.
LEMMA AllLooked ==
  ASSUME SnapIInv, NEW r \in Requests, serving[r].step = "look", serving[r].todo = <<>>
  PROVE  \A p \in Answered(r) :
           /\ p \in [signal : Signals, card : 1..Editions]
           /\ Frozen(p.signal) \/ InBatch(serving[r], p.signal)
<1> DEFINE w == serving[r]
<1>1. Looked(w) /\ w.cards \in 1..Editions
  BY DEF SnapIInv, InWork, SnapTypes
<1>2. SUFFICES ASSUME NEW s \in Signals, Card(s, w.cards) # NoCard
               PROVE  Card(s, w.cards) \in 1..Editions /\ (Frozen(s) \/ InBatch(w, s))
  BY DEF Answered
<1>3. Len(Order) \in Nat /\ Len(w.todo) = 0
  BY OrderFacts
<1>4. Len(Order) - Len(w.todo) = Len(Order)
  BY <1>3
<1>5. PICK m \in 1..Len(Order) : Order[m] = s
  BY OrderFacts
<1> HIDE DEF w
<1>6. Frozen(Order[m]) \/ InBatch(w, Order[m])
  BY <1>1, <1>2, <1>4, <1>5 DEF Looked
<1> QED BY <1>1, <1>2, <1>5, <1>6 DEF Card

LEMMA RefusedInv ==
  ASSUME SnapIInv, NEW r \in Requests, NEW up \in BOOLEAN, Finish(r, up), ~up \/ Collides(r)
  PROVE  SnapIInv'
<1>1. /\ table' = table /\ edition' = edition /\ serving' = [serving EXCEPT ![r] = Waiting]
      /\ refused' = refused \union Batch(r) /\ shown' = shown \union Answered(r)
  BY DEF Finish
<1>2. outages' \in 0..MaxOutages
  BY SnapshotsAssumption DEF Finish, SnapIInv, SnapTypes
<1>3. \A p \in Answered(r) :
        p \in [signal : Signals, card : 1..Editions] /\ (Frozen(p.signal) \/ InBatch(serving[r], p.signal))
  BY AllLooked DEF Finish
<1>4. Batch(r) \subseteq Signals /\ \A s : InBatch(serving[r], s) => s \in Batch(r)
  <2>1. serving[r] \in Work
    BY DEF SnapIInv, SnapTypes
  <2>2. \A i \in DOMAIN serving[r].batch : serving[r].batch[i] \in SnapRow
    BY <2>1, WorkFacts
  <2> QED BY <2>2 DEF Batch, InBatch, SnapRow
<1>5. shown' \subseteq [signal : Signals, card : 1..Editions] /\ refused' \subseteq Signals
  BY <1>1, <1>3, <1>4 DEF SnapIInv, SnapTypes
<1>6. \A p \in shown' : Frozen(p.signal) \/ p.signal \in refused'
  BY <1>1, <1>3, <1>4 DEF SnapIInv, ShownIsFrozen
<1>7. edition' \in 1..Editions
  BY <1>1 DEF SnapIInv, SnapTypes
<1>8. Waiting.step # "look"
  BY DEF Waiting
<1> QED BY <1>1, <1>2, <1>5, <1>6, <1>7, <1>8, WaitingIsWork, TableKept

LEMMA CommittedInv ==
  ASSUME SnapIInv, NEW r \in Requests, Finish(r, TRUE), ~Collides(r)
  PROVE  SnapIInv'
<1> DEFINE w == serving[r]
           batch == w.batch
           n == Len(table)
<1>1. /\ table' = table \o batch /\ edition' = edition /\ serving' = [serving EXCEPT ![r] = Waiting]
      /\ refused' = refused /\ shown' = shown \union Answered(r) /\ outages' = outages
      /\ w.step = "look" /\ w.todo = <<>>
  BY DEF Finish
<1>2. /\ SnapTypes /\ w \in Work /\ Looked(w) /\ ChainedTo(w)
      /\ n \in Nat /\ DOMAIN table = 1..n /\ table \in Seq(SnapRow)
      /\ \A i \in DOMAIN table : table[i] \in SnapRow
  BY <1>1, TableFacts DEF SnapIInv, SnapTypes, InWork
<1>3. \A p \in Answered(r) :
        p \in [signal : Signals, card : 1..Editions] /\ (Frozen(p.signal) \/ InBatch(w, p.signal))
  BY <1>1, AllLooked
<1>4. \A i \in DOMAIN batch : ~Frozen(batch[i].signal)
  BY DEF Collides, Batch
<1> HIDE DEF w
<1>5. /\ batch \in Seq(SnapRow) /\ Len(batch) \in Nat /\ DOMAIN batch = 1..Len(batch)
      /\ \A i \in DOMAIN batch : batch[i] \in SnapRow
  BY <1>2, WorkFacts
<1> HIDE DEF batch, n
<1>6. /\ table' \in Seq(SnapRow) /\ DOMAIN table' = 1..(n + Len(batch)) /\ Len(table') = n + Len(batch)
      /\ \A i \in 1..n : table'[i] = table[i]
      /\ \A j \in 1..Len(batch) : table'[n + j] = batch[j]
  BY <1>1, <1>2, <1>5 DEF n
<1>7. \A i \in DOMAIN table' :
        \/ i \in 1..n /\ table'[i] = table[i]
        \/ i - n \in 1..Len(batch) /\ table'[i] = batch[i - n] /\ i = n + (i - n)
  <2> TAKE i \in DOMAIN table'
  <2>1. CASE i \in 1..n
    BY <1>6, <2>1
  <2>2. CASE i \notin 1..n
    <3>1. i - n \in 1..Len(batch) /\ n + (i - n) = i
      BY <1>2, <1>5, <1>6, <2>2
    <3> QED BY <1>6, <3>1
  <2> QED BY <2>1, <2>2
\* What is frozen stays so, and the batch is frozen with it.
<1>8. \A s : Frozen(s) \/ InBatch(w, s) => Frozen(s)'
  <2> SUFFICES ASSUME NEW s, Frozen(s) \/ InBatch(w, s) PROVE Frozen(s)'
    OBVIOUS
  <2>1. CASE Frozen(s)
    <3>1. PICK i \in DOMAIN table : table[i].signal = s
      BY <2>1 DEF Frozen
    <3>2. i \in 1..n /\ i \in 1..(n + Len(batch))
      BY <1>2, <1>5, <3>1
    <3> QED BY <1>6, <3>1, <3>2 DEF Frozen
  <2>2. CASE InBatch(w, s)
    <3>1. PICK j \in DOMAIN batch : batch[j].signal = s
      BY <2>2 DEF InBatch, batch
    <3>2. j \in 1..Len(batch) /\ n + j \in 1..(n + Len(batch))
      BY <1>2, <1>5, <3>1
    <3> QED BY <1>6, <3>1, <3>2 DEF Frozen
  <2> QED BY <2>1, <2>2
<1>9. SnapTypes'
  <2>1. shown' \subseteq [signal : Signals, card : 1..Editions]
    BY <1>1, <1>2, <1>3 DEF SnapTypes
  <2>2. serving' \in [Requests -> Work]
        /\ \A q \in Requests : serving'[q].step = "look" => serving'[q].cards \in 1..Editions
    BY <1>1, <1>2, WaitingIsWork DEF SnapTypes, Waiting
  <2> QED BY <1>1, <1>2, <1>6, <2>1, <2>2 DEF SnapTypes
<1>10. InWork'
  <2>1. ASSUME NEW x, Looked(x) PROVE Looked(x)'
    BY <1>8, <2>1 DEF Looked, InBatch
  <2>2. ASSUME NEW x \in Work, ChainedTo(x) PROVE ChainedTo(x)'
    <3>1. x.since \in Nat /\ x.since <= n
      BY <2>2, WorkFacts DEF ChainedTo, n
    <3>2. x.since # 0 => x.since \in 1..n
      BY <1>2, <3>1
    <3>3. x.since <= n + Len(batch)
      BY <1>2, <1>5, <3>1
    <3> QED BY <1>6, <2>2, <3>2, <3>3 DEF ChainedTo
  <2>3. \A q \in Requests : serving[q] \in Work
    BY <1>2 DEF SnapTypes
  <2>4. \A q \in Requests : serving'[q] = serving[q] \/ serving'[q].step = "idle"
    BY <1>1, <1>2 DEF SnapTypes, Waiting
  <2> QED BY <2>1, <2>2, <2>3, <2>4 DEF SnapIInv, InWork
<1>11. AtRest'
  BY <1>1, <1>2 DEF SnapIInv, SnapTypes, AtRest, Waiting
<1>12. OneSnapshotEach'
  <2> SUFFICES ASSUME NEW i \in DOMAIN table', NEW j \in DOMAIN table',
                      table'[i].signal = table'[j].signal
               PROVE  i = j
    BY DEF OneSnapshotEach
  <2>1. \A a, b \in DOMAIN batch : batch[a].signal = batch[b].signal => a = b
    BY <1>2 DEF Looked, batch
  <2>2. \A k \in 1..n, a \in DOMAIN batch : table[k].signal # batch[a].signal
    BY <1>2, <1>4 DEF Frozen
  <2>3. CASE i \in 1..n /\ j \in 1..n
    BY <1>2, <1>6, <2>3 DEF SnapIInv, OneSnapshotEach
  <2>4. CASE i \notin 1..n /\ j \notin 1..n
    BY <1>5, <1>7, <2>1, <2>4
  <2>5. \A a, b \in DOMAIN table' :
          a \in 1..n /\ b \notin 1..n => table'[a].signal # table'[b].signal
    <3> TAKE a, b \in DOMAIN table'
    <3> HAVE a \in 1..n /\ b \notin 1..n
    <3>1. table'[a] = table[a]
      BY <1>6
    <3>2. b - n \in DOMAIN batch /\ table'[b] = batch[b - n]
      BY <1>5, <1>7
    <3> QED BY <2>2, <3>1, <3>2
  <2> QED BY <2>3, <2>4, <2>5
<1>13. ChainBreaksOnlyByRace'
  <2> SUFFICES ASSUME NEW i \in DOMAIN table'
               PROVE  \/ table'[i].prev = (IF i = 1 THEN <<>> ELSE table'[i - 1].hash)
                      \/ table'[i].place = 1 /\ table'[i].since < i - 1
    BY DEF ChainBreaksOnlyByRace
  <2>1. CASE i \in 1..n
    <3>1. i # 1 => i - 1 \in 1..n
      BY <1>2, <2>1
    <3> QED BY <1>2, <1>6, <2>1, <3>1 DEF SnapIInv, ChainBreaksOnlyByRace
  <2>2. CASE i \notin 1..n
    <3> DEFINE j == i - n
    <3>1. j \in 1..Len(batch) /\ table'[i] = batch[j] /\ i = n + j
      BY <1>7, <2>2
    <3> HIDE DEF j
    <3>2. /\ batch[j].place = j /\ batch[j].since = w.since /\ w.since \in Nat /\ w.since <= n
          /\ batch[j].prev = IF j = 1 THEN w.prev ELSE batch[j - 1].hash
          /\ w.prev = IF w.since = 0 THEN <<>> ELSE table[w.since].hash
      BY <1>2, <1>5, <3>1, WorkFacts DEF ChainedTo, batch, n
    <3>3. CASE j # 1
      <4>1. j - 1 \in 1..Len(batch) /\ n + (j - 1) = i - 1 /\ i # 1
        BY <1>2, <1>5, <3>1, <3>3
      <4> QED BY <1>6, <3>1, <3>2, <3>3, <4>1
    <3>4. CASE j = 1 /\ w.since < n
      BY <1>2, <3>1, <3>2, <3>4
    <3>5. CASE j = 1 /\ w.since = n
      <4>1. i - 1 = n /\ (i = 1 <=> n = 0) /\ (n # 0 => n \in 1..n)
        BY <1>2, <3>1, <3>5
      <4> QED BY <1>6, <3>1, <3>2, <3>5, <4>1
    <3> QED BY <1>2, <3>2, <3>3, <3>4, <3>5
  <2> QED BY <2>1, <2>2
<1>14. ShownIsFrozen'
  BY <1>1, <1>3, <1>8 DEF SnapIInv, ShownIsFrozen
<1> QED BY <1>9, <1>10, <1>11, <1>12, <1>13, <1>14 DEF SnapIInv

LEMMA SnapStepInv == SnapIInv /\ [SnapshotsNext]_snapshotVars => SnapIInv'
<1> SUFFICES ASSUME SnapIInv, [SnapshotsNext]_snapshotVars PROVE SnapIInv'
  OBVIOUS
<1>1. ASSUME NEW r \in Requests, NEW up \in BOOLEAN, Finish(r, up) PROVE SnapIInv'
  <2>1. CASE ~up \/ Collides(r)
    BY <1>1, <2>1, RefusedInv
  <2>2. CASE up /\ ~Collides(r)
    <3>1. Finish(r, TRUE)
      BY <1>1, <2>2
    <3> QED BY <2>2, <3>1, CommittedInv
  <2> QED BY <2>1, <2>2
<1>2. CASE SnapshotsNext
  BY <1>1, <1>2, RescanInv, ServeInv, LookInv DEF SnapshotsNext, Answer
<1>3. CASE UNCHANGED snapshotVars
  BY <1>3 DEF snapshotVars, SnapIInv, SnapTypes, InWork, AtRest, Looked, ChainedTo, InBatch, Frozen,
              OneSnapshotEach, ChainBreaksOnlyByRace, ShownIsFrozen
<1> QED BY <1>2, <1>3

-----------------------------------------------------------------------------
\* What is left of a scan to look at is the end of its list.
LEMMA LookedIsSuffix ==
  ASSUME NEW w \in Work, w.todo = <<>> \/ Looked(w)
  PROVE  IsSuffix(w.todo, Order)
<1> DEFINE t == w.todo
           k == Len(t)
           N == Len(Order)
<1>1. k \in Nat /\ N \in Nat /\ k <= N /\ \A i \in 1..k : t[i] = Order[(N - k) + i]
  <2>1. t \in Seq(Signals) /\ DOMAIN t = 1..k /\ k \in Nat /\ N \in Nat
    BY WorkFacts, OrderFacts
  <2>2. CASE t = <<>>
    BY <2>1, <2>2
  <2>3. CASE Looked(w)
    <3>1. N - k \in 0..N /\ \A i \in 1..k : t[i] = Order[(N - k) + i]
      BY <2>1, <2>3 DEF Looked
    <3>2. k \in Nat /\ N \in Nat
      BY <2>1
    <3> HIDE DEF k, N, t
    <3>3. k <= N
      BY <3>1, <3>2
    <3> QED BY <3>1, <3>2, <3>3
  <2> QED BY <2>2, <2>3
<1> HIDE DEF t, k, N
<1>2. /\ Len(Reverse(t)) = k /\ Len(Reverse(Order)) = N
      /\ Reverse(t) = [i \in 1..k |-> t[(k - i) + 1]] /\ Reverse(Order) = [i \in 1..N |-> Order[(N - i) + 1]]
  BY <1>1 DEF Reverse, k, N
<1>3. \A i \in 1..k : Reverse(t)[i] = Reverse(Order)[i]
  <2> TAKE i \in 1..k
  <2>1. (k - i) + 1 \in 1..k /\ (N - k) + ((k - i) + 1) = (N - i) + 1 /\ i \in 1..N
    BY <1>1
  <2>2. t[(k - i) + 1] = Order[(N - i) + 1]
    BY <1>1, <2>1
  <2> QED BY <1>2, <2>1, <2>2
<1>4. SubSeq(Reverse(t), 1, k) = SubSeq(Reverse(Order), 1, k)
  <2>1. SubSeq(Reverse(t), 1, k) = [i \in 1..k |-> Reverse(t)[i]]
    BY <1>1, <1>2
  <2>2. SubSeq(Reverse(Order), 1, k) = [i \in 1..k |-> Reverse(Order)[i]]
    BY <1>1, <1>2
  <2> QED BY <1>3, <2>1, <2>2
<1> QED BY <1>1, <1>2, <1>4 DEF IsSuffix, IsPrefix, t

\* A signal has one snapshot whoever froze it, a row is chained to the row
\* before it but for a race, and what a reader was shown is frozen unless the
\* batch it came in was refused.
THEOREM SnapshotsAreSound == SnapshotsSpec => []SnapshotsInv
<1>1. ASSUME SnapIInv PROVE SnapshotsInv
  <2>1. \A i \in DOMAIN table : table[i].signal \in Signals /\ table[i].card \in 1..Editions
    BY <1>1, TableFacts DEF SnapIInv, SnapRow
  <2>2. ASSUME NEW r \in Requests
        PROVE  /\ serving[r].step \in {"idle", "look"} /\ serving[r].cards \in 0..Editions
               /\ IsSuffix(serving[r].todo, Order) /\ Batch(r) \subseteq Signals
    <3>1. serving[r] \in Work
      BY <1>1 DEF SnapIInv, SnapTypes
    <3>2. serving[r].todo = <<>> \/ Looked(serving[r])
      BY <1>1, <3>1 DEF SnapIInv, InWork, AtRest, Work, Waiting
    <3>3. \A i \in DOMAIN serving[r].batch : serving[r].batch[i].signal \in Signals
      BY <3>1, WorkFacts DEF SnapRow
    <3> QED BY <3>1, <3>2, <3>3, LookedIsSuffix DEF Work, Batch
  <2>3. SnapshotsTypeOK
    BY <1>1, <2>1, <2>2 DEF SnapIInv, SnapTypes, SnapshotsTypeOK
  <2> QED BY <1>1, <2>3 DEF SnapIInv, SnapshotsInv
<1> QED BY <1>1, SnapInitInv, SnapStepInv, PTL DEF SnapshotsSpec

-----------------------------------------------------------------------------
(***************************************************************************)
(* The prediction ledger (PredictionLedger), for every set of stocks and   *)
(* every price path. A card is fresh only while no forecast names it, and  *)
(* of a run's cards no two are the same.                                   *)
(***************************************************************************)

ForecastRow == [card : Cards, stamp : 1..LastSession]

PredictionTypes ==
  /\ today \in 1..LastSession
  /\ touch \in [Cards -> 1..LastSession \union {Never}]
  /\ \A c \in Cards : touch[c] # Never => touch[c] > Setup(c)
  /\ forecasts \in Seq(ForecastRow) /\ \A i \in DOMAIN forecasts : forecasts[i].stamp <= today
  /\ resolved \subseteq [predicts : DOMAIN forecasts, at : 1..today]

PredictionIInv == PredictionTypes /\ OneForecastEach /\ ResolvedInOrder

LEMMA ForecastFacts ==
  ASSUME PredictionTypes
  PROVE  /\ Len(forecasts) \in Nat /\ DOMAIN forecasts = 1..Len(forecasts)
         /\ \A i \in DOMAIN forecasts : forecasts[i] \in ForecastRow
<1>1. forecasts \in Seq(ForecastRow)
  BY DEF PredictionTypes
<1> QED BY <1>1

LEMMA PredictionInitInv == PredictionInit => PredictionIInv
<1> SUFFICES ASSUME PredictionInit PROVE PredictionIInv
  OBVIOUS
<1>1. PredictionTypes
  BY PredictionAssumption DEF PredictionInit, PredictionTypes
<1>2. OneForecastEach /\ ResolvedInOrder
  BY DEF PredictionInit, OneForecastEach, ResolvedInOrder
<1> QED BY <1>1, <1>2 DEF PredictionIInv

LEMMA SessionInv == ASSUME PredictionIInv, NextSession PROVE PredictionIInv'
<1>1. today \in 1..LastSession /\ today' \in 1..LastSession /\ today' = today + 1
  BY PredictionAssumption DEF PredictionIInv, PredictionTypes, NextSession
<1>2. 1..today \subseteq 1..today'
  BY <1>1
<1>3. resolved' \subseteq [predicts : DOMAIN forecasts', at : 1..today']
  BY <1>2 DEF PredictionIInv, PredictionTypes, NextSession
<1>4. \A i \in DOMAIN forecasts : forecasts[i].stamp <= today'
  <2>1. \A i \in DOMAIN forecasts : forecasts[i].stamp \in Nat
    BY ForecastFacts DEF PredictionIInv, ForecastRow
  <2> QED BY <1>1, <2>1 DEF PredictionIInv, PredictionTypes
<1>5. PredictionTypes'
  BY <1>1, <1>3, <1>4 DEF PredictionIInv, PredictionTypes, NextSession
<1>6. OneForecastEach' /\ ResolvedInOrder'
  BY DEF PredictionIInv, OneForecastEach, ResolvedInOrder, NextSession
<1> QED BY <1>5, <1>6 DEF PredictionIInv

\* The cards a run forecasts: each once, none that has a forecast.
LEMMA FreshCards ==
  ASSUME PredictionTypes, NEW names \in SUBSET Stocks, NEW late \in BOOLEAN,
         NEW order \in Orders(Fresh(names, late))
  PROVE  /\ Len(order) \in Nat /\ DOMAIN order = 1..Len(order)
         /\ Forecast(order) \in Seq(ForecastRow) /\ Len(Forecast(order)) = Len(order)
         /\ \A i \in 1..Len(order) :
              /\ Forecast(order)[i].card = order[i] /\ Forecast(order)[i].stamp = today
              /\ ~Seen(order[i])
         /\ \A i, j \in 1..Len(order) : order[i] = order[j] => i = j
<1> DEFINE cards == Fresh(names, late)
           n == Cardinality(cards)
<1>1. cards \subseteq Cards /\ IsFiniteSet(cards)
  <2>1. SetupWeek \subseteq Fridays /\ Fridays \subseteq 1..LastSession
    BY DEF SetupWeek, Fridays
  <2>2. IsFiniteSet(SetupWeek)
    <3>1. IsFiniteSet(1..LastSession)
      BY FS_Interval, PredictionAssumption
    <3> QED BY <2>1, <3>1, FS_Subset
  <2>3. IsFiniteSet(names \X SetupWeek)
    <3>1. IsFiniteSet(names)
      BY FS_Subset, PredictionAssumption
    <3> QED BY <2>2, <3>1, FS_Product
  <2>4. cards \subseteq names \X SetupWeek
    BY DEF Fresh
  <2>5. IsFiniteSet(cards)
    BY <2>3, <2>4, FS_Subset
  <2> QED BY <2>1, <2>4, <2>5 DEF Cards
<1>2. n \in Nat
  BY <1>1, FS_CardinalityType
<1>3. order \in [1..n -> cards] /\ \A i, j \in DOMAIN order : i # j => order[i] # order[j]
  BY DEF Orders
<1>4. order \in Seq(cards) /\ Len(order) = n /\ DOMAIN order = 1..n
  BY <1>2, <1>3
<1>5. \A c \in cards : ~Seen(c)
  BY DEF Fresh
<1>6. Forecast(order) = [i \in 1..n |-> [card |-> order[i], stamp |-> today]]
  BY <1>4 DEF Forecast
<1>7. \A i \in 1..n : [card |-> order[i], stamp |-> today] \in ForecastRow
  BY <1>1, <1>3 DEF ForecastRow, PredictionTypes
<1> HIDE DEF n, cards
<1>8. Forecast(order) \in Seq(ForecastRow) /\ Len(Forecast(order)) = n
  BY <1>2, <1>6, <1>7
<1> QED BY <1>2, <1>3, <1>4, <1>5, <1>6, <1>8

LEMMA ProduceInv ==
  ASSUME PredictionIInv, NEW names \in SUBSET Stocks, NEW late \in BOOLEAN, Produce(names, late)
  PROVE  PredictionIInv'
<1>1. PICK order \in Orders(Fresh(names, late)) :
        LET ledger == forecasts \o Forecast(order) IN
        /\ forecasts' = ledger
        /\ resolved' = resolved \union
             {[predicts |-> i, at |-> touch[ledger[i].card]] :
                i \in {k \in Open(ledger) : Decided(ledger[k]) /\ Reached(ledger, k)}}
        /\ UNCHANGED <<today, touch>>
  BY DEF Produce
<1> DEFINE new == Forecast(order)
           n == Len(forecasts)
           m == Len(order)
<1>2. /\ m \in Nat /\ new \in Seq(ForecastRow) /\ Len(new) = m
      /\ \A i \in 1..m : new[i].card = order[i] /\ new[i].stamp = today /\ ~Seen(order[i])
      /\ \A i, j \in 1..m : order[i] = order[j] => i = j
  <2> HIDE DEF new, n, m
  <2>1. PredictionTypes
    BY DEF PredictionIInv
  <2>2. /\ Len(order) \in Nat
        /\ Forecast(order) \in Seq(ForecastRow) /\ Len(Forecast(order)) = Len(order)
    BY <2>1, FreshCards, ZenonT(60)
  <2>3. \A i \in 1..Len(order) :
           /\ Forecast(order)[i].card = order[i] /\ Forecast(order)[i].stamp = today
           /\ ~Seen(order[i])
    BY <2>1, FreshCards, ZenonT(60)
  <2>4. \A i, j \in 1..Len(order) : order[i] = order[j] => i = j
    BY <2>1, FreshCards, ZenonT(60)
  <2> QED BY <2>2, <2>3, <2>4 DEF new, m
<1>3. n \in Nat /\ DOMAIN forecasts = 1..n /\ forecasts \in Seq(ForecastRow)
  BY ForecastFacts DEF PredictionIInv, PredictionTypes
<1>4. today' = today /\ touch' = touch /\ today \in 1..LastSession
  BY <1>1 DEF PredictionIInv, PredictionTypes
<1>20. forecasts' = forecasts \o new
  BY <1>1
<1> HIDE DEF new, n, m
<1>5. /\ forecasts' \in Seq(ForecastRow) /\ DOMAIN forecasts' = 1..(n + m)
      /\ \A i \in 1..n : forecasts'[i] = forecasts[i]
      /\ \A j \in 1..m : forecasts'[n + j] = new[j]
  <2>1. forecasts \o new \in Seq(ForecastRow) /\ Len(forecasts \o new) = n + m
        /\ \A i \in 1..(n + m) : (forecasts \o new)[i] = IF i <= n THEN forecasts[i] ELSE new[i - n]
    BY <1>2, <1>3, ConcatProperties DEF n
  <2>2. \A i \in 1..n : i \in 1..(n + m) /\ i <= n
    BY <1>2, <1>3
  <2>3. \A j \in 1..m : n + j \in 1..(n + m) /\ ~(n + j <= n) /\ (n + j) - n = j
    BY <1>2, <1>3
  <2> QED BY <1>20, <2>1, <2>2, <2>3
<1>6. \A i \in 1..(n + m) :
        \/ i \in 1..n /\ forecasts'[i] = forecasts[i]
        \/ i - n \in 1..m /\ forecasts'[i] = new[i - n]
  <2> TAKE i \in 1..(n + m)
  <2>1. CASE i \in 1..n
    BY <1>5, <2>1
  <2>2. CASE i \notin 1..n
    <3>1. i - n \in 1..m /\ n + (i - n) = i
      BY <1>2, <1>3, <2>2
    <3> QED BY <1>5, <3>1
  <2> QED BY <2>1, <2>2
\* What this run resolves: forecasts that were open and touched by now, none
\* before its stamp.
<1>7. \A r \in resolved' : r \in resolved \/
        \E i \in 1..(n + m) :
          /\ r = [predicts |-> i, at |-> touch[forecasts'[i].card]]
          /\ \A s \in resolved : s.predicts # i
          /\ Decided(forecasts'[i]) /\ ~Backdated(forecasts'[i])
  <2> SUFFICES ASSUME NEW r \in resolved', r \notin resolved
               PROVE  \E i \in 1..(n + m) :
                        /\ r = [predicts |-> i, at |-> touch[forecasts'[i].card]]
                        /\ \A s \in resolved : s.predicts # i
                        /\ Decided(forecasts'[i]) /\ ~Backdated(forecasts'[i])
    OBVIOUS
  <2>1. PICK i \in Open(forecasts') :
          /\ r = [predicts |-> i, at |-> touch[forecasts'[i].card]]
          /\ Decided(forecasts'[i]) /\ Reached(forecasts', i)
    BY <1>1
  <2>2. i \in 1..(n + m) /\ \A s \in resolved : s.predicts # i
    BY <1>5 DEF Open
  <2>3. i <= i
    BY <1>2, <1>3, <2>2
  <2>4. ~Backdated(forecasts'[i])
    BY <2>1, <2>3 DEF Reached
  <2> QED BY <2>1, <2>2, <2>4
<1>8. \A i \in 1..(n + m) : forecasts'[i] \in ForecastRow
  <2>1. \A q \in Seq(ForecastRow) : \A i \in DOMAIN q : q[i] \in ForecastRow
    OBVIOUS
  <2> QED BY <1>5, <2>1
<1>9. \A f \in ForecastRow : Decided(f) /\ ~Backdated(f) =>
        /\ touch[f.card] \in 1..today /\ Setup(f.card) < touch[f.card]
        /\ f.stamp < touch[f.card] \/ f.stamp = touch[f.card]
  <2> TAKE f \in ForecastRow
  <2> HAVE Decided(f) /\ ~Backdated(f)
  <2>1. f.card \in Cards /\ f.stamp \in 1..LastSession /\ touch[f.card] \in 1..LastSession \union {Never}
    BY DEF ForecastRow, PredictionIInv, PredictionTypes
  <2>2. touch[f.card] > Setup(f.card)
    BY <2>1 DEF Decided, PredictionIInv, PredictionTypes
  <2>3. Setup(f.card) < touch[f.card]
    BY <2>2
  <2> QED BY <1>4, <2>1, <2>3, PredictionAssumption DEF Decided, Backdated
<1>10. PredictionTypes'
  <2>1. \A i \in 1..(n + m) : forecasts'[i].stamp <= today
    <3> TAKE i \in 1..(n + m)
    <3>1. CASE i \in 1..n /\ forecasts'[i] = forecasts[i]
      BY <1>3, <3>1 DEF PredictionIInv, PredictionTypes
    <3>2. CASE i - n \in 1..m /\ forecasts'[i] = new[i - n]
      <4>1. forecasts'[i].stamp = today
        BY <1>2, <3>2
      <4> QED BY <1>4, <4>1
    <3> QED BY <1>6, <3>1, <3>2
  <2>2. \A r \in resolved' : r \in [predicts : DOMAIN forecasts', at : 1..today]
    <3> TAKE r \in resolved'
    <3>1. CASE r \in resolved
      <4>1. r \in [predicts : 1..n, at : 1..today]
        BY <1>3, <3>1 DEF PredictionIInv, PredictionTypes
      <4>2. 1..n \subseteq 1..(n + m)
        BY <1>2, <1>3
      <4> QED BY <1>5, <4>1, <4>2
    <3>2. CASE r \notin resolved
      BY <1>5, <1>7, <1>8, <1>9, <3>2
    <3> QED BY <3>1, <3>2
  <2> QED BY <1>4, <1>5, <2>1, <2>2 DEF PredictionIInv, PredictionTypes
<1>11. \A i, j \in 1..(n + m) : forecasts'[i].card = forecasts'[j].card => i = j
  <2>1. \A i \in 1..n, j \in 1..m : forecasts[i].card # order[j]
    BY <1>2, <1>3 DEF Seen
  <2>2. \A i \in 1..(n + m) : i \in 1..n \/ (forecasts'[i].card = order[i - n] /\ i - n \in 1..m)
    BY <1>2, <1>6
  <2> TAKE i, j \in 1..(n + m)
  <2> HAVE forecasts'[i].card = forecasts'[j].card
  <2>3. CASE i \in 1..n /\ j \in 1..n
    BY <1>3, <1>5, <2>3 DEF PredictionIInv, OneForecastEach
  <2>4. CASE i \in 1..n /\ j \notin 1..n
    BY <1>5, <2>1, <2>2, <2>4
  <2>5. CASE i \notin 1..n /\ j \in 1..n
    BY <1>5, <2>1, <2>2, <2>5
  <2>6. CASE i \notin 1..n /\ j \notin 1..n
    <3>1. i - n = j - n
      BY <1>2, <2>2, <2>6
    <3> QED BY <1>3, <3>1
  <2> QED BY <2>3, <2>4, <2>5, <2>6
<1>12. \A r, s \in resolved' : r.predicts = s.predicts => r = s
  <2> TAKE r, s \in resolved'
  <2> HAVE r.predicts = s.predicts
  <2>1. CASE r \in resolved /\ s \in resolved
    BY <2>1 DEF PredictionIInv, OneForecastEach
  <2>2. CASE r \notin resolved /\ s \notin resolved
    BY <1>7, <2>2
  <2>3. CASE r \in resolved /\ s \notin resolved
    BY <1>7, <2>3
  <2>4. CASE r \notin resolved /\ s \in resolved
    BY <1>7, <2>4
  <2> QED BY <2>1, <2>2, <2>3, <2>4
<1>13. ResolvedInOrder'
  <2> SUFFICES ASSUME NEW r \in resolved'
               PROVE  LET forecast == forecasts'[r.predicts] IN
                      forecast.stamp < r.at \/ (forecast.stamp = r.at /\ Setup(forecast.card) < forecast.stamp)
    BY DEF ResolvedInOrder, Setup
  <2>1. CASE r \in resolved
    <3>1. r.predicts \in 1..n
      BY <1>3, <2>1 DEF PredictionIInv, PredictionTypes
    <3>2. forecasts'[r.predicts] = forecasts[r.predicts]
      BY <1>5, <3>1
    <3> QED BY <2>1, <3>2 DEF PredictionIInv, ResolvedInOrder
  <2>2. CASE r \notin resolved
    <3>1. PICK i \in 1..(n + m) :
            /\ r = [predicts |-> i, at |-> touch[forecasts'[i].card]]
            /\ Decided(forecasts'[i]) /\ ~Backdated(forecasts'[i])
      BY <1>7, <2>2
    <3> QED BY <1>8, <1>9, <3>1
  <2> QED BY <2>1, <2>2
<1> QED BY <1>5, <1>10, <1>11, <1>12, <1>13 DEF PredictionIInv, OneForecastEach

LEMMA PredictionStepInv == PredictionIInv /\ [PredictionNext]_predictionVars => PredictionIInv'
<1> SUFFICES ASSUME PredictionIInv, [PredictionNext]_predictionVars PROVE PredictionIInv'
  OBVIOUS
<1>1. CASE PredictionNext
  BY <1>1, SessionInv, ProduceInv DEF PredictionNext
<1>2. CASE UNCHANGED predictionVars
  BY <1>2 DEF predictionVars, PredictionIInv, PredictionTypes, OneForecastEach, ResolvedInOrder
<1> QED BY <1>1, <1>2

-----------------------------------------------------------------------------
\* One forecast to a card and one resolution to a forecast, by no price older
\* than the stamp; a price of the stamp's own session resolves a forecast only
\* when it was stamped after its setup.
THEOREM PredictionsAreSound == PredictionSpec => []PredictionInv
<1>1. ASSUME PredictionIInv PROVE PredictionInv
  <2>1. \A i \in DOMAIN forecasts : forecasts[i].card \in Cards /\ forecasts[i].stamp \in 1..today
    <3> TAKE i \in DOMAIN forecasts
    <3>1. forecasts[i] \in ForecastRow
      BY <1>1, ForecastFacts DEF PredictionIInv
    <3>2. forecasts[i].stamp <= today /\ today \in 1..LastSession
      BY <1>1 DEF PredictionIInv, PredictionTypes
    <3> QED BY <3>1, <3>2 DEF ForecastRow
  <2> QED BY <1>1, <2>1 DEF PredictionIInv, PredictionInv, PredictionTypes, PredictionTypeOK
<1> QED BY <1>1, PredictionInitInv, PredictionStepInv, PTL DEF PredictionSpec
=============================================================================
