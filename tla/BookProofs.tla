-------------------------- MODULE BookProofs --------------------------
(***************************************************************************)
(* Proofs about the simulated books: the rotation, the price cache the     *)
(* weekly book is rebuilt from, a position of it across a demerger, and    *)
(* the paper book beside the backtest.                                     *)
(***************************************************************************)
EXTENDS RebalanceBook, PriceCache, HeldPosition, PaperBook, OrderLemmas, FiniteSetTheorems, TLAPS

-----------------------------------------------------------------------------
(***************************************************************************)
(* The rotation simulator (RebalanceBook), for every finite universe,      *)
(* buffer and window of absence. The cap on positions is kept because what *)
(* is held and quoted after a session is what is wanted (a position is     *)
(* always looked at, and sold when it is quoted and not wanted), and no    *)
(* ranking wants more names than the buffer.                               *)
(***************************************************************************)

\* The names of positive weight are no more than the buffer holds.
TargetsFit == Cardinality(targets) <= KeepTo

RebalanceIInv == RebalanceTypeOK /\ TargetsFit /\ CapHolds /\ AbsenceWindow /\ ExitNotForgotten

LEMMA RebalanceInitInv == RebalanceInit => RebalanceIInv
<1> SUFFICES ASSUME RebalanceInit PROVE RebalanceIInv
  OBVIOUS
<1> USE RebalanceAssumption
<1>1. DOMAIN absent = {} /\ absent \in [{} -> 0..StaleAbsent - 1]
  BY DEF RebalanceInit
<1>2. Cardinality({}) = 0
  BY FS_EmptySet
<1>3. Cardinality(Positions \intersect quoted) = 0 /\ Cardinality(targets) = 0
  BY <1>1, <1>2 DEF RebalanceInit, Positions
<1>4. TargetsFit /\ CapHolds
  BY <1>3 DEF TargetsFit, CapHolds
<1>5. RebalanceTypeOK
  BY <1>1 DEF RebalanceInit, RebalanceTypeOK, Positions
<1>6. AbsenceWindow /\ ExitNotForgotten
  BY <1>1 DEF AbsenceWindow, ExitNotForgotten, Positions
<1> QED BY <1>4, <1>5, <1>6 DEF RebalanceIInv

\* A ranking chooses no more names than the buffer, for it chooses them by
\* places, none of which is beyond it.
LEMMA ChosenFits ==
  ASSUME NEW ranked \in Rankings, NEW exposed \in BOOLEAN, quoted \subseteq Universe
  PROVE  /\ Chosen(ranked, exposed) \subseteq quoted
         /\ Cardinality(Chosen(ranked, exposed)) <= KeepTo
<1> USE RebalanceAssumption
<1>1. PICK k \in 0..Cardinality(quoted) : ranked \in [1..k -> quoted]
  BY DEF Rankings
<1>2. IsFiniteSet(quoted) /\ Cardinality(quoted) \in Nat
  BY FS_Subset, FS_CardinalityType
<1>3. k \in Nat
  BY <1>1, <1>2
<1>4. CASE ~exposed
  <2>1. Chosen(ranked, exposed) = {}
    BY <1>4 DEF Chosen
  <2> QED BY <2>1, FS_EmptySet
<1>5. CASE exposed
  <2> DEFINE Places == {j \in DOMAIN ranked : j <= TopN \/ (j <= KeepTo /\ ranked[j] \in Positions)}
             Named == [i \in Places |-> ranked[i]]
  <2>1. Chosen(ranked, exposed) = {ranked[i] : i \in Places}
    BY <1>5 DEF Chosen
  <2>2. Places \in SUBSET (1..KeepTo)
    BY <1>1, <1>3
  <2>3. IsFiniteSet(1..KeepTo) /\ Cardinality(1..KeepTo) = KeepTo
    BY FS_Interval
  <2>4. IsFiniteSet(Places) /\ Cardinality(Places) <= KeepTo
    BY <2>2, <2>3, FS_Subset
  <2>5. Named \in Surjection(Places, Chosen(ranked, exposed))
    BY <2>1 DEF Surjection
  <2>6. /\ Cardinality(Chosen(ranked, exposed)) <= Cardinality(Places)
        /\ IsFiniteSet(Chosen(ranked, exposed))
    BY <2>4, <2>5, FS_Surjection
  <2>7. Cardinality(Chosen(ranked, exposed)) \in Nat /\ Cardinality(Places) \in Nat
    BY <2>4, <2>6, FS_CardinalityType
  <2>8. Chosen(ranked, exposed) \subseteq quoted
    BY <2>1, <1>1
  <2> QED BY <2>4, <2>6, <2>7, <2>8
<1> QED BY <1>4, <1>5

\* What is held after a session: a name without a quote was held before and
\* is one session nearer to the end of the window, a quoted one is wanted.
LEMMA AfterTrade ==
  ASSUME RebalanceIInv,
         NEW bought \in SUBSET (targets \ Positions), NEW trimmed \in SUBSET (targets \intersect Positions),
         NEW period \in BOOLEAN, Trade(bought, trimmed, period)
  PROVE  /\ DOMAIN absent' \subseteq Universe
         /\ \A n \in DOMAIN absent' :
              IF n \in quoted' THEN n \in targets /\ absent'[n] = 0
              ELSE absent'[n] \in 1..StaleAbsent - 1
<1> USE RebalanceAssumption
<1>1. DOMAIN absent' = (Positions \union bought) \ (Sold \union trimmed \union Stuck)
  BY DEF Trade
<1>2. Positions \subseteq Universe /\ targets \subseteq Universe
  BY DEF RebalanceIInv, RebalanceTypeOK
<1>3. ASSUME NEW n \in DOMAIN absent', n \in quoted'
      PROVE  n \in targets /\ absent'[n] = 0
  <2>1. n \in targets
    BY <1>1, <1>3 DEF Sold, LookedAt, Positions
  <2>2. n \notin DOMAIN AbsentOnce
    BY <1>3 DEF AbsentOnce
  <2> QED BY <1>1, <1>3, <2>1, <2>2 DEF Trade
<1>4. ASSUME NEW n \in DOMAIN absent', n \notin quoted'
      PROVE  absent'[n] \in 1..StaleAbsent - 1
  <2>1. n \in Positions /\ n \notin Stuck
    BY <1>1, <1>4 DEF Trade
  <2>2. n \in DOMAIN AbsentOnce /\ AbsentOnce[n] = absent[n] + 1
    BY <1>4, <2>1 DEF AbsentOnce, LookedAt
  <2>3. absent[n] \in 0..StaleAbsent - 1
    BY <2>1 DEF RebalanceIInv, RebalanceTypeOK
  <2>4. absent'[n] = AbsentOnce[n]
    BY <1>1, <1>4, <2>2 DEF Trade
  <2>5. ~(AbsentOnce[n] >= StaleAbsent)
    BY <2>1, <2>2 DEF Stuck
  <2> QED BY <2>2, <2>3, <2>4, <2>5
<1> QED BY <1>1, <1>2, <1>3, <1>4

\* Every step keeps the invariant: a session through AfterTrade, a ranking
\* through ChosenFits.
LEMMA RebalanceStepInv == RebalanceIInv /\ [RebalanceNext]_rebalanceVars => RebalanceIInv'
<1> SUFFICES ASSUME RebalanceIInv, [RebalanceNext]_rebalanceVars PROVE RebalanceIInv'
  OBVIOUS
<1> USE RebalanceAssumption
<1>1. ASSUME NEW bought \in SUBSET (targets \ Positions), NEW trimmed \in SUBSET (targets \intersect Positions),
             NEW period \in BOOLEAN, Trade(bought, trimmed, period)
      PROVE  RebalanceIInv'
  <2>1. /\ DOMAIN absent' \subseteq Universe
        /\ \A n \in DOMAIN absent' :
             IF n \in quoted' THEN n \in targets /\ absent'[n] = 0
             ELSE absent'[n] \in 1..StaleAbsent - 1
    BY <1>1, AfterTrade
  <2>2. targets' = targets /\ zeros' = {} /\ due' \in BOOLEAN /\ quoted' \subseteq Universe
    BY <1>1 DEF Trade
  <2>3. absent' = [n \in DOMAIN absent' |-> absent'[n]]
    BY <1>1 DEF Trade
  <2>4. \A n \in DOMAIN absent' : absent'[n] \in 0..StaleAbsent - 1
    BY <2>1
  <2>5. RebalanceTypeOK'
    BY <2>1, <2>2, <2>3, <2>4 DEF RebalanceIInv, RebalanceTypeOK, Positions
  <2>6. TargetsFit'
    BY <2>2 DEF RebalanceIInv, TargetsFit
  <2>7. CapHolds'
    <3>1. (Positions \intersect quoted)' \in SUBSET targets
      BY <2>1 DEF Positions
    <3>2. IsFiniteSet(targets)
      BY FS_Subset DEF RebalanceIInv, RebalanceTypeOK
    <3>3. Cardinality((Positions \intersect quoted)') <= Cardinality(targets)
      BY <3>1, <3>2, FS_Subset
    <3>4. Cardinality((Positions \intersect quoted)') \in Nat /\ Cardinality(targets) \in Nat
      BY <3>1, <3>2, FS_Subset, FS_CardinalityType
    <3> QED BY <3>3, <3>4 DEF RebalanceIInv, TargetsFit, CapHolds
  <2>8. AbsenceWindow'
    BY <2>1 DEF AbsenceWindow, Positions
  <2>9. ExitNotForgotten'
    BY <2>1, <2>2 DEF ExitNotForgotten, Positions
  <2> QED BY <2>5, <2>6, <2>7, <2>8, <2>9 DEF RebalanceIInv
<1>2. ASSUME NEW ranked \in Rankings, NEW exposed \in BOOLEAN, Rerank(ranked, exposed)
      PROVE  RebalanceIInv'
  <2>1. absent' = absent /\ quoted' = quoted /\ due' = FALSE
    BY <1>2 DEF Rerank
  <2>2. /\ targets' \subseteq Universe
        /\ Cardinality(targets') <= KeepTo
        /\ (targets' = targets /\ zeros' = zeros) \/ zeros' = Positions \ targets'
    <3>1. CASE DOMAIN ranked = {}
      BY <1>2, <3>1 DEF Rerank, RebalanceIInv, RebalanceTypeOK, TargetsFit
    <3>2. CASE DOMAIN ranked # {}
      BY <1>2, <3>2, ChosenFits DEF Rerank, RebalanceIInv, RebalanceTypeOK
    <3> QED BY <3>1, <3>2
  <2>3. RebalanceTypeOK'
    BY <2>1, <2>2 DEF RebalanceIInv, RebalanceTypeOK, Positions
  <2>4. ExitNotForgotten'
    BY <2>1, <2>2 DEF RebalanceIInv, ExitNotForgotten, Positions
  <2> QED BY <2>1, <2>2, <2>3, <2>4 DEF RebalanceIInv, TargetsFit, CapHolds, AbsenceWindow, Positions
<1>3. CASE UNCHANGED rebalanceVars
  BY <1>3 DEF rebalanceVars, RebalanceIInv, RebalanceTypeOK, TargetsFit, CapHolds, AbsenceWindow,
              ExitNotForgotten, Positions
<1> QED BY <1>1, <1>2, <1>3 DEF RebalanceNext

\* The strengthened invariant holds throughout.
THEOREM RebalanceInvariant == RebalanceSpec => []RebalanceIInv
<1> QED BY RebalanceInitInv, RebalanceStepInv, PTL DEF RebalanceSpec

\* The types of the book, for every universe and every ranking of it.
THEOREM BookTypes == RebalanceSpec => []RebalanceTypeOK
<1>1. RebalanceIInv => RebalanceTypeOK
  BY DEF RebalanceIInv
<1> QED BY <1>1, RebalanceInvariant, PTL

\* rebalance_book.py:371 never raises: after every session the positions that
\* could have been traded are no more than the cap.
THEOREM EngineNeverStops == RebalanceSpec => []CapHolds
<1>1. RebalanceIInv => CapHolds
  BY DEF RebalanceIInv
<1> QED BY <1>1, RebalanceInvariant, PTL

\* A position without a quote is always inside the window that closes it.
THEOREM AbsentAreClosing == RebalanceSpec => []AbsenceWindow
<1>1. RebalanceIInv => AbsenceWindow
  BY DEF RebalanceIInv
<1> QED BY <1>1, RebalanceInvariant, PTL

\* What was dropped is held only for want of a quote, or until the next open.
THEOREM DroppedAreSold == RebalanceSpec => []ExitNotForgotten
<1>1. RebalanceIInv => ExitNotForgotten
  BY DEF RebalanceIInv
<1> QED BY <1>1, RebalanceInvariant, PTL

\* The rotation's own accounting rules are never broken, so the engine never
\* stops on them, for any universe, ranking, suspension and exposure.
THEOREM RotationKeepsItsRules == RebalanceSpec => []RebalanceInv
BY BookTypes, EngineNeverStops, AbsentAreClosing, DroppedAreSold, PTL DEF RebalanceInv

-----------------------------------------------------------------------------
(***************************************************************************)
(* The price cache (PriceCache), for every calendar, every window with a   *)
(* week to spare, and every order of splits, refreshes and scans. A scan   *)
(* that works leaves no stale bar, and its top-up reaches back so far that *)
(* the first day of the next scan's window lies before whatever the wall   *)
(* may re-base in between.                                                 *)
(***************************************************************************)

\* Bars as the cache has them, and as the vendor serves them today.
BarSeries(bars) ==
  /\ DOMAIN bars \subseteq 1..clock
  /\ bars = [d \in DOMAIN bars |-> bars[d]]
  /\ \A d \in DOMAIN bars : bars[d] \subseteq exdates
Fetched(bars) ==
  /\ BarSeries(bars)
  /\ \A d \in DOMAIN bars : bars[d] = {s \in exdates : s > d}

LEMMA DownloadFetches ==
  ASSUME PricesTypeOK, NEW answered \in BOOLEAN, NEW from \in Int, NEW n \in Nat
  PROVE  /\ Fetched(Download(answered, from, n))
         /\ DOMAIN Download(answered, from, n) \subseteq from..clock
<1> DEFINE days == {d \in from..clock : d >= served}
<1>1. days \subseteq 1..clock /\ days \subseteq from..clock
  BY DEF PricesTypeOK
<1>2. CASE answered /\ Cardinality(days) >= n
  <2>1. Download(answered, from, n) = [d \in days |-> {s \in exdates : s > d}]
    BY <1>2 DEF Download
  <2> QED BY <1>1, <2>1 DEF Fetched, BarSeries
<1>3. CASE ~(answered /\ Cardinality(days) >= n)
  <2>1. Download(answered, from, n) = NoBars
    BY <1>3 DEF Download
  <2> QED BY <2>1 DEF Fetched, BarSeries, NoBars
<1> QED BY <1>2, <1>3

\* A top-up that is answered has every day of its window.
LEMMA TopUpDays ==
  ASSUME PricesTypeOK, served = 1, NEW from \in 1..clock
  PROVE  DOMAIN Download(TRUE, from, 1) = from..clock
<1> DEFINE days == {d \in from..clock : d >= served}
<1>1. days = from..clock
  OBVIOUS
<1>2. Cardinality(from..clock) >= 1
  <2>1. clock \in Int /\ from \in Int /\ from <= clock
    BY DEF PricesTypeOK
  <2>2. Cardinality(from..clock) = clock - from + 1
    BY <2>1, FS_Interval
  <2> QED BY <2>1, <2>2
<1>3. Download(TRUE, from, 1) = [d \in days |-> {s \in exdates : s > d}]
  BY <1>1, <1>2 DEF Download
<1> QED BY <1>1, <1>3

LEMMA FullFetchDays ==
  ASSUME PricesTypeOK, served = 1
  PROVE  DOMAIN FullFetch(TRUE) = 1..clock
<1> USE PriceAssumption
<1> DEFINE days == {d \in 1..clock : d >= served}
<1>1. days = 1..clock
  OBVIOUS
<1>2. Cardinality(1..clock) >= FullBars
  <2>1. clock \in Nat /\ FirstRun <= clock /\ FirstRun \in Nat \ {0} /\ FullBars \in Nat \ {0}
    BY DEF PricesTypeOK
  <2>2. Cardinality(1..clock) = clock - 1 + 1
    BY <2>1, FS_Interval
  <2> QED BY <2>1, <2>2
<1>3. FullFetch(TRUE) = [d \in days |-> {s \in exdates : s > d}]
  BY <1>1, <1>2 DEF FullFetch, Download
<1> QED BY <1>1, <1>3

LEMMA FullFetchFetches ==
  ASSUME PricesTypeOK, NEW answered \in BOOLEAN
  PROVE  Fetched(FullFetch(answered))
BY DownloadFetches, PriceAssumption DEF FullFetch

\* What a merge does to the bars and to the stale ones.
LEMMA MergeOfFetched ==
  ASSUME PricesTypeOK, NEW old, NEW new, BarSeries(old), Fetched(new)
  PROVE  /\ BarSeries(MergeBars(old, new))
         /\ DOMAIN MergeBars(old, new) = DOMAIN old \union DOMAIN new
         /\ \A d \in DOMAIN old \ DOMAIN new : MergeBars(old, new)[d] = old[d]
         /\ \A s \in exdates : Stale(MergeBars(old, new), s) = Stale(old, s) \ DOMAIN new
<1> DEFINE M == MergeBars(old, new)
<1>1. M = [d \in DOMAIN old \union DOMAIN new |-> IF d \in DOMAIN new THEN new[d] ELSE old[d]]
  BY DEF MergeBars
<1>2. DOMAIN M = DOMAIN old \union DOMAIN new
  BY <1>1
<1>3. \A d \in DOMAIN M : M[d] = IF d \in DOMAIN new THEN new[d] ELSE old[d]
  BY <1>1
<1> HIDE DEF M
<1>4. BarSeries(M)
  <2>1. DOMAIN M \subseteq 1..clock
    BY <1>2 DEF BarSeries, Fetched
  <2>2. \A d \in DOMAIN M : M[d] \subseteq exdates
    BY <1>2, <1>3 DEF BarSeries, Fetched
  <2>3. M = [d \in DOMAIN M |-> M[d]]
    BY <1>1
  <2> QED BY <2>1, <2>2, <2>3 DEF BarSeries
<1>5. ASSUME NEW s \in exdates
      PROVE  Stale(M, s) = Stale(old, s) \ DOMAIN new
  BY <1>2, <1>3 DEF Stale, Fetched
<1> QED BY <1>2, <1>3, <1>4, <1>5 DEF M

LEMMA MergeHeals ==
  ASSUME PricesTypeOK, NEW old, NEW new, BarSeries(old), Fetched(new)
  PROVE  \A s \in exdates : Stale(MergeBars(old, new), s) \subseteq Stale(old, s)
<1>1. ASSUME NEW s \in exdates
      PROVE  Stale(MergeBars(old, new), s) \subseteq Stale(old, s)
  <2>1. Stale(MergeBars(old, new), s) = Stale(old, s) \ DOMAIN new
    BY MergeOfFetched
  <2> QED BY <2>1
<1> QED BY <1>1

-----------------------------------------------------------------------------
\* The window of the next scan.
LEMMA NextWindow ==
  ASSUME PricesTypeOK
  PROVE  /\ ScanAhead - ScanWindow \in 1..(clock - WallWindow)
         /\ clock - WallWindow \in 1..clock /\ clock - ScanWindow \in 1..clock
         /\ clock + Week - ScanWindow \in (clock - ScanWindow)..(clock - WallWindow)
BY PriceAssumption DEF PricesTypeOK, ScanAhead

LEMMA CacheIsSeries ==
  ASSUME PricesTypeOK
  PROVE  BarSeries(basis)
BY DEF PricesTypeOK, BarSeries

LEMMA NoBarsIsEmpty ==
  ASSUME NEW bars, BarSeries(bars)
  PROVE  bars = NoBars <=> DOMAIN bars = {}
BY DEF BarSeries, NoBars

LEMMA NothingStaleTells ==
  ASSUME PricesTypeOK, NEW bars, BarSeries(bars),
         NEW from \in 1..(clock - WallWindow), from \in DOMAIN bars,
         \A s \in exdates : Stale(bars, s) = {}
  PROVE  FirstTells(bars, from)
<1>1. \A e \in DOMAIN bars : e \in Int
  BY DEF BarSeries
<1> QED BY <1>1, PriceAssumption DEF FirstTells, PricesTypeOK

\* A top-up of the wall leaves the first day of the window as it was if any bar
\* is stale.
LEMMA TopUpTells ==
  ASSUME PricesTypeOK, served = 1, NEW old, BarSeries(old),
         NEW from \in 1..(clock - WallWindow), old # NoBars => FirstTells(old, from)
  PROVE  FirstTells(MergeBars(old, Download(TRUE, clock - WallWindow, 1)), from)
<1> USE PriceAssumption
<1> DEFINE new == Download(TRUE, clock - WallWindow, 1)
           M == MergeBars(old, new)
<1>1. clock \in Int /\ WallWindow \in Nat \ {0} /\ clock - WallWindow \in 1..clock
  BY NextWindow DEF PricesTypeOK
<1>2. DOMAIN new = (clock - WallWindow)..clock /\ Fetched(new)
  <2>1. clock - WallWindow \in Int /\ 1 \in Nat /\ TRUE \in BOOLEAN
    BY <1>1
  <2>2. Fetched(new)
    BY <2>1, DownloadFetches
  <2> QED BY <1>1, <2>2, TopUpDays
<1>3. /\ BarSeries(M) /\ DOMAIN M = DOMAIN old \union DOMAIN new
      /\ \A d \in DOMAIN old \ DOMAIN new : M[d] = old[d]
      /\ \A s \in exdates : Stale(M, s) = Stale(old, s) \ DOMAIN new
  BY <1>2, MergeOfFetched
<1> HIDE DEF new, M
<1>4. ASSUME old = NoBars
      PROVE  FirstTells(M, from)
  <2>1. DOMAIN old = {}
    BY <1>4, NoBarsIsEmpty
  <2>2. \A s \in exdates : Stale(M, s) = {}
    BY <1>3, <2>1 DEF Stale
  <2>3. DOMAIN M = (clock - WallWindow)..clock
    BY <1>2, <1>3, <2>1
  <2>4. \A e \in DOMAIN M : clock - WallWindow <= e
    BY <1>1, <2>3
  <2>5. clock - WallWindow \in DOMAIN M /\ from <= clock - WallWindow
    BY <1>1, <2>3
  <2> QED BY <1>1, <2>2, <2>4, <2>5 DEF FirstTells
<1>5. ASSUME old # NoBars
      PROVE  FirstTells(M, from)
  <2>1. PICK m \in DOMAIN old :
          /\ from <= m /\ m <= clock - WallWindow
          /\ \A e \in DOMAIN old : e >= from => m <= e
          /\ \A s \in exdates : Stale(old, s) # {} => s \notin old[m] /\ m < s - WallWindow
    BY <1>5 DEF FirstTells
  <2>2. m \in DOMAIN M /\ m \in Int /\ DOMAIN old \subseteq 1..clock
    BY <1>3 DEF BarSeries
  <2>3. \A e \in DOMAIN M : e >= from => m <= e
    BY <1>1, <1>2, <1>3, <2>1, <2>2
  <2>4. ASSUME NEW s \in exdates, Stale(M, s) # {}
        PROVE  s \notin M[m] /\ m < s - WallWindow
    <3>1. Stale(old, s) # {}
      BY <1>3, <2>4
    <3>2. s \notin old[m] /\ m < s - WallWindow
      BY <2>1, <3>1
    <3>3. s \in 1..clock
      BY DEF PricesTypeOK
    <3>4. m \notin DOMAIN new
      <4>1. s - WallWindow <= clock - WallWindow
        BY <1>1, <3>3
      <4>2. ~(clock - WallWindow <= m)
        BY <1>1, <2>2, <3>2, <3>3, <4>1
      <4> QED BY <1>1, <1>2, <4>2
    <3> QED BY <1>3, <3>2, <3>4
  <2> QED BY <2>1, <2>2, <2>3, <2>4 DEF FirstTells
<1> QED BY <1>4, <1>5 DEF M, new

\* A full fetch leaves no stale bar.
LEMMA FullFetchTells ==
  ASSUME PricesTypeOK, served = 1, NEW old, BarSeries(old)
  PROVE  LET M == MergeBars(old, FullFetch(TRUE))
         IN /\ DOMAIN M = 1..clock
            /\ \A s \in exdates : Stale(M, s) = {}
<1>1. DOMAIN FullFetch(TRUE) = 1..clock /\ Fetched(FullFetch(TRUE))
  BY FullFetchDays, FullFetchFetches
<1>2. DOMAIN old \subseteq 1..clock /\ \A s \in exdates : Stale(old, s) \subseteq DOMAIN old
  BY DEF BarSeries, Stale
<1> DEFINE M == MergeBars(old, FullFetch(TRUE))
<1>3. /\ DOMAIN M = DOMAIN old \union DOMAIN FullFetch(TRUE)
      /\ \A s \in exdates : Stale(M, s) = Stale(old, s) \ DOMAIN FullFetch(TRUE)
  BY <1>1, MergeOfFetched
<1> HIDE DEF M
<1>4. DOMAIN M = 1..clock /\ \A s \in exdates : Stale(M, s) = {}
  BY <1>1, <1>2, <1>3
<1> QED BY <1>4 DEF M

LEMMA NoAnswer ==
  ASSUME NEW old, BarSeries(old), NEW from, NEW n
  PROVE  Download(FALSE, from, n) = NoBars /\ FullFetch(FALSE) = NoBars /\ MergeBars(old, NoBars) = old
<1>1. Download(FALSE, from, n) = NoBars /\ FullFetch(FALSE) = NoBars
  BY DEF Download, FullFetch
<1>2. DOMAIN NoBars = {}
  BY DEF NoBars
<1>3. MergeBars(old, NoBars) = [d \in DOMAIN old |-> old[d]]
  BY <1>2 DEF MergeBars
<1> QED BY <1>1, <1>3 DEF BarSeries

\* A full fetch, if it is answered, leaves the first day of the window telling.
LEMMA FullFetchKeepsTelling ==
  ASSUME PricesTypeOK, served = 1, NEW old, BarSeries(old), NEW answered \in BOOLEAN,
         NEW from \in 1..(clock - WallWindow), old # NoBars => FirstTells(old, from)
  PROVE  LET M == MergeBars(old, FullFetch(answered)) IN M # NoBars => FirstTells(M, from)
<1> DEFINE M == MergeBars(old, FullFetch(answered))
<1>1. CASE answered
  <2>1. DOMAIN M = 1..clock /\ \A s \in exdates : Stale(M, s) = {}
    BY <1>1, FullFetchTells
  <2>2. BarSeries(M)
    BY FullFetchFetches, MergeOfFetched
  <2>3. from \in 1..clock
    BY PriceAssumption DEF PricesTypeOK
  <2> HIDE DEF M
  <2>4. FirstTells(M, from)
    BY <2>1, <2>2, <2>3, NothingStaleTells
  <2> QED BY <2>4 DEF M
<1>2. CASE ~answered
  <2>1. M = old
    BY <1>2, NoAnswer
  <2> QED BY <2>1
<1> QED BY <1>1, <1>2

-----------------------------------------------------------------------------
\* What a scan makes of the cache.
LEMMA ScanMerges ==
  ASSUME PricesTypeOK, NEW answered \in BOOLEAN, NEW again \in BOOLEAN
  PROVE  /\ BarSeries(ScanCache(answered, again))
         /\ \A s \in exdates : Stale(ScanCache(answered, again), s) \subseteq Stale(basis, s)
<1> DEFINE fresh == Download(answered, clock - ScanWindow, 1)
           merged == MergeBars(basis, fresh)
<1>1. BarSeries(basis) /\ Fetched(fresh) /\ Fetched(FullFetch(answered)) /\ Fetched(FullFetch(again))
  <2>1. clock - ScanWindow \in Int /\ 1 \in Nat
    BY NextWindow
  <2>2. Fetched(fresh)
    BY <2>1, DownloadFetches
  <2> QED BY <2>2, CacheIsSeries, FullFetchFetches
<1>2. /\ BarSeries(MergeBars(basis, FullFetch(answered)))
      /\ \A s \in exdates : Stale(MergeBars(basis, FullFetch(answered)), s) \subseteq Stale(basis, s)
  BY <1>1, MergeOfFetched, MergeHeals
<1>3. BarSeries(merged) /\ \A s \in exdates : Stale(merged, s) \subseteq Stale(basis, s)
  BY <1>1, MergeOfFetched, MergeHeals
<1>4. /\ BarSeries(MergeBars(merged, FullFetch(again)))
      /\ \A s \in exdates : Stale(MergeBars(merged, FullFetch(again)), s) \subseteq Stale(merged, s)
  <2> HIDE DEF merged
  <2> QED BY <1>1, <1>3, MergeOfFetched, MergeHeals
<1>5. ScanCache(answered, again) \in
        {MergeBars(basis, FullFetch(answered)), merged, MergeBars(merged, FullFetch(again))}
  BY DEF ScanCache
<1> HIDE DEF fresh, merged
<1> QED BY <1>2, <1>3, <1>4, <1>5

\* A scan that is answered sees every stale bar and has the days of its window.
LEMMA ScanHeals ==
  ASSUME PricesTypeOK, NextScanSees, clock = nextScan, ~kept, served = 1, Month(clock) \notin lost
  PROVE  /\ (clock - ScanWindow)..clock \subseteq DOMAIN ScanCache(TRUE, TRUE)
         /\ \A s \in exdates : Stale(ScanCache(TRUE, TRUE), s) = {}
<1> USE PriceAssumption
<1> DEFINE fresh == Download(TRUE, clock - ScanWindow, 1)
           merged == MergeBars(basis, fresh)
<1>1. clock \in Nat /\ clock - ScanWindow \in 1..clock /\ ScanWindow \in Nat
  BY NextWindow DEF PricesTypeOK
<1>2. BarSeries(basis) /\ Fetched(fresh) /\ DOMAIN fresh = (clock - ScanWindow)..clock
  <2>1. clock - ScanWindow \in Int /\ 1 \in Nat /\ TRUE \in BOOLEAN
    BY <1>1
  <2>2. Fetched(fresh)
    BY <2>1, DownloadFetches
  <2>3. DOMAIN fresh = (clock - ScanWindow)..clock
    BY <1>1, TopUpDays
  <2> QED BY <2>2, <2>3, CacheIsSeries
<1>3. /\ BarSeries(merged) /\ DOMAIN merged = DOMAIN basis \union DOMAIN fresh
      /\ \A s \in exdates : Stale(merged, s) = Stale(basis, s) \ DOMAIN fresh
  BY <1>2, MergeOfFetched
<1>4. (clock - ScanWindow)..clock \subseteq 1..clock
  BY <1>1
<1> HIDE DEF fresh, merged
<1>5. CASE Cardinality(DOMAIN basis) < WarmBars
  <2>1. ScanCache(TRUE, TRUE) = MergeBars(basis, FullFetch(TRUE))
    BY <1>5 DEF ScanCache
  <2> QED BY <1>2, <1>4, <2>1, FullFetchTells
<1>6. CASE ~(Cardinality(DOMAIN basis) < WarmBars) /\ Readjusted(basis, fresh)
  <2>1. ScanCache(TRUE, TRUE) = MergeBars(merged, FullFetch(TRUE))
    BY <1>6 DEF ScanCache, fresh, merged
  <2> QED BY <1>3, <1>4, <2>1, FullFetchTells
<1>7. CASE ~(Cardinality(DOMAIN basis) < WarmBars) /\ ~Readjusted(basis, fresh)
  <2>1. ScanCache(TRUE, TRUE) = merged
    BY <1>7 DEF ScanCache, fresh, merged
  <2>2. (clock - ScanWindow)..clock \subseteq DOMAIN merged
    BY <1>2, <1>3
  <2>3. ASSUME NEW s \in exdates, Stale(basis, s) # {}
        PROVE  FALSE
    <3>1. basis # NoBars
      BY <2>3, <1>2, NoBarsIsEmpty DEF Stale
    <3>2. ScanAhead = clock
      BY DEF ScanAhead
    <3>3. PICK m \in DOMAIN basis :
            /\ clock - ScanWindow <= m /\ m <= clock - WallWindow
            /\ \A e \in DOMAIN basis : e >= clock - ScanWindow => m <= e
            /\ s \notin basis[m] /\ m < s - WallWindow
      BY <2>3, <3>1, <3>2 DEF NextScanSees, FirstTells
    <3> DEFINE both == DOMAIN basis \intersect DOMAIN fresh
    <3>4. m \in Int /\ DOMAIN basis \subseteq 1..clock /\ WallWindow \in Nat \ {0} /\ s \in 1..clock
      BY <1>2 DEF BarSeries, PricesTypeOK
    <3>5. m \in both /\ \A e \in both : m <= e
      BY <1>1, <1>2, <3>3, <3>4
    <3>6. Min(both) = m
      <4>1. \A x \in both : x \in Int
        BY <3>4
      <4>2. \A x \in both : (\A y \in both : x =< y) => x = m
        BY <3>4, <3>5, <4>1
      <4> QED BY <3>5, <4>2 DEF Min
    <3>7. s \in fresh[m]
      BY <1>2, <3>3, <3>4, <3>5 DEF Fetched
    <3>8. Readjusted(basis, fresh)
      BY <3>3, <3>5, <3>6, <3>7 DEF Readjusted
    <3> QED BY <1>7, <3>8
  <2> QED BY <1>3, <2>1, <2>2, <2>3
<1> QED BY <1>5, <1>6, <1>7

-----------------------------------------------------------------------------
\* Every step keeps the invariant.
LEMMA PricesInitInv == PriceInit => PricesInv
<1> SUFFICES ASSUME PriceInit PROVE PricesInv
  OBVIOUS
<1> USE PriceAssumption
<1>1. DOMAIN basis = {} /\ basis = [d \in DOMAIN basis |-> basis[d]]
  BY DEF NoBars, PriceInit
<1>2. PricesTypeOK
  <2>1. clock \in Nat /\ FirstRun <= clock /\ nextScan \in clock..(clock + Week - 1)
    BY DEF PriceInit
  <2>2. exdates \subseteq 1..clock /\ served \in Nat \ {0} /\ trade \in 0..clock
    BY <2>1 DEF PriceInit
  <2>3. begun = FALSE /\ deepened = FALSE /\ kept = FALSE /\ basis = NoBars
    BY DEF PriceInit
  <2> QED BY <1>1, <2>1, <2>2, <2>3 DEF PricesTypeOK
<1>3. StaleInMonth /\ NextScanSees
  BY DEF PriceInit, StaleInMonth, NextScanSees
<1> QED BY <1>2, <1>3 DEF PricesInv

\* The wall's fetches make no bar stale and leave the next scan's first day
\* telling.
LEMMA WallInv ==
  ASSUME PricesInv, WallRun
  PROVE  PricesInv'
<1> USE PriceAssumption
<1>1. PricesTypeOK /\ StaleInMonth /\ NextScanSees
  BY DEF PricesInv
<1>2. UNCHANGED <<clock, nextScan, exdates, served, kept, trade, lost>> /\ begun' = TRUE /\ deepened' = TRUE
  BY DEF WallRun
<1>3. PICK answered \in BOOLEAN, again \in BOOLEAN :
        basis' = IF deepened THEN MergeBars(basis, WallFresh(answered))
                 ELSE MergeBars(MergeBars(basis, WallFresh(answered)), FullFetch(again))
  BY DEF WallRun
<1> DEFINE first == MergeBars(basis, WallFresh(answered))
           second == MergeBars(first, FullFetch(again))
<1>4. BarSeries(basis) /\ Fetched(WallFresh(answered)) /\ Fetched(FullFetch(again))
  <2>1. clock - WallWindow \in Int /\ 1 \in Nat
    BY <1>1, NextWindow
  <2>2. Fetched(Download(answered, clock - WallWindow, 1))
    BY <1>1, <2>1, DownloadFetches
  <2> QED BY <1>1, <2>2, CacheIsSeries, FullFetchFetches DEF WallFresh
<1>5. BarSeries(first) /\ \A s \in exdates : Stale(first, s) \subseteq Stale(basis, s)
  BY <1>1, <1>4, MergeOfFetched, MergeHeals
<1>6. BarSeries(second) /\ \A s \in exdates : Stale(second, s) \subseteq Stale(first, s)
  <2> HIDE DEF first
  <2> QED BY <1>1, <1>4, <1>5, MergeOfFetched, MergeHeals
<1>7. BarSeries(basis') /\ \A s \in exdates : Stale(basis', s) \subseteq Stale(basis, s)
  <2> HIDE DEF first, second
  <2>1. basis' = first \/ basis' = second
    BY <1>3 DEF first, second
  <2> QED BY <1>5, <1>6, <2>1
<1>8. PricesTypeOK'
  <2>1. DOMAIN basis' \subseteq 1..clock /\ basis' = [d \in DOMAIN basis' |-> basis'[d]]
        /\ \A d \in DOMAIN basis' : basis'[d] \subseteq exdates
    BY <1>7 DEF BarSeries
  <2> QED BY <1>1, <1>2, <2>1 DEF PricesTypeOK
<1>9. StaleInMonth'
  BY <1>1, <1>2, <1>7 DEF StaleInMonth, Stale
<1>10. NextScanSees'
  <2> DEFINE from == ScanAhead - ScanWindow
  <2> SUFFICES ASSUME served = 1, Month(clock) \notin lost, basis' # NoBars
               PROVE  FirstTells(basis', from)
    BY <1>2 DEF NextScanSees, ScanAhead, FirstTells, Stale, Month
  <2>1. from \in 1..(clock - WallWindow)
    BY <1>1, NextWindow
  <2>2. basis # NoBars => FirstTells(basis, from)
    BY <1>1 DEF NextScanSees
  <2> HIDE DEF from
  <2>3. first # NoBars => FirstTells(first, from)
    <3>1. CASE begun /\ answered
      <4>1. first = MergeBars(basis, Download(TRUE, clock - WallWindow, 1))
        BY <3>1 DEF WallFresh
      <4> QED BY <1>1, <1>4, <2>1, <2>2, <4>1, TopUpTells
    <3>2. CASE begun /\ ~answered
      <4>1. first = basis
        BY <1>4, <3>2, NoAnswer DEF WallFresh
      <4> QED BY <2>2, <4>1
    <3>3. CASE ~begun
      <4>1. first = MergeBars(basis, FullFetch(answered))
        BY <3>3 DEF WallFresh
      <4> QED BY <1>1, <1>4, <2>1, <2>2, <4>1, FullFetchKeepsTelling
    <3> QED BY <3>1, <3>2, <3>3
  <2>4. second # NoBars => FirstTells(second, from)
    <3> HIDE DEF first
    <3> QED BY <1>1, <1>5, <2>1, <2>3, FullFetchKeepsTelling
  <2> QED BY <1>3, <2>3, <2>4
<1> QED BY <1>8, <1>9, <1>10 DEF PricesInv

\* A scan that works starts its next window on healed days.
LEMMA ScanInv ==
  ASSUME PricesInv, Scan
  PROVE  PricesInv'
<1> USE PriceAssumption
<1>1. PricesTypeOK /\ StaleInMonth /\ NextScanSees
  BY DEF PricesInv
<1>2. clock = nextScan /\ ~kept /\ UNCHANGED <<clock, nextScan, exdates, served, deepened>>
  BY DEF Scan
<1>3. PICK answered \in BOOLEAN, again \in BOOLEAN, green \in BOOLEAN :
        /\ trade' \in Rebuilt(ScanCache(answered, again))
        /\ IF green THEN basis' = ScanCache(answered, again) /\ begun' = TRUE ELSE UNCHANGED <<basis, begun>>
        /\ kept' = green
        /\ lost' = IF answered /\ again THEN lost ELSE lost \union {Month(clock)}
  BY DEF Scan
<1> DEFINE bars == ScanCache(answered, again)
<1>4. BarSeries(bars) /\ \A s \in exdates : Stale(bars, s) \subseteq Stale(basis, s)
  BY <1>1, ScanMerges
<1> HIDE DEF bars
<1>5. BarSeries(basis') /\ \A s \in exdates : Stale(basis', s) \subseteq Stale(basis, s)
  BY <1>1, <1>3, <1>4, CacheIsSeries DEF bars
<1>6. PricesTypeOK'
  <2>1. DOMAIN basis' \subseteq 1..clock /\ basis' = [d \in DOMAIN basis' |-> basis'[d]]
        /\ \A d \in DOMAIN basis' : basis'[d] \subseteq exdates
    BY <1>5 DEF BarSeries
  <2>2. trade' \in 0..clock
    <3>1. DOMAIN bars \subseteq 1..clock
      BY <1>4 DEF BarSeries
    <3> QED BY <1>1, <1>3, <3>1 DEF Rebuilt, PricesTypeOK, bars
  <2>3. begun' \in BOOLEAN /\ kept' \in BOOLEAN /\ (~begun' => basis' = NoBars)
    BY <1>1, <1>3 DEF PricesTypeOK
  <2> QED BY <1>1, <1>2, <2>1, <2>2, <2>3 DEF PricesTypeOK
<1>7. StaleInMonth'
  BY <1>1, <1>2, <1>5 DEF StaleInMonth, Stale
<1>8. NextScanSees'
  <2> SUFFICES ASSUME served = 1, Month(clock) \notin lost', basis' # NoBars
               PROVE  FirstTells(basis', ScanAhead' - ScanWindow)
    BY <1>2 DEF NextScanSees, FirstTells, Stale, Month
  <2>1. answered /\ again /\ Month(clock) \notin lost
    BY <1>3
  <2>2. CASE green
    <3>1. basis' = ScanCache(TRUE, TRUE) /\ ScanAhead' = clock + Week
      BY <1>2, <1>3, <2>1, <2>2 DEF ScanAhead
    <3>2. /\ (clock - ScanWindow)..clock \subseteq DOMAIN basis'
          /\ \A s \in exdates : Stale(basis', s) = {}
      BY <1>1, <1>2, <2>1, <3>1, ScanHeals
    <3> DEFINE from == clock + Week - ScanWindow
    <3>3. from \in (clock - ScanWindow)..(clock - WallWindow) /\ clock - ScanWindow \in 1..clock
      BY <1>1, NextWindow
    <3>4. clock \in Nat /\ WallWindow \in Nat
      BY <1>1 DEF PricesTypeOK
    <3>5. from \in 1..(clock - WallWindow) /\ from \in DOMAIN basis'
      BY <3>2, <3>3, <3>4
    <3>7. ScanAhead' - ScanWindow = from
      BY <1>1, <1>2, <1>3, <2>2 DEF ScanAhead, PricesTypeOK
    <3> HIDE DEF from
    <3>6. FirstTells(basis', from)
      BY <1>1, <1>5, <3>2, <3>5, NothingStaleTells
    <3> QED BY <3>6, <3>7
  <2>3. CASE ~green
    <3>1. basis' = basis /\ ScanAhead' = ScanAhead
      BY <1>2, <1>3, <2>3 DEF ScanAhead
    <3>2. basis # NoBars
      BY <3>1
    <3>3. FirstTells(basis, ScanAhead - ScanWindow)
      BY <1>1, <2>1, <3>2 DEF NextScanSees
    <3> QED BY <3>1, <3>3
  <2> QED BY <2>2, <2>3
<1> QED BY <1>6, <1>7, <1>8 DEF PricesInv

\* Overnight a split makes every cached bar stale; the first of the window lies
\* before what tomorrow's top-up re-bases.
LEMMA NightInv ==
  ASSUME PricesInv, NextDay
  PROVE  PricesInv'
<1> USE PriceAssumption
<1>1. PricesTypeOK /\ StaleInMonth /\ NextScanSees
  BY DEF PricesInv
<1>2. /\ clock' = clock + 1 /\ clock \in Nat
      /\ nextScan' = IF clock = nextScan THEN nextScan + Week ELSE nextScan
      /\ kept' = FALSE /\ UNCHANGED <<spliced, trade>>
      /\ lost' = IF clock = nextScan /\ ~kept THEN lost \union {Month(clock)} ELSE lost
  BY <1>1 DEF NextDay, PricesTypeOK
<1>3. exdates \subseteq exdates' /\ exdates' \subseteq exdates \union {clock + 1}
  BY DEF NextDay, Splits
<1>4. served' \in Nat \ {0} /\ (served' = 1 => served = 1)
  BY <1>1 DEF NextDay, Cuts, PricesTypeOK
<1>5. nextScan' \in clock'..(clock' + Week - 1)
  BY <1>1, <1>2 DEF PricesTypeOK
<1>6. CASE SameKey
  <2>1. UNCHANGED <<basis, begun, deepened>> /\ Month(clock') = Month(clock)
    BY <1>2, <1>6 DEF NextDay, SameKey
  <2>2. PricesTypeOK'
    <3>1. clock' \in Nat /\ FirstRun <= clock' /\ 1..clock \subseteq 1..clock' /\ trade' \in 0..clock'
      BY <1>1, <1>2 DEF PricesTypeOK
    <3>2. exdates' \subseteq 1..clock'
      BY <1>1, <1>2, <1>3 DEF PricesTypeOK
    <3>3. /\ DOMAIN basis \subseteq 1..clock' /\ basis = [d \in DOMAIN basis |-> basis[d]]
          /\ \A d \in DOMAIN basis : basis[d] \subseteq exdates'
      BY <1>1, <1>3, <3>1 DEF PricesTypeOK
    <3>4. begun \in BOOLEAN /\ deepened \in BOOLEAN /\ (~begun => basis = NoBars)
      BY <1>1 DEF PricesTypeOK
    <3> QED BY <1>2, <1>4, <1>5, <2>1, <3>1, <3>2, <3>3, <3>4 DEF PricesTypeOK
  <2>3. StaleInMonth'
    <3> SUFFICES ASSUME NEW s \in exdates', Stale(basis, s) # {}
                 PROVE  Month(s) = Month(clock)
      BY <2>1 DEF StaleInMonth, Stale, Month
    <3> QED BY <1>1, <1>2, <1>3, <2>1 DEF StaleInMonth
  <2>4. NextScanSees'
    <3> DEFINE from == ScanAhead - ScanWindow
    <3> SUFFICES ASSUME served' = 1, Month(clock) \notin lost', basis # NoBars
                 PROVE  FirstTells(basis, ScanAhead - ScanWindow)'
      BY <2>1 DEF NextScanSees, Month
    <3>1. Month(clock) \notin lost /\ ScanAhead' = ScanAhead
      BY <1>1, <1>2 DEF ScanAhead, PricesTypeOK
    <3>2. PICK m \in DOMAIN basis :
            /\ from <= m /\ m <= clock - WallWindow
            /\ \A e \in DOMAIN basis : e >= from => m <= e
            /\ \A s \in exdates : Stale(basis, s) # {} => s \notin basis[m] /\ m < s - WallWindow
      BY <1>1, <1>4, <3>1 DEF NextScanSees, FirstTells
    <3>3. m \in Int /\ m <= clock' - WallWindow
      BY <1>1, <1>2, <3>2 DEF PricesTypeOK
    <3>4. ASSUME NEW s \in exdates', Stale(basis, s) # {}
          PROVE  s \notin basis[m] /\ m < s - WallWindow
      <4>1. CASE s \in exdates
        BY <3>2, <3>4, <4>1
      <4>2. CASE s = clock + 1
        <5>1. basis[m] \subseteq 1..clock
          BY <1>1 DEF PricesTypeOK
        <5>2. clock + 1 \notin 1..clock
          BY <1>2
        <5> QED BY <1>2, <3>2, <3>3, <4>2, <5>1, <5>2
      <4> QED BY <1>3, <4>1, <4>2
    <3>5. \A s \in exdates' : Stale(basis, s)' # {} => Stale(basis, s) # {}
      BY <2>1 DEF Stale
    <3> QED BY <2>1, <3>1, <3>2, <3>3, <3>4 DEF FirstTells, Stale
  <2> QED BY <2>2, <2>3, <2>4 DEF PricesInv
<1>7. CASE ~SameKey
  <2>1. basis' = NoBars /\ begun' = FALSE /\ deepened' = FALSE
    BY <1>7 DEF NextDay
  <2>2. DOMAIN basis' = {} /\ basis' = [d \in DOMAIN basis' |-> basis'[d]]
    BY <2>1 DEF NoBars
  <2>3. PricesTypeOK'
    <3>1. clock' \in Nat /\ FirstRun <= clock' /\ trade' \in 0..clock'
      BY <1>1, <1>2 DEF PricesTypeOK
    <3>2. exdates' \subseteq 1..clock'
      BY <1>1, <1>2, <1>3 DEF PricesTypeOK
    <3>3. DOMAIN basis' \subseteq 1..clock' /\ \A d \in DOMAIN basis' : basis'[d] \subseteq exdates'
      BY <2>2
    <3> QED BY <1>2, <1>4, <1>5, <2>1, <2>2, <3>1, <3>2, <3>3 DEF PricesTypeOK
  <2>4. StaleInMonth' /\ NextScanSees'
    BY <2>1, <2>2 DEF StaleInMonth, Stale, NextScanSees
  <2> QED BY <2>3, <2>4 DEF PricesInv
<1> QED BY <1>6, <1>7

LEMMA PricesStutterInv ==
  ASSUME PricesInv, UNCHANGED priceVars
  PROVE  PricesInv'
BY DEF PricesInv, PricesTypeOK, StaleInMonth, NextScanSees, ScanAhead, FirstTells, Stale, Month, priceVars

-----------------------------------------------------------------------------
\* The types, no stale bar outlives the month of its ex-date, and the next scan
\* sees any (_refresh_ohlcv, run_paper_cron.py and the key of their cache).
THEOREM CacheIsSound == PriceSpec => []PricesInv
<1>1. PricesInv /\ [PriceNext]_priceVars => PricesInv'
  BY WallInv, ScanInv, NightInv, PricesStutterInv DEF PriceNext
<1> QED BY PricesInitInv, <1>1, PTL DEF PriceSpec

\* What a scan publishes is spliced only in a month in which a scan lost its
\* work, or after the vendor cut the series.
THEOREM SplicesNeedALostScan == PriceSpec => []SplicesAreLost
<1>1. PriceInit => SplicesAreLost
  BY DEF PriceInit, SplicesAreLost
<1>2. ASSUME PricesInv, SplicesAreLost, Scan
      PROVE  SplicesAreLost'
  <2>1. PricesTypeOK /\ StaleInMonth /\ NextScanSees
    BY <1>2 DEF PricesInv
  <2>2. PICK answered \in BOOLEAN, again \in BOOLEAN :
          /\ spliced' = Disagreed(ScanCache(answered, again))
          /\ lost' = IF answered /\ again THEN lost ELSE lost \union {Month(clock)}
    BY <1>2 DEF Scan
  <2>3. served' = served /\ exdates' = exdates /\ clock = nextScan /\ ~kept
    BY <1>2 DEF Scan
  <2>4. SUFFICES ASSUME served = 1, NEW s \in spliced'
                 PROVE  Month(s) \in lost'
    BY <2>3 DEF SplicesAreLost, Month
  <2>5. s \in exdates /\ Stale(ScanCache(answered, again), s) # {}
    BY <2>2, <2>4 DEF Disagreed
  <2>6. Month(s) = Month(clock)
    <3>1. Stale(basis, s) # {}
      BY <2>1, <2>5, ScanMerges
    <3> QED BY <2>1, <2>5, <3>1 DEF StaleInMonth
  <2>7. ~(answered /\ again /\ Month(clock) \notin lost)
    BY <2>1, <2>3, <2>4, <2>5, ScanHeals
  <2> QED BY <2>2, <2>6, <2>7
<1>3. ASSUME SplicesAreLost, WallRun
      PROVE  SplicesAreLost'
  BY <1>3 DEF SplicesAreLost, WallRun, Month
<1>4. ASSUME SplicesAreLost, NextDay
      PROVE  SplicesAreLost'
  <2>1. (served' = 1 => served = 1) /\ spliced' = spliced /\ lost \subseteq lost'
    BY <1>4 DEF NextDay, Cuts
  <2> QED BY <1>4, <2>1 DEF SplicesAreLost, Month
<1>5. ASSUME SplicesAreLost, UNCHANGED priceVars
      PROVE  SplicesAreLost'
  BY <1>5 DEF SplicesAreLost, priceVars, Month
<1>6. PricesInv /\ SplicesAreLost /\ [PriceNext]_priceVars => SplicesAreLost'
  BY <1>2, <1>3, <1>4, <1>5 DEF PriceNext
<1> QED BY <1>1, <1>6, CacheIsSound, PTL DEF PriceSpec

-----------------------------------------------------------------------------
(* What a cut series costs an open trade. *)

\* The first day of the month, and the days the top-ups of a month reach.
MonthStart == Month(clock) * MonthDays
Recent(d) == MonthStart <= d + ScanWindow

\* Bars hold the whole history before the first run, or they are of this
\* month's windows and of the series as the vendor has cut it.
Deep(bars) == 1..FirstRun \subseteq DOMAIN bars
InParts(bars) ==
  Deep(bars) \/ \A d \in DOMAIN bars : Recent(d) \/ (served > 1 /\ served <= d)

TradeIInv == InParts(basis) /\ (trade # 0 => FirstRun <= trade)

LEMMA QuotientIs ==
  ASSUME NEW n \in Nat, NEW k \in Nat \ {0}, NEW q, q = n \div k
  PROVE  q \in Nat /\ q <= n /\ q * k <= n /\ n < q * k + k
OBVIOUS

\* The weeks of some days lie between those of the bounds of the days.
LEMMA WeeksBetween ==
  ASSUME NEW a \in Nat, NEW b \in Nat, NEW days \in SUBSET a..b
  PROVE  WeeksOf(days) \subseteq (a \div Week)..(b \div Week)
<1> SUFFICES ASSUME NEW d \in days PROVE d \div Week \in (a \div Week)..(b \div Week)
  BY DEF WeeksOf
<1>1. Week \in Nat \ {0} /\ d \in Nat /\ a <= d /\ d <= b
  BY PriceAssumption
<1>2. PICK p, q, r : p = a \div Week /\ q = d \div Week /\ r = b \div Week
  OBVIOUS
<1>3. /\ p \in Nat /\ p * Week <= a /\ a < p * Week + Week
      /\ q \in Nat /\ q * Week <= d /\ d < q * Week + Week
      /\ r \in Nat /\ r * Week <= b /\ b < r * Week + Week
  BY <1>1, <1>2, QuotientIs
<1>4. p * Week < (q + 1) * Week /\ q * Week < (r + 1) * Week
  BY <1>1, <1>3
<1>5. p < q + 1 /\ q < r + 1
  BY <1>1, <1>3, <1>4
<1> QED BY <1>2, <1>3, <1>5

\* More days have no fewer weeks.
LEMMA WeeksGrow ==
  ASSUME NEW n \in Nat, NEW more \in SUBSET 0..n, NEW days \in SUBSET more
  PROVE  /\ Cardinality(WeeksOf(days)) \in Nat /\ Cardinality(WeeksOf(more)) \in Nat
         /\ Cardinality(WeeksOf(days)) <= Cardinality(WeeksOf(more))
<1>1. WeeksOf(more) \subseteq (0 \div Week)..(n \div Week)
  BY WeeksBetween
<1>2. 0 \div Week \in Int /\ n \div Week \in Int
  BY PriceAssumption
<1>3. IsFiniteSet(WeeksOf(more))
  BY <1>1, <1>2, FS_Interval, FS_Subset
<1>4. WeeksOf(days) \subseteq WeeksOf(more)
  BY DEF WeeksOf
<1> QED BY <1>3, <1>4, FS_Subset, FS_CardinalityType

\* Days of one month's windows have fewer weeks than the guard asks for.
LEMMA FewWeeks ==
  ASSUME NEW a \in Nat, NEW b \in Nat, b <= a + (MonthDays - 1 + ScanWindow),
         NEW days \in SUBSET a..b
  PROVE  Cardinality(WeeksOf(days)) < MinWeeks
<1>1. Week \in Nat \ {0} /\ MinWeeks \in Nat \ {0} /\ MonthDays \in Nat /\ ScanWindow \in Nat
  BY PriceAssumption
<1>2. PICK p, q : p = a \div Week /\ q = b \div Week
  OBVIOUS
<1>3. /\ p \in Nat /\ a < p * Week + Week
      /\ q \in Nat /\ q * Week <= b
  BY <1>1, <1>2, QuotientIs
<1>4. q * Week < p * Week + Week + Week * (MinWeeks - 2)
  BY <1>1, <1>3, WeeksAssumption
<1>5. q < p + MinWeeks - 1
  <2>1. p * Week + Week + Week * (MinWeeks - 2) = (p + MinWeeks - 1) * Week
    BY <1>1, <1>3
  <2>2. q * Week < (p + MinWeeks - 1) * Week /\ p + MinWeeks - 1 \in Int
    BY <1>1, <1>3, <1>4, <2>1
  <2>3. \A x, y \in Int, w \in Nat \ {0} : x * w < y * w => x < y
    OBVIOUS
  <2> QED BY <1>1, <1>3, <2>2, <2>3
<1>6. WeeksOf(days) \subseteq p..q
  BY <1>2, WeeksBetween
<1>7. p \in Int /\ q \in Int
  BY <1>3
<1>8. IsFiniteSet(p..q) /\ Cardinality(p..q) = (IF p > q THEN 0 ELSE q - p + 1)
  BY <1>7, FS_Interval
<1>9. PICK n : n = Cardinality(p..q)
  OBVIOUS
<1>10. n \in Nat /\ n < MinWeeks
  BY <1>1, <1>3, <1>5, <1>8, <1>9
<1>11. PICK w : w = WeeksOf(days)
  OBVIOUS
<1>12. IsFiniteSet(w) /\ Cardinality(w) <= n
  BY <1>6, <1>8, <1>9, <1>11, FS_Subset
<1>13. Cardinality(w) \in Nat
  BY <1>12, FS_CardinalityType
<1> QED BY <1>1, <1>10, <1>11, <1>12, <1>13

LEMMA MonthIs ==
  ASSUME PricesTypeOK
  PROVE  MonthStart \in Nat /\ MonthStart <= clock /\ clock <= MonthStart + MonthDays - 1
<1>1. clock \in Nat /\ MonthDays \in Nat \ {0}
  BY PriceAssumption DEF PricesTypeOK
<1>2. PICK q : q = clock \div MonthDays
  OBVIOUS
<1>3. q \in Nat /\ q * MonthDays <= clock /\ clock < q * MonthDays + MonthDays
  BY <1>1, <1>2, QuotientIs
<1>4. MonthStart = q * MonthDays /\ q * MonthDays \in Nat
  BY <1>1, <1>2, <1>3 DEF MonthStart, Month
<1> QED BY <1>1, <1>3, <1>4

LEMMA NoBarsInParts == InParts(NoBars)
BY DEF InParts, NoBars

\* A merge has the days of both.
LEMMA MergeInParts ==
  ASSUME NEW old, NEW new, InParts(old), InParts(new)
  PROVE  InParts(MergeBars(old, new))
<1>1. DOMAIN MergeBars(old, new) = DOMAIN old \union DOMAIN new
  BY DEF MergeBars
<1> QED BY <1>1 DEF InParts, Deep

LEMMA TopUpInParts ==
  ASSUME PricesTypeOK, NEW answered \in BOOLEAN, NEW from \in Int, clock - ScanWindow <= from
  PROVE  InParts(Download(answered, from, 1))
<1>1. DOMAIN Download(answered, from, 1) \subseteq from..clock
  BY DownloadFetches
<1>2. ASSUME NEW d \in from..clock PROVE Recent(d)
  BY MonthIs, PriceAssumption DEF Recent, PricesTypeOK
<1> QED BY <1>1, <1>2 DEF InParts

LEMMA FullFetchInParts ==
  ASSUME PricesTypeOK, NEW answered \in BOOLEAN
  PROVE  InParts(FullFetch(answered))
<1> DEFINE days == {d \in 1..clock : d >= served}
<1>1. CASE ~(answered /\ Cardinality(days) >= FullBars)
  <2>1. FullFetch(answered) = NoBars
    BY <1>1 DEF FullFetch, Download
  <2> QED BY <2>1, NoBarsInParts
<1>2. CASE answered /\ Cardinality(days) >= FullBars
  <2>1. DOMAIN FullFetch(answered) = days
    BY <1>2 DEF FullFetch, Download
  <2>2. served = 1 => 1..FirstRun \subseteq days
    BY PriceAssumption DEF PricesTypeOK
  <2>3. served # 1 => served > 1
    BY DEF PricesTypeOK
  <2> QED BY <2>1, <2>2, <2>3 DEF InParts, Deep
<1> QED BY <1>1, <1>2

\* What a scan works on.
LEMMA ScanInParts ==
  ASSUME PricesTypeOK, InParts(basis), NEW answered \in BOOLEAN, NEW again \in BOOLEAN
  PROVE  InParts(ScanCache(answered, again))
<1> DEFINE fresh == Download(answered, clock - ScanWindow, 1)
           merged == MergeBars(basis, fresh)
<1>1. clock - ScanWindow \in Int
  BY PriceAssumption DEF PricesTypeOK
<1>2. InParts(fresh) /\ InParts(FullFetch(answered)) /\ InParts(FullFetch(again))
  BY <1>1, TopUpInParts, FullFetchInParts
<1>3. InParts(MergeBars(basis, FullFetch(answered))) /\ InParts(merged)
  BY <1>2, MergeInParts
<1>4. InParts(MergeBars(merged, FullFetch(again)))
  BY <1>2, <1>3, MergeInParts
<1>5. ScanCache(answered, again) \in
        {MergeBars(basis, FullFetch(answered)), merged, MergeBars(merged, FullFetch(again))}
  BY DEF ScanCache
<1> HIDE DEF fresh, merged
<1> QED BY <1>2, <1>3, <1>4, <1>5

\* With the whole history before the first run no trade is lost.
LEMMA DeepFinds ==
  ASSUME PricesTypeOK, NEW bars, BarSeries(bars), Deep(bars), NEW entry \in Nat, FirstRun <= entry
  PROVE  Found(bars, entry)
<1> DEFINE days == {d \in DOMAIN bars : d <= entry}
<1>1. 1..FirstRun \subseteq days /\ days \subseteq 0..clock /\ clock \in Nat
  BY PriceAssumption DEF Deep, BarSeries, PricesTypeOK
<1>2. Cardinality(WeeksOf(1..FirstRun)) <= Cardinality(WeeksOf(days))
  <2> HIDE DEF days
  <2> QED BY <1>1, WeeksGrow
<1>3. Cardinality(WeeksOf(1..FirstRun)) \in Nat /\ Cardinality(WeeksOf(days)) \in Nat
  <2> HIDE DEF days
  <2> QED BY <1>1, WeeksGrow
<1> QED BY <1>2, <1>3, WeeksAssumption, PriceAssumption DEF Found

\* A scan that passes the guard and does not find the trade works on a series
\* that was cut, with weeks enough.
LEMMA LostToACut ==
  ASSUME PricesTypeOK, NEW bars, BarSeries(bars), InParts(bars), NEW entry \in Nat,
         FirstRun <= entry, ~Found(bars, entry),
         Cardinality(WeeksOf(DOMAIN bars)) >= MinWeeks
  PROVE  served > 1 /\ Cardinality(WeeksOf(served..clock)) >= MinWeeks
<1> DEFINE days == DOMAIN bars
<1>1. days \subseteq 1..clock /\ clock \in Nat /\ served \in Nat \ {0}
  BY DEF BarSeries, PricesTypeOK
<1>2. \A d \in days : Recent(d) \/ (served > 1 /\ served <= d)
  BY DeepFinds DEF InParts
<1>3. ScanWindow \in Nat /\ MonthDays \in Nat \ {0} /\ MinWeeks \in Nat
  BY PriceAssumption
<1> HIDE DEF days
<1>4. ~ \A d \in days : Recent(d)
  <2> SUFFICES ASSUME \A d \in days : Recent(d) PROVE FALSE
    OBVIOUS
  <2> DEFINE a == IF ScanWindow <= MonthStart THEN MonthStart - ScanWindow ELSE 0
  <2>1. a \in Nat /\ clock <= a + (MonthDays - 1 + ScanWindow) /\ days \subseteq a..clock
    BY <1>1, <1>3, MonthIs DEF Recent
  <2> HIDE DEF a
  <2>2. Cardinality(WeeksOf(days)) < MinWeeks
    BY <1>1, <2>1, FewWeeks
  <2>3. Cardinality(WeeksOf(days)) \in Nat
    <3>1. days \in SUBSET 0..clock
      BY <1>1
    <3> QED BY <1>1, <3>1, WeeksGrow
  <2> QED BY <1>3, <2>2, <2>3 DEF days
<1>5. PICK d \in days : ~Recent(d) /\ served > 1 /\ served <= d
  BY <1>2, <1>4
<1>6. days \subseteq served..clock /\ served..clock \subseteq 0..clock
  BY <1>1, <1>2, <1>3, <1>5, MonthIs DEF Recent
<1>7. /\ Cardinality(WeeksOf(days)) \in Nat /\ Cardinality(WeeksOf(served..clock)) \in Nat
      /\ Cardinality(WeeksOf(days)) <= Cardinality(WeeksOf(served..clock))
  BY <1>1, <1>6, WeeksGrow
<1> QED BY <1>3, <1>5, <1>7 DEF days

LEMMA TradeStep ==
  ASSUME PricesTypeOK, TradeIInv, Scan, trade # 0, trade' # trade
  PROVE  served > 1 /\ Cardinality(WeeksOf(served..clock)) >= MinWeeks
<1>1. PICK answered \in BOOLEAN, again \in BOOLEAN :
        /\ Guarded(ScanCache(answered, again))
        /\ trade' \in Rebuilt(ScanCache(answered, again))
  BY DEF Scan
<1> DEFINE bars == ScanCache(answered, again)
<1>2. BarSeries(bars) /\ InParts(bars)
  BY ScanMerges, ScanInParts DEF TradeIInv
<1> HIDE DEF bars
<1>3. ~Found(bars, trade)
  BY <1>1 DEF Rebuilt, bars
<1>4. Cardinality(WeeksOf(DOMAIN bars)) >= MinWeeks
  BY <1>1 DEF Guarded, bars
<1>5. trade \in Nat /\ FirstRun <= trade
  BY DEF PricesTypeOK, TradeIInv
<1> QED BY <1>2, <1>3, <1>4, <1>5, LostToACut

LEMMA NextTradeIInv ==
  ASSUME PricesTypeOK, TradeIInv, [PriceNext]_priceVars
  PROVE  TradeIInv'
<1>1. ASSUME UNCHANGED <<clock, served>>, NEW bars, InParts(bars)
      PROVE  InParts(bars)'
  BY <1>1 DEF InParts, Deep, Recent, MonthStart, Month
<1>2. CASE WallRun
  <2>1. PICK answered \in BOOLEAN, again \in BOOLEAN :
          basis' = IF deepened THEN MergeBars(basis, WallFresh(answered))
                   ELSE MergeBars(MergeBars(basis, WallFresh(answered)), FullFetch(again))
    BY <1>2 DEF WallRun
  <2>2. InParts(WallFresh(answered)) /\ InParts(FullFetch(again))
    <3>1. clock - WallWindow \in Int /\ clock - ScanWindow <= clock - WallWindow
      BY PriceAssumption DEF PricesTypeOK
    <3> QED BY <3>1, TopUpInParts, FullFetchInParts DEF WallFresh
  <2>3. InParts(MergeBars(basis, WallFresh(answered)))
    BY <2>2, MergeInParts DEF TradeIInv
  <2>4. InParts(MergeBars(MergeBars(basis, WallFresh(answered)), FullFetch(again)))
    BY <2>2, <2>3, MergeInParts
  <2>5. UNCHANGED <<clock, served, trade>>
    BY <1>2 DEF WallRun
  <2>6. PICK bars : bars = basis' /\ InParts(bars)
    BY <2>1, <2>3, <2>4
  <2> QED BY <2>5, <2>6 DEF TradeIInv, InParts, Deep, Recent, MonthStart, Month
<1>3. CASE Scan
  <2>1. PICK answered \in BOOLEAN, again \in BOOLEAN :
          /\ trade' \in Rebuilt(ScanCache(answered, again))
          /\ basis' = ScanCache(answered, again) \/ basis' = basis
    BY <1>3 DEF Scan
  <2>2. InParts(ScanCache(answered, again)) /\ InParts(basis)
    BY ScanInParts DEF TradeIInv
  <2>3. UNCHANGED <<clock, served>>
    BY <1>3 DEF Scan
  <2>4. trade' \in {0, trade, clock}
    BY <2>1 DEF Rebuilt
  <2>5. trade' # 0 => FirstRun <= trade'
    BY <2>4 DEF TradeIInv, PricesTypeOK
  <2>6. PICK bars : bars = basis' /\ InParts(bars)
    BY <2>1, <2>2
  <2> QED BY <2>3, <2>5, <2>6 DEF TradeIInv, InParts, Deep, Recent, MonthStart, Month
<1>4. CASE NextDay
  <2>1. trade' = trade
    BY <1>4 DEF NextDay
  <2>2. CASE SameKey
    <3>1. basis' = basis /\ MonthStart' = MonthStart
      BY <1>4, <2>2 DEF NextDay, SameKey, MonthStart, Month
    <3>2. served > 1 => served' = served
      BY <1>4 DEF NextDay, Cuts, PricesTypeOK
    <3> QED BY <2>1, <3>1, <3>2 DEF TradeIInv, InParts, Deep, Recent
  <2>3. CASE ~SameKey
    <3>1. DOMAIN basis' = {}
      BY <1>4, <2>3 DEF NextDay, NoBars
    <3> QED BY <2>1, <3>1 DEF TradeIInv, InParts
  <2> QED BY <2>2, <2>3
<1>5. CASE UNCHANGED priceVars
  BY <1>5 DEF priceVars, TradeIInv, InParts, Deep, Recent, MonthStart, Month
<1> QED BY <1>2, <1>3, <1>4, <1>5 DEF PriceNext

LEMMA InitTradeIInv == PriceInit => TradeIInv
BY DEF PriceInit, TradeIInv, InParts, NoBars

\* An open trade is erased only when the vendor cut the series and what is
\* left is long enough to pass the guard.
THEOREM TradesAreKept == PriceSpec => TradeKept
<1>1. PricesInv /\ TradeIInv /\ [PriceNext]_priceVars => TradeIInv'
  BY NextTradeIInv DEF PricesInv
<1>2. PriceSpec => []TradeIInv
  BY InitTradeIInv, <1>1, CacheIsSound, PTL DEF PriceSpec
<1>3. ASSUME PricesInv, TradeIInv, [PriceNext]_priceVars
      PROVE  [trade # 0 /\ trade' # trade =>
                served > 1 /\ Cardinality(WeeksOf(served..clock)) >= MinWeeks]_priceVars
  <2>1. PricesTypeOK
    BY <1>3 DEF PricesInv
  <2>2. CASE Scan
    BY <1>3, <2>1, <2>2, TradeStep
  <2>3. CASE WallRun \/ NextDay
    BY <2>3 DEF WallRun, NextDay
  <2>4. CASE UNCHANGED priceVars
    BY <2>4
  <2> QED BY <1>3, <2>2, <2>3, <2>4 DEF PriceNext
<1> QED BY <1>2, <1>3, CacheIsSound, PTL DEF PriceSpec, TradeKept

-----------------------------------------------------------------------------
(***************************************************************************)
(* A position and a corporate action (HeldPosition), for every entry,      *)
(* split and price path. A position is good when its weight is its         *)
(* shares', its levels are the entry's in its own unit, and the tranches   *)
(* its flags name are those that have left (Good); everything a bar does   *)
(* keeps it so. At its ex-date a registered position becomes the undivided *)
(* one in another unit (Alike), the same bar in the two units does the     *)
(* same to both, and its R is the mean it started as (Mean). One whose     *)
(* demerger nobody registered is frozen from its first bar.                *)
(***************************************************************************)

\* A position's record.
PositionRecord ==
  [sh : 0..Whole, frac_left : 0..Whole, ca_scale : Nat \ {0}, en : Nat, stop : Nat, risk0 : Nat,
   realized_r : Int, proceeds : Nat, t1_done : BOOLEAN, pt_done : BOOLEAN, pk : Nat, pk_wh : Nat,
   pending : {"none", "part", "full"}, absent_run : 0..StaleAfter, last_mark : Nat,
   ca_hold : BOOLEAN, ca_view : BOOLEAN, sold : Nat, stale : BOOLEAN]

\* Its weight is its shares', its levels are the entry's, and its R its money.
Money(p) ==
  /\ p.frac_left * p.ca_scale = p.sh
  /\ p.en * p.ca_scale = Entry /\ p.risk0 * p.ca_scale = Risk /\ Tranche % p.ca_scale = 0
  /\ p.realized_r = p.proceeds - (Whole * Entry - p.sh * p.en)

\* The tranches its flags name have left, the target's before the pattern's.
Gone(p) ==
  (IF p.t1_done THEN Tranche ELSE 0) + (IF p.pt_done /\ p.pending # "part" THEN Tranche ELSE 0)
Staged(p) ==
  /\ p.sh > 0 => p.sh = Whole - Gone(p)
  /\ p.pt_done => p.t1_done
  /\ ~p.t1_done => p.pk < p.en + 2 * p.risk0
  /\ p.pending = "part" => p.pt_done

Good(p) == p \in PositionRecord /\ Money(p) /\ Staged(p)

\* The levels a position keeps until a demerger.
Levelled(p, q) ==
  /\ q.en = p.en /\ q.stop = p.stop /\ q.risk0 = p.risk0 /\ q.ca_scale = p.ca_scale
  /\ q.ca_view = p.ca_view

\* What a bar changes of what has been seen.
Past(p, q, bar) ==
  /\ q.pk \in {p.pk, bar.high} /\ q.pk_wh \in {p.pk_wh, bar.week} /\ q.last_mark = p.last_mark
  /\ q.sold \in {p.sold, sess + 1} /\ q.stale = p.stale /\ q.absent_run = p.absent_run

\* A bar's prices.
Priced(bar) ==
  /\ bar.open \in Nat /\ bar.high \in Nat /\ bar.close \in Nat /\ bar.week \in Nat /\ bar.prev \in Nat
  /\ bar.ends \in BOOLEAN /\ bar.weak \in BOOLEAN /\ bar.broken \in BOOLEAN /\ bar.reviewed \in BOOLEAN

-----------------------------------------------------------------------------
(* Arithmetic. *)

LEMMA ScaleOrder ==
  ASSUME NEW k \in Nat \ {0}, NEW a \in Int, NEW b \in Int
  PROVE  (a * k <= b * k) <=> (a <= b)
OBVIOUS

LEMMA ScaleEqual ==
  ASSUME NEW k \in Nat \ {0}, NEW a \in Int, NEW b \in Int
  PROVE  (a * k = b * k) <=> (a = b)
OBVIOUS

LEMMA ExactQuotient ==
  ASSUME NEW k \in Nat \ {0}, NEW a \in Int
  PROVE  (a * k) \div k = a
OBVIOUS

LEMMA ExactDivision ==
  ASSUME NEW k \in Nat \ {0}, NEW a \in Nat, a % k = 0
  PROVE  (a \div k) * k = a /\ a \div k \in Nat
OBVIOUS

LEMMA Multiples ==
  ASSUME NEW k \in Nat \ {0}, NEW a \in Int, NEW b \in Int, a % k = 0, b % k = 0
  PROVE  (a + b) % k = 0 /\ (a - b) % k = 0
<1>1. PICK x \in Int, y \in Int : a = k * x /\ b = k * y
  <2>1. a = k * (a \div k) /\ b = k * (b \div k) /\ a \div k \in Int /\ b \div k \in Int
    OBVIOUS
  <2> QED BY <2>1
<1>2. a + b = k * (x + y) /\ a - b = k * (x - y)
  BY <1>1
<1>3. \A z \in Int : (k * z) % k = 0
  OBVIOUS
<1> QED BY <1>2, <1>3

LEMMA Larger ==
  ASSUME NEW a \in Int, NEW b \in Int
  PROVE  Max({a, b}) = IF a >= b THEN a ELSE b
<1>1. Max({a, b}) \in {a, b} /\ \A y \in {a, b} : Max({a, b}) >= y
  <2>1. \E x \in {a, b} : \A y \in {a, b} : x >= y
    OBVIOUS
  <2> QED BY <2>1 DEF Max
<1> QED BY <1>1

LEMMA HeldNumbers ==
  /\ Whole \in Nat \ {0} /\ Entry \in Nat /\ Stop \in Nat /\ Risk \in Nat \ {0} /\ Split \in Nat /\ Split >= 2
  /\ StaleAfter \in Nat \ {0} /\ LastBar \in Nat /\ Levels \subseteq Nat \ {0}
  /\ Tranche \in Nat \ {0} /\ 2 * Tranche < Whole /\ Tranche % Split = 0 /\ Whole % Split = 0
  /\ Entry % Split = 0 /\ Stop % Split = 0 /\ Risk % Split = 0 /\ \A l \in Levels : l % Split = 0
<1>1. /\ Whole \in Nat \ {0} /\ Entry \in Nat /\ Stop \in Nat /\ Risk \in Nat \ {0} /\ Split \in Nat /\ Split >= 2
      /\ StaleAfter \in Nat \ {0} /\ LastBar \in Nat /\ Levels \subseteq Nat \ {0}
      /\ Tranche % Split = 0 /\ Whole % Split = 0 /\ 10 * Tranche = 4 * Whole
      /\ Entry % Split = 0 /\ Stop % Split = 0 /\ \A l \in Levels : l % Split = 0
  BY HeldAssumption
<1>2. Tranche \in Int
  BY <1>1 DEF Tranche
<1>3. Tranche \in Nat \ {0} /\ 2 * Tranche < Whole
  BY <1>1, <1>2
<1>4. Risk % Split = 0
  <2>1. Split \in Nat \ {0} /\ Entry \in Int /\ Stop \in Int
    BY <1>1
  <2>2. (Entry - Stop) % Split = 0
    BY <1>1, <2>1, Multiples
  <2> QED BY <2>2 DEF Risk
<1> QED BY <1>1, <1>3, <1>4

-----------------------------------------------------------------------------
(* Sales. *)

\* A sale of n shares moves their money into R.
LEMMA SaleIsMoney ==
  ASSUME NEW p \in PositionRecord, Money(p), sess \in Nat,
         NEW n \in Nat, n <= p.sh, NEW wt \in Nat, wt * p.ca_scale = n, NEW px \in Nat,
         NEW q, q = Sell(p, n, wt, px)
  PROVE  /\ q \in PositionRecord /\ Money(q) /\ Levelled(p, q)
         /\ q.sh = p.sh - n /\ q.sold = sess + 1 /\ q.realized_r = p.realized_r + n * (px - p.en)
         /\ q.t1_done = p.t1_done /\ q.pt_done = p.pt_done /\ q.pk = p.pk /\ q.pk_wh = p.pk_wh
         /\ q.pending = p.pending /\ q.absent_run = p.absent_run /\ q.last_mark = p.last_mark
         /\ q.ca_hold = p.ca_hold /\ q.stale = p.stale
<1> DEFINE m == Multiple(p, px)
<1>1. /\ p.sh \in 0..Whole /\ p.frac_left \in 0..Whole /\ p.ca_scale \in Nat \ {0} /\ p.en \in Nat
      /\ p.risk0 \in Nat /\ p.realized_r \in Int /\ p.proceeds \in Nat
  BY DEF PositionRecord
<1>2. /\ p.frac_left * p.ca_scale = p.sh /\ p.risk0 * p.ca_scale = Risk
      /\ p.realized_r = p.proceeds - (Whole * Entry - p.sh * p.en)
  BY DEF Money
<1>3. m = p.ca_scale * (px - p.en)
  <2>1. p.risk0 \in Nat \ {0}
    BY <1>1, <1>2, HeldNumbers
  <2>2. (px - p.en) * Risk = (p.ca_scale * (px - p.en)) * p.risk0
    BY <1>1, <1>2, HeldNumbers
  <2>3. p.ca_scale * (px - p.en) \in Int
    BY <1>1
  <2> QED BY <2>1, <2>2, <2>3, ExactQuotient DEF Multiple
<1>4. wt <= p.frac_left
  BY <1>1, <1>2, ScaleOrder
<1>5. wt * m = n * (px - p.en) /\ wt * m \in Int
  BY <1>1, <1>3
<1>6. q = [p EXCEPT !.sh = p.sh - n, !.proceeds = p.proceeds + n * px, !.sold = sess + 1,
                    !.realized_r = p.realized_r + wt * m, !.frac_left = p.frac_left - wt]
  BY DEF Sell
<1> HIDE DEF m
<1>7. /\ p.sh - n \in 0..Whole /\ p.proceeds + n * px \in Nat /\ sess + 1 \in Nat
      /\ p.realized_r + wt * m \in Int /\ p.frac_left - wt \in 0..Whole
  <2>1. n * px \in Nat
    OBVIOUS
  <2> QED BY <1>1, <1>4, <1>5, <2>1, HeldNumbers
<1>8. q \in PositionRecord
  BY <1>6, <1>7 DEF PositionRecord
<1>9. /\ q.sh = p.sh - n /\ q.proceeds = p.proceeds + n * px /\ q.sold = sess + 1
      /\ q.realized_r = p.realized_r + wt * m /\ q.frac_left = p.frac_left - wt
      /\ q.en = p.en /\ q.stop = p.stop /\ q.risk0 = p.risk0 /\ q.ca_scale = p.ca_scale
      /\ q.ca_view = p.ca_view
      /\ q.t1_done = p.t1_done /\ q.pt_done = p.pt_done /\ q.pk = p.pk /\ q.pk_wh = p.pk_wh
      /\ q.pending = p.pending /\ q.absent_run = p.absent_run /\ q.last_mark = p.last_mark
      /\ q.ca_hold = p.ca_hold /\ q.stale = p.stale
  BY <1>6 DEF PositionRecord
<1>10. Money(q)
  <2>1. (p.frac_left - wt) * p.ca_scale = p.sh - n
    BY <1>1, <1>2
  <2>2. p.realized_r + n * (px - p.en)
          = (p.proceeds + n * px) - (Whole * Entry - (p.sh - n) * p.en)
    BY <1>1, <1>2, HeldNumbers
  <2> QED BY <1>5, <1>9, <2>1, <2>2 DEF Money
<1> QED BY <1>5, <1>8, <1>9, <1>10 DEF Levelled

LEMMA TrancheWeight ==
  ASSUME NEW p \in PositionRecord, Money(p)
  PROVE  Weight(p, Tranche) \in Nat /\ Weight(p, Tranche) * p.ca_scale = Tranche
BY HeldNumbers, ExactDivision DEF Weight, Money, PositionRecord

\* What is in common to the two that a sale may follow: a tranche, and the rest.
SaleOf(p, q, n, px) ==
  /\ q \in PositionRecord /\ Money(q) /\ Levelled(p, q)
  /\ q.sh = p.sh - n /\ q.sold = sess + 1 /\ q.realized_r = p.realized_r + n * (px - p.en)
  /\ q.t1_done = p.t1_done /\ q.pt_done = p.pt_done /\ q.pk = p.pk /\ q.pk_wh = p.pk_wh
  /\ q.pending = p.pending /\ q.absent_run = p.absent_run /\ q.last_mark = p.last_mark
  /\ q.ca_hold = p.ca_hold /\ q.stale = p.stale

LEMMA SellPartSells ==
  ASSUME NEW p \in PositionRecord, Money(p), sess \in Nat, p.sh >= Tranche, NEW px \in Nat
  PROVE  SaleOf(p, SellPart(p, px), Tranche, px)
<1>1. Weight(p, Tranche) \in Nat /\ Weight(p, Tranche) * p.ca_scale = Tranche
  BY TrancheWeight
<1>2. Tranche \in Nat /\ Tranche <= p.sh
  BY HeldNumbers DEF PositionRecord
<1> QED BY <1>1, <1>2, SaleIsMoney DEF SellPart, SaleOf

LEMMA SellRestSells ==
  ASSUME NEW p \in PositionRecord, Money(p), sess \in Nat, NEW px \in Nat
  PROVE  SaleOf(p, SellRest(p, px), p.sh, px)
<1>1. p.sh \in Nat /\ p.frac_left \in Nat /\ p.frac_left * p.ca_scale = p.sh /\ p.sh <= p.sh
  BY HeldNumbers DEF PositionRecord, Money
<1> QED BY <1>1, SaleIsMoney DEF SellRest, SaleOf

\* A position with flags, or prices seen, replaced.
LEMMA Unsold ==
  ASSUME NEW p \in PositionRecord, Money(p), NEW q \in PositionRecord, Levelled(p, q),
         q.sh = p.sh, q.frac_left = p.frac_left, q.realized_r = p.realized_r, q.proceeds = p.proceeds
  PROVE  Money(q)
BY DEF Money, Levelled

-----------------------------------------------------------------------------
(* A session. *)

\* The pending exit.
LEMMA FillIsGood ==
  ASSUME NEW p, Good(p), sess \in Nat, NEW bar, Priced(bar), StillOpen(p), NEW q, q = FillPending(p, bar)
  PROVE  /\ Good(q) /\ Levelled(p, q) /\ Past(p, q, bar) /\ q.pending = "none" /\ q.pk = p.pk
<1>1. p \in PositionRecord /\ Money(p) /\ Staged(p) /\ bar.open \in Nat /\ p.sh > 0
  BY DEF Good, Priced, StillOpen
<1>2. CASE p.pending = "none"
  BY <1>1, <1>2 DEF FillPending, Levelled, Good, Past
<1> DEFINE f == [p EXCEPT !.pending = "none"]
<1>3. /\ f \in PositionRecord /\ f.pending = "none" /\ f.sh = p.sh /\ f.frac_left = p.frac_left
      /\ f.realized_r = p.realized_r /\ f.proceeds = p.proceeds /\ Levelled(p, f)
      /\ f.t1_done = p.t1_done /\ f.pt_done = p.pt_done /\ f.pk = p.pk /\ f.pk_wh = p.pk_wh
      /\ f.last_mark = p.last_mark /\ f.sold = p.sold /\ f.stale = p.stale
      /\ f.absent_run = p.absent_run
  BY <1>1 DEF PositionRecord, Levelled
<1>4. q = IF p.pending = "none" THEN p
          ELSE IF p.pending = "part" THEN SellPart(f, bar.open) ELSE SellRest(f, bar.open)
  BY DEF FillPending
<1> HIDE DEF f
<1>5. Money(f)
  BY <1>1, <1>3, Unsold
<1>6. CASE p.pending = "part"
  <2>1. p.pt_done /\ p.t1_done /\ p.sh = Whole - Tranche
    BY <1>1, <1>6, HeldNumbers DEF Staged, Gone, PositionRecord
  <2>2. f.sh >= Tranche
    BY <1>3, <2>1, HeldNumbers
  <2>3. SaleOf(f, q, Tranche, bar.open)
    BY <1>1, <1>3, <1>4, <1>5, <1>6, <2>2, SellPartSells
  <2>4. Staged(q)
    BY <1>1, <1>3, <2>1, <2>3, HeldNumbers DEF SaleOf, Staged, Gone, Levelled
  <2> QED BY <1>3, <2>3, <2>4 DEF SaleOf, Good, Levelled, Past
<1>7. CASE p.pending = "full"
  <2>1. SaleOf(f, q, f.sh, bar.open)
    BY <1>1, <1>3, <1>4, <1>5, <1>7, SellRestSells
  <2>2. q.sh = 0
    BY <1>3, <2>1, HeldNumbers DEF SaleOf, PositionRecord
  <2>3. Staged(q)
    BY <1>1, <1>3, <2>1, <2>2 DEF SaleOf, Staged, Levelled
  <2> QED BY <1>3, <2>1, <2>3 DEF SaleOf, Good, Levelled, Past
<1> QED BY <1>1, <1>2, <1>6, <1>7 DEF PositionRecord

\* The first target.
LEMMA TargetIsGood ==
  ASSUME NEW p, Good(p), sess \in Nat, p.pending = "none", NEW bar, Priced(bar), StillOpen(p),
         NEW q, q = Target(p, bar)
  PROVE  /\ Good(q) /\ Levelled(p, q) /\ Past(p, q, bar) /\ q.pending = "none" /\ StillOpen(q)
         /\ ~q.t1_done => bar.high < q.en + 2 * q.risk0
<1>1. p \in PositionRecord /\ Money(p) /\ Staged(p) /\ bar.high \in Nat /\ p.sh > 0 /\ p.en \in Nat /\ p.risk0 \in Nat
  BY DEF Good, Priced, StillOpen, PositionRecord
<1>2. CASE p.t1_done \/ ~(bar.high >= p.en + 2 * p.risk0)
  <2>1. q = p
    BY <1>2 DEF Target
  <2> QED BY <1>1, <1>2, <2>1 DEF Levelled, Past
<1>3. CASE ~p.t1_done /\ bar.high >= p.en + 2 * p.risk0
  <2> DEFINE s == SellPart(p, p.en + 2 * p.risk0)
  <2>1. q = [s EXCEPT !.t1_done = TRUE]
    BY <1>3 DEF Target
  <2>2. ~p.pt_done /\ p.sh = Whole
    BY <1>1, <1>3, HeldNumbers DEF Staged, Gone, PositionRecord
  <2>3. p.en + 2 * p.risk0 \in Nat /\ p.sh >= Tranche
    BY <1>1, <2>2, HeldNumbers
  <2>4. SaleOf(p, s, Tranche, p.en + 2 * p.risk0)
    BY <1>1, <2>3, SellPartSells
  <2> HIDE DEF s
  <2>5. s \in PositionRecord
    BY <2>4 DEF SaleOf
  <2>6. /\ q \in PositionRecord /\ q.t1_done = TRUE /\ Levelled(s, q) /\ q.sh = s.sh /\ q.frac_left = s.frac_left
        /\ q.realized_r = s.realized_r /\ q.proceeds = s.proceeds /\ q.pt_done = s.pt_done
        /\ q.pending = s.pending /\ q.pk = s.pk /\ q.pk_wh = s.pk_wh /\ q.last_mark = s.last_mark
        /\ q.sold = s.sold /\ q.stale = s.stale /\ q.absent_run = s.absent_run
    BY <2>1, <2>5 DEF PositionRecord, Levelled
  <2>7. Money(q)
    BY <2>4, <2>5, <2>6, Unsold DEF SaleOf
  <2>8. q.sh = Whole - Tranche /\ q.sh > 0
    BY <2>2, <2>4, <2>6, HeldNumbers DEF SaleOf
  <2>9. Staged(q)
    BY <2>2, <2>4, <2>6, <2>8, HeldNumbers DEF Staged, Gone, SaleOf
  <2> QED BY <2>4, <2>6, <2>7, <2>8, <2>9 DEF Good, Levelled, SaleOf, StillOpen, Past
<1> QED BY <1>2, <1>3

\* The weekly close.
LEMMA DecisionIsGood ==
  ASSUME NEW p, Good(p), p.pending = "none", NEW bar, Priced(bar), StillOpen(p),
         ~p.t1_done => bar.high < p.en + 2 * p.risk0,
         NEW q, q = Decide(p, bar)
  PROVE  Good(q) /\ Levelled(p, q) /\ Past(p, q, bar)
<1> DEFINE pk == Max({p.pk, bar.high})
           wh == Max({p.pk_wh, bar.week})
           stopped == bar.close <= p.stop
           pattern == /\ ~p.pt_done /\ 2 * (pk - p.en) >= 5 * p.risk0
                      /\ bar.week >= p.pk_wh /\ bar.weak
           exit == CASE stopped -> "full"
                     [] ~stopped /\ pattern -> "part"
                     [] ~stopped /\ ~pattern /\ bar.broken -> "full"
                     [] OTHER -> "none"
<1>1. /\ p \in PositionRecord /\ Money(p) /\ Staged(p) /\ p.sh > 0
      /\ p.pk \in Nat /\ p.pk_wh \in Nat /\ p.en \in Nat /\ p.risk0 \in Nat /\ p.ca_scale \in Nat \ {0}
      /\ bar.high \in Nat /\ bar.week \in Nat /\ bar.weak \in BOOLEAN /\ bar.broken \in BOOLEAN
  BY DEF Good, Priced, StillOpen, PositionRecord
<1>2. pk = IF p.pk >= bar.high THEN p.pk ELSE bar.high
  BY <1>1, Larger
<1>3. wh = IF p.pk_wh >= bar.week THEN p.pk_wh ELSE bar.week
  BY <1>1, Larger
<1>4. q = [p EXCEPT !.pk = pk, !.pending = exit, !.pt_done = (p.pt_done \/ exit = "part"), !.pk_wh = wh]
  BY <1>1 DEF Decide, PositionRecord
<1>5. exit \in {"none", "part", "full"} /\ (exit = "part" => pattern)
  OBVIOUS
<1>6. pattern => p.t1_done /\ ~p.pt_done
  <2>1. p.risk0 * p.ca_scale = Risk
    BY <1>1 DEF Money
  <2>2. p.risk0 > 0
    BY <1>1, <2>1, HeldNumbers
  <2>3. ~p.t1_done => pk < p.en + 2 * p.risk0
    BY <1>1, <1>2 DEF Staged
  <2> QED BY <1>1, <1>2, <2>2, <2>3
<1>7. pk \in Nat /\ wh \in Nat /\ pk \in {p.pk, bar.high} /\ wh \in {p.pk_wh, bar.week}
  BY <1>1, <1>2, <1>3
<1>8. ~p.t1_done => pk < p.en + 2 * p.risk0
  BY <1>1, <1>2 DEF Staged
<1> HIDE DEF pk, wh, pattern, exit
<1>9. /\ q \in PositionRecord /\ q.pk = pk /\ q.pk_wh = wh /\ q.pending = exit
      /\ q.sh = p.sh /\ q.frac_left = p.frac_left /\ q.realized_r = p.realized_r /\ q.proceeds = p.proceeds
      /\ q.t1_done = p.t1_done /\ Levelled(p, q) /\ q.last_mark = p.last_mark
      /\ q.sold = p.sold /\ q.stale = p.stale /\ q.absent_run = p.absent_run
      /\ q.pt_done = (p.pt_done \/ exit = "part")
  <2>1. (p.pt_done \/ exit = "part") \in BOOLEAN
    OBVIOUS
  <2> QED BY <1>1, <1>4, <1>5, <1>7, <2>1 DEF PositionRecord, Levelled
<1>10. Money(q)
  BY <1>1, <1>9, Unsold
<1>11. Staged(q)
  BY <1>1, <1>5, <1>6, <1>8, <1>9, HeldNumbers DEF Staged, Gone, Levelled
<1> QED BY <1>7, <1>9, <1>10, <1>11 DEF Good, Past

\* A position that is frozen, or re-marked, has the same books.
LEMMA FlagsAreFree ==
  ASSUME NEW p, Good(p), NEW q \in PositionRecord, Levelled(p, q),
         q.sh = p.sh, q.frac_left = p.frac_left, q.realized_r = p.realized_r, q.proceeds = p.proceeds,
         q.t1_done = p.t1_done, q.pt_done = p.pt_done, q.pending = p.pending, q.pk = p.pk
  PROVE  Good(q)
<1>1. p \in PositionRecord /\ Money(p) /\ Staged(p)
  BY DEF Good
<1>2. Money(q)
  BY <1>1, Unsold
<1>3. Staged(q)
  BY <1>1 DEF Staged, Gone, Levelled
<1> QED BY <1>2, <1>3 DEF Good

LEMMA HoldIsGood ==
  ASSUME NEW p, Good(p), NEW q, q = Hold(p)
  PROVE  /\ Good(q) /\ Levelled(p, q) /\ q.ca_hold /\ q.sold = p.sold /\ q.sh = p.sh
         /\ \A bar : Past(p, q, bar)
<1>1. p \in PositionRecord /\ q = [p EXCEPT !.ca_hold = TRUE]
  BY DEF Hold, Good
<1>2. /\ q \in PositionRecord /\ Levelled(p, q) /\ q.ca_hold
      /\ q.sh = p.sh /\ q.frac_left = p.frac_left /\ q.realized_r = p.realized_r /\ q.proceeds = p.proceeds
      /\ q.t1_done = p.t1_done /\ q.pt_done = p.pt_done /\ q.pending = p.pending /\ q.pk = p.pk
      /\ q.pk_wh = p.pk_wh /\ q.last_mark = p.last_mark /\ q.sold = p.sold /\ q.stale = p.stale
      /\ q.absent_run = p.absent_run
  BY <1>1 DEF PositionRecord, Levelled
<1>3. Good(q)
  BY <1>2, FlagsAreFree
<1> QED BY <1>2, <1>3 DEF Past

\* A position marked at a bar.
MarkedAt(p, bar) == [p EXCEPT !.absent_run = 0, !.last_mark = bar.close]

LEMMA MarkIsGood ==
  ASSUME NEW p, Good(p), NEW bar, Priced(bar), NEW q, q = MarkedAt(p, bar)
  PROVE  /\ Good(q) /\ Levelled(p, q) /\ q.sh = p.sh /\ q.sold = p.sold /\ q.pending = p.pending
         /\ q.ca_hold = p.ca_hold /\ q.pk = p.pk /\ q.pk_wh = p.pk_wh /\ q.last_mark = bar.close
         /\ q.absent_run = 0 /\ q.stale = p.stale /\ q.t1_done = p.t1_done /\ q.pt_done = p.pt_done
         /\ q.realized_r = p.realized_r
<1>1. p \in PositionRecord /\ bar.close \in Nat /\ 0 \in 0..StaleAfter
  BY HeldNumbers DEF Good, Priced
<1>2. q = [p EXCEPT !.absent_run = 0, !.last_mark = bar.close]
  BY DEF MarkedAt
<1>3. /\ q \in PositionRecord /\ Levelled(p, q)
      /\ q.sh = p.sh /\ q.frac_left = p.frac_left /\ q.realized_r = p.realized_r /\ q.proceeds = p.proceeds
      /\ q.t1_done = p.t1_done /\ q.pt_done = p.pt_done /\ q.pending = p.pending /\ q.pk = p.pk
      /\ q.pk_wh = p.pk_wh /\ q.last_mark = bar.close /\ q.sold = p.sold /\ q.ca_hold = p.ca_hold
      /\ q.absent_run = 0 /\ q.stale = p.stale
  BY <1>1, <1>2 DEF PositionRecord, Levelled
<1> QED BY <1>3, FlagsAreFree

LEMMA AfterFillIsGood ==
  ASSUME NEW p, Good(p), sess \in Nat, p.pending = "none", NEW bar, Priced(bar),
         NEW q, q = AfterFill(p, bar)
  PROVE  Good(q) /\ Levelled(p, q) /\ Past(p, q, bar)
<1> DEFINE t == Target(p, bar)
<1>1. CASE ~StillOpen(p)
  <2>1. q = p
    BY <1>1 DEF AfterFill
  <2> QED BY <2>1 DEF Levelled, Past
<1>2. CASE StillOpen(p)
  <2>1. /\ Good(t) /\ Levelled(p, t) /\ Past(p, t, bar) /\ t.pending = "none" /\ StillOpen(t)
        /\ ~t.t1_done => bar.high < t.en + 2 * t.risk0
    BY <1>2, TargetIsGood
  <2>2. q \in {Hold(t), Decide(t, bar), t}
    BY <1>2 DEF AfterFill
  <2> HIDE DEF t
  <2>3. CASE q = Hold(t)
    <3>1. Good(q) /\ Levelled(t, q) /\ Past(t, q, bar)
      BY <2>1, <2>3, HoldIsGood
    <3> QED BY <2>1, <3>1 DEF Levelled, Past
  <2>4. CASE q = Decide(t, bar)
    <3>1. Good(q) /\ Levelled(t, q) /\ Past(t, q, bar)
      BY <2>1, <2>4, DecisionIsGood
    <3> QED BY <2>1, <3>1 DEF Levelled, Past
  <2>5. CASE q = t
    BY <2>1, <2>5
  <2> QED BY <2>2, <2>3, <2>4, <2>5
<1> QED BY <1>1, <1>2

LEMMA ManageIsGood ==
  ASSUME NEW p, Good(p), StillOpen(p), sess \in Nat, NEW bar, Priced(bar), NEW q, q = Manage(p, bar)
  PROVE  /\ Good(q) /\ Levelled(p, q)
         /\ q.pk \in {p.pk, bar.high} /\ q.pk_wh \in {p.pk_wh, bar.week} /\ q.last_mark = bar.close
         /\ q.sold \in {p.sold, sess + 1} /\ q.stale = p.stale /\ q.absent_run = 0
         /\ p.ca_hold \/ Alarming(p, bar, bar.open) => q.ca_hold /\ q.sold = p.sold
<1> DEFINE m == MarkedAt(p, bar)
<1>1. /\ Good(m) /\ Levelled(p, m) /\ m.sh = p.sh /\ m.sold = p.sold /\ m.pending = p.pending
      /\ m.ca_hold = p.ca_hold /\ m.pk = p.pk /\ m.pk_wh = p.pk_wh /\ m.last_mark = bar.close
      /\ m.stale = p.stale /\ m.absent_run = 0
  BY MarkIsGood
<1>2. Alarming(m, bar, bar.open) <=> Alarming(p, bar, bar.open)
  BY <1>1 DEF Alarming, Levelled
<1>3. q = IF m.ca_hold \/ Alarming(m, bar, bar.open) THEN Hold(m) ELSE AfterFill(FillPending(m, bar), bar)
  BY DEF Manage, MarkedAt
<1> HIDE DEF m
<1>4. CASE m.ca_hold \/ Alarming(m, bar, bar.open)
  <2>1. q = Hold(m)
    BY <1>3, <1>4
  <2>2. Good(q) /\ Levelled(m, q) /\ q.ca_hold /\ q.sold = m.sold /\ Past(m, q, bar)
    BY <1>1, <2>1, HoldIsGood
  <2> QED BY <1>1, <2>2 DEF Levelled, Past
<1>5. CASE ~(m.ca_hold \/ Alarming(m, bar, bar.open))
  <2> DEFINE f == FillPending(m, bar)
  <2>1. Good(f) /\ Levelled(m, f) /\ Past(m, f, bar) /\ f.pending = "none"
    BY <1>1, FillIsGood DEF StillOpen
  <2> HIDE DEF f
  <2>2. q = AfterFill(f, bar)
    BY <1>3, <1>5 DEF f
  <2>3. Good(q) /\ Levelled(f, q) /\ Past(f, q, bar)
    BY <2>1, <2>2, AfterFillIsGood
  <2> QED BY <1>1, <1>2, <1>5, <2>1, <2>3 DEF Levelled, Past
<1> QED BY <1>4, <1>5

LEMMA WaitIsGood ==
  ASSUME NEW p, Good(p), StillOpen(p), p.absent_run < StaleAfter, sess \in Nat, NEW q, q = Wait(p)
  PROVE  /\ Good(q) /\ Levelled(p, q) /\ q.pk = p.pk /\ q.pk_wh = p.pk_wh /\ q.last_mark = p.last_mark
         /\ q.ca_hold = p.ca_hold
         /\ \/ StillOpen(q) /\ q.absent_run < StaleAfter /\ q.sold = p.sold /\ q.stale = p.stale
            \/ ~StillOpen(q) /\ q.stale
<1> DEFINE m == [p EXCEPT !.absent_run = p.absent_run + 1]
           s == SellRest(m, m.last_mark)
<1>1. p \in PositionRecord /\ p.absent_run \in 0..StaleAfter /\ p.sh > 0
  BY DEF Good, PositionRecord, StillOpen
<1>2. p.absent_run + 1 \in 0..StaleAfter
  BY <1>1, HeldNumbers
<1>3. /\ m \in PositionRecord /\ Levelled(p, m) /\ m.absent_run = p.absent_run + 1
      /\ m.sh = p.sh /\ m.frac_left = p.frac_left /\ m.realized_r = p.realized_r /\ m.proceeds = p.proceeds
      /\ m.t1_done = p.t1_done /\ m.pt_done = p.pt_done /\ m.pending = p.pending /\ m.pk = p.pk
      /\ m.pk_wh = p.pk_wh /\ m.last_mark = p.last_mark /\ m.sold = p.sold /\ m.ca_hold = p.ca_hold
      /\ m.stale = p.stale
  BY <1>1, <1>2 DEF PositionRecord, Levelled
<1>4. q = IF m.absent_run < StaleAfter THEN m ELSE [s EXCEPT !.stale = TRUE]
  BY <1>1 DEF Wait
<1> HIDE DEF m
<1>5. Good(m)
  BY <1>3, FlagsAreFree
<1>6. CASE m.absent_run < StaleAfter
  <2>1. q = m
    BY <1>4, <1>6
  <2> QED BY <1>1, <1>3, <1>5, <1>6, <2>1 DEF StillOpen
<1>7. CASE ~(m.absent_run < StaleAfter)
  <2>1. m.last_mark \in Nat
    BY <1>3 DEF PositionRecord
  <2>2. SaleOf(m, s, m.sh, m.last_mark)
    BY <1>5, <2>1, SellRestSells DEF Good
  <2>3. q = [s EXCEPT !.stale = TRUE]
    BY <1>4, <1>7
  <2> HIDE DEF s
  <2>4. s \in PositionRecord /\ Money(s) /\ s.sh = 0
    BY <1>1, <1>3, <2>2, HeldNumbers DEF SaleOf, PositionRecord
  <2>5. Good(s)
    <3>1. Staged(s)
      BY <1>5, <2>2, <2>4 DEF Good, Staged, SaleOf, Levelled
    <3> QED BY <2>4, <3>1 DEF Good
  <2>6. /\ q \in PositionRecord /\ Levelled(s, q) /\ q.stale
        /\ q.sh = s.sh /\ q.frac_left = s.frac_left /\ q.realized_r = s.realized_r /\ q.proceeds = s.proceeds
        /\ q.t1_done = s.t1_done /\ q.pt_done = s.pt_done /\ q.pending = s.pending /\ q.pk = s.pk
        /\ q.pk_wh = s.pk_wh /\ q.last_mark = s.last_mark /\ q.ca_hold = s.ca_hold
    BY <2>3, <2>4 DEF PositionRecord, Levelled
  <2>7. Good(q)
    BY <2>5, <2>6, FlagsAreFree
  <2> QED BY <1>3, <2>2, <2>4, <2>6, <2>7 DEF SaleOf, Levelled, StillOpen
<1> QED BY <1>6, <1>7

-----------------------------------------------------------------------------
(* A re-based position and the undivided one. *)

\* The two are one position in two units.
Alike(p, w) ==
  /\ p.ca_scale = Split /\ w.ca_scale = 1 /\ p.ca_view /\ w.ca_view
  /\ p.sh = w.sh /\ p.t1_done = w.t1_done /\ p.pt_done = w.pt_done /\ p.pending = w.pending
  /\ p.absent_run = w.absent_run /\ p.ca_hold = w.ca_hold /\ p.sold = w.sold /\ p.stale = w.stale
  /\ p.stop * Split = w.stop /\ p.pk * Split = w.pk /\ p.pk_wh * Split = w.pk_wh
  /\ p.last_mark * Split = w.last_mark

\* The R of the one is the mean of the other's and of the carve-out's.
Mean(p, w, c) == Split * p.realized_r = w.realized_r + (Split - 1) * c

\* One bar in two units.
Scaled(seen, bar) ==
  /\ seen.open * Split = bar.open /\ seen.high * Split = bar.high /\ seen.close * Split = bar.close
  /\ seen.week * Split = bar.week
  /\ seen.ends = bar.ends /\ seen.weak = bar.weak /\ seen.broken = bar.broken

Both(p, w) == Good(p) /\ Good(w) /\ Alike(p, w)

LEMMA Units ==
  ASSUME NEW p \in PositionRecord, NEW w \in PositionRecord, Money(p), Money(w), Alike(p, w)
  PROVE  /\ Split \in Nat \ {0}
         /\ p.en * Split = w.en /\ p.risk0 * Split = w.risk0
<1>1. p.ca_scale = Split /\ w.ca_scale = 1
  BY DEF Alike
<1>2. p.en * Split = Entry /\ p.risk0 * Split = Risk /\ w.en * 1 = Entry /\ w.risk0 * 1 = Risk
  BY <1>1 DEF Money
<1>3. w.en \in Nat /\ w.risk0 \in Nat
  BY DEF PositionRecord
<1> QED BY <1>2, <1>3, HeldNumbers

\* A sale of as many shares.
LEMMA SoldAlike ==
  ASSUME NEW p \in PositionRecord, NEW w \in PositionRecord, Money(p), Money(w), Alike(p, w),
         NEW c \in Int, Mean(p, w, c), NEW n \in Nat,
         NEW px \in Nat, NEW PX \in Nat, px * Split = PX,
         NEW q, SaleOf(p, q, n, px), NEW v, SaleOf(w, v, n, PX)
  PROVE  Alike(q, v) /\ Mean(q, v, c)
<1>1. Split \in Nat \ {0} /\ p.en * Split = w.en
  BY Units
<1>2. Alike(q, v)
  BY DEF Alike, SaleOf, Levelled
<1>3. /\ p.en \in Int /\ w.en \in Int /\ p.realized_r \in Int /\ w.realized_r \in Int
  BY DEF PositionRecord
<1>4. q.realized_r = p.realized_r + n * (px - p.en) /\ v.realized_r = w.realized_r + n * (PX - w.en)
  BY DEF SaleOf
<1>5. Split * (n * (px - p.en)) = n * (PX - w.en)
  <2>1. PX - w.en = (px - p.en) * Split
    BY <1>1, <1>3
  <2> QED BY <1>1, <1>3, <2>1
<1>6. n * (px - p.en) \in Int /\ n * (PX - w.en) \in Int
  BY <1>3
<1>7. Split * (p.realized_r + n * (px - p.en)) = Split * p.realized_r + n * (PX - w.en)
  BY <1>1, <1>3, <1>5, <1>6
<1>8. Mean(q, v, c)
  BY <1>3, <1>4, <1>6, <1>7, <1>1 DEF Mean
<1> QED BY <1>2, <1>8

LEMMA FillsAgree ==
  ASSUME NEW p, NEW w, Both(p, w), NEW c \in Int, Mean(p, w, c), sess \in Nat, StillOpen(p),
         NEW seen, NEW bar, Priced(seen), Priced(bar), Scaled(seen, bar),
         NEW q, q = FillPending(p, seen), NEW v, v = FillPending(w, bar)
  PROVE  Both(q, v) /\ Mean(q, v, c)
<1>1. /\ Good(p) /\ Good(w) /\ Alike(p, w) /\ p \in PositionRecord /\ w \in PositionRecord /\ StillOpen(w)
      /\ p.pending = w.pending /\ p.pending \in {"none", "part", "full"} /\ p.sh = w.sh
      /\ seen.open \in Nat /\ bar.open \in Nat /\ seen.open * Split = bar.open
  BY DEF Both, Good, Alike, StillOpen, Priced, Scaled, PositionRecord
<1>2. Good(q) /\ Good(v)
  BY <1>1, FillIsGood
<1> DEFINE f == [p EXCEPT !.pending = "none"]
           g == [w EXCEPT !.pending = "none"]
<1>3. /\ q = IF p.pending = "none" THEN p
             ELSE IF p.pending = "part" THEN SellPart(f, seen.open) ELSE SellRest(f, seen.open)
      /\ v = IF p.pending = "none" THEN w
             ELSE IF p.pending = "part" THEN SellPart(g, bar.open) ELSE SellRest(g, bar.open)
  BY <1>1 DEF FillPending
<1>4. CASE p.pending = "none"
  BY <1>1, <1>2, <1>3, <1>4 DEF Both
<1>5. ASSUME NEW x, Good(x), x.pending # "none", StillOpen(x), NEW y, y = [x EXCEPT !.pending = "none"]
      PROVE  /\ y \in PositionRecord /\ Money(y) /\ (x.pending = "part" => y.sh >= Tranche)
  <2>1. x \in PositionRecord /\ Money(x) /\ Staged(x) /\ x.sh > 0
    BY <1>5 DEF Good, StillOpen
  <2>2. /\ y \in PositionRecord /\ Levelled(x, y) /\ y.sh = x.sh /\ y.frac_left = x.frac_left
        /\ y.realized_r = x.realized_r /\ y.proceeds = x.proceeds
    BY <1>5, <2>1 DEF PositionRecord, Levelled
  <2>3. x.pending = "part" => x.sh = Whole - Tranche
    BY <2>1, HeldNumbers DEF Staged, Gone, PositionRecord
  <2> QED BY <2>1, <2>2, <2>3, Unsold, HeldNumbers
<1>6. CASE p.pending # "none"
  <2>1. /\ f \in PositionRecord /\ Money(f) /\ (p.pending = "part" => f.sh >= Tranche)
    BY <1>1, <1>5, <1>6
  <2>2. /\ g \in PositionRecord /\ Money(g) /\ (p.pending = "part" => g.sh >= Tranche)
    BY <1>1, <1>5, <1>6
  \* The two before the sale, were there nothing to wait for.
  <2>3. Alike(f, g) /\ Mean(f, g, c) /\ f.sh = g.sh
    BY <1>1 DEF Alike, Mean, PositionRecord
  <2> HIDE DEF f, g
  <2>4. CASE p.pending = "part"
    <3>1. SaleOf(f, q, Tranche, seen.open) /\ SaleOf(g, v, Tranche, bar.open)
      BY <1>1, <1>3, <2>1, <2>2, <2>4, SellPartSells
    <3>2. Tranche \in Nat
      BY HeldNumbers
    <3>3. Alike(q, v) /\ Mean(q, v, c)
      BY <1>1, <2>1, <2>2, <2>3, <3>1, <3>2, SoldAlike
    <3> QED BY <1>2, <3>3 DEF Both
  <2>5. CASE p.pending = "full"
    <3>1. SaleOf(f, q, f.sh, seen.open) /\ SaleOf(g, v, g.sh, bar.open)
      BY <1>1, <1>3, <2>1, <2>2, <2>5, SellRestSells
    <3>2. f.sh \in Nat
      BY <2>1, HeldNumbers DEF PositionRecord
    <3>3. Alike(q, v) /\ Mean(q, v, c)
      BY <1>1, <2>1, <2>2, <2>3, <3>1, <3>2, SoldAlike
    <3> QED BY <1>2, <3>3 DEF Both
  <2> QED BY <1>1, <1>6, <2>4, <2>5
<1> QED BY <1>4, <1>6

LEMMA TargetsAgree ==
  ASSUME NEW p, NEW w, Both(p, w), NEW c \in Int, Mean(p, w, c), sess \in Nat, StillOpen(p),
         p.pending = "none",
         NEW seen, NEW bar, Priced(seen), Priced(bar), Scaled(seen, bar),
         NEW q, q = Target(p, seen), NEW v, v = Target(w, bar)
  PROVE  Both(q, v) /\ Mean(q, v, c)
<1>1. /\ Good(p) /\ Good(w) /\ Alike(p, w) /\ StillOpen(w) /\ w.pending = "none" /\ p.t1_done = w.t1_done
      /\ p.sh = w.sh /\ seen.high * Split = bar.high
  BY DEF Both, Alike, StillOpen, Scaled
<1>2. p \in PositionRecord /\ w \in PositionRecord /\ Money(p) /\ Money(w)
  BY <1>1 DEF Good
<1>3. p.en * Split = w.en /\ p.risk0 * Split = w.risk0 /\ Split \in Nat \ {0}
  BY <1>1, <1>2, Units
<1>4. p.en \in Nat /\ p.risk0 \in Nat /\ w.en \in Nat /\ w.risk0 \in Nat /\ seen.high \in Nat /\ bar.high \in Nat
  BY <1>2 DEF PositionRecord, Priced
<1> DEFINE px == p.en + 2 * p.risk0
           PX == w.en + 2 * w.risk0
<1>5. px \in Nat /\ PX \in Nat /\ px * Split = PX
  BY <1>3, <1>4
<1>6. seen.high >= px <=> bar.high >= PX
  BY <1>1, <1>3, <1>4, <1>5, ScaleOrder
<1>7. Good(q) /\ Good(v)
  BY <1>1, TargetIsGood
<1>8. /\ q = IF ~p.t1_done /\ seen.high >= px THEN [SellPart(p, px) EXCEPT !.t1_done = TRUE] ELSE p
      /\ v = IF ~p.t1_done /\ seen.high >= px THEN [SellPart(w, PX) EXCEPT !.t1_done = TRUE] ELSE w
  BY <1>1, <1>6 DEF Target
<1> HIDE DEF px, PX
<1>9. CASE ~(~p.t1_done /\ seen.high >= px)
  BY <1>1, <1>8, <1>9, <1>7 DEF Both
<1>10. CASE ~p.t1_done /\ seen.high >= px
  <2> DEFINE s == SellPart(p, px)
             z == SellPart(w, PX)
  <2>1. p.sh = Whole /\ p.sh >= Tranche /\ w.sh >= Tranche
    BY <1>1, <1>2, <1>10, HeldNumbers DEF Good, Staged, Gone, PositionRecord, StillOpen
  <2>2. SaleOf(p, s, Tranche, px) /\ SaleOf(w, z, Tranche, PX)
    BY <1>2, <1>5, <2>1, SellPartSells
  <2>3. Alike(s, z) /\ Mean(s, z, c)
    BY <1>1, <1>2, <1>5, <2>2, HeldNumbers, SoldAlike
  <2>4. s \in PositionRecord /\ z \in PositionRecord /\ q = [s EXCEPT !.t1_done = TRUE] /\ v = [z EXCEPT !.t1_done = TRUE]
    BY <1>8, <1>10, <2>2 DEF SaleOf
  <2> HIDE DEF s, z
  <2>5. Alike(q, v) /\ Mean(q, v, c)
    BY <2>3, <2>4 DEF Alike, Mean, PositionRecord
  <2> QED BY <1>7, <2>5 DEF Both
<1> QED BY <1>9, <1>10

LEMMA DecisionsAgree ==
  ASSUME NEW p, NEW w, Both(p, w), NEW c \in Int, Mean(p, w, c), StillOpen(p), p.pending = "none",
         NEW seen, NEW bar, Priced(seen), Priced(bar), Scaled(seen, bar),
         ~p.t1_done => seen.high < p.en + 2 * p.risk0, ~w.t1_done => bar.high < w.en + 2 * w.risk0,
         NEW q, q = Decide(p, seen), NEW v, v = Decide(w, bar)
  PROVE  Both(q, v) /\ Mean(q, v, c)
<1> DEFINE pk == Max({p.pk, seen.high})
           wh == Max({p.pk_wh, seen.week})
           pk2 == Max({w.pk, bar.high})
           wh2 == Max({w.pk_wh, bar.week})
           stopped == seen.close <= p.stop
           pattern == /\ ~p.pt_done /\ 2 * (pk - p.en) >= 5 * p.risk0
                      /\ seen.week >= p.pk_wh /\ seen.weak
           exit == CASE stopped -> "full"
                     [] ~stopped /\ pattern -> "part"
                     [] ~stopped /\ ~pattern /\ seen.broken -> "full"
                     [] OTHER -> "none"
           stopped2 == bar.close <= w.stop
           pattern2 == /\ ~w.pt_done /\ 2 * (pk2 - w.en) >= 5 * w.risk0
                       /\ bar.week >= w.pk_wh /\ bar.weak
           exit2 == CASE stopped2 -> "full"
                      [] ~stopped2 /\ pattern2 -> "part"
                      [] ~stopped2 /\ ~pattern2 /\ bar.broken -> "full"
                      [] OTHER -> "none"
<1>1. /\ Good(p) /\ Good(w) /\ Alike(p, w) /\ StillOpen(w) /\ w.pending = "none"
      /\ p.pt_done = w.pt_done /\ p.stop * Split = w.stop /\ p.pk * Split = w.pk /\ p.pk_wh * Split = w.pk_wh
  BY DEF Both, Alike, StillOpen
<1>2. p \in PositionRecord /\ w \in PositionRecord /\ Money(p) /\ Money(w)
  BY <1>1 DEF Good
<1>3. p.en * Split = w.en /\ p.risk0 * Split = w.risk0 /\ Split \in Nat \ {0}
  BY <1>1, <1>2, Units
<1>4. /\ p.en \in Nat /\ p.risk0 \in Nat /\ p.pk \in Nat /\ p.pk_wh \in Nat /\ p.stop \in Nat
      /\ w.en \in Nat /\ w.risk0 \in Nat /\ w.pk \in Nat /\ w.pk_wh \in Nat /\ w.stop \in Nat
  BY <1>2 DEF PositionRecord
<1>5. /\ seen.high \in Nat /\ seen.close \in Nat /\ seen.week \in Nat
      /\ bar.high \in Nat /\ bar.close \in Nat /\ bar.week \in Nat
      /\ seen.high * Split = bar.high /\ seen.close * Split = bar.close /\ seen.week * Split = bar.week
      /\ seen.weak = bar.weak /\ seen.broken = bar.broken
  BY DEF Priced, Scaled
<1>6. pk \in Nat /\ pk * Split = pk2
  <2>1. pk = IF p.pk >= seen.high THEN p.pk ELSE seen.high
    BY <1>4, <1>5, Larger
  <2>2. pk2 = IF w.pk >= bar.high THEN w.pk ELSE bar.high
    BY <1>4, <1>5, Larger
  <2>3. p.pk >= seen.high <=> w.pk >= bar.high
    BY <1>1, <1>3, <1>4, <1>5, ScaleOrder
  <2> QED BY <1>1, <1>4, <1>5, <2>1, <2>2, <2>3
<1>7. wh \in Nat /\ wh * Split = wh2
  <2>1. wh = IF p.pk_wh >= seen.week THEN p.pk_wh ELSE seen.week
    BY <1>4, <1>5, Larger
  <2>2. wh2 = IF w.pk_wh >= bar.week THEN w.pk_wh ELSE bar.week
    BY <1>4, <1>5, Larger
  <2>3. p.pk_wh >= seen.week <=> w.pk_wh >= bar.week
    BY <1>1, <1>3, <1>4, <1>5, ScaleOrder
  <2> QED BY <1>1, <1>4, <1>5, <2>1, <2>2, <2>3
<1>8. stopped <=> stopped2
  BY <1>1, <1>3, <1>4, <1>5, ScaleOrder
<1>9. pattern <=> pattern2
  <2> HIDE DEF pk, pk2
  <2>1. seen.week >= p.pk_wh <=> bar.week >= w.pk_wh
    BY <1>1, <1>3, <1>4, <1>5, ScaleOrder
  <2>2. (2 * (pk - p.en)) * Split = 2 * (pk2 - w.en) /\ (5 * p.risk0) * Split = 5 * w.risk0
    BY <1>3, <1>4, <1>6
  <2>3. 2 * (pk - p.en) \in Int /\ 5 * p.risk0 \in Int
    BY <1>4, <1>6
  <2>4. 2 * (pk - p.en) >= 5 * p.risk0 <=> 2 * (pk2 - w.en) >= 5 * w.risk0
    BY <1>3, <2>2, <2>3, ScaleOrder
  <2> QED BY <1>1, <1>5, <2>1, <2>4
<1>10. q = [p EXCEPT !.pk = pk, !.pending = exit, !.pt_done = (p.pt_done \/ exit = "part"), !.pk_wh = wh]
  BY <1>2 DEF Decide, PositionRecord
<1>11. v = [w EXCEPT !.pk = pk2, !.pending = exit2, !.pt_done = (w.pt_done \/ exit2 = "part"), !.pk_wh = wh2]
  BY <1>2 DEF Decide, PositionRecord
<1> HIDE DEF pk, wh, pk2, wh2, stopped, stopped2, pattern, pattern2
<1>12. exit = exit2
  BY <1>5, <1>8, <1>9
<1> HIDE DEF exit, exit2
<1>13. Good(q) /\ Good(v)
  BY <1>1, DecisionIsGood
<1>14. Alike(q, v) /\ Mean(q, v, c)
  BY <1>1, <1>2, <1>6, <1>7, <1>10, <1>11, <1>12 DEF Alike, Mean, PositionRecord
<1> QED BY <1>13, <1>14 DEF Both

LEMMA AfterFillsAgree ==
  ASSUME NEW p, NEW w, Both(p, w), NEW c \in Int, Mean(p, w, c), sess \in Nat, p.pending = "none",
         NEW seen, NEW bar, Priced(seen), Priced(bar), Scaled(seen, bar),
         NEW q, q = AfterFill(p, seen), NEW v, v = AfterFill(w, bar)
  PROVE  Both(q, v) /\ Mean(q, v, c)
<1>1. (StillOpen(p) <=> StillOpen(w)) /\ Good(p) /\ Good(w) /\ w.pending = "none"
  BY DEF Both, Alike, StillOpen
<1>2. CASE ~StillOpen(p)
  BY <1>1, <1>2 DEF AfterFill
<1>3. CASE StillOpen(p)
  <2> DEFINE t == Target(p, seen)
             u == Target(w, bar)
  <2>1. Both(t, u) /\ Mean(t, u, c)
    BY <1>3, TargetsAgree
  <2>2. /\ t.pending = "none" /\ StillOpen(t) /\ (~t.t1_done => seen.high < t.en + 2 * t.risk0)
        /\ ~u.t1_done => bar.high < u.en + 2 * u.risk0
    BY <1>1, <1>3, TargetIsGood
  <2>3. /\ q = IF Alarming(t, seen, seen.close) THEN Hold(t) ELSE IF seen.ends THEN Decide(t, seen) ELSE t
        /\ v = IF Alarming(u, bar, bar.close) THEN Hold(u) ELSE IF bar.ends THEN Decide(u, bar) ELSE u
    BY <1>1, <1>3 DEF AfterFill
  <2> HIDE DEF t, u
  <2>4. /\ q = IF seen.ends THEN Decide(t, seen) ELSE t
        /\ v = IF seen.ends THEN Decide(u, bar) ELSE u
    BY <2>1, <2>3 DEF Both, Alike, Alarming, Scaled
  <2>5. CASE seen.ends
    BY <2>1, <2>2, <2>4, <2>5, DecisionsAgree
  <2>6. CASE ~seen.ends
    BY <2>1, <2>4, <2>6
  <2> QED BY <2>5, <2>6
<1> QED BY <1>2, <1>3

LEMMA SessionsAgree ==
  ASSUME NEW p, NEW w, Both(p, w), NEW c \in Int, Mean(p, w, c), sess \in Nat, StillOpen(p),
         NEW seen, NEW bar, Priced(seen), Priced(bar), Scaled(seen, bar),
         NEW q, q = Manage(p, seen), NEW v, v = Manage(w, bar)
  PROVE  Both(q, v) /\ Mean(q, v, c)
<1> DEFINE m == MarkedAt(p, seen)
           k == MarkedAt(w, bar)
<1>1. Good(p) /\ Good(w) /\ Alike(p, w) /\ seen.close * Split = bar.close
  BY DEF Both, Scaled
<1>2. /\ Good(m) /\ Levelled(p, m) /\ m.sh = p.sh /\ m.sold = p.sold /\ m.pending = p.pending
      /\ m.ca_hold = p.ca_hold /\ m.pk = p.pk /\ m.pk_wh = p.pk_wh /\ m.last_mark = seen.close
      /\ m.absent_run = 0 /\ m.stale = p.stale /\ m.t1_done = p.t1_done /\ m.pt_done = p.pt_done
      /\ m.realized_r = p.realized_r
  BY <1>1, MarkIsGood
<1>3. /\ Good(k) /\ Levelled(w, k) /\ k.sh = w.sh /\ k.sold = w.sold /\ k.pending = w.pending
      /\ k.ca_hold = w.ca_hold /\ k.pk = w.pk /\ k.pk_wh = w.pk_wh /\ k.last_mark = bar.close
      /\ k.absent_run = 0 /\ k.stale = w.stale /\ k.t1_done = w.t1_done /\ k.pt_done = w.pt_done
      /\ k.realized_r = w.realized_r
  BY <1>1, MarkIsGood
<1>4. /\ q = IF m.ca_hold \/ Alarming(m, seen, seen.open) THEN Hold(m) ELSE AfterFill(FillPending(m, seen), seen)
      /\ v = IF k.ca_hold \/ Alarming(k, bar, bar.open) THEN Hold(k) ELSE AfterFill(FillPending(k, bar), bar)
  BY DEF Manage, MarkedAt
<1> HIDE DEF m, k
<1>5. Alike(m, k)
  BY <1>1, <1>2, <1>3 DEF Alike, Levelled
<1>6. Both(m, k) /\ Mean(m, k, c)
  BY <1>2, <1>3, <1>5 DEF Both, Mean
<1>7. /\ q = IF m.ca_hold THEN Hold(m) ELSE AfterFill(FillPending(m, seen), seen)
      /\ v = IF m.ca_hold THEN Hold(k) ELSE AfterFill(FillPending(k, bar), bar)
  BY <1>4, <1>5 DEF Alike, Alarming
<1>8. CASE m.ca_hold
  <2>1. Good(q) /\ Good(v)
    BY <1>2, <1>3, <1>7, <1>8, HoldIsGood
  <2>2. m \in PositionRecord /\ k \in PositionRecord /\ q = [m EXCEPT !.ca_hold = TRUE] /\ v = [k EXCEPT !.ca_hold = TRUE]
    BY <1>2, <1>3, <1>7, <1>8 DEF Good, Hold
  <2>3. Alike(q, v) /\ Mean(q, v, c)
    BY <1>5, <1>6, <2>2 DEF Alike, Mean, PositionRecord
  <2> QED BY <2>1, <2>3 DEF Both
<1>9. CASE ~m.ca_hold
  <2> DEFINE f == FillPending(m, seen)
             g == FillPending(k, bar)
  <2>1. StillOpen(m)
    BY <1>2 DEF StillOpen
  <2>2. Both(f, g) /\ Mean(f, g, c)
    BY <1>6, <2>1, FillsAgree
  <2>3. f.pending = "none"
    BY <1>2, <2>1, FillIsGood
  <2> HIDE DEF f, g
  <2>4. q = AfterFill(f, seen) /\ v = AfterFill(g, bar)
    BY <1>7, <1>9 DEF f, g
  <2> QED BY <2>2, <2>3, <2>4, AfterFillsAgree
<1> QED BY <1>8, <1>9

LEMMA WaitsAgree ==
  ASSUME NEW p, NEW w, Both(p, w), NEW c \in Int, Mean(p, w, c), sess \in Nat, StillOpen(p),
         p.absent_run < StaleAfter, NEW q, q = Wait(p), NEW v, v = Wait(w)
  PROVE  Both(q, v) /\ Mean(q, v, c)
<1>1. /\ Good(p) /\ Good(w) /\ Alike(p, w) /\ p \in PositionRecord /\ w \in PositionRecord /\ StillOpen(w)
      /\ w.absent_run < StaleAfter /\ p.absent_run = w.absent_run
  BY DEF Both, Good, Alike, StillOpen
<1>2. Good(q) /\ Good(v)
  BY <1>1, WaitIsGood
<1> DEFINE m == [p EXCEPT !.absent_run = p.absent_run + 1]
           k == [w EXCEPT !.absent_run = w.absent_run + 1]
           s == SellRest(m, m.last_mark)
           z == SellRest(k, k.last_mark)
<1>3. /\ q = IF p.absent_run + 1 < StaleAfter THEN m ELSE [s EXCEPT !.stale = TRUE]
      /\ v = IF p.absent_run + 1 < StaleAfter THEN k ELSE [z EXCEPT !.stale = TRUE]
  BY <1>1 DEF Wait, PositionRecord
<1>4. p.absent_run + 1 \in 0..StaleAfter
  BY <1>1, HeldNumbers DEF PositionRecord
<1>5. /\ m \in PositionRecord /\ Levelled(p, m) /\ m.sh = p.sh /\ m.frac_left = p.frac_left
      /\ m.realized_r = p.realized_r /\ m.proceeds = p.proceeds
  BY <1>1, <1>4 DEF PositionRecord, Levelled
<1>6. /\ k \in PositionRecord /\ Levelled(w, k) /\ k.sh = w.sh /\ k.frac_left = w.frac_left
      /\ k.realized_r = w.realized_r /\ k.proceeds = w.proceeds
  BY <1>1, <1>4 DEF PositionRecord, Levelled
<1>7. Alike(m, k) /\ Mean(m, k, c) /\ m.sh = k.sh /\ m.last_mark * Split = k.last_mark
  BY <1>1 DEF Alike, Mean, PositionRecord
<1>8. Money(m) /\ Money(k)
  BY <1>1, <1>5, <1>6, Unsold DEF Good
<1> HIDE DEF m, k
<1>9. CASE p.absent_run + 1 < StaleAfter
  BY <1>2, <1>3, <1>7, <1>9 DEF Both
<1>10. CASE ~(p.absent_run + 1 < StaleAfter)
  <2>1. m.last_mark \in Nat /\ k.last_mark \in Nat /\ m.sh \in Nat
    BY <1>5, <1>6, HeldNumbers DEF PositionRecord
  <2>2. SaleOf(m, s, m.sh, m.last_mark) /\ SaleOf(k, z, m.sh, k.last_mark)
    BY <1>5, <1>6, <1>7, <1>8, <2>1, SellRestSells
  <2>3. Alike(s, z) /\ Mean(s, z, c)
    BY <1>5, <1>6, <1>7, <1>8, <2>1, <2>2, SoldAlike
  <2>4. s \in PositionRecord /\ z \in PositionRecord /\ q = [s EXCEPT !.stale = TRUE] /\ v = [z EXCEPT !.stale = TRUE]
    BY <1>3, <1>10, <2>2 DEF SaleOf
  <2> HIDE DEF s, z
  <2>5. Alike(q, v) /\ Mean(q, v, c)
    BY <2>3, <2>4 DEF Alike, Mean, PositionRecord
  <2> QED BY <1>2, <2>5 DEF Both
<1> QED BY <1>9, <1>10

\* The carve-out splits a position in two units.
LEMMA DemergerSplits ==
  ASSUME NEW p, Good(p), StillOpen(p), p.ca_scale = 1, p.stop = Stop,
         p.pk % Split = 0, p.pk_wh % Split = 0, p.last_mark % Split = 0,
         NEW pre \in Nat, pre % Split = 0,
         NEW q, q = ApplyDemerger(p, pre), NEW w, w = [p EXCEPT !.ca_view = TRUE],
         NEW c, c = p.realized_r + p.sh * (pre - Entry)
  PROVE  /\ Both(q, w) /\ Mean(q, w, c) /\ c \in Int
         /\ q.sh = p.sh /\ q.absent_run = p.absent_run
<1>1. /\ p \in PositionRecord /\ Money(p) /\ Staged(p) /\ p.sh > 0 /\ Split \in Nat \ {0} /\ Split - 1 \in Nat
  BY HeldNumbers DEF Good, StillOpen
<1>2. /\ p.sh \in Nat /\ p.en \in Nat /\ p.risk0 \in Nat /\ p.realized_r \in Int /\ p.proceeds \in Nat
      /\ p.pk \in Nat /\ p.pk_wh \in Nat /\ p.last_mark \in Nat /\ p.stop \in Nat /\ p.frac_left \in 0..Whole
  BY <1>1, HeldNumbers DEF PositionRecord
<1>3. /\ p.frac_left = p.sh /\ p.en = Entry /\ p.risk0 = Risk
      /\ p.realized_r = p.proceeds - (Whole * Entry - p.sh * Entry)
  BY <1>1, <1>2, HeldNumbers DEF Money
<1>4. p.sh % Split = 0
  <2>1. p.sh = Whole - Gone(p)
    BY <1>1 DEF Staged
  <2>2. Tranche \in Int /\ Whole \in Int /\ Tranche % Split = 0 /\ Whole % Split = 0
    BY HeldNumbers
  <2>3. (Tranche + Tranche) % Split = 0 /\ (Whole - Tranche) % Split = 0
    BY <1>1, <2>2, Multiples
  <2>4. (Whole - (Tranche + Tranche)) % Split = 0
    <3>1. Tranche + Tranche \in Int
      BY <2>2
    <3> QED BY <1>1, <2>2, <2>3, <3>1, Multiples
  <2>5. p.sh \in {Whole, Whole - Tranche, Whole - (Tranche + Tranche)}
    BY <2>1, <2>2 DEF Gone
  <2> QED BY <2>2, <2>3, <2>4, <2>5
<1> DEFINE g == p.sh \div Split
           e == Entry \div Split
           r == Risk \div Split
           y == pre \div Split
           st == Stop \div Split
           pk == p.pk \div Split
           wh == p.pk_wh \div Split
           lm == p.last_mark \div Split
           rr == p.realized_r + (p.sh - g) * (pre - Entry)
           pp == p.proceeds + p.sh * (pre - y)
<1>5. /\ g * Split = p.sh /\ e * Split = Entry /\ r * Split = Risk /\ y * Split = pre
      /\ st * Split = Stop /\ pk * Split = p.pk /\ wh * Split = p.pk_wh /\ lm * Split = p.last_mark
      /\ g \in Nat /\ e \in Nat /\ r \in Nat /\ y \in Nat /\ st \in Nat /\ pk \in Nat /\ wh \in Nat /\ lm \in Nat
  BY <1>1, <1>2, <1>4, HeldNumbers, ExactDivision
<1>6. Multiple(p, pre) = pre - Entry
  <2>1. pre - Entry \in Int /\ Risk \in Nat \ {0}
    BY HeldNumbers
  <2> QED BY <1>3, <2>1, ExactQuotient DEF Multiple
<1>7. CreditR(p, pre) = (p.sh - g) * (pre - Entry)
  BY <1>3, <1>6 DEF CreditR
<1>8. q = [p EXCEPT !.realized_r = rr, !.proceeds = pp, !.frac_left = g, !.ca_scale = Split, !.ca_view = TRUE,
                    !.en = e, !.stop = st, !.risk0 = r, !.pk = pk, !.pk_wh = wh, !.last_mark = lm]
  <2>1. p.ca_scale * Split = Split
    BY <1>1
  <2>2. q = [p EXCEPT !.realized_r = p.realized_r + CreditR(p, pre), !.proceeds = pp,
                      !.frac_left = p.frac_left \div Split, !.ca_scale = p.ca_scale * Split, !.ca_view = TRUE,
                      !.en = p.en \div Split, !.stop = p.stop \div Split, !.risk0 = p.risk0 \div Split,
                      !.pk = pk, !.pk_wh = wh, !.last_mark = lm]
    BY DEF ApplyDemerger
  <2>3. /\ p.realized_r + CreditR(p, pre) = rr /\ p.frac_left \div Split = g /\ p.en \div Split = e
        /\ p.stop \div Split = st /\ p.risk0 \div Split = r
    BY <1>3, <1>7
  <2> HIDE DEF g, e, r, y, st, pk, wh, lm, rr, pp
  <2> QED BY <2>1, <2>2, <2>3
<1> HIDE DEF g, e, r, y, st, pk, wh, lm
<1>9. g <= p.sh /\ y <= pre
  BY <1>1, <1>2, <1>5
<1>10. /\ rr \in Int /\ pp \in Nat
       /\ g \in 0..Whole /\ Split \in Nat \ {0}
  <2>1. (p.sh - g) * (pre - Entry) \in Int
    BY <1>2, <1>5, HeldNumbers
  <2>2. p.sh * (pre - y) \in Nat
    <3>1. pre - y \in Nat
      BY <1>5, <1>9
    <3> QED BY <1>2, <3>1
  <2>3. p.sh <= Whole
    BY <1>1, HeldNumbers DEF PositionRecord
  <2>4. p.realized_r + (p.sh - g) * (pre - Entry) \in Int
    BY <1>2, <2>1
  <2>5. p.proceeds + p.sh * (pre - y) \in Nat
    BY <1>2, <2>2
  <2>6. g \in 0..Whole
    BY <1>2, <1>5, <1>9, <2>3, HeldNumbers
  <2>7. Split \in Nat \ {0}
    BY <1>1
  <2> QED BY <2>4, <2>5, <2>6, <2>7
<1> HIDE DEF rr, pp
<1>11. q \in PositionRecord
  <2>1. e \in Nat /\ r \in Nat /\ st \in Nat /\ pk \in Nat /\ wh \in Nat /\ lm \in Nat
    BY <1>5
  <2>2. p \in PositionRecord
    BY <1>1
  <2>3. /\ p.sh \in 0..Whole /\ p.t1_done \in BOOLEAN /\ p.pt_done \in BOOLEAN
        /\ p.pending \in {"none", "part", "full"} /\ p.absent_run \in 0..StaleAfter
        /\ p.ca_hold \in BOOLEAN /\ p.sold \in Nat /\ p.stale \in BOOLEAN
    BY <2>2 DEF PositionRecord
  <2>4. q = [sh |-> p.sh, frac_left |-> g, ca_scale |-> Split, en |-> e, stop |-> st, risk0 |-> r,
             realized_r |-> rr, proceeds |-> pp, t1_done |-> p.t1_done, pt_done |-> p.pt_done,
             pk |-> pk, pk_wh |-> wh, pending |-> p.pending, absent_run |-> p.absent_run,
             last_mark |-> lm, ca_hold |-> p.ca_hold, ca_view |-> TRUE, sold |-> p.sold,
             stale |-> p.stale]
    BY <1>8, <2>2 DEF PositionRecord
  <2> QED BY <1>10, <2>1, <2>3, <2>4 DEF PositionRecord
<1>12. /\ q.realized_r = rr /\ q.proceeds = pp
       /\ q.frac_left = g /\ q.ca_scale = Split /\ q.ca_view /\ q.en = e /\ q.stop = st /\ q.risk0 = r
       /\ q.pk = pk /\ q.pk_wh = wh /\ q.last_mark = lm
       /\ q.sh = p.sh /\ q.t1_done = p.t1_done /\ q.pt_done = p.pt_done /\ q.pending = p.pending
       /\ q.absent_run = p.absent_run /\ q.ca_hold = p.ca_hold /\ q.sold = p.sold /\ q.stale = p.stale
  BY <1>1, <1>8 DEF PositionRecord
<1>13. /\ w \in PositionRecord /\ w.ca_view /\ w.realized_r = p.realized_r /\ w.proceeds = p.proceeds
       /\ w.frac_left = p.frac_left /\ w.ca_scale = 1 /\ w.en = p.en /\ w.stop = p.stop /\ w.risk0 = p.risk0
       /\ w.pk = p.pk /\ w.pk_wh = p.pk_wh /\ w.last_mark = p.last_mark
       /\ w.sh = p.sh /\ w.t1_done = p.t1_done /\ w.pt_done = p.pt_done /\ w.pending = p.pending
       /\ w.absent_run = p.absent_run /\ w.ca_hold = p.ca_hold /\ w.sold = p.sold /\ w.stale = p.stale
  BY <1>1 DEF PositionRecord
<1>14. Good(w)
  BY <1>1, <1>13 DEF Good, Money, Staged, Gone
<1>15. Alike(q, w)
  BY <1>5, <1>12, <1>13 DEF Alike
\* What the carve-out pays, with all prices in the new unit.
<1>16. /\ p.sh - g = g * (Split - 1) /\ pre - Entry = (y - e) * Split /\ pre - y = y * (Split - 1)
  BY <1>1, <1>2, <1>5
<1>17. Money(q)
  <2>1. (p.sh - g) * (pre - Entry) = p.sh * (pre - y) - (p.sh * Entry - p.sh * e)
    <3> DEFINE x == Split - 1
    <3>1. x \in Int /\ Split = x + 1
      BY <1>1
    <3>2. Entry - e = e * x
      BY <1>5, <3>1
    <3> HIDE DEF x
    <3>3. (p.sh - g) * (pre - Entry) = p.sh * (x * (y - e))
      <4>1. p.sh - g = g * x
        BY <1>16 DEF x
      <4>2. (g * x) * ((y - e) * Split) = (g * Split) * (x * (y - e))
        BY <1>1, <1>5, <3>1
      <4> QED BY <1>5, <1>16, <4>1, <4>2
    <3>4. p.sh * (pre - y) = p.sh * (y * x)
      BY <1>16 DEF x
    <3>5. p.sh * Entry - p.sh * e = p.sh * (e * x)
      BY <1>2, <1>5, <3>2, HeldNumbers
    <3>6. p.sh * (x * (y - e)) = p.sh * (y * x) - p.sh * (e * x)
      BY <1>2, <1>5, <3>1
    <3> QED BY <3>3, <3>4, <3>5, <3>6
  <2>2. /\ (p.sh - g) * (pre - Entry) \in Int /\ p.sh * (pre - y) \in Int /\ p.sh * Entry \in Int
        /\ p.sh * e \in Int /\ Whole * Entry \in Int
    BY <1>2, <1>5, HeldNumbers
  <2>3. p.realized_r + (p.sh - g) * (pre - Entry)
          = (p.proceeds + p.sh * (pre - y)) - (Whole * Entry - p.sh * e)
    BY <1>2, <1>3, <2>1, <2>2
  <2> QED BY <1>5, <1>12, <2>3, HeldNumbers DEF Money, rr, pp
<1>18. Staged(q)
  <2>1. ~p.t1_done => pk < e + 2 * r
    <3>1. SUFFICES ASSUME ~p.t1_done PROVE ~(e + 2 * r <= pk)
      BY <1>5
    <3>2. p.pk < Entry + 2 * Risk
      BY <1>1, <1>3, <3>1 DEF Staged
    <3>3. (e + 2 * r) * Split = Entry + 2 * Risk /\ e + 2 * r \in Int
      BY <1>1, <1>5
    <3>4. ~((e + 2 * r) * Split <= pk * Split)
      BY <1>2, <1>5, <3>2, <3>3, HeldNumbers
    <3> QED BY <1>1, <1>5, <3>3, <3>4, ScaleOrder
  <2> QED BY <1>1, <1>12, <2>1 DEF Staged, Gone
<1>19. c \in Int
  BY <1>2, HeldNumbers
<1>20. Mean(q, w, c)
  <2>1. Split * ((p.sh - g) * (pre - Entry)) = (Split - 1) * (p.sh * (pre - Entry))
    <3>1. pre - Entry \in Int
      BY HeldNumbers
    <3>2. Split * (p.sh - g) = (Split - 1) * p.sh
      BY <1>1, <1>2, <1>5
    <3> QED BY <1>1, <1>2, <1>5, <3>1, <3>2
  <2>2. (p.sh - g) * (pre - Entry) \in Int /\ p.sh * (pre - Entry) \in Int
    BY <1>2, <1>5, HeldNumbers
  <2>3. Split * (p.realized_r + (p.sh - g) * (pre - Entry))
          = p.realized_r + (Split - 1) * (p.realized_r + p.sh * (pre - Entry))
    BY <1>1, <1>2, <2>1, <2>2
  <2> QED BY <1>12, <1>13, <2>3 DEF Mean, rr
<1> QED BY <1>11, <1>12, <1>14, <1>15, <1>17, <1>18, <1>19, <1>20 DEF Both, Good

-----------------------------------------------------------------------------
(* Bars. *)

LEMMA BarFacts ==
  ASSUME NEW bar \in Bars(last), last \in Levels, high \in Levels \cup {0}
  PROVE  /\ Priced(bar) /\ bar.prev = last
         /\ bar.open \in Levels /\ bar.high \in Levels /\ bar.close \in Levels
         /\ bar.open % Split = 0 /\ bar.high % Split = 0 /\ bar.close % Split = 0 /\ bar.week % Split = 0
         /\ last \in Nat \ {0} /\ last % Split = 0
         /\ bar = [open |-> bar.open, high |-> bar.high, close |-> bar.close, week |-> bar.week,
                   prev |-> bar.prev, ends |-> bar.ends, weak |-> bar.weak, broken |-> bar.broken,
                   reviewed |-> bar.reviewed]
         /\ Demerged(sess + 1) /\ ~passed => bar.close = last /\ bar.open <= last /\ ~bar.reviewed
<1>1. /\ bar \in [open : Levels, high : Levels, close : Levels, week : Levels \cup {high}, prev : {last},
                  ends : BOOLEAN, weak : BOOLEAN, broken : BOOLEAN, reviewed : BOOLEAN]
      /\ Demerged(sess + 1) /\ ~passed => bar.close = last /\ bar.open <= last /\ ~bar.reviewed
  BY DEF Bars
<1>2. Levels \subseteq Nat \ {0} /\ \A l \in Levels : l % Split = 0
  BY HeldNumbers
<1>3. 0 % Split = 0
  BY HeldNumbers
<1>4. bar.week \in Levels \cup {0}
  BY <1>1
<1>5. bar.week \in Nat /\ bar.week % Split = 0
  <2>1. CASE bar.week = 0
    BY <1>3, <2>1
  <2>2. CASE bar.week \in Levels
    BY <1>2, <2>2
  <2> QED BY <1>4, <2>1, <2>2
<1> QED BY <1>1, <1>2, <1>5 DEF Priced

LEMMA DividedIsScaled ==
  ASSUME NEW bar \in Bars(last), last \in Levels, high \in Levels \cup {0}, NEW seen, seen = Divided(bar)
  PROVE  /\ Priced(seen) /\ Scaled(seen, bar) /\ seen.reviewed = bar.reviewed
         /\ ~passed => seen.prev = last
<1>1. /\ Priced(bar) /\ bar.prev = last /\ last \in Nat /\ last % Split = 0
      /\ bar.open % Split = 0 /\ bar.high % Split = 0 /\ bar.close % Split = 0 /\ bar.week % Split = 0
      /\ bar = [open |-> bar.open, high |-> bar.high, close |-> bar.close, week |-> bar.week,
                prev |-> bar.prev, ends |-> bar.ends, weak |-> bar.weak, broken |-> bar.broken,
                reviewed |-> bar.reviewed]
  BY BarFacts
<1>2. Split \in Nat \ {0}
  BY HeldNumbers
<1>3. /\ bar.open \div Split \in Nat /\ (bar.open \div Split) * Split = bar.open
      /\ bar.high \div Split \in Nat /\ (bar.high \div Split) * Split = bar.high
      /\ bar.close \div Split \in Nat /\ (bar.close \div Split) * Split = bar.close
      /\ bar.week \div Split \in Nat /\ (bar.week \div Split) * Split = bar.week
      /\ last \div Split \in Nat
  BY <1>1, <1>2, ExactDivision DEF Priced
<1>4. seen = [open |-> bar.open \div Split, high |-> bar.high \div Split, close |-> bar.close \div Split,
              week |-> bar.week \div Split, prev |-> IF passed THEN last \div Split ELSE last,
              ends |-> bar.ends, weak |-> bar.weak, broken |-> bar.broken, reviewed |-> bar.reviewed]
  BY <1>1 DEF Divided
<1>5. /\ seen.open = bar.open \div Split /\ seen.high = bar.high \div Split
      /\ seen.close = bar.close \div Split /\ seen.week = bar.week \div Split
      /\ seen.prev = IF passed THEN last \div Split ELSE last
      /\ seen.ends = bar.ends /\ seen.weak = bar.weak /\ seen.broken = bar.broken
      /\ seen.reviewed = bar.reviewed
  BY <1>4
<1> QED BY <1>1, <1>3, <1>5 DEF Priced, Scaled

\* The ex-date's first bar, where nothing smooths it, is a cliff.
LEMMA ExBar ==
  ASSUME NEW bar \in Bars(last), last \in Levels, high \in Levels \cup {0}, Demerged(sess + 1), ~passed,
         NEW seen, seen = Divided(bar)
  PROVE  /\ 100 * seen.close <= 95 * seen.prev
         /\ \A p : ~p.ca_view => Alarming(p, seen, seen.open)
<1>1. /\ bar.close = last /\ bar.open <= last /\ ~bar.reviewed /\ last \in Nat /\ bar.open \in Nat
  BY BarFacts DEF Priced
<1>2. /\ seen.open * Split = bar.open /\ seen.close * Split = bar.close /\ seen.prev = last
      /\ ~seen.reviewed /\ seen.open \in Nat /\ seen.close \in Nat
  BY <1>1, DividedIsScaled DEF Scaled, Priced
<1>3. Split \in Nat /\ Split >= 2
  BY HeldNumbers
<1>4. \A a \in Nat : 2 * a <= a * Split
  BY <1>3
<1>5. 2 * seen.close <= last /\ 2 * seen.open <= last
  <2>1. 2 * seen.close <= bar.close /\ 2 * seen.open <= bar.open
    BY <1>2, <1>4
  <2> QED BY <1>1, <1>2, <2>1
<1>6. 100 * seen.close <= 95 * last /\ 100 * seen.open <= 85 * last
  BY <1>1, <1>2, <1>5
<1> QED BY <1>2, <1>6 DEF Alarming

\* A bar that nothing divides is no cliff.
LEMMA SmoothBar ==
  ASSUME NEW bar \in Bars(last), last \in Levels, high \in Levels \cup {0}, Demerged(sess + 1), ~passed
  PROVE  ~(100 * bar.close <= 95 * bar.prev)
<1>1. bar.close = last /\ bar.prev = last /\ last \in Nat \ {0}
  BY BarFacts
<1> QED BY <1>1

-----------------------------------------------------------------------------
(* The replay. *)

\* What divides evenly at the ex-date.
Divisible(p) == p.pk % Split = 0 /\ p.pk_wh % Split = 0 /\ p.last_mark % Split = 0

\* A position whose demerger nobody registered is frozen from its first bar,
\* and a registered one is the undivided one: itself until then, in two units
\* from then on.
HeldIInv ==
  /\ sess \in 0..LastBar /\ ex \in 0..LastBar /\ filed \in {"cliff", "smooth", "missing"}
  /\ passed \in BOOLEAN /\ last \in Levels /\ high \in Levels \cup {0} /\ carved \in Int
  /\ Good(held) /\ Good(whole) /\ (StillOpen(held) => held.absent_run < StaleAfter)
  /\ passed => ex # 0 /\ sess >= ex
  /\ held.ca_view <=> (filed = "cliff" /\ passed)
  /\ held.ca_view => Alike(held, whole) /\ Mean(held, whole, carved)
  /\ ~held.ca_view => held.ca_scale = 1 /\ held.stop = Stop
  /\ ~held.ca_view /\ filed # "missing" => held = whole /\ Divisible(held)
  /\ filed = "missing" /\ ex # 0 => held.sold < ex \/ held.stale
  /\ filed = "missing" /\ passed /\ StillOpen(held) => held.ca_hold

LEMMA EntryIsGood == Good(AtEntry) /\ Divisible(AtEntry) /\ StillOpen(AtEntry)
<1>1. /\ Whole \in Nat \ {0} /\ Entry \in Nat /\ Stop \in Nat /\ Risk \in Nat \ {0} /\ StaleAfter \in Nat \ {0}
      /\ Tranche \in Nat /\ Split \in Nat \ {0} /\ Entry % Split = 0
  BY HeldNumbers
<1>2. AtEntry \in PositionRecord
  BY <1>1 DEF AtEntry, PositionRecord
<1>3. Money(AtEntry)
  <2>1. Whole * Entry \in Int /\ Tranche % 1 = 0
    BY <1>1
  <2> QED BY <1>1, <2>1 DEF AtEntry, Money
<1>4. Staged(AtEntry)
  BY <1>1 DEF AtEntry, Staged, Gone
<1>5. Divisible(AtEntry)
  BY <1>1 DEF AtEntry, Divisible
<1> QED BY <1>1, <1>2, <1>3, <1>4, <1>5 DEF Good, AtEntry, StillOpen

LEMMA HeldInitInv == HeldInit => HeldIInv
<1> SUFFICES ASSUME HeldInit PROVE HeldIInv
  OBVIOUS
<1>1. 0 \in 0..LastBar /\ StaleAfter > 0 /\ 0 \in Int
  BY HeldNumbers
<1>2. /\ held = AtEntry /\ whole = AtEntry /\ passed = FALSE /\ sess = 0 /\ ex \in 0..LastBar
      /\ filed \in {"cliff", "smooth", "missing"} /\ (ex = 0 => filed = "missing")
      /\ last \in Levels /\ high = last /\ carved = 0
  BY DEF HeldInit
<1>3. /\ ~AtEntry.ca_view /\ AtEntry.ca_scale = 1 /\ AtEntry.stop = Stop /\ AtEntry.sold = 0
      /\ AtEntry.absent_run = 0
  BY DEF AtEntry
<1>4. ex # 0 => 0 < ex
  BY <1>2, <1>1
<1> QED BY <1>1, <1>2, <1>3, <1>4, EntryIsGood DEF HeldIInv


\* What a bar does to the replay's own state.
LEMMA BarIsSeen ==
  ASSUME HeldIInv, Bar
  PROVE  /\ sess' \in 0..LastBar /\ sess' = sess + 1 /\ sess \in Nat /\ ex' = ex /\ ex \in Nat /\ filed' = filed
         /\ passed' = Demerged(sess + 1) /\ (passed' => ex' # 0 /\ sess' >= ex')
         /\ StillOpen(held) /\ (passed => Demerged(sess + 1))
<1>1. sess \in 0..LastBar /\ ex \in 0..LastBar /\ sess < LastBar /\ LastBar \in Nat
  BY HeldNumbers DEF HeldIInv, Bar
<1>2. /\ sess' = sess + 1 /\ ex' = ex /\ filed' = filed /\ passed' = Demerged(sess + 1) /\ StillOpen(held)
  BY DEF Bar
<1>3. passed' => ex' # 0 /\ sess' >= ex'
  BY <1>2 DEF Demerged
<1>4. passed => Demerged(sess + 1)
  BY <1>1 DEF HeldIInv, Demerged
<1> QED BY <1>1, <1>2, <1>3, <1>4

LEMMA StillDivisible ==
  ASSUME NEW p, Divisible(p), NEW bar \in Bars(last), last \in Levels, high \in Levels \cup {0},
         NEW q, q.pk \in {p.pk, bar.high}, q.pk_wh \in {p.pk_wh, bar.week}, q.last_mark = bar.close
  PROVE  Divisible(q)
BY BarFacts DEF Divisible

LEMMA HeldBar == HeldIInv /\ Bar => HeldIInv'
<1> SUFFICES ASSUME HeldIInv, Bar PROVE HeldIInv'
  OBVIOUS
<1>1. /\ sess' \in 0..LastBar /\ sess' = sess + 1 /\ sess \in Nat /\ ex' = ex /\ ex \in Nat /\ filed' = filed
      /\ passed' = Demerged(sess + 1) /\ (passed' => ex' # 0 /\ sess' >= ex')
      /\ StillOpen(held) /\ (passed => Demerged(sess + 1))
  BY BarIsSeen
<1>2. /\ ex \in 0..LastBar /\ filed \in {"cliff", "smooth", "missing"} /\ passed \in BOOLEAN
      /\ last \in Levels /\ high \in Levels \cup {0} /\ carved \in Int /\ Good(held) /\ Good(whole)
      /\ held.absent_run < StaleAfter /\ (held.ca_view <=> (filed = "cliff" /\ passed))
      /\ (held.ca_view => Alike(held, whole) /\ Mean(held, whole, carved))
      /\ (~held.ca_view => held.ca_scale = 1 /\ held.stop = Stop)
      /\ (~held.ca_view /\ filed # "missing" => held = whole /\ Divisible(held))
      /\ (filed = "missing" /\ ex # 0 => held.sold < ex \/ held.stale)
      /\ (filed = "missing" /\ passed => held.ca_hold)
  BY <1>1 DEF HeldIInv
<1>3. Demerged(sess + 1) \in BOOLEAN /\ StaleAfter > 0
  BY HeldNumbers DEF Demerged
<1>4. PICK bar \in Bars(last) :
         LET seen == Series(bar)
             p == IntoDemerger(held, seen)
         IN  /\ held' = Manage(p, seen)
             /\ whole' = IF filed = "missing" THEN whole ELSE Manage([whole EXCEPT !.ca_view = p.ca_view], bar)
             /\ carved' = IF p.ca_view /\ ~held.ca_view
                          THEN held.realized_r + held.sh * (last - Entry) ELSE carved
             /\ last' = bar.close /\ high' = IF bar.ends THEN 0 ELSE bar.week
  BY DEF Bar
<1> DEFINE seen == Series(bar)
           p == IntoDemerger(held, seen)
           w == [whole EXCEPT !.ca_view = p.ca_view]
<1>5. /\ held' = Manage(p, seen) /\ whole' = IF filed = "missing" THEN whole ELSE Manage(w, bar)
      /\ carved' = IF p.ca_view /\ ~held.ca_view THEN held.realized_r + held.sh * (last - Entry) ELSE carved
      /\ last' = bar.close /\ high' = IF bar.ends THEN 0 ELSE bar.week
  BY <1>4
<1>6. Priced(bar) /\ bar.prev = last /\ bar.close \in Levels /\ last \in Nat /\ last % Split = 0
  BY <1>2, BarFacts
<1>7. last' \in Levels /\ high' \in Levels \cup {0}
  <2>1. bar.week \in Levels \cup {high}
    BY DEF Bars
  <2> QED BY <1>2, <1>5, <1>6, <2>1
\* What the listed share shows is the bar, or the bar in the new unit.
<1>8. /\ Demerged(sess + 1) /\ filed # "smooth" => seen = Divided(bar)
      /\ ~(Demerged(sess + 1) /\ filed # "smooth") => seen = bar
  BY DEF Series
<1>9. Priced(seen)
  BY <1>2, <1>6, <1>8, DividedIsScaled
<1>10. CASE filed = "missing"
  <2>1. p = held /\ ~held.ca_view /\ whole' = whole /\ carved' = carved
    <3>1. p = held
      BY <1>10 DEF IntoDemerger
    <3> QED BY <1>2, <1>5, <1>10, <3>1
  <2> HIDE DEF p
  <2>2. /\ Good(held') /\ Levelled(held, held') /\ held'.sold \in {held.sold, sess + 1}
        /\ held'.stale = held.stale /\ held'.absent_run = 0
        /\ (held.ca_hold \/ Alarming(held, seen, seen.open) => held'.ca_hold /\ held'.sold = held.sold)
    BY <1>1, <1>2, <1>5, <1>9, <2>1, ManageIsGood
  <2>3. Demerged(sess + 1) => held'.ca_hold /\ held'.sold = held.sold
    <3>1. CASE passed
      BY <1>2, <1>10, <2>2, <3>1
    <3>2. CASE ~passed /\ Demerged(sess + 1)
      <4>1. Alarming(held, seen, seen.open)
        BY <1>2, <1>8, <1>10, <2>1, <3>2, ExBar
      <4> QED BY <2>2, <4>1
    <3> QED BY <3>1, <3>2
  <2>4. ex # 0 => held'.sold < ex \/ held'.stale
    <3>1. CASE Demerged(sess + 1)
      BY <1>2, <1>10, <2>2, <2>3, <3>1
    <3>2. CASE ~Demerged(sess + 1) /\ ex # 0
      <4>1. sess + 1 < ex
        BY <1>1, <3>2 DEF Demerged
      <4> QED BY <1>2, <1>10, <2>2, <4>1
    <3> QED BY <3>1, <3>2
  <2>5. ~held'.ca_view /\ held'.ca_scale = 1 /\ held'.stop = Stop
    BY <1>2, <2>1, <2>2 DEF Levelled
  <2> QED BY <1>1, <1>2, <1>3, <1>7, <1>10, <2>1, <2>2, <2>3, <2>4, <2>5 DEF HeldIInv
<1>11. CASE filed # "missing" /\ ~passed /\ filed = "cliff" /\ Demerged(sess + 1)
  <2>1. seen = Divided(bar) /\ ~held.ca_view /\ held = whole /\ Divisible(held)
    BY <1>2, <1>8, <1>11
  <2>2. Scaled(seen, bar) /\ seen.prev = last /\ 100 * seen.close <= 95 * seen.prev
    BY <1>2, <1>11, <2>1, DividedIsScaled, ExBar
  <2>3. p = ApplyDemerger(held, last)
    BY <1>11, <2>2 DEF IntoDemerger
  <2> DEFINE c == held.realized_r + held.sh * (last - Entry)
             v == [held EXCEPT !.ca_view = TRUE]
  <2>4. Both(p, v) /\ Mean(p, v, c) /\ c \in Int /\ p.sh = held.sh
    <3>1. /\ Good(held) /\ StillOpen(held) /\ held.ca_scale = 1 /\ held.stop = Stop
          /\ held.pk % Split = 0 /\ held.pk_wh % Split = 0 /\ held.last_mark % Split = 0
          /\ last \in Nat /\ last % Split = 0
      BY <1>1, <1>2, <1>6, <2>1 DEF Divisible
    <3> HIDE DEF p
    <3> QED BY <2>3, <3>1, DemergerSplits
  <2>5. p.ca_view = TRUE
    BY <2>3, <1>2 DEF ApplyDemerger, Good, PositionRecord
  <2>6. w = v /\ carved' = c
    BY <1>5, <2>1, <2>5
  <2> HIDE DEF p, v, w, c
  <2>7. whole' = Manage(v, bar) /\ held' = Manage(p, seen) /\ StillOpen(p)
    BY <1>1, <1>5, <1>11, <2>4, <2>6 DEF StillOpen
  <2> HIDE DEF seen
  <2>8. Both(held', whole') /\ Mean(held', whole', c)
    BY <1>1, <1>6, <1>9, <2>2, <2>4, <2>7, SessionsAgree
  <2>9. held'.absent_run = 0
    BY <1>1, <1>9, <2>4, <2>7, ManageIsGood DEF Both
  <2>10. held'.ca_view
    BY <2>8 DEF Both, Alike
  <2> QED BY <1>1, <1>2, <1>3, <1>7, <1>11, <2>4, <2>6, <2>8, <2>9, <2>10 DEF HeldIInv, Both
<1>12. CASE filed = "cliff" /\ passed
  <2>1. seen = Divided(bar) /\ held.ca_view /\ Demerged(sess + 1)
    BY <1>1, <1>2, <1>8, <1>12
  <2>2. Scaled(seen, bar)
    BY <1>2, <2>1, DividedIsScaled
  <2>3. p = held
    BY <1>12 DEF IntoDemerger
  <2>4. w = whole /\ carved' = carved /\ Both(held, whole) /\ Mean(held, whole, carved)
    <3>1. Both(held, whole) /\ Mean(held, whole, carved)
      BY <1>2, <2>1 DEF Both
    <3>2. held.ca_view = TRUE /\ whole.ca_view = TRUE /\ whole \in PositionRecord /\ held \in PositionRecord
      BY <3>1 DEF Both, Alike, Good, PositionRecord
    <3>3. w = whole
      BY <2>3, <3>2 DEF PositionRecord
    <3> QED BY <1>5, <2>3, <3>1, <3>2, <3>3
  <2> HIDE DEF p, w
  <2>5. whole' = Manage(whole, bar) /\ held' = Manage(held, seen)
    BY <1>5, <1>12, <2>3, <2>4
  <2> HIDE DEF seen
  <2>6. Both(held', whole') /\ Mean(held', whole', carved)
    BY <1>1, <1>2, <1>6, <1>9, <2>2, <2>4, <2>5, SessionsAgree
  <2>7. held'.absent_run = 0
    BY <1>1, <1>2, <1>9, <2>5, ManageIsGood
  <2>8. held'.ca_view
    BY <2>6 DEF Both, Alike
  <2> QED BY <1>1, <1>2, <1>3, <1>7, <1>12, <2>1, <2>4, <2>6, <2>7, <2>8 DEF HeldIInv, Both
<1>13. CASE filed # "missing" /\ ~(filed = "cliff" /\ Demerged(sess + 1))
  <2>1. seen = bar
    BY <1>2, <1>8, <1>13
  <2>2. ~(filed = "cliff" /\ passed) /\ ~held.ca_view /\ held = whole /\ Divisible(held)
    BY <1>1, <1>2, <1>13
  <2>3. p = held
    <3>1. CASE ~Demerged(sess + 1) \/ passed
      BY <3>1 DEF IntoDemerger
    <3>2. CASE Demerged(sess + 1) /\ ~passed
      <4>1. ~(100 * bar.close <= 95 * bar.prev)
        BY <1>2, <3>2, SmoothBar
      <4> QED BY <2>1, <4>1 DEF IntoDemerger
    <3> QED BY <3>1, <3>2
  <2>4. w = whole /\ carved' = carved
    <3>1. w = whole
      BY <1>2, <2>2, <2>3 DEF Good, PositionRecord
    <3> QED BY <1>5, <2>2, <2>3, <3>1
  <2> HIDE DEF p, w, seen
  <2>5. held' = Manage(held, bar) /\ whole' = Manage(held, bar)
    BY <1>5, <1>13, <2>1, <2>2, <2>3, <2>4
  <2>6. /\ Good(held') /\ Levelled(held, held') /\ held'.absent_run = 0
        /\ held'.pk \in {held.pk, bar.high} /\ held'.pk_wh \in {held.pk_wh, bar.week}
        /\ held'.last_mark = bar.close
    BY <1>1, <1>2, <1>6, <2>5, ManageIsGood
  <2>7. Divisible(held')
    BY <1>2, <2>2, <2>6, StillDivisible
  <2>8. ~held'.ca_view /\ held'.ca_scale = 1 /\ held'.stop = Stop
    BY <1>2, <2>2, <2>6 DEF Levelled
  <2>9. held' = whole' /\ ~(filed' = "cliff" /\ passed')
    BY <1>1, <1>13, <2>5
  <2> QED BY <1>1, <1>2, <1>3, <1>7, <1>13, <2>4, <2>6, <2>7, <2>8, <2>9 DEF HeldIInv
<1> QED BY <1>2, <1>10, <1>11, <1>12, <1>13

LEMMA HeldNoBar == HeldIInv /\ NoBar => HeldIInv'
<1> SUFFICES ASSUME HeldIInv, NoBar PROVE HeldIInv'
  OBVIOUS
<1>1. /\ sess \in 0..LastBar /\ sess < LastBar /\ LastBar \in Nat
      /\ ex \in 0..LastBar /\ filed \in {"cliff", "smooth", "missing"} /\ passed \in BOOLEAN
      /\ last \in Levels /\ high \in Levels \cup {0} /\ carved \in Int /\ Good(held) /\ Good(whole)
      /\ StillOpen(held) /\ held.absent_run < StaleAfter /\ (held.ca_view <=> (filed = "cliff" /\ passed))
      /\ (passed => ex # 0 /\ sess >= ex)
      /\ (held.ca_view => Alike(held, whole) /\ Mean(held, whole, carved))
      /\ (~held.ca_view => held.ca_scale = 1 /\ held.stop = Stop)
      /\ (~held.ca_view /\ filed # "missing" => held = whole /\ Divisible(held))
      /\ (filed = "missing" /\ ex # 0 => held.sold < ex \/ held.stale)
      /\ (filed = "missing" /\ passed => held.ca_hold)
  BY HeldNumbers DEF HeldIInv, NoBar
<1>2. /\ held' = Wait(held) /\ whole' = (IF filed = "missing" THEN whole ELSE Wait(whole)) /\ sess' = sess + 1
      /\ ex' = ex /\ filed' = filed /\ passed' = passed /\ last' = last /\ high' = high /\ carved' = carved
  BY DEF NoBar
<1>3. sess \in Nat /\ sess' \in 0..LastBar /\ (passed' => ex' # 0 /\ sess' >= ex')
  BY <1>1, <1>2
<1>4. /\ Good(held') /\ Levelled(held, held') /\ held'.pk = held.pk /\ held'.pk_wh = held.pk_wh
      /\ held'.last_mark = held.last_mark /\ held'.ca_hold = held.ca_hold
      /\ \/ StillOpen(held') /\ held'.absent_run < StaleAfter /\ held'.sold = held.sold /\ held'.stale = held.stale
         \/ ~StillOpen(held') /\ held'.stale
  BY <1>1, <1>2, <1>3, WaitIsGood
<1>5. CASE held.ca_view
  <2>1. Both(held', whole') /\ Mean(held', whole', carved)
    BY <1>1, <1>2, <1>3, <1>5, WaitsAgree DEF Both
  <2>2. held'.ca_view
    BY <2>1 DEF Both, Alike
  <2> QED BY <1>1, <1>2, <1>3, <1>4, <1>5, <2>1, <2>2 DEF HeldIInv, Both, StillOpen
<1>6. CASE ~held.ca_view
  <2>1. ~held'.ca_view /\ held'.ca_scale = 1 /\ held'.stop = Stop
    BY <1>1, <1>4, <1>6 DEF Levelled
  <2>2. filed # "missing" => held' = whole' /\ Divisible(held')
    BY <1>1, <1>2, <1>4, <1>6 DEF Divisible
  <2>3. Good(whole')
    BY <1>1, <1>2, <1>4, <2>2
  <2>4. StillOpen(held)' <=> StillOpen(held')
    BY DEF StillOpen
  <2> QED BY <1>1, <1>2, <1>3, <1>4, <1>6, <2>1, <2>2, <2>3, <2>4 DEF HeldIInv
<1> QED BY <1>5, <1>6

\* Every state of every replay satisfies the inductive invariant.
THEOREM HeldInvariant == HeldSpec => []HeldIInv
<1>1. HeldIInv /\ [HeldNext]_heldVars => HeldIInv'
  <2>1. HeldIInv /\ UNCHANGED heldVars => HeldIInv'
    BY DEF heldVars, HeldIInv, StillOpen
  <2> QED BY <2>1, HeldBar, HeldNoBar DEF HeldNext
<1> QED BY <1>1, HeldInitInv, PTL DEF HeldSpec

\* The books of a position balance whatever its bars, its demerger and its
\* register do: its recorded R is its money, a carve-out included, and its
\* card's stage names the tranches whose shares have left.
THEOREM PositionBooksBalance == HeldSpec => []HeldInv
<1>1. HeldIInv => HeldInv
  <2> SUFFICES ASSUME HeldIInv PROVE HeldInv
    OBVIOUS
  <2>1. /\ held \in PositionRecord /\ whole \in PositionRecord /\ Money(held) /\ Staged(held)
    BY DEF HeldIInv, Good
  <2>2. HeldTypeOK
    <3>1. \A x \in {held, whole} :
             /\ x.sh \in 0..Whole /\ x.frac_left \in 0..Whole /\ x.proceeds \in Nat /\ x.realized_r \in Int
             /\ x.pending \in {"none", "part", "full"} /\ x.absent_run \in 0..StaleAfter
      BY <2>1 DEF PositionRecord
    <3> QED BY <3>1 DEF HeldTypeOK, HeldIInv
  <2>3. RIsMoney
    BY <2>1 DEF RIsMoney, Money
  <2>4. StageAgrees
    <3> SUFFICES ASSUME StillOpen(held)
                 PROVE  /\ Stage(held).target = held.t1_done
                        /\ Stage(held).pattern = (held.pt_done /\ Stage(held).queued # "part")
      BY DEF StageAgrees
    <3>1. held.sh = Whole - Gone(held)
      BY <2>1 DEF Staged, StillOpen
    <3>2. held.t1_done \in BOOLEAN /\ held.pt_done \in BOOLEAN /\ held.sh \in Nat
      BY <2>1, HeldNumbers DEF PositionRecord
    <3>3. Whole \in Int /\ Tranche \in Nat \ {0}
      BY HeldNumbers
    <3>4. SharesSold(held) = Gone(held)
      BY <2>1, <3>1, <3>2, <3>3 DEF SharesSold, Money, Gone
    <3>5. Gone(held) >= Tranche <=> held.t1_done
      BY <2>1, <3>2, <3>3 DEF Gone, Staged
    <3>6. Gone(held) >= 2 * Tranche <=> held.pt_done /\ held.pending # "part"
      BY <2>1, <3>2, <3>3 DEF Gone, Staged
    <3> QED BY <3>2, <3>4, <3>5, <3>6 DEF Stage
  <2> QED BY <2>2, <2>3, <2>4 DEF HeldInv
<1> QED BY <1>1, HeldInvariant, PTL

\* A registered demerger leaves a position that exits when the undivided one
\* would and whose R is the mean of that one's and the carve-out's; a missing
\* one sells nothing at the re-based price.
THEOREM DemergerIsExact == HeldSpec => []DemergerInv
<1>1. HeldIInv => DemergerInv
  <2> SUFFICES ASSUME HeldIInv PROVE DemergerInv
    OBVIOUS
  <2>1. NoPhantomLoss
    BY DEF HeldIInv, NoPhantomLoss
  <2>2. CarveOutIsExact
    <3> SUFFICES ASSUME filed # "missing" PROVE CarveOutIsExact
      BY DEF CarveOutIsExact
    <3>1. held.ca_view => Alike(held, whole) /\ Mean(held, whole, carved)
      BY DEF HeldIInv
    <3>2. ~held.ca_view => held = whole
      BY DEF HeldIInv
    <3>3. /\ held.sh = whole.sh /\ held.t1_done = whole.t1_done /\ held.pt_done = whole.pt_done
          /\ held.pending = whole.pending /\ held.ca_hold = whole.ca_hold /\ held.sold = whole.sold
      BY <3>1, <3>2 DEF Alike
    <3>4. \A k \in {"sh", "t1_done", "pt_done", "pending", "ca_hold", "sold"} : held[k] = whole[k]
      BY <3>3
    <3> QED BY <3>1, <3>2, <3>4 DEF CarveOutIsExact, Mean
  <2> QED BY <2>1, <2>2 DEF DemergerInv
<1> QED BY <1>1, HeldInvariant, PTL

-----------------------------------------------------------------------------
(***************************************************************************)
(* The paper book (PaperBook), for every finite set of names, any slots,   *)
(* ages and spacing of the runs. A book after session c holds positions as *)
(* old as their entry says, no more of them and of its orders than slots   *)
(* (BookAt). What the cron's one fold over the waiting sessions gives is   *)
(* what stepping them one at a time gives (FoldIsSteps), so it suffices    *)
(* that a session does the same to two books that match: the sessions that *)
(* wait make of the saved book the backtest (Replays).                     *)
(***************************************************************************)

-----------------------------------------------------------------------------
(* Types. *)

PaperPosition == [entry : Nat, days : Nat, absent : Nat, mark : Nat, atFill : BOOLEAN]
Whys == {"stale", "stop", "target", "time", "trailing"}
Deals == [name : Names, entry : Nat, exit : Nat, why : Whys, price : Nat, atFill : BOOLEAN]
HeldBy == UNION {[D -> PaperPosition] : D \in SUBSET Names}
Books == [held : HeldBy, pending : Seq(Names), trades : SUBSET Deals]
Sessions == [date : Nat, bars : [Names -> Rules \union {Absent}], eligible : SUBSET Names]

LEMMA HeldIs ==
  ASSUME NEW h
  PROVE  h \in HeldBy <=> /\ DOMAIN h \subseteq Names /\ h = [n \in DOMAIN h |-> h[n]]
                         /\ \A n \in DOMAIN h : h[n] \in PaperPosition
<1>1. ASSUME h \in HeldBy
      PROVE  /\ DOMAIN h \subseteq Names /\ h = [n \in DOMAIN h |-> h[n]]
             /\ \A n \in DOMAIN h : h[n] \in PaperPosition
  <2>1. PICK D \in SUBSET Names : h \in [D -> PaperPosition]
    BY <1>1 DEF HeldBy
  <2> QED BY <2>1
<1>2. ASSUME DOMAIN h \subseteq Names, h = [n \in DOMAIN h |-> h[n]],
             \A n \in DOMAIN h : h[n] \in PaperPosition
      PROVE  h \in HeldBy
  <2>1. h \in [DOMAIN h -> PaperPosition]
    BY <1>2
  <2> QED BY <1>2, <2>1 DEF HeldBy
<1> QED BY <1>1, <1>2

LEMMA BookIs ==
  ASSUME NEW b \in Books
  PROVE  /\ b.held \in HeldBy /\ b.pending \in Seq(Names) /\ b.trades \subseteq Deals
         /\ b = [held |-> b.held, pending |-> b.pending, trades |-> b.trades]
         /\ IsFiniteSet(DOMAIN b.held) /\ Cardinality(DOMAIN b.held) \in Nat
<1>1. b.held \in HeldBy /\ b.pending \in Seq(Names) /\ b.trades \subseteq Deals
  BY DEF Books
<1>2. b = [held |-> b.held, pending |-> b.pending, trades |-> b.trades]
  BY DEF Books
<1>3. IsFiniteSet(DOMAIN b.held)
  <2>1. DOMAIN b.held \subseteq Names
    BY <1>1, HeldIs
  <2> QED BY <2>1, PaperAssumption, FS_Subset
<1>4. Cardinality(DOMAIN b.held) \in Nat
  BY <1>3, FS_CardinalityType
<1> QED BY <1>1, <1>2, <1>3, <1>4

LEMMA EnteredType == \A d \in Nat : Entered(d) \in PaperPosition
BY DEF Entered, PaperPosition

LEMMA FilledFacts ==
  ASSUME NEW h \in HeldBy, NEW n \in Names, NEW day \in Sessions
  PROVE  /\ Filled(h, n, day) \in HeldBy
         /\ DOMAIN Filled(h, n, day) \subseteq DOMAIN h \union {n}
         /\ \A m \in DOMAIN h : m \in DOMAIN Filled(h, n, day) /\ Filled(h, n, day)[m] = h[m]
         /\ \A m \in DOMAIN Filled(h, n, day) \ DOMAIN h :
              Filled(h, n, day)[m] = Entered(day.date) /\ m \in Quoted(day)
         /\ Cardinality(DOMAIN h) <= MaxPos => Cardinality(DOMAIN Filled(h, n, day)) <= MaxPos
<1>h. DOMAIN h \subseteq Names /\ h = [m \in DOMAIN h |-> h[m]] /\ \A m \in DOMAIN h : h[m] \in PaperPosition
  BY HeldIs
<1>f. IsFiniteSet(DOMAIN h) /\ Cardinality(DOMAIN h) \in Nat
  <2>1. IsFiniteSet(DOMAIN h)
    BY <1>h, PaperAssumption, FS_Subset
  <2> QED BY <2>1, FS_CardinalityType
<1>1. CASE n \in DOMAIN h \/ n \notin Quoted(day) \/ Cardinality(DOMAIN h) >= MaxPos
  <2>1. Filled(h, n, day) = h
    BY <1>1 DEF Filled
  <2> QED BY <2>1
<1>2. CASE ~(n \in DOMAIN h \/ n \notin Quoted(day) \/ Cardinality(DOMAIN h) >= MaxPos)
  <2> DEFINE e == Entered(day.date)
             g == [m \in DOMAIN h \union {n} |-> IF m = n THEN e ELSE h[m]]
  <2>1. Filled(h, n, day) = g
    BY <1>2 DEF Filled
  <2>2. e \in PaperPosition
    <3>1. day.date \in Nat
      BY DEF Sessions
    <3> QED BY <3>1, EnteredType
  <2> HIDE DEF e
  <2>3. DOMAIN g = DOMAIN h \union {n} /\ g[n] = e /\ \A m \in DOMAIN h : g[m] = h[m]
    BY <1>2
  <2>4. g \in HeldBy
    <3>1. DOMAIN g \subseteq Names /\ g = [m \in DOMAIN g |-> g[m]] /\ \A m \in DOMAIN g : g[m] \in PaperPosition
      BY <1>h, <2>2, <2>3
    <3> HIDE DEF g
    <3> QED BY <3>1, HeldIs
  <2>5. Cardinality(DOMAIN h \union {n}) <= MaxPos
    <3>1. Cardinality(DOMAIN h \union {n}) = Cardinality(DOMAIN h) + 1
      BY <1>2, <1>f, FS_AddElement
    <3> QED BY <1>2, <1>f, <3>1, PaperAssumption
  <2> HIDE DEF g
  <2>6. \A m \in DOMAIN g \ DOMAIN h : g[m] = e /\ m \in Quoted(day)
    BY <1>2, <2>3
  <2> QED BY <2>1, <2>3, <2>4, <2>5, <2>6 DEF e
<1> QED BY <1>1, <1>2

\* So do the orders at the open.
LEMMA FillsChain ==
  ASSUME NEW book \in Books, NEW day \in Sessions
  PROVE  \E f \in [0..Len(book.pending) -> HeldBy] :
           /\ f[0] = book.held /\ f[Len(book.pending)] = Fill(book, day).held
           /\ \A k \in 1..Len(book.pending) : f[k] = Filled(f[k - 1], book.pending[k], day)
<1>0. PICK start \in HeldBy, orders \in Seq(Names) :
        /\ start = book.held /\ orders = book.pending
        /\ "held" \in DOMAIN book /\ "pending" \in DOMAIN book
  BY BookIs
<1>t. \A h \in HeldBy, d \in Names : Filled(h, d, day) \in HeldBy
  BY FilledFacts
<1> DEFINE V == HeldBy
           D == Names
<1> DEFINE F(g) == [s \in SUBSET DOMAIN orders |-> IF s = {} THEN start ELSE Filled(g[s \ {Max(s)}], orders[Max(s)], day)]
           n == Len(orders)
           step == [p \in (1..n) \X V |-> Filled(p[2], orders[p[1]], day)]
<1>1. n \in Nat /\ DOMAIN orders = 1..n /\ \A i \in 1..n : orders[i] \in D
  OBVIOUS
<1>2. step \in [(1..n) \X V -> V]
  BY <1>1, <1>t
<1>3. PICK h \in [SUBSET (1..n) -> V] : Chains(n, start, step, h)
  <2> HIDE DEF step, n
  <2> QED BY <1>1, <1>2, ChainExists
<1>4. h = F(h)
  <2> DEFINE G(s) == IF s = {} THEN start ELSE step[<<Max(s), h[s \ {Max(s)}]>>]
             H(s) == IF s = {} THEN start ELSE Filled(h[s \ {Max(s)}], orders[Max(s)], day)
  <2>1. ASSUME NEW s \in SUBSET (1..n) PROVE G(s) = H(s)
    <3>1. s # {} => Max(s) \in 1..n
      BY <1>1, MaxOfSome
    <3>2. s # {} => h[s \ {Max(s)}] \in V
      OBVIOUS
    <3> QED BY <3>1, <3>2
  <2>2. h = [s \in SUBSET (1..n) |-> G(s)]
    BY <1>3 DEF Chains
  <2>3. h = [s \in SUBSET (1..n) |-> H(s)]
    <3> HIDE DEF G, H
    <3> QED BY <2>1, <2>2
  <2> QED BY <1>1, <2>3
<1>5. \E g : g = F(g)
  <2> HIDE DEF F
  <2> QED BY <1>4
<1>6. PICK g : g = F(g) /\ Fill(book, day).held = g[DOMAIN orders]
  <2> DEFINE L(g) == [s \in SUBSET DOMAIN book.pending |-> IF s = {} THEN book.held
                        ELSE Filled(g[s \ {Max(s)}], book.pending[Max(s)], day)]
  <2>1. Fill(book, day).held = FoldLeft(LAMBDA x, y : Filled(x, y, day), book.held, book.pending)
    BY <1>0 DEF Fill
  <2>2. \E g : g = L(g)
    BY <1>0, <1>5
  <2>3. \E g : g = L(g) /\ FoldLeft(LAMBDA x, y : Filled(x, y, day), book.held, book.pending) = g[DOMAIN book.pending]
    BY <2>2 DEF FoldLeft, MapThenFoldSet
  <2> QED BY <1>0, <2>1, <2>3
<1>7. \A s \in SUBSET (1..n) : g[s] = IF s = {} THEN start ELSE Filled(g[s \ {Max(s)}], orders[Max(s)], day)
  <2> DEFINE H(s) == IF s = {} THEN start ELSE Filled(g[s \ {Max(s)}], orders[Max(s)], day)
  <2>1. g = [s \in SUBSET (1..n) |-> H(s)]
    BY <1>1, <1>6
  <2> HIDE DEF H
  <2>2. \A s \in SUBSET (1..n) : g[s] = H(s)
    BY <2>1
  <2> QED BY <2>2 DEF H
<1> DEFINE f == [k \in 0..n |-> g[1..k]]
<1>8. f[0] = start /\ f[n] = Fill(book, day).held
  BY <1>1, <1>6, <1>7
<1>9. ASSUME NEW k \in 1..n PROVE f[k] = Filled(f[k - 1], orders[k], day)
  <2>1. 1..k \in SUBSET (1..n) /\ 1..k # {} /\ k \in Nat /\ k > 0 /\ k \in 0..n /\ k - 1 \in 0..n
    <3>1. k \in Nat /\ k > 0 /\ k <= n
      BY <1>1
    <3> HIDE DEF n
    <3>2. k \in 1..k /\ k \in 0..n /\ k - 1 \in 0..n
      BY <1>1, <3>1
    <3>3. \A i \in 1..k : i \in 1..n
      BY <1>1, <3>1
    <3> QED BY <3>1, <3>2, <3>3
  <2>2. Max(1..k) = k /\ (1..k) \ {k} = 1..(k - 1)
    BY <2>1, MaxOfPrefix
  <2>3. g[1..k] = Filled(g[1..(k - 1)], orders[k], day)
    BY <1>7, <2>1, <2>2
  <2> QED BY <1>0, <2>1, <2>3
<1>10. \A k \in 0..n : f[k] \in V
  <2> DEFINE G == [k \in 0..n |-> V]
  <2> HIDE DEF f
  <2>1. f[0] \in G[0] /\ \A k \in 1..n : f[k - 1] \in G[k - 1] => f[k] \in G[k]
    BY <1>1, <1>8, <1>9, <1>t
  <2>2. \A k \in 0..n : f[k] \in G[k]
    <3> HIDE DEF G, n
    <3> QED BY <1>1, <2>1, ChainStays
  <2> QED BY <2>2
<1>11. f \in [0..n -> V]
  BY <1>10
<1> HIDE DEF f
<1> QED BY <1>0, <1>8, <1>9, <1>11

\* What the open does to a book: some of its orders are positions of today.
LEMMA FillFacts ==
  ASSUME NEW b \in Books, NEW day \in Sessions, NEW h, h = Fill(b, day).held
  PROVE  /\ h \in HeldBy
         /\ Fill(b, day) = [held |-> h, pending |-> <<>>, trades |-> b.trades]
         /\ DOMAIN h \subseteq DOMAIN b.held \union Range(b.pending)
         /\ \A n \in DOMAIN b.held : n \in DOMAIN h /\ h[n] = b.held[n]
         /\ \A n \in DOMAIN h \ DOMAIN b.held : h[n] = Entered(day.date) /\ n \in Quoted(day)
         /\ Cardinality(DOMAIN b.held) <= MaxPos => Cardinality(DOMAIN h) <= MaxPos
<1> DEFINE n == Len(b.pending)
           KeepsHeld(g) ==
             /\ DOMAIN g \subseteq DOMAIN b.held \union Range(b.pending)
             /\ \A m \in DOMAIN b.held : m \in DOMAIN g /\ g[m] = b.held[m]
             /\ \A m \in DOMAIN g \ DOMAIN b.held : g[m] = Entered(day.date) /\ m \in Quoted(day)
             /\ Cardinality(DOMAIN b.held) <= MaxPos => Cardinality(DOMAIN g) <= MaxPos
<1>1. /\ b.held \in HeldBy /\ b.pending \in Seq(Names)
      /\ b = [held |-> b.held, pending |-> b.pending, trades |-> b.trades]
  BY BookIs
<1>2. n \in Nat /\ \A k \in 1..n : b.pending[k] \in Names /\ b.pending[k] \in Range(b.pending)
  BY <1>1 DEF Range
<1>3. PICK f \in [0..n -> HeldBy] :
        /\ f[0] = b.held /\ f[n] = Fill(b, day).held
        /\ \A k \in 1..n : f[k] = Filled(f[k - 1], b.pending[k], day)
  BY FillsChain
<1>4. KeepsHeld(f[0])
  BY <1>3
<1>5. ASSUME NEW k \in 1..n, KeepsHeld(f[k - 1]) PROVE KeepsHeld(f[k])
  <2>1. k - 1 \in 0..n
    BY <1>2
  <2>2. f[k - 1] \in HeldBy
    BY <1>3, <2>1
  <2> DEFINE g == f[k - 1]
             r == f[k]
             o == b.pending[k]
  <2>3. r = Filled(g, o, day) /\ g \in HeldBy /\ KeepsHeld(g) /\ o \in Names /\ o \in Range(b.pending)
    BY <1>2, <1>3, <1>5, <2>2
  <2> HIDE DEF g, r, o
  <2>4. /\ DOMAIN r \subseteq DOMAIN g \union {o}
        /\ \A m \in DOMAIN g : m \in DOMAIN r /\ r[m] = g[m]
        /\ \A m \in DOMAIN r \ DOMAIN g : r[m] = Entered(day.date) /\ m \in Quoted(day)
        /\ Cardinality(DOMAIN g) <= MaxPos => Cardinality(DOMAIN r) <= MaxPos
    BY <2>3, FilledFacts
  <2>5. KeepsHeld(r)
    BY <2>3, <2>4
  <2> QED BY <2>5 DEF r
<1>6. KeepsHeld(f[n])
  <2> DEFINE G == [k \in 0..n |-> {g \in HeldBy : KeepsHeld(g)}]
  <2>1. \A k \in 0..n : f[k] \in G[k] <=> KeepsHeld(f[k])
    BY <1>3
  <2>2. 0 \in 0..n /\ n \in 0..n /\ \A k \in 1..n : k \in 0..n /\ k - 1 \in 0..n
    BY <1>2
  <2> HIDE DEF G, KeepsHeld
  <2>3. f[0] \in G[0] /\ \A k \in 1..n : f[k - 1] \in G[k - 1] => f[k] \in G[k]
    BY <1>4, <1>5, <2>1, <2>2
  <2>4. \A k \in 0..n : f[k] \in G[k]
    <3> HIDE DEF n
    <3> QED BY <1>2, <2>3, ChainStays
  <2> QED BY <2>1, <2>2, <2>4
<1>7. Fill(b, day) = [held |-> h, pending |-> <<>>, trades |-> b.trades]
  <2>1. PICK x : Fill(b, day) = [b EXCEPT !.held = x, !.pending = <<>>]
    BY DEF Fill
  <2>2. Fill(b, day) = [held |-> x, pending |-> <<>>, trades |-> b.trades]
    BY <1>1, <2>1
  <2> QED BY <2>2
<1>8. h \in HeldBy
  BY <1>2, <1>3
<1> QED BY <1>3, <1>6, <1>7, <1>8

\* What the close makes of a position: why it is closed, what it is closed
\* for, and what it is if it is kept.
Older(b, day, n) == Aged(b.held[n], n \in Quoted(day))
WhyOf(b, day, n) ==
  IF b.held[n].entry = day.date THEN "none" ELSE Reason(Older(b, day, n), day.bars[n])
KeptAs(b, day, n) ==
  IF b.held[n].entry = day.date THEN b.held[n]
  ELSE IF n \in Quoted(day) THEN [Older(b, day, n) EXCEPT !.mark = day.date, !.atFill = FALSE]
  ELSE Older(b, day, n)
SoldAs(b, day, n) ==
  [name |-> n, entry |-> b.held[n].entry, exit |-> day.date, why |-> WhyOf(b, day, n),
   price |-> IF WhyOf(b, day, n) = "stale" THEN b.held[n].mark ELSE day.date,
   atFill |-> WhyOf(b, day, n) = "stale" /\ b.held[n].atFill]
Stays(b, day) == {n \in Held(b) : WhyOf(b, day, n) = "none"}

LEMMA ExitIs ==
  ASSUME NEW b \in Books, NEW day
  PROVE  Exit(b, day) =
           [held |-> [n \in Stays(b, day) |-> KeptAs(b, day, n)],
            pending |-> b.pending,
            trades |-> b.trades \union {SoldAs(b, day, n) : n \in Held(b) \ Stays(b, day)}]
<1> DEFINE aged == [n \in Held(b) |-> Aged(b.held[n], n \in Quoted(day))]
           why == [n \in Held(b) |-> IF b.held[n].entry = day.date THEN "none" ELSE Reason(aged[n], day.bars[n])]
           gone == {n \in Held(b) : why[n] # "none"}
           keptNow == [n \in Held(b) \ gone |->
                      IF b.held[n].entry = day.date THEN b.held[n]
                        ELSE IF n \in Quoted(day) THEN [aged[n] EXCEPT !.mark = day.date, !.atFill = FALSE]
                        ELSE aged[n]]
           SoldNow(n) == [name |-> n, entry |-> b.held[n].entry, exit |-> day.date, why |-> why[n],
                       price |-> IF why[n] = "stale" THEN b.held[n].mark ELSE day.date,
                       atFill |-> why[n] = "stale" /\ b.held[n].atFill]
           sold == {SoldNow(n) : n \in gone}
<1>1. Exit(b, day) = [b EXCEPT !.held = keptNow, !.trades = @ \union sold]
  BY DEF Exit
<1>2. ASSUME NEW n \in Held(b) PROVE aged[n] = Older(b, day, n) /\ why[n] = WhyOf(b, day, n)
  BY <1>2 DEF Older, WhyOf
<1> HIDE DEF aged, why
<1>3. Held(b) \ gone = Stays(b, day) /\ gone = Held(b) \ Stays(b, day)
  BY <1>2 DEF Stays
<1>4. keptNow = [n \in Stays(b, day) |-> KeptAs(b, day, n)]
  <2> DEFINE K(n) == IF b.held[n].entry = day.date THEN b.held[n]
                       ELSE IF n \in Quoted(day) THEN [aged[n] EXCEPT !.mark = day.date, !.atFill = FALSE]
                       ELSE aged[n]
  <2>1. \A n \in Stays(b, day) : K(n) = KeptAs(b, day, n)
    BY <1>2 DEF KeptAs, Stays
  <2>2. keptNow = [n \in Stays(b, day) |-> K(n)]
    BY <1>3
  <2> HIDE DEF K, keptNow
  <2> QED BY <2>1, <2>2
<1>5. sold = {SoldAs(b, day, n) : n \in Held(b) \ Stays(b, day)}
  <2>1. \A n \in Held(b) : SoldNow(n) = SoldAs(b, day, n)
    BY <1>2 DEF SoldAs
  <2>2. gone \subseteq Held(b)
    OBVIOUS
  <2> HIDE DEF gone, SoldNow
  <2> QED BY <1>3, <2>1, <2>2
<1>6. b = [held |-> b.held, pending |-> b.pending, trades |-> b.trades]
  BY BookIs
<1> HIDE DEF keptNow, sold, gone
<1> QED BY <1>1, <1>4, <1>5, <1>6

\* What closes a position and what that leaves of the others.
LEMMA ReasonIs ==
  ASSUME NEW p \in PaperPosition, NEW day \in Sessions, NEW n \in Names,
         n \in Quoted(day) => p.absent = 0
  PROVE  /\ Reason(p, day.bars[n]) \in Whys \union {"none"}
         /\ Reason(p, day.bars[n]) = "none" => p.days < MaxHold /\ p.absent < StaleDays
<1>1. day.bars[n] \in Rules \union {Absent}
  BY DEF Sessions
<1>2. p.days \in Nat /\ p.absent \in Nat
  BY DEF PaperPosition
<1>3. CASE day.bars[n] = Absent
  <2>1. Reason(p, day.bars[n]) = IF p.days >= MaxHold \/ p.absent >= StaleDays THEN "stale" ELSE "none"
    BY <1>3 DEF Reason
  <2> QED BY <1>2, <2>1, PaperAssumption DEF Whys
<1>4. CASE day.bars[n] # Absent
  <2>1. p.absent < StaleDays
    <3>1. p.absent = 0
      BY <1>4 DEF Quoted
    <3> QED BY <3>1, PaperAssumption
  <2>2. /\ Reason(p, day.bars[n]) \in Whys \union {"none"}
        /\ Reason(p, day.bars[n]) = "none" => p.days < MinHold \/ ~(p.days >= MaxHold)
    BY <1>4 DEF Reason, Whys
  <2> QED BY <1>2, <2>1, <2>2, PaperAssumption
<1> QED BY <1>3, <1>4

LEMMA OlderIs ==
  ASSUME NEW b \in Books, NEW day \in Sessions, NEW n \in Held(b)
  PROVE  LET p == b.held[n]  q == Older(b, day, n) IN
         /\ n \in Names /\ p \in PaperPosition /\ q \in PaperPosition
         /\ q.entry = p.entry /\ q.days = p.days + 1 /\ q.mark = p.mark /\ q.atFill = p.atFill
         /\ n \in Quoted(day) => q.absent = 0
<1>1. n \in Names /\ b.held[n] \in PaperPosition
  <2>1. b.held \in HeldBy
    BY BookIs
  <2> QED BY <2>1, HeldIs DEF Held
<1> DEFINE p == b.held[n]
           a == IF n \in Quoted(day) THEN 0 ELSE p.absent + 1
<1>2. /\ p = [entry |-> p.entry, days |-> p.days, absent |-> p.absent, mark |-> p.mark, atFill |-> p.atFill]
      /\ p.entry \in Nat /\ p.days \in Nat /\ p.absent \in Nat /\ p.mark \in Nat /\ p.atFill \in BOOLEAN
  BY <1>1 DEF PaperPosition
<1>3. Older(b, day, n) = [p EXCEPT !.days = p.days + 1, !.absent = a]
  BY DEF Older, Aged
<1> HIDE DEF p
<1>4. a \in Nat /\ (n \in Quoted(day) => a = 0)
  BY <1>2
<1> HIDE DEF a
<1>5. Older(b, day, n) = [entry |-> p.entry, days |-> p.days + 1, absent |-> a, mark |-> p.mark, atFill |-> p.atFill]
  BY <1>2, <1>3
<1>6. Older(b, day, n) \in PaperPosition
  BY <1>2, <1>4, <1>5 DEF PaperPosition
<1> QED BY <1>1, <1>4, <1>5, <1>6 DEF p

LEMMA ExitFacts ==
  ASSUME NEW b \in Books, NEW day \in Sessions, NEW e, e = Exit(b, day)
  PROVE  /\ e \in Books /\ e.pending = b.pending
         /\ Held(e) = Stays(b, day) /\ Held(e) \subseteq Held(b)
         /\ \A n \in Held(e) :
              /\ e.held[n] = KeptAs(b, day, n) /\ e.held[n].entry = b.held[n].entry
              /\ b.held[n].entry = day.date => e.held[n] = b.held[n]
              /\ b.held[n].entry # day.date => /\ e.held[n].days = b.held[n].days + 1
                                              /\ e.held[n].days < MaxHold /\ e.held[n].absent < StaleDays
                                              /\ e.held[n].mark \in {b.held[n].mark, day.date}
         /\ e.trades = b.trades \union {SoldAs(b, day, n) : n \in Held(b) \ Stays(b, day)}
         /\ \A n \in Held(b) \ Stays(b, day) : b.held[n].entry # day.date
<1>1. /\ e.held = [n \in Stays(b, day) |-> KeptAs(b, day, n)]
      /\ e.pending = b.pending
      /\ e.trades = b.trades \union {SoldAs(b, day, n) : n \in Held(b) \ Stays(b, day)}
      /\ e = [held |-> e.held, pending |-> e.pending, trades |-> e.trades]
  BY ExitIs
<1>2. Stays(b, day) \subseteq Held(b) /\ Held(b) \subseteq Names
  <2>1. b.held \in HeldBy
    BY BookIs
  <2> QED BY <2>1, HeldIs DEF Stays, Held
<1>3. Held(e) = Stays(b, day) /\ \A n \in Held(e) : e.held[n] = KeptAs(b, day, n)
  BY <1>1 DEF Held
<1>d. day.date \in Nat
  BY DEF Sessions
<1>4. ASSUME NEW n \in Stays(b, day)
      PROVE  LET q == KeptAs(b, day, n) IN
              /\ q \in PaperPosition /\ q.entry = b.held[n].entry
              /\ b.held[n].entry = day.date => q = b.held[n]
              /\ b.held[n].entry # day.date => /\ q.days = b.held[n].days + 1
                                              /\ q.days < MaxHold /\ q.absent < StaleDays
                                              /\ q.mark \in {b.held[n].mark, day.date}
  <2> DEFINE p == b.held[n]
             o == Older(b, day, n)
  <2>1. /\ n \in Names /\ p \in PaperPosition /\ o \in PaperPosition
        /\ o.entry = p.entry /\ o.days = p.days + 1 /\ o.mark = p.mark
        /\ n \in Quoted(day) => o.absent = 0
    BY <1>2, OlderIs
  <2>2. p.entry # day.date => Reason(o, day.bars[n]) = "none"
    BY DEF Stays, WhyOf
  <2> HIDE DEF o
  <2>3. p.entry # day.date => o.days < MaxHold /\ o.absent < StaleDays
    BY <2>1, <2>2, ReasonIs
  <2>4. CASE p.entry = day.date
    <3>1. KeptAs(b, day, n) = p
      BY <2>4 DEF KeptAs
    <3> QED BY <2>1, <2>4, <3>1
  <2>5. CASE p.entry # day.date /\ n \in Quoted(day)
    <3>1. KeptAs(b, day, n) = [o EXCEPT !.mark = day.date, !.atFill = FALSE]
      BY <2>5 DEF KeptAs, o
    <3> HIDE DEF p
    <3>2. /\ KeptAs(b, day, n) \in PaperPosition /\ KeptAs(b, day, n).entry = o.entry
          /\ KeptAs(b, day, n).days = o.days /\ KeptAs(b, day, n).absent = o.absent
          /\ KeptAs(b, day, n).mark = day.date
      BY <1>d, <2>1, <3>1 DEF PaperPosition
    <3> USE DEF p
    <3> QED BY <2>1, <2>3, <2>5, <3>2
  <2>6. CASE p.entry # day.date /\ n \notin Quoted(day)
    <3>1. KeptAs(b, day, n) = o
      BY <2>6 DEF KeptAs, o
    <3> QED BY <2>1, <2>3, <2>6, <3>1
  <2> QED BY <2>4, <2>5, <2>6
<1>5. e.held \in HeldBy
  <2>1. DOMAIN e.held \subseteq Names /\ e.held = [n \in DOMAIN e.held |-> e.held[n]]
    BY <1>1, <1>2
  <2>2. \A n \in DOMAIN e.held : e.held[n] \in PaperPosition
    BY <1>1, <1>4
  <2> QED BY <2>1, <2>2, HeldIs
<1>6. ASSUME NEW n \in Held(b) \ Stays(b, day)
      PROVE  SoldAs(b, day, n) \in Deals /\ b.held[n].entry # day.date
  <2> DEFINE p == b.held[n]
             o == Older(b, day, n)
  <2>1. /\ n \in Names /\ p \in PaperPosition /\ o \in PaperPosition
        /\ n \in Quoted(day) => o.absent = 0
    BY OlderIs
  <2>2. p.entry # day.date /\ WhyOf(b, day, n) = Reason(o, day.bars[n]) /\ WhyOf(b, day, n) # "none"
    BY DEF Stays, WhyOf
  <2> HIDE DEF o
  <2>3. WhyOf(b, day, n) \in Whys
    BY <2>1, <2>2, ReasonIs
  <2>4. p.entry \in Nat /\ p.mark \in Nat /\ p.atFill \in BOOLEAN
    BY <2>1 DEF PaperPosition
  <2>5. SoldAs(b, day, n) \in Deals
    <3> DEFINE price == IF WhyOf(b, day, n) = "stale" THEN p.mark ELSE day.date
               atFill == WhyOf(b, day, n) = "stale" /\ p.atFill
    <3>1. price \in Nat /\ atFill \in BOOLEAN
      BY <1>d, <2>4
    <3>2. SoldAs(b, day, n) = [name |-> n, entry |-> p.entry, exit |-> day.date, why |-> WhyOf(b, day, n),
                               price |-> price, atFill |-> atFill]
      BY DEF SoldAs
    <3> HIDE DEF price, atFill
    <3> QED BY <1>d, <2>1, <2>3, <2>4, <3>1, <3>2 DEF Deals
  <2> QED BY <2>2, <2>5
<1>7. e \in Books
  <2>1. e.trades \subseteq Deals
    BY <1>1, <1>6, BookIs
  <2>2. e.pending \in Seq(Names)
    BY <1>1, BookIs
  <2> QED BY <1>1, <1>5, <2>1, <2>2 DEF Books
<1> QED BY <1>1, <1>2, <1>3, <1>4, <1>6, <1>7

LEMMA SetToSeqIs ==
  ASSUME NEW S, IsFiniteSet(S)
  PROVE  /\ SetToSeq(S) \in Seq(S) /\ Len(SetToSeq(S)) = Cardinality(S)
         /\ Cardinality(S) \in Nat
<1>1. PICK n \in Nat : ExistsBijection(1..n, S)
  BY FS_NatBijection
<1>2. Cardinality(S) = n
  BY <1>1, FS_CountingElements
<1>3. PICK f \in Bijection(1..n, S) : TRUE
  BY <1>1 DEF ExistsBijection
<1>4. f \in [1..n -> S] /\ IsInjective(f)
  BY <1>3 DEF Bijection, Injection, Surjection, IsInjective
<1>5. SetToSeq(S) \in [1..n -> S]
  BY <1>2, <1>4 DEF SetToSeq
<1> QED BY <1>2, <1>5

LEMMA SelectFacts ==
  ASSUME NEW b \in Books, b.pending = <<>>, Cardinality(Held(b)) <= MaxPos,
         NEW day \in Sessions, NEW e, e = Select(b, day)
  PROVE  /\ e \in Books /\ e.held = b.held /\ e.trades = b.trades
         /\ Cardinality(Held(e)) + Len(e.pending) <= MaxPos
         /\ Held(e) \intersect Range(e.pending) = {}
<1>1. /\ b.held \in HeldBy /\ b.trades \subseteq Deals
      /\ b = [held |-> b.held, pending |-> b.pending, trades |-> b.trades]
      /\ Cardinality(Held(b)) \in Nat
  BY BookIs DEF Held
<1> DEFINE S == Buyable(b, day)
           free == FreeSlots(b)
           names == SetToSeq(S)
           orders == IF free > 0 THEN SubSeq(names, 1, IF Len(names) < free THEN Len(names) ELSE free) ELSE b.pending
<1>2. S \subseteq Names /\ S \intersect Held(b) = {} /\ IsFiniteSet(S)
  <2>1. S \subseteq Names /\ S \intersect Held(b) = {}
    BY DEF Buyable, Quoted
  <2> HIDE DEF S
  <2> QED BY <2>1, PaperAssumption, FS_Subset
<1>3. e = [b EXCEPT !.pending = orders]
  BY DEF Select
<1>4. free \in Nat /\ free = MaxPos - Cardinality(Held(b))
  BY <1>1, PaperAssumption DEF FreeSlots
<1> HIDE DEF S, free
<1>5. names \in Seq(S) /\ Len(names) \in Nat
  BY <1>2, SetToSeqIs
<1> HIDE DEF names
<1>6. orders \in Seq(S) /\ Len(orders) <= free /\ Len(orders) \in Nat
  <2>1. CASE free > 0
    <3> DEFINE k == IF Len(names) < free THEN Len(names) ELSE free
    <3>1. k \in 0..Len(names) /\ k <= free
      BY <1>4, <1>5
    <3>2. orders = SubSeq(names, 1, k)
      BY <2>1
    <3> HIDE DEF k, orders
    <3>3. SubSeq(names, 1, k) \in Seq(S) /\ Len(SubSeq(names, 1, k)) = k
      BY <1>5, <3>1
    <3> QED BY <3>1, <3>2, <3>3
  <2>2. CASE ~(free > 0)
    <3>1. orders = <<>>
      BY <2>2
    <3> QED BY <1>4, <3>1
  <2> QED BY <2>1, <2>2
<1> HIDE DEF orders
<1>7. Range(orders) \subseteq S
  BY <1>6 DEF Range
<1>8. orders \in Seq(Names)
  BY <1>2, <1>6
<1>9. e = [held |-> b.held, pending |-> orders, trades |-> b.trades]
  BY <1>1, <1>3
<1>10. e \in Books
  BY <1>1, <1>8, <1>9 DEF Books
<1>11. Held(e) = Held(b) /\ e.pending = orders
  BY <1>9 DEF Held
<1>12. Cardinality(Held(b)) + Len(orders) <= MaxPos
  BY <1>1, <1>4, <1>6, PaperAssumption
<1> QED BY <1>2, <1>7, <1>9, <1>10, <1>11, <1>12

-----------------------------------------------------------------------------
(* The books. *)

\* What a book is after session c.
BookAt(b, c) ==
  /\ b \in Books
  /\ \A n \in Held(b) : LET p == b.held[n] IN
       /\ p.entry \in 1..c /\ p.mark \in 1..c
       /\ p.days = c - p.entry /\ p.days < MaxHold /\ p.absent < StaleDays
  /\ Cardinality(Held(b)) + Len(b.pending) <= MaxPos
  /\ Held(b) \intersect Range(b.pending) = {}
  /\ \A t \in b.trades : t.entry < t.exit /\ t.exit <= c

LEMMA SessionAt ==
  ASSUME NEW c \in Nat, NEW b, BookAt(b, c), NEW day \in Sessions, day.date = c + 1
  PROVE  BookAt(Session(b, day), c + 1)
<1>b. b \in Books
  BY DEF BookAt
<1> DEFINE f == Fill(b, day)
           e == Exit(f, day)
           s == Select(e, day)
<1>0. Session(b, day) = s
  BY DEF Session
<1>1. PICK h : h = f.held
  OBVIOUS
<1>2. /\ h \in HeldBy
      /\ f = [held |-> h, pending |-> <<>>, trades |-> b.trades]
      /\ \A n \in Held(b) : n \in DOMAIN h /\ h[n] = b.held[n]
      /\ \A n \in DOMAIN h \ Held(b) : h[n] = Entered(day.date)
      /\ Cardinality(Held(b)) <= MaxPos => Cardinality(DOMAIN h) <= MaxPos
  BY <1>b, <1>1, FillFacts DEF Held
<1>3. f \in Books /\ Held(f) = DOMAIN h
  <2>1. b.trades \subseteq Deals
    BY <1>b, BookIs
  <2>2. <<>> \in Seq(Names)
    OBVIOUS
  <2> QED BY <1>2, <2>1, <2>2 DEF Books, Held
<1> HIDE DEF f
<1>4. Cardinality(Held(f)) <= MaxPos
  <2>1. Cardinality(Held(b)) \in Nat /\ Len(b.pending) \in Nat
    BY <1>b, BookIs DEF Held
  <2>2. Cardinality(Held(b)) <= MaxPos
    BY <2>1, PaperAssumption DEF BookAt
  <2> QED BY <1>2, <1>3, <2>2
<1>5. \A n \in Held(f) : LET p == f.held[n] IN
        \/ /\ p.entry \in 1..c /\ p.mark \in 1..c /\ p.days = c - p.entry
        \/ p.entry = c + 1 /\ p.mark = c + 1 /\ p.days = 0 /\ p.absent = 0
  BY <1>1, <1>2, <1>3 DEF BookAt, Entered
<1>6. /\ e \in Books /\ e.pending = f.pending
      /\ Held(e) \subseteq Held(f)
      /\ \A n \in Held(e) :
           /\ e.held[n].entry = f.held[n].entry
           /\ f.held[n].entry = day.date => e.held[n] = f.held[n]
           /\ f.held[n].entry # day.date => /\ e.held[n].days = f.held[n].days + 1
                                           /\ e.held[n].days < MaxHold /\ e.held[n].absent < StaleDays
                                           /\ e.held[n].mark \in {f.held[n].mark, day.date}
      /\ e.trades = f.trades \union {SoldAs(f, day, n) : n \in Held(f) \ Stays(f, day)}
      /\ \A n \in Held(f) \ Stays(f, day) : f.held[n].entry # day.date
  BY <1>3, ExitFacts
<1> HIDE DEF e
<1>7. \A n \in Held(e) : LET p == e.held[n] IN
        /\ p.entry \in 1..(c + 1) /\ p.mark \in 1..(c + 1)
        /\ p.days = (c + 1) - p.entry /\ p.days < MaxHold /\ p.absent < StaleDays
  <2> SUFFICES ASSUME NEW n \in Held(e)
               PROVE  LET p == e.held[n] IN
                      /\ p.entry \in 1..(c + 1) /\ p.mark \in 1..(c + 1)
                      /\ p.days = (c + 1) - p.entry /\ p.days < MaxHold /\ p.absent < StaleDays
    OBVIOUS
  <2>1. CASE f.held[n].entry = day.date
    <3>1. e.held[n] = f.held[n]
      BY <1>6, <2>1
    <3>2. /\ f.held[n].entry = c + 1 /\ f.held[n].mark = c + 1
          /\ f.held[n].days = 0 /\ f.held[n].absent = 0
      BY <1>5, <1>6, <2>1
    <3> QED BY <3>1, <3>2, PaperAssumption
  <2>2. CASE f.held[n].entry # day.date
    <3>1. f.held[n].entry \in 1..c /\ f.held[n].mark \in 1..c /\ f.held[n].days = c - f.held[n].entry
      BY <1>5, <1>6, <2>2
    <3>2. /\ e.held[n].entry = f.held[n].entry
          /\ e.held[n].days = f.held[n].days + 1
          /\ e.held[n].days < MaxHold /\ e.held[n].absent < StaleDays
          /\ e.held[n].mark \in {f.held[n].mark, c + 1}
      BY <1>6, <2>2
    <3> QED BY <3>1, <3>2
  <2> QED BY <2>1, <2>2
<1>8. Cardinality(Held(e)) <= MaxPos /\ e.pending = <<>>
  <2>1. IsFiniteSet(Held(f)) /\ Cardinality(Held(f)) \in Nat
    BY <1>3, BookIs DEF Held
  <2>2. Cardinality(Held(e)) <= Cardinality(Held(f))
    BY <1>6, <2>1, FS_Subset
  <2>3. Cardinality(Held(e)) \in Nat
    BY <1>6, BookIs DEF Held
  <2> QED BY <1>2, <1>4, <1>6, <2>1, <2>2, <2>3, PaperAssumption
<1>9. \A t \in e.trades : t.entry < t.exit /\ t.exit <= c + 1
  <2>1. \A t \in f.trades : t.entry < t.exit /\ t.exit <= c /\ t.exit \in Nat
    <3>1. f.trades = b.trades /\ b.trades \subseteq Deals
      BY <1>2, <1>b, BookIs
    <3> QED BY <3>1 DEF BookAt, Deals
  <2>2. ASSUME NEW n \in Held(f) \ Stays(f, day)
        PROVE  SoldAs(f, day, n).entry < SoldAs(f, day, n).exit /\ SoldAs(f, day, n).exit <= c + 1
    <3>1. f.held[n].entry # day.date
      BY <1>6
    <3>2. f.held[n].entry \in 1..c
      BY <1>5, <3>1
    <3> QED BY <3>2 DEF SoldAs
  <2> QED BY <1>6, <2>1, <2>2
<1>10. /\ s \in Books /\ s.held = e.held /\ s.trades = e.trades
       /\ Cardinality(Held(s)) + Len(s.pending) <= MaxPos
       /\ Held(s) \intersect Range(s.pending) = {}
  BY <1>6, <1>8, SelectFacts
<1> HIDE DEF s
<1>11. Held(s) = Held(e)
  BY <1>10 DEF Held
<1>12. BookAt(s, c + 1)
  BY <1>7, <1>9, <1>10, <1>11 DEF BookAt
<1> QED BY <1>0, <1>12

\* A session keeps a book with no more positions than slots one.
Roomy == {b \in Books : Cardinality(Held(b)) <= MaxPos}

LEMMA SessionType ==
  ASSUME NEW b \in Roomy, NEW day \in Sessions
  PROVE  Session(b, day) \in Roomy
<1> DEFINE f == Fill(b, day)
           e == Exit(f, day)
           s == Select(e, day)
<1>1. b \in Books /\ Cardinality(Held(b)) <= MaxPos
  BY DEF Roomy
<1>2. PICK h : h = f.held
  OBVIOUS
<1>3. /\ h \in HeldBy /\ f = [held |-> h, pending |-> <<>>, trades |-> b.trades]
      /\ Cardinality(DOMAIN h) <= MaxPos
  BY <1>1, <1>2, FillFacts DEF Held
<1>4. f \in Books /\ Held(f) = DOMAIN h /\ f.pending = <<>>
  <2>1. b.trades \subseteq Deals /\ <<>> \in Seq(Names)
    BY <1>1, BookIs
  <2> QED BY <1>3, <2>1 DEF Books, Held
<1> HIDE DEF f
<1>5. e \in Books /\ e.pending = <<>> /\ Held(e) \subseteq Held(f)
  BY <1>4, ExitFacts
<1> HIDE DEF e
<1>6. Cardinality(Held(e)) <= MaxPos
  <2>1. IsFiniteSet(Held(f)) /\ Cardinality(Held(f)) \in Nat
    BY <1>4, BookIs DEF Held
  <2>2. Cardinality(Held(e)) <= Cardinality(Held(f)) /\ Cardinality(Held(e)) \in Nat
    BY <1>5, <2>1, BookIs, FS_Subset DEF Held
  <2> QED BY <1>3, <1>4, <2>1, <2>2, PaperAssumption
<1>7. s \in Books /\ s.held = e.held
  BY <1>5, <1>6, SelectFacts
<1> QED BY <1>6, <1>7 DEF Session, Roomy, Held, e, f

LEMMA AtIsRoomy ==
  ASSUME NEW c, NEW b, BookAt(b, c)
  PROVE  b \in Roomy
<1>1. Cardinality(Held(b)) \in Nat /\ Len(b.pending) \in Nat
  BY BookIs DEF Held, BookAt
<1> QED BY <1>1, PaperAssumption DEF BookAt, Roomy

-----------------------------------------------------------------------------
(* Stepping the sessions one at a time, or several in a run. *)

\* days are the sessions after c.
Follow(days, c) == days \in Seq(Sessions) /\ \A i \in 1..Len(days) : days[i].date = c + i

\* f is what the sessions make of a book, one after the other.
Steps(f, b, days) ==
  /\ f \in [0..Len(days) -> Roomy] /\ f[0] = b
  /\ \A k \in 1..Len(days) : f[k] = Session(f[k - 1], days[k])

LEMMA StepsAt ==
  ASSUME NEW c \in Nat, NEW b, BookAt(b, c), NEW days, Follow(days, c), NEW f, Steps(f, b, days)
  PROVE  \A k \in 0..Len(days) : BookAt(f[k], c + k)
<1> DEFINE n == Len(days)
           G == [k \in 0..n |-> {x \in Roomy : BookAt(x, c + k)}]
<1>1. n \in Nat
  BY DEF Follow
<1>2. \A k \in 0..n : f[k] \in G[k] <=> BookAt(f[k], c + k)
  BY DEF Steps
<1>3. f[0] \in G[0]
  <2>1. f[0] = b /\ c + 0 = c /\ 0 \in 0..n
    BY <1>1 DEF Steps
  <2> QED BY <1>2, <2>1
<1>4. ASSUME NEW k \in 1..n, f[k - 1] \in G[k - 1] PROVE f[k] \in G[k]
  <2>1. k - 1 \in 0..n /\ k \in 0..n /\ c + (k - 1) \in Nat /\ (c + (k - 1)) + 1 = c + k
    BY <1>1
  <2>2. BookAt(f[k - 1], c + (k - 1))
    BY <1>2, <1>4, <2>1
  <2>3. days[k] \in Sessions /\ days[k].date = (c + (k - 1)) + 1
    BY <2>1 DEF Follow
  <2>4. f[k] = Session(f[k - 1], days[k])
    BY DEF Steps
  <2>5. BookAt(f[k], c + k)
    BY <2>1, <2>2, <2>3, <2>4, SessionAt
  <2> QED BY <1>2, <2>1, <2>5
<1> HIDE DEF n, G
<1>5. \A k \in 0..n : f[k] \in G[k]
  BY <1>1, <1>3, <1>4, ChainStays
<1> QED BY <1>2, <1>5 DEF n

\* The fold of the cron is the last of those steps.
LEMMA FoldIsSteps ==
  ASSUME NEW book \in Roomy, NEW days \in Seq(Sessions)
  PROVE  \E f : Steps(f, book, days) /\ f[Len(days)] = FoldLeft(Session, book, days)
<1> DEFINE V == Roomy
           D == Sessions
<1>t. days \in Seq(D) /\ book \in V /\ \A b \in V, d \in D : Session(b, d) \in V
  BY SessionType
<1> HIDE DEF V, D
<1> DEFINE F(g) == [s \in SUBSET DOMAIN days |-> IF s = {} THEN book ELSE Session(g[s \ {Max(s)}], days[Max(s)])]
           n == Len(days)
           step == [p \in (1..n) \X V |-> Session(p[2], days[p[1]])]
<1>1. n \in Nat /\ DOMAIN days = 1..n /\ \A i \in 1..n : days[i] \in D
  BY <1>t
<1>2. step \in [(1..n) \X V -> V]
  BY <1>1, <1>t
<1>3. PICK h \in [SUBSET (1..n) -> V] : Chains(n, book, step, h)
  <2> HIDE DEF step, n
  <2> QED BY <1>1, <1>2, <1>t, ChainExists
<1>4. h = F(h)
  <2> DEFINE G(s) == IF s = {} THEN book ELSE step[<<Max(s), h[s \ {Max(s)}]>>]
             H(s) == IF s = {} THEN book ELSE Session(h[s \ {Max(s)}], days[Max(s)])
  <2>1. ASSUME NEW s \in SUBSET (1..n) PROVE G(s) = H(s)
    <3>1. s # {} => Max(s) \in 1..n
      BY <1>1, MaxOfSome
    <3>2. s # {} => h[s \ {Max(s)}] \in V
      OBVIOUS
    <3> QED BY <3>1, <3>2
  <2>2. h = [s \in SUBSET (1..n) |-> G(s)]
    BY <1>3 DEF Chains
  <2>3. h = [s \in SUBSET (1..n) |-> H(s)]
    <3> HIDE DEF G, H
    <3> QED BY <2>1, <2>2
  <2> QED BY <1>1, <2>3
<1>5. \E g : g = F(g)
  <2> HIDE DEF F
  <2> QED BY <1>4
<1>6. PICK g : g = F(g) /\ FoldLeft(Session, book, days) = g[DOMAIN days]
  BY <1>5 DEF FoldLeft, MapThenFoldSet
<1>7. \A s \in SUBSET (1..n) : g[s] = IF s = {} THEN book ELSE Session(g[s \ {Max(s)}], days[Max(s)])
  <2> DEFINE H(s) == IF s = {} THEN book ELSE Session(g[s \ {Max(s)}], days[Max(s)])
  <2>1. g = [s \in SUBSET (1..n) |-> H(s)]
    BY <1>1, <1>6
  <2> HIDE DEF H
  <2>2. \A s \in SUBSET (1..n) : g[s] = H(s)
    BY <2>1
  <2> QED BY <2>2 DEF H
<1> DEFINE f == [k \in 0..n |-> g[1..k]]
<1>8. f[0] = book /\ f[n] = FoldLeft(Session, book, days)
  BY <1>1, <1>6, <1>7
<1>9. ASSUME NEW k \in 1..n PROVE f[k] = Session(f[k - 1], days[k])
  <2>1. 1..k \in SUBSET (1..n) /\ 1..k # {} /\ k \in Nat /\ k > 0 /\ k \in 0..n /\ k - 1 \in 0..n
    <3>1. k \in Nat /\ k > 0 /\ k <= n
      BY <1>1
    <3> HIDE DEF n
    <3>2. k \in 1..k /\ k \in 0..n /\ k - 1 \in 0..n
      BY <1>1, <3>1
    <3>3. \A i \in 1..k : i \in 1..n
      BY <1>1, <3>1
    <3> QED BY <3>1, <3>2, <3>3
  <2>2. Max(1..k) = k /\ (1..k) \ {k} = 1..(k - 1)
    BY <2>1, MaxOfPrefix
  <2>3. g[1..k] = Session(g[1..(k - 1)], days[k])
    BY <1>7, <2>1, <2>2
  <2> QED BY <2>1, <2>3
<1>10. \A k \in 0..n : f[k] \in V
  <2> DEFINE G == [k \in 0..n |-> V]
  <2> HIDE DEF f
  <2>1. f[0] \in G[0] /\ \A k \in 1..n : f[k - 1] \in G[k - 1] => f[k] \in G[k]
    BY <1>1, <1>8, <1>9, <1>t
  <2>2. \A k \in 0..n : f[k] \in G[k]
    <3> HIDE DEF G, n
    <3> QED BY <1>1, <2>1, ChainStays
  <2> QED BY <2>2
<1>11. f \in [0..n -> V]
  BY <1>10
<1> HIDE DEF f
<1> QED BY <1>8, <1>9, <1>11 DEF Steps, V

LEMMA StepsAreOne ==
  ASSUME NEW b, NEW days \in Seq(Sessions), NEW f, NEW g, Steps(f, b, days), Steps(g, b, days)
  PROVE  f[Len(days)] = g[Len(days)]
<1> DEFINE n == Len(days)
           G == [k \in 0..n |-> {f[k]}]
<1>1. n \in Nat
  OBVIOUS
<1>2. \A k \in 0..n : g[k] \in G[k] <=> g[k] = f[k]
  OBVIOUS
<1>3. g[0] \in G[0]
  BY <1>1, <1>2 DEF Steps
<1>4. ASSUME NEW k \in 1..n, g[k - 1] \in G[k - 1] PROVE g[k] \in G[k]
  <2>1. k - 1 \in 0..n /\ k \in 0..n
    BY <1>1
  <2> QED BY <1>2, <1>4, <2>1 DEF Steps
<1> HIDE DEF n, G
<1>5. \A k \in 0..n : g[k] \in G[k]
  BY <1>1, <1>3, <1>4, ChainStays
<1>6. n \in 0..n
  BY <1>1
<1> QED BY <1>2, <1>5, <1>6 DEF n

LEMMA AsSeenFollow ==
  ASSUME NEW c \in Nat, NEW days, Follow(days, c), Len(days) > 0, NEW missing \in SUBSET Names
  PROVE  /\ Follow(AsSeen(days, missing), c) /\ Len(AsSeen(days, missing)) = Len(days)
         /\ missing = {} => AsSeen(days, missing) = days
<1> DEFINE n == Len(days)
           seen == AsSeen(days, missing)
           lastSeen == [days[n] EXCEPT !.bars = [m \in Names |-> IF m \in missing THEN Absent ELSE @[m]]]
<1>1. n \in Nat /\ n \in 1..n /\ DOMAIN days = 1..n /\ days = [i \in 1..n |-> days[i]]
      /\ \A i \in 1..n : days[i] \in Sessions /\ days[i].date = c + i
  BY DEF Follow
<1>2. seen = [i \in 1..n |-> IF i < n THEN days[i] ELSE lastSeen]
  <2>1. \A i \in 1..n : ~(i < n) => i = n
    BY <1>1
  <2> DEFINE A(i) == IF i < n THEN days[i]
                     ELSE [days[i] EXCEPT !.bars = [m \in Names |-> IF m \in missing THEN Absent ELSE @[m]]]
             B(i) == IF i < n THEN days[i] ELSE lastSeen
  <2>2. \A i \in 1..n : A(i) = B(i)
    BY <2>1
  <2>3. seen = [i \in 1..n |-> A(i)]
    BY <1>1 DEF AsSeen
  <2> HIDE DEF A, B, seen
  <2>4. seen = [i \in 1..n |-> B(i)]
    BY <2>2, <2>3
  <2> QED BY <2>4 DEF B
<1>3. lastSeen \in Sessions /\ lastSeen.date = c + n /\ (missing = {} => lastSeen = days[n])
  <2> DEFINE d == days[n]
             bars == [m \in Names |-> IF m \in missing THEN Absent ELSE d.bars[m]]
  <2>1. d \in Sessions /\ d.date = c + n
    BY <1>1
  <2>2. lastSeen = [d EXCEPT !.bars = bars]
    OBVIOUS
  <2> HIDE DEF d, lastSeen
  <2>3. /\ d = [date |-> d.date, bars |-> d.bars, eligible |-> d.eligible]
        /\ d.date \in Nat /\ d.bars \in [Names -> Rules \union {Absent}] /\ d.eligible \in SUBSET Names
    BY <2>1 DEF Sessions
  <2>4. bars \in [Names -> Rules \union {Absent}] /\ (missing = {} => bars = d.bars)
    BY <2>3
  <2> HIDE DEF bars
  <2>5. lastSeen = [date |-> d.date, bars |-> bars, eligible |-> d.eligible]
    BY <2>2, <2>3
  <2>6. lastSeen \in Sessions
    BY <2>3, <2>4, <2>5 DEF Sessions
  <2> QED BY <2>1, <2>3, <2>4, <2>5, <2>6 DEF d
<1> HIDE DEF seen, lastSeen
<1>4. seen \in [1..n -> Sessions]
  BY <1>1, <1>2, <1>3
<1>5. seen \in Seq(Sessions) /\ Len(seen) = n
  BY <1>1, <1>4
<1>6. \A i \in 1..n : seen[i].date = c + i
  <2>1. \A i \in 1..n : ~(i < n) => i = n
    BY <1>1
  <2> QED BY <1>1, <1>2, <1>3, <2>1
<1>7. ASSUME missing = {} PROVE seen = days
  <2>1. \A i \in 1..n : ~(i < n) => i = n
    BY <1>1
  <2>2. \A i \in 1..n : seen[i] = days[i]
    BY <1>2, <1>3, <1>7, <2>1
  <2> QED BY <1>1, <1>2, <2>2
<1> QED BY <1>5, <1>6, <1>7 DEF Follow, seen

\* The marks of the close leave a book what it is.
LEMMA RefreshedFacts ==
  ASSUME NEW c \in Nat, NEW b, BookAt(b, c), NEW day \in Sessions, day.date = c, c > 0
  PROVE  /\ BookAt(Refreshed(b, day), c)
         /\ Held(Refreshed(b, day)) = Held(b) /\ Refreshed(b, day).pending = b.pending
         /\ Refreshed(b, day).trades = b.trades
         /\ \A n \in Held(b) :
              Refreshed(b, day).held[n] =
                IF n \in Quoted(day) THEN [b.held[n] EXCEPT !.mark = c, !.atFill = FALSE] ELSE b.held[n]
<1> DEFINE New(n) == IF n \in Quoted(day) THEN [b.held[n] EXCEPT !.mark = c, !.atFill = FALSE] ELSE b.held[n]
           h == [n \in Held(b) |-> New(n)]
           r == Refreshed(b, day)
<1>b. b \in Books
  BY DEF BookAt
<1>1. /\ b = [held |-> b.held, pending |-> b.pending, trades |-> b.trades]
      /\ b.held \in HeldBy /\ b.pending \in Seq(Names) /\ b.trades \subseteq Deals
  BY <1>b, BookIs
<1>2. r = [b EXCEPT !.held = h]
  BY DEF Refreshed
<1>3. Held(b) \subseteq Names /\ \A n \in Held(b) : b.held[n] \in PaperPosition
  BY <1>1, HeldIs DEF Held
<1>4. \A n \in Held(b) :
        /\ New(n) \in PaperPosition /\ New(n).entry = b.held[n].entry /\ New(n).days = b.held[n].days
        /\ New(n).absent = b.held[n].absent /\ New(n).mark \in {b.held[n].mark, c}
  BY <1>3 DEF PaperPosition
<1> HIDE DEF New
<1>5. DOMAIN h = Held(b) /\ h = [n \in DOMAIN h |-> h[n]] /\ \A n \in Held(b) : h[n] = New(n)
  OBVIOUS
<1> HIDE DEF h, r
<1>6. r = [held |-> h, pending |-> b.pending, trades |-> b.trades]
  BY <1>1, <1>2
<1>7. r \in Books /\ Held(r) = Held(b)
  <2>1. h \in HeldBy
    BY <1>3, <1>4, <1>5, HeldIs
  <2> QED BY <1>1, <1>5, <1>6, <2>1 DEF Books, Held
<1>8. BookAt(r, c)
  <2>1. \A n \in Held(r) : LET p == r.held[n] IN
       /\ p.entry \in 1..c /\ p.mark \in 1..c
       /\ p.days = c - p.entry /\ p.days < MaxHold /\ p.absent < StaleDays
    <3>1. \A n \in Held(r) : n \in Held(b) /\ r.held[n] = New(n)
      BY <1>5, <1>6, <1>7
    <3>2. c \in 1..c
      OBVIOUS
    <3> QED BY <1>4, <3>1, <3>2 DEF BookAt
  <2> QED BY <1>6, <1>7, <2>1 DEF BookAt
<1>9. r.held = h /\ r.pending = b.pending /\ r.trades = b.trades
  BY <1>6
<1>10. \A n \in Held(b) : r.held[n] = IF n \in Quoted(day) THEN [b.held[n] EXCEPT !.mark = c, !.atFill = FALSE] ELSE b.held[n]
  <2>1. \A n \in Held(b) : r.held[n] = New(n)
    BY <1>5, <1>9
  <2> QED BY <2>1 DEF New
<1> QED BY <1>7, <1>8, <1>9, <1>10 DEF r

-----------------------------------------------------------------------------
(* The runs of the cron. *)

\* The sessions that wait for the cron are the last ones that closed, and the
\* saved book is what the ones before them made of it.
PaperIInv ==
  /\ closed \in Nat /\ closed <= LastDay /\ late \in BOOLEAN
  /\ Len(unstepped) <= MaxMissed /\ Len(unstepped) <= closed
  /\ Follow(unstepped, closed - Len(unstepped))
  /\ BookAt(backtest, closed) /\ BookAt(saved, closed - Len(unstepped))

LEMMA EmptyBookAt == BookAt(EmptyBook, 0)
<1>1. Held(EmptyBook) = {} /\ EmptyBook.pending = <<>> /\ EmptyBook.trades = {}
  BY DEF EmptyBook, Held, NoTrades
<1>2. EmptyBook \in Books
  <2>1. <<>> \in HeldBy
    <3>1. DOMAIN <<>> = {} /\ <<>> = [n \in DOMAIN <<>> |-> <<>>[n]]
      OBVIOUS
    <3> QED BY <3>1, HeldIs
  <2>2. <<>> \in Seq(Names)
    OBVIOUS
  <2> QED BY <2>1, <2>2 DEF EmptyBook, NoTrades, Books
<1>3. Cardinality({}) = 0
  BY FS_EmptySet
<1> QED BY <1>1, <1>2, <1>3, PaperAssumption DEF BookAt

\* What Close appends is the next session.
LEMMA CloseIs ==
  ASSUME PaperIInv, Close
  PROVE  \E day \in Sessions :
           /\ day.date = closed + 1 /\ closed' = closed + 1 /\ unstepped' = Append(unstepped, day)
           /\ backtest' = Session(backtest, day) /\ saved' = saved /\ late' = late
           /\ Len(unstepped') = Len(unstepped) + 1
           /\ Follow(unstepped', closed - Len(unstepped))
<1>1. PICK day \in Days : /\ closed' = closed + 1 /\ unstepped' = Append(unstepped, day)
                          /\ backtest' = Session(backtest, day)
  BY DEF Close
<1>2. closed \in Nat /\ Follow(unstepped, closed - Len(unstepped))
  BY DEF PaperIInv
<1>3. day \in Sessions /\ day.date = closed + 1
  BY <1>2 DEF Days, Sessions
<1>4. unstepped \in Seq(Sessions) /\ \A i \in 1..Len(unstepped) : unstepped[i].date = (closed - Len(unstepped)) + i
  BY <1>2 DEF Follow
<1> DEFINE longer == Append(unstepped, day)
<1>5. longer \in Seq(Sessions) /\ Len(longer) = Len(unstepped) + 1 /\ Len(unstepped) \in Nat
      /\ \A i \in 1..Len(longer) : longer[i] = IF i <= Len(unstepped) THEN unstepped[i] ELSE day
  BY <1>3, <1>4
<1> HIDE DEF longer
<1>6. \A i \in 1..Len(longer) : longer[i].date = (closed - Len(unstepped)) + i
  BY <1>2, <1>3, <1>4, <1>5
<1>7. Follow(longer, closed - Len(unstepped))
  BY <1>5, <1>6 DEF Follow
<1>8. saved' = saved /\ late' = late
  BY DEF Close
<1> QED BY <1>1, <1>3, <1>5, <1>7, <1>8 DEF longer

\* What a run saves: the last of the steps, its marks refreshed.
LEMMA CronIs ==
  ASSUME PaperIInv, NEW missing \in SUBSET Names, Cron(missing)
  PROVE  \E f : \E day \in Sessions :
           /\ Steps(f, saved, AsSeen(unstepped, missing)) /\ day.date = closed /\ closed > 0
           /\ day = AsSeen(unstepped, missing)[Len(unstepped)]
           /\ Len(AsSeen(unstepped, missing)) = Len(unstepped) /\ Len(unstepped) > 0
           /\ BookAt(f[Len(unstepped)], closed) /\ BookAt(f[Len(unstepped) - 1], closed - 1)
           /\ saved' = Refreshed(f[Len(unstepped)], day)
<1> DEFINE c == closed - Len(unstepped)
           days == AsSeen(unstepped, missing)
           n == Len(unstepped)
<1>1. /\ closed \in Nat /\ n <= closed /\ Follow(unstepped, c) /\ BookAt(saved, c)
      /\ unstepped \in Seq(Sessions) /\ n \in Nat
  BY DEF PaperIInv, Follow
<1>2. n > 0 /\ c \in Nat /\ c + n = closed
  BY <1>1 DEF Cron
<1> HIDE DEF c
<1>3. Follow(days, c) /\ Len(days) = n
  BY <1>1, <1>2, AsSeenFollow
<1>4. days \in Seq(Sessions) /\ days[n] \in Sessions /\ days[n].date = closed
  <2>1. n \in 1..n
    BY <1>1, <1>2
  <2> HIDE DEF days, n
  <2> QED BY <1>2, <1>3, <2>1 DEF Follow
<1>5. saved' = Refreshed(FoldLeft(Session, saved, days), days[n])
  <2>1. Last(days) = days[n]
    BY <1>3 DEF Last
  <2> QED BY <2>1 DEF Cron, ToStep
<1> HIDE DEF days
<1>6. PICK f : Steps(f, saved, days) /\ f[n] = FoldLeft(Session, saved, days)
  <2>1. saved \in Roomy
    BY <1>1, AtIsRoomy
  <2> QED BY <1>3, <1>4, <2>1, FoldIsSteps
<1>7. BookAt(f[n], c + n) /\ BookAt(f[n - 1], c + (n - 1))
  <2>1. n \in 0..n /\ n - 1 \in 0..n
    BY <1>1, <1>2
  <2>2. \A k \in 0..n : BookAt(f[k], c + k)
    <3> HIDE DEF n
    <3> QED BY <1>1, <1>2, <1>3, <1>6, StepsAt
  <2> HIDE DEF n
  <2> QED BY <2>1, <2>2
<1>8. c + (n - 1) = closed - 1 /\ closed > 0
  BY <1>1, <1>2
<1> QED BY <1>2, <1>3, <1>4, <1>5, <1>6, <1>7, <1>8 DEF days

LEMMA PaperInit_IInv == PaperInit => PaperIInv
<1> SUFFICES ASSUME PaperInit PROVE PaperIInv
  OBVIOUS
<1>1. closed = 0 /\ unstepped = <<>> /\ late = FALSE /\ saved = EmptyBook /\ backtest = EmptyBook
  BY DEF PaperInit
<1>2. Follow(<<>>, 0)
  BY DEF Follow
<1>3. Len(unstepped) = 0
  <2>1. Len(<<>>) = 0
    OBVIOUS
  <2> QED BY <1>1, <2>1
<1>4. closed - Len(unstepped) = 0
  <2>1. 0 - 0 = 0
    OBVIOUS
  <2> QED BY <1>1, <1>3, <2>1, Zenon
<1> QED BY <1>1, <1>2, <1>3, <1>4, EmptyBookAt, PaperAssumption DEF PaperIInv

LEMMA PaperStep == PaperIInv /\ [PaperNext]_paperVars => PaperIInv'
<1> SUFFICES ASSUME PaperIInv, [PaperNext]_paperVars PROVE PaperIInv'
  OBVIOUS
<1>1. CASE Close
  <2>1. PICK day \in Sessions :
           /\ day.date = closed + 1 /\ closed' = closed + 1 /\ unstepped' = Append(unstepped, day)
           /\ backtest' = Session(backtest, day) /\ saved' = saved /\ late' = late
           /\ Len(unstepped') = Len(unstepped) + 1
           /\ Follow(unstepped', closed - Len(unstepped))
    BY <1>1, CloseIs
  <2>2. closed \in Nat /\ Len(unstepped) \in Nat /\ unstepped \in Seq(Sessions)
    BY DEF PaperIInv, Follow
  <2>3. closed' \in Nat /\ closed' <= LastDay /\ Len(unstepped') <= MaxMissed /\ Len(unstepped') <= closed'
    BY <1>1, <2>1, <2>2, PaperAssumption DEF Close, PaperIInv
  <2>4. closed' - Len(unstepped') = closed - Len(unstepped)
    BY <2>1, <2>2
  <2>5. BookAt(backtest, closed)
    BY DEF PaperIInv
  <2>6. BookAt(Session(backtest, day), closed + 1)
    BY <2>1, <2>2, <2>5, SessionAt
  <2>7. BookAt(saved, closed - Len(unstepped)) /\ late \in BOOLEAN
    BY DEF PaperIInv
  <2>8. BookAt(backtest', closed')
    BY <2>1, <2>6
  <2>9. BookAt(saved', closed' - Len(unstepped')) /\ Follow(unstepped', closed' - Len(unstepped'))
    BY <2>1, <2>4, <2>7
  <2> QED BY <2>1, <2>3, <2>7, <2>8, <2>9 DEF PaperIInv
<1>2. ASSUME NEW missing \in SUBSET Names, Cron(missing) PROVE PaperIInv'
  <2>0. PICK f : \E day \in Sessions :
           /\ day.date = closed /\ closed > 0 /\ BookAt(f[Len(unstepped)], closed)
           /\ saved' = Refreshed(f[Len(unstepped)], day)
    BY <1>2, CronIs
  <2>1. PICK day \in Sessions :
           /\ day.date = closed /\ closed > 0 /\ BookAt(f[Len(unstepped)], closed)
           /\ saved' = Refreshed(f[Len(unstepped)], day)
    BY <2>0
  <2>2. unstepped' = <<>> /\ closed' = closed /\ backtest' = backtest /\ late' \in BOOLEAN
    BY <1>2 DEF Cron
  <2>3. closed \in Nat /\ closed <= LastDay /\ BookAt(backtest, closed)
    BY DEF PaperIInv
  <2>4. BookAt(Refreshed(f[Len(unstepped)], day), closed)
    BY <2>1, <2>3, RefreshedFacts
  <2>5. Len(unstepped') = 0 /\ closed' - Len(unstepped') = closed
    BY <2>2, <2>3
  <2>6. Follow(<<>>, closed)
    BY DEF Follow
  <2>7. BookAt(saved', closed' - Len(unstepped')) /\ BookAt(backtest', closed')
        /\ Follow(unstepped', closed' - Len(unstepped'))
    BY <2>1, <2>2, <2>3, <2>4, <2>5, <2>6
  <2> QED BY <2>2, <2>3, <2>5, <2>7, PaperAssumption DEF PaperIInv
<1>3. CASE UNCHANGED paperVars
  <2>1. /\ closed' = closed /\ unstepped' = unstepped /\ saved' = saved /\ backtest' = backtest /\ late' = late
    BY <1>3 DEF paperVars
  <2> QED BY <2>1 DEF PaperIInv
<1> QED BY <1>1, <1>2, <1>3 DEF PaperNext

LEMMA BookAtKeeps ==
  ASSUME NEW c \in Nat, c <= LastDay, NEW b, BookAt(b, c)
  PROVE  /\ Held(b) \subseteq Names /\ \A n \in Held(b) : b.held[n] \in Position
         /\ b.pending \in Seq(Names)
         /\ \A t \in b.trades : t.name \in Names /\ t.entry < t.exit /\ t.exit <= c
         /\ Cardinality(Held(b)) + Len(b.pending) <= MaxPos
         /\ Held(b) \intersect Range(b.pending) = {}
         /\ \A n \in Held(b) : c - b.held[n].entry < MaxHold
<1>1. b \in Books /\ b.held \in HeldBy /\ b.pending \in Seq(Names) /\ b.trades \subseteq Deals
  BY BookIs DEF BookAt
<1>2. Held(b) \subseteq Names /\ \A n \in Held(b) : b.held[n] \in PaperPosition
  BY <1>1, HeldIs DEF Held
<1>3. ASSUME NEW n \in Held(b) PROVE b.held[n] \in Position /\ c - b.held[n].entry < MaxHold
  <2> DEFINE p == b.held[n]
  <2>1. /\ p \in PaperPosition /\ p.entry \in 1..c /\ p.mark \in 1..c
        /\ p.days = c - p.entry /\ p.days < MaxHold /\ p.absent < StaleDays
    BY <1>2 DEF BookAt
  <2> HIDE DEF p
  <2>2. p.entry \in 1..LastDay /\ p.mark \in 1..LastDay /\ p.days \in 0..MaxHold - 1 /\ p.absent \in 0..StaleDays - 1
    BY <2>1, PaperAssumption DEF PaperPosition
  <2>3. p \in Position
    BY <2>1, <2>2 DEF PaperPosition, Position
  <2> QED BY <2>1, <2>3 DEF p
<1>4. \A t \in b.trades : t.name \in Names
  BY <1>1 DEF Deals
<1> QED BY <1>1, <1>2, <1>3, <1>4 DEF BookAt

LEMMA PaperIInv_Inv == PaperIInv => PaperInv
<1> SUFFICES ASSUME PaperIInv PROVE PaperInv
  OBVIOUS
<1> DEFINE c == closed - Len(unstepped)
<1>1. /\ closed \in Nat /\ closed <= LastDay /\ late \in BOOLEAN /\ Len(unstepped) \in Nat
      /\ Len(unstepped) <= MaxMissed /\ BookAt(backtest, closed) /\ BookAt(saved, c)
      /\ Len(unstepped) <= closed
  BY DEF PaperIInv, Follow
<1>2. c \in Nat /\ c <= closed /\ c <= LastDay
  BY <1>1, PaperAssumption
<1> HIDE DEF c
<1>3. /\ Held(saved) \subseteq Names /\ \A n \in Held(saved) : saved.held[n] \in Position
      /\ saved.pending \in Seq(Names)
      /\ \A t \in saved.trades : t.name \in Names /\ t.entry < t.exit /\ t.exit <= c
      /\ Cardinality(Held(saved)) + Len(saved.pending) <= MaxPos
      /\ Held(saved) \intersect Range(saved.pending) = {}
  BY <1>1, <1>2, BookAtKeeps
<1>4. \A t \in saved.trades : t.exit <= closed
  <2>1. \A t \in saved.trades : t.exit \in Nat
    <3>1. saved.trades \subseteq Deals
      BY <1>1, BookIs DEF BookAt
    <3> QED BY <3>1 DEF Deals
  <2> QED BY <1>1, <1>2, <1>3, <2>1
<1>5. /\ Held(backtest) \subseteq Names /\ \A n \in Held(backtest) : backtest.held[n] \in Position
      /\ backtest.pending \in Seq(Names)
      /\ \A t \in backtest.trades : t.name \in Names /\ t.entry < t.exit /\ t.exit <= closed
      /\ Cardinality(Held(backtest)) + Len(backtest.pending) <= MaxPos
      /\ Held(backtest) \intersect Range(backtest.pending) = {}
      /\ \A n \in Held(backtest) : closed - backtest.held[n].entry < MaxHold
  BY <1>1, BookAtKeeps
<1>6. PaperTypeOK
  BY <1>1, <1>3, <1>4, <1>5, PaperAssumption DEF PaperTypeOK
<1>7. SlotsKept
  BY <1>3, <1>5 DEF SlotsKept
<1>8. NoOverstay
  BY <1>5 DEF NoOverstay
<1> QED BY <1>6, <1>7, <1>8 DEF PaperInv

\* Neither book ever has more positions and orders than slots, an order for a
\* name it holds, or a position past its age or its absence, however the runs
\* of the cron are spaced and whatever they miss.
THEOREM BooksKeepTheirSlots == PaperSpec => []PaperInv
<1>1. PaperSpec => []PaperIInv
  BY PaperInit_IInv, PaperStep, PTL DEF PaperSpec
<1> QED BY <1>1, PaperIInv_Inv, PTL

-----------------------------------------------------------------------------
(* The saved book beside the backtest. *)

\* What the two books have in common: everything but whether a mark is the
\* fill or the close of the day of entry.
AlikePosition(p, q) ==
  /\ p.entry = q.entry /\ p.days = q.days /\ p.absent = q.absent /\ p.mark = q.mark
  /\ p.atFill # q.atFill => q.mark = q.entry
AlikeHeld(g, h) == DOMAIN g = DOMAIN h /\ \A n \in DOMAIN g : AlikePosition(g[n], h[n])
DealOf(t) == <<t.name, t.entry, t.exit, t.why, t.price>>
AlikeTrades(s, t) ==
  /\ {DealOf(x) : x \in s} = {DealOf(x) : x \in t}
  /\ \A x \in s : x \in t \/ x.price = x.entry
Matches(a, b) == AlikeHeld(a.held, b.held) /\ a.pending = b.pending /\ AlikeTrades(a.trades, b.trades)

LEMMA FilledMatches ==
  ASSUME NEW g \in HeldBy, NEW h \in HeldBy, AlikeHeld(g, h), NEW n \in Names, NEW day \in Sessions
  PROVE  AlikeHeld(Filled(g, n, day), Filled(h, n, day))
<1>1. DOMAIN g = DOMAIN h
  BY DEF AlikeHeld
<1>2. CASE n \in DOMAIN g \/ n \notin Quoted(day) \/ Cardinality(DOMAIN g) >= MaxPos
  <2>1. Filled(g, n, day) = g /\ Filled(h, n, day) = h
    BY <1>1, <1>2 DEF Filled
  <2> QED BY <2>1
<1>3. CASE ~(n \in DOMAIN g \/ n \notin Quoted(day) \/ Cardinality(DOMAIN g) >= MaxPos)
  <2> DEFINE e == Entered(day.date)
  <2>1. /\ Filled(g, n, day) = [m \in DOMAIN g \union {n} |-> IF m = n THEN e ELSE g[m]]
        /\ Filled(h, n, day) = [m \in DOMAIN h \union {n} |-> IF m = n THEN e ELSE h[m]]
    BY <1>1, <1>3 DEF Filled
  <2> HIDE DEF e
  <2>2. AlikePosition(e, e)
    <3>1. e.entry = day.date /\ e.mark = day.date
      BY DEF e, Entered
    <3> QED BY <3>1 DEF AlikePosition
  <2>3. \A m \in DOMAIN g : AlikePosition(g[m], h[m])
    BY DEF AlikeHeld
  <2> QED BY <1>1, <2>1, <2>2, <2>3 DEF AlikeHeld
<1> QED BY <1>2, <1>3

LEMMA FillMatches ==
  ASSUME NEW a \in Books, NEW b \in Books, AlikeHeld(a.held, b.held), a.pending = b.pending, NEW day \in Sessions
  PROVE  AlikeHeld(Fill(a, day).held, Fill(b, day).held)
<1> DEFINE n == Len(a.pending)
           orders == a.pending
<1>1. orders \in Seq(Names) /\ n \in Nat /\ \A k \in 1..n : orders[k] \in Names
  BY BookIs
<1>2. PICK f \in [0..n -> HeldBy] :
        /\ f[0] = a.held /\ f[n] = Fill(a, day).held
        /\ \A k \in 1..n : f[k] = Filled(f[k - 1], orders[k], day)
  BY FillsChain
<1>3. PICK g \in [0..n -> HeldBy] :
        /\ g[0] = b.held /\ g[n] = Fill(b, day).held
        /\ \A k \in 1..n : g[k] = Filled(g[k - 1], orders[k], day)
  BY FillsChain
<1> HIDE DEF n, orders
<1> DEFINE G == [k \in 0..n |-> {x \in HeldBy : AlikeHeld(x, g[k])}]
<1>4. \A k \in 0..n : f[k] \in G[k] <=> AlikeHeld(f[k], g[k])
  BY <1>2
<1>5. 0 \in 0..n /\ n \in 0..n /\ \A k \in 1..n : k \in 0..n /\ k - 1 \in 0..n
  BY <1>1
<1> HIDE DEF G
<1>6. f[0] \in G[0]
  BY <1>2, <1>3, <1>4, <1>5
<1>7. ASSUME NEW k \in 1..n, f[k - 1] \in G[k - 1] PROVE f[k] \in G[k]
  <2>1. f[k - 1] \in HeldBy /\ g[k - 1] \in HeldBy /\ AlikeHeld(f[k - 1], g[k - 1])
    BY <1>2, <1>3, <1>4, <1>5, <1>7
  <2>2. AlikeHeld(Filled(f[k - 1], orders[k], day), Filled(g[k - 1], orders[k], day))
    BY <1>1, <2>1, FilledMatches
  <2>3. f[k] = Filled(f[k - 1], orders[k], day) /\ g[k] = Filled(g[k - 1], orders[k], day)
    BY <1>2, <1>3
  <2> QED BY <1>4, <1>5, <2>2, <2>3
<1>8. \A k \in 0..n : f[k] \in G[k]
  BY <1>1, <1>6, <1>7, ChainStays
<1> QED BY <1>2, <1>3, <1>4, <1>5, <1>8

LEMMA AgedIs ==
  ASSUME NEW p \in PaperPosition, NEW traded \in BOOLEAN
  PROVE  /\ Aged(p, traded) \in PaperPosition
         /\ Aged(p, traded).entry = p.entry /\ Aged(p, traded).days = p.days + 1
         /\ Aged(p, traded).absent = (IF traded THEN 0 ELSE p.absent + 1)
         /\ Aged(p, traded).mark = p.mark /\ Aged(p, traded).atFill = p.atFill
<1> DEFINE a == IF traded THEN 0 ELSE p.absent + 1
<1>1. /\ p = [entry |-> p.entry, days |-> p.days, absent |-> p.absent, mark |-> p.mark, atFill |-> p.atFill]
      /\ p.entry \in Nat /\ p.days \in Nat /\ p.absent \in Nat /\ p.mark \in Nat /\ p.atFill \in BOOLEAN
  BY DEF PaperPosition
<1>2. Aged(p, traded) = [p EXCEPT !.days = p.days + 1, !.absent = a]
  BY DEF Aged
<1>3. a \in Nat
  BY <1>1
<1> HIDE DEF a
<1>4. Aged(p, traded) = [entry |-> p.entry, days |-> p.days + 1, absent |-> a, mark |-> p.mark, atFill |-> p.atFill]
  BY <1>1, <1>2
<1>5. Aged(p, traded) \in PaperPosition
  BY <1>1, <1>3, <1>4 DEF PaperPosition
<1> QED BY <1>4, <1>5 DEF a

\* The close treats two positions that are alike alike.
LEMMA CloseAlike ==
  ASSUME NEW a \in Books, NEW b \in Books, NEW day \in Sessions, NEW n, n \in Held(a), n \in Held(b),
         AlikePosition(a.held[n], b.held[n])
  PROVE  /\ WhyOf(a, day, n) = WhyOf(b, day, n)
         /\ AlikePosition(KeptAs(a, day, n), KeptAs(b, day, n))
         /\ DealOf(SoldAs(a, day, n)) = DealOf(SoldAs(b, day, n))
         /\ SoldAs(a, day, n) = SoldAs(b, day, n) \/ SoldAs(a, day, n).price = SoldAs(a, day, n).entry
<1> DEFINE p == a.held[n]
           q == b.held[n]
           x == n \in Quoted(day)
           po == Aged(p, x)
           qo == Aged(q, x)
<1>1. p \in PaperPosition /\ q \in PaperPosition /\ x \in BOOLEAN
  <2>1. a.held \in HeldBy /\ b.held \in HeldBy
    BY BookIs
  <2> QED BY <2>1, HeldIs DEF Held
<1>2. /\ p.entry = q.entry /\ p.days = q.days /\ p.absent = q.absent /\ p.mark = q.mark
      /\ p.atFill # q.atFill => q.mark = q.entry
  BY DEF AlikePosition
<1>o. Older(a, day, n) = po /\ Older(b, day, n) = qo
  BY DEF Older
<1> HIDE DEF p, q, x
<1>3. /\ po \in PaperPosition /\ po.entry = p.entry /\ po.days = p.days + 1 /\ po.mark = p.mark
      /\ po.atFill = p.atFill /\ po.absent = (IF x THEN 0 ELSE p.absent + 1)
  BY <1>1, AgedIs
<1>4. /\ qo \in PaperPosition /\ qo.entry = q.entry /\ qo.days = q.days + 1 /\ qo.mark = q.mark
      /\ qo.atFill = q.atFill /\ qo.absent = (IF x THEN 0 ELSE q.absent + 1)
  BY <1>1, AgedIs
<1> HIDE DEF po, qo
<1>5. po.days = qo.days /\ po.absent = qo.absent /\ AlikePosition(po, qo)
  BY <1>2, <1>3, <1>4 DEF AlikePosition
<1>6. Reason(po, day.bars[n]) = Reason(qo, day.bars[n])
  BY <1>5 DEF Reason
<1>7. WhyOf(a, day, n) = WhyOf(b, day, n)
  BY <1>2, <1>6, <1>o DEF WhyOf, p, q
<1>8. AlikePosition(KeptAs(a, day, n), KeptAs(b, day, n))
  <2>1. CASE p.entry = day.date
    <3>1. KeptAs(a, day, n) = p /\ KeptAs(b, day, n) = q
      BY <1>2, <2>1 DEF KeptAs, p, q
    <3> QED BY <1>2, <3>1 DEF AlikePosition
  <2>2. CASE p.entry # day.date /\ x
    <3>1. /\ KeptAs(a, day, n) = [po EXCEPT !.mark = day.date, !.atFill = FALSE]
          /\ KeptAs(b, day, n) = [qo EXCEPT !.mark = day.date, !.atFill = FALSE]
      BY <1>2, <1>o, <2>2 DEF KeptAs, p, q, x
    <3>2. AlikePosition([po EXCEPT !.mark = day.date, !.atFill = FALSE], [qo EXCEPT !.mark = day.date, !.atFill = FALSE])
      BY <1>3, <1>4, <1>5 DEF PaperPosition, AlikePosition
    <3> QED BY <3>1, <3>2
  <2>3. CASE p.entry # day.date /\ ~x
    <3>1. KeptAs(a, day, n) = po /\ KeptAs(b, day, n) = qo
      BY <1>2, <1>o, <2>3 DEF KeptAs, p, q, x
    <3> QED BY <1>5, <3>1
  <2> QED BY <2>1, <2>2, <2>3
<1> DEFINE w == WhyOf(a, day, n)
           price == IF w = "stale" THEN p.mark ELSE day.date
           s == SoldAs(a, day, n)
           t == SoldAs(b, day, n)
<1>9. /\ s = [name |-> n, entry |-> p.entry, exit |-> day.date, why |-> w, price |-> price,
              atFill |-> w = "stale" /\ p.atFill]
      /\ t = [name |-> n, entry |-> p.entry, exit |-> day.date, why |-> w, price |-> price,
              atFill |-> w = "stale" /\ q.atFill]
  BY <1>2, <1>7 DEF SoldAs, p, q
<1> HIDE DEF w, s, t
<1>10. DealOf(s) = DealOf(t)
  BY <1>9 DEF DealOf
<1>11. s = t \/ s.price = s.entry
  <2>1. CASE (w = "stale" /\ p.atFill) = (w = "stale" /\ q.atFill)
    BY <1>9, <2>1
  <2>2. CASE ~((w = "stale" /\ p.atFill) = (w = "stale" /\ q.atFill))
    <3>1. w = "stale" /\ p.atFill # q.atFill
      BY <2>2
    <3>2. price = p.entry
      BY <1>2, <3>1
    <3> QED BY <1>9, <3>2
  <2> QED BY <2>1, <2>2
<1> QED BY <1>7, <1>8, <1>10, <1>11 DEF s, t

LEMMA ExitMatches ==
  ASSUME NEW a \in Books, NEW b \in Books, Matches(a, b), NEW day \in Sessions
  PROVE  Matches(Exit(a, day), Exit(b, day))
<1> DEFINE x == Exit(a, day)
           y == Exit(b, day)
           gone == Held(a) \ Stays(a, day)
<1>1. Held(a) = Held(b) /\ \A n \in Held(a) : AlikePosition(a.held[n], b.held[n])
  BY DEF Matches, AlikeHeld, Held
<1>2. ASSUME NEW n \in Held(a)
      PROVE  /\ WhyOf(a, day, n) = WhyOf(b, day, n)
             /\ AlikePosition(KeptAs(a, day, n), KeptAs(b, day, n))
             /\ DealOf(SoldAs(a, day, n)) = DealOf(SoldAs(b, day, n))
             /\ SoldAs(a, day, n) = SoldAs(b, day, n) \/ SoldAs(a, day, n).price = SoldAs(a, day, n).entry
  BY <1>1, CloseAlike
<1>3. Stays(a, day) = Stays(b, day) /\ Stays(a, day) \subseteq Held(a)
  BY <1>1, <1>2 DEF Stays
<1>4. /\ x.held = [n \in Stays(a, day) |-> KeptAs(a, day, n)] /\ x.pending = a.pending
      /\ x.trades = a.trades \union {SoldAs(a, day, n) : n \in gone}
  BY ExitIs
<1>5. /\ y.held = [n \in Stays(a, day) |-> KeptAs(b, day, n)] /\ y.pending = b.pending
      /\ y.trades = b.trades \union {SoldAs(b, day, n) : n \in gone}
  BY <1>1, <1>3, ExitIs
<1> HIDE DEF x, y
<1>6. AlikeHeld(x.held, y.held)
  BY <1>2, <1>3, <1>4, <1>5 DEF AlikeHeld
<1>7. \A n \in gone : n \in Held(a)
  OBVIOUS
<1> HIDE DEF gone
<1>8. /\ {DealOf(t) : t \in a.trades} = {DealOf(t) : t \in b.trades}
      /\ \A t \in a.trades : t \in b.trades \/ t.price = t.entry
  BY DEF Matches, AlikeTrades
<1>9. {DealOf(t) : t \in x.trades} = {DealOf(t) : t \in y.trades}
  <2>1. ASSUME NEW t \in x.trades PROVE \E u \in y.trades : DealOf(t) = DealOf(u)
    <3>1. CASE t \in a.trades
      BY <1>5, <1>8, <3>1
    <3>2. CASE \E n \in gone : t = SoldAs(a, day, n)
      BY <1>2, <1>5, <1>7, <3>2
    <3> QED BY <1>4, <2>1, <3>1, <3>2
  <2>2. ASSUME NEW u \in y.trades PROVE \E t \in x.trades : DealOf(t) = DealOf(u)
    <3>1. CASE u \in b.trades
      BY <1>4, <1>8, <3>1
    <3>2. CASE \E n \in gone : u = SoldAs(b, day, n)
      BY <1>2, <1>4, <1>7, <3>2
    <3> QED BY <1>5, <2>2, <3>1, <3>2
  <2> QED BY <2>1, <2>2
<1>10. \A t \in x.trades : t \in y.trades \/ t.price = t.entry
  <2> SUFFICES ASSUME NEW t \in x.trades PROVE t \in y.trades \/ t.price = t.entry
    OBVIOUS
  <2>1. CASE t \in a.trades
    BY <1>5, <1>8, <2>1
  <2>2. CASE \E n \in gone : t = SoldAs(a, day, n)
    <3>1. PICK n \in gone : t = SoldAs(a, day, n)
      BY <2>2
    <3>2. SoldAs(b, day, n) \in y.trades
      BY <1>5
    <3> QED BY <1>2, <1>7, <3>1, <3>2
  <2> QED BY <1>4, <2>1, <2>2
<1>11. x.pending = y.pending
  BY <1>4, <1>5 DEF Matches
<1> QED BY <1>6, <1>9, <1>10, <1>11 DEF Matches, AlikeTrades, x, y

LEMMA SelectMatches ==
  ASSUME NEW a \in Books, NEW b \in Books, Matches(a, b), NEW day \in Sessions
  PROVE  Matches(Select(a, day), Select(b, day))
<1>1. Held(a) = Held(b) /\ a.pending = b.pending
  BY DEF Matches, AlikeHeld, Held
<1>2. FreeSlots(a) = FreeSlots(b) /\ Buyable(a, day) = Buyable(b, day)
  BY <1>1 DEF FreeSlots, Buyable
<1>3. \E orders : Select(a, day) = [a EXCEPT !.pending = orders] /\ Select(b, day) = [b EXCEPT !.pending = orders]
  <2> DEFINE Orders(x) == IF FreeSlots(x) > 0
                          THEN SubSeq(SetToSeq(Buyable(x, day)), 1, IF Len(SetToSeq(Buyable(x, day))) < FreeSlots(x)
                                                                    THEN Len(SetToSeq(Buyable(x, day))) ELSE FreeSlots(x))
                          ELSE x.pending
  <2>1. Select(a, day) = [a EXCEPT !.pending = Orders(a)] /\ Select(b, day) = [b EXCEPT !.pending = Orders(b)]
    BY DEF Select
  <2>2. Orders(a) = Orders(b)
    BY <1>1, <1>2
  <2> HIDE DEF Orders
  <2> QED BY <2>1, <2>2
<1>4. PICK orders : Select(a, day) = [a EXCEPT !.pending = orders] /\ Select(b, day) = [b EXCEPT !.pending = orders]
  BY <1>3
<1>5. /\ a = [held |-> a.held, pending |-> a.pending, trades |-> a.trades]
      /\ b = [held |-> b.held, pending |-> b.pending, trades |-> b.trades]
  BY BookIs
<1>6. /\ Select(a, day) = [held |-> a.held, pending |-> orders, trades |-> a.trades]
      /\ Select(b, day) = [held |-> b.held, pending |-> orders, trades |-> b.trades]
  BY <1>4, <1>5
<1> QED BY <1>6 DEF Matches

\* A session keeps two books that match matching.
LEMMA SessionMatches ==
  ASSUME NEW a \in Books, NEW b \in Books, Matches(a, b), NEW day \in Sessions
  PROVE  Matches(Session(a, day), Session(b, day))
<1> DEFINE fa == Fill(a, day)
           fb == Fill(b, day)
           ea == Exit(fa, day)
           eb == Exit(fb, day)
<1>1. fa \in Books /\ fb \in Books /\ Matches(fa, fb)
  <2>1. PICK g, h : g = fa.held /\ h = fb.held
    OBVIOUS
  <2>2. /\ g \in HeldBy /\ fa = [held |-> g, pending |-> <<>>, trades |-> a.trades]
        /\ h \in HeldBy /\ fb = [held |-> h, pending |-> <<>>, trades |-> b.trades]
    BY <2>1, FillFacts
  <2>3. AlikeHeld(g, h) /\ AlikeTrades(a.trades, b.trades)
    BY <2>1, FillMatches DEF Matches
  <2>4. a.trades \subseteq Deals /\ b.trades \subseteq Deals /\ <<>> \in Seq(Names)
    BY BookIs
  <2> HIDE DEF fa, fb
  <2>5. fa \in Books /\ fb \in Books
    BY <2>2, <2>4 DEF Books
  <2>6. Matches(fa, fb)
    BY <2>2, <2>3 DEF Matches
  <2> QED BY <2>5, <2>6
<1> HIDE DEF fa, fb
<1>2. ea \in Books /\ eb \in Books /\ Matches(ea, eb)
  BY <1>1, ExitFacts, ExitMatches
<1> HIDE DEF ea, eb
<1>3. Matches(Select(ea, day), Select(eb, day))
  BY <1>2, SelectMatches
<1> QED BY <1>3 DEF Session, ea, eb, fa, fb

\* After a session every quoted position is marked in it, at the fill only if
\* it was bought in it.
LEMMA MarkedToday ==
  ASSUME NEW c \in Nat, NEW b, BookAt(b, c), NEW day \in Sessions, day.date = c + 1,
         NEW n \in Held(Session(b, day)), n \in Quoted(day)
  PROVE  LET p == Session(b, day).held[n] IN p.mark = c + 1 /\ (p.atFill => p.entry = c + 1)
<1> DEFINE f == Fill(b, day)
           e == Exit(f, day)
           s == Select(e, day)
           p == s.held[n]
<1>b. b \in Roomy /\ b \in Books /\ Session(b, day) = s
  BY AtIsRoomy DEF BookAt, Session
<1>1. PICK h : h = f.held
  OBVIOUS
<1>2. /\ h \in HeldBy /\ f = [held |-> h, pending |-> <<>>, trades |-> b.trades]
      /\ \A m \in Held(b) : m \in DOMAIN h /\ h[m] = b.held[m]
      /\ \A m \in DOMAIN h \ Held(b) : h[m] = Entered(day.date)
      /\ Cardinality(Held(b)) <= MaxPos => Cardinality(DOMAIN h) <= MaxPos
  BY <1>b, <1>1, FillFacts DEF Held
<1>3. f \in Books /\ Held(f) = DOMAIN h /\ f.held = h /\ f.pending = <<>>
  <2>1. b.trades \subseteq Deals /\ <<>> \in Seq(Names)
    BY <1>b, BookIs
  <2> HIDE DEF f
  <2> QED BY <1>2, <2>1 DEF Books, Held
<1> HIDE DEF f
<1>4. /\ e \in Books /\ e.pending = f.pending /\ Held(e) \subseteq Held(f) /\ Held(e) = Stays(f, day)
      /\ \A m \in Held(e) : e.held[m] = KeptAs(f, day, m)
  BY <1>3, ExitFacts
<1> HIDE DEF e
<1>5. Cardinality(Held(e)) <= MaxPos
  <2>1. IsFiniteSet(Held(f)) /\ Cardinality(Held(f)) \in Nat
    BY <1>3, BookIs DEF Held
  <2>2. Cardinality(Held(e)) <= Cardinality(Held(f)) /\ Cardinality(Held(e)) \in Nat
    BY <1>4, <2>1, BookIs, FS_Subset DEF Held
  <2>3. Cardinality(Held(f)) <= MaxPos
    BY <1>b, <1>2, <1>3 DEF Roomy
  <2> QED BY <2>1, <2>2, <2>3, PaperAssumption
<1>6. s.held = e.held
  BY <1>3, <1>4, <1>5, SelectFacts
<1> HIDE DEF s
<1>7. n \in Held(e) /\ n \in Held(f)
  BY <1>4, <1>6, <1>b DEF Held
<1>8. CASE h[n].entry = day.date
  <2>1. p = h[n]
    BY <1>3, <1>4, <1>6, <1>7, <1>8 DEF KeptAs
  <2>2. n \notin Held(b)
    <3>1. ASSUME n \in Held(b) PROVE FALSE
      <4>1. h[n].entry \in 1..c
        BY <1>2, <3>1 DEF BookAt
      <4> QED BY <1>8, <4>1
    <3> QED BY <3>1
  <2>3. h[n] = Entered(day.date)
    BY <1>2, <1>3, <1>7, <2>2
  <2> QED BY <1>b, <2>1, <2>3 DEF Entered
<1>9. CASE h[n].entry # day.date
  <2>1. p = [Older(f, day, n) EXCEPT !.mark = day.date, !.atFill = FALSE]
    BY <1>3, <1>4, <1>6, <1>7, <1>9 DEF KeptAs
  <2>2. Older(f, day, n) \in PaperPosition
    BY <1>3, <1>7, OlderIs
  <2>3. p.mark = c + 1 /\ p.atFill = FALSE
    BY <2>1, <2>2 DEF PaperPosition
  <2> QED BY <1>b, <2>3
<1> QED BY <1>8, <1>9

LEMMA RefreshedMatches ==
  ASSUME NEW c \in Nat, c > 0, NEW a, BookAt(a, c), NEW b, Matches(a, b), NEW day \in Sessions, day.date = c,
         \A n \in Held(a) : n \in Quoted(day) => a.held[n].mark = c /\ (a.held[n].atFill => a.held[n].entry = c)
  PROVE  Matches(Refreshed(a, day), b)
<1> DEFINE r == Refreshed(a, day)
<1>1. /\ BookAt(r, c) /\ Held(r) = Held(a) /\ r.pending = a.pending /\ r.trades = a.trades
      /\ \A n \in Held(a) :
           r.held[n] = IF n \in Quoted(day) THEN [a.held[n] EXCEPT !.mark = c, !.atFill = FALSE] ELSE a.held[n]
  BY RefreshedFacts
<1> HIDE DEF r
<1>2. Held(a) = Held(b) /\ \A n \in Held(a) : AlikePosition(a.held[n], b.held[n])
  BY DEF Matches, AlikeHeld, Held
<1>3. ASSUME NEW n \in Held(a) PROVE AlikePosition(r.held[n], b.held[n])
  <2> DEFINE p == a.held[n]
             q == b.held[n]
             x == r.held[n]
  <2>1. p \in PaperPosition
    <3>1. a \in Books /\ a.held \in HeldBy
      BY BookIs DEF BookAt
    <3> QED BY <3>1, HeldIs DEF Held
  <2>2. /\ p.entry = q.entry /\ p.days = q.days /\ p.absent = q.absent /\ p.mark = q.mark
        /\ p.atFill # q.atFill => q.mark = q.entry
    BY <1>2 DEF AlikePosition
  <2>3. CASE n \notin Quoted(day)
    <3>1. x = p
      BY <1>1, <2>3
    <3> QED BY <2>2, <3>1 DEF AlikePosition
  <2>4. CASE n \in Quoted(day)
    <3>1. x = [p EXCEPT !.mark = c, !.atFill = FALSE] /\ p.mark = c /\ (p.atFill => p.entry = c)
      BY <1>1, <2>4
    <3> HIDE DEF p, q, x
    <3>2. x.entry = p.entry /\ x.days = p.days /\ x.absent = p.absent /\ x.mark = c /\ x.atFill = FALSE
          /\ p.atFill \in BOOLEAN
      BY <2>1, <3>1 DEF PaperPosition
    <3>3. x.atFill # q.atFill => q.mark = q.entry
      <4>1. CASE p.atFill
        BY <2>2, <3>1, <4>1
      <4>2. CASE ~p.atFill
        <5>1. p.atFill = FALSE
          BY <3>2, <4>2
        <5> QED BY <2>2, <3>2, <5>1
      <4> QED BY <4>1, <4>2
    <3>4. AlikePosition(x, q)
      BY <2>2, <3>1, <3>2, <3>3 DEF AlikePosition
    <3> QED BY <3>4 DEF x, q
  <2> QED BY <2>3, <2>4
<1>4. AlikeHeld(r.held, b.held)
  BY <1>1, <1>2, <1>3 DEF AlikeHeld, Held
<1>5. a.pending = b.pending /\ AlikeTrades(a.trades, b.trades)
  BY DEF Matches
<1>6. Matches(r, b)
  BY <1>1, <1>4, <1>5 DEF Matches
<1> QED BY <1>6 DEF r

\* Unless a run came before a bar, the sessions that wait for the cron make of
\* the saved book what the backtest is.
Replays ==
  ~late => \E f : Steps(f, saved, unstepped) /\ Matches(f[Len(unstepped)], backtest)

LEMMA MatchesItself == ASSUME NEW b PROVE Matches(b, b)
<1>1. \A n \in DOMAIN b.held : AlikePosition(b.held[n], b.held[n])
  BY DEF AlikePosition
<1> QED BY <1>1 DEF Matches, AlikeHeld, AlikeTrades

LEMMA NoStepsYet ==
  ASSUME NEW b \in Roomy
  PROVE  \E f : Steps(f, b, <<>>) /\ f[0] = b
<1> DEFINE f == [k \in 0..0 |-> b]
<1>1. Len(<<>>) = 0 /\ f \in [0..0 -> Roomy] /\ f[0] = b /\ 1..0 = {}
  OBVIOUS
<1> HIDE DEF f
<1>2. Steps(f, b, <<>>)
  BY <1>1 DEF Steps
<1> QED BY <1>1, <1>2

LEMMA OneStepMore ==
  ASSUME NEW b, NEW days \in Seq(Sessions), NEW day \in Sessions, NEW f, Steps(f, b, days)
  PROVE  \E g : /\ Steps(g, b, Append(days, day))
                /\ g[Len(days) + 1] = Session(f[Len(days)], day)
<1> DEFINE n == Len(days)
           longer == Append(days, day)
           next == Session(f[n], day)
           g == [k \in 0..(n + 1) |-> IF k <= n THEN f[k] ELSE next]
<1>1. n \in Nat /\ Len(longer) = n + 1 /\ longer[n + 1] = day /\ \A k \in 1..n : longer[k] = days[k]
  OBVIOUS
<1>2. f \in [0..n -> Roomy] /\ f[0] = b /\ \A k \in 1..n : f[k] = Session(f[k - 1], days[k])
  BY DEF Steps
<1>3. next \in Roomy
  <2>1. n \in 0..n
    BY <1>1
  <2> QED BY <1>2, <2>1, SessionType
<1> HIDE DEF n, longer, next
<1>4. g \in [0..(n + 1) -> Roomy]
  BY <1>1, <1>2, <1>3
<1>5. g[n + 1] = next /\ \A k \in 0..n : g[k] = f[k]
  BY <1>1
<1> HIDE DEF g
<1>6. g[0] = b
  BY <1>1, <1>2, <1>5
<1>7. ASSUME NEW k \in 1..(n + 1) PROVE g[k] = Session(g[k - 1], longer[k])
  <2>1. CASE k = n + 1
    <3>1. k - 1 = n /\ n \in 0..n
      BY <1>1, <2>1
    <3> QED BY <1>1, <1>5, <2>1, <3>1 DEF next
  <2>2. CASE k # n + 1
    <3>1. k \in 1..n /\ k \in 0..n /\ k - 1 \in 0..n
      BY <1>1, <2>2
    <3> QED BY <1>1, <1>2, <1>5, <3>1
  <2> QED BY <2>1, <2>2
<1>8. Steps(g, b, longer)
  BY <1>1, <1>4, <1>6, <1>7 DEF Steps
<1> QED BY <1>5, <1>8 DEF n, longer, next

LEMMA PaperInit_Replays == PaperInit => Replays
<1> SUFFICES ASSUME PaperInit PROVE Replays
  OBVIOUS
<1>1. saved \in Roomy
  BY EmptyBookAt, AtIsRoomy DEF PaperInit
<1>2. PICK f : Steps(f, saved, <<>>) /\ f[0] = saved
  BY <1>1, NoStepsYet
<1>3. Len(<<>>) = 0
  OBVIOUS
<1>4. unstepped = <<>> /\ backtest = saved
  BY DEF PaperInit
<1>5. Steps(f, saved, unstepped) /\ Matches(f[Len(unstepped)], backtest)
  BY <1>2, <1>3, <1>4, MatchesItself
<1> QED BY <1>5 DEF Replays

LEMMA ReplaysStep == PaperIInv /\ Replays /\ [PaperNext]_paperVars => Replays'
<1> SUFFICES ASSUME PaperIInv, Replays, [PaperNext]_paperVars PROVE Replays'
  OBVIOUS
<1> DEFINE n == Len(unstepped)
<1>n. n \in Nat /\ n \in 0..n /\ unstepped \in Seq(Sessions) /\ closed \in Nat /\ late \in BOOLEAN
  BY DEF PaperIInv, Follow
<1>1. CASE Close
  <2>1. PICK day \in Sessions :
           /\ unstepped' = Append(unstepped, day) /\ saved' = saved /\ late' = late
           /\ backtest' = Session(backtest, day) /\ Len(unstepped') = n + 1
    BY <1>1, CloseIs
  <2> SUFFICES ASSUME ~late
               PROVE  \E f : Steps(f, saved', unstepped') /\ Matches(f[Len(unstepped')], backtest')
    BY <2>1 DEF Replays
  <2>2. PICK f : Steps(f, saved, unstepped) /\ Matches(f[n], backtest)
    BY DEF Replays
  <2>3. f[n] \in Books /\ backtest \in Books
    <3>1. f[n] \in Roomy
      BY <1>n, <2>2 DEF Steps
    <3> QED BY <3>1 DEF Roomy, PaperIInv, BookAt
  <2>4. Matches(Session(f[n], day), Session(backtest, day))
    BY <2>2, <2>3, SessionMatches
  <2>5. PICK g : /\ Steps(g, saved, Append(unstepped, day))
                 /\ g[n + 1] = Session(f[n], day)
    BY <1>n, <2>2, OneStepMore
  <2> QED BY <2>1, <2>4, <2>5
<1>2. ASSUME NEW missing \in SUBSET Names, Cron(missing) PROVE Replays'
  <2>1. unstepped' = <<>> /\ late' = (late \/ missing # {}) /\ backtest' = backtest
    BY <1>2 DEF Cron
  <2> SUFFICES ASSUME ~late, missing = {}
               PROVE  \E f : Steps(f, saved', unstepped') /\ Matches(f[Len(unstepped')], backtest')
    BY <2>1 DEF Replays
  <2>2. PICK f : \E day \in Sessions :
           /\ Steps(f, saved, AsSeen(unstepped, missing)) /\ day.date = closed /\ closed > 0
           /\ day = AsSeen(unstepped, missing)[n]
           /\ Len(AsSeen(unstepped, missing)) = n /\ n > 0
           /\ BookAt(f[n], closed) /\ BookAt(f[n - 1], closed - 1)
           /\ saved' = Refreshed(f[n], day)
    BY <1>2, CronIs
  <2>3. AsSeen(unstepped, missing) = unstepped
    <3>1. closed - n \in Nat /\ Follow(unstepped, closed - n)
      BY <1>n DEF PaperIInv
    <3> QED BY <2>2, <3>1, AsSeenFollow
  <2>4. PICK day \in Sessions :
           /\ Steps(f, saved, unstepped) /\ day.date = closed /\ closed > 0 /\ day = unstepped[n] /\ n > 0
           /\ BookAt(f[n], closed) /\ BookAt(f[n - 1], closed - 1)
           /\ saved' = Refreshed(f[n], day)
    BY <2>2, <2>3
  <2>5. PICK g : Steps(g, saved, unstepped) /\ Matches(g[n], backtest)
    BY DEF Replays
  <2>6. Matches(f[n], backtest)
    BY <1>n, <2>4, <2>5, StepsAreOne
  <2>7. f[n] = Session(f[n - 1], day)
    <3>1. n \in 1..n
      BY <1>n, <2>4
    <3> QED BY <2>4, <3>1 DEF Steps
  <2>8. closed - 1 \in Nat /\ (closed - 1) + 1 = closed
    BY <1>n, <2>4
  <2>9. \A m \in Held(f[n]) : m \in Quoted(day) =>
           f[n].held[m].mark = closed /\ (f[n].held[m].atFill => f[n].held[m].entry = closed)
    BY <2>4, <2>7, <2>8, MarkedToday
  <2>10. Matches(saved', backtest)
    BY <1>n, <2>4, <2>6, <2>9, RefreshedMatches
  <2>11. saved' \in Roomy
    <3>1. BookAt(Refreshed(f[n], day), closed)
      BY <1>n, <2>4, RefreshedFacts
    <3> QED BY <2>4, <3>1, AtIsRoomy
  <2>12. PICK h : Steps(h, saved', <<>>) /\ h[0] = saved'
    BY <2>11, NoStepsYet
  <2>13. Len(<<>>) = 0
    OBVIOUS
  <2> QED BY <2>1, <2>10, <2>12, <2>13
<1>3. CASE UNCHANGED paperVars
  <2>1. /\ closed' = closed /\ unstepped' = unstepped /\ saved' = saved /\ backtest' = backtest /\ late' = late
    BY <1>3 DEF paperVars
  <2> QED BY <2>1 DEF Replays
<1> QED BY <1>1, <1>2, <1>3 DEF PaperNext

LEMMA Replays_SameBook == PaperIInv /\ Replays => SameBook
<1> SUFFICES ASSUME PaperIInv, Replays, unstepped = <<>>, ~late
             PROVE  LET Plain(p) == <<p.entry, p.days, p.absent, p.mark>>
                        Deal(t) == <<t.name, t.entry, t.exit, t.why, t.price>>
                    IN /\ Held(saved) = Held(backtest) /\ saved.pending = backtest.pending
                       /\ \A n \in Held(saved) :
                            /\ Plain(saved.held[n]) = Plain(backtest.held[n])
                            /\ saved.held[n].atFill # backtest.held[n].atFill
                                 => backtest.held[n].mark = backtest.held[n].entry
                       /\ {Deal(t) : t \in saved.trades} = {Deal(t) : t \in backtest.trades}
                       /\ \A t \in saved.trades : t \in backtest.trades \/ t.price = t.entry
  BY DEF SameBook
<1>1. PICK f : Steps(f, saved, <<>>) /\ Matches(f[Len(<<>>)], backtest)
  BY DEF Replays
<1>2. f[Len(<<>>)] = saved
  <2>1. Len(<<>>) = 0
    OBVIOUS
  <2> QED BY <1>1, <2>1 DEF Steps
<1>3. Matches(saved, backtest)
  BY <1>1, <1>2
<1> QED BY <1>3 DEF Matches, AlikeHeld, AlikeTrades, AlikePosition, DealOf, Held

\* However the runs of the cron are spaced, the saved book is the backtest
\* once every session is stepped, unless a run came before a bar.
THEOREM SavedBookIsBacktest == PaperSpec => []SameBook
<1>1. PaperSpec => []PaperIInv
  BY PaperInit_IInv, PaperStep, PTL DEF PaperSpec
<1>2. PaperSpec => []Replays
  BY <1>1, PaperInit_Replays, ReplaysStep, PTL DEF PaperSpec
<1> QED BY <1>1, <1>2, Replays_SameBook, PTL
=============================================================================
