-------------------------- MODULE ReadersProofs --------------------------
(***************************************************************************)
(* Proofs about what readers are told: the action items and the judge,     *)
(* which read the same envelope.                                           *)
(***************************************************************************)
EXTENDS ActionItems, JudgeStream, OrderLemmas, FiniteSetTheorems, TLAPS

-----------------------------------------------------------------------------
(***************************************************************************)
(* The weekly book, the daily monitor and the action items (ActionItems,   *)
(* WeeklyBook), for every calendar, lookback and lag. An exit that waits   *)
(* was decided at the end of a week after which the name did not trade     *)
(* (ExitWaits), so no later week closes over it: a card that says sell is  *)
(* followed by the sale (Published). The rows of a run over the envelope   *)
(* that is still the last are those the run would find today               *)
(* (MonitorRead), because bars after its own last change nothing it looked *)
(* at.                                                                     *)
(***************************************************************************)

PositionRecord ==
  [entry : 0..LastDay, pending : {"none", "part", "full"}, part : BOOLEAN, absent : 0..(StaleAbsent - 1)]

\* A sale of trade sid was decided, at least of a part; of all that is left.
Selling(sid) ==
  \/ \E t \in record : t.entry = sid
  \/ book.entry = sid /\ (book.part \/ book.pending # "none")
SoldOut(sid) ==
  \/ \E t \in record : t.entry = sid
  \/ book.entry = sid /\ book.pending = "full"

\* An exit that waits was decided at the end of a week after which the name
\* did not trade.
ExitWaits ==
  book.pending # "none" => \E w \in WeekEnds : w <= latest /\ \A b \in bars : b <= w

\* A name is bought once in a session, and a trade is recorded once.
OneTradePerEntry ==
  /\ \A t, u \in record : t.entry = u.entry => t = u
  /\ \A t \in record : t.entry <= latest /\ t.entry # book.entry
  /\ book.entry <= latest

\* What is published is of the book, then or since.
Published ==
  /\ envelope.gen <= latest /\ (envelope.gen = 0 => envelope.closed = {})
  /\ envelope.exit # "none" => envelope.hold # None /\ Selling(envelope.hold)
  /\ envelope.exit = "full" => SoldOut(envelope.hold)

\* The rows of a run over the envelope that is still the last.
MonitorRead ==
  monitor.gen = envelope.gen /\ envelope.gen # 0 =>
    monitor.missed = Booked(monitor.day, monitor.bar) \union Issued(monitor.day, monitor.bar)

BookIInv ==
  /\ BookTypeOK /\ ExitWaits /\ OneTradePerEntry /\ Published
  /\ book.pending = "part" => book.part
ItemsIInv == BookIInv /\ ATypeOK /\ NoInventedMiss /\ MonitorRead

-----------------------------------------------------------------------------
(* The calendar. *)

\* The last bar is the latest there is.
LEMMA LastBarIs ==
  ASSUME BookTypeOK
  PROVE  /\ latest \in Nat /\ LastBar \in bars \union {0}
         /\ bars # {} => LastBar \in bars /\ \A b \in bars : b <= LastBar
<1>1. latest \in Nat /\ bars \subseteq 1..latest /\ bars \subseteq 0..latest
  BY CalendarAssumption DEF BookTypeOK
<1>2. CASE bars = {}
  BY <1>1, <1>2 DEF LastBar, None
<1>3. CASE bars # {}
  <2>1. PICK m \in bars : \A b \in bars : b <= m
    BY <1>1, <1>3, GreatestElement
  <2>2. \A x, y \in bars : x \in Int /\ y \in Int
    BY <1>1
  <2>3. Max(bars) \in bars /\ \A b \in bars : Max(bars) >= b
    BY <2>1, <2>2 DEF Max
  <2> QED BY <1>1, <1>3, <2>2, <2>3 DEF LastBar
<1> QED BY <1>2, <1>3

\* The scans are dated.
LEMMA ScanDates ==
  ASSUME NEW g \in WeekEnds \union {0}
  PROVE  g \in Int /\ g \in 0..LastDay
<1>1. CASE g = 0
  BY <1>1, CalendarAssumption
<1>2. CASE g \in WeekEnds
  <2>1. g \in 1..LastDay /\ LastDay \in Nat
    BY <1>2, CalendarAssumption
  <2> QED BY <2>1
<1> QED BY <1>1, <1>2

\* A week that has ended is not the week of a later day.
LEMMA WeeksDiffer ==
  ASSUME NEW w \in WeekEnds, NEW d \in Nat, NEW e \in Nat, d <= w, w < e
  PROVE  Week(d) # Week(e)
<1> DEFINE D == {x \in WeekEnds : x < d}
           F == {x \in WeekEnds : x < e}
<1>1. IsFiniteSet(WeekEnds)
  <2>1. IsFiniteSet(1..LastDay)
    BY CalendarAssumption, FS_Interval
  <2> QED BY <2>1, CalendarAssumption, FS_Subset
<1>2. IsFiniteSet(F)
  BY <1>1, FS_Subset
<1>3. WeekEnds \subseteq Nat
  BY CalendarAssumption
<1>4. D \subseteq F
  <2> SUFFICES ASSUME NEW x \in D PROVE x < e
    OBVIOUS
  <2>1. x \in Nat /\ x < d
    BY <1>3
  <2> QED BY <1>3, <2>1
<1>5. w \in F /\ w \notin D
  BY <1>3
<1>6. Cardinality(D) # Cardinality(F)
  <2> HIDE DEF D, F
  <2> QED BY <1>2, <1>4, <1>5, FS_Subset
<1> QED BY <1>6 DEF Week

-----------------------------------------------------------------------------
(* A session. *)

\* The open, or the absence.
LEMMA OpenOrAbsent ==
  ASSUME book \in PositionRecord, book.pending # "none" => Held(book), NEW traded \in BOOLEAN,
         NEW b, b = IF traded THEN AtOpen(book) ELSE Absent(book)
  PROVE  /\ b \in PositionRecord
         /\ b.pending # "none" => ~traded /\ b.pending = book.pending
         /\ \/ b.entry = 0 /\ b.pending = "none"
            \/ /\ b.entry = book.entry /\ b.part = book.part /\ Held(book)
               /\ traded => book.pending # "full"
               /\ ~traded => b.pending = book.pending
<1> USE StaleAssumption
<1>1. Flat \in PositionRecord /\ Flat.entry = 0 /\ Flat.pending = "none"
  BY CalendarAssumption DEF Flat, None, PositionRecord
<1>2. CASE traded /\ book.pending = "full"
  <2>1. b = Flat
    BY <1>2 DEF AtOpen
  <2> QED BY <1>1, <2>1
<1>3. CASE traded /\ book.pending # "full"
  <2>1. b = [book EXCEPT !.pending = "none", !.absent = 0]
    BY <1>3 DEF AtOpen
  <2>2. 0 \in 0..(StaleAbsent - 1)
    OBVIOUS
  <2>3. b = [entry |-> book.entry, pending |-> "none", part |-> book.part, absent |-> 0]
    BY <2>1 DEF PositionRecord
  <2>4. b \in PositionRecord /\ b.pending = "none" /\ b.entry = book.entry /\ b.part = book.part
    BY <2>2, <2>3 DEF PositionRecord
  <2> QED BY <1>3, <2>4 DEF Held, None
<1>4. CASE ~traded /\ (~Held(book) \/ book.absent + 1 = StaleAbsent)
  <2>1. (b = book /\ ~Held(book)) \/ b = Flat
    BY <1>4 DEF Absent
  <2>2. CASE b = book /\ ~Held(book)
    BY <2>2, <1>4 DEF Held, None
  <2> QED BY <1>1, <2>1, <2>2
<1>5. CASE ~traded /\ Held(book) /\ book.absent + 1 # StaleAbsent
  <2>1. b = [book EXCEPT !.absent = @ + 1]
    BY <1>5 DEF Absent
  <2>2. book.absent + 1 \in 0..(StaleAbsent - 1)
    BY <1>5 DEF PositionRecord
  <2>3. /\ b \in PositionRecord /\ b.pending = book.pending /\ b.entry = book.entry /\ b.part = book.part
    BY <2>1, <2>2 DEF PositionRecord
  <2> QED BY <1>5, <2>3
<1> QED BY <1>2, <1>3, <1>4, <1>5

\* What is decided at the close, if anything.
LEMMA Decided ==
  ASSUME NEW c \in PositionRecord, NEW d \in {"none", "part", "full"}, NEW e, e = Decide(c, d)
  PROVE  /\ e \in PositionRecord /\ e.entry = c.entry /\ e.pending = d
         /\ c.part => e.part
         /\ d = "part" => e.part
<1>1. e = [c EXCEPT !.pending = d, !.part = (c.part \/ d = "part")]
  BY DEF Decide, PositionRecord
<1>2. c.part \in BOOLEAN /\ (c.part \/ d = "part") \in BOOLEAN
  BY DEF PositionRecord
<1>3. e.part = (c.part \/ d = "part")
  BY <1>1 DEF PositionRecord
<1>4. e \in PositionRecord /\ e.entry = c.entry /\ e.pending = d
  BY <1>1, <1>2 DEF PositionRecord
<1>5. (c.part => e.part) /\ (d = "part" => e.part)
  BY <1>3, Zenon
<1> QED BY <1>4, <1>5

\* What a session makes of the book.
BookMoves(traded) ==
  \/ /\ Held(book) /\ book'.entry \in {0, latest'}
     /\ record' = record \union {[entry |-> book.entry, exit |-> latest']}
  \/ ~Held(book) /\ book'.entry \in {0, latest'} /\ record' = record
  \/ /\ Held(book) /\ book'.entry = book.entry /\ record' = record
     /\ book.part => book'.part
     /\ book.pending = "full" => book'.pending = "full"

LEMMA SessionBook ==
  ASSUME BookIInv, NEW traded \in BOOLEAN, Session(traded)
  PROVE  /\ latest' = latest + 1 /\ latest' \in 1..LastDay /\ envelope' = envelope
         /\ bars' = IF traded THEN bars \union {latest'} ELSE bars
         /\ book' \in PositionRecord /\ (book'.pending # "none" => Held(book)')
         /\ (book'.pending = "part" => book'.part)
         /\ signal' \in WeekEnds \union bars' \union {None} /\ resting' \in BOOLEAN
         /\ ExitWaits' /\ BookMoves(traded)
<1> DEFINE b == IF traded THEN AtOpen(book) ELSE Absent(book)
           bar == IF traded THEN latest' ELSE LastBar
           closing == ClosesWeek(latest', bar)
<1>1. /\ latest \in Nat /\ bars \subseteq 1..latest /\ book \in PositionRecord
      /\ (book.pending # "none" => Held(book)) /\ ExitWaits /\ (book.pending = "part" => book.part)
  BY CalendarAssumption DEF BookIInv, BookTypeOK, PositionRecord
<1>2. /\ latest' = latest + 1 /\ latest' \in 1..LastDay /\ envelope' = envelope
      /\ bars' = IF traded THEN bars \union {latest'} ELSE bars
  BY <1>1, CalendarAssumption DEF Session
<1>3. bar \in bars' \union {0} /\ bar \in Nat
      /\ (~traded => \A x \in bars : x <= bar)
  <2>1. LastBar \in bars \union {0} /\ (bars # {} => \A x \in bars : x <= LastBar)
    BY LastBarIs DEF BookIInv
  <2> QED BY <1>1, <1>2, <2>1
<1>4. b \in PositionRecord
  BY <1>1, OpenOrAbsent
<1>5. b.pending # "none" => ~traded /\ b.pending = book.pending
  BY <1>1, OpenOrAbsent
<1>6. \/ b.entry = 0 /\ b.pending = "none"
      \/ /\ b.entry = book.entry /\ b.part = book.part /\ Held(book)
         /\ traded => book.pending # "full"
         /\ ~traded => b.pending = book.pending
  BY <1>1, OpenOrAbsent
<1>7. PICK fills \in {f \in BOOLEAN : f => MayFill(b, traded)} :
        LET c == IF fills THEN [Flat EXCEPT !.entry = latest'] ELSE b
        IN  /\ \E d \in IF closing /\ Held(c) /\ c.entry # bar THEN Decisions(c) ELSE {c.pending} :
                 book' = Decide(c, d)
            /\ signal' \in Setups(closing, bar)
            /\ resting' = IF closing THEN signal' # None
                          ELSE resting /\ ~(traded /\ Held(c))
  BY DEF Session
<1> DEFINE c == IF fills THEN [Flat EXCEPT !.entry = latest'] ELSE b
<1>8. /\ signal' \in Setups(closing, bar)
      /\ resting' = IF closing THEN signal' # None ELSE resting /\ ~(traded /\ Held(c))
  BY <1>7
<1>9. PICK d \in (IF closing /\ Held(c) /\ c.entry # bar THEN Decisions(c) ELSE {c.pending}) : book' = Decide(c, d)
  BY <1>7
<1>10. record' = IF Held(book) /\ ~Held(b)
                 THEN record \union {[entry |-> book.entry, exit |-> latest']} ELSE record
  BY DEF Session
<1>11. fills => ~Held(b) /\ traded
  BY DEF MayFill
<1>12. closing => latest' \in WeekEnds /\ Week(bar) = Week(latest')
  BY DEF ClosesWeek
<1> HIDE DEF b, bar, closing
<1>13. /\ c \in PositionRecord /\ (c.pending # "none" => c = b /\ b.pending # "none")
       /\ IF fills THEN c.entry = latest' ELSE c = b
  <2>1. CASE fills
    <3>1. c = [Flat EXCEPT !.entry = latest']
      BY <2>1
    <3>2. 0 \in 0..(StaleAbsent - 1) /\ latest' \in 0..LastDay
      BY <1>2, CalendarAssumption, StaleAssumption
    <3>3. c = [entry |-> latest', pending |-> "none", part |-> FALSE, absent |-> 0]
      BY <3>1 DEF Flat
    <3> HIDE DEF c
    <3>4. c \in PositionRecord /\ c.pending = "none" /\ c.entry = latest'
      BY <3>2, <3>3 DEF PositionRecord
    <3> QED BY <2>1, <3>4
  <2>2. CASE ~fills
    BY <2>2, <1>4
  <2> QED BY <2>1, <2>2
<1> HIDE DEF c
\* A name that waits for its open has not traded since its week ended.
<1>14. ASSUME b.pending # "none" PROVE ~closing
  <2>1. ~traded /\ book.pending # "none" /\ bar = LastBar
    <3>1. ~traded /\ book.pending # "none"
      BY <1>5, <1>14
    <3> QED BY <3>1 DEF bar
  <2>2. PICK w \in WeekEnds : w <= latest /\ \A x \in bars : x <= w
    BY <1>1, <2>1 DEF ExitWaits
  <2>3. bar <= w /\ w < latest' /\ latest' \in Nat /\ w \in Nat
    <3>1. w \in Nat /\ w >= 0
      BY CalendarAssumption
    <3>2. bar = 0 \/ bar \in bars
      BY <1>2, <1>3, <2>1
    <3>3. bar <= w
      <4>1. CASE bar = 0
        BY <3>1, <4>1
      <4>2. CASE bar \in bars
        BY <2>2, <4>2
      <4> QED BY <3>2, <4>1, <4>2
    <3>4. w < latest' /\ latest' \in Nat
      BY <1>1, <1>2, <2>2, <3>1
    <3> QED BY <3>1, <3>3, <3>4
  <2>4. Week(bar) # Week(latest')
    BY <1>3, <2>3, WeeksDiffer
  <2> QED BY <1>12, <2>4
<1>15. d \in {"none", "part", "full"}
  <2>1. c.pending \in {"none", "part", "full"}
    BY <1>13 DEF PositionRecord
  <2> QED BY <2>1 DEF Decisions
<1>16. /\ book' \in PositionRecord /\ book'.entry = c.entry /\ book'.pending = d
       /\ c.part => book'.part
       /\ d = "part" => book'.part
  BY <1>9, <1>13, <1>15, Decided
<1>17. \/ closing /\ Held(c)
       \/ d = c.pending
  BY DEF Decisions
<1>18. ASSUME book'.pending # "none" PROVE Held(book)'
  <2>1. CASE Held(c)
    BY <1>16, <2>1 DEF Held
  <2>2. CASE ~Held(c)
    BY <1>6, <1>13, <1>16, <1>17, <1>18, <2>2 DEF Held, None
  <2> QED BY <2>1, <2>2
<1>19. signal' \in WeekEnds \union bars' \union {None} /\ resting' \in BOOLEAN
  <2>1. signal \in WeekEnds \union bars \union {None} /\ resting \in BOOLEAN
    BY DEF BookIInv, BookTypeOK
  <2>2. bars \subseteq bars'
    BY <1>2
  <2>3. signal' \in {None, bar, signal}
    BY <1>8 DEF Setups
  <2>4. signal' \in WeekEnds \union bars' \union {None}
    BY <1>3, <2>1, <2>2, <2>3 DEF None
  <2>5. resting' \in BOOLEAN
    BY <1>8, <2>1
  <2> QED BY <2>4, <2>5
<1>20. ExitWaits'
  <2> SUFFICES ASSUME book'.pending # "none"
               PROVE  \E w \in WeekEnds : w <= latest' /\ \A x \in bars' : x <= w
    BY DEF ExitWaits
  <2>1. CASE closing
    <3>1. \A x \in bars' : x <= latest'
      BY <1>1, <1>2
    <3>2. latest' <= latest'
      BY <1>1, <1>2
    <3> QED BY <1>12, <2>1, <3>1, <3>2
  <2>2. CASE ~closing
    <3>1. b.pending # "none"
      BY <1>13, <1>16, <1>17, <2>2
    <3>2. bars' = bars /\ book.pending # "none"
      BY <1>2, <1>5, <3>1
    <3>3. PICK w \in WeekEnds : w <= latest /\ \A x \in bars : x <= w
      BY <1>1, <3>2 DEF ExitWaits
    <3>4. w <= latest'
      <4>1. w \in Int
        BY CalendarAssumption
      <4> QED BY <1>1, <1>2, <3>3, <4>1
    <3> QED BY <3>2, <3>3, <3>4
  <2> QED BY <2>1, <2>2
<1>21. BookMoves(traded)
  <2>1. CASE ~Held(b)
    <3>1. book'.entry \in {0, latest'}
      BY <1>13, <1>16, <2>1 DEF Held, None
    <3>2. record' = IF Held(book) THEN record \union {[entry |-> book.entry, exit |-> latest']} ELSE record
      BY <1>10, <2>1
    <3>3. CASE Held(book)
      BY <3>1, <3>2, <3>3 DEF BookMoves
    <3>4. CASE ~Held(book)
      BY <3>1, <3>2, <3>4 DEF BookMoves
    <3> QED BY <3>3, <3>4
  <2>2. CASE Held(b)
    <3>1. Held(book) /\ b.entry = book.entry /\ b.part = book.part
      BY <1>6, <2>2 DEF Held, None
    <3>2. c = b /\ record' = record
      BY <1>10, <1>11, <1>13, <2>2
    <3>3. book'.entry = book.entry /\ (book.part => book'.part)
      BY <1>16, <3>1, <3>2
    <3>4. book.pending = "full" => book'.pending = "full"
      BY <1>6, <1>14, <1>16, <1>17, <2>2, <3>2 DEF Held, None
    <3> QED BY <3>1, <3>2, <3>3, <3>4 DEF BookMoves
  <2> QED BY <2>1, <2>2
<1> QED BY <1>2, <1>16, <1>18, <1>19, <1>20, <1>21

\* What is being sold is sold, or is still being sold, after the session.
LEMMA SalesStand ==
  ASSUME BookIInv, NEW traded \in BOOLEAN, BookMoves(traded), NEW sid, sid # 0
  PROVE  /\ Selling(sid) => Selling(sid)'
         /\ SoldOut(sid) => SoldOut(sid)'
<1>1. record \subseteq record'
  BY DEF BookMoves
<1>2. CASE \E t \in record : t.entry = sid
  BY <1>1, <1>2 DEF Selling, SoldOut
<1>3. CASE book.entry = sid /\ (book.part \/ book.pending # "none")
  <2>1. Held(book)
    BY <1>3 DEF Held, None
  <2>2. CASE record' = record \union {[entry |-> book.entry, exit |-> latest']}
    <3>1. [entry |-> book.entry, exit |-> latest'].entry = sid
      BY <1>3
    <3> QED BY <2>2, <3>1 DEF Selling, SoldOut
  <2>3. CASE /\ book'.entry = book.entry
             /\ book.part => book'.part
             /\ book.pending = "full" => book'.pending = "full"
    <3>1. book.pending \in {"none", "part", "full"} /\ (book.pending = "part" => book.part)
      BY DEF BookIInv, BookTypeOK
    <3> QED BY <1>1, <1>3, <2>3, <3>1 DEF Selling, SoldOut
  <2> QED BY <2>1, <2>2, <2>3 DEF BookMoves
<1> QED BY <1>2, <1>3 DEF Selling, SoldOut

LEMMA TradesStayOne ==
  ASSUME BookIInv, NEW traded \in BOOLEAN, BookMoves(traded), latest' = latest + 1, latest' \in 1..LastDay
  PROVE  OneTradePerEntry' /\ record' \subseteq [entry : 1..LastDay, exit : 1..LastDay]
<1> DEFINE n == [entry |-> book.entry, exit |-> latest']
<1>1. /\ latest \in Nat /\ record \subseteq [entry : 1..LastDay, exit : 1..LastDay]
      /\ book.entry \in 0..LastDay /\ OneTradePerEntry
  BY CalendarAssumption DEF BookIInv, BookTypeOK
<1>2. \A t \in record : t.entry \in 1..LastDay /\ t.entry <= latest /\ t.entry # book.entry
  BY <1>1 DEF OneTradePerEntry
<1>3. \A t, u \in record : t.entry = u.entry => t = u
  BY <1>1 DEF OneTradePerEntry
<1>4. book.entry <= latest /\ book.entry \in Int /\ LastDay \in Nat
  BY <1>1, CalendarAssumption DEF OneTradePerEntry
<1>5. book'.entry <= latest'
  BY <1>1, <1>4 DEF BookMoves
<1>6. n.entry = book.entry /\ n.exit = latest'
  OBVIOUS
<1> HIDE DEF n
<1>7. CASE Held(book) /\ book'.entry \in {0, latest'} /\ record' = record \union {n}
  <2>1. n \in [entry : 1..LastDay, exit : 1..LastDay]
    BY <1>1, <1>4, <1>7 DEF n, Held, None
  <2>2. \A t \in record' : t.entry \in 1..LastDay /\ t.entry <= latest
    BY <1>2, <1>4, <1>6, <1>7, <2>1
  <2>3. \A t \in record' : t.entry <= latest' /\ t.entry # book'.entry
    <3> SUFFICES ASSUME NEW t \in record' PROVE t.entry <= latest' /\ t.entry # book'.entry
      OBVIOUS
    <3>1. t.entry \in 1..LastDay /\ t.entry <= latest
      BY <2>2
    <3> QED BY <1>1, <1>7, <3>1
  <2>4. \A t, u \in record' : t.entry = u.entry => t = u
    BY <1>2, <1>3, <1>6, <1>7
  <2> QED BY <1>1, <1>5, <1>7, <2>1, <2>3, <2>4 DEF OneTradePerEntry
<1>8. CASE record' = record /\ book'.entry \in {book.entry, 0, latest'}
  <2>1. \A t \in record : t.entry <= latest' /\ t.entry # book'.entry
    <3> SUFFICES ASSUME NEW t \in record PROVE t.entry <= latest' /\ t.entry # book'.entry
      OBVIOUS
    <3>1. t.entry \in 1..LastDay /\ t.entry <= latest /\ t.entry # book.entry
      BY <1>2
    <3> QED BY <1>1, <1>8, <3>1
  <2> QED BY <1>1, <1>3, <1>5, <1>8, <2>1 DEF OneTradePerEntry
<1> QED BY <1>7, <1>8 DEF BookMoves, n

LEMMA SessionKeepsBook ==
  ASSUME BookIInv, NEW traded \in BOOLEAN, Session(traded)
  PROVE  BookIInv'
<1>1. /\ latest' = latest + 1 /\ latest' \in 1..LastDay /\ envelope' = envelope
      /\ bars' = IF traded THEN bars \union {latest'} ELSE bars
      /\ book' \in PositionRecord /\ (book'.pending # "none" => Held(book)')
      /\ (book'.pending = "part" => book'.part)
      /\ signal' \in WeekEnds \union bars' \union {None} /\ resting' \in BOOLEAN
      /\ ExitWaits' /\ BookMoves(traded)
  BY SessionBook
<1>2. /\ latest \in 0..LastDay /\ bars \subseteq 1..latest /\ LastDay \in Nat
      /\ envelope.gen \in WeekEnds \union {0}
      /\ envelope.buy \in 0..LastDay /\ envelope.hold \in 0..LastDay
      /\ envelope.exit \in {"none", "part", "full"} /\ envelope.closed \subseteq record
      /\ Published
  BY CalendarAssumption DEF BookIInv, BookTypeOK
<1>3. OneTradePerEntry' /\ record' \subseteq [entry : 1..LastDay, exit : 1..LastDay]
  BY <1>1, TradesStayOne
<1>4. bars' \subseteq 1..latest'
  <2>1. 1..latest \subseteq 1..latest' /\ latest' \in 1..latest'
    BY <1>1, <1>2
  <2> QED BY <1>1, <1>2, <2>1
<1>5. latest' \in 0..LastDay
  BY <1>1, <1>2
<1>6. envelope'.closed \subseteq record'
  BY <1>1, <1>2 DEF BookMoves
<1>7. BookTypeOK'
  BY <1>1, <1>2, <1>3, <1>4, <1>5, <1>6 DEF BookTypeOK, PositionRecord, Held, None
<1>8. Published'
  <2>1. envelope.gen <= latest'
    <3>1. envelope.gen \in Int
      BY <1>2, ScanDates
    <3>2. envelope.gen <= latest
      BY <1>2 DEF Published
    <3> QED BY <1>1, <1>2, <3>1, <3>2
  <2>2. ASSUME envelope.exit # "none"
        PROVE  /\ envelope.hold # None /\ Selling(envelope.hold)'
               /\ envelope.exit = "full" => SoldOut(envelope.hold)'
    <3> DEFINE sid == envelope.hold
    <3>1. sid # 0 /\ Selling(sid) /\ (envelope.exit = "full" => SoldOut(sid))
      BY <1>2, <2>2 DEF Published, None
    <3> HIDE DEF sid
    <3>2. \A s : s # 0 => (Selling(s) => Selling(s)') /\ (SoldOut(s) => SoldOut(s)')
      BY <1>1, SalesStand
    <3>3. \/ \E t \in record' : t.entry = sid
          \/ book'.entry = sid /\ (book'.part \/ book'.pending # "none")
      BY <3>1, <3>2 DEF Selling
    <3>4. envelope.exit = "full" =>
            \/ \E t \in record' : t.entry = sid
            \/ book'.entry = sid /\ book'.pending = "full"
      BY <3>1, <3>2 DEF SoldOut
    <3> QED BY <1>1, <3>1, <3>3, <3>4 DEF Selling, SoldOut, sid, None
  <2> QED BY <1>1, <1>2, <2>1, <2>2 DEF Published
<1> QED BY <1>1, <1>3, <1>7, <1>8 DEF BookIInv

LEMMA ScanKeepsBook ==
  ASSUME BookIInv, Scan
  PROVE  BookIInv' /\ envelope.gen < envelope'.gen
<1>1. /\ envelope' = [gen |-> latest, buy |-> BuyCard, hold |-> book.entry,
                      exit |-> book.pending, closed |-> record]
      /\ UNCHANGED market /\ latest \in WeekEnds /\ envelope.gen < latest
  BY DEF Scan, HoldCard, History, DataAdvanced
<1>2. /\ envelope'.gen = latest /\ envelope'.buy = BuyCard /\ envelope'.hold = book.entry
      /\ envelope'.exit = book.pending /\ envelope'.closed = record
  BY <1>1
<1>3. BookTypeOK /\ ExitWaits /\ OneTradePerEntry /\ Published /\ (book.pending = "part" => book.part)
  BY DEF BookIInv
<1>4. latest \in 1..LastDay /\ LastDay \in Nat
  BY <1>1, CalendarAssumption
<1>5. BuyCard \in 0..LastDay
  BY <1>3, <1>4, CalendarAssumption DEF BookTypeOK, BuyCard, None
<1>6. BookTypeOK'
  BY <1>1, <1>2, <1>3, <1>5 DEF BookTypeOK, market, Held
<1>7. ExitWaits' /\ OneTradePerEntry'
  BY <1>1, <1>3 DEF market, ExitWaits, OneTradePerEntry
<1>8. Published'
  <2>1. book.pending # "none" => book.entry # 0
    BY <1>3 DEF BookTypeOK, Held, None
  <2> QED BY <1>1, <1>2, <1>4, <2>1 DEF market, Published, Selling, SoldOut, None
<1> QED BY <1>1, <1>2, <1>3, <1>6, <1>7, <1>8 DEF BookIInv, market

LEMMA BookStays ==
  ASSUME BookIInv, UNCHANGED bookVars
  PROVE  BookIInv'
BY DEF BookIInv, bookVars, market, BookTypeOK, ExitWaits, OneTradePerEntry, Published,
       Selling, SoldOut, Held

-----------------------------------------------------------------------------
(* The monitor. *)

\* The numbers of a reachable state.
LEMMA Numbers ==
  ASSUME BookIInv, ATypeOK
  PROVE  /\ LastDay \in Nat /\ latest \in 0..LastDay /\ bars \subseteq 1..latest
         /\ envelope.gen \in 0..LastDay /\ monitor.gen \in 0..LastDay /\ monitor.gen <= envelope.gen
         /\ monitor.bar \in bars \union {0} /\ monitor.bar \in Int /\ monitor.day \in 0..latest
         /\ envelope.hold \in 0..LastDay
<1>1. LastDay \in Nat /\ envelope.gen \in WeekEnds \union {0} /\ WeekEnds \subseteq 1..LastDay
  BY CalendarAssumption DEF BookIInv, BookTypeOK
<1>2. envelope.gen \in 0..LastDay
  BY <1>1, ScanDates
<1>3. latest \in 0..LastDay /\ bars \subseteq 1..latest /\ envelope.hold \in 0..LastDay
  BY DEF BookIInv, BookTypeOK
<1>4. monitor.gen \in 0..envelope.gen /\ monitor.bar \in bars \union {0} /\ monitor.day \in 0..latest
  BY DEF ATypeOK, None
<1>5. monitor.gen \in 0..LastDay /\ monitor.gen <= envelope.gen
  <2>1. LastDay \in Int /\ envelope.gen \in Int /\ envelope.gen <= LastDay
    BY <1>1, <1>2
  <2>2. monitor.gen \in Int /\ 0 <= monitor.gen /\ monitor.gen <= envelope.gen
    BY <1>4, <2>1
  <2> QED BY <2>1, <2>2
<1>6. monitor.bar \in Int
  <2>1. CASE monitor.bar = 0
    BY <2>1
  <2>2. CASE monitor.bar \in bars
    <3>1. \A n \in 1..latest : n \in Int
      OBVIOUS
    <3> QED BY <1>3, <2>2, <3>1
  <2> QED BY <1>4, <2>1, <2>2
<1> QED BY <1>1, <1>2, <1>3, <1>4, <1>5, <1>6

\* What a run books and issues names a trade that is sold or being sold.
LEMMA MissesAreOfTheBook ==
  ASSUME BookIInv, NEW day, NEW bar \in bars \union {None}
  PROVE  /\ Booked(day, bar) \union Issued(day, bar) \subseteq
              [sid : 1..LastDay, due : bars \union 1..latest, source : {"booked", "issued"}]
         /\ \A r \in Booked(day, bar) \union Issued(day, bar) : Selling(r.sid)
<1>1. /\ latest \in 0..LastDay /\ bars \subseteq 1..latest /\ LastDay \in Nat
      /\ envelope.closed \subseteq record /\ record \subseteq [entry : 1..LastDay, exit : 1..LastDay]
      /\ envelope.hold \in 0..LastDay /\ Published
  BY CalendarAssumption DEF BookIInv, BookTypeOK
<1>2. ASSUME NEW r \in Booked(day, bar)
      PROVE  /\ r \in [sid : 1..LastDay, due : bars \union 1..latest, source : {"booked", "issued"}]
             /\ Selling(r.sid)
  <2>1. PICK t \in envelope.closed :
          Priceable(t.exit, bar) /\ r = [sid |-> t.entry, due |-> t.exit, source |-> "booked"]
    BY <1>2 DEF Booked, Recent
  <2>2. t \in record /\ t.entry \in 1..LastDay /\ t.exit \in 1..LastDay
    BY <1>1, <2>1
  <2>3. t.exit \in 1..latest
    <3>1. bar \in bars /\ bar >= t.exit
      BY <2>1 DEF Priceable
    <3> QED BY <1>1, <2>2, <3>1
  <2> QED BY <2>1, <2>2, <2>3 DEF Selling
<1>3. ASSUME NEW r \in Issued(day, bar)
      PROVE  /\ r \in [sid : 1..LastDay, due : bars \union 1..latest, source : {"booked", "issued"}]
             /\ Selling(r.sid)
  <2>1. PICK d \in DueOpen(envelope.gen, bar) :
          ExitCard /\ r = [sid |-> envelope.hold, due |-> d, source |-> "issued"]
    BY <1>3 DEF Issued
  <2>2. d \in bars
    BY DEF DueOpen
  <2>3. envelope.hold # 0 /\ Selling(envelope.hold)
    BY <1>1, <2>1 DEF ExitCard, Published, None
  <2> QED BY <1>1, <2>1, <2>2, <2>3
<1> QED BY <1>2, <1>3

\* A bar after the run's last changes nothing it looked at.
LEMMA LaterBar ==
  ASSUME BookIInv, NEW day, NEW bar \in bars \union {None}, envelope' = envelope,
         latest' = latest + 1, bars' \in {bars, bars \union {latest'}}
  PROVE  Booked(day, bar)' = Booked(day, bar) /\ Issued(day, bar)' = Issued(day, bar)
<1>1. /\ latest \in 0..LastDay /\ bars \subseteq 1..latest /\ LastDay \in Nat
      /\ envelope.gen \in Int
  <2>1. /\ latest \in 0..LastDay /\ bars \subseteq 1..latest /\ LastDay \in Nat
        /\ envelope.gen \in WeekEnds \union {0}
    BY CalendarAssumption DEF BookIInv, BookTypeOK
  <2> QED BY <2>1, ScanDates
<1>2. Booked(day, bar)' = Booked(day, bar)
  BY DEF Booked, Recent, Priceable
<1>3. bar \in Int /\ bar <= latest
  BY <1>1 DEF None
<1>4. \A d \in bars : d \in Int /\ d <= latest
  BY <1>1
<1>5. ASSUME NEW d PROVE d \in DueOpen(envelope.gen, bar)' <=> d \in DueOpen(envelope.gen, bar)
  <2> DEFINE when == envelope.gen
  <2>1. d \in bars' /\ d <= bar => d \in bars
    BY <1>1, <1>3
  <2>2. ASSUME d \in bars, d <= bar
        PROVE  (\E e \in bars' : when <= e /\ e < d) <=> (\E e \in bars : when <= e /\ e < d)
    <3>1. latest' \notin bars /\ ~(latest' < d)
      BY <1>1, <1>4, <2>2
    <3> QED BY <3>1
  <2>3. d \in DueOpen(when, bar) <=> d \in bars /\ when <= d /\ d <= bar /\ ~\E e \in bars : when <= e /\ e < d
    BY DEF DueOpen
  <2>4. d \in DueOpen(when, bar)' <=> d \in bars' /\ when <= d /\ d <= bar /\ ~\E e \in bars' : when <= e /\ e < d
    BY DEF DueOpen
  <2> HIDE DEF when
  <2>5. bars \subseteq bars'
    OBVIOUS
  <2>6. d \in DueOpen(when, bar)' <=> d \in DueOpen(when, bar)
    BY <2>1, <2>2, <2>3, <2>4, <2>5
  <2> QED BY <2>6 DEF when
<1>6. DueOpen(envelope.gen, bar)' = DueOpen(envelope.gen, bar)
  <2>1. \A d : d \in DueOpen(envelope.gen, bar)' <=> d \in DueOpen(envelope.gen, bar)
    BY <1>5
  <2>2. DueOpen(envelope.gen, bar) = {d \in bars : d \in DueOpen(envelope.gen, bar)}
    BY DEF DueOpen
  <2>3. DueOpen(envelope.gen, bar)' = {d \in bars' : d \in DueOpen(envelope.gen, bar)'}
    BY DEF DueOpen
  <2> QED BY <2>1, <2>2, <2>3
<1>7. Issued(day, bar)' = Issued(day, bar)
  BY <1>2, <1>6 DEF Issued, ExitCard
<1> QED BY <1>2, <1>7

\* A trade the monitor could price is among its rows.
PricedRow ==
  \A t \in envelope.closed :
    Priced(t) => [sid |-> t.entry, due |-> t.exit, source |-> "booked"]
                   \in Booked(monitor.day, monitor.bar) \intersect monitor.missed

LEMMA PricedIsBooked ==
  ASSUME ItemsIInv
  PROVE  PricedRow
<1> SUFFICES ASSUME NEW t \in envelope.closed, Priced(t)
             PROVE  [sid |-> t.entry, due |-> t.exit, source |-> "booked"]
                      \in Booked(monitor.day, monitor.bar) \intersect monitor.missed
  BY DEF PricedRow
<1>1. /\ LastDay \in Nat /\ latest \in 0..LastDay /\ bars \subseteq 1..latest
      /\ monitor.bar \in Int /\ monitor.day \in 0..latest
  BY Numbers DEF ItemsIInv
<1>2. t.exit \in 1..LastDay
  BY DEF ItemsIInv, BookIInv, BookTypeOK
<1>3. t.exit >= monitor.day - Lookback /\ monitor.bar >= t.exit
  BY <1>1, <1>2, LookbackAssumption DEF Priced
<1>4. t \in Recent(monitor.day)
  BY <1>3 DEF Recent
<1>5. Priceable(t.exit, monitor.bar)
  BY <1>1, <1>2, <1>3 DEF Priceable, None
<1>6. [sid |-> t.entry, due |-> t.exit, source |-> "booked"] \in Booked(monitor.day, monitor.bar)
  BY <1>4, <1>5 DEF Booked
<1>7. envelope.gen # 0 /\ monitor.gen = envelope.gen
  BY DEF ItemsIInv, BookIInv, Published, Priced
<1>8. monitor.missed = Booked(monitor.day, monitor.bar) \union Issued(monitor.day, monitor.bar)
  BY <1>7 DEF ItemsIInv, MonitorRead
<1> QED BY <1>6, <1>8

-----------------------------------------------------------------------------
(* The theorems. *)

LEMMA ItemsStart == ItemsInit => ItemsIInv
<1> SUFFICES ASSUME ItemsInit PROVE ItemsIInv
  OBVIOUS
<1>1. /\ latest = 0 /\ bars = {} /\ book = Flat /\ signal = None /\ resting = FALSE /\ record = {}
      /\ envelope = [gen |-> 0, buy |-> None, hold |-> None, exit |-> "none", closed |-> {}]
      /\ monitor = [gen |-> 0, day |-> 0, bar |-> None, missed |-> {}] /\ held = {}
  BY DEF ItemsInit, BookInit
<1>2. 0 \in 0..LastDay /\ 0 \in 0..(StaleAbsent - 1)
  BY CalendarAssumption, StaleAssumption
<1>3. book = [entry |-> 0, pending |-> "none", part |-> FALSE, absent |-> 0]
  BY <1>1 DEF Flat, None
<1>4. BookTypeOK
  <2>1. book \in PositionRecord /\ book.pending = "none"
    BY <1>2, <1>3 DEF PositionRecord
  <2>2. /\ envelope.gen = 0 /\ envelope.buy = 0 /\ envelope.hold = 0 /\ envelope.exit = "none"
        /\ envelope.closed = {}
    BY <1>1 DEF None
  <2> QED BY <1>1, <1>2, <2>1, <2>2 DEF BookTypeOK, PositionRecord, None
<1>5. BookIInv
  BY <1>1, <1>3, <1>4 DEF BookIInv, ExitWaits, OneTradePerEntry, Published, None
<1>6. ATypeOK
  BY <1>1, <1>4 DEF ATypeOK, None
<1> QED BY <1>1, <1>5, <1>6 DEF ItemsIInv, NoInventedMiss, MonitorRead

LEMMA NoInvention ==
  NoInventedMiss <=> \A r \in monitor.missed : Selling(r.sid)
BY DEF NoInventedMiss, Selling

LEMMA ItemsStep == ItemsIInv /\ [ItemsNext]_itemsVars => ItemsIInv'
<1> SUFFICES ASSUME ItemsIInv, [ItemsNext]_itemsVars PROVE ItemsIInv'
  OBVIOUS
<1>n. /\ LastDay \in Nat /\ latest \in 0..LastDay /\ bars \subseteq 1..latest
      /\ envelope.gen \in 0..LastDay /\ monitor.gen \in 0..LastDay /\ monitor.gen <= envelope.gen
      /\ monitor.bar \in bars \union {0} /\ monitor.bar \in Int /\ monitor.day \in 0..latest
      /\ envelope.hold \in 0..LastDay
  BY Numbers DEF ItemsIInv
<1>i. BookIInv /\ ATypeOK /\ NoInventedMiss /\ MonitorRead
  BY DEF ItemsIInv
<1>a. /\ held \subseteq 1..LastDay
      /\ monitor.gen \in 0..envelope.gen /\ monitor.day \in 0..latest
      /\ monitor.bar \in bars \union {None}
      /\ monitor.missed \subseteq [sid : 1..LastDay, due : bars \union 1..latest, source : {"booked", "issued"}]
  BY DEF ItemsIInv, ATypeOK
<1>s. \A r \in monitor.missed : Selling(r.sid) /\ r.sid \in 1..LastDay /\ r.sid # 0
  BY <1>a, <1>i, NoInvention
<1>1. CASE Scan /\ UNCHANGED <<monitor, held>>
  <2>1. BookIInv' /\ envelope.gen < envelope'.gen
    BY <1>1, <1>i, ScanKeepsBook
  <2>2. /\ UNCHANGED market /\ envelope'.gen = latest
    BY <1>1 DEF Scan
  <2>3. monitor.gen \in 0..latest /\ monitor.gen # latest
    BY <1>n, <2>1, <2>2
  <2>4. ATypeOK'
    BY <1>1, <1>a, <2>1, <2>2, <2>3 DEF ATypeOK, market, BookIInv
  <2>5. NoInventedMiss'
    BY <1>1, <1>i, <2>2 DEF NoInventedMiss, market
  <2>6. MonitorRead'
    BY <1>1, <2>2, <2>3 DEF MonitorRead
  <2> QED BY <2>1, <2>4, <2>5, <2>6 DEF ItemsIInv
<1>2. ASSUME NEW traded \in BOOLEAN, Session(traded), UNCHANGED <<monitor, held>>
      PROVE  ItemsIInv'
  <2>1. BookIInv'
    BY <1>2, <1>i, SessionKeepsBook
  <2>2. /\ latest' = latest + 1 /\ latest' \in 1..LastDay /\ envelope' = envelope
        /\ bars' \in {bars, bars \union {latest'}} /\ BookMoves(traded)
    BY <1>2, <1>i, SessionBook
  <2>3. 1..latest \subseteq 1..latest' /\ 0..latest \subseteq 0..latest' /\ bars \subseteq bars'
    BY <1>n, <2>2
  <2>4. ATypeOK'
    <3>1. monitor.missed \subseteq [sid : 1..LastDay, due : bars' \union 1..latest', source : {"booked", "issued"}]
      BY <1>a, <2>3
    <3> QED BY <1>2, <1>a, <2>1, <2>2, <2>3, <3>1 DEF ATypeOK, BookIInv
  <2>5. NoInventedMiss'
    <3>1. \A s : s # 0 /\ Selling(s) => Selling(s)'
      BY <1>2, <1>i, <2>2, SalesStand
    <3>2. \A r \in monitor.missed :
            \/ \E t \in record' : t.entry = r.sid
            \/ book'.entry = r.sid /\ (book'.part \/ book'.pending # "none")
      BY <1>s, <3>1 DEF Selling
    <3> QED BY <1>2, <3>2 DEF NoInventedMiss
  <2>6. MonitorRead'
    <3>1. PICK d, b : d = monitor.day /\ b = monitor.bar
      OBVIOUS
    <3>2. Booked(d, b)' = Booked(d, b) /\ Issued(d, b)' = Issued(d, b)
      BY <1>a, <1>i, <2>2, <3>1, LaterBar
    <3>3. /\ Booked(monitor.day, monitor.bar) = Booked(d, b)
          /\ Issued(monitor.day, monitor.bar) = Issued(d, b)
      BY <3>1
    <3>4. /\ Booked(monitor.day, monitor.bar)' = Booked(d, b)'
          /\ Issued(monitor.day, monitor.bar)' = Issued(d, b)'
      BY <1>2, <3>1 DEF Booked, Issued, Recent, Priceable, ExitCard, DueOpen
    <3> QED BY <1>2, <1>i, <2>2, <3>2, <3>3, <3>4 DEF MonitorRead
  <2> QED BY <2>1, <2>4, <2>5, <2>6 DEF ItemsIInv
<1>3. ASSUME NEW day \in 0..LastDay, NEW bar \in 0..LastDay, RunMonitor(day, bar)
      PROVE  ItemsIInv'
  <2>1. /\ bar \in bars \union {None} /\ day \in (latest - Lag)..latest
        /\ UNCHANGED <<bookVars, held>>
        /\ monitor' = [gen |-> envelope.gen, day |-> day, bar |-> bar,
                       missed |-> Booked(day, bar) \union Issued(day, bar)]
    BY <1>3 DEF RunMonitor
  <2>2. BookIInv'
    BY <1>i, <2>1, BookStays
  <2>3. /\ monitor'.gen = envelope.gen /\ monitor'.day = day /\ monitor'.bar = bar
        /\ monitor'.missed = Booked(day, bar) \union Issued(day, bar)
    BY <2>1
  <2>4. day \in 0..latest /\ envelope.gen \in 0..envelope.gen
    BY <1>n, <2>1, LookbackAssumption
  <2>5. /\ monitor'.missed \subseteq [sid : 1..LastDay, due : bars \union 1..latest, source : {"booked", "issued"}]
        /\ \A r \in monitor'.missed : Selling(r.sid)
    BY <1>i, <2>1, <2>3, MissesAreOfTheBook
  <2>6. ATypeOK'
    BY <1>a, <2>1, <2>2, <2>3, <2>4, <2>5 DEF ATypeOK, bookVars, market, BookIInv
  <2>7. NoInventedMiss'
    BY <2>1, <2>5 DEF NoInventedMiss, Selling, bookVars, market
  <2>8. MonitorRead'
    BY <2>1, <2>3 DEF MonitorRead, bookVars, market, Booked, Recent, Priceable, Issued, ExitCard, DueOpen
  <2> QED BY <2>2, <2>6, <2>7, <2>8 DEF ItemsIInv
<1>4. CASE UNCHANGED <<bookVars, monitor>> /\ held' \subseteq 1..LastDay
  <2>1. BookIInv'
    BY <1>4, <1>i, BookStays
  <2>2. ATypeOK'
    BY <1>4, <1>a, <2>1 DEF ATypeOK, bookVars, market, BookIInv
  <2>3. NoInventedMiss'
    BY <1>4, <1>i DEF NoInventedMiss, bookVars, market
  <2>4. MonitorRead'
    BY <1>4, <1>i DEF MonitorRead, bookVars, market, Booked, Recent, Priceable, Issued, ExitCard, DueOpen
  <2> QED BY <2>1, <2>2, <2>3, <2>4 DEF ItemsIInv
<1>5. ASSUME NEW sid \in 1..LastDay, MarkBought(sid) \/ MarkSold(sid)
      PROVE  ItemsIInv'
  BY <1>4, <1>5, <1>a DEF MarkBought, MarkSold
<1>6. CASE UNCHANGED itemsVars
  BY <1>4, <1>6, <1>a DEF itemsVars
<1> QED BY <1>1, <1>2, <1>3, <1>5, <1>6 DEF ItemsNext

\* The book, its envelope and the last run agree throughout.
THEOREM ItemsInvariant == ItemsSpec => []ItemsIInv
<1>1. ItemsInit => ItemsIInv
  BY ItemsStart
<1>2. ItemsIInv /\ [ItemsNext]_itemsVars => ItemsIInv'
  BY ItemsStep
<1> QED BY <1>1, <1>2, PTL DEF ItemsSpec

LEMMA ExitsAreQuoted == ItemsIInv => ItemsInv
<1> SUFFICES ASSUME ItemsIInv PROVE ItemsInv
  OBVIOUS
<1>1. ATypeOK /\ NoInventedMiss /\ MonitorRead /\ BookIInv /\ PricedRow
  BY PricedIsBooked DEF ItemsIInv
<1>2. ASSUME NEW t \in envelope.closed, Priced(t), t.entry \in held
      PROVE  {r.due : r \in Missed(t.entry)} = {t.exit}
  <2> DEFINE sid == t.entry
             row == [sid |-> t.entry, due |-> t.exit, source |-> "booked"]
  <2>1. row \in Booked(monitor.day, monitor.bar) /\ row \in monitor.missed
    BY <1>1, <1>2 DEF PricedRow
  <2>2. row.sid = sid /\ row.due = t.exit
    OBVIOUS
  <2>3. monitor.missed = Booked(monitor.day, monitor.bar) \union Issued(monitor.day, monitor.bar)
    BY <1>1, <1>2 DEF MonitorRead, BookIInv, Published, Priced
  <2>4. ASSUME NEW r \in Booked(monitor.day, monitor.bar), r.sid = sid PROVE r.due = t.exit
    <3>1. PICK u \in envelope.closed : r = [sid |-> u.entry, due |-> u.exit, source |-> "booked"]
      BY <2>4 DEF Booked, Recent
    <3>2. u \in record /\ t \in record /\ u.entry = t.entry
      BY <1>1, <2>4, <3>1 DEF BookIInv, BookTypeOK
    <3> QED BY <1>1, <3>1, <3>2 DEF BookIInv, OneTradePerEntry
  <2>5. ASSUME NEW r \in Issued(monitor.day, monitor.bar) PROVE r.sid # sid
    <3>1. r.sid = envelope.hold /\ envelope.hold \notin {q.sid : q \in Booked(monitor.day, monitor.bar)}
      BY <2>5 DEF Issued
    <3> QED BY <2>1, <2>2, <3>1
  <2> HIDE DEF row
  <2>6. row \in OfSignal(sid)
    BY <2>1, <2>2 DEF OfSignal
  <2>7. \A r \in OfSignal(sid) : r.due = t.exit
    BY <2>3, <2>4, <2>5 DEF OfSignal
  <2>8. Missed(sid) = OfSignal(sid)
    BY <2>6 DEF Missed
  <2> QED BY <2>2, <2>6, <2>7, <2>8
<1> QED BY <1>1, <1>2 DEF ItemsInv, OwnExitQuoted

\* A reader is told of exits that were issued, and of the one that closes the
\* entry the reader's shares came from (services/reconciliation.py).
THEOREM ItemsAreSound == ItemsSpec => []ItemsInv
<1>1. ItemsIInv => ItemsInv
  BY ExitsAreQuoted
<1> QED BY <1>1, ItemsInvariant, PTL

LEMMA SomeRowIsTold ==
  ASSUME ItemsIInv, monitor.missed # {}, NEW sid
  PROVE  Missed(sid) # {}
<1>1. LastDay \in Nat /\ latest \in 0..LastDay /\ bars \subseteq 1..latest
  BY Numbers DEF ItemsIInv
<1>2. monitor.missed \subseteq [sid : 1..LastDay, due : bars \union 1..latest, source : {"booked", "issued"}]
  BY DEF ItemsIInv, ATypeOK
<1> DEFINE dues == {r.due : r \in monitor.missed}
<1>3. dues \subseteq 0..latest
  <2>1. \A n \in 1..latest : n \in 0..latest
    BY <1>1
  <2>2. \A r \in monitor.missed : r.due \in 1..latest
    BY <1>1, <1>2
  <2> QED BY <2>1, <2>2
<1>4. dues # {} /\ latest \in Nat
  BY <1>1
<1> HIDE DEF dues
<1>5. PICK m \in dues : \A k \in dues : k <= m
  BY <1>3, <1>4, GreatestElement
<1>6. OfTicker # {}
  BY <1>5 DEF OfTicker, dues
<1> QED BY <1>6 DEF Missed

\* reconciliation.py:59: whichever of the position's two signal ids the shares
\* were recorded under, a booked exit the monitor could price is told.
THEOREM ExitsAreTold == ItemsSpec => []MissIsTold
<1>1. ItemsIInv => MissIsTold
  <2> SUFFICES ASSUME ItemsIInv, NEW t \in envelope.closed, Priced(t), NEW sid \in held
               PROVE  Missed(sid) # {}
    BY DEF MissIsTold
  <2>1. monitor.missed # {}
    BY PricedIsBooked DEF PricedRow
  <2> QED BY <2>1, SomeRowIsTold
<1> QED BY <1>1, ItemsInvariant, PTL

\* A published whole sale stays published.
LEMMA OwedStays ==
  ASSUME ItemsIInv, [ItemsNext]_itemsVars, NEW sid, sid # 0, Owed(sid)
  PROVE  Owed(sid)'
<1>1. CASE Scan
  <2>1. /\ envelope' = [gen |-> latest, buy |-> BuyCard, hold |-> book.entry,
                        exit |-> book.pending, closed |-> record]
    BY <1>1 DEF Scan, HoldCard, History
  <2>2. envelope'.hold = book.entry /\ envelope'.exit = book.pending /\ envelope'.closed = record
    BY <2>1
  <2>3. SoldOut(sid)
    BY DEF Owed, ItemsIInv, BookIInv, BookTypeOK, Published, SoldOut
  <2> QED BY <2>2, <2>3 DEF SoldOut, Owed
<1>2. CASE envelope' = envelope
  BY <1>2 DEF Owed
<1> QED BY <1>1, <1>2
        DEF ItemsNext, itemsVars, bookVars, Session, RunMonitor, MarkBought, MarkSold

\* reconciliation.py:25, "missed actions stay open": a published whole sale
\* stays owed, and a reader told of it is told by every later run that could
\* price it.
THEOREM MissesStayTold == ItemsSpec => StaysTold
<1>1. ItemsIInv /\ PricedRow' /\ [ItemsNext]_itemsVars =>
        [\A sid \in held \intersect held' :
           Owed(sid) =>
             /\ Owed(sid)'
             /\ OfSignal(sid) # {} /\ (monitor' = monitor \/ Sighted(sid)') => Told(sid)']_itemsVars
  <2> SUFFICES ASSUME ItemsIInv, PricedRow', [ItemsNext]_itemsVars,
                      NEW sid \in held \intersect held', Owed(sid)
               PROVE  /\ Owed(sid)'
                      /\ OfSignal(sid) # {} /\ (monitor' = monitor \/ Sighted(sid)') => Told(sid)'
    OBVIOUS
  <2>1. sid # 0
    BY DEF ItemsIInv, ATypeOK
  <2>2. Owed(sid)'
    BY <2>1, OwedStays
  <2>3. ASSUME OfSignal(sid) # {}, monitor' = monitor
        PROVE  Told(sid)'
    BY <2>3 DEF Told, Missed, OfSignal
  <2>4. ASSUME Sighted(sid)'
        PROVE  Told(sid)'
    <3>1. CASE \E t \in envelope'.closed : t.entry = sid
      <4>1. PICK t \in envelope'.closed : t.entry = sid
        BY <3>1
      <4>2. Priced(t)'
        BY <2>4, <4>1 DEF Sighted
      <4>3. [sid |-> sid, due |-> t.exit, source |-> "booked"] \in monitor'.missed
        BY <4>1, <4>2 DEF PricedRow
      <4>4. OfSignal(sid)' # {}
        BY <4>3 DEF OfSignal
      <4> QED BY <4>4 DEF Told, Missed
    <3>2. CASE envelope'.hold = sid /\ envelope'.exit = "full"
      BY <3>2 DEF Told, StaleHold
    <3> QED BY <2>2, <3>1, <3>2 DEF Owed
  <2> QED BY <2>2, <2>3, <2>4
<1>2. ItemsIInv => PricedRow
  BY PricedIsBooked
<1> QED BY <1>1, <1>2, ItemsInvariant, PTL DEF ItemsSpec, StaysTold

-----------------------------------------------------------------------------
(***************************************************************************)
(* The judge's log and its cron (JudgeStream), for any tickers and any     *)
(* number of scans and calls. A run asks only about cards whose keys no    *)
(* row has, one card to a key, and no other run publishes until it ends;   *)
(* so its rows are new when they are published, and when they are lost     *)
(* every call behind them is.                                              *)
(***************************************************************************)

\* What the run in progress may rely on.
OneCardEach ==
  /\ \A c, d \in offered.cards : c.ticker = d.ticker => c = d
  /\ \A c, d \in job.todo : c.ticker = d.ticker => c = d
TodoIsNew == \A c \in job.todo : KeyOf(job.asOf, c) \notin Keys(AllRows)
NewIsNew == Keys(judged) \intersect Keys(job.new) = {}
ClosedIsEmpty == ~job.open => job.todo = {} /\ job.new = {}

JudgeIInv == JudgeInv /\ OneCardEach /\ TodoIsNew /\ NewIsNew /\ ClosedIsEmpty

-----------------------------------------------------------------------------
(* Keys of rows. *)

\* A row adds its key.
LEMMA KeysOfMore ==
  ASSUME NEW rows, NEW row
  PROVE  Keys(rows \union {row}) = Keys(rows) \union {row.key}
BY DEF Keys

\* A row adds its key to those asked about unless its card had no chart.
LEMMA AskedOfMore ==
  ASSUME NEW rows, NEW row
  PROVE  AskedFor(rows \union {row})
           = AskedFor(rows) \union (IF row.result # "no chart" THEN {row.key} ELSE {})
<1>1. CASE row.result # "no chart"
  <2>1. {r \in rows \union {row} : r.result # "no chart"}
          = {r \in rows : r.result # "no chart"} \union {row}
    BY <1>1
  <2> QED BY <1>1, <2>1 DEF AskedFor, Keys
<1>2. CASE row.result = "no chart"
  <2>1. {r \in rows \union {row} : r.result # "no chart"} = {r \in rows : r.result # "no chart"}
    BY <1>2
  <2> QED BY <1>2, <2>1 DEF AskedFor
<1> QED BY <1>1, <1>2

\* Two sets of rows are asked about the keys of each.
LEMMA AskedOfBoth ==
  ASSUME NEW a, NEW b
  PROVE  AskedFor(a \union b) = AskedFor(a) \union AskedFor(b)
BY DEF AskedFor, Keys

\* Only a key with a row is asked about on record.
LEMMA AskedHaveRows == ASSUME NEW rows PROVE AskedFor(rows) \subseteq Keys(rows)
BY DEF AskedFor, Keys

\* A card of an envelope has a key.
LEMMA KeyOfCard ==
  ASSUME NEW asOf \in Slots, NEW c \in IssuedCard
  PROVE  KeyOf(asOf, c) \in Key
BY DEF IssuedCard, Key, KeyOf

\* One more is counted for a key, and nothing else changes.
LEMMA MoreCounted ==
  ASSUME NEW f \in [Key -> Nat], NEW key \in Key
  PROVE  /\ [f EXCEPT ![key] = f[key] + 1] \in [Key -> Nat]
         /\ \A k \in Key : [f EXCEPT ![key] = f[key] + 1][k] = IF k = key THEN f[k] + 1 ELSE f[k]
OBVIOUS

-----------------------------------------------------------------------------
LEMMA JudgeInitInv == JudgeInit => JudgeIInv
<1> SUFFICES ASSUME JudgeInit PROVE JudgeIInv
  OBVIOUS
<1> USE JudgeAssumption
<1>1. AllRows = {} /\ Keys(AllRows) = {} /\ AskedFor(AllRows) = {} /\ Keys(judged) = {}
  BY DEF JudgeInit, NoJob, AllRows, Keys, AskedFor
<1>2. job.todo = {} /\ job.new = {} /\ job.open = FALSE /\ job.asOf = 0
  BY DEF JudgeInit, NoJob
<1>3. JudgeTypeOK
  <2>1. slot \in Slots /\ 0 \in 0..slot /\ 0 \in 0..LastSlot
    BY DEF JudgeInit, Slots
  <2>2. job \in [open : BOOLEAN, asOf : 0..LastSlot, todo : SUBSET IssuedCard, new : SUBSET JudgeRow]
    BY <2>1 DEF JudgeInit, NoJob
  <2>3. asked \in [Key -> Nat] /\ wasted \in [Key -> Nat]
    BY DEF JudgeInit
  <2> QED BY <1>2, <2>1, <2>2, <2>3 DEF JudgeInit, JudgeTypeOK
<1>4. EveryCallAccounted
  BY <1>1 DEF JudgeInit, EveryCallAccounted
<1> QED BY <1>1, <1>2, <1>3, <1>4
     DEF JudgeInit, JudgeIInv, JudgeInv, OneRowPerKey, OneCardEach, TodoIsNew, NewIsNew, ClosedIsEmpty

\* A step that leaves the rows, the run and the counts alone.
LEMMA Undisturbed ==
  ASSUME JudgeIInv, JudgeTypeOK', UNCHANGED <<judged, job, asked, wasted>>,
         \A c, d \in offered'.cards : c.ticker = d.ticker => c = d
  PROVE  JudgeIInv'
<1>1. AllRows' = AllRows /\ AskedFor(AllRows)' = AskedFor(AllRows) /\ Keys(AllRows)' = Keys(AllRows)
  BY DEF AllRows, AskedFor, Keys
<1>2. OneRowPerKey' /\ EveryCallAccounted'
  BY <1>1 DEF JudgeIInv, JudgeInv, OneRowPerKey, EveryCallAccounted
<1>3. TodoIsNew' /\ NewIsNew' /\ ClosedIsEmpty'
  BY <1>1 DEF JudgeIInv, TodoIsNew, NewIsNew, ClosedIsEmpty, Keys, KeyOf
<1> QED BY <1>2, <1>3 DEF JudgeIInv, JudgeInv, OneCardEach

LEMMA PublishStep == ASSUME JudgeIInv, NEW cards \in Envelopes, Publish(cards) PROVE JudgeIInv'
<1> USE JudgeAssumption
<1>1. cards \in SUBSET IssuedCard /\ \A c, d \in cards : c.ticker = d.ticker => c = d
  BY DEF Envelopes, JudgeIInv, JudgeInv, JudgeTypeOK, IssuedCard
<1>2. JudgeTypeOK'
  BY <1>1 DEF Publish, JudgeIInv, JudgeInv, JudgeTypeOK, Slots
<1> QED BY <1>1, <1>2, Undisturbed DEF Publish

LEMMA QuietStep == ASSUME JudgeIInv, Trigger \/ NextSlot \/ Skip PROVE JudgeIInv'
<1> USE JudgeAssumption
<1>1. slot' \in Slots /\ slot' >= slot /\ queued' \in BOOLEAN
  <2>1. slot \in Slots /\ queued \in BOOLEAN
    BY DEF JudgeIInv, JudgeInv, JudgeTypeOK
  <2>2. CASE NextSlot
    BY <2>1, <2>2 DEF NextSlot, Slots
  <2>3. CASE Trigger \/ Skip
    <3>1. slot' = slot /\ queued' \in BOOLEAN
      BY <2>3, Zenon DEF Trigger, Skip
    <3> QED BY <3>1, <2>1 DEF Slots
  <2> QED BY <2>2, <2>3
<1>2. UNCHANGED <<offered, judged, job, asked, wasted>>
  BY DEF Trigger, NextSlot, Skip
<1>3. offered.asOf \in 0..slot'
  BY <1>1 DEF JudgeIInv, JudgeInv, JudgeTypeOK, Slots
<1>4. JudgeTypeOK'
  BY <1>1, <1>2, <1>3 DEF JudgeIInv, JudgeInv, JudgeTypeOK
<1> QED BY <1>2, <1>4, Undisturbed DEF Trigger, NextSlot, Skip, JudgeIInv, OneCardEach

LEMMA StartStep == ASSUME JudgeIInv, Start PROVE JudgeIInv'
<1> USE JudgeAssumption
<1>1. job.todo = {} /\ job.new = {}
  BY DEF Start, JudgeIInv, ClosedIsEmpty
<1>2. /\ job'.todo = Todo(offered, judged) /\ job'.new = {} /\ job'.open = TRUE
      /\ job'.asOf = offered.asOf
  BY DEF Start
<1>3. AllRows' = AllRows /\ AllRows = judged
  BY <1>1, <1>2 DEF AllRows, Start
<1>4. AskedFor(AllRows)' = AskedFor(AllRows) /\ Keys(AllRows)' = Keys(AllRows)
  BY <1>3 DEF AskedFor, Keys
<1>5. JudgeTypeOK'
  <2>1. job'.todo \in SUBSET IssuedCard
    BY <1>2 DEF Todo, JudgeIInv, JudgeInv, JudgeTypeOK
  <2>2. offered.asOf \in Slots
    <3>1. offered.cards # {}
      BY DEF Start, Todo
    <3> QED BY <3>1 DEF JudgeIInv, JudgeInv, JudgeTypeOK, Slots
  <2>3. job' \in [open : BOOLEAN, asOf : 0..LastSlot, todo : SUBSET IssuedCard, new : SUBSET JudgeRow]
    BY <2>1, <2>2, <1>2 DEF Start, Slots
  <2> QED BY <2>2, <2>3, <1>2 DEF Start, JudgeIInv, JudgeInv, JudgeTypeOK
<1>6. OneRowPerKey' /\ EveryCallAccounted'
  BY <1>3, <1>4 DEF Start, JudgeIInv, JudgeInv, OneRowPerKey, EveryCallAccounted
<1>7. OneCardEach'
  BY <1>2 DEF Start, Todo, JudgeIInv, OneCardEach
<1>8. TodoIsNew' /\ NewIsNew' /\ ClosedIsEmpty'
  BY <1>2, <1>3, <1>4 DEF Start, Todo, TodoIsNew, NewIsNew, ClosedIsEmpty, Keys, KeyOf
<1> QED BY <1>5, <1>6, <1>7, <1>8 DEF JudgeIInv, JudgeInv

LEMMA CardStep ==
  ASSUME JudgeIInv, NEW c \in job.todo, NEW result \in Results,
         JudgeCard(c, result)
  PROVE  JudgeIInv'
<1> USE JudgeAssumption
<1>0. PICK row : row = [key |-> KeyOf(job.asOf, c), since |-> c.since, result |-> result]
  OBVIOUS
<1>1. c \in IssuedCard /\ job.asOf \in Slots
  BY DEF JudgeIInv, JudgeInv, JudgeTypeOK
<1>2. row.key \in Key /\ row \in JudgeRow /\ row.key \notin Keys(AllRows)
  <2>1. c.since \in Slots
    BY <1>1 DEF IssuedCard
  <2> QED BY <1>0, <1>1, <2>1, KeyOfCard DEF JudgeRow, JudgeIInv, TodoIsNew
<1>3. /\ job' = [job EXCEPT !.todo = job.todo \ {c}, !.new = job.new \union {row}]
      /\ UNCHANGED <<slot, offered, judged, queued, wasted>>
  BY <1>0, Zenon DEF JudgeCard
<1>4. /\ job'.todo = job.todo \ {c} /\ job'.new = job.new \union {row}
      /\ job'.open = TRUE /\ job'.asOf = job.asOf
  BY <1>3 DEF JudgeCard, JudgeIInv, JudgeInv, JudgeTypeOK
<1>5. AllRows' = AllRows \union {row}
  BY <1>3, <1>4 DEF AllRows
<1>6. Keys(AllRows)' = Keys(AllRows) \union {row.key}
  <2>1. Keys(AllRows)' = Keys(AllRows \union {row})
    BY <1>5 DEF Keys
  <2> QED BY <2>1, KeysOfMore
<1>7. AskedFor(AllRows)' = AskedFor(AllRows) \union (IF row.result # "no chart" THEN {row.key} ELSE {})
  <2>1. AskedFor(AllRows)' = AskedFor(AllRows \union {row})
    BY <1>5 DEF AskedFor, Keys
  <2> QED BY <2>1, AskedOfMore
<1>8. row.key = KeyOf(job.asOf, c) /\ row.result = result
  BY <1>0
<1>9. /\ asked' \in [Key -> Nat]
      /\ result = "no chart" => asked' = asked
      /\ result # "no chart" => asked' = [asked EXCEPT ![row.key] = asked[row.key] + 1]
  <2>1. asked \in [Key -> Nat]
    BY DEF JudgeIInv, JudgeInv, JudgeTypeOK
  <2>2. CASE result = "no chart"
    <3>1. asked' = asked
      BY <2>2, Zenon DEF JudgeCard
    <3> QED BY <3>1, <2>1, <2>2
  <2>3. CASE result # "no chart"
    <3>1. asked' = [asked EXCEPT ![row.key] = asked[row.key] + 1]
      BY <2>3, <1>8, Zenon DEF JudgeCard, Called
    <3> QED BY <3>1, <2>1, <2>3, <1>2, MoreCounted
  <2> QED BY <2>2, <2>3
<1>10. JudgeTypeOK'
  <2>1. job' \in [open : BOOLEAN, asOf : 0..LastSlot, todo : SUBSET IssuedCard, new : SUBSET JudgeRow]
    <3>1. job'.todo \in SUBSET IssuedCard /\ job'.new \in SUBSET JudgeRow
      BY <1>4, <1>2 DEF JudgeIInv, JudgeInv, JudgeTypeOK
    <3> QED BY <3>1, <1>3, <1>4 DEF JudgeIInv, JudgeInv, JudgeTypeOK
  <2> QED BY <2>1, <1>1, <1>3, <1>4, <1>9 DEF JudgeIInv, JudgeInv, JudgeTypeOK
<1>11. OneRowPerKey'
  <2> SUFFICES ASSUME NEW r \in AllRows \union {row}, NEW s \in AllRows \union {row}, r.key = s.key
              PROVE  r = s
    BY <1>5 DEF OneRowPerKey
  <2>1. \A x \in AllRows : x.key # row.key
    BY <1>2 DEF Keys
  <2> QED BY <2>1 DEF JudgeIInv, JudgeInv, OneRowPerKey
<1>12. EveryCallAccounted'
  <2> SUFFICES ASSUME NEW k \in Key
              PROVE  asked'[k] = wasted[k] + (IF k \in AskedFor(AllRows)' THEN 1 ELSE 0)
    BY <1>3 DEF EveryCallAccounted
  <2>1. asked[k] = wasted[k] + (IF k \in AskedFor(AllRows) THEN 1 ELSE 0)
    BY DEF JudgeIInv, JudgeInv, EveryCallAccounted
  <2>0. wasted[k] \in Nat
    BY DEF JudgeIInv, JudgeInv, JudgeTypeOK
  <2>2. row.key \notin AskedFor(AllRows)
    BY <1>2, AskedHaveRows
  <2>3. asked \in [Key -> Nat]
    BY DEF JudgeIInv, JudgeInv, JudgeTypeOK
  <2>4. CASE result = "no chart"
    <3>1. AskedFor(AllRows)' = AskedFor(AllRows) /\ asked' = asked
      BY <2>4, <1>7, <1>8, <1>9
    <3> QED BY <3>1, <2>1, <2>0
  <2>5. CASE result # "no chart"
    <3>1. AskedFor(AllRows)' = AskedFor(AllRows) \union {row.key}
      BY <2>5, <1>7, <1>8
    <3>2. asked'[k] = IF k = row.key THEN asked[k] + 1 ELSE asked[k]
      BY <2>3, <2>5, <1>2, <1>9, MoreCounted
    <3>3. CASE k = row.key
      <4>1. k \in AskedFor(AllRows)' /\ k \notin AskedFor(AllRows)
        BY <3>1, <3>3, <2>2
      <4> QED BY <4>1, <3>2, <3>3, <2>1, <2>0
    <3>4. CASE k # row.key
      <4>1. k \in AskedFor(AllRows)' <=> k \in AskedFor(AllRows)
        BY <3>1, <3>4
      <4> QED BY <4>1, <3>2, <3>4, <2>1, <2>0
    <3> QED BY <3>3, <3>4
  <2> QED BY <2>4, <2>5
<1>13. OneCardEach'
  BY <1>3, <1>4 DEF JudgeIInv, OneCardEach
<1>14. TodoIsNew'
  <2> SUFFICES ASSUME NEW d \in job.todo \ {c}
              PROVE  KeyOf(job.asOf, d) \notin Keys(AllRows) \union {row.key}
    BY <1>4, <1>6 DEF TodoIsNew, KeyOf
  <2>1. d.ticker # c.ticker
    BY DEF JudgeIInv, OneCardEach
  <2>2. KeyOf(job.asOf, d) # row.key
    <3>1. KeyOf(job.asOf, d).ticker = d.ticker /\ KeyOf(job.asOf, c).ticker = c.ticker
      BY DEF KeyOf
    <3> QED BY <3>1, <2>1, <1>8
  <2>3. KeyOf(job.asOf, d) \notin Keys(AllRows)
    BY DEF JudgeIInv, TodoIsNew
  <2> QED BY <2>2, <2>3
<1>15. NewIsNew'
  <2>1. Keys(job'.new) = Keys(job.new) \union {row.key}
    BY <1>4, KeysOfMore
  <2>2. row.key \notin Keys(judged)
    BY <1>2 DEF Keys, AllRows
  <2>3. Keys(judged') = Keys(judged)
    BY <1>3
  <2>4. Keys(judged') \intersect Keys(job'.new) = {}
    BY <2>1, <2>2, <2>3 DEF JudgeIInv, NewIsNew
  <2> QED BY <2>4 DEF NewIsNew, Keys
<1> QED BY <1>4, <1>10, <1>11, <1>12, <1>13, <1>14, <1>15 DEF JudgeIInv, JudgeInv, ClosedIsEmpty

LEMMA GiveUpStep == ASSUME JudgeIInv, GiveUp PROVE JudgeIInv'
<1> USE JudgeAssumption
<1>1. /\ job' = [job EXCEPT !.todo = {}]
      /\ UNCHANGED <<slot, offered, judged, queued>>
  BY DEF GiveUp
<1>2. job'.todo = {} /\ job'.new = job.new /\ job'.open = TRUE
  BY <1>1 DEF GiveUp, JudgeIInv, JudgeInv, JudgeTypeOK
<1>3. AllRows' = AllRows /\ AskedFor(AllRows)' = AskedFor(AllRows) /\ Keys(judged)' = Keys(judged) /\ Keys(job.new)' = Keys(job.new)
  BY <1>1, <1>2 DEF AllRows, AskedFor, Keys
<1>4. /\ asked' \in [Key -> Nat] /\ wasted' \in [Key -> Nat]
      /\ \A k \in Key : asked'[k] - wasted'[k] = asked[k] - wasted[k]
  <2>1. asked \in [Key -> Nat] /\ wasted \in [Key -> Nat]
    BY DEF JudgeIInv, JudgeInv, JudgeTypeOK
  <2>2. CASE UNCHANGED <<asked, wasted>>
    BY <2>1, <2>2
  <2>3. ASSUME NEW c \in job.todo, asked' = Called(c),
               wasted' = [wasted EXCEPT ![KeyOf(job.asOf, c)] = @ + 1]
        PROVE  /\ asked' \in [Key -> Nat] /\ wasted' \in [Key -> Nat]
               /\ \A k \in Key : asked'[k] - wasted'[k] = asked[k] - wasted[k]
    <3>1. KeyOf(job.asOf, c) \in Key
      BY KeyOfCard DEF JudgeIInv, JudgeInv, JudgeTypeOK
    <3> QED BY <3>1, <2>1, <2>3 DEF Called
  <2> QED BY <2>2, <2>3 DEF GiveUp
<1>5. JudgeTypeOK'
  BY <1>1, <1>2, <1>4 DEF JudgeIInv, JudgeInv, JudgeTypeOK
<1>6. EveryCallAccounted'
  <2> SUFFICES ASSUME NEW k \in Key
              PROVE  asked'[k] = wasted'[k] + (IF k \in AskedFor(AllRows) THEN 1 ELSE 0)
    BY <1>3 DEF EveryCallAccounted
  <2>1. asked[k] = wasted[k] + (IF k \in AskedFor(AllRows) THEN 1 ELSE 0)
    BY DEF JudgeIInv, JudgeInv, EveryCallAccounted
  <2>2. asked[k] \in Nat /\ wasted[k] \in Nat /\ asked'[k] \in Nat /\ wasted'[k] \in Nat
    BY <1>4 DEF JudgeIInv, JudgeInv, JudgeTypeOK
  <2> QED BY <2>1, <2>2, <1>4
<1> QED BY <1>1, <1>2, <1>3, <1>5, <1>6
     DEF JudgeIInv, JudgeInv, OneRowPerKey, OneCardEach, TodoIsNew, NewIsNew, ClosedIsEmpty

LEMMA PushStep == ASSUME JudgeIInv, Push PROVE JudgeIInv'
<1> USE JudgeAssumption
<1>1. /\ judged' = AllRows /\ job'.todo = {} /\ job'.new = {} /\ job'.open = FALSE /\ job' = NoJob
      /\ UNCHANGED <<slot, offered, queued, asked, wasted>>
  BY DEF Push, NoJob, AllRows
<1>2. AllRows' = AllRows
  BY <1>1 DEF AllRows
<1>3. AskedFor(AllRows)' = AskedFor(AllRows) /\ Keys(job.new)' = {}
  BY <1>1, <1>2 DEF AskedFor, Keys
<1>4. JudgeTypeOK'
  BY <1>1 DEF AllRows, NoJob, JudgeIInv, JudgeInv, JudgeTypeOK
<1> QED BY <1>1, <1>2, <1>3, <1>4
     DEF JudgeIInv, JudgeInv, OneRowPerKey, EveryCallAccounted, OneCardEach, TodoIsNew, NewIsNew, ClosedIsEmpty

LEMMA LoseStep == ASSUME JudgeIInv, LoseRows PROVE JudgeIInv'
<1> USE JudgeAssumption
<1>1. /\ job'.todo = {} /\ job'.new = {} /\ job'.open = FALSE /\ job' = NoJob
      /\ UNCHANGED <<slot, offered, judged, queued, asked>>
  BY DEF LoseRows, NoJob
<1>2. AllRows' = judged /\ judged \subseteq AllRows
  BY <1>1 DEF AllRows
<1>3. AskedFor(AllRows)' = AskedFor(judged) /\ Keys(job.new)' = {}
  BY <1>1, <1>2 DEF AskedFor, Keys
<1>4. AskedFor(AllRows) = AskedFor(judged) \union AskedFor(job.new)
  BY AskedOfBoth DEF AllRows
<1>5. AskedFor(judged) \intersect AskedFor(job.new) = {}
  BY AskedHaveRows DEF JudgeIInv, NewIsNew
<1>6. wasted' = [k \in Key |-> IF k \in AskedFor(job.new) THEN wasted[k] + 1 ELSE wasted[k]]
  BY DEF LoseRows
<1>7. wasted' \in [Key -> Nat]
  BY <1>6 DEF JudgeIInv, JudgeInv, JudgeTypeOK
<1>8. JudgeTypeOK'
  BY <1>1, <1>7 DEF NoJob, JudgeIInv, JudgeInv, JudgeTypeOK
<1>9. EveryCallAccounted'
  <2> SUFFICES ASSUME NEW k \in Key
              PROVE  asked[k] = wasted'[k] + (IF k \in AskedFor(judged) THEN 1 ELSE 0)
    BY <1>1, <1>3 DEF EveryCallAccounted
  <2>1. asked[k] = wasted[k] + (IF k \in AskedFor(AllRows) THEN 1 ELSE 0) /\ wasted[k] \in Nat
    BY DEF JudgeIInv, JudgeInv, EveryCallAccounted, JudgeTypeOK
  <2> QED BY <2>1, <1>4, <1>5, <1>6
<1>10. OneRowPerKey'
  BY <1>2 DEF JudgeIInv, JudgeInv, OneRowPerKey
<1> QED BY <1>1, <1>3, <1>8, <1>9, <1>10
     DEF JudgeIInv, JudgeInv, OneCardEach, TodoIsNew, NewIsNew, ClosedIsEmpty

-----------------------------------------------------------------------------
LEMMA JudgeStepInv == JudgeIInv /\ [JudgeNext]_judgeVars => JudgeIInv'
<1> SUFFICES ASSUME JudgeIInv, [JudgeNext]_judgeVars PROVE JudgeIInv'
  OBVIOUS
<1>1. CASE \E cards \in Envelopes : Publish(cards)
  BY <1>1, PublishStep
<1>2. CASE Trigger \/ NextSlot \/ Skip
  BY <1>2, QuietStep
<1>3. CASE Start
  BY <1>3, StartStep
<1>4. CASE \E c \in job.todo, result \in Results : JudgeCard(c, result)
  BY <1>4, CardStep
<1>5. CASE GiveUp
  BY <1>5, GiveUpStep
<1>6. CASE Push
  BY <1>6, PushStep
<1>7. CASE LoseRows
  BY <1>7, LoseStep
<1>8. CASE UNCHANGED judgeVars
  <2>1. JudgeTypeOK'
    BY <1>8 DEF judgeVars, JudgeIInv, JudgeInv, JudgeTypeOK
  <2> QED BY <1>8, <2>1, Undisturbed DEF judgeVars, JudgeIInv, OneCardEach
<1> QED BY <1>1, <1>2, <1>3, <1>4, <1>5, <1>6, <1>7, <1>8 DEF JudgeNext

\* The judge's log has one row for a key, and a key is asked about again only
\* when every earlier answer was lost.
THEOREM EveryCallCounts == JudgeSpec => []JudgeInv
<1>1. JudgeIInv => JudgeInv
  BY DEF JudgeIInv
<1> QED BY <1>1, JudgeInitInv, JudgeStepInv, PTL DEF JudgeSpec
=============================================================================
