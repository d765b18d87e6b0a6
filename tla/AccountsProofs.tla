-------------------------- MODULE AccountsProofs --------------------------
(***************************************************************************)
(* Proofs about accounts: sessions and the rotation of their tokens, sign- *)
(* in, and access requests.                                                *)
(***************************************************************************)
EXTENDS Sessions, SignIn, AccessRequests, SequenceTheorems, FiniteSetTheorems, TLAPS

-----------------------------------------------------------------------------
(***************************************************************************)
(* Sessions (Sessions), for every set of browsers and callers and every    *)
(* number of tokens and endings. A working token was minted since the      *)
(* sessions were last ended, because an ending leaves none that works; and *)
(* its parent too, because what an exchange read is still so unless the    *)
(* sessions were ended after it read. A login has no parent: what it read  *)
(* is as old as it remembers (NothingAhead).                               *)
(***************************************************************************)

\* A row's parent is a row, or none.
ParentsThere == \A i \in Tokens : rows[i].parent \in 0..Len(rows)

\* What a call has checked was read before now, and its token was minted
\* since the sessions were ended for the last time before that.
ChecksHold ==
  \A c \in Callers : calls[c].step = "checked" =>
    /\ calls[c].since <= endings
    /\ calls[c].since = endings => rows[calls[c].token].born = endings

\* No row was minted, and no login has read, after an ending yet to come.
NothingAhead ==
  /\ \A i \in Tokens : rows[i].born <= endings
  /\ \A since \in begun : since <= endings

SessionsIInv ==
  SessionsTypeOK /\ ParentsThere /\ ChecksHold /\ NothingAhead /\ EndedStaysEnded

LEMMA SessionsInitInv == SessionsInit => SessionsIInv
<1> SUFFICES ASSUME SessionsInit PROVE SessionsIInv
  OBVIOUS
<1> USE SessionsAssumption
<1>1. rows = <<>> /\ Len(rows) = 0 /\ Tokens = {}
  BY DEF SessionsInit, Tokens
<1>2. rows \in Seq(TokenRow)
  BY <1>1
<1>3. store \in [Browsers -> 0..Len(rows)] /\ calls \in [Callers -> Call]
  BY <1>1 DEF SessionsInit, Call, Idle
<1>4. \A c \in Callers : calls[c].step = "idle"
  BY DEF SessionsInit, Idle
<1>5. SessionsTypeOK
  BY <1>1, <1>2, <1>3, <1>4 DEF SessionsInit, SessionsTypeOK
<1>6. begun = {}
  BY DEF SessionsInit
<1> QED BY <1>1, <1>4, <1>5, <1>6 DEF SessionsIInv, ParentsThere, ChecksHold, NothingAhead, EndedStaysEnded

-----------------------------------------------------------------------------
(* What a step does to the rows. *)

\* Every row is still there, and none that did not work works now.
RowsStay ==
  /\ rows' \in Seq(TokenRow) /\ Len(rows') = Len(rows) /\ DOMAIN rows' = DOMAIN rows
  /\ \A i \in Tokens :
       /\ rows'[i].parent = rows[i].parent /\ rows'[i].born = rows[i].born
       /\ rows'[i].since = rows[i].since /\ rows'[i].root = rows[i].root
       /\ rows'[i].state = "active" => rows[i].state = "active"

\* One row more, of a parent that is a row or none.
RowAdded(t, since) ==
  /\ rows' \in Seq(TokenRow) /\ Len(rows') = Len(rows) + 1 /\ DOMAIN rows' = 1..Len(rows) + 1
  /\ \A i \in Tokens :
       /\ rows'[i].parent = rows[i].parent /\ rows'[i].born = rows[i].born
       /\ rows'[i].since = rows[i].since /\ rows'[i].root = rows[i].root
       /\ rows'[i].state = "active" => rows[i].state = "active"
  /\ rows'[Len(rows) + 1] = Mint(t, since)

\* A table whose rows were replaced in their places, each keeping its history.
LEMMA Replaced ==
  ASSUME SessionsTypeOK,
         rows' = [i \in Tokens |-> rows'[i]],
         \A i \in Tokens : /\ rows'[i] \in TokenRow
                           /\ rows'[i].parent = rows[i].parent /\ rows'[i].born = rows[i].born
                           /\ rows'[i].since = rows[i].since /\ rows'[i].root = rows[i].root
                           /\ rows'[i].state = "active" => rows[i].state = "active"
  PROVE  RowsStay
<1>1. Len(rows) \in Nat /\ Tokens = 1..Len(rows) /\ DOMAIN rows = 1..Len(rows)
  BY LenProperties DEF SessionsTypeOK, Tokens
<1>2. rows' \in [1..Len(rows) -> TokenRow]
  BY <1>1
<1>3. rows' \in Seq(TokenRow) /\ Len(rows') = Len(rows)
  BY <1>1, <1>2
<1> QED BY <1>1, <1>3 DEF RowsStay

LEMMA Untouched ==
  ASSUME SessionsTypeOK, rows' = rows
  PROVE  RowsStay
<1>1. rows = [i \in Tokens |-> rows[i]] /\ \A i \in Tokens : rows[i] \in TokenRow
  BY ElementOfSeq, LenProperties DEF SessionsTypeOK, Tokens
<1> QED BY <1>1, Replaced

\* One row of another age, or of another state and no age.
LEMMA OneChanged ==
  ASSUME SessionsTypeOK, NEW t \in Tokens, NEW state \in {"active", "revoked", "deleted"},
         NEW expired \in BOOLEAN,
         state = "active" => rows[t].state = "active",
         \/ rows' = [rows EXCEPT ![t].state = state, ![t].expired = expired]
         \/ rows' = [rows EXCEPT ![t].expired = expired]
  PROVE  RowsStay
<1>1. \A i \in Tokens : rows[i] \in TokenRow
  BY ElementOfSeq, LenProperties DEF SessionsTypeOK, Tokens
<1>2. rows' = [i \in Tokens |-> rows'[i]]
  BY DEF Tokens
<1>3. \A i \in Tokens : /\ rows'[i] \in TokenRow
                        /\ rows'[i].parent = rows[i].parent /\ rows'[i].born = rows[i].born
                        /\ rows'[i].since = rows[i].since /\ rows'[i].root = rows[i].root
                        /\ rows'[i].state = "active" => rows[i].state = "active"
  BY <1>1 DEF Tokens, TokenRow
<1> QED BY <1>2, <1>3, Replaced

\* When the sessions are ended no token works.
LEMMA AllRevoked ==
  ASSUME SessionsTypeOK, rows' = RevokeAll
  PROVE  RowsStay /\ \A i \in Tokens : rows'[i].state # "active"
<1>1. \A i \in Tokens : rows[i] \in TokenRow
  BY ElementOfSeq, LenProperties DEF SessionsTypeOK, Tokens
<1>2. rows' = [i \in Tokens |-> rows'[i]]
  BY DEF RevokeAll
<1>3. \A i \in Tokens : /\ rows'[i] \in TokenRow
                        /\ rows'[i].parent = rows[i].parent /\ rows'[i].born = rows[i].born
                        /\ rows'[i].since = rows[i].since /\ rows'[i].root = rows[i].root
                        /\ rows'[i].state # "active"
  BY <1>1 DEF RevokeAll, Live, TokenRow
<1> QED BY <1>2, <1>3, Replaced

LEMMA AllDeleted ==
  ASSUME SessionsTypeOK, rows' = [i \in Tokens |-> [rows[i] EXCEPT !.state = "deleted", !.expired = FALSE]]
  PROVE  RowsStay /\ \A i \in Tokens : rows'[i].state # "active"
<1>1. \A i \in Tokens : rows[i] \in TokenRow
  BY ElementOfSeq, LenProperties DEF SessionsTypeOK, Tokens
<1>2. rows' = [i \in Tokens |-> rows'[i]]
  OBVIOUS
<1>3. \A i \in Tokens : /\ rows'[i] \in TokenRow
                        /\ rows'[i].parent = rows[i].parent /\ rows'[i].born = rows[i].born
                        /\ rows'[i].since = rows[i].since /\ rows'[i].root = rows[i].root
                        /\ rows'[i].state # "active"
  BY <1>1 DEF TokenRow
<1> QED BY <1>2, <1>3, Replaced

\* A minted row at the end of a table that is otherwise as RowsStay has it.
LEMMA Minted ==
  ASSUME SessionsTypeOK, Len(rows) < MaxTokens,
         NEW r \in Seq(TokenRow), Len(r) = Len(rows),
         \A i \in Tokens :
           /\ r[i].parent = rows[i].parent /\ r[i].born = rows[i].born
           /\ r[i].since = rows[i].since /\ r[i].root = rows[i].root
           /\ r[i].state = "active" => rows[i].state = "active",
         NEW t \in 0..Len(rows), NEW since \in 0..MaxEndings,
         rows' = Append(r, Mint(t, since))
  PROVE  RowAdded(t, since)
<1> USE SessionsAssumption
<1>1. Len(rows) \in Nat /\ Tokens = 1..Len(rows)
  BY LenProperties DEF SessionsTypeOK, Tokens
<1>2. Mint(t, since) \in TokenRow
  <2>1. t # 0 => rows[t] \in TokenRow
    BY <1>1, ElementOfSeq DEF SessionsTypeOK
  <2>2. (IF t = 0 THEN Len(rows) + 1 ELSE rows[t].root) \in 1..MaxTokens
    BY <1>1, <2>1 DEF TokenRow
  <2>3. endings \in 0..MaxEndings /\ t \in 0..MaxTokens
    BY <1>1 DEF SessionsTypeOK
  <2> QED BY <2>2, <2>3 DEF Mint, TokenRow
<1>3. /\ rows' \in Seq(TokenRow) /\ Len(rows') = Len(rows) + 1
      /\ \A i \in 1..Len(rows) : rows'[i] = r[i]
      /\ rows'[Len(rows) + 1] = Mint(t, since)
  BY <1>1, <1>2, AppendProperties
<1>4. DOMAIN rows' = 1..Len(rows) + 1
  BY <1>3, LenProperties
<1> QED BY <1>1, <1>3, <1>4 DEF RowAdded

-----------------------------------------------------------------------------
(* What that means for the invariant. *)

LEMMA EndedKept ==
  ASSUME SessionsIInv, RowsStay, endings' = endings, begun' \subseteq begun \union {endings}
  PROVE  ParentsThere' /\ NothingAhead' /\ EndedStaysEnded'
<1>1. Tokens' = Tokens /\ Len(rows') = Len(rows) /\ Tokens = 1..Len(rows) /\ endings \in Nat
  BY LenProperties DEF RowsStay, Tokens, SessionsIInv, SessionsTypeOK
<1>2. ParentsThere'
  BY <1>1 DEF RowsStay, ParentsThere, SessionsIInv
<1>3. NothingAhead'
  BY <1>1 DEF RowsStay, NothingAhead, SessionsIInv
<1>4. ASSUME NEW i \in Tokens
      PROVE  /\ rows'[i].state = "active" => rows'[i].born = endings
             /\ rows'[i].born = endings =>
                  \/ rows'[i].since < endings
                  \/ rows'[i].parent = 0 /\ rows'[i].since = endings
                  \/ rows'[i].parent # 0 /\ rows'[rows'[i].parent].born = endings
  <2>1. /\ rows[i].state = "active" => rows[i].born = endings
        /\ rows[i].born = endings =>
             \/ rows[i].since < endings
             \/ rows[i].parent = 0 /\ rows[i].since = endings
             \/ rows[i].parent # 0 /\ rows[rows[i].parent].born = endings
    BY DEF SessionsIInv, EndedStaysEnded, Live
  <2>2. rows[i].parent # 0 => rows[i].parent \in Tokens
    BY <1>1 DEF SessionsIInv, ParentsThere
  <2> QED BY <2>1, <2>2 DEF RowsStay
<1> QED BY <1>1, <1>2, <1>3, <1>4 DEF EndedStaysEnded, Live

LEMMA EndedAnew ==
  ASSUME SessionsIInv, RowsStay, \A i \in Tokens : rows'[i].state # "active",
         endings' = endings + 1, begun' = begun
  PROVE  ParentsThere' /\ NothingAhead' /\ EndedStaysEnded'
<1>1. Tokens' = Tokens /\ endings \in Nat /\ begun \subseteq Nat /\ \A i \in Tokens : rows[i].born \in Nat
  <2>1. \A i \in Tokens : rows[i] \in TokenRow
    BY ElementOfSeq, LenProperties DEF SessionsIInv, SessionsTypeOK, Tokens
  <2>2. MaxEndings \in Nat
    BY SessionsAssumption
  <2> QED BY <2>1, <2>2 DEF RowsStay, Tokens, TokenRow, SessionsIInv, SessionsTypeOK
<1>2. \A i \in Tokens : rows'[i].born = rows[i].born /\ rows[i].born <= endings
  BY DEF RowsStay, NothingAhead, SessionsIInv
<1>3. \A i \in Tokens : rows'[i].born <= endings' /\ rows'[i].born # endings'
  BY <1>1, <1>2
<1>4. \A since \in begun : since <= endings'
  BY <1>1 DEF NothingAhead, SessionsIInv
<1>5. ParentsThere'
  BY <1>1 DEF RowsStay, ParentsThere, SessionsIInv
<1> QED BY <1>1, <1>3, <1>4, <1>5 DEF NothingAhead, EndedStaysEnded, Live

\* A minted row: of a handler that was overtaken by an ending, of a login
\* since, or of a parent minted since.
LEMMA EndedMinted ==
  ASSUME SessionsIInv, NEW t \in 0..Len(rows), NEW since \in 0..MaxEndings, RowAdded(t, since),
         endings' = endings, begun' = begun,
         since < endings \/ (t = 0 /\ since = endings) \/ (t # 0 /\ rows[t].born = endings)
  PROVE  ParentsThere' /\ NothingAhead' /\ EndedStaysEnded'
<1> DEFINE new == Len(rows) + 1
<1>1. /\ Len(rows) \in Nat /\ Tokens = 1..Len(rows) /\ Tokens' = 1..new /\ Len(rows') = new
      /\ endings \in Nat
  BY LenProperties DEF RowAdded, Tokens, SessionsIInv, SessionsTypeOK
<1>2. rows'[new].parent = t /\ rows'[new].born = endings /\ rows'[new].since = since
  BY DEF RowAdded, Mint
<1>3. \A i \in Tokens : rows'[i].parent = rows[i].parent /\ rows'[i].parent \in 0..Len(rows)
  BY DEF RowAdded, SessionsIInv, ParentsThere
<1>4. ParentsThere'
  BY <1>1, <1>2, <1>3 DEF ParentsThere
<1>5. ASSUME NEW i \in Tokens
      PROVE  /\ rows'[i].state = "active" => rows'[i].born = endings
             /\ rows'[i].born = endings =>
                  \/ rows'[i].since < endings
                  \/ rows'[i].parent = 0 /\ rows'[i].since = endings
                  \/ rows'[i].parent # 0 /\ rows'[rows'[i].parent].born = endings
  <2>1. /\ rows[i].state = "active" => rows[i].born = endings
        /\ rows[i].born = endings =>
             \/ rows[i].since < endings
             \/ rows[i].parent = 0 /\ rows[i].since = endings
             \/ rows[i].parent # 0 /\ rows[rows[i].parent].born = endings
    BY DEF SessionsIInv, EndedStaysEnded, Live
  <2>2. rows[i].parent # 0 => rows[i].parent \in Tokens
    BY <1>1, <1>3
  <2> QED BY <2>1, <2>2 DEF RowAdded
<1>6. t # 0 => t \in Tokens /\ rows'[t].born = rows[t].born
  BY <1>1 DEF RowAdded
<1>7. \A i \in Tokens' : i \in Tokens \/ i = new
  BY <1>1
<1>8. NothingAhead'
  <2>1. \A i \in Tokens : rows'[i].born <= endings
    BY DEF RowAdded, NothingAhead, SessionsIInv
  <2>2. \A e \in begun : e <= endings
    BY DEF NothingAhead, SessionsIInv
  <2> QED BY <1>1, <1>2, <1>7, <2>1, <2>2 DEF NothingAhead
<1>9. /\ rows'[new].born = endings
      /\ \/ rows'[new].since < endings
         \/ rows'[new].parent = 0 /\ rows'[new].since = endings
         \/ rows'[new].parent # 0 /\ rows'[rows'[new].parent].born = endings
  BY <1>2, <1>6
<1> QED BY <1>4, <1>5, <1>7, <1>8, <1>9 DEF EndedStaysEnded, Live

\* A check stays good, for nothing about a row that matters to it changes.
LEMMA ChecksKept ==
  ASSUME SessionsIInv, RowsStay \/ \E t, since : RowAdded(t, since),
         endings' \in {endings, endings + 1},
         \A c \in Callers : calls'[c].step = "checked" => calls'[c] = calls[c]
  PROVE  ChecksHold'
<1>1. Tokens = 1..Len(rows) /\ Len(rows) \in Nat /\ endings \in Nat
  BY LenProperties DEF Tokens, SessionsIInv, SessionsTypeOK
<1>2. \A i \in Tokens : rows'[i].born = rows[i].born
  BY DEF RowsStay, RowAdded
<1>3. ASSUME NEW c \in Callers, calls'[c].step = "checked"
      PROVE  /\ calls'[c].since <= endings'
             /\ calls'[c].since = endings' => rows'[calls'[c].token].born = endings'
  <2>1. calls'[c] = calls[c] /\ calls[c].step = "checked"
    BY <1>3
  <2>2. calls[c].since <= endings /\ (calls[c].since = endings => rows[calls[c].token].born = endings)
    BY <2>1 DEF SessionsIInv, ChecksHold
  <2>3. calls[c].token \in Tokens /\ calls[c].since \in Nat
    BY <1>1, <2>1 DEF SessionsIInv, SessionsTypeOK, Call
  <2> QED BY <1>1, <1>2, <2>1, <2>2, <2>3
<1> QED BY <1>3 DEF ChecksHold

-----------------------------------------------------------------------------
(* The actions. *)

\* The types after a step that leaves every row in its place: the histories
\* of tokens and what is stored only ever name rows that are there.
LEMMA TypesKept ==
  ASSUME SessionsTypeOK, RowsStay \/ \E t, since : RowAdded(t, since), Len(rows') <= MaxTokens,
         active' \in BOOLEAN, endings' \in 0..MaxEndings, store' \in [Browsers -> 0..Len(rows')],
         calls' = calls \/ \E c \in Callers, x \in Call' :
                             calls' = [calls EXCEPT ![c] = x] /\ (x.step # "idle" => x.token # 0),
         crossed' \subseteq Tokens, dropped' \subseteq Tokens, left' \subseteq 1..MaxTokens,
         alarms' \subseteq [token : Tokens, at : 0..MaxEndings], begun' \subseteq 0..MaxEndings
  PROVE  SessionsTypeOK'
<1>1. rows' \in Seq(TokenRow) /\ Len(rows) \in Nat /\ Len(rows') \in Nat /\ Len(rows) <= Len(rows')
  BY LenProperties DEF RowsStay, RowAdded, SessionsTypeOK
<1>2. Tokens = 1..Len(rows) /\ Tokens' = 1..Len(rows')
  BY <1>1, LenProperties DEF SessionsTypeOK, Tokens
<1>3. Tokens \subseteq Tokens' /\ 0..Len(rows) \subseteq 0..Len(rows')
  BY <1>1, <1>2
<1>4. Call \subseteq Call'
  BY <1>3 DEF Call
<1>5. calls' \in [Callers -> Call'] /\ \A c \in Callers : calls'[c].step # "idle" => calls'[c].token # 0
  BY <1>4 DEF SessionsTypeOK
<1>6. /\ crossed' \subseteq Tokens' /\ dropped' \subseteq Tokens'
      /\ alarms' \subseteq [token : Tokens', at : 0..MaxEndings]
  BY <1>3
<1> QED BY <1>1, <1>5, <1>6 DEF SessionsTypeOK, TokenRow

\* Idle is a call, whatever the rows.
LEMMA IdleIsACall == SessionsTypeOK /\ Len(rows') \in Nat => Idle \in Call'
BY SessionsAssumption DEF Idle, Call

LEMMA AlarmInv == ASSUME SessionsIInv, NEW c \in Callers, SoundAlarm(c) PROVE SessionsIInv'
<1> USE SessionsAssumption
<1>1. SessionsTypeOK
  BY DEF SessionsIInv
<1>2. RowsStay /\ \A i \in Tokens : rows'[i].state # "active"
  BY <1>1, AllRevoked DEF SoundAlarm
<1>3. Len(rows') = Len(rows) /\ Len(rows) \in Nat /\ Tokens = 1..Len(rows)
  BY <1>1, <1>2, LenProperties DEF RowsStay, SessionsTypeOK, Tokens
<1>4. calls[c].token \in Tokens
  BY <1>1, <1>3 DEF SoundAlarm, Asked, SessionsTypeOK, Call
<1>5. endings' = endings + 1 /\ endings' \in 0..MaxEndings /\ endings \in 0..MaxEndings /\ begun' = begun
  BY <1>1 DEF SoundAlarm, SessionsTypeOK
<1>6. Idle \in Call' /\ Idle.step = "idle"
  BY <1>1, <1>3, IdleIsACall DEF Idle
<1>7. alarms' \subseteq [token : Tokens, at : 0..MaxEndings]
  BY <1>1, <1>4, <1>5 DEF SoundAlarm, SessionsTypeOK
<1>8. SessionsTypeOK'
  BY <1>1, <1>2, <1>3, <1>5, <1>6, <1>7, TypesKept DEF SoundAlarm, SessionsTypeOK
<1>9. ChecksHold'
  BY <1>2, <1>5, <1>6, <1>1, ChecksKept DEF SoundAlarm, SessionsTypeOK
<1> QED BY <1>2, <1>5, <1>8, <1>9, EndedAnew DEF SessionsIInv

\* The steps that touch neither the rows nor the endings, but for a check.
LEMMA QuietInv ==
  ASSUME SessionsIInv, rows' = rows, endings' = endings, active' \in BOOLEAN, SessionsTypeOK',
         begun' \subseteq begun \union {endings},
         \A c \in Callers : calls'[c].step = "checked" => calls'[c] = calls[c]
  PROVE  SessionsIInv'
<1>1. RowsStay
  BY Untouched DEF SessionsIInv
<1>2. ChecksHold'
  BY <1>1, ChecksKept
<1> QED BY <1>1, <1>2, EndedKept DEF SessionsIInv

LEMMA CallerInv ==
  ASSUME SessionsIInv, NEW c \in Callers,
         \/ \E op \in {"refresh", "logout"} : Ask(c, op)
         \/ Refuse(c) \/ Receive(c) \/ Lose(c) \/ FinishLogout(c)
  PROVE  SessionsIInv'
<1> USE SessionsAssumption
<1>1. SessionsTypeOK
  BY DEF SessionsIInv
<1>2. rows' = rows /\ endings' = endings /\ active' \in BOOLEAN /\ begun' = begun /\ begun \subseteq 0..MaxEndings
  BY <1>1 DEF Ask, Refuse, Receive, Lose, FinishLogout, SessionsTypeOK
<1>3. RowsStay /\ Len(rows) \in Nat /\ Tokens = 1..Len(rows)
  BY <1>1, <1>2, Untouched, LenProperties DEF Tokens, SessionsTypeOK
<1>4. Call' = Call
  BY <1>2 DEF Call
<1>5. Idle \in Call' /\ Idle.step = "idle"
  BY <1>1, <1>2, <1>3, IdleIsACall DEF Idle
<1>6. Home[c] \in Browsers /\ calls[c] \in Call /\ store[Home[c]] \in 0..Len(rows)
  BY <1>1 DEF SessionsTypeOK
<1>7. calls[c].step # "idle" => calls[c].token \in Tokens
  <2>1. calls[c].token \in 0..Len(rows)
    BY <1>6 DEF Call
  <2>2. calls[c].step # "idle" => calls[c].token # 0
    BY <1>1 DEF SessionsTypeOK
  <2> QED BY <2>1, <2>2, <1>3
<1>8. PICK x \in Call' : /\ calls' = [calls EXCEPT ![c] = x]
                         /\ x.step # "checked" /\ (x.step # "idle" => x.token # 0)
  <2>1. CASE \E op \in {"refresh", "logout"} : Ask(c, op)
    <3>1. PICK op \in {"refresh", "logout"} : Ask(c, op)
      BY <2>1
    <3> DEFINE y == Request(op, store[Home[c]])
    <3>2. y \in Call /\ y.step = "asked" /\ y.token = store[Home[c]]
      BY <1>6 DEF Call, Request
    <3>3. y \in Call'
      BY <3>2, <1>4
    <3>4. y.token # 0 /\ calls' = [calls EXCEPT ![c] = y]
      BY <3>1, <3>2 DEF Ask
    <3> QED BY <3>2, <3>3, <3>4
  <2>2. CASE Refuse(c) \/ Receive(c) \/ Lose(c) \/ FinishLogout(c)
    BY <2>2, <1>5 DEF Refuse, Receive, Lose, FinishLogout
  <2> QED BY <2>1, <2>2
<1>9. store' \in [Browsers -> 0..Len(rows')]
  <2>1. store \in [Browsers -> 0..Len(rows)]
    BY <1>1 DEF SessionsTypeOK
  <2>2. calls[c].answer \in 0..Len(rows) /\ 0 \in 0..Len(rows)
    <3>1. calls[c].answer \in 0..Len(rows)
      BY <1>6 DEF Call
    <3> QED BY <3>1, <1>3
  <2>3. \/ store' = store \/ store' = [store EXCEPT ![Home[c]] = calls[c].answer]
        \/ store' = [store EXCEPT ![Home[c]] = 0]
    BY DEF Ask, Refuse, Receive, Lose, FinishLogout, Stored
  <2> QED BY <1>2, <1>6, <2>1, <2>2, <2>3
<1>10. crossed' \subseteq Tokens /\ dropped' \subseteq Tokens /\ left' \subseteq 1..MaxTokens
  <2>1. store[Home[c]] # 0 => store[Home[c]] \in Tokens
    BY <1>3, <1>6
  <2>2. crossed' \subseteq Tokens
    BY <2>1, <1>1 DEF Ask, Refuse, Receive, Lose, FinishLogout, SessionsTypeOK
  <2>3. dropped' \subseteq Tokens
    BY <1>7, <1>1 DEF Ask, Refuse, Receive, Lose, FinishLogout, SessionsTypeOK
  <2>4. left' \subseteq 1..MaxTokens
    BY <1>1 DEF Ask, Refuse, Receive, Lose, FinishLogout, SessionsTypeOK
  <2> QED BY <2>2, <2>3, <2>4
<1>11. alarms' = alarms /\ alarms \subseteq [token : Tokens, at : 0..MaxEndings] /\ endings \in 0..MaxEndings
  BY <1>1 DEF Ask, Refuse, Receive, Lose, FinishLogout, SessionsTypeOK
<1>12. Len(rows') <= MaxTokens /\ endings' \in 0..MaxEndings
  BY <1>1, <1>2, <1>11 DEF SessionsTypeOK
<1>13. SessionsTypeOK'
  BY <1>1, <1>2, <1>3, <1>8, <1>9, <1>10, <1>11, <1>12, TypesKept
<1>14. \A d \in Callers : calls'[d].step = "checked" => calls'[d] = calls[d]
  BY <1>1, <1>8 DEF SessionsTypeOK
<1> QED BY <1>2, <1>13, <1>14, QuietInv

\* What a check reads holds when it reads it.
LEMMA CheckInv == ASSUME SessionsIInv, NEW c \in Callers, Check(c) PROVE SessionsIInv'
<1> USE SessionsAssumption
<1>1. SessionsTypeOK
  BY DEF SessionsIInv
<1>2. rows' = rows /\ endings' = endings /\ begun' = begun
  BY DEF Check
<1>3. RowsStay /\ Len(rows) \in Nat /\ Tokens = 1..Len(rows) /\ Call' = Call
  BY <1>1, <1>2, Untouched, LenProperties DEF Tokens, SessionsTypeOK, Call
<1>4. endings \in 0..MaxEndings /\ calls[c] \in Call
  BY <1>1 DEF SessionsTypeOK
<1> DEFINE x == [calls[c] EXCEPT !.step = "checked", !.since = endings]
<1>5. x \in Call /\ x.step = "checked" /\ x.since = endings /\ x.token = calls[c].token
  BY <1>4 DEF Call
<1>6. calls' = [calls EXCEPT ![c] = x]
  BY DEF Check
<1>7. calls[c].token # 0
  BY <1>1 DEF Check, Asked, SessionsTypeOK
<1>8. calls[c].token \in Tokens
  <2>1. calls[c].token \in 0..Len(rows)
    BY <1>4 DEF Call
  <2> QED BY <2>1, <1>3, <1>7
<1>9. SessionsTypeOK'
  <2>1. x \in Call' /\ (x.step # "idle" => x.token # 0)
    BY <1>3, <1>5, <1>7
  <2> QED BY <2>1, <1>1, <1>2, <1>3, <1>6, TypesKept DEF Check, SessionsTypeOK
<1>10. rows[calls[c].token].born = endings
  BY <1>8 DEF Check, Accepted, SessionsIInv, EndedStaysEnded
<1>11. ChecksHold'
  <2> SUFFICES ASSUME NEW d \in Callers, calls'[d].step = "checked"
               PROVE  /\ calls'[d].since <= endings
                      /\ calls'[d].since = endings => rows[calls'[d].token].born = endings
    BY <1>2 DEF ChecksHold
  <2>1. CASE d = c
    BY <2>1, <1>1, <1>4, <1>5, <1>6, <1>10 DEF SessionsTypeOK
  <2>2. CASE d # c
    BY <2>2, <1>1, <1>6 DEF SessionsTypeOK, SessionsIInv, ChecksHold
  <2> QED BY <2>1, <2>2
<1> QED BY <1>2, <1>3, <1>9, <1>11, EndedKept DEF SessionsIInv

LEMMA RotateInv == ASSUME SessionsIInv, NEW c \in Callers, Rotate(c) PROVE SessionsIInv'
<1> USE SessionsAssumption
<1> DEFINE t == calls[c].token
           x == [calls[c] EXCEPT !.step = "answered", !.answer = Len(rows) + 1]
<1>1. SessionsTypeOK
  BY DEF SessionsIInv
<1>2. Len(rows) \in Nat /\ Tokens = 1..Len(rows) /\ calls[c] \in Call
  BY <1>1, LenProperties DEF SessionsTypeOK, Tokens
<1>3. t \in Tokens /\ calls[c].since \in 0..MaxEndings
  <2>1. t \in 0..Len(rows) /\ calls[c].since \in 0..MaxEndings
    BY <1>2 DEF Call
  <2>2. t # 0
    BY <1>1 DEF Rotate, SessionsTypeOK
  <2> QED BY <2>1, <2>2, <1>2
<1>4. endings' = endings /\ Len(rows) < MaxTokens /\ begun' = begun
  BY DEF Rotate
<1>5. CASE rows[t].state = "deleted"
  <2>1. rows' = rows /\ calls' = [calls EXCEPT ![c] = Idle]
    BY <1>5 DEF Rotate
  <2>2. RowsStay /\ Idle \in Call' /\ Idle.step = "idle"
    BY <1>1, <1>2, <2>1, Untouched, IdleIsACall DEF Idle
  <2>3. SessionsTypeOK'
    BY <1>1, <1>4, <2>1, <2>2, TypesKept DEF Rotate, SessionsTypeOK
  <2>4. \A d \in Callers : calls'[d].step = "checked" => calls'[d] = calls[d]
    BY <1>1, <2>1, <2>2 DEF SessionsTypeOK
  <2> QED BY <1>1, <1>4, <2>1, <2>3, <2>4, QuietInv DEF Rotate, SessionsTypeOK
<1>6. CASE rows[t].state # "deleted"
  <2>1. rows' = Append(Retired(t), Mint(t, calls[c].since)) /\ calls' = [calls EXCEPT ![c] = x]
    BY <1>6 DEF Rotate
  <2>2. /\ Retired(t) \in Seq(TokenRow) /\ Len(Retired(t)) = Len(rows)
        /\ \A i \in Tokens :
             /\ Retired(t)[i].parent = rows[i].parent /\ Retired(t)[i].born = rows[i].born
             /\ Retired(t)[i].since = rows[i].since /\ Retired(t)[i].root = rows[i].root
             /\ Retired(t)[i].state = "active" => rows[i].state = "active"
    <3>1. \A i \in Tokens : rows[i] \in TokenRow
      BY <1>1, ElementOfSeq, LenProperties DEF SessionsTypeOK, Tokens
    <3>2. Retired(t) \in [Tokens -> TokenRow]
      BY <1>2, <3>1 DEF Retired, TokenRow, Tokens
    <3>3. Retired(t) \in Seq(TokenRow) /\ Len(Retired(t)) = Len(rows)
      BY <1>2, <3>2
    <3>4. \A i \in Tokens : Retired(t)[i] = IF i = t THEN [rows[i] EXCEPT !.state = "revoked", !.expired = FALSE] ELSE rows[i]
      BY DEF Retired, Tokens
    <3>5. \A i \in Tokens : DOMAIN rows[i] = {"parent", "state", "expired", "root", "born", "since"}
      BY <3>1 DEF TokenRow
    <3> QED BY <3>3, <3>4, <3>5
  <2>3. RowAdded(t, calls[c].since)
    <3> DEFINE r == Retired(t)
               s == calls[c].since
    <3>1. r \in Seq(TokenRow) /\ Len(r) = Len(rows) /\ rows' = Append(r, Mint(t, s))
      BY <2>1, <2>2
    <3>2. \A i \in Tokens :
            /\ r[i].parent = rows[i].parent /\ r[i].born = rows[i].born
            /\ r[i].since = rows[i].since /\ r[i].root = rows[i].root
            /\ r[i].state = "active" => rows[i].state = "active"
      BY <2>2
    <3>3. t \in 0..Len(rows) /\ s \in 0..MaxEndings /\ Len(rows) < MaxTokens
      BY <1>2, <1>3, <1>4
    <3> HIDE DEF r, s, t
    <3>4. RowAdded(t, s)
      BY <1>1, <3>1, <3>2, <3>3, Minted
    <3> QED BY <3>4 DEF s
  <2>4. Len(rows') = Len(rows) + 1 /\ Len(rows') <= MaxTokens
    BY <1>2, <1>4, <2>3 DEF RowAdded
  <2>5. x \in Call' /\ x.step = "answered" /\ x.token # 0
    <3>1. 0..Len(rows) \subseteq 0..Len(rows') /\ Len(rows) + 1 \in 0..Len(rows')
      BY <1>2, <2>4
    <3>2. calls[c] \in Call'
      BY <1>2, <3>1 DEF Call
    <3>3. x \in Call' /\ x.step = "answered" /\ x.token = t
      BY <3>1, <3>2 DEF Call
    <3> QED BY <1>3, <1>2, <3>3
  <2>6. store' \in [Browsers -> 0..Len(rows')]
    <3>1. store' = store /\ 0..Len(rows) \subseteq 0..Len(rows')
      BY <1>2, <2>4 DEF Rotate
    <3> QED BY <3>1, <1>1 DEF SessionsTypeOK
  <2>7. SessionsTypeOK'
    BY <1>1, <1>4, <2>1, <2>3, <2>4, <2>5, <2>6, TypesKept DEF Rotate, SessionsTypeOK
  <2>8. \A d \in Callers : calls'[d].step = "checked" => calls'[d] = calls[d]
    BY <1>1, <2>1, <2>5 DEF SessionsTypeOK
  <2>9. ChecksHold'
    BY <1>4, <2>3, <2>8, ChecksKept
  <2>10. calls[c].since < endings \/ (t # 0 /\ rows[t].born = endings)
    BY <1>1, <1>2, <1>3 DEF Rotate, SessionsIInv, ChecksHold, SessionsTypeOK
  <2> QED BY <1>2, <1>3, <1>4, <2>3, <2>7, <2>9, <2>10, EndedMinted DEF SessionsIInv
<1> QED BY <1>5, <1>6

LEMMA LogoutInv == ASSUME SessionsIInv, NEW c \in Callers, ServeLogout(c) PROVE SessionsIInv'
<1> USE SessionsAssumption
<1> DEFINE t == calls[c].token
           x == [calls[c] EXCEPT !.step = "answered"]
<1>1. SessionsTypeOK
  BY DEF SessionsIInv
<1>2. Len(rows) \in Nat /\ Tokens = 1..Len(rows) /\ calls[c] \in Call
  BY <1>1, LenProperties DEF SessionsTypeOK, Tokens
<1>3. t \in Tokens
  <2>1. t \in 0..Len(rows)
    BY <1>2 DEF Call
  <2>2. t # 0
    BY <1>1 DEF ServeLogout, Asked, SessionsTypeOK
  <2> QED BY <2>1, <2>2, <1>2
<1>4. RowsStay
  <2>1. CASE Live(t)
    BY <2>1, <1>1, <1>3, OneChanged DEF ServeLogout, Retired
  <2>2. CASE ~Live(t)
    BY <2>2, <1>1, Untouched DEF ServeLogout
  <2> QED BY <2>1, <2>2
<1>5. Len(rows') = Len(rows) /\ Call' = Call /\ endings' = endings /\ begun' = begun
  BY <1>4 DEF RowsStay, Call, ServeLogout
<1>6. x \in Call /\ x.step = "answered" /\ x.token = t
  BY <1>2 DEF Call
<1>7. calls' = [calls EXCEPT ![c] = x]
  BY DEF ServeLogout
<1>8. rows[t].root \in 1..MaxTokens
  <2>1. rows[t] \in TokenRow
    BY <1>1, <1>2, <1>3, ElementOfSeq DEF SessionsTypeOK
  <2> QED BY <2>1 DEF TokenRow
<1>9. SessionsTypeOK'
  <2>1. x \in Call' /\ (x.step # "idle" => x.token # 0)
    BY <1>2, <1>3, <1>5, <1>6
  <2>2. left' \subseteq 1..MaxTokens
    BY <1>1, <1>8 DEF ServeLogout, SessionsTypeOK
  <2> QED BY <2>1, <2>2, <1>1, <1>4, <1>5, <1>7, TypesKept DEF ServeLogout, SessionsTypeOK
<1>10. \A d \in Callers : calls'[d].step = "checked" => calls'[d] = calls[d]
  BY <1>1, <1>6, <1>7 DEF SessionsTypeOK
<1>11. ChecksHold'
  BY <1>4, <1>5, <1>10, ChecksKept
<1> QED BY <1>4, <1>5, <1>9, <1>11, EndedKept DEF SessionsIInv

LEMMA EndingInv == ASSUME SessionsIInv, ResetPassword \/ Deactivate PROVE SessionsIInv'
<1> USE SessionsAssumption
<1>1. SessionsTypeOK
  BY DEF SessionsIInv
<1>2. RowsStay /\ \A i \in Tokens : rows'[i].state # "active"
  BY <1>1, AllRevoked, AllDeleted DEF ResetPassword, Deactivate
<1>3. Len(rows') = Len(rows)
  BY <1>2 DEF RowsStay
<1>4. endings' = endings + 1 /\ endings' \in 0..MaxEndings /\ calls' = calls /\ begun' = begun
  <2>1. endings \in 0..MaxEndings
    BY <1>1 DEF SessionsTypeOK
  <2>2. endings < MaxEndings /\ endings' = endings + 1 /\ calls' = calls /\ begun' = begun
    BY DEF ResetPassword, Deactivate
  <2> QED BY <2>1, <2>2
<1>5. SessionsTypeOK'
  <2>1. /\ active' \in BOOLEAN /\ store' = store /\ crossed' = crossed
        /\ dropped' = dropped /\ alarms' = alarms /\ left' = left
    BY <1>1 DEF ResetPassword, Deactivate, SessionsTypeOK
  <2> QED BY <1>1, <1>2, <1>3, <1>4, <2>1, TypesKept DEF SessionsTypeOK
<1>6. ChecksHold'
  BY <1>2, <1>4, ChecksKept
<1> QED BY <1>2, <1>4, <1>5, <1>6, EndedAnew DEF SessionsIInv

LEMMA AgeInv == ASSUME SessionsIInv, Activate \/ \E i \in Tokens : Expire(i) PROVE SessionsIInv'
<1>1. SessionsTypeOK
  BY DEF SessionsIInv
<1>2. RowsStay
  <2>1. CASE Activate
    BY <2>1, <1>1, Untouched DEF Activate
  <2>2. CASE \E i \in Tokens : Expire(i)
    <3>1. PICK i \in Tokens : Expire(i)
      BY <2>2
    <3>2. rows[i].state = "active" /\ rows' = [rows EXCEPT ![i].expired = TRUE]
      BY <3>1 DEF Expire, Live
    <3> QED BY <1>1, <3>2, OneChanged
  <2> QED BY <2>1, <2>2
<1>3. Len(rows') = Len(rows) /\ endings' = endings /\ calls' = calls /\ begun' = begun
  BY <1>2 DEF RowsStay, Activate, Expire
<1>4. SessionsTypeOK'
  BY <1>1, <1>2, <1>3, TypesKept DEF Activate, Expire, SessionsTypeOK
<1>5. ChecksHold'
  BY <1>2, <1>3, ChecksKept
<1> QED BY <1>2, <1>3, <1>4, <1>5, EndedKept DEF SessionsIInv

\* What happens in a browser without a call, and the reading of a login.
LEMMA ElsewhereInv ==
  ASSUME SessionsIInv, BeginLogin \/ \E b \in Browsers : Clear(b)
  PROVE  SessionsIInv'
<1> USE SessionsAssumption
<1>1. SessionsTypeOK
  BY DEF SessionsIInv
<1>2. rows' = rows /\ endings' = endings /\ active' \in BOOLEAN /\ calls' = calls /\ endings \in 0..MaxEndings
  BY <1>1 DEF BeginLogin, Clear, SessionsTypeOK
<1>3. RowsStay /\ Len(rows) \in Nat /\ Len(rows') = Len(rows)
  BY <1>1, <1>2, Untouched, LenProperties DEF SessionsTypeOK
<1>4. begun' \subseteq begun \union {endings} /\ begun' \subseteq 0..MaxEndings
  BY <1>1, <1>2 DEF BeginLogin, Clear, SessionsTypeOK
<1>5. store' \in [Browsers -> 0..Len(rows')]
  BY <1>1, <1>3 DEF BeginLogin, Clear, SessionsTypeOK
<1>6. crossed' = crossed /\ dropped' = dropped /\ alarms' = alarms /\ left' = left
  BY DEF BeginLogin, Clear
<1>7. SessionsTypeOK'
  BY <1>1, <1>2, <1>3, <1>4, <1>5, <1>6, TypesKept DEF SessionsTypeOK
<1> QED BY <1>2, <1>4, <1>7, QuietInv

LEMMA LoginInv == ASSUME SessionsIInv, NEW b \in Browsers, NEW heard \in BOOLEAN, Login(b, heard) PROVE SessionsIInv'
<1> USE SessionsAssumption
<1>1. SessionsTypeOK
  BY DEF SessionsIInv
<1>2. /\ Len(rows) \in Nat /\ endings' = endings /\ endings \in 0..MaxEndings
      /\ calls' = calls /\ begun' = begun
  BY <1>1, LenProperties DEF Login, SessionsTypeOK
<1>3. PICK since \in begun : rows' = Append(rows, Mint(0, since))
  BY DEF Login
<1>4. since \in 0..MaxEndings /\ since <= endings
  BY <1>1 DEF SessionsTypeOK, SessionsIInv, NothingAhead
<1>5. RowAdded(0, since)
  <2>1. Len(rows) < MaxTokens /\ rows \in Seq(TokenRow) /\ 0 \in 0..Len(rows)
    BY <1>1, <1>2 DEF Login, SessionsTypeOK
  <2> QED BY <1>1, <1>3, <1>4, <2>1, Minted
<1>6. Len(rows') = Len(rows) + 1 /\ Len(rows') <= MaxTokens
  BY <1>2, <1>5 DEF RowAdded, Login
<1>7. store' \in [Browsers -> 0..Len(rows')]
  <2>1. 0..Len(rows) \subseteq 0..Len(rows') /\ Len(rows) + 1 \in 0..Len(rows')
    BY <1>2, <1>6
  <2>2. store' = store \/ store' = [store EXCEPT ![b] = Len(rows) + 1]
    BY DEF Login
  <2> QED BY <2>1, <2>2, <1>1 DEF SessionsTypeOK
<1>8. SessionsTypeOK'
  BY <1>1, <1>2, <1>5, <1>6, <1>7, TypesKept DEF Login, SessionsTypeOK
<1>9. ChecksHold'
  BY <1>2, <1>5, ChecksKept
<1>10. since < endings \/ since = endings
  BY <1>2, <1>4
<1> QED BY <1>2, <1>4, <1>5, <1>8, <1>9, <1>10, EndedMinted DEF SessionsIInv

LEMMA SessionsStepInv == SessionsIInv /\ [SessionsNext]_sessionVars => SessionsIInv'
<1> SUFFICES ASSUME SessionsIInv, [SessionsNext]_sessionVars PROVE SessionsIInv'
  OBVIOUS
<1>1. CASE UNCHANGED sessionVars
  <2>1. rows' = rows /\ endings' = endings /\ calls' = calls /\ begun' = begun
    BY <1>1 DEF sessionVars
  <2>2. SessionsTypeOK'
    BY <1>1 DEF sessionVars, SessionsIInv, SessionsTypeOK, Call, Tokens
  <2> QED BY <2>1, <2>2, QuietInv DEF SessionsTypeOK
<1>2. ASSUME NEW c \in Callers,
             \/ \E op \in {"refresh", "logout"} : Ask(c, op)
             \/ SoundAlarm(c) \/ Refuse(c) \/ Check(c) \/ Rotate(c) \/ ServeLogout(c)
             \/ Receive(c) \/ Lose(c) \/ FinishLogout(c)
      PROVE  SessionsIInv'
  BY <1>2, CallerInv, AlarmInv, CheckInv, RotateInv, LogoutInv
<1>3. CASE \/ \E b \in Browsers : Clear(b) \/ \E heard \in BOOLEAN : Login(b, heard)
           \/ BeginLogin
           \/ \E i \in Tokens : Expire(i)
           \/ ResetPassword \/ Deactivate \/ Activate
  BY <1>3, LoginInv, ElsewhereInv, AgeInv, EndingInv
<1> QED BY <1>1, <1>2, <1>3 DEF SessionsNext

-----------------------------------------------------------------------------

\* The strengthened invariant holds throughout.
THEOREM SessionsInvariant == SessionsSpec => []SessionsIInv
<1> QED BY SessionsInitInv, SessionsStepInv, PTL DEF SessionsSpec

\* The types of the table, the storages and the calls.
THEOREM SessionTypes == SessionsSpec => []SessionsTypeOK
<1>1. SessionsIInv => SessionsTypeOK
  BY DEF SessionsIInv
<1> QED BY <1>1, SessionsInvariant, PTL

\* A replay, a reset and a suspension end every session but for those of the
\* handlers that are under way: a token that works afterwards was minted
\* afterwards, from one minted afterwards, by a login that read the password
\* afterwards, or by an exchange or a login (auth.login, auth.login_mfa) that
\* had read what it acts on before.
THEOREM EndingsHold == SessionsSpec => []EndedStaysEnded
<1>1. SessionsIInv => EndedStaysEnded
  BY DEF SessionsIInv
<1> QED BY <1>1, SessionsInvariant, PTL

\* Tokens keep their types, and no ending of all sessions leaves one alive but
\* for what a handler under way writes after it; for any browsers, callers and
\* bounds.
THEOREM SessionsAreSound == SessionsSpec => []SessionsInv
BY SessionTypes, EndingsHold, PTL DEF SessionsInv

-----------------------------------------------------------------------------
(***************************************************************************)
(* Why an alarm has a cause (RotationInv): a token is in one browser, the  *)
(* calls that share it have crossed, and one that was used up is held only *)
(* by the call that used it. An exchange that finds its token used up was  *)
(* therefore crossed by another, or an answer of the same login was lost.  *)
(***************************************************************************)

HasChild(t) == \E i \in Tokens : rows[i].parent = t
Waits(c) == calls[c].step # "idle"
Answers(c) == calls[c].step = "answered" /\ calls[c].op = "refresh"
Raced == crossed \union dropped

\* A token that an exchange, or a logout since the last ending, has used up.
Spent(t) == HasChild(t) \/ (rows[t].state = "revoked" /\ rows[t].born = endings)

\* A login none of whose tokens was crossed by a second call or lost.
Clean(r) == \A t \in Raced : rows[t].root # r

\* Every row goes back to a login, was minted by now, and works only until it
\* has a child.
Lineage ==
  /\ left \subseteq Tokens
  /\ \A i \in Tokens : rows[i].root \in Tokens /\ rows[i].born <= endings
  /\ \A i \in Tokens : rows[i].parent # 0 => ~Live(rows[i].parent)

\* A token on its way to a browser is nowhere else, and not used up.
Unused(q) ==
  /\ q \in Tokens /\ ~Spent(q)
  /\ \A b \in Browsers : store[b] # q
  /\ \A d \in Callers : Waits(d) => calls[d].token # q
FreshAnswers ==
  \A c \in Callers : Answers(c) =>
    /\ Unused(calls[c].answer)
    /\ \A d \in Callers : d # c /\ Answers(d) => calls[d].answer # calls[c].answer

\* A token is in one browser.
OneHome ==
  /\ \A a, b \in Browsers : store[a] # 0 /\ store[a] = store[b] => a = b
  /\ \A b \in Browsers, c \in Callers : Waits(c) /\ store[b] = calls[c].token => Home[c] = b
  /\ \A c, d \in Callers : Waits(c) /\ Waits(d) /\ calls[c].token = calls[d].token => Home[c] = Home[d]

\* Two calls that hold a token have been seen to.
SharedIsCrossed ==
  \A c, d \in Callers :
    c # d /\ Waits(c) /\ Waits(d) /\ calls[c].token = calls[d].token => calls[c].token \in crossed

\* A token that is used up is held by the call that used it and by no other,
\* and is in the storage only as long as that call is not through.
SpentIsAnswered ==
  \A t \in Tokens \ Raced : Spent(t) =>
    /\ \A c \in Callers : Waits(c) /\ calls[c].token = t => calls[c].step = "answered"
    /\ \A b \in Browsers : store[b] = t =>
         \E c \in Callers : Home[c] = b /\ calls[c].token = t /\ calls[c].step = "answered"

\* A token is exchanged once, but for crossed calls.
ExchangedOnce ==
  /\ \A c \in Callers :
       calls[c].step = "checked" /\ HasChild(calls[c].token) => calls[c].token \in crossed
  /\ \A i, j \in Tokens :
       i # j /\ rows[i].parent = rows[j].parent => rows[i].parent \in crossed \union {0}

\* A clean login has one newest token, and none that works once it was left.
OneNewest ==
  \A i, j \in Tokens :
    rows[i].root = rows[j].root /\ Clean(rows[i].root) /\ ~HasChild(i) /\ ~HasChild(j) => i = j
LeftIsOver ==
  \A r \in left : Clean(r) =>
    /\ \A i \in Tokens : rows[i].root = r => ~Live(i)
    /\ \A c \in Callers : calls[c].step = "checked" => rows[calls[c].token].root # r

RowInv == Lineage /\ ExchangedOnce /\ OneNewest /\ LeftIsOver
CallInv == FreshAnswers /\ OneHome /\ SharedIsCrossed /\ SpentIsAnswered
RotationIInv == RowInv /\ CallInv /\ AlarmHasACause

-----------------------------------------------------------------------------
(* Steps that use up no token. *)

\* The rows are those there were, none works or is used up that was not.
RowsAged ==
  /\ RowsStay /\ endings' \in {endings, endings + 1}
  /\ \A i \in Tokens :
       rows'[i].state = "revoked" /\ rows[i].born = endings' => rows[i].state = "revoked" /\ rows[i].born = endings

RacesGrow == crossed \subseteq crossed' /\ dropped \subseteq dropped'

\* A call that is checked holds the token it held, which worked or was checked.
ChecksWork ==
  \A c \in Callers : calls'[c].step = "checked" =>
    calls'[c].token = calls[c].token /\ (calls[c].step = "checked" \/ (Waits(c) /\ Live(calls[c].token)))

\* What every call holds was minted.
LEMMA Holdings ==
  ASSUME SessionsIInv
  PROVE  /\ Len(rows) \in Nat /\ Tokens = 1..Len(rows) /\ endings \in Nat
         /\ \A c \in Callers : Waits(c) => calls[c].token \in Tokens
         /\ \A c \in Callers : calls[c].answer \in 0..Len(rows) /\ calls[c].token \in 0..Len(rows)
         /\ \A i \in Tokens : rows[i].parent \in 0..Len(rows) /\ rows[i].root \in Nat /\ rows[i].born \in Nat
         /\ Raced \subseteq Tokens /\ \A b \in Browsers : store[b] \in 0..Len(rows)
<1> USE SessionsAssumption
<1>1. SessionsTypeOK
  BY DEF SessionsIInv
<1>2. Len(rows) \in Nat /\ Tokens = 1..Len(rows) /\ endings \in Nat
  BY <1>1, LenProperties DEF SessionsTypeOK, Tokens
<1>3. \A c \in Callers : calls[c].answer \in 0..Len(rows) /\ calls[c].token \in 0..Len(rows)
  BY <1>1 DEF SessionsTypeOK, Call
<1>4. \A c \in Callers : Waits(c) => calls[c].token \in Tokens
  <2>1. \A c \in Callers : Waits(c) => calls[c].token # 0
    BY <1>1 DEF SessionsTypeOK, Waits
  <2> QED BY <1>2, <1>3, <2>1
<1>5. \A i \in Tokens : rows[i].parent \in 0..Len(rows) /\ rows[i].root \in Nat /\ rows[i].born \in Nat
  <2>1. \A i \in Tokens : rows[i] \in TokenRow
    BY <1>1, <1>2, ElementOfSeq DEF SessionsTypeOK
  <2> QED BY <2>1 DEF SessionsIInv, ParentsThere, TokenRow
<1> QED BY <1>1, <1>2, <1>3, <1>4, <1>5 DEF SessionsTypeOK, Raced

LEMMA AgedFacts ==
  ASSUME SessionsIInv, RowsAged, RacesGrow
  PROVE  /\ Tokens' = Tokens /\ \A t : HasChild(t)' = HasChild(t)
         /\ \A t \in Tokens : Spent(t)' => Spent(t)
         /\ Raced \subseteq Raced' /\ \A r : Clean(r)' => Clean(r)
<1>1. Tokens' = Tokens /\ Raced \subseteq Tokens
  BY Holdings DEF RowsAged, RowsStay, Tokens
<1>2. \A t : HasChild(t)' = HasChild(t)
  BY <1>1 DEF RowsAged, RowsStay, HasChild
<1>3. \A t \in Tokens : Spent(t)' => Spent(t)
  BY <1>1, <1>2 DEF RowsAged, RowsStay, Spent
<1>4. Raced \subseteq Raced'
  BY DEF RacesGrow, Raced
<1>5. \A r : Clean(r)' => Clean(r)
  BY <1>1, <1>4 DEF RowsAged, RowsStay, Clean
<1> QED BY <1>1, <1>2, <1>3, <1>4, <1>5

LEMMA RowPart ==
  ASSUME SessionsIInv, RowInv, RowsAged, RacesGrow, ChecksWork, left' = left
  PROVE  RowInv'
<1>1. /\ Tokens' = Tokens /\ \A t : HasChild(t)' = HasChild(t)
      /\ Raced \subseteq Raced' /\ \A r : Clean(r)' => Clean(r)
  BY AgedFacts
<1>2. /\ Tokens = 1..Len(rows) /\ \A i \in Tokens : rows[i].parent \in 0..Len(rows)
      /\ \A c \in Callers : Waits(c) => calls[c].token \in Tokens
      /\ endings \in Nat /\ \A i \in Tokens : rows[i].born \in Nat
  BY Holdings
<1>3. \A i \in Tokens :
        /\ rows'[i].parent = rows[i].parent /\ rows'[i].root = rows[i].root
        /\ rows'[i].born = rows[i].born /\ (Live(i)' => Live(i))
  BY DEF RowsAged, RowsStay, Live
<1>4. Lineage'
  <2>1. endings' \in {endings, endings + 1}
    BY DEF RowsAged
  <2>2. \A i \in Tokens : rows'[i].root \in Tokens' /\ rows'[i].born <= endings'
    BY <1>1, <1>2, <1>3, <2>1 DEF RowInv, Lineage
  <2>3. \A i \in Tokens : rows[i].parent # 0 => rows[i].parent \in Tokens
    BY <1>2
  <2>4. \A i \in Tokens : rows'[i].parent # 0 => rows'[rows'[i].parent].state # "active"
    BY <1>3, <2>3 DEF RowInv, Lineage, Live
  <2> QED BY <1>1, <2>2, <2>4 DEF RowInv, Lineage, Live
<1>5. \A c \in Callers : calls'[c].step = "checked" =>
        /\ calls'[c].token = calls[c].token /\ calls[c].token \in Tokens
        /\ calls[c].step = "checked" \/ Live(calls[c].token)
  BY <1>2 DEF ChecksWork, Waits
<1>6. \A t \in Tokens : HasChild(t) => ~Live(t)
  BY <1>2 DEF RowInv, Lineage, HasChild
<1>7. ExchangedOnce'
  <2>1. ASSUME NEW c \in Callers, calls'[c].step = "checked", HasChild(calls[c].token)
        PROVE  calls[c].token \in crossed
    BY <1>5, <1>6, <2>1 DEF RowInv, ExchangedOnce
  <2>2. ASSUME NEW c \in Callers, calls'[c].step = "checked", \E i \in Tokens' : rows'[i].parent = calls'[c].token
        PROVE  calls'[c].token \in crossed'
    <3>1. HasChild(calls[c].token)
      BY <1>1, <1>3, <1>5, <2>2 DEF HasChild
    <3> QED BY <1>5, <2>1, <2>2, <3>1 DEF RacesGrow
  <2>3. \A i, j \in Tokens : i # j /\ rows'[i].parent = rows'[j].parent => rows'[i].parent \in crossed' \union {0}
    BY <1>3 DEF RowInv, ExchangedOnce, RacesGrow
  <2> QED BY <1>1, <2>2, <2>3 DEF ExchangedOnce, HasChild
<1>8. OneNewest'
  BY <1>1, <1>3 DEF RowInv, OneNewest
<1>9. LeftIsOver'
  <2> SUFFICES ASSUME NEW r \in left, Clean(r)
               PROVE  /\ \A i \in Tokens : rows'[i].root = r => ~Live(i)'
                      /\ \A c \in Callers : calls'[c].step = "checked" => rows'[calls'[c].token].root # r
    BY <1>1 DEF LeftIsOver
  <2>1. \A i \in Tokens : rows[i].root = r => ~Live(i)
    BY DEF RowInv, LeftIsOver
  <2>2. \A c \in Callers : calls[c].step = "checked" => rows[calls[c].token].root # r
    BY DEF RowInv, LeftIsOver
  <2> QED BY <1>3, <1>5, <2>1, <2>2
<1> QED BY <1>4, <1>7, <1>8, <1>9 DEF RowInv

\* A call keeps what it holds and whether it is answered, or is over: then a
\* token it had used up is out of the storage, or known to be raced.
CallsKeep ==
  /\ \A c \in Callers : calls'[c].step # "idle" =>
       /\ Waits(c) /\ calls'[c].token = calls[c].token /\ calls'[c].op = calls[c].op
       /\ calls'[c].answer = calls[c].answer
       /\ calls'[c].step = "answered" <=> calls[c].step = "answered"
  /\ \A c \in Callers : calls[c].step = "answered" =>
       \/ calls'[c].step = "answered" /\ calls'[c].token = calls[c].token
       \/ calls[c].token \in Raced' \/ store'[Home[c]] = 0
  /\ \A b \in Browsers : store'[b] \in {store[b], 0}

LEMMA CallPart ==
  ASSUME SessionsIInv, CallInv, RowsAged, RacesGrow, CallsKeep
  PROVE  CallInv'
<1>1. /\ Tokens' = Tokens /\ Raced \subseteq Raced' /\ \A t \in Tokens : Spent(t)' => Spent(t)
  BY AgedFacts
<1>2. \A c \in Callers : Waits(c)' => Waits(c) /\ calls'[c].token = calls[c].token
  BY DEF CallsKeep, Waits
<1>3. \A c \in Callers : Waits(c) => calls[c].token \in Tokens /\ calls[c].token # 0
  BY Holdings
<1>4. 0 \notin Tokens
  BY Holdings
<1>5. \A b \in Browsers : store'[b] = store[b] \/ store'[b] = 0
  BY DEF CallsKeep
<1>6. FreshAnswers'
  <2>1. \A c \in Callers : Answers(c)' => Answers(c) /\ calls'[c].answer = calls[c].answer
    BY DEF CallsKeep, Answers
  <2>2. \A q : Unused(q) => Unused(q)'
    BY <1>1, <1>2, <1>4, <1>5 DEF Unused
  <2> QED BY <2>1, <2>2 DEF CallInv, FreshAnswers
<1>7. OneHome'
  BY <1>2, <1>3, <1>5 DEF CallInv, OneHome
<1>8. SharedIsCrossed'
  BY <1>2 DEF CallInv, SharedIsCrossed, RacesGrow
<1>9. SpentIsAnswered'
  <2> SUFFICES ASSUME NEW t \in Tokens, t \notin Raced', Spent(t)
               PROVE  /\ \A c \in Callers : Waits(c)' /\ calls'[c].token = t => calls'[c].step = "answered"
                      /\ \A b \in Browsers : store'[b] = t =>
                           \E c \in Callers : Home[c] = b /\ calls'[c].token = t /\ calls'[c].step = "answered"
    BY <1>1 DEF SpentIsAnswered
  <2>1. /\ \A c \in Callers : Waits(c) /\ calls[c].token = t => calls[c].step = "answered"
        /\ \A b \in Browsers : store[b] = t =>
             \E c \in Callers : Home[c] = b /\ calls[c].token = t /\ calls[c].step = "answered"
    BY <1>1 DEF CallInv, SpentIsAnswered
  <2>2. ASSUME NEW c \in Callers, Waits(c)', calls'[c].token = t PROVE calls'[c].step = "answered"
    BY <1>2, <2>1, <2>2 DEF CallsKeep, Waits
  <2>3. ASSUME NEW b \in Browsers, store'[b] = t
        PROVE  \E c \in Callers : Home[c] = b /\ calls'[c].token = t /\ calls'[c].step = "answered"
    <3>1. store[b] = t /\ t # 0
      BY <1>4, <1>5, <2>3
    <3>2. PICK c \in Callers : Home[c] = b /\ calls[c].token = t /\ calls[c].step = "answered"
      BY <2>1, <3>1
    <3>3. calls'[c].step = "answered" /\ calls'[c].token = t
      BY <2>3, <3>1, <3>2 DEF CallsKeep
    <3> QED BY <3>2, <3>3
  <2> QED BY <2>2, <2>3
<1> QED BY <1>6, <1>7, <1>8, <1>9 DEF CallInv

LEMMA AlarmKept ==
  ASSUME SessionsIInv, AlarmHasACause, RacesGrow, alarms' = alarms, \A i \in Tokens : rows'[i].born = rows[i].born
  PROVE  AlarmHasACause'
<1>1. \A a \in alarms : a.token \in Tokens
  BY DEF SessionsIInv, SessionsTypeOK
<1> QED BY <1>1 DEF AlarmHasACause, RacesGrow

\* What a quiet step, an ending and the age of a token do to the rows.
LEMMA QuietAged ==
  ASSUME SessionsIInv, rows' = rows, endings' = endings
  PROVE  RowsAged
BY Untouched DEF SessionsIInv, RowsAged

LEMMA EndingAged ==
  ASSUME SessionsIInv, Lineage, RowsStay, endings' = endings + 1
  PROVE  RowsAged
<1>1. \A i \in Tokens : rows[i].born <= endings /\ rows[i].born \in Nat /\ endings \in Nat
  BY Holdings DEF Lineage
<1> QED BY <1>1 DEF RowsAged

LEMMA ExpireAged ==
  ASSUME SessionsIInv, NEW i \in Tokens, Expire(i)
  PROVE  RowsAged
<1>1. rows[i].state = "active" /\ rows' = [rows EXCEPT ![i].expired = TRUE] /\ endings' = endings
  BY DEF Expire, Live
<1>2. RowsStay
  BY <1>1, OneChanged DEF SessionsIInv
<1>3. \A j \in Tokens : rows'[j].state = "revoked" => rows[j].state = "revoked"
  <2>1. \A j \in Tokens : rows[j] \in TokenRow
    BY ElementOfSeq, LenProperties DEF SessionsIInv, SessionsTypeOK, Tokens
  <2> QED BY <1>1, <2>1 DEF TokenRow, Tokens
<1> QED BY <1>1, <1>2, <1>3 DEF RowsAged

\* A step that ages the rows and adds no call and no alarm.
LEMMA AgedStep ==
  ASSUME SessionsIInv, RotationIInv, RowsAged, RacesGrow, ChecksWork, CallsKeep, left' = left, alarms' = alarms
  PROVE  RotationIInv'
<1>1. RowInv'
  BY RowPart DEF RotationIInv
<1>2. CallInv'
  BY CallPart DEF RotationIInv
<1>3. AlarmHasACause'
  BY AlarmKept DEF RotationIInv, RowsAged, RowsStay
<1> QED BY <1>1, <1>2, <1>3 DEF RotationIInv

\* A call that is over, and how.
LEMMA CallOver ==
  ASSUME SessionsIInv, NEW c \in Callers, calls' = [calls EXCEPT ![c] = Idle],
         \A b \in Browsers : store'[b] \in {store[b], 0},
         calls[c].step = "answered" => calls[c].token \in Raced' \/ store'[Home[c]] = 0
  PROVE  ChecksWork /\ CallsKeep
<1>1. \A d \in Callers : calls'[d] = IF d = c THEN Idle ELSE calls[d]
  BY DEF SessionsIInv, SessionsTypeOK
<1>2. Idle.step = "idle"
  BY DEF Idle
<1> QED BY <1>1, <1>2 DEF ChecksWork, CallsKeep, Waits

LEMMA RefuseRotation ==
  ASSUME SessionsIInv, RotationIInv, NEW c \in Callers, Refuse(c)
  PROVE  RotationIInv'
<1>1. rows' = rows /\ endings' = endings /\ RacesGrow /\ left' = left /\ alarms' = alarms
  BY DEF Refuse, RacesGrow
<1>2. calls[c].step # "answered" /\ calls' = [calls EXCEPT ![c] = Idle] /\ store' = store
  BY DEF Refuse, Asked
<1> QED BY <1>1, <1>2, QuietAged, CallOver, AgedStep

LEMMA CheckRotation ==
  ASSUME SessionsIInv, RotationIInv, NEW c \in Callers, Check(c)
  PROVE  RotationIInv'
<1>1. rows' = rows /\ endings' = endings /\ RacesGrow /\ left' = left /\ alarms' = alarms /\ store' = store
  BY DEF Check, RacesGrow
<1> DEFINE x == [calls[c] EXCEPT !.step = "checked", !.since = endings]
<1>2. calls[c] \in Call
  BY DEF SessionsIInv, SessionsTypeOK
<1>3. /\ x.step = "checked" /\ x.token = calls[c].token
      /\ x.op = calls[c].op /\ x.answer = calls[c].answer
  BY <1>2 DEF Call
<1>4. \A d \in Callers : calls'[d] = IF d = c THEN x ELSE calls[d]
  BY DEF SessionsIInv, SessionsTypeOK, Check
<1>5. calls[c].step = "asked" /\ Live(calls[c].token)
  BY DEF Check, Asked, Accepted
<1> HIDE DEF x
<1>6. ChecksWork /\ CallsKeep
  BY <1>1, <1>3, <1>4, <1>5 DEF ChecksWork, CallsKeep, Waits
<1> QED BY <1>1, <1>6, QuietAged, AgedStep

\* The answer of an exchange that is lost was one.
LEMMA LoseRotation ==
  ASSUME SessionsIInv, RotationIInv, NEW c \in Callers, Lose(c)
  PROVE  RotationIInv'
<1>1. /\ rows' = rows /\ endings' = endings /\ RacesGrow /\ left' = left /\ alarms' = alarms
      /\ store' = store /\ calls' = [calls EXCEPT ![c] = Idle]
  BY DEF Lose, RacesGrow
<1>2. ASSUME calls[c].step = "answered" PROVE calls[c].token \in Raced'
  <2>1. calls[c].answer \in Tokens
    BY <1>2 DEF Lose, RotationIInv, CallInv, FreshAnswers, Unused, Answers
  <2>2. calls[c].answer # 0
    BY <2>1, Holdings
  <2> QED BY <2>2 DEF Lose, Raced
<1> QED BY <1>1, <1>2, QuietAged, CallOver, AgedStep

LEMMA FinishRotation ==
  ASSUME SessionsIInv, RotationIInv, NEW c \in Callers, FinishLogout(c)
  PROVE  RotationIInv'
<1>1. /\ rows' = rows /\ endings' = endings /\ RacesGrow /\ left' = left /\ alarms' = alarms
      /\ calls' = [calls EXCEPT ![c] = Idle]
  BY DEF FinishLogout, RacesGrow
<1>2. store'[Home[c]] = 0 /\ \A b \in Browsers : store'[b] \in {store[b], 0}
  BY SessionsAssumption DEF FinishLogout, SessionsIInv, SessionsTypeOK
<1> QED BY <1>1, <1>2, QuietAged, CallOver, AgedStep

LEMMA EndingRotation ==
  ASSUME SessionsIInv, RotationIInv, ResetPassword \/ Deactivate
  PROVE  RotationIInv'
<1>1. RowsStay /\ endings' = endings + 1
  BY AllRevoked, AllDeleted DEF ResetPassword, Deactivate, SessionsIInv
<1>2. RowsAged
  BY <1>1, EndingAged DEF RotationIInv, RowInv
<1>3. calls' = calls /\ store' = store /\ RacesGrow /\ left' = left /\ alarms' = alarms
  BY DEF ResetPassword, Deactivate, RacesGrow
<1>4. ChecksWork /\ CallsKeep
  BY <1>3 DEF ChecksWork, CallsKeep, Waits
<1> QED BY <1>2, <1>3, <1>4, AgedStep

LEMMA ElsewhereRotation ==
  ASSUME SessionsIInv, RotationIInv, BeginLogin \/ \E b \in Browsers : Clear(b)
  PROVE  RotationIInv'
<1>1. /\ rows' = rows /\ endings' = endings /\ calls' = calls
      /\ RacesGrow /\ left' = left /\ alarms' = alarms
  BY DEF BeginLogin, Clear, RacesGrow
<1>2. \A b \in Browsers : store'[b] \in {store[b], 0}
  BY DEF BeginLogin, Clear, SessionsIInv, SessionsTypeOK
<1>3. ChecksWork /\ CallsKeep
  BY <1>1, <1>2 DEF ChecksWork, CallsKeep, Waits
<1> QED BY <1>1, <1>3, QuietAged, AgedStep

LEMMA AgeRotation ==
  ASSUME SessionsIInv, RotationIInv, Activate \/ (\E i \in Tokens : Expire(i)) \/ UNCHANGED sessionVars
  PROVE  RotationIInv'
<1>1. RowsAged
  BY QuietAged, ExpireAged DEF Activate, sessionVars
<1>2. calls' = calls /\ store' = store /\ RacesGrow /\ left' = left /\ alarms' = alarms
  BY DEF Activate, Expire, sessionVars, RacesGrow
<1>3. ChecksWork /\ CallsKeep
  BY <1>2 DEF ChecksWork, CallsKeep, Waits
<1> QED BY <1>1, <1>2, <1>3, AgedStep

-----------------------------------------------------------------------------
(* The alarm. *)

\* A token that is there already revoked was crossed, or lost, or revoked by
\* an ending: one that was used up is held by an answered call.
LEMMA SoundRotation ==
  ASSUME SessionsIInv, RotationIInv, NEW c \in Callers, SoundAlarm(c)
  PROVE  RotationIInv'
<1> DEFINE t == calls[c].token
<1>1. RowsStay /\ endings' = endings + 1
  BY AllRevoked DEF SoundAlarm, SessionsIInv
<1>2. RowsAged
  BY <1>1, EndingAged DEF RotationIInv, RowInv
<1>3. /\ store' = store /\ RacesGrow /\ left' = left /\ crossed' = crossed /\ dropped' = dropped
      /\ calls' = [calls EXCEPT ![c] = Idle] /\ calls[c].step = "asked" /\ rows[t].state = "revoked"
      /\ alarms' = alarms \union {[token |-> t, at |-> endings]}
  BY DEF SoundAlarm, RacesGrow, Asked, Reused
<1>4. ChecksWork /\ CallsKeep
  BY <1>3, CallOver
<1>5. RowInv' /\ CallInv'
  BY <1>2, <1>3, <1>4, RowPart, CallPart DEF RotationIInv
<1>6. t \in Tokens /\ Waits(c)
  BY <1>3, Holdings DEF Waits
<1>7. t \in Raced \/ rows[t].born < endings
  <2>1. CASE rows[t].born = endings /\ t \notin Raced
    <3>1. Spent(t)
      BY <1>3, <2>1 DEF Spent
    <3>2. calls[c].step = "answered"
      BY <1>6, <2>1, <3>1 DEF RotationIInv, CallInv, SpentIsAnswered
    <3> QED BY <1>3, <3>2
  <2>2. CASE rows[t].born # endings
    BY <1>6, <2>2, Holdings DEF RotationIInv, RowInv, Lineage
  <2> QED BY <2>1, <2>2
<1>8. \A i \in Tokens : rows'[i].born = rows[i].born
  BY <1>1 DEF RowsStay
<1>9. \A a \in alarms : a.token \in Tokens
  BY DEF SessionsIInv, SessionsTypeOK
<1> HIDE DEF t
<1>10. AlarmHasACause'
  BY <1>3, <1>6, <1>7, <1>8, <1>9 DEF RotationIInv, AlarmHasACause, Raced
<1> QED BY <1>5, <1>10 DEF RotationIInv

-----------------------------------------------------------------------------
(* What a browser asks and hears. *)

\* A token that was used up is in the storage only while its call is not
\* through: whoever takes it up is seen to cross that call.
LEMMA AskRotation ==
  ASSUME SessionsIInv, RotationIInv, NEW c \in Callers, NEW op \in {"refresh", "logout"}, Ask(c, op)
  PROVE  RotationIInv'
<1> USE SessionsAssumption
<1> DEFINE t == store[Home[c]]
           x == Request(op, t)
<1>1. /\ rows' = rows /\ endings' = endings /\ store' = store /\ dropped' = dropped /\ left' = left
      /\ alarms' = alarms /\ calls[c].step = "idle" /\ t # 0 /\ RacesGrow
      /\ crossed' = crossed \union {u \in {t} : \E d \in Neighbours(c) : calls[d].token = u}
  BY DEF Ask, RacesGrow
<1>2. x.step = "asked" /\ x.token = t
  BY DEF Request
<1>3. \A d \in Callers : calls'[d] = IF d = c THEN x ELSE calls[d]
  BY DEF Ask, SessionsIInv, SessionsTypeOK
<1>4. Home[c] \in Browsers /\ t \in Tokens
  BY <1>1, Holdings
<1>5. RowsAged
  BY <1>1, QuietAged
<1> HIDE DEF x
<1>6. ChecksWork
  BY <1>2, <1>3 DEF ChecksWork, Waits
<1>7. RowInv' /\ AlarmHasACause'
  BY <1>1, <1>5, <1>6, RowPart, AlarmKept DEF RotationIInv
<1>8. Tokens' = Tokens /\ Raced \subseteq Raced' /\ \A u \in Tokens : Spent(u)' => Spent(u)
  BY <1>1, <1>5, AgedFacts
<1>9. Waits(c)' /\ calls'[c].token = t /\ ~Waits(c)
  BY <1>1, <1>2, <1>3 DEF Waits
<1>10. \A d \in Callers : d # c => calls'[d] = calls[d] /\ (Waits(d)' <=> Waits(d))
  BY <1>3 DEF Waits
<1>11. ASSUME NEW d \in Callers, d # c, Waits(d), calls[d].token = t
       PROVE  Home[d] = Home[c] /\ t \in crossed'
  <2>1. Home[d] = Home[c]
    BY <1>4, <1>11 DEF RotationIInv, CallInv, OneHome
  <2> QED BY <1>1, <1>11, <2>1 DEF Neighbours, Waits
<1> HIDE DEF t
<1>12. FreshAnswers'
  <2>1. \A q : Unused(q) => q # t
    BY <1>4 DEF Unused, t
  <2>2. \A q : Unused(q) => Unused(q)'
    BY <1>1, <1>8, <1>9, <1>10, <2>1 DEF Unused
  <2>3. \A d \in Callers : Answers(d)' => Answers(d) /\ calls'[d].answer = calls[d].answer
    BY <1>2, <1>3, <1>10 DEF Answers
  <2> QED BY <2>2, <2>3 DEF RotationIInv, CallInv, FreshAnswers
<1>13. OneHome'
  <2>1. \A b \in Browsers : store[b] = t => Home[c] = b
    BY <1>1, <1>4 DEF RotationIInv, CallInv, OneHome, t
  <2>2. \A b \in Browsers, d \in Callers : Waits(d)' /\ store'[b] = calls'[d].token => Home[d] = b
    BY <1>1, <1>9, <1>10, <2>1 DEF RotationIInv, CallInv, OneHome
  <2>3. \A d, e \in Callers : Waits(d)' /\ Waits(e)' /\ calls'[d].token = calls'[e].token => Home[d] = Home[e]
    BY <1>9, <1>10, <1>11 DEF RotationIInv, CallInv, OneHome
  <2> QED BY <1>1, <2>2, <2>3 DEF RotationIInv, CallInv, OneHome
<1>14. SharedIsCrossed'
  BY <1>9, <1>10, <1>11 DEF RotationIInv, CallInv, SharedIsCrossed, RacesGrow, Ask
<1>15. SpentIsAnswered'
  <2> SUFFICES ASSUME NEW u \in Tokens, u \notin Raced', Spent(u)
               PROVE  /\ \A d \in Callers : Waits(d)' /\ calls'[d].token = u => calls'[d].step = "answered"
                      /\ \A b \in Browsers : store[b] = u =>
                           \E d \in Callers : Home[d] = b /\ calls'[d].token = u /\ calls'[d].step = "answered"
    BY <1>1, <1>8 DEF SpentIsAnswered
  <2>1. /\ \A d \in Callers : Waits(d) /\ calls[d].token = u => calls[d].step = "answered"
        /\ \A b \in Browsers : store[b] = u =>
             \E d \in Callers : Home[d] = b /\ calls[d].token = u /\ calls[d].step = "answered"
    BY <1>8 DEF RotationIInv, CallInv, SpentIsAnswered
  <2>2. u # t
    <3>1. SUFFICES ASSUME u = t PROVE FALSE
      OBVIOUS
    <3>2. PICK d \in Callers : calls[d].token = t /\ calls[d].step = "answered"
      BY <1>4, <2>1, <3>1 DEF t
    <3>3. d # c /\ Waits(d)
      BY <1>1, <3>2 DEF Waits
    <3> QED BY <1>11, <3>1, <3>2, <3>3 DEF Raced
  <2>3. \A b \in Browsers : store[b] = u =>
          \E d \in Callers : Home[d] = b /\ calls'[d].token = u /\ calls'[d].step = "answered"
    BY <1>1, <1>10, <2>1
  <2> QED BY <1>9, <1>10, <2>1, <2>2, <2>3
<1> QED BY <1>7, <1>12, <1>13, <1>14, <1>15 DEF RotationIInv, CallInv

\* The child is in no other browser, and takes its parent's place.
LEMMA ReceiveRotation ==
  ASSUME SessionsIInv, RotationIInv, NEW c \in Callers, Receive(c)
  PROVE  RotationIInv'
<1> USE SessionsAssumption
<1> DEFINE q == calls[c].answer
<1>1. /\ rows' = rows /\ endings' = endings /\ crossed' = crossed /\ dropped' = dropped /\ left' = left
      /\ alarms' = alarms /\ Answers(c) /\ RacesGrow
  BY DEF Receive, RacesGrow, Answers
<1>2. \A d \in Callers : calls'[d] = IF d = c THEN Idle ELSE calls[d]
  BY DEF Receive, SessionsIInv, SessionsTypeOK
<1>3. \A b \in Browsers : store'[b] = IF b = Home[c] THEN q ELSE store[b]
  BY DEF Receive, Stored, SessionsIInv, SessionsTypeOK
<1>4. Unused(q) /\ \A d \in Callers : d # c /\ Answers(d) => calls[d].answer # q
  BY <1>1 DEF RotationIInv, CallInv, FreshAnswers
<1>5. q \in Tokens /\ q # 0
  BY <1>4, Holdings DEF Unused
<1> HIDE DEF q
<1>6. RowsAged
  BY <1>1, QuietAged
<1>7. ChecksWork
  BY <1>2 DEF ChecksWork, Idle
<1>8. RowInv' /\ AlarmHasACause'
  BY <1>1, <1>6, <1>7, RowPart, AlarmKept DEF RotationIInv
<1>9. Tokens' = Tokens /\ Raced' = Raced /\ \A u \in Tokens : Spent(u)' => Spent(u)
  BY <1>1, <1>6, AgedFacts DEF Raced
<1>10. \A d \in Callers : Waits(d)' => d # c /\ Waits(d) /\ calls'[d] = calls[d]
  BY <1>2 DEF Waits, Idle
<1>11. \A d \in Callers : calls'[d].step = "answered" => d # c /\ calls'[d] = calls[d]
  BY <1>2 DEF Idle
<1>12. FreshAnswers'
  <2>1. ASSUME NEW p, Unused(p), p # q PROVE Unused(p)'
    BY <1>3, <1>9, <1>10, <2>1 DEF Unused
  <2>2. \A d \in Callers : Answers(d)' => d # c /\ Answers(d) /\ calls'[d].answer = calls[d].answer
    BY <1>11 DEF Answers
  <2> QED BY <1>4, <2>1, <2>2 DEF RotationIInv, CallInv, FreshAnswers
<1>13. OneHome'
  <2>1. \A a, b \in Browsers : store'[a] # 0 /\ store'[a] = store'[b] => a = b
    BY <1>3, <1>4 DEF RotationIInv, CallInv, OneHome, Unused
  <2>2. \A b \in Browsers, d \in Callers : Waits(d)' /\ store'[b] = calls'[d].token => Home[d] = b
    BY <1>3, <1>4, <1>10 DEF RotationIInv, CallInv, OneHome, Unused
  <2>3. \A d, e \in Callers : Waits(d)' /\ Waits(e)' /\ calls'[d].token = calls'[e].token => Home[d] = Home[e]
    BY <1>10 DEF RotationIInv, CallInv, OneHome
  <2> QED BY <2>1, <2>2, <2>3 DEF OneHome
<1>14. SharedIsCrossed'
  BY <1>1, <1>10 DEF RotationIInv, CallInv, SharedIsCrossed
<1>15. SpentIsAnswered'
  <2> SUFFICES ASSUME NEW u \in Tokens, u \notin Raced, Spent(u)
               PROVE  /\ \A d \in Callers : Waits(d)' /\ calls'[d].token = u => calls'[d].step = "answered"
                      /\ \A b \in Browsers : store'[b] = u =>
                           \E d \in Callers : Home[d] = b /\ calls'[d].token = u /\ calls'[d].step = "answered"
    BY <1>9 DEF SpentIsAnswered
  <2>1. /\ \A d \in Callers : Waits(d) /\ calls[d].token = u => calls[d].step = "answered"
        /\ \A b \in Browsers : store[b] = u =>
             \E d \in Callers : Home[d] = b /\ calls[d].token = u /\ calls[d].step = "answered"
    BY DEF RotationIInv, CallInv, SpentIsAnswered
  <2>2. u # q
    BY <1>4 DEF Unused
  <2>3. ASSUME NEW b \in Browsers, store'[b] = u
        PROVE  \E d \in Callers : Home[d] = b /\ calls'[d].token = u /\ calls'[d].step = "answered"
    <3>1. b # Home[c] /\ store[b] = u
      BY <1>3, <2>2, <2>3
    <3>2. PICK d \in Callers : Home[d] = b /\ calls[d].token = u /\ calls[d].step = "answered"
      BY <2>1, <3>1
    <3>3. calls'[d] = calls[d]
      BY <1>2, <3>1, <3>2
    <3> QED BY <3>2, <3>3
  <2> QED BY <1>10, <2>1, <2>3
<1> QED BY <1>8, <1>12, <1>13, <1>14, <1>15 DEF RotationIInv, CallInv

-----------------------------------------------------------------------------
(* The steps that use a token up. *)

\* The call answers, its token is used up and no other, and what is new no
\* one holds yet.
TokenUsed(c) ==
  /\ Waits(c) /\ calls[c].step # "answered"
  /\ calls'[c].step = "answered" /\ calls'[c].token = calls[c].token
  /\ \A d \in Callers \ {c} : calls'[d] = calls[d]
  /\ store' = store /\ crossed' = crossed /\ dropped' = dropped
  /\ Tokens \subseteq Tokens' /\ 0 \notin Tokens'
  /\ \A u \in Tokens' : Spent(u)' => u \in Tokens /\ (Spent(u) \/ u = calls[c].token)
  /\ calls'[c].op = "refresh" => calls'[c].answer \in Tokens' \ Tokens

LEMMA UsedPart ==
  ASSUME SessionsIInv, CallInv, NEW c \in Callers, TokenUsed(c)
  PROVE  CallInv'
<1> DEFINE t == calls[c].token
<1>1. t \in Tokens /\ Waits(c) /\ calls[c].step # "answered"
  BY Holdings DEF TokenUsed
<1>2. calls'[c].step = "answered" /\ calls'[c].token = t
  BY DEF TokenUsed
<1>3. \A d \in Callers : d # c => calls'[d] = calls[d]
  BY DEF TokenUsed
<1>4. store' = store /\ Raced' = Raced /\ crossed' = crossed /\ Tokens \subseteq Tokens'
  BY DEF TokenUsed, Raced
<1>5. \A u \in Tokens' : Spent(u)' => u \in Tokens /\ (Spent(u) \/ u = t)
  BY DEF TokenUsed
<1>6. \A d \in Callers : (Waits(d)' <=> Waits(d)) /\ calls'[d].token = calls[d].token
  BY <1>1, <1>2, <1>3 DEF Waits
<1>7. \A u \in Tokens' \ Tokens : /\ \A b \in Browsers : store[b] # u
                                  /\ \A d \in Callers : Waits(d) => calls[d].token # u
  <2>1. 0 \notin Tokens'
    BY DEF TokenUsed
  <2>2. ASSUME NEW b \in Browsers PROVE store[b] = 0 \/ store[b] \in Tokens
    <3>1. Tokens = 1..Len(rows) /\ Len(rows) \in Nat
      BY Holdings
    <3>2. store[b] \in 0..Len(rows)
      BY Holdings
    <3> QED BY <3>1, <3>2
  <2>3. \A d \in Callers : Waits(d) => calls[d].token \in Tokens
    BY Holdings
  <2> QED BY <2>1, <2>2, <2>3
<1>8. Answers(c)' => calls'[c].answer \in Tokens' \ Tokens
  BY DEF TokenUsed, Answers
<1> HIDE DEF t
<1>9. FreshAnswers'
  <2>1. ASSUME NEW q, Unused(q) PROVE Unused(q)'
    <3>1. q # t /\ q \in Tokens
      BY <1>1, <2>1 DEF Unused, t
    <3> QED BY <1>4, <1>5, <1>6, <2>1, <3>1 DEF Unused
  <2>2. ASSUME NEW q \in Tokens' \ Tokens PROVE Unused(q)'
    BY <1>4, <1>5, <1>6, <1>7 DEF Unused
  <2>3. \A d \in Callers : d # c => (Answers(d)' <=> Answers(d))
    BY <1>3 DEF Answers
  <2>4. \A d \in Callers : d # c /\ Answers(d) => Unused(calls[d].answer) /\ calls[d].answer \in Tokens
    BY DEF CallInv, FreshAnswers, Unused
  <2>5. ASSUME NEW d \in Callers, Answers(d)', NEW q, q = calls'[d].answer
        PROVE  Unused(q)'
    <3>1. CASE d = c
      BY <1>8, <2>2, <2>5, <3>1
    <3>2. CASE d # c
      BY <1>3, <2>1, <2>3, <2>4, <2>5, <3>2
    <3> QED BY <3>1, <3>2
  <2>6. ASSUME NEW d \in Callers, NEW e \in Callers, d # e, Answers(d)', Answers(e)'
        PROVE  calls'[d].answer # calls'[e].answer
    <3>1. CASE d # c /\ e # c
      BY <1>3, <2>3, <2>6, <3>1 DEF CallInv, FreshAnswers
    <3>2. CASE d = c \/ e = c
      BY <1>3, <1>8, <2>3, <2>4, <2>6, <3>2
    <3> QED BY <3>1, <3>2
  <2> QED BY <2>5, <2>6 DEF FreshAnswers
<1>10. OneHome'
  BY <1>4, <1>6 DEF CallInv, OneHome
<1>11. SharedIsCrossed'
  BY <1>4, <1>6 DEF CallInv, SharedIsCrossed
<1>12. SpentIsAnswered'
  <2> SUFFICES ASSUME NEW u \in Tokens, u \notin Raced, Spent(u) \/ u = t
               PROVE  /\ \A d \in Callers : Waits(d)' /\ calls'[d].token = u => calls'[d].step = "answered"
                      /\ \A b \in Browsers : store[b] = u =>
                           \E d \in Callers : Home[d] = b /\ calls'[d].token = u /\ calls'[d].step = "answered"
    BY <1>4, <1>5 DEF SpentIsAnswered
  <2>1. CASE u = t
    <3>1. \A d \in Callers : Waits(d) /\ calls[d].token = t => d = c
      BY <1>1, <2>1 DEF CallInv, SharedIsCrossed, Raced, t
    <3>2. \A b \in Browsers : store[b] = t => Home[c] = b
      BY <1>1 DEF CallInv, OneHome, t
    <3> QED BY <1>2, <1>6, <2>1, <3>1, <3>2
  <2>2. CASE u # t
    <3>1. Spent(u)
      BY <2>2
    <3>2. /\ \A d \in Callers : Waits(d) /\ calls[d].token = u => calls[d].step = "answered"
          /\ \A b \in Browsers : store[b] = u =>
               \E d \in Callers : Home[d] = b /\ calls[d].token = u /\ calls[d].step = "answered"
      BY <3>1 DEF CallInv, SpentIsAnswered
    <3>3. \A d \in Callers : calls[d].token = u /\ calls[d].step = "answered" => calls'[d] = calls[d]
      BY <1>1, <1>3
    <3>4. \A d \in Callers : Waits(d) /\ calls[d].token = u => d # c /\ calls'[d] = calls[d]
      BY <1>3, <2>2 DEF t
    <3> QED BY <1>6, <3>2, <3>3, <3>4
  <2> QED BY <2>1, <2>2
<1> QED BY <1>9, <1>10, <1>11, <1>12 DEF CallInv

\* A clean login is logged out of with its newest token, which no exchange
\* has checked.
LEMMA LogoutRotation ==
  ASSUME SessionsIInv, RotationIInv, NEW c \in Callers, ServeLogout(c)
  PROVE  RotationIInv'
<1> DEFINE t == calls[c].token
           x == [calls[c] EXCEPT !.step = "answered"]
<1>1. /\ calls[c].step = "asked" /\ calls[c].op = "logout" /\ Waits(c) /\ RacesGrow
      /\ endings' = endings /\ store' = store /\ crossed' = crossed /\ dropped' = dropped /\ alarms' = alarms
      /\ left' = left \union {rows[t].root}
  BY DEF ServeLogout, Asked, Waits, RacesGrow
<1>2. t \in Tokens
  BY <1>1, Holdings
<1>3. x.step = "answered" /\ x.token = t /\ x.op = "logout"
  BY <1>1 DEF SessionsIInv, SessionsTypeOK, Call
<1>4. \A d \in Callers : calls'[d] = IF d = c THEN x ELSE calls[d]
  BY DEF ServeLogout, SessionsIInv, SessionsTypeOK
<1>5. \A i \in Tokens : rows[i] \in TokenRow
  BY ElementOfSeq, LenProperties DEF SessionsIInv, SessionsTypeOK, Tokens
<1>6. /\ Tokens' = Tokens /\ rows'[t].state # "active"
      /\ \A i \in Tokens :
           /\ rows'[i].parent = rows[i].parent /\ rows'[i].root = rows[i].root /\ rows'[i].born = rows[i].born
           /\ (Live(i)' => Live(i)) /\ (i # t => rows'[i] = rows[i])
  <2>1. CASE Live(t)
    <3>1. rows' = [rows EXCEPT ![t].state = "revoked", ![t].expired = FALSE]
      BY <2>1 DEF ServeLogout, Retired
    <3>2. Tokens' = Tokens /\ \A i \in Tokens : rows'[i] = IF i = t THEN [rows[t] EXCEPT !.state = "revoked", !.expired = FALSE] ELSE rows[i]
      BY <3>1 DEF Tokens
    <3>3. /\ rows'[t].parent = rows[t].parent /\ rows'[t].root = rows[t].root /\ rows'[t].born = rows[t].born
          /\ rows'[t].state = "revoked"
      BY <1>2, <1>5, <3>2 DEF TokenRow
    <3> HIDE DEF t
    <3> QED BY <1>2, <3>2, <3>3 DEF Live
  <2>2. CASE ~Live(t)
    BY <2>2 DEF ServeLogout, Tokens, Live
  <2> QED BY <2>1, <2>2
<1> HIDE DEF x
<1>7. \A u : HasChild(u)' = HasChild(u)
  BY <1>6 DEF HasChild
<1>8. \A u \in Tokens : Spent(u)' => Spent(u) \/ u = t
  BY <1>1, <1>6, <1>7 DEF Spent
<1>9. Raced' = Raced /\ Raced \subseteq Tokens /\ \A r : Clean(r)' = Clean(r)
  <2>1. Raced' = Raced /\ Raced \subseteq Tokens
    BY <1>1, Holdings DEF Raced
  <2> QED BY <1>6, <2>1 DEF Clean
<1>10. CallInv'
  <2>1. TokenUsed(c)
    <3>1. 0 \notin Tokens
      BY Holdings
    <3> QED BY <1>1, <1>3, <1>4, <1>6, <1>8, <3>1 DEF TokenUsed
  <2> QED BY <2>1, UsedPart DEF RotationIInv
<1>11. \A i \in Tokens : (rows[i].parent # 0 => rows[i].parent \in Tokens) /\ (HasChild(i) => ~Live(i))
  <2>1. \A i \in Tokens : rows[i].parent # 0 => rows[i].parent \in Tokens
    BY Holdings
  <2>2. 0 \notin Tokens
    BY Holdings
  <2> QED BY <2>1, <2>2 DEF RotationIInv, RowInv, Lineage, HasChild
<1>12. \A d \in Callers : calls'[d].step = "checked" => d # c /\ calls'[d] = calls[d] /\ Waits(d)
  BY <1>3, <1>4 DEF Waits
<1> HIDE DEF t
<1>13. Lineage'
  <2>1. \A i \in Tokens : rows'[i].parent # 0 => ~(rows'[rows'[i].parent].state = "active")
    BY <1>6, <1>11 DEF RotationIInv, RowInv, Lineage, Live
  <2> QED BY <1>1, <1>2, <1>6, <2>1 DEF RotationIInv, RowInv, Lineage, Live
<1>14. ExchangedOnce'
  <2>1. \A d \in Callers : calls'[d].step = "checked" /\ HasChild(calls'[d].token) => calls'[d].token \in crossed'
    BY <1>1, <1>12 DEF RotationIInv, RowInv, ExchangedOnce
  <2>2. \A i, j \in Tokens : i # j /\ rows'[i].parent = rows'[j].parent => rows'[i].parent \in crossed' \union {0}
    BY <1>1, <1>6 DEF RotationIInv, RowInv, ExchangedOnce
  <2>3. \A d \in Callers : (HasChild(calls[d].token))' = HasChild(calls'[d].token)
    BY <1>6 DEF HasChild
  <2> QED BY <1>6, <2>1, <2>2, <2>3 DEF ExchangedOnce
<1>15. OneNewest'
  BY <1>6, <1>7, <1>9 DEF RotationIInv, RowInv, OneNewest
<1>16. ASSUME Clean(rows[t].root), NEW i \in Tokens, rows[i].root = rows[t].root, ~HasChild(i)
       PROVE  i = t
  <2>1. t \notin Raced
    BY <1>16 DEF Clean
  <2>2. ~HasChild(t)
    BY <1>1, <1>2, <2>1 DEF RotationIInv, CallInv, SpentIsAnswered, Spent, t
  <2> QED BY <1>2, <1>16, <2>2 DEF RotationIInv, RowInv, OneNewest
<1>17. LeftIsOver'
  <2> SUFFICES ASSUME NEW r \in left \union {rows[t].root}, Clean(r)
               PROVE  /\ \A i \in Tokens : rows[i].root = r => ~Live(i)'
                      /\ \A d \in Callers : calls'[d].step = "checked" => rows'[calls'[d].token].root # r
    BY <1>1, <1>6, <1>9 DEF LeftIsOver
  <2>1. CASE r \in left
    <3>1. \A i \in Tokens : rows[i].root = r => ~Live(i)
      BY <2>1 DEF RotationIInv, RowInv, LeftIsOver
    <3>2. \A d \in Callers : calls[d].step = "checked" => rows[calls[d].token].root # r
      BY <2>1 DEF RotationIInv, RowInv, LeftIsOver
    <3>3. \A d \in Callers : Waits(d) => calls[d].token \in Tokens
      BY Holdings
    <3> QED BY <1>6, <1>12, <3>1, <3>2, <3>3
  <2>2. CASE r = rows[t].root
    <3>1. ASSUME NEW i \in Tokens, rows[i].root = r PROVE ~Live(i)'
      <4>1. CASE i = t
        BY <1>6, <4>1 DEF Live
      <4>2. CASE i # t
        <5>1. HasChild(i)
          BY <1>16, <2>2, <3>1, <4>2
        <5> QED BY <1>6, <1>11, <5>1
      <4> QED BY <4>1, <4>2
    <3>2. ASSUME NEW d \in Callers, calls'[d].step = "checked", rows'[calls'[d].token].root = r PROVE FALSE
      <4> DEFINE u == calls[d].token
      <4>1. d # c /\ Waits(d) /\ calls[d].step = "checked" /\ u \in Tokens /\ calls'[d].token = u
        BY <1>12, <3>2, Holdings
      <4>2. rows[u].root = r
        BY <1>6, <3>2, <4>1
      <4>3. u \notin crossed
        BY <4>2 DEF Clean, Raced
      <4>4. ~HasChild(u)
        BY <4>1, <4>3 DEF RotationIInv, RowInv, ExchangedOnce
      <4>5. u = t
        BY <1>16, <2>2, <4>1, <4>2, <4>4
      <4> QED BY <1>1, <4>1, <4>3, <4>5 DEF RotationIInv, CallInv, SharedIsCrossed, t
    <3> QED BY <3>1, <3>2
  <2> QED BY <2>1, <2>2
<1>18. AlarmHasACause'
  BY <1>1, <1>6, AlarmKept DEF RotationIInv
<1> QED BY <1>10, <1>13, <1>14, <1>15, <1>17, <1>18 DEF RotationIInv, RowInv

\* A row was added, the child of t or of none, and t retired.
Grown(t, root) ==
  /\ Tokens' = Tokens \union {Len(rows) + 1}
  /\ \A i \in Tokens :
       /\ rows'[i].parent = rows[i].parent /\ rows'[i].root = rows[i].root /\ rows'[i].born = rows[i].born
       /\ rows'[i].state = "active" => rows[i].state = "active"
       /\ i # t => rows'[i].state = rows[i].state
  /\ t \in Tokens => rows'[t].state # "active"
  /\ LET n == Len(rows) + 1 IN
     /\ rows'[n].parent = t /\ rows'[n].root = root /\ rows'[n].born = endings /\ rows'[n].state = "active"

LEMMA GrownFacts ==
  ASSUME SessionsIInv, NEW t \in 0..Len(rows), NEW root, Grown(t, root),
         endings' = endings, crossed' = crossed, dropped' = dropped
  PROVE  /\ Len(rows) + 1 \notin Tokens /\ 0 \notin Tokens'
         /\ \A u \in Tokens' : HasChild(u)' <=> u \in Tokens /\ (HasChild(u) \/ u = t)
         /\ \A u \in Tokens' : Spent(u)' => u \in Tokens /\ (Spent(u) \/ u = t)
         /\ Raced' = Raced /\ Raced \subseteq Tokens /\ \A r : Clean(r)' = Clean(r)
<1> DEFINE n == Len(rows) + 1
<1>1. Len(rows) \in Nat /\ Tokens = 1..Len(rows)
  BY Holdings
<1>2. n \notin Tokens /\ 0 \notin Tokens /\ n # 0 /\ t # n /\ t \in Tokens \union {0}
  BY <1>1
<1>3. ASSUME NEW i \in Tokens PROVE rows[i].parent # n
  <2>1. rows[i].parent \in 0..Len(rows)
    BY Holdings
  <2> QED BY <1>1, <2>1
<1>4. /\ Tokens' = Tokens \union {n} /\ rows'[n].parent = t /\ rows'[n].state = "active"
      /\ \A i \in Tokens : rows'[i].parent = rows[i].parent /\ rows'[i].born = rows[i].born
      /\ \A i \in Tokens : i # t => rows'[i].state = rows[i].state
  BY DEF Grown
<1>5. Raced' = Raced /\ Raced \subseteq Tokens
  BY Holdings DEF Raced
<1>6. \A r : Clean(r)' = Clean(r)
  BY <1>5 DEF Clean, Grown
<1> HIDE DEF n
<1>7. \A u \in Tokens' : HasChild(u)' <=> u \in Tokens /\ (HasChild(u) \/ u = t)
  <2>1. ASSUME NEW u \in Tokens', HasChild(u)' PROVE u \in Tokens /\ (HasChild(u) \/ u = t)
    BY <1>2, <1>3, <1>4, <2>1 DEF HasChild
  <2>2. ASSUME NEW u \in Tokens, HasChild(u) \/ u = t PROVE HasChild(u)'
    BY <1>4, <2>2 DEF HasChild
  <2> QED BY <2>1, <2>2
<1>8. \A u \in Tokens' : Spent(u)' => u \in Tokens /\ (Spent(u) \/ u = t)
  BY <1>4, <1>7 DEF Spent
<1> QED BY <1>2, <1>4, <1>5, <1>6, <1>7, <1>8 DEF n

LEMMA GrownLineage ==
  ASSUME SessionsIInv, Lineage, NEW t \in 0..Len(rows), NEW root \in Tokens', Grown(t, root), endings' = endings,
         left' = left
  PROVE  Lineage'
<1> DEFINE n == Len(rows) + 1
<1>1. Len(rows) \in Nat /\ Tokens = 1..Len(rows) /\ endings \in Nat
  BY Holdings
<1>2. t \in Tokens \/ t = 0
  BY <1>1
<1>3. Tokens' = Tokens \union {n}
  BY DEF Grown
<1>4. ASSUME NEW i \in Tokens, rows[i].parent # 0 PROVE rows[i].parent \in Tokens
  <2>1. rows[i].parent \in 0..Len(rows)
    BY Holdings
  <2> QED BY <1>1, <1>4, <2>1
<1>5. \A i \in Tokens : rows'[i].parent # 0 => rows'[rows'[i].parent].state # "active"
  BY <1>4 DEF Grown, Lineage, Live
<1>6. rows'[n].parent # 0 => rows'[rows'[n].parent].state # "active"
  BY <1>2 DEF Grown
<1>7. \A i \in Tokens' : rows'[i].root \in Tokens' /\ rows'[i].born <= endings'
  BY <1>1, <1>3 DEF Grown, Lineage
<1> HIDE DEF n
<1> QED BY <1>3, <1>5, <1>6, <1>7 DEF Lineage, Live

\* The row that an exchange adds, and what becomes of its parent's.
LEMMA RotateGrows ==
  ASSUME SessionsIInv, NEW t \in Tokens, NEW since, rows' = Append(Retired(t), Mint(t, since))
  PROVE  Grown(t, rows[t].root)
<1> DEFINE n == Len(rows) + 1
           m == Mint(t, since)
           s == Retired(t)
<1>1. Len(rows) \in Nat /\ Tokens = 1..Len(rows)
  BY Holdings
<1>2. \A i \in Tokens : rows[i] \in TokenRow
  BY ElementOfSeq, LenProperties DEF SessionsIInv, SessionsTypeOK, Tokens
<1>3. t # 0
  BY <1>1
<1>4. m.parent = t /\ m.root = rows[t].root /\ m.born = endings /\ m.state = "active"
  BY <1>3 DEF Mint
<1>5. \A i \in Tokens : s[i] = IF i = t THEN [rows[t] EXCEPT !.state = "revoked", !.expired = FALSE] ELSE rows[i]
  BY DEF Retired, Tokens
<1>6. /\ \A i \in Tokens : i # t => s[i] = rows[i]
      /\ s[t].parent = rows[t].parent /\ s[t].root = rows[t].root /\ s[t].born = rows[t].born
      /\ s[t].state = "revoked"
  BY <1>2, <1>5 DEF TokenRow
<1>7. s \in [1..Len(rows) -> TokenRow]
  BY <1>1, <1>2 DEF Retired, TokenRow, Tokens
<1>8. s \in Seq(TokenRow) /\ Len(s) = Len(rows)
  BY <1>1, <1>7
<1> HIDE DEF m, s
<1>9. s \in Seq(TokenRow \union {m}) /\ m \in TokenRow \union {m} /\ rows' = Append(s, m)
  BY <1>8 DEF m, s
<1>10. /\ rows' \in Seq(TokenRow \union {m}) /\ Len(rows') = n /\ rows'[n] = m
       /\ \A i \in 1..Len(rows) : rows'[i] = s[i]
  BY <1>1, <1>8, <1>9, AppendProperties
<1>11. DOMAIN rows' = 1..n
  BY <1>10, LenProperties
<1>12. Tokens' = Tokens \union {n}
  BY <1>1, <1>11 DEF Tokens
<1> HIDE DEF n
<1> QED BY <1>1, <1>4, <1>6, <1>10, <1>12 DEF Grown, n

LEMMA LoginGrows ==
  ASSUME SessionsIInv, NEW since, rows' = Append(rows, Mint(0, since))
  PROVE  Grown(0, Len(rows) + 1)
<1> DEFINE n == Len(rows) + 1
           m == Mint(0, since)
<1>1. Len(rows) \in Nat /\ Tokens = 1..Len(rows)
  BY Holdings
<1>2. m.parent = 0 /\ m.root = n /\ m.born = endings /\ m.state = "active"
  BY DEF Mint
<1> HIDE DEF m
<1>3. rows \in Seq(TokenRow \union {m}) /\ m \in TokenRow \union {m} /\ rows' = Append(rows, m)
  BY DEF m, SessionsIInv, SessionsTypeOK
<1>4. /\ rows' \in Seq(TokenRow \union {m}) /\ Len(rows') = n /\ rows'[n] = m
      /\ \A i \in 1..Len(rows) : rows'[i] = rows[i]
  BY <1>3, AppendProperties
<1>5. DOMAIN rows' = 1..n
  BY <1>4, LenProperties
<1>6. Tokens' = Tokens \union {n}
  BY <1>1, <1>5 DEF Tokens
<1> HIDE DEF n
<1> QED BY <1>1, <1>2, <1>4, <1>6 DEF Grown, n

\* A parent that has a child already was checked by two calls: they crossed.
LEMMA RotateRotation ==
  ASSUME SessionsIInv, RotationIInv, NEW c \in Callers, Rotate(c)
  PROVE  RotationIInv'
<1> DEFINE t == calls[c].token
           n == Len(rows) + 1
           x == [calls[c] EXCEPT !.step = "answered", !.answer = n]
<1>1. /\ calls[c].step = "checked" /\ Waits(c) /\ RacesGrow /\ left' = left
      /\ endings' = endings /\ store' = store /\ crossed' = crossed /\ dropped' = dropped /\ alarms' = alarms
  BY DEF Rotate, Waits, RacesGrow
<1>2. t \in Tokens /\ t \in 0..Len(rows)
  BY <1>1, Holdings
<1>3. CASE rows[t].state = "deleted"
  <2>1. rows' = rows /\ calls' = [calls EXCEPT ![c] = Idle]
    BY <1>3 DEF Rotate
  <2> QED BY <1>1, <2>1, QuietAged, CallOver, AgedStep
<1>4. CASE rows[t].state # "deleted"
  <2>1. rows' = Append(Retired(t), Mint(t, calls[c].since)) /\ calls' = [calls EXCEPT ![c] = x]
    BY <1>4 DEF Rotate
  <2>2. Grown(t, rows[t].root)
    BY <1>2, <2>1, RotateGrows
  <2>3. /\ n \notin Tokens /\ 0 \notin Tokens' /\ Tokens' = Tokens \union {n}
        /\ \A u \in Tokens' : HasChild(u)' <=> u \in Tokens /\ (HasChild(u) \/ u = t)
        /\ \A u \in Tokens' : Spent(u)' => u \in Tokens /\ (Spent(u) \/ u = t)
        /\ Raced' = Raced /\ Raced \subseteq Tokens /\ \A r : Clean(r)' = Clean(r)
    <3>1. Tokens' = Tokens \union {n}
      BY <2>2 DEF Grown
    <3> HIDE DEF t
    <3> QED BY <1>1, <1>2, <2>2, <3>1, GrownFacts
  <2>4. x.step = "answered" /\ x.token = t /\ x.answer = n
    BY DEF SessionsIInv, SessionsTypeOK, Call
  <2>5. \A d \in Callers : calls'[d] = IF d = c THEN x ELSE calls[d]
    BY <2>1 DEF SessionsIInv, SessionsTypeOK
  <2> HIDE DEF x, n
  <2>6. CallInv'
    <3>1. TokenUsed(c)
      BY <1>1, <2>3, <2>4, <2>5 DEF TokenUsed
    <3> QED BY <3>1, UsedPart DEF RotationIInv
  <2>7. \A d \in Callers : calls'[d].step = "checked" =>
          d # c /\ calls'[d] = calls[d] /\ Waits(d) /\ calls[d].token \in Tokens /\ calls[d].step = "checked"
    <3>1. \A d \in Callers : calls'[d].step = "checked" => d # c /\ calls'[d] = calls[d] /\ Waits(d)
      BY <2>4, <2>5 DEF Waits
    <3> QED BY <3>1, Holdings
  <2>8. HasChild(t) => t \in crossed
    BY <1>1 DEF RotationIInv, RowInv, ExchangedOnce
  <2>9. \A d \in Callers : d # c /\ Waits(d) /\ calls[d].token = t => t \in crossed
    BY <1>1 DEF RotationIInv, CallInv, SharedIsCrossed
  <2>10. /\ rows[t].root \in Tokens' /\ \A i \in Tokens : rows[i].root \in Tokens
    BY <1>2, <2>3 DEF RotationIInv, RowInv, Lineage
  <2>11. t \in crossed => ~Clean(rows[t].root)
    BY DEF Clean, Raced
  <2>12. calls[c].step = "checked" /\ (rows[t].root \in left /\ Clean(rows[t].root) => FALSE)
    BY <1>1 DEF RotationIInv, RowInv, LeftIsOver
  <2>13. Lineage'
    BY <1>1, <1>2, <2>2, <2>10, GrownLineage DEF RotationIInv, RowInv
  <2> HIDE DEF t
  <2>14. ExchangedOnce'
    <3>1. ASSUME NEW d \in Callers, calls'[d].step = "checked", NEW u, u = calls'[d].token, HasChild(u)'
          PROVE  u \in crossed
      <4>1. u = calls[d].token /\ u \in Tokens /\ d # c /\ Waits(d) /\ calls[d].step = "checked"
        BY <2>7, <3>1
      <4>2. HasChild(u) \/ u = t
        BY <2>3, <3>1, <4>1
      <4> QED BY <2>9, <4>1, <4>2 DEF RotationIInv, RowInv, ExchangedOnce
    <3>2. ASSUME NEW i \in Tokens', NEW j \in Tokens', i # j, rows'[i].parent = rows'[j].parent
          PROVE  rows'[i].parent \in crossed \union {0}
      <4>1. CASE i \in Tokens /\ j \in Tokens
        BY <3>2, <4>1, <2>2 DEF Grown, RotationIInv, RowInv, ExchangedOnce
      <4>2. CASE i = n /\ j \in Tokens
        BY <3>2, <4>2, <2>2, <2>8 DEF Grown, HasChild, n
      <4>3. CASE j = n /\ i \in Tokens
        BY <3>2, <4>3, <2>2, <2>8 DEF Grown, HasChild, n
      <4> QED BY <3>2, <4>1, <4>2, <4>3, <2>3
    <3> QED BY <1>1, <3>1, <3>2 DEF ExchangedOnce
  <2>15. OneNewest'
    <3> SUFFICES ASSUME NEW i \in Tokens', NEW j \in Tokens', rows'[i].root = rows'[j].root,
                        Clean(rows'[i].root), ~HasChild(i)', ~HasChild(j)'
                 PROVE  i = j
      BY <2>3 DEF OneNewest
    <3>1. /\ i \in Tokens => i # t /\ ~HasChild(i) /\ rows'[i].root = rows[i].root
          /\ j \in Tokens => j # t /\ ~HasChild(j) /\ rows'[j].root = rows[j].root
      BY <2>2, <2>3 DEF Grown
    <3>2. rows'[n].root = rows[t].root
      BY <2>2 DEF Grown, n
    <3>3. CASE i \in Tokens /\ j \in Tokens
      BY <3>1, <3>3 DEF RotationIInv, RowInv, OneNewest
    <3>4. ASSUME NEW k \in Tokens, rows[k].root = rows[t].root, Clean(rows[k].root), ~HasChild(k)
          PROVE  k = t
      <4>1. ~HasChild(t)
        BY <2>8, <2>11, <3>4
      <4> QED BY <1>2, <3>4, <4>1 DEF RotationIInv, RowInv, OneNewest, t
    <3>5. CASE i = n /\ j \in Tokens
      BY <3>1, <3>2, <3>4, <3>5
    <3>6. CASE j = n /\ i \in Tokens
      BY <3>1, <3>2, <3>4, <3>6
    <3> QED BY <3>3, <3>5, <3>6, <2>3
  <2>16. LeftIsOver'
    <3> SUFFICES ASSUME NEW r \in left, Clean(r)
                 PROVE  /\ \A i \in Tokens' : rows'[i].root = r => rows'[i].state # "active"
                        /\ \A d \in Callers : calls'[d].step = "checked" => rows'[calls'[d].token].root # r
      BY <1>1, <2>3 DEF LeftIsOver, Live
    <3>1. \A i \in Tokens : rows[i].root = r => rows[i].state # "active"
      BY DEF RotationIInv, RowInv, LeftIsOver, Live
    <3>2. \A d \in Callers : calls[d].step = "checked" => rows[calls[d].token].root # r
      BY DEF RotationIInv, RowInv, LeftIsOver
    <3>3. rows[t].root # r
      BY <2>12
    <3>4. rows'[n].root # r
      BY <2>2, <3>3 DEF Grown, n
    <3>5. \A i \in Tokens : rows'[i].root = r => rows'[i].state # "active"
      BY <2>2, <3>1 DEF Grown
    <3>6. \A d \in Callers : calls'[d].step = "checked" => rows'[calls'[d].token].root # r
      BY <2>2, <2>7, <3>2 DEF Grown
    <3> QED BY <2>3, <3>4, <3>5, <3>6
  <2>17. AlarmHasACause'
    BY <1>1, <2>2, AlarmKept DEF RotationIInv, Grown
  <2> QED BY <2>6, <2>13, <2>14, <2>15, <2>16, <2>17 DEF RotationIInv, RowInv
<1> QED BY <1>3, <1>4

LEMMA LoginRotation ==
  ASSUME SessionsIInv, RotationIInv, NEW b \in Browsers, NEW heard \in BOOLEAN, Login(b, heard)
  PROVE  RotationIInv'
<1> DEFINE n == Len(rows) + 1
<1>1. /\ calls' = calls /\ RacesGrow /\ left' = left
      /\ endings' = endings /\ crossed' = crossed /\ dropped' = dropped /\ alarms' = alarms
  BY DEF Login, RacesGrow
<1>2. Grown(0, n)
  BY LoginGrows DEF Login
<1>3. Len(rows) \in Nat /\ Tokens = 1..Len(rows)
  BY Holdings
<1>4. 0 \in 0..Len(rows) /\ 0 \notin Tokens /\ n # 0
  BY <1>3
<1>5. /\ n \notin Tokens /\ 0 \notin Tokens' /\ Tokens' = Tokens \union {n}
      /\ \A u \in Tokens' : HasChild(u)' <=> u \in Tokens /\ HasChild(u)
      /\ \A u \in Tokens' : Spent(u)' => u \in Tokens /\ Spent(u)
      /\ Raced' = Raced /\ Raced \subseteq Tokens /\ \A r : Clean(r)' = Clean(r)
  <2>1. Tokens' = Tokens \union {n}
    BY <1>2 DEF Grown
  <2> HIDE DEF n
  <2> QED BY <1>1, <1>2, <1>4, <2>1, GrownFacts DEF n
<1>6. \A d \in Callers : Waits(d) => calls[d].token \in Tokens
  BY Holdings
<1>7. \A a \in Browsers : store'[a] = store[a] \/ (a = b /\ store'[a] = n)
  BY DEF Login, SessionsIInv, SessionsTypeOK
<1>8. ASSUME NEW a \in Browsers PROVE store[a] = 0 \/ store[a] \in Tokens
  <2>1. store[a] \in 0..Len(rows)
    BY Holdings
  <2> QED BY <1>3, <2>1
<1>9. \A i \in Tokens : rows[i].root \in Tokens /\ left \subseteq Tokens
  BY DEF RotationIInv, RowInv, Lineage
<1>10. /\ rows'[n].root = n /\ rows'[n].parent = 0
       /\ \A i \in Tokens : rows'[i].parent = rows[i].parent /\ rows'[i].root = rows[i].root
       /\ \A i \in Tokens : rows'[i].state = rows[i].state
  BY <1>2, <1>4 DEF Grown
<1>11. Lineage'
  <2>1. n \in Tokens'
    BY <1>5
  <2> QED BY <1>1, <1>2, <1>4, <2>1, GrownLineage DEF RotationIInv, RowInv
<1>12. AlarmHasACause'
  BY <1>1, <1>2, AlarmKept DEF RotationIInv, Grown
<1>13. left \subseteq Tokens
  BY DEF RotationIInv, RowInv, Lineage
<1> HIDE DEF n
<1>14. ExchangedOnce'
  <2>1. ASSUME NEW d \in Callers, calls[d].step = "checked", NEW u, u = calls[d].token, HasChild(u)'
        PROVE  u \in crossed
    <3>1. Waits(d) /\ u \in Tokens
      BY <1>6, <2>1 DEF Waits
    <3> QED BY <1>5, <2>1, <3>1 DEF RotationIInv, RowInv, ExchangedOnce
  <2>2. ASSUME NEW i \in Tokens', NEW j \in Tokens', i # j, rows'[i].parent = rows'[j].parent
        PROVE  rows'[i].parent \in crossed \union {0}
    <3>1. CASE i \in Tokens /\ j \in Tokens
      BY <2>2, <3>1, <1>10 DEF RotationIInv, RowInv, ExchangedOnce
    <3>2. CASE i = n \/ j = n
      BY <2>2, <3>2, <1>10
    <3> QED BY <2>2, <3>1, <3>2, <1>5
  <2> QED BY <1>1, <2>1, <2>2 DEF ExchangedOnce
<1>15. OneNewest'
  <2> SUFFICES ASSUME NEW i \in Tokens', NEW j \in Tokens', rows'[i].root = rows'[j].root,
                      Clean(rows'[i].root), ~HasChild(i)', ~HasChild(j)'
               PROVE  i = j
    BY <1>5 DEF OneNewest
  <2>1. CASE i \in Tokens /\ j \in Tokens
    BY <1>5, <1>10, <2>1 DEF RotationIInv, RowInv, OneNewest
  <2>2. CASE i = n \/ j = n
    BY <1>5, <1>9, <1>10, <2>2
  <2> QED BY <1>5, <2>1, <2>2
<1>16. LeftIsOver'
  <2> SUFFICES ASSUME NEW r \in left, Clean(r)
               PROVE  /\ \A i \in Tokens' : rows'[i].root = r => rows'[i].state # "active"
                      /\ \A d \in Callers : calls[d].step = "checked" => rows'[calls[d].token].root # r
    BY <1>1, <1>5 DEF LeftIsOver, Live
  <2>1. \A i \in Tokens : rows[i].root = r => rows[i].state # "active"
    BY DEF RotationIInv, RowInv, LeftIsOver, Live
  <2>2. \A d \in Callers : calls[d].step = "checked" => rows[calls[d].token].root # r
    BY DEF RotationIInv, RowInv, LeftIsOver
  <2>3. r # n
    BY <1>5, <1>13
  <2>4. \A d \in Callers : calls[d].step = "checked" => rows'[calls[d].token].root # r
    BY <1>6, <1>10, <2>2 DEF Waits
  <2> QED BY <1>5, <1>10, <2>1, <2>3, <2>4
<1>17. FreshAnswers'
  <2>1. ASSUME NEW q, Unused(q) PROVE Unused(q)'
    <3>1. q \in Tokens /\ q # n
      BY <1>5, <2>1 DEF Unused
    <3>2. \A a \in Browsers : store'[a] # q
      BY <1>7, <2>1, <3>1 DEF Unused
    <3> QED BY <1>1, <1>5, <2>1, <3>1, <3>2 DEF Unused, Waits
  <2>2. \A d \in Callers : (Answers(d)' <=> Answers(d)) /\ calls'[d].answer = calls[d].answer
    BY <1>1 DEF Answers
  <2> QED BY <2>1, <2>2 DEF RotationIInv, CallInv, FreshAnswers
<1>18. OneHome'
  <2>1. ASSUME NEW a \in Browsers, NEW e \in Browsers, store'[a] # 0, store'[a] = store'[e] PROVE a = e
    <3>1. store[a] # n /\ store[e] # n
      BY <1>4, <1>5, <1>8
    <3>2. CASE store'[a] = n
      BY <1>7, <2>1, <3>1, <3>2
    <3>3. CASE store'[a] # n
      BY <1>7, <2>1, <3>3 DEF RotationIInv, CallInv, OneHome
    <3> QED BY <3>2, <3>3
  <2>2. ASSUME NEW a \in Browsers, NEW d \in Callers, Waits(d), store'[a] = calls[d].token PROVE Home[d] = a
    <3>1. store'[a] # n
      BY <1>5, <1>6, <2>2
    <3> QED BY <1>7, <2>2, <3>1 DEF RotationIInv, CallInv, OneHome
  <2>3. \A d, e \in Callers : Waits(d) /\ Waits(e) /\ calls[d].token = calls[e].token => Home[d] = Home[e]
    BY DEF RotationIInv, CallInv, OneHome
  <2> QED BY <1>1, <2>1, <2>2, <2>3 DEF OneHome, Waits
<1>19. SharedIsCrossed'
  BY <1>1 DEF RotationIInv, CallInv, SharedIsCrossed, Waits
<1>20. SpentIsAnswered'
  <2> SUFFICES ASSUME NEW u \in Tokens, u \notin Raced, Spent(u)
               PROVE  /\ \A d \in Callers : Waits(d) /\ calls[d].token = u => calls[d].step = "answered"
                      /\ \A a \in Browsers : store'[a] = u =>
                           \E d \in Callers : Home[d] = a /\ calls[d].token = u /\ calls[d].step = "answered"
    BY <1>1, <1>5 DEF SpentIsAnswered, Waits
  <2>1. u # n
    BY <1>5
  <2> QED BY <1>7, <2>1 DEF RotationIInv, CallInv, SpentIsAnswered
<1> QED BY <1>11, <1>12, <1>14, <1>15, <1>16, <1>17, <1>18, <1>19, <1>20 DEF RotationIInv, RowInv, CallInv

-----------------------------------------------------------------------------

LEMMA RotationStep == SessionsIInv /\ RotationIInv /\ [SessionsNext]_sessionVars => RotationIInv'
<1> SUFFICES ASSUME SessionsIInv, RotationIInv, [SessionsNext]_sessionVars PROVE RotationIInv'
  OBVIOUS
<1>1. CASE (\E i \in Tokens : Expire(i)) \/ Activate \/ UNCHANGED sessionVars
  BY <1>1, AgeRotation
<1>2. CASE ResetPassword \/ Deactivate
  BY <1>2, EndingRotation
<1>3. CASE BeginLogin \/ \E b \in Browsers : Clear(b) \/ \E heard \in BOOLEAN : Login(b, heard)
  BY <1>3, LoginRotation, ElsewhereRotation
<1>4. ASSUME NEW c \in Callers,
             \/ \E op \in {"refresh", "logout"} : Ask(c, op)
             \/ SoundAlarm(c) \/ Refuse(c) \/ Check(c) \/ Rotate(c) \/ ServeLogout(c)
             \/ Receive(c) \/ Lose(c) \/ FinishLogout(c)
      PROVE  RotationIInv'
  <2>1. CASE \E op \in {"refresh", "logout"} : Ask(c, op)
    BY <2>1, AskRotation
  <2>2. CASE SoundAlarm(c) \/ Refuse(c) \/ Check(c)
    BY <2>2, SoundRotation, RefuseRotation, CheckRotation
  <2>3. CASE Rotate(c) \/ ServeLogout(c)
    BY <2>3, RotateRotation, LogoutRotation
  <2>4. CASE Receive(c) \/ Lose(c) \/ FinishLogout(c)
    BY <2>4, ReceiveRotation, LoseRotation, FinishRotation
  <2> QED BY <1>4, <2>1, <2>2, <2>3, <2>4
<1> QED BY <1>1, <1>2, <1>3, <1>4 DEF SessionsNext

LEMMA RotationInit == SessionsInit => RotationIInv
<1> SUFFICES ASSUME SessionsInit PROVE RotationIInv
  OBVIOUS
<1>1. Tokens = {} /\ Raced = {} /\ left = {} /\ alarms = {}
  BY DEF SessionsInit, Tokens, Raced
<1>2. /\ \A c \in Callers : calls[c].step = "idle"
      /\ \A b \in Browsers : store[b] = 0
  BY DEF SessionsInit, Idle
<1>3. RowInv
  BY <1>1, <1>2 DEF RowInv, Lineage, ExchangedOnce, OneNewest, LeftIsOver
<1>4. FreshAnswers /\ OneHome
  <2>1. \A c \in Callers : ~Waits(c) /\ ~Answers(c)
    BY <1>2 DEF Waits, Answers
  <2>2. FreshAnswers
    BY <2>1 DEF FreshAnswers
  <2>3. OneHome
    BY <1>2, <2>1 DEF OneHome
  <2> QED BY <2>2, <2>3
<1>5. SharedIsCrossed /\ SpentIsAnswered
  BY <1>1, <1>2 DEF SharedIsCrossed, SpentIsAnswered, Waits
<1> QED BY <1>1, <1>3, <1>4, <1>5 DEF CallInv, RotationIInv, AlarmHasACause

\* Where the tokens of a login are, which calls share one, and what has been
\* used up: the invariant on which the next theorem rests.
THEOREM RotationInvariant == SessionsSpec => []RotationIInv
<1> QED BY RotationInit, RotationStep, SessionsInvariant, PTL DEF SessionsSpec

\* auth.refresh locks nothing and knows nothing of the tabs: still a token
\* forks only when two calls of a browser race, the alarm is raised only for
\* that, for an answer that was lost, or for sessions that were ended while a
\* browser still held it, and a token outlives its logout for the first two.
THEOREM RotationIsSound == SessionsSpec => []RotationInv
<1>1. RotationIInv => RotationInv
  <2> SUFFICES ASSUME RotationIInv PROVE RotationInv
    OBVIOUS
  <2>1. TwinsAreARace
    BY DEF RotationIInv, RowInv, ExchangedOnce, TwinsAreARace
  <2>2. LogoutEndsTheLogin
    BY DEF RotationIInv, RowInv, LeftIsOver, LogoutEndsTheLogin, Clean, Raced
  <2> QED BY <2>1, <2>2 DEF RotationIInv, RotationInv
<1> QED BY <1>1, RotationInvariant, PTL

-----------------------------------------------------------------------------
(***************************************************************************)
(* Sign-in (SignIn), for every number of wrong passwords and of handlers.  *)
(* What a handler goes on with is a row its checks let through (Admitted), *)
(* and as long as no attempt was counted on a stale row the count is that  *)
(* of the wrong passwords (Counted).                                       *)
(***************************************************************************)

\* What a handler goes on with is a row that its checks let through.
Admitted == \A q \in Requests : MayProceed(reqs[q].op, reqs[q].row)

\* As long as no attempt was counted on a stale row the count is that of the
\* wrong passwords, and a lock took enough of them.
Counted ==
  "count" \in mixed \/ (user.failed = wrong /\ (user.locked = "on" => wrong >= MaxFailed))

SignInIInv == SignInTypeOK /\ Admitted /\ Counted /\ EnabledIsVerified

UserRow == [failed : 0..MaxWrong, locked : Lock, enabled : BOOLEAN, secret : 0..secrets]

LEMMA SignInInitInv == SignInInit => SignInIInv
<1> SUFFICES ASSUME SignInInit PROVE SignInIInv
  OBVIOUS
<1>1. user \in UserRow /\ Free.row \in UserRow /\ Free.op = "none"
  BY SignInAssumption DEF SignInInit, Free, UserRow, Lock
<1>2. SignInTypeOK
  <2>1. reqs \in [Requests -> [op : Ops \union {"none"}, row : UserRow]]
    BY <1>1 DEF SignInInit, Free
  <2> QED BY <1>1, <2>1, SignInAssumption DEF SignInInit, SignInTypeOK, UserRow
<1>3. Admitted
  BY DEF SignInInit, Admitted, MayProceed, Free
<1>4. Counted /\ EnabledIsVerified
  BY DEF SignInInit, Counted, EnabledIsVerified, Free
<1> QED BY <1>2, <1>3, <1>4 DEF SignInIInv

LEMMA LoadInv ==
  ASSUME SignInIInv, NEW q \in Requests, NEW op \in Ops, Load(q, op)
  PROVE  SignInIInv'
<1>1. SignInTypeOK'
  BY DEF SignInIInv, SignInTypeOK, Load
<1>2. Admitted'
  BY DEF SignInIInv, SignInTypeOK, Admitted, Load, MayProceed
<1>3. Counted' /\ EnabledIsVerified'
  BY DEF SignInIInv, Counted, EnabledIsVerified, Load
<1> QED BY <1>1, <1>2, <1>3 DEF SignInIInv

LEMMA LockPassesInv == ASSUME SignInIInv, LockPasses PROVE SignInIInv'
<1>1. SignInTypeOK'
  BY DEF SignInIInv, SignInTypeOK, LockPasses, Lock
<1>2. Admitted' /\ Counted' /\ EnabledIsVerified'
  BY DEF SignInIInv, SignInTypeOK, Admitted, Counted, EnabledIsVerified, LockPasses, MayProceed
<1> QED BY <1>1, <1>2 DEF SignInIInv

\* What a commit leaves, column by column.
LEMMA Committed ==
  ASSUME SignInTypeOK, NEW q \in Requests, Commit(q), NEW row, NEW op,
         row = reqs[q].row, op = reqs[q].op
  PROVE  /\ op \in Ops /\ row \in UserRow /\ user \in UserRow
         /\ user'.failed = IF Decided(op, row).failed # row.failed THEN Decided(op, row).failed ELSE user.failed
         /\ user'.locked = IF "locked" \in Written(op, row) THEN Decided(op, row).locked ELSE user.locked
         /\ user'.enabled = IF Decided(op, row).enabled # row.enabled THEN Decided(op, row).enabled ELSE user.enabled
         /\ user'.secret = IF Decided(op, row).secret # row.secret THEN Decided(op, row).secret ELSE user.secret
         /\ user' = [failed |-> user'.failed, locked |-> user'.locked, enabled |-> user'.enabled,
                     secret |-> user'.secret]
<1>1. op \in Ops /\ row \in UserRow /\ user \in UserRow
  BY DEF SignInTypeOK, Commit, UserRow
<1>2. user' = [k \in Columns |-> IF k \in Written(op, row) THEN Decided(op, row)[k] ELSE user[k]]
  BY DEF Commit
<1>3. \A k \in {"failed", "enabled", "secret"} :
        k \in Written(op, row) <=> Decided(op, row)[k] # row[k]
  BY DEF Written, Columns
<1> QED BY <1>1, <1>2, <1>3 DEF Columns

\* The groups of columns are written by handlers of their own.
LEMMA CommitInv == ASSUME SignInIInv, NEW q \in Requests, Commit(q) PROVE SignInIInv'
<1> DEFINE op == reqs[q].op
           row == reqs[q].row
           C(r) == <<r.failed, r.locked>>
           F(r) == <<r.enabled, r.secret>>
<1>1. /\ op \in Ops /\ row \in UserRow /\ user \in UserRow /\ MayProceed(op, row)
      /\ user'.failed = IF Decided(op, row).failed # row.failed THEN Decided(op, row).failed ELSE user.failed
      /\ user'.locked = IF "locked" \in Written(op, row) THEN Decided(op, row).locked ELSE user.locked
      /\ user'.enabled = IF Decided(op, row).enabled # row.enabled THEN Decided(op, row).enabled ELSE user.enabled
      /\ user'.secret = IF Decided(op, row).secret # row.secret THEN Decided(op, row).secret ELSE user.secret
      /\ user' = [failed |-> user'.failed, locked |-> user'.locked, enabled |-> user'.enabled,
                  secret |-> user'.secret]
  BY Committed DEF SignInIInv, Admitted
<1>2. /\ op = "setup" => secrets < MaxSecrets
      /\ op = "wrong" => wrong < MaxWrong /\ row.failed < MaxWrong
      /\ secrets' = IF op = "setup" THEN secrets + 1 ELSE secrets
      /\ verified' = IF op = "verify" THEN verified \union {row.secret} ELSE verified
      /\ wrong' = CASE op = "wrong" -> wrong + 1 [] op \in {"right", "clear"} -> 0 [] OTHER -> wrong
      /\ mixed' = mixed
           \union (IF op \in {"wrong", "right", "clear"} /\ C(row) # C(user) THEN {"count"} ELSE {})
           \union (IF op \in {"setup", "verify", "disable"} /\ F(row) # F(user) THEN {"factor"} ELSE {})
      /\ reqs' = [reqs EXCEPT ![q] = Free]
  BY DEF Commit
<1>3. /\ reqs \in [Requests -> [op : Ops \union {"none"}, row : UserRow]]
      /\ secrets \in 0..MaxSecrets /\ verified \subseteq 1..secrets
      /\ wrong \in 0..MaxWrong /\ mixed \subseteq {"count", "factor"}
  BY DEF SignInIInv, SignInTypeOK, UserRow
<1>4. Decided(op, row) \in [failed : 0..MaxWrong, locked : Lock, enabled : BOOLEAN, secret : 0..secrets']
      /\ secrets' \in 0..MaxSecrets /\ 0..secrets \subseteq 0..secrets'
  <2> DEFINE Wide == [failed : 0..MaxWrong, locked : Lock, enabled : BOOLEAN, secret : 0..secrets']
  <2>0. row \in Wide /\ secrets' \in 0..MaxSecrets /\ 0..secrets \subseteq 0..secrets' /\ 0 \in 0..secrets'
    BY <1>1, <1>2, <1>3, SignInAssumption DEF UserRow
  <2>1. CASE op = "wrong"
    <3>1. row.failed + 1 \in 0..MaxWrong /\ "on" \in Lock
      BY <1>1, <1>2, <2>1, SignInAssumption DEF UserRow, Lock
    <3>2. Decided(op, row) = AfterWrong(row)
      BY <2>1 DEF Decided
    <3> QED BY <2>0, <3>1, <3>2 DEF AfterWrong
  <2>2. CASE op \in {"right", "clear"}
    <3>1. 0 \in 0..MaxWrong /\ "none" \in Lock
      BY SignInAssumption DEF Lock
    <3>2. Decided(op, row) = [row EXCEPT !.failed = 0, !.locked = "none"]
      BY <2>2 DEF Decided
    <3> QED BY <2>0, <3>1, <3>2
  <2>3. CASE op = "setup"
    <3>1. secrets + 1 \in 0..secrets'
      BY <1>2, <1>3, <2>3, SignInAssumption
    <3>2. Decided(op, row) = [row EXCEPT !.secret = secrets + 1]
      BY <2>3 DEF Decided
    <3> QED BY <2>0, <3>1, <3>2
  <2>4. CASE op = "verify"
    BY <2>0, <2>4 DEF Decided
  <2>5. CASE op = "disable"
    BY <2>0, <2>5 DEF Decided
  <2> QED BY <1>1, <2>0, <2>1, <2>2, <2>3, <2>4, <2>5 DEF Ops
<1>5. user' \in UserRow'
  BY <1>1, <1>4 DEF UserRow
<1>6. SignInTypeOK'
  <2>1. UserRow \subseteq UserRow' /\ Free \in [op : Ops \union {"none"}, row : UserRow']
    BY <1>3, <1>4, SignInAssumption DEF UserRow, Free, Lock
  <2>2. reqs' \in [Requests -> [op : Ops \union {"none"}, row : UserRow']]
    BY <1>2, <1>3, <2>1
  <2>3. verified' \subseteq 1..secrets'
    BY <1>1, <1>2, <1>3, <1>4 DEF UserRow, MayProceed
  <2>4. wrong' \in 0..MaxWrong /\ mixed' \subseteq {"count", "factor"}
    BY <1>2, <1>3, SignInAssumption
  <2> QED BY <1>4, <1>5, <2>2, <2>3, <2>4 DEF SignInTypeOK, UserRow
<1>7. Admitted'
  BY <1>2, <1>3 DEF SignInIInv, Admitted, MayProceed, Free
<1>8. Counted'
  <2> SUFFICES ASSUME "count" \notin mixed'
               PROVE  user'.failed = wrong' /\ (user'.locked = "on" => wrong' >= MaxFailed)
    BY DEF Counted
  <2>1. "count" \notin mixed /\ user.failed = wrong /\ (user.locked = "on" => wrong >= MaxFailed)
    BY <1>2 DEF SignInIInv, Counted
  <2>2. CASE op = "wrong"
    <3>1. row.failed = user.failed /\ row.locked = user.locked
      BY <1>2, <2>2
    <3>2. Decided(op, row).failed = row.failed + 1
          /\ Decided(op, row).locked = IF row.failed + 1 >= MaxFailed THEN "on" ELSE row.locked
      BY <1>1, <2>2 DEF Decided, AfterWrong, UserRow
    <3>3. row.locked # "on"
      BY <1>1, <2>2 DEF MayProceed
    <3> QED BY <1>1, <1>2, <1>3, <2>1, <2>2, <3>1, <3>2, <3>3, SignInAssumption DEF Written, Columns, UserRow
  <2>3. CASE op \in {"right", "clear"}
    <3>1. row.failed = user.failed /\ row.locked = user.locked
      BY <1>2, <2>3
    <3>2. Decided(op, row).failed = 0 /\ Decided(op, row).locked = "none"
      BY <1>1, <2>3 DEF Decided, UserRow
    <3> QED BY <1>1, <1>2, <2>3, <3>1, <3>2 DEF Written, Columns
  <2>4. CASE op \in {"setup", "verify", "disable"}
    <3>1. Decided(op, row).failed = row.failed /\ Decided(op, row).locked = row.locked
      BY <1>1, <2>4 DEF Decided, UserRow
    <3> QED BY <1>1, <1>2, <2>1, <2>4, <3>1 DEF Written, Columns
  <2> QED BY <1>1, <2>2, <2>3, <2>4 DEF Ops
<1>9. EnabledIsVerified'
  <2> SUFFICES ASSUME user'.enabled, "factor" \notin mixed' PROVE user'.secret \in verified'
    BY DEF EnabledIsVerified
  <2>1. "factor" \notin mixed /\ (user.enabled => user.secret \in verified) /\ verified \subseteq verified'
    BY <1>2 DEF SignInIInv, EnabledIsVerified
  <2>2. CASE op \in {"wrong", "right", "clear"}
    <3>1. Decided(op, row).enabled = row.enabled /\ Decided(op, row).secret = row.secret
      BY <1>1, <2>2 DEF Decided, AfterWrong, UserRow
    <3> QED BY <1>1, <2>1, <2>2, <3>1
  <2>3. CASE op \in {"setup", "verify", "disable"}
    <3>1. row.enabled = user.enabled /\ row.secret = user.secret
      BY <1>2, <2>3
    <3>2. CASE op = "setup"
      BY <1>1, <3>1, <3>2 DEF Decided, MayProceed, UserRow
    <3>3. CASE op = "verify"
      BY <1>1, <1>2, <3>1, <3>3 DEF Decided, UserRow
    <3>4. CASE op = "disable"
      BY <1>1, <3>1, <3>4 DEF Decided, UserRow
    <3> QED BY <2>3, <3>2, <3>3, <3>4
  <2> QED BY <1>1, <2>2, <2>3 DEF Ops
<1> QED BY <1>6, <1>7, <1>8, <1>9 DEF SignInIInv

LEMMA SignInStepInv == SignInIInv /\ [SignInNext]_signInVars => SignInIInv'
<1> SUFFICES ASSUME SignInIInv, [SignInNext]_signInVars PROVE SignInIInv'
  OBVIOUS
<1>1. CASE SignInNext
  BY <1>1, LoadInv, CommitInv, LockPassesInv DEF SignInNext
<1>2. CASE UNCHANGED signInVars
  BY <1>2 DEF signInVars, SignInIInv, SignInTypeOK, Admitted, MayProceed, Counted, EnabledIsVerified
<1> QED BY <1>1, <1>2

-----------------------------------------------------------------------------
\* A factor that is asked for was confirmed with a code, and a lock took its
\* wrong passwords, but for handlers that decided on a row that had changed.
THEOREM SignInIsSound == SignInInit /\ [][SignInNext]_signInVars => []SignInInv
<1>1. SignInIInv => SignInInv
  BY DEF SignInIInv, SignInInv, Counted, LockTakesFive
<1> QED BY <1>1, SignInInitInv, SignInStepInv, PTL

-----------------------------------------------------------------------------
(***************************************************************************)
(* Access requests (AccessRequests), for every set of addresses, people    *)
(* and handlers. A decision is about a form, whose address does not change *)
(* (InFlight); a second open form of a person takes two handlers that both *)
(* read before either wrote, which is what overtaken records.              *)
(***************************************************************************)

Form == [email : Emails, status : {"pending", "approved", "rejected", "deleted"}]
Decisions == {"approve", "reject", "delete"}

\* What a handler has read, so far as it decides on it: a submission saw no
\* open form of the person and an approval no account; a decision is about a
\* form, whose address does not change.
Seen(d) ==
  /\ d.op \in Decisions \union {"submit", "register"} /\ d.email \in Emails
  /\ d.op \in {"submit", "register"} => d.form = 0
  /\ d.op \in Decisions => d.form \in DOMAIN forms /\ forms[d.form].email = d.email
  /\ d.op = "submit" => d.pending = {}
  /\ d.op = "approve" => d.users = {}

InFlight ==
  /\ DOMAIN doing = Handlers
  /\ \A h \in Handlers : doing[h] = Nothing \/ Seen(doing[h])

\* Two open forms of one person are a race's.
OneOpenForm ==
  \A i, j \in DOMAIN forms :
    forms[i].status = "pending" /\ forms[j].status = "pending"
      /\ Person[forms[i].email] = Person[forms[j].email]
      => i = j \/ Person[forms[i].email] \in overtaken

AccessIInv == AccessTypeOK /\ InFlight /\ OneOpenForm /\ OneAccountEach /\ ApprovedHasAccount

-----------------------------------------------------------------------------
LEMMA AccessInitInv == AccessInit => AccessIInv
<1> SUFFICES ASSUME AccessInit PROVE AccessIInv
  OBVIOUS
<1>1. AccessTypeOK
  BY AccessAssumption DEF AccessInit, AccessTypeOK
<1>2. InFlight
  BY DEF AccessInit, InFlight
<1>3. OneOpenForm /\ OneAccountEach /\ ApprovedHasAccount
  BY DEF AccessInit, OneOpenForm, OneAccountEach, ApprovedHasAccount
<1> QED BY <1>1, <1>2, <1>3 DEF AccessIInv

LEMMA ReadInv ==
  ASSUME AccessIInv, NEW h \in Handlers, NEW op \in Decisions \union {"submit", "register"},
         NEW e \in Emails, NEW i, Read(h, op, e, i),
         Seen([op |-> op, email |-> e, form |-> i, pending |-> PendingOf(Person[e]),
               users |-> AccountsOf(Person[e])])
  PROVE  AccessIInv'
<1> DEFINE d == [op |-> op, email |-> e, form |-> i, pending |-> PendingOf(Person[e]),
                 users |-> AccountsOf(Person[e])]
<1>1. /\ doing' = [doing EXCEPT ![h] = d]
      /\ forms' = forms /\ users' = users /\ registered' = registered /\ overtaken' = overtaken
  BY DEF Read
<1>2. AccessTypeOK'
  BY <1>1 DEF AccessIInv, AccessTypeOK, InFlight
<1>3. InFlight'
  <2>1. \A x : Seen(x) => Seen(x)'
    BY <1>1 DEF Seen
  <2> QED BY <1>1, <2>1 DEF AccessIInv, InFlight
<1>4. OneOpenForm' /\ OneAccountEach' /\ ApprovedHasAccount'
  BY <1>1 DEF AccessIInv, OneOpenForm, OneAccountEach, ApprovedHasAccount
<1> QED BY <1>2, <1>3, <1>4 DEF AccessIInv

LEMMA ReadsInv ==
  ASSUME AccessIInv, NEW h \in Handlers,
         \/ ReadSubmit(h)
         \/ ReadRegister(h)
         \/ \E op \in Decisions : ReadDecision(h, op)
  PROVE  AccessIInv'
<1>1. CASE ReadSubmit(h)
  <2>1. PICK e \in Emails : NoOpenForm(e) /\ Read(h, "submit", e, 0)
    BY <1>1 DEF ReadSubmit
  <2>2. Seen([op |-> "submit", email |-> e, form |-> 0, pending |-> PendingOf(Person[e]),
              users |-> AccountsOf(Person[e])])
    BY <2>1 DEF Seen, NoOpenForm, Decisions
  <2> QED BY <2>1, <2>2, ReadInv
<1>2. CASE ReadRegister(h)
  <2>1. PICK e \in Emails : Read(h, "register", e, 0)
    BY <1>2 DEF ReadRegister
  <2>2. Seen([op |-> "register", email |-> e, form |-> 0, pending |-> PendingOf(Person[e]),
              users |-> AccountsOf(Person[e])])
    BY DEF Seen, Decisions
  <2> QED BY <2>1, <2>2, ReadInv
<1>3. ASSUME NEW op \in Decisions, ReadDecision(h, op) PROVE AccessIInv'
  <2>1. PICK i \in DOMAIN forms :
          /\ op = "approve" => NoAccount(forms[i].email)
          /\ Read(h, op, forms[i].email, i)
    BY <1>3 DEF ReadDecision
  <2> DEFINE e == forms[i].email
  <2>2. e \in Emails
    <3>1. forms \in Seq(Form)
      BY DEF AccessIInv, AccessTypeOK, Form
    <3>2. forms[i] \in Form
      BY <3>1
    <3> QED BY <3>2 DEF Form
  <2>3. Seen([op |-> op, email |-> e, form |-> i, pending |-> PendingOf(Person[e]),
              users |-> AccountsOf(Person[e])])
    BY <2>1, <2>2 DEF Seen, NoAccount, Decisions
  <2> QED BY <2>1, <2>2, <2>3, ReadInv
<1> QED BY <1>1, <1>2, <1>3

LEMMA ConcludeInv == ASSUME AccessIInv, NEW h \in Handlers, Conclude(h) PROVE AccessIInv'
<1> DEFINE d == doing[h]
           p == Person[d.email]
<1>1. /\ forms \in Seq(Form) /\ Len(forms) <= MaxForms /\ users \subseteq Emails
      /\ registered \subseteq users /\ overtaken \subseteq {Person[e] : e \in Emails}
  BY DEF AccessIInv, AccessTypeOK, Form
<1>2. DOMAIN forms = 1..Len(forms) /\ Len(forms) \in Nat /\ \A i \in DOMAIN forms : forms[i] \in Form
  BY <1>1
<1>3. Seen(d) /\ doing' = [doing EXCEPT ![h] = Nothing] /\ (d.op = "submit" => Len(forms) < MaxForms)
  BY DEF AccessIInv, InFlight, Conclude, Nothing
<1>4. CASE Fails(h)
  <2>1. forms' = forms /\ users' = users /\ registered' = registered /\ overtaken' = overtaken
    BY <1>4 DEF Conclude
  <2>2. AccessTypeOK'
    BY <1>3, <2>1 DEF AccessIInv, AccessTypeOK, InFlight
  <2>3. InFlight'
    BY <1>3, <2>1 DEF AccessIInv, InFlight, Seen
  <2>4. OneOpenForm' /\ OneAccountEach' /\ ApprovedHasAccount'
    BY <2>1 DEF AccessIInv, OneOpenForm, OneAccountEach, ApprovedHasAccount
  <2> QED BY <2>2, <2>3, <2>4 DEF AccessIInv
<1>5. CASE ~Fails(h)
  <2>1. /\ forms' = IF d.op = "submit" THEN Append(forms, [email |-> d.email, status |-> "pending"])
                    ELSE IF d.form = 0 THEN forms ELSE [forms EXCEPT ![d.form].status = Outcome(d.op)]
        /\ users' = users \union NewUsers(d)
        /\ registered' = IF d.op = "register" THEN registered \union {d.email} ELSE registered
        /\ overtaken' = overtaken \union Overtaken(h)
    BY <1>5 DEF Conclude
  <2>2. /\ d.email \in Emails /\ NewUsers(d) \subseteq {d.email} /\ Overtaken(h) \subseteq {p}
        /\ overtaken \subseteq overtaken' /\ users \subseteq users' /\ registered \subseteq registered'
    BY <1>3, <2>1 DEF Seen, NewUsers, Overtaken
  \* The forms after the commit, one by one.
  <2>3. /\ forms' \in Seq(Form) /\ Len(forms') <= MaxForms
        /\ DOMAIN forms \subseteq DOMAIN forms'
        /\ \A i \in DOMAIN forms : forms'[i].email = forms[i].email
    <3>1. CASE d.op = "submit"
      <4>1. [email |-> d.email, status |-> "pending"] \in Form
        BY <2>2 DEF Form
      <4> QED BY <1>1, <1>2, <1>3, <2>1, <3>1, <4>1, AccessAssumption
    <3>2. CASE d.op # "submit" /\ d.form # 0
      <4>1. d.form \in DOMAIN forms /\ Outcome(d.op) \in {"approved", "rejected", "deleted"}
        BY <1>3, <3>2 DEF Seen, Outcome, Decisions
      <4>2. forms' = [forms EXCEPT ![d.form].status = Outcome(d.op)]
        BY <2>1, <3>2
      <4>3. [forms[d.form] EXCEPT !.status = Outcome(d.op)] \in Form
        BY <1>2, <4>1 DEF Form
      <4>4. forms' = [forms EXCEPT ![d.form] = [forms[d.form] EXCEPT !.status = Outcome(d.op)]]
        BY <4>2
      <4>5. forms' \in Seq(Form) /\ Len(forms') = Len(forms) /\ DOMAIN forms' = DOMAIN forms
        BY <1>1, <4>1, <4>3, <4>4
      <4>6. [forms[d.form] EXCEPT !.status = Outcome(d.op)].email = forms[d.form].email
        BY <1>2, <4>1 DEF Form
      <4>7. \A i \in DOMAIN forms : forms'[i].email = forms[i].email
        BY <1>2, <4>1, <4>4, <4>6
      <4> QED BY <1>1, <4>5, <4>7
    <3>3. CASE d.op # "submit" /\ d.form = 0
      BY <1>1, <2>1, <3>3
    <3> QED BY <3>1, <3>2, <3>3
  <2>4. ASSUME NEW i \in DOMAIN forms'
        PROVE  \/ /\ d.op = "submit" /\ i = Len(forms) + 1
                  /\ forms'[i].email = d.email /\ forms'[i].status = "pending"
               \/ /\ i \in DOMAIN forms /\ d.op \in Decisions /\ i = d.form
                  /\ forms'[i].status = Outcome(d.op)
               \/ i \in DOMAIN forms /\ forms'[i].status = forms[i].status
    <3>1. CASE d.op = "submit"
      BY <1>1, <1>2, <2>1, <3>1
    <3>2. CASE d.op # "submit" /\ d.form # 0
      <4>1. d.form \in DOMAIN forms /\ d.op \in Decisions
        BY <1>3, <3>2 DEF Seen
      <4>2. forms' = [forms EXCEPT ![d.form] = [forms[d.form] EXCEPT !.status = Outcome(d.op)]]
        BY <2>1, <3>2
      <4>3. [forms[d.form] EXCEPT !.status = Outcome(d.op)].status = Outcome(d.op)
        BY <1>2, <4>1 DEF Form
      <4> QED BY <1>2, <4>1, <4>2, <4>3
    <3>3. CASE d.op # "submit" /\ d.form = 0
      BY <2>1, <3>3
    <3> QED BY <3>1, <3>2, <3>3
  <2>5. AccessTypeOK'
    <3>1. users' \subseteq Emails /\ registered' \subseteq users'
      BY <1>1, <2>1, <2>2 DEF NewUsers
    <3>2. overtaken' \subseteq {Person[e] : e \in Emails}
      BY <1>1, <2>1, <2>2
    <3>3. \A g \in Handlers : doing'[g] = Nothing \/ doing'[g].email \in Emails
      BY <1>3 DEF AccessIInv, AccessTypeOK, InFlight
    <3> QED BY <2>3, <3>1, <3>2, <3>3 DEF AccessTypeOK, Form
  <2>6. InFlight'
    <3>1. ASSUME NEW x, Seen(x) PROVE Seen(x)'
      BY <2>3, <3>1 DEF Seen
    <3> QED BY <1>3, <3>1 DEF AccessIInv, InFlight
  \* Two forms are open: neither is the new one, or the submission is overtaken.
  <2>7. OneOpenForm'
    <3> SUFFICES ASSUME NEW i \in DOMAIN forms', NEW j \in DOMAIN forms', i # j,
                        forms'[i].status = "pending", forms'[j].status = "pending",
                        Person[forms'[i].email] = Person[forms'[j].email]
                 PROVE  Person[forms'[i].email] \in overtaken'
      BY DEF OneOpenForm
    <3>1. \A k \in DOMAIN forms' : forms'[k].status = "pending" =>
            \/ d.op = "submit" /\ k = Len(forms) + 1 /\ forms'[k].email = d.email
            \/ k \in DOMAIN forms /\ forms[k].status = "pending"
      BY <2>4 DEF Outcome, Decisions
    <3>2. CASE i \in DOMAIN forms /\ j \in DOMAIN forms
      <4>1. forms[i].status = "pending" /\ forms[j].status = "pending"
        BY <1>2, <3>1, <3>2
      <4> QED BY <2>2, <2>3, <3>2, <4>1 DEF AccessIInv, OneOpenForm
    <3>3. ASSUME NEW k \in DOMAIN forms, forms[k].status = "pending", d.op = "submit",
                 Person[forms[k].email] = p
          PROVE  p \in overtaken'
      <4>1. d.pending = {} /\ k \in PendingOf(p)
        BY <1>3, <3>3 DEF Seen, PendingOf
      <4> QED BY <2>1, <3>3, <4>1 DEF Overtaken
    <3> QED BY <2>3, <3>1, <3>2, <3>3
  \* Two accounts: neither is new, or it was registered, or the approval is overtaken.
  <2>8. OneAccountEach'
    <3> SUFFICES ASSUME NEW e \in users', NEW f \in users', e # f, Person[e] = Person[f]
                 PROVE  {e, f} \intersect registered' # {} \/ Person[e] \in overtaken'
      BY DEF OneAccountEach
    <3>1. CASE e \in users /\ f \in users
      BY <2>2, <3>1 DEF AccessIInv, OneAccountEach
    <3>2. ASSUME NEW g \in users, d.op = "approve", Person[g] = p PROVE p \in overtaken'
      <4>1. d.users = {} /\ g \in AccountsOf(p)
        BY <1>3, <3>2 DEF Seen, AccountsOf
      <4> QED BY <2>1, <3>2, <4>1 DEF Overtaken
    <3> QED BY <2>1, <3>1, <3>2 DEF NewUsers
  <2>9. ApprovedHasAccount'
    <3> SUFFICES ASSUME NEW i \in DOMAIN forms', forms'[i].status = "approved"
                 PROVE  forms'[i].email \in users'
      BY DEF ApprovedHasAccount
    <3>1. CASE i \in DOMAIN forms /\ forms[i].status = "approved"
      BY <2>2, <2>3, <3>1 DEF AccessIInv, ApprovedHasAccount
    <3>2. CASE i \in DOMAIN forms /\ i = d.form /\ d.op = "approve"
      BY <1>3, <2>1, <2>3, <3>2 DEF Seen, NewUsers, Decisions
    <3> QED BY <2>4, <3>1, <3>2 DEF Outcome, Decisions
  <2> QED BY <2>5, <2>6, <2>7, <2>8, <2>9 DEF AccessIInv
<1> QED BY <1>4, <1>5

LEMMA AccessStepInv == AccessIInv /\ [AccessNext]_accessVars => AccessIInv'
<1> SUFFICES ASSUME AccessIInv, [AccessNext]_accessVars PROVE AccessIInv'
  OBVIOUS
<1>1. CASE AccessNext
  BY <1>1, ReadsInv, ConcludeInv DEF AccessNext, Decisions
<1>2. CASE UNCHANGED accessVars
  BY <1>2 DEF accessVars, AccessIInv, AccessTypeOK, InFlight, Seen, OneOpenForm, OneAccountEach,
              ApprovedHasAccount
<1> QED BY <1>1, <1>2

-----------------------------------------------------------------------------
LEMMA AtMostOne ==
  ASSUME NEW S, \A x, y \in S : x = y
  PROVE  ~(Cardinality(S) > 1)
<1>1. CASE S = {}
  BY <1>1, FS_EmptySet
<1>2. CASE S # {}
  <2>1. PICK x : S = {x}
    BY <1>2
  <2> QED BY <2>1, FS_Singleton
<1> QED BY <1>1, <1>2

\* One account and one open form to a person but for the races that are named,
\* and no approval without an account.
THEOREM AccessIsSound == AccessInit /\ [][AccessNext]_accessVars => []AccessInv
<1>1. ASSUME AccessIInv PROVE AccessInv
  <2>1. OnePendingEach
    <3> SUFFICES ASSUME NEW e \in Emails, Person[e] \notin overtaken
                 PROVE  ~(Cardinality(PendingOf(Person[e])) > 1)
      BY DEF OnePendingEach
    <3>1. \A i, j \in PendingOf(Person[e]) : i = j
      BY <1>1 DEF AccessIInv, OneOpenForm, PendingOf
    <3> QED BY <3>1, AtMostOne
  <2> QED BY <1>1, <2>1 DEF AccessIInv, AccessInv
<1> QED BY <1>1, AccessInitInv, AccessStepInv, PTL
=============================================================================
