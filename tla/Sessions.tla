------------------------------ MODULE Sessions ------------------------------
(***************************************************************************)
(* The refresh tokens of one user (dashboard/backend/auth.py) and the      *)
(* callers that exchange them: in each tab an interval                     *)
(* (frontend/src/context/AuthContext.jsx) and a retry after a 401          *)
(* (frontend/src/services/api.js), over one local storage for a browser.   *)
(*                                                                         *)
(* A request handler runs on a thread of a pool with a database session of *)
(* its own: what it reads and what it commits are two steps.  Tokens are   *)
(* numbered in the order they are minted, so token n is row n; access      *)
(* tokens, passwords and cookies are left out.                             *)
(***************************************************************************)
EXTENDS Integers, Sequences

CONSTANTS Browsers, Callers,
          Home,         \* the browser a caller runs in
          MaxTokens,    \* bound: tokens minted
          MaxEndings    \* bound: times all sessions are ended

ASSUME SessionsAssumption ==
  /\ Home \in [Callers -> Browsers]
  /\ MaxTokens \in Nat /\ MaxEndings \in Nat

VARIABLES
  rows,      \* refresh_tokens, in the order of their ids
  active,    \* users.is_active
  store,     \* the refresh token in a browser's storage, 0 for none
  calls,     \* what each caller waits for
  begun,     \* logins that have read the user, by the endings there were
  endings,   \* history: times all sessions of the user were ended
  crossed,   \* history: tokens two calls held at once
  dropped,   \* history: tokens whose exchange the browser heard nothing of
  alarms,    \* history: replays that were taken for theft
  left       \* history: logins whose token a logout was served for

sessionVars == <<rows, active, store, calls, begun, endings, crossed, dropped, alarms, left>>

Request(op, token) == [step |-> "asked", op |-> op, token |-> token, since |-> 0, answer |-> 0]
Idle == [step |-> "idle", op |-> "none", token |-> 0, since |-> 0, answer |-> 0]
Tokens == DOMAIN rows
Live(i) == rows[i].state = "active"

SessionsInit ==
  /\ rows = <<>> /\ active = TRUE
  /\ store = [b \in Browsers |-> 0]
  /\ calls = [c \in Callers |-> Idle] /\ begun = {}
  /\ endings = 0 /\ crossed = {} /\ dropped = {} /\ alarms = {} /\ left = {}

-----------------------------------------------------------------------------
(* The server. *)

\* A new row.  The rest is history: the login it goes back to, the endings
\* before it was minted, and those before its handler read the table.
Mint(parent, since) ==
  [parent |-> parent, state |-> "active", expired |-> FALSE,
   root |-> IF parent = 0 THEN Len(rows) + 1 ELSE rows[parent].root,
   born |-> endings, since |-> since]

\* Every active row of the user is revoked, and looked at no more for its age.
\* Mutant: those of the token's own chain are.
RevokeAll == [i \in Tokens |-> IF Live(i) THEN [rows[i] EXCEPT !.state = "revoked", !.expired = FALSE] ELSE rows[i]]
RevokeChildren(t) ==
  [i \in Tokens |-> IF Live(i) /\ rows[i].parent = t THEN [rows[i] EXCEPT !.state = "revoked", !.expired = FALSE] ELSE rows[i]]

\* The row is there already revoked.  Mutant: an old one is taken for it.
ReusedOrOld(t) == rows[t].state = "revoked" \/ rows[t].expired
Reused(t) == rows[t].state = "revoked"

Accepted(t) == Live(t) /\ ~rows[t].expired /\ active

Asked(c, op) == calls[c].step = "asked" /\ calls[c].op = op

\* Reuse detection.  Mutant: RevokeChildren in its place.
SoundOnlyChain(c) ==
  /\ Asked(c, "refresh") /\ Reused(calls[c].token) /\ endings < MaxEndings
  /\ rows' = RevokeChildren(calls[c].token) /\ alarms' = alarms \union {[token |-> calls[c].token, at |-> endings]}
  /\ endings' = endings + 1
  /\ calls' = [calls EXCEPT ![c] = Idle]
  /\ UNCHANGED <<active, store, begun, crossed, dropped, left>>
SoundAlarm(c) ==
  /\ Asked(c, "refresh") /\ Reused(calls[c].token) /\ endings < MaxEndings
  /\ rows' = RevokeAll /\ alarms' = alarms \union {[token |-> calls[c].token, at |-> endings]}
  /\ endings' = endings + 1
  /\ calls' = [calls EXCEPT ![c] = Idle]
  /\ UNCHANGED <<active, store, begun, crossed, dropped, left>>

\* Unknown, old, or of a suspended user: 401, after which the browser keeps
\* the token it has.
Refuse(c) ==
  /\ Asked(c, "refresh") /\ ~Reused(calls[c].token) /\ ~Accepted(calls[c].token)
  /\ calls' = [calls EXCEPT ![c] = Idle]
  /\ UNCHANGED <<rows, active, store, begun, endings, crossed, dropped, alarms, left>>

\* The row and the user are read, and not locked.
Check(c) ==
  /\ Asked(c, "refresh") /\ Accepted(calls[c].token)
  /\ calls' = [calls EXCEPT ![c].step = "checked", ![c].since = endings]
  /\ UNCHANGED <<rows, active, store, begun, endings, crossed, dropped, alarms, left>>

\* The old row is revoked and its child added in one commit, which fails when
\* the row is gone.  Mutant: the parent is left as it was.
NotRetired(t) == rows
Retired(t) == [rows EXCEPT ![t].state = "revoked", ![t].expired = FALSE]
Rotate(c) ==
  /\ calls[c].step = "checked" /\ Len(rows) < MaxTokens
  /\ LET t == calls[c].token IN
     IF rows[t].state = "deleted"
     THEN rows' = rows /\ calls' = [calls EXCEPT ![c] = Idle]
     ELSE /\ rows' = Append(Retired(t), Mint(t, calls[c].since))
          /\ calls' = [calls EXCEPT ![c].step = "answered", ![c].answer = Len(rows) + 1]
  /\ UNCHANGED <<active, store, begun, endings, crossed, dropped, alarms, left>>

\* Logout revokes the token it was sent, if it is active.
ServeLogout(c) ==
  /\ Asked(c, "logout")
  /\ rows' = IF Live(calls[c].token) THEN Retired(calls[c].token) ELSE rows
  /\ left' = left \union {rows[calls[c].token].root}
  /\ calls' = [calls EXCEPT ![c].step = "answered"]
  /\ UNCHANGED <<active, store, begun, endings, crossed, dropped, alarms>>

\* A used reset link ends every session.
ResetPassword ==
  /\ active /\ endings < MaxEndings
  /\ rows' = RevokeAll /\ endings' = endings + 1
  /\ UNCHANGED <<active, store, calls, begun, crossed, dropped, alarms, left>>

\* routers/admin.py: a suspended user's rows are deleted.
Deactivate ==
  /\ active /\ endings < MaxEndings
  /\ active' = FALSE /\ endings' = endings + 1
  /\ rows' = [i \in Tokens |-> [rows[i] EXCEPT !.state = "deleted", !.expired = FALSE]]
  /\ UNCHANGED <<store, calls, begun, crossed, dropped, alarms, left>>

Activate ==
  /\ ~active /\ active' = TRUE
  /\ UNCHANGED <<rows, store, calls, begun, endings, crossed, dropped, alarms, left>>

Expire(i) ==
  /\ Live(i) /\ ~rows[i].expired
  /\ rows' = [rows EXCEPT ![i].expired = TRUE]
  /\ UNCHANGED <<active, store, calls, begun, endings, crossed, dropped, alarms, left>>

-----------------------------------------------------------------------------
(* The browsers. *)

Neighbours(c) == {d \in Callers \ {c} : Home[d] = Home[c] /\ calls[d].step # "idle"}

\* The token is read from storage when the call is sent, if there is one.
Ask(c, op) ==
  /\ calls[c].step = "idle" /\ store[Home[c]] # 0
  /\ calls' = [calls EXCEPT ![c] = Request(op, store[Home[c]])]
  /\ crossed' = crossed \union
                {t \in {store[Home[c]]} : \E d \in Neighbours(c) : calls[d].token = t}
  /\ UNCHANGED <<rows, active, store, begun, endings, dropped, alarms, left>>

\* The new pair is stored.
Stored(c) == [store EXCEPT ![Home[c]] = calls[c].answer]
Receive(c) ==
  /\ calls[c].step = "answered" /\ calls[c].op = "refresh"
  /\ store' = Stored(c)
  /\ calls' = [calls EXCEPT ![c] = Idle]
  /\ UNCHANGED <<rows, active, begun, endings, crossed, dropped, alarms, left>>

\* The request, or its answer, is lost.
Lose(c) ==
  /\ calls[c].step \in {"asked", "answered"} /\ calls[c].op = "refresh"
  /\ calls' = [calls EXCEPT ![c] = Idle]
  /\ dropped' = IF calls[c].answer = 0 THEN dropped ELSE dropped \union {calls[c].token}
  /\ UNCHANGED <<rows, active, store, begun, endings, crossed, alarms, left>>

\* Whatever came of the call, the storage is cleared.
FinishLogout(c) ==
  /\ calls[c].step \in {"asked", "answered"} /\ calls[c].op = "logout"
  /\ store' = [store EXCEPT ![Home[c]] = 0]
  /\ calls' = [calls EXCEPT ![c] = Idle]
  /\ UNCHANGED <<rows, active, begun, endings, crossed, dropped, alarms, left>>

\* The storage the tabs share is cleared: by the user, or by a tab that hears
\* of another's logout, however late.
Clear(b) ==
  /\ store' = [store EXCEPT ![b] = 0]
  /\ UNCHANGED <<rows, active, calls, begun, endings, crossed, dropped, alarms, left>>

-----------------------------------------------------------------------------
(* Logins, of any number at once. *)

\* The user is read and the password is right.  A suspended user is not
\* refused.
BeginLogin ==
  /\ begun' = begun \union {endings}
  /\ UNCHANGED <<rows, active, store, calls, endings, crossed, dropped, alarms, left>>

\* The row is committed, at once or after a second factor, and the password is
\* not looked at again.  The answer may be lost.
Login(b, heard) ==
  /\ Len(rows) < MaxTokens
  /\ \E since \in begun : rows' = Append(rows, Mint(0, since))
  /\ store' = IF heard THEN [store EXCEPT ![b] = Len(rows) + 1] ELSE store
  /\ UNCHANGED <<active, calls, begun, endings, crossed, dropped, alarms, left>>

SessionsNext ==
  \/ \E c \in Callers :
       \/ \E op \in {"refresh", "logout"} : Ask(c, op)
       \/ SoundAlarm(c) \/ Refuse(c) \/ Check(c) \/ Rotate(c) \/ ServeLogout(c)
       \/ Receive(c) \/ Lose(c) \/ FinishLogout(c)
  \/ \E b \in Browsers : Clear(b) \/ \E heard \in BOOLEAN : Login(b, heard)
  \/ BeginLogin
  \/ \E i \in Tokens : Expire(i)
  \/ ResetPassword \/ Deactivate \/ Activate

SessionsSpec == SessionsInit /\ [][SessionsNext]_sessionVars

-----------------------------------------------------------------------------
(* Properties. *)

TokenRow ==
  [parent : 0..MaxTokens, state : {"active", "revoked", "deleted"}, expired : BOOLEAN,
   root : 1..MaxTokens, born : 0..MaxEndings, since : 0..MaxEndings]
Call ==
  [step : {"idle", "asked", "checked", "answered"}, op : {"none", "refresh", "logout"},
   token : 0..Len(rows), since : 0..MaxEndings, answer : 0..Len(rows)]

\* The type of every variable; a call carries a token that was minted.
SessionsTypeOK ==
  /\ rows \in Seq(TokenRow) /\ Len(rows) <= MaxTokens
  /\ active \in BOOLEAN /\ endings \in 0..MaxEndings /\ begun \subseteq 0..MaxEndings
  /\ store \in [Browsers -> 0..Len(rows)] /\ calls \in [Callers -> Call]
  /\ \A c \in Callers : calls[c].step # "idle" => calls[c].token # 0
  /\ crossed \subseteq Tokens /\ dropped \subseteq Tokens /\ left \subseteq 1..MaxTokens
  /\ alarms \subseteq [token : Tokens, at : 0..MaxEndings]

\* Once the sessions of a user are ended (a replay, a password reset, a
\* suspension), a token that works was minted since, and so were those it goes
\* back to, up to a login that read the password after the ending or to a
\* login or an exchange that was under way then: auth.py writes what it read
\* without a lock, so that one had read before and wrote after.
EndedStaysEnded ==
  \A i \in Tokens :
    /\ Live(i) => rows[i].born = endings
    /\ rows[i].born = endings =>
         \/ rows[i].since < endings
         \/ rows[i].parent = 0 /\ rows[i].since = endings
         \/ rows[i].parent # 0 /\ rows[rows[i].parent].born = endings

\* Clients that rotate forward are taken for thieves for three reasons only:
\* two calls of one browser held the token, the answer with its child was
\* lost, or all sessions were ended while a browser still held it.
AlarmHasACause ==
  \A a \in alarms :
    a.token \in crossed \union dropped \/ rows[a.token].born < a.at

\* A token has two working children only if two calls exchanged it at once.
TwinsAreARace ==
  \A i, j \in Tokens :
    i # j /\ Live(i) /\ Live(j) /\ rows[i].parent = rows[j].parent
      => rows[i].parent \in crossed \union {0}

\* A login that was logged out of has no working token, unless one of its
\* exchanges was crossed by another call or the browser never heard of it.
LogoutEndsTheLogin ==
  \A i \in Tokens : Live(i) /\ rows[i].root \in left
    => \E t \in crossed \union dropped : rows[t].root = rows[i].root

\* Tokens are well formed, and no ending of all sessions leaves one alive but
\* for what a handler under way writes after it.
SessionsInv == SessionsTypeOK /\ EndedStaysEnded

\* A token forks only when two calls race, and an alarm is raised only for
\* that, for an answer that was lost, or for sessions that were ended; a token
\* survives its logout for the first two only.
RotationInv == AlarmHasACause /\ TwinsAreARace /\ LogoutEndsTheLogin
=============================================================================
