------------------------------- MODULE SignIn -------------------------------
(***************************************************************************)
(* The columns of one users row that sign-in reads and writes              *)
(* (dashboard/backend/auth.py): the count of wrong passwords with its      *)
(* lock, and the second factor.  Requests run at once, each with a session *)
(* of its own: a handler loads the row, decides on what it loaded, and its *)
(* commit writes the columns it changed and no others.                     *)
(*                                                                         *)
(* The user is not an admin, whom the lock exempts.  /login/mfa writes     *)
(* none of these columns, and the session it or /login mints is in module  *)
(* Sessions.                                                               *)
(***************************************************************************)
EXTENDS Integers, FiniteSets

CONSTANTS Requests,
          MaxFailed,    \* MAX_FAILED_ATTEMPTS
          MaxWrong,     \* bound: wrong passwords in a row
          MaxSecrets    \* bound: secrets generated

ASSUME SignInAssumption == MaxFailed \in Nat /\ MaxWrong \in Nat /\ MaxSecrets \in Nat

VARIABLES
  user,      \* the row; secret 0 for none
  reqs,      \* the handler in each thread and the row it loaded
  secrets,   \* secrets generated
  verified,  \* history: secrets of which a code was accepted
  wrong,     \* history: wrong passwords committed since the count was cleared
  mixed      \* history: groups of columns a handler wrote though they had
             \* changed since it loaded them

signInVars == <<user, reqs, secrets, verified, wrong, mixed>>

Columns == {"failed", "locked", "enabled", "secret"}
Lock == {"none", "on", "over"}   \* locked_until unset, ahead, or passed
Ops == {"wrong", "right", "clear", "setup", "verify", "disable"}
Free == [op |-> "none", row |-> [failed |-> 0, locked |-> "none", enabled |-> FALSE, secret |-> 0]]

SignInInit ==
  /\ user = Free.row /\ reqs = [q \in Requests |-> Free]
  /\ secrets = 0 /\ verified = {} /\ wrong = 0 /\ mixed = {}

-----------------------------------------------------------------------------

\* What the handler's checks let through, on the row it loaded.  A code is
\* right for any secret the row may hold: the reader scans what /mfa/setup
\* returned.  Mutant: an enabled factor may be set up again.
MayProceedAgain(op, row) ==
  CASE op \in {"wrong", "right"} -> row.locked # "on"
    [] op = "verify" -> ~row.enabled /\ row.secret # 0
    [] OTHER -> TRUE
MayProceed(op, row) ==
  CASE op \in {"wrong", "right"} -> row.locked # "on"
    [] op = "setup" -> ~row.enabled
    [] op = "verify" -> ~row.enabled /\ row.secret # 0
    [] OTHER -> TRUE

Load(q, op) ==
  /\ reqs[q] = Free /\ MayProceed(op, user)
  /\ reqs' = [reqs EXCEPT ![q] = [op |-> op, row |-> user]]
  /\ UNCHANGED <<user, secrets, verified, wrong, mixed>>

\* One more wrong password, and the lock at the fifth.
AfterWrong(row) ==
  [row EXCEPT !.failed = @ + 1, !.locked = IF row.failed + 1 >= MaxFailed THEN "on" ELSE @]

\* The row as the handler means to leave it; clear is an admin's unlock or a
\* used reset link.
Decided(op, row) ==
  CASE op = "wrong" -> AfterWrong(row)
    [] op \in {"right", "clear"} -> [row EXCEPT !.failed = 0, !.locked = "none"]
    [] op = "setup" -> [row EXCEPT !.secret = secrets + 1]
    [] op = "verify" -> [row EXCEPT !.enabled = TRUE]
    [] op = "disable" -> [row EXCEPT !.enabled = FALSE, !.secret = 0]

\* The columns that differ from what was loaded are written.  A lock set anew
\* has another deadline.
Written(op, row) ==
  {k \in Columns : Decided(op, row)[k] # row[k]}
    \union (IF op = "wrong" /\ Decided(op, row).locked = "on" THEN {"locked"} ELSE {})

Commit(q) ==
  LET op == reqs[q].op  row == reqs[q].row IN
  /\ op # "none"
  /\ op = "setup" => secrets < MaxSecrets
  /\ op = "wrong" => wrong < MaxWrong /\ row.failed < MaxWrong
  /\ user' = [k \in Columns |-> IF k \in Written(op, row) THEN Decided(op, row)[k] ELSE user[k]]
  /\ secrets' = IF op = "setup" THEN secrets + 1 ELSE secrets
  /\ verified' = IF op = "verify" THEN verified \union {row.secret} ELSE verified
  /\ wrong' = CASE op = "wrong" -> wrong + 1 [] op \in {"right", "clear"} -> 0 [] OTHER -> wrong
  /\ mixed' = mixed
       \union (IF op \in {"wrong", "right", "clear"} /\ <<row.failed, row.locked>> # <<user.failed, user.locked>>
               THEN {"count"} ELSE {})
       \union (IF op \in {"setup", "verify", "disable"} /\ <<row.enabled, row.secret>> # <<user.enabled, user.secret>>
               THEN {"factor"} ELSE {})
  /\ reqs' = [reqs EXCEPT ![q] = Free]

\* Fifteen minutes pass.  The count stays.
LockPasses ==
  /\ user.locked = "on" /\ user' = [user EXCEPT !.locked = "over"]
  /\ UNCHANGED <<reqs, secrets, verified, wrong, mixed>>

SignInNext ==
  \/ \E q \in Requests : Commit(q) \/ \E op \in Ops : Load(q, op)
  \/ LockPasses

-----------------------------------------------------------------------------
(* Properties. *)

\* The type of every variable; no secret was verified that was not generated.
SignInTypeOK ==
  /\ user \in [failed : 0..MaxWrong, locked : Lock, enabled : BOOLEAN, secret : 0..secrets]
  /\ reqs \in [Requests -> [op : Ops \union {"none"},
                            row : [failed : 0..MaxWrong, locked : Lock, enabled : BOOLEAN, secret : 0..secrets]]]
  /\ secrets \in 0..MaxSecrets /\ verified \subseteq 1..secrets
  /\ wrong \in 0..MaxWrong /\ mixed \subseteq {"count", "factor"}

\* A factor that sign-in asks for is one the user has confirmed with a code,
\* unless two changes of the factor were decided on the same row: /mfa/setup
\* and /mfa/disable do not look at the row again when they commit.
EnabledIsVerified ==
  user.enabled => user.secret \in verified \/ "factor" \in mixed

\* An account is locked only after five wrong passwords since the count was
\* cleared, unless an attempt was counted on a row that had changed.
LockTakesFive ==
  user.locked = "on" => wrong >= MaxFailed \/ "count" \in mixed

\* A factor that is asked for was verified, and a lock took five failures.
SignInInv == SignInTypeOK /\ EnabledIsVerified /\ LockTakesFive
=============================================================================
