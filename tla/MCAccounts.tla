----------------------------- MODULE MCAccounts -----------------------------
(* Access requests, sign-in and sessions write different tables: in a       *)
(* behaviour one of the three moves.  Two addresses of one person, and a    *)
(* browser with two callers; a login it never hears of is one elsewhere.    *)
EXTENDS Sessions, SignIn, AccessRequests, TLC

CONSTANTS desk, ann

VARIABLE part

AtDesk == [c \in Callers |-> desk]
OfAnn == [e \in Emails |-> ann]

accountVars == <<sessionVars, signInVars, accessVars, part>>

SessionsMove == part = "sessions" /\ SessionsNext /\ UNCHANGED <<signInVars, accessVars, part>>
SignInMoves == part = "sign-in" /\ SignInNext /\ UNCHANGED <<sessionVars, accessVars, part>>
AccessMoves == part = "access" /\ AccessNext /\ UNCHANGED <<sessionVars, signInVars, part>>

AccountsInit ==
  SessionsInit /\ SignInInit /\ AccessInit /\ part \in {"sessions", "sign-in", "access"}
AccountsSpec == AccountsInit /\ [][SessionsMove \/ SignInMoves \/ AccessMoves]_accountVars

\* What is to come depends on who has begun a login as long as one can still be
\* committed, and the properties on what a handler had read as long as no ending
\* has come since.
Matters ==
  <<[i \in Tokens |-> IF rows[i].born = endings THEN rows[i] ELSE [rows[i] EXCEPT !.since = 0]],
    active, store, calls, IF Len(rows) < MaxTokens THEN begun ELSE {}, endings,
    crossed, dropped, alarms, left, signInVars, accessVars, part>>

\* The callers of a browser are alike, and so are the threads; since one part
\* moves, the same two values stand for all of them.
Alike == Permutations(Callers)
=============================================================================
