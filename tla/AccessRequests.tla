--------------------------- MODULE AccessRequests ---------------------------
(***************************************************************************)
(* How accounts come to be: the public form and the admin's decisions      *)
(* (dashboard/backend/routers/access_requests.py), and the admin's own     *)
(* registration of a user (auth.py, register).                             *)
(*                                                                         *)
(* Each handler runs on a thread of its own and is two steps: what it      *)
(* reads, and the commit.  Two addresses are one person's when             *)
(* normalize_email maps them to one form.  Passwords, rate limits and the  *)
(* audit log are left out.                                                 *)
(***************************************************************************)
EXTENDS Integers, Sequences, FiniteSets

CONSTANTS Emails,
          Person,       \* normalize_email
          Handlers,     \* threads
          MaxForms      \* bound: forms accepted

ASSUME AccessAssumption == DOMAIN Person = Emails /\ MaxForms \in Nat

VARIABLES
  forms,      \* access_requests, in the order of their ids
  users,      \* users.email
  doing,      \* the handler on each thread, after it has read
  registered, \* history: accounts made by register
  overtaken   \* history: people of whom something was decided on a stale read

accessVars == <<forms, users, doing, registered, overtaken>>

Nothing == [op |-> "none", email |-> 0, form |-> 0, pending |-> {}, users |-> {}]

AccessInit ==
  /\ forms = <<>> /\ users = {} /\ registered = {} /\ overtaken = {}
  /\ doing = [h \in Handlers |-> Nothing]

-----------------------------------------------------------------------------

PendingOf(p) == {i \in DOMAIN forms : forms[i].status = "pending" /\ Person[forms[i].email] = p}
AccountsOf(p) == {e \in users : Person[e] = p}

\* What each handler asks before it goes on.  Mutant: addresses are
\* compared as they are typed.
NoOpenForm(e) == PendingOf(Person[e]) = {}
NoAccountTyped(e) == e \notin users
NoAccount(e) == AccountsOf(Person[e]) = {}

Read(h, op, e, i) ==
  /\ doing[h] = Nothing
  /\ doing' = [doing EXCEPT ![h] = [op |-> op, email |-> e, form |-> i,
                                    pending |-> PendingOf(Person[e]), users |-> AccountsOf(Person[e])]]
  /\ UNCHANGED <<forms, users, registered, overtaken>>

\* A form that repeats an open one is answered as if it were new.
ReadSubmit(h) == \E e \in Emails : NoOpenForm(e) /\ Read(h, "submit", e, 0)

\* A decision looks at the form whatever its status.
ReadDecision(h, op) ==
  \E i \in DOMAIN forms :
    /\ forms[i].status # "deleted"
    /\ op = "approve" => NoAccount(forms[i].email)
    /\ Read(h, op, forms[i].email, i)

ReadRegister(h) == \E e \in Emails : e \notin users /\ Read(h, "register", e, 0)

\* The read no longer holds when the handler commits.
Overtaken(h) ==
  LET d == doing[h]  p == Person[d.email] IN
  IF (IF d.op = "submit" THEN d.pending = PendingOf(p) ELSE d.users = AccountsOf(p)) THEN {} ELSE {p}

\* A commit fails as a whole when the form is gone or the address is taken.
Fails(h) ==
  \/ doing[h].form # 0 /\ forms[doing[h].form].status = "deleted"
  \/ doing[h].op \in {"approve", "register"} /\ doing[h].email \in users

Outcome(op) == CASE op = "approve" -> "approved" [] op = "reject" -> "rejected" [] op = "delete" -> "deleted"

NewUsers(d) == IF d.op \in {"approve", "register"} THEN {d.email} ELSE {}

Conclude(h) ==
  LET d == doing[h] IN
  /\ d.op # "none"
  /\ d.op = "submit" => Len(forms) < MaxForms
  /\ doing' = [doing EXCEPT ![h] = Nothing]
  /\ IF Fails(h) THEN UNCHANGED <<forms, users, registered, overtaken>>
     ELSE /\ forms' = IF d.op = "submit" THEN Append(forms, [email |-> d.email, status |-> "pending"])
                      ELSE IF d.form = 0 THEN forms ELSE [forms EXCEPT ![d.form].status = Outcome(d.op)]
          /\ users' = users \union NewUsers(d)
          /\ registered' = IF d.op = "register" THEN registered \union {d.email} ELSE registered
          /\ overtaken' = overtaken \union Overtaken(h)

AccessNext ==
  \E h \in Handlers :
    \/ ReadSubmit(h) \/ ReadRegister(h) \/ Conclude(h)
    \/ \E op \in {"approve", "reject", "delete"} : ReadDecision(h, op)

-----------------------------------------------------------------------------
(* Properties. *)

\* The type of every variable.
AccessTypeOK ==
  /\ forms \in Seq([email : Emails, status : {"pending", "approved", "rejected", "deleted"}])
  /\ Len(forms) <= MaxForms /\ users \subseteq Emails /\ registered \subseteq users
  /\ \A h \in Handlers : doing[h] = Nothing \/ doing[h].email \in Emails
  /\ overtaken \subseteq {Person[e] : e \in Emails}

\* access_requests.py:185 "one person can't hold two accounts via aliases":
\* nobody has two, unless an admin registered one of them, where addresses
\* are compared as typed, or two handlers had read the users at once.
OneAccountEach ==
  \A e, f \in users :
    e # f /\ Person[e] = Person[f] => {e, f} \intersect registered # {} \/ Person[e] \in overtaken

\* access_requests.py:56 "One pending request per person": unless a form was
\* in flight when another was read.  A decision is never undone to pending.
OnePendingEach ==
  \A e \in Emails : Cardinality(PendingOf(Person[e])) > 1 => Person[e] \in overtaken

\* Who is approved can sign in: the form and the account change in one
\* commit, whatever else was decided of either in between.
ApprovedHasAccount == \A i \in DOMAIN forms : forms[i].status = "approved" => forms[i].email \in users

\* One account and one pending form to a person, whatever races do not break
\* it, and no approval without an account.
AccessInv == AccessTypeOK /\ OneAccountEach /\ OnePendingEach /\ ApprovedHasAccount
=============================================================================
