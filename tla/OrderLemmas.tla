---------------------------- MODULE OrderLemmas ----------------------------
(***************************************************************************)
(* Extreme elements of sets of numbers, and what iterates over a finite    *)
(* set: the library's folds are such iterations.  Both are used in place   *)
(* of induction: a property of every index, or of every subset, is refuted *)
(* at its least exception.                                                 *)
(***************************************************************************)
EXTENDS Integers, FiniteSetsExt, FiniteSetTheorems, WellFoundedInduction, TLAPS

\* Least-number principle for a set, as the induction schemas cannot be
\* instantiated with an operator.
LEMMA LeastElement ==
  ASSUME NEW T \in SUBSET Nat, T # {}
  PROVE  \E m \in T : \A k \in T : ~(k < m)
<1>1. PICK m \in T : \A k \in T : ~(<<k, m>> \in OpToRel(<, Nat))
  BY NatLessThanWellFounded, WFMin
<1>2. \A k \in T : <<k, m>> \in OpToRel(<, Nat) <=> k < m
  BY DEF OpToRel
<1> QED BY <1>1, <1>2

\* A nonempty set of numbers below a bound has a greatest element.
LEMMA GreatestElement ==
  ASSUME NEW n \in Nat, NEW T \in SUBSET (0..n), T # {}
  PROVE  \E m \in T : \A k \in T : k <= m
<1> DEFINE U == {n - k : k \in T}
<1>1. \A k \in T : k \in Nat /\ n - k \in Nat
  OBVIOUS
<1>5. U \in SUBSET Nat
  BY <1>1
<1>6. U # {}
  OBVIOUS
<1>2. PICK u \in U : \A v \in U : ~(v < u)
  BY <1>5, <1>6, LeastElement
<1>3. PICK m \in T : u = n - m
  OBVIOUS
<1>4. \A k \in T : k <= m
  <2> TAKE k \in T
  <2>1. n - k \in U
    OBVIOUS
  <2>2. ~(n - k < n - m)
    BY <2>1, <1>2, <1>3
  <2> QED BY <2>2, <1>1
<1> QED BY <1>4

-----------------------------------------------------------------------------
(* Iterations over a finite set. *)

\* A set of subsets of a finite set has a member that contains no other.
LEMMA SmallestSubset ==
  ASSUME NEW S, IsFiniteSet(S), NEW T \in SUBSET (SUBSET S), T # {}
  PROVE  \E m \in T : \A k \in T : k \subseteq m => k = m
<1>1. IsWellFoundedOn(StrictSubsetOrdering(S), SUBSET S)
  BY FS_StrictSubsetOrderingWellFounded, FS_FiniteSubsetsOfFinite
<1>2. PICK m \in T : \A k \in T : ~(<<k, m>> \in StrictSubsetOrdering(S))
  BY <1>1, WFMin
<1>3. \A k \in T : k \subseteq m /\ k # m => <<k, m>> \in StrictSubsetOrdering(S)
  BY DEF StrictSubsetOrdering
<1>4. \A k \in T : k \subseteq m => k = m
  <2> SUFFICES ASSUME NEW k \in T, k \subseteq m PROVE k = m
    OBVIOUS
  <2> QED BY <1>2, <1>3
<1> QED BY <1>4

\* g[s] is what step makes of base and the elements of s, taken in the order
\* of pick.
Picks(S, pick) == \A s \in SUBSET S : s # {} => pick[s] \in s
Iterates(S, pick, step, base, g) ==
  g = [s \in SUBSET S |-> IF s = {} THEN base ELSE step[<<pick[s], g[s \ {pick[s]}]>>]]

LEMMA IterateBase ==
  ASSUME NEW S, NEW pick, NEW step, NEW base, NEW g, Iterates(S, pick, step, base, g)
  PROVE  g[{}] = base
<1> DEFINE G(t) == IF t = {} THEN base ELSE step[<<pick[t], g[t \ {pick[t]}]>>]
<1>1. g = [t \in SUBSET S |-> G(t)]
  BY DEF Iterates
<1> HIDE DEF G
<1>2. \A t \in SUBSET S : g[t] = G(t)
  BY <1>1
<1>3. {} \in SUBSET S
  OBVIOUS
<1> QED BY <1>2, <1>3 DEF G

LEMMA IterateStep ==
  ASSUME NEW S, NEW pick, NEW step, NEW base, NEW g, Iterates(S, pick, step, base, g),
         NEW s \in SUBSET S, s # {}
  PROVE  g[s] = step[<<pick[s], g[s \ {pick[s]}]>>]
<1> DEFINE G(t) == IF t = {} THEN base ELSE step[<<pick[t], g[t \ {pick[t]}]>>]
<1>1. g = [t \in SUBSET S |-> G(t)]
  BY DEF Iterates
<1> HIDE DEF G
<1>2. \A t \in SUBSET S : g[t] = G(t)
  BY <1>1
<1> QED BY <1>2 DEF G

\* Two iterations agree where both are defined.
LEMMA IterateUnique ==
  ASSUME NEW S, IsFiniteSet(S), NEW pick, Picks(S, pick), NEW step, NEW base,
         NEW A \in SUBSET S, NEW B \in SUBSET S,
         NEW g, Iterates(A, pick, step, base, g), NEW h, Iterates(B, pick, step, base, h),
         NEW s \in SUBSET A, s \in SUBSET B
  PROVE  g[s] = h[s]
<1> DEFINE T == {t \in SUBSET S : t \in SUBSET A /\ t \in SUBSET B /\ g[t] # h[t]}
<1>1. SUFFICES ASSUME T # {} PROVE FALSE
  OBVIOUS
<1>a. T \in SUBSET (SUBSET S)
  OBVIOUS
<1>b. \A t : t \in T <=> t \in SUBSET S /\ t \in SUBSET A /\ t \in SUBSET B /\ g[t] # h[t]
  OBVIOUS
<1> HIDE DEF T
<1>2. PICK m \in T : \A k \in T : k \subseteq m => k = m
  BY <1>a, <1>1, SmallestSubset
<1>c. g[{}] = base /\ \A t \in SUBSET A : t # {} => g[t] = step[<<pick[t], g[t \ {pick[t]}]>>]
  <2>1. g[{}] = base
    BY IterateBase
  <2>2. \A t \in SUBSET A : t # {} => g[t] = step[<<pick[t], g[t \ {pick[t]}]>>]
    BY IterateStep
  <2> QED BY <2>1, <2>2
<1>d. h[{}] = base /\ \A t \in SUBSET B : t # {} => h[t] = step[<<pick[t], h[t \ {pick[t]}]>>]
  <2>1. h[{}] = base
    BY IterateBase
  <2>2. \A t \in SUBSET B : t # {} => h[t] = step[<<pick[t], h[t \ {pick[t]}]>>]
    BY IterateStep
  <2> QED BY <2>1, <2>2
<1>4. m # {} /\ m \in SUBSET S /\ m \in SUBSET A /\ m \in SUBSET B /\ g[m] # h[m]
  BY <1>2, <1>b, <1>c, <1>d
<1>5. pick[m] \in m
  BY <1>4 DEF Picks
<1>6. m \ {pick[m]} \subseteq m /\ m \ {pick[m]} # m
  BY <1>5
<1>7. g[m \ {pick[m]}] = h[m \ {pick[m]}]
  <2>1. m \ {pick[m]} \notin T
    BY <1>2, <1>6
  <2>2. m \ {pick[m]} \in SUBSET S /\ m \ {pick[m]} \in SUBSET A /\ m \ {pick[m]} \in SUBSET B
    BY <1>4
  <2> QED BY <1>b, <2>1, <2>2
<1>8. g[m] = h[m]
  BY <1>4, <1>7, <1>c, <1>d
<1> QED BY <1>4, <1>8

\* An iteration over a finite set exists and stays where its steps do.
LEMMA IterateExists ==
  ASSUME NEW S, IsFiniteSet(S), NEW V, NEW base \in V, NEW step \in [S \X V -> V],
         NEW pick, Picks(S, pick)
  PROVE  \E g \in [SUBSET S -> V] : Iterates(S, pick, step, base, g)
<1>u. ASSUME NEW B, NEW C, B \in SUBSET S, C \in SUBSET S, NEW b, NEW d,
             Iterates(B, pick, step, base, b), Iterates(C, pick, step, base, d)
      PROVE  \A t : t \in SUBSET B /\ t \in SUBSET C => b[t] = d[t]
  BY <1>u, IterateUnique
<1> DEFINE Has(A) == \E g \in [SUBSET A -> V] : Iterates(A, pick, step, base, g)
           T == {A \in SUBSET S : ~Has(A)}
<1>1. SUFFICES ASSUME T # {} PROVE FALSE
  <2>1. S \in SUBSET S
    OBVIOUS
  <2> QED BY <2>1
<1>a. T \in SUBSET (SUBSET S) /\ \A t : t \in T <=> t \in SUBSET S /\ ~Has(t)
  OBVIOUS
<1> HIDE DEF T
<1>2. PICK A \in T : \A k \in T : k \subseteq A => k = A
  BY <1>a, <1>1, SmallestSubset
<1> DEFINE G == [B \in SUBSET A |-> CHOOSE g \in [SUBSET B -> V] : Iterates(B, pick, step, base, g)]
           R == [s \in SUBSET A |-> IF s = {} THEN base
                                    ELSE step[<<pick[s], G[s \ {pick[s]}][s \ {pick[s]}]>>]]
<1> HIDE DEF Has
<1>3. A \in SUBSET S /\ \A B \in SUBSET A : B # A => Has(B)
  BY <1>2, <1>a
<1> USE DEF Has
<1>4. \A B \in SUBSET A : B # A => G[B] \in [SUBSET B -> V] /\ Iterates(B, pick, step, base, G[B])
  BY <1>3
<1>5. \A s \in SUBSET A : s # {} => pick[s] \in s /\ s \ {pick[s]} \in SUBSET A /\ s \ {pick[s]} # A /\ s \ {pick[s]} # s
  BY <1>3 DEF Picks
<1> HIDE DEF G
<1>6. \A s \in SUBSET A : s # {} => R[s] = step[<<pick[s], G[s \ {pick[s]}][s \ {pick[s]}]>>]
  OBVIOUS
<1>7. R[{}] = base /\ DOMAIN R = SUBSET A
  OBVIOUS
<1>8. R \in [SUBSET A -> V]
  <2> SUFFICES ASSUME NEW s \in SUBSET A, s # {} PROVE R[s] \in V
    BY <1>7
  <2> DEFINE B == s \ {pick[s]}
  <2>1. B \in SUBSET A /\ B # A /\ pick[s] \in S
    BY <1>3, <1>5
  <2>2. G[B] \in [SUBSET B -> V]
    BY <1>4, <2>1
  <2>3. G[B][B] \in V
    BY <2>2
  <2>4. <<pick[s], G[B][B]>> \in S \X V
    BY <2>1, <2>3
  <2>5. step[<<pick[s], G[B][B]>>] \in V
    BY <2>4
  <2> QED BY <1>6, <2>5
<1> HIDE DEF R
\* What the smaller iterations say of a set they share is what R says.
<1>9. \A B \in SUBSET A : B # A => R[B] = G[B][B]
  <2> SUFFICES ASSUME NEW B \in SUBSET A, B # A PROVE R[B] = G[B][B]
    OBVIOUS
  <2>1. Iterates(B, pick, step, base, G[B]) /\ Picks(B, pick)
    BY <1>3, <1>4 DEF Picks
  <2>2. CASE B = {}
    <3>1. G[B][{}] = base
      BY <2>1, IterateBase
    <3> QED BY <1>7, <2>2, <3>1
  <2>3. CASE B # {}
    <3> DEFINE C == B \ {pick[B]}
    <3>1. C \in SUBSET A /\ C # A /\ C \in SUBSET B /\ B \in SUBSET S /\ C \in SUBSET S
      BY <1>3, <1>5, <2>3
    <3>2. Iterates(C, pick, step, base, G[C])
      BY <1>4, <3>1
    <3>3. G[B][C] = G[C][C]
      <4>1. C \in SUBSET C
        OBVIOUS
      <4> DEFINE b == G[B]
                 d == G[C]
      <4>2. Iterates(B, pick, step, base, b) /\ Iterates(C, pick, step, base, d)
        BY <2>1, <3>2
      <4> HIDE DEF C, b, d
      <4>3. B \in SUBSET S /\ C \in SUBSET S
        BY <3>1
      <4>4. \A t : t \in SUBSET B /\ t \in SUBSET C => b[t] = d[t]
        BY <4>2, <4>3, <1>u
      <4>5. b[C] = d[C]
        BY <3>1, <4>1, <4>4
      <4> QED BY <4>5 DEF b, d
    <3>4. G[B][B] = step[<<pick[B], G[B][C]>>]
      <4>1. \A t \in SUBSET B : t # {} => G[B][t] = step[<<pick[t], G[B][t \ {pick[t]}]>>]
        BY <2>1, IterateStep
      <4> QED BY <2>3, <4>1
    <3> QED BY <1>6, <2>3, <3>3, <3>4
  <2> QED BY <2>2, <2>3
<1>10. Iterates(A, pick, step, base, R)
  <2> DEFINE Q == [s \in SUBSET A |-> IF s = {} THEN base ELSE step[<<pick[s], R[s \ {pick[s]}]>>]]
  <2>1. \A s \in SUBSET A : R[s] = Q[s]
    <3> SUFFICES ASSUME NEW s \in SUBSET A PROVE R[s] = Q[s]
      OBVIOUS
    <3>1. CASE s = {}
      BY <1>7, <3>1
    <3>2. CASE s # {}
      <4>1. R[s \ {pick[s]}] = G[s \ {pick[s]}][s \ {pick[s]}]
        BY <1>5, <1>9, <3>2
      <4> QED BY <1>6, <3>2, <4>1
    <3> QED BY <3>1, <3>2
  <2>2. R = [s \in SUBSET A |-> R[s]] /\ Q = [s \in SUBSET A |-> Q[s]]
    BY <1>8
  <2>3. R = Q
    BY <2>1, <2>2
  <2> QED BY <2>3 DEF Iterates
<1>11. Has(A)
  BY <1>8, <1>10
<1> QED BY <1>2, <1>11, <1>a

-----------------------------------------------------------------------------
(* Sums. *)

\* g[s] is the sum of h over s, whatever element is taken first.
Additive(h, S, g) ==
  /\ g \in [SUBSET S -> Int] /\ g[{}] = 0
  /\ \A s \in SUBSET S : \A x \in s : g[s] = h[x] + g[s \ {x}]

SumPick(S) == [s \in SUBSET S |-> CHOOSE x \in s : TRUE]
SumStep(h, S) == [p \in S \X Int |-> h[p[1]] + p[2]]

LEMMA IterateIsSum ==
  ASSUME NEW S, IsFiniteSet(S), NEW h \in [S -> Int],
         NEW g \in [SUBSET S -> Int], Iterates(S, SumPick(S), SumStep(h, S), 0, g)
  PROVE  Additive(h, S, g)
<1> DEFINE pick == SumPick(S)
           step == SumStep(h, S)
<1>1. \A s \in SUBSET S : s # {} => pick[s] \in s
  BY DEF SumPick
<1>2. \A x \in S, v \in Int : step[<<x, v>>] = h[x] + v
  BY DEF SumStep
<1>3. Iterates(S, pick, step, 0, g)
  OBVIOUS
<1> HIDE DEF pick, step
<1>4. g[{}] = 0
  BY <1>3, IterateBase
<1>5. \A s \in SUBSET S : s # {} => g[s] = step[<<pick[s], g[s \ {pick[s]}]>>]
  BY <1>3, IterateStep
<1>6. \A s \in SUBSET S : s # {} => g[s] = h[pick[s]] + g[s \ {pick[s]}]
  <2> SUFFICES ASSUME NEW s \in SUBSET S, s # {} PROVE g[s] = h[pick[s]] + g[s \ {pick[s]}]
    OBVIOUS
  <2>1. pick[s] \in S /\ g[s \ {pick[s]}] \in Int
    BY <1>1
  <2> QED BY <1>2, <1>5, <2>1
<1> DEFINE Bad(s) == \E x \in s : g[s] # h[x] + g[s \ {x}]
           T == {s \in SUBSET S : Bad(s)}
<1>7. SUFFICES ASSUME T # {} PROVE FALSE
  BY <1>4 DEF Additive
<1>8. T \in SUBSET (SUBSET S) /\ \A s : s \in T <=> s \in SUBSET S /\ Bad(s)
  OBVIOUS
<1> HIDE DEF T
<1>9. PICK m \in T : \A k \in T : k \subseteq m => k = m
  BY <1>7, <1>8, SmallestSubset
<1>10. m \in SUBSET S /\ \A k \in SUBSET S : k \subseteq m /\ k # m => ~Bad(k)
  BY <1>8, <1>9
<1>11. PICK x \in m : g[m] # h[x] + g[m \ {x}]
  BY <1>8, <1>9
<1> DEFINE c == pick[m]
<1>12. c \in m /\ g[m] = h[c] + g[m \ {c}]
  BY <1>1, <1>6, <1>10, <1>11
<1> HIDE DEF c
<1>13. c # x
  BY <1>11, <1>12
<1>14. g[m \ {c}] = h[x] + g[(m \ {c}) \ {x}]
  <2>1. m \ {c} \in SUBSET S /\ m \ {c} \subseteq m /\ m \ {c} # m /\ x \in m \ {c}
    BY <1>10, <1>11, <1>12, <1>13
  <2> QED BY <1>10, <2>1
<1>15. g[m \ {x}] = h[c] + g[(m \ {x}) \ {c}]
  <2>1. m \ {x} \in SUBSET S /\ m \ {x} \subseteq m /\ m \ {x} # m /\ c \in m \ {x}
    BY <1>10, <1>11, <1>12, <1>13
  <2> QED BY <1>10, <2>1
<1>16. (m \ {x}) \ {c} = (m \ {c}) \ {x}
  OBVIOUS
<1>17. h[c] \in Int /\ h[x] \in Int /\ g[(m \ {c}) \ {x}] \in Int
  <2>1. c \in S /\ x \in S /\ (m \ {c}) \ {x} \in SUBSET S
    BY <1>10, <1>11, <1>12
  <2> QED BY <2>1
<1> DEFINE a == g[m \ {c}]
           b == g[m \ {x}]
           d == g[(m \ {c}) \ {x}]
<1>18. a = h[x] + d /\ b = h[c] + d /\ g[m] = h[c] + a /\ g[m] # h[x] + b /\ d \in Int
  BY <1>11, <1>12, <1>14, <1>15, <1>16, <1>17
<1> HIDE DEF a, b, d
<1> QED BY <1>17, <1>18

\* X[t] is the sum of h over t, the element CHOOSE names taken first.
SumsTo(h, S, X) ==
  X = [t \in SUBSET S |-> IF t = {} THEN 0
                          ELSE h[CHOOSE x \in t : TRUE] + X[t \ {CHOOSE x \in t : TRUE}]]

LEMMA SumExists ==
  ASSUME NEW S, IsFiniteSet(S), NEW h \in [S -> Int]
  PROVE  \E X : SumsTo(h, S, X) /\ Additive(h, S, X)
<1> DEFINE pick == SumPick(S)
           step == SumStep(h, S)
<1>1. \A t \in SUBSET S : t # {} => pick[t] \in t /\ pick[t] = CHOOSE x \in t : TRUE
  BY DEF SumPick
<1>2. step \in [S \X Int -> Int] /\ \A x \in S, v \in Int : step[<<x, v>>] = h[x] + v
  BY DEF SumStep
<1>3. Picks(S, pick) /\ 0 \in Int
  BY <1>1 DEF Picks
<1>4. PICK g \in [SUBSET S -> Int] : Iterates(S, pick, step, 0, g)
  <2> HIDE DEF pick, step
  <2> QED BY <1>2, <1>3, IterateExists
<1>5. Additive(h, S, g)
  BY <1>4, IterateIsSum
<1>6. SumsTo(h, S, g)
  <2> DEFINE F == [t \in SUBSET S |-> IF t = {} THEN 0
                    ELSE h[CHOOSE x \in t : TRUE] + g[t \ {CHOOSE x \in t : TRUE}]]
  <2>1. ASSUME NEW t \in SUBSET S PROVE F[t] = g[t]
    <3>1. CASE t = {}
      BY <1>5, <3>1 DEF Additive
    <3>2. CASE t # {}
      <4>1. pick[t] \in t /\ pick[t] = CHOOSE x \in t : TRUE
        BY <1>1, <3>2
      <4>2. g[t] = h[pick[t]] + g[t \ {pick[t]}]
        BY <1>5, <4>1 DEF Additive
      <4> QED BY <3>2, <4>1, <4>2
    <3> QED BY <3>1, <3>2
  <2>2. F = g
    BY <2>1
  <2> QED BY <2>2 DEF SumsTo
<1> QED BY <1>5, <1>6

\* Whatever sums that way is additive.
LEMMA SumIsAdditive ==
  ASSUME NEW S, IsFiniteSet(S), NEW h \in [S -> Int], NEW X, SumsTo(h, S, X)
  PROVE  Additive(h, S, X)
<1>1. PICK g : SumsTo(h, S, g) /\ Additive(h, S, g)
  BY SumExists
<1>2. \A t \in SUBSET S : X[t] = IF t = {} THEN 0 ELSE h[CHOOSE x \in t : TRUE] + X[t \ {CHOOSE x \in t : TRUE}]
  <2> DEFINE F(t) == IF t = {} THEN 0 ELSE h[CHOOSE x \in t : TRUE] + X[t \ {CHOOSE x \in t : TRUE}]
  <2>1. X = [t \in SUBSET S |-> F(t)]
    BY DEF SumsTo
  <2> HIDE DEF F
  <2>2. \A t \in SUBSET S : X[t] = F(t)
    BY <2>1
  <2> QED BY <2>2 DEF F
<1>3. \A t \in SUBSET S : t # {} => (CHOOSE x \in t : TRUE) \in t
  OBVIOUS
<1> DEFINE B == {t \in SUBSET S : X[t] # g[t]}
<1>4. SUFFICES ASSUME B # {} PROVE FALSE
  <2>1. X = [t \in SUBSET S |-> X[t]] /\ g = [t \in SUBSET S |-> g[t]]
    BY <1>1 DEF SumsTo
  <2>2. X = g
    BY <2>1
  <2> QED BY <1>1, <2>2
<1>5. B \in SUBSET (SUBSET S) /\ \A t : t \in B <=> t \in SUBSET S /\ X[t] # g[t]
  OBVIOUS
<1> HIDE DEF B
<1>6. PICK m \in B : \A k \in B : k \subseteq m => k = m
  BY <1>4, <1>5, SmallestSubset
<1>7. m \in SUBSET S /\ X[m] # g[m] /\ g[{}] = 0 /\ m # {}
  BY <1>1, <1>2, <1>5, <1>6 DEF Additive
<1> DEFINE c == CHOOSE x \in m : TRUE
<1>8. c \in m
  BY <1>3, <1>7
<1>9. X[m] = h[c] + X[m \ {c}]
  BY <1>2, <1>7
<1> HIDE DEF c
<1>10. g[m] = h[c] + g[m \ {c}]
  BY <1>1, <1>7, <1>8 DEF Additive
<1>11. X[m \ {c}] = g[m \ {c}]
  <2>1. m \ {c} \in SUBSET S /\ m \ {c} \subseteq m /\ m \ {c} # m
    BY <1>7, <1>8
  <2> QED BY <1>5, <1>6, <2>1
<1> QED BY <1>7, <1>9, <1>10, <1>11

\* A sum depends on what it adds only.
LEMMA SumsAgree ==
  ASSUME NEW S, IsFiniteSet(S), NEW h, NEW g, Additive(h, S, g),
         NEW T, NEW k, NEW f, Additive(k, T, f),
         S \subseteq T, \A x \in S : h[x] = k[x]
  PROVE  g[S] = f[S]
<1> DEFINE B == {s \in SUBSET S : g[s] # f[s]}
<1>1. SUFFICES ASSUME B # {} PROVE FALSE
  <2>1. S \in SUBSET S
    OBVIOUS
  <2> QED BY <2>1
<1>2. B \in SUBSET (SUBSET S) /\ \A s : s \in B <=> s \in SUBSET S /\ g[s] # f[s]
  OBVIOUS
<1> HIDE DEF B
<1>3. PICK m \in B : \A t \in B : t \subseteq m => t = m
  BY <1>1, <1>2, SmallestSubset
<1>4. g[{}] = 0 /\ f[{}] = 0
  BY DEF Additive
<1>5. m \in SUBSET S /\ g[m] # f[m] /\ m # {}
  BY <1>2, <1>3, <1>4
<1>6. PICK x \in m : TRUE
  BY <1>5
<1>7. g[m] = h[x] + g[m \ {x}]
  BY <1>5, <1>6 DEF Additive
<1>8. f[m] = k[x] + f[m \ {x}]
  <2>1. m \in SUBSET T
    BY <1>5
  <2>2. \A t \in SUBSET T : \A y \in t : f[t] = k[y] + f[t \ {y}]
    BY DEF Additive
  <2> HIDE DEF Additive
  <2> QED BY <1>6, <2>1, <2>2
<1>9. g[m \ {x}] = f[m \ {x}]
  <2>1. m \ {x} \in SUBSET S /\ m \ {x} \subseteq m /\ m \ {x} # m
    BY <1>5, <1>6
  <2> QED BY <1>2, <1>3, <2>1
<1>10. h[x] = k[x]
  BY <1>5, <1>6
<1> QED BY <1>5, <1>7, <1>8, <1>9, <1>10

-----------------------------------------------------------------------------
(* Chains. *)

\* The greatest of a set of indices is taken first, so an iteration over 1..n
\* adds the indices in order.
TopPick(n) == [s \in SUBSET (1..n) |-> Max(s)]

LEMMA MaxOfSome ==
  ASSUME NEW n \in Nat, NEW s \in SUBSET (1..n), s # {}
  PROVE  Max(s) \in s /\ \A y \in s : Max(s) >= y
<1>1. \E m \in s : \A k \in s : k <= m
  <2>1. s \in SUBSET (0..n)
    OBVIOUS
  <2> QED BY <2>1, GreatestElement
<1>2. \E m \in s : \A k \in s : m >= k
  BY <1>1
<1> QED BY <1>2 DEF Max

LEMMA MaxOfPrefix ==
  ASSUME NEW k \in Nat, k > 0
  PROVE  Max(1..k) = k /\ (1..k) \ {k} = 1..(k - 1)
<1>1. k \in 1..k /\ \A y \in 1..k : k >= y
  OBVIOUS
<1>2. Max(1..k) \in 1..k /\ Max(1..k) >= k
  BY <1>1, MaxOfSome
<1> QED BY <1>2


Chains(n, base, step, g) ==
  g = [s \in SUBSET (1..n) |-> IF s = {} THEN base ELSE step[<<Max(s), g[s \ {Max(s)}]>>]]

LEMMA ChainExists ==
  ASSUME NEW n \in Nat, NEW V, NEW base \in V, NEW step \in [(1..n) \X V -> V]
  PROVE  \E g \in [SUBSET (1..n) -> V] : Chains(n, base, step, g)
<1> DEFINE S == 1..n
           pick == TopPick(n)
<1>1. \A s \in SUBSET S : pick[s] = Max(s)
  BY DEF TopPick
<1>2. Picks(S, pick)
  BY <1>1, MaxOfSome DEF Picks
<1>3. IsFiniteSet(S)
  BY FS_Interval
<1> HIDE DEF S, pick
<1>4. PICK g \in [SUBSET S -> V] : Iterates(S, pick, step, base, g)
  <2>1. step \in [S \X V -> V]
    BY DEF S
  <2> QED BY <1>2, <1>3, <2>1, IterateExists
<1> DEFINE G(s) == IF s = {} THEN base ELSE step[<<pick[s], g[s \ {pick[s]}]>>]
           H(s) == IF s = {} THEN base ELSE step[<<Max(s), g[s \ {Max(s)}]>>]
<1>5. \A s \in SUBSET S : G(s) = H(s)
  BY <1>1
<1>6. g = [s \in SUBSET S |-> G(s)]
  BY <1>4 DEF Iterates
<1>7. g = [s \in SUBSET S |-> H(s)]
  <2> HIDE DEF G, H
  <2> QED BY <1>5, <1>6
<1> QED BY <1>7 DEF S, Chains

\* What holds at the start of a chain and is kept by each step holds along it.
LEMMA ChainStays ==
  ASSUME NEW n \in Nat, NEW f, NEW G, f[0] \in G[0],
         \A k \in 1..n : f[k - 1] \in G[k - 1] => f[k] \in G[k]
  PROVE  \A k \in 0..n : f[k] \in G[k]
<1> DEFINE T == {k \in 0..n : f[k] \notin G[k]}
<1>1. SUFFICES ASSUME T # {} PROVE FALSE
  OBVIOUS
<1>2. PICK m \in T : \A k \in T : ~(k < m)
  <2>1. T \in SUBSET Nat
    OBVIOUS
  <2> HIDE DEF T
  <2> QED BY <1>1, <2>1, LeastElement
<1>3. m \in 1..n /\ m - 1 \in 0..n /\ m - 1 < m
  OBVIOUS
<1>4. f[m - 1] \in G[m - 1]
  BY <1>2, <1>3
<1> QED BY <1>3, <1>4

-----------------------------------------------------------------------------
(* Ranks. *)

\* R orders the elements of S strictly, and any two of them.
StrictOrder(S, R) ==
  /\ \A x \in S : <<x, x>> \notin R
  /\ \A x, y, z \in S : <<x, y>> \in R /\ <<y, z>> \in R => <<x, z>> \in R
  /\ \A x, y \in S : x = y \/ <<x, y>> \in R \/ <<y, x>> \in R

\* The elements of S before x.
Before(S, R, x) == {y \in S : <<y, x>> \in R}

LEMMA RankGrows ==
  ASSUME NEW S, IsFiniteSet(S), NEW R, StrictOrder(S, R), NEW x \in S
  PROVE  /\ Cardinality(Before(S, R, x)) \in 0..(Cardinality(S) - 1)
         /\ \A y \in S : <<x, y>> \in R
              => Cardinality(Before(S, R, x)) < Cardinality(Before(S, R, y))
<1>1. ASSUME NEW T \in SUBSET S, NEW z \in T, z \notin Before(S, R, x), Before(S, R, x) \subseteq T
      PROVE  Cardinality(Before(S, R, x)) \in Nat /\ Cardinality(Before(S, R, x)) < Cardinality(T)
  <2> DEFINE B == Before(S, R, x)
  <2>1. IsFiniteSet(T) /\ B \in SUBSET T /\ B # T
    BY <1>1, FS_Subset
  <2> HIDE DEF B
  <2>2. IsFiniteSet(B) /\ Cardinality(B) <= Cardinality(T) /\ Cardinality(T) # Cardinality(B)
    BY <2>1, FS_Subset
  <2>3. Cardinality(B) \in Nat /\ Cardinality(T) \in Nat
    BY <2>1, <2>2, FS_CardinalityType
  <2>4. Cardinality(B) < Cardinality(T)
    BY <2>2, <2>3
  <2> QED BY <2>3, <2>4 DEF B
<1>2. x \notin Before(S, R, x) /\ Before(S, R, x) \subseteq S
  BY DEF StrictOrder, Before
<1>3. Cardinality(Before(S, R, x)) \in Nat /\ Cardinality(Before(S, R, x)) < Cardinality(S)
  BY <1>1, <1>2
<1>4. ASSUME NEW y \in S, <<x, y>> \in R
      PROVE  Cardinality(Before(S, R, x)) < Cardinality(Before(S, R, y))
  <2>1. Before(S, R, y) \in SUBSET S /\ x \in Before(S, R, y)
    BY <1>4 DEF Before
  <2>2. Before(S, R, x) \subseteq Before(S, R, y)
    BY <1>4 DEF StrictOrder, Before
  <2> QED BY <1>1, <1>2, <2>1, <2>2
<1>5. Cardinality(S) \in Nat
  BY FS_CardinalityType
<1> QED BY <1>3, <1>4, <1>5

\* Every place below the number of elements is the rank of exactly one.
LEMMA RankIsPlace ==
  ASSUME NEW S, IsFiniteSet(S), NEW R, StrictOrder(S, R), NEW k \in 0..(Cardinality(S) - 1)
  PROVE  \E x \in S : /\ Cardinality(Before(S, R, x)) = k
                      /\ \A y \in S : Cardinality(Before(S, R, y)) = k => y = x
<1> DEFINE N == Cardinality(S)
           rank == [x \in S |-> Cardinality(Before(S, R, x))]
<1>1. N \in Nat /\ IsFiniteSet(0..(N - 1)) /\ Cardinality(0..(N - 1)) = N
  BY FS_CardinalityType, FS_Interval
<1>2. rank \in [S -> 0..(N - 1)]
  BY RankGrows
<1>3. \A x, y \in S : <<x, y>> \in R => rank[x] < rank[y]
  BY RankGrows
<1> HIDE DEF N, rank
<1>4. ASSUME NEW x \in S, NEW y \in S, rank[x] = rank[y] PROVE x = y
  <2>1. rank[x] \in Int /\ rank[y] \in Int
    BY <1>1, <1>2
  <2>2. ~(rank[x] < rank[y]) /\ ~(rank[y] < rank[x])
    BY <1>4, <2>1
  <2> QED BY <1>3, <2>2 DEF StrictOrder
<1>5. rank \in Injection(S, 0..(N - 1))
  BY <1>2, <1>4 DEF Injection, IsInjective
<1>6. rank \in Surjection(S, 0..(N - 1))
  BY <1>1, <1>5, FS_Injection DEF N
<1>7. PICK x \in S : rank[x] = k
  BY <1>6 DEF Surjection, N
<1>8. \A y \in S : rank[y] = Cardinality(Before(S, R, y))
  BY DEF rank
<1> QED BY <1>4, <1>7, <1>8
=============================================================================
