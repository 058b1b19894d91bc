-------------------------- MODULE Diagnosis_proofs --------------------------
(***************************************************************************)
(* Proofs about Diagnosis, for any providers, banks, volume, incidents,    *)
(* reported cohorts, failing tools and budget: it is type correct and      *)
(* keeps its query budget, what the opening made a hypothesis of the same  *)
(* opening does not contradict, a slow incident's own traffic never clears *)
(* it, and ordinary traffic is blamed on nobody (OrdinaryIsSpared, of a    *)
(* merchant with a second provider or bank).  That a slow provider stays   *)
(* accused by traffic it is only a part of, and that the culprit is        *)
(* listed, rest on shares of the traffic that Diagnosis names and states   *)
(* as hypotheses (SlowIsHeard, TheCulpritIsListed).                        *)
(* What the metrics answer is a number, whatever the traffic, which the    *)
(* sums over the payments and the chains of attempts below establish.      *)
(***************************************************************************)
EXTENDS Diagnosis, FiniteSetTheorems, WellFoundedInduction, TLAPS

(***************************************************************************)
(* Induction, and sums over finite sets                                    *)
(***************************************************************************)

Less == {p \in Nat \X Nat : p[1] < p[2]}

\* Induction over the naturals, without a predicate as a parameter: what is to be
\* shown is the membership of a set.
LEMMA Induct ==
  ASSUME NEW S, 0 \in S, \A n \in Nat : n \in S => n + 1 \in S
  PROVE  Nat \subseteq S
<1> SUFFICES ASSUME Nat \ S # {} PROVE FALSE
  OBVIOUS
<1>1. IsWellFoundedOn(Less, Nat)
  BY NatLessThanWellFounded, Zenon DEF OpToRel, Less
<1>2. \E m \in Nat \ S : \A k \in Nat \ S : ~ (<<k, m>> \in Less)
  BY <1>1, WFMin, Zenon
<1>3. PICK m \in Nat \ S : \A k \in Nat \ S : ~ (k < m)
  BY <1>2 DEF Less
<1>4. m # 0 /\ m - 1 \in Nat /\ m - 1 \in S
  BY <1>3
<1> QED
  BY <1>3, <1>4

SomeOf(T) == CHOOSE x \in T : TRUE

\* Taking one element out of a finite set, again and again, ends at the empty set.
LEMMA SubsetInduct ==
  ASSUME NEW S, IsFiniteSet(S), NEW Q, {} \in Q,
         \A T \in SUBSET S : T # {} /\ T \ {SomeOf(T)} \in Q => T \in Q
  PROVE  SUBSET S \subseteq Q
<1> DEFINE Upto == {n \in Nat : \A T \in SUBSET S : Cardinality(T) <= n => T \in Q}
<1>1. \A T \in SUBSET S : /\ IsFiniteSet(T) /\ Cardinality(T) \in Nat
                          /\ Cardinality(T) = 0 <=> T = {}
  BY FS_CardinalityType, FS_Subset, FS_EmptySet
<1>2. 0 \in Upto
  BY <1>1
<1>3. ASSUME NEW n \in Nat, n \in Upto PROVE n + 1 \in Upto
  <2>1. ASSUME NEW T \in SUBSET S, Cardinality(T) <= n + 1, T # {} PROVE T \in Q
    <3> DEFINE a == SomeOf(T)
    <3>1. a \in T
      BY <2>1 DEF SomeOf
    <3> HIDE DEF a
    <3>2. T \ {a} \in SUBSET S /\ Cardinality(T \ {a}) = Cardinality(T) - 1
      BY <3>1, <1>1, FS_RemoveElement
    <3>3. T \ {a} \in Q
      BY <3>2, <1>1, <1>3, <2>1
    <3> QED BY <3>3, <2>1 DEF a
  <2> QED BY <2>1
<1>4. Nat \subseteq Upto
  <2> HIDE DEF Upto
  <2> QED BY <1>2, <1>3, Induct
<1> QED BY <1>1, <1>4

\* g holds the sums over the subsets of S, each one element more than another.
Sums(g, w, S) ==
  \A T \in SUBSET S : g[T] = IF T = {} THEN 0 ELSE w[SomeOf(T)] + g[T \ {SomeOf(T)}]

\* A sum over a finite set is taken element by element.
LEMMA SumSteps ==
  ASSUME NEW S, IsFiniteSet(S), NEW w
  PROVE  \E g : Sums(g, w, S) /\ SumFunctionOnSet(w, S) = g[S]
<1> DEFINE Body(h, T) == IF T = {} THEN 0 ELSE w[SomeOf(T)] + h[T \ {SomeOf(T)}]
           Rule(h, D) == h = [T \in D |-> Body(h, T)]
           Small(n) == {T \in SUBSET S : Cardinality(T) <= n}
           g == CHOOSE h : Rule(h, SUBSET S)
<1>1. SumFunctionOnSet(w, S) = g[S]
  BY DEF SumFunctionOnSet, FoldFunctionOnSet, MapThenFoldSet, SomeOf
<1>2. \A T \in SUBSET S : /\ IsFiniteSet(T) /\ Cardinality(T) \in Nat
                          /\ Cardinality(T) = 0 <=> T = {}
  BY FS_CardinalityType, FS_Subset, FS_EmptySet
<1>3. ASSUME NEW T \in SUBSET S, T # {}
      PROVE  T \ {SomeOf(T)} \in SUBSET S /\ Cardinality(T \ {SomeOf(T)}) = Cardinality(T) - 1
  <2>1. SomeOf(T) \in T
    BY <1>3 DEF SomeOf
  <2> QED BY <2>1, <1>2, FS_RemoveElement
<1> DEFINE Has == {n \in Nat : \E h : Rule(h, Small(n))}
<1>4. 0 \in Has
  <2> DEFINE h == [T \in Small(0) |-> 0]
  <2>1. \A T \in Small(0) : T = {}
    BY <1>2
  <2>2. Rule(h, Small(0))
    <3> HIDE DEF Small
    <3> QED BY <2>1
  <2> HIDE DEF Rule, h
  <2> QED BY <2>2
<1>5. ASSUME NEW n \in Nat, n \in Has PROVE n + 1 \in Has
  <2>1. PICK h : Rule(h, Small(n))
    <3> HIDE DEF Rule
    <3> QED BY <1>5
  <2> DEFINE k == [T \in Small(n + 1) |-> Body(h, T)]
  <2>2. \A T \in Small(n + 1) : T # {} => T \ {SomeOf(T)} \in Small(n) /\ T \ {SomeOf(T)} \in Small(n + 1)
    BY <1>2, <1>3
  <2>3. \A T \in Small(n) : k[T] = h[T] /\ T \in Small(n + 1)
    <3>1. ASSUME NEW T \in Small(n) PROVE h[T] = Body(h, T)
      <4> HIDE DEF Body, Small
      <4> QED BY <2>1, Zenon
    <3>2. Small(n) \subseteq Small(n + 1)
      BY <1>2
    <3> HIDE DEF Body, Small
    <3> QED BY <3>1, <3>2
  <2>4. \A T \in Small(n + 1) : Body(h, T) = Body(k, T)
    <3> HIDE DEF Small, k
    <3> QED BY <2>2, <2>3
  <2>5. Rule(k, Small(n + 1))
    <3>1. k = [T \in Small(n + 1) |-> Body(h, T)]
      OBVIOUS
    <3> HIDE DEF Body, Small, k
    <3> QED BY <2>4, <3>1
  <2> HIDE DEF Rule, Small, k
  <2> QED BY <2>5
<1>6. \E h : Rule(h, SUBSET S)
  <2>1. Cardinality(S) \in Has
    <3> HIDE DEF Has
    <3> QED BY <1>2, <1>4, <1>5, Induct
  <2>2. SUBSET S = Small(Cardinality(S))
    BY FS_Subset
  <2> HIDE DEF Rule, Small
  <2> QED BY <2>1, <2>2
<1>7. Rule(g, SUBSET S)
  BY <1>6, Zenon
<1> HIDE DEF g
<1>8. \A T \in SUBSET S : g[T] = Body(g, T)
  <2> HIDE DEF Body
  <2> QED BY <1>7, Zenon
<1> QED BY <1>1, <1>8 DEF Sums

\* What holds of 0 and of each step of a sum holds of the sum.
LEMMA SumIn ==
  ASSUME NEW S, IsFiniteSet(S), NEW w, NEW V, 0 \in V, \A x \in S, y \in V : w[x] + y \in V
  PROVE  SumFunctionOnSet(w, S) \in V
<1>1. PICK g : Sums(g, w, S) /\ SumFunctionOnSet(w, S) = g[S]
  BY SumSteps
<1> DEFINE Q == {T \in SUBSET S : g[T] \in V}
<1>2. {} \in Q
  BY <1>1 DEF Sums
<1>3. ASSUME NEW T \in SUBSET S, T # {}, T \ {SomeOf(T)} \in Q PROVE T \in Q
  <2>1. SomeOf(T) \in S
    BY <1>3 DEF SomeOf
  <2> QED BY <1>1, <1>3, <2>1 DEF Sums
<1>4. SUBSET S \subseteq Q
  <2> HIDE DEF Q
  <2> QED BY <1>2, <1>3, SubsetInduct
<1> QED BY <1>1, <1>4

\* Summands that are the same have the same sum.
LEMMA SumSame ==
  ASSUME NEW S, IsFiniteSet(S), NEW w, NEW u, \A x \in S : w[x] = u[x]
  PROVE  SumFunctionOnSet(w, S) = SumFunctionOnSet(u, S)
<1>1. PICK g : Sums(g, w, S) /\ SumFunctionOnSet(w, S) = g[S]
  BY SumSteps
<1>2. PICK h : Sums(h, u, S) /\ SumFunctionOnSet(u, S) = h[S]
  BY SumSteps
<1> DEFINE Q == {T \in SUBSET S : g[T] = h[T]}
<1>3. {} \in Q
  BY <1>1, <1>2 DEF Sums
<1>4. ASSUME NEW T \in SUBSET S, T # {}, T \ {SomeOf(T)} \in Q PROVE T \in Q
  <2>1. SomeOf(T) \in S
    BY <1>4 DEF SomeOf
  <2> QED BY <1>1, <1>2, <1>4, <2>1 DEF Sums
<1>5. SUBSET S \subseteq Q
  <2> HIDE DEF Q
  <2> QED BY <1>3, <1>4, SubsetInduct
<1> QED BY <1>1, <1>2, <1>5

\* The sum of one number over a set.
LEMMA SumConstant ==
  ASSUME NEW S, IsFiniteSet(S), NEW w, NEW n \in Nat, \A x \in S : w[x] = n
  PROVE  SumFunctionOnSet(w, S) = n * Cardinality(S)
<1>1. PICK g : Sums(g, w, S) /\ SumFunctionOnSet(w, S) = g[S]
  BY SumSteps
<1> DEFINE Q == {T \in SUBSET S : g[T] = n * Cardinality(T)}
<1>2. {} \in Q
  BY <1>1, FS_EmptySet DEF Sums
<1>3. ASSUME NEW T \in SUBSET S, T # {}, T \ {SomeOf(T)} \in Q PROVE T \in Q
  <2> DEFINE c == Cardinality(T \ {SomeOf(T)})
  <2>1. SomeOf(T) \in T
    BY <1>3 DEF SomeOf
  <2>2. IsFiniteSet(T) /\ IsFiniteSet(T \ {SomeOf(T)})
    BY FS_Subset
  <2>3. c \in Nat /\ Cardinality(T) = c + 1
    BY <2>1, <2>2, FS_RemoveElement, FS_CardinalityType
  <2>4. g[T] = n + n * c
    BY <1>1, <1>3, <2>1 DEF Sums
  <2> HIDE DEF c
  <2>5. n + n * c = n * (c + 1)
    BY <2>3
  <2> QED BY <2>3, <2>4, <2>5
<1>4. SUBSET S \subseteq Q
  <2> HIDE DEF Q
  <2> QED BY <1>2, <1>3, SubsetInduct
<1> QED BY <1>1, <1>4

USE TrafficAssumption, DiagnosisAssumption

(***************************************************************************)
(* Type correctness                                                        *)
(***************************************************************************)

OpeningQueries == {OpeningQuery(t) : t \in OpeningTools}

\* The opening asks at most one query per tool.
LEMMA OpeningIsFinite ==
  /\ Cardinality(OpeningTools) \in Nat
  /\ IsFiniteSet(OpeningQueries)
  /\ Cardinality(OpeningQueries) <= Cardinality(OpeningTools)
<1>1. IsFiniteSet(OpeningTools)
  <2>1. /\ IsFiniteSet({"cohort_metrics"} \cup {"cohort_compare"})
        /\ IsFiniteSet({"decline_breakdown"} \cup {"retry_stats"})
        /\ IsFiniteSet({"operational_metrics"} \cup {"confounding_check"})
    BY FS_Singleton, FS_AddElement
  <2>2. IsFiniteSet(({"cohort_metrics"} \cup {"cohort_compare"})
                    \cup ({"decline_breakdown"} \cup {"retry_stats"}))
    BY <2>1, FS_Union
  <2>3. IsFiniteSet((({"cohort_metrics"} \cup {"cohort_compare"})
                     \cup ({"decline_breakdown"} \cup {"retry_stats"}))
                    \cup ({"operational_metrics"} \cup {"confounding_check"}))
    BY <2>1, <2>2, FS_Union
  <2>4. OpeningTools = (({"cohort_metrics"} \cup {"cohort_compare"})
                        \cup ({"decline_breakdown"} \cup {"retry_stats"}))
                       \cup ({"operational_metrics"} \cup {"confounding_check"})
    BY DEF OpeningTools
  <2> QED
    BY <2>3, <2>4
<1> DEFINE f == [t \in OpeningTools |-> OpeningQuery(t)]
<1>2. f \in Surjection(OpeningTools, OpeningQueries)
  BY DEF Surjection, OpeningQueries
<1> QED
  BY <1>1, <1>2, FS_Surjection, FS_CardinalityType

\* TypeOK, and the trail is a finite function.
Typed ==
  /\ TypeOK
  /\ IsFiniteSet(DOMAIN trail)
  /\ trail = [q \in DOMAIN trail |-> trail[q]]

LEMMA SeededType == \A o : Seeded(o) \subseteq Hypotheses \cup {Fallback} /\ Seeded(o) # {}
  BY DEF Seeded, Listed

LEMMA OpenTyped ==
  ASSUME Typed, Open PROVE Typed'
<1>1. PICK failing \in SUBSET OpeningTools :
        /\ trail' = [q \in OpeningQueries |-> q.tool \notin failing]
        /\ ledger' = Seeded(Opening(failing))
  BY DEF Open, OpeningQueries
<1>2. DOMAIN trail' = OpeningQueries /\ \A q \in OpeningQueries : trail'[q] \in BOOLEAN
  BY <1>1
<1>3. /\ OpeningQueries' = OpeningQueries
      /\ {OpeningQuery(t) : t \in OpeningTools}' = OpeningQueries
  BY DEF Open, OpeningQueries, OpeningQuery
<1>4. trail' # <<>>
  <2>1. OpeningQuery("retry_stats") \in DOMAIN trail'
    BY <1>2 DEF OpeningQueries, OpeningTools
  <2>2. DOMAIN <<>> = {}
    OBVIOUS
  <2> QED
    BY <2>1, <2>2
<1>5. Cardinality(OpeningQueries) <= Cardinality(OpeningTools) + QueryBudget
  <2>1. QueryBudget \in Nat
    BY DEF DiagnosisAssumption
  <2>2. Cardinality(OpeningQueries) \in Nat
    BY OpeningIsFinite, FS_CardinalityType
  <2> QED
    BY <2>1, <2>2, OpeningIsFinite
<1>6. ledger' \subseteq Hypotheses \cup {Fallback} /\ ledger' # {}
  BY <1>1, SeededType
<1>7. TypeOK'
  BY <1>2, <1>3, <1>4, <1>5, <1>6 DEF Typed, TypeOK, Open, Opened
<1>8. trail' = [q \in DOMAIN trail' |-> trail'[q]]
  BY <1>1
<1> QED
  BY <1>2, <1>7, <1>8, OpeningIsFinite DEF Typed

LEMMA QueryTyped ==
  ASSUME Typed, NEW q \in Queries, Query(q) PROVE Typed'
<1>1. PICK answered \in BOOLEAN :
        trail' = [k \in DOMAIN trail \cup {q} |-> IF k = q THEN answered ELSE trail[k]]
  BY DEF Query
<1>2. /\ Opened /\ UNCHANGED <<incident, cohort, heard, ledger, answer>>
      /\ Cardinality(DOMAIN trail) < Cardinality(OpeningTools) + QueryBudget
      /\ q \notin DOMAIN trail
  BY DEF Query
<1>3. /\ DOMAIN trail' = DOMAIN trail \cup {q}
      /\ \A k \in DOMAIN trail' : trail'[k] \in BOOLEAN
  BY <1>1 DEF Typed, TypeOK
<1>4. IsFiniteSet(DOMAIN trail') /\ Cardinality(DOMAIN trail') = Cardinality(DOMAIN trail) + 1
  BY <1>2, <1>3, FS_AddElement DEF Typed
<1>5. Cardinality(DOMAIN trail') <= Cardinality(OpeningTools) + QueryBudget
  BY <1>2, <1>4, OpeningIsFinite, FS_CardinalityType DEF Typed, DiagnosisAssumption
<1>6. trail' # <<>>
  <2>1. q \in DOMAIN trail'
    BY <1>3
  <2>2. DOMAIN <<>> = {}
    OBVIOUS
  <2> QED
    BY <2>1, <2>2
<1>7. DOMAIN trail' \subseteq Queries \cup {OpeningQuery(t) : t \in OpeningTools}'
  BY <1>2, <1>3 DEF Typed, TypeOK, OpeningQuery
<1>8. TypeOK'
  BY <1>2, <1>3, <1>5, <1>6, <1>7 DEF Typed, TypeOK, Opened
<1> QED
  BY <1>1, <1>4, <1>8 DEF Typed

LEMMA NextTyped == Typed /\ [Next]_vars => Typed'
<1> SUFFICES ASSUME Typed, [Next]_vars PROVE Typed'
  OBVIOUS
<1>1. CASE Open
  BY <1>1, OpenTyped
<1>2. CASE \E q \in Queries : Query(q)
  BY <1>2, QueryTyped
<1>3. CASE Accept
  BY <1>3 DEF Accept, Typed, TypeOK, Opened, OpeningQuery
<1>4. CASE Degrade
  <2>1. answer' \in Answers
    BY <1>4 DEF Degrade, Answers, Opened
  <2> QED
    BY <1>4, <2>1 DEF Degrade, Typed, TypeOK, Opened, OpeningQuery
<1>5. CASE UNCHANGED vars
  BY <1>5 DEF vars, Typed, TypeOK, Opened, OpeningQuery
<1> QED
  BY <1>1, <1>2, <1>3, <1>4, <1>5 DEF Next

LEMMA AlwaysTyped == Spec => []Typed
<1>1. Init => Typed
  <2> SUFFICES ASSUME Init PROVE Typed
    OBVIOUS
  <2>1. DOMAIN trail = {}
    BY DEF Init
  <2>2. Cardinality(DOMAIN trail) <= Cardinality(OpeningTools) + QueryBudget
    BY <2>1, FS_EmptySet, OpeningIsFinite DEF DiagnosisAssumption
  <2>3. TypeOK
    BY <2>1, <2>2 DEF Init, TypeOK, Opened
  <2>4. trail = [q \in DOMAIN trail |-> trail[q]]
    BY DEF Init
  <2> QED
    BY <2>1, <2>3, <2>4, FS_EmptySet DEF Typed
<1> QED
  BY <1>1, NextTyped, PTL DEF Spec

\* The diagnosis is well typed: no more is asked than the opening and the budget,
\* and the ledger is never empty once the opening is read.
THEOREM TypeCorrect == Spec => []TypeOK
<1>1. Typed => TypeOK
  BY DEF Typed
<1> QED
  BY <1>1, AlwaysTyped, PTL

(***************************************************************************)
(* What the tools measure are numbers                                      *)
(***************************************************************************)

\* An attempt can be routed, and only to finitely many providers.
LEMMA RoutesAre ==
  ASSUME NEW i, NEW previous, NEW bank
  PROVE  LET R == Routes(i, Providers, previous, bank, Any) IN
         /\ IsFiniteSet(R) /\ Cardinality(R) \in Nat \ {0}
         /\ R \subseteq Providers \cup IF i = None THEN {} ELSE {i.provider}
<1> DEFINE C == Candidates(i, Providers, previous)
           R == Routes(i, Providers, previous, bank, Any)
<1>1. C \subseteq Providers /\ C # {}
  BY DEF Candidates, TrafficAssumption
<1>2. IsFiniteSet(C)
  BY <1>1, FS_Subset DEF TrafficAssumption
<1>3. R = C \/ (i # None /\ R = {i.provider})
  BY DEF Routes
<1> HIDE DEF C, R
<1>4. IsFiniteSet(R) /\ R # {} /\ R \subseteq Providers \cup IF i = None THEN {} ELSE {i.provider}
  <2>1. CASE R = C
    BY <1>1, <1>2, <2>1
  <2>2. CASE i # None /\ R = {i.provider}
    BY <2>2, FS_Singleton
  <2> QED BY <1>3, <2>1, <2>2
<1>5. Cardinality(R) \in Nat \ {0}
  BY <1>4, FS_CardinalityType, FS_EmptySet
<1> QED BY <1>4, <1>5 DEF R

Attempted(i, bank, previous) == Attempts(i, Providers, previous, bank, Any)

LEMMA AttemptsAre ==
  ASSUME NEW i, NEW bank, NEW previous
  PROVE  /\ IsFiniteSet(Attempted(i, bank, previous))
         /\ \A a \in Attempted(i, bank, previous) :
              a.provider \in Providers \cup IF i = None THEN {} ELSE {i.provider}
<1> DEFINE R == Routes(i, Providers, previous, bank, Any)
           Of(p) == {[provider |-> p, bank |-> bank, status |-> s] :
                       s \in Statuses(i, [provider |-> p, bank |-> bank])}
           ofs == [p \in R |-> Of(p)]
           O == {Of(p) : p \in R}
<1>1. IsFiniteSet(R) /\ R \subseteq Providers \cup IF i = None THEN {} ELSE {i.provider}
  BY RoutesAre
<1>2. \A p : IsFiniteSet(Of(p))
  <2> TAKE p
  <2> DEFINE a(s) == [provider |-> p, bank |-> bank, status |-> s]
  <2>1. Of(p) \subseteq {a("approved")} \cup {a("refused")}
    BY DEF Statuses
  <2> HIDE DEF a, Of
  <2>2. IsFiniteSet({a("approved")} \cup {a("refused")})
    BY FS_Singleton, FS_AddElement
  <2> QED BY <2>1, <2>2, FS_Subset
<1>3. \A p \in R : \A a \in Of(p) : a.provider = p
  OBVIOUS
<1>4. ofs \in Surjection(R, O)
  <2> HIDE DEF Of, R
  <2> QED BY DEF Surjection
<1>5. IsFiniteSet(O)
  <2> HIDE DEF O, R, ofs
  <2> QED BY <1>1, <1>4, FS_Surjection
<1>6. IsFiniteSet(UNION O)
  <2>1. \A T \in O : IsFiniteSet(T)
    <3> HIDE DEF Of
    <3> QED BY <1>2
  <2> HIDE DEF O
  <2> QED BY <1>5, <2>1, FS_UNION
<1>7. Attempted(i, bank, previous) = UNION O
  BY DEF Attempted, Attempts
<1> HIDE DEF Of, R
<1> QED BY <1>1, <1>3, <1>6, <1>7

\* A finite set of sequences, each of at least one element.
Whole(T) ==
  /\ IsFiniteSet(T)
  /\ \A c \in T : /\ Len(c) \in Nat \ {0} /\ DOMAIN c = 1..Len(c)
                  /\ c = [x \in 1..Len(c) |-> c[x]]

\* Whom an attempt may come after.
Previous(i) == Providers \cup ({Any} \cup IF i = None THEN {} ELSE {i.provider}) \cup {None}

\* An attempt, and then the rest of its chain if it has one.
Onward(i, k, a, rests) ==
  (IF a.status = "approved" \/ k = MaxAttempts \/ ~Affected(i, a) THEN {<<a>>} ELSE {})
  \cup (IF a.status = "refused" /\ k < MaxAttempts THEN {<<a>> \o rest : rest \in rests} ELSE {})

\* F[k][p] holds the chains of a bank's payments from attempt k after p on.
IsTree(F, i, bank) ==
  \A k \in 1..MaxAttempts : \A p \in Previous(i) :
    /\ F[k][p] = UNION {Onward(i, k, a, F[k + 1][a.provider]) : a \in Attempted(i, bank, p)}
    /\ Whole(F[k][p])

\* The chains of a bank's payments are a tree of finitely many.
LEMMA ChainTree ==
  ASSUME NEW i, NEW bank
  PROVE  \E F : IsTree(F, i, bank) /\ Chains(i, Providers, bank, Any) = F[1][None]
<1> DEFINE
      named == {Any} \cup IF i = None THEN {} ELSE {i.provider}
      P == Providers \cup named \cup {None}
      Tried(p) == Attempts(i, Providers, p, bank, Any)
      Then(a, k, rests) ==
        (IF a.status = "approved" \/ k = MaxAttempts \/ ~Affected(i, a) THEN {<<a>>} ELSE {})
        \cup (IF a.status = "refused" /\ k < MaxAttempts THEN {<<a>> \o rest : rest \in rests} ELSE {})
      Body(F, k, p) == UNION {Then(a, k, F[k + 1][a.provider]) : a \in Tried(p)}
      Rule(F, K) == F = [k \in K |-> [p \in P |-> Body(F, k, p)]]
      F == CHOOSE F : Rule(F, 1..MaxAttempts)
<1>1. Chains(i, Providers, bank, Any) = F[1][None]
  BY DEF Chains
<1>a. \A p : IsFiniteSet(Tried(p)) /\ \A a \in Tried(p) : a.provider \in P
  BY AttemptsAre DEF Attempted
<1>p. None \in P
  OBVIOUS
<1> HIDE DEF named, P
<1> HIDE DEF Tried
<1>2. \E G : Rule(G, 1..MaxAttempts)
  <2> DEFINE Has == {n \in Nat : n <= MaxAttempts => \E G : Rule(G, (MaxAttempts - n + 1)..MaxAttempts)}
  <2>1. 0 \in Has
    <3> DEFINE G == [k \in {} |-> [p \in P |-> {}]]
    <3>1. (MaxAttempts - 0 + 1)..MaxAttempts = {}
      BY ChainAssumption
    <3>2. Rule(G, {})
      BY Zenon
    <3> QED BY <3>1, <3>2
  <2>2. ASSUME NEW n \in Nat, n \in Has PROVE n + 1 \in Has
    <3> DEFINE K == (MaxAttempts - n + 1)..MaxAttempts
               L == (MaxAttempts - (n + 1) + 1)..MaxAttempts
    <3> SUFFICES ASSUME n + 1 <= MaxAttempts PROVE \E G : Rule(G, L)
      <4> HIDE DEF Rule
      <4> QED OBVIOUS
    <3>1. PICK G : Rule(G, K)
      <4>1. n <= MaxAttempts
        BY ChainAssumption
      <4> HIDE DEF Rule
      <4> QED BY <4>1, <2>2
    <3> DEFINE m == MaxAttempts - n
               H == [k \in L |-> IF k = m THEN [p \in P |-> Body(G, m, p)] ELSE G[k]]
    <3>2. L = K \cup {m} /\ m \notin K /\ m \in L
      BY ChainAssumption
    <3> HIDE DEF K, L
    <3>3. ASSUME NEW k \in L, NEW p \in P PROVE Body(H, k, p) = Body(G, k, p)
      <4>1. ASSUME NEW a \in Tried(p) PROVE Then(a, k, H[k + 1][a.provider]) = Then(a, k, G[k + 1][a.provider])
        <5>1. CASE k < MaxAttempts
          <6>1. k + 1 \in L /\ k + 1 # m
            BY <5>1, <3>2, ChainAssumption DEF K, L
          <6> QED BY <6>1
        <5>2. CASE ~(k < MaxAttempts)
          BY <5>2
        <5> QED BY <5>1, <5>2
      <4> HIDE DEF Then, H
      <4> QED BY <4>1
    <3>4. ASSUME NEW k \in L PROVE H[k] = [p \in P |-> Body(H, k, p)]
      <4>1. H[k] = [p \in P |-> Body(G, k, p)]
        <5>1. CASE k = m
          BY <5>1, Zenon
        <5>2. CASE k # m
          <6>1. k \in K
            BY <5>2, <3>2
          <6>2. G[k] = [p \in P |-> Body(G, k, p)]
            BY <6>1, <3>1, Zenon
          <6> QED BY <5>2, <6>2, Zenon
        <5> QED BY <5>1, <5>2
      <4>2. [p \in P |-> Body(G, k, p)] = [p \in P |-> Body(H, k, p)]
        <5> HIDE DEF Body, H
        <5> QED BY <3>3
      <4> QED BY <4>1, <4>2, Zenon
    <3>5. Rule(H, L)
      <4> HIDE DEF Body
      <4> QED BY <3>4
    <3> HIDE DEF Rule, H
    <3> QED BY <3>5
  <2>3. MaxAttempts \in Has
    <3> HIDE DEF Has
    <3> QED BY <2>1, <2>2, Induct, ChainAssumption
  <2>4. MaxAttempts - MaxAttempts + 1 = 1
    BY ChainAssumption
  <2> HIDE DEF Rule
  <2> QED BY <2>3, <2>4, ChainAssumption
<1>3. Rule(F, 1..MaxAttempts)
  BY <1>2, Zenon
<1> HIDE DEF F
<1>4. ASSUME NEW k \in 1..MaxAttempts, NEW p \in P PROVE F[k][p] = Body(F, k, p)
  <2>1. F[k] = [q \in P |-> Body(F, k, q)]
    BY <1>3, Zenon
  <2> QED BY <2>1, Zenon
<1> HIDE DEF Rule
<1>5. ASSUME NEW k \in 1..MaxAttempts, NEW p \in P,
             k = MaxAttempts \/ \A q \in P : Whole(F[k + 1][q])
      PROVE  Whole(F[k][p])
  <2> DEFINE then == [a \in Tried(p) |-> Then(a, k, F[k + 1][a.provider])]
             O == {Then(a, k, F[k + 1][a.provider]) : a \in Tried(p)}
  <2>1. ASSUME NEW a \in Tried(p) PROVE Whole(Then(a, k, F[k + 1][a.provider]))
    <3> DEFINE rests == F[k + 1][a.provider]
               go == [rest \in rests |-> <<a>> \o rest]
               longer == {<<a>> \o rest : rest \in rests}
    <3>1. Whole({<<a>>}) /\ Whole({})
      <4>1. /\ Len(<<a>>) = 1 /\ DOMAIN <<a>> = 1..1
            /\ <<a>> = [x \in 1..1 |-> <<a>>[x]]
        OBVIOUS
      <4>2. IsFiniteSet({<<a>>}) /\ IsFiniteSet({})
        BY FS_Singleton, FS_EmptySet, Zenon
      <4> QED BY <4>1, <4>2 DEF Whole
    <3>2. ASSUME Whole(rests) PROVE Whole(longer)
      <4>1. go \in Surjection(rests, longer)
        <5> HIDE DEF rests
        <5> QED BY DEF Surjection
      <4>2. IsFiniteSet(longer)
        <5> HIDE DEF go, rests, longer
        <5> QED BY <3>2, <4>1, FS_Surjection DEF Whole
      <4>3. ASSUME NEW rest \in rests PROVE LET c == <<a>> \o rest IN 
               /\ Len(c) \in Nat \ {0} /\ DOMAIN c = 1..Len(c) /\ c = [x \in 1..Len(c) |-> c[x]]
        <5>1. rest \in Seq({rest[x] : x \in DOMAIN rest})
          <6>1. Len(rest) \in Nat /\ rest = [x \in 1..Len(rest) |-> rest[x]] /\ DOMAIN rest = 1..Len(rest)
            BY <3>2 DEF Whole
          <6> QED BY <6>1
        <5> QED BY <5>1
      <4> HIDE DEF rests
      <4> QED BY <4>2, <4>3 DEF Whole
    <3>3. \/ Then(a, k, rests) = {} \/ Then(a, k, rests) = {<<a>>}
          \/ k < MaxAttempts /\ (Then(a, k, rests) = longer \/ Then(a, k, rests) = longer \cup {<<a>>})
      <4> HIDE DEF rests
      <4> QED BY DEF Then
    <3>4. k < MaxAttempts => Whole(rests)
      BY <1>5, <1>a
    <3>5. \A T, U : Whole(T) /\ Whole(U) => Whole(T \cup U)
      BY FS_Union DEF Whole
    <3>6. Whole(Then(a, k, rests))
      <4> HIDE DEF rests, longer, Then
      <4> QED BY <3>1, <3>2, <3>3, <3>4, <3>5
    <3> QED BY <3>6
  <2>2. F[k][p] = UNION O
    BY <1>4
  <2>3. then \in Surjection(Tried(p), O)
    <3> HIDE DEF Then
    <3> QED BY DEF Surjection
  <2>4. IsFiniteSet(O)
    <3> HIDE DEF O, then
    <3> QED BY <1>a, <2>3, FS_Surjection
  <2> HIDE DEF Then
  <2>5. \A T \in O : Whole(T)
    <3> QED BY <2>1
  <2> HIDE DEF O
  <2>6. IsFiniteSet(UNION O)
    BY <2>4, <2>5, FS_UNION DEF Whole
  <2> QED BY <2>2, <2>5, <2>6 DEF Whole
<1> DEFINE Done == {n \in Nat : n < MaxAttempts => \A p \in P : Whole(F[MaxAttempts - n][p])}
<1>6. Nat \subseteq Done
  <2>1. 0 \in Done
    <3>1. MaxAttempts - 0 = MaxAttempts /\ MaxAttempts \in 1..MaxAttempts
      BY ChainAssumption
    <3> QED BY <3>1, <1>5
  <2>2. ASSUME NEW n \in Nat, n \in Done PROVE n + 1 \in Done
    <3> SUFFICES ASSUME n + 1 < MaxAttempts, NEW p \in P PROVE Whole(F[MaxAttempts - (n + 1)][p])
      OBVIOUS
    <3>1. /\ MaxAttempts - (n + 1) + 1 = MaxAttempts - n /\ n < MaxAttempts
          /\ MaxAttempts - (n + 1) \in 1..MaxAttempts
      BY ChainAssumption
    <3> QED BY <3>1, <2>2, <1>5
  <2> HIDE DEF Done
  <2> QED BY <2>1, <2>2, Induct
<1>7. ASSUME NEW k \in 1..MaxAttempts, NEW p \in P PROVE Whole(F[k][p])
  <2>1. MaxAttempts - k \in Nat /\ MaxAttempts - (MaxAttempts - k) = k /\ MaxAttempts - k < MaxAttempts
    BY ChainAssumption
  <2> QED BY <2>1, <1>6
<1>8. P = Previous(i)
  BY DEF P, named, Previous
<1>9. \A k, a, T : Then(a, k, T) = Onward(i, k, a, T)
  BY DEF Onward
<1> HIDE DEF Then
<1>10. IsTree(F, i, bank)
  BY <1>4, <1>7, <1>8, <1>9 DEF IsTree, Tried, Attempted
<1> QED BY <1>1, <1>10

\* The chains of a bank's payments are finitely many, each of at least an attempt.
LEMMA ChainsAre ==
  ASSUME NEW i, NEW bank
  PROVE  /\ IsFiniteSet(Chains(i, Providers, bank, Any))
         /\ \A c \in Chains(i, Providers, bank, Any) :
              Len(c) \in Nat \ {0} /\ DOMAIN c = 1..Len(c)
<1>1. PICK F : IsTree(F, i, bank) /\ Chains(i, Providers, bank, Any) = F[1][None]
  BY ChainTree
<1>2. 1 \in 1..MaxAttempts /\ None \in Previous(i)
  BY ChainAssumption DEF Previous
<1> QED BY <1>1, <1>2 DEF IsTree, Whole

\* A percentage of so many is no more than them.
LEMMA PortionIs ==
  ASSUME NEW n \in Nat, NEW rate \in 0..100 PROVE (n * rate) \div 100 \in 0..n
<1>1. n * rate \in 0..(n * 100)
  OBVIOUS
<1> DEFINE m == n * rate
<1> HIDE DEF m
<1>2. m \in 0..(n * 100) => m \div 100 \in 0..n
  OBVIOUS
<1> QED BY <1>1, <1>2 DEF m

\* Some of the attempts are refused, at least at the baseline rate.
LEMMA RateIs ==
  ASSUME NEW i \in Incidents, NEW a PROVE RefusalRate(i, a) \in BaselineDecline..100
<1>1. CASE Affected(i, a)
  <2>1. i.percent \in 0..100
    BY <1>1 DEF Affected, WellFormed, TrafficAssumption
  <2> QED BY <2>1 DEF RefusalRate, BaselineDecline
<1>2. CASE ~Affected(i, a)
  BY <1>2 DEF RefusalRate, BaselineDecline
<1> QED BY <1>1, <1>2

LEMMA OfStatusIs ==
  ASSUME NEW i \in Incidents, NEW a, NEW n \in Nat
  PROVE  OfStatus(i, a, n) \in Nat /\ Retried(i, a, n) \in 0..n
<1>1. (n * RefusalRate(i, a)) \div 100 \in 0..n
  BY RateIs, PortionIs DEF BaselineDecline
<1>2. (n * RetryProbability) \div 100 \in 0..n
  BY PortionIs DEF RetryProbability
<1> QED BY <1>1, <1>2 DEF OfStatus, Retried

\* R[k] of m payments whose first attempt comes after p make the first k attempts of c.
Reaches(i, R, c, m, p) ==
  \A k \in DOMAIN c :
    R[k] = OfStatus(i, c[k],
             (IF k = 1 THEN m ELSE Retried(i, c[k - 1], R[k - 1]))
               \div Cardinality(Routes(i, Providers, IF k = 1 THEN p ELSE c[k - 1].provider,
                                       c[k].bank, Any)))

\* Of n payments that made attempt k, which was a, those that end with it.
Ending(i, k, a, n) ==
  IF a.status = "approved" \/ k = MaxAttempts THEN n ELSE n - Retried(i, a, n)

\* The payments that take a chain are counted attempt by attempt.
LEMMA WeightSteps ==
  ASSUME NEW i \in Incidents, NEW c, Len(c) \in Nat \ {0}, DOMAIN c = 1..Len(c)
  PROVE  \E R : /\ Reaches(i, R, c, Volume, None)
                /\ Weight(i, c) = Ending(i, Len(c), c[Len(c)], R[Len(c)])
<1> DEFINE
      Parts(k) == Cardinality(Routes(i, Providers, IF k = 1 THEN None ELSE c[k - 1].provider,
                                     c[k].bank, Any))
      Coming(R, k) == IF k = 1 THEN Volume ELSE Retried(i, c[k - 1], R[k - 1])
      Body(R, k) == OfStatus(i, c[k], Coming(R, k) \div Parts(k))
      Rule(R, K) == R = [k \in K |-> Body(R, k)]
      R == CHOOSE R : Rule(R, DOMAIN c)
      last == Len(c)
<1>1. Weight(i, c) = IF c[last].status = "approved" \/ last = MaxAttempts THEN R[last]
                     ELSE R[last] - Retried(i, c[last], R[last])
  BY DEF Weight
<1> HIDE DEF Parts
<1> DEFINE Has == {n \in Nat : \E G : Rule(G, 1..n)}
<1>3. 0 \in Has
  <2> DEFINE G == [k \in 1..0 |-> 0]
  <2>1. 1..0 = {}
    OBVIOUS
  <2>2. Rule(G, 1..0)
    <3> HIDE DEF Body
    <3> QED BY <2>1
  <2> HIDE DEF Rule, G
  <2> QED BY <2>2
<1>4. ASSUME NEW n \in Nat, n \in Has PROVE n + 1 \in Has
  <2>1. PICK G : Rule(G, 1..n)
    <3> HIDE DEF Rule
    <3> QED BY <1>4
  <2> DEFINE H == [k \in 1..(n + 1) |-> Body(G, k)]
  <2>2. \A k \in 1..n : H[k] = G[k]
    <3>1. ASSUME NEW k \in 1..n PROVE G[k] = Body(G, k)
      <4> HIDE DEF Body
      <4> QED BY <2>1, Zenon
    <3> HIDE DEF Body
    <3> QED BY <3>1
  <2>3. \A k \in 1..(n + 1) : Body(H, k) = Body(G, k)
    <3>1. \A k \in 1..(n + 1) : k # 1 => k - 1 \in 1..n
      OBVIOUS
    <3> HIDE DEF H
    <3> QED BY <2>2, <3>1
  <2>4. Rule(H, 1..(n + 1))
    <3>1. H = [k \in 1..(n + 1) |-> Body(G, k)]
      OBVIOUS
    <3> HIDE DEF Body, H
    <3> QED BY <2>3, <3>1
  <2> HIDE DEF Rule, H
  <2> QED BY <2>4
<1>5. Rule(R, DOMAIN c)
  <2>1. last \in Has
    <3> HIDE DEF Has
    <3> QED BY <1>3, <1>4, Induct
  <2>2. \E G : Rule(G, DOMAIN c)
    <3> HIDE DEF Rule
    <3> QED BY <2>1
  <2> QED BY <2>2, Zenon
<1> HIDE DEF R
<1>6. ASSUME NEW k \in DOMAIN c PROVE R[k] = Body(R, k)
  <2> HIDE DEF Body
  <2> QED BY <1>5, Zenon
<1>7. Reaches(i, R, c, Volume, None)
  BY <1>6 DEF Reaches, Parts
<1>8. Weight(i, c) = Ending(i, last, c[last], R[last])
  BY <1>1, Zenon DEF Ending
<1> QED BY <1>7, <1>8

\* The payments that take a chain are counted by a number.
LEMMA WeightIs ==
  ASSUME NEW i \in Incidents, NEW c, Len(c) \in Nat \ {0}, DOMAIN c = 1..Len(c)
  PROVE  Weight(i, c) \in Nat
<1> DEFINE last == Len(c)
           Parts(k) == Cardinality(Routes(i, Providers, IF k = 1 THEN None ELSE c[k - 1].provider,
                                          c[k].bank, Any))
           Coming(R, k) == IF k = 1 THEN Volume ELSE Retried(i, c[k - 1], R[k - 1])
<1>1. PICK R : Reaches(i, R, c, Volume, None) /\ Weight(i, c) = Ending(i, last, c[last], R[last])
  BY WeightSteps
<1>2. \A k : Parts(k) \in Nat \ {0}
  BY RoutesAre
<1>6. ASSUME NEW k \in DOMAIN c PROVE R[k] = OfStatus(i, c[k], Coming(R, k) \div Parts(k))
  BY <1>1 DEF Reaches
<1> HIDE DEF Parts
<1> DEFINE Ok == {n \in Nat : n + 1 \in DOMAIN c => R[n + 1] \in Nat}
<1>7. ASSUME NEW k \in DOMAIN c, k = 1 \/ R[k - 1] \in Nat PROVE R[k] \in Nat
  <2>1. Coming(R, k) \in Nat
    BY <1>7, OfStatusIs DEF TrafficAssumption
  <2> HIDE DEF Coming
  <2>2. \A n \in Nat, m \in Nat \ {0} : n \div m \in Nat
    OBVIOUS
  <2>3. Coming(R, k) \div Parts(k) \in Nat
    BY <1>2, <2>1, <2>2
  <2> QED BY <1>6, <2>3, OfStatusIs
<1>8. Nat \subseteq Ok
  <2>1. 0 \in Ok
    BY <1>7
  <2>2. ASSUME NEW n \in Nat, n \in Ok PROVE n + 1 \in Ok
    BY <1>7, <2>2
  <2> HIDE DEF Ok
  <2> QED BY <2>1, <2>2, Induct
<1>9. R[last] \in Nat
  <2>1. last - 1 \in Nat /\ last - 1 + 1 = last /\ last \in DOMAIN c
    OBVIOUS
  <2> QED BY <2>1, <1>8
<1>10. Retried(i, c[last], R[last]) \in 0..R[last]
  BY <1>9, OfStatusIs
<1> QED BY <1>1, <1>9, <1>10 DEF Ending

\* A window's rows are finitely many, each a number of payments of one chain.
LEMMA RowsAre ==
  ASSUME NEW i \in Incidents
  PROVE  /\ IsFiniteSet(Rows[i])
         /\ \A r \in Rows[i] : /\ r.n \in Nat /\ Len(r.chain) \in Nat \ {0}
                               /\ DOMAIN r.chain = 1..Len(r.chain)
<1> DEFINE chains == UNION {Chains(i, Providers, b, Any) : b \in Banks}
           of == [b \in Banks |-> Chains(i, Providers, b, Any)]
           O == {Chains(i, Providers, b, Any) : b \in Banks}
           row == [c \in chains |-> [chain |-> c, n |-> Weight(i, c)]]
<1>1. Rows[i] = {[chain |-> c, n |-> Weight(i, c)] : c \in chains}
  BY DEF Rows, Traffic
<1>2. \A b \in Banks : IsFiniteSet(of[b]) /\ \A c \in of[b] : Len(c) \in Nat \ {0} /\ DOMAIN c = 1..Len(c)
  BY ChainsAre
<1>3. IsFiniteSet(chains) /\ \A c \in chains : Len(c) \in Nat \ {0} /\ DOMAIN c = 1..Len(c)
  <2>1. of \in Surjection(Banks, O)
    BY DEF Surjection
  <2>2. IsFiniteSet(O)
    <3> HIDE DEF O, of
    <3> QED BY <2>1, FS_Surjection DEF TrafficAssumption
  <2>3. \A T \in O : IsFiniteSet(T)
    BY <1>2
  <2>4. IsFiniteSet(UNION O)
    <3> HIDE DEF O
    <3> QED BY <2>2, <2>3, FS_UNION
  <2> QED BY <1>2, <2>4
<1>4. \A c \in chains : Weight(i, c) \in Nat
  <2> HIDE DEF chains
  <2> QED BY <1>3, WeightIs
<1> HIDE DEF chains
<1>5. row \in Surjection(chains, Rows[i])
  BY <1>1 DEF Surjection
<1>6. IsFiniteSet(Rows[i])
  <2> HIDE DEF row
  <2> QED BY <1>3, <1>5, FS_Surjection
<1> QED BY <1>1, <1>3, <1>4, <1>6

LEMMA MakeupIs ==
  ASSUME NEW i \in Incidents, NEW a
  PROVE  /\ \A kind \in Kinds : Makeup(i, a)[kind] \in Int
         /\ Slowness(i, a) \in Int
<1>1. \A kind \in Kinds : Ordinary[kind] \in Nat
  BY DEF Ordinary, Kinds
<1> DEFINE own == IF i.effect = "outage" THEN 1000 ELSE (i.percent * 1000) \div RefusalRate(i, a)
           kindOf == IF i.effect = "outage" THEN KindOf("error", "provider_timeout", TRUE)
                     ELSE KindOf("declined", i.reason, FALSE)
           mixed == [k \in Kinds |-> (Ordinary[k] * (1000 - own)) \div 1000
                                     + IF k = kindOf THEN own ELSE 0]
<1>2. ASSUME ~Affected(i, a) \/ i.effect \in {"latency", "spike"}
      PROVE  \A kind \in Kinds : Makeup(i, a)[kind] \in Int
  <2>1. Makeup(i, a) = Ordinary
    BY <1>2, Zenon DEF Makeup
  <2> QED BY <1>1, <2>1
<1>3. ASSUME Affected(i, a), i.effect \notin {"latency", "spike"}
      PROVE  \A kind \in Kinds : Makeup(i, a)[kind] \in Int
  <2>1. i.percent \in Nat
    BY <1>3 DEF Affected, WellFormed, TrafficAssumption
  <2>2. RefusalRate(i, a) \in Nat \ {0}
    BY RateIs DEF BaselineDecline
  <2>3. \A n \in Nat, m \in Nat \ {0} : (n * 1000) \div m \in Int
    OBVIOUS
  <2>4. own \in Int
    BY <2>1, <2>2, <2>3
  <2>5. Makeup(i, a) = mixed
    BY <1>3 DEF Makeup
  <2> HIDE DEF own, kindOf
  <2>6. \A n \in Nat : n * (1000 - own) \in Int
    BY <2>4
  <2>7. \A m \in Int : m \div 1000 \in Int
    OBVIOUS
  <2>8. ASSUME NEW k \in Kinds PROVE (Ordinary[k] * (1000 - own)) \div 1000 \in Int
    BY <1>1, <2>6, <2>7
  <2> QED BY <2>4, <2>5, <2>8
<1>4. \A kind \in Kinds : Makeup(i, a)[kind] \in Int
  <2>1. CASE ~Affected(i, a) \/ i.effect \in {"latency", "spike"}
    BY <2>1, <1>2, Zenon
  <2>2. CASE Affected(i, a) /\ i.effect \notin {"latency", "spike"}
    BY <2>2, <1>3, Zenon
  <2> QED BY <2>1, <2>2, Zenon
<1> QED BY <1>4 DEF Slowness, Kinds

LEMMA WithinIs ==
  ASSUME NEW c, NEW chain, Len(chain) \in Nat, DOMAIN chain = 1..Len(chain)
  PROVE  /\ IsFiniteSet(Within(c, chain)) /\ Cardinality(Within(c, chain)) \in Nat
         /\ \A T \in SUBSET Within(c, chain) : IsFiniteSet(T)
<1>1. IsFiniteSet(DOMAIN chain)
  BY FS_Interval
<1>2. IsFiniteSet(Within(c, chain))
  BY <1>1, FS_Subset DEF Within
<1> QED BY <1>2, FS_Subset, FS_CardinalityType

Inside(i, c) == {r \in Rows[i] : Within(c, r.chain) # {}}

LEMMA InsideIs ==
  ASSUME NEW i \in Incidents, NEW c
  PROVE  /\ IsFiniteSet(Inside(i, c))
         /\ \A r \in Inside(i, c) : 
              /\ r.n \in Nat
              /\ IsFiniteSet(Within(c, r.chain)) /\ Cardinality(Within(c, r.chain)) \in Nat
              /\ \A T \in SUBSET Within(c, r.chain) : IsFiniteSet(T)
<1>1. IsFiniteSet(Inside(i, c))
  BY RowsAre, FS_Subset DEF Inside
<1>2. \A r \in Inside(i, c) : r.n \in Nat /\ Len(r.chain) \in Nat /\ DOMAIN r.chain = 1..Len(r.chain)
  BY RowsAre DEF Inside
<1> QED BY <1>1, <1>2, WithinIs

\* What a window measures of a cohort are numbers.
LEMMA SeenIs ==
  ASSUME NEW i \in Incidents, NEW c \in Cohorts
  PROVE  /\ Seen[i][c].payments \in Nat /\ Seen[i][c].attempts \in Nat
         /\ \A kind \in Kinds : Seen[i][c].failed[kind] \in Int
<1> DEFINE inside == Inside(i, c)
           Refused(r) == {k \in Within(c, r.chain) : r.chain[k].status = "refused"}
           paid == [r \in inside |-> r.n]
           tried == [r \in inside |-> r.n * Cardinality(Within(c, r.chain))]
           parts(r, kind) == [k \in Refused(r) |-> (r.n * Makeup(i, r.chain[k])[kind]) \div 1000]
           failing(kind) == [r \in inside |-> SumFunction(parts(r, kind))]
<1>1. Seen[i][c] = Measure(i, Rows[i], c)
  BY DEF Seen
<1>2. /\ Seen[i][c].payments = SumFunctionOnSet(paid, inside)
      /\ Seen[i][c].attempts = SumFunctionOnSet(tried, inside)
      /\ \A kind \in Kinds : Seen[i][c].failed[kind] = SumFunctionOnSet(failing(kind), inside)
  BY <1>1 DEF Measure, SumFunction, Inside
<1>3. /\ IsFiniteSet(inside)
      /\ \A r \in inside : /\ r.n \in Nat /\ Cardinality(Within(c, r.chain)) \in Nat
                           /\ IsFiniteSet(Refused(r))
  BY InsideIs
<1>n. \A r \in inside : r.n \in Int
  <2>1. \A r \in inside : r.n \in Nat
    BY InsideIs, Zenon
  <2> HIDE DEF inside
  <2> QED BY <2>1
<1> HIDE DEF inside
<1>4. \A x, y \in Nat : x * y \in Nat /\ x + y \in Nat
  OBVIOUS
<1>5. SumFunctionOnSet(paid, inside) \in Nat
  <2>1. \A r \in inside, y \in Nat : paid[r] + y \in Nat
    BY <1>3, <1>4
  <2> HIDE DEF paid
  <2> QED BY <1>3, <2>1, SumIn
<1>6. SumFunctionOnSet(tried, inside) \in Nat
  <2>1. \A r \in inside, y \in Nat : tried[r] + y \in Nat
    BY <1>3, <1>4
  <2> HIDE DEF tried
  <2> QED BY <1>3, <2>1, SumIn
<1>7. ASSUME NEW kind \in Kinds PROVE SumFunctionOnSet(failing(kind), inside) \in Int
  <2>1. ASSUME NEW r \in inside PROVE SumFunction(parts(r, kind)) \in Int
    <3>1. DOMAIN parts(r, kind) = Refused(r)
      OBVIOUS
    <3>2. ASSUME NEW k \in Refused(r), NEW y \in Int PROVE parts(r, kind)[k] + y \in Int
      <4> DEFINE share == Makeup(i, r.chain[k])[kind]
      <4>0. r.n \in Int
        BY <1>n, Zenon
      <4>1. share \in Int
        BY MakeupIs
      <4> HIDE DEF share
      <4>2. r.n * share \in Int
        BY <4>0, <4>1
      <4>3. (r.n * share) \div 1000 \in Int
        BY <4>2
      <4>4. parts(r, kind)[k] = (r.n * share) \div 1000
        BY DEF share
      <4> HIDE DEF parts
      <4> QED BY <4>3, <4>4
    <3> HIDE DEF parts, Refused
    <3>3. SumFunctionOnSet(parts(r, kind), Refused(r)) \in Int
      BY <1>3, <3>2, SumIn
    <3> QED BY <3>1, <3>3 DEF SumFunction
  <2>2. \A r \in inside, y \in Int : failing(kind)[r] + y \in Int
    <3> HIDE DEF parts
    <3> QED BY <2>1
  <2> HIDE DEF failing
  <2> QED BY <1>3, <2>2, SumIn
<1> HIDE DEF paid, tried, failing
<1> QED BY <1>2, <1>5, <1>6, <1>7

LEMMA PerMilleIs ==
  ASSUME NEW n \in Int, NEW of \in Nat PROVE PerMille(n, of) \in Int \cup {Absent}
<1>1. \A m \in Int, k \in Nat \ {0} : (m * 1000) \div k \in Int
  OBVIOUS
<1> QED BY <1>1 DEF PerMille

\* What the pre-filter and the ledger compare is a number or absent.
LEMMA RatesHold == RatesAreNumbers
<1> SUFFICES ASSUME NEW i \in Incidents, NEW c \in Reported
             PROVE  /\ Responses[i]["operational_metrics"][c].error \in Int \cup {Absent}
                    /\ Responses[i]["retry_stats"][c].factor \in Int \cup {Absent}
  BY DEF RatesAreNumbers
<1> DEFINE m == Seen[i][c]
<1>1. m.payments \in Nat /\ m.attempts \in Nat /\ m.failed["error"] \in Int
  BY SeenIs DEF Kinds, DiagnosisAssumption
<1> HIDE DEF m
<1>2. /\ Responses[i]["operational_metrics"][c] = OperationalMetrics(i, c, "unobserved")
      /\ Responses[i]["retry_stats"][c] = RetryStats(i, c)
  BY DEF Responses, Fields, OpeningTools
<1>3. OperationalMetrics(i, c, "unobserved").error = PerMille(m.failed["error"], m.attempts)
  BY DEF OperationalMetrics, Operational, NoFields, m
<1>4. RetryStats(i, c).factor = PerMille(m.attempts, m.payments)
  BY DEF RetryStats, RetryProfile, NoFields, m
<1> QED BY <1>1, <1>2, <1>3, <1>4, PerMilleIs

(***************************************************************************)
(* What is listed stands                                                   *)
(***************************************************************************)

\* The pre-filter lists an application failure only for its errors or its runtime.
LEMMA ApplicationIsListedFor ==
  ASSUME NEW o, "application_failure" \in Seeded(o)
  PROVE  \/ o["operational_metrics"].runtime \in {"degraded", "unhealthy"}
         \/ Atleast(o["operational_metrics"].error, 50)
<1> DEFINE s == Signature(o)
<1>1. Score("application_failure", s) > 20
  BY DEF Seeded, Listed, Fallback
<1>2. s.error = o["operational_metrics"].error /\ s.runtime = o["operational_metrics"].runtime
  BY DEF Signature
<1> HIDE DEF s
<1>3. Score("application_failure", s)
        = If(Atleast(s.error, 50), 50) + If(s.runtime \in {"degraded", "unhealthy"}, 35)
          + If(s.deployment, 12) - If(s.health = "degraded", 12)
  BY DEF Score
<1>4. If(s.deployment, 12) \in {0, 12} /\ If(s.health = "degraded", 12) \in {0, 12}
  BY DEF If
<1>5. ASSUME ~Atleast(s.error, 50), s.runtime \notin {"degraded", "unhealthy"} PROVE FALSE
  <2>1. If(Atleast(s.error, 50), 50) = 0 /\ If(s.runtime \in {"degraded", "unhealthy"}, 35) = 0
    BY <1>5 DEF If
  <2> QED
    BY <1>1, <1>3, <1>4, <2>1
<1> QED
  BY <1>2, <1>5

\* It lists a retry amplification only for its retries, when no depth is known.
LEMMA RetriesAreListedFor ==
  ASSUME NEW o, "retry_amplification" \in Seeded(o), ~Known(o["retry_stats"].depth_end)
  PROVE  Above(o["retry_stats"].factor, 1100)
<1> DEFINE s == Signature(o)
<1>1. Score("retry_amplification", s) > 20
  BY DEF Seeded, Listed, Fallback
<1>2. (s.retrying <=> Above(o["retry_stats"].factor, 1100)) /\ ~s.growing
  BY DEF Signature
<1> HIDE DEF s
<1>3. Score("retry_amplification", s) = If(s.retrying, 50) + If(s.growing, 30) + If(s.gap_up, 15)
  BY DEF Score
<1>4. If(s.gap_up, 15) \in {0, 15} /\ If(s.growing, 30) = 0
  BY <1>2 DEF If
<1>5. ASSUME ~s.retrying PROVE FALSE
  <2>1. If(s.retrying, 50) = 0
    BY <1>5 DEF If
  <2> QED
    BY <1>1, <1>3, <1>4, <2>1
<1> QED
  BY <1>2, <1>5

\* The ledger is what the opening's responses seed, and they stay in the trail.
Bundle == [t \in OpeningTools |-> Response(OpeningQuery(t))]

Seeds ==
  Opened => /\ \A t \in OpeningTools : OpeningQuery(t) \in DOMAIN trail
            /\ ledger = Seeded(Bundle)

LEMMA BundleStays ==
  ASSUME Seeds, Opened, Opened', UNCHANGED <<incident, cohort, heard, ledger>>,
         \A k \in DOMAIN trail : k \in DOMAIN trail' /\ trail'[k] = trail[k]
  PROVE  Seeds'
<1>1. \A t \in OpeningTools : OpeningQuery(t)' = OpeningQuery(t) /\ OpeningQuery(t) \in DOMAIN trail
  BY DEF OpeningQuery, Seeds
<1>2. \A t \in OpeningTools : Response(OpeningQuery(t))' = Response(OpeningQuery(t))
  BY <1>1 DEF Response, OpeningQuery
<1>3. Bundle' = Bundle
  BY <1>2 DEF Bundle
<1>4. Signature(Bundle)' = Signature(Bundle)
  BY <1>3 DEF Signature
<1>5. Seeded(Bundle)' = Seeded(Bundle)
  BY <1>3, <1>4 DEF Seeded, Listed
<1> QED
  BY <1>1, <1>5 DEF Seeds

LEMMA OpenSeeds ==
  ASSUME Typed, Open PROVE Seeds'
<1>1. PICK failing \in SUBSET OpeningTools :
        /\ trail' = [q \in OpeningQueries |-> q.tool \notin failing]
        /\ ledger' = Seeded(Opening(failing))
  BY DEF Open, OpeningQueries
<1>2. UNCHANGED <<incident, cohort, heard>>
  BY DEF Open
<1>3. ASSUME NEW t \in OpeningTools
      PROVE  /\ OpeningQuery(t)' = OpeningQuery(t) /\ OpeningQuery(t) \in DOMAIN trail'
             /\ trail'[OpeningQuery(t)] <=> t \notin failing
             /\ OpeningQuery(t).tool = t /\ OpeningQuery(t).cohort = cohort
             /\ OpeningQuery(t).window = "during"
  BY <1>1, <1>2 DEF OpeningQueries, OpeningQuery
<1>4. \A t \in OpeningTools : Response(OpeningQuery(t))' = Opening(failing)[t]
  <2> TAKE t \in OpeningTools
  <2> DEFINE q == OpeningQuery(t)
             r == Responses[incident][t][cohort]
  <2>1. Response(q)' = IF t \in failing THEN NoFields
                       ELSE IF t # "operational_metrics" THEN r
                       ELSE [r EXCEPT !.runtime = heard]
    <3>1. q' = q /\ q.tool = t /\ q.cohort = cohort /\ q.window = "during"
          /\ (trail'[q] <=> t \notin failing)
      BY <1>3
    <3> HIDE DEF q
    <3> QED
      BY <1>2, <3>1 DEF Response
  <2> QED
    BY <2>1 DEF Opening
<1>5. Bundle' = Opening(failing)
  BY <1>4 DEF Bundle, Opening
<1>6. Signature(Bundle)' = Signature(Opening(failing))
  BY <1>2, <1>5 DEF Signature
<1>7. Seeded(Bundle)' = Seeded(Opening(failing))
  BY <1>5, <1>6 DEF Seeded, Listed
<1> QED
  BY <1>1, <1>3, <1>7 DEF Seeds

LEMMA AlwaysSeeds == Spec => []Seeds
<1>1. Init => Seeds
  BY DEF Init, Seeds, Opened
<1>2. Typed /\ Typed' /\ Seeds /\ [Next]_vars => Seeds'
  <2> SUFFICES ASSUME Typed, Typed', Seeds, [Next]_vars PROVE Seeds'
    OBVIOUS
  <2>1. CASE Open
    BY <2>1, OpenSeeds
  <2>2. ASSUME NEW q \in Queries, Query(q) PROVE Seeds'
    <3>1. Opened /\ UNCHANGED <<incident, cohort, heard, ledger>> /\ q \notin DOMAIN trail
      BY <2>2 DEF Query
    <3>2. PICK answered \in BOOLEAN :
            trail' = [k \in DOMAIN trail \cup {q} |-> IF k = q THEN answered ELSE trail[k]]
      BY <2>2 DEF Query
    <3>3. \A k \in DOMAIN trail : k \in DOMAIN trail' /\ trail'[k] = trail[k]
      BY <3>1, <3>2
    <3>4. Opened'
      BY <3>1 DEF Typed, TypeOK
    <3> QED
      BY <3>1, <3>3, <3>4, BundleStays
  <2>3. ASSUME UNCHANGED <<incident, cohort, heard, trail, ledger>> PROVE Seeds'
    <3>1. CASE Opened
      <4>1. Opened'
        BY <2>3, <3>1 DEF Opened
      <4> QED
        BY <2>3, <3>1, <4>1, BundleStays
    <3>2. CASE ~Opened
      BY <2>3, <3>2 DEF Opened, Seeds
    <3> QED
      BY <3>1, <3>2
  <2>4. CASE Accept \/ Degrade \/ UNCHANGED vars
    BY <2>3, <2>4 DEF Accept, Degrade, vars
  <2> QED
    BY <2>1, <2>2, <2>4 DEF Next
<1> QED
  BY <1>1, <1>2, AlwaysTyped, PTL DEF Spec

\* What the opening made a hypothesis of, the same responses do not contradict,
\* whatever they measured and whichever of the tools failed.
THEOREM ListedStands == Spec => []WhatIsListedStands
<1>1. Typed /\ Seeds => WhatIsListedStands
  <2> SUFFICES ASSUME Typed, Seeds,
                      NEW h \in {"application_failure", "retry_amplification"} \cap ledger,
                      NEW t \in OpeningTools
               PROVE  ~Contradicts(h, t, Response(OpeningQuery(t)))
    BY DEF WhatIsListedStands
  <2>1. Opened /\ h \in Seeded(Bundle)
    BY DEF Typed, TypeOK, Seeds
  <2>2. Bundle[t] = Response(OpeningQuery(t))
    BY DEF Bundle
  <2>3. /\ incident \in Incidents /\ cohort \in Reported
        /\ OpeningQuery(t).tool = t /\ OpeningQuery(t).cohort = cohort
        /\ OpeningQuery(t).window = "during"
    BY DEF Typed, TypeOK, OpeningQuery
  <2>4. CASE h = "application_failure" /\ t = "operational_metrics"
    <3>1. \/ Response(OpeningQuery(t)).runtime \in {"degraded", "unhealthy"}
          \/ Atleast(Response(OpeningQuery(t)).error, 50)
      BY <2>1, <2>2, <2>4, ApplicationIsListedFor
    <3>2. Response(OpeningQuery(t)).error \in Int \cup {Absent}
      <4> DEFINE r == Responses[incident][t][cohort]
      <4>1. r.error \in Int \cup {Absent}
        BY <2>3, <2>4, RatesHold DEF RatesAreNumbers
      <4>2. "error" \in DOMAIN r
        <5>1. r = OperationalMetrics(incident, cohort, "unobserved")
          BY <2>3, <2>4 DEF Responses, Fields
        <5>2. DOMAIN r = DOMAIN NoFields
          BY <5>1 DEF OperationalMetrics
        <5> QED
          BY <5>2 DEF NoFields
      <4>3. \/ Response(OpeningQuery(t)) = NoFields
            \/ Response(OpeningQuery(t)) = [r EXCEPT !.runtime = heard]
        BY <2>3, <2>4 DEF Response
      <4> QED
        BY <4>1, <4>2, <4>3 DEF NoFields
    <3> QED
      BY <2>4, <3>1, <3>2 DEF Contradicts, Atleast, Known
  <2>5. CASE h = "retry_amplification" /\ t = "retry_stats"
    <3> DEFINE r == Responses[incident][t][cohort]
    <3>1. Response(OpeningQuery(t)) = NoFields \/ Response(OpeningQuery(t)) = r
      BY <2>3, <2>5 DEF Response
    <3>2. r.depth_end = Absent /\ r.factor \in Int \cup {Absent}
      BY <2>3, <2>5, RatesHold DEF RatesAreNumbers, Responses, Fields, RetryStats, NoFields
    <3>3. /\ ~Known(Response(OpeningQuery(t)).depth_end)
          /\ Response(OpeningQuery(t)).factor \in Int \cup {Absent}
      BY <3>1, <3>2 DEF NoFields, Known
    <3>4. Above(Response(OpeningQuery(t)).factor, 1100)
      BY <2>1, <2>2, <2>5, <3>3, RetriesAreListedFor
    <3> QED
      BY <2>5, <3>3, <3>4 DEF Contradicts, Above, Known
  <2>6. CASE ~(h = "application_failure" /\ t = "operational_metrics")
             /\ ~(h = "retry_amplification" /\ t = "retry_stats")
    BY <2>6 DEF Contradicts
  <2> QED
    BY <2>4, <2>5, <2>6
<1> QED
  BY <1>1, AlwaysTyped, AlwaysSeeds, PTL

(***************************************************************************)
(* A slow provider stays accused by its own traffic                        *)
(***************************************************************************)

\* Every attempt of a cohort within the scope of such an incident is slow.
LEMMA ScopeIsSlow ==
  ASSUME NEW i \in Incidents \ {None}, SlowsDown(i), NEW c \in Cohorts, Matches(i, c)
  PROVE  Seen[i][c].slow = Seen[i][c].attempts
<1> DEFINE inside == Inside(i, c)
           parts(r) == [k \in Within(c, r.chain) |-> (r.n * Slowness(i, r.chain[k])) \div 1000]
           slow == [r \in inside |-> SumFunction(parts(r))]
           tried == [r \in inside |-> r.n * Cardinality(Within(c, r.chain))]
<1>1. Seen[i][c] = Measure(i, Rows[i], c)
  BY DEF Seen
<1>2. /\ Seen[i][c].slow = SumFunctionOnSet(slow, inside)
      /\ Seen[i][c].attempts = SumFunctionOnSet(tried, inside)
  BY <1>1 DEF Measure, SumFunction, Inside
<1>3. ASSUME NEW chain, NEW k \in Within(c, chain) PROVE Slowness(i, chain[k]) = 1000
  <2>1. Matches(i, chain[k])
    BY <1>3 DEF Within, Matches
  <2> QED BY <2>1 DEF Affected, Slowness, SlowsDown
<1>4. IsFiniteSet(inside)
  BY InsideIs
<1> HIDE DEF inside
<1>5. ASSUME NEW r \in inside PROVE slow[r] = tried[r]
  <2>1. r.n \in Nat /\ IsFiniteSet(Within(c, r.chain))
    BY InsideIs, Zenon DEF inside
  <2>2. (r.n * 1000) \div 1000 = r.n
    <3> DEFINE n == r.n
    <3>1. n \in Nat
      BY <2>1
    <3> HIDE DEF n
    <3>2. (n * 1000) \div 1000 = n
      BY <3>1
    <3> QED BY <3>2 DEF n
  <2>3. \A k \in Within(c, r.chain) : parts(r)[k] = r.n
    BY <1>3, <2>2
  <2>4. DOMAIN parts(r) = Within(c, r.chain)
    OBVIOUS
  <2> HIDE DEF parts
  <2>5. SumFunctionOnSet(parts(r), Within(c, r.chain)) = r.n * Cardinality(Within(c, r.chain))
    BY <2>1, <2>3, SumConstant
  <2> QED BY <2>4, <2>5 DEF SumFunction
<1> HIDE DEF slow, tried
<1> QED BY <1>2, <1>4, <1>5, SumSame

\* Rounding moves a number by a half at most.
LEMMA RoundedIsNear ==
  ASSUME NEW x \in Nat
  PROVE  Rounded(x) \in Nat /\ x <= 1000 * Rounded(x) + 500
<1> DEFINE q == x \div 1000
           r == x % 1000
<1>1. q \in Nat /\ r \in 0..999 /\ x = 1000 * q + r
  OBVIOUS
<1> HIDE DEF q, r
<1>2. CASE r > 500 \/ (r = 500 /\ q % 2 = 1)
  <2>1. Rounded(x) = q + 1
    BY <1>2 DEF Rounded, q, r
  <2> QED BY <1>1, <2>1
<1>3. CASE ~(r > 500 \/ (r = 500 /\ q % 2 = 1))
  <2>1. Rounded(x) = q
    BY <1>3 DEF Rounded, q, r
  <2>2. r <= 500
    BY <1>1, <1>3
  <2> QED BY <1>1, <2>1, <2>2
<1> QED BY <1>2, <1>3

\* The 95th percentile is slow when more than a twentieth of the attempts are, with
\* the margin that the rounding of its rank may take, or when all of them are.
LEMMA SlowTail ==
  ASSUME NEW m, m.attempts \in Nat \ {0}, m.slow \in Nat,
         m.attempts + 29 <= 20 * m.slow \/ m.slow = m.attempts
  PROVE  PercentileIsSlow(m, 950)
<1> DEFINE n == m.attempts
           s == m.slow
           rank == Rounded(950 * (n - 1))
<1>1. 950 * (n - 1) \in Nat /\ n \in Nat \ {0} /\ s \in Nat
  OBVIOUS
<1>2. rank \in Nat /\ 950 * (n - 1) <= 1000 * rank + 500
  BY <1>1, RoundedIsNear
<1>3. n + 29 <= 20 * s \/ s = n
  OBVIOUS
<1>4. PercentileIsSlow(m, 950) <=> n > 0 /\ n - s <= rank
  BY DEF PercentileIsSlow
<1> HIDE DEF n, s, rank
<1>5. n - s <= rank
  BY <1>1, <1>2, <1>3
<1> QED BY <1>1, <1>4, <1>5

\* What an incident's own window shows of a cohort within its scope.
OwnTrafficAccuses ==
  (incident # None /\ SlowsDown(incident)) =>
    \A q \in DOMAIN trail :
      (q.window = "during" /\ Matches(incident, q.cohort))
        => ~Contradicts("provider_degradation", q.tool, Response(q))

\* No observation of its own window rules out a provider that is slow, when the
\* cohort it is about lies within the incident's scope, whatever the providers,
\* the banks, the volume and the incident's other effects, and whatever the
\* runtime telemetry says.  (SlowIsHeard adds the cohorts that hold other traffic
\* too: how much of it drowns a slow provider is a matter of its share of them.)
THEOREM OwnTrafficIsHeard == Spec => []OwnTrafficAccuses
<1>1. Typed => OwnTrafficAccuses
  <2> SUFFICES ASSUME Typed, incident # None, SlowsDown(incident), NEW q \in DOMAIN trail,
                      q.window = "during", Matches(incident, q.cohort),
                      Contradicts("provider_degradation", q.tool, Response(q))
               PROVE  FALSE
    BY DEF OwnTrafficAccuses
  <2> DEFINE c == q.cohort
             m == Seen[incident][c]
             r == OperationalMetrics(incident, c, "unobserved")
  <2>1. /\ q.tool = "operational_metrics"
        /\ Response(q).health = "healthy" /\ ~Response(q).slow95
    BY DEF Contradicts
  <2>2. incident \in Incidents /\ c \in Reported /\ c \in Cohorts
    BY DEF Typed, TypeOK, Queries, OpeningQuery, DiagnosisAssumption
  <2>3. Responses[incident]["operational_metrics"][c] = r
    BY <2>2 DEF Responses, Fields, OpeningTools
  <2>4. Response(q) = NoFields \/ Response(q) = [r EXCEPT !.runtime = heard]
    BY <2>1, <2>3 DEF Response
  <2>5. Response(q).health = r.health /\ Response(q).slow95 = r.slow95
    <3>1. NoFields.health # "healthy"
      BY DEF NoFields
    <3> QED BY <2>1, <2>4, <3>1 DEF OperationalMetrics, NoFields
  <2>6. r.health = "healthy" => Operational(m).failing # Absent
    BY DEF OperationalMetrics, NoFields
  <2>7. r.slow95 = PercentileIsSlow(m, 950)
    BY DEF OperationalMetrics, Operational, NoFields
  <2> HIDE DEF r
  <2>8. m.attempts \in Nat /\ m.slow = m.attempts
    BY <2>2, SeenIs, ScopeIsSlow
  <2> HIDE DEF m
  <2>9. m.attempts # 0
    BY <2>1, <2>5, <2>6 DEF Operational, PerMille
  <2>10. PercentileIsSlow(m, 950)
    BY <2>8, <2>9, SlowTail
  <2> QED BY <2>1, <2>5, <2>7, <2>10
<1> QED BY <1>1, AlwaysTyped, PTL

\* The sum over a part of a set is the one that the steps of the whole set hold.
LEMMA SumOfPart ==
  ASSUME NEW S, IsFiniteSet(S), NEW w, NEW g, Sums(g, w, S), NEW T \in SUBSET S
  PROVE  SumFunctionOnSet(w, T) = g[T]
<1>1. IsFiniteSet(T)
  BY FS_Subset
<1>2. PICK h : Sums(h, w, T) /\ SumFunctionOnSet(w, T) = h[T]
  BY <1>1, SumSteps
<1> DEFINE Q == {U \in SUBSET T : h[U] = g[U]}
<1>3. {} \in Q
  BY <1>2 DEF Sums
<1>4. ASSUME NEW U \in SUBSET T, U # {}, U \ {SomeOf(U)} \in Q PROVE U \in Q
  <2>1. U \in SUBSET S
    OBVIOUS
  <2>2. h[U] = w[SomeOf(U)] + h[U \ {SomeOf(U)}] /\ g[U] = w[SomeOf(U)] + g[U \ {SomeOf(U)}]
    BY <1>2, <1>4, <2>1 DEF Sums
  <2> QED BY <2>2, <1>4
<1>5. SUBSET T \subseteq Q
  <2> HIDE DEF Q
  <2> QED BY <1>1, <1>3, <1>4, SubsetInduct
<1> QED BY <1>2, <1>5

\* A sum of integers is an integer.
LEMMA SumIsInt ==
  ASSUME NEW S, IsFiniteSet(S), NEW w, \A x \in S : w[x] \in Int
  PROVE  SumFunctionOnSet(w, S) \in Int
<1>1. \A x \in S, y \in Int : w[x] + y \in Int
  OBVIOUS
<1> QED BY <1>1, SumIn

\* A sum of integers is one of them and the sum of the others, whichever it is.
LEMMA SumRemove ==
  ASSUME NEW S, IsFiniteSet(S), NEW w, \A x \in S : w[x] \in Int, NEW a \in S
  PROVE  /\ SumFunctionOnSet(w, S) = w[a] + SumFunctionOnSet(w, S \ {a})
         /\ SumFunctionOnSet(w, S) \in Int /\ SumFunctionOnSet(w, S \ {a}) \in Int
<1>1. PICK g : Sums(g, w, S) /\ SumFunctionOnSet(w, S) = g[S]
  BY SumSteps
<1>2. \A T \in SUBSET S : SumFunctionOnSet(w, T) = g[T]
  BY <1>1, SumOfPart
<1>3. \A T \in SUBSET S : IsFiniteSet(T) /\ Cardinality(T) \in Nat
  BY FS_Subset, FS_CardinalityType
<1>4. \A T \in SUBSET S : g[T] \in Int
  <2> TAKE T \in SUBSET S
  <2>1. \A x \in T : w[x] \in Int
    OBVIOUS
  <2>2. SumFunctionOnSet(w, T) \in Int
    BY <1>3, <2>1, SumIsInt
  <2> QED BY <1>2, <2>2
<1> DEFINE Ok(T) == \A x \in T : g[T] = w[x] + g[T \ {x}]
           Upto == {n \in Nat : \A T \in SUBSET S : Cardinality(T) = n => Ok(T)}
<1>5. 0 \in Upto
  BY <1>3, FS_EmptySet
<1>6. ASSUME NEW n \in Nat, n \in Upto PROVE n + 1 \in Upto
  <2> SUFFICES ASSUME NEW T \in SUBSET S, Cardinality(T) = n + 1, NEW x \in T
               PROVE  g[T] = w[x] + g[T \ {x}]
    OBVIOUS
  <2> DEFINE y == SomeOf(T)
  <2>1. y \in T
    BY DEF SomeOf
  <2>2. g[T] = w[y] + g[T \ {y}]
    BY <1>1, <2>1 DEF Sums
  <2> HIDE DEF y
  <2>3. CASE x = y
    BY <2>2, <2>3
  <2>4. CASE x # y
    <3>1. /\ T \ {x} \in SUBSET S /\ Cardinality(T \ {x}) = n
          /\ T \ {y} \in SUBSET S /\ Cardinality(T \ {y}) = n
      <4>1. IsFiniteSet(T) /\ T \ {x} \in SUBSET S /\ T \ {y} \in SUBSET S
        BY FS_Subset
      <4>2. \A z \in T : Cardinality(T \ {z}) = Cardinality(T) - 1
        BY <4>1, FS_RemoveElement
      <4> QED BY <2>1, <4>1, <4>2
    <3>2. g[T \ {y}] = w[x] + g[(T \ {y}) \ {x}]
      BY <1>6, <2>4, <3>1
    <3>3. g[T \ {x}] = w[y] + g[(T \ {x}) \ {y}]
      BY <1>6, <2>1, <2>4, <3>1
    <3>4. (T \ {x}) \ {y} = (T \ {y}) \ {x}
      OBVIOUS
    <3>5. g[(T \ {y}) \ {x}] \in Int /\ w[x] \in Int /\ w[y] \in Int
      BY <1>4, <2>1
    <3>6. \A i, j, l \in Int : i + (j + l) = j + (i + l)
      OBVIOUS
    <3>7. g[T] = w[y] + (w[x] + g[(T \ {y}) \ {x}])
      BY <2>2, <3>2, Zenon
    <3>8. g[T \ {x}] = w[y] + g[(T \ {y}) \ {x}]
      BY <3>3, <3>4, Zenon
    <3>9. w[y] + (w[x] + g[(T \ {y}) \ {x}]) = w[x] + (w[y] + g[(T \ {y}) \ {x}])
      BY <3>5, <3>6
    <3> QED BY <3>7, <3>8, <3>9, Zenon
  <2> QED BY <2>3, <2>4
<1>7. Nat \subseteq Upto
  <2> HIDE DEF Upto
  <2> QED BY <1>5, <1>6, Induct
<1>8. Ok(S)
  BY <1>3, <1>7
<1> QED BY <1>2, <1>4, <1>8

LEMMA SumOfNone == \A w : SumFunctionOnSet(w, {}) = 0
<1> TAKE w
<1>1. PICK g : Sums(g, w, {}) /\ SumFunctionOnSet(w, {}) = g[{}]
  BY SumSteps, FS_EmptySet
<1> QED BY <1>1 DEF Sums

\* A sum over one element.
LEMMA SumOfOne ==
  ASSUME NEW a, NEW w, w[a] \in Int
  PROVE  SumFunctionOnSet(w, {a}) = w[a]
<1>1. IsFiniteSet({a}) /\ {a} \ {a} = {}
  BY FS_Singleton
<1> QED BY <1>1, SumRemove, SumOfNone

\* The sum over a set of two parts is the sum of the parts.
LEMMA SumUnion ==
  ASSUME NEW S, NEW T, IsFiniteSet(S), IsFiniteSet(T), S \cap T = {},
         NEW w, \A x \in S \cup T : w[x] \in Int
  PROVE  SumFunctionOnSet(w, S \cup T) = SumFunctionOnSet(w, S) + SumFunctionOnSet(w, T)
<1> DEFINE Total(U) == SumFunctionOnSet(w, U)
           Q == {U \in SUBSET T : Total(S \cup U) = Total(S) + Total(U)}
<1>1. \A U \in SUBSET T : IsFiniteSet(U) /\ IsFiniteSet(S \cup U)
  BY FS_Subset, FS_Union
<1>2. {} \in Q
  <2>1. Total({}) = 0 /\ Total(S) \in Int /\ S \cup {} = S
    BY SumOfNone, SumIsInt
  <2> HIDE DEF Total
  <2> QED BY <2>1
<1>3. ASSUME NEW U \in SUBSET T, U # {}, U \ {SomeOf(U)} \in Q PROVE U \in Q
  <2> DEFINE a == SomeOf(U)
  <2>1. a \in U
    BY <1>3 DEF SomeOf
  <2>2. Total(S \cup (U \ {a})) = Total(S) + Total(U \ {a})
    BY <1>3
  <2> HIDE DEF a
  <2>3. (S \cup U) \ {a} = S \cup (U \ {a})
    BY <2>1
  <2>4. /\ Total(S \cup U) = w[a] + Total((S \cup U) \ {a})
        /\ Total(U) = w[a] + Total(U \ {a})
        /\ Total(U \ {a}) \in Int
    BY <1>1, <2>1, SumRemove
  <2>5. Total(S) \in Int /\ w[a] \in Int
    BY <2>1, SumIsInt
  <2>6. Total(S \cup U) = Total(S) + Total(U)
    <3>1. Total(S \cup U) = w[a] + (Total(S) + Total(U \ {a}))
      <4> HIDE DEF Total
      <4> QED BY <2>2, <2>3, <2>4, Zenon
    <3>2. Total(U) = w[a] + Total(U \ {a}) /\ Total(U \ {a}) \in Int
      BY <2>4, Zenon
    <3> HIDE DEF Total
    <3> QED BY <2>5, <3>1, <3>2
  <2> QED BY <2>6
<1>4. SUBSET T \subseteq Q
  <2> HIDE DEF Q
  <2> QED BY <1>2, <1>3, SubsetInduct
<1> QED BY <1>4

\* Renaming what is summed, one name for one, keeps the sum.
LEMMA SumRenamed ==
  ASSUME NEW S, IsFiniteSet(S), NEW f, NEW v, NEW u, \A x \in S : u[x] = v[f[x]] /\ u[x] \in Int,
         \A x, y \in S : f[x] = f[y] => x = y
  PROVE  /\ IsFiniteSet({f[x] : x \in S})
         /\ SumFunctionOnSet(v, {f[x] : x \in S}) = SumFunctionOnSet(u, S)
<1> DEFINE Named(U) == {f[x] : x \in U}
           Q == {U \in SUBSET S : /\ IsFiniteSet(Named(U))
                                  /\ SumFunctionOnSet(v, Named(U)) = SumFunctionOnSet(u, U)}
<1>1. {} \in Q
  <2>1. Named({}) = {}
    OBVIOUS
  <2> HIDE DEF Named
  <2> QED BY <2>1, SumOfNone, FS_EmptySet
<1>2. ASSUME NEW U \in SUBSET S, U # {}, U \ {SomeOf(U)} \in Q PROVE U \in Q
  <2> DEFINE a == SomeOf(U)
  <2>1. a \in U
    BY <1>2 DEF SomeOf
  <2>2. /\ IsFiniteSet(Named(U \ {a}))
        /\ SumFunctionOnSet(v, Named(U \ {a})) = SumFunctionOnSet(u, U \ {a})
    BY <1>2
  <2> HIDE DEF a
  <2>3. Named(U) = Named(U \ {a}) \cup {f[a]} /\ Named(U) \ {f[a]} = Named(U \ {a})
    BY <2>1
  <2>4. IsFiniteSet(Named(U))
    <3>1. IsFiniteSet(Named(U \ {a}) \cup {f[a]})
      <4> HIDE DEF Named
      <4> QED BY <2>2, FS_AddElement
    <3> HIDE DEF Named
    <3> QED BY <2>3, <3>1, Zenon
  <2>5. f[a] \in Named(U) /\ \A z \in Named(U) : v[z] \in Int
    BY <2>1
  <2> HIDE DEF Named
  <2>6. SumFunctionOnSet(v, Named(U)) = v[f[a]] + SumFunctionOnSet(v, Named(U) \ {f[a]})
    BY <2>4, <2>5, SumRemove
  <2>7. SumFunctionOnSet(u, U) = u[a] + SumFunctionOnSet(u, U \ {a})
    BY <2>1, FS_Subset, SumRemove
  <2> QED BY <2>1, <2>2, <2>3, <2>4, <2>6, <2>7
<1>3. SUBSET S \subseteq Q
  <2> HIDE DEF Q
  <2> QED BY <1>1, <1>2, SubsetInduct
<1> QED BY <1>3

\* The sum of a multiple and of an addend is the multiple of the sum and the sum.
LEMMA SumLinear ==
  ASSUME NEW S, IsFiniteSet(S), NEW n \in Int, NEW w, NEW u, NEW z,
         \A x \in S : u[x] \in Int /\ z[x] \in Int /\ w[x] = n * u[x] + z[x]
  PROVE  SumFunctionOnSet(w, S) = n * SumFunctionOnSet(u, S) + SumFunctionOnSet(z, S)
<1> DEFINE W(T) == SumFunctionOnSet(w, T)
           U(T) == SumFunctionOnSet(u, T)
           Z(T) == SumFunctionOnSet(z, T)
           Q == {T \in SUBSET S : W(T) = n * U(T) + Z(T)}
<1>1. \A i, j, k, l \in Int : n * i + j + (n * k + l) = n * (i + k) + (j + l)
  OBVIOUS
<1>2. {} \in Q
  BY SumOfNone
<1>3. ASSUME NEW T \in SUBSET S, T # {}, T \ {SomeOf(T)} \in Q PROVE T \in Q
  <2> DEFINE a == SomeOf(T)
  <2>1. a \in T
    BY <1>3 DEF SomeOf
  <2>2. W(T \ {a}) = n * U(T \ {a}) + Z(T \ {a})
    BY <1>3
  <2> HIDE DEF a
  <2>3. \A x \in T : w[x] \in Int
    <3>1. \A k, l \in Int : n * k + l \in Int
      OBVIOUS
    <3> QED BY <3>1
  <2>4. /\ W(T) = w[a] + W(T \ {a})
        /\ U(T) = u[a] + U(T \ {a}) /\ U(T \ {a}) \in Int
        /\ Z(T) = z[a] + Z(T \ {a}) /\ Z(T \ {a}) \in Int
    BY <2>1, <2>3, FS_Subset, SumRemove
  <2>5. w[a] = n * u[a] + z[a] /\ u[a] \in Int /\ z[a] \in Int
    BY <2>1
  <2> HIDE DEF W, U, Z
  <2>6. n * u[a] + z[a] + (n * U(T \ {a}) + Z(T \ {a})) = n * (u[a] + U(T \ {a})) + (z[a] + Z(T \ {a}))
    BY <1>1, <2>4, <2>5
  <2> QED BY <2>2, <2>4, <2>5, <2>6
<1>4. SUBSET S \subseteq Q
  <2> HIDE DEF Q
  <2> QED BY <1>2, <1>3, SubsetInduct
<1> QED BY <1>4

\* Summands that are no greater have no greater a sum.
LEMMA SumOrdered ==
  ASSUME NEW S, IsFiniteSet(S), NEW w, NEW u,
         \A x \in S : w[x] \in Int /\ u[x] \in Int /\ w[x] <= u[x]
  PROVE  SumFunctionOnSet(w, S) <= SumFunctionOnSet(u, S)
<1> DEFINE Q == {T \in SUBSET S : SumFunctionOnSet(w, T) <= SumFunctionOnSet(u, T)}
<1>1. {} \in Q
  BY SumOfNone
<1>2. ASSUME NEW T \in SUBSET S, T # {}, T \ {SomeOf(T)} \in Q PROVE T \in Q
  <2> DEFINE a == SomeOf(T)
             R == T \ {a}
  <2>1. a \in T
    BY <1>2 DEF SomeOf
  <2>2. SumFunctionOnSet(w, R) <= SumFunctionOnSet(u, R)
    BY <1>2
  <2> HIDE DEF a
  <2>3. /\ SumFunctionOnSet(w, T) = w[a] + SumFunctionOnSet(w, R)
        /\ SumFunctionOnSet(w, R) \in Int
        /\ SumFunctionOnSet(u, T) = u[a] + SumFunctionOnSet(u, R)
        /\ SumFunctionOnSet(u, R) \in Int
    BY <2>1, FS_Subset, SumRemove
  <2>4. w[a] \in Int /\ u[a] \in Int /\ w[a] <= u[a]
    BY <2>1
  <2> QED BY <2>2, <2>3, <2>4
<1>3. SUBSET S \subseteq Q
  <2> HIDE DEF Q
  <2> QED BY <1>1, <1>2, SubsetInduct
<1> QED BY <1>3

\* What bounds the sum over each part of a set, once for each part, bounds the sum.
LEMMA SumOfParts ==
  ASSUME NEW R, IsFiniteSet(R), NEW D, NEW v, NEW m \in Int,
         \A r \in R : /\ IsFiniteSet(D[r]) /\ \A x \in D[r] : v[x] \in Int
                      /\ SumFunctionOnSet(v, D[r]) <= m,
         \A r, q \in R : r # q => D[r] \cap D[q] = {}
  PROVE  /\ IsFiniteSet(UNION {D[r] : r \in R})
         /\ SumFunctionOnSet(v, UNION {D[r] : r \in R}) <= Cardinality(R) * m
<1> DEFINE All(T) == UNION {D[r] : r \in T}
           Q == {T \in SUBSET R : /\ IsFiniteSet(All(T))
                                  /\ SumFunctionOnSet(v, All(T)) <= Cardinality(T) * m}
<1>1. {} \in Q
  <2>1. All({}) = {} /\ Cardinality({}) * m = 0
    BY FS_EmptySet
  <2>2. IsFiniteSet(All({})) /\ SumFunctionOnSet(v, All({})) <= Cardinality({}) * m
    <3>1. IsFiniteSet({}) /\ SumFunctionOnSet(v, {}) = 0 /\ 0 <= 0
      BY SumOfNone, FS_EmptySet
    <3> HIDE DEF All
    <3> QED BY <2>1, <3>1, Zenon
  <2> HIDE DEF All
  <2> QED BY <2>2
<1>2. ASSUME NEW T \in SUBSET R, T # {}, T \ {SomeOf(T)} \in Q PROVE T \in Q
  <2> DEFINE a == SomeOf(T)
             U == T \ {a}
  <2>1. a \in T
    BY <1>2 DEF SomeOf
  <2>2. IsFiniteSet(All(U)) /\ SumFunctionOnSet(v, All(U)) <= Cardinality(U) * m
    BY <1>2
  <2> HIDE DEF a
  <2>3. All(T) = All(U) \cup D[a] /\ All(U) \cap D[a] = {}
    BY <2>1
  <2>4. \A x \in All(U) \cup D[a] : v[x] \in Int
    BY <2>1
  <2>5. IsFiniteSet(D[a]) /\ SumFunctionOnSet(v, D[a]) <= m
    BY <2>1
  <2>6. Cardinality(U) \in Nat /\ Cardinality(T) = Cardinality(U) + 1
    <3>1. IsFiniteSet(T) /\ IsFiniteSet(U)
      BY FS_Subset
    <3>2. Cardinality(U) = Cardinality(T) - 1
      BY <2>1, <3>1, FS_RemoveElement
    <3> QED BY <3>1, <3>2, FS_CardinalityType
  <2> HIDE DEF All, U
  <2>a. IsFiniteSet(All(T))
    <3>1. IsFiniteSet(All(U) \cup D[a])
      BY <2>2, <2>5, FS_Union
    <3> QED BY <2>3, <3>1, Zenon
  <2>7. SumFunctionOnSet(v, All(T)) = SumFunctionOnSet(v, All(U)) + SumFunctionOnSet(v, D[a])
    <3> DEFINE A == All(U)
    <3>1. SumFunctionOnSet(v, A \cup D[a]) = SumFunctionOnSet(v, A) + SumFunctionOnSet(v, D[a])
      <4>1. IsFiniteSet(A) /\ A \cap D[a] = {} /\ \A x \in A \cup D[a] : v[x] \in Int
        BY <2>2, <2>3, <2>4
      <4> HIDE DEF A
      <4> QED BY <4>1, <2>5, SumUnion
    <3> QED BY <3>1, <2>3
  <2>8. SumFunctionOnSet(v, All(U)) \in Int /\ SumFunctionOnSet(v, D[a]) \in Int
    BY <2>2, <2>4, <2>5, SumIsInt
  <2> DEFINE k == Cardinality(U)
  <2>9. k * m \in Int /\ (k + 1) * m = k * m + m
    BY <2>6
  <2> QED BY <2>2, <2>5, <2>6, <2>a, <2>7, <2>8, <2>9 DEF U
<1>3. SUBSET R \subseteq Q
  <2> HIDE DEF Q
  <2> QED BY <1>1, <1>2, SubsetInduct
<1> QED BY <1>3

(***************************************************************************)
(* Ordinary traffic, as a tree of attempts                                 *)
(***************************************************************************)

\* The providers an attempt of ordinary traffic may try after p.
Choices(p) == Candidates(None, Providers, p)

Try(p, b, s) == [provider |-> p, bank |-> b, status |-> s]

LEMMA ChoicesAre ==
  ASSUME NEW p
  PROVE  /\ IsFiniteSet(Choices(p)) /\ Cardinality(Choices(p)) \in Nat \ {0}
         /\ Choices(p) \subseteq Providers
         /\ \A b : Routes(None, Providers, p, b, Any) = Choices(p)
<1>1. \A b : Routes(None, Providers, p, b, Any) = Choices(p)
  BY DEF Routes, Choices
<1> QED BY <1>1, RoutesAre

\* The chains from attempt k on whose next attempt is r's.
Branch(F, k, b, r) ==
  {<<Try(r, b, "approved")>>, <<Try(r, b, "refused")>>}
  \cup IF k < MaxAttempts THEN {<<Try(r, b, "refused")>> \o t : t \in F[k + 1][r]} ELSE {}

LEMMA OrdinaryBranches ==
  ASSUME NEW F, NEW b, IsTree(F, None, b), NEW k \in 1..MaxAttempts, NEW p \in Previous(None)
  PROVE  F[k][p] = UNION {Branch(F, k, b, r) : r \in Choices(p)}
<1>1. F[k][p] = UNION {Onward(None, k, a, F[k + 1][a.provider]) : a \in Attempted(None, b, p)}
  BY DEF IsTree
<1>2. Attempted(None, b, p) = UNION {{Try(r, b, s) : s \in {"approved", "refused"}} : r \in Choices(p)}
  <2>1. \A a : Statuses(None, a) = {"approved", "refused"}
    BY DEF Statuses, Affected
  <2> DEFINE Of(r) == {[provider |-> r, bank |-> b, status |-> s] :
                         s \in Statuses(None, [provider |-> r, bank |-> b])}
             All(r) == {Try(r, b, s) : s \in {"approved", "refused"}}
  <2>2. Attempted(None, b, p) = UNION {Of(r) : r \in Choices(p)}
    BY ChoicesAre DEF Attempted, Attempts
  <2>3. \A r : Of(r) = All(r)
    BY <2>1 DEF Try
  <2>4. UNION {Of(r) : r \in Choices(p)} = UNION {All(r) : r \in Choices(p)}
    <3> HIDE DEF Of, All
    <3> QED BY <2>3
  <2> QED BY <2>2, <2>4
<1>3. ASSUME NEW r PROVE
        /\ Onward(None, k, Try(r, b, "approved"), F[k + 1][r]) = {<<Try(r, b, "approved")>>}
        /\ Onward(None, k, Try(r, b, "refused"), F[k + 1][r])
             = {<<Try(r, b, "refused")>>}
               \cup IF k < MaxAttempts THEN {<<Try(r, b, "refused")>> \o t : t \in F[k + 1][r]} ELSE {}
  <2>1. /\ Try(r, b, "approved").status = "approved" /\ Try(r, b, "refused").status = "refused"
        /\ \A a : ~Affected(None, a)
    BY DEF Try, Affected
  <2> QED BY <2>1 DEF Onward
<1>4. \A r, s : Try(r, b, s).provider = r
  BY DEF Try
<1>5. \A r : Onward(None, k, Try(r, b, "approved"), F[k + 1][r])
             \cup Onward(None, k, Try(r, b, "refused"), F[k + 1][r]) = Branch(F, k, b, r)
  BY <1>3 DEF Branch
<1>6. F[k][p] = UNION {Onward(None, k, Try(r, b, "approved"), F[k + 1][r])
                       \cup Onward(None, k, Try(r, b, "refused"), F[k + 1][r]) : r \in Choices(p)}
  <2>1. \A x : x \in F[k][p] <=> \E r \in Choices(p) : \E s \in {"approved", "refused"} :
                 x \in Onward(None, k, Try(r, b, s), F[k + 1][r])
    BY <1>1, <1>2, <1>4
  <2> QED BY <2>1
<1> QED BY <1>5, <1>6

\* How many of n ordinary payments are refused, and of these how many try again.
LEMMA RefusalsAre ==
  ASSUME NEW n \in Nat, NEW r, NEW b
  PROVE  LET x == OfStatus(None, Try(r, b, "refused"), n)
             y == Retried(None, Try(r, b, "refused"), x)
         IN  /\ x \in Nat /\ 100 * x <= 12 * n /\ y \in Nat /\ 100 * y <= 65 * x
             /\ OfStatus(None, Try(r, b, "approved"), n) = n - x
<1>1. \A m \in Nat, rate \in {12, 65} : (m * rate) \div 100 \in Nat /\ 100 * ((m * rate) \div 100) <= m * rate
  OBVIOUS
<1>2. \A a : RefusalRate(None, a) = 12 /\ ~Affected(None, a)
  BY DEF RefusalRate, Affected, BaselineDecline
<1>3. /\ OfStatus(None, Try(r, b, "refused"), n) = (n * 12) \div 100
      /\ OfStatus(None, Try(r, b, "approved"), n) = n - (n * 12) \div 100
      /\ \A m : Retried(None, Try(r, b, "refused"), m) = (m * 65) \div 100
  BY <1>2 DEF OfStatus, Retried, Try, RetryProbability
<1> QED BY <1>1, <1>3

\* n of m payments, whose attempt k comes after p, take c from there.
Carries(k, m, p, c, n) ==
  \E R : Reaches(None, R, c, m, p) /\ n = Ending(None, k + Len(c) - 1, c[Len(c)], R[Len(c)])

Taken(k, m, p, c) == CHOOSE n : Carries(k, m, p, c, n)

IsChain(c) == Len(c) \in Nat \ {0} /\ DOMAIN c = 1..Len(c) /\ c = [x \in 1..Len(c) |-> c[x]]

\* How many take a chain is determined.
LEMMA CarriesOne ==
  ASSUME NEW k, NEW m, NEW p, NEW c, IsChain(c), NEW n, Carries(k, m, p, c, n)
  PROVE  Taken(k, m, p, c) = n
<1>1. PICK R : Reaches(None, R, c, m, p) /\ n = Ending(None, k + Len(c) - 1, c[Len(c)], R[Len(c)])
  BY DEF Carries
<1>2. Carries(k, m, p, c, Taken(k, m, p, c))
  BY DEF Taken
<1>3. PICK Q : /\ Reaches(None, Q, c, m, p)
               /\ Taken(k, m, p, c) = Ending(None, k + Len(c) - 1, c[Len(c)], Q[Len(c)])
  BY <1>2 DEF Carries
<1> DEFINE Same == {j \in Nat : j + 1 \in DOMAIN c => R[j + 1] = Q[j + 1]}
<1>4. 0 \in Same
  <2>1. \A X : Reaches(None, X, c, m, p) /\ 1 \in DOMAIN c =>
          X[1] = OfStatus(None, c[1],
                   m \div Cardinality(Routes(None, Providers, p, c[1].bank, Any)))
    BY DEF Reaches
  <2> QED BY <1>1, <1>3, <2>1
<1>5. ASSUME NEW j \in Nat, j \in Same PROVE j + 1 \in Same
  <2> SUFFICES ASSUME j + 2 \in DOMAIN c PROVE R[j + 2] = Q[j + 2]
    OBVIOUS
  <2>1. j + 2 # 1 /\ j + 2 - 1 = j + 1 /\ R[j + 1] = Q[j + 1]
    BY <1>5 DEF IsChain
  <2> DEFINE l == j + 2
  <2>2. l \in DOMAIN c /\ l # 1 /\ R[l - 1] = Q[l - 1]
    BY <2>1
  <2> HIDE DEF l
  <2>3. R[l] = Q[l]
    BY <1>1, <1>3, <2>2 DEF Reaches
  <2> QED BY <2>3 DEF l
<1>6. Nat \subseteq Same
  <2> HIDE DEF Same
  <2> QED BY <1>4, <1>5, Induct
<1>7. R[Len(c)] = Q[Len(c)]
  <2>1. Len(c) - 1 \in Nat /\ Len(c) - 1 + 1 = Len(c) /\ Len(c) \in DOMAIN c
    BY DEF IsChain
  <2> QED BY <1>6, <2>1
<1> QED BY <1>1, <1>3, <1>7

\* A chain of one attempt is taken by those that end with it.
LEMMA CarriesSingle ==
  ASSUME NEW k \in Nat, NEW m, NEW p, NEW a
  PROVE  Carries(k, m, p, <<a>>, Ending(None, k, a, OfStatus(None, a, m \div Cardinality(Choices(p)))))
<1> DEFINE R == [j \in {1} |-> OfStatus(None, a, m \div Cardinality(Choices(p)))]
<1>1. Len(<<a>>) = 1 /\ <<a>>[1] = a /\ DOMAIN <<a>> = {1} /\ k + 1 - 1 = k
  OBVIOUS
<1>2. R[1] = OfStatus(None, a, m \div Cardinality(Choices(p)))
  OBVIOUS
<1> HIDE DEF R
<1>3. Reaches(None, R, <<a>>, m, p)
  BY <1>1, <1>2, ChoicesAre DEF Reaches
<1> QED BY <1>1, <1>2, <1>3 DEF Carries

\* A longer chain is taken by those of its first attempt's retried that take the rest.
LEMMA CarriesLonger ==
  ASSUME NEW k \in Nat, NEW m, NEW p, NEW a, NEW c, IsChain(c), NEW n,
         Carries(k + 1, Retried(None, a, OfStatus(None, a, m \div Cardinality(Choices(p)))),
                 a.provider, c, n)
  PROVE  IsChain(<<a>> \o c) /\ Carries(k, m, p, <<a>> \o c, n)
<1> DEFINE x == OfStatus(None, a, m \div Cardinality(Choices(p)))
           y == Retried(None, a, x)
           d == <<a>> \o c
<1>1. PICK R : /\ Reaches(None, R, c, y, a.provider)
               /\ n = Ending(None, k + 1 + Len(c) - 1, c[Len(c)], R[Len(c)])
  BY DEF Carries
<1>2. /\ Len(d) = Len(c) + 1 /\ DOMAIN d = 1..(Len(c) + 1) /\ d[1] = a
      /\ \A j \in 1..Len(c) : d[j + 1] = c[j]
      /\ d = [j \in 1..Len(d) |-> d[j]]
  <2>1. c \in Seq({c[j] : j \in 1..Len(c)})
    BY DEF IsChain
  <2> QED BY <2>1
<1> DEFINE Q == [j \in DOMAIN d |-> IF j = 1 THEN x ELSE R[j - 1]]
<1>3. Q[1] = x /\ \A j \in DOMAIN c : Q[j + 1] = R[j]
  BY <1>2 DEF IsChain
<1> HIDE DEF d, x, Q
<1>4. ASSUME NEW j \in DOMAIN d
      PROVE  Q[j] = OfStatus(None, d[j],
               (IF j = 1 THEN m ELSE Retried(None, d[j - 1], Q[j - 1]))
                 \div Cardinality(Routes(None, Providers, IF j = 1 THEN p ELSE d[j - 1].provider,
                                         d[j].bank, Any)))
  <2>1. CASE j = 1
    BY <2>1, <1>2, <1>3, ChoicesAre DEF x
  <2>2. CASE j = 2
    <3>1. 1 \in DOMAIN c /\ 1 + 1 = 2 /\ 2 - 1 = 1 /\ 2 # 1
      BY <1>2, <2>2 DEF IsChain
    <3>2. Q[2] = R[1] /\ d[2] = c[1] /\ d[1] = a /\ Q[1] = x
      BY <1>2, <1>3, <3>1 DEF IsChain
    <3>3. R[1] = OfStatus(None, c[1], y \div Cardinality(Routes(None, Providers, a.provider, c[1].bank, Any)))
      BY <1>1, <3>1 DEF Reaches
    <3> QED BY <2>2, <3>1, <3>2, <3>3
  <2>3. CASE j # 1 /\ j # 2
    <3> DEFINE i == j - 1
    <3>1. /\ i \in DOMAIN c /\ i # 1 /\ i + 1 = j /\ i - 1 \in DOMAIN c /\ i - 1 + 1 = j - 1
      BY <1>2, <2>3 DEF IsChain
    <3>2. Q[j] = R[i] /\ d[j] = c[i] /\ d[j - 1] = c[i - 1] /\ Q[j - 1] = R[i - 1]
      BY <1>2, <1>3, <3>1 DEF IsChain
    <3> HIDE DEF i
    <3>3. R[i] = OfStatus(None, c[i], Retried(None, c[i - 1], R[i - 1])
                   \div Cardinality(Routes(None, Providers, c[i - 1].provider, c[i].bank, Any)))
      BY <1>1, <3>1 DEF Reaches
    <3> QED BY <2>3, <3>2, <3>3
  <2> QED BY <2>1, <2>2, <2>3
<1>5. Reaches(None, Q, d, m, p)
  BY <1>4, Zenon DEF Reaches
<1>6. n = Ending(None, k + Len(d) - 1, d[Len(d)], Q[Len(d)])
  <2>1. Len(c) \in DOMAIN c /\ k + Len(d) - 1 = k + 1 + Len(c) - 1
    BY <1>2 DEF IsChain
  <2>2. Q[Len(d)] = R[Len(c)] /\ d[Len(d)] = c[Len(c)]
    BY <1>2, <1>3, <2>1 DEF IsChain
  <2> QED BY <1>1, <2>1, <2>2
<1>7. IsChain(d) /\ Carries(k, m, p, d, n)
  <2>1. IsChain(d)
    BY <1>2 DEF IsChain
  <2> QED BY <1>5, <1>6, <2>1 DEF Carries
<1> QED BY <1>7 DEF d

\* How many attempts of a chain a cohort holds, and how many of them are refused.
Counted(c, t) == Cardinality(Within(c, t))

RefusedIn(c, t) == {j \in Within(c, t) : t[j].status = "refused"}

Lost(c, t) == Cardinality(RefusedIn(c, t))

LEMMA CountedAre ==
  ASSUME NEW c, NEW t, IsChain(t)
  PROVE  /\ IsFiniteSet(Within(c, t)) /\ IsFiniteSet(RefusedIn(c, t))
         /\ Counted(c, t) \in Nat /\ Lost(c, t) \in Nat
         /\ Within(c, t) \subseteq Nat /\ RefusedIn(c, t) \subseteq Nat
<1>1. IsFiniteSet(Within(c, t)) /\ IsFiniteSet(RefusedIn(c, t))
  BY WithinIs DEF IsChain, RefusedIn
<1>2. Within(c, t) \subseteq Nat
  BY DEF Within, IsChain
<1> QED BY <1>1, <1>2, FS_CardinalityType DEF Counted, Lost, RefusedIn

\* One place further, the same number.
LEMMA ShiftedAreAsMany ==
  ASSUME NEW W, IsFiniteSet(W), W \subseteq Nat, NEW H \in {{}, {1}}
  PROVE  ~(0 \in W) => Cardinality(H \cup {j + 1 : j \in W}) = Cardinality(H) + Cardinality(W)
<1> SUFFICES ASSUME ~(0 \in W)
             PROVE  Cardinality(H \cup {j + 1 : j \in W}) = Cardinality(H) + Cardinality(W)
  OBVIOUS
<1> DEFINE V == {j + 1 : j \in W}
           f == [j \in W |-> j + 1]
<1>1. f \in Surjection(W, V) /\ f \in Injection(W, V)
  BY DEF Surjection, Injection, IsInjective
<1>2. 1 \notin V
  OBVIOUS
<1> HIDE DEF V, f
<1>3. IsFiniteSet(V) /\ Cardinality(V) = Cardinality(W)
  BY <1>1, FS_Surjection
<1>4. Cardinality(V) \in Nat
  BY <1>3, FS_CardinalityType
<1>5. Cardinality(H \cup V) = Cardinality(H) + Cardinality(W)
  <2>1. CASE H = {}
    <3>1. H \cup V = V /\ Cardinality(H) = 0
      BY <2>1, FS_EmptySet
    <3>2. Cardinality(H \cup V) = Cardinality(W)
      BY <1>3, <3>1, Zenon
    <3>3. Cardinality(W) \in Nat
      BY <1>3, <1>4, Zenon
    <3>4. \A n \in Nat : 0 + n = n
      OBVIOUS
    <3> QED BY <3>1, <3>2, <3>3, <3>4, Zenon
  <2>2. CASE H = {1}
    <3>1. Cardinality(V \cup {1}) = Cardinality(V) + 1
      BY <1>2, <1>3, FS_AddElement
    <3>2. Cardinality(H) = 1 /\ H \cup V = V \cup {1}
      BY <2>2, FS_Singleton
    <3>3. Cardinality(H \cup V) = Cardinality(V) + 1
      BY <3>1, <3>2, Zenon
    <3>4. \A n \in Nat : n + 1 = 1 + n
      OBVIOUS
    <3> QED BY <1>3, <1>4, <3>2, <3>3, <3>4
  <2> QED BY <2>1, <2>2
<1> QED BY <1>5 DEF V

\* A first attempt before a chain adds itself to what a cohort holds.
LEMMA CountedLonger ==
  ASSUME NEW c, NEW a, NEW t, IsChain(t)
  PROVE  /\ Counted(c, <<a>> \o t) = If(Matches(c, a), 1) + Counted(c, t)
         /\ Lost(c, <<a>> \o t) = If(Matches(c, a) /\ a.status = "refused", 1) + Lost(c, t)
<1> DEFINE d == <<a>> \o t
           H == {j \in {1} : Matches(c, a)}
           G == {j \in {1} : Matches(c, a) /\ a.status = "refused"}
<1>1. /\ DOMAIN d = 1..(Len(t) + 1) /\ d[1] = a
      /\ \A j \in 1..Len(t) : d[j + 1] = t[j]
  <2>1. t \in Seq({t[j] : j \in 1..Len(t)})
    BY DEF IsChain
  <2> QED BY <2>1
<1> HIDE DEF d
<1>2. \A j \in DOMAIN d : j = 1 \/ (j - 1 \in 1..Len(t) /\ j - 1 + 1 = j)
  BY <1>1 DEF IsChain
<1>3. Within(c, d) = H \cup {j + 1 : j \in Within(c, t)}
  BY <1>1, <1>2 DEF Within, IsChain
<1>4. RefusedIn(c, d) = G \cup {j + 1 : j \in RefusedIn(c, t)}
  BY <1>1, <1>2, <1>3 DEF RefusedIn, Within, IsChain
<1>5. 0 \notin Within(c, t) /\ 0 \notin RefusedIn(c, t)
  BY DEF Within, RefusedIn, IsChain
<1>6. H \in {{}, {1}} /\ G \in {{}, {1}}
  OBVIOUS
<1>7. Cardinality(H) = If(Matches(c, a), 1) /\ Cardinality(G) = If(Matches(c, a) /\ a.status = "refused", 1)
  <2>1. H = (IF Matches(c, a) THEN {1} ELSE {})
        /\ G = (IF Matches(c, a) /\ a.status = "refused" THEN {1} ELSE {})
    OBVIOUS
  <2> QED BY <2>1, FS_Singleton, FS_EmptySet DEF If
<1> HIDE DEF H, G
<1>8. Cardinality(Within(c, d)) = Cardinality(H) + Cardinality(Within(c, t))
  BY <1>3, <1>5, <1>6, CountedAre, ShiftedAreAsMany
<1>9. Cardinality(RefusedIn(c, d)) = Cardinality(G) + Cardinality(RefusedIn(c, t))
  BY <1>4, <1>5, <1>6, CountedAre, ShiftedAreAsMany
<1> QED BY <1>7, <1>8, <1>9 DEF Counted, Lost, d

LEMMA CountedSingle ==
  ASSUME NEW c, NEW a
  PROVE  /\ Counted(c, <<a>>) = If(Matches(c, a), 1)
         /\ Lost(c, <<a>>) = If(Matches(c, a) /\ a.status = "refused", 1)
         /\ IsChain(<<a>>)
<1>1. Within(c, <<a>>) = (IF Matches(c, a) THEN {1} ELSE {})
  BY DEF Within
<1>2. RefusedIn(c, <<a>>) = (IF Matches(c, a) /\ a.status = "refused" THEN {1} ELSE {})
  BY <1>1 DEF RefusedIn
<1>3. IsChain(<<a>>)
  BY DEF IsChain
<1> QED BY <1>1, <1>2, <1>3, FS_Singleton, FS_EmptySet DEF Counted, Lost, If

\* What is bounded of ordinary traffic: a chain's payment, a hundred refusals against
\* twelve attempts, a thousand attempts, and these against eleven hundred for a payment.
Gauges == {"payments", "refusals", "attempts", "retries"}

Worth(g, c, t) ==
  CASE g = "payments" -> 1
    [] g = "refusals" -> 100 * Lost(c, t) - 12 * Counted(c, t)
    [] g = "attempts" -> 1000 * Counted(c, t)
    [] g = "retries"  -> 1000 * Counted(c, t) - If(Counted(c, t) > 0, 1100)

Limit(g, m) == CASE g = "payments" -> m [] g = "attempts" -> 1085 * m [] OTHER -> 0

\* What one attempt adds.
Adds(g, c, a) ==
  IF ~Matches(c, a) THEN 0
  ELSE CASE g = "payments" -> 0
         [] g = "refusals" -> IF a.status = "refused" THEN 88 ELSE -12
         [] g = "attempts" -> 1000
         [] g = "retries"  -> -100

LEMMA WorthSingle ==
  ASSUME NEW g \in Gauges, NEW c, NEW a
  PROVE  Worth(g, c, <<a>>) = Adds(g, c, a) + If(g = "payments", 1)
BY CountedSingle DEF Worth, Adds, If, Gauges

After(g, c, a) == IF g = "retries" /\ Matches(c, a) THEN "attempts" ELSE g

LEMMA WorthLonger ==
  ASSUME NEW g \in Gauges, NEW c, NEW a, NEW t, IsChain(t)
  PROVE  /\ After(g, c, a) \in Gauges /\ Adds(g, c, a) \in Int /\ Worth(g, c, t) \in Int
         /\ Worth(g, c, <<a>> \o t) = Adds(g, c, a) + Worth(After(g, c, a), c, t)
<1>1. Counted(c, t) \in Nat /\ Lost(c, t) \in Nat
  BY CountedAre
<1>2. /\ Counted(c, <<a>> \o t) = If(Matches(c, a), 1) + Counted(c, t)
      /\ Lost(c, <<a>> \o t) = If(Matches(c, a) /\ a.status = "refused", 1) + Lost(c, t)
  BY CountedLonger
<1> DEFINE in == Matches(c, a)
           lost == a.status = "refused"
           n == Counted(c, t)
           m == Counted(c, <<a>> \o t)
           i == Lost(c, t)
           j == Lost(c, <<a>> \o t)
<1>3. n \in Nat /\ i \in Nat /\ m = If(in, 1) + n /\ j = If(in /\ lost, 1) + i
  BY <1>1, <1>2
<1>4. Adds(g, c, a) = IF ~in THEN 0
                      ELSE CASE g = "payments" -> 0
                             [] g = "refusals" -> IF lost THEN 88 ELSE -12
                             [] g = "attempts" -> 1000
                             [] g = "retries"  -> -100
  BY DEF Adds
<1>5. \A h \in Gauges : /\ h = "payments" => Worth(h, c, t) = 1 /\ Worth(h, c, <<a>> \o t) = 1
                        /\ h = "refusals" => /\ Worth(h, c, t) = 100 * i - 12 * n
                                             /\ Worth(h, c, <<a>> \o t) = 100 * j - 12 * m
                        /\ h = "attempts" => Worth(h, c, t) = 1000 * n /\ Worth(h, c, <<a>> \o t) = 1000 * m
                        /\ h = "retries" => /\ Worth(h, c, t) = 1000 * n - If(n > 0, 1100)
                                            /\ Worth(h, c, <<a>> \o t) = 1000 * m - If(m > 0, 1100)
  BY DEF Worth
<1>6. After(g, c, a) = (IF g = "retries" /\ in THEN "attempts" ELSE g) /\ After(g, c, a) \in Gauges
  BY DEF After, Gauges
<1> HIDE DEF in, lost, n, m, i, j
<1>7. CASE g = "payments"
  BY <1>3, <1>4, <1>5, <1>6, <1>7 DEF If
<1>8. CASE g = "refusals"
  BY <1>3, <1>4, <1>5, <1>6, <1>8 DEF If
<1>9. CASE g = "attempts"
  BY <1>3, <1>4, <1>5, <1>6, <1>9 DEF If
<1>10. CASE g = "retries"
  BY <1>3, <1>4, <1>5, <1>6, <1>10 DEF If
<1> QED BY <1>7, <1>8, <1>9, <1>10 DEF Gauges

\* What the payments that take the chains T from attempt k on are worth.
Flow(g, c, k, m, p, T) ==
  SumFunctionOnSet([t \in T |-> Taken(k, m, p, t) * Worth(g, c, t)], T)

\* Of m payments, each takes a chain from attempt k on, and none is worth too much.
Flows(F, c, k, m, p) ==
  /\ \A t \in F[k][p] : Carries(k, m, p, t, Taken(k, m, p, t)) /\ Taken(k, m, p, t) \in Nat
  /\ \A g \in Gauges : Flow(g, c, k, m, p, F[k][p]) <= Limit(g, m)

LEMMA LongerChains ==
  ASSUME NEW a, NEW t, IsChain(t)
  PROVE  /\ Len(<<a>> \o t) = Len(t) + 1 /\ (<<a>> \o t)[1] = a
         /\ \A u : IsChain(u) /\ <<a>> \o t = <<a>> \o u => t = u
         /\ \A e : <<a>> \o t # <<e>>
<1>1. ASSUME NEW u, IsChain(u)
      PROVE /\ Len(<<a>> \o u) = Len(u) + 1 /\ (<<a>> \o u)[1] = a
            /\ \A j \in 1..Len(u) : (<<a>> \o u)[j + 1] = u[j]
  <2>1. u \in Seq({u[j] : j \in 1..Len(u)})
    BY <1>1 DEF IsChain
  <2> QED BY <2>1
<1>2. ASSUME NEW u, IsChain(u), <<a>> \o t = <<a>> \o u PROVE t = u
  <2>1. Len(t) = Len(u)
    <3>1. Len(t) + 1 = Len(u) + 1 /\ Len(t) \in Nat /\ Len(u) \in Nat
      BY <1>1, <1>2 DEF IsChain
    <3> QED BY <3>1
  <2>2. \A j \in 1..Len(t) : t[j] = u[j]
    BY <1>1, <1>2, <2>1
  <2>3. t = [j \in 1..Len(t) |-> t[j]] /\ u = [j \in 1..Len(t) |-> u[j]]
    BY <1>2, <2>1 DEF IsChain
  <2> QED BY <2>2, <2>3
<1>3. \A e : Len(<<e>>) = 1
  OBVIOUS
<1>4. Len(t) + 1 # 1
  BY DEF IsChain
<1> QED BY <1>1, <1>2, <1>3, <1>4

\* The arithmetic of one branch: of n payments x are refused, of these y try again,
\* and the rest of their chains is worth no more than l and h.
LEMMA BranchArithmetic ==
  ASSUME NEW g \in Gauges, NEW c, NEW r, NEW b, NEW n \in Nat, NEW x \in Nat, NEW y \in Nat,
         100 * x <= 12 * n, 100 * y <= 65 * x, NEW l \in Nat, NEW h \in Int,
         l <= y, h <= Limit(After(g, c, Try(r, b, "refused")), y)
  PROVE  LET one == If(g = "payments", 1)
             lost == Adds(g, c, Try(r, b, "refused"))
         IN  (n - x) * (Adds(g, c, Try(r, b, "approved")) + one)
             + ((x - y) * (lost + one) + (lost * l + h)) <= Limit(g, n)
<1> DEFINE A == Try(r, b, "approved")
           B == Try(r, b, "refused")
<1>1. A.status = "approved" /\ B.status = "refused" /\ (Matches(c, A) <=> Matches(c, B))
  BY DEF Try, Matches
<1> HIDE DEF A, B
<1>2. CASE ~Matches(c, A)
  <2>1. Adds(g, c, A) = 0 /\ Adds(g, c, B) = 0 /\ After(g, c, B) = g
    BY <1>1, <1>2 DEF Adds, After
  <2>2. h <= Limit(g, y)
    BY <2>1 DEF B
  <2>3. CASE g = "payments"
    BY <2>1, <2>2, <2>3 DEF A, B, Limit, If
  <2>4. CASE g \in {"refusals", "retries"}
    BY <2>1, <2>2, <2>4 DEF A, B, Limit, If
  <2>5. CASE g = "attempts"
    BY <2>1, <2>2, <2>5 DEF A, B, Limit, If
  <2> QED BY <2>3, <2>4, <2>5 DEF Gauges
<1>3. CASE Matches(c, A)
  <2>1. CASE g = "payments"
    <3>1. Adds(g, c, A) = 0 /\ Adds(g, c, B) = 0 /\ After(g, c, B) = "payments"
      BY <1>1, <1>3, <2>1 DEF Adds, After
    <3> QED BY <2>1, <3>1 DEF A, B, Limit, If
  <2>2. CASE g = "refusals"
    <3>1. Adds(g, c, A) = -12 /\ Adds(g, c, B) = 88 /\ After(g, c, B) = "refusals"
      BY <1>1, <1>3, <2>2 DEF Adds, After
    <3> QED BY <2>2, <3>1 DEF A, B, Limit, If
  <2>3. CASE g = "attempts"
    <3>1. Adds(g, c, A) = 1000 /\ Adds(g, c, B) = 1000 /\ After(g, c, B) = "attempts"
      BY <1>1, <1>3, <2>3 DEF Adds, After
    <3> QED BY <2>3, <3>1 DEF A, B, Limit, If
  <2>4. CASE g = "retries"
    <3>1. Adds(g, c, A) = -100 /\ Adds(g, c, B) = -100 /\ After(g, c, B) = "attempts"
      BY <1>1, <1>3, <2>4 DEF Adds, After
    <3> QED BY <2>4, <3>1 DEF A, B, Limit, If
  <2> QED BY <2>1, <2>2, <2>3, <2>4 DEF Gauges
<1> QED BY <1>2, <1>3

\* The chains of one branch are of one provider, each is taken by some payments, and what
\* they are worth is bounded when that of the rests of them is.
LEMMA BranchFlow ==
  ASSUME NEW F, NEW b, IsTree(F, None, b), NEW c, NEW k \in 1..MaxAttempts, NEW p,
         NEW r \in Choices(p), NEW m \in Nat,
         k < MaxAttempts => \A y \in Nat : Flows(F, c, k + 1, y, r)
  PROVE  /\ IsFiniteSet(Branch(F, k, b, r))
         /\ \A t \in Branch(F, k, b, r) :
              /\ IsChain(t) /\ t[1].provider = r /\ t[1].bank = b
              /\ Carries(k, m, p, t, Taken(k, m, p, t)) /\ Taken(k, m, p, t) \in Nat
         /\ \A g \in Gauges :
              Flow(g, c, k, m, p, Branch(F, k, b, r)) <= Limit(g, m \div Cardinality(Choices(p)))
<1> DEFINE A == Try(r, b, "approved")
           B == Try(r, b, "refused")
           n == m \div Cardinality(Choices(p))
           x == OfStatus(None, B, n)
           y == IF k < MaxAttempts THEN Retried(None, B, x) ELSE 0
           rests == IF k < MaxAttempts THEN F[k + 1][r] ELSE {}
           go == [t \in rests |-> <<B>> \o t]
           longer == {go[t] : t \in rests}
           all == Branch(F, k, b, r)
<1>1. n \in Nat
  <2>1. \A q \in Nat \ {0} : m \div q \in Nat
    OBVIOUS
  <2> QED BY <2>1, ChoicesAre
<1>2. /\ x \in Nat /\ y \in Nat /\ x - y \in Nat /\ n - x \in Nat
      /\ 100 * x <= 12 * n /\ 100 * y <= 65 * x
      /\ OfStatus(None, A, n) = n - x
  <2> DEFINE d == Retried(None, B, x)
  <2> HIDE DEF n
  <2>1. /\ x \in Nat /\ 100 * x <= 12 * n /\ d \in Nat /\ 100 * d <= 65 * x
        /\ OfStatus(None, A, n) = n - x
    BY <1>1, RefusalsAre
  <2>2. y = IF k < MaxAttempts THEN d ELSE 0
    OBVIOUS
  <2> HIDE DEF x, d, y, A
  <2> QED BY <1>1, <2>1, <2>2
<1>3. /\ k + 1 - 1 = k /\ k \in Nat /\ r \in Previous(None)
      /\ k < MaxAttempts => k + 1 \in 1..MaxAttempts
  BY ChoicesAre, ChainAssumption DEF Previous
<1>4. IsFiniteSet(rests) /\ \A t \in rests : IsChain(t)
  BY <1>3, FS_EmptySet DEF IsTree, Whole, IsChain
<1>5. Branch(F, k, b, r) = {<<A>>} \cup ({<<B>>} \cup longer)
  BY DEF Branch
<1>6. /\ A.status = "approved" /\ B.status = "refused" /\ A.provider = r /\ B.provider = r
      /\ A.bank = b /\ B.bank = b
      /\ <<A>>[1] = A /\ <<B>>[1] = B
  BY DEF Try
<1>7. Carries(k, m, p, <<A>>, n - x) /\ Taken(k, m, p, <<A>>) = n - x
  <2>1. Ending(None, k, A, OfStatus(None, A, n)) = n - x
    BY <1>2, <1>6 DEF Ending
  <2>2. Carries(k, m, p, <<A>>, n - x)
    BY <1>3, <2>1, CarriesSingle
  <2> HIDE DEF A
  <2> QED BY <2>2, CountedSingle, CarriesOne
<1>8. Carries(k, m, p, <<B>>, x - y) /\ Taken(k, m, p, <<B>>) = x - y
  <2>1. Ending(None, k, B, OfStatus(None, B, n)) = x - y
    <3>1. k = MaxAttempts <=> ~(k < MaxAttempts)
      BY ChainAssumption
    <3>2. x - 0 = x
      BY <1>2
    <3> HIDE DEF B
    <3> QED BY <1>6, <3>1, <3>2 DEF Ending
  <2>2. Carries(k, m, p, <<B>>, x - y)
    BY <1>3, <2>1, CarriesSingle
  <2> HIDE DEF B
  <2> QED BY <2>2, CountedSingle, CarriesOne
<1>9. ASSUME NEW t \in rests
      PROVE  /\ IsChain(<<B>> \o t) /\ Taken(k + 1, y, r, t) \in Nat
             /\ Carries(k, m, p, <<B>> \o t, Taken(k + 1, y, r, t))
             /\ Taken(k, m, p, <<B>> \o t) = Taken(k + 1, y, r, t)
  <2>1. k < MaxAttempts /\ t \in F[k + 1][r]
    BY <1>9
  <2>2. Carries(k + 1, y, r, t, Taken(k + 1, y, r, t)) /\ Taken(k + 1, y, r, t) \in Nat
    BY <1>2, <2>1 DEF Flows
  <2>3. y = Retried(None, B, OfStatus(None, B, m \div Cardinality(Choices(p))))
    BY <2>1
  <2> HIDE DEF y, B
  <2>4. IsChain(<<B>> \o t) /\ Carries(k, m, p, <<B>> \o t, Taken(k + 1, y, r, t))
    BY <1>3, <1>4, <1>6, <2>2, <2>3, CarriesLonger
  <2> QED BY <2>2, <2>4, CarriesOne
<1> HIDE DEF A, B, n, x, y, rests, go
<1>g. \A t \in rests : go[t] = <<B>> \o t
  BY DEF go
<1>10. \A t \in all : /\ IsChain(t) /\ t[1].provider = r /\ t[1].bank = b
                      /\ Carries(k, m, p, t, Taken(k, m, p, t)) /\ Taken(k, m, p, t) \in Nat
  <2>1. ASSUME NEW t \in rests
        PROVE  /\ IsChain(go[t]) /\ go[t][1].provider = r /\ go[t][1].bank = b
               /\ Carries(k, m, p, go[t], Taken(k, m, p, go[t])) /\ Taken(k, m, p, go[t]) \in Nat
    <3>1. go[t][1] = B
      BY <1>4, <1>g, LongerChains
    <3> QED BY <1>6, <1>9, <1>g, <3>1
  <2> QED BY <1>2, <1>5, <1>6, <1>7, <1>8, <2>1, CountedSingle
<1>11. \A t, u \in rests : go[t] = go[u] => t = u
  <2> SUFFICES ASSUME NEW t \in rests, NEW u \in rests, go[t] = go[u] PROVE t = u
    OBVIOUS
  <2>1. IsChain(t) /\ IsChain(u) /\ <<B>> \o t = <<B>> \o u
    BY <1>4, <1>g
  <2> QED BY <2>1, LongerChains
<1>12. IsFiniteSet(longer) /\ IsFiniteSet({<<B>>} \cup longer) /\ IsFiniteSet(all)
  <2>1. go \in Surjection(rests, longer)
    BY DEF go, Surjection
  <2> HIDE DEF longer
  <2>2. IsFiniteSet(longer) /\ IsFiniteSet({<<A>>}) /\ IsFiniteSet({<<B>>})
    BY <1>4, <2>1, FS_Surjection, FS_Singleton
  <2>3. IsFiniteSet({<<B>>} \cup longer)
    BY <2>2, FS_Union
  <2>4. IsFiniteSet({<<A>>} \cup ({<<B>>} \cup longer))
    BY <2>2, <2>3, FS_Union
  <2> QED BY <1>5, <2>2, <2>3, <2>4, Zenon
<1>13. {<<A>>} \cap ({<<B>>} \cup longer) = {} /\ {<<B>>} \cap longer = {}
  <2>1. <<A>> # <<B>>
    BY <1>6
  <2>2. \A t \in rests : go[t] # <<A>> /\ go[t] # <<B>>
    BY <1>4, <1>g, LongerChains
  <2> QED BY <2>1, <2>2
<1>14. ASSUME NEW g \in Gauges PROVE Flow(g, c, k, m, p, all) <= Limit(g, n)
  <2> DEFINE v == [t \in all |-> Taken(k, m, p, t) * Worth(g, c, t)]
             one == If(g = "payments", 1)
             lost == Adds(g, c, B)
             h == After(g, c, B)
             l == Flow("payments", c, k + 1, y, r, rests)
             z == Flow(h, c, k + 1, y, r, rests)
             u == [t \in rests |-> lost * Taken(k + 1, y, r, t)
                                   + Taken(k + 1, y, r, t) * Worth(h, c, t)]
  <2>1. lost \in Int /\ h \in Gauges /\ one \in Int /\ Adds(g, c, A) \in Int
    BY DEF If, Adds, After, Gauges
  <2>2. \A t \in all : Worth(g, c, t) \in Int /\ v[t] \in Int
    <3>1. \A t \in all : Worth(g, c, t) \in Int
      BY <1>10, WorthLonger
    <3>2. \A i \in Nat, j \in Int : i * j \in Int
      OBVIOUS
    <3> QED BY <1>10, <3>1, <3>2
  <2>3. v[<<A>>] = (n - x) * (Adds(g, c, A) + one) /\ v[<<B>>] = (x - y) * (lost + one)
    BY <1>5, <1>7, <1>8, WorthSingle
  <2>4. ASSUME NEW t \in rests PROVE v[go[t]] = u[t] /\ u[t] \in Int
    <3>1. /\ Worth(g, c, <<B>> \o t) = lost + Worth(h, c, t)
          /\ Worth(h, c, t) \in Int
      <4>1. IsChain(t)
        BY <1>4
      <4>2. Worth(g, c, <<B>> \o t) = lost + Worth(h, c, t)
        BY <4>1, WorthLonger
      <4> HIDE DEF h
      <4>3. Worth(h, c, t) \in Int
        BY <2>1, <4>1, WorthLonger
      <4> QED BY <4>2, <4>3
    <3>2. Taken(k, m, p, go[t]) = Taken(k + 1, y, r, t) /\ Taken(k + 1, y, r, t) \in Nat
      BY <1>9, <1>g
    <3>3. \A i \in Nat, d, e \in Int : i * (d + e) = d * i + i * e /\ i * (d + e) \in Int
      OBVIOUS
    <3>4. v[go[t]] = Taken(k + 1, y, r, t) * (lost + Worth(h, c, t))
      BY <1>5, <1>g, <3>1, <3>2
    <3>5. u[t] = lost * Taken(k + 1, y, r, t) + Taken(k + 1, y, r, t) * Worth(h, c, t)
      OBVIOUS
    <3> HIDE DEF v, u, lost, h
    <3> QED BY <2>1, <3>1, <3>2, <3>3, <3>4, <3>5
  <2>5. SumFunctionOnSet(u, rests) = lost * l + z
    <3> DEFINE s == [t \in rests |-> Taken(k + 1, y, r, t) * Worth("payments", c, t)]
               w == [t \in rests |-> Taken(k + 1, y, r, t) * Worth(h, c, t)]
    <3>1. ASSUME NEW t \in rests PROVE s[t] \in Int /\ w[t] \in Int /\ u[t] = lost * s[t] + w[t]
      <4>1. Taken(k + 1, y, r, t) \in Nat /\ Worth(h, c, t) \in Int
        BY <1>4, <1>9, <2>1, WorthLonger
      <4>2. Worth("payments", c, t) = 1
        BY DEF Worth
      <4>3. \A i \in Nat, j \in Int : i * j \in Int /\ i * 1 = i
        OBVIOUS
      <4> HIDE DEF lost, h
      <4> QED BY <4>1, <4>2, <4>3
    <3>2. SumFunctionOnSet(s, rests) = l /\ SumFunctionOnSet(w, rests) = z
      BY DEF Flow
    <3> HIDE DEF s, w, u, lost, l, z
    <3>3. SumFunctionOnSet(u, rests) = lost * SumFunctionOnSet(s, rests) + SumFunctionOnSet(w, rests)
      BY <1>4, <2>1, <3>1, SumLinear
    <3> QED BY <3>2, <3>3
  <2>6. l \in Nat /\ z \in Int /\ l <= y /\ z <= Limit(h, y)
    <3> DEFINE s == [t \in rests |-> Taken(k + 1, y, r, t) * Worth("payments", c, t)]
               w == [t \in rests |-> Taken(k + 1, y, r, t) * Worth(h, c, t)]
    <3>1. ASSUME NEW t \in rests PROVE s[t] \in Nat /\ w[t] \in Int
      <4>1. Taken(k + 1, y, r, t) \in Nat /\ Worth(h, c, t) \in Int
        BY <1>4, <1>9, <2>1, WorthLonger
      <4>2. Worth("payments", c, t) = 1
        BY DEF Worth
      <4>3. \A i \in Nat, j \in Int : i * j \in Int /\ i * 1 = i
        OBVIOUS
      <4> HIDE DEF h
      <4> QED BY <4>1, <4>2, <4>3
    <3>2. SumFunctionOnSet(s, rests) = l /\ SumFunctionOnSet(w, rests) = z
      BY DEF Flow
    <3>3. SumFunctionOnSet(s, rests) \in Nat
      <4>1. \A t \in rests, i \in Nat : s[t] + i \in Nat
        BY <3>1
      <4> HIDE DEF s
      <4> QED BY <1>4, <4>1, SumIn
    <3>4. SumFunctionOnSet(w, rests) \in Int
      <4> HIDE DEF w
      <4> QED BY <1>4, <3>1, SumIsInt
    <3>5. l <= y /\ z <= Limit(h, y)
      <4>1. CASE k < MaxAttempts
        <5>1. Flows(F, c, k + 1, y, r) /\ rests = F[k + 1][r]
          BY <1>2, <4>1 DEF rests
        <5>2. Limit("payments", y) = y /\ "payments" \in Gauges
          BY DEF Limit, Gauges
        <5> HIDE DEF h
        <5> QED BY <2>1, <5>1, <5>2 DEF Flows
      <4>2. CASE ~(k < MaxAttempts)
        <5>1. rests = {} /\ y = 0
          BY <4>2 DEF rests, y
        <5>2. l = 0 /\ z = 0
          BY <5>1, SumOfNone DEF Flow
        <5>3. Limit(h, 0) = 0
          BY DEF Limit
        <5> HIDE DEF h, l, z
        <5> QED BY <5>1, <5>2, <5>3
      <4> QED BY <4>1, <4>2
    <3> HIDE DEF s, w, l, z
    <3> QED BY <3>2, <3>3, <3>4, <3>5
  <2>7. SumFunctionOnSet(v, longer) = lost * l + z
    <3> HIDE DEF v, u, l, z, lost
    <3>1. SumFunctionOnSet(v, longer) = SumFunctionOnSet(u, rests)
      BY <1>4, <1>11, <2>4, SumRenamed
    <3> QED BY <2>5, <3>1
  <2>8. SumFunctionOnSet(v, all) = v[<<A>>] + (v[<<B>>] + SumFunctionOnSet(v, longer))
    <3> HIDE DEF v, longer, all
    <3>1. \A t \in {<<A>>} \cup ({<<B>>} \cup longer) : v[t] \in Int
      BY <1>5, <2>2 DEF all
    <3>2. IsFiniteSet({<<A>>}) /\ IsFiniteSet({<<B>>})
      BY FS_Singleton
    <3>3. SumFunctionOnSet(v, {<<A>>} \cup ({<<B>>} \cup longer))
            = SumFunctionOnSet(v, {<<A>>}) + SumFunctionOnSet(v, {<<B>>} \cup longer)
      BY <1>12, <1>13, <3>1, <3>2, SumUnion
    <3>4. SumFunctionOnSet(v, {<<B>>} \cup longer)
            = SumFunctionOnSet(v, {<<B>>}) + SumFunctionOnSet(v, longer)
      BY <1>12, <1>13, <3>1, <3>2, SumUnion
    <3>5. SumFunctionOnSet(v, {<<A>>}) = v[<<A>>] /\ SumFunctionOnSet(v, {<<B>>}) = v[<<B>>]
      BY <3>1, SumOfOne
    <3> QED BY <1>5, <3>3, <3>4, <3>5, Zenon DEF all
  <2>9. (n - x) * (Adds(g, c, A) + one) + ((x - y) * (lost + one) + (lost * l + z)) <= Limit(g, n)
    <3> HIDE DEF one, lost, l, z
    <3> QED BY <1>1, <1>2, <2>6, BranchArithmetic DEF A, B, one, lost, h
  <2>10. Flow(g, c, k, m, p, all) = SumFunctionOnSet(v, all)
    BY DEF Flow
  <2> HIDE DEF v, lost, one, l, z, longer, all
  <2> QED BY <2>3, <2>7, <2>8, <2>9, <2>10
<1> QED BY <1>10, <1>12, <1>14 DEF n

\* Every tree of ordinary payments is worth no more than its limit.
LEMMA TreeFlow ==
  ASSUME NEW F, NEW b, IsTree(F, None, b), NEW c
  PROVE  \A k \in 1..MaxAttempts : \A p \in Previous(None) :
           /\ \A m \in Nat : Flows(F, c, k, m, p)
           /\ \A t \in F[k][p] : t[1].bank = b
<1> DEFINE Fine(k) == \A p \in Previous(None) : /\ \A m \in Nat : Flows(F, c, k, m, p)
                                              /\ \A t \in F[k][p] : t[1].bank = b
<1>1. ASSUME NEW k \in 1..MaxAttempts, k < MaxAttempts => Fine(k + 1),
             NEW p \in Previous(None), NEW m \in Nat
      PROVE  Flows(F, c, k, m, p) /\ \A t \in F[k][p] : t[1].bank = b
  <2> DEFINE R == Choices(p)
             q == Cardinality(R)
             n == m \div q
             D == [r \in R |-> Branch(F, k, b, r)]
  <2>1. IsFiniteSet(R) /\ q \in Nat \ {0} /\ R \subseteq Providers
    BY ChoicesAre
  <2>2. ASSUME NEW r \in R
        PROVE  /\ IsFiniteSet(D[r])
               /\ \A t \in D[r] :
                    /\ IsChain(t) /\ t[1].provider = r /\ t[1].bank = b
                    /\ Carries(k, m, p, t, Taken(k, m, p, t)) /\ Taken(k, m, p, t) \in Nat
               /\ \A g \in Gauges : Flow(g, c, k, m, p, D[r]) <= Limit(g, n)
    <3>1. k < MaxAttempts => \A y \in Nat : Flows(F, c, k + 1, y, r)
      BY <1>1, <2>1 DEF Previous
    <3>2. D[r] = Branch(F, k, b, r)
      OBVIOUS
    <3>3. /\ IsFiniteSet(Branch(F, k, b, r))
          /\ \A t \in Branch(F, k, b, r) :
               /\ IsChain(t) /\ t[1].provider = r /\ t[1].bank = b
               /\ Carries(k, m, p, t, Taken(k, m, p, t)) /\ Taken(k, m, p, t) \in Nat
          /\ \A g \in Gauges :
               Flow(g, c, k, m, p, Branch(F, k, b, r)) <= Limit(g, m \div Cardinality(Choices(p)))
      BY <3>1, BranchFlow
    <3> HIDE DEF D
    <3> QED BY <3>2, <3>3
  <2>3. F[k][p] = UNION {D[r] : r \in R}
    <3>1. F[k][p] = UNION {Branch(F, k, b, r) : r \in R}
      BY OrdinaryBranches
    <3> QED BY <3>1
  <2> HIDE DEF D, R
  <2>4. \A r, s \in R : r # s => D[r] \cap D[s] = {}
    BY <2>2
  <2>5. n \in Nat /\ q * n <= m
    <3>1. \A d \in Nat \ {0} : m \div d \in Nat /\ d * (m \div d) <= m
      OBVIOUS
    <3> QED BY <2>1, <3>1
  <2>6. ASSUME NEW g \in Gauges PROVE Flow(g, c, k, m, p, F[k][p]) <= Limit(g, m)
    <3> DEFINE v == [t \in F[k][p] |-> Taken(k, m, p, t) * Worth(g, c, t)]
    <3>1. \A t \in F[k][p] : v[t] \in Int
      <4>1. \A t \in F[k][p] : Taken(k, m, p, t) \in Nat /\ IsChain(t)
        BY <2>2, <2>3
      <4>3. \A t \in F[k][p] : Worth(g, c, t) \in Int
        BY <4>1, WorthLonger
      <4>2. \A i \in Nat, j \in Int : i * j \in Int
        OBVIOUS
      <4> QED BY <4>1, <4>2, <4>3
    <3>2. ASSUME NEW r \in R PROVE SumFunctionOnSet(v, D[r]) <= Limit(g, n)
      <4> DEFINE w == [t \in D[r] |-> Taken(k, m, p, t) * Worth(g, c, t)]
      <4>1. \A t \in D[r] : w[t] = v[t]
        BY <2>3
      <4>2. SumFunctionOnSet(w, D[r]) <= Limit(g, n)
        BY <2>2 DEF Flow
      <4> HIDE DEF v, w
      <4>3. SumFunctionOnSet(w, D[r]) = SumFunctionOnSet(v, D[r])
        BY <2>2, <4>1, SumSame
      <4> QED BY <4>2, <4>3
    <3>3. Limit(g, n) \in Int /\ Limit(g, m) \in Int /\ q * Limit(g, n) <= Limit(g, m)
      <4> HIDE DEF n, q
      <4>1. q * n \in Nat /\ q * (1085 * n) = 1085 * (q * n) /\ q * 0 = 0
        BY <2>1, <2>5
      <4> QED BY <2>1, <2>5, <4>1 DEF Limit
    <3> HIDE DEF v, q, n
    <3>4. SumFunctionOnSet(v, UNION {D[r] : r \in R}) <= Cardinality(R) * Limit(g, n)
      <4>1. \A r \in R : /\ IsFiniteSet(D[r]) /\ \A t \in D[r] : v[t] \in Int
                         /\ SumFunctionOnSet(v, D[r]) <= Limit(g, n)
        BY <2>2, <2>3, <3>1, <3>2
      <4> QED BY <2>1, <2>4, <3>3, <4>1, SumOfParts
    <3>5. SumFunctionOnSet(v, F[k][p]) \in Int
      <4>1. IsFiniteSet(F[k][p])
        BY DEF IsTree, Whole
      <4> QED BY <3>1, <4>1, SumIsInt
    <3>6. Flow(g, c, k, m, p, F[k][p]) = SumFunctionOnSet(v, F[k][p])
      BY DEF Flow, v
    <3>7. q * Limit(g, n) \in Int
      BY <2>1, <3>3
    <3> QED BY <2>3, <3>3, <3>4, <3>5, <3>6, <3>7 DEF q
  <2> QED BY <2>2, <2>3, <2>6 DEF Flows
<1> DEFINE Done == {n \in Nat : n < MaxAttempts => Fine(MaxAttempts - n)}
<1>2. ASSUME NEW k \in 1..MaxAttempts, k < MaxAttempts => Fine(k + 1) PROVE Fine(k)
  BY <1>1, <1>2
<1> HIDE DEF Fine
<1>3. Nat \subseteq Done
  <2>1. 0 \in Done
    <3>1. MaxAttempts - 0 = MaxAttempts /\ MaxAttempts \in 1..MaxAttempts
      BY ChainAssumption
    <3> QED BY <3>1, <1>2
  <2>2. ASSUME NEW n \in Nat, n \in Done PROVE n + 1 \in Done
    <3> SUFFICES ASSUME n + 1 < MaxAttempts PROVE Fine(MaxAttempts - (n + 1))
      OBVIOUS
    <3>1. /\ MaxAttempts - (n + 1) + 1 = MaxAttempts - n /\ n < MaxAttempts
          /\ MaxAttempts - (n + 1) \in 1..MaxAttempts
      BY ChainAssumption
    <3> QED BY <3>1, <2>2, <1>2
  <2> HIDE DEF Done
  <2> QED BY <2>1, <2>2, Induct
<1>4. ASSUME NEW k \in 1..MaxAttempts PROVE Fine(k)
  <2>1. /\ MaxAttempts - k \in Nat /\ MaxAttempts - (MaxAttempts - k) = k
        /\ MaxAttempts - k < MaxAttempts
    BY ChainAssumption
  <2> QED BY <2>1, <1>3
<1> QED BY <1>4 DEF Fine

\* The payments counted for a chain are those that take it from the first attempt on.
LEMMA WeightCarried ==
  ASSUME NEW t, IsChain(t)
  PROVE  /\ Weight(None, t) \in Nat /\ Carries(1, Volume, None, t, Weight(None, t))
         /\ \A n : Carries(1, Volume, None, t, n) => Weight(None, t) = n
<1>1. Len(t) \in Nat \ {0} /\ DOMAIN t = 1..Len(t) /\ 1 + Len(t) - 1 = Len(t)
  BY DEF IsChain
<1>2. \E R : Reaches(None, R, t, Volume, None)
             /\ Weight(None, t) = Ending(None, Len(t), t[Len(t)], R[Len(t)])
  BY <1>1, WeightSteps
<1>3. Carries(1, Volume, None, t, Weight(None, t))
  BY <1>1, <1>2 DEF Carries
<1> QED BY <1>1, <1>3, CarriesOne, WeightIs

\* The ordinary payments of one bank, and what they are worth.
LEMMA BankFlow ==
  ASSUME NEW b, NEW c
  PROVE  LET T == Chains(None, Providers, b, Any) IN
         /\ IsFiniteSet(T)
         /\ \A t \in T : IsChain(t) /\ t[1].bank = b /\ Weight(None, t) \in Nat
         /\ \A g \in Gauges :
              SumFunctionOnSet([t \in T |-> Weight(None, t) * Worth(g, c, t)], T) <= Limit(g, Volume)
<1> DEFINE T == Chains(None, Providers, b, Any)
<1>1. PICK F : IsTree(F, None, b) /\ T = F[1][None]
  BY ChainTree
<1>2. 1 \in 1..MaxAttempts /\ None \in Previous(None)
  BY ChainAssumption DEF Previous
<1> HIDE DEF T
<1>3. /\ Flows(F, c, 1, Volume, None) /\ Whole(T) /\ \A t \in T : t[1].bank = b
  <2>1. \A k \in 1..MaxAttempts : \A p \in Previous(None) :
           /\ \A m \in Nat : Flows(F, c, k, m, p)
           /\ \A t \in F[k][p] : t[1].bank = b
    BY <1>1, TreeFlow
  <2>2. Flows(F, c, 1, Volume, None) /\ \A t \in F[1][None] : t[1].bank = b
    BY <1>2, <2>1
  <2>3. Whole(F[1][None])
    BY <1>1, <1>2 DEF IsTree
  <2> QED BY <1>1, <2>2, <2>3
<1>4. ASSUME NEW t \in T
      PROVE  /\ IsChain(t) /\ Weight(None, t) \in Nat
             /\ Taken(1, Volume, None, t) = Weight(None, t)
  BY <1>3, WeightCarried, CarriesOne DEF Whole, IsChain
<1>5. ASSUME NEW g \in Gauges
      PROVE  SumFunctionOnSet([t \in T |-> Weight(None, t) * Worth(g, c, t)], T) <= Limit(g, Volume)
  <2> DEFINE w == [t \in T |-> Weight(None, t) * Worth(g, c, t)]
             v == [t \in T |-> Taken(1, Volume, None, t) * Worth(g, c, t)]
  <2>1. \A t \in T : w[t] = v[t]
    BY <1>4
  <2>2. SumFunctionOnSet(v, T) <= Limit(g, Volume)
    BY <1>1, <1>3 DEF Flows, Flow
  <2> HIDE DEF w, v
  <2>3. SumFunctionOnSet(w, T) = SumFunctionOnSet(v, T)
    BY <1>3, <2>1, SumSame DEF Whole
  <2>4. SumFunctionOnSet(w, T) <= Limit(g, Volume)
    BY <2>2, <2>3
  <2> QED BY <2>4 DEF w
<1> QED BY <1>3, <1>4, <1>5 DEF Whole, T

\* In the rows of an ordinary window, twelve refusals for a hundred attempts, and eleven
\* attempts for ten payments, are not exceeded.
Balanced == {"refusals", "retries"}

LEMMA RowsFlow ==
  ASSUME NEW c, NEW g \in Balanced
  PROVE  LET v == [r \in Rows[None] |-> r.n * Worth(g, c, r.chain)] IN
         /\ \A r \in Rows[None] : IsChain(r.chain) /\ v[r] \in Int
         /\ SumFunctionOnSet(v, Rows[None]) <= 0
<1> DEFINE D == [b \in Banks |-> Chains(None, Providers, b, Any)]
           T == UNION {D[b] : b \in Banks}
           u == [t \in T |-> Weight(None, t) * Worth(g, c, t)]
           row == [t \in T |-> [chain |-> t, n |-> Weight(None, t)]]
           v == [r \in Rows[None] |-> r.n * Worth(g, c, r.chain)]
<1>1. Rows[None] = {row[t] : t \in T}
  <2>1. T = UNION {Chains(None, Providers, b, Any) : b \in Banks}
    OBVIOUS
  <2>2. Rows[None] = {[chain |-> t, n |-> Weight(None, t)] : t \in T}
    BY <2>1 DEF Rows, Traffic
  <2> HIDE DEF T
  <2> QED BY <2>2
<1>2. ASSUME NEW b \in Banks
      PROVE  /\ IsFiniteSet(D[b])
             /\ \A t \in D[b] : IsChain(t) /\ t[1].bank = b /\ Weight(None, t) \in Nat
             /\ SumFunctionOnSet([t \in D[b] |-> Weight(None, t) * Worth(g, c, t)], D[b]) <= 0
  <2>1. g \in Gauges /\ Limit(g, Volume) = 0
    BY DEF Balanced, Gauges, Limit
  <2>2. D[b] = Chains(None, Providers, b, Any)
    OBVIOUS
  <2>3. LET B == Chains(None, Providers, b, Any) IN
         /\ IsFiniteSet(B)
         /\ \A t \in B : IsChain(t) /\ t[1].bank = b /\ Weight(None, t) \in Nat
         /\ SumFunctionOnSet([t \in B |-> Weight(None, t) * Worth(g, c, t)], B) <= Limit(g, Volume)
    BY <2>1, BankFlow
  <2> HIDE DEF D
  <2> QED BY <2>1, <2>2, <2>3
<1> HIDE DEF D
<1>3. \A t \in T : IsChain(t) /\ Weight(None, t) \in Nat
  BY <1>2
<1>4. ASSUME NEW t \in T PROVE u[t] \in Int /\ IsChain(t)
  <2>1. Worth(g, c, t) \in Int
    BY <1>3, WorthLonger DEF Balanced, Gauges
  <2>2. \A i \in Nat, j \in Int : i * j \in Int
    OBVIOUS
  <2> QED BY <1>3, <2>1, <2>2
<1>5. IsFiniteSet(T) /\ SumFunctionOnSet(u, T) <= 0
  <2>1. ASSUME NEW b \in Banks
        PROVE  /\ IsFiniteSet(D[b]) /\ \A t \in D[b] : u[t] \in Int
               /\ SumFunctionOnSet(u, D[b]) <= 0
    <3> DEFINE w == [t \in D[b] |-> Weight(None, t) * Worth(g, c, t)]
    <3>1. \A t \in D[b] : t \in T
      OBVIOUS
    <3>2. \A t \in D[b] : w[t] = u[t]
      BY <3>1
    <3>3. IsFiniteSet(D[b]) /\ SumFunctionOnSet(w, D[b]) <= 0
      BY <1>2
    <3> HIDE DEF w, u
    <3>4. SumFunctionOnSet(w, D[b]) = SumFunctionOnSet(u, D[b])
      BY <3>2, <3>3, SumSame
    <3> QED BY <1>4, <3>1, <3>3, <3>4
  <2>2. \A b, e \in Banks : b # e => D[b] \cap D[e] = {}
    BY <1>2
  <2> HIDE DEF u
  <2>3. IsFiniteSet(T) /\ SumFunctionOnSet(u, T) <= Cardinality(Banks) * 0
    BY <2>1, <2>2, SumOfParts
  <2>4. Cardinality(Banks) * 0 = 0
    <3>1. Cardinality(Banks) \in Nat
      BY FS_CardinalityType
    <3> QED BY <3>1
  <2> QED BY <2>3, <2>4
<1> HIDE DEF T
<1>6. \A t \in T : row[t] \in Rows[None] /\ row[t].chain = t /\ u[t] = v[row[t]]
  <2>1. \A t \in T : row[t] \in Rows[None] /\ row[t].chain = t /\ row[t].n = Weight(None, t)
    BY <1>1
  <2> HIDE DEF row
  <2> QED BY <2>1
<1>7. \A r \in Rows[None] : IsChain(r.chain) /\ v[r] \in Int
  <2> SUFFICES ASSUME NEW r \in Rows[None] PROVE IsChain(r.chain) /\ v[r] \in Int
    OBVIOUS
  <2>1. PICK t \in T : r = row[t]
    BY <1>1
  <2> HIDE DEF v, u, row
  <2> QED BY <1>4, <1>6, <2>1
<1>8. SumFunctionOnSet(v, {row[t] : t \in T}) = SumFunctionOnSet(u, T)
  <2>1. \A t, x \in T : row[t] = row[x] => t = x
    BY <1>6
  <2> HIDE DEF v, u, row
  <2> QED BY <1>4, <1>5, <1>6, <2>1, SumRenamed
<1> HIDE DEF v, u, row
<1>9. SumFunctionOnSet(v, Rows[None]) <= 0
  BY <1>1, <1>5, <1>8
<1> QED BY <1>7, <1>9 DEF v

\* The same of the rows that hold a cohort.
LEMMA InsideFlow ==
  ASSUME NEW c, NEW g \in Balanced
  PROVE  LET v == [r \in Rows[None] |-> r.n * Worth(g, c, r.chain)] IN
         SumFunctionOnSet(v, Inside(None, c)) <= 0
<1> DEFINE v == [r \in Rows[None] |-> r.n * Worth(g, c, r.chain)]
           I == Inside(None, c)
           O == Rows[None] \ I
<1>1. \A r \in Rows[None] : IsChain(r.chain) /\ v[r] \in Int
  BY RowsFlow
<1>2. SumFunctionOnSet(v, Rows[None]) <= 0
  BY RowsFlow
<1>3. ASSUME NEW r \in O PROVE v[r] = 0
  <2>1. Within(c, r.chain) = {} /\ r.n \in Nat
    BY RowsAre DEF Inside
  <2>2. Counted(c, r.chain) = 0 /\ Lost(c, r.chain) = 0
    BY <2>1, FS_EmptySet DEF Counted, Lost, RefusedIn
  <2>3. Worth(g, c, r.chain) = 0
    BY <2>2 DEF Worth, Balanced, If
  <2>4. \A i \in Nat : i * 0 = 0
    OBVIOUS
  <2> QED BY <2>1, <2>3, <2>4
<1>4. /\ IsFiniteSet(I) /\ IsFiniteSet(O) /\ I \cap O = {} /\ I \cup O = Rows[None]
  BY RowsAre, FS_Subset DEF Inside
<1> HIDE DEF v, I, O
<1>5. SumFunctionOnSet(v, I \cup O) = SumFunctionOnSet(v, I) + SumFunctionOnSet(v, O)
  BY <1>1, <1>4, SumUnion
<1>6. SumFunctionOnSet(v, O) = 0
  <2>1. SumFunctionOnSet(v, O) = 0 * Cardinality(O)
    BY <1>3, <1>4, SumConstant
  <2>2. Cardinality(O) \in Nat
    BY <1>4, FS_CardinalityType
  <2> QED BY <2>1, <2>2
<1>7. SumFunctionOnSet(v, I) \in Int
  BY <1>1, <1>4, SumIsInt
<1>8. SumFunctionOnSet(v, I) <= 0
  <2>1. SumFunctionOnSet(v, I \cup O) = SumFunctionOnSet(v, Rows[None])
    BY <1>4, Zenon
  <2> QED BY <1>2, <1>5, <1>6, <1>7, <2>1
<1> QED BY <1>8 DEF v, I

\* The sum of a multiple.
LEMMA SumMultiple ==
  ASSUME NEW S, IsFiniteSet(S), NEW n \in Int, NEW w, NEW u,
         \A x \in S : u[x] \in Int /\ w[x] = n * u[x]
  PROVE  SumFunctionOnSet(w, S) = n * SumFunctionOnSet(u, S)
<1> DEFINE z == [x \in S |-> 0]
<1>1. \A x \in S : n * u[x] \in Int /\ z[x] = 0
  OBVIOUS
<1>2. SumFunctionOnSet(u, S) \in Int
  BY SumIsInt
<1> HIDE DEF z
<1>3. \A x \in S : u[x] \in Int /\ z[x] \in Int /\ w[x] = n * u[x] + z[x]
  BY <1>1
<1>4. SumFunctionOnSet(w, S) = n * SumFunctionOnSet(u, S) + SumFunctionOnSet(z, S)
  BY <1>3, SumLinear
<1>5. SumFunctionOnSet(z, S) = 0
  <2>1. SumFunctionOnSet(z, S) = 0 * Cardinality(S)
    BY <1>1, SumConstant
  <2>2. Cardinality(S) \in Nat
    BY FS_CardinalityType
  <2> QED BY <2>1, <2>2
<1>6. n * SumFunctionOnSet(u, S) \in Int
  BY <1>2
<1> QED BY <1>4, <1>5, <1>6

\* A difference of two multiples, summed, is the difference of the multiples of the sums.
LEMMA SumBalance ==
  ASSUME NEW S, IsFiniteSet(S), NEW i \in Int, NEW j \in Int, NEW v, NEW a, NEW b,
         \A x \in S : a[x] \in Int /\ b[x] \in Int /\ v[x] \in Int /\ v[x] = i * a[x] - j * b[x]
  PROVE  /\ SumFunctionOnSet(a, S) \in Int /\ SumFunctionOnSet(b, S) \in Int
         /\ SumFunctionOnSet(v, S) = i * SumFunctionOnSet(a, S) - j * SumFunctionOnSet(b, S)
<1> DEFINE w == [x \in S |-> i * a[x]]
           A == SumFunctionOnSet(a, S)
           B == SumFunctionOnSet(b, S)
           V == SumFunctionOnSet(v, S)
<1>1. \A x \in S : w[x] = j * b[x] + v[x] /\ w[x] = i * a[x]
  <2>1. \A d, e, f \in Int : f = d - e => d = e + f
    OBVIOUS
  <2>2. \A x \in S : i * a[x] \in Int /\ j * b[x] \in Int
    OBVIOUS
  <2> QED BY <2>1, <2>2
<1>2. A \in Int /\ B \in Int /\ V \in Int
  BY SumIsInt
<1> HIDE DEF A, B, V, w
<1>3. SumFunctionOnSet(w, S) = j * B + V
  <2>1. \A x \in S : b[x] \in Int /\ v[x] \in Int /\ w[x] = j * b[x] + v[x]
    BY <1>1
  <2>2. SumFunctionOnSet(w, S) = j * SumFunctionOnSet(b, S) + SumFunctionOnSet(v, S)
    BY <2>1, SumLinear
  <2> QED BY <2>2 DEF B, V
<1>4. SumFunctionOnSet(w, S) = i * A
  BY <1>1, SumMultiple DEF A
<1>5. V = i * A - j * B
  <2>1. i * A \in Int /\ j * B \in Int
    BY <1>2
  <2> QED BY <1>2, <1>3, <1>4, <2>1
<1> QED BY <1>2, <1>5 DEF A, B, V

\* The refusals of a cohort in an ordinary window.
Refusals(c) == SumFunctionOnSet([r \in Inside(None, c) |-> r.n * Lost(c, r.chain)], Inside(None, c))

\* An ordinary window's attempts are refused at the baseline rate, and are no more than
\* what the simulator's retries make of its payments.
LEMMA OrdinaryCounts ==
  ASSUME NEW c \in Cohorts
  PROVE  LET m == Seen[None][c] IN
         /\ m.payments \in Nat /\ m.attempts \in Nat /\ Refusals(c) \in Int
         /\ 100 * Refusals(c) <= 12 * m.attempts /\ 1000 * m.attempts <= 1100 * m.payments
<1> DEFINE I == Inside(None, c)
           paid == [r \in I |-> r.n]
           tried == [r \in I |-> r.n * Counted(c, r.chain)]
           lost == [r \in I |-> r.n * Lost(c, r.chain)]
           m == Seen[None][c]
<1>1. /\ m.payments = SumFunctionOnSet(paid, I) /\ m.attempts = SumFunctionOnSet(tried, I)
      /\ m.payments \in Nat /\ m.attempts \in Nat
  BY SeenIs DEF Seen, Measure, SumFunction, Inside, Counted
<1>2. Refusals(c) = SumFunctionOnSet(lost, I)
  BY DEF Refusals
<1>3. IsFiniteSet(I) /\ I \subseteq Rows[None]
  BY InsideIs DEF Inside
<1> HIDE DEF m
<1>4. ASSUME NEW r \in I
      PROVE  /\ r.n \in Nat /\ IsChain(r.chain)
             /\ Counted(c, r.chain) \in Nat \ {0} /\ Lost(c, r.chain) \in Nat
  <2>1. IsChain(r.chain)
    <3>1. "refusals" \in Balanced
      BY DEF Balanced
    <3> QED BY <1>3, <3>1, RowsFlow
  <2>2. Within(c, r.chain) # {}
    BY DEF Inside
  <2>3. Counted(c, r.chain) # 0
    BY <2>1, <2>2, CountedAre, FS_EmptySet DEF Counted
  <2> QED BY <1>3, <2>1, <2>3, CountedAre, RowsAre
<1> HIDE DEF I
<1>5. \A r \in I : /\ paid[r] = r.n /\ tried[r] = r.n * Counted(c, r.chain)
                   /\ lost[r] = r.n * Lost(c, r.chain)
                   /\ paid[r] \in Int /\ tried[r] \in Int /\ lost[r] \in Int
  <2>1. \A i, j \in Nat : i * j \in Int /\ i \in Int
    OBVIOUS
  <2> QED BY <1>4, <2>1
<1> HIDE DEF paid, tried, lost
<1>6. 100 * SumFunctionOnSet(lost, I) - 12 * SumFunctionOnSet(tried, I) <= 0
  <2> DEFINE v == [r \in Rows[None] |-> r.n * Worth("refusals", c, r.chain)]
  <2>1. "refusals" \in Balanced
    BY DEF Balanced
  <2>2. SumFunctionOnSet(v, I) <= 0
    BY <2>1, InsideFlow DEF I
  <2>3. ASSUME NEW r \in I PROVE v[r] = 100 * lost[r] - 12 * tried[r] /\ v[r] \in Int
    <3>1. v[r] = r.n * (100 * Lost(c, r.chain) - 12 * Counted(c, r.chain))
      BY <1>3 DEF Worth
    <3>2. \A i, j, l \in Nat : i * (100 * l - 12 * j) = 100 * (i * l) - 12 * (i * j)
      OBVIOUS
    <3> HIDE DEF v
    <3>3. v[r] = 100 * lost[r] - 12 * tried[r]
      BY <1>4, <1>5, <3>1, <3>2
    <3> QED BY <1>5, <3>3
  <2> HIDE DEF v
  <2>4. SumFunctionOnSet(v, I) = 100 * SumFunctionOnSet(lost, I) - 12 * SumFunctionOnSet(tried, I)
    BY <1>3, <1>5, <2>3, SumBalance
  <2> QED BY <2>2, <2>4
<1>7. 1000 * SumFunctionOnSet(tried, I) - 1100 * SumFunctionOnSet(paid, I) <= 0
  <2> DEFINE v == [r \in Rows[None] |-> r.n * Worth("retries", c, r.chain)]
  <2>1. "retries" \in Balanced
    BY DEF Balanced
  <2>2. SumFunctionOnSet(v, I) <= 0
    BY <2>1, InsideFlow DEF I
  <2>3. ASSUME NEW r \in I PROVE v[r] = 1000 * tried[r] - 1100 * paid[r] /\ v[r] \in Int
    <3>1. v[r] = r.n * (1000 * Counted(c, r.chain) - 1100)
      BY <1>3, <1>4 DEF Worth, If
    <3>2. \A i, j \in Nat : i * (1000 * j - 1100) = 1000 * (i * j) - 1100 * i
      OBVIOUS
    <3> HIDE DEF v
    <3>3. v[r] = 1000 * tried[r] - 1100 * paid[r]
      BY <1>4, <1>5, <3>1, <3>2
    <3> QED BY <1>5, <3>3
  <2> HIDE DEF v
  <2>4. SumFunctionOnSet(v, I) = 1000 * SumFunctionOnSet(tried, I) - 1100 * SumFunctionOnSet(paid, I)
    BY <1>3, <1>5, <2>3, SumBalance
  <2> QED BY <2>2, <2>4
<1>8. SumFunctionOnSet(lost, I) \in Int
  BY <1>3, <1>5, SumIsInt
<1>9. /\ 100 * Refusals(c) <= 12 * m.attempts /\ 1000 * m.attempts <= 1100 * m.payments
      /\ Refusals(c) \in Int
  BY <1>1, <1>2, <1>6, <1>7, <1>8
<1> QED BY <1>1, <1>9 DEF m

\* The failures of one kind are that kind's part of the refusals.
LEMMA OrdinaryFailures ==
  ASSUME NEW c \in Cohorts, NEW kind \in Kinds
  PROVE  /\ Seen[None][c].failed[kind] \in Nat
         /\ 1000 * Seen[None][c].failed[kind] <= Ordinary[kind] * Refusals(c)
<1> DEFINE I == Inside(None, c)
           share == Ordinary[kind]
           lost == [r \in I |-> r.n * Lost(c, r.chain)]
           parts(r) == [k \in RefusedIn(c, r.chain) |-> (r.n * Makeup(None, r.chain[k])[kind]) \div 1000]
           failing == [r \in I |-> SumFunction(parts(r))]
           w == [r \in I |-> 1000 * failing[r]]
           u == [r \in I |-> share * lost[r]]
<1>1. Seen[None][c].failed[kind] = SumFunctionOnSet(failing, I)
  BY DEF Seen, Measure, SumFunction, Inside, RefusedIn
<1>2. IsFiniteSet(I) /\ I \subseteq Rows[None]
  BY InsideIs DEF Inside
<1>3. share \in Nat
  BY DEF Ordinary, Kinds
<1>4. ASSUME NEW r \in I
      PROVE  /\ r.n \in Nat /\ IsChain(r.chain) /\ Lost(c, r.chain) \in Nat
             /\ IsFiniteSet(RefusedIn(c, r.chain))
  <2>1. "refusals" \in Balanced
    BY DEF Balanced
  <2>2. IsChain(r.chain)
    BY <1>2, <2>1, RowsFlow
  <2> QED BY <1>2, <2>2, CountedAre, RowsAre
<1>5. ASSUME NEW r \in I
      PROVE  failing[r] = ((r.n * share) \div 1000) * Lost(c, r.chain)
  <2>1. Makeup(None, r.chain[1])[kind] = share /\ \A k : Makeup(None, r.chain[k])[kind] = share
    BY DEF Makeup, Affected
  <2> HIDE DEF share
  <2>2. (r.n * share) \div 1000 \in Nat
    <3>1. \A i, j \in Nat : (i * j) \div 1000 \in Nat
      <4>1. \A i, j \in Nat : i * j \in Nat
        OBVIOUS
      <4>2. \A i \in Nat : i \div 1000 \in Nat
        OBVIOUS
      <4> QED BY <4>1, <4>2
    <3> QED BY <1>3, <1>4, <3>1
  <2>3. \A k \in RefusedIn(c, r.chain) : parts(r)[k] = (r.n * share) \div 1000
    BY <2>1
  <2>4. DOMAIN parts(r) = RefusedIn(c, r.chain)
    OBVIOUS
  <2>5. failing[r] = SumFunction(parts(r))
    OBVIOUS
  <2> HIDE DEF parts, failing
  <2>6. SumFunctionOnSet(parts(r), RefusedIn(c, r.chain))
          = ((r.n * share) \div 1000) * Cardinality(RefusedIn(c, r.chain))
    BY <1>4, <2>2, <2>3, SumConstant
  <2> QED BY <2>4, <2>5, <2>6 DEF SumFunction, Lost
<1> HIDE DEF share, I, failing
<1>6. ASSUME NEW r \in I
      PROVE  /\ failing[r] \in Nat /\ lost[r] \in Int
             /\ 1000 * failing[r] <= share * lost[r]
  <2> DEFINE n == r.n
             l == Lost(c, r.chain)
  <2>1. n \in Nat /\ l \in Nat /\ lost[r] = n * l
    BY <1>4
  <2>2. failing[r] = ((n * share) \div 1000) * l
    BY <1>5
  <2> HIDE DEF n, l, lost
  <2>3. \A i \in Nat : i \div 1000 \in Nat /\ 1000 * (i \div 1000) <= i
    OBVIOUS
  <2>4. n * share \in Nat
    BY <1>3, <2>1
  <2>5. \A e, f, h \in Nat : 1000 * e <= f => /\ 1000 * (e * h) <= f * h /\ e * h \in Nat
    <3>1. \A e, f, h \in Nat : e <= f => e * h <= f * h
      OBVIOUS
    <3>2. \A e, h \in Nat : 1000 * (e * h) = (1000 * e) * h /\ e * h \in Nat /\ 1000 * e \in Nat
      OBVIOUS
    <3> QED BY <3>1, <3>2
  <2>6. failing[r] \in Nat /\ 1000 * failing[r] <= (n * share) * l
    BY <2>1, <2>2, <2>3, <2>4, <2>5
  <2>7. (n * share) * l = share * (n * l) /\ n * l \in Int
    BY <1>3, <2>1
  <2> QED BY <2>1, <2>6, <2>7
<1> HIDE DEF lost
<1>7. \A r \in I : /\ w[r] \in Int /\ u[r] \in Int /\ w[r] <= u[r]
                   /\ w[r] = 1000 * failing[r] /\ u[r] = share * lost[r]
  <2>1. \A i, j \in Int : 1000 * i \in Int /\ i * j \in Int
    OBVIOUS
  <2> QED BY <1>3, <1>6, <2>1
<1> HIDE DEF w, u
<1> DEFINE L == SumFunctionOnSet(lost, I)
           S == SumFunctionOnSet(failing, I)
<1>8. SumFunctionOnSet(w, I) = 1000 * S
  BY <1>2, <1>6, <1>7, SumMultiple
<1>9. SumFunctionOnSet(u, I) = share * L /\ L \in Int
  BY <1>2, <1>3, <1>6, <1>7, SumMultiple, SumIsInt
<1>10. SumFunctionOnSet(w, I) <= SumFunctionOnSet(u, I)
  BY <1>2, <1>7, SumOrdered
<1>13. S \in Nat
  <2>1. \A r \in I, y \in Nat : failing[r] + y \in Nat
    <3>1. \A x, y \in Nat : x + y \in Nat
      OBVIOUS
    <3> QED BY <1>6, <3>1
  <2> QED BY <1>2, <2>1, SumIn
<1>11. L = Refusals(c)
  BY DEF Refusals, L, lost, I
<1> HIDE DEF L, S
<1>12. S \in Nat /\ 1000 * S <= share * L
  <2>1. share * L \in Int
    BY <1>3, <1>9
  <2> QED BY <1>8, <1>9, <1>10, <1>13, <2>1
<1> QED BY <1>1, <1>11, <1>12 DEF S, share

\* A rate is no more than what bounds its parts.
LEMMA RateWithin ==
  ASSUME NEW n \in Nat, NEW of \in Nat, NEW b \in Nat, n * 1000 <= b * of, Known(PerMille(n, of))
  PROVE  PerMille(n, of) \in Nat /\ PerMille(n, of) <= b
<1>1. of \in Nat \ {0} /\ PerMille(n, of) = (n * 1000) \div of
  BY DEF PerMille, Known
<1> DEFINE q == (n * 1000) \div of
<1>2. q \in Nat /\ of * q <= n * 1000
  <2>1. \A i \in Nat, d \in Nat \ {0} : i \div d \in Nat /\ d * (i \div d) <= i
    OBVIOUS
  <2>2. n * 1000 \in Nat
    OBVIOUS
  <2> QED BY <1>1, <2>1, <2>2
<1> HIDE DEF q
<1>3. of * q <= of * b
  <2>1. b * of = of * b /\ of * q \in Nat /\ of * b \in Nat /\ n * 1000 \in Nat
    BY <1>2
  <2> QED BY <1>2, <2>1
<1>4. \A d \in Nat \ {0}, i, j \in Nat : d * i <= d * j => i <= j
  <2> SUFFICES ASSUME NEW d \in Nat \ {0}, NEW i \in Nat, NEW j \in Nat, i > j
               PROVE  d * i > d * j
    OBVIOUS
  <2>1. i - j \in Nat \ {0} /\ \A x, y \in Nat \ {0} : x * y > 0
    OBVIOUS
  <2>2. d * (i - j) > 0 /\ d * (i - j) = d * i - d * j /\ d * i \in Int /\ d * j \in Int
    BY <2>1
  <2> QED BY <2>2
<1>5. q <= b
  BY <1>1, <1>2, <1>3, <1>4
<1> QED BY <1>1, <1>2, <1>5 DEF q

\* What the tools tell of ordinary traffic stays under the thresholds.
LEMMA OrdinaryRates ==
  ASSUME NEW c \in Cohorts, NEW told
  PROVE  /\ LET r == OperationalMetrics(None, c, told) IN
              /\ ~Atleast(r.timeout, 100) /\ ~Atleast(r.error, 50)
              /\ r.health # "degraded" /\ r.runtime = told
         /\ ~Above(RetryStats(None, c).factor, 1100)
<1> DEFINE m == Seen[None][c]
           X == Refusals(c)
<1>1. /\ m.payments \in Nat /\ m.attempts \in Nat /\ X \in Int
      /\ 100 * X <= 12 * m.attempts /\ 1000 * m.attempts <= 1100 * m.payments
  BY OrdinaryCounts
<1>2. /\ m.failed["timed_out"] \in Nat /\ 1000 * m.failed["timed_out"] <= 50 * X
      /\ m.failed["error"] \in Nat /\ 1000 * m.failed["error"] <= 150 * X
  <2>1. "timed_out" \in Kinds /\ "error" \in Kinds
        /\ Ordinary["timed_out"] = 50 /\ Ordinary["error"] = 150
    BY DEF Kinds, Ordinary
  <2> HIDE DEF m, X
  <2>2. \A kind \in Kinds : m.failed[kind] \in Nat /\ 1000 * m.failed[kind] <= Ordinary[kind] * X
    BY OrdinaryFailures DEF m, X
  <2> QED BY <2>1, <2>2
<1>3. Operational(m).failing = PerMille(m.failed["timed_out"] + m.failed["error"], m.attempts)
  BY DEF Operational
<1>4. LET r == OperationalMetrics(None, c, told) IN
      /\ r.timeout = PerMille(m.failed["timed_out"], m.attempts)
      /\ r.error = PerMille(m.failed["error"], m.attempts)
      /\ r.health = "degraded" => Atleast(Operational(m).failing, 50)
      /\ r.runtime = told
  BY DEF OperationalMetrics, Operational, NoFields, DegradedRate, Atleast, Known
<1>5. RetryStats(None, c).factor = PerMille(m.attempts, m.payments)
  BY DEF RetryStats, RetryProfile, NoFields
<1> DEFINE e == m.failed["timed_out"]
           f == m.failed["error"]
           g == m.attempts
           h == m.payments
<1> HIDE DEF m, X, e, f, g, h
<1>6. /\ e \in Nat /\ f \in Nat /\ g \in Nat /\ h \in Nat /\ e + f \in Nat
      /\ e * 1000 <= 24 * g /\ f * 1000 <= 24 * g /\ (e + f) * 1000 <= 24 * g
      /\ g * 1000 <= 1100 * h
  BY <1>1, <1>2 DEF e, f, g, h
<1>7. /\ Known(PerMille(e, g)) => PerMille(e, g) \in Nat /\ PerMille(e, g) <= 24
      /\ Known(PerMille(f, g)) => PerMille(f, g) \in Nat /\ PerMille(f, g) <= 24
      /\ Known(PerMille(e + f, g)) => PerMille(e + f, g) \in Nat /\ PerMille(e + f, g) <= 24
      /\ Known(PerMille(g, h)) => PerMille(g, h) \in Nat /\ PerMille(g, h) <= 1100
  BY <1>6, RateWithin
<1>8. ~Atleast(PerMille(e, g), 100) /\ ~Atleast(PerMille(f, g), 50)
      /\ ~Atleast(PerMille(e + f, g), 50) /\ ~Above(PerMille(g, h), 1100)
  BY <1>7 DEF Atleast, Above
<1> QED BY <1>3, <1>4, <1>5, <1>8 DEF e, f, g, h

LEMMA PairIsFinite ==
  ASSUME NEW a, NEW b PROVE IsFiniteSet({a, b})
<1>1. IsFiniteSet({a}) /\ {a, b} = {a} \cup {b}
  BY FS_Singleton
<1> QED BY <1>1, FS_AddElement

\* Against itself, ordinary traffic shifts nothing, and it declines nothing for the issuer.
LEMMA OrdinaryShifts ==
  ASSUME NEW c \in Cohorts
  PROVE  LET shift == DeclineBreakdown(None, c).shift IN
         ~Above(shift["timeout"], 100) /\ ~Above(shift["issuer_decline"], 100)
<1> DEFINE m == Seen[None][c]
           Share(r) == PerMille(Failures(m, r), FailedAttempts(m))
           Current(r) == IF Known(Share(r)) THEN Share(r) ELSE 0
           shift == DeclineBreakdown(None, c).shift
<1>1. \A r \in Reasons : shift[r] = IF Failures(m, r) > 0 THEN Difference(Current(r), Share(r)) ELSE Absent
  BY DEF DeclineBreakdown, NoFields
<1>2. {"timeout", "issuer_decline"} \subseteq Reasons
  BY DEF Reasons
<1>3. Failures(m, "issuer_decline") = 0
  <2>1. {k \in Kinds : ReasonOf(k) = "issuer_decline"} = {}
    BY DEF ReasonOf
  <2> QED BY <2>1, SumOfNone, Zenon DEF Failures
<1>4. Known(Share("timeout")) => Share("timeout") \in Int
  <2>1. DOMAIN m.failed = Kinds /\ \A kind \in Kinds : m.failed[kind] \in Nat
    <3>1. \A kind \in Kinds : m.failed[kind] \in Nat
      BY OrdinaryFailures
    <3>2. m = Measure(None, Rows[None], c)
      BY DEF Seen
    <3> HIDE DEF m
    <3>3. DOMAIN m.failed = Kinds
      BY <3>2 DEF Measure
    <3> QED BY <3>1, <3>3
  <2>2. IsFiniteSet(Kinds)
    <3>1. /\ IsFiniteSet({"timed_out", "error"}) /\ IsFiniteSet({"declined_timeout", "declined"})
          /\ Kinds = {"timed_out", "error"} \cup {"declined_timeout", "declined"}
      BY PairIsFinite DEF Kinds
    <3> QED BY <3>1, FS_Union
  <2> DEFINE w == m.failed
             T == {k \in Kinds : ReasonOf(k) = "timeout"}
  <2>3. IsFiniteSet(T) /\ T \subseteq Kinds
    BY <2>2, FS_Subset
  <2>4. \A k \in Kinds, y \in Nat : w[k] + y \in Nat
    BY <2>1
  <2> HIDE DEF w, T, m
  <2>5. SumFunctionOnSet(w, Kinds) \in Nat /\ SumFunctionOnSet(w, T) \in Nat
    BY <2>2, <2>3, <2>4, SumIn
  <2>6. FailedAttempts(m) \in Nat /\ Failures(m, "timeout") \in Nat
    BY <2>1, <2>5 DEF FailedAttempts, Failures, SumFunction, w, T
  <2> QED BY <2>6, PerMilleIs DEF Known
<1> HIDE DEF m, Share, shift
<1>5. ~Above(shift["issuer_decline"], 100)
  BY <1>1, <1>2, <1>3 DEF Above, Known
<1>6. ~Above(shift["timeout"], 100)
  <2> SUFFICES ASSUME Known(shift["timeout"]) PROVE ~(shift["timeout"] > 100)
    BY DEF Above
  <2>1. Known(Share("timeout")) /\ shift["timeout"] = Share("timeout") - Share("timeout")
    BY <1>1, <1>2 DEF Difference, Known
  <2>2. \A x \in Int : x - x = 0
    OBVIOUS
  <2> QED BY <1>4, <2>1, <2>2
<1> QED BY <1>5, <1>6 DEF shift

(***************************************************************************)
(* Ordinary traffic does not tell one provider or one bank from another    *)
(***************************************************************************)

\* Two providers change places, and so do two banks.
Exchanges == [p : Providers, q : Providers, a : Banks, b : Banks]

Swap(x, y, v) == IF v = x THEN y ELSE IF v = y THEN x ELSE v

\* An attempt, a chain and a cohort after an exchange.
Twin(e, a) == Try(Swap(e.p, e.q, a.provider), Swap(e.a, e.b, a.bank), a.status)

Twins(e, t) == [k \in 1..Len(t) |-> Twin(e, t[k])]

Mirror(e, c) == [provider |-> Swap(e.p, e.q, c.provider), bank |-> Swap(e.a, e.b, c.bank)]

\* A chain of attempts that are made.
Made(t) == IsChain(t) /\ \A k \in 1..Len(t) : t[k] = Try(t[k].provider, t[k].bank, t[k].status)

LEMMA SwapTwice ==
  ASSUME NEW x, NEW y
  PROVE  /\ \A v : Swap(x, y, Swap(x, y, v)) = v
         /\ \A v, w : Swap(x, y, v) = Swap(x, y, w) <=> v = w
BY DEF Swap

\* The choices after an exchange are the exchanged choices, and as many.
LEMMA TwinChoices ==
  ASSUME NEW e \in Exchanges, NEW p
  PROVE  /\ \A r \in Choices(p) : Swap(e.p, e.q, r) \in Choices(Swap(e.p, e.q, p))
         /\ Cardinality(Choices(Swap(e.p, e.q, p))) = Cardinality(Choices(p))
<1> DEFINE S(v) == Swap(e.p, e.q, v)
           O(v) == Providers \ {v}
<1>1. \A v : S(v) \in Providers <=> v \in Providers
  BY DEF Exchanges, Swap
<1>2. \A v : S(S(v)) = v /\ \A w : S(v) = S(w) <=> v = w
  BY SwapTwice
<1> HIDE DEF S
<1>3. \A v : Choices(v) = IF O(v) = {} THEN Providers ELSE O(v)
  BY DEF Choices, Candidates
<1>4. \A v, r : r \in Choices(v) => S(r) \in Choices(S(v))
  <2> SUFFICES ASSUME NEW v, NEW r, r \in Choices(v) PROVE S(r) \in Choices(S(v))
    OBVIOUS
  <2>1. O(v) = {} <=> O(S(v)) = {}
    BY <1>1, <1>2
  <2> QED BY <1>1, <1>2, <1>3, <2>1
<1> DEFINE f == [r \in Choices(p) |-> S(r)]
<1>5. f \in Bijection(Choices(p), Choices(S(p)))
  <2>1. \A r \in Choices(p) : f[r] = S(r) /\ S(r) \in Choices(S(p))
    BY <1>4
  <2>2. \A r \in Choices(S(p)) : S(r) \in Choices(p) /\ S(S(r)) = r
    <3>1. S(S(p)) = p
      BY <1>2
    <3> QED BY <1>2, <1>4, <3>1
  <2>3. \A r \in Choices(S(p)) : f[S(r)] = r
    BY <2>1, <2>2
  <2>4. \A r, q \in Choices(p) : f[r] = f[q] => r = q
    BY <1>2, <2>1
  <2>5. f \in [Choices(p) -> Choices(S(p))]
    BY <1>4
  <2> HIDE DEF f
  <2>6. f \in Surjection(Choices(p), Choices(S(p)))
    BY <2>2, <2>3, <2>5 DEF Surjection
  <2>7. f \in Injection(Choices(p), Choices(S(p)))
    BY <2>4, <2>5 DEF Injection, IsInjective
  <2> QED BY <2>6, <2>7 DEF Bijection
<1>6. Cardinality(Choices(S(p))) = Cardinality(Choices(p))
  <2>1. ExistsBijection(Choices(p), Choices(S(p)))
    BY <1>5 DEF ExistsBijection
  <2> QED BY <2>1, ChoicesAre, FS_Bijection
<1> QED BY <1>4, <1>6 DEF S

\* An exchange takes the chains of one bank to those of the other.
LEMMA TwinTree ==
  ASSUME NEW e \in Exchanges, NEW b, NEW F, IsTree(F, None, b),
         NEW G, IsTree(G, None, Swap(e.a, e.b, b))
  PROVE  \A k \in 1..MaxAttempts : \A p \in Previous(None) : \A t \in F[k][p] :
           Made(t) /\ Twins(e, t) \in G[k][Swap(e.p, e.q, p)]
<1> DEFINE d == Swap(e.a, e.b, b)
           S(v) == Swap(e.p, e.q, v)
           Fine(k) == \A p \in Previous(None) : \A t \in F[k][p] :
                        Made(t) /\ Twins(e, t) \in G[k][S(p)]
<1>1. \A p \in Previous(None) : S(p) \in Previous(None)
  BY DEF Previous, Swap, Exchanges
<1>2. ASSUME NEW k \in 1..MaxAttempts, k < MaxAttempts => Fine(k + 1),
             NEW p \in Previous(None), NEW t \in F[k][p]
      PROVE  Made(t) /\ Twins(e, t) \in G[k][S(p)]
  <2>1. PICK r \in Choices(p) : t \in Branch(F, k, b, r)
    BY <1>2, OrdinaryBranches
  <2>2. S(r) \in Choices(S(p)) /\ r \in Previous(None) /\ k + 1 \in Nat
    BY TwinChoices, ChoicesAre DEF Previous
  <2>3. \A u \in Branch(G, k, d, S(r)) : u \in G[k][S(p)]
    <3>1. G[k][S(p)] = UNION {Branch(G, k, d, q) : q \in Choices(S(p))}
      BY <1>1, OrdinaryBranches
    <3> QED BY <2>2, <3>1
  <2>4. \A s : Twin(e, Try(r, b, s)) = Try(S(r), d, s)
    BY DEF Twin, Try
  <2>5. ASSUME NEW s, t = <<Try(r, b, s)>>
        PROVE  Made(t) /\ Twins(e, t) = <<Try(S(r), d, s)>>
    <3> DEFINE a == Try(r, b, s)
    <3>1. a = Try(a.provider, a.bank, a.status)
      BY DEF Try
    <3>2. Twin(e, a) = Try(S(r), d, s)
      BY <2>4
    <3> HIDE DEF a
    <3>3. t = <<a>> /\ Len(t) = 1 /\ t[1] = a /\ IsChain(t)
      BY <2>5, CountedSingle DEF a
    <3> HIDE DEF S, d
    <3>4. Twins(e, t) = <<Try(S(r), d, s)>>
      BY <3>2, <3>3 DEF Twins
    <3> QED BY <3>1, <3>3, <3>4 DEF Made
  <2>6. ASSUME k < MaxAttempts, NEW u \in F[k + 1][r], t = <<Try(r, b, "refused")>> \o u
        PROVE  Made(t) /\ Twins(e, t) = <<Try(S(r), d, "refused")>> \o Twins(e, u)
                       /\ Twins(e, u) \in G[k + 1][S(r)]
    <3> DEFINE a == Try(r, b, "refused")
    <3>1. a = Try(a.provider, a.bank, a.status)
      BY DEF Try
    <3>2. Twin(e, a) = Try(S(r), d, "refused")
      BY <2>4
    <3>3. Made(u) /\ Twins(e, u) \in G[k + 1][S(r)]
      BY <1>2, <2>2, <2>6
    <3> HIDE DEF a
    <3>4. /\ t = <<a>> \o u /\ Len(t) = Len(u) + 1 /\ Len(u) \in Nat \ {0}
          /\ t[1] = a /\ \A j \in 1..Len(u) : t[j + 1] = u[j]
          /\ DOMAIN t = 1..Len(t) /\ t = [j \in 1..Len(t) |-> t[j]]
      <4>1. t = <<a>> \o u /\ Len(u) \in Nat \ {0} /\ DOMAIN u = 1..Len(u)
            /\ u = [j \in 1..Len(u) |-> u[j]]
        BY <2>6, <3>3 DEF Made, IsChain, a
      <4> QED BY <4>1
    <3>5. \A j \in 1..Len(t) : j # 1 => j - 1 \in 1..Len(u) /\ t[j] = u[j - 1]
      BY <3>4
    <3>6. Made(t)
      BY <3>1, <3>3, <3>4, <3>5 DEF Made, IsChain
    <3>7. Twins(e, t) = <<Twin(e, a)>> \o Twins(e, u)
      <4> DEFINE w == Twins(e, u)
      <4>1. Len(w) = Len(u) /\ w = [j \in 1..Len(u) |-> Twin(e, u[j])]
        BY <3>4 DEF Twins
      <4>2. <<Twin(e, a)>> \o w = [j \in 1..(Len(u) + 1) |-> IF j = 1 THEN Twin(e, a) ELSE w[j - 1]]
        <5> HIDE DEF w
        <5> QED BY <4>1, <3>4
      <4>3. \A j \in 1..Len(t) : Twin(e, t[j]) = IF j = 1 THEN Twin(e, a) ELSE w[j - 1]
        <5> HIDE DEF w
        <5> QED BY <3>4, <3>5, <4>1
      <4> HIDE DEF w
      <4>4. Twins(e, t) = [j \in 1..(Len(u) + 1) |-> IF j = 1 THEN Twin(e, a) ELSE w[j - 1]]
        BY <3>4, <4>3 DEF Twins
      <4> QED BY <4>2, <4>4 DEF w
    <3> QED BY <3>2, <3>3, <3>6, <3>7
  <2>7. CASE t = <<Try(r, b, "approved")>>
    <3>1. Made(t) /\ Twins(e, t) = <<Try(S(r), d, "approved")>>
      BY <2>5, <2>7
    <3> QED BY <2>3, <3>1 DEF Branch
  <2>8. CASE t = <<Try(r, b, "refused")>>
    <3>1. Made(t) /\ Twins(e, t) = <<Try(S(r), d, "refused")>>
      BY <2>5, <2>8
    <3> QED BY <2>3, <3>1 DEF Branch
  <2>9. ASSUME k < MaxAttempts, NEW u \in F[k + 1][r], t = <<Try(r, b, "refused")>> \o u
        PROVE  Made(t) /\ Twins(e, t) \in G[k][S(p)]
    <3>1. Made(t) /\ Twins(e, t) = <<Try(S(r), d, "refused")>> \o Twins(e, u)
                  /\ Twins(e, u) \in G[k + 1][S(r)]
      BY <2>6, <2>9
    <3> HIDE DEF S, d
    <3> QED BY <2>3, <2>9, <3>1 DEF Branch
  <2>10. \/ t = <<Try(r, b, "approved")>> \/ t = <<Try(r, b, "refused")>>
         \/ k < MaxAttempts /\ \E u \in F[k + 1][r] : t = <<Try(r, b, "refused")>> \o u
    BY <2>1 DEF Branch
  <2> QED BY <2>7, <2>8, <2>9, <2>10
<1> DEFINE Done == {n \in Nat : n < MaxAttempts => Fine(MaxAttempts - n)}
<1>3. ASSUME NEW k \in 1..MaxAttempts, k < MaxAttempts => Fine(k + 1) PROVE Fine(k)
  BY <1>2, <1>3
<1> HIDE DEF Fine
<1>4. Nat \subseteq Done
  <2>1. 0 \in Done
    <3>1. MaxAttempts - 0 = MaxAttempts /\ MaxAttempts \in 1..MaxAttempts
      BY ChainAssumption
    <3> QED BY <3>1, <1>3
  <2>2. ASSUME NEW n \in Nat, n \in Done PROVE n + 1 \in Done
    <3> SUFFICES ASSUME n + 1 < MaxAttempts PROVE Fine(MaxAttempts - (n + 1))
      OBVIOUS
    <3>1. /\ MaxAttempts - (n + 1) + 1 = MaxAttempts - n /\ n < MaxAttempts
          /\ MaxAttempts - (n + 1) \in 1..MaxAttempts
      BY ChainAssumption
    <3> QED BY <3>1, <2>2, <1>3
  <2> HIDE DEF Done
  <2> QED BY <2>1, <2>2, Induct
<1>5. ASSUME NEW k \in 1..MaxAttempts PROVE Fine(k)
  <2>1. /\ MaxAttempts - k \in Nat /\ MaxAttempts - (MaxAttempts - k) = k
        /\ MaxAttempts - k < MaxAttempts
    BY ChainAssumption
  <2> QED BY <2>1, <1>4
<1> QED BY <1>5 DEF Fine

\* As many payments take the one as the other.
LEMMA TwinChains ==
  ASSUME NEW e \in Exchanges, NEW b, NEW t \in Chains(None, Providers, b, Any)
  PROVE  /\ Made(t) /\ IsChain(Twins(e, t))
         /\ Twins(e, t) \in Chains(None, Providers, Swap(e.a, e.b, b), Any)
         /\ Weight(None, Twins(e, t)) = Weight(None, t)
<1> DEFINE d == Swap(e.a, e.b, b)
           S(v) == Swap(e.p, e.q, v)
           T == Chains(None, Providers, b, Any)
           D == Chains(None, Providers, d, Any)
           u == Twins(e, t)
<1>1. PICK F : IsTree(F, None, b) /\ T = F[1][None]
  BY ChainTree
<1>2. PICK G : IsTree(G, None, d) /\ D = G[1][None]
  BY ChainTree
<1>3. S(None) = None /\ 1 \in 1..MaxAttempts /\ None \in Previous(None)
  BY ChainAssumption DEF Swap, Exchanges, Previous
<1>4. Made(t) /\ u \in D
  <2>1. \A k \in 1..MaxAttempts : \A p \in Previous(None) : \A x \in F[k][p] :
           Made(x) /\ Twins(e, x) \in G[k][S(p)]
    BY <1>1, <1>2, TwinTree
  <2>2. t \in F[1][None]
    BY <1>1
  <2> HIDE DEF S
  <2>3. Made(t) /\ Twins(e, t) \in G[1][None]
    BY <1>3, <2>1, <2>2
  <2> QED BY <1>2, <2>3
<1>5. /\ Len(t) \in Nat \ {0} /\ DOMAIN t = 1..Len(t)
      /\ Len(u) = Len(t) /\ DOMAIN u = 1..Len(t) /\ IsChain(u)
      /\ \A k \in 1..Len(t) : u[k] = Twin(e, t[k])
  BY <1>4 DEF Made, IsChain, Twins
<1>6. PICK R : /\ Reaches(None, R, t, Volume, None)
               /\ Weight(None, t) = Ending(None, Len(t), t[Len(t)], R[Len(t)])
  BY <1>5, WeightSteps
<1>7. \A a : /\ Twin(e, a).status = a.status /\ Twin(e, a).provider = S(a.provider)
  BY DEF Twin, Try
<1> HIDE DEF u, S, d
<1>8. \A a, n : /\ OfStatus(None, Twin(e, a), n) = OfStatus(None, a, n)
                /\ Retried(None, Twin(e, a), n) = Retried(None, a, n)
  BY <1>7 DEF OfStatus, Retried, RefusalRate, Affected
<1>9. Reaches(None, R, u, Volume, None)
  <2> DEFINE Coming(y, k) == IF k = 1 THEN Volume ELSE Retried(None, y[k - 1], R[k - 1])
             Before(y, k) == IF k = 1 THEN None ELSE y[k - 1].provider
  <2>1. ASSUME NEW k \in 1..Len(t)
        PROVE  R[k] = OfStatus(None, u[k], Coming(u, k) \div Cardinality(Choices(Before(u, k))))
    <3>1. R[k] = OfStatus(None, t[k], Coming(t, k) \div Cardinality(Choices(Before(t, k))))
      BY <1>5, <1>6, ChoicesAre DEF Reaches
    <3>2. k # 1 => k - 1 \in 1..Len(t)
      BY <1>5
    <3>3. Coming(u, k) = Coming(t, k)
      BY <1>5, <1>8, <3>2
    <3>4. Before(u, k) = S(Before(t, k))
      BY <1>3, <1>5, <1>7, <3>2
    <3>5. Cardinality(Choices(S(Before(t, k)))) = Cardinality(Choices(Before(t, k)))
      BY TwinChoices DEF S
    <3> HIDE DEF Coming, Before
    <3> QED BY <1>5, <1>8, <3>1, <3>3, <3>4, <3>5
  <2> QED BY <1>5, <2>1, ChoicesAre DEF Reaches
<1>10. Weight(None, u) = Weight(None, t)
  <2>2. 1 + Len(t) - 1 = Len(t)
    BY <1>5
  <2>4. Weight(None, t) = Ending(None, Len(u), u[Len(u)], R[Len(u)])
    <3>1. Len(t) \in 1..Len(t)
      BY <1>5
    <3> QED BY <1>5, <1>6, <1>7, <1>8, <3>1 DEF Ending
  <2>5. Carries(1, Volume, None, u, Weight(None, t))
    BY <1>5, <1>9, <2>2, <2>4 DEF Carries
  <2> QED BY <1>5, <2>5, WeightCarried
<1> QED BY <1>4, <1>5, <1>10 DEF u, d

\* An exchange twice is none, and keeps what a cohort holds of a chain.
LEMMA TwinsTwice ==
  ASSUME NEW e \in Exchanges, NEW t, Made(t)
  PROVE  /\ Twins(e, Twins(e, t)) = t
         /\ \A c \in Cohorts : /\ Within(Mirror(e, c), Twins(e, t)) = Within(c, t)
                               /\ RefusedIn(Mirror(e, c), Twins(e, t)) = RefusedIn(c, t)
<1> DEFINE u == Twins(e, t)
<1>1. /\ Len(t) \in Nat /\ DOMAIN t = 1..Len(t) /\ t = [k \in 1..Len(t) |-> t[k]]
      /\ Len(u) = Len(t) /\ DOMAIN u = 1..Len(t)
      /\ \A k \in 1..Len(t) : u[k] = Twin(e, t[k])
  BY DEF Made, IsChain, Twins
<1>2. Twins(e, u) = [k \in 1..Len(t) |-> Twin(e, u[k])]
  BY <1>1 DEF Twins
<1> HIDE DEF u
<1>3. ASSUME NEW k \in 1..Len(t) PROVE Twin(e, u[k]) = t[k]
  <2> DEFINE a == t[k]
  <2>1. a = Try(a.provider, a.bank, a.status) /\ u[k] = Twin(e, a)
    BY <1>1 DEF Made
  <2> HIDE DEF a
  <2>2. Twin(e, Twin(e, a)) = Try(a.provider, a.bank, a.status)
    BY SwapTwice DEF Twin, Try
  <2>3. Twin(e, u[k]) = a
    BY <2>1, <2>2
  <2> QED BY <2>3 DEF a
<1>4. Twins(e, u) = t
  BY <1>1, <1>2, <1>3
<1>5. ASSUME NEW c \in Cohorts, NEW k \in 1..Len(t)
      PROVE  Matches(Mirror(e, c), u[k]) <=> Matches(c, t[k])
  <2>1. Swap(e.p, e.q, Any) = Any /\ Swap(e.a, e.b, Any) = Any
    BY DEF Swap, Exchanges
  <2>2. /\ u[k].provider = Swap(e.p, e.q, t[k].provider) /\ u[k].bank = Swap(e.a, e.b, t[k].bank)
        /\ Mirror(e, c).provider = Swap(e.p, e.q, c.provider)
        /\ Mirror(e, c).bank = Swap(e.a, e.b, c.bank)
    BY <1>1 DEF Twin, Try, Mirror
  <2>3. /\ Mirror(e, c).provider = Any <=> c.provider = Any
        /\ Mirror(e, c).bank = Any <=> c.bank = Any
        /\ Mirror(e, c).provider = u[k].provider <=> c.provider = t[k].provider
        /\ Mirror(e, c).bank = u[k].bank <=> c.bank = t[k].bank
    BY <2>1, <2>2, SwapTwice
  <2> QED BY <2>3 DEF Matches
<1>6. \A k \in 1..Len(t) : u[k].status = t[k].status
  BY <1>1 DEF Twin, Try
<1>7. ASSUME NEW c \in Cohorts
      PROVE  /\ Within(Mirror(e, c), u) = Within(c, t)
             /\ RefusedIn(Mirror(e, c), u) = RefusedIn(c, t)
  <2>1. Within(Mirror(e, c), u) = Within(c, t)
    BY <1>1, <1>5 DEF Within
  <2>2. Within(c, t) \subseteq 1..Len(t)
    BY <1>1 DEF Within
  <2> QED BY <1>6, <2>1, <2>2 DEF RefusedIn
<1> QED BY <1>4, <1>7 DEF u

\* An exchange of the rows of an ordinary window.
TwinRow(e) == [r \in Rows[None] |-> [chain |-> Twins(e, r.chain), n |-> r.n]]

LEMMA TwinRows ==
  ASSUME NEW e \in Exchanges
  PROVE  \A r \in Rows[None] : /\ TwinRow(e)[r] \in Rows[None] /\ TwinRow(e)[TwinRow(e)[r]] = r
                               /\ TwinRow(e)[r].chain = Twins(e, r.chain)
                               /\ TwinRow(e)[r].n = r.n /\ Made(r.chain)
<1> DEFINE T == UNION {Chains(None, Providers, b, Any) : b \in Banks}
           f == TwinRow(e)
<1>1. Rows[None] = {[chain |-> t, n |-> Weight(None, t)] : t \in T}
  BY DEF Rows, Traffic
<1>2. ASSUME NEW t \in T
      PROVE  Made(t) /\ Twins(e, t) \in T /\ Weight(None, Twins(e, t)) = Weight(None, t)
  <2>1. PICK b \in Banks : t \in Chains(None, Providers, b, Any)
    BY <1>2
  <2>2. Swap(e.a, e.b, b) \in Banks
    BY DEF Swap, Exchanges
  <2> QED BY <2>1, <2>2, TwinChains
<1> HIDE DEF T
<1>3. ASSUME NEW r \in Rows[None]
      PROVE  /\ f[r] \in Rows[None] /\ f[f[r]] = r /\ f[r].chain = Twins(e, r.chain)
             /\ f[r].n = r.n /\ Made(r.chain)
  <2>1. PICK t \in T : r = [chain |-> t, n |-> Weight(None, t)]
    BY <1>1
  <2>2. f[r] = [chain |-> Twins(e, t), n |-> Weight(None, t)]
    BY <2>1 DEF TwinRow
  <2>3. f[r] \in Rows[None]
    BY <1>1, <1>2, <2>2
  <2>4. f[f[r]] = [chain |-> Twins(e, f[r].chain), n |-> f[r].n]
    BY <2>3 DEF TwinRow
  <2> HIDE DEF f
  <2>5. f[f[r]] = [chain |-> Twins(e, Twins(e, t)), n |-> Weight(None, t)]
    BY <2>2, <2>4
  <2>6. Twins(e, Twins(e, t)) = t
    BY <1>2, TwinsTwice
  <2>7. f[f[r]] = r
    BY <2>1, <2>5, <2>6
  <2>8. f[r].chain = Twins(e, r.chain) /\ f[r].n = r.n /\ Made(r.chain)
    BY <1>2, <2>1, <2>2
  <2> QED BY <2>3, <2>7, <2>8
<1> QED BY <1>3

\* A cohort and its mirror image measure the same.
LEMMA TwinCohorts ==
  ASSUME NEW e \in Exchanges, NEW c \in Cohorts, Mirror(e, c) \in Cohorts
  PROVE  /\ Seen[None][Mirror(e, c)].payments = Seen[None][c].payments
         /\ Seen[None][Mirror(e, c)].approved = Seen[None][c].approved
<1> DEFINE d == Mirror(e, c)
           f == TwinRow(e)
           I(x) == Inside(None, x)
           paid(x) == [r \in I(x) |-> r.n]
           won(x) == [r \in I(x) |-> IF RefusedIn(x, r.chain) = Within(x, r.chain) THEN 0 ELSE r.n]
<1>1. \A x \in Cohorts : /\ Seen[None][x].payments = SumFunctionOnSet(paid(x), I(x))
                         /\ Seen[None][x].approved = SumFunctionOnSet(won(x), I(x))
  BY DEF Seen, Measure, SumFunction, Inside, RefusedIn
<1>2. IsFiniteSet(I(c)) /\ \A x : I(x) \subseteq Rows[None]
  BY InsideIs DEF Inside
<1>3. \A r \in Rows[None] :
        /\ f[r] \in Rows[None] /\ f[f[r]] = r /\ f[r].n = r.n /\ r.n \in Nat
        /\ Within(d, f[r].chain) = Within(c, r.chain)
        /\ RefusedIn(d, f[r].chain) = RefusedIn(c, r.chain)
  BY TwinRows, TwinsTwice, RowsAre
<1>4. \A r \in Rows[None] : f[r] \in I(d) <=> r \in I(c)
  BY <1>3 DEF Inside
<1>5. \A r \in I(c) : paid(c)[r] = r.n /\ won(c)[r] = IF RefusedIn(c, r.chain) = Within(c, r.chain) THEN 0 ELSE r.n
  OBVIOUS
<1>6. \A r \in I(d) : paid(d)[r] = r.n /\ won(d)[r] = IF RefusedIn(d, r.chain) = Within(d, r.chain) THEN 0 ELSE r.n
  OBVIOUS
<1> HIDE DEF d, f, I, paid, won
<1>7. {f[r] : r \in I(c)} = I(d)
  BY <1>2, <1>3, <1>4
<1>8. \A r, x \in I(c) : f[r] = f[x] => r = x
  BY <1>2, <1>3
<1>9. \A r \in I(c) : /\ paid(c)[r] = paid(d)[f[r]] /\ paid(c)[r] \in Int
                      /\ won(c)[r] = won(d)[f[r]] /\ won(c)[r] \in Int
  <2> SUFFICES ASSUME NEW r \in I(c)
               PROVE  /\ paid(c)[r] = paid(d)[f[r]] /\ paid(c)[r] \in Int
                      /\ won(c)[r] = won(d)[f[r]] /\ won(c)[r] \in Int
    OBVIOUS
  <2>1. r \in Rows[None] /\ f[r] \in I(d)
    BY <1>2, <1>4
  <2>2. r.n \in Nat /\ f[r].n = r.n
    BY <1>3, <2>1
  <2>3. paid(c)[r] = r.n /\ paid(d)[f[r]] = r.n
    BY <1>5, <1>6, <2>1, <2>2
  <2>4. won(c)[r] = won(d)[f[r]] /\ (won(c)[r] = 0 \/ won(c)[r] = r.n)
    BY <1>3, <1>5, <1>6, <2>1, <2>2
  <2> QED BY <2>2, <2>3, <2>4
<1>10. /\ SumFunctionOnSet(paid(d), I(d)) = SumFunctionOnSet(paid(c), I(c))
       /\ SumFunctionOnSet(won(d), I(d)) = SumFunctionOnSet(won(c), I(c))
  <2> DEFINE pc == paid(c)
             pd == paid(d)
             wc == won(c)
             wd == won(d)
  <2>1. \A r \in I(c) : /\ pc[r] = pd[f[r]] /\ pc[r] \in Int
                        /\ wc[r] = wd[f[r]] /\ wc[r] \in Int
    BY <1>9
  <2> HIDE DEF pc, pd, wc, wd
  <2>2. SumFunctionOnSet(pd, {f[r] : r \in I(c)}) = SumFunctionOnSet(pc, I(c))
    BY <1>2, <1>8, <2>1, SumRenamed
  <2>3. SumFunctionOnSet(wd, {f[r] : r \in I(c)}) = SumFunctionOnSet(wc, I(c))
    BY <1>2, <1>8, <2>1, SumRenamed
  <2> QED BY <1>7, <2>2, <2>3, Zenon DEF pc, pd, wc, wd
<1> QED BY <1>1, <1>10 DEF d

\* No sibling of a cohort converts better or worse than it does in an ordinary window.
LEMMA SiblingsAlike ==
  ASSUME NEW c \in Cohorts, NEW s \in SiblingsOf(None, c)
  PROVE  Conversion(None, s) = Conversion(None, c)
<1>1. s \in Cohorts
  BY DEF SiblingsOf
<1>2. PICK b : b \in Banks
  OBVIOUS
<1>3. PICK p : p \in Providers
  OBVIOUS
<1>4. CASE c.provider # Any /\ s.provider \in Providers \ {c.provider} /\ s.bank = c.bank
  <2> DEFINE e == [p |-> c.provider, q |-> s.provider, a |-> b, b |-> b]
  <2>1. e \in Exchanges
    BY <1>2, <1>4 DEF Exchanges, Cohorts
  <2>2. Mirror(e, c) = s
    BY <1>1, <1>4 DEF Mirror, Swap, Cohorts
  <2> HIDE DEF e
  <2> QED BY <1>1, <2>1, <2>2, TwinCohorts DEF Conversion
<1>5. CASE c.bank # Any /\ s.bank \in Banks \ {c.bank} /\ s.provider = c.provider
  <2> DEFINE e == [p |-> p, q |-> p, a |-> c.bank, b |-> s.bank]
  <2>1. e \in Exchanges
    BY <1>3, <1>5 DEF Exchanges, Cohorts
  <2>2. Mirror(e, c) = s
    BY <1>1, <1>5 DEF Mirror, Swap, Cohorts
  <2> HIDE DEF e
  <2> QED BY <1>1, <2>1, <2>2, TwinCohorts DEF Conversion
<1> QED BY <1>4, <1>5 DEF SiblingsOf

\* A number if it is known at all.
LEMMA ConversionIs ==
  ASSUME NEW c \in Cohorts PROVE Conversion(None, c) \in Int \cup {Absent}
<1> DEFINE I == Inside(None, c)
           won == [r \in I |-> IF RefusedIn(c, r.chain) = Within(c, r.chain) THEN 0 ELSE r.n]
<1>1. Seen[None][c].approved = SumFunctionOnSet(won, I)
  BY DEF Seen, Measure, SumFunction, Inside, RefusedIn
<1>2. IsFiniteSet(I) /\ \A r \in I : r.n \in Nat
  BY InsideIs
<1> HIDE DEF I
<1>3. \A r \in I, y \in Nat : won[r] + y \in Nat
  <2>1. \A r \in I : won[r] = 0 \/ won[r] = r.n
    OBVIOUS
  <2>2. \A x, y \in Nat : x + y \in Nat
    OBVIOUS
  <2> HIDE DEF won
  <2> QED BY <1>2, <2>1, <2>2
<1> HIDE DEF won
<1>4. SumFunctionOnSet(won, I) \in Nat
  BY <1>2, <1>3, SumIn
<1> QED BY <1>1, <1>4, SeenIs, PerMilleIs DEF Conversion

\* So none of them stands out.
LEMMA NoneStandsOut ==
  ASSUME NEW c \in Cohorts, Known(CohortCompare(None, c).target), CohortCompare(None, c).siblings # {}
  PROVE  \E s \in CohortCompare(None, c).siblings : ~(CohortCompare(None, c).target < s - 50)
<1>1. /\ CohortCompare(None, c).target = Conversion(None, c)
      /\ CohortCompare(None, c).siblings = {Conversion(None, s) : s \in SiblingsOf(None, c)}
  BY DEF CohortCompare, NoFields
<1>2. PICK s \in SiblingsOf(None, c) : TRUE
  BY <1>1
<1>3. Conversion(None, s) = Conversion(None, c)
  BY SiblingsAlike
<1>4. Conversion(None, c) \in Int
  BY <1>1, ConversionIs DEF Known
<1>5. \A x \in Int : ~(x < x - 50)
  OBVIOUS
<1>6. ~(Conversion(None, c) < Conversion(None, c) - 50)
  BY <1>4, <1>5
<1>7. Conversion(None, c) \in CohortCompare(None, c).siblings
  BY <1>1, <1>3
<1> QED BY <1>1, <1>6, <1>7

\* Of no payments, none make any attempt.
LEMMA NoPayments ==
  ASSUME NEW t, IsChain(t), Volume \div Cardinality(Choices(None)) = 0
  PROVE  Weight(None, t) = 0
<1>1. PICK R : /\ Reaches(None, R, t, Volume, None)
               /\ Weight(None, t) = Ending(None, Len(t), t[Len(t)], R[Len(t)])
  BY WeightSteps DEF IsChain
<1>2. \A a : OfStatus(None, a, 0) = 0 /\ Retried(None, a, 0) = 0
  BY DEF OfStatus, Retried, RefusalRate, BaselineDecline, RetryProbability, Affected
<1>3. Len(t) \in Nat \ {0} /\ DOMAIN t = 1..Len(t)
  BY DEF IsChain
<1> DEFINE Ok == {n \in Nat : n + 1 \in 1..Len(t) => R[n + 1] = 0}
<1>4. 0 \in Ok
  <2>1. R[1] = OfStatus(None, t[1], Volume \div Cardinality(Choices(None)))
    BY <1>1, <1>3, ChoicesAre DEF Reaches
  <2> QED BY <1>2, <2>1
<1>5. ASSUME NEW n \in Nat, n \in Ok PROVE n + 1 \in Ok
  <2> SUFFICES ASSUME n + 1 + 1 \in 1..Len(t) PROVE R[n + 1 + 1] = 0
    OBVIOUS
  <2> DEFINE k == n + 1 + 1
  <2>1. k \in 1..Len(t) /\ k - 1 \in 1..Len(t) /\ k # 1 /\ R[k - 1] = 0
    <3>1. n + 1 \in 1..Len(t) /\ k - 1 = n + 1
      BY <1>3
    <3> QED BY <1>5, <3>1
  <2> HIDE DEF k
  <2>2. R[k] = OfStatus(None, t[k], Retried(None, t[k - 1], R[k - 1])
                                      \div Cardinality(Choices(t[k - 1].provider)))
    BY <1>1, <1>3, <2>1, ChoicesAre DEF Reaches
  <2>3. \A q \in Nat \ {0} : 0 \div q = 0
    OBVIOUS
  <2>4. R[k] = 0
    BY <1>2, <2>1, <2>2, <2>3, ChoicesAre
  <2> QED BY <2>4 DEF k
<1>6. R[Len(t)] = 0
  <2>1. Nat \subseteq Ok
    <3> HIDE DEF Ok
    <3> QED BY <1>4, <1>5, Induct
  <2>2. Len(t) - 1 \in Nat /\ Len(t) - 1 + 1 = Len(t) /\ Len(t) \in 1..Len(t)
    BY <1>3
  <2> QED BY <2>1, <2>2
<1> QED BY <1>1, <1>2, <1>6 DEF Ending

\* Any first attempt approves some payments, if there are any.
LEMMA SomeApproved ==
  ASSUME NEW p \in Providers, NEW b \in Banks, Volume \div Cardinality(Choices(None)) # 0
  PROVE  [provider |-> p, bank |-> b] \in Pairs(None)
<1> DEFINE n == Volume \div Cardinality(Choices(None))
           a == Try(p, b, "approved")
           x == OfStatus(None, Try(p, b, "refused"), n)
           row == [chain |-> <<a>>, n |-> Weight(None, <<a>>)]
<1>1. n \in Nat \ {0}
  <2>1. \A q \in Nat \ {0} : Volume \div q \in Nat
    OBVIOUS
  <2> QED BY <2>1, ChoicesAre
<1>2. p \in Choices(None)
  BY DEF Choices, Candidates
<1>3. PICK F : IsTree(F, None, b) /\ Chains(None, Providers, b, Any) = F[1][None]
  BY ChainTree
<1>4. <<a>> \in Chains(None, Providers, b, Any)
  <2>1. 1 \in 1..MaxAttempts /\ None \in Previous(None)
    BY ChainAssumption DEF Previous
  <2>2. F[1][None] = UNION {Branch(F, 1, b, r) : r \in Choices(None)}
    BY <1>3, <2>1, OrdinaryBranches
  <2>3. <<a>> \in Branch(F, 1, b, p)
    BY DEF Branch
  <2> QED BY <1>2, <1>3, <2>2, <2>3
<1>5. Weight(None, <<a>>) > 0
  <2>1. a.status = "approved" /\ IsChain(<<a>>)
    BY CountedSingle DEF Try
  <2>2. Ending(None, 1, a, OfStatus(None, a, n)) = OfStatus(None, a, n)
    BY <2>1 DEF Ending
  <2>3. Carries(1, Volume, None, <<a>>, OfStatus(None, a, n))
    <3>1. Carries(1, Volume, None, <<a>>, Ending(None, 1, a, OfStatus(None, a, n)))
      BY CarriesSingle
    <3> QED BY <2>2, <3>1
  <2>4. Weight(None, <<a>>) = OfStatus(None, a, n)
    BY <2>1, <2>3, WeightCarried
  <2> HIDE DEF n
  <2>5. x \in Nat /\ 100 * x <= 12 * n /\ OfStatus(None, a, n) = n - x
    BY <1>1, RefusalsAre
  <2> HIDE DEF x, a
  <2>6. n - x > 0
    BY <1>1, <2>5
  <2> QED BY <2>4, <2>5, <2>6
<1>6. row \in Rows[None]
  BY <1>4 DEF Rows, Traffic
<1>7. [provider |-> a.provider, bank |-> a.bank] \in Pairs(None)
  <2>1. row.n > 0 /\ row.chain = <<a>>
    BY <1>5
  <2> HIDE DEF row, a
  <2>2. a \in Range(row.chain)
    <3>1. 1 \in DOMAIN <<a>> /\ <<a>>[1] = a
      OBVIOUS
    <3> QED BY <2>1, <3>1 DEF Range
  <2> QED BY <1>6, <2>1, <2>2 DEF Pairs
<1> QED BY <1>7 DEF Try

LEMMA TwoOf ==
  ASSUME NEW S, IsFiniteSet(S), Cardinality(S) > 1 PROVE \E x, y \in S : x # y
<1>1. S # {}
  BY FS_EmptySet
<1>2. PICK x \in S : TRUE
  BY <1>1
<1>3. S # {x}
  <2>1. Cardinality({x}) = 1
    BY FS_Singleton
  <2>2. ~(1 > 1)
    OBVIOUS
  <2> QED BY <2>1, <2>2
<1> QED BY <1>2, <1>3

\* Ordinary traffic pairs every provider with every bank.
LEMMA NotInseparable == Comparable => ~ConfoundingCheck(None).inseparable
<1> SUFFICES ASSUME Comparable, Inseparable(Pairs(None)) PROVE FALSE
  BY DEF ConfoundingCheck, NoFields
<1>1. CASE Volume \div Cardinality(Choices(None)) = 0
  <2>1. ASSUME NEW r \in Rows[None] PROVE r.n = 0
    <3>1. r.n = Weight(None, r.chain)
      BY DEF Rows, Traffic
    <3>2. IsChain(r.chain)
      BY RowsFlow DEF Balanced
    <3> QED BY <1>1, <3>1, <3>2, NoPayments
  <2>2. Pairs(None) = {}
    BY <2>1 DEF Pairs
  <2> QED BY <2>2 DEF Inseparable
<1>2. CASE Volume \div Cardinality(Choices(None)) # 0
  <2>1. \A p \in Providers, b \in Banks : [provider |-> p, bank |-> b] \in Pairs(None)
    BY <1>2, SomeApproved
  <2>2. PICK p \in Providers : TRUE
    OBVIOUS
  <2>3. PICK b \in Banks : TRUE
    OBVIOUS
  <2>4. CASE Cardinality(Providers) > 1
    <3>1. PICK q, r \in Providers : q # r
      BY <2>4, TwoOf
    <3> DEFINE x == [provider |-> q, bank |-> b]
               y == [provider |-> r, bank |-> b]
    <3>2. x \in Pairs(None) /\ y \in Pairs(None) /\ x.provider # y.provider /\ x.bank = y.bank
      BY <2>1, <3>1
    <3> HIDE DEF x, y
    <3> QED BY <3>2 DEF Inseparable
  <2>5. CASE Cardinality(Banks) > 1
    <3>1. PICK d, e \in Banks : d # e
      BY <2>5, TwoOf
    <3> DEFINE x == [provider |-> p, bank |-> d]
               y == [provider |-> p, bank |-> e]
    <3>2. x \in Pairs(None) /\ y \in Pairs(None) /\ x.provider = y.provider /\ x.bank # y.bank
      BY <2>1, <3>1
    <3> HIDE DEF x, y
    <3> QED BY <3>2 DEF Inseparable
  <2> QED BY <2>4, <2>5 DEF Comparable
<1> QED BY <1>1, <1>2

\* What the pre-filter makes of an opening over ordinary traffic.
Calm(s) ==
  /\ ~Atleast(s.timeouts, 100) /\ ~s.timeout_up /\ ~s.issuer_up
  /\ ~Atleast(s.error, 50) /\ s.health # "degraded" /\ s.runtime \in {heard, "unknown"}
  /\ ~s.retrying /\ ~s.growing /\ ~s.isolated /\ ~s.inseparable

\* What an answered tool told.
LEMMA AnsweredResponse ==
  ASSUME Typed, Opened, NEW t \in OpeningTools, trail[OpeningQuery(t)]
  PROVE  /\ t # "operational_metrics" => Bundle[t] = Fields(t, incident, cohort)
         /\ t = "operational_metrics" => Bundle[t] = OperationalMetrics(incident, cohort, heard)
<1> DEFINE r == Responses[incident][t][cohort]
<1>1. incident \in Incidents /\ cohort \in Reported
  BY DEF Typed, TypeOK
<1>2. r = Fields(t, incident, cohort)
  BY <1>1 DEF Responses
<1>3. /\ OpeningQuery(t).tool = t /\ OpeningQuery(t).cohort = cohort
      /\ OpeningQuery(t).window = "during" /\ Bundle[t] = Response(OpeningQuery(t))
  BY DEF OpeningQuery, Bundle
<1> HIDE DEF r
<1>4. \/ t # "operational_metrics" /\ Bundle[t] = r
      \/ t = "operational_metrics" /\ Bundle[t] = [r EXCEPT !.runtime = heard]
  BY <1>3 DEF Response, r
<1>5. t = "operational_metrics" =>
        [r EXCEPT !.runtime = heard] = OperationalMetrics(incident, cohort, heard)
  <2> SUFFICES ASSUME t = "operational_metrics"
               PROVE  [r EXCEPT !.runtime = heard] = OperationalMetrics(incident, cohort, heard)
    OBVIOUS
  <2>1. r = OperationalMetrics(incident, cohort, "unobserved")
    BY <1>2 DEF Fields
  <2> QED BY <2>1 DEF OperationalMetrics, NoFields
<1> QED BY <1>2, <1>4, <1>5

\* A tool of the opening told its fields, or failed and told none.
LEMMA OpeningResponse ==
  ASSUME Typed, Opened, NEW t \in OpeningTools
  PROVE  /\ t # "operational_metrics" =>
              Bundle[t] = NoFields \/ Bundle[t] = Fields(t, incident, cohort)
         /\ t = "operational_metrics" =>
              \/ Bundle[t] = NoFields
              \/ Bundle[t] = OperationalMetrics(incident, cohort, heard)
         /\ incident \in Incidents /\ cohort \in Cohorts
<1>1. incident \in Incidents /\ cohort \in Cohorts
  BY DEF Typed, TypeOK
<1>2. CASE trail[OpeningQuery(t)]
  BY <1>1, <1>2, AnsweredResponse
<1>3. CASE ~trail[OpeningQuery(t)]
  <2>1. Bundle[t] = NoFields
    BY <1>3 DEF Bundle, Response
  <2> QED BY <1>1, <2>1
<1> QED BY <1>2, <1>3

\* An opening over ordinary traffic is calm, whichever of its tools fail.
LEMMA OrdinaryIsCalm ==
  ASSUME Typed, Opened, incident = None, Comparable
  PROVE  Calm(Signature(Bundle))
<1> DEFINE o == Bundle
           s == Signature(o)
           op == o["operational_metrics"]
           cmp == o["cohort_compare"]
           mix == o["decline_breakdown"].shift
           retry == o["retry_stats"]
           confounding == o["confounding_check"]
<1>1. /\ op = NoFields \/ op = OperationalMetrics(None, cohort, heard)
      /\ cmp = NoFields \/ cmp = CohortCompare(None, cohort)
      /\ mix = NoFields.shift \/ mix = DeclineBreakdown(None, cohort).shift
      /\ retry = NoFields \/ retry = RetryStats(None, cohort)
      /\ confounding = NoFields \/ confounding = ConfoundingCheck(None)
      /\ cohort \in Cohorts
  <2>1. /\ op = NoFields \/ op = OperationalMetrics(None, cohort, heard)
        /\ cohort \in Cohorts
    BY OpeningResponse DEF OpeningTools
  <2>2. \A t \in OpeningTools \ {"operational_metrics"} :
          o[t] = NoFields \/ o[t] = Fields(t, None, cohort)
    BY OpeningResponse
  <2> HIDE DEF o
  <2> QED BY <2>1, <2>2 DEF OpeningTools, Fields
<1>2. /\ s.timeouts = op.timeout /\ s.error = op.error /\ s.health = op.health
      /\ s.runtime = op.runtime
      /\ s.timeout_up = Above(mix["timeout"], 100)
      /\ s.issuer_up = Above(mix["issuer_decline"], 100)
      /\ s.retrying = Above(retry.factor, 1100)
      /\ s.growing = (/\ Known(retry.depth_end) /\ Known(retry.depth_start)
                      /\ retry.depth_end > retry.depth_start)
      /\ s.isolated = (/\ Known(cmp.target) /\ cmp.siblings # {}
                       /\ \A x \in cmp.siblings : cmp.target < x - 50)
      /\ s.inseparable = confounding.inseparable
  BY DEF Signature
<1> HIDE DEF o, s, op, cmp, mix, retry, confounding
<1>3. /\ NoFields.timeout = Absent /\ NoFields.error = Absent /\ NoFields.health = "unknown"
      /\ NoFields.runtime = "unknown" /\ NoFields.factor = Absent /\ NoFields.depth_end = Absent
      /\ NoFields.target = Absent /\ ~NoFields.inseparable
      /\ NoFields.shift["timeout"] = Absent /\ NoFields.shift["issuer_decline"] = Absent
  BY DEF NoFields, Reasons
<1>4. /\ ~Atleast(op.timeout, 100) /\ ~Atleast(op.error, 50)
      /\ op.health # "degraded" /\ op.runtime \in {heard, "unknown"}
  <2>1. CASE op = NoFields
    BY <1>3, <2>1 DEF Atleast, Known
  <2>2. CASE op = OperationalMetrics(None, cohort, heard)
    BY <1>1, <2>2, OrdinaryRates
  <2> QED BY <1>1, <2>1, <2>2
<1>5. ~Above(mix["timeout"], 100) /\ ~Above(mix["issuer_decline"], 100)
  <2>1. CASE mix = NoFields.shift
    BY <1>3, <2>1 DEF Above, Known
  <2>2. CASE mix = DeclineBreakdown(None, cohort).shift
    BY <1>1, <2>2, OrdinaryShifts
  <2> QED BY <1>1, <2>1, <2>2
<1>6. ~Above(retry.factor, 1100) /\ ~Known(retry.depth_end)
  <2>1. CASE retry = NoFields
    BY <1>3, <2>1 DEF Above, Known
  <2>2. CASE retry = RetryStats(None, cohort)
    <3>1. RetryStats(None, cohort).depth_end = Absent
      BY DEF RetryStats, NoFields
    <3> QED BY <1>1, <2>2, <3>1, OrdinaryRates DEF Known
  <2> QED BY <1>1, <2>1, <2>2
<1>7. ~s.isolated
  <2>1. CASE cmp = NoFields
    BY <1>2, <1>3, <2>1 DEF Known
  <2>2. CASE cmp = CohortCompare(None, cohort)
    BY <1>1, <1>2, <2>2, NoneStandsOut
  <2> QED BY <1>1, <2>1, <2>2
<1>8. ~s.inseparable
  BY <1>1, <1>2, <1>3, NotInseparable
<1> QED BY <1>2, <1>4, <1>5, <1>6, <1>7, <1>8 DEF Calm, s, o

\* A calm opening lists none of them: at most the latency or the health counts.
LEMMA CalmLists ==
  ASSUME NEW o, Calm(Signature(o)), heard \in Runtimes
  PROVE  /\ {"provider_degradation", "issuer_over_decline", "retry_amplification",
             "deployment_configuration_problem", "queue_buildup"} \cap Seeded(o) = {}
         /\ "application_failure" \in Seeded(o) => heard = "degraded"
<1> DEFINE s == Signature(o)
<1>1. \A h \in Hypotheses : h \in Seeded(o) => Score(h, s) > 20
  BY DEF Seeded, Listed, Fallback, Hypotheses
<1> HIDE DEF s
<1>2. \A p : If(TRUE, p) = p /\ If(FALSE, p) = 0
  BY DEF If
<1>3. ~(Score("provider_degradation", s) > 20)
  <2>1. Score("provider_degradation", s)
          = If(Atleast(s.timeouts, 100), 32) + If(s.timeout_up, 20) + If(s.slow, 18)
            + If(s.health = "degraded", 22) + If(s.isolated, 10) - If(s.issuer_up, 20)
    BY DEF Score
  <2>2. If(s.slow, 18) \in {0, 18}
    BY DEF If
  <2>3. /\ If(Atleast(s.timeouts, 100), 32) = 0 /\ If(s.timeout_up, 20) = 0
        /\ If(s.health = "degraded", 22) = 0 /\ If(s.isolated, 10) = 0 /\ If(s.issuer_up, 20) = 0
    BY DEF If, Calm, s
  <2> QED BY <2>1, <2>2, <2>3
<1>4. ~(Score("issuer_over_decline", s) > 20)
  <2> DEFINE e == Atleast(s.timeouts, 100)
             w == Known(s.timeouts) /\ ~e /\ s.health = "healthy"
  <2>1. Score("issuer_over_decline", s)
          = If(s.issuer_up, 48) + If(s.inseparable, 24) + If(w, 18) - If(e, 22)
            - If(s.health = "degraded", 15)
    BY DEF Score
  <2>2. If(w, 18) \in {0, 18}
    BY DEF If
  <2>3. /\ If(s.issuer_up, 48) = 0 /\ If(s.inseparable, 24) = 0 /\ If(e, 22) = 0
        /\ If(s.health = "degraded", 15) = 0
    BY DEF If, Calm, s
  <2> HIDE DEF e, w
  <2> QED BY <2>1, <2>2, <2>3
<1>5. ~(Score("retry_amplification", s) > 20)
  <2>1. Score("retry_amplification", s)
          = If(s.retrying, 50) + If(s.growing, 30) + If(s.gap_up, 15)
    BY DEF Score
  <2>2. If(s.gap_up, 15) \in {0, 15}
    BY DEF If
  <2>3. If(s.retrying, 50) = 0 /\ If(s.growing, 30) = 0
    BY DEF If, Calm, s
  <2> QED BY <2>1, <2>2, <2>3
<1>6. ~(Score("deployment_configuration_problem", s) > 20)
  BY DEF Score, If
<1>7. ~(Score("queue_buildup", s) > 20)
  <2>1. Score("queue_buildup", s) = If(s.growing, 60) + If(s.retrying, 20)
    BY DEF Score
  <2>2. If(s.growing, 60) = 0 /\ If(s.retrying, 20) = 0
    BY DEF If, Calm, s
  <2> QED BY <2>1, <2>2
<1>8. Score("application_failure", s) > 20 => heard = "degraded"
  <2> DEFINE ill == s.runtime \in {"degraded", "unhealthy"}
  <2> SUFFICES ASSUME ~ill PROVE ~(Score("application_failure", s) > 20)
    BY DEF Calm, s, Runtimes
  <2>1. Score("application_failure", s)
          = If(Atleast(s.error, 50), 50) + If(ill, 35) + If(s.deployment, 12)
            - If(s.health = "degraded", 12)
    BY DEF Score
  <2>2. If(s.deployment, 12) \in {0, 12}
    BY DEF If
  <2>3. If(Atleast(s.error, 50), 50) = 0 /\ If(ill, 35) = 0 /\ If(s.health = "degraded", 12) = 0
    BY DEF If, Calm, s
  <2> HIDE DEF ill
  <2> QED BY <2>1, <2>2, <2>3
<1>9. {"provider_degradation", "issuer_over_decline", "retry_amplification",
       "deployment_configuration_problem", "queue_buildup", "application_failure"} \subseteq Hypotheses
  BY DEF Hypotheses
<1> QED BY <1>1, <1>3, <1>4, <1>5, <1>6, <1>7, <1>8, <1>9

\* Traffic with nothing wrong in it is blamed on no provider, issuer, retry, deployment
\* or queue, and on the application only if its own telemetry is degraded, for any
\* providers, banks, volume, chain length, cohort and failing tools, on every merchant
\* that has a second provider or a second bank to tell them apart by.
THEOREM OrdinaryIsSpared == Comparable => (Spec => []OrdinaryTrafficIsNotBlamed)
<1> SUFFICES ASSUME Comparable PROVE Spec => []OrdinaryTrafficIsNotBlamed
  OBVIOUS
<1>1. Typed /\ Seeds => OrdinaryTrafficIsNotBlamed
  <2> SUFFICES ASSUME Typed, Seeds, incident = None
               PROVE  /\ {"provider_degradation", "issuer_over_decline", "retry_amplification",
                          "deployment_configuration_problem", "queue_buildup"} \cap ledger = {}
                      /\ "application_failure" \in ledger => heard = "degraded"
    BY DEF OrdinaryTrafficIsNotBlamed
  <2>1. CASE Opened
    <3>1. ledger = Seeded(Bundle) /\ heard \in Runtimes
      BY <2>1 DEF Seeds, Typed, TypeOK
    <3>2. Calm(Signature(Bundle))
      BY <2>1, OrdinaryIsCalm
    <3> QED BY <3>1, <3>2, CalmLists
  <2>2. CASE ~Opened
    BY <2>2 DEF Typed, TypeOK
  <2> QED BY <2>1, <2>2
<1> QED BY <1>1, AlwaysTyped, AlwaysSeeds, PTL

(***************************************************************************)
(* A slow provider stays accused by traffic that it is a part of           *)
(***************************************************************************)

\* Of an attempt so many are slow.
LEMMA SlownessIs ==
  ASSUME NEW i \in Incidents \ {None}, SlowsDown(i), NEW a PROVE Slowness(i, a) \in Nat
<1>1. CASE Affected(i, a)
  BY <1>1 DEF Slowness, SlowsDown
<1>2. CASE ~Affected(i, a)
  <2>1. Makeup(i, a) = Ordinary
    BY <1>2 DEF Makeup
  <2>2. Ordinary["timed_out"] + Ordinary["error"] \in Nat
    BY DEF Ordinary, Kinds
  <2> QED BY <1>2, <2>1, <2>2 DEF Slowness
<1> QED BY <1>1, <1>2

\* No part of a sum of naturals is more than the sum.
LEMMA SumOfPartIsLess ==
  ASSUME NEW S, IsFiniteSet(S), NEW T \in SUBSET S, NEW w, \A x \in S : w[x] \in Nat
  PROVE  /\ SumFunctionOnSet(w, T) <= SumFunctionOnSet(w, S)
         /\ SumFunctionOnSet(w, T) \in Nat /\ SumFunctionOnSet(w, S) \in Nat
<1> DEFINE U == S \ T
<1>1. IsFiniteSet(T) /\ IsFiniteSet(U) /\ T \cap U = {} /\ T \cup U = S /\ U \subseteq S
  BY FS_Subset
<1> HIDE DEF U
<1>2. \A x, y \in Nat : x + y \in Nat
  OBVIOUS
<1>3. /\ SumFunctionOnSet(w, T) \in Nat /\ SumFunctionOnSet(w, U) \in Nat
      /\ SumFunctionOnSet(w, S) \in Nat
  <2>1. \A x \in S, y \in Nat : w[x] + y \in Nat
    BY <1>2
  <2>2. /\ \A x \in T, y \in Nat : w[x] + y \in Nat
        /\ \A x \in U, y \in Nat : w[x] + y \in Nat
    BY <1>1, <2>1
  <2> QED BY <1>1, <2>1, <2>2, SumIn
<1>4. SumFunctionOnSet(w, T \cup U) = SumFunctionOnSet(w, T) + SumFunctionOnSet(w, U)
  <2>1. \A x \in T \cup U : w[x] \in Int
    BY <1>1
  <2> QED BY <1>1, <2>1, SumUnion
<1>5. SumFunctionOnSet(w, T \cup U) = SumFunctionOnSet(w, S)
  BY <1>1, Zenon
<1> QED BY <1>3, <1>4, <1>5

\* A cohort has at least as many slow attempts as one that is a part of it.
LEMMA SlowGrows ==
  ASSUME NEW i \in Incidents \ {None}, SlowsDown(i), NEW c \in Cohorts, NEW d \in Cohorts, Matches(c, d)
  PROVE  Seen[i][d].slow \in Nat /\ Seen[i][c].slow \in Nat /\ Seen[i][d].slow <= Seen[i][c].slow
<1> DEFINE I(x) == Inside(i, x)
           parts(x, r) == [k \in Within(x, r.chain) |-> (r.n * Slowness(i, r.chain[k])) \div 1000]
           slow(x) == [r \in I(x) |-> SumFunction(parts(x, r))]
<1>1. \A x \in Cohorts : Seen[i][x].slow = SumFunctionOnSet(slow(x), I(x))
  BY DEF Seen, Measure, SumFunction, Inside
<1>2. \A chain : Within(d, chain) \subseteq Within(c, chain)
  <2>1. d.provider = Any => c.provider = Any
    BY DEF Matches
  <2>2. d.bank = Any => c.bank = Any
    BY DEF Matches
  <2> QED BY <2>1, <2>2 DEF Within, Matches
<1>3. I(d) \subseteq I(c) /\ IsFiniteSet(I(c)) /\ IsFiniteSet(I(d))
  BY <1>2, InsideIs DEF Inside
<1>4. ASSUME NEW r \in I(c)
      PROVE  /\ IsFiniteSet(Within(c, r.chain))
             /\ \A k \in Within(c, r.chain) : parts(c, r)[k] \in Nat
  <2>1. r.n \in Nat /\ IsFiniteSet(Within(c, r.chain))
    BY InsideIs
  <2>2. \A x, y \in Nat : (x * y) \div 1000 \in Nat
    <3>1. \A x, y \in Nat : x * y \in Nat
      OBVIOUS
    <3>2. \A x \in Nat : x \div 1000 \in Nat
      OBVIOUS
    <3> QED BY <3>1, <3>2
  <2>3. \A k : Slowness(i, r.chain[k]) \in Nat
    BY SlownessIs
  <2>4. \A k : (r.n * Slowness(i, r.chain[k])) \div 1000 \in Nat
    BY <2>1, <2>2, <2>3
  <2> QED BY <2>1, <2>4
<1>5. ASSUME NEW r \in I(c)
      PROVE  SumFunction(parts(c, r)) \in Nat
             /\ SumFunction(parts(d, r)) <= SumFunction(parts(c, r))
             /\ SumFunction(parts(d, r)) \in Nat
  <2> DEFINE w == parts(c, r)
             u == parts(d, r)
             W == Within(c, r.chain)
             U == Within(d, r.chain)
  <2>1. /\ SumFunction(w) = SumFunctionOnSet(w, W) /\ SumFunction(u) = SumFunctionOnSet(u, U)
        /\ \A k \in U : u[k] = w[k]
    BY <1>2 DEF SumFunction
  <2>2. IsFiniteSet(W) /\ U \in SUBSET W /\ \A k \in W : w[k] \in Nat
    BY <1>2, <1>4
  <2> HIDE DEF w, u, W, U
  <2>3. /\ SumFunctionOnSet(w, U) <= SumFunctionOnSet(w, W)
        /\ SumFunctionOnSet(w, U) \in Nat /\ SumFunctionOnSet(w, W) \in Nat
    BY <2>2, SumOfPartIsLess
  <2>4. SumFunctionOnSet(u, U) = SumFunctionOnSet(w, U)
    BY <2>1, <2>2, SumSame, FS_Subset
  <2>5. SumFunction(w) \in Nat /\ SumFunction(u) <= SumFunction(w) /\ SumFunction(u) \in Nat
    BY <2>1, <2>3, <2>4
  <2> QED BY <2>5 DEF w, u
<1>6. /\ \A r \in I(c) : slow(c)[r] \in Nat
      /\ \A r \in I(d) : slow(d)[r] \in Int /\ slow(c)[r] \in Int /\ slow(d)[r] <= slow(c)[r]
                         /\ slow(d)[r] \in Nat
  <2> HIDE DEF parts
  <2> QED BY <1>3, <1>5
<1> DEFINE sc == slow(c)
           sd == slow(d)
           C == I(c)
           D == I(d)
<1>7. Seen[i][c].slow = SumFunctionOnSet(sc, C) /\ Seen[i][d].slow = SumFunctionOnSet(sd, D)
  BY <1>1
<1>8. /\ IsFiniteSet(C) /\ IsFiniteSet(D) /\ D \in SUBSET C /\ \A r \in C : sc[r] \in Nat
      /\ \A r \in D : sd[r] \in Int /\ sc[r] \in Int /\ sd[r] <= sc[r] /\ sd[r] \in Nat
  BY <1>3, <1>6
<1> HIDE DEF sc, sd, C, D
<1>9. SumFunctionOnSet(sc, D) <= SumFunctionOnSet(sc, C) /\ SumFunctionOnSet(sc, C) \in Nat
      /\ SumFunctionOnSet(sc, D) \in Nat
  BY <1>8, SumOfPartIsLess
<1>10. SumFunctionOnSet(sd, D) <= SumFunctionOnSet(sc, D)
  BY <1>8, SumOrdered
<1>11. SumFunctionOnSet(sd, D) \in Nat
  BY <1>8, SumOfPartIsLess
<1> QED BY <1>7, <1>9, <1>10, <1>11

\* Where more than a twentieth of the attempts are a slow provider's, the tail is slow.
LEMMA TailIsTheProviders ==
  ASSUME SlowTrafficIsHeard, NEW i \in Incidents \ {None}, i.slow \/ i.effect = "latency",
         NEW c \in Reported, c.provider \in {Any, i.provider}, Seen[i][c].attempts # 0
  PROVE  PercentileIsSlow(Seen[i][c], 950)
<1> DEFINE d == Touched(i, c)
           m == Seen[i][c]
           t == Seen[i][d]
<1>1. /\ SlowsDown(i) /\ d \in Cohorts /\ Matches(c, d) /\ m.attempts + 29 <= 20 * t.attempts
      /\ c \in Cohorts
  BY DEF SlowTrafficIsHeard
<1>2. Matches(i, d)
  BY DEF Matches, Touched
<1> HIDE DEF d
<1>3. t.slow = t.attempts /\ t.attempts \in Nat /\ m.attempts \in Nat
  BY <1>1, <1>2, SeenIs, ScopeIsSlow
<1>4. t.slow <= m.slow /\ m.slow \in Nat
  BY <1>1, SlowGrows
<1> HIDE DEF m, t
<1>5. m.attempts # 0 /\ m.attempts + 29 <= 20 * m.slow
  BY <1>1, <1>3, <1>4 DEF m
<1>6. PercentileIsSlow(m, 950)
  BY <1>3, <1>4, <1>5, SlowTail
<1> QED BY <1>6 DEF m

\* No observation of its own window rules out a provider that is slow, of any cohort that
\* holds it, if more than a twentieth of the cohort's attempts are the incident's: the
\* nearest rank of the 95th percentile is then a slow one, whichever way it is rounded
\* and whatever the rest of the traffic is.
THEOREM SlowIsHeard == SlowTrafficIsHeard => (Spec => []SlowProviderStaysAccused)
<1> SUFFICES ASSUME SlowTrafficIsHeard PROVE Spec => []SlowProviderStaysAccused
  OBVIOUS
<1>1. Typed => SlowProviderStaysAccused
  <2> SUFFICES ASSUME Typed, incident # None, incident.slow \/ incident.effect = "latency",
                      NEW q \in DOMAIN trail,
                      Contradicts("provider_degradation", q.tool, Response(q)),
                      q.window # "before", q.cohort.provider \in {Any, incident.provider}
               PROVE  FALSE
    BY DEF SlowProviderStaysAccused
  <2> DEFINE c == q.cohort
             m == Seen[incident][c]
             r == OperationalMetrics(incident, c, "unobserved")
  <2>1. /\ q.tool = "operational_metrics"
        /\ Response(q).health = "healthy" /\ ~Response(q).slow95
    BY DEF Contradicts
  <2>2. incident \in Incidents /\ c \in Reported /\ c \in Cohorts /\ q.window = "during"
    BY DEF Typed, TypeOK, Queries, OpeningQuery, DiagnosisAssumption
  <2>3. Responses[incident]["operational_metrics"][c] = r
    BY <2>2 DEF Responses, Fields, OpeningTools
  <2>4. Response(q) = NoFields \/ Response(q) = [r EXCEPT !.runtime = heard]
    BY <2>1, <2>2, <2>3 DEF Response
  <2>5. Response(q).health = r.health /\ Response(q).slow95 = r.slow95
    <3>1. NoFields.health # "healthy"
      BY DEF NoFields
    <3> QED BY <2>1, <2>4, <3>1 DEF OperationalMetrics, NoFields
  <2>6. r.health = "healthy" => Operational(m).failing # Absent
    BY DEF OperationalMetrics, NoFields
  <2>7. r.slow95 = PercentileIsSlow(m, 950)
    BY DEF OperationalMetrics, Operational, NoFields
  <2> HIDE DEF r
  <2>8. m.attempts # 0
    BY <2>1, <2>5, <2>6 DEF Operational, PerMille
  <2>9. PercentileIsSlow(m, 950)
    BY <2>2, <2>8, TailIsTheProviders
  <2> QED BY <2>1, <2>5, <2>7, <2>9
<1> QED BY <1>1, AlwaysTyped, PTL

(***************************************************************************)
(* The culprit is listed whichever tool fails                              *)
(***************************************************************************)

\* Of the opening's queries, one at most is unanswered.
OneFails ==
  Opened => \A t, u \in OpeningTools : ~trail[OpeningQuery(t)] /\ ~trail[OpeningQuery(u)] => t = u

LEMMA AlwaysOneFails == MaxFailures <= 1 => (Spec => []OneFails)
<1> SUFFICES ASSUME MaxFailures <= 1 PROVE Spec => []OneFails
  OBVIOUS
<1>1. Init => OneFails
  BY DEF Init, OneFails, Opened
<1>2. Seeds /\ OneFails /\ [Next]_vars => OneFails'
  <2> SUFFICES ASSUME Seeds, OneFails, [Next]_vars PROVE OneFails'
    OBVIOUS
  <2>1. ASSUME Open PROVE OneFails'
    <3>1. PICK failing \in SUBSET OpeningTools :
            /\ Cardinality(failing) <= MaxFailures
            /\ trail' = [q \in OpeningQueries |-> q.tool \notin failing]
      BY <2>1 DEF Open, OpeningQueries
    <3>2. UNCHANGED cohort
      BY <2>1 DEF Open
    <3>3. ASSUME NEW t \in OpeningTools PROVE trail'[OpeningQuery(t)'] <=> t \notin failing
      BY <3>1, <3>2 DEF OpeningQueries, OpeningQuery
    <3>4. \A t, u \in failing : t = u
      <4> SUFFICES ASSUME NEW t \in failing, NEW u \in failing, t # u PROVE FALSE
        OBVIOUS
      <4>1. IsFiniteSet(OpeningTools)
        <5> DEFINE A == {"cohort_metrics", "cohort_compare"}
                   B == {"decline_breakdown", "retry_stats"}
                   C == {"operational_metrics", "confounding_check"}
        <5>1. IsFiniteSet(A) /\ IsFiniteSet(B) /\ IsFiniteSet(C)
          BY PairIsFinite
        <5>2. OpeningTools = A \cup (B \cup C)
          BY DEF OpeningTools
        <5> HIDE DEF A, B, C
        <5>3. IsFiniteSet(A \cup (B \cup C))
          BY <5>1, FS_Union
        <5> QED BY <5>2, <5>3
      <4>2. IsFiniteSet(failing) /\ Cardinality(failing) \in Nat
        BY <4>1, FS_Subset, FS_CardinalityType
      <4>3. Cardinality(failing \ {t}) = Cardinality(failing) - 1 /\ IsFiniteSet(failing \ {t})
        BY <4>2, FS_RemoveElement
      <4>4. Cardinality(failing \ {t}) # 0
        BY <4>3, FS_EmptySet
      <4> QED BY <3>1, <4>2, <4>3, <4>4, FS_CardinalityType
    <3> QED BY <3>3, <3>4 DEF OneFails
  <2>2. ASSUME Opened, UNCHANGED cohort,
               \A k \in DOMAIN trail : trail'[k] = trail[k]
        PROVE  OneFails'
    <3>1. \A t \in OpeningTools : OpeningQuery(t)' = OpeningQuery(t) /\ OpeningQuery(t) \in DOMAIN trail
      BY <2>2 DEF OpeningQuery, Seeds
    <3> QED BY <2>2, <3>1 DEF OneFails
  <2>3. ASSUME NEW q \in Queries, Query(q) PROVE OneFails'
    <3>1. Opened /\ UNCHANGED cohort /\ q \notin DOMAIN trail
      BY <2>3 DEF Query
    <3>2. \A k \in DOMAIN trail : trail'[k] = trail[k]
      BY <2>3, <3>1 DEF Query
    <3> QED BY <2>2, <3>1, <3>2
  <2>4. ASSUME UNCHANGED <<cohort, trail>> PROVE OneFails'
    <3>1. CASE Opened
      BY <2>2, <2>4, <3>1
    <3>2. CASE ~Opened
      BY <2>4, <3>2 DEF Opened, OneFails
    <3> QED BY <3>1, <3>2
  <2>5. CASE Accept \/ Degrade \/ UNCHANGED vars
    BY <2>4, <2>5 DEF Accept, Degrade, vars
  <2> QED BY <2>1, <2>3, <2>5 DEF Next
<1> QED BY <1>1, <1>2, AlwaysSeeds, PTL DEF Spec

\* No source spells issuer_decline, so its share never shifts.
LEMMA IssuerNeverShifts ==
  ASSUME NEW i, NEW c
  PROVE  ~Above(DeclineBreakdown(i, c).shift["issuer_decline"], 100)
<1>1. \A m : Failures(m, "issuer_decline") = 0
  <2>1. {k \in Kinds : ReasonOf(k) = "issuer_decline"} = {}
    BY DEF ReasonOf
  <2> QED BY <2>1, SumOfNone, Zenon DEF Failures
<1>2. DeclineBreakdown(i, c).shift["issuer_decline"] = Absent
  BY <1>1 DEF DeclineBreakdown, NoFields, Reasons
<1> QED BY <1>2 DEF Above, Known

\* A cohort that converts at all is attempted.
LEMMA ConvertingIsAttempted ==
  ASSUME NEW i \in Incidents, NEW c \in Cohorts, Known(Conversion(i, c))
  PROVE  Seen[i][c].attempts > 0
<1> DEFINE I == Inside(i, c)
           paid == [r \in I |-> r.n]
           tried == [r \in I |-> r.n * Cardinality(Within(c, r.chain))]
<1>1. /\ Seen[i][c].payments = SumFunctionOnSet(paid, I)
      /\ Seen[i][c].attempts = SumFunctionOnSet(tried, I)
      /\ Seen[i][c].payments \in Nat /\ Seen[i][c].attempts \in Nat
  BY SeenIs DEF Seen, Measure, SumFunction, Inside
<1>2. Seen[i][c].payments # 0
  BY DEF Conversion, PerMille, Known
<1>3. ASSUME NEW r \in I
      PROVE  r.n \in Nat /\ Cardinality(Within(c, r.chain)) \in Nat \ {0}
  <2>1. Within(c, r.chain) # {} /\ IsFiniteSet(Within(c, r.chain)) /\ r.n \in Nat
    BY InsideIs DEF Inside
  <2> QED BY <2>1, FS_CardinalityType, FS_EmptySet
<1>4. IsFiniteSet(I)
  BY InsideIs
<1> HIDE DEF I
<1>5. \A r \in I : paid[r] \in Int /\ tried[r] \in Int /\ paid[r] <= tried[r]
  <2>1. \A x \in Nat, y \in Nat \ {0} : x <= x * y /\ x * y \in Int /\ x \in Int
    <3>1. \A x \in Nat, y \in Nat : x * (y + 1) = x * y + x /\ x * y \in Nat
      OBVIOUS
    <3>2. \A y \in Nat \ {0} : y - 1 \in Nat /\ y - 1 + 1 = y
      OBVIOUS
    <3>3. \A x \in Nat, y \in Nat \ {0} : x * y = x * (y - 1) + x /\ x * (y - 1) \in Nat
      BY <3>1, <3>2
    <3> QED BY <3>3
  <2> QED BY <1>3, <2>1
<1> HIDE DEF paid, tried
<1>6. SumFunctionOnSet(paid, I) <= SumFunctionOnSet(tried, I)
  BY <1>4, <1>5, SumOrdered
<1> QED BY <1>1, <1>2, <1>6

\* A provider that times out is a hypothesis whichever one tool of the opening fails, if
\* each of the signs is there on its own: with one of the three tools that show them
\* missing, the other two score more than the threshold, and nothing counts against it.
THEOREM TheCulpritIsListed ==
  CulpritsStandOut /\ MaxFailures <= 1 => (Spec => []CulpritIsListed)
<1> SUFFICES ASSUME CulpritsStandOut, MaxFailures <= 1 PROVE Spec => []CulpritIsListed
  OBVIOUS
<1>1. Typed /\ Seeds /\ OneFails => CulpritIsListed
  <2> SUFFICES ASSUME Typed, Seeds, OneFails, Opened, incident # None,
                      IsScopeOf(cohort, incident),
                      incident.slow, incident.reason = "provider_timeout"
               PROVE  "provider_degradation" \in ledger
    BY DEF CulpritIsListed
  <2> DEFINE o == Bundle
             s == Signature(o)
             i == incident
             c == cohort
             op == o["operational_metrics"]
             cmp == o["cohort_compare"]
             mix == o["decline_breakdown"].shift
             Answered(t) == trail[OpeningQuery(t)]
  <2>1. i \in Incidents \ {None} /\ c \in Reported /\ c \in Cohorts
    BY DEF Typed, TypeOK
  <2>2. /\ SlowsDown(i) /\ Above(DeclineBreakdown(i, c).shift["timeout"], 100)
        /\ Known(Conversion(i, c)) /\ SiblingsOf(i, c) # {}
        /\ \A x \in SiblingsOf(i, c) : Conversion(i, c) < Conversion(i, x) - 50
    BY <2>1 DEF CulpritsStandOut
  <2>3. \/ Answered("decline_breakdown") /\ Answered("operational_metrics")
        \/ Answered("decline_breakdown") /\ Answered("cohort_compare")
        \/ Answered("operational_metrics") /\ Answered("cohort_compare")
    BY DEF OneFails, OpeningTools
  <2>4. /\ s.timeout_up = Above(mix["timeout"], 100)
        /\ s.issuer_up = Above(mix["issuer_decline"], 100)
        /\ s.slow = (op.slow95 \/ op.slow99)
        /\ s.isolated = (/\ Known(cmp.target) /\ cmp.siblings # {}
                         /\ \A x \in cmp.siblings : cmp.target < x - 50)
    BY DEF Signature
  <2>5. Answered("decline_breakdown") => s.timeout_up
    <3> SUFFICES ASSUME Answered("decline_breakdown") PROVE s.timeout_up
      OBVIOUS
    <3>1. o["decline_breakdown"] = DeclineBreakdown(i, c)
      BY AnsweredResponse DEF OpeningTools, Fields
    <3> QED BY <2>2, <2>4, <3>1
  <2>6. ~s.issuer_up
    <3>1. o["decline_breakdown"] = NoFields \/ o["decline_breakdown"] = DeclineBreakdown(i, c)
      BY OpeningResponse DEF OpeningTools, Fields
    <3>2. NoFields.shift["issuer_decline"] = Absent
      BY DEF NoFields, Reasons
    <3> HIDE DEF o, s
    <3> QED BY <2>4, <3>1, <3>2, IssuerNeverShifts DEF Above, Known
  <2>7. Answered("operational_metrics") => s.slow
    <3> SUFFICES ASSUME Answered("operational_metrics") PROVE s.slow
      OBVIOUS
    <3>1. op = OperationalMetrics(i, c, heard)
      BY AnsweredResponse DEF OpeningTools
    <3>2. op.slow95 = PercentileIsSlow(Seen[i][c], 950)
      BY <3>1 DEF OperationalMetrics, Operational, NoFields
    <3>3. Matches(i, c)
      BY DEF IsScopeOf, Matches
    <3> DEFINE m == Seen[i][c]
    <3>4. m.slow = m.attempts /\ m.attempts > 0 /\ m.attempts \in Nat
      BY <2>1, <2>2, <3>3, ScopeIsSlow, ConvertingIsAttempted, SeenIs
    <3> HIDE DEF m
    <3>5. PercentileIsSlow(m, 950)
      BY <3>4, SlowTail
    <3> QED BY <2>4, <3>2, <3>5 DEF m
  <2>8. Answered("cohort_compare") => s.isolated
    <3> SUFFICES ASSUME Answered("cohort_compare") PROVE s.isolated
      OBVIOUS
    <3>1. cmp = CohortCompare(i, c)
      BY AnsweredResponse DEF OpeningTools, Fields
    <3>2. cmp.target = Conversion(i, c) /\ cmp.siblings = {Conversion(i, x) : x \in SiblingsOf(i, c)}
      BY <3>1 DEF CohortCompare, NoFields
    <3> HIDE DEF cmp
    <3> QED BY <2>2, <2>4, <3>2
  <2> HIDE DEF s, o
  <2>9. Score("provider_degradation", s) > 20
    <3>1. Score("provider_degradation", s)
            = If(Atleast(s.timeouts, 100), 32) + If(s.timeout_up, 20) + If(s.slow, 18)
              + If(s.health = "degraded", 22) + If(s.isolated, 10) - If(s.issuer_up, 20)
      BY DEF Score
    <3>2. /\ If(Atleast(s.timeouts, 100), 32) \in {0, 32} /\ If(s.health = "degraded", 22) \in {0, 22}
          /\ If(s.issuer_up, 20) = 0
          /\ If(s.timeout_up, 20) \in {0, 20} /\ If(s.slow, 18) \in {0, 18}
          /\ If(s.isolated, 10) \in {0, 10}
      BY <2>6 DEF If
    <3>3. /\ Answered("decline_breakdown") => If(s.timeout_up, 20) = 20
          /\ Answered("operational_metrics") => If(s.slow, 18) = 18
          /\ Answered("cohort_compare") => If(s.isolated, 10) = 10
      BY <2>5, <2>7, <2>8 DEF If
    <3> QED BY <2>3, <3>1, <3>2, <3>3
  <2> QED BY <2>9 DEF Seeds, Seeded, Listed, Hypotheses, s, o
<1> QED BY <1>1, AlwaysTyped, AlwaysSeeds, AlwaysOneFails, PTL
=============================================================================
