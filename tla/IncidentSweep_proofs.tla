------------------------ MODULE IncidentSweep_proofs ------------------------
(***************************************************************************)
(* What a sweep of detector/cli.py names, saves and closes, proved for     *)
(* every set of cells, dimensions and scenarios, every window and bound.   *)
(*                                                                         *)
(* The measurements are sums, so the proofs start with induction over the  *)
(* naturals and over the subsets of a finite set, both from the            *)
(* well-foundedness of < and without a predicate as a parameter: what is   *)
(* to be shown is the membership of a set.                                 *)
(***************************************************************************)
EXTENDS IncidentSweep, FiniteSetTheorems, SequenceTheorems, WellFoundedInduction, TLAPS

(* Induction *)

Less == {p \in Nat \X Nat : p[1] < p[2]}

\* The order of the naturals has no infinite descent.
LEMMA LessWF == IsWellFoundedOn(Less, Nat)
  BY NatLessThanWellFounded, Zenon DEF OpToRel, Less

\* A set of naturals that holds one holds a least one.
LEMMA LeastNat ==
  ASSUME NEW S \in SUBSET Nat, S # {}
  PROVE  \E m \in S : \A k \in S : m <= k
<1>1. \E m \in S : \A k \in S : ~ (<<k, m>> \in Less)
  BY LessWF, WFMin, Zenon
<1>2. ASSUME NEW m \in S, NEW k \in S, ~ (<<k, m>> \in Less) PROVE m <= k
  BY <1>2 DEF Less
<1> QED
  BY <1>1, <1>2

\* A set of numbers that holds 0 and the successor of each of its members.
LEMMA Induct ==
  ASSUME NEW S, 0 \in S, \A n \in Nat : n \in S => n + 1 \in S
  PROVE  Nat \subseteq S
<1> SUFFICES ASSUME Nat \ S # {} PROVE FALSE
  OBVIOUS
<1>1. PICK m \in Nat \ S : \A k \in Nat \ S : m <= k
  BY LeastNat
<1>2. m # 0 /\ m - 1 \in Nat /\ m - 1 \in S
  BY <1>1
<1> QED
  BY <1>1, <1>2

\* Iterating a function d from v.
LEMMA Iterate ==
  ASSUME NEW W, NEW v \in W, NEW d \in [W -> W]
  PROVE  \E f \in [Nat -> W] : f[0] = v /\ \A n \in Nat : f[n + 1] = d[f[n]]
<1> DEFINE Part(n) == {p \in [0..n -> W] : p[0] = v /\ \A i \in 0..n : i + 1 <= n => p[i + 1] = d[p[i]]}
           Has == {n \in Nat : Part(n) # {}}
<1>1. 0 \in Has
  <2>1. [i \in 0..0 |-> v] \in Part(0)
    OBVIOUS
  <2> QED BY <2>1
<1>2. ASSUME NEW n \in Nat, n \in Has PROVE n + 1 \in Has
  <2>1. PICK p \in Part(n) : TRUE
    BY <1>2
  <2> DEFINE q == [i \in 0..(n + 1) |-> IF i = n + 1 THEN d[p[n]] ELSE p[i]]
  <2>2. q \in Part(n + 1)
    BY <2>1
  <2> QED BY <2>2
<1>3. \A n \in Nat : Part(n) # {}
  <2> HIDE DEF Part
  <2> QED BY <1>1, <1>2, Induct
<1>4. ASSUME NEW n \in Nat, NEW p \in Part(n), NEW q \in Part(n + 1) PROVE \A i \in 0..n : q[i] = p[i]
  <2> DEFINE Same == {i \in Nat : i <= n => q[i] = p[i]}
  <2>1. 0 \in Same
    OBVIOUS
  <2>2. ASSUME NEW i \in Nat, i \in Same PROVE i + 1 \in Same
    BY <2>2
  <2> HIDE DEF Part
  <2>3. Nat \subseteq Same
    <3> HIDE DEF Same
    <3> QED BY <2>1, <2>2, Induct
  <2> QED BY <2>3
<1> DEFINE part == [n \in Nat |-> CHOOSE p \in Part(n) : TRUE]
           f    == [n \in Nat |-> part[n][n]]
<1>5. \A n \in Nat : part[n] \in Part(n)
  <2> HIDE DEF Part
  <2> QED BY <1>3
<1>6. ASSUME NEW n \in Nat PROVE f[n] \in W /\ f[n + 1] = d[f[n]]
  <2>1. part[n] \in Part(n) /\ part[n + 1] \in Part(n + 1)
    <3> HIDE DEF Part, part
    <3> QED BY <1>5
  <2>2. part[n + 1][n] = part[n][n]
    <3> HIDE DEF Part, part
    <3> QED BY <2>1, <1>4
  <2>3. part[n + 1][n + 1] = d[part[n + 1][n]] /\ part[n][n] \in W
    <3> HIDE DEF part
    <3> QED BY <2>1
  <2> QED BY <2>2, <2>3
<1>7. f[0] = v
  <2>1. part[0] \in Part(0)
    BY <1>5
  <2> HIDE DEF part
  <2> QED BY <2>1 DEF part
<1>8. f \in [Nat -> W]
  BY <1>6
<1> HIDE DEF f
<1> QED BY <1>6, <1>7, <1>8

SomeOf(T) == CHOOSE x \in T : TRUE

\* Taking one element out of a finite set, again and again, ends at the empty set.
LEMMA SubsetInduct ==
  ASSUME NEW S, IsFiniteSet(S), NEW Q, {} \in Q,
         \A T \in SUBSET S : T # {} /\ T \ {SomeOf(T)} \in Q => T \in Q
  PROVE  SUBSET S \subseteq Q
<1> DEFINE Upto == {n \in Nat : \A T \in SUBSET S : Cardinality(T) <= n => T \in Q}
<1>1. \A T \in SUBSET S : /\ IsFiniteSet(T) /\ Cardinality(T) \in Nat
                          /\ Cardinality(T) = 0 <=> T = {}
  BY FS_CardinalityType, FS_Subset, FS_EmptySet
<1>2. 0 \in Upto
  BY <1>1
<1>3. ASSUME NEW n \in Nat, n \in Upto PROVE n + 1 \in Upto
  <2>1. ASSUME NEW T \in SUBSET S, Cardinality(T) <= n + 1, T # {} PROVE T \in Q
    <3> DEFINE a == SomeOf(T)
    <3>1. a \in T
      BY <2>1 DEF SomeOf
    <3> HIDE DEF a
    <3>2. T \ {a} \in SUBSET S /\ Cardinality(T \ {a}) = Cardinality(T) - 1
      BY <3>1, <1>1, FS_RemoveElement
    <3>3. T \ {a} \in Q
      BY <3>2, <1>1, <1>3, <2>1
    <3> QED BY <3>3, <2>1 DEF a
  <2> QED BY <2>1
<1>4. Nat \subseteq Upto
  <2> HIDE DEF Upto
  <2> QED BY <1>2, <1>3, Induct
<1> QED BY <1>1, <1>4

\* g holds the sums over the subsets of S, each one element more than another.
Sums(g, w, S) ==
  /\ g \in [SUBSET S -> Counts] /\ g[{}] = Nothing
  /\ \A T \in SUBSET S : T # {} =>
       SomeOf(T) \in T /\ g[T] = Add(w[SomeOf(T)], g[T \ {SomeOf(T)}])

\* A sum over a finite set is taken element by element.
LEMMA TotalSteps ==
  ASSUME NEW S, IsFiniteSet(S), NEW w, \A x \in S : w[x] \in Counts
  PROVE  \E g : Sums(g, w, S) /\ Total(w, S) = g[S]
<1> DEFINE W == [SUBSET S -> Counts]
           Up(h) == [T \in SUBSET S |-> IF T = {} THEN Nothing
                                        ELSE Add(w[SomeOf(T)], h[T \ {SomeOf(T)}])]
           up == [h \in W |-> Up(h)]
           zero == [T \in SUBSET S |-> Nothing]
<1>1. \A T \in SUBSET S : T # {} => SomeOf(T) \in T
  BY DEF SomeOf
<1>2. Nothing \in Counts /\ \A x, y \in Counts : Add(x, y) \in Counts
  BY DEF Nothing, Add, Counts
<1>3. ASSUME NEW h \in W PROVE Up(h) \in W
  BY <1>1, <1>2
<1>4. zero \in W /\ up \in [W -> W]
  BY <1>2, <1>3
<1>5. PICK F \in [Nat -> W] : F[0] = zero /\ \A n \in Nat : F[n + 1] = up[F[n]]
  <2> HIDE DEF up, zero, W
  <2> QED BY <1>4, Iterate
<1>6. \A T \in SUBSET S : /\ IsFiniteSet(T) /\ Cardinality(T) \in Nat
                          /\ Cardinality(T) = 0 <=> T = {}
  BY FS_CardinalityType, FS_Subset, FS_EmptySet
<1> DEFINE g == [T \in SUBSET S |-> F[Cardinality(T)][T]]
<1>7. g \in W
  BY <1>5, <1>6
<1>8. ASSUME NEW T \in SUBSET S, T # {} PROVE g[T] = Add(w[SomeOf(T)], g[T \ {SomeOf(T)}])
  <2> DEFINE a == SomeOf(T)
             n == Cardinality(T) - 1
  <2>1. a \in T
    BY <1>1, <1>8
  <2>2. Cardinality(T \ {a}) = n /\ n \in Nat /\ n + 1 = Cardinality(T) /\ T \ {a} \in SUBSET S
    <3> HIDE DEF a
    <3> QED BY <2>1, <1>6, <1>8, FS_RemoveElement
  <2>3. F[n + 1] = Up(F[n])
    <3> HIDE DEF n
    <3> QED BY <1>5, <2>2
  <2>4. F[n + 1][T] = Add(w[a], F[n][T \ {a}])
    <3> HIDE DEF n
    <3> QED BY <2>3, <1>8
  <2> QED BY <2>2, <2>4
<1>9. g[{}] = Nothing
  BY <1>5, <1>6
<1>10. Total(w, S) = (CHOOSE h : h = Up(h))[S]
  BY DEF Total, FoldFunctionOnSet, MapThenFoldSet, SomeOf
<1> HIDE DEF g
<1>11. g = Up(g)
  BY <1>7, <1>8, <1>9
<1>12. PICK h : h = (CHOOSE f : f = Up(f)) /\ h = Up(h)
  <2> HIDE DEF Up
  <2> QED BY <1>11
<1>13. h[S] = g[S]
  <2> DEFINE Q == {T \in SUBSET S : h[T] = g[T]}
  <2>1. {} \in Q
    BY <1>12, <1>9
  <2>2. ASSUME NEW T \in SUBSET S, T # {}, T \ {SomeOf(T)} \in Q PROVE T \in Q
    BY <1>8, <1>12, <2>2
  <2>3. SUBSET S \subseteq Q
    <3> HIDE DEF Q
    <3> QED BY <2>1, <2>2, SubsetInduct
  <2> QED BY <2>3
<1> QED
  <2> HIDE DEF Up
  <2>1. Sums(g, w, S)
    BY <1>1, <1>7, <1>8, <1>9 DEF Sums
  <2>2. Total(w, S) = g[S]
    BY <1>10, <1>12, <1>13
  <2> QED BY <2>1, <2>2

\* What holds of no payments and of each step of a sum holds of the sum.
LEMMA TotalIn ==
  ASSUME NEW S, IsFiniteSet(S), NEW w, \A x \in S : w[x] \in Counts,
         NEW V, Nothing \in V, \A x \in S, y \in V \cap Counts : Add(w[x], y) \in V
  PROVE  Total(w, S) \in V \cap Counts
<1>1. PICK g : Sums(g, w, S) /\ Total(w, S) = g[S]
  BY TotalSteps
<1> DEFINE Q == {T \in SUBSET S : g[T] \in V}
<1>2. {} \in Q
  BY <1>1 DEF Sums
<1>3. ASSUME NEW T \in SUBSET S, T # {}, T \ {SomeOf(T)} \in Q PROVE T \in Q
  BY <1>1, <1>3 DEF Sums
<1>4. SUBSET S \subseteq Q
  <2> HIDE DEF Q
  <2> QED BY <1>2, <1>3, SubsetInduct
<1> QED BY <1>1, <1>4 DEF Sums

\* Summands that are the same have the same sum, fewer payments have a smaller one.
LEMMA TotalOf ==
  ASSUME NEW S, IsFiniteSet(S), NEW w, NEW u, \A x \in S : w[x] \in Counts /\ u[x] \in Counts
  PROVE  /\ (\A x \in S : w[x] = u[x]) => Total(w, S) = Total(u, S)
         /\ (\A x \in S : w[x].n <= u[x].n) => Total(w, S).n <= Total(u, S).n
<1>1. PICK g : Sums(g, w, S) /\ Total(w, S) = g[S]
  BY TotalSteps
<1>2. PICK h : Sums(h, u, S) /\ Total(u, S) = h[S]
  BY TotalSteps
<1>3. ASSUME \A x \in S : w[x] = u[x] PROVE Total(w, S) = Total(u, S)
  <2> DEFINE Q == {T \in SUBSET S : g[T] = h[T]}
  <2>1. {} \in Q
    BY <1>1, <1>2 DEF Sums
  <2>2. ASSUME NEW T \in SUBSET S, T # {}, T \ {SomeOf(T)} \in Q PROVE T \in Q
    BY <1>1, <1>2, <1>3, <2>2 DEF Sums
  <2>3. SUBSET S \subseteq Q
    <3> HIDE DEF Q
    <3> QED BY <2>1, <2>2, SubsetInduct
  <2> QED BY <1>1, <1>2, <2>3
<1>4. ASSUME \A x \in S : w[x].n <= u[x].n PROVE Total(w, S).n <= Total(u, S).n
  <2> DEFINE Q == {T \in SUBSET S : g[T].n <= h[T].n}
  <2>1. {} \in Q
    BY <1>1, <1>2 DEF Sums, Nothing
  <2>2. ASSUME NEW T \in SUBSET S, T # {}, T \ {SomeOf(T)} \in Q PROVE T \in Q
    <3> DEFINE a == SomeOf(T)
               P == T \ {a}
    <3>1. a \in S /\ P \in SUBSET S /\ g[P].n <= h[P].n
      BY <1>1, <2>2 DEF Sums
    <3>4. g[T] = Add(w[a], g[P]) /\ h[T] = Add(u[a], h[P]) /\ g[P] \in Counts /\ h[P] \in Counts
      BY <1>1, <1>2, <2>2 DEF Sums
    <3> HIDE DEF a, P
    <3>2. g[T].n = w[a].n + g[P].n /\ h[T].n = u[a].n + h[P].n
      BY <3>4 DEF Add
    <3>3. w[a].n \in Nat /\ u[a].n \in Nat /\ g[P].n \in Nat /\ h[P].n \in Nat /\ w[a].n <= u[a].n
      BY <3>1, <3>4, <1>4 DEF Counts
    <3> QED BY <3>1, <3>2, <3>3
  <2>3. SUBSET S \subseteq Q
    <3> HIDE DEF Q
    <3> QED BY <2>1, <2>2, SubsetInduct
  <2> QED BY <1>1, <1>2, <2>3
<1> QED BY <1>3, <1>4

\* The payments of a run of buckets, bounded by those of each bucket.
LEMMA TotalCount ==
  ASSUME NEW S, IsFiniteSet(S), NEW w, \A x \in S : w[x] \in Counts, NEW k \in Nat
  PROVE  /\ (\A x \in S : w[x].n <= k) => Total(w, S).n <= Cardinality(S) * k
         /\ (\A x \in S : w[x].n >= k) => Total(w, S).n >= Cardinality(S) * k
<1>1. PICK g : Sums(g, w, S) /\ Total(w, S) = g[S]
  BY TotalSteps
<1>2. \A T \in SUBSET S : /\ IsFiniteSet(T) /\ Cardinality(T) \in Nat
                          /\ Cardinality(T) = 0 <=> T = {}
  BY FS_CardinalityType, FS_Subset, FS_EmptySet
<1>3. ASSUME NEW T \in SUBSET S, T # {}
      PROVE  \E a \in S : LET P == T \ {a} IN
               /\ a = SomeOf(T) /\ P \in SUBSET S /\ Cardinality(T) = Cardinality(P) + 1
               /\ g[T].n = w[a].n + g[P].n /\ w[a].n \in Nat /\ g[P].n \in Nat /\ g[T].n \in Nat
               /\ Cardinality(T) * k = Cardinality(P) * k + k
               /\ Cardinality(P) * k \in Nat
  <2> DEFINE a == SomeOf(T)
             P == T \ {a}
  <2>1. a \in T /\ g[T] = Add(w[a], g[P])
    BY <1>1, <1>3 DEF Sums
  <2>4. a = SomeOf(T)
    OBVIOUS
  <2> HIDE DEF a
  <2>2. P \in SUBSET S /\ Cardinality(P) = Cardinality(T) - 1 /\ Cardinality(P) \in Nat
    BY <2>1, <1>2, FS_RemoveElement
  <2>3. g[T].n = w[a].n + g[P].n /\ w[a].n \in Nat /\ g[P].n \in Nat /\ g[T].n \in Nat
    BY <2>1, <2>2, <1>1 DEF Sums, Add, Counts
  <2>5. \A c \in Nat : (c + 1) * k = c * k + k /\ c * k \in Nat
    OBVIOUS
  <2>6. Cardinality(T) = Cardinality(P) + 1
    BY <2>2, <1>2
  <2>7. (Cardinality(P) + 1) * k = Cardinality(P) * k + k /\ Cardinality(P) * k \in Nat
    <3> HIDE DEF P
    <3> QED BY <2>2, <2>5
  <2> QED BY <2>1, <2>2, <2>3, <2>4, <2>6, <2>7
<1>4. ASSUME \A x \in S : w[x].n <= k PROVE g[S].n <= Cardinality(S) * k
  <2> DEFINE Q == {T \in SUBSET S : g[T].n <= Cardinality(T) * k}
  <2>1. {} \in Q
    BY <1>1, <1>2 DEF Sums, Nothing
  <2>2. ASSUME NEW T \in SUBSET S, T # {}, T \ {SomeOf(T)} \in Q PROVE T \in Q
    <3> DEFINE P == T \ {SomeOf(T)}
               c == Cardinality(P) * k
    <3>1. PICK a \in S : /\ g[T].n = w[a].n + g[P].n /\ w[a].n \in Nat /\ g[P].n \in Nat
                         /\ Cardinality(T) * k = c + k /\ c \in Nat
      BY <1>3, <2>2
    <3>2. g[P].n <= c
      BY <2>2
    <3>3. w[a].n <= k
      BY <1>4
    <3> HIDE DEF P, c
    <3>4. g[T].n <= Cardinality(T) * k
      BY <3>1, <3>2, <3>3
    <3> QED BY <3>4
  <2>3. SUBSET S \subseteq Q
    <3> HIDE DEF Q
    <3> QED BY <2>1, <2>2, SubsetInduct
  <2> QED BY <2>3
<1>5. ASSUME \A x \in S : w[x].n >= k PROVE g[S].n >= Cardinality(S) * k
  <2> DEFINE Q == {T \in SUBSET S : g[T].n >= Cardinality(T) * k}
  <2>1. {} \in Q
    BY <1>1, <1>2 DEF Sums, Nothing
  <2>2. ASSUME NEW T \in SUBSET S, T # {}, T \ {SomeOf(T)} \in Q PROVE T \in Q
    <3> DEFINE P == T \ {SomeOf(T)}
               c == Cardinality(P) * k
    <3>1. PICK a \in S : /\ g[T].n = w[a].n + g[P].n /\ w[a].n \in Nat /\ g[P].n \in Nat
                         /\ Cardinality(T) * k = c + k /\ c \in Nat
      BY <1>3, <2>2
    <3>2. g[P].n >= c
      BY <2>2
    <3>3. w[a].n >= k
      BY <1>5
    <3> HIDE DEF P, c
    <3>4. g[T].n >= Cardinality(T) * k
      BY <3>1, <3>2, <3>3
    <3> QED BY <3>4
  <2>3. SUBSET S \subseteq Q
    <3> HIDE DEF Q
    <3> QED BY <2>1, <2>2, SubsetInduct
  <2> QED BY <2>3
<1> QED BY <1>1, <1>4, <1>5

\* A cohort has finitely many cells.
LEMMA CellsFinite == \A c : IsFiniteSet(CellsOf(c))
  BY DetectionAssumption, FS_Subset DEF CellsOf

\* Adding buckets that are no better than one, or than which one is no better, keeps it so.
LEMMA NoBetterAdds ==
  ASSUME NEW x \in Counts, NEW y \in Counts, NEW z \in Counts
  PROVE  /\ NoBetter(Nothing, z) /\ NoBetter(z, Nothing)
         /\ NoBetter(x, z) /\ NoBetter(y, z) => NoBetter(Add(x, y), z)
         /\ NoBetter(z, x) /\ NoBetter(z, y) => NoBetter(z, Add(x, y))
<1>1. NoBetter(Nothing, z) /\ NoBetter(z, Nothing)
  BY DEF NoBetter, Nothing, Counts
<1>2. \A a, b, c \in Nat : (a + b) * c = a * c + b * c /\ c * (a + b) = c * a + c * b
                           /\ a * b \in Nat
  OBVIOUS
<1>3. /\ x.n \in Nat /\ x.ok \in Nat /\ x.late \in Nat /\ x.out \in Nat
      /\ y.n \in Nat /\ y.ok \in Nat /\ y.late \in Nat /\ y.out \in Nat
      /\ z.n \in Nat /\ z.ok \in Nat /\ z.late \in Nat /\ z.out \in Nat
  BY DEF Counts
<1>4. /\ Add(x, y).n = x.n + y.n /\ Add(x, y).ok = x.ok + y.ok
      /\ Add(x, y).late = x.late + y.late /\ Add(x, y).out = x.out + y.out
  BY DEF Add
<1>5. ASSUME NoBetter(x, z), NoBetter(y, z) PROVE NoBetter(Add(x, y), z)
  <2>1. /\ (x.ok + y.ok) * z.n <= z.ok * (x.n + y.n)
        /\ z.late * (x.n + y.n) <= (x.late + y.late) * z.n
        /\ z.out * (x.n + y.n) <= (x.out + y.out) * z.n
    BY <1>2, <1>3, <1>5 DEF NoBetter
  <2> QED BY <2>1, <1>4 DEF NoBetter
<1>6. ASSUME NoBetter(z, x), NoBetter(z, y) PROVE NoBetter(z, Add(x, y))
  <2>1. /\ z.ok * (x.n + y.n) <= (x.ok + y.ok) * z.n
        /\ (x.late + y.late) * z.n <= z.late * (x.n + y.n)
        /\ (x.out + y.out) * z.n <= z.out * (x.n + y.n)
    BY <1>2, <1>3, <1>6 DEF NoBetter
  <2> QED BY <2>1, <1>4 DEF NoBetter
<1> QED BY <1>1, <1>5, <1>6

\* Nor is a sum better than what none of its summands is better than.
LEMMA TotalNoBetter ==
  ASSUME NEW S, IsFiniteSet(S), NEW w, \A x \in S : w[x] \in Counts, NEW z \in Counts
  PROVE  /\ Total(w, S) \in Counts
         /\ (\A x \in S : NoBetter(w[x], z)) => NoBetter(Total(w, S), z)
         /\ (\A x \in S : NoBetter(z, w[x])) => NoBetter(z, Total(w, S))
<1>1. Nothing \in Counts /\ \A x, y \in Counts : Add(x, y) \in Counts
  BY DEF Nothing, Add, Counts
<1>2. Total(w, S) \in Counts
  BY <1>1, TotalIn
<1>3. ASSUME \A x \in S : NoBetter(w[x], z) PROVE NoBetter(Total(w, S), z)
  <2> DEFINE V == {y \in Counts : NoBetter(y, z)}
  <2>1. Nothing \in V /\ \A x \in S, y \in V \cap Counts : Add(w[x], y) \in V
    BY <1>1, <1>3, NoBetterAdds
  <2>2. Total(w, S) \in V
    <3> HIDE DEF V
    <3> QED BY <2>1, TotalIn
  <2> QED BY <2>2
<1>4. ASSUME \A x \in S : NoBetter(z, w[x]) PROVE NoBetter(z, Total(w, S))
  <2> DEFINE V == {y \in Counts : NoBetter(z, y)}
  <2>1. Nothing \in V /\ \A x \in S, y \in V \cap Counts : Add(w[x], y) \in V
    BY <1>1, <1>4, NoBetterAdds
  <2>2. Total(w, S) \in V
    <3> HIDE DEF V
    <3> QED BY <2>1, TotalIn
  <2> QED BY <2>2
<1> QED BY <1>2, <1>3, <1>4

\* A smaller share stays at most as large when it is rounded down.
LEMMA ShareAtMost ==
  ASSUME NEW k \in Nat, NEW x \in Nat, NEW n \in Nat, NEW y \in Nat, NEW m \in Nat,
         n > 0, m > 0, x * m <= y * n
  PROVE  (k * x) \div n <= (k * y) \div m
<1> DEFINE p == (k * x) \div n
           q == (k * y) \div m
<1>0. k * x \in Nat /\ k * y \in Nat
  OBVIOUS
<1>1. /\ p \in Nat /\ q \in Nat
      /\ p * n <= k * x
      /\ k * y < (q + 1) * m
  BY <1>0
<1> HIDE DEF p, q
<1>2. ASSUME p >= q + 1 PROVE FALSE
  <2>1. (q + 1) * n <= k * x
    BY <1>1, <1>2
  <2>2. (k * y) * n < ((q + 1) * m) * n
    BY <1>1
  <2>3. ((q + 1) * n) * m <= (k * x) * m
    BY <2>1, <1>1
  <2>4. (k * x) * m <= (k * y) * n
    <3>1. k * (x * m) <= k * (y * n)
      OBVIOUS
    <3> QED BY <3>1
  <2> QED BY <2>2, <2>3, <2>4, <1>1
<1> QED BY <1>1, <1>2 DEF p, q

\* A bucket of a cohort counts its cells.
LEMMA PointCounts ==
  ASSUME NEW s \in Scenario, NEW c \in Cohort
  PROVE  Point[s][c] = Total(Traffic[s], CellsOf(c)) /\ Point[s][c] \in Counts
<1>1. IsFiniteSet(CellsOf(c)) /\ \A x \in CellsOf(c) : Traffic[s][x] \in Counts
  BY CellsFinite, DetectionAssumption DEF CellsOf
<1>2. Nothing \in Counts
  BY DEF Nothing, Counts
<1> QED BY <1>1, <1>2, TotalNoBetter DEF Point

\* A bucket in which the cells of a cohort are healthy, against any bucket of any other.
LEMMA HealthyPoint ==
  ASSUME HealthyIsBest, NEW s \in Scenario, NEW t \in Scenario, NEW c \in Cohort, NEW e \in Cohort,
         \A cell \in CellsOf(c) : Healthy(s, cell), "healthy" \in Scenario
  PROVE  /\ NoBetter(Point[t][e], Point[s][c])
         /\ Point[s][c] = Point["healthy"][c]
         /\ Point[t][c].n <= Point["healthy"][c].n
<1> DEFINE best == Traffic["healthy"]
<1>1. \A x \in CellsOf(c) : x \in Cells /\ Traffic[s][x] = best[x]
  BY DEF CellsOf, Healthy
<1>2. \A x \in CellsOf(e) : x \in Cells
  BY DEF CellsOf
<1>3. \A u \in Scenario, x \in Cells : Traffic[u][x] \in Counts
  BY DetectionAssumption
<1>4. Point[s][c] = Point["healthy"][c]
  BY <1>1, <1>3, CellsFinite, PointCounts, TotalOf
<1>5. Point[t][c].n <= Point["healthy"][c].n
  <2>1. \A x \in CellsOf(c) : Traffic[t][x].n <= best[x].n
    BY <1>1 DEF HealthyIsBest
  <2> QED BY <1>1, <1>3, <2>1, CellsFinite, PointCounts, TotalOf
<1>6. ASSUME NEW x \in Cells PROVE NoBetter(Traffic[t][x], Point[s][c])
  <2>1. \A y \in CellsOf(c) : NoBetter(Traffic[t][x], Traffic[s][y])
    BY <1>1 DEF HealthyIsBest
  <2>2. NoBetter(Traffic[t][x], Total(Traffic[s], CellsOf(c)))
    BY <1>1, <1>3, <2>1, CellsFinite, TotalNoBetter
  <2> QED BY <2>2, PointCounts
<1>7. NoBetter(Point[t][e], Point[s][c])
  <2>1. NoBetter(Total(Traffic[t], CellsOf(e)), Point[s][c])
    BY <1>2, <1>3, <1>6, CellsFinite, PointCounts, TotalNoBetter
  <2> QED BY <2>1, PointCounts
<1> QED BY <1>4, <1>5, <1>7

\* The window a cohort is healthy in, against any trailing buckets.
LEMMA HealthyWindow ==
  ASSUME HealthyIsBest, "healthy" \in Scenario, NEW c \in Cohort, NEW e \in Cohort,
         NEW N \in Nat, NEW h \in [1..N -> Scenario],
         NEW M \in Nat, NEW g \in [1..M -> Scenario],
         \A i \in 1..N, cell \in CellsOf(c) : Healthy(h[i], cell)
  PROVE  /\ Measured(h, c) \in Counts /\ Measured(g, e) \in Counts
         /\ NoBetter(Measured(g, e), Measured(h, c))
         /\ \E H \in Nat : /\ Measured(h, c).n >= N * H
                           /\ Measured(g, c).n <= M * H
<1> DEFINE w == [i \in DOMAIN h |-> Point[h[i]][c]]
           u == [i \in DOMAIN g |-> Point[g[i]][e]]
           v == [i \in DOMAIN g |-> Point[g[i]][c]]
           H == Point["healthy"][c].n
<1>1. /\ IsFiniteSet(1..N) /\ Cardinality(1..N) = N
      /\ IsFiniteSet(1..M) /\ Cardinality(1..M) = M
  BY FS_Interval
<1>2. /\ \A i \in 1..N : w[i] \in Counts /\ w[i].n = H
      /\ \A j \in 1..M : u[j] \in Counts /\ v[j] \in Counts /\ v[j].n <= H
      /\ \A i \in 1..N, j \in 1..M : NoBetter(u[j], w[i])
  <2>1. ASSUME NEW i \in 1..N PROVE w[i] \in Counts /\ w[i].n = H
    <3>1. h[i] \in Scenario /\ w[i] = Point[h[i]][c] /\ \A cell \in CellsOf(c) : Healthy(h[i], cell)
      OBVIOUS
    <3>2. Point[h[i]][c] = Point["healthy"][c]
      BY <3>1, HealthyPoint
    <3>3. Point[h[i]][c] \in Counts
      BY <3>1, PointCounts
    <3> QED BY <3>1, <3>2, <3>3
  <2>2. ASSUME NEW j \in 1..M PROVE u[j] \in Counts /\ v[j] \in Counts /\ v[j].n <= H
    <3>1. g[j] \in Scenario /\ u[j] = Point[g[j]][e] /\ v[j] = Point[g[j]][c]
      OBVIOUS
    <3>2. Point[g[j]][c].n <= Point["healthy"][c].n
      <4>1. \A cell \in CellsOf(c) : Healthy("healthy", cell)
        BY DEF Healthy
      <4> QED BY <3>1, <4>1, HealthyPoint
    <3>3. Point[g[j]][c] \in Counts /\ Point[g[j]][e] \in Counts
      BY <3>1, PointCounts
    <3> QED BY <3>1, <3>2, <3>3
  <2>3. ASSUME NEW i \in 1..N, NEW j \in 1..M PROVE NoBetter(u[j], w[i])
    <3>1. /\ h[i] \in Scenario /\ w[i] = Point[h[i]][c] /\ \A cell \in CellsOf(c) : Healthy(h[i], cell)
          /\ g[j] \in Scenario /\ u[j] = Point[g[j]][e]
      OBVIOUS
    <3>2. NoBetter(Point[g[j]][e], Point[h[i]][c])
      BY <3>1, HealthyPoint
    <3> QED BY <3>1, <3>2
  <2> QED BY <2>1, <2>2, <2>3
<1>3. H \in Nat
  BY PointCounts DEF Counts
<1>4. Measured(h, c) = Total(w, 1..N) /\ Measured(g, e) = Total(u, 1..M) /\ Measured(g, c) = Total(v, 1..M)
  BY DEF Measured
<1> HIDE DEF w, u, v, H
<1>5. Total(w, 1..N) \in Counts /\ Total(u, 1..M) \in Counts
  <2>1. Nothing \in Counts
    BY DEF Nothing, Counts
  <2> QED BY <1>1, <1>2, <2>1, TotalNoBetter
<1>6. \A j \in 1..M : NoBetter(u[j], Total(w, 1..N))
  BY <1>1, <1>2, TotalNoBetter
<1>7. NoBetter(Total(u, 1..M), Total(w, 1..N))
  BY <1>1, <1>2, <1>5, <1>6, TotalNoBetter
<1>8. Total(w, 1..N).n >= N * H
  <2>1. \A i \in 1..N : w[i].n >= H
    BY <1>2, <1>3
  <2> QED BY <1>1, <1>2, <1>3, <2>1, TotalCount
<1>9. Total(v, 1..M).n <= M * H
  BY <1>1, <1>2, <1>3, TotalCount
<1> QED BY <1>3, <1>4, <1>5, <1>7, <1>8, <1>9

\* The same of a rate in thousandths (payment_metrics).
LEMMA RateAtMost ==
  ASSUME NEW x \in Nat, NEW n \in Nat, NEW y \in Nat, NEW m \in Nat,
         n > 0, m > 0, x * m <= y * n
  PROVE  Rate(x, n) <= Rate(y, m)
<1> DEFINE k == 1000
<1>1. k \in Nat
  OBVIOUS
<1> HIDE DEF k
<1>2. (k * x) \div n <= (k * y) \div m
  BY <1>1, ShareAtMost
<1> QED BY <1>2 DEF k, Rate

\* The expected rate, shrunk toward the parent's (baseline_conversion), is at most that
\* of a window than which neither the baseline nor the parent is better.
LEMMA ExpectedAtMost ==
  ASSUME NEW recent \in Counts, NEW base \in Counts, NEW parent \in Counts,
         NoBetter(base, recent), NoBetter(parent, recent), recent.n # 0, parent.n # 0
  PROVE  /\ BaselineConversion(base, parent) \in Int /\ Rate(recent.ok, recent.n) \in Int
         /\ BaselineConversion(base, parent) <= Rate(recent.ok, recent.n)
<1> DEFINE A == Rate(recent.ok, recent.n)
           P == Rate(parent.ok, parent.n)
           D == base.n + ShrinkagePrior
           T == 1000 * base.ok + ShrinkagePrior * P
<1>1. /\ recent.n \in Nat \ {0} /\ recent.ok \in Nat /\ base.n \in Nat /\ base.ok \in Nat
      /\ parent.n \in Nat \ {0} /\ parent.ok \in Nat
      /\ ShrinkagePrior \in Nat \ {0}
  BY DetectionAssumption DEF Counts
<1>2. base.ok * recent.n <= recent.ok * base.n /\ parent.ok * recent.n <= recent.ok * parent.n
  BY DEF NoBetter
<1>3. A \in Nat /\ P \in Nat
  BY <1>1 DEF Rate
<1>4. P <= A
  BY <1>1, <1>2, RateAtMost
<1>5. 1000 * base.ok <= (A + 1) * base.n
  <2>1. CASE base.n = 0
    <3>1. base.ok * recent.n <= 0
      BY <1>1, <1>2, <2>1
    <3>2. base.ok = 0
      BY <1>1, <3>1
    <3> QED BY <1>3, <2>1, <3>2
  <2>2. CASE base.n # 0
    <3> DEFINE B == Rate(base.ok, base.n)
    <3>1. B <= A
      BY <1>1, <1>2, <2>2, RateAtMost
    <3>2. B \in Nat /\ 1000 * base.ok < (B + 1) * base.n
      BY <1>1, <2>2 DEF Rate
    <3> HIDE DEF B, A
    <3>3. (B + 1) * base.n <= (A + 1) * base.n
      BY <1>1, <1>3, <3>1, <3>2
    <3> QED BY <1>1, <1>3, <3>2, <3>3
  <2> QED BY <2>1, <2>2
<1> HIDE DEF A, P
<1>6. ShrinkagePrior * P <= ShrinkagePrior * A
  BY <1>1, <1>3, <1>4
<1>7. D \in Nat \ {0} /\ T \in Nat /\ T < (A + 1) * D
  <2>1. (A + 1) * D = (A + 1) * base.n + ShrinkagePrior * A + ShrinkagePrior
    BY <1>1, <1>3
  <2>2. ShrinkagePrior * A \in Nat /\ ShrinkagePrior * P \in Nat /\ (A + 1) * base.n \in Nat
    BY <1>1, <1>3
  <2> QED BY <1>1, <1>3, <1>5, <1>6, <2>1, <2>2
<1> HIDE DEF D, T
<1>8. T \div D \in Nat /\ T \div D <= A
  <2>1. T \div D \in Nat /\ (T \div D) * D <= T
    BY <1>7
  <2>2. ASSUME T \div D >= A + 1 PROVE FALSE
    <3>1. (A + 1) * D <= (T \div D) * D
      BY <1>3, <1>7, <2>1, <2>2
    <3> QED BY <1>3, <1>7, <2>1, <3>1
  <2> QED BY <1>3, <2>1, <2>2
<1> QED BY <1>3, <1>8 DEF A, P, T, D, BaselineConversion

\* No leading indicator is degraded in such a window, if it lost no payments either.
LEMMA HealthySignals ==
  ASSUME NEW recent \in Counts, NEW base \in Counts, NEW H \in Nat,
         NoBetter(base, recent), recent.n >= Window * H, base.n <= Trailing * H
  PROVE  LeadingIndicators(recent, base).degraded = {}
<1> DEFINE known      == recent.n > 0 /\ base.n > 0
           volume     == IF base.n = 0 THEN 0 ELSE (100 * recent.n * Trailing) \div (Window * base.n)
           comparable == recent.n >= NPaymentsMin /\ volume \in 50..200
           timeout    == IF known THEN Rate(recent.out, recent.n) - Rate(base.out, base.n) ELSE 0
           slow       == known /\ base.late >= 50 * base.n
           latency    == IF slow THEN (100 * (recent.late \div recent.n)) \div (base.late \div base.n) ELSE 0
<1>1. /\ recent.n \in Nat /\ recent.late \in Nat /\ recent.out \in Nat
      /\ base.n \in Nat /\ base.late \in Nat /\ base.out \in Nat
      /\ Window \in Nat \ {0} /\ Trailing \in Nat \ {0} /\ VolumeBaselineMin \in Nat
  BY DetectionAssumption DEF Counts
<1>2. recent.late * base.n <= base.late * recent.n /\ recent.out * base.n <= base.out * recent.n
  BY DEF NoBetter
<1>3. timeout <= 0
  <2>1. CASE known
    <3>1. Rate(recent.out, recent.n) <= Rate(base.out, base.n)
      BY <1>1, <1>2, <2>1, RateAtMost
    <3>2. Rate(recent.out, recent.n) \in Int /\ Rate(base.out, base.n) \in Int
      BY <1>1, <2>1 DEF Rate
    <3> QED BY <3>1, <3>2
  <2>2. CASE ~known
    BY <2>2
  <2> QED BY <2>1, <2>2
<1>4. latency <= 100
  <2>1. CASE slow
    <3> DEFINE L == recent.late \div recent.n
               B == base.late \div base.n
    <3>1. L \in Nat /\ B \in Nat
      BY <1>1, <2>1
    <3>2. L <= B
      <4>1. (1 * recent.late) \div recent.n <= (1 * base.late) \div base.n
        BY <1>1, <1>2, <2>1, ShareAtMost
      <4> QED BY <1>1, <4>1
    <3>3. B >= 50
      <4>1. base.late < (B + 1) * base.n
        BY <1>1, <2>1
      <4>2. 50 * base.n < (B + 1) * base.n
        BY <1>1, <2>1, <3>1, <4>1
      <4> HIDE DEF B
      <4>3. ASSUME B + 1 <= 50 PROVE FALSE
        <5>1. (B + 1) * base.n <= 50 * base.n
          BY <1>1, <3>1, <4>3
        <5> QED BY <1>1, <3>1, <4>2, <5>1
      <4> QED BY <3>1, <4>3
    <3> HIDE DEF L, B
    <3>4. (100 * L) \div B <= 100
      <4> DEFINE q == (100 * L) \div B
      <4>1. q \in Nat /\ q * B <= 100 * L
        BY <3>1, <3>3
      <4> HIDE DEF q
      <4>2. ASSUME q >= 101 PROVE FALSE
        <5>1. 101 * B <= q * B
          BY <3>1, <4>1, <4>2
        <5> QED BY <3>1, <3>2, <3>3, <4>1, <5>1
      <4> QED BY <4>1, <4>2 DEF q
    <3> QED BY <2>1, <3>4 DEF L, B
  <2>2. CASE ~slow
    BY <2>2
  <2> QED BY <2>1, <2>2
<1>5. ASSUME base.n >= Largest(VolumeBaselineMin, 1) PROVE volume >= 25
  <2>1. base.n >= 1
    BY <1>1, <1>5 DEF Largest
  <2> DEFINE p == 100 * recent.n * Trailing
             q == Window * base.n
  <2>2. p \in Nat /\ q \in Nat \ {0}
    BY <1>1, <2>1
  <2>3. Window * base.n <= Window * (Trailing * H)
    BY <1>1
  <2>4. (Window * H) * Trailing <= recent.n * Trailing
    BY <1>1
  <2>5. q <= recent.n * Trailing
    BY <1>1, <2>3, <2>4
  <2>6. 25 * q <= p
    BY <1>1, <2>2, <2>5
  <2> HIDE DEF p, q
  <2>7. p \div q >= 25
    <3> DEFINE d == p \div q
    <3>1. d \in Nat /\ p < (d + 1) * q
      BY <2>2
    <3> HIDE DEF d
    <3>2. ASSUME d + 1 <= 25 PROVE FALSE
      <4>1. (d + 1) * q <= 25 * q
        BY <2>2, <3>1, <3>2
      <4> QED BY <2>2, <2>6, <3>1, <4>1
    <3> QED BY <3>1, <3>2 DEF d
  <2> QED BY <1>1, <2>1, <2>7 DEF p, q
<1>6. timeout \in Int /\ latency \in Int /\ volume \in Int
  <2>1. known => Rate(recent.out, recent.n) \in Int /\ Rate(base.out, base.n) \in Int
    BY <1>1 DEF Rate
  <2>2. base.n # 0 => volume \in Int
    <3>1. base.n # 0 => Window * base.n \in Nat \ {0} /\ 100 * recent.n * Trailing \in Nat
      BY <1>1
    <3> QED BY <3>1
  <2>3. slow => latency \in Int
    <3>1. ASSUME slow PROVE latency \in Int
      <4> DEFINE L == recent.late \div recent.n
                 B == base.late \div base.n
      <4>1. L \in Nat /\ B \in Nat
        BY <1>1, <3>1
      <4>2. B # 0
        <5>1. base.late < (B + 1) * base.n
          BY <1>1, <3>1
        <5>2. ASSUME B = 0 PROVE FALSE
          <6>1. base.late < base.n
            BY <1>1, <5>1, <5>2
          <6> QED BY <1>1, <3>1, <6>1
        <5> QED BY <5>2
      <4> HIDE DEF L, B
      <4>3. (100 * L) \div B \in Int
        BY <4>1, <4>2
      <4> QED BY <3>1, <4>3 DEF L, B
    <3> QED BY <3>1
  <2> QED BY <2>1, <2>2, <2>3
<1>7. LeadingIndicators(recent, base).degraded =
        {i \in Indicators :
          CASE i = "timeout_share"   -> comparable /\ timeout >= 50
            [] i = "mean_latency_ms" -> comparable /\ latency >= 200
            [] i = "volume_rate"     -> base.n >= Largest(VolumeBaselineMin, 1) /\ volume < 25}
  BY DEF LeadingIndicators
<1> HIDE DEF known, volume, comparable, timeout, slow, latency
<1>8. ~(timeout >= 50) /\ ~(latency >= 200)
      /\ ~(base.n >= Largest(VolumeBaselineMin, 1) /\ volume < 25)
  BY <1>3, <1>4, <1>5, <1>6
<1> QED BY <1>7, <1>8 DEF Indicators

\* What the constants are assumed to be, in the form the proofs use.
LEMMA SpanFacts ==
  /\ Window \in Nat \ {0} /\ Trailing \in Nat \ {0} /\ Span = Trailing + Window
  /\ EpisodeGap \in Nat /\ Lookback \in Nat /\ MaxBuckets \in Nat /\ MaxChanges \in Nat
  /\ Span <= MaxBuckets /\ "healthy" \in Scenario
  BY DetectionAssumption, SweepAssumption DEF Span

\* A reading is of a slice that holds traffic.
LEMMA ReadingsOf ==
  ASSUME NEW h, NEW r \in Readings(h)
  PROVE  /\ r.cohort \in Cohort
         /\ r = Reading([i \in 1..Window |-> h[Trailing + i]], [i \in 1..Trailing |-> h[i]], r.cohort)
         /\ HasReason(r) => StillHot(r) \/ r.degraded # {}
<1> DEFINE window == [i \in 1..Window |-> h[Trailing + i]]
           trailing == [i \in 1..Trailing |-> h[i]]
<1>1. PICK c \in Cohort : r = Reading(window, trailing, c)
  BY DEF Readings
<1> HIDE DEF window, trailing
<1>2. r.cohort = c
  BY <1>1 DEF Reading, ReadingOf
<1>3. r.near => r.z <= WatchZMax /\ r.drop >= WatchDropMin
  BY <1>1 DEF Reading, ReadingOf, WatchFloors
<1> QED BY <1>1, <1>2, <1>3 DEF window, trailing, HasReason, StillHot

\* A cohort whose cells were healthy in the window is not hot, and none of its
\* signals is degraded, whatever the trailing buckets hold.
LEMMA HealthyReading ==
  ASSUME HealthyIsBest, NEW h \in [1..Span -> Scenario], NEW r \in Readings(h),
         \A cell \in CellsOf(r.cohort), i \in InWindow : Healthy(h[i], cell),
         Platform \in Cohort
  PROVE  ~StillHot(r) /\ r.degraded = {}
<1> DEFINE window == [i \in 1..Window |-> h[Trailing + i]]
           trailing == [i \in 1..Trailing |-> h[i]]
           c == r.cohort
           seen == Measured(window, c)
           base == Measured(trailing, c)
           parent == Measured(trailing, Platform)
<1>1. c \in Cohort /\ r = Reading(window, trailing, c)
  BY ReadingsOf
<1>2. /\ window \in [1..Window -> Scenario] /\ trailing \in [1..Trailing -> Scenario]
      /\ \A i \in 1..Window, cell \in CellsOf(c) : Healthy(window[i], cell)
  BY SpanFacts DEF InWindow
<1> HIDE DEF window, trailing, c
<1>3. /\ seen \in Counts /\ base \in Counts /\ parent \in Counts
      /\ NoBetter(base, seen) /\ NoBetter(parent, seen)
      /\ \E H \in Nat : seen.n >= Window * H /\ base.n <= Trailing * H
  BY <1>1, <1>2, SpanFacts, HealthyWindow
<1> DEFINE e == Evaluate(seen, base, parent)
           signals == LeadingIndicators(seen, base)
<1>4. /\ r.qualifies = e.qualifies /\ r.drop = e.drop
      /\ r.degraded = IF e.qualifies THEN {} ELSE signals.degraded
  BY <1>1 DEF Reading, ReadingOf
<1> HIDE DEF seen, base, parent
<1>5. e.drop \in Int /\ e.drop <= 0 /\ ~e.qualifies
  <2>1. CASE seen.n = 0 \/ parent.n = 0
    BY <2>1 DEF Evaluate, NoMeasurement
  <2>2. CASE seen.n # 0 /\ parent.n # 0
    <3>1. /\ BaselineConversion(base, parent) \in Int /\ Rate(seen.ok, seen.n) \in Int
          /\ BaselineConversion(base, parent) <= Rate(seen.ok, seen.n)
      BY <1>3, <2>2, ExpectedAtMost
    <3>2. e.drop = BaselineConversion(base, parent) - Rate(seen.ok, seen.n)
      BY <2>2 DEF Evaluate, Floors
    <3>3. e.qualifies => e.drop >= AbsDropMin
      BY <2>2 DEF Evaluate, Floors
    <3> HIDE DEF e
    <3> QED BY <3>1, <3>2, <3>3 DEF AbsDropMin
  <2> QED BY <2>1, <2>2
<1>6. signals.degraded = {}
  BY <1>3, HealthySignals
<1> HIDE DEF e, signals
<1> QED BY <1>4, <1>5, <1>6 DEF StillHot, WatchDropMin

\* Where anything can be measured, the platform is a cohort.
LEMMA PlatformIsCohort ==
  ASSUME Cohort # {}
  PROVE  Platform \in Cohort
<1>1. PICK cell \in Cells : TRUE
  BY DEF Cohort
<1>2. Restrict(cell, {}) = << >>
  BY DEF Restrict
<1>3. {} \in SUBSET Dimension
  OBVIOUS
<1> QED BY <1>1, <1>2, <1>3 DEF Cohort, Platform

\* There are finitely many cohorts.
LEMMA CohortFinite == IsFiniteSet(Cohort)
<1>1. IsFiniteSet(Dimension)
  <2>1. Len(DimensionOrder) \in Nat /\ DOMAIN DimensionOrder = 1..Len(DimensionOrder)
    BY DetectionAssumption
  <2>2. DimensionOrder \in Surjection(1..Len(DimensionOrder), Dimension)
    BY <2>1, DetectionAssumption DEF Surjection, Dimension, ToSet
  <2> QED BY <2>1, <2>2, FS_Interval, FS_Surjection
<1>2. IsFiniteSet(Cells \X SUBSET Dimension)
  BY <1>1, DetectionAssumption, FS_SUBSET, FS_Product
<1> DEFINE f == [p \in Cells \X SUBSET Dimension |-> Restrict(p[1], p[2])]
<1>3. f \in Surjection(Cells \X SUBSET Dimension, Cohort)
  <2>1. f \in [Cells \X SUBSET Dimension -> Cohort]
    BY DEF Cohort
  <2>2. ASSUME NEW c \in Cohort PROVE \E p \in Cells \X SUBSET Dimension : f[p] = c
    <3>1. PICK cell \in Cells, D \in SUBSET Dimension : c = Restrict(cell, D)
      BY DEF Cohort
    <3>2. <<cell, D>> \in Cells \X SUBSET Dimension /\ f[<<cell, D>>] = c
      BY <3>1
    <3> QED BY <3>2
  <2> HIDE DEF f
  <2> QED BY <2>1, <2>2 DEF Surjection
<1> HIDE DEF f
<1> QED BY <1>2, <1>3, FS_Surjection

\* So their keys can be compared as numbers.
LEMMA CohortKeyIsNat == \A c \in Cohort : CohortKey[c] \in Nat
<1>1. \A S \in SUBSET Cohort : Cardinality(S) \in Nat
  BY CohortFinite, FS_Subset, FS_CardinalityType
<1> QED BY <1>1 DEF CohortKey

\* An episode starts in a bucket that was read.
LEMMA EpisodeOnset ==
  ASSUME NEW h \in [1..Span -> Scenario], NEW c, NEW expected
  PROVE  EpisodeExtent(h, c, expected).onset \in 1..Span
<1>1. \A S \in SUBSET (1..Span) : S # {} => Min(S) \in S
  <2>1. ASSUME NEW S \in SUBSET (1..Span), S # {} PROVE Min(S) \in S
    <3>1. S \in SUBSET Nat
      BY SpanFacts
    <3>2. \E m \in S : \A k \in S : m <= k
      BY <3>1, <2>1, LeastNat
    <3> QED BY <3>2 DEF Min
  <2> QED BY <2>1
<1>2. Trailing + 1 \in 1..Span
  BY SpanFacts
<1> QED BY <1>1, <1>2 DEF EpisodeExtent

-----------------------------------------------------------------------------
(* localise and build_watches stay among the readings they are given *)

\* Siblings are slices of their parent.
LEMMA SiblingsSharpen ==
  ASSUME NEW R, NEW c, NEW d
  PROVE  Siblings(R, c, d) \subseteq {r \in R : IsSharpening(c, r.cohort)}
  BY DEF Siblings

\* A descent of localise stays among the readings.
LEMMA DescentRead ==
  ASSUME NEW R, NEW p \in R
  PROVE  Descent(R, p) \subseteq R
<1> DEFINE c == p.cohort
           contrast  == {r \in R : \E b \in BestSplit(R, c) : b.separation >= MinSeparation /\ r = b.winner}
           qualified == ByAxis(c, UniqueChildren(R, c, {r \in R : r.qualifies}))
           nearMiss  == ByAxis(c, {r \in UniqueChildren(R, c, {x \in R : NearMissChild(x) \/ x.qualifies}) :
                               NearMissChild(r)})
           sharper   == Sharper(Siblings(R, c, "merchant_id"), p)
           single    == Sharpest(Singletons(R, c))
<1>1. contrast \subseteq R
  OBVIOUS
<1>2. \A rivals : UniqueChildren(R, c, rivals) \subseteq R
  BY SiblingsSharpen DEF UniqueChildren
<1>3. \A S : ByAxis(c, S) \subseteq S
  BY DEF ByAxis, Sharpest
<1>4. qualified \subseteq R /\ nearMiss \subseteq R
  BY <1>2, <1>3
<1>5. sharper \subseteq R
  BY SiblingsSharpen DEF Sharper
<1>6. single \subseteq R
  BY SiblingsSharpen DEF Sharpest, Singletons
<1>7. Descent(R, p) = FirstOf(contrast, IF p.qualifies THEN FirstOf(sharper, single)
                                        ELSE FirstOf(qualified, nearMiss))
  BY DEF Descent
<1> HIDE DEF contrast, qualified, nearMiss, sharper, single
<1> QED BY <1>1, <1>4, <1>5, <1>6, <1>7 DEF FirstOf

\* What is reported as an incident is a reading that passes the floors.
LEMMA IncidentQualifies ==
  ASSUME NEW R
  PROVE  BuildIncident(R) \subseteq {r \in R : r.qualifies}
<1>1. \A S \in SUBSET R : Deeper(R, S) \in SUBSET R
  BY DescentRead DEF Deeper, FirstOf
<1> DEFINE p == {r \in R : r.cohort = Platform}
           q == Deeper(R, p)
           s == Deeper(R, q)
<1>2. p \in SUBSET R /\ q \in SUBSET R /\ s \in SUBSET R /\ Deeper(R, s) \in SUBSET R
  <2>1. p \in SUBSET R
    OBVIOUS
  <2> HIDE DEF p
  <2>2. q \in SUBSET R
    BY <1>1, <2>1
  <2> HIDE DEF q
  <2>3. s \in SUBSET R
    BY <1>1, <2>2
  <2> HIDE DEF s
  <2> QED BY <1>1, <2>1, <2>2, <2>3
<1>3. Localise(R) = <<Deeper(R, s), s, q, p>>
  BY DEF Localise
<1> HIDE DEF p, q, s
<1> QED BY <1>2, <1>3 DEF BuildIncident, Qualified, FirstOf

\* A near miss is deepened to a reading of a slice of its cohort (_deepen_near_miss_entry).
LEMMA DeepenSharpens ==
  ASSUME NEW R, NEW p \in R
  PROVE  Deepen(R, p) \in R /\ IsSharpening(p.cohort, Deepen(R, p).cohort)
<1> DEFINE c == p.cohort
           below == {r \in R : IsSharpening(c, r.cohort)}
           wide     == {q \in {<<d, Siblings(R, c, d)>> : d \in OpenAxes(c)} : Cardinality(q[2]) >= 2}
           contrast == UNION {Contrast(q[1], q[2], p) : q \in wide}
           holding  == UNION {Undiluted(q[1], q[2], p) : q \in wide}
           choice   == FirstOf(BestChild(contrast), FirstOf(BestChild(holding), {p}))
<1>1. \A q \in wide : q[2] \subseteq below
  BY SiblingsSharpen
<1>2. \A x \in contrast : x.child \in below
  BY <1>1 DEF Contrast, Sharpest
<1>3. \A x \in holding : x.child \in below
  BY <1>1 DEF Undiluted
<1>4. p \in below
  BY DEF IsSharpening
<1>5. \A S : BestChild(S) \subseteq {x.child : x \in S}
  BY DEF BestChild
<1>6. Deepen(R, p) = CHOOSE child \in choice : TRUE
  BY DEF Deepen
<1> HIDE DEF wide, contrast, holding, below
<1>7. BestChild(contrast) \subseteq below /\ BestChild(holding) \subseteq below
  BY <1>2, <1>3, <1>5
<1>8. choice \subseteq below /\ choice # {}
  BY <1>4, <1>7 DEF FirstOf
<1> HIDE DEF choice
<1>9. Deepen(R, p) \in below
  BY <1>6, <1>8
<1> QED BY <1>9 DEF below

\* A slice of a slice is a slice.
LEMMA SharpeningIsTransitive ==
  ASSUME NEW a, NEW b, NEW c, IsSharpening(a, b), IsSharpening(b, c)
  PROVE  IsSharpening(a, c)
  BY DEF IsSharpening

\* Where a near miss comes from: the reading s of a dimension's value, deepened to q,
\* and at most then brought back to merchant and provider.
Stems(w, s, q, candidates, formed) ==
  /\ s \in candidates \/ DOMAIN s.cohort = {"provider"}
  /\ ~ContainsFormedTraffic(s.cohort, formed)
  /\ IsSharpening(s.cohort, q.cohort)
  /\ w = q \/ (Core \subseteq DOMAIN q.cohort /\ w.cohort = Restrict(q.cohort, Core))

LEMMA NearMissFrom ==
  ASSUME NEW R, NEW candidates \in SUBSET R, NEW formed, NEW w \in SelectNearMiss(R, candidates, formed)
  PROVE  /\ w \in R /\ w.near
         /\ \E s \in R, q \in R : Stems(w, s, q, candidates, formed)
<1> DEFINE diluted == {r \in R : /\ DOMAIN r.cohort = {"provider"} /\ ~r.near /\ ~r.qualifies
                            /\ r.drop >= WatchDropMin /\ r.n >= NPaymentsMin /\ r.z <= -10}
           seeds   == {r \in {x \in candidates : x.near} \cup diluted :
                         ~ContainsFormedTraffic(r.cohort, formed)}
           deepest(r) == Deepen(R, Deepen(R, Deepen(R, r)))
           core(r) == IF Core \subseteq DOMAIN r.cohort
                      THEN {x \in R : x.cohort = Restrict(r.cohort, Core)} ELSE {r}
<1>1. \A S : Strongest(S) \subseteq S
  BY DEF Strongest
<1>2. SelectNearMiss(R, candidates, formed) =
        Strongest({r \in UNION {core(deepest(s)) : s \in seeds} : r.near})
  BY DEF SelectNearMiss
<1>3. w.near /\ w \in UNION {core(deepest(s)) : s \in seeds}
  BY <1>1, <1>2
<1>4. PICK s \in seeds : w \in core(deepest(s))
  BY <1>3
<1>5. /\ s \in R /\ (s \in candidates \/ DOMAIN s.cohort = {"provider"})
      /\ ~ContainsFormedTraffic(s.cohort, formed)
  BY <1>4
<1>6. deepest(s) \in R /\ IsSharpening(s.cohort, deepest(s).cohort)
  <2>1. Deepen(R, s) \in R /\ IsSharpening(s.cohort, Deepen(R, s).cohort)
    BY <1>5, DeepenSharpens
  <2>2. /\ Deepen(R, Deepen(R, s)) \in R
        /\ IsSharpening(Deepen(R, s).cohort, Deepen(R, Deepen(R, s)).cohort)
    BY <2>1, DeepenSharpens
  <2>3. deepest(s) \in R /\ IsSharpening(Deepen(R, Deepen(R, s)).cohort, deepest(s).cohort)
    BY <2>2, DeepenSharpens
  <2> QED BY <2>1, <2>2, <2>3, SharpeningIsTransitive
<1> DEFINE q == deepest(s)
<1>7. w \in R /\ (w = q \/ (Core \subseteq DOMAIN q.cohort /\ w.cohort = Restrict(q.cohort, Core)))
  BY <1>4, <1>6
<1> HIDE DEF q, seeds
<1>8. q \in R /\ IsSharpening(s.cohort, q.cohort)
  BY <1>6 DEF q
<1>9. Stems(w, s, q, candidates, formed)
  BY <1>5, <1>7, <1>8 DEF Stems
<1> QED BY <1>3, <1>5, <1>7, <1>8, <1>9

\* With a formed cohort, a candidate is one value of a dimension that keeps off it.
LEMMA CandidatesOf ==
  ASSUME NEW R, NEW formed
  PROVE  /\ WatchCandidates(R, formed) \subseteq R
         /\ formed # {} /\ formed # {Platform} =>
              \A r \in WatchCandidates(R, formed) :
                DOMAIN r.cohort # {} /\ ~ContainsFormedTraffic(r.cohort, formed)
<1> DEFINE eligible(d) == {r \in R : DOMAIN r.cohort = {d} /\ ~ContainsFormedTraffic(r.cohort, formed)}
           told(d)     == {r \in eligible(d) : HasReason(r)}
           localised   == UNION {told(d) : d \in {x \in Dimension :
                                  Cardinality(Values(x)) >= 2 /\ told(x) # eligible(x)}}
<1>1. \A r \in localised : r \in R /\ DOMAIN r.cohort # {} /\ ~ContainsFormedTraffic(r.cohort, formed)
  OBVIOUS
<1>2. WatchCandidates(R, formed) =
        IF localised = {} /\ (formed = {} \/ formed = {Platform})
        THEN {r \in R : r.cohort = Platform /\ HasReason(r)} ELSE localised
  BY DEF WatchCandidates
<1> HIDE DEF localised
<1> QED BY <1>1, <1>2

\* Every watch has a reason, and comes of the near misses or of a candidate.
LEMMA WatchesOf ==
  ASSUME NEW R, NEW formed, NEW w \in BuildWatches(R, formed)
  PROVE  /\ w \in R /\ HasReason(w)
         /\ \/ w \in WatchCandidates(R, formed)
            \/ w \in SelectNearMiss(R, WatchCandidates(R, formed), formed)
<1> DEFINE candidates == WatchCandidates(R, formed)
           nearMiss == SelectNearMiss(R, candidates, formed)
<1>1. candidates \in SUBSET R
  BY CandidatesOf
<1>2. \A i, holders : MostExtreme(i, holders) \subseteq holders
  BY DEF MostExtreme
<1>3. BuildWatches(R, formed) = WatchesAmong(candidates, nearMiss)
  BY DEF BuildWatches, WatchesFrom
<1> HIDE DEF candidates, nearMiss
<1>4. \A x \in WatchesAmong(candidates, nearMiss) :
        x \in nearMiss \/ (x \in candidates /\ x.degraded # {})
  BY <1>2 DEF WatchesAmong
<1>5. w \in nearMiss => w \in R /\ w.near
  BY <1>1, NearMissFrom DEF nearMiss
<1> QED BY <1>1, <1>3, <1>4, <1>5 DEF HasReason, candidates, nearMiss

\* A watch and a formed incident disagree on a dimension of both.
LEMMA WatchesAreElsewhere ==
  ASSUME NEW R, NEW formed, NEW w \in BuildWatches(R, formed), NEW f \in formed, f # Platform,
         DOMAIN f \subseteq Core \/ DOMAIN w.cohort # Core
  PROVE  CellsOf(f) \cap CellsOf(w.cohort) = {}
<1> DEFINE candidates == WatchCandidates(R, formed)
<1>1. formed # {} /\ formed # {Platform}
  OBVIOUS
<1>2. ASSUME NEW c, ~ContainsFormedTraffic(c, formed)
      PROVE  \A d \in DOMAIN c : d \in DOMAIN f /\ f[d] # c[d]
  BY <1>1, <1>2 DEF ContainsFormedTraffic
<1>3. \E d \in DOMAIN w.cohort : d \in DOMAIN f /\ f[d] # w.cohort[d]
  <2>1. CASE w \in candidates
    <3>1. DOMAIN w.cohort # {} /\ ~ContainsFormedTraffic(w.cohort, formed)
      BY <1>1, <2>1, CandidatesOf
    <3> QED BY <1>2, <3>1
  <2>2. CASE w \in SelectNearMiss(R, candidates, formed)
    <3>1. candidates \in SUBSET R
      BY CandidatesOf
    <3>8. PICK s \in R, q \in R : Stems(w, s, q, candidates, formed)
      BY <2>2, <3>1, NearMissFrom
    <3>2. /\ s \in candidates \/ DOMAIN s.cohort = {"provider"}
          /\ ~ContainsFormedTraffic(s.cohort, formed)
          /\ IsSharpening(s.cohort, q.cohort)
          /\ w = q \/ (Core \subseteq DOMAIN q.cohort /\ w.cohort = Restrict(q.cohort, Core))
      BY <3>8 DEF Stems
    <3>3. DOMAIN s.cohort # {}
      BY <1>1, <3>2, CandidatesOf
    <3>4. PICK d \in DOMAIN s.cohort : d \in DOMAIN f /\ f[d] # s.cohort[d]
      BY <1>2, <3>2, <3>3
    <3>5. d \in DOMAIN q.cohort /\ q.cohort[d] = s.cohort[d]
      BY <3>2 DEF IsSharpening
    <3>6. CASE w = q
      BY <3>4, <3>5, <3>6
    <3>7. CASE Core \subseteq DOMAIN q.cohort /\ w.cohort = Restrict(q.cohort, Core)
      <4>1. DOMAIN w.cohort = Core /\ \A x \in Core : w.cohort[x] = q.cohort[x]
        BY <3>7 DEF Restrict
      <4> QED BY <3>4, <3>5, <4>1
    <3> QED BY <3>2, <3>6, <3>7
  <2> QED BY <2>1, <2>2, WatchesOf
<1> QED BY <1>3 DEF CellsOf

-----------------------------------------------------------------------------
(* The inductive invariant *)

\* What the sweep reports of the readings it took, saved or still to save.
Named == {[cohort |-> e.reading.cohort, state |-> e.state] : e \in sweep.todo}
         \cup {[cohort |-> e.cohort, state |-> e.state] : e \in sweep.log}

\* A row keeps the onset its identifier was hashed from, and was last seen by now.
Pinned == \A i \in DOMAIN incidents : incidents[i].onset = i[1] /\ incidents[i].seen <= now

\* A sweep under way saves what it measured of the traffic up to now.
Underway ==
  /\ sweep.todo # {} => sweep.saving
  /\ sweep.saving => sweep.at = now
  /\ \A e \in sweep.todo : e.reading.seen = now /\ e.reading.onset <= now

Spared ==
  \A f, w \in Named :
    /\ f.state = "detected" /\ w.state = "watching" /\ f.cohort # Platform
    /\ DOMAIN f.cohort \subseteq Core \/ DOMAIN w.cohort # Core
    => CellsOf(f.cohort) \cap CellsOf(w.cohort) = {}

SweepInv == TypeOK /\ Pinned /\ Underway /\ Spared

\* All that the sweep found, hot or named, ails in the window.
Ailing ==
  sweep.at = now =>
    \A c \in sweep.hot \cup {x.cohort : x \in Named} :
      \E cell \in CellsOf(c), i \in InWindow : ~Healthy(scenes[i], cell)

CalmInv == Ailing /\ QuietBoard

\* r is what a reported entry e was read from.
ReadFrom(e, r, R) ==
  /\ e.reading = [cohort |-> r.cohort, seen |-> now,
                  onset |-> now - Span + EpisodeExtent(scenes, r.cohort, r.expected).onset]
  /\ \/ e.state = "detected" /\ r \in BuildIncident(R) /\ r.qualifies
     \/ /\ e.state = "watching" /\ HasReason(r)
        /\ r \in BuildWatches(R, {x.cohort : x \in BuildIncident(R)})

\* Every entry of a report was read from a reading that justifies it.
LEMMA ReportOf ==
  ASSUME NEW R, NEW e \in Report(R)
  PROVE  \E r \in R : ReadFrom(e, r, R)
<1> DEFINE onset(r)    == now - Span + EpisodeExtent(scenes, r.cohort, r.expected).onset
           entry(r, s) == [reading |-> [cohort |-> r.cohort, seen |-> now, onset |-> onset(r)], state |-> s]
           formed      == BuildIncident(R)
           watches     == BuildWatches(R, {r.cohort : r \in formed})
<1>1. Report(R) = {entry(r, "detected") : r \in formed} \cup {entry(r, "watching") : r \in watches}
  BY DEF Report
<1>2. ASSUME NEW r \in formed, e = entry(r, "detected")
      PROVE  r \in R /\ r.qualifies /\ e.reading = entry(r, "detected").reading /\ e.state = "detected"
  BY <1>2, IncidentQualifies
<1>3. ASSUME NEW r \in watches, e = entry(r, "watching")
      PROVE  r \in R /\ HasReason(r) /\ e.reading = entry(r, "watching").reading /\ e.state = "watching"
  <2>1. r \in R /\ HasReason(r)
    <3> HIDE DEF formed
    <3> QED BY WatchesOf
  <2> QED BY <1>3, <2>1
<1>4. \A r, s : entry(r, s).reading = [cohort |-> r.cohort, seen |-> now, onset |-> onset(r)]
  OBVIOUS
<1> HIDE DEF formed, entry, onset
<1>5. (\E r \in formed : e = entry(r, "detected")) \/ (\E r \in watches : e = entry(r, "watching"))
  <2> HIDE DEF watches
  <2> QED BY <1>1
<1>6. CASE \E r \in formed : e = entry(r, "detected")
  BY <1>2, <1>4, <1>6 DEF formed, onset, ReadFrom
<1>7. CASE \E r \in watches : e = entry(r, "watching")
  BY <1>3, <1>4, <1>7 DEF formed, onset, ReadFrom
<1> QED BY <1>5, <1>6, <1>7

\* live_incidents orders the rows, so that a first one can be adopted.
LEMMA EarliestIs ==
  ASSUME TypeOK, Pinned, NEW S \in SUBSET DOMAIN incidents, S # {}
  PROVE  Earliest(incidents, S) \in S
<1>1. \A i \in S : incidents[i].onset \in Nat /\ CohortKey[i[2]] \in Nat
  BY CohortKeyIsNat, SpanFacts DEF TypeOK, Row, Id
<1> DEFINE onsets == {incidents[i].onset : i \in S}
<1>2. PICK i \in S : \A j \in S : incidents[i].onset <= incidents[j].onset
  <2>1. onsets \in SUBSET Nat /\ onsets # {}
    BY <1>1
  <2>2. PICK m \in onsets : \A k \in onsets : m <= k
    <3> HIDE DEF onsets
    <3> QED BY <2>1, LeastNat
  <2> QED BY <2>2
<1> DEFINE same == {j \in S : incidents[j].onset = incidents[i].onset}
           keys == {CohortKey[j[2]] : j \in same}
<1>3. PICK k \in same : \A j \in same : CohortKey[k[2]] <= CohortKey[j[2]]
  <2>1. keys \in SUBSET Nat /\ keys # {}
    BY <1>1
  <2>2. PICK m \in keys : \A n \in keys : m <= n
    <3> HIDE DEF keys
    <3> QED BY <2>1, LeastNat
  <2> QED BY <2>2
<1>4. \A j \in S : \/ incidents[k].onset < incidents[j].onset
                   \/ incidents[k].onset = incidents[j].onset /\ CohortKey[k[2]] <= CohortKey[j[2]]
  BY <1>1, <1>2, <1>3
<1> QED BY <1>3, <1>4 DEF Earliest

\* A reading is saved under an identifier that holds its onset, adopted or minted
\* (adopt_watch_identity, incident_id_for).
LEMMA Adopted ==
  ASSUME TypeOK, Pinned, NEW taken, NEW reading \in Measurement,
         reading.seen = now, reading.onset <= now
  PROVE  LET s == Adopt(incidents, taken, reading)
         IN /\ s.id \in Id /\ s.reading \in Measurement
            /\ s.reading.seen = now /\ s.reading.onset <= now /\ s.reading.onset = s.id[1]
<1> DEFINE matches == Matches(incidents, taken, reading)
           row == Earliest(incidents, matches)
<1>1. matches \in SUBSET DOMAIN incidents
  BY DEF Matches, Live
<1>2. CASE matches = {}
  BY <1>2 DEF Adopt, IncidentIdFor, Id, Measurement
<1>3. CASE matches # {}
  <2>1. row \in DOMAIN incidents
    <3> HIDE DEF matches
    <3> QED BY <1>1, <1>3, EarliestIs
  <2>2. /\ row \in Id /\ incidents[row].onset = row[1] /\ incidents[row].onset \in 1..MaxBuckets
        /\ incidents[row].onset <= now
    <3> HIDE DEF row
    <3>1. /\ row \in Id /\ incidents[row] \in Row /\ incidents[row].onset = row[1]
          /\ incidents[row].onset <= incidents[row].seen /\ incidents[row].seen <= now
      BY <2>1 DEF TypeOK, Pinned
    <3>2. incidents[row].onset \in Int /\ incidents[row].seen \in Int /\ now \in Int
      BY <3>1, SpanFacts DEF Row, TypeOK
    <3> QED BY <3>1, <3>2 DEF Row
  <2>3. Adopt(incidents, taken, reading) =
          [id |-> row, reading |-> [reading EXCEPT !.onset = incidents[row].onset]]
    BY <1>3 DEF Adopt
  <2> HIDE DEF row
  <2> QED BY <2>2, <2>3 DEF Measurement
<1> QED BY <1>2, <1>3

\* save_incident adds or re-measures one row, and keeps its onset.
LEMMA Saved ==
  ASSUME TypeOK, Pinned, NEW id \in Id, NEW reading \in Measurement, NEW s \in LiveStates,
         reading.seen = now, reading.onset <= now, reading.onset = id[1]
  PROVE  LET t == Save(incidents, id, reading, s)
         IN /\ DOMAIN t = DOMAIN incidents \cup {id}
            /\ \A i \in DOMAIN t : /\ t[i] \in Row /\ t[i].onset = i[1]
                                   /\ t[i].onset <= t[i].seen /\ t[i].seen <= now
<1> DEFINE fresh    == id \notin DOMAIN incidents
           writable == incidents[id].state \in (IF s = "watching" THEN {"watching"} ELSE LiveStates)
           kept     == IF fresh \/ incidents[id].state = "watching" THEN s ELSE incidents[id].state
           row      == [cohort |-> reading.cohort, onset |-> reading.onset,
                        seen |-> reading.seen, state |-> kept]
<1>1. \A i \in DOMAIN incidents : /\ incidents[i] \in Row /\ incidents[i].onset = i[1]
                                  /\ incidents[i].onset <= incidents[i].seen /\ incidents[i].seen <= now
  BY DEF TypeOK, Pinned
<1>2. kept \in LiveStates \cup {"resolved"}
  BY <1>1 DEF Row
<1>3. row \in Row /\ row.onset = id[1] /\ row.onset <= row.seen /\ row.seen <= now
  <2> HIDE DEF kept
  <2> QED BY <1>2 DEF Row, Measurement
<1>4. Save(incidents, id, reading, s) =
        IF fresh \/ writable
        THEN [i \in DOMAIN incidents \cup {id} |-> IF i = id THEN row ELSE incidents[i]]
        ELSE incidents
  BY DEF Save
<1>5. ~fresh => id \in DOMAIN incidents
  OBVIOUS
<1> HIDE DEF row, fresh, writable
<1> QED BY <1>1, <1>3, <1>4, <1>5

\* The invariant holds of the empty table, ...
LEMMA InitInv == Init => SweepInv
<1> SUFFICES ASSUME Init PROVE SweepInv
  OBVIOUS
<1> USE DEF Init, NoSweep
<1>1. DOMAIN incidents = {}
  OBVIOUS
<1>2. TypeOK
  BY <1>1, SpanFacts DEF TypeOK, Span
<1>3. Pinned /\ Underway /\ Spared
  BY <1>1 DEF Pinned, Underway, Spared, Named
<1> QED BY <1>2, <1>3 DEF SweepInv

\* What is reported is measured now, its onset within what was read.
LEMMA MeasuredWell ==
  ASSUME TypeOK, NEW e \in Report(Readings(scenes))
  PROVE  /\ e.reading \in Measurement /\ e.state \in LiveStates
         /\ e.reading.seen = now /\ e.reading.onset <= now
<1>0. PICK r \in Readings(scenes) : ReadFrom(e, r, Readings(scenes))
  BY ReportOf
<1>1. /\ e.reading = [cohort |-> r.cohort, seen |-> now,
                      onset |-> now - Span + EpisodeExtent(scenes, r.cohort, r.expected).onset]
      /\ e.state \in LiveStates
  BY <1>0 DEF LiveStates, ReadFrom
<1>2. r.cohort \in Cohort
  BY ReadingsOf
<1>3. EpisodeExtent(scenes, r.cohort, r.expected).onset \in 1..Span
  BY EpisodeOnset DEF TypeOK
<1>4. now \in Span..MaxBuckets /\ Span \in Nat
  BY SpanFacts DEF TypeOK
<1> QED BY <1>1, <1>2, <1>3, <1>4, SpanFacts DEF Measurement

\* A bucket later, as many buckets are read.
LEMMA SceneShift ==
  ASSUME scenes \in [1..Span -> Scenario], NEW s \in Scenario
  PROVE  Append(Tail(scenes), s) \in [1..Span -> Scenario]
<1>1. Span \in Nat \ {0}
  BY SpanFacts
<1>2. scenes \in Seq(Scenario) /\ Len(scenes) = Span
  BY <1>1
<1>3. Tail(scenes) \in Seq(Scenario) /\ Len(Tail(scenes)) = Span - 1
  BY <1>1, <1>2
<1>4. Append(Tail(scenes), s) \in Seq(Scenario) /\ Len(Append(Tail(scenes), s)) = Span
  BY <1>1, <1>3
<1> QED BY <1>4, LenProperties

\* ... is kept by the measurement, ...
LEMMA MeasureKeeps ==
  ASSUME SweepInv, Measure
  PROVE  SweepInv'
<1> DEFINE R == Readings(scenes)
<1>1. /\ sweep' = [at |-> now, saving |-> TRUE, todo |-> Report(R),
                   hot |-> {r.cohort : r \in {x \in R : StillHot(x)}}, log |-> {}]
      /\ UNCHANGED <<scenes, now, changes, incidents>>
  BY DEF Measure
<1>2. \A e \in Report(R) : /\ e.reading \in Measurement /\ e.state \in LiveStates
                           /\ e.reading.seen = now /\ e.reading.onset <= now
  BY MeasuredWell DEF SweepInv
<1>3. \A r \in R : r.cohort \in Cohort
  BY ReadingsOf
<1> HIDE DEF R
<1>4. TypeOK'
  <2>1. now \in Span..now
    BY SpanFacts DEF SweepInv, TypeOK
  <2>2. DOMAIN sweep' = DOMAIN NoSweep
    BY <1>1 DEF NoSweep
  <2> QED BY <1>1, <1>2, <1>3, <2>1, <2>2 DEF SweepInv, TypeOK
<1>5. Pinned' /\ Underway'
  BY <1>1, <1>2 DEF SweepInv, Pinned, Underway
<1>6. Spared'
  <2> SUFFICES ASSUME NEW f \in Report(R), NEW w \in Report(R), f.state = "detected", w.state = "watching",
                      f.reading.cohort # Platform,
                      DOMAIN f.reading.cohort \subseteq Core \/ DOMAIN w.reading.cohort # Core
               PROVE  CellsOf(f.reading.cohort) \cap CellsOf(w.reading.cohort) = {}
    BY <1>1 DEF Spared, Named
  <2>1. PICK p \in R : ReadFrom(f, p, R)
    BY ReportOf
  <2>2. PICK q \in R : ReadFrom(w, q, R)
    BY ReportOf
  <2>3. p \in BuildIncident(R) /\ f.reading.cohort = p.cohort
    BY <2>1 DEF ReadFrom
  <2>4. q \in BuildWatches(R, {x.cohort : x \in BuildIncident(R)}) /\ w.reading.cohort = q.cohort
    BY <2>2 DEF ReadFrom
  <2> DEFINE formed == {x.cohort : x \in BuildIncident(R)}
  <2>5. p.cohort \in formed /\ q \in BuildWatches(R, formed)
    BY <2>3, <2>4
  <2> HIDE DEF formed
  <2> QED BY <2>3, <2>4, <2>5, WatchesAreElsewhere
<1> QED BY <1>4, <1>5, <1>6 DEF SweepInv

\* ... by saving a reading, which moves a name from what is to be saved to what is, ...
LEMMA RecordKeeps ==
  ASSUME SweepInv, NEW e \in sweep.todo, Record(e)
  PROVE  SweepInv' /\ Named' = Named
<1>1. PICK saved : /\ saved = Adopt(incidents, Taken, e.reading)
                   /\ incidents' = Save(incidents, saved.id, saved.reading, e.state)
                   /\ sweep' = [sweep EXCEPT
                        !.todo = @ \ {e},
                        !.log  = @ \cup {[id |-> saved.id, cohort |-> e.reading.cohort, state |-> e.state,
                                          priors |-> Priors(incidents, e.reading.cohort, e.reading.onset)]}]
  BY DEF Record
<1>2. sweep.saving /\ scenes' = scenes /\ now' = now /\ changes' = changes
  BY DEF Record
<1>3. e.reading \in Measurement /\ e.state \in LiveStates /\ e.reading.seen = now /\ e.reading.onset <= now
  BY DEF SweepInv, TypeOK, Underway
<1>4. /\ saved.id \in Id /\ saved.reading \in Measurement
      /\ saved.reading.seen = now /\ saved.reading.onset <= now /\ saved.reading.onset = saved.id[1]
  BY <1>1, <1>3, Adopted DEF SweepInv
<1>5. /\ DOMAIN incidents' = DOMAIN incidents \cup {saved.id}
      /\ \A i \in DOMAIN incidents' : /\ incidents'[i] \in Row /\ incidents'[i].onset = i[1]
                                      /\ incidents'[i].onset <= incidents'[i].seen
                                      /\ incidents'[i].seen <= now
  BY <1>1, <1>3, <1>4, Saved DEF SweepInv
<1> DEFINE item == [id |-> saved.id, cohort |-> e.reading.cohort, state |-> e.state,
                    priors |-> Priors(incidents, e.reading.cohort, e.reading.onset)]
<1>6. /\ sweep'.at = sweep.at /\ sweep'.saving = sweep.saving /\ sweep'.hot = sweep.hot
      /\ sweep'.todo = sweep.todo \ {e} /\ sweep'.log = sweep.log \cup {item}
  <2>1. DOMAIN sweep = {"at", "saving", "todo", "hot", "log"}
    BY DEF SweepInv, TypeOK, NoSweep
  <2> QED BY <1>1, <2>1
<1>7. Named' = Named
  <2> DEFINE name(x) == [cohort |-> x.reading.cohort, state |-> x.state]
             told(x) == [cohort |-> x.cohort, state |-> x.state]
  <2>1. /\ Named = {name(x) : x \in sweep.todo} \cup {told(x) : x \in sweep.log}
        /\ Named' = {name(x) : x \in sweep.todo \ {e}} \cup {told(x) : x \in sweep.log \cup {item}}
    BY <1>6 DEF Named
  <2>2. told(item) = name(e) /\ e \in sweep.todo
    OBVIOUS
  <2> HIDE DEF name, told, item
  <2> QED BY <2>1, <2>2
<1>8. item.id \in DOMAIN incidents' /\ item.cohort \in Cohort /\ item.state \in LiveStates
      /\ item.priors \subseteq DOMAIN incidents
  BY <1>3, <1>5 DEF Measurement, Priors
<1> HIDE DEF item
<1>9. TypeOK'
  <2>1. DOMAIN incidents' \subseteq Id
    BY <1>4, <1>5 DEF SweepInv, TypeOK
  <2>2. DOMAIN sweep' = DOMAIN NoSweep
    BY <1>1 DEF SweepInv, TypeOK
  <2>3. \A x \in sweep'.log : /\ x.id \in DOMAIN incidents' /\ x.cohort \in Cohort
                             /\ x.state \in LiveStates /\ x.priors \subseteq DOMAIN incidents'
    BY <1>5, <1>6, <1>8 DEF SweepInv, TypeOK
  <2> QED BY <1>2, <1>5, <1>6, <2>1, <2>2, <2>3 DEF SweepInv, TypeOK
<1>10. Pinned'
  BY <1>2, <1>5 DEF Pinned
<1>11. Underway'
  BY <1>2, <1>6 DEF SweepInv, Underway
<1>12. Spared'
  BY <1>7 DEF SweepInv, Spared
<1> QED BY <1>7, <1>9, <1>10, <1>11, <1>12 DEF SweepInv

\* A row that is resolved is otherwise the row it was.
Sound(table) == \A i \in DOMAIN table : /\ table[i] \in Row /\ table[i].onset = i[1]
                                       /\ table[i].onset <= table[i].seen /\ table[i].seen <= now

LEMMA ResolveKeeps ==
  ASSUME NEW table, NEW ids, Sound(table)
  PROVE  DOMAIN Resolve(table, ids) = DOMAIN table /\ Sound(Resolve(table, ids))
<1> DEFINE t == Resolve(table, ids)
<1>1. DOMAIN t = DOMAIN table
  BY DEF Resolve
<1>2. ASSUME NEW i \in DOMAIN table
      PROVE  t[i] \in Row /\ t[i].onset = table[i].onset /\ t[i].seen = table[i].seen
  <2>1. table[i] \in Row
    BY DEF Sound
  <2>2. t[i] = table[i] \/ t[i] = [table[i] EXCEPT !.state = "resolved"]
    BY DEF Resolve
  <2> HIDE DEF t
  <2> QED BY <2>1, <2>2 DEF Row
<1> HIDE DEF t
<1>3. Sound(t)
  BY <1>1, <1>2 DEF Sound
<1> QED BY <1>1, <1>3 DEF t

\* ... by expiring and resolving rows, ...
LEMMA CloseKeeps ==
  ASSUME SweepInv, Close
  PROVE  SweepInv' /\ Named' = Named
<1> DEFINE expired == Resolve(incidents, Unwanted(incidents, Taken))
<1>2. /\ incidents' = Resolve(expired, Recovered(expired, Taken, sweep.hot))
      /\ sweep' = [sweep EXCEPT !.saving = FALSE]
      /\ scenes' = scenes /\ now' = now /\ changes' = changes /\ sweep.todo = {}
  BY DEF Close
<1>3. Sound(incidents)
  BY DEF SweepInv, TypeOK, Pinned, Sound
<1>4. DOMAIN expired = DOMAIN incidents /\ Sound(expired)
  BY <1>3, ResolveKeeps
<1> HIDE DEF expired
<1>5. DOMAIN incidents' = DOMAIN incidents /\ Sound(incidents')
  BY <1>2, <1>4, ResolveKeeps
<1>6. \A i \in DOMAIN incidents' : /\ incidents'[i] \in Row /\ incidents'[i].onset = i[1]
                                  /\ incidents'[i].onset <= incidents'[i].seen
                                  /\ incidents'[i].seen <= now
  BY <1>5 DEF Sound
<1>7. /\ sweep'.at = sweep.at /\ sweep'.saving = FALSE /\ sweep'.hot = sweep.hot
      /\ sweep'.todo = sweep.todo /\ sweep'.log = sweep.log /\ DOMAIN sweep' = DOMAIN NoSweep
  BY <1>2 DEF SweepInv, TypeOK, NoSweep
<1>8. Named' = Named
  BY <1>7 DEF Named
<1>9. TypeOK'
  BY <1>2, <1>5, <1>6, <1>7 DEF SweepInv, TypeOK
<1>10. Pinned' /\ Underway' /\ Spared'
  BY <1>2, <1>5, <1>6, <1>7, <1>8 DEF SweepInv, Pinned, Underway, Spared
<1> QED BY <1>8, <1>9, <1>10 DEF SweepInv

\* ... by traffic, ...
LEMMA BucketKeeps ==
  ASSUME SweepInv, NEW s \in Scenario, Bucket(s)
  PROVE  SweepInv' /\ Named' = Named
<1>1. /\ ~sweep.saving /\ now < MaxBuckets /\ now' = now + 1
      /\ incidents' = incidents /\ sweep' = sweep
      /\ scenes' = Append(Tail(scenes), s)
      /\ s # Last(scenes) => changes < MaxChanges
      /\ changes' = IF s = Last(scenes) THEN changes ELSE changes + 1
  BY DEF Bucket
<1>2. scenes' \in [1..Span -> Scenario]
  BY <1>1, SceneShift DEF SweepInv, TypeOK
<1>3. now' \in Span..MaxBuckets /\ changes' \in 0..MaxChanges /\ sweep.at \in Span..now'
  BY <1>1, SpanFacts DEF SweepInv, TypeOK
<1>4. TypeOK'
  BY <1>1, <1>2, <1>3 DEF SweepInv, TypeOK
<1>5. Pinned'
  <2>1. \A i \in DOMAIN incidents : incidents[i].seen <= now /\ incidents[i].seen \in Int
    BY SpanFacts DEF SweepInv, TypeOK, Pinned, Row
  <2>2. now \in Int
    BY SpanFacts DEF SweepInv, TypeOK
  <2> QED BY <1>1, <2>1, <2>2 DEF SweepInv, Pinned
<1>6. Underway' /\ Named' = Named /\ Spared'
  BY <1>1 DEF SweepInv, Underway, Named, Spared
<1> QED BY <1>4, <1>5, <1>6 DEF SweepInv

\* ... and so by every step.
LEMMA SweepInvKept ==
  ASSUME SweepInv, [Next]_vars
  PROVE  SweepInv'
<1>1. CASE Measure
  BY <1>1, MeasureKeeps
<1>2. ASSUME NEW e \in sweep.todo, Record(e) PROVE SweepInv'
  BY <1>2, RecordKeeps
<1>3. CASE Close
  BY <1>3, CloseKeeps
<1>4. ASSUME NEW s \in Scenario, Bucket(s) PROVE SweepInv'
  BY <1>4, BucketKeeps
<1>5. CASE UNCHANGED vars
  BY <1>5 DEF vars, SweepInv, TypeOK, Pinned, Underway, Spared, Named
<1> QED BY <1>1, <1>2, <1>3, <1>4, <1>5 DEF Next, Sweep

\* The invariant holds throughout.
LEMMA SweepInvHolds == Spec => []SweepInv
  BY InitInv, SweepInvKept, PTL DEF Spec

\* The incident table, the sweep's readings and its log are well formed throughout.
THEOREM TypeCorrect == Spec => []TypeOK
<1>1. SweepInv => TypeOK
  BY DEF SweepInv
<1> QED BY <1>1, SweepInvHolds, PTL

\* A watch shares no traffic with the incident of its sweep (build_watches), the
\* projected near miss aside: the dimension that keeps a seed off the incident is
\* kept by every descent.
THEOREM FormedTrafficIsSpared == Spec => []WatchesSpareFormedTraffic
<1>1. SweepInv => WatchesSpareFormedTraffic
  <2> SUFFICES ASSUME SweepInv, NEW f \in Formed, NEW w \in sweep.log \ Formed,
                      f.cohort # Platform,
                      DOMAIN f.cohort \subseteq Core \/ DOMAIN w.cohort # Core
               PROVE  CellsOf(f.cohort) \cap CellsOf(w.cohort) = {}
    BY DEF WatchesSpareFormedTraffic
  <2>1. f \in sweep.log /\ f.state = "detected" /\ w \in sweep.log /\ w.state = "watching"
    BY DEF Formed, SweepInv, TypeOK, LiveStates
  <2> DEFINE x == [cohort |-> f.cohort, state |-> f.state]
             y == [cohort |-> w.cohort, state |-> w.state]
  <2>2. x \in Named /\ y \in Named
    BY <2>1 DEF Named
  <2>3. x.cohort = f.cohort /\ x.state = "detected" /\ y.cohort = w.cohort /\ y.state = "watching"
    BY <2>1
  <2> HIDE DEF x, y
  <2> QED BY <2>2, <2>3 DEF SweepInv, Spared
<1> QED BY <1>1, SweepInvHolds, PTL

\* The onset of an open row never moves, whichever readings adopt it.
THEOREM OnsetsHeld == Spec => OnsetHeld
<1>1. ASSUME SweepInv, SweepInv', [Next]_vars PROVE [\A i \in Live(incidents) : incidents'[i].onset = incidents[i].onset]_vars
  <2>1. DOMAIN incidents \subseteq DOMAIN incidents'
    <3>1. ASSUME NEW e \in sweep.todo, Record(e) PROVE DOMAIN incidents \subseteq DOMAIN incidents'
      BY <3>1 DEF Record, Save
    <3>2. CASE Close
      BY <3>2 DEF Close, Resolve
    <3>3. CASE Measure \/ (\E s \in Scenario : Bucket(s)) \/ UNCHANGED vars
      BY <3>3 DEF Measure, Bucket, vars
    <3> QED BY <1>1, <3>1, <3>2, <3>3 DEF Next, Sweep
  <2>2. \A i \in DOMAIN incidents : incidents[i].onset = i[1] /\ incidents'[i].onset = i[1]
    BY <1>1, <2>1 DEF SweepInv, Pinned
  <2> QED BY <2>2 DEF Live
<1> QED BY <1>1, SweepInvHolds, PTL DEF Spec, OnsetHeld

-----------------------------------------------------------------------------
(* What a sweep may name *)

\* Before the first sweep nothing is named and no row is open.
LEMMA CalmInit == Init => CalmInv
  BY DEF Init, NoSweep, CalmInv, Ailing, QuietBoard, Live, Named

\* Every step keeps what is named among what ails, and the table clear when nothing does.
LEMMA CalmKept ==
  ASSUME HealthyIsBest, SweepInv, CalmInv, [Next]_vars
  PROVE  CalmInv'
<1>1. CASE Measure
  <2> DEFINE R == Readings(scenes)
  <2>1. /\ sweep' = [at |-> now, saving |-> TRUE, todo |-> Report(R),
                     hot |-> {r.cohort : r \in {x \in R : StillHot(x)}}, log |-> {}]
        /\ UNCHANGED <<scenes, now, changes, incidents>>
    BY <1>1 DEF Measure
  <2>2. ASSUME NEW r \in R, StillHot(r) \/ r.degraded # {}
        PROVE  \E cell \in CellsOf(r.cohort), i \in InWindow : ~Healthy(scenes[i], cell)
    <3>1. Platform \in Cohort
      BY ReadingsOf, PlatformIsCohort
    <3> QED BY <2>2, <3>1, HealthyReading DEF SweepInv, TypeOK
  <2>3. ASSUME NEW e \in Report(R)
        PROVE  \E cell \in CellsOf(e.reading.cohort), i \in InWindow : ~Healthy(scenes[i], cell)
    <3>1. PICK r \in R : ReadFrom(e, r, R)
      BY ReportOf
    <3>2. e.reading.cohort = r.cohort /\ (r.qualifies \/ HasReason(r))
      BY <3>1 DEF ReadFrom
    <3>3. StillHot(r) \/ r.degraded # {}
      BY <3>2, ReadingsOf DEF StillHot
    <3> QED BY <2>2, <3>2, <3>3
  <2> HIDE DEF R
  <2>4. Ailing'
    BY <2>1, <2>2, <2>3 DEF Ailing, Named, InWindow, CellsOf, Healthy
  <2>5. QuietBoard'
    BY <2>1 DEF QuietBoard, Swept
  <2> QED BY <2>4, <2>5 DEF CalmInv
<1>2. ASSUME NEW e \in sweep.todo, Record(e) PROVE CalmInv'
  <2>1. Named' = Named
    BY <1>2, RecordKeeps
  <2>2. sweep'.at = sweep.at /\ sweep'.hot = sweep.hot /\ sweep'.saving /\ scenes' = scenes /\ now' = now
    BY <1>2 DEF Record, SweepInv, TypeOK, NoSweep
  <2> QED BY <2>1, <2>2 DEF CalmInv, Ailing, QuietBoard, Swept
<1>3. CASE Close
  <2>1. Named' = Named
    BY <1>3, CloseKeeps
  <2>2. sweep'.at = sweep.at /\ sweep'.hot = sweep.hot /\ scenes' = scenes /\ now' = now
    BY <1>3 DEF Close, SweepInv, TypeOK, NoSweep
  <2>3. Ailing'
    BY <2>1, <2>2 DEF CalmInv, Ailing
  <2>4. ASSUME sweep.at = now, \A i \in InWindow : scenes[i] = "healthy"
        PROVE  Live(incidents') = {}
    <3>1. sweep.hot = {} /\ Named = {}
      BY <2>4 DEF CalmInv, Ailing, Healthy
    <3>2. Taken = {}
      BY <3>1 DEF Taken, Named
    <3> DEFINE expired == Resolve(incidents, Unwanted(incidents, Taken))
    <3>3. incidents' = Resolve(expired, Recovered(expired, Taken, sweep.hot))
      BY <1>3 DEF Close
    <3>4. DOMAIN expired = DOMAIN incidents
          /\ \A i \in DOMAIN expired : expired[i].state # "watching"
      BY <3>2 DEF Resolve, Unwanted, SweepInv, TypeOK, Row
    <3> HIDE DEF expired
    <3>5. Recovered(expired, Taken, sweep.hot) = {i \in DOMAIN expired : expired[i].state \in LiveStates}
      BY <3>1, <3>2, <3>4 DEF Recovered
    <3> QED BY <3>3, <3>4, <3>5 DEF Live, Resolve, LiveStates
  <2> QED BY <2>2, <2>3, <2>4 DEF CalmInv, QuietBoard, Swept
<1>4. ASSUME NEW s \in Scenario, Bucket(s) PROVE CalmInv'
  <2>1. sweep'.at # now'
    BY <1>4, SpanFacts DEF Bucket, SweepInv, TypeOK
  <2> QED BY <2>1 DEF CalmInv, Ailing, QuietBoard, Swept
<1>5. CASE UNCHANGED vars
  BY <1>5 DEF vars, CalmInv, Ailing, QuietBoard, Swept, Named, Live
<1> QED BY <1>1, <1>2, <1>3, <1>4, <1>5 DEF Next, Sweep

\* So both hold throughout.
LEMMA CalmHolds == ASSUME HealthyIsBest PROVE Spec => []CalmInv
  BY CalmInit, CalmKept, SweepInvHolds, PTL DEF Spec

\* Once the window is healthy a sweep leaves no row open, if healthy traffic is the best
\* there is: then it names nothing and finds nothing hot, so that it adopts no row,
\* expires every watch and resolves every incident.
THEOREM TheQuietBoardClears == HealthyIsBest => (Spec => []QuietBoard)
<1> SUFFICES ASSUME HealthyIsBest PROVE Spec => []QuietBoard
  OBVIOUS
<1>1. CalmInv => QuietBoard
  BY DEF CalmInv
<1> QED BY <1>1, CalmHolds, PTL

\* Under the same hypothesis, what a sweep names holds a cell that ailed in the window:
\* a baseline that faults pollute is never better than healthy traffic, so a cohort
\* that is healthy does not fall below it on any measure.
THEOREM OnlyAilingCohortsAreNamed == HealthyIsBest => (Spec => []NoInnocentReading)
<1> SUFFICES ASSUME HealthyIsBest PROVE Spec => []NoInnocentReading
  OBVIOUS
<1>1. ASSUME CalmInv PROVE NoInnocentReading
  <2> SUFFICES ASSUME Swept, NEW e \in sweep.log
               PROVE  \E cell \in CellsOf(e.cohort), i \in InWindow : ~Healthy(scenes[i], cell)
    BY DEF NoInnocentReading
  <2>1. e.cohort \in {x.cohort : x \in Named}
    <3>1. [cohort |-> e.cohort, state |-> e.state] \in Named
      BY DEF Named
    <3> QED BY <3>1
  <2> QED BY <1>1, <2>1 DEF Swept, CalmInv, Ailing
<1> QED BY <1>1, CalmHolds, PTL
=============================================================================
