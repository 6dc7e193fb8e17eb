---------------------------- MODULE Data_proofs -----------------------------
(***************************************************************************)
(* Facts about the operators on data that the models use, for every        *)
(* finite set: least and greatest members, enumerations of a set, and the  *)
(* sums that SumFunctionOnSet computes.  Induction goes over a set: the    *)
(* library's theorem about least elements (WFMin) is first-order, so what  *)
(* is to be shown of every finite set is shown of a set of sets.           *)
(***************************************************************************)
EXTENDS SequencesExt, FiniteSetTheorems, TLAPS

-----------------------------------------------------------------------------
(* induction *)

\* Every set of naturals that is not empty has a least member.
LEMMA LeastMember ==
  ASSUME NEW T, T \subseteq Nat, T # {}
  PROVE  \E n \in T : \A m \in T : n =< m
<1>1. PICK R : /\ IsWellFoundedOn(R, Nat)
               /\ \A x, y \in Nat : <<y, x>> \in R <=> y < x
  <2>1. \A x, y \in Nat : <<y, x>> \in OpToRel(<, Nat) <=> y < x
    BY DEF OpToRel
  <2> QED
    BY <2>1, NatLessThanWellFounded, Zenon
<1>2. PICK n \in T : \A m \in T : ~ (<<m, n>> \in R)
  BY <1>1, WFMin
<1>3. ASSUME NEW m \in T PROVE n =< m
  <2>1. ~ (m < n)
    BY <1>1, <1>2
  <2> QED
    BY <2>1
<1> QED
  BY <1>3

\* What holds of a finite set if it holds of its proper subsets, holds of it:
\* a counterexample of least cardinality has none below it.
LEMMA SubsetInduction ==
  ASSUME NEW S, IsFiniteSet(S), NEW T,
         \A A \in SUBSET S : (\A B \in SUBSET A : B # A => B \in T) => A \in T
  PROVE  S \in T
<1> SUFFICES ASSUME S \notin T PROVE FALSE
  OBVIOUS
<1> DEFINE Bad == {A \in SUBSET S : A \notin T}
           Sizes == {Cardinality(A) : A \in Bad}
<1>1. \A A \in SUBSET S : IsFiniteSet(A) /\ Cardinality(A) \in Nat
  BY FS_Subset, FS_CardinalityType
<1>2. Sizes \subseteq Nat /\ Sizes # {}
  BY <1>1
<1>3. PICK n \in Sizes : \A m \in Sizes : n =< m
  <2> HIDE DEF Sizes
  <2> QED
    BY <1>2, LeastMember
<1>4. PICK A \in Bad : Cardinality(A) = n
  OBVIOUS
<1>5. ASSUME NEW B \in SUBSET A, B # A PROVE B \in T
  <2>1. Cardinality(B) < Cardinality(A)
    <3>1. IsFiniteSet(A) /\ Cardinality(A) \in Nat /\ Cardinality(B) \in Nat
      BY <1>1
    <3>2. Cardinality(B) =< Cardinality(A) /\ Cardinality(A) # Cardinality(B)
      BY <1>5, <3>1, FS_Subset
    <3> QED
      BY <3>1, <3>2
  <2>2. B \in Bad => n =< Cardinality(B)
    BY <1>3
  <2> QED
    BY <1>1, <1>4, <2>1, <2>2
<1> QED
  BY <1>4, <1>5

\* What holds of 0, and of a number if it holds of the one before, holds of all.
LEMMA StepByStep ==
  ASSUME NEW T, 0 \in T, \A n \in Nat : n \in T => n + 1 \in T
  PROVE  \A n \in Nat : n \in T
<1> DEFINE Bad == {n \in Nat : n \notin T}
<1>1. CASE Bad = {}
  BY <1>1
<1>2. CASE Bad # {}
  <2>1. PICK n \in Bad : \A m \in Bad : n =< m
    <3>1. Bad \subseteq Nat
      OBVIOUS
    <3> HIDE DEF Bad
    <3> QED
      BY <1>2, <3>1, LeastMember
  <2>2. n \in Nat /\ n # 0 /\ n \notin T
    OBVIOUS
  <2>3. n - 1 \in Nat /\ (n - 1) + 1 = n /\ ~ (n =< n - 1)
    BY <2>2
  <2>4. n - 1 \in T
    BY <2>1, <2>3
  <2> QED
    BY <2>2, <2>3, <2>4
<1> QED
  BY <1>1, <1>2

-----------------------------------------------------------------------------
(* least and greatest members *)

\* Min picks the least member of a set of naturals that has one.
LEMMA MinIsLeast ==
  ASSUME NEW S, S \subseteq Nat, S # {}
  PROVE  Min(S) \in S /\ \A x \in S : Min(S) =< x
<1>1. \E n \in S : \A m \in S : n =< m
  BY LeastMember
<1> QED
  BY <1>1 DEF Min

\* Max picks the greatest member of a bounded set of naturals.
LEMMA MaxIsGreatest ==
  ASSUME NEW n \in Nat, NEW S, S \subseteq 0..n, S # {}
  PROVE  Max(S) \in S /\ \A x \in S : Max(S) >= x
<1> DEFINE T == {n - x : x \in S}
<1>1. T \subseteq Nat /\ T # {}
  <2>1. \A x \in S : n - x \in Nat
    <3>1. \A x \in 0..n : n - x \in Nat
      OBVIOUS
    <3> QED
      BY <3>1
  <2> QED
    BY <2>1
<1>2. PICK m \in T : \A k \in T : m =< k
  <2> HIDE DEF T
  <2> QED
    BY <1>1, LeastMember
<1>3. PICK x \in S : m = n - x
  BY <1>2
<1>4. ASSUME NEW y \in S PROVE x >= y
  <2>1. n - x =< n - y
    BY <1>2, <1>3
  <2>2. x \in 0..n /\ y \in 0..n
    OBVIOUS
  <2> QED
    BY <2>1, <2>2
<1> QED
  BY <1>4 DEF Max

-----------------------------------------------------------------------------
(* enumerations of a set *)

\* An enumeration of a finite set is a sequence over it.
LEMMA SeqsAreTyped ==
  ASSUME NEW T, NEW S \in SUBSET T, IsFiniteSet(S), NEW s \in SetToSeqs(S)
  PROVE  s \in Seq(T) /\ Len(s) = Cardinality(S)
<1>1. Cardinality(S) \in Nat
  BY FS_CardinalityType
<1>2. s \in [1..Cardinality(S) -> T]
  BY DEF SetToSeqs
<1> QED
  BY <1>1, <1>2

\* An enumeration of a finite set misses none of its members.
LEMMA SeqsCover ==
  ASSUME NEW S, IsFiniteSet(S), NEW s \in SetToSeqs(S), NEW x \in S
  PROVE  \E i \in 1..Len(s) : s[i] = x
<1> DEFINE n == Cardinality(S)
<1>1. n \in Nat /\ IsFiniteSet(1..n) /\ Cardinality(1..n) = n
  BY FS_CardinalityType, FS_Interval
<1>2. s \in [1..n -> S] /\ \A i, j \in 1..n : i # j => s[i] # s[j]
  BY DEF SetToSeqs
<1>3. Len(s) = n
  BY <1>1, <1>2
<1>4. s \in Injection(1..n, S)
  BY <1>2 DEF Injection, IsInjective
<1>5. s \in Surjection(1..n, S)
  BY <1>1, <1>4, FS_Injection
<1> QED
  BY <1>3, <1>5 DEF Surjection

\* So its members are those of the set.
LEMMA SeqsEnumerate ==
  ASSUME NEW S, IsFiniteSet(S), NEW s \in SetToSeqs(S)
  PROVE  s \in Seq(S) /\ ToSet(s) = S
<1>1. s \in Seq(S)
  BY SeqsAreTyped
<1>2. \A x \in S : \E i \in 1..Len(s) : s[i] = x
  BY SeqsCover
<1> QED
  BY <1>1, <1>2 DEF ToSet

-----------------------------------------------------------------------------
(* the recursion *)

Pick(s) == CHOOSE x \in s : TRUE

\* G sums f over every subset of S.
IsTable(G, f, S) ==
  G = [s \in SUBSET S |-> IF s = {} THEN 0 ELSE f[Pick(s)] + G[s \ {Pick(s)}]]

\* A set that is not empty contains what is picked from it.
LEMMA PickIn == ASSUME NEW s, s # {} PROVE Pick(s) \in s
BY DEF Pick

\* The sum is read off such a table, once there is one.
LEMMA SumIsChosen ==
  ASSUME NEW f, NEW S
  PROVE  SumFunctionOnSet(f, S) = (CHOOSE G : IsTable(G, f, S))[S]
BY DEF SumFunctionOnSet, FoldFunctionOnSet, MapThenFoldSet, IsTable, Pick

\* A table is filled by increasing cardinality.
LEMMA TableExists ==
  ASSUME NEW f, NEW S, IsFiniteSet(S)
  PROVE  \E G : IsTable(G, f, S)
<1> DEFINE Cell(G, s) == IF s = {} THEN 0 ELSE f[Pick(s)] + G[s \ {Pick(s)}]
           Filled(G, n) == \A s \in SUBSET S : Cardinality(s) =< n => G[s] = Cell(G, s)
           T == {n \in Nat : ~ \E G : Filled(G, n)}
<1>1. \A s \in SUBSET S : IsFiniteSet(s) /\ Cardinality(s) \in Nat
  BY FS_Subset, FS_CardinalityType
<1>2. \A s \in SUBSET S : s # {} => /\ s \ {Pick(s)} \in SUBSET S
                                   /\ Cardinality(s \ {Pick(s)}) = Cardinality(s) - 1
  BY <1>1, PickIn, FS_RemoveElement
<1>3. T = {}
  <2> SUFFICES ASSUME T # {} PROVE FALSE
    OBVIOUS
  <2>1. PICK n \in T : \A m \in T : n =< m
    <3>1. T \subseteq Nat
      OBVIOUS
    <3> HIDE DEF T
    <3> QED
      BY <3>1, LeastMember
  <2>2. CASE n = 0
    <3> DEFINE G == [s \in SUBSET S |-> 0]
    <3>1. \A s \in SUBSET S : Cardinality(s) =< 0 => s = {}
      BY <1>1, FS_EmptySet
    <3>2. Filled(G, 0)
      BY <3>1
    <3> QED
      BY <2>2, <3>2
  <2>3. CASE n # 0
    <3>1. n - 1 \in Nat /\ n - 1 \notin T
      <4>1. n \in Nat
        OBVIOUS
      <4> HIDE DEF T
      <4> QED
        BY <2>1, <2>3, <4>1
    <3>2. PICK G : Filled(G, n - 1)
      BY <3>1
    <3> DEFINE H == [s \in SUBSET S |-> IF Cardinality(s) =< n - 1 THEN G[s] ELSE Cell(G, s)]
    <3>3. ASSUME NEW s \in SUBSET S, Cardinality(s) =< n PROVE H[s] = Cell(H, s)
      <4>1. H[s] = Cell(G, s)
        BY <3>2
      <4>2. CASE s = {}
        BY <4>1, <4>2
      <4>3. CASE s # {}
        <5>1. s \ {Pick(s)} \in SUBSET S /\ Cardinality(s \ {Pick(s)}) =< n - 1
          BY <1>1, <1>2, <3>3, <4>3
        <5>2. H[s \ {Pick(s)}] = G[s \ {Pick(s)}]
          BY <5>1
        <5> QED
          BY <4>1, <4>3, <5>2
      <4> QED
        BY <4>2, <4>3
    <3>4. Filled(H, n)
      BY <3>3
    <3> QED
      BY <3>4
  <2> QED
    BY <2>2, <2>3
<1>4. PICK G : Filled(G, Cardinality(S))
  BY <1>1, <1>3
<1> DEFINE H == [s \in SUBSET S |-> G[s]]
<1>5. ASSUME NEW s \in SUBSET S PROVE H[s] = Cell(H, s)
  <2>1. Cardinality(s) =< Cardinality(S)
    BY FS_Subset
  <2>2. G[s] = Cell(G, s)
    BY <1>4, <2>1
  <2>3. s # {} => s \ {Pick(s)} \in SUBSET S
    BY <1>2
  <2> QED
    BY <2>2, <2>3
<1>6. H = [s \in SUBSET S |-> Cell(H, s)]
  BY <1>5
<1>7. IsTable(H, f, S)
  BY <1>6 DEF IsTable
<1> QED
  BY <1>7

\* Two tables agree wherever the functions they sum do.
LEMMA TablesAgree ==
  ASSUME NEW f, NEW S, NEW G, IsTable(G, f, S),
         NEW g, NEW R, NEW H, IsTable(H, g, R),
         NEW s, IsFiniteSet(s), s \subseteq S, s \subseteq R,
         \A x \in s : f[x] = g[x]
  PROVE  G[s] = H[s]
<1> DEFINE T == {A \in SUBSET s : G[A] = H[A]}
<1>1. ASSUME NEW A \in SUBSET s, \A B \in SUBSET A : B # A => B \in T
      PROVE  A \in T
  <2>1. CASE A = {}
    BY <2>1 DEF IsTable
  <2>2. CASE A # {}
    <3>1. Pick(A) \in A
      BY <2>2, PickIn
    <3>2. G[A \ {Pick(A)}] = H[A \ {Pick(A)}]
      BY <1>1, <3>1
    <3>3. A \in SUBSET S /\ A \in SUBSET R
      OBVIOUS
    <3>4. G[A] = f[Pick(A)] + G[A \ {Pick(A)}]
      BY <2>2, <3>3 DEF IsTable
    <3>5. H[A] = g[Pick(A)] + H[A \ {Pick(A)}]
      BY <2>2, <3>3 DEF IsTable
    <3> QED
      BY <3>1, <3>2, <3>4, <3>5
  <2> QED
    BY <2>1, <2>2
<1>2. s \in T
  <2> HIDE DEF T
  <2> QED
    BY <1>1, SubsetInduction
<1> QED
  BY <1>2

\* The sum of f over S stands in every table that has a place for it.
LEMMA SumInTable ==
  ASSUME NEW f, NEW S, IsFiniteSet(S), NEW R, S \subseteq R, NEW G, IsTable(G, f, R)
  PROVE  SumFunctionOnSet(f, S) = G[S]
<1> DEFINE H == CHOOSE H : IsTable(H, f, S)
<1>1. IsTable(H, f, S)
  BY TableExists
<1>2. SumFunctionOnSet(f, S) = H[S]
  BY SumIsChosen
<1> HIDE DEF H
<1> QED
  BY <1>1, <1>2, TablesAgree

-----------------------------------------------------------------------------
(* functions defined by what they are one step before *)

\* it[k] is what start becomes in k steps.
IsIteration(it, step, start) ==
  it = [k \in Nat |-> IF k = 0 THEN start ELSE step[it[k - 1]]]

LEMMA IterationExists ==
  ASSUME NEW step, NEW start
  PROVE  \E it : IsIteration(it, step, start)
<1> DEFINE Cell(g, k) == IF k = 0 THEN start ELSE step[g[k - 1]]
           Filled(g, n) == \A k \in Nat : k =< n => g[k] = Cell(g, k)
           T == {n \in Nat : \E g : Filled(g, n)}
<1>1. 0 \in T
  <2> DEFINE g == [k \in Nat |-> start]
  <2>1. \A k \in Nat : k =< 0 => k = 0
    OBVIOUS
  <2>2. Filled(g, 0)
    BY <2>1
  <2> QED
    BY <2>2
<1>2. ASSUME NEW n \in Nat, n \in T PROVE n + 1 \in T
  <2>1. PICK g : Filled(g, n)
    BY <1>2
  <2> DEFINE h == [k \in Nat |-> IF k =< n THEN g[k] ELSE Cell(g, k)]
  <2>2. ASSUME NEW k \in Nat, k =< n + 1 PROVE h[k] = Cell(h, k)
    <3>1. h[k] = Cell(g, k)
      BY <2>1
    <3>2. CASE k = 0
      BY <3>1, <3>2
    <3>3. CASE k # 0
      <4>1. k - 1 \in Nat /\ k - 1 =< n
        BY <2>2, <3>3
      <4>2. h[k - 1] = g[k - 1]
        BY <4>1
      <4> QED
        BY <3>1, <3>3, <4>2
    <3> QED
      BY <3>2, <3>3
  <2>3. Filled(h, n + 1)
    BY <2>2
  <2> HIDE DEF Filled, h
  <2> QED
    BY <2>3
<1>3. \A n \in Nat : n \in T
  <2> HIDE DEF T
  <2> QED
    BY <1>1, <1>2, StepByStep
<1> DEFINE G(n) == CHOOSE g : Filled(g, n)
<1>4. ASSUME NEW n \in Nat PROVE Filled(G(n), n)
  <2>1. \E g : Filled(g, n)
    BY <1>3
  <2> HIDE DEF Filled
  <2> QED
    BY <2>1
<1> HIDE DEF G, T
<1>5. ASSUME NEW n \in Nat PROVE G(n)[n] = G(n + 1)[n]
  <2> DEFINE A == {k \in Nat : k =< n => G(n)[k] = G(n + 1)[k]}
  <2>1. 0 \in A
    <3>1. 0 \in Nat /\ 0 =< n /\ 0 =< n + 1 /\ n + 1 \in Nat
      OBVIOUS
    <3>2. G(n)[0] = start /\ G(n + 1)[0] = start
      BY <1>4, <3>1
    <3> QED
      BY <3>2
  <2>2. ASSUME NEW k \in Nat, k \in A PROVE k + 1 \in A
    <3> SUFFICES ASSUME k + 1 =< n PROVE G(n)[k + 1] = G(n + 1)[k + 1]
      OBVIOUS
    <3>1. k =< n /\ k + 1 \in Nat /\ k + 1 =< n + 1 /\ n + 1 \in Nat
          /\ k + 1 # 0 /\ (k + 1) - 1 = k
      OBVIOUS
    <3>2. G(n)[k] = G(n + 1)[k]
      BY <2>2, <3>1
    <3>3. G(n)[k + 1] = step[G(n)[k]]
      BY <1>4, <3>1
    <3>4. G(n + 1)[k + 1] = step[G(n + 1)[k]]
      BY <1>4, <3>1
    <3> QED
      BY <3>2, <3>3, <3>4
  <2>3. n \in A
    <3> HIDE DEF A
    <3> QED
      BY <2>1, <2>2, StepByStep
  <2> QED
    BY <2>3
<1> DEFINE it == [k \in Nat |-> G(k)[k]]
<1>6. ASSUME NEW k \in Nat PROVE it[k] = Cell(it, k)
  <2>1. G(k)[k] = Cell(G(k), k)
    <3>1. k =< k
      OBVIOUS
    <3> QED
      BY <1>4, <3>1
  <2>2. CASE k = 0
    BY <2>1, <2>2
  <2>3. CASE k # 0
    <3>1. k - 1 \in Nat /\ (k - 1) + 1 = k
      BY <2>3
    <3>2. G(k - 1)[k - 1] = G(k)[k - 1]
      BY <1>5, <3>1
    <3> QED
      BY <2>1, <2>3, <3>1, <3>2
  <2> QED
    BY <2>2, <2>3
<1>7. it = [k \in Nat |-> Cell(it, k)]
  BY <1>6
<1>8. IsIteration(it, step, start)
  BY <1>7 DEF IsIteration
<1> QED
  BY <1>8

\* What a loop over the states D ends with, from each of them: it goes on in M.
IsLoop(f, D, M, next, result) ==
  f = [x \in D |-> IF x \in M THEN f[next[x]] ELSE result[x]]

\* A loop whose every round brings it closer to the end ends.
LEMMA LoopExists ==
  ASSUME NEW D, NEW M, NEW next, NEW result, NEW bound \in Nat,
         NEW width \in [D -> 0..bound],
         \A x \in D : x \in M => next[x] \in D /\ width[next[x]] < width[x]
  PROVE  \E f : IsLoop(f, D, M, next, result)
<1> DEFINE Cell(g, x) == IF x \in M THEN g[next[x]] ELSE result[x]
           Filled(g, n) == \A x \in D : width[x] < n => g[x] = Cell(g, x)
           T == {n \in Nat : \E g : Filled(g, n)}
<1>0. \A x \in D : width[x] \in Nat /\ width[x] =< bound
  OBVIOUS
<1>1. 0 \in T
  <2> DEFINE g == [x \in D |-> 0]
  <2>1. Filled(g, 0)
    BY <1>0
  <2> QED
    BY <2>1
<1>2. ASSUME NEW n \in Nat, n \in T PROVE n + 1 \in T
  <2>1. PICK g : Filled(g, n)
    BY <1>2
  <2> DEFINE h == [x \in D |-> IF width[x] < n THEN g[x] ELSE Cell(g, x)]
  <2>2. ASSUME NEW x \in D, width[x] < n + 1 PROVE h[x] = Cell(h, x)
    <3>1. h[x] = Cell(g, x)
      BY <2>1
    <3>2. CASE x \notin M
      BY <3>1, <3>2
    <3>3. CASE x \in M
      <4>1. next[x] \in D /\ width[next[x]] < n
        BY <1>0, <2>2, <3>3
      <4>2. h[next[x]] = g[next[x]]
        BY <4>1
      <4> QED
        BY <3>1, <3>3, <4>2
    <3> QED
      BY <3>2, <3>3
  <2>3. Filled(h, n + 1)
    BY <2>2
  <2> HIDE DEF Filled, h
  <2> QED
    BY <2>3
<1>3. bound + 1 \in T
  <2>1. \A n \in Nat : n \in T
    <3> HIDE DEF T
    <3> QED
      BY <1>1, <1>2, StepByStep
  <2> QED
    BY <2>1
<1>4. PICK g : Filled(g, bound + 1)
  BY <1>3
<1> DEFINE f == [x \in D |-> g[x]]
<1>5. ASSUME NEW x \in D PROVE f[x] = Cell(f, x)
  <2>1. width[x] < bound + 1
    BY <1>0
  <2>2. g[x] = Cell(g, x)
    BY <1>4, <2>1
  <2> QED
    BY <2>2
<1>6. f = [x \in D |-> Cell(f, x)]
  BY <1>5
<1>7. IsLoop(f, D, M, next, result)
  BY <1>6 DEF IsLoop
<1> QED
  BY <1>7

-----------------------------------------------------------------------------
(* sums *)

\* Nothing adds up to 0.
LEMMA SumOfNone == ASSUME NEW f PROVE SumFunctionOnSet(f, {}) = 0
<1>1. PICK G : IsTable(G, f, {})
  BY TableExists, FS_EmptySet
<1>2. SumFunctionOnSet(f, {}) = G[{}]
  BY <1>1, SumInTable, FS_EmptySet
<1> QED
  BY <1>1, <1>2 DEF IsTable

\* One step of the recursion.
LEMMA SumPicked ==
  ASSUME NEW f, NEW S, IsFiniteSet(S), S # {}
  PROVE  SumFunctionOnSet(f, S) = f[Pick(S)] + SumFunctionOnSet(f, S \ {Pick(S)})
<1>1. PICK G : IsTable(G, f, S)
  BY TableExists
<1>2. SumFunctionOnSet(f, S) = G[S]
  BY <1>1, SumInTable
<1>3. SumFunctionOnSet(f, S \ {Pick(S)}) = G[S \ {Pick(S)}]
  BY <1>1, SumInTable, FS_Subset
<1> QED
  BY <1>1, <1>2, <1>3 DEF IsTable

\* Only the values on the set count.
LEMMA SumOfEquals ==
  ASSUME NEW f, NEW g, NEW S, IsFiniteSet(S), \A x \in S : f[x] = g[x]
  PROVE  SumFunctionOnSet(f, S) = SumFunctionOnSet(g, S)
<1>1. PICK G : IsTable(G, f, S)
  BY TableExists
<1>2. PICK H : IsTable(H, g, S)
  BY TableExists
<1>3. G[S] = H[S]
  BY <1>1, <1>2, TablesAgree
<1> QED
  BY <1>1, <1>2, <1>3, SumInTable

\* Integers add up to an integer.
LEMMA SumType ==
  ASSUME NEW f, NEW S, IsFiniteSet(S), \A x \in S : f[x] \in Int
  PROVE  SumFunctionOnSet(f, S) \in Int
<1> DEFINE T == {A \in SUBSET S : SumFunctionOnSet(f, A) \in Int}
<1>1. ASSUME NEW A \in SUBSET S, \A B \in SUBSET A : B # A => B \in T
      PROVE  A \in T
  <2>1. CASE A = {}
    BY <2>1, SumOfNone
  <2>2. CASE A # {}
    <3>1. Pick(A) \in A
      BY <2>2, PickIn
    <3>2. A \ {Pick(A)} \in T
      BY <1>1, <3>1
    <3>3. SumFunctionOnSet(f, A) = f[Pick(A)] + SumFunctionOnSet(f, A \ {Pick(A)})
      BY <2>2, SumPicked, FS_Subset
    <3> QED
      BY <3>1, <3>2, <3>3
  <2> QED
    BY <2>1, <2>2
<1>2. S \in T
  <2> HIDE DEF T
  <2> QED
    BY <1>1, SubsetInduction
<1> QED
  BY <1>2

\* Any member can be taken out first.
LEMMA SumRemove ==
  ASSUME NEW f, NEW S, IsFiniteSet(S), \A x \in S : f[x] \in Int, NEW y \in S
  PROVE  SumFunctionOnSet(f, S) = f[y] + SumFunctionOnSet(f, S \ {y})
<1> DEFINE T == {A \in SUBSET S : \A x \in A :
                   SumFunctionOnSet(f, A) = f[x] + SumFunctionOnSet(f, A \ {x})}
<1>1. ASSUME NEW A \in SUBSET S, \A B \in SUBSET A : B # A => B \in T, NEW x \in A
      PROVE  SumFunctionOnSet(f, A) = f[x] + SumFunctionOnSet(f, A \ {x})
  <2> DEFINE p == Pick(A)
  <2>0. p \in A
    BY PickIn
  <2>1. SumFunctionOnSet(f, A) = f[p] + SumFunctionOnSet(f, A \ {p})
    BY SumPicked, FS_Subset
  <2> HIDE DEF p
  <2>2. CASE p = x
    BY <2>1, <2>2
  <2>3. CASE p # x
    <3> DEFINE C == (A \ {p}) \ {x}
    <3>1. SumFunctionOnSet(f, A \ {p}) = f[x] + SumFunctionOnSet(f, C)
      <4>1. A \ {p} \in T /\ x \in A \ {p}
        BY <1>1, <2>0, <2>3
      <4> QED
        BY <4>1
    <3>2. SumFunctionOnSet(f, A \ {x}) = f[p] + SumFunctionOnSet(f, C)
      <4>1. A \ {x} \in T /\ p \in A \ {x}
        BY <1>1, <2>0, <2>3
      <4>2. (A \ {x}) \ {p} = C
        OBVIOUS
      <4>3. SumFunctionOnSet(f, A \ {x}) = f[p] + SumFunctionOnSet(f, (A \ {x}) \ {p})
        BY <4>1
      <4> QED
        BY <4>2, <4>3
    <3>3. SumFunctionOnSet(f, C) \in Int
      <4>1. C \in SUBSET S
        OBVIOUS
      <4>2. IsFiniteSet(C)
        BY <4>1, FS_Subset
      <4> QED
        BY <4>1, <4>2, SumType
    <3>4. f[x] \in Int /\ f[p] \in Int
      BY <2>0
    <3> HIDE DEF C
    <3> QED
      BY <2>1, <3>1, <3>2, <3>3, <3>4
  <2> QED
    BY <2>2, <2>3
<1>2. S \in T
  <2>1. \A A \in SUBSET S : (\A B \in SUBSET A : B # A => B \in T) => A \in T
    BY <1>1
  <2> HIDE DEF T
  <2> QED
    BY <2>1, SubsetInduction
<1> QED
  BY <1>2

\* Adding a member adds its value.
LEMMA SumAdd ==
  ASSUME NEW f, NEW S, IsFiniteSet(S), NEW y, y \notin S,
         \A x \in S \cup {y} : f[x] \in Int
  PROVE  SumFunctionOnSet(f, S \cup {y}) = f[y] + SumFunctionOnSet(f, S)
<1>1. IsFiniteSet(S \cup {y}) /\ (S \cup {y}) \ {y} = S
  BY FS_AddElement
<1>2. SumFunctionOnSet(f, S \cup {y}) = f[y] + SumFunctionOnSet(f, (S \cup {y}) \ {y})
  BY <1>1, SumRemove
<1> QED
  BY <1>1, <1>2

\* A single value is its own sum.
LEMMA SumOfOne ==
  ASSUME NEW f, NEW y, f[y] \in Int
  PROVE  SumFunctionOnSet(f, {y}) = f[y]
<1>1. /\ IsFiniteSet({}) /\ y \notin {} /\ {} \cup {y} = {y}
      /\ \A x \in {} \cup {y} : f[x] \in Int
  BY FS_EmptySet
<1>2. SumFunctionOnSet(f, {} \cup {y}) = f[y] + SumFunctionOnSet(f, {})
  BY <1>1, SumAdd
<1> QED
  BY <1>1, <1>2, SumOfNone

\* The sum over a set is the sum over a part and that over the rest.
LEMMA SumSplit ==
  ASSUME NEW f, NEW S, IsFiniteSet(S), \A x \in S : f[x] \in Int,
         NEW R \in SUBSET S
  PROVE  SumFunctionOnSet(f, S) = SumFunctionOnSet(f, R) + SumFunctionOnSet(f, S \ R)
<1> DEFINE T == {A \in SUBSET S :
                   SumFunctionOnSet(f, A) =
                     SumFunctionOnSet(f, A \cap R) + SumFunctionOnSet(f, A \ R)}
<1>0. \A A \in SUBSET S : IsFiniteSet(A) /\ SumFunctionOnSet(f, A) \in Int
  BY FS_Subset, SumType
<1>1. ASSUME NEW A \in SUBSET S, \A B \in SUBSET A : B # A => B \in T
      PROVE  A \in T
  <2>1. CASE A = {}
    <3>1. A \cap R = {} /\ A \ R = {}
      BY <2>1
    <3>2. SumFunctionOnSet(f, {}) = 0
      BY SumOfNone
    <3>3. SumFunctionOnSet(f, A) = SumFunctionOnSet(f, A \cap R) + SumFunctionOnSet(f, A \ R)
      BY <2>1, <3>1, <3>2
    <3> QED
      BY <3>3
  <2>2. CASE A # {}
    <3>1. PICK y \in A : TRUE
      BY <2>2
    <3>2. SumFunctionOnSet(f, A) = f[y] + SumFunctionOnSet(f, A \ {y})
      BY <1>0, SumRemove
    <3>3. SumFunctionOnSet(f, A \ {y}) =
            SumFunctionOnSet(f, (A \ {y}) \cap R) + SumFunctionOnSet(f, (A \ {y}) \ R)
      <4>1. A \ {y} \in T
        BY <1>1
      <4> QED
        BY <4>1
    <3>4. /\ (A \ {y}) \cap R \in SUBSET S /\ (A \ {y}) \ R \in SUBSET S
          /\ A \cap R \in SUBSET S /\ A \ R \in SUBSET S
      OBVIOUS
    <3>5. CASE y \in R
      <4>1. (A \ {y}) \cap R = (A \cap R) \ {y} /\ (A \ {y}) \ R = A \ R /\ y \in A \cap R
        BY <3>5
      <4>2. SumFunctionOnSet(f, A \cap R) = f[y] + SumFunctionOnSet(f, (A \cap R) \ {y})
        BY <1>0, <3>4, <4>1, SumRemove
      <4>3. /\ SumFunctionOnSet(f, (A \cap R) \ {y}) \in Int
            /\ SumFunctionOnSet(f, A \ R) \in Int /\ f[y] \in Int
        BY <1>0, <3>4, <4>1
      <4>4. /\ SumFunctionOnSet(f, (A \ {y}) \cap R) = SumFunctionOnSet(f, (A \cap R) \ {y})
            /\ SumFunctionOnSet(f, (A \ {y}) \ R) = SumFunctionOnSet(f, A \ R)
        BY <4>1, Zenon
      <4>5. SumFunctionOnSet(f, A) = SumFunctionOnSet(f, A \cap R) + SumFunctionOnSet(f, A \ R)
        BY <3>2, <3>3, <4>2, <4>3, <4>4
      <4> QED
        BY <4>5
    <3>6. CASE y \notin R
      <4>1. (A \ {y}) \cap R = A \cap R /\ (A \ {y}) \ R = (A \ R) \ {y} /\ y \in A \ R
        BY <3>6
      <4>2. SumFunctionOnSet(f, A \ R) = f[y] + SumFunctionOnSet(f, (A \ R) \ {y})
        BY <1>0, <3>4, <4>1, SumRemove
      <4>3. /\ SumFunctionOnSet(f, (A \ R) \ {y}) \in Int
            /\ SumFunctionOnSet(f, A \cap R) \in Int /\ f[y] \in Int
        BY <1>0, <3>4, <4>1
      <4>4. /\ SumFunctionOnSet(f, (A \ {y}) \cap R) = SumFunctionOnSet(f, A \cap R)
            /\ SumFunctionOnSet(f, (A \ {y}) \ R) = SumFunctionOnSet(f, (A \ R) \ {y})
        BY <4>1, Zenon
      <4>5. SumFunctionOnSet(f, A) = SumFunctionOnSet(f, A \cap R) + SumFunctionOnSet(f, A \ R)
        BY <3>2, <3>3, <4>2, <4>3, <4>4
      <4> QED
        BY <4>5
    <3> QED
      BY <3>5, <3>6
  <2> QED
    BY <2>1, <2>2
<1>2. S \in T
  <2> HIDE DEF T
  <2> QED
    BY <1>1, SubsetInduction
<1>3. S \cap R = R
  OBVIOUS
<1> QED
  BY <1>2, <1>3

\* Summing two functions at once is summing each.
LEMMA SumOfSums ==
  ASSUME NEW f, NEW g, NEW h, NEW S, IsFiniteSet(S),
         \A x \in S : f[x] \in Int /\ g[x] \in Int /\ h[x] = f[x] + g[x]
  PROVE  SumFunctionOnSet(h, S) = SumFunctionOnSet(f, S) + SumFunctionOnSet(g, S)
<1> DEFINE T == {A \in SUBSET S :
                   SumFunctionOnSet(h, A) = SumFunctionOnSet(f, A) + SumFunctionOnSet(g, A)}
<1>0. \A A \in SUBSET S : /\ IsFiniteSet(A)
                          /\ SumFunctionOnSet(f, A) \in Int
                          /\ SumFunctionOnSet(g, A) \in Int
  BY FS_Subset, SumType
<1>1. ASSUME NEW A \in SUBSET S, \A B \in SUBSET A : B # A => B \in T
      PROVE  A \in T
  <2>1. CASE A = {}
    <3>1. SumFunctionOnSet(h, A) = SumFunctionOnSet(f, A) + SumFunctionOnSet(g, A)
      BY <2>1, SumOfNone
    <3> QED
      BY <3>1
  <2>2. CASE A # {}
    <3>1. PICK y \in A : TRUE
      BY <2>2
    <3>2. /\ SumFunctionOnSet(f, A) = f[y] + SumFunctionOnSet(f, A \ {y})
          /\ SumFunctionOnSet(g, A) = g[y] + SumFunctionOnSet(g, A \ {y})
          /\ SumFunctionOnSet(h, A) = h[y] + SumFunctionOnSet(h, A \ {y})
      <4>1. \A x \in A : f[x] \in Int /\ g[x] \in Int /\ h[x] \in Int
        OBVIOUS
      <4> QED
        BY <1>0, <4>1, SumRemove
    <3>3. SumFunctionOnSet(h, A \ {y}) =
            SumFunctionOnSet(f, A \ {y}) + SumFunctionOnSet(g, A \ {y})
      <4>1. A \ {y} \in T
        BY <1>1
      <4> QED
        BY <4>1
    <3>4. /\ SumFunctionOnSet(f, A \ {y}) \in Int /\ f[y] \in Int
          /\ SumFunctionOnSet(g, A \ {y}) \in Int /\ g[y] \in Int
      BY <1>0
    <3>5. SumFunctionOnSet(h, A) = SumFunctionOnSet(f, A) + SumFunctionOnSet(g, A)
      BY <3>2, <3>3, <3>4
    <3> QED
      BY <3>5
  <2> QED
    BY <2>1, <2>2
<1>2. S \in T
  <2> HIDE DEF T
  <2> QED
    BY <1>1, SubsetInduction
<1> QED
  BY <1>2

\* Values that are not negative add up to a sum that is not.
LEMMA SumNotNegative ==
  ASSUME NEW f, NEW S, IsFiniteSet(S), \A x \in S : f[x] \in Nat
  PROVE  SumFunctionOnSet(f, S) \in Nat
<1> DEFINE T == {A \in SUBSET S : SumFunctionOnSet(f, A) \in Nat}
<1>1. ASSUME NEW A \in SUBSET S, \A B \in SUBSET A : B # A => B \in T
      PROVE  A \in T
  <2>1. CASE A = {}
    BY <2>1, SumOfNone
  <2>2. CASE A # {}
    <3>1. Pick(A) \in A
      BY <2>2, PickIn
    <3>2. A \ {Pick(A)} \in T
      BY <1>1, <3>1
    <3>3. SumFunctionOnSet(f, A) = f[Pick(A)] + SumFunctionOnSet(f, A \ {Pick(A)})
      BY <2>2, SumPicked, FS_Subset
    <3> QED
      BY <3>1, <3>2, <3>3
  <2> QED
    BY <2>1, <2>2
<1>2. S \in T
  <2> HIDE DEF T
  <2> QED
    BY <1>1, SubsetInduction
<1> QED
  BY <1>2

\* Zeros add up to nothing.
LEMMA SumOfZeros ==
  ASSUME NEW f, NEW S, IsFiniteSet(S), \A x \in S : f[x] = 0
  PROVE  SumFunctionOnSet(f, S) = 0
<1>0. \A x \in S : f[x] \in Int /\ f[x] \in Int /\ f[x] = f[x] + f[x]
  OBVIOUS
<1>1. SumFunctionOnSet(f, S) = SumFunctionOnSet(f, S) + SumFunctionOnSet(f, S)
  BY <1>0, SumOfSums
<1>2. SumFunctionOnSet(f, S) \in Int
  BY <1>0, SumType
<1>3. \A n \in Int : n = n + n => n = 0
  OBVIOUS
<1> QED
  BY <1>1, <1>2, <1>3

\* The same value everywhere adds up to as many times that value.
LEMMA SumOfConstant ==
  ASSUME NEW f, NEW S, IsFiniteSet(S), NEW c \in Nat, \A x \in S : f[x] = c
  PROVE  SumFunctionOnSet(f, S) = c * Cardinality(S)
<1> DEFINE T == {A \in SUBSET S : SumFunctionOnSet(f, A) = c * Cardinality(A)}
<1>1. ASSUME NEW A \in SUBSET S, \A B \in SUBSET A : B # A => B \in T
      PROVE  A \in T
  <2>1. CASE A = {}
    <3>1. SumFunctionOnSet(f, A) = 0 /\ Cardinality(A) = 0
      BY <2>1, SumOfNone, FS_EmptySet, Zenon
    <3>2. c * 0 = 0
      OBVIOUS
    <3> QED
      BY <3>1, <3>2
  <2>2. CASE A # {}
    <3>1. PICK y \in A : TRUE
      BY <2>2
    <3> DEFINE B == A \ {y}
               n == Cardinality(B)
               m == Cardinality(A)
    <3>2. IsFiniteSet(A) /\ IsFiniteSet(B) /\ B \in SUBSET A /\ B # A
      BY FS_Subset
    <3>3. n \in Nat /\ m \in Nat /\ n = m - 1
      BY <3>2, FS_RemoveElement, FS_CardinalityType
    <3>4. SumFunctionOnSet(f, A) = f[y] + SumFunctionOnSet(f, B)
      <4>1. \A x \in A : f[x] \in Int
        OBVIOUS
      <4> QED
        BY <3>2, <4>1, SumRemove
    <3>5. SumFunctionOnSet(f, B) = c * n /\ f[y] = c
      BY <1>1, <3>2
    <3> HIDE DEF n, m, B
    <3>6. c + c * n = c * m
      <4>1. m = n + 1
        BY <3>3
      <4>2. c * (n + 1) = c + c * n
        BY <3>3, SMT
      <4> QED
        BY <4>1, <4>2
    <3>7. SumFunctionOnSet(f, A) = c * m
      BY <3>4, <3>5, <3>6
    <3> QED
      BY <3>7 DEF m
  <2> QED
    BY <2>1, <2>2
<1>2. S \in T
  <2> HIDE DEF T
  <2> QED
    BY <1>1, SubsetInduction
<1> QED
  BY <1>2

\* So does a value that some members have, if the others count for nothing.
LEMMA SumOfPrizes ==
  ASSUME NEW f, NEW S, IsFiniteSet(S), NEW c \in Nat, NEW R \in SUBSET S,
         \A x \in S : f[x] = IF x \in R THEN c ELSE 0
  PROVE  SumFunctionOnSet(f, S) = c * Cardinality(R)
<1>1. \A x \in S : f[x] \in Int
  OBVIOUS
<1>2. SumFunctionOnSet(f, S) = SumFunctionOnSet(f, R) + SumFunctionOnSet(f, S \ R)
  BY <1>1, SumSplit
<1>3. IsFiniteSet(R) /\ IsFiniteSet(S \ R) /\ Cardinality(R) \in Nat
  BY FS_Subset, FS_CardinalityType
<1>4. SumFunctionOnSet(f, R) = c * Cardinality(R)
  BY <1>3, SumOfConstant
<1>5. SumFunctionOnSet(f, S \ R) = 0
  BY <1>3, SumOfZeros
<1>6. c * Cardinality(R) \in Int
  BY <1>3, SMT
<1> QED
  BY <1>2, <1>4, <1>5, <1>6

\* A set whose members are numbered from 1 on, each once, has that many of them.
Numbers(h, n, S) ==
  /\ h \in [1..n -> S]
  /\ \A i, j \in 1..n : h[i] = h[j] => i = j
  /\ \A x \in S : \E i \in 1..n : h[i] = x

LEMMA CountedOnce ==
  ASSUME NEW n \in Nat, NEW S, NEW h, Numbers(h, n, S)
  PROVE  Cardinality(S) = n
<1>1. h \in Bijection(1..n, S)
  <2>1. h \in Injection(1..n, S)
    BY DEF Numbers, Injection, IsInjective
  <2>2. h \in Surjection(1..n, S)
    BY DEF Numbers, Surjection
  <2> QED
    BY <2>1, <2>2 DEF Bijection
<1>2. ExistsBijection(1..n, S)
  BY <1>1 DEF ExistsBijection
<1> QED
  BY <1>2, FS_CountingElements

\* An image has as many members as what it is the image of, if no two of them
\* are sent to one.
LEMMA SumOfImage ==
  ASSUME NEW f, NEW g, NEW h, NEW I, IsFiniteSet(I),
         \A i \in I : g[i] = f[h[i]] /\ g[i] \in Int,
         \A i, j \in I : h[i] = h[j] => i = j
  PROVE  /\ IsFiniteSet({h[i] : i \in I})
         /\ SumFunctionOnSet(f, {h[i] : i \in I}) = SumFunctionOnSet(g, I)
<1> DEFINE Im(A) == {h[i] : i \in A}
           T == {A \in SUBSET I : /\ IsFiniteSet(Im(A))
                                  /\ SumFunctionOnSet(f, Im(A)) = SumFunctionOnSet(g, A)}
<1>1. ASSUME NEW A \in SUBSET I, \A B \in SUBSET A : B # A => B \in T
      PROVE  A \in T
  <2>1. CASE A = {}
    <3>1. Im(A) = {}
      BY <2>1
    <3> HIDE DEF Im
    <3> QED
      BY <2>1, <3>1, SumOfNone, FS_EmptySet
  <2>2. CASE A # {}
    <3>1. PICK y \in A : TRUE
      BY <2>2
    <3> DEFINE B == A \ {y}
    <3>2. B \in T
      BY <1>1
    <3>3. Im(A) = Im(B) \cup {h[y]} /\ h[y] \notin Im(B)
      OBVIOUS
    <3>4. IsFiniteSet(A) /\ \A i \in A : g[i] \in Int
      BY FS_Subset
    <3>5. SumFunctionOnSet(g, A) = g[y] + SumFunctionOnSet(g, B)
      BY <3>4, SumRemove
    <3>6. \A x \in Im(B) \cup {h[y]} : f[x] \in Int
      OBVIOUS
    <3>7. g[y] = f[h[y]] /\ IsFiniteSet(Im(B))
          /\ SumFunctionOnSet(f, Im(B)) = SumFunctionOnSet(g, B)
      BY <3>2
    <3> HIDE DEF Im, B
    <3>8. SumFunctionOnSet(f, Im(B) \cup {h[y]}) = f[h[y]] + SumFunctionOnSet(f, Im(B))
      BY <3>3, <3>6, <3>7, SumAdd
    <3>9. IsFiniteSet(Im(B) \cup {h[y]})
      BY <3>7, FS_AddElement
    <3> QED
      BY <3>3, <3>5, <3>7, <3>8, <3>9
  <2> QED
    BY <2>1, <2>2
<1>2. I \in T
  <2> HIDE DEF T
  <2> QED
    BY <1>1, SubsetInduction
<1> QED
  BY <1>2

-----------------------------------------------------------------------------
(* ranks *)

\* Of a finite set of naturals at most k members have fewer than k above them.
LEMMA FewAreAhead ==
  ASSUME NEW S, S \subseteq Nat, IsFiniteSet(S), NEW k \in Nat,
         NEW A, A = {x \in S : Cardinality({y \in S : y > x}) < k}
  PROVE  IsFiniteSet(A) /\ Cardinality(A) =< k
<1>1. IsFiniteSet(A) /\ Cardinality(A) \in Nat
  BY FS_Subset, FS_CardinalityType
<1>2. CASE A = {}
  <2>1. Cardinality(A) = 0
    BY <1>2, FS_EmptySet, Zenon
  <2> QED
    BY <1>1, <2>1
<1>3. CASE A # {}
  <2> DEFINE m == Min(A)
  <2>1. m \in A /\ \A x \in A : m =< x
    BY <1>3, MinIsLeast
  <2> HIDE DEF m
  <2> DEFINE above == {y \in S : y > m}
  <2>2. IsFiniteSet(above) /\ Cardinality(above) \in Nat /\ Cardinality(above) < k
    <3>1. above \in SUBSET S
      OBVIOUS
    <3>2. \A x \in A : Cardinality({y \in S : y > x}) < k
      BY Zenon
    <3>3. Cardinality(above) < k
      BY <2>1, <3>2, Zenon
    <3> HIDE DEF above
    <3> QED
      BY <3>1, <3>3, FS_Subset, FS_CardinalityType
  <2>3. A \ {m} \in SUBSET above
    <3>1. \A x \in A : x \in S /\ x \in Nat /\ m \in Nat
      BY <2>1
    <3>2. \A x \in A : x # m => x > m
      BY <2>1, <3>1
    <3> QED
      BY <3>1, <3>2
  <2> HIDE DEF above
  <2>4. Cardinality(A \ {m}) =< Cardinality(above)
    BY <2>2, <2>3, FS_Subset
  <2>5. Cardinality(A \ {m}) = Cardinality(A) - 1
    BY <1>1, <2>1, FS_RemoveElement
  <2> QED
    BY <1>1, <2>2, <2>4, <2>5
<1> QED
  BY <1>2, <1>3

\* Of two members the lesser one has more above it.
LEMMA LesserRanksLower ==
  ASSUME NEW S, S \subseteq Nat, IsFiniteSet(S), NEW x \in S, NEW y \in S, x < y
  PROVE  Cardinality({z \in S : z > y}) < Cardinality({z \in S : z > x})
<1> DEFINE X == {z \in S : z > x}
           Y == {z \in S : z > y}
<1>1. Y \in SUBSET X /\ y \in X /\ y \notin Y /\ X \in SUBSET S
  <2>1. x \in Nat /\ y \in Nat /\ \A z \in S : z \in Nat
    OBVIOUS
  <2>2. \A z \in S : z > y => z > x
    BY <2>1
  <2>3. Y \subseteq X
    BY <2>2, Zenon
  <2>4. y \in X /\ y \notin Y
    BY <2>1
  <2> QED
    BY <2>3, <2>4
<1> HIDE DEF X, Y
<1>2. IsFiniteSet(X) /\ IsFiniteSet(Y) /\ Cardinality(X) \in Nat /\ Cardinality(Y) \in Nat
  BY <1>1, FS_Subset, FS_CardinalityType
<1>3. Cardinality(Y) =< Cardinality(X) /\ (Cardinality(X) = Cardinality(Y) => X = Y)
  BY <1>1, <1>2, FS_Subset
<1>4. Cardinality(Y) < Cardinality(X)
  BY <1>1, <1>2, <1>3
<1> QED
  BY <1>4 DEF X, Y

\* If somebody stands behind the k from position n on, these k are all there.
LEMMA WindowIsFull ==
  ASSUME NEW S, S \subseteq Nat, IsFiniteSet(S), NEW n \in Nat, NEW k \in Nat,
         NEW W, W = {x \in S : Cardinality({y \in S : y > x}) \in n..(n + k - 1)},
         NEW x \in S, Cardinality({y \in S : y > x}) >= n + k
  PROVE  IsFiniteSet(W) /\ Cardinality(W) >= k
<1> DEFINE R(z) == Cardinality({y \in S : y > z})
           Behind == {z \in S : R(z) >= n + k}
           Ahead == {z \in S : R(z) < n}
<1>1. \A z \in S : R(z) \in Nat
  BY FS_Subset, FS_CardinalityType
<1>2. PICK m \in Nat : \A z \in S : z =< m
  <2>1. S # {}
    OBVIOUS
  <2>2. \E y \in S : \A z \in S : y >= z
    <3> DEFINE T == {R(z) : z \in S}
    <3>1. T \subseteq Nat /\ T # {}
      BY <1>1, <2>1
    <3>2. PICK r \in T : \A q \in T : r =< q
      <4> HIDE DEF T
      <4> QED
        BY <3>1, LeastMember
    <3>3. PICK y \in S : r = R(y)
      OBVIOUS
    <3>4. ASSUME NEW z \in S PROVE y >= z
      <4>1. CASE y < z
        <5>1. R(z) < R(y)
          BY <4>1, LesserRanksLower
        <5>2. R(y) =< R(z)
          BY <3>2, <3>3
        <5> QED
          BY <1>1, <5>1, <5>2
      <4> QED
        BY <4>1
    <3> QED
      BY <3>4
  <2> QED
    BY <2>2
<1>3. PICK b \in Behind : \A z \in Behind : b >= z
  <2>1. S \subseteq 0..m /\ Behind \subseteq S
    BY <1>2
  <2>2. Behind \subseteq 0..m
    BY <2>1, Zenon
  <2>3. Behind # {}
    BY Zenon
  <2> HIDE DEF Behind
  <2> QED
    BY <2>2, <2>3, MaxIsGreatest
<1> DEFINE above == {y \in S : y > b}
<1>4. Cardinality(above) >= n + k /\ above \in SUBSET S
  OBVIOUS
<1>5. above \subseteq Ahead \cup W
  <2>1. ASSUME NEW y \in above PROVE y \in Ahead \cup W
    <3>1. y \notin Behind /\ y \in S
      BY <1>3
    <3>2. R(y) < n + k /\ R(y) \in Nat
      BY <1>1, <3>1
    <3>3. R(y) < n \/ R(y) \in n..(n + k - 1)
      BY <3>2
    <3> QED
      BY <3>1, <3>3
  <2> QED
    BY <2>1
<1>6. IsFiniteSet(Ahead) /\ Cardinality(Ahead) =< n /\ Cardinality(Ahead) \in Nat
  BY FewAreAhead, FS_CardinalityType
<1>7. W \in SUBSET S /\ IsFiniteSet(W) /\ Cardinality(W) \in Nat
  BY FS_Subset, FS_CardinalityType
<1> HIDE DEF above, Ahead
<1>8. IsFiniteSet(Ahead \cup W) /\ Cardinality(Ahead \cup W) =< Cardinality(Ahead) + Cardinality(W)
  <2>1. Cardinality(Ahead \cap W) \in Nat
    BY <1>6, FS_Subset, FS_CardinalityType
  <2>2. /\ IsFiniteSet(Ahead \cup W)
        /\ Cardinality(Ahead \cup W)
             = Cardinality(Ahead) + Cardinality(W) - Cardinality(Ahead \cap W)
    BY <1>6, <1>7, FS_Union, Zenon
  <2> QED
    BY <1>6, <1>7, <2>1, <2>2
<1>9. Cardinality(above) =< Cardinality(Ahead \cup W) /\ Cardinality(above) \in Nat
  BY <1>4, <1>5, <1>8, FS_Subset, FS_CardinalityType
<1>10. Cardinality(Ahead \cup W) \in Nat
  BY <1>8, FS_CardinalityType
<1> QED
  BY <1>4, <1>6, <1>7, <1>8, <1>9, <1>10

\* A window of k ranks holds at most k.
LEMMA WindowFits ==
  ASSUME NEW S, S \subseteq Nat, IsFiniteSet(S), NEW n \in Nat, NEW k \in Nat,
         NEW W, W = {x \in S : Cardinality({y \in S : y > x}) \in n..(n + k - 1)}
  PROVE  IsFiniteSet(W) /\ Cardinality(W) =< k
<1> DEFINE R(z) == Cardinality({y \in S : y > z})
           ranks == n..(n + k - 1)
           f == [x \in W |-> R(x)]
<1>1. \A x \in W : x \in S /\ x \in Nat /\ R(x) \in ranks
  OBVIOUS
<1>2. IsFiniteSet(ranks) /\ Cardinality(ranks) = k
  <2>1. n \in Int /\ n + k - 1 \in Int
    OBVIOUS
  <2>2. IsFiniteSet(ranks) /\ Cardinality(ranks)
                                = IF n > n + k - 1 THEN 0 ELSE (n + k - 1) - n + 1
    BY <2>1, FS_Interval
  <2> HIDE DEF ranks
  <2> QED
    BY <2>2
<1>3. ASSUME NEW x \in W, NEW y \in W, R(x) = R(y) PROVE x = y
  <2>1. CASE x < y
    <3>1. R(y) < R(x)
      BY <1>1, <2>1, LesserRanksLower
    <3>2. R(x) \in Int /\ R(y) \in Int
      BY <1>1
    <3> QED
      BY <1>3, <3>1, <3>2
  <2>2. CASE y < x
    <3>1. R(x) < R(y)
      BY <1>1, <2>2, LesserRanksLower
    <3>2. R(x) \in Int /\ R(y) \in Int
      BY <1>1
    <3> QED
      BY <1>3, <3>1, <3>2
  <2> QED
    BY <1>1, <2>1, <2>2
<1>4. f \in Injection(W, ranks)
  <2> HIDE DEF R, ranks
  <2>1. f \in [W -> ranks]
    BY <1>1
  <2>2. \A x, y \in W : f[x] = f[y] => x = y
    BY <1>3
  <2> HIDE DEF f
  <2> QED
    BY <2>1, <2>2 DEF Injection, IsInjective
<1> HIDE DEF f, ranks
<1> QED
  BY <1>2, <1>4, FS_Injection

\* The two above of sets that are written in another way.
Above(S, x) == {y \in S : y > x}
Window(S, n, k) == {x \in S : Cardinality(Above(S, x)) \in n..(n + k - 1)}

LEMMA FullWindow ==
  ASSUME NEW S, S \subseteq Nat, IsFiniteSet(S), NEW n \in Nat, NEW k \in Nat,
         NEW x \in S, Cardinality(Above(S, x)) >= n + k
  PROVE  Cardinality(Window(S, n, k)) >= k
<1>1. Cardinality({y \in S : y > x}) >= n + k
  BY Zenon DEF Above
<1> DEFINE W == {z \in S : Cardinality({y \in S : y > z}) \in n..(n + k - 1)}
<1>2. W = Window(S, n, k)
  BY Zenon DEF Window, Above
<1>3. Cardinality(W) >= k
  BY <1>1, WindowIsFull
<1> QED
  BY <1>2, <1>3, Zenon

LEMMA WindowSize ==
  ASSUME NEW S, S \subseteq Nat, IsFiniteSet(S), NEW n \in Nat, NEW k \in Nat
  PROVE  IsFiniteSet(Window(S, n, k)) /\ Cardinality(Window(S, n, k)) =< k
<1> DEFINE W == {z \in S : Cardinality({y \in S : y > z}) \in n..(n + k - 1)}
<1>1. W = Window(S, n, k)
  BY Zenon DEF Window, Above
<1>2. IsFiniteSet(W) /\ Cardinality(W) =< k
  BY WindowFits
<1> QED
  BY <1>1, <1>2, Zenon

=============================================================================
