---------------------------- MODULE SumLemmas -----------------------------
(***************************************************************************)
(* What the proofs need of sums over finite sets.  SumFunctionOnSet adds   *)
(* the values of a function in an order chosen by CHOOSE, along a function *)
(* defined by recursion on the set.  Here that function is shown to exist, *)
(* and the sum to change by what one value changes.                        *)
(***************************************************************************)
EXTENDS Integers, Functions, FiniteSetTheorems, NaturalsInduction, TLAPS

\* Induction over the natural numbers, for a set instead of a predicate.
LEMMA SetInduction ==
    ASSUME NEW S, 0 \in S, \A n \in Nat : n \in S => n + 1 \in S
    PROVE  \A n \in Nat : n \in S
<1> DEFINE Bad == Nat \ S
<1> SUFFICES ASSUME Bad # {} PROVE FALSE
  OBVIOUS
<1>1. PICK m \in Bad : \A y \in Bad : ~(<<y, m>> \in OpToRel(<, Nat))
  BY NatLessThanWellFounded, WFMin
<1>2. m \in Nat /\ m # 0 /\ \A y \in Bad : ~(y < m)
  BY <1>1 DEF OpToRel
<1>3. m - 1 \in Nat /\ m - 1 \in S
  BY <1>2
<1>4. (m - 1) + 1 \in S /\ (m - 1) + 1 = m
  BY <1>2, <1>3
<1> QED BY <1>1, <1>4

\* The element a sum takes next, and the sets it still has to add.
Pick(s) == CHOOSE x \in s : TRUE
Rest(s) == s \ {Pick(s)}

LEMMA PickOne == ASSUME NEW s, s # {} PROVE Pick(s) \in s
BY DEF Pick

\* What holds of the empty set, and of a set when it holds of its rest, holds of
\* all subsets of a finite set.
LEMMA SubsetInduction ==
    ASSUME NEW S, IsFiniteSet(S), NEW Good, {} \in Good,
           \A s \in SUBSET S : s # {} /\ Rest(s) \in Good => s \in Good
    PROVE  \A s \in SUBSET S : s \in Good
<1> DEFINE K == {n \in Nat : \A s \in SUBSET S : Cardinality(s) = n => s \in Good}
<1>1. \A s \in SUBSET S : /\ IsFiniteSet(s) /\ Cardinality(s) \in Nat
                          /\ (Cardinality(s) = 0 => s = {})
  BY FS_Subset, FS_CardinalityType, FS_EmptySet
<1>2. 0 \in K
  BY <1>1
<1>3. ASSUME NEW n \in Nat, n \in K PROVE n + 1 \in K
  <2> SUFFICES ASSUME NEW s \in SUBSET S, Cardinality(s) = n + 1 PROVE s \in Good
    OBVIOUS
  <2>1. s # {}
    BY FS_EmptySet
  <2>2. Pick(s) \in s
    BY <2>1, PickOne
  <2>3. Rest(s) \in SUBSET S /\ Cardinality(Rest(s)) = Cardinality(s) - 1
    BY <1>1, <2>2, FS_RemoveElement DEF Rest
  <2>4. Cardinality(Rest(s)) = n
    BY <2>3
  <2>5. Rest(s) \in Good
    BY <1>3, <2>3, <2>4
  <2> QED BY <2>1, <2>5
<1> HIDE DEF K
<1>4. \A n \in Nat : n \in K
  BY <1>2, <1>3, SetInduction
<1> QED BY <1>1, <1>4 DEF K

\* The function the library defines by recursion.
IsSum(it, f, S) ==
    it = [s \in SUBSET S |-> IF s = {} THEN 0 ELSE f[Pick(s)] + it[Rest(s)]]

LEMMA SumRules ==
    ASSUME NEW f, NEW S, NEW it, IsSum(it, f, S)
    PROVE  /\ it[{}] = 0
           /\ \A s \in SUBSET S : s # {} => it[s] = f[Pick(s)] + it[Rest(s)]
<1>1. \A s \in SUBSET S : it[s] = IF s = {} THEN 0 ELSE f[Pick(s)] + it[Rest(s)]
  BY Zenon DEF IsSum
<1> QED BY <1>1

\* The sets with at most n elements have partial sums.
Small(S, n) == {s \in SUBSET S : Cardinality(s) <= n}

IsPartialSum(h, f, S, n) ==
    /\ h \in [Small(S, n) -> Int]
    /\ \A s \in Small(S, n) : h[s] = IF s = {} THEN 0 ELSE f[Pick(s)] + h[Rest(s)]

LEMMA PartialSums ==
    ASSUME NEW S, IsFiniteSet(S), NEW f, \A x \in S : f[x] \in Int
    PROVE  \A n \in Nat : \E h : IsPartialSum(h, f, S, n)
<1> DEFINE K == {n \in Nat : \E h : IsPartialSum(h, f, S, n)}
<1>1. \A s \in SUBSET S : /\ IsFiniteSet(s) /\ Cardinality(s) \in Nat
                          /\ (Cardinality(s) = 0 <=> s = {})
  BY FS_Subset, FS_CardinalityType, FS_EmptySet
<1>2. \A s \in SUBSET S : s # {} => /\ Pick(s) \in S /\ Rest(s) \in SUBSET S
                                    /\ Cardinality(Rest(s)) = Cardinality(s) - 1
  BY <1>1, PickOne, FS_RemoveElement DEF Rest
<1>3. 0 \in K
  <2>1. \A s \in Small(S, 0) : s = {}
    BY <1>1 DEF Small
  <2> DEFINE h == [s \in Small(S, 0) |-> 0]
  <2>2. IsPartialSum(h, f, S, 0)
    BY <2>1 DEF IsPartialSum
  <2> QED BY <2>2
<1>4. ASSUME NEW n \in Nat, n \in K PROVE n + 1 \in K
  <2>1. PICK h : IsPartialSum(h, f, S, n)
    BY <1>4
  <2> DEFINE g == [s \in Small(S, n + 1) |->
                     IF s \in Small(S, n) THEN h[s] ELSE f[Pick(s)] + h[Rest(s)]]
  <2>2. \A s \in Small(S, n + 1) : s # {} => Rest(s) \in Small(S, n) /\ Pick(s) \in S
    BY <1>1, <1>2 DEF Small
  <2>3. Small(S, n) \subseteq Small(S, n + 1) /\ {} \in Small(S, n)
    BY <1>1 DEF Small
  <2>4. \A s \in Small(S, n) : h[s] \in Int /\ g[s] = h[s]
    BY <2>1, <2>3 DEF IsPartialSum
  <2>5. ASSUME NEW s \in Small(S, n + 1), s \notin Small(S, n)
        PROVE  s # {} /\ g[s] = f[Pick(s)] + g[Rest(s)] /\ g[s] \in Int
    <3>1. s # {}
      BY <2>3, <2>5
    <3>2. Rest(s) \in Small(S, n) /\ f[Pick(s)] \in Int
      BY <2>2, <3>1
    <3>3. g[s] = f[Pick(s)] + h[Rest(s)]
      BY <2>5
    <3> HIDE DEF g
    <3> QED BY <2>4, <3>1, <3>2, <3>3
  <2>6. ASSUME NEW s \in Small(S, n), s # {} PROVE g[s] = f[Pick(s)] + g[Rest(s)]
    <3>1. Rest(s) \in Small(S, n)
      BY <2>2, <2>3, <2>6
    <3>2. h[s] = f[Pick(s)] + h[Rest(s)]
      BY <2>1, <2>6 DEF IsPartialSum
    <3> HIDE DEF g
    <3> QED BY <2>4, <3>1, <3>2
  <2>7. g[{}] = 0
    <3>1. h[{}] = 0
      BY <2>1, <2>3 DEF IsPartialSum
    <3> HIDE DEF g
    <3> QED BY <2>3, <2>4, <3>1
  <2>8. g \in [Small(S, n + 1) -> Int]
    <3>1. \A s \in Small(S, n + 1) : g[s] \in Int
      <4> HIDE DEF g
      <4> QED BY <2>4, <2>5
    <3> QED BY <3>1
  <2> HIDE DEF g
  <2>9. IsPartialSum(g, f, S, n + 1)
    BY <2>5, <2>6, <2>7, <2>8 DEF IsPartialSum
  <2> QED BY <2>9
<1> HIDE DEF K
<1>5. \A n \in Nat : n \in K
  BY <1>3, <1>4, SetInduction
<1> QED BY <1>5 DEF K

\* A sum over a finite set is given by such a function, with integer values.
LEMMA SumExists ==
    ASSUME NEW S, IsFiniteSet(S), NEW f, \A x \in S : f[x] \in Int
    PROVE  \E it : /\ IsSum(it, f, S) /\ SumFunctionOnSet(f, S) = it[S]
                   /\ \A s \in SUBSET S : it[s] \in Int
<1>1. PICK h : IsPartialSum(h, f, S, Cardinality(S))
  BY PartialSums, FS_CardinalityType
<1>2. Small(S, Cardinality(S)) = SUBSET S
  BY FS_Subset DEF Small
<1>3. h = [s \in SUBSET S |-> h[s]]
      /\ \A s \in SUBSET S : h[s] = IF s = {} THEN 0 ELSE f[Pick(s)] + h[Rest(s)]
  BY <1>1, <1>2 DEF IsPartialSum
<1>4. IsSum(h, f, S)
  BY <1>3 DEF IsSum
<1> DEFINE it == CHOOSE g : IsSum(g, f, S)
<1>5. IsSum(it, f, S)
  BY <1>4, Zenon
<1>6. SumFunctionOnSet(f, S) = it[S]
  BY Zenon DEF SumFunctionOnSet, FoldFunctionOnSet, MapThenFoldSet, IsSum, Pick, Rest
<1> HIDE DEF it
<1>7. \A s \in SUBSET S : it[s] \in Int
  <2> DEFINE Good == {s \in SUBSET S : it[s] \in Int}
  <2>1. {} \in Good
    BY <1>5, SumRules
  <2>2. ASSUME NEW s \in SUBSET S, s # {}, Rest(s) \in Good PROVE s \in Good
    <3>1. it[s] = f[Pick(s)] + it[Rest(s)]
      BY <1>5, <2>2, SumRules
    <3>2. f[Pick(s)] \in Int
      BY <2>2, PickOne
    <3> QED BY <2>2, <3>1, <3>2
  <2> HIDE DEF Good
  <2>3. \A s \in SUBSET S : s \in Good
    BY <2>1, <2>2, SubsetInduction
  <2> QED BY <2>3 DEF Good
<1> QED BY <1>5, <1>6, <1>7

LEMMA SumType ==
    ASSUME NEW S, IsFiniteSet(S), NEW f, \A x \in S : f[x] \in Int
    PROVE  SumFunctionOnSet(f, S) \in Int
BY SumExists

\* Equal summands: k added as often as the set has elements.
LEMMA SumOfEqual ==
    ASSUME NEW S, IsFiniteSet(S), NEW k \in Int, NEW f, \A x \in S : f[x] = k
    PROVE  SumFunctionOnSet(f, S) = k * Cardinality(S)
<1>1. PICK it : /\ IsSum(it, f, S) /\ SumFunctionOnSet(f, S) = it[S]
                /\ \A s \in SUBSET S : it[s] \in Int
  BY SumExists
<1> DEFINE Good == {s \in SUBSET S : it[s] = k * Cardinality(s)}
<1>2. {} \in Good
  BY <1>1, SumRules, FS_EmptySet
<1>3. ASSUME NEW s \in SUBSET S, s # {}, Rest(s) \in Good PROVE s \in Good
  <2>1. it[s] = k + it[Rest(s)]
    BY <1>1, <1>3, SumRules, PickOne
  <2>2. IsFiniteSet(s) /\ Pick(s) \in s
    BY <1>3, FS_Subset, PickOne
  <2>3. Cardinality(Rest(s)) = Cardinality(s) - 1 /\ Cardinality(s) \in Nat
    BY <2>2, FS_RemoveElement, FS_CardinalityType DEF Rest
  <2>4. it[Rest(s)] = k * (Cardinality(s) - 1)
    BY <1>3, <2>3
  <2> DEFINE n == Cardinality(s)
  <2>5. n \in Int
    BY <2>3
  <2> HIDE DEF n
  <2>6. k + k * (n - 1) = k * n
    BY <2>5
  <2> QED BY <2>1, <2>4, <2>6 DEF n
<1> HIDE DEF Good
<1>4. \A s \in SUBSET S : s \in Good
  BY <1>2, <1>3, SubsetInduction
<1>5. S \in Good
  BY <1>4
<1> QED BY <1>1, <1>5 DEF Good

\* One summand changes: so does the sum, by as much.
LEMMA SumUpdate ==
    ASSUME NEW S, IsFiniteSet(S), NEW f, NEW g, NEW e \in S,
           \A x \in S : f[x] \in Int /\ g[x] \in Int,
           \A x \in S : x # e => g[x] = f[x]
    PROVE  SumFunctionOnSet(g, S) = SumFunctionOnSet(f, S) + (g[e] - f[e])
<1>1. PICK it : /\ IsSum(it, f, S) /\ SumFunctionOnSet(f, S) = it[S]
                /\ \A s \in SUBSET S : it[s] \in Int
  BY SumExists
<1>2. PICK jt : /\ IsSum(jt, g, S) /\ SumFunctionOnSet(g, S) = jt[S]
                /\ \A s \in SUBSET S : jt[s] \in Int
  BY SumExists
<1> DEFINE d(s) == IF e \in s THEN g[e] - f[e] ELSE 0
           Good == {s \in SUBSET S : jt[s] = it[s] + d(s)}
<1>3. {} \in Good
  BY <1>1, <1>2, SumRules
<1>4. ASSUME NEW s \in SUBSET S, s # {}, Rest(s) \in Good PROVE s \in Good
  <2>1. it[s] = f[Pick(s)] + it[Rest(s)] /\ jt[s] = g[Pick(s)] + jt[Rest(s)]
    BY <1>1, <1>2, <1>4, SumRules
  <2>2. Pick(s) \in s /\ Pick(s) \in S /\ Rest(s) \in SUBSET S
    BY <1>4, PickOne DEF Rest
  <2>3. jt[Rest(s)] = it[Rest(s)] + d(Rest(s))
    BY <1>4
  <2>4. it[Rest(s)] \in Int /\ f[Pick(s)] \in Int /\ g[Pick(s)] \in Int /\ f[e] \in Int /\ g[e] \in Int
    BY <1>1, <2>2
  <2>5. CASE Pick(s) = e
    <3>1. e \in s /\ e \notin Rest(s)
      BY <2>2, <2>5 DEF Rest
    <3> QED BY <2>1, <2>3, <2>4, <2>5, <3>1
  <2>6. CASE Pick(s) # e
    <3>1. (e \in s <=> e \in Rest(s)) /\ g[Pick(s)] = f[Pick(s)]
      BY <2>2, <2>6 DEF Rest
    <3>2. d(s) = d(Rest(s)) /\ d(s) \in Int
      BY <2>4, <3>1
    <3> HIDE DEF d
    <3> QED BY <2>1, <2>3, <2>4, <3>1, <3>2
  <2> QED BY <2>5, <2>6
<1>5. \A s \in SUBSET S : s \in Good
  <2> HIDE DEF Good
  <2> QED BY <1>3, <1>4, SubsetInduction
<1>6. S \in Good
  BY <1>5
<1> QED BY <1>1, <1>2, <1>6

LEMMA SumSame ==
    ASSUME NEW S, IsFiniteSet(S), NEW f, NEW g, \A x \in S : f[x] \in Int, \A x \in S : g[x] = f[x]
    PROVE  SumFunctionOnSet(g, S) = SumFunctionOnSet(f, S)
<1>1. CASE S = {}
  <2>1. \A x \in S : f[x] = 0 /\ g[x] = 0
    BY <1>1
  <2>2. SumFunctionOnSet(f, S) = 0 * Cardinality(S) /\ SumFunctionOnSet(g, S) = 0 * Cardinality(S)
    BY <2>1, SumOfEqual
  <2> QED BY <2>2
<1>2. CASE S # {}
  <2>1. PICK e \in S : TRUE
    BY <1>2
  <2>2. SumFunctionOnSet(g, S) = SumFunctionOnSet(f, S) + (g[e] - f[e])
    BY <2>1, SumUpdate
  <2>3. SumFunctionOnSet(f, S) \in Int
    BY SumType
  <2>4. g[e] = f[e] /\ f[e] \in Int
    BY <2>1
  <2> QED BY <2>2, <2>3, <2>4
<1> QED BY <1>1, <1>2

LEMMA SumExcept ==
    ASSUME NEW S, IsFiniteSet(S), NEW f \in [S -> Int], NEW e \in S, NEW v \in Int
    PROVE  SumFunctionOnSet([f EXCEPT ![e] = v], S) = SumFunctionOnSet(f, S) + (v - f[e])
<1> DEFINE g == [f EXCEPT ![e] = v]
<1>1. /\ \A x \in S : f[x] \in Int /\ g[x] \in Int
      /\ \A x \in S : x # e => g[x] = f[x]
      /\ g[e] = v
  OBVIOUS
<1> HIDE DEF g
<1>2. SumFunctionOnSet(g, S) = SumFunctionOnSet(f, S) + (g[e] - f[e])
  BY <1>1, SumUpdate
<1> QED BY <1>1, <1>2 DEF g
==============================================================================
