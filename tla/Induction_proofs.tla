--------------------------- MODULE Induction_proofs ---------------------------
(***************************************************************************)
(* Induction over numbers and finite sets, in a form that takes a set for  *)
(* the property instead of an operator, and what it gives: how the sum of  *)
(* a function over a finite set changes when the function does at one      *)
(* place.                                                                  *)
(***************************************************************************)
EXTENDS Integers, FiniteSets, Functions, FiniteSetTheorems, WellFoundedInduction, TLAPS

-----------------------------------------------------------------------------
(* Induction.                                                              *)

\* A non-empty set of natural numbers has a least element.
LEMMA LeastNumber ==
    ASSUME NEW S \in SUBSET Nat, S # {}
    PROVE  \E n \in S : \A m \in S : n <= m
<1> DEFINE R == OpToRel(<, Nat)
<1>1. IsWellFoundedOn(R, Nat)
  BY NatLessThanWellFounded
<1>2. \A x, y \in Nat : y < x => <<y, x>> \in R
  BY DEF OpToRel
<1> HIDE DEF R
<1>3. PICK n \in S : \A m \in S : ~(<<m, n>> \in R)
  BY <1>1, WFMin
<1>4. ASSUME NEW m \in S  PROVE n <= m
  <2>1. n \in Nat /\ m \in Nat /\ ~(m < n)
    BY <1>2, <1>3
  <2>2. QED
    BY <2>1
<1>5. QED
  BY <1>4

\* What holds of 0 and goes on from n to n + 1 holds of every number.
LEMMA NumberInduction ==
    ASSUME NEW G, 0 \in G, \A n \in Nat : n \in G => n + 1 \in G
    PROVE  Nat \subseteq G
<1> SUFFICES ASSUME Nat \ G # {} PROVE FALSE
  OBVIOUS
<1>1. PICK n \in Nat \ G : \A m \in Nat \ G : n <= m
  BY LeastNumber
<1>2. n # 0 /\ n - 1 \in Nat /\ ~(n <= n - 1)
  BY <1>1
<1>3. n - 1 \in G /\ (n - 1) + 1 = n
  BY <1>1, <1>2
<1>4. QED
  BY <1>1, <1>2, <1>3

\* What holds of a set as soon as it holds of its proper subsets holds of every
\* subset of a finite set.
LEMMA SubsetInduction ==
    ASSUME NEW S, IsFiniteSet(S), NEW G,
           \A T \in SUBSET S : (\A U \in SUBSET T : U # T => U \in G) => T \in G
    PROVE  SUBSET S \subseteq G
<1> DEFINE Bad == (SUBSET S) \ G
           R   == StrictSubsetOrdering(S)
<1> SUFFICES ASSUME Bad # {} PROVE FALSE
  OBVIOUS
<1>1. IsWellFoundedOn(R, FiniteSubsetsOf(S))
  BY FS_StrictSubsetOrderingWellFounded
<1>2. Bad \subseteq FiniteSubsetsOf(S)
  BY FS_Subset DEF FiniteSubsetsOf
<1>3. \A T, U \in SUBSET S : U \subseteq T /\ U # T => <<U, T>> \in R
  BY DEF StrictSubsetOrdering
<1> HIDE DEF R
<1>4. PICK T \in Bad : \A U \in Bad : ~(<<U, T>> \in R)
  <2> HIDE DEF Bad
  <2>1. QED
    BY <1>1, <1>2, WFMin
<1>5. ASSUME NEW U \in SUBSET T, U # T  PROVE U \in G
  <2>1. U \in SUBSET S /\ T \in SUBSET S
    BY <1>4
  <2>2. <<U, T>> \in R
    BY <1>3, <1>5, <2>1
  <2>3. QED
    BY <1>4, <2>1, <2>2
<1>6. QED
  BY <1>4, <1>5

-----------------------------------------------------------------------------
(* Sums.                                                                   *)

Some(s) == CHOOSE x \in s : TRUE

\* g is the sum of f on each subset of S.
Sums(g, f, S) ==
    g = [s \in SUBSET S |-> IF s = {} THEN 0 ELSE f[Some(s)] + g[s \ {Some(s)}]]

LEMMA SumIs ==
    ASSUME NEW f, NEW S
    PROVE  SumFunctionOnSet(f, S) = (CHOOSE g : Sums(g, f, S))[S]
BY DEF SumFunctionOnSet, FoldFunctionOnSet, MapThenFoldSet, Sums, Some

\* The sum of a set is one of its values, and the sum of the rest.
LEMMA SumRecursion ==
    ASSUME NEW f, NEW S, IsFiniteSet(S)
    PROVE  \A T \in SUBSET S : SumFunctionOnSet(f, T) =
               IF T = {} THEN 0 ELSE f[Some(T)] + SumFunctionOnSet(f, T \ {Some(T)})
<1> DEFINE Sum(T) == SumFunctionOnSet(f, T)
           Rest(T) == T \ {Some(T)}
           Good == {T \in SUBSET S : Sum(T) = IF T = {} THEN 0 ELSE f[Some(T)] + Sum(Rest(T))}
<1>1. \A T : T # {} => Some(T) \in T
  BY DEF Some
<1>2. ASSUME NEW T \in SUBSET S, \A U \in SUBSET T : U # T => U \in Good
      PROVE  T \in Good
  <2> DEFINE h == [s \in SUBSET T |-> IF s = {} THEN 0 ELSE f[Some(s)] + Sum(Rest(s))]
  <2>1. \A s \in SUBSET T : s # T => h[s] = Sum(s)
    BY <1>2
  <2>2. \A s \in SUBSET T : s # {} => Rest(s) \in SUBSET T /\ Rest(s) # T
    BY <1>1
  <2>3. Sums(h, f, T)
    BY <2>1, <2>2 DEF Sums
  <2>4. PICK g : g = (CHOOSE k : Sums(k, f, T))
    OBVIOUS
  <2>5. Sums(g, f, T)
    BY <2>3, <2>4
  <2>6. \A s \in SUBSET T : g[s] = IF s = {} THEN 0 ELSE f[Some(s)] + g[Rest(s)]
    BY <2>5 DEF Sums
  <2>7. IsFiniteSet(T)
    BY FS_Subset
  <2> DEFINE Same == {s \in SUBSET T : s # T => g[s] = Sum(s)}
  <2>8. ASSUME NEW s \in SUBSET T, \A U \in SUBSET s : U # s => U \in Same
        PROVE  s \in Same
    <3>1. CASE s = {}
      BY <3>1, <2>6, <1>2
    <3>2. CASE s # {}
      <4>1. Rest(s) \in SUBSET s /\ Rest(s) # s /\ Rest(s) # T
        BY <3>2, <1>1
      <4>2. g[Rest(s)] = Sum(Rest(s))
        BY <4>1, <2>8
      <4>3. s # T => Sum(s) = f[Some(s)] + Sum(Rest(s))
        BY <3>2, <1>2
      <4>4. QED
        BY <3>2, <4>2, <4>3, <2>6
    <3>3. QED
      BY <3>1, <3>2
  <2>9. SUBSET T \subseteq Same
    <3> HIDE DEF Same
    <3>1. QED
      BY <2>7, <2>8, SubsetInduction
  <2>10. Sum(T) = g[T]
    BY <2>4, SumIs
  <2>11. CASE T = {}
    BY <2>6, <2>10, <2>11
  <2>12. CASE T # {}
    <3>1. g[Rest(T)] = Sum(Rest(T))
      BY <2>2, <2>9, <2>12
    <3>2. QED
      BY <2>6, <2>10, <2>12, <3>1
  <2>13. QED
    BY <2>11, <2>12
<1>3. SUBSET S \subseteq Good
  <2> HIDE DEF Good
  <2>1. QED
    BY <1>2, SubsetInduction
<1>4. QED
  BY <1>3

\* Sums of natural numbers, and how one changes with one of the numbers.
LEMMA SumChanges ==
    ASSUME NEW S, IsFiniteSet(S), NEW f \in [S -> Nat], NEW g \in [S -> Nat],
           NEW a \in S, \A x \in S \ {a} : g[x] = f[x]
    PROVE  /\ SumFunction(f) \in Nat /\ SumFunction(g) \in Nat
           /\ SumFunction(g) + f[a] = SumFunction(f) + g[a]
<1> DEFINE Sf(T) == SumFunctionOnSet(f, T)
           Sg(T) == SumFunctionOnSet(g, T)
           Rest(T) == T \ {Some(T)}
           Good == {T \in SUBSET S : /\ Sf(T) \in Nat /\ Sg(T) \in Nat
                                     /\ IF a \in T THEN Sg(T) + f[a] = Sf(T) + g[a]
                                                   ELSE Sg(T) = Sf(T)}
<1>1. ASSUME NEW T \in SUBSET S, \A U \in SUBSET T : U # T => U \in Good
      PROVE  T \in Good
  <2>1. /\ Sf(T) = IF T = {} THEN 0 ELSE f[Some(T)] + Sf(Rest(T))
        /\ Sg(T) = IF T = {} THEN 0 ELSE g[Some(T)] + Sg(Rest(T))
    BY SumRecursion
  <2>2. CASE T = {}
    BY <2>1, <2>2
  <2>3. CASE T # {}
    <3>1. PICK x : x = Some(T)
      OBVIOUS
    <3>2. x \in T /\ f[x] \in Nat /\ g[x] \in Nat /\ f[a] \in Nat /\ g[a] \in Nat
      BY <2>3, <3>1 DEF Some
    <3>3. PICK U : U = T \ {x}
      OBVIOUS
    <3>4. U \in Good
      BY <1>1, <3>2, <3>3
    <3>5. PICK m, n \in Nat : m = Sf(U) /\ n = Sg(U)
      BY <3>4
    <3>6. Sf(T) = f[x] + m /\ Sg(T) = g[x] + n
      BY <2>1, <2>3, <3>1, <3>3, <3>5
    <3>7. IF a \in U THEN n + f[a] = m + g[a] ELSE n = m
      BY <3>4, <3>5
    <3>8. CASE x = a
      <4>1. a \notin U /\ a \in T
        BY <3>2, <3>3, <3>8
      <4>2. QED
        BY <3>2, <3>6, <3>7, <3>8, <4>1
    <3>9. CASE x # a
      <4>1. (a \in U) = (a \in T) /\ g[x] = f[x]
        BY <3>2, <3>3, <3>9
      <4>2. QED
        BY <3>2, <3>6, <3>7, <4>1
    <3>10. QED
      BY <3>8, <3>9
  <2>4. QED
    BY <2>2, <2>3
<1>2. SUBSET S \subseteq Good
  <2> HIDE DEF Good
  <2>1. QED
    BY <1>1, SubsetInduction
<1>3. S \in Good
  BY <1>2
<1>4. SumFunction(f) = Sf(S) /\ SumFunction(g) = Sg(S)
  BY DEF SumFunction
<1>5. QED
  BY <1>3, <1>4

LEMMA SumOfZeros ==
    ASSUME NEW S, IsFiniteSet(S), NEW f, f = [x \in S |-> 0]
    PROVE  SumFunction(f) = 0
<1> DEFINE Good == {T \in SUBSET S : SumFunctionOnSet(f, T) = 0}
<1>1. ASSUME NEW T \in SUBSET S, \A U \in SUBSET T : U # T => U \in Good
      PROVE  T \in Good
  <2>1. SumFunctionOnSet(f, T) =
          IF T = {} THEN 0 ELSE f[Some(T)] + SumFunctionOnSet(f, T \ {Some(T)})
    BY SumRecursion
  <2>2. CASE T # {}
    <3>1. Some(T) \in T
      BY <2>2 DEF Some
    <3>2. T \ {Some(T)} \in Good /\ f[Some(T)] = 0
      BY <1>1, <3>1
    <3>3. QED
      BY <2>1, <2>2, <3>2
  <2>3. QED
    BY <2>1, <2>2
<1>2. SUBSET S \subseteq Good
  <2> HIDE DEF Good
  <2>1. QED
    BY <1>1, SubsetInduction
<1>3. QED
  BY <1>2 DEF SumFunction

LEMMA SumIsNumber ==
    ASSUME NEW S, IsFiniteSet(S), NEW f \in [S -> Nat]
    PROVE  SumFunction(f) \in Nat
<1> DEFINE Good == {T \in SUBSET S : SumFunctionOnSet(f, T) \in Nat}
<1>1. ASSUME NEW T \in SUBSET S, \A U \in SUBSET T : U # T => U \in Good
      PROVE  T \in Good
  <2>1. SumFunctionOnSet(f, T) =
          IF T = {} THEN 0 ELSE f[Some(T)] + SumFunctionOnSet(f, T \ {Some(T)})
    BY SumRecursion
  <2>2. CASE T # {}
    <3>1. Some(T) \in T
      BY <2>2 DEF Some
    <3>2. T \ {Some(T)} \in Good /\ f[Some(T)] \in Nat
      BY <1>1, <3>1
    <3>3. QED
      BY <2>1, <2>2, <3>2
  <2>3. QED
    BY <2>1, <2>2
<1>2. SUBSET S \subseteq Good
  <2> HIDE DEF Good
  <2>1. QED
    BY <1>1, SubsetInduction
<1>3. QED
  BY <1>2 DEF SumFunction

\* When some of the numbers grow by one, the sum grows by as many.
LEMMA SumGrows ==
    ASSUME NEW S, IsFiniteSet(S), NEW f \in [S -> Nat], NEW g \in [S -> Nat],
           NEW G \in SUBSET S, \A x \in S : g[x] = f[x] + IF x \in G THEN 1 ELSE 0
    PROVE  SumFunction(g) = SumFunction(f) + Cardinality(G)
<1> DEFINE Grown(T) == [x \in S |-> f[x] + IF x \in T THEN 1 ELSE 0]
           Good == {T \in SUBSET S : SumFunction(Grown(T)) = SumFunction(f) + Cardinality(T)}
<1>1. SumFunction(f) \in Nat
  BY SumIsNumber
<1>2. ASSUME NEW T \in SUBSET S, \A U \in SUBSET T : U # T => U \in Good
      PROVE  T \in Good
  <2>1. CASE T = {}
    <3>1. Grown(T) = f
      BY <2>1
    <3>2. Cardinality(T) = 0
      BY <2>1, FS_EmptySet
    <3>3. QED
      BY <1>1, <3>1, <3>2
  <2>2. CASE T # {}
    <3>1. PICK a \in T : TRUE
      BY <2>2
    <3>2. PICK U : U = T \ {a}
      OBVIOUS
    <3>3. U \in SUBSET S /\ a \notin U /\ T = U \union {a} /\ IsFiniteSet(U)
      BY <3>1, <3>2, FS_Subset
    <3>4. Cardinality(T) = Cardinality(U) + 1 /\ Cardinality(U) \in Nat
      BY <3>3, FS_AddElement, FS_CardinalityType
    <3>5. PICK h, k : h = Grown(U) /\ k = Grown(T)
      OBVIOUS
    <3>6. /\ h \in [S -> Nat] /\ k \in [S -> Nat]
          /\ \A x \in S \ {a} : k[x] = h[x]
          /\ k[a] = h[a] + 1 /\ h[a] \in Nat
      BY <3>1, <3>3, <3>5
    <3>7. /\ SumFunction(h) \in Nat /\ SumFunction(k) \in Nat
          /\ SumFunction(k) + h[a] = SumFunction(h) + k[a]
      <4>1. a \in S
        BY <3>1
      <4>2. QED
        BY <3>6, <4>1, SumChanges
    <3>8. SumFunction(k) = SumFunction(h) + 1
      <4>1. PICK s, t, v \in Nat : s = SumFunction(h) /\ t = SumFunction(k) /\ v = h[a]
        BY <3>6, <3>7
      <4>2. t + v = s + (v + 1)
        BY <3>6, <3>7, <4>1
      <4>3. QED
        BY <4>1, <4>2
    <3>9. SumFunction(h) = SumFunction(f) + Cardinality(U)
      BY <1>2, <3>1, <3>2, <3>5
    <3>10. QED
      BY <1>1, <3>4, <3>5, <3>8, <3>9
  <2>3. QED
    BY <2>1, <2>2
<1>3. SUBSET S \subseteq Good
  <2> HIDE DEF Good
  <2>1. QED
    BY <1>2, SubsetInduction
<1>4. Grown(G) = g
  BY DEF Grown
<1>5. QED
  BY <1>3, <1>4

=============================================================================
