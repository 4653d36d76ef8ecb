-------------------------------- MODULE SetSums --------------------------------
(***************************************************************************)
(* Induction over the subsets of a finite set, with what the proofs need   *)
(* by it: sums over finite sets and largest elements.                      *)
(***************************************************************************)
EXTENDS Integers, FiniteSets, FiniteSetsExt, FiniteSetTheorems, WellFoundedInduction, TLAPS

\* The sum of f over S, as the model computes it.
SumOf(f, S) == MapThenSumSet(LAMBDA a : f[a], S)
Pick(s) == CHOOSE x \in s : TRUE
IsSum(f, S, g) ==
  g = [s \in SUBSET S |-> IF s = {} THEN 0 ELSE f[Pick(s)] + g[s \ {Pick(s)}]]

\* Induction over the subsets of a finite set, for the set of those that have a property.
LEMMA SubsetInduction ==
  ASSUME NEW S, IsFiniteSet(S), NEW Q,
         \A T \in SUBSET S : (\A U \in SUBSET T : U # T => U \in Q) => T \in Q
  PROVE  \A T \in SUBSET S : T \in Q
<1>. DEFINE bad == {T \in SUBSET S : T \notin Q}
<1>. SUFFICES ASSUME bad # {} PROVE FALSE
  OBVIOUS
<1>1. bad \subseteq FiniteSubsetsOf(S)
  BY FS_Subset DEF FiniteSubsetsOf
<1>2. PICK T \in bad : \A U \in bad : ~ (<<U, T>> \in StrictSubsetOrdering(S))
  <2>. HIDE DEF bad
  <2>. QED  BY <1>1, FS_StrictSubsetOrderingWellFounded, WFMin
<1>3. \A U \in SUBSET T : U # T => U \in Q
  BY <1>2 DEF StrictSubsetOrdering
<1>. QED  BY <1>2, <1>3

\* The equation determines the sums of all subsets.
LEMMA SumUnique ==
  ASSUME NEW f, NEW S, IsFiniteSet(S), NEW g, IsSum(f, S, g), NEW T \in SUBSET S,
         NEW h, IsSum(f, T, h)
  PROVE  \A U \in SUBSET T : g[U] = h[U]
<1>. DEFINE Q == {U \in SUBSET T : g[U] = h[U]}
<1>1. ASSUME NEW U \in SUBSET T, \A V \in SUBSET U : V # U => V \in Q
      PROVE  U \in Q
  <2>1. CASE U = {}
    BY <2>1 DEF IsSum
  <2>2. CASE U # {}
    <3>1. Pick(U) \in U
      BY <2>2 DEF Pick
    <3>2. U \ {Pick(U)} \in Q
      BY <1>1, <3>1
    <3>. QED  BY <2>2, <3>2 DEF IsSum
  <2>. QED  BY <2>1, <2>2
<1>2. IsFiniteSet(T)
  BY FS_Subset
<1>3. \A U \in SUBSET T : U \in Q
  <2>. HIDE DEF Q
  <2>. QED  BY <1>1, <1>2, SubsetInduction
<1>. QED  BY <1>3

\* It has a solution over every finite set.
LEMMA SumExists ==
  ASSUME NEW f, NEW S, IsFiniteSet(S)
  PROVE  IsSum(f, S, CHOOSE g : IsSum(f, S, g))
<1>. DEFINE sum(T) == CHOOSE g : IsSum(f, T, g)
            Q == {T \in SUBSET S : IsSum(f, T, sum(T))}
<1>1. ASSUME NEW T \in SUBSET S, \A U \in SUBSET T : U # T => U \in Q
      PROVE  T \in Q
  <2>. DEFINE rest(s) == s \ {Pick(s)}
              g == [s \in SUBSET T |-> IF s = {} THEN 0 ELSE f[Pick(s)] + sum(rest(s))[rest(s)]]
  <2>1. ASSUME NEW s \in SUBSET T, s # {}
        PROVE  g[rest(s)] = sum(rest(s))[rest(s)]
    <3>. DEFINE U == rest(s)
    <3>1. U \in SUBSET T /\ U # T /\ IsFiniteSet(U) /\ U \in Q
      BY <1>1, <2>1, FS_Subset DEF Pick
    <3>2. IsSum(f, U, sum(U))
      BY <3>1
    <3>3. CASE U = {}
      BY <3>1, <3>2, <3>3 DEF IsSum
    <3>4. CASE U # {}
      <4>1. rest(U) \in SUBSET U /\ rest(U) # T /\ rest(U) \in Q
        BY <1>1, <3>1, <3>4 DEF Pick
      <4>2. sum(U)[rest(U)] = sum(rest(U))[rest(U)]
        BY <3>1, <3>2, <4>1, SumUnique
      <4>3. sum(U)[U] = f[Pick(U)] + sum(U)[rest(U)]
        BY <3>2, <3>4 DEF IsSum
      <4>. QED  BY <3>1, <3>4, <4>2, <4>3
    <3>. QED  BY <3>3, <3>4
  <2>2. IsSum(f, T, g)
    <3>1. \A s \in SUBSET T : g[s] = IF s = {} THEN 0 ELSE f[Pick(s)] + g[rest(s)]
      <4>. TAKE s \in SUBSET T
      <4>1. CASE s = {}
        BY <4>1
      <4>2. CASE s # {}
        <5>1. g[s] = f[Pick(s)] + sum(rest(s))[rest(s)]
          BY <4>2
        <5>2. g[rest(s)] = sum(rest(s))[rest(s)]
          BY <2>1, <4>2
        <5>. HIDE DEF g, sum, rest
        <5>. QED  BY <4>2, <5>1, <5>2
      <4>. QED  BY <4>1, <4>2
    <3>2. g = [s \in SUBSET T |-> g[s]]
      OBVIOUS
    <3>. HIDE DEF g
    <3>. QED  BY <3>1, <3>2 DEF IsSum
  <2>. QED  BY <2>2
<1>2. \A T \in SUBSET S : T \in Q
  <2>. HIDE DEF Q
  <2>. QED  BY <1>1, SubsetInduction
<1>. QED  BY <1>2

LEMMA SumStep ==
  ASSUME NEW f, NEW S, IsFiniteSet(S)
  PROVE  /\ SumOf(f, {}) = 0
         /\ S # {} => Pick(S) \in S /\ SumOf(f, S) = f[Pick(S)] + SumOf(f, S \ {Pick(S)})
<1>. DEFINE sum(T) == CHOOSE g : IsSum(f, T, g)
<1>1. ASSUME NEW T PROVE SumOf(f, T) = sum(T)[T]
  BY DEF SumOf, MapThenSumSet, MapThenFoldSet, IsSum, Pick
<1>2. IsSum(f, S, sum(S)) /\ IsSum(f, {}, sum({}))
  BY SumExists, FS_EmptySet
<1>3. SumOf(f, {}) = 0
  BY <1>1, <1>2 DEF IsSum
<1>4. ASSUME S # {}
      PROVE  Pick(S) \in S /\ SumOf(f, S) = f[Pick(S)] + SumOf(f, S \ {Pick(S)})
  <2>. DEFINE U == S \ {Pick(S)}
  <2>1. Pick(S) \in S /\ U \in SUBSET S /\ IsFiniteSet(U)
    BY <1>4, FS_Subset DEF Pick
  <2>2. sum(S)[U] = sum(U)[U]
    <3>1. IsSum(f, U, sum(U))
      BY <2>1, SumExists
    <3>2. IsSum(f, S, sum(S)) /\ U \in SUBSET U
      BY <1>2
    <3>. HIDE DEF sum, U
    <3>. QED  BY <2>1, <3>1, <3>2, SumUnique
  <2>3. sum(S)[S] = f[Pick(S)] + sum(S)[U]
    BY <1>2, <1>4 DEF IsSum
  <2>. QED  BY <1>1, <2>1, <2>2, <2>3
<1>. QED  BY <1>3, <1>4

\* Any element may be taken out first.
LEMMA SumRemove ==
  ASSUME NEW f, NEW S, IsFiniteSet(S), \A x \in S : f[x] \in Int
  PROVE  /\ SumOf(f, S) \in Int
         /\ \A x \in S : SumOf(f, S) = f[x] + SumOf(f, S \ {x})
<1>. DEFINE Q == {T \in SUBSET S : /\ SumOf(f, T) \in Int
                                  /\ \A x \in T : SumOf(f, T) = f[x] + SumOf(f, T \ {x})}
<1>1. ASSUME NEW T \in SUBSET S, \A U \in SUBSET T : U # T => U \in Q
      PROVE  T \in Q
  <2>1. \A U \in SUBSET T : U # T => /\ SumOf(f, U) \in Int
                                    /\ \A x \in U : SumOf(f, U) = f[x] + SumOf(f, U \ {x})
    BY <1>1
  <2>2. SUFFICES /\ SumOf(f, T) \in Int
                 /\ \A x \in T : SumOf(f, T) = f[x] + SumOf(f, T \ {x})
    OBVIOUS
  <2>. HIDE DEF Q
  <2>3. CASE T = {}
    <3>1. SumOf(f, {}) = 0
      BY FS_EmptySet, SumStep
    <3>. QED  BY <2>3, <3>1
  <2>4. CASE T # {}
    <3>. DEFINE c == Pick(T)
    <3>0. IsFiniteSet(T)
      BY FS_Subset
    <3>1. c \in T /\ SumOf(f, T) = f[c] + SumOf(f, T \ {c})
      BY <2>4, <3>0, SumStep
    <3>. HIDE DEF c
    <3>2. SumOf(f, T \ {c}) \in Int
      BY <2>1, <3>1
    <3>3. ASSUME NEW x \in T, x # c
          PROVE  SumOf(f, T) = f[x] + SumOf(f, T \ {x})
      <4>1. (T \ {c}) \ {x} = (T \ {x}) \ {c}
        OBVIOUS
      <4>2. SumOf(f, T \ {c}) = f[x] + SumOf(f, (T \ {c}) \ {x})
        BY <2>1, <3>1, <3>3
      <4>3. SumOf(f, T \ {x}) = f[c] + SumOf(f, (T \ {x}) \ {c})
        BY <2>1, <3>1, <3>3
      <4>4. f[x] \in Int /\ f[c] \in Int /\ SumOf(f, (T \ {x}) \ {c}) \in Int
        BY <2>1, <3>1, <3>3
      <4>5. SumOf(f, T) = f[c] + (f[x] + SumOf(f, (T \ {x}) \ {c}))
        BY <3>1, <4>1, <4>2
      <4>. QED  BY <4>3, <4>4, <4>5
    <3>4. SumOf(f, T) \in Int
      BY <3>1, <3>2
    <3>. QED  BY <3>1, <3>3, <3>4
  <2>. QED  BY <2>3, <2>4
<1>2. \A T \in SUBSET S : T \in Q
  <2>. HIDE DEF Q
  <2>. QED  BY <1>1, SubsetInduction
<1>. QED  BY <1>2

\* A sum stays within a set that is closed under addition.
LEMMA SumClosed ==
  ASSUME NEW f, NEW S, IsFiniteSet(S), NEW N \in SUBSET Int, 0 \in N,
         \A a, b \in N : a + b \in N,
         \A x \in S : f[x] \in N
  PROVE  SumOf(f, S) \in N
<1>. DEFINE Q == {T \in SUBSET S : SumOf(f, T) \in N}
<1>1. ASSUME NEW T \in SUBSET S, \A U \in SUBSET T : U # T => U \in Q
      PROVE  T \in Q
  <2>0. IsFiniteSet(T)
    BY FS_Subset
  <2>1. CASE T = {}
    BY <2>0, <2>1, SumStep
  <2>2. CASE T # {}
    <3>. DEFINE c == Pick(T)
    <3>1. c \in T /\ SumOf(f, T) = f[c] + SumOf(f, T \ {c})
      BY <2>0, <2>2, SumStep
    <3>. HIDE DEF c
    <3>2. T \ {c} \in Q
      BY <1>1, <3>1
    <3>3. f[c] \in N /\ SumOf(f, T \ {c}) \in N
      BY <3>1, <3>2
    <3>4. f[c] + SumOf(f, T \ {c}) \in N
      BY <3>3
    <3>. QED  BY <3>1, <3>4
  <2>. QED  BY <2>1, <2>2
<1>2. \A T \in SUBSET S : T \in Q
  <2>. HIDE DEF Q
  <2>. QED  BY <1>1, SubsetInduction
<1>. QED  BY <1>2

\* A sum of natural numbers grows with the set.
LEMMA SumMonotonic ==
  ASSUME NEW f, NEW S, IsFiniteSet(S), \A x \in S : f[x] \in Nat, NEW R \in SUBSET S
  PROVE  /\ SumOf(f, R) \in Nat /\ SumOf(f, S) \in Nat
         /\ SumOf(f, R) <= SumOf(f, S)
<1>. DEFINE Q == {T \in SUBSET S : R \subseteq T => SumOf(f, R) <= SumOf(f, T)}
<1>0. ASSUME NEW T \in SUBSET S
      PROVE  SumOf(f, T) \in Nat /\ \A x \in T : SumOf(f, T) = f[x] + SumOf(f, T \ {x})
  <2>1. IsFiniteSet(T) /\ \A x \in T : f[x] \in Nat /\ f[x] \in Int
    BY FS_Subset
  <2>2. SumOf(f, T) \in Nat
    <3>1. Nat \in SUBSET Int /\ 0 \in Nat /\ \A a, b \in Nat : a + b \in Nat
      OBVIOUS
    <3>. QED  BY <2>1, <3>1, SumClosed
  <2>. QED  BY <2>1, <2>2, SumRemove
<1>1. ASSUME NEW T \in SUBSET S, \A U \in SUBSET T : U # T => U \in Q
      PROVE  T \in Q
  <2>. SUFFICES ASSUME R \subseteq T, R # T PROVE SumOf(f, R) <= SumOf(f, T)
    BY <1>0
  <2>1. PICK x \in T : x \notin R
    OBVIOUS
  <2>2. T \ {x} \in Q /\ T \ {x} \in SUBSET S
    BY <1>1
  <2>3. SumOf(f, R) <= SumOf(f, T \ {x})
    BY <2>1, <2>2
  <2>. QED  BY <1>0, <2>2, <2>3
<1>2. \A T \in SUBSET S : T \in Q
  <2>. HIDE DEF Q
  <2>. QED  BY <1>1, SubsetInduction
<1>. QED  BY <1>0, <1>2

\* A sum depends only on the values it adds up.
LEMMA SumSame ==
  ASSUME NEW f, NEW g, NEW S, IsFiniteSet(S), \A x \in S : f[x] = g[x]
  PROVE  SumOf(f, S) = SumOf(g, S)
<1>. DEFINE Q == {T \in SUBSET S : SumOf(f, T) = SumOf(g, T)}
<1>1. ASSUME NEW T \in SUBSET S, \A U \in SUBSET T : U # T => U \in Q
      PROVE  T \in Q
  <2>0. IsFiniteSet(T)
    BY FS_Subset
  <2>1. CASE T = {}
    BY <2>1, <2>0, SumStep
  <2>2. CASE T # {}
    <3>. DEFINE c == Pick(T)
    <3>1. /\ c \in T /\ SumOf(f, T) = f[c] + SumOf(f, T \ {c})
          /\ SumOf(g, T) = g[c] + SumOf(g, T \ {c})
      BY <2>0, <2>2, SumStep
    <3>. HIDE DEF c
    <3>2. T \ {c} \in Q
      BY <1>1, <3>1
    <3>. QED  BY <3>1, <3>2
  <2>. QED  BY <2>1, <2>2
<1>2. \A T \in SUBSET S : T \in Q
  <2>. HIDE DEF Q
  <2>. QED  BY <1>1, SubsetInduction
<1>. QED  BY <1>2
-----------------------------------------------------------------------------
(***************************************************************************)
(* Largest and smallest elements.                                          *)
(***************************************************************************)

\* A finite set of integers has a largest element ...
LEMMA LargestExists ==
  ASSUME NEW S \in SUBSET Int, IsFiniteSet(S), S # {}
  PROVE  Max(S) \in S /\ \A x \in S : Max(S) >= x
<1>. DEFINE Q == {T \in SUBSET S : T = {} \/ \E x \in T : \A y \in T : x >= y}
<1>1. ASSUME NEW T \in SUBSET S, \A U \in SUBSET T : U # T => U \in Q
      PROVE  T \in Q
  <2>1. SUFFICES ASSUME T # {} PROVE \E x \in T : \A y \in T : x >= y
    OBVIOUS
  <2>2. PICK z \in T : TRUE
    BY <2>1
  <2>3. T \ {z} \in Q
    BY <1>1, <2>2
  <2>4. CASE T \ {z} = {}
    <3>1. \A y \in T : y = z
      BY <2>4
    <3>. QED  BY <2>2, <3>1
  <2>5. CASE T \ {z} # {}
    <3>1. PICK x \in T \ {z} : \A y \in T \ {z} : x >= y
      BY <2>3, <2>5
    <3>2. x \in Int /\ z \in Int /\ \A y \in T : y \in Int
      BY <2>2, <3>1
    <3>3. CASE x >= z
      BY <3>1, <3>3
    <3>4. CASE ~ (x >= z)
      <4>1. \A y \in T : z >= y
        BY <3>1, <3>2, <3>4
      <4>. QED  BY <2>2, <4>1
    <3>. QED  BY <3>3, <3>4
  <2>. QED  BY <2>4, <2>5
<1>2. \A T \in SUBSET S : T \in Q
  <2>. HIDE DEF Q
  <2>. QED  BY <1>1, SubsetInduction
<1>3. \E x \in S : \A y \in S : x >= y
  BY <1>2
<1>. QED  BY <1>3 DEF Max

LEMMA ImageFinite ==
  ASSUME NEW S, IsFiniteSet(S), NEW f
  PROVE  IsFiniteSet({f[x] : x \in S})
<1>. DEFINE T == {f[x] : x \in S}
            g == [x \in S |-> f[x]]
<1>1. g \in Surjection(S, T)
  BY DEF Surjection
<1>. QED  BY <1>1, FS_Surjection

\* ... and a smallest one.
LEMMA SmallestExists ==
  ASSUME NEW S \in SUBSET Int, IsFiniteSet(S), S # {}
  PROVE  Min(S) \in S /\ \A x \in S : Min(S) <= x
<1>. DEFINE neg == [x \in S |-> -x]
            T == {neg[x] : x \in S}
<1>1. IsFiniteSet(T)
  BY ImageFinite
<1>2. T \in SUBSET Int /\ T # {}
  <2>1. \A x \in S : neg[x] \in Int
    OBVIOUS
  <2>. HIDE DEF neg
  <2>. QED  BY <2>1
<1>3. Max(T) \in T /\ \A x \in T : Max(T) >= x
  <2>. HIDE DEF T
  <2>. QED  BY <1>1, <1>2, LargestExists
<1>4. PICK m \in S : Max(T) = -m
  BY <1>3
<1>5. \A x \in S : -m >= -x
  BY <1>3, <1>4
<1>6. \A x \in S : m <= x
  BY <1>5
<1>. QED  BY <1>6 DEF Min
=============================================================================
