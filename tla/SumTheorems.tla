----------------------------- MODULE SumTheorems -----------------------------
(* Sums over finite sets and over sequences (SumFunctionOnSet, SumFunction *)
(* of Functions), and the two inductions that the other proofs need: over  *)
(* the numbers and over the subsets of a finite set, with a set in the     *)
(* place of a predicate.                                                   *)
EXTENDS Integers, Sequences, FiniteSets, Functions, FiniteSetTheorems,
        NaturalsInduction, WellFoundedInduction, SequenceTheorems, TLAPS

-----------------------------------------------------------------------------
(* Induction.                                                              *)

LEMMA LeastNumber ==
  ASSUME NEW A, A \subseteq Nat, A # {}
  PROVE  \E n \in A : \A m \in A : n <= m
<1> DEFINE Less == OpToRel(<, Nat)
<1>1. IsWellFoundedOn(Less, Nat)
  BY NatLessThanWellFounded
<1>2. PICK n \in A : \A m \in A : <<m, n>> \notin Less
  <2> HIDE DEF Less
  <2> QED  BY <1>1, WFMin
<1>3. ASSUME NEW m \in A PROVE n <= m
  <2>1. n \in Nat /\ m \in Nat
    OBVIOUS
  <2>2. ~ (m < n)
    BY <1>2, <2>1, Zenon DEF OpToRel
  <2> QED  BY <2>1, <2>2
<1> QED  BY <1>3

LEMMA NumberInduction ==
  ASSUME NEW A, 0 \in A, \A n \in Nat : n \in A => n + 1 \in A
  PROVE  Nat \subseteq A
<1> SUFFICES ASSUME Nat \ A # {} PROVE FALSE
  OBVIOUS
<1>1. PICK n \in Nat \ A : \A m \in Nat \ A : n <= m
  BY LeastNumber
<1>2. n - 1 \in Nat /\ (n - 1) + 1 = n
  OBVIOUS
<1>3. n - 1 \in A
  BY <1>1, <1>2
<1> QED  BY <1>2, <1>3

LEMMA SubsetInduction ==
  ASSUME NEW T, IsFiniteSet(T), NEW A,
         {} \in A,
         \A S \in SUBSET T, x \in T : S \in A /\ x \notin S => S \cup {x} \in A
  PROVE  T \in A
<1> DEFINE N == {n \in Nat : \A S \in SUBSET T : Cardinality(S) = n => S \in A}
<1>1. 0 \in N
  BY FS_Subset, FS_EmptySet
<1>2. ASSUME NEW n \in Nat, n \in N PROVE n + 1 \in N
  <2> SUFFICES ASSUME NEW S \in SUBSET T, Cardinality(S) = n + 1 PROVE S \in A
    OBVIOUS
  <2>1. IsFiniteSet(S) /\ S # {}
    BY FS_Subset, FS_EmptySet
  <2>2. PICK x \in S : TRUE
    BY <2>1
  <2>3. S \ {x} \in SUBSET T /\ Cardinality(S \ {x}) = n
    <3>1. Cardinality(S \ {x}) = Cardinality(S) - 1
      BY <2>1, <2>2, FS_RemoveElement
    <3> QED  BY <3>1
  <2>4. S \ {x} \in A /\ x \notin S \ {x} /\ (S \ {x}) \cup {x} = S
    BY <1>2, <2>3, <2>2
  <2> QED  BY <2>3, <2>4, <2>2
<1>3. Nat \subseteq N
  <2> HIDE DEF N
  <2> QED  BY <1>1, <1>2, NumberInduction
<1> QED  BY <1>3, FS_CardinalityType

-----------------------------------------------------------------------------
(* Quotients.                                                               *)

LEMMA QuotientRounds ==
  ASSUME NEW x \in Nat, NEW d \in Nat \ {0}
  PROVE  x \div d \in Nat /\ d * (x \div d) <= x /\ x < d * (x \div d) + d
BY Z3

LEMMA TimesMonotone ==
  ASSUME NEW d \in Nat \ {0}, NEW m \in Nat, NEW n \in Nat, m < n
  PROVE  d * m + d <= d * n
<1>1. d * n = d * (m + 1) + d * (n - (m + 1))
  OBVIOUS
<1>2. d * (n - (m + 1)) >= 0 /\ d * (n - (m + 1)) \in Int
  OBVIOUS
<1>3. d * (m + 1) = d * m + d /\ d * m \in Int
  OBVIOUS
<1> QED  BY <1>1, <1>2, <1>3

LEMMA QuotientMonotone ==
  ASSUME NEW d \in Nat \ {0}, NEW a \in Nat, NEW b \in Nat, a <= b
  PROVE  a \div d <= b \div d
<1>1. a \div d \in Nat /\ d * (a \div d) <= a
  BY QuotientRounds
<1>2. b \div d \in Nat /\ b < d * (b \div d) + d
  BY QuotientRounds
<1> SUFFICES ASSUME b \div d < a \div d PROVE FALSE
  BY <1>1, <1>2
<1>3. d * (b \div d) + d <= d * (a \div d)
  BY <1>1, <1>2, TimesMonotone
<1>4. d * (b \div d) \in Int /\ d * (a \div d) \in Int
  BY <1>1, <1>2
<1> QED  BY <1>1, <1>2, <1>3, <1>4

-----------------------------------------------------------------------------
(* Sums over a finite set.                                                  *)

SumFirst(s) == CHOOSE x \in s : TRUE

(* The recursive function of a sum, as Folds defines it.                    *)
SumStep(f, g, s) == IF s = {} THEN 0 ELSE f[SumFirst(s)] + g[s \ {SumFirst(s)}]

SumRule(f, D, g) == g = [s \in SUBSET D |-> SumStep(f, g, s)]

LEMMA SumIsChoice ==
  ASSUME NEW f, NEW D
  PROVE  SumFunctionOnSet(f, D) = (CHOOSE g : SumRule(f, D, g))[D]
BY DEF SumFunctionOnSet, FoldFunctionOnSet, MapThenFoldSet, SumRule, SumStep, SumFirst

LEMMA FirstIsTaken ==
  ASSUME NEW s, IsFiniteSet(s), s # {}
  PROVE  /\ SumFirst(s) \in s /\ IsFiniteSet(s \ {SumFirst(s)})
         /\ Cardinality(s) \in Nat /\ Cardinality(s) > 0
         /\ Cardinality(s \ {SumFirst(s)}) = Cardinality(s) - 1
<1>1. SumFirst(s) \in s
  BY DEF SumFirst
<1>2. Cardinality(s \ {SumFirst(s)}) = Cardinality(s) - 1 /\ IsFiniteSet(s \ {SumFirst(s)})
  BY <1>1, FS_RemoveElement
<1>3. Cardinality(s) \in Nat /\ Cardinality(s) # 0
  BY FS_CardinalityType, FS_EmptySet
<1> QED  BY <1>1, <1>2, <1>3

LEMMA SumRuleExists ==
  ASSUME NEW D, IsFiniteSet(D), NEW f, \A x \in D : f[x] \in Int
  PROVE  \E g \in [SUBSET D -> Int] : SumRule(f, D, g)
<1> DEFINE UpTo(g, n) == \A s \in SUBSET D : Cardinality(s) <= n => g[s] = SumStep(f, g, s)
           N == {n \in Nat : \E g \in [SUBSET D -> Int] : UpTo(g, n)}
<1>1. \A s \in SUBSET D : IsFiniteSet(s) /\ Cardinality(s) \in Nat
  BY FS_Subset, FS_CardinalityType
<1>2. 0 \in N
  <2> DEFINE g == [s \in SUBSET D |-> 0]
  <2>1. g \in [SUBSET D -> Int]
    OBVIOUS
  <2>2. ASSUME NEW s \in SUBSET D, Cardinality(s) <= 0 PROVE g[s] = SumStep(f, g, s)
    <3>1. s = {}
      BY <1>1, <2>2, FS_EmptySet
    <3> QED  BY <3>1 DEF SumStep
  <2> HIDE DEF g
  <2>3. UpTo(g, 0)
    BY <2>2
  <2> QED  BY <2>1, <2>3
<1>3. ASSUME NEW n \in Nat, n \in N PROVE n + 1 \in N
  <2>1. PICK g \in [SUBSET D -> Int] : UpTo(g, n)
    BY <1>3
  <2> DEFINE h == [s \in SUBSET D |-> IF Cardinality(s) <= n THEN g[s] ELSE SumStep(f, g, s)]
  <2>2. ASSUME NEW s \in SUBSET D PROVE SumStep(f, g, s) \in Int
    <3>1. s # {} => SumFirst(s) \in D
      BY DEF SumFirst
    <3> QED  BY <3>1 DEF SumStep
  <2>3. h \in [SUBSET D -> Int]
    BY <2>2
  <2>4. \A s \in SUBSET D : Cardinality(s) <= n + 1 => h[s] = SumStep(f, g, s)
    BY <2>1
  <2>5. ASSUME NEW s \in SUBSET D, Cardinality(s) <= n + 1
        PROVE  SumStep(f, g, s) = SumStep(f, h, s)
    <3>1. CASE s = {}
      BY <3>1 DEF SumStep
    <3>2. CASE s # {}
      <4>1. s \ {SumFirst(s)} \in SUBSET D /\ Cardinality(s \ {SumFirst(s)}) <= n
        <5>1. Cardinality(s) \in Nat /\ Cardinality(s \ {SumFirst(s)}) = Cardinality(s) - 1
          BY <1>1, <3>2, FirstIsTaken
        <5> QED  BY <2>5, <5>1
      <4>2. h[s \ {SumFirst(s)}] = g[s \ {SumFirst(s)}]
        BY <4>1
      <4> HIDE DEF h
      <4> QED  BY <4>2 DEF SumStep
    <3> QED  BY <3>1, <3>2
  <2> HIDE DEF h
  <2>6. UpTo(h, n + 1)
    BY <2>4, <2>5
  <2> HIDE DEF UpTo
  <2> QED  BY <2>3, <2>6
<1>4. Nat \subseteq N
  <2> HIDE DEF N
  <2> QED  BY <1>2, <1>3, NumberInduction
<1>5. PICK g \in [SUBSET D -> Int] : UpTo(g, Cardinality(D))
  BY <1>1, <1>4
<1>6. ASSUME NEW s \in SUBSET D PROVE g[s] = SumStep(f, g, s)
  BY <1>5, FS_Subset
<1>7. g = [s \in SUBSET D |-> SumStep(f, g, s)]
  BY <1>6
<1> QED  BY <1>7 DEF SumRule

LEMMA SumRuleUnique ==
  ASSUME NEW D, NEW E \in SUBSET D, IsFiniteSet(D), NEW f, NEW g, NEW h,
         SumRule(f, D, g), SumRule(f, E, h)
  PROVE  g[E] = h[E]
<1> DEFINE N == {n \in Nat : \A s \in SUBSET E : Cardinality(s) = n => g[s] = h[s]}
<1>1. \A s \in SUBSET E : /\ IsFiniteSet(s) /\ Cardinality(s) \in Nat
                          /\ g[s] = SumStep(f, g, s) /\ h[s] = SumStep(f, h, s)
  BY FS_Subset, FS_CardinalityType DEF SumRule
<1>2. 0 \in N
  BY <1>1, FS_EmptySet DEF SumStep
<1>3. ASSUME NEW n \in Nat, n \in N PROVE n + 1 \in N
  <2> SUFFICES ASSUME NEW s \in SUBSET E, Cardinality(s) = n + 1 PROVE g[s] = h[s]
    OBVIOUS
  <2>1. s # {}
    BY FS_EmptySet
  <2>2. Cardinality(s \ {SumFirst(s)}) = n /\ s \ {SumFirst(s)} \in SUBSET E
    <3>1. Cardinality(s \ {SumFirst(s)}) = Cardinality(s) - 1
      BY <1>1, <2>1, FirstIsTaken
    <3> QED  BY <3>1
  <2>3. g[s \ {SumFirst(s)}] = h[s \ {SumFirst(s)}]
    BY <1>3, <2>2
  <2> QED  BY <1>1, <2>1, <2>3 DEF SumStep
<1>4. Nat \subseteq N
  <2> HIDE DEF N
  <2> QED  BY <1>2, <1>3, NumberInduction
<1> QED  BY <1>1, <1>4

LEMMA SumTakesFirst ==
  ASSUME NEW S, IsFiniteSet(S), NEW f, \A x \in S : f[x] \in Int
  PROVE  /\ SumFunctionOnSet(f, S) \in Int
         /\ SumFunctionOnSet(f, {}) = 0
         /\ S # {} => SumFunctionOnSet(f, S) = f[SumFirst(S)] + SumFunctionOnSet(f, S \ {SumFirst(S)})
<1> DEFINE G(D) == CHOOSE g : SumRule(f, D, g)
<1>1. ASSUME NEW D \in SUBSET S
      PROVE  IsFiniteSet(D) /\ SumRule(f, D, G(D)) /\ G(D)[D] = SumFunctionOnSet(f, D)
  <2>1. \E g : SumRule(f, D, g)
    BY FS_Subset, SumRuleExists
  <2> QED  BY <2>1, SumIsChoice, FS_Subset
<1>2. PICK g \in [SUBSET S -> Int] : SumRule(f, S, g)
  BY SumRuleExists
<1> HIDE DEF G
<1>3. ASSUME NEW D \in SUBSET S PROVE g[D] = SumFunctionOnSet(f, D)
  BY <1>1, <1>2, SumRuleUnique
<1>4. \A s \in SUBSET S : g[s] = SumStep(f, g, s)
  BY <1>2 DEF SumRule
<1>5. SumFunctionOnSet(f, S) \in Int /\ SumFunctionOnSet(f, {}) = 0
  BY <1>2, <1>3, <1>4 DEF SumStep
<1>6. ASSUME S # {}
      PROVE SumFunctionOnSet(f, S) = f[SumFirst(S)] + SumFunctionOnSet(f, S \ {SumFirst(S)})
  BY <1>3, <1>4, <1>6 DEF SumStep
<1> QED  BY <1>5, <1>6

LEMMA SumOfNone == ASSUME NEW f PROVE SumFunctionOnSet(f, {}) = 0
BY SumTakesFirst, FS_EmptySet

LEMMA SumIsInt ==
  ASSUME NEW S, IsFiniteSet(S), NEW f, \A x \in S : f[x] \in Int
  PROVE  SumFunctionOnSet(f, S) \in Int
BY SumTakesFirst

(* Any element may be taken first. *)
LEMMA SumTakesAny ==
  ASSUME NEW S, IsFiniteSet(S), NEW x \in S, NEW f, \A y \in S : f[y] \in Int
  PROVE  SumFunctionOnSet(f, S) = f[x] + SumFunctionOnSet(f, S \ {x})
<1> DEFINE sum(s) == SumFunctionOnSet(f, s)
           N == {n \in Nat : \A s \in SUBSET S, y \in S :
                   Cardinality(s) = n /\ y \in s => sum(s) = f[y] + sum(s \ {y})}
<1>1. \A s \in SUBSET S : /\ IsFiniteSet(s) /\ Cardinality(s) \in Nat /\ sum(s) \in Int
                          /\ s # {} => sum(s) = f[SumFirst(s)] + sum(s \ {SumFirst(s)})
  <2> TAKE s \in SUBSET S
  <2>1. IsFiniteSet(s) /\ \A y \in s : f[y] \in Int
    BY FS_Subset
  <2> QED  BY <2>1, FS_CardinalityType, SumTakesFirst
<1>2. 0 \in N
  BY <1>1, FS_EmptySet
<1>3. ASSUME NEW n \in Nat, n \in N PROVE n + 1 \in N
  <2> SUFFICES ASSUME NEW s \in SUBSET S, NEW y \in S, Cardinality(s) = n + 1, y \in s
               PROVE  sum(s) = f[y] + sum(s \ {y})
    OBVIOUS
  <2> DEFINE z == SumFirst(s)
  <2>1. z \in s
    BY DEF SumFirst
  <2>2. CASE z = y
    BY <1>1, <2>2
  <2>3. CASE z # y
    <3>1. Cardinality(s \ {z}) = n /\ Cardinality(s \ {y}) = n
      <4>1. \A w \in s : Cardinality(s \ {w}) = Cardinality(s) - 1
        BY <1>1, FS_RemoveElement
      <4> QED  BY <2>1, <4>1
    <3> HIDE DEF z, sum
    <3>2. sum(s \ {z}) = f[y] + sum((s \ {z}) \ {y})
      BY <1>3, <2>3, <3>1
    <3>3. sum(s \ {y}) = f[z] + sum((s \ {y}) \ {z})
      BY <1>3, <2>1, <2>3, <3>1
    <3>4. sum((s \ {z}) \ {y}) = sum((s \ {y}) \ {z})
      <4>1. (s \ {z}) \ {y} = (s \ {y}) \ {z}
        OBVIOUS
      <4> QED  BY <4>1
    <3>5. sum(s) = f[z] + sum(s \ {z})
      BY <1>1, <2>1 DEF z
    <3>6. sum((s \ {z}) \ {y}) \in Int /\ f[z] \in Int /\ f[y] \in Int
      BY <1>1, <2>1
    <3> DEFINE rest == sum((s \ {y}) \ {z})
    <3>7. rest \in Int /\ sum(s) = f[z] + (f[y] + rest) /\ sum(s \ {y}) = f[z] + rest
      BY <3>2, <3>3, <3>4, <3>5, <3>6
    <3> HIDE DEF rest
    <3> QED  BY <3>6, <3>7
  <2> QED  BY <2>2, <2>3
<1>4. Nat \subseteq N
  <2> HIDE DEF N
  <2> QED  BY <1>2, <1>3, NumberInduction
<1>5. Cardinality(S) \in N
  BY <1>1, <1>4
<1> QED  BY <1>5

LEMMA SumOfOneMore ==
  ASSUME NEW S, IsFiniteSet(S), NEW x, x \notin S, NEW f, \A y \in S \cup {x} : f[y] \in Int
  PROVE  SumFunctionOnSet(f, S \cup {x}) = SumFunctionOnSet(f, S) + f[x]
<1>1. IsFiniteSet(S \cup {x}) /\ (S \cup {x}) \ {x} = S
  BY FS_AddElement
<1>2. SumFunctionOnSet(f, S \cup {x}) = f[x] + SumFunctionOnSet(f, S)
  BY <1>1, SumTakesAny
<1> QED  BY <1>2, SumIsInt

LEMMA SumGrows ==
  ASSUME NEW S, IsFiniteSet(S), NEW f, \A y \in S : f[y] \in Int
  PROVE  \A s \in SUBSET S : \A x \in S \ s :
           /\ SumFunctionOnSet(f, s \cup {x}) = SumFunctionOnSet(f, s) + f[x]
           /\ SumFunctionOnSet(f, s) \in Int
<1> TAKE s \in SUBSET S
<1> TAKE x \in S \ s
<1>1. IsFiniteSet(s) /\ \A y \in s \cup {x} : f[y] \in Int
  BY FS_Subset
<1> QED  BY <1>1, SumOfOneMore, SumIsInt

LEMMA SumIsNat ==
  ASSUME NEW S, IsFiniteSet(S), NEW f, \A x \in S : f[x] \in Nat
  PROVE  SumFunctionOnSet(f, S) \in Nat
<1> DEFINE A == {s \in SUBSET S : SumFunctionOnSet(f, s) \in Nat}
<1>1. {} \in A
  BY SumOfNone
<1>2. ASSUME NEW s \in SUBSET S, NEW x \in S, s \in A, x \notin s PROVE s \cup {x} \in A
  <2>1. SumFunctionOnSet(f, s \cup {x}) = SumFunctionOnSet(f, s) + f[x]
    <3>1. \A y \in S : f[y] \in Int
      OBVIOUS
    <3> QED  BY <1>2, <3>1, SumGrows
  <2> QED  BY <1>2, <2>1
<1>3. S \in A
  <2> HIDE DEF A
  <2> QED  BY <1>1, <1>2, SubsetInduction
<1> QED  BY <1>3

LEMMA SumsAgree ==
  ASSUME NEW S, IsFiniteSet(S), NEW f, NEW g, \A x \in S : f[x] \in Int /\ f[x] = g[x]
  PROVE  SumFunctionOnSet(f, S) = SumFunctionOnSet(g, S)
<1> DEFINE A == {s \in SUBSET S : SumFunctionOnSet(f, s) = SumFunctionOnSet(g, s)}
<1>1. {} \in A
  BY SumOfNone
<1>2. ASSUME NEW s \in SUBSET S, NEW x \in S, s \in A, x \notin s PROVE s \cup {x} \in A
  <2>1. SumFunctionOnSet(f, s \cup {x}) = SumFunctionOnSet(f, s) + f[x]
    <3>1. \A y \in S : f[y] \in Int
      OBVIOUS
    <3> QED  BY <1>2, <3>1, SumGrows
  <2>2. SumFunctionOnSet(g, s \cup {x}) = SumFunctionOnSet(g, s) + g[x]
    <3>1. \A y \in S : g[y] \in Int
      OBVIOUS
    <3> QED  BY <1>2, <3>1, SumGrows
  <2> QED  BY <1>2, <2>1, <2>2
<1>3. S \in A
  <2> HIDE DEF A
  <2> QED  BY <1>1, <1>2, SubsetInduction
<1> QED  BY <1>3

LEMMA SumAtMost ==
  ASSUME NEW S, IsFiniteSet(S), NEW f, NEW g,
         \A x \in S : f[x] \in Int /\ g[x] \in Int /\ f[x] <= g[x]
  PROVE  SumFunctionOnSet(f, S) <= SumFunctionOnSet(g, S)
<1> DEFINE A == {s \in SUBSET S : SumFunctionOnSet(f, s) <= SumFunctionOnSet(g, s)}
<1>1. {} \in A
  BY SumOfNone
<1>2. ASSUME NEW s \in SUBSET S, NEW x \in S, s \in A, x \notin s PROVE s \cup {x} \in A
  <2>1. SumFunctionOnSet(f, s \cup {x}) = SumFunctionOnSet(f, s) + f[x]
    <3>1. \A y \in S : f[y] \in Int
      OBVIOUS
    <3> QED  BY <1>2, <3>1, SumGrows
  <2>2. SumFunctionOnSet(g, s \cup {x}) = SumFunctionOnSet(g, s) + g[x]
    <3>1. \A y \in S : g[y] \in Int
      OBVIOUS
    <3> QED  BY <1>2, <3>1, SumGrows
  <2>3. SumFunctionOnSet(f, s) \in Int /\ SumFunctionOnSet(g, s) \in Int
    BY SumIsInt, FS_Subset
  <2> QED  BY <1>2, <2>1, <2>2, <2>3
<1>3. S \in A
  <2> HIDE DEF A
  <2> QED  BY <1>1, <1>2, SubsetInduction
<1> QED  BY <1>3

LEMMA SumOfSame ==
  ASSUME NEW S, IsFiniteSet(S), NEW c \in Int, NEW f, \A x \in S : f[x] = c
  PROVE  SumFunctionOnSet(f, S) = c * Cardinality(S)
<1> DEFINE A == {s \in SUBSET S : SumFunctionOnSet(f, s) = c * Cardinality(s)}
<1>1. {} \in A
  BY SumOfNone, FS_EmptySet
<1>2. ASSUME NEW s \in SUBSET S, NEW x \in S, s \in A, x \notin s PROVE s \cup {x} \in A
  <2>1. SumFunctionOnSet(f, s \cup {x}) = SumFunctionOnSet(f, s) + c
    <3>1. \A y \in S : f[y] \in Int
      OBVIOUS
    <3> QED  BY <1>2, <3>1, SumGrows
  <2>2. Cardinality(s \cup {x}) = Cardinality(s) + 1 /\ Cardinality(s) \in Nat
    BY <1>2, FS_AddElement, FS_Subset, FS_CardinalityType
  <2>3. c * (Cardinality(s) + 1) = c * Cardinality(s) + c
    BY <2>2
  <2> QED  BY <1>2, <2>1, <2>2, <2>3
<1>3. S \in A
  <2> HIDE DEF A
  <2> QED  BY <1>1, <1>2, SubsetInduction
<1> QED  BY <1>3

LEMMA SumOfMultiples ==
  ASSUME NEW S, IsFiniteSet(S), NEW c \in Int, NEW f, NEW g,
         \A x \in S : f[x] \in Int /\ g[x] = c * f[x]
  PROVE  SumFunctionOnSet(g, S) = c * SumFunctionOnSet(f, S)
<1> DEFINE A == {s \in SUBSET S : SumFunctionOnSet(g, s) = c * SumFunctionOnSet(f, s)}
<1>1. {} \in A
  BY SumOfNone
<1>2. ASSUME NEW s \in SUBSET S, NEW x \in S, s \in A, x \notin s PROVE s \cup {x} \in A
  <2>1. SumFunctionOnSet(f, s \cup {x}) = SumFunctionOnSet(f, s) + f[x]
    <3>1. \A y \in S : f[y] \in Int
      OBVIOUS
    <3> QED  BY <1>2, <3>1, SumGrows
  <2>2. SumFunctionOnSet(g, s \cup {x}) = SumFunctionOnSet(g, s) + c * f[x]
    <3>1. \A y \in S : g[y] \in Int
      OBVIOUS
    <3> QED  BY <1>2, <3>1, SumGrows
  <2>3. SumFunctionOnSet(f, s) \in Int
    BY SumIsInt, FS_Subset
  <2>4. c * (SumFunctionOnSet(f, s) + f[x]) = c * SumFunctionOnSet(f, s) + c * f[x]
    BY <2>3
  <2> QED  BY <1>2, <2>1, <2>2, <2>4
<1>3. S \in A
  <2> HIDE DEF A
  <2> QED  BY <1>1, <1>2, SubsetInduction
<1> QED  BY <1>3

LEMMA SumOfSums ==
  ASSUME NEW S, IsFiniteSet(S), NEW f, NEW g, NEW h,
         \A x \in S : f[x] \in Int /\ g[x] \in Int /\ h[x] = f[x] + g[x]
  PROVE  SumFunctionOnSet(h, S) = SumFunctionOnSet(f, S) + SumFunctionOnSet(g, S)
<1> DEFINE A == {s \in SUBSET S : SumFunctionOnSet(h, s) =
                                    SumFunctionOnSet(f, s) + SumFunctionOnSet(g, s)}
<1>1. {} \in A
  BY SumOfNone
<1>2. ASSUME NEW s \in SUBSET S, NEW x \in S, s \in A, x \notin s PROVE s \cup {x} \in A
  <2>1. SumFunctionOnSet(f, s \cup {x}) = SumFunctionOnSet(f, s) + f[x]
    <3>1. \A y \in S : f[y] \in Int
      OBVIOUS
    <3> QED  BY <1>2, <3>1, SumGrows
  <2>2. SumFunctionOnSet(g, s \cup {x}) = SumFunctionOnSet(g, s) + g[x]
    <3>1. \A y \in S : g[y] \in Int
      OBVIOUS
    <3> QED  BY <1>2, <3>1, SumGrows
  <2>3. SumFunctionOnSet(h, s \cup {x}) = SumFunctionOnSet(h, s) + (f[x] + g[x])
    <3>1. \A y \in S : h[y] \in Int
      OBVIOUS
    <3> QED  BY <1>2, <3>1, SumGrows
  <2>4. SumFunctionOnSet(f, s) \in Int /\ SumFunctionOnSet(g, s) \in Int
    BY SumIsInt, FS_Subset
  <2> QED  BY <1>2, <2>1, <2>2, <2>3, <2>4
<1>3. S \in A
  <2> HIDE DEF A
  <2> QED  BY <1>1, <1>2, SubsetInduction
<1> QED  BY <1>3

LEMMA SumOfUnion ==
  ASSUME NEW S, IsFiniteSet(S), NEW T, IsFiniteSet(T), S \cap T = {},
         NEW f, \A x \in S \cup T : f[x] \in Int
  PROVE  SumFunctionOnSet(f, S \cup T) = SumFunctionOnSet(f, S) + SumFunctionOnSet(f, T)
<1> DEFINE A == {t \in SUBSET T : SumFunctionOnSet(f, S \cup t) =
                                    SumFunctionOnSet(f, S) + SumFunctionOnSet(f, t)}
<1>1. {} \in A
  <2>1. S \cup {} = S /\ SumFunctionOnSet(f, S) \in Int
    BY SumIsInt
  <2> QED  BY <2>1, SumOfNone
<1>2. ASSUME NEW t \in SUBSET T, NEW x \in T, t \in A, x \notin t PROVE t \cup {x} \in A
  <2>1. IsFiniteSet(t) /\ IsFiniteSet(S \cup t)
    BY FS_Subset, FS_Union
  <2>2. SumFunctionOnSet(f, t \cup {x}) = SumFunctionOnSet(f, t) + f[x]
    BY <1>2, <2>1, SumOfOneMore
  <2>3. SumFunctionOnSet(f, (S \cup t) \cup {x}) = SumFunctionOnSet(f, S \cup t) + f[x]
    BY <1>2, <2>1, SumOfOneMore
  <2>4. (S \cup t) \cup {x} = S \cup (t \cup {x})
    OBVIOUS
  <2>5. /\ SumFunctionOnSet(f, S) \in Int /\ SumFunctionOnSet(f, t) \in Int /\ f[x] \in Int
    BY SumIsInt, <2>1
  <2>6. SumFunctionOnSet(f, S \cup (t \cup {x})) = SumFunctionOnSet(f, S \cup t) + f[x]
    BY <2>3, <2>4
  <2>7. SumFunctionOnSet(f, S \cup (t \cup {x})) =
          SumFunctionOnSet(f, S) + SumFunctionOnSet(f, t \cup {x})
    BY <1>2, <2>2, <2>5, <2>6
  <2> QED  BY <2>7
<1>3. T \in A
  <2> HIDE DEF A
  <2> QED  BY <1>1, <1>2, SubsetInduction
<1> QED  BY <1>3

LEMMA SumOfChanged ==
  ASSUME NEW S, IsFiniteSet(S), NEW x \in S, NEW f, NEW g,
         \A y \in S : f[y] \in Int /\ g[y] \in Int, \A y \in S \ {x} : g[y] = f[y]
  PROVE  SumFunctionOnSet(g, S) = SumFunctionOnSet(f, S) + g[x] - f[x]
<1>1. IsFiniteSet(S \ {x})
  BY FS_RemoveElement
<1>2. SumFunctionOnSet(f, S) = f[x] + SumFunctionOnSet(f, S \ {x})
  BY SumTakesAny
<1>3. SumFunctionOnSet(g, S) = g[x] + SumFunctionOnSet(g, S \ {x})
  BY SumTakesAny
<1>4. SumFunctionOnSet(f, S \ {x}) = SumFunctionOnSet(g, S \ {x})
  BY <1>1, SumsAgree
<1>5. SumFunctionOnSet(f, S \ {x}) \in Int
  BY <1>1, SumIsInt
<1> QED  BY <1>2, <1>3, <1>4, <1>5

-----------------------------------------------------------------------------
(* Sums of a sequence.                                                      *)

LEMMA SumOfSequence ==
  ASSUME NEW s \in Seq(Int)
  PROVE  /\ SumFunction(s) = SumFunctionOnSet(s, 1..Len(s))
         /\ SumFunction(s) \in Int
         /\ IsFiniteSet(1..Len(s)) /\ Cardinality(1..Len(s)) = Len(s)
<1>1. DOMAIN s = 1..Len(s) /\ Len(s) \in Nat /\ \A i \in 1..Len(s) : s[i] \in Int
  OBVIOUS
<1>2. IsFiniteSet(1..Len(s)) /\ Cardinality(1..Len(s)) = IF 1 > Len(s) THEN 0 ELSE Len(s) - 1 + 1
  BY <1>1, FS_Interval
<1>3. Cardinality(1..Len(s)) = Len(s)
  BY <1>1, <1>2
<1> QED  BY <1>1, <1>2, <1>3, SumIsInt DEF SumFunction

LEMMA SumOfEmpty == SumFunction(<<>>) = 0
BY SumOfNone DEF SumFunction

LEMMA SumOfAppend ==
  ASSUME NEW s \in Seq(Int), NEW c \in Int
  PROVE  SumFunction(Append(s, c)) = SumFunction(s) + c
<1> DEFINE t == Append(s, c)
           n == Len(s)
<1>1. t \in Seq(Int) /\ Len(t) = n + 1 /\ n \in Nat /\ t[n + 1] = c
      /\ \A i \in 1..n : s[i] \in Int /\ s[i] = t[i]
  OBVIOUS
<1>2. IsFiniteSet(1..n) /\ 1..(n + 1) = (1..n) \cup {n + 1} /\ n + 1 \notin 1..n
  <2>1. 1..(n + 1) = (1..n) \cup {n + 1} /\ n + 1 \notin 1..n
    <3>1. n \in Nat
      OBVIOUS
    <3> HIDE DEF n
    <3> QED  BY <3>1
  <2> QED  BY <2>1, SumOfSequence
<1>3. SumFunction(t) = SumFunctionOnSet(t, 1..(n + 1))
  BY <1>1, SumOfSequence
<1> HIDE DEF t
<1>4. SumFunctionOnSet(t, (1..n) \cup {n + 1}) = SumFunctionOnSet(t, 1..n) + c
  BY <1>1, <1>2, SumOfOneMore
<1>5. SumFunctionOnSet(s, 1..n) = SumFunctionOnSet(t, 1..n)
  BY <1>1, <1>2, SumsAgree
<1>6. SumFunction(s) = SumFunctionOnSet(s, 1..n)
  BY SumOfSequence
<1>7. SumFunction(t) = SumFunction(s) + c
  BY <1>2, <1>3, <1>4, <1>5, <1>6
<1> QED  BY <1>7 DEF t

(* Something repeated at the end. *)
LEMMA SumOfRepeated ==
  ASSUME NEW s \in Seq(Int), NEW c \in Int, NEW k \in Nat
  PROVE  /\ s \o [i \in 1..k |-> c] \in Seq(Int)
         /\ Len(s \o [i \in 1..k |-> c]) = Len(s) + k
         /\ SumFunction(s \o [i \in 1..k |-> c]) = SumFunction(s) + k * c
<1> DEFINE t == s \o [i \in 1..k |-> c]
           n == Len(s)
<1>1. n \in Nat /\ \A i \in 1..n : s[i] \in Int
  OBVIOUS
<1>2. [i \in 1..k |-> c] \in Seq(Int) /\ Len([i \in 1..k |-> c]) = k
  OBVIOUS
<1>3. /\ t \in Seq(Int) /\ Len(t) = n + k
      /\ \A i \in 1..n : s[i] = t[i]
      /\ \A i \in (n + 1)..(n + k) : t[i] = c
  <2> DEFINE u == [i \in 1..k |-> c]
  <2>1. u \in Seq(Int) /\ Len(u) = k /\ \A i \in 1..k : u[i] = c
    BY <1>2
  <2> HIDE DEF u
  <2>2. /\ s \o u \in Seq(Int) /\ Len(s \o u) = n + k
        /\ \A i \in 1..n : s[i] = (s \o u)[i]
        /\ \A i \in (n + 1)..(n + k) : (s \o u)[i] = u[i - n]
    BY <2>1
  <2>3. \A i \in (n + 1)..(n + k) : i - n \in 1..k
    BY <1>1
  <2> QED  BY <2>1, <2>2, <2>3 DEF u
<1> HIDE DEF t
<1>4. /\ IsFiniteSet(1..n) /\ IsFiniteSet((n + 1)..(n + k)) /\ Cardinality((n + 1)..(n + k)) = k
      /\ 1..(n + k) = (1..n) \cup (n + 1)..(n + k) /\ (1..n) \cap (n + 1)..(n + k) = {}
  <2>1. IsFiniteSet(1..n) /\ IsFiniteSet((n + 1)..(n + k))
    BY <1>1, FS_Interval
  <2>2. Cardinality((n + 1)..(n + k)) = k
    <3>1. CASE k = 0
      <4>1. (n + 1)..(n + k) = {}
        BY <1>1, <3>1
      <4> QED  BY <3>1, <4>1, FS_EmptySet
    <3>2. CASE k # 0
      <4>1. Cardinality((n + 1)..(n + k)) = (n + k) - (n + 1) + 1
        BY <1>1, <3>2, FS_Interval
      <4> QED  BY <1>1, <4>1
    <3> QED  BY <3>1, <3>2
  <2> QED  BY <1>1, <2>1, <2>2
<1>5. SumFunctionOnSet(t, 1..(n + k)) = SumFunctionOnSet(t, 1..n) + SumFunctionOnSet(t, (n + 1)..(n + k))
  <2>1. \A i \in (1..n) \cup (n + 1)..(n + k) : t[i] \in Int
    BY <1>1, <1>3
  <2> DEFINE A == 1..n
             B == (n + 1)..(n + k)
  <2>2. IsFiniteSet(A) /\ IsFiniteSet(B) /\ A \cap B = {} /\ 1..(n + k) = A \cup B
    BY <1>4
  <2>3. \A i \in A \cup B : t[i] \in Int
    BY <2>1
  <2> HIDE DEF A, B
  <2>4. SumFunctionOnSet(t, A \cup B) = SumFunctionOnSet(t, A) + SumFunctionOnSet(t, B)
    BY <2>2, <2>3, SumOfUnion
  <2>5. SumFunctionOnSet(t, 1..(n + k)) = SumFunctionOnSet(t, A) + SumFunctionOnSet(t, B)
    BY <2>2, <2>4
  <2> QED  BY <2>5 DEF A, B
<1>6. SumFunctionOnSet(t, 1..n) = SumFunction(s)
  BY <1>1, <1>3, <1>4, SumsAgree, SumOfSequence
<1>7. SumFunctionOnSet(t, (n + 1)..(n + k)) = c * k
  BY <1>3, <1>4, SumOfSame
<1>8. SumFunction(t) = SumFunctionOnSet(t, 1..(n + k)) /\ c * k = k * c
  BY <1>3, SumOfSequence
<1> QED  BY <1>3, <1>5, <1>6, <1>7, <1>8 DEF t

=============================================================================
