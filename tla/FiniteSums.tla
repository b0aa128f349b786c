----------------------------- MODULE FiniteSums -----------------------------
(***************************************************************************)
(* What the sums of the ledgers need: SumFunctionOnSet(f, S) of the        *)
(* community module Functions is defined by a recursive function that      *)
(* takes the elements of S in an order of its own.  For a finite S it is   *)
(* an integer, zero on the empty set, and grows by f[x] with any x added.  *)
(*                                                                         *)
(* Induction is by sets of numbers: the theorems on well-founded relations *)
(* give every set of naturals a least element.                             *)
(***************************************************************************)
EXTENDS Integers, FiniteSets, Functions, FiniteSetTheorems,
        WellFoundedInduction, TLAPS

Below == {p \in Nat \X Nat : p[1] < p[2]}

LEMMA BelowIsWellFounded == IsWellFoundedOn(Below, Nat)
  <1>1. OpToRel(<, Nat) = Below
    BY Zenon DEF OpToRel, Below
  <1>. QED  BY <1>1, NatLessThanWellFounded

LEMMA LeastNatural ==
    ASSUME NEW T \in SUBSET Nat, T # {}
    PROVE  \E x \in T : \A y \in T : x <= y
  <1>1. PICK x \in T : \A y \in T : <<y, x>> \notin Below
    BY BelowIsWellFounded, WFMin
  <1>2. ASSUME NEW y \in T  PROVE x <= y
    <2>1. x \in Nat /\ y \in Nat /\ ~ (y < x)
      BY <1>1 DEF Below
    <2>. QED  BY <2>1
  <1>. QED  BY <1>2

LEMMA InductionBySets ==
    ASSUME NEW S, 0 \in S, \A n \in Nat : n \in S => n + 1 \in S
    PROVE  \A n \in Nat : n \in S
  <1>. SUFFICES ASSUME Nat \ S # {}  PROVE FALSE
    OBVIOUS
  <1>1. PICK x \in Nat \ S : \A y \in Nat \ S : x <= y
    BY LeastNatural
  <1>2. x # 0 /\ x - 1 \in Nat /\ x - 1 \in S
    BY <1>1
  <1>. QED  BY <1>2

-----------------------------------------------------------------------------
(***************************************************************************)
(* The recursive function behind a sum.                                    *)
(***************************************************************************)
Pick(s) == CHOOSE x \in s : TRUE

Rest(s) == s \ {Pick(s)}

\* The function g obeys the equation of the sum of f on the sets of D.
SumsOn(g, f, D) ==
    g = [s \in D |-> IF s = {} THEN 0 ELSE f[Pick(s)] + g[Rest(s)]]

Small(S, n) == {s \in SUBSET S : Cardinality(s) <= n}

LEMMA RestIsSmaller ==
    ASSUME NEW s, IsFiniteSet(s), s # {}
    PROVE  /\ Pick(s) \in s
           /\ IsFiniteSet(Rest(s))
           /\ Cardinality(s) \in Nat /\ Cardinality(Rest(s)) \in Nat
           /\ Cardinality(s) = Cardinality(Rest(s)) + 1
  <1>1. Pick(s) \in s
    BY DEF Pick
  <1>2. /\ IsFiniteSet(s \ {Pick(s)})
        /\ Cardinality(s \ {Pick(s)}) = Cardinality(s) - 1
    BY <1>1, FS_RemoveElement
  <1>3. Cardinality(s) \in Nat /\ Cardinality(s \ {Pick(s)}) \in Nat
    BY <1>2, FS_CardinalityType
  <1>. QED  BY <1>1, <1>2, <1>3 DEF Rest

LEMMA RestIsSmall ==
    ASSUME NEW S, IsFiniteSet(S), NEW n \in Nat, NEW s \in Small(S, n + 1),
           s # {}
    PROVE  Rest(s) \in Small(S, n)
  <1>1. IsFiniteSet(s) /\ s \subseteq S /\ Cardinality(s) <= n + 1
    BY FS_Subset DEF Small
  <1>2. Cardinality(Rest(s)) \in Nat /\ Cardinality(Rest(s)) <= n
    BY <1>1, RestIsSmaller
  <1>3. Rest(s) \subseteq S
    BY <1>1 DEF Rest
  <1>. QED  BY <1>2, <1>3 DEF Small

LEMMA SmallestIsEmpty ==
    ASSUME NEW S, IsFiniteSet(S), NEW s \in Small(S, 0)  PROVE s = {}
  <1>1. IsFiniteSet(s) /\ Cardinality(s) <= 0
    BY FS_Subset DEF Small
  <1>2. Cardinality(s) = 0
    BY <1>1, FS_CardinalityType
  <1>. QED  BY <1>1, <1>2, FS_EmptySet

\* Sums over the sets of up to n + 1 elements extend those over n.
LEMMA SumsExtend ==
    ASSUME NEW f, NEW S, IsFiniteSet(S), NEW n \in Nat, NEW g,
           SumsOn(g, f, Small(S, n))
    PROVE  \E h : SumsOn(h, f, Small(S, n + 1))
  <1>. DEFINE h == [s \in Small(S, n + 1) |->
                       IF s \in Small(S, n) THEN g[s]
                       ELSE f[Pick(s)] + g[Rest(s)]]
  <1>1. {} \in Small(S, n)
    BY FS_EmptySet DEF Small
  <1>2. Small(S, n) \subseteq Small(S, n + 1)
    <2>1. ASSUME NEW s \in Small(S, n)  PROVE Cardinality(s) <= n + 1
      <3>1. IsFiniteSet(s) /\ Cardinality(s) <= n
        BY FS_Subset DEF Small
      <3>2. Cardinality(s) \in Nat
        BY <3>1, FS_CardinalityType
      <3>. QED  BY <3>1, <3>2
    <2>. QED  BY <2>1 DEF Small
  <1>3. ASSUME NEW s \in Small(S, n + 1)
        PROVE  h[s] = IF s = {} THEN 0 ELSE f[Pick(s)] + h[Rest(s)]
    <2>1. CASE s = {}
      <3>1. h[s] = g[{}]
        BY <1>1, <2>1
      <3>2. g[{}] = 0
        BY <1>1 DEF SumsOn
      <3>. QED  BY <2>1, <3>1, <3>2
    <2>2. CASE s # {}
      <3>1. Rest(s) \in Small(S, n)
        BY <2>2, RestIsSmall
      <3>2. h[Rest(s)] = g[Rest(s)]
        BY <1>2, <3>1
      <3>3. s \in Small(S, n) => g[s] = f[Pick(s)] + g[Rest(s)]
        BY <2>2 DEF SumsOn
      <3>. QED  BY <2>2, <3>2, <3>3
    <2>. QED  BY <2>1, <2>2
  <1>4. SumsOn(h, f, Small(S, n + 1))
    <2>1. h = [s \in Small(S, n + 1) |-> h[s]]
      OBVIOUS
    <2>. HIDE DEF h
    <2>. QED  BY <1>3, <2>1 DEF SumsOn
  <1>. QED  BY <1>4

LEMMA SumsExist ==
    ASSUME NEW f, NEW S, IsFiniteSet(S)
    PROVE  \E g : SumsOn(g, f, SUBSET S)
  <1>. DEFINE N == {n \in Nat : \E g : SumsOn(g, f, Small(S, n))}
  <1>1. 0 \in N
    <2>. DEFINE zero == [s \in Small(S, 0) |-> 0]
    <2>1. SumsOn(zero, f, Small(S, 0))
      BY SmallestIsEmpty DEF SumsOn
    <2>. QED  BY <2>1
  <1>2. ASSUME NEW n \in Nat, n \in N  PROVE n + 1 \in N
    BY <1>2, SumsExtend
  <1>3. Cardinality(S) \in N
    <2>1. Cardinality(S) \in Nat
      BY FS_CardinalityType
    <2>. HIDE DEF N
    <2>. QED  BY <1>1, <1>2, <2>1, InductionBySets
  <1>4. Small(S, Cardinality(S)) = SUBSET S
    BY FS_Subset DEF Small
  <1>. QED  BY <1>3, <1>4

LEMMA SumIs ==
    ASSUME NEW f, NEW S, IsFiniteSet(S)
    PROVE  \E g : /\ SumsOn(g, f, SUBSET S)
                  /\ SumFunctionOnSet(f, S) = g[S]
  <1>. DEFINE g == CHOOSE h : SumsOn(h, f, SUBSET S)
  <1>1. SumsOn(g, f, SUBSET S)
    BY SumsExist
  <1>2. SumFunctionOnSet(f, S) = g[S]
    BY DEF SumFunctionOnSet, FoldFunctionOnSet, MapThenFoldSet, SumsOn,
           Pick, Rest
  <1>. QED  BY <1>1, <1>2

\* The equation has one solution: it does not matter of which larger set.
LEMMA SumsAgree ==
    ASSUME NEW f, NEW g, NEW S, NEW h, NEW T, IsFiniteSet(S), T \subseteq S,
           SumsOn(g, f, SUBSET S), SumsOn(h, f, SUBSET T)
    PROVE  g[T] = h[T]
  <1>. DEFINE N == {n \in Nat : \A s \in Small(T, n) : g[s] = h[s]}
  <1>0. IsFiniteSet(T)
    BY FS_Subset
  <1>1. 0 \in N
    <2>1. ASSUME NEW s \in Small(T, 0)  PROVE g[s] = h[s]
      <3>1. s = {}
        BY <1>0, SmallestIsEmpty
      <3>. QED  BY <3>1 DEF SumsOn
    <2>. QED  BY <2>1
  <1>2. ASSUME NEW n \in Nat, n \in N  PROVE n + 1 \in N
    <2>1. ASSUME NEW s \in Small(T, n + 1)  PROVE g[s] = h[s]
      <3>1. s \in SUBSET S /\ s \in SUBSET T
        BY DEF Small
      <3>2. CASE s = {}
        BY <3>2 DEF SumsOn
      <3>3. CASE s # {}
        <4>1. Rest(s) \in Small(T, n)
          BY <1>0, <3>3, RestIsSmall
        <4>2. g[Rest(s)] = h[Rest(s)]
          BY <1>2, <4>1
        <4>. QED  BY <3>1, <3>3, <4>2 DEF SumsOn
      <3>. QED  BY <3>2, <3>3
    <2>. QED  BY <2>1
  <1>3. Cardinality(T) \in N
    <2>1. Cardinality(T) \in Nat
      BY <1>0, FS_CardinalityType
    <2>. HIDE DEF N
    <2>. QED  BY <1>1, <1>2, <2>1, InductionBySets
  <1>4. T \in Small(T, Cardinality(T))
    <2>1. Cardinality(T) \in Nat
      BY <1>0, FS_CardinalityType
    <2>. QED  BY <2>1 DEF Small
  <1>. QED  BY <1>3, <1>4

-----------------------------------------------------------------------------
(***************************************************************************)
(* The sum.                                                                *)
(***************************************************************************)
LEMMA SumOfNone == ASSUME NEW f  PROVE SumFunctionOnSet(f, {}) = 0
  <1>1. PICK g : SumsOn(g, f, SUBSET {}) /\ SumFunctionOnSet(f, {}) = g[{}]
    BY FS_EmptySet, SumIs
  <1>. QED  BY <1>1 DEF SumsOn

LEMMA SumByPick ==
    ASSUME NEW f, NEW S, IsFiniteSet(S), S # {}
    PROVE  SumFunctionOnSet(f, S)
              = f[Pick(S)] + SumFunctionOnSet(f, Rest(S))
  <1>1. PICK g : SumsOn(g, f, SUBSET S) /\ SumFunctionOnSet(f, S) = g[S]
    BY SumIs
  <1>2. Rest(S) \subseteq S /\ IsFiniteSet(Rest(S))
    BY FS_Subset DEF Rest
  <1>3. PICK h : /\ SumsOn(h, f, SUBSET Rest(S))
                 /\ SumFunctionOnSet(f, Rest(S)) = h[Rest(S)]
    BY <1>2, SumIs
  <1>4. g[Rest(S)] = h[Rest(S)]
    BY <1>1, <1>2, <1>3, SumsAgree
  <1>5. g[S] = f[Pick(S)] + g[Rest(S)]
    BY <1>1 DEF SumsOn
  <1>. QED  BY <1>1, <1>3, <1>4, <1>5

LEMMA SumIsInteger ==
    ASSUME NEW f, NEW S, IsFiniteSet(S), \A x \in S : f[x] \in Int
    PROVE  SumFunctionOnSet(f, S) \in Int
  <1>. DEFINE N == {n \in Nat :
                       \A s \in Small(S, n) : SumFunctionOnSet(f, s) \in Int}
  <1>1. 0 \in N
    BY SmallestIsEmpty, SumOfNone
  <1>2. ASSUME NEW n \in Nat, n \in N  PROVE n + 1 \in N
    <2>1. ASSUME NEW s \in Small(S, n + 1)
          PROVE  SumFunctionOnSet(f, s) \in Int
      <3>1. s \subseteq S /\ IsFiniteSet(s)
        BY FS_Subset DEF Small
      <3>2. CASE s = {}
        BY <3>2, SumOfNone
      <3>3. CASE s # {}
        <4>1. SumFunctionOnSet(f, Rest(s)) \in Int
          BY <1>2, <3>3, RestIsSmall
        <4>2. f[Pick(s)] \in Int
          BY <3>1, <3>3, RestIsSmaller
        <4>. QED  BY <3>1, <3>3, <4>1, <4>2, SumByPick
      <3>. QED  BY <3>2, <3>3
    <2>. QED  BY <2>1
  <1>3. Cardinality(S) \in Nat /\ Cardinality(S) \in N
    <2>1. Cardinality(S) \in Nat
      BY FS_CardinalityType
    <2>. HIDE DEF N
    <2>. QED  BY <1>1, <1>2, <2>1, InductionBySets
  <1>4. S \in Small(S, Cardinality(S))
    BY <1>3 DEF Small
  <1>. QED  BY <1>3, <1>4

\* The elements may be taken in any order.
LEMMA SumByAny ==
    ASSUME NEW f, NEW S, IsFiniteSet(S), \A x \in S : f[x] \in Int,
           NEW x \in S
    PROVE  SumFunctionOnSet(f, S) = f[x] + SumFunctionOnSet(f, S \ {x})
  <1>. DEFINE Sum(s) == SumFunctionOnSet(f, s)
              N == {n \in Nat : \A s \in Small(S, n) : \A y \in s :
                                    Sum(s) = f[y] + Sum(s \ {y})}
  <1>1. 0 \in N
    BY SmallestIsEmpty
  <1>2. ASSUME NEW n \in Nat, n \in N  PROVE n + 1 \in N
    <2>1. ASSUME NEW s \in Small(S, n + 1), NEW y \in s
          PROVE  Sum(s) = f[y] + Sum(s \ {y})
      <3>. DEFINE z == Pick(s)
                  both == s \ {y, z}
      <3>1. s \subseteq S /\ IsFiniteSet(s) /\ z \in s
        BY FS_Subset, RestIsSmaller DEF Small
      <3>2. Sum(s) = f[z] + Sum(s \ {z})
        BY <3>1, SumByPick DEF Rest
      <3>3. CASE y = z
        BY <3>2, <3>3
      <3>4. CASE y # z
        <4>1. s \ {z} \in Small(S, n) /\ s \ {y} \in Small(S, n)
          <5>1. Cardinality(s) <= n + 1
            BY DEF Small
          <5>2. /\ Cardinality(s \ {z}) = Cardinality(s) - 1
                /\ Cardinality(s \ {y}) = Cardinality(s) - 1
                /\ Cardinality(s) \in Nat
            BY <3>1, FS_RemoveElement, FS_CardinalityType
          <5>. QED  BY <3>1, <5>1, <5>2 DEF Small
        <4>2. Sum(s \ {z}) = f[y] + Sum(both)
          <5>1. y \in s \ {z} /\ (s \ {z}) \ {y} = both
            BY <3>4
          <5>. QED  BY <1>2, <4>1, <5>1
        <4>3. Sum(s \ {y}) = f[z] + Sum(both)
          <5>1. z \in s \ {y} /\ (s \ {y}) \ {z} = both
            BY <3>1, <3>4
          <5>. QED  BY <1>2, <4>1, <5>1
        <4>4. Sum(both) \in Int
          <5>1. both \subseteq S /\ IsFiniteSet(both)
            BY <3>1, FS_Subset
          <5>. QED  BY <5>1, SumIsInteger
        <4>5. f[y] \in Int /\ f[z] \in Int
          BY <3>1
        <4>. HIDE DEF Sum, both, z
        <4>. QED  BY <3>2, <4>2, <4>3, <4>4, <4>5
      <3>. QED  BY <3>3, <3>4
    <2>. QED  BY <2>1
  <1>3. Cardinality(S) \in Nat /\ Cardinality(S) \in N
    <2>1. Cardinality(S) \in Nat
      BY FS_CardinalityType
    <2>. HIDE DEF N
    <2>. QED  BY <1>1, <1>2, <2>1, InductionBySets
  <1>4. S \in Small(S, Cardinality(S))
    BY <1>3 DEF Small
  <1>. QED  BY <1>3, <1>4

\* One element more adds its value.
LEMMA SumWithOneMore ==
    ASSUME NEW f, NEW S, IsFiniteSet(S), NEW x, x \notin S,
           \A y \in S \cup {x} : f[y] \in Int
    PROVE  /\ SumFunctionOnSet(f, S) \in Int
           /\ SumFunctionOnSet(f, S \cup {x})
                 = SumFunctionOnSet(f, S) + f[x]
  <1>1. IsFiniteSet(S \cup {x}) /\ (S \cup {x}) \ {x} = S
    BY FS_AddElement
  <1>2. SumFunctionOnSet(f, S) \in Int
    BY SumIsInteger
  <1>3. SumFunctionOnSet(f, S \cup {x}) = f[x] + SumFunctionOnSet(f, S)
    BY <1>1, SumByAny
  <1>. QED  BY <1>2, <1>3

\* Only the values on the set matter.
LEMMA SumOfEqual ==
    ASSUME NEW f, NEW h, NEW S, IsFiniteSet(S), \A x \in S : f[x] = h[x]
    PROVE  SumFunctionOnSet(f, S) = SumFunctionOnSet(h, S)
  <1>. DEFINE N == {n \in Nat : \A s \in Small(S, n) :
                        SumFunctionOnSet(f, s) = SumFunctionOnSet(h, s)}
  <1>1. 0 \in N
    BY SmallestIsEmpty, SumOfNone
  <1>2. ASSUME NEW n \in Nat, n \in N  PROVE n + 1 \in N
    <2>1. ASSUME NEW s \in Small(S, n + 1)
          PROVE  SumFunctionOnSet(f, s) = SumFunctionOnSet(h, s)
      <3>1. s \subseteq S /\ IsFiniteSet(s)
        BY FS_Subset DEF Small
      <3>2. CASE s = {}
        BY <3>2, SumOfNone
      <3>3. CASE s # {}
        <4>1. SumFunctionOnSet(f, Rest(s)) = SumFunctionOnSet(h, Rest(s))
          BY <1>2, <3>3, RestIsSmall
        <4>2. f[Pick(s)] = h[Pick(s)]
          BY <3>1, <3>3, RestIsSmaller
        <4>. QED  BY <3>1, <3>3, <4>1, <4>2, SumByPick
      <3>. QED  BY <3>2, <3>3
    <2>. QED  BY <2>1
  <1>3. Cardinality(S) \in Nat /\ Cardinality(S) \in N
    <2>1. Cardinality(S) \in Nat
      BY FS_CardinalityType
    <2>. HIDE DEF N
    <2>. QED  BY <1>1, <1>2, <2>1, InductionBySets
  <1>4. S \in Small(S, Cardinality(S))
    BY <1>3 DEF Small
  <1>. QED  BY <1>3, <1>4
=============================================================================
