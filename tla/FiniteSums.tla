------------------------------ MODULE FiniteSums ------------------------------
(***************************************************************************)
(* Induction over finite sets, stated with a set of good cases in place of *)
(* a predicate, and what it says of SumFunctionOnSet: the sum that the     *)
(* capacity ledgers and remaining_quantity compute does not depend on the  *)
(* order of the elements, and grows with the set.                          *)
(***************************************************************************)
EXTENDS Integers, FiniteSets, Functions, FiniteSetTheorems, TLAPS

(***************************************************************************)
(* Induction.                                                              *)
(***************************************************************************)

\* The natural numbers are well-founded under <, as a relation that is a set.
LEMMA NatWellFounded ==
    \E R : IsWellFoundedOn(R, Nat) /\ \A x, y \in Nat : y < x => <<y, x>> \in R
<1>1. IsWellFoundedOn(OpToRel(<, Nat), Nat)
      BY Zenon, NatLessThanWellFounded
<1>2. \A x, y \in Nat : y < x => <<y, x>> \in OpToRel(<, Nat)
      BY Zenon DEF OpToRel
<1>. QED  BY Zenon, <1>1, <1>2, Zenon

\* A set of numbers that is not empty has a least element.
LEMMA LeastElement ==
    ASSUME NEW T, T \subseteq Nat, T # {}
    PROVE  \E x \in T : \A y \in T : x <= y
<1>1. PICK R : IsWellFoundedOn(R, Nat) /\ \A x, y \in Nat : y < x => <<y, x>> \in R
      BY Zenon, NatWellFounded
<1>2. \E x \in T : \A y \in T : ~(<<y, x>> \in R)
      BY Zenon, <1>1, WFMin
<1>3. \E x \in T : \A y \in T : ~(y < x)
      BY Zenon, <1>1, <1>2, Zenon
<1>. HIDE <1>1
<1>. QED  BY SMTT(30), <1>3, SMT

\* Induction over the natural numbers.
LEMMA NumberInduction ==
    ASSUME NEW Good, 0 \in Good, \A n \in Nat : n \in Good => n + 1 \in Good
    PROVE  Nat \subseteq Good
<1>. SUFFICES ASSUME Nat \ Good # {} PROVE FALSE
     BY Zenon
<1>1. PICK n \in Nat \ Good : \A m \in Nat \ Good : n <= m
      BY Zenon, LeastElement
<1>2. n - 1 \in Nat /\ n - 1 \in Good
      BY SMTT(30), <1>1
<1>. QED  BY SMTT(30), <1>1, <1>2

\* Induction over the subsets of a finite set: a set is good when each of the
\* sets with one element less is.
LEMMA SubsetInduction ==
    ASSUME NEW T, IsFiniteSet(T), NEW Good,
           \A s \in SUBSET T : (\A x \in s : s \ {x} \in Good) => s \in Good
    PROVE  SUBSET T \subseteq Good
<1>. DEFINE Sizes == {n \in Nat : \A s \in SUBSET T : Cardinality(s) <= n => s \in Good}
<1>1. \A s \in SUBSET T : IsFiniteSet(s) /\ Cardinality(s) \in Nat
      BY Zenon, FS_Subset, FS_CardinalityType
<1>2. 0 \in Sizes
  <2>. SUFFICES ASSUME NEW s \in SUBSET T, Cardinality(s) <= 0 PROVE s \in Good
       BY Zenon
  <2>1. Cardinality(s) = 0
        BY SMTT(30), <1>1
  <2>2. s = {}
        BY Zenon, <1>1, <2>1, FS_EmptySet
  <2>. QED  BY Zenon, <2>2
<1>3. \A n \in Nat : n \in Sizes => n + 1 \in Sizes
  <2>. SUFFICES ASSUME NEW n \in Nat, n \in Sizes, NEW s \in SUBSET T, Cardinality(s) <= n + 1
                PROVE  s \in Good
       BY SMTT(30)
  <2>1. \A x \in s : Cardinality(s \ {x}) <= n
    <3>. SUFFICES ASSUME NEW x \in s PROVE Cardinality(s \ {x}) <= n
         BY Zenon
    <3>1. Cardinality(s \ {x}) = Cardinality(s) - 1
          BY Zenon, <1>1, FS_RemoveElement
    <3>. QED  BY SMTT(30), <1>1, <3>1
  <2>2. \A x \in s : s \ {x} \in SUBSET T
        BY Zenon
  <2>. QED  BY Zenon, <2>1, <2>2
<1>4. Nat \subseteq Sizes
  <2>. HIDE DEF Sizes
  <2>. QED  BY Zenon, <1>2, <1>3, NumberInduction
<1>5. \A s \in SUBSET T : Cardinality(s) <= Cardinality(s)
      BY SMTT(30), <1>1
<1>. QED  BY Zenon, <1>1, <1>4, <1>5

(***************************************************************************)
(* The sum of a function over a finite set.                                *)
(***************************************************************************)

\* One step of the sum: g is looked up for the rest of the set s.
SumStep(g, f, s) == IF s = {} THEN 0 ELSE LET x == CHOOSE x \in s : TRUE IN f[x] + g[s \ {x}]

\* g sums f over the sets of D, as SumFunctionOnSet does over all subsets of a set.
Sums(g, f, D) == g = [s \in D |-> SumStep(g, f, s)]

\* SumFunctionOnSet is the value of such a function, if there is one.
LEMMA SumIsSums ==
    ASSUME NEW S, NEW f, \E g : Sums(g, f, SUBSET S)
    PROVE  \E g : Sums(g, f, SUBSET S) /\ SumFunctionOnSet(f, S) = g[S]
<1>. DEFINE h == CHOOSE g : Sums(g, f, SUBSET S)
<1>1. Sums(h, f, SUBSET S)
      BY Zenon
<1>2. SumFunctionOnSet(f, S) = h[S]
      BY Zenon DEF SumFunctionOnSet, FoldFunctionOnSet, MapThenFoldSet, Sums, SumStep
<1>. QED  BY Zenon, <1>1, <1>2, Zenon

\* There is one: it is built from the smaller sets to the larger.
LEMMA SumsExists ==
    ASSUME NEW S, IsFiniteSet(S), NEW f
    PROVE  \E g : Sums(g, f, SUBSET S)
<1>. DEFINE Small(n) == {s \in SUBSET S : Cardinality(s) <= n}
            Good == {n \in Nat : \E g : Sums(g, f, Small(n))}
<1>1. \A s \in SUBSET S : IsFiniteSet(s) /\ Cardinality(s) \in Nat
      BY Zenon, FS_Subset, FS_CardinalityType
<1>2. 0 \in Good
  <2>1. \A s \in Small(0) : s = {}
    <3>. SUFFICES ASSUME NEW s \in Small(0) PROVE s = {}
         BY Zenon
    <3>1. Cardinality(s) = 0
          BY SMTT(30), <1>1
    <3>. QED  BY Zenon, <1>1, <3>1, FS_EmptySet
  <2>2. Sums([s \in Small(0) |-> 0], f, Small(0))
        BY Zenon, <2>1 DEF Sums, SumStep
  <2>. QED  BY Zenon, <2>2
<1>3. ASSUME NEW n \in Nat, n \in Good PROVE n + 1 \in Good
  <2>1. PICK g : Sums(g, f, Small(n))
        BY Zenon, <1>3
  <2>. DEFINE h == [s \in Small(n + 1) |-> SumStep(g, f, s)]
  <2>2. \A s \in Small(n) : h[s] = g[s]
    <3>1. \A s \in Small(n) : s \in Small(n + 1)
          BY SMTT(30), <1>1
    <3>2. \A s \in Small(n) : g[s] = SumStep(g, f, s)
      <4>. HIDE DEF Small
      <4>. QED  BY Zenon, <2>1 DEF Sums
    <3>. HIDE DEF Small
    <3>. QED  BY Zenon, <3>1, <3>2
  <2>3. \A s \in Small(n + 1) : SumStep(h, f, s) = SumStep(g, f, s)
    <3>. SUFFICES ASSUME NEW s \in Small(n + 1), s # {} PROVE SumStep(h, f, s) = SumStep(g, f, s)
         BY Zenon DEF SumStep
    <3>1. PICK x \in s : x = CHOOSE y \in s : TRUE
          BY Zenon
    <3>2. Cardinality(s \ {x}) = Cardinality(s) - 1
          BY Zenon, <1>1, FS_RemoveElement
    <3>3. s \ {x} \in Small(n)
          BY SMTT(30), <1>1, <3>2
    <3>4. h[s \ {x}] = g[s \ {x}]
          BY Zenon, <2>2, <3>3
    <3>. HIDE DEF h
    <3>. QED  BY Zenon, <3>1, <3>4 DEF SumStep
  <2>4. Sums(h, f, Small(n + 1))
    <3>. HIDE DEF Small
    <3>. QED  BY Zenon, <2>3 DEF Sums
  <2>5. \E k : Sums(k, f, Small(n + 1))
        BY Zenon, <2>4, Zenon
  <2>6. n + 1 \in Nat
        BY SMTT(30)
  <2>. HIDE DEF Small
  <2>. QED  BY Zenon, <2>5, <2>6, Zenon
<1>4. Cardinality(S) \in Good
  <2>1. \A n \in Nat : n \in Good => n + 1 \in Good
        BY Zenon, <1>3
  <2>. HIDE DEF Good
  <2>. QED  BY Zenon, <1>1, <1>2, <2>1, NumberInduction
<1>5. Small(Cardinality(S)) = SUBSET S
      BY Zenon, FS_Subset
<1>. QED  BY Zenon, <1>4, <1>5

\* The sum over the empty set, and over a set its first element is taken from.
LEMMA SumUnfold ==
    ASSUME NEW S, IsFiniteSet(S), NEW f
    PROVE  /\ SumFunctionOnSet(f, {}) = 0
           /\ S # {} => \E x \in S :
                 SumFunctionOnSet(f, S) = f[x] + SumFunctionOnSet(f, S \ {x})
<1>1. ASSUME NEW R, IsFiniteSet(R) 
      PROVE  \E g : Sums(g, f, SUBSET R) /\ SumFunctionOnSet(f, R) = g[R]
      BY Zenon, <1>1, SumsExists, SumIsSums
<1>2. ASSUME NEW R, NEW g, NEW h, IsFiniteSet(R), Sums(g, f, SUBSET R),
             NEW Q, R \subseteq Q, Sums(h, f, SUBSET Q)
      PROVE  g[R] = h[R]
  <2>. DEFINE Good == {s \in SUBSET R : g[s] = h[s]}
  <2>1. ASSUME NEW s \in SUBSET R, \A x \in s : s \ {x} \in Good PROVE s \in Good
    <3>1. g[s] = SumStep(g, f, s) /\ h[s] = SumStep(h, f, s)
          BY Zenon, <1>2 DEF Sums
    <3>2. CASE s = {}
          BY Zenon, <3>1, <3>2 DEF SumStep
    <3>3. CASE s # {}
      <4>1. PICK x \in s : x = CHOOSE y \in s : TRUE
            BY Zenon, <3>3
      <4>2. g[s \ {x}] = h[s \ {x}]
            BY Zenon, <2>1
      <4>. QED  BY Zenon, <3>1, <3>3, <4>1, <4>2 DEF SumStep
    <3>. QED  BY Zenon, <3>2, <3>3
  <2>2. SUBSET R \subseteq Good
    <3>. HIDE DEF Good
    <3>. QED  BY Zenon, <1>2, <2>1, SubsetInduction
  <2>. QED  BY Zenon, <2>2
<1>3. SumFunctionOnSet(f, {}) = 0
  <2>1. PICK g : Sums(g, f, SUBSET {}) /\ SumFunctionOnSet(f, {}) = g[{}]
        BY Zenon, <1>1, FS_EmptySet
  <2>. QED  BY Zenon, <2>1 DEF Sums, SumStep
<1>4. ASSUME S # {} PROVE \E x \in S :
                 SumFunctionOnSet(f, S) = f[x] + SumFunctionOnSet(f, S \ {x})
  <2>1. PICK x \in S : x = CHOOSE y \in S : TRUE
        BY Zenon, <1>4
  <2>2. PICK h : Sums(h, f, SUBSET S) /\ SumFunctionOnSet(f, S) = h[S]
        BY Zenon, <1>1
  <2>3. IsFiniteSet(S \ {x})
        BY Zenon, FS_RemoveElement
  <2>4. PICK g : Sums(g, f, SUBSET (S \ {x})) /\ SumFunctionOnSet(f, S \ {x}) = g[S \ {x}]
        BY Zenon, <1>1, <2>3
  <2>5. g[S \ {x}] = h[S \ {x}]
        BY Zenon, <1>2, <2>2, <2>3, <2>4
  <2>6. h[S] = f[x] + h[S \ {x}]
        BY Zenon, <1>4, <2>1, <2>2 DEF Sums, SumStep
  <2>. QED  BY Zenon, <2>2, <2>4, <2>5, <2>6
<1>. QED  BY Zenon, <1>3, <1>4

\* A sum of natural numbers is a natural number.
LEMMA SumType ==
    ASSUME NEW S, IsFiniteSet(S), NEW f, \A x \in S : f[x] \in Nat
    PROVE  SumFunctionOnSet(f, S) \in Nat
<1>. DEFINE Good == {s \in SUBSET S : SumFunctionOnSet(f, s) \in Nat}
<1>1. ASSUME NEW s \in SUBSET S, \A x \in s : s \ {x} \in Good PROVE s \in Good
  <2>1. IsFiniteSet(s)
        BY Zenon, FS_Subset
  <2>2. CASE s = {}
        BY SMTT(30), <2>1, <2>2, SumUnfold
  <2>3. CASE s # {}
    <3>1. PICK x \in s : SumFunctionOnSet(f, s) = f[x] + SumFunctionOnSet(f, s \ {x})
          BY Zenon, <2>1, <2>3, SumUnfold
    <3>. QED  BY SMTT(30), <1>1, <3>1
  <2>. QED  BY Zenon, <2>2, <2>3
<1>2. SUBSET S \subseteq Good
  <2>. HIDE DEF Good
  <2>. QED  BY Zenon, <1>1, SubsetInduction
<1>. QED  BY Zenon, <1>2

\* The sum does not depend on the order: any element may be taken first.
LEMMA SumRemove ==
    ASSUME NEW S, IsFiniteSet(S), NEW f, \A x \in S : f[x] \in Nat, NEW y \in S
    PROVE  SumFunctionOnSet(f, S) = f[y] + SumFunctionOnSet(f, S \ {y})
<1>. DEFINE sum(s) == SumFunctionOnSet(f, s)
            Good == {s \in SUBSET S : \A x \in s : sum(s) = f[x] + sum(s \ {x})}
<1>0. \A s \in SUBSET S : IsFiniteSet(s) /\ sum(s) \in Nat
      BY Zenon, FS_Subset, SumType
<1>1. ASSUME NEW s \in SUBSET S, \A x \in s : s \ {x} \in Good PROVE s \in Good
  <2>. SUFFICES ASSUME NEW x \in s PROVE sum(s) = f[x] + sum(s \ {x})
       BY Zenon
  <2>1. PICK z \in s : sum(s) = f[z] + sum(s \ {z})
        BY Zenon, <1>0, SumUnfold
  <2>2. CASE z = x
        BY Zenon, <2>1, <2>2
  <2>3. CASE z # x
    <3>1. sum(s \ {z}) = f[x] + sum((s \ {z}) \ {x})
          BY Zenon, <1>1, <2>3
    <3>2. sum(s \ {x}) = f[z] + sum((s \ {x}) \ {z})
          BY Zenon, <1>1, <2>3
    <3>3. (s \ {z}) \ {x} = (s \ {x}) \ {z}
          BY Zenon
    <3>4. PICK rest \in Nat : rest = sum((s \ {z}) \ {x})
          BY Zenon, <1>0
    <3>. HIDE DEF sum
    <3>. QED  BY SMTT(30), <2>1, <3>1, <3>2, <3>3, <3>4
  <2>. QED  BY Zenon, <2>2, <2>3
<1>2. SUBSET S \subseteq Good
  <2>. HIDE DEF Good
  <2>. QED  BY Zenon, <1>1, SubsetInduction
<1>. QED  BY Zenon, <1>2

\* An element that is new to the set adds its value.
LEMMA SumAdd ==
    ASSUME NEW S, IsFiniteSet(S), NEW y, y \notin S, NEW f,
           \A x \in S \cup {y} : f[x] \in Nat
    PROVE  SumFunctionOnSet(f, S \cup {y}) = SumFunctionOnSet(f, S) + f[y]
<1>1. IsFiniteSet(S \cup {y}) /\ (S \cup {y}) \ {y} = S
      BY Zenon, FS_AddElement
<1>2. SumFunctionOnSet(f, S \cup {y}) = f[y] + SumFunctionOnSet(f, (S \cup {y}) \ {y})
      BY Zenon, <1>1, SumRemove
<1>3. f[y] \in Nat /\ SumFunctionOnSet(f, S) \in Nat
      BY Zenon, SumType
<1>4. SumFunctionOnSet(f, S \cup {y}) = f[y] + SumFunctionOnSet(f, S)
  <2>. PICK R : R = (S \cup {y}) \ {y} /\ R = S
       BY Zenon, <1>1
  <2>. QED  BY Zenon, <1>2
<1>5. \A a, b \in Nat : a + b = b + a
      BY SMTT(30)
<1>. QED  BY Zenon, <1>3, <1>4, <1>5, Zenon

\* The sum over a union is at most the sum of the sums.
LEMMA SumUnion ==
    ASSUME NEW S, IsFiniteSet(S), NEW T, IsFiniteSet(T), NEW f,
           \A x \in S \cup T : f[x] \in Nat
    PROVE  SumFunctionOnSet(f, S \cup T) <= SumFunctionOnSet(f, S) + SumFunctionOnSet(f, T)
<1>. DEFINE sum(s) == SumFunctionOnSet(f, s)
            Good == {s \in SUBSET T : sum(S \cup s) <= sum(S) + sum(s)}
<1>0. \A s \in SUBSET T : /\ IsFiniteSet(s) /\ IsFiniteSet(S \cup s)
                           /\ sum(s) \in Nat /\ sum(S \cup s) \in Nat
  <2>. SUFFICES ASSUME NEW s \in SUBSET T
                PROVE  /\ IsFiniteSet(s) /\ IsFiniteSet(S \cup s)
                       /\ sum(s) \in Nat /\ sum(S \cup s) \in Nat
       BY Zenon
  <2>1. IsFiniteSet(s) /\ IsFiniteSet(S \cup s)
        BY Zenon, FS_Subset, FS_Union
  <2>. QED  BY Zenon, <2>1, SumType
<1>1. sum(S) \in Nat
      BY Zenon, SumType
<1>2. ASSUME NEW s \in SUBSET T, \A x \in s : s \ {x} \in Good PROVE s \in Good
  <2>1. CASE s = {}
    <3>1. sum({}) = 0 /\ S \cup {} = S
          BY Zenon, SumUnfold
    <3>. HIDE DEF sum
    <3>. QED  BY SMTT(30), <1>1, <2>1, <3>1
  <2>2. CASE s # {}
    <3>1. PICK x \in s : TRUE
          BY Zenon, <2>2
    <3>2. PICK r \in SUBSET T : r = s \ {x} /\ x \notin r /\ s = r \cup {x}
      <4>1. s \ {x} \in SUBSET T /\ x \notin s \ {x} /\ s = (s \ {x}) \cup {x}
            BY Zenon
      <4>. QED  BY Zenon, <4>1, Zenon
    <3>3. sum(S \cup r) <= sum(S) + sum(r)
          BY Zenon, <1>2, <3>2
    <3>4. sum(s) = sum(r) + f[x]
          BY Zenon, <1>0, <3>2, SumAdd
    <3>5. sum(S \cup s) <= sum(S \cup r) + f[x]
      <4>1. CASE x \in S
        <5>1. S \cup s = S \cup r
              BY Zenon, <3>2, <4>1
        <5>. QED  BY SMTT(30), <1>0, <3>2, <5>1
      <4>2. CASE x \notin S
        <5>1. S \cup s = (S \cup r) \cup {x} /\ x \notin S \cup r
              BY Zenon, <3>2, <4>2
        <5>2. sum((S \cup r) \cup {x}) = sum(S \cup r) + f[x]
              BY Zenon, <1>0, <3>2, <5>1, SumAdd
        <5>3. sum(S \cup s) = sum(S \cup r) + f[x]
              BY Zenon, <5>1, <5>2, Zenon
        <5>4. sum(S \cup s) \in Nat
              BY Zenon, <1>0
        <5>. HIDE DEF sum
        <5>. QED  BY SMTT(30), <5>3, <5>4
      <4>. QED  BY Zenon, <4>1, <4>2
    <3>6. f[x] \in Nat /\ sum(r) \in Nat /\ sum(S \cup r) \in Nat /\ sum(S \cup s) \in Nat
          BY Zenon, <1>0, <3>2
    <3>. HIDE DEF sum
    <3>. QED  BY SMTT(30), <1>1, <3>3, <3>4, <3>5, <3>6
  <2>. QED  BY Zenon, <2>1, <2>2
<1>3. SUBSET T \subseteq Good
  <2>. HIDE DEF Good
  <2>. QED  BY Zenon, <1>2, SubsetInduction
<1>. QED  BY Zenon, <1>3

\* A larger set has a larger sum.
LEMMA SumMonotone ==
    ASSUME NEW T, IsFiniteSet(T), NEW S, S \subseteq T, NEW f, \A x \in T : f[x] \in Nat
    PROVE  SumFunctionOnSet(f, S) <= SumFunctionOnSet(f, T)
<1>. DEFINE sum(s) == SumFunctionOnSet(f, s)
            Good == {s \in SUBSET T : \A r \in SUBSET s : sum(r) <= sum(s)}
<1>0. \A s \in SUBSET T : IsFiniteSet(s) /\ sum(s) \in Nat
      BY Zenon, FS_Subset, SumType
<1>1. ASSUME NEW s \in SUBSET T, \A x \in s : s \ {x} \in Good PROVE s \in Good
  <2>. SUFFICES ASSUME NEW r \in SUBSET s PROVE sum(r) <= sum(s)
       BY Zenon
  <2>1. CASE r = s
        BY SMTT(30), <1>0, <2>1
  <2>2. CASE r # s
    <3>1. PICK x \in s : x \notin r
          BY Zenon, <2>2
    <3>2. sum(r) <= sum(s \ {x})
          BY Zenon, <1>1, <3>1
    <3>3. sum(s) = f[x] + sum(s \ {x})
          BY Zenon, <1>0, SumRemove
    <3>4. f[x] \in Nat /\ sum(s \ {x}) \in Nat /\ sum(r) \in Nat
          BY Zenon, <1>0
    <3>. HIDE DEF sum
    <3>. QED  BY SMTT(30), <3>2, <3>3, <3>4
  <2>. QED  BY Zenon, <2>1, <2>2
<1>2. SUBSET T \subseteq Good
  <2>. HIDE DEF Good
  <2>. QED  BY Zenon, <1>1, SubsetInduction
<1>. QED  BY Zenon, <1>2

\* The sum depends on the values over the set only.
LEMMA SumSame ==
    ASSUME NEW S, IsFiniteSet(S), NEW f, NEW g, \A x \in S : f[x] = g[x],
           \A x \in S : f[x] \in Nat
    PROVE  SumFunctionOnSet(f, S) = SumFunctionOnSet(g, S)
<1>. DEFINE Good == {s \in SUBSET S : SumFunctionOnSet(f, s) = SumFunctionOnSet(g, s)}
<1>1. ASSUME NEW s \in SUBSET S, \A x \in s : s \ {x} \in Good PROVE s \in Good
  <2>1. IsFiniteSet(s)
        BY Zenon, FS_Subset
  <2>2. CASE s = {}
        BY Zenon, <2>1, <2>2, SumUnfold
  <2>3. CASE s # {}
    <3>1. PICK x \in s : SumFunctionOnSet(f, s) = f[x] + SumFunctionOnSet(f, s \ {x})
          BY Zenon, <2>1, <2>3, SumUnfold
    <3>2. SumFunctionOnSet(g, s) = g[x] + SumFunctionOnSet(g, s \ {x})
          BY Zenon, <2>1, SumRemove
    <3>. QED  BY Zenon, <1>1, <3>1, <3>2
  <2>. QED  BY Zenon, <2>2, <2>3
<1>2. SUBSET S \subseteq Good
  <2>. HIDE DEF Good
  <2>. QED  BY Zenon, <1>1, SubsetInduction
<1>. QED  BY Zenon, <1>2

\* Values that are at most others have a sum that is at most theirs.
LEMMA SumDominated ==
    ASSUME NEW S, IsFiniteSet(S), NEW f, NEW g,
           \A x \in S : f[x] \in Nat /\ g[x] \in Nat /\ f[x] <= g[x]
    PROVE  SumFunctionOnSet(f, S) <= SumFunctionOnSet(g, S)
<1>. DEFINE Good == {s \in SUBSET S : SumFunctionOnSet(f, s) <= SumFunctionOnSet(g, s)}
<1>0. \A s \in SUBSET S : /\ IsFiniteSet(s) /\ SumFunctionOnSet(f, s) \in Nat
                          /\ SumFunctionOnSet(g, s) \in Nat
      BY Zenon, FS_Subset, SumType
<1>1. ASSUME NEW s \in SUBSET S, \A x \in s : s \ {x} \in Good PROVE s \in Good
  <2>1. IsFiniteSet(s)
        BY Zenon, <1>0
  <2>2. CASE s = {}
    <3>1. SumFunctionOnSet(f, s) = 0 /\ SumFunctionOnSet(g, s) = 0
          BY Zenon, <2>1, <2>2, SumUnfold
    <3>. QED  BY SMTT(30), <3>1
  <2>3. CASE s # {}
    <3>1. PICK x \in s : SumFunctionOnSet(f, s) = f[x] + SumFunctionOnSet(f, s \ {x})
          BY Zenon, <2>1, <2>3, SumUnfold
    <3>2. SumFunctionOnSet(g, s) = g[x] + SumFunctionOnSet(g, s \ {x})
          BY Zenon, <2>1, SumRemove
    <3>3. PICK a, b : /\ a = SumFunctionOnSet(f, s \ {x}) /\ b = SumFunctionOnSet(g, s \ {x})
                      /\ a \in Nat /\ b \in Nat /\ a <= b
          BY Zenon, <1>0, <1>1
    <3>4. f[x] + a <= g[x] + b
          BY SMTT(30), <3>3
    <3>. QED  BY Zenon, <3>1, <3>2, <3>3, <3>4
  <2>. QED  BY Zenon, <2>2, <2>3
<1>2. SUBSET S \subseteq Good
  <2>. HIDE DEF Good
  <2>. QED  BY Zenon, <1>1, SubsetInduction
<1>. QED  BY Zenon, <1>2

\* Where every value is 1 the sum is the number of elements.
LEMMA SumOfOnes ==
    ASSUME NEW S, IsFiniteSet(S), NEW f, \A x \in S : f[x] = 1
    PROVE  SumFunctionOnSet(f, S) = Cardinality(S)
<1>. DEFINE Good == {s \in SUBSET S : SumFunctionOnSet(f, s) = Cardinality(s)}
<1>1. ASSUME NEW s \in SUBSET S, \A x \in s : s \ {x} \in Good PROVE s \in Good
  <2>1. IsFiniteSet(s) /\ Cardinality(s) \in Nat
        BY Zenon, FS_Subset, FS_CardinalityType
  <2>2. CASE s = {}
        BY Zenon, <2>1, <2>2, SumUnfold, FS_EmptySet
  <2>3. CASE s # {}
    <3>1. PICK x \in s : SumFunctionOnSet(f, s) = f[x] + SumFunctionOnSet(f, s \ {x})
          BY Zenon, <2>1, <2>3, SumUnfold
    <3>2. Cardinality(s \ {x}) = Cardinality(s) - 1
          BY Zenon, <2>1, FS_RemoveElement
    <3>. QED  BY SMTT(30), <1>1, <2>1, <3>1, <3>2
  <2>. QED  BY Zenon, <2>2, <2>3
<1>2. SUBSET S \subseteq Good
  <2>. HIDE DEF Good
  <2>. QED  BY Zenon, <1>1, SubsetInduction
<1>. QED  BY Zenon, <1>2

\* Where every value is 0 the sum is 0.
LEMMA SumOfZeros ==
    ASSUME NEW S, IsFiniteSet(S), NEW f, \A x \in S : f[x] = 0
    PROVE  SumFunctionOnSet(f, S) = 0
<1>. DEFINE Good == {s \in SUBSET S : SumFunctionOnSet(f, s) = 0}
<1>1. ASSUME NEW s \in SUBSET S, \A x \in s : s \ {x} \in Good PROVE s \in Good
  <2>1. IsFiniteSet(s)
        BY Zenon, FS_Subset
  <2>2. CASE s = {}
        BY Zenon, <2>1, <2>2, SumUnfold
  <2>3. CASE s # {}
    <3>1. PICK x \in s : SumFunctionOnSet(f, s) = f[x] + SumFunctionOnSet(f, s \ {x})
          BY Zenon, <2>1, <2>3, SumUnfold
    <3>. QED  BY SMTT(30), <1>1, <3>1
  <2>. QED  BY Zenon, <2>2, <2>3
<1>2. SUBSET S \subseteq Good
  <2>. HIDE DEF Good
  <2>. QED  BY Zenon, <1>1, SubsetInduction
<1>. QED  BY Zenon, <1>2
=============================================================================
