------------------------------ MODULE SumProofs ------------------------------
(***************************************************************************)
(* Sums over a finite set, as the ledgers and the auction house add up     *)
(* money: the folds of the community modules are recursive functions, and  *)
(* the induction they need is drawn from the least size of a set that      *)
(* would be a counterexample.                                              *)
(***************************************************************************)
EXTENDS Functions, FiniteSetTheorems, WellFoundedInduction, NaturalsInduction, TLAPS

(* The element of a set that the sum adds first.                           *)
First(s) == CHOOSE x \in s : TRUE

(* f adds up h over each set of D, as the fold's recursion does.           *)
AddsUp(f, h, D) ==
  f = [s \in D |-> IF s = {} THEN 0 ELSE h[First(s)] + f[s \ {First(s)}]]

(* Every non-empty set of naturals has a least element.                    *)
LEMMA LeastNatural ==
  ASSUME NEW T \in SUBSET Nat, T # {}
  PROVE  \E n \in T : \A m \in T : n <= m
<1>1. \E n \in T : \A m \in T : ~(<<m, n>> \in OpToRel(<, Nat))
  BY NatLessThanWellFounded, WFMin
<1>2. PICK n \in T : \A m \in T : ~(<<m, n>> \in OpToRel(<, Nat))
  BY <1>1
<1>3. ASSUME NEW m \in T  PROVE n <= m
  <2>1. ~(<<m, n>> \in Nat \X Nat /\ m < n)
    BY <1>2 DEF OpToRel
  <2> QED  BY <2>1
<1> QED  BY <1>3

(* Induction over the subsets of a finite set: a set of sets that has a    *)
(* set as soon as it has it less any one element has them all.             *)
LEMMA SubsetInduction ==
  ASSUME NEW S, IsFiniteSet(S), NEW T,
         \A s \in SUBSET S : (\A x \in s : s \ {x} \in T) => s \in T
  PROVE  SUBSET S \subseteq T
<1> DEFINE Sizes == {Cardinality(s) : s \in {t \in SUBSET S : t \notin T}}
<1>1. SUFFICES ASSUME Sizes # {}  PROVE FALSE
  OBVIOUS
<1>2. \A s \in SUBSET S : IsFiniteSet(s) /\ Cardinality(s) \in Nat
  BY FS_Subset, FS_CardinalityType
<1>3. Sizes \in SUBSET Nat
  BY <1>2
<1> HIDE DEF Sizes
<1>4. PICK n \in Sizes : \A m \in Sizes : n <= m
  BY <1>1, <1>3, LeastNatural
<1>5. PICK s \in SUBSET S : s \notin T /\ n = Cardinality(s)
  BY <1>4 DEF Sizes
<1>6. ASSUME NEW x \in s, s \ {x} \notin T  PROVE FALSE
  <2>1. Cardinality(s \ {x}) = Cardinality(s) - 1
    BY <1>2, FS_RemoveElement
  <2>2. Cardinality(s \ {x}) \in Sizes
    BY <1>5, <1>6 DEF Sizes
  <2>3. Cardinality(s) <= Cardinality(s \ {x})
    BY <1>4, <1>5, <2>2
  <2> QED  BY <1>2, <2>1, <2>3
<1> QED  BY <1>5, <1>6

LEMMA FirstIn == ASSUME NEW s, s # {}  PROVE First(s) \in s
BY DEF First

(* Two functions that add up the same values agree where both do.          *)
LEMMA AddsUpUnique ==
  ASSUME NEW h, NEW g, NEW S, IsFiniteSet(S), \A x \in S : h[x] = g[x],
         NEW D, SUBSET S \subseteq D,
         NEW f, AddsUp(f, h, D), NEW k, AddsUp(k, g, SUBSET S)
  PROVE  f[S] = k[S]
<1> DEFINE T == {s \in SUBSET S : f[s] = k[s]}
<1>1. ASSUME NEW s \in SUBSET S, \A x \in s : s \ {x} \in T
      PROVE  s \in T
  <2>0. f[s] = IF s = {} THEN 0 ELSE h[First(s)] + f[s \ {First(s)}]
    BY DEF AddsUp
  <2>1. k[s] = IF s = {} THEN 0 ELSE g[First(s)] + k[s \ {First(s)}]
    BY DEF AddsUp
  <2>2. CASE s = {}
    BY <2>0, <2>1, <2>2
  <2>3. CASE s # {}
    BY <2>0, <2>1, <2>3, <1>1, FirstIn
  <2> QED  BY <2>2, <2>3
<1> HIDE DEF T
<1>2. S \in T
  <2>1. SUBSET S \subseteq T
    BY <1>1, SubsetInduction
  <2> QED  BY <2>1
<1> QED  BY <1>2 DEF T

(* The fold's recursive function exists: it is built up by size.           *)
LEMMA SumExists ==
  ASSUME NEW h, NEW S, IsFiniteSet(S)
  PROVE  \E f : AddsUp(f, h, SUBSET S)
<1> DEFINE Small(n) == {s \in SUBSET S : Cardinality(s) <= n}
           Bad == {n \in Nat : ~ \E f : AddsUp(f, h, Small(n))}
<1>1. \A s \in SUBSET S : IsFiniteSet(s) /\ Cardinality(s) \in Nat
  BY FS_Subset, FS_CardinalityType
<1>2. \A s \in SUBSET S : Cardinality(s) = 0 <=> s = {}
  BY <1>1, FS_EmptySet
<1>3. Bad = {}
  <2>1. SUFFICES ASSUME Bad # {}  PROVE FALSE
    OBVIOUS
  <2>2. PICK n \in Bad : \A m \in Bad : n <= m
    BY <2>1, LeastNatural
  <2>3. CASE n = 0
    <3>1. Small(0) = {{}}
      BY <1>1, <1>2, SMTT(30)
    <3>2. AddsUp([s \in {{}} |-> 0], h, {{}})
      BY DEF AddsUp
    <3> QED  BY <2>2, <2>3, <3>1, <3>2
  <2>4. CASE n # 0
    <3>1. n - 1 \in Nat /\ n \in Nat
      BY <2>4
    <3>2. n - 1 \notin Bad
      <4> HIDE DEF Bad
      <4> QED  BY <2>2, <3>1
    <3>3. PICK f : AddsUp(f, h, Small(n - 1))
      BY <3>1, <3>2
    <3> DEFINE g == [s \in Small(n) |-> IF s = {} THEN 0 ELSE h[First(s)] + f[s \ {First(s)}]]
    <3>4. ASSUME NEW s \in Small(n), s # {}
          PROVE  s \ {First(s)} \in Small(n - 1)
      <4>1. Cardinality(s \ {First(s)}) = Cardinality(s) - 1
        BY <1>1, <3>4, FirstIn, FS_RemoveElement
      <4> QED  BY <1>1, <4>1, <3>1
    <3>5. ASSUME NEW s \in Small(n - 1)
          PROVE  f[s] = g[s]
      <4>1. s \in Small(n)
        BY <1>1, <3>1
      <4> QED  BY <4>1, <3>3 DEF AddsUp
    <3>6. g = [s \in Small(n) |-> IF s = {} THEN 0 ELSE h[First(s)] + g[s \ {First(s)}]]
      <4> HIDE DEF Small
      <4>1. ASSUME NEW s \in Small(n)
            PROVE  g[s] = IF s = {} THEN 0 ELSE h[First(s)] + g[s \ {First(s)}]
        BY <3>4, <3>5
      <4>2. g = [s \in Small(n) |-> g[s]]
        OBVIOUS
      <4> HIDE DEF g
      <4> QED  BY <4>1, <4>2
    <3> HIDE DEF Small, g
    <3>7. AddsUp(g, h, Small(n))
      BY <3>6 DEF AddsUp
    <3> QED  BY <2>2, <3>7
  <2> QED  BY <2>3, <2>4
<1>4. Cardinality(S) \in Nat /\ Small(Cardinality(S)) = SUBSET S
  BY <1>1, FS_Subset, FS_CardinalityType
<1> QED  BY <1>3, <1>4

(* The sum, as its recursion defines it.                                   *)
LEMMA SumAddsUp ==
  ASSUME NEW h, NEW S, IsFiniteSet(S)
  PROVE  \E f : AddsUp(f, h, SUBSET S) /\ SumFunctionOnSet(h, S) = f[S]
<1>1. SumFunctionOnSet(h, S) = (CHOOSE f : AddsUp(f, h, SUBSET S))[S]
  BY DEF SumFunctionOnSet, FoldFunctionOnSet, MapThenFoldSet, AddsUp, First
<1> QED  BY <1>1, SumExists

(* Sums of equal values are equal.                                         *)
LEMMA SumSame ==
  ASSUME NEW h, NEW g, NEW S, IsFiniteSet(S), \A x \in S : h[x] = g[x]
  PROVE  SumFunctionOnSet(h, S) = SumFunctionOnSet(g, S)
<1>1. PICK f : AddsUp(f, h, SUBSET S) /\ SumFunctionOnSet(h, S) = f[S]
  BY SumAddsUp
<1>2. PICK k : AddsUp(k, g, SUBSET S) /\ SumFunctionOnSet(g, S) = k[S]
  BY SumAddsUp
<1>3. f[S] = k[S]
  BY <1>1, <1>2, AddsUpUnique
<1> QED  BY <1>1, <1>2, <1>3

LEMMA SumEmpty == ASSUME NEW h  PROVE SumFunctionOnSet(h, {}) = 0
<1>1. PICK f : AddsUp(f, h, SUBSET {}) /\ SumFunctionOnSet(h, {}) = f[{}]
  BY SumAddsUp, FS_EmptySet
<1> QED  BY <1>1 DEF AddsUp

LEMMA SumStep ==
  ASSUME NEW h, NEW S, IsFiniteSet(S), S # {}
  PROVE  SumFunctionOnSet(h, S) = h[First(S)] + SumFunctionOnSet(h, S \ {First(S)})
<1> DEFINE R == S \ {First(S)}
<1>1. PICK f : AddsUp(f, h, SUBSET S) /\ SumFunctionOnSet(h, S) = f[S]
  BY SumAddsUp
<1>2. IsFiniteSet(R) /\ SUBSET R \subseteq SUBSET S
  BY FS_Subset
<1> HIDE DEF R
<1>3. PICK k : AddsUp(k, h, SUBSET R) /\ SumFunctionOnSet(h, R) = k[R]
  BY <1>2, SumAddsUp
<1>4. f[R] = k[R]
  <2>1. AddsUp(f, h, SUBSET S) /\ AddsUp(k, h, SUBSET R)
    BY <1>1, <1>3
  <2>2. \A x \in R : h[x] = h[x]
    OBVIOUS
  <2> QED  BY <2>1, <1>2, <2>2, AddsUpUnique
<1>5. f[S] = h[First(S)] + f[R]
  BY <1>1 DEF AddsUp, R
<1> QED  BY <1>1, <1>3, <1>4, <1>5 DEF R

LEMMA SumInt ==
  ASSUME NEW h, NEW S, IsFiniteSet(S), \A x \in S : h[x] \in Int
  PROVE  SumFunctionOnSet(h, S) \in Int
<1> DEFINE T == {s \in SUBSET S : SumFunctionOnSet(h, s) \in Int}
<1>1. ASSUME NEW s \in SUBSET S, \A x \in s : s \ {x} \in T
      PROVE  s \in T
  <2>1. CASE s = {}
    BY <2>1, SumEmpty
  <2>2. CASE s # {}
    <3>1. SumFunctionOnSet(h, s) = h[First(s)] + SumFunctionOnSet(h, s \ {First(s)})
      BY <2>2, SumStep, FS_Subset
    <3>2. First(s) \in s
      BY <2>2, FirstIn
    <3> QED  BY <1>1, <3>1, <3>2
  <2> QED  BY <2>1, <2>2
<1> HIDE DEF T
<1>2. SUBSET S \subseteq T
  BY <1>1, SubsetInduction
<1> QED  BY <1>2 DEF T

(* Any element may be added first.                                         *)
LEMMA SumRemove ==
  ASSUME NEW h, NEW S, IsFiniteSet(S), \A x \in S : h[x] \in Int, NEW x \in S
  PROVE  SumFunctionOnSet(h, S) = h[x] + SumFunctionOnSet(h, S \ {x})
<1> DEFINE T == {s \in SUBSET S : \A y \in s :
                   SumFunctionOnSet(h, s) = h[y] + SumFunctionOnSet(h, s \ {y})}
<1>1. ASSUME NEW s \in SUBSET S, \A y \in s : s \ {y} \in T
      PROVE  s \in T
  <2>0. SUFFICES ASSUME NEW y \in s
                 PROVE  SumFunctionOnSet(h, s) = h[y] + SumFunctionOnSet(h, s \ {y})
    OBVIOUS
  <2> DEFINE z == First(s)
  <2>1. z \in s /\ SumFunctionOnSet(h, s) = h[z] + SumFunctionOnSet(h, s \ {z})
    BY SumStep, FS_Subset, FirstIn
  <2> HIDE DEF z
  <2>2. CASE y = z
    BY <2>1, <2>2
  <2>3. CASE y # z
    <3>1. SumFunctionOnSet(h, s \ {z}) = h[y] + SumFunctionOnSet(h, (s \ {z}) \ {y})
      BY <1>1, <2>1, <2>3
    <3>2. SumFunctionOnSet(h, s \ {y}) = h[z] + SumFunctionOnSet(h, (s \ {y}) \ {z})
      BY <1>1, <2>1, <2>3
    <3>3. (s \ {z}) \ {y} = (s \ {y}) \ {z}
      OBVIOUS
    <3>4. IsFiniteSet((s \ {y}) \ {z})
      BY FS_Subset
    <3>5. SumFunctionOnSet(h, (s \ {y}) \ {z}) \in Int
      BY <3>4, SumInt
    <3>6. h[y] \in Int /\ h[z] \in Int
      BY <2>1
    <3> DEFINE R == SumFunctionOnSet(h, (s \ {y}) \ {z})
    <3>7. SumFunctionOnSet(h, s \ {z}) = h[y] + R /\ SumFunctionOnSet(h, s \ {y}) = h[z] + R /\ R \in Int
      BY <3>1, <3>2, <3>3, <3>5
    <3> HIDE DEF R
    <3> QED  BY <2>1, <3>6, <3>7
  <2> QED  BY <2>2, <2>3
<1> HIDE DEF T
<1>2. SUBSET S \subseteq T
  BY <1>1, SubsetInduction
<1> QED  BY <1>2 DEF T

(* One value changes, and the sum by as much.                              *)
LEMMA SumUpdate ==
  ASSUME NEW h, NEW g, NEW S, IsFiniteSet(S), NEW x \in S,
         \A y \in S : h[y] \in Int, g[x] \in Int,
         \A y \in S \ {x} : g[y] = h[y]
  PROVE  SumFunctionOnSet(g, S) = SumFunctionOnSet(h, S) - h[x] + g[x]
<1>1. \A y \in S : g[y] \in Int
  OBVIOUS
<1>2. /\ SumFunctionOnSet(h, S) = h[x] + SumFunctionOnSet(h, S \ {x})
      /\ SumFunctionOnSet(g, S) = g[x] + SumFunctionOnSet(g, S \ {x})
  BY <1>1, SumRemove
<1>3. IsFiniteSet(S \ {x})
  BY FS_Subset
<1>4. /\ SumFunctionOnSet(h, S \ {x}) = SumFunctionOnSet(g, S \ {x})
      /\ SumFunctionOnSet(h, S \ {x}) \in Int
  BY <1>3, SumSame, SumInt
<1> QED  BY <1>2, <1>4

(* A sum of smaller values is smaller.                                     *)
LEMMA SumLeq ==
  ASSUME NEW h, NEW g, NEW S, IsFiniteSet(S),
         \A x \in S : h[x] \in Int /\ g[x] \in Int /\ h[x] <= g[x]
  PROVE  SumFunctionOnSet(h, S) <= SumFunctionOnSet(g, S)
<1> DEFINE T == {s \in SUBSET S : SumFunctionOnSet(h, s) <= SumFunctionOnSet(g, s)}
<1>1. ASSUME NEW s \in SUBSET S, \A x \in s : s \ {x} \in T
      PROVE  s \in T
  <2>1. CASE s = {}
    BY <2>1, SumEmpty
  <2>2. CASE s # {}
    <3> DEFINE x == First(s)
               r == s \ {x}
    <3>1. x \in s /\ x \in S
      BY <2>2, FirstIn
    <3>2. IsFiniteSet(s) /\ IsFiniteSet(r) /\ r \in SUBSET S
      BY FS_Subset
    <3>3. SumFunctionOnSet(h, r) <= SumFunctionOnSet(g, r)
      BY <1>1, <3>1
    <3>4. /\ SumFunctionOnSet(h, s) = h[x] + SumFunctionOnSet(h, r)
          /\ SumFunctionOnSet(g, s) = g[x] + SumFunctionOnSet(g, r)
      BY <2>2, <3>2, SumStep
    <3> HIDE DEF x, r
    <3>5. SumFunctionOnSet(h, r) \in Int /\ SumFunctionOnSet(g, r) \in Int
      BY <3>2, SumInt
    <3>6. h[x] \in Int /\ g[x] \in Int /\ h[x] <= g[x]
      BY <3>1
    <3> QED  BY <3>3, <3>4, <3>5, <3>6
  <2> QED  BY <2>1, <2>2
<1> HIDE DEF T
<1>2. SUBSET S \subseteq T
  BY <1>1, SubsetInduction
<1> QED  BY <1>2 DEF T
=============================================================================
