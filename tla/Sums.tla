-------------------------------- MODULE Sums --------------------------------
(***************************************************************************)
(* Facts about sums over finite sets, FoldFunctionOnSet with +, in which   *)
(* the models state totals.  The library folds in an unspecified order;    *)
(* the sum of integers does not depend on it.                              *)
(***************************************************************************)
EXTENDS Integers, FiniteSets, Functions, FiniteSetTheorems, WellFoundedInduction, TLAPS

Sum(f, S) == FoldFunctionOnSet(+, 0, f, S)

\* Every set of natural numbers has a least element.
LEMMA LeastNumber ==
    ASSUME NEW N \in SUBSET Nat, N # {}
    PROVE  \E n \in N : \A m \in N : n <= m
<1> DEFINE R == {ss \in Nat \X Nat : ss[1] < ss[2]}
<1>1. R = OpToRel(<, Nat)
    BY DEF OpToRel
<1>2. IsWellFoundedOn(R, Nat)
    BY <1>1, NatLessThanWellFounded, Zenon
<1> HIDE DEF R
<1>3. PICK n \in N : \A m \in N : <<m, n>> \notin R
    BY <1>2, WFMin
<1>4. \A m \in N : ~(m < n)
    BY <1>3 DEF R
<1> QED
    BY <1>4

\* Induction over the subsets of a finite set: what holds of a set whenever it
\* holds of the set without any one of its elements, holds of all.
LEMMA SubsetInduction ==
    ASSUME NEW S, IsFiniteSet(S), NEW Good,
           \A T \in SUBSET S : (\A x \in T : T \ {x} \in Good) => T \in Good
    PROVE  SUBSET S \subseteq Good
<1> SUFFICES ASSUME NEW U \in SUBSET S, U \notin Good PROVE FALSE
    OBVIOUS
<1> DEFINE N == {Cardinality(T) : T \in (SUBSET S) \ Good}
<1>1. \A T \in SUBSET S : IsFiniteSet(T) /\ Cardinality(T) \in Nat
    BY FS_Subset, FS_CardinalityType
<1>2. N \in SUBSET Nat /\ N # {}
    BY <1>1
<1> HIDE DEF N
<1>3. PICK n \in N : \A m \in N : n <= m
    BY <1>2, LeastNumber
<1>4. PICK T \in (SUBSET S) \ Good : Cardinality(T) = n
    BY <1>3 DEF N
<1>5. ASSUME NEW x \in T, T \ {x} \notin Good PROVE FALSE
    <2>1. Cardinality(T \ {x}) = Cardinality(T) - 1
        BY <1>1, FS_RemoveElement
    <2>2. Cardinality(T \ {x}) \in N
        BY <1>5 DEF N
    <2> QED
        BY <1>1, <1>3, <1>4, <2>1, <2>2
<1> QED
    BY <1>4, <1>5
------------------------------------------------------------------------------
(* The recursive function inside of the fold *)

First(T) == CHOOSE x \in T : TRUE
Body(f, g, T) == IF T = {} THEN 0 ELSE f[First(T)] + g[T \ {First(T)}]
Iter(f, S) == CHOOSE g : g = [T \in SUBSET S |-> Body(f, g, T)]

\* The sum is what the library computes.
LEMMA SumIsIter == ASSUME NEW f, NEW S PROVE Sum(f, S) = Iter(f, S)[S]
BY DEF Sum, FoldFunctionOnSet, MapThenFoldSet, Iter, Body, First

LEMMA FirstIn == \A T : T # {} => First(T) \in T
BY DEF First

\* The recursive function exists.
LEMMA IterExists ==
    ASSUME NEW f, NEW S, IsFiniteSet(S)
    PROVE  \A T \in SUBSET S : Iter(f, S)[T] = Body(f, Iter(f, S), T)
<1> DEFINE Small(n) == {T \in SUBSET S : Cardinality(T) <= n}
           Bad == {n \in Nat : ~ \E g : g = [T \in Small(n) |-> Body(f, g, T)]}
<1>1. \A T \in SUBSET S : IsFiniteSet(T) /\ Cardinality(T) \in Nat /\ Cardinality(T) <= Cardinality(S)
    BY FS_Subset, FS_CardinalityType
<1>2. ASSUME NEW n \in Bad, \A m \in Bad : n <= m PROVE FALSE
    <2>1. n \in Nat
        OBVIOUS
    <2>2. CASE n = 0
        <3> DEFINE g == [T \in Small(0) |-> 0]
        <3>1. \A T \in Small(0) : T = {}
            BY <1>1, FS_EmptySet
        <3>2. g = [T \in Small(0) |-> Body(f, g, T)]
            BY <3>1 DEF Body
        <3> QED
            BY <2>2, <3>2
    <2>3. CASE n # 0
        <3>1. n - 1 \in Nat /\ n - 1 \notin Bad
            <4> HIDE DEF Bad
            <4> QED
                BY <2>1, <2>3, <1>2
        <3>2. PICK g : g = [T \in Small(n - 1) |-> Body(f, g, T)]
            BY <3>1
        <3> DEFINE h == [T \in Small(n) |-> IF T \in Small(n - 1) THEN g[T] ELSE Body(f, g, T)]
        <3>3. ASSUME NEW T \in Small(n) PROVE h[T] = Body(f, h, T)
            <4>1. h[T] = Body(f, g, T)
                BY <3>2
            <4>2. CASE T = {}
                BY <4>1, <4>2 DEF Body
            <4>3. CASE T # {}
                <5> DEFINE U == T \ {First(T)}
                <5>1. Cardinality(U) = Cardinality(T) - 1
                    BY <4>3, <1>1, FirstIn, FS_RemoveElement
                <5>2. U \in Small(n - 1) /\ U \in Small(n)
                    BY <5>1, <1>1, <2>1
                <5>3. h[U] = g[U]
                    BY <5>2
                <5> QED
                    BY <4>1, <4>3, <5>3 DEF Body
            <4> QED
                BY <4>2, <4>3
        <3>4. h = [T \in Small(n) |-> Body(f, h, T)]
            BY <3>3
        <3> QED
            BY <3>4
    <2> QED
        BY <2>2, <2>3
<1>3. Bad = {}
    <2> SUFFICES ASSUME Bad # {} PROVE FALSE
        OBVIOUS
    <2>1. Bad \in SUBSET Nat
        OBVIOUS
    <2> HIDE DEF Bad
    <2> QED
        BY <1>2, <2>1, LeastNumber
<1>4. Cardinality(S) \in Nat /\ Small(Cardinality(S)) = SUBSET S
    BY <1>1
<1>5. PICK g : g = [T \in Small(Cardinality(S)) |-> Body(f, g, T)]
    BY <1>3, <1>4
<1>6. g = [T \in SUBSET S |-> Body(f, g, T)]
    BY <1>4, <1>5, Zenon
<1> DEFINE h == Iter(f, S)
<1>7. h = [T \in SUBSET S |-> Body(f, h, T)]
    BY <1>6, Zenon DEF Iter
<1> HIDE DEF h
<1>8. \A T \in SUBSET S : h[T] = Body(f, h, T)
    BY <1>7
<1> QED
    BY <1>8 DEF h

\* Its value on a set does not depend on the set around it.
LEMMA IterLocal ==
    ASSUME NEW f, NEW S, IsFiniteSet(S), NEW U \in SUBSET S
    PROVE  Iter(f, U)[U] = Iter(f, S)[U]
<1> DEFINE Good == {T \in SUBSET S : T \in SUBSET U => Iter(f, U)[T] = Iter(f, S)[T]}
<1>1. IsFiniteSet(U)
    BY FS_Subset
<1>2. ASSUME NEW T \in SUBSET S, \A x \in T : T \ {x} \in Good, T \in SUBSET U
      PROVE  Iter(f, U)[T] = Iter(f, S)[T]
    <2>1. Iter(f, U)[T] = Body(f, Iter(f, U), T) /\ Iter(f, S)[T] = Body(f, Iter(f, S), T)
        BY <1>1, <1>2, IterExists
    <2>2. T # {} => Iter(f, U)[T \ {First(T)}] = Iter(f, S)[T \ {First(T)}]
        BY <1>2, FirstIn
    <2> QED
        BY <2>1, <2>2 DEF Body
<1>3. \A T \in SUBSET S : (\A x \in T : T \ {x} \in Good) => T \in Good
    BY <1>2
<1> HIDE DEF Good
<1>4. SUBSET S \subseteq Good
    BY <1>3, SubsetInduction
<1> QED
    BY <1>4 DEF Good
------------------------------------------------------------------------------
(* Sums *)

LEMMA SumEmpty == ASSUME NEW f PROVE Sum(f, {}) = 0
<1>1. IsFiniteSet({})
    BY FS_EmptySet
<1>2. Iter(f, {})[{}] = Body(f, Iter(f, {}), {})
    BY <1>1, IterExists
<1> QED
    BY <1>2, SumIsIter DEF Body

LEMMA SumFirst ==
    ASSUME NEW f, NEW S, IsFiniteSet(S), S # {}
    PROVE  First(S) \in S /\ Sum(f, S) = f[First(S)] + Sum(f, S \ {First(S)})
<1> DEFINE U == S \ {First(S)}
<1>1. Iter(f, S)[S] = Body(f, Iter(f, S), S)
    BY IterExists
<1>2. Iter(f, U)[U] = Iter(f, S)[U]
    BY IterLocal
<1> QED
    BY <1>1, <1>2, SumIsIter, FirstIn DEF Body

LEMMA SumInteger ==
    ASSUME NEW f, NEW S, IsFiniteSet(S), \A x \in S : f[x] \in Int
    PROVE  Sum(f, S) \in Int
<1> DEFINE Good == {T \in SUBSET S : Sum(f, T) \in Int}
<1>1. ASSUME NEW T \in SUBSET S, \A x \in T : T \ {x} \in Good PROVE T \in Good
    <2>1. IsFiniteSet(T)
        BY FS_Subset
    <2>2. CASE T = {}
        BY <2>2, SumEmpty
    <2>3. CASE T # {}
        <3>1. First(T) \in T /\ Sum(f, T) = f[First(T)] + Sum(f, T \ {First(T)})
            BY <2>1, <2>3, SumFirst
        <3> QED
            BY <3>1, <1>1
    <2> QED
        BY <2>2, <2>3
<1> HIDE DEF Good
<1>2. SUBSET S \subseteq Good
    BY <1>1, SubsetInduction
<1> QED
    BY <1>2 DEF Good

\* Any element may be taken first.
LEMMA SumRemove ==
    ASSUME NEW f, NEW S, IsFiniteSet(S), \A x \in S : f[x] \in Int, NEW y \in S
    PROVE  Sum(f, S) = f[y] + Sum(f, S \ {y})
<1> DEFINE Removes(T, z) == Sum(f, T) = f[z] + Sum(f, T \ {z})
           Good == {T \in SUBSET S : \A z \in T : Removes(T, z)}
<1>1. ASSUME NEW T \in SUBSET S, \A x \in T : T \ {x} \in Good, NEW x \in T
      PROVE  Removes(T, x)
    <2>1. IsFiniteSet(T)
        BY FS_Subset
    <2>2. PICK z \in T : Removes(T, z)
        <3>1. First(T) \in T /\ Removes(T, First(T))
            BY <1>1, <2>1, SumFirst
        <3> HIDE DEF Removes
        <3> QED
            BY <3>1
    <2>3. CASE z = x
        BY <2>2, <2>3
    <2>4. CASE z # x
        <3> DEFINE rest == (T \ {x}) \ {z}
        <3>1. Sum(f, T \ {x}) = f[z] + Sum(f, rest)
            BY <1>1, <2>4
        <3>2. (T \ {z}) \ {x} = rest
            OBVIOUS
        <3>3. Sum(f, T \ {z}) = f[x] + Sum(f, rest)
            BY <1>1, <2>4, <3>2
        <3>4. IsFiniteSet(rest) /\ \A c \in rest : f[c] \in Int
            BY <2>1, FS_Subset
        <3>5. Sum(f, rest) \in Int /\ f[x] \in Int /\ f[z] \in Int
            BY <3>4, SumInteger
        <3> HIDE DEF rest
        <3> QED
            BY <2>2, <3>1, <3>3, <3>5
    <2> QED
        BY <2>3, <2>4
<1>2. \A T \in SUBSET S : (\A x \in T : T \ {x} \in Good) => T \in Good
    BY <1>1
<1> HIDE DEF Good
<1>3. SUBSET S \subseteq Good
    BY <1>2, SubsetInduction
<1> QED
    BY <1>3 DEF Good

\* A sum is at most another one if it is element by element; an element that a
\* sum leaves out counts as zero.
LEMMA SumCompare ==
    ASSUME NEW f, NEW g, NEW A, NEW B, IsFiniteSet(A), IsFiniteSet(B),
           \A x \in A : f[x] \in Int, \A x \in B : g[x] \in Int,
           \A x \in A \cup B : (IF x \in A THEN f[x] ELSE 0) <= (IF x \in B THEN g[x] ELSE 0)
    PROVE  Sum(f, A) <= Sum(g, B)
<1> DEFINE S == A \cup B
           Good == {T \in SUBSET S : Sum(f, T \cap A) <= Sum(g, T \cap B)}
<1>1. IsFiniteSet(S)
    BY FS_Union
<1>2. \A T \in SUBSET S : IsFiniteSet(T \cap A) /\ IsFiniteSet(T \cap B)
    BY FS_Subset
\* Taking x from T takes n from the sum of h over the part of T in R.
<1>3. ASSUME NEW T \in SUBSET S, NEW x \in T, NEW h, NEW R \in SUBSET S, IsFiniteSet(R),
             \A c \in R : h[c] \in Int
      PROVE  /\ Sum(h, T \cap R) = (IF x \in R THEN h[x] ELSE 0) + Sum(h, (T \ {x}) \cap R)
             /\ Sum(h, (T \ {x}) \cap R) \in Int
    <2>1. IsFiniteSet(T \cap R) /\ IsFiniteSet((T \ {x}) \cap R)
        BY <1>3, FS_Subset
    <2>2. Sum(h, (T \ {x}) \cap R) \in Int
        BY <1>3, <2>1, SumInteger
    <2>3. CASE x \in R
        <3>1. x \in T \cap R /\ (T \cap R) \ {x} = (T \ {x}) \cap R
            BY <2>3
        <3>2. Sum(h, T \cap R) = h[x] + Sum(h, (T \ {x}) \cap R)
            BY <1>3, <2>1, <3>1, SumRemove
        <3> QED
            BY <2>2, <2>3, <3>2
    <2>4. CASE x \notin R
        <3>1. T \cap R = (T \ {x}) \cap R
            BY <2>4
        <3>2. Sum(h, T \cap R) = Sum(h, (T \ {x}) \cap R)
            BY <3>1, Zenon
        <3> QED
            BY <2>2, <2>4, <3>2
    <2> QED
        BY <2>3, <2>4
<1>4. ASSUME NEW T \in SUBSET S, \A x \in T : T \ {x} \in Good
      PROVE  Sum(f, T \cap A) <= Sum(g, T \cap B)
    <2>1. CASE T = {}
        <3>1. T \cap A = {} /\ T \cap B = {}
            BY <2>1
        <3>2. Sum(f, {}) <= Sum(g, {})
            BY SumEmpty
        <3> QED
            BY <3>1, <3>2, Zenon
    <2>2. ASSUME NEW x \in T PROVE Sum(f, T \cap A) <= Sum(g, T \cap B)
        <3> DEFINE fx == IF x \in A THEN f[x] ELSE 0
                   gx == IF x \in B THEN g[x] ELSE 0
                   sf == Sum(f, (T \ {x}) \cap A)
                   sg == Sum(g, (T \ {x}) \cap B)
        <3>1. Sum(f, T \cap A) = fx + sf /\ sf \in Int
            BY <1>3
        <3>2. Sum(g, T \cap B) = gx + sg /\ sg \in Int
            BY <1>3
        <3>3. sf <= sg
            BY <1>4
        <3>4. fx \in Int /\ gx \in Int /\ fx <= gx
            OBVIOUS
        <3> HIDE DEF fx, gx, sf, sg
        <3> QED
            BY <3>1, <3>2, <3>3, <3>4
    <2> QED
        BY <2>1, <2>2
<1>5. \A T \in SUBSET S : (\A x \in T : T \ {x} \in Good) => T \in Good
    BY <1>4
<1>6. S \cap A = A /\ S \cap B = B
    OBVIOUS
<1> HIDE DEF Good, S
<1>7. SUBSET S \subseteq Good
    BY <1>1, <1>5, SubsetInduction
<1>8. S \in Good
    BY <1>7
<1>9. Sum(f, S \cap A) <= Sum(g, S \cap B)
    BY <1>8 DEF Good
<1> QED
    BY <1>6, <1>9

\* Functions that agree on a set have the same sum over it.
LEMMA SumSame ==
    ASSUME NEW f, NEW g, NEW S, IsFiniteSet(S), \A x \in S : f[x] \in Int /\ f[x] = g[x]
    PROVE  Sum(f, S) = Sum(g, S) /\ Sum(f, S) \in Int
<1>1. \A x \in S : f[x] \in Int /\ g[x] \in Int /\ f[x] <= g[x] /\ g[x] <= f[x]
    OBVIOUS
<1>2. Sum(f, S) \in Int /\ Sum(g, S) \in Int
    BY <1>1, SumInteger
<1>3. Sum(f, S) <= Sum(g, S)
    BY <1>1, SumCompare
<1>4. Sum(g, S) <= Sum(f, S)
    BY <1>1, SumCompare
<1> QED
    BY <1>2, <1>3, <1>4

\* What is zero may be left out.
LEMMA SumSupport ==
    ASSUME NEW f, NEW g, NEW B, IsFiniteSet(B), NEW A \in SUBSET B, \A x \in B : f[x] \in Int,
           \A x \in A : g[x] = f[x], \A x \in B \ A : f[x] = 0
    PROVE  Sum(g, A) = Sum(f, B)
<1>1. IsFiniteSet(A) /\ \A x \in A : g[x] \in Int
    BY FS_Subset
<1>2. \A x \in A \cup B : /\ (IF x \in A THEN g[x] ELSE 0) <= (IF x \in B THEN f[x] ELSE 0)
                          /\ (IF x \in B THEN f[x] ELSE 0) <= (IF x \in A THEN g[x] ELSE 0)
    OBVIOUS
<1>3. Sum(g, A) <= Sum(f, B)
    BY <1>1, <1>2, SumCompare
<1>4. \A x \in B \cup A : (IF x \in B THEN f[x] ELSE 0) <= (IF x \in A THEN g[x] ELSE 0)
    BY <1>2
<1>5. Sum(f, B) <= Sum(g, A)
    BY <1>1, <1>4, SumCompare
<1> QED
    BY <1>1, <1>3, <1>5, SumInteger

\* The sum of zeros, and of natural numbers.
LEMMA SumZero ==
    ASSUME NEW f, NEW S, IsFiniteSet(S), \A x \in S : f[x] = 0
    PROVE  Sum(f, S) = 0
<1>1. \A x \in S : f[x] \in Int /\ f[x] <= f[x]
    OBVIOUS
<1> DEFINE Good == {T \in SUBSET S : Sum(f, T) = 0}
<1>2. \A T \in SUBSET S : (\A x \in T : T \ {x} \in Good) => T \in Good
    <2> SUFFICES ASSUME NEW T \in SUBSET S, \A x \in T : T \ {x} \in Good PROVE Sum(f, T) = 0
        OBVIOUS
    <2>1. CASE T = {}
        BY <2>1, SumEmpty
    <2>2. CASE T # {}
        <3>1. IsFiniteSet(T)
            BY FS_Subset
        <3>2. First(T) \in T /\ Sum(f, T) = f[First(T)] + Sum(f, T \ {First(T)})
            BY <2>2, <3>1, SumFirst
        <3> QED
            BY <3>2
    <2> QED
        BY <2>1, <2>2
<1> HIDE DEF Good
<1>3. SUBSET S \subseteq Good
    BY <1>2, SubsetInduction
<1> QED
    BY <1>3 DEF Good

LEMMA SumNatural ==
    ASSUME NEW f, NEW S, IsFiniteSet(S), \A x \in S : f[x] \in Nat
    PROVE  Sum(f, S) \in Nat
<1>1. IsFiniteSet({}) /\ \A x \in S : f[x] \in Int /\ 0 <= f[x]
    BY FS_EmptySet
<1>2. Sum(f, {}) <= Sum(f, S)
    BY <1>1, SumCompare
<1> QED
    BY <1>1, <1>2, SumEmpty, SumInteger

\* One positive number makes a sum of natural numbers positive.
LEMMA SumPositive ==
    ASSUME NEW f, NEW S, IsFiniteSet(S), \A x \in S : f[x] \in Nat, NEW y \in S, f[y] > 0
    PROVE  Sum(f, S) > 0
<1>1. IsFiniteSet(S \ {y}) /\ \A x \in S : f[x] \in Int
    BY FS_RemoveElement
<1>2. Sum(f, S) = f[y] + Sum(f, S \ {y})
    BY <1>1, SumRemove
<1>3. Sum(f, S \ {y}) \in Nat
    BY <1>1, SumNatural
<1> QED
    BY <1>2, <1>3

\* The parts of a set that a key tells apart add up to the set.
LEMMA SumParts ==
    ASSUME NEW K, IsFiniteSet(K), NEW L, IsFiniteSet(L), NEW key \in [L -> K], NEW f,
           \A k \in K : f[k] = Cardinality({x \in L : key[x] = k})
    PROVE  Sum(f, K) = Cardinality(L)
<1> DEFINE Own(k) == {x \in L : key[x] = k}
           Part(T) == {x \in L : key[x] \in T}
           Good == {T \in SUBSET K : Sum(f, T) = Cardinality(Part(T))}
<1>1. \A k : IsFiniteSet(Own(k)) /\ Cardinality(Own(k)) \in Nat
    BY FS_Subset, FS_CardinalityType
<1>2. \A T : IsFiniteSet(Part(T)) /\ Cardinality(Part(T)) \in Nat
    BY FS_Subset, FS_CardinalityType
<1>3. \A k \in K : f[k] \in Int /\ f[k] = Cardinality(Own(k))
    BY <1>1
<1>4. ASSUME NEW T \in SUBSET K, \A k \in T : T \ {k} \in Good
      PROVE  Sum(f, T) = Cardinality(Part(T))
    <2>1. CASE T = {}
        <3>1. Part(T) = {}
            BY <2>1
        <3> QED
            BY <2>1, <3>1, SumEmpty, FS_EmptySet
    <2>2. ASSUME NEW k \in T PROVE Sum(f, T) = Cardinality(Part(T))
        <3> DEFINE own == Own(k)
                   rest == Part(T \ {k})
        <3>1. IsFiniteSet(T) /\ \A x \in T : f[x] \in Int
            BY <1>3, FS_Subset
        <3>2. Sum(f, T) = f[k] + Sum(f, T \ {k})
            BY <3>1, SumRemove
        <3>3. Sum(f, T \ {k}) = Cardinality(rest)
            BY <1>4
        <3>4. Part(T) = own \cup rest /\ own \cap rest = {}
            OBVIOUS
        <3>5. /\ IsFiniteSet(own) /\ Cardinality(own) \in Nat /\ f[k] = Cardinality(own)
              /\ IsFiniteSet(rest) /\ Cardinality(rest) \in Nat
            BY <1>1, <1>2, <1>3
        <3> HIDE DEF own, rest, Own, Part
        <3>6. Cardinality(own \cup rest) = Cardinality(own) + Cardinality(rest)
                                           - Cardinality(own \cap rest)
            BY <3>5, FS_Union
        <3>7. Cardinality(own \cap rest) = 0 /\ Cardinality(Part(T)) = Cardinality(own \cup rest)
            BY <3>4, FS_EmptySet, Zenon
        <3> QED
            BY <3>2, <3>3, <3>5, <3>6, <3>7
    <2> QED
        BY <2>1, <2>2
<1>5. \A T \in SUBSET K : (\A k \in T : T \ {k} \in Good) => T \in Good
    BY <1>4
<1>6. Part(K) = L
    OBVIOUS
<1> HIDE DEF Good, Part
<1>7. K \in Good
    BY <1>5, SubsetInduction
<1> QED
    BY <1>6, <1>7 DEF Good

\* One element of a sum grows by one.
LEMMA SumRaised ==
    ASSUME NEW f, NEW g, NEW d, NEW S, IsFiniteSet(S), \A x \in S : f[x] \in Int,
           \A x \in S \ {d} : g[x] = f[x], d \in S => g[d] = f[d] + 1
    PROVE  Sum(g, S) = Sum(f, S) + (IF d \in S THEN 1 ELSE 0) /\ Sum(f, S) \in Int
<1>1. Sum(f, S) \in Int
    BY SumInteger
<1>2. CASE d \notin S
    <2>1. \A x \in S : f[x] \in Int /\ f[x] = g[x]
        BY <1>2
    <2>2. Sum(f, S) = Sum(g, S)
        BY <2>1, SumSame, Zenon
    <2> QED
        BY <1>1, <1>2, <2>2
<1>3. CASE d \in S
    <2> DEFINE rest == S \ {d}
    <2>1. \A x \in S : g[x] \in Int
        BY <1>3
    <2>2. Sum(f, S) = f[d] + Sum(f, rest)
        BY <1>3, SumRemove
    <2>3. Sum(g, S) = g[d] + Sum(g, rest)
        BY <1>3, <2>1, SumRemove
    <2>4. IsFiniteSet(rest) /\ \A x \in rest : f[x] \in Int /\ f[x] = g[x]
        BY FS_Subset
    <2> HIDE DEF rest
    <2>5. Sum(f, rest) = Sum(g, rest) /\ Sum(f, rest) \in Int
        BY <2>4, SumSame, Zenon
    <2> QED
        BY <1>1, <1>3, <2>2, <2>3, <2>5
<1> QED
    BY <1>2, <1>3

\* A sum over other names of the same elements.
LEMMA SumRenamed ==
    ASSUME NEW k, NEW f, NEW g, NEW S, IsFiniteSet(S),
           \A x \in S : g[x] \in Int /\ f[k[x]] = g[x],
           \A x, y \in S : k[x] = k[y] => x = y
    PROVE  Sum(f, {k[x] : x \in S}) = Sum(g, S)
<1> DEFINE Good == {T \in SUBSET S : LET names == {k[x] : x \in T}
                                     IN  IsFiniteSet(names) /\ Sum(f, names) = Sum(g, T)}
<1>1. ASSUME NEW T \in SUBSET S, \A x \in T : T \ {x} \in Good PROVE T \in Good
    <2> DEFINE names == {k[x] : x \in T}
    <2>1. CASE T = {}
        <3>1. names = {}
            BY <2>1
        <3>2. IsFiniteSet(names) /\ Sum(f, names) = Sum(g, T)
            BY <2>1, <3>1, SumEmpty, FS_EmptySet
        <3> QED
            BY <3>2
    <2>2. ASSUME NEW x \in T PROVE T \in Good
        <3> DEFINE fewer == {k[z] : z \in T \ {x}}
                   y == k[x]
        <3>1. y \in names /\ names = fewer \cup {y} /\ fewer = names \ {y}
            OBVIOUS
        <3>2. f[y] = g[x] /\ (\A z \in names : f[z] \in Int) /\ (\A z \in T : g[z] \in Int)
            OBVIOUS
        <3>3. IsFiniteSet(fewer) /\ Sum(f, fewer) = Sum(g, T \ {x})
            BY <1>1
        <3> HIDE DEF names, fewer, y, Good
        <3>4. IsFiniteSet(names)
            BY <3>1, <3>3, FS_AddElement
        <3>5. Sum(f, names) = f[y] + Sum(f, fewer)
            <4>1. Sum(f, names) = f[y] + Sum(f, names \ {y})
                BY <3>1, <3>2, <3>4, SumRemove
            <4> QED
                BY <3>1, <4>1
        <3>6. Sum(g, T) = g[x] + Sum(g, T \ {x})
            <4>1. IsFiniteSet(T)
                BY FS_Subset
            <4> QED
                BY <3>2, <4>1, SumRemove
        <3>7. IsFiniteSet(names) /\ Sum(f, names) = Sum(g, T)
            BY <3>2, <3>3, <3>4, <3>5, <3>6
        <3> QED
            BY <3>7 DEF names, Good
    <2> QED
        BY <2>1, <2>2
<1> HIDE DEF Good
<1>2. SUBSET S \subseteq Good
    BY <1>1, SubsetInduction
<1> QED
    BY <1>2 DEF Good
=============================================================================
