------------------------------ MODULE SumTheorems ------------------------------
(***************************************************************************)
(* Sums of a function's values over a finite set, as SumFunctionOnSet of   *)
(* the community modules defines them: a fold that picks one element after *)
(* another.  The library's induction theorems take an operator; here the   *)
(* induction is over sets: what is to be shown of every subset is written  *)
(* as the set of the subsets of which it holds.                            *)
(***************************************************************************)
EXTENDS Integers, Functions, FiniteSets, FiniteSetTheorems, WellFoundedInduction, TLAPS

(* Induction.                                                              *)

\* A set that has 0, and with a natural number the next one, has them all.
LEMMA NaturalsIn ==
    ASSUME NEW G, 0 \in G, \A n \in Nat : n \in G => n + 1 \in G
    PROVE  Nat \subseteq G
<1> DEFINE B == Nat \ G
<1> SUFFICES ASSUME B # {} PROVE FALSE
    OBVIOUS
<1>1. PICK n \in B : \A m \in B : ~(<<m, n>> \in OpToRel(<, Nat))
    <2>1. B \subseteq Nat
        OBVIOUS
    <2> HIDE DEF B
    <2> QED
        BY <2>1, NatLessThanWellFounded, WFMin
<1>2. \A m \in B : ~(m < n)
    BY <1>1 DEF OpToRel
<1>3. n \in Nat /\ n \notin G
    OBVIOUS
<1>4. n - 1 \in Nat /\ n - 1 < n
    BY <1>3
<1>5. n - 1 \in G
    BY <1>2, <1>4
<1>6. n - 1 + 1 \in G
    BY <1>4, <1>5
<1> QED
    BY <1>3, <1>6

\* A set of subsets that has the empty one, and T with all of T \ {x}, has them all.
LEMMA SubsetsIn ==
    ASSUME NEW S, IsFiniteSet(S), NEW G, {} \in G,
           \A T \in SUBSET S : T # {} /\ (\A x \in T : T \ {x} \in G) => T \in G
    PROVE  SUBSET S \subseteq G
<1> DEFINE N == {n \in Nat : \A T \in SUBSET S : Cardinality(T) = n => T \in G}
<1>1. \A T \in SUBSET S : IsFiniteSet(T) /\ Cardinality(T) \in Nat
    BY FS_Subset, FS_CardinalityType
<1>2. 0 \in N
    BY <1>1, FS_EmptySet
<1>3. ASSUME NEW n \in Nat, n \in N PROVE n + 1 \in N
    <2> SUFFICES ASSUME NEW T \in SUBSET S, Cardinality(T) = n + 1 PROVE T \in G
        OBVIOUS
    <2>1. T # {}
        BY <1>1, FS_EmptySet
    <2>2. \A x \in T : Cardinality(T \ {x}) = n
        BY <1>1, FS_RemoveElement
    <2> QED
        BY <1>3, <2>1, <2>2
<1>4. Nat \subseteq N
    <2> HIDE DEF N
    <2> QED
        BY <1>2, <1>3, NaturalsIn
<1> QED
    BY <1>1, <1>4

-----------------------------------------------------------------------------
(* The fold is well defined.                                               *)

Chosen(s) == CHOOSE x \in s : TRUE

LEMMA ChosenIn == \A s : s # {} => Chosen(s) \in s
BY DEF Chosen

FoldStep(f, g, s) == IF s = {} THEN 0 ELSE f[Chosen(s)] + g[s \ {Chosen(s)}]

IsSum(f, g, S) == g = [s \in SUBSET S |-> FoldStep(f, g, s)]

LEMMA SumExists ==
    ASSUME NEW f, NEW S, IsFiniteSet(S)
    PROVE  \E g : IsSum(f, g, S)
<1> DEFINE Small(n) == {T \in SUBSET S : Cardinality(T) <= n}
           N == {n \in Nat : \E g : g = [s \in Small(n) |-> FoldStep(f, g, s)]}
<1>1. \A T \in SUBSET S : IsFiniteSet(T) /\ Cardinality(T) \in Nat /\ Cardinality(T) <= Cardinality(S)
    BY FS_Subset, FS_CardinalityType
<1>2. 0 \in N
    <2> DEFINE g == [s \in Small(0) |-> 0]
    <2>1. \A s \in Small(0) : s = {}
        BY <1>1, FS_EmptySet
    <2>2. \A s \in Small(0) : FoldStep(f, g, s) = 0
        BY <2>1 DEF FoldStep
    <2>3. g = [s \in Small(0) |-> FoldStep(f, g, s)]
        BY <2>2
    <2> QED
        BY <2>3
<1>3. ASSUME NEW n \in Nat, n \in N PROVE n + 1 \in N
    <2>1. PICK g : g = [s \in Small(n) |-> FoldStep(f, g, s)]
        BY <1>3
    <2> DEFINE h == [s \in Small(n + 1) |-> FoldStep(f, g, s)]
    <2>2. ASSUME NEW s \in Small(n + 1), s # {} PROVE s \ {Chosen(s)} \in Small(n)
        BY <1>1, <2>2, ChosenIn, FS_RemoveElement
    <2>3. \A s \in Small(n) : s \in Small(n + 1) /\ h[s] = g[s]
        <3>1. \A s \in Small(n) : s \in Small(n + 1)
            BY <1>1
        <3> HIDE DEF Small
        <3> QED
            BY <2>1, <3>1
    <2>4. \A s \in Small(n + 1) : FoldStep(f, g, s) = FoldStep(f, h, s)
        <3> HIDE DEF Small, h
        <3> QED
            BY <2>2, <2>3 DEF FoldStep
    <2>5. h = [s \in Small(n + 1) |-> FoldStep(f, h, s)]
        <3> HIDE DEF Small
        <3> QED
            BY <2>4
    <2> HIDE DEF h
    <2> QED
        BY <2>5
<1>4. Cardinality(S) \in N
    <2> HIDE DEF N
    <2> QED
        BY <1>2, <1>3, NaturalsIn, FS_CardinalityType
<1>5. Small(Cardinality(S)) = SUBSET S
    BY <1>1
<1> QED
    BY <1>4, <1>5 DEF IsSum

LEMMA SumUnique ==
    ASSUME NEW f, NEW S, IsFiniteSet(S), NEW g, IsSum(f, g, S),
           NEW T \in SUBSET S, NEW h, IsSum(f, h, T)
    PROVE  \A s \in SUBSET T : g[s] = h[s]
<1> DEFINE G == {s \in SUBSET T : g[s] = h[s]}
<1>1. IsFiniteSet(T)
    BY FS_Subset
<1>2. \A s \in SUBSET T : g[s] = FoldStep(f, g, s) /\ h[s] = FoldStep(f, h, s)
    BY DEF IsSum
<1>3. {} \in G
    BY <1>2 DEF FoldStep
<1>4. ASSUME NEW s \in SUBSET T, s # {}, \A x \in s : s \ {x} \in G PROVE s \in G
    <2>1. g[s \ {Chosen(s)}] = h[s \ {Chosen(s)}]
        BY <1>4, ChosenIn
    <2> QED
        BY <1>2, <2>1 DEF FoldStep
<1>5. SUBSET T \subseteq G
    <2> HIDE DEF G
    <2> QED
        BY <1>1, <1>3, <1>4, SubsetsIn
<1> QED
    BY <1>5

\* What the fold computes.
LEMMA SumIs ==
    ASSUME NEW f, NEW S, IsFiniteSet(S), NEW g, IsSum(f, g, S)
    PROVE  SumFunctionOnSet(f, S) = g[S]
<1> DEFINE h == CHOOSE h : IsSum(f, h, S)
<1>1. SumFunctionOnSet(f, S) = h[S]
    BY DEF SumFunctionOnSet, FoldFunctionOnSet, MapThenFoldSet, IsSum, FoldStep, Chosen
<1>2. IsSum(f, h, S)
    OBVIOUS
<1> HIDE DEF h
<1> QED
    BY <1>1, <1>2, SumUnique

-----------------------------------------------------------------------------
(* Sums.                                                                   *)

\* The empty sum is zero.
LEMMA SumEmpty == \A f : SumFunctionOnSet(f, {}) = 0
<1> SUFFICES ASSUME NEW f PROVE SumFunctionOnSet(f, {}) = 0
    OBVIOUS
<1>1. IsFiniteSet({})
    BY FS_EmptySet
<1>2. PICK g : IsSum(f, g, {})
    BY <1>1, SumExists
<1>3. g[{}] = 0
    BY <1>2 DEF IsSum, FoldStep
<1> QED
    BY <1>1, <1>2, <1>3, SumIs

LEMMA SumOfChosen ==
    ASSUME NEW f, NEW S, IsFiniteSet(S), S # {}
    PROVE  SumFunctionOnSet(f, S) = f[Chosen(S)] + SumFunctionOnSet(f, S \ {Chosen(S)})
<1> DEFINE R == S \ {Chosen(S)}
<1>1. PICK g : IsSum(f, g, S)
    BY SumExists
<1>2. g[S] = f[Chosen(S)] + g[R]
    BY <1>1 DEF IsSum, FoldStep
<1>3. R \in SUBSET S /\ IsFiniteSet(R)
    BY FS_Subset
<1>4. PICK h : IsSum(f, h, R)
    BY <1>3, SumExists
<1> HIDE DEF R
<1>5. g[R] = h[R]
    BY <1>1, <1>3, <1>4, SumUnique
<1>6. SumFunctionOnSet(f, R) = h[R]
    BY <1>3, <1>4, SumIs
<1>7. SumFunctionOnSet(f, S) = g[S]
    BY <1>1, SumIs
<1> QED
    BY <1>2, <1>5, <1>6, <1>7 DEF R

\* A sum of integers is one.
LEMMA SumInt ==
    ASSUME NEW f, NEW S, IsFiniteSet(S), \A x \in S : f[x] \in Int
    PROVE  SumFunctionOnSet(f, S) \in Int
<1> DEFINE G == {T \in SUBSET S : SumFunctionOnSet(f, T) \in Int}
<1>1. {} \in G
    BY SumEmpty
<1>2. ASSUME NEW T \in SUBSET S, T # {}, \A x \in T : T \ {x} \in G PROVE T \in G
    <2>1. IsFiniteSet(T) /\ Chosen(T) \in T
        BY <1>2, FS_Subset, ChosenIn
    <2>2. f[Chosen(T)] \in Int /\ SumFunctionOnSet(f, T \ {Chosen(T)}) \in Int
        BY <1>2, <2>1
    <2> QED
        BY <1>2, <2>1, <2>2, SumOfChosen
<1>3. SUBSET S \subseteq G
    <2> HIDE DEF G
    <2> QED
        BY <1>1, <1>2, SubsetsIn
<1> QED
    BY <1>3

\* Any element may be taken out first.
LEMMA SumRemove ==
    ASSUME NEW f, NEW S, IsFiniteSet(S), \A x \in S : f[x] \in Int, NEW x \in S
    PROVE  SumFunctionOnSet(f, S) = f[x] + SumFunctionOnSet(f, S \ {x})
<1> DEFINE Sum(T) == SumFunctionOnSet(f, T)
           G == {T \in SUBSET S : \A y \in T : Sum(T) = f[y] + Sum(T \ {y})}
<1>1. \A T \in SUBSET S : IsFiniteSet(T) /\ Sum(T) \in Int
    BY FS_Subset, SumInt
<1>2. {} \in G
    OBVIOUS
<1>3. ASSUME NEW T \in SUBSET S, T # {}, \A y \in T : T \ {y} \in G PROVE T \in G
    <2> SUFFICES ASSUME NEW y \in T PROVE Sum(T) = f[y] + Sum(T \ {y})
        OBVIOUS
    <2> DEFINE z == Chosen(T)
               R == T \ {y, z}
    <2>1. z \in T
        BY <1>3, ChosenIn
    <2>2. Sum(T) = f[z] + Sum(T \ {z})
        BY <1>1, <1>3, SumOfChosen
    <2>3. CASE y = z
        BY <2>2, <2>3
    <2>4. CASE y # z
        <3>1. (T \ {z}) \ {y} = R /\ (T \ {y}) \ {z} = R
            OBVIOUS
        <3>2. Sum(T \ {z}) = f[y] + Sum(R)
            BY <1>3, <2>1, <2>4, <3>1
        <3>3. Sum(T \ {y}) = f[z] + Sum(R)
            BY <1>3, <2>1, <2>4, <3>1
        <3>4. f[y] \in Int /\ f[z] \in Int /\ Sum(R) \in Int
            BY <1>1, <2>1
        <3> HIDE DEF Sum, z, R
        <3> QED
            BY <2>2, <3>2, <3>3, <3>4
    <2> QED
        BY <2>3, <2>4
<1>4. SUBSET S \subseteq G
    <2> HIDE DEF G
    <2> QED
        BY <1>2, <1>3, SubsetsIn
<1> QED
    BY <1>4

\* One element more.
LEMMA SumAdd ==
    ASSUME NEW f, NEW S, IsFiniteSet(S), NEW x, x \notin S, \A y \in S \cup {x} : f[y] \in Int
    PROVE  SumFunctionOnSet(f, S \cup {x}) = f[x] + SumFunctionOnSet(f, S)
<1>1. IsFiniteSet(S \cup {x})
    BY FS_AddElement
<1>2. (S \cup {x}) \ {x} = S
    OBVIOUS
<1> QED
    BY <1>1, <1>2, SumRemove

\* The sum depends on the values at its elements only.
LEMMA SumSame ==
    ASSUME NEW f, NEW g, NEW S, IsFiniteSet(S), \A x \in S : f[x] = g[x]
    PROVE  SumFunctionOnSet(f, S) = SumFunctionOnSet(g, S)
<1> DEFINE G == {T \in SUBSET S : SumFunctionOnSet(f, T) = SumFunctionOnSet(g, T)}
<1>1. {} \in G
    BY SumEmpty
<1>2. ASSUME NEW T \in SUBSET S, T # {}, \A x \in T : T \ {x} \in G PROVE T \in G
    <2>1. IsFiniteSet(T) /\ Chosen(T) \in T
        BY <1>2, FS_Subset, ChosenIn
    <2>2. /\ f[Chosen(T)] = g[Chosen(T)]
          /\ SumFunctionOnSet(f, T \ {Chosen(T)}) = SumFunctionOnSet(g, T \ {Chosen(T)})
        BY <1>2, <2>1
    <2> QED
        BY <1>2, <2>1, <2>2, SumOfChosen
<1>3. SUBSET S \subseteq G
    <2> HIDE DEF G
    <2> QED
        BY <1>1, <1>2, SubsetsIn
<1> QED
    BY <1>3

\* One value is replaced.
LEMMA SumChange ==
    ASSUME NEW f, NEW g, NEW S, IsFiniteSet(S), NEW x \in S,
           \A y \in S : f[y] \in Int /\ g[y] \in Int,
           \A y \in S \ {x} : f[y] = g[y]
    PROVE  SumFunctionOnSet(g, S) = SumFunctionOnSet(f, S) - f[x] + g[x]
<1> DEFINE R == S \ {x}
           Sum(h, T) == SumFunctionOnSet(h, T)
<1>1. IsFiniteSet(R)
    BY FS_RemoveElement
<1>2. Sum(f, R) = Sum(g, R)
    BY <1>1, SumSame
<1>3. Sum(f, S) = f[x] + Sum(f, R) /\ Sum(g, S) = g[x] + Sum(g, R)
    BY SumRemove
<1>4. Sum(f, R) \in Int /\ f[x] \in Int /\ g[x] \in Int
    BY <1>1, SumInt
<1> HIDE DEF R, Sum
<1> QED
    BY <1>2, <1>3, <1>4 DEF Sum

\* Disjoint sets.
LEMMA SumUnion ==
    ASSUME NEW f, NEW S, IsFiniteSet(S), NEW U, IsFiniteSet(U), S \cap U = {},
           \A x \in S \cup U : f[x] \in Int
    PROVE  SumFunctionOnSet(f, S \cup U) = SumFunctionOnSet(f, S) + SumFunctionOnSet(f, U)
<1> DEFINE Sum(T) == SumFunctionOnSet(f, T)
           G == {T \in SUBSET U : Sum(S \cup T) = Sum(S) + Sum(T)}
<1>1. \A T \in SUBSET U : IsFiniteSet(T) /\ IsFiniteSet(S \cup T) /\ Sum(T) \in Int
    BY FS_Subset, FS_Union, SumInt
<1>2. Sum(S) \in Int
    BY SumInt
<1>3. {} \in G
    <2>1. Sum({}) = 0 /\ S \cup {} = S
        BY SumEmpty
    <2> QED
        BY <1>2, <2>1
<1>4. ASSUME NEW T \in SUBSET U, T # {}, \A x \in T : T \ {x} \in G PROVE T \in G
    <2>1. PICK x \in T : TRUE
        BY <1>4
    <2>2. Sum(T) = f[x] + Sum(T \ {x})
        <3>1. IsFiniteSet(T) /\ x \in T /\ \A y \in T : f[y] \in Int
            BY <1>1
        <3> QED
            BY <3>1, SumRemove
    <2>3. (S \cup T) \ {x} = S \cup (T \ {x})
        OBVIOUS
    <2>4. Sum(S \cup T) = f[x] + Sum(S \cup (T \ {x}))
        <3> DEFINE W == S \cup T
        <3>1. IsFiniteSet(W) /\ x \in W /\ \A y \in W : f[y] \in Int
            BY <1>1
        <3> HIDE DEF W
        <3>2. Sum(W) = f[x] + Sum(W \ {x})
            BY <3>1, SumRemove
        <3> QED
            BY <2>3, <3>2 DEF W
    <2>5. Sum(S \cup (T \ {x})) = Sum(S) + Sum(T \ {x})
        BY <1>4
    <2>6. Sum(T \ {x}) \in Int /\ f[x] \in Int
        BY <1>1
    <2> HIDE DEF Sum
    <2>7. Sum(S \cup T) = Sum(S) + Sum(T)
        BY <1>2, <2>2, <2>4, <2>5, <2>6
    <2> QED
        BY <2>7
<1>5. SUBSET U \subseteq G
    <2> HIDE DEF G
    <2> QED
        BY <1>3, <1>4, SubsetsIn
<1> QED
    BY <1>5

\* A sum grows with its values.
LEMMA SumBelow ==
    ASSUME NEW f, NEW g, NEW S, IsFiniteSet(S),
           \A x \in S : f[x] \in Int /\ g[x] \in Int /\ f[x] <= g[x]
    PROVE  SumFunctionOnSet(f, S) <= SumFunctionOnSet(g, S)
<1> DEFINE Sum(h, T) == SumFunctionOnSet(h, T)
           G == {T \in SUBSET S : Sum(f, T) <= Sum(g, T)}
<1>1. \A T \in SUBSET S : IsFiniteSet(T) /\ Sum(f, T) \in Int /\ Sum(g, T) \in Int
    BY FS_Subset, SumInt
<1>2. {} \in G
    BY SumEmpty
<1>3. ASSUME NEW T \in SUBSET S, T # {}, \A x \in T : T \ {x} \in G PROVE T \in G
    <2>1. PICK x \in T : TRUE
        BY <1>3
    <2>2. Sum(f, T) = f[x] + Sum(f, T \ {x}) /\ Sum(g, T) = g[x] + Sum(g, T \ {x})
        BY <1>1, SumRemove
    <2>3. Sum(f, T \ {x}) <= Sum(g, T \ {x}) /\ f[x] <= g[x]
        BY <1>3
    <2>4. /\ Sum(f, T \ {x}) \in Int /\ Sum(g, T \ {x}) \in Int
          /\ f[x] \in Int /\ g[x] \in Int
        BY <1>1
    <2> HIDE DEF Sum
    <2>5. Sum(f, T) <= Sum(g, T)
        BY <2>2, <2>3, <2>4
    <2> QED
        BY <2>5
<1>4. SUBSET S \subseteq G
    <2> HIDE DEF G
    <2> QED
        BY <1>2, <1>3, SubsetsIn
<1> QED
    BY <1>4

\* A sum of natural numbers is one, and is at least the sum of a part.
LEMMA SumNat ==
    ASSUME NEW f, NEW S, IsFiniteSet(S), \A x \in S : f[x] \in Nat, NEW T \in SUBSET S
    PROVE  /\ SumFunctionOnSet(f, T) \in Nat
           /\ SumFunctionOnSet(f, T) <= SumFunctionOnSet(f, S)
<1> DEFINE zero == [x \in S |-> 0]
           Sum(h, U) == SumFunctionOnSet(h, U)
           G == {U \in SUBSET S : Sum(zero, U) = 0}
<1>1. \A U \in SUBSET S : IsFiniteSet(U) /\ Sum(f, U) \in Int
    BY FS_Subset, SumInt
<1>2. SUBSET S \subseteq G
    <2>1. {} \in G
        BY SumEmpty
    <2>2. ASSUME NEW U \in SUBSET S, U # {}, \A x \in U : U \ {x} \in G PROVE U \in G
        <3>1. PICK x \in U : TRUE
            BY <2>2
        <3>2. Sum(zero, U) = zero[x] + Sum(zero, U \ {x})
            BY <1>1, SumRemove
        <3> QED
            BY <2>2, <3>2
    <2> HIDE DEF G
    <2> QED
        BY <2>1, <2>2, SubsetsIn
<1>3. \A U \in SUBSET S : Sum(f, U) >= 0
    <2> SUFFICES ASSUME NEW U \in SUBSET S PROVE Sum(f, U) >= 0
        OBVIOUS
    <2>1. \A x \in U : zero[x] = 0 /\ f[x] >= 0 /\ f[x] \in Int
        OBVIOUS
    <2>2. Sum(zero, U) <= Sum(f, U)
        BY <1>1, <2>1, SumBelow
    <2>3. Sum(zero, U) = 0
        BY <1>2
    <2> QED
        BY <1>1, <2>2, <2>3
<1>4. S = T \cup (S \ T) /\ T \cap (S \ T) = {}
    OBVIOUS
<1>5. Sum(f, S) = Sum(f, T) + Sum(f, S \ T)
    <2> DEFINE R == S \ T
    <2>1. IsFiniteSet(R)
        BY FS_Subset
    <2>2. S = T \cup R /\ T \cap R = {} /\ \A x \in T \cup R : f[x] \in Int
        OBVIOUS
    <2> HIDE DEF R
    <2>3. Sum(f, T \cup R) = Sum(f, T) + Sum(f, R)
        BY <1>1, <2>1, <2>2, SumUnion
    <2> QED
        BY <2>2, <2>3 DEF R
<1>6. S \ T \in SUBSET S
    OBVIOUS
<1> HIDE DEF Sum
<1>7. Sum(f, S \ T) >= 0 /\ Sum(f, S \ T) \in Int /\ Sum(f, T) >= 0 /\ Sum(f, T) \in Int
    BY <1>1, <1>3, <1>6
<1>8. Sum(f, T) \in Nat /\ Sum(f, T) <= Sum(f, S)
    BY <1>5, <1>7
<1> QED
    BY <1>8 DEF Sum

\* Elements of value zero may be left out.
LEMMA SumOutside ==
    ASSUME NEW f, NEW S, IsFiniteSet(S), \A x \in S : f[x] \in Int,
           NEW T \in SUBSET S, \A x \in S \ T : f[x] = 0
    PROVE  SumFunctionOnSet(f, S) = SumFunctionOnSet(f, T)
<1> DEFINE R == S \ T
           Sum(U) == SumFunctionOnSet(f, U)
           G == {U \in SUBSET R : Sum(U) = 0}
<1>1. IsFiniteSet(R) /\ IsFiniteSet(T)
    BY FS_Subset
<1>2. SUBSET R \subseteq G
    <2>1. {} \in G
        BY SumEmpty
    <2>2. ASSUME NEW U \in SUBSET R, U # {}, \A x \in U : U \ {x} \in G PROVE U \in G
        <3>1. PICK x \in U : TRUE
            BY <2>2
        <3>2. IsFiniteSet(U)
            BY <1>1, FS_Subset
        <3>3. Sum(U) = f[x] + Sum(U \ {x})
            BY <3>2, SumRemove
        <3> QED
            BY <2>2, <3>3
    <2> HIDE DEF G
    <2> QED
        BY <1>1, <2>1, <2>2, SubsetsIn
<1>3. S = T \cup R /\ T \cap R = {} /\ \A x \in T \cup R : f[x] \in Int
    OBVIOUS
<1>4. Sum(R) = 0
    BY <1>2
<1>5. Sum(T) \in Int
    BY <1>1, SumInt
<1> HIDE DEF R
<1>6. Sum(T \cup R) = Sum(T) + Sum(R)
    BY <1>1, <1>3, SumUnion
<1> QED
    BY <1>3, <1>4, <1>5, <1>6
================================================================================
