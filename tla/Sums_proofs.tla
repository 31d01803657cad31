---------------------------- MODULE Sums_proofs ----------------------------
(***************************************************************************)
(* Sums over finite sets: what SumFunction of the community modules, which *)
(* payroll, rollups and the hours of shifts are computed with, returns.    *)
(* It adds the elements in an order CHOOSE fixes, by a function recursive  *)
(* over the subsets; the lemmas say that such a function exists, that the  *)
(* order does not matter, and how sums compare and come apart.             *)
(***************************************************************************)
EXTENDS Integers, FiniteSets, FiniteSetsExt, Functions, FiniteSetTheorems, TLAPS

-----------------------------------------------------------------------------
(* Induction *)

\* A set that has 0 and the successor of each of its numbers has them all.
LEMMA NumbersFromZero ==
    ASSUME NEW T, 0 \in T, \A n \in Nat : n \in T => n + 1 \in T
    PROVE  Nat \subseteq T
<1> DEFINE Rest == Nat \ T
<1> SUFFICES ASSUME Rest # {} PROVE FALSE
  OBVIOUS
<1>1. PICK n \in Rest : \A m \in Rest : <<m, n>> \notin OpToRel(<, Nat)
  BY NatLessThanWellFounded, WFMin, Rest \subseteq Nat, Zenon
<1>2. n \in Nat \ {0} /\ n - 1 \in Nat /\ n - 1 < n
  OBVIOUS
<1>3. n - 1 \notin T
  BY <1>2
<1>4. <<n - 1, n>> \in OpToRel(<, Nat)
  BY <1>2, Zenon DEF OpToRel
<1> QED BY <1>1, <1>3, <1>4, <1>2, Zenon

\* A family that has each subset of a finite set when it has the subsets with
\* one element less has them all.
LEMMA SubsetsFromSmaller ==
    ASSUME NEW S, IsFiniteSet(S), NEW T,
           \A s \in SUBSET S : (\A x \in s : s \ {x} \in T) => s \in T
    PROVE  SUBSET S \subseteq T
<1> DEFINE Rest == (SUBSET S) \ T
<1> SUFFICES ASSUME Rest # {} PROVE FALSE
  OBVIOUS
<1>1. Rest \subseteq FiniteSubsetsOf(S)
  BY FS_FiniteSubsetsOfFinite
<1>2. PICK s \in Rest : \A r \in Rest : <<r, s>> \notin StrictSubsetOrdering(S)
  BY <1>1, FS_StrictSubsetOrderingWellFounded, WFMin, Zenon
<1>3. \A x \in s : s \ {x} \in T
  <2> SUFFICES ASSUME NEW x \in s, s \ {x} \notin T PROVE FALSE
    OBVIOUS
  <2>1. s \ {x} \in Rest /\ s \in SUBSET S
    OBVIOUS
  <2>2. <<s \ {x}, s>> \in StrictSubsetOrdering(S)
    BY <2>1 DEF StrictSubsetOrdering
  <2> QED BY <2>1, <2>2, <1>2
<1> QED BY <1>3

-----------------------------------------------------------------------------
(* The function the library adds with *)

First(s) == CHOOSE x \in s : TRUE

AddsUp(g, f, S) ==
    g = [s \in SUBSET S |-> IF s = {} THEN 0 ELSE f[First(s)] + g[s \ {First(s)}]]

Numbers(f, S) == IsFiniteSet(S) /\ \A x \in S : f[x] \in Int

\* The element that is added first is one of the set.
LEMMA FirstIsIn ==
    ASSUME NEW s, s # {} PROVE First(s) \in s
BY DEF First

\* There is a function that adds up every subset of a finite set.
LEMMA SumExists ==
    ASSUME NEW S, NEW f, Numbers(f, S)
    PROVE  \E g \in [SUBSET S -> Int] : AddsUp(g, f, S)
<1> DEFINE Step(g, s) == IF s = {} THEN 0 ELSE f[First(s)] + g[s \ {First(s)}]
           Upto == {n \in Nat : \E g \in [SUBSET S -> Int] :
                                   \A s \in SUBSET S : Cardinality(s) =< n => g[s] = Step(g, s)}
<1>1. \A s \in SUBSET S : IsFiniteSet(s) /\ Cardinality(s) \in Nat
                          /\ (Cardinality(s) = 0 <=> s = {})
  BY FS_Subset, FS_CardinalityType, FS_EmptySet DEF Numbers
<1>2. \A s \in SUBSET S : s # {} =>
          /\ First(s) \in S /\ f[First(s)] \in Int /\ s \ {First(s)} \in SUBSET S
          /\ Cardinality(s \ {First(s)}) = Cardinality(s) - 1
  BY <1>1, FirstIsIn, FS_RemoveElement DEF Numbers
<1>3. 0 \in Upto
  <2> DEFINE g == [s \in SUBSET S |-> 0]
  <2>1. g \in [SUBSET S -> Int] /\ \A s \in SUBSET S : Cardinality(s) =< 0 => g[s] = Step(g, s)
    BY <1>1
  <2> QED BY <2>1
<1>4. ASSUME NEW n \in Nat, n \in Upto PROVE n + 1 \in Upto
  <2>1. PICK g \in [SUBSET S -> Int] :
            \A s \in SUBSET S : Cardinality(s) =< n => g[s] = Step(g, s)
    BY <1>4
  <2> DEFINE h == [s \in SUBSET S |-> Step(g, s)]
  <2>2. h \in [SUBSET S -> Int]
    <3>1. ASSUME NEW s \in SUBSET S PROVE Step(g, s) \in Int
      <4>1. CASE s = {}
        BY <4>1
      <4>2. CASE s # {}
        <5>1. g[s \ {First(s)}] \in Int /\ f[First(s)] \in Int
          BY <4>2, <1>2
        <5> QED BY <5>1, <4>2
      <4> QED BY <4>1, <4>2
    <3> HIDE DEF Step
    <3> QED BY <3>1
  <2>3. ASSUME NEW s \in SUBSET S, Cardinality(s) =< n + 1 PROVE h[s] = Step(h, s)
    <3>1. CASE s = {}
      BY <3>1
    <3>2. CASE s # {}
      <4> DEFINE r == s \ {First(s)}
      <4>1. r \in SUBSET S /\ Cardinality(r) =< n
        BY <3>2, <2>3, <1>1, <1>2
      <4>2. h[r] = g[r]
        BY <4>1, <2>1
      <4> QED BY <4>2, <3>2
    <3> QED BY <3>1, <3>2
  <2> HIDE DEF Step, h
  <2> QED BY <2>2, <2>3
<1>5. Nat \subseteq Upto
  <2> HIDE DEF Upto
  <2> QED BY <1>3, <1>4, NumbersFromZero
<1>6. PICK g \in [SUBSET S -> Int] :
          \A s \in SUBSET S : Cardinality(s) =< Cardinality(S) => g[s] = Step(g, s)
  BY <1>5, <1>1
<1>7. \A s \in SUBSET S : g[s] = Step(g, s)
  BY <1>6, FS_Subset DEF Numbers
<1> QED BY <1>7 DEF AddsUp

\* What such a function returns are integers.
LEMMA SumsAreIntegers ==
    ASSUME NEW S, NEW f, Numbers(f, S), NEW g, AddsUp(g, f, S)
    PROVE  g \in [SUBSET S -> Int]
<1> DEFINE T == {s \in SUBSET S : g[s] \in Int}
<1>1. ASSUME NEW s \in SUBSET S, \A x \in s : s \ {x} \in T PROVE s \in T
  <2>1. CASE s = {}
    BY <2>1 DEF AddsUp
  <2>2. CASE s # {}
    <3>1. First(s) \in s /\ f[First(s)] \in Int /\ g[s \ {First(s)}] \in Int
      BY <1>1, <2>2, FirstIsIn DEF Numbers
    <3>2. g[s] = f[First(s)] + g[s \ {First(s)}]
      BY <2>2 DEF AddsUp
    <3> QED BY <3>1, <3>2
  <2> QED BY <2>1, <2>2
<1>2. SUBSET S \subseteq T
  <2> HIDE DEF T
  <2> QED BY <1>1, SubsetsFromSmaller DEF Numbers
<1> QED BY <1>2 DEF AddsUp

\* SumFunctionOnSet is the last value of such a function.
LEMMA SumUnfolds ==
    ASSUME NEW S, NEW f, Numbers(f, S)
    PROVE  \E g \in [SUBSET S -> Int] : AddsUp(g, f, S) /\ SumFunctionOnSet(f, S) = g[S]
<1>1. PICK h \in [SUBSET S -> Int] : AddsUp(h, f, S)
  BY SumExists
<1> DEFINE g == CHOOSE g : AddsUp(g, f, S)
<1>2. AddsUp(g, f, S)
  BY <1>1
<1>3. SumFunctionOnSet(f, S) = g[S]
  BY DEF SumFunctionOnSet, FoldFunctionOnSet, MapThenFoldSet, AddsUp, First
<1> HIDE DEF g
<1> QED BY <1>2, <1>3, SumsAreIntegers

-----------------------------------------------------------------------------
(* Sums *)

\* The numbers of a subset.
LEMMA NumbersOfSubset ==
    ASSUME NEW S, NEW f, Numbers(f, S), NEW s \in SUBSET S
    PROVE  Numbers(f, s)
BY FS_Subset DEF Numbers

\* The function for a set holds the sums of its subsets.
LEMMA SumOfSubset ==
    ASSUME NEW S, NEW f, Numbers(f, S), NEW g, AddsUp(g, f, S), NEW r \in SUBSET S
    PROVE  SumFunctionOnSet(f, r) = g[r]
<1>1. Numbers(f, r)
  BY NumbersOfSubset
<1>2. PICK h : AddsUp(h, f, r) /\ SumFunctionOnSet(f, r) = h[r]
  BY <1>1, SumUnfolds
<1> DEFINE T == {s \in SUBSET r : g[s] = h[s]}
<1>3. ASSUME NEW s \in SUBSET r, \A x \in s : s \ {x} \in T PROVE s \in T
  <2>1. CASE s = {}
    BY <2>1, <1>2 DEF AddsUp
  <2>2. CASE s # {}
    <3>1. First(s) \in s /\ g[s \ {First(s)}] = h[s \ {First(s)}]
      BY <1>3, <2>2, FirstIsIn
    <3>2. g[s] = f[First(s)] + g[s \ {First(s)}]
      BY <2>2 DEF AddsUp
    <3>3. h[s] = f[First(s)] + h[s \ {First(s)}]
      BY <2>2, <1>2 DEF AddsUp
    <3> QED BY <3>1, <3>2, <3>3
  <2> QED BY <2>1, <2>2
<1>5. IsFiniteSet(r) /\ \A s \in SUBSET r : (\A x \in s : s \ {x} \in T) => s \in T
  BY <1>1, <1>3 DEF Numbers
<1>4. SUBSET r \subseteq T
  <2> HIDE DEF T
  <2> QED BY <1>5, SubsetsFromSmaller, Zenon
<1> QED BY <1>4, <1>2

\* Nothing adds up to 0.
LEMMA SumOfNone ==
    ASSUME NEW f PROVE SumFunctionOnSet(f, {}) = 0
<1>1. Numbers(f, {})
  BY FS_EmptySet DEF Numbers
<1> QED BY <1>1, SumUnfolds DEF AddsUp

\* A sum of integers is an integer.
LEMMA SumType ==
    ASSUME NEW S, NEW f, Numbers(f, S)
    PROVE  SumFunctionOnSet(f, S) \in Int
<1>1. PICK g \in [SUBSET S -> Int] : SumFunctionOnSet(f, S) = g[S]
  BY SumUnfolds
<1> QED BY <1>1

\* Any element may be added first.
LEMMA SumRemove ==
    ASSUME NEW S, NEW f, Numbers(f, S), NEW x \in S
    PROVE  SumFunctionOnSet(f, S) = f[x] + SumFunctionOnSet(f, S \ {x})
<1>1. PICK g : g \in [SUBSET S -> Int] /\ AddsUp(g, f, S)
  BY SumExists
<1> DEFINE T == {s \in SUBSET S : \A y \in s : g[s] = f[y] + g[s \ {y}]}
<1>2. ASSUME NEW s \in SUBSET S, \A y \in s : s \ {y} \in T PROVE s \in T
  <2> SUFFICES ASSUME NEW y \in s PROVE g[s] = f[y] + g[s \ {y}]
    OBVIOUS
  <2> DEFINE z == First(s)
  <2>1. z \in s /\ g[s] = f[z] + g[s \ {z}]
    BY <1>1, FirstIsIn DEF AddsUp
  <2> HIDE DEF z
  <2>2. CASE y = z
    BY <2>1, <2>2
  <2>3. CASE y # z
    <3>1. g[s \ {z}] = f[y] + g[(s \ {z}) \ {y}]
      BY <1>2, <2>1, <2>3
    <3>2. g[s \ {y}] = f[z] + g[(s \ {y}) \ {z}]
      BY <1>2, <2>1, <2>3
    <3>3. PICK rest \in Int : rest = g[(s \ {z}) \ {y}] /\ rest = g[(s \ {y}) \ {z}]
      <4>1. (s \ {z}) \ {y} = (s \ {y}) \ {z} /\ (s \ {z}) \ {y} \in SUBSET S
        OBVIOUS
      <4> QED BY <4>1, <1>1
    <3>4. f[y] \in Int /\ f[z] \in Int
      BY <2>1 DEF Numbers
    <3>5. g[s \ {z}] = f[y] + rest /\ g[s \ {y}] = f[z] + rest
      BY <3>1, <3>2, <3>3
    <3>6. g[s] = f[z] + (f[y] + rest)
      BY <2>1, <3>5
    <3> QED BY <3>4, <3>5, <3>6
  <2> QED BY <2>2, <2>3
<1>5. IsFiniteSet(S) /\ \A s \in SUBSET S : (\A y \in s : s \ {y} \in T) => s \in T
  BY <1>2 DEF Numbers
<1>3. SUBSET S \subseteq T
  <2> HIDE DEF T
  <2> QED BY <1>5, SubsetsFromSmaller, Zenon
<1>4. g[S] = f[x] + g[S \ {x}]
  BY <1>3
<1> QED BY <1>1, <1>4, SumOfSubset

\* Sums of the same numbers are the same.
LEMMA SumAgrees ==
    ASSUME NEW S, NEW f, Numbers(f, S), NEW h, \A x \in S : h[x] = f[x]
    PROVE  SumFunctionOnSet(h, S) = SumFunctionOnSet(f, S)
<1>1. PICK g \in [SUBSET S -> Int] : AddsUp(g, f, S) /\ SumFunctionOnSet(f, S) = g[S]
  BY SumUnfolds
<1>2. Numbers(h, S)
  BY DEF Numbers
<1>3. \A s \in SUBSET S : s # {} => h[First(s)] = f[First(s)]
  BY FirstIsIn
<1>4. AddsUp(g, h, S)
  BY <1>1, <1>3 DEF AddsUp
<1> QED BY <1>1, <1>2, <1>4, SumOfSubset

\* Larger numbers have the larger sum.
LEMMA SumMonotone ==
    ASSUME NEW S, NEW f, Numbers(f, S), NEW h, Numbers(h, S), \A x \in S : f[x] =< h[x]
    PROVE  SumFunctionOnSet(f, S) =< SumFunctionOnSet(h, S)
<1> DEFINE T == {s \in SUBSET S : SumFunctionOnSet(f, s) =< SumFunctionOnSet(h, s)}
<1>1. ASSUME NEW s \in SUBSET S, \A x \in s : s \ {x} \in T PROVE s \in T
  <2>1. CASE s = {}
    BY <2>1, SumOfNone
  <2>2. ASSUME NEW x \in s PROVE s \in T
    <3>1. Numbers(f, s) /\ Numbers(h, s) /\ Numbers(f, s \ {x}) /\ Numbers(h, s \ {x})
      BY NumbersOfSubset
    <3>2. PICK a \in Int, b \in Int : a = SumFunctionOnSet(f, s \ {x}) /\ b = SumFunctionOnSet(h, s \ {x})
      BY <3>1, SumType
    <3>3. SumFunctionOnSet(f, s) = f[x] + a /\ SumFunctionOnSet(h, s) = h[x] + b
      BY <3>1, <3>2, SumRemove
    <3>4. a =< b /\ f[x] =< h[x] /\ f[x] \in Int /\ h[x] \in Int
      BY <1>1, <3>2 DEF Numbers
    <3> QED BY <3>3, <3>4
  <2> QED BY <2>1, <2>2
<1>2. IsFiniteSet(S) /\ \A s \in SUBSET S : (\A x \in s : s \ {x} \in T) => s \in T
  BY <1>1 DEF Numbers
<1>3. SUBSET S \subseteq T
  <2> HIDE DEF T
  <2> QED BY <1>2, SubsetsFromSmaller, Zenon
<1> QED BY <1>3

\* The sum of a union of two sets without common elements.
LEMMA SumOfUnion ==
    ASSUME NEW S, NEW R, NEW f, Numbers(f, S), Numbers(f, R), S \cap R = {}, NEW U, U = S \cup R
    PROVE  SumFunctionOnSet(f, U) = SumFunctionOnSet(f, S) + SumFunctionOnSet(f, R)
<1>1. Numbers(f, S \cup R)
  BY FS_Union DEF Numbers
<1> DEFINE T == {s \in SUBSET S : SumFunctionOnSet(f, s \cup R) =
                                      SumFunctionOnSet(f, s) + SumFunctionOnSet(f, R)}
<1>2. ASSUME NEW s \in SUBSET S, \A x \in s : s \ {x} \in T PROVE s \in T
  <2>1. CASE s = {}
    <3>1. s \cup R = R
      BY <2>1
    <3> QED BY <2>1, <3>1, SumOfNone, SumType
  <2>2. ASSUME NEW x \in s PROVE s \in T
    <3>1. Numbers(f, s) /\ Numbers(f, s \cup R) /\ Numbers(f, s \ {x}) /\ Numbers(f, (s \cup R) \ {x})
      BY <1>1, NumbersOfSubset
    <3>2. PICK a \in Int, b \in Int : a = SumFunctionOnSet(f, s \ {x}) /\ b = SumFunctionOnSet(f, R)
      BY <3>1, SumType
    <3>3. (s \cup R) \ {x} = (s \ {x}) \cup R
      OBVIOUS
    <3>4. SumFunctionOnSet(f, (s \cup R) \ {x}) = a + b
      BY <1>2, <3>2, <3>3
    <3>5. SumFunctionOnSet(f, s) = f[x] + a
      BY <3>1, <3>2, SumRemove
    <3>6. SumFunctionOnSet(f, s \cup R) = f[x] + (a + b)
      BY <3>1, <3>4, SumRemove
    <3>7. f[x] \in Int
      BY DEF Numbers
    <3> QED BY <3>2, <3>5, <3>6, <3>7
  <2> QED BY <2>1, <2>2
<1>3. IsFiniteSet(S) /\ \A s \in SUBSET S : (\A x \in s : s \ {x} \in T) => s \in T
  BY <1>2 DEF Numbers
<1>4. SUBSET S \subseteq T
  <2> HIDE DEF T
  <2> QED BY <1>3, SubsetsFromSmaller, Zenon
<1> QED BY <1>4

\* The elements of S, each in one of the groups M[k].
Groups(M, K, S) == /\ \A x \in S : \E k \in K : x \in M[k]
                   /\ \A k \in K : M[k] \subseteq S
                   /\ \A k, l \in K : k # l => M[k] \cap M[l] = {}

\* Adding up a set group by group.
LEMMA SumOfGroups ==
    ASSUME NEW S, NEW f, Numbers(f, S), NEW K, IsFiniteSet(K), NEW M, Groups(M, K, S),
           NEW G, \A k \in K : G[k] = SumFunctionOnSet(f, M[k])
    PROVE  SumFunctionOnSet(G, K) = SumFunctionOnSet(f, S)
<1> DEFINE Of(L) == {x \in S : \E k \in L : x \in M[k]}
           T == {L \in SUBSET K : SumFunctionOnSet(G, L) = SumFunctionOnSet(f, Of(L))}
<1>1. \A L \in SUBSET K : Numbers(f, Of(L))
  <2>1. \A L \in SUBSET K : Of(L) \in SUBSET S
    OBVIOUS
  <2> HIDE DEF Of
  <2> QED BY <2>1, NumbersOfSubset
<1>2. \A k \in K : G[k] = SumFunctionOnSet(f, Of({k}))
  <2>1. \A k \in K : Of({k}) = M[k]
    BY DEF Groups
  <2> QED BY <2>1
<1>3. Numbers(G, K)
  <2>1. \A k \in K : SumFunctionOnSet(f, Of({k})) \in Int
    <3> TAKE k \in K
    <3>1. Numbers(f, Of({k}))
      <4>1. {k} \in SUBSET K
        OBVIOUS
      <4> HIDE DEF Of
      <4> QED BY <1>1, <4>1
    <3> HIDE DEF Of
    <3> QED BY <3>1, SumType
  <2> QED BY <2>1, <1>2 DEF Numbers
<1>4. ASSUME NEW L \in SUBSET K, \A k \in L : L \ {k} \in T PROVE L \in T
  <2>1. CASE L = {}
    <3>1. Of(L) = {}
      BY <2>1
    <3> QED BY <2>1, <3>1, SumOfNone
  <2>2. ASSUME NEW k \in L PROVE L \in T
    <3>1. Of(L) = Of({k}) \cup Of(L \ {k}) /\ Of({k}) \cap Of(L \ {k}) = {}
      BY DEF Groups
    <3>2. Numbers(f, Of({k})) /\ Numbers(f, Of(L \ {k})) /\ Numbers(G, L)
      BY <1>1, <1>3, NumbersOfSubset
    <3>3. SumFunctionOnSet(f, Of(L)) =
              SumFunctionOnSet(f, Of({k})) + SumFunctionOnSet(f, Of(L \ {k}))
      <4> HIDE DEF Of
      <4>1. \A a, b, u : Numbers(f, a) /\ Numbers(f, b) /\ a \cap b = {} /\ u = a \cup b
                => SumFunctionOnSet(f, u) = SumFunctionOnSet(f, a) + SumFunctionOnSet(f, b)
        BY SumOfUnion
      <4> QED BY <3>1, <3>2, <4>1
    <3>4. SumFunctionOnSet(G, L) = G[k] + SumFunctionOnSet(G, L \ {k})
      BY <3>2, SumRemove
    <3>5. SumFunctionOnSet(G, L \ {k}) = SumFunctionOnSet(f, Of(L \ {k}))
      BY <1>4
    <3>6. SumFunctionOnSet(G, L) = SumFunctionOnSet(f, Of(L))
      <4> HIDE DEF Of
      <4> QED BY <3>3, <3>4, <3>5, <1>2
    <3> QED BY <3>6
  <2> QED BY <2>1, <2>2
<1>5. IsFiniteSet(K) /\ \A L \in SUBSET K : (\A k \in L : L \ {k} \in T) => L \in T
  BY <1>4
<1>6. SUBSET K \subseteq T
  <2> HIDE DEF T
  <2> QED BY <1>5, SubsetsFromSmaller, Zenon
<1>7. Of(K) = S
  BY DEF Groups
<1> QED BY <1>6, <1>7

\* A sum of numbers that are not negative grows with the set.
LEMMA SumGrows ==
    ASSUME NEW S, NEW f, Numbers(f, S), \A x \in S : f[x] >= 0, NEW R \in SUBSET S
    PROVE  0 =< SumFunctionOnSet(f, R) /\ SumFunctionOnSet(f, R) =< SumFunctionOnSet(f, S)
<1> DEFINE T == {s \in SUBSET S : SumFunctionOnSet(f, s) >= 0}
<1>1. ASSUME NEW s \in SUBSET S, \A x \in s : s \ {x} \in T PROVE s \in T
  <2>1. CASE s = {}
    BY <2>1, SumOfNone
  <2>2. ASSUME NEW x \in s PROVE s \in T
    <3>1. Numbers(f, s) /\ Numbers(f, s \ {x})
      BY NumbersOfSubset
    <3>2. PICK a \in Int : a = SumFunctionOnSet(f, s \ {x})
      BY <3>1, SumType
    <3>3. SumFunctionOnSet(f, s) = f[x] + a /\ a >= 0
      BY <1>1, <3>1, <3>2, SumRemove
    <3>4. f[x] >= 0 /\ f[x] \in Int
      BY DEF Numbers
    <3> QED BY <3>3, <3>4
  <2> QED BY <2>1, <2>2
<1>2. IsFiniteSet(S) /\ \A s \in SUBSET S : (\A x \in s : s \ {x} \in T) => s \in T
  BY <1>1 DEF Numbers
<1>3. SUBSET S \subseteq T
  <2> HIDE DEF T
  <2> QED BY <1>2, SubsetsFromSmaller, Zenon
<1>4. Numbers(f, R) /\ Numbers(f, S \ R) /\ R \cap (S \ R) = {} /\ R \cup (S \ R) = S
  BY NumbersOfSubset
<1>5. SumFunctionOnSet(f, S) = SumFunctionOnSet(f, R) + SumFunctionOnSet(f, S \ R)
  BY <1>4, SumOfUnion
<1>6. SumFunctionOnSet(f, R) \in Int /\ SumFunctionOnSet(f, S \ R) \in Int
  BY <1>4, SumType
<1>7. SumFunctionOnSet(f, R) >= 0 /\ SumFunctionOnSet(f, S \ R) >= 0
  BY <1>3
<1> QED BY <1>5, <1>6, <1>7

\* The size of the union of two sets without common elements.
LEMMA SizeOfUnion ==
    ASSUME NEW A, NEW B, IsFiniteSet(A), IsFiniteSet(B), A \cap B = {}, NEW C, C = A \cup B
    PROVE  IsFiniteSet(C) /\ Cardinality(C) = Cardinality(A) + Cardinality(B)
<1>1. /\ IsFiniteSet(A \cup B)
      /\ Cardinality(A \cup B) = Cardinality(A) + Cardinality(B) - Cardinality(A \cap B)
  BY FS_Union
<1>2. Cardinality(A \cap B) = 0 /\ Cardinality(A) \in Nat /\ Cardinality(B) \in Nat
  BY FS_EmptySet, FS_CardinalityType
<1> QED BY <1>1, <1>2

\* The sizes of finite sets without common elements add up to that of their
\* union.
LEMMA SumOfSizes ==
    ASSUME NEW S, IsFiniteSet(S), NEW D, NEW f,
           \A x \in S : IsFiniteSet(D[x]) /\ f[x] = Cardinality(D[x]),
           \A x, y \in S : x # y => D[x] \cap D[y] = {},
           NEW all, all = UNION {D[x] : x \in S}
    PROVE  IsFiniteSet(all) /\ SumFunctionOnSet(f, S) = Cardinality(all)
<1> DEFINE U(s) == UNION {D[x] : x \in s}
           T == {s \in SUBSET S : IsFiniteSet(U(s)) /\ SumFunctionOnSet(f, s) = Cardinality(U(s))}
<1>1. Numbers(f, S)
  BY FS_CardinalityType DEF Numbers
<1>2. ASSUME NEW s \in SUBSET S, \A x \in s : s \ {x} \in T PROVE s \in T
  <2>1. CASE s = {}
    <3>1. U(s) = {}
      BY <2>1
    <3> QED BY <2>1, <3>1, SumOfNone, FS_EmptySet
  <2>2. ASSUME NEW x \in s PROVE s \in T
    <3>1. U(s) = D[x] \cup U(s \ {x}) /\ D[x] \cap U(s \ {x}) = {}
      OBVIOUS
    <3>2. IsFiniteSet(U(s \ {x})) /\ SumFunctionOnSet(f, s \ {x}) = Cardinality(U(s \ {x}))
      BY <1>2
    <3>3. SumFunctionOnSet(f, s) = f[x] + SumFunctionOnSet(f, s \ {x})
      BY <1>1, NumbersOfSubset, SumRemove
    <3>4. IsFiniteSet(U(s)) /\ Cardinality(U(s)) = Cardinality(D[x]) + Cardinality(U(s \ {x}))
      <4> HIDE DEF U
      <4> QED BY <3>1, <3>2, SizeOfUnion
    <3>5. IsFiniteSet(U(s)) /\ SumFunctionOnSet(f, s) = Cardinality(U(s))
      <4> HIDE DEF U
      <4> QED BY <3>2, <3>3, <3>4
    <3> QED BY <3>5
  <2> QED BY <2>1, <2>2
<1>3. IsFiniteSet(S) /\ \A s \in SUBSET S : (\A x \in s : s \ {x} \in T) => s \in T
  BY <1>2
<1>4. SUBSET S \subseteq T
  <2> HIDE DEF T
  <2> QED BY <1>3, SubsetsFromSmaller, Zenon
<1> QED BY <1>4
=============================================================================
