----------------------------- MODULE MoneyLemmas -----------------------------
(***************************************************************************)
(* Facts the proofs share.  First, what SumFunctionOnSet of the community  *)
(* modules computes on finite sets: the sum does not depend on the order   *)
(* the elements are chosen in.  The induction principles of the library    *)
(* take an operator as a parameter; here induction is over sets of         *)
(* naturals, from WFMin.  Then the money arithmetic of Rates, for every    *)
(* rate and tier.                                                          *)
(***************************************************************************)
EXTENDS Rates, Functions, FiniteSetTheorems, WellFoundedInduction, TLAPS

\* A set of naturals that has 0 and is closed under successor has them all.
LEMMA Induction ==
    ASSUME NEW S, 0 \in S, \A n \in Nat : n \in S => n + 1 \in S
    PROVE  Nat \subseteq S
<1>1. SUFFICES ASSUME Nat \ S # {} PROVE FALSE
  OBVIOUS
<1>2. PICK n \in Nat \ S : \A m \in Nat \ S : <<m, n>> \notin OpToRel(<, Nat)
  <2>1. Nat \ S \subseteq Nat
    OBVIOUS
  <2> QED
    BY ONLY <1>1, <2>1, WFMin, NatLessThanWellFounded
<1>3. \A m \in Nat \ S : ~(m < n)
  BY <1>2 DEF OpToRel
<1>4. n # 0 /\ n - 1 \in Nat
  OBVIOUS
<1>5. n - 1 \in S
  BY <1>3, <1>4
<1>6. n \in S
  BY <1>4, <1>5
<1> QED
  BY <1>6

Pick(s) == CHOOSE x \in s : TRUE

\* The sum of f over S is the value at S of a recursive function on the subsets.
Step(f, g, s) == IF s = {} THEN 0 ELSE f[Pick(s)] + g[s \ {Pick(s)}]
IsSum(f, S, g) == g = [s \in SUBSET S |-> Step(f, g, s)]

\* SumFunctionOnSet, as the community modules define it, is the recursion IsSum.
LEMMA SumIsChosen ==
    ASSUME NEW f, NEW S
    PROVE  SumFunctionOnSet(f, S) = (CHOOSE g : IsSum(f, S, g))[S]
  BY DEF SumFunctionOnSet, FoldFunctionOnSet, MapThenFoldSet, IsSum, Step, Pick

\* The element the fold picks is one of the set.
LEMMA PickIn == ASSUME NEW s, s # {} PROVE Pick(s) \in s
  BY DEF Pick

\* The recursion up to a cardinality.
UpTo(S, n) == {s \in SUBSET S : Cardinality(s) =< n}
IsSumUpTo(f, S, n, g) == g \in [UpTo(S, n) -> Int] /\ \A s \in UpTo(S, n) : g[s] = Step(f, g, s)

\* The subsets of a finite set, and the element the fold takes off each.
LEMMA SubsetCardinality ==
    ASSUME NEW S, IsFiniteSet(S)
    PROVE  \A s \in SUBSET S :
             /\ IsFiniteSet(s)
             /\ Cardinality(s) \in Nat
             /\ s = {} <=> Cardinality(s) = 0
             /\ s # {} => Pick(s) \in s /\ Cardinality(s \ {Pick(s)}) = Cardinality(s) - 1
<1> SUFFICES ASSUME NEW s \in SUBSET S
             PROVE  /\ IsFiniteSet(s) /\ Cardinality(s) \in Nat
                    /\ s = {} <=> Cardinality(s) = 0
                    /\ s # {} => Pick(s) \in s /\ Cardinality(s \ {Pick(s)}) = Cardinality(s) - 1
  OBVIOUS
<1>1. IsFiniteSet(s)
  BY FS_Subset
<1>2. Cardinality(s) \in Nat
  BY <1>1, FS_CardinalityType
<1>3. s = {} <=> Cardinality(s) = 0
  BY <1>1, FS_EmptySet
<1>4. s # {} => Pick(s) \in s
  BY PickIn
<1> QED
  BY <1>1, <1>2, <1>3, <1>4, FS_RemoveElement

\* Over a finite set the fold's recursion has a solution.
LEMMA SumExists ==
    ASSUME NEW S, IsFiniteSet(S), NEW f, \A x \in S : f[x] \in Int
    PROVE  \E g : IsSum(f, S, g) /\ g \in [SUBSET S -> Int]
<1> DEFINE N == {n \in Nat : \E g : IsSumUpTo(f, S, n, g)}
<1>0. \A s \in SUBSET S : /\ Cardinality(s) \in Nat /\ (s = {} <=> Cardinality(s) = 0)
                          /\ s # {} => Pick(s) \in s /\ Cardinality(s \ {Pick(s)}) = Cardinality(s) - 1
  BY SubsetCardinality
<1>1. 0 \in N
  <2> DEFINE g == [s \in UpTo(S, 0) |-> 0]
  <2>1. ASSUME NEW s \in UpTo(S, 0) PROVE s = {}
    <3>1. s \in SUBSET S /\ Cardinality(s) =< 0
      BY DEF UpTo
    <3>2. Cardinality(s) \in Nat /\ (s = {} <=> Cardinality(s) = 0)
      BY <1>0, <3>1
    <3> QED
      BY <3>1, <3>2
  <2>2. IsSumUpTo(f, S, 0, g)
    BY <2>1 DEF IsSumUpTo, Step
  <2> QED
    BY <2>2
<1>2. ASSUME NEW n \in Nat, n \in N
      PROVE  n + 1 \in N
  <2>1. PICK g : IsSumUpTo(f, S, n, g)
    BY <1>2
  <2> DEFINE h == [s \in UpTo(S, n + 1) |-> Step(f, g, s)]
  <2>2. ASSUME NEW s \in UpTo(S, n + 1), s # {}
        PROVE  Pick(s) \in S /\ s \ {Pick(s)} \in UpTo(S, n)
    <3>1. s \in SUBSET S /\ Cardinality(s) =< n + 1
      BY DEF UpTo
    <3>2. Cardinality(s \ {Pick(s)}) =< n /\ Pick(s) \in S
      <4>1. Cardinality(s) \in Nat /\ Pick(s) \in s /\ Cardinality(s \ {Pick(s)}) = Cardinality(s) - 1
        BY <1>0, <2>2, <3>1
      <4> QED
        BY <3>1, <4>1
    <3> QED
      BY <3>1, <3>2 DEF UpTo
  <2>3. h \in [UpTo(S, n + 1) -> Int]
    <3>1. ASSUME NEW s \in UpTo(S, n + 1) PROVE Step(f, g, s) \in Int
      BY <2>1, <2>2 DEF IsSumUpTo, Step
    <3> QED
      BY <3>1
  <2>4. \A s \in UpTo(S, n + 1) : h[s] = Step(f, h, s)
    <3>1. ASSUME NEW s \in UpTo(S, n) PROVE s \in UpTo(S, n + 1) /\ h[s] = g[s]
      <4>1. s \in UpTo(S, n + 1)
        <5>1. s \in SUBSET S /\ Cardinality(s) =< n
          BY DEF UpTo
        <5>2. Cardinality(s) \in Nat
          BY <1>0, <5>1
        <5>3. Cardinality(s) =< n + 1
          BY <5>1, <5>2
        <5> QED
          BY <5>1, <5>3 DEF UpTo
      <4> QED
        BY <2>1, <4>1 DEF IsSumUpTo
    <3>2. ASSUME NEW s \in UpTo(S, n + 1) PROVE Step(f, g, s) = Step(f, h, s)
      BY <2>2, <3>1 DEF Step
    <3> QED
      BY <3>2
  <2> HIDE DEF h
  <2> QED
    BY <2>3, <2>4 DEF IsSumUpTo
<1>3. Cardinality(S) \in N
  <2> HIDE DEF N
  <2>1. Nat \subseteq N
    BY <1>1, <1>2, Induction
  <2> QED
    BY <2>1, FS_CardinalityType
<1>4. PICK g : IsSumUpTo(f, S, Cardinality(S), g)
  BY <1>3
<1>5. UpTo(S, Cardinality(S)) = SUBSET S
  BY FS_Subset DEF UpTo
<1> QED
  BY <1>4, <1>5 DEF IsSum, IsSumUpTo

\* Two such functions agree wherever their summands do.
LEMMA SumUnique ==
    ASSUME NEW S, IsFiniteSet(S), NEW f, NEW g, IsSum(f, S, g),
           NEW R, IsFiniteSet(R), NEW e, NEW h, IsSum(e, R, h),
           NEW T, T \subseteq S, T \subseteq R, \A x \in T : f[x] = e[x]
    PROVE  g[T] = h[T]
<1> DEFINE N == {n \in Nat : \A s \in SUBSET T : Cardinality(s) = n => g[s] = h[s]}
<1>0. \A s \in SUBSET T : g[s] = Step(f, g, s) /\ h[s] = Step(e, h, s)
  BY DEF IsSum
<1>c. \A s \in SUBSET T : /\ Cardinality(s) \in Nat /\ (s = {} <=> Cardinality(s) = 0)
                          /\ s # {} => Pick(s) \in s /\ Cardinality(s \ {Pick(s)}) = Cardinality(s) - 1
  <2>1. IsFiniteSet(T)
    BY FS_Subset
  <2> QED
    BY <2>1, SubsetCardinality
<1>1. 0 \in N
  BY <1>0, <1>c DEF Step
<1>2. ASSUME NEW n \in Nat, n \in N PROVE n + 1 \in N
  <2>1. SUFFICES ASSUME NEW s \in SUBSET T, Cardinality(s) = n + 1 PROVE g[s] = h[s]
    OBVIOUS
  <2>2. s # {} /\ Pick(s) \in T /\ s \ {Pick(s)} \in SUBSET T /\ Cardinality(s \ {Pick(s)}) = n
    BY <2>1, <1>c
  <2>3. g[s \ {Pick(s)}] = h[s \ {Pick(s)}]
    BY <1>2, <2>2
  <2> QED
    BY <1>0, <2>2, <2>3 DEF Step
<1>3. Cardinality(T) \in N
  <2> HIDE DEF N
  <2>1. Nat \subseteq N
    BY <1>1, <1>2, Induction
  <2> QED
    BY <2>1, <1>c
<1> QED
  BY <1>3

----------------------------------------------------------------------------
(* What the other modules use.                                             *)

\* The function the sum over S is read from.
LEMMA SumFunctionExists ==
    ASSUME NEW S, IsFiniteSet(S), NEW f, \A x \in S : f[x] \in Int
    PROVE  \E g : IsSum(f, S, g) /\ g \in [SUBSET S -> Int] /\ SumFunctionOnSet(f, S) = g[S]
<1> DEFINE h == CHOOSE g : IsSum(f, S, g)
<1>1. PICK g : IsSum(f, S, g) /\ g \in [SUBSET S -> Int]
  BY SumExists
<1>2. IsSum(f, S, h)
  BY <1>1
<1>3. SumFunctionOnSet(f, S) = h[S]
  BY SumIsChosen
<1> HIDE DEF h
<1>4. h = [s \in SUBSET S |-> h[s]]
  BY <1>2 DEF IsSum
<1>5. \A s \in SUBSET S : g[s] = h[s]
  <2> SUFFICES ASSUME NEW s \in SUBSET S PROVE g[s] = h[s]
    OBVIOUS
  <2> QED
    BY <1>1, <1>2, SumUnique
<1>6. h \in [SUBSET S -> Int]
  BY <1>1, <1>4, <1>5
<1> QED
  BY <1>2, <1>3, <1>6

\* The sum is an integer, zero on the empty set.
LEMMA SumType ==
    ASSUME NEW S, IsFiniteSet(S), NEW f, \A x \in S : f[x] \in Int
    PROVE  SumFunctionOnSet(f, S) \in Int
<1>1. PICK g : g \in [SUBSET S -> Int] /\ SumFunctionOnSet(f, S) = g[S]
  BY SumFunctionExists
<1> QED
  BY <1>1

\* The empty sum is zero.
LEMMA SumEmpty ==
    ASSUME NEW f
    PROVE  SumFunctionOnSet(f, {}) = 0
<1>1. IsFiniteSet({})
  BY FS_EmptySet
<1>2. PICK g : IsSum(f, {}, g) /\ SumFunctionOnSet(f, {}) = g[{}]
  BY <1>1, SumFunctionExists
<1> QED
  BY <1>2 DEF IsSum, Step

\* Only the values on S matter.
LEMMA SumSame ==
    ASSUME NEW S, IsFiniteSet(S), NEW f, NEW e, \A x \in S : f[x] \in Int /\ e[x] = f[x]
    PROVE  SumFunctionOnSet(e, S) = SumFunctionOnSet(f, S)
<1>1. PICK g : IsSum(f, S, g) /\ SumFunctionOnSet(f, S) = g[S]
  BY SumFunctionExists
<1>2. PICK h : IsSum(e, S, h) /\ SumFunctionOnSet(e, S) = h[S]
  <2>1. \A x \in S : e[x] \in Int
    OBVIOUS
  <2> QED
    BY <2>1, SumFunctionExists
<1>3. g[S] = h[S]
  BY <1>1, <1>2, SumUnique
<1> QED
  BY <1>1, <1>2, <1>3

\* The element the recursion picks can be taken out,
LEMMA SumRemovePick ==
    ASSUME NEW S, IsFiniteSet(S), NEW f, \A x \in S : f[x] \in Int, S # {}
    PROVE  SumFunctionOnSet(f, S) = f[Pick(S)] + SumFunctionOnSet(f, S \ {Pick(S)})
<1> DEFINE R == S \ {Pick(S)}
<1>1. PICK g : IsSum(f, S, g) /\ SumFunctionOnSet(f, S) = g[S]
  BY SumFunctionExists
<1>2. IsFiniteSet(R) /\ \A x \in R : f[x] \in Int
  BY FS_RemoveElement
<1>3. PICK h : IsSum(f, R, h) /\ SumFunctionOnSet(f, R) = h[R]
  BY <1>2, SumFunctionExists
<1>4. g[R] = h[R]
  BY <1>1, <1>2, <1>3, SumUnique
<1>5. g[S] = Step(f, g, S)
  BY <1>1 DEF IsSum
<1> QED
  BY <1>1, <1>3, <1>4, <1>5 DEF Step

\* and so can any other.
LEMMA SumRemove ==
    ASSUME NEW S, IsFiniteSet(S), NEW f, \A y \in S : f[y] \in Int, NEW x \in S
    PROVE  SumFunctionOnSet(f, S) = f[x] + SumFunctionOnSet(f, S \ {x})
<1> DEFINE Good(T) == \A y \in T : SumFunctionOnSet(f, T) = f[y] + SumFunctionOnSet(f, T \ {y})
           N == {n \in Nat : \A T \in SUBSET S : Cardinality(T) = n => Good(T)}
<1>1. 0 \in N
  <2>1. \A T \in SUBSET S : Cardinality(T) = 0 => T = {}
    BY SubsetCardinality
  <2> QED
    BY <2>1
<1>2. ASSUME NEW n \in Nat, n \in N PROVE n + 1 \in N
  <2>1. SUFFICES ASSUME NEW T \in SUBSET S, Cardinality(T) = n + 1, NEW y \in T
                 PROVE  SumFunctionOnSet(f, T) = f[y] + SumFunctionOnSet(f, T \ {y})
    OBVIOUS
  <2> DEFINE c == Pick(T)
             A == T \ {c}
             B == T \ {y}
             C == T \ {y, c}
  <2>2. IsFiniteSet(T) /\ c \in T /\ Cardinality(A) = n
    BY <2>1, SubsetCardinality
  <2>3. IsFiniteSet(A) /\ IsFiniteSet(B) /\ IsFiniteSet(C) /\ Cardinality(B) = n
    <3>1. IsFiniteSet(A) /\ IsFiniteSet(B) /\ IsFiniteSet(B \ {c})
      BY <2>2, FS_RemoveElement
    <3>2. B \ {c} = C
      OBVIOUS
    <3>3. Cardinality(B) = n
      BY <2>1, <2>2, FS_RemoveElement
    <3> QED
      BY <3>1, <3>2, <3>3
  <2>4. SumFunctionOnSet(f, T) = f[c] + SumFunctionOnSet(f, A)
    BY <2>2, SumRemovePick
  <2>5. CASE y = c
    BY <2>4, <2>5
  <2>6. CASE y # c
    <3>1. SumFunctionOnSet(f, A) = f[y] + SumFunctionOnSet(f, C)
      <4>1. Good(A)
        BY <1>2, <2>2
      <4>2. y \in A /\ A \ {y} = C
        BY <2>6
      <4> QED
        BY <4>1, <4>2
    <3>2. SumFunctionOnSet(f, B) = f[c] + SumFunctionOnSet(f, C)
      <4>1. Good(B)
        BY <1>2, <2>3
      <4>2. c \in B /\ B \ {c} = C
        BY <2>2, <2>6
      <4> QED
        BY <4>1, <4>2
    <3>3. SumFunctionOnSet(f, C) \in Int /\ f[y] \in Int /\ f[c] \in Int
      <4>1. \A z \in C : f[z] \in Int
        OBVIOUS
      <4> QED
        BY <2>2, <2>3, <4>1, SumType
    <3> QED
      BY <2>4, <3>1, <3>2, <3>3
  <2> QED
    BY <2>5, <2>6
<1>3. Cardinality(S) \in N
  <2> HIDE DEF N
  <2>1. Nat \subseteq N
    BY <1>1, <1>2, Induction
  <2> QED
    BY <2>1, FS_CardinalityType
<1> QED
  BY <1>3

\* Adding an element adds its value.
LEMMA SumAdd ==
    ASSUME NEW S, IsFiniteSet(S), NEW x, x \notin S, NEW f, \A y \in S \cup {x} : f[y] \in Int
    PROVE  SumFunctionOnSet(f, S \cup {x}) = SumFunctionOnSet(f, S) + f[x]
<1> DEFINE T == S \cup {x}
<1>1. IsFiniteSet(T) /\ T \ {x} = S /\ x \in T /\ \A y \in T : f[y] \in Int
  BY FS_AddElement
<1>2. SumFunctionOnSet(f, S) \in Int /\ f[x] \in Int
  BY SumType
<1> HIDE DEF T
<1>3. SumFunctionOnSet(f, T) = f[x] + SumFunctionOnSet(f, T \ {x})
  BY <1>1, SumRemove
<1>4. SumFunctionOnSet(f, T) = SumFunctionOnSet(f, S) + f[x]
  <2>1. SumFunctionOnSet(f, T) = f[x] + SumFunctionOnSet(f, S)
    BY <1>1, <1>3, Zenon
  <2> QED
    BY <1>2, <2>1
<1> QED
  BY <1>4 DEF T

\* Summands that are not negative have a sum that is not.
LEMMA SumNat ==
    ASSUME NEW S, IsFiniteSet(S), NEW f, \A x \in S : f[x] \in Nat
    PROVE  SumFunctionOnSet(f, S) \in Nat
<1> DEFINE N == {n \in Nat : \A T \in SUBSET S : Cardinality(T) = n => SumFunctionOnSet(f, T) \in Nat}
<1>1. 0 \in N
  <2>1. \A T \in SUBSET S : Cardinality(T) = 0 => T = {}
    BY SubsetCardinality
  <2> QED
    BY <2>1, SumEmpty
<1>2. ASSUME NEW n \in Nat, n \in N PROVE n + 1 \in N
  <2>1. SUFFICES ASSUME NEW T \in SUBSET S, Cardinality(T) = n + 1
                 PROVE  SumFunctionOnSet(f, T) \in Nat
    OBVIOUS
  <2>2. IsFiniteSet(T) /\ T # {} /\ Pick(T) \in T /\ Cardinality(T \ {Pick(T)}) = n
    BY <2>1, SubsetCardinality
  <2>3. SumFunctionOnSet(f, T) = f[Pick(T)] + SumFunctionOnSet(f, T \ {Pick(T)})
    BY <2>2, SumRemovePick
  <2>4. SumFunctionOnSet(f, T \ {Pick(T)}) \in Nat
    BY <1>2, <2>2
  <2>5. f[Pick(T)] \in Nat
    BY <2>2
  <2> QED
    BY <2>3, <2>4, <2>5
<1>3. Cardinality(S) \in N
  <2> HIDE DEF N
  <2>1. Nat \subseteq N
    BY <1>1, <1>2, Induction
  <2> QED
    BY <2>1, FS_CardinalityType
<1> QED
  BY <1>3

\* Changing one summand changes the sum by as much.
LEMMA SumChange ==
    ASSUME NEW S, IsFiniteSet(S), NEW f, NEW e, NEW x \in S,
           \A y \in S : f[y] \in Int /\ e[y] \in Int, \A y \in S \ {x} : e[y] = f[y]
    PROVE  SumFunctionOnSet(e, S) = SumFunctionOnSet(f, S) - f[x] + e[x]
<1> DEFINE R == S \ {x}
<1>1. IsFiniteSet(R)
  BY FS_RemoveElement
<1>2. SumFunctionOnSet(f, S) = f[x] + SumFunctionOnSet(f, R)
  BY SumRemove
<1>3. SumFunctionOnSet(e, S) = e[x] + SumFunctionOnSet(e, R)
  <2>1. \A y \in S : e[y] \in Int
    OBVIOUS
  <2> QED
    BY <2>1, SumRemove
<1>4. SumFunctionOnSet(e, R) = SumFunctionOnSet(f, R)
  <2>1. \A y \in R : f[y] \in Int /\ e[y] = f[y]
    OBVIOUS
  <2> QED
    BY <1>1, <2>1, SumSame
<1>5. SumFunctionOnSet(f, R) \in Int
  <2>1. \A y \in R : f[y] \in Int
    OBVIOUS
  <2> QED
    BY <1>1, <2>1, SumType
<1> QED
  BY <1>2, <1>3, <1>4, <1>5

\* Two numbers that sum to zero are opposite.
LEMMA Opposite == ASSUME NEW x \in Int, NEW y \in Int, x + y = 0 PROVE y = -x
  OBVIOUS

----------------------------------------------------------------------------
(* Sums over parts of a set, and of functions compared point by point.     *)

\* A collection of subsets of S that has the empty set, and with a set every set of
\* one element more, has S.
LEMMA SetInduction ==
    ASSUME NEW S, IsFiniteSet(S), NEW F, {} \in F,
           \A T \in SUBSET S : \A x \in S \ T : T \in F => T \cup {x} \in F
    PROVE  S \in F
<1> DEFINE N == {n \in Nat : \A T \in SUBSET S : Cardinality(T) = n => T \in F}
<1>1. 0 \in N
  BY SubsetCardinality
<1>2. ASSUME NEW n \in Nat, n \in N PROVE n + 1 \in N
  <2>1. SUFFICES ASSUME NEW T \in SUBSET S, Cardinality(T) = n + 1 PROVE T \in F
    OBVIOUS
  <2>2. T # {} /\ Pick(T) \in T /\ Cardinality(T \ {Pick(T)}) = n
    BY <2>1, SubsetCardinality
  <2>3. T \ {Pick(T)} \in F
    BY <1>2, <2>2
  <2>4. (T \ {Pick(T)}) \cup {Pick(T)} = T
    BY <2>2
  <2> QED
    BY <2>2, <2>3, <2>4
<1>3. Cardinality(S) \in N
  <2> HIDE DEF N
  <2>1. Nat \subseteq N
    BY <1>1, <1>2, Induction
  <2> QED
    BY <2>1, FS_CardinalityType
<1> QED
  BY <1>3

\* The sum over two disjoint sets is the sum of their sums.
LEMMA SumUnion ==
    ASSUME NEW R, IsFiniteSet(R), NEW S, IsFiniteSet(S), R \cap S = {},
           NEW f, \A x \in R \cup S : f[x] \in Int
    PROVE  SumFunctionOnSet(f, R \cup S) = SumFunctionOnSet(f, R) + SumFunctionOnSet(f, S)
<1> DEFINE Sum(T) == SumFunctionOnSet(f, T)
           F == {T \in SUBSET S : Sum(R \cup T) = Sum(R) + Sum(T)}
<1>1. {} \in F
  <2>1. Sum({}) = 0 /\ Sum(R) \in Int
    BY SumEmpty, SumType
  <2> QED
    BY <2>1
<1>2. ASSUME NEW T \in SUBSET S, NEW x \in S \ T, T \in F PROVE T \cup {x} \in F
  <2>1. IsFiniteSet(T) /\ IsFiniteSet(R \cup T)
    BY FS_Subset, FS_Union
  <2>2. Sum(T \cup {x}) = Sum(T) + f[x]
    BY <2>1, SumAdd
  <2>3. Sum((R \cup T) \cup {x}) = Sum(R \cup T) + f[x]
    <3>1. x \notin R \cup T /\ \A y \in (R \cup T) \cup {x} : f[y] \in Int
      OBVIOUS
    <3> QED
      BY <2>1, <3>1, SumAdd
  <2>4. Sum(R) \in Int /\ Sum(T) \in Int /\ f[x] \in Int
    BY <2>1, SumType
  <2>5. R \cup (T \cup {x}) = (R \cup T) \cup {x} /\ Sum(R \cup T) = Sum(R) + Sum(T)
    BY <1>2
  <2> HIDE DEF Sum
  <2>6. Sum(R \cup (T \cup {x})) = Sum((R \cup T) \cup {x})
    BY <2>5, Zenon
  <2>7. Sum(R \cup (T \cup {x})) = Sum(R) + Sum(T \cup {x})
    BY <2>2, <2>3, <2>4, <2>5, <2>6
  <2>8. T \cup {x} \in SUBSET S
    OBVIOUS
  <2> QED
    BY <2>7, <2>8
<1>3. S \in F
  <2> HIDE DEF F
  <2> QED
    BY <1>1, <1>2, SetInduction
<1> QED
  BY <1>3

\* The sum of two functions added point by point is the sum of their sums.
LEMMA SumPlus ==
    ASSUME NEW S, IsFiniteSet(S), NEW f, NEW g, NEW h,
           \A x \in S : f[x] \in Int /\ g[x] \in Int /\ h[x] = f[x] + g[x]
    PROVE  SumFunctionOnSet(h, S) = SumFunctionOnSet(f, S) + SumFunctionOnSet(g, S)
<1> DEFINE F == {T \in SUBSET S :
                    SumFunctionOnSet(h, T) = SumFunctionOnSet(f, T) + SumFunctionOnSet(g, T)}
<1>1. {} \in F
  BY SumEmpty
<1>2. ASSUME NEW T \in SUBSET S, NEW x \in S \ T, T \in F PROVE T \cup {x} \in F
  <2>1. IsFiniteSet(T)
    BY FS_Subset
  <2>2. \A y \in T \cup {x} : f[y] \in Int /\ g[y] \in Int /\ h[y] \in Int
    OBVIOUS
  <2>3. /\ SumFunctionOnSet(f, T \cup {x}) = SumFunctionOnSet(f, T) + f[x]
        /\ SumFunctionOnSet(g, T \cup {x}) = SumFunctionOnSet(g, T) + g[x]
        /\ SumFunctionOnSet(h, T \cup {x}) = SumFunctionOnSet(h, T) + h[x]
    BY <2>1, <2>2, SumAdd
  <2>4. SumFunctionOnSet(f, T) \in Int /\ SumFunctionOnSet(g, T) \in Int
    BY <2>1, <2>2, SumType
  <2>5. h[x] = f[x] + g[x] /\ f[x] \in Int /\ g[x] \in Int
    OBVIOUS
  <2>6. SumFunctionOnSet(h, T) = SumFunctionOnSet(f, T) + SumFunctionOnSet(g, T)
    BY <1>2
  <2> QED
    BY <2>3, <2>4, <2>5, <2>6
<1>3. S \in F
  <2> HIDE DEF F
  <2> QED
    BY <1>1, <1>2, SetInduction
<1> QED
  BY <1>3

\* The sum of a constant.
LEMMA SumConstant ==
    ASSUME NEW S, IsFiniteSet(S), NEW n \in Int, NEW f, \A x \in S : f[x] = n
    PROVE  SumFunctionOnSet(f, S) = n * Cardinality(S)
<1> DEFINE F == {T \in SUBSET S : SumFunctionOnSet(f, T) = n * Cardinality(T)}
<1>1. {} \in F
  BY SumEmpty, FS_EmptySet
<1>2. ASSUME NEW T \in SUBSET S, NEW x \in S \ T, T \in F PROVE T \cup {x} \in F
  <2>1. IsFiniteSet(T)
    BY FS_Subset
  <2>2. SumFunctionOnSet(f, T \cup {x}) = SumFunctionOnSet(f, T) + n
    <3>1. (\A y \in T \cup {x} : f[y] \in Int) /\ f[x] = n
      OBVIOUS
    <3>2. SumFunctionOnSet(f, T \cup {x}) = SumFunctionOnSet(f, T) + f[x]
      BY <2>1, <3>1, SumAdd
    <3> QED
      BY <3>1, <3>2
  <2>3. Cardinality(T \cup {x}) = Cardinality(T) + 1 /\ Cardinality(T) \in Nat
    BY <2>1, FS_AddElement, FS_CardinalityType
  <2>4. n * (Cardinality(T) + 1) = n * Cardinality(T) + n
    BY <2>3
  <2> QED
    BY <1>2, <2>2, <2>3, <2>4
<1>3. S \in F
  <2> HIDE DEF F
  <2> QED
    BY <1>1, <1>2, SetInduction
<1> QED
  BY <1>3

\* The sum of multiples is the multiple of the sum.
LEMMA SumTimes ==
    ASSUME NEW S, IsFiniteSet(S), NEW n \in Int, NEW f, NEW h, \A x \in S : f[x] \in Int /\ h[x] = n * f[x]
    PROVE  SumFunctionOnSet(h, S) = n * SumFunctionOnSet(f, S)
<1> DEFINE F == {T \in SUBSET S : SumFunctionOnSet(h, T) = n * SumFunctionOnSet(f, T)}
<1>1. {} \in F
  BY SumEmpty
<1>2. ASSUME NEW T \in SUBSET S, NEW x \in S \ T, T \in F PROVE T \cup {x} \in F
  <2>1. IsFiniteSet(T) /\ x \notin T /\ \A y \in T \cup {x} : f[y] \in Int /\ h[y] \in Int
    BY FS_Subset
  <2>2. SumFunctionOnSet(h, T \cup {x}) = SumFunctionOnSet(h, T) + h[x]
    BY <2>1, SumAdd
  <2>3. SumFunctionOnSet(f, T \cup {x}) = SumFunctionOnSet(f, T) + f[x]
    BY <2>1, SumAdd
  <2>4. SumFunctionOnSet(f, T) \in Int
    BY <2>1, SumType
  <2>5. SumFunctionOnSet(h, T) = n * SumFunctionOnSet(f, T) /\ h[x] = n * f[x] /\ f[x] \in Int
    BY <1>2
  <2>6. n * (SumFunctionOnSet(f, T) + f[x]) = n * SumFunctionOnSet(f, T) + n * f[x]
    BY ONLY <2>4, <2>5, n \in Int
  <2>. QED
    BY <2>2, <2>3, <2>5, <2>6
<1>. HIDE DEF F
<1>3. S \in F
  BY <1>1, <1>2, SetInduction
<1> QED
  BY <1>3 DEF F

\* A sum of zeros is zero.
LEMMA SumZero ==
    ASSUME NEW S, IsFiniteSet(S), NEW f, \A x \in S : f[x] = 0
    PROVE  SumFunctionOnSet(f, S) = 0
<1>1. SumFunctionOnSet(f, S) = 0 * Cardinality(S) /\ Cardinality(S) \in Nat
  BY SumConstant, FS_CardinalityType
<1> QED
  BY <1>1

\* Only the part where a function is not zero counts.
LEMMA SumSupport ==
    ASSUME NEW S, IsFiniteSet(S), NEW R \in SUBSET S, NEW f,
           \A x \in R : f[x] \in Int, \A x \in S \ R : f[x] = 0
    PROVE  SumFunctionOnSet(f, S) = SumFunctionOnSet(f, R)
<1>1. IsFiniteSet(R) /\ IsFiniteSet(S \ R) /\ R \cup (S \ R) = S /\ R \cap (S \ R) = {}
  BY FS_Subset, FS_Difference
<1>2. \A x \in R \cup (S \ R) : f[x] \in Int
  OBVIOUS
<1>3. SumFunctionOnSet(f, R \cup (S \ R)) = SumFunctionOnSet(f, R) + SumFunctionOnSet(f, S \ R)
  BY <1>1, <1>2, SumUnion
<1>4. SumFunctionOnSet(f, S \ R) = 0 /\ SumFunctionOnSet(f, R) \in Int
  BY <1>1, SumZero, SumType
<1> QED
  BY <1>1, <1>3, <1>4

\* A part of natural summands sums to no more than the whole.
LEMMA SumPart ==
    ASSUME NEW S, IsFiniteSet(S), NEW R \in SUBSET S, NEW f, \A x \in S : f[x] \in Nat
    PROVE  SumFunctionOnSet(f, R) =< SumFunctionOnSet(f, S)
<1>1. IsFiniteSet(R) /\ IsFiniteSet(S \ R) /\ R \cup (S \ R) = S /\ R \cap (S \ R) = {}
  BY FS_Subset, FS_Difference
<1>2. SumFunctionOnSet(f, R \cup (S \ R)) = SumFunctionOnSet(f, R) + SumFunctionOnSet(f, S \ R)
  BY <1>1, SumUnion
<1>3. SumFunctionOnSet(f, R) \in Nat /\ SumFunctionOnSet(f, S \ R) \in Nat
  BY <1>1, SumNat
<1>4. SumFunctionOnSet(f, S) = SumFunctionOnSet(f, R) + SumFunctionOnSet(f, S \ R)
  BY <1>1, <1>2
<1> QED
  BY <1>3, <1>4

\* What one summand gives to another leaves the sum.
LEMMA SumMove ==
    ASSUME NEW S, IsFiniteSet(S), NEW f, NEW e, NEW x \in S, NEW y \in S, x # y,
           \A z \in S : f[z] \in Int /\ e[z] \in Int,
           e[x] + e[y] = f[x] + f[y],
           \A z \in S \ {x, y} : e[z] = f[z]
    PROVE  SumFunctionOnSet(e, S) = SumFunctionOnSet(f, S)
<1> DEFINE g == [z \in S |-> IF z = x THEN e[x] ELSE f[z]]
<1>1. \A z \in S : g[z] \in Int /\ e[z] \in Int /\ f[z] \in Int
  OBVIOUS
<1>2. \A z \in S \ {x} : g[z] = f[z]
  OBVIOUS
<1>3. \A z \in S \ {y} : e[z] = g[z]
  OBVIOUS
<1>4. g[x] = e[x] /\ g[y] = f[y]
  OBVIOUS
<1> HIDE DEF g
<1>5. SumFunctionOnSet(g, S) = SumFunctionOnSet(f, S) - f[x] + g[x]
  BY <1>1, <1>2, SumChange
<1>6. SumFunctionOnSet(e, S) = SumFunctionOnSet(g, S) - g[y] + e[y]
  BY <1>1, <1>3, SumChange
<1>7. SumFunctionOnSet(f, S) \in Int /\ SumFunctionOnSet(g, S) \in Int
  BY <1>1, SumType
<1> QED
  BY <1>4, <1>5, <1>6, <1>7

\* A sum is no more than that of a function nowhere smaller.
LEMMA SumAtMost ==
    ASSUME NEW S, IsFiniteSet(S), NEW f, NEW g,
           \A x \in S : f[x] \in Int /\ g[x] \in Int /\ f[x] =< g[x]
    PROVE  SumFunctionOnSet(f, S) =< SumFunctionOnSet(g, S)
<1> DEFINE d == [x \in S |-> g[x] - f[x]]
<1>1. \A x \in S : d[x] \in Nat /\ f[x] \in Int /\ g[x] = f[x] + d[x]
  OBVIOUS
<1> HIDE DEF d
<1>2. SumFunctionOnSet(g, S) = SumFunctionOnSet(f, S) + SumFunctionOnSet(d, S)
  BY <1>1, SumPlus
<1>3. SumFunctionOnSet(d, S) \in Nat /\ SumFunctionOnSet(f, S) \in Int
  BY <1>1, SumNat, SumType
<1> QED
  BY <1>2, <1>3

\* When one row changes, or enters or leaves the selection, the sum changes by its
\* value.
LEMMA SumSelected ==
    ASSUME NEW A, NEW B, IsFiniteSet(A), IsFiniteSet(B), NEW f, NEW g, NEW x,
           \A y \in A : f[y] \in Int, \A y \in B : g[y] \in Int,
           A \ {x} = B \ {x}, \A y \in A \ {x} : g[y] = f[y]
    PROVE  SumFunctionOnSet(g, B) = SumFunctionOnSet(f, A) - (IF x \in A THEN f[x] ELSE 0)
                                      + (IF x \in B THEN g[x] ELSE 0)
<1> DEFINE C == A \ {x}
<1>1. IsFiniteSet(C) /\ \A y \in C : f[y] \in Int /\ g[y] = f[y]
  BY FS_RemoveElement
<1>2. SumFunctionOnSet(g, C) = SumFunctionOnSet(f, C) /\ SumFunctionOnSet(f, C) \in Int
  BY <1>1, SumSame, SumType
<1>3. SumFunctionOnSet(f, A) = (IF x \in A THEN f[x] ELSE 0) + SumFunctionOnSet(f, C)
  <2>1. CASE x \in A
    BY <2>1, SumRemove
  <2>2. CASE x \notin A
    <3>1. A = C
      BY <2>2
    <3>2. SumFunctionOnSet(f, A) = SumFunctionOnSet(f, C)
      BY <3>1, Zenon
    <3> QED
      BY <1>2, <2>2, <3>2
  <2> QED
    BY <2>1, <2>2
<1>4. SumFunctionOnSet(g, B) = (IF x \in B THEN g[x] ELSE 0) + SumFunctionOnSet(g, C)
  <2>1. B \ {x} = C
    OBVIOUS
  <2>2. CASE x \in B
    <3>1. SumFunctionOnSet(g, B) = g[x] + SumFunctionOnSet(g, B \ {x})
      BY <2>2, SumRemove
    <3>2. SumFunctionOnSet(g, B \ {x}) = SumFunctionOnSet(g, C)
      BY <2>1, Zenon
    <3> QED
      BY <2>2, <3>1, <3>2
  <2>3. CASE x \notin B
    <3>1. B = C
      BY <2>1, <2>3
    <3>2. SumFunctionOnSet(g, B) = SumFunctionOnSet(g, C)
      BY <3>1, Zenon
    <3> QED
      BY <1>2, <2>3, <3>2
  <2> QED
    BY <2>2, <2>3
<1>5. (x \in A => f[x] \in Int) /\ (x \in B => g[x] \in Int)
  OBVIOUS
<1> HIDE DEF C
<1> QED
  BY <1>2, <1>3, <1>4, <1>5

----------------------------------------------------------------------------
(* Images of finite sets.                                                  *)

\* The values of a function on a finite set.
LEMMA FiniteImage ==
    ASSUME NEW S, IsFiniteSet(S), NEW T, NEW f \in [S -> T], \A y \in T : \E x \in S : f[x] = y
    PROVE  IsFiniteSet(T)
<1>1. f \in Surjection(S, T)
  BY DEF Surjection
<1> QED
  BY <1>1, FS_Surjection

\* They are as many as the set has members when no two are the same.
LEMMA ImageSize ==
    ASSUME NEW S, IsFiniteSet(S), NEW T, NEW f \in [S -> T], \A y \in T : \E x \in S : f[x] = y,
           \A x, y \in S : f[x] = f[y] => x = y
    PROVE  Cardinality(T) = Cardinality(S)
<1>1. f \in Surjection(S, T)
  BY DEF Surjection
<1>2. f \in Injection(S, T)
  BY DEF Injection, IsInjective
<1> QED
  BY <1>1, <1>2, FS_Surjection

----------------------------------------------------------------------------
(* The rounded divisions and the rates.                                    *)

\* Integer division is monotone and exact on multiples.
LEMMA DivLaw ==
    ASSUME NEW n \in Int, NEW d \in Nat \ {0}
    PROVE  n \div d \in Int /\ d * (n \div d) =< n /\ n < d * (n \div d) + d
  OBVIOUS

\* Integer division is monotone in its dividend.
LEMMA DivMonotone ==
    ASSUME NEW m \in Int, NEW n \in Int, NEW d \in Nat \ {0}, m =< n
    PROVE  m \div d =< n \div d
<1> DEFINE p == m \div d
           q == n \div d
<1>1. p \in Int /\ d * p =< m /\ m < d * p + d
  BY DivLaw
<1>2. q \in Int /\ d * q =< n /\ n < d * q + d
  BY DivLaw
<1> HIDE DEF p, q
<1>3. ASSUME q < p PROVE FALSE
  <2>1. q + 1 =< p
    BY <1>1, <1>2, <1>3
  <2>2. d * (q + 1) =< d * p
    BY <1>1, <1>2, <2>1
  <2>3. d * (q + 1) = d * q + d
    BY <1>2
  <2> QED
    BY <1>1, <1>2, <2>2, <2>3
<1>4. p =< q
  BY <1>1, <1>2, <1>3
<1> QED
  BY <1>4 DEF p, q

\* Rounding is monotone, and keeps zero and what is not negative.
LEMMA RoundType ==
    ASSUME NEW n \in Int, NEW d \in Nat \ {0}
    PROVE  Round(n, d) \in Int
  BY DEF Round

\* Rounding is monotone.
LEMMA RoundMonotone ==
    ASSUME NEW m \in Int, NEW n \in Int, NEW d \in Nat \ {0}, m =< n
    PROVE  Round(m, d) =< Round(n, d)
<1>1. 2 * m + d \in Int /\ 2 * n + d \in Int /\ 2 * d \in Nat \ {0} /\ 2 * m + d =< 2 * n + d
  OBVIOUS
<1> QED
  BY <1>1, DivMonotone DEF Round

\* Rounding nothing gives nothing.
LEMMA RoundZero ==
    ASSUME NEW d \in Nat \ {0}
    PROVE  Round(0, d) = 0
<1> DEFINE q == (2 * 0 + d) \div (2 * d)
<1>1. 2 * 0 + d \in Int /\ 2 * d \in Nat \ {0}
  OBVIOUS
<1>2. q \in Int /\ (2 * d) * q =< d /\ d < (2 * d) * q + 2 * d
  BY <1>1, DivLaw
<1> HIDE DEF q
<1>3. ~(q >= 1)
  <2> SUFFICES ASSUME q >= 1 PROVE FALSE
    OBVIOUS
  <2>1. (2 * d) * q >= (2 * d) * 1
    BY <1>2
  <2> QED
    BY <1>2, <2>1
<1>4. ~(q =< -1)
  <2> SUFFICES ASSUME q =< -1 PROVE FALSE
    OBVIOUS
  <2>1. (2 * d) * q =< (2 * d) * (-1)
    BY <1>2
  <2> QED
    BY <1>2, <2>1
<1>5. q = 0
  BY <1>2, <1>3, <1>4
<1> QED
  BY <1>5 DEF q, Round

\* Rounding a share of a natural number gives a natural number.
LEMMA RoundNat ==
    ASSUME NEW n \in Nat, NEW d \in Nat \ {0}
    PROVE  Round(n, d) \in Nat
  BY RoundType, RoundMonotone, RoundZero

\* Rounding a share plus whole units adds the units.
LEMMA RoundShift ==
    ASSUME NEW n \in Int, NEW d \in Nat \ {0}, NEW c \in Int
    PROVE  Round(n + c * d, d) = Round(n, d) + c
<1> DEFINE num == 2 * n + d
           den == 2 * d
           q == num \div den
           num2 == 2 * (n + c * d) + d
           q2 == num2 \div den
           cd == c * d
<1>1. num \in Int /\ num2 \in Int /\ den \in Nat \ {0} /\ cd \in Int /\ num2 = num + 2 * cd
  OBVIOUS
<1>2. c * den = 2 * cd
  OBVIOUS
<1>3. Round(n + c * d, d) = q2 /\ Round(n, d) = q
  BY DEF Round
<1> HIDE DEF num, den, num2, cd
<1>4. q \in Int /\ den * q =< num /\ num < den * q + den
  BY <1>1, DivLaw
<1>5. q2 \in Int /\ den * q2 =< num2 /\ num2 < den * q2 + den
  BY <1>1, DivLaw
<1> HIDE DEF q, q2
<1> DEFINE z == q2 - (q + c)
<1>6. den * q2 = den * q + c * den + den * z
  BY <1>1, <1>4, <1>5
<1>7. z \in Int /\ den * z \in Int /\ den * q \in Int /\ den * q2 \in Int
  BY <1>1, <1>4, <1>5
<1>8. den * z < den /\ -den < den * z
  BY <1>1, <1>2, <1>4, <1>5, <1>6, <1>7
<1> HIDE DEF z
<1>9. ~(z >= 1)
  <2> SUFFICES ASSUME z >= 1 PROVE FALSE
    OBVIOUS
  <2>1. den * (z - 1) \in Nat /\ den * z = den * (z - 1) + den
    BY <1>1, <1>7
  <2> QED
    BY <1>1, <1>7, <1>8, <2>1
<1>10. ~(z =< -1)
  <2> SUFFICES ASSUME z =< -1 PROVE FALSE
    OBVIOUS
  <2> DEFINE w == -(z + 1)
  <2>1. w \in Nat
    BY <1>7
  <2>2. den * w \in Nat /\ den * z = -(den * w) - den
    BY <1>1, <1>7
  <2> HIDE DEF w
  <2> QED
    BY <1>1, <1>7, <1>8, <2>1, <2>2
<1>11. z = 0
  BY <1>7, <1>9, <1>10
<1> QED
  BY <1>3, <1>4, <1>5, <1>11 DEF z

\* Rounding is off by at most a half.
LEMMA RoundError ==
    ASSUME NEW n \in Int, NEW d \in Nat \ {0}
    PROVE  2 * (d * Round(n, d) - n) =< d /\ -d =< 2 * (d * Round(n, d) - n)
<1> DEFINE q == (2 * n + d) \div (2 * d)
<1>1. 2 * n + d \in Int /\ 2 * d \in Nat \ {0}
  OBVIOUS
<1>2. q \in Int /\ (2 * d) * q =< 2 * n + d /\ 2 * n + d < (2 * d) * q + 2 * d
  BY <1>1, DivLaw
<1> HIDE DEF q
<1>3. d * q \in Int /\ (2 * d) * q = 2 * (d * q)
  BY <1>2
<1> DEFINE dq == d * q
<1> HIDE DEF dq
<1>4. dq \in Int /\ 2 * dq =< 2 * n + d /\ 2 * n + d < 2 * dq + 2 * d
  BY <1>2, <1>3 DEF dq
<1>5. 2 * (dq - n) =< d /\ -d =< 2 * (dq - n)
  BY <1>4
<1> QED
  BY <1>5 DEF Round, dq, q

\* Whole units are not rounded.
LEMMA RoundExact ==
    ASSUME NEW c \in Int, NEW d \in Nat \ {0}
    PROVE  Round(c * d, d) = c
<1> DEFINE cd == c * d
<1>1. Round(0 + cd, d) = Round(0, d) + c
  BY RoundShift
<1>2. cd \in Int
  OBVIOUS
<1> HIDE DEF cd
<1>3. 0 + cd = cd
  BY <1>2
<1> QED
  BY <1>1, <1>3, RoundZero DEF cd

\* A finite set that is not empty has an element of greatest measure.
LEMMA FiniteMax ==
    ASSUME NEW S, IsFiniteSet(S), S # {}, NEW f, \A x \in S : f[x] \in Int
    PROVE  \E m \in S : \A x \in S : f[x] =< f[m]
<1> DEFINE N == {n \in Nat : \A T \in SUBSET S :
                    Cardinality(T) = n /\ T # {} => \E m \in T : \A x \in T : f[x] =< f[m]}
<1>1. 0 \in N
  BY SubsetCardinality
<1>2. ASSUME NEW n \in Nat, n \in N PROVE n + 1 \in N
  <2>1. SUFFICES ASSUME NEW T \in SUBSET S, Cardinality(T) = n + 1, T # {}
                 PROVE  \E m \in T : \A x \in T : f[x] =< f[m]
    OBVIOUS
  <2> DEFINE R == T \ {Pick(T)}
  <2>2. Pick(T) \in T /\ Cardinality(R) = n
    <3>1. T # {} => Pick(T) \in T /\ Cardinality(T \ {Pick(T)}) = Cardinality(T) - 1
      BY SubsetCardinality
    <3> QED
      BY <2>1, <3>1
  <2>3. CASE R = {}
    <3>1. \A x \in T : x = Pick(T)
      BY <2>3
    <3>2. f[Pick(T)] \in Int
      BY <2>2
    <3>3. \A x \in T : f[x] =< f[Pick(T)]
      BY <3>1, <3>2
    <3> QED
      BY <2>2, <3>3
  <2>4. CASE R # {}
    <3>1. PICK m \in R : \A x \in R : f[x] =< f[m]
      BY <1>2, <2>2, <2>4
    <3>2. \A x \in T : x \in R \/ x = Pick(T)
      OBVIOUS
    <3>3. f[m] \in Int /\ f[Pick(T)] \in Int /\ m \in T /\ \A x \in T : f[x] \in Int
      BY <2>2
    <3>4. CASE f[Pick(T)] =< f[m]
      BY <3>1, <3>2, <3>3, <3>4
    <3>5. CASE f[m] =< f[Pick(T)]
      BY <2>2, <3>1, <3>2, <3>3, <3>5
    <3> QED
      BY <3>3, <3>4, <3>5
  <2> QED
    BY <2>3, <2>4
<1>3. Cardinality(S) \in N
  <2> HIDE DEF N
  <2>1. Nat \subseteq N
    BY <1>1, <1>2, Induction
  <2> QED
    BY <2>1, FS_CardinalityType
<1> QED
  BY <1>3

----------------------------------------------------------------------------
(* Prices and values.                                                      *)

\* The value of a whole number of bits is a whole, non-negative number of cents.
LEMMA ValueNat ==
    ASSUME NEW bits \in Nat
    PROVE  ValueCents(bits) \in Nat
<1>1. bits * 100 \in Nat
  OBVIOUS
<1> QED
  BY <1>1, RoundNat, RatesAssumption DEF ValueCents

\* The value of some bits is off by at most half a cent, and exact when bits are whole
\* cents.
LEMMA ValueError ==
    ASSUME NEW bits \in Nat
    PROVE  LET off == ValueCents(bits) * BitsPerUsd - 100 * bits
           IN  /\ off \in Int /\ 2 * off =< BitsPerUsd /\ -BitsPerUsd =< 2 * off
               /\ 100 % BitsPerUsd = 0 => off = 0
<1> DEFINE v == ValueCents(bits)
           n == bits * 100
<1>1. BitsPerUsd \in Nat \ {0} /\ n \in Int /\ n = 100 * bits
  BY RatesAssumption
<1>2. v = Round(n, BitsPerUsd)
  BY DEF ValueCents
<1>3. v \in Int
  BY ValueNat
<1> HIDE DEF v, n
<1>4. v * BitsPerUsd \in Int /\ v * BitsPerUsd = BitsPerUsd * v
  BY <1>1, <1>3
<1>5. 2 * (BitsPerUsd * v - n) =< BitsPerUsd /\ -BitsPerUsd =< 2 * (BitsPerUsd * v - n)
  BY <1>1, <1>2, RoundError
<1>6. ASSUME 100 % BitsPerUsd = 0 PROVE v * BitsPerUsd = n
  <2> DEFINE q == 100 \div BitsPerUsd
  <2>1. q \in Int /\ 100 = BitsPerUsd * q
    BY <1>1, <1>6
  <2> HIDE DEF q
  <2>2. bits * q \in Int /\ n = (bits * q) * BitsPerUsd
    BY <1>1, <2>1
  <2>3. v = bits * q
    BY <1>1, <1>2, <2>2, RoundExact
  <2> QED
    BY <2>2, <2>3
<1>7. /\ v * BitsPerUsd - n \in Int
      /\ 2 * (v * BitsPerUsd - n) =< BitsPerUsd /\ -BitsPerUsd =< 2 * (v * BitsPerUsd - n)
      /\ 100 % BitsPerUsd = 0 => v * BitsPerUsd - n = 0
  BY <1>1, <1>4, <1>5, <1>6
<1> QED
  BY <1>1, <1>7 DEF v

\* At the default rate a bit is worth a cent.
LEMMA ValueDefault ==
    ASSUME NEW bits \in Nat, BitsPerUsd = 100
    PROVE  ValueCents(bits) = bits
  BY RoundExact DEF ValueCents

\* The bits some cents are worth are a natural number.
LEMMA BitsForValueNat ==
    ASSUME NEW cents \in Nat
    PROVE  BitsForValueCents(cents) \in Nat
<1>1. cents * BitsPerUsd \in Int
  BY RatesAssumption
<1>2. Round(cents * BitsPerUsd, 100) \in Int
  BY <1>1, RoundType
<1> QED
  BY <1>2 DEF BitsForValueCents, AtLeast

\* Every amount of bits has a tier, hence a price.
LEMMA TierExists ==
    ASSUME NEW bits \in Nat
    PROVE  TierOf(bits) \in PriceTiers
<1> DEFINE reached == {t \in PriceTiers : bits >= t.min}
<1>0. \A t \in PriceTiers : t.min \in Nat
  BY RatesAssumption
<1>1. CASE reached # {}
  <2> DEFINE f == [t \in PriceTiers |-> t.min]
  <2>1. IsFiniteSet(reached) /\ \A t \in reached : f[t] = t.min /\ f[t] \in Int
    BY <1>0, FS_Subset, RatesAssumption
  <2> HIDE DEF f
  <2>2. \E t \in reached : \A o \in reached : f[o] =< f[t]
    BY <1>1, <2>1, FiniteMax
  <2>3. \E t \in reached : \A o \in reached : t.min >= o.min
    BY <1>0, <2>1, <2>2
  <2> QED
    BY <1>1, <2>3 DEF TierOf
<1>2. CASE reached = {}
  <2> DEFINE f == [t \in PriceTiers |-> -t.min]
  <2>1. \A t \in PriceTiers : f[t] = -t.min /\ f[t] \in Int
    BY <1>0
  <2> HIDE DEF f
  <2>2. \E t \in PriceTiers : \A o \in PriceTiers : f[o] =< f[t]
    BY <2>1, FiniteMax, RatesAssumption
  <2>3. \E t \in PriceTiers : \A o \in PriceTiers : t.min =< o.min
    BY <1>0, <2>1, <2>2
  <2> QED
    BY <1>2, <2>3 DEF TierOf
<1> QED
  BY <1>1, <1>2

\* A price is a natural number.
LEMMA PriceNat ==
    ASSUME NEW bits \in Nat
    PROVE  PriceCents(bits) \in Nat
<1>1. TierOf(bits).price \in Nat
  BY TierExists, RatesAssumption
<1>2. bits * TierOf(bits).price \in Nat
  BY <1>1
<1> QED
  BY <1>2, RoundNat DEF PriceCents

\* What some cents buy is a natural number.
LEMMA BoughtNat ==
    ASSUME NEW cents \in Nat
    PROVE  BitsForPriceCents(cents) \in Nat
<1> DEFINE packs == {(cents * 100) \div t.price : t \in PriceTiers}
           offered == {b \in packs :
                         /\ PriceCents(b) =< cents
                         /\ \E t \in PriceTiers : b = (cents * 100) \div t.price /\ b >= t.min}
<1>1. \A t \in PriceTiers : t.price \in Nat \ {0}
  BY RatesAssumption
<1>2. packs \subseteq Nat
  <2>1. ASSUME NEW d \in Nat \ {0} PROVE (cents * 100) \div d \in Nat
    <3>1. cents * 100 \in Nat
      OBVIOUS
    <3> QED
      BY <3>1, DivLaw
  <2> QED
    BY <1>1, <2>1
<1>3. CASE offered # {}
  <2> DEFINE f == [t \in PriceTiers |-> (cents * 100) \div t.price]
             tiers == {t \in PriceTiers : f[t] \in offered}
  <2>1. \A t \in PriceTiers : f[t] \in packs
    OBVIOUS
  <2>2. \A b \in offered : \E t \in tiers : b = f[t]
    OBVIOUS
  <2>3. IsFiniteSet(tiers) /\ tiers # {} /\ \A t \in tiers : f[t] \in offered
    BY <1>3, <2>2, FS_Subset, RatesAssumption
  <2>4. offered \subseteq Nat
    BY <1>2
  <2> HIDE DEF f, tiers, offered
  <2>5. PICK m \in tiers : \A t \in tiers : f[t] =< f[m]
    <3>1. \A t \in tiers : f[t] \in Nat
      BY <2>3, <2>4, Zenon
    <3>2. \A t \in tiers : f[t] \in Int
      BY <3>1
    <3> QED
      BY <2>3, <3>2, FiniteMax
  <2>6. \E b \in offered : \A o \in offered : b >= o
    <3>1. f[m] \in offered /\ f[m] \in Nat
      BY <2>3, <2>4
    <3>2. \A o \in offered : f[m] >= o
      BY <2>2, <2>4, <2>5, <3>1
    <3> QED
      BY <3>1, <3>2
  <2>7. (CHOOSE b \in offered : \A o \in offered : b >= o) \in Nat
    BY <2>4, <2>6
  <2> QED
    BY <1>3, <2>7 DEF offered, BitsForPriceCents
<1>4. CASE offered = {}
  BY <1>4 DEF BitsForPriceCents
<1> QED
  BY <1>3, <1>4

=============================================================================
