------------------------------ MODULE FoldProofs ----------------------------
(***************************************************************************)
(* Folds over finite sets, which the community modules define by recursion *)
(* with a choice of the order: that the recursion has a solution, what it  *)
(* keeps to, and, for sums, that the order does not matter; sequences laid *)
(* one after another; and folds over sequences of any step and what it     *)
(* keeps to, which are the parameters of an INSTANCE.  Induction is by the *)
(* least counterexample.                                                   *)
(***************************************************************************)
EXTENDS FiniteSetTheorems, SequencesExt, TLAPS

CONSTANTS
  FoldStep(_, _, _),   \* what a fold makes of its result so far: context, result, member
  FoldHolds(_, _, _)   \* what is kept: context, result, members taken

\* How the recursion picks the next index, and what it does with it.
Pick(s) == CHOOSE x \in s : TRUE
NextSum(f, g, s) == IF s = {} THEN 0 ELSE f[Pick(s)] + g[s \ {Pick(s)}]

\* What g is to satisfy to be the partial sums of f over the subsets of S.
SumsUp(f, g, S) == g = [s \in SUBSET S |-> NextSum(f, g, s)]

\* Any index of a sum may be taken first.
TakenFirst(f, S, x) == SumFunctionOnSet(f, S) = f[x] + SumFunctionOnSet(f, S \ {x})
AnyFirst(f, g, S) == \A s \in SUBSET S : \A x \in s : g[s] = f[x] + g[s \ {x}]
-----------------------------------------------------------------------------
LEMMA LeastNatural ==
  ASSUME NEW T \in SUBSET Nat, T # {}
  PROVE  \E m \in T : \A y \in T : ~ (y < m)
  <1>1. \E m \in T : \A y \in T : ~ (<<y, m>> \in OpToRel(<, Nat))
    BY NatLessThanWellFounded, WFMin, Zenon
  <1>2. \A y, m \in Nat : y < m => <<y, m>> \in OpToRel(<, Nat)
    BY DEF OpToRel
  <1>3. QED  BY <1>1, <1>2

\* A set of naturals that has 0, and with each number the next, has them all.
LEMMA Induction ==
  ASSUME NEW T \in SUBSET Nat, 0 \in T, \A n \in T : n + 1 \in T
  PROVE  T = Nat
  <1> SUFFICES ASSUME Nat \ T # {}  PROVE FALSE
    OBVIOUS
  <1>1. PICK m \in Nat \ T : \A y \in Nat \ T : ~ (y < m)
    BY LeastNatural
  <1>2. m # 0 /\ m - 1 \in Nat  BY <1>1
  <1>3. m - 1 \in T  BY <1>1, <1>2
  <1>4. m - 1 + 1 = m  BY <1>1
  <1>5. QED  BY <1>1, <1>3, <1>4

LEMMA SumIsRecursive ==
  ASSUME NEW f, NEW S
  PROVE  SumFunctionOnSet(f, S) = (CHOOSE g : SumsUp(f, g, S))[S]
  BY DEF SumFunctionOnSet, FoldFunctionOnSet, MapThenFoldSet, SumsUp, NextSum, Pick

\* A subset of a finite set that is not empty has one to pick, and less without.
LEMMA SubsetsShrink ==
  ASSUME NEW S, IsFiniteSet(S)
  PROVE  \A s \in SUBSET S :
           /\ Cardinality(s) \in Nat
           /\ Cardinality(s) = 0 <=> s = {}
           /\ s # {} => /\ Pick(s) \in s
                        /\ s \ {Pick(s)} \in SUBSET S
                        /\ Cardinality(s \ {Pick(s)}) = Cardinality(s) - 1
  <1> TAKE s \in SUBSET S
  <1>1. IsFiniteSet(s)  BY FS_Subset
  <1>2. s # {} => Pick(s) \in s  BY DEF Pick
  <1>3. QED  BY <1>1, <1>2, FS_CardinalityType, FS_EmptySet, FS_RemoveElement

\* A fold of finitely many indices, picked in the order c, each by what F says:
\* g has the fold of every subset.
FoldOf(g, base, F, c, S) ==
  \A s \in SUBSET S : g[s] = IF s = {} THEN base ELSE F[c[s]][g[s \ {c[s]}]]
FoldTo(g, base, F, c, S, n) ==
  \A s \in SUBSET S : Cardinality(s) <= n =>
    g[s] = IF s = {} THEN base ELSE F[c[s]][g[s \ {c[s]}]]

Acts(F, S, V) == F \in [S -> [V -> V]]
Chooses(c, S) == \A s \in SUBSET S : s # {} => c[s] \in s
HasFold(base, F, c, S, V) == \E g \in [SUBSET S -> V] : FoldOf(g, base, F, c, S)

LEMMA FoldExists ==
  ASSUME NEW S, IsFiniteSet(S), NEW V, NEW base \in V, NEW F, Acts(F, S, V),
         NEW c, Chooses(c, S)
  PROVE  HasFold(base, F, c, S, V)
  <1> DEFINE T == {n \in Nat : \E g \in [SUBSET S -> V] : FoldTo(g, base, F, c, S, n)}
  <1>1. \A s \in SUBSET S : Cardinality(s) \in Nat /\ (Cardinality(s) = 0 <=> s = {})
    BY SubsetsShrink
  <1>2. \A s \in SUBSET S : s # {} =>
          /\ c[s] \in S /\ s \ {c[s]} \in SUBSET S
          /\ Cardinality(s \ {c[s]}) = Cardinality(s) - 1
    <2> TAKE s \in SUBSET S
    <2>1. IsFiniteSet(s)  BY FS_Subset
    <2>2. QED  BY <2>1, FS_RemoveElement DEF Chooses
  <1>3. 0 \in T
    <2> DEFINE first == [s \in SUBSET S |-> base]
    <2>1. ASSUME NEW s \in SUBSET S, Cardinality(s) <= 0
          PROVE  first[s] = IF s = {} THEN base ELSE F[c[s]][first[s \ {c[s]}]]
      <3> SUFFICES ASSUME NEW k \in Nat, k = Cardinality(s), k = 0 => s = {}
                   PROVE  s = {}
        BY <1>1
      <3>1. QED  BY <2>1
    <2>2. FoldTo(first, base, F, c, S, 0)  BY <2>1 DEF FoldTo
    <2>3. first \in [SUBSET S -> V]  OBVIOUS
    <2>4. QED  BY <2>2, <2>3
  <1>4. ASSUME NEW n \in T  PROVE n + 1 \in T
    <2>1. PICK g \in [SUBSET S -> V] : FoldTo(g, base, F, c, S, n)
      OBVIOUS
    <2> DEFINE next(s) == IF s = {} THEN base ELSE F[c[s]][g[s \ {c[s]}]]
               h == [s \in SUBSET S |-> IF Cardinality(s) <= n THEN g[s] ELSE next(s)]
    <2>2. ASSUME NEW s \in SUBSET S  PROVE next(s) \in V
      <3>1. s # {} => F[c[s]] \in [V -> V] /\ g[s \ {c[s]}] \in V  BY <1>2 DEF Acts
      <3>2. QED  BY <3>1
    <2>3. h \in [SUBSET S -> V]  BY <2>2
    <2>4. ASSUME NEW s \in SUBSET S, Cardinality(s) <= n + 1
          PROVE  h[s] = IF s = {} THEN base ELSE F[c[s]][h[s \ {c[s]}]]
      <3>1. h[s] = next(s)  BY <2>1, <2>4 DEF FoldTo
      <3>2. CASE s = {}
        BY <3>1, <3>2
      <3>3. CASE s # {}
        <4> SUFFICES Cardinality(s \ {c[s]}) <= n
          BY <3>1, <3>3, <1>2
        <4>1. QED  BY <3>3, <1>1, <1>2, <2>4
      <3>4. QED  BY <3>2, <3>3
    <2>5. FoldTo(h, base, F, c, S, n + 1)  BY <2>4 DEF FoldTo
    <2>6. n + 1 \in Nat  OBVIOUS
    <2> HIDE DEF h
    <2>7. QED  BY <2>3, <2>5, <2>6
  <1>5. T = Nat
    <2>1. T \in SUBSET Nat  OBVIOUS
    <2> HIDE DEF T
    <2>2. QED  BY <1>3, <1>4, <2>1, Induction
  <1>6. PICK g \in [SUBSET S -> V] : FoldTo(g, base, F, c, S, Cardinality(S))
    BY <1>1, <1>5
  <1>7. \A s \in SUBSET S : Cardinality(s) <= Cardinality(S)
    BY FS_Subset
  <1>8. QED  BY <1>6, <1>7 DEF FoldTo, FoldOf, HasFold

\* What each step keeps to, the fold keeps to.
Keeps(g, c, S, V) ==
  /\ g[{}] \in V
  /\ \A s \in SUBSET S : s # {} => (g[s \ {c[s]}] \in V => g[s] \in V)

LEMMA FoldStays ==
  ASSUME NEW S, IsFiniteSet(S), NEW V, NEW g, NEW c, Chooses(c, S), Keeps(g, c, S, V)
  PROVE  g[S] \in V
  <1> DEFINE T == {n \in Nat : \A s \in SUBSET S : Cardinality(s) <= n => g[s] \in V}
  <1>1. \A s \in SUBSET S : Cardinality(s) \in Nat /\ (Cardinality(s) = 0 <=> s = {})
    BY SubsetsShrink
  <1>2. 0 \in T
    <2> SUFFICES ASSUME NEW s \in SUBSET S, Cardinality(s) <= 0
                 PROVE  s = {}
      BY DEF Keeps
    <2> SUFFICES ASSUME NEW k \in Nat, k = Cardinality(s), k = 0 => s = {}
                 PROVE  s = {}
      BY <1>1
    <2>1. QED  OBVIOUS
  <1>3. ASSUME NEW n \in T  PROVE n + 1 \in T
    <2> SUFFICES ASSUME NEW s \in SUBSET S, Cardinality(s) <= n + 1, s # {}
                 PROVE  g[s] \in V
      <3>1. g[{}] \in V  BY DEF Keeps
      <3>2. QED  BY <3>1
    <2>1. c[s] \in s /\ IsFiniteSet(s)  BY FS_Subset DEF Chooses
    <2>2. Cardinality(s \ {c[s]}) = Cardinality(s) - 1  BY <2>1, FS_RemoveElement
    <2>3. Cardinality(s \ {c[s]}) <= n  BY <1>1, <2>2
    <2>4. g[s \ {c[s]}] \in V  BY <2>3
    <2>5. QED  BY <2>4 DEF Keeps
  <1>4. T = Nat
    <2>1. T \in SUBSET Nat  OBVIOUS
    <2> HIDE DEF T
    <2>2. QED  BY <1>2, <1>3, <2>1, Induction
  <1>5. Cardinality(S) \in T  BY <1>1, <1>4
  <1>6. QED  BY <1>1, <1>5
-----------------------------------------------------------------------------
(* Sums *)

LEMMA SumsExist ==
  ASSUME NEW S, IsFiniteSet(S), NEW f \in [S -> Int]
  PROVE  \E g \in [SUBSET S -> Int] : SumsUp(f, g, S)
  <1> DEFINE F == [x \in S |-> [v \in Int |-> f[x] + v]]
             c == [s \in SUBSET S |-> Pick(s)]
  <1>1. Acts(F, S, Int)  BY DEF Acts
  <1>2. Chooses(c, S)  BY DEF Pick, Chooses
  <1>3. \A x \in S, v \in Int : F[x][v] = f[x] + v  OBVIOUS
  <1>4. \A s \in SUBSET S : c[s] = Pick(s)  OBVIOUS
  <1> HIDE DEF F, c
  <1>5. PICK g \in [SUBSET S -> Int] : FoldOf(g, 0, F, c, S)
    <2>1. HasFold(0, F, c, S, Int)  BY <1>1, <1>2, FoldExists
    <2>2. QED  BY <2>1 DEF HasFold
  <1>6. ASSUME NEW s \in SUBSET S  PROVE g[s] = NextSum(f, g, s)
    <2>1. CASE s = {}  BY <1>5, <2>1 DEF FoldOf, NextSum
    <2>2. CASE s # {}
      <3>1. g[s] = F[Pick(s)][g[s \ {Pick(s)}]]  BY <1>4, <1>5, <2>2 DEF FoldOf
      <3>2. Pick(s) \in S /\ g[s \ {Pick(s)}] \in Int  BY <1>2, <1>4, <2>2 DEF Chooses
      <3>3. QED  BY <1>3, <2>2, <3>1, <3>2 DEF NextSum
    <2>3. QED  BY <2>1, <2>2
  <1>7. QED  BY <1>6 DEF SumsUp

\* The partial sums are the same whatever else might have been summed.
LEMMA SumsAgree ==
  ASSUME NEW S, IsFiniteSet(S), NEW f, NEW g, SumsUp(f, g, S),
         NEW U, NEW h, NEW k, SumsUp(h, k, U),
         S \subseteq U, \A x \in S : f[x] = h[x]
  PROVE  \A s \in SUBSET S : g[s] = k[s]
  <1> DEFINE T == {n \in Nat : \A s \in SUBSET S : Cardinality(s) <= n => g[s] = k[s]}
  <1>1. \A s \in SUBSET S :
          /\ Cardinality(s) \in Nat
          /\ Cardinality(s) = 0 <=> s = {}
          /\ s # {} => /\ Pick(s) \in s
                       /\ s \ {Pick(s)} \in SUBSET S
                       /\ Cardinality(s \ {Pick(s)}) = Cardinality(s) - 1
    BY SubsetsShrink
  <1>2. \A s \in SUBSET S : g[s] = NextSum(f, g, s) /\ k[s] = NextSum(h, k, s)
    BY DEF SumsUp
  <1>3. 0 \in T
    <2> SUFFICES ASSUME NEW s \in SUBSET S, Cardinality(s) <= 0
                 PROVE  g[s] = k[s]
      OBVIOUS
    <2> SUFFICES ASSUME NEW c \in Nat, c = Cardinality(s), c = 0 => s = {}
                 PROVE  s = {}
      BY <1>1, <1>2 DEF NextSum
    <2>1. QED  OBVIOUS
  <1>4. ASSUME NEW n \in T  PROVE n + 1 \in T
    <2> SUFFICES ASSUME NEW s \in SUBSET S, Cardinality(s) <= n + 1, s # {}
                 PROVE  g[s] = k[s]
      BY <1>2 DEF NextSum
    <2>1. Pick(s) \in S /\ s \ {Pick(s)} \in SUBSET S  BY <1>1
    <2>2. Cardinality(s \ {Pick(s)}) <= n  BY <1>1
    <2>3. g[s \ {Pick(s)}] = k[s \ {Pick(s)}]  BY <2>1, <2>2
    <2>4. QED  BY <1>2, <2>1, <2>3 DEF NextSum
  <1>5. T = Nat
    <2>1. T \in SUBSET Nat  OBVIOUS
    <2> HIDE DEF T
    <2>2. QED  BY <1>3, <1>4, <2>1, Induction
  <1>6. TAKE s \in SUBSET S
  <1>7. Cardinality(s) \in T  BY <1>1, <1>5
  <1>8. QED  BY <1>1, <1>7

\* Every index may be taken first: the order does not matter.
LEMMA SumsCommute ==
  ASSUME NEW S, IsFiniteSet(S), NEW f \in [S -> Int],
         NEW g \in [SUBSET S -> Int], SumsUp(f, g, S)
  PROVE  AnyFirst(f, g, S)
  <1> DEFINE T == {n \in Nat : \A s \in SUBSET S : Cardinality(s) <= n =>
                                \A x \in s : g[s] = f[x] + g[s \ {x}]}
  <1>1. \A s \in SUBSET S :
          /\ Cardinality(s) \in Nat
          /\ Cardinality(s) = 0 <=> s = {}
          /\ s # {} => /\ Pick(s) \in s
                       /\ s \ {Pick(s)} \in SUBSET S
                       /\ Cardinality(s \ {Pick(s)}) = Cardinality(s) - 1
    BY SubsetsShrink
  <1>2. \A s \in SUBSET S : g[s] = NextSum(f, g, s)  BY DEF SumsUp
  <1>3. 0 \in T
    <2> SUFFICES ASSUME NEW s \in SUBSET S, Cardinality(s) <= 0
                 PROVE  s = {}
      OBVIOUS
    <2> SUFFICES ASSUME NEW c \in Nat, c = Cardinality(s), c = 0 => s = {}
                 PROVE  s = {}
      BY <1>1
    <2>1. QED  OBVIOUS
  <1>4. ASSUME NEW n \in T  PROVE n + 1 \in T
    <2> SUFFICES ASSUME NEW s \in SUBSET S, Cardinality(s) <= n + 1,
                        NEW x \in s
                 PROVE  g[s] = f[x] + g[s \ {x}]
      OBVIOUS
    <2> DEFINE p == Pick(s)
    <2>1. p \in s /\ g[s] = f[p] + g[s \ {p}]  BY <1>1, <1>2 DEF NextSum
    <2>2. CASE x = p  BY <2>1, <2>2
    <2>3. CASE x # p
      <3>1. \A y \in s : Cardinality(s \ {y}) <= n
        <4> TAKE y \in s
        <4>1. IsFiniteSet(s)  BY FS_Subset
        <4>2. Cardinality(s) \in Nat /\ Cardinality(s \ {y}) = Cardinality(s) - 1
          BY <4>1, FS_CardinalityType, FS_RemoveElement
        <4>3. QED  BY <4>2
      <3>2. g[s \ {p}] = f[x] + g[(s \ {p}) \ {x}]  BY <2>1, <2>3, <3>1
      <3>3. g[s \ {x}] = f[p] + g[(s \ {x}) \ {p}]  BY <2>1, <2>3, <3>1
      <3>4. (s \ {p}) \ {x} = (s \ {x}) \ {p}  OBVIOUS
      <3>5. /\ f[p] \in Int /\ f[x] \in Int
            /\ g[(s \ {x}) \ {p}] \in Int
        BY <2>1
      <3> HIDE DEF p
      <3>6. g[s] = f[p] + (f[x] + g[(s \ {x}) \ {p}])
        BY <2>1, <3>2, <3>4, Zenon
      <3>7. \A a, b, c \in Int : a + (b + c) = b + (a + c)  OBVIOUS
      <3>8. g[s] = f[x] + (f[p] + g[(s \ {x}) \ {p}])  BY <3>5, <3>6, <3>7, Zenon
      <3>9. QED  BY <3>3, <3>8, Zenon
    <2>4. QED  BY <2>2, <2>3
  <1>5. T = Nat
    <2>1. T \in SUBSET Nat  OBVIOUS
    <2> HIDE DEF T
    <2>2. QED  BY <1>3, <1>4, <2>1, Induction
  <1>6. ASSUME NEW s \in SUBSET S
        PROVE  \A x \in s : g[s] = f[x] + g[s \ {x}]
    <2>1. Cardinality(s) \in T  BY <1>1, <1>5
    <2>2. QED  BY <1>1, <2>1
  <1>7. QED  BY <1>6 DEF AnyFirst
-----------------------------------------------------------------------------
(* What the models cite *)

LEMMA SumOfNone ==
  ASSUME NEW f
  PROVE  SumFunctionOnSet(f, {}) = 0
  <1> DEFINE g == [s \in SUBSET {} |-> 0]
  <1>1. SumsUp(f, g, {})  BY DEF SumsUp, NextSum
  <1>2. SumsUp(f, CHOOSE k : SumsUp(f, k, {}), {})  BY <1>1
  <1> HIDE DEF g
  <1>3. (CHOOSE k : SumsUp(f, k, {}))[{}] = 0
    BY <1>2 DEF SumsUp, NextSum
  <1>4. QED  BY <1>3, SumIsRecursive

\* g has the sums of f over the subsets of S.
SumsOver(f, g, S) ==
  /\ g \in [SUBSET S -> Int]
  /\ SumsUp(f, g, S)
  /\ \A s \in SUBSET S : g[s] = SumFunctionOnSet(f, s)

\* Partial sums of f over S, whichever the recursion means, are the sums of f.
LEMMA PartialSums ==
  ASSUME NEW S, IsFiniteSet(S), NEW f \in [S -> Int]
  PROVE  \E g : SumsOver(f, g, S)
  <1>1. PICK g \in [SUBSET S -> Int] : SumsUp(f, g, S)  BY SumsExist
  <1>2. ASSUME NEW s \in SUBSET S
        PROVE  g[s] = SumFunctionOnSet(f, s)
    <2> DEFINE part == [x \in s |-> f[x]]
               k == [u \in SUBSET s |-> g[u]]
               c == CHOOSE j : SumsUp(f, j, s)
    <2>1. IsFiniteSet(s)  BY FS_Subset
    <2>2. SumsUp(f, k, s)
      <3> SUFFICES ASSUME NEW u \in SUBSET s
                   PROVE  k[u] = NextSum(f, k, u)
        BY DEF SumsUp
      <3>1. u \in SUBSET S /\ u \ {Pick(u)} \in SUBSET s  OBVIOUS
      <3>2. g[u] = NextSum(f, g, u)  BY <1>1, <3>1 DEF SumsUp
      <3>3. QED  BY <3>1, <3>2 DEF NextSum
    <2> HIDE DEF k
    <2>3. SumsUp(f, c, s)  BY <2>2
    <2> HIDE DEF c
    <2>4. c[s] = g[s]  BY <2>1, <2>3, <1>1, SumsAgree
    <2>5. QED  BY <2>4, SumIsRecursive DEF c
  <1>3. QED  BY <1>1, <1>2 DEF SumsOver

LEMMA SumType ==
  ASSUME NEW U, IsFiniteSet(U), NEW f \in [U -> Int], NEW S \in SUBSET U
  PROVE  SumFunctionOnSet(f, S) \in Int
  <1>1. PICK g : SumsOver(f, g, U)  BY PartialSums
  <1>2. QED  BY <1>1 DEF SumsOver

\* One more index adds its value.
LEMMA SumTakes ==
  ASSUME NEW U, IsFiniteSet(U), NEW f \in [U -> Int], NEW S \in SUBSET U, NEW x \in S
  PROVE  TakenFirst(f, S, x)
  <1>1. PICK g : SumsOver(f, g, U)  BY PartialSums
  <1>2. AnyFirst(f, g, U)  BY <1>1, SumsCommute DEF SumsOver
  <1>3. S \ {x} \in SUBSET U  OBVIOUS
  <1>4. g[S] = f[x] + g[S \ {x}]  BY <1>2 DEF AnyFirst
  <1>5. QED  BY <1>1, <1>3, <1>4 DEF SumsOver, TakenFirst

\* The sum depends on the values of the indices alone.
LEMMA SumDepends ==
  ASSUME NEW S, IsFiniteSet(S),
         NEW U, IsFiniteSet(U), NEW f \in [U -> Int],
         NEW V, IsFiniteSet(V), NEW h \in [V -> Int],
         S \subseteq U, S \subseteq V, \A x \in S : f[x] = h[x]
  PROVE  SumFunctionOnSet(f, S) = SumFunctionOnSet(h, S)
  <1>1. PICK g : SumsOver(f, g, U)  BY PartialSums
  <1>2. PICK k : SumsOver(h, k, V)  BY PartialSums
  <1> DEFINE j == [u \in SUBSET S |-> g[u]]
  <1>3. SumsUp(f, j, S)
    <2> SUFFICES ASSUME NEW u \in SUBSET S
                 PROVE  j[u] = NextSum(f, j, u)
      BY DEF SumsUp
    <2>1. u \in SUBSET U /\ u \ {Pick(u)} \in SUBSET S  OBVIOUS
    <2>2. g[u] = NextSum(f, g, u)  BY <1>1, <2>1 DEF SumsUp, SumsOver
    <2>3. QED  BY <2>1, <2>2 DEF NextSum
  <1>4. S \in SUBSET S /\ j[S] = g[S]  OBVIOUS
  <1> HIDE DEF j
  <1>5. SumsUp(h, k, V)  BY <1>2 DEF SumsOver
  <1>6. j[S] = k[S]  BY <1>3, <1>4, <1>5, SumsAgree
  <1>7. QED  BY <1>1, <1>2, <1>4, <1>6 DEF SumsOver
-----------------------------------------------------------------------------
(* Counting by kind *)

Kinds(f, S, K) == {x \in S : f[x] \in K}
CountedByKind(n, f, S, K) == \A k \in K : n[k] = Cardinality(Kinds(f, S, {k}))

\* The members of a set that are of one of some kinds are the sum of those of each kind.
LEMMA KindsAddUp ==
  ASSUME NEW S, IsFiniteSet(S), NEW f, NEW K, IsFiniteSet(K),
         NEW n \in [K -> Int], CountedByKind(n, f, S, K)
  PROVE  SumFunctionOnSet(n, K) = Cardinality(Kinds(f, S, K))
  <1> DEFINE Right(s) == SumFunctionOnSet(n, s) = Cardinality(Kinds(f, S, s))
             T == {m \in Nat : \A s \in SUBSET K : Cardinality(s) <= m => Right(s)}
  <1>1. \A s \in SUBSET K : Cardinality(s) \in Nat /\ (Cardinality(s) = 0 <=> s = {})
    BY SubsetsShrink
  <1>2. Right({})
    <2>1. Kinds(f, S, {}) = {}  BY DEF Kinds
    <2>2. QED  BY <2>1, SumOfNone, FS_EmptySet
  <1>3. ASSUME NEW s \in SUBSET K, NEW k \in s, Right(s \ {k})
        PROVE  Right(s)
    <2> DEFINE all == Kinds(f, S, s)
               one == Kinds(f, S, {k})
               others == Kinds(f, S, s \ {k})
    <2>1. IsFiniteSet(all) /\ IsFiniteSet(one) /\ IsFiniteSet(others)
      BY FS_Subset DEF Kinds
    <2>2. one \cup others = all /\ one \cap others = {}  BY DEF Kinds
    <2>3. TakenFirst(n, s, k)  BY SumTakes
    <2> HIDE DEF all, one, others
    <2>4. Cardinality(all) = Cardinality(one) + Cardinality(others)
      <3>1. Cardinality(one \cup others)
              = Cardinality(one) + Cardinality(others) - Cardinality(one \cap others)
        BY <2>1, FS_Union
      <3>2. Cardinality(one \cap others) = 0  BY <2>2, FS_EmptySet
      <3>3. Cardinality(one) \in Nat /\ Cardinality(others) \in Nat  BY <2>1, FS_CardinalityType
      <3>4. Cardinality(all) = Cardinality(one) + Cardinality(others) - 0
        BY <2>2, <3>1, <3>2, Zenon
      <3>5. \A a, b \in Nat : a + b - 0 = a + b  OBVIOUS
      <3>6. QED  BY <3>3, <3>4, <3>5, Zenon
    <2>5. n[k] = Cardinality(one)  BY DEF CountedByKind, one
    <2>6. QED  BY <1>3, <2>3, <2>4, <2>5 DEF TakenFirst, all, others
  <1> HIDE DEF Right
  <1>4. 0 \in T
    <2> SUFFICES ASSUME NEW s \in SUBSET K, Cardinality(s) <= 0
                 PROVE  s = {}
      BY <1>2
    <2> SUFFICES ASSUME NEW c \in Nat, c = Cardinality(s), c = 0 => s = {}
                 PROVE  s = {}
      BY <1>1
    <2>1. QED  OBVIOUS
  <1>5. ASSUME NEW m \in T  PROVE m + 1 \in T
    <2> SUFFICES ASSUME NEW s \in SUBSET K, Cardinality(s) <= m + 1, s # {}
                 PROVE  Right(s)
      BY <1>2
    <2>1. /\ Pick(s) \in s /\ s \ {Pick(s)} \in SUBSET K
          /\ Cardinality(s \ {Pick(s)}) = Cardinality(s) - 1
      BY SubsetsShrink
    <2>2. Cardinality(s \ {Pick(s)}) <= m  BY <1>1, <2>1
    <2>3. QED  BY <1>3, <2>1, <2>2
  <1>6. T = Nat
    <2>1. T \in SUBSET Nat  OBVIOUS
    <2> HIDE DEF T
    <2>2. QED  BY <1>4, <1>5, <2>1, Induction
  <1>7. Cardinality(K) \in T  BY <1>1, <1>6
  <1>8. QED  BY <1>1, <1>7 DEF Right
-----------------------------------------------------------------------------
(* Folds whose order does not matter *)

\* Where it does not matter which of two indices comes first, any one may come last.
Commutes(F, S, V) == \A x, y \in S : \A v \in V : F[x][F[y][v]] = F[y][F[x][v]]
AnyLast(g, F, S) == \A s \in SUBSET S : \A x \in s : g[s] = F[x][g[s \ {x}]]
LEMMA FoldCommutes ==
  ASSUME NEW S, IsFiniteSet(S), NEW V, NEW F, Acts(F, S, V), Commutes(F, S, V),
         NEW c, Chooses(c, S), NEW base, NEW g \in [SUBSET S -> V], FoldOf(g, base, F, c, S)
  PROVE  AnyLast(g, F, S)
  <1> DEFINE T == {n \in Nat : \A s \in SUBSET S : Cardinality(s) <= n =>
                                \A x \in s : g[s] = F[x][g[s \ {x}]]}
  <1>1. \A s \in SUBSET S : Cardinality(s) \in Nat /\ (Cardinality(s) = 0 <=> s = {})
    BY SubsetsShrink
  <1>2. \A s \in SUBSET S : \A x \in s :
          s \ {x} \in SUBSET S /\ Cardinality(s \ {x}) = Cardinality(s) - 1
    <2> TAKE s \in SUBSET S
    <2>1. IsFiniteSet(s)  BY FS_Subset
    <2>2. QED  BY <2>1, FS_RemoveElement
  <1>3. 0 \in T
    <2> SUFFICES ASSUME NEW s \in SUBSET S, Cardinality(s) <= 0
                 PROVE  s = {}
      OBVIOUS
    <2> SUFFICES ASSUME NEW k \in Nat, k = Cardinality(s), k = 0 => s = {}
                 PROVE  s = {}
      BY <1>1
    <2>1. QED  OBVIOUS
  <1>4. ASSUME NEW n \in T  PROVE n + 1 \in T
    <2> SUFFICES ASSUME NEW s \in SUBSET S, Cardinality(s) <= n + 1,
                        NEW x \in s
                 PROVE  g[s] = F[x][g[s \ {x}]]
      OBVIOUS
    <2> DEFINE p == c[s]
    <2>1. p \in s /\ g[s] = F[p][g[s \ {p}]]  BY DEF Chooses, FoldOf
    <2> HIDE DEF p
    <2>2. CASE x = p  BY <2>1, <2>2
    <2>3. CASE x # p
      <3>1. /\ s \ {p} \in SUBSET S /\ Cardinality(s \ {p}) <= n
            /\ s \ {x} \in SUBSET S /\ Cardinality(s \ {x}) <= n
        BY <1>1, <1>2, <2>1
      <3>2. g[s \ {p}] = F[x][g[(s \ {p}) \ {x}]]  BY <2>3, <3>1
      <3>3. g[s \ {x}] = F[p][g[(s \ {x}) \ {p}]]  BY <2>1, <2>3, <3>1
      <3>4. (s \ {p}) \ {x} = (s \ {x}) \ {p} /\ (s \ {x}) \ {p} \in SUBSET S  OBVIOUS
      <3>5. g[(s \ {x}) \ {p}] \in V /\ p \in S /\ x \in S  BY <2>1, <3>4
      <3>6. F[p][F[x][g[(s \ {x}) \ {p}]]] = F[x][F[p][g[(s \ {x}) \ {p}]]]
        BY <3>5 DEF Commutes
      <3>7. QED  BY <2>1, <3>2, <3>3, <3>4, <3>6
    <2>4. QED  BY <2>2, <2>3
  <1>5. T = Nat
    <2>1. T \in SUBSET Nat  OBVIOUS
    <2> HIDE DEF T
    <2>2. QED  BY <1>3, <1>4, <2>1, Induction
  <1>6. \A s \in SUBSET S : Cardinality(s) \in T  BY <1>1, <1>5
  <1> SUFFICES ASSUME NEW s \in SUBSET S, NEW x \in s  PROVE g[s] = F[x][g[s \ {x}]]
    BY DEF AnyLast
  <1>7. QED  BY <1>1, <1>6

\* What the sequences of a sequence are laid to, one after another.
Flattens(f, seqs, m) ==
  f = [i \in 1..m |-> IF i = 1 THEN seqs[i] ELSE f[i - 1] \o seqs[i]]
LEMMA FlattenIs ==
  ASSUME NEW N \in Nat \ {0}, NEW seqs, Len(seqs) = N
  PROVE  \E f : Flattens(f, seqs, N) /\ FlattenSeq(seqs) = f[N]
  <1> DEFINE T == {m \in Nat : \E f : Flattens(f, seqs, m)}
             c == CHOOSE f : Flattens(f, seqs, N)
  <1>1. 0 \in T
    <2>1. Flattens([i \in 1..0 |-> 0], seqs, 0)  BY DEF Flattens
    <2>2. QED  BY <2>1
  <1>2. ASSUME NEW m \in T  PROVE m + 1 \in T
    <2>1. PICK f : Flattens(f, seqs, m)  OBVIOUS
    <2> DEFINE next(i) == IF i = 1 THEN seqs[i] ELSE f[i - 1] \o seqs[i]
               g == [i \in 1..m + 1 |-> next(i)]
    <2>2. ASSUME NEW i \in 1..m + 1
          PROVE  g[i] = IF i = 1 THEN seqs[i] ELSE g[i - 1] \o seqs[i]
      <3>1. CASE i = 1  BY <3>1
      <3>2. CASE i # 1
        <4>1. i - 1 \in 1..m /\ i - 1 \in 1..m + 1  BY <3>2
        <4>2. f[i - 1] = next(i - 1)  BY <2>1, <4>1 DEF Flattens
        <4>3. g[i - 1] = f[i - 1]  BY <4>1, <4>2
        <4>4. QED  BY <3>2, <4>3
      <3>3. QED  BY <3>1, <3>2
    <2>3. g = [i \in 1..m + 1 |-> g[i]]  OBVIOUS
    <2> HIDE DEF g
    <2>4. Flattens(g, seqs, m + 1)  BY <2>2, <2>3 DEF Flattens
    <2>5. QED  BY <2>4
  <1>3. T = Nat
    <2>1. T \in SUBSET Nat  OBVIOUS
    <2> HIDE DEF T
    <2>2. QED  BY <1>1, <1>2, <2>1, Induction
  <1>4. Flattens(c, seqs, N)  BY <1>3
  <1>5. FlattenSeq(seqs) = c[N]  BY DEF FlattenSeq, Flattens
  <1>6. QED  BY <1>4, <1>5
-----------------------------------------------------------------------------
(* Folds over sequences *)

LEMMA LastIsMax == ASSUME NEW n \in Nat PROVE Max(1..n + 1) = n + 1 /\ (1..n + 1) \ {n + 1} = 1..n
  BY DEF Max
LEMMA MaxIsLast ==
  ASSUME NEW n \in Nat, NEW s \in SUBSET (1..n), s # {}
  PROVE  Max(s) \in s
  <1> DEFINE T == {m \in Nat : \A t \in SUBSET (1..m) : t # {} => \E x \in t : \A y \in t : x >= y}
  <1>1. 0 \in T
    <2>1. \A t \in SUBSET (1..0) : t = {}  OBVIOUS
    <2>2. QED  BY <2>1
  <1>2. ASSUME NEW m \in T  PROVE m + 1 \in T
    <2> SUFFICES ASSUME NEW t \in SUBSET (1..m + 1), t # {}
                 PROVE  \E x \in t : \A y \in t : x >= y
      OBVIOUS
    <2>1. CASE m + 1 \in t
      <3>1. \A y \in t : m + 1 >= y  OBVIOUS
      <3>2. QED  BY <2>1, <3>1
    <2>2. CASE m + 1 \notin t
      <3>1. t \in SUBSET (1..m)  BY <2>2
      <3>2. QED  BY <3>1
    <2>3. QED  BY <2>1, <2>2
  <1>3. T = Nat
    <2>1. T \in SUBSET Nat  OBVIOUS
    <2> HIDE DEF T
    <2>2. QED  BY <1>1, <1>2, <2>1, Induction
  <1>4. \E x \in s : \A y \in s : x >= y
    <2>1. n \in T  BY <1>3
    <2>2. QED  BY <2>1
  <1>5. QED  BY <1>4 DEF Max

\* A fold over a sequence in a context x, which recurs on the set of the places it has taken.
Folded(x, r, seq) == FoldLeft(LAMBDA v, c : FoldStep(x, v, c), r, seq)
NextTaken(x, r, seq, g, s) == IF s = {} THEN r ELSE FoldStep(x, g[s \ {Max(s)}], seq[Max(s)])
Solves(g, x, r, seq, D) == g = [s \in D |-> NextTaken(x, r, seq, g, s)]
LEMMA FoldedIs ==
  ASSUME NEW x, NEW r, NEW seq
  PROVE  Folded(x, r, seq) = (CHOOSE g : Solves(g, x, r, seq, SUBSET DOMAIN seq))[DOMAIN seq]
  BY DEF Folded, FoldLeft, MapThenFoldSet, Solves, NextTaken

LEMMA FoldIsThere ==
  ASSUME NEW x, NEW r, NEW seq, NEW n \in Nat
  PROVE  \E g : Solves(g, x, r, seq, SUBSET (1..n))
  <1> DEFINE D(m) == {s \in SUBSET (1..n) : Cardinality(s) <= m}
             T == {m \in Nat : \E g : Solves(g, x, r, seq, D(m))}
  <1>1. IsFiniteSet(1..n) /\ Cardinality(1..n) = n  BY FS_Interval
  <1>2. \A s \in SUBSET (1..n) :
          /\ Cardinality(s) \in Nat /\ Cardinality(s) <= n
          /\ Cardinality(s) = 0 <=> s = {}
          /\ s # {} => s \ {Max(s)} \in SUBSET (1..n)
                       /\ Cardinality(s \ {Max(s)}) = Cardinality(s) - 1
    <2> TAKE s \in SUBSET (1..n)
    <2>1. IsFiniteSet(s) /\ Cardinality(s) <= n  BY <1>1, FS_Subset
    <2>2. s # {} => Max(s) \in s  BY MaxIsLast
    <2>3. QED  BY <2>1, <2>2, FS_CardinalityType, FS_EmptySet, FS_RemoveElement
  <1>3. 0 \in T
    <2> DEFINE g == [s \in D(0) |-> r]
    <2>1. \A s \in D(0) : s = {}
      <3> SUFFICES ASSUME NEW s \in D(0), NEW k \in Nat, k = Cardinality(s), k = 0 => s = {}
                   PROVE  s = {}
        BY <1>2
      <3>1. QED  OBVIOUS
    <2>2. \A s \in D(0) : NextTaken(x, r, seq, g, s) = r  BY <2>1 DEF NextTaken
    <2> HIDE DEF D
    <2>3. Solves(g, x, r, seq, D(0))  BY <2>2 DEF Solves
    <2>4. QED  BY <2>3
  <1>4. ASSUME NEW m \in T  PROVE m + 1 \in T
    <2>1. PICK g : Solves(g, x, r, seq, D(m))  OBVIOUS
    <2> DEFINE h == [s \in D(m + 1) |-> NextTaken(x, r, seq, g, s)]
    <2>2. \A s \in D(m + 1) : s # {} => s \ {Max(s)} \in D(m) /\ s \ {Max(s)} \in D(m + 1)
      <3> TAKE s \in D(m + 1)
      <3> HAVE s # {}
      <3>1. s \ {Max(s)} \in SUBSET (1..n) /\ Cardinality(s \ {Max(s)}) = Cardinality(s) - 1
            /\ Cardinality(s) \in Nat
        BY <1>2
      <3>2. QED  BY <3>1
    <2>3. \A s \in D(m) : s \in D(m + 1)
      <3> TAKE s \in D(m)
      <3>1. Cardinality(s) \in Nat  BY <1>2
      <3>2. QED  BY <3>1
    <2> HIDE DEF D
    <2>4. \A s \in D(m) : h[s] = g[s]  BY <2>1, <2>3 DEF Solves
    <2>5. \A s \in D(m + 1) : NextTaken(x, r, seq, g, s) = NextTaken(x, r, seq, h, s)
      BY <2>2, <2>4 DEF NextTaken
    <2>6. Solves(h, x, r, seq, D(m + 1))  BY <2>5 DEF Solves
    <2>7. QED  BY <2>6
  <1>5. T = Nat
    <2>1. T \in SUBSET Nat  OBVIOUS
    <2> HIDE DEF T
    <2>2. QED  BY <1>3, <1>4, <2>1, Induction
  <1>6. D(n) = SUBSET (1..n)  BY <1>2
  <1>7. \E g : Solves(g, x, r, seq, D(n))  BY <1>5
  <1> HIDE DEF D
  <1>8. QED  BY <1>6, <1>7

\* Such a fold takes the members in order.
InOrder(g, x, r, seq, n) ==
  /\ g[1..0] = r
  /\ \A m \in Nat : m + 1 \in 1..n => g[1..m + 1] = FoldStep(x, g[1..m], seq[m + 1])
LEMMA FoldTakesAll ==
  ASSUME NEW x, NEW r, NEW seq, NEW n \in Nat, NEW g,
         Solves(g, x, r, seq, SUBSET (1..n))
  PROVE  InOrder(g, x, r, seq, n)
  <1>1. g[1..0] = r
    <2>1. 1..0 = {} /\ {} \in SUBSET (1..n)  OBVIOUS
    <2>2. g[{}] = r  BY <2>1 DEF Solves, NextTaken
    <2>3. QED  BY <2>1, <2>2
  <1> SUFFICES ASSUME NEW m \in Nat, m + 1 \in 1..n
               PROVE  g[1..m + 1] = FoldStep(x, g[1..m], seq[m + 1])
    BY <1>1 DEF InOrder
  <1> DEFINE s == 1..m + 1
  <1>2. Max(s) = m + 1 /\ s \ {m + 1} = 1..m  BY LastIsMax
  <1>3. s \in SUBSET (1..n) /\ s # {}
    <2>1. \A i \in s : i \in 1..n  OBVIOUS
    <2>2. m + 1 \in s  OBVIOUS
    <2>3. QED  BY <2>1, <2>2
  <1> HIDE DEF s
  <1>4. g[s] = FoldStep(x, g[s \ {Max(s)}], seq[Max(s)])  BY <1>3 DEF Solves, NextTaken
  <1>5. g[s] = FoldStep(x, g[1..m], seq[m + 1])  BY <1>2, <1>4
  <1>6. QED  BY <1>5 DEF s

\* What holds at first and is kept by each step, holds of the fold.
KeepsTo(x, seq, n) ==
  \A m \in Nat : \A v : m + 1 \in 1..n /\ FoldHolds(x, v, m) => FoldHolds(x, FoldStep(x, v, seq[m + 1]), m + 1)
LEMMA FoldKeeps ==
  ASSUME NEW x, NEW r, NEW seq, NEW n \in Nat, DOMAIN seq = 1..n, FoldHolds(x, r, 0), KeepsTo(x, seq, n)
  PROVE  FoldHolds(x, Folded(x, r, seq), n)
  <1> DEFINE g == CHOOSE h : Solves(h, x, r, seq, SUBSET (1..n))
             T == {m \in Nat : m \in 0..n => FoldHolds(x, g[1..m], m)}
  <1>1. Solves(g, x, r, seq, SUBSET (1..n))  BY FoldIsThere
  <1>2. Folded(x, r, seq) = g[1..n]  BY FoldedIs
  <1> HIDE DEF g
  <1>3. InOrder(g, x, r, seq, n)  BY <1>1, FoldTakesAll
  <1>4. 0 \in T  BY <1>3 DEF InOrder
  <1>5. ASSUME NEW m \in T  PROVE m + 1 \in T
    <2> SUFFICES ASSUME m + 1 \in 0..n  PROVE FoldHolds(x, g[1..m + 1], m + 1)
      OBVIOUS
    <2>1. m + 1 \in 1..n /\ m \in 0..n  OBVIOUS
    <2>2. g[1..m + 1] = FoldStep(x, g[1..m], seq[m + 1])  BY <1>3, <2>1 DEF InOrder
    <2>3. FoldHolds(x, g[1..m], m)  BY <2>1
    <2>4. QED  BY <2>1, <2>2, <2>3 DEF KeepsTo
  <1>6. T = Nat
    <2>1. T \in SUBSET Nat  OBVIOUS
    <2> HIDE DEF T
    <2>2. QED  BY <1>4, <1>5, <2>1, Induction
  <1>7. n \in T /\ n \in 0..n  BY <1>6
  <1>8. QED  BY <1>2, <1>7
=============================================================================
