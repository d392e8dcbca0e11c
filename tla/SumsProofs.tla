----------------------------- MODULE SumsProofs -----------------------------
(***************************************************************************)
(* What SumOf computes, for every function on a finite set.                *)
(*                                                                         *)
(* The library's induction theorems take an operator as a parameter, which *)
(* the provers cannot instantiate.  SubsetInduction is an induction        *)
(* principle that they can use: what holds is given as a set, and the      *)
(* principle follows from the well-foundedness of strict inclusion on the  *)
(* finite sets.                                                            *)
(***************************************************************************)
EXTENDS Sums, FiniteSetTheorems, TLAPS

-----------------------------------------------------------------------------
(* Induction. *)

\* A set that contains every subset of S whose proper subsets it contains
\* contains every subset of S.
LEMMA SubsetInduction ==
  ASSUME NEW S, IsFiniteSet(S), NEW G,
         \A T \in SUBSET S : (\A U \in SUBSET T : U # T => U \in G) => T \in G
  PROVE  \A T \in SUBSET S : T \in G
<1> DEFINE B == (SUBSET S) \ G
<1> SUFFICES ASSUME B # {} PROVE FALSE
  OBVIOUS
<1>1. B \subseteq FiniteSubsetsOf(S)
  BY FS_FiniteSubsetsOfFinite
<1>2. PICK T \in B : \A U \in B : ~ (<<U, T>> \in StrictSubsetOrdering(S))
  <2> HIDE DEF B
  <2> QED BY <1>1, FS_StrictSubsetOrderingWellFounded, WFMin
<1>3. ASSUME NEW U \in SUBSET T, U # T PROVE U \in G
  <2>1. <<U, T>> \in StrictSubsetOrdering(S)
    BY <1>3 DEF StrictSubsetOrdering
  <2>2. U \notin B
    BY <1>2, <2>1
  <2> QED BY <2>2
<1> QED BY <1>3

-----------------------------------------------------------------------------
(* The recursion behind SumOf is well founded. *)

\* The element that the fold takes first.
Chosen(s) == CHOOSE x \in s : TRUE

\* The value of the recursion at s, when it is g on the smaller sets.
Unrolled(f, g, s) == IF s = {} THEN 0 ELSE f[Chosen(s)] + g[s \ {Chosen(s)}]

\* g solves the recursion on the subsets of S.
Solves(f, g, S) == g = [s \in SUBSET S |-> Unrolled(f, g, s)]

LEMMA ChosenIn == ASSUME NEW s, s # {} PROVE Chosen(s) \in s
BY DEF Chosen

LEMMA Rest ==
  ASSUME NEW s, s # {}
  PROVE  s \ {Chosen(s)} \in SUBSET s /\ s \ {Chosen(s)} # s
BY ChosenIn

LEMMA SumUnfolds ==
  ASSUME NEW f
  PROVE  SumOf(f) = (CHOOSE g : Solves(f, g, DOMAIN f))[DOMAIN f]
BY DEF SumOf, MapThenSumSet, MapThenFoldSet, Solves, Unrolled, Chosen

\* The same, for a g on a larger set.
Obeys(f, g, S) == \A s \in SUBSET S : g[s] = Unrolled(f, g, s)

\* Two solutions agree.
LEMMA OneSolution ==
  ASSUME NEW f, NEW S, IsFiniteSet(S), NEW g, NEW h,
         Obeys(f, g, S), Obeys(f, h, S)
  PROVE  \A s \in SUBSET S : g[s] = h[s]
<1> DEFINE G == {s \in SUBSET S : g[s] = h[s]}
<1>1. ASSUME NEW T \in SUBSET S, \A U \in SUBSET T : U # T => U \in G
      PROVE  T \in G
  <2>1. CASE T = {}
    BY <2>1 DEF Unrolled, Obeys
  <2>2. CASE T # {}
    <3>1. T \ {Chosen(T)} \in G
      BY <1>1, <2>2, Rest
    <3> QED BY <2>2, <3>1 DEF Unrolled, Obeys
  <2> QED BY <2>1, <2>2
<1> HIDE DEF G
<1>2. \A T \in SUBSET S : T \in G
  BY <1>1, SubsetInduction
<1> QED BY <1>2 DEF G

\* One of the solutions, and its value at the top.
Solution(f, S) == CHOOSE g : Solves(f, g, S)

Top(f, S) == Solution(f, S)[S]

LEMMA SolutionExists ==
  ASSUME NEW f, NEW S, IsFiniteSet(S)
  PROVE  \E g : Solves(f, g, S)
<1> DEFINE G == {T \in SUBSET S : \E g : Solves(f, g, T)}
<1>1. ASSUME NEW T \in SUBSET S, \A U \in SUBSET T : U # T => U \in G
      PROVE  T \in G
  <2> DEFINE g == [s \in SUBSET T |->
                     IF s = {} THEN 0
                     ELSE f[Chosen(s)] + Top(f, s \ {Chosen(s)})]
  <2>1. ASSUME NEW U \in SUBSET T, U # T
        PROVE  \A s \in SUBSET U : Solution(f, U)[s] = Unrolled(f, Solution(f, U), s)
    <3>1. Solves(f, Solution(f, U), U)
      BY <1>1, <2>1 DEF Solution
    <3> QED BY <3>1 DEF Solves
  <2>2. ASSUME NEW U \in SUBSET T, U # T
        PROVE  g[U] = Top(f, U)
    <3>1. CASE U = {}
      BY <3>1, <2>1, <2>2 DEF Unrolled, Top
    <3>2. CASE U # {}
      <4> DEFINE W == U \ {Chosen(U)}
      <4>1. W \in SUBSET U /\ W # T /\ W \in SUBSET T
        BY <3>2, <2>2, Rest
      <4>2. IsFiniteSet(W)
        BY <4>1, FS_Subset
      <4>3. Obeys(f, Solution(f, U), W)
        BY <4>1, <2>1, <2>2 DEF Obeys
      <4>4. Obeys(f, Solution(f, W), W)
        BY <4>1, <2>1 DEF Obeys
      <4>5. Solution(f, U)[W] = Solution(f, W)[W]
        <5> HIDE DEF W
        <5>1. \A s \in SUBSET W : Solution(f, U)[s] = Solution(f, W)[s]
          BY <4>2, <4>3, <4>4, OneSolution
        <5> QED BY <5>1
      <4>6. Top(f, U) = f[Chosen(U)] + Solution(f, U)[W]
        BY <3>2, <2>1, <2>2 DEF Unrolled, Top
      <4>7. g[U] = f[Chosen(U)] + Top(f, W)
        BY <3>2
      <4> QED BY <4>5, <4>6, <4>7 DEF Top
    <3> QED BY <3>1, <3>2
  <2>3. ASSUME NEW s \in SUBSET T
        PROVE  g[s] = Unrolled(f, g, s)
    <3>1. CASE s = {}
      BY <3>1 DEF Unrolled
    <3>2. CASE s # {}
      <4>1. g[s \ {Chosen(s)}] = Top(f, s \ {Chosen(s)})
        <5> DEFINE U == s \ {Chosen(s)}
        <5>1. U \in SUBSET T /\ U # T
          BY <3>2, ChosenIn
        <5> HIDE DEF U, g
        <5>2. g[U] = Top(f, U)
          BY <5>1, <2>2
        <5> QED BY <5>2 DEF U
      <4> QED BY <3>2, <4>1 DEF Unrolled
    <3> QED BY <3>1, <3>2
  <2>4. Solves(f, g, T)
    <3>1. g = [s \in SUBSET T |-> g[s]]
      OBVIOUS
    <3> HIDE DEF g
    <3> QED BY <3>1, <2>3 DEF Solves
  <2> QED BY <2>4
<1> HIDE DEF G
<1>2. S \in G
  BY <1>1, SubsetInduction
<1> QED BY <1>2 DEF G

\* What the fold of f computes on the subsets of S: the partial sums.
LEMMA PartialSums ==
  ASSUME NEW f, NEW S, IsFiniteSet(S)
  PROVE  \A s \in SUBSET S : Solution(f, S)[s] = Unrolled(f, Solution(f, S), s)
<1>1. Solves(f, Solution(f, S), S)
  BY SolutionExists DEF Solution
<1> QED BY <1>1 DEF Solves

LEMMA PartialSumsAreIntegers ==
  ASSUME NEW S, IsFiniteSet(S), NEW f \in [S -> Int]
  PROVE  \A s \in SUBSET S : Solution(f, S)[s] \in Int
<1> DEFINE g == Solution(f, S)
           G == {s \in SUBSET S : g[s] \in Int}
<1>1. \A s \in SUBSET S : g[s] = Unrolled(f, g, s)
  BY PartialSums
<1> HIDE DEF g
<1>2. ASSUME NEW T \in SUBSET S, \A U \in SUBSET T : U # T => U \in G
      PROVE  T \in G
  <2>1. CASE T = {}
    <3>1. g[T] = 0
      BY <1>1, <2>1 DEF Unrolled
    <3> QED BY <3>1
  <2>2. CASE T # {}
    <3>1. T \ {Chosen(T)} \in G /\ Chosen(T) \in S
      BY <1>2, <2>2, Rest, ChosenIn
    <3>2. f[Chosen(T)] \in Int
      BY <3>1
    <3> QED BY <1>1, <2>2, <3>1, <3>2 DEF Unrolled
  <2> QED BY <2>1, <2>2
<1> HIDE DEF G
<1>3. \A T \in SUBSET S : T \in G
  BY <1>2, SubsetInduction
<1> QED BY <1>3 DEF G, g

\* Any element may be taken first.
LEMMA AnyFirst ==
  ASSUME NEW S, IsFiniteSet(S), NEW f \in [S -> Int]
  PROVE  \A s \in SUBSET S : \A x \in s :
           Solution(f, S)[s] = f[x] + Solution(f, S)[s \ {x}]
<1> DEFINE g == Solution(f, S)
           G == {s \in SUBSET S : \A x \in s : g[s] = f[x] + g[s \ {x}]}
<1>1. \A s \in SUBSET S : g[s] = Unrolled(f, g, s)
  BY PartialSums
<1>2. \A s \in SUBSET S : g[s] \in Int
  BY PartialSumsAreIntegers
<1> HIDE DEF g
<1>3. ASSUME NEW T \in SUBSET S, \A U \in SUBSET T : U # T => U \in G
      PROVE  T \in G
  <2> SUFFICES ASSUME NEW x \in T PROVE g[T] = f[x] + g[T \ {x}]
    OBVIOUS
  <2> DEFINE y == Chosen(T)
             V == T \ {x, y}
  <2>1. y \in T
    BY ChosenIn
  <2>2. g[T] = f[y] + g[T \ {y}]
    BY <1>1 DEF Unrolled
  <2> HIDE DEF y
  <2>3. CASE x = y
    BY <2>2, <2>3
  <2>4. CASE x # y
    <3>1. T \ {y} \in G /\ T \ {x} \in G
      BY <1>3, <2>1
    <3>2. (T \ {y}) \ {x} = V /\ (T \ {x}) \ {y} = V
      OBVIOUS
    <3> HIDE DEF V
    <3>3. g[T \ {y}] = f[x] + g[V]
      BY <2>4, <3>1, <3>2
    <3>4. g[T \ {x}] = f[y] + g[V]
      BY <2>1, <2>4, <3>1, <3>2
    <3>5. f[x] \in Int /\ f[y] \in Int /\ g[V] \in Int
      BY <1>2, <2>1 DEF V
    <3> HIDE DEF G
    <3> QED BY <2>2, <3>3, <3>4, <3>5
  <2> QED BY <2>3, <2>4
<1> HIDE DEF G
<1>4. \A T \in SUBSET S : T \in G
  BY <1>3, SubsetInduction
<1> QED BY <1>4 DEF G, g

-----------------------------------------------------------------------------
(* The laws of sums. *)

LEMMA SumIsTop == ASSUME NEW f PROVE SumOf(f) = Top(f, DOMAIN f)
BY SumUnfolds DEF Top, Solution

LEMMA SumOfNothing == ASSUME NEW f, DOMAIN f = {} PROVE SumOf(f) = 0
<1>1. Solution(f, {})[{}] = Unrolled(f, Solution(f, {}), {})
  BY PartialSums, FS_EmptySet
<1> QED BY <1>1, SumIsTop DEF Top, Unrolled

LEMMA SumIsInteger ==
  ASSUME NEW S, IsFiniteSet(S), NEW f \in [S -> Int]
  PROVE  SumOf(f) \in Int
BY SumIsTop, PartialSumsAreIntegers DEF Top

Without(f, x) == Restrict(f, (DOMAIN f) \ {x})

\* One summand, and the others.
LEMMA SumWithout ==
  ASSUME NEW S, IsFiniteSet(S), NEW f \in [S -> Int], NEW x \in S
  PROVE  SumOf(f) = f[x] + SumOf(Without(f, x))
<1> DEFINE R == S \ {x}
           h == Without(f, x)
<1>1. h \in [R -> Int] /\ \A y \in R : h[y] = f[y]
  BY DEF Without, Restrict
<1>2. IsFiniteSet(R)
  BY FS_RemoveElement
<1>3. Solution(f, S)[S] = f[x] + Solution(f, S)[R]
  BY AnyFirst
<1>4. ASSUME NEW s \in SUBSET R
      PROVE  Solution(f, S)[s] = Unrolled(h, Solution(f, S), s)
  <2>1. Solution(f, S)[s] = Unrolled(f, Solution(f, S), s)
    BY PartialSums
  <2>2. s # {} => f[Chosen(s)] = h[Chosen(s)]
    <3> HIDE DEF h
    <3> QED BY <1>1, ChosenIn
  <2> QED BY <2>1, <2>2 DEF Unrolled
<1>5. \A s \in SUBSET R : Solution(h, R)[s] = Unrolled(h, Solution(h, R), s)
  <2> HIDE DEF h
  <2> QED BY <1>2, PartialSums
<1>6. \A s \in SUBSET R : Solution(f, S)[s] = Solution(h, R)[s]
  <2> DEFINE a == Solution(f, S)
             b == Solution(h, R)
  <2>1. Obeys(h, a, R) /\ Obeys(h, b, R)
    BY <1>4, <1>5 DEF Obeys
  <2> HIDE DEF h, R, a, b
  <2>2. \A s \in SUBSET R : a[s] = b[s]
    BY <1>2, <2>1, OneSolution
  <2> QED BY <2>2 DEF a, b
<1>7. SumOf(h) = Solution(h, R)[R] /\ SumOf(f) = Solution(f, S)[S]
  BY SumIsTop, <1>1 DEF Top
<1> QED BY <1>3, <1>6, <1>7

\* The same below S.
LEMMA SumOfPart ==
  ASSUME NEW S, IsFiniteSet(S), NEW f \in [S -> Int], NEW T \in SUBSET S, NEW x \in T
  PROVE  /\ SumOf(Restrict(f, T)) = f[x] + SumOf(Restrict(f, T \ {x}))
         /\ SumOf(Restrict(f, T)) \in Int
         /\ SumOf(Restrict(f, T \ {x})) \in Int
<1> DEFINE h == Restrict(f, T)
           k == Restrict(f, T \ {x})
<1>1. h \in [T -> Int] /\ h[x] = f[x] /\ k \in [T \ {x} -> Int]
  BY DEF Restrict
<1>2. IsFiniteSet(T) /\ IsFiniteSet(T \ {x})
  BY FS_Subset, FS_RemoveElement
<1>3. Without(h, x) = k
  BY DEF Without, Restrict
<1> HIDE DEF h, k
<1>4. SumOf(h) = f[x] + SumOf(k)
  BY <1>1, <1>2, <1>3, SumWithout
<1> QED BY <1>1, <1>2, <1>4, SumIsInteger DEF h, k

LEMMA SumOfNone == ASSUME NEW f PROVE SumOf(Restrict(f, {})) = 0
<1>1. DOMAIN Restrict(f, {}) = {}
  BY DEF Restrict
<1> QED BY <1>1, SumOfNothing

LEMMA AllOfIt == ASSUME NEW S, NEW f \in [S -> Int] PROVE Restrict(f, S) = f
BY DEF Restrict

LEMMA PartIsInteger ==
  ASSUME NEW S, IsFiniteSet(S), NEW f \in [S -> Int], NEW T \in SUBSET S
  PROVE  SumOf(Restrict(f, T)) \in Int
<1>1. Restrict(f, T) \in [T -> Int] /\ IsFiniteSet(T)
  BY FS_Subset DEF Restrict
<1> QED BY <1>1, SumIsInteger

\* A sum of zeros.
LEMMA SumOfZeros ==
  ASSUME NEW S, IsFiniteSet(S), NEW f \in [S -> Int], \A x \in S : f[x] = 0
  PROVE  SumOf(f) = 0
<1> DEFINE G == {T \in SUBSET S : SumOf(Restrict(f, T)) = 0}
<1>1. ASSUME NEW T \in SUBSET S, \A U \in SUBSET T : U # T => U \in G
      PROVE  T \in G
  <2>1. CASE T = {}
    BY <2>1, SumOfNone
  <2>2. CASE T # {}
    <3>1. PICK x \in T : TRUE
      BY <2>2
    <3>2. SumOf(Restrict(f, T \ {x})) = 0
      BY <1>1
    <3>3. SumOf(Restrict(f, T)) = f[x] + SumOf(Restrict(f, T \ {x}))
      BY SumOfPart
    <3> QED BY <3>2, <3>3
  <2> QED BY <2>1, <2>2
<1> HIDE DEF G
<1>2. S \in G
  BY <1>1, SubsetInduction
<1> QED BY <1>2, AllOfIt DEF G

\* A sum of natural numbers.
LEMMA SumIsNatural ==
  ASSUME NEW S, IsFiniteSet(S), NEW f \in [S -> Nat]
  PROVE  SumOf(f) \in Nat
<1> DEFINE G == {T \in SUBSET S : SumOf(Restrict(f, T)) \in Nat}
<1>0. f \in [S -> Int]
  OBVIOUS
<1>1. ASSUME NEW T \in SUBSET S, \A U \in SUBSET T : U # T => U \in G
      PROVE  T \in G
  <2>1. CASE T = {}
    BY <2>1, SumOfNone
  <2>2. CASE T # {}
    <3>1. PICK x \in T : TRUE
      BY <2>2
    <3>2. SumOf(Restrict(f, T \ {x})) \in Nat
      BY <1>1
    <3>3. SumOf(Restrict(f, T)) = f[x] + SumOf(Restrict(f, T \ {x}))
      BY <1>0, SumOfPart
    <3>4. f[x] \in Nat
      BY <3>1
    <3> QED BY <3>2, <3>3, <3>4
  <2> QED BY <2>1, <2>2
<1> HIDE DEF G
<1>2. S \in G
  BY <1>1, SubsetInduction
<1> QED BY <1>0, <1>2, AllOfIt DEF G

\* No summand is more than the sum.
LEMMA SummandAtMostSum ==
  ASSUME NEW S, IsFiniteSet(S), NEW f \in [S -> Nat], NEW x \in S
  PROVE  f[x] <= SumOf(f)
<1>1. Without(f, x) \in [S \ {x} -> Nat] /\ IsFiniteSet(S \ {x}) /\ f \in [S -> Int]
  BY FS_RemoveElement DEF Without, Restrict
<1>2. SumOf(Without(f, x)) \in Nat /\ f[x] \in Nat
  BY <1>1, SumIsNatural
<1>3. SumOf(f) = f[x] + SumOf(Without(f, x))
  BY <1>1, SumWithout
<1> QED BY <1>2, <1>3

\* One summand changes.
LEMMA SumChanged ==
  ASSUME NEW S, IsFiniteSet(S), NEW f \in [S -> Int], NEW g \in [S -> Int],
         NEW x \in S, \A y \in S \ {x} : g[y] = f[y]
  PROVE  SumOf(g) = SumOf(f) - f[x] + g[x]
<1>1. Without(f, x) = Without(g, x)
  BY DEF Without, Restrict
<1>2. Without(f, x) \in [S \ {x} -> Int] /\ IsFiniteSet(S \ {x})
  BY FS_RemoveElement DEF Without, Restrict
<1>3. SumOf(Without(f, x)) \in Int
  BY <1>2, SumIsInteger
<1>4. SumOf(f) = f[x] + SumOf(Without(f, x)) /\ SumOf(g) = g[x] + SumOf(Without(g, x))
  BY SumWithout
<1>5. f[x] \in Int /\ g[x] \in Int
  OBVIOUS
<1> QED BY <1>1, <1>3, <1>4, <1>5

\* One more summand.
LEMMA SumExtended ==
  ASSUME NEW S, IsFiniteSet(S), NEW x, x \notin S, NEW T, T = S \cup {x},
         NEW f \in [S -> Int], NEW g \in [T -> Int], \A y \in S : g[y] = f[y]
  PROVE  SumOf(g) = SumOf(f) + g[x]
<1>1. Without(g, x) = f
  BY DEF Without, Restrict
<1>2. IsFiniteSet(T) /\ x \in T
  BY FS_AddElement
<1>3. SumOf(g) = g[x] + SumOf(f)
  BY <1>1, <1>2, SumWithout
<1>4. SumOf(f) \in Int /\ g[x] \in Int
  BY SumIsInteger
<1> QED BY <1>3, <1>4

\* The same for a sequence of summands.
LEMMA SumAppended ==
  ASSUME NEW n \in Nat, NEW f \in [1..n -> Int], NEW g \in [1..(n + 1) -> Int],
         \A i \in 1..n : g[i] = f[i]
  PROVE  SumOf(g) = SumOf(f) + g[n + 1]
<1>1. IsFiniteSet(1..n) /\ IsFiniteSet(1..(n + 1))
  BY FS_Interval
<1>2. (1..(n + 1)) \ {n + 1} = 1..n /\ n + 1 \in 1..(n + 1)
  OBVIOUS
<1>3. Without(g, n + 1) = f
  BY <1>2 DEF Without, Restrict
<1>4. SumOf(g) = g[n + 1] + SumOf(Without(g, n + 1))
  BY <1>1, <1>2, SumWithout
<1>5. SumOf(f) \in Int /\ g[n + 1] \in Int
  BY <1>1, <1>2, SumIsInteger
<1> QED BY <1>3, <1>4, <1>5

\* The sum of sums.
LEMMA SumOfSums ==
  ASSUME NEW S, IsFiniteSet(S), NEW f \in [S -> Int], NEW g \in [S -> Int],
         NEW h \in [S -> Int], \A x \in S : h[x] = f[x] + g[x]
  PROVE  SumOf(h) = SumOf(f) + SumOf(g)
<1> DEFINE part(k, T) == SumOf(Restrict(k, T))
           G == {T \in SUBSET S : part(h, T) = part(f, T) + part(g, T)}
<1>1. ASSUME NEW T \in SUBSET S, \A U \in SUBSET T : U # T => U \in G
      PROVE  T \in G
  <2>1. CASE T = {}
    BY <2>1, SumOfNone
  <2>2. CASE T # {}
    <3>1. PICK x \in T : TRUE
      BY <2>2
    <3> DEFINE U == T \ {x}
    <3>2. part(h, U) = part(f, U) + part(g, U)
      BY <1>1
    <3>3. /\ part(h, T) = h[x] + part(h, U)
          /\ part(f, T) = f[x] + part(f, U)
          /\ part(g, T) = g[x] + part(g, U)
      BY SumOfPart
    <3>4. part(f, U) \in Int /\ part(g, U) \in Int
      BY SumOfPart
    <3>5. h[x] = f[x] + g[x] /\ f[x] \in Int /\ g[x] \in Int
      BY <3>1
    <3> HIDE DEF part, U
    <3>6. part(h, T) = part(f, T) + part(g, T)
      BY <3>2, <3>3, <3>4, <3>5
    <3> QED BY <3>6
  <2> QED BY <2>1, <2>2
<1> HIDE DEF G
<1>2. S \in G
  BY <1>1, SubsetInduction
<1>3. part(h, S) = part(f, S) + part(g, S)
  BY <1>2 DEF G
<1> QED BY <1>3, AllOfIt

\* Larger summands, a larger sum.
LEMMA SumAtLeast ==
  ASSUME NEW S, IsFiniteSet(S), NEW f \in [S -> Int], NEW h \in [S -> Int],
         \A x \in S : h[x] >= f[x]
  PROVE  SumOf(h) >= SumOf(f)
<1> DEFINE g == [x \in S |-> h[x] - f[x]]
<1>1. g \in [S -> Nat] /\ g \in [S -> Int] /\ \A x \in S : h[x] = f[x] + g[x]
  OBVIOUS
<1> HIDE DEF g
<1>2. SumOf(h) = SumOf(f) + SumOf(g)
  BY <1>1, SumOfSums
<1>3. SumOf(g) \in Nat /\ SumOf(f) \in Int
  BY <1>1, SumIsNatural, SumIsInteger
<1> QED BY <1>2, <1>3

\* The sum over a set is the sum over a part of it and over the rest.
LEMMA SumSplit ==
  ASSUME NEW S, IsFiniteSet(S), NEW f \in [S -> Int], NEW T \in SUBSET S
  PROVE  SumOf(f) = SumOf(Restrict(f, T)) + SumOf(Restrict(f, S \ T))
<1> DEFINE part(W) == SumOf(Restrict(f, W))
           G == {U \in SUBSET T : part(S) = part(U) + part(S \ U)}
<1>0. IsFiniteSet(T)
  BY FS_Subset
<1>1. ASSUME NEW U \in SUBSET T, \A V \in SUBSET U : V # U => V \in G
      PROVE  U \in G
  <2>1. CASE U = {}
    <3>1. part(U) = 0 /\ S \ U = S
      BY <2>1, SumOfNone
    <3>2. part(S) \in Int
      BY PartIsInteger
    <3> HIDE DEF part
    <3>3. part(S) = part(U) + part(S \ U)
      BY <3>1, <3>2
    <3> QED BY <3>3
  <2>2. CASE U # {}
    <3>1. PICK x \in U : TRUE
      BY <2>2
    <3> DEFINE V == U \ {x}
    <3>2. part(S) = part(V) + part(S \ V)
      BY <1>1
    <3>3. part(U) = f[x] + part(V)
      BY SumOfPart
    <3>4. (S \ V) \ {x} = S \ U /\ x \in S \ V /\ S \ V \in SUBSET S
      BY <3>1
    <3>5. part(S \ V) = f[x] + part(S \ U)
      BY <3>4, SumOfPart
    <3>6. part(V) \in Int /\ part(S \ U) \in Int /\ f[x] \in Int
      BY PartIsInteger
    <3> HIDE DEF part, V
    <3>7. part(S) = part(U) + part(S \ U)
      BY <3>2, <3>3, <3>5, <3>6
    <3> QED BY <3>7
  <2> QED BY <2>1, <2>2
<1> HIDE DEF G
<1>2. T \in G
  BY <1>0, <1>1, SubsetInduction
<1>3. part(S) = part(T) + part(S \ T)
  BY <1>2 DEF G
<1> QED BY <1>3, AllOfIt

\* Summands that are left out count as zeros.
LEMMA SumFiltered ==
  ASSUME NEW S, IsFiniteSet(S), NEW f \in [S -> Int], NEW T \in SUBSET S,
         NEW g \in [S -> Int], \A x \in T : g[x] = f[x], \A x \in S \ T : g[x] = 0
  PROVE  SumOf(g) = SumOf(Restrict(f, T))
<1>1. SumOf(g) = SumOf(Restrict(g, T)) + SumOf(Restrict(g, S \ T))
  BY SumSplit
<1>2. Restrict(g, T) = Restrict(f, T)
  BY DEF Restrict
<1>3. SumOf(Restrict(g, S \ T)) = 0
  <2> DEFINE R == S \ T
             h == Restrict(g, R)
  <2>1. IsFiniteSet(R) /\ h \in [R -> Int] /\ \A x \in R : h[x] = 0
    BY FS_Difference DEF Restrict
  <2> HIDE DEF R, h
  <2>2. SumOf(h) = 0
    BY <2>1, SumOfZeros
  <2> QED BY <2>2 DEF h, R
<1>4. SumOf(Restrict(f, T)) \in Int
  BY PartIsInteger
<1> QED BY <1>1, <1>2, <1>3, <1>4

\* The only summand that is not 0.
LEMMA SumOfOne ==
  ASSUME NEW S, IsFiniteSet(S), NEW x \in S, NEW f \in [S -> Int],
         \A y \in S \ {x} : f[y] = 0
  PROVE  SumOf(f) = f[x]
<1>1. Without(f, x) \in [S \ {x} -> Int] /\ \A y \in S \ {x} : Without(f, x)[y] = 0
  BY DEF Without, Restrict
<1>2. IsFiniteSet(S \ {x})
  BY FS_RemoveElement
<1>3. SumOf(Without(f, x)) = 0
  BY <1>1, <1>2, SumOfZeros
<1>4. SumOf(f) = f[x] + SumOf(Without(f, x)) /\ f[x] \in Int
  BY SumWithout
<1> QED BY <1>3, <1>4

\* Grouped by an owner: the sum of what belongs to each.
Belonging(f, owner, m) == [x \in DOMAIN f |-> IF owner[x] = m THEN f[x] ELSE 0]

LEMMA SumGrouped ==
  ASSUME NEW S, IsFiniteSet(S), NEW M, IsFiniteSet(M), NEW owner \in [S -> M],
         NEW f \in [S -> Int]
  PROVE  SumOf(f) = SumOf([m \in M |-> SumOf(Belonging(f, owner, m))])
<1> DEFINE of(T, m) == SumOf(Restrict(Belonging(f, owner, m), T))
           all(T) == [m \in M |-> of(T, m)]
           G == {T \in SUBSET S : SumOf(Restrict(f, T)) = SumOf(all(T))}
<1>0. \A m \in M : Belonging(f, owner, m) \in [S -> Int]
  BY DEF Belonging
<1>i. ASSUME NEW T \in SUBSET S PROVE all(T) \in [M -> Int]
  BY <1>0, PartIsInteger
<1>1. ASSUME NEW T \in SUBSET S, \A U \in SUBSET T : U # T => U \in G
      PROVE  T \in G
  <2>1. CASE T = {}
    <3>1. \A m \in M : all(T)[m] = 0
      BY <2>1, SumOfNone
    <3>2. all(T) \in [M -> Int]
      BY <1>i
    <3> HIDE DEF all
    <3>3. SumOf(all(T)) = 0
      BY <3>1, <3>2, SumOfZeros
    <3> QED BY <2>1, <3>3, SumOfNone
  <2>2. CASE T # {}
    <3>1. PICK x \in T : TRUE
      BY <2>2
    <3> DEFINE U == T \ {x}
               one == [m \in M |-> IF owner[x] = m THEN f[x] ELSE 0]
    <3>2. SumOf(Restrict(f, U)) = SumOf(all(U))
      BY <1>1
    <3>3. SumOf(Restrict(f, T)) = f[x] + SumOf(Restrict(f, U))
      BY SumOfPart
    <3>4. \A m \in M : of(T, m) = one[m] + of(U, m)
      <4> TAKE m \in M
      <4> DEFINE b == Belonging(f, owner, m)
      <4>1. b \in [S -> Int] /\ b[x] = one[m]
        BY <1>0, <3>1 DEF Belonging
      <4> HIDE DEF b, one
      <4>2. SumOf(Restrict(b, T)) = b[x] + SumOf(Restrict(b, U))
        BY <4>1, SumOfPart
      <4> QED BY <4>1, <4>2 DEF b
    <3>5. SumOf(one) = f[x] /\ one \in [M -> Int]
      <4>1. owner[x] \in M /\ one \in [M -> Int] /\ one[owner[x]] = f[x]
        BY <3>1
      <4>2. \A m \in M \ {owner[x]} : one[m] = 0
        OBVIOUS
      <4> HIDE DEF one
      <4> QED BY <4>1, <4>2, SumOfOne
    <3>6. SumOf(all(T)) = SumOf(one) + SumOf(all(U))
      <4> DEFINE a == all(T)
                 b == all(U)
      <4>1. a \in [M -> Int] /\ b \in [M -> Int]
        BY <1>i
      <4>2. \A m \in M : a[m] = one[m] + b[m]
        BY <3>4
      <4> HIDE DEF a, b, one
      <4>3. SumOf(a) = SumOf(one) + SumOf(b)
        BY <3>5, <4>1, <4>2, SumOfSums
      <4> QED BY <4>3 DEF a, b
    <3> HIDE DEF all, one, U
    <3>7. SumOf(Restrict(f, T)) = SumOf(all(T))
      BY <3>2, <3>3, <3>5, <3>6
    <3> QED BY <3>7
  <2> QED BY <2>1, <2>2
<1> HIDE DEF G
<1>2. S \in G
  BY <1>1, SubsetInduction
<1>3. SumOf(Restrict(f, S)) = SumOf(all(S))
  BY <1>2 DEF G
<1>4. all(S) = [m \in M |-> SumOf(Belonging(f, owner, m))]
  BY <1>0, AllOfIt
<1> QED BY <1>3, <1>4, AllOfIt

=============================================================================
