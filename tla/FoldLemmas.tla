---------------------------- MODULE FoldLemmas ----------------------------
(***************************************************************************)
(* Induction and recursion over finite data, and what the folds of the     *)
(* community modules compute.                                              *)
(*                                                                         *)
(* The induction theorems of the library take the predicate as an          *)
(* operator.  Here it is a set: the numbers, the finite sets or the        *)
(* sequences that satisfy it.  Each of these lemmas comes from one fact,   *)
(* that strict inclusion is well founded on finite sets: a nonempty set of *)
(* finite sets has a minimal element.                                      *)
(***************************************************************************)
EXTENDS Integers, Sequences, SequencesExt, FiniteSets, FiniteSetsExt, Functions,
        FiniteSetTheorems, SequenceTheorems, WellFoundedInduction, TLAPS

-----------------------------------------------------------------------------
(* Induction.                                                              *)

\* A nonempty set of finite subsets of S has a minimal element.
LEMMA MinimalSet ==
    ASSUME NEW S, NEW C, C # {}, C \subseteq FiniteSubsetsOf(S)
    PROVE  \E U \in C : \A T \in C : T \subseteq U => T = U
<1>1. C \subseteq SUBSET S
  BY DEF FiniteSubsetsOf
<1>2. IsWellFoundedOn(StrictSubsetOrdering(S), FiniteSubsetsOf(S))
  BY FS_StrictSubsetOrderingWellFounded
<1>3. PICK U \in C : \A T \in C : <<T, U>> \notin StrictSubsetOrdering(S)
  BY <1>2, WFMin
<1>4. \A T \in C : T \subseteq U => T = U
  BY <1>1, <1>3 DEF StrictSubsetOrdering
<1> QED
  BY <1>4

\* Induction over the natural numbers.
LEMMA NumberInduction ==
    ASSUME NEW S, 0 \in S, \A n \in Nat : n \in S => n + 1 \in S
    PROVE  Nat \subseteq S
<1> SUFFICES ASSUME NEW b \in Nat, b \notin S PROVE FALSE
  OBVIOUS
<1> DEFINE C == {1 .. n : n \in Nat \ S}
<1>1. C \subseteq FiniteSubsetsOf(Nat)
  <2>1. \A n \in Nat : IsFiniteSet(1 .. n)
    BY FS_Interval
  <2> QED
    BY <2>1 DEF FiniteSubsetsOf
<1>2. C # {}
  OBVIOUS
<1>3. PICK U \in C : \A T \in C : T \subseteq U => T = U
  <2> HIDE DEF C
  <2> QED
    BY <1>1, <1>2, MinimalSet
<1>4. PICK n \in Nat \ S : U = 1 .. n
  OBVIOUS
<1>5. n # 0
  OBVIOUS
<1>6. n - 1 \in Nat \ S
  BY <1>5
<1>7. 1 .. (n - 1) \in C
  BY <1>6
<1>8. 1 .. (n - 1) \subseteq 1 .. n /\ n \in 1 .. n /\ n \notin 1 .. (n - 1)
  BY <1>5
<1> QED
  BY <1>3, <1>4, <1>7, <1>8

\* Induction over the subsets of a finite set, one element at a time.
LEMMA SetInduction ==
    ASSUME NEW S, IsFiniteSet(S), NEW C, {} \in C,
           \A T \in SUBSET S, x \in S : T \in C /\ x \notin T => T \cup {x} \in C
    PROVE  S \in C
<1> SUFFICES ASSUME S \notin C PROVE FALSE
  OBVIOUS
<1> DEFINE B == {T \in SUBSET S : T \notin C}
<1>1. B \subseteq FiniteSubsetsOf(S)
  <2>1. \A T \in SUBSET S : IsFiniteSet(T)
    BY FS_Subset
  <2> QED
    BY <2>1 DEF FiniteSubsetsOf
<1>2. B # {}
  OBVIOUS
<1>3. PICK U \in B : \A T \in B : T \subseteq U => T = U
  <2> HIDE DEF B
  <2> QED
    BY <1>1, <1>2, MinimalSet
<1>4. PICK x \in U : TRUE
  OBVIOUS
<1>5. U \ {x} \in C
  BY <1>3, <1>4
<1>6. U \ {x} \in SUBSET S /\ x \in S /\ x \notin U \ {x} /\ (U \ {x}) \cup {x} = U
  BY <1>4
<1>7. U \in C
  BY <1>5, <1>6
<1> QED
  BY <1>7

\* Induction over sequences, one element at the end at a time.
LEMMA SequenceInduction ==
    ASSUME NEW S, NEW C, << >> \in C,
           \A s \in Seq(S), e \in S : s \in C => Append(s, e) \in C
    PROVE  Seq(S) \subseteq C
<1> DEFINE Lengths == {n \in Nat : \A s \in Seq(S) : Len(s) = n => s \in C}
<1>1. 0 \in Lengths
  <2>1. \A s \in Seq(S) : Len(s) = 0 => s = << >>
    BY EmptySeq
  <2> QED
    BY <2>1
<1>2. ASSUME NEW n \in Nat, n \in Lengths PROVE n + 1 \in Lengths
  <2> SUFFICES ASSUME NEW s \in Seq(S), Len(s) = n + 1 PROVE s \in C
    OBVIOUS
  <2>1. s # << >>
    BY EmptySeq
  <2>2. PICK t \in Seq(S), e \in S : s = Append(t, e)
    BY <2>1, SequenceEmptyOrAppend
  <2>3. Len(s) = Len(t) + 1 /\ Len(t) \in Nat
    BY <2>2, AppendProperties, LenProperties
  <2>4. t \in C
    BY <2>3, <1>2
  <2> QED
    BY <2>2, <2>4
<1>3. Nat \subseteq Lengths
  <2> HIDE DEF Lengths
  <2> QED
    BY <1>1, <1>2, NumberInduction
<1>4. \A s \in Seq(S) : Len(s) \in Nat
  BY LenProperties
<1> QED
  BY <1>3, <1>4

-----------------------------------------------------------------------------
(* Recursion.                                                              *)

\* A function on the subsets of a finite set S, with values in V: choose[T] is
\* the element taken from T, step[<<T, v>>] the value at T when v is the value
\* at what is left.
Recursion(S, V, base, choose, step) ==
    /\ IsFiniteSet(S)
    /\ base \in V
    /\ \A T \in SUBSET S : T # {} => choose[T] \in T
    /\ \A T \in SUBSET S, v \in V : T # {} => step[<<T, v>>] \in V

\* The function g satisfies the equation of the recursion.
Recursive(g, S, base, choose, step) ==
    \A T \in SUBSET S :
        g[T] = IF T = {} THEN base ELSE step[<<T, g[T \ {choose[T]}]>>]

\* There is a function that the recursion defines.
LEMMA SetRecursion ==
    ASSUME NEW S, NEW V, NEW base, NEW choose, NEW step,
           Recursion(S, V, base, choose, step)
    PROVE  \E g \in [SUBSET S -> V] : Recursive(g, S, base, choose, step)
<1> USE DEF Recursion, Recursive
<1> DEFINE UpTo(n) == {T \in SUBSET S : Cardinality(T) <= n}
           Solves(g, n) == \A T \in UpTo(n) :
               g[T] = IF T = {} THEN base ELSE step[<<T, g[T \ {choose[T]}]>>]
           Solvable == {n \in Nat : \E g \in [UpTo(n) -> V] : Solves(g, n)}
<1>0. \A T \in SUBSET S : IsFiniteSet(T) /\ Cardinality(T) \in Nat
                          /\ Cardinality(T) <= Cardinality(S)
  BY FS_Subset, FS_CardinalityType
<1>1. 0 \in Solvable
  <2>1. UpTo(0) = {{}}
    BY <1>0, FS_EmptySet
  <2>2. [T \in UpTo(0) |-> base] \in [UpTo(0) -> V]
    OBVIOUS
  <2>3. Solves([T \in UpTo(0) |-> base], 0)
    BY <2>1
  <2> QED
    BY <2>2, <2>3
<1>2. ASSUME NEW n \in Nat, n \in Solvable PROVE n + 1 \in Solvable
  <2>1. PICK g \in [UpTo(n) -> V] : Solves(g, n)
    BY <1>2
  <2> DEFINE h == [T \in UpTo(n + 1) |->
                     IF T = {} THEN base ELSE step[<<T, g[T \ {choose[T]}]>>]]
  <2>2. ASSUME NEW T \in UpTo(n + 1), T # {}
        PROVE  T \ {choose[T]} \in UpTo(n)
    <3>1. choose[T] \in T
      BY <2>2
    <3>2. Cardinality(T \ {choose[T]}) = Cardinality(T) - 1
      BY <1>0, <3>1, FS_RemoveElement
    <3> QED
      BY <1>0, <3>2
  <2>3. h \in [UpTo(n + 1) -> V]
    <3> SUFFICES ASSUME NEW T \in UpTo(n + 1)
                 PROVE  (IF T = {} THEN base ELSE step[<<T, g[T \ {choose[T]}]>>]) \in V
      OBVIOUS
    <3>1. CASE T = {}
      BY <3>1
    <3>2. CASE T # {}
      <4>1. g[T \ {choose[T]}] \in V
        BY <2>1, <2>2, <3>2
      <4> QED
        BY <3>2, <4>1
    <3> QED
      BY <3>1, <3>2
  <2>4. \A T \in UpTo(n) : T \in UpTo(n + 1) /\ h[T] = g[T]
    BY <1>0, <2>1
  <2>5. Solves(h, n + 1)
    BY <2>2, <2>4
  <2>6. \E f \in [UpTo(n + 1) -> V] : Solves(f, n + 1)
    <3> HIDE DEF h, Solves
    <3> QED
      BY <2>3, <2>5
  <2> QED
    <3> HIDE DEF h, Solves, UpTo
    <3> QED
      BY <2>6
<1>3. Nat \subseteq Solvable
  <2> HIDE DEF Solvable
  <2> QED
    BY <1>1, <1>2, NumberInduction
<1>4. Cardinality(S) \in Solvable
  BY <1>0, <1>3
<1>5. UpTo(Cardinality(S)) = SUBSET S
  BY <1>0
<1>6. PICK g \in [UpTo(Cardinality(S)) -> V] : Solves(g, Cardinality(S))
  BY <1>4
<1> QED
  BY <1>5, <1>6

\* The largest element of a nonempty finite set of numbers.
LEMMA LargestElement ==
    ASSUME NEW S \in SUBSET Int, IsFiniteSet(S), S # {}
    PROVE  Max(S) \in S /\ \A x \in S : x <= Max(S)
<1> DEFINE C == {T \in SUBSET S : T # {} => \E x \in T : \A y \in T : x >= y}
<1>1. {} \in C
  OBVIOUS
<1>2. ASSUME NEW T \in SUBSET S, NEW x \in S, T \in C, x \notin T
      PROVE  T \cup {x} \in C
  <2>1. CASE T = {}
    BY <2>1
  <2>2. CASE T # {}
    <3>1. PICK m \in T : \A y \in T : m >= y
      BY <1>2, <2>2
    <3>2. CASE x >= m
      <4>1. \A y \in T \cup {x} : x >= y
        BY <3>1, <3>2
      <4> QED
        BY <4>1
    <3>3. CASE ~(x >= m)
      <4>1. \A y \in T \cup {x} : m >= y
        BY <3>1, <3>3
      <4> QED
        BY <4>1
    <3> QED
      BY <3>2, <3>3
  <2> QED
    BY <2>1, <2>2
<1>3. S \in C
  <2> HIDE DEF C
  <2> QED
    BY <1>1, <1>2, SetInduction
<1>4. \E x \in S : \A y \in S : x >= y
  BY <1>3
<1> QED
  BY <1>4 DEF Max

\* The smallest element of a nonempty set of natural numbers.
LEMMA SmallestElement ==
    ASSUME NEW S \in SUBSET Nat, S # {}
    PROVE  Min(S) \in S /\ \A x \in S : Min(S) <= x
<1> DEFINE Below == {n \in Nat : \A x \in S : n <= x}
<1>1. \E n \in Below : n + 1 \notin Below
  <2> SUFFICES ASSUME \A n \in Below : n + 1 \in Below PROVE FALSE
    OBVIOUS
  <2>1. 0 \in Below
    OBVIOUS
  <2>2. \A n \in Nat : n \in Below => n + 1 \in Below
    OBVIOUS
  <2>3. Nat \subseteq Below
    <3> HIDE DEF Below
    <3> QED
      BY <2>1, <2>2, NumberInduction
  <2>4. PICK x \in S : TRUE
    OBVIOUS
  <2>5. x + 1 \in Below
    BY <2>3, <2>4
  <2> QED
    BY <2>4, <2>5
<1>2. PICK n \in Below : n + 1 \notin Below
  BY <1>1
<1>3. n \in S
  <2>1. PICK x \in S : ~(n + 1 <= x)
    BY <1>2
  <2>2. n <= x
    BY <1>2, <2>1
  <2>3. n = x
    BY <1>2, <2>1, <2>2
  <2> QED
    BY <2>1, <2>3
<1>4. \A y \in S : n <= y
  BY <1>2
<1> QED
  BY <1>3, <1>4 DEF Min

-----------------------------------------------------------------------------
(* Sums.                                                                   *)

\* What the fold computes for each subset T of S: the value at some element of
\* T and the sum over the others.
Sums(g, f, S) ==
    \A T \in SUBSET S :
        g[T] = IF T = {} THEN 0
               ELSE f[CHOOSE x \in T : TRUE] + g[T \ {CHOOSE x \in T : TRUE}]

\* The sum of f over a finite set is computed that way.
LEMMA SumEquation ==
    ASSUME NEW S, IsFiniteSet(S), NEW f, \A x \in S : f[x] \in Int
    PROVE  \E g \in [SUBSET S -> Int] : Sums(g, f, S) /\ SumFunctionOnSet(f, S) = g[S]
<1> USE DEF Sums
<1> DEFINE choose == [T \in SUBSET S |-> CHOOSE x \in T : TRUE]
           step == [p \in (SUBSET S) \X Int |-> f[choose[p[1]]] + p[2]]
           Right(h) == [T \in SUBSET S |->
                          IF T = {} THEN 0
                          ELSE f[CHOOSE x \in T : TRUE] + h[T \ {CHOOSE x \in T : TRUE}]]
           g == CHOOSE h : h = Right(h)
<1>1. \A T \in SUBSET S : T # {} => choose[T] \in T
  OBVIOUS
<1>2. \A T \in SUBSET S, v \in Int : T # {} => step[<<T, v>>] \in Int
  <2> SUFFICES ASSUME NEW T \in SUBSET S, NEW v \in Int, T # {}
               PROVE  step[<<T, v>>] \in Int
    OBVIOUS
  <2>1. step[<<T, v>>] = f[choose[T]] + v
    OBVIOUS
  <2>2. f[choose[T]] \in Int
    BY <1>1
  <2> QED
    BY <2>1, <2>2
<1>3. PICK h \in [SUBSET S -> Int] : \A T \in SUBSET S :
          h[T] = IF T = {} THEN 0 ELSE step[<<T, h[T \ {choose[T]}]>>]
  <2>1. Recursion(S, Int, 0, choose, step)
    BY <1>1, <1>2 DEF Recursion
  <2>2. \E h \in [SUBSET S -> Int] : Recursive(h, S, 0, choose, step)
    <3> HIDE DEF choose, step
    <3> QED
      BY <2>1, SetRecursion
  <2>3. PICK h \in [SUBSET S -> Int] : Recursive(h, S, 0, choose, step)
    BY <2>2
  <2>4. \A T \in SUBSET S :
          h[T] = IF T = {} THEN 0 ELSE step[<<T, h[T \ {choose[T]}]>>]
    <3> HIDE DEF choose, step
    <3> QED
      BY <2>3 DEF Recursive
  <2> QED
    BY <2>4
<1>4. \A T \in SUBSET S : h[T] = Right(h)[T]
  <2> SUFFICES ASSUME NEW T \in SUBSET S, T # {} PROVE h[T] = Right(h)[T]
    BY <1>3
  <2>1. T \ {choose[T]} \in SUBSET S /\ h[T \ {choose[T]}] \in Int
    OBVIOUS
  <2>2. step[<<T, h[T \ {choose[T]}]>>] = f[choose[T]] + h[T \ {choose[T]}]
    BY <2>1
  <2> QED
    BY <2>2, <1>3
<1>5. h = Right(h)
  BY <1>4
<1>6. g = Right(g)
  <2> HIDE DEF Right
  <2> QED
    BY <1>5
<1>7. SumFunctionOnSet(f, S) = g[S]
  BY DEF SumFunctionOnSet, FoldFunctionOnSet, MapThenFoldSet
<1>8. \A T \in SUBSET S :
          g[T] = IF T = {} THEN 0
                 ELSE f[CHOOSE x \in T : TRUE] + g[T \ {CHOOSE x \in T : TRUE}]
  <2> HIDE DEF g
  <2> QED
    BY <1>6
<1>9. \A T \in SUBSET S : g[T] = h[T]
  <2> DEFINE B == {T \in SUBSET S : g[T] # h[T]}
  <2> SUFFICES B = {}
    OBVIOUS
  <2> SUFFICES ASSUME B # {} PROVE FALSE
    OBVIOUS
  <2>1. B \subseteq FiniteSubsetsOf(S)
    <3>1. \A T \in SUBSET S : IsFiniteSet(T)
      BY FS_Subset
    <3> QED
      BY <3>1 DEF FiniteSubsetsOf
  <2>2. PICK U \in B : \A T \in B : T \subseteq U => T = U
    <3> HIDE DEF B
    <3> QED
      BY <2>1, MinimalSet
  <2>3. U # {}
    BY <1>4, <1>8
  <2> DEFINE c == CHOOSE x \in U : TRUE
  <2>4. c \in U /\ U \ {c} \notin B /\ U \ {c} \in SUBSET S
    BY <2>2, <2>3
  <2>5. g[U \ {c}] = h[U \ {c}]
    BY <2>4
  <2>6. g[U] = f[c] + g[U \ {c}] /\ h[U] = f[c] + h[U \ {c}]
    BY <1>4, <1>8, <2>3
  <2> QED
    BY <2>5, <2>6
<1> HIDE DEF g
<1>10. SumFunctionOnSet(f, S) = h[S]
  BY <1>7, <1>9
<1> QED
  BY <1>4, <1>10

\* A set of subsets of a finite set that no smallest set belongs to is empty.
LEMMA NoMinimalSet ==
    ASSUME NEW S, IsFiniteSet(S), NEW B \in SUBSET SUBSET S,
           \A U \in B : \E T \in B : T \subseteq U /\ T # U
    PROVE  B = {}
<1>1. B \subseteq FiniteSubsetsOf(S)
  <2>1. \A T \in SUBSET S : IsFiniteSet(T)
    BY FS_Subset
  <2> QED
    BY <2>1 DEF FiniteSubsetsOf
<1> QED
  BY <1>1, MinimalSet

\* The sum over a subset is what the function of the whole set gives.
LEMMA SumOfSubset ==
    ASSUME NEW S, IsFiniteSet(S), NEW f, \A x \in S : f[x] \in Int,
           NEW g, Sums(g, f, S), NEW T \in SUBSET S
    PROVE  SumFunctionOnSet(f, T) = g[T] /\ g[T] \in Int
<1>1. IsFiniteSet(T) /\ \A x \in T : f[x] \in Int
  BY FS_Subset
<1>2. PICK h \in [SUBSET T -> Int] : Sums(h, f, T) /\ SumFunctionOnSet(f, T) = h[T]
  BY <1>1, SumEquation
<1> DEFINE B == {U \in SUBSET T : g[U] # h[U]}
<1>3. ASSUME NEW U \in B PROVE \E V \in B : V \subseteq U /\ V # U
  <2>1. U # {}
    BY <1>2 DEF Sums
  <2> DEFINE c == CHOOSE x \in U : TRUE
  <2>2. c \in U
    BY <2>1
  <2>3. g[U] = f[c] + g[U \ {c}] /\ h[U] = f[c] + h[U \ {c}]
    BY <1>2, <2>1 DEF Sums
  <2>4. U \ {c} \in B
    BY <2>3
  <2> QED
    BY <2>2, <2>4
<1>4. B = {}
  <2>1. B \in SUBSET SUBSET T
    OBVIOUS
  <2> HIDE DEF B
  <2> QED
    BY <1>1, <1>3, <2>1, NoMinimalSet
<1>5. g[T] = h[T]
  BY <1>4
<1> QED
  BY <1>2, <1>5

\* Any element may be taken out first.
LEMMA SumTakesAny ==
    ASSUME NEW S, IsFiniteSet(S), NEW f, \A x \in S : f[x] \in Int,
           NEW g, Sums(g, f, S), \A T \in SUBSET S : g[T] \in Int
    PROVE  \A x \in S : g[S] = f[x] + g[S \ {x}]
<1> DEFINE B == {U \in SUBSET S : \E x \in U : g[U] # f[x] + g[U \ {x}]}
<1>1. ASSUME NEW U \in B PROVE \E V \in B : V \subseteq U /\ V # U
  <2>1. PICK x \in U : g[U] # f[x] + g[U \ {x}]
    OBVIOUS
  <2> DEFINE c == CHOOSE y \in U : TRUE
  <2>2. c \in U
    BY <2>1
  <2>3. g[U] = f[c] + g[U \ {c}]
    BY <2>1 DEF Sums
  <2>4. x # c
    BY <2>1, <2>3
  <2>5. x \in U \ {c} /\ c \in U \ {x} /\ (U \ {c}) \ {x} = (U \ {x}) \ {c}
    BY <2>2, <2>4
  <2> DEFINE R == (U \ {c}) \ {x}
  <2>6. g[U \ {c}] \in Int /\ g[U \ {x}] \in Int /\ g[R] \in Int
        /\ f[x] \in Int /\ f[c] \in Int
    BY <2>2
  <2>7. ~(g[U \ {c}] = f[x] + g[R] /\ g[U \ {x}] = f[c] + g[R])
    <3> HIDE DEF R, c
    <3> QED
      BY <2>1, <2>3, <2>6
  <2>8. U \ {c} \in B \/ U \ {x} \in B
    <3> HIDE DEF c
    <3> QED
      BY <2>2, <2>5, <2>7
  <2> QED
    BY <2>1, <2>2, <2>8
<1>2. B = {}
  <2>1. B \in SUBSET SUBSET S
    OBVIOUS
  <2> HIDE DEF B
  <2> QED
    BY <1>1, <2>1, NoMinimalSet
<1> QED
  BY <1>2

\* The sum over nothing.
LEMMA SumEmpty ==
    ASSUME NEW f PROVE SumFunctionOnSet(f, {}) = 0
<1>1. IsFiniteSet({}) /\ \A x \in {} : f[x] \in Int
  BY FS_EmptySet
<1>2. PICK g \in [SUBSET {} -> Int] : Sums(g, f, {}) /\ SumFunctionOnSet(f, {}) = g[{}]
  BY <1>1, SumEquation
<1> QED
  BY <1>2 DEF Sums

\* The sum over a set is one of its values and the sum over the others.
LEMMA SumRemove ==
    ASSUME NEW S, IsFiniteSet(S), NEW f, \A x \in S : f[x] \in Int, NEW x \in S
    PROVE  /\ SumFunctionOnSet(f, S) = f[x] + SumFunctionOnSet(f, S \ {x})
           /\ SumFunctionOnSet(f, S \ {x}) \in Int
<1>1. PICK g \in [SUBSET S -> Int] : Sums(g, f, S) /\ SumFunctionOnSet(f, S) = g[S]
  BY SumEquation
<1>2. \A y \in S : g[S] = f[y] + g[S \ {y}]
  BY <1>1, SumTakesAny
<1>3. SumFunctionOnSet(f, S \ {x}) = g[S \ {x}] /\ g[S \ {x}] \in Int
  BY <1>1, SumOfSubset
<1> QED
  BY <1>1, <1>2, <1>3

\* A sum of integers is an integer.
LEMMA SumInt ==
    ASSUME NEW S, IsFiniteSet(S), NEW f, \A x \in S : f[x] \in Int
    PROVE  SumFunctionOnSet(f, S) \in Int
<1>1. PICK g \in [SUBSET S -> Int] : Sums(g, f, S) /\ SumFunctionOnSet(f, S) = g[S]
  BY SumEquation
<1> QED
  BY <1>1

\* The sum over a set and one more element.
LEMMA SumAdd ==
    ASSUME NEW S, IsFiniteSet(S), NEW x, x \notin S,
           NEW f, f[x] \in Int, \A y \in S : f[y] \in Int
    PROVE  SumFunctionOnSet(f, S \cup {x}) = f[x] + SumFunctionOnSet(f, S)
<1>1. IsFiniteSet(S \cup {x}) /\ (S \cup {x}) \ {x} = S
  BY FS_AddElement
<1>2. \A y \in S \cup {x} : f[y] \in Int
  OBVIOUS
<1> QED
  BY <1>1, <1>2, SumRemove

\* A function that is nowhere smaller has a sum that is not smaller.
LEMMA SumMonotone ==
    ASSUME NEW S, IsFiniteSet(S), NEW f, NEW g,
           \A x \in S : f[x] \in Int /\ g[x] \in Int /\ f[x] <= g[x]
    PROVE  SumFunctionOnSet(f, S) <= SumFunctionOnSet(g, S)
<1> DEFINE C == {T \in SUBSET S : SumFunctionOnSet(f, T) <= SumFunctionOnSet(g, T)}
<1>1. {} \in C
  BY SumEmpty
<1>2. ASSUME NEW T \in SUBSET S, NEW x \in S, T \in C, x \notin T
      PROVE  T \cup {x} \in C
  <2>1. IsFiniteSet(T)
    BY FS_Subset
  <2>2. SumFunctionOnSet(f, T) \in Int /\ SumFunctionOnSet(g, T) \in Int
    BY <2>1, SumInt
  <2>3. /\ SumFunctionOnSet(f, T \cup {x}) = f[x] + SumFunctionOnSet(f, T)
        /\ SumFunctionOnSet(g, T \cup {x}) = g[x] + SumFunctionOnSet(g, T)
    BY <1>2, <2>1, SumAdd
  <2> QED
    BY <1>2, <2>2, <2>3
<1>3. S \in C
  <2> HIDE DEF C
  <2> QED
    BY <1>1, <1>2, SetInduction
<1> QED
  BY <1>3

\* Functions that agree on the set have the same sum over it.
LEMMA SumEqual ==
    ASSUME NEW S, IsFiniteSet(S), NEW f, NEW g,
           \A x \in S : f[x] \in Int /\ f[x] = g[x]
    PROVE  SumFunctionOnSet(f, S) = SumFunctionOnSet(g, S)
<1>1. SumFunctionOnSet(f, S) <= SumFunctionOnSet(g, S)
  BY SumMonotone
<1>2. SumFunctionOnSet(g, S) <= SumFunctionOnSet(f, S)
  BY SumMonotone
<1>3. SumFunctionOnSet(f, S) \in Int /\ SumFunctionOnSet(g, S) \in Int
  BY SumInt
<1> QED
  BY <1>1, <1>2, <1>3

\* A sum of natural numbers is a natural number, not smaller than any of them.
LEMMA SumNat ==
    ASSUME NEW S, IsFiniteSet(S), NEW f, \A x \in S : f[x] \in Nat
    PROVE  SumFunctionOnSet(f, S) \in Nat /\ \A x \in S : f[x] <= SumFunctionOnSet(f, S)
<1> DEFINE C == {T \in SUBSET S : SumFunctionOnSet(f, T) \in Nat}
<1>1. {} \in C
  BY SumEmpty
<1>2. ASSUME NEW T \in SUBSET S, NEW x \in S, T \in C, x \notin T
      PROVE  T \cup {x} \in C
  <2>1. IsFiniteSet(T)
    BY FS_Subset
  <2>2. f[x] \in Int /\ \A y \in T : f[y] \in Int
    OBVIOUS
  <2>3. SumFunctionOnSet(f, T \cup {x}) = f[x] + SumFunctionOnSet(f, T)
    BY <1>2, <2>1, <2>2, SumAdd
  <2> QED
    BY <1>2, <2>3
<1>3. ASSUME NEW U \in SUBSET S PROVE U \in C
  <2>1. IsFiniteSet(U)
    BY FS_Subset
  <2>2. \A T \in SUBSET U, x \in U : T \in C /\ x \notin T => T \cup {x} \in C
    BY <1>2
  <2> HIDE DEF C
  <2> QED
    BY <1>1, <2>1, <2>2, SetInduction
<1>4. ASSUME NEW x \in S PROVE f[x] <= SumFunctionOnSet(f, S)
  <2>1. SumFunctionOnSet(f, S) = f[x] + SumFunctionOnSet(f, S \ {x})
    BY SumRemove
  <2>2. SumFunctionOnSet(f, S \ {x}) \in Nat
    BY <1>3
  <2> QED
    BY <2>1, <2>2
<1> QED
  BY <1>3, <1>4

\* A sum of natural numbers over more of them is not smaller.
LEMMA SumGrows ==
    ASSUME NEW T, IsFiniteSet(T), NEW S \in SUBSET T, NEW f, \A x \in T : f[x] \in Nat
    PROVE  SumFunctionOnSet(f, S) <= SumFunctionOnSet(f, T)
<1> DEFINE C == {U \in SUBSET T : SumFunctionOnSet(f, U \cap S) <= SumFunctionOnSet(f, U)}
<1>1. {} \in C
  BY SumEmpty
<1>2. ASSUME NEW U \in SUBSET T, NEW x \in T, U \in C, x \notin U
      PROVE  U \cup {x} \in C
  <2>1. IsFiniteSet(U) /\ IsFiniteSet(U \cap S)
    BY FS_Subset
  <2>2. /\ f[x] \in Int /\ f[x] >= 0
        /\ \A y \in U : f[y] \in Int
        /\ \A y \in U \cap S : f[y] \in Int
    OBVIOUS
  <2>3. SumFunctionOnSet(f, U \cup {x}) = f[x] + SumFunctionOnSet(f, U)
    BY <1>2, <2>1, <2>2, SumAdd
  <2>4. SumFunctionOnSet(f, U) \in Int /\ SumFunctionOnSet(f, U \cap S) \in Int
    BY <2>1, <2>2, SumInt
  <2>5. SumFunctionOnSet(f, U \cap S) <= SumFunctionOnSet(f, U)
    BY <1>2
  <2>6. PICK a \in Int, b \in Int, c \in Nat :
          /\ a = SumFunctionOnSet(f, U \cap S) /\ b = SumFunctionOnSet(f, U)
          /\ c = f[x]
    BY <2>2, <2>4
  <2>7. a <= b /\ SumFunctionOnSet(f, U \cup {x}) = c + b
    BY <2>3, <2>5, <2>6
  <2>8. SumFunctionOnSet(f, (U \cup {x}) \cap S) \in {a, c + a}
    <3>1. CASE x \in S
      <4>1. (U \cup {x}) \cap S = (U \cap S) \cup {x} /\ x \notin U \cap S
        BY <1>2, <3>1
      <4>2. SumFunctionOnSet(f, (U \cap S) \cup {x}) = f[x] + SumFunctionOnSet(f, U \cap S)
        BY <4>1, <2>1, <2>2, SumAdd
      <4> QED
        BY <2>6, <4>1, <4>2
    <3>2. CASE x \notin S
      <4>1. (U \cup {x}) \cap S = U \cap S
        BY <3>2
      <4> QED
        BY <2>6, <4>1
    <3> QED
      BY <3>1, <3>2
  <2>9. SumFunctionOnSet(f, (U \cup {x}) \cap S) <= SumFunctionOnSet(f, U \cup {x})
    BY <2>7, <2>8
  <2> QED
    BY <2>9
<1>3. T \in C
  <2> HIDE DEF C
  <2> QED
    BY <1>1, <1>2, SetInduction
<1>4. T \cap S = S
  OBVIOUS
<1> QED
  BY <1>3, <1>4

\* The sum of the same number n times.
LEMMA SumConstant ==
    ASSUME NEW n \in Nat, NEW q \in Int, NEW f, \A i \in 1 .. n : f[i] = q
    PROVE  SumFunctionOnSet(f, 1 .. n) = n * q
<1> DEFINE C == {k \in Nat : k <= n => SumFunctionOnSet(f, 1 .. k) = k * q}
<1>1. 0 \in C
  <2>1. 1 .. 0 = {}
    OBVIOUS
  <2> QED
    BY <2>1, SumEmpty
<1>2. ASSUME NEW k \in Nat, k \in C
      PROVE  k + 1 \in C
  <2> SUFFICES ASSUME k + 1 <= n
               PROVE  SumFunctionOnSet(f, 1 .. k + 1) = (k + 1) * q
    OBVIOUS
  <2>1. PICK j \in Nat : j = k + 1
    OBVIOUS
  <2>2. 1 .. j = (1 .. k) \cup {j} /\ j \notin 1 .. k /\ IsFiniteSet(1 .. k)
    BY <2>1, FS_Interval
  <2>3. f[j] = q /\ \A i \in 1 .. k : f[i] \in Int
    BY <2>1
  <2>4. SumFunctionOnSet(f, (1 .. k) \cup {j}) = f[j] + SumFunctionOnSet(f, 1 .. k)
    BY <2>2, <2>3, SumAdd
  <2>5. SumFunctionOnSet(f, 1 .. k) = k * q
    BY <1>2
  <2>6. SumFunctionOnSet(f, 1 .. j) = q + k * q
    BY <2>2, <2>3, <2>4, <2>5
  <2>7. (k + 1) * q = q + k * q
    OBVIOUS
  <2> QED
    BY <2>1, <2>6, <2>7
<1>3. n \in C
  <2> HIDE DEF C
  <2> QED
    BY <1>1, <1>2, NumberInduction
<1> QED
  BY <1>3

-----------------------------------------------------------------------------
(* Sets as sequences.                                                      *)

\* A finite set listed as a sequence: every element of the set, once.
LEMMA SetToSeqLists ==
    ASSUME NEW S, IsFiniteSet(S)
    PROVE  /\ SetToSeq(S) \in Seq(S)
           /\ Len(SetToSeq(S)) = Cardinality(S)
           /\ \A x \in S : \E i \in DOMAIN SetToSeq(S) : SetToSeq(S)[i] = x
<1> DEFINE n == Cardinality(S)
<1>1. n \in Nat /\ ExistsBijection(1 .. n, S)
  BY FS_CardinalityType
<1>2. \E f \in [1 .. n -> S] : IsInjective(f)
  BY <1>1 DEF ExistsBijection, Bijection, Injection
<1>3. SetToSeq(S) \in [1 .. n -> S] /\ IsInjective(SetToSeq(S))
  BY <1>2 DEF SetToSeq
<1>4. SetToSeq(S) \in Injection(1 .. n, S)
  BY <1>3 DEF Injection
<1>5. Cardinality(1 .. n) = n
  BY <1>1, FS_Interval
<1>6. SetToSeq(S) \in Surjection(1 .. n, S)
  BY <1>4, <1>5, FS_Injection
<1>7. SetToSeq(S) \in Seq(S) /\ Len(SetToSeq(S)) = n
  BY <1>1, <1>3
<1> QED
  BY <1>3, <1>6, <1>7 DEF Surjection
=============================================================================
