------------------------------ MODULE SumProofs ------------------------------
(***************************************************************************)
(* Sums of integers over finite sets.  The folds of the community modules  *)
(* are recursive functions on the subsets of a set; SumOn is the form    *)
(* that those with + unfold to.  That the recursion has a solution, and    *)
(* one only, is proved by taking a smallest set for which it has not.      *)
(***************************************************************************)
EXTENDS Integers, FiniteSets, FiniteSetTheorems, WellFoundedInduction, TLAPS

\* g adds up f on the subsets of S, taking out one element after another.
AddsUp(g, f, S) ==
  g = [s \in SUBSET S |->
         IF s = {} THEN 0
         ELSE f[CHOOSE x \in s : TRUE] + g[s \ {CHOOSE x \in s : TRUE}]]

SumOn(f, S) == (CHOOSE g : AddsUp(g, f, S))[S]

-----------------------------------------------------------------------------
\* A property of sets that holds of a finite set whenever it holds of its
\* strict subsets holds of all its subsets.
LEMMA SmallestCounterexample ==
  ASSUME NEW S, IsFiniteSet(S), NEW Good,
         \A T \in SUBSET S : (\A U \in SUBSET T : U # T => U \in Good) => T \in Good
  PROVE  \A T \in SUBSET S : T \in Good
<1> DEFINE Bad == {T \in SUBSET S : T \notin Good}
<1>1. SUFFICES ASSUME Bad # {} PROVE FALSE
  OBVIOUS
<1>2. IsWellFoundedOn(StrictSubsetOrdering(S), SUBSET S)
  BY FS_StrictSubsetOrderingWellFounded, FS_FiniteSubsetsOfFinite
<1>3. PICK T \in Bad : \A U \in Bad : ~ (<<U, T>> \in StrictSubsetOrdering(S))
  <2>1. Bad \subseteq SUBSET S
    OBVIOUS
  <2> HIDE DEF Bad
  <2>. QED
    BY <1>1, <1>2, <2>1, WFMin
<1>4. \A U \in SUBSET T : U # T => U \in Good
  BY <1>3 DEF StrictSubsetOrdering
<1>. QED
  BY <1>3, <1>4

\* Two ways to add up the same values agree wherever both are defined.
LEMMA AddsUpIsUnique ==
  ASSUME NEW f1, NEW f2, NEW S1, NEW S2, NEW g1, NEW g2,
         AddsUp(g1, f1, S1), AddsUp(g2, f2, S2),
         NEW T, IsFiniteSet(T), T \subseteq S1, T \subseteq S2,
         \A x \in T : f1[x] = f2[x]
  PROVE  g1[T] = g2[T]
<1> DEFINE Good == {U \in SUBSET T : g1[U] = g2[U]}
<1>1. ASSUME NEW U \in SUBSET T, \A V \in SUBSET U : V # U => V \in Good
      PROVE  U \in Good
  <2>1. CASE U = {}
    BY <2>1 DEF AddsUp
  <2>2. CASE U # {}
    <3> DEFINE c == CHOOSE x \in U : TRUE
    <3>1. c \in U
      BY <2>2
    <3> HIDE DEF c
    <3>2. U \ {c} \in SUBSET U /\ U \ {c} # U
      BY <3>1
    <3>3. g1[U \ {c}] = g2[U \ {c}]
      BY <1>1, <3>2
    <3>4. /\ g1[U] = f1[c] + g1[U \ {c}]
          /\ g2[U] = f2[c] + g2[U \ {c}]
      BY <2>2 DEF AddsUp, c
    <3>. QED
      BY <3>1, <3>3, <3>4
  <2>. QED
    BY <2>1, <2>2
<1> HIDE DEF Good
<1>2. \A U \in SUBSET T : U \in Good
  BY <1>1, SmallestCounterexample
<1>. QED
  BY <1>2 DEF Good

\* What the recursion with smaller sums yields, when these exist.
LEMMA AddsUpExtends ==
  ASSUME NEW f, NEW T, IsFiniteSet(T),
         \A U \in SUBSET T : U # T => \E g : AddsUp(g, f, U)
  PROVE  \E g : AddsUp(g, f, T)
<1> DEFINE c(s) == CHOOSE x \in s : TRUE
           h(U) == CHOOSE g : AddsUp(g, f, U)
           g == [s \in SUBSET T |-> IF s = {} THEN 0 ELSE f[c(s)] + h(s \ {c(s)})[s \ {c(s)}]]
<1>1. \A U \in SUBSET T : U # T => AddsUp(h(U), f, U)
  OBVIOUS
<1>2. ASSUME NEW s \in SUBSET T, s # {}
      PROVE  g[s \ {c(s)}] = h(s \ {c(s)})[s \ {c(s)}]
  <2> DEFINE u == s \ {c(s)}
  <2>1. c(s) \in s /\ u \in SUBSET T /\ u # T /\ IsFiniteSet(u)
    BY <1>2, FS_Subset
  <2>2. AddsUp(h(u), f, u)
    BY <1>1, <2>1
  <2> HIDE DEF u
  <2>3. CASE u = {}
    <3>1. g[u] = 0
      BY <2>1, <2>3
    <3>2. h(u)[u] = 0
      <4> HIDE DEF h
      <4>. QED
        BY <2>2, <2>3 DEF AddsUp
    <3>. QED
      BY <3>1, <3>2 DEF u
  <2>4. CASE u # {}
    <3> DEFINE v == u \ {c(u)}
    <3>1. v \in SUBSET T /\ v # T /\ v \subseteq u /\ IsFiniteSet(v)
      BY <2>1, FS_Subset
    <3>2. AddsUp(h(v), f, v)
      BY <1>1, <3>1
    <3>3. h(u)[v] = h(v)[v]
      <4> HIDE DEF h, v
      <4>. QED
        BY <2>2, <3>1, <3>2, AddsUpIsUnique
    <3>4. h(u)[u] = f[c(u)] + h(u)[v]
      <4> HIDE DEF h
      <4>. QED
        BY <2>2, <2>4 DEF AddsUp
    <3>5. g[u] = f[c(u)] + h(v)[v]
      <4> HIDE DEF h
      <4>. QED
        BY <2>1, <2>4
    <3>. QED
      BY <3>3, <3>4, <3>5 DEF u
  <2>. QED
    BY <2>3, <2>4 DEF u
<1>3. g = [s \in SUBSET T |-> IF s = {} THEN 0 ELSE f[c(s)] + g[s \ {c(s)}]]
  <2> DEFINE k == [s \in SUBSET T |-> IF s = {} THEN 0 ELSE f[c(s)] + g[s \ {c(s)}]]
  <2>1. \A s \in SUBSET T : g[s] = k[s]
    <3> HIDE DEF h, c
    <3>. QED
      BY <1>2
  <2> HIDE DEF h, c
  <2>2. DOMAIN g = SUBSET T /\ DOMAIN k = SUBSET T
    OBVIOUS
  <2>. QED
    BY <2>1, <2>2
<1>. QED
  <2> HIDE DEF g
  <2>. QED
    BY <1>3 DEF AddsUp

LEMMA SumIsDefined ==
  ASSUME NEW f, NEW S, IsFiniteSet(S)
  PROVE  \E g : AddsUp(g, f, S)
<1> DEFINE Good == {T \in SUBSET S : \E g : AddsUp(g, f, T)}
<1>1. ASSUME NEW T \in SUBSET S, \A U \in SUBSET T : U # T => U \in Good
      PROVE  T \in Good
  <2>1. IsFiniteSet(T)
    BY FS_Subset
  <2>. QED
    BY <1>1, <2>1, AddsUpExtends
<1> HIDE DEF Good
<1>2. S \in Good
  BY <1>1, SmallestCounterexample
<1>. QED
  BY <1>2 DEF Good

-----------------------------------------------------------------------------
(* What sums are equal to.                                                 *)

\* Sums depend on the summands only.
LEMMA SumSame ==
  ASSUME NEW S, IsFiniteSet(S), NEW f, NEW g, \A x \in S : f[x] = g[x]
  PROVE  SumOn(f, S) = SumOn(g, S)
<1> DEFINE h(e) == CHOOSE k : AddsUp(k, e, S)
<1>1. AddsUp(h(f), f, S) /\ AddsUp(h(g), g, S)
  BY SumIsDefined
<1> HIDE DEF h
<1>2. h(f)[S] = h(g)[S]
  BY <1>1, AddsUpIsUnique
<1>. QED
  BY <1>2 DEF SumOn, h

LEMMA SumEmpty == \A f : SumOn(f, {}) = 0
<1> TAKE f
<1> DEFINE h == CHOOSE k : AddsUp(k, f, {})
<1>1. AddsUp(h, f, {})
  BY SumIsDefined, FS_EmptySet
<1> HIDE DEF h
<1>2. h[{}] = 0
  BY <1>1 DEF AddsUp
<1>. QED
  BY <1>2 DEF SumOn, h

\* The recursion of the fold, by the element it takes out first.
LEMMA SumUnfolds ==
  ASSUME NEW f, NEW S, IsFiniteSet(S), S # {}
  PROVE  \E c \in S : SumOn(f, S) = f[c] + SumOn(f, S \ {c})
<1> DEFINE c == CHOOSE x \in S : TRUE
           h(T) == CHOOSE k : AddsUp(k, f, T)
<1>1. c \in S /\ IsFiniteSet(S \ {c})
  BY FS_Subset
<1>2. AddsUp(h(S), f, S) /\ AddsUp(h(S \ {c}), f, S \ {c})
  BY <1>1, SumIsDefined
<1> HIDE DEF h
<1>3. h(S)[S] = f[c] + h(S)[S \ {c}]
  BY <1>2 DEF AddsUp
<1> HIDE DEF c
<1>4. h(S)[S \ {c}] = h(S \ {c})[S \ {c}]
  BY <1>1, <1>2, AddsUpIsUnique
<1>. QED
  BY <1>1, <1>3, <1>4 DEF SumOn, h

LEMMA SumIsInt ==
  ASSUME NEW S, IsFiniteSet(S), NEW f, \A x \in S : f[x] \in Int
  PROVE  SumOn(f, S) \in Int
<1> DEFINE Good == {T \in SUBSET S : SumOn(f, T) \in Int}
<1>1. ASSUME NEW T \in SUBSET S, \A U \in SUBSET T : U # T => U \in Good
      PROVE  T \in Good
  <2>1. CASE T = {}
    BY <2>1, SumEmpty
  <2>2. CASE T # {}
    <3>1. PICK c \in T : SumOn(f, T) = f[c] + SumOn(f, T \ {c})
      BY <2>2, SumUnfolds, FS_Subset
    <3>2. T \ {c} \in Good
      BY <1>1
    <3>. QED
      BY <3>1, <3>2
  <2>. QED
    BY <2>1, <2>2
<1> HIDE DEF Good
<1>2. S \in Good
  BY <1>1, SmallestCounterexample
<1>. QED
  BY <1>2 DEF Good

\* Any element may be taken out.
LEMMA SumTakesOut ==
  ASSUME NEW S, IsFiniteSet(S), NEW f, \A x \in S : f[x] \in Int, NEW a \in S
  PROVE  SumOn(f, S) = f[a] + SumOn(f, S \ {a})
<1> DEFINE Good == {T \in SUBSET S : \A x \in T : SumOn(f, T) = f[x] + SumOn(f, T \ {x})}
<1>1. ASSUME NEW T \in SUBSET S, \A U \in SUBSET T : U # T => U \in Good
      PROVE  T \in Good
  <2> SUFFICES ASSUME NEW x \in T PROVE SumOn(f, T) = f[x] + SumOn(f, T \ {x})
    OBVIOUS
  <2>1. PICK c \in T : SumOn(f, T) = f[c] + SumOn(f, T \ {c})
    BY SumUnfolds, FS_Subset
  <2>2. CASE x # c
    <3>1. T \ {c} \in Good /\ T \ {x} \in Good
      BY <1>1
    <3>2. SumOn(f, T \ {c}) = f[x] + SumOn(f, (T \ {c}) \ {x})
      BY <2>2, <3>1
    <3>3. SumOn(f, T \ {x}) = f[c] + SumOn(f, (T \ {x}) \ {c})
      BY <2>2, <3>1
    <3>4. (T \ {c}) \ {x} = (T \ {x}) \ {c} /\ IsFiniteSet((T \ {c}) \ {x})
      BY FS_Subset
    <3>5. SumOn(f, (T \ {c}) \ {x}) \in Int
      BY <3>4, SumIsInt
    <3>6. f[c] \in Int /\ f[x] \in Int
      OBVIOUS
    <3>7. f[c] + (f[x] + SumOn(f, (T \ {c}) \ {x}))
            = f[x] + (f[c] + SumOn(f, (T \ {c}) \ {x}))
      BY <3>5, <3>6
    <3>. QED
      BY <2>1, <3>2, <3>3, <3>4, <3>7
  <2>. QED
    BY <2>1, <2>2
<1> HIDE DEF Good
<1>2. S \in Good
  BY <1>1, SmallestCounterexample
<1>. QED
  BY <1>2 DEF Good

\* One summand changes.
LEMMA SumChanges ==
  ASSUME NEW S, IsFiniteSet(S), NEW f, NEW g, NEW a \in S,
         \A x \in S : f[x] \in Int /\ g[x] \in Int,
         \A x \in S \ {a} : g[x] = f[x]
  PROVE  SumOn(g, S) = SumOn(f, S) - f[a] + g[a]
<1>1. IsFiniteSet(S \ {a})
  BY FS_Subset
<1>2. /\ SumOn(f, S) = f[a] + SumOn(f, S \ {a})
      /\ SumOn(g, S) = g[a] + SumOn(g, S \ {a})
  BY SumTakesOut
<1>3. SumOn(g, S \ {a}) = SumOn(f, S \ {a})
  BY <1>1, SumSame
<1>4. SumOn(f, S \ {a}) \in Int
  BY <1>1, SumIsInt
<1>. QED
  BY <1>2, <1>3, <1>4

\* Sums of natural numbers are as large as each of them.
LEMMA SumIsNat ==
  ASSUME NEW S, IsFiniteSet(S), NEW f, \A x \in S : f[x] \in Nat
  PROVE  /\ SumOn(f, S) \in Nat
         /\ \A a \in S : f[a] <= SumOn(f, S)
<1> DEFINE Good == {T \in SUBSET S : SumOn(f, T) \in Nat}
<1>1. ASSUME NEW T \in SUBSET S, \A U \in SUBSET T : U # T => U \in Good
      PROVE  T \in Good
  <2>1. CASE T = {}
    BY <2>1, SumEmpty
  <2>2. CASE T # {}
    <3>1. PICK c \in T : SumOn(f, T) = f[c] + SumOn(f, T \ {c})
      BY <2>2, SumUnfolds, FS_Subset
    <3>2. T \ {c} \in Good
      BY <1>1
    <3>. QED
      BY <3>1, <3>2
  <2>. QED
    BY <2>1, <2>2
<1> HIDE DEF Good
<1>2. \A T \in SUBSET S : T \in Good
  BY <1>1, SmallestCounterexample
<1>3. ASSUME NEW a \in S PROVE f[a] <= SumOn(f, S)
  <2>1. SumOn(f, S) = f[a] + SumOn(f, S \ {a})
    BY SumTakesOut
  <2>2. SumOn(f, S \ {a}) \in Nat
    BY <1>2 DEF Good
  <2>. QED
    BY <2>1, <2>2
<1>. QED
  BY <1>2, <1>3 DEF Good

\* f and g give a and b together the same.
SamePair(f, g, a, b) == f[a] + f[b] = g[a] + g[b]

\* What one summand gains another loses (or it is the same one).
LEMMA SumMoves ==
  ASSUME NEW S, IsFiniteSet(S), NEW f, NEW g, NEW a \in S, NEW b \in S,
         \A x \in S : f[x] \in Int /\ g[x] \in Int,
         \A x \in S \ {a, b} : g[x] = f[x],
         SamePair(f, g, a, b)
  PROVE  SumOn(g, S) = SumOn(f, S)
<1> DEFINE h == [x \in S |-> IF x = a THEN g[x] ELSE f[x]]
<1>1. \A x \in S : f[x] \in Int /\ g[x] \in Int /\ h[x] \in Int
  OBVIOUS
<1>2. h[a] = g[a] /\ \A x \in S \ {a} : h[x] = f[x]
  OBVIOUS
<1>3. \A x \in S \ {b} : g[x] = h[x]
  OBVIOUS
<1> HIDE DEF h
<1>4. SumOn(h, S) = SumOn(f, S) - f[a] + h[a]
  BY <1>1, <1>2, SumChanges
<1>5. SumOn(g, S) = SumOn(h, S) - h[b] + g[b]
  BY <1>1, <1>3, SumChanges
<1>6. SumOn(f, S) \in Int
  BY SumIsInt
<1>7. f[a] \in Int /\ f[b] \in Int /\ g[a] \in Int /\ g[b] \in Int
  OBVIOUS
<1>8. CASE a = b
  <2>1. g[a] = f[a]
    <3>1. f[a] + f[b] = g[a] + g[b]
      BY Zenon DEF SamePair
    <3>2. f[a] + f[a] = g[a] + g[a]
      BY ONLY <1>8, <3>1, Zenon
    <3>3. \A x, y \in Int : x + x = y + y => y = x
      OBVIOUS
    <3>. QED
      BY ONLY <1>7, <3>2, <3>3, Zenon
  <2>2. ASSUME NEW x \in S PROVE g[x] = f[x]
    BY <1>8, <2>1
  <2>. QED
    BY <2>2, SumSame
<1>9. CASE a # b
  <2>1. h[b] = f[b]
    BY <1>2, <1>9
  <2>. QED
    BY <1>2, <1>4, <1>5, <1>6, <1>7, <2>1 DEF SamePair
<1>. QED
  BY <1>8, <1>9

\* Two summands are together at most the sum.
LEMMA SumHasTwo ==
  ASSUME NEW S, IsFiniteSet(S), NEW f, \A x \in S : f[x] \in Nat,
         NEW a \in S, NEW b \in S, a # b
  PROVE  f[a] + f[b] <= SumOn(f, S)
<1>1. IsFiniteSet(S \ {a})
  BY FS_Subset
<1>2. SumOn(f, S) = f[a] + SumOn(f, S \ {a})
  BY SumTakesOut
<1>3. SumOn(f, S \ {a}) \in Nat /\ f[b] <= SumOn(f, S \ {a})
  <2>1. b \in S \ {a} /\ \A x \in S \ {a} : f[x] \in Nat
    OBVIOUS
  <2>. QED
    BY <1>1, <2>1, SumIsNat
<1>4. f[a] \in Nat /\ f[b] \in Nat
  OBVIOUS
<1>. QED
  BY <1>2, <1>3, <1>4

LEMMA SumOfZeros ==
  ASSUME NEW S, IsFiniteSet(S), NEW f, \A x \in S : f[x] = 0
  PROVE  SumOn(f, S) = 0
<1> DEFINE Good == {T \in SUBSET S : SumOn(f, T) = 0}
<1>1. ASSUME NEW T \in SUBSET S, \A U \in SUBSET T : U # T => U \in Good
      PROVE  T \in Good
  <2>1. CASE T = {}
    BY <2>1, SumEmpty
  <2>2. CASE T # {}
    <3>1. PICK c \in T : SumOn(f, T) = f[c] + SumOn(f, T \ {c})
      BY <2>2, SumUnfolds, FS_Subset
    <3>2. T \ {c} \in Good
      BY <1>1
    <3>. QED
      BY <3>1, <3>2
  <2>. QED
    BY <2>1, <2>2
<1> HIDE DEF Good
<1>2. S \in Good
  BY <1>1, SmallestCounterexample
<1>. QED
  BY <1>2 DEF Good

\* A sum that is not zero has a summand that is not.
LEMMA SumHasSummand ==
  ASSUME NEW S, IsFiniteSet(S), NEW f, SumOn(f, S) # 0
  PROVE  \E x \in S : f[x] # 0
BY SumOfZeros

LEMMA SumOfSums ==
  ASSUME NEW S, IsFiniteSet(S), NEW f, NEW g, NEW h,
         \A x \in S : f[x] \in Int /\ g[x] \in Int /\ h[x] = f[x] + g[x]
  PROVE  SumOn(h, S) = SumOn(f, S) + SumOn(g, S)
<1> DEFINE Good == {T \in SUBSET S : SumOn(h, T) = SumOn(f, T) + SumOn(g, T)}
<1>1. ASSUME NEW T \in SUBSET S, \A U \in SUBSET T : U # T => U \in Good
      PROVE  T \in Good
  <2>1. CASE T = {}
    BY <2>1, SumEmpty
  <2>2. CASE T # {}
    <3>0. IsFiniteSet(T)
      BY FS_Subset
    <3>1. PICK c \in T : TRUE
      BY <2>2
    <3>2. /\ SumOn(h, T) = h[c] + SumOn(h, T \ {c})
          /\ SumOn(f, T) = f[c] + SumOn(f, T \ {c})
          /\ SumOn(g, T) = g[c] + SumOn(g, T \ {c})
      BY <3>0, SumTakesOut
    <3>3. T \ {c} \in Good /\ IsFiniteSet(T \ {c})
      BY <1>1, <3>0, FS_Subset
    <3>4. SumOn(f, T \ {c}) \in Int /\ SumOn(g, T \ {c}) \in Int
      BY <3>3, SumIsInt
    <3>. QED
      BY <3>2, <3>3, <3>4
  <2>. QED
    BY <2>1, <2>2
<1> HIDE DEF Good
<1>2. S \in Good
  BY <1>1, SmallestCounterexample
<1>. QED
  BY <1>2 DEF Good

LEMMA SumOfDifferences ==
  ASSUME NEW S, IsFiniteSet(S), NEW f, NEW g, NEW h,
         \A x \in S : f[x] \in Int /\ g[x] \in Int /\ h[x] = f[x] - g[x]
  PROVE  SumOn(h, S) = SumOn(f, S) - SumOn(g, S)
<1>1. \A x \in S : h[x] \in Int /\ g[x] \in Int /\ f[x] = h[x] + g[x]
  OBVIOUS
<1>2. SumOn(f, S) = SumOn(h, S) + SumOn(g, S)
  BY <1>1, SumOfSums
<1>3. SumOn(h, S) \in Int /\ SumOn(g, S) \in Int
  BY <1>1, SumIsInt
<1>. QED
  BY <1>2, <1>3

\* What is not zero makes up the sum.
LEMMA SumOfPart ==
  ASSUME NEW S, IsFiniteSet(S), NEW P \in SUBSET S, NEW f, \A x \in S : f[x] \in Int,
         \A x \in S \ P : f[x] = 0
  PROVE  SumOn(f, S) = SumOn(f, P)
<1> DEFINE Good == {T \in SUBSET S : SumOn(f, T) = SumOn(f, T \cap P)}
<1>1. ASSUME NEW T \in SUBSET S, \A U \in SUBSET T : U # T => U \in Good
      PROVE  T \in Good
  <2>1. CASE T = {}
    BY <2>1, SumEmpty
  <2>2. CASE T # {}
    <3>1. PICK c \in T : TRUE
      BY <2>2
    <3>2. IsFiniteSet(T) /\ IsFiniteSet(T \cap P)
      <4>1. IsFiniteSet(T) /\ T \cap P \in SUBSET T
        BY FS_Subset
      <4>. QED
        BY <4>1, FS_Subset
    <3>3. SumOn(f, T) = f[c] + SumOn(f, T \ {c})
      BY <3>2, SumTakesOut
    <3>4. SumOn(f, T \ {c}) = SumOn(f, (T \ {c}) \cap P)
      BY <1>1
    <3>5. CASE c \in P
      <4>1. SumOn(f, T \cap P) = f[c] + SumOn(f, (T \cap P) \ {c})
        BY <3>2, <3>5, SumTakesOut
      <4>2. (T \cap P) \ {c} = (T \ {c}) \cap P
        OBVIOUS
      <4>. QED
        BY <3>3, <3>4, <4>1, <4>2
    <3>6. CASE c \notin P
      <4>1. (T \ {c}) \cap P = T \cap P /\ f[c] = 0
        BY <3>6
      <4>2. SumOn(f, T \cap P) \in Int
        BY <3>2, SumIsInt
      <4>3. SumOn(f, T) = 0 + SumOn(f, T \cap P)
        BY <3>3, <3>4, <4>1
      <4>4. SumOn(f, T) = SumOn(f, T \cap P)
        BY <4>2, <4>3
      <4>. QED
        BY <4>4
    <3>. QED
      BY <3>5, <3>6
  <2>. QED
    BY <2>1, <2>2
<1> HIDE DEF Good
<1>2. S \in Good
  BY <1>1, SmallestCounterexample
<1>3. S \cap P = P
  OBVIOUS
<1>. QED
  BY <1>2, <1>3 DEF Good

LEMMA SumOfOne ==
  ASSUME NEW S, IsFiniteSet(S), NEW a \in S, NEW f, \A x \in S : f[x] \in Int,
         \A x \in S \ {a} : f[x] = 0
  PROVE  SumOn(f, S) = f[a]
<1>1. SumOn(f, S) = f[a] + SumOn(f, S \ {a})
  BY SumTakesOut
<1>2. SumOn(f, S \ {a}) = 0
  BY SumOfZeros, FS_Subset
<1>. QED
  BY <1>1, <1>2

LEMMA SumOfEqual ==
  ASSUME NEW S, IsFiniteSet(S), NEW v \in Int, NEW f, \A x \in S : f[x] = v
  PROVE  SumOn(f, S) = Cardinality(S) * v
<1> DEFINE Good == {T \in SUBSET S : SumOn(f, T) = Cardinality(T) * v}
<1>1. ASSUME NEW T \in SUBSET S, \A U \in SUBSET T : U # T => U \in Good
      PROVE  T \in Good
  <2>1. CASE T = {}
    BY <2>1, SumEmpty, FS_EmptySet
  <2>2. CASE T # {}
    <3>1. PICK c \in T : TRUE
      BY <2>2
    <3>2. IsFiniteSet(T)
      BY FS_Subset
    <3>3. SumOn(f, T) = v + SumOn(f, T \ {c})
      BY <3>2, SumTakesOut
    <3>4. SumOn(f, T \ {c}) = Cardinality(T \ {c}) * v
      BY <1>1
    <3>5. Cardinality(T) \in Nat /\ Cardinality(T \ {c}) = Cardinality(T) - 1
      BY <3>2, FS_CardinalityType, FS_RemoveElement
    <3>6. \A n \in Nat : v + (n - 1) * v = n * v
      OBVIOUS
    <3>. QED
      BY <3>3, <3>4, <3>5, <3>6
  <2>. QED
    BY <2>1, <2>2
<1> HIDE DEF Good
<1>2. S \in Good
  BY <1>1, SmallestCounterexample
<1>. QED
  BY <1>2 DEF Good

\* A table of numbers read by rows (f) and by columns (g), and the sums of rows.
Transposed(f, g, S, A) == \A s \in S, k \in A : f[s][k] \in Int /\ g[k][s] = f[s][k]
RowSums(sums, f, S, A) == \A s \in S : sums[s] = SumOn(f[s], A)

\* Rows first or columns first.
LEMMA SumSwaps ==
  ASSUME NEW S, IsFiniteSet(S), NEW A, IsFiniteSet(A), NEW f, NEW g, Transposed(f, g, S, A),
         NEW rows, RowSums(rows, f, S, A), NEW cols, RowSums(cols, g, A, S)
  PROVE  SumOn(rows, S) = SumOn(cols, A)
<1> USE DEF Transposed, RowSums
<1> DEFINE col(T) == [k \in A |-> SumOn(g[k], T)]
           Good == {T \in SUBSET S : SumOn(rows, T) = SumOn(col(T), A)}
<1>1. \A s \in S : rows[s] \in Int
  BY SumIsInt
<1>2. ASSUME NEW T \in SUBSET S, NEW k \in A PROVE col(T)[k] \in Int
  <2>1. IsFiniteSet(T)
    BY FS_Subset
  <2>2. \A s \in T : g[k][s] \in Int
    OBVIOUS
  <2>3. SumOn(g[k], T) \in Int
    BY <2>1, <2>2, SumIsInt
  <2>. QED
    BY <2>3
<1>3. ASSUME NEW T \in SUBSET S, NEW c \in T, NEW k \in A
      PROVE  col(T)[k] = f[c][k] + col(T \ {c})[k]
  <2>1. IsFiniteSet(T) /\ \A s \in T : g[k][s] \in Int
    BY FS_Subset
  <2>2. SumOn(g[k], T) = g[k][c] + SumOn(g[k], T \ {c})
    BY <2>1, SumTakesOut
  <2>. QED
    BY <2>2
<1> HIDE DEF col
<1>4. ASSUME NEW T \in SUBSET S, \A U \in SUBSET T : U # T => U \in Good
      PROVE  T \in Good
  <2>1. CASE T = {}
    <3>1. \A k \in A : col(T)[k] = 0
      BY <2>1, SumEmpty DEF col
    <3>2. SumOn(col(T), A) = 0
      BY <3>1, SumOfZeros
    <3>. QED
      BY <2>1, <3>2, SumEmpty
  <2>2. CASE T # {}
    <3>1. PICK c \in T : TRUE
      BY <2>2
    <3>2. SumOn(rows, T) = rows[c] + SumOn(rows, T \ {c})
      BY <1>1, SumTakesOut, FS_Subset
    <3>3. SumOn(rows, T \ {c}) = SumOn(col(T \ {c}), A)
      BY <1>4
    <3>4. \A k \in A : /\ f[c][k] \in Int /\ col(T \ {c})[k] \in Int
                       /\ col(T)[k] = f[c][k] + col(T \ {c})[k]
      BY <1>2, <1>3
    <3>5. SumOn(col(T), A) = SumOn(f[c], A) + SumOn(col(T \ {c}), A)
      <4> DEFINE h == col(T)
                 u == f[c]
                 v == col(T \ {c})
      <4>1. \A k \in A : u[k] \in Int /\ v[k] \in Int /\ h[k] = u[k] + v[k]
        BY <3>4
      <4> HIDE DEF h, u, v
      <4>2. SumOn(h, A) = SumOn(u, A) + SumOn(v, A)
        BY <4>1, SumOfSums
      <4>. QED
        BY <4>2 DEF h, u, v
    <3>. QED
      BY <3>2, <3>3, <3>5
  <2>. QED
    BY <2>1, <2>2
<1> HIDE DEF Good
<1>5. S \in Good
  BY <1>4, SmallestCounterexample
<1>6. \A k \in A : cols[k] = col(S)[k]
  BY DEF col
<1>7. SumOn(cols, A) = SumOn(col(S), A)
  BY <1>6, SumSame
<1>. QED
  BY <1>5, <1>7 DEF Good

\* The parts of a set together are its sum.
PartOf(A, part, s) == {k \in A : part[k] = s}

LEMMA SumByParts ==
  ASSUME NEW S, IsFiniteSet(S), NEW A, IsFiniteSet(A), NEW f, \A k \in A : f[k] \in Int,
         NEW part, \A k \in A : part[k] \in S,
         NEW sums, \A s \in S : sums[s] = SumOn(f, PartOf(A, part, s))
  PROVE  SumOn(sums, S) = SumOn(f, A)
<1> DEFINE m == [s \in S |-> [k \in A |-> IF part[k] = s THEN f[k] ELSE 0]]
           w == [k \in A |-> [s \in S |-> IF part[k] = s THEN f[k] ELSE 0]]
<1>1. \A s \in S, k \in A : /\ m[s][k] = IF part[k] = s THEN f[k] ELSE 0
                            /\ w[k][s] = m[s][k]
  OBVIOUS
<1> HIDE DEF m, w
<1>2. \A s \in S, k \in A : m[s][k] \in Int
  BY <1>1
<1>3. ASSUME NEW s \in S PROVE sums[s] = SumOn(m[s], A)
  <2> DEFINE P == PartOf(A, part, s)
  <2>1. P \in SUBSET A /\ \A k \in A \ P : m[s][k] = 0
    BY <1>1 DEF PartOf
  <2>2. \A k \in P : m[s][k] = f[k]
    BY <1>1 DEF PartOf
  <2>3. sums[s] = SumOn(f, P)
    OBVIOUS
  <2> HIDE DEF P
  <2>4. SumOn(m[s], A) = SumOn(m[s], P)
    BY <1>2, <2>1, SumOfPart
  <2>5. SumOn(m[s], P) = SumOn(f, P)
    BY <2>1, <2>2, SumSame, FS_Subset
  <2>. QED
    BY <2>3, <2>4, <2>5
<1>4. ASSUME NEW k \in A PROVE f[k] = SumOn(w[k], S)
  <2>1. \A s \in S : w[k][s] = IF part[k] = s THEN f[k] ELSE 0
    BY <1>1
  <2>2. part[k] \in S /\ f[k] \in Int
    OBVIOUS
  <2>3. w[k][part[k]] = f[k] /\ \A s \in S \ {part[k]} : w[k][s] = 0
    BY <2>1, <2>2
  <2>4. \A s \in S : w[k][s] \in Int
    BY <2>1, <2>2
  <2>5. SumOn(w[k], S) = w[k][part[k]]
    BY <2>2, <2>3, <2>4, SumOfOne
  <2>. QED
    BY <2>3, <2>5
<1>. QED
  <2>1. Transposed(m, w, S, A) /\ RowSums(sums, m, S, A) /\ RowSums(f, w, A, S)
    BY <1>1, <1>2, <1>3, <1>4 DEF Transposed, RowSums
  <2>. QED
    BY <2>1, SumSwaps
=============================================================================
