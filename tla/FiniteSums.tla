----------------------------- MODULE FiniteSums -----------------------------
(***************************************************************************)
(* Facts about SumFunctionOnSet over a finite set.  The fold is a          *)
(* recursive function over the subsets of the set; that its equation has   *)
(* a solution, and what the solution is, are proved by well-founded        *)
(* induction over strict inclusion: a smallest counterexample is refuted.  *)
(***************************************************************************)
EXTENDS Functions, FiniteSetTheorems, TLAPS

\* The element that the fold takes from a set first.
Pick(s) == CHOOSE x \in s : TRUE

\* The recursion equation of the fold, on all subsets of S.
Sums(g, f, S) ==
    g = [s \in SUBSET S |-> IF s = {} THEN 0 ELSE f[Pick(s)] + g[s \ {Pick(s)}]]

SumsOf(f, S) == CHOOSE g : Sums(g, f, S)

LEMMA SumIsFold ==
    ASSUME NEW f, NEW S
    PROVE  SumFunctionOnSet(f, S) = SumsOf(f, S)[S]
BY Zenon DEF SumFunctionOnSet, FoldFunctionOnSet, MapThenFoldSet, SumsOf, Sums, Pick

LEMMA PickIn ==
    ASSUME NEW s, s # {}
    PROVE  Pick(s) \in s
BY DEF Pick

\* A set of subsets of a finite set has one that has no smaller one in it.
LEMMA SmallestSubset ==
    ASSUME NEW S, IsFiniteSet(S), NEW B, B \subseteq SUBSET S, B # {}
    PROVE  \E T \in B : \A U \in B : U \subseteq T => U = T
<1>1. IsWellFoundedOn(StrictSubsetOrdering(S), SUBSET S)
  BY FS_StrictSubsetOrderingWellFounded, FS_FiniteSubsetsOfFinite
<1>2. PICK T \in B : \A U \in B : ~ (<<U, T>> \in StrictSubsetOrdering(S))
  BY <1>1, WFMin
<1>3. ASSUME NEW U \in B, U \subseteq T, U # T PROVE FALSE
  BY <1>2, <1>3 DEF StrictSubsetOrdering
<1> QED
  BY <1>2, <1>3

\* The equation has at most one solution.
LEMMA SumsUnique ==
    ASSUME NEW S, IsFiniteSet(S), NEW f, NEW U \in SUBSET S, NEW V \in SUBSET S,
           NEW g, Sums(g, f, U), NEW h, Sums(h, f, V), NEW s, s \subseteq U, s \subseteq V
    PROVE  g[s] = h[s]
<1> DEFINE B == {u \in SUBSET S : u \subseteq U /\ u \subseteq V /\ g[u] # h[u]}
<1>1. SUFFICES ASSUME B # {} PROVE FALSE
  OBVIOUS
<1>2. PICK T \in B : \A u \in B : u \subseteq T => u = T
  <2>1. B \subseteq SUBSET S
    OBVIOUS
  <2> HIDE DEF B
  <2> QED
    BY <1>1, <2>1, SmallestSubset
<1>3. CASE T = {}
  BY <1>2, <1>3 DEF Sums
<1>4. CASE T # {}
  <2> DEFINE rest == T \ {Pick(T)}
  <2>1. Pick(T) \in T
    BY <1>4, PickIn
  <2>2. g[rest] = h[rest]
    BY <1>2, <2>1
  <2>3. g[T] = f[Pick(T)] + g[rest] /\ h[T] = f[Pick(T)] + h[rest]
    BY <1>2, <1>4 DEF Sums
  <2> QED
    BY <1>2, <2>2, <2>3
<1> QED
  BY <1>3, <1>4

\* The equation has a solution.
LEMMA SumsExist ==
    ASSUME NEW S, IsFiniteSet(S), NEW f
    PROVE  Sums(SumsOf(f, S), f, S)
<1> DEFINE B == {T \in SUBSET S : ~ Sums(SumsOf(f, T), f, T)}
<1>1. SUFFICES ASSUME B # {} PROVE FALSE
  OBVIOUS
<1>2. PICK T \in B : \A U \in B : U \subseteq T => U = T
  <2>1. B \subseteq SUBSET S
    OBVIOUS
  <2> HIDE DEF B
  <2> QED
    BY <1>1, <2>1, SmallestSubset
<1>3. \A U : U \subseteq T /\ U # T => Sums(SumsOf(f, U), f, U)
  BY <1>2
<1> DEFINE without(s) == s \ {Pick(s)}
           below(s) == SumsOf(f, without(s))[without(s)]
           new == [s \in SUBSET T |-> IF s = {} THEN 0 ELSE f[Pick(s)] + below(s)]
<1>4. ASSUME NEW s \in SUBSET T, s # {} PROVE new[without(s)] = below(s)
  <2> DEFINE u == without(s)
  <2>1. u \subseteq T /\ u # T
    BY <1>4, PickIn
  <2>2. Sums(SumsOf(f, u), f, u)
    BY <1>3, <2>1
  <2>3. CASE u = {}
    <3>1. SumsOf(f, u)[u] = 0
      BY <2>2, <2>3 DEF Sums
    <3> QED
      BY <2>1, <2>3, <3>1
  <2>4. CASE u # {}
    <3> DEFINE v == without(u)
    <3>1. v \subseteq u /\ v \subseteq T /\ v # T
      BY <2>1
    <3>2. Sums(SumsOf(f, v), f, v)
      BY <1>3, <3>1
    <3>3. SumsOf(f, u)[v] = SumsOf(f, v)[v]
      <4> HIDE DEF u, v
      <4> QED
        BY <1>2, <2>1, <2>2, <3>1, <3>2, SumsUnique
    <3>4. SumsOf(f, u)[u] = f[Pick(u)] + SumsOf(f, u)[v]
      BY <2>2, <2>4 DEF Sums
    <3>5. new[u] = f[Pick(u)] + SumsOf(f, v)[v]
      BY <2>1, <2>4
    <3> QED
      BY <3>3, <3>4, <3>5
  <2> QED
    BY <2>3, <2>4
<1>5. Sums(new, f, T)
  <2> SUFFICES \A s \in SUBSET T : s # {} => below(s) = new[s \ {Pick(s)}]
    BY DEF Sums
  <2> QED
    BY <1>4
<1>6. Sums(SumsOf(f, T), f, T)
  BY <1>5 DEF SumsOf
<1> QED
  BY <1>2, <1>6

----------------------------------------------------------------------------
\* The sum over a set is that of its parts.
LEMMA SumEmpty == \A f : SumFunctionOnSet(f, {}) = 0
<1>1. \A f : Sums(SumsOf(f, {}), f, {})
  BY SumsExist, FS_EmptySet
<1> QED
  BY <1>1, SumIsFold DEF Sums

LEMMA SumStep ==
    ASSUME NEW S, IsFiniteSet(S), S # {}, NEW f
    PROVE  SumFunctionOnSet(f, S) = f[Pick(S)] + SumFunctionOnSet(f, S \ {Pick(S)})
<1> DEFINE rest == S \ {Pick(S)}
<1>1. IsFiniteSet(rest)
  BY FS_Subset
<1>2. Sums(SumsOf(f, S), f, S) /\ Sums(SumsOf(f, rest), f, rest)
  BY <1>1, SumsExist
<1>3. SumsOf(f, S)[rest] = SumsOf(f, rest)[rest]
  <2>1. rest \in SUBSET S
    OBVIOUS
  <2> HIDE DEF rest
  <2> QED
    BY <1>2, <2>1, SumsUnique
<1>4. SumsOf(f, S)[S] = f[Pick(S)] + SumsOf(f, S)[rest]
  BY <1>2 DEF Sums
<1> QED
  BY <1>3, <1>4, SumIsFold

LEMMA SumInt ==
    ASSUME NEW S, IsFiniteSet(S), NEW f, \A x \in S : f[x] \in Int
    PROVE  SumFunctionOnSet(f, S) \in Int
<1> DEFINE B == {T \in SUBSET S : SumFunctionOnSet(f, T) \notin Int}
<1>1. SUFFICES ASSUME B # {} PROVE FALSE
  OBVIOUS
<1>2. PICK T \in B : \A U \in B : U \subseteq T => U = T
  <2>1. B \subseteq SUBSET S
    OBVIOUS
  <2> HIDE DEF B
  <2> QED
    BY <1>1, <2>1, SmallestSubset
<1>3. T # {}
  BY <1>2, SumEmpty
<1>4. Pick(T) \in T
  BY <1>3, PickIn
<1>5. SumFunctionOnSet(f, T \ {Pick(T)}) \in Int
  BY <1>2, <1>4
<1>6. SumFunctionOnSet(f, T) = f[Pick(T)] + SumFunctionOnSet(f, T \ {Pick(T)})
  BY <1>2, <1>3, SumStep, FS_Subset
<1> QED
  BY <1>2, <1>4, <1>5, <1>6

\* A sum of smaller amounts is smaller.
LEMMA SumMonotone ==
    ASSUME NEW S, IsFiniteSet(S), NEW f, NEW g,
           \A x \in S : f[x] \in Int /\ g[x] \in Int /\ f[x] <= g[x]
    PROVE  SumFunctionOnSet(f, S) <= SumFunctionOnSet(g, S)
<1> DEFINE B == {T \in SUBSET S : ~ SumFunctionOnSet(f, T) <= SumFunctionOnSet(g, T)}
<1>1. SUFFICES ASSUME B # {} PROVE FALSE
  OBVIOUS
<1>2. PICK T \in B : \A U \in B : U \subseteq T => U = T
  <2>1. B \subseteq SUBSET S
    OBVIOUS
  <2> HIDE DEF B
  <2> QED
    BY <1>1, <2>1, SmallestSubset
<1>3. T # {}
  <2>1. SumFunctionOnSet(f, {}) <= SumFunctionOnSet(g, {})
    BY SumEmpty
  <2> QED
    BY <1>2, <2>1, Zenon
<1> DEFINE rest == T \ {Pick(T)}
<1>4. Pick(T) \in T
  BY <1>3, PickIn
<1>5. SumFunctionOnSet(f, rest) <= SumFunctionOnSet(g, rest)
  BY <1>2, <1>4
<1>6. IsFiniteSet(T) /\ IsFiniteSet(rest) /\ rest \subseteq S
  BY <1>2, FS_Subset
<1>7. SumFunctionOnSet(f, rest) \in Int /\ SumFunctionOnSet(g, rest) \in Int
  BY <1>6, SumInt
<1>8. /\ SumFunctionOnSet(f, T) = f[Pick(T)] + SumFunctionOnSet(f, rest)
      /\ SumFunctionOnSet(g, T) = g[Pick(T)] + SumFunctionOnSet(g, rest)
  BY <1>3, <1>6, SumStep
<1>9. f[Pick(T)] \in Int /\ g[Pick(T)] \in Int /\ f[Pick(T)] <= g[Pick(T)]
  BY <1>2, <1>4
<1>10. SumFunctionOnSet(f, T) <= SumFunctionOnSet(g, T)
  <2> HIDE DEF rest, B
  <2> QED
    BY <1>5, <1>7, <1>8, <1>9
<1> QED
  BY <1>2, <1>10

\* A sum of zeros is zero.
LEMMA SumZero ==
    ASSUME NEW S, IsFiniteSet(S), NEW f, \A x \in S : f[x] = 0
    PROVE  SumFunctionOnSet(f, S) = 0
<1> DEFINE B == {T \in SUBSET S : SumFunctionOnSet(f, T) # 0}
<1>1. SUFFICES ASSUME B # {} PROVE FALSE
  OBVIOUS
<1>2. PICK T \in B : \A U \in B : U \subseteq T => U = T
  <2>1. B \subseteq SUBSET S
    OBVIOUS
  <2> HIDE DEF B
  <2> QED
    BY <1>1, <2>1, SmallestSubset
<1>3. T # {}
  BY <1>2, SumEmpty, Zenon
<1> DEFINE rest == T \ {Pick(T)}
<1>4. Pick(T) \in T
  BY <1>3, PickIn
<1>5. IsFiniteSet(T) /\ rest \subseteq S
  BY <1>2, FS_Subset
<1>6. SumFunctionOnSet(f, rest) = 0
  BY <1>2, <1>4
<1>7. SumFunctionOnSet(f, T) = f[Pick(T)] + SumFunctionOnSet(f, rest) /\ f[Pick(T)] = 0
  <2>1. f[Pick(T)] \in Int /\ f[Pick(T)] = 0
    BY <1>2, <1>4
  <2> QED
    BY <1>2, <1>3, <1>5, <2>1, SumStep
<1> QED
  BY <1>2, <1>6, <1>7

\* When one amount changes, so does the sum, by the same difference.
LEMMA SumChange ==
    ASSUME NEW S, IsFiniteSet(S), NEW f, NEW g, NEW x \in S,
           NEW d \in Int, g[x] = f[x] + d, \A y \in S : f[y] \in Int,
           \A y \in S : y # x => g[y] = f[y]
    PROVE  SumFunctionOnSet(g, S) = SumFunctionOnSet(f, S) + d
<1> DEFINE change(T) == IF x \in T THEN d ELSE 0
           B == {T \in SUBSET S :
                    SumFunctionOnSet(g, T) # SumFunctionOnSet(f, T) + change(T)}
<1>1. SUFFICES ASSUME B # {} PROVE FALSE
  OBVIOUS
<1>2. PICK T \in B : \A U \in B : U \subseteq T => U = T
  <2>1. B \subseteq SUBSET S
    OBVIOUS
  <2> HIDE DEF B
  <2> QED
    BY <1>1, <2>1, SmallestSubset
<1>3. T # {}
  <2>1. SumFunctionOnSet(g, {}) = SumFunctionOnSet(f, {}) + change({})
    BY SumEmpty
  <2> QED
    BY <1>2, <2>1, Zenon
<1> DEFINE rest == T \ {Pick(T)}
<1>4. Pick(T) \in T
  BY <1>3, PickIn
<1>5. SumFunctionOnSet(g, rest) = SumFunctionOnSet(f, rest) + change(rest)
  BY <1>2, <1>4
<1>6. IsFiniteSet(T) /\ IsFiniteSet(rest) /\ rest \subseteq S
  BY <1>2, FS_Subset
<1>12. \A y \in S : f[y] \in Int /\ g[y] \in Int
  OBVIOUS
<1>7. SumFunctionOnSet(f, rest) \in Int /\ SumFunctionOnSet(g, rest) \in Int
  BY <1>6, <1>12, SumInt
<1>8. /\ SumFunctionOnSet(f, T) = f[Pick(T)] + SumFunctionOnSet(f, rest)
      /\ SumFunctionOnSet(g, T) = g[Pick(T)] + SumFunctionOnSet(g, rest)
  BY <1>3, <1>6, SumStep
<1>9. g[Pick(T)] + change(rest) = f[Pick(T)] + change(T)
  BY <1>2, <1>4
<1>10. f[Pick(T)] \in Int /\ g[Pick(T)] \in Int /\ change(T) \in Int /\ change(rest) \in Int
  BY <1>2, <1>4, <1>12
<1>11. SumFunctionOnSet(g, T) = SumFunctionOnSet(f, T) + change(T)
  <2>1. g[Pick(T)] + SumFunctionOnSet(g, rest)
          = (f[Pick(T)] + SumFunctionOnSet(f, rest)) + change(T)
    <3> HIDE DEF rest, change, B
    <3>1. PICK a \in Int, b \in Int, c \in Int, e \in Int : /\ a = g[Pick(T)]
                                                          /\ b = f[Pick(T)]
                                                          /\ c = change(rest)
                                                          /\ e = change(T)
      BY <1>10, Zenon
    <3>2. PICK u \in Int, v \in Int : /\ u = SumFunctionOnSet(f, rest)
                                     /\ v = SumFunctionOnSet(g, rest)
      BY <1>7, Zenon
    <3>3. a + c = b + e /\ v = u + c
      BY <3>1, <3>2, <1>5, <1>9, Zenon
    <3>4. a + v = (b + u) + e
      BY <3>3
    <3> QED
      BY <3>1, <3>2, <3>4, Zenon
  <2> QED
    BY <1>8, <2>1, Zenon
<1> QED
  BY <1>2, <1>11
=============================================================================
