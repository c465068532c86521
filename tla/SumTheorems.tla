---------------------------- MODULE SumTheorems ----------------------------
(***************************************************************************)
(* The sum of a function over a finite set, as SumFunctionOnSet and        *)
(* SumFunction of Functions fold it: the recursion has one solution, the   *)
(* order does not matter, and disjoint sets add up.                        *)
(*                                                                         *)
(* Induction is by a least counterexample: among the subsets of a finite   *)
(* set for which a statement fails there is one that has none below it.    *)
(***************************************************************************)
EXTENDS Functions, FiniteSets, FiniteSetTheorems, WellFoundedInduction, TLAPS

\* The element that the fold takes next, and the fold's recursion on S.
Pick(s) == CHOOSE x \in s : TRUE
Sums(f, S, g) ==
    g = [s \in SUBSET S |-> IF s = {} THEN 0 ELSE f[Pick(s)] + g[s \ {Pick(s)}]]
SumsOf(f, S) == CHOOSE g : Sums(f, S, g)

\* The sums of Functions are that recursion.
LEMMA SumIsSums ==
    ASSUME NEW f
    PROVE  /\ \A S : SumFunctionOnSet(f, S) = SumsOf(f, S)[S]
           /\ \A S : S = DOMAIN f => SumFunction(f) = SumsOf(f, S)[S]
  BY DEF SumFunction, SumFunctionOnSet, FoldFunctionOnSet, MapThenFoldSet, SumsOf,
         Sums, Pick

\* The element taken next is one of the set.
LEMMA PickFacts ==
    ASSUME NEW s, s # {}
    PROVE  Pick(s) \in s /\ s \ {Pick(s)} \subseteq s /\ s \ {Pick(s)} # s
  BY DEF Pick

\* Among subsets of a finite set some set has no other below it: what fails
\* for a subset of S fails for one whose proper subsets are all right.
LEMMA LeastSubset ==
    ASSUME NEW S, IsFiniteSet(S), NEW T, T \subseteq SUBSET S, T # {}
    PROVE  \E s \in T : \A t \in SUBSET s : t # s => t \notin T
  <1>1. IsWellFoundedOn(StrictSubsetOrdering(S), SUBSET S)
    BY FS_FiniteSubsetsOfFinite, FS_StrictSubsetOrderingWellFounded
  <1>2. PICK s \in T : \A t \in T : ~(<<t, s>> \in StrictSubsetOrdering(S))
    BY <1>1, WFMin
  <1>3. ASSUME NEW t \in SUBSET s, t # s, t \in T PROVE FALSE
    <2>1. <<t, s>> \in StrictSubsetOrdering(S)
      BY <1>3 DEF StrictSubsetOrdering
    <2> QED BY <1>2, <1>3, <2>1
  <1> QED BY <1>3

\* What the recursion gives for a subset does not depend on where it began.
LEMMA SumsAgree ==
    ASSUME NEW f, NEW S, IsFiniteSet(S), NEW g, Sums(f, S, g),
           NEW W \in SUBSET S, NEW h, Sums(f, W, h)
    PROVE  \A s \in SUBSET W : g[s] = h[s]
  <1> DEFINE T == {s \in SUBSET W : g[s] # h[s]}
  <1> SUFFICES ASSUME T # {} PROVE FALSE
    OBVIOUS
  <1>1. IsFiniteSet(W)
    BY FS_Subset
  <1>2. PICK s \in T : \A t \in SUBSET s : t # s => t \notin T
    <2> HIDE DEF T
    <2>1. T \subseteq SUBSET W
      BY DEF T
    <2> QED BY <1>1, <2>1, LeastSubset
  <1>3. CASE s = {}
    BY <1>3 DEF Sums
  <1>4. CASE s # {}
    <2>1. s \ {Pick(s)} \in SUBSET W /\ g[s \ {Pick(s)}] = h[s \ {Pick(s)}]
      BY <1>2, <1>4, PickFacts
    <2>2. s \in SUBSET S /\ s \in SUBSET W
      OBVIOUS
    <2>3. g[s] = f[Pick(s)] + g[s \ {Pick(s)}]
      BY <1>4, <2>2 DEF Sums
    <2>4. h[s] = f[Pick(s)] + h[s \ {Pick(s)}]
      BY <1>4, <2>2 DEF Sums
    <2> QED BY <2>1, <2>3, <2>4
  <1> QED BY <1>3, <1>4

\* The recursion has a solution on every finite set.
LEMMA SumsExist ==
    ASSUME NEW f, NEW S, IsFiniteSet(S)
    PROVE  Sums(f, S, SumsOf(f, S))
  <1> DEFINE T == {s \in SUBSET S : ~Sums(f, s, SumsOf(f, s))}
  <1>0. S \notin T => Sums(f, S, SumsOf(f, S))
    OBVIOUS
  <1> SUFFICES ASSUME T # {} PROVE FALSE
    BY <1>0
  <1>1. PICK s \in T : \A t \in SUBSET s : t # s => t \notin T
    <2> HIDE DEF T
    <2>1. T \subseteq SUBSET S
      BY DEF T
    <2> QED BY <2>1, LeastSubset
  <1>2. s \in SUBSET S /\ IsFiniteSet(s)
    BY FS_Subset
  <1>3. \A t \in SUBSET s : t # s => Sums(f, t, SumsOf(f, t))
    BY <1>1, <1>2
  <1> DEFINE V(t) == SumsOf(f, t)[t]
             g == [t \in SUBSET s |-> IF t = {} THEN 0
                                      ELSE f[Pick(t)] + V(t \ {Pick(t)})]
  <1>4. ASSUME NEW t \in SUBSET s, t # s
        PROVE  g[t] = V(t)
    <2>1. Sums(f, t, SumsOf(f, t))
      BY <1>3, <1>4
    <2>2. CASE t = {}
      BY <2>1, <2>2 DEF Sums
    <2>3. CASE t # {}
      <3> DEFINE w == t \ {Pick(t)}
      <3>1. w \in SUBSET t /\ w \in SUBSET s /\ w # s
        BY <1>4, <2>3, PickFacts
      <3>2. Sums(f, w, SumsOf(f, w)) /\ IsFiniteSet(t)
        BY <1>2, <1>3, <3>1, FS_Subset
      <3>3. SumsOf(f, t)[w] = SumsOf(f, w)[w]
        <4> HIDE DEF w
        <4> QED BY <2>1, <3>1, <3>2, SumsAgree
      <3>4. SumsOf(f, t)[t] = f[Pick(t)] + SumsOf(f, t)[w]
        BY <2>1, <2>3 DEF Sums
      <3> QED BY <2>3, <3>3, <3>4
    <2> QED BY <2>2, <2>3
  <1>5. ASSUME NEW t \in SUBSET s, t # {}
        PROVE  V(t \ {Pick(t)}) = g[t \ {Pick(t)}]
    <2>1. t \ {Pick(t)} \in SUBSET s /\ t \ {Pick(t)} # s
      BY <1>5, PickFacts
    <2> HIDE DEF g, V
    <2> QED BY <1>4, <2>1
  <1>6. Sums(f, s, g)
    BY <1>5 DEF Sums
  <1>7. Sums(f, s, SumsOf(f, s))
    <2> HIDE DEF g
    <2> QED BY <1>6 DEF SumsOf
  <1> QED BY <1>7

\* f with d more at a.
Added(f, a, d) == [f EXCEPT ![a] = @ + d]

\* The sum of integers is one, and changes by d with one of them.
LEMMA SumMoves ==
    ASSUME NEW S, IsFiniteSet(S), NEW f \in [S -> Int], NEW a \in S, NEW d \in Int
    PROVE  /\ SumFunction(f) \in Int
           /\ SumFunction(Added(f, a, d)) = SumFunction(f) + d
  <1> DEFINE e == Added(f, a, d)
             g == SumsOf(f, S)
             h == SumsOf(e, S)
             Right(s) == g[s] \in Int /\ h[s] = g[s] + (IF a \in s THEN d ELSE 0)
             T == {s \in SUBSET S : ~Right(s)}
  <1>1. Sums(f, S, g) /\ Sums(e, S, h)
    BY SumsExist
  <1>2. e \in [S -> Int] /\ e[a] = f[a] + d /\ \A x \in S : x # a => e[x] = f[x]
    BY DEF Added
  <1>3. SumFunction(f) = g[S] /\ SumFunction(e) = h[S]
    BY <1>2, SumIsSums
  <1> HIDE DEF e, g, h
  <1>4. Right(S)
    <2> SUFFICES ASSUME T # {} PROVE FALSE
      OBVIOUS
    <2>1. PICK s \in T : \A t \in SUBSET s : t # s => t \notin T
      <3> HIDE DEF T
      <3>1. T \subseteq SUBSET S
        BY DEF T
      <3> QED BY <3>1, LeastSubset
    <2>2. s \in SUBSET S /\ ~Right(s)
      OBVIOUS
    <2>3. CASE s = {}
      BY <1>1, <2>2, <2>3 DEF Sums
    <2>4. CASE s # {}
      <3> DEFINE x == Pick(s)
                 w == s \ {x}
      <3>1. x \in s /\ x \in S /\ w \in SUBSET S /\ w \in SUBSET s /\ w # s
        BY <2>2, <2>4, PickFacts
      <3>2. Right(w)
        BY <2>1, <3>1
      <3>3. g[s] = f[x] + g[w] /\ h[s] = e[x] + h[w]
        BY <1>1, <2>2, <2>4 DEF Sums
      <3>4. w = s \ {x}
        OBVIOUS
      <3> HIDE DEF x, w
      <3>5. f[x] \in Int
        BY <3>1
      <3>6. CASE x = a
        <4>1. a \in s /\ a \notin w
          BY <3>1, <3>4, <3>6
        <4> QED BY <1>2, <2>2, <3>2, <3>3, <3>5, <3>6, <4>1
      <3>7. CASE x # a
        <4>1. a \in s <=> a \in w
          BY <3>4, <3>7
        <4> QED BY <1>2, <2>2, <3>1, <3>2, <3>3, <3>5, <3>7, <4>1
      <3> QED BY <3>6, <3>7
    <2> QED BY <2>3, <2>4
  <1> QED BY <1>3, <1>4 DEF e

\* A function that is zero everywhere adds up to zero.
LEMMA SumOfZeros ==
    ASSUME NEW S, IsFiniteSet(S)
    PROVE  SumFunction([a \in S |-> 0]) = 0
  <1> DEFINE f == [a \in S |-> 0]
             g == SumsOf(f, S)
             T == {s \in SUBSET S : g[s] # 0}
  <1>1. Sums(f, S, g)
    BY SumsExist
  <1>2. SumFunction(f) = g[S]
    BY SumIsSums
  <1> HIDE DEF g
  <1> SUFFICES ASSUME T # {} PROVE FALSE
    BY <1>2
  <1>3. PICK s \in T : \A t \in SUBSET s : t # s => t \notin T
    <2> HIDE DEF T
    <2>1. T \subseteq SUBSET S
      BY DEF T
    <2> QED BY <2>1, LeastSubset
  <1>4. CASE s = {}
    BY <1>1, <1>4 DEF Sums
  <1>5. CASE s # {}
    <2>1. /\ Pick(s) \in S /\ s \in SUBSET S
          /\ s \ {Pick(s)} \in SUBSET S /\ g[s \ {Pick(s)}] = 0
      BY <1>3, <1>5, PickFacts
    <2>2. g[s] = f[Pick(s)] + g[s \ {Pick(s)}]
      BY <1>1, <1>5, <2>1 DEF Sums
    <2> QED BY <2>1, <2>2
  <1> QED BY <1>4, <1>5


\* Nothing adds up to zero.
LEMMA SumOfNothing == ASSUME NEW f PROVE SumFunctionOnSet(f, {}) = 0
  <1>1. IsFiniteSet({})
    BY FS_EmptySet
  <1>2. Sums(f, {}, SumsOf(f, {}))
    BY <1>1, SumsExist
  <1>3. SumsOf(f, {})[{}] = 0
    BY <1>2 DEF Sums
  <1> QED BY <1>3, SumIsSums

\* Any element may be taken first.
LEMMA SumTakes ==
    ASSUME NEW S, IsFiniteSet(S), NEW f, \A x \in S : f[x] \in Int
    PROVE  /\ SumFunctionOnSet(f, S) \in Int
           /\ \A a \in S : SumFunctionOnSet(f, S) = f[a] + SumFunctionOnSet(f, S \ {a})
  <1> DEFINE g == SumsOf(f, S)
             Right(s) == g[s] \in Int /\ \A b \in s : g[s] = f[b] + g[s \ {b}]
             T == {s \in SUBSET S : ~Right(s)}
  <1>1. Sums(f, S, g)
    BY SumsExist
  <1>2. SumFunctionOnSet(f, S) = g[S]
    BY SumIsSums
  <1>3. ASSUME NEW a \in S PROVE SumFunctionOnSet(f, S \ {a}) = g[S \ {a}]
    <2> DEFINE w == S \ {a}
    <2>1. w \in SUBSET S /\ IsFiniteSet(w)
      BY FS_Subset
    <2> HIDE DEF w, g
    <2>2. Sums(f, w, SumsOf(f, w)) /\ SumFunctionOnSet(f, w) = SumsOf(f, w)[w]
      BY <2>1, SumsExist, SumIsSums
    <2>3. g[w] = SumsOf(f, w)[w]
      BY <1>1, <2>1, <2>2, SumsAgree
    <2> QED BY <2>2, <2>3 DEF w
  <1> HIDE DEF g
  <1>4. Right(S)
    <2> SUFFICES ASSUME T # {} PROVE FALSE
      OBVIOUS
    <2>1. PICK s \in T : \A t \in SUBSET s : t # s => t \notin T
      <3> HIDE DEF T
      <3>1. T \subseteq SUBSET S
        BY DEF T
      <3> QED BY <3>1, LeastSubset
    <2>2. s \in SUBSET S /\ ~Right(s)
      OBVIOUS
    <2>3. CASE s = {}
      BY <1>1, <2>2, <2>3 DEF Sums
    <2>4. CASE s # {}
      <3>0. PICK x \in s : x = Pick(s)
        BY <2>4, PickFacts
      <3>1. x \in S /\ f[x] \in Int /\ g[s] = f[x] + g[s \ {x}]
        BY <1>1, <2>2, <2>4, <3>0 DEF Sums
      <3>2. \A b \in s : Right(s \ {b})
        <4> SUFFICES ASSUME NEW b \in s PROVE Right(s \ {b})
          OBVIOUS
        <4>1. s \ {b} \in SUBSET s /\ s \ {b} # s /\ s \ {b} \in SUBSET S
          BY <2>2
        <4> QED BY <2>1, <4>1
      <3>3. g[s \ {x}] \in Int
        BY <3>2
      <3>4. ASSUME NEW b \in s, b # x PROVE g[s] = f[b] + g[s \ {b}]
        <4> DEFINE w == s \ {x, b}
        <4>1. (s \ {x}) \ {b} = w /\ (s \ {b}) \ {x} = w
          OBVIOUS
        <4>2. b \in s \ {x} /\ x \in s \ {b} /\ f[b] \in Int
          BY <2>2, <3>4
        <4> HIDE DEF w
        <4>3. g[s \ {x}] = f[b] + g[w] /\ g[s \ {b}] = f[x] + g[w]
          BY <3>2, <4>1, <4>2
        <4>4. Right(s \ {x}) /\ Right((s \ {x}) \ {b})
          <5>1. (s \ {x}) \ {b} \in SUBSET s /\ (s \ {x}) \ {b} # s /\ (s \ {x}) \ {b} \in SUBSET S
            BY <2>2, <4>2
          <5> QED BY <2>1, <3>2, <5>1
        <4>5. g[w] \in Int
          BY <4>1, <4>4
        <4> QED BY <3>1, <4>2, <4>3, <4>5
      <3>5. \A b \in s : g[s] = f[b] + g[s \ {b}]
        BY <3>1, <3>4
      <3>6. g[s] \in Int
        BY <3>1, <3>3
      <3> QED BY <2>2, <3>5, <3>6
    <2> QED BY <2>3, <2>4
  <1> QED BY <1>2, <1>3, <1>4

\* One more element.
LEMMA SumAdds ==
    ASSUME NEW S, IsFiniteSet(S), NEW f, \A x \in S : f[x] \in Int,
           NEW a, a \notin S, f[a] \in Int
    PROVE  SumFunctionOnSet(f, S \cup {a}) = SumFunctionOnSet(f, S) + f[a]
  <1>1. IsFiniteSet(S \cup {a}) /\ \A x \in S \cup {a} : f[x] \in Int
    BY FS_AddElement
  <1>2. (S \cup {a}) \ {a} = S
    OBVIOUS
  <1>3. SumFunctionOnSet(f, S \cup {a}) = f[a] + SumFunctionOnSet(f, S)
    BY <1>1, <1>2, SumTakes
  <1>4. SumFunctionOnSet(f, S) \in Int
    BY SumTakes
  <1> QED BY <1>3, <1>4

\* Disjoint sets add up.
LEMMA SumUnion ==
    ASSUME NEW A, IsFiniteSet(A), NEW B, IsFiniteSet(B), A \cap B = {},
           NEW f, \A x \in A \cup B : f[x] \in Int
    PROVE  SumFunctionOnSet(f, A \cup B) = SumFunctionOnSet(f, A) + SumFunctionOnSet(f, B)
  <1> DEFINE Right(s) == SumFunctionOnSet(f, A \cup s)
                           = SumFunctionOnSet(f, A) + SumFunctionOnSet(f, s)
             T == {s \in SUBSET B : ~Right(s)}
  <1> SUFFICES ASSUME T # {} PROVE FALSE
    OBVIOUS
  <1>1. PICK s \in T : \A t \in SUBSET s : t # s => t \notin T
    <2> HIDE DEF T
    <2>1. T \subseteq SUBSET B
      BY DEF T
    <2> QED BY <2>1, LeastSubset
  <1>2. s \in SUBSET B /\ ~Right(s) /\ IsFiniteSet(s)
    BY FS_Subset
  <1>3. SumFunctionOnSet(f, A) \in Int
    BY SumTakes
  <1>4. CASE s = {}
    <2>1. A \cup s = A
      BY <1>4
    <2> QED BY <1>2, <1>3, <1>4, <2>1, SumOfNothing
  <1>5. CASE s # {}
    <2>1. PICK x : x \in s
      BY <1>5
    <2> DEFINE w == s \ {x}
    <2>2. /\ w \in SUBSET s /\ w # s /\ w \in SUBSET B /\ x \notin w /\ x \notin A
          /\ f[x] \in Int /\ w \cup {x} = s /\ A \cup s = (A \cup w) \cup {x}
      BY <1>2, <2>1
    <2>3. Right(w)
      BY <1>1, <2>2
    <2>4. IsFiniteSet(w) /\ IsFiniteSet(A \cup w)
      BY <1>2, FS_Subset, FS_Union
    <2> HIDE DEF w
    <2>5. SumFunctionOnSet(f, s) = SumFunctionOnSet(f, w) + f[x]
      BY <2>2, <2>4, SumAdds
    <2>6. SumFunctionOnSet(f, A \cup s) = SumFunctionOnSet(f, A \cup w) + f[x]
      <3> DEFINE v == A \cup w
      <3>1. x \notin v /\ (\A y \in v : f[y] \in Int) /\ IsFiniteSet(v) /\ A \cup s = v \cup {x}
        BY <2>2, <2>4
      <3> HIDE DEF v
      <3>2. SumFunctionOnSet(f, v \cup {x}) = SumFunctionOnSet(f, v) + f[x]
        BY <2>2, <3>1, SumAdds
      <3> QED BY <3>1, <3>2 DEF v
    <2>7. SumFunctionOnSet(f, w) \in Int
      BY <2>2, <2>4, SumTakes
    <2> QED BY <1>2, <1>3, <2>2, <2>3, <2>5, <2>6, <2>7
  <1> QED BY <1>4, <1>5

=============================================================================
