-------------------------------- MODULE Sums --------------------------------
(* What the sums of the specifications satisfy: a total is taken by picking  *)
(* the elements of a finite set one by one, and does not depend on the order *)
(* in which they are picked.                                                *)
EXTENDS Integers, FiniteSets, FiniteSetsExt, Functions, Folds,
        FiniteSetTheorems, WellFoundedInduction, TLAPS

\* The element the folds of the libraries pick first.
Pick(s) == CHOOSE x \in s : TRUE

\* The recursive function that the folds define.
Sums(sum, f, S) ==
  sum = [s \in SUBSET S |-> IF s = {} THEN 0 ELSE f[Pick(s)] + sum[s \ {Pick(s)}]]

SumOver(f, S) == (CHOOSE sum : Sums(sum, f, S))[S]

\* Both operators of the libraries are this sum.
LEMMA FoldIsSum ==
  ASSUME NEW f
  PROVE  FoldFunction(+, 0, f) = SumOver(f, DOMAIN f)
BY Zenon DEF FoldFunction, FoldFunctionOnSet, MapThenFoldSet, SumOver, Sums, Pick

LEMMA MapIsSum ==
  ASSUME NEW f, NEW S
  PROVE  MapThenSumSet(LAMBDA x : f[x], S) = SumOver(f, S)
BY Zenon DEF MapThenSumSet, MapThenFoldSet, SumOver, Sums, Pick

LEMMA PickIsElement ==
  ASSUME NEW S, S # {}
  PROVE  Pick(S) \in S
BY DEF Pick

----------------------------------------------------------------------------
(* Induction over the subsets of a finite set: what fails of one of them     *)
(* fails of a smallest one.                                                 *)

LEMMA LeastNumber ==
  ASSUME NEW T, T \subseteq Nat, T # {}
  PROVE  \E n \in T : \A m \in T : ~(m < n)
<1>1. PICK n \in T : \A m \in T : ~(<<m, n>> \in OpToRel(<, Nat))
  BY WFMin, NatLessThanWellFounded, Zenon
<1>2. \A m \in T : ~(m < n)
  BY <1>1 DEF OpToRel
<1> QED
  BY <1>2

LEMMA SmallestSubset ==
  ASSUME NEW S, IsFiniteSet(S), NEW T, T \subseteq SUBSET S, T # {}
  PROVE  \E t \in T : \A u \in SUBSET t : u # t => u \notin T
<1> DEFINE sizes == {Cardinality(t) : t \in T}
<1>1. \A t \in T : IsFiniteSet(t) /\ Cardinality(t) \in Nat
  BY FS_Subset, FS_CardinalityType
<1>2. sizes \subseteq Nat /\ sizes # {}
  BY <1>1
<1>3. PICK n \in sizes : \A m \in sizes : ~(m < n)
  <2> HIDE DEF sizes
  <2> QED
    BY <1>2, LeastNumber
<1>4. PICK t \in T : n = Cardinality(t)
  BY <1>3
<1>5. ASSUME NEW u \in SUBSET t, u # t, u \in T PROVE FALSE
  <2>1. Cardinality(u) <= Cardinality(t) /\ Cardinality(u) # Cardinality(t)
    BY <1>1, <1>5, FS_Subset
  <2>2. Cardinality(u) \in sizes
    BY <1>5
  <2>3. Cardinality(t) \in Nat /\ Cardinality(u) \in Nat
    BY <1>1, <1>5
  <2> HIDE DEF sizes
  <2> QED
    BY <1>3, <1>4, <2>1, <2>2, <2>3
<1> QED
  BY <1>5

----------------------------------------------------------------------------

\* A sum is the element picked first and the sum of what is left.
Recurs(f, s) ==
  SumOver(f, s) = IF s = {} THEN 0 ELSE f[Pick(s)] + SumOver(f, s \ {Pick(s)})

\* What holds of the proper subsets carries over to the set: the recursive
\* function exists on it, and on the proper subsets it is their sum.
LEMMA SumExtends ==
  ASSUME NEW f, NEW S, IsFiniteSet(S), \A t \in SUBSET S : t # S => Recurs(f, t)
  PROVE  Recurs(f, S)
<1> DEFINE sum == [s \in SUBSET S |->
                     IF s = {} THEN 0 ELSE f[Pick(s)] + SumOver(f, s \ {Pick(s)})]
           some == CHOOSE g : Sums(g, f, S)
<1>1. ASSUME NEW s \in SUBSET S, s # {}
      PROVE  s \ {Pick(s)} \in SUBSET S /\ s \ {Pick(s)} # S /\ Pick(s) \in s
  BY <1>1, PickIsElement
<1>2. \A s \in SUBSET S : s # {} => sum[s \ {Pick(s)}] = SumOver(f, s \ {Pick(s)})
  BY <1>1 DEF Recurs
<1>3. Sums(sum, f, S)
  BY <1>2 DEF Sums
<1>4. Sums(some, f, S)
  <2> HIDE DEF sum
  <2> QED
    BY <1>3
<1> HIDE DEF sum, some
<1>5. \A s \in SUBSET S : some[s] = IF s = {} THEN 0 ELSE f[Pick(s)] + some[s \ {Pick(s)}]
  BY <1>4 DEF Sums
<1>6. ASSUME NEW u \in SUBSET S, u # S PROVE some[u] = SumOver(f, u)
  <2> DEFINE T == {t \in SUBSET S : t # S /\ some[t] # SumOver(f, t)}
  <2> SUFFICES ASSUME T # {} PROVE FALSE
    BY <1>6
  <2>1. PICK t \in T : \A v \in SUBSET t : v # t => v \notin T
    <3>1. T \subseteq SUBSET S
      OBVIOUS
    <3> HIDE DEF T
    <3> QED
      BY <3>1, SmallestSubset
  <2>2. t \in SUBSET S /\ t # S /\ some[t] # SumOver(f, t) /\ Recurs(f, t)
    OBVIOUS
  <2>3. t # {}
    BY <1>5, <2>2 DEF Recurs
  <2>4. Pick(t) \in t /\ t \ {Pick(t)} # S /\ t \ {Pick(t)} \in SUBSET S
    BY <1>1, <2>2, <2>3
  <2>5. some[t \ {Pick(t)}] = SumOver(f, t \ {Pick(t)})
    BY <2>1, <2>4
  <2> QED
    BY <1>5, <2>2, <2>3, <2>5 DEF Recurs
<1>7. SumOver(f, S) = some[S]
  BY DEF SumOver, some
<1> QED
  BY <1>1, <1>5, <1>6, <1>7 DEF Recurs

LEMMA SumRecurs ==
  ASSUME NEW f, NEW S, IsFiniteSet(S)
  PROVE  Recurs(f, S)
<1> DEFINE T == {t \in SUBSET S : ~Recurs(f, t)}
<1> SUFFICES ASSUME T # {} PROVE FALSE
  OBVIOUS
<1>1. PICK t \in T : \A u \in SUBSET t : u # t => u \notin T
  <2>1. T \subseteq SUBSET S
    OBVIOUS
  <2> HIDE DEF T
  <2> QED
    BY <2>1, SmallestSubset
<1>2. IsFiniteSet(t)
  BY FS_Subset
<1>3. \A u \in SUBSET t : u # t => Recurs(f, u)
  BY <1>1
<1> QED
  BY <1>2, <1>3, SumExtends

LEMMA SumOfNone ==
  ASSUME NEW f
  PROVE  SumOver(f, {}) = 0
<1>1. Recurs(f, {})
  BY SumRecurs, FS_EmptySet
<1> QED
  BY <1>1 DEF Recurs

LEMMA SumPicks ==
  ASSUME NEW f, NEW S, IsFiniteSet(S), S # {}
  PROVE  /\ Pick(S) \in S
         /\ SumOver(f, S) = f[Pick(S)] + SumOver(f, S \ {Pick(S)})
BY SumRecurs, PickIsElement DEF Recurs

LEMMA SumIsInt ==
  ASSUME NEW f, NEW S, IsFiniteSet(S), \A x \in S : f[x] \in Int
  PROVE  SumOver(f, S) \in Int
<1> DEFINE T == {t \in SUBSET S : SumOver(f, t) \notin Int}
<1> SUFFICES ASSUME T # {} PROVE FALSE
  OBVIOUS
<1>1. PICK t \in T : \A u \in SUBSET t : u # t => u \notin T
  <2>1. T \subseteq SUBSET S
    OBVIOUS
  <2> HIDE DEF T
  <2> QED
    BY <2>1, SmallestSubset
<1>2. IsFiniteSet(t) /\ t # {}
  <2>1. SumOver(f, {}) \in Int
    BY SumOfNone
  <2> QED
    BY <2>1, FS_Subset
<1>3. Pick(t) \in t /\ SumOver(f, t) = f[Pick(t)] + SumOver(f, t \ {Pick(t)})
  BY <1>2, SumPicks
<1>4. SumOver(f, t \ {Pick(t)}) \in Int
  BY <1>1, <1>3
<1>5. f[Pick(t)] \in Int /\ SumOver(f, t) \notin Int
  BY <1>3
<1> QED
  BY <1>3, <1>4, <1>5

\* A sum depends on the terms alone.
LEMMA SumOfSame ==
  ASSUME NEW f, NEW g, NEW S, IsFiniteSet(S), \A x \in S : f[x] = g[x]
  PROVE  SumOver(f, S) = SumOver(g, S)
<1> DEFINE T == {t \in SUBSET S : SumOver(f, t) # SumOver(g, t)}
<1> SUFFICES ASSUME T # {} PROVE FALSE
  OBVIOUS
<1>1. PICK t \in T : \A u \in SUBSET t : u # t => u \notin T
  <2>1. T \subseteq SUBSET S
    OBVIOUS
  <2> HIDE DEF T
  <2> QED
    BY <2>1, SmallestSubset
<1>2. IsFiniteSet(t) /\ t # {}
  BY FS_Subset, SumOfNone
<1>3. /\ Pick(t) \in t
      /\ SumOver(f, t) = f[Pick(t)] + SumOver(f, t \ {Pick(t)})
      /\ SumOver(g, t) = g[Pick(t)] + SumOver(g, t \ {Pick(t)})
  BY <1>2, SumPicks
<1>4. SumOver(f, t \ {Pick(t)}) = SumOver(g, t \ {Pick(t)})
  BY <1>1, <1>3
<1> QED
  BY <1>3, <1>4

\* Any element may be taken out first.
LEMMA SumRemoves ==
  ASSUME NEW f, NEW S, IsFiniteSet(S), \A x \in S : f[x] \in Int, NEW e \in S
  PROVE  SumOver(f, S) = f[e] + SumOver(f, S \ {e})
<1> DEFINE Any(t) == \A y \in t : SumOver(f, t) = f[y] + SumOver(f, t \ {y})
           T == {t \in SUBSET S : ~Any(t)}
<1>1. SUFFICES ASSUME T # {} PROVE FALSE
  OBVIOUS
<1>2. PICK t \in T : \A u \in SUBSET t : u # t => u \notin T
  <2>1. T \subseteq SUBSET S
    OBVIOUS
  <2> HIDE DEF T
  <2> QED
    BY <1>1, <2>1, SmallestSubset
<1>3. IsFiniteSet(t)
  BY FS_Subset
<1>4. PICK y \in t : SumOver(f, t) # f[y] + SumOver(f, t \ {y})
  OBVIOUS
<1>5. PICK x \in t : SumOver(f, t) = f[x] + SumOver(f, t \ {x})
  BY <1>3, <1>4, SumPicks
<1>6. x # y
  BY <1>4, <1>5
<1>7. Any(t \ {x}) /\ Any(t \ {y})
  BY <1>2
<1> DEFINE rest == (t \ {x}) \ {y}
<1>8. /\ SumOver(f, t \ {x}) = f[y] + SumOver(f, rest)
      /\ SumOver(f, t \ {y}) = f[x] + SumOver(f, rest)
  <2>1. (t \ {y}) \ {x} = rest
    OBVIOUS
  <2> QED
    BY <1>6, <1>7, <2>1
<1>9. SumOver(f, rest) \in Int /\ f[x] \in Int /\ f[y] \in Int
  <2>1. IsFiniteSet(rest) /\ rest \subseteq S
    BY <1>3, FS_Subset
  <2> QED
    BY <2>1, SumIsInt
<1> HIDE DEF rest
<1> QED
  BY <1>4, <1>5, <1>8, <1>9

\* Adding an element adds its term.
LEMMA SumAdds ==
  ASSUME NEW f, NEW S, IsFiniteSet(S), NEW e, e \notin S,
         f[e] \in Int, \A x \in S : f[x] \in Int
  PROVE  SumOver(f, S \cup {e}) = SumOver(f, S) + f[e]
<1>1. IsFiniteSet(S \cup {e}) /\ (S \cup {e}) \ {e} = S
  BY FS_AddElement
<1>2. SumOver(f, S) \in Int
  BY SumIsInt
<1>3. SumOver(f, S \cup {e}) = f[e] + SumOver(f, (S \cup {e}) \ {e})
  BY <1>1, SumRemoves
<1>4. SumOver(f, S \cup {e}) = f[e] + SumOver(f, S)
  BY <1>1, <1>3
<1> QED
  BY <1>2, <1>4

\* Where one term changes, the sum changes by as much.
LEMMA SumChanges ==
  ASSUME NEW f, NEW g, NEW S, IsFiniteSet(S), NEW e \in S,
         \A x \in S : f[x] \in Int /\ g[x] \in Int,
         \A x \in S : x # e => g[x] = f[x]
  PROVE  SumOver(g, S) = SumOver(f, S) + (g[e] - f[e])
<1>1. IsFiniteSet(S \ {e})
  BY FS_RemoveElement
<1>2. SumOver(f, S \ {e}) = SumOver(g, S \ {e}) /\ SumOver(f, S \ {e}) \in Int
  BY <1>1, SumOfSame, SumIsInt
<1>3. /\ SumOver(f, S) = f[e] + SumOver(f, S \ {e})
      /\ SumOver(g, S) = g[e] + SumOver(g, S \ {e})
  BY SumRemoves
<1>4. f[e] \in Int /\ g[e] \in Int
  OBVIOUS
<1> QED
  BY <1>2, <1>3, <1>4

\* Terms that are nought need not be counted.
LEMMA SumOfNoughts ==
  ASSUME NEW f, NEW S, IsFiniteSet(S), \A x \in S : f[x] = 0
  PROVE  SumOver(f, S) = 0
<1> DEFINE T == {t \in SUBSET S : SumOver(f, t) # 0}
<1> SUFFICES ASSUME T # {} PROVE FALSE
  OBVIOUS
<1>1. PICK t \in T : \A u \in SUBSET t : u # t => u \notin T
  <2>1. T \subseteq SUBSET S
    OBVIOUS
  <2> HIDE DEF T
  <2> QED
    BY <2>1, SmallestSubset
<1>2. IsFiniteSet(t) /\ t # {}
  BY FS_Subset, SumOfNone
<1>3. Pick(t) \in t /\ SumOver(f, t) = f[Pick(t)] + SumOver(f, t \ {Pick(t)})
  BY <1>2, SumPicks
<1>4. SumOver(f, t \ {Pick(t)}) = 0 /\ f[Pick(t)] = 0
  BY <1>1, <1>3
<1> QED
  BY <1>3, <1>4

\* A sum may be taken over the names of its terms: h tells the term of a name.
LEMMA SumRenames ==
  ASSUME NEW f, NEW g, NEW h, NEW S, NEW R, IsFiniteSet(S), h \in Bijection(S, R),
         \A x \in R : g[x] \in Int, \A x \in S : f[x] = g[h[x]]
  PROVE  SumOver(f, S) = SumOver(g, R)
<1> DEFINE img(t) == {h[x] : x \in t}
           T == {t \in SUBSET S : SumOver(f, t) # SumOver(g, img(t))}
<1>1. \A x \in S : h[x] \in R /\ \A y \in S : h[x] = h[y] => x = y
  BY DEF Bijection, Injection, IsInjective
<1>2. img(S) = R
  BY DEF Bijection, Surjection
<1>3. IsFiniteSet(R)
  BY FS_Bijection DEF ExistsBijection
<1>4. ASSUME T # {} PROVE FALSE
  <2>1. PICK t \in T : \A u \in SUBSET t : u # t => u \notin T
    <3>1. T \subseteq SUBSET S
      OBVIOUS
    <3> HIDE DEF T
    <3> QED
      BY <1>4, <3>1, SmallestSubset
  <2>2. IsFiniteSet(t)
    BY FS_Subset
  <2>3. t # {}
    <3>1. img({}) = {}
      OBVIOUS
    <3> QED
      BY <3>1, SumOfNone
  <2>4. PICK x \in t : SumOver(f, t) = f[x] + SumOver(f, t \ {x})
    BY <2>2, <2>3, SumPicks
  <2>5. img(t \ {x}) = img(t) \ {h[x]}
    BY <1>1
  <2>6. SumOver(f, t \ {x}) = SumOver(g, img(t \ {x}))
    BY <2>1
  <2>7. img(t) \subseteq R /\ h[x] \in img(t)
    <3>1. t \subseteq S
      OBVIOUS
    <3> QED
      BY <1>1, <3>1
  <2>8. SumOver(g, img(t)) = g[h[x]] + SumOver(g, img(t) \ {h[x]})
    <3>1. IsFiniteSet(img(t))
      BY <1>3, <2>7, FS_Subset
    <3> HIDE DEF img
    <3> QED
      BY <2>7, <3>1, SumRemoves
  <2>9. f[x] = g[h[x]]
    OBVIOUS
  <2>10. SumOver(f, t) # SumOver(g, img(t))
    OBVIOUS
  <2> HIDE DEF img
  <2> QED
    BY <2>4, <2>5, <2>6, <2>8, <2>9, <2>10
<1> QED
  BY <1>2, <1>4
=============================================================================
