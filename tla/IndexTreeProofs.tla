--------------------------- MODULE IndexTreeProofs ---------------------------
(***************************************************************************)
(* Proofs about IndexTree: grouping, the recursions over blocks and         *)
(* partitions, and the loop of finalize that assembles the partitions.      *)
(* Induction over numbers is an argument about a least counterexample.      *)
(***************************************************************************)
EXTENDS IndexTree, FiniteSetTheorems, TLAPS

\* A set of numbers that is not empty has a least element.
LEMMA LeastNumber ==
    ASSUME NEW S \in SUBSET Nat, S # {}
    PROVE  \E m \in S : \A k \in S : m <= k
<1> DEFINE R == OpToRel(<, Nat)
<1>1. IsWellFoundedOn(R, Nat)
  BY NatLessThanWellFounded, Zenon
<1> HIDE DEF R
<1>2. PICK m \in S : \A k \in S : ~(<<k, m>> \in R)
  BY <1>1, WFMin
<1>3. \A k \in S : ~(k < m)
  BY <1>2 DEF R, OpToRel
<1> QED BY <1>3

\* Induction: a set of numbers with 0 and with every member its successor has all.
LEMMA AllNumbers ==
    ASSUME NEW S \in SUBSET Nat, 0 \in S, \A n \in S : n + 1 \in S
    PROVE  S = Nat
<1> SUFFICES ASSUME Nat \ S # {} PROVE FALSE
  OBVIOUS
<1>1. PICK n \in Nat \ S : \A k \in Nat \ S : n <= k
  BY LeastNumber
<1>2. n - 1 \in Nat /\ n - 1 \in S
  BY <1>1
<1> QED BY <1>1, <1>2

\* A function that starts with x and takes F from one number to the next.
Iterates(f, x, F) == f[0] = x /\ \A n \in Nat : f[n + 1] = F[f[n]]

LEMMA IterationExists ==
    ASSUME NEW D, NEW x \in D, NEW F \in [D -> D]
    PROVE  \E f \in [Nat -> D] : Iterates(f, x, F)
<1> DEFINE Starts(f, n) == f[0] = x /\ \A k \in 0 .. n - 1 : f[k + 1] = F[f[k]]
           S == {n \in Nat : \E f \in [0 .. n -> D] : Starts(f, n)}
<1>1. 0 \in S
  <2>1. [k \in 0 .. 0 |-> x] \in [0 .. 0 -> D] /\ Starts([k \in 0 .. 0 |-> x], 0)
    OBVIOUS
  <2> QED BY <2>1
<1>2. ASSUME NEW n \in S PROVE n + 1 \in S
  <2>1. PICK f \in [0 .. n -> D] : Starts(f, n)
    OBVIOUS
  <2> DEFINE g == [k \in 0 .. n + 1 |-> IF k = n + 1 THEN F[f[n]] ELSE f[k]]
  <2>2. g \in [0 .. n + 1 -> D]
    OBVIOUS
  <2>3. g[0] = x
    BY <2>1
  <2>4. ASSUME NEW k \in 0 .. n PROVE g[k + 1] = F[g[k]]
    <3>1. CASE k = n
      BY <3>1
    <3>2. CASE k # n
      <4>1. k \in 0 .. n - 1 /\ k + 1 \in 0 .. n
        BY <3>2
      <4> QED BY <4>1, <2>1
    <3> QED BY <3>1, <3>2
  <2>5. Starts(g, n + 1)
    <3> HIDE DEF g
    <3> QED BY <2>3, <2>4
  <2> HIDE DEF g, Starts
  <2> QED BY <2>2, <2>5
<1>3. S = Nat
  <2> HIDE DEF S
  <2>1. S \in SUBSET Nat
    BY DEF S
  <2> QED BY <2>1, <1>1, <1>2, AllNumbers
<1> DEFINE start == [n \in Nat |-> CHOOSE f \in [0 .. n -> D] : Starts(f, n)]
<1>4. \A n \in Nat : start[n] \in [0 .. n -> D] /\ Starts(start[n], n)
  <2> HIDE DEF Starts
  <2> QED BY <1>3
<1> HIDE DEF start
<1>5. ASSUME NEW n \in Nat, NEW m \in Nat PROVE \A k \in Nat : k <= n /\ k <= m => start[n][k] = start[m][k]
  <2> DEFINE T == {k \in Nat : k <= n /\ k <= m => start[n][k] = start[m][k]}
  <2>1. T \in SUBSET Nat /\ 0 \in T
    BY <1>4
  <2>2. ASSUME NEW k \in T PROVE k + 1 \in T
    <3> SUFFICES ASSUME k + 1 <= n, k + 1 <= m PROVE start[n][k + 1] = start[m][k + 1]
      OBVIOUS
    <3>1. k \in 0 .. n - 1 /\ k \in 0 .. m - 1 /\ start[n][k] = start[m][k]
      OBVIOUS
    <3> QED BY <3>1, <1>4
  <2>3. T = Nat
    <3> HIDE DEF T
    <3> QED BY <2>1, <2>2, AllNumbers
  <2> QED BY <2>3
<1> DEFINE h == [n \in Nat |-> start[n][n]]
<1>6. h \in [Nat -> D] /\ h[0] = x
  BY <1>4
<1>7. ASSUME NEW n \in Nat PROVE h[n + 1] = F[h[n]]
  <2>1. start[n + 1][n + 1] = F[start[n + 1][n]]
    BY <1>4
  <2>2. start[n + 1][n] = start[n][n]
    BY <1>5
  <2> QED BY <2>1, <2>2
<1> HIDE DEF h
<1> QED BY <1>6, <1>7 DEF Iterates

\* A recursion whose step depends on its number has a run of every length.
Runs(f, n, x, G, V) == f \in [0 .. n -> V] /\ f[0] = x /\ \A i \in 1 .. n : f[i] = G[i][f[i - 1]]

LEMMA RunExists ==
    ASSUME NEW n \in Nat, NEW V, NEW x \in V, NEW G \in [1 .. n -> [V -> V]]
    PROVE  \E f : Runs(f, n, x, G, V)
<1> DEFINE S == {m \in Nat : m <= n => \E f : Runs(f, m, x, G, V)}
<1>1. 0 \in S
  <2>1. Runs([i \in 0 .. 0 |-> x], 0, x, G, V) BY DEF Runs
  <2> QED BY <2>1
<1>2. ASSUME NEW m \in S PROVE m + 1 \in S
  <2> SUFFICES ASSUME m + 1 <= n PROVE \E f : Runs(f, m + 1, x, G, V) OBVIOUS
  <2>1. PICK f : Runs(f, m, x, G, V) OBVIOUS
  <2>v. PICK v : v = G[m + 1][f[m]] OBVIOUS
  <2> DEFINE g == [i \in 0 .. m + 1 |-> IF i = m + 1 THEN v ELSE f[i]]
  <2>m. m \in Nat /\ m \in 0 .. m /\ m + 1 \in 1 .. n OBVIOUS
  <2>n. f \in [0 .. m -> V] /\ f[0] = x /\ \A i \in 1 .. m : f[i] = G[i][f[i - 1]] BY <2>1 DEF Runs
  <2>2. f[m] \in V /\ G[m + 1] \in [V -> V] /\ v \in V BY <2>m, <2>n, <2>v
  <2>3. g \in [0 .. m + 1 -> V]
    <3>1. \A i \in 0 .. m + 1 : i = m + 1 \/ i \in 0 .. m BY <2>m
    <3>2. \A i \in 0 .. m + 1 : (IF i = m + 1 THEN v ELSE f[i]) \in V BY <3>1, <2>2, <2>n
    <3> QED BY <3>2
  <2>4. g[0] = x BY <2>m, <2>n
  <2>5. ASSUME NEW i \in 1 .. m + 1 PROVE g[i] = G[i][g[i - 1]]
    <3>1. CASE i = m + 1
      <4>1. g[i] = v /\ i - 1 = m /\ g[i - 1] = f[m] BY <3>1, <2>m
      <4> QED BY <3>1, <4>1, <2>v
    <3>2. CASE i # m + 1
      <4>1. i \in 1 .. m /\ i - 1 \in 0 .. m BY <3>2, <2>m
      <4>2. g[i] = f[i] /\ g[i - 1] = f[i - 1]
        <5>1. i # m + 1 /\ i - 1 # m + 1 /\ i \in 0 .. m + 1 /\ i - 1 \in 0 .. m + 1 BY <4>1, <2>m
        <5> QED BY <5>1
      <4> QED BY <4>1, <4>2, <2>n
    <3> QED BY <3>1, <3>2
  <2> HIDE DEF g
  <2>6. Runs(g, m + 1, x, G, V) BY <2>3, <2>4, <2>5 DEF Runs
  <2> QED BY <2>6
<1>3. S = Nat
  <2> HIDE DEF S
  <2>1. S \in SUBSET Nat BY DEF S
  <2> QED BY <1>1, <1>2, <2>1, AllNumbers
<1>4. n \in S BY <1>3
<1> QED BY <1>4

-----------------------------------------------------------------------------
(* balanced_groups.                                                          *)

\* The group sizes: with n children in count groups of base or base + 1.
LEMMA GroupArithmetic ==
    ASSUME NEW n \in Nat, n > 1, Splittable(n),
           NEW count, count = GroupCount(n),
           NEW base, base = n \div count, NEW extra, extra = n % count
    PROVE  /\ count \in Nat /\ base \in Nat /\ extra \in Nat
           /\ count > 0 /\ extra < count
           /\ n = count * base + extra
           /\ base >= 2
           /\ base <= Bound
           /\ extra > 0 => base < Bound
<1>1. Bound \in Nat /\ Bound >= 2
  BY BoundAssumption
<1>2. /\ count = (n + Bound - 1) \div Bound /\ n + Bound - 1 \in Nat
  BY <1>1 DEF GroupCount
<1>3. /\ count \in Nat /\ count * Bound <= n + Bound - 1
      /\ n + Bound - 1 < count * Bound + Bound
  BY ONLY <1>1, <1>2, n \in Nat
<1>4. count > 0 /\ n <= count * Bound
  BY ONLY <1>1, <1>3, n \in Nat, n > 1
<1>5. base \in Nat /\ extra \in Nat /\ extra < count /\ n = count * base + extra
  BY ONLY <1>3, <1>4, n \in Nat, base = n \div count, extra = n % count
<1>6. base >= 2
  <2>1. CASE n <= Bound
    <3>1. count * Bound < 2 * Bound
      BY ONLY <2>1, <1>3, <1>1, n \in Nat
    <3>2. count < 2
      BY ONLY <3>1, <1>1, <1>3
    <3>3. count = 1
      BY ONLY <3>2, <1>3, <1>4
    <3> QED BY ONLY <3>3, <1>5, n \in Nat, n > 1
  <2>2. CASE count <= n \div 2
    <3>1. 2 * count <= n
      BY ONLY <2>2, <1>3, n \in Nat
    <3>2. base < 2 => count * base <= count
      BY ONLY <1>5, <1>3
    <3> QED BY ONLY <3>1, <3>2, <1>3, <1>5, n \in Nat
  <2> QED BY <2>1, <2>2 DEF Splittable
<1>7. base <= Bound
  <2>1. base > Bound => count * base >= count * Bound + count
    BY ONLY <1>1, <1>3, <1>5
  <2> QED BY ONLY <2>1, <1>1, <1>3, <1>4, <1>5, n \in Nat
<1>8. extra > 0 => base < Bound
  <2>1. base >= Bound => count * base >= count * Bound
    BY ONLY <1>1, <1>3, <1>5
  <2> QED BY ONLY <2>1, <1>1, <1>3, <1>4, <1>5, n \in Nat
<1> QED BY <1>3, <1>4, <1>5, <1>6, <1>7, <1>8

\* Sorted lists every member of a finite set once.
LEMMA SortedOnce ==
    ASSUME NEW S, IsFiniteSet(S)
    PROVE  /\ Cardinality(S) \in Nat
           /\ Sorted(S) \in Bijection(1 .. Cardinality(S), S)
<1>1. Cardinality(S) \in Nat /\ ExistsBijection(1 .. Cardinality(S), S)
  BY FS_CardinalityType
<1>2. PICK g : g \in Bijection(1 .. Cardinality(S), S)
  BY <1>1 DEF ExistsBijection
<1>3. g \in [1 .. Cardinality(S) -> S] /\ IsInjective(g)
  BY <1>2 DEF Bijection, Injection, IsInjective
<1>4. Sorted(S) \in [1 .. Cardinality(S) -> S] /\ IsInjective(Sorted(S))
  BY <1>3 DEF Sorted, SetToSeq
<1>5. Sorted(S) \in Injection(1 .. Cardinality(S), S)
  BY <1>4 DEF Injection, IsInjective
<1>6. /\ IsFiniteSet(1 .. Cardinality(S))
      /\ Cardinality(1 .. Cardinality(S)) = Cardinality(S)
  BY <1>1, FS_Interval
<1>7. Sorted(S) \in Surjection(1 .. Cardinality(S), S)
  BY <1>5, <1>6, FS_Injection
<1> QED BY <1>1, <1>5, <1>7 DEF Bijection

\* balanced_groups loses and repeats no child: the groups of a layer that can be
\* split are a partition of it, and each has at least two members and no more
\* than a branch can hold.
THEOREM GroupsPartition ==
    ASSUME NEW S, IsFiniteSet(S), Cardinality(S) > 1, Splittable(Cardinality(S))
    PROVE  LET groups == BalancedGroups(S) IN
           /\ groups \in Seq(SUBSET S) /\ groups # <<>>
           /\ S = UNION {groups[g] : g \in DOMAIN groups}
           /\ \A g, h \in DOMAIN groups : g # h => groups[g] \cap groups[h] = {}
           /\ \A g \in DOMAIN groups : IsFiniteSet(groups[g]) /\ Cardinality(groups[g]) \in 2 .. Bound
<1>n. PICK n : n = Cardinality(S)
  OBVIOUS
<1>c. PICK count : count = GroupCount(n)
  OBVIOUS
<1>d. PICK base, extra : base = n \div count /\ extra = n % count
  OBVIOUS
<1> DEFINE End(g) == g * base + IF g <= extra THEN g ELSE extra
           Members(g) == {Sorted(S)[i] : i \in End(g - 1) + 1 .. End(g)}
           size(g) == base + IF g <= extra THEN 1 ELSE 0
<1>1. n \in Nat /\ n > 1 /\ Sorted(S) \in Bijection(1 .. n, S)
  BY <1>n, SortedOnce
<1>2. /\ count \in Nat /\ base \in Nat /\ extra \in Nat
      /\ count > 0 /\ extra < count /\ n = count * base + extra
      /\ base >= 2 /\ base <= Bound /\ (extra > 0 => base < Bound)
  BY <1>1, <1>n, <1>c, <1>d, GroupArithmetic
<1>3. /\ \A g \in Nat : End(g) \in Nat
      /\ \A g, h \in Nat : g <= h => End(g) <= End(h)
      /\ End(0) = 0 /\ End(count) = n
      /\ \A g \in Nat \ {0} : End(g) = End(g - 1) + size(g)
  <2>1. \A g \in Nat : g * base \in Nat
    BY ONLY <1>2
  <2>2. \A g \in Nat : End(g) \in Nat
    BY ONLY <1>2, <2>1
  <2>3. ASSUME NEW g \in Nat, NEW h \in Nat, g <= h PROVE End(g) <= End(h)
    <3>1. g * base <= h * base
      BY ONLY <1>2, <2>3
    <3> QED BY ONLY <1>2, <3>1, <2>1, <2>3
  <2>4. End(0) = 0 /\ End(count) = n
    BY ONLY <1>2
  <2>5. ASSUME NEW g \in Nat \ {0} PROVE End(g) = End(g - 1) + size(g)
    <3>1. g * base = (g - 1) * base + base /\ g - 1 \in Nat
      BY ONLY <1>2, g \in Nat \ {0}
    <3> QED BY ONLY <1>2, <3>1, <2>1, g \in Nat \ {0}
  <2> HIDE DEF End, size
  <2> QED BY <2>2, <2>3, <2>4, <2>5
<1>4. \A g \in 1 .. count : /\ g \in Nat \ {0} /\ g - 1 \in Nat
                            /\ End(g - 1) \in Nat /\ End(g) \in Nat /\ End(g) <= n
                            /\ size(g) \in 2 .. Bound
  <2> TAKE g \in 1 .. count
  <2>1. g \in Nat \ {0} /\ g - 1 \in Nat /\ g <= count
    BY <1>2
  <2>2. size(g) \in 2 .. Bound
    BY <1>2, <2>1, BoundAssumption
  <2> HIDE DEF End, size
  <2> QED BY <2>1, <2>2, <1>2, <1>3
<1>5. BalancedGroups(S) = [g \in 1 .. count |-> Members(g)]
  <2>1. \A g \in 1 .. count : End(g) = End(g - 1) + size(g)
    BY <1>3, <1>4
  <2>2. BalancedGroups(S) = [g \in 1 .. count |->
                               {Sorted(S)[i] : i \in End(g - 1) + 1 .. End(g - 1) + size(g)}]
    BY <1>n, <1>c, <1>d DEF BalancedGroups
  <2> HIDE DEF End, size
  <2> QED BY <2>1, <2>2
<1>6. /\ Sorted(S) \in [1 .. n -> S]
      /\ \A i, j \in 1 .. n : Sorted(S)[i] = Sorted(S)[j] => i = j
      /\ \A x \in S : \E i \in 1 .. n : Sorted(S)[i] = x
  BY <1>1 DEF Bijection, Injection, Surjection, IsInjective
<1> HIDE DEF End, size
<1>7. \A g \in 1 .. count : End(g - 1) + 1 .. End(g) \subseteq 1 .. n
  BY <1>4, <1>1
<1>8. \A g \in 1 .. count : Members(g) \in SUBSET S
  BY <1>6, <1>7
<1>9. \A g \in 1 .. count : IsFiniteSet(Members(g)) /\ Cardinality(Members(g)) \in 2 .. Bound
  <2> TAKE g \in 1 .. count
  <2> DEFINE I == End(g - 1) + 1 .. End(g)
             f == [i \in I |-> Sorted(S)[i]]
  <2>1. f \in Bijection(I, Members(g))
    BY <1>6, <1>7 DEF Bijection, Injection, Surjection, IsInjective
  <2>2. End(g) = End(g - 1) + size(g)
    BY <1>3, <1>4
  <2>3. IsFiniteSet(I) /\ Cardinality(I) = size(g)
    <3>1. /\ End(g - 1) + 1 \in Int /\ End(g) \in Int /\ ~(End(g - 1) + 1 > End(g))
          /\ End(g) - (End(g - 1) + 1) + 1 = size(g)
      BY <1>4, <2>2, BoundAssumption
    <3> QED BY <3>1, FS_Interval
  <2>4. IsFiniteSet(Members(g)) /\ Cardinality(Members(g)) = Cardinality(I)
    <3> HIDE DEF f, Members
    <3>1. ExistsBijection(I, Members(g))
      BY <2>1 DEF ExistsBijection
    <3> QED BY <3>1, <2>3, FS_Bijection
  <2> QED BY <2>3, <2>4, <1>4
<1>10. \A g, h \in 1 .. count : g < h => Members(g) \cap Members(h) = {}
  <2> TAKE g, h \in 1 .. count
  <2> HAVE g < h
  <2>1. End(g) <= End(h - 1)
    BY <1>3, <1>4
  <2>2. ASSUME NEW i \in End(g - 1) + 1 .. End(g), NEW j \in End(h - 1) + 1 .. End(h)
        PROVE  Sorted(S)[i] # Sorted(S)[j]
    <3>1. i < j
      BY <2>1, <1>4
    <3>2. i \in 1 .. n /\ j \in 1 .. n
      BY <1>7
    <3> QED BY <3>1, <3>2, <1>6
  <2> QED BY <2>2
<1>11. \A x \in S : \E g \in 1 .. count : x \in Members(g)
  <2> TAKE x \in S
  <2>1. PICK i \in 1 .. n : Sorted(S)[i] = x
    BY <1>6
  <2> DEFINE reached == {g \in 1 .. count : i <= End(g)}
  <2>2. reached \in SUBSET Nat /\ count \in reached
    BY <1>1, <1>2, <1>3
  <2>3. PICK g \in reached : \A h \in reached : g <= h
    BY <2>2, LeastNumber
  <2>4. End(g - 1) < i
    <3>1. CASE g = 1
      BY <3>1, <1>3
    <3>2. CASE g # 1
      <4>1. g - 1 \in 1 .. count /\ g - 1 \notin reached
        BY <3>2, <2>3, <1>2
      <4> QED BY <4>1, <1>4, <1>1
    <3> QED BY <3>1, <3>2
  <2>5. i \in End(g - 1) + 1 .. End(g)
    BY <2>3, <2>4, <1>4
  <2> QED BY <2>1, <2>5
<1> HIDE DEF Members
<1>12. BalancedGroups(S) \in Seq(SUBSET S) /\ BalancedGroups(S) # <<>>
  BY <1>2, <1>5, <1>8
<1>13. S = UNION {BalancedGroups(S)[g] : g \in DOMAIN BalancedGroups(S)}
  BY <1>5, <1>8, <1>11
<1>14. \A g, h \in DOMAIN BalancedGroups(S) :
          g # h => BalancedGroups(S)[g] \cap BalancedGroups(S)[h] = {}
  <2>1. \A g, h \in 1 .. count : g # h => g < h \/ h < g
    BY <1>2
  <2> QED BY <2>1, <1>5, <1>10
<1> QED BY <1>5, <1>9, <1>12, <1>13, <1>14

-----------------------------------------------------------------------------
(* The highest level of a layer.                                             *)

\* A finite set of blocks has a bound on their levels: otherwise take a smallest
\* subset without one, and remove a member.
LEMMA LevelsBounded ==
    ASSUME NEW S, IsFiniteSet(S), \A b \in S : b.level \in Nat
    PROVE  \E m \in Nat : \A b \in S : b.level <= m
<1> DEFINE Bounded(T) == \E m \in Nat : \A b \in T : b.level <= m
           bad == {k \in Nat : \E T \in SUBSET S : Cardinality(T) = k /\ ~Bounded(T)}
<1> SUFFICES ASSUME ~Bounded(S) PROVE FALSE
  OBVIOUS
<1>1. bad \in SUBSET Nat /\ Cardinality(S) \in bad
  BY FS_CardinalityType
<1>2. PICK k \in bad : \A j \in bad : k <= j
  <2> HIDE DEF bad
  <2> QED BY <1>1, LeastNumber
<1>3. PICK T \in SUBSET S : Cardinality(T) = k /\ ~Bounded(T)
  BY <1>2
<1>4. PICK x \in T : TRUE
  BY <1>3
<1>5. IsFiniteSet(T) /\ k \in Nat
  BY <1>2, FS_Subset
<1>6. Cardinality(T \ {x}) = k - 1
  BY <1>3, <1>4, <1>5, FS_RemoveElement
<1>7. Cardinality(T \ {x}) \in Nat
  <2>1. IsFiniteSet(T \ {x})
    BY <1>5, FS_RemoveElement
  <2> QED BY <2>1, FS_CardinalityType
<1>8. k - 1 \in Nat /\ k - 1 \notin bad
  BY <1>2, <1>5, <1>6, <1>7
<1>9. Bounded(T \ {x})
  BY <1>6, <1>8
<1>10. PICK m \in Nat : \A b \in T \ {x} : b.level <= m
  BY <1>9
<1>11. PICK l \in Nat : m <= l /\ x.level <= l
  <2>1. x.level \in Nat
    BY <1>4
  <2>2. CASE m <= x.level
    BY <2>1, <2>2
  <2>3. CASE x.level <= m
    BY <2>1, <2>3
  <2> QED BY <2>1, <2>2, <2>3
<1>12. \A b \in T : b.level <= l
  BY <1>10, <1>11
<1> QED BY <1>3, <1>12

LEMMA HighestIsBound ==
    ASSUME NEW S, IsFiniteSet(S), S # {}, \A b \in S : b.level \in Nat
    PROVE  /\ HighestLevel(S) \in Nat /\ \A b \in S : b.level <= HighestLevel(S)
           /\ HighestLevel(S) \in {b.level : b \in S}
<1> DEFINE bounds == {m \in Nat : \A b \in S : b.level <= m}
<1>1. bounds \in SUBSET Nat /\ bounds # {}
  BY LevelsBounded
<1>2. PICK m \in bounds : \A k \in bounds : m <= k
  <2> HIDE DEF bounds
  <2> QED BY <1>1, LeastNumber
<1>3. m \in {b.level : b \in S}
  <2> SUFFICES ASSUME m \notin {b.level : b \in S} PROVE FALSE
    OBVIOUS
  <2>1. \A b \in S : b.level \in Nat /\ b.level <= m - 1
    BY <1>2
  <2>2. m - 1 \in Nat
    BY <2>1, <1>2
  <2> QED BY <2>1, <2>2, <1>2
<1>4. \E l \in {b.level : b \in S} : \A b \in S : b.level <= l
  BY <1>2, <1>3
<1>5. HighestLevel(S) \in {b.level : b \in S} /\ \A b \in S : b.level <= HighestLevel(S)
  BY <1>4 DEF HighestLevel
<1> QED BY <1>5

-----------------------------------------------------------------------------
(* The recursions.                                                           *)

\* Below, level by level.
BelowLevels(f, b) ==
    /\ f[0] = {b}
    /\ \A n \in Nat : f[n + 1] = f[n] \cup UNION {c.kids : c \in f[n]}

LEMMA BelowByLevels ==
    ASSUME NEW U, NEW b \in U, \A c \in U : c.kids \subseteq U
    PROVE  \E f : Below(b) = f[b.level] /\ BelowLevels(f, b)
<1> DEFINE F == [X \in SUBSET U |-> X \cup UNION {c.kids : c \in X}]
           G == CHOOSE g : g = [l \in Nat |-> IF l = 0 THEN {b}
                                              ELSE g[l - 1] \cup UNION {c.kids : c \in g[l - 1]}]
<1>1. F \in [SUBSET U -> SUBSET U] /\ {b} \in SUBSET U
  OBVIOUS
<1>2. PICK f \in [Nat -> SUBSET U] : f[0] = {b} /\ \A n \in Nat : f[n + 1] = F[f[n]]
  <2> HIDE DEF F
  <2>1. \E f \in [Nat -> SUBSET U] : Iterates(f, {b}, F)
    BY <1>1, IterationExists
  <2> QED BY <2>1 DEF Iterates
<1>3. \A n \in Nat : F[f[n]] = f[n] \cup UNION {c.kids : c \in f[n]}
  OBVIOUS
<1> HIDE DEF F
<1>4. \A l \in Nat : f[l] = IF l = 0 THEN {b} ELSE f[l - 1] \cup UNION {c.kids : c \in f[l - 1]}
  <2> TAKE l \in Nat
  <2>1. CASE l = 0
    BY <2>1, <1>2
  <2>2. CASE l # 0
    <3>1. l - 1 \in Nat /\ (l - 1) + 1 = l
      BY <2>2
    <3>2. f[l] = F[f[l - 1]]
      BY <3>1, <1>2
    <3> QED BY <2>2, <3>1, <3>2, <1>3
  <2> QED BY <2>1, <2>2
<1>5. f = [l \in Nat |-> IF l = 0 THEN {b} ELSE f[l - 1] \cup UNION {c.kids : c \in f[l - 1]}]
  BY <1>4
<1>6. G = [l \in Nat |-> IF l = 0 THEN {b} ELSE G[l - 1] \cup UNION {c.kids : c \in G[l - 1]}]
  BY <1>5
<1>7. Below(b) = G[b.level]
  BY DEF Below
<1> HIDE DEF G
<1>8. G[0] = {b}
  BY <1>6
<1>9. ASSUME NEW n \in Nat PROVE G[n + 1] = G[n] \cup UNION {c.kids : c \in G[n]}
  <2>1. n + 1 \in Nat /\ n + 1 # 0 /\ (n + 1) - 1 = n
    OBVIOUS
  <2> QED BY <2>1, <1>6
<1> QED BY <1>7, <1>8, <1>9 DEF BelowLevels

\* Visited, level by level.
VisitedLevels(f, root, parts) ==
    /\ Visited(root, parts) = UNION {f[k] : k \in 0 .. Cardinality(DOMAIN parts)}
    /\ f[0] = {root}
    /\ \A n \in Nat : f[n + 1] = UNION {Range(parts[p].children) : p \in f[n]}

LEMMA VisitedByLevels ==
    ASSUME NEW parts, NEW root \in DOMAIN parts,
           \A p \in DOMAIN parts : Range(parts[p].children) \subseteq DOMAIN parts
    PROVE  \E f \in [Nat -> SUBSET (DOMAIN parts)] : VisitedLevels(f, root, parts)
<1> DEFINE U == DOMAIN parts
           F == [X \in SUBSET U |-> UNION {Range(parts[p].children) : p \in X}]
           G == CHOOSE g : g = [k \in Nat |-> IF k = 0 THEN {root}
                                   ELSE UNION {Range(parts[p].children) : p \in g[k - 1]}]
<1>1. F \in [SUBSET U -> SUBSET U] /\ {root} \in SUBSET U
  OBVIOUS
<1>2. PICK f \in [Nat -> SUBSET U] : f[0] = {root} /\ \A n \in Nat : f[n + 1] = F[f[n]]
  <2> HIDE DEF F, U
  <2>1. \E f \in [Nat -> SUBSET U] : Iterates(f, {root}, F)
    BY <1>1, IterationExists
  <2> QED BY <2>1 DEF Iterates
<1>3. \A n \in Nat : F[f[n]] = UNION {Range(parts[p].children) : p \in f[n]}
  OBVIOUS
<1> HIDE DEF F
<1>4. \A l \in Nat : f[l] = IF l = 0 THEN {root}
                            ELSE UNION {Range(parts[p].children) : p \in f[l - 1]}
  <2> TAKE l \in Nat
  <2>1. CASE l = 0
    BY <2>1, <1>2
  <2>2. CASE l # 0
    <3>1. l - 1 \in Nat /\ (l - 1) + 1 = l
      BY <2>2
    <3>2. f[l] = F[f[l - 1]]
      BY <3>1, <1>2
    <3> QED BY <2>2, <3>1, <3>2, <1>3
  <2> QED BY <2>1, <2>2
<1>5. f = [l \in Nat |-> IF l = 0 THEN {root}
                         ELSE UNION {Range(parts[p].children) : p \in f[l - 1]}]
  BY <1>4
<1>6. G = [l \in Nat |-> IF l = 0 THEN {root}
                         ELSE UNION {Range(parts[p].children) : p \in G[l - 1]}]
  BY <1>5
<1>7. Visited(root, parts) = UNION {G[k] : k \in 0 .. Cardinality(DOMAIN parts)}
  BY DEF Visited
<1> HIDE DEF G
<1>8. G[0] = {root}
  BY <1>6
<1>9. ASSUME NEW n \in Nat PROVE G[n + 1] = UNION {Range(parts[p].children) : p \in G[n]}
  <2>1. n + 1 \in Nat /\ n + 1 # 0 /\ (n + 1) - 1 = n
    OBVIOUS
  <2> QED BY <2>1, <1>6
<1>10. \A n \in Nat : G[n] \in SUBSET U
  <2> DEFINE T == {n \in Nat : G[n] \in SUBSET U}
  <2>1. T \in SUBSET Nat /\ 0 \in T
    BY <1>8
  <2>2. ASSUME NEW n \in T PROVE n + 1 \in T
    <3>1. G[n + 1] = UNION {Range(parts[p].children) : p \in G[n]} /\ G[n] \in SUBSET U
      BY <1>9
    <3> QED BY <3>1
  <2>3. T = Nat
    <3> HIDE DEF T
    <3> QED BY <2>1, <2>2, AllNumbers
  <2> QED BY <2>3
<1>11. G \in [Nat -> SUBSET U]
  BY <1>6, <1>10
<1> QED BY <1>7, <1>8, <1>9, <1>11 DEF VisitedLevels

\* A set of partitions with the root and with each its children has all that
\* walk visits.
LEMMA ClosedHasVisited ==
    ASSUME NEW parts, NEW S \in SUBSET (DOMAIN parts), NEW root \in S,
           \A p \in DOMAIN parts : Range(parts[p].children) \subseteq DOMAIN parts,
           \A p \in S : Range(parts[p].children) \subseteq S
    PROVE  Visited(root, parts) \subseteq S
<1>1. PICK f \in [Nat -> SUBSET (DOMAIN parts)] :
              /\ Visited(root, parts) = UNION {f[k] : k \in 0 .. Cardinality(DOMAIN parts)}
              /\ f[0] = {root}
              /\ \A n \in Nat : f[n + 1] = UNION {Range(parts[p].children) : p \in f[n]}
  <2>1. \E f \in [Nat -> SUBSET (DOMAIN parts)] : VisitedLevels(f, root, parts)
    BY VisitedByLevels
  <2> QED BY <2>1 DEF VisitedLevels
<1> DEFINE T == {n \in Nat : f[n] \subseteq S}
<1>2. T \in SUBSET Nat /\ 0 \in T
  BY <1>1
<1>3. ASSUME NEW n \in T PROVE n + 1 \in T
  BY <1>1
<1>4. T = Nat
  <2> HIDE DEF T
  <2> QED BY <1>2, <1>3, AllNumbers
<1>5. \A k \in 0 .. Cardinality(DOMAIN parts) : k \in Nat
  OBVIOUS
<1> QED BY <1>1, <1>4, <1>5

\* Walk comes to a partition other than the root from a parent.
LEMMA VisitedHasParent ==
    ASSUME NEW parts, NEW root \in DOMAIN parts,
           \A p \in DOMAIN parts : Range(parts[p].children) \subseteq DOMAIN parts,
           NEW q \in Visited(root, parts), q # root
    PROVE  \E p \in DOMAIN parts : q \in Range(parts[p].children)
<1>1. PICK f \in [Nat -> SUBSET (DOMAIN parts)] :
              /\ Visited(root, parts) = UNION {f[k] : k \in 0 .. Cardinality(DOMAIN parts)}
              /\ f[0] = {root}
              /\ \A n \in Nat : f[n + 1] = UNION {Range(parts[p].children) : p \in f[n]}
  <2>1. \E f \in [Nat -> SUBSET (DOMAIN parts)] : VisitedLevels(f, root, parts)
    BY VisitedByLevels
  <2> QED BY <2>1 DEF VisitedLevels
<1>2. PICK k \in 0 .. Cardinality(DOMAIN parts) : q \in f[k]
  BY <1>1
<1>3. k \in Nat /\ k # 0
  BY <1>1, <1>2
<1>4. k - 1 \in Nat /\ (k - 1) + 1 = k
  BY <1>3
<1>5. f[k] = UNION {Range(parts[p].children) : p \in f[k - 1]}
  BY <1>1, <1>4
<1>6. PICK p \in f[k - 1] : q \in Range(parts[p].children)
  BY <1>2, <1>5
<1> QED BY <1>1, <1>4, <1>6

\* The blocks under the root of a forest in which every other block has a parent
\* are all of them: a block that is not, of the highest level, has a parent that
\* is, and the blocks under the root have with each its children.
THEOREM ForestIsBelow ==
    ASSUME NEW ids, NEW L, IsForest(ids, L), NEW root \in ids,
           \A b \in ids : b = root \/ \E c \in ids : b \in c.kids
    PROVE  Below(root) = ids
<1>1. /\ IsFiniteSet(ids)
      /\ \A b \in ids : /\ b.level \in Nat /\ b.kids \subseteq ids
                        /\ \A k \in b.kids : k.level < b.level
  BY DEF IsForest
<1>2. PICK f : /\ Below(root) = f[root.level]
               /\ f[0] = {root}
               /\ \A n \in Nat : f[n + 1] = f[n] \cup UNION {c.kids : c \in f[n]}
  <2>1. \E f : Below(root) = f[root.level] /\ BelowLevels(f, root)
    BY <1>1, BelowByLevels
  <2> QED BY <2>1 DEF BelowLevels
<1> DEFINE High(n) == \A x \in f[n] : /\ x \in ids
                                      /\ \E k \in 0 .. n : x \in f[k] /\ x.level + k <= root.level
           T == {n \in Nat : High(n)}
<1>3. T \in SUBSET Nat /\ 0 \in T
  BY <1>1, <1>2
<1>4. ASSUME NEW n \in T PROVE n + 1 \in T
  <2> SUFFICES ASSUME NEW x \in f[n + 1]
               PROVE  x \in ids /\ \E k \in 0 .. n + 1 : x \in f[k] /\ x.level + k <= root.level
    OBVIOUS
  <2>1. CASE x \in f[n]
    BY <2>1
  <2>2. ASSUME NEW c \in f[n], x \in c.kids
        PROVE  x \in ids /\ \E k \in 0 .. n + 1 : x \in f[k] /\ x.level + k <= root.level
    <3>1. c \in ids
      OBVIOUS
    <3>2. PICK k \in 0 .. n : c \in f[k] /\ c.level + k <= root.level
      OBVIOUS
    <3>3. x \in ids /\ x.level < c.level /\ x.level \in Nat /\ c.level \in Nat /\ root.level \in Nat
      BY <3>1, <2>2, <1>1
    <3>4. x \in f[k + 1]
      <4>1. k \in Nat
        BY <3>2
      <4>2. f[k + 1] = f[k] \cup UNION {d.kids : d \in f[k]}
        BY ONLY <4>1, <1>2
      <4> QED BY ONLY <4>2, <3>2, <2>2
    <3>5. k + 1 \in 0 .. n + 1 /\ x.level + (k + 1) <= root.level
      BY <3>2, <3>3
    <3> QED BY <3>3, <3>4, <3>5
  <2> QED BY <2>1, <2>2, <1>2
<1>5. T = Nat
  <2> HIDE DEF T
  <2> QED BY <1>3, <1>4, AllNumbers
<1> DEFINE Grows(n) == \A k \in 0 .. n : f[k] \subseteq f[n]
           W == {n \in Nat : Grows(n)}
<1>6. W \in SUBSET Nat /\ 0 \in W
  OBVIOUS
<1>7. ASSUME NEW n \in W PROVE n + 1 \in W
  <2>1. f[n] \subseteq f[n + 1]
    BY <1>2
  <2>2. \A k \in 0 .. n + 1 : k \in 0 .. n \/ k = n + 1
    OBVIOUS
  <2> QED BY <2>1, <2>2
<1>8. W = Nat
  <2> HIDE DEF W
  <2> QED BY <1>6, <1>7, AllNumbers
<1>9. Below(root) \subseteq ids
  BY <1>1, <1>2, <1>5
<1>10. ASSUME NEW x \in Below(root) PROVE x.kids \subseteq Below(root)
  <2> SUFFICES ASSUME NEW y \in x.kids PROVE y \in Below(root)
    OBVIOUS
  <2>1. root.level \in Nat /\ x \in f[root.level] /\ root.level \in T
    BY <1>1, <1>2, <1>5
  <2>2. PICK k \in 0 .. root.level : x \in f[k] /\ x.level + k <= root.level
    BY <2>1
  <2>3. x \in ids
    BY <1>9
  <2>4. x.level \in Nat /\ y.level \in Nat /\ y.level < x.level
    BY <2>3, <1>1
  <2>5. k + 1 \in 0 .. root.level /\ k \in Nat
    BY <2>1, <2>2, <2>4
  <2>6. y \in f[k + 1]
    BY <2>2, <2>5, <1>2
  <2>7. f[k + 1] \subseteq f[root.level]
    BY <2>1, <2>5, <1>8
  <2> QED BY <2>6, <2>7, <1>2
<1>11. root \in Below(root)
  <2>1. root.level \in Nat
    BY <1>1
  <2>2. f[0] \subseteq f[root.level]
    BY <2>1, <1>8
  <2> QED BY <2>2, <1>2
<1> DEFINE lost == ids \ Below(root)
<1>12. lost = {}
  <2> SUFFICES ASSUME lost # {} PROVE FALSE
    OBVIOUS
  <2>1. IsFiniteSet(lost) /\ \A b \in lost : b.level \in Nat
    BY <1>1, FS_Subset
  <2>2. HighestLevel(lost) \in {b.level : b \in lost} /\ \A b \in lost : b.level <= HighestLevel(lost)
    <3> HIDE DEF lost
    <3> QED BY <2>1, HighestIsBound
  <2>3. PICK b \in lost : \A c \in lost : c.level <= b.level
    BY <2>2
  <2>4. PICK c \in ids : b \in c.kids
    BY <2>3, <1>11
  <2>5. c \notin lost
    BY <2>3, <2>4, <1>1
  <2> QED BY <2>4, <2>5, <1>10
<1> QED BY <1>9, <1>12

-----------------------------------------------------------------------------
(* The assembly of the partitions.                                           *)

\* What validation makes sure of: children are partitions, and a terminal
\* partition has none.
SoundParts(parts) ==
    \A p \in DOMAIN parts : /\ Range(parts[p].children) \subseteq DOMAIN parts
                            /\ parts[p].terminal => Range(parts[p].children) = {}

\* The facts about an assembly one by one.
LEMMA AssemblyFacts ==
    ASSUME NEW a, NEW parts, NEW L, AssemblyInv(a, parts, L)
    PROVE  /\ IsForest(a.ids, L)
           /\ DOMAIN a = {"spill", "built", "open", "groups", "top", "layer", "ids"}
           /\ a.spill \in [Terminals(parts) -> Seq(a.ids)]
           /\ DOMAIN a.built \subseteq DOMAIN parts /\ IsFiniteSet(DOMAIN a.built)
           /\ \A q \in DOMAIN a.built : a.built[q] \in a.ids
           /\ a.open \subseteq DOMAIN parts \ DOMAIN a.built
           /\ \A p, q \in a.open : p = q
           /\ \A p \in DOMAIN a.built \cup a.open : Range(parts[p].children) \subseteq DOMAIN a.built
           /\ IsFiniteSet(a.layer) /\ a.layer \subseteq a.ids
           /\ a.open = {} => a.layer = {} /\ a.groups = <<>>
           /\ GroupsReady(a) /\ NoneLeftBehind(a, parts)
BY DEF AssemblyInv, InHand

\* Nothing is in hand at first.
LEMMA NothingBuiltKeeps ==
    ASSUME NEW parts
    PROVE  /\ AssemblyInv(NothingBuilt(parts), parts, {})
           /\ DOMAIN NothingBuilt(parts).built = {} /\ NothingBuilt(parts).open = {}
           /\ NothingBuilt(parts).ids = {}
<1> DEFINE a == NothingBuilt(parts)
<1>1. /\ DOMAIN a = {"spill", "built", "open", "groups", "top", "layer", "ids"}
      /\ a.spill = [t \in Terminals(parts) |-> <<>>] /\ a.built = <<>> /\ a.open = {}
      /\ a.groups = <<>> /\ a.top = 0 /\ a.layer = {} /\ a.ids = {}
  BY DEF NothingBuilt
<1> HIDE DEF a
<1>2. DOMAIN a.built = {} /\ DOMAIN a.groups = {}
  BY <1>1
<1>3. IsFiniteSet({})
  BY FS_EmptySet
<1>4. IsForest(a.ids, {})
  BY <1>1, <1>3 DEF IsForest
<1>5. a.spill \in [Terminals(parts) -> Seq(a.ids)] /\ a.groups \in Seq(SUBSET a.ids)
  BY <1>1
<1>6. InHand(a, parts)
  BY <1>1, <1>2, <1>3, <1>5 DEF InHand
<1>7. GroupsReady(a) /\ NoneLeftBehind(a, parts)
  BY <1>1, <1>2, <1>5 DEF GroupsReady, NoneLeftBehind
<1> QED BY <1>1, <1>2, <1>4, <1>6, <1>7 DEF AssemblyInv, a

\* A leaf is spilled before any partition is opened.
LEMMA SpilledKeeps ==
    ASSUME NEW a, NEW parts, NEW L, AssemblyInv(a, parts, L),
           DOMAIN a.built = {}, a.open = {},
           NEW t \in Terminals(parts), NEW leaf, leaf.level = 0, leaf.kids = {}
    PROVE  LET n == Spilled(a, t, leaf) IN
           /\ AssemblyInv(n, parts, L \cup {leaf})
           /\ DOMAIN n.built = {} /\ n.open = {} /\ n.ids = a.ids \cup {leaf}
<1> DEFINE n == Spilled(a, t, leaf)
<1>1. /\ DOMAIN a = {"spill", "built", "open", "groups", "top", "layer", "ids"}
      /\ IsForest(a.ids, L) /\ GroupsReady(a) /\ NoneLeftBehind(a, parts)
      /\ a.spill \in [Terminals(parts) -> Seq(a.ids)]
      /\ a.layer = {} /\ a.groups = <<>>
  BY AssemblyFacts
<1>2. /\ DOMAIN n = DOMAIN a
      /\ n.ids = a.ids \cup {leaf} /\ n.built = a.built /\ n.open = a.open
      /\ n.groups = a.groups /\ n.top = a.top /\ n.layer = a.layer
      /\ n.spill = [a.spill EXCEPT ![t] = Append(@, leaf)]
  BY <1>1 DEF Spilled
<1> HIDE DEF n
<1>3. IsForest(n.ids, L \cup {leaf})
  <2>1. IsFiniteSet(n.ids)
    <3>1. IsFiniteSet(a.ids)
      BY <1>1 DEF IsForest
    <3>2. IsFiniteSet(a.ids \cup {leaf})
      BY <3>1, FS_AddElement
    <3> QED BY <3>2, <1>2
  <2> QED BY <2>1, <1>1, <1>2 DEF IsForest
<1>4. \A u \in Terminals(parts) :
         /\ n.spill[u] \in Seq(n.ids)
         /\ Range(a.spill[u]) \subseteq Range(n.spill[u])
         /\ u = t => leaf \in Range(n.spill[u])
  <2> TAKE u \in Terminals(parts)
  <2>1. a.spill[u] \in Seq(n.ids) /\ leaf \in n.ids
    <3>1. a.spill[u] \in Seq(a.ids)
      BY <1>1
    <3> QED BY <3>1, <1>2
  <2>2. CASE u = t
    <3> DEFINE s == a.spill[t]
    <3>1. n.spill[u] = Append(s, leaf) /\ s \in Seq(n.ids)
      BY <2>1, <2>2, <1>1, <1>2
    <3> HIDE DEF s
    <3>2. /\ Append(s, leaf) \in Seq(n.ids) /\ DOMAIN Append(s, leaf) = 1 .. Len(s) + 1
          /\ Append(s, leaf)[Len(s) + 1] = leaf
          /\ \A i \in DOMAIN s : i \in 1 .. Len(s) + 1 /\ Append(s, leaf)[i] = s[i]
      BY ONLY <3>1, <2>1
    <3>3. Len(s) + 1 \in 1 .. Len(s) + 1
      BY ONLY <3>1
    <3>4. leaf \in Range(Append(s, leaf)) /\ Range(s) \subseteq Range(Append(s, leaf))
      BY ONLY <3>2, <3>3 DEF Range
    <3> QED BY <3>1, <3>2, <3>4, <2>2 DEF s
  <2>3. CASE u # t
    BY <2>1, <2>3, <1>1, <1>2
  <2> QED BY <2>2, <2>3
<1>5. n.spill \in [Terminals(parts) -> Seq(n.ids)]
  BY <1>1, <1>2, <1>4
<1>6. DOMAIN n.built = {} /\ n.open = {}
  BY <1>2
<1>7. InHand(n, parts)
  BY <1>1, <1>2, <1>5, <1>6, FS_EmptySet DEF InHand
<1>8. GroupsReady(n)
  <2>1. n.groups \in Seq(SUBSET n.ids) /\ DOMAIN n.groups = {}
    BY <1>1, <1>2
  <2> QED BY <2>1, <1>1, <1>2 DEF GroupsReady
<1>9. NoneLeftBehind(n, parts)
  <2> SUFFICES ASSUME NEW b \in n.ids
               PROVE  \/ \E c \in n.ids : b \in c.kids
                      \/ \E u \in Terminals(parts) \ (DOMAIN n.built \cup n.open) : b \in Range(n.spill[u])
    BY DEF NoneLeftBehind
  <2>1. CASE b = leaf
    BY <2>1, <1>4, <1>6
  <2>2. CASE b \in a.ids
    <3>1. DOMAIN a.groups = {}
      BY <1>1
    <3>2. \/ \E c \in a.ids : b \in c.kids
          \/ \E u \in Terminals(parts) \ (DOMAIN a.built \cup a.open) : b \in Range(a.spill[u])
      BY <2>2, <3>1, <1>1 DEF NoneLeftBehind
    <3> QED BY <3>2, <1>2, <1>4, <1>6
  <2> QED BY <2>1, <2>2, <1>2
<1> QED BY <1>2, <1>3, <1>6, <1>7, <1>8, <1>9 DEF AssemblyInv, n

\* The children of a partition that is ready are in hand, and finitely many.
LEMMA ChildSetHeld ==
    ASSUME NEW a, NEW parts, NEW L, AssemblyInv(a, parts, L), NEW p, Ready(a, parts, p)
    PROVE  IsFiniteSet(ChildSet(a, parts, p)) /\ ChildSet(a, parts, p) \subseteq a.ids
<1>1. /\ a.spill \in [Terminals(parts) -> Seq(a.ids)] /\ IsFiniteSet(DOMAIN a.built)
      /\ \A q \in DOMAIN a.built : a.built[q] \in a.ids
  BY AssemblyFacts
<1>2. CASE parts[p].terminal
  <2> DEFINE s == a.spill[p]
  <2>1. s \in Seq(a.ids)
    BY <1>1, <1>2 DEF Terminals, Ready
  <2>2. ChildSet(a, parts, p) = Range(s)
    BY <1>2 DEF ChildSet
  <2>3. s \in Surjection(1 .. Len(s), Range(s)) /\ Len(s) \in Nat
    BY <2>1 DEF Surjection, Range
  <2>4. IsFiniteSet(1 .. Len(s))
    BY <2>3, FS_Interval
  <2>5. IsFiniteSet(Range(s))
    BY <2>3, <2>4, FS_Surjection
  <2>6. Range(s) \subseteq a.ids
    BY <2>1 DEF Range
  <2> QED BY <2>2, <2>5, <2>6
<1>3. CASE ~parts[p].terminal
  <2> DEFINE kids == Range(parts[p].children)
             f    == [k \in kids |-> a.built[k]]
  <2>1. kids \in SUBSET (DOMAIN a.built)
    BY <1>3 DEF Ready, Terminals
  <2>2. ChildSet(a, parts, p) = {a.built[k] : k \in kids}
    BY <1>3 DEF ChildSet
  <2>3. IsFiniteSet(kids)
    <3> HIDE DEF kids
    <3> QED BY <2>1, <1>1, FS_Subset
  <2>4. f \in Surjection(kids, ChildSet(a, parts, p))
    BY <2>2 DEF Surjection
  <2>5. IsFiniteSet(ChildSet(a, parts, p))
    <3> HIDE DEF f, kids
    <3> QED BY <2>3, <2>4, FS_Surjection
  <2> QED BY <2>1, <2>2, <2>5, <1>1
<1> QED BY <1>2, <1>3

\* The leaves or blocks of a partition that is opened are the layer at work.
LEMMA OpenedKeeps ==
    ASSUME NEW a, NEW parts, NEW L, AssemblyInv(a, parts, L), SoundParts(parts),
           NEW p, Ready(a, parts, p)
    PROVE  LET n == PartitionOpened(a, parts, p) IN AssemblyInv(n, parts, L) /\ n.ids = a.ids
<1> DEFINE n == PartitionOpened(a, parts, p)
<1>1. /\ DOMAIN a = {"spill", "built", "open", "groups", "top", "layer", "ids"}
      /\ IsForest(a.ids, L) /\ GroupsReady(a) /\ NoneLeftBehind(a, parts)
      /\ a.spill \in [Terminals(parts) -> Seq(a.ids)]
      /\ DOMAIN a.built \subseteq DOMAIN parts /\ IsFiniteSet(DOMAIN a.built)
      /\ \A q \in DOMAIN a.built : a.built[q] \in a.ids
      /\ \A q \in DOMAIN a.built : Range(parts[q].children) \subseteq DOMAIN a.built
  BY AssemblyFacts
<1>2. /\ a.open = {} /\ p \in DOMAIN parts \ DOMAIN a.built
      /\ ~parts[p].terminal => Range(parts[p].children) \subseteq DOMAIN a.built
  BY DEF Ready, Terminals
<1>3. a.layer = {} /\ a.groups = <<>>
  BY <1>2, AssemblyFacts
<1>4. /\ DOMAIN n = DOMAIN a
      /\ n.ids = a.ids /\ n.built = a.built /\ n.open = {p} /\ n.spill = a.spill
      /\ n.groups = a.groups /\ n.top = a.top /\ n.layer = ChildSet(a, parts, p)
  BY <1>1 DEF PartitionOpened
<1>5. IsFiniteSet(ChildSet(a, parts, p)) /\ ChildSet(a, parts, p) \subseteq a.ids
  BY ChildSetHeld
<1> HIDE DEF n
<1>6. Range(parts[p].children) \subseteq DOMAIN a.built
  BY <1>2 DEF SoundParts
<1>7. InHand(n, parts)
  BY <1>1, <1>2, <1>4, <1>5, <1>6 DEF InHand
<1>8. GroupsReady(n)
  BY <1>1, <1>4 DEF GroupsReady
<1>9. NoneLeftBehind(n, parts)
  <2> SUFFICES ASSUME NEW b \in a.ids
               PROVE  \/ \E c \in n.ids : b \in c.kids
                      \/ \E t \in Terminals(parts) \ (DOMAIN n.built \cup n.open) : b \in Range(n.spill[t])
                      \/ \E q \in DOMAIN n.built :
                            /\ b = n.built[q]
                            /\ \A r \in DOMAIN n.built \cup n.open : q \notin Range(parts[r].children)
                      \/ b \in n.layer
    BY <1>4 DEF NoneLeftBehind
  <2>1. \/ \E c \in a.ids : b \in c.kids
        \/ \E t \in Terminals(parts) \ DOMAIN a.built : b \in Range(a.spill[t])
        \/ \E q \in DOMAIN a.built :
              /\ b = a.built[q]
              /\ \A r \in DOMAIN a.built : q \notin Range(parts[r].children)
    <3>1. DOMAIN a.groups = {}
      BY <1>3
    <3> QED BY <3>1, <1>1, <1>2, <1>3 DEF NoneLeftBehind
  <2>2. ASSUME NEW t \in Terminals(parts) \ DOMAIN a.built, b \in Range(a.spill[t]), t = p
        PROVE  b \in n.layer
    BY <2>2, <1>4 DEF ChildSet, Terminals
  <2>3. ASSUME NEW q \in DOMAIN a.built, b = a.built[q], q \in Range(parts[p].children)
        PROVE  b \in n.layer
    <3>1. ~parts[p].terminal
      BY <2>3, <1>2 DEF SoundParts
    <3> QED BY <3>1, <2>3, <1>4 DEF ChildSet
  <2> QED BY <2>1, <2>2, <2>3, <1>4
<1> QED BY <1>1, <1>4, <1>7, <1>8, <1>9 DEF AssemblyInv, n

\* The one block of the last layer stands for the partition, which no partition
\* that is done has as a child.
LEMMA ClosedKeeps ==
    ASSUME NEW a, NEW parts, NEW L, AssemblyInv(a, parts, L),
           BetweenLayers(a), Cardinality(a.layer) = 1
    PROVE  LET n == PartitionClosed(a) IN AssemblyInv(n, parts, L) /\ n.ids = a.ids
<1> DEFINE n == PartitionClosed(a)
           one == CHOOSE b \in a.layer : TRUE
<1>1. /\ DOMAIN a = {"spill", "built", "open", "groups", "top", "layer", "ids"}
      /\ IsForest(a.ids, L) /\ GroupsReady(a) /\ NoneLeftBehind(a, parts)
      /\ a.spill \in [Terminals(parts) -> Seq(a.ids)]
      /\ DOMAIN a.built \subseteq DOMAIN parts /\ IsFiniteSet(DOMAIN a.built)
      /\ \A q \in DOMAIN a.built : a.built[q] \in a.ids
      /\ a.open \subseteq DOMAIN parts \ DOMAIN a.built
      /\ \A q \in DOMAIN a.built \cup a.open : Range(parts[q].children) \subseteq DOMAIN a.built
      /\ IsFiniteSet(a.layer) /\ a.layer \subseteq a.ids
  BY AssemblyFacts
<1>2. PICK p : a.open = {p}
  <2>1. a.open # {} /\ \A q, r \in a.open : q = r
    BY AssemblyFacts DEF BetweenLayers
  <2> QED BY <2>1
<1>3. a.groups = <<>>
  BY DEF BetweenLayers
<1>4. /\ DOMAIN n = DOMAIN a
      /\ n.ids = a.ids /\ n.open = {} /\ n.spill = a.spill
      /\ n.groups = a.groups /\ n.top = a.top /\ n.layer = {}
      /\ n.built = [q \in DOMAIN a.built \cup a.open |-> IF q \in a.open THEN one ELSE a.built[q]]
  BY <1>1 DEF PartitionClosed
<1>5. a.layer = {one}
  BY <1>1, FS_Singleton
<1> HIDE DEF n, one
<1>6. /\ DOMAIN n.built = DOMAIN a.built \cup a.open
      /\ n.built[p] = one /\ p \notin DOMAIN a.built /\ p \in DOMAIN parts
      /\ \A q \in DOMAIN a.built : n.built[q] = a.built[q]
  BY <1>1, <1>2, <1>4
<1>7. InHand(n, parts)
  <2>1. IsFiniteSet(DOMAIN n.built)
    BY <1>1, <1>2, <1>6, FS_AddElement
  <2>2. \A q \in DOMAIN n.built : n.built[q] \in a.ids
    BY <1>1, <1>2, <1>5, <1>6
  <2>3. \A q \in DOMAIN n.built : Range(parts[q].children) \subseteq DOMAIN n.built
    BY <1>1, <1>6
  <2>4. DOMAIN n.built \subseteq DOMAIN parts
    BY <1>1, <1>6
  <2> QED BY <2>1, <2>2, <2>3, <2>4, <1>1, <1>3, <1>4, FS_EmptySet DEF InHand
<1>8. GroupsReady(n)
  BY <1>1, <1>4 DEF GroupsReady
<1>9. NoneLeftBehind(n, parts)
  <2> SUFFICES ASSUME NEW b \in a.ids
               PROVE  \/ \E c \in n.ids : b \in c.kids
                      \/ \E t \in Terminals(parts) \ (DOMAIN n.built \cup n.open) : b \in Range(n.spill[t])
                      \/ \E q \in DOMAIN n.built :
                            /\ b = n.built[q]
                            /\ \A r \in DOMAIN n.built \cup n.open : q \notin Range(parts[r].children)
    <3>1. n.ids = a.ids
      BY <1>4
    <3> QED BY <3>1 DEF NoneLeftBehind
  <2>1. \/ \E c \in a.ids : b \in c.kids
        \/ \E t \in Terminals(parts) \ (DOMAIN a.built \cup a.open) : b \in Range(a.spill[t])
        \/ \E q \in DOMAIN a.built :
              /\ b = a.built[q]
              /\ \A r \in DOMAIN a.built \cup a.open : q \notin Range(parts[r].children)
        \/ b \in a.layer
    <3>1. DOMAIN a.groups = {}
      BY <1>3
    <3> QED BY <3>1, <1>1 DEF NoneLeftBehind
  <2>2. DOMAIN n.built \cup n.open = DOMAIN a.built \cup a.open
    BY <1>4, <1>6
  <2>3. CASE b \in a.layer
    <3>1. b = n.built[p] /\ p \in DOMAIN n.built
      BY <2>3, <1>2, <1>5, <1>6
    <3>2. \A r \in DOMAIN n.built \cup n.open : p \notin Range(parts[r].children)
      BY <2>2, <1>1, <1>6
    <3> QED BY <3>1, <3>2
  <2> QED BY <2>1, <2>2, <2>3, <1>4, <1>6
<1> QED BY <1>1, <1>4, <1>7, <1>8, <1>9 DEF AssemblyInv, n

\* A layer is split into groups that have all of it.
LEMMA GroupedKeeps ==
    ASSUME NEW a, NEW parts, NEW L, AssemblyInv(a, parts, L),
           BetweenLayers(a), LayerSplits(a)
    PROVE  LET n == LayerGrouped(a) IN AssemblyInv(n, parts, L) /\ n.ids = a.ids
<1> DEFINE n == LayerGrouped(a)
           groups == BalancedGroups(a.layer)
           top    == HighestLevel(a.layer)
<1>1. /\ DOMAIN a = {"spill", "built", "open", "groups", "top", "layer", "ids"}
      /\ IsForest(a.ids, L) /\ InHand(a, parts) /\ NoneLeftBehind(a, parts)
      /\ IsFiniteSet(a.layer) /\ a.layer \subseteq a.ids
  BY AssemblyFacts DEF AssemblyInv
<1>2. a.open # {} /\ a.groups = <<>> /\ Cardinality(a.layer) > 1 /\ Splittable(Cardinality(a.layer))
  BY DEF BetweenLayers, LayerSplits
<1>3. /\ groups \in Seq(SUBSET a.layer)
      /\ a.layer = UNION {groups[g] : g \in DOMAIN groups}
      /\ \A g \in DOMAIN groups : Cardinality(groups[g]) \in 2 .. Bound
  BY <1>1, <1>2, GroupsPartition
<1>4. top \in Nat /\ \A b \in a.layer : b.level <= top
  <2>1. a.layer # {}
    BY <1>2, FS_EmptySet
  <2>2. \A b \in a.layer : b.level \in Nat
    BY <1>1 DEF IsForest
  <2> QED BY <2>1, <2>2, <1>1, HighestIsBound
<1>5. /\ DOMAIN n = DOMAIN a
      /\ n.ids = a.ids /\ n.built = a.built /\ n.open = a.open /\ n.spill = a.spill
      /\ n.groups = groups /\ n.top = top /\ n.layer = {}
  BY <1>1 DEF LayerGrouped
<1> HIDE DEF n, groups, top
<1>6. GroupsReady(n)
  <2>1. groups \in Seq(SUBSET a.ids)
    BY <1>1, <1>3
  <2>2. \A g \in DOMAIN groups : \A b \in groups[g] : b.level <= top
    BY <1>3, <1>4
  <2> QED BY <2>1, <2>2, <1>3, <1>4, <1>5 DEF GroupsReady
<1>7. InHand(n, parts)
  BY <1>1, <1>2, <1>5, FS_EmptySet DEF InHand
<1>8. NoneLeftBehind(n, parts)
  <2>1. DOMAIN a.groups = {}
    BY <1>2
  <2>2. \A b \in a.layer : \E g \in DOMAIN n.groups : b \in n.groups[g]
    BY <1>3, <1>5
  <2> QED BY <2>1, <2>2, <1>1, <1>5 DEF NoneLeftBehind
<1> QED BY <1>1, <1>5, <1>6, <1>7, <1>8 DEF AssemblyInv, n

\* The next branch: its children are in hand and below it.
LEMMA NextBranchFits ==
    ASSUME NEW a, NEW parts, NEW L, AssemblyInv(a, parts, L), a.groups # <<>>
    PROVE  /\ NextBranch(a).level \in Nat \ {0} /\ NextBranch(a).kids \subseteq a.ids
           /\ NextBranch(a).kids = a.groups[1] /\ 1 \in DOMAIN a.groups
           /\ Cardinality(NextBranch(a).kids) \in 2 .. Bound
           /\ \A k \in NextBranch(a).kids : k.level < NextBranch(a).level
<1>1. /\ a.top \in Nat /\ a.groups \in Seq(SUBSET a.ids) /\ IsForest(a.ids, L)
      /\ \A g \in DOMAIN a.groups : /\ Cardinality(a.groups[g]) \in 2 .. Bound
                                    /\ \A b \in a.groups[g] : b.level <= a.top
  BY AssemblyFacts DEF GroupsReady
<1>2. 1 \in DOMAIN a.groups /\ Head(a.groups) = a.groups[1] /\ a.groups[1] \subseteq a.ids
  BY <1>1
<1>3. NextBranch(a).level = a.top + 1 /\ NextBranch(a).kids = a.groups[1]
  BY <1>2 DEF NextBranch, Branch
<1>4. \A k \in a.groups[1] : k.level \in Nat /\ k.level <= a.top
  BY <1>1, <1>2 DEF IsForest
<1> QED BY <1>1, <1>2, <1>3, <1>4

\* The branch of a group takes the place of its members.
LEMMA BranchPutKeeps ==
    ASSUME NEW a, NEW parts, NEW L, AssemblyInv(a, parts, L), a.groups # <<>>
    PROVE  LET n == BranchPut(a) IN
           AssemblyInv(n, parts, L) /\ n.ids = a.ids \cup {NextBranch(a)}
<1> DEFINE n == BranchPut(a)
           branch == NextBranch(a)
<1>1. /\ DOMAIN a = {"spill", "built", "open", "groups", "top", "layer", "ids"}
      /\ IsForest(a.ids, L) /\ InHand(a, parts) /\ GroupsReady(a) /\ NoneLeftBehind(a, parts)
      /\ a.spill \in [Terminals(parts) -> Seq(a.ids)]
      /\ IsFiniteSet(a.layer) /\ a.layer \subseteq a.ids /\ a.open # {}
  BY AssemblyFacts DEF AssemblyInv
<1>2. /\ branch.level \in Nat \ {0} /\ branch.kids \subseteq a.ids
      /\ branch.kids = a.groups[1] /\ 1 \in DOMAIN a.groups
      /\ Cardinality(branch.kids) \in 2 .. Bound
      /\ \A k \in branch.kids : k.level < branch.level
  BY NextBranchFits
<1>3. /\ DOMAIN n = DOMAIN a
      /\ n.ids = a.ids \cup {branch} /\ n.built = a.built /\ n.open = a.open /\ n.spill = a.spill
      /\ n.groups = Tail(a.groups) /\ n.top = a.top /\ n.layer = a.layer \cup {branch}
  BY <1>1 DEF BranchPut
<1> HIDE DEF n, branch
<1>4. IsForest(n.ids, L)
  <2>1. IsFiniteSet(n.ids)
    <3>1. IsFiniteSet(a.ids)
      BY <1>1 DEF IsForest
    <3>2. IsFiniteSet(a.ids \cup {branch})
      BY <3>1, FS_AddElement
    <3> QED BY <3>2, <1>3
  <2>2. branch.level # 0
    BY <1>2
  <2> QED BY <2>1, <2>2, <1>1, <1>2, <1>3 DEF IsForest
<1>5. InHand(n, parts)
  <2>1. n.spill \in [Terminals(parts) -> Seq(n.ids)]
    <3>1. \A t \in Terminals(parts) : a.spill[t] \in Seq(n.ids)
      <4> TAKE t \in Terminals(parts)
      <4>1. a.spill[t] \in Seq(a.ids)
        BY <1>1
      <4> QED BY <4>1, <1>3
    <3> QED BY <3>1, <1>1, <1>3
  <2>2. IsFiniteSet(n.layer)
    BY <1>1, <1>3, FS_AddElement
  <2> QED BY <2>1, <2>2, <1>1, <1>3 DEF InHand
<1>6. a.groups \in Seq(SUBSET n.ids)
  BY <1>1, <1>3 DEF GroupsReady
<1>7. /\ Tail(a.groups) \in Seq(SUBSET n.ids)
      /\ \A g \in DOMAIN Tail(a.groups) :
            g + 1 \in DOMAIN a.groups /\ Tail(a.groups)[g] = a.groups[g + 1]
      /\ \A g \in DOMAIN a.groups : g = 1 \/ (g - 1 \in DOMAIN Tail(a.groups)
                                               /\ Tail(a.groups)[g - 1] = a.groups[g])
  <2> DEFINE s == a.groups
  <2>1. s \in Seq(SUBSET n.ids) /\ s # <<>>
    BY <1>6
  <2> HIDE DEF s
  <2>2. /\ Tail(s) \in Seq(SUBSET n.ids) /\ Len(Tail(s)) = Len(s) - 1 /\ Len(s) \in Nat
        /\ DOMAIN s = 1 .. Len(s) /\ DOMAIN Tail(s) = 1 .. Len(s) - 1
        /\ \A i \in 1 .. Len(s) - 1 : Tail(s)[i] = s[i + 1]
    BY ONLY <2>1
  <2>3. \A g \in DOMAIN Tail(s) : g + 1 \in DOMAIN s /\ Tail(s)[g] = s[g + 1]
    BY ONLY <2>2
  <2>4. ASSUME NEW g \in DOMAIN s, g # 1
        PROVE  g - 1 \in DOMAIN Tail(s) /\ Tail(s)[g - 1] = s[g]
    <3>1. g - 1 \in 1 .. Len(s) - 1 /\ (g - 1) + 1 = g
      BY ONLY <2>2, <2>4
    <3>2. Tail(s)[g - 1] = s[(g - 1) + 1]
      BY ONLY <2>2, <3>1
    <3> QED BY <3>1, <3>2, <2>2
  <2> QED BY <2>2, <2>3, <2>4 DEF s
<1>8. GroupsReady(n)
  BY <1>1, <1>3, <1>7 DEF GroupsReady
<1>9. NoneLeftBehind(n, parts)
  <2> SUFFICES ASSUME NEW b \in a.ids
               PROVE  \/ \E c \in n.ids : b \in c.kids
                      \/ \E t \in Terminals(parts) \ (DOMAIN n.built \cup n.open) : b \in Range(n.spill[t])
                      \/ \E q \in DOMAIN n.built :
                            /\ b = n.built[q]
                            /\ \A r \in DOMAIN n.built \cup n.open : q \notin Range(parts[r].children)
                      \/ b \in n.layer
                      \/ \E g \in DOMAIN n.groups : b \in n.groups[g]
    BY <1>3 DEF NoneLeftBehind
  <2>1. ASSUME NEW g \in DOMAIN a.groups, b \in a.groups[g]
        PROVE  (\E c \in n.ids : b \in c.kids) \/ \E h \in DOMAIN n.groups : b \in n.groups[h]
    BY <2>1, <1>2, <1>3, <1>7
  <2> QED BY <2>1, <1>1, <1>3 DEF NoneLeftBehind
<1> QED BY <1>3, <1>4, <1>5, <1>8, <1>9 DEF AssemblyInv, n, branch

\* finalize ends when the root partition has its block.  All partitions are done
\* by then, as walk found them all below the root; so no block but that of the
\* root is without a parent, and block_ids are the blocks below it.
THEOREM AssemblyExact ==
    ASSUME NEW a, NEW parts, NEW L, AssemblyInv(a, parts, L), SoundParts(parts),
           a.open = {}, NEW root \in DOMAIN a.built, Visited(root, parts) = DOMAIN parts,
           \A b \in L : b.level = 0
    PROVE  IsIndexOf(a.built[root], a.ids, {b.item : b \in L})
<1>1. /\ IsForest(a.ids, L) /\ NoneLeftBehind(a, parts)
      /\ DOMAIN a.built \subseteq DOMAIN parts
      /\ \A q \in DOMAIN a.built : a.built[q] \in a.ids
      /\ \A q \in DOMAIN a.built : Range(parts[q].children) \subseteq DOMAIN a.built
      /\ a.layer = {} /\ a.groups = <<>>
  BY AssemblyFacts
<1>2. \A p \in DOMAIN parts : Range(parts[p].children) \subseteq DOMAIN parts
  BY DEF SoundParts
<1>3. DOMAIN a.built = DOMAIN parts
  <2>1. Visited(root, parts) \subseteq DOMAIN a.built
    BY <1>1, <1>2, ClosedHasVisited
  <2> QED BY <2>1, <1>1
<1>4. ASSUME NEW b \in a.ids PROVE b = a.built[root] \/ \E c \in a.ids : b \in c.kids
  <2>1. DOMAIN a.groups = {}
    BY <1>1
  <2>2. Terminals(parts) \subseteq DOMAIN a.built
    BY <1>3 DEF Terminals
  <2>3. \/ \E c \in a.ids : b \in c.kids
        \/ \E q \in DOMAIN a.built :
              /\ b = a.built[q]
              /\ \A p \in DOMAIN a.built : q \notin Range(parts[p].children)
    BY <2>1, <2>2, <1>1 DEF NoneLeftBehind
  <2>4. ASSUME NEW q \in DOMAIN a.built, \A p \in DOMAIN a.built : q \notin Range(parts[p].children)
        PROVE  q = root
    <3>1. q \in Visited(root, parts) /\ root \in DOMAIN parts
      BY <1>3
    <3> QED BY <3>1, <2>4, <1>2, <1>3, VisitedHasParent
  <2> QED BY <2>3, <2>4
<1>5. Below(a.built[root]) = a.ids
  <2>1. a.built[root] \in a.ids
    BY <1>1
  <2> QED BY <2>1, <1>1, <1>4, ForestIsBelow
<1>6. {c \in a.ids : c.level = 0} = L
  BY <1>1 DEF IsForest
<1>7. \A b \in a.ids : b.level > 0 => Cardinality(b.kids) \in 2 .. Bound
  BY <1>1 DEF IsForest
<1> QED BY <1>5, <1>6, <1>7 DEF IsIndexOf

=============================================================================
