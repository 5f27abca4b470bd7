----------------------- MODULE StreamingIndexerV3Proofs -----------------------
(***************************************************************************)
(* The layered run of the third version, for every split of the partitions, *)
(* every order and failure of the parallel jobs and every size of the reads: *)
(* what was ingested stays in the waves, and the index of a run that         *)
(* finishes holds exactly the items and the blocks below its root.           *)
(*                                                                           *)
(* The partition store comes first (a scan of a partition meets exactly what *)
(* was appended to it, for every set of partition ids), then the splits of a *)
(* partition, the assembly of a child set, and the invariant V3Inv with one  *)
(* lemma per step of the run.                                                *)
(***************************************************************************)
EXTENDS StreamingIndexerV3, IndexTreeProofs

-----------------------------------------------------------------------------
(* The partition store.                                                       *)

\* The characters of partition ids sort after the bytes that end them.
Pids == Seq(Nat \ {0, 1})

LEMMA LessAt ==
    ASSUME NEW x \in Seq(Nat), NEW y \in Seq(Nat)
    PROVE  Less(x, y) <=> \E n \in 0 .. Len(x) :
                             /\ n < Len(y) /\ \A k \in 1 .. n : x[k] = y[k]
                             /\ n = Len(x) \/ x[n + 1] < y[n + 1]
<1> SUFFICES ASSUME NEW n \in 0 .. Len(x), n < Len(y)
             PROVE  SubSeq(x, 1, n) = SubSeq(y, 1, n) <=> \A k \in 1 .. n : x[k] = y[k]
  BY DEF Less
<1>1. n \in Nat /\ n <= Len(x) /\ n <= Len(y) OBVIOUS
<1>2. SubSeq(x, 1, n) = [k \in 1 .. n |-> x[k]] /\ SubSeq(y, 1, n) = [k \in 1 .. n |-> y[k]]
  BY <1>1
<1> QED BY <1>2

LEMMA KeyParts ==
    ASSUME NEW p \in Pids, NEW i \in Nat
    PROVE  /\ EntryKey(p, i) \in Seq(Nat) /\ EntryEnd(p) \in Seq(Nat) /\ p \in Seq(Nat)
           /\ Len(p) \in Nat /\ Len(EntryKey(p, i)) = Len(p) + 2 /\ Len(EntryEnd(p)) = Len(p) + 1
           /\ \A k \in 1 .. Len(p) : /\ EntryKey(p, i)[k] = p[k] /\ EntryEnd(p)[k] = p[k]
                                     /\ p[k] \in Nat /\ p[k] > 1
           /\ EntryKey(p, i)[Len(p) + 1] = 0 /\ EntryKey(p, i)[Len(p) + 2] = i
           /\ EntryEnd(p)[Len(p) + 1] = 1
<1>1. p \in Seq(Nat) /\ Len(p) \in Nat /\ \A k \in 1 .. Len(p) : p[k] \in Nat /\ p[k] > 1
  <2>1. \A k \in 1 .. Len(p) : p[k] \in Nat \ {0, 1} BY DEF Pids
  <2>2. Nat \ {0, 1} \in SUBSET Nat OBVIOUS
  <2>3. p \in Seq(Nat) BY <2>1 DEF Pids
  <2>4. \A x \in Nat \ {0, 1} : x \in Nat /\ x > 1 OBVIOUS
  <2> QED BY <2>1, <2>3, <2>4 DEF Pids
<1>2. <<0, i>> \in Seq(Nat) /\ <<1>> \in Seq(Nat) OBVIOUS
<1>3. EntryKey(p, i) \in Seq(Nat) /\ EntryEnd(p) \in Seq(Nat) BY <1>1, <1>2 DEF EntryKey, EntryEnd
<1>4. Len(EntryKey(p, i)) = Len(p) + 2 /\ Len(EntryEnd(p)) = Len(p) + 1 BY <1>1, <1>2 DEF EntryKey, EntryEnd
<1>5. \A k \in 1 .. Len(p) : EntryKey(p, i)[k] = p[k] /\ EntryEnd(p)[k] = p[k] BY <1>1, <1>2 DEF EntryKey, EntryEnd
<1>6. EntryKey(p, i)[Len(p) + 1] = 0 /\ EntryKey(p, i)[Len(p) + 2] = i BY <1>1, <1>2 DEF EntryKey
<1>7. EntryEnd(p)[Len(p) + 1] = 1 BY <1>1, <1>2 DEF EntryEnd
<1> QED BY <1>1, <1>3, <1>4, <1>5, <1>6, <1>7

LEMMA SameId == ASSUME NEW p \in Pids, NEW q \in Pids, Len(p) = Len(q), \A k \in 1 .. Len(p) : p[k] = q[k] PROVE p = q
<1>1. p = [k \in 1 .. Len(p) |-> p[k]] /\ q = [k \in 1 .. Len(q) |-> q[k]] BY DEF Pids
<1> QED BY <1>1

\* Equal keys are of one partition and one index.
LEMMA KeyOnce ==
    ASSUME NEW p \in Pids, NEW q \in Pids, NEW i \in Nat, NEW j \in Nat, EntryKey(p, i) = EntryKey(q, j)
    PROVE  p = q /\ i = j
<1>1. PICK x : x = EntryKey(p, i) /\ x = EntryKey(q, j) OBVIOUS
<1>2. /\ Len(p) \in Nat /\ Len(x) = Len(p) + 2 /\ x[Len(p) + 2] = i
      /\ \A k \in 1 .. Len(p) : x[k] = p[k]
  <2>1. /\ Len(p) \in Nat /\ Len(EntryKey(p, i)) = Len(p) + 2 /\ EntryKey(p, i)[Len(p) + 2] = i
        /\ \A k \in 1 .. Len(p) : EntryKey(p, i)[k] = p[k]
    BY ONLY KeyParts, p \in Pids, i \in Nat
  <2> QED BY <1>1, <2>1
<1>3. /\ Len(q) \in Nat /\ Len(x) = Len(q) + 2 /\ x[Len(q) + 2] = j
      /\ \A k \in 1 .. Len(q) : x[k] = q[k]
  <2>1. /\ Len(q) \in Nat /\ Len(EntryKey(q, j)) = Len(q) + 2 /\ EntryKey(q, j)[Len(q) + 2] = j
        /\ \A k \in 1 .. Len(q) : EntryKey(q, j)[k] = q[k]
    BY ONLY KeyParts, q \in Pids, j \in Nat
  <2> QED BY <1>1, <2>1
<1>4. Len(p) = Len(q) BY <1>2, <1>3
<1>5. \A k \in 1 .. Len(p) : p[k] = q[k] BY <1>2, <1>3, <1>4
<1> QED BY <1>2, <1>3, <1>4, <1>5, SameId

LEMMA KeysInOrder ==
    ASSUME NEW p \in Pids, NEW i \in Nat, NEW j \in Nat
    PROVE  Less(EntryKey(p, i), EntryKey(p, j)) <=> i < j
<1> DEFINE x == EntryKey(p, i)
           y == EntryKey(p, j)
<1>1. PICK l \in Nat : l = Len(p) BY KeyParts
<1>2. /\ x \in Seq(Nat) /\ y \in Seq(Nat) /\ Len(x) = l + 2 /\ Len(y) = l + 2
      /\ x[l + 1] = 0 /\ y[l + 1] = 0 /\ x[l + 2] = i /\ y[l + 2] = j
      /\ \A k \in 1 .. l : x[k] = p[k] /\ y[k] = p[k] /\ p[k] \in Nat
  BY <1>1, KeyParts
<1> HIDE DEF x, y
<1>3. \A k \in 1 .. l + 1 : x[k] = y[k] /\ x[k] \in Nat
  <2>1. \A k \in 1 .. l + 1 : k = l + 1 \/ k \in 1 .. l OBVIOUS
  <2> QED BY <2>1, <1>2
<1>4. ASSUME i < j PROVE Less(x, y)
  <2>1. l + 1 \in 0 .. Len(x) /\ l + 1 < Len(y) /\ x[(l + 1) + 1] < y[(l + 1) + 1] BY <1>2, <1>4
  <2> QED BY <2>1, <1>2, <1>3, LessAt
<1>5. ASSUME Less(x, y) PROVE i < j
  <2>1. PICK n \in 0 .. Len(x) : n < Len(y) /\ (n = Len(x) \/ x[n + 1] < y[n + 1]) BY <1>2, <1>5, LessAt
  <2>2. n \in Nat /\ n < l + 2 /\ x[n + 1] < y[n + 1] BY <2>1, <1>2
  <2>3. n + 1 \notin 1 .. l + 1 BY <2>2, <1>3
  <2>4. n + 1 = l + 2 BY <2>2, <2>3
  <2> QED BY <2>2, <2>4, <1>2
<1> QED BY <1>4, <1>5 DEF x, y

\* A scan from an index to the end of a partition meets keys of that partition
\* only, although the ids of its children begin with its own.
LEMMA ScanMeets ==
    ASSUME NEW p \in Pids, NEW q \in Pids, NEW i \in Nat, NEW from \in Nat
    PROVE  (~Less(EntryKey(q, i), EntryKey(p, from)) /\ Less(EntryKey(q, i), EntryEnd(p))) <=> q = p /\ i >= from
<1> DEFINE x == EntryKey(q, i)
           s == EntryKey(p, from)
           e == EntryEnd(p)
<1>1. PICK l \in Nat, m \in Nat : l = Len(p) /\ m = Len(q) BY KeyParts
<1>2. /\ x \in Seq(Nat) /\ s \in Seq(Nat) /\ e \in Seq(Nat)
      /\ Len(x) = m + 2 /\ Len(s) = l + 2 /\ Len(e) = l + 1
      /\ x[m + 1] = 0 /\ x[m + 2] = i /\ e[l + 1] = 1
      /\ \A k \in 1 .. m : x[k] = q[k] /\ q[k] \in Nat /\ q[k] > 1
      /\ \A k \in 1 .. l : s[k] = p[k] /\ e[k] = p[k] /\ p[k] \in Nat /\ p[k] > 1
  <2>1. /\ x \in Seq(Nat) /\ Len(x) = Len(q) + 2 /\ x[Len(q) + 1] = 0 /\ x[Len(q) + 2] = i
        /\ \A k \in 1 .. Len(q) : x[k] = q[k] /\ q[k] \in Nat /\ q[k] > 1
    BY ONLY KeyParts, q \in Pids, i \in Nat
  <2>2. /\ s \in Seq(Nat) /\ e \in Seq(Nat) /\ Len(s) = Len(p) + 2 /\ Len(e) = Len(p) + 1 /\ e[Len(p) + 1] = 1
        /\ \A k \in 1 .. Len(p) : s[k] = p[k] /\ e[k] = p[k] /\ p[k] \in Nat /\ p[k] > 1
    BY ONLY KeyParts, p \in Pids, from \in Nat
  <2> HIDE DEF x, s, e
  <2> QED BY <2>1, <2>2, <1>1
<1> HIDE DEF x, s, e
<1>3. ASSUME ~Less(x, s), Less(x, e) PROVE q = p /\ i >= from
  <2>1. PICK n \in 0 .. Len(x) : n < Len(e) /\ (\A k \in 1 .. n : x[k] = e[k]) /\ (n = Len(x) \/ x[n + 1] < e[n + 1])
    BY <1>2, <1>3, LessAt
  <2>2. n \in Nat /\ n <= l /\ n <= m + 2 BY <2>1, <1>2
  <2>3. n = l
    <3> SUFFICES ASSUME n < l PROVE FALSE BY <2>2
    <3>1. \A k \in 1 .. n : x[k] = s[k]
      <4>1. \A k \in 1 .. n : k \in 1 .. l BY <2>2
      <4> QED BY <2>1, <4>1, <1>2
    <3>2. n < Len(s) /\ n + 1 \in 1 .. l BY <2>2, <1>2
    <3>3. n = Len(x) \/ x[n + 1] < s[n + 1] BY <2>1, <3>2, <1>2
    <3> QED BY <1>2, <1>3, <2>1, <3>1, <3>2, <3>3, LessAt
  <2>4. ~(m + 1 \in 1 .. l)
    <3> SUFFICES ASSUME m + 1 \in 1 .. l PROVE FALSE OBVIOUS
    <3>1. x[m + 1] = e[m + 1] BY <2>1, <2>3
    <3>2. e[m + 1] > 1 /\ e[m + 1] \in Nat BY <1>2
    <3> QED BY <3>1, <3>2, <1>2
  <2>5. l <= m BY <2>4
  <2>6. x[l + 1] < 1 BY <2>1, <2>3, <2>5, <1>2
  <2>7. ~(l + 1 \in 1 .. m)
    <3> SUFFICES ASSUME l + 1 \in 1 .. m PROVE FALSE OBVIOUS
    <3>1. x[l + 1] > 1 /\ x[l + 1] \in Nat BY <1>2
    <3> QED BY <2>6, <3>1
  <2>8. l = m BY <2>5, <2>7
  <2>9. \A k \in 1 .. l : p[k] = q[k] BY <2>1, <2>3, <2>8, <1>2
  <2>10. p = q BY <2>8, <2>9, <1>1, SameId
  <2>11. ~(i < from) BY <1>3, <2>10, KeysInOrder DEF x, s
  <2> QED BY <2>10, <2>11
<1>4. ASSUME q = p, i >= from PROVE ~Less(x, s) /\ Less(x, e)
  <2>1. ~Less(x, s) BY <1>4, KeysInOrder DEF x, s
  <2>2. l = m BY <1>1, <1>4
  <2>3. l \in 0 .. Len(x) /\ l < Len(e) /\ x[l + 1] < e[l + 1] BY <1>2, <2>2
  <2>4. \A k \in 1 .. l : x[k] = e[k] BY <1>2, <2>2, <1>4
  <2> QED BY <1>2, <2>1, <2>3, <2>4, LessAt
<1> QED BY <1>3, <1>4 DEF x, s, e

\* A store of the partitions that have a count, with an entry for every index
\* below it and no other, all of them values of U.
EntryKeys(d) == {k \in Seq(Nat) : \E p \in DOMAIN d.counts : \E i \in Nat : i < d.counts[p] /\ k = EntryKey(p, i)}
Dbs(U) ==
    {d \in [counts : UNION {[P -> Nat] : P \in SUBSET Pids}, table : UNION {[K -> U] : K \in SUBSET Seq(Nat)}] :
        DOMAIN d.table = EntryKeys(d)}

\* What a partition holds, in the order of its indices.
Entries(d, p) == [j \in 1 .. Count(d, p) |-> d.table[EntryKey(p, j - 1)]]

LEMMA DbFacts ==
    ASSUME NEW U, NEW d \in Dbs(U)
    PROVE  /\ d = [counts |-> d.counts, table |-> d.table]
           /\ DOMAIN d.counts \in SUBSET Pids /\ d.counts \in [DOMAIN d.counts -> Nat]
           /\ DOMAIN d.table = EntryKeys(d) /\ d.table \in [EntryKeys(d) -> U]
<1>1. d \in [counts : UNION {[P -> Nat] : P \in SUBSET Pids}, table : UNION {[K -> U] : K \in SUBSET Seq(Nat)}]
  BY DEF Dbs
<1>2. PICK P \in SUBSET Pids : d.counts \in [P -> Nat] BY <1>1
<1>3. PICK K \in SUBSET Seq(Nat) : d.table \in [K -> U] BY <1>1
<1>4. DOMAIN d.table = EntryKeys(d) BY DEF Dbs
<1> QED BY <1>1, <1>2, <1>3, <1>4

LEMMA DbMade ==
    ASSUME NEW U, NEW c, NEW t, DOMAIN c \in SUBSET Pids, c \in [DOMAIN c -> Nat],
           NEW d, d = [counts |-> c, table |-> t], t \in [EntryKeys(d) -> U]
    PROVE  d \in Dbs(U)
<1>1. d.counts = c /\ d.table = t OBVIOUS
<1>2. EntryKeys(d) \in SUBSET Seq(Nat) BY DEF EntryKeys
<1>3. t \in UNION {[K -> U] : K \in SUBSET Seq(Nat)} BY <1>2
<1>4. c \in UNION {[P -> Nat] : P \in SUBSET Pids} OBVIOUS
<1>5. DOMAIN d.table = EntryKeys(d) BY <1>1
<1> QED BY <1>1, <1>3, <1>4, <1>5 DEF Dbs

LEMMA CountNatural == ASSUME NEW U, NEW d \in Dbs(U), NEW p PROVE Count(d, p) \in Nat
BY DbFacts DEF Count

\* The entries are those of the indices below the count.
LEMMA KeyHeld ==
    ASSUME NEW U, NEW d \in Dbs(U), NEW p \in Pids, NEW i \in Nat
    PROVE  /\ EntryKey(p, i) \in DOMAIN d.table <=> i < Count(d, p)
           /\ i < Count(d, p) => d.table[EntryKey(p, i)] \in U
<1>1. /\ DOMAIN d.counts \in SUBSET Pids /\ d.counts \in [DOMAIN d.counts -> Nat]
      /\ DOMAIN d.table = EntryKeys(d) /\ d.table \in [EntryKeys(d) -> U]
  BY DbFacts
<1>2. EntryKey(p, i) \in Seq(Nat) BY KeyParts
<1>3. ASSUME EntryKey(p, i) \in EntryKeys(d) PROVE i < Count(d, p)
  <2>1. PICK q \in DOMAIN d.counts, j \in Nat : j < d.counts[q] /\ EntryKey(p, i) = EntryKey(q, j) BY <1>3 DEF EntryKeys
  <2>2. q \in Pids BY <1>1
  <2>3. p = q /\ i = j BY <2>1, <2>2, KeyOnce
  <2> QED BY <2>1, <2>3 DEF Count
<1>4. ASSUME i < Count(d, p) PROVE EntryKey(p, i) \in EntryKeys(d)
  <2>1. p \in DOMAIN d.counts /\ i < d.counts[p] BY <1>4 DEF Count
  <2> QED BY <1>2, <2>1 DEF EntryKeys
<1> QED BY <1>1, <1>3, <1>4

LEMMA EntriesTypes ==
    ASSUME NEW U, NEW d \in Dbs(U), NEW p \in Pids
    PROVE  Entries(d, p) \in Seq(U) /\ Len(Entries(d, p)) = Count(d, p)
<1>1. Count(d, p) \in Nat BY CountNatural
<1>2. \A j \in 1 .. Count(d, p) : d.table[EntryKey(p, j - 1)] \in U
  <2> TAKE j \in 1 .. Count(d, p)
  <2>1. j - 1 \in Nat /\ j - 1 < Count(d, p) BY <1>1
  <2> QED BY <2>1, KeyHeld
<1> QED BY <1>1, <1>2 DEF Entries

\* The number of keys of a partition between two indices.
LEMMA KeysBetween ==
    ASSUME NEW p \in Pids, NEW a \in Nat, NEW b \in Nat, a <= b
    PROVE  LET S == {EntryKey(p, i) : i \in a .. b - 1} IN IsFiniteSet(S) /\ Cardinality(S) = b - a
<1> DEFINE S == {EntryKey(p, i) : i \in a .. b - 1}
           f == [i \in a .. b - 1 |-> EntryKey(p, i)]
<1>1. IsFiniteSet(a .. b - 1) /\ Cardinality(a .. b - 1) = b - a
  <2>1. a \in Int /\ b - 1 \in Int OBVIOUS
  <2>2. IsFiniteSet(a .. b - 1) /\ Cardinality(a .. b - 1) = IF a > b - 1 THEN 0 ELSE b - 1 - a + 1 BY <2>1, FS_Interval
  <2> QED BY <2>2
<1>2. \A i, j \in a .. b - 1 : f[i] = f[j] => i = j
  <2> SUFFICES ASSUME NEW i \in a .. b - 1, NEW j \in a .. b - 1, EntryKey(p, i) = EntryKey(p, j) PROVE i = j OBVIOUS
  <2>1. i \in Nat /\ j \in Nat OBVIOUS
  <2> QED BY <2>1, KeyOnce
<1>3. f \in Bijection(a .. b - 1, S) BY <1>2 DEF Bijection, Injection, Surjection, IsInjective
<1>4. ExistsBijection(a .. b - 1, S)
  <2> HIDE DEF f, S
  <2> QED BY <1>3 DEF ExistsBijection
<1> HIDE DEF S
<1>5. IsFiniteSet(S) /\ Cardinality(S) = Cardinality(a .. b - 1) BY <1>1, <1>4, FS_Bijection
<1> QED BY <1>1, <1>5 DEF S

\* A scan meets the entries of the partition from the index on, in order.
LEMMA ScanIs ==
    ASSUME NEW U, NEW d \in Dbs(U), NEW p \in Pids, NEW from \in Nat
    PROVE  \E n \in Nat : /\ n = IF from < Count(d, p) THEN Count(d, p) ELSE from
                          /\ Len(Scan(d, p, from)) = n - from
                          /\ \A k \in 1 .. n - from : Scan(d, p, from)[k] = EntryKey(p, from + k - 1)
<1>0. PICK n \in Nat : n = IF from < Count(d, p) THEN Count(d, p) ELSE from BY CountNatural
<1> DEFINE S == {k \in DOMAIN d.table : ~Less(k, EntryKey(p, from)) /\ Less(k, EntryEnd(p))}
           Rank(x) == Cardinality({y \in S : Less(y, x)})
<1>1. /\ n = IF from < Count(d, p) THEN Count(d, p) ELSE from
      /\ Count(d, p) \in Nat /\ from <= n
  BY <1>0, CountNatural
<1>2. S = {EntryKey(p, i) : i \in from .. n - 1}
  <2>1. ASSUME NEW k \in S PROVE k \in {EntryKey(p, i) : i \in from .. n - 1}
    <3>1. k \in EntryKeys(d) /\ DOMAIN d.counts \in SUBSET Pids BY DbFacts
    <3>2. PICK q \in DOMAIN d.counts, i \in Nat : i < d.counts[q] /\ k = EntryKey(q, i) BY <3>1 DEF EntryKeys
    <3>3. q \in Pids BY <3>1
    <3>4. q = p /\ i >= from BY <3>2, <3>3, ScanMeets
    <3>5. i < Count(d, p) BY <3>2, <3>4 DEF Count
    <3>6. i \in from .. n - 1 BY <3>4, <3>5, <1>1
    <3> QED BY <3>2, <3>4, <3>6
  <2>2. ASSUME NEW i \in from .. n - 1 PROVE EntryKey(p, i) \in S
    <3>1. i \in Nat /\ i >= from /\ i < Count(d, p) BY <1>1
    <3> QED BY <3>1, KeyHeld, ScanMeets
  <2> QED BY <2>1, <2>2
<1>3. Cardinality(S) = n - from BY <1>1, <1>2, KeysBetween
<1>4. ASSUME NEW b \in from .. n - 1 PROVE Rank(EntryKey(p, b)) = b - from
  <2>1. b \in Nat /\ from <= b BY <1>1
  <2>2. {y \in S : Less(y, EntryKey(p, b))} = {EntryKey(p, i) : i \in from .. b - 1}
    <3>1. \A i \in from .. n - 1 : i \in Nat /\ (Less(EntryKey(p, i), EntryKey(p, b)) <=> i < b) BY <2>1, KeysInOrder
    <3>2. \A i \in from .. b - 1 : i \in from .. n - 1 /\ i < b BY <1>1
    <3>3. \A i \in from .. n - 1 : i < b => i \in from .. b - 1 BY <1>1
    <3> HIDE DEF S
    <3> QED BY <1>2, <3>1, <3>2, <3>3
  <2> QED BY <2>1, <2>2, KeysBetween
<1>5. Scan(d, p, from) = [k \in 1 .. Cardinality(S) |-> CHOOSE x \in S : Rank(x) = k - 1] BY DEF Scan, Ordered
<1>6. ASSUME NEW k \in 1 .. n - from PROVE (CHOOSE x \in S : Rank(x) = k - 1) = EntryKey(p, from + k - 1)
  <2>1. from + k - 1 \in from .. n - 1 /\ (from + k - 1) - from = k - 1 BY <1>1
  <2>2. EntryKey(p, from + k - 1) \in S /\ Rank(EntryKey(p, from + k - 1)) = k - 1 BY <1>2, <1>4, <2>1
  <2>3. ASSUME NEW x \in S, Rank(x) = k - 1 PROVE x = EntryKey(p, from + k - 1)
    <3>1. PICK b \in from .. n - 1 : x = EntryKey(p, b)
      <4> HIDE DEF S
      <4> QED BY <1>2
    <3>2. b - from = k - 1 BY <2>3, <3>1, <1>4
    <3>3. b = from + k - 1 BY <3>2, <1>1
    <3> QED BY <3>1, <3>3
  <2> HIDE DEF S, Rank
  <2> QED BY <2>2, <2>3
<1> HIDE DEF S, Rank
<1>7. Scan(d, p, from) = [k \in 1 .. n - from |-> EntryKey(p, from + k - 1)] BY <1>3, <1>5, <1>6
<1> QED BY <1>1, <1>7

LEMMA BatchIs ==
    ASSUME V3Assumption, NEW U, NEW d \in Dbs(U), NEW p \in Pids, NEW from \in Nat,
           NEW m, m = IF from < Count(d, p) THEN IF Count(d, p) - from < ReadBatch THEN Count(d, p) - from ELSE ReadBatch
                      ELSE 0
    PROVE  /\ m \in Nat /\ NextBatch(d, p, from) = [j \in 1 .. m |-> d.table[EntryKey(p, from + j - 1)]]
           /\ NextBatch(d, p, from) \in Seq(U) /\ Len(NextBatch(d, p, from)) = m
<1>1. Count(d, p) \in Nat /\ ReadBatch \in Nat /\ ReadBatch > 0 BY CountNatural DEF V3Assumption
<1>2. m \in Nat BY <1>1
<1>4. PICK keys : keys = Scan(d, p, from) OBVIOUS
<1>3. PICK n \in Nat : /\ n = IF from < Count(d, p) THEN Count(d, p) ELSE from
                       /\ Len(Scan(d, p, from)) = n - from
                       /\ \A k \in 1 .. n - from : Scan(d, p, from)[k] = EntryKey(p, from + k - 1)
  BY ScanIs
<1>5. Len(keys) = n - from /\ \A k \in 1 .. n - from : keys[k] = EntryKey(p, from + k - 1) BY <1>3, <1>4
<1>6. PICK left : left = Count(d, p) - from OBVIOUS
<1>7. PICK limit : limit = IF left < ReadBatch THEN left ELSE ReadBatch OBVIOUS
<1>8. PICK z : z = IF limit < Len(keys) THEN limit ELSE Len(keys) OBVIOUS
<1>9. NextBatch(d, p, from) = [j \in 1 .. z |-> d.table[keys[j]]] BY <1>4, <1>6, <1>7, <1>8 DEF NextBatch
<1>10. z \in Int /\ 1 .. z = 1 .. m BY <1>1, <1>3, <1>5, <1>6, <1>7, <1>8
<1>11. \A j \in 1 .. m : keys[j] = EntryKey(p, from + j - 1)
  <2>1. \A j \in 1 .. m : j \in 1 .. n - from BY <1>1, <1>3
  <2> QED BY <1>5, <2>1
<1>12. NextBatch(d, p, from) = [j \in 1 .. m |-> d.table[EntryKey(p, from + j - 1)]] BY <1>9, <1>10, <1>11
<1>13. \A j \in 1 .. m : d.table[EntryKey(p, from + j - 1)] \in U
  <2> TAKE j \in 1 .. m
  <2>1. from + j - 1 \in Nat /\ from + j - 1 < Count(d, p) BY <1>1
  <2> QED BY <2>1, KeyHeld
<1> QED BY <1>2, <1>12, <1>13

\* The first n entries.
First(d, p, n) == [j \in 1 .. n |-> d.table[EntryKey(p, j - 1)]]

LEMMA FirstAndBatch ==
    ASSUME V3Assumption, NEW U, NEW d \in Dbs(U), NEW p \in Pids, NEW n \in Nat, n <= Count(d, p),
           NEW m \in Nat, m = IF n + ReadBatch < Count(d, p) THEN n + ReadBatch ELSE Count(d, p)
    PROVE  /\ First(d, p, n) \in Seq(U) /\ Len(First(d, p, n)) = n
           /\ First(d, p, n) \o NextBatch(d, p, n) = First(d, p, m)
<1>1. Count(d, p) \in Nat /\ ReadBatch \in Nat /\ ReadBatch > 0 BY CountNatural DEF V3Assumption
<1>2. ASSUME NEW k \in Nat, k <= Count(d, p) PROVE First(d, p, k) \in Seq(U) /\ Len(First(d, p, k)) = k
  <2>1. \A j \in 1 .. k : d.table[EntryKey(p, j - 1)] \in U
    <3> TAKE j \in 1 .. k
    <3>1. j - 1 \in Nat /\ j - 1 < Count(d, p) BY <1>1, <1>2
    <3> QED BY <3>1, KeyHeld
  <2> QED BY <2>1 DEF First
<1>3. PICK f \in Seq(U) : f = First(d, p, n) BY <1>2
<1>4. PICK r : r = m - n OBVIOUS
<1>5. r = IF n < Count(d, p) THEN IF Count(d, p) - n < ReadBatch THEN Count(d, p) - n ELSE ReadBatch ELSE 0
  BY <1>1, <1>4
<1>6. PICK b : b = NextBatch(d, p, n) OBVIOUS
<1>7. /\ r \in Nat /\ b = [j \in 1 .. r |-> d.table[EntryKey(p, n + j - 1)]]
      /\ b \in Seq(U) /\ Len(b) = r
  BY <1>5, <1>6, BatchIs
<1>8. Len(f) = n BY <1>2, <1>3
<1>9. /\ f \o b \in Seq(U) /\ Len(f \o b) = n + r
      /\ \A j \in 1 .. n + r : (f \o b)[j] = IF j <= n THEN f[j] ELSE b[j - n]
  BY ONLY <1>7, <1>8, f \in Seq(U), n \in Nat
<1>10. n + r = m BY <1>4, <1>7
<1>11. ASSUME NEW j \in 1 .. m PROVE (IF j <= n THEN f[j] ELSE b[j - n]) = d.table[EntryKey(p, j - 1)]
  <2>1. CASE j <= n
    <3>1. j \in 1 .. n BY <2>1
    <3> QED BY <2>1, <3>1, <1>3 DEF First
  <2>2. CASE ~(j <= n)
    <3>1. j - n \in 1 .. r /\ n + (j - n) - 1 = j - 1 BY <2>2, <1>10, <1>7
    <3>2. b[j - n] = d.table[EntryKey(p, n + (j - n) - 1)] BY <3>1, <1>7
    <3> QED BY <2>2, <3>1, <3>2
  <2> QED BY <2>1, <2>2
<1>12. f \o b = First(d, p, m)
  <2>1. PICK h \in Seq(U) : h = f \o b BY <1>9
  <2>2. Len(h) = m /\ \A j \in 1 .. m : h[j] = d.table[EntryKey(p, j - 1)] BY <1>9, <1>10, <1>11, <2>1
  <2>3. h = [j \in 1 .. Len(h) |-> h[j]] OBVIOUS
  <2> QED BY <2>1, <2>2, <2>3 DEF First
<1> QED BY <1>2, <1>3, <1>6, <1>12

\* A reader gets all entries of its partition in order, batch by batch.
LEMMA ReadAllIs ==
    ASSUME V3Assumption, NEW U, NEW d \in Dbs(U), NEW p \in Pids
    PROVE  ReadAll(d, p) = Entries(d, p)
<1>1. PICK c \in Nat : c = Count(d, p) BY CountNatural
<1>2. PICK rb \in Nat : rb = ReadBatch /\ rb > 0 BY DEF V3Assumption
<1> DEFINE F == [r \in Seq(U) |-> r \o NextBatch(d, p, Len(r))]
           Rec(f) == f = [b \in Nat |-> IF b = 0 THEN <<>> ELSE f[b - 1] \o NextBatch(d, p, Len(f[b - 1]))]
           g == CHOOSE f : Rec(f)
<1>3. F \in [Seq(U) -> Seq(U)]
  <2>1. ASSUME NEW r \in Seq(U) PROVE r \o NextBatch(d, p, Len(r)) \in Seq(U)
    <3>1. Len(r) \in Nat OBVIOUS
    <3>2. NextBatch(d, p, Len(r)) \in Seq(U) BY <3>1, BatchIs
    <3> QED BY <3>2
  <2> QED BY <2>1
<1>4. Rec(g)
  <2>1. <<>> \in Seq(U) OBVIOUS
  <2>2. PICK f \in [Nat -> Seq(U)] : Iterates(f, <<>>, F)
    <3> HIDE DEF F
    <3> QED BY <1>3, <2>1, IterationExists
  <2>3. ASSUME NEW b \in Nat PROVE f[b] = IF b = 0 THEN <<>> ELSE f[b - 1] \o NextBatch(d, p, Len(f[b - 1]))
    <3>1. CASE b = 0 BY <3>1, <2>2 DEF Iterates
    <3>2. CASE b # 0
      <4>1. b - 1 \in Nat /\ (b - 1) + 1 = b BY <3>2
      <4>2. f[b] = F[f[b - 1]] BY <2>2, <4>1 DEF Iterates
      <4>3. f[b - 1] \in Seq(U) BY <4>1
      <4> QED BY <3>2, <4>2, <4>3
    <3> QED BY <3>1, <3>2
  <2>4. f = [b \in Nat |-> f[b]] BY <2>2
  <2>5. Rec(f) BY <2>3, <2>4
  <2> HIDE DEF Rec
  <2> QED BY <2>5
<1> HIDE DEF g
<1>5. g[0] = <<>> /\ \A b \in Nat : g[b + 1] = g[b] \o NextBatch(d, p, Len(g[b]))
  <2>1. ASSUME NEW b \in Nat PROVE g[b] = IF b = 0 THEN <<>> ELSE g[b - 1] \o NextBatch(d, p, Len(g[b - 1])) BY <1>4
  <2>2. \A b \in Nat : b + 1 \in Nat /\ b + 1 # 0 /\ (b + 1) - 1 = b OBVIOUS
  <2>3. g[0] = <<>> BY <2>1
  <2>4. ASSUME NEW b \in Nat PROVE g[b + 1] = g[b] \o NextBatch(d, p, Len(g[b]))
    <3>1. b + 1 \in Nat /\ b + 1 # 0 /\ (b + 1) - 1 = b OBVIOUS
    <3>2. g[b + 1] = g[(b + 1) - 1] \o NextBatch(d, p, Len(g[(b + 1) - 1])) BY <2>1, <3>1
    <3> QED BY <3>1, <3>2
  <2> QED BY <2>3, <2>4
<1> HIDE DEF Rec
<1> DEFINE upto(b) == IF b * rb < c THEN b * rb ELSE c
           S == {b \in Nat : g[b] = First(d, p, upto(b))}
<1>6. 0 \in S
  <2>1. upto(0) = 0 BY <1>1, <1>2
  <2>2. First(d, p, 0) = <<>> BY DEF First
  <2> QED BY <1>5, <2>1, <2>2
<1>7. ASSUME NEW b \in S PROVE b + 1 \in S
  <2>1. PICK x \in Nat : x = b * rb BY <1>2
  <2>2. (b + 1) * rb = x + rb BY <2>1, <1>2
  <2>3. PICK n \in Nat : n = upto(b) /\ n <= c BY <1>1, <2>1
  <2>4. PICK m \in Nat : m = upto(b + 1) BY <1>1, <2>1, <2>2
  <2>5. m = IF n + rb < c THEN n + rb ELSE c BY <2>1, <2>2, <2>3, <2>4, <1>1, <1>2
  <2>6. /\ Len(First(d, p, n)) = n
        /\ First(d, p, n) \o NextBatch(d, p, n) = First(d, p, m)
    <3>1. m = IF n + ReadBatch < Count(d, p) THEN n + ReadBatch ELSE Count(d, p) BY <2>5, <1>1, <1>2
    <3>2. n <= Count(d, p) BY <2>3, <1>1
    <3> QED BY <3>1, <3>2, FirstAndBatch
  <2>7. g[b] = First(d, p, n) BY <2>3
  <2>8. g[b + 1] = First(d, p, m) BY <1>5, <2>6, <2>7
  <2> QED BY <2>4, <2>8
<1>8. S = Nat
  <2> HIDE DEF S
  <2>1. S \in SUBSET Nat BY DEF S
  <2> QED BY <1>6, <1>7, <2>1, AllNumbers
<1>9. PICK b \in Nat : b = (c + rb - 1) \div rb /\ b * rb >= c
  <2>1. PICK y \in Nat : y = c + rb - 1 BY <1>1, <1>2
  <2>2. PICK b : b = y \div rb OBVIOUS
  <2>3. b \in Nat /\ y < b * rb + rb BY <2>2, <1>2
  <2>4. b * rb \in Nat BY <2>3, <1>2
  <2>5. b * rb >= c BY <2>1, <2>3, <2>4, <1>1, <1>2
  <2> QED BY <2>1, <2>2, <2>3, <2>5
<1>10. ReadAll(d, p) = g[b]
  <2>1. ReadAll(d, p) = g[(Count(d, p) + ReadBatch - 1) \div ReadBatch] BY DEF ReadAll, g, Rec
  <2> QED BY <2>1, <1>1, <1>2, <1>9
<1>11. upto(b) = c
  <2>1. b * rb \in Nat BY <1>9, <1>2
  <2> QED BY <2>1, <1>9, <1>1
<1> QED BY <1>1, <1>8, <1>10, <1>11 DEF First, Entries

\* Two stores with the same entries of a partition.
LEMMA SameEntries ==
    ASSUME NEW d, NEW e, NEW p, Count(e, p) = Count(d, p), Count(d, p) \in Nat,
           \A i \in Nat : i < Count(d, p) => e.table[EntryKey(p, i)] = d.table[EntryKey(p, i)]
    PROVE  Entries(e, p) = Entries(d, p)
<1>1. \A j \in 1 .. Count(d, p) : j - 1 \in Nat /\ j - 1 < Count(d, p) OBVIOUS
<1> QED BY <1>1 DEF Entries

\* One transaction appends to one partition: its entries are followed by the
\* values, and every other partition is as it was.
LEMMA AppendedIs ==
    ASSUME NEW U, NEW d \in Dbs(U), NEW p \in Pids, NEW values \in Seq(U)
    PROVE  /\ Appended(d, p, values) \in Dbs(U)
           /\ Entries(Appended(d, p, values), p) = Entries(d, p) \o values
           /\ \A q \in Pids : q # p => Entries(Appended(d, p, values), q) = Entries(d, q)
<1>1. CASE values = <<>>
  <2>1. Appended(d, p, values) = d BY <1>1 DEF Appended
  <2>2. Entries(d, p) \in Seq(U) BY EntriesTypes
  <2>3. Entries(d, p) \o values = Entries(d, p) BY <1>1, <2>2
  <2> QED BY <2>1, <2>3
<1>2. CASE values # <<>>
  <2>1. PICK start \in Nat, l \in Nat : start = Count(d, p) /\ l = Len(values) BY CountNatural
  <2> DEFINE keys == {EntryKey(p, start + j - 1) : j \in DOMAIN values}
             c == [q \in DOMAIN d.counts \cup {p} |-> IF q = p THEN start + l ELSE d.counts[q]]
             t == [k \in DOMAIN d.table \cup keys |-> IF k \in keys THEN values[k[Len(k)] - start + 1] ELSE d.table[k]]
             e == [counts |-> c, table |-> t]
  <2>2. Appended(d, p, values) = e BY <1>2, <2>1 DEF Appended
  <2>3. /\ DOMAIN d.counts \in SUBSET Pids /\ d.counts \in [DOMAIN d.counts -> Nat]
        /\ DOMAIN d.table = EntryKeys(d) /\ d.table \in [EntryKeys(d) -> U]
    BY DbFacts
  <2>4. /\ DOMAIN c = DOMAIN d.counts \cup {p} /\ c[p] = start + l
        /\ \A q \in DOMAIN d.counts : q # p => c[q] = d.counts[q]
        /\ c = [q \in DOMAIN c |-> c[q]]
    OBVIOUS
  <2>5. c \in [DOMAIN c -> Nat] /\ DOMAIN c \in SUBSET Pids
    <3> HIDE DEF c
    <3>1. \A q \in DOMAIN c : c[q] \in Nat BY <2>3, <2>4
    <3> QED BY <2>3, <2>4, <3>1
  <2>6. DOMAIN values = 1 .. l BY <2>1
  <2>7. keys = {EntryKey(p, i) : i \in start .. start + l - 1}
    <3>1. \A j \in 1 .. l : start + j - 1 \in start .. start + l - 1 OBVIOUS
    <3>2. \A i \in start .. start + l - 1 : i - start + 1 \in 1 .. l /\ start + (i - start + 1) - 1 = i OBVIOUS
    <3>3. \A i \in start .. start + l - 1 : \E j \in 1 .. l : start + j - 1 = i BY <3>2
    <3> QED BY <2>6, <3>1, <3>3
  <2>8. ASSUME NEW i \in start .. start + l - 1
        PROVE  EntryKey(p, i) \in keys /\ t[EntryKey(p, i)] = values[i - start + 1] /\ values[i - start + 1] \in U
    <3>1. EntryKey(p, i) \in keys BY <2>7
    <3>2. i \in Nat BY <2>1
    <3>3. Len(EntryKey(p, i)) = Len(p) + 2 /\ EntryKey(p, i)[Len(p) + 2] = i BY <3>2, KeyParts
    <3>4. t[EntryKey(p, i)] = values[EntryKey(p, i)[Len(EntryKey(p, i))] - start + 1]
      <4> HIDE DEF keys
      <4> QED BY <3>1
    <3>5. t[EntryKey(p, i)] = values[i - start + 1] BY <3>3, <3>4
    <3>6. i - start + 1 \in 1 .. l BY <2>1
    <3> QED BY <3>1, <3>5, <3>6, <2>1
  <2>9. DOMAIN t = keys \cup DOMAIN d.table /\ t = [k \in DOMAIN t |-> t[k]] /\ \A k \in DOMAIN d.table : k \notin keys => t[k] = d.table[k]
    <3> HIDE DEF keys
    <3> QED OBVIOUS
  <2>10. ASSUME NEW q \in Pids, NEW i \in Nat PROVE EntryKey(q, i) \in keys <=> q = p /\ i \in start .. start + l - 1
    <3>1. ASSUME EntryKey(q, i) \in keys PROVE q = p /\ i \in start .. start + l - 1
      <4>1. PICK j \in start .. start + l - 1 : EntryKey(q, i) = EntryKey(p, j)
        <5> HIDE DEF keys
        <5> QED BY <2>7, <3>1
      <4>2. j \in Nat BY <2>1
      <4>3. q = p /\ i = j BY <4>1, <4>2, KeyOnce
      <4> QED BY <4>3
    <3> QED BY <3>1, <2>7
  <2> HIDE DEF keys, c, t
  <2>11. Count(e, p) = start + l /\ \A q : q # p => Count(e, q) = Count(d, q) BY <2>4 DEF Count
  <2>12. DOMAIN t = EntryKeys(e)
    <3>1. ASSUME NEW k \in DOMAIN t PROVE k \in EntryKeys(e)
      <4>1. CASE k \in keys
        <5>1. PICK i \in start .. start + l - 1 : k = EntryKey(p, i) BY <4>1, <2>7
        <5>2. i \in Nat /\ i < c[p] /\ p \in DOMAIN e.counts /\ e.counts = c BY <2>1, <2>4
        <5>3. k \in Seq(Nat) BY <5>1, <5>2, KeyParts
        <5> QED BY <5>1, <5>2, <5>3 DEF EntryKeys
      <4>2. CASE k \in DOMAIN d.table
        <5>1. k \in Seq(Nat) /\ k \in EntryKeys(d) BY <4>2, <2>3 DEF EntryKeys
        <5>2. PICK q \in DOMAIN d.counts, i \in Nat : i < d.counts[q] /\ k = EntryKey(q, i) BY <5>1 DEF EntryKeys
        <5>3. q \in DOMAIN c BY <2>4
        <5>4. i < c[q]
          <6>1. CASE q = p
            <7>1. start = d.counts[q] BY <6>1, <2>1 DEF Count
            <7> QED BY <6>1, <7>1, <5>2, <2>4, <2>1
          <6>2. CASE q # p BY <6>2, <5>2, <2>4
          <6> QED BY <6>1, <6>2
        <5> QED BY <5>1, <5>2, <5>3, <5>4 DEF EntryKeys
      <4> QED BY <4>1, <4>2, <2>9
    <3>2. ASSUME NEW k \in EntryKeys(e) PROVE k \in DOMAIN t
      <4>1. PICK q \in DOMAIN c, i \in Nat : i < c[q] /\ k = EntryKey(q, i) BY DEF EntryKeys
      <4>2. q \in Pids BY <2>5
      <4>3. CASE q = p /\ i >= start
        <5>1. i \in start .. start + l - 1 BY <4>1, <4>3, <2>1, <2>4
        <5> QED BY <4>1, <4>3, <5>1, <2>8, <2>9
      <4>4. CASE ~(q = p /\ i >= start)
        <5>1. i < Count(d, q) BY <4>1, <4>4, <2>4, <2>1 DEF Count
        <5>2. k \in DOMAIN d.table BY <4>1, <4>2, <5>1, KeyHeld
        <5> QED BY <5>2, <2>9
      <4> QED BY <4>3, <4>4
    <3> QED BY <3>1, <3>2
  <2>13. \A k \in DOMAIN t : t[k] \in U
    <3> TAKE k \in DOMAIN t
    <3>1. CASE k \in keys
      <4>1. PICK i \in start .. start + l - 1 : k = EntryKey(p, i) BY <3>1, <2>7
      <4> QED BY <4>1, <2>8
    <3>2. CASE k \notin keys
      <4>1. k \in DOMAIN d.table /\ t[k] = d.table[k] BY <3>2, <2>9
      <4> QED BY <4>1, <2>3
    <3> QED BY <3>1, <3>2
  <2>14. e \in Dbs(U)
    <3>1. t \in [EntryKeys(e) -> U] BY <2>9, <2>12, <2>13
    <3>2. PICK z : z = e OBVIOUS
    <3>3. z = [counts |-> c, table |-> t] /\ t \in [EntryKeys(z) -> U] BY <3>1, <3>2
    <3>4. z \in Dbs(U) BY <3>3, <2>5, DbMade
    <3> QED BY <3>2, <3>4
  <2>15. ASSUME NEW q \in Pids, q # p PROVE Entries(e, q) = Entries(d, q)
    <3>1. Count(e, q) = Count(d, q) /\ Count(d, q) \in Nat BY <2>11, <2>15, CountNatural
    <3>2. ASSUME NEW i \in Nat, i < Count(d, q) PROVE e.table[EntryKey(q, i)] = d.table[EntryKey(q, i)]
      <4>1. EntryKey(q, i) \in DOMAIN d.table /\ EntryKey(q, i) \notin keys BY <3>2, <2>15, <2>10, KeyHeld
      <4> QED BY <4>1, <2>9
    <3> QED BY <3>1, <3>2, SameEntries
  <2>16. Entries(e, p) = Entries(d, p) \o values
    <3>1. PICK a \in Seq(U) : a = Entries(d, p) /\ Len(a) = start BY <2>1, EntriesTypes
    <3>q. a \o values \in Seq(U) BY ONLY a \in Seq(U), values \in Seq(U)
    <3>2. PICK h \in Seq(U) : h = a \o values BY <3>q
    <3>3. Len(h) = start + l /\ \A j \in 1 .. start + l : h[j] = IF j <= start THEN a[j] ELSE values[j - start]
      BY ONLY <3>1, <3>2, <2>1, a \in Seq(U), values \in Seq(U)
    <3>4. ASSUME NEW j \in 1 .. start + l PROVE e.table[EntryKey(p, j - 1)] = h[j]
      <4>1. CASE j <= start
        <5>1. j \in 1 .. start /\ j - 1 \in Nat /\ j - 1 < start /\ j - 1 \notin start .. start + l - 1 BY <4>1, <2>1
        <5>2. a[j] = d.table[EntryKey(p, j - 1)] BY <3>1, <5>1, <2>1 DEF Entries
        <5>3. EntryKey(p, j - 1) \in DOMAIN d.table /\ EntryKey(p, j - 1) \notin keys BY <5>1, <2>1, <2>10, KeyHeld
        <5> QED BY <4>1, <5>2, <5>3, <2>9, <3>3
      <4>2. CASE ~(j <= start)
        <5>1. j - 1 \in start .. start + l - 1 /\ (j - 1) - start + 1 = j - start BY <4>2, <2>1
        <5>2. t[EntryKey(p, j - 1)] = values[(j - 1) - start + 1] BY <5>1, <2>8
        <5> QED BY <4>2, <5>1, <5>2, <3>3
      <4> QED BY <4>1, <4>2
    <3>5. h = [j \in 1 .. Len(h) |-> h[j]] OBVIOUS
    <3>6. Entries(e, p) = h BY <3>3, <3>4, <3>5, <2>11 DEF Entries
    <3> QED BY <3>1, <3>2, <3>6
  <2> HIDE DEF e
  <2> QED BY <2>2, <2>14, <2>15, <2>16
<1> QED BY <1>1, <1>2

\* clear_partitions empties its partitions and leaves the others as they were.
LEMMA ClearedIs ==
    ASSUME NEW U, NEW d \in Dbs(U), NEW pids \in Seq(Pids)
    PROVE  /\ Cleared(d, pids) \in Dbs(U)
           /\ \A q \in Range(pids) : Entries(Cleared(d, pids), q) = <<>>
           /\ \A q \in Pids : q \notin Range(pids) => Entries(Cleared(d, pids), q) = Entries(d, q)
<1> DEFINE gone == UNION {ClearedKeys(d, p) : p \in Range(pids)}
           c == [q \in DOMAIN d.counts \ Range(pids) |-> d.counts[q]]
           t == [k \in DOMAIN d.table \ gone |-> d.table[k]]
           e == [counts |-> c, table |-> t]
<1>1. Cleared(d, pids) = e BY DEF Cleared
<1>2. Range(pids) \in SUBSET Pids BY DEF Range
<1>3. /\ DOMAIN d.counts \in SUBSET Pids /\ d.counts \in [DOMAIN d.counts -> Nat]
      /\ DOMAIN d.table = EntryKeys(d) /\ d.table \in [EntryKeys(d) -> U]
  BY DbFacts
<1>4. ASSUME NEW q \in Pids, NEW i \in Nat, EntryKey(q, i) \in DOMAIN d.table
      PROVE  EntryKey(q, i) \in gone <=> q \in Range(pids)
  <2>1. \A p \in Range(pids) : EntryKey(q, i) \in ClearedKeys(d, p) <=> q = p
    <3> TAKE p \in Range(pids)
    <3>1. p \in Pids /\ 0 \in Nat BY <1>2
    <3>2. (~Less(EntryKey(q, i), EntryKey(p, 0)) /\ Less(EntryKey(q, i), EntryEnd(p))) <=> q = p /\ i >= 0
      BY <3>1, ScanMeets
    <3> QED BY <3>2, <1>4 DEF ClearedKeys
  <2> QED BY <2>1
<1> HIDE DEF gone
<1>5. DOMAIN c = DOMAIN d.counts \ Range(pids) /\ \A q \in DOMAIN c : c[q] = d.counts[q] OBVIOUS
<1>6. DOMAIN t = DOMAIN d.table \ gone /\ \A k \in DOMAIN t : t[k] = d.table[k] OBVIOUS
<1>7. c \in [DOMAIN c -> Nat] /\ DOMAIN c \in SUBSET Pids BY <1>3
<1>8. DOMAIN t = EntryKeys(e)
  <2>1. ASSUME NEW k \in DOMAIN t PROVE k \in EntryKeys(e)
    <3>1. k \in DOMAIN d.table /\ k \notin gone BY <1>6
    <3>2. k \in Seq(Nat) /\ k \in EntryKeys(d) BY <3>1, <1>3 DEF EntryKeys
    <3>3. PICK q \in DOMAIN d.counts, i \in Nat : i < d.counts[q] /\ k = EntryKey(q, i) BY <3>2 DEF EntryKeys
    <3>4. q \in DOMAIN c BY <3>1, <3>3, <1>3, <1>4, <1>5
    <3> QED BY <3>2, <3>3, <3>4, <1>5 DEF EntryKeys
  <2>2. ASSUME NEW k \in EntryKeys(e) PROVE k \in DOMAIN t
    <3>1. PICK q \in DOMAIN c, i \in Nat : i < c[q] /\ k = EntryKey(q, i) BY DEF EntryKeys
    <3>2. q \in Pids /\ q \in DOMAIN d.counts /\ q \notin Range(pids) /\ i < Count(d, q) BY <3>1, <1>3, <1>5 DEF Count
    <3>3. k \in DOMAIN d.table BY <3>1, <3>2, KeyHeld
    <3> QED BY <3>1, <3>2, <3>3, <1>4, <1>6
  <2> QED BY <2>1, <2>2
<1> HIDE DEF c, t
<1>9. e \in Dbs(U)
  <2>1. t \in [EntryKeys(e) -> U] BY <1>3, <1>6, <1>8 DEF t
  <2>2. PICK z : z = e OBVIOUS
  <2>3. z = [counts |-> c, table |-> t] /\ t \in [EntryKeys(z) -> U] BY <2>1, <2>2
  <2>4. z \in Dbs(U) BY <2>3, <1>7, DbMade
  <2> QED BY <2>2, <2>4
<1>10. ASSUME NEW q \in Range(pids) PROVE Entries(e, q) = <<>>
  <2>1. Count(e, q) = 0 BY <1>5 DEF Count
  <2> QED BY <2>1 DEF Entries
<1>11. ASSUME NEW q \in Pids, q \notin Range(pids) PROVE Entries(e, q) = Entries(d, q)
  <2>1. Count(e, q) = Count(d, q) /\ Count(d, q) \in Nat BY <1>5, <1>11, CountNatural DEF Count
  <2>2. ASSUME NEW i \in Nat, i < Count(d, q) PROVE e.table[EntryKey(q, i)] = d.table[EntryKey(q, i)]
    <3>1. EntryKey(q, i) \in DOMAIN d.table BY <2>2, KeyHeld
    <3> QED BY <3>1, <1>4, <1>6, <1>11
  <2> QED BY <2>1, <2>2, SameEntries
<1> HIDE DEF e
<1> QED BY <1>1, <1>9, <1>10, <1>11

LEMMA EmptyDbIs == ASSUME NEW U PROVE EmptyDb \in Dbs(U) /\ \A q \in Pids : Entries(EmptyDb, q) = <<>>
<1>1. DOMAIN EmptyDb.counts = {} /\ EmptyDb.counts = <<>> /\ EmptyDb.table = <<>> BY DEF EmptyDb
<1>2. EntryKeys(EmptyDb) = {} BY <1>1 DEF EntryKeys
<1>3. <<>> \in [{} -> Nat] /\ <<>> \in [{} -> U] /\ DOMAIN <<>> = {} OBVIOUS
<1>4. EmptyDb \in Dbs(U)
  <2>1. PICK d : d = EmptyDb OBVIOUS
  <2>2. d = [counts |-> <<>>, table |-> <<>>] BY <2>1 DEF EmptyDb
  <2>3. <<>> \in [EntryKeys(d) -> U] BY <2>1, <1>2, <1>3
  <2>4. d \in Dbs(U) BY <2>2, <2>3, <1>3, DbMade
  <2> QED BY <2>1, <2>4
<1>5. \A q : Count(EmptyDb, q) = 0 BY <1>1 DEF Count
<1> QED BY <1>4, <1>5 DEF Entries

\* A store of some values is one of more values.
LEMMA MoreValues == ASSUME NEW U, NEW W, U \subseteq W, NEW d \in Dbs(U) PROVE d \in Dbs(W)
<1>1. /\ d = [counts |-> d.counts, table |-> d.table]
      /\ DOMAIN d.counts \in SUBSET Pids /\ d.counts \in [DOMAIN d.counts -> Nat]
      /\ d.table \in [EntryKeys(d) -> U]
  BY DbFacts
<1>2. d.table \in [EntryKeys(d) -> W] BY <1>1
<1>3. PICK c, t : c = d.counts /\ t = d.table OBVIOUS
<1>4. d = [counts |-> c, table |-> t] /\ t \in [EntryKeys(d) -> W] /\ DOMAIN c \in SUBSET Pids /\ c \in [DOMAIN c -> Nat]
  BY <1>1, <1>2, <1>3
<1> QED BY <1>4, DbMade

\* Partition ids that are all different.
Distinct(pids) == pids \in Seq(Pids) /\ \A g, h \in DOMAIN pids : g # h => pids[g] # pids[h]

\* The groups follow the entries of their partitions, in one transaction each.
LEMMA AppendedGroupsIs ==
    ASSUME NEW U, NEW d \in Dbs(U), NEW pids, Distinct(pids), NEW groups, \A g \in DOMAIN pids : groups[g] \in Seq(U)
    PROVE  /\ AppendedGroups(d, pids, groups) \in Dbs(U)
           /\ \A g \in DOMAIN pids : Entries(AppendedGroups(d, pids, groups), pids[g]) = Entries(d, pids[g]) \o groups[g]
           /\ \A q \in Pids : q \notin Range(pids) => Entries(AppendedGroups(d, pids, groups), q) = Entries(d, q)
<1>1. PICK n \in Nat : n = Len(pids) /\ DOMAIN pids = 1 .. n BY DEF Distinct
<1>2. \A g \in 1 .. n : pids[g] \in Pids /\ groups[g] \in Seq(U) BY <1>1 DEF Distinct
<1> DEFINE V == Dbs(U)
           G == [g \in 1 .. n |-> [e \in V |-> Appended(e, pids[g], groups[g])]]
           Rec(f) == f = [g \in 0 .. n |-> IF g = 0 THEN d ELSE Appended(f[g - 1], pids[g], groups[g])]
           run == CHOOSE f : Rec(f)
<1>3. G \in [1 .. n -> [V -> V]]
  <2>1. ASSUME NEW g \in 1 .. n, NEW e \in V PROVE Appended(e, pids[g], groups[g]) \in V
    BY <1>2, AppendedIs
  <2> HIDE DEF V
  <2> QED BY <2>1
<1>4. \E f : Rec(f) /\ \A g \in 0 .. n : f[g] \in V
  <2>1. PICK f : Runs(f, n, d, G, V)
    <3> HIDE DEF G, V
    <3>1. d \in V BY DEF V
    <3> QED BY <1>3, <3>1, RunExists
  <2>2. f \in [0 .. n -> V] /\ f[0] = d /\ \A g \in 1 .. n : f[g] = G[g][f[g - 1]]
    <3> HIDE DEF G, V
    <3> QED BY <2>1 DEF Runs
  <2>3. ASSUME NEW g \in 0 .. n PROVE f[g] = IF g = 0 THEN d ELSE Appended(f[g - 1], pids[g], groups[g])
    <3>1. CASE g = 0 BY <3>1, <2>2
    <3>2. CASE g # 0
      <4>1. g \in 1 .. n /\ g - 1 \in 0 .. n BY <3>2
      <4>2. f[g - 1] \in V BY <2>2, <4>1
      <4>3. f[g] = Appended(f[g - 1], pids[g], groups[g])
        <5> HIDE DEF V
        <5> QED BY <2>2, <4>1, <4>2
      <4> QED BY <3>2, <4>3
    <3> QED BY <3>1, <3>2
  <2> HIDE DEF V
  <2>4. f = [g \in 0 .. n |-> f[g]] BY <2>2
  <2>5. Rec(f) BY <2>3, <2>4
  <2> QED BY <2>5, <2>2
<1>5. Rec(run)
  <2> HIDE DEF Rec, V
  <2> QED BY <1>4
<1>6. AppendedGroups(d, pids, groups) = run[n] BY <1>1 DEF AppendedGroups
<1> HIDE DEF run
<1>7. run[0] = d /\ \A g \in 0 .. n - 1 : run[g + 1] = Appended(run[g], pids[g + 1], groups[g + 1])
  <2>1. ASSUME NEW g \in 0 .. n PROVE run[g] = IF g = 0 THEN d ELSE Appended(run[g - 1], pids[g], groups[g]) BY <1>5
  <2>2. run[0] = d BY <2>1
  <2>3. ASSUME NEW g \in 0 .. n - 1 PROVE run[g + 1] = Appended(run[g], pids[g + 1], groups[g + 1])
    <3>1. g + 1 \in 0 .. n /\ g + 1 # 0 /\ (g + 1) - 1 = g OBVIOUS
    <3>2. run[g + 1] = Appended(run[(g + 1) - 1], pids[g + 1], groups[g + 1]) BY <2>1, <3>1
    <3> QED BY <3>1, <3>2
  <2> QED BY <2>2, <2>3
<1> HIDE DEF Rec
<1> DEFINE After(e, m) == /\ e \in Dbs(U)
                          /\ \A g \in 1 .. n : Entries(e, pids[g]) = IF g <= m THEN Entries(d, pids[g]) \o groups[g] ELSE Entries(d, pids[g])
                          /\ \A q \in Pids : q \notin Range(pids) => Entries(e, q) = Entries(d, q)
           S == {m \in Nat : m <= n => After(run[m], m)}
<1>8. 0 \in S BY <1>7
<1>9. ASSUME NEW m \in S PROVE m + 1 \in S
  <2> SUFFICES ASSUME m + 1 <= n PROVE After(run[m + 1], m + 1) OBVIOUS
  <2>1. m \in 0 .. n - 1 /\ m + 1 \in 1 .. n /\ m \in Nat OBVIOUS
  <2>2. After(run[m], m) BY <2>1
  <2>3. run[m + 1] = Appended(run[m], pids[m + 1], groups[m + 1]) BY <2>1, <1>7
  <2>4. PICK e \in Dbs(U) : e = run[m] BY <2>2
  <2>5. PICK p \in Pids : p = pids[m + 1] BY <2>1, <1>2
  <2>v. PICK v \in Seq(U) : v = groups[m + 1] BY <1>2, <2>1
  <2>6. /\ Appended(e, p, v) \in Dbs(U)
        /\ Entries(Appended(e, p, v), p) = Entries(e, p) \o v
        /\ \A q \in Pids : q # p => Entries(Appended(e, p, v), q) = Entries(e, q)
    BY AppendedIs
  <2>7. PICK a : a = run[m + 1] OBVIOUS
  <2>8. a \in Dbs(U) /\ Entries(a, p) = Entries(e, p) \o groups[m + 1] /\ \A q \in Pids : q # p => Entries(a, q) = Entries(e, q)
    BY <2>3, <2>4, <2>5, <2>6, <2>7, <2>v
  <2>9. ASSUME NEW g \in 1 .. n PROVE Entries(a, pids[g]) = IF g <= m + 1 THEN Entries(d, pids[g]) \o groups[g] ELSE Entries(d, pids[g])
    <3>1. Entries(e, pids[g]) = IF g <= m THEN Entries(d, pids[g]) \o groups[g] ELSE Entries(d, pids[g]) BY <2>2, <2>4
    <3>2. CASE g = m + 1
      <4>1. ~(g <= m) /\ g <= m + 1 /\ pids[g] = p /\ groups[g] = groups[m + 1] BY <3>2, <2>1, <2>5
      <4> QED BY <3>1, <4>1, <2>8
    <3>3. CASE g # m + 1
      <4>1. pids[g] # p /\ pids[g] \in Pids BY <3>3, <2>1, <2>5, <1>1, <1>2 DEF Distinct
      <4>2. g <= m + 1 <=> g <= m BY <3>3, <2>1
      <4> QED BY <3>1, <4>1, <4>2, <2>8
    <3> QED BY <3>2, <3>3
  <2>10. ASSUME NEW q \in Pids, q \notin Range(pids) PROVE Entries(a, q) = Entries(d, q)
    <3>1. q # p BY <2>5, <2>10, <2>1, <1>1 DEF Range
    <3> QED BY <3>1, <2>8, <2>2, <2>4, <2>10
  <2> QED BY <2>7, <2>8, <2>9, <2>10
<1>10. S = Nat
  <2> HIDE DEF S
  <2>1. S \in SUBSET Nat BY DEF S
  <2> QED BY <1>8, <1>9, <2>1, AllNumbers
<1>11. After(run[n], n)
  <2>1. n \in S BY <1>10
  <2> HIDE DEF After
  <2>2. n <= n OBVIOUS
  <2> QED BY <2>1, <2>2
<1>12. \A g \in 1 .. n : g <= n OBVIOUS
<1>13. PICK a : a = run[n] OBVIOUS
<1>14. /\ a \in Dbs(U) /\ \A g \in 1 .. n : Entries(a, pids[g]) = Entries(d, pids[g]) \o groups[g]
       /\ \A q \in Pids : q \notin Range(pids) => Entries(a, q) = Entries(d, q)
  BY <1>11, <1>12, <1>13
<1> HIDE DEF After, S
<1> QED BY <1>1, <1>6, <1>13, <1>14

-----------------------------------------------------------------------------
(* Items go to the parts they are assigned to.                                *)

ByRank(S) == [i \in 1 .. Cardinality(S) |-> CHOOSE x \in S : Cardinality({y \in S : y < x}) = i - 1]

\* Numbers by rank: each comes once.
LEMMA RankIs ==
    ASSUME NEW S \in SUBSET Nat, IsFiniteSet(S)
    PROVE  /\ Cardinality(S) \in Nat /\ ByRank(S) \in [1 .. Cardinality(S) -> S]
           /\ \A i, j \in 1 .. Cardinality(S) : i # j => ByRank(S)[i] # ByRank(S)[j]
           /\ \A x \in S : \E i \in 1 .. Cardinality(S) : ByRank(S)[i] = x
<1>1. PICK n \in Nat : n = Cardinality(S) BY FS_CardinalityType
<1> DEFINE T(x) == {y \in S : y < x}
           r == [x \in S |-> Cardinality(T(x))]
<1>2. ASSUME NEW x \in S PROVE IsFiniteSet(T(x)) /\ Cardinality(T(x)) \in 0 .. n - 1
  <2>1. T(x) \in SUBSET S /\ x \notin T(x) OBVIOUS
  <2>2. PICK t : t = T(x) OBVIOUS
  <2> HIDE DEF T
  <2>3. IsFiniteSet(t) /\ Cardinality(t) <= Cardinality(S) /\ (Cardinality(S) = Cardinality(t) => S = t)
    BY <2>1, <2>2, FS_Subset
  <2>4. Cardinality(t) \in Nat BY <2>3, FS_CardinalityType
  <2>5. Cardinality(t) # n BY <2>1, <2>2, <2>3, <1>1
  <2> QED BY <2>2, <2>3, <2>4, <2>5, <1>1
<1>3. ASSUME NEW x \in S, NEW z \in S, x < z PROVE Cardinality(T(x)) < Cardinality(T(z))
  <2>1. T(x) \in SUBSET T(z) /\ x \in T(z) /\ x \notin T(x)
    <3>1. \A y \in S : y < x => y < z BY <1>3
    <3>2. x \in Nat /\ ~(x < x) OBVIOUS
    <3>3. T(x) \in SUBSET T(z) BY <3>1
    <3>4. x \in T(z) /\ x \notin T(x) BY <3>2, <1>3
    <3> QED BY <3>3, <3>4
  <2>2. PICK t, u : t = T(x) /\ u = T(z) OBVIOUS
  <2>3. IsFiniteSet(u) /\ Cardinality(u) \in Nat /\ Cardinality(t) \in Nat BY <1>2, <2>2
  <2> HIDE DEF T
  <2>4. Cardinality(t) <= Cardinality(u) /\ (Cardinality(u) = Cardinality(t) => u = t) BY <2>1, <2>2, <2>3, FS_Subset
  <2> QED BY <2>1, <2>2, <2>3, <2>4
<1> HIDE DEF T
<1>4. r \in [S -> 0 .. n - 1] BY <1>2
<1>5. ASSUME NEW x \in S, NEW z \in S, x # z PROVE r[x] # r[z]
  <2>1. x < z \/ z < x BY <1>5
  <2>2. Cardinality(T(x)) \in Nat /\ Cardinality(T(z)) \in Nat BY <1>2
  <2> QED BY <2>1, <2>2, <1>3
<1>6. \A x \in S : r[x] = Cardinality(T(x)) OBVIOUS
<1> HIDE DEF r
<1>7. r \in Injection(S, 0 .. n - 1) BY <1>4, <1>5 DEF Injection, IsInjective
<1>8. IsFiniteSet(0 .. n - 1) /\ Cardinality(0 .. n - 1) = n
  <2>1. 0 \in Int /\ n - 1 \in Int OBVIOUS
  <2>2. IsFiniteSet(0 .. n - 1) /\ Cardinality(0 .. n - 1) = IF 0 > n - 1 THEN 0 ELSE n - 1 - 0 + 1 BY <2>1, FS_Interval
  <2> QED BY <2>2
<1>9. r \in Surjection(S, 0 .. n - 1)
  <2>1. PICK N : N = 0 .. n - 1 OBVIOUS
  <2>2. r \in Injection(S, N) /\ IsFiniteSet(N) /\ Cardinality(S) = Cardinality(N) BY <2>1, <1>1, <1>7, <1>8
  <2>3. r \in Surjection(S, N) BY <2>2, FS_Injection
  <2> QED BY <2>1, <2>3
<1>10. \A i \in 0 .. n - 1 : \E x \in S : r[x] = i BY <1>9 DEF Surjection
<1> DEFINE f == ByRank(S)
<1>11. ASSUME NEW i \in 1 .. n PROVE f[i] \in S /\ r[f[i]] = i - 1
  <2>1. f[i] = CHOOSE x \in S : Cardinality(T(x)) = i - 1 BY <1>1 DEF ByRank, T
  <2>2. i - 1 \in 0 .. n - 1 OBVIOUS
  <2>3. PICK x \in S : Cardinality(T(x)) = i - 1 BY <2>2, <1>10, <1>6
  <2>4. f[i] \in S /\ Cardinality(T(f[i])) = i - 1
    <3> HIDE DEF f
    <3> QED BY <2>1, <2>3
  <2> QED BY <2>4, <1>6
<1>12. f = [i \in 1 .. n |-> f[i]] BY <1>1 DEF ByRank
<1> HIDE DEF f
<1>13. f \in [1 .. n -> S] BY <1>11, <1>12
<1>14. \A i, j \in 1 .. n : i # j => f[i] # f[j]
  <2>1. \A i, j \in 1 .. n : i - 1 = j - 1 => i = j OBVIOUS
  <2> QED BY <2>1, <1>11
<1>15. ASSUME NEW x \in S PROVE \E i \in 1 .. n : f[i] = x
  <2>1. r[x] \in 0 .. n - 1 BY <1>4
  <2>2. PICK i : i = r[x] + 1 OBVIOUS
  <2>3. i \in 1 .. n /\ i - 1 = r[x] BY <2>1, <2>2
  <2>4. f[i] \in S /\ r[f[i]] = r[x] BY <2>3, <1>11
  <2>5. f[i] = x BY <2>4, <1>5
  <2> QED BY <2>3, <2>5
<1> QED BY <1>1, <1>13, <1>14, <1>15 DEF f

\* The positions from a to b that are assigned to g.
Members(at, g, a, b) == {j \in a .. b : at[j] = g}

\* The values at these positions.
Picked(values, S) == {values[j] : j \in S}

LEMMA MembersFinite ==
    ASSUME NEW at, NEW g, NEW a \in Nat, NEW b \in Nat
    PROVE  /\ IsFiniteSet(Members(at, g, a, b)) /\ Cardinality(Members(at, g, a, b)) \in Nat
           /\ Members(at, g, a, b) \in SUBSET Nat
<1>1. Members(at, g, a, b) \in SUBSET (a .. b) /\ Members(at, g, a, b) \in SUBSET Nat BY DEF Members
<1>2. a \in Int /\ b \in Int OBVIOUS
<1>3. IsFiniteSet(a .. b) BY <1>2, FS_Interval
<1>4. IsFiniteSet(Members(at, g, a, b)) BY <1>1, <1>3, FS_Subset
<1> QED BY <1>1, <1>4, FS_CardinalityType

LEMMA GroupedIs ==
    ASSUME NEW U, NEW values \in Seq(U), NEW at, NEW count \in Nat, NEW g \in 1 .. count
    PROVE  /\ Grouped(values, at, count)[g] \in Seq(U)
           /\ Len(Grouped(values, at, count)[g]) = Cardinality(Members(at, g, 1, Len(values)))
           /\ Range(Grouped(values, at, count)[g]) = Picked(values, Members(at, g, 1, Len(values)))
<1>1. PICK l \in Nat : l = Len(values) /\ DOMAIN values = 1 .. l OBVIOUS
<1>2. PICK S : S = Members(at, g, 1, l) OBVIOUS
<1>3. S = {j \in DOMAIN values : at[j] = g} BY <1>1, <1>2 DEF Members
<1>4. S \in SUBSET Nat /\ IsFiniteSet(S)
  <2>1. 1 \in Nat OBVIOUS
  <2> QED BY <2>1, <1>2, MembersFinite
<1>n. PICK n \in Nat : n = Cardinality(S) BY <1>4, RankIs
<1>f. PICK f : f = ByRank(S) OBVIOUS
<1>5. /\ f = ByRank(S) /\ n = Cardinality(S) /\ f \in [1 .. n -> S]
      /\ \A x \in S : \E i \in 1 .. n : f[i] = x
  BY <1>n, <1>f, <1>4, RankIs
<1>6. DOMAIN f = 1 .. n BY <1>5
<1>7. Grouped(values, at, count)[g] = [i \in DOMAIN f |-> values[f[i]]]
  <2>1. Grouped(values, at, count)[g] =
            LET here == Ordered(S, <) IN [i \in DOMAIN here |-> values[here[i]]]
    BY <1>3 DEF Grouped
  <2>2. Ordered(S, <) = f BY <1>5 DEF Ordered, ByRank
  <2> QED BY <2>1, <2>2
<1>8. PICK w : w = [i \in 1 .. n |-> values[f[i]]] OBVIOUS
<1>9. \A i \in 1 .. n : f[i] \in DOMAIN values /\ values[f[i]] \in U BY <1>1, <1>3, <1>5
<1>10. w \in Seq(U) /\ Len(w) = n /\ DOMAIN w = 1 .. n BY <1>8, <1>9
<1>11. Range(w) = Picked(values, S)
  <2>1. \A i \in 1 .. n : w[i] = values[f[i]] /\ f[i] \in S BY <1>8, <1>5
  <2>2. \A j \in S : \E i \in 1 .. n : w[i] = values[j]
    <3> TAKE j \in S
    <3>1. PICK i \in 1 .. n : f[i] = j BY <1>5
    <3> QED BY <3>1, <2>1
  <2>3. Range(w) = {w[i] : i \in 1 .. n} BY <1>10 DEF Range
  <2>4. {w[i] : i \in 1 .. n} \subseteq Picked(values, S) BY <2>1 DEF Picked
  <2>5. Picked(values, S) \subseteq {w[i] : i \in 1 .. n} BY <2>2 DEF Picked
  <2> QED BY <2>3, <2>4, <2>5
<1> QED BY <1>1, <1>2, <1>5, <1>6, <1>7, <1>8, <1>10, <1>11 DEF Picked

\* b is the part of the assignment from x to m.
Behind(b, at, x, m) == \A j \in 1 .. m - x : b[j] = at[x + j]

\* The members up to m are those up to x and those behind, by their place there.
LEMMA MembersSplit ==
    ASSUME NEW at, NEW g, NEW x \in Nat, NEW m \in Nat, x <= m, NEW b, Behind(b, at, x, m)
    PROVE  /\ Cardinality(Members(at, g, 1, m)) = Cardinality(Members(at, g, 1, x)) + Cardinality(Members(b, g, 1, m - x))
           /\ \A j : j \in Members(at, g, 1, m) <=> j \in Members(at, g, 1, x) \/ \E k \in Members(b, g, 1, m - x) : j = x + k
<1> DEFINE A == Members(at, g, 1, x)
           B == Members(at, g, x + 1, m)
           C == Members(b, g, 1, m - x)
           f == [k \in C |-> x + k]
<1>1. 1 \in Nat /\ x + 1 \in Nat /\ m - x \in Nat OBVIOUS
<1>2. IsFiniteSet(A) /\ IsFiniteSet(B) /\ IsFiniteSet(C) /\ Cardinality(A) \in Nat /\ Cardinality(B) \in Nat /\ Cardinality(C) \in Nat
  BY <1>1, MembersFinite
<1>3. ASSUME NEW k \in C PROVE x + k \in B
  <2>1. k \in 1 .. m - x /\ b[k] = g BY DEF Members
  <2>2. x + k \in x + 1 .. m /\ b[k] = at[x + k] BY <2>1 DEF Behind
  <2> QED BY <2>1, <2>2 DEF Members
<1>4. ASSUME NEW j \in B PROVE j - x \in C /\ j = x + (j - x)
  <2>1. j \in x + 1 .. m /\ at[j] = g BY DEF Members
  <2>2. j - x \in 1 .. m - x /\ j = x + (j - x) BY <2>1
  <2>3. b[j - x] = at[x + (j - x)] BY <2>2 DEF Behind
  <2> QED BY <2>1, <2>2, <2>3 DEF Members
<1>5. f \in Bijection(C, B)
  <2>1. f \in [C -> B]
    <3> HIDE DEF C, B
    <3> QED BY <1>3
  <2>2. \A k \in C : k \in Nat BY DEF Members
  <2>3. \A k, l \in C : f[k] = f[l] => k = l
    <3> HIDE DEF C
    <3> QED BY <2>2
  <2>4. \A j \in B : \E k \in C : f[k] = j
    <3> HIDE DEF C, B
    <3> QED BY <1>4
  <2> HIDE DEF f, B, C
  <2> QED BY <2>1, <2>3, <2>4 DEF Bijection, Injection, Surjection, IsInjective
<1>6. Cardinality(B) = Cardinality(C)
  <2> HIDE DEF f, B, C
  <2>1. ExistsBijection(C, B) BY <1>5 DEF ExistsBijection
  <2> QED BY <2>1, <1>2, FS_Bijection
<1>7. Members(at, g, 1, m) = A \cup B /\ A \cap B = {}
  <2>1. \A j \in 1 .. m : j \in 1 .. x \/ j \in x + 1 .. m OBVIOUS
  <2>2. \A j \in 1 .. x : j \in 1 .. m OBVIOUS
  <2>3. \A j \in x + 1 .. m : j \in 1 .. m OBVIOUS
  <2>4. \A j \in 1 .. x : j \notin x + 1 .. m OBVIOUS
  <2> QED BY <2>1, <2>2, <2>3, <2>4 DEF Members
<1>8. Cardinality(A \cup B) = Cardinality(A) + Cardinality(B)
  <2> HIDE DEF A, B
  <2>1. Cardinality(A \cup B) = Cardinality(A) + Cardinality(B) - Cardinality(A \cap B) BY <1>2, FS_Union
  <2>2. Cardinality(A \cap B) = 0 BY <1>7, FS_EmptySet
  <2> QED BY <2>1, <2>2, <1>2
<1>9. \A j : j \in B <=> \E k \in C : j = x + k
  <2> HIDE DEF B, C
  <2> QED BY <1>3, <1>4
<1> HIDE DEF A, B, C
<1> QED BY <1>6, <1>7, <1>8, <1>9 DEF A, C

\* What the parts hold when the first x values have been written.
Parted(e, d, pids, values, at, x) ==
    /\ \A g \in DOMAIN pids :
          /\ Len(Entries(e, pids[g])) = Cardinality(Members(at, g, 1, x))
          /\ Range(Entries(e, pids[g])) = Picked(values, Members(at, g, 1, x))
    /\ \A q \in Pids : q \notin Range(pids) => Entries(e, q) = Entries(d, q)

LEMMA RangeJoined == ASSUME NEW U, NEW a \in Seq(U), NEW b \in Seq(U)
                     PROVE  a \o b \in Seq(U) /\ Len(a \o b) = Len(a) + Len(b) /\ Range(a \o b) = Range(a) \cup Range(b)
<1>0. a \o b \in Seq(U) OBVIOUS
<1>1. PICK c \in Seq(U) : c = a \o b BY <1>0
<1>2. PICK m \in Nat, n \in Nat : m = Len(a) /\ n = Len(b) /\ DOMAIN a = 1 .. m /\ DOMAIN b = 1 .. n OBVIOUS
<1>3. Len(c) = m + n /\ DOMAIN c = 1 .. m + n BY <1>1, <1>2
<1>4. \A j \in 1 .. m : c[j] = a[j] /\ j \in 1 .. m + n BY <1>1, <1>2
<1>5. \A j \in 1 .. n : c[m + j] = b[j] /\ m + j \in 1 .. m + n BY <1>1, <1>2
<1>6. \A j \in 1 .. m + n : j \in 1 .. m \/ (j - m \in 1 .. n /\ j = m + (j - m)) BY <1>2
<1>7. Range(a) \subseteq Range(c) BY <1>2, <1>3, <1>4 DEF Range
<1>8. Range(b) \subseteq Range(c) BY <1>2, <1>3, <1>5 DEF Range
<1>9. ASSUME NEW v \in Range(c) PROVE v \in Range(a) \cup Range(b)
  <2>1. PICK j \in 1 .. m + n : v = c[j] BY <1>3 DEF Range
  <2>2. CASE j \in 1 .. m BY <2>1, <2>2, <1>2, <1>4 DEF Range
  <2>3. CASE j \notin 1 .. m
    <3>1. j - m \in 1 .. n /\ j = m + (j - m) BY <2>3, <1>6
    <3>2. PICK k \in 1 .. n : j = m + k BY <3>1
    <3>3. v = b[k] BY <3>2, <2>1, <1>5
    <3> QED BY <3>2, <3>3, <1>2 DEF Range
  <2> QED BY <2>2, <2>3
<1> QED BY <1>1, <1>2, <1>3, <1>7, <1>8, <1>9

\* One batch more.
LEMMA BatchParted ==
    ASSUME NEW U, NEW d, NEW e \in Dbs(U), NEW pids, Distinct(pids), NEW values \in Seq(U), NEW at,
           NEW x \in Nat, NEW m \in Nat, x <= m, m <= Len(values), Parted(e, d, pids, values, at, x),
           NEW batch, batch = SubSeq(values, x + 1, m), NEW b, Behind(b, at, x, m)
    PROVE  LET n == AppendedGroups(e, pids, Grouped(batch, b, Len(pids)))
           IN  n \in Dbs(U) /\ Parted(n, d, pids, values, at, m)
<1>1. PICK count \in Nat : count = Len(pids) /\ DOMAIN pids = 1 .. count BY DEF Distinct
<1>2. PICK groups : groups = Grouped(batch, b, count) OBVIOUS
<1>3. batch \in Seq(U) /\ Len(batch) = m - x /\ DOMAIN batch = 1 .. m - x /\ \A j \in 1 .. m - x : batch[j] = values[x + j]
  <2>1. x + 1 \in 1 .. Len(values) + 1 /\ m \in Nat /\ m - x \in Nat OBVIOUS
  <2>2. \A j \in 1 .. m - x : x + j \in 1 .. Len(values) OBVIOUS
  <2>3. m - (x + 1) + 1 = m - x OBVIOUS
  <2>4. batch = [j \in 1 .. m - x |-> values[x + 1 + j - 1]] BY <2>1, <2>3
  <2>5. \A j \in 1 .. m - x : x + 1 + j - 1 = x + j OBVIOUS
  <2>6. batch = [j \in 1 .. m - x |-> values[x + j]] BY <2>4, <2>5
  <2>7. \A j \in 1 .. m - x : values[x + j] \in U BY <2>2
  <2> QED BY <2>1, <2>6, <2>7
<1>4. ASSUME NEW g \in 1 .. count
      PROVE  /\ groups[g] \in Seq(U) /\ Len(groups[g]) = Cardinality(Members(b, g, 1, m - x))
             /\ Range(groups[g]) = Picked(batch, Members(b, g, 1, m - x))
  <2>1. /\ groups[g] \in Seq(U) /\ Len(groups[g]) = Cardinality(Members(b, g, 1, Len(batch)))
        /\ Range(groups[g]) = Picked(batch, Members(b, g, 1, Len(batch)))
    BY ONLY <1>2, <1>3, count \in Nat, g \in 1 .. count, GroupedIs
  <2> QED BY <2>1, <1>3
<1>5. PICK n : n = AppendedGroups(e, pids, groups) OBVIOUS
<1>6. /\ n \in Dbs(U)
      /\ \A g \in DOMAIN pids : Entries(n, pids[g]) = Entries(e, pids[g]) \o groups[g]
      /\ \A q \in Pids : q \notin Range(pids) => Entries(n, q) = Entries(e, q)
  <2>1. \A g \in DOMAIN pids : groups[g] \in Seq(U) BY <1>1, <1>4
  <2> QED BY ONLY <2>1, <1>5, e \in Dbs(U), Distinct(pids), AppendedGroupsIs
<1>7. ASSUME NEW g \in DOMAIN pids
      PROVE  /\ Len(Entries(n, pids[g])) = Cardinality(Members(at, g, 1, m))
             /\ Range(Entries(n, pids[g])) = Picked(values, Members(at, g, 1, m))
  <2>1. PICK s \in Seq(U) : s = Entries(e, pids[g])
    <3>1. pids[g] \in Pids BY <1>1 DEF Distinct
    <3> QED BY <3>1, EntriesTypes
  <2>2. Len(s) = Cardinality(Members(at, g, 1, x)) /\ Range(s) = Picked(values, Members(at, g, 1, x)) BY <2>1 DEF Parted
  <2>3. PICK t \in Seq(U) : t = groups[g] /\ Len(t) = Cardinality(Members(b, g, 1, m - x)) /\ Range(t) = Picked(batch, Members(b, g, 1, m - x))
    BY <1>1, <1>4
  <2>4. Len(s \o t) = Len(s) + Len(t) /\ Range(s \o t) = Range(s) \cup Range(t) BY RangeJoined
  <2>5. Behind(b, at, x, m) OBVIOUS
  <2>6. /\ Cardinality(Members(at, g, 1, m)) = Cardinality(Members(at, g, 1, x)) + Cardinality(Members(b, g, 1, m - x))
        /\ \A j : j \in Members(at, g, 1, m) <=> j \in Members(at, g, 1, x) \/ \E k \in Members(b, g, 1, m - x) : j = x + k
    BY ONLY <2>5, x \in Nat, m \in Nat, x <= m, MembersSplit
  <2>7. \A k \in Members(b, g, 1, m - x) : batch[k] = values[x + k] BY <1>3 DEF Members
  <2>8. Range(s) \cup Range(t) = Picked(values, Members(at, g, 1, m))
    <3>1. ASSUME NEW v \in Range(s) \cup Range(t) PROVE \E j \in Members(at, g, 1, m) : v = values[j]
      <4>1. CASE v \in Range(s) BY <4>1, <2>2, <2>6 DEF Picked
      <4>2. CASE v \in Range(t)
        <5>1. PICK k \in Members(b, g, 1, m - x) : v = batch[k] BY <4>2, <2>3 DEF Picked
        <5>2. x + k \in Members(at, g, 1, m) BY <2>6
        <5> QED BY <5>1, <5>2, <2>7
      <4> QED BY <4>1, <4>2
    <3>2. ASSUME NEW j \in Members(at, g, 1, m) PROVE values[j] \in Range(s) \cup Range(t)
      <4>1. CASE j \in Members(at, g, 1, x) BY <4>1, <2>2 DEF Picked
      <4>2. CASE \E k \in Members(b, g, 1, m - x) : j = x + k
        <5>1. PICK k \in Members(b, g, 1, m - x) : j = x + k BY <4>2
        <5>2. batch[k] \in Range(t) BY <2>3 DEF Picked
        <5> QED BY <5>1, <5>2, <2>7
      <4> QED BY <4>1, <4>2, <2>6
    <3> QED BY <3>1, <3>2 DEF Picked
  <2>9. Entries(n, pids[g]) = s \o t BY <1>6, <2>1, <2>3
  <2> QED BY <2>2, <2>3, <2>4, <2>6, <2>8, <2>9
<1>8. Parted(n, d, pids, values, at, m) BY <1>6, <1>7 DEF Parted
<1> QED BY <1>1, <1>2, <1>5, <1>6, <1>8

\* rewrite_..._with_assignments: every value of the partition is in the part it
\* is assigned to, every part has as many as were assigned to it, and the other
\* partitions are as they were.
LEMMA RewrittenIs ==
    ASSUME V3Assumption, NEW U, NEW d \in Dbs(U), NEW p \in Pids, NEW pids, Distinct(pids), NEW at
    PROVE  /\ Rewritten(d, p, pids, at) \in Dbs(U)
           /\ Parted(Rewritten(d, p, pids, at), d, pids, Entries(d, p), at, Count(d, p))
<1>1. PICK values \in Seq(U), l \in Nat : values = Entries(d, p) /\ l = Count(d, p) /\ l = Len(values)
  <2>1. Entries(d, p) \in Seq(U) /\ Len(Entries(d, p)) = Count(d, p) BY EntriesTypes
  <2>2. Count(d, p) \in Nat BY CountNatural
  <2> QED BY <2>1, <2>2
<1>2. ReadAll(d, p) = values BY <1>1, ReadAllIs
<1>3. PICK rb \in Nat : rb = ReadBatch /\ rb > 0 BY DEF V3Assumption
<1>4. PICK total \in Nat : /\ total = (l + rb - 1) \div rb /\ total * rb >= l
                           /\ \A b \in 1 .. total : (b - 1) * rb \in Nat /\ (b - 1) * rb <= l /\ b * rb = (b - 1) * rb + rb
  <2>1. PICK y \in Nat : y = l + rb - 1 BY <1>1, <1>3
  <2>2. PICK t : t = y \div rb OBVIOUS
  <2>3. t \in Nat /\ y < t * rb + rb /\ t * rb <= y BY <2>2, <1>3
  <2>4. t * rb \in Nat BY <2>3, <1>3
  <2>5. t * rb >= l BY <2>1, <2>3, <2>4, <1>1, <1>3
  <2>6. ASSUME NEW b \in 1 .. t PROVE (b - 1) * rb \in Nat /\ (b - 1) * rb <= l /\ b * rb = (b - 1) * rb + rb
    <3>1. PICK c \in Nat : c = b - 1 /\ c + 1 <= t BY <2>3
    <3>2. PICK z \in Nat : z = c * rb BY <1>3
    <3>3. (c + 1) * rb = z + rb BY <3>2, <1>3
    <3>4. (c + 1) * rb <= t * rb
      <4>1. PICK k \in Nat : t = c + 1 + k BY <3>1, <2>3
      <4>2. t * rb = (c + 1) * rb + k * rb BY <4>1, <1>3
      <4>3. k * rb \in Nat /\ (c + 1) * rb \in Nat BY <1>3
      <4> QED BY <4>2, <4>3
    <3>5. z + rb <= l + rb - 1 BY <3>3, <3>4, <2>3, <2>1, <2>4, <1>1, <1>3
    <3>6. b = c + 1 BY <3>1
    <3> QED BY <3>1, <3>2, <3>3, <3>5, <3>6, <1>1, <1>3
  <2> QED BY <2>1, <2>2, <2>3, <2>5, <2>6
<1> DEFINE From(b) == (b - 1) * rb
           Upto(b) == IF From(b) + rb < l THEN From(b) + rb ELSE l
           Batch(b) == SubSeq(values, From(b) + 1, Upto(b))
           Groups(b) == Grouped(Batch(b), [j \in DOMAIN Batch(b) |-> at[From(b) + j]], Len(pids))
           V == Dbs(U)
           G == [b \in 1 .. total |-> [e \in V |-> AppendedGroups(e, pids, Groups(b))]]
           Rec(f) == f = [b \in 0 .. total |-> IF b = 0 THEN Cleared(d, pids) ELSE AppendedGroups(f[b - 1], pids, Groups(b))]
           run == CHOOSE f : Rec(f)
<1>5. Rewritten(d, p, pids, at) = run[total] BY <1>1, <1>2, <1>3, <1>4 DEF Rewritten
<1>6. ASSUME NEW b \in 1 .. total PROVE From(b) \in Nat /\ From(b) <= l /\ Upto(b) \in Nat /\ From(b) <= Upto(b) /\ Upto(b) <= l
  <2>1. PICK x \in Nat : x = From(b) /\ x <= l BY <1>4
  <2>2. Upto(b) = IF x + rb < l THEN x + rb ELSE l BY <2>1
  <2> QED BY <2>1, <2>2, <1>1, <1>3
<1>7. ASSUME NEW b \in 1 .. total, NEW e \in V, Parted(e, d, pids, values, at, From(b))
      PROVE  Parted(AppendedGroups(e, pids, Groups(b)), d, pids, values, at, Upto(b)) /\ AppendedGroups(e, pids, Groups(b)) \in V
  <2>1. PICK x \in Nat, m \in Nat : x = From(b) /\ m = Upto(b) /\ x <= m /\ m <= Len(values) BY <1>1, <1>6
  <2>2. PICK batch : batch = SubSeq(values, x + 1, m) OBVIOUS
  <2>3. PICK c : c = [j \in DOMAIN batch |-> at[x + j]] OBVIOUS
  <2>4. Groups(b) = Grouped(batch, c, Len(pids)) BY <2>1, <2>2, <2>3
  <2>5. Parted(e, d, pids, values, at, x) BY <1>7, <2>1
  <2>6. LET n == AppendedGroups(e, pids, Grouped(batch, c, Len(pids))) IN n \in Dbs(U) /\ Parted(n, d, pids, values, at, m)
    <3> HIDE DEF From, Upto, Batch, Groups
    <3>1. Behind(c, at, x, m)
      <4>1. DOMAIN batch = 1 .. m - x
        <5>1. batch = [j \in 1 .. m - (x + 1) + 1 |-> values[x + 1 + j - 1]] BY <2>1, <2>2
        <5>2. m - (x + 1) + 1 = m - x BY <2>1
        <5> QED BY <5>1, <5>2
      <4> QED BY <4>1, <2>3 DEF Behind
    <3> QED BY ONLY <3>1, <2>1, <2>2, <2>5, e \in V, Distinct(pids), values \in Seq(U), BatchParted DEF V
  <2> HIDE DEF Groups, Upto
  <2> QED BY <2>1, <2>4, <2>6
<1>q. pids \in Seq(Pids) /\ \A g \in DOMAIN pids : pids[g] \in Pids /\ pids[g] \in Range(pids) BY DEF Distinct, Range
<1>8. Cleared(d, pids) \in V /\ Parted(Cleared(d, pids), d, pids, values, at, 0)
  <2>1. PICK e : e = Cleared(d, pids) OBVIOUS
  <2>2. /\ e \in Dbs(U) /\ \A q \in Range(pids) : Entries(e, q) = <<>>
        /\ \A q \in Pids : q \notin Range(pids) => Entries(e, q) = Entries(d, q)
    BY <2>1, <1>q, ClearedIs
  <2>3. \A g : Members(at, g, 1, 0) = {} BY DEF Members
  <2>4. Len(<<>>) = 0 /\ Range(<<>>) = {} BY DEF Range
  <2>5. Cardinality({}) = 0 BY FS_EmptySet
  <2>6. ASSUME NEW g \in DOMAIN pids
        PROVE  /\ Len(Entries(e, pids[g])) = Cardinality(Members(at, g, 1, 0))
               /\ Range(Entries(e, pids[g])) = Picked(values, Members(at, g, 1, 0))
    <3>1. Entries(e, pids[g]) = <<>> BY <2>2, <1>q
    <3>2. Picked(values, Members(at, g, 1, 0)) = {} BY <2>3 DEF Picked
    <3> QED BY <3>1, <3>2, <2>3, <2>4, <2>5
  <2>7. Parted(e, d, pids, values, at, 0) BY <2>2, <2>6 DEF Parted
  <2> QED BY <2>1, <2>2, <2>7
<1> HIDE DEF V, Groups, run
<1>9. ASSUME NEW b \in 1 .. total, NEW e \in V PROVE AppendedGroups(e, pids, Groups(b)) \in V
  <2>1. PICK x \in Nat, m \in Nat : x = From(b) /\ m = Upto(b) /\ x <= m /\ m <= Len(values) BY <1>1, <1>6
  <2>2. PICK batch : batch = SubSeq(values, x + 1, m) OBVIOUS
  <2>3. batch \in Seq(U)
    <3>1. \A j \in 1 .. m - x : x + 1 + j - 1 \in 1 .. Len(values) BY <2>1
    <3>2. batch = [j \in 1 .. m - (x + 1) + 1 |-> values[x + 1 + j - 1]] BY <2>1, <2>2
    <3>3. m - (x + 1) + 1 = m - x /\ m - x \in Nat BY <2>1
    <3>u. \A k \in 1 .. Len(values) : values[k] \in U OBVIOUS
    <3>4. \A j \in 1 .. m - x : values[x + 1 + j - 1] \in U BY <3>1, <3>u
    <3> QED BY <3>2, <3>3, <3>4
  <2>4. PICK count \in Nat : count = Len(pids) /\ DOMAIN pids = 1 .. count BY <1>q
  <2>5. \A g \in 1 .. count : Groups(b)[g] \in Seq(U)
    <3> TAKE g \in 1 .. count
    <3>1. PICK c : c = [j \in DOMAIN batch |-> at[x + j]] OBVIOUS
    <3>2. Grouped(batch, c, count)[g] \in Seq(U) BY <2>3, GroupedIs
    <3>3. Groups(b) = Grouped(batch, c, count) BY <2>1, <2>2, <2>4, <3>1 DEF Groups
    <3> QED BY <3>2, <3>3
  <2>6. \A g \in DOMAIN pids : Groups(b)[g] \in Seq(U) BY <2>4, <2>5
  <2>7. PICK gs : gs = Groups(b) OBVIOUS
  <2> QED BY <2>6, <2>7, AppendedGroupsIs DEF V
<1>10. G \in [1 .. total -> [V -> V]] BY <1>9
<1>11. \E f : Rec(f)
  <2>1. PICK x : x = Cleared(d, pids) OBVIOUS
  <2>2. PICK f : Runs(f, total, x, G, V)
    <3> HIDE DEF G
    <3> QED BY <1>8, <1>10, <2>1, RunExists
  <2>3. f \in [0 .. total -> V] /\ f[0] = x /\ \A b \in 1 .. total : f[b] = G[b][f[b - 1]]
    <3> HIDE DEF G
    <3> QED BY <2>2 DEF Runs
  <2>4. ASSUME NEW b \in 0 .. total PROVE f[b] = IF b = 0 THEN x ELSE AppendedGroups(f[b - 1], pids, Groups(b))
    <3>1. CASE b = 0 BY <3>1, <2>3
    <3>2. CASE b # 0
      <4>1. b \in 1 .. total /\ b - 1 \in 0 .. total BY <3>2
      <4>2. f[b - 1] \in V BY <2>3, <4>1
      <4>3. f[b] = AppendedGroups(f[b - 1], pids, Groups(b)) BY <2>3, <4>1, <4>2
      <4> QED BY <3>2, <4>3
    <3> QED BY <3>1, <3>2
  <2>5. f = [b \in 0 .. total |-> f[b]] BY <2>3
  <2>6. Rec(f) BY <2>1, <2>4, <2>5
  <2> QED BY <2>6
<1>12. Rec(run)
  <2> HIDE DEF Rec
  <2> QED BY <1>11 DEF run
<1>13. run[0] = Cleared(d, pids) /\ \A b \in 1 .. total : run[b] = AppendedGroups(run[b - 1], pids, Groups(b))
  <2>1. \A b \in 0 .. total : run[b] = IF b = 0 THEN Cleared(d, pids) ELSE AppendedGroups(run[b - 1], pids, Groups(b)) BY <1>12
  <2>2. 0 \in 0 .. total /\ \A b \in 1 .. total : b \in 0 .. total /\ b # 0 OBVIOUS
  <2> HIDE DEF Rec
  <2> QED BY <2>1, <2>2
<1> HIDE DEF Rec, G
<1> DEFINE Ends(b) == IF b * rb < l THEN b * rb ELSE l
           S == {b \in Nat : b <= total => run[b] \in V /\ Parted(run[b], d, pids, values, at, Ends(b))}
<1>14. 0 \in S
  <2>1. Ends(0) = 0 BY <1>1, <1>3
  <2> HIDE DEF Ends
  <2> QED BY <2>1, <1>8, <1>13
<1>15. ASSUME NEW b \in S PROVE b + 1 \in S
  <2> SUFFICES ASSUME b + 1 <= total PROVE run[b + 1] \in V /\ Parted(run[b + 1], d, pids, values, at, Ends(b + 1)) OBVIOUS
  <2>1. b \in Nat /\ b + 1 \in 1 .. total /\ (b + 1) - 1 = b /\ b <= total OBVIOUS
  <2>2. run[b] \in V /\ Parted(run[b], d, pids, values, at, Ends(b))
    <3> HIDE DEF Ends
    <3> QED BY <2>1
  <2>3. From(b + 1) = Ends(b) /\ Upto(b + 1) = Ends(b + 1)
    <3>1. ((b + 1) - 1) * rb <= l /\ (b + 1) * rb = ((b + 1) - 1) * rb + rb /\ ((b + 1) - 1) * rb \in Nat BY <1>4, <2>1
    <3>2. b * rb <= l /\ b * rb \in Nat BY <2>1, <3>1
    <3>3. From(b + 1) = b * rb BY <2>1
    <3>4. Ends(b) = b * rb BY <3>2, <1>1
    <3>5. (b + 1) * rb = From(b + 1) + rb BY <3>1
    <3> QED BY <3>3, <3>4, <3>5
  <2>4. run[b + 1] = AppendedGroups(run[b], pids, Groups(b + 1)) BY <2>1, <1>13
  <2>5. PICK c : c = b + 1 OBVIOUS
  <2> HIDE DEF Ends, From, Upto
  <2>6. Parted(run[b], d, pids, values, at, From(c)) BY <2>2, <2>3, <2>5
  <2>7. Parted(AppendedGroups(run[b], pids, Groups(c)), d, pids, values, at, Upto(c)) /\ AppendedGroups(run[b], pids, Groups(c)) \in V
    BY <2>1, <2>2, <2>5, <2>6, <1>7
  <2> QED BY <2>3, <2>4, <2>5, <2>7
<1>16. S = Nat
  <2> HIDE DEF S
  <2>1. S \in SUBSET Nat BY DEF S
  <2> QED BY <1>14, <1>15, <2>1, AllNumbers
<1>17. run[total] \in V /\ Parted(run[total], d, pids, values, at, l)
  <2>1. total \in S /\ total <= total BY <1>16
  <2>2. Ends(total) = l
    <3>1. total * rb \in Nat BY <1>3
    <3> QED BY <3>1, <1>4, <1>1
  <2> HIDE DEF Ends
  <2> QED BY <2>1, <2>2
<1> QED BY <1>1, <1>5, <1>17 DEF V

-----------------------------------------------------------------------------
(* A child set assembled at once.                                             *)

\* The blocks under b are a tree with the root b.
Tree(b) ==
    /\ b \in Below(b) /\ IsForest(Below(b), {c \in Below(b) : c.level = 0})
    /\ \A c \in Below(b) : c = b \/ \E d \in Below(b) : c \in d.kids

\* The blocks under the blocks of S.
Blocks(S) == UNION {Below(b) : b \in S}

LEMMA LeafTree == ASSUME NEW i PROVE Tree(Leaf(i)) /\ Below(Leaf(i)) = {Leaf(i)}
<1>1. PICK b : b = Leaf(i) OBVIOUS
<1>2. b.level = 0 /\ b.kids = {} BY <1>1 DEF Leaf
<1>3. IsFiniteSet({b}) BY FS_Singleton
<1>4. IsForest({b}, {b}) BY <1>2, <1>3 DEF IsForest
<1>5. PICK B : B = {b} OBVIOUS
<1>6. Below(b) = B
  <2>1. b \in B /\ IsForest(B, B) /\ \A c \in B : c = b \/ \E d \in B : c \in d.kids BY <1>4, <1>5
  <2> QED BY <2>1, ForestIsBelow
<1>7. {c \in {b} : c.level = 0} = {b} BY <1>2
<1>8. Tree(b) BY <1>4, <1>5, <1>6, <1>7 DEF Tree
<1> QED BY <1>1, <1>5, <1>6, <1>8

LEMMA BlocksFinite ==
    ASSUME NEW S, IsFiniteSet(S), \A b \in S : Tree(b)
    PROVE  IsFiniteSet(Blocks(S))
<1> DEFINE T == {Below(b) : b \in S}
           f == [b \in S |-> Below(b)]
<1>1. f \in Surjection(S, T) BY DEF Surjection
<1>2. IsFiniteSet(T)
  <2> HIDE DEF f, T
  <2> QED BY <1>1, FS_Surjection
<1>3. \A t \in T : IsFiniteSet(t) BY DEF Tree, IsForest
<1>4. IsFiniteSet(UNION T)
  <2> HIDE DEF T
  <2> QED BY <1>2, <1>3, FS_UNION
<1> QED BY <1>4 DEF Blocks

LEMMA TreeFacts ==
    ASSUME NEW b, Tree(b)
    PROVE  /\ b \in Below(b) /\ IsFiniteSet(Below(b))
           /\ \A c \in Below(b) : /\ c.level \in Nat /\ c.kids \subseteq Below(b)
                                  /\ c.level = 0 => c.kids = {}
                                  /\ c.level > 0 => Cardinality(c.kids) \in 2 .. Bound
                                  /\ \A k \in c.kids : k.level < c.level
                                  /\ c = b \/ \E d \in Below(b) : c \in d.kids
BY DEF Tree, IsForest

\* A branch over trees is one.
LEMMA BranchTree ==
    ASSUME NEW S, IsFiniteSet(S), Cardinality(S) \in 2 .. Bound, NEW top \in Nat,
           \A s \in S : Tree(s) /\ s.level <= top
    PROVE  /\ Tree(Branch(S, top)) /\ Below(Branch(S, top)) = {Branch(S, top)} \cup Blocks(S)
           /\ Branch(S, top).level = top + 1
<1>1. PICK b : b = Branch(S, top) OBVIOUS
<1>2. b.level = top + 1 /\ b.kids = S BY <1>1 DEF Branch
<1>3. PICK ids : ids = {b} \cup Blocks(S) OBVIOUS
<1>4. IsFiniteSet(ids)
  <2>1. IsFiniteSet(Blocks(S)) /\ IsFiniteSet({b}) BY BlocksFinite, FS_Singleton
  <2> QED BY <2>1, <1>3, FS_Union
<1>5. \A s \in S : s \in Below(s) /\ Below(s) \subseteq Blocks(S) BY TreeFacts DEF Blocks
<1>6. S \subseteq ids BY <1>3, <1>5
<1>7. ASSUME NEW c \in ids
      PROVE  /\ c.level \in Nat /\ c.kids \subseteq ids /\ (c.level = 0 => c.kids = {})
             /\ c.level > 0 => Cardinality(c.kids) \in 2 .. Bound
             /\ \A k \in c.kids : k.level < c.level
             /\ c = b \/ \E d \in ids : c \in d.kids
  <2>1. CASE c = b
    <3>1. c.level = top + 1 /\ c.kids = S /\ top + 1 \in Nat /\ top + 1 # 0 BY <2>1, <1>2
    <3>2. \A k \in S : k.level \in Nat BY TreeFacts
    <3>3. \A k \in S : k.level < top + 1 BY <3>2
    <3> QED BY <2>1, <3>1, <3>3, <1>6
  <2>2. CASE c \in Blocks(S)
    <3>1. PICK s \in S : c \in Below(s) BY <2>2 DEF Blocks
    <3>2. /\ c.level \in Nat /\ c.kids \subseteq Below(s)
          /\ c.level = 0 => c.kids = {}
          /\ c.level > 0 => Cardinality(c.kids) \in 2 .. Bound
          /\ \A k \in c.kids : k.level < c.level
          /\ c = s \/ \E d \in Below(s) : c \in d.kids
      BY <3>1, TreeFacts
    <3>3. Below(s) \subseteq ids BY <1>3, <1>5
    <3>4. \E d \in ids : c \in d.kids
      <4>1. CASE c = s BY <4>1, <1>2, <1>3
      <4>2. CASE \E d \in Below(s) : c \in d.kids BY <4>2, <3>3
      <4> QED BY <4>1, <4>2, <3>2
    <3> QED BY <3>2, <3>3, <3>4
  <2> QED BY <2>1, <2>2, <1>3
<1>8. PICK L : L = {c \in ids : c.level = 0} OBVIOUS
<1>9. IsForest(ids, L) BY <1>4, <1>7, <1>8 DEF IsForest
<1>10. b \in ids /\ \A c \in ids : c = b \/ \E d \in ids : c \in d.kids BY <1>3, <1>7
<1>11. Below(b) = ids BY <1>9, <1>10, ForestIsBelow
<1>12. Tree(b) BY <1>8, <1>9, <1>10, <1>11 DEF Tree
<1> QED BY <1>1, <1>2, <1>3, <1>11, <1>12

\* The recursion of Assemble has a solution.
Layers(f, x) == f = [k \in Nat |-> IF k = 0 THEN x ELSE NextLayer(f[k - 1])]

LEMMA LayersExist ==
    ASSUME NEW x
    PROVE  \E f : Layers(f, x)
<1> DEFINE Starts(f, n) == f[0] = x /\ \A k \in 0 .. n - 1 : f[k + 1] = NextLayer(f[k])
           S == {n \in Nat : \E f : Starts(f, n)}
<1>1. 0 \in S
  <2>1. Starts([k \in 0 .. 0 |-> x], 0) OBVIOUS
  <2> QED BY <2>1
<1>2. ASSUME NEW n \in S PROVE n + 1 \in S
  <2>1. PICK f : Starts(f, n) OBVIOUS
  <2> DEFINE g == [k \in 0 .. n + 1 |-> IF k = n + 1 THEN NextLayer(f[n]) ELSE f[k]]
  <2>3. g[0] = x BY <2>1
  <2>4. ASSUME NEW k \in 0 .. n PROVE g[k + 1] = NextLayer(g[k])
    <3>1. CASE k = n
      <4>1. g[k + 1] = NextLayer(f[n]) /\ g[k] = f[n] BY <3>1
      <4> QED BY <4>1
    <3>2. CASE k # n
      <4>1. k \in 0 .. n - 1 /\ k + 1 # n + 1 /\ k # n + 1 /\ k + 1 \in 0 .. n + 1 /\ k \in 0 .. n + 1 BY <3>2
      <4>2. g[k + 1] = f[k + 1] /\ g[k] = f[k] BY <4>1
      <4>3. f[k + 1] = NextLayer(f[k]) BY <4>1, <2>1
      <4> QED BY <4>2, <4>3
    <3> QED BY <3>1, <3>2
  <2>5. Starts(g, n + 1)
    <3> HIDE DEF g
    <3>1. 0 .. (n + 1) - 1 = 0 .. n OBVIOUS
    <3> QED BY <2>3, <2>4, <3>1
  <2> HIDE DEF g, Starts
  <2> QED BY <2>5
<1>3. S = Nat
  <2> HIDE DEF S
  <2>1. S \in SUBSET Nat BY DEF S
  <2> QED BY <2>1, <1>1, <1>2, AllNumbers
<1> DEFINE start == [n \in Nat |-> CHOOSE f : Starts(f, n)]
<1>4. \A n \in Nat : Starts(start[n], n)
  <2> HIDE DEF Starts
  <2> QED BY <1>3
<1> HIDE DEF start
<1>5. ASSUME NEW n \in Nat, NEW m \in Nat PROVE \A k \in Nat : k <= n /\ k <= m => start[n][k] = start[m][k]
  <2> DEFINE T == {k \in Nat : k <= n /\ k <= m => start[n][k] = start[m][k]}
  <2>1. T \in SUBSET Nat /\ 0 \in T BY <1>4
  <2>2. ASSUME NEW k \in T PROVE k + 1 \in T
    <3> SUFFICES ASSUME k + 1 <= n, k + 1 <= m PROVE start[n][k + 1] = start[m][k + 1] OBVIOUS
    <3>1. k \in 0 .. n - 1 /\ k \in 0 .. m - 1 /\ start[n][k] = start[m][k] OBVIOUS
    <3>2. start[n][k + 1] = NextLayer(start[n][k]) /\ start[m][k + 1] = NextLayer(start[m][k]) BY <3>1, <1>4
    <3> QED BY <3>1, <3>2
  <2>3. T = Nat
    <3> HIDE DEF T
    <3> QED BY <2>1, <2>2, AllNumbers
  <2> QED BY <2>3
<1> DEFINE h == [n \in Nat |-> start[n][n]]
<1>6. ASSUME NEW k \in Nat PROVE h[k] = IF k = 0 THEN x ELSE NextLayer(h[k - 1])
  <2>1. CASE k = 0 BY <2>1, <1>4
  <2>2. CASE k # 0
    <3>1. PICK n \in Nat : n = k - 1 /\ k = n + 1 BY <2>2
    <3>2. start[n + 1][n + 1] = NextLayer(start[n + 1][n]) BY <3>1, <1>4
    <3>3. start[n + 1][n] = start[n][n] BY <1>5
    <3>4. h[k] = start[n + 1][n + 1] /\ h[k - 1] = start[n][n] BY <3>1
    <3> QED BY <2>2, <3>2, <3>3, <3>4
  <2> QED BY <2>1, <2>2
<1>7. h = [k \in Nat |-> h[k]] OBVIOUS
<1> HIDE DEF h
<1>8. Layers(h, x) BY <1>6, <1>7 DEF Layers
<1> QED BY <1>8

\* What a layer over S keeps: its children are trees that have together the blocks
\* of S and the branches stored, and it shrinks until one is left.
LayerOf(x, S, k) ==
    /\ x = [layer |-> x.layer, puts |-> x.puts, ok |-> x.ok] /\ x.ok \in BOOLEAN
    /\ IsFiniteSet(x.layer) /\ x.layer # {} /\ \A b \in x.layer : Tree(b)
    /\ x.puts \in Seq(Blocks(x.layer)) /\ \A b \in Range(x.puts) : b.level > 0
    /\ Blocks(x.layer) = Range(x.puts) \cup Blocks(S)
    /\ x.ok => Cardinality(x.layer) = 1 \/ Cardinality(x.layer) + k <= Cardinality(S)

\* A grouped layer.
LEMMA GroupedLayer ==
    ASSUME NEW S, IsFiniteSet(S), Cardinality(S) > 1, Splittable(Cardinality(S)), \A b \in S : Tree(b),
           NEW groups, groups = BalancedGroups(S),
           NEW branches, branches = [g \in DOMAIN groups |-> Branch(groups[g], HighestLevel(S))]
    PROVE  /\ branches \in Seq(Range(branches)) /\ IsFiniteSet(Range(branches)) /\ Range(branches) # {}
           /\ \A b \in Range(branches) : Tree(b) /\ b.level > 0
           /\ Blocks(Range(branches)) = Range(branches) \cup Blocks(S)
           /\ Cardinality(Range(branches)) < Cardinality(S)
<1>1. PICK n \in Nat : n = Cardinality(S) /\ n > 1 BY FS_CardinalityType
<1>2. /\ groups \in Seq(SUBSET S) /\ groups # <<>>
      /\ S = UNION {groups[g] : g \in DOMAIN groups}
      /\ \A g \in DOMAIN groups : IsFiniteSet(groups[g]) /\ Cardinality(groups[g]) \in 2 .. Bound
  BY ONLY IsFiniteSet(S), Cardinality(S) > 1, Splittable(Cardinality(S)), groups = BalancedGroups(S), GroupsPartition
<1>3. PICK count : count = GroupCount(n) OBVIOUS
<1>4. count \in Nat /\ count > 0 /\ count < n
  <2>1. PICK base, extra : base = n \div count /\ extra = n % count OBVIOUS
  <2>2. count \in Nat /\ base \in Nat /\ extra \in Nat /\ count > 0 /\ n = count * base + extra /\ base >= 2
    <3>1. Splittable(n) BY <1>1
    <3> QED BY <1>1, <1>3, <2>1, <3>1, GroupArithmetic
  <2>3. PICK r \in Nat : base = 2 + r BY <2>2
  <2>4. count * base = 2 * count + count * r /\ count * r \in Nat BY <2>2, <2>3
  <2> QED BY <2>2, <2>4
<1>5. DOMAIN groups = 1 .. count BY <1>1, <1>3 DEF BalancedGroups
<1>6. PICK top : top = HighestLevel(S) OBVIOUS
<1>7. top \in Nat /\ \A b \in S : b.level <= top
  <2>1. S # {} BY <1>1, FS_EmptySet
  <2>2. \A b \in S : b.level \in Nat BY TreeFacts
  <2> QED BY <2>1, <2>2, <1>6, HighestIsBound
<1>8. DOMAIN branches = 1 .. count /\ \A g \in 1 .. count : branches[g] = Branch(groups[g], top) BY <1>5, <1>6
<1>9. ASSUME NEW g \in 1 .. count
      PROVE  Tree(branches[g]) /\ Below(branches[g]) = {branches[g]} \cup Blocks(groups[g]) /\ branches[g].level > 0
  <2>1. PICK T : T = groups[g] OBVIOUS
  <2>2. T \subseteq S /\ IsFiniteSet(T) /\ Cardinality(T) \in 2 .. Bound BY <1>2, <1>5, <2>1
  <2>3. \A s \in T : Tree(s) /\ s.level <= top BY <2>2, <1>7
  <2>4. /\ Tree(Branch(T, top)) /\ Below(Branch(T, top)) = {Branch(T, top)} \cup Blocks(T)
        /\ Branch(T, top).level = top + 1
    BY <2>2, <2>3, <1>7, BranchTree
  <2>5. branches[g] = Branch(T, top) BY <1>8, <2>1
  <2>6. top + 1 > 0 BY <1>7
  <2> QED BY <2>1, <2>4, <2>5, <2>6
<1>10. PICK R : R = Range(branches) OBVIOUS
<1>11. R = {branches[g] : g \in 1 .. count} BY <1>8, <1>10 DEF Range
<1>12. branches = [g \in 1 .. count |-> branches[g]] BY <1>5
<1>13. branches \in Seq(R) BY <1>4, <1>11, <1>12
<1>14. IsFiniteSet(R) /\ Cardinality(R) <= count
  <2>1. branches \in Surjection(1 .. count, R) BY <1>11, <1>12 DEF Surjection
  <2>2. IsFiniteSet(1 .. count) /\ Cardinality(1 .. count) = count
    <3>1. 1 \in Int /\ count \in Int BY <1>4
    <3>2. IsFiniteSet(1 .. count) /\ Cardinality(1 .. count) = IF 1 > count THEN 0 ELSE count - 1 + 1 BY <3>1, FS_Interval
    <3> QED BY <3>2, <1>4
  <2> QED BY <2>1, <2>2, FS_Surjection
<1>15. Cardinality(R) < n
  <2>1. Cardinality(R) \in Nat BY <1>14, FS_CardinalityType
  <2> QED BY <2>1, <1>14, <1>4
<1>16. R # {}
  <2>1. 1 \in 1 .. count BY <1>4
  <2> QED BY <2>1, <1>11
<1>17. Blocks(R) = R \cup Blocks(S)
  <2>1. ASSUME NEW c \in Blocks(R) PROVE c \in R \cup Blocks(S)
    <3>1. PICK g \in 1 .. count : c \in Below(branches[g]) BY <1>11 DEF Blocks
    <3>2. c = branches[g] \/ c \in Blocks(groups[g]) BY <3>1, <1>9
    <3>3. groups[g] \subseteq S BY <1>2, <1>5
    <3>4. Blocks(groups[g]) \subseteq Blocks(S) BY <3>3 DEF Blocks
    <3> QED BY <3>2, <3>4, <1>11
  <2>2. ASSUME NEW c \in R \cup Blocks(S) PROVE c \in Blocks(R)
    <3>1. CASE c \in R
      <4>1. PICK g \in 1 .. count : c = branches[g] BY <3>1, <1>11
      <4> QED BY <4>1, <3>1, <1>9 DEF Blocks
    <3>2. CASE c \in Blocks(S)
      <4>1. PICK s \in S : c \in Below(s) BY <3>2 DEF Blocks
      <4>2. PICK g \in 1 .. count : s \in groups[g] BY <1>2, <1>5
      <4>3. c \in Blocks(groups[g]) BY <4>1, <4>2 DEF Blocks
      <4>4. c \in Below(branches[g])
        <5>1. Below(branches[g]) = {branches[g]} \cup Blocks(groups[g]) BY <1>9
        <5> QED BY <4>3, <5>1
      <4>5. branches[g] \in R BY <1>11
      <4> QED BY <4>4, <4>5 DEF Blocks
    <3> QED BY <3>1, <3>2
  <2> QED BY <2>1, <2>2
<1>18. \A b \in R : Tree(b) /\ b.level > 0 BY <1>9, <1>11
<1> QED BY <1>1, <1>10, <1>13, <1>14, <1>15, <1>16, <1>17, <1>18

LEMMA NextLayerKeeps ==
    ASSUME NEW S, IsFiniteSet(S), NEW k \in Nat, NEW x, LayerOf(x, S, k)
    PROVE  LayerOf(NextLayer(x), S, k + 1)
<1>1. /\ x = [layer |-> x.layer, puts |-> x.puts, ok |-> x.ok] /\ x.ok \in BOOLEAN
      /\ IsFiniteSet(x.layer) /\ x.layer # {} /\ \A b \in x.layer : Tree(b)
      /\ x.puts \in Seq(Blocks(x.layer)) /\ \A b \in Range(x.puts) : b.level > 0
      /\ Blocks(x.layer) = Range(x.puts) \cup Blocks(S)
      /\ x.ok => Cardinality(x.layer) = 1 \/ Cardinality(x.layer) + k <= Cardinality(S)
  BY DEF LayerOf
<1>2. PICK n \in Nat : n = Cardinality(x.layer) /\ n # 0 BY <1>1, FS_CardinalityType, FS_EmptySet
<1>3. CASE n = 1 \/ ~x.ok
  <2>1. NextLayer(x) = x BY <1>2, <1>3 DEF NextLayer
  <2>2. x.ok => Cardinality(x.layer) = 1 BY <1>2, <1>3
  <2> QED BY <1>1, <2>1, <2>2 DEF LayerOf
<1>4. CASE n # 1 /\ x.ok /\ ~Splittable(n)
  <2>1. PICK y : y = [layer |-> x.layer, puts |-> x.puts, ok |-> FALSE] OBVIOUS
  <2>2. NextLayer(x) = [x EXCEPT !.ok = FALSE] BY <1>2, <1>4 DEF NextLayer
  <2>3. [x EXCEPT !.ok = FALSE] = y
    <3>1. PICK l, p, o : l = x.layer /\ p = x.puts /\ o = x.ok OBVIOUS
    <3>2. x = [layer |-> l, puts |-> p, ok |-> o] BY <1>1, <3>1
    <3>3. y = [layer |-> l, puts |-> p, ok |-> FALSE] BY <2>1, <3>1
    <3>4. PICK v : v = FALSE OBVIOUS
    <3>5. y = [layer |-> l, puts |-> p, ok |-> v] BY <3>3, <3>4
    <3>6. [x EXCEPT !.ok = v] = y BY ONLY <3>2, <3>5
    <3> QED BY <3>4, <3>6
  <2>4. y.layer = x.layer /\ y.puts = x.puts /\ y.ok = FALSE BY <2>1
  <2> QED BY <1>1, <2>1, <2>2, <2>3, <2>4 DEF LayerOf
<1>5. CASE n # 1 /\ x.ok /\ Splittable(n)
  <2>1. PICK L : L = x.layer OBVIOUS
  <2>2. PICK groups : groups = BalancedGroups(L) OBVIOUS
  <2>3. PICK branches : branches = [g \in DOMAIN groups |-> Branch(groups[g], HighestLevel(L))] OBVIOUS
  <2>4. PICK R : R = Range(branches) OBVIOUS
  <2>5. PICK y : y = [layer |-> R, puts |-> x.puts \o branches, ok |-> TRUE] OBVIOUS
  <2>6. NextLayer(x) = y BY <1>2, <1>5, <2>1, <2>2, <2>3, <2>4, <2>5 DEF NextLayer
  <2>7. /\ branches \in Seq(R) /\ IsFiniteSet(R) /\ R # {} /\ \A b \in R : Tree(b) /\ b.level > 0
        /\ Blocks(R) = R \cup Blocks(L) /\ Cardinality(R) < Cardinality(L)
    <3>1. IsFiniteSet(L) /\ Cardinality(L) > 1 /\ Splittable(Cardinality(L)) /\ \A b \in L : Tree(b) BY <1>1, <1>2, <1>5, <2>1
    <3> QED BY ONLY <3>1, <2>2, <2>3, <2>4, GroupedLayer
  <2>8. PICK p : p = x.puts OBVIOUS
  <2>9. p \in Seq(Blocks(R)) /\ branches \in Seq(Blocks(R))
    <3>1. p \in Seq(Blocks(L)) BY <1>1, <2>1, <2>8
    <3>2. Blocks(L) \subseteq Blocks(R) /\ R \subseteq Blocks(R) BY <2>7
    <3> QED BY <3>1, <3>2, <2>7
  <2>10. p \o branches \in Seq(Blocks(R)) /\ Range(p \o branches) = Range(p) \cup R BY <2>4, <2>9, RangeJoined
  <2>11. y.layer = R /\ y.puts = p \o branches /\ y.ok = TRUE BY <2>5, <2>8
  <2>12. Blocks(R) = Range(p \o branches) \cup Blocks(S) BY <1>1, <2>1, <2>7, <2>8, <2>10
  <2>13. \A b \in Range(p \o branches) : b.level > 0 BY <1>1, <2>7, <2>8, <2>10
  <2>14. Cardinality(R) + (k + 1) <= Cardinality(S)
    <3>1. Cardinality(R) \in Nat /\ Cardinality(S) \in Nat BY <2>7, FS_CardinalityType
    <3>2. n + k <= Cardinality(S) BY <1>1, <1>2, <1>5
    <3>3. Cardinality(R) < n BY <2>1, <2>7, <1>2
    <3> QED BY <3>1, <3>2, <3>3
  <2>15. LayerOf(y, S, k + 1) BY <2>5, <2>7, <2>8, <2>10, <2>11, <2>12, <2>13, <2>14 DEF LayerOf
  <2> QED BY <2>6, <2>15
<1> QED BY <1>1, <1>3, <1>4, <1>5

\* Assembling a set of trees comes to one tree, with the blocks of the set and the
\* branches that are stored.
LEMMA AssembleIs ==
    ASSUME NEW S, IsFiniteSet(S), S # {}, \A b \in S : Tree(b), NEW a, a = Assemble(S), a.ok
    PROVE  /\ Tree(a.root) /\ a.puts \in Seq(Below(a.root)) /\ \A b \in Range(a.puts) : b.level > 0
           /\ Below(a.root) = Range(a.puts) \cup Blocks(S)
<1>1. PICK n \in Nat : n = Cardinality(S) /\ n # 0 BY FS_CardinalityType, FS_EmptySet
<1>2. PICK x : x = [layer |-> S, puts |-> <<>>, ok |-> TRUE] OBVIOUS
<1> DEFINE L == CHOOSE f : Layers(f, x)
<1>3. Layers(L, x) BY LayersExist
<1>4. a = [ok |-> L[n].ok, puts |-> L[n].puts, root |-> CHOOSE b \in L[n].layer : TRUE]
  BY <1>1, <1>2 DEF Assemble, Layers
<1> HIDE DEF L
<1>5. L[0] = x /\ \A k \in Nat : L[k + 1] = NextLayer(L[k])
  <2>1. \A k \in Nat : L[k] = IF k = 0 THEN x ELSE NextLayer(L[k - 1]) BY <1>3 DEF Layers
  <2>2. ASSUME NEW k \in Nat PROVE L[k + 1] = NextLayer(L[k])
    <3>1. k + 1 \in Nat /\ k + 1 # 0 /\ (k + 1) - 1 = k OBVIOUS
    <3>2. L[k + 1] = NextLayer(L[(k + 1) - 1]) BY <2>1, <3>1
    <3> QED BY <3>1, <3>2
  <2> QED BY <2>1, <2>2
<1> DEFINE K == {k \in Nat : LayerOf(L[k], S, k)}
<1>6. 0 \in K
  <2>1. x.layer = S /\ x.puts = <<>> /\ x.ok = TRUE BY <1>2
  <2>2. Range(<<>>) = {} /\ <<>> \in Seq(Blocks(S)) BY DEF Range
  <2>3. Cardinality(S) + 0 <= Cardinality(S) BY <1>1
  <2>4. LayerOf(x, S, 0) BY <1>2, <2>1, <2>2, <2>3 DEF LayerOf
  <2> QED BY <2>4, <1>5
<1>7. \A k \in K : k + 1 \in K BY <1>5, NextLayerKeeps
<1>8. K = Nat
  <2> HIDE DEF K
  <2>1. K \in SUBSET Nat BY DEF K
  <2> QED BY <1>6, <1>7, <2>1, AllNumbers
<1>9. PICK y : y = L[n] /\ LayerOf(y, S, n) BY <1>8
<1>10. a.ok = y.ok /\ a.puts = y.puts /\ a.root = CHOOSE b \in y.layer : TRUE
  <2>1. PICK r : r = CHOOSE b \in L[n].layer : TRUE OBVIOUS
  <2>2. a = [ok |-> L[n].ok, puts |-> L[n].puts, root |-> r] BY <1>4, <2>1
  <2>3. a.ok = L[n].ok /\ a.puts = L[n].puts /\ a.root = r
    <3>1. PICK o, p : o = L[n].ok /\ p = L[n].puts OBVIOUS
    <3>2. a = [ok |-> o, puts |-> p, root |-> r] BY <2>2, <3>1
    <3>3. a.ok = o /\ a.puts = p /\ a.root = r BY ONLY <3>2
    <3> QED BY <3>1, <3>3
  <2>4. y = L[n] BY <1>9
  <2> QED BY ONLY <2>1, <2>3, <2>4
<1>11. PICK b : y.layer = {b}
  <2>1. IsFiniteSet(y.layer) /\ y.layer # {} /\ (y.ok => Cardinality(y.layer) = 1 \/ Cardinality(y.layer) + n <= n) BY <1>1, <1>9 DEF LayerOf
  <2>2. Cardinality(y.layer) \in Nat /\ Cardinality(y.layer) # 0 BY <2>1, FS_CardinalityType, FS_EmptySet
  <2>3. Cardinality(y.layer) = 1 BY <2>1, <2>2, <1>10
  <2> QED BY <2>1, <2>3, FS_Singleton
<1>12. a.root = b BY <1>10, <1>11
<1>13. Blocks(y.layer) = Below(b) BY <1>11 DEF Blocks
<1> QED BY <1>9, <1>10, <1>11, <1>12, <1>13 DEF LayerOf

-----------------------------------------------------------------------------
(* What finalize keeps true.                                                  *)

Leaves(S) == UNION {LeavesBelow(b) : b \in S}

\* The blocks of a layer's input that are stored already: at layer 0 the leaves
\* are still to be copied.
StoredOf(layer, S) == IF layer = 0 THEN {} ELSE Blocks(S)

\* What partition p of the layer holds, as blocks.
Holds(d, layer, p) == Children(layer, Entries(d, p.id))

Parts == [id : Pids, n : Nat \ {0}]
Apart(s) == \A i, j \in DOMAIN s : i # j => s[i].id # s[j].id

\* A partition's job.  Before it begins:
JobTodo(job) == job.ids = {} /\ job.kids = <<>>

\* A terminal partition of which `child` is made: what is stored, what is still to
\* be stored and what the layer below had stored are the blocks under it.
JobPuts(job, d, layer, p) ==
    /\ Terminal(p) /\ job.kids = <<>> /\ Tree(job.child)
    /\ job.todo \in Seq(Below(job.child))
    /\ Below(job.child) = job.ids \cup Range(job.todo) \cup StoredOf(layer, Holds(d, layer, p))
    /\ LeavesBelow(job.child) = Leaves(Holds(d, layer, p))

\* A partition that was split: its parts have what it has, and as many entries as
\* the next wave believes.
JobSplit(job, d, p) ==
    /\ ~Terminal(p) /\ job.ids = {} /\ job.kids \in Seq(Parts) /\ job.kids # <<>> /\ Apart(job.kids)
    /\ \A k \in Range(job.kids) : (\E g \in Nat : k.id = Child(p.id, g)) /\ Count(d, k.id) = k.n
    /\ UNION {Range(Entries(d, k.id)) : k \in Range(job.kids)} = Range(Entries(d, p.id))

JobOk(job, d, layer, p, stored) ==
    /\ job = [st |-> job.st, todo |-> job.todo, ids |-> job.ids, child |-> job.child, kids |-> job.kids]
    /\ job.st \in {"todo", "puts", "done", "failed", "cancelled"} /\ job.ids \subseteq stored
    /\ job.st = "todo" => JobTodo(job)
    /\ job.st = "puts" => JobPuts(job, d, layer, p)
    /\ job.st = "done" => (JobPuts(job, d, layer, p) /\ job.todo = <<>>) \/ JobSplit(job, d, p)
    /\ job.st \in {"failed", "cancelled"} => job.kids = <<>>

\* The wave: partitions of one depth that are not empty.
WaveShape(w) ==
    /\ w = [stage |-> "wave", layer |-> w.layer, active |-> w.active, jobs |-> w.jobs,
            terminals |-> w.terminals, ids |-> w.ids, input |-> w.input]
    /\ w.layer \in Nat /\ w.active \in Seq(Parts) /\ Apart(w.active)
    /\ \A i, j \in DOMAIN w.active : Len(w.active[i].id) = Len(w.active[j].id) /\ Len(w.active[i].id) > 0
    /\ w.jobs = [i \in DOMAIN w.active |-> w.jobs[i]]
    /\ IsFiniteSet(w.terminals) /\ \A b \in w.terminals : Tree(b)

\* The partitions and the terminal children have every acknowledged item, and
\* block_ids are the blocks under them that are stored.
InputOf(w, d) == UNION {Holds(d, w.layer, w.active[i]) : i \in DOMAIN w.active}
WaveHolds(w, d, items, stored) ==
    /\ \A i \in DOMAIN w.active : Entries(d, w.active[i].id) # <<>>
    /\ \A b \in InputOf(w, d) : Tree(b)
    /\ items \subseteq Leaves(w.terminals) \cup Leaves(InputOf(w, d))
    /\ w.ids = Blocks(w.terminals) \cup StoredOf(w.layer, InputOf(w, d))
    /\ w.ids \subseteq stored

WaveOk(w, d, items, stored) ==
    /\ WaveShape(w) /\ WaveHolds(w, d, items, stored)
    /\ \A i \in DOMAIN w.active : JobOk(w.jobs[i], d, w.layer, w.active[i], stored)

\* Between the attempts the root partition keeps what was ingested.
RootHolds(d, items, count) == items \subseteq Range(Entries(d, Root(0))) /\ Count(d, Root(0)) >= count

CallOk ==
    \/ fin = Idle
    \/ /\ fin = [stage |-> "append"] /\ phase = "Ingesting" /\ batches # <<>>
       /\ RootHolds(db, acked \cup Range(Head(batches)), ingested + Len(Head(batches)))
    \/ phase = "Ingesting" /\ WaveOk(fin, db, acked, out)

ResultOk ==
    /\ fin = Idle /\ acked \subseteq LeavesBelow(result.root)
    /\ Tree(result.root) /\ result.ids = Below(result.root) /\ result.ids \subseteq out

V3Inv ==
    /\ \E U : db \in Dbs(U)
    /\ \E I : batches \in Seq(Seq(I))
    /\ ingested \in Nat
    /\ phase = "Ingesting" => RootHolds(db, acked, ingested)
    /\ CallOk
    /\ phase = "Finalized" => ResultOk

-----------------------------------------------------------------------------
(* Leaves and children.                                                       *)

LEMMA LeafLeaves == ASSUME NEW i PROVE LeavesBelow(Leaf(i)) = {i}
<1>1. PICK b : b = Leaf(i) OBVIOUS
<1>2. b.level = 0 /\ b.item = i BY <1>1 DEF Leaf
<1>3. Below(b) = {b} BY <1>1, LeafTree
<1>4. {d \in Below(b) : d.level = 0} = {b} BY <1>2, <1>3
<1>5. LeavesBelow(b) = {b.item} BY <1>4 DEF LeavesBelow
<1> QED BY <1>1, <1>2, <1>5

LEMMA ChildrenAre ==
    ASSUME NEW U, NEW values \in Seq(U), NEW layer \in Nat
    PROVE  /\ IsFiniteSet(Children(layer, values))
           /\ values # <<>> => Children(layer, values) # {}
           /\ UNION {ItemsOf(layer, v) : v \in Range(values)} = Leaves(Children(layer, values))
           /\ Children(layer, values) = {IF layer = 0 THEN Leaf(v) ELSE v : v \in Range(values)}
<1>1. PICK n \in Nat : n = Len(values) /\ DOMAIN values = 1 .. n OBVIOUS
<1> DEFINE Kid(v) == IF layer = 0 THEN Leaf(v) ELSE v
           C == {Kid(v) : v \in Range(values)}
           f == [j \in 1 .. n |-> Kid(values[j])]
<1>2. Children(layer, values) = C BY DEF Children
<1>3. C = {Kid(values[j]) : j \in 1 .. n} BY <1>1 DEF Range
<1>4. f \in Surjection(1 .. n, C)
  <2> HIDE DEF Kid
  <2> QED BY <1>3 DEF Surjection
<1>5. IsFiniteSet(1 .. n)
  <2>1. 1 \in Int /\ n \in Int OBVIOUS
  <2> QED BY <2>1, FS_Interval
<1>6. IsFiniteSet(C)
  <2> HIDE DEF f, C
  <2> QED BY <1>4, <1>5, FS_Surjection
<1>7. values # <<>> => C # {}
  <2> SUFFICES ASSUME values # <<>> PROVE C # {} OBVIOUS
  <2>1. 1 \in 1 .. n
    <3>1. n # 0 BY <1>1
    <3> QED BY <3>1
  <2> HIDE DEF Kid
  <2> QED BY <2>1, <1>3
<1>8. \A v : ItemsOf(layer, v) = LeavesBelow(Kid(v)) BY LeafLeaves DEF ItemsOf
<1>9. UNION {ItemsOf(layer, v) : v \in Range(values)} = Leaves(C)
  <2> HIDE DEF Kid
  <2> QED BY <1>8 DEF Leaves
<1> QED BY <1>2, <1>6, <1>7, <1>9

LEMMA JoinedSets ==
    ASSUME NEW S, NEW T
    PROVE  Blocks(S \cup T) = Blocks(S) \cup Blocks(T) /\ Leaves(S \cup T) = Leaves(S) \cup Leaves(T)
BY DEF Blocks, Leaves

LEMMA AssembledLeaves ==
    ASSUME NEW S, NEW b, NEW puts, Below(b) = Range(puts) \cup Blocks(S), \A c \in Range(puts) : c.level > 0
    PROVE  LeavesBelow(b) = Leaves(S)
<1>1. {d \in Below(b) : d.level = 0} = {d \in Blocks(S) : d.level = 0}
  <2>1. \A c \in Range(puts) : c.level # 0 OBVIOUS
  <2> QED BY <2>1
<1>2. LeavesBelow(b) = {c.item : c \in {d \in Blocks(S) : d.level = 0}} BY <1>1 DEF LeavesBelow
<1>3. ASSUME NEW v PROVE v \in LeavesBelow(b) <=> v \in Leaves(S)
  <2>1. v \in LeavesBelow(b) <=> \E c \in Blocks(S) : c.level = 0 /\ v = c.item BY <1>2
  <2>2. v \in Leaves(S) <=> \E s \in S : \E c \in Below(s) : c.level = 0 /\ v = c.item BY DEF Leaves, LeavesBelow
  <2>3. \A c : c \in Blocks(S) <=> \E s \in S : c \in Below(s) BY DEF Blocks
  <2> QED BY <2>1, <2>2, <2>3
<1> QED BY <1>3

LEMMA CountIs == ASSUME NEW U, NEW d \in Dbs(U), NEW p \in Pids
                 PROVE  Count(d, p) = Len(Entries(d, p)) /\ Count(d, p) \in Nat /\ Entries(d, p) \in Seq(U)
BY EntriesTypes, CountNatural

-----------------------------------------------------------------------------
(* Steps that change one job.                                                 *)

\* The stores agree on these partitions.
Agree(d, e, P) == \A q \in P : Entries(e, q) = Entries(d, q) /\ Count(e, q) = Count(d, q)

LEMMA JobFrame ==
    ASSUME NEW job, NEW d, NEW e, NEW layer, NEW p, NEW stored, NEW more, stored \subseteq more,
           JobOk(job, d, layer, p, stored), Agree(d, e, {p.id}),
           \A k \in Range(job.kids) : Agree(d, e, {k.id})
    PROVE  JobOk(job, e, layer, p, more)
<1>1. Entries(e, p.id) = Entries(d, p.id) BY DEF Agree
<1>2. Holds(e, layer, p) = Holds(d, layer, p) BY <1>1 DEF Holds
<1>3. JobPuts(job, d, layer, p) => JobPuts(job, e, layer, p) BY <1>2 DEF JobPuts
<1>4. \A k \in Range(job.kids) : Count(e, k.id) = Count(d, k.id) /\ Entries(e, k.id) = Entries(d, k.id) BY DEF Agree
<1>5. UNION {Range(Entries(e, k.id)) : k \in Range(job.kids)} = UNION {Range(Entries(d, k.id)) : k \in Range(job.kids)} BY <1>4
<1>6. JobSplit(job, d, p) => JobSplit(job, e, p) BY <1>1, <1>4, <1>5 DEF JobSplit
<1> QED BY <1>3, <1>6 DEF JobOk

LEMMA HoldsFrame ==
    ASSUME NEW w, NEW d, NEW e, NEW items, NEW stored, NEW more, stored \subseteq more,
           WaveHolds(w, d, items, stored), \A i \in DOMAIN w.active : Agree(d, e, {w.active[i].id})
    PROVE  WaveHolds(w, e, items, more)
<1>1. \A i \in DOMAIN w.active : Entries(e, w.active[i].id) = Entries(d, w.active[i].id) BY DEF Agree
<1>2. InputOf(w, e) = InputOf(w, d) BY <1>1 DEF InputOf, Holds
<1> QED BY <1>1, <1>2 DEF WaveHolds

\* Wave w with another job at i.
WithJob(w, i, job) ==
    [stage |-> "wave", layer |-> w.layer, active |-> w.active,
     jobs |-> [j \in DOMAIN w.active |-> IF j = i THEN job ELSE w.jobs[j]],
     terminals |-> w.terminals, ids |-> w.ids, input |-> w.input]

LEMMA WithJobFields ==
    ASSUME NEW w, NEW i, NEW job
    PROVE  LET n == WithJob(w, i, job) IN
           /\ n.stage = "wave" /\ n.layer = w.layer /\ n.active = w.active /\ n.terminals = w.terminals
           /\ n.ids = w.ids /\ n.input = w.input
           /\ n.jobs = [j \in DOMAIN w.active |-> IF j = i THEN job ELSE w.jobs[j]]
           /\ n = [stage |-> "wave", layer |-> n.layer, active |-> n.active, jobs |-> n.jobs,
                   terminals |-> n.terminals, ids |-> n.ids, input |-> n.input]
BY DEF WithJob

LEMMA ChildIs ==
    ASSUME NEW a \in Pids, NEW g \in Nat
    PROVE  /\ Child(a, g) \in Pids /\ Len(a) \in Nat /\ Len(Child(a, g)) = Len(a) + 1 /\ Child(a, g)[Len(a) + 1] = 9 + g
           /\ \A k \in 1 .. Len(a) : Child(a, g)[k] = a[k]
<1>1. PICK C : C = Nat \ {0, 1} OBVIOUS
<1>2. PICK x \in C : x = 9 + g BY <1>1
<1>3. a \in Seq(C) /\ Child(a, g) = Append(a, x) BY <1>1, <1>2 DEF Pids, Child
<1>4. Append(a, x) \in Seq(C) BY <1>3
<1>5. /\ Len(a) \in Nat /\ Len(Append(a, x)) = Len(a) + 1 /\ Append(a, x)[Len(a) + 1] = x
      /\ \A k \in 1 .. Len(a) : Append(a, x)[k] = a[k]
  BY ONLY <1>3, x \in C
<1> QED BY <1>1, <1>2, <1>3, <1>4, <1>5 DEF Pids

\* The kids of two jobs are not the same partitions, nor is a kid an active one.
LEMMA KidsApart ==
    ASSUME NEW p \in Parts, NEW q \in Parts, NEW g \in Nat, NEW h \in Nat, Len(p.id) = Len(q.id)
    PROVE  /\ Child(p.id, g) \in Pids /\ Child(p.id, g) # q.id /\ Len(Child(p.id, g)) = Len(p.id) + 1
           /\ p.id # q.id => Child(p.id, g) # Child(q.id, h)
           /\ g # h => Child(p.id, g) # Child(p.id, h)
<1>1. PICK a \in Pids, b \in Pids : a = p.id /\ b = q.id BY DEF Parts
<1>2. PICK l \in Nat : l = Len(a) /\ l = Len(b) BY <1>1 DEF Pids
<1>4. /\ Child(a, g) \in Pids /\ Len(Child(a, g)) = l + 1 /\ Child(a, g)[l + 1] = 9 + g /\ Child(a, h)[l + 1] = 9 + h
      /\ \A k \in 1 .. l : Child(a, g)[k] = a[k]
  <2>1. /\ Child(a, g) \in Pids /\ Len(Child(a, g)) = Len(a) + 1 /\ Child(a, g)[Len(a) + 1] = 9 + g
        /\ \A k \in 1 .. Len(a) : Child(a, g)[k] = a[k]
    BY ONLY a \in Pids, g \in Nat, ChildIs
  <2>2. Child(a, h)[Len(a) + 1] = 9 + h BY ONLY a \in Pids, h \in Nat, ChildIs
  <2> QED BY <2>1, <2>2, <1>2
<1>5. \A k \in 1 .. l : Child(b, h)[k] = b[k]
  <2>1. \A k \in 1 .. Len(b) : Child(b, h)[k] = b[k] BY ONLY b \in Pids, h \in Nat, ChildIs
  <2> QED BY <2>1, <1>2
<1>6. Child(a, g) # b BY <1>2, <1>4
<1>7. a # b => Child(a, g) # Child(b, h)
  <2> SUFFICES ASSUME Child(a, g) = Child(b, h) PROVE a = b OBVIOUS
  <2>1. \A k \in 1 .. l : a[k] = b[k] BY <1>4, <1>5
  <2> QED BY <2>1, <1>2, SameId
<1>8. g # h => Child(a, g) # Child(a, h) BY <1>4
<1> QED BY <1>1, <1>2, <1>4, <1>6, <1>7, <1>8

\* A step of job i that changes the store in no partition but its kids, and gives
\* a job that is well.
LEMMA JobStep ==
    ASSUME NEW w, NEW d, NEW e, NEW items, NEW stored, NEW more, WaveOk(w, d, items, stored), stored \subseteq more,
           NEW i \in DOMAIN w.active, NEW job, JobOk(job, e, w.layer, w.active[i], more),
           \A q \in Pids : (\A g \in Nat : q # Child(w.active[i].id, g)) => Agree(d, e, {q})
    PROVE  WaveOk(WithJob(w, i, job), e, items, more)
<1>1. /\ WaveShape(w) /\ WaveHolds(w, d, items, stored)
      /\ \A j \in DOMAIN w.active : JobOk(w.jobs[j], d, w.layer, w.active[j], stored)
  BY DEF WaveOk
<1>2. PICK n : n = WithJob(w, i, job) OBVIOUS
<1>3. /\ n.layer = w.layer /\ n.active = w.active /\ n.terminals = w.terminals /\ n.ids = w.ids
      /\ n.jobs = [j \in DOMAIN w.active |-> IF j = i THEN job ELSE w.jobs[j]]
      /\ n = [stage |-> "wave", layer |-> n.layer, active |-> n.active, jobs |-> n.jobs,
              terminals |-> n.terminals, ids |-> n.ids, input |-> n.input]
  BY <1>2, WithJobFields
<1>4. PICK a : a = w.active OBVIOUS
<1>5. /\ a \in Seq(Parts) /\ \A j \in DOMAIN a : a[j] \in Parts /\ a[j].id \in Pids /\ Len(a[j].id) = Len(a[i].id)
      /\ \A j \in DOMAIN a : j # i => a[j].id # a[i].id
  <2>1. a \in Seq(Parts) BY <1>1, <1>4 DEF WaveShape
  <2>2. \A j \in DOMAIN a : a[j] \in Parts BY <2>1
  <2>3. \A p \in Parts : p.id \in Pids BY DEF Parts
  <2> QED BY <1>1, <1>4, <2>1, <2>2, <2>3 DEF WaveShape, Apart
<1>6. ASSUME NEW j \in DOMAIN a PROVE Agree(d, e, {a[j].id})
  <2>1. \A g \in Nat : a[j].id # Child(a[i].id, g) BY <1>4, <1>5, KidsApart
  <2> QED BY <2>1, <1>4, <1>5
<1>7. WaveHolds(w, e, items, more) BY <1>1, <1>4, <1>6, HoldsFrame
<1>8. WaveHolds(n, e, items, more)
  <2>1. InputOf(n, e) = InputOf(w, e) BY <1>3 DEF InputOf
  <2> QED BY <1>3, <1>7, <2>1 DEF WaveHolds
<1>9. WaveShape(n)
  <2>1. n.jobs = [j \in DOMAIN n.active |-> n.jobs[j]] BY <1>3
  <2> QED BY <1>1, <1>3, <2>1 DEF WaveShape
<1>10. ASSUME NEW j \in DOMAIN a PROVE JobOk(n.jobs[j], e, n.layer, a[j], more)
  <2>1. CASE j = i BY <2>1, <1>3, <1>4
  <2>2. CASE j # i
    <3>1. PICK b : b = w.jobs[j] /\ n.jobs[j] = b BY <2>2, <1>3, <1>4
    <3>2. JobOk(b, d, w.layer, a[j], stored) BY <3>1, <1>1, <1>4
    <3>3. ASSUME NEW k \in Range(b.kids) PROVE Agree(d, e, {k.id})
      <4>1. CASE b.kids = <<>> BY <4>1 DEF Range
      <4>2. CASE b.kids # <<>>
        <5>1. JobSplit(b, d, a[j]) BY <3>2, <4>2 DEF JobOk, JobTodo, JobPuts
        <5>2. PICK g \in Nat : k.id = Child(a[j].id, g) BY <5>1 DEF JobSplit
        <5>3. k.id \in Pids /\ \A h \in Nat : k.id # Child(a[i].id, h) BY <5>2, <2>2, <1>5, <1>4, KidsApart
        <5> QED BY <5>3, <1>4
      <4> QED BY <4>1, <4>2
    <3>4. JobOk(b, e, w.layer, a[j], more) BY <3>2, <3>3, <1>6, JobFrame
    <3> QED BY <3>1, <3>4, <1>3
  <2> QED BY <2>1, <2>2
<1>11. WaveOk(n, e, items, more) BY <1>3, <1>4, <1>8, <1>9, <1>10 DEF WaveOk
<1> QED BY <1>2, <1>11

LEMMA RootIs == ASSUME NEW l \in Nat PROVE Root(l) \in Pids /\ Len(Root(l)) = 1 /\ \A m \in Nat : Root(l) = Root(m) => l = m
<1>1. \A m \in Nat : 10 + m \in Nat \ {0, 1} OBVIOUS
<1>2. \A m \in Nat : Root(m)[1] = 10 + m BY DEF Root
<1>3. Root(l) \in Pids /\ Len(Root(l)) = 1 BY <1>1 DEF Root, Pids
<1>4. \A m \in Nat : Root(l) = Root(m) => 10 + l = 10 + m BY <1>2
<1> QED BY <1>3, <1>4

LEMMA AgreeIs ==
    ASSUME NEW U, NEW d \in Dbs(U), NEW W, NEW e \in Dbs(W), NEW q \in Pids, Entries(e, q) = Entries(d, q)
    PROVE  Agree(d, e, {q})
<1>1. Count(d, q) = Len(Entries(d, q)) /\ Count(e, q) = Len(Entries(e, q)) BY CountIs
<1> QED BY <1>1 DEF Agree

\* What V3Inv says of a running wave.
LEMMA InWaveIs ==
    ASSUME V3Inv, fin.stage = "wave"
    PROVE  /\ WaveOk(fin, db, acked, out) /\ WaveShape(fin) /\ WaveHolds(fin, db, acked, out)
           /\ phase = "Ingesting" /\ RootHolds(db, acked, ingested) /\ \E U : db \in Dbs(U)
           /\ \A i \in DOMAIN fin.active : /\ fin.active[i] \in Parts /\ fin.active[i].id \in Pids
                                           /\ JobOk(fin.jobs[i], db, fin.layer, fin.active[i], out)
<1>1. fin # Idle /\ fin # [stage |-> "append"]
  <2>1. Idle.stage = "idle" BY DEF Idle
  <2>2. [stage |-> "append"].stage = "append" OBVIOUS
  <2> QED BY <2>1, <2>2
<1>2. phase = "Ingesting" /\ WaveOk(fin, db, acked, out) BY <1>1 DEF V3Inv, CallOk
<1>3. fin.active \in Seq(Parts) BY <1>2 DEF WaveOk, WaveShape
<1>4. \A i \in DOMAIN fin.active : fin.active[i] \in Parts BY <1>3
<1>5. \A p \in Parts : p.id \in Pids BY DEF Parts
<1> QED BY <1>2, <1>4, <1>5 DEF WaveOk, V3Inv

\* A step of job i keeps the invariant.
LEMMA WaveStep ==
    ASSUME V3Inv, fin.stage = "wave", NEW i \in DOMAIN fin.active, NEW job, fin' = WithJob(fin, i, job),
           NEW U, db \in Dbs(U), db' \in Dbs(U),
           \A q \in Pids : (\A g \in Nat : q # Child(fin.active[i].id, g)) => Entries(db', q) = Entries(db, q),
           JobOk(job, db', fin.layer, fin.active[i], out'), out \subseteq out',
           UNCHANGED <<batches, acked, phase, ingested>>
    PROVE  V3Inv'
<1>1. /\ WaveOk(fin, db, acked, out) /\ phase = "Ingesting" /\ RootHolds(db, acked, ingested)
      /\ fin.active[i].id \in Pids
  BY InWaveIs
<1>2. ASSUME NEW q \in Pids, \A g \in Nat : q # Child(fin.active[i].id, g) PROVE Agree(db, db', {q})
  <2>1. Entries(db', q) = Entries(db, q) BY <1>2
  <2> QED BY <2>1, AgreeIs
<1>3. WaveOk(fin', db', acked, out')
  <2>1. PICK w, d, e, a, s, m : w = fin /\ d = db /\ e = db' /\ a = acked /\ s = out /\ m = out' OBVIOUS
  <2>2. WaveOk(WithJob(w, i, job), e, a, m)
    <3>1. WaveOk(w, d, a, s) /\ s \subseteq m /\ i \in DOMAIN w.active /\ JobOk(job, e, w.layer, w.active[i], m) BY <2>1, <1>1
    <3>2. \A q \in Pids : (\A g \in Nat : q # Child(w.active[i].id, g)) => Agree(d, e, {q}) BY <2>1, <1>2
    <3> QED BY ONLY <3>1, <3>2, JobStep
  <2> QED BY <2>1, <2>2
<1>4. RootHolds(db', acked', ingested')
  <2>1. Root(0) \in Pids /\ Len(Root(0)) = 1 BY RootIs
  <2>2. \A g \in Nat : Root(0) # Child(fin.active[i].id, g)
    <3> TAKE g \in Nat
    <3>1. PICK l \in Nat : l = Len(fin.active[i].id) /\ l > 0
      <4>1. fin.active[i].id \in Seq(Nat \ {0, 1}) BY <1>1 DEF Pids
      <4>2. Len(fin.active[i].id) > 0 BY <1>1 DEF WaveOk, WaveShape
      <4> QED BY <4>1, <4>2
    <3>2. Len(Child(fin.active[i].id, g)) = l + 1 BY <3>1, <1>1, ChildIs
    <3>3. l + 1 # 1 BY <3>1
    <3> QED BY <2>1, <3>2, <3>3
  <2>3. Agree(db, db', {Root(0)}) BY <1>2, <2>1, <2>2
  <2> QED BY <2>3, <1>1 DEF RootHolds, Agree
<1>5. WaveOk(fin, db, acked, out)' BY <1>3
<1>6. CallOk' BY <1>1, <1>5 DEF CallOk
<1>7. phase' # "Finalized" BY <1>1
<1>8. (\E V : db \in Dbs(V))' OBVIOUS
<1> QED BY <1>4, <1>6, <1>7, <1>8 DEF V3Inv

-----------------------------------------------------------------------------
(* The forms of EXCEPT.                                                       *)

JobAs(s, t, d, c, k) == [st |-> s, todo |-> t, ids |-> d, child |-> c, kids |-> k]
SetSt(w, i, v) == [w EXCEPT !.jobs[i].st = v]
SetTodo(w, i, v) == [w EXCEPT !.jobs[i].todo = v]
SetIds(w, i, v) == [w EXCEPT !.jobs[i].ids = v]
SetChild(w, i, v) == [w EXCEPT !.jobs[i].child = v]
SetKids(w, i, v) == [w EXCEPT !.jobs[i].kids = v]
SetSplit(w, i, s, k) == [w EXCEPT !.jobs[i].st = s, !.jobs[i].kids = k]
SetLoaded(w, i, s, t, c) == [w EXCEPT !.jobs[i].st = s, !.jobs[i].todo = t, !.jobs[i].child = c]
SetPut(w, i, t, d) == [w EXCEPT !.jobs[i].todo = t, !.jobs[i].ids = d]

\* One field of one job changes.
LEMMA SetField ==
    ASSUME NEW w, NEW i \in DOMAIN w.active, NEW s, NEW t, NEW d, NEW c, NEW k, NEW v,
           NEW z, z = WithJob(w, i, JobAs(s, t, d, c, k))
    PROVE  /\ SetSt(z, i, v) = WithJob(w, i, JobAs(v, t, d, c, k))
           /\ SetTodo(z, i, v) = WithJob(w, i, JobAs(s, v, d, c, k))
           /\ SetIds(z, i, v) = WithJob(w, i, JobAs(s, t, v, c, k))
           /\ SetChild(z, i, v) = WithJob(w, i, JobAs(s, t, d, v, k))
           /\ SetKids(z, i, v) = WithJob(w, i, JobAs(s, t, d, c, v))
<1>1. PICK a, la, te, id, inp : a = w.active /\ la = w.layer /\ te = w.terminals /\ id = w.ids /\ inp = w.input OBVIOUS
<1> DEFINE js(b) == [j \in DOMAIN a |-> IF j = i THEN b ELSE w.jobs[j]]
           rec(x) == [stage |-> "wave", layer |-> la, active |-> a, jobs |-> x, terminals |-> te, ids |-> id, input |-> inp]
<1>2. \A b : WithJob(w, i, b) = rec(js(b)) BY <1>1 DEF WithJob
<1>3. \A b : js(b)[i] = b BY <1>1
<1>4. \A b, e : [js(b) EXCEPT ![i] = e] = js(e) OBVIOUS
<1> HIDE DEF js
<1>5. \A x, y : rec(x).jobs = x /\ [rec(x) EXCEPT !.jobs = y] = rec(y) OBVIOUS
<1>6. PICK job : job = JobAs(s, t, d, c, k) OBVIOUS
<1>7. z = rec(js(job)) /\ z.jobs = js(job) /\ \A y : [z EXCEPT !.jobs = y] = rec(y)
  <2>1. PICK x : x = js(job) OBVIOUS
  <2>2. z = rec(x) BY <2>1, <1>2, <1>6
  <2> QED BY <2>1, <2>2, <1>5
<1> HIDE DEF rec
<1>8. SetSt(z, i, v) = rec(js(JobAs(v, t, d, c, k)))
  <2>1. SetSt(z, i, v) = [z EXCEPT !.jobs = [z.jobs EXCEPT ![i] = [z.jobs[i] EXCEPT !.st = v]]] BY DEF SetSt
  <2>2. [job EXCEPT !.st = v] = JobAs(v, t, d, c, k) BY <1>6 DEF JobAs
  <2>3. z.jobs[i] = job BY <1>3, <1>7
  <2>4. PICK e : e = JobAs(v, t, d, c, k) OBVIOUS
  <2>5. SetSt(z, i, v) = [z EXCEPT !.jobs = [js(job) EXCEPT ![i] = e]] BY <2>1, <2>2, <2>3, <2>4, <1>7
  <2> QED BY <2>4, <2>5, <1>4, <1>7
<1>9. SetTodo(z, i, v) = rec(js(JobAs(s, v, d, c, k)))
  <2>1. SetTodo(z, i, v) = [z EXCEPT !.jobs = [z.jobs EXCEPT ![i] = [z.jobs[i] EXCEPT !.todo = v]]] BY DEF SetTodo
  <2>2. [job EXCEPT !.todo = v] = JobAs(s, v, d, c, k) BY <1>6 DEF JobAs
  <2>3. z.jobs[i] = job BY <1>3, <1>7
  <2>4. PICK e : e = JobAs(s, v, d, c, k) OBVIOUS
  <2>5. SetTodo(z, i, v) = [z EXCEPT !.jobs = [js(job) EXCEPT ![i] = e]] BY <2>1, <2>2, <2>3, <2>4, <1>7
  <2> QED BY <2>4, <2>5, <1>4, <1>7
<1>10. SetIds(z, i, v) = rec(js(JobAs(s, t, v, c, k)))
  <2>1. SetIds(z, i, v) = [z EXCEPT !.jobs = [z.jobs EXCEPT ![i] = [z.jobs[i] EXCEPT !.ids = v]]] BY DEF SetIds
  <2>2. [job EXCEPT !.ids = v] = JobAs(s, t, v, c, k) BY <1>6 DEF JobAs
  <2>3. z.jobs[i] = job BY <1>3, <1>7
  <2>4. PICK e : e = JobAs(s, t, v, c, k) OBVIOUS
  <2>5. SetIds(z, i, v) = [z EXCEPT !.jobs = [js(job) EXCEPT ![i] = e]] BY <2>1, <2>2, <2>3, <2>4, <1>7
  <2> QED BY <2>4, <2>5, <1>4, <1>7
<1>11. SetChild(z, i, v) = rec(js(JobAs(s, t, d, v, k)))
  <2>1. SetChild(z, i, v) = [z EXCEPT !.jobs = [z.jobs EXCEPT ![i] = [z.jobs[i] EXCEPT !.child = v]]] BY DEF SetChild
  <2>2. [job EXCEPT !.child = v] = JobAs(s, t, d, v, k) BY <1>6 DEF JobAs
  <2>3. z.jobs[i] = job BY <1>3, <1>7
  <2>4. PICK e : e = JobAs(s, t, d, v, k) OBVIOUS
  <2>5. SetChild(z, i, v) = [z EXCEPT !.jobs = [js(job) EXCEPT ![i] = e]] BY <2>1, <2>2, <2>3, <2>4, <1>7
  <2> QED BY <2>4, <2>5, <1>4, <1>7
<1>12. SetKids(z, i, v) = rec(js(JobAs(s, t, d, c, v)))
  <2>1. SetKids(z, i, v) = [z EXCEPT !.jobs = [z.jobs EXCEPT ![i] = [z.jobs[i] EXCEPT !.kids = v]]] BY DEF SetKids
  <2>2. [job EXCEPT !.kids = v] = JobAs(s, t, d, c, v) BY <1>6 DEF JobAs
  <2>3. z.jobs[i] = job BY <1>3, <1>7
  <2>4. PICK e : e = JobAs(s, t, d, c, v) OBVIOUS
  <2>5. SetKids(z, i, v) = [z EXCEPT !.jobs = [js(job) EXCEPT ![i] = e]] BY <2>1, <2>2, <2>3, <2>4, <1>7
  <2> QED BY <2>4, <2>5, <1>4, <1>7
<1> QED BY <1>2, <1>8, <1>9, <1>10, <1>11, <1>12

LEMMA WithOwnJob == ASSUME NEW w, WaveShape(w), NEW i \in DOMAIN w.active PROVE w = WithJob(w, i, w.jobs[i])
<1>1. PICK js : js = w.jobs /\ js = [j \in DOMAIN w.active |-> js[j]] BY DEF WaveShape
<1>2. [j \in DOMAIN w.active |-> IF j = i THEN js[i] ELSE js[j]] = js BY <1>1
<1> QED BY <1>1, <1>2 DEF WithJob, WaveShape


LEMMA JobForms ==
    ASSUME NEW w, WaveShape(w), NEW i \in DOMAIN w.active, NEW s, NEW t, NEW d, NEW c, NEW k,
           w.jobs[i] = JobAs(s, t, d, c, k), NEW ss, NEW tt, NEW dd, NEW cc, NEW kk
    PROVE  /\ SetSt(w, i, ss) = WithJob(w, i, JobAs(ss, t, d, c, k))
           /\ SetSplit(w, i, ss, kk) = WithJob(w, i, JobAs(ss, t, d, c, kk))
           /\ SetLoaded(w, i, ss, tt, cc) = WithJob(w, i, JobAs(ss, tt, d, cc, k))
           /\ SetPut(w, i, tt, dd) = WithJob(w, i, JobAs(s, tt, dd, c, k))
<1>1. PICK z : z = WithJob(w, i, JobAs(s, t, d, c, k)) OBVIOUS
<1>2. z = w BY <1>1, WithOwnJob
<1> DEFINE zs == SetSt(z, i, ss)
           zt == SetTodo(zs, i, tt)
           zu == SetTodo(z, i, tt)
<1>3. zs = WithJob(w, i, JobAs(ss, t, d, c, k)) BY <1>1, SetField
<1>4. zu = WithJob(w, i, JobAs(s, tt, d, c, k)) BY <1>1, SetField
<1>5. SetKids(zs, i, kk) = WithJob(w, i, JobAs(ss, t, d, c, kk))
  <2> HIDE DEF zs
  <2> QED BY <1>3, SetField
<1>6. zt = WithJob(w, i, JobAs(ss, tt, d, c, k))
  <2> HIDE DEF zs
  <2> QED BY <1>3, SetField
<1>7. SetChild(zt, i, cc) = WithJob(w, i, JobAs(ss, tt, d, cc, k))
  <2> HIDE DEF zt
  <2> QED BY <1>6, SetField
<1>8. SetIds(zu, i, dd) = WithJob(w, i, JobAs(s, tt, dd, c, k))
  <2> HIDE DEF zu
  <2> QED BY <1>4, SetField
<1>9. SetSt(w, i, ss) = zs BY <1>2
<1>10. SetSplit(w, i, ss, kk) = SetKids(zs, i, kk) BY <1>2 DEF SetSplit, SetSt, SetKids
<1>11. SetLoaded(w, i, ss, tt, cc) = SetChild(zt, i, cc)
  BY <1>2 DEF SetLoaded, SetSt, SetTodo, SetChild
<1>12. SetPut(w, i, tt, dd) = SetIds(zu, i, dd) BY <1>2 DEF SetPut, SetTodo, SetIds
<1> HIDE DEF zs, zt, zu
<1> QED BY <1>3, <1>5, <1>7, <1>8, <1>9, <1>10, <1>11, <1>12

\* A record with the fields of a job.
IsJob(b) == b = JobAs(b.st, b.todo, b.ids, b.child, b.kids)

LEMMA JobSetSt ==
    ASSUME NEW w, WaveShape(w), NEW i \in DOMAIN w.active, NEW b, b = w.jobs[i], IsJob(b), NEW s
    PROVE  SetSt(w, i, s) = WithJob(w, i, JobAs(s, b.todo, b.ids, b.child, b.kids))
<1>1. PICK x, t, d, c, k : x = b.st /\ t = b.todo /\ d = b.ids /\ c = b.child /\ k = b.kids OBVIOUS
<1>2. w.jobs[i] = JobAs(x, t, d, c, k) BY <1>1 DEF IsJob
<1>3. SetSt(w, i, s) = WithJob(w, i, JobAs(s, t, d, c, k)) BY ONLY <1>2, WaveShape(w), i \in DOMAIN w.active, JobForms
<1> QED BY <1>1, <1>3

LEMMA JobSetSplit ==
    ASSUME NEW w, WaveShape(w), NEW i \in DOMAIN w.active, NEW b, b = w.jobs[i], IsJob(b), NEW s, NEW kids
    PROVE  SetSplit(w, i, s, kids) = WithJob(w, i, JobAs(s, b.todo, b.ids, b.child, kids))
<1>1. PICK x, t, d, c, k : x = b.st /\ t = b.todo /\ d = b.ids /\ c = b.child /\ k = b.kids OBVIOUS
<1>2. w.jobs[i] = JobAs(x, t, d, c, k) BY <1>1 DEF IsJob
<1>3. SetSplit(w, i, s, kids) = WithJob(w, i, JobAs(s, t, d, c, kids)) BY ONLY <1>2, WaveShape(w), i \in DOMAIN w.active, JobForms
<1> QED BY <1>1, <1>3

LEMMA JobSetLoaded ==
    ASSUME NEW w, WaveShape(w), NEW i \in DOMAIN w.active, NEW b, b = w.jobs[i], IsJob(b), NEW s, NEW todo, NEW child
    PROVE  SetLoaded(w, i, s, todo, child) = WithJob(w, i, JobAs(s, todo, b.ids, child, b.kids))
<1>1. PICK x, t, d, c, k : x = b.st /\ t = b.todo /\ d = b.ids /\ c = b.child /\ k = b.kids OBVIOUS
<1>2. w.jobs[i] = JobAs(x, t, d, c, k) BY <1>1 DEF IsJob
<1>3. SetLoaded(w, i, s, todo, child) = WithJob(w, i, JobAs(s, todo, d, child, k)) BY ONLY <1>2, WaveShape(w), i \in DOMAIN w.active, JobForms
<1> QED BY <1>1, <1>3

LEMMA JobSetPut ==
    ASSUME NEW w, WaveShape(w), NEW i \in DOMAIN w.active, NEW b, b = w.jobs[i], IsJob(b), NEW todo, NEW ids
    PROVE  SetPut(w, i, todo, ids) = WithJob(w, i, JobAs(b.st, todo, ids, b.child, b.kids))
<1>1. PICK x, t, d, c, k : x = b.st /\ t = b.todo /\ d = b.ids /\ c = b.child /\ k = b.kids OBVIOUS
<1>2. w.jobs[i] = JobAs(x, t, d, c, k) BY <1>1 DEF IsJob
<1>3. SetPut(w, i, todo, ids) = WithJob(w, i, JobAs(x, todo, ids, c, k)) BY ONLY <1>2, WaveShape(w), i \in DOMAIN w.active, JobForms
<1> QED BY <1>1, <1>3

-----------------------------------------------------------------------------
(* The steps of one job: its input is read, its blocks are put.               *)
LEMMA FieldsOf == ASSUME NEW s, NEW t, NEW d, NEW c, NEW k, NEW b, b = JobAs(s, t, d, c, k)
                  PROVE  b.st = s /\ b.todo = t /\ b.ids = d /\ b.child = c /\ b.kids = k /\ b = JobAs(b.st, b.todo, b.ids, b.child, b.kids)
BY DEF JobAs

\* A job that ends without a result.
LEMMA JobEnds ==
    ASSUME V3Inv, fin.stage = "wave", NEW i \in DOMAIN fin.active, fin.jobs[i].st \in {"todo", "puts"},
           NEW s \in {"failed", "cancelled"}, fin' = SetSt(fin, i, s),
           NEW U, db \in Dbs(U), db' \in Dbs(U),
           \A q \in Pids : (\A g \in Nat : q # Child(fin.active[i].id, g)) => Entries(db', q) = Entries(db, q),
           UNCHANGED <<batches, acked, phase, ingested, out>>
    PROVE  V3Inv'
<1>1. WaveShape(fin) /\ JobOk(fin.jobs[i], db, fin.layer, fin.active[i], out) BY InWaveIs
<1>2. PICK b : b = fin.jobs[i] OBVIOUS
<1>3. IsJob(b) BY <1>1, <1>2 DEF JobOk, JobAs, IsJob
<1>4. b.kids = <<>> /\ b.ids \subseteq out BY <1>1, <1>2 DEF JobOk, JobTodo, JobPuts
<1>5. PICK job : job = JobAs(s, b.todo, b.ids, b.child, b.kids) OBVIOUS
<1>6. fin' = WithJob(fin, i, job) BY <1>1, <1>2, <1>3, <1>5, JobSetSt
<1>7. JobOk(job, db', fin.layer, fin.active[i], out')
  <2>1. job.st = s /\ job.ids = b.ids /\ job.kids = b.kids /\ job = JobAs(job.st, job.todo, job.ids, job.child, job.kids)
    BY <1>5, FieldsOf
  <2> QED BY <2>1, <1>4 DEF JobOk, JobAs
<1> QED BY <1>6, <1>7, WaveStep

LeavesOf(layer, values) == IF layer = 0 THEN [j \in DOMAIN values |-> Leaf(values[j])] ELSE <<>>

LEMMA LoadedIs ==
    ASSUME NEW U, NEW values \in Seq(U), values # <<>>, NEW layer \in Nat, NEW S, S = Children(layer, values),
           \A b \in S : Tree(b), NEW made, made = Assemble(S), made.ok,
           NEW leaves, leaves = LeavesOf(layer, values)
    PROVE  /\ Tree(made.root) /\ leaves \o made.puts \in Seq(Below(made.root))
           /\ Below(made.root) = Range(leaves \o made.puts) \cup StoredOf(layer, S)
           /\ LeavesBelow(made.root) = Leaves(S)
<1>1. IsFiniteSet(S) /\ S # {} BY ChildrenAre
<1>2. PICK root, puts : root = made.root /\ puts = made.puts OBVIOUS
<1>3. /\ Tree(root) /\ puts \in Seq(Below(root)) /\ \A b \in Range(puts) : b.level > 0
      /\ Below(root) = Range(puts) \cup Blocks(S)
  BY <1>1, <1>2, AssembleIs
<1>4. LeavesBelow(root) = Leaves(S) BY <1>3, AssembledLeaves
<1>5. leaves \in Seq(Below(root)) /\ Blocks(S) = Range(leaves) \cup StoredOf(layer, S)
  <2>1. CASE layer = 0
    <3>1. leaves = [j \in DOMAIN values |-> Leaf(values[j])] BY <2>1 DEF LeavesOf
    <3>2. Range(leaves) = S
      <4>1. S = {Leaf(v) : v \in Range(values)} BY <2>1 DEF Children
      <4>2. Range(values) = {values[j] : j \in DOMAIN values} BY DEF Range
      <4>3. Range(leaves) = {Leaf(values[j]) : j \in DOMAIN values} BY <3>1 DEF Range
      <4>4. ASSUME NEW x PROVE x \in S <=> x \in Range(leaves)
        <5>1. x \in S <=> \E v \in Range(values) : x = Leaf(v) BY <4>1
        <5>2. x \in Range(leaves) <=> \E j \in DOMAIN values : x = Leaf(values[j]) BY <4>3
        <5>3. \A v : v \in Range(values) <=> \E j \in DOMAIN values : v = values[j] BY <4>2
        <5> QED BY <5>1, <5>2, <5>3
      <4> QED BY <4>4
    <3>3. Blocks(S) = S
      <4>1. \A b \in S : Below(b) = {b} BY <2>1, LeafTree DEF Children
      <4> QED BY <4>1 DEF Blocks
    <3>4. leaves \in Seq(Below(root))
      <4>1. PICK n \in Nat : n = Len(values) /\ DOMAIN values = 1 .. n OBVIOUS
      <4>2. \A j \in 1 .. n : leaves[j] \in Below(root) BY <3>1, <3>2, <3>3, <1>3, <4>1 DEF Range
      <4>3. leaves = [j \in 1 .. n |-> leaves[j]] BY <3>1, <4>1
      <4> QED BY <4>2, <4>3
    <3> QED BY <2>1, <3>2, <3>3, <3>4 DEF StoredOf
  <2>2. CASE layer # 0
    <3>1. leaves = <<>> BY <2>2 DEF LeavesOf
    <3>2. Range(leaves) = {}
      <4>1. DOMAIN leaves = {} BY <3>1
      <4> QED BY <4>1 DEF Range
    <3> QED BY <2>2, <3>1, <3>2 DEF StoredOf
  <2> QED BY <2>1, <2>2
<1>6. leaves \o puts \in Seq(Below(root)) /\ Range(leaves \o puts) = Range(leaves) \cup Range(puts)
  <2>1. PICK B : B = Below(root) OBVIOUS
  <2>2. leaves \in Seq(B) /\ puts \in Seq(B) BY <2>1, <1>3, <1>5
  <2>3. leaves \o puts \in Seq(B) /\ Range(leaves \o puts) = Range(leaves) \cup Range(puts) BY ONLY <2>2, RangeJoined
  <2> QED BY <2>1, <2>3
<1>7. Below(root) = Range(leaves \o puts) \cup StoredOf(layer, S) BY <1>3, <1>5, <1>6
<1> QED BY <1>2, <1>3, <1>4, <1>6, <1>7

LEMMA LoadKeeps ==
    ASSUME V3Assumption, V3Inv, NEW i, Load(i) PROVE V3Inv'
<1>1. fin.stage = "wave" /\ i \in DOMAIN fin.active /\ Terminal(fin.active[i]) /\ fin.jobs[i].st = "todo" BY DEF Load, InWave
<1>2. PICK U : db \in Dbs(U) BY DEF V3Inv
<1>3. /\ WaveShape(fin) /\ WaveHolds(fin, db, acked, out) /\ fin.active[i].id \in Pids
      /\ JobOk(fin.jobs[i], db, fin.layer, fin.active[i], out) /\ fin.layer \in Nat
  BY <1>1, InWaveIs DEF WaveShape
<1>4. UNCHANGED <<batches, acked, phase, ingested, out, db>> BY DEF Load
<1>5. db' \in Dbs(U) /\ \A q : Entries(db', q) = Entries(db, q) BY <1>2, <1>4
<1> DEFINE values == ReadAll(db, fin.active[i].id)
           S == Children(fin.layer, values)
           made == Assemble(S)
           leaves == IF fin.layer = 0 THEN [j \in DOMAIN values |-> Leaf(values[j])] ELSE <<>>
           todo == leaves \o made.puts
<1>6. \/ fin' = SetSt(fin, i, "cancelled") \/ fin' = SetSt(fin, i, "failed")
      \/ made.ok /\ fin' = SetLoaded(fin, i, "puts", todo, made.root)
  BY DEF Load, JobFails, SetSt, SetLoaded
<1>7. values = Entries(db, fin.active[i].id) /\ S = Holds(db, fin.layer, fin.active[i]) /\ values \in Seq(U)
  BY <1>2, <1>3, ReadAllIs, CountIs DEF Holds
<1>8. values # <<>> /\ \A b \in S : Tree(b)
  <2>1. S \subseteq InputOf(fin, db) BY <1>1, <1>7 DEF InputOf
  <2> QED BY <1>1, <1>3, <1>7, <2>1 DEF WaveHolds
<1>9. CASE fin' = SetSt(fin, i, "cancelled") \/ fin' = SetSt(fin, i, "failed")
  BY <1>9, <1>1, <1>2, <1>4, <1>5, JobEnds
<1>10. CASE made.ok /\ fin' = SetLoaded(fin, i, "puts", todo, made.root)
  <2>1. PICK b : b = fin.jobs[i] OBVIOUS
  <2>2. IsJob(b) BY <1>3, <2>1 DEF JobOk, JobAs, IsJob
  <2>3. b.kids = <<>> /\ b.ids = {} BY <1>1, <1>3, <2>1 DEF JobOk, JobTodo
  <2>4. PICK job : job = JobAs("puts", todo, b.ids, made.root, b.kids) OBVIOUS
  <2>5. /\ Tree(made.root) /\ todo \in Seq(Below(made.root))
        /\ Below(made.root) = Range(todo) \cup StoredOf(fin.layer, S) /\ LeavesBelow(made.root) = Leaves(S)
    <3>1. PICK v, s, m, l, n : v = values /\ s = S /\ m = made /\ l = leaves /\ n = fin.layer OBVIOUS
    <3>2. /\ v \in Seq(U) /\ v # <<>> /\ n \in Nat /\ s = Children(n, v) /\ (\A x \in s : Tree(x)) /\ m = Assemble(s) /\ m.ok
          /\ l = LeavesOf(n, v)
      BY <3>1, <1>3, <1>7, <1>8, <1>10 DEF LeavesOf
    <3>3. /\ Tree(m.root) /\ l \o m.puts \in Seq(Below(m.root))
          /\ Below(m.root) = Range(l \o m.puts) \cup StoredOf(n, s) /\ LeavesBelow(m.root) = Leaves(s)
      BY ONLY <3>2, LoadedIs
    <3> QED BY <3>1, <3>3
  <2> HIDE DEF todo, made, leaves, values, S
  <2>6. fin' = WithJob(fin, i, job) BY <1>1, <1>3, <1>10, <2>1, <2>2, <2>4, JobSetLoaded
  <2>7. JobOk(job, db', fin.layer, fin.active[i], out')
    <3>1. /\ job.st = "puts" /\ job.todo = todo /\ job.ids = {} /\ job.child = made.root /\ job.kids = <<>>
          /\ job = JobAs(job.st, job.todo, job.ids, job.child, job.kids)
      BY <2>3, <2>4, FieldsOf
    <3>2. Holds(db', fin.layer, fin.active[i]) = S BY <1>5, <1>7 DEF Holds
    <3>3. JobPuts(job, db', fin.layer, fin.active[i]) BY <1>1, <2>5, <3>1, <3>2 DEF JobPuts
    <3> QED BY <3>1, <3>3 DEF JobOk, JobAs
  <2> QED BY <1>1, <1>2, <1>4, <1>5, <2>6, <2>7, WaveStep
<1> QED BY <1>6, <1>9, <1>10

LEMMA PutKeeps ==
    ASSUME V3Assumption, V3Inv, NEW i, Put(i) PROVE V3Inv'
<1>1. fin.stage = "wave" /\ i \in DOMAIN fin.active /\ fin.jobs[i].st = "puts" /\ fin.jobs[i].todo # <<>> BY DEF Put, InWave
<1>2. PICK U : db \in Dbs(U) BY DEF V3Inv
<1>3. /\ WaveShape(fin) /\ WaveHolds(fin, db, acked, out) /\ fin.active[i].id \in Pids
      /\ JobOk(fin.jobs[i], db, fin.layer, fin.active[i], out) /\ fin.layer \in Nat
  BY <1>1, InWaveIs DEF WaveShape
<1>4. UNCHANGED <<batches, acked, phase, ingested, db>> BY DEF Put
<1>5. db' \in Dbs(U) /\ \A q : Entries(db', q) = Entries(db, q) BY <1>2, <1>4
<1>6. PICK b : b = fin.jobs[i] OBVIOUS
<1>7. IsJob(b) BY <1>3, <1>6 DEF JobOk, JobAs, IsJob
<1>8. JobPuts(b, db, fin.layer, fin.active[i]) /\ b.ids \subseteq out BY <1>1, <1>3, <1>6 DEF JobOk
<1>9. PICK head, tail : head = Head(b.todo) /\ tail = Tail(b.todo) OBVIOUS
<1>10. \/ fin' = SetSt(fin, i, "cancelled") /\ UNCHANGED out
       \/ out' = out \cup {head} /\ fin' = SetPut(fin, i, tail, b.ids \cup {head})
  BY <1>6, <1>9 DEF Put, JobFails, SetSt, SetPut
<1>11. CASE fin' = SetSt(fin, i, "cancelled") /\ UNCHANGED out BY <1>11, <1>1, <1>2, <1>4, <1>5, JobEnds
<1>12. CASE out' = out \cup {head} /\ fin' = SetPut(fin, i, tail, b.ids \cup {head})
  <2>1. PICK job : job = JobAs(b.st, tail, b.ids \cup {head}, b.child, b.kids) OBVIOUS
  <2>2. fin' = WithJob(fin, i, job) BY <1>1, <1>3, <1>12, <1>6, <1>7, <2>1, JobSetPut
  <2>3. tail \in Seq(Below(b.child)) /\ Range(b.todo) = {head} \cup Range(tail)
    <3>1. PICK B, t : B = Below(b.child) /\ t = b.todo /\ t \in Seq(B) /\ t # <<>> BY <1>1, <1>6, <1>8 DEF JobPuts
    <3>2. Tail(t) \in Seq(B)
      <4>1. t \in Seq(B) /\ t # <<>> BY <3>1
      <4> QED BY ONLY <4>1
    <3>3. Range(t) = {Head(t)} \cup Range(Tail(t))
      <4>1. PICK n \in Nat : n = Len(t) /\ n > 0 BY <3>1
      <4>2. Range(t) = {t[k] : k \in 1 .. n} BY <3>1, <4>1 DEF Range
      <4>3. Range(Tail(t)) = {t[k + 1] : k \in 1 .. n - 1}
        <5>1. DOMAIN Tail(t) = 1 .. n - 1 /\ \A k \in 1 .. n - 1 : Tail(t)[k] = t[k + 1] BY <3>1, <4>1
        <5> QED BY <5>1 DEF Range
      <4>4. Head(t) = t[1] BY <3>1
      <4>5. \A k \in 1 .. n : k = 1 \/ (k - 1 \in 1 .. n - 1 /\ k = (k - 1) + 1) BY <4>1
      <4>6. \A k \in 1 .. n - 1 : k + 1 \in 1 .. n BY <4>1
      <4>7. 1 \in 1 .. n BY <4>1
      <4>8. ASSUME NEW v PROVE v \in Range(t) <=> v \in {Head(t)} \cup Range(Tail(t))
        <5>1. ASSUME v \in Range(t) PROVE v \in {Head(t)} \cup Range(Tail(t))
          <6>1. PICK k \in 1 .. n : v = t[k] BY <5>1, <4>2
          <6>2. k = 1 \/ (k - 1 \in 1 .. n - 1 /\ v = t[(k - 1) + 1]) BY <6>1, <4>5
          <6> QED BY <6>1, <6>2, <4>3, <4>4
        <5>2. ASSUME v \in {Head(t)} \cup Range(Tail(t)) PROVE v \in Range(t) BY <5>2, <4>2, <4>3, <4>4, <4>6, <4>7
        <5> QED BY <5>1, <5>2
      <4> QED BY <4>8
    <3> QED BY <3>1, <3>2, <3>3, <1>9
  <2>4. JobOk(job, db', fin.layer, fin.active[i], out')
    <3>1. /\ job.st = b.st /\ job.todo = tail /\ job.ids = b.ids \cup {head} /\ job.child = b.child /\ job.kids = b.kids
          /\ job = JobAs(job.st, job.todo, job.ids, job.child, job.kids)
      BY <2>1, FieldsOf
    <3>2. Holds(db', fin.layer, fin.active[i]) = Holds(db, fin.layer, fin.active[i]) BY <1>5 DEF Holds
    <3>3. JobPuts(job, db', fin.layer, fin.active[i]) BY <1>8, <2>3, <3>1, <3>2 DEF JobPuts
    <3> QED BY <1>1, <1>6, <1>8, <1>12, <3>1, <3>3 DEF JobOk, JobAs
  <2> QED BY <1>1, <1>2, <1>4, <1>5, <1>12, <2>2, <2>4, WaveStep
<1> QED BY <1>10, <1>11, <1>12

LEMMA MaterializedKeeps ==
    ASSUME V3Inv, NEW i, Materialized(i) PROVE V3Inv'
<1>1. fin.stage = "wave" /\ i \in DOMAIN fin.active /\ fin.jobs[i].st = "puts" /\ fin.jobs[i].todo = <<>> BY DEF Materialized, InWave
<1>2. PICK U : db \in Dbs(U) BY DEF V3Inv
<1>3. WaveShape(fin) /\ JobOk(fin.jobs[i], db, fin.layer, fin.active[i], out) BY <1>1, InWaveIs
<1>4. UNCHANGED <<batches, acked, phase, ingested, db, out>> BY DEF Materialized
<1>5. db' \in Dbs(U) /\ \A q : Entries(db', q) = Entries(db, q) BY <1>2, <1>4
<1>6. PICK b : b = fin.jobs[i] OBVIOUS
<1>7. IsJob(b) BY <1>3, <1>6 DEF JobOk, JobAs, IsJob
<1>8. JobPuts(b, db, fin.layer, fin.active[i]) /\ b.ids \subseteq out BY <1>1, <1>3, <1>6 DEF JobOk
<1>9. PICK job : job = JobAs("done", b.todo, b.ids, b.child, b.kids) OBVIOUS
<1>10. fin' = SetSt(fin, i, "done") BY DEF Materialized, SetSt
<1>11. fin' = WithJob(fin, i, job) BY <1>1, <1>3, <1>10, <1>6, <1>7, <1>9, JobSetSt
<1>12. JobOk(job, db', fin.layer, fin.active[i], out')
  <2>1. /\ job.st = "done" /\ job.todo = b.todo /\ job.ids = b.ids /\ job.child = b.child /\ job.kids = b.kids
        /\ job = JobAs(job.st, job.todo, job.ids, job.child, job.kids)
    BY <1>9, FieldsOf
  <2>2. Holds(db', fin.layer, fin.active[i]) = Holds(db, fin.layer, fin.active[i]) BY <1>5 DEF Holds
  <2>3. JobPuts(job, db', fin.layer, fin.active[i]) BY <1>8, <2>1, <2>2 DEF JobPuts
  <2> QED BY <1>1, <1>4, <1>6, <1>8, <2>1, <2>3 DEF JobOk, JobAs
<1> QED BY <1>1, <1>2, <1>4, <1>5, <1>11, <1>12, WaveStep

LEMMA MaterializeFailsKeeps ==
    ASSUME V3Inv, NEW i, MaterializeFails(i) PROVE V3Inv'
<1>1. fin.stage = "wave" /\ i \in DOMAIN fin.active /\ ~Settled(i) BY DEF MaterializeFails, InWave
<1>2. PICK U : db \in Dbs(U) BY DEF V3Inv
<1>3. JobOk(fin.jobs[i], db, fin.layer, fin.active[i], out) BY <1>1, InWaveIs
<1>4. fin.jobs[i].st \in {"todo", "puts"} BY <1>1, <1>3 DEF JobOk, Settled
<1>5. UNCHANGED <<batches, acked, phase, ingested, db, out>> BY DEF MaterializeFails
<1>6. db' \in Dbs(U) /\ \A q : Entries(db', q) = Entries(db, q) BY <1>2, <1>5
<1>7. fin' = SetSt(fin, i, "failed") BY DEF MaterializeFails, JobFails, SetSt
<1> QED BY <1>1, <1>2, <1>4, <1>5, <1>6, <1>7, JobEnds

-----------------------------------------------------------------------------
(* A partition is split.                                                      *)
LEMMA KidsAre ==
    ASSUME NEW p \in Parts, NEW count \in Nat
    PROVE  /\ Distinct(Kids(p.id, count)) /\ Kids(p.id, count) \in Seq(Pids) /\ DOMAIN Kids(p.id, count) = 1 .. count
           /\ \A g \in 1 .. count : Kids(p.id, count)[g] = Child(p.id, g)
           /\ \A q : (\A g \in Nat : q # Child(p.id, g)) => q \notin Range(Kids(p.id, count))
           /\ p.id \in Pids /\ \A g \in Nat : p.id # Child(p.id, g)
<1>1. p.id \in Pids BY DEF Parts
<1>2. \A g \in Nat : Child(p.id, g) \in Pids /\ Child(p.id, g) # p.id BY KidsApart
<1>3. \A g, h \in Nat : g # h => Child(p.id, g) # Child(p.id, h) BY KidsApart
<1>4. PICK kids : kids = Kids(p.id, count) OBVIOUS
<1>5. DOMAIN kids = 1 .. count /\ \A g \in 1 .. count : g \in Nat /\ kids[g] = Child(p.id, g) BY <1>4 DEF Kids
<1>6. kids \in Seq(Pids)
  <2>1. kids \in [1 .. count -> Pids] BY <1>2, <1>4, <1>5 DEF Kids
  <2> QED BY <2>1
<1>7. \A g, h \in 1 .. count : g # h => kids[g] # kids[h] BY <1>3, <1>5
<1>8. \A q : (\A g \in Nat : q # Child(p.id, g)) => q \notin Range(kids) BY <1>5 DEF Range
<1> QED BY <1>1, <1>2, <1>4, <1>5, <1>6, <1>7, <1>8 DEF Distinct

\* The kids that have items, in order.
Full(at, count, n) == {g \in 1 .. count : Members(at, g, 1, n) # {}}

GoodSplit(split, d, p) ==
    /\ \A q \in Pids : (\A g \in Nat : q # Child(p.id, g)) => Entries(split.db, q) = Entries(d, q)
    /\ split.kids \in Seq(Parts) /\ split.kids # <<>> /\ Apart(split.kids)
    /\ \A k \in Range(split.kids) : (\E g \in Nat : k.id = Child(p.id, g)) /\ Count(split.db, k.id) = k.n
    /\ UNION {Range(Entries(split.db, k.id)) : k \in Range(split.kids)} = Range(Entries(split.db, p.id))

LEMMA SplitIs ==
    ASSUME V3Assumption, NEW U, db \in Dbs(U), NEW p \in Parts, NEW n \in Nat, Count(db, p.id) = n, n > 0,
           NEW count \in Nat, NEW at, DOMAIN at = 1 .. n, \A j \in 1 .. n : at[j] \in 1 .. count,
           NEW split, split = Split(p, at, count)
    PROVE  split.db \in Dbs(U) /\ GoodSplit(split, db, p)
<1>1. PICK pids, values : pids = Kids(p.id, count) /\ values = Entries(db, p.id) OBVIOUS
<1>2. PICK new : new = Rewritten(db, p.id, pids, at) OBVIOUS
<1>3. /\ Distinct(pids) /\ DOMAIN pids = 1 .. count /\ p.id \in Pids /\ \A g \in Nat : p.id # Child(p.id, g)
      /\ \A g \in 1 .. count : pids[g] = Child(p.id, g)
      /\ \A q : (\A g \in Nat : q # Child(p.id, g)) => q \notin Range(pids)
  BY <1>1, KidsAre
<1>4. new \in Dbs(U) /\ Parted(new, db, pids, values, at, n)
  BY <1>1, <1>2, <1>3, RewrittenIs
<1>5. /\ \A g \in 1 .. count : /\ Len(Entries(new, pids[g])) = Cardinality(Members(at, g, 1, n))
                               /\ Range(Entries(new, pids[g])) = Picked(values, Members(at, g, 1, n))
      /\ \A q \in Pids : q \notin Range(pids) => Entries(new, q) = Entries(db, q)
  BY <1>3, <1>4 DEF Parted
<1>6. PICK G : G = Full(at, count, n) OBVIOUS
<1>7. G \in SUBSET Nat /\ IsFiniteSet(G) /\ G \subseteq 1 .. count
  <2>1. G \subseteq 1 .. count BY <1>6 DEF Full
  <2>2. IsFiniteSet(1 .. count)
    <3>1. 1 \in Int /\ count \in Int OBVIOUS
    <3> QED BY <3>1, FS_Interval
  <2>3. IsFiniteSet(G) BY <2>1, <2>2, FS_Subset
  <2> QED BY <2>1, <2>3
<1>8. PICK full, m : full = ByRank(G) /\ m = Cardinality(G) OBVIOUS
<1>9. /\ m \in Nat /\ full \in [1 .. m -> G] /\ \A i, j \in 1 .. m : i # j => full[i] # full[j]
      /\ \A x \in G : \E i \in 1 .. m : full[i] = x
  BY <1>7, <1>8, RankIs
<1>10. split.db = new /\ split.kids = [k \in 1 .. m |-> Partition(pids[full[k]], Cardinality(Members(at, full[k], 1, n)))]
  <2>1. \A g : {j \in DOMAIN at : at[j] = g} = Members(at, g, 1, n) BY DEF Members
  <2>2. {g \in 1 .. count : {j \in DOMAIN at : at[j] = g} # {}} = G BY <2>1, <1>6 DEF Full
  <2>3. Ordered(G, <) = full BY <1>8 DEF Ordered, ByRank
  <2>4. split = [db |-> new, kids |-> [k \in DOMAIN full |-> Partition(pids[full[k]], Cardinality({j \in DOMAIN at : at[j] = full[k]}))]]
    BY <1>1, <1>2, <2>2, <2>3 DEF Split
  <2>5. DOMAIN full = 1 .. m BY <1>9
  <2> QED BY <2>1, <2>4, <2>5
<1>11. PICK kids : kids = split.kids OBVIOUS
<1>12. \A g \in G : /\ g \in 1 .. count /\ pids[g] = Child(p.id, g) /\ pids[g] \in Pids
                    /\ Cardinality(Members(at, g, 1, n)) \in Nat \ {0}
                    /\ Count(new, pids[g]) = Cardinality(Members(at, g, 1, n))
  <2> TAKE g \in G
  <2>1. g \in 1 .. count /\ g \in Nat /\ pids[g] = Child(p.id, g) BY <1>3, <1>7
  <2>2. pids[g] \in Pids BY <2>1, <1>3 DEF Distinct
  <2>3. Members(at, g, 1, n) # {} BY <1>6 DEF Full
  <2>4. IsFiniteSet(Members(at, g, 1, n)) /\ Cardinality(Members(at, g, 1, n)) \in Nat BY MembersFinite
  <2>5. Cardinality(Members(at, g, 1, n)) # 0 BY <2>3, <2>4, FS_EmptySet
  <2>6. Count(new, pids[g]) = Len(Entries(new, pids[g])) BY <2>2, <1>4, CountIs
  <2> QED BY <2>1, <2>2, <2>4, <2>5, <2>6, <1>5
<1>13. \A k \in 1 .. m : full[k] \in G /\ kids[k].id = pids[full[k]] /\ kids[k].n = Cardinality(Members(at, full[k], 1, n))
                         /\ kids[k] = Partition(pids[full[k]], Cardinality(Members(at, full[k], 1, n)))
  BY <1>9, <1>10, <1>11 DEF Partition
<1>14. DOMAIN kids = 1 .. m /\ kids \in Seq(Parts)
  <2>1. DOMAIN kids = 1 .. m BY <1>10, <1>11
  <2>2. \A k \in 1 .. m : kids[k] \in Parts
    <3> TAKE k \in 1 .. m
    <3>1. PICK a, c : a = pids[full[k]] /\ c = Cardinality(Members(at, full[k], 1, n)) OBVIOUS
    <3>2. a \in Pids /\ c \in Nat \ {0} /\ kids[k] = [id |-> a, n |-> c] BY <3>1, <1>12, <1>13 DEF Partition
    <3> QED BY <3>2 DEF Parts
  <2>3. kids = [k \in 1 .. m |-> kids[k]] BY <1>10, <1>11
  <2>4. kids \in [1 .. m -> Parts] BY <2>2, <2>3
  <2> QED BY <2>1, <2>4, <1>9
<1>15. Apart(kids)
  <2>1. ASSUME NEW i \in 1 .. m, NEW j \in 1 .. m, i # j PROVE kids[i].id # kids[j].id
    <3>1. full[i] \in G /\ full[j] \in G /\ full[i] # full[j] BY <2>1, <1>9, <1>13
    <3>2. full[i] \in 1 .. count /\ full[j] \in 1 .. count BY <3>1, <1>12
    <3>3. pids[full[i]] # pids[full[j]] BY <3>1, <3>2, <1>3 DEF Distinct
    <3> QED BY <3>3, <1>13
  <2> QED BY <2>1, <1>14 DEF Apart
<1>16. ASSUME NEW k \in Range(kids) PROVE (\E g \in Nat : k.id = Child(p.id, g)) /\ Count(new, k.id) = k.n
  <2>1. PICK x \in 1 .. m : k = kids[x] BY <1>16, <1>14 DEF Range
  <2>2. full[x] \in G /\ full[x] \in Nat BY <1>7, <1>13
  <2>3. k.id = Child(p.id, full[x]) /\ Count(new, k.id) = k.n BY <2>1, <2>2, <1>12, <1>13
  <2> QED BY <2>2, <2>3
<1>17. Len(values) = n /\ values \in Seq(U) BY <1>1, <1>3, CountIs
<1>18. Entries(new, p.id) = values BY <1>1, <1>3, <1>5
<1>19. UNION {Range(Entries(new, k.id)) : k \in Range(kids)} = Range(values)
  <2>1. ASSUME NEW v \in Range(values) PROVE \E k \in Range(kids) : v \in Range(Entries(new, k.id))
    <3>1. PICK j \in 1 .. n : v = values[j] BY <2>1, <1>17 DEF Range
    <3>2. PICK g : g = at[j] /\ g \in 1 .. count OBVIOUS
    <3>3. j \in Members(at, g, 1, n) BY <3>2 DEF Members
    <3>4. g \in G BY <3>2, <3>3, <1>6 DEF Full
    <3>5. PICK x \in 1 .. m : full[x] = g BY <3>4, <1>9
    <3>6. kids[x].id = pids[g] /\ kids[x] \in Range(kids) BY <3>5, <1>13, <1>14 DEF Range
    <3>7. v \in Picked(values, Members(at, g, 1, n)) BY <3>1, <3>3 DEF Picked
    <3>8. v \in Range(Entries(new, kids[x].id)) BY <3>2, <3>6, <3>7, <1>5
    <3> QED BY <3>6, <3>8
  <2>2. ASSUME NEW k \in Range(kids), NEW v \in Range(Entries(new, k.id)) PROVE v \in Range(values)
    <3>1. PICK x \in 1 .. m : k = kids[x] BY <2>2, <1>14 DEF Range
    <3>2. PICK g \in G : g = full[x] /\ k.id = pids[g] BY <3>1, <1>13
    <3>3. v \in Picked(values, Members(at, g, 1, n)) BY <3>2, <2>2, <1>5, <1>12
    <3>4. PICK j \in 1 .. n : v = values[j] BY <3>3 DEF Picked, Members
    <3> QED BY <3>4, <1>17 DEF Range
  <2> QED BY <2>1, <2>2
<1>20. kids # <<>>
  <2>1. 1 \in 1 .. n OBVIOUS
  <2>2. PICK g : g = at[1] /\ g \in 1 .. count BY <2>1
  <2>3. 1 \in Members(at, g, 1, n) BY <2>1, <2>2 DEF Members
  <2>4. g \in G BY <2>2, <2>3, <1>6 DEF Full
  <2>5. PICK x \in 1 .. m : full[x] = g BY <2>4, <1>9
  <2>6. DOMAIN kids # {} BY <2>5, <1>14
  <2> QED BY <2>6
<1>21. \A q \in Pids : (\A g \in Nat : q # Child(p.id, g)) => Entries(new, q) = Entries(db, q) BY <1>3, <1>5
<1> QED BY <1>4, <1>10, <1>11, <1>14, <1>15, <1>16, <1>18, <1>19, <1>20, <1>21 DEF GoodSplit

\* The fallback sends every item to one of the groups.
LEMMA FallbackIs ==
    ASSUME NEW n \in Nat, n > Bound, n > 1, Splittable(n)
    PROVE  /\ Len(GroupSizes(n)) \in Nat /\ DOMAIN FallbackAssignment(n) = 1 .. n
           /\ \A j \in 1 .. n : FallbackAssignment(n)[j] \in 1 .. Len(GroupSizes(n))
<1>1. PICK count : count = GroupCount(n) OBVIOUS
<1>2. PICK base, extra : base = n \div count /\ extra = n % count OBVIOUS
<1>3. /\ count \in Nat /\ base \in Nat /\ extra \in Nat /\ count > 0 /\ extra < count /\ n = count * base + extra
  BY <1>1, <1>2, GroupArithmetic
<1> DEFINE End(g) == g * base + IF g <= extra THEN g ELSE extra
           size(g) == base + IF g <= extra THEN 1 ELSE 0
<1>4. GroupSizes(n) = [g \in 1 .. count |-> size(g)]
  <2>1. ~(n <= Bound) BY BoundAssumption
  <2> QED BY <2>1, <1>1, <1>2 DEF GroupSizes
<1>5. Len(GroupSizes(n)) = count /\ DOMAIN GroupSizes(n) = 1 .. count /\ \A g \in 1 .. count : GroupSizes(n)[g] = size(g)
  <2> HIDE DEF size
  <2> QED BY <1>3, <1>4
<1>6. FallbackAssignment(n) = [j \in 1 .. n |-> CHOOSE g \in 1 .. count : j \in End(g - 1) + 1 .. End(g - 1) + GroupSizes(n)[g]]
  BY <1>2, <1>5 DEF FallbackAssignment
<1>7. /\ \A g \in Nat : End(g) \in Nat
      /\ End(0) = 0 /\ End(count) = n
      /\ \A g \in Nat \ {0} : End(g) = End(g - 1) + size(g)
  <2>1. \A g \in Nat : g * base \in Nat BY ONLY <1>3
  <2>2. \A g \in Nat : End(g) \in Nat BY ONLY <1>3, <2>1
  <2>4. End(0) = 0 /\ End(count) = n BY ONLY <1>3
  <2>5. ASSUME NEW g \in Nat \ {0} PROVE End(g) = End(g - 1) + size(g)
    <3>1. g * base = (g - 1) * base + base /\ g - 1 \in Nat BY ONLY <1>3, g \in Nat \ {0}
    <3> QED BY ONLY <1>3, <3>1, <2>1, g \in Nat \ {0}
  <2> HIDE DEF End, size
  <2> QED BY <2>2, <2>4, <2>5
<1> HIDE DEF End, size
<1>8. ASSUME NEW j \in 1 .. n PROVE \E g \in 1 .. count : j \in End(g - 1) + 1 .. End(g - 1) + GroupSizes(n)[g]
  <2>1. PICK S : S = {g \in Nat : j <= End(g)} OBVIOUS
  <2>2. S \in SUBSET Nat /\ count \in S BY <2>1, <1>3, <1>7
  <2>3. PICK g \in S : \A k \in S : g <= k BY <2>2, LeastNumber
  <2>4. g \in Nat /\ j <= End(g) /\ g <= count BY <2>1, <2>2, <2>3
  <2>5. g # 0 BY <2>4, <1>7
  <2>6. g \in Nat \ {0} /\ g - 1 \in Nat /\ g \in 1 .. count BY <2>4, <2>5, <1>3
  <2>7. ~(j <= End(g - 1))
    <3>1. g - 1 \notin S BY <2>3, <2>6
    <3> QED BY <3>1, <2>1, <2>6
  <2>8. End(g - 1) \in Nat /\ End(g) = End(g - 1) + GroupSizes(n)[g] /\ End(g) \in Nat BY <2>6, <1>5, <1>7
  <2>9. j \in End(g - 1) + 1 .. End(g - 1) + GroupSizes(n)[g]
    <3>1. PICK a, b : a = End(g - 1) /\ b = End(g) OBVIOUS
    <3>2. j \in a + 1 .. b BY <3>1, <2>4, <2>7, <2>8
    <3> QED BY <3>1, <3>2, <2>8
  <2> QED BY <2>6, <2>9
<1>9. \A j \in 1 .. n : FallbackAssignment(n)[j] \in 1 .. count BY <1>6, <1>8
<1> QED BY <1>3, <1>5, <1>6, <1>9

LEMMA SplitKeeps ==
    ASSUME V3Inv, NEW i, Turn(i), NEW U, db \in Dbs(U), NEW split, split.db \in Dbs(U),
           GoodSplit(split, db, fin.active[i]), SplitJob(i, split),
           UNCHANGED <<batches, acked, phase, ingested, out>>
    PROVE  V3Inv'
<1>1. fin.stage = "wave" /\ i \in DOMAIN fin.active /\ ~Terminal(fin.active[i]) /\ fin.jobs[i].st = "todo" BY DEF Turn, InWave
<1>2. WaveShape(fin) /\ JobOk(fin.jobs[i], db, fin.layer, fin.active[i], out) BY <1>1, InWaveIs
<1>3. PICK b : b = fin.jobs[i] OBVIOUS
<1>4. IsJob(b) BY <1>2, <1>3 DEF JobOk, JobAs, IsJob
<1>5. b.ids = {} BY <1>1, <1>2, <1>3 DEF JobOk, JobTodo
<1>6. PICK job : job = JobAs("done", b.todo, b.ids, b.child, split.kids) OBVIOUS
<1>7. db' = split.db /\ fin' = SetSplit(fin, i, "done", split.kids) BY DEF SplitJob, SetSplit
<1>8. fin' = WithJob(fin, i, job) BY <1>1, <1>2, <1>3, <1>4, <1>6, <1>7, JobSetSplit
<1>9. JobOk(job, db', fin.layer, fin.active[i], out')
  <2>1. job.st = "done" /\ job.ids = {} /\ job.kids = split.kids /\ job = JobAs(job.st, job.todo, job.ids, job.child, job.kids)
    BY <1>5, <1>6, FieldsOf
  <2>2. JobSplit(job, db', fin.active[i]) BY <1>1, <1>7, <2>1 DEF JobSplit, GoodSplit
  <2> QED BY <2>1, <2>2 DEF JobOk, JobAs
<1>10. \A q \in Pids : (\A g \in Nat : q # Child(fin.active[i].id, g)) => Entries(db', q) = Entries(db, q) BY <1>7 DEF GoodSplit
<1> QED BY <1>1, <1>7, <1>8, <1>9, <1>10, WaveStep

LEMMA SplitMade ==
    ASSUME V3Assumption, NEW U, db \in Dbs(U), NEW p \in Parts, Count(db, p.id) = p.n,
           NEW count \in Nat, NEW at, DOMAIN at = 1 .. p.n, \A j \in 1 .. p.n : at[j] \in 1 .. count
    PROVE  Split(p, at, count).db \in Dbs(U) /\ GoodSplit(Split(p, at, count), db, p)
<1>1. PICK n \in Nat : n = p.n /\ n > 0 BY DEF Parts
<1>2. PICK split : split = Split(p, at, count) OBVIOUS
<1>3. Count(db, p.id) = n /\ DOMAIN at = 1 .. n /\ \A j \in 1 .. n : at[j] \in 1 .. count BY <1>1
<1> QED BY <1>1, <1>2, <1>3, SplitIs

\* What a turn finds.
LEMMA TurnFinds ==
    ASSUME V3Assumption, V3Inv, NEW i, Turn(i), NEW U, db \in Dbs(U)
    PROVE  /\ fin.stage = "wave" /\ i \in DOMAIN fin.active /\ ~Terminal(fin.active[i]) /\ fin.jobs[i].st = "todo"
           /\ fin.active[i] \in Parts /\ fin.active[i].id \in Pids /\ fin.active[i].n \in Nat
           /\ fin.active[i].n > Bound /\ fin.active[i].n > 1
           /\ ReadAll(db, fin.active[i].id) \in Seq(U) /\ ReadAll(db, fin.active[i].id) # <<>>
           /\ Len(ReadAll(db, fin.active[i].id)) = Count(db, fin.active[i].id)
<1>1. fin.stage = "wave" /\ i \in DOMAIN fin.active /\ ~Terminal(fin.active[i]) /\ fin.jobs[i].st = "todo" BY DEF Turn, InWave
<1>2. fin.active[i] \in Parts /\ WaveHolds(fin, db, acked, out) BY <1>1, InWaveIs
<1>3. fin.active[i].id \in Pids /\ fin.active[i].n \in Nat BY <1>2 DEF Parts
<1>4. ReadAll(db, fin.active[i].id) = Entries(db, fin.active[i].id) BY <1>3, ReadAllIs
<1>5. Entries(db, fin.active[i].id) # <<>> BY <1>1, <1>2 DEF WaveHolds
<1>6. fin.active[i].n > Bound /\ fin.active[i].n > 1 BY <1>1, <1>3, BoundAssumption DEF Terminal
<1> QED BY <1>1, <1>2, <1>3, <1>4, <1>5, <1>6, CountIs

LEMMA FallbackSplits ==
    ASSUME V3Assumption, NEW U, db \in Dbs(U), NEW p \in Parts, Count(db, p.id) = p.n, p.n > Bound, p.n > 1, Splittable(p.n)
    PROVE  LET split == Split(p, FallbackAssignment(p.n), Len(GroupSizes(p.n)))
           IN  split.db \in Dbs(U) /\ GoodSplit(split, db, p)
<1>1. p.n \in Nat BY DEF Parts
<1>2. PICK at, count : at = FallbackAssignment(p.n) /\ count = Len(GroupSizes(p.n)) OBVIOUS
<1>3. count \in Nat /\ DOMAIN at = 1 .. p.n /\ \A j \in 1 .. p.n : at[j] \in 1 .. count BY <1>1, <1>2, FallbackIs
<1>4. Split(p, at, count).db \in Dbs(U) /\ GoodSplit(Split(p, at, count), db, p) BY <1>3, SplitMade
<1> QED BY <1>2, <1>4

LEMMA RefineKeeps ==
    ASSUME V3Assumption, V3Inv, NEW i, NEW count \in Nat, count >= 1,
           NEW classifier, \A v \in Range(ReadAll(db, fin.active[i].id)) : classifier[v] \in 1 .. count,
           Refine(i, count, classifier)
    PROVE  V3Inv'
<1>1. PICK U : db \in Dbs(U) BY DEF V3Inv
<1>2. Turn(i) /\ UNCHANGED <<batches, acked, phase, ingested, out>> BY DEF Refine
<1>3. PICK p : p = fin.active[i] OBVIOUS
<1>4. /\ fin.stage = "wave" /\ i \in DOMAIN fin.active /\ fin.jobs[i].st = "todo"
      /\ p \in Parts /\ p.id \in Pids /\ p.n \in Nat /\ p.n > Bound /\ p.n > 1
      /\ ReadAll(db, p.id) \in Seq(U) /\ Len(ReadAll(db, p.id)) = Count(db, p.id)
  BY <1>1, <1>2, <1>3, TurnFinds
<1>5. PICK values : values = ReadAll(db, p.id) OBVIOUS
<1>6. PICK wide : wide = IF count <= 1 THEN 2 ELSE count OBVIOUS
<1>7. wide \in Nat /\ count <= wide BY <1>6
<1>8. PICK at : at = [j \in DOMAIN values |-> classifier[values[j]]] OBVIOUS
<1>9. PICK split : split = Split(p, at, wide) OBVIOUS
<1>10. PICK equal : equal = Split(p, FallbackAssignment(p.n), Len(GroupSizes(p.n))) OBVIOUS
<1>11. \/ fin' = SetSt(fin, i, "failed") /\ db' = db
       \/ Len(values) = p.n /\ SplitJob(i, split)
       \/ Len(values) = p.n /\ Splittable(p.n) /\ SplitJob(i, equal)
       \/ Len(values) = p.n /\ fin' = SetSt(fin, i, "failed") /\ db' = Cleared(split.db, Kids(p.id, wide))
  BY <1>3, <1>5, <1>6, <1>8, <1>9, <1>10 DEF Refine, JobFails, SetSt
<1>12. CASE fin' = SetSt(fin, i, "failed") /\ db' = db
  BY <1>12, <1>1, <1>2, <1>4, JobEnds
<1>13. ASSUME Len(values) = p.n PROVE Count(db, p.id) = p.n /\ split.db \in Dbs(U) /\ GoodSplit(split, db, p)
  <2>1. DOMAIN at = 1 .. p.n BY <1>4, <1>5, <1>8, <1>13
  <2>2. \A j \in 1 .. p.n : at[j] \in 1 .. wide
    <3> TAKE j \in 1 .. p.n
    <3>1. j \in DOMAIN values BY <2>1, <1>8
    <3>2. values[j] \in Range(values) BY <3>1 DEF Range
    <3>3. at[j] \in 1 .. count BY <3>1, <3>2, <1>3, <1>5, <1>8
    <3> QED BY <3>3, <1>7
  <2>3. Count(db, p.id) = p.n BY <1>4, <1>5, <1>13
  <2> QED BY <2>1, <2>2, <2>3, <1>1, <1>4, <1>7, <1>9, SplitMade
<1>14. CASE Len(values) = p.n /\ SplitJob(i, split)
  BY <1>14, <1>13, <1>1, <1>2, <1>3, SplitKeeps
<1>15. CASE Len(values) = p.n /\ Splittable(p.n) /\ SplitJob(i, equal)
  <2>1. equal.db \in Dbs(U) /\ GoodSplit(equal, db, p) BY <1>15, <1>13, <1>1, <1>4, <1>10, FallbackSplits
  <2> QED BY <2>1, <1>15, <1>1, <1>2, <1>3, SplitKeeps
<1>16. CASE Len(values) = p.n /\ fin' = SetSt(fin, i, "failed") /\ db' = Cleared(split.db, Kids(p.id, wide))
  <2>1. /\ Kids(p.id, wide) \in Seq(Pids)
        /\ \A q : (\A g \in Nat : q # Child(p.id, g)) => q \notin Range(Kids(p.id, wide))
    BY <1>4, <1>7, KidsAre
  <2>2. PICK d : d = split.db /\ d \in Dbs(U) BY <1>13, <1>16
  <2>3. db' \in Dbs(U) /\ \A q \in Pids : q \notin Range(Kids(p.id, wide)) => Entries(db', q) = Entries(d, q)
    <3>1. PICK k : k = Kids(p.id, wide) /\ k \in Seq(Pids) BY <2>1
    <3>2. Cleared(d, k) \in Dbs(U) /\ \A q \in Pids : q \notin Range(k) => Entries(Cleared(d, k), q) = Entries(d, q)
      BY ONLY <3>1, <2>2, ClearedIs
    <3> QED BY <3>1, <3>2, <2>2, <1>16
  <2>4. \A q \in Pids : (\A g \in Nat : q # Child(p.id, g)) => Entries(db', q) = Entries(db, q)
    BY <2>1, <2>2, <2>3, <1>13, <1>16 DEF GoodSplit
  <2> QED BY <2>3, <2>4, <1>16, <1>1, <1>2, <1>3, <1>4, JobEnds
<1> QED BY <1>11, <1>12, <1>14, <1>15, <1>16

LEMMA MovedIs == ASSUME V3Assumption, NEW U, NEW values \in Seq(U), NEW n \in Nat PROVE Moved(values, n) \in Seq(U)
<1>1. CASE Len(values) < n BY <1>1 DEF Moved
<1>2. CASE ~(Len(values) < n)
  <2>1. PICK rb \in Nat : rb = ReadBatch /\ rb > 0 BY DEF V3Assumption
  <2>2. PICK m \in Nat : m = (n \div ReadBatch) * ReadBatch /\ m <= n
    <3>1. PICK k : k = n \div rb OBVIOUS
    <3>2. k \in Nat /\ k * rb <= n BY <3>1, <2>1
    <3>3. k * rb \in Nat BY <3>2, <2>1
    <3> QED BY <3>1, <3>2, <3>3, <2>1
  <2>3. m <= Len(values) BY <1>2, <2>2
  <2>4. SubSeq(values, 1, m) \in Seq(U) BY ONLY <2>3, values \in Seq(U), m \in Nat
  <2> QED BY <1>2, <2>2, <2>4 DEF Moved
<1> QED BY <1>1, <1>2

LEMMA RankZeroKeeps == ASSUME V3Assumption, V3Inv, NEW i, RankZero(i) PROVE V3Inv'
<1>1. PICK U : db \in Dbs(U) BY DEF V3Inv
<1>2. Turn(i) /\ UNCHANGED <<batches, acked, phase, ingested, out>> BY DEF RankZero
<1>3. PICK p : p = fin.active[i] OBVIOUS
<1>4. /\ fin.stage = "wave" /\ i \in DOMAIN fin.active /\ fin.jobs[i].st = "todo"
      /\ p \in Parts /\ p.id \in Pids /\ p.n \in Nat /\ p.n > Bound /\ p.n > 1
      /\ ReadAll(db, p.id) \in Seq(U) /\ Len(ReadAll(db, p.id)) = Count(db, p.id)
  BY <1>1, <1>2, <1>3, TurnFinds
<1>5. PICK values, at, pids : values = ReadAll(db, p.id) /\ at = FallbackAssignment(p.n) /\ pids = Kids(p.id, Len(GroupSizes(p.n)))
  OBVIOUS
<1>6. PICK moved : moved = Moved(values, p.n) OBVIOUS
<1>7. \/ fin' = SetSt(fin, i, "failed") /\ db' = db
      \/ Len(values) = p.n /\ Splittable(p.n) /\ SplitJob(i, Split(p, at, Len(pids)))
      \/ /\ Splittable(p.n) /\ Len(values) # p.n /\ fin' = SetSt(fin, i, "failed")
         /\ db' = AppendedGroups(Cleared(db, pids), pids, Grouped(moved, at, Len(pids)))
  BY <1>3, <1>5, <1>6 DEF RankZero, JobFails, SetSt
<1>8. CASE fin' = SetSt(fin, i, "failed") /\ db' = db BY <1>8, <1>1, <1>2, <1>4, JobEnds
<1>9. ASSUME Splittable(p.n)
      PROVE  /\ Len(pids) = Len(GroupSizes(p.n)) /\ Len(pids) \in Nat /\ Distinct(pids) /\ pids \in Seq(Pids) /\ DOMAIN pids = 1 .. Len(pids)
             /\ \A q : (\A g \in Nat : q # Child(p.id, g)) => q \notin Range(pids)
  <2>1. PICK count \in Nat : count = Len(GroupSizes(p.n)) BY <1>9, <1>4, FallbackIs
  <2>2. /\ Distinct(pids) /\ pids \in Seq(Pids) /\ DOMAIN pids = 1 .. count
        /\ \A q : (\A g \in Nat : q # Child(p.id, g)) => q \notin Range(pids)
    BY <2>1, <1>4, <1>5, KidsAre
  <2>3. Len(pids) = count BY <2>1, <2>2
  <2> QED BY <2>1, <2>2, <2>3
<1>10. CASE Len(values) = p.n /\ Splittable(p.n) /\ SplitJob(i, Split(p, at, Len(pids)))
  <2>1. PICK equal : equal = Split(p, FallbackAssignment(p.n), Len(GroupSizes(p.n))) OBVIOUS
  <2>2. equal.db \in Dbs(U) /\ GoodSplit(equal, db, p) BY <1>10, <1>1, <1>4, <1>5, <2>1, FallbackSplits
  <2>3. SplitJob(i, equal) BY <1>5, <1>9, <1>10, <2>1
  <2> QED BY <2>2, <2>3, <1>1, <1>2, <1>3, SplitKeeps
<1>11. CASE /\ Splittable(p.n) /\ Len(values) # p.n /\ fin' = SetSt(fin, i, "failed")
            /\ db' = AppendedGroups(Cleared(db, pids), pids, Grouped(moved, at, Len(pids)))
  <2>1. moved \in Seq(U) BY <1>4, <1>5, <1>6, <1>11, MovedIs
  <2>2. PICK groups, c : groups = Grouped(moved, at, c) /\ c = Len(pids) OBVIOUS
  <2>3. \A g \in DOMAIN pids : groups[g] \in Seq(U)
    <3>1. c \in Nat /\ DOMAIN pids = 1 .. c BY <2>2, <1>9, <1>11
    <3>a. PICK s, n : s = moved /\ n = c /\ s \in Seq(U) /\ n \in Nat BY <2>1, <3>1
    <3>2. \A g \in 1 .. c : Grouped(moved, at, c)[g] \in Seq(U)
      <4>1. \A g \in 1 .. n : Grouped(s, at, n)[g] \in Seq(U) BY ONLY <3>a, GroupedIs
      <4> QED BY <4>1, <3>a
    <3> QED BY <3>1, <3>2, <2>2
  <2>4. pids \in Seq(Pids) /\ Distinct(pids) BY <1>9, <1>11
  <2>5. PICK d : d = Cleared(db, pids) OBVIOUS
  <2>6. d \in Dbs(U) /\ \A q \in Pids : q \notin Range(pids) => Entries(d, q) = Entries(db, q) BY <1>1, <2>4, <2>5, ClearedIs
  <2>7. PICK e : e = AppendedGroups(d, pids, groups) OBVIOUS
  <2>8. e \in Dbs(U) /\ \A q \in Pids : q \notin Range(pids) => Entries(e, q) = Entries(d, q)
    BY ONLY <2>7, <2>3, <2>4, <2>6, AppendedGroupsIs
  <2>9. db' = e BY <1>11, <2>2, <2>5, <2>7
  <2>10. \A q \in Pids : (\A g \in Nat : q # Child(p.id, g)) => Entries(db', q) = Entries(db, q) BY <2>6, <2>8, <2>9, <1>9, <1>11
  <2> QED BY <2>8, <2>9, <2>10, <1>1, <1>2, <1>3, <1>4, <1>11, JobEnds
<1> QED BY <1>7, <1>8, <1>10, <1>11

LEMMA RefineFailsKeeps == ASSUME V3Assumption, V3Inv, NEW i, NEW first \in {0, 1}, RefineFails(i, first) PROVE V3Inv'
<1>1. PICK U : db \in Dbs(U) BY DEF V3Inv
<1>2. Turn(i) /\ UNCHANGED <<batches, acked, phase, ingested, out>> BY DEF RefineFails
<1>3. PICK p : p = fin.active[i] OBVIOUS
<1>4. /\ fin.stage = "wave" /\ i \in DOMAIN fin.active /\ fin.jobs[i].st = "todo"
      /\ p \in Parts /\ p.id \in Pids /\ ReadAll(db, p.id) \in Seq(U) /\ ReadAll(db, p.id) # <<>>
  BY <1>1, <1>2, <1>3, TurnFinds
<1>5. PICK values, kids : values = ReadAll(db, p.id) /\ kids = Kids(p.id, 2) OBVIOUS
<1>6. PICK groups : groups = <<SubSeq(values, 1, first), <<>>>> OBVIOUS
<1>7. /\ fin' = SetSt(fin, i, "cancelled") \/ fin' = SetSt(fin, i, "failed")
      /\ db' = AppendedGroups(Cleared(db, kids), kids, groups)
  BY <1>3, <1>5, <1>6 DEF RefineFails, JobFails, SetSt
<1>8. /\ Distinct(kids) /\ kids \in Seq(Pids) /\ DOMAIN kids = 1 .. 2
      /\ \A q : (\A g \in Nat : q # Child(p.id, g)) => q \notin Range(kids)
  BY <1>4, <1>5, KidsAre
<1>9. \A g \in DOMAIN kids : groups[g] \in Seq(U)
  <2>1. SubSeq(values, 1, first) \in Seq(U)
    <3>1. values \in Seq(U) /\ Len(values) >= 1 BY <1>4, <1>5
    <3>2. CASE first = 0
      <4>1. SubSeq(values, 1, 0) = <<>> BY ONLY <3>1
      <4> QED BY <3>2, <4>1
    <3>3. CASE first = 1
      <4>1. SubSeq(values, 1, 1) \in Seq(U) BY ONLY <3>1
      <4> QED BY <3>3, <4>1
    <3> QED BY <3>2, <3>3
  <2>2. groups[1] \in Seq(U) /\ groups[2] \in Seq(U) BY <1>6, <2>1
  <2>3. \A g \in 1 .. 2 : g = 1 \/ g = 2 OBVIOUS
  <2> QED BY <2>2, <2>3, <1>8
<1>10. PICK d : d = Cleared(db, kids) OBVIOUS
<1>11. d \in Dbs(U) /\ \A q \in Pids : q \notin Range(kids) => Entries(d, q) = Entries(db, q) BY <1>1, <1>8, <1>10, ClearedIs
<1>12. db' \in Dbs(U) /\ \A q \in Pids : q \notin Range(kids) => Entries(db', q) = Entries(d, q)
  <2>1. PICK e : e = AppendedGroups(d, kids, groups) OBVIOUS
  <2>2. e \in Dbs(U) /\ \A q \in Pids : q \notin Range(kids) => Entries(e, q) = Entries(d, q)
    BY ONLY <2>1, <1>8, <1>9, <1>11, AppendedGroupsIs
  <2> QED BY <2>1, <2>2, <1>7, <1>10
<1>13. \A q \in Pids : (\A g \in Nat : q # Child(p.id, g)) => Entries(db', q) = Entries(db, q) BY <1>8, <1>11, <1>12
<1> QED BY <1>1, <1>2, <1>3, <1>4, <1>7, <1>12, <1>13, JobEnds

-----------------------------------------------------------------------------
(* The next wave.                                                             *)

\* No partition is in both.
Foreign(a, b) == \A x \in Range(a), y \in Range(b) : x.id # y.id

LEMMA ApartJoined ==
    ASSUME NEW a \in Seq(Parts), NEW b \in Seq(Parts), Apart(a), Apart(b), Foreign(a, b)
    PROVE  Apart(a \o b)
<1>1. PICK m \in Nat, n \in Nat : m = Len(a) /\ n = Len(b) OBVIOUS
<1>2. /\ DOMAIN a = 1 .. m /\ DOMAIN b = 1 .. n /\ DOMAIN (a \o b) = 1 .. m + n
      /\ \A i \in 1 .. m + n : (a \o b)[i] = IF i <= m THEN a[i] ELSE b[i - m]
  BY <1>1
<1>3. \A i \in 1 .. m : a[i] \in Range(a) BY <1>2 DEF Range
<1>4. \A i \in 1 .. n : b[i] \in Range(b) BY <1>2 DEF Range
<1>5. PICK c : c = a \o b OBVIOUS
<1>6. \A i \in 1 .. m + n : (i <= m => i \in 1 .. m /\ c[i] = a[i]) /\ (~(i <= m) => i - m \in 1 .. n /\ c[i] = b[i - m])
  BY <1>1, <1>2, <1>5
<1>7. ASSUME NEW i \in 1 .. m + n, NEW j \in 1 .. m + n, i # j PROVE c[i].id # c[j].id
  <2>1. CASE i <= m /\ j <= m BY <2>1, <1>2, <1>6, <1>7 DEF Apart
  <2>2. CASE i <= m /\ ~(j <= m) BY <2>2, <1>3, <1>4, <1>6 DEF Foreign
  <2>3. CASE ~(i <= m) /\ j <= m BY <2>3, <1>3, <1>4, <1>6 DEF Foreign
  <2>4. CASE ~(i <= m) /\ ~(j <= m)
    <3>1. i - m # j - m BY <1>7
    <3>2. PICK x \in 1 .. n, y \in 1 .. n : x = i - m /\ y = j - m /\ x # y /\ c[i] = b[x] /\ c[j] = b[y] BY <2>4, <3>1, <1>6
    <3>3. x \in DOMAIN b /\ y \in DOMAIN b /\ x # y BY <3>2, <1>2
    <3>4. b[x].id # b[y].id BY ONLY <3>3, Apart(b) DEF Apart
    <3> QED BY <3>2, <3>4
  <2> QED BY <2>1, <2>2, <2>3, <2>4
<1> QED BY <1>2, <1>5, <1>7 DEF Apart

\* The recursion of FlattenSeq.
Flattens(f, seqs, n) == f = [i \in 1 .. n |-> IF i = 1 THEN seqs[i] ELSE f[i - 1] \o seqs[i]]

LEMMA FlattensExists ==
    ASSUME NEW n \in Nat, n > 0, NEW seqs, NEW U, \A i \in 1 .. n : seqs[i] \in Seq(U)
    PROVE  \E f : Flattens(f, seqs, n)
<1> DEFINE V == Seq(U)
           G == [i \in 1 .. n |-> [x \in V |-> x \o seqs[i]]]
<1>1. G \in [1 .. n -> [V -> V]]
  <2>1. ASSUME NEW i \in 1 .. n, NEW x \in V PROVE x \o seqs[i] \in V
    <3>1. PICK s : s = seqs[i] /\ s \in Seq(U) OBVIOUS
    <3>2. x \o s \in Seq(U) BY <3>1
    <3> QED BY <3>1, <3>2
  <2> HIDE DEF V
  <2> QED BY <2>1
<1>2. PICK r : Runs(r, n, <<>>, G, V)
  <2>1. <<>> \in V OBVIOUS
  <2> HIDE DEF G, V
  <2> QED BY <1>1, <2>1, RunExists
<1>3. r \in [0 .. n -> V] /\ r[0] = <<>> /\ \A i \in 1 .. n : r[i] = G[i][r[i - 1]]
  <2> HIDE DEF G, V
  <2> QED BY <1>2 DEF Runs
<1> DEFINE f == [i \in 1 .. n |-> r[i]]
<1>4. ASSUME NEW i \in 1 .. n PROVE f[i] = IF i = 1 THEN seqs[i] ELSE f[i - 1] \o seqs[i]
  <2>1. i - 1 \in 0 .. n BY <1>4
  <2>2. r[i - 1] \in V BY <2>1, <1>3
  <2>3. r[i] = r[i - 1] \o seqs[i]
    <3> HIDE DEF V
    <3> QED BY <1>3, <1>4, <2>2
  <2>4. CASE i = 1
    <3>1. r[i - 1] = <<>> BY <2>4, <1>3
    <3>2. PICK s : s = seqs[i] /\ s \in Seq(U) OBVIOUS
    <3>3. <<>> \o s = s BY <3>2
    <3> QED BY <2>3, <2>4, <3>1, <3>2, <3>3
  <2>5. CASE i # 1
    <3>1. i - 1 \in 1 .. n BY <2>5
    <3> QED BY <2>3, <2>5, <3>1
  <2> QED BY <2>4, <2>5
<1>5. f = [i \in 1 .. n |-> f[i]] OBVIOUS
<1> HIDE DEF f
<1>6. Flattens(f, seqs, n) BY <1>4, <1>5 DEF Flattens
<1> QED BY <1>6

FlatUpto(s, seqs, i) ==
    s \in Seq(Parts) /\ Apart(s) /\ \A x : x \in Range(s) <=> \E k \in 1 .. i : x \in Range(seqs[k])

LEMMA FlattenIs ==
    ASSUME NEW n \in Nat, n > 0, NEW seqs, Len(seqs) = n,
           \A i \in 1 .. n : seqs[i] \in Seq(Parts) /\ Apart(seqs[i]),
           \A i, j \in 1 .. n : i # j => Foreign(seqs[i], seqs[j])
    PROVE  FlatUpto(FlattenSeq(seqs), seqs, n)
<1> DEFINE f == CHOOSE g : Flattens(g, seqs, n)
<1>1. Flattens(f, seqs, n) BY FlattensExists
<1>2. FlattenSeq(seqs) = f[n] BY DEF FlattenSeq, Flattens
<1> HIDE DEF f
<1>3. f[1] = seqs[1] /\ \A i \in 1 .. n - 1 : f[i + 1] = f[i] \o seqs[i + 1]
  <2>1. \A i \in 1 .. n : f[i] = IF i = 1 THEN seqs[i] ELSE f[i - 1] \o seqs[i] BY <1>1 DEF Flattens
  <2>2. 1 \in 1 .. n OBVIOUS
  <2>3. ASSUME NEW i \in 1 .. n - 1 PROVE f[i + 1] = f[i] \o seqs[i + 1]
    <3>1. i + 1 \in 1 .. n /\ i + 1 # 1 /\ (i + 1) - 1 = i OBVIOUS
    <3>2. f[i + 1] = f[(i + 1) - 1] \o seqs[i + 1] BY <2>1, <3>1
    <3> QED BY <3>1, <3>2
  <2> QED BY <2>1, <2>2, <2>3
<1> DEFINE S == {m \in Nat : m + 1 <= n => FlatUpto(f[m + 1], seqs, m + 1)}
<1>4. 0 \in S
  <2>1. 1 \in 1 .. n OBVIOUS
  <2>2. \A k \in 1 .. 1 : k = 1 OBVIOUS
  <2>3. 1 \in 1 .. 1 OBVIOUS
  <2>4. FlatUpto(f[1], seqs, 1) BY <1>3, <2>1, <2>2, <2>3 DEF FlatUpto
  <2>5. 0 + 1 = 1 OBVIOUS
  <2> QED BY <2>4, <2>5
<1>5. ASSUME NEW m \in S PROVE m + 1 \in S
  <2> SUFFICES ASSUME (m + 1) + 1 <= n PROVE FlatUpto(f[(m + 1) + 1], seqs, (m + 1) + 1) OBVIOUS
  <2>1. PICK i \in Nat : i = m + 1 OBVIOUS
  <2>2. i \in 1 .. n - 1 /\ i + 1 \in 1 .. n /\ i <= n BY <2>1
  <2>3. FlatUpto(f[i], seqs, i) BY <2>1, <2>2
  <2>4. PICK a, b : a = f[i] /\ b = seqs[i + 1] OBVIOUS
  <2>5. /\ a \in Seq(Parts) /\ b \in Seq(Parts) /\ Apart(a) /\ Apart(b)
        /\ \A x : x \in Range(a) <=> \E k \in 1 .. i : x \in Range(seqs[k])
    BY <2>2, <2>3, <2>4 DEF FlatUpto
  <2>6. Foreign(a, b)
    <3>1. ASSUME NEW x \in Range(a), NEW y \in Range(b) PROVE x.id # y.id
      <4>1. PICK k \in 1 .. i : x \in Range(seqs[k]) BY <2>5
      <4>2. k \in 1 .. n /\ k # i + 1 BY <2>2
      <4>3. Foreign(seqs[k], b) BY <4>2, <2>2, <2>4
      <4> QED BY <4>1, <4>3 DEF Foreign
    <3> QED BY <3>1 DEF Foreign
  <2>7. a \o b \in Seq(Parts) /\ Range(a \o b) = Range(a) \cup Range(b) BY <2>5, RangeJoined
  <2>8. Apart(a \o b) BY <2>5, <2>6, ApartJoined
  <2>9. f[i + 1] = a \o b BY <1>3, <2>2, <2>4
  <2>10. \A k : k \in 1 .. i + 1 <=> k \in 1 .. i \/ k = i + 1 BY <2>1
  <2>11. \A x : x \in Range(a \o b) <=> \E k \in 1 .. i + 1 : x \in Range(seqs[k]) BY <2>4, <2>5, <2>7, <2>10
  <2>12. FlatUpto(f[i + 1], seqs, i + 1) BY <2>7, <2>8, <2>9, <2>11 DEF FlatUpto
  <2> QED BY <2>1, <2>12
<1>6. S = Nat
  <2> HIDE DEF S
  <2>1. S \in SUBSET Nat BY DEF S
  <2> QED BY <2>1, <1>4, <1>5, AllNumbers
<1>7. n - 1 \in Nat /\ (n - 1) + 1 = n OBVIOUS
<1>8. FlatUpto(f[n], seqs, n)
  <2>1. n - 1 \in S BY <1>6, <1>7
  <2>2. (n - 1) + 1 <= n => FlatUpto(f[(n - 1) + 1], seqs, (n - 1) + 1) BY <2>1
  <2> QED BY <2>2, <1>7
<1> QED BY <1>2, <1>8

\* A child stands for an entry of the layer.
KidOf(layer, v) == IF layer = 0 THEN Leaf(v) ELSE v

LEMMA InHolds == ASSUME NEW d, NEW layer, NEW p, NEW x
                 PROVE  x \in Holds(d, layer, p) <=> \E v \in Range(Entries(d, p.id)) : x = KidOf(layer, v)
BY DEF Holds, Children, KidOf

LEMMA InBlocks == ASSUME NEW S, NEW x PROVE x \in Blocks(S) <=> \E b \in S : x \in Below(b)
BY DEF Blocks

LEMMA InLeaves == ASSUME NEW S, NEW x PROVE x \in Leaves(S) <=> \E b \in S : x \in LeavesBelow(b)
BY DEF Leaves

LEMMA InStored == ASSUME NEW S, NEW layer, NEW x PROVE x \in StoredOf(layer, S) <=> layer # 0 /\ \E b \in S : x \in Below(b)
BY InBlocks DEF StoredOf

LEMMA InInput == ASSUME NEW w, NEW d, NEW x
                 PROVE  x \in InputOf(w, d) <=> \E i \in DOMAIN w.active : x \in Holds(d, w.layer, w.active[i])
BY DEF InputOf

LEMMA SplitHolds ==
    ASSUME NEW job, NEW d, NEW p, JobSplit(job, d, p), NEW layer, NEW x
    PROVE  x \in Holds(d, layer, p) <=> \E k \in Range(job.kids) : x \in Holds(d, layer, k)
<1>1. UNION {Range(Entries(d, k.id)) : k \in Range(job.kids)} = Range(Entries(d, p.id)) BY DEF JobSplit
<1>2. \A v : v \in Range(Entries(d, p.id)) <=> \E k \in Range(job.kids) : v \in Range(Entries(d, k.id)) BY <1>1
<1>3. x \in Holds(d, layer, p) <=> \E v \in Range(Entries(d, p.id)) : x = KidOf(layer, v) BY InHolds
<1>4. \A k : x \in Holds(d, layer, k) <=> \E v \in Range(Entries(d, k.id)) : x = KidOf(layer, v) BY InHolds
<1> QED BY <1>2, <1>3, <1>4

\* The jobs of a wave that ends well: the terminal ones are materialised and the
\* others are split.
AllDone(w, d) ==
    \A i \in DOMAIN w.active :
        /\ Terminal(w.active[i]) => JobPuts(w.jobs[i], d, w.layer, w.active[i]) /\ w.jobs[i].todo = <<>>
        /\ ~Terminal(w.active[i]) => JobSplit(w.jobs[i], d, w.active[i])

Finished(w) == {i \in DOMAIN w.active : Terminal(w.active[i])}
Made(w) == {w.jobs[i].child : i \in Finished(w)}
KidsOf(w) == [i \in DOMAIN w.jobs |-> w.jobs[i].kids]

LEMMA DoneKids ==
    ASSUME NEW w, NEW d, NEW n \in Nat, n > 0, WaveShape(w), DOMAIN w.active = 1 .. n, AllDone(w, d)
    PROVE  FlatUpto(FlattenSeq(KidsOf(w)), KidsOf(w), n)
<1>1. PICK s : s = KidsOf(w) OBVIOUS
<1>2. PICK a : a = w.active OBVIOUS
<1>3. DOMAIN w.jobs = 1 .. n BY DEF WaveShape
<1>4. DOMAIN s = 1 .. n /\ \A i \in 1 .. n : s[i] = w.jobs[i].kids BY <1>1, <1>3 DEF KidsOf
<1>5. Len(s) = n
  <2>1. s = [i \in 1 .. n |-> w.jobs[i].kids] BY <1>1, <1>3 DEF KidsOf
  <2> QED BY <2>1
<1>6. a \in Seq(Parts) /\ DOMAIN a = 1 .. n /\ (\A i \in 1 .. n : a[i] \in Parts) BY <1>2 DEF WaveShape
<1>7. \A i, j \in 1 .. n : Len(a[i].id) = Len(a[j].id) /\ (i # j => a[i].id # a[j].id) BY <1>2, <1>6 DEF WaveShape, Apart
<1>8. ASSUME NEW i \in 1 .. n PROVE s[i] \in Seq(Parts) /\ Apart(s[i]) /\ \A k \in Range(s[i]) : \E g \in Nat : k.id = Child(a[i].id, g)
  <2>1. CASE Terminal(a[i])
    <3>1. s[i] = <<>> BY <2>1, <1>2, <1>4 DEF AllDone, JobPuts
    <3>2. DOMAIN s[i] = {} BY <3>1
    <3>3. Range(s[i]) = {} BY <3>2 DEF Range
    <3> QED BY <3>1, <3>2, <3>3 DEF Apart
  <2>2. CASE ~Terminal(a[i])
    <3>1. JobSplit(w.jobs[i], d, a[i]) BY <2>2, <1>2 DEF AllDone
    <3> QED BY <3>1, <1>4 DEF JobSplit
  <2> QED BY <2>1, <2>2
<1>9. ASSUME NEW i \in 1 .. n, NEW j \in 1 .. n, i # j PROVE Foreign(s[i], s[j])
  <2>1. ASSUME NEW x \in Range(s[i]), NEW y \in Range(s[j]) PROVE x.id # y.id
    <3>1. PICK g \in Nat : x.id = Child(a[i].id, g) BY <1>8, <2>1
    <3>2. PICK h \in Nat : y.id = Child(a[j].id, h) BY <1>8, <2>1
    <3> QED BY <3>1, <3>2, <1>6, <1>7, <1>9, KidsApart
  <2> QED BY <2>1 DEF Foreign
<1>10. FlatUpto(FlattenSeq(s), s, n) BY <1>5, <1>8, <1>9, FlattenIs
<1> QED BY <1>1, <1>10

LEMMA FreshJob == ASSUME NEW d, NEW layer, NEW p, NEW stored PROVE JobOk(Job, d, layer, p, stored)
<1>1. PICK b : b = Job OBVIOUS
<1>2. /\ b = [st |-> b.st, todo |-> b.todo, ids |-> b.ids, child |-> b.child, kids |-> b.kids]
      /\ b.st = "todo" /\ b.ids = {} /\ b.kids = <<>>
  BY <1>1 DEF Job
<1>3. JobOk(b, d, layer, p, stored) BY <1>2 DEF JobOk, JobTodo
<1> QED BY <1>1, <1>3

LEMMA WaveFields ==
    ASSUME NEW layer, NEW active, NEW terminals, NEW ids, NEW input, NEW w, w = Wave(layer, active, terminals, ids, input)
    PROVE  /\ w = [stage |-> "wave", layer |-> w.layer, active |-> w.active, jobs |-> w.jobs,
                   terminals |-> w.terminals, ids |-> w.ids, input |-> w.input]
           /\ w.stage = "wave" /\ w.layer = layer /\ w.active = active /\ w.terminals = terminals /\ w.ids = ids
           /\ w.jobs = [i \in DOMAIN w.active |-> w.jobs[i]] /\ \A i \in DOMAIN active : w.jobs[i] = Job
<1>1. PICK j : j = [i \in DOMAIN active |-> Job] OBVIOUS
<1>2. w = [stage |-> "wave", layer |-> layer, active |-> active, jobs |-> j, terminals |-> terminals, ids |-> ids, input |-> input]
  BY <1>1 DEF Wave
<1>3. /\ w.stage = "wave" /\ w.layer = layer /\ w.active = active /\ w.jobs = j /\ w.terminals = terminals /\ w.ids = ids /\ w.input = input
  BY ONLY <1>2
<1>4. j = [i \in DOMAIN active |-> j[i]] BY <1>1
<1>5. \A i \in DOMAIN active : j[i] = Job BY <1>1
<1> QED BY <1>2, <1>3, <1>4, <1>5

LEMMA MadeFinite ==
    ASSUME NEW w, NEW d, NEW n \in Nat, DOMAIN w.active = 1 .. n, AllDone(w, d)
    PROVE  IsFiniteSet(Made(w)) /\ \A b \in Made(w) : Tree(b)
<1>1. IsFiniteSet(1 .. n)
  <2>1. 1 \in Int /\ n \in Int OBVIOUS
  <2> QED BY <2>1, FS_Interval
<1>2. PICK T : T = Finished(w) /\ T \subseteq 1 .. n BY DEF Finished
<1>3. IsFiniteSet(T) BY <1>1, <1>2, FS_Subset
<1> DEFINE f == [i \in T |-> w.jobs[i].child]
<1>4. Made(w) = {f[i] : i \in T} BY <1>2 DEF Made
<1>5. f \in Surjection(T, Made(w)) BY <1>4 DEF Surjection
<1>6. IsFiniteSet(Made(w))
  <2> HIDE DEF f
  <2> QED BY <1>3, <1>5, FS_Surjection
<1>7. \A b \in Made(w) : Tree(b) BY <1>2 DEF Made, Finished, AllDone, JobPuts
<1> QED BY <1>6, <1>7

\* z takes over from w.
LEMMA NextHolds ==
    ASSUME NEW U, NEW d \in Dbs(U), NEW w, NEW items, NEW stored, WaveHolds(w, d, items, stored), AllDone(w, d),
           \A i \in DOMAIN w.active : w.jobs[i].ids \subseteq stored,
           NEW z, z.layer = w.layer, z.active \in Seq(Parts),
           \A k : k \in Range(z.active) <=> \E i \in DOMAIN w.active : k \in Range(w.jobs[i].kids),
           z.terminals = w.terminals \cup Made(w),
           \A x : x \in z.ids <=> x \in w.ids \/ \E i \in DOMAIN w.active : x \in w.jobs[i].ids
    PROVE  WaveHolds(z, d, items, stored)
<1>1. PICK a, D, l : a = w.active /\ D = DOMAIN w.active /\ l = w.layer OBVIOUS
<1> DEFINE H(i) == Holds(d, l, a[i])
           kid(i) == Range(w.jobs[i].kids)
<1>2. \A i \in D : Terminal(a[i]) => JobPuts(w.jobs[i], d, l, a[i]) /\ w.jobs[i].todo = <<>> /\ kid(i) = {}
  <2>1. \A s : s = <<>> => Range(s) = {}
    <3> SUFFICES ASSUME NEW s, s = <<>> PROVE Range(s) = {} OBVIOUS
    <3>1. DOMAIN s = {} OBVIOUS
    <3> QED BY <3>1 DEF Range
  <2> QED BY <2>1, <1>1 DEF AllDone, JobPuts
<1>3. \A i \in D : ~Terminal(a[i]) => JobSplit(w.jobs[i], d, a[i]) BY <1>1 DEF AllDone
<1>4. \A x : x \in InputOf(w, d) <=> \E i \in D : x \in H(i) BY <1>1, InInput
<1>5. \A x : x \in InputOf(z, d) <=> \E k \in Range(z.active) : x \in Holds(d, l, k)
  <2> TAKE x
  <2>1. x \in InputOf(z, d) <=> \E i \in DOMAIN z.active : x \in Holds(d, l, z.active[i]) BY <1>1, InInput
  <2>2. \A k : k \in Range(z.active) <=> \E i \in DOMAIN z.active : k = z.active[i] BY DEF Range
  <2> QED BY <2>1, <2>2
<1>6. \A x : x \in InputOf(z, d) <=> \E i \in D : ~Terminal(a[i]) /\ x \in H(i)
  <2> TAKE x
  <2>1. ASSUME x \in InputOf(z, d) PROVE \E i \in D : ~Terminal(a[i]) /\ x \in H(i)
    <3>1. PICK k \in Range(z.active) : x \in Holds(d, l, k) BY <2>1, <1>5
    <3>2. PICK i \in D : k \in kid(i) BY <3>1, <1>1
    <3>3. ~Terminal(a[i]) BY <3>2, <1>2
    <3>4. JobSplit(w.jobs[i], d, a[i]) BY <3>3, <1>3
    <3>5. x \in H(i) BY <3>1, <3>2, <3>4, SplitHolds
    <3> QED BY <3>3, <3>5
  <2>2. ASSUME NEW i \in D, ~Terminal(a[i]), x \in H(i) PROVE x \in InputOf(z, d)
    <3>1. JobSplit(w.jobs[i], d, a[i]) BY <2>2, <1>3
    <3>2. PICK k \in kid(i) : x \in Holds(d, l, k) BY <3>1, <2>2, SplitHolds
    <3>3. k \in Range(z.active) BY <3>2, <1>1
    <3> QED BY <3>2, <3>3, <1>5
  <2> QED BY <2>1, <2>2
<1>7. \A i \in DOMAIN z.active : Entries(d, z.active[i].id) # <<>>
  <2> TAKE i \in DOMAIN z.active
  <2>1. PICK k : k = z.active[i] /\ k \in Range(z.active) BY DEF Range
  <2>2. k \in Parts BY <2>1
  <2>3. PICK j \in D : k \in kid(j) BY <2>1, <1>1
  <2>4. ~Terminal(a[j]) BY <2>3, <1>2
  <2>5. Count(d, k.id) = k.n BY <2>3, <2>4, <1>3 DEF JobSplit
  <2>6. k.id \in Pids /\ k.n \in Nat \ {0} BY <2>2 DEF Parts
  <2>7. Len(Entries(d, k.id)) # 0 BY <2>5, <2>6, CountIs
  <2>8. Len(<<>>) = 0 OBVIOUS
  <2> QED BY <2>1, <2>7, <2>8
<1>8. \A b \in InputOf(z, d) : Tree(b) BY <1>4, <1>6 DEF WaveHolds
<1>9. \A i \in D : Terminal(a[i]) => w.jobs[i].child \in Made(w) BY <1>1 DEF Made, Finished
<1>10. items \subseteq Leaves(z.terminals) \cup Leaves(InputOf(z, d))
  <2> SUFFICES ASSUME NEW v \in items PROVE v \in Leaves(z.terminals) \/ v \in Leaves(InputOf(z, d)) OBVIOUS
  <2>1. v \in Leaves(w.terminals) \/ v \in Leaves(InputOf(w, d)) BY DEF WaveHolds
  <2>2. CASE v \in Leaves(w.terminals)
    <3>1. PICK b \in w.terminals : v \in LeavesBelow(b) BY <2>2, InLeaves
    <3> QED BY <3>1, InLeaves
  <2>3. CASE v \in Leaves(InputOf(w, d))
    <3>1. PICK b \in InputOf(w, d) : v \in LeavesBelow(b) BY <2>3, InLeaves
    <3>2. PICK i \in D : b \in H(i) BY <3>1, <1>4
    <3>3. CASE Terminal(a[i])
      <4>1. LeavesBelow(w.jobs[i].child) = Leaves(H(i)) BY <3>3, <1>2 DEF JobPuts
      <4>2. v \in LeavesBelow(w.jobs[i].child) BY <3>1, <3>2, <4>1, InLeaves
      <4>3. w.jobs[i].child \in z.terminals BY <3>3, <1>9
      <4> QED BY <4>2, <4>3, InLeaves
    <3>4. CASE ~Terminal(a[i])
      <4>1. b \in InputOf(z, d) BY <3>2, <3>4, <1>6
      <4> QED BY <3>1, <4>1, InLeaves
    <3> QED BY <3>3, <3>4
  <2> QED BY <2>1, <2>2, <2>3
<1>11. \A i \in D : Terminal(a[i]) => \A x : x \in Below(w.jobs[i].child) <=> x \in w.jobs[i].ids \/ x \in StoredOf(l, H(i))
  <2> TAKE i \in D
  <2> SUFFICES ASSUME Terminal(a[i]), NEW x PROVE x \in Below(w.jobs[i].child) <=> x \in w.jobs[i].ids \/ x \in StoredOf(l, H(i)) OBVIOUS
  <2>1. PICK t : t = w.jobs[i].todo /\ t = <<>> BY <1>2
  <2>2. Below(w.jobs[i].child) = w.jobs[i].ids \cup Range(t) \cup StoredOf(l, H(i)) BY <2>1, <1>2 DEF JobPuts
  <2>3. Range(t) = {}
    <3>1. DOMAIN t = {} BY <2>1
    <3> QED BY <3>1 DEF Range
  <2> QED BY <2>2, <2>3
<1>12. \A i \in D : ~Terminal(a[i]) => w.jobs[i].ids = {} BY <1>3 DEF JobSplit
<1>13. z.ids = Blocks(z.terminals) \cup StoredOf(z.layer, InputOf(z, d))
  <2>1. ASSUME NEW x \in z.ids PROVE x \in Blocks(z.terminals) \/ x \in StoredOf(l, InputOf(z, d))
    <3>1. CASE x \in w.ids
      <4>1. x \in Blocks(w.terminals) \/ x \in StoredOf(l, InputOf(w, d)) BY <3>1, <1>1 DEF WaveHolds
      <4>2. CASE x \in Blocks(w.terminals)
        <5>1. PICK b \in w.terminals : x \in Below(b) BY <4>2, InBlocks
        <5> QED BY <5>1, InBlocks
      <4>3. CASE x \in StoredOf(l, InputOf(w, d))
        <5>1. l # 0 /\ \E b \in InputOf(w, d) : x \in Below(b) BY <4>3, InStored
        <5>2. PICK b \in InputOf(w, d) : x \in Below(b) BY <5>1
        <5>3. PICK i \in D : b \in H(i) BY <5>2, <1>4
        <5>4. CASE Terminal(a[i])
          <6>1. x \in StoredOf(l, H(i)) BY <5>1, <5>2, <5>3, InStored
          <6>2. x \in Below(w.jobs[i].child) BY <5>4, <6>1, <1>11
          <6>3. w.jobs[i].child \in z.terminals BY <5>4, <1>9
          <6> QED BY <6>2, <6>3, InBlocks
        <5>5. CASE ~Terminal(a[i])
          <6>1. b \in InputOf(z, d) BY <5>3, <5>5, <1>6
          <6> QED BY <5>1, <5>2, <6>1, InStored
        <5> QED BY <5>4, <5>5
      <4> QED BY <4>1, <4>2, <4>3
    <3>2. CASE x \notin w.ids
      <4>1. PICK i \in D : x \in w.jobs[i].ids BY <2>1, <3>2, <1>1
      <4>2. Terminal(a[i]) BY <4>1, <1>12
      <4>3. x \in Below(w.jobs[i].child) BY <4>1, <4>2, <1>11
      <4>4. w.jobs[i].child \in z.terminals BY <4>2, <1>9
      <4> QED BY <4>3, <4>4, InBlocks
    <3> QED BY <3>1, <3>2
  <2>2. ASSUME NEW x, x \in Blocks(z.terminals) PROVE x \in z.ids
    <3>1. PICK b \in z.terminals : x \in Below(b) BY <2>2, InBlocks
    <3>2. CASE b \in w.terminals
      <4>1. x \in Blocks(w.terminals) BY <3>1, <3>2, InBlocks
      <4> QED BY <4>1 DEF WaveHolds
    <3>3. CASE b \in Made(w)
      <4>1. PICK i \in D : Terminal(a[i]) /\ b = w.jobs[i].child BY <3>3, <1>1 DEF Made, Finished
      <4>2. x \in w.jobs[i].ids \/ x \in StoredOf(l, H(i)) BY <3>1, <4>1, <1>11
      <4>3. CASE x \in w.jobs[i].ids BY <4>3, <1>1
      <4>4. CASE x \in StoredOf(l, H(i))
        <5>1. l # 0 /\ \E c \in H(i) : x \in Below(c) BY <4>4, InStored
        <5>2. PICK c \in H(i) : x \in Below(c) BY <5>1
        <5>3. c \in InputOf(w, d) BY <5>2, <1>4
        <5>4. x \in StoredOf(l, InputOf(w, d)) BY <5>1, <5>2, <5>3, InStored
        <5> QED BY <5>4, <1>1 DEF WaveHolds
      <4> QED BY <4>2, <4>3, <4>4
    <3> QED BY <3>1, <3>2, <3>3
  <2>3. ASSUME NEW x, x \in StoredOf(l, InputOf(z, d)) PROVE x \in z.ids
    <3>1. l # 0 /\ \E c \in InputOf(z, d) : x \in Below(c) BY <2>3, InStored
    <3>2. PICK c \in InputOf(z, d) : x \in Below(c) BY <3>1
    <3>3. c \in InputOf(w, d) BY <3>2, <1>4, <1>6
    <3>4. x \in StoredOf(l, InputOf(w, d)) BY <3>1, <3>2, <3>3, InStored
    <3> QED BY <3>4, <1>1 DEF WaveHolds
  <2> QED BY <2>1, <2>2, <2>3, <1>1
<1>14. z.ids \subseteq stored BY <1>1 DEF WaveHolds
<1> QED BY <1>7, <1>8, <1>10, <1>13, <1>14 DEF WaveHolds

LEMMA NextWaveIs ==
    ASSUME NEW U, NEW d \in Dbs(U), NEW w, NEW items, NEW stored, WaveOk(w, d, items, stored), w.active # <<>>, AllDone(w, d),
           NEW input, NEW ids, \A x : x \in ids <=> x \in w.ids \/ \E i \in DOMAIN w.active : x \in w.jobs[i].ids,
           NEW z, z = Wave(w.layer, FlattenSeq(KidsOf(w)), w.terminals \cup Made(w), ids, input)
    PROVE  WaveOk(z, d, items, stored)
<1>1. /\ WaveShape(w) /\ WaveHolds(w, d, items, stored)
      /\ \A i \in DOMAIN w.active : JobOk(w.jobs[i], d, w.layer, w.active[i], stored)
  BY DEF WaveOk
<1>2. PICK a : a = w.active /\ a \in Seq(Parts) /\ a # <<>> BY <1>1 DEF WaveShape
<1>3. PICK n \in Nat : n = Len(a) /\ n > 0 /\ DOMAIN w.active = 1 .. n BY <1>2
<1>4. PICK flat, s : flat = FlattenSeq(KidsOf(w)) /\ s = KidsOf(w) OBVIOUS
<1>5. FlatUpto(flat, s, n) BY <1>1, <1>3, <1>4, DoneKids
<1>6. \A i \in 1 .. n : s[i] = w.jobs[i].kids
  <2>1. DOMAIN w.jobs = 1 .. n BY <1>1, <1>3 DEF WaveShape
  <2> QED BY <2>1, <1>4 DEF KidsOf
<1>7. flat \in Seq(Parts) /\ Apart(flat) /\ \A k : k \in Range(flat) <=> \E i \in DOMAIN w.active : k \in Range(w.jobs[i].kids)
  BY <1>3, <1>5, <1>6 DEF FlatUpto
<1>8. /\ z = [stage |-> "wave", layer |-> z.layer, active |-> z.active, jobs |-> z.jobs,
              terminals |-> z.terminals, ids |-> z.ids, input |-> z.input]
      /\ z.layer = w.layer /\ z.active = flat /\ z.terminals = w.terminals \cup Made(w) /\ z.ids = ids
      /\ z.jobs = [i \in DOMAIN z.active |-> z.jobs[i]] /\ \A i \in DOMAIN z.active : z.jobs[i] = Job
  <2>1. PICK l, t : l = w.layer /\ t = w.terminals \cup Made(w) OBVIOUS
  <2>2. z = Wave(l, flat, t, ids, input) BY <2>1, <1>4
  <2>3. /\ z = [stage |-> "wave", layer |-> z.layer, active |-> z.active, jobs |-> z.jobs,
              terminals |-> z.terminals, ids |-> z.ids, input |-> z.input]
        /\ z.layer = l /\ z.active = flat /\ z.terminals = t /\ z.ids = ids
        /\ z.jobs = [i \in DOMAIN z.active |-> z.jobs[i]] /\ \A i \in DOMAIN flat : z.jobs[i] = Job
    BY ONLY <2>2, WaveFields
  <2> QED BY <2>1, <2>3
<1>9. WaveHolds(z, d, items, stored)
  <2>1. \A i \in DOMAIN w.active : w.jobs[i].ids \subseteq stored BY <1>1 DEF JobOk
  <2> QED BY <2>1, <1>1, <1>7, <1>8, NextHolds
<1>10. WaveShape(z)
  <2>1. IsFiniteSet(z.terminals) /\ \A b \in z.terminals : Tree(b)
    <3>1. IsFiniteSet(Made(w)) /\ \A b \in Made(w) : Tree(b) BY <1>3, MadeFinite
    <3>2. IsFiniteSet(w.terminals) /\ \A b \in w.terminals : Tree(b) BY <1>1 DEF WaveShape
    <3>3. IsFiniteSet(w.terminals \cup Made(w)) BY <3>1, <3>2, FS_Union
    <3> QED BY <3>1, <3>2, <3>3, <1>8
  <2>2. PICK l \in Nat : \A i \in 1 .. n : a[i] \in Parts /\ Len(a[i].id) = l
    <3>1. 1 \in 1 .. n BY <1>3
    <3>2. \A i \in 1 .. n : a[i] \in Parts /\ Len(a[i].id) = Len(a[1].id) BY <1>1, <1>2, <1>3, <3>1 DEF WaveShape
    <3>3. a[1].id \in Seq(Nat \ {0, 1}) BY <3>1, <3>2 DEF Parts, Pids
    <3>4. Len(a[1].id) \in Nat BY <3>3
    <3> QED BY <3>2, <3>4
  <2>3. ASSUME NEW j \in DOMAIN flat PROVE Len(flat[j].id) = l + 1
    <3>1. PICK k : k = flat[j] /\ k \in Range(flat) BY DEF Range
    <3>2. PICK i \in 1 .. n : k \in Range(w.jobs[i].kids) BY <3>1, <1>3, <1>7
    <3>3. ~Terminal(a[i])
      <4> SUFFICES ASSUME Terminal(a[i]) PROVE FALSE OBVIOUS
      <4>1. PICK e : e = w.jobs[i].kids /\ e = <<>> BY <1>2, <1>3 DEF AllDone, JobPuts
      <4>2. DOMAIN e = {} BY <4>1
      <4> QED BY <4>1, <4>2, <3>2 DEF Range
    <3>4. JobSplit(w.jobs[i], d, a[i]) BY <3>3, <1>2, <1>3 DEF AllDone
    <3>5. PICK g \in Nat : k.id = Child(a[i].id, g) BY <3>2, <3>4 DEF JobSplit
    <3>6. a[i].id \in Pids /\ Len(a[i].id) = l BY <2>2 DEF Parts
    <3>7. PICK x \in Pids : x = a[i].id BY <3>6
    <3>8. Len(Child(x, g)) = Len(x) + 1 BY ChildIs
    <3> QED BY <3>1, <3>5, <3>6, <3>7, <3>8
  <2>4. \A i, j \in DOMAIN flat : Len(flat[i].id) = Len(flat[j].id) /\ Len(flat[i].id) > 0 BY <2>3
  <2>5. z.layer \in Nat BY <1>1, <1>8 DEF WaveShape
  <2> QED BY <2>1, <2>4, <2>5, <1>7, <1>8 DEF WaveShape
<1>11. \A i \in DOMAIN z.active : JobOk(z.jobs[i], d, z.layer, z.active[i], stored)
  <2>1. \A i \in DOMAIN z.active : z.jobs[i] = Job BY <1>8
  <2> QED BY ONLY <2>1, FreshJob
<1> QED BY <1>9, <1>10, <1>11 DEF WaveOk

-----------------------------------------------------------------------------
(* Waves and layers end.                                                      *)
LEMMA BarrierDone ==
    ASSUME V3Inv, fin.stage = "wave", FirstError = "none" PROVE AllDone(fin, db)
<1>1. /\ fin.active \in Seq(Parts)
      /\ \A i \in DOMAIN fin.active : JobOk(fin.jobs[i], db, fin.layer, fin.active[i], out)
  BY InWaveIs DEF WaveShape
<1>2. PICK bad : bad = {i \in DOMAIN fin.active : fin.jobs[i].st # "done"} OBVIOUS
<1>3. bad = {}
  <2> SUFFICES ASSUME bad # {} PROVE FALSE OBVIOUS
  <2>1. bad \in SUBSET Nat BY <1>1, <1>2
  <2>2. PICK m \in bad : \A k \in bad : m <= k BY <2>1, LeastNumber
  <2>3. PICK c : c = CHOOSE i \in bad : \A j \in bad : i <= j OBVIOUS
  <2>4. c \in bad BY <2>2, <2>3
  <2>5. fin.jobs[c].st = "none" BY <1>2, <2>3 DEF FirstError
  <2> QED BY <2>4, <2>5, <1>1, <1>2 DEF JobOk
<1>4. ASSUME NEW i \in DOMAIN fin.active
      PROVE  /\ Terminal(fin.active[i]) => JobPuts(fin.jobs[i], db, fin.layer, fin.active[i]) /\ fin.jobs[i].todo = <<>>
             /\ ~Terminal(fin.active[i]) => JobSplit(fin.jobs[i], db, fin.active[i])
  <2>1. fin.jobs[i].st = "done" BY <1>2, <1>3
  <2>2. (JobPuts(fin.jobs[i], db, fin.layer, fin.active[i]) /\ fin.jobs[i].todo = <<>>) \/ JobSplit(fin.jobs[i], db, fin.active[i])
    BY <2>1, <1>1 DEF JobOk
  <2> QED BY <2>2 DEF JobPuts, JobSplit
<1> QED BY <1>4 DEF AllDone

LEMMA WaveEndsKeeps == ASSUME V3Inv, WaveEnds PROVE V3Inv'
<1>1. fin.stage = "wave" /\ fin.active # <<>> /\ FirstError = "none" BY DEF WaveEnds, Barrier
<1>2. UNCHANGED <<batches, acked, phase, ingested, db, out>> BY DEF WaveEnds
<1>3. WaveOk(fin, db, acked, out) /\ WaveShape(fin) /\ phase = "Ingesting" BY <1>1, InWaveIs
<1>4. PICK U : db \in Dbs(U) BY DEF V3Inv
<1>5. PICK ids : ids = IdsAfterWave OBVIOUS
<1>6. fin' = Wave(fin.layer, FlattenSeq(KidsOf(fin)), fin.terminals \cup Made(fin), ids, fin.input)
  BY <1>5 DEF WaveEnds, KidsOf, Made, Finished
<1>7. \A x : x \in ids <=> x \in fin.ids \/ \E i \in DOMAIN fin.active : x \in fin.jobs[i].ids
  <2>1. DOMAIN fin.jobs = DOMAIN fin.active BY <1>3 DEF WaveShape
  <2>2. \A job : job \in Range(fin.jobs) <=> \E i \in DOMAIN fin.active : job = fin.jobs[i] BY <2>1 DEF Range
  <2> QED BY <2>2, <1>5 DEF IdsAfterWave
<1>8. AllDone(fin, db) BY <1>1, BarrierDone
<1>9. WaveOk(fin', db, acked, out)
  <2>1. PICK w, d, a, s, z, inp : w = fin /\ d = db /\ a = acked /\ s = out /\ z = fin' /\ inp = fin.input OBVIOUS
  <2>2. /\ d \in Dbs(U) /\ WaveOk(w, d, a, s) /\ w.active # <<>> /\ AllDone(w, d)
        /\ \A x : x \in ids <=> x \in w.ids \/ \E i \in DOMAIN w.active : x \in w.jobs[i].ids
        /\ z = Wave(w.layer, FlattenSeq(KidsOf(w)), w.terminals \cup Made(w), ids, inp)
    BY <2>1, <1>1, <1>3, <1>4, <1>6, <1>7, <1>8
  <2>3. WaveOk(z, d, a, s) BY ONLY <2>2, NextWaveIs
  <2> QED BY <2>1, <2>3
<1>10. WaveOk(fin, db, acked, out)' BY <1>2, <1>9
<1>11. CallOk' BY <1>2, <1>3, <1>10 DEF CallOk
<1>12. RootHolds(db, acked, ingested)' /\ phase' # "Finalized" BY <1>2, <1>3 DEF V3Inv
<1> QED BY <1>2, <1>11, <1>12 DEF V3Inv

\* A wave of one partition, the first of a layer.
LEMMA FirstWaveIs ==
    ASSUME NEW U, NEW d \in Dbs(U), NEW layer \in Nat, NEW p \in Parts, Len(p.id) = 1, NEW items, NEW stored, NEW ids, NEW input,
           Entries(d, p.id) # <<>>, \A b \in Holds(d, layer, p) : Tree(b), items \subseteq Leaves(Holds(d, layer, p)),
           ids = StoredOf(layer, Holds(d, layer, p)), ids \subseteq stored,
           NEW z, z = Wave(layer, <<p>>, {}, ids, input)
    PROVE  WaveOk(z, d, items, stored)
<1>1. PICK a : a = <<p>> OBVIOUS
<1>2. a \in Seq(Parts) /\ DOMAIN a = {1} /\ a[1] = p BY <1>1
<1>3. /\ z = [stage |-> "wave", layer |-> z.layer, active |-> z.active, jobs |-> z.jobs,
              terminals |-> z.terminals, ids |-> z.ids, input |-> z.input]
      /\ z.layer = layer /\ z.active = a /\ z.terminals = {} /\ z.ids = ids
      /\ z.jobs = [i \in DOMAIN z.active |-> z.jobs[i]] /\ \A i \in DOMAIN a : z.jobs[i] = Job
  <2>1. PICK t : t = {} OBVIOUS
  <2>2. z = Wave(layer, a, t, ids, input) BY <1>1, <2>1
  <2>3. /\ z = [stage |-> "wave", layer |-> z.layer, active |-> z.active, jobs |-> z.jobs,
              terminals |-> z.terminals, ids |-> z.ids, input |-> z.input]
        /\ z.layer = layer /\ z.active = a /\ z.terminals = t /\ z.ids = ids
        /\ z.jobs = [i \in DOMAIN z.active |-> z.jobs[i]] /\ \A i \in DOMAIN a : z.jobs[i] = Job
    BY ONLY <2>2, WaveFields
  <2> QED BY <2>1, <2>3
<1>4. z.layer = layer /\ z.active = a /\ z.terminals = {} /\ z.ids = ids BY <1>3
<1>5. InputOf(z, d) = Holds(d, layer, p)
  <2>1. \A x : x \in InputOf(z, d) <=> x \in Holds(d, layer, p) BY ONLY <1>2, <1>4, InInput
  <2> QED BY <2>1
<1>6. Leaves({}) = {} /\ Blocks({}) = {} BY DEF Leaves, Blocks
<1>7. WaveHolds(z, d, items, stored)
  <2>1. \A i \in DOMAIN z.active : Entries(d, z.active[i].id) # <<>> BY ONLY <1>2, <1>4, Entries(d, p.id) # <<>>
  <2> QED BY <1>4, <1>5, <1>6, <2>1 DEF WaveHolds
<1>8. WaveShape(z)
  <2>1. \A i, j \in DOMAIN a : Len(a[i].id) = Len(a[j].id) /\ Len(a[i].id) > 0
    <3>1. \A i \in DOMAIN a : a[i] = p BY <1>2
    <3>2. Len(p.id) > 0 OBVIOUS
    <3> QED BY ONLY <3>1, <3>2
  <2>2. Apart(a) BY <1>2 DEF Apart
  <2>3. IsFiniteSet({}) BY FS_EmptySet
  <2>4. /\ z = [stage |-> "wave", layer |-> z.layer, active |-> z.active, jobs |-> z.jobs,
               terminals |-> z.terminals, ids |-> z.ids, input |-> z.input]
        /\ z.jobs = [i \in DOMAIN z.active |-> z.jobs[i]]
    BY ONLY <1>3
  <2>5. z.layer \in Nat /\ z.active \in Seq(Parts) /\ Apart(z.active) BY ONLY <1>2, <1>4, <2>2, layer \in Nat
  <2>6. \A i, j \in DOMAIN z.active : Len(z.active[i].id) = Len(z.active[j].id) /\ Len(z.active[i].id) > 0 BY ONLY <1>4, <2>1
  <2>7. IsFiniteSet(z.terminals) /\ \A b \in z.terminals : Tree(b) BY ONLY <1>4, <2>3
  <2> QED BY ONLY <2>4, <2>5, <2>6, <2>7 DEF WaveShape
<1>9. \A i \in DOMAIN z.active : JobOk(z.jobs[i], d, z.layer, z.active[i], stored)
  <2>1. \A i \in DOMAIN z.active : z.jobs[i] = Job BY <1>3
  <2> QED BY ONLY <2>1, FreshJob
<1> QED BY <1>7, <1>8, <1>9 DEF WaveOk

\* The partitions are done: what the layer leaves is its terminal children.
LEMMA LayerLeaves ==
    ASSUME NEW w, NEW d, NEW items, NEW stored, WaveOk(w, d, items, stored), w.active = <<>>
    PROVE  /\ w.layer \in Nat /\ IsFiniteSet(w.terminals) /\ \A b \in w.terminals : Tree(b)
           /\ items \subseteq Leaves(w.terminals) /\ w.ids = Blocks(w.terminals) /\ w.ids \subseteq stored
<1>1. PICK a : a = w.active /\ a = <<>> OBVIOUS
<1>2. DOMAIN a = {} BY <1>1
<1>3. InputOf(w, d) = {} BY <1>1, <1>2 DEF InputOf
<1>4. Leaves({}) = {} /\ Blocks({}) = {} BY DEF Leaves, Blocks
<1>5. StoredOf(w.layer, {}) = {} BY <1>4 DEF StoredOf
<1> QED BY <1>3, <1>4, <1>5 DEF WaveOk, WaveShape, WaveHolds

LEMMA FinalizeStartKeeps == ASSUME V3Inv, FinalizeStart PROVE V3Inv'
<1>1. /\ phase = "Ingesting" /\ ingested > 0 /\ UNCHANGED <<batches, acked, phase, ingested, db, out>>
      /\ fin' = Wave(0, <<Partition(Root(0), ingested)>>, {}, {}, ingested)
  BY DEF FinalizeStart
<1>2. RootHolds(db, acked, ingested) /\ ingested \in Nat BY <1>1 DEF V3Inv
<1>3. PICK U : db \in Dbs(U) BY DEF V3Inv
<1>4. Root(0) \in Pids /\ Len(Root(0)) = 1 BY RootIs
<1>5. PICK p : p = Partition(Root(0), ingested) OBVIOUS
<1>6. p \in Parts /\ p.id = Root(0) BY <1>1, <1>2, <1>4, <1>5 DEF Partition, Parts
<1>7. Entries(db, p.id) # <<>>
  <2>1. Count(db, Root(0)) >= ingested BY <1>2 DEF RootHolds
  <2>2. Len(Entries(db, Root(0))) = Count(db, Root(0)) /\ Count(db, Root(0)) \in Nat BY <1>3, <1>4, CountIs
  <2>3. Len(Entries(db, Root(0))) # 0 BY <2>1, <2>2, <1>1, <1>2
  <2>4. Len(<<>>) = 0 OBVIOUS
  <2> QED BY <2>3, <2>4, <1>6
<1>8. \A b : b \in Holds(db, 0, p) <=> \E v \in Range(Entries(db, Root(0))) : b = Leaf(v) BY <1>6, InHolds DEF KidOf
<1>9. \A b \in Holds(db, 0, p) : Tree(b) BY <1>8, LeafTree
<1>10. acked \subseteq Leaves(Holds(db, 0, p))
  <2> SUFFICES ASSUME NEW v \in acked PROVE v \in Leaves(Holds(db, 0, p)) OBVIOUS
  <2>1. v \in Range(Entries(db, Root(0))) BY <1>2 DEF RootHolds
  <2>2. PICK b : b = Leaf(v) OBVIOUS
  <2>3. b \in Holds(db, 0, p) BY <2>1, <2>2, <1>8
  <2>4. v \in LeavesBelow(b) BY <2>2, LeafLeaves
  <2> QED BY <2>3, <2>4, InLeaves
<1>11. {} = StoredOf(0, Holds(db, 0, p)) BY DEF StoredOf
<1>12. WaveOk(fin', db, acked, out)
  <2>1. PICK d, a, s, z, inp, e, l : d = db /\ a = acked /\ s = out /\ z = fin' /\ inp = ingested /\ e = {} /\ l = 0 OBVIOUS
  <2>2. /\ d \in Dbs(U) /\ l \in Nat /\ p \in Parts /\ Len(p.id) = 1 /\ Entries(d, p.id) # <<>> /\ (\A b \in Holds(d, l, p) : Tree(b))
        /\ a \subseteq Leaves(Holds(d, l, p)) /\ e = StoredOf(l, Holds(d, l, p)) /\ e \subseteq s
        /\ z = Wave(l, <<p>>, {}, e, inp)
    BY <2>1, <1>1, <1>3, <1>4, <1>5, <1>6, <1>7, <1>9, <1>10, <1>11
  <2>3. WaveOk(z, d, a, s) BY ONLY <2>2, FirstWaveIs
  <2> QED BY <2>1, <2>3
<1>13. WaveOk(fin, db, acked, out)' BY <1>1, <1>12
<1>14. CallOk' BY <1>1, <1>13 DEF CallOk
<1>15. RootHolds(db, acked, ingested)' /\ phase' # "Finalized" BY <1>1, <1>2
<1> QED BY <1>1, <1>14, <1>15 DEF V3Inv

LEMMA LayerEndsKeeps == ASSUME V3Inv, LayerEnds PROVE V3Inv'
<1>1. fin.stage = "wave" /\ fin.active = <<>> /\ Cardinality(fin.terminals) > 1 BY DEF LayerEnds, Barrier
<1>2. UNCHANGED <<batches, acked, phase, ingested, out>> BY DEF LayerEnds
<1>3. WaveOk(fin, db, acked, out) /\ phase = "Ingesting" /\ RootHolds(db, acked, ingested) BY <1>1, InWaveIs
<1>4. PICK S, l : S = fin.terminals /\ l = fin.layer OBVIOUS
<1>5. /\ l \in Nat /\ IsFiniteSet(S) /\ (\A b \in S : Tree(b)) /\ acked \subseteq Leaves(S)
      /\ fin.ids = Blocks(S) /\ fin.ids \subseteq out
  BY <1>1, <1>3, <1>4, LayerLeaves
<1>a. PICK n \in Nat : n = Cardinality(S) /\ n > 1 /\ Sorted(S) \in Bijection(1 .. n, S) BY <1>1, <1>4, <1>5, SortedOnce
<1>6. PICK next : next = Sorted(S) /\ n = Cardinality(S) /\ n > 1 /\ next \in Bijection(1 .. n, S) BY <1>a
<1>7. next \in Seq(S) /\ Len(next) = n /\ Range(next) = S
  <2>1. next \in [1 .. n -> S] /\ \A x \in S : \E i \in 1 .. n : next[i] = x BY <1>6 DEF Bijection, Injection, Surjection
  <2>2. next \in Seq(S) /\ Len(next) = n BY <2>1
  <2>3. Range(next) = S BY <2>1 DEF Range
  <2> QED BY <2>2, <2>3
<1>8. PICK pid : pid = Root(l + 1) OBVIOUS
<1>9. pid \in Pids /\ Len(pid) = 1 /\ Root(0) \in Pids /\ Root(0) # pid
  <2>1. l + 1 \in Nat /\ 0 # l + 1 BY <1>5
  <2> QED BY <2>1, <1>8, RootIs
<1>10. PICK V : db \in Dbs(V) BY DEF V3Inv
<1>11. PICK U : U = V \cup S OBVIOUS
<1>12. db \in Dbs(U) /\ next \in Seq(U)
  <2>1. V \subseteq U /\ S \subseteq U BY <1>11
  <2> QED BY <2>1, <1>7, <1>10, MoreValues
<1>13. PICK d : d = Cleared(db, <<pid>>) OBVIOUS
<1>14. d \in Dbs(U) /\ Entries(d, pid) = <<>> /\ \A q \in Pids : q # pid => Entries(d, q) = Entries(db, q)
  <2>1. PICK s : s = <<pid>> OBVIOUS
  <2>2. s \in Seq(Pids) /\ Range(s) = {pid}
    <3>1. s \in Seq(Pids) /\ DOMAIN s = {1} /\ s[1] = pid BY <2>1, <1>9
    <3> QED BY <3>1 DEF Range
  <2>3. PICK o \in Dbs(U) : o = db BY <1>12
  <2>4. PICK c : c = Cleared(o, s) OBVIOUS
  <2>5. c \in Dbs(U) /\ (\A q \in Range(s) : Entries(c, q) = <<>>) /\ \A q \in Pids : q \notin Range(s) => Entries(c, q) = Entries(o, q)
    BY ONLY <2>2, <2>4, o \in Dbs(U), ClearedIs
  <2> QED BY <2>1, <2>2, <2>3, <2>4, <2>5, <1>13
<1>15. db' = Appended(d, pid, next) /\ fin' = Wave(l + 1, <<Partition(pid, n)>>, {}, fin.ids, n)
  BY <1>4, <1>6, <1>7, <1>8, <1>13 DEF LayerEnds
<1>16. db' \in Dbs(U) /\ Entries(db', pid) = next /\ \A q \in Pids : q # pid => Entries(db', q) = Entries(db, q)
  <2>1. PICK e : e = Appended(d, pid, next) OBVIOUS
  <2>2. e \in Dbs(U) /\ Entries(e, pid) = Entries(d, pid) \o next /\ \A q \in Pids : q # pid => Entries(e, q) = Entries(d, q)
    <3>1. d \in Dbs(U) /\ pid \in Pids /\ next \in Seq(U) BY <1>9, <1>12, <1>14
    <3> QED BY ONLY <2>1, <3>1, AppendedIs
  <2>3. <<>> \o next = next BY <1>7
  <2> QED BY <2>1, <2>2, <2>3, <1>14, <1>15
<1>17. PICK p : p = Partition(pid, n) /\ p.id = pid /\ p \in Parts
  <2>1. PICK p : p = [id |-> pid, n |-> n] OBVIOUS
  <2>2. p.id = pid /\ p \in Parts BY <2>1, <1>6, <1>9 DEF Parts
  <2> QED BY <2>1, <2>2 DEF Partition
<1>18. PICK k \in Nat : k = l + 1 /\ k # 0 BY <1>5
<1>19. Holds(db', k, p) = S
  <2>1. \A x : x \in Holds(db', k, p) <=> x \in S
    <3>1. \A x : x \in Holds(db', k, p) <=> \E v \in Range(Entries(db', p.id)) : x = KidOf(k, v) BY InHolds
    <3>2. Range(Entries(db', p.id)) = S BY <1>7, <1>16, <1>17
    <3>3. \A v : KidOf(k, v) = v BY <1>18 DEF KidOf
    <3> QED BY ONLY <3>1, <3>2, <3>3
  <2> QED BY <2>1
<1>20. WaveOk(fin', db', acked, out)
  <2>1. PICK e, a, s, z, ids : e = db' /\ a = acked /\ s = out /\ z = fin' /\ ids = fin.ids OBVIOUS
  <2>2. next # <<>>
    <3>1. Len(<<>>) = 0 OBVIOUS
    <3> QED BY <3>1, <1>6, <1>7
  <2>3. /\ e \in Dbs(U) /\ p \in Parts /\ Len(p.id) = 1 /\ Entries(e, p.id) # <<>> /\ (\A b \in Holds(e, k, p) : Tree(b))
        /\ a \subseteq Leaves(Holds(e, k, p)) /\ ids = StoredOf(k, Holds(e, k, p)) /\ ids \subseteq s
        /\ z = Wave(k, <<p>>, {}, ids, n)
    BY <2>1, <2>2, <1>5, <1>9, <1>15, <1>16, <1>17, <1>18, <1>19 DEF StoredOf
  <2>4. WaveOk(z, e, a, s) BY ONLY <2>3, k \in Nat, FirstWaveIs
  <2> QED BY <2>1, <2>4
<1>21. WaveOk(fin, db, acked, out)' BY <1>2, <1>20
<1>22. CallOk' BY <1>2, <1>3, <1>21 DEF CallOk
<1>23. RootHolds(db', acked', ingested')
  <2>1. Entries(db', Root(0)) = Entries(db, Root(0)) BY <1>9, <1>16
  <2>2. Agree(db, db', {Root(0)}) BY <2>1, <1>9, <1>12, <1>16, AgreeIs
  <2> QED BY <2>2, <1>2, <1>3 DEF RootHolds, Agree
<1>24. phase' # "Finalized" BY <1>2, <1>3
<1>25. (\E W : db \in Dbs(W))' BY <1>16
<1> QED BY <1>2, <1>22, <1>23, <1>24, <1>25 DEF V3Inv

LEMMA LayerFailsKeeps == ASSUME V3Inv, LayerFails PROVE V3Inv'
<1>1. /\ fin.stage = "wave" /\ UNCHANGED <<batches, acked, ingested, phase>> /\ fin' = Idle
      /\ db' \in {db, Cleared(db, <<Root(fin.layer + 1)>>)}
  BY DEF LayerFails, Barrier
<1>2. phase = "Ingesting" /\ RootHolds(db, acked, ingested) /\ WaveShape(fin) BY <1>1, InWaveIs
<1>3. PICK pid : pid = Root(fin.layer + 1) OBVIOUS
<1>4. pid \in Pids /\ Root(0) \in Pids /\ Root(0) # pid
  <2>1. fin.layer \in Nat BY <1>2 DEF WaveShape
  <2>2. fin.layer + 1 \in Nat /\ 0 # fin.layer + 1 BY <2>1
  <2> QED BY <2>2, <1>3, RootIs
<1>5. PICK U : db \in Dbs(U) BY DEF V3Inv
<1>6. db' \in Dbs(U) /\ Entries(db', Root(0)) = Entries(db, Root(0))
  <2>1. CASE db' = db BY <2>1, <1>5
  <2>2. CASE db' = Cleared(db, <<pid>>)
    <3>1. PICK s : s = <<pid>> OBVIOUS
    <3>2. s \in Seq(Pids) /\ Root(0) \notin Range(s)
      <4>1. s \in Seq(Pids) /\ DOMAIN s = {1} /\ s[1] = pid BY <3>1, <1>4
      <4> QED BY <4>1, <1>4 DEF Range
    <3>3. PICK o \in Dbs(U) : o = db BY <1>5
    <3>4. Cleared(o, s) \in Dbs(U) /\ \A q \in Pids : q \notin Range(s) => Entries(Cleared(o, s), q) = Entries(o, q)
      BY ONLY <3>2, o \in Dbs(U), ClearedIs
    <3> QED BY <3>1, <3>2, <3>3, <3>4, <2>2, <1>4
  <2> QED BY <2>1, <2>2, <1>1, <1>3
<1>7. RootHolds(db', acked', ingested')
  <2>1. Agree(db, db', {Root(0)}) BY <1>4, <1>5, <1>6, AgreeIs
  <2> QED BY <2>1, <1>1, <1>2 DEF RootHolds, Agree
<1>8. CallOk' /\ phase' # "Finalized" BY <1>1, <1>2 DEF CallOk
<1>9. (\E W : db \in Dbs(W))' BY <1>6
<1> QED BY <1>1, <1>7, <1>8, <1>9 DEF V3Inv

-----------------------------------------------------------------------------
(* The calls, and every step.                                                 *)
LEMMA FinalizeOkKeeps == ASSUME V3Inv, FinalizeOk PROVE V3Inv'
<1>1. fin.stage = "wave" /\ fin.active = <<>> /\ Cardinality(fin.terminals) = 1 BY DEF FinalizeOk, Barrier
<1>2. /\ UNCHANGED <<batches, acked, ingested, out>> /\ phase' = "Finalized" /\ db' = EmptyDb /\ fin' = Idle
      /\ result' = [root |-> CHOOSE b \in fin.terminals : TRUE, ids |-> fin.ids]
  BY DEF FinalizeOk
<1>3. WaveOk(fin, db, acked, out) BY <1>1, InWaveIs
<1>4. PICK S : S = fin.terminals OBVIOUS
<1>5. /\ IsFiniteSet(S) /\ (\A b \in S : Tree(b)) /\ acked \subseteq Leaves(S)
      /\ fin.ids = Blocks(S) /\ fin.ids \subseteq out
  BY <1>1, <1>3, <1>4, LayerLeaves
<1>6. PICK b : S = {b} BY <1>1, <1>4, <1>5, FS_Singleton
<1>7. (CHOOSE c \in S : TRUE) = b BY <1>6
<1>8. result' = [root |-> b, ids |-> fin.ids] BY <1>2, <1>4, <1>7
<1>9. result'.root = b /\ result'.ids = fin.ids BY ONLY <1>8
<1>10. Leaves(S) = LeavesBelow(b) /\ Blocks(S) = Below(b) BY <1>6 DEF Leaves, Blocks
<1>11. ResultOk' BY <1>2, <1>5, <1>6, <1>9, <1>10 DEF ResultOk
<1>12. (\E U : db \in Dbs(U))' BY <1>2, EmptyDbIs
<1>13. CallOk' BY <1>2 DEF CallOk
<1>14. (\E I : batches \in Seq(Seq(I)))' /\ ingested' \in Nat BY <1>2 DEF V3Inv
<1>15. phase' # "Ingesting" BY <1>2
<1> QED BY <1>11, <1>12, <1>13, <1>14, <1>15 DEF V3Inv

LEMMA FinalizeFailsKeeps == ASSUME V3Inv, FinalizeFails PROVE V3Inv'
<1>1. fin.stage = "wave" /\ UNCHANGED <<batches, acked, ingested, db>> /\ fin' = Idle /\ phase' \in {phase, "Cancelled"}
  BY DEF FinalizeFails, Barrier
<1>2. phase = "Ingesting" /\ RootHolds(db, acked, ingested) BY <1>1, InWaveIs
<1>3. CallOk' /\ phase' # "Finalized" BY <1>1, <1>2 DEF CallOk
<1>4. RootHolds(db, acked, ingested)' BY <1>1, <1>2
<1> QED BY <1>1, <1>3, <1>4 DEF V3Inv

LEMMA HeadBatch ==
    ASSUME NEW I, NEW s \in Seq(Seq(I)), s # <<>>
    PROVE  Head(s) \in Seq(I) /\ Tail(s) \in Seq(Seq(I)) /\ Len(Head(s)) \in Nat
<1>1. PICK T : T = Seq(I) OBVIOUS
<1>2. s \in Seq(T) BY <1>1
<1>3. Head(s) \in T /\ Tail(s) \in Seq(T) BY ONLY <1>2, s # <<>>
<1> QED BY <1>1, <1>3

LEMMA IngestAppendKeeps == ASSUME V3Inv, IngestAppend PROVE V3Inv'
<1>1. /\ phase = "Ingesting" /\ batches # <<>> /\ db' = Appended(db, Root(0), Head(batches)) /\ fin' = [stage |-> "append"]
      /\ UNCHANGED <<batches, acked, phase, ingested>>
  BY DEF IngestAppend
<1>2. PICK V : db \in Dbs(V) BY DEF V3Inv
<1>3. PICK I : batches \in Seq(Seq(I)) BY DEF V3Inv
<1>4. PICK values : values = Head(batches) OBVIOUS
<1>5. values \in Seq(I) /\ Len(values) \in Nat BY <1>1, <1>3, <1>4, HeadBatch
<1>6. PICK U, d : U = V \cup I /\ d = db OBVIOUS
<1>7. d \in Dbs(U) /\ values \in Seq(U)
  <2>1. V \subseteq U /\ I \subseteq U BY <1>6
  <2> QED BY <2>1, <1>2, <1>5, <1>6, MoreValues
<1>8. PICK p : p = Root(0) /\ p \in Pids BY RootIs
<1>9. PICK e : e = Appended(d, p, values) /\ db' = e BY <1>1, <1>4, <1>6, <1>8
<1>10. e \in Dbs(U) /\ Entries(e, p) = Entries(d, p) \o values BY <1>7, <1>8, <1>9, AppendedIs
<1>11. /\ Range(Entries(e, p)) = Range(Entries(d, p)) \cup Range(values)
       /\ Count(e, p) = Count(d, p) + Len(values) /\ Count(d, p) \in Nat
  <2>1. Entries(d, p) \in Seq(U) /\ Count(d, p) = Len(Entries(d, p)) /\ Count(d, p) \in Nat BY <1>7, <1>8, CountIs
  <2>2. Count(e, p) = Len(Entries(e, p)) BY <1>8, <1>10, CountIs
  <2>3. PICK a : a = Entries(d, p) OBVIOUS
  <2>4. Len(a \o values) = Len(a) + Len(values) /\ Range(a \o values) = Range(a) \cup Range(values) BY <2>1, <2>3, <1>7, RangeJoined
  <2> QED BY <2>1, <2>2, <2>3, <2>4, <1>10
<1>12. acked \subseteq Range(Entries(d, p)) /\ Count(d, p) >= ingested /\ ingested \in Nat BY <1>1, <1>6, <1>8 DEF V3Inv, RootHolds
<1>13. acked \cup Range(values) \subseteq Range(Entries(e, p)) /\ Count(e, p) >= ingested + Len(values) /\ Count(e, p) >= ingested
  BY <1>5, <1>11, <1>12
<1>14. RootHolds(e, acked \cup Range(values), ingested + Len(values)) /\ RootHolds(e, acked, ingested) BY <1>8, <1>13 DEF RootHolds
<1>15. CallOk' BY <1>1, <1>4, <1>9, <1>14 DEF CallOk
<1>16. RootHolds(db, acked, ingested)' BY <1>1, <1>9, <1>14
<1>17. (\E W : db \in Dbs(W))' BY <1>9, <1>10
<1>18. (\E J : batches \in Seq(Seq(J)))' /\ ingested' \in Nat /\ phase' # "Finalized" BY <1>1, <1>3, <1>12
<1> QED BY <1>15, <1>16, <1>17, <1>18 DEF V3Inv

\* What V3Inv says while an append runs.
LEMMA InAppend ==
    ASSUME V3Inv, fin.stage = "append"
    PROVE  /\ phase = "Ingesting" /\ batches # <<>> /\ RootHolds(db, acked, ingested)
           /\ RootHolds(db, acked \cup Range(Head(batches)), ingested + Len(Head(batches)))
<1>1. fin # Idle BY DEF Idle
<1>2. ~WaveOk(fin, db, acked, out)
  <2> SUFFICES ASSUME WaveShape(fin) PROVE FALSE BY DEF WaveOk
  <2>1. PICK l, a, j, t, d, i : fin = [stage |-> "wave", layer |-> l, active |-> a, jobs |-> j, terminals |-> t, ids |-> d, input |-> i]
    BY DEF WaveShape
  <2>2. fin.stage = "wave" BY ONLY <2>1
  <2> QED BY <2>2
<1> QED BY <1>1, <1>2 DEF V3Inv, CallOk

LEMMA IngestEndsKeeps == ASSUME V3Inv, IngestEnds PROVE V3Inv'
<1>1. fin.stage = "append" /\ fin' = Idle /\ UNCHANGED db BY DEF IngestEnds
<1>2. /\ phase = "Ingesting" /\ batches # <<>>
      /\ RootHolds(db, acked \cup Range(Head(batches)), ingested + Len(Head(batches)))
  BY <1>1, InAppend
<1>3. PICK I : batches \in Seq(Seq(I)) BY DEF V3Inv
<1>4. Tail(batches) \in Seq(Seq(I)) /\ Len(Head(batches)) \in Nat BY <1>2, <1>3, HeadBatch
<1>5. CallOk' BY <1>1 DEF CallOk
<1>6. (\E U : db \in Dbs(U))' BY <1>1 DEF V3Inv
<1>7. CASE cancelled
  <2>1. phase' = "Cancelled" /\ UNCHANGED <<batches, ingested>> BY <1>7 DEF IngestEnds
  <2> QED BY <2>1, <1>5, <1>6 DEF V3Inv
<1>8. CASE ~cancelled
  <2>1. /\ batches' = Tail(batches) /\ acked' = acked \cup Range(Head(batches))
        /\ ingested' = ingested + Len(Head(batches)) /\ phase' = phase
    BY <1>8 DEF IngestEnds
  <2>2. RootHolds(db, acked, ingested)' BY <2>1, <1>1, <1>2
  <2>3. ingested' \in Nat BY <2>1, <1>4 DEF V3Inv
  <2>4. (\E J : batches \in Seq(Seq(J)))' BY <2>1, <1>4
  <2> QED BY <2>1, <2>2, <2>3, <2>4, <1>2, <1>5, <1>6 DEF V3Inv
<1> QED BY <1>7, <1>8

LEMMA IngestDroppedKeeps == ASSUME V3Inv, IngestDropped PROVE V3Inv'
<1>1. fin.stage = "append" /\ fin' = Idle /\ UNCHANGED <<batches, acked, phase, ingested, db>> BY DEF IngestDropped
<1>2. phase = "Ingesting" /\ RootHolds(db, acked, ingested) BY <1>1, InAppend
<1>3. CallOk' BY <1>1 DEF CallOk
<1> QED BY <1>1, <1>2, <1>3 DEF V3Inv

LEMMA SameKeeps == ASSUME V3Inv, UNCHANGED <<batches, acked, phase, ingested, db, fin, out, result>> PROVE V3Inv'
BY DEF V3Inv, CallOk, ResultOk

LEMMA RefusedKeeps == ASSUME V3Inv, RefusedCancelled PROVE V3Inv'
<1>1. fin = Idle /\ phase' = "Cancelled" /\ UNCHANGED <<batches, acked, ingested, db, fin>> BY DEF RefusedCancelled
<1>2. CallOk' BY <1>1 DEF CallOk
<1> QED BY <1>1, <1>2 DEF V3Inv

LEMMA InitHolds == ASSUME V3Assumption, Init PROVE V3Inv
<1>1. PICK s \in Streams : batches = s.batches BY DEF Init
<1>2. batches \in Seq(Seq(StreamItems(s))) BY <1>1 DEF V3Assumption
<1>3. acked = {} /\ phase = "Ingesting" /\ ingested = 0 /\ db = EmptyDb /\ fin = Idle BY DEF Init
<1>4. EmptyDb \in Dbs({}) BY EmptyDbIs
<1>5. RootHolds(db, acked, ingested)
  <2>1. PICK p : p = Root(0) /\ p \in Pids BY RootIs
  <2>2. Count(EmptyDb, p) \in Nat BY <1>4, CountNatural
  <2> QED BY <2>1, <2>2, <1>3 DEF RootHolds
<1>6. CallOk BY <1>3 DEF CallOk
<1> QED BY <1>2, <1>3, <1>4, <1>5, <1>6 DEF V3Inv

LEMMA StepKeeps == ASSUME V3Assumption, V3Inv, [Next]_vars PROVE V3Inv'
<1>1. CASE Cancel BY <1>1, SameKeeps DEF Cancel
<1>2. CASE RefusedCancelled BY <1>2, RefusedKeeps
<1>3. CASE Ingest BY <1>3, IngestAppendKeeps, IngestEndsKeeps, IngestDroppedKeeps DEF Ingest
<1>4. CASE FinalizeStart BY <1>4, FinalizeStartKeeps
<1>5. ASSUME NEW i, Materialize(i) PROVE V3Inv'
  BY <1>5, LoadKeeps, PutKeeps, MaterializedKeeps, MaterializeFailsKeeps DEF Materialize
<1>6. ASSUME NEW i, Refines(i) PROVE V3Inv'
  <2>1. PICK values : values = Range(ReadAll(db, fin.active[i].id)) OBVIOUS
  <2>2. CASE RankZero(i) BY <2>2, RankZeroKeeps
  <2>3. ASSUME NEW first \in {0, 1}, RefineFails(i, first) PROVE V3Inv' BY <2>3, RefineFailsKeeps
  <2>4. ASSUME NEW count \in 1 .. ClusterCount(Requested, fin.active[i].n), NEW f \in [values -> 1 .. count], Refine(i, count, f)
        PROVE  V3Inv'
    <3>1. count \in Nat /\ count >= 1 OBVIOUS
    <3>2. \A v \in values : f[v] \in 1 .. count OBVIOUS
    <3> QED BY <2>1, <2>4, <3>1, <3>2, RefineKeeps
  <2> QED BY <1>6, <2>1, <2>2, <2>3, <2>4 DEF Refines
<1>7. CASE WaveEnds \/ LayerEnds \/ LayerFails \/ FinalizeOk \/ FinalizeFails
  BY <1>7, WaveEndsKeeps, LayerEndsKeeps, LayerFailsKeeps, FinalizeOkKeeps, FinalizeFailsKeeps
<1>8. CASE UNCHANGED vars BY <1>8, SameKeeps DEF vars
<1> QED BY <1>1, <1>2, <1>3, <1>4, <1>5, <1>6, <1>7, <1>8 DEF Next, Finalize

LEMMA V3InvHolds == ASSUME V3Assumption PROVE Spec => []V3Inv
<1>1. Init => V3Inv BY InitHolds
<1>2. V3Inv /\ [Next]_vars => V3Inv' BY StepKeeps
<1> QED BY <1>1, <1>2, PTL DEF Spec

-----------------------------------------------------------------------------
(* The theorems.                                                              *)
LEMMA ItemsOfEntries ==
    ASSUME NEW d, NEW layer, NEW p, NEW b \in Holds(d, layer, p), NEW x \in LeavesBelow(b)
    PROVE  x \in UNION {ItemsOf(layer, v) : v \in Range(Entries(d, p.id))}
<1>1. PICK v \in Range(Entries(d, p.id)) : b = KidOf(layer, v) BY InHolds
<1>2. x \in ItemsOf(layer, v) BY <1>1, LeafLeaves DEF ItemsOf, KidOf
<1> QED BY <1>1, <1>2

LEMMA NothingLostIf == ASSUME V3Assumption, V3Inv PROVE NothingLost
<1> SUFFICES ASSUME fin.stage = "wave" PROVE NothingLost BY DEF NothingLost
<1> DEFINE D == DOMAIN fin.active
           waiting == {i \in D : fin.jobs[i].st \in {"todo", "puts"}}
           kids == UNION {Range(fin.jobs[i].kids) : i \in D}
           made == fin.terminals \cup {fin.jobs[i].child : i \in {j \in D : fin.jobs[j].st = "done" /\ fin.jobs[j].kids = <<>>}}
           Waits == UNION {UNION {ItemsOf(fin.layer, v) : v \in Range(ReadAll(db, fin.active[i].id))} : i \in waiting}
           Gathered == UNION {UNION {ItemsOf(fin.layer, v) : v \in Range(ReadAll(db, k.id))} : k \in kids}
           Built == UNION {LeavesBelow(b) : b \in made}
<1>1. PICK U : db \in Dbs(U) BY DEF V3Inv
<1>2. /\ WaveHolds(fin, db, acked, out)
      /\ \A i \in D : fin.active[i].id \in Pids /\ JobOk(fin.jobs[i], db, fin.layer, fin.active[i], out)
  BY InWaveIs
<1>3. ASSUME NEW i \in D, fin.jobs[i].kids # <<>> PROVE JobSplit(fin.jobs[i], db, fin.active[i])
  BY <1>2, <1>3 DEF JobOk, JobTodo, JobPuts
<1>4. ASSUME NEW i \in D, NEW k \in Range(fin.jobs[i].kids)
      PROVE  JobSplit(fin.jobs[i], db, fin.active[i]) /\ Count(db, k.id) = k.n /\ k.id \in Pids
  <2>1. PICK e : e = fin.jobs[i].kids OBVIOUS
  <2>2. e # <<>>
    <3> SUFFICES ASSUME e = <<>> PROVE FALSE OBVIOUS
    <3>1. DOMAIN e = {} OBVIOUS
    <3> QED BY <2>1, <3>1, <1>4 DEF Range
  <2>3. JobSplit(fin.jobs[i], db, fin.active[i]) BY <2>1, <2>2, <1>3
  <2>4. e \in Seq(Parts) /\ Count(db, k.id) = k.n BY <2>1, <2>3 DEF JobSplit
  <2>5. k \in Parts BY <2>1, <2>4, <1>4 DEF Range
  <2> QED BY <2>3, <2>4, <2>5 DEF Parts
<1>5. \A k \in kids : Count(db, k.id) = k.n BY <1>4
<1>6. ASSUME \A i \in D : fin.jobs[i].st \notin {"failed", "cancelled"}, NEW x \in acked
      PROVE  x \in Waits \/ x \in Gathered \/ x \in Built
  <2>1. x \in Leaves(fin.terminals) \/ x \in Leaves(InputOf(fin, db)) BY <1>2 DEF WaveHolds
  <2>2. CASE x \in Leaves(fin.terminals)
    <3>1. PICK b \in fin.terminals : x \in LeavesBelow(b) BY <2>2, InLeaves
    <3> QED BY <3>1
  <2>3. CASE x \in Leaves(InputOf(fin, db))
    <3>1. PICK b \in InputOf(fin, db) : x \in LeavesBelow(b) BY <2>3, InLeaves
    <3>2. PICK i \in D : b \in Holds(db, fin.layer, fin.active[i]) BY <3>1, InInput
    <3>3. CASE i \in waiting
      <4>1. ReadAll(db, fin.active[i].id) = Entries(db, fin.active[i].id) BY <1>1, <1>2, ReadAllIs
      <4>2. x \in UNION {ItemsOf(fin.layer, v) : v \in Range(Entries(db, fin.active[i].id))} BY <3>1, <3>2, ItemsOfEntries
      <4>3. x \in UNION {ItemsOf(fin.layer, v) : v \in Range(ReadAll(db, fin.active[i].id))} BY <4>1, <4>2
      <4> QED BY <3>3, <4>3
    <3>4. CASE i \notin waiting
      <4>1. fin.jobs[i].st = "done" BY <3>4, <1>2, <1>6 DEF JobOk
      <4>2. JobPuts(fin.jobs[i], db, fin.layer, fin.active[i]) \/ JobSplit(fin.jobs[i], db, fin.active[i]) BY <4>1, <1>2 DEF JobOk
      <4>3. CASE JobPuts(fin.jobs[i], db, fin.layer, fin.active[i])
        <5>1. fin.jobs[i].kids = <<>> /\ LeavesBelow(fin.jobs[i].child) = Leaves(Holds(db, fin.layer, fin.active[i])) BY <4>3 DEF JobPuts
        <5>2. x \in LeavesBelow(fin.jobs[i].child) BY <5>1, <3>1, <3>2, InLeaves
        <5>3. fin.jobs[i].child \in made BY <4>1, <5>1
        <5> QED BY <5>2, <5>3
      <4>4. CASE JobSplit(fin.jobs[i], db, fin.active[i])
        <5>1. PICK k \in Range(fin.jobs[i].kids) : b \in Holds(db, fin.layer, k) BY <4>4, <3>2, SplitHolds
        <5>2. k.id \in Pids BY <5>1, <1>4
        <5>3. ReadAll(db, k.id) = Entries(db, k.id) BY <1>1, <5>2, ReadAllIs
        <5>4. x \in UNION {ItemsOf(fin.layer, v) : v \in Range(Entries(db, k.id))} BY <3>1, <5>1, ItemsOfEntries
        <5>5. x \in UNION {ItemsOf(fin.layer, v) : v \in Range(ReadAll(db, k.id))} BY <5>3, <5>4
        <5>6. k \in kids BY <5>1
        <5> HIDE DEF kids
        <5> QED BY <5>5, <5>6
      <4> QED BY <4>2, <4>3, <4>4
    <3> QED BY <3>3, <3>4
  <2> QED BY <2>1, <2>2, <2>3
<1>7. (\A i \in D : fin.jobs[i].st \notin {"failed", "cancelled"}) => acked \subseteq Waits \cup Gathered \cup Built
  <2> HIDE DEF Waits, Gathered, Built
  <2> QED BY <1>6
<1> QED BY ONLY <1>5, <1>7 DEF NothingLost

LEMMA V3ExactIf == ASSUME V3Inv PROVE V3Exact
<1> SUFFICES ASSUME phase = "Finalized" PROVE V3Exact BY DEF V3Exact
<1>1. ResultOk BY DEF V3Inv
<1>2. \A b \in Below(result.root) : b.level > 0 => Cardinality(b.kids) \in 2 .. Bound BY <1>1, TreeFacts DEF ResultOk
<1> QED BY <1>1, <1>2 DEF V3Exact, ResultOk

\* Whatever failed before and whatever an abandoned attempt left in the partition
\* store: the parts of a wave of StreamingIndexingRunV3::finalize have the entries the
\* next wave counts on, and every acknowledged item waits in a partition, is in a
\* part of one or under a terminal child, in whatever order the jobs of the wave end.
THEOREM WavesLoseNothing == ASSUME V3Assumption PROVE Spec => []NothingLost
<1>1. V3Inv => NothingLost BY NothingLostIf
<1>2. Spec => []V3Inv BY V3InvHolds
<1> QED BY <1>1, <1>2, PTL

\* What finalize of StreamingIndexingRunV3 returns has every acknowledged item under
\* its root; block_ids are exactly the blocks under it, all of them stored, and no
\* branch has fewer than two children or more than fit a block.
THEOREM LayeredIndexExact == ASSUME V3Assumption PROVE Spec => []V3Exact
<1>1. V3Inv => V3Exact BY V3ExactIf
<1>2. Spec => []V3Inv BY V3InvHolds
<1> QED BY <1>1, <1>2, PTL

=============================================================================
