------------------------------ MODULE Packing ------------------------------
(* The packing strategies of lexongraph-streaming-clustering-evaluator: from   *)
(* the clusters of an execution to leaves of bounded size.  An execution is a  *)
(* function from the entities (integers, in the order of their ids) to their   *)
(* clusters; a packed one is a sequence of leaves, each a sequence of          *)
(* entities, or NoPacking.  Place[e] is an entity's embedding; it has one      *)
(* coordinate, so there is no dominant dimension to choose.                    *)
EXTENDS Integers, Sequences, FiniteSets, SequencesExt, FiniteSetsExt

NoPacking == <<<<0>>>>
SumSeq(s) == FoldLeft(LAMBDA m, n : m + n, 0, s)

\* packing_bounds, from the leaf size of the profile.
LowerBound(leaf) == leaf \div 2
UpperBound(leaf) == leaf

\* The elements of a set in the order of a key, equal keys in their own order.
InOrder(S, Key(_)) ==
    LET Before(a, b) == Key(a) < Key(b) \/ (Key(a) = Key(b) /\ a < b)
    IN  [r \in 1 .. Cardinality(S) |->
            CHOOSE e \in S : Cardinality({d \in S : Before(d, e)}) = r - 1]

\* ordered_members_by_cluster.
OrderedMembers(cluster) == InOrder(DOMAIN cluster, LAMBDA e : cluster[e])

\* balanced_cluster_counts: sizes that differ by one at most, the larger first.
BalancedCounts(total, groups) ==
    [g \in 1 .. groups |-> total \div groups + IF g <= total % groups THEN 1 ELSE 0]

\* A sequence cut after the given positions.
CutAt(s, cuts) ==
    [g \in DOMAIN cuts |-> SubSeq(s, (IF g = 1 THEN 0 ELSE cuts[g - 1]) + 1, cuts[g])]

Ends(sizes) == [g \in DOMAIN sizes |-> SumSeq(SubSeq(sizes, 1, g))]
SizedRuns(s, sizes) == CutAt(s, Ends(sizes))

\* build_balanced_range_packed_execution.
LeavesNeeded(n, leaf) == (n + leaf - 1) \div leaf
BalancedRange(cluster, leaf) ==
    LET members == OrderedMembers(cluster)
    IN  SizedRuns(members, BalancedCounts(Len(members), LeavesNeeded(Len(members), UpperBound(leaf))))

-----------------------------------------------------------------------------
\* The dynamic program both other strategies use: the cuts of positions 1 .. n
\* into segments that may be taken, with the least cost, then the least
\* imbalance; of several predecessors the last.
Cheaper(a, b) == a.cost < b.cost \/ (a.cost = b.cost /\ a.imbalance < b.imbalance)

BestCuts(n, May(_, _), Cost(_, _), Imbalance(_, _)) ==
    LET Best[end \in 0 .. n] ==
            IF end = 0 THEN [found |-> TRUE, cost |-> 0, imbalance |-> 0, cuts |-> <<>>]
            ELSE LET before == [s \in {s \in 0 .. end - 1 : May(s, end)} |-> Best[s]]
                     via == [s \in {s \in DOMAIN before : before[s].found} |->
                                [found |-> TRUE, cost |-> before[s].cost + Cost(s, end),
                                 imbalance |-> before[s].imbalance + Imbalance(s, end),
                                 cuts |-> Append(before[s].cuts, end)]]
                 IN  IF DOMAIN via = {} THEN [found |-> FALSE, cost |-> 0, imbalance |-> 0, cuts |-> <<>>]
                     ELSE via[CHOOSE s \in DOMAIN via : \A r \in DOMAIN via :
                                 ~Cheaper(via[r], via[s]) /\ (r > s => Cheaper(via[s], via[r]))]
    IN  Best[n]

\* partition_contiguous_member_sequence: a cut within a cluster costs one.  The
\* first looks at the wrong side of the cut.
PenaltyBefore(ids, end) == IF end > 1 /\ ids[end] = ids[end - 1] THEN 1 ELSE 0
SplitPenalty(ids, end) == IF end < Len(ids) /\ ids[end] = ids[end + 1] THEN 1 ELSE 0

ContiguousCuts(ids, lower, upper) ==
    BestCuts(Len(ids), LAMBDA s, e : e - s \in lower .. upper,
             LAMBDA s, e : SplitPenalty(ids, e), LAMBDA s, e : upper - (e - s))

ContiguousSegments(cluster, leaf) ==
    LET members == OrderedMembers(cluster)
        ids     == [i \in DOMAIN members |-> cluster[members[i]]]
        best    == ContiguousCuts(ids, LowerBound(leaf), UpperBound(leaf))
    IN  IF best.found THEN CutAt(members, best.cuts) ELSE NoPacking

\* partition_weighted_microclusters: every microcluster after the first of a
\* leaf costs one.
WeightOf(weights, s, e) == SumSeq(SubSeq(weights, s + 1, e))

WeightedCuts(weights, lower, upper) ==
    BestCuts(Len(weights), LAMBDA s, e : WeightOf(weights, s, e) \in lower .. upper,
             LAMBDA s, e : e - s - 1, LAMBDA s, e : upper - WeightOf(weights, s, e))

\* build_geometry_split_merge_packed_execution: clusters that are too large are
\* split along their coordinate, and the pieces are packed in the order of their
\* centroids, then of their clusters, then of their first entities.
Pieces(cluster, leaf, Place) ==
    LET Split(c) ==
            LET members == {e \in DOMAIN cluster : cluster[e] = c}
                n       == Cardinality(members)
            IN  IF n <= UpperBound(leaf) THEN <<InOrder(members, LAMBDA e : 0)>>
                ELSE SizedRuns(InOrder(members, LAMBDA e : Place[e]),
                               BalancedCounts(n, LeavesNeeded(n, UpperBound(leaf))))
    IN  UNION {ToSet(Split(c)) : c \in {cluster[e] : e \in DOMAIN cluster}}

Precedes(p, q, cluster, Place) ==
    LET Sum(x)  == SumSeq([i \in DOMAIN x |-> Place[x[i]]])
        left    == Sum(p) * Len(q)
        right   == Sum(q) * Len(p)
    IN  \/ left < right
        \/ left = right /\ cluster[p[1]] < cluster[q[1]]
        \/ left = right /\ cluster[p[1]] = cluster[q[1]] /\ p[1] < q[1]

GeometrySplitMerge(cluster, leaf, Place) ==
    LET pieces  == Pieces(cluster, leaf, Place)
        ordered == [r \in 1 .. Cardinality(pieces) |->
                      CHOOSE p \in pieces : Cardinality({q \in pieces : Precedes(q, p, cluster, Place)}) = r - 1]
        best    == WeightedCuts([i \in DOMAIN ordered |-> Len(ordered[i])], LowerBound(leaf), UpperBound(leaf))
    IN  IF best.found
        THEN [g \in DOMAIN best.cuts |-> FlattenSeq(CutAt(ordered, best.cuts)[g])] ELSE NoPacking

Packers == {"balanced", "contiguous", "geometry"}

Packed(packer, cluster, leaf, Place) ==
    IF packer = "balanced" THEN BalancedRange(cluster, leaf)
    ELSE IF packer = "contiguous" THEN ContiguousSegments(cluster, leaf)
    ELSE GeometrySplitMerge(cluster, leaf, Place)

-----------------------------------------------------------------------------
\* Reference definitions: all ways to cut n positions into segments that may be
\* taken, and the least of them.
AllCuts(n, May(_, _)) ==
    {cuts \in {InOrder(S \cup {n}, LAMBDA i : 0) : S \in SUBSET (1 .. n - 1)} :
        \A g \in DOMAIN cuts : May(IF g = 1 THEN 0 ELSE cuts[g - 1], cuts[g])}

Splits(ids, cuts) == Cardinality({g \in DOMAIN cuts : cuts[g] < Len(ids) /\ ids[cuts[g]] = ids[cuts[g] + 1]})
Slack(cuts, upper) == SumSeq([g \in DOMAIN cuts |-> upper - (cuts[g] - IF g = 1 THEN 0 ELSE cuts[g - 1])])

\* Whether every entity is in exactly one leaf.
EveryOnce(packed, entities) ==
    /\ \A e \in entities : Cardinality({g \in DOMAIN packed : e \in ToSet(packed[g])}) = 1
    /\ SumSeq([g \in DOMAIN packed |-> Len(packed[g])]) = Cardinality(entities)

WithinBounds(packed, leaf) ==
    \A g \in DOMAIN packed : Len(packed[g]) \in LowerBound(leaf) .. UpperBound(leaf)

\* What a strategy promises: every entity once, and leaves within bounds; the
\* balanced one misses the bounds, and the contiguous one fails, only if no cut
\* meets them; the contiguous one separates as few clusters as possible and
\* fills the leaves best.
PackedRight(packer, cluster, leaf, packed) ==
    LET n      == Cardinality(DOMAIN cluster)
        cuts   == AllCuts(n, LAMBDA s, e : e - s \in LowerBound(leaf) .. UpperBound(leaf))
        ids    == LET m == OrderedMembers(cluster) IN [i \in 1 .. n |-> cluster[m[i]]]
        CostOf(c) == [cost |-> Splits(ids, c), imbalance |-> Slack(c, UpperBound(leaf))]
    IN  /\ packed # NoPacking => EveryOnce(packed, DOMAIN cluster)
        /\ packed # NoPacking /\ packer # "balanced" => WithinBounds(packed, leaf)
        /\ packer = "balanced" => (WithinBounds(packed, leaf) <=> cuts # {})
        /\ packer = "contiguous" =>
              /\ packed = NoPacking <=> cuts = {}
              /\ cuts # {} =>
                    LET ours == Ends([g \in DOMAIN packed |-> Len(packed[g])])
                    IN  \A other \in cuts : ~Cheaper(CostOf(other), CostOf(ours))
=============================================================================
