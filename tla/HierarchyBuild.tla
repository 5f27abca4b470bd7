---------------------------- MODULE HierarchyBuild ----------------------------
(* Section 5 of the evaluator: from the leaf clusters of a surviving candidate *)
(* a hierarchy is grouped layer by layer, with one of seven strategies, then   *)
(* analysed, gated and given a rank.  One pair of a candidate and a strategy.  *)
(* Embeddings have one integer coordinate, so that the principal axis is that  *)
(* coordinate and the direction of an embedding its sign: 0 has none, and the  *)
(* cosine distance of two is 0 or 2.  A quotient is a record of num and den.   *)
(* Ids are numbers: within a layer, which holds leaves only or internal nodes  *)
(* only, they are ordered like the code's names as long as there are fewer     *)
(* than ten.                                                                   *)
EXTENDS Packing

CONSTANTS
    LeafClusters,   \* sequences of leaf clusters, each a sequence of coordinates
    Contracts       \* records of min and max (the fanout), beta, epsilon and metric

VARIABLES
    problem,        \* the clusters, the contract and the strategy
    nodes,          \* all nodes that have been built, by id
    current,        \* the layer that is to be grouped: a sequence of ids
    layer,
    report          \* of the pair: its status and the gates it failed

vars == <<problem, nodes, current, layer, report>>

Strategies == {"agglomeration", "top-down", "greedy", "hybrid", "ward", "beta-greedy", "pca"}

\* validate_section5_contract.
ValidContract(c) == c.min >= 2 /\ c.max >= c.min /\ c.beta.num > 0

\* resolve_metric_semantics: any other profile, or one whose functionals do not
\* belong to it, is refused.
Cosine == problem.contract.metric = "cosine"
MetricResolved == problem.contract.metric \in {"euclidean", "cosine"}

\* Of the members below a node: their number, sum, sum of squares, and how many
\* are negative.
Node(kind, count, sum, squares, negative, children, below) ==
    [kind |-> kind, count |-> count, sum |-> sum, squares |-> squares, negative |-> negative,
     children |-> children, below |-> below]

\* build_leaf_cluster_summaries.
Summary(cluster, index) ==
    Node("leaf", Len(cluster), SumSeq(cluster), SumSeq([i \in DOMAIN cluster |-> cluster[i] * cluster[i]]),
         Cardinality({i \in DOMAIN cluster : cluster[i] < 0}), <<>>, <<index>>)
Summaries(clusters) == [i \in DOMAIN clusters |-> Summary(clusters[i], i)]

\* normalized_embedding of a centroid fails if that is zero (the first lets it
\* pass); so does the cosine distance from or to a member that is.
ZeroPasses(x) == FALSE
Undirected(x) == Cosine /\ x.sum = 0
SummaryFails(cluster) ==
    Cosine /\ (SumSeq(cluster) = 0 \/ \E i \in DOMAIN cluster : cluster[i] = 0)

Running == [status |-> "building", failed |-> {}]
Ended(failed) == [status |-> IF failed = {} THEN "succeeded" ELSE "gate failed", failed |-> failed]

\* The report of a pair without a hierarchy, which may also be over its budget.
GivenUp == {Ended({"hierarchy-build"}), Ended({"hierarchy-build", "execution-budget"})}

\* build_pair_reports, up to the call of build_hierarchy; a refused metric takes
\* no time.
Init ==
    /\ problem \in [clusters: LeafClusters, contract: {c \in Contracts : ValidContract(c)}, strategy: Strategies]
    /\ nodes = Summaries(problem.clusters)
    /\ current = [i \in DOMAIN problem.clusters |-> i]
    /\ layer = 0
    /\ report \in IF ~MetricResolved THEN {Ended({"metric-semantics-compatibility"})}
                  ELSE IF Len(problem.clusters) < 2 \/ \E i \in DOMAIN problem.clusters : SummaryFails(problem.clusters[i])
                  THEN GivenUp
                  ELSE {Running}

-----------------------------------------------------------------------------
\* Centroids are taken times a number that every count up to 12 divides.
Scale == 27720
Centroid(x) == (x.sum * Scale) \div x.count
DistanceOf(x, y) ==
    IF Cosine THEN IF (Centroid(x) < 0) = (Centroid(y) < 0) THEN 0 ELSE 2
    ELSE IF Centroid(x) < Centroid(y) THEN Centroid(y) - Centroid(x) ELSE Centroid(x) - Centroid(y)

Less(p, q) == p.num * q.den < q.num * p.den
Zero == [num |-> 0, den |-> 1]
Infinite == [num |-> 1, den |-> 0]

\* What a group of nodes has together; mean squared radius, or mean cosine
\* deviation of a node that has a direction.
Merged(ns, group, children) ==
    Node("internal", SumSeq([i \in DOMAIN group |-> ns[group[i]].count]), SumSeq([i \in DOMAIN group |-> ns[group[i]].sum]),
         SumSeq([i \in DOMAIN group |-> ns[group[i]].squares]), SumSeq([i \in DOMAIN group |-> ns[group[i]].negative]), children,
         FlattenSeq([i \in DOMAIN group |-> ns[group[i]].below]))
Dispersion(x) ==
    IF Cosine THEN [num |-> 2 * (IF x.sum > 0 THEN x.negative ELSE x.count - x.negative), den |-> x.count]
    ELSE [num |-> x.count * x.squares - x.sum * x.sum, den |-> x.count * x.count]

\* beta_for_edge.
Beta(child, parent) ==
    IF parent.num # 0 THEN [num |-> child.num * parent.den, den |-> child.den * parent.num]
    ELSE IF child.num = 0 THEN Zero ELSE Infinite

\* group_sizes; no sizes if no number of groups is possible.  The first rounds
\* the number of groups down.
SizesRoundedDown(count, c) ==
    IF count < c.min THEN <<>> ELSE BalancedCounts(count, Max({1, count \div c.max}))
GroupSizes(count, c) ==
    LET groups == LeavesNeeded(count, c.max)
    IN  IF count < c.min \/ groups > count \div c.min THEN <<>> ELSE BalancedCounts(count, groups)

\* sort_nodes_lexicographically.
Sorted(ns, ids) == InOrder(ids, LAMBDA i : Centroid(ns[i]))
Nearest(ns, from, ids) == InOrder(ids, LAMBDA i : DistanceOf(ns[from], ns[i]))[1]

\* sort_nodes_by_metric_walk.
MetricWalk(ns, ids) ==
    LET Walk[n \in 1 .. Cardinality(ids)] ==
            IF n = 1 THEN <<Sorted(ns, ids)[1]>>
            ELSE LET before == Walk[n - 1] IN Append(before, Nearest(ns, Last(before), ids \ ToSet(before)))
    IN  Walk[Cardinality(ids)]

\* sort_nodes_by_metric_partition: by how much further the first anchor is than
\* the second, equals in the order of their centroids.
MetricPartition(ns, ids, descending) ==
    LET sorted  == Sorted(ns, ids)
        left    == sorted[1]
        right   == Last(InOrder(ids \ {left}, LAMBDA i : DistanceOf(ns[left], ns[i])))
        Projection(i) == DistanceOf(ns[left], ns[i]) - DistanceOf(ns[right], ns[i])
        Before(i, j) == \/ Projection(i) < Projection(j)
                        \/ Projection(i) = Projection(j) /\ Centroid(ns[i]) < Centroid(ns[j])
                        \/ Projection(i) = Projection(j) /\ Centroid(ns[i]) = Centroid(ns[j]) /\ i < j
        ordered == SortSeq(sorted, Before)
    IN  IF Cardinality(ids) = 1 THEN sorted ELSE IF descending THEN Reverse(ordered) ELSE ordered

\* greedy_pack_groups: the first node that is left and the nearest ones to it.
GreedyPack(ns, ids, sizes) ==
    LET Taken[g \in 0 .. Len(sizes)] ==
            IF g = 0 THEN <<>>
            ELSE LET before == Taken[g - 1]
                     free   == ids \ UNION {ToSet(before[b]) : b \in DOMAIN before}
                     seed   == Sorted(ns, free)[1]
                     near   == InOrder(free \ {seed}, LAMBDA i : DistanceOf(ns[seed], ns[i]))
                 IN  Append(before, <<seed>> \o SubSeq(near, 1, sizes[g] - 1))
    IN  Taken[Len(sizes)]

\* score_node_group, which fails for nodes that cancel, and compare_group_scores;
\* equal scores are decided by ids.
Together(ns, ids) == Merged(ns, InOrder(ids, LAMBDA i : 0), <<>>)
GroupScore(ns, ids) ==
    LET parent == Dispersion(Together(ns, ids))
        betas  == {Beta(Dispersion(ns[i]), parent) : i \in ids}
    IN  [dispersion |-> parent, beta |-> CHOOSE b \in betas : \A other \in betas : ~Less(b, other)]

Better(left, right, objective) ==
    IF objective = "ward"
    THEN \/ Less(left.dispersion, right.dispersion)
         \/ ~Less(right.dispersion, left.dispersion) /\ Less(left.beta, right.beta)
    ELSE \/ Less(left.beta, right.beta)
         \/ ~Less(right.beta, left.beta) /\ Less(left.dispersion, right.dispersion)

\* best_seed_pair, of pairs in the order of the sorted nodes, and
\* best_group_extension: all are scored, and one that fails ends the search.
NoGroup == {}
BestPair(ns, free, objective) ==
    LET Ordered(p) == Centroid(ns[p[1]]) < Centroid(ns[p[2]]) \/ (Centroid(ns[p[1]]) = Centroid(ns[p[2]]) /\ p[1] < p[2])
        pairs  == {p \in free \X free : Ordered(p)}
        scored == {[pair |-> p, score |-> GroupScore(ns, ToSet(p))] : p \in pairs}
        Before(p, q) == p[1] < q[1] \/ (p[1] = q[1] /\ p[2] < q[2])
    IN  IF \E p \in pairs : Undirected(Together(ns, ToSet(p))) THEN NoGroup
        ELSE ToSet((CHOOSE p \in scored : \A q \in scored \ {p} :
                 \/ Better(p.score, q.score, objective)
                 \/ ~Better(q.score, p.score, objective) /\ Before(p.pair, q.pair)).pair)

BestExtension(ns, group, free, objective) ==
    LET scored == {[node |-> i, score |-> GroupScore(ns, group \cup {i})] : i \in free}
    IN  IF \E i \in free : Undirected(Together(ns, group \cup {i})) THEN NoGroup
        ELSE group \cup {(CHOOSE i \in scored : \A j \in scored \ {i} :
                 \/ Better(i.score, j.score, objective)
                 \/ ~Better(j.score, i.score, objective) /\ i.node < j.node).node}

\* greedy_objective_groups.
ObjectiveGroup(ns, free, size, objective) ==
    LET Grow[n \in 2 .. size] ==
            IF n = 2 THEN BestPair(ns, free, objective)
            ELSE LET group == Grow[n - 1]
                 IN  IF group = NoGroup THEN NoGroup ELSE BestExtension(ns, group, free \ group, objective)
    IN  InOrder(Grow[size], LAMBDA i : 0)

\* No groups, or an empty one, if the grouping fails.
NoGroups == <<>>
ObjectiveGroups(ns, ids, sizes, objective) ==
    LET Taken[g \in 0 .. Len(sizes)] ==
            IF g = 0 THEN <<>>
            ELSE LET before == Taken[g - 1]
                     free   == ids \ UNION {ToSet(before[b]) : b \in DOMAIN before}
                 IN  Append(before, ObjectiveGroup(ns, free, sizes[g], objective))
    IN  Taken[Len(sizes)]

\* pca_variance_aware_top_down_groups: along one axis every choice of splits ends
\* in the same runs, each in the order of its ids.  The choice decides what else is
\* scored and may fail: at every split of groups low .. high all before and all
\* after it, then the same of both sides of the best.
Plus(p, q) == [num |-> p.num * q.den + q.num * p.den, den |-> p.den * q.den]
PcaFails(ns, runs) ==
    LET Part(low, high) == UNION {ToSet(runs[g]) : g \in low .. high}
        Split(low, high, at) ==
            [at |-> at, low |-> GroupScore(ns, Part(low, at)), high |-> GroupScore(ns, Part(at + 1, high))]
        Spread(s) == Plus(s.low.dispersion, s.high.dispersion)
        Worst(s)  == IF Less(s.low.beta, s.high.beta) THEN s.high.beta ELSE s.low.beta
        Preferred(s, t) ==
            \/ Less(Spread(s), Spread(t))
            \/ ~Less(Spread(t), Spread(s)) /\ (Less(Worst(s), Worst(t)) \/ (~Less(Worst(t), Worst(s)) /\ s.at < t.at))
        Fails[r \in (1 .. Len(runs)) \X (1 .. Len(runs))] ==
            LET low == r[1]
                high == r[2]
                splits == low .. high - 1
            IN  /\ low < high
                /\ \/ \E at \in splits : Undirected(Together(ns, Part(low, at))) \/ Undirected(Together(ns, Part(at + 1, high)))
                   \/ LET scored == {Split(low, high, at) : at \in splits}
                      IN  \E s \in scored : /\ \A t \in scored \ {s} : Preferred(s, t)
                                            /\ Fails[<<low, s.at>>] \/ Fails[<<s.at + 1, high>>]
    IN  Cosine /\ Fails[<<1, Len(runs)>>]

PcaGroups(ns, ids, sizes) ==
    LET runs == SizedRuns(Sorted(ns, ids), sizes)
    IN  IF PcaFails(ns, runs) THEN NoGroups ELSE [g \in DOMAIN runs |-> InOrder(ToSet(runs[g]), LAMBDA i : 0)]

\* group_current_nodes.
Groups(ns, ids, sizes, strategy, atLayer) ==
    IF strategy = "agglomeration" \/ (strategy = "hybrid" /\ atLayer % 2 = 1) THEN SizedRuns(MetricWalk(ns, ids), sizes)
    ELSE IF strategy \in {"top-down", "hybrid"} THEN SizedRuns(MetricPartition(ns, ids, strategy = "hybrid"), sizes)
    ELSE IF strategy = "greedy" THEN GreedyPack(ns, ids, sizes)
    ELSE IF strategy = "pca" THEN PcaGroups(ns, ids, sizes)
    ELSE ObjectiveGroups(ns, ids, sizes, strategy)

\* The groups of the next layer, none if there are no sizes.
NextGroups ==
    LET sizes == GroupSizes(Len(current), problem.contract)
    IN  IF sizes = <<>> THEN NoGroups ELSE Groups(nodes, ToSet(current), sizes, problem.strategy, layer)

\* One layer of build_hierarchy, which fails if there are no groups or if one of
\* them has no direction.
BuildLayer ==
    /\ report = Running /\ Len(current) > 1
    /\ \E groups \in {NextGroups} : \E built \in {[g \in DOMAIN groups |-> Merged(nodes, groups[g], groups[g])]} :
          IF groups = NoGroups \/ \E g \in DOMAIN built : groups[g] = <<>> \/ Undirected(built[g])
          THEN report' \in GivenUp /\ UNCHANGED <<nodes, current, layer>>
          ELSE /\ nodes' = nodes \o built
               /\ current' = [g \in DOMAIN groups |-> Len(nodes) + g]
               /\ layer' = layer + 1
               /\ UNCHANGED report
    /\ UNCHANGED problem

-----------------------------------------------------------------------------
\* analyze_hierarchy and gate_results_from_analysis.
Root == current[1]
Internal == {i \in DOMAIN nodes : nodes[i].kind = "internal"}

\* assign_depths, from the root.
DepthOf ==
    LET Level[d \in 0 .. Len(nodes)] ==
            IF d = 0 THEN {Root} ELSE UNION {ToSet(nodes[i].children) : i \in Level[d - 1]}
    IN  [i \in DOMAIN nodes |-> Max({d \in 0 .. Len(nodes) : i \in Level[d]} \cup {0})]

\* theoretical_depth_bound, by the least fanout.
DepthBound(leaves, c) == Min({d \in 0 .. leaves : c.min ^ d >= leaves})

AtMost(p, q) == ~Less(q, p)
TooFlat(parent, child) == ~AtMost(Beta(Dispersion(nodes[child]), Dispersion(nodes[parent])), problem.contract.beta)
EpsilonLayer(i, depth) ==
    /\ \A child \in ToSet(nodes[i].children) : nodes[child].kind = "leaf"
    /\ depth[i] + 1 = Max({depth[j] : j \in DOMAIN nodes})
EpsilonSmall(i) ==
    LET root == Dispersion(nodes[Root])
        own  == Dispersion(nodes[i])
        most == problem.contract.epsilon
    IN  IF root.num = 0 THEN own.num = 0
        ELSE AtMost(own, [num |-> most.num * root.num, den |-> most.den * root.den])

FailedGates(within) ==
    LET depth == DepthOf
        c     == problem.contract
        flat  == {<<i, j>> \in Internal \X (1 .. Len(nodes)) : j \in ToSet(nodes[i].children) /\ TooFlat(i, j)}
        outside == {e \in flat : ~(EpsilonLayer(e[1], depth) /\ EpsilonSmall(e[1]))}
    IN  (IF \A i \in Internal : Len(nodes[i].children) \in c.min .. c.max THEN {} ELSE {"fanout-bounds"})
        \cup (IF \A i \in Internal : Len(nodes[i].children) # 1 THEN {} ELSE {"no-single-child"})
        \cup (IF Max({depth[i] : i \in DOMAIN nodes}) <= DepthBound(Len(problem.clusters), c) THEN {} ELSE {"depth-bound"})
        \cup (IF outside = {} THEN {} ELSE {"beta-threshold"})
        \cup (IF \A e \in flat : EpsilonLayer(e[1], depth) => EpsilonSmall(e[1]) THEN {} ELSE {"epsilon-scope"})
        \cup (IF within THEN {} ELSE {"execution-budget"})

\* build_pair_report and apply_execution_budget_to_pair_report.
Analyze ==
    /\ report = Running /\ Len(current) = 1
    /\ \E within \in BOOLEAN : report' = Ended(FailedGates(within))
    /\ UNCHANGED <<problem, nodes, current, layer>>

Next == BuildLayer \/ Analyze

Spec == Init /\ [][Next]_vars

-----------------------------------------------------------------------------
\* The layer whose size cannot be divided within the fanout.
NoGrouping(count, c) == \A groups \in 1 .. count : ~(groups * c.min <= count /\ count <= groups * c.max)

\* Embeddings whose directions a build may need and not find: a member that is
\* zero, or clusters whose members cancel.
Cancelling(clusters) ==
    \/ \E i \in DOMAIN clusters : 0 \in ToSet(clusters[i])
    \/ \E S \in SUBSET DOMAIN clusters :
          S # {} /\ SumSeq([i \in DOMAIN clusters |-> IF i \in S THEN SumSeq(clusters[i]) ELSE 0]) = 0

\* Whatever the strategy and the metric, a hierarchy that is built never fails a
\* structural gate: every leaf cluster is below the root once and at the same
\* depth, and under the cosine metric every node has a direction.  A build that is
\* given up had a layer that nothing could divide or, under the cosine metric only,
\* embeddings that cancel.  A hierarchy that succeeds refines everywhere but above
\* its leaves.
HierarchyHonest ==
    /\ report.failed \cap {"fanout-bounds", "no-single-child", "depth-bound"} = {}
    /\ "hierarchy-build" \in report.failed =>
          \/ Len(problem.clusters) < 2 \/ NoGrouping(Len(current), problem.contract)
          \/ Cosine /\ Cancelling(problem.clusters)
    /\ report # Running /\ report.failed \cap {"hierarchy-build", "metric-semantics-compatibility"} = {} =>
          LET below == nodes[Root].below
              depth == DepthOf
          IN  /\ ToSet(below) = DOMAIN problem.clusters /\ Len(below) = Len(problem.clusters)
              /\ \A i \in DOMAIN problem.clusters : depth[i] = layer
              /\ nodes[Root].count = SumSeq([i \in DOMAIN problem.clusters |-> Len(problem.clusters[i])])
              /\ Cosine => \A i \in DOMAIN nodes : nodes[i].sum # 0
              /\ report.status = "succeeded" => \A i \in Internal, j \in DOMAIN nodes :
                    j \in ToSet(nodes[i].children) /\ TooFlat(i, j) => nodes[j].kind = "leaf"
=============================================================================
