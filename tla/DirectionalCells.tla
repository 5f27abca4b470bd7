-------------------------- MODULE DirectionalCells --------------------------
(* The cell plan of lexongraph-directional-pca: a partition is cut into cells *)
(* along its principal axes; when fewer cells are populated than clusters are *)
(* asked for, cells whose members coincide are refined, the last extra of     *)
(* their members becoming clusters of their own in replay order.              *)
(* A plan is a sequence of cells, each a record of its count and its extra    *)
(* clusters, in the order of the cell keys.                                   *)
EXTENDS Naturals, Sequences, SequencesExt

\* What is still missing after the first i cells, when shortfall clusters are
\* missing in all: cell j gives all its members but one if they coincide.
Shortfall(count, same, shortfall) ==
    LET Left[i \in 0 .. Len(count)] ==
            IF i = 0 THEN shortfall
            ELSE IF same[i] /\ count[i] > 1
                 THEN IF Left[i - 1] <= count[i] - 1 THEN 0 ELSE Left[i - 1] - (count[i] - 1)
                 ELSE Left[i - 1]
    IN  Left

\* build_ready_partition_plan: cells i = 1, 2, .. with count[i] members, which
\* coincide if same[i], for `requested` clusters.
ReadyPlan(count, same, requested) ==
    LET missing == IF requested > Len(count) THEN requested - Len(count) ELSE 0
        left    == Shortfall(count, same, missing)
    IN  [i \in DOMAIN count |-> [count |-> count[i], extra |-> left[i - 1] - left[i]]]

\* Clusters the first i cells of the plan take; cluster ids count from 1.
Offset(plan, i) ==
    LET Taken[j \in 0 .. Len(plan)] == IF j = 0 THEN 0 ELSE Taken[j - 1] + 1 + plan[j].extra
    IN  Taken[i]

Realized(plan) == Offset(plan, Len(plan))

\* In Exact mode a plan that still falls short is refused.
PlanRefused(plan, requested, exact) == exact /\ Realized(plan) < requested

\* replay_order_child_counts: the items of every cluster.
ChildCounts(plan) ==
    FoldLeft(LAMBDA s, cell : s \o <<cell.count - cell.extra>> \o [k \in 1 .. cell.extra |-> 1],
             <<>>, plan)

\* The cluster of the member of cell i that comes after `seen` others, as the
\* realization pass computes it: without a look at the cell's count.
ClusterAt(plan, i, seen) ==
    LET base == plan[i].count - plan[i].extra
    IN  Offset(plan, i - 1) + 1 + IF seen < base THEN 0 ELSE 1 + seen - base

\* replay_assign: the same, but 0 (an error) for a cell that is not in the plan
\* or has given out all its members.
ReplayCluster(plan, i, seen) ==
    IF i \in DOMAIN plan /\ seen < plan[i].count THEN ClusterAt(plan, i, seen) ELSE 0
=============================================================================
