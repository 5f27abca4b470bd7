--------------------------- MODULE CapacitySolver ---------------------------
(* The assignment of points to clusters with bounds on their sizes             *)
(* (lexongraph-dcbc-streaming, solver.rs): a min-cost flow from the points     *)
(* through the clusters, in which the places a cluster must fill are free and  *)
(* those it may fill carry a penalty, gives the optimal cost; then the points  *)
(* are fixed one after the other to the first cluster that keeps that cost.    *)
(* Points are 1 .. n, clusters 1 .. k; cost[p][c] is an integer distance.  A   *)
(* flow is a function from the points to their clusters, 0 for those without.  *)
EXTENDS Integers, Sequences, FiniteSets, SequencesExt, FiniteSetsExt

CONSTANT OptionalCapacityPenalty

Infeasible == 0 - 1

SizeOf(flow, c) == Cardinality({p \in DOMAIN flow : flow[p] = c})

\* A path of the residual graph from the source to the sink: a point without a
\* cluster enters one, and every further point leaves the cluster just entered
\* for another.
Chains(flow, open, k) ==
    {s \in UNION {[1 .. m -> open \X (1 .. k)] : m \in 1 .. k} :
        /\ flow[s[1][1]] = 0
        /\ \A i \in 2 .. Len(s) : flow[s[i][1]] = s[i - 1][2]
        /\ \A i, j \in DOMAIN s : s[i][2] = s[j][2] => i = j}

\* A cost that does not prefer the places a cluster must fill.
UnpenalizedCost(cost, flow, s, low) ==
    MapThenSumSet(LAMBDA i : cost[s[i][1]][s[i][2]] - IF i = 1 THEN 0 ELSE cost[s[i][1]][s[i - 1][2]], DOMAIN s)

\* Its cost, with the edge by which the last cluster is left for the sink.
ChainCost(cost, flow, s, low) ==
    LET Step(i) == cost[s[i][1]][s[i][2]] - IF i = 1 THEN 0 ELSE cost[s[i][1]][s[i - 1][2]]
    IN  MapThenSumSet(Step, DOMAIN s)
            + IF SizeOf(flow, s[Len(s)][2]) < low THEN 0 ELSE OptionalCapacityPenalty

\* send_flow: one unit at a time along a cheapest path.
Augmented(flow, s) == [p \in DOMAIN flow |-> IF \E i \in DOMAIN s : s[i][1] = p
                                             THEN s[CHOOSE i \in DOMAIN s : s[i][1] = p][2] ELSE flow[p]]

SendFlow(cost, fixed, open, k, low, high) ==
    LET Send[n \in 0 .. Cardinality(open)] ==
            IF n = 0 THEN fixed
            ELSE LET flow  == Send[n - 1]
                     paths == {s \in Chains(flow, open, k) : SizeOf(flow, s[Len(s)][2]) < high}
                 IN  IF paths = {} THEN flow
                     ELSE Augmented(flow, CHOOSE s \in paths : \A r \in paths :
                                            ChainCost(cost, flow, s, low) <= ChainCost(cost, flow, r, low))
    IN  Send[Cardinality(open)]

CostOf(cost, flow) == MapThenSumSet(LAMBDA p : cost[p][flow[p]], DOMAIN flow)

\* solve_subproblem: `fixed` is the flow of the points already decided.  The
\* true cost of the completed flow.
Remaining(bound, size) == IF bound > size THEN bound - size ELSE 0

Subproblem(cost, k, low, high, fixed) ==
    LET open      == {p \in DOMAIN fixed : fixed[p] = 0}
        required  == MapThenSumSet(LAMBDA c : Remaining(low, SizeOf(fixed, c)), 1 .. k)
        available == MapThenSumSet(LAMBDA c : Remaining(high, SizeOf(fixed, c)), 1 .. k)
        flow      == SendFlow(cost, fixed, open, k, low, high)
    IN  IF \/ \E c \in 1 .. k : SizeOf(fixed, c) > high
           \/ Cardinality(open) \notin required .. available
           \/ \E p \in DOMAIN flow : flow[p] = 0
        THEN Infeasible ELSE CostOf(cost, flow)

\* solve_lexicographic_assignment; <<>> is an error.
LexicographicAssignment(cost, n, k, low, high) ==
    LET optimum == Subproblem(cost, k, low, high, [p \in 1 .. n |-> 0])
        Fixed[p \in 0 .. n] ==
            IF p = 0 THEN [q \in 1 .. n |-> 0]
            ELSE LET before == Fixed[p - 1]
                     keeps  == {c \in 1 .. k : Subproblem(cost, k, low, high, [before EXCEPT ![p] = c]) = optimum}
                 IN  IF before = <<>> \/ keeps = {} THEN <<>> ELSE [before EXCEPT ![p] = Min(keeps)]
    IN  IF optimum = Infeasible THEN <<>> ELSE Fixed[n]

\* The reference: the first in order of the cheapest assignments within bounds.
Assignments(n, k, low, high) ==
    {a \in [1 .. n -> 1 .. k] : \A c \in 1 .. k : SizeOf(a, c) \in low .. high}

Earlier(a, b) == \E p \in DOMAIN a : a[p] < b[p] /\ \A q \in 1 .. p - 1 : a[q] = b[q]

OptimalAssignment(cost, n, k, low, high) ==
    LET all  == Assignments(n, k, low, high)
        best == {a \in all : \A b \in all : CostOf(cost, a) <= CostOf(cost, b)}
    IN  IF all = {} THEN <<>> ELSE CHOOSE a \in best : \A b \in best : a = b \/ Earlier(a, b)
=============================================================================
