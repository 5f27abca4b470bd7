-------------------------- MODULE HierarchyPlanning -------------------------
(* The planning policies of lexongraph-streaming-indexer: how the assignments  *)
(* of the clustering trainers become a partition hierarchy.                    *)
(*   "divisive"       a partition is clustered and split, down to partitions   *)
(*                    that one branch can hold;                                *)
(*   "agglomerative"  a layer of units, at first the items, is clustered and   *)
(*                    merged, up to one;                                       *)
(*   "profile"        the published profile: terminal partitions from one      *)
(*                    clustering, then layers packed around seed units.        *)
(* The path of a partition is its id: <<0>> is p0, <<0, 1>> is p0.1.           *)
EXTENDS Integers, FiniteSets, Sequences, SequencesExt

CONSTANT
    Jobs            \* plannings: direction, items, bound and settings

VARIABLES
    job,            \* the planning
    at,             \* where it is: next, run, done or failed
    todo,           \* divisive: the partitions to visit, in order
    parts,          \* partitions
    telemetry,      \* RecursivePlanningTelemetry
    nodes,          \* the units made so far
    layer           \* current_layer, indices of nodes

vars == <<job, at, todo, parts, telemetry, nodes, layer>>

Least(S) == CHOOSE i \in S : \A j \in S : i <= j
Lesser(a, b) == IF a < b THEN a ELSE b
Greater(a, b) == IF a < b THEN b ELSE a
Sorted(S) == [i \in 1 .. Cardinality(S) |-> CHOOSE x \in S : Cardinality({y \in S : y < x}) = i - 1]
N == Len(job.values)

-----------------------------------------------------------------------------
(* Groups: sequences of sets of positions.                                     *)

\* n positions in count runs, their sizes one apart at most.
Runs(n, count) ==
    LET size(g) == n \div count + IF g <= n % count THEN 1 ELSE 0
        from(g) == (g - 1) * (n \div count) + Lesser(g - 1, n % count)
    IN  [g \in 1 .. count |-> from(g) + 1 .. from(g) + size(g)]

\* balanced_groups; <<>> is its error.
BalancedRuns(n, bound) ==
    LET count == (n + bound - 1) \div bound IN
    IF n <= bound THEN Runs(n, 1)
    ELSE IF count > n \div 2 THEN <<>> ELSE Runs(n, count)

\* FallbackGroups below without its cap.
UncappedFallback(n, bound, capped) == BalancedRuns(n, bound)

\* fallback_partition_groups: no more groups than the cap, which is the bound
\* of the profiles that have one; larger groups are split again.
FallbackGroups(n, bound, capped) ==
    LET groups == BalancedRuns(n, bound) IN
    IF ~capped \/ Len(groups) <= bound THEN groups
    ELSE IF bound < 2 THEN <<>> ELSE Runs(n, Lesser(bound, n))

\* assignments_to_groups, by cluster id.
AssignmentGroups(a, clusters) ==
    SelectSeq([c \in 1 .. clusters |-> {i \in DOMAIN a : a[i] = c}], LAMBDA g : g # {})

\* MinTwo below that leaves single items where they are.
KeepSingles(groups) == groups

\* ensure_min_two_per_group: single items join the last of the largest groups.
MinTwo(groups) ==
    LET whole   == SelectSeq(groups, LAMBDA g : Cardinality(g) >= 2)
        singles == UNION {g \in Range(groups) : Cardinality(g) = 1}
        target  == CHOOSE t \in DOMAIN whole : \A g \in DOMAIN whole :
                      IF g > t THEN Cardinality(whole[g]) < Cardinality(whole[t])
                               ELSE Cardinality(whole[g]) <= Cardinality(whole[t])
    IN  IF singles = {} THEN whole
        ELSE IF whole = <<>> THEN <<singles>>
        ELSE [whole EXCEPT ![target] = @ \cup singles]

\* The groups of an assignment, in the order of their first positions.
Grouped(a, clusters) ==
    SortSeq(MinTwo(AssignmentGroups(a, clusters)), LAMBDA g, h : Least(g) < Least(h))

-----------------------------------------------------------------------------
(* Settings.                                                                   *)

\* effective_cluster_count of n units under the bound, and for an allocation by
\* eigenvalues the power of two below it.
EffectiveClusters(requested, n, bound) ==
    IF n <= 1 THEN 1
    ELSE Greater(2, Lesser(Lesser(Greater(2, requested), Greater(2, bound)), Greater(1, n \div 2)))

PowerBelow(k) == CHOOSE p \in {2 ^ e : e \in 0 .. k} : p <= k /\ k < 2 * p

Clusters(algorithm, n, bound) ==
    LET k == EffectiveClusters(job.requested, n, bound) IN
    IF algorithm = "pca" /\ job.eigenvalues THEN Greater(2, PowerBelow(k)) ELSE k

\* What derive_hierarchy_from_built_in requires of a hybrid: a fine phase for two
\* items or more, and phases of one direction.
ValidSettings == job.fine # 1 /\ ~job.mixed

\* published_profile_partition_bound.
PartitionBound == IF job.capped THEN Lesser(job.bound, job.requested) ELSE job.bound

\* The stage and the algorithms of a planner for units of at most `items` items:
\* a hybrid has one of its two phases, an adaptive policy whatever its selector
\* says, the others their own.
Stage(items) ==
    IF job.fine = 0 THEN "Single" ELSE IF items <= job.fine THEN "Fine" ELSE "Coarse"

Algorithms(items) ==
    CASE Stage(items) = "Fine"   -> {job.algorithms[1]}
      [] Stage(items) = "Coarse" -> {job.algorithms[2]}
      [] OTHER -> Range(job.algorithms)

-----------------------------------------------------------------------------
(* Units of an agglomerative hierarchy.                                        *)

\* A unit; its representative is the mean of its items' embeddings, which the
\* unit that it is merged into takes (agglomerative).
Unit(kids, items, stage) == [kids |-> kids, items |-> items, stage |-> stage, taken |-> FALSE]

Total(items) == FoldLeft(LAMBDA sum, i : sum + job.values[i], 0, Sorted(items))
Size(u) == Cardinality(nodes[u].items)
Sum(u) == Total(nodes[u].items)

\* compare_profile_node_order.
Before(u, v) ==
    \/ Sum(u) * Size(v) < Sum(v) * Size(u)
    \/ Sum(u) * Size(v) = Sum(v) * Size(u) /\ Least(nodes[u].items) < Least(nodes[v].items)

Distance(u, v) ==
    LET gap == Sum(u) * Size(v) - Sum(v) * Size(u) IN IF gap < 0 THEN 0 - gap ELSE gap

\* best_profile_group_extension: u comes before v as a companion of the seed.
Nearer(seed, u, v) ==
    \/ Distance(seed, u) * Size(v) < Distance(seed, v) * Size(u)
    \/ Distance(seed, u) * Size(v) = Distance(seed, v) * Size(u) /\ Before(u, v)

\* greedy_pack_node_groups: the first unit left and those nearest to it, until
\* every group has its size; <<>> when the layer cannot be split.
TakeGroup(packed, size) ==
    LET seed == Head(packed.left)
        near == SortSeq(Tail(packed.left), LAMBDA u, v : Nearer(seed, u, v))
        group == <<seed>> \o SubSeq(near, 1, size - 1)
    IN  [groups |-> Append(packed.groups, group),
         left   |-> SelectSeq(packed.left, LAMBDA u : u \notin Range(group))]

GreedyGroups(bound) ==
    LET runs == BalancedRuns(Len(layer), bound) IN
    FoldLeft(TakeGroup, [groups |-> <<>>, left |-> SortSeq(layer, Before)],
             [g \in DOMAIN runs |-> Cardinality(runs[g])]).groups

\* The next layer: one unit for every group of units.
Merged(before, groups, stage) ==
    before \o [g \in DOMAIN groups |->
                  Unit(groups[g], UNION {before[u].items : u \in Range(groups[g])}, stage)]

\* build_agglomerative_partitions from the unit at the top.
NodeAt(path) == FoldLeft(LAMBDA u, c : nodes[u].kids[c + 1], layer[1], Tail(path))

Paths ==
    LET Down[d \in Nat] ==
            IF d = 0 THEN {<<0>>}
            ELSE UNION {{Append(p, c - 1) : c \in DOMAIN nodes[NodeAt(p)].kids} : p \in Down[d - 1]}
    IN  UNION {Down[d] : d \in 0 .. N}

Partition(up, kids, items, stage) ==
    [parent |-> up, children |-> kids, items |-> items, terminal |-> kids = <<>>, stage |-> stage]

ChildIds(path, count) == [c \in 1 .. count |-> Append(path, c - 1)]

PartitionsOfUnits ==
    [p \in Paths |->
        LET unit == nodes[NodeAt(p)] IN
        Partition(Front(p), ChildIds(p, Len(unit.kids)), unit.items, unit.stage)]

-----------------------------------------------------------------------------
(* The planning.                                                               *)

At(step) == [step |-> step, why |-> "", stage |-> "Single", clusters |-> 0, passes |-> 0]
Failed(why) == [At("failed") EXCEPT !.why = why]
Visit(path, items, stage) == [path |-> path, items |-> items, stage |-> stage]

Init ==
    /\ job \in Jobs
    /\ at = IF ValidSettings THEN At("next") ELSE Failed("settings")
    /\ todo = IF job.way = "divisive" THEN <<Visit(<<0>>, 1 .. N, "Single")>> ELSE <<>>
    /\ parts = <<>>
    /\ telemetry = [started |-> 0, completed |-> 0, finalized |-> 0, terminal |-> 0,
                    planners |-> 0, planned |-> 0, fallbacks |-> 0]
    /\ nodes = IF job.way = "agglomerative" THEN [i \in 1 .. N |-> Unit(<<>>, {i}, "Single")] ELSE <<>>
    /\ layer = IF job.way = "agglomerative" THEN [i \in 1 .. N |-> i] ELSE <<>>

Small(items) == Cardinality(items) <= PartitionBound \/ Cardinality(items) <= 1

\* How many embeddings the next planner gets, and the items of its largest unit.
PlannerLength ==
    CASE job.way = "divisive" -> Cardinality(Head(todo).items)
      [] job.way = "agglomerative" -> Len(layer)
      [] OTHER -> N
LargestUnit ==
    CASE job.way = "agglomerative" -> Cardinality(nodes[Last(SortSeq(layer, LAMBDA u, v : Size(u) < Size(v)))].items)
      [] OTHER -> PlannerLength

\* derive_partition_recursive at a partition that one branch holds.
VisitTerminal ==
    /\ job.way = "divisive" /\ at.step = "next" /\ todo # <<>>
    /\ Small(Head(todo).items)
    /\ LET p == Head(todo) IN
       parts' = (p.path :> Partition(Front(p.path), <<>>, p.items, p.stage)) @@ parts
    /\ telemetry' = [telemetry EXCEPT !.started = @ + 1, !.completed = @ + 1,
                                      !.finalized = @ + 1, !.terminal = @ + 1]
    /\ todo' = Tail(todo)
    /\ UNCHANGED <<job, at, nodes, layer>>

\* There is something to cluster.
Plannable ==
    /\ at.step = "next"
    /\ CASE job.way = "divisive" -> todo # <<>> /\ ~Small(Head(todo).items)
         [] job.way = "agglomerative" -> Len(layer) > 1
         [] OTHER -> nodes = <<>> /\ N > PartitionBound

\* The planner builder makes a trainer.
StartPlanner(algorithm) ==
    /\ Plannable
    /\ algorithm \in Algorithms(LargestUnit)
    /\ at' = [At("run") EXCEPT
                !.stage = IF job.way = "profile" THEN "Fine" ELSE Stage(LargestUnit),
                !.clusters = Clusters(algorithm, PlannerLength, PartitionBound)]
    /\ telemetry' = IF job.way # "divisive" THEN telemetry
                    ELSE [telemetry EXCEPT !.started = @ + 1, !.planners = @ + 1]
    /\ UNCHANGED <<job, todo, parts, nodes, layer>>

\* It does not: a setting is refused, or the adaptive selection fails.
BuilderFails ==
    /\ Plannable
    /\ at' = Failed("settings")
    /\ telemetry' = IF job.way # "divisive" THEN telemetry
                    ELSE [telemetry EXCEPT !.started = @ + 1]
    /\ UNCHANGED <<job, todo, parts, nodes, layer>>

\* fail_unit, after so many fallbacks.
FailUnit(why, fallbacks) ==
    /\ at' = Failed(why)
    /\ telemetry' = IF job.way # "divisive" THEN telemetry
                    ELSE [telemetry EXCEPT !.completed = @ + 1, !.planned = @ + 1,
                                           !.fallbacks = @ + fallbacks]
    /\ UNCHANGED <<job, todo, parts, nodes, layer>>

\* A pass of PartitionPlanner::run over the embeddings that leaves the trainer
\* not ready, or ready but refusing to complete.  The published profile has one
\* pass only.
PassLimit == IF job.way = "profile" THEN 1 ELSE PlannerLength + 4

ReplayPass ==
    /\ at.step = "run" /\ at.passes < PassLimit
    /\ at' = [at EXCEPT !.passes = @ + 1]
    /\ UNCHANGED <<job, todo, parts, telemetry, nodes, layer>>

\* It fails: the passes are used up, the trainer fails, or it gives too few
\* cluster ids.
PlannerFails ==
    /\ at.step = "run"
    /\ FailUnit("planner", 0)

\* The assignments that it may give.  job.moved bounds the items that are not in
\* the first cluster.
Assignments ==
    {a \in [1 .. PlannerLength -> 1 .. at.clusters] :
        Cardinality({i \in DOMAIN a : a[i] # 1}) <= job.moved}

\* A partition is split into the groups of the assignment, or evenly when that
\* is only one.
SplitGroups(a) ==
    LET groups == Grouped(a, at.clusters) IN
    IF Len(groups) > 1 THEN groups
    ELSE FallbackGroups(PlannerLength, PartitionBound, job.capped)

SplitPartition(a, groups) ==
    /\ job.way = "divisive" /\ at.step = "run"
    /\ groups # <<>>
    /\ LET p     == Head(todo)
           order == Sorted(p.items)
           ids   == ChildIds(p.path, Len(groups))
       IN  /\ parts' = (p.path :> Partition(Front(p.path), ids, p.items, at.stage)) @@ parts
           /\ todo' = [g \in DOMAIN groups |-> Visit(ids[g], {order[i] : i \in groups[g]}, at.stage)]
                      \o Tail(todo)
    /\ telemetry' = [telemetry EXCEPT
                        !.finalized = @ + 1, !.completed = @ + 1, !.planned = @ + 1,
                        !.fallbacks = @ + IF Len(Grouped(a, at.clusters)) <= 1 THEN 1 ELSE 0]
    /\ at' = At("next")
    /\ UNCHANGED <<job, nodes, layer>>

\* Units are merged as assigned, or evenly when that is one group or no fewer
\* groups than units.
MergeGroups(a) ==
    LET groups == Grouped(a, at.clusters) IN
    IF Len(groups) > 1 /\ Len(groups) < Len(layer) THEN groups
    ELSE BalancedRuns(Len(layer), PartitionBound)

MergeUnits(a, groups) ==
    /\ job.way = "agglomerative" /\ at.step = "run"
    /\ groups # <<>>
    /\ \A u \in Range(layer) : ~nodes[u].taken
    /\ LET used  == [u \in DOMAIN nodes |-> [nodes[u] EXCEPT !.taken = @ \/ u \in Range(layer)]]
           units == [g \in DOMAIN groups |-> [i \in 1 .. Cardinality(groups[g]) |-> layer[Sorted(groups[g])[i]]]]
       IN  nodes' = Merged(used, units, at.stage)
    /\ layer' = [g \in DOMAIN groups |-> Len(nodes) + g]
    /\ at' = At("next")
    /\ UNCHANGED <<job, todo, parts, telemetry>>

\* build_profile_terminal_groups: the items in the order of their groups, cut
\* into even runs.
TerminalGroups(a) ==
    LET order == FlattenSeq([g \in DOMAIN Grouped(a, at.clusters) |-> Sorted(Grouped(a, at.clusters)[g])])
        runs  == BalancedRuns(N, PartitionBound)
    IN  [r \in DOMAIN runs |-> {order[i] : i \in runs[r]}]

MakeTerminals(groups) ==
    /\ job.way = "profile" /\ at.step = "run"
    /\ groups # <<>>
    /\ nodes' = [g \in DOMAIN groups |-> Unit(<<>>, groups[g], at.stage)]
    /\ layer' = [g \in DOMAIN groups |-> g]
    /\ at' = At("next")
    /\ UNCHANGED <<job, todo, parts, telemetry>>

\* The groups cannot be made.
CannotSplit(groups) ==
    /\ at.step = "run"
    /\ groups = <<>>
    /\ FailUnit("split", 1)

Groups(a) ==
    CASE job.way = "divisive" -> SplitGroups(a)
      [] job.way = "agglomerative" -> MergeGroups(a)
      [] OTHER -> TerminalGroups(a)

RunPlanner ==
    /\ at.step = "run" /\ at.passes < PassLimit
    /\ \E a \in Assignments : \E groups \in {Groups(a)} :
        \/ SplitPartition(a, groups)
        \/ MergeUnits(a, groups)
        \/ MakeTerminals(groups)
        \/ CannotSplit(groups)

\* The published profile packs a layer of units.
PackLayer ==
    /\ job.way = "profile" /\ at.step = "next" /\ Len(layer) > 1
    /\ \E groups \in {GreedyGroups(PartitionBound)} :
          IF groups = <<>>
          THEN at' = Failed("split") /\ UNCHANGED <<nodes, layer>>
          ELSE /\ nodes' = Merged(nodes, groups, "Coarse")
               /\ layer' = [g \in DOMAIN groups |-> Len(nodes) + g]
               /\ UNCHANGED at
    /\ UNCHANGED <<job, todo, parts, telemetry>>

\* The hierarchy is complete.
Complete ==
    /\ at.step = "next"
    /\ CASE job.way = "divisive" -> todo = <<>> /\ UNCHANGED parts
         [] job.way = "profile" /\ N <= PartitionBound ->
                parts' = (<<0>> :> Partition(<<>>, <<>>, 1 .. N, "Single"))
         [] OTHER -> Len(layer) = 1 /\ parts' = PartitionsOfUnits
    /\ at' = At("done")
    /\ UNCHANGED <<job, todo, telemetry, nodes, layer>>

Next ==
    \/ VisitTerminal
    \/ \E algorithm \in Range(job.algorithms) : StartPlanner(algorithm)
    \/ BuilderFails \/ ReplayPass \/ PlannerFails \/ RunPlanner
    \/ PackLayer \/ Complete

Spec == Init /\ [][Next]_vars

-----------------------------------------------------------------------------

\* Every planning ends: no more partitions and units than a tree over the items
\* can have in which each inner one has two children or more.  And it fails on
\* its own account only under a bound of two, where a layer of odd length may
\* have no even split; a unit is never merged twice.
PlanningEnds ==
    /\ Cardinality(DOMAIN parts) + Len(todo) <= 2 * N - 1
    /\ Len(nodes) <= 2 * N - 1
    /\ at.why = "split" => PartitionBound = 2
    /\ job.way = "agglomerative" => \A u \in Range(layer) : ~nodes[u].taken

\* The derived hierarchy: every inner partition has at least two children, and
\* under a capped profile no more than the bound; every terminal one fits into
\* a branch; the counts reported for it are those of the hierarchy, and what was
\* started is completed whenever no planner runs.
DerivedSound ==
    /\ at.step \in {"next", "done"} =>
        /\ telemetry.completed = telemetry.started
        /\ telemetry.planned = telemetry.planners
        /\ telemetry.fallbacks <= telemetry.planned
    /\ at.step = "done" =>
        LET inner == {p \in DOMAIN parts : ~parts[p].terminal} IN
        /\ \A p \in inner : Len(parts[p].children) >= 2
        /\ job.capped => \A p \in inner : Len(parts[p].children) <= PartitionBound
        /\ \A p \in DOMAIN parts \ inner : Cardinality(parts[p].items) <= PartitionBound
        /\ job.way = "divisive" =>
              /\ telemetry.started = Cardinality(DOMAIN parts)
              /\ telemetry.finalized = telemetry.started
              /\ telemetry.terminal = Cardinality(DOMAIN parts \ inner)
              /\ telemetry.planners = Cardinality(inner)
=============================================================================
