----------------------------- MODULE MCIndexers -----------------------------
(* TLC instance for the first and the third surface of                          *)
(* lexongraph-streaming-indexer: the two runs, and the three concurrent         *)
(* mechanisms that the third relies on, each on its own.                        *)
(* `part` is the one a behaviour is about; its variables are the slots v1, v2,  *)
(* ... in the order of its module, and the slots it does not need stay 0.       *)
EXTENDS IndexTree, TLC

CONSTANTS x1, x2, x3, x4, Requested, RankZeroFallback, ReadBatch, Batches, Lookahead, Beats

VARIABLES part, v1, v2, v3, v4, v5, v6, v7, v8, v9, v10
slots == <<part, v1, v2, v3, v4, v5, v6, v7, v8, v9, v10>>

\* Two batches with a repeated item and two failures, three items and one
\* failure, four items and none.
Streams ==
    {[batches |-> <<<<x1>>, <<x2, x1>>>>, faults |-> 2],
     [batches |-> <<<<x1, x2>>, <<x3>>>>, faults |-> 1],
     [batches |-> <<<<x1, x2>>, <<x3, x2>>>>, faults |-> 0]}

\* Partition hierarchies that a planning policy may return.
Terminal(up, at) == [parent |-> up, children |-> <<>>, items |-> at, terminal |-> TRUE]
Inner(up, kids, at) == [parent |-> up, children |-> kids, items |-> at, terminal |-> FALSE]

\* One partition, two terminal partitions split after k, and a nested one.
R == <<0>>
X == <<0, 0>>
Y == <<0, 1>>
Flat(n) == [root |-> R, parts |-> (R :> Terminal(<<>>, 1 .. n))]
Split(n, k) ==
    [root |-> R,
     parts |-> (R :> Inner(<<>>, <<X, Y>>, 1 .. n)
             @@ X :> Terminal(R, 1 .. k)
             @@ Y :> Terminal(R, k + 1 .. n))]
Nested ==
    [root |-> R,
     parts |-> (R :> Inner(<<>>, <<X, Y>>, 1 .. 4)
             @@ X :> Terminal(R, {2})
             @@ Y :> Inner(R, <<<<0, 1, 0>>, <<0, 1, 1>>>>, {1, 3, 4})
             @@ <<0, 1, 0>> :> Terminal(Y, {1, 3})
             @@ <<0, 1, 1>> :> Terminal(Y, {4}))]
\* Outcomes to refuse: an item in two partitions, and a partition out of reach.
Overlapping ==
    [root |-> R,
     parts |-> (R :> Inner(<<>>, <<X, Y>>, 1 .. 2)
             @@ X :> Terminal(R, 1 .. 2)
             @@ Y :> Terminal(R, {2}))]
Detached ==
    [root |-> R,
     parts |-> (R :> Terminal(<<>>, 1 .. 2) @@ X :> Terminal(<<>>, {2}))]

Planned == {Flat(1), Flat(2), Flat(3), Flat(4), Split(3, 1), Split(4, 2), Nested, Overlapping, Detached}

S == INSTANCE StreamingIndexer WITH
        Items <- {x1, x2, x3, x4}, Hierarchies <- Planned, MaxBatch <- 2, MaxItems <- 4, MaxPasses <- 2,
        phase <- v1, passes <- v2, baseline <- v3, hierarchy <- v4, current <- v5,
        buffered <- v6, seen <- v7, answer <- v8, fin <- v9, store <- v10

V == INSTANCE StreamingIndexerV3 WITH
        batches <- v1, acked <- v2, phase <- v3, cancelled <- v4, ingested <- v5, db <- v6,
        fin <- v7, out <- v8, result <- v9, faults <- v10

P == INSTANCE PreparedPipeline WITH
        producer <- v1, made <- v2, channel <- v3, consumer <- v4, consumed <- v5,
        receiver <- v6, cancelled <- v7, returned <- v8

W == INSTANCE WaveStatus WITH
        Sizes <- <<2, 3, 1, 4>>,
        completed <- v1, committed <- v2, ended <- v3, beat <- v4, beats <- v5,
        closing <- v6, outcome <- v7, seen <- v8

\* A planner's events; the count -1 is an event without one.
Event(stage, state, count) == [stage |-> stage, state |-> state, count |-> count, items |-> 2]
TwoStages ==
    {<<Event("Coarse", "Started", 0 - 1), Event("Coarse", "InProgress", 0 - 1), Event("Coarse", "InProgress", 3),
       Event("Coarse", "Completed", 3), Event("Fine", "InProgress", 0 - 1), Event("Fine", "Completed", 0 - 1)>>}

T == INSTANCE PlanningStatus WITH
        Plannings <- TwoStages,
        todo <- v1, stages <- v2, work <- v3, snapshot <- v4, generation <- v5,
        stop <- v6, beat <- v7, beats <- v8, seen <- v9

ASSUME IndexersAssumption ==
    P!PipelineAssumption /\ T!TrackerAssumption /\ W!WaveAssumption /\ V!V3Assumption

\* Plannings of one item and of as many as the bounds make interesting: divisive
\* ones, single and hybrid, whose planner moves any item, and one under a capped
\* profile whose planner finds almost no clusters; agglomerative ones; published
\* profiles over embeddings with ties.
Job(way, values, bound, requested) ==
    [way |-> way, values |-> values, bound |-> bound, requested |-> requested, capped |-> FALSE,
     fine |-> 0, mixed |-> FALSE, algorithms |-> <<"kmeans">>, eigenvalues |-> FALSE, moved |-> 9]
Plannings ==
    {Job("divisive", <<1>>, 2, 2), Job("divisive", <<1, 2, 3, 4, 5>>, 2, 2),
     [Job("divisive", <<1, 2, 3, 4, 5, 6>>, 3, 3) EXCEPT !.algorithms = <<"pca", "dcbc">>, !.eigenvalues = TRUE],
     [Job("divisive", <<1, 2, 3, 4, 5, 6, 7, 8>>, 3, 2) EXCEPT !.capped = TRUE, !.moved = 1],
     [Job("divisive", <<1, 2, 3, 4, 5, 6>>, 2, 3) EXCEPT !.algorithms = <<"pca", "dcbc">>, !.fine = 4],
     [Job("divisive", <<1, 2>>, 2, 3) EXCEPT !.fine = 1],
     [Job("agglomerative", <<1, 2, 3>>, 2, 3) EXCEPT !.fine = 2, !.mixed = TRUE],
     Job("agglomerative", <<1, 2, 3, 4, 5>>, 2, 2),
     [Job("agglomerative", <<1, 2, 3, 4, 5, 6>>, 3, 3) EXCEPT !.algorithms = <<"pca", "dcbc">>, !.fine = 2],
     Job("profile", <<1, 2>>, 2, 2), Job("profile", <<4, 1, 4, 2, 2, 8>>, 2, 2),
     Job("profile", <<1, 4, 4, 2, 2, 9, 9, 9>>, 2, 2), Job("profile", <<5, 1, 1, 6, 2, 3, 5>>, 3, 3)}

H == INSTANCE HierarchyPlanning WITH
        Jobs <- Plannings,
        job <- v1, at <- v2, todo <- v3, parts <- v4, telemetry <- v5, nodes <- v6, layer <- v7

\* Branches to write: two entries on a grid under every width up to five and at
\* every place, four entries of one dimension, all weights of three dimensions
\* under small budgets, weights under which a dimension reaches its limit, and
\* budgets and encodings to refuse.  Weights descend, as the variances that PCA
\* explains do, and rotated vectors are uncorrelated, constant in the dimensions
\* without weight; their scale in a dimension does not matter to its codes.
Task(policy, bits, vectors, weights) ==
    [policy |-> policy, budgets |-> [root |-> bits, interior |-> bits, lowest |-> bits], root |-> FALSE,
     level |-> 2, logical |-> "f32le", vectors |-> vectors, weights |-> weights]
Weights(choices) == {w \in [1 .. 3 -> choices] : w[1] >= w[2] /\ w[2] >= w[3]}
Four(entries, w) == [e \in 1 .. 4 |-> [i \in 1 .. 3 |-> IF w[i] = 0 THEN 0 ELSE entries[e][i]]]
Spread == <<<<3, 1, 1>>, <<1, 0 - 1, 0 - 3>>, <<0 - 1, 0 - 1, 3>>, <<0 - 3, 1, 0 - 1>>>>
Corners == <<<<1, 1, 1>>, <<1, 0, 0>>, <<0, 1, 0>>, <<0, 0, 1>>>>
Grid == (0 - 2 .. 1) \X (0 - 1 .. 2)
Authoring ==
    {Task("ambient-delta-uq", bits, <<v, w>>, <<0, 0>>) : bits \in 0 .. 5, v \in Grid, w \in Grid}
    \cup {Task("pca-rot-delta-uq", bits, <<<<a>>, <<b>>, <<c>>, <<4>>>>, <<0>>) :
            bits \in 2 .. 4, a \in 0 .. 4, b \in 0 .. 4, c \in 0 .. 4}
    \cup {[Task("ambient-delta-uq", 0, <<<<1, 0>>, <<0, 3>>>>, <<0, 0>>) EXCEPT
              !.budgets = [root |-> 12, interior |-> 8, lowest |-> 6], !.root = root, !.level = level] :
            root \in BOOLEAN, level \in 1 .. 3}
    \cup {Task("pca-rot-delta-vbq", bits, Four(Spread, w), w) : bits \in 0 .. 4, w \in Weights(0 .. 3)}
    \cup {Task("pca-rot-delta-vbq", bits, Four(Corners, w), w) :
            bits \in {12, 20, 30, 31, 32}, w \in Weights({0, 1, 9})}
    \cup {[Task(policy, 4, <<<<1, 2>>, <<3, 2>>>>, <<1, 0>>) EXCEPT !.logical = l] :
            policy \in {"ordinary", "pca-rot-f32le", "pca-rot-delta-f32le", "pca-rot-delta-vbq"}, l \in {"f32le", "i8"}}

A == INSTANCE BranchAuthoring WITH
        Tasks <- Authoring, task <- v1, at <- v2, widths <- v3, left <- v4, codes <- v5, written <- v6

Init ==
    \/ part = "authoring" /\ A!Init /\ v7 = 0 /\ v8 = 0 /\ v9 = 0 /\ v10 = 0
    \/ part = "planning" /\ H!Init /\ v8 = 0 /\ v9 = 0 /\ v10 = 0
    \/ part = "first"    /\ S!Init
    \/ part = "run"      /\ V!Init
    \/ part = "pipeline" /\ P!Init /\ v9 = 0 /\ v10 = 0
    \/ part = "wave"     /\ W!Init /\ v9 = 0 /\ v10 = 0
    \/ part = "tracker"  /\ T!Init /\ v10 = 0

Planning == part = "planning" /\ H!Next /\ UNCHANGED <<part, v8, v9, v10>>
Authors  == part = "authoring" /\ A!Next /\ UNCHANGED <<part, v7, v8, v9, v10>>
First    == part = "first"    /\ S!Next /\ UNCHANGED part
Run      == part = "run"      /\ V!Next /\ UNCHANGED part
Pipeline == part = "pipeline" /\ P!Next /\ UNCHANGED <<part, v9, v10>>
Wave     == part = "wave"     /\ W!Next /\ UNCHANGED <<part, v9, v10>>
Tracker  == part = "tracker"  /\ T!Next /\ UNCHANGED <<part, v10>>

Next == Planning \/ Authors \/ First \/ Run \/ Pipeline \/ Wave \/ Tracker

\* Both threads of a pipeline run.
Fairness ==
    /\ WF_slots(part = "pipeline" /\ (P!Produce \/ P!Send) /\ UNCHANGED <<part, v9, v10>>)
    /\ WF_slots(part = "pipeline" /\ (P!Consume \/ P!ConsumeEnds \/ P!DropReceiver \/ P!Return)
                /\ UNCHANGED <<part, v9, v10>>)

Spec == Init /\ [][Next]_slots /\ Fairness

\* The first surface and the status tracker alone.
FirstSpec   == part = "first" /\ Init /\ [][First]_slots
TrackerSpec == part = "tracker" /\ Init /\ [][Tracker]_slots

\* HierarchyPlanning: plannings end (PlanningEnds) in a sound hierarchy
\* (DerivedSound), and one that the run accepts (ValidHierarchy), whatever the
\* trainers assign.
HierarchyDerived ==
    part = "planning" =>
        /\ H!PlanningEnds /\ H!DerivedSound
        /\ v2.step = "done" => S!ValidHierarchy([root |-> R, parts |-> v4], Len(v1.values))

\* BranchAuthoring: bits are given by weight and all of them (BitsExact), and the
\* codec reads a branch as it was written (WrittenReadable).
BranchesReadable == part = "authoring" => A!BitsExact /\ A!WrittenReadable

\* StreamingIndexer: no branch is stored before its children (ChildrenFirst), and
\* the finished index is exact (FinalizedExact); what it is planned from is
\* sound (HierarchyDerived), and what it writes can be read (BranchesReadable).
FirstExact ==
    /\ part = "first" => S!ChildrenFirst /\ S!FinalizedExact
    /\ HierarchyDerived
    /\ BranchesReadable

\* NothingLost of StreamingIndexerV3: no step of finalize loses an acknowledged
\* item, whatever failed before.
NothingLost == part = "run" => V!NothingLost

\* StreamingIndexerV3: the finished index is exact (V3Exact), and splitting and
\* layering come to an end (LayersShrink).
V3Exact == part = "run" => V!V3Exact /\ V!LayersShrink

\* PipelineExact of PreparedPipeline: success means every batch was committed.
PipelineExact == part = "pipeline" => P!PipelineExact

\* PipelineReturns of PreparedPipeline: the two threads never wait for each other
\* for ever.
PipelineReturns == <>(part # "pipeline" \/ v8 # "none")

\* WaveCounts of WaveStatus: aggregate counts do not depend on the schedule.
\* StatusOrdered of PlanningStatus: no progress is reported after the end.
StatusTruthful ==
    /\ part = "wave" => W!WaveCounts
    /\ part = "tracker" => T!StatusOrdered

\* ReportTruthful of StreamingIndexer: a completed pass reports as many items as
\* its calls accepted.
ReportTruthful == [][part = "first" => S!ReportTruthfulStep]_slots

\* CountsMonotone of PlanningStatus: the completed count of a stage never goes down.
CountsMonotone == part = "tracker" => T!CountsMonotone
=============================================================================
