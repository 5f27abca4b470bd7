---------------------------- MODULE MCClustering ----------------------------
(* TLC instance for the clustering crates and their evaluator: the four       *)
(* streaming trainers with an arbitrary caller, the loop by which the indexer *)
(* replays a partition to one, the selector that switches from one to         *)
(* another, the quantile sketch and the valley cuts of directional PCA, the   *)
(* capacity-constrained assignment of DCBC, the packing strategies, the       *)
(* evaluator's own candidates and its campaign, the walk over a stored        *)
(* corpus, and the hierarchies above a candidate's leaves.                    *)
(* `part` is what a behaviour is about; its variables are the slots v1, v2,   *)
(* ... in the order of its module, and the slots it does not need stay 0.     *)
EXTENDS Integers, Sequences, FiniteSets, TLC

CONSTANTS RankErrors, MaxValues, Penalty

\* Sequences of one to three elements.
Seqs(S) == UNION {[1 .. n -> S] : n \in 1 .. 3}

VARIABLES part, v1, v2, v3, v4, v5, v6, v7, v8, v9, v10
slots == <<part, v1, v2, v3, v4, v5, v6, v7, v8, v9, v10>>

\* Requested cluster counts below, at and above the size of a pass, and for DCBC
\* bounds that are given, left out and impossible to meet.
Setting(algorithm, requested, params) == [algorithm |-> algorithm, requested |-> requested, params |-> params]
Bounds(lower, upper) == [lower |-> lower, upper |-> upper]
D == INSTANCE DirectionalTrainer WITH RankErrorDenominator <- RankErrors
TrainerSettings ==
    {Setting("kmeans", 2, Bounds(0, 0)), Setting("chunking", 1, Bounds(0, 0)), Setting("chunking", 2, Bounds(0, 0))}
    \cup {Setting("dcbc", 2, Bounds(lower, upper)) : lower \in 0 .. 2, upper \in {0, 2}}
    \cup {Setting("directional", 2, p) : p \in D!Params}
    \cup {Setting("directional", 3, p) : p \in {p \in D!Params : p.allocation = "weighted"}}

T == INSTANCE StreamingTrainers WITH
        Settings <- TrainerSettings, Batches <- {<<0>>, <<1, 0>>, <<3>>, <<2, 0 - 1>>}, MaxItems <- 4, RankErrorDenominator <- RankErrors,
        setting <- v1, trainer <- v2, ids <- v3, handed <- v4, last <- v5

ASSUME ClusteringAssumption == T!TrainersAssumption

R == INSTANCE ReplayLoop WITH
        Partitions <- {<<0, 1>>, <<0, 0, 0>>, <<0, 1, 2>>, <<3, 1, 2, 0>>, <<0, 0, 3, 3>>, <<2>>},
        ReadBatch <- 2, MaxReplayPasses <- 4096, RankErrorDenominator <- RankErrors,
        items <- v1, params <- v2, requested <- v3, trainer <- v4, at <- v5, passes <- v6, sent <- v7,
        readiness <- v8, cancelled <- v9, returned <- v10

\* Boundaries of two and three embeddings, one for more items than it has
\* embeddings, and boundaries that are refused.
Request(represented, count, dimensions) == [represented |-> represented, count |-> count, dimensions |-> dimensions]
P == INSTANCE AdaptivePlanning WITH
        Configured <- {[params |-> p, clusters |-> IF p.allocation = "logbits" THEN 4 ELSE 3] : p \in {p \in R!Params : p.exact}},
        Requests <- {Request(3, 3, 2), Request(3, 2, 2), Request(0, 2, 2), Request(2, 3, 2), Request(2, 2, 1), Request(2, 1, 2)},
        Batches <- {<<0>>, <<1, 3>>, <<2, 0 - 1>>}, MaxItems <- 3, MaxRecords <- 4, RankErrorDenominator <- RankErrors,
        settings <- v1, switched <- v2, records <- v3, boundary <- v4


\* A problem v1 and, once v3 says that it is solved, its solution v2.
C == INSTANCE CapacitySolver WITH OptionalCapacityPenalty <- Penalty

\* Campaigns over the corners of a square, and over three equal entities and
\* another: required gates that are not declared, leaves that cannot be filled, a
\* stored corpus of the wrong size, two passes.
Square == <<<<0, 0>>, <<0, 1>>, <<1, 0>>, <<1, 1>>>>
Thrice == <<<<0, 0>>, <<0, 0>>, <<0, 0>>, <<1, 1>>>>
AllGates ==
    {"complete-coverage", "one-cluster-per-entity", "deterministic-observable-results",
     "leaf-size-lower-bound", "leaf-size-upper-bound", "exact-leaf-occupancy", "no-empty-clusters"}
AllPackers == {"balanced", "contiguous", "geometry"}
ProfileOf(entities, leaf, clusters, passes, gates, packers, source) ==
    [entities |-> entities, leaf |-> leaf, clusters |-> clusters, passes |-> passes, gates |-> gates,
     packers |-> packers, source |-> source, truth |-> {<<1, 2>>, <<3, 4>>, <<2, 3>>}]

E == INSTANCE Evaluation WITH
        Profiles <- {ProfileOf(Square, 2, 2, 1, AllGates, AllPackers, "store"),
                     ProfileOf(Square, 2, 2, 2, AllGates, {"contiguous"}, "inline"),
                     ProfileOf(Square, 2, 2, 1, {"complete-coverage", "one-cluster-per-entity",
                               "deterministic-observable-results"}, {"balanced"}, "inline"),
                     ProfileOf(Square, 2, 2, 1, AllGates \ {"deterministic-observable-results"}, {"balanced"}, "inline"),
                     ProfileOf(Square, 3, 2, 1, AllGates, AllPackers, "store"),
                     ProfileOf(Square, 3, 2, 1, AllGates, AllPackers, "inline"),
                     ProfileOf(Thrice, 4, 1, 1, AllGates, AllPackers, "inline"),
                     ProfileOf(Thrice, 2, 2, 1, AllGates, AllPackers, "inline")},
        Candidates <- <<[id |-> 1, stem |-> <<"a">>, mode |-> "any"],
                        [id |-> 2, stem |-> <<"a", 1>>, mode |-> "graph"],
                        [id |-> 3, stem |-> <<"a">>, mode |-> "recursive"]>>,
        profile <- v1, reports <- v2, rankings <- v3, files <- v4, result <- v5

\* Stores in which a branch may refer to leaves, to another branch, to a leaf that
\* it or another refers to as well, to itself, and to a block that is missing.
W == INSTANCE CorpusWalk WITH
        Corpora <- {[root |-> 1, blocks |->
                        1 :> [leaf |-> FALSE, refs |-> top] @@ 2 :> [leaf |-> FALSE, refs |-> second] @@
                        3 :> [leaf |-> TRUE, refs |-> <<10, 11>>] @@ 4 :> [leaf |-> TRUE, refs |-> <<12>>]]
                    : top \in Seqs({1, 2, 3, 5}), second \in Seqs({3, 4})},
        corpus <- v1, pending <- v2, visited <- v3, records <- v4, outcome <- v5

\* Clusters of one or two members on a line; fanouts that some layers of up to
\* nine leaves cannot meet.
Ratio(num, den) == [num |-> num, den |-> den]
\* Clusters on one side of zero, and clusters that may cancel alone, in pairs or
\* all together.
OneSided == UNION {[1 .. n -> {<<0>>, <<3>>, <<0, 2>>}] : n \in 1 .. 3}
            \cup UNION {[1 .. n -> {<<3>>, <<0, 2>>}] : n \in 4 .. 5} \cup {[i \in 1 .. n |-> <<i % 3>>] : n \in 6 .. 9}
TwoSided == UNION {[1 .. n -> {<<0 - 3>>, <<1>>, <<2, 1>>, <<1, 0 - 3>>, <<1, 0 - 1>>}] : n \in 1 .. 3}
            \cup [1 .. 4 -> {<<0 - 2>>, <<1>>, <<1, 0 - 2>>}] \cup [1 .. 5 -> {<<0 - 2>>, <<1>>}]
            \cup {[i \in 1 .. n |-> <<IF i % 3 = 0 THEN 0 - 1 ELSE i>>] : n \in 6 .. 9}
Contract(fanout, epsilon, metric) ==
    [min |-> fanout[1], max |-> fanout[2], beta |-> Ratio(1, 2), epsilon |-> epsilon, metric |-> metric]
H == INSTANCE HierarchyBuild WITH
        LeafClusters <- OneSided \cup TwoSided,
        Contracts <- {Contract(f, e, "euclidean") :
                        f \in {<<1, 2>>, <<2, 2>>, <<2, 3>>, <<3, 3>>, <<3, 4>>}, e \in {Ratio(0, 1), Ratio(1, 2)}}
                     \cup {Contract(f, Ratio(1, 2), "cosine") : f \in {<<2, 2>>, <<2, 3>>, <<3, 3>>, <<3, 4>>}}
                     \cup {Contract(<<2, 2>>, Ratio(0, 1), m) : m \in {"unsupported", "inconsistent"}},
        problem <- v1, nodes <- v2, current <- v3, layer <- v4, report <- v5

Problems == [cost: [1 .. 3 -> [1 .. 2 -> 0 .. 2]], low: 0 .. 2, high: 1 .. 3]

\* Clusterings of up to five entities that lie apart or on each other, and
\* embeddings of up to four on a grid or of six on a line.
Clusterings ==
    [packer: AllPackers, cluster: UNION {[1 .. n -> 1 .. 3] : n \in 1 .. 5}, leaf: 1 .. 4,
     place: {<<3, 1, 2, 1, 0>>}]
Families ==
    [mode: E!Modes, clusters: 1 .. 4, points: [1 .. 3 -> {Square[i] : i \in 1 .. 4}] \cup [1 .. 4 -> {<<0, 2>>, <<1, 0>>, <<3, 1>>}]]
    \cup [mode: E!Modes, clusters: {2, 3}, points: [1 .. 6 -> {<<0, 1>>, <<2, 1>>}]]

From3 == <<v3, v4, v5, v6, v7, v8, v9, v10>>
From4 == <<v4, v5, v6, v7, v8, v9, v10>>
From5 == <<v5, v6, v7, v8, v9, v10>>
From6 == <<v6, v7, v8, v9, v10>>

Init ==
    \/ part = "trainer" /\ T!Init /\ v6 = 0 /\ v7 = 0 /\ v8 = 0 /\ v9 = 0 /\ v10 = 0
    \/ part = "replay" /\ R!Init
    \/ part = "adaptive" /\ P!Init /\ v5 = 0 /\ v6 = 0 /\ v7 = 0 /\ v8 = 0 /\ v9 = 0 /\ v10 = 0
    \/ /\ part = "axis" /\ v1 = <<>> /\ v2 = D!EmptySummary
       /\ v3 = 0 /\ v4 = 0 /\ v5 = 0 /\ v6 = 0 /\ v7 = 0 /\ v8 = 0 /\ v9 = 0 /\ v10 = 0
    \/ /\ part = "solver" /\ v1 \in Problems /\ v2 = 0
       /\ v3 = 0 /\ v4 = 0 /\ v5 = 0 /\ v6 = 0 /\ v7 = 0 /\ v8 = 0 /\ v9 = 0 /\ v10 = 0
    \/ part = "campaign" /\ E!Init /\ v6 = 0 /\ v7 = 0 /\ v8 = 0 /\ v9 = 0 /\ v10 = 0
    \/ part = "corpus" /\ W!Init /\ v6 = 0 /\ v7 = 0 /\ v8 = 0 /\ v9 = 0 /\ v10 = 0
    \/ part = "hierarchy" /\ H!Init /\ v6 = 0 /\ v7 = 0 /\ v8 = 0 /\ v9 = 0 /\ v10 = 0
    \/ /\ \/ part = "packing" /\ v1 \in Clusterings
          \/ part = "family" /\ v1 \in Families
       /\ v2 = 0
       /\ v3 = 0 /\ v4 = 0 /\ v5 = 0 /\ v6 = 0 /\ v7 = 0 /\ v8 = 0 /\ v9 = 0 /\ v10 = 0

Trainer == part = "trainer" /\ T!Next /\ UNCHANGED <<part, From6>>
Replay  == part = "replay" /\ R!Next /\ UNCHANGED part
Adaptive == part = "adaptive" /\ P!Next /\ UNCHANGED <<part, From5>>
Axis ==
    /\ part = "axis" /\ Len(v1) < MaxValues
    /\ \E value \in 1 .. 3 : v1' = Append(v1, value) /\ v2' = D!Observe(v2, value)
    /\ UNCHANGED <<part, From3>>
Solve ==
    /\ part = "solver" /\ v3 = 0 /\ v3' = 1
    /\ v2' = C!LexicographicAssignment(v1.cost, 3, 2, v1.low, v1.high)
    /\ UNCHANGED <<part, v1, From4>>

Pack ==
    /\ part = "packing" /\ v3 = 0 /\ v3' = 1
    /\ v2' = E!Packed(v1.packer, v1.cluster, v1.leaf, v1.place)
    /\ UNCHANGED <<part, v1, From4>>
Divide ==
    /\ part = "family" /\ v3 = 0 /\ v3' = 1
    /\ v2' = E!FamilyPartitionsOf(v1.points, v1.clusters, v1.mode, 1)
    /\ UNCHANGED <<part, v1, From4>>
Campaign  == part = "campaign" /\ E!Next /\ UNCHANGED <<part, From6>>
Corpus    == part = "corpus" /\ W!Next /\ UNCHANGED <<part, From6>>
Hierarchy == part = "hierarchy" /\ H!Next /\ UNCHANGED <<part, From6>>

Next == Trainer \/ Replay \/ Adaptive \/ Axis \/ Solve \/ Pack \/ Divide \/ Campaign \/ Corpus \/ Hierarchy

Spec == Init /\ [][Next]_slots

\* TrainerContract of StreamingTrainers: whatever is called in which order, the
\* four trainers go through the states of the contract, and a call out of turn is
\* refused for good; the directional trainer's complete_training between a pass
\* and its model is exempt (NotReady of TrainerContract).
TrainerContract ==
    /\ part = "trainer" => T!Contract!Init
    /\ [][part = "trainer" => T!ContractStep]_slots

\* ModelExact of StreamingTrainers: a classifier describes exactly the items of
\* the first pass.  ReplayExact of ReplayLoop: the indexer's loop around a trainer
\* loses no item and is never stopped by its own limit.  SelectionHonest of
\* AdaptivePlanning: the switch between the algorithms is measured and final.
ModelExact ==
    /\ part = "trainer" => T!ModelExact
    /\ part = "replay" => R!ReplayExact
    /\ part = "adaptive" => P!SelectionHonest

\* DirectionalTrainer: the cuts along an axis stay in order and within the promised rank
\* error however the coordinates arrive, and every valley asked for is cut as
\* long as there are buckets.
CutsAccurate ==
    part = "axis" /\ v1 # <<>> =>
        \A bins \in 2 .. 3 :
            LET targets == D!Targets(bins, Len(v1))
                cuts    == D!QuantileCuts(v2, targets)
            IN  /\ \A b \in DOMAIN targets : D!WithinRankError(v1, targets[b], cuts[b])
                /\ \A b, c \in DOMAIN cuts : b < c => cuts[b] <= cuts[c]
                /\ Cardinality(D!ValleyBuckets(D!Histogram(v1, bins), bins)) = bins - 1

\* The algorithms that divide items into parts of bounded size.  CapacitySolver:
\* the assignment is the first of the cheapest ones that keep the bounds, and
\* there is none only if no assignment keeps them.  Packing: what the three
\* strategies promise.  FamilyPartitions: partitions of exactly the same size.
DivisionsOptimal ==
    /\ part = "solver" /\ v3 = 1 => v2 = C!OptimalAssignment(v1.cost, 3, 2, v1.low, v1.high)
    /\ part = "packing" /\ v3 = 1 => E!PackedRight(v1.packer, v1.cluster, v1.leaf, v2)
    /\ part = "family" /\ v3 = 1 => E!PartitionedRight(v1.points, v1.clusters, v2)

\* CampaignHonest of Evaluation: no report and no ranking vouches for a candidate
\* that did not earn it.  WalkExact of CorpusWalk: the corpus that a campaign
\* reads from a store is complete, or it is refused.
CampaignHonest ==
    /\ part = "campaign" => E!CampaignHonest
    /\ part = "corpus" => W!WalkExact

\* HierarchyHonest of HierarchyBuild: every strategy builds a balanced tree over
\* all leaves, or there is none within the fanout.
HierarchyHonest == part = "hierarchy" => H!HierarchyHonest
=============================================================================
