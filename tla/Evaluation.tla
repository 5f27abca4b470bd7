----------------------------- MODULE Evaluation -----------------------------
(* run_evaluation_campaign of lexongraph-streaming-clustering-evaluator: every *)
(* candidate is trained and applied twice, its clusters are checked and packed *)
(* into leaves by every strategy of the profile, and the candidates that pass  *)
(* the required gates are ranked; then the reports are written.                *)
(* The gates of a profile are named by their kinds, as in the profiles of the  *)
(* repository.  Scores count the ground-truth neighbours in the same leaf; the *)
(* other metric is floating point.  Synthetic entities are not told apart.     *)
EXTENDS Packing

-----------------------------------------------------------------------------
(* The exact-size partitions of the evaluator's own section-4 candidates.  An  *)
(* embedding is a point <<x, y>> of a grid, so that the curve, which refuses    *)
(* more than two dimensions, takes all; a partition is a sequence of sets of   *)
(* indices into the trained embeddings, or NoPartition.                        *)

NoPartition == <<{0}>>
Modes == {"recursive", "curve", "graph", "hybrid", "shuffle"}

\* contiguous_chunks.
Chunks(order, leaf) ==
    [c \in 1 .. LeavesNeeded(Len(order), leaf) |->
        ToSet(SubSeq(order, (c - 1) * leaf + 1, Min({c * leaf, Len(order)})))]

\* widest_variance_dimension: the variance times the square of the count.
Variance(points, indices, axis) ==
    LET n == Cardinality(indices)
        Coord(i)  == points[i][axis]
        Square(i) == points[i][axis] * points[i][axis]
    IN  n * MapThenSumSet(Square, indices) - MapThenSumSet(Coord, indices) * MapThenSumSet(Coord, indices)

WidestAxis(points, indices) ==
    IF Variance(points, indices, 2) > Variance(points, indices, 1) THEN 2 ELSE 1

\* recursive_balanced_partitions: the clusters are halved, and the indices with
\* them, along the widest axis.
RECURSIVE Halved(_, _, _, _)
Halved(points, indices, k, leaf) ==
    IF k = 1 THEN <<indices>>
    ELSE LET axis  == WidestAxis(points, indices)
             order == InOrder(indices, LAMBDA i : points[i][axis])
             left  == (k \div 2) * leaf
         IN  Halved(points, ToSet(SubSeq(order, 1, left)), k \div 2, leaf)
             \o Halved(points, ToSet(SubSeq(order, left + 1, Len(order))), k - k \div 2, leaf)

\* quantize_to_u16, rounded to the nearest.
MaxU16 == 65535
Quantized(value, low, high) ==
    IF high <= low THEN 0 ELSE (2 * (value - low) * MaxU16 + (high - low)) \div (2 * (high - low))

\* morton_code: bit 2 * b is bit b of x, bit 2 * b + 1 that of y.  The codes have
\* 32 bits and are compared bit by bit.
BitOf(n, b) == (n \div 2 ^ b) % 2
Morton(points, i) ==
    LET xs == {points[j][1] : j \in DOMAIN points}
        ys == {points[j][2] : j \in DOMAIN points}
        x  == Quantized(points[i][1], Min(xs), Max(xs))
        y  == Quantized(points[i][2], Min(ys), Max(ys))
    IN  [b \in 0 .. 31 |-> IF b % 2 = 0 THEN BitOf(x, b \div 2) ELSE BitOf(y, b \div 2)]

CodeLess(c, d) == \E b \in 0 .. 31 : c[b] < d[b] /\ \A a \in b + 1 .. 31 : c[a] = d[a]

\* sorted_indices_by_space_filling_curve.
CurveOrder(points) ==
    LET code == [i \in DOMAIN points |-> Morton(points, i)]
        rank == [i \in DOMAIN points |-> Cardinality({j \in DOMAIN points : CodeLess(code[j], code[i])})]
    IN  InOrder(DOMAIN points, LAMBDA i : rank[i])

\* graph_neighborhood_partitions: the first index that is left, then the nearest
\* ones to all that have joined it.
Distance(p, q) == (p[1] - q[1]) * (p[1] - q[1]) + (p[2] - q[2]) * (p[2] - q[2])

Grown(points, free, leaf) ==
    LET Grow[n \in 1 .. leaf] ==
            IF n = 1 THEN {Min(free)}
            ELSE LET members == Grow[n - 1]
                     Sum(i) == MapThenSumSet(LAMBDA m : Distance(points[i], points[m]), members)
                 IN  members \cup {InOrder(free \ members, Sum)[1]}
    IN  Grow[leaf]

Neighbourhoods(points, k, leaf) ==
    LET Taken[n \in 0 .. k] ==
            IF n = 0 THEN <<>>
            ELSE LET before == Taken[n - 1]
                 IN  Append(before, Grown(points, DOMAIN points \ UNION ToSet(before), leaf))
    IN  Taken[k]

\* hybrid_coarse_rebalance_partitions: coarse runs along the first axis, each
\* chunked along the second.
CoarseGroups(k) == Max({g \in 1 .. k : g * g <= k})

\* Runs that all start at the first index.
RunsFromStart(order, counts, leaf) == [g \in DOMAIN counts |-> SubSeq(order, 1, counts[g] * leaf)]

CoarseRuns(order, counts, leaf) == SizedRuns(order, [g \in DOMAIN counts |-> counts[g] * leaf])

Rebalanced(points, k, leaf) ==
    LET order == InOrder(DOMAIN points, LAMBDA i : points[i][1])
        runs  == CoarseRuns(order, BalancedCounts(k, CoarseGroups(k)), leaf)
    IN  FlattenSeq([g \in DOMAIN runs |-> Chunks(InOrder(ToSet(runs[g]), LAMBDA i : points[i][2]), leaf)])

\* deterministic_embedding_hash: some number for a point and a seed.
PointHash(p, seed) == (3 * p[1] + 7 * p[2] + 5 * seed) % 4

\* build_section4_family_partitions.
ExactOrNone(partitions, k, leaf) ==
    IF Len(partitions) # k \/ \E c \in 1 .. k : Cardinality(partitions[c]) # leaf THEN NoPartition ELSE partitions

ModePartitions(points, k, leaf, mode, seed) ==
    CASE mode = "recursive" -> Halved(points, DOMAIN points, k, leaf)
      [] mode = "curve"     -> Chunks(CurveOrder(points), leaf)
      [] mode = "graph"     -> Neighbourhoods(points, k, leaf)
      [] mode = "hybrid"    -> Rebalanced(points, k, leaf)
      [] mode = "shuffle"   -> Chunks(InOrder(DOMAIN points, LAMBDA i : PointHash(points[i], seed)), leaf)

FamilyPartitionsOf(points, k, mode, seed) ==
    IF points = <<>> \/ Len(points) % k # 0 THEN NoPartition
    ELSE ExactOrNone(ModePartitions(points, k, Len(points) \div k, mode, seed), k, Len(points) \div k)

\* The classifier, for an embedding that was trained on, as all entities are: of
\* equal ones the last inserted decides.
FamilyAssign(points, partitions, p) ==
    Max({c \in DOMAIN partitions : \E i \in partitions[c] : points[i] = p})

\* Every mode puts every index into exactly one of k partitions of the same size,
\* and fails only if the sizes cannot be the same.
PartitionedRight(points, k, partitions) ==
    IF partitions = NoPartition THEN Len(points) % k # 0
    ELSE /\ \A i \in DOMAIN points : Cardinality({c \in DOMAIN partitions : i \in partitions[c]}) = 1
         /\ \A c \in DOMAIN partitions : Cardinality(partitions[c]) * k = Len(points)

-----------------------------------------------------------------------------
(* The campaign.                                                              *)

CONSTANTS
    Profiles,       \* records of leaf, clusters, entities (their embeddings),
                    \* passes, gates, packers, truth, and the source of the entities
    Candidates      \* a sequence of records of an id, the stem of its file names
                    \* and its mode: one of Modes, or "any" for the other crates

VARIABLES
    profile,
    reports,        \* run_reports
    rankings,       \* the three rankings, once they are made
    files,          \* names written
    result          \* "running", "ranked", "invalid", "write failed" or "written"

vars == <<profile, reports, rankings, files, result>>

HardGates == {"complete-coverage", "one-cluster-per-entity", "deterministic-observable-results"}
SizeGates == {"leaf-size-lower-bound", "leaf-size-upper-bound"}
ClusteringRequired == HardGates
PackingRequired == HardGates \cup SizeGates

Entities(p) == DOMAIN p.entities
None == 0 - 1

\* validate_profile and validate_materialized_evaluation_entities, what of them
\* decides a run: inline entities are checked at the start, stored ones when they
\* are read.
CountMatches(p) == Len(p.entities) = p.leaf * p.clusters
ValidProfile(p) ==
    /\ p.leaf > 0 /\ p.clusters > 0 /\ p.passes > 0 /\ p.gates # {} /\ p.packers # {}
    /\ p.packers \subseteq Packers
    /\ p.source = "inline" => CountMatches(p)

Init ==
    /\ profile \in Profiles
    /\ reports = <<>> /\ rankings = <<>> /\ files = <<>>
    /\ result = IF ValidProfile(profile) THEN "running" ELSE "invalid"

-----------------------------------------------------------------------------
\* execute_candidate_once.  An execution has the leaves of the entities and
\* everything else that is compared, or Aborted.
Aborted == [leaves |-> <<>>, others |-> None]

LeavesOf(p, cluster) ==
    [c \in 1 .. p.clusters |-> InOrder({e \in Entities(p) : cluster[e] = c}, LAMBDA e : 0)]

\* A candidate of the evaluator: it keeps the embeddings of all passes together,
\* so that its partitions are of them all.
Classified(p, trained, partitions) ==
    IF partitions = NoPartition THEN Aborted
    ELSE [leaves |-> LeavesOf(p, [e \in Entities(p) |-> FamilyAssign(trained, partitions, p.entities[e])]), others |-> 0]

TrainedOn(p, trained, mode) == Classified(p, trained, FamilyPartitionsOf(trained, p.clusters, mode, 0))
FamilyExecution(p, mode) == TrainedOn(p, FlattenSeq([pass \in 1 .. p.passes |-> p.entities]), mode)

\* The executions of any candidate; a repeated one may differ in a cluster or in
\* something else.
AnyExecutions(p) ==
    {Aborted} \cup {[leaves |-> LeavesOf(p, a), others |-> 0] : a \in [Entities(p) -> 1 .. p.clusters]}

Executions(p, candidate) ==
    IF candidate.mode \in Modes THEN {FamilyExecution(p, candidate.mode)} ELSE AnyExecutions(p)

Repeats(p, candidate, primary) ==
    IF candidate.mode \in Modes THEN {primary}
    ELSE {primary, [primary EXCEPT !.others = 1], [primary EXCEPT !.leaves = Reverse(@)], Aborted}

\* compare_executions.
SameLeaves(left, right) == left.leaves = right.leaves
SameExecution(left, right) == left.leaves = right.leaves /\ left.others = right.others

\* compute_gate_results_with_filter: the results of the declared gates among
\* those that are visible.
Covered(leaves) == UNION {ToSet(leaves[g]) : g \in DOMAIN leaves}
Total(leaves) == SumSeq([g \in DOMAIN leaves |-> Len(leaves[g])])

GatePasses(p, gate, leaves, deterministic) ==
    CASE gate = "complete-coverage"      -> Total(leaves) = Len(p.entities)
      [] gate = "one-cluster-per-entity" -> Cardinality(Covered(leaves)) = Len(p.entities)
      [] gate = "deterministic-observable-results" -> deterministic
      [] gate = "leaf-size-lower-bound"  -> \A g \in DOMAIN leaves : Len(leaves[g]) >= LowerBound(p.leaf)
      [] gate = "leaf-size-upper-bound"  -> \A g \in DOMAIN leaves : Len(leaves[g]) <= UpperBound(p.leaf)
      [] gate = "exact-leaf-occupancy"   -> \A g \in DOMAIN leaves : Len(leaves[g]) = p.leaf
      [] gate = "no-empty-clusters"      -> \A g \in DOMAIN leaves : leaves[g] # <<>>

GateResults(p, visible, leaves, deterministic) ==
    [gate \in p.gates \cap visible |-> GatePasses(p, gate, leaves, deterministic)]

ClusteringVisible == HardGates \cup {"exact-leaf-occupancy", "no-empty-clusters"}
PackingVisible == PackingRequired

\* evaluate_required_gate_status, and why a stage is not survived.
AnyFailed(results, required) == \E gate \in required \cap DOMAIN results : ~results[gate]
RequiredSurvived(results, required) == required \subseteq DOMAIN results /\ ~AnyFailed(results, required)
StageFailure(results, required) ==
    IF RequiredSurvived(results, required) THEN "none"
    ELSE IF AnyFailed(results, required) THEN "gate" ELSE "missing gates"

\* same_leaf_neighborhood_coherence, the hits of the ground truth.
Score(p, leaves) ==
    Cardinality({t \in p.truth : \E g \in DOMAIN leaves : {t[1], t[2]} \subseteq ToSet(leaves[g])})

\* evaluate_packing_stage.
ClusterIn(leaves, e) == CHOOSE g \in DOMAIN leaves : e \in ToSet(leaves[g])
Repacked(p, packer, execution) ==
    [execution EXCEPT !.leaves =
        Packed(packer, [e \in Entities(p) |-> ClusterIn(@, e)], p.leaf, [e \in Entities(p) |-> p.entities[e][1]])]

PackingFailure(p, first, second) ==
    IF first.leaves = NoPacking \/ second.leaves = NoPacking THEN "packing"
    ELSE StageFailure(GateResults(p, PackingVisible, first.leaves, SameExecution(first, second)), PackingRequired)

StageReport(p, packer, leaves, failure) ==
    [packer |-> packer, leaves |-> leaves, failure |-> failure,
     score |-> IF failure = "none" THEN Score(p, leaves) ELSE None]

RepackedStage(p, packer, first, second) == StageReport(p, packer, first.leaves, PackingFailure(p, first, second))
PackingStage(p, packer, primary, repeated) ==
    RepackedStage(p, packer, Repacked(p, packer, primary), Repacked(p, packer, repeated))

\* The order of the strategies' ids.
PackerRank(packer) == CHOOSE r \in 1 .. 3 : packer = <<"balanced", "contiguous", "geometry">>[r]

\* select_best_packing_evaluation and first_failed_packing_evaluation.
Survivors(stages) == {s \in stages : s.failure = "none"}
BestStage(stages) ==
    CHOOSE s \in Survivors(stages) : \A t \in Survivors(stages) :
        s.score > t.score \/ (s.score = t.score /\ PackerRank(s.packer) <= PackerRank(t.packer))
FirstFailure(stages) ==
    (CHOOSE s \in stages \ Survivors(stages) : \A t \in stages \ Survivors(stages) :
        PackerRank(s.packer) <= PackerRank(t.packer)).failure

-----------------------------------------------------------------------------
\* failed_candidate_run, failed_corpus_source_run.
FailedRun(candidate, why) ==
    [id |-> candidate.id, status |-> why, failure |-> why, survived |-> FALSE, rawSurvived |-> FALSE,
     rawScore |-> None, score |-> None, stages |-> {}, leaves |-> <<>>, deterministic |-> FALSE, repeated |-> FALSE]

\* finalize_successful_run.  `repeated` is not in the report: whether the two
\* executions really were the same.
Best(stages, none) == IF Survivors(stages) # {} THEN BestStage(stages) ELSE none

RunReport(candidate, results, rawScore, stages, packed, executions) ==
    LET rawSurvived == RequiredSurvived(results, ClusteringRequired)
        survived    == IF packed THEN Survivors(stages) # {} ELSE rawSurvived
        best        == Best(stages, [score |-> IF rawSurvived THEN rawScore ELSE None, leaves |-> <<>>])
    IN  [id |-> candidate.id, status |-> IF survived THEN "succeeded" ELSE "gate failed",
         failure |-> IF survived THEN "none"
                     ELSE IF packed THEN FirstFailure(stages)
                     ELSE StageFailure(results, ClusteringRequired),
         survived |-> survived, rawSurvived |-> rawSurvived, rawScore |-> IF rawSurvived THEN rawScore ELSE None,
         score |-> best.score, stages |-> stages, leaves |-> best.leaves,
         deterministic |-> SameExecution(executions[1], executions[2]),
         repeated |-> executions[1] = executions[2]]

SuccessfulRun(p, candidate, primary, repeated, same) ==
    IF AnyFailed(GateResults(p, HardGates, primary.leaves, same), HardGates)
    THEN RunReport(candidate, GateResults(p, HardGates, primary.leaves, same), None, {}, FALSE, <<primary, repeated>>)
    ELSE RunReport(candidate, GateResults(p, ClusteringVisible, primary.leaves, same), Score(p, primary.leaves),
                   {PackingStage(p, packer, primary, repeated) : packer \in p.packers}, TRUE, <<primary, repeated>>)

Report(report) ==
    /\ reports' = Append(reports, report)
    /\ UNCHANGED <<profile, rankings, files, result>>

Running == result = "running" /\ Len(reports) < Len(Candidates)
Candidate == Candidates[Len(reports) + 1]

\* run_candidate: the inputs are read again for every candidate, and the second
\* execution is made even when the first has failed.
SourceFails == Running /\ profile.source = "store" /\ Report(FailedRun(Candidate, "source"))

RunCandidate ==
    /\ Running /\ CountMatches(profile)
    /\ \E primary \in Executions(profile, Candidate) :
        \E repeated \in Repeats(profile, Candidate, primary) :
            Report(IF Aborted \in {primary, repeated} THEN FailedRun(Candidate, "contract")
                   ELSE SuccessfulRun(profile, Candidate, primary, repeated, SameExecution(primary, repeated)))

\* rank_candidates, rank_raw_candidates, rank_packing_pipelines: by score, then by
\* id.
Ranked(S) ==
    LET Before(r, s) == r.score > s.score \/ (r.score = s.score /\ r.id < s.id)
                        \/ (r.score = s.score /\ r.id = s.id /\ PackerRank(r.packer) < PackerRank(s.packer))
    IN  [n \in 1 .. Cardinality(S) |-> CHOOSE r \in S : Cardinality({s \in S : Before(s, r)}) = n - 1]

Entry(id, score, packer) == [id |-> id, score |-> score, packer |-> packer]
InRanking(report) == report.status = "succeeded" /\ report.survived /\ report.score # None
InRawRanking(report) == report.rawSurvived /\ report.rawScore # None

Rank ==
    /\ result = "running" /\ Len(reports) = Len(Candidates)
    /\ LET all == ToSet(reports) IN
       rankings' =
        [candidates |-> Ranked({Entry(r.id, r.score, "balanced") : r \in {r \in all : InRanking(r)}}),
         raw        |-> Ranked({Entry(r.id, r.rawScore, "balanced") : r \in {r \in all : InRawRanking(r)}}),
         pipelines  |-> Ranked(UNION {{Entry(r.id, s.score, s.packer) : s \in Survivors(r.stages)} : r \in all})]
    /\ result' = "ranked"
    /\ UNCHANGED <<profile, reports, files>>

\* unique_artifact_file_name: a stem, then a stem and a number; a name is a
\* sequence of its parts.
FileName(stem, index) == IF index = 0 THEN stem ELSE Append(stem, index)
UniqueName(used, stem) ==
    FileName(stem, Min({i \in 0 .. Cardinality(used) : FileName(stem, i) \notin used}))

ReportNames ==
    LET Names[n \in 0 .. Len(reports)] ==
            IF n = 0 THEN <<>>
            ELSE LET before == Names[n - 1] IN Append(before, UniqueName(ToSet(before), Candidates[n].stem))
    IN  Names[Len(reports)]

\* write_campaign_artifacts: the candidates' reports, the campaign's and the
\* scorecard, one file after the other.
AllNames == ReportNames \o <<<<"campaign-report">>, <<"scorecard">>>>

WriteArtifact ==
    /\ result = "ranked" /\ Len(files) < Len(AllNames)
    /\ files' = Append(files, AllNames[Len(files) + 1])
    /\ result' = IF Len(files) + 1 = Len(AllNames) THEN "written" ELSE result
    /\ UNCHANGED <<profile, reports, rankings>>

WriteFails ==
    /\ result = "ranked" /\ result' = "write failed"
    /\ UNCHANGED <<profile, reports, rankings, files>>

Next == SourceFails \/ RunCandidate \/ Rank \/ WriteArtifact \/ WriteFails

Spec == Init /\ [][Next]_vars

-----------------------------------------------------------------------------
\* A report says that its candidate survived exactly when it names no failure,
\* and then its leaves hold every entity once, within the size bounds, and its
\* two executions were the same.
ReportHonest(report) ==
    /\ report.survived <=> report.failure = "none"
    /\ report.survived <=> report.status = "succeeded"
    /\ report.survived =>
          report.repeated /\ EveryOnce(report.leaves, Entities(profile)) /\ WithinBounds(report.leaves, profile.leaf)

\* A ranking has every candidate it should, once, and none that did not repeat.
RankingHonest(ranking, members) ==
    /\ {ranking[n].id : n \in DOMAIN ranking} = {r.id : r \in members}
    /\ Len(ranking) = Cardinality(members)
    /\ \A n \in 2 .. Len(ranking) : ranking[n - 1].score >= ranking[n].score
    /\ \A r \in members : r.repeated

\* The campaign never vouches for a candidate that did not earn it, whatever
\* failed in which stage, and no report overwrites another's file.
CampaignHonest ==
    /\ \A n \in DOMAIN reports : ReportHonest(reports[n])
    /\ result \notin {"running", "invalid"} =>
          /\ RankingHonest(rankings.candidates, {r \in ToSet(reports) : r.survived})
          /\ RankingHonest(rankings.raw, {r \in ToSet(reports) : r.rawSurvived})
          /\ \A n \in DOMAIN rankings.pipelines : \E r \in ToSet(reports) :
                r.id = rankings.pipelines[n].id /\ r.survived /\ rankings.pipelines[n].score <= r.score
    /\ Cardinality(ToSet(files)) = Len(files)
=============================================================================
