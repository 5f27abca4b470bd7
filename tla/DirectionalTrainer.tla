------------------------- MODULE DirectionalTrainer -------------------------
(* lexongraph-directional-pca as a trainer: one pass for the principal axes,   *)
(* one or two for the cuts along them, one that counts the cells the cuts make *)
(* and one that realizes the partition.  Only the last gives a model; the one  *)
(* before already reports the clusters.                                        *)
(* Two axes are retained, and an embedding's coordinates along them are taken  *)
(* from its binary digits; what the axes are, and so how the bins are shared   *)
(* out, is open.                                                               *)
EXTENDS DirectionalCells, Integers, FiniteSets, FiniteSetsExt

CONSTANT RankErrorDenominator    \* GK_QUANTILE_RANK_ERROR_DENOMINATOR

-----------------------------------------------------------------------------
(* How bins are allocated to the retained axes and an axis is cut into its     *)
(* bins: by quantiles, from a Greenwald-Khanna summary of the coordinates, or  *)
(* at the valleys of a histogram.  Coordinates are integers; densities are     *)
(* doubled, so that the halves of the code stay integers.                      *)

CeilDiv(n, m) == (n + m - 1) \div m

\* A summary: entries in order of value, each standing for `gap` coordinates.
EmptySummary == [count |-> 0, entries |-> <<>>]

CompressThreshold(count) == LET t == (2 * count) \div RankErrorDenominator IN IF t > 1 THEN t ELSE 1

\* From the last entry down to the second: an entry joins the one above it when
\* the two and its delta stay within the threshold.  The first is always kept.
Compress(summary) ==
    LET es == summary.entries
        Join(acc, left) ==
            IF left.gap + acc.top.gap + acc.top.delta <= CompressThreshold(summary.count)
            THEN [acc EXCEPT !.top.gap = @ + left.gap]
            ELSE [top |-> left, above |-> <<acc.top>> \o acc.above]
        end == FoldLeft(Join, [top |-> Last(es), above |-> <<>>], Reverse(SubSeq(es, 2, Len(es) - 1)))
    IN  IF Len(es) < 3 THEN summary
        ELSE [summary EXCEPT !.entries = <<es[1], end.top>> \o end.above]

\* An entry that claims to know its rank exactly.
NoDelta(at, n, count) == 0

\* The delta of an entry inserted after `at` of n others.
InsertDelta(at, n, count) == IF at = 0 \/ at = n THEN 0 ELSE CompressThreshold(count) - 1

\* A coordinate is inserted after its equals; every so often the summary is
\* compressed.
Observe(summary, value) ==
    LET es    == summary.entries
        at    == Cardinality({i \in DOMAIN es : es[i].value <= value})
        count == summary.count + 1
        entry == [value |-> value, gap |-> 1, delta |-> InsertDelta(at, Len(es), count)]
        after == [count |-> count, entries |-> InsertAt(es, at + 1, entry)]
        every == RankErrorDenominator \div 2
    IN  IF every > 0 /\ count % every = 0 THEN Compress(after) ELSE after

RankError(count) == CeilDiv(count, RankErrorDenominator)

\* The value for a rank: of the entries whose ranks overlap the tolerated ones,
\* the first whose centre is closest; else the first entry with the closest ranks.
QuantileValue(summary, target) ==
    LET es   == summary.entries
        low  == Max({1, target - RankError(summary.count)})
        high == Min({target + RankError(summary.count), Max({1, summary.count})})
        Least[i \in 0 .. Len(es)] == IF i = 0 THEN 0 ELSE Least[i - 1] + es[i].gap
        least == Least
        Most(i)   == least[i] + es[i].delta
        Centre(i) == LET d == least[i] + es[i].delta \div 2 - target IN IF d < 0 THEN 0 - d ELSE d
        Miss(i)   == IF Most(i) < low THEN low - Most(i) ELSE Max({0, least[i] - high})
        overlap == {i \in DOMAIN es : least[i] <= high /\ Most(i) >= low}
        First(S, Key(_)) == CHOOSE i \in S : \A j \in S : Key(i) < Key(j) \/ (Key(i) = Key(j) /\ i <= j)
    IN  es[IF overlap # {} THEN First(overlap, Centre) ELSE First(DOMAIN es, Miss)].value

\* The ranks at which an axis with total coordinates is cut into bins.
Targets(bins, total) == [b \in 1 .. bins - 1 |-> CeilDiv(b * total, bins)]

Summarized(values) == FoldLeft(Observe, EmptySummary, values)

\* finish_pass of a quantile planner.
QuantileCuts(summary, targets) ==
    LET final == Compress(summary) IN [b \in DOMAIN targets |-> QuantileValue(final, targets[b])]

\* A value whose ranks among the values come within the error of a target.
WithinRankError(values, target, v) ==
    LET below   == Cardinality({i \in DOMAIN values : values[i] < v})
        notMore == Cardinality({i \in DOMAIN values : values[i] <= v})
    IN  below + 1 <= target + RankError(Len(values)) /\ notMore >= target - RankError(Len(values))

-----------------------------------------------------------------------------
\* The histogram of an axis; buckets count from 1.
BucketIndex(low, high, buckets, value) ==
    IF buckets <= 1 \/ high <= low THEN 1
    ELSE 1 + (2 * (value - low) * (buckets - 1) + (high - low)) \div (2 * (high - low))

Histogram(values, buckets) ==
    LET low  == Min(ToSet(values))
        high == Max(ToSet(values))
    IN  [b \in 1 .. buckets |->
            Cardinality({i \in DOMAIN values : BucketIndex(low, high, buckets, values[i]) = b})]

\* smooth_histogram; a bucket at the edge counts itself for its neighbour.
Smoothed(counts) ==
    [b \in DOMAIN counts |->
        counts[IF b > 1 THEN b - 1 ELSE b] + 2 * counts[b]
            + counts[IF b < Len(counts) THEN b + 1 ELSE b]]

\* The valley before bucket b of the segment of buckets from first to last, with
\* twice its density and twice its depth.
Valley(smoothed, first, last, b) ==
    LET density == smoothed[b - 1] + smoothed[b]
        left    == Max({smoothed[i] : i \in first .. b - 1})
        right   == Max({smoothed[i] : i \in b .. last})
    IN  [bucket |-> b, density |-> density, depth |-> 2 * Min({left, right}) - density]

\* Deeper, then sparser, then first.
Better(v, w) ==
    \/ v.depth > w.depth
    \/ v.depth = w.depth /\ v.density < w.density
    \/ v.depth = w.depth /\ v.density = w.density /\ v.bucket <= w.bucket

\* The segments are cut one at a time at the best valley of any of them; the
\* cuts are the edges before these buckets.
ValleyBuckets(counts, bins) ==
    LET s == Smoothed(counts)
        Segment(cuts, b) ==
            [first |-> Max({1} \cup {c \in cuts : c < b}),
             last  |-> Min({Len(counts)} \cup {c - 1 : c \in {c \in cuts : c > b}})]
        Free(cuts) == {b \in 2 .. Len(counts) : b \notin cuts}
        Valleys(cuts) == {Valley(s, Segment(cuts, b).first, Segment(cuts, b).last, b) : b \in Free(cuts)}
        Cut[n \in 0 .. bins - 1] ==
            IF n = 0 THEN {}
            ELSE LET cuts == Cut[n - 1]
                     vs   == Valleys(cuts)
                 IN  IF vs = {} THEN cuts
                     ELSE cuts \cup {(CHOOSE v \in vs : \A w \in vs : Better(v, w)).bucket}
    IN  Cut[bins - 1]

\* The edge before a bucket, times the number of buckets.
BucketEdge(low, high, buckets, b) == low * buckets + (high - low) * (b - 1)

-----------------------------------------------------------------------------
\* assign_point_to_cell, one axis: the cuts below the coordinate.
BinOf(cuts, value) == Cardinality({i \in DOMAIN cuts : value > cuts[i]})

\* Weighted bins: one for every axis and the rest of the budget shared out; what
\* the shares are depends on the axis scores.  Log bits: the bits of a budget
\* that is a power of two.
WeightedBins(axes, budget) ==
    IF budget < axes THEN {}
    ELSE {bins \in [1 .. axes -> 1 .. budget] : FoldFunction(LAMBDA m, n : m + n, 0, bins) = budget}

LogBitBins(axes, budget) ==
    {bins \in [1 .. axes -> {2 ^ k : k \in 0 .. budget}] : FoldFunction(LAMBDA m, n : m * n, 1, bins) = budget}

-----------------------------------------------------------------------------
(* What the trainers of lexongraph share.  A trainer is a record of its state, *)
(* its replay phase, the embeddings of the current pass, those of the first    *)
(* pass (its fingerprint) and its model; a call is a function from a trainer   *)
(* to the trainer it leaves and its answer, or to the set of what it may leave *)
(* when numerics decide.                                                       *)
(* An embedding is an integer; equal integers are equal embeddings, and Bad is *)
(* one that validate_embedding or the check of its norm refuses.               *)

Bad == 0 - 1

NoModel == [of |-> "none"]
NewTrainer == [state |-> "Idle", phase |-> [at |-> "AnalyzePca"], pass |-> <<>>, base |-> <<>>, model |-> NoModel]

Answer(is) == [is |-> is, observed |-> 0, clusters |-> 0]
Analysis(n) == [is |-> "analysis", observed |-> n, clusters |-> 0]
Ready(n, k) == [is |-> "ready", observed |-> n, clusters |-> k]
Leaves(t, answer) == [t |-> t, answer |-> answer]

\* A refusal after which the trainer goes on as before.
RefusedOnly(t) == Leaves(t, Answer("invalid"))

\* invalid_transition: a call out of turn.
InvalidTransition(t) == Leaves([t EXCEPT !.state = "Error"], Answer("invalid"))

\* fail: every error of finish_pass, its own call out of turn included.
Fails(t) == Leaves([t EXCEPT !.state = "Error", !.pass = <<>>], Answer("error"))
FinishOutOfTurn(t) == Leaves([t EXCEPT !.state = "Error", !.pass = <<>>], Answer("invalid"))

Usable(t) == t.state \in {"Idle", "Ingesting", "PassComplete"}
HasBad(batch) == Bad \in ToSet(batch)
BeforeBad(batch) == SelectInSeq(batch, LAMBDA e : e = Bad)

\* ingest_batch that takes one embedding after the other: those before the one
\* it refuses stay in the pass.
IngestEach(t, batch) ==
    IF ~Usable(t) THEN InvalidTransition(t)
    ELSE IF HasBad(batch)
         THEN Leaves([t EXCEPT !.state = "Ingesting", !.pass = @ \o SubSeq(batch, 1, BeforeBad(batch) - 1)],
                     Answer("malformed"))
         ELSE Leaves([t EXCEPT !.state = "Ingesting", !.pass = @ \o batch], Answer("ok"))

\* ingest_batch that checks the whole batch first.
IngestWhole(t, batch) ==
    IF ~Usable(t) THEN InvalidTransition(t)
    ELSE IF HasBad(batch) THEN Leaves([t EXCEPT !.state = "Ingesting"], Answer("malformed"))
    ELSE Leaves([t EXCEPT !.state = "Ingesting", !.pass = @ \o batch], Answer("ok"))

\* A pass that only counts its items.
ReplaysCount(t) == t.base = <<>> \/ Len(t.base) = Len(t.pass)

\* validate_replayed_pass, or the first pass.
Replays(t) == t.base = <<>> \/ t.base = t.pass

\* A completed pass.
Completed(t, phase, model, answer) ==
    Leaves([state |-> "PassComplete", phase |-> phase, pass |-> <<>>, base |-> t.pass, model |-> model], answer)

\* complete_training that takes any completed pass.
CompleteAny(t) ==
    IF t.state # "PassComplete" THEN InvalidTransition(t)
    ELSE Leaves([t EXCEPT !.state = "TrainingComplete"], Answer("ok"))

\* into_classifier.
Classifies(t) == t.state = "TrainingComplete" /\ t.model # NoModel

-----------------------------------------------------------------------------
(* The directional trainer.                                                    *)

\* The parameters of a trainer: the policies for the bins and the cuts, whether
\* the requested number of clusters must be met, and the smallest input.
Params == [allocation: {"weighted", "logbits"}, binning: {"quantile", "density"}, exact: BOOLEAN, min: {2}]

Axes == 1 .. 2
Coordinate(e, axis) == IF axis = 1 THEN e \div 2 ELSE e % 2
Along(items, axis) == [i \in DOMAIN items |-> Coordinate(items[i], axis)]

LeastInput(p, k) == IF p.exact THEN Max({p.min, k}) ELSE p.min

BinChoices(p, k) ==
    IF p.allocation = "weighted" THEN WeightedBins(2, k) ELSE LogBitBins(2, k)

\* The first pass.  Rank or variance too low, or a budget that the axes cannot
\* share, is an error that comes after the baseline is set.
FinishAxes(t, p, k) ==
    LET n == Len(t.pass) IN
    IF n = 0 \/ n < LeastInput(p, k) THEN {Fails(t)}
    ELSE {Fails([t EXCEPT !.base = t.pass])}
         \cup {Completed(t, [at |-> "PlanCuts", bins |-> bins, stage |-> 1], NoModel, Analysis(n)) :
               bins \in BinChoices(p, k)}

\* The planners of an axis: one bin needs no cut, quantiles one pass, valleys one
\* pass for the range and one for the histogram.
PlannersReady(p, phase) ==
    p.binning = "quantile" \/ phase.stage = 2 \/ \A axis \in Axes : phase.bins[axis] <= 1

BucketCap == 256
Buckets(bins) == Min({Max({2, bins}), BucketCap})

\* The cuts of an axis, with the factor they are scaled by.
CutsOf(p, items, bins) ==
    LET low  == Min(ToSet(items))
        high == Max(ToSet(items))
        buckets == Buckets(bins)
    IN  IF bins <= 1 THEN [scale |-> 1, cuts |-> <<>>]
        ELSE IF p.binning = "quantile"
             THEN [scale |-> 1, cuts |-> QuantileCuts(Summarized(items), Targets(bins, Len(items)))]
             ELSE [scale |-> buckets,
                   cuts  |-> IF low >= high THEN <<>>
                             ELSE SetToSortSeq({BucketEdge(low, high, buckets, b) :
                                                  b \in ValleyBuckets(Histogram(items, buckets), bins)}, <)]

FinishCuts(t, p, k) ==
    IF ~Replays(t) THEN Fails(t)
    ELSE Completed(t,
            IF PlannersReady(p, t.phase)
            THEN [at |-> "CountCells",
                  cuts |-> [axis \in Axes |-> CutsOf(p, Along(t.pass, axis), t.phase.bins[axis])]]
            ELSE [t.phase EXCEPT !.stage = 2],
            NoModel, Analysis(Len(t.pass)))

\* The cell of an embedding.
CellOf(cuts, e) ==
    [axis \in Axes |-> BinOf(cuts[axis].cuts, Coordinate(e, axis) * cuts[axis].scale)]

KeyBefore(x, y) == x[1] < y[1] \/ (x[1] = y[1] /\ x[2] < y[2])
CellsOf(cuts, items) ==
    LET cells == {CellOf(cuts, items[i]) : i \in DOMAIN items}
    IN  [c \in 1 .. Cardinality(cells) |-> CHOOSE x \in cells : Cardinality({y \in cells : KeyBefore(y, x)}) = c - 1]
InCell(cuts, items, cell) == {i \in DOMAIN items : CellOf(cuts, items[i]) = cell}

TooManyCells(cells, k) == cells > k

\* The pass that counts the members of the cells, and whether they coincide.
FinishCounting(t, p, k) ==
    LET cuts  == t.phase.cuts
        keys  == CellsOf(cuts, t.pass)
        count == [c \in DOMAIN keys |-> Cardinality(InCell(cuts, t.pass, keys[c]))]
        same  == [c \in DOMAIN keys |-> Cardinality({t.pass[i] : i \in InCell(cuts, t.pass, keys[c])}) = 1]
        plan  == ReadyPlan(count, same, k)
    IN  IF ~Replays(t) \/ keys = <<>> \/ TooManyCells(Len(keys), k) \/ PlanRefused(plan, k, p.exact)
        THEN Fails(t)
        ELSE Completed(t, [at |-> "RealizePartition", cuts |-> cuts, keys |-> keys, plan |-> plan],
                       NoModel, Ready(Len(t.pass), Realized(plan)))

\* The cluster of every embedding of a realization pass: its cell, and how many
\* of that cell came before.
ClusterIn(phase, cell, seen) ==
    LET c == SelectInSeq(phase.keys, LAMBDA x : x = cell)
    IN  IF c = 0 THEN 0 ELSE ClusterAt(phase.plan, c, seen)

Clusters(phase, items) ==
    [i \in DOMAIN items |->
        LET cell == CellOf(phase.cuts, items[i])
        IN  ClusterIn(phase, cell, Cardinality({j \in 1 .. i - 1 : CellOf(phase.cuts, items[j]) = cell}))]

\* ingest_batch: the batch is checked, then taken; in the last pass the first
\* embedding in no cell of the plan is an error that leaves those before it, and
\* one past the last cluster an index out of range.
DirectionalIngest(t, batch) ==
    IF ~Usable(t) \/ HasBad(batch) \/ t.phase.at # "RealizePartition" THEN IngestWhole(t, batch)
    ELSE LET items    == t.pass \o batch
             clusters == Clusters(t.phase, items)
             lost     == {i \in DOMAIN items : clusters[i] = 0}
             beyond   == {i \in DOMAIN items : clusters[i] > Realized(t.phase.plan)}
         IN  IF lost \cup beyond = {} THEN IngestWhole(t, batch)
             ELSE IF Min(lost \cup beyond) \in beyond
                  THEN Leaves([t EXCEPT !.state = "Panicked"], Answer("panic"))
                  ELSE Leaves([t EXCEPT !.state = "Ingesting", !.pass = SubSeq(items, 1, Min(lost) - 1)],
                              Answer("malformed"))

\* The realization pass: a cluster without members is an error.
FinishRealization(t, p, k) ==
    LET clusters == Clusters(t.phase, t.pass)
        n        == Realized(t.phase.plan)
    IN  IF ~Replays(t) \/ ToSet(clusters) # 1 .. n THEN Fails(t)
        ELSE Completed(t, t.phase, [of |-> "cells", clusters |-> clusters], Ready(Len(t.pass), n))

DirectionalFinish(t, p, k) ==
    IF t.state # "Ingesting" THEN {FinishOutOfTurn(t)}
    ELSE IF t.phase.at = "AnalyzePca" THEN FinishAxes(t, p, k)
    ELSE {IF t.phase.at = "PlanCuts" THEN FinishCuts(t, p, k)
          ELSE IF t.phase.at = "CountCells" THEN FinishCounting(t, p, k)
          ELSE FinishRealization(t, p, k)}

\* complete_training before there is a model is refused and changes nothing, not
\* even the state: the caller may go on.
DirectionalComplete(t) ==
    IF t.state = "PassComplete" /\ t.model = NoModel THEN Leaves(t, Answer("invalid")) ELSE CompleteAny(t)
=============================================================================
