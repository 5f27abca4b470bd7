-------------------------- MODULE StreamingTrainers --------------------------
(* A trainer of one of the four algorithms and a caller that may call it in    *)
(* any order, with batches that hold an embedding it refuses, with passes that *)
(* do not replay the first and again after an error.                           *)
EXTENDS DirectionalTrainer

-----------------------------------------------------------------------------
(* The two trainers that keep a pass in memory and fit it when it ends:        *)
(* lexongraph-spherical-kmeans and lexongraph-dcbc-streaming.  How far an      *)
(* embedding is from a centroid is left open, so a k-means assignment may be   *)
(* any; what the code does with it is not.                                     *)

\* Spherical k-means: a cluster without members takes one from the largest
\* cluster that can spare one, the first of these; which member is farthest is
\* open.
MembersOf(assignment, c) == {i \in DOMAIN assignment : assignment[i] = c}

Donors(assignment, k) ==
    LET Size(c) == Cardinality(MembersOf(assignment, c))
    IN  {c \in 1 .. k : Size(c) > 1 /\ \A d \in 1 .. k :
            Size(d) < Size(c) \/ (Size(d) = Size(c) /\ c <= d)}

\* What the repair of the first empty cluster may give.
RepairOne(a, k) ==
    LET empty == {c \in 1 .. k : MembersOf(a, c) = {}} IN
    IF empty = {} \/ Donors(a, k) = {} THEN {a}
    ELSE {[a EXCEPT ![i] = Min(empty)] : i \in UNION {MembersOf(a, d) : d \in Donors(a, k)}}

\* What repair_empty_clusters may end with.
RepairEmpty(assignment, k) ==
    LET Repaired[n \in 0 .. k] ==
            IF n = 0 THEN {assignment} ELSE UNION {RepairOne(a, k) : a \in Repaired[n - 1]}
    IN  Repaired[k]

\* The nearest centroid of every embedding: any, as distances are open.
Assigned(n, k) == [1 .. n -> 1 .. k]

\* What the last of the rounds of assignment and repair may give.
Fitted(n, k) == UNION {RepairEmpty(a, k) : a \in Assigned(n, k)}

\* The centroids of the clusters; one with norm zero is an error.
KmeansModel == [of |-> "centroids"]

\* The first pass is the baseline before the fit, which may fail.
KmeansFinish(t, k) ==
    LET n == Len(t.pass) IN
    IF t.state # "Ingesting" THEN {FinishOutOfTurn(t)}
    ELSE IF n = 0 \/ n < k \/ ~Replays(t) THEN {Fails(t)}
    ELSE {Fails([t EXCEPT !.base = t.pass]), Completed(t, t.phase, KmeansModel, Ready(n, k))}

-----------------------------------------------------------------------------
\* DCBC: the bounds of a cluster's size; a bound of 0 is one that is not given.
\* Without an upper bound a cluster may take all that the others need not have.
OccupancyBounds(n, k, lower, upper) ==
    LET low == IF lower = 0 THEN 1 ELSE lower
    IN  [min |-> low, max |-> IF upper # 0 THEN upper ELSE n - (k - 1) * low]

BoundsInfeasible(n, k, b) == k * b.min > n \/ n > k * b.max

\* An iteration: an assignment within the bounds and its centroids.
BalancedModel(b) == [of |-> "balanced", bounds |-> b]

\* The bounds are derived in the first pass, which is the baseline before the
\* iteration; a value that is not finite is an error.
DcbcFinish(t, k, lower, upper) ==
    LET n == Len(t.pass)
        b == OccupancyBounds(n, k, lower, upper)
    IN  IF t.state # "Ingesting" THEN {FinishOutOfTurn(t)}
        ELSE IF (t.base = <<>> /\ (n < k \/ BoundsInfeasible(n, k, b))) \/ ~Replays(t) THEN {Fails(t)}
        ELSE {Fails([t EXCEPT !.base = t.pass]), Completed(t, t.phase, BalancedModel(b), Ready(n, k))}

-----------------------------------------------------------------------------
(* lexongraph-pca-chunking: the items are cut into contiguous chunks of their  *)
(* order along the principal axes.  Nothing is kept of a pass but the smallest *)
(* sort key above the last one found and how many items have it, so a boundary *)
(* is reached one distinct key per pass; a boundary that would separate equal  *)
(* keys is an error.  Here the sort key of an embedding is the embedding.      *)

\* Boundaries that leave all the surplus to the last chunk.
EvenTargets(n, k) == [c \in 1 .. k - 1 |-> c * (n \div k)]

\* boundary_targets: the items before every boundary but the last.
ChunkTargets(n, k) ==
    [c \in 1 .. k - 1 |-> c * (n \div k) + Min({c, n % k})]

ChunkModel(uppers) == [of |-> "chunks", uppers |-> uppers]

\* The first pass: with one chunk there is nothing to find.
FinishPca(t, k) ==
    LET n == Len(t.pass) IN
    IF n = 0 \/ n < k THEN {Fails(t)}
    ELSE {Fails([t EXCEPT !.base = t.pass]),
          IF k = 1
          THEN Completed(t, [at |-> "Ready"], ChunkModel(<<>>), Ready(n, k))
          ELSE Completed(t, [at |-> "DiscoverBoundaries", found |-> 0, lower |-> 0 - 1, uppers |-> <<>>],
                         NoModel, Analysis(n))}

\* The smallest key above the last one found, and its items.
NextKeys(t) == {e \in ToSet(t.pass) : e > t.phase.lower}
KeyCount(t, key) == Cardinality({i \in DOMAIN t.pass : t.pass[i] = key})

\* A key may fill the chunk up, never run over its boundary.
SplitsKey(count, needed) == count > needed

FinishBoundary(t, k) ==
    LET n       == Len(t.base)
        targets == ChunkTargets(n, k)
        needed  == targets[Len(t.phase.uppers) + 1] - t.phase.found
        key     == Min(NextKeys(t))
        count   == KeyCount(t, key)
        uppers  == IF count = needed THEN Append(t.phase.uppers, key) ELSE t.phase.uppers
    IN  IF ~Replays(t) \/ NextKeys(t) = {} \/ SplitsKey(count, needed) THEN Fails(t)
        ELSE IF Len(uppers) = k - 1
             THEN Completed(t, [at |-> "Ready", uppers |-> uppers], ChunkModel(uppers), Ready(n, k))
             ELSE Completed(t, [t.phase EXCEPT !.found = @ + count, !.lower = key, !.uppers = uppers],
                            NoModel, Analysis(n))

FinishReady(t, k) ==
    IF ~Replays(t) THEN Fails(t) ELSE Completed(t, t.phase, t.model, Ready(Len(t.base), k))

ChunkingFinish(t, k) ==
    IF t.state # "Ingesting" THEN {FinishOutOfTurn(t)}
    ELSE IF t.phase.at = "AnalyzePca" THEN FinishPca(t, k)
    ELSE IF t.phase.at = "DiscoverBoundaries" THEN {FinishBoundary(t, k)}
    ELSE {FinishReady(t, k)}

\* complete_training without a model is a call out of turn.
ChunkingComplete(t) == IF t.model = NoModel THEN InvalidTransition(t) ELSE CompleteAny(t)

\* assign: chunks count from 1.
ChunkOf(model, e) == 1 + Cardinality({c \in DOMAIN model.uppers : e > model.uppers[c]})

\* A model cuts the trained items into chunks whose sizes differ by one at most,
\* the larger ones first.
ChunksBalanced(model, items, k) ==
    \A c \in 1 .. k :
        Cardinality({i \in DOMAIN items : ChunkOf(model, items[i]) = c})
            = Len(items) \div k + IF c <= Len(items) % k THEN 1 ELSE 0

\* Such a cut that keeps equal keys together exists.
Chunkable(items, k) ==
    \A c \in 1 .. k - 1 :
        \E e \in ToSet(items) : Cardinality({i \in DOMAIN items : items[i] <= e}) = ChunkTargets(Len(items), k)[c]

-----------------------------------------------------------------------------
(* The trainer and its caller.                                                *)

CONSTANTS
    Settings,       \* the trainers a caller may configure
    Batches,        \* the batches a caller may pass
    MaxItems        \* embeddings of a pass, a bound

VARIABLES
    setting,        \* the algorithm, its parameters and the clusters requested
    trainer,
    ids,            \* cluster ids of the last report that had any; 0 before that
    handed,         \* a classifier was handed out; the trainer is gone
    last            \* the last call and how it was answered

vars == <<setting, trainer, ids, handed, last>>

\* Configurations that the constructors accept: at least one cluster.  An
\* embedding is a natural number or Bad.
TrainersAssumption ==
    /\ Settings \subseteq
           [algorithm : {"kmeans", "dcbc", "chunking"}, requested : Nat \ {0}, params : [lower : Nat, upper : Nat]]
           \cup [algorithm : {"directional"}, requested : Nat \ {0},
                 params : [allocation : {"weighted", "logbits"}, binning : {"quantile", "density"}, exact : BOOLEAN, min : Nat]]
    /\ Batches \subseteq Seq(Nat \cup {Bad})

Init ==
    /\ setting \in Settings
    /\ trainer = NewTrainer /\ ids = 0 /\ handed = FALSE
    /\ last = [call |-> "new", answer |-> "ok"]

\* What a call leaves, its answer and the report the caller keeps.
Answered(call, leaves) ==
    /\ trainer' = leaves.t
    /\ last' = [call |-> call, answer |-> leaves.answer.is]
    /\ ids' = IF leaves.answer.is = "ready" THEN leaves.answer.clusters ELSE ids
    /\ UNCHANGED <<setting, handed>>

IngestBatch(batch) ==
    /\ ~handed /\ Len(trainer.pass) + Len(batch) <= MaxItems
    /\ \/ setting.algorithm \in {"kmeans", "chunking"} /\ Answered("ingest_batch", IngestEach(trainer, batch))
       \/ setting.algorithm = "dcbc" /\ Answered("ingest_batch", IngestWhole(trainer, batch))
       \/ setting.algorithm = "directional" /\ trainer.state # "Panicked" /\ Answered("ingest_batch", DirectionalIngest(trainer, batch))

FinishPass ==
    /\ ~handed
    /\ \/ /\ setting.algorithm = "kmeans"
          /\ \E leaves \in KmeansFinish(trainer, setting.requested) : Answered("finish_pass", leaves)
       \/ /\ setting.algorithm = "chunking"
          /\ \E leaves \in ChunkingFinish(trainer, setting.requested) : Answered("finish_pass", leaves)
       \/ /\ setting.algorithm = "dcbc"
          /\ \E leaves \in DcbcFinish(trainer, setting.requested, setting.params.lower, setting.params.upper) :
                Answered("finish_pass", leaves)
       \/ /\ setting.algorithm = "directional" /\ trainer.state # "Panicked"
          /\ \E leaves \in DirectionalFinish(trainer, setting.params, setting.requested) : Answered("finish_pass", leaves)

CompleteTraining ==
    /\ ~handed /\ trainer.state # "Panicked"
    /\ \/ setting.algorithm \in {"kmeans", "dcbc"} /\ Answered("complete_training", CompleteAny(trainer))
       \/ setting.algorithm = "chunking" /\ Answered("complete_training", ChunkingComplete(trainer))
       \/ setting.algorithm = "directional" /\ Answered("complete_training", DirectionalComplete(trainer))

\* into_classifier consumes the trainer; when it refuses, the caller has nothing
\* left to call.
IntoClassifier ==
    /\ ~handed /\ Classifies(trainer)
    /\ handed' = TRUE /\ last' = [call |-> "into_classifier", answer |-> "ok"]
    /\ UNCHANGED <<setting, trainer, ids>>

Next == (\E batch \in Batches : IngestBatch(batch)) \/ FinishPass \/ CompleteTraining \/ IntoClassifier

Spec == Init /\ [][Next]_vars

-----------------------------------------------------------------------------
\* The trainer as the contract sees it: a panic is an error, and nothing of a
\* pass is left in a trainer in error.
Stopped == trainer.state \in {"Error", "Panicked"}

Contract == INSTANCE TrainerContract WITH
    requested <- setting.requested,
    least     <- IF setting.algorithm = "directional" THEN LeastInput(setting.params, setting.requested)
                 ELSE setting.requested,
    state     <- IF Stopped THEN "Error" ELSE trainer.state,
    pass      <- IF Stopped THEN <<>> ELSE trainer.pass,
    base      <- IF Stopped THEN <<>> ELSE trainer.base,
    lenient   <- setting.algorithm = "directional"

\* Every trainer keeps the shared contract, whatever was called before: states
\* only move as the conformance suite checks them, a pass completes only if it
\* is the first and large enough or replays the first exactly, cluster ids do
\* not change between the reports of two passes, there is no classifier without
\* such a report, and a call is refused as out of turn only when it is and then
\* ends the training.  Exempt from the last is the directional trainer's
\* complete_training between a pass and its model: NotReady of TrainerContract
\* quotes the documents that disagree about it.
ContractStep == [Contract!Next]_(Contract!vars)
TrainerContract == Contract!Spec

\* What a handed-out classifier was trained on is the first pass, item for item:
\* chunks are balanced to within one item, the cells of a directional partition
\* give every reported cluster a member, and DCBC's size bounds can be met.
ModelExact ==
    handed =>
        /\ setting.algorithm = "chunking" =>
              ChunksBalanced(trainer.model, trainer.base, setting.requested)
        /\ setting.algorithm = "directional" =>
              Len(trainer.model.clusters) = Len(trainer.base) /\ ToSet(trainer.model.clusters) = 1 .. ids
        /\ setting.algorithm = "dcbc" =>
              LET b == trainer.model.bounds
              IN  \E a \in [DOMAIN trainer.base -> 1 .. setting.requested] :
                    \A c \in 1 .. setting.requested : Cardinality(MembersOf(a, c)) \in b.min .. b.max
        /\ setting.algorithm = "kmeans" =>
              \A a \in Fitted(Len(trainer.base), setting.requested) :
                  \A c \in 1 .. setting.requested : MembersOf(a, c) # {}
=============================================================================
