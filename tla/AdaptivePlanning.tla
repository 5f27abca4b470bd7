-------------------------- MODULE AdaptivePlanning --------------------------
(* lexongraph-adaptive-planning-policy: the selector that lets a plan begin    *)
(* with directional PCA and change, once and for good, to DCBC.  At every      *)
(* boundary after the first, a trainer of its own is taken through its passes  *)
(* and its classifier then measures how far the embeddings lie from their      *)
(* centroids; the caller replays the embeddings and may do so in any order and *)
(* again after an error.  How large the mean radius is, is left open.          *)
EXTENDS DirectionalTrainer

CONSTANTS
    Configured,     \* settings: the trainer's parameters and its clusters
    Requests,       \* boundaries: items represented, embeddings, dimensions
    Batches,       \* the batches a caller may pass
    MaxItems,       \* embeddings of a pass, a bound
    MaxRecords      \* decisions, a bound

VARIABLES settings, switched, records, boundary

vars == <<settings, switched, records, boundary>>

Decision(reason, algorithm, switch, represented) ==
    [reason |-> reason, algorithm |-> algorithm, switch |-> switch, represented |-> represented]

\* active_boundary; "none" is the absence of one.  A measurement that is over is
\* gone, and so is a trainer that became a classifier.
NoBoundary == [phase |-> "none"]
NewBoundary(request, clusters) ==
    [phase |-> "collecting", represented |-> request.represented, count |-> request.count, clusters |-> clusters,
     ready |-> 0, trainer |-> NewTrainer, measuring |-> FALSE, observed |-> 0, passes |-> 0]

Init ==
    /\ settings \in Configured
    /\ switched = FALSE /\ records = <<>> /\ boundary = NoBoundary

\* diagnostic_cluster_count: no more clusters than embeddings, and a power of two
\* for log bits.
PowerAtMost(n) == Max({2 ^ e : e \in {e \in 0 .. n : 2 ^ e <= n}})
DiagnosticClusters(s, count) ==
    LET capped == Min({s.clusters, Max({count, 1})})
    IN  IF s.params.allocation = "logbits" /\ capped > 1 THEN PowerAtMost(capped) ELSE capped

\* A boundary that cannot be measured, and a trainer that refuses its settings:
\* as many axes are retained as there are coordinates.
Refused(request) ==
    \/ request.represented = 0 \/ request.count = 0
    \/ request.represented < request.count
    \/ request.dimensions < Cardinality(Axes)

\* begin_selection_boundary; an error leaves everything as it is.
BeginBoundary(request) ==
    /\ boundary = NoBoundary /\ Len(records) < MaxRecords
    /\ \/ /\ switched
          /\ records' = Append(records, Decision("previously", "dcbc", FALSE, 0))
          /\ UNCHANGED boundary
       \/ /\ ~switched /\ records = <<>>
          /\ records' = Append(records, Decision("initial", "directional", FALSE, 0))
          /\ UNCHANGED boundary
       \/ /\ ~switched /\ records # <<>> /\ ~Refused(request)
          /\ boundary' = NewBoundary(request, DiagnosticClusters(settings, request.count))
          /\ UNCHANGED records
    /\ UNCHANGED <<settings, switched>>

Kept(b) == boundary' = b /\ UNCHANGED <<settings, switched, records>>

\* A panic of the trainer ends the run.
Alive == boundary # NoBoundary /\ boundary.trainer.state # "Panicked"

\* observe_batch: the measurement keeps the embeddings before one that it refuses.
Observed(n, batch) == n + IF HasBad(batch) THEN BeforeBad(batch) - 1 ELSE Len(batch)

\* ingest_selection_batch: to the trainer, or to the measurement.
IngestSelection(batch) ==
    /\ Alive
    /\ \/ /\ boundary.phase = "collecting" /\ Len(boundary.trainer.pass) + Len(batch) <= MaxItems
          /\ \E leaves \in {DirectionalIngest(boundary.trainer, batch)} : Kept([boundary EXCEPT !.trainer = leaves.t])
       \/ /\ boundary.phase = "measuring" /\ boundary.measuring
          /\ boundary.observed + Len(batch) <= MaxItems
          /\ Kept([boundary EXCEPT !.observed = Observed(@, batch)])

\* The second pass that has a partition makes the trainer a classifier.
Classifying(b) ==
    LET completed == DirectionalComplete(b.trainer) IN
    IF completed.answer.is = "ok" /\ Classifies(completed.t)
    THEN [b EXCEPT !.trainer = completed.t, !.phase = "measuring", !.measuring = TRUE]
    ELSE [b EXCEPT !.trainer = NewTrainer, !.phase = "lost"]

AfterPass(b, leaves) ==
    LET after == [b EXCEPT !.trainer = leaves.t, !.passes = @ + 1] IN
    IF leaves.answer.is \notin {"analysis", "ready"} THEN [b EXCEPT !.trainer = leaves.t]
    ELSE IF leaves.answer.is = "analysis" THEN after
    ELSE IF b.ready + 1 < 2 THEN [after EXCEPT !.ready = @ + 1]
    ELSE Classifying([after EXCEPT !.ready = @ + 1])

MeasuredWrong(b) == b.observed = 0 \/ b.observed # b.count

\* finish_selection_pass.  A measurement is taken before it is looked at, so a
\* wrong one leaves a boundary that cannot be ended any more.
FinishSelection ==
    /\ Alive
    /\ \/ /\ boundary.phase = "collecting"
          /\ \E leaves \in DirectionalFinish(boundary.trainer, settings.params, boundary.clusters) :
                Kept(AfterPass(boundary, leaves))
       \/ /\ boundary.phase = "measuring" /\ boundary.measuring
          /\ IF MeasuredWrong(boundary) THEN Kept([boundary EXCEPT !.measuring = FALSE])
             ELSE \E above \in BOOLEAN :
                    /\ switched' = (switched \/ above)
                    /\ records' = Append(records, Decision("evaluated", IF above THEN "dcbc" ELSE "directional",
                                                           above, boundary.represented))
                    /\ boundary' = NoBoundary
                    /\ UNCHANGED settings

Next ==
    \/ \E request \in Requests : BeginBoundary(request)
    \/ \E batch \in Batches : IngestSelection(batch)
    \/ FinishSelection

Spec == Init /\ [][Next]_vars

-----------------------------------------------------------------------------
\* A limit that leaves no pass for the measurement.
LimitBeforeMeasuring(count) == Max({count + 3, 1})

\* select_adaptive_algorithm_for_boundary: the passes the indexer allows for.
SelectionPassLimit(count) == Max({count + 4, 1})

\* The decisions tell one story: directional PCA first, then decisions that were
\* measured, at most one of them the switch, and DCBC for ever after it.  A
\* trainer is never asked to complete before it can, a measurement is made with
\* the classifier of one unchanged pass, and the indexer, which replays what it
\* declared, is never stopped by its own limit on the passes.
SelectionHonest ==
    /\ \A i \in DOMAIN records :
          /\ records[i].reason = "initial" <=> i = 1
          /\ records[i].reason = "previously" <=> \E j \in 1 .. i - 1 : records[j].switch
          /\ records[i].algorithm = "dcbc" <=> \E j \in 1 .. i : records[j].switch
          /\ records[i].reason = "evaluated" => records[i].represented > 0
    /\ switched <=> \E i \in DOMAIN records : records[i].switch
    /\ boundary # NoBoundary =>
          /\ ~switched /\ boundary.phase # "lost"
          /\ boundary.phase = "measuring" =>
                Classifies(boundary.trainer) /\ Len(boundary.trainer.model.clusters) = Len(boundary.trainer.base)
          /\ boundary.trainer.state \in {"PassComplete", "TrainingComplete"} /\ Len(boundary.trainer.base) = boundary.count =>
                boundary.passes < SelectionPassLimit(boundary.count)
=============================================================================
