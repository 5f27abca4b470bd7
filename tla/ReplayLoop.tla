----------------------------- MODULE ReplayLoop -----------------------------
(* run_v3_replay_until_ready: the items of a partition are replayed to a       *)
(* directional-PCA trainer, pass after pass, until it completes.  A pass reads *)
(* the partition batch by batch, and a read may fail; the run may be cancelled *)
(* at any time; the number of passes is limited.                               *)
EXTENDS DirectionalTrainer

CONSTANTS
    Partitions,     \* the partitions, as sequences of embeddings
    ReadBatch,      \* embeddings of a batch
    MaxReplayPasses \* V3_MAX_REPLAY_PASSES

VARIABLES
    items, params, requested,   \* the partition and the trainer's settings
    trainer,
    at,             \* "begin", "replay", "finish", "complete" or "returned"
    passes,         \* replay_passes
    sent,           \* items of this pass given to the trainer
    readiness,      \* of the last report
    cancelled,
    returned        \* "none", "ready", or the error

vars == <<items, params, requested, trainer, at, passes, sent, readiness, cancelled, returned>>
Fixed == <<items, params, requested>>

\* A limit that a pass for every item reaches, and no more.
TightPassLimit == Max({1, Min({Len(items) + 2, MaxReplayPasses})})

ReplayPassLimit == Max({1, Min({Len(items) + 4, MaxReplayPasses})})

Init ==
    /\ items \in Partitions /\ params \in Params /\ requested \in {2, 3}
    /\ params.allocation = "logbits" => requested = 2
    /\ trainer = NewTrainer /\ at = "begin" /\ passes = 0 /\ sent = 0
    /\ readiness = "none" /\ cancelled = FALSE /\ returned = "none"

Return(how) == at' = "returned" /\ returned' = how

Cancel ==
    /\ ~cancelled /\ returned = "none" /\ cancelled' = TRUE
    /\ UNCHANGED <<Fixed, trainer, at, passes, sent, readiness, returned>>

\* A new pass, unless cancelled or one too many.
LimitExceeded(n) == n > ReplayPassLimit

BeginPass ==
    /\ at = "begin" /\ sent' = 0
    /\ IF cancelled THEN Return("cancelled") /\ UNCHANGED passes
       ELSE /\ passes' = passes + 1
            /\ IF LimitExceeded(passes + 1) THEN Return("too many passes")
               ELSE at' = "replay" /\ UNCHANGED returned
    /\ UNCHANGED <<Fixed, trainer, readiness, cancelled>>

\* replay_partition: a batch is read and given to the trainer.
Replay ==
    /\ at = "replay" /\ sent < Len(items)
    /\ sent' = Min({sent + ReadBatch, Len(items)})
    /\ \E leaves \in {DirectionalIngest(trainer, SubSeq(items, sent + 1, Min({sent + ReadBatch, Len(items)})))} :
        /\ trainer' = leaves.t
        /\ IF leaves.answer.is = "ok" THEN UNCHANGED <<at, returned>> ELSE Return("ingest failed")
    /\ UNCHANGED <<Fixed, passes, readiness, cancelled>>

ReadFails ==
    /\ at = "replay" /\ sent < Len(items) /\ Return("read failed")
    /\ UNCHANGED <<Fixed, trainer, passes, sent, readiness, cancelled>>

ReplayEnds ==
    /\ at = "replay" /\ sent = Len(items)
    /\ IF cancelled THEN Return("cancelled") ELSE at' = "finish" /\ UNCHANGED returned
    /\ UNCHANGED <<Fixed, trainer, passes, sent, readiness, cancelled>>

\* finish_pass; the report must count every item.
FinishPass ==
    /\ at = "finish"
    /\ \E leaves \in DirectionalFinish(trainer, params, requested) :
        /\ trainer' = leaves.t
        /\ readiness' = leaves.answer.is
        /\ IF leaves.answer.is \notin {"analysis", "ready"} THEN Return("pass failed")
           ELSE IF leaves.answer.observed # Len(items) THEN Return("items lost")
           ELSE at' = (IF leaves.answer.is = "ready" THEN "complete" ELSE "begin") /\ UNCHANGED returned
    /\ UNCHANGED <<Fixed, passes, sent, cancelled>>

\* complete_training; a trainer that is between passes only wants another one.
CompleteTraining ==
    /\ at = "complete"
    /\ \E leaves \in {DirectionalComplete(trainer)} :
        /\ trainer' = leaves.t
        /\ IF leaves.answer.is = "ok" THEN Return("ready")
           ELSE IF trainer.state = "PassComplete" THEN at' = "begin" /\ UNCHANGED returned
           ELSE Return("not complete")
    /\ UNCHANGED <<Fixed, passes, sent, readiness, cancelled>>

Next == Cancel \/ BeginPass \/ Replay \/ ReadFails \/ ReplayEnds \/ FinishPass \/ CompleteTraining

Spec == Init /\ [][Next]_vars

-----------------------------------------------------------------------------
\* A loop that returns with success has a model of the whole partition, from
\* passes that each replayed it exactly; the trainer's calls are never out of
\* turn, no item is lost on the way, and the limit on the passes is never what
\* stops a partition.
ReplayExact ==
    /\ returned \notin {"too many passes", "items lost", "not complete", "ingest failed"}
    /\ returned = "ready" =>
          trainer.base = items /\ Classifies(trainer) /\ Len(trainer.model.clusters) = Len(items)
=============================================================================
