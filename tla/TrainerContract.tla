--------------------------- MODULE TrainerContract ---------------------------
(* What lexongraph-streaming-clustering promises of a StreamingClusterTrainer, *)
(* as its conformance suite checks it: the states a trainer goes through, that *)
(* a first pass that is too small fails, that a later pass completes only if   *)
(* it replays the first, that cluster ids stay the same once a pass reported   *)
(* them, that only a trainer that reported them gives a classifier, and that a *)
(* call out of turn is refused and ends the training, DSG-STREAM-TRAIT-007:    *)
(* "with terminal failure on illegal transitions".                             *)
EXTENDS Naturals, Sequences, SequencesExt

VARIABLES
    requested,      \* cluster_count of the configuration
    least,          \* the smallest first pass
    lenient,        \* the trainer has the exemption of NotReady
    state,          \* TrainerState
    pass,           \* the embeddings taken in since the pass began
    base,           \* those of the first pass; <<>> before it is complete
    ids,            \* the number of cluster ids reported; 0 before that
    handed,         \* into_classifier answered with a classifier
    last            \* the last call and its answer

config == <<requested, least, lenient>>
vars == <<config, state, pass, base, ids, handed, last>>

Call(name, answer) == [call |-> name, answer |-> answer]

Init ==
    /\ requested \in Nat \ {0} /\ least \in Nat /\ lenient \in BOOLEAN
    /\ state = "Idle" /\ pass = <<>> /\ base = <<>> /\ ids = 0 /\ handed = FALSE
    /\ last = Call("new", "ok")

Ingest ==
    /\ state \in {"Idle", "Ingesting", "PassComplete"}
    /\ state' = "Ingesting"
    /\ IsPrefix(pass, pass')
    /\ last' \in {Call("ingest_batch", "ok"), Call("ingest_batch", "malformed")}
    /\ UNCHANGED <<config, base, ids, handed>>

\* The report of an analysis pass has no cluster ids; that of a partition has
\* between one and the requested number, the same in every such pass.
FinishPass ==
    /\ state = "Ingesting"
    /\ IF base = <<>> THEN Len(pass) >= least ELSE pass = base
    /\ state' = "PassComplete" /\ base' = pass /\ pass' = <<>>
    /\ \/ last' = Call("finish_pass", "analysis") /\ ids' = ids
       \/ last' = Call("finish_pass", "ready") /\ ids' \in 1 .. requested /\ ids \in {0, ids'}
    /\ UNCHANGED <<config, handed>>

CompleteTraining ==
    /\ state = "PassComplete" /\ ids # 0
    /\ state' = "TrainingComplete" /\ last' = Call("complete_training", "ok")
    /\ UNCHANGED <<config, pass, base, ids, handed>>

IntoClassifier ==
    /\ state = "TrainingComplete" /\ handed' = TRUE /\ last' = Call("into_classifier", "ok")
    /\ UNCHANGED <<config, state, pass, base, ids>>

\* There is no way back from an error.
Terminal == state' = "Error" /\ pass' = <<>> /\ base' = <<>> /\ UNCHANGED <<config, ids, handed>>

\* A pass that cannot be completed, or an index out of range in the middle of one.
Fail ==
    /\ \/ state = "Ingesting" /\ last' = Call("finish_pass", "error")
       \/ state \in {"Idle", "Ingesting", "PassComplete"} /\ last' = Call("ingest_batch", "panic")
    /\ Terminal

\* Only a call out of turn is refused as one, and it is the last that matters.
OutOfTurn(name) ==
    \/ name = "ingest_batch" /\ state \in {"TrainingComplete", "Error"}
    \/ name = "finish_pass" /\ state # "Ingesting"
    \/ name = "complete_training" /\ (state # "PassComplete" \/ ids = 0)

Refuse ==
    /\ ~handed
    /\ \E name \in {"ingest_batch", "finish_pass", "complete_training"} :
           OutOfTurn(name) /\ last' = Call(name, "invalid")
    /\ Terminal

\* The exemption: complete_training after a completed pass that left no model is
\* refused as a call out of turn and yet nothing changes, so that the caller can
\* go on with another pass.  DSG-STREAM-INDEXER-126 has its callers do so: they
\* replay "until [...] the trainer has reported PassReadiness::PartitionReady and
\* complete_training() succeeds".  The rule above, DSG-DPCA-STREAM-005 ("enter the
\* terminal error state required by the shared contract") and REQ-DPCA-STREAM-019
\* do not provide for it.
NotReady ==
    /\ lenient /\ state = "PassComplete" /\ last' = Call("complete_training", "invalid")
    /\ UNCHANGED <<config, state, pass, base, ids, handed>>

Next == Ingest \/ FinishPass \/ CompleteTraining \/ IntoClassifier \/ Fail \/ Refuse \/ NotReady

Spec == Init /\ [][Next]_vars
=============================================================================
