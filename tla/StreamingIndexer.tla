-------------------------- MODULE StreamingIndexer --------------------------
(* StreamingIndexingRun of lexongraph-streaming-indexer, its first surface.   *)
(* The caller streams the data set through one or more planning passes, the   *)
(* first of which fixes the logical items and their order (the baseline), a   *)
(* planning policy groups the items of a pass into a partition hierarchy, and *)
(* finalize replays the items once more and writes the index: a leaf per item *)
(* and then branches, bottom up, partition by partition.                      *)
(*                                                                            *)
(* A call may fail at every point where it depends on someone else: the       *)
(* content resolver, the embedding provider, the planning policy, the block   *)
(* store, the spill files, or a caller that drops the future.  The caller may *)
(* then call again.  Blocks are content addressed: a block is a value, its    *)
(* identity is what it holds.                                                 *)
EXTENDS IndexTree

CONSTANTS
    Items,          \* what an item's four hashes (reference, metadata, content, embedding) tell apart
    Hierarchies,    \* the outcomes of the planning policy, well formed or not
    MaxBatch,       \* bound: the longest batch the caller passes
    MaxItems,       \* bound: the items of a pass
    MaxPasses       \* bound: the planning passes

VARIABLES
    phase,          \* RunPhase
    passes,         \* completed_passes
    baseline,       \* the items fixed by the first completed pass; <<>> before
    hierarchy,      \* finalized_hierarchy, or NoHierarchy
    current,        \* current_pass_items, kept in the first pass only
    buffered,       \* the length of current_pass_f32_embeddings
    seen,           \* items_seen_in_current_pass
    answer,         \* what the last call returned
    fin,            \* the locals of a running finalize
    store           \* the blocks in the block store

vars == <<phase, passes, baseline, hierarchy, current, buffered, seen, answer, fin, store>>
planning == <<phase, passes, baseline, hierarchy, current, buffered, seen>>

\* A partition is its path from the root, <<0>>.
NoPartition == <<>>
NoHierarchy == [root |-> NoPartition, parts |-> <<>>]
BatchInputs == UNION {[1 .. k -> Items] : k \in 1 .. MaxBatch}

-----------------------------------------------------------------------------
(* Partition hierarchies.  A hierarchy has a root and, per partition, its     *)
(* parent, its children in order, the positions of its items and whether it   *)
(* is terminal.                                                               *)

\* No position is in two children, and together they have exactly those of p.
ExactUnion(h, p) ==
    LET kids == h.parts[p].children IN
    /\ h.parts[p].items = UNION {h.parts[kids[i]].items : i \in DOMAIN kids}
    /\ \A i, j \in DOMAIN kids :
          i # j => h.parts[kids[i]].items \cap h.parts[kids[j]].items = {}

WellFormedPartition(h, p, n) ==
    LET part == h.parts[p] IN
    /\ part.items \subseteq 1 .. n
    /\ IF part.terminal THEN part.children = <<>> /\ part.items # {}
                        ELSE part.children # <<>>
    /\ \A k \in Range(part.children) : k \in DOMAIN h.parts /\ h.parts[k].parent = p

\* validate_partition_hierarchy: h partitions exactly n items.
ValidHierarchy(h, n) ==
    /\ h.root \in DOMAIN h.parts
    /\ h.parts[h.root].parent = NoPartition
    /\ \A p \in DOMAIN h.parts : WellFormedPartition(h, p, n)
    /\ \A p \in DOMAIN h.parts \ Terminals(h.parts) : ExactUnion(h, p)
    /\ h.parts[h.root].items = 1 .. n
    /\ Visited(h.root, h.parts) = DOMAIN h.parts

\* build_partition_routing_plan: the terminal partition of every position.
Routable(h, n) ==
    /\ ValidHierarchy(h, n)
    /\ \A i \in 1 .. n : \E t \in Terminals(h.parts) : i \in h.parts[t].items
    /\ \A t, u \in Terminals(h.parts) : t # u => h.parts[t].items \cap h.parts[u].items = {}

Route(h, i) == CHOOSE t \in Terminals(h.parts) : i \in h.parts[t].items

-----------------------------------------------------------------------------
Idle == [stage |-> "idle"]
Answer(call, ok) == [call |-> call, ok |-> ok]

Init ==
    /\ phase = "Planning"
    /\ passes = 0
    /\ baseline = <<>>
    /\ hierarchy = NoHierarchy
    /\ current = <<>>
    /\ buffered = 0
    /\ seen = 0
    /\ answer = Answer("new", TRUE)
    /\ fin = Idle
    /\ store = {}

\* A call that is refused, or fails before it changed anything.
Refused(call) ==
    /\ answer' = Answer(call, FALSE)
    /\ UNCHANGED <<planning, fin, store>>

-----------------------------------------------------------------------------
(* ingest_batch.                                                              *)

Matches(batch) ==
    /\ seen + Len(batch) <= Len(baseline)
    /\ \A k \in DOMAIN batch : baseline[seen + k] = batch[k]

\* The batch is resolved, embedded, fingerprinted, and compared with the
\* baseline if there is one.
IngestBatch(batch) ==
    /\ phase = "Planning" /\ fin = Idle
    /\ IF baseline = <<>> THEN /\ Len(current) + Len(batch) <= MaxItems
                               /\ current' = current \o batch
                          ELSE /\ Matches(batch)
                               /\ UNCHANGED current
    /\ buffered' = buffered + Len(batch)
    /\ seen' = seen + Len(batch)
    /\ answer' = Answer("ingest", TRUE)
    /\ UNCHANGED <<phase, passes, baseline, hierarchy, fin, store>>

\* The fingerprint or the metadata of the item after the first k of the batch
\* fails: in the first pass the items before it stay in current_pass_items.
\* (Decoding fails for an encoding it does not know, hence for every batch: such
\* a run has no pass and is left out.)
IngestFails(batch, k) ==
    /\ phase = "Planning" /\ fin = Idle
    /\ IF baseline = <<>> THEN /\ Len(current) + k <= MaxItems
                               /\ current' = current \o SubSeq(batch, 1, k)
                          ELSE UNCHANGED current
    /\ answer' = Answer("ingest", FALSE)
    /\ UNCHANGED <<phase, passes, baseline, hierarchy, buffered, seen, fin, store>>

\* Wrong phase, or a replay that differs from the baseline.
IngestRefused(batch) ==
    /\ fin = Idle
    /\ phase # "Planning" \/ (baseline # <<>> /\ ~Matches(batch))
    /\ Refused("ingest")

-----------------------------------------------------------------------------
(* finish_pass, mark_planning_complete.                                       *)

PassComplete == seen > 0 /\ (baseline # <<>> => seen = Len(baseline))

FinishPass(h) ==
    /\ phase = "Planning" /\ fin = Idle
    /\ PassComplete
    /\ passes < MaxPasses
    /\ ValidHierarchy(h, seen)
    /\ baseline' = IF baseline = <<>> THEN current ELSE baseline
    /\ current' = IF baseline = <<>> THEN <<>> ELSE current
    /\ hierarchy' = h
    /\ passes' = passes + 1
    /\ buffered' = 0
    /\ seen' = 0
    /\ answer' = [call |-> "finish", ok |-> TRUE, observed |-> Len(baseline')]
    /\ UNCHANGED <<phase, fin, store>>

\* Wrong phase, an empty or short pass; or the planning policy fails or returns
\* a hierarchy that is refused, and the buffered embeddings are put back.
FinishPassFails(h) ==
    /\ fin = Idle
    /\ phase = "Planning" /\ PassComplete => ~ValidHierarchy(h, seen)
    /\ Refused("finish")

MayComplete ==
    /\ phase = "Planning"
    /\ passes > 0
    /\ seen = 0
    /\ ValidHierarchy(hierarchy, Len(baseline))

MarkPlanningComplete ==
    /\ fin = Idle
    /\ MayComplete
    /\ phase' = "PlanningComplete"
    /\ answer' = Answer("mark", TRUE)
    /\ UNCHANGED <<passes, baseline, hierarchy, current, buffered, seen, fin, store>>

MarkRefused ==
    /\ fin = Idle
    /\ ~MayComplete
    /\ Refused("mark")

-----------------------------------------------------------------------------
(* finalize.                                                                  *)

StartFinalize ==
    /\ phase = "PlanningComplete" /\ fin = Idle
    /\ Routable(hierarchy, Len(baseline))
    /\ fin' = [stage |-> "replay", pos |-> 0, asm |-> NothingBuilt(hierarchy.parts)]
    /\ UNCHANGED <<planning, answer, store>>

FinalizeRefused ==
    /\ fin = Idle
    /\ phase # "PlanningComplete"
    /\ Refused("finalize")

\* The next item of the replay equals the baseline's: its leaf is stored and
\* spilled to its terminal partition.
ReplayLeaf ==
    /\ fin.stage = "replay" /\ fin.pos < Len(baseline)
    /\ LET i    == fin.pos + 1
           leaf == Leaf(baseline[i])
       IN  /\ store' = store \cup {leaf}
           /\ fin' = [fin EXCEPT !.pos = i, !.asm = Spilled(@, Route(hierarchy, i), leaf)]
    /\ UNCHANGED <<planning, answer>>

ReplayEnds ==
    /\ fin.stage = "replay" /\ fin.pos = Len(baseline)
    /\ \A t \in Terminals(hierarchy.parts) :
          Len(fin.asm.spill[t]) = Cardinality(hierarchy.parts[t].items)
    /\ fin' = [fin EXCEPT !.stage = "assemble"]
    /\ UNCHANGED <<planning, answer, store>>

StartPartition(p) ==
    /\ fin.stage = "assemble" /\ Ready(fin.asm, hierarchy.parts, p)
    /\ fin' = [fin EXCEPT !.asm = PartitionOpened(@, hierarchy.parts, p)]
    /\ UNCHANGED <<planning, answer, store>>

EndPartition ==
    /\ fin.stage = "assemble" /\ BetweenLayers(fin.asm) /\ Cardinality(fin.asm.layer) = 1
    /\ fin' = [fin EXCEPT !.asm = PartitionClosed(@)]
    /\ UNCHANGED <<planning, answer, store>>

GroupLayer ==
    /\ fin.stage = "assemble" /\ BetweenLayers(fin.asm) /\ LayerSplits(fin.asm)
    /\ fin' = [fin EXCEPT !.asm = LayerGrouped(@)]
    /\ UNCHANGED <<planning, answer, store>>

PutBranch ==
    /\ fin.stage = "assemble" /\ fin.asm.groups # <<>>
    /\ store' = store \cup {NextBranch(fin.asm)}
    /\ fin' = [fin EXCEPT !.asm = BranchPut(@)]
    /\ UNCHANGED <<planning, answer>>

FinalizeOk ==
    /\ fin.stage = "assemble" /\ fin.asm.open = {}
    /\ hierarchy.root \in DOMAIN fin.asm.built
    /\ phase' = "Finalized"
    /\ answer' = [call |-> "finalize", ok |-> TRUE,
                  root |-> fin.asm.built[hierarchy.root], ids |-> fin.asm.ids]
    /\ fin' = Idle
    /\ UNCHANGED <<passes, baseline, hierarchy, current, buffered, seen, store>>

\* The resolver, the provider, the store, a spill file or the replay itself
\* fails, a layer cannot be split, or the future is dropped.  The phase stays,
\* so finalize may be called again.
FinalizeFails ==
    /\ fin # Idle
    /\ fin' = Idle
    /\ answer' = Answer("finalize", FALSE)
    /\ UNCHANGED <<planning, store>>

-----------------------------------------------------------------------------

Next ==
    \/ \E batch \in BatchInputs :
        \/ IngestBatch(batch)
        \/ IngestRefused(batch)
        \/ \E k \in 0 .. Len(batch) - 1 : IngestFails(batch, k)
    \/ \E h \in Hierarchies : FinishPass(h) \/ FinishPassFails(h)
    \/ MarkPlanningComplete \/ MarkRefused
    \/ StartFinalize \/ FinalizeRefused \/ ReplayLeaf \/ ReplayEnds
    \/ \E p \in DOMAIN hierarchy.parts : StartPartition(p)
    \/ EndPartition \/ GroupLayer \/ PutBranch \/ FinalizeOk \/ FinalizeFails

Spec == Init /\ [][Next]_vars

-----------------------------------------------------------------------------
(* Properties.                                                                *)

\* At every moment, also after a finalize that failed half way, whoever finds a
\* branch in the store finds its children, which lie below it, and no branch
\* holds fewer than two children or more than the target size allows.
ChildrenFirst ==
    \A b \in store : b.level > 0 =>
        /\ b.kids \subseteq store
        /\ \A k \in b.kids : k.level < b.level
        /\ Cardinality(b.kids) \in 2 .. Bound

\* What finalize returned is an index of the baseline, all of it stored: a leaf
\* for every item and for nothing else, block_ids exactly the blocks under the
\* root, and no branch over- or underfull.
ResultExact ==
    (answer.call = "finalize" /\ answer.ok) =>
        IsIndexOf(answer.root, answer.ids, Range(baseline)) /\ answer.ids \subseteq store

\* And the attempts that failed before left no other block in the store.
FinalizedExact ==
    ResultExact /\ ((answer.call = "finalize" /\ answer.ok) => store = answer.ids)

\* REQ-STREAM-INDEXER-021: the report of a pass has the item count observed in
\* that pass.
ReportTruthfulStep == passes' # passes => answer'.observed = seen

-----------------------------------------------------------------------------
(* The inductive invariant.                                                   *)

TypeOK == baseline \in Seq(Items) /\ current \in Seq(Items)

FinShape ==
    /\ DOMAIN fin = {"stage", "pos", "asm"}
    /\ fin.stage \in {"replay", "assemble"}
    /\ fin.pos \in 0 .. Len(baseline)
    /\ IF fin.stage = "replay" THEN DOMAIN fin.asm.built = {} /\ fin.asm.open = {}
                               ELSE fin.pos = Len(baseline)

\* A running finalize: what it has in hand is an index in the making of the items
\* replayed so far, all of it stored.
FinInv ==
    fin # Idle =>
        /\ FinShape
        /\ Routable(hierarchy, Len(baseline))
        /\ fin.asm.ids \subseteq store
        /\ AssemblyInv(fin.asm, hierarchy.parts, {Leaf(baseline[i]) : i \in 1 .. fin.pos})

IndexerInv == TypeOK /\ ChildrenFirst /\ FinInv /\ ResultExact
=============================================================================
