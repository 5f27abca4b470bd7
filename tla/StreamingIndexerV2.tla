------------------------ MODULE StreamingIndexerV2 --------------------------
(* StreamingIndexingRunV2 of lexongraph-streaming-indexer.  No item is kept:  *)
(* every pass replays the data set, and the run keeps a topology of           *)
(* partitions.  A partition too large for one branch trains a directional-PCA *)
(* trainer over several passes on the items that reach it; when the trainer   *)
(* is done the partition routes items to children, whose sizes come from the  *)
(* plan or from counting one more pass.  finalize replays the data once more. *)
(*                                                                            *)
(* Calls fail at every point where they depend on someone else, and leave     *)
(* behind what they changed so far; the caller then goes on as it likes.      *)
EXTENDS IndexTree, DirectionalCells

CONSTANTS
    Items,          \* what an item's fingerprint (four hashes) tells apart
    DataSets,       \* the data sets the caller may stream
    Phases,         \* the passes a trainer needs: four in the code
    Requested,      \* cluster_count of the profile
    RankZeroFallback, \* whether the profile is 0.8.0
    Batch,          \* bound: the size of the caller's batches
    MaxItems,       \* bound: the items of a pass
    MaxFailed,      \* bound: finish_pass calls that fail
    MaxPasses,      \* bound: completed passes
    MaxFaults       \* bound: failures of others, and wrong replays

ASSUME DataAssumption == DataSets \subseteq Seq(Items)

VARIABLES
    data,           \* the data set of the caller
    sent,           \* how much of it the caller knows to be ingested in this pass
    phase,          \* RunPhase, or "Panicked"
    passes,         \* completed_passes
    baseline,       \* baseline_fingerprint: the items it was computed from
    pass,           \* current_pass
    parts,          \* partitions: nodes by number, the root first
    fin,            \* the locals of a running finalize
    store,          \* the blocks in the block store
    result,         \* what a successful finalize returned
    preserved,      \* planner_state_root is kept, as after every failed call
    faults,         \* the failures so far, and
    failed          \* the failed finish_pass calls, both for the bounds only

vars == <<data, sent, phase, passes, baseline, pass, parts, fin, store, result, preserved, faults, failed>>

planning == <<data, sent, phase, passes, baseline, pass, parts, failed>>

-----------------------------------------------------------------------------
(* Partition nodes.                                                           *)

NoTrainer == [live |-> FALSE, err |-> FALSE, done |-> 0, base |-> <<>>, got |-> <<>>]
FreshTrainer == [NoTrainer EXCEPT !.live = TRUE]

NoRouting == [kind |-> "none", realized |-> 0, child |-> <<>>, plan |-> <<>>]
OrderRouting(counts) == [NoRouting EXCEPT !.kind = "order", !.plan = counts]

\* create_partition_node: terminal when one branch can hold the items.
NewNode(parent, n) ==
    LET small == n <= Bound \/ n <= 1
    IN  [parent |-> parent, children |-> <<>>, count |-> n, terminal |-> small,
         trainer |-> IF small THEN NoTrainer ELSE FreshTrainer, routing |-> NoRouting]

\* Partition p gets its routing and children with these counts, appended.
Install(ps, p, routing, counts) ==
    [q \in DOMAIN ps |->
        IF q # p THEN ps[q]
        ELSE [ps[p] EXCEPT !.trainer = NoTrainer, !.routing = routing, !.terminal = FALSE,
                           !.children = [i \in DOMAIN counts |-> Len(ps) + i]]]
    \o [i \in DOMAIN counts |-> NewNode(p, counts[i])]

Total(counts) == FoldLeft(LAMBDA a, b : a + b, 0, counts)

Pending == {p \in DOMAIN parts : parts[p].trainer.live}
ById(S) == SetToSortSeq(S, <)

-----------------------------------------------------------------------------
(* Routing.  seen[p] has the items that passed partition p in this pass, which *)
(* is what its replay offset, its cell counts or its child counts stand for.  *)

\* child_index_for_seen: 0 when the plan is used up.
OrderChild(counts, n) ==
    LET open == {i \in DOMAIN counts : n < Total(SubSeq(counts, 1, i))}
    IN  IF open = {} THEN 0 ELSE CHOOSE i \in open : \A j \in open : i <= j

\* The child that takes the item after `before` passed: 0 is an error.
ChildIndex(routing, before, item) ==
    CASE routing.kind = "order"   -> OrderChild(routing.plan, Len(before))
      [] routing.kind = "nearest" -> routing.child[item]
      [] routing.kind = "cells"   ->
            LET cell == routing.child[item]
            IN  ReplayCluster(routing.plan, cell,
                    Cardinality({i \in DOMAIN before : routing.child[before[i]] = cell}))

\* From the root down to a terminal partition, one with a trainer, or one that
\* still counts its children's items.
Walk(ps, seen, item) ==
    LET Step[k \in Nat] ==
            IF k = 0 THEN [at |-> 1, seen |-> seen, stop |-> FALSE, ok |-> TRUE]
            ELSE LET w      == Step[k - 1]
                     node   == ps[w.at]
                     child  == ChildIndex(node.routing, w.seen[w.at], item)
                     counts == node.children = <<>>
                     noted  == IF counts \/ node.routing.kind # "nearest"
                               THEN [w.seen EXCEPT ![w.at] = Append(@, item)] ELSE w.seen
                 IN  IF w.stop THEN w
                     ELSE IF node.terminal \/ node.trainer.live THEN [w EXCEPT !.stop = TRUE]
                     ELSE IF node.routing.kind = "none" \/ child = 0
                          THEN [w EXCEPT !.stop = TRUE, !.ok = FALSE]
                     ELSE IF counts THEN [w EXCEPT !.seen = noted, !.stop = TRUE]
                     ELSE IF child \notin DOMAIN node.children
                          THEN [w EXCEPT !.seen = noted, !.stop = TRUE, !.ok = FALSE]
                     ELSE [w EXCEPT !.seen = noted, !.at = node.children[child]]
    IN  Step[Len(ps) + 1]

\* The items of a batch one by one: routed and then observed by the pass, each
\* set aside for the trainer it reached; a routing error ends the loop.
Routed(ps, from, batch) ==
    FoldLeft(LAMBDA r, item :
                IF ~r.ok THEN r
                ELSE IF ps = <<>> THEN [r EXCEPT !.items = Append(@, item)]
                ELSE LET w == Walk(ps, r.seen, item) IN
                     IF ~w.ok THEN [r EXCEPT !.seen = w.seen, !.ok = FALSE]
                     ELSE [r EXCEPT !.seen = w.seen, !.items = Append(@, item),
                                    !.group[w.at] = IF ps[w.at].trainer.live
                                                    THEN Append(@, item) ELSE @],
             [items |-> from.items, seen |-> from.seen, ok |-> TRUE,
              group |-> [p \in DOMAIN ps |-> <<>>]],
             batch)

\* The trainers of the partitions in D ingest their groups.
Delivered(ps, group, D) ==
    [p \in DOMAIN ps |-> IF p \in D THEN [ps[p] EXCEPT !.trainer.got = @ \o group[p]] ELSE ps[p]]

-----------------------------------------------------------------------------

NoPass == [open |-> FALSE, items |-> <<>>, seen |-> <<>>]
\* StreamingV2PassState::new with the capacity of the current partitions.
OpenPass ==
    IF pass.open THEN pass
    ELSE [open |-> TRUE, items |-> <<>>, seen |-> [p \in DOMAIN parts |-> <<>>]]

Idle == [stage |-> "idle"]
NoResult == [root |-> Leaf("none"), ids |-> {}]

\* handle_v2_failure: whatever fails, the planner state is kept for diagnosis.
Failed == preserved' = TRUE
Returned(ok) == preserved' = (preserved \/ ~ok)

Init ==
    /\ data \in DataSets
    /\ sent = 0
    /\ phase = "Planning"
    /\ passes = 0
    /\ baseline = <<>>
    /\ pass = NoPass
    /\ parts = <<>>
    /\ fin = Idle
    /\ store = {}
    /\ result = NoResult
    /\ preserved = FALSE
    /\ faults = 0
    /\ failed = 0

Calls == fin = Idle /\ phase # "Panicked"

Fault == faults < MaxFaults /\ faults' = faults + 1

\* A call that fails before it changes the run: wrong phase, or the resolver or
\* the provider fails.
Refused ==
    /\ Calls
    /\ Fault \/ (phase # "Planning" /\ UNCHANGED faults)
    /\ Failed
    /\ UNCHANGED <<planning, fin, store, result>>

-----------------------------------------------------------------------------
(* ingest_batch.                                                              *)

\* The caller goes on where it was told the run is, or where the run is, with
\* batches of one size.
NextBatch ==
    {SubSeq(data, at + 1, IF at + Batch < Len(data) THEN at + Batch ELSE Len(data)) :
        at \in {sent, Len(pass.items)} \cap 0 .. Len(data) - 1}

\* A trainer in its last pass indexes its clusters by the members seen so far,
\* and does not survive more of them than it planned for.
Overrun(group) ==
    \E p \in Pending : /\ parts[p].trainer.done = Phases - 1
                       /\ Len(parts[p].trainer.got) + Len(group[p]) > Len(parts[p].trainer.base)

MayStream(batch) ==
    /\ passes < MaxPasses /\ failed < MaxFailed
    /\ Len(pass.items) + Len(batch) <= MaxItems

IngestBatch(batch) ==
    /\ Calls /\ phase = "Planning" /\ MayStream(batch)
    /\ LET r       == Routed(parts, OpenPass, batch)
           targets == {p \in Pending : r.group[p] # <<>>}
           broken  == {p \in targets : parts[p].trainer.err}
       IN  /\ pass' = [open |-> TRUE, items |-> r.items, seen |-> r.seen]
           /\ \/ /\ r.ok /\ broken = {}
                 /\ parts' = Delivered(parts, r.group, targets)
                 /\ sent' = sent + Len(batch)
                 /\ UNCHANGED preserved
                 /\ phase' \in {"Planning"} \cup (IF Overrun(r.group) THEN {"Panicked"} ELSE {})
              \/ /\ ~r.ok \/ broken # {}
                 /\ \E D \in SUBSET (targets \ broken) :
                       /\ ~r.ok => D = {}
                       /\ parts' = Delivered(parts, r.group, D)
                 /\ Failed
                 /\ UNCHANGED <<sent, phase>>
    /\ UNCHANGED <<data, passes, baseline, fin, store, result, failed>>

\* The fingerprint or the metadata of the item after the first k fails: those
\* before it are observed and routed, and no trainer gets any of them.
IngestFails(batch, k) ==
    /\ Calls /\ phase = "Planning" /\ MayStream(batch)
    /\ Fault
    /\ LET r == Routed(parts, OpenPass, SubSeq(batch, 1, k))
       IN  pass' = [open |-> TRUE, items |-> r.items, seen |-> r.seen]
    /\ Failed
    /\ UNCHANGED <<data, sent, phase, passes, baseline, parts, fin, store, result, failed>>

\* A replay that differs from the data set.
IngestWrong(item) == Fault /\ IngestBatch(<<item>>)
IngestNext(batch) == UNCHANGED faults /\ IngestBatch(batch)

-----------------------------------------------------------------------------
(* finish_pass.                                                               *)

\* The classifiers a trainer over the items of base may end with: nearest
\* centroid, or a cell plan when cells were refined.
Nearest(n) ==
    UNION {{[NoRouting EXCEPT !.kind = "nearest", !.realized = k, !.child = f] :
               f \in [Items -> 1 .. k]} : k \in 1 .. ClusterCount(Requested, n)}

CellRouting(base, f, c, n) ==
    LET members(i) == {j \in DOMAIN base : f[base[j]] = i}
        plan == ReadyPlan([i \in 1 .. c |-> Cardinality(members(i))],
                          [i \in 1 .. c |-> Cardinality({base[j] : j \in members(i)}) = 1],
                          ClusterCount(Requested, n))
    IN  [kind |-> "cells", realized |-> Realized(plan), child |-> f, plan |-> plan]

Refined(base, n) ==
    {r \in UNION {{CellRouting(base, f, c, n) :
                      f \in {g \in [Items -> 0 .. c] : {g[i] : i \in Range(base)} = 1 .. c}} :
                  c \in 1 .. ClusterCount(Requested, n)} :
        \E i \in DOMAIN r.plan : r.plan[i].extra > 0}

Classifiers(p) ==
    Nearest(parts[p].count) \cup Refined(parts[p].trainer.got, parts[p].count)

\* The pending partitions whose trainers can finish their last pass.
Completing ==
    {p \in Pending : /\ parts[p].trainer.done = Phases - 1
                     /\ parts[p].trainer.got # <<>>}

Broken(t) == [t EXCEPT !.err = TRUE, !.got = <<>>]
Advanced(t) ==
    [t EXCEPT !.done = @ + 1, !.base = IF t.done = 0 THEN t.got ELSE @, !.got = <<>>]

Fails(run, p, trainer) ==
    [run EXCEPT !.ok = FALSE, !.ps[p].trainer = trainer]
Done(run, p, trainer, routing, counts) ==
    [run EXCEPT !.ps[p].trainer = trainer,
                !.done = Append(@, [p |-> p, routing |-> routing, counts |-> counts])]

\* The last step of a partition whose training is complete; its trainer is gone
\* whatever comes of it.  io: the planner files of a child cannot be created.
Complete(run, p, routing, io) ==
    LET n == run.ps[p].count IN
    IF routing.realized <= 1
    THEN IF Splittable(n) /\ ~io
         THEN Done(run, p, NoTrainer, OrderRouting(GroupSizes(n)), GroupSizes(n))
         ELSE Fails(run, p, NoTrainer)
    ELSE IF routing.kind = "cells"
    THEN IF Total(ChildCounts(routing.plan)) = n /\ ~io
         THEN Done(run, p, NoTrainer, routing, ChildCounts(routing.plan))
         ELSE Fails(run, p, NoTrainer)
    ELSE Done(run, p, NoTrainer, routing, <<>>)

\* The loop body for one pending partition.  fate tells what its trainer meets:
\* nothing, a data set of rank zero, another failure, or an i/o error later.
FinishUnit(run, p, fate, routing) ==
    LET t == run.ps[p].trainer
        n == run.ps[p].count
    IN  IF ~run.ok THEN run
        ELSE IF \/ t.err \/ t.got = <<>> \/ fate = "fail"
                \/ t.done > 0 /\ t.got # t.base
        THEN Fails(run, p, Broken(t))
        ELSE IF t.done = 0 /\ fate = "rank0"
        THEN IF RankZeroFallback /\ Splittable(n) /\ Len(GroupSizes(n)) > 1
             THEN Done(run, p, Broken(t), OrderRouting(GroupSizes(n)), GroupSizes(n))
             ELSE Fails(run, p, Broken(t))
        ELSE IF Len(t.got) # n THEN Fails(run, p, Advanced(t))
        ELSE IF t.done + 1 < Phases THEN [run EXCEPT !.ps[p].trainer = Advanced(t)]
        ELSE Complete(run, p, routing, fate = "io")

\* The classifier-routed partitions that counted their children in this pass.
Expandable == {p \in DOMAIN pass.seen : parts[p].children = <<>> /\ pass.seen[p] # <<>>}

\* Sizes below, without a look for empty children.
SizesOrEmpty(counts, n) == Total(counts) = n

\* No child may be empty, and all items of the partition must have come by.
Sizes(counts, n) == 0 \notin Range(counts) /\ Total(counts) = n

\* Children from the counts of the pass.
Expand(run, p) ==
    LET routing == run.ps[p].routing
        counts  == [c \in 1 .. routing.realized |->
                       Cardinality({i \in DOMAIN pass.seen[p] : routing.child[pass.seen[p][i]] = c})]
    IN  IF ~run.ok THEN run
        ELSE IF ~Sizes(counts, run.ps[p].count) THEN [run EXCEPT !.ok = FALSE]
        ELSE [run EXCEPT !.ps = Install(@, p, routing, counts)]

\* All trainers finish their pass, then the completed partitions are installed,
\* then the counted ones expand; an error ends it where it is.
Advance(fate, classifier) ==
    LET trained   == FoldLeft(LAMBDA run, p : FinishUnit(run, p, fate[p], classifier[p]),
                              [ok |-> TRUE, ps |-> parts, done |-> <<>>], ById(Pending))
        installed == [trained EXCEPT !.ps =
                         FoldLeft(LAMBDA ps, d : Install(ps, d.p, d.routing, d.counts), @, trained.done)]
    IN  IF ~trained.ok THEN trained ELSE FoldLeft(Expand, installed, ById(Expandable))

\* SameReplay below, for a run that takes any replay.
AnyReplay == TRUE

\* The replay equals the baseline; the first one becomes it.
SameReplay == baseline = <<>> \/ baseline = pass.items

FinishPass(fate, classifier) ==
    /\ Calls /\ phase = "Planning"
    /\ pass.items # <<>> /\ SameReplay
    /\ faults' = faults + Cardinality({p \in DOMAIN fate : fate[p] \in {"fail", "io"}})
    /\ faults' <= MaxFaults
    /\ baseline' = IF baseline = <<>> THEN pass.items ELSE baseline
    /\ pass' = NoPass
    /\ sent' = 0
    /\ LET run == IF parts = <<>>
                  THEN [ok |-> TRUE, ps |-> <<NewNode(0, Len(pass.items))>>]
                  ELSE Advance(fate, classifier)
       IN  /\ parts' = run.ps
           /\ passes' = IF run.ok THEN passes + 1 ELSE passes
           /\ failed' = IF run.ok THEN failed ELSE failed + 1
           /\ Returned(run.ok)
    /\ UNCHANGED <<data, phase, fin, store, result>>

\* Without a pass, an empty pass, or another replay than the baseline: the pass
\* is gone, and what the trainers got of it stays with them.
FinishPassFails ==
    /\ Calls /\ phase = "Planning"
    /\ pass.items = <<>> \/ ~SameReplay
    /\ failed < MaxFailed
    /\ pass' = NoPass
    /\ sent' = 0
    /\ Failed
    /\ failed' = failed + 1
    /\ UNCHANGED <<data, phase, passes, baseline, parts, fin, store, result, faults>>

-----------------------------------------------------------------------------
(* mark_planning_complete.                                                    *)

\* ValidTopology below, with partitions that have no children let through.
TopologyWithGaps == parts # <<>> /\ \A p \in DOMAIN parts : parts[p].count > 0

\* validate_streaming_v2_topology: the walk from the root visits every partition,
\* and none twice.
ValidTopology ==
    /\ parts # <<>> /\ parts[1].parent = 0
    /\ \A p \in DOMAIN parts :
          /\ parts[p].count > 0
          /\ parts[p].terminal <=> parts[p].children = <<>>
          /\ \A c \in Range(parts[p].children) : c \in DOMAIN parts /\ parts[c].parent = p
          /\ IsInjective(parts[p].children)
          /\ ~parts[p].terminal =>
                parts[p].count = Total([i \in DOMAIN parts[p].children |->
                                           parts[parts[p].children[i]].count])
    /\ Visited(1, parts) = DOMAIN parts

MayComplete ==
    /\ phase = "Planning" /\ passes > 0 /\ ~pass.open
    /\ Pending = {}
    /\ \A p \in DOMAIN parts : parts[p].routing.kind # "none" => parts[p].children # <<>>
    /\ ValidTopology

MarkPlanningComplete ==
    /\ Calls /\ MayComplete
    /\ phase' = "PlanningComplete"
    /\ UNCHANGED <<data, sent, passes, baseline, pass, parts, fin, store, result, preserved, faults, failed>>

-----------------------------------------------------------------------------
(* finalize.                                                                  *)

StartFinalize ==
    /\ Calls /\ phase = "PlanningComplete"
    /\ baseline # <<>> /\ ValidTopology
    /\ fin' = [stage |-> "replay", items |-> <<>>, seen |-> [p \in DOMAIN parts |-> <<>>],
               asm |-> NothingBuilt(parts)]
    /\ UNCHANGED <<planning, store, result, preserved, faults>>

\* An item is observed, routed to its terminal partition, stored as a leaf and
\* spilled.
ReplayItem(item) ==
    /\ fin.stage = "replay" /\ Len(fin.items) <= Len(baseline)
    /\ LET w == Walk(parts, fin.seen, item)
       IN  /\ w.ok /\ w.at \in Terminals(parts)
           /\ store' = store \cup {Leaf(item)}
           /\ fin' = [fin EXCEPT !.items = Append(@, item), !.seen = w.seen,
                                 !.asm = Spilled(@, w.at, Leaf(item))]
    /\ UNCHANGED <<planning, result, preserved>>

ReplayNext ==
    /\ fin.stage = "replay" /\ Len(fin.items) < Len(data)
    /\ ReplayItem(data[Len(fin.items) + 1])
    /\ UNCHANGED faults

ReplayWrong(item) == fin.stage = "replay" /\ Fault /\ ReplayItem(item)

\* Replayed below, without the fingerprint.
ReplayedCount == Len(fin.items) = Len(baseline)

\* The finalization replay was the baseline's.
Replayed == fin.items = baseline

ReplayEnds ==
    /\ fin.stage = "replay" /\ Replayed
    /\ fin' = [fin EXCEPT !.stage = "assemble"]
    /\ UNCHANGED <<planning, store, result, preserved, faults>>

\* The spill of a terminal partition has as many items as it was sized for.
SpillComplete(p) == p \in Terminals(parts) => Len(fin.asm.spill[p]) = parts[p].count

StartPartition(p) ==
    /\ fin.stage = "assemble" /\ Ready(fin.asm, parts, p) /\ SpillComplete(p)
    /\ fin' = [fin EXCEPT !.asm = PartitionOpened(@, parts, p)]
    /\ UNCHANGED <<planning, store, result, preserved, faults>>

EndPartition ==
    /\ fin.stage = "assemble" /\ BetweenLayers(fin.asm) /\ Cardinality(fin.asm.layer) = 1
    /\ fin' = [fin EXCEPT !.asm = PartitionClosed(@)]
    /\ UNCHANGED <<planning, store, result, preserved, faults>>

GroupLayer ==
    /\ fin.stage = "assemble" /\ BetweenLayers(fin.asm) /\ LayerSplits(fin.asm)
    /\ fin' = [fin EXCEPT !.asm = LayerGrouped(@)]
    /\ UNCHANGED <<planning, store, result, preserved, faults>>

PutBranch ==
    /\ fin.stage = "assemble" /\ fin.asm.groups # <<>>
    /\ store' = store \cup {NextBranch(fin.asm)}
    /\ fin' = [fin EXCEPT !.asm = BranchPut(@)]
    /\ UNCHANGED <<planning, result, preserved, faults>>

FinalizeOk ==
    /\ fin.stage = "assemble" /\ fin.asm.open = {} /\ 1 \in DOMAIN fin.asm.built
    /\ phase' = "Finalized"
    /\ result' = [root |-> fin.asm.built[1], ids |-> fin.asm.ids]
    /\ fin' = Idle
    /\ UNCHANGED <<data, sent, passes, baseline, pass, parts, store, preserved, faults, failed>>

\* The resolver, the provider, the store or a spill file fails, or the future is
\* dropped: the run may be finalized again.
FinalizeFails ==
    /\ fin # Idle /\ Fault
    /\ fin' = Idle
    /\ Failed
    /\ UNCHANGED <<planning, store, result>>

\* The replay is not the baseline's, an item has no terminal partition, a spill
\* has not the items of its partition, or a layer is empty or cannot be split.
Impossible ==
    CASE fin.stage = "replay" ->
            IF Len(fin.items) >= Len(data) THEN ~Replayed
            ELSE LET w == Walk(parts, fin.seen, data[Len(fin.items) + 1])
                 IN  ~w.ok \/ w.at \notin Terminals(parts)
      [] fin.stage = "assemble" ->
            \/ \E p \in DOMAIN parts : Ready(fin.asm, parts, p) /\ ~SpillComplete(p)
            \/ BetweenLayers(fin.asm) /\ Cardinality(fin.asm.layer) # 1 /\ ~LayerSplits(fin.asm)
      [] OTHER -> FALSE

FinalizeRefused ==
    /\ Impossible
    /\ fin' = Idle
    /\ Failed
    /\ UNCHANGED <<planning, store, result, faults>>

-----------------------------------------------------------------------------

\* What the trainers of the pending partitions may meet in one finish_pass: at
\* most one failure.
Fates ==
    {f \in [Pending -> {"go", "rank0", "fail", "io"}] :
        /\ \A p \in Pending : f[p] = "rank0" => parts[p].trainer.done = 0
        /\ Cardinality({p \in Pending : f[p] \in {"fail", "io"}}) <= 1
        /\ \A p \in Pending : f[p] = "io" => p \in Completing}

Ingest ==
    \/ \E batch \in NextBatch : IngestNext(batch)
    \/ \E batch \in NextBatch : \E k \in 0 .. Len(batch) - 1 : IngestFails(batch, k)
    \/ \E item \in Items : Calls /\ IngestWrong(item)

\* One classifier per completing partition.
ClassifierChoices ==
    {f \in [Completing -> UNION {Classifiers(p) : p \in Completing}] :
        \A p \in Completing : f[p] \in Classifiers(p)}
WithNone(f) == [p \in Pending |-> IF p \in DOMAIN f THEN f[p] ELSE NoRouting]

Finish ==
    \/ \E fate \in Fates, f \in ClassifierChoices : FinishPass(fate, WithNone(f))
    \/ FinishPassFails

Finalize ==
    \/ StartFinalize \/ ReplayNext \/ ReplayEnds
    \/ \E p \in DOMAIN parts : StartPartition(p)
    \/ EndPartition \/ GroupLayer \/ PutBranch
    \/ FinalizeOk \/ FinalizeFails \/ FinalizeRefused
    \/ \E item \in Items : ReplayWrong(item)

Next ==
    \/ Ingest \/ Finish \/ MarkPlanningComplete \/ Finalize
    \/ Refused

Spec == Init /\ [][Next]_vars

-----------------------------------------------------------------------------
(* Properties.                                                                *)

\* The items of the baseline that reach each partition, in order, told from the
\* routing of its ancestors.
Reaching ==
    LET At[p \in DOMAIN parts] ==
            IF p = 1 THEN baseline
            ELSE LET up   == parts[p].parent
                     kid  == CHOOSE i \in DOMAIN parts[up].children : parts[up].children[i] = p
                     from == At[up]
                     here == ById({j \in DOMAIN from :
                                ChildIndex(parts[up].routing, SubSeq(from, 1, j - 1), from[j]) = kid})
                 IN  [k \in DOMAIN here |-> from[here[k]]]
    IN  At

\* Whatever batches failed, replays differed and trainers broke on the way, the
\* item count of a partition is the number of items of the baseline that its
\* ancestors route to it: no pass that lost, repeated or changed an item ever
\* sizes a partition.
CountsExact ==
    LET reaching == Reaching
    IN  \A p \in DOMAIN parts : Len(reaching[p]) = parts[p].count

\* Once planning is complete every item of the baseline has a terminal partition.
CompleteRoutes ==
    phase \in {"PlanningComplete", "Finalized"} =>
        \A p \in DOMAIN parts : LET here == Reaching[p] IN
            parts[p].terminal \/ \A j \in DOMAIN here :
                parts[p].routing.kind # "none" /\ ChildIndex(parts[p].routing, SubSeq(here, 1, j - 1), here[j])
                    \in DOMAIN parts[p].children

\* The finished index is one of the baseline, whatever attempts failed before: a
\* leaf for every item and no other, block_ids exactly the blocks under the root,
\* all of them stored, and no branch over- or underfull.
FinalizedExact ==
    phase = "Finalized" =>
        /\ IsIndexOf(result.root, result.ids, Range(baseline))
        /\ result.ids \subseteq store

\* Planning comes to an end: as long as no call failed, a level of partitions
\* takes the passes of a trainer and one to size its children, and a child is
\* smaller than its parent; so after this many passes all are terminal.
LadderBound ==
    (~preserved /\ passes >= 1 + (Phases + 1) * (Len(baseline) - Bound)) =>
        \A p \in DOMAIN parts : parts[p].terminal \/ parts[p].children # <<>>

-----------------------------------------------------------------------------
(* The inductive invariant behind FinalizedExact.                             *)

\* A running finalize: what it has in hand is an index in the making of the items
\* replayed so far, all of it stored, over a topology that was validated.
FinInv ==
    fin # Idle =>
        /\ DOMAIN fin = {"stage", "items", "seen", "asm"}
        /\ fin.stage \in {"replay", "assemble"}
        /\ phase = "PlanningComplete" /\ ValidTopology
        /\ fin.items \in Seq(Items)
        /\ IF fin.stage = "replay" THEN DOMAIN fin.asm.built = {} /\ fin.asm.open = {}
                                   ELSE Replayed
        /\ fin.asm.ids \subseteq store
        /\ AssemblyInv(fin.asm, parts, {Leaf(i) : i \in Range(fin.items)})

RunInv == data \in DataSets /\ FinInv /\ FinalizedExact
=============================================================================
