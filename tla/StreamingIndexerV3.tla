------------------------- MODULE StreamingIndexerV3 -------------------------
(* StreamingIndexingRunV3 of lexongraph-streaming-indexer.  The caller ingests *)
(* the ids of leaf blocks, which are appended to the root partition; finalize  *)
(* works layer by layer.  A layer is one partition that is split, wave by      *)
(* wave, until all its parts fit a branch; the terminal parts of a wave are    *)
(* materialised concurrently, then the others are split one by one, and the    *)
(* results are reconciled in partition order.  What the terminal parts became  *)
(* is the input of the next layer.  A cancellation may come at any time.       *)
EXTENDS IndexTree, TLC

CONSTANTS
    Streams,        \* the batches of leaf ids a caller may ingest, and with them, as a
                    \* bound, how often a store or a trainer may fail or the caller cancel
    Requested,      \* cluster_count of the profile
    RankZeroFallback, \* whether the profile is 0.8.0
    ReadBatch       \* V3_BATCH_SIZE

\* The ids of a stream.
StreamItems(s) == UNION {Range(b) : b \in Range(s.batches)}

V3Assumption ==
    /\ ReadBatch \in Nat \ {0}
    /\ \A s \in Streams : s.batches \in Seq(Seq(StreamItems(s)))

-----------------------------------------------------------------------------
(* V3PartitionStore of lexongraph-streaming-indexer: the working partitions of *)
(* a v3 run in one local database.  A table has the entries of all partitions, *)
(* under keys made of the partition's id, a zero byte and the index; another   *)
(* has their counts.  Every operation is one transaction.  A partition id is   *)
(* the sequence of its characters, all of them greater than 1, and so is a key. *)
(* Block ids and summaries have a table each, and never the same partition.    *)

EmptyDb == [counts |-> <<>>, table |-> <<>>]

\* Byte order.
Less(x, y) ==
    \E n \in 0 .. Len(x) : /\ n < Len(y) /\ SubSeq(x, 1, n) = SubSeq(y, 1, n)
                           /\ n = Len(x) \/ x[n + 1] < y[n + 1]

\* The elements of S in the order of op, by rank.
Ordered(S, op(_, _)) ==
    [i \in 1 .. Cardinality(S) |-> CHOOSE x \in S : Cardinality({y \in S : op(y, x)}) = i - 1]

EntryKey(pid, index) == pid \o <<0, index>>

EntryEnd(pid) == pid \o <<1>>

\* The keys a scan from an index to the partition's end meets, in order.
Scan(db, pid, from) ==
    Ordered({k \in DOMAIN db.table : ~Less(k, EntryKey(pid, from)) /\ Less(k, EntryEnd(pid))}, Less)

Count(db, pid) == IF pid \in DOMAIN db.counts THEN db.counts[pid] ELSE 0

Appended(db, pid, values) ==
    LET start == Count(db, pid)
        keys  == {EntryKey(pid, start + j - 1) : j \in DOMAIN values}
    IN  IF values = <<>> THEN db
        ELSE [counts |-> [p \in DOMAIN db.counts \cup {pid} |->
                            IF p = pid THEN start + Len(values) ELSE db.counts[p]],
              table  |-> [k \in DOMAIN db.table \cup keys |->
                            IF k \in keys THEN values[k[Len(k)] - start + 1] ELSE db.table[k]]]

\* append_block_hash_groups, append_indexed_child_groups.
AppendedGroups(db, pids, groups) ==
    LET Upto[g \in 0 .. Len(pids)] == IF g = 0 THEN db ELSE Appended(Upto[g - 1], pids[g], groups[g])
    IN  Upto[Len(pids)]

\* What clear_partition_in_write_txn removes of one partition, its count aside.
ClearedKeys(db, pid) ==
    {k \in DOMAIN db.table : ~Less(k, EntryKey(pid, 0)) /\ Less(k, EntryEnd(pid))}

\* Cleared below, for writers that append to what they find.
ClearedNothing(db, pids) == db

\* clear_partitions; what the writers do first.
Cleared(db, pids) ==
    [counts |-> [p \in DOMAIN db.counts \ Range(pids) |-> db.counts[p]],
     table  |-> [k \in DOMAIN db.table \ UNION {ClearedKeys(db, p) : p \in Range(pids)} |-> db.table[k]]]

\* next_batch of a reader at an index.
NextBatch(db, pid, from) ==
    LET keys  == Scan(db, pid, from)
        left  == Count(db, pid) - from
        limit == IF left < ReadBatch THEN left ELSE ReadBatch
    IN  [j \in 1 .. (IF limit < Len(keys) THEN limit ELSE Len(keys)) |-> db.table[keys[j]]]

\* All batches of a partition.  A reader holds a snapshot of the database.
ReadAll(db, pid) ==
    LET Upto[b \in Nat] ==
            IF b = 0 THEN <<>> ELSE LET read == Upto[b - 1] IN read \o NextBatch(db, pid, Len(read))
    IN  Upto[(Count(db, pid) + ReadBatch - 1) \div ReadBatch]

\* rewrite_..._with_assignments: the items go to the partitions pids as the
\* assignment of their positions says, batch by batch.
Grouped(values, assignment, count) ==
    [g \in 1 .. count |->
        LET here == Ordered({j \in DOMAIN values : assignment[j] = g}, <)
        IN  [i \in DOMAIN here |-> values[here[i]]]]

Rewritten(db, pid, pids, assignment) ==
    LET values == ReadAll(db, pid)
        total  == (Len(values) + ReadBatch - 1) \div ReadBatch
        From(b) == (b - 1) * ReadBatch
        Batch(b) == SubSeq(values, From(b) + 1, IF From(b) + ReadBatch < Len(values) THEN From(b) + ReadBatch ELSE Len(values))
        Upto[b \in 0 .. total] ==
            IF b = 0 THEN Cleared(db, pids)
            ELSE AppendedGroups(Upto[b - 1], pids,
                    Grouped(Batch(b), [j \in DOMAIN Batch(b) |-> assignment[From(b) + j]], Len(pids)))
    IN  Upto[total]

-----------------------------------------------------------------------------
(* The run.                                                                   *)

VARIABLES
    batches,        \* the caller's batches still to ingest
    acked,          \* the items of successful ingest calls
    phase,          \* V3Phase
    cancelled,      \* the cancellation handle
    ingested,       \* ingested_count
    db,             \* the partition store, with its temporary root
    fin,            \* the locals of the running call
    out,            \* the output store
    result,         \* what a successful finalize returned
    faults          \* failures still to come, for the bound

vars == <<batches, acked, phase, cancelled, ingested, db, fin, out, result, faults>>

Root(layer) == <<10 + layer>>
Child(pid, i) == Append(pid, 9 + i)

Idle == [stage |-> "idle"]
NoResult == [root |-> Leaf("none"), ids |-> {}]

Init ==
    /\ \E s \in Streams : batches = s.batches /\ faults = s.faults
    /\ acked = {}
    /\ phase = "Ingesting"
    /\ cancelled = FALSE
    /\ ingested = 0
    /\ db = EmptyDb
    /\ fin = Idle
    /\ out = {}
    /\ result = NoResult

Fault == faults > 0 /\ faults' = faults - 1

Cancel ==
    /\ ~cancelled /\ Fault
    /\ cancelled' = TRUE
    /\ UNCHANGED <<batches, acked, phase, ingested, db, fin, out, result>>

\* check_cancelled_mut at the start of a call.
RefusedCancelled ==
    /\ fin = Idle /\ phase = "Ingesting" /\ cancelled
    /\ phase' = "Cancelled"
    /\ UNCHANGED <<batches, acked, cancelled, ingested, db, fin, out, result, faults>>

-----------------------------------------------------------------------------
(* ingest_block_id_batch: the append runs on a blocking thread.               *)

IngestAppend ==
    /\ fin = Idle /\ phase = "Ingesting" /\ ~cancelled /\ batches # <<>>
    /\ db' = Appended(db, Root(0), Head(batches))
    /\ fin' = [stage |-> "append"]
    /\ UNCHANGED <<batches, acked, phase, cancelled, ingested, out, result, faults>>

IngestEnds ==
    /\ fin.stage = "append"
    /\ fin' = Idle
    /\ IF cancelled
       THEN phase' = "Cancelled" /\ UNCHANGED <<batches, acked, ingested>>
       ELSE /\ batches' = Tail(batches)
            /\ acked' = acked \cup Range(Head(batches))
            /\ ingested' = ingested + Len(Head(batches))
            /\ UNCHANGED phase
    /\ UNCHANGED <<cancelled, db, out, result, faults>>

\* The future is dropped after the blocking thread appended: nobody counts it.
IngestDropped ==
    /\ fin.stage = "append" /\ Fault
    /\ fin' = Idle
    /\ UNCHANGED <<batches, acked, phase, cancelled, ingested, db, out, result>>

-----------------------------------------------------------------------------
(* finalize.                                                                  *)

Partition(pid, n) == [id |-> pid, n |-> n]
Terminal(p) == p.n <= Bound \/ p.n <= 1

Job == [st |-> "todo", todo |-> <<>>, ids |-> {}, child |-> Leaf("none"), kids |-> <<>>]
Wave(layer, active, terminals, ids, input) ==
    [stage |-> "wave", layer |-> layer, active |-> active, jobs |-> [i \in DOMAIN active |-> Job],
     terminals |-> terminals, ids |-> ids, input |-> input]

FinalizeStart ==
    /\ fin = Idle /\ phase = "Ingesting" /\ ~cancelled
    /\ ingested > 0
    /\ fin' = Wave(0, <<Partition(Root(0), ingested)>>, {}, {}, ingested)
    /\ UNCHANGED <<batches, acked, phase, cancelled, ingested, db, out, result, faults>>

InWave(i) == fin.stage = "wave" /\ i \in DOMAIN fin.active
Settled(i) == fin.jobs[i].st \in {"done", "failed", "cancelled"}

\* An active partition as a set of children.
Children(layer, values) == IF layer = 0 THEN {Leaf(v) : v \in Range(values)} ELSE Range(values)

\* The job of partition i ends without a result.
JobFails(i, how) == fin' = [fin EXCEPT !.jobs[i].st = how]

\* materialize_terminal_partition: the partition is read and its leaves loaded,
\* then the leaves and the branches over them are put one after the other.
Load(i) ==
    /\ InWave(i) /\ Terminal(fin.active[i]) /\ fin.jobs[i].st = "todo"
    /\ LET values == ReadAll(db, fin.active[i].id)
           kids   == Children(fin.layer, values)
           made   == Assemble(kids)
           leaves == IF fin.layer = 0 THEN [j \in DOMAIN values |-> Leaf(values[j])] ELSE <<>>
       IN  IF cancelled THEN JobFails(i, "cancelled")
           ELSE IF ~made.ok THEN JobFails(i, "failed")
           ELSE fin' = [fin EXCEPT !.jobs[i].st = "puts", !.jobs[i].todo = leaves \o made.puts,
                                   !.jobs[i].child = made.root]
    /\ UNCHANGED <<batches, acked, phase, cancelled, ingested, db, out, result, faults>>

Put(i) ==
    /\ InWave(i) /\ fin.jobs[i].st = "puts" /\ fin.jobs[i].todo # <<>>
    /\ LET block == Head(fin.jobs[i].todo)
       IN  IF cancelled THEN JobFails(i, "cancelled") /\ UNCHANGED out
           ELSE /\ out' = out \cup {block}
                /\ fin' = [fin EXCEPT !.jobs[i].todo = Tail(@), !.jobs[i].ids = @ \cup {block}]
    /\ UNCHANGED <<batches, acked, phase, cancelled, ingested, db, result, faults>>

Materialized(i) ==
    /\ InWave(i) /\ fin.jobs[i].st = "puts" /\ fin.jobs[i].todo = <<>>
    /\ fin' = [fin EXCEPT !.jobs[i].st = "done"]
    /\ UNCHANGED <<batches, acked, phase, cancelled, ingested, db, out, result, faults>>

\* The source store, the output store or a decoder fails.
MaterializeFails(i) ==
    /\ InWave(i) /\ Terminal(fin.active[i]) /\ ~Settled(i)
    /\ Fault
    /\ JobFails(i, "failed")
    /\ UNCHANGED <<batches, acked, phase, cancelled, ingested, db, out, result>>

\* The splits begin when all terminal partitions are settled, in order.
Turn(i) ==
    /\ InWave(i) /\ ~Terminal(fin.active[i]) /\ fin.jobs[i].st = "todo"
    /\ \A j \in DOMAIN fin.active : Settled(j) \/ j = i \/ (j > i /\ ~Terminal(fin.active[j]))

\* The positions of balanced_groups over n items, by item.
FallbackAssignment(n) ==
    LET sizes == GroupSizes(n)
        base  == n \div Len(sizes)
        extra == n % Len(sizes)
        From(g) == (g - 1) * base + (IF g - 1 <= extra THEN g - 1 ELSE extra)
    IN  [j \in 1 .. n |-> CHOOSE g \in DOMAIN sizes : j \in From(g) + 1 .. From(g) + sizes[g]]

Kids(pid, count) == [g \in 1 .. count |-> Child(pid, g)]

\* The new database and the children when values[j] goes to child at[j].
Split(p, at, count) ==
    LET pids == Kids(p.id, count)
        new  == Rewritten(db, p.id, pids, at)
        Members(g) == {j \in DOMAIN at : at[j] = g}
        full == Ordered({g \in 1 .. count : Members(g) # {}}, <)
    IN  [db |-> new, kids |-> [k \in DOMAIN full |-> Partition(pids[full[k]], Cardinality(Members(full[k])))]]

SplitJob(i, split) ==
    /\ db' = split.db
    /\ fin' = [fin EXCEPT !.jobs[i].st = "done", !.jobs[i].kids = split.kids]

\* UsesFallback below, for a split that takes any classifier's word.
NeverFallback(kids) == kids = <<>>

\* A classifier that leaves all items together is overruled.
UsesFallback(kids) == Len(kids) <= 1

\* The trainer is replayed until it is ready, and its classifier sends every
\* value to one of `count` children.
Refine(i, count, classifier) ==
    /\ Turn(i) /\ ~cancelled
    /\ LET p      == fin.active[i]
           values == ReadAll(db, p.id)
           wide   == IF count <= 1 THEN 2 ELSE count
           split  == Split(p, [j \in DOMAIN values |-> classifier[values[j]]], wide)
           equal  == Split(p, FallbackAssignment(p.n), Len(GroupSizes(p.n)))
       IN  IF Len(values) # p.n THEN JobFails(i, "failed") /\ UNCHANGED db
           ELSE IF ~UsesFallback(split.kids) THEN SplitJob(i, split)
           ELSE IF Splittable(p.n) THEN SplitJob(i, equal)
           ELSE JobFails(i, "failed") /\ db' = Cleared(split.db, Kids(p.id, wide))
    /\ UNCHANGED <<batches, acked, phase, cancelled, ingested, out, result, faults>>

\* The entries that a rewrite over n positions has moved when it finds another
\* number of them: whole batches, up to the one that goes past the positions.
Moved(values, n) == IF Len(values) < n THEN values ELSE SubSeq(values, 1, (n \div ReadBatch) * ReadBatch)

\* Items of rank zero: equal parts under profile 0.8.0, an error under another.
\* The trainer finds out before the entries are counted, so that a rewrite meets
\* those that nobody counted.
RankZero(i) ==
    /\ Turn(i) /\ ~cancelled
    /\ LET p      == fin.active[i]
           values == ReadAll(db, p.id)
           at     == FallbackAssignment(p.n)
           pids   == Kids(p.id, Len(GroupSizes(p.n)))
       IN  IF ~RankZeroFallback \/ ~Splittable(p.n) THEN JobFails(i, "failed") /\ UNCHANGED db
           ELSE IF Len(values) = p.n THEN SplitJob(i, Split(p, at, Len(pids)))
           ELSE /\ JobFails(i, "failed")
                /\ db' = AppendedGroups(Cleared(db, pids), pids, Grouped(Moved(values, p.n), at, Len(pids)))
    /\ UNCHANGED <<batches, acked, phase, cancelled, ingested, out, result, faults>>

\* Loading, training or classifying fails, or the handle is seen: the children
\* may have the first batches already.
RefineFails(i, first) ==
    /\ Turn(i)
    /\ \/ cancelled /\ JobFails(i, "cancelled") /\ UNCHANGED faults
       \/ Fault /\ JobFails(i, "failed")
    /\ LET p      == fin.active[i]
           values == ReadAll(db, p.id)
           some   == SubSeq(values, 1, first)
       IN  db' = AppendedGroups(Cleared(db, Kids(p.id, 2)), Kids(p.id, 2), <<some, <<>>>>)
    /\ UNCHANGED <<batches, acked, phase, cancelled, ingested, out, result>>

\* The barrier: results in partition order up to the first error.
Barrier == fin.stage = "wave" /\ \A i \in DOMAIN fin.active : Settled(i)

FirstError ==
    LET bad == {i \in DOMAIN fin.active : fin.jobs[i].st # "done"}
    IN  IF bad = {} THEN "none" ELSE fin.jobs[CHOOSE i \in bad : \A j \in bad : i <= j].st

\* IdsAfterWave below, for a loop that forgets the earlier waves.
IdsOfWave == UNION {job.ids : job \in Range(fin.jobs)}

IdsAfterWave == fin.ids \cup UNION {job.ids : job \in Range(fin.jobs)}

WaveEnds ==
    /\ Barrier /\ fin.active # <<>> /\ FirstError = "none" /\ ~cancelled
    /\ fin' = Wave(fin.layer, FlattenSeq([i \in DOMAIN fin.jobs |-> fin.jobs[i].kids]),
                   fin.terminals \cup {fin.jobs[i].child : i \in {j \in DOMAIN fin.active : Terminal(fin.active[j])}},
                   IdsAfterWave, fin.input)
    /\ UNCHANGED <<batches, acked, phase, cancelled, ingested, db, out, result, faults>>

\* The layer is done: one child is the root, several are the next layer's input.
LayerEnds ==
    /\ Barrier /\ fin.active = <<>> /\ Cardinality(fin.terminals) > 1
    /\ LET next == Sorted(fin.terminals)
           pid  == Root(fin.layer + 1)
       IN  /\ db' = Appended(Cleared(db, <<pid>>), pid, next)
           /\ fin' = Wave(fin.layer + 1, <<Partition(pid, Len(next))>>, {}, fin.ids, Len(next))
    /\ UNCHANGED <<batches, acked, phase, cancelled, ingested, out, result, faults>>

\* write_indexed_child_partition fails, before or after it cleared the partition:
\* the run can be finalized again.
LayerFails ==
    /\ Barrier /\ fin.active = <<>> /\ Cardinality(fin.terminals) > 1
    /\ Fault
    /\ db' \in {db, Cleared(db, <<Root(fin.layer + 1)>>)}
    /\ fin' = Idle
    /\ UNCHANGED <<batches, acked, phase, cancelled, ingested, out, result>>

FinalizeOk ==
    /\ Barrier /\ fin.active = <<>> /\ Cardinality(fin.terminals) = 1
    /\ phase' = "Finalized"
    /\ result' = [root |-> CHOOSE b \in fin.terminals : TRUE, ids |-> fin.ids]
    /\ db' = EmptyDb
    /\ fin' = Idle
    /\ UNCHANGED <<batches, acked, cancelled, ingested, out, faults>>

\* The first error is returned; a cancellation ends the run, anything else can
\* be tried again.
FinalizeFails ==
    /\ Barrier /\ fin.active # <<>>
    /\ FirstError # "none" \/ cancelled
    /\ phase' = IF FirstError = "failed" THEN phase ELSE "Cancelled"
    /\ fin' = Idle
    /\ UNCHANGED <<batches, acked, cancelled, ingested, db, out, result, faults>>

-----------------------------------------------------------------------------

Ingest == IngestAppend \/ IngestEnds \/ IngestDropped

Materialize(i) == Load(i) \/ Put(i) \/ Materialized(i) \/ MaterializeFails(i)

\* Any classifier of at most ClusterCount children.
Refines(i) ==
    LET values == Range(ReadAll(db, fin.active[i].id)) IN
    \/ \E count \in 1 .. ClusterCount(Requested, fin.active[i].n) :
          \E f \in {g \in [values -> 1 .. count] : count > 1 => \E v \in values : g[v] = 1} :
             Refine(i, count, f)
    \/ RankZero(i)
    \/ \E first \in {0, 1} : RefineFails(i, first)

Finalize ==
    \/ FinalizeStart
    \/ /\ fin.stage = "wave"
       /\ \E i \in DOMAIN fin.active : Materialize(i) \/ (Turn(i) /\ Refines(i))
    \/ WaveEnds \/ LayerEnds \/ LayerFails \/ FinalizeOk \/ FinalizeFails

Next == Cancel \/ RefusedCancelled \/ Ingest \/ Finalize

Spec == Init /\ [][Next]_vars

-----------------------------------------------------------------------------

LeavesBelow(b) == {c.item : c \in {d \in Below(b) : d.level = 0}}

\* The leaf items a value of a partition stands for.
ItemsOf(layer, v) == IF layer = 0 THEN {v} ELSE LeavesBelow(v)

\* While finalize runs, whatever failed before and whatever an abandoned attempt,
\* or an ingest call that was dropped and whose append is done, left in the
\* partition store: every part of a partition has as many entries as the next
\* wave believes, and the partitions and the terminal children together have
\* every acknowledged item.
NothingLost ==
    fin.stage = "wave" =>
        LET waiting == {i \in DOMAIN fin.active : fin.jobs[i].st \in {"todo", "puts"}}
            entries(i) == ReadAll(db, fin.active[i].id)
            kids == UNION {Range(fin.jobs[i].kids) : i \in DOMAIN fin.active}
            made == fin.terminals \cup {fin.jobs[i].child : i \in {j \in DOMAIN fin.active : fin.jobs[j].st = "done" /\ fin.jobs[j].kids = <<>>}}
        IN  /\ \A k \in kids : Count(db, k.id) = k.n
            /\ (\A i \in DOMAIN fin.active : fin.jobs[i].st \notin {"failed", "cancelled"}) =>
                  acked \subseteq
                    (UNION {UNION {ItemsOf(fin.layer, v) : v \in Range(entries(i))} : i \in waiting})
                    \cup (UNION {UNION {ItemsOf(fin.layer, v) : v \in Range(ReadAll(db, k.id))} : k \in kids})
                    \cup (UNION {LeavesBelow(b) : b \in made})

\* The finished index has every acknowledged item; block_ids are exactly the
\* blocks under the root, all of them stored, and no branch is over- or underfull.
V3Exact ==
    phase = "Finalized" =>
        /\ acked \subseteq LeavesBelow(result.root)
        /\ result.ids = Below(result.root)
        /\ result.ids \subseteq out
        /\ \A b \in result.ids : b.level > 0 => Cardinality(b.kids) \in 2 .. Bound

\* finalize comes to an end: the parts of a partition are smaller than it, and a
\* layer leaves fewer children than it began with.
LayersShrink ==
    fin.stage = "wave" =>
        /\ \A i \in DOMAIN fin.active : \A k \in Range(fin.jobs[i].kids) : k.n < fin.active[i].n
        /\ fin.active = <<>> => Cardinality(fin.terminals) = 1 \/ Cardinality(fin.terminals) < fin.input
=============================================================================
