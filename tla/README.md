# LexonGraph in TLA+

LexonGraph builds and searches content-addressed semantic indexes. An index is a
graph of immutable blocks: a leaf holds an item with its embedding, a branch
holds embeddings of and references to child blocks, and a block's identifier is
the hash of its bytes. This directory models the parts of the program in which
order, failure, concurrency or exactness matter, checks them with TLC on small
instances and proves the most important results with TLAPS for every instance.

1. [The system](#the-system)
2. [Modules](#modules)
3. [Runs](#runs)
4. [Fairness](#fairness)
5. [Proofs](#proofs)
6. [Findings](#findings)
7. [What is left out](#what-is-left-out)
8. [Plan](#plan)

## The system

The workspace is a set of Rust crates under `src/crates/`.

| Component | State it keeps | Operations | What makes it correct |
| --- | --- | --- | --- |
| `block` | none | encode, decode, validate, both versions; EBCP branch payloads | a block has one byte string and one hash; only that byte string decodes |
| `block-store` (trait) | none | put, get, batch put, enumeration | what a caller may rely on: an acknowledged put is found by every later read, no part of a block is ever returned, nothing appears that nobody put |
| `block-store-memory` | entries, byte count, recency counter under one mutex | put with LRU eviction, get, enumeration | accounting exact, limit never exceeded, eviction always finds a victim |
| `block-store-fs` | files below shard directories; in cache mode also an in-memory account of them | publication by staging file and rename, get, directory walk; admission, eviction, reopening | nothing published is replaced, staging files never leak into reads; disk within budget across crashes and lost files |
| `block-store-redb` | one redb file, a flush flag shared by the clones of a handle | open (read-write in two durability modes, read-only), put, batch, enumeration, compaction, drop | what was promised durable survives any crash, batches are all or nothing |
| `block-store-overlay` | an ordered stack of other stores, hit counters | put to every writable layer, get with cache refill, union enumeration | replication of acknowledged puts, caches never invent blocks |
| `block-store-azure-table-v2` | rows of a table in a remote service | put of a root row and continuation rows, get, paged enumeration, retries | the root row commits the block, for any interleaving of publishers, lost answers and late requests |
| `block-store-azure`, `-azure-sdk`, `-azure-table`, `-zip` | one blob, entity or archive member per block | put with retries and a look at what is there, get, enumeration | as the trait |
| `search` | frontier, set of expanded children, results | best-first search with beam width and bounded concurrent loads | ranked, exact where scores allow it, no block loaded twice, always returns |
| `streaming-indexer`, first surface | lifecycle phase, baseline of the first pass, partition hierarchy, pass buffers | ingest_batch, finish_pass, mark_planning_complete, finalize | later passes and the final replay agree with the first; the index written has every item, and children before parents |
| second surface | fingerprint of the first pass, a topology of partitions with one trainer each | the same, over as many passes as the partitions need | partition counts are those of the baseline; planning ends |
| third surface | leaf ids in a local database, waves of partitions | ingest of block ids, finalize layer by layer with a producer thread, a thread pool and cancellation | nothing acknowledged is lost, retries ignore what a failed attempt left, the threads end |
| its status reporting | counters and snapshots shared with heartbeat threads | events of planner and waves | what observers see does not depend on the schedule |
| `streaming-clustering` and the trainers `dcbc-streaming`, `directional-pca`, `spherical-kmeans`, `pca-chunking` | trainer state, current pass, fingerprint of the first, model | ingest_batch, finish_pass, complete_training, into_classifier | lifecycle contract; the model describes the items of the first pass; cuts and sizes within their bounds |
| `adaptive-planning-policy` | which algorithm is active, decisions so far, a boundary being measured | begin boundary, ingest, finish pass | the switch is measured, one-way and final |
| `streaming-clustering-evaluator` | reports of a campaign | train and apply every candidate twice, pack, gate, rank, write; hierarchies over the survivors | no report or ranking vouches for what did not pass its gates; packers and hierarchies keep their bounds |
| `embeddings-*`, `pca`, `linear-algebra-acceleration` | none | one call each | numeric |
| `block-inspect` | none | command line | reporting |

How they interact: the indexer calls a content resolver, an embedding provider, a
planning policy (which drives a trainer) and `BlockStore::put`; the search calls
`BlockStore::get`; the overlay is a `BlockStore` made of others; the evaluator
reads a stored corpus and drives trainers. Indexer and search meet only through
the store, possibly at the same time and in different processes: that is why the
order in which the indexer stores blocks is a correctness property of its own
(`ChildrenFirst`, part of `FirstExact`), and why the search assumes no more than
it (`LoadsRight`).

What is hard: publishers of the same block that race, requests whose answer is
lost and that arrive late, processes that die between two writes, files that
change under a directory walk, state read under a lock and used after it, caches
at their limit, partially failed batches, calls that are repeated after a
failure, threads that wait for each other, passes that are not replays, sketches
and solvers whose error nobody sees, and sizes that do not divide.
`PROJECT.json` lists these hazards with their source lines and the properties
that would catch them.

## Modules

A block is its identifier in all store models (bytes are "the right ones",
"other ones" or absent, because that is all the code distinguishes); in the
indexers it is its content, since identity there is what the content makes it;
only the codec looks inside.

### Stores

**BlockStoreContract** is the abstract specification of a durable `BlockStore`:
a set `stored` that only grows, puts that may take effect while they run or after
they failed, reads that must report what was stored when they began. It is the
refinement target (`ContractSpec`) of `AzureTableV2`, `FsStore`, `OverlayStore`
and `ObjectStore`, each with a mapping that reads `stored` off the concrete state
(root rows, files with the right bytes, copies on durable layers, objects).

**AzureTableV2**. `table` is the set of rows in the service; `late` holds requests
whose answer was lost or whose future was dropped, and `LateInsert` applies them
at any later time. A put goes through the phases of `put_block_bytes`: the entity
group transaction (`Tx*` actions), the row-by-row fallback (`Row*`), the root row.
A get reads the root and then its continuation rows in any order; an enumeration
fetches pages that end anywhere. `tries` counts the attempts per request.

**AzureRowLayout** has no state: it is how the bytes of a block become rows, with
the service's real limits, and what `decode_root_metadata`, `decode_block_bytes`
and the enumeration demand of rows. `AzureTableV2` keeps the number of rows as a
constant; `MCAzureTableV2` ties its values to the layout and has TLC evaluate, as
assumptions, at the lengths around the ends of chunks and of the first rows:
`RoundTrips` (what the writer cuts is within the limits, its `unreachable!` branches are
unreachable, and the reader's capacity checks accept it), `LossDetected` (with
any one row missing the rest is refused) and `TailIsLongest` (the binary search
behind those capacity checks).

**ObjectStore** covers the stores that keep a block as one object: `kind` says
which of them. An insert only creates; a request that fails in transport is
`flying` and may take effect later, and the blob store decides by reading back.
Names that are no block names are skipped, names that only look like one are
errors. Enumeration goes page by page while objects are added.

**MemoryStore**. Actions are critical sections of the mutex. `get` has two, and
the state between them (`pc = "cloned"`) is where another thread gets in.

**FsStore** and **FsCache**. The first follows publication step by step (create
directory, create, write, persist, inspect) with errors and process death at each
step, and the walk of `FilesystemBlockIdIterator`, which lists a directory and
looks at the entries later. The second is the single-process cache mode: the plan
of evictions, their execution one by one, the publication, `observe_read` after
an unlocked read, loss of files behind the store's back, crash and
`new_cache_mb`'s reconstruction from modification times.

**OverlayStore**. `copy` is what each layer holds; a layer may fail with or
without effect; cache layers drop and damage blocks. `stats` are the lookup
counters.

**RedbStore**. redb's own transactions are external: a write transaction excludes
others and commits or aborts as a whole; a crash returns the file to the last
durable commit. The model keeps `table` (last commit) and `durable` (last durable
commit) apart, and the flag `pending` with the step between a commit and the
flag's update. Ghost variables record what callers were told (`acked`,
`promised`, `batches`).

**BlockCodec** and **BranchPayload**. A document is the CBOR value that some bytes
hold, with the keys of every map as a sequence, and the form of the bytes
(shortest, longer than need be, or with bytes to spare). `Decode` hashes, parses,
normalizes and compares with what `Encode` would write. `BranchPayload` has the
EBCP descriptors (which metadata each encoding needs and forbids) and the packing
of quantized codes into bits. `Canonical` is a reference definition that neither
parses nor sorts, `Pack` one that writes payloads bit by bit.

### Search and indexers

**Search**. One action per stage of a round: rank and stop (`Finish`,
`ExhaustedRound`), select (`Select`, any selector), answers of concurrent gets in
any order (`Answer`), consumption in selection order (`Consume`). The index, the
scores, width and count are chosen in `Init`; an indexer that is still publishing
is the action `Publish`.

**IndexTree** has the blocks of an index, the layers of branches over them and
`balanced_groups` as all three surfaces use them, and the loop of `finalize` over the
partitions that the first two share: what one step does to its locals
(`NothingBuilt`, `Spilled`, `PartitionOpened`, `LayerGrouped`, `BranchPut`,
`PartitionClosed`), and what they keep (`AssemblyInv`).

**StreamingIndexer**. The first public surface, `StreamingIndexingRun`. `phase`,
`passes`, `baseline`, `hierarchy`, `current`, `buffered` and `seen` are the
struct's fields; `fin` holds the locals of a running `finalize`, which writes one
block per step and may stop after any of them; a partition is assembled layer over
layer (`StartPartition`, `GroupLayer`, `PutBranch`, `EndPartition`, each the step of
`IndexTree` with its effect on the store), and a layer that
cannot be split fails the call with the layers below it stored. `ValidHierarchy` is
`validate_partition_hierarchy`. A branch is
the set of its children and a level: the order of its entries is a function of
the set (`normalize_current_layer` sorts), so identity by content is kept. A
partition id is the path to it from the root, as the policies name partitions.

**HierarchyPlanning** is where such a hierarchy comes from: the built-in policies
(one algorithm, hybrid of two, adaptive; from the root down or from the leaves
up), the policy with a factory of trainers and both published strategies. A
trainer run over a partition gives any assignment or fails; the fallback groups,
the repair of groups with one member, the greedy packing of terminal nodes and
the numbering of partitions are the code's. `HierarchyDerived` says that it ends,
that the hierarchy is sound and that `ValidHierarchy` accepts it.

**BranchAuthoring** is `encode_branch_entries`: the budget of bits by level, their
division among the dimensions, scales, codes and packed payloads of all six
encodings. It extends `BranchPayload`, so `BranchesReadable` is that the reader of
`lexongraph-block` accepts what the indexer writes and finds the codes in it.

**StreamingIndexerV2**. `StreamingIndexingRunV2` keeps no item: `baseline` is the
fingerprint of the first pass, `parts` the partitions with the state of their
trainers. Items are routed one by one during ingest and the batch may fail in
between; `finish_pass` takes the pass, then advances every partition, and may
fail at any of them. What a failed call leaves is what the next one finds.
`finalize` replays the items into the terminal partitions and then assembles, with
its locals in `fin`; `ValidTopology` is `validate_streaming_v2_topology`, which has to
visit every partition once.
**DirectionalCells** is the cell plan that decides the children.

**StreamingIndexerV3**, with the partition store (keys in byte order). Ingest appends ids on a blocking thread, and a dropped call still
appends; finalize goes wave by wave, with the terminal partitions of a wave
materialised in any order, failures, cancellation, and retries over what the
failed attempt left. **PreparedPipeline** is the producer thread and the bounded
channel behind every pass over a partition. **WaveStatus** and **PlanningStatus** are the
counters and heartbeat threads of its waves and of the planning stages.

### Clustering

**TrainerContract** is the abstract specification of a `StreamingClusterTrainer`, as
its conformance suite states it: its states, which passes complete, what a report may
say, and the answer to every call (`last`). A call out of turn is refused and ends the
training, with one exemption, `NotReady` (see [Findings](#findings)). A trainer is a
record, and a call a function (a
set of results where numerics decide) from a trainer to the trainer it leaves and
its answer. **DirectionalTrainer** has directional PCA with the Greenwald-Khanna
summary, the histogram and the cuts along an axis, over **DirectionalCells**;
**StreamingTrainers** has the other three (spherical k-means with the repair of empty
clusters, DCBC, PCA chunking), puts one of the four under a caller who calls in any
order, and maps it to the contract.
**ReplayLoop** is the indexer's loop around a directional trainer,
**AdaptivePlanning** the selector around one.

**CapacitySolver** has the min-cost flow of DCBC and the lexicographic choice among
its optima. It and the cuts of `DirectionalTrainer` are functions, checked against
definitions by enumeration.

### Evaluator

**Packing** (three packers) is functions; **CorpusWalk** reads a corpus with a stack of
pending blocks; **Evaluation** is `run_evaluation_campaign` with candidates that fail
or differ when repeated, gates, rankings and the files it writes, and has the
partitions of the exact-size candidates as functions; **HierarchyBuild** groups leaf
clusters layer by layer with each of the seven strategies, under the Euclidean or the
cosine metric; a metric that is not supported is refused before anything is built.

The `MC*` modules give the constants that a configuration cannot write down.
`MCStores`, `MCIndexers` and `MCClustering` hold several models in one run: `part` is
the model a behaviour belongs to, chosen in `Init` and never changed, its
variables are the slots `v1`, `v2`, ... under an `INSTANCE`, and a property is that
of the instance under the condition that `part` is its own. The state graph is
the disjoint union of the graphs of the models.

## Runs

Every bound is a constant or an argument of an `INSTANCE`; the table says why it is
enough.

| Run | Instance | Shows |
| --- | --- | --- |
| `azure_v2_publish` | two publishers of one three-row block, a reader, two attempts, no transaction fits | `CommitPoint`: a root row has all its continuation rows; `NoTornRead`; refinement of the contract. Two publishers are what any set of them looks like to one another, since clients share only the table; three rows make two concurrent continuation inserts and the root |
| `azure_v2_live` | a publisher and a client that gets or enumerates, a one-row and a two-row block, transactions fit, two attempts | `EnumerationOrdered`, the contract through the transaction path, and `CallsReturn` |
| `stores` | six parts, below | `CachesBounded`, `EvictsLeastRecent`, `EnumerationSound`, `NeverOverwritten`, `Replicated`, `ContractSpec`, `CodecExact` |
| `search` | an index with shared leaves, all score assignments, widths and counts around its size, one fault | `ExactWhenAdmissible`, `ExhaustedHonest`, `LoadsRight`, `SearchReturns`. Shared leaves make one block a candidate in two rounds |
| `redb` | two tasks, three blocks, both modes, crash anywhere, a read-only process | `PromisesKept`, `FlagCovers`, `BatchAtomic`, `NeverReplaced`, `CallsReturn` |
| `indexers` | seven parts, below | `FirstExact`, `NothingLost`, `V3Exact`, `PipelineExact`, `PipelineReturns`, `StatusTruthful` |
| `indexer_v2` | data sets of three to five items with repetitions, bound two, two phases, two failures, ten passes | `CountsExact`, `CompleteRoutes`, `FinalizedExact`, `LadderBound`. Equal items cannot be separated and need the fallback; five items need partitions of partitions |
| `clustering` | ten parts, below | `TrainerContract`, `ModelExact`, `CutsAccurate`, `DivisionsOptimal`, `CampaignHonest`, `HierarchyHonest` |
| `memory_get_refresh`, `overlay_damaged_cache`, `indexer_failed_batch`, `status_regress` | | violations, see findings |

Parts of `stores`:

- memory: two clients, three blocks, sizes 0, 1, 2 and 4 with limits of two blocks
  and three bytes. Size 4 never fits, 0 never needs room, three blocks force
  eviction. `CachesBounded` is the exact account, the limit, and that eviction
  always has a victim.
- cache: three blocks of different sizes over a budget of three, a reader,
  crashes, a lost file. `CachesBounded` is the budget, that what may fit does, and
  that opening keeps the newest.
- fs: two writers, a client that gets and walks, two blocks in one shard, foreign
  files, one orphan. One shard makes every race a race in the same directory.
- overlay: cache, two writable layers, read-only archive, a writer and a reader.
- object: a writer and a reader, two blocks of which the table cannot hold one,
  names of two other kinds, pages of one name, two attempts, all four kinds.
- codec: branches of up to three entries whose embeddings are prefixes of each
  other, leaves of up to two entries, fields and extensions in and out of order or
  repeated, every combination of descriptor metadata, every payload of one byte
  and the corners of two, and documents with one mistake. A pair of widths covers
  a byte that is filled, one that is not and a code across two bytes. Float
  payloads hold a NaN, both infinities, the greatest finite value and values around
  2^65. A branch with a float that is not finite is accepted: the block crate looks
  at payload values only when it reconstructs one, and refuses then (DSG-022), so
  `CodecExact` says that nothing but such a value, or a sum out of the finite range,
  keeps a payload of an accepted branch from being decoded.

Parts of `indexers`:

- first: four items that may repeat, batches of two, two passes, bound of two
  children, hierarchies flat, split, nested and malformed. Four distinct items
  under a bound of two need two layers of branches; three cannot be split and must
  fail.
- planning: thirteen plannings of one to eight items under bounds of two and three,
  a capped profile, hybrids in both directions, and representatives at equal
  distances. Eight items need three layers; every assignment of the trainers and
  every failure is tried.
- authoring: two entries on a grid under widths of zero to five, all descending
  weights up to three of three dimensions, and budgets at the limit of 31 bits,
  where a heavy dimension cannot take its share.
- run (third surface): three streams of up to four items in two batches, with up
  to two failures; a bound of two makes two layers and waves with several
  partitions.
- pipeline: six batches over a look-ahead of three, so that the channel fills.
- wave: four partitions of different sizes, two heartbeats a phase; tracker: six
  events of two stages, two heartbeats.

Parts of `clustering`:

- trainer: all four algorithms and settings, batches with a refused embedding,
  passes of up to four items; replay: partitions of up to four embeddings with
  repetitions, all settings; adaptive: boundaries of up to three embeddings and
  refused ones, up to four decisions, so that there are decisions after the switch.
- axis: all sequences of up to eight coordinates with a rank error of a quarter,
  so that the summary is compressed several times.
- solver: three points, two clusters, all costs up to two and all bounds; packing:
  all clusterings of up to five entities; family: up to four points on a grid or
  six on a line.
- campaign: eight profiles with inconsistent gates, leaves that cannot be filled
  and corpora of the wrong size, three candidates with colliding file names;
  corpus: stores with shared, missing and self-referring blocks; hierarchy: up to
  nine leaves and five fanouts, some of which no layer can meet, under both metrics,
  with clusters that contain a zero or cancel alone, in pairs or all together. Under
  the cosine metric such embeddings have no direction and the code gives the build up
  although the layer could be divided (the objective strategies even when a group they
  only consider cancels); `HierarchyHonest` names this as the one other reason.

Deadlock is checked in `azure_v2_*`, `stores`, `search` and `redb`. The runs of
indexers, trainers and campaigns end when the caller is done, and so do the
budgets of the violation runs. Counters that grow without limit in the program
(recency, attempts, gets, passes, records) are cut off by named constants in the
guards.

## Fairness

- `azure_v2_live`: weak fairness of each client's put, get and enumeration steps.
  The service answers or the request counts as lost, and the executor polls the
  future; nothing is assumed about which answer comes.
- `search`: weak fairness of the search's own steps. Each is a loop iteration or
  the answer of a get; gets may fail.
- `redb`: weak fairness of each task's steps inside a call. A write transaction
  is waited for; `CallsReturn` says that whoever holds it gives it up.
- `indexers`: weak fairness of the producer thread and of the consumer thread of a
  pipeline, one condition each, since the operating system schedules them.

No fairness is assumed for callers, crashes, publishers or losses. That planning,
splitting, replaying and selecting come to an end is stated as bounds on what
they do (`LadderBound`, `LayersShrink` in `V3Exact`, the pass limits in `ModelExact`),
which is stronger and needs no fairness.

## Proofs

Each theorem holds for every value of the constants: any sets of clients, blocks,
items and layers, any layout, bound, page size, number of attempts and look-ahead.
A `...Proofs` module extends the module it is named after. What is proved through an
`INSTANCE` stands in the module of a neighbour: `MemoryStore` and `FsCache` beside
`RedbStore` in `LocalStoreProofs`, `FsStore` and `ObjectStore` beside `OverlayStore` in
`SharedStoreProofs`, `PreparedPipeline`,
`PlanningStatus` and `WaveStatus` in `StreamingIndexerProofs`, `StreamingTrainers` in
`StreamingIndexerV2Proofs`. 38 theorems are listed in `PROJECT.json`; the table names
the invariant that is inductive and what it adds.

| Module | Theorems | Inductive invariant |
| --- | --- | --- |
| `AzureTableV2Proofs` | `TypeCorrect`, `RootCommits` (`CommitPoint`), `ReadsAreWhole` (`NoTornRead`) | `CommitPoint` alone breaks on a root insert in flight, waited for or `late`. Added: a client in the root phase, and every late request with a root row, has the continuation rows in the table; a reader past the root row has seen a committed block |
| | `PagesOrdered` (`EnumerationOrdered`) | `ListInv`: what was yielded lies before the rows in hand, and both before the cursor |
| | `ImplementsContract` (`ContractSpec`) | `RefInv`: also that a block stored when the enumeration began is yielded, in hand or ahead of the cursor, and that whatever is stored or on its way was attempted |
| `LocalStoreProofs`, redb | `TypeCorrect`, `Durability` (`PromisesKept`), `FlushComplete` (`FlagCovers`), `BatchesWhole` (`BatchAtomic`), `ConflictsKept` (`NeverReplaced`) | `Session` (what is durable is never ahead of what is visible, a task that flushes is the only owner, the flag covers whatever else is not durable) and `Batches` (a batch is visible as a whole, and durable as a whole or not at all); without `Session` neither a crash nor the last drop would preserve `PromisesKept` |
| memory | `MemoryBounded` | `MemoryInv`: the account is the sum of the resident payloads, so that while it is above the limit something is resident |
| cache | `CacheBounded`, `EvictionLeastRecent` | `CacheInv`: no two entries have one recency and none is ahead of the counter; the account is the sum of the entries and within the budget; every file has its entry, but for those an opening still has to look at; the evictions planned are the least recent ones, and no more than are needed |
| `SharedStoreProofs`, overlay | `AcknowledgedReplicated` (`Replicated`), `CachesHoldStored` (`CachesFollow`), `CountersConsistent` (`StatsConsistent`), `IdsReturnedOnce` (`NoDuplicates`), `OverlayImplementsContract` | `OverlayInv`: a put without a failure so far is on all writable layers it has passed; a get without an error has not passed by the block it is to find; a refill has a block that is stored; the counters of a layer and the calls at it or past it account for those of the layer above |
| fs | `PublishedBytesStay` (`NeverOverwritten`), `WalksSound` (`EnumerationSound`), `FsImplementsContract` | `FsInv`: a stage file is its writer's alone, and a block stored when a walk began is yielded, among the files in hand or in a directory still to be listed |
| objects | `ObjectsImplementContract` | `ObjectInv`: what is stored, in flight or awaits a look was attempted, and a block stored when an enumeration began is yielded, in the page in hand or behind the marker |
| `SearchProofs` | `LoadsOnce` (`LoadsRight`), `ExhaustionHonest` (`ExhaustedHonest`), `BestLeaves` (`ExactWhenAdmissible`) | every reference of an expanded block is expanded, in the frontier or in the chunk in hand; gets follow the set of visited blocks; the store has with a block its children |
| `IndexTreeProofs` | `GroupsPartition`, `ForestIsBelow`, `AssemblyExact` | `AssemblyInv`: the ids are a forest over the leaves of the items; what a partition is assembled from is among them; a group has a size and a level to make a branch of; and every id without a parent is still in some hand, so that none is left behind when the root is done |
| `StreamingIndexerProofs`, run | `ChildrenStoredFirst` (`ChildrenFirst`), `FinalizeReturnsIndex` (`ResultExact`) | `IndexerInv`: `AssemblyInv` of the running finalize, whose ids are stored, and the leaves of the items replayed so far |
| pipeline | `PipelineCommitsAll` (`PipelineExact`) | `PipelineInv`: every prepared batch is committed, in the channel or in hand while the receiver lives, and what is known when either thread has ended |
| tracker | `StatusesOrdered` (`StatusOrdered`) | `TrackerInv`: a stage whose status is told, in the snapshot, in the heartbeat's hand or on the list of work was told to have started or is so earlier on the list (`StartsFirst`); the heartbeat is joined before a final status (`EndsInOrder`); a final count is the last event's (`FinalSeen`) |
| waves | `WavesCounted` (`WaveCounts`) | `WaveInv`: the counter is the weight of the partitions before the first that has not ended (`FlagsExact`); the heartbeat of a phase that is finished has stopped (`OutcomeExact`); what was told, and what a heartbeat has in hand, are former values of the counter in order (`ToldExact`) |
| `StreamingIndexerV2Proofs`, run | `FinalizedIndexExact` (`FinalizedExact`) | `RunInv`: `AssemblyInv` of the running finalize over the partitions of a topology that was validated, with the leaves of the items replayed so far; assembly starts only when the replay was the baseline |
| trainers | `TrainersImplementContract`, `ModelsExact` | `TrainerInv`, per algorithm: what is known of the first pass in every phase (`FitInv`), bounds that can be met (`BoundsInv`), boundaries that cut where chunks end and the rank of the keys passed (`ChunkInv`), a plan whose cells have members and give every item of a replay a cluster (`DirectionalInv`) |
| `StreamingIndexerV3Proofs` | `WavesLoseNothing` (`NothingLost`), `LayeredIndexExact` (`V3Exact` of `StreamingIndexerV3`) | `V3Inv`: the table of the partition store has exactly the entries its counts say (`Dbs`); between attempts the root partition has every acknowledged item; of a wave, the partitions and the terminal children have them, a job that splits has parts with all its partition has, a job that puts has a tree of which what is stored and what is still to be put are all the blocks (`WaveOk`); and block_ids are the blocks under both |

The refinements of `BlockStoreContract` map what a caller sees (`opBar`, `idsBar`): the
initial states map to initial states and each step to a step of the contract or a
stutter. The contract has no fairness, so nothing about liveness is claimed there.
`TrainersImplementContract` is a refinement in the same sense, with the last call and its
answer as they are: a call that is refused without a change is a step of the contract,
not a stutter.

Data is reasoned about without the induction schemes of the library:

- A least counterexample takes the place of induction. `LeastNumber` (a set of
  numbers that is not empty has a least member) bounds the levels of a finite layer,
  finds the group of a child, ranks the candidates of a frontier; `AllNumbers` is the
  same fact for a set of numbers that has zero and with every number the next.
- A sum is the cardinality of a set of pairs (the bytes of the entries of a cache,
  the items of the partitions of a wave), which finite-set facts carry through the
  insertion and removal of one.
- A recursive function is used through the existence of its runs: that a finite
  table with its recursion equation exists for every length makes the function have
  a value at each number and satisfy the equation there. The batches of a rewrite, the
  appends to the parts, the layers of a child set and the concatenation of the jobs'
  parts (`Rewritten`, `AppendedGroups`, `Assemble`, `FlattenSeq`) are taken apart so.
- The partition store is a table in byte order. `ScanMeets` says that, for any
  partition ids, the keys from an index of a partition to its end are that
  partition's and no other's, a prefix of its id included; a read in batches then
  returns what was appended, and clearing one partition leaves the others alone.
- Reachability in `Search` and the blocks under a root in `IndexTree` are least closed
  sets, so that "all of it" follows from closure without a path; `ForestIsBelow` is
  the step from "every block has a parent but one" to "all lie under that one".

Attempts at proofs have changed the model where it was wrong or could not be
reasoned about. `balanced_groups` is asked for every layer of a child set and may
refuse one after lower layers were stored (six children under a bound of two make
three branches, which cannot be split), which the model of finalize had taken to be
settled by the first layer. `validate_streaming_v2_topology` also refuses a partition
that its walk from the root does not visit, which the model had left out and without
which the index of the root need not have every item. Pages of `ObjectStore`, boundaries of the chunks and
counts of a wave are described by position, rank and cardinality; the loops of the
cell plan, the k-means repair and the appends of the partition store are recursive
functions.

Assumptions are named. `GraphAssumption`, `BoundAssumption`, `DataAssumption` and those of
the Azure and redb modules are `ASSUME`d where the constants are declared;
`MemoryAssumption`, `FsCacheAssumption`, `FsStoreAssumption`, `OverlayAssumption`,
`ObjectAssumption`, `PipelineAssumption`, `TrackerAssumption`, `WaveAssumption`,
`V3Assumption` and `TrainersAssumption` are hypotheses of their theorems, and `StoresAssumption` of
`MCStores`, `IndexersAssumption` of `MCIndexers` and `ClusteringAssumption` of
`MCClustering` have TLC evaluate them for the instances. They say that sets are finite
where the code holds them in memory, that bounds and sizes are numbers, that a layer
has one of the roles and there are two of them at least, that the order of names has
every block, that the batches of a stream are sequences and a read takes one entry at
least, that an opening can number the files it finds (`Cardinality(Blocks) <=
MaxRecency`, the counter has 64 bits), and that a trainer's configuration is one its
constructor accepts; nothing else.

Only model-checked, and why:

- liveness (`CallsReturn`, `SearchReturns`, `PipelineReturns`), which needs fairness;
- of the first surface that failed attempts left no other block (`store = answer.ids`),
  which compares the trees of two finalize calls, `HierarchyDerived` and
  `BranchesReadable`; of the second `CountsExact`, `CompleteRoutes` and `LadderBound`:
  routing and planning are recursive functions and folds over data; of the third
  `LayersShrink`, the bound on the waves and layers of a finalize;
- `CodecExact`, `CutsAccurate`, `DivisionsOptimal`, `CampaignHonest`, `HierarchyHonest`:
  what a codec, a sketch, a solver, a packer computes is checked against a definition
  over bounded inputs;
- the parts of `ModelExact` about `ReplayLoop` and `AdaptivePlanning`.

## Findings

- **memory_get_refresh** (`GetRefreshesEntry`). `get` releases the mutex between
  cloning the bytes and refreshing the entry, so a concurrent put may evict the
  entry a get has just served; the requirements say a successful get refreshes it.
- **overlay_damaged_cache** (`ValidCopyFound`). The overlay takes the first bytes a
  layer returns; validation happens above it, so a damaged cache copy hides the
  valid one below for as long as it stays.
- **indexer_failed_batch** (`ReportTruthful`). A first-pass batch that fails at a
  later item leaves its earlier items in `current_pass_items`. The pass then
  reports more items than it accepted, its baseline has items the caller was told
  had failed (or has them twice after a retry), and `mark_planning_complete`
  refuses the hierarchy of the items that were accepted.
- **status_regress** (`CountsMonotone`). A status is emitted before the heartbeat's
  snapshot is replaced, so a heartbeat in between repeats the older count after the
  newer one; the design says the completed count of a phase never goes down.

The documents disagree about one behaviour, and the contract exempts it by name.
`complete_training` of directional PCA after a completed pass that left no model is
refused as an invalid transition and yet leaves the trainer in `PassComplete`
(`directional-pca/src/lib.rs:1166-1171`). DSG-STREAM-TRAIT-007
(`docs/specs/rust-streaming-clustering-crate/design.md:80-86`), DSG-DPCA-STREAM-005
(`rust-directional-pca-crate/design.md:83-91`) and REQ-DPCA-STREAM-019 (its
`requirements.md:347-352`) ask for the terminal error state, which PCA chunking enters in
the same situation (`pca-chunking/src/lib.rs:404-410`). DSG-STREAM-INDEXER-126
(`rust-streaming-indexer-crate/design.md:1707-1725`) and the indexer
(`streaming-indexer/src/lib.rs:4315-4321` and `7013-7021`, `v3.rs:2081-2084`) rely on going
on. `TrainerContract` lets only a trainer with `lenient` do so, only in that state, and
only with that answer; a trainer that did it elsewhere would violate the property.

Two things the models show without contradicting a document: a selector whose
measurement saw the wrong number of embeddings keeps a boundary that no call can
end (`finish_pass` takes the measurement before looking at it), and the extra
status of a cancelled wave says one unit of one whatever was reported before.

## What is left out

- Floating point. Eigenvectors, centroids, distances and radii decide by
  nondeterminism (trainers, selector) or are small integers of the instance (axis
  coordinates, costs, grid points, embeddings on a line in `Packing` and
  `HierarchyBuild`, vectors in `BranchAuthoring`, whose weights stand for the logarithm
  of a variance). Overflow of sums to infinity, the numbers that a rotation or a
  dequantization gives and the evaluator's metrics other than neighbour counts are
  not modelled.
- In the codec SHA-256 is injective, keys of maps are small numbers or one text,
  and the bytes of CBOR are a value and a form. Payloads of ordinary encodings have
  any length, because the code does not check it when it decodes. The vectors of a
  descriptor are moderate (at most 2^30), huge or refused; where a sum may overflow
  both outcomes of a reconstruction are possible.
- Telemetry (no state depends on it), failure injection of the redb crate, search's
  routing-depth summary, the wording of reports and scorecards, synthetic entities
  of the evaluator. redb's opening is one step, and a commit that fails has no
  effect.
- `StreamingIndexer` leaves open in which order partitions that are ready are
  assembled (the code takes terminals by id, then post-order); item indices of a
  partition are a set, so the check that the vector is sorted and unique has no
  counterpart.
- Of the evaluator: the harvesting of section 4, the compositions of section 6 and
  the simulated search of section 7 measure what the modelled parts produce; they
  are sequential and numeric. Of the archive store: parsing the central directory.
- Of a campaign: the id of a gate is its kind and its bounds come from the leaf size (the
  code requires by id, evaluates the declared kind and bounds, and ties neither to the
  other), and there are no `MetricAtLeast` gates. `CampaignHonest` is about such profiles.
  A family classifier is applied to what it was trained on, so its fallback to the
  nearest centroid is not reached, and grid points have the two dimensions that the
  curve mode takes.
- `ObjectStore` takes a 409 or 412 to mean that the block is there, as the code does,
  which does not look at the bytes; nobody else writes to the container.
- Of the second surface, the failures of `create_partition_node` for the root and of
  `create_child_nodes` within `finish_pass`: a configuration that a trainer refuses.
- Of the third, an append of a dropped `ingest_block_id_batch` that lands after the next
  call began: the blocking thread is not waited for. In the model the append of a
  dropped call is done when the next call starts.
- Of directional PCA, the choice of how many axes are retained: there are two. Of the
  selector, radii that are not finite: the boundary is refused as one with the wrong
  number of embeddings is.
- `pca`, `linear-algebra-acceleration`, `embeddings-*` and `block-inspect` have no
  interleaving, failure handling or protocol of their own; `PROJECT.json` gives the
  reason for each.

## Plan

Theorems, in order of importance:

1. `CountsExact` of `StreamingIndexerV2`. The number of items that reach a partition
   is a recursion along its ancestors; it would be written as a recursive function
   and carried by least counterexample, as the iterations of the trainers are.
2. What `ReplayLoop` and `AdaptivePlanning` keep of a trainer between calls; the
   invariants of the trainers are there to build on.
3. `LayersShrink` of `StreamingIndexerV3`: that a split gives two parts at least and
   the groups of a layer are fewer than its children.
4. The capacity checks of `AzureRowLayout` for every length, which TLC evaluates at
   the lengths where rows and chunks end.
