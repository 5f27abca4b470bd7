----------------------- MODULE StreamingIndexerV2Proofs -----------------------
(***************************************************************************)
(* Proofs about StreamingIndexerV2, for every bound, data set, profile and  *)
(* sequence of calls.                                                       *)
(***************************************************************************)
EXTENDS StreamingIndexerV2, IndexTreeProofs, SequenceTheorems

LEMMA TopologySound == ValidTopology => SoundParts(parts)
<1> SUFFICES ASSUME ValidTopology, NEW p \in DOMAIN parts
             PROVE  /\ Range(parts[p].children) \subseteq DOMAIN parts
                    /\ parts[p].terminal => Range(parts[p].children) = {}
  BY DEF SoundParts
<1>1. \A c \in Range(parts[p].children) : c \in DOMAIN parts
  BY DEF ValidTopology
<1>2. parts[p].terminal => parts[p].children = <<>>
  BY DEF ValidTopology
<1>3. Range(<<>>) = {}
  BY DEF Range
<1> QED BY <1>1, <1>2, <1>3

\* What a finalize leaves alone it finds as it was.
LEMMA PlanningStays ==
    ASSUME UNCHANGED planning
    PROVE  /\ data' = data /\ phase' = phase /\ baseline' = baseline /\ parts' = parts
           /\ ValidTopology' <=> ValidTopology
BY DEF planning, ValidTopology, Visited

\* The facts that every step of a running finalize starts from.
LEMMA Running ==
    ASSUME RunInv, fin # Idle
    PROVE  /\ data \in DataSets /\ FinalizedExact
           /\ DOMAIN fin = {"stage", "items", "seen", "asm"}
           /\ fin.stage \in {"replay", "assemble"}
           /\ phase = "PlanningComplete" /\ ValidTopology
           /\ fin.items \in Seq(Items)
           /\ IF fin.stage = "replay" THEN DOMAIN fin.asm.built = {} /\ fin.asm.open = {}
                                      ELSE fin.items = baseline
           /\ fin.asm.ids \subseteq store
           /\ AssemblyInv(fin.asm, parts, {Leaf(i) : i \in Range(fin.items)})
BY DEF RunInv, FinInv, Replayed

\* Calls outside of a finalize.
LEMMA CallsKeep ==
    ASSUME RunInv, fin = Idle, UNCHANGED <<data, fin, store, result>>,
           phase' # "Finalized" \/ UNCHANGED <<phase, baseline>>
    PROVE  RunInv'
<1>1. data' \in DataSets /\ FinInv'
  BY DEF RunInv, FinInv
<1>2. FinalizedExact'
  BY DEF RunInv, FinalizedExact
<1> QED BY <1>1, <1>2 DEF RunInv

LEMMA IngestKeeps ==
    ASSUME RunInv, Ingest
    PROVE  RunInv'
<1>1. ASSUME NEW batch, IngestBatch(batch) PROVE RunInv'
  BY <1>1, CallsKeep DEF IngestBatch, Calls
<1>2. ASSUME NEW batch, NEW k, IngestFails(batch, k) PROVE RunInv'
  BY <1>2, CallsKeep DEF IngestFails, Calls
<1> QED BY <1>1, <1>2 DEF Ingest, IngestNext, IngestWrong

LEMMA FinishKeeps ==
    ASSUME RunInv, Finish \/ MarkPlanningComplete \/ Refused
    PROVE  RunInv'
<1>1. ASSUME NEW fate, NEW classifier, FinishPass(fate, classifier) PROVE RunInv'
  BY <1>1, CallsKeep DEF FinishPass, Calls
<1>2. CASE FinishPassFails
  BY <1>2, CallsKeep DEF FinishPassFails, Calls
<1>3. CASE MarkPlanningComplete
  BY <1>3, CallsKeep DEF MarkPlanningComplete, Calls
<1>4. CASE Refused
  BY <1>4, CallsKeep DEF Refused, Calls, planning
<1> QED BY <1>1, <1>2, <1>3, <1>4 DEF Finish

\* finalize begins with nothing in hand.
LEMMA StartKeeps ==
    ASSUME RunInv, StartFinalize
    PROVE  RunInv'
<1>1. /\ phase = "PlanningComplete" /\ ValidTopology /\ UNCHANGED <<planning, store, result>>
      /\ fin' = [stage |-> "replay", items |-> <<>>, seen |-> [p \in DOMAIN parts |-> <<>>],
                 asm |-> NothingBuilt(parts)]
  BY DEF StartFinalize
<1>2. /\ data' = data /\ phase' = phase /\ baseline' = baseline /\ parts' = parts
      /\ ValidTopology'
  BY <1>1, PlanningStays
<1>3. /\ DOMAIN fin' = {"stage", "items", "seen", "asm"} /\ fin'.stage = "replay"
      /\ fin'.items = <<>> /\ fin'.asm = NothingBuilt(parts)
  BY <1>1
<1>4. /\ AssemblyInv(fin'.asm, parts, {})
      /\ DOMAIN fin'.asm.built = {} /\ fin'.asm.open = {} /\ fin'.asm.ids = {}
  BY <1>3, NothingBuiltKeeps
<1>5. fin'.items \in Seq(Items) /\ {Leaf(i) : i \in Range(fin'.items)} = {}
  BY <1>3 DEF Range
<1>6. AssemblyInv(fin'.asm, parts', {Leaf(i) : i \in Range(fin'.items)})
  BY <1>2, <1>4, <1>5
<1>7. FinInv'
  BY <1>1, <1>2, <1>3, <1>4, <1>5, <1>6 DEF FinInv
<1>8. data' \in DataSets /\ FinalizedExact'
  BY <1>1, <1>2 DEF RunInv, FinalizedExact
<1> QED BY <1>7, <1>8 DEF RunInv

\* A leaf is stored and spilled to a terminal partition.
LEMMA ReplayItemKeeps ==
    ASSUME RunInv, NEW item \in Items, ReplayItem(item)
    PROVE  RunInv'
<1> DEFINE w == Walk(parts, fin.seen, item)
           L == {Leaf(i) : i \in Range(fin.items)}
           items == fin.items
<1>1. /\ fin.stage = "replay" /\ w.at \in Terminals(parts)
      /\ store' = store \cup {Leaf(item)}
      /\ fin' = [fin EXCEPT !.items = Append(@, item), !.seen = w.seen,
                            !.asm = Spilled(@, w.at, Leaf(item))]
      /\ UNCHANGED <<planning, result>>
  BY DEF ReplayItem
<1>2. fin # Idle
  BY <1>1 DEF Idle
<1>3. /\ data \in DataSets /\ FinalizedExact
      /\ DOMAIN fin = {"stage", "items", "seen", "asm"}
      /\ phase = "PlanningComplete" /\ ValidTopology /\ items \in Seq(Items)
      /\ DOMAIN fin.asm.built = {} /\ fin.asm.open = {} /\ fin.asm.ids \subseteq store
      /\ AssemblyInv(fin.asm, parts, L)
  BY <1>1, <1>2, Running
<1>4. /\ data' = data /\ phase' = phase /\ baseline' = baseline /\ parts' = parts
      /\ ValidTopology'
  BY <1>1, <1>3, PlanningStays
<1>5. Leaf(item).level = 0 /\ Leaf(item).kids = {}
  BY DEF Leaf
<1> HIDE DEF w
<1>6. /\ DOMAIN fin' = DOMAIN fin /\ fin'.stage = "replay" /\ fin'.items = Append(items, item)
      /\ fin'.asm = Spilled(fin.asm, w.at, Leaf(item))
  BY <1>1, <1>3
<1>7. /\ AssemblyInv(fin'.asm, parts, L \cup {Leaf(item)})
      /\ DOMAIN fin'.asm.built = {} /\ fin'.asm.open = {}
      /\ fin'.asm.ids = fin.asm.ids \cup {Leaf(item)}
  <2> HIDE DEF L
  <2>1. AssemblyInv(fin.asm, parts, L) /\ w.at \in Terminals(parts)
    BY <1>1, <1>3
  <2>2. LET n == Spilled(fin.asm, w.at, Leaf(item)) IN
        /\ AssemblyInv(n, parts, L \cup {Leaf(item)})
        /\ DOMAIN n.built = {} /\ n.open = {} /\ n.ids = fin.asm.ids \cup {Leaf(item)}
    <3>1. PICK t, leaf, a : t \in Terminals(parts) /\ t = w.at /\ leaf = Leaf(item) /\ a = fin.asm
      BY <2>1
    <3>2. /\ AssemblyInv(a, parts, L) /\ DOMAIN a.built = {} /\ a.open = {}
          /\ leaf.level = 0 /\ leaf.kids = {}
      BY <3>1, <2>1, <1>3, <1>5
    <3>3. LET n == Spilled(a, t, leaf) IN
          /\ AssemblyInv(n, parts, L \cup {leaf})
          /\ DOMAIN n.built = {} /\ n.open = {} /\ n.ids = a.ids \cup {leaf}
      BY <3>1, <3>2, SpilledKeeps
    <3> QED BY <3>1, <3>3
  <2> QED BY <2>2, <1>6
<1>8. Append(items, item) \in Seq(Items) /\ Range(Append(items, item)) = Range(items) \cup {item}
  <2> HIDE DEF items
  <2>1. /\ Append(items, item) \in Seq(Items) /\ DOMAIN items = 1 .. Len(items) /\ Len(items) \in Nat
        /\ DOMAIN Append(items, item) = 1 .. Len(items) + 1
        /\ Append(items, item)[Len(items) + 1] = item
        /\ \A i \in 1 .. Len(items) : Append(items, item)[i] = items[i]
    BY ONLY <1>3, item \in Items
  <2>2. \A i \in 1 .. Len(items) + 1 : i \in 1 .. Len(items) \/ i = Len(items) + 1
    BY ONLY <2>1
  <2>3. \A i \in 1 .. Len(items) : i \in 1 .. Len(items) + 1
    BY ONLY <2>1
  <2>4. Len(items) + 1 \in 1 .. Len(items) + 1
    BY ONLY <2>1
  <2> QED BY <2>1, <2>2, <2>3, <2>4 DEF Range
<1>9. {Leaf(i) : i \in Range(fin'.items)} = L \cup {Leaf(item)}
  BY <1>6, <1>8
<1>10. AssemblyInv(fin'.asm, parts', {Leaf(i) : i \in Range(fin'.items)})
  BY <1>4, <1>7, <1>9
<1>11. FinInv'
  BY <1>1, <1>3, <1>4, <1>6, <1>7, <1>8, <1>10 DEF FinInv
<1>12. data' \in DataSets /\ FinalizedExact'
  BY <1>1, <1>3, <1>4 DEF FinalizedExact
<1> QED BY <1>11, <1>12 DEF RunInv

LEMMA ReplayKeeps ==
    ASSUME RunInv, ReplayNext \/ \E item \in Items : ReplayWrong(item)
    PROVE  RunInv'
<1>1. CASE ReplayNext
  <2>1. fin.stage = "replay" /\ Len(fin.items) < Len(data)
    BY <1>1 DEF ReplayNext
  <2>2. fin # Idle
    BY <2>1 DEF Idle
  <2>3. fin.items \in Seq(Items) /\ data \in Seq(Items)
    BY <2>2, Running, DataAssumption
  <2>4. data[Len(fin.items) + 1] \in Items
    BY <2>1, <2>3
  <2> QED BY <2>4, <1>1, ReplayItemKeeps DEF ReplayNext
<1>2. CASE \E item \in Items : ReplayWrong(item)
  BY <1>2, ReplayItemKeeps DEF ReplayWrong
<1> QED BY <1>1, <1>2

\* Steps that leave the replay as it is.
LEMMA AssemblyKeeps ==
    ASSUME RunInv, fin # Idle, UNCHANGED <<planning, result>>,
           store \subseteq store',
           DOMAIN fin' = DOMAIN fin, fin'.stage = "assemble", fin'.items = fin.items,
           fin.items = baseline,
           fin'.asm.ids \subseteq store',
           AssemblyInv(fin'.asm, parts, {Leaf(i) : i \in Range(fin.items)})
    PROVE  RunInv'
<1>1. /\ data \in DataSets /\ FinalizedExact /\ phase = "PlanningComplete" /\ ValidTopology
      /\ DOMAIN fin = {"stage", "items", "seen", "asm"} /\ fin.items \in Seq(Items)
  BY Running
<1>2. /\ data' = data /\ phase' = phase /\ baseline' = baseline /\ parts' = parts
      /\ ValidTopology'
  BY <1>1, PlanningStays
<1>3. AssemblyInv(fin'.asm, parts', {Leaf(i) : i \in Range(fin'.items)})
  BY <1>2
<1>4. Replayed'
  BY <1>2 DEF Replayed
<1>5. FinInv'
  BY <1>1, <1>2, <1>3, <1>4 DEF FinInv
<1>6. data' \in DataSets /\ FinalizedExact'
  BY <1>1, <1>2 DEF FinalizedExact
<1> QED BY <1>5, <1>6 DEF RunInv

\* What the steps of the assembly start from.
LEMMA Assembling ==
    ASSUME RunInv, fin.stage = "assemble"
    PROVE  /\ fin # Idle /\ DOMAIN fin = {"stage", "items", "seen", "asm"}
           /\ fin.items = baseline /\ ValidTopology /\ SoundParts(parts)
           /\ fin.asm.ids \subseteq store
           /\ AssemblyInv(fin.asm, parts, {Leaf(i) : i \in Range(fin.items)})
<1>1. fin # Idle
  BY DEF Idle
<1> QED BY <1>1, Running, TopologySound

LEMMA ReplayEndsKeeps ==
    ASSUME RunInv, ReplayEnds
    PROVE  RunInv'
<1>1. fin # Idle /\ fin.items = baseline /\ UNCHANGED <<planning, store, result>>
  BY DEF ReplayEnds, Replayed, Idle
<1>2. /\ DOMAIN fin = {"stage", "items", "seen", "asm"} /\ fin.asm.ids \subseteq store
      /\ AssemblyInv(fin.asm, parts, {Leaf(i) : i \in Range(fin.items)})
  BY <1>1, Running
<1>3. DOMAIN fin' = DOMAIN fin /\ fin'.stage = "assemble" /\ fin'.items = fin.items /\ fin'.asm = fin.asm
  BY <1>2 DEF ReplayEnds
<1> QED BY <1>1, <1>2, <1>3, AssemblyKeeps

LEMMA StartPartitionKeeps ==
    ASSUME RunInv, NEW p, StartPartition(p)
    PROVE  RunInv'
<1>1. /\ fin.stage = "assemble" /\ Ready(fin.asm, parts, p)
      /\ fin' = [fin EXCEPT !.asm = PartitionOpened(@, parts, p)]
      /\ UNCHANGED <<planning, store, result>>
  BY DEF StartPartition
<1>2. /\ fin # Idle /\ DOMAIN fin = {"stage", "items", "seen", "asm"} /\ fin.items = baseline
      /\ SoundParts(parts) /\ fin.asm.ids \subseteq store
      /\ AssemblyInv(fin.asm, parts, {Leaf(i) : i \in Range(fin.items)})
  BY <1>1, Assembling
<1>3. /\ DOMAIN fin' = DOMAIN fin /\ fin'.stage = "assemble" /\ fin'.items = fin.items
      /\ fin'.asm = PartitionOpened(fin.asm, parts, p)
  BY <1>1, <1>2
<1>4. /\ AssemblyInv(fin'.asm, parts, {Leaf(i) : i \in Range(fin.items)})
      /\ fin'.asm.ids = fin.asm.ids
  BY <1>1, <1>2, <1>3, OpenedKeeps
<1> QED BY <1>1, <1>2, <1>3, <1>4, AssemblyKeeps

LEMMA EndPartitionKeeps ==
    ASSUME RunInv, EndPartition
    PROVE  RunInv'
<1>1. /\ fin.stage = "assemble" /\ BetweenLayers(fin.asm) /\ Cardinality(fin.asm.layer) = 1
      /\ fin' = [fin EXCEPT !.asm = PartitionClosed(@)]
      /\ UNCHANGED <<planning, store, result>>
  BY DEF EndPartition
<1>2. /\ fin # Idle /\ DOMAIN fin = {"stage", "items", "seen", "asm"} /\ fin.items = baseline
      /\ fin.asm.ids \subseteq store
      /\ AssemblyInv(fin.asm, parts, {Leaf(i) : i \in Range(fin.items)})
  BY <1>1, Assembling
<1>3. /\ DOMAIN fin' = DOMAIN fin /\ fin'.stage = "assemble" /\ fin'.items = fin.items
      /\ fin'.asm = PartitionClosed(fin.asm)
  BY <1>1, <1>2
<1>4. /\ AssemblyInv(fin'.asm, parts, {Leaf(i) : i \in Range(fin.items)})
      /\ fin'.asm.ids = fin.asm.ids
  BY <1>1, <1>2, <1>3, ClosedKeeps
<1> QED BY <1>1, <1>2, <1>3, <1>4, AssemblyKeeps

LEMMA GroupLayerKeeps ==
    ASSUME RunInv, GroupLayer
    PROVE  RunInv'
<1>1. /\ fin.stage = "assemble" /\ BetweenLayers(fin.asm) /\ LayerSplits(fin.asm)
      /\ fin' = [fin EXCEPT !.asm = LayerGrouped(@)]
      /\ UNCHANGED <<planning, store, result>>
  BY DEF GroupLayer
<1>2. /\ fin # Idle /\ DOMAIN fin = {"stage", "items", "seen", "asm"} /\ fin.items = baseline
      /\ fin.asm.ids \subseteq store
      /\ AssemblyInv(fin.asm, parts, {Leaf(i) : i \in Range(fin.items)})
  BY <1>1, Assembling
<1>3. /\ DOMAIN fin' = DOMAIN fin /\ fin'.stage = "assemble" /\ fin'.items = fin.items
      /\ fin'.asm = LayerGrouped(fin.asm)
  BY <1>1, <1>2
<1>4. /\ AssemblyInv(fin'.asm, parts, {Leaf(i) : i \in Range(fin.items)})
      /\ fin'.asm.ids = fin.asm.ids
  BY <1>1, <1>2, <1>3, GroupedKeeps
<1> QED BY <1>1, <1>2, <1>3, <1>4, AssemblyKeeps

LEMMA PutBranchKeeps ==
    ASSUME RunInv, PutBranch
    PROVE  RunInv'
<1>1. /\ fin.stage = "assemble" /\ fin.asm.groups # <<>>
      /\ store' = store \cup {NextBranch(fin.asm)}
      /\ fin' = [fin EXCEPT !.asm = BranchPut(@)]
      /\ UNCHANGED <<planning, result>>
  BY DEF PutBranch
<1>2. /\ fin # Idle /\ DOMAIN fin = {"stage", "items", "seen", "asm"} /\ fin.items = baseline
      /\ fin.asm.ids \subseteq store
      /\ AssemblyInv(fin.asm, parts, {Leaf(i) : i \in Range(fin.items)})
  BY <1>1, Assembling
<1>3. /\ DOMAIN fin' = DOMAIN fin /\ fin'.stage = "assemble" /\ fin'.items = fin.items
      /\ fin'.asm = BranchPut(fin.asm)
  BY <1>1, <1>2
<1>4. /\ AssemblyInv(fin'.asm, parts, {Leaf(i) : i \in Range(fin.items)})
      /\ fin'.asm.ids = fin.asm.ids \cup {NextBranch(fin.asm)}
  BY <1>1, <1>2, <1>3, BranchPutKeeps
<1> QED BY <1>1, <1>2, <1>3, <1>4, AssemblyKeeps

\* What finalize returns is all it has in hand.
LEMMA FinalizeOkKeeps ==
    ASSUME RunInv, FinalizeOk
    PROVE  RunInv'
<1> DEFINE L == {Leaf(i) : i \in Range(baseline)}
<1>1. /\ fin.stage = "assemble" /\ fin.asm.open = {} /\ 1 \in DOMAIN fin.asm.built
      /\ result' = [root |-> fin.asm.built[1], ids |-> fin.asm.ids]
      /\ fin' = Idle
      /\ UNCHANGED <<data, baseline, parts, store>>
  BY DEF FinalizeOk
<1>2. /\ fin.items = baseline /\ ValidTopology /\ SoundParts(parts) /\ fin.asm.ids \subseteq store
      /\ AssemblyInv(fin.asm, parts, L)
  BY <1>1, Assembling
<1>3. Visited(1, parts) = DOMAIN parts
  BY <1>2 DEF ValidTopology
<1>4. \A b \in L : b.level = 0
  BY DEF Leaf
<1>5. {b.item : b \in L} = Range(baseline)
  <2>1. \A i \in Range(baseline) : Leaf(i) \in L /\ Leaf(i).item = i
    BY DEF Leaf
  <2>2. \A b \in L : \E i \in Range(baseline) : b.item = i
    BY DEF Leaf
  <2> HIDE DEF L
  <2> QED BY <2>1, <2>2
<1>6. IsIndexOf(fin.asm.built[1], fin.asm.ids, {b.item : b \in L})
  <2> HIDE DEF L
  <2> QED BY <1>1, <1>2, <1>3, <1>4, AssemblyExact
<1>7. /\ IsIndexOf(result'.root, result'.ids, Range(baseline'))
      /\ result'.ids \subseteq store'
  BY <1>1, <1>2, <1>5, <1>6
<1>8. FinalizedExact'
  BY <1>7 DEF FinalizedExact
<1>9. FinInv' /\ data' \in DataSets
  BY <1>1 DEF FinInv, RunInv
<1> QED BY <1>8, <1>9 DEF RunInv

LEMMA FinalizeFailsKeeps ==
    ASSUME RunInv, FinalizeFails \/ FinalizeRefused
    PROVE  RunInv'
<1>1. /\ fin' = Idle /\ UNCHANGED <<planning, store, result>>
  BY DEF FinalizeFails, FinalizeRefused
<1> QED BY <1>1, PlanningStays DEF RunInv, FinInv, FinalizedExact

LEMMA InitHolds == Init => RunInv
BY DEF Init, RunInv, FinInv, FinalizedExact

LEMMA NextKeeps == RunInv /\ [Next]_vars => RunInv'
<1> SUFFICES ASSUME RunInv, [Next]_vars PROVE RunInv'
  OBVIOUS
<1>1. CASE Ingest
  BY <1>1, IngestKeeps
<1>2. CASE Finish \/ MarkPlanningComplete \/ Refused
  BY <1>2, FinishKeeps
<1>3. CASE Finalize
  <2>1. CASE StartFinalize
    BY <2>1, StartKeeps
  <2>2. CASE ReplayNext \/ \E item \in Items : ReplayWrong(item)
    BY <2>2, ReplayKeeps
  <2>3. CASE ReplayEnds
    BY <2>3, ReplayEndsKeeps
  <2>4. ASSUME NEW p \in DOMAIN parts, StartPartition(p) PROVE RunInv'
    BY <2>4, StartPartitionKeeps
  <2>5. CASE EndPartition
    BY <2>5, EndPartitionKeeps
  <2>6. CASE GroupLayer
    BY <2>6, GroupLayerKeeps
  <2>7. CASE PutBranch
    BY <2>7, PutBranchKeeps
  <2>8. CASE FinalizeOk
    BY <2>8, FinalizeOkKeeps
  <2>9. CASE FinalizeFails \/ FinalizeRefused
    BY <2>9, FinalizeFailsKeeps
  <2> QED BY <1>3, <2>1, <2>2, <2>3, <2>4, <2>5, <2>6, <2>7, <2>8, <2>9 DEF Finalize
<1>4. CASE UNCHANGED vars
  <2>1. UNCHANGED planning /\ UNCHANGED <<fin, store, result>>
    BY <1>4 DEF vars, planning
  <2>2. /\ data' = data /\ phase' = phase /\ baseline' = baseline /\ parts' = parts
        /\ ValidTopology' <=> ValidTopology
    BY <2>1, PlanningStays
  <2> QED BY <2>1, <2>2 DEF RunInv, FinInv, FinalizedExact, Replayed
<1> QED BY <1>1, <1>2, <1>3, <1>4 DEF Next

-----------------------------------------------------------------------------
(* The theorem.                                                              *)

\* finalize of StreamingIndexingRunV2: whatever batches, passes and attempts to
\* finalize failed before, in whatever order the partitions are assembled, the
\* result is an index of the baseline and of nothing else, block_ids are exactly
\* the blocks under the root, all are stored, and no branch is over- or underfull.
THEOREM FinalizedIndexExact == Spec => []FinalizedExact
<1>1. RunInv => FinalizedExact
  BY DEF RunInv
<1>2. Spec => []RunInv
  BY InitHolds, NextKeeps, PTL DEF Spec
<1> QED BY <1>1, <1>2, PTL

-----------------------------------------------------------------------------
(* The trainers that plan a layer: StreamingTrainers implements the contract  *)
(* of lexongraph-streaming-clustering, and its models are exact.              *)

CONSTANTS RankErrorDenominator, Settings, Batches
VARIABLES setting, trainer, ids, handed, last

Tr == INSTANCE StreamingTrainers

LEMMA TrFinite == \A S : (Tr!IsFiniteSet(S) <=> IsFiniteSet(S)) /\ Tr!Cardinality(S) = Cardinality(S)
BY DEF Tr!IsFiniteSet, IsFiniteSet, Tr!Cardinality, Cardinality

\* The clusters of a plan: one for every cell and as many extra ones as cells of
\* equal members can give, up to the number requested.
LEMMA ShortfallFalls ==
    ASSUME NEW n \in Nat, NEW count, NEW same, NEW x \in Nat, Len(count) = n, \A i \in 1 .. n : count[i] \in Nat /\ same[i] \in BOOLEAN
    PROVE  /\ Tr!Shortfall(count, same, x) \in [0 .. n -> Nat] /\ Tr!Shortfall(count, same, x)[0] = x
           /\ \A i \in 1 .. n : Tr!Shortfall(count, same, x)[i] <= Tr!Shortfall(count, same, x)[i - 1]
<1> DEFINE G == [i \in 1 .. n |-> [l \in Nat |-> IF same[i] /\ count[i] > 1 THEN IF l <= count[i] - 1 THEN 0 ELSE l - (count[i] - 1) ELSE l]]
           left == Tr!Shortfall(count, same, x)
           Rec(f) == f = [i \in 0 .. n |-> IF i = 0 THEN x
                              ELSE IF same[i] /\ count[i] > 1
                                   THEN IF f[i - 1] <= count[i] - 1 THEN 0 ELSE f[i - 1] - (count[i] - 1)
                                   ELSE f[i - 1]]
<1>1. G \in [1 .. n -> [Nat -> Nat]]
  OBVIOUS
<1>2. \E f : Rec(f)
  <2>1. PICK f : Runs(f, n, x, G, Nat)
    <3> HIDE DEF G
    <3> QED BY <1>1, RunExists
  <2>2. f = [i \in 0 .. n |-> f[i]] /\ f[0] = x BY <2>1 DEF Runs
  <2>3. ASSUME NEW i \in 1 .. n
        PROVE  f[i] = IF same[i] /\ count[i] > 1
                      THEN IF f[i - 1] <= count[i] - 1 THEN 0 ELSE f[i - 1] - (count[i] - 1)
                      ELSE f[i - 1]
    <3>1. f[i - 1] \in Nat /\ f[i] = G[i][f[i - 1]] BY <2>1 DEF Runs
    <3> QED BY <3>1
  <2>4. \A i \in 0 .. n : f[i] = IF i = 0 THEN x
                              ELSE IF same[i] /\ count[i] > 1
                                   THEN IF f[i - 1] <= count[i] - 1 THEN 0 ELSE f[i - 1] - (count[i] - 1)
                                   ELSE f[i - 1]
    <3>1. \A i \in 0 .. n : i = 0 \/ i \in 1 .. n OBVIOUS
    <3>2. \A i \in 1 .. n : i # 0 OBVIOUS
    <3> QED BY <2>2, <2>3, <3>1, <3>2
  <2>5. Rec(f) BY <2>2, <2>4
  <2> QED BY <2>5
<1>3. left = CHOOSE f : Rec(f) BY DEF Tr!Shortfall
<1>4. Rec(left)
  <2> HIDE DEF Rec, left
  <2> QED BY <1>2, <1>3
<1> HIDE DEF left
<1>5. /\ DOMAIN left = 0 .. n /\ left[0] = x /\ left = [i \in 0 .. n |-> left[i]]
      /\ \A i \in 1 .. n : left[i] = IF same[i] /\ count[i] > 1
                                   THEN IF left[i - 1] <= count[i] - 1 THEN 0 ELSE left[i - 1] - (count[i] - 1)
                                   ELSE left[i - 1]
  BY <1>4
<1> DEFINE S == {m \in Nat : m <= n => left[m] \in Nat}
<1>6. 0 \in S BY <1>5
<1>7. ASSUME NEW m \in S PROVE m + 1 \in S
  <2> SUFFICES ASSUME m + 1 <= n PROVE left[m + 1] \in Nat OBVIOUS
  <2>1. left[m] \in Nat /\ m + 1 \in 1 .. n /\ (m + 1) - 1 = m OBVIOUS
  <2>2. left[m + 1] = IF same[m + 1] /\ count[m + 1] > 1
                      THEN IF left[m] <= count[m + 1] - 1 THEN 0 ELSE left[m] - (count[m + 1] - 1)
                      ELSE left[m]
    BY <1>5, <2>1
  <2>3. count[m + 1] \in Nat BY <2>1
  <2> QED BY <2>1, <2>2, <2>3
<1>8. S = Nat
  <2> HIDE DEF S
  <2>1. S \in SUBSET Nat BY DEF S
  <2> QED BY <1>6, <1>7, <2>1, AllNumbers
<1>9. left \in [0 .. n -> Nat]
  <2>1. \A i \in 0 .. n : i \in Nat /\ i <= n OBVIOUS
  <2>2. \A i \in 0 .. n : left[i] \in Nat BY <1>8, <2>1
  <2> QED BY <1>5, <2>2
<1>10. ASSUME NEW i \in 1 .. n PROVE left[i] <= left[i - 1]
  <2>1. i - 1 \in 0 .. n /\ left[i - 1] \in Nat /\ count[i] \in Nat BY <1>9
  <2>2. left[i] = IF same[i] /\ count[i] > 1
                  THEN IF left[i - 1] <= count[i] - 1 THEN 0 ELSE left[i - 1] - (count[i] - 1)
                  ELSE left[i - 1]
    BY <1>5
  <2> QED BY <2>1, <2>2
<1> QED BY <1>5, <1>9, <1>10 DEF left

\* The clusters that the cells before one take: what is missing no more.
LEMMA OffsetTelescopes ==
    ASSUME NEW n \in Nat, NEW plan, NEW left \in [0 .. n -> Nat], Len(plan) = n,
           \A i \in 1 .. n : plan[i].extra = left[i - 1] - left[i] /\ left[i] <= left[i - 1]
    PROVE  \A i \in 0 .. n : Tr!Offset(plan, i) = i + left[0] - left[i]
<1> DEFINE Rec(f) == f = [j \in 0 .. n |-> IF j = 0 THEN 0 ELSE f[j - 1] + 1 + plan[j].extra]
           taken == CHOOSE f : Rec(f)
           h == [j \in 0 .. n |-> j + left[0] - left[j]]
<1>1. Rec(h)
  <2>1. ASSUME NEW j \in 1 .. n PROVE h[j] = h[j - 1] + 1 + plan[j].extra
    <3>1. j - 1 \in 0 .. n /\ left[j] \in Nat /\ left[j - 1] \in Nat /\ left[0] \in Nat OBVIOUS
    <3>2. h[j] = j + left[0] - left[j] /\ h[j - 1] = (j - 1) + left[0] - left[j - 1] BY <3>1
    <3>3. plan[j].extra = left[j - 1] - left[j] OBVIOUS
    <3> HIDE DEF h
    <3> QED BY <3>1, <3>2, <3>3
  <2>2. h[0] = 0 BY left[0] \in Nat
  <2>3. \A j \in 0 .. n : h[j] = IF j = 0 THEN 0 ELSE h[j - 1] + 1 + plan[j].extra
    <3>1. \A j \in 0 .. n : j = 0 \/ j \in 1 .. n OBVIOUS
    <3> HIDE DEF h
    <3> QED BY <2>1, <2>2, <3>1
  <2>4. h = [j \in 0 .. n |-> h[j]] OBVIOUS
  <2> HIDE DEF h
  <2> QED BY <2>3, <2>4
<1>2. Rec(taken)
  <2> HIDE DEF Rec
  <2> QED BY <1>1
<1> DEFINE S == {m \in Nat : m <= n => taken[m] = h[m]}
<1> HIDE DEF taken
<1>3. DOMAIN taken = 0 .. n /\ taken[0] = 0 /\ \A j \in 1 .. n : taken[j] = taken[j - 1] + 1 + plan[j].extra
  <2>1. PICK f : f = taken OBVIOUS
  <2>2. f = [j \in 0 .. n |-> IF j = 0 THEN 0 ELSE f[j - 1] + 1 + plan[j].extra] BY <1>2, <2>1
  <2>3. DOMAIN f = 0 .. n /\ f[0] = 0 /\ \A j \in 1 .. n : f[j] = f[j - 1] + 1 + plan[j].extra BY <2>2
  <2> QED BY <2>1, <2>3
<1>4. DOMAIN h = 0 .. n /\ h[0] = 0 /\ \A j \in 1 .. n : h[j] = h[j - 1] + 1 + plan[j].extra
  <2> HIDE DEF h
  <2> QED BY <1>1
<1>5. S = Nat
  <2> HIDE DEF h
  <2>1. 0 \in S BY <1>3, <1>4
  <2>2. ASSUME NEW m \in S PROVE m + 1 \in S
    <3> SUFFICES ASSUME m + 1 <= n PROVE taken[m + 1] = h[m + 1] OBVIOUS
    <3>1. m + 1 \in 1 .. n /\ (m + 1) - 1 = m /\ taken[m] = h[m] OBVIOUS
    <3> QED BY <3>1, <1>3, <1>4
  <2> HIDE DEF S
  <2>3. S \in SUBSET Nat BY DEF S
  <2> QED BY <2>1, <2>2, <2>3, AllNumbers
<1>6. \A i \in 0 .. n : Tr!Offset(plan, i) = taken[i] BY DEF Tr!Offset, taken
<1>7. \A i \in 0 .. n : taken[i] = h[i]
  <2> HIDE DEF h
  <2> QED BY <1>5
<1> QED BY <1>6, <1>7

LEMMA PlanRealized ==
    ASSUME NEW n \in Nat, NEW k \in Nat, n <= k, NEW count \in [1 .. n -> Nat], NEW same \in [1 .. n -> BOOLEAN]
    PROVE  Tr!Realized(Tr!ReadyPlan(count, same, k)) \in n .. k
<1> DEFINE missing == IF k > Len(count) THEN k - Len(count) ELSE 0
           left == Tr!Shortfall(count, same, missing)
           plan == Tr!ReadyPlan(count, same, k)
<1>1. Len(count) = n /\ DOMAIN count = 1 .. n
  OBVIOUS
<1>2. missing = k - n /\ missing \in Nat BY <1>1
<1>3. /\ left \in [0 .. n -> Nat] /\ left[0] = missing
      /\ \A i \in 1 .. n : left[i] <= left[i - 1]
  <2> HIDE DEF missing
  <2> QED BY <1>1, <1>2, ShortfallFalls
<1>4. plan = [i \in 1 .. n |-> [count |-> count[i], extra |-> left[i - 1] - left[i]]]
  BY <1>1 DEF Tr!ReadyPlan
<1> HIDE DEF left, missing, plan
<1>5. Len(plan) = n /\ \A i \in 1 .. n : plan[i].extra = left[i - 1] - left[i]
  BY <1>4
<1>6. \A i \in 0 .. n : Tr!Offset(plan, i) = i + left[0] - left[i]
  BY <1>3, <1>5, OffsetTelescopes
<1>7. Tr!Realized(plan) = n + left[0] - left[n] BY <1>5, <1>6 DEF Tr!Realized
<1> DEFINE S == {m \in Nat : m <= n => left[m] <= left[0]}
<1>8. 0 \in S BY <1>3
<1>9. ASSUME NEW m \in S PROVE m + 1 \in S
  <2> SUFFICES ASSUME m + 1 <= n PROVE left[m + 1] <= left[0] OBVIOUS
  <2>1. m + 1 \in 1 .. n /\ (m + 1) - 1 = m /\ left[m] <= left[0] /\ left[m] \in Nat /\ left[m + 1] \in Nat /\ left[0] \in Nat BY <1>3
  <2>2. left[m + 1] <= left[m] BY <2>1, <1>3
  <2> QED BY <2>1, <2>2
<1>10. S = Nat
  <2> HIDE DEF S
  <2>1. S \in SUBSET Nat BY DEF S
  <2> QED BY <1>8, <1>9, <2>1, AllNumbers
<1>11. left[n] <= left[0] /\ left[n] \in Nat
  <2>1. n \in S BY <1>10
  <2> QED BY <1>3, <2>1
<1> QED BY <1>2, <1>3, <1>7, <1>11 DEF plan

-----------------------------------------------------------------------------
(* Chunks, balanced assignments and the repair of empty clusters.             *)

LEMMA MinIsLeast ==
    ASSUME NEW S \in SUBSET Nat, S # {}
    PROVE  Tr!Min(S) \in S /\ \A y \in S : Tr!Min(S) <= y
<1>1. \E x \in S : \A y \in S : x =< y BY LeastNumber
<1> QED BY <1>1 DEF Tr!Min

LEMMA MinOfTwo ==
    ASSUME NEW a \in Nat, NEW b \in Nat
    PROVE  Tr!Min({a, b}) = IF a <= b THEN a ELSE b
<1>1. {a, b} \in SUBSET Nat /\ {a, b} # {} OBVIOUS
<1>2. Tr!Min({a, b}) \in {a, b} /\ \A y \in {a, b} : Tr!Min({a, b}) <= y BY <1>1, MinIsLeast
<1>3. PICK m : m = Tr!Min({a, b}) OBVIOUS
<1> QED BY <1>2, <1>3

\* The boundaries of the chunks, with the start and the end.
Target(n, k, c) == IF c = 0 THEN 0 ELSE IF c = k THEN n ELSE Tr!ChunkTargets(n, k)[c]

\* Two boundaries are as far apart as the chunk between them is large.
LEMMA TargetsStep ==
    ASSUME NEW k \in Nat, k >= 1, NEW n \in Nat, n >= k, NEW c \in 1 .. k
    PROVE  /\ n \div k \in Nat /\ n \div k >= 1 /\ n % k \in 0 .. k - 1
           /\ Target(n, k, c) \in Nat /\ Target(n, k, c - 1) \in Nat
           /\ Target(n, k, c) = Target(n, k, c - 1) + n \div k + IF c <= n % k THEN 1 ELSE 0
<1>1. PICK q, r : q = n \div k /\ r = n % k OBVIOUS
<1>2. q \in Int /\ r \in 0 .. k - 1 /\ n = k * q + r BY <1>1
<1>3. q >= 1
  <2> SUFFICES ASSUME q <= 0 PROVE FALSE BY <1>2
  <2>1. PICK d \in Nat : q = 0 - d BY <1>2
  <2>2. k * q = 0 - k * d /\ k * d \in Nat BY <2>1
  <2>3. n <= r BY <1>2, <2>2
  <2> QED BY <1>2, <2>3
<1>4. q \in Nat BY <1>2, <1>3
<1>5. ASSUME NEW d \in 1 .. k - 1 PROVE Tr!ChunkTargets(n, k)[d] = d * q + IF d <= r THEN d ELSE r
  <2>1. Tr!ChunkTargets(n, k)[d] = d * (n \div k) + Tr!Min({d, n % k}) BY DEF Tr!ChunkTargets
  <2>2. Tr!Min({d, r}) = IF d <= r THEN d ELSE r BY <1>2, MinOfTwo
  <2> QED BY <1>1, <2>1, <2>2
<1> DEFINE G(d) == d * q + IF d <= r THEN d ELSE r
<1>6. \A d \in 0 .. k : Target(n, k, d) = G(d) /\ G(d) \in Nat
  <2>1. G(0) = 0 BY <1>2, <1>4
  <2>2. G(k) = n BY <1>2
  <2>3. ASSUME NEW d \in 0 .. k PROVE G(d) \in Nat
    <3>1. d * q \in Nat BY <1>4
    <3> QED BY <3>1, <1>2
  <2>4. \A d \in 0 .. k : d = 0 \/ d = k \/ d \in 1 .. k - 1 OBVIOUS
  <2>5. \A d \in 1 .. k - 1 : Tr!ChunkTargets(n, k)[d] = G(d) BY <1>5
  <2>6. ASSUME NEW d \in 0 .. k PROVE Target(n, k, d) = G(d)
    <3> HIDE DEF G
    <3> QED BY <2>1, <2>2, <2>4, <2>5 DEF Target
  <2> QED BY <2>3, <2>6
<1>7. G(c) = G(c - 1) + q + IF c <= r THEN 1 ELSE 0
  <2>1. PICK d \in Nat : c = d + 1 /\ c - 1 = d
    <3>1. c - 1 \in Nat /\ c = (c - 1) + 1 OBVIOUS
    <3> QED BY <3>1
  <2>2. (d + 1) * q = d * q + q BY <1>4
  <2>3. d * q \in Nat BY <1>4
  <2>4. PICK x : x = d * q OBVIOUS
  <2>5. G(c) = (x + q) + IF d + 1 <= r THEN d + 1 ELSE r BY <2>1, <2>2, <2>4
  <2>6. G(c - 1) = x + IF d <= r THEN d ELSE r BY <2>1, <2>4
  <2> HIDE DEF G
  <2> QED BY <1>2, <1>4, <2>1, <2>3, <2>4, <2>5, <2>6
<1>8. c \in 0 .. k /\ c - 1 \in 0 .. k OBVIOUS
<1> HIDE DEF G
<1> QED BY <1>1, <1>2, <1>3, <1>4, <1>6, <1>7, <1>8

\* The items up to a key.
AtMost(items, e) == {i \in DOMAIN items : items[i] <= e}
UpTo(items, e) == Tr!Cardinality(AtMost(items, e))

\* Keys that cut the items where the chunks end.
Cuts(items, k, u) ==
    /\ u \in Seq(Int) /\ Len(u) = k - 1
    /\ \A c \in 1 .. k - 1 : UpTo(items, u[c]) = Tr!ChunkTargets(Len(items), k)[c]

LEMMA BelowGrows ==
    ASSUME NEW items \in Seq(Nat), NEW e \in Int, NEW d \in Int, e <= d
    PROVE  /\ Tr!IsFiniteSet(AtMost(items, d)) /\ AtMost(items, e) \subseteq AtMost(items, d)
           /\ UpTo(items, e) \in Nat /\ UpTo(items, d) \in Nat
           /\ UpTo(items, e) <= UpTo(items, d)
           /\ Tr!Cardinality(AtMost(items, d) \ AtMost(items, e)) = UpTo(items, d) - UpTo(items, e)
<1>1. Tr!IsFiniteSet(DOMAIN items)
  <2>1. DOMAIN items = 1 .. Len(items) /\ Len(items) \in Nat OBVIOUS
  <2> QED BY <2>1, FS_Interval, TrFinite
<1>2. AtMost(items, d) \in SUBSET DOMAIN items BY DEF AtMost
<1>3. Tr!IsFiniteSet(AtMost(items, d)) BY <1>1, <1>2, FS_Subset, TrFinite
<1>4. AtMost(items, e) \subseteq AtMost(items, d)
  <2>1. \A i \in DOMAIN items : items[i] \in Int OBVIOUS
  <2> QED BY <2>1 DEF AtMost
<1>5. PICK S, W : S = AtMost(items, d) /\ W = AtMost(items, e) OBVIOUS
<1>6. W \in SUBSET S /\ S \cap W = W /\ Tr!IsFiniteSet(S) BY <1>3, <1>4, <1>5
<1>7. Tr!Cardinality(S) \in Nat /\ Tr!Cardinality(W) \in Nat /\ Tr!Cardinality(W) <= Tr!Cardinality(S)
      /\ Tr!Cardinality(S \ W) = Tr!Cardinality(S) - Tr!Cardinality(W)
  <2>1. IsFiniteSet(S) BY <1>6, TrFinite
  <2>2. IsFiniteSet(W) /\ Cardinality(W) <= Cardinality(S) BY <1>6, <2>1, FS_Subset
  <2>3. Cardinality(S) \in Nat /\ Cardinality(W) \in Nat BY <2>1, <2>2, FS_CardinalityType
  <2>4. Cardinality(S \ W) = Cardinality(S) - Cardinality(S \cap W) BY <2>1, <2>2, FS_Difference
  <2>5. Cardinality(S \ W) = Cardinality(S) - Cardinality(W) BY <1>6, <2>4
  <2>6. \A X : Tr!Cardinality(X) = Cardinality(X) BY TrFinite
  <2> QED BY <2>2, <2>3, <2>5, <2>6, Zenon
<1> QED BY <1>3, <1>4, <1>5, <1>7 DEF UpTo

\* Such keys grow.
LEMMA CutsGrow ==
    ASSUME NEW items \in Seq(Nat), NEW k \in Nat, k >= 1, Len(items) >= k, NEW u, Cuts(items, k, u),
           NEW c \in 1 .. k - 1, NEW d \in 1 .. k - 1, c < d
    PROVE  u[c] < u[d]
<1> DEFINE n == Len(items)
<1>1. n \in Nat /\ u \in Seq(Int) /\ Len(u) = k - 1 BY DEF Cuts
<1>2. u[c] \in Int /\ u[d] \in Int BY <1>1
<1> DEFINE S == {m \in Nat : c + m + 1 <= k - 1 => Target(n, k, c) < Target(n, k, c + m + 1)}
<1>3. ASSUME NEW j \in 1 .. k - 2 PROVE Target(n, k, j) < Target(n, k, j + 1) /\ Target(n, k, j) \in Nat /\ Target(n, k, j + 1) \in Nat
  <2> HIDE DEF n
  <2>1. j + 1 \in 1 .. k /\ (j + 1) - 1 = j /\ Len(items) = n BY DEF n
  <2>2. /\ n \div k \in Nat /\ n \div k >= 1 /\ Target(n, k, j + 1) \in Nat /\ Target(n, k, j) \in Nat
        /\ Target(n, k, j + 1) = Target(n, k, j) + n \div k + IF j + 1 <= n % k THEN 1 ELSE 0
    <3>1. n >= k BY <2>1
    <3>2. PICK b : b = j + 1 OBVIOUS
    <3>3. b \in 1 .. k /\ b - 1 = j BY <2>1, <3>2
    <3> QED BY <1>1, <3>1, <3>2, <3>3, TargetsStep
  <2>3. PICK x, y, q : x = Target(n, k, j) /\ y = Target(n, k, j + 1) /\ q = n \div k OBVIOUS
  <2>4. x \in Nat /\ y \in Nat /\ q \in Nat /\ q >= 1 /\ (y = x + q + 1 \/ y = x + q + 0) BY <2>2, <2>3
  <2>5. x < y BY <2>4
  <2> QED BY <2>2, <2>3, <2>5
<1>4. S = Nat
  <2> HIDE DEF n
  <2>1. 0 \in S
    <3> SUFFICES ASSUME c + 0 + 1 <= k - 1 PROVE Target(n, k, c) < Target(n, k, c + 0 + 1) OBVIOUS
    <3>1. c \in 1 .. k - 2 /\ c + 0 + 1 = c + 1 OBVIOUS
    <3> QED BY <1>3, <3>1
  <2>2. ASSUME NEW m \in S PROVE m + 1 \in S
    <3> SUFFICES ASSUME c + (m + 1) + 1 <= k - 1 PROVE Target(n, k, c) < Target(n, k, c + (m + 1) + 1) OBVIOUS
    <3>1. m \in Nat /\ c + m + 1 \in 1 .. k - 2 /\ c \in 1 .. k - 2 /\ (c + m + 1) + 1 = c + (m + 1) + 1 OBVIOUS
    <3>2. Target(n, k, c) < Target(n, k, c + m + 1) BY <3>1
    <3>3. PICK j : j = c + m + 1 OBVIOUS
    <3>4. Target(n, k, j) < Target(n, k, j + 1) /\ Target(n, k, c) \in Nat /\ Target(n, k, j) \in Nat /\ Target(n, k, j + 1) \in Nat BY <1>3, <3>1, <3>3
    <3>5. j + 1 = c + (m + 1) + 1 BY <3>1, <3>3
    <3>6. Target(n, k, c) < Target(n, k, j) BY <3>2, <3>3
    <3>7. PICK x, y, z : x = Target(n, k, c) /\ y = Target(n, k, j) /\ z = Target(n, k, j + 1) OBVIOUS
    <3>8. x < z BY <3>4, <3>6, <3>7
    <3> QED BY <3>5, <3>7, <3>8
  <2> HIDE DEF S
  <2>3. S \in SUBSET Nat BY DEF S
  <2> QED BY <2>1, <2>2, <2>3, AllNumbers
<1>5. Target(n, k, c) < Target(n, k, d)
  <2>1. PICK m \in Nat : d = c + m + 1
    <3>1. d - c - 1 \in Nat /\ d = c + (d - c - 1) + 1 OBVIOUS
    <3> QED BY <3>1
  <2>2. m \in S BY <1>4
  <2> QED BY <2>1, <2>2
<1>6. Target(n, k, c) = UpTo(items, u[c]) /\ Target(n, k, d) = UpTo(items, u[d]) BY DEF Target, Cuts
<1> SUFFICES ASSUME u[d] <= u[c] PROVE FALSE BY <1>2
<1>7. UpTo(items, u[d]) <= UpTo(items, u[c]) /\ UpTo(items, u[d]) \in Nat /\ UpTo(items, u[c]) \in Nat BY <1>2, BelowGrows
<1> HIDE DEF n
<1> QED BY <1>5, <1>6, <1>7

\* assign finds the chunk between two keys.
Between(u, k, e, c) == (c = 1 \/ e > u[c - 1]) /\ (c = k \/ e <= u[c])

LEMMA ChunkFound ==
    ASSUME NEW k \in Nat, k >= 1, NEW u \in Seq(Int), Len(u) = k - 1,
           \A c, d \in 1 .. k - 1 : c < d => u[c] < u[d],
           NEW e \in Int, NEW c \in 1 .. k
    PROVE  Tr!ChunkOf(Tr!ChunkModel(u), e) = c <=> Between(u, k, e, c)
<1>1. DOMAIN u = 1 .. k - 1 /\ \A j \in 1 .. k - 1 : u[j] \in Int OBVIOUS
<1>2. ASSUME NEW b \in 1 .. k, Between(u, k, e, b) PROVE Tr!ChunkOf(Tr!ChunkModel(u), e) = b
  <2>1. {j \in DOMAIN u : e > u[j]} = 1 .. b - 1
    <3>1. ASSUME NEW j \in 1 .. k - 1, e > u[j] PROVE j \in 1 .. b - 1
      <4> SUFFICES ASSUME j >= b PROVE FALSE OBVIOUS
      <4>1. b # k /\ b \in 1 .. k - 1 OBVIOUS
      <4>2. e <= u[b] BY <1>2, <4>1 DEF Between
      <4>3. u[b] <= u[j] BY <1>1, <4>1
      <4> QED BY <1>1, <3>1, <4>1, <4>2, <4>3
    <3>2. ASSUME NEW j \in 1 .. b - 1 PROVE j \in 1 .. k - 1 /\ e > u[j]
      <4>1. j \in 1 .. k - 1 /\ b - 1 \in 1 .. k - 1 /\ b # 1 OBVIOUS
      <4>2. e > u[b - 1] BY <1>2, <4>1 DEF Between
      <4>3. u[j] <= u[b - 1] BY <1>1, <4>1
      <4> QED BY <1>1, <4>1, <4>2, <4>3
    <3> QED BY <1>1, <3>1, <3>2
  <2>2. Tr!Cardinality(1 .. b - 1) = b - 1
    <3>1. 1 \in Int /\ b - 1 \in Int OBVIOUS
    <3>2. Tr!Cardinality(1 .. b - 1) = IF 1 > b - 1 THEN 0 ELSE (b - 1) - 1 + 1 BY <3>1, FS_Interval, TrFinite
    <3> QED BY <3>2
  <2>3. Tr!ChunkOf(Tr!ChunkModel(u), e) = 1 + Tr!Cardinality({j \in DOMAIN u : e > u[j]}) BY DEF Tr!ChunkOf, Tr!ChunkModel
  <2>4. Tr!ChunkOf(Tr!ChunkModel(u), e) = 1 + (b - 1) BY <2>1, <2>2, <2>3
  <2> QED BY <2>4
<1>3. \E b \in 1 .. k : Between(u, k, e, b)
  <2> DEFINE S == {b \in 1 .. k : b = k \/ e <= u[b]}
  <2>1. S \in SUBSET Nat /\ S # {}
    <3>1. k \in S OBVIOUS
    <3>2. S \in SUBSET Nat OBVIOUS
    <3> HIDE DEF S
    <3> QED BY <3>1, <3>2
  <2>2. PICK b \in S : \A y \in S : b <= y
    <3> HIDE DEF S
    <3> QED BY <2>1, LeastNumber
  <2>3. b = 1 \/ e > u[b - 1]
    <3> SUFFICES ASSUME b # 1 PROVE e > u[b - 1] OBVIOUS
    <3>1. b - 1 \in 1 .. k - 1 /\ b - 1 \notin S BY <2>2
    <3>2. ~(e <= u[b - 1]) BY <3>1
    <3> QED BY <1>1, <3>1, <3>2
  <2> QED BY <2>3 DEF Between
<1>4. PICK b \in 1 .. k : Between(u, k, e, b) BY <1>3
<1> QED BY <1>2, <1>4

\* Keys that cut where the chunks end cut the items into balanced chunks.
LEMMA CutsBalance ==
    ASSUME NEW items \in Seq(Nat), NEW k \in Nat, k >= 1, Len(items) >= k, NEW u, Cuts(items, k, u)
    PROVE  Tr!ChunksBalanced(Tr!ChunkModel(u), items, k)
<1> DEFINE n == Len(items)
           In(c) == {i \in DOMAIN items : Tr!ChunkOf(Tr!ChunkModel(u), items[i]) = c}
<1>1. n \in Nat /\ u \in Seq(Int) /\ Len(u) = k - 1 /\ \A j \in 1 .. k - 1 : u[j] \in Int BY DEF Cuts
<1>2. \A c, d \in 1 .. k - 1 : c < d => u[c] < u[d] BY CutsGrow
<1>3. \A i \in DOMAIN items : items[i] \in Int OBVIOUS
<1>4. SUFFICES ASSUME NEW c \in 1 .. k PROVE Tr!Cardinality(In(c)) = n \div k + IF c <= n % k THEN 1 ELSE 0
  BY DEF Tr!ChunksBalanced
<1>5. In(c) = {i \in DOMAIN items : Between(u, k, items[i], c)} BY <1>1, <1>2, <1>3, ChunkFound
<1>6. /\ Target(n, k, c) \in Nat /\ Target(n, k, c - 1) \in Nat /\ n \div k \in Nat
      /\ Target(n, k, c) = Target(n, k, c - 1) + n \div k + IF c <= n % k THEN 1 ELSE 0
  BY <1>1, TargetsStep
<1>7. Tr!Cardinality(In(c)) = Target(n, k, c) - Target(n, k, c - 1)
  <2> DEFINE lo == IF c = 1 THEN {} ELSE AtMost(items, u[c - 1])
             hi == IF c = k THEN DOMAIN items ELSE AtMost(items, u[c])
  <2>1. In(c) = hi \ lo
    <3>1. c # 1 => c - 1 \in 1 .. k - 1 OBVIOUS
    <3>2. c # k => c \in 1 .. k - 1 OBVIOUS
    <3> HIDE DEF In
    <3>3. ASSUME NEW i \in DOMAIN items PROVE Between(u, k, items[i], c) <=> i \in hi /\ i \notin lo
      <4>1. items[i] \in Int BY <1>3
      <4>2. c # 1 => u[c - 1] \in Int BY <1>1, <3>1
      <4> QED BY <4>1, <4>2 DEF Between, AtMost
    <3>4. hi \subseteq DOMAIN items BY DEF AtMost
    <3> HIDE DEF hi, lo
    <3> QED BY <1>5, <3>3, <3>4
  <2>2. Tr!IsFiniteSet(hi) /\ Tr!Cardinality(hi) = Target(n, k, c)
    <3>1. CASE c = k
      <4>1. DOMAIN items = 1 .. n OBVIOUS
      <4>2. Tr!IsFiniteSet(1 .. n) /\ Tr!Cardinality(1 .. n) = IF 1 > n THEN 0 ELSE n - 1 + 1
        <5>1. PICK x : x = n OBVIOUS
        <5>2. IsFiniteSet(1 .. x) /\ Cardinality(1 .. x) = IF 1 > x THEN 0 ELSE x - 1 + 1 BY <1>1, <5>1, FS_Interval
        <5>3. Tr!IsFiniteSet(1 .. x) /\ Tr!Cardinality(1 .. x) = IF 1 > x THEN 0 ELSE x - 1 + 1 BY <5>2, TrFinite, Zenon
        <5> HIDE DEF n
        <5> QED BY <5>1, <5>3
      <4>3. Target(n, k, c) = n BY <3>1 DEF Target
      <4> QED BY <1>1, <3>1, <4>1, <4>2, <4>3
    <3>2. CASE c # k
      <4>1. c \in 1 .. k - 1 /\ c # 0 BY <3>2
      <4>2. Target(n, k, c) = UpTo(items, u[c]) BY <3>2, <4>1 DEF Target, Cuts
      <4>3. Tr!IsFiniteSet(AtMost(items, u[c]))
        <5>1. PICK e \in Int : e = u[c] BY <1>1, <4>1
        <5>2. e <= e OBVIOUS
        <5> QED BY <5>1, <5>2, BelowGrows
      <4> QED BY <3>2, <4>2, <4>3 DEF UpTo
    <3> QED BY <3>1, <3>2
  <2>3. lo \subseteq hi /\ Tr!Cardinality(lo) = Target(n, k, c - 1)
    <3>1. CASE c = 1
      <4>1. Target(n, k, c - 1) = 0 BY <3>1 DEF Target
      <4> QED BY <3>1, <4>1, FS_EmptySet, TrFinite
    <3>2. CASE c # 1
      <4>1. c - 1 \in 1 .. k - 1 /\ c - 1 # 0 /\ c - 1 # k BY <3>2
      <4>2. Target(n, k, c - 1) = UpTo(items, u[c - 1]) BY <4>1 DEF Target, Cuts
      <4>3. lo \subseteq hi
        <5>1. CASE c = k BY <5>1, <3>2 DEF AtMost
        <5>2. CASE c # k
          <6>1. c \in 1 .. k - 1 BY <5>2
          <6>2. u[c - 1] < u[c] BY <1>2, <4>1, <6>1
          <6>3. u[c - 1] \in Int /\ u[c] \in Int /\ u[c - 1] <= u[c] BY <1>1, <4>1, <6>1, <6>2
          <6>4. AtMost(items, u[c - 1]) \subseteq AtMost(items, u[c]) BY <6>3, BelowGrows
          <6> QED BY <3>2, <5>2, <6>4
        <5> QED BY <5>1, <5>2
      <4> QED BY <3>2, <4>2, <4>3 DEF UpTo
    <3> QED BY <3>1, <3>2
  <2> HIDE DEF lo, hi, In
  <2>4. hi \cap lo = lo BY <2>3
  <2>5. Tr!Cardinality(hi \ lo) = Tr!Cardinality(hi) - Tr!Cardinality(hi \cap lo) BY <2>2, FS_Difference, TrFinite
  <2> QED BY <2>1, <2>2, <2>3, <2>4, <2>5
<1> HIDE DEF In, n
<1>8. PICK x, y, q, r : x = Target(n, k, c) /\ y = Target(n, k, c - 1) /\ q = n \div k /\ r = (IF c <= n % k THEN 1 ELSE 0) OBVIOUS
<1>9. x = y + q + r /\ x \in Nat /\ y \in Nat /\ q \in Nat /\ r \in Nat BY <1>6, <1>8
<1>10. Tr!Cardinality(In(c)) = q + r
  <2>1. PICK z : z = Tr!Cardinality(In(c)) OBVIOUS
  <2>2. z = x - y BY <1>7, <1>8, <2>1
  <2>3. z = q + r BY <1>9, <2>2
  <2> QED BY <2>1, <2>3
<1> QED BY <1>8, <1>10

-----------------------------------------------------------------------------
\* DCBC: items dealt out in turn keep every size bound that can be kept.
Dealt(n, k, q, r, a) ==
    /\ q \in Nat /\ r \in 0 .. k - 1 /\ n = q * k + r /\ a \in [1 .. n -> 1 .. k]
    /\ \A c \in 1 .. k : Tr!IsFiniteSet(Tr!MembersOf(a, c)) /\ Tr!Cardinality(Tr!MembersOf(a, c)) = IF c <= r THEN q + 1 ELSE q

LEMMA DealOne ==
    ASSUME NEW k \in Nat, k >= 1, NEW n \in Nat, NEW q, NEW r, NEW a, Dealt(n, k, q, r, a)
    PROVE  \E s, t, b : Dealt(n + 1, k, s, t, b)
<1>1. q \in Nat /\ r \in 0 .. k - 1 /\ n = q * k + r /\ a \in [1 .. n -> 1 .. k] BY DEF Dealt
<1> DEFINE b == [i \in 1 .. n + 1 |-> IF i = n + 1 THEN r + 1 ELSE a[i]]
<1>2. b \in [1 .. n + 1 -> 1 .. k]
  <2>1. \A i \in 1 .. n + 1 : i = n + 1 \/ i \in 1 .. n OBVIOUS
  <2>2. r + 1 \in 1 .. k BY <1>1
  <2>3. \A i \in 1 .. n + 1 : (IF i = n + 1 THEN r + 1 ELSE a[i]) \in 1 .. k BY <1>1, <2>1, <2>2
  <2> QED BY <2>3
<1>3. \A i \in 1 .. n + 1 : b[i] = IF i = n + 1 THEN r + 1 ELSE a[i] OBVIOUS
<1>4. DOMAIN b = 1 .. n + 1 /\ DOMAIN a = 1 .. n BY <1>1
<1> HIDE DEF b
<1>5. ASSUME NEW c \in 1 .. k, c # r + 1 PROVE Tr!MembersOf(b, c) = Tr!MembersOf(a, c)
  <2>1. \A i \in 1 .. n + 1 : b[i] = c => i \in 1 .. n /\ a[i] = c BY <1>3, <1>5
  <2>2. \A i \in 1 .. n : i \in 1 .. n + 1 /\ b[i] = a[i] BY <1>3
  <2> QED BY <1>4, <2>1, <2>2 DEF Tr!MembersOf
<1>6. Tr!MembersOf(b, r + 1) = Tr!MembersOf(a, r + 1) \cup {n + 1}
  <2>1. \A i \in 1 .. n + 1 : b[i] = r + 1 <=> (i = n + 1 \/ (i \in 1 .. n /\ a[i] = r + 1)) BY <1>3
  <2>2. \A i \in 1 .. n : i \in 1 .. n + 1 OBVIOUS
  <2>3. n + 1 \in 1 .. n + 1 OBVIOUS
  <2> QED BY <1>4, <2>1, <2>2, <2>3 DEF Tr!MembersOf
<1>7. n + 1 \notin Tr!MembersOf(a, r + 1) BY <1>4 DEF Tr!MembersOf
<1>8. ASSUME NEW c \in 1 .. k
      PROVE  /\ Tr!IsFiniteSet(Tr!MembersOf(b, c))
             /\ Tr!Cardinality(Tr!MembersOf(b, c)) = IF c <= r + 1 THEN q + 1 ELSE q
  <2>1. Tr!IsFiniteSet(Tr!MembersOf(a, c)) /\ Tr!Cardinality(Tr!MembersOf(a, c)) = IF c <= r THEN q + 1 ELSE q BY DEF Dealt
  <2>2. CASE c = r + 1
    <3>1. PICK W : W = Tr!MembersOf(a, c) OBVIOUS
    <3>2. Tr!IsFiniteSet(W \cup {n + 1}) /\ Tr!Cardinality(W \cup {n + 1}) = Tr!Cardinality(W) + 1
      BY <1>7, <2>1, <2>2, <3>1, FS_AddElement, TrFinite
    <3>3. Tr!Cardinality(W) = q BY <1>1, <2>1, <2>2, <3>1
    <3>4. Tr!MembersOf(b, c) = W \cup {n + 1} BY <1>6, <2>2, <3>1
    <3>5. c <= r + 1 BY <2>2
    <3> QED BY <3>2, <3>3, <3>4, <3>5
  <2>3. CASE c # r + 1
    <3>1. c <= r + 1 <=> c <= r BY <1>1, <2>3
    <3> QED BY <1>5, <2>1, <2>3, <3>1
  <2> QED BY <2>2, <2>3
<1>9. CASE r + 1 < k
  <2>1. r + 1 \in 0 .. k - 1 /\ n + 1 = q * k + (r + 1) BY <1>1, <1>9
  <2>2. Dealt(n + 1, k, q, r + 1, b) BY <1>1, <1>2, <1>8, <2>1 DEF Dealt
  <2> QED BY <2>2
<1>10. CASE r + 1 = k
  <2>1. n + 1 = (q + 1) * k + 0 BY <1>1, <1>10
  <2>2. ASSUME NEW c \in 1 .. k PROVE Tr!IsFiniteSet(Tr!MembersOf(b, c)) /\ Tr!Cardinality(Tr!MembersOf(b, c)) = IF c <= 0 THEN (q + 1) + 1 ELSE q + 1
    <3>1. c <= r + 1 /\ ~(c <= 0) BY <1>10
    <3> QED BY <1>8, <3>1
  <2>3. q + 1 \in Nat /\ 0 \in 0 .. k - 1 BY <1>1
  <2>4. Dealt(n + 1, k, q + 1, 0, b) BY <1>2, <2>1, <2>2, <2>3 DEF Dealt
  <2> QED BY <2>4
<1> QED BY <1>1, <1>9, <1>10

LEMMA DealAll ==
    ASSUME NEW k \in Nat, k >= 1, NEW n \in Nat
    PROVE  \E q, r, a : Dealt(n, k, q, r, a)
<1> DEFINE S == {m \in Nat : \E q, r, a : Dealt(m, k, q, r, a)}
<1>1. 0 \in S
  <2> DEFINE a == [i \in 1 .. 0 |-> 1]
  <2>1. a \in [1 .. 0 -> 1 .. k] /\ DOMAIN a = {} OBVIOUS
  <2>2. \A c : Tr!MembersOf(a, c) = {} BY <2>1 DEF Tr!MembersOf
  <2> HIDE DEF a
  <2>3. 0 = 0 * k + 0 /\ 0 \in 0 .. k - 1 /\ \A c \in 1 .. k : ~(c <= 0) OBVIOUS
  <2>4. Dealt(0, k, 0, 0, a) BY <2>1, <2>2, <2>3, FS_EmptySet, TrFinite DEF Dealt
  <2> QED BY <2>4
<1>2. ASSUME NEW m \in S PROVE m + 1 \in S
  <2>1. PICK q, r, a : Dealt(m, k, q, r, a) OBVIOUS
  <2>2. \E s, t, b : Dealt(m + 1, k, s, t, b) BY <2>1, DealOne
  <2> QED BY <2>2
<1>3. S = Nat
  <2> HIDE DEF S
  <2>1. S \in SUBSET Nat BY DEF S
  <2> QED BY <1>1, <1>2, <2>1, AllNumbers
<1>4. n \in S BY <1>3
<1> QED BY <1>4

\* Bounds that DCBC does not refuse can be met.
LEMMA BoundsFeasible ==
    ASSUME NEW k \in Nat, k >= 1, NEW n \in Nat, NEW lo \in Int, NEW hi \in Int, k * lo <= n, n <= k * hi
    PROVE  \E a \in [1 .. n -> 1 .. k] : \A c \in 1 .. k : Tr!Cardinality(Tr!MembersOf(a, c)) \in lo .. hi
<1>1. PICK q, r, a : Dealt(n, k, q, r, a) BY DealAll
<1>2. q \in Nat /\ r \in 0 .. k - 1 /\ n = q * k + r /\ a \in [1 .. n -> 1 .. k] BY <1>1 DEF Dealt
<1>3. lo <= q
  <2> SUFFICES ASSUME lo > q PROVE FALSE BY <1>2
  <2>1. PICK d \in Nat : lo = q + 1 + d
    <3>1. lo - q - 1 \in Nat /\ lo = q + 1 + (lo - q - 1) BY <1>2
    <3> QED BY <3>1
  <2>2. k * lo = q * k + k + k * d BY <1>2, <2>1
  <2>3. k * d \in Nat /\ q * k \in Nat BY <1>2
  <2>4. PICK x, y : x = q * k /\ y = k * d OBVIOUS
  <2>5. x + k + y <= x + r /\ x \in Nat /\ y \in Nat BY <1>2, <2>2, <2>3, <2>4
  <2> QED BY <1>2, <2>5
<1>4. q <= hi
  <2> SUFFICES ASSUME hi < q PROVE FALSE BY <1>2
  <2>1. PICK d \in Nat : hi = q - 1 - d
    <3>1. q - 1 - hi \in Nat /\ hi = q - 1 - (q - 1 - hi) BY <1>2
    <3> QED BY <3>1
  <2>2. k * hi = q * k - k - k * d BY <1>2, <2>1
  <2>3. k * d \in Nat /\ q * k \in Nat BY <1>2
  <2>4. PICK x, y : x = q * k /\ y = k * d OBVIOUS
  <2>5. x + r <= x - k - y /\ x \in Nat /\ y \in Nat BY <1>2, <2>2, <2>3, <2>4
  <2> QED BY <1>2, <2>5
<1>5. r > 0 => q + 1 <= hi
  <2> SUFFICES ASSUME r > 0, hi <= q PROVE FALSE BY <1>2
  <2>1. PICK d \in Nat : hi = q - d
    <3>1. q - hi \in Nat /\ hi = q - (q - hi) BY <1>2
    <3> QED BY <3>1
  <2>2. k * hi = q * k - k * d BY <1>2, <2>1
  <2>3. k * d \in Nat /\ q * k \in Nat BY <1>2
  <2>4. PICK x, y : x = q * k /\ y = k * d OBVIOUS
  <2>5. x + r <= x - y /\ x \in Nat /\ y \in Nat BY <1>2, <2>2, <2>3, <2>4
  <2> QED BY <1>2, <2>5
<1>6. ASSUME NEW c \in 1 .. k PROVE Tr!Cardinality(Tr!MembersOf(a, c)) \in lo .. hi
  <2>1. PICK z : z = Tr!Cardinality(Tr!MembersOf(a, c)) OBVIOUS
  <2>2. z = IF c <= r THEN q + 1 ELSE q BY <1>1, <2>1 DEF Dealt
  <2>3. c <= r => r > 0 BY <1>2
  <2>4. z \in lo .. hi BY <1>2, <1>3, <1>4, <1>5, <2>2, <2>3
  <2> QED BY <2>1, <2>4
<1> QED BY <1>2, <1>6

-----------------------------------------------------------------------------
\* k-means: the repair of empty clusters.
Empties(a, k) == {c \in 1 .. k : Tr!MembersOf(a, c) = {}}

LEMMA MembersFinite ==
    ASSUME NEW n \in Nat, NEW k \in Nat, NEW a \in [1 .. n -> 1 .. k], NEW c
    PROVE  /\ Tr!IsFiniteSet(Tr!MembersOf(a, c)) /\ Tr!Cardinality(Tr!MembersOf(a, c)) \in 0 .. n
           /\ Tr!MembersOf(a, c) \subseteq 1 .. n
<1>1. Tr!MembersOf(a, c) \in SUBSET (1 .. n) BY DEF Tr!MembersOf
<1>2. Tr!IsFiniteSet(1 .. n) /\ Tr!Cardinality(1 .. n) = IF 1 > n THEN 0 ELSE n - 1 + 1 BY FS_Interval, TrFinite
<1>3. Tr!IsFiniteSet(Tr!MembersOf(a, c)) /\ Tr!Cardinality(Tr!MembersOf(a, c)) <= Tr!Cardinality(1 .. n) BY <1>1, <1>2, FS_Subset, TrFinite
<1>4. Tr!Cardinality(Tr!MembersOf(a, c)) \in Nat BY <1>3, FS_CardinalityType, TrFinite
<1> QED BY <1>1, <1>2, <1>3, <1>4

\* With as many items as clusters, an empty one leaves another with two items;
\* the largest, and of these the first, gives one up.
LEMMA DonorExists ==
    ASSUME NEW n \in Nat, NEW k \in Nat, k >= 1, n >= k, NEW a \in [1 .. n -> 1 .. k], Empties(a, k) # {}
    PROVE  Tr!Donors(a, k) # {}
<1> DEFINE size(c) == Tr!Cardinality(Tr!MembersOf(a, c))
<1>1. \A c \in 1 .. k : size(c) \in 0 .. n BY MembersFinite
<1>2. PICK e \in 1 .. k : Tr!MembersOf(a, e) = {} BY DEF Empties
<1>3. \E c \in 1 .. k : size(c) > 1
  <2>1. a \in [1 .. n -> (1 .. k) \ {e}] BY <1>2 DEF Tr!MembersOf
  <2>2. Tr!IsFiniteSet((1 .. k) \ {e}) /\ Tr!Cardinality((1 .. k) \ {e}) = k - 1
    <3>1. Tr!IsFiniteSet(1 .. k) /\ Tr!Cardinality(1 .. k) = IF 1 > k THEN 0 ELSE k - 1 + 1 BY FS_Interval, TrFinite
    <3>2. Tr!IsFiniteSet((1 .. k) \ {e}) /\ Tr!Cardinality((1 .. k) \ {e}) = Tr!Cardinality(1 .. k) - 1 BY <3>1, FS_RemoveElement, TrFinite
    <3> QED BY <3>1, <3>2
  <2>3. Tr!IsFiniteSet(1 .. n) /\ Tr!Cardinality(1 .. n) = n
    <3>1. Tr!IsFiniteSet(1 .. n) /\ Tr!Cardinality(1 .. n) = IF 1 > n THEN 0 ELSE n - 1 + 1 BY FS_Interval, TrFinite
    <3> QED BY <3>1
  <2>4. Tr!Cardinality((1 .. k) \ {e}) < Tr!Cardinality(1 .. n) BY <2>2, <2>3
  <2>5. PICK x, y \in 1 .. n : x # y /\ a[x] = a[y]
    <3>1. PICK D : D = (1 .. k) \ {e} OBVIOUS
    <3> QED BY <2>1, <2>2, <2>3, <2>4, <3>1, FS_PigeonHole, TrFinite
  <2>6. PICK c \in 1 .. k : c = a[x] OBVIOUS
  <2>7. {x, y} \in SUBSET Tr!MembersOf(a, c) BY <2>5, <2>6 DEF Tr!MembersOf
  <2>8. Tr!IsFiniteSet({x, y}) /\ Tr!Cardinality({x, y}) = 2
    <3>1. Tr!IsFiniteSet({x}) /\ Tr!Cardinality({x}) = 1 BY FS_Singleton, TrFinite
    <3>2. {x} \cup {y} = {x, y} /\ y \notin {x} BY <2>5
    <3>3. Tr!IsFiniteSet({x} \cup {y}) /\ Tr!Cardinality({x} \cup {y}) = Tr!Cardinality({x}) + 1 BY <3>1, <3>2, FS_AddElement, TrFinite
    <3>4. PICK W : W = {x} \cup {y} OBVIOUS
    <3>5. Tr!IsFiniteSet(W) /\ Tr!Cardinality(W) = 2
      <4>1. PICK v : v = {x} OBVIOUS
      <4>2. Tr!Cardinality(v) = 1 /\ Tr!IsFiniteSet(W) /\ Tr!Cardinality(W) = Tr!Cardinality(v) + 1 BY <3>1, <3>3, <3>4, <4>1
      <4> QED BY <4>2
    <3> QED BY <3>2, <3>4, <3>5
  <2>9. Tr!Cardinality({x, y}) <= size(c) BY <2>7, MembersFinite, FS_Subset, TrFinite
  <2>10. PICK z : z = size(c) OBVIOUS
  <2>11. z > 1 BY <1>1, <2>8, <2>9, <2>10
  <2> QED BY <2>10, <2>11
<1> HIDE DEF size
<1>4. PICK big \in 1 .. k : \A d \in 1 .. k : size(d) <= size(big)
  <2> DEFINE S == {n - size(c) : c \in 1 .. k}
  <2>1. S \in SUBSET Nat
    <3>1. \A c \in 1 .. k : n - size(c) \in Nat BY <1>1
    <3> QED BY <3>1
  <2>2. S # {}
    <3>1. n - size(1) \in S OBVIOUS
    <3> QED BY <3>1
  <2>3. PICK m \in S : \A y \in S : m <= y
    <3> HIDE DEF S
    <3> QED BY <2>1, <2>2, LeastNumber
  <2>4. PICK c \in 1 .. k : m = n - size(c) OBVIOUS
  <2>5. ASSUME NEW d \in 1 .. k PROVE size(d) <= size(c)
    <3>1. n - size(d) \in S OBVIOUS
    <3>2. n - size(c) <= n - size(d) BY <2>3, <2>4, <3>1
    <3>3. size(c) \in Nat /\ size(d) \in Nat BY <1>1
    <3> QED BY <3>2, <3>3
  <2> QED BY <2>5
<1>5. PICK first \in 1 .. k : size(first) = size(big) /\ \A d \in 1 .. k : size(d) = size(big) => first <= d
  <2> DEFINE S == {c \in 1 .. k : size(c) = size(big)}
  <2>1. S \in SUBSET Nat OBVIOUS
  <2>2. big \in S OBVIOUS
  <2>3. PICK m \in S : \A y \in S : m <= y
    <3> HIDE DEF S
    <3> QED BY <2>1, <2>2, LeastNumber
  <2> QED BY <2>3
<1>6. ASSUME NEW d \in 1 .. k PROVE size(d) < size(first) \/ (size(d) = size(first) /\ first <= d)
  <2>1. size(d) <= size(first) /\ size(d) \in Nat /\ size(first) \in Nat BY <1>1, <1>4, <1>5
  <2>2. size(d) = size(first) => first <= d BY <1>5
  <2> QED BY <2>1, <2>2
<1>7. size(first) > 1
  <2>1. PICK c \in 1 .. k : size(c) > 1 BY <1>3
  <2>2. size(c) <= size(first) /\ size(c) \in Nat /\ size(first) \in Nat BY <1>1, <1>4, <1>5
  <2> QED BY <2>1, <2>2
<1>8. first \in Tr!Donors(a, k) BY <1>6, <1>7 DEF Tr!Donors, size
<1> QED BY <1>8

LEMMA RepairFills ==
    ASSUME NEW n \in Nat, NEW k \in Nat, k >= 1, n >= k, NEW b \in [1 .. n -> 1 .. k], NEW a \in Tr!RepairOne(b, k)
    PROVE  /\ a \in [1 .. n -> 1 .. k]
           /\ IF Empties(b, k) = {} THEN a = b ELSE \E e \in Empties(b, k) : Empties(a, k) \subseteq Empties(b, k) \ {e}
<1> DEFINE empty == {c \in 1 .. k : Tr!MembersOf(b, c) = {}}
<1>1. empty = Empties(b, k) BY DEF Empties
<1>2. CASE Empties(b, k) = {}
  <2>1. a = b BY <1>1, <1>2 DEF Tr!RepairOne
  <2> QED BY <1>2, <2>1
<1>3. CASE Empties(b, k) # {}
  <2>1. Tr!Donors(b, k) # {} BY <1>3, DonorExists
  <2>2. PICK e : e = Tr!Min(empty) OBVIOUS
  <2>3. e \in 1 .. k /\ Tr!MembersOf(b, e) = {}
    <3>1. empty \in SUBSET Nat /\ empty # {} BY <1>1, <1>3
    <3>2. e \in empty
      <4> HIDE DEF empty
      <4> QED BY <2>2, <3>1, MinIsLeast
    <3> QED BY <3>2
  <2>4. PICK i \in UNION {Tr!MembersOf(b, d) : d \in Tr!Donors(b, k)} : a = [b EXCEPT ![i] = e]
    BY <1>1, <1>3, <2>1, <2>2 DEF Tr!RepairOne
  <2>5. PICK d \in Tr!Donors(b, k) : i \in Tr!MembersOf(b, d) BY <2>4
  <2>6. d \in 1 .. k /\ Tr!Cardinality(Tr!MembersOf(b, d)) > 1 BY <2>5 DEF Tr!Donors
  <2>7. i \in 1 .. n /\ b[i] = d BY <2>5 DEF Tr!MembersOf
  <2>8. a \in [1 .. n -> 1 .. k] /\ a[i] = e /\ \A j \in 1 .. n : j # i => a[j] = b[j] BY <2>3, <2>4, <2>7
  <2>9. PICK o \in Tr!MembersOf(b, d) : o # i
    <3> SUFFICES ASSUME \A o \in Tr!MembersOf(b, d) : o = i PROVE FALSE OBVIOUS
    <3>1. Tr!MembersOf(b, d) = {i} BY <2>5
    <3>2. Tr!Cardinality({i}) = 1 BY FS_Singleton, TrFinite
    <3> QED BY <2>6, <3>1, <3>2
  <2>10. ASSUME NEW c \in 1 .. k, Tr!MembersOf(a, c) = {} PROVE Tr!MembersOf(b, c) = {} /\ c # e
    <3>1. c # e BY <2>7, <2>8, <2>10 DEF Tr!MembersOf
    <3>2. c # d
      <4>1. o \in 1 .. n /\ b[o] = d BY DEF Tr!MembersOf
      <4>2. a[o] = d BY <2>8, <2>9, <4>1
      <4> QED BY <2>8, <2>10, <4>1, <4>2 DEF Tr!MembersOf
    <3>3. ASSUME NEW j \in Tr!MembersOf(b, c) PROVE FALSE
      <4>1. j \in 1 .. n /\ b[j] = c BY DEF Tr!MembersOf
      <4>2. j # i BY <2>7, <3>2, <4>1
      <4>3. a[j] = c BY <2>8, <4>1, <4>2
      <4> QED BY <2>8, <2>10, <4>1, <4>3 DEF Tr!MembersOf
    <3> QED BY <3>1, <3>3
  <2>11. e \in Empties(b, k) BY <2>3 DEF Empties
  <2>12. Empties(a, k) \subseteq Empties(b, k) \ {e} BY <2>10 DEF Empties
  <2> QED BY <1>3, <2>8, <2>11, <2>12
<1> QED BY <1>2, <1>3

\* After as many repairs as there are clusters none is empty.
LEMMA FitLeavesNoneEmpty ==
    ASSUME NEW n \in Nat, NEW k \in Nat, k >= 1, n >= k, NEW a \in Tr!Fitted(n, k), NEW c \in 1 .. k
    PROVE  Tr!MembersOf(a, c) # {}
<1> DEFINE A == [1 .. n -> 1 .. k]
<1>1. PICK b \in A : a \in Tr!RepairEmpty(b, k) BY DEF Tr!Fitted, Tr!Assigned
<1> DEFINE Rec(f) == f = [m \in 0 .. k |-> IF m = 0 THEN {b} ELSE UNION {Tr!RepairOne(x, k) : x \in f[m - 1]}]
           rep == CHOOSE f : Rec(f)
<1>2. a \in rep[k] BY <1>1 DEF Tr!RepairEmpty
<1>3. \E f : Rec(f)
  <2> DEFINE V == SUBSET A
             G == [m \in 1 .. k |-> [Z \in V |-> UNION {Tr!RepairOne(x, k) : x \in Z}]]
  <2>1. G \in [1 .. k -> [V -> V]]
    <3>1. ASSUME NEW Z \in V PROVE UNION {Tr!RepairOne(x, k) : x \in Z} \in V
      <4>1. \A x \in Z : \A y \in Tr!RepairOne(x, k) : y \in A BY RepairFills
      <4> QED BY <4>1
    <3> HIDE DEF V
    <3> QED BY <3>1
  <2>2. {b} \in V BY <1>1
  <2>3. PICK f : Runs(f, k, {b}, G, V)
    <3> HIDE DEF G, V
    <3> QED BY <2>1, <2>2, RunExists
  <2>4. f \in [0 .. k -> V] /\ f[0] = {b} /\ \A m \in 1 .. k : f[m] = G[m][f[m - 1]] BY <2>3 DEF Runs
  <2>5. ASSUME NEW m \in 1 .. k PROVE f[m] = UNION {Tr!RepairOne(x, k) : x \in f[m - 1]}
    <3>1. m - 1 \in 0 .. k OBVIOUS
    <3> HIDE DEF V
    <3>2. f[m - 1] \in V BY <2>4, <3>1
    <3> QED BY <2>4, <3>2
  <2>6. \A m \in 0 .. k : f[m] = IF m = 0 THEN {b} ELSE UNION {Tr!RepairOne(x, k) : x \in f[m - 1]}
    <3>1. \A m \in 0 .. k : m = 0 \/ m \in 1 .. k OBVIOUS
    <3> HIDE DEF V, G
    <3> QED BY <2>4, <2>5, <3>1
  <2>7. f = [m \in 0 .. k |-> f[m]]
    <3> HIDE DEF V, G
    <3> QED BY <2>4
  <2>8. Rec(f)
    <3> HIDE DEF V, G
    <3> QED BY <2>6, <2>7
  <2> QED BY <2>8
<1>4. Rec(rep)
  <2> HIDE DEF Rec
  <2> QED BY <1>3
<1> HIDE DEF rep
<1>5. rep[0] = {b} /\ \A m \in 1 .. k : rep[m] = UNION {Tr!RepairOne(x, k) : x \in rep[m - 1]}
  <2>1. \A m \in 0 .. k : rep[m] = IF m = 0 THEN {b} ELSE UNION {Tr!RepairOne(x, k) : x \in rep[m - 1]} BY <1>4
  <2>2. 0 \in 0 .. k /\ \A m \in 1 .. k : m \in 0 .. k /\ m # 0 OBVIOUS
  <2> HIDE DEF Rec
  <2> QED BY <2>1, <2>2
<1>6. \A x \in A : Tr!IsFiniteSet(Empties(x, k)) /\ Tr!Cardinality(Empties(x, k)) \in 0 .. k
  <2> SUFFICES ASSUME NEW x \in A PROVE Tr!IsFiniteSet(Empties(x, k)) /\ Tr!Cardinality(Empties(x, k)) \in 0 .. k OBVIOUS
  <2>1. Empties(x, k) \in SUBSET (1 .. k) BY DEF Empties
  <2>2. Tr!IsFiniteSet(1 .. k) /\ Tr!Cardinality(1 .. k) = IF 1 > k THEN 0 ELSE k - 1 + 1 BY FS_Interval, TrFinite
  <2>3. Tr!IsFiniteSet(Empties(x, k)) /\ Tr!Cardinality(Empties(x, k)) <= Tr!Cardinality(1 .. k) BY <2>1, <2>2, FS_Subset, TrFinite
  <2>4. Tr!Cardinality(Empties(x, k)) \in Nat BY <2>3, FS_CardinalityType, TrFinite
  <2> QED BY <2>2, <2>3, <2>4
<1> DEFINE S == {m \in Nat : m <= k => \A x \in rep[m] : x \in A /\ Tr!Cardinality(Empties(x, k)) <= k - m}
<1> HIDE DEF Rec
<1>7. 0 \in S
  <2>1. \A x \in rep[0] : x = b BY <1>5
  <2>2. Tr!Cardinality(Empties(b, k)) <= k - 0 BY <1>1, <1>6
  <2> QED BY <1>1, <2>1, <2>2
<1>8. ASSUME NEW m \in S PROVE m + 1 \in S
  <2> SUFFICES ASSUME m + 1 <= k, NEW x \in rep[m + 1] PROVE x \in A /\ Tr!Cardinality(Empties(x, k)) <= k - (m + 1) OBVIOUS
  <2>1. m \in Nat /\ m <= k /\ m + 1 \in 1 .. k /\ (m + 1) - 1 = m OBVIOUS
  <2>2. rep[m + 1] = UNION {Tr!RepairOne(y, k) : y \in rep[m]} BY <1>5, <2>1
  <2>3. PICK y \in rep[m] : x \in Tr!RepairOne(y, k) BY <2>2
  <2>4. y \in A /\ Tr!Cardinality(Empties(y, k)) <= k - m BY <2>1
  <2>5. x \in A /\ IF Empties(y, k) = {} THEN x = y ELSE \E e \in Empties(y, k) : Empties(x, k) \subseteq Empties(y, k) \ {e}
    BY <2>3, <2>4, RepairFills
  <2> HIDE DEF A, S
  <2>6. CASE Empties(y, k) = {}
    <3>1. Empties(x, k) = {} BY <2>5, <2>6
    <3>2. Tr!Cardinality({}) = 0 BY FS_EmptySet, TrFinite
    <3> QED BY <2>1, <2>5, <3>1, <3>2
  <2>7. CASE Empties(y, k) # {}
    <3>1. PICK e \in Empties(y, k) : Empties(x, k) \subseteq Empties(y, k) \ {e} BY <2>5, <2>7
    <3>2. PICK E, F : E = Empties(y, k) /\ F = Empties(x, k) OBVIOUS
    <3>3. Tr!IsFiniteSet(E) /\ e \in E /\ F \in SUBSET (E \ {e}) BY <1>6, <2>4, <3>1, <3>2
    <3>4. Tr!IsFiniteSet(E \ {e}) /\ Tr!Cardinality(E \ {e}) = Tr!Cardinality(E) - 1 BY <3>3, FS_RemoveElement, TrFinite
    <3>5. Tr!Cardinality(F) <= Tr!Cardinality(E \ {e}) BY <3>3, <3>4, FS_Subset, TrFinite
    <3>6. Tr!Cardinality(E) \in 0 .. k /\ Tr!Cardinality(F) \in 0 .. k /\ Tr!Cardinality(E) <= k - m BY <1>6, <2>4, <2>5, <3>2
    <3>7. PICK p, q : p = Tr!Cardinality(E) /\ q = Tr!Cardinality(F) OBVIOUS
    <3>8. q <= k - (m + 1) BY <2>1, <3>4, <3>5, <3>6, <3>7
    <3> QED BY <2>5, <3>2, <3>7, <3>8
  <2> QED BY <2>6, <2>7
<1>9. S = Nat
  <2> HIDE DEF S
  <2>1. S \in SUBSET Nat BY DEF S
  <2> QED BY <1>7, <1>8, <2>1, AllNumbers
<1>10. a \in A /\ Tr!Cardinality(Empties(a, k)) <= k - k
  <2>1. k \in S BY <1>9
  <2> QED BY <1>2, <2>1
<1>11. Empties(a, k) = {}
  <2>1. PICK E : E = Empties(a, k) OBVIOUS
  <2>2. Tr!IsFiniteSet(E) /\ Tr!Cardinality(E) \in 0 .. k /\ Tr!Cardinality(E) <= k - k BY <1>6, <1>10, <2>1
  <2>3. Tr!Cardinality(E) = 0 BY <2>2
  <2> QED BY <2>1, <2>2, <2>3, FS_EmptySet, TrFinite
<1> QED BY <1>11 DEF Empties

-----------------------------------------------------------------------------
(* The trainers.                                                            *)

TrainerStates == {"Idle", "Ingesting", "PassComplete", "TrainingComplete", "Error", "Panicked"}

IsTrainer(t) ==
    /\ t = [state |-> t.state, phase |-> t.phase, pass |-> t.pass, base |-> t.base, model |-> t.model]
    /\ t.state \in TrainerStates /\ t.pass \in Seq(Nat) /\ t.base \in Seq(Nat)

\* A trainer of which nothing is asked any more.
Dead(t) == t.state \in {"Error", "Panicked"}

\* What a trainer t, asked for k clusters, knows when it has reported n: k-means
\* and DCBC;
FitInv(t, k, n) ==
    /\ n \in {0, k}
    /\ t.base # <<>> => Len(t.base) >= k
    /\ t.state \in {"PassComplete", "TrainingComplete"} => t.base # <<>>
    /\ t.state \in {"PassComplete", "TrainingComplete"} => n = k

\* DCBC: the bounds are those of the first pass and can be met;
BoundsInv(t, k, p) ==
    LET b == Tr!OccupancyBounds(Len(t.base), k, p.lower, p.upper)
    IN  /\ t.base # <<>> => ~Tr!BoundsInfeasible(Len(t.base), k, b)
        /\ t.state \in {"PassComplete", "TrainingComplete"} => t.model = Tr!BalancedModel(b)

\* chunking that looks for boundaries: those found cut where chunks end, and
\* the items up to the last key are counted;
Searching(t, k) ==
    /\ t.phase.lower \in Int /\ t.phase.lower >= 0 - 1
    /\ t.phase.found = UpTo(t.base, t.phase.lower)
    /\ t.phase.uppers \in Seq(Int) /\ Len(t.phase.uppers) < k - 1
    /\ \A c \in 1 .. Len(t.phase.uppers) : UpTo(t.base, t.phase.uppers[c]) = Tr!ChunkTargets(Len(t.base), k)[c]

\* the replay phase follows the baseline, and a model was reported;
ChunkInv(t, k, n) ==
    /\ t.base # <<>> => Len(t.base) >= k
    /\ t.phase.at = "DiscoverBoundaries" => Searching(t, k)
    /\ t.model # Tr!NoModel => t.base # <<>> /\ \E u : t.model = Tr!ChunkModel(u) /\ Cuts(t.base, k, u)
    /\ n \in {0, k}
    /\ t.phase.at = "AnalyzePca" <=> t.base = <<>>
    /\ t.phase.at = "DiscoverBoundaries" =>
          t.phase = [at |-> "DiscoverBoundaries", found |-> t.phase.found, lower |-> t.phase.lower, uppers |-> t.phase.uppers]
    /\ t.model # Tr!NoModel <=> t.phase.at \notin {"AnalyzePca", "DiscoverBoundaries"}
    /\ n = IF t.model # Tr!NoModel THEN k ELSE 0
    /\ t.state = "TrainingComplete" => n = k

\* directional PCA: what was reported is what the plan realizes, and no item of
\* the pass that realizes it is without a cluster.
DirectionalInv(t, k, n) ==
    /\ t.phase.at \in {"AnalyzePca", "PlanCuts", "CountCells", "RealizePartition"}
    /\ t.phase.at = "AnalyzePca" <=> t.base = <<>>
    /\ t.phase.at = "PlanCuts" => t.phase = [at |-> "PlanCuts", bins |-> t.phase.bins, stage |-> t.phase.stage]
    /\ t.phase.at # "RealizePartition" => n = 0 /\ t.model = Tr!NoModel
    /\ t.phase.at = "RealizePartition" =>
          /\ n = Tr!Realized(t.phase.plan) /\ n \in 1 .. k
          /\ \A i \in DOMAIN t.pass : Tr!Clusters(t.phase, t.pass)[i] # 0
    /\ t.state = "TrainingComplete" => n # 0
    /\ t.model # Tr!NoModel => Len(t.model.clusters) = Len(t.base) /\ Tr!ToSet(t.model.clusters) = 1 .. n

Knows(t, n) ==
    /\ setting.algorithm \in {"kmeans", "dcbc"} => FitInv(t, setting.requested, n)
    /\ setting.algorithm = "dcbc" => BoundsInv(t, setting.requested, setting.params)
    /\ setting.algorithm = "chunking" => ChunkInv(t, setting.requested, n)
    /\ setting.algorithm = "directional" => DirectionalInv(t, setting.requested, n)

TrainerInv ==
    /\ setting \in Settings /\ IsTrainer(trainer) /\ ids \in 0 .. setting.requested /\ handed \in BOOLEAN
    /\ ~Dead(trainer) => Knows(trainer, ids)
    /\ handed => Tr!Classifies(trainer)

LEMMA SettingTypes ==
    ASSUME Tr!TrainersAssumption, TrainerInv
    PROVE  /\ setting.requested \in Nat /\ setting.requested >= 1
           /\ setting.algorithm \in {"kmeans", "dcbc", "chunking", "directional"}
           /\ setting.algorithm = "directional" => setting.params.min \in Nat /\ setting.params.exact \in BOOLEAN
BY DEF Tr!TrainersAssumption, TrainerInv

\* A call that leaves a trainer in error: it failed, or came out of turn.
LEMMA DeadStep ==
    ASSUME TrainerInv, ~handed, NEW call, NEW l, Tr!Answered(call, l), IsTrainer(l.t), Dead(l.t),
           \/ trainer.state = "Ingesting" /\ call = "finish_pass" /\ l.answer.is = "error"
           \/ Tr!Usable(trainer) /\ call = "ingest_batch" /\ l.answer.is = "panic"
           \/ call = "ingest_batch" /\ ~Tr!Usable(trainer) /\ l.answer.is = "invalid"
           \/ call = "finish_pass" /\ trainer.state # "Ingesting" /\ l.answer.is = "invalid"
           \/ call = "complete_training" /\ (trainer.state # "PassComplete" \/ ids = 0) /\ l.answer.is = "invalid"
    PROVE  TrainerInv' /\ Tr!ContractStep
<1>1. /\ trainer' = l.t /\ ids' = ids /\ setting' = setting /\ handed' = handed
      /\ last' = [call |-> call, answer |-> l.answer.is]
  BY DEF Tr!Answered
<1>2. TrainerInv' BY <1>1 DEF TrainerInv
<1>3. Tr!Stopped' BY <1>1 DEF Tr!Stopped, Dead
<1>4. Tr!Contract!Terminal BY <1>1, <1>3 DEF Tr!Contract!Terminal, Tr!Contract!config
<1>5. CASE trainer.state = "Ingesting" /\ call = "finish_pass" /\ l.answer.is = "error"
  <2>1. ~Tr!Stopped BY <1>5 DEF Tr!Stopped
  <2>2. Tr!Contract!Fail BY <1>1, <1>4, <1>5, <2>1 DEF Tr!Contract!Fail, Tr!Contract!Call
  <2> QED BY <2>2, <1>2 DEF Tr!ContractStep, Tr!Contract!Next
<1>6. CASE Tr!Usable(trainer) /\ call = "ingest_batch" /\ l.answer.is = "panic"
  <2>1. ~Tr!Stopped /\ trainer.state \in {"Idle", "Ingesting", "PassComplete"} BY <1>6 DEF Tr!Stopped, Tr!Usable
  <2>2. Tr!Contract!Fail BY <1>1, <1>4, <1>6, <2>1 DEF Tr!Contract!Fail, Tr!Contract!Call
  <2> QED BY <2>2, <1>2 DEF Tr!ContractStep, Tr!Contract!Next
<1>7. ASSUME Tr!Contract!OutOfTurn(call), l.answer.is = "invalid", call \in {"ingest_batch", "finish_pass", "complete_training"}
      PROVE  TrainerInv' /\ Tr!ContractStep
  <2>1. last' = Tr!Contract!Call(call, "invalid") BY <1>1, <1>7 DEF Tr!Contract!Call
  <2>2. Tr!Contract!Refuse BY <1>4, <1>7, <2>1 DEF Tr!Contract!Refuse
  <2> QED BY <2>2, <1>2 DEF Tr!ContractStep, Tr!Contract!Next
<1>8. CASE call = "ingest_batch" /\ ~Tr!Usable(trainer) /\ l.answer.is = "invalid"
  <2>1. trainer.state \in TrainerStates BY DEF TrainerInv, IsTrainer
  <2>2. Tr!Contract!OutOfTurn(call) BY <1>8, <2>1 DEF Tr!Contract!OutOfTurn, Tr!Stopped, Tr!Usable, TrainerStates
  <2> QED BY <1>7, <1>8, <2>2
<1>9. CASE call = "finish_pass" /\ trainer.state # "Ingesting" /\ l.answer.is = "invalid"
  <2>1. Tr!Contract!OutOfTurn(call) BY <1>9 DEF Tr!Contract!OutOfTurn
  <2> QED BY <1>7, <1>9, <2>1
<1>10. CASE call = "complete_training" /\ (trainer.state # "PassComplete" \/ ids = 0) /\ l.answer.is = "invalid"
  <2>1. Tr!Contract!OutOfTurn(call) BY <1>10 DEF Tr!Contract!OutOfTurn
  <2> QED BY <1>7, <1>10, <2>1
<1> QED BY <1>5, <1>6, <1>8, <1>9, <1>10

\* A call that takes items in.
LEMMA IngestStep ==
    ASSUME TrainerInv, Tr!Usable(trainer), NEW q \in Seq(Nat), Tr!IsPrefix(trainer.pass, q),
           NEW l, Tr!Answered("ingest_batch", l), l.answer.is \in {"ok", "malformed"},
           l.t = [state |-> "Ingesting", phase |-> trainer.phase, pass |-> q, base |-> trainer.base, model |-> trainer.model],
           setting.algorithm = "directional" /\ trainer.phase.at = "RealizePartition" =>
               \A i \in DOMAIN q : Tr!Clusters(trainer.phase, q)[i] # 0
    PROVE  TrainerInv' /\ Tr!ContractStep
<1>1. /\ trainer' = l.t /\ ids' = ids /\ setting' = setting /\ handed' = handed
      /\ last' = [call |-> "ingest_batch", answer |-> l.answer.is]
  BY DEF Tr!Answered
<1>2. trainer = [state |-> trainer.state, phase |-> trainer.phase, pass |-> trainer.pass, base |-> trainer.base, model |-> trainer.model]
      /\ trainer.base \in Seq(Nat) /\ ~Dead(trainer) /\ Knows(trainer, ids)
  BY DEF TrainerInv, IsTrainer, Tr!Usable, Dead
<1>4. /\ l.t.state = "Ingesting" /\ l.t.phase = trainer.phase /\ l.t.pass = q /\ l.t.base = trainer.base /\ l.t.model = trainer.model
      /\ IsTrainer(l.t)
  BY <1>2 DEF IsTrainer, TrainerStates
<1>5. Knows(l.t, ids)
  <2>1. setting.algorithm \in {"kmeans", "dcbc"} => FitInv(l.t, setting.requested, ids)
    BY <1>2, <1>4 DEF Knows, FitInv
  <2>2. setting.algorithm = "chunking" => ChunkInv(l.t, setting.requested, ids)
    BY <1>2, <1>4 DEF Knows, ChunkInv, Searching
  <2>3. setting.algorithm = "directional" => DirectionalInv(l.t, setting.requested, ids)
    BY <1>2, <1>4 DEF Knows, DirectionalInv
  <2>4. setting.algorithm = "dcbc" => BoundsInv(l.t, setting.requested, setting.params)
    BY <1>2, <1>4 DEF Knows, BoundsInv
  <2> QED BY <2>1, <2>2, <2>3, <2>4 DEF Knows
<1>6. TrainerInv'
  <2>1. Knows(trainer, ids)' BY <1>1, <1>5 DEF Knows
  <2>2. ~handed BY DEF TrainerInv, Tr!Classifies, Tr!Usable
  <2> QED BY <1>1, <1>4, <2>1, <2>2 DEF TrainerInv
<1>7. ~Tr!Stopped /\ ~Tr!Stopped' BY <1>1, <1>2, <1>4 DEF Tr!Stopped, Dead
<1>8. Tr!Contract!IsPrefix(trainer.pass, q) BY DEF Tr!Contract!IsPrefix, Tr!IsPrefix
<1>9. Tr!Contract!Ingest
  <2>1. trainer.state \in {"Idle", "Ingesting", "PassComplete"} BY DEF Tr!Usable
  <2>2. trainer'.state = "Ingesting" /\ trainer'.pass = q /\ trainer'.base = trainer.base BY <1>1, <1>4
  <2> QED BY <1>1, <1>7, <1>8, <2>1, <2>2 DEF Tr!Contract!Ingest, Tr!Contract!Call, Tr!Contract!config
<1> QED BY <1>6, <1>9 DEF Tr!ContractStep, Tr!Contract!Next

Least == IF setting.algorithm = "directional" THEN Tr!LeastInput(setting.params, setting.requested) ELSE setting.requested

\* A pass that completes.
LEMMA FinishStep ==
    ASSUME TrainerInv, trainer.state = "Ingesting",
           NEW ph, NEW model, NEW answer, NEW l, l = Tr!Completed(trainer, ph, model, answer), Tr!Answered("finish_pass", l),
           IF trainer.base = <<>> THEN Len(trainer.pass) >= Least ELSE trainer.pass = trainer.base,
           NEW n, n = IF answer.is = "ready" THEN answer.clusters ELSE ids, n = ids \/ (ids = 0 /\ n \in 1 .. setting.requested),
           answer.is \in {"analysis", "ready"}, answer.is = "ready" => n \in 1 .. setting.requested,
           Knows(l.t, n)
    PROVE  TrainerInv' /\ Tr!ContractStep
<1>1. /\ trainer' = l.t /\ ids' = n /\ setting' = setting /\ handed' = handed
      /\ last' = [call |-> "finish_pass", answer |-> answer.is]
  BY DEF Tr!Answered, Tr!Completed, Tr!Leaves
<1>2. l.t = [state |-> "PassComplete", phase |-> ph, pass |-> <<>>, base |-> trainer.pass, model |-> model]
  BY DEF Tr!Completed, Tr!Leaves
<1>3. /\ l.t.state = "PassComplete" /\ l.t.pass = <<>> /\ l.t.base = trainer.pass
      /\ IsTrainer(l.t)
  <2>1. trainer.pass \in Seq(Nat) /\ <<>> \in Seq(Nat) BY DEF TrainerInv, IsTrainer
  <2> QED BY <1>2, <2>1 DEF IsTrainer, TrainerStates
<1>4. TrainerInv'
  <2>1. Knows(trainer, ids)' BY <1>1 DEF Knows
  <2>2. n \in 0 .. setting.requested BY DEF TrainerInv
  <2>3. ~handed BY DEF TrainerInv, Tr!Classifies
  <2> QED BY <1>1, <1>3, <2>1, <2>2, <2>3 DEF TrainerInv
<1>5. ~Tr!Stopped /\ ~Tr!Stopped' BY <1>1, <1>3 DEF Tr!Stopped
<1>6. Tr!Contract!FinishPass
  <2>1. \/ last' = Tr!Contract!Call("finish_pass", "analysis") /\ ids' = ids
        \/ last' = Tr!Contract!Call("finish_pass", "ready") /\ ids' \in 1 .. setting.requested /\ ids \in {0, ids'}
    BY <1>1 DEF Tr!Contract!Call
  <2> QED BY <1>1, <1>3, <1>5, <2>1 DEF Tr!Contract!FinishPass, Tr!Contract!config, Least
<1> QED BY <1>4, <1>6 DEF Tr!ContractStep, Tr!Contract!Next

LEMMA CompleteStep ==
    ASSUME TrainerInv, trainer.state = "PassComplete", ids # 0,
           NEW l, l = Tr!CompleteAny(trainer), Tr!Answered("complete_training", l)
    PROVE  TrainerInv' /\ Tr!ContractStep
<1>1. l.t = [trainer EXCEPT !.state = "TrainingComplete"] /\ l.answer.is = "ok" BY DEF Tr!CompleteAny, Tr!Leaves, Tr!Answer
<1>2. /\ trainer' = l.t /\ ids' = ids /\ setting' = setting /\ handed' = handed
      /\ last' = [call |-> "complete_training", answer |-> "ok"]
  BY <1>1 DEF Tr!Answered
<1>3. trainer = [state |-> trainer.state, phase |-> trainer.phase, pass |-> trainer.pass, base |-> trainer.base, model |-> trainer.model]
      /\ trainer.base \in Seq(Nat) /\ trainer.pass \in Seq(Nat) /\ ~Dead(trainer) /\ Knows(trainer, ids)
  BY DEF TrainerInv, IsTrainer, Dead
<1>4. l.t = [state |-> "TrainingComplete", phase |-> trainer.phase, pass |-> trainer.pass, base |-> trainer.base, model |-> trainer.model]
  BY <1>1, <1>3
<1>5. /\ l.t.state = "TrainingComplete" /\ l.t.phase = trainer.phase /\ l.t.pass = trainer.pass /\ l.t.base = trainer.base
      /\ l.t.model = trainer.model /\ IsTrainer(l.t)
  BY <1>3, <1>4 DEF IsTrainer, TrainerStates
<1>6. Knows(l.t, ids)
  <2>1. setting.algorithm \in {"kmeans", "dcbc"} => FitInv(l.t, setting.requested, ids)
    BY <1>3, <1>5 DEF Knows, FitInv
  <2>2. setting.algorithm = "chunking" => ChunkInv(l.t, setting.requested, ids)
    BY <1>3, <1>5 DEF Knows, ChunkInv, Searching
  <2>3. setting.algorithm = "directional" => DirectionalInv(l.t, setting.requested, ids)
    BY <1>3, <1>5 DEF Knows, DirectionalInv
  <2>4. setting.algorithm = "dcbc" => BoundsInv(l.t, setting.requested, setting.params)
    BY <1>3, <1>5 DEF Knows, BoundsInv
  <2> QED BY <2>1, <2>2, <2>3, <2>4 DEF Knows
<1>7. TrainerInv'
  <2>1. Knows(trainer, ids)' BY <1>2, <1>6 DEF Knows
  <2>2. ~handed BY DEF TrainerInv, Tr!Classifies
  <2> QED BY <1>2, <1>5, <2>1, <2>2 DEF TrainerInv
<1>8. ~Tr!Stopped /\ ~Tr!Stopped' BY <1>2, <1>5 DEF Tr!Stopped
<1>9. Tr!Contract!CompleteTraining
  BY <1>2, <1>5, <1>8 DEF Tr!Contract!CompleteTraining, Tr!Contract!Call, Tr!Contract!config
<1> QED BY <1>7, <1>9 DEF Tr!ContractStep, Tr!Contract!Next

\* What errors leave.
LEMMA Errors ==
    ASSUME NEW t, IsTrainer(t)
    PROVE  /\ IsTrainer(Tr!Fails(t).t) /\ Dead(Tr!Fails(t).t) /\ Tr!Fails(t).answer.is = "error"
           /\ IsTrainer(Tr!InvalidTransition(t).t) /\ Dead(Tr!InvalidTransition(t).t) /\ Tr!InvalidTransition(t).answer.is = "invalid"
           /\ IsTrainer(Tr!FinishOutOfTurn(t).t) /\ Dead(Tr!FinishOutOfTurn(t).t) /\ Tr!FinishOutOfTurn(t).answer.is = "invalid"
           /\ IsTrainer([t EXCEPT !.base = t.pass])
<1>1. t = [state |-> t.state, phase |-> t.phase, pass |-> t.pass, base |-> t.base, model |-> t.model]
      /\ t.pass \in Seq(Nat) /\ t.base \in Seq(Nat) /\ t.state \in TrainerStates /\ <<>> \in Seq(Nat)
  BY DEF IsTrainer
<1>2. [t EXCEPT !.base = t.pass] = [state |-> t.state, phase |-> t.phase, pass |-> t.pass, base |-> t.pass, model |-> t.model] BY <1>1
<1>3. Tr!Fails(t).t = [state |-> "Error", phase |-> t.phase, pass |-> <<>>, base |-> t.base, model |-> t.model]
  <2>1. PICK s, p, q, b, m : t = [state |-> s, phase |-> p, pass |-> q, base |-> b, model |-> m] BY <1>1
  <2>2. [t EXCEPT !.state = "Error", !.pass = <<>>] = [state |-> "Error", phase |-> p, pass |-> <<>>, base |-> b, model |-> m]
    <3>1. PICK e : e = [t EXCEPT !.state = "Error"] OBVIOUS
    <3>2. e = [state |-> "Error", phase |-> p, pass |-> q, base |-> b, model |-> m] BY <2>1, <3>1
    <3>3. [e EXCEPT !.pass = <<>>] = [state |-> "Error", phase |-> p, pass |-> <<>>, base |-> b, model |-> m] BY <3>2
    <3> QED BY <3>1, <3>3
  <2> QED BY <2>1, <2>2 DEF Tr!Fails, Tr!Leaves
<1>4. Tr!InvalidTransition(t).t = [state |-> "Error", phase |-> t.phase, pass |-> t.pass, base |-> t.base, model |-> t.model]
  <2>1. PICK s, p, q, b, m : t = [state |-> s, phase |-> p, pass |-> q, base |-> b, model |-> m] BY <1>1
  <2>2. [t EXCEPT !.state = "Error"] = [state |-> "Error", phase |-> p, pass |-> q, base |-> b, model |-> m] BY <2>1
  <2> QED BY <2>1, <2>2 DEF Tr!InvalidTransition, Tr!Leaves
<1>5. Tr!Fails(t).answer.is = "error" /\ Tr!InvalidTransition(t).answer.is = "invalid" /\ Tr!FinishOutOfTurn(t).answer.is = "invalid"
  BY DEF Tr!Fails, Tr!InvalidTransition, Tr!FinishOutOfTurn, Tr!Leaves, Tr!Answer
<1>6. Tr!FinishOutOfTurn(t).t = Tr!Fails(t).t BY DEF Tr!FinishOutOfTurn, Tr!Fails, Tr!Leaves
<1> QED BY <1>1, <1>2, <1>3, <1>4, <1>5, <1>6 DEF IsTrainer, Dead, TrainerStates

\* A finish that fails, before or after the baseline was set, or out of turn.
LEMMA FailStep ==
    ASSUME TrainerInv, ~handed, NEW l, Tr!Answered("finish_pass", l),
           \/ trainer.state = "Ingesting" /\ (l = Tr!Fails(trainer) \/ l = Tr!Fails([trainer EXCEPT !.base = trainer.pass]))
           \/ trainer.state # "Ingesting" /\ l = Tr!FinishOutOfTurn(trainer)
    PROVE  TrainerInv' /\ Tr!ContractStep
<1>1. IsTrainer(trainer) BY DEF TrainerInv
<1>2. IsTrainer([trainer EXCEPT !.base = trainer.pass]) BY <1>1, Errors
<1>3. CASE trainer.state = "Ingesting"
  <2>1. PICK t : IsTrainer(t) /\ l = Tr!Fails(t) BY <1>1, <1>2, <1>3
  <2>2. IsTrainer(l.t) /\ Dead(l.t) /\ l.answer.is = "error" BY <2>1, Errors
  <2> QED BY <1>3, <2>2, DeadStep
<1>4. CASE trainer.state # "Ingesting"
  <2>1. IsTrainer(l.t) /\ Dead(l.t) /\ l.answer.is = "invalid" BY <1>1, <1>4, Errors
  <2> QED BY <1>4, <2>1, DeadStep
<1> QED BY <1>3, <1>4

LEMMA InvalidStep ==
    ASSUME TrainerInv, ~handed, NEW call, NEW l, Tr!Answered(call, l), l = Tr!InvalidTransition(trainer),
           \/ call = "ingest_batch" /\ ~Tr!Usable(trainer)
           \/ call = "complete_training" /\ (trainer.state # "PassComplete" \/ ids = 0)
    PROVE  TrainerInv' /\ Tr!ContractStep
<1>1. IsTrainer(l.t) /\ Dead(l.t) /\ l.answer.is = "invalid" BY Errors DEF TrainerInv
<1> QED BY <1>1, DeadStep

-----------------------------------------------------------------------------
\* finish_pass of the four trainers.

LEMMA KmeansKeeps ==
    ASSUME Tr!TrainersAssumption, TrainerInv, ~handed, setting.algorithm = "kmeans",
           NEW l \in Tr!KmeansFinish(trainer, setting.requested), Tr!Answered("finish_pass", l)
    PROVE  TrainerInv' /\ Tr!ContractStep
<1> DEFINE k == setting.requested
           n == Len(trainer.pass)
<1>1. k \in Nat /\ k >= 1 BY SettingTypes
<1>2. n \in Nat BY DEF TrainerInv, IsTrainer
<1>3. CASE trainer.state # "Ingesting" \/ n = 0 \/ n < k \/ ~Tr!Replays(trainer)
  <2>1. \/ trainer.state # "Ingesting" /\ l = Tr!FinishOutOfTurn(trainer)
        \/ trainer.state = "Ingesting" /\ l = Tr!Fails(trainer)
    BY <1>3 DEF Tr!KmeansFinish
  <2> QED BY <2>1, FailStep
<1>4. CASE ~(trainer.state # "Ingesting" \/ n = 0 \/ n < k \/ ~Tr!Replays(trainer))
  <2>1. l \in {Tr!Fails([trainer EXCEPT !.base = trainer.pass]), Tr!Completed(trainer, trainer.phase, Tr!KmeansModel, Tr!Ready(n, k))}
    BY <1>4 DEF Tr!KmeansFinish
  <2>2. CASE l = Tr!Fails([trainer EXCEPT !.base = trainer.pass]) BY <1>4, <2>2, FailStep
  <2>3. CASE l = Tr!Completed(trainer, trainer.phase, Tr!KmeansModel, Tr!Ready(n, k))
    <3>1. Tr!Ready(n, k).is = "ready" /\ Tr!Ready(n, k).clusters = k BY DEF Tr!Ready
    <3>2. trainer.state = "Ingesting" BY <1>4
    <3>3. IF trainer.base = <<>> THEN Len(trainer.pass) >= Least ELSE trainer.pass = trainer.base
      BY <1>1, <1>2, <1>4 DEF Tr!Replays, Least
    <3>4. ids \in {0, k} BY <3>2 DEF TrainerInv, Knows, FitInv, Dead
    <3>5. Knows(l.t, k)
      <4>1. l.t.base = trainer.pass BY <2>3 DEF Tr!Completed, Tr!Leaves
      <4>2. trainer.pass # <<>> /\ Len(trainer.pass) >= k BY <1>1, <1>2, <1>4
      <4> QED BY <4>1, <4>2 DEF Knows, FitInv
    <3> QED BY <2>3, <3>1, <3>2, <3>3, <3>4, <3>5, <1>1, FinishStep
  <2> QED BY <2>1, <2>2, <2>3
<1> QED BY <1>3, <1>4

LEMMA DcbcKeeps ==
    ASSUME Tr!TrainersAssumption, TrainerInv, ~handed, setting.algorithm = "dcbc",
           NEW l \in Tr!DcbcFinish(trainer, setting.requested, setting.params.lower, setting.params.upper), Tr!Answered("finish_pass", l)
    PROVE  TrainerInv' /\ Tr!ContractStep
<1> DEFINE k == setting.requested
           n == Len(trainer.pass)
           b == Tr!OccupancyBounds(n, k, setting.params.lower, setting.params.upper)
           bad == trainer.state # "Ingesting" \/ (trainer.base = <<>> /\ (n < k \/ Tr!BoundsInfeasible(n, k, b))) \/ ~Tr!Replays(trainer)
<1>1. k \in Nat /\ k >= 1 BY SettingTypes
<1>2. n \in Nat BY DEF TrainerInv, IsTrainer
<1>3. CASE bad
  <2>1. \/ trainer.state # "Ingesting" /\ l = Tr!FinishOutOfTurn(trainer)
        \/ trainer.state = "Ingesting" /\ l = Tr!Fails(trainer)
    BY <1>3 DEF Tr!DcbcFinish
  <2> QED BY <2>1, FailStep
<1>4. CASE ~bad
  <2>1. l \in {Tr!Fails([trainer EXCEPT !.base = trainer.pass]), Tr!Completed(trainer, trainer.phase, Tr!BalancedModel(b), Tr!Ready(n, k))}
    BY <1>4 DEF Tr!DcbcFinish
  <2>2. CASE l = Tr!Fails([trainer EXCEPT !.base = trainer.pass]) BY <1>4, <2>2, FailStep
  <2>3. CASE l = Tr!Completed(trainer, trainer.phase, Tr!BalancedModel(b), Tr!Ready(n, k))
    <3>1. Tr!Ready(n, k).is = "ready" /\ Tr!Ready(n, k).clusters = k BY DEF Tr!Ready
    <3>2. trainer.state = "Ingesting" BY <1>4
    <3>3. IF trainer.base = <<>> THEN Len(trainer.pass) >= Least ELSE trainer.pass = trainer.base
      BY <1>1, <1>2, <1>4 DEF Tr!Replays, Least
    <3>4. ids \in {0, k} BY <3>2 DEF TrainerInv, Knows, FitInv, Dead
    <3>5. Knows(l.t, k)
      <4>1. l.t.base = trainer.pass /\ l.t.model = Tr!BalancedModel(b) BY <2>3 DEF Tr!Completed, Tr!Leaves
      <4>2. FitInv(trainer, k, ids) /\ BoundsInv(trainer, k, setting.params) BY <3>2 DEF TrainerInv, Knows, Dead
      <4>3. Len(trainer.pass) >= k /\ ~Tr!BoundsInfeasible(n, k, b)
        <5>1. CASE trainer.base = <<>> BY <1>1, <1>2, <1>4, <5>1
        <5>2. CASE trainer.base # <<>>
          <6>1. trainer.pass = trainer.base BY <3>3, <5>2
          <6> QED BY <4>2, <5>2, <6>1 DEF FitInv, BoundsInv
        <5> QED BY <5>1, <5>2
      <4>4. trainer.pass # <<>> BY <1>1, <4>3
      <4>5. FitInv(l.t, k, k) BY <4>1, <4>3, <4>4 DEF FitInv
      <4>6. BoundsInv(l.t, k, setting.params) BY <4>1, <4>3 DEF BoundsInv
      <4> QED BY <4>5, <4>6 DEF Knows
    <3> HIDE DEF b
    <3> QED BY <2>3, <3>1, <3>2, <3>3, <3>4, <3>5, <1>1, FinishStep
  <2> QED BY <2>1, <2>2, <2>3
<1> QED BY <1>3, <1>4

\* The next key above the last one: the items up to it are counted.
LEMMA BoundaryFound ==
    ASSUME NEW t, t.pass \in Seq(Nat), t.phase.lower \in Int, t.phase.lower >= 0 - 1, Tr!NextKeys(t) # {},
           NEW key, key = Tr!Min(Tr!NextKeys(t))
    PROVE  /\ key \in Nat /\ Tr!KeyCount(t, key) \in Nat /\ UpTo(t.pass, t.phase.lower) \in Nat
           /\ UpTo(t.pass, key) = UpTo(t.pass, t.phase.lower) + Tr!KeyCount(t, key)
<1>1. PICK items, lower : items = t.pass /\ lower = t.phase.lower OBVIOUS
<1>2. items \in Seq(Nat) /\ lower \in Int /\ \A i \in DOMAIN items : items[i] \in Nat BY <1>1
<1>3. Tr!NextKeys(t) = {items[i] : i \in {j \in DOMAIN items : items[j] > lower}} BY <1>1 DEF Tr!NextKeys, Tr!ToSet
<1>4. Tr!NextKeys(t) \in SUBSET Nat BY <1>2, <1>3
<1>5. key \in Tr!NextKeys(t) /\ \A y \in Tr!NextKeys(t) : key <= y BY <1>4, MinIsLeast
<1>6. key \in Nat /\ lower < key /\ \A i \in DOMAIN items : items[i] > lower => key <= items[i] BY <1>2, <1>3, <1>4, <1>5
<1>7. AtMost(items, key) \ AtMost(items, lower) = {i \in DOMAIN items : items[i] = key}
  BY <1>2, <1>6 DEF AtMost
<1>8. /\ UpTo(items, lower) \in Nat /\ UpTo(items, key) \in Nat /\ UpTo(items, lower) <= UpTo(items, key)
      /\ Tr!Cardinality(AtMost(items, key) \ AtMost(items, lower)) = UpTo(items, key) - UpTo(items, lower)
  <2>1. key \in Int /\ lower <= key BY <1>2, <1>6
  <2> QED BY <1>2, <2>1, BelowGrows
<1>9. Tr!KeyCount(t, key) = UpTo(items, key) - UpTo(items, lower) BY <1>1, <1>7, <1>8 DEF Tr!KeyCount
<1>10. PICK x, y : x = UpTo(items, key) /\ y = UpTo(items, lower) OBVIOUS
<1>11. Tr!KeyCount(t, key) \in Nat /\ x = y + Tr!KeyCount(t, key) BY <1>8, <1>9, <1>10
<1> QED BY <1>1, <1>6, <1>8, <1>10, <1>11

LEMMA KeyAppended ==
    ASSUME NEW w \in Seq(Int), NEW key \in Int
    PROVE  /\ Append(w, key) \in Seq(Int) /\ Len(Append(w, key)) = Len(w) + 1 /\ Append(w, key)[Len(w) + 1] = key
           /\ \A c \in 1 .. Len(w) : Append(w, key)[c] = w[c]
OBVIOUS

NextKey(t) == Tr!Min(Tr!NextKeys(t))
KeyFills(t, k) == Tr!KeyCount(t, NextKey(t)) = Tr!ChunkTargets(Len(t.base), k)[Len(t.phase.uppers) + 1] - t.phase.found
NextUppers(t, k) == IF KeyFills(t, k) THEN Append(t.phase.uppers, NextKey(t)) ELSE t.phase.uppers

\* It ends a chunk when it fills the chunk up.
LEMMA BoundaryCuts ==
    ASSUME NEW t, NEW k \in Nat, k >= 1, t.base \in Seq(Nat), t.pass = t.base, Len(t.base) >= k, Searching(t, k), Tr!NextKeys(t) # {}
    PROVE  /\ NextKey(t) \in Nat /\ t.phase.found + Tr!KeyCount(t, NextKey(t)) = UpTo(t.base, NextKey(t))
           /\ NextUppers(t, k) \in Seq(Int) /\ Len(NextUppers(t, k)) \in Nat /\ Len(NextUppers(t, k)) <= k - 1
           /\ \A c \in 1 .. Len(NextUppers(t, k)) : UpTo(t.base, NextUppers(t, k)[c]) = Tr!ChunkTargets(Len(t.base), k)[c]
<1>0. PICK key, count, needed, uppers :
          /\ key = NextKey(t) /\ count = Tr!KeyCount(t, key)
          /\ needed = Tr!ChunkTargets(Len(t.base), k)[Len(t.phase.uppers) + 1] - t.phase.found
          /\ uppers = NextUppers(t, k)
  OBVIOUS
<1>6. uppers = IF count = needed THEN Append(t.phase.uppers, key) ELSE t.phase.uppers BY <1>0 DEF NextUppers, KeyFills
<1>7. key = Tr!Min(Tr!NextKeys(t)) BY <1>0 DEF NextKey
<1>1. PICK items, old, found, n : items = t.base /\ old = t.phase.uppers /\ found = t.phase.found /\ n = Len(t.base) OBVIOUS
<1>2. /\ t.phase.lower \in Int /\ t.phase.lower >= 0 - 1 /\ found = UpTo(items, t.phase.lower)
      /\ old \in Seq(Int) /\ Len(old) < k - 1
      /\ \A c \in 1 .. Len(old) : UpTo(items, old[c]) = Tr!ChunkTargets(n, k)[c]
  BY <1>1 DEF Searching
<1>3. key \in Nat /\ count \in Nat /\ found \in Nat /\ UpTo(items, key) = found + count
  BY <1>0, <1>1, <1>2, <1>7, BoundaryFound
<1>4. CASE count # needed
  <2>1. uppers = old /\ Len(old) \in Nat BY <1>1, <1>2, <1>4, <1>6
  <2>5. old \in Seq(Int) /\ Len(old) \in Nat /\ Len(old) < k - 1 BY <1>2
  <2>6. PICK x : x = Len(old) OBVIOUS
  <2>7. x <= k - 1 BY <2>5, <2>6
  <2>2. uppers \in Seq(Int) /\ Len(uppers) \in Nat /\ Len(uppers) <= k - 1 BY <2>1, <2>5, <2>6, <2>7
  <2>3. \A c \in 1 .. Len(uppers) : UpTo(items, uppers[c]) = Tr!ChunkTargets(n, k)[c] BY <1>2, <2>1
  <2>4. t.phase.found + count = UpTo(t.base, key) BY <1>1, <1>3
  <2> QED BY <1>0, <1>1, <1>3, <2>2, <2>3, <2>4
<1>5. CASE count = needed
  <2>1. PICK j : j = Len(old) + 1 OBVIOUS
  <2>2. j \in 1 .. k - 1 /\ j \in 1 .. k /\ Len(old) \in Nat /\ n \in Nat /\ n >= k
    <3>1. Len(old) \in Nat /\ Len(old) < k - 1 BY <1>2
    <3>2. PICK y : y = Len(old) OBVIOUS
    <3>3. y \in Nat /\ y < k - 1 /\ j = y + 1 BY <2>1, <3>1, <3>2
    <3>4. j \in 1 .. k - 1 /\ j \in 1 .. k BY <3>3
    <3>5. n \in Nat /\ n >= k BY <1>1
    <3> QED BY <3>1, <3>4, <3>5
  <2>3. Tr!ChunkTargets(n, k)[j] \in Nat
    <3>1. Target(n, k, j) \in Nat BY <2>2, TargetsStep
    <3>2. j # 0 /\ j # k BY <2>2
    <3> QED BY <3>1, <3>2 DEF Target
  <2>4. PICK x : x = Tr!ChunkTargets(n, k)[j] OBVIOUS
  <2>5. count = x - found BY <1>0, <1>1, <1>5, <2>1, <2>4
  <2>6. UpTo(items, key) = x BY <1>3, <2>3, <2>4, <2>5
  <2>7. uppers = Append(old, key) BY <1>1, <1>5, <1>6
  <2>8. uppers \in Seq(Int) /\ Len(uppers) = j /\ uppers[j] = key /\ \A c \in 1 .. Len(old) : uppers[c] = old[c]
    <3>1. key \in Int BY <1>3
    <3>2. old \in Seq(Int) BY <1>2
    <3>3. PICK w : w = Append(old, key) OBVIOUS
    <3>4. w \in Seq(Int) /\ Len(w) = Len(old) + 1 /\ w[Len(old) + 1] = key /\ \A c \in 1 .. Len(old) : w[c] = old[c]
      BY <3>1, <3>2, <3>3, KeyAppended, Zenon
    <3>5. uppers = w /\ Len(old) + 1 = j BY <2>1, <2>7, <3>3, Zenon
    <3> QED BY <3>4, <3>5, Zenon
  <2>9. ASSUME NEW c \in 1 .. Len(uppers) PROVE UpTo(items, uppers[c]) = Tr!ChunkTargets(n, k)[c]
    <3>1. CASE c = j BY <2>4, <2>6, <2>8, <3>1
    <3>2. CASE c # j
      <4>1. c \in 1 .. Len(old) BY <2>1, <2>2, <2>8, <3>2
      <4> QED BY <1>2, <2>8, <4>1
    <3> QED BY <3>1, <3>2
  <2>10. Len(uppers) \in Nat /\ Len(uppers) <= k - 1 BY <2>2, <2>8
  <2> QED BY <1>0, <1>1, <1>3, <2>8, <2>9, <2>10
<1> QED BY <1>4, <1>5

LEMMA ChunkingKeeps ==
    ASSUME Tr!TrainersAssumption, TrainerInv, ~handed, setting.algorithm = "chunking",
           NEW l \in Tr!ChunkingFinish(trainer, setting.requested), Tr!Answered("finish_pass", l)
    PROVE  TrainerInv' /\ Tr!ContractStep
<1> DEFINE k == setting.requested
           n == Len(trainer.pass)
<1>1. k \in Nat /\ k >= 1 BY SettingTypes
<1>2. n \in Nat /\ trainer.pass \in Seq(Nat) BY DEF TrainerInv, IsTrainer
<1>3. CASE trainer.state # "Ingesting"
  <2>1. l = Tr!FinishOutOfTurn(trainer) BY <1>3 DEF Tr!ChunkingFinish
  <2> QED BY <1>3, <2>1, FailStep
<1>4. CASE trainer.state = "Ingesting"
  <2>1. ChunkInv(trainer, k, ids) BY <1>4 DEF TrainerInv, Knows, Dead
  <2>2. Tr!NoModel = Tr!NoModel /\ \A u : Tr!ChunkModel(u) # Tr!NoModel BY DEF Tr!ChunkModel, Tr!NoModel
  <2>3. ASSUME NEW ph, NEW model, NEW answer, l = Tr!Completed(trainer, ph, model, answer)
        PROVE  l.t.phase = ph /\ l.t.model = model /\ l.t.base = trainer.pass /\ l.t.state = "PassComplete"
    BY <2>3 DEF Tr!Completed, Tr!Leaves
  <2>4. CASE trainer.phase.at = "AnalyzePca"
    <3>1. l \in Tr!FinishPca(trainer, k) BY <1>4, <2>4 DEF Tr!ChunkingFinish
    <3>2. CASE n = 0 \/ n < k
      <4>1. l = Tr!Fails(trainer) BY <3>1, <3>2 DEF Tr!FinishPca
      <4> QED BY <1>4, <4>1, FailStep
    <3>3. CASE ~(n = 0 \/ n < k)
      <4> DEFINE p == [at |-> "DiscoverBoundaries", found |-> 0, lower |-> 0 - 1, uppers |-> <<>>]
      <4>1. \/ l = Tr!Fails([trainer EXCEPT !.base = trainer.pass])
            \/ k = 1 /\ l = Tr!Completed(trainer, [at |-> "Ready"], Tr!ChunkModel(<<>>), Tr!Ready(n, k))
            \/ k # 1 /\ l = Tr!Completed(trainer, p, Tr!NoModel, Tr!Analysis(n))
        BY <3>1, <3>3 DEF Tr!FinishPca
      <4>2. /\ trainer.base = <<>> /\ trainer.pass # <<>>
            /\ IF trainer.base = <<>> THEN Len(trainer.pass) >= Least ELSE trainer.pass = trainer.base
        BY <1>1, <1>2, <2>1, <2>4, <3>3 DEF ChunkInv, Least
      <4>3. CASE l = Tr!Fails([trainer EXCEPT !.base = trainer.pass]) BY <1>4, <4>3, FailStep
      <4>4. CASE k = 1 /\ l = Tr!Completed(trainer, [at |-> "Ready"], Tr!ChunkModel(<<>>), Tr!Ready(n, k))
        <5>1. Tr!Ready(n, k).is = "ready" /\ Tr!Ready(n, k).clusters = k BY DEF Tr!Ready
        <5>2. ChunkInv(l.t, k, k)
          <6>1. <<>> \in Seq(Int) /\ Len(<<>>) = 0 OBVIOUS
          <6>2. Cuts(trainer.pass, k, <<>>) BY <4>4, <6>1 DEF Cuts
          <6>3. l.t.model = Tr!ChunkModel(<<>>) /\ l.t.base = trainer.pass /\ l.t.phase.at = "Ready" BY <2>3, <4>4
          <6>4. Len(trainer.pass) >= k BY <1>1, <1>2, <3>3
          <6> QED BY <2>2, <4>2, <6>2, <6>3, <6>4 DEF ChunkInv
        <5>3. Knows(l.t, k) BY <5>2 DEF Knows
        <5>4. ids \in {0, k} BY <2>1 DEF ChunkInv
        <5> QED BY <1>1, <1>4, <4>2, <4>4, <5>1, <5>3, <5>4, FinishStep
      <4>5. CASE k # 1 /\ l = Tr!Completed(trainer, p, Tr!NoModel, Tr!Analysis(n))
        <5>1. Tr!Analysis(n).is = "analysis" BY DEF Tr!Analysis
        <5>2. l.t.phase = p /\ l.t.model = Tr!NoModel /\ l.t.base = trainer.pass /\ l.t.state = "PassComplete" BY <2>3, <4>5
        <5>3. ChunkInv(l.t, k, ids)
          <6>1. UpTo(trainer.pass, 0 - 1) = 0
            <7>1. \A i \in DOMAIN trainer.pass : trainer.pass[i] \in Nat BY <1>2
            <7>2. AtMost(trainer.pass, 0 - 1) = {} BY <7>1 DEF AtMost
            <7> QED BY <7>2, FS_EmptySet, TrFinite DEF UpTo
          <6>2. Searching(l.t, k)
            <7>1. <<>> \in Seq(Int) /\ Len(<<>>) = 0 OBVIOUS
            <7>2. p.lower = 0 - 1 /\ p.found = 0 /\ p.uppers = <<>> OBVIOUS
            <7> HIDE DEF p
            <7> QED BY <1>1, <4>5, <5>2, <6>1, <7>1, <7>2 DEF Searching
          <6>3. Len(trainer.pass) >= k BY <1>1, <1>2, <3>3
          <6> QED BY <2>1, <2>4, <4>2, <5>2, <6>2, <6>3 DEF ChunkInv
        <5>4. Knows(l.t, ids) BY <5>3 DEF Knows
        <5> HIDE DEF p
        <5> QED BY <1>1, <1>4, <4>2, <4>5, <5>1, <5>4, FinishStep
      <4> QED BY <4>1, <4>3, <4>4, <4>5
    <3> QED BY <3>2, <3>3
  <2>5. CASE trainer.phase.at = "DiscoverBoundaries"
    <3>1. l = Tr!FinishBoundary(trainer, k) BY <1>4, <2>5 DEF Tr!ChunkingFinish
    <3>2. trainer.base # <<>> BY <2>1, <2>5 DEF ChunkInv
    <3> DEFINE targets == Tr!ChunkTargets(Len(trainer.base), k)
               needed == targets[Len(trainer.phase.uppers) + 1] - trainer.phase.found
               key == Tr!Min(Tr!NextKeys(trainer))
               count == Tr!KeyCount(trainer, key)
               uppers == IF count = needed THEN Append(trainer.phase.uppers, key) ELSE trainer.phase.uppers
               p == [trainer.phase EXCEPT !.found = @ + count, !.lower = key, !.uppers = uppers]
               m == Len(trainer.base)
    <3>3. \/ l = Tr!Fails(trainer)
          \/ Tr!Replays(trainer) /\ Tr!NextKeys(trainer) # {} /\ Len(uppers) = k - 1
             /\ l = Tr!Completed(trainer, [at |-> "Ready", uppers |-> uppers], Tr!ChunkModel(uppers), Tr!Ready(m, k))
          \/ Tr!Replays(trainer) /\ Tr!NextKeys(trainer) # {} /\ Len(uppers) # k - 1
             /\ l = Tr!Completed(trainer, p, Tr!NoModel, Tr!Analysis(m))
      BY <3>1 DEF Tr!FinishBoundary
    <3>4. p.at = "DiscoverBoundaries" /\ p = [at |-> "DiscoverBoundaries", found |-> p.found, lower |-> p.lower, uppers |-> p.uppers]
      <4>1. PICK c, x, u : c = trainer.phase.found + count /\ x = key /\ u = uppers OBVIOUS
      <4>2. p = [trainer.phase EXCEPT !.found = c, !.lower = x, !.uppers = u] BY <4>1
      <4>3. trainer.phase = [at |-> "DiscoverBoundaries", found |-> trainer.phase.found, lower |-> trainer.phase.lower, uppers |-> trainer.phase.uppers]
        BY <2>1, <2>5 DEF ChunkInv
      <4>4. p = [at |-> "DiscoverBoundaries", found |-> c, lower |-> x, uppers |-> u]
        <5>1. PICK h, f, w, v : h = trainer.phase /\ h = [at |-> "DiscoverBoundaries", found |-> f, lower |-> w, uppers |-> v] BY <4>3
        <5>2. [h EXCEPT !.found = c, !.lower = x, !.uppers = u] = [at |-> "DiscoverBoundaries", found |-> c, lower |-> x, uppers |-> u]
          <6>1. PICK h1 : h1 = [h EXCEPT !.found = c] OBVIOUS
          <6>2. h1 = [at |-> "DiscoverBoundaries", found |-> c, lower |-> w, uppers |-> v] BY <5>1, <6>1
          <6>3. PICK h2 : h2 = [h1 EXCEPT !.lower = x] OBVIOUS
          <6>4. h2 = [at |-> "DiscoverBoundaries", found |-> c, lower |-> x, uppers |-> v] BY <6>2, <6>3
          <6>5. [h2 EXCEPT !.uppers = u] = [at |-> "DiscoverBoundaries", found |-> c, lower |-> x, uppers |-> u] BY <6>4
          <6> QED BY <6>1, <6>3, <6>5
        <5> HIDE DEF p, key, count, uppers
        <5> QED BY <4>2, <5>1, <5>2
      <4> HIDE DEF p
      <4> QED BY <4>4
    <3>8. ASSUME Tr!Replays(trainer), Tr!NextKeys(trainer) # {}
          PROVE  /\ key \in Nat /\ trainer.phase.found + count = UpTo(trainer.base, key)
                 /\ uppers \in Seq(Int) /\ Len(uppers) \in Nat /\ Len(uppers) <= k - 1
                 /\ \A c \in 1 .. Len(uppers) : UpTo(trainer.base, uppers[c]) = Tr!ChunkTargets(Len(trainer.base), k)[c]
      <4>1. trainer.pass = trainer.base BY <3>2, <3>8 DEF Tr!Replays
      <4>2. Len(trainer.base) >= k /\ Searching(trainer, k) BY <2>1, <2>5, <3>2 DEF ChunkInv
      <4>3. trainer.base \in Seq(Nat) BY <1>2, <4>1
      <4>4. key = NextKey(trainer) /\ count = Tr!KeyCount(trainer, NextKey(trainer)) /\ uppers = NextUppers(trainer, k)
        BY DEF NextKey, NextUppers, KeyFills
      <4> HIDE DEF key, count, needed, uppers
      <4>6. /\ NextKey(trainer) \in Nat
            /\ trainer.phase.found + Tr!KeyCount(trainer, NextKey(trainer)) = UpTo(trainer.base, NextKey(trainer))
            /\ NextUppers(trainer, k) \in Seq(Int) /\ Len(NextUppers(trainer, k)) \in Nat /\ Len(NextUppers(trainer, k)) <= k - 1
            /\ \A c \in 1 .. Len(NextUppers(trainer, k)) :
                  UpTo(trainer.base, NextUppers(trainer, k)[c]) = Tr!ChunkTargets(Len(trainer.base), k)[c]
        BY <1>1, <3>8, <4>1, <4>2, <4>3, BoundaryCuts
      <4> QED BY <4>4, <4>6
    <3>9. p.found = trainer.phase.found + count /\ p.lower = key /\ p.uppers = uppers
      <4>1. trainer.phase = [at |-> "DiscoverBoundaries", found |-> trainer.phase.found, lower |-> trainer.phase.lower, uppers |-> trainer.phase.uppers]
        BY <2>1, <2>5 DEF ChunkInv
      <4> HIDE DEF key, count, uppers
      <4> QED BY <4>1
    <3>10. m = Len(trainer.base) OBVIOUS
    <3> HIDE DEF p, uppers, m, key, count
    <3>5. CASE l = Tr!Fails(trainer) BY <1>4, <3>5, FailStep
    <3>6. CASE Tr!Replays(trainer) /\ Tr!NextKeys(trainer) # {} /\ Len(uppers) = k - 1
               /\ l = Tr!Completed(trainer, [at |-> "Ready", uppers |-> uppers], Tr!ChunkModel(uppers), Tr!Ready(m, k))
      <4>1. Tr!Ready(m, k).is = "ready" /\ Tr!Ready(m, k).clusters = k BY DEF Tr!Ready
      <4>2. trainer.pass = trainer.base BY <3>2, <3>6 DEF Tr!Replays
      <4>3. l.t.phase = [at |-> "Ready", uppers |-> uppers] /\ l.t.model = Tr!ChunkModel(uppers) /\ l.t.base = trainer.pass /\ l.t.state = "PassComplete"
        BY <2>3, <3>6
      <4>7. Cuts(trainer.base, k, uppers) BY <3>6, <3>8 DEF Cuts
      <4>8. Len(trainer.base) >= k BY <2>1, <3>2 DEF ChunkInv
      <4>4. ChunkInv(l.t, k, k) BY <2>2, <3>2, <4>2, <4>3, <4>7, <4>8 DEF ChunkInv
      <4>5. Knows(l.t, k) BY <4>4 DEF Knows
      <4>6. ids \in {0, k} BY <2>1 DEF ChunkInv
      <4> QED BY <1>1, <1>4, <3>2, <3>6, <4>1, <4>2, <4>5, <4>6, FinishStep
    <3>7. CASE Tr!Replays(trainer) /\ Tr!NextKeys(trainer) # {} /\ Len(uppers) # k - 1
               /\ l = Tr!Completed(trainer, p, Tr!NoModel, Tr!Analysis(m))
      <4>1. Tr!Analysis(m).is = "analysis" BY DEF Tr!Analysis
      <4>2. trainer.pass = trainer.base BY <3>2, <3>7 DEF Tr!Replays
      <4>3. l.t.phase = p /\ l.t.model = Tr!NoModel /\ l.t.base = trainer.pass /\ l.t.state = "PassComplete"
        BY <2>3, <3>7
      <4>6. Searching(l.t, k)
        <5>1. Len(uppers) < k - 1 BY <1>1, <3>7, <3>8
        <5>2. key \in Int /\ key >= 0 - 1 BY <3>7, <3>8
        <5> QED BY <3>7, <3>8, <3>9, <4>2, <4>3, <5>1, <5>2 DEF Searching
      <4>4. ChunkInv(l.t, k, ids) BY <2>1, <2>5, <3>2, <3>4, <4>2, <4>3, <4>6 DEF ChunkInv
      <4>5. Knows(l.t, ids) BY <4>4 DEF Knows
      <4> QED BY <1>1, <1>4, <3>2, <3>7, <4>1, <4>2, <4>5, FinishStep
    <3> QED BY <3>3, <3>5, <3>6, <3>7
  <2>6. CASE trainer.phase.at \notin {"AnalyzePca", "DiscoverBoundaries"}
    <3>1. l = Tr!FinishReady(trainer, k) BY <1>4, <2>6 DEF Tr!ChunkingFinish
    <3>2. trainer.base # <<>> BY <2>1, <2>6 DEF ChunkInv
    <3>3. CASE ~Tr!Replays(trainer)
      <4>1. l = Tr!Fails(trainer) BY <3>1, <3>3 DEF Tr!FinishReady
      <4> QED BY <1>4, <4>1, FailStep
    <3>4. CASE Tr!Replays(trainer)
      <4> DEFINE m == Len(trainer.base)
      <4>1. l = Tr!Completed(trainer, trainer.phase, trainer.model, Tr!Ready(m, k)) BY <3>1, <3>4 DEF Tr!FinishReady
      <4>2. Tr!Ready(m, k).is = "ready" /\ Tr!Ready(m, k).clusters = k BY DEF Tr!Ready
      <4>3. trainer.pass = trainer.base BY <3>2, <3>4 DEF Tr!Replays
      <4>4. ChunkInv(l.t, k, k) BY <2>1, <2>3, <2>6, <3>2, <4>1, <4>3 DEF ChunkInv
      <4>5. Knows(l.t, k) BY <4>4 DEF Knows
      <4>6. ids \in {0, k} BY <2>1 DEF ChunkInv
      <4> HIDE DEF m
      <4> QED BY <1>1, <1>4, <3>2, <4>1, <4>2, <4>3, <4>5, <4>6, FinishStep
    <3> QED BY <3>3, <3>4
  <2> QED BY <2>4, <2>5, <2>6
<1> QED BY <1>3, <1>4


LEMMA LeastType == ASSUME Tr!TrainersAssumption, TrainerInv PROVE Least \in Nat
<1>1. setting.requested \in Nat /\ (setting.algorithm = "directional" => setting.params.min \in Nat) BY SettingTypes
<1>2. ASSUME NEW a \in Nat, NEW b \in Nat PROVE Tr!Max({a, b}) \in Nat
  <2>1. \E x \in {a, b} : \A y \in {a, b} : x >= y OBVIOUS
  <2>2. Tr!Max({a, b}) \in {a, b} BY <2>1 DEF Tr!Max
  <2> QED BY <2>2
<1> QED BY <1>1, <1>2 DEF Least, Tr!LeastInput

\* The cells of a pass, in the order of their keys.
LEMMA CellCount ==
    ASSUME NEW cuts, NEW items \in Seq(Nat)
    PROVE  \E n \in Nat : Tr!CellsOf(cuts, items) \in Seq({Tr!CellOf(cuts, items[i]) : i \in DOMAIN items} \cup {Tr!CellsOf(cuts, items)[i] : i \in 1 .. n})
                          /\ Len(Tr!CellsOf(cuts, items)) = n /\ DOMAIN Tr!CellsOf(cuts, items) = 1 .. n
<1> DEFINE cells == {Tr!CellOf(cuts, items[i]) : i \in DOMAIN items}
           n == Tr!Cardinality(cells)
           keys == Tr!CellsOf(cuts, items)
<1>1. Tr!IsFiniteSet(DOMAIN items)
  <2>1. DOMAIN items = 1 .. Len(items) /\ Len(items) \in Nat OBVIOUS
  <2> QED BY <2>1, FS_Interval, TrFinite
<1>2. Tr!IsFiniteSet(cells)
  <2> DEFINE f == [i \in DOMAIN items |-> Tr!CellOf(cuts, items[i])]
  <2>1. f \in Surjection(DOMAIN items, cells) BY DEF Surjection
  <2> HIDE DEF f, cells
  <2> QED BY <1>1, <2>1, FS_Surjection, TrFinite
<1>3. n \in Nat BY <1>2, FS_CardinalityType, TrFinite
<1>4. DOMAIN keys = 1 .. n /\ keys = [i \in 1 .. n |-> keys[i]]
  <2> DEFINE At(c) == CHOOSE x \in cells : Tr!Cardinality({y \in cells : Tr!KeyBefore(y, x)}) = c - 1
  <2>1. keys = [c \in 1 .. n |-> At(c)] BY DEF Tr!CellsOf
  <2> HIDE DEF keys, At, n, cells
  <2> QED BY <2>1
<1> HIDE DEF n, keys, cells
<1>5. keys \in Seq(cells \cup {keys[i] : i \in 1 .. n}) /\ Len(keys) = n BY <1>3, <1>4
<1> QED BY <1>3, <1>4, <1>5 DEF keys, cells

LEMMA InCellCount ==
    ASSUME NEW cuts, NEW items \in Seq(Nat), NEW cell
    PROVE  Tr!Cardinality(Tr!InCell(cuts, items, cell)) \in Nat
<1>1. DOMAIN items = 1 .. Len(items) /\ Len(items) \in Nat OBVIOUS
<1>2. Tr!IsFiniteSet(DOMAIN items) BY <1>1, FS_Interval, TrFinite
<1>3. Tr!InCell(cuts, items, cell) \in SUBSET DOMAIN items BY DEF Tr!InCell
<1> QED BY <1>2, <1>3, FS_Subset, FS_CardinalityType, TrFinite

LEMMA CountingKeeps ==
    ASSUME Tr!TrainersAssumption, TrainerInv, ~handed, setting.algorithm = "directional", trainer.state = "Ingesting",
           DirectionalInv(trainer, setting.requested, ids), trainer.phase.at = "CountCells",
           NEW l, l = Tr!FinishCounting(trainer, setting.params, setting.requested), Tr!Answered("finish_pass", l)
    PROVE  TrainerInv' /\ Tr!ContractStep
<1> DEFINE k == setting.requested
           cuts == trainer.phase.cuts
           keys == Tr!CellsOf(cuts, trainer.pass)
           count == [c \in DOMAIN keys |-> Tr!Cardinality(Tr!InCell(cuts, trainer.pass, keys[c]))]
           same == [c \in DOMAIN keys |-> Tr!Cardinality({trainer.pass[i] : i \in Tr!InCell(cuts, trainer.pass, keys[c])}) = 1]
           plan == Tr!ReadyPlan(count, same, k)
           p == [at |-> "RealizePartition", cuts |-> cuts, keys |-> keys, plan |-> plan]
           m == Len(trainer.pass)
<1>1. k \in Nat /\ k >= 1 /\ trainer.pass \in Seq(Nat) BY SettingTypes DEF TrainerInv, IsTrainer
<1>2. \/ l = Tr!Fails(trainer)
      \/ /\ Tr!Replays(trainer) /\ keys # <<>> /\ ~Tr!TooManyCells(Len(keys), k)
         /\ l = Tr!Completed(trainer, p, Tr!NoModel, Tr!Ready(m, Tr!Realized(plan)))
  BY DEF Tr!FinishCounting
<1>3. CASE l = Tr!Fails(trainer) BY <1>3, FailStep
<1>4. CASE /\ Tr!Replays(trainer) /\ keys # <<>> /\ ~Tr!TooManyCells(Len(keys), k)
           /\ l = Tr!Completed(trainer, p, Tr!NoModel, Tr!Ready(m, Tr!Realized(plan)))
  <2>1. PICK n \in Nat : DOMAIN keys = 1 .. n /\ Len(keys) = n
                         /\ keys \in Seq({Tr!CellOf(cuts, trainer.pass[i]) : i \in DOMAIN trainer.pass} \cup {keys[i] : i \in 1 .. n})
    BY <1>1, CellCount
  <2>2. n >= 1 /\ n <= k
    <3> HIDE DEF keys
    <3>1. Len(keys) # 0 BY <1>4, <2>1, EmptySeq
    <3> QED BY <1>1, <1>4, <2>1, <3>1 DEF Tr!TooManyCells
  <2>3. count \in [1 .. n -> Nat]
    <3> HIDE DEF keys
    <3>1. \A c \in 1 .. n : Tr!Cardinality(Tr!InCell(cuts, trainer.pass, keys[c])) \in Nat BY <1>1, InCellCount
    <3> QED BY <2>1, <3>1
  <2>4. same \in [1 .. n -> BOOLEAN]
    <3> HIDE DEF keys
    <3> QED BY <2>1
  <2>5. Tr!Realized(plan) \in n .. k
    <3> HIDE DEF count, same
    <3> QED BY <1>1, <2>2, <2>3, <2>4, PlanRealized
  <2> HIDE DEF count, same, plan, keys, m
  <2>6. PICK r : r = Tr!Realized(plan) OBVIOUS
  <2>7. r \in 1 .. k BY <1>1, <2>2, <2>5, <2>6
  <2>8. Tr!Ready(m, r).is = "ready" /\ Tr!Ready(m, r).clusters = r BY DEF Tr!Ready
  <2>9. ids = 0 /\ trainer.base # <<>> BY DEF DirectionalInv
  <2>10. trainer.pass = trainer.base BY <1>4, <2>9 DEF Tr!Replays
  <2>11. l.t.phase = p /\ l.t.model = Tr!NoModel /\ l.t.base = trainer.pass /\ l.t.state = "PassComplete" /\ l.t.pass = <<>>
    BY <1>4 DEF Tr!Completed, Tr!Leaves
  <2>12. p.at = "RealizePartition" /\ p.plan = plan OBVIOUS
  <2> HIDE DEF p
  <2>13. DirectionalInv(l.t, k, r)
    <3>1. DOMAIN l.t.pass = {} BY <2>11
    <3> QED BY <2>6, <2>7, <2>9, <2>10, <2>11, <2>12, <3>1 DEF DirectionalInv
  <2>14. Knows(l.t, r) BY <2>13 DEF Knows
  <2>15. l = Tr!Completed(trainer, p, Tr!NoModel, Tr!Ready(m, r)) BY <1>4, <2>6
  <2> QED BY <2>7, <2>8, <2>9, <2>10, <2>14, <2>15, FinishStep
<1> QED BY <1>2, <1>3, <1>4

LEMMA CutsKeep ==
    ASSUME Tr!TrainersAssumption, TrainerInv, ~handed, setting.algorithm = "directional", trainer.state = "Ingesting",
           DirectionalInv(trainer, setting.requested, ids), trainer.phase.at = "PlanCuts",
           NEW l, l = Tr!FinishCuts(trainer, setting.params, setting.requested), Tr!Answered("finish_pass", l)
    PROVE  TrainerInv' /\ Tr!ContractStep
<1> DEFINE k == setting.requested
           n == Len(trainer.pass)
           cuts == [axis \in Tr!Axes |-> Tr!CutsOf(setting.params, Tr!Along(trainer.pass, axis), trainer.phase.bins[axis])]
           p == IF Tr!PlannersReady(setting.params, trainer.phase) THEN [at |-> "CountCells", cuts |-> cuts]
                ELSE [trainer.phase EXCEPT !.stage = 2]
<1>1. CASE ~Tr!Replays(trainer)
  <2>1. l = Tr!Fails(trainer) BY <1>1 DEF Tr!FinishCuts
  <2> QED BY <2>1, FailStep
<1>2. CASE Tr!Replays(trainer)
  <2>1. l = Tr!Completed(trainer, p, Tr!NoModel, Tr!Analysis(n)) BY <1>2 DEF Tr!FinishCuts
  <2>2. p.at \in {"PlanCuts", "CountCells"} /\ (p.at = "PlanCuts" => p = [at |-> "PlanCuts", bins |-> p.bins, stage |-> p.stage])
    <3>1. PICK h, b, g : h = trainer.phase /\ h = [at |-> "PlanCuts", bins |-> b, stage |-> g] BY DEF DirectionalInv
    <3>2. [h EXCEPT !.stage = 2] = [at |-> "PlanCuts", bins |-> b, stage |-> 2] BY <3>1
    <3>3. CASE Tr!PlannersReady(setting.params, trainer.phase)
      <4> HIDE DEF cuts
      <4>1. p = [at |-> "CountCells", cuts |-> cuts] BY <3>3
      <4> HIDE DEF p
      <4> QED BY <4>1
    <3>4. CASE ~Tr!PlannersReady(setting.params, trainer.phase)
      <4>1. p = [at |-> "PlanCuts", bins |-> b, stage |-> 2] BY <3>1, <3>2, <3>4
      <4> HIDE DEF p
      <4> QED BY <4>1
    <3> QED BY <3>3, <3>4
  <2> HIDE DEF p, n
  <2>3. Tr!Analysis(n).is = "analysis" BY DEF Tr!Analysis
  <2>4. ids = 0 /\ trainer.base # <<>> BY DEF DirectionalInv
  <2>5. trainer.pass = trainer.base BY <1>2, <2>4 DEF Tr!Replays
  <2>6. l.t.phase = p /\ l.t.model = Tr!NoModel /\ l.t.base = trainer.pass /\ l.t.state = "PassComplete" /\ l.t.pass = <<>>
    BY <2>1 DEF Tr!Completed, Tr!Leaves
  <2>7. DirectionalInv(l.t, k, ids) BY <2>2, <2>4, <2>5, <2>6 DEF DirectionalInv
  <2>8. Knows(l.t, ids) BY <2>7 DEF Knows
  <2> QED BY <2>1, <2>3, <2>4, <2>5, <2>8, FinishStep
<1> QED BY <1>1, <1>2

LEMMA AxesKeep ==
    ASSUME Tr!TrainersAssumption, TrainerInv, ~handed, setting.algorithm = "directional", trainer.state = "Ingesting",
           DirectionalInv(trainer, setting.requested, ids), trainer.phase.at = "AnalyzePca",
           NEW l \in Tr!FinishAxes(trainer, setting.params, setting.requested), Tr!Answered("finish_pass", l)
    PROVE  TrainerInv' /\ Tr!ContractStep
<1> DEFINE k == setting.requested
           n == Len(trainer.pass)
<1>1. n \in Nat /\ trainer.pass \in Seq(Nat) BY DEF TrainerInv, IsTrainer
<1>2. Least \in Nat /\ Least = Tr!LeastInput(setting.params, k) BY LeastType DEF Least
<1>3. CASE n = 0 \/ n < Tr!LeastInput(setting.params, k)
  <2>1. l = Tr!Fails(trainer) BY <1>3 DEF Tr!FinishAxes
  <2> QED BY <2>1, FailStep
<1>4. CASE ~(n = 0 \/ n < Tr!LeastInput(setting.params, k))
  <2>1. \/ l = Tr!Fails([trainer EXCEPT !.base = trainer.pass])
        \/ \E bins \in Tr!BinChoices(setting.params, k) :
              l = Tr!Completed(trainer, [at |-> "PlanCuts", bins |-> bins, stage |-> 1], Tr!NoModel, Tr!Analysis(n))
    BY <1>4 DEF Tr!FinishAxes
  <2>2. CASE l = Tr!Fails([trainer EXCEPT !.base = trainer.pass]) BY <1>4, <2>2, FailStep
  <2>3. ASSUME NEW bins, l = Tr!Completed(trainer, [at |-> "PlanCuts", bins |-> bins, stage |-> 1], Tr!NoModel, Tr!Analysis(n))
        PROVE  TrainerInv' /\ Tr!ContractStep
    <3>1. PICK p : p = [at |-> "PlanCuts", bins |-> bins, stage |-> 1] OBVIOUS
    <3>2. Tr!Analysis(n).is = "analysis" BY DEF Tr!Analysis
    <3>3. /\ trainer.pass # <<>> /\ trainer.base = <<>> /\ ids = 0
          /\ Len(trainer.pass) >= Least
      BY <1>1, <1>2, <1>4 DEF DirectionalInv
    <3>4. l.t.phase = p /\ l.t.model = Tr!NoModel /\ l.t.base = trainer.pass /\ l.t.state = "PassComplete"
      BY <2>3, <3>1 DEF Tr!Completed, Tr!Leaves
    <3>5. DirectionalInv(l.t, k, ids) BY <3>1, <3>3, <3>4 DEF DirectionalInv
    <3>6. Knows(l.t, ids) BY <3>5 DEF Knows
    <3>7. l = Tr!Completed(trainer, p, Tr!NoModel, Tr!Analysis(n)) BY <2>3, <3>1
    <3> QED BY <3>2, <3>3, <3>6, <3>7, FinishStep
  <2> QED BY <2>1, <2>2, <2>3
<1> QED BY <1>3, <1>4

LEMMA RealizationKeeps ==
    ASSUME Tr!TrainersAssumption, TrainerInv, ~handed, setting.algorithm = "directional", trainer.state = "Ingesting",
           DirectionalInv(trainer, setting.requested, ids), trainer.phase.at = "RealizePartition",
           NEW l, l = Tr!FinishRealization(trainer, setting.params, setting.requested), Tr!Answered("finish_pass", l)
    PROVE  TrainerInv' /\ Tr!ContractStep
<1> DEFINE k == setting.requested
           clusters == Tr!Clusters(trainer.phase, trainer.pass)
           r == Tr!Realized(trainer.phase.plan)
           m == [of |-> "cells", clusters |-> clusters]
           n == Len(trainer.pass)
<1>1. CASE ~Tr!Replays(trainer) \/ Tr!ToSet(clusters) # 1 .. r
  <2>1. l = Tr!Fails(trainer) BY <1>1 DEF Tr!FinishRealization
  <2> QED BY <2>1, FailStep
<1>2. CASE ~(~Tr!Replays(trainer) \/ Tr!ToSet(clusters) # 1 .. r)
  <2>1. l = Tr!Completed(trainer, trainer.phase, m, Tr!Ready(n, r)) BY <1>2 DEF Tr!FinishRealization
  <2>2. ids = r /\ r \in 1 .. k /\ trainer.base # <<>> BY DEF DirectionalInv
  <2>8. m.clusters = clusters OBVIOUS
  <2>9. Len(clusters) = n
    <3>1. trainer.pass \in Seq(Nat) BY DEF TrainerInv, IsTrainer
    <3>2. DOMAIN clusters = 1 .. n /\ n \in Nat BY <3>1 DEF Tr!Clusters
    <3> HIDE DEF clusters
    <3>3. PICK w : w = clusters OBVIOUS
    <3>4. DOMAIN w = 1 .. n BY <3>2, <3>3
    <3>5. Len(w) = n BY <3>2, <3>4
    <3> QED BY <3>3, <3>5
  <2>10. Tr!ToSet(clusters) = 1 .. r BY <1>2
  <2>11. n = Len(trainer.pass) OBVIOUS
  <2> HIDE DEF m, n, r, clusters
  <2>3. Tr!Ready(n, r).is = "ready" /\ Tr!Ready(n, r).clusters = r BY DEF Tr!Ready
  <2>4. trainer.pass = trainer.base BY <1>2, <2>2 DEF Tr!Replays
  <2>5. l.t.phase = trainer.phase /\ l.t.base = trainer.pass /\ l.t.state = "PassComplete" /\ l.t.pass = <<>>
    BY <2>1 DEF Tr!Completed, Tr!Leaves
  <2>6. DirectionalInv(l.t, k, r)
    <3>1. DOMAIN l.t.pass = {} BY <2>5
    <3>2. l.t.model = m BY <2>1 DEF Tr!Completed, Tr!Leaves
    <3>3. n = Len(l.t.base) BY <2>5, <2>11
    <3> QED BY <2>2, <2>4, <2>5, <2>8, <2>9, <2>10, <3>1, <3>2, <3>3 DEF DirectionalInv, r
  <2>7. Knows(l.t, r) BY <2>6 DEF Knows
  <2> QED BY <2>1, <2>2, <2>3, <2>4, <2>7, FinishStep
<1> QED BY <1>1, <1>2

LEMMA DirectionalKeeps ==
    ASSUME Tr!TrainersAssumption, TrainerInv, ~handed, setting.algorithm = "directional",
           NEW l \in Tr!DirectionalFinish(trainer, setting.params, setting.requested), Tr!Answered("finish_pass", l)
    PROVE  TrainerInv' /\ Tr!ContractStep
<1>1. CASE trainer.state # "Ingesting"
  <2>1. l = Tr!FinishOutOfTurn(trainer) BY <1>1 DEF Tr!DirectionalFinish
  <2> QED BY <1>1, <2>1, FailStep
<1>2. CASE trainer.state = "Ingesting"
  <2>1. DirectionalInv(trainer, setting.requested, ids) BY <1>2 DEF TrainerInv, Knows, Dead
  <2>2. CASE trainer.phase.at = "AnalyzePca"
    <3>1. l \in Tr!FinishAxes(trainer, setting.params, setting.requested) BY <1>2, <2>2 DEF Tr!DirectionalFinish
    <3> QED BY <1>2, <2>1, <2>2, <3>1, AxesKeep
  <2>3. CASE trainer.phase.at = "PlanCuts"
    <3>1. l = Tr!FinishCuts(trainer, setting.params, setting.requested) BY <1>2, <2>3 DEF Tr!DirectionalFinish
    <3> QED BY <1>2, <2>1, <2>3, <3>1, CutsKeep
  <2>4. CASE trainer.phase.at = "CountCells"
    <3>1. l = Tr!FinishCounting(trainer, setting.params, setting.requested) BY <1>2, <2>4 DEF Tr!DirectionalFinish
    <3> QED BY <1>2, <2>1, <2>4, <3>1, CountingKeeps
  <2>5. CASE trainer.phase.at = "RealizePartition"
    <3>1. l = Tr!FinishRealization(trainer, setting.params, setting.requested) BY <1>2, <2>5 DEF Tr!DirectionalFinish
    <3> QED BY <1>2, <2>1, <2>5, <3>1, RealizationKeeps
  <2> QED BY <2>1, <2>2, <2>3, <2>4, <2>5 DEF DirectionalInv
<1> QED BY <1>1, <1>2

-----------------------------------------------------------------------------
\* ingest_batch.

\* Of a batch, the embeddings before one that is refused are taken.
LEMMA GoodPart ==
    ASSUME NEW batch \in Seq(Nat \cup {Tr!Bad})
    PROVE  /\ ~Tr!HasBad(batch) => batch \in Seq(Nat)
           /\ Tr!HasBad(batch) => SubSeq(batch, 1, Tr!BeforeBad(batch) - 1) \in Seq(Nat)
<1>1. Len(batch) \in Nat /\ DOMAIN batch = 1 .. Len(batch) /\ \A i \in 1 .. Len(batch) : batch[i] \in Nat \/ batch[i] = Tr!Bad
  OBVIOUS
<1>2. CASE ~Tr!HasBad(batch)
  <2>1. \A i \in 1 .. Len(batch) : batch[i] # Tr!Bad BY <1>1, <1>2 DEF Tr!HasBad, Tr!ToSet
  <2>2. \A i \in 1 .. Len(batch) : batch[i] \in Nat BY <1>1, <2>1
  <2>3. batch \in [1 .. Len(batch) -> Nat] BY <2>2
  <2> QED BY <1>1, <1>2, <2>3
<1>3. CASE Tr!HasBad(batch)
  <2> DEFINE I == {i \in 1 .. Len(batch) : batch[i] = Tr!Bad}
  <2>1. PICK i \in 1 .. Len(batch) : batch[i] = Tr!Bad BY <1>1, <1>3 DEF Tr!HasBad, Tr!ToSet
  <2>2. I # {} /\ I \in SUBSET Nat BY <2>1
  <2>3. Tr!BeforeBad(batch) = Tr!Min(I) BY <2>2 DEF Tr!BeforeBad, Tr!SelectInSeq
  <2>4. Tr!Min(I) \in I /\ \A y \in I : Tr!Min(I) <= y
    <3> HIDE DEF I
    <3> QED BY <2>2, MinIsLeast
  <2>5. PICK m : m = Tr!BeforeBad(batch) OBVIOUS
  <2>6. m \in 1 .. Len(batch) /\ \A j \in 1 .. m - 1 : batch[j] \in Nat
    <3>1. m \in I /\ \A y \in I : m <= y BY <2>3, <2>4, <2>5
    <3>2. m \in 1 .. Len(batch) BY <3>1
    <3>3. ASSUME NEW j \in 1 .. m - 1 PROVE batch[j] \in Nat
      <4>1. j \in 1 .. Len(batch) /\ j < m BY <1>1, <3>2
      <4>2. j \notin I BY <3>1, <3>2, <4>1
      <4> QED BY <1>1, <4>1, <4>2
    <3> QED BY <3>2, <3>3
  <2>7. m - 1 \in Int /\ 1 \in Int BY <2>6
  <2>8. SubSeq(batch, 1, m - 1) \in Seq(Nat) BY <2>6, <2>7, SubSeqProperties
  <2> QED BY <1>3, <2>5, <2>8
<1> QED BY <1>2, <1>3

LEMMA PrefixOf ==
    ASSUME NEW s \in Seq(Nat), NEW q \in Seq(Nat), Len(s) <= Len(q), \A i \in 1 .. Len(s) : s[i] = q[i]
    PROVE  Tr!IsPrefix(s, q)
<1> DEFINE n == Len(s)
<1>1. n \in Nat /\ Len(q) \in Nat OBVIOUS
<1>2. \A i \in 1 .. n : s[i] \in Int /\ q[i] \in Int OBVIOUS
<1>3. /\ SubSeq(s, 1, n) \in Seq(Nat) /\ Len(SubSeq(s, 1, n)) = n
      /\ \A i \in 1 .. n : SubSeq(s, 1, n)[i] = s[i]
  OBVIOUS
<1>4. /\ SubSeq(q, 1, n) \in Seq(Nat) /\ Len(SubSeq(q, 1, n)) = n
      /\ \A i \in 1 .. n : SubSeq(q, 1, n)[i] = q[i]
  OBVIOUS
<1>5. SubSeq(s, 1, n) = SubSeq(q, 1, n)
  <2>1. PICK x, y : x = SubSeq(s, 1, n) /\ y = SubSeq(q, 1, n) OBVIOUS
  <2>2. x \in Seq(Nat) /\ y \in Seq(Nat) /\ Len(x) = n /\ Len(y) = n /\ \A i \in 1 .. n : x[i] = y[i]
    BY <1>3, <1>4, <2>1
  <2>3. x = y BY <2>2, SeqEqual
  <2> QED BY <2>1, <2>3
<1> QED BY <1>5 DEF Tr!IsPrefix

\* The cluster of an item depends on nothing that comes after it.
LEMMA ClustersPrefix ==
    ASSUME NEW ph, NEW s \in Seq(Nat), NEW q \in Seq(Nat), Len(s) <= Len(q), \A i \in 1 .. Len(s) : s[i] = q[i],
           NEW i \in 1 .. Len(s)
    PROVE  Tr!Clusters(ph, q)[i] = Tr!Clusters(ph, s)[i]
<1>1. i \in DOMAIN s /\ i \in DOMAIN q /\ s[i] = q[i] OBVIOUS
<1> DEFINE cell == Tr!CellOf(ph.cuts, s[i])
           In(r) == {j \in 1 .. i - 1 : Tr!CellOf(ph.cuts, r[j]) = cell}
<1>2. \A j \in 1 .. i - 1 : s[j] = q[j]
  <2>1. Len(s) \in Nat /\ \A j \in 1 .. i - 1 : j \in 1 .. Len(s) OBVIOUS
  <2> QED BY <2>1
<1>3. In(s) = In(q)
  <2> HIDE DEF cell
  <2> QED BY <1>2
<1>4. Tr!Clusters(ph, s)[i] = Tr!ClusterIn(ph, cell, Tr!Cardinality(In(s))) BY <1>1 DEF Tr!Clusters
<1>5. Tr!Clusters(ph, q)[i] = Tr!ClusterIn(ph, cell, Tr!Cardinality(In(q))) BY <1>1 DEF Tr!Clusters
<1> QED BY <1>3, <1>4, <1>5

\* A trainer with a longer pass.
LEMMA Taken ==
    ASSUME NEW t, IsTrainer(t), NEW q, NEW s
    PROVE  /\ [t EXCEPT !.state = s] = [state |-> s, phase |-> t.phase, pass |-> t.pass, base |-> t.base, model |-> t.model]
           /\ [t EXCEPT !.state = s, !.pass = q] = [state |-> s, phase |-> t.phase, pass |-> q, base |-> t.base, model |-> t.model]
<1>1. PICK a, p, r, b, m : t = [state |-> a, phase |-> p, pass |-> r, base |-> b, model |-> m] BY DEF IsTrainer
<1>2. PICK e : e = [t EXCEPT !.state = s] OBVIOUS
<1>3. e = [state |-> s, phase |-> p, pass |-> r, base |-> b, model |-> m] BY <1>1, <1>2
<1>4. [e EXCEPT !.pass = q] = [state |-> s, phase |-> p, pass |-> q, base |-> b, model |-> m] BY <1>3
<1>5. t.phase = p /\ t.pass = r /\ t.base = b /\ t.model = m BY <1>1
<1> QED BY <1>2, <1>3, <1>4, <1>5

LEMMA WholeKeeps ==
    ASSUME Tr!TrainersAssumption, TrainerInv, ~handed, NEW batch \in Batches,
           NEW l, l = Tr!IngestWhole(trainer, batch), Tr!Answered("ingest_batch", l),
           setting.algorithm = "directional" /\ Tr!Usable(trainer) /\ ~Tr!HasBad(batch) /\ trainer.phase.at = "RealizePartition" =>
               \A i \in DOMAIN (trainer.pass \o batch) : Tr!Clusters(trainer.phase, trainer.pass \o batch)[i] # 0
    PROVE  TrainerInv' /\ Tr!ContractStep
<1>1. batch \in Seq(Nat \cup {Tr!Bad}) /\ IsTrainer(trainer) /\ trainer.pass \in Seq(Nat) BY DEF Tr!TrainersAssumption, TrainerInv, IsTrainer
<1>2. CASE ~Tr!Usable(trainer)
  <2>1. l = Tr!InvalidTransition(trainer) BY <1>2 DEF Tr!IngestWhole
  <2> QED BY <1>2, <2>1, InvalidStep
<1>3. CASE Tr!Usable(trainer) /\ Tr!HasBad(batch)
  <2>1. l.t = [trainer EXCEPT !.state = "Ingesting"] /\ l.answer.is \in {"ok", "malformed"} BY <1>3 DEF Tr!IngestWhole, Tr!Leaves, Tr!Answer
  <2>2. l.t = [state |-> "Ingesting", phase |-> trainer.phase, pass |-> trainer.pass, base |-> trainer.base, model |-> trainer.model]
    BY <1>1, <2>1, Taken
  <2>3. Tr!IsPrefix(trainer.pass, trainer.pass) BY <1>1, PrefixOf
  <2>4. setting.algorithm = "directional" /\ trainer.phase.at = "RealizePartition" =>
            \A i \in DOMAIN trainer.pass : Tr!Clusters(trainer.phase, trainer.pass)[i] # 0
    BY <1>3 DEF TrainerInv, Knows, Dead, Tr!Usable, DirectionalInv
  <2> QED BY <1>1, <1>3, <2>1, <2>2, <2>3, <2>4, IngestStep
<1>4. CASE Tr!Usable(trainer) /\ ~Tr!HasBad(batch)
  <2>1. PICK q : q = trainer.pass \o batch OBVIOUS
  <2>2. l.t = [trainer EXCEPT !.state = "Ingesting", !.pass = q] /\ l.answer.is \in {"ok", "malformed"}
    BY <1>4, <2>1 DEF Tr!IngestWhole, Tr!Leaves, Tr!Answer
  <2>3. l.t = [state |-> "Ingesting", phase |-> trainer.phase, pass |-> q, base |-> trainer.base, model |-> trainer.model]
    <3>1. [trainer EXCEPT !.state = "Ingesting", !.pass = q]
              = [state |-> "Ingesting", phase |-> trainer.phase, pass |-> q, base |-> trainer.base, model |-> trainer.model]
      BY <1>1, Taken
    <3> QED BY <2>2, <3>1
  <2>4. q \in Seq(Nat) /\ Len(trainer.pass) <= Len(q) /\ \A i \in 1 .. Len(trainer.pass) : trainer.pass[i] = q[i]
    <3>1. batch \in Seq(Nat) BY <1>1, <1>4, GoodPart
    <3> QED BY <1>1, <2>1, <3>1, ConcatProperties
  <2>5. Tr!IsPrefix(trainer.pass, q) BY <1>1, <2>4, PrefixOf
  <2> QED BY <1>4, <2>1, <2>2, <2>3, <2>4, <2>5, IngestStep
<1> QED BY <1>2, <1>3, <1>4

LEMMA EachKeeps ==
    ASSUME Tr!TrainersAssumption, TrainerInv, ~handed, NEW batch \in Batches, setting.algorithm # "directional",
           NEW l, l = Tr!IngestEach(trainer, batch), Tr!Answered("ingest_batch", l)
    PROVE  TrainerInv' /\ Tr!ContractStep
<1>1. batch \in Seq(Nat \cup {Tr!Bad}) /\ IsTrainer(trainer) /\ trainer.pass \in Seq(Nat) BY DEF Tr!TrainersAssumption, TrainerInv, IsTrainer
<1>2. CASE ~Tr!Usable(trainer)
  <2>1. l = Tr!InvalidTransition(trainer) BY <1>2 DEF Tr!IngestEach
  <2> QED BY <1>2, <2>1, InvalidStep
<1>3. CASE Tr!Usable(trainer) /\ ~Tr!HasBad(batch)
  <2>1. l = Tr!IngestWhole(trainer, batch) BY <1>3 DEF Tr!IngestEach, Tr!IngestWhole
  <2> QED BY <2>1, WholeKeeps
<1>4. CASE Tr!Usable(trainer) /\ Tr!HasBad(batch)
  <2>1. PICK taken : taken = SubSeq(batch, 1, Tr!BeforeBad(batch) - 1) OBVIOUS
  <2>2. taken \in Seq(Nat) BY <1>1, <1>4, <2>1, GoodPart
  <2>3. PICK q : q = trainer.pass \o taken OBVIOUS
  <2>4. l.t = [trainer EXCEPT !.state = "Ingesting", !.pass = q] /\ l.answer.is \in {"ok", "malformed"}
    BY <1>4, <2>1, <2>3 DEF Tr!IngestEach, Tr!Leaves, Tr!Answer
  <2>5. l.t = [state |-> "Ingesting", phase |-> trainer.phase, pass |-> q, base |-> trainer.base, model |-> trainer.model]
    <3>1. [trainer EXCEPT !.state = "Ingesting", !.pass = q]
              = [state |-> "Ingesting", phase |-> trainer.phase, pass |-> q, base |-> trainer.base, model |-> trainer.model]
      BY <1>1, Taken
    <3> QED BY <2>4, <3>1
  <2>6. q \in Seq(Nat) /\ Len(trainer.pass) <= Len(q) /\ \A i \in 1 .. Len(trainer.pass) : trainer.pass[i] = q[i]
    BY <1>1, <2>2, <2>3, ConcatProperties
  <2>7. Tr!IsPrefix(trainer.pass, q) BY <1>1, <2>6, PrefixOf
  <2> QED BY <1>4, <2>4, <2>5, <2>6, <2>7, IngestStep
<1> QED BY <1>2, <1>3, <1>4

LEMMA RealizingKeeps ==
    ASSUME Tr!TrainersAssumption, TrainerInv, ~handed, NEW batch \in Batches, setting.algorithm = "directional",
           NEW l, l = Tr!DirectionalIngest(trainer, batch), Tr!Answered("ingest_batch", l)
    PROVE  TrainerInv' /\ Tr!ContractStep
<1> DEFINE items == trainer.pass \o batch
           clusters == Tr!Clusters(trainer.phase, items)
           lost == {i \in DOMAIN items : clusters[i] = 0}
           beyond == {i \in DOMAIN items : clusters[i] > Tr!Realized(trainer.phase.plan)}
<1>1. batch \in Seq(Nat \cup {Tr!Bad}) /\ IsTrainer(trainer) /\ trainer.pass \in Seq(Nat) BY DEF Tr!TrainersAssumption, TrainerInv, IsTrainer
<1>3. CASE ~Tr!Usable(trainer) \/ Tr!HasBad(batch) \/ trainer.phase.at # "RealizePartition"
  <2>1. l = Tr!IngestWhole(trainer, batch) BY <1>3 DEF Tr!DirectionalIngest
  <2> QED BY <1>3, <2>1, WholeKeeps
<1>4. CASE Tr!Usable(trainer) /\ ~Tr!HasBad(batch) /\ trainer.phase.at = "RealizePartition"
  <2>4. /\ items \in Seq(Nat) /\ Len(trainer.pass) <= Len(items) /\ \A i \in 1 .. Len(trainer.pass) : trainer.pass[i] = items[i]
        /\ DOMAIN items = 1 .. Len(items)
    <3>1. batch \in Seq(Nat) BY <1>1, <1>4, GoodPart
    <3> QED BY <1>1, <3>1, ConcatProperties
  <2>1. CASE lost \cup beyond = {}
    <3>1. l = Tr!IngestWhole(trainer, batch) BY <1>4, <2>1 DEF Tr!DirectionalIngest
    <3>2. \A i \in DOMAIN items : clusters[i] # 0 BY <2>1
    <3> QED BY <3>1, <3>2, WholeKeeps
  <2>2. CASE lost \cup beyond # {} /\ Tr!Min(lost \cup beyond) \in beyond
    <3>1. l.t = [trainer EXCEPT !.state = "Panicked"] /\ l.answer.is = "panic"
      BY <1>4, <2>2 DEF Tr!DirectionalIngest, Tr!Leaves, Tr!Answer
    <3>2. l.t = [state |-> "Panicked", phase |-> trainer.phase, pass |-> trainer.pass, base |-> trainer.base, model |-> trainer.model]
      BY <1>1, <3>1, Taken
    <3>3. IsTrainer(l.t) /\ Dead(l.t) BY <1>1, <3>2 DEF IsTrainer, Dead, TrainerStates
    <3> QED BY <1>4, <3>1, <3>3, DeadStep
  <2>3. CASE lost \cup beyond # {} /\ Tr!Min(lost \cup beyond) \notin beyond
    <3>1. lost \cup beyond \in SUBSET Nat /\ lost \in SUBSET Nat /\ lost \subseteq 1 .. Len(items)
      <4>1. DOMAIN items \in SUBSET Nat BY <2>4
      <4> HIDE DEF items, clusters
      <4> QED BY <2>4, <4>1
    <3>2. Tr!Min(lost \cup beyond) \in lost
      <4> HIDE DEF lost, beyond
      <4> QED BY <2>3, <3>1, MinIsLeast
    <3>3. PICK m : m = Tr!Min(lost) OBVIOUS
    <3>4. m \in lost /\ \A i \in lost : m <= i
      <4> HIDE DEF lost, beyond
      <4> QED BY <3>1, <3>2, <3>3, MinIsLeast
    <3>5. m \in 1 .. Len(items) /\ clusters[m] = 0 BY <2>4, <3>4
    <3>6. PICK q : q = SubSeq(items, 1, m - 1) OBVIOUS
    <3>7. q \in Seq(Nat) /\ Len(q) = m - 1 /\ Len(q) <= Len(items) /\ \A i \in 1 .. Len(q) : q[i] = items[i]
      <4> HIDE DEF items, clusters, lost, beyond
      <4>1. m - 1 \in Int /\ Len(items) \in Nat /\ \A i \in 1 .. m - 1 : items[i] \in Nat BY <2>4, <3>5
      <4>2. /\ q \in Seq(Nat) /\ Len(q) = IF 1 <= m - 1 THEN (m - 1) - 1 + 1 ELSE 0
            /\ \A i \in 1 .. (m - 1) - 1 + 1 : q[i] = items[1 + i - 1]
        BY <3>6, <4>1, SubSeqProperties
      <4> QED BY <3>5, <4>1, <4>2
    <3>8. m > Len(trainer.pass)
      <4> SUFFICES ASSUME m <= Len(trainer.pass) PROVE FALSE
        <5> HIDE DEF items, clusters, lost, beyond
        <5> QED BY <1>1, <3>5
      <4>1. m \in 1 .. Len(trainer.pass) /\ m \in DOMAIN trainer.pass BY <1>1, <3>5
      <4>2. clusters[m] = Tr!Clusters(trainer.phase, trainer.pass)[m]
        <5> HIDE DEF items
        <5> QED BY <1>1, <2>4, <4>1, ClustersPrefix
      <4>3. Tr!Clusters(trainer.phase, trainer.pass)[m] # 0
        BY <1>4, <4>1 DEF TrainerInv, Knows, Dead, Tr!Usable, DirectionalInv
      <4> QED BY <3>5, <4>2, <4>3
    <3>9. Len(trainer.pass) <= Len(q) /\ \A i \in 1 .. Len(trainer.pass) : trainer.pass[i] = q[i]
      <4> HIDE DEF items, clusters, lost, beyond
      <4>1. Len(trainer.pass) \in Nat /\ Len(q) \in Nat /\ m \in Nat BY <1>1, <3>5, <3>7
      <4>2. Len(trainer.pass) <= Len(q) BY <3>7, <3>8, <4>1
      <4>3. ASSUME NEW i \in 1 .. Len(trainer.pass) PROVE trainer.pass[i] = q[i]
        <5>1. i \in 1 .. Len(q) BY <4>1, <4>2
        <5>2. q[i] = items[i] BY <3>7, <5>1
        <5> QED BY <1>1, <2>4, <5>2
      <4> QED BY <4>2, <4>3
    <3>10. Tr!IsPrefix(trainer.pass, q) BY <1>1, <3>7, <3>9, PrefixOf
    <3>11. ASSUME NEW i \in DOMAIN q PROVE Tr!Clusters(trainer.phase, q)[i] # 0
      <4>1. i \in 1 .. Len(q) /\ i \in DOMAIN items /\ i < m
        <5> HIDE DEF items, clusters, lost, beyond
        <5> QED BY <2>4, <3>5, <3>7
      <4>2. clusters[i] # 0
        <5>1. i \notin lost
          <6> HIDE DEF items, clusters, lost, beyond
          <6> QED BY <3>1, <3>4, <3>5, <4>1
        <5> QED BY <4>1, <5>1
      <4>3. clusters[i] = Tr!Clusters(trainer.phase, q)[i]
        <5> HIDE DEF items
        <5> QED BY <2>4, <3>7, <4>1, ClustersPrefix
      <4> QED BY <4>2, <4>3
    <3>12. l.t = [trainer EXCEPT !.state = "Ingesting", !.pass = q] /\ l.answer.is \in {"ok", "malformed"}
      BY <1>4, <2>3, <3>3, <3>6 DEF Tr!DirectionalIngest, Tr!Leaves, Tr!Answer
    <3>13. l.t = [state |-> "Ingesting", phase |-> trainer.phase, pass |-> q, base |-> trainer.base, model |-> trainer.model]
      BY <1>1, <3>12, Taken
    <3> QED BY <1>4, <3>7, <3>10, <3>11, <3>12, <3>13, IngestStep
  <2> QED BY <2>1, <2>2, <2>3
<1> QED BY <1>3, <1>4

LEMMA BatchKeeps ==
    ASSUME Tr!TrainersAssumption, TrainerInv, NEW batch \in Batches, Tr!IngestBatch(batch)
    PROVE  TrainerInv' /\ Tr!ContractStep
<1>1. ~handed BY DEF Tr!IngestBatch
<1>2. CASE setting.algorithm \in {"kmeans", "chunking"} /\ Tr!Answered("ingest_batch", Tr!IngestEach(trainer, batch))
  BY <1>1, <1>2, EachKeeps
<1>3. CASE setting.algorithm = "dcbc" /\ Tr!Answered("ingest_batch", Tr!IngestWhole(trainer, batch))
  BY <1>1, <1>3, WholeKeeps
<1>4. CASE setting.algorithm = "directional" /\ Tr!Answered("ingest_batch", Tr!DirectionalIngest(trainer, batch))
  BY <1>1, <1>4, RealizingKeeps
<1> QED BY <1>2, <1>3, <1>4 DEF Tr!IngestBatch

LEMMA PassKeeps ==
    ASSUME Tr!TrainersAssumption, TrainerInv, Tr!FinishPass
    PROVE  TrainerInv' /\ Tr!ContractStep
<1>1. ~handed BY DEF Tr!FinishPass
<1>2. CASE setting.algorithm = "kmeans" /\ \E l \in Tr!KmeansFinish(trainer, setting.requested) : Tr!Answered("finish_pass", l)
  BY <1>1, <1>2, KmeansKeeps
<1>3. CASE setting.algorithm = "chunking" /\ \E l \in Tr!ChunkingFinish(trainer, setting.requested) : Tr!Answered("finish_pass", l)
  BY <1>1, <1>3, ChunkingKeeps
<1>4. CASE /\ setting.algorithm = "dcbc"
           /\ \E l \in Tr!DcbcFinish(trainer, setting.requested, setting.params.lower, setting.params.upper) : Tr!Answered("finish_pass", l)
  BY <1>1, <1>4, DcbcKeeps
<1>5. CASE /\ setting.algorithm = "directional"
           /\ \E l \in Tr!DirectionalFinish(trainer, setting.params, setting.requested) : Tr!Answered("finish_pass", l)
  BY <1>1, <1>5, DirectionalKeeps
<1> QED BY <1>2, <1>3, <1>4, <1>5 DEF Tr!FinishPass

\* complete_training.
LEMMA CompleteKeeps ==
    ASSUME Tr!TrainersAssumption, TrainerInv, Tr!CompleteTraining
    PROVE  TrainerInv' /\ Tr!ContractStep
<1>1. ~handed /\ setting.requested >= 1 /\ setting.requested \in Nat BY SettingTypes DEF Tr!CompleteTraining
<1>2. ASSUME NEW l, l = Tr!CompleteAny(trainer), Tr!Answered("complete_training", l), trainer.state = "PassComplete" => ids # 0
      PROVE  TrainerInv' /\ Tr!ContractStep
  <2>1. CASE trainer.state = "PassComplete" BY <1>2, <2>1, CompleteStep
  <2>2. CASE trainer.state # "PassComplete"
    <3>1. l = Tr!InvalidTransition(trainer) BY <1>2, <2>2 DEF Tr!CompleteAny
    <3> QED BY <1>1, <1>2, <2>2, <3>1, InvalidStep
  <2> QED BY <2>1, <2>2
<1>3. CASE setting.algorithm \in {"kmeans", "dcbc"} /\ Tr!Answered("complete_training", Tr!CompleteAny(trainer))
  <2>1. trainer.state = "PassComplete" => ids # 0 BY <1>1, <1>3 DEF TrainerInv, Knows, FitInv, Dead
  <2> QED BY <1>2, <1>3, <2>1
<1>4. CASE setting.algorithm = "chunking" /\ Tr!Answered("complete_training", Tr!ChunkingComplete(trainer))
  <2>1. CASE trainer.model = Tr!NoModel
    <3>1. Tr!ChunkingComplete(trainer) = Tr!InvalidTransition(trainer) BY <2>1 DEF Tr!ChunkingComplete
    <3>2. trainer.state # "PassComplete" \/ ids = 0 BY <1>4, <2>1 DEF TrainerInv, Knows, ChunkInv, Dead
    <3> QED BY <1>1, <1>4, <3>1, <3>2, InvalidStep
  <2>2. CASE trainer.model # Tr!NoModel
    <3>1. Tr!ChunkingComplete(trainer) = Tr!CompleteAny(trainer) BY <2>2 DEF Tr!ChunkingComplete
    <3>2. trainer.state = "PassComplete" => ids # 0 BY <1>1, <1>4, <2>2 DEF TrainerInv, Knows, ChunkInv, Dead
    <3> QED BY <1>2, <1>4, <3>1, <3>2
  <2> QED BY <2>1, <2>2
<1>5. CASE setting.algorithm = "directional" /\ Tr!Answered("complete_training", Tr!DirectionalComplete(trainer))
  <2>1. CASE trainer.state = "PassComplete" /\ trainer.model = Tr!NoModel
    <3>1. Tr!DirectionalComplete(trainer) = Tr!Leaves(trainer, Tr!Answer("invalid")) BY <2>1 DEF Tr!DirectionalComplete
    <3>2. /\ trainer' = trainer /\ ids' = ids /\ setting' = setting /\ handed' = handed
          /\ last' = [call |-> "complete_training", answer |-> "invalid"]
      BY <1>5, <3>1 DEF Tr!Answered, Tr!Leaves, Tr!Answer
    <3>3. TrainerInv' BY <3>2 DEF TrainerInv, Knows
    <3>4. ~Tr!Stopped /\ ~Tr!Stopped' BY <2>1, <3>2 DEF Tr!Stopped
    <3>5. Tr!Contract!NotReady
      BY <1>5, <2>1, <3>2, <3>4 DEF Tr!Contract!NotReady, Tr!Contract!Call, Tr!Contract!config
    <3> QED BY <3>3, <3>5 DEF Tr!ContractStep, Tr!Contract!Next
  <2>2. CASE ~(trainer.state = "PassComplete" /\ trainer.model = Tr!NoModel)
    <3>1. Tr!DirectionalComplete(trainer) = Tr!CompleteAny(trainer) BY <2>2 DEF Tr!DirectionalComplete
    <3>2. trainer.state = "PassComplete" => ids # 0 BY <1>1, <1>5, <2>2 DEF TrainerInv, Knows, DirectionalInv, Dead
    <3> QED BY <1>2, <1>5, <3>1, <3>2
  <2> QED BY <2>1, <2>2
<1> QED BY <1>3, <1>4, <1>5 DEF Tr!CompleteTraining

LEMMA HandingKeeps ==
    ASSUME Tr!TrainersAssumption, TrainerInv, Tr!IntoClassifier
    PROVE  TrainerInv' /\ Tr!ContractStep
<1>1. /\ trainer' = trainer /\ ids' = ids /\ setting' = setting /\ handed' = TRUE /\ trainer.state = "TrainingComplete"
      /\ last' = [call |-> "into_classifier", answer |-> "ok"]
  BY DEF Tr!IntoClassifier, Tr!Classifies
<1>2. TrainerInv'
  <2>1. Tr!Classifies(trainer) BY DEF Tr!IntoClassifier
  <2> QED BY <1>1, <2>1 DEF TrainerInv, Knows
<1>3. ~Tr!Stopped /\ ~Tr!Stopped' BY <1>1 DEF Tr!Stopped
<1>4. Tr!Contract!IntoClassifier BY <1>1, <1>3 DEF Tr!Contract!IntoClassifier, Tr!Contract!Call, Tr!Contract!config
<1> QED BY <1>2, <1>4 DEF Tr!ContractStep, Tr!Contract!Next

LEMMA TrainerStarts ==
    ASSUME Tr!TrainersAssumption, Tr!Init
    PROVE  TrainerInv /\ Tr!Contract!Init
<1>1. /\ trainer = Tr!NewTrainer /\ ids = 0 /\ handed = FALSE /\ setting \in Settings
      /\ last = [call |-> "new", answer |-> "ok"]
  BY DEF Tr!Init
<1>2. setting.requested \in Nat \ {0} BY <1>1 DEF Tr!TrainersAssumption
<1>3. <<>> \in Seq(Nat) /\ DOMAIN <<>> = {} OBVIOUS
<1>4. IsTrainer(trainer) /\ trainer.state = "Idle" /\ trainer.phase.at = "AnalyzePca" /\ trainer.pass = <<>> /\ trainer.base = <<>>
      /\ trainer.model = Tr!NoModel
  BY <1>1, <1>3 DEF Tr!NewTrainer, IsTrainer, TrainerStates
<1>5. Knows(trainer, ids)
  <2>1. trainer.phase.at # "DiscoverBoundaries" /\ trainer.state # "PassComplete" /\ trainer.state # "TrainingComplete" BY <1>4
  <2>2. FitInv(trainer, setting.requested, ids) BY <1>1, <1>4, <2>1 DEF FitInv
  <2>3. BoundsInv(trainer, setting.requested, setting.params) BY <1>4, <2>1 DEF BoundsInv
  <2>4. ChunkInv(trainer, setting.requested, ids) BY <1>1, <1>4, <2>1 DEF ChunkInv
  <2>5. DirectionalInv(trainer, setting.requested, ids) BY <1>1, <1>4 DEF DirectionalInv
  <2> QED BY <2>2, <2>3, <2>4, <2>5 DEF Knows
<1>6. TrainerInv
  <2>1. PICK k : k = setting.requested OBVIOUS
  <2>2. 0 \in 0 .. k BY <1>2, <2>1
  <2>3. handed \in BOOLEAN BY <1>1
  <2> QED BY <1>1, <1>4, <1>5, <2>1, <2>2, <2>3 DEF TrainerInv
<1>7. Least \in Nat BY <1>6, LeastType
<1>8. ~Tr!Stopped BY <1>4 DEF Tr!Stopped
<1> QED BY <1>1, <1>2, <1>4, <1>6, <1>7, <1>8 DEF Tr!Contract!Init, Tr!Contract!Call, Least

LEMMA TrainerStep ==
    ASSUME Tr!TrainersAssumption, TrainerInv, [Tr!Next]_(Tr!vars)
    PROVE  TrainerInv' /\ Tr!ContractStep
<1>1. CASE \E batch \in Batches : Tr!IngestBatch(batch) BY <1>1, BatchKeeps
<1>2. CASE Tr!FinishPass BY <1>2, PassKeeps
<1>3. CASE Tr!CompleteTraining BY <1>3, CompleteKeeps
<1>4. CASE Tr!IntoClassifier BY <1>4, HandingKeeps
<1>5. CASE UNCHANGED Tr!vars
  <2>1. trainer' = trainer /\ ids' = ids /\ setting' = setting /\ handed' = handed /\ last' = last BY <1>5 DEF Tr!vars
  <2>2. TrainerInv' BY <2>1 DEF TrainerInv, Knows
  <2>3. UNCHANGED Tr!Contract!vars BY <2>1 DEF Tr!Contract!vars, Tr!Contract!config, Tr!Stopped
  <2> QED BY <2>2, <2>3 DEF Tr!ContractStep
<1> QED BY <1>1, <1>2, <1>3, <1>4, <1>5 DEF Tr!Next

\* Whatever is called, in any order and with any batches: every call of each of
\* the four trainers is a step of the contract, its answer included; a call out of
\* turn is refused and final, but for the exemption of the directional trainer.
THEOREM TrainersImplementContract == ASSUME Tr!TrainersAssumption PROVE Tr!Spec => Tr!TrainerContract
<1>1. Tr!Init => TrainerInv /\ Tr!Contract!Init BY TrainerStarts
<1>2. TrainerInv /\ [Tr!Next]_(Tr!vars) => TrainerInv' /\ [Tr!Contract!Next]_(Tr!Contract!vars) BY TrainerStep DEF Tr!ContractStep
<1> QED BY <1>1, <1>2, PTL DEF Tr!Spec, Tr!TrainerContract, Tr!Contract!Spec

\* What is known of a trainer whose classifier was handed out.
LEMMA HandedExact ==
    ASSUME Tr!TrainersAssumption, TrainerInv
    PROVE  Tr!ModelExact
<1> SUFFICES ASSUME handed PROVE Tr!ModelExact BY DEF Tr!ModelExact
<1> DEFINE k == setting.requested
           n == Len(trainer.base)
<1>1. k \in Nat /\ k >= 1 BY SettingTypes
<1>2. trainer.state = "TrainingComplete" /\ trainer.model # Tr!NoModel /\ trainer.base \in Seq(Nat) /\ Knows(trainer, ids)
  BY DEF TrainerInv, Tr!Classifies, IsTrainer, Dead
<1>3. n \in Nat /\ DOMAIN trainer.base = 1 .. n BY <1>2
<1>4. ASSUME setting.algorithm = "chunking" PROVE Tr!ChunksBalanced(trainer.model, trainer.base, k)
  <2>1. Len(trainer.base) >= k /\ \E u : trainer.model = Tr!ChunkModel(u) /\ Cuts(trainer.base, k, u)
    BY <1>2, <1>4 DEF Knows, ChunkInv
  <2> QED BY <1>1, <1>2, <2>1, CutsBalance
<1>5. ASSUME setting.algorithm = "directional"
      PROVE  Len(trainer.model.clusters) = Len(trainer.base) /\ Tr!ToSet(trainer.model.clusters) = 1 .. ids
  BY <1>2, <1>5 DEF Knows, DirectionalInv
<1>6. ASSUME setting.algorithm = "dcbc"
      PROVE  \E a \in [DOMAIN trainer.base -> 1 .. k] :
                 \A c \in 1 .. k : Tr!Cardinality(Tr!MembersOf(a, c)) \in trainer.model.bounds.min .. trainer.model.bounds.max
  <2>1. PICK b : b = Tr!OccupancyBounds(n, k, setting.params.lower, setting.params.upper) OBVIOUS
  <2>2. trainer.base # <<>> /\ BoundsInv(trainer, k, setting.params) BY <1>2, <1>6 DEF Knows, FitInv
  <2>3. trainer.model = Tr!BalancedModel(b) /\ ~Tr!BoundsInfeasible(n, k, b) BY <1>2, <2>1, <2>2 DEF BoundsInv
  <2>4. trainer.model.bounds = b BY <2>3 DEF Tr!BalancedModel
  <2>5. setting.params.lower \in Nat /\ setting.params.upper \in Nat BY <1>6 DEF Tr!TrainersAssumption, TrainerInv
  <2>6. b.min \in Int /\ b.max \in Int
    <3>1. PICK lo, up : lo = setting.params.lower /\ up = setting.params.upper OBVIOUS
    <3>2. lo \in Nat /\ up \in Nat BY <2>5, <3>1
    <3>3. b.min = IF lo = 0 THEN 1 ELSE lo BY <2>1, <3>1 DEF Tr!OccupancyBounds
    <3>4. b.max = IF up # 0 THEN up ELSE n - (k - 1) * b.min BY <2>1, <3>1 DEF Tr!OccupancyBounds
    <3>5. b.min \in Int BY <3>2, <3>3
    <3>6. (k - 1) * b.min \in Int BY <1>1, <3>5
    <3> QED BY <1>3, <3>2, <3>4, <3>5, <3>6
  <2>7. k * b.min <= n /\ n <= k * b.max
    <3>1. k * b.min \in Int /\ k * b.max \in Int BY <1>1, <2>6
    <3> QED BY <1>3, <2>3, <3>1 DEF Tr!BoundsInfeasible
  <2>8. \E a \in [1 .. n -> 1 .. k] : \A c \in 1 .. k : Tr!Cardinality(Tr!MembersOf(a, c)) \in b.min .. b.max
    BY <1>1, <1>3, <2>6, <2>7, BoundsFeasible
  <2> QED BY <1>3, <2>4, <2>8
<1>7. ASSUME setting.algorithm = "kmeans", NEW a \in Tr!Fitted(n, k), NEW c \in 1 .. k PROVE Tr!MembersOf(a, c) # {}
  <2>1. n >= k BY <1>2, <1>7 DEF Knows, FitInv
  <2> QED BY <1>1, <1>3, <1>7, <2>1, FitLeavesNoneEmpty
<1> QED BY <1>4, <1>5, <1>6, <1>7 DEF Tr!ModelExact

\* into_classifier gives a model that is exact for the first pass: balanced chunks,
\* a member for every directional cluster, bounds that can be met and no empty
\* cluster of k-means.
THEOREM ModelsExact == ASSUME Tr!TrainersAssumption PROVE Tr!Spec => []Tr!ModelExact
<1>1. Tr!Init => TrainerInv BY TrainerStarts
<1>2. TrainerInv /\ [Tr!Next]_(Tr!vars) => TrainerInv' BY TrainerStep
<1>3. TrainerInv => Tr!ModelExact BY HandedExact
<1> QED BY <1>1, <1>2, <1>3, PTL DEF Tr!Spec
=============================================================================
