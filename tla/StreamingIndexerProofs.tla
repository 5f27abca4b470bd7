----------------------- MODULE StreamingIndexerProofs -----------------------
(***************************************************************************)
(* Proofs about StreamingIndexer, for every bound, data set, set of         *)
(* hierarchies and sequence of calls.                                       *)
(***************************************************************************)
EXTENDS StreamingIndexer, IndexTreeProofs, SequenceTheorems

LEMMA HierarchySound ==
    ASSUME NEW h, NEW n, ValidHierarchy(h, n)
    PROVE  /\ SoundParts(h.parts) /\ h.root \in DOMAIN h.parts
           /\ Visited(h.root, h.parts) = DOMAIN h.parts
<1>1. ASSUME NEW p \in DOMAIN h.parts
      PROVE  /\ Range(h.parts[p].children) \subseteq DOMAIN h.parts
             /\ h.parts[p].terminal => Range(h.parts[p].children) = {}
  <2>1. WellFormedPartition(h, p, n)
    BY DEF ValidHierarchy
  <2>2. \A c \in Range(h.parts[p].children) : c \in DOMAIN h.parts
    BY <2>1 DEF WellFormedPartition
  <2>3. h.parts[p].terminal => h.parts[p].children = <<>>
    BY <2>1 DEF WellFormedPartition
  <2>4. Range(<<>>) = {}
    BY DEF Range
  <2> QED BY <2>2, <2>3, <2>4
<1>2. h.root \in DOMAIN h.parts /\ Visited(h.root, h.parts) = DOMAIN h.parts
  BY DEF ValidHierarchy
<1> QED BY <1>1, <1>2 DEF SoundParts

\* What a finalize leaves alone it finds as it was.
LEMMA PlanningStays ==
    ASSUME UNCHANGED planning
    PROVE  /\ phase' = phase /\ baseline' = baseline /\ hierarchy' = hierarchy /\ current' = current
           /\ Routable(hierarchy, Len(baseline))' <=> Routable(hierarchy, Len(baseline))
BY DEF planning

\* A block that joins the store with its children there already.
LEMMA StoreGrows ==
    ASSUME ChildrenFirst, ResultExact, NEW b, store' = store \cup {b},
           b.level > 0 => /\ b.kids \subseteq store
                          /\ \A k \in b.kids : k.level < b.level
                          /\ Cardinality(b.kids) \in 2 .. Bound,
           UNCHANGED <<planning, answer>>
    PROVE  ChildrenFirst' /\ ResultExact'
<1>1. ChildrenFirst'
  BY DEF ChildrenFirst
<1>2. ResultExact'
  BY DEF ResultExact, planning
<1> QED BY <1>1, <1>2

\* Calls outside of a finalize.
LEMMA CallsKeep ==
    ASSUME IndexerInv, fin = Idle, UNCHANGED <<fin, store>>,
           ~(answer'.call = "finalize" /\ answer'.ok),
           baseline' \in Seq(Items), current' \in Seq(Items)
    PROVE  IndexerInv'
BY DEF IndexerInv, TypeOK, ChildrenFirst, FinInv, ResultExact

LEMMA IngestKeeps ==
    ASSUME IndexerInv, NEW batch \in BatchInputs,
           \/ IngestBatch(batch) \/ IngestRefused(batch)
           \/ \E k \in 0 .. Len(batch) - 1 : IngestFails(batch, k)
    PROVE  IndexerInv'
<1>1. batch \in Seq(Items)
  BY DEF BatchInputs
<1>2. baseline \in Seq(Items) /\ current \in Seq(Items)
  BY DEF IndexerInv, TypeOK
<1>3. CASE IngestBatch(batch)
  <2>1. current \o batch \in Seq(Items)
    BY ONLY <1>1, <1>2
  <2>2. baseline' = baseline /\ current' \in {current, current \o batch}
    BY <1>3 DEF IngestBatch
  <2>3. baseline' \in Seq(Items) /\ current' \in Seq(Items)
    BY ONLY <1>2, <2>1, <2>2
  <2> QED BY <2>3, <1>3, CallsKeep DEF IngestBatch, Answer
<1>4. CASE IngestRefused(batch)
  BY <1>2, <1>4, CallsKeep DEF IngestRefused, Refused, Answer, planning
<1>5. ASSUME NEW k \in 0 .. Len(batch) - 1, IngestFails(batch, k) PROVE IndexerInv'
  <2>1. SubSeq(batch, 1, k) \in Seq(Items)
    BY <1>1
  <2>2. current \o SubSeq(batch, 1, k) \in Seq(Items)
    BY ONLY <2>1, <1>2
  <2>3. baseline' = baseline /\ current' \in {current, current \o SubSeq(batch, 1, k)}
    BY <1>5 DEF IngestFails
  <2>4. baseline' \in Seq(Items) /\ current' \in Seq(Items)
    BY ONLY <1>2, <2>2, <2>3
  <2> QED BY <2>4, <1>5, CallsKeep DEF IngestFails, Answer
<1> QED BY <1>3, <1>4, <1>5

LEMMA PlanningKeeps ==
    ASSUME IndexerInv,
           \/ \E h \in Hierarchies : FinishPass(h) \/ FinishPassFails(h)
           \/ MarkPlanningComplete \/ MarkRefused \/ FinalizeRefused
    PROVE  IndexerInv'
<1>1. baseline \in Seq(Items) /\ current \in Seq(Items)
  BY DEF IndexerInv, TypeOK
<1>2. ASSUME NEW h \in Hierarchies, FinishPass(h) PROVE IndexerInv'
  <2>1. baseline' \in Seq(Items) /\ current' \in Seq(Items)
    BY <1>1, <1>2 DEF FinishPass
  <2> QED BY <2>1, <1>2, CallsKeep DEF FinishPass
<1>3. ASSUME NEW h \in Hierarchies, FinishPassFails(h) PROVE IndexerInv'
  BY <1>1, <1>3, CallsKeep DEF FinishPassFails, Refused, Answer, planning
<1>4. CASE MarkPlanningComplete
  BY <1>1, <1>4, CallsKeep DEF MarkPlanningComplete, Answer
<1>5. CASE MarkRefused \/ FinalizeRefused
  BY <1>1, <1>5, CallsKeep DEF MarkRefused, FinalizeRefused, Refused, Answer, planning
<1> QED BY <1>2, <1>3, <1>4, <1>5

\* The leaves of the first n items.
LeavesOf(n) == {Leaf(baseline[i]) : i \in 1 .. n}

\* The facts that every step of a running finalize starts from.
LEMMA Running ==
    ASSUME IndexerInv, fin # Idle
    PROVE  /\ TypeOK /\ ChildrenFirst /\ ResultExact
           /\ DOMAIN fin = {"stage", "pos", "asm"}
           /\ fin.stage \in {"replay", "assemble"}
           /\ fin.pos \in 0 .. Len(baseline)
           /\ IF fin.stage = "replay" THEN DOMAIN fin.asm.built = {} /\ fin.asm.open = {}
                                      ELSE fin.pos = Len(baseline)
           /\ ValidHierarchy(hierarchy, Len(baseline)) /\ SoundParts(hierarchy.parts)
           /\ fin.asm.ids \subseteq store
           /\ AssemblyInv(fin.asm, hierarchy.parts, LeavesOf(fin.pos))
<1>1. ValidHierarchy(hierarchy, Len(baseline))
  BY DEF IndexerInv, FinInv, Routable
<1>2. SoundParts(hierarchy.parts)
  BY <1>1, HierarchySound
<1> QED BY <1>1, <1>2 DEF IndexerInv, FinInv, FinShape, LeavesOf

\* finalize begins with nothing in hand.
LEMMA StartKeeps ==
    ASSUME IndexerInv, StartFinalize
    PROVE  IndexerInv'
<1>1. /\ Routable(hierarchy, Len(baseline)) /\ UNCHANGED <<planning, answer, store>>
      /\ fin' = [stage |-> "replay", pos |-> 0, asm |-> NothingBuilt(hierarchy.parts)]
  BY DEF StartFinalize
<1>2. /\ baseline' = baseline /\ hierarchy' = hierarchy /\ current' = current
      /\ Routable(hierarchy, Len(baseline))'
  BY <1>1, PlanningStays
<1>3. TypeOK' /\ ChildrenFirst' /\ ResultExact' /\ Len(baseline) \in Nat
  BY <1>1, <1>2 DEF IndexerInv, TypeOK, ChildrenFirst, ResultExact
<1>4. /\ DOMAIN fin' = {"stage", "pos", "asm"} /\ fin'.stage = "replay" /\ fin'.pos = 0
      /\ fin'.asm = NothingBuilt(hierarchy.parts)
  BY <1>1
<1>5. /\ AssemblyInv(fin'.asm, hierarchy.parts, {})
      /\ DOMAIN fin'.asm.built = {} /\ fin'.asm.open = {} /\ fin'.asm.ids = {}
  BY <1>4, NothingBuiltKeeps
<1>6. {Leaf(baseline'[i]) : i \in 1 .. fin'.pos} = {}
  BY <1>4
<1>7. AssemblyInv(fin'.asm, hierarchy'.parts, {Leaf(baseline'[i]) : i \in 1 .. fin'.pos})
  BY <1>2, <1>5, <1>6
<1>8. FinShape'
  BY <1>2, <1>3, <1>4, <1>5 DEF FinShape
<1>9. FinInv'
  BY <1>2, <1>5, <1>7, <1>8 DEF FinInv
<1> QED BY <1>3, <1>9 DEF IndexerInv

\* The route of a position is a terminal partition.
LEMMA RouteIsTerminal ==
    ASSUME Routable(hierarchy, Len(baseline)), NEW i \in 1 .. Len(baseline)
    PROVE  Route(hierarchy, i) \in Terminals(hierarchy.parts)
BY DEF Routable, Route

\* The next leaf joins block_ids and the spill of its partition.
LEMMA ReplayLeafKeeps ==
    ASSUME IndexerInv, ReplayLeaf
    PROVE  IndexerInv'
<1> DEFINE i    == fin.pos + 1
           leaf == Leaf(baseline[i])
           t    == Route(hierarchy, i)
<1>1. /\ fin.stage = "replay" /\ fin.pos < Len(baseline)
      /\ store' = store \cup {leaf}
      /\ fin' = [fin EXCEPT !.pos = i, !.asm = Spilled(@, t, leaf)]
      /\ UNCHANGED <<planning, answer>>
  BY DEF ReplayLeaf
<1>2. fin # Idle
  BY <1>1 DEF Idle
<1>3. /\ TypeOK /\ ChildrenFirst /\ ResultExact
      /\ DOMAIN fin = {"stage", "pos", "asm"} /\ fin.pos \in 0 .. Len(baseline)
      /\ DOMAIN fin.asm.built = {} /\ fin.asm.open = {}
      /\ Routable(hierarchy, Len(baseline)) /\ fin.asm.ids \subseteq store
      /\ AssemblyInv(fin.asm, hierarchy.parts, LeavesOf(fin.pos))
  BY <1>1, <1>2, Running DEF IndexerInv, FinInv
<1>4. /\ baseline' = baseline /\ hierarchy' = hierarchy /\ current' = current
  BY <1>1, PlanningStays
<1>5. Len(baseline) \in Nat /\ i \in 1 .. Len(baseline)
  BY <1>1, <1>3 DEF TypeOK
<1>6. leaf.level = 0 /\ leaf.kids = {} /\ t \in Terminals(hierarchy.parts)
  BY <1>3, <1>5, RouteIsTerminal DEF Leaf
<1>7. LeavesOf(fin.pos) \cup {leaf} = {Leaf(baseline'[j]) : j \in 1 .. i}
  <2>1. \A j \in 1 .. i : j \in 1 .. fin.pos \/ j = i
    BY <1>3
  <2>2. 1 .. fin.pos \subseteq 1 .. i /\ i \in 1 .. i
    BY <1>3, <1>5
  <2> QED BY <2>1, <2>2, <1>4 DEF LeavesOf
<1> HIDE DEF leaf, t
<1>8. /\ DOMAIN fin' = DOMAIN fin /\ fin'.stage = "replay" /\ fin'.pos = i
      /\ fin'.asm = Spilled(fin.asm, t, leaf)
  BY <1>1, <1>3
<1>9. LET n == Spilled(fin.asm, t, leaf) IN
      /\ AssemblyInv(n, hierarchy.parts, LeavesOf(fin.pos) \cup {leaf})
      /\ DOMAIN n.built = {} /\ n.open = {} /\ n.ids = fin.asm.ids \cup {leaf}
  BY <1>3, <1>6, SpilledKeeps
<1>10. /\ AssemblyInv(fin'.asm, hierarchy'.parts, {Leaf(baseline'[j]) : j \in 1 .. fin'.pos})
       /\ DOMAIN fin'.asm.built = {} /\ fin'.asm.open = {} /\ fin'.asm.ids \subseteq store'
  BY <1>1, <1>3, <1>4, <1>7, <1>8, <1>9
<1>11. ChildrenFirst' /\ ResultExact' /\ TypeOK'
  BY <1>1, <1>3, <1>4, <1>6, StoreGrows DEF TypeOK
<1>12. FinShape'
  BY <1>3, <1>4, <1>5, <1>8, <1>10 DEF FinShape
<1>13. Routable(hierarchy, Len(baseline))'
  BY <1>3, <1>4
<1>14. FinInv'
  BY <1>10, <1>12, <1>13 DEF FinInv
<1> QED BY <1>11, <1>14 DEF IndexerInv

\* Steps that leave the replay as it is and store nothing.
LEMMA AssemblyKeeps ==
    ASSUME IndexerInv, fin # Idle, UNCHANGED <<planning, answer, store>>,
           DOMAIN fin' = DOMAIN fin, fin'.stage = "assemble",
           fin'.pos = fin.pos, fin.pos = Len(baseline),
           fin'.asm.ids \subseteq store,
           AssemblyInv(fin'.asm, hierarchy.parts, LeavesOf(fin.pos))
    PROVE  IndexerInv'
<1>1. /\ TypeOK /\ ChildrenFirst /\ ResultExact /\ Routable(hierarchy, Len(baseline))
      /\ DOMAIN fin = {"stage", "pos", "asm"} /\ fin.pos \in 0 .. Len(baseline)
  BY Running DEF IndexerInv, FinInv
<1>2. /\ baseline' = baseline /\ hierarchy' = hierarchy /\ current' = current
      /\ Routable(hierarchy, Len(baseline))'
  BY <1>1, PlanningStays
<1>3. TypeOK' /\ ChildrenFirst' /\ ResultExact'
  BY <1>1, <1>2 DEF TypeOK, ChildrenFirst, ResultExact
<1>4. AssemblyInv(fin'.asm, hierarchy'.parts, {Leaf(baseline'[i]) : i \in 1 .. fin'.pos})
  BY <1>2 DEF LeavesOf
<1>5. FinShape'
  BY <1>1, <1>2 DEF FinShape
<1>6. FinInv'
  BY <1>2, <1>4, <1>5 DEF FinInv
<1> QED BY <1>3, <1>6 DEF IndexerInv

\* What the steps of the assembly start from.
LEMMA Assembling ==
    ASSUME IndexerInv, fin.stage = "assemble"
    PROVE  /\ fin # Idle /\ DOMAIN fin = {"stage", "pos", "asm"} /\ fin.pos = Len(baseline)
           /\ SoundParts(hierarchy.parts) /\ fin.asm.ids \subseteq store
           /\ AssemblyInv(fin.asm, hierarchy.parts, LeavesOf(fin.pos))
<1>1. fin # Idle
  BY DEF Idle
<1> QED BY <1>1, Running

LEMMA ReplayEndsKeeps ==
    ASSUME IndexerInv, ReplayEnds
    PROVE  IndexerInv'
<1>1. fin # Idle /\ fin.pos = Len(baseline) /\ UNCHANGED <<planning, answer, store>>
  BY DEF ReplayEnds, Idle
<1>2. /\ DOMAIN fin = {"stage", "pos", "asm"} /\ fin.asm.ids \subseteq store
      /\ AssemblyInv(fin.asm, hierarchy.parts, LeavesOf(fin.pos))
  BY <1>1, Running
<1>3. DOMAIN fin' = DOMAIN fin /\ fin'.stage = "assemble" /\ fin'.pos = fin.pos /\ fin'.asm = fin.asm
  BY <1>2 DEF ReplayEnds
<1> QED BY <1>1, <1>2, <1>3, AssemblyKeeps

LEMMA StartPartitionKeeps ==
    ASSUME IndexerInv, NEW p, StartPartition(p)
    PROVE  IndexerInv'
<1>1. /\ fin.stage = "assemble" /\ Ready(fin.asm, hierarchy.parts, p)
      /\ fin' = [fin EXCEPT !.asm = PartitionOpened(@, hierarchy.parts, p)]
      /\ UNCHANGED <<planning, answer, store>>
  BY DEF StartPartition
<1>2. /\ fin # Idle /\ DOMAIN fin = {"stage", "pos", "asm"} /\ fin.pos = Len(baseline)
      /\ SoundParts(hierarchy.parts) /\ fin.asm.ids \subseteq store
      /\ AssemblyInv(fin.asm, hierarchy.parts, LeavesOf(fin.pos))
  BY <1>1, Assembling
<1>3. /\ DOMAIN fin' = DOMAIN fin /\ fin'.stage = "assemble" /\ fin'.pos = fin.pos
      /\ fin'.asm = PartitionOpened(fin.asm, hierarchy.parts, p)
  BY <1>1, <1>2
<1>4. /\ AssemblyInv(fin'.asm, hierarchy.parts, LeavesOf(fin.pos))
      /\ fin'.asm.ids = fin.asm.ids
  BY <1>1, <1>2, <1>3, OpenedKeeps
<1> QED BY <1>1, <1>2, <1>3, <1>4, AssemblyKeeps

LEMMA EndPartitionKeeps ==
    ASSUME IndexerInv, EndPartition
    PROVE  IndexerInv'
<1>1. /\ fin.stage = "assemble" /\ BetweenLayers(fin.asm) /\ Cardinality(fin.asm.layer) = 1
      /\ fin' = [fin EXCEPT !.asm = PartitionClosed(@)]
      /\ UNCHANGED <<planning, answer, store>>
  BY DEF EndPartition
<1>2. /\ fin # Idle /\ DOMAIN fin = {"stage", "pos", "asm"} /\ fin.pos = Len(baseline)
      /\ SoundParts(hierarchy.parts) /\ fin.asm.ids \subseteq store
      /\ AssemblyInv(fin.asm, hierarchy.parts, LeavesOf(fin.pos))
  BY <1>1, Assembling
<1>3. /\ DOMAIN fin' = DOMAIN fin /\ fin'.stage = "assemble" /\ fin'.pos = fin.pos
      /\ fin'.asm = PartitionClosed(fin.asm)
  BY <1>1, <1>2
<1>4. /\ AssemblyInv(fin'.asm, hierarchy.parts, LeavesOf(fin.pos))
      /\ fin'.asm.ids = fin.asm.ids
  BY <1>1, <1>2, <1>3, ClosedKeeps
<1> QED BY <1>1, <1>2, <1>3, <1>4, AssemblyKeeps

LEMMA GroupLayerKeeps ==
    ASSUME IndexerInv, GroupLayer
    PROVE  IndexerInv'
<1>1. /\ fin.stage = "assemble" /\ BetweenLayers(fin.asm) /\ LayerSplits(fin.asm)
      /\ fin' = [fin EXCEPT !.asm = LayerGrouped(@)]
      /\ UNCHANGED <<planning, answer, store>>
  BY DEF GroupLayer
<1>2. /\ fin # Idle /\ DOMAIN fin = {"stage", "pos", "asm"} /\ fin.pos = Len(baseline)
      /\ SoundParts(hierarchy.parts) /\ fin.asm.ids \subseteq store
      /\ AssemblyInv(fin.asm, hierarchy.parts, LeavesOf(fin.pos))
  BY <1>1, Assembling
<1>3. /\ DOMAIN fin' = DOMAIN fin /\ fin'.stage = "assemble" /\ fin'.pos = fin.pos
      /\ fin'.asm = LayerGrouped(fin.asm)
  BY <1>1, <1>2
<1>4. /\ AssemblyInv(fin'.asm, hierarchy.parts, LeavesOf(fin.pos))
      /\ fin'.asm.ids = fin.asm.ids
  BY <1>1, <1>2, <1>3, GroupedKeeps
<1> QED BY <1>1, <1>2, <1>3, <1>4, AssemblyKeeps

\* The branch of the next group joins the store after its children.
LEMMA PutBranchKeeps ==
    ASSUME IndexerInv, PutBranch
    PROVE  IndexerInv'
<1> DEFINE branch == NextBranch(fin.asm)
<1>1. /\ fin.stage = "assemble" /\ fin.asm.groups # <<>>
      /\ store' = store \cup {branch}
      /\ fin' = [fin EXCEPT !.asm = BranchPut(@)]
      /\ UNCHANGED <<planning, answer>>
  BY DEF PutBranch
<1>2. /\ fin # Idle /\ DOMAIN fin = {"stage", "pos", "asm"} /\ fin.pos = Len(baseline)
      /\ fin.asm.ids \subseteq store
      /\ AssemblyInv(fin.asm, hierarchy.parts, LeavesOf(fin.pos))
  BY <1>1, Assembling
<1>3. /\ TypeOK /\ ChildrenFirst /\ ResultExact /\ Routable(hierarchy, Len(baseline))
      /\ fin.pos \in 0 .. Len(baseline)
  BY <1>2, Running DEF IndexerInv, FinInv
<1>4. /\ DOMAIN fin' = DOMAIN fin /\ fin'.stage = "assemble" /\ fin'.pos = fin.pos
      /\ fin'.asm = BranchPut(fin.asm)
  BY <1>1, <1>2
<1>5. /\ AssemblyInv(fin'.asm, hierarchy.parts, LeavesOf(fin.pos))
      /\ fin'.asm.ids = fin.asm.ids \cup {branch}
  BY <1>1, <1>2, <1>4, BranchPutKeeps
<1>6. /\ branch.kids \subseteq fin.asm.ids /\ Cardinality(branch.kids) \in 2 .. Bound
      /\ \A k \in branch.kids : k.level < branch.level
  BY <1>1, <1>2, NextBranchFits
<1> HIDE DEF branch
<1>7. ChildrenFirst' /\ ResultExact'
  <2>1. branch.kids \subseteq store
    BY <1>2, <1>6
  <2> QED BY <2>1, <1>1, <1>3, <1>6, StoreGrows
<1>8. /\ baseline' = baseline /\ hierarchy' = hierarchy /\ current' = current
      /\ Routable(hierarchy, Len(baseline))'
  BY <1>1, <1>3, PlanningStays
<1>9. AssemblyInv(fin'.asm, hierarchy'.parts, {Leaf(baseline'[i]) : i \in 1 .. fin'.pos})
  BY <1>4, <1>5, <1>8 DEF LeavesOf
<1>10. FinShape' /\ TypeOK'
  BY <1>2, <1>3, <1>4, <1>8 DEF FinShape, TypeOK
<1>11. FinInv'
  BY <1>1, <1>2, <1>5, <1>8, <1>9, <1>10 DEF FinInv
<1> QED BY <1>7, <1>10, <1>11 DEF IndexerInv

\* What finalize answers is all it has in hand.
LEMMA FinalizeOkKeeps ==
    ASSUME IndexerInv, FinalizeOk
    PROVE  IndexerInv'
<1> DEFINE L == LeavesOf(Len(baseline))
           root == hierarchy.root
<1>1. /\ fin.stage = "assemble" /\ fin.asm.open = {} /\ root \in DOMAIN fin.asm.built
      /\ answer'.root = fin.asm.built[root] /\ answer'.ids = fin.asm.ids
      /\ fin' = Idle /\ UNCHANGED <<baseline, current, store>>
  BY DEF FinalizeOk
<1>2. /\ SoundParts(hierarchy.parts) /\ fin.asm.ids \subseteq store
      /\ AssemblyInv(fin.asm, hierarchy.parts, L)
  BY <1>1, Assembling
<1>3. TypeOK /\ ChildrenFirst /\ ValidHierarchy(hierarchy, Len(baseline))
  BY <1>1, Running DEF Idle
<1>4. Visited(root, hierarchy.parts) = DOMAIN hierarchy.parts
  BY <1>3, HierarchySound
<1>5. \A b \in L : b.level = 0
  BY DEF LeavesOf, Leaf
<1>6. {b.item : b \in L} = Range(baseline)
  <2>1. DOMAIN baseline = 1 .. Len(baseline)
    BY <1>3 DEF TypeOK
  <2>2. \A i \in DOMAIN baseline : Leaf(baseline[i]) \in L /\ Leaf(baseline[i]).item = baseline[i]
    BY <2>1 DEF LeavesOf, Leaf
  <2>3. \A b \in L : \E i \in DOMAIN baseline : b.item = baseline[i]
    BY <2>1 DEF LeavesOf, Leaf
  <2> HIDE DEF L
  <2> QED BY <2>2, <2>3 DEF Range
<1>7. IsIndexOf(fin.asm.built[root], fin.asm.ids, {b.item : b \in L})
  <2> HIDE DEF L, root
  <2> QED BY <1>1, <1>2, <1>4, <1>5, AssemblyExact
<1>8. ResultExact'
  <2>1. /\ IsIndexOf(answer'.root, answer'.ids, Range(baseline'))
        /\ answer'.ids \subseteq store'
    BY <1>1, <1>2, <1>6, <1>7
  <2> QED BY <2>1 DEF ResultExact
<1>9. TypeOK' /\ ChildrenFirst' /\ FinInv'
  BY <1>1, <1>3 DEF TypeOK, ChildrenFirst, FinInv
<1> QED BY <1>8, <1>9 DEF IndexerInv

LEMMA FinalizeFailsKeeps ==
    ASSUME IndexerInv, FinalizeFails
    PROVE  IndexerInv'
<1>1. /\ UNCHANGED <<baseline, current, store>> /\ fin' = Idle /\ ~answer'.ok
  BY DEF FinalizeFails, planning, Answer
<1> QED BY <1>1 DEF IndexerInv, TypeOK, ChildrenFirst, FinInv, ResultExact

LEMMA InitHolds == Init => IndexerInv
BY DEF Init, IndexerInv, TypeOK, ChildrenFirst, FinInv, ResultExact, Answer

LEMMA NextKeeps == IndexerInv /\ [Next]_vars => IndexerInv'
<1> SUFFICES ASSUME IndexerInv, [Next]_vars PROVE IndexerInv'
  OBVIOUS
<1>1. ASSUME NEW batch \in BatchInputs,
             \/ IngestBatch(batch) \/ IngestRefused(batch)
             \/ \E k \in 0 .. Len(batch) - 1 : IngestFails(batch, k)
      PROVE  IndexerInv'
  BY <1>1, IngestKeeps
<1>2. CASE \/ \E h \in Hierarchies : FinishPass(h) \/ FinishPassFails(h)
           \/ MarkPlanningComplete \/ MarkRefused \/ FinalizeRefused
  BY <1>2, PlanningKeeps
<1>3. CASE StartFinalize
  BY <1>3, StartKeeps
<1>4. CASE ReplayLeaf
  BY <1>4, ReplayLeafKeeps
<1>5. CASE ReplayEnds
  BY <1>5, ReplayEndsKeeps
<1>6. ASSUME NEW p \in DOMAIN hierarchy.parts, StartPartition(p) PROVE IndexerInv'
  BY <1>6, StartPartitionKeeps
<1>7. CASE EndPartition
  BY <1>7, EndPartitionKeeps
<1>8. CASE GroupLayer
  BY <1>8, GroupLayerKeeps
<1>9. CASE PutBranch
  BY <1>9, PutBranchKeeps
<1>10. CASE FinalizeOk
  BY <1>10, FinalizeOkKeeps
<1>11. CASE FinalizeFails
  BY <1>11, FinalizeFailsKeeps
<1>12. CASE UNCHANGED vars
  <2>1. UNCHANGED planning /\ UNCHANGED <<answer, fin, store>>
    BY <1>12 DEF vars, planning
  <2>2. /\ baseline' = baseline /\ hierarchy' = hierarchy /\ current' = current
        /\ Routable(hierarchy, Len(baseline))' <=> Routable(hierarchy, Len(baseline))
    BY <2>1, PlanningStays
  <2> QED BY <2>1, <2>2 DEF IndexerInv, TypeOK, ChildrenFirst, FinInv, FinShape, ResultExact
<1> QED BY <1>1, <1>2, <1>3, <1>4, <1>5, <1>6, <1>7, <1>8, <1>9, <1>10, <1>11, <1>12 DEF Next

LEMMA Inductive == Spec => []IndexerInv
BY InitHolds, NextKeeps, PTL DEF Spec

-----------------------------------------------------------------------------
(* The theorems.                                                             *)

\* build_branch_layer: at every moment, in and after any number of finalize calls
\* that failed or were dropped, a branch in the store has its children there,
\* all of a lower level, at least two and no more than the bound.
THEOREM ChildrenStoredFirst == Spec => []ChildrenFirst
<1>1. IndexerInv => ChildrenFirst
  BY DEF IndexerInv
<1> QED BY <1>1, Inductive, PTL

\* finalize: whatever failed before, a call that succeeds returns an index of the
\* baseline: block_ids are exactly the blocks under the root, its leaves are those
\* of the items and of no other, all of it is stored, and no branch is over- or
\* underfull.
THEOREM FinalizeReturnsIndex == Spec => []ResultExact
<1>1. IndexerInv => ResultExact
  BY DEF IndexerInv
<1> QED BY <1>1, Inductive, PTL

-----------------------------------------------------------------------------
(* The pipeline of the third version: run_prepared_batch_pipeline.            *)

CONSTANTS Batches, Lookahead
VARIABLES producer, made, channel, consumer, consumed, receiver, cancelled, returned

P == INSTANCE PreparedPipeline

LEMMA PipelineStep ==
    ASSUME P!PipelineAssumption, P!PipelineInv, [P!Next]_(P!vars)
    PROVE  P!PipelineInv'
<1>t. /\ Batches \in Nat /\ Lookahead \in Nat /\ made \in Nat /\ consumed \in Nat
      /\ Len(channel) \in Nat /\ P!InHand \in {0, 1}
  BY DEF P!PipelineAssumption, P!PipelineInv, P!TypeOK, P!InHand
<1>1. CASE P!Cancel
  BY <1>1 DEF P!Cancel, P!PipelineInv, P!TypeOK, P!Conserved, P!Ended, P!InHand
<1>2. CASE P!Produce
  <2>1. P!TypeOK'
    BY <1>2, <1>t DEF P!Produce, P!PipelineInv, P!TypeOK, P!Errors
  <2>2. P!Conserved'
    BY <1>2, <1>t DEF P!Produce, P!PipelineInv, P!TypeOK, P!Conserved, P!Ended, P!InHand, P!Errors
  <2>3. P!Ended'
    BY <1>2, <1>t DEF P!Produce, P!PipelineInv, P!TypeOK, P!Ended, P!Errors
  <2> QED BY <2>1, <2>2, <2>3 DEF P!PipelineInv
<1>3. CASE P!Send
  <2>1. CASE receiver /\ channel' = Append(channel, made) /\ producer' = "read"
    <3>1. Len(channel') = Len(channel) + 1 /\ channel' \in Seq(Nat)
      BY <2>1, <1>t DEF P!PipelineInv, P!TypeOK
    <3>2. Len(channel') <= Lookahead
      BY <1>3, <2>1, <3>1, <1>t DEF P!Send
    <3>3. P!TypeOK'
      BY <1>3, <2>1, <3>1, <3>2 DEF P!Send, P!PipelineInv, P!TypeOK
    <3>4. P!Conserved'
      BY <1>3, <2>1, <3>1, <1>t DEF P!Send, P!PipelineInv, P!TypeOK, P!Conserved, P!Ended, P!InHand, P!Errors
    <3>5. P!Ended'
      BY <1>3, <2>1 DEF P!Send, P!PipelineInv, P!TypeOK, P!Ended, P!Errors
    <3> QED BY <3>3, <3>4, <3>5 DEF P!PipelineInv
  <2>2. CASE ~receiver /\ producer' = "done" /\ UNCHANGED channel
    BY <1>3, <2>2, <1>t DEF P!Send, P!PipelineInv, P!TypeOK, P!Conserved, P!Ended, P!InHand, P!Errors
  <2> QED BY <1>3, <2>1, <2>2 DEF P!Send
<1>4. CASE P!Consume
  <2>1. channel' \in Seq(Nat) /\ Len(channel') = Len(channel) - 1 /\ Len(channel) >= 1
    BY <1>4 DEF P!Consume, P!PipelineInv, P!TypeOK
  <2>2. P!TypeOK'
    BY <1>4, <2>1, <1>t DEF P!Consume, P!PipelineInv, P!TypeOK, P!Errors
  <2>3. P!Conserved'
    <3>1. /\ made = consumed + Len(channel) + P!InHand /\ receiver /\ receiver'
          /\ made' = made /\ P!InHand' = P!InHand
      BY <1>4 DEF P!Consume, P!PipelineInv, P!TypeOK, P!Conserved, P!Ended, P!InHand
    <3>2. \/ consumer' = "recv" /\ consumed' = consumed + 1
          \/ consumer' \in P!Errors /\ consumed' = consumed
      BY <1>4 DEF P!Consume, P!Errors
    <3>3. CASE consumer' = "recv" /\ consumed' = consumed + 1
      <4>1. made' = consumed' + Len(channel') + P!InHand'
        BY <2>1, <3>1, <3>3, <1>t
      <4> QED BY <3>3, <4>1 DEF P!Conserved, P!Errors
    <3>4. CASE consumer' \in P!Errors /\ consumed' = consumed
      <4>1. made' = consumed' + 1 + Len(channel') + P!InHand'
        BY <2>1, <3>1, <3>4, <1>t
      <4> QED BY <3>1, <3>4, <4>1 DEF P!Conserved, P!Errors
    <3> QED BY <3>2, <3>3, <3>4
  <2>4. P!Ended'
    BY <1>4 DEF P!Consume, P!PipelineInv, P!TypeOK, P!Ended, P!Errors
  <2> QED BY <2>2, <2>3, <2>4 DEF P!PipelineInv
<1>5. CASE P!ConsumeEnds
  <2>1. Len(channel) = 0 /\ P!InHand = 0
    BY <1>5 DEF P!ConsumeEnds, P!Disconnected, P!InHand, P!Errors
  <2> QED BY <1>5, <2>1, <1>t
          DEF P!ConsumeEnds, P!Disconnected, P!PipelineInv, P!TypeOK, P!Conserved, P!Ended, P!InHand, P!Errors
<1>6. CASE P!DropReceiver
  <2>1. channel' \in Seq(Nat) /\ Len(channel') = 0
    BY <1>6 DEF P!DropReceiver
  <2>2. P!TypeOK'
    <3>1. receiver' \in BOOLEAN
      BY <1>6 DEF P!DropReceiver
    <3>2. Len(channel') <= Lookahead
      BY <1>t, <2>1
    <3> QED BY <1>6, <2>1, <3>1, <3>2 DEF P!DropReceiver, P!PipelineInv, P!TypeOK
  <2>4. P!Ended'
    BY <1>6 DEF P!DropReceiver, P!PipelineInv, P!Ended
  <2>3. P!Conserved'
    BY <1>6, <1>t DEF P!DropReceiver, P!PipelineInv, P!TypeOK, P!Conserved, P!InHand
  <2> QED BY <2>2, <2>3, <2>4 DEF P!PipelineInv
<1>7. CASE P!Return
  BY <1>7 DEF P!Return, P!Join, P!Outcome, P!PipelineInv, P!TypeOK, P!Conserved, P!Ended, P!InHand, P!Errors
<1>8. CASE UNCHANGED P!vars
  BY <1>8 DEF P!vars, P!PipelineInv, P!TypeOK, P!Conserved, P!Ended, P!InHand
<1> QED BY <1>1, <1>2, <1>3, <1>4, <1>5, <1>6, <1>7, <1>8 DEF P!Next

\* For any number of batches and any capacity: a call returns success only when
\* every batch was committed, and never reads further ahead than the channel and
\* two batches in hand.
THEOREM PipelineCommitsAll == ASSUME P!PipelineAssumption PROVE P!Spec => []P!PipelineExact
<1>1. ASSUME P!Init PROVE P!PipelineInv
  <2>1. channel \in Seq(Nat) /\ Len(channel) = 0 /\ P!InHand = 0
    BY <1>1 DEF P!Init, P!InHand
  <2>2. P!TypeOK
    <3>1. receiver \in BOOLEAN /\ cancelled \in BOOLEAN
      BY <1>1 DEF P!Init
    <3>2. Len(channel) <= Lookahead /\ 0 \in 0 .. Batches /\ 0 \in Nat
      BY <2>1 DEF P!PipelineAssumption
    <3> QED BY <1>1, <2>1, <3>1, <3>2 DEF P!Init, P!TypeOK
  <2>3. P!Conserved /\ P!Ended
    BY <1>1, <2>1 DEF P!Init, P!Conserved, P!Ended, P!Errors
  <2> QED BY <2>2, <2>3 DEF P!PipelineInv
<1>2. P!PipelineInv /\ [P!Next]_(P!vars) => P!PipelineInv'
  BY PipelineStep
<1>3. ASSUME P!PipelineInv PROVE P!PipelineExact
  <2>1. /\ Lookahead \in Nat /\ made \in Nat /\ consumed \in Nat
        /\ Len(channel) \in Nat /\ Len(channel) <= Lookahead /\ P!InHand \in {0, 1}
    BY <1>3 DEF P!PipelineAssumption, P!PipelineInv, P!TypeOK, P!InHand
  <2> QED BY <1>3, <2>1 DEF P!PipelineExact, P!PipelineInv, P!TypeOK, P!Conserved, P!Ended
<1> QED BY <1>1, <1>2, <1>3, PTL DEF P!Spec

-----------------------------------------------------------------------------
(* PlanningStageStatusTracker and its heartbeat, for every sequence of        *)
(* planning events.                                                           *)

CONSTANTS Plannings, Beats
VARIABLES todo, stages, work, snapshot, generation, stop, beat, beats, told

T == INSTANCE PlanningStatus WITH seen <- told

LEMMA TFinite == \A S : (T!IsFiniteSet(S) <=> IsFiniteSet(S)) /\ T!Cardinality(S) = Cardinality(S)
BY DEF T!IsFiniteSet, IsFiniteSet, T!Cardinality, Cardinality

Statuses  == [stage : T!Stages \cup {"none"}, state : T!States \cup {"none"}, count : Int]
Snapshots == [status : Statuses, generation : Nat]
Steps     == [do : {"emit", "bump", "set", "clear", "stop", "join", "final"}, status : Statuses]
Reports   == [stage : T!Stages \cup {"none"}, state : T!States \cup {"none"}, count : Int, final : BOOLEAN]

TrackerTypes ==
    /\ todo \in Seq(T!Events)
    /\ DOMAIN stages \subseteq T!Stages /\ stages \in [DOMAIN stages -> Int]
    /\ work \in Seq(Steps)
    /\ snapshot \in Snapshots /\ generation \in Nat
    /\ beat \in [at : {"wait", "taken", "current", "stopped"}, snapshot : Snapshots]
    /\ told \in Seq(Reports)

\* The observer was told that stage s started.
Begun(said, s) == \E j \in DOMAIN said : said[j].stage = s /\ said[j].state = "Started"

\* It was, or will be by step k of the work in hand.
BegunBy(said, steps, s, k) ==
    \/ Begun(said, s)
    \/ \E j \in 1 .. k : steps[j].do = "emit" /\ steps[j].status.stage = s /\ steps[j].status.state = "Started"

\* Nothing speaks of a stage that was not started.
StartsFirst ==
    /\ \A i \in DOMAIN told : \E j \in 1 .. i : told[j].stage = told[i].stage /\ told[j].state = "Started"
    /\ \A k \in DOMAIN work : work[k].do \in {"emit", "set", "final"} => BegunBy(told, work, work[k].status.stage, k)
    /\ \A s \in DOMAIN stages : BegunBy(told, work, s, Len(work))
    /\ snapshot # T!NoSnapshot => Begun(told, snapshot.status.stage)
    /\ beat.at \in {"taken", "current"} => Begun(told, beat.snapshot.status.stage)

\* The work of an end: stop, then join, then the final reports.
EndsInOrder ==
    /\ stop => \A k \in DOMAIN work : work[k].do \in {"join", "final"}
    /\ \A j, k \in DOMAIN work : j < k =>
          /\ work[j].do = "stop" => work[k].do \in {"join", "final"}
          /\ work[j].do \in {"join", "final"} => work[k].do = "final"
    /\ beat.at = "stopped" => stop
    /\ \A k \in DOMAIN work : work[k].do = "final" =>
          /\ work[k].status.stage \in DOMAIN stages
          /\ work[k].status.count = stages[work[k].status.stage]
          /\ beat.at = "stopped" \/ \E j \in DOMAIN work : j < k /\ work[j].do = "join"

\* Once an end is reported the thread is gone and only ends are left to report.
FinalSeen ==
    /\ \A i \in DOMAIN told : told[i].final =>
          /\ beat.at = "stopped" /\ \A k \in DOMAIN work : work[k].do = "final"
          /\ told[i].count = stages[told[i].stage]
    /\ \A i, j \in DOMAIN told : i < j /\ told[i].final => told[j].final

TrackerInv == TrackerTypes /\ StartsFirst /\ EndsInOrder /\ FinalSeen

LEMMA StatusTypes ==
  /\ \A t \in T!Stages, u \in T!States, c \in Int : T!Status(t, u, c) \in Statuses
  /\ \A d \in {"emit", "bump", "set", "clear", "stop", "join", "final"}, r \in Statuses : T!Step(d, r) \in Steps
  /\ \A r \in Statuses, f \in BOOLEAN : T!Said(r, f) \in Reports
  /\ T!NoStatus \in Statuses /\ T!NoSnapshot \in Snapshots
<1>1. \A t \in T!Stages, u \in T!States, c \in Int : T!Status(t, u, c) \in Statuses BY DEF T!Status, Statuses
<1>2. \A d \in {"emit", "bump", "set", "clear", "stop", "join", "final"}, r \in Statuses : T!Step(d, r) \in Steps
  BY DEF T!Step, Steps
<1>3. \A r \in Statuses, f \in BOOLEAN : T!Said(r, f) \in Reports BY DEF T!Said, Statuses, Reports
<1>4. T!NoStatus \in Statuses BY DEF T!NoStatus, T!Status, Statuses
<1>5. T!NoSnapshot \in Snapshots BY <1>4 DEF T!NoSnapshot, Snapshots
<1> QED BY <1>1, <1>2, <1>3, <1>4, <1>5

LEMMA StagesFinite == ASSUME TrackerTypes PROVE IsFiniteSet(DOMAIN stages)
<1>1. IsFiniteSet({"Single", "Coarse", "Fine", "Custom"})
  <2>1. IsFiniteSet({"Single"}) BY FS_Singleton
  <2>2. IsFiniteSet({"Coarse"}) BY FS_Singleton
  <2>3. IsFiniteSet({"Fine"}) BY FS_Singleton
  <2>4. IsFiniteSet({"Custom"}) BY FS_Singleton
  <2>5. IsFiniteSet(({"Single"} \cup {"Coarse"}) \cup ({"Fine"} \cup {"Custom"})) BY <2>1, <2>2, <2>3, <2>4, FS_Union
  <2>6. ({"Single"} \cup {"Coarse"}) \cup ({"Fine"} \cup {"Custom"}) = {"Single", "Coarse", "Fine", "Custom"} OBVIOUS
  <2> QED BY <2>5, <2>6
<1> QED BY <1>1, FS_Subset DEF TrackerTypes, T!Stages

\* Appending to what was said keeps what was said before.
LEMMA SaidStays ==
  ASSUME TrackerTypes, NEW r \in Reports, told' = Append(told, r)
  PROVE  /\ told' \in Seq(Reports) /\ Len(told') = Len(told) + 1 /\ Len(told) \in Nat
         /\ DOMAIN told = 1 .. Len(told) /\ DOMAIN told' = 1 .. Len(told')
         /\ \A i \in DOMAIN told : i \in DOMAIN told' /\ told'[i] = told[i]
         /\ told'[Len(told')] = r
         /\ \A i \in DOMAIN told' : i \in DOMAIN told \/ i = Len(told')
         /\ \A s : Begun(told, s) => Begun(told', s)
         /\ r.state = "Started" => Begun(told', r.stage)
<1>1. told \in Seq(Reports) BY DEF TrackerTypes
<1>2. /\ told' \in Seq(Reports) /\ Len(told') = Len(told) + 1 /\ Len(told) \in Nat
      /\ DOMAIN told = 1 .. Len(told) /\ DOMAIN told' = 1 .. Len(told')
      /\ \A i \in 1 .. Len(told) : told'[i] = told[i]
      /\ told'[Len(told')] = r
  BY <1>1, AppendProperties
<1>3. \A i \in DOMAIN told : i \in DOMAIN told' /\ told'[i] = told[i]
  BY <1>2
<1>4. \A s : Begun(told, s) => Begun(told', s)
  BY <1>3 DEF Begun
<1>5. Len(told') \in DOMAIN told' BY <1>2
<1>6. r.state = "Started" => Begun(told', r.stage)
  BY <1>2, <1>5 DEF Begun
<1>7. \A i \in DOMAIN told' : i \in DOMAIN told \/ i = Len(told')
  BY <1>2
<1> QED BY <1>2, <1>3, <1>4, <1>6, <1>7

\* What is said of a stage that was started keeps the first part of StartsFirst.
LEMMA SaidOfStarted ==
  ASSUME TrackerTypes, StartsFirst, NEW r \in Reports, told' = Append(told, r), Begun(told', r.stage)
  PROVE  \A i \in DOMAIN told' : \E j \in 1 .. i : told'[j].stage = told'[i].stage /\ told'[j].state = "Started"
<1> SUFFICES ASSUME NEW i \in DOMAIN told'
             PROVE  \E j \in 1 .. i : told'[j].stage = told'[i].stage /\ told'[j].state = "Started"
  OBVIOUS
<1>1. CASE i \in DOMAIN told
  <2>1. PICK j \in 1 .. i : told[j].stage = told[i].stage /\ told[j].state = "Started"
    BY <1>1 DEF StartsFirst
  <2>2. j \in DOMAIN told BY <1>1, SaidStays
  <2> QED BY <2>1, <2>2, <1>1, SaidStays
<1>2. CASE i = Len(told')
  <2>1. PICK j \in DOMAIN told' : told'[j].stage = r.stage /\ told'[j].state = "Started"
    BY DEF Begun
  <2>2. j \in 1 .. i /\ told'[i] = r BY <1>2, SaidStays
  <2> QED BY <2>1, <2>2
<1> QED BY <1>1, <1>2, SaidStays

LEMMA TrackerInit == ASSUME T!TrackerAssumption, T!Init PROVE TrackerInv
<1>1. TrackerTypes
  <2>1. todo \in Seq(T!Events) BY DEF T!Init, T!TrackerAssumption
  <2>2. DOMAIN stages = {} /\ stages \in [DOMAIN stages -> Int] BY DEF T!Init
  <2>4. beat \in [at : {"wait", "taken", "current", "stopped"}, snapshot : Snapshots]
    BY StatusTypes DEF T!Init, T!Waiting
  <2> QED BY <2>1, <2>2, <2>4, StatusTypes DEF T!Init, TrackerTypes
<1>2. DOMAIN told = {} /\ DOMAIN work = {} /\ DOMAIN stages = {} /\ Len(work) = 0 BY DEF T!Init
<1>3. StartsFirst BY <1>2 DEF T!Init, StartsFirst, T!Waiting
<1>4. EndsInOrder BY <1>2 DEF T!Init, EndsInOrder, T!Waiting
<1>5. FinalSeen BY <1>2 DEF FinalSeen
<1> QED BY <1>1, <1>3, <1>4, <1>5 DEF TrackerInv

\* While the thread runs no end was reported.
LEMMA NotEnded == ASSUME TrackerInv, beat.at # "stopped" PROVE \A i \in DOMAIN told : ~told[i].final
<1> SUFFICES ASSUME NEW i \in DOMAIN told PROVE ~told[i].final OBVIOUS
<1>1. told[i] \in Reports BY DEF TrackerInv, TrackerTypes
<1> QED BY <1>1 DEF TrackerInv, FinalSeen, Reports

LEMMA FourSteps == \A a, b, c, d \in Steps : <<a>> \o <<b, c, d>> = <<a, b, c, d>>
<1> SUFFICES ASSUME NEW a \in Steps, NEW b \in Steps, NEW c \in Steps, NEW d \in Steps
             PROVE  <<a>> \o <<b, c, d>> = <<a, b, c, d>>
  OBVIOUS
<1> DEFINE x == <<a>> \o <<b, c, d>>
<1>1. <<a>> \in Seq(Steps) /\ <<b, c, d>> \in Seq(Steps) /\ Len(<<a>>) = 1 /\ Len(<<b, c, d>>) = 3 OBVIOUS
<1>2. x \in Seq(Steps) /\ Len(x) = 1 + 3 /\ \A i \in 1 .. 1 + 3 : x[i] = IF i <= 1 THEN <<a>>[i] ELSE <<b, c, d>>[i - 1]
  BY <1>1, ConcatProperties
<1> HIDE DEF x
<1>3. x[1] = a /\ x[2] = b /\ x[3] = c /\ x[4] = d BY <1>2
<1>4. x = <<a, b, c, d>> BY <1>2, <1>3
<1> QED BY <1>4 DEF x

LEMMA ObserveKeeps == ASSUME TrackerInv, T!Observe PROVE TrackerInv'
<1> DEFINE e == Head(todo)
           known == e.stage \in DOMAIN stages
           before == IF known THEN stages[e.stage] ELSE 0
           count == T!Counted(e, before)
           status == T!Status(e.stage, e.state, count)
           first == T!Step("emit", T!Status(e.stage, "Started", 0))
<1>1. TrackerTypes /\ StartsFirst /\ EndsInOrder /\ FinalSeen BY DEF TrackerInv
<1>2. e \in T!Events /\ Tail(todo) \in Seq(T!Events) /\ e.stage \in T!Stages /\ e.state \in T!States /\ e.count \in Int /\ e.items \in Nat
  <2>1. todo \in Seq(T!Events) /\ todo # <<>> BY <1>1 DEF T!Observe, TrackerTypes
  <2>2. e \in T!Events /\ Tail(todo) \in Seq(T!Events) BY <2>1, HeadTailProperties
  <2> HIDE DEF e
  <2> QED BY <2>2 DEF T!Events
<1>3. count \in Int BY <1>1, <1>2 DEF T!Counted, TrackerTypes
<1>4. status \in Statuses /\ status.stage = e.stage /\ status.state = e.state BY <1>2, <1>3 DEF T!Status, Statuses
<1>5. first \in Steps /\ first.do = "emit" /\ first.status.stage = e.stage /\ first.status.state = "Started"
  <2>1. "Started" \in T!States BY DEF T!States
  <2> HIDE DEF e
  <2>2. T!Status(e.stage, "Started", 0) \in Statuses BY <1>2, <2>1, StatusTypes
  <2> QED BY <2>2, StatusTypes DEF T!Step, T!Status
<1>6. /\ \A d : T!Step(d, status).do = d /\ T!Step(d, status).status = status
      /\ \A d : T!Step(d, T!NoStatus).do = d
      /\ \A d \in {"emit", "bump", "set", "clear", "stop", "join", "final"} :
            T!Step(d, status) \in Steps /\ T!Step(d, T!NoStatus) \in Steps
  <2> HIDE DEF status
  <2> QED BY <1>4, StatusTypes DEF T!Step
<1>7. /\ stages' = [s \in DOMAIN stages \cup {e.stage} |-> IF s = e.stage THEN count ELSE stages[s]]
      /\ work = <<>> /\ todo' = Tail(todo) /\ ~stop
      /\ UNCHANGED <<snapshot, generation, stop, beat, beats, told>>
  BY DEF T!Observe
<1>8. \A s : Begun(told', s) <=> Begun(told, s) BY <1>7 DEF Begun
<1>9. Len(work) = 0 /\ DOMAIN work = {} BY <1>7
<1>10. \A s \in DOMAIN stages : Begun(told, s) BY <1>1, <1>9 DEF StartsFirst, BegunBy
<1> DEFINE some == IF e.state \in {"Started", "InProgress"}
                   THEN <<T!Step("emit", status), T!Step("bump", T!NoStatus), T!Step("set", status)>>
                   ELSE <<T!Step("bump", T!NoStatus), T!Step("clear", T!NoStatus), T!Step("emit", status)>>
<1>11. work' = (IF known \/ e.state = "Started" THEN <<>> ELSE <<first>>) \o some
  BY DEF T!Observe
<1>12. /\ work' \in Seq(Steps)
       /\ \A k \in DOMAIN work' : work'[k].do \in {"emit", "bump", "set", "clear"}
       /\ \A k \in DOMAIN work' : work'[k].do \in {"emit", "set"} => work'[k].status.stage = e.stage
       /\ 1 \in DOMAIN work'
       /\ Begun(told, e.stage) \/ (work'[1].do = "emit" /\ work'[1].status.stage = e.stage /\ work'[1].status.state = "Started")
  <2> HIDE DEF first, status, known, count
  <2>1. CASE e.state \in {"Started", "InProgress"}
    <3>1. CASE known
      <4>1. work' = <<T!Step("emit", status), T!Step("bump", T!NoStatus), T!Step("set", status)>> BY <1>11, <1>6, <2>1, <3>1
      <4>2. Begun(told, e.stage) BY <1>10, <3>1 DEF known
      <4> QED BY <4>1, <4>2, <1>4, <1>6
    <3>2. CASE ~known /\ e.state = "Started"
      <4>1. work' = <<T!Step("emit", status), T!Step("bump", T!NoStatus), T!Step("set", status)>> BY <1>11, <1>6, <2>1, <3>2
      <4> QED BY <4>1, <3>2, <1>4, <1>6
    <3>3. CASE ~known /\ e.state # "Started"
      <4>1. work' = <<first, T!Step("emit", status), T!Step("bump", T!NoStatus), T!Step("set", status)>> BY <1>11, <1>5, <1>6, <2>1, <3>3, FourSteps
      <4> QED BY <4>1, <1>4, <1>5, <1>6
    <3> QED BY <3>1, <3>2, <3>3
  <2>2. CASE e.state \notin {"Started", "InProgress"}
    <3>1. CASE known
      <4>1. work' = <<T!Step("bump", T!NoStatus), T!Step("clear", T!NoStatus), T!Step("emit", status)>> BY <1>11, <1>6, <2>2, <3>1
      <4>2. Begun(told, e.stage) BY <1>10, <3>1 DEF known
      <4> QED BY <4>1, <4>2, <1>4, <1>6
    <3>2. CASE ~known
      <4>1. work' = <<first, T!Step("bump", T!NoStatus), T!Step("clear", T!NoStatus), T!Step("emit", status)>> 
        <5>1. work' = <<first>> \o <<T!Step("bump", T!NoStatus), T!Step("clear", T!NoStatus), T!Step("emit", status)>> BY <1>11, <2>2, <3>2
        <5>2. T!Step("bump", T!NoStatus) \in Steps /\ T!Step("clear", T!NoStatus) \in Steps /\ T!Step("emit", status) \in Steps BY <1>6
        <5> QED BY <5>1, <5>2, <1>5, FourSteps
      <4> QED BY <4>1, <1>4, <1>5, <1>6
    <3> QED BY <3>1, <3>2
  <2> QED BY <2>1, <2>2
<1>13. \A k \in DOMAIN work' : BegunBy(told', work', e.stage, k)
  <2>1. DOMAIN work' = 1 .. Len(work') BY <1>12
  <2>2. \A k \in DOMAIN work' : 1 \in 1 .. k BY <2>1
  <2> QED BY <2>2, <1>8, <1>12 DEF BegunBy
<1>14. TrackerTypes'
  <2>1. DOMAIN stages' = DOMAIN stages \cup {e.stage} BY <1>7
  <2>2. DOMAIN stages' \subseteq T!Stages
    BY <2>1, <1>1, <1>2 DEF TrackerTypes
  <2>3. stages' \in [DOMAIN stages' -> Int]
    <3> HIDE DEF count, e
    <3> QED BY <2>1, <1>1, <1>3, <1>7 DEF TrackerTypes
  <2> QED BY <1>1, <1>2, <1>7, <1>12, <2>2, <2>3 DEF TrackerTypes
<1>15. StartsFirst'
  <2>1. \A k \in DOMAIN work' : work'[k].do \in {"emit", "set", "final"} => BegunBy(told', work', work'[k].status.stage, k)
    BY <1>12, <1>13
  <2>2. Len(work') \in DOMAIN work' BY <1>12
  <2>3. \A s \in DOMAIN stages' : BegunBy(told', work', s, Len(work'))
    <3>1. \A s \in DOMAIN stages' : s = e.stage \/ s \in DOMAIN stages BY <1>7
    <3>2. \A s \in DOMAIN stages : BegunBy(told', work', s, Len(work')) BY <1>8, <1>10 DEF BegunBy
    <3>3. BegunBy(told', work', e.stage, Len(work')) BY <1>13, <2>2
    <3> QED BY <3>1, <3>2, <3>3
  <2>4. /\ \A i \in DOMAIN told' : \E j \in 1 .. i : told'[j].stage = told'[i].stage /\ told'[j].state = "Started"
        /\ snapshot' # T!NoSnapshot => Begun(told', snapshot'.status.stage)
        /\ beat'.at \in {"taken", "current"} => Begun(told', beat'.snapshot.status.stage)
    BY <1>1, <1>7, <1>8 DEF StartsFirst
  <2> QED BY <2>1, <2>3, <2>4 DEF StartsFirst
<1>16. EndsInOrder'
  <2>1. beat'.at # "stopped" /\ ~stop' BY <1>1, <1>7 DEF EndsInOrder
  <2> QED BY <2>1, <1>12 DEF EndsInOrder
<1>17. FinalSeen'
  <2>1. \A i \in DOMAIN told : ~told[i].final BY NotEnded, <1>1, <1>7 DEF EndsInOrder
  <2> QED BY <2>1, <1>7 DEF FinalSeen
<1> QED BY <1>14, <1>15, <1>16, <1>17 DEF TrackerInv

LEMMA CloseAllKeeps == ASSUME TrackerInv, NEW state \in {"Completed", "Failed"}, T!CloseAll(state) PROVE TrackerInv'
<1> DEFINE n == T!Cardinality(DOMAIN stages)
           Order(s) == {s[i] : i \in DOMAIN s} = DOMAIN stages
           order == CHOOSE s \in [1 .. n -> DOMAIN stages] : Order(s)
           close == <<T!Step("bump", T!NoStatus), T!Step("clear", T!NoStatus), T!Step("stop", T!NoStatus), T!Step("join", T!NoStatus)>>
           ends == [i \in DOMAIN order |-> T!Step("final", T!Status(order[i], state, stages[order[i]]))]
<1>1. TrackerTypes /\ StartsFirst /\ EndsInOrder /\ FinalSeen BY DEF TrackerInv
<1>2. n \in Nat /\ ExistsBijection(1 .. n, DOMAIN stages) BY <1>1, StagesFinite, FS_CardinalityType, TFinite
<1>3. \E s \in [1 .. n -> DOMAIN stages] : Order(s)
  <2>1. PICK s \in Bijection(1 .. n, DOMAIN stages) : TRUE BY <1>2 DEF ExistsBijection
  <2>2. s \in [1 .. n -> DOMAIN stages] /\ \A t \in DOMAIN stages : \E i \in 1 .. n : s[i] = t
    BY <2>1 DEF Bijection, Injection, Surjection
  <2> QED BY <2>2
<1>4. order \in [1 .. n -> DOMAIN stages]
  <2> HIDE DEF Order, n
  <2> QED BY <1>3
<1>5. work = <<>> /\ ~stop /\ work' = close \o ends /\ todo' = <<>>
      /\ UNCHANGED <<stages, snapshot, generation, stop, beat, beats, told>>
  BY DEF T!CloseAll
<1>6. close \in Seq(Steps) /\ Len(close) = 4 /\ close[1].do = "bump" /\ close[2].do = "clear" /\ close[3].do = "stop" /\ close[4].do = "join"
  BY StatusTypes DEF T!Step
<1>7. /\ \A i \in 1 .. n : ends[i].do = "final" /\ ends[i].status.stage = order[i] /\ ends[i].status.count = stages[order[i]]
      /\ \A i \in 1 .. n : ends[i] \in Steps /\ order[i] \in DOMAIN stages
      /\ DOMAIN ends = 1 .. n
  <2> HIDE DEF order, n
  <2>1. DOMAIN order = 1 .. n BY <1>4
  <2>2. \A i \in 1 .. n : order[i] \in DOMAIN stages /\ order[i] \in T!Stages /\ stages[order[i]] \in Int
    BY <1>1, <1>4 DEF TrackerTypes
  <2>3. \A i \in 1 .. n : ends[i] = T!Step("final", T!Status(order[i], state, stages[order[i]])) BY <2>1
  <2>4. state \in T!States BY DEF T!States
  <2>5. \A i \in 1 .. n : ends[i] \in Steps BY <2>2, <2>3, <2>4, StatusTypes
  <2> QED BY <2>1, <2>2, <2>3, <2>5 DEF T!Step, T!Status
<1>8. ends \in Seq(Steps) /\ Len(ends) = n
  <2> HIDE DEF ends, n
  <2>1. ends = [i \in 1 .. n |-> ends[i]] BY <1>7 DEF ends
  <2>2. ends \in [1 .. n -> Steps] BY <1>7, <2>1
  <2> QED BY <1>2, <2>2
<1>9. /\ work' \in Seq(Steps) /\ DOMAIN work' = 1 .. n + 4
      /\ \A k \in 1 .. 4 : work'[k] = close[k]
      /\ \A k \in DOMAIN work' : k > 4 => k - 4 \in 1 .. n /\ work'[k] = ends[k - 4]
  <2> HIDE DEF ends, close, n
  <2>1. /\ work' \in Seq(Steps) /\ Len(work') = 4 + n
        /\ \A k \in 1 .. 4 + n : work'[k] = IF k <= 4 THEN close[k] ELSE ends[k - 4]
    <3>1. PICK x : x = close \o ends OBVIOUS
    <3>2. /\ x \in Seq(Steps) /\ Len(x) = Len(close) + Len(ends)
          /\ \A k \in 1 .. Len(close) + Len(ends) : x[k] = IF k <= Len(close) THEN close[k] ELSE ends[k - Len(close)]
      BY <1>6, <1>8, <3>1, ConcatProperties
    <3>3. work' = x BY <1>5, <3>1
    <3> QED BY <3>2, <3>3, <1>6, <1>8
  <2>2. DOMAIN work' = 1 .. n + 4 BY <1>2, <2>1
  <2>3. \A k \in 1 .. 4 : k \in 1 .. 4 + n BY <1>2
  <2>4. \A k \in 1 .. 4 + n : k > 4 => k - 4 \in 1 .. n BY <1>2
  <2> QED BY <1>2, <2>1, <2>2, <2>3, <2>4
<1>10. /\ 4 \in DOMAIN work' /\ work'[4].do = "join" /\ work'[3].do = "stop" /\ work'[1].do = "bump" /\ work'[2].do = "clear"
       /\ \A k \in DOMAIN work' : k > 4 =>
            /\ work'[k].do = "final" /\ work'[k].status.stage \in DOMAIN stages
            /\ work'[k].status.count = stages[work'[k].status.stage]
       /\ \A k \in DOMAIN work' : k \in Nat /\ (k = 1 \/ k = 2 \/ k = 3 \/ k = 4 \/ k > 4)
  <2> HIDE DEF ends, close, n, order
  <2>1. \A k \in DOMAIN work' : k \in Nat /\ (k = 1 \/ k = 2 \/ k = 3 \/ k = 4 \/ k > 4) BY <1>2, <1>9
  <2>2. 4 \in DOMAIN work' BY <1>2, <1>9
  <2> QED BY <1>6, <1>7, <1>9, <2>1, <2>2
<1>11. \A s : Begun(told', s) <=> Begun(told, s) BY <1>5 DEF Begun
<1>12. \A s \in DOMAIN stages : Begun(told, s)
  <2>1. Len(work) = 0 BY <1>5
  <2> QED BY <1>1, <2>1 DEF StartsFirst, BegunBy
<1> HIDE DEF ends, close, n, order
<1>13. TrackerTypes'
  <2>1. <<>> \in Seq(T!Events) OBVIOUS
  <2> QED BY <1>1, <1>5, <1>9, <2>1 DEF TrackerTypes
<1>14. StartsFirst'
  <2>1. \A k \in DOMAIN work' : work'[k].do \in {"emit", "set", "final"} => BegunBy(told', work', work'[k].status.stage, k)
    BY <1>10, <1>11, <1>12 DEF BegunBy
  <2>2. \A s \in DOMAIN stages' : BegunBy(told', work', s, Len(work')) BY <1>5, <1>11, <1>12 DEF BegunBy
  <2>3. /\ \A i \in DOMAIN told' : \E j \in 1 .. i : told'[j].stage = told'[i].stage /\ told'[j].state = "Started"
        /\ snapshot' # T!NoSnapshot => Begun(told', snapshot'.status.stage)
        /\ beat'.at \in {"taken", "current"} => Begun(told', beat'.snapshot.status.stage)
    BY <1>1, <1>5, <1>11 DEF StartsFirst
  <2> QED BY <2>1, <2>2, <2>3 DEF StartsFirst
<1>15. EndsInOrder'
  <2>1. beat'.at # "stopped" /\ ~stop' BY <1>1, <1>5 DEF EndsInOrder
  <2>2. \A j, k \in DOMAIN work' : j < k =>
          /\ work'[j].do = "stop" => work'[k].do \in {"join", "final"}
          /\ work'[j].do \in {"join", "final"} => work'[k].do = "final"
    BY <1>10
  <2>3. \A k \in DOMAIN work' : work'[k].do = "final" =>
          /\ work'[k].status.stage \in DOMAIN stages'
          /\ work'[k].status.count = stages'[work'[k].status.stage]
          /\ \E j \in DOMAIN work' : j < k /\ work'[j].do = "join"
    BY <1>5, <1>10
  <2> QED BY <2>1, <2>2, <2>3 DEF EndsInOrder
<1>16. FinalSeen'
  <2>1. \A i \in DOMAIN told : ~told[i].final BY NotEnded, <1>1, <1>5 DEF EndsInOrder
  <2> QED BY <2>1, <1>5 DEF FinalSeen
<1> QED BY <1>13, <1>14, <1>15, <1>16 DEF TrackerInv


LEMMA WorkKeeps == ASSUME TrackerInv, T!Work PROVE TrackerInv'
<1>1. TrackerTypes /\ StartsFirst /\ EndsInOrder /\ FinalSeen BY DEF TrackerInv
<1>2. PICK h : h = Head(work) OBVIOUS
<1>3. /\ work # <<>> /\ work' = Tail(work)
      /\ told' = IF h.do \in {"emit", "final"} THEN Append(told, T!Said(h.status, h.do = "final")) ELSE told
      /\ generation' = IF h.do = "bump" THEN generation + 1 ELSE generation
      /\ stop' = (stop \/ h.do = "stop")
      /\ h.do = "join" => beat.at = "stopped"
      /\ UNCHANGED <<todo, stages, beat, beats>>
  BY <1>2 DEF T!Work, T!Joined
<1>4. snapshot' = CASE h.do = "set"   -> [status |-> h.status, generation |-> generation]
                    [] h.do = "clear" -> T!NoSnapshot
                    [] OTHER -> snapshot
  BY <1>2 DEF T!Work
<1>5. /\ work \in Seq(Steps) /\ DOMAIN work = 1 .. Len(work) /\ Len(work) \in Nat /\ Len(work) >= 1
      /\ work' \in Seq(Steps) /\ Len(work') = Len(work) - 1 /\ DOMAIN work' = 1 .. Len(work')
      /\ \A k \in 1 .. Len(work') : work'[k] = work[k + 1]
      /\ h = work[1] /\ h \in Steps
  <2>1. work \in Seq(Steps) /\ work # <<>> BY <1>1, <1>3 DEF TrackerTypes
  <2>2. Len(work) \in Nat /\ Len(work) # 0 BY <2>1, EmptySeq, LenProperties
  <2> QED BY <2>1, <2>2, <1>2, <1>3, HeadTailProperties, LenProperties
<1>6. \A k \in DOMAIN work' : k + 1 \in DOMAIN work /\ work'[k] = work[k + 1]
  BY <1>5
<1>7. 1 \in DOMAIN work BY <1>5
<1>8. h.do \in {"emit", "bump", "set", "clear", "stop", "join", "final"} /\ h.status \in Statuses
  BY <1>5 DEF Steps
<1>9. PICK r : r = T!Said(h.status, h.do = "final") OBVIOUS
<1>10. r \in Reports /\ r.stage = h.status.stage /\ r.state = h.status.state /\ r.count = h.status.count /\ (r.final <=> h.do = "final")
  <2>1. (h.do = "final") \in BOOLEAN OBVIOUS
  <2>2. r \in Reports BY <1>8, <1>9, <2>1, StatusTypes
  <2> QED BY <1>9, <2>2 DEF T!Said
<1>11. \A s : Begun(told, s) => Begun(told', s)
  <2>1. CASE h.do \in {"emit", "final"} BY <2>1, <1>1, <1>3, <1>9, <1>10, SaidStays
  <2>2. CASE h.do \notin {"emit", "final"} BY <2>2, <1>3
  <2> QED BY <2>1, <2>2
<1>12. h.do = "emit" /\ h.status.state = "Started" => Begun(told', h.status.stage)
  BY <1>1, <1>3, <1>9, <1>10, SaidStays
<1>13. ASSUME NEW s, NEW k \in DOMAIN work, BegunBy(told, work, s, k) PROVE BegunBy(told', work', s, k - 1)
  <2>1. CASE Begun(told, s) BY <2>1, <1>11 DEF BegunBy
  <2>2. CASE \E j \in 1 .. k : work[j].do = "emit" /\ work[j].status.stage = s /\ work[j].status.state = "Started"
    <3>1. PICK j \in 1 .. k : work[j].do = "emit" /\ work[j].status.stage = s /\ work[j].status.state = "Started" BY <2>2
    <3>2. CASE j = 1 BY <3>1, <3>2, <1>5, <1>12 DEF BegunBy
    <3>3. CASE j # 1
      <4>1. j - 1 \in 1 .. k - 1 /\ j - 1 \in 1 .. Len(work') /\ (j - 1) + 1 = j BY <3>3, <1>5
      <4>2. work'[j - 1] = work[j] BY <4>1, <1>5
      <4> QED BY <4>1, <4>2, <3>1 DEF BegunBy
    <3> QED BY <3>2, <3>3
  <2> QED BY <1>13, <2>1, <2>2 DEF BegunBy
<1>14. h.do \in {"emit", "set", "final"} => Begun(told', h.status.stage)
  <2> SUFFICES ASSUME h.do \in {"emit", "set", "final"} PROVE Begun(told', h.status.stage) OBVIOUS
  <2>1. BegunBy(told, work, h.status.stage, 1) BY <1>1, <1>5, <1>7 DEF StartsFirst
  <2>2. BegunBy(told', work', h.status.stage, 1 - 1) BY <2>1, <1>7, <1>13
  <2>3. \A j : j \notin 1 .. (1 - 1) OBVIOUS
  <2> QED BY <2>2, <2>3 DEF BegunBy
<1>15. TrackerTypes'
  <2>1. told' \in Seq(Reports)
    <3>1. CASE h.do \in {"emit", "final"} BY <3>1, <1>1, <1>3, <1>9, <1>10, SaidStays
    <3>2. CASE h.do \notin {"emit", "final"} BY <3>2, <1>1, <1>3 DEF TrackerTypes
    <3> QED BY <3>1, <3>2
  <2>2. generation' \in Nat BY <1>1, <1>3 DEF TrackerTypes
  <2>3. snapshot' \in Snapshots
    <3>1. [status |-> h.status, generation |-> generation] \in Snapshots BY <1>1, <1>8 DEF TrackerTypes, Snapshots
    <3> QED BY <3>1, <1>1, <1>4, StatusTypes DEF TrackerTypes
  <2> QED BY <1>1, <1>3, <1>5, <2>1, <2>2, <2>3 DEF TrackerTypes
<1>16. StartsFirst'
  <2>1. \A i \in DOMAIN told' : \E j \in 1 .. i : told'[j].stage = told'[i].stage /\ told'[j].state = "Started"
    <3>1. CASE h.do \in {"emit", "final"} BY <3>1, <1>1, <1>3, <1>9, <1>10, <1>14, SaidOfStarted
    <3>2. CASE h.do \notin {"emit", "final"} BY <3>2, <1>1, <1>3 DEF StartsFirst
    <3> QED BY <3>1, <3>2
  <2>2. ASSUME NEW k \in DOMAIN work', work'[k].do \in {"emit", "set", "final"}
        PROVE  BegunBy(told', work', work'[k].status.stage, k)
    <3>1. k + 1 \in DOMAIN work /\ work'[k] = work[k + 1] /\ k \in Nat BY <1>5, <1>6
    <3>2. BegunBy(told, work, work'[k].status.stage, k + 1) BY <2>2, <3>1, <1>1 DEF StartsFirst
    <3>3. BegunBy(told', work', work'[k].status.stage, (k + 1) - 1) BY <3>1, <3>2, <1>13
    <3>4. (k + 1) - 1 = k BY <3>1
    <3> QED BY <3>3, <3>4
  <2>3. ASSUME NEW s \in DOMAIN stages' PROVE BegunBy(told', work', s, Len(work'))
    <3>1. BegunBy(told, work, s, Len(work)) /\ Len(work) \in DOMAIN work BY <1>1, <1>3, <1>5 DEF StartsFirst
    <3>2. BegunBy(told', work', s, Len(work) - 1) BY <3>1, <1>13
    <3> QED BY <3>2, <1>5
  <2>4. snapshot' # T!NoSnapshot => Begun(told', snapshot'.status.stage)
    <3>1. CASE h.do = "set"
      <4>1. snapshot' = [status |-> h.status, generation |-> generation] BY <3>1, <1>4
      <4> QED BY <4>1, <3>1, <1>14
    <3>2. CASE h.do = "clear" BY <3>2, <1>4
    <3>3. CASE h.do \notin {"set", "clear"} BY <3>3, <1>1, <1>4, <1>11 DEF StartsFirst
    <3> QED BY <3>1, <3>2, <3>3
  <2>5. beat'.at \in {"taken", "current"} => Begun(told', beat'.snapshot.status.stage)
    BY <1>1, <1>3, <1>11 DEF StartsFirst
  <2> QED BY <2>1, <2>2, <2>3, <2>4, <2>5 DEF StartsFirst
<1>17. EndsInOrder'
  <2>1. \A k \in DOMAIN work' : 1 < k + 1 BY <1>5
  <2>2. stop' => \A k \in DOMAIN work' : work'[k].do \in {"join", "final"}
    <3>1. CASE stop BY <3>1, <1>1, <1>6 DEF EndsInOrder
    <3>2. CASE h.do = "stop" BY <3>2, <2>1, <1>1, <1>5, <1>6, <1>7 DEF EndsInOrder
    <3> QED BY <3>1, <3>2, <1>3
  <2>3. ASSUME NEW j \in DOMAIN work', NEW k \in DOMAIN work', j < k
        PROVE  /\ work'[j].do = "stop" => work'[k].do \in {"join", "final"}
               /\ work'[j].do \in {"join", "final"} => work'[k].do = "final"
    <3>1. j + 1 < k + 1 BY <2>3, <1>5
    <3> QED BY <3>1, <1>1, <1>6 DEF EndsInOrder
  <2>4. beat'.at = "stopped" => stop' BY <1>1, <1>3 DEF EndsInOrder
  <2>5. ASSUME NEW k \in DOMAIN work', work'[k].do = "final"
        PROVE  /\ work'[k].status.stage \in DOMAIN stages'
               /\ work'[k].status.count = stages'[work'[k].status.stage]
               /\ beat'.at = "stopped" \/ \E j \in DOMAIN work' : j < k /\ work'[j].do = "join"
    <3>1. /\ work'[k].status.stage \in DOMAIN stages
          /\ work'[k].status.count = stages[work'[k].status.stage]
          /\ beat.at = "stopped" \/ \E j \in DOMAIN work : j < k + 1 /\ work[j].do = "join"
      BY <2>5, <1>1, <1>6 DEF EndsInOrder
    <3>2. CASE beat.at = "stopped" BY <3>1, <3>2, <1>3
    <3>3. CASE \E j \in DOMAIN work : j < k + 1 /\ work[j].do = "join"
      <4>1. PICK j \in DOMAIN work : j < k + 1 /\ work[j].do = "join" BY <3>3
      <4>2. CASE j = 1 BY <4>1, <4>2, <3>1, <1>3, <1>5
      <4>3. CASE j # 1
        <5>1. j - 1 \in DOMAIN work' /\ (j - 1) + 1 = j /\ j - 1 < k BY <4>1, <4>3, <1>5
        <5>2. work'[j - 1].do = "join" BY <4>1, <5>1, <1>6
        <5> QED BY <5>1, <5>2, <3>1, <1>3
      <4> QED BY <4>2, <4>3
    <3> QED BY <3>1, <3>2, <3>3
  <2> QED BY <2>2, <2>3, <2>4, <2>5 DEF EndsInOrder
<1>18. FinalSeen'
  <2>1. CASE h.do = "final"
    <3>1. beat.at = "stopped"
      <4>1. beat.at = "stopped" \/ \E j \in DOMAIN work : j < 1 /\ work[j].do = "join" BY <2>1, <1>1, <1>5, <1>7 DEF EndsInOrder
      <4> QED BY <4>1, <1>5
    <3>2. \A k \in DOMAIN work' : work'[k].do = "final"
      <4>1. \A k \in DOMAIN work' : 1 < k + 1 BY <1>5
      <4> QED BY <4>1, <2>1, <1>1, <1>5, <1>6, <1>7 DEF EndsInOrder
    <3>3. r.count = stages[r.stage] /\ r.final BY <2>1, <1>1, <1>5, <1>7, <1>10 DEF EndsInOrder
    <3>4. told' = Append(told, r) BY <2>1, <1>3, <1>9
    <3>5. /\ \A i \in DOMAIN told' : i \in Nat /\ ((i \in DOMAIN told /\ told'[i] = told[i] /\ i < Len(told')) \/ (i = Len(told') /\ told'[i] = r))
      <4>1. /\ \A i \in DOMAIN told : i \in DOMAIN told' /\ told'[i] = told[i]
            /\ \A i \in DOMAIN told' : i \in DOMAIN told \/ i = Len(told')
            /\ told'[Len(told')] = r /\ DOMAIN told = 1 .. Len(told) /\ DOMAIN told' = 1 .. Len(told')
            /\ Len(told') = Len(told) + 1 /\ Len(told) \in Nat
        BY <3>4, <1>1, <1>10, SaidStays
      <4> QED BY <4>1
    <3>6. \A i \in DOMAIN told' : told'[i].final => told'[i].count = stages[told'[i].stage]
      BY <3>3, <3>5, <1>1 DEF FinalSeen
    <3>7. \A i, j \in DOMAIN told' : i < j /\ told'[i].final => told'[j].final
      <4> SUFFICES ASSUME NEW i \in DOMAIN told', NEW j \in DOMAIN told', i < j, told'[i].final PROVE told'[j].final
        OBVIOUS
      <4>1. CASE j = Len(told') /\ told'[j] = r BY <4>1, <3>3
      <4>2. CASE j \in DOMAIN told /\ told'[j] = told[j] /\ j < Len(told')
        <5>1. i # Len(told') BY <4>2, <3>5, <3>4, <1>1, <1>10, SaidStays
        <5>2. i \in DOMAIN told /\ told'[i] = told[i] BY <3>5, <5>1
        <5> QED BY <4>2, <5>2, <1>1 DEF FinalSeen
      <4> QED BY <4>1, <4>2, <3>5
    <3> QED BY <3>1, <3>2, <3>6, <3>7, <1>3 DEF FinalSeen
  <2>2. CASE h.do = "emit"
    <3>1. \A i \in DOMAIN told : ~told[i].final BY <2>2, <1>1, <1>5, <1>7 DEF FinalSeen
    <3>2. told' = Append(told, r) BY <2>2, <1>3, <1>9
    <3>3. \A i \in DOMAIN told' : ~told'[i].final BY <2>2, <3>1, <3>2, <1>1, <1>10, SaidStays
    <3> QED BY <3>3 DEF FinalSeen
  <2>3. CASE h.do \notin {"emit", "final"}
    <3>1. told' = told BY <2>3, <1>3
    <3>2. \A i \in DOMAIN told : ~told[i].final BY <2>3, <1>1, <1>5, <1>7 DEF FinalSeen
    <3> QED BY <3>1, <3>2 DEF FinalSeen
  <2> QED BY <2>1, <2>2, <2>3
<1> QED BY <1>15, <1>16, <1>17, <1>18 DEF TrackerInv

\* The heartbeat thread: its steps leave the work and the stages alone.
LEMMA BeatKeeps ==
  ASSUME TrackerInv, T!Take \/ T!Compare \/ T!Report \/ T!Stopped
  PROVE  TrackerInv'
<1>1. TrackerTypes /\ StartsFirst /\ EndsInOrder /\ FinalSeen BY DEF TrackerInv
<1>2. UNCHANGED <<todo, stages, work, snapshot, generation, stop>> BY DEF T!Take, T!Compare, T!Report, T!Stopped
<1>3. beat \in [at : {"wait", "taken", "current", "stopped"}, snapshot : Snapshots] /\ beat.snapshot.status \in Statuses
  BY <1>1 DEF TrackerTypes, Snapshots
<1>4. /\ beat.at # "stopped"
      /\ beat' \in [at : {"wait", "taken", "current", "stopped"}, snapshot : Snapshots]
      /\ beat'.at = "stopped" => stop
      /\ beat'.at \in {"taken", "current"} => Begun(told, beat'.snapshot.status.stage)
  <2>1. CASE T!Take
    <3>1. snapshot \in Snapshots BY <1>1 DEF TrackerTypes
    <3> QED BY <2>1, <3>1, <1>1 DEF T!Take, StartsFirst
  <2>2. CASE T!Compare
    <3>1. CASE beat.snapshot.generation = generation
      <4>1. beat.at = "taken" /\ beat' = [beat EXCEPT !.at = "current"] BY <2>2, <3>1 DEF T!Compare
      <4> QED BY <4>1, <1>1, <1>3 DEF StartsFirst
    <3>2. CASE beat.snapshot.generation # generation
      <4>1. beat.at = "taken" /\ beat' = T!Waiting BY <2>2, <3>2 DEF T!Compare
      <4> QED BY <4>1, StatusTypes DEF T!Waiting
    <3> QED BY <3>1, <3>2
  <2>3. CASE T!Report BY <2>3, StatusTypes DEF T!Report, T!Waiting
  <2>4. CASE T!Stopped BY <2>4, StatusTypes DEF T!Stopped, T!Waiting
  <2> QED BY <2>1, <2>2, <2>3, <2>4
<1>5. \A i \in DOMAIN told : ~told[i].final BY <1>4, NotEnded
<1>6. /\ told' \in Seq(Reports)
      /\ \A i \in DOMAIN told' : ~told'[i].final
      /\ \A s : Begun(told, s) => Begun(told', s)
      /\ \A i \in DOMAIN told' : \E j \in 1 .. i : told'[j].stage = told'[i].stage /\ told'[j].state = "Started"
  <2>1. CASE told' = told BY <2>1, <1>1, <1>5 DEF TrackerTypes, StartsFirst
  <2>2. CASE T!Report
    <3>1. PICK r : r = T!Said([beat.snapshot.status EXCEPT !.state = "InProgress"], FALSE) OBVIOUS
    <3>2. told' = Append(told, r) /\ beat.at = "current" BY <2>2, <3>1 DEF T!Report
    <3>3. [beat.snapshot.status EXCEPT !.state = "InProgress"] \in Statuses BY <1>3 DEF Statuses, T!States
    <3>4. r \in Reports BY <3>1, <3>3, StatusTypes
    <3>5. r.stage = beat.snapshot.status.stage /\ r.final = FALSE BY <3>1, <1>3 DEF T!Said, Statuses
    <3>6. Begun(told, r.stage) BY <3>2, <3>5, <1>1 DEF StartsFirst
    <3>7. \A s : Begun(told, s) => Begun(told', s) BY <3>2, <3>4, <1>1, SaidStays
    <3>8. \A i \in DOMAIN told' : \E j \in 1 .. i : told'[j].stage = told'[i].stage /\ told'[j].state = "Started"
      BY <3>2, <3>4, <3>6, <3>7, <1>1, SaidOfStarted
    <3>9. \A i \in DOMAIN told' : ~told'[i].final BY <3>2, <3>4, <3>5, <1>1, <1>5, SaidStays
    <3> QED BY <3>2, <3>4, <3>7, <3>8, <3>9, <1>1, SaidStays
  <2> QED BY <2>1, <2>2 DEF T!Take, T!Compare, T!Stopped
<1>7. TrackerTypes' BY <1>1, <1>2, <1>4, <1>6 DEF TrackerTypes
<1>8. StartsFirst'
  <2>1. /\ \A k \in DOMAIN work : work[k].do \in {"emit", "set", "final"} => BegunBy(told', work, work[k].status.stage, k)
        /\ \A s \in DOMAIN stages : BegunBy(told', work, s, Len(work))
        /\ snapshot # T!NoSnapshot => Begun(told', snapshot.status.stage)
    BY <1>1, <1>6 DEF StartsFirst, BegunBy
  <2> QED BY <2>1, <1>2, <1>4, <1>6 DEF StartsFirst
<1>9. EndsInOrder'
  <2>1. \A k \in DOMAIN work : work[k].do = "final" => \E j \in DOMAIN work : j < k /\ work[j].do = "join"
    BY <1>1, <1>4 DEF EndsInOrder
  <2> QED BY <2>1, <1>1, <1>2, <1>4 DEF EndsInOrder
<1>10. FinalSeen' BY <1>6 DEF FinalSeen
<1> QED BY <1>7, <1>8, <1>9, <1>10 DEF TrackerInv

LEMMA TrackerStuttering == ASSUME TrackerInv, UNCHANGED T!vars PROVE TrackerInv'
<1>1. UNCHANGED <<todo, stages, work, snapshot, generation, stop, beat, beats, told>> BY DEF T!vars
<1>2. TrackerTypes' BY <1>1 DEF TrackerInv, TrackerTypes
<1>3. StartsFirst' BY <1>1 DEF TrackerInv, StartsFirst
<1>4. EndsInOrder' BY <1>1 DEF TrackerInv, EndsInOrder
<1>5. FinalSeen' BY <1>1 DEF TrackerInv, FinalSeen
<1> QED BY <1>2, <1>3, <1>4, <1>5 DEF TrackerInv

\* What an observer is told, by the tracker and by the heartbeat thread: a stage
\* is reported as started first, none is in progress after the end of the pass
\* was reported, and a final count is the one the last event left.
THEOREM StatusesOrdered == ASSUME T!TrackerAssumption PROVE T!Spec => []T!StatusOrdered
<1>1. T!Init => TrackerInv BY TrackerInit
<1>2. TrackerInv /\ [T!Next]_(T!vars) => TrackerInv'
  <2> SUFFICES ASSUME TrackerInv, [T!Next]_(T!vars) PROVE TrackerInv' OBVIOUS
  <2>1. CASE T!Observe BY <2>1, ObserveKeeps
  <2>2. CASE T!Work BY <2>2, WorkKeeps
  <2>3. CASE \E state \in {"Completed", "Failed"} : T!CloseAll(state) BY <2>3, CloseAllKeeps
  <2>4. CASE T!Take \/ T!Compare \/ T!Report \/ T!Stopped BY <2>4, BeatKeeps
  <2>5. CASE UNCHANGED T!vars BY <2>5, TrackerStuttering
  <2> QED BY <2>1, <2>2, <2>3, <2>4, <2>5 DEF T!Next
<1>3. TrackerInv => T!StatusOrdered BY DEF TrackerInv, StartsFirst, FinalSeen, T!StatusOrdered
<1> QED BY <1>1, <1>2, <1>3, PTL DEF T!Spec

-----------------------------------------------------------------------------
(* The aggregate statuses of a wave, for every sequence of partitions.        *)

CONSTANT Sizes
VARIABLES completed, committed, ended, closing, outcome, heard

W == INSTANCE WaveStatus WITH seen <- heard

LEMMA WeightsAre == \A part, S : W!Weights(part, S) = Cardinality(W!Items(part, S))
BY DEF W!Weights, W!Cardinality, Cardinality, W!IsFiniteSet, IsFiniteSet

\* More partitions have no fewer items, and partitions without weight have none.
LEMMA WeightNatural == ASSUME W!WaveAssumption, NEW part, NEW i \in W!Partitions PROVE W!Weight(part, i) \in Nat
<1>1. Sizes[i] \in Nat BY DEF W!WaveAssumption, W!Partitions
<1> QED BY <1>1 DEF W!Weight

LEMMA ItemsFinite == ASSUME W!WaveAssumption, NEW part, NEW S \in SUBSET W!Partitions PROVE IsFiniteSet(W!Items(part, S))
<1> DEFINE F == {{i} \X (1 .. W!Weight(part, i)) : i \in S}
<1>1. IsFiniteSet(W!Partitions)
  <2>1. W!Partitions = 1 .. Len(Sizes) /\ Len(Sizes) \in Nat BY DEF W!WaveAssumption, W!Partitions
  <2> QED BY <2>1, FS_Interval
<1>2. IsFiniteSet(S) BY <1>1, FS_Subset
<1>3. IsFiniteSet(F)
  <2> DEFINE f == [i \in S |-> {i} \X (1 .. W!Weight(part, i))]
  <2>1. f \in Surjection(S, F) BY Zenon DEF Surjection
  <2> HIDE DEF f, F
  <2> QED BY <1>2, <2>1, FS_Surjection
<1>4. \A X \in F : IsFiniteSet(X)
  <2> SUFFICES ASSUME NEW i \in S PROVE IsFiniteSet({i} \X (1 .. W!Weight(part, i))) OBVIOUS
  <2>1. W!Weight(part, i) \in Nat BY WeightNatural
  <2>2. IsFiniteSet({i}) BY FS_Singleton
  <2>3. IsFiniteSet(1 .. W!Weight(part, i)) BY <2>1, FS_Interval
  <2> QED BY <2>2, <2>3, FS_Product
<1>5. IsFiniteSet(UNION F)
  <2> HIDE DEF F
  <2> QED BY <1>3, <1>4, FS_UNION
<1> QED BY <1>5 DEF W!Items

LEMMA WeightsGrow ==
    ASSUME W!WaveAssumption, NEW part, NEW U \in SUBSET W!Partitions, NEW S \in SUBSET U
    PROVE  /\ W!Weights(part, S) \in Nat /\ W!Weights(part, U) \in Nat
           /\ W!Weights(part, S) <= W!Weights(part, U)
<1>1. S \in SUBSET W!Partitions OBVIOUS
<1>2. IsFiniteSet(W!Items(part, S)) /\ IsFiniteSet(W!Items(part, U)) BY <1>1, ItemsFinite
<1>3. W!Items(part, S) \in SUBSET W!Items(part, U) BY DEF W!Items
<1>4. PICK X, Y : X = W!Items(part, S) /\ Y = W!Items(part, U) OBVIOUS
<1>5. Cardinality(X) \in Nat /\ Cardinality(Y) \in Nat /\ Cardinality(X) <= Cardinality(Y)
  BY <1>2, <1>3, <1>4, FS_Subset, FS_CardinalityType
<1> QED BY <1>4, <1>5, WeightsAre

LEMMA NoWeight ==
    ASSUME W!WaveAssumption, NEW part, NEW S, \A i \in S : W!Weight(part, i) = 0
    PROVE  W!Weights(part, S) = 0
<1>1. \A i \in S : {i} \X (1 .. W!Weight(part, i)) = {}
  <2>1. 1 .. 0 = {} OBVIOUS
  <2> QED BY <2>1
<1>2. W!Items(part, S) = {} BY <1>1 DEF W!Items
<1> QED BY <1>2, FS_EmptySet, WeightsAre

\* The counted partitions are those before some number, and grow with the flags.
LEMMA PrefixIs ==
    ASSUME W!WaveAssumption, NEW flags
    PROVE  /\ W!Prefix(flags) \in SUBSET W!Partitions
           /\ \E m \in 0 .. Len(Sizes) : W!Prefix(flags) = 1 .. m
<1> DEFINE n == Len(Sizes)
           bad == {i \in 1 .. n : ~flags[i]}
<1>1. W!Partitions = 1 .. n /\ n \in Nat BY DEF W!WaveAssumption, W!Partitions
<1>2. W!Prefix(flags) = {i \in 1 .. n : \A j \in 1 .. i : flags[j]} BY <1>1 DEF W!Prefix
<1> HIDE DEF n
<1>3. CASE bad = {}
  <2>1. \A i \in 1 .. n : flags[i] BY <1>3
  <2>2. W!Prefix(flags) = 1 .. n
    <3> SUFFICES ASSUME NEW i \in 1 .. n, NEW j \in 1 .. i PROVE flags[j] BY <1>2
    <3>1. j \in 1 .. n BY <1>1
    <3> QED BY <2>1, <3>1
  <2>3. n \in 0 .. n BY <1>1
  <2> QED BY <1>1, <1>2, <2>2, <2>3 DEF n
<1>4. CASE bad # {}
  <2>1. bad \in SUBSET Nat BY <1>1
  <2>2. PICK x \in bad : \A y \in bad : x =< y
    <3> HIDE DEF bad
    <3> QED BY <1>4, <2>1, LeastNumber
  <2>3. x \in 1 .. n /\ ~flags[x] BY <2>2
  <2>4. ASSUME NEW j \in 1 .. n, j < x PROVE flags[j]
    <3>1. j \notin bad BY <1>1, <2>2, <2>3, <2>4
    <3> QED BY <3>1
  <2> HIDE DEF bad
  <2>5. W!Prefix(flags) = 1 .. (x - 1)
    <3>1. ASSUME NEW i \in 1 .. (x - 1) PROVE i \in 1 .. n /\ \A j \in 1 .. i : flags[j]
      <4>1. i \in 1 .. n BY <1>1, <2>3
      <4>2. ASSUME NEW j \in 1 .. i PROVE flags[j]
        <5>1. j \in 1 .. n /\ j < x BY <1>1, <2>3, <4>1
        <5> QED BY <2>4, <5>1
      <4> QED BY <4>1, <4>2
    <3>2. ASSUME NEW i \in 1 .. n, \A j \in 1 .. i : flags[j] PROVE i \in 1 .. (x - 1)
      <4>1. ~(x \in 1 .. i) BY <2>3, <3>2
      <4> QED BY <1>1, <2>3, <4>1
    <3> QED BY <1>2, <3>1, <3>2
  <2>6. x - 1 \in 0 .. n BY <1>1, <2>3
  <2>7. W!Prefix(flags) \in SUBSET W!Partitions BY <1>1, <1>2
  <2> QED BY <2>5, <2>6, <2>7 DEF n
<1> QED BY <1>3, <1>4

Sums(part) == {W!Weights(part, 1 .. m) : m \in 0 .. Len(Sizes)}

LEMMA PrefixCount ==
    ASSUME W!WaveAssumption, NEW part, NEW flags
    PROVE  W!Weights(part, W!Prefix(flags)) \in Sums(part) /\ W!Weights(part, W!Prefix(flags)) \in Nat
<1>1. PICK m \in 0 .. Len(Sizes) : W!Prefix(flags) = 1 .. m BY PrefixIs
<1>2. W!Weights(part, W!Prefix(flags)) \in Nat BY PrefixIs, WeightsGrow
<1> QED BY <1>1, <1>2 DEF Sums

LEMMA PrefixGrows ==
    ASSUME W!WaveAssumption, NEW part, NEW f, NEW g, \A i \in W!Partitions : f[i] => g[i]
    PROVE  W!Weights(part, W!Prefix(f)) <= W!Weights(part, W!Prefix(g))
<1>1. W!Partitions = 1 .. Len(Sizes) /\ Len(Sizes) \in Nat BY DEF W!WaveAssumption, W!Partitions
<1>2. W!Prefix(f) \in SUBSET W!Prefix(g)
  <2> SUFFICES ASSUME NEW i \in W!Partitions, \A j \in 1 .. i : f[j], NEW j \in 1 .. i PROVE g[j] BY DEF W!Prefix
  <2>1. j \in W!Partitions BY <1>1
  <2> QED BY <2>1
<1>3. W!Prefix(g) \in SUBSET W!Partitions BY PrefixIs
<1> QED BY <1>2, <1>3, WeightsGrow

-----------------------------------------------------------------------------
\* The inductive invariant.
WaveStates == {"Started", "InProgress", "Completed", "Failed", "none"}
WaveReports == [state : WaveStates, count : Nat, aggregate : BOOLEAN]

WaveTypes ==
    /\ completed \in [W!Phases -> [W!Partitions -> BOOLEAN]]
    /\ committed \in [W!Phases -> Nat]
    /\ ended \in [W!Partitions -> {"no", "ok", "failed", "cancelled"}]
    /\ beat \in [W!Phases -> [at : {"wait", "tell", "stopped"}, count : Nat]]
    /\ closing \in SUBSET W!Phases
    /\ outcome \in {"none", "Completed", "Failed"}
    /\ heard \in [{"planning", "load"} -> Seq(WaveReports)]

\* The flags say which partitions ended well, and the counter counts the prefix.
FlagsExact ==
    \A part \in W!Phases :
        /\ \A i \in W!Partitions : completed[part][i] <=> W!Weight(part, i) = 0 \/ ended[i] = "ok"
        /\ committed[part] = W!Weights(part, W!Prefix(completed[part]))

\* The outcome is that of all jobs, and a phase is stopped only after that.
OutcomeExact ==
    /\ outcome = "none" => closing = {}
    /\ outcome # "none" => \A i \in W!Partitions : ended[i] # "no"
    /\ outcome = "Completed" => \A i \in W!Partitions : ended[i] = "ok"
    /\ \A part \in W!Phases : beat[part].at = "stopped" => outcome # "none" /\ part \notin closing

\* What a phase was told is what its counter was at some time, and its last
\* status is what the counter is.
Counted(part) == {i \in DOMAIN heard[part] : heard[part][i].aggregate}
WaveInHand(part) ==
    beat[part].at = "tell" => /\ beat[part].count \in Sums(part) /\ beat[part].count <= committed[part]
                               /\ \A i \in Counted(part) : heard[part][i].count <= beat[part].count
ToldExact ==
    \A part \in W!Phases :
        /\ WaveInHand(part)
        /\ \A i \in Counted(part) :
              /\ heard[part][i].count \in Sums(part) /\ heard[part][i].count <= committed[part]
              /\ heard[part][i].state \in {"Completed", "Failed"} =>
                    /\ beat[part].at = "stopped" /\ heard[part][i].state = outcome
                    /\ heard[part][i].count = committed[part]
        /\ \A i, j \in Counted(part) : i < j =>
              /\ heard[part][i].count <= heard[part][j].count
              /\ heard[part][i].state \notin {"Completed", "Failed"}

WaveInv == WaveTypes /\ FlagsExact /\ OutcomeExact /\ ToldExact

LEMMA PhaseNames == W!Phases \in SUBSET {"planning", "load"} BY DEF W!Phases

\* A report told to a phase.
LEMMA Telling ==
    ASSUME WaveInv, NEW part \in {"planning", "load"}, NEW r \in WaveReports,
           heard' = [heard EXCEPT ![part] = Append(@, r)]
    PROVE  /\ heard' \in [{"planning", "load"} -> Seq(WaveReports)]
           /\ \A p \in {"planning", "load"} : p # part => heard'[p] = heard[p]
           /\ Len(heard'[part]) = Len(heard[part]) + 1 /\ Len(heard[part]) \in Nat
           /\ DOMAIN heard'[part] = DOMAIN heard[part] \cup {Len(heard[part]) + 1}
           /\ \A i \in DOMAIN heard[part] : heard'[part][i] = heard[part][i] /\ i < Len(heard[part]) + 1
           /\ heard'[part][Len(heard[part]) + 1] = r
<1>1. heard \in [{"planning", "load"} -> Seq(WaveReports)] BY DEF WaveInv, WaveTypes
<1>2. PICK s \in Seq(WaveReports) : s = heard[part] BY <1>1
<1>3. heard'[part] = Append(s, r) BY <1>1, <1>2
<1>4. /\ Append(s, r) \in Seq(WaveReports) /\ Len(Append(s, r)) = Len(s) + 1 /\ Len(s) \in Nat
      /\ DOMAIN Append(s, r) = DOMAIN s \cup {Len(s) + 1}
      /\ \A i \in DOMAIN s : Append(s, r)[i] = s[i] /\ i < Len(s) + 1
      /\ Append(s, r)[Len(s) + 1] = r
  OBVIOUS
<1>5. heard' \in [{"planning", "load"} -> Seq(WaveReports)] /\ \A p \in {"planning", "load"} : p # part => heard'[p] = heard[p]
  BY <1>1, <1>2, <1>3, <1>4
<1> QED BY <1>2, <1>3, <1>4, <1>5

LEMMA WaveInit == ASSUME W!WaveAssumption, W!Init PROVE WaveInv
<1>1. WaveTypes
  <2>1. \A part \in W!Phases : W!Waiting \in [at : {"wait", "tell", "stopped"}, count : Nat] BY DEF W!Waiting
  <2>2. W!Status("Started", 0, TRUE) \in WaveReports /\ W!Status("InProgress", 0, TRUE) \in WaveReports
    BY DEF W!Status, WaveReports, WaveStates
  <2>3. <<W!Status("Started", 0, TRUE), W!Status("InProgress", 0, TRUE)>> \in Seq(WaveReports) /\ <<>> \in Seq(WaveReports)
    <3>1. PICK a \in WaveReports, b \in WaveReports : a = W!Status("Started", 0, TRUE) /\ b = W!Status("InProgress", 0, TRUE) BY <2>2
    <3>2. <<a, b>> \in Seq(WaveReports) OBVIOUS
    <3>3. <<>> \in Seq(WaveReports) OBVIOUS
    <3> QED BY <3>1, <3>2, <3>3
  <2>4. heard \in [{"planning", "load"} -> Seq(WaveReports)]
    <3> DEFINE start == <<W!Status("Started", 0, TRUE), W!Status("InProgress", 0, TRUE)>>
    <3>1. heard = [part \in {"planning", "load"} |-> IF part \in W!Phases THEN start ELSE <<>>] BY DEF W!Init
    <3>2. start \in Seq(WaveReports) BY <2>3
    <3> HIDE DEF start
    <3> QED BY <2>3, <3>1, <3>2
  <2> QED BY <2>1, <2>4 DEF W!Init, WaveTypes
<1>2. ASSUME NEW part \in W!Phases PROVE committed[part] = W!Weights(part, W!Prefix(completed[part])) /\ committed[part] = 0
  <2>1. \A i \in W!Partitions : completed[part][i] <=> W!Weight(part, i) = 0 BY DEF W!Init
  <2>2. W!Partitions = 1 .. Len(Sizes) /\ Len(Sizes) \in Nat BY DEF W!WaveAssumption, W!Partitions
  <2>3. \A i \in W!Prefix(completed[part]) : i \in W!Partitions /\ completed[part][i]
    <3> SUFFICES ASSUME NEW i \in W!Partitions, \A j \in 1 .. i : completed[part][j] PROVE completed[part][i] BY DEF W!Prefix
    <3>1. i \in 1 .. i BY <2>2
    <3> QED BY <3>1
  <2>4. \A i \in W!Prefix(completed[part]) : W!Weight(part, i) = 0 BY <2>1, <2>3
  <2>5. W!Weights(part, W!Prefix(completed[part])) = 0 BY <2>4, NoWeight
  <2> QED BY <2>5 DEF W!Init
<1>3. FlagsExact
  <2>1. \A i \in W!Partitions : ended[i] = "no" BY DEF W!Init
  <2>2. \A part \in W!Phases : \A i \in W!Partitions : completed[part][i] <=> W!Weight(part, i) = 0 BY DEF W!Init
  <2> QED BY <1>2, <2>1, <2>2 DEF FlagsExact
<1>4. OutcomeExact BY DEF W!Init, OutcomeExact, W!Waiting
<1>5. ToldExact
  <2> SUFFICES ASSUME NEW part \in W!Phases
               PROVE  /\ WaveInHand(part)
                      /\ \A i \in Counted(part) :
                            /\ heard[part][i].count \in Sums(part) /\ heard[part][i].count <= committed[part]
                            /\ heard[part][i].state \notin {"Completed", "Failed"}
                      /\ \A i, j \in Counted(part) : i < j => heard[part][i].count <= heard[part][j].count
    BY DEF ToldExact
  <2>1. heard[part] = <<W!Status("Started", 0, TRUE), W!Status("InProgress", 0, TRUE)>> BY PhaseNames DEF W!Init
  <2>2. \A i \in DOMAIN heard[part] : heard[part][i].count = 0 /\ heard[part][i].state \in {"Started", "InProgress"}
    BY <2>1 DEF W!Status
  <2>3. 0 \in Sums(part) BY <1>2, PrefixCount
  <2>4. WaveInHand(part) BY DEF WaveInHand, W!Init, W!Waiting
  <2> QED BY <1>2, <2>2, <2>3, <2>4 DEF Counted
<1> QED BY <1>1, <1>3, <1>4, <1>5 DEF WaveInv

LEMMA EndsKeeps == ASSUME W!WaveAssumption, WaveInv, NEW i \in W!Partitions, W!Ends(i) PROVE WaveInv'
<1> DEFINE ph == W!PhaseOf(i)
<1>1. /\ ended' = [ended EXCEPT ![i] = "ok"] /\ ended[i] = "no"
      /\ beat' = beat /\ closing' = closing /\ outcome' = outcome /\ heard' = heard
      /\ completed' = [completed EXCEPT ![ph] = [completed[ph] EXCEPT ![i] = TRUE]]
      /\ committed' = [committed EXCEPT ![ph] = W!Weights(ph, W!Prefix([completed[ph] EXCEPT ![i] = TRUE]))]
  BY DEF W!Ends
<1>2. WaveTypes /\ FlagsExact /\ OutcomeExact /\ ToldExact BY DEF WaveInv
<1>3. W!Weights(ph, W!Prefix([completed[ph] EXCEPT ![i] = TRUE])) \in Nat BY PrefixCount
<1>4. WaveTypes'
  <2>1. completed' \in [W!Phases -> [W!Partitions -> BOOLEAN]] BY <1>1, <1>2 DEF WaveTypes
  <2>2. committed' \in [W!Phases -> Nat] BY <1>1, <1>2, <1>3 DEF WaveTypes
  <2>3. ended' \in [W!Partitions -> {"no", "ok", "failed", "cancelled"}] BY <1>1, <1>2 DEF WaveTypes
  <2> QED BY <1>1, <1>2, <2>1, <2>2, <2>3 DEF WaveTypes
<1>5. ASSUME NEW part \in W!Phases
      PROVE  /\ \A j \in W!Partitions : completed'[part][j] <=> W!Weight(part, j) = 0 \/ ended'[j] = "ok"
             /\ committed'[part] = W!Weights(part, W!Prefix(completed'[part]))
             /\ committed[part] <= committed'[part]
  <2>1. completed[part] \in [W!Partitions -> BOOLEAN] /\ completed \in [W!Phases -> [W!Partitions -> BOOLEAN]] /\ committed \in [W!Phases -> Nat]
        /\ ended \in [W!Partitions -> {"no", "ok", "failed", "cancelled"}]
    BY <1>2 DEF WaveTypes
  <2>2. \A j \in W!Partitions : completed[part][j] <=> W!Weight(part, j) = 0 \/ ended[j] = "ok" BY <1>2 DEF FlagsExact
  <2>3. committed[part] = W!Weights(part, W!Prefix(completed[part])) BY <1>2 DEF FlagsExact
  <2>4. \A j \in W!Partitions : ended'[j] = "ok" <=> j = i \/ ended[j] = "ok" BY <1>1, <2>1
  <2>5. CASE part = ph
    <3>1. PICK f : f = [completed[part] EXCEPT ![i] = TRUE] OBVIOUS
    <3>2. \A j \in W!Partitions : f[j] <=> completed[part][j] \/ j = i BY <2>1, <3>1
    <3>3. completed'[part] = f /\ committed'[part] = W!Weights(part, W!Prefix(f)) BY <1>1, <2>1, <2>5, <3>1
    <3>4. W!Weights(part, W!Prefix(completed[part])) <= W!Weights(part, W!Prefix(f)) BY <3>2, PrefixGrows
    <3> QED BY <2>2, <2>3, <2>4, <3>2, <3>3, <3>4
  <2>6. CASE part # ph
    <3>1. completed'[part] = completed[part] /\ committed'[part] = committed[part] BY <1>1, <2>1, <2>6
    <3>2. W!Weight(part, i) = 0
      <4>1. part \in {"planning", "load"} BY PhaseNames
      <4> QED BY <2>6, <4>1 DEF W!Weight, W!PhaseOf
    <3>3. \A j \in W!Partitions : completed'[part][j] <=> W!Weight(part, j) = 0 \/ ended'[j] = "ok" BY <2>2, <2>4, <3>1, <3>2
    <3>4. committed[part] <= committed'[part] BY <2>1, <3>1
    <3> QED BY <2>3, <3>1, <3>3, <3>4
  <2> QED BY <2>5, <2>6
<1>6. FlagsExact' BY <1>5 DEF FlagsExact
<1>7. outcome = "none" /\ OutcomeExact'
  <2>1. outcome = "none" BY <1>1, <1>2 DEF OutcomeExact
  <2> QED BY <1>1, <1>2, <2>1 DEF OutcomeExact
<1>8. ToldExact'
  <2> SUFFICES ASSUME NEW part \in W!Phases
               PROVE  /\ WaveInHand(part)'
                      /\ \A k \in Counted(part) :
                            /\ heard[part][k].count \in Sums(part) /\ heard[part][k].count <= committed'[part]
                            /\ heard[part][k].state \notin {"Completed", "Failed"}
                      /\ \A k, j \in Counted(part) : k < j => heard[part][k].count <= heard[part][j].count
    BY <1>1 DEF ToldExact, Counted
  <2>1. beat[part].at # "stopped" BY <1>2, <1>7 DEF OutcomeExact
  <2>2. committed[part] <= committed'[part] /\ committed[part] \in Nat /\ committed'[part] \in Nat BY <1>2, <1>4, <1>5 DEF WaveTypes
  <2>3. WaveInHand(part) /\ \A k \in Counted(part) : heard[part][k].count \in Sums(part) /\ heard[part][k].count <= committed[part]
        /\ heard[part][k].state \notin {"Completed", "Failed"}
    BY <1>2, <2>1 DEF ToldExact
  <2>4. \A k \in Counted(part) : heard[part][k].count \in Nat
    <3>1. heard[part] \in Seq(WaveReports) BY <1>2, PhaseNames DEF WaveTypes
    <3>2. \A k \in Counted(part) : heard[part][k] \in WaveReports BY <3>1 DEF Counted
    <3> QED BY <3>2 DEF WaveReports
  <2>5. \A k \in Counted(part) : heard[part][k].count <= committed'[part] BY <2>2, <2>3, <2>4
  <2>6. WaveInHand(part)'
    <3>1. beat[part].count \in Nat BY <1>2 DEF WaveTypes
    <3>2. beat[part].at = "tell" => beat[part].count <= committed'[part] BY <2>2, <2>3, <3>1 DEF WaveInHand
    <3> QED BY <1>1, <2>3, <3>2 DEF WaveInHand, Counted
  <2>7. \A k, j \in Counted(part) : k < j => heard[part][k].count <= heard[part][j].count BY <1>2 DEF ToldExact
  <2> QED BY <2>3, <2>5, <2>6, <2>7
<1> QED BY <1>4, <1>6, <1>7, <1>8 DEF WaveInv

LEMMA JobFailsKeeps == ASSUME W!WaveAssumption, WaveInv, NEW i \in W!Partitions, NEW how \in {"failed", "cancelled"}, W!JobFails(i, how) PROVE WaveInv'
<1>1. /\ ended' = [ended EXCEPT ![i] = how] /\ ended[i] = "no"
      /\ beat' = beat /\ closing' = closing /\ outcome' = outcome /\ heard' = heard
      /\ completed' = completed /\ committed' = committed
  BY DEF W!JobFails
<1>2. WaveTypes /\ FlagsExact /\ OutcomeExact /\ ToldExact BY DEF WaveInv
<1>3. WaveTypes'
  <2>1. ended' \in [W!Partitions -> {"no", "ok", "failed", "cancelled"}] BY <1>1, <1>2 DEF WaveTypes
  <2> QED BY <1>1, <1>2, <2>1 DEF WaveTypes
<1>4. FlagsExact'
  <2>1. \A j \in W!Partitions : ended'[j] = "ok" <=> ended[j] = "ok" BY <1>1, <1>2 DEF WaveTypes
  <2> QED BY <1>1, <1>2, <2>1 DEF FlagsExact
<1>5. OutcomeExact'
  <2>1. outcome = "none" BY <1>1, <1>2 DEF OutcomeExact
  <2> QED BY <1>1, <1>2, <2>1 DEF OutcomeExact
<1>6. ToldExact' BY <1>1, <1>2 DEF ToldExact, WaveInHand, Counted
<1> QED BY <1>3, <1>4, <1>5, <1>6 DEF WaveInv

LEMMA TickKeeps == ASSUME W!WaveAssumption, WaveInv, NEW ph \in W!Phases, W!Tick(ph) PROVE WaveInv'
<1>1. /\ beat' = [beat EXCEPT ![ph] = [at |-> "tell", count |-> committed[ph]]] /\ beat[ph].at = "wait"
      /\ ended' = ended /\ closing' = closing /\ outcome' = outcome /\ heard' = heard
      /\ completed' = completed /\ committed' = committed
  BY DEF W!Tick
<1>2. WaveTypes /\ FlagsExact /\ OutcomeExact /\ ToldExact BY DEF WaveInv
<1>3. WaveTypes'
  <2>1. committed[ph] \in Nat BY <1>2 DEF WaveTypes
  <2>2. [at |-> "tell", count |-> committed[ph]] \in [at : {"wait", "tell", "stopped"}, count : Nat] BY <2>1
  <2>3. beat' \in [W!Phases -> [at : {"wait", "tell", "stopped"}, count : Nat]] BY <1>1, <1>2, <2>2 DEF WaveTypes
  <2> QED BY <1>1, <1>2, <2>3 DEF WaveTypes
<1>4. FlagsExact' BY <1>1, <1>2 DEF FlagsExact
<1>5. /\ \A part \in W!Phases : part # ph => beat'[part] = beat[part]
      /\ beat'[ph] = [at |-> "tell", count |-> committed[ph]]
  BY <1>1, <1>2 DEF WaveTypes
<1>6. OutcomeExact'
  <2>1. \A part \in W!Phases : beat'[part].at = "stopped" => beat[part].at = "stopped" BY <1>5
  <2> QED BY <1>1, <1>2, <2>1 DEF OutcomeExact
<1>7. ToldExact'
  <2>1. ASSUME NEW part \in W!Phases PROVE WaveInHand(part)'
    <3>1. CASE part # ph BY <1>1, <1>2, <1>5, <3>1 DEF ToldExact, WaveInHand, Counted
    <3>2. CASE part = ph
      <4>1. beat'[part].count = committed[part] BY <1>5, <3>2
      <4>2. committed[part] \in Sums(part) /\ committed[part] \in Nat BY <1>2, PrefixCount DEF FlagsExact
      <4>3. \A k \in Counted(part) : heard[part][k].count <= committed[part] BY <1>2 DEF ToldExact
      <4>4. committed[part] <= committed[part] BY <4>2
      <4> QED BY <1>1, <4>1, <4>2, <4>3, <4>4 DEF WaveInHand, Counted
    <3> QED BY <3>1, <3>2
  <2>2. \A part \in W!Phases : beat[part].at = "stopped" => beat'[part].at = "stopped" BY <1>1, <1>5
  <2> QED BY <1>1, <1>2, <2>1, <2>2 DEF ToldExact, Counted
<1> QED BY <1>3, <1>4, <1>6, <1>7 DEF WaveInv

\* A count is told that is no less than those before.
LEMMA ToldMore ==
    ASSUME WaveInv, NEW ph \in W!Phases, NEW r \in WaveReports, heard' = [heard EXCEPT ![ph] = Append(@, r)],
           committed' = committed, outcome' = outcome, \A part \in W!Phases : part # ph => beat'[part] = beat[part],
           beat[ph].at # "stopped", beat'[ph].at # "tell",
           r.count \in Sums(ph), r.count <= committed[ph], \A i \in Counted(ph) : heard[ph][i].count <= r.count,
           r.state \in {"Completed", "Failed"} => beat'[ph].at = "stopped" /\ r.state = outcome /\ r.count = committed[ph]
    PROVE  ToldExact'
<1>1. WaveTypes /\ ToldExact BY DEF WaveInv
<1>2. /\ \A p \in {"planning", "load"} : p # ph => heard'[p] = heard[p]
      /\ Len(heard[ph]) \in Nat
      /\ DOMAIN heard'[ph] = DOMAIN heard[ph] \cup {Len(heard[ph]) + 1}
      /\ \A i \in DOMAIN heard[ph] : heard'[ph][i] = heard[ph][i] /\ i < Len(heard[ph]) + 1 /\ i \in Nat
      /\ heard'[ph][Len(heard[ph]) + 1] = r
  <2>1. ph \in {"planning", "load"} BY PhaseNames
  <2>2. heard[ph] \in Seq(WaveReports) BY <1>1, <2>1 DEF WaveTypes
  <2>3. \A i \in DOMAIN heard[ph] : i \in Nat BY <2>2
  <2> QED BY <2>1, <2>3, Telling
<1>3. PICK n \in Nat : n = Len(heard[ph]) + 1 BY <1>2
<1>4. ASSUME NEW i \in Counted(ph)' PROVE i = n \/ (i \in Counted(ph) /\ i < n)
  BY <1>2, <1>3 DEF Counted
<1>5. heard'[ph][n] = r /\ \A i \in Counted(ph) : heard'[ph][i] = heard[ph][i] /\ i < n /\ i \in Nat BY <1>2, <1>3 DEF Counted
<1>6. \A i \in Counted(ph) : heard[ph][i].state \notin {"Completed", "Failed"} BY <1>1 DEF ToldExact
<1>7. /\ \A i \in Counted(ph)' :
            /\ heard'[ph][i].count \in Sums(ph) /\ heard'[ph][i].count <= committed[ph]
            /\ heard'[ph][i].state \in {"Completed", "Failed"} =>
                  /\ beat'[ph].at = "stopped" /\ heard'[ph][i].state = outcome
                  /\ heard'[ph][i].count = committed[ph]
  BY <1>1, <1>4, <1>5, <1>6 DEF ToldExact
<1>8. \A i, j \in Counted(ph)' : i < j =>
            /\ heard'[ph][i].count <= heard'[ph][j].count
            /\ heard'[ph][i].state \notin {"Completed", "Failed"}
  <2> SUFFICES ASSUME NEW i \in Counted(ph)', NEW j \in Counted(ph)', i < j
               PROVE  /\ heard'[ph][i].count <= heard'[ph][j].count
                      /\ heard'[ph][i].state \notin {"Completed", "Failed"}
    OBVIOUS
  <2>1. i \in Counted(ph)
    <3>1. CASE i = n
      <4>1. j = n \/ j < n BY <1>4
      <4>2. j \in Nat BY <1>3, <1>4, <1>5
      <4> QED BY <1>3, <3>1, <4>1, <4>2
    <3> QED BY <1>4, <3>1
  <2>2. CASE j = n BY <1>5, <1>6, <2>1, <2>2
  <2>3. CASE j \in Counted(ph) BY <1>1, <1>5, <1>6, <2>1, <2>3 DEF ToldExact
  <2> QED BY <1>4, <2>2, <2>3
<1>9. ASSUME NEW part \in W!Phases, part # ph
      PROVE  heard'[part] = heard[part] /\ Counted(part)' = Counted(part) /\ beat'[part] = beat[part]
  BY <1>2, <1>9, PhaseNames DEF Counted
<1>10. WaveInHand(ph)' BY DEF WaveInHand
<1>11. ASSUME NEW part \in W!Phases PROVE WaveInHand(part)'
  <2>1. CASE part = ph BY <1>10, <2>1
  <2>2. CASE part # ph BY <1>1, <1>9, <2>2 DEF WaveInHand, ToldExact
  <2> QED BY <2>1, <2>2
<1>12. ASSUME NEW part \in W!Phases
       PROVE  /\ \A i \in Counted(part)' :
                    /\ heard'[part][i].count \in Sums(part) /\ heard'[part][i].count <= committed[part]
                    /\ heard'[part][i].state \in {"Completed", "Failed"} =>
                          /\ beat'[part].at = "stopped" /\ heard'[part][i].state = outcome
                          /\ heard'[part][i].count = committed[part]
              /\ \A i, j \in Counted(part)' : i < j =>
                    /\ heard'[part][i].count <= heard'[part][j].count
                    /\ heard'[part][i].state \notin {"Completed", "Failed"}
  <2>1. CASE part = ph BY <1>7, <1>8, <2>1
  <2>2. CASE part # ph BY <1>1, <1>9, <2>2 DEF ToldExact
  <2> QED BY <2>1, <2>2
<1> QED BY <1>11, <1>12 DEF ToldExact

LEMMA TellKeeps == ASSUME W!WaveAssumption, WaveInv, NEW ph \in W!Phases, W!Tell(ph) PROVE WaveInv'
<1> DEFINE r == W!Status("InProgress", beat[ph].count, TRUE)
<1>1. /\ beat' = [beat EXCEPT ![ph] = W!Waiting] /\ beat[ph].at = "tell"
      /\ ended' = ended /\ closing' = closing /\ outcome' = outcome /\ heard' = [heard EXCEPT ![ph] = Append(@, r)]
      /\ completed' = completed /\ committed' = committed
  BY DEF W!Tell
<1>2. WaveTypes /\ FlagsExact /\ OutcomeExact /\ ToldExact BY DEF WaveInv
<1>3. r \in WaveReports /\ r.count = beat[ph].count /\ r.state = "InProgress"
  <2>1. beat[ph].count \in Nat BY <1>2 DEF WaveTypes
  <2> QED BY <2>1 DEF W!Status, WaveReports, WaveStates
<1> HIDE DEF r
<1>4. W!Waiting \in [at : {"wait", "tell", "stopped"}, count : Nat] /\ W!Waiting.at = "wait" BY DEF W!Waiting
<1>5. /\ beat' \in [W!Phases -> [at : {"wait", "tell", "stopped"}, count : Nat]]
      /\ \A part \in W!Phases : part # ph => beat'[part] = beat[part]
      /\ beat'[ph] = W!Waiting
  BY <1>1, <1>2, <1>4 DEF WaveTypes
<1>6. WaveTypes'
  <2>1. heard' \in [{"planning", "load"} -> Seq(WaveReports)] BY <1>1, <1>3, PhaseNames, Telling
  <2> QED BY <1>1, <1>2, <1>5, <2>1 DEF WaveTypes
<1>7. FlagsExact' BY <1>1, <1>2 DEF FlagsExact
<1>8. OutcomeExact'
  <2>1. \A part \in W!Phases : beat'[part].at = "stopped" => beat[part].at = "stopped" BY <1>4, <1>5
  <2> QED BY <1>1, <1>2, <2>1 DEF OutcomeExact
<1>9. ToldExact'
  <2>1. WaveInHand(ph) BY <1>2 DEF ToldExact
  <2>2. r.count \in Sums(ph) /\ r.count <= committed[ph] /\ \A i \in Counted(ph) : heard[ph][i].count <= r.count
    BY <1>1, <1>3, <2>1 DEF WaveInHand
  <2>3. beat'[ph].at # "tell" /\ beat[ph].at # "stopped" BY <1>1, <1>4, <1>5
  <2> QED BY <1>1, <1>3, <1>5, <2>2, <2>3, ToldMore
<1> QED BY <1>6, <1>7, <1>8, <1>9 DEF WaveInv

LEMMA FinishesKeep == ASSUME W!WaveAssumption, WaveInv, NEW ph \in W!Phases, W!Finish(ph) PROVE WaveInv'
<1> DEFINE r == W!Status(outcome, committed[ph], TRUE)
<1>1. /\ beat[ph].at = "wait" /\ ph \in closing
      /\ beat' = [beat EXCEPT ![ph].at = IF @ = "wait" THEN "stopped" ELSE @]
      /\ ended' = ended /\ closing' = closing \ {ph} /\ outcome' = outcome /\ heard' = [heard EXCEPT ![ph] = Append(@, r)]
      /\ completed' = completed /\ committed' = committed
  BY DEF W!Finish, W!Joined
<1>2. WaveTypes /\ FlagsExact /\ OutcomeExact /\ ToldExact BY DEF WaveInv
<1>3. r \in WaveReports /\ r.count = committed[ph] /\ r.state = outcome
  <2>1. committed[ph] \in Nat /\ outcome \in WaveStates BY <1>2 DEF WaveTypes, WaveStates
  <2> QED BY <2>1 DEF W!Status, WaveReports
<1> HIDE DEF r
<1>5. /\ beat' \in [W!Phases -> [at : {"wait", "tell", "stopped"}, count : Nat]]
      /\ \A part \in W!Phases : part # ph => beat'[part] = beat[part]
      /\ beat'[ph].at = "stopped"
  BY <1>1, <1>2 DEF WaveTypes
<1>6. WaveTypes'
  <2>1. heard' \in [{"planning", "load"} -> Seq(WaveReports)] BY <1>1, <1>3, PhaseNames, Telling
  <2> QED BY <1>1, <1>2, <1>5, <2>1 DEF WaveTypes
<1>7. FlagsExact' BY <1>1, <1>2 DEF FlagsExact
<1>8. OutcomeExact'
  <2>1. outcome # "none" BY <1>1, <1>2 DEF OutcomeExact
  <2>2. \A part \in W!Phases : beat'[part].at = "stopped" => part \notin closing' BY <1>1, <1>2, <1>5 DEF OutcomeExact
  <2> QED BY <1>1, <1>2, <2>1, <2>2 DEF OutcomeExact
<1>9. ToldExact'
  <2>1. committed[ph] \in Sums(ph) /\ committed[ph] \in Nat BY <1>2, PrefixCount DEF FlagsExact
  <2>2. r.count \in Sums(ph) /\ r.count <= committed[ph] /\ \A i \in Counted(ph) : heard[ph][i].count <= r.count
    BY <1>2, <1>3, <2>1 DEF ToldExact
  <2>3. beat'[ph].at # "tell" /\ beat[ph].at # "stopped" BY <1>1, <1>5
  <2> QED BY <1>1, <1>3, <1>5, <2>2, <2>3, ToldMore
<1> QED BY <1>6, <1>7, <1>8, <1>9 DEF WaveInv

LEMMA BarrierKeeps == ASSUME W!WaveAssumption, WaveInv, W!Barrier PROVE WaveInv'
<1> DEFINE r == W!Status("Failed", 1, FALSE)
<1>1. /\ outcome = "none" /\ \A i \in W!Partitions : ended[i] # "no"
      /\ beat' = beat /\ ended' = ended /\ closing' = W!Phases
      /\ outcome' \in {"Completed", "Failed"}
      /\ outcome' = "Completed" => \A i \in W!Partitions : ended[i] = "ok"
      /\ heard' = heard \/ heard' = [heard EXCEPT !["planning"] = Append(@, r)]
      /\ completed' = completed /\ committed' = committed
  BY DEF W!Barrier
<1>2. WaveTypes /\ FlagsExact /\ OutcomeExact /\ ToldExact BY DEF WaveInv
<1>3. r \in WaveReports /\ ~r.aggregate BY DEF W!Status, WaveReports, WaveStates
<1> HIDE DEF r
<1>4. /\ heard' \in [{"planning", "load"} -> Seq(WaveReports)]
      /\ \A part \in W!Phases : Counted(part)' = Counted(part) /\ \A i \in Counted(part) : heard'[part][i] = heard[part][i]
  <2>1. CASE heard' = heard BY <1>2, <2>1 DEF WaveTypes, Counted
  <2>2. CASE heard' = [heard EXCEPT !["planning"] = Append(@, r)]
    <3> DEFINE n == Len(heard["planning"]) + 1
    <3>1. /\ heard' \in [{"planning", "load"} -> Seq(WaveReports)]
          /\ \A p \in {"planning", "load"} : p # "planning" => heard'[p] = heard[p]
          /\ DOMAIN heard'["planning"] = DOMAIN heard["planning"] \cup {n}
          /\ \A i \in DOMAIN heard["planning"] : heard'["planning"][i] = heard["planning"][i]
          /\ heard'["planning"][n] = r
      BY <1>3, <2>2, Telling
    <3> HIDE DEF n
    <3>2. Counted("planning")' = Counted("planning") /\ \A i \in Counted("planning") : heard'["planning"][i] = heard["planning"][i]
      BY <1>3, <3>1 DEF Counted
    <3>3. heard'["load"] = heard["load"] /\ Counted("load")' = Counted("load") BY <3>1 DEF Counted
    <3> QED BY <3>1, <3>2, <3>3, PhaseNames
  <2> QED BY <1>1, <2>1, <2>2
<1>5. WaveTypes' BY <1>1, <1>2, <1>4 DEF WaveTypes
<1>6. FlagsExact' BY <1>1, <1>2 DEF FlagsExact
<1>7. \A part \in W!Phases : beat[part].at # "stopped" BY <1>1, <1>2 DEF OutcomeExact
<1>8. OutcomeExact' BY <1>1, <1>2, <1>7 DEF OutcomeExact
<1>9. ToldExact'
  <2>1. \A part \in W!Phases : \A i \in Counted(part) : heard[part][i].state \notin {"Completed", "Failed"} BY <1>2, <1>7 DEF ToldExact
  <2>2. \A part \in W!Phases : WaveInHand(part)' BY <1>1, <1>2, <1>4 DEF ToldExact, WaveInHand
  <2> QED BY <1>1, <1>2, <1>4, <2>1, <2>2 DEF ToldExact
<1> QED BY <1>5, <1>6, <1>8, <1>9 DEF WaveInv

LEMMA WaveStep == ASSUME W!WaveAssumption, WaveInv, [W!Next]_(W!vars) PROVE WaveInv'
<1>1. CASE \E i \in W!Partitions : W!Ends(i) BY <1>1, EndsKeeps
<1>2. CASE \E i \in W!Partitions : \E how \in {"failed", "cancelled"} : W!JobFails(i, how) BY <1>2, JobFailsKeeps
<1>3. CASE \E part \in W!Phases : W!Tick(part) BY <1>3, TickKeeps
<1>4. CASE \E part \in W!Phases : W!Tell(part) BY <1>4, TellKeeps
<1>5. CASE \E part \in W!Phases : W!Finish(part) BY <1>5, FinishesKeep
<1>6. CASE W!Barrier BY <1>6, BarrierKeeps
<1>7. CASE UNCHANGED W!vars
  <2>1. UNCHANGED <<completed, committed, ended, beat, beats, closing, outcome, heard>> BY <1>7 DEF W!vars
  <2>2. WaveTypes' /\ FlagsExact' /\ OutcomeExact' BY <2>1 DEF WaveInv, WaveTypes, FlagsExact, OutcomeExact
  <2>3. ToldExact' BY <2>1 DEF WaveInv, ToldExact, WaveInHand, Counted
  <2> QED BY <2>2, <2>3 DEF WaveInv
<1> QED BY <1>1, <1>2, <1>3, <1>4, <1>5, <1>6, <1>7 DEF W!Next

LEMMA WaveExact == ASSUME W!WaveAssumption, WaveInv PROVE W!WaveCounts
<1> SUFFICES ASSUME NEW part \in W!Phases
             PROVE  LET reports  == heard[part]
                        first == {i \in W!Partitions : ended[i] # "no" /\ ended[i] # "ok" /\ \A j \in 1 .. i - 1 : ended[j] = "ok"}
                    IN  /\ \A i \in Counted(part) : reports[i].count \in Sums(part)
                        /\ \A i, j \in Counted(part) : i < j =>
                               reports[i].count <= reports[j].count /\ reports[i].state \notin {"Completed", "Failed"}
                        /\ \A i \in Counted(part) : reports[i].state = "Completed" => reports[i].count = W!Weights(part, W!Partitions)
                        /\ \A i \in Counted(part) : reports[i].state = "Failed" =>
                               \A j \in first : reports[i].count >= W!Weights(part, 1 .. j - 1)
  BY DEF W!WaveCounts, Counted, Sums
<1>1. WaveTypes /\ FlagsExact /\ OutcomeExact /\ ToldExact BY DEF WaveInv
<1>2. \A i \in Counted(part) : heard[part][i].count \in Sums(part) BY <1>1 DEF ToldExact
<1>3. \A i, j \in Counted(part) : i < j =>
          heard[part][i].count <= heard[part][j].count /\ heard[part][i].state \notin {"Completed", "Failed"}
  BY <1>1 DEF ToldExact
<1>4. W!Partitions = 1 .. Len(Sizes) /\ Len(Sizes) \in Nat BY DEF W!WaveAssumption, W!Partitions
<1>5. ASSUME NEW i \in Counted(part), heard[part][i].state = "Completed" PROVE heard[part][i].count = W!Weights(part, W!Partitions)
  <2>1. heard[part][i].count = committed[part] /\ outcome = "Completed" BY <1>1, <1>5 DEF ToldExact
  <2>2. \A j \in W!Partitions : completed[part][j] BY <1>1, <2>1 DEF FlagsExact, OutcomeExact
  <2>3. W!Prefix(completed[part]) = W!Partitions
    <3> SUFFICES ASSUME NEW j \in W!Partitions, NEW k \in 1 .. j PROVE completed[part][k] BY DEF W!Prefix
    <3>1. k \in W!Partitions BY <1>4
    <3> QED BY <2>2, <3>1
  <2> QED BY <1>1, <2>1, <2>3 DEF FlagsExact
<1>6. ASSUME NEW i \in Counted(part), heard[part][i].state = "Failed", NEW j \in W!Partitions, \A k \in 1 .. j - 1 : ended[k] = "ok"
      PROVE  heard[part][i].count >= W!Weights(part, 1 .. j - 1)
  <2>1. heard[part][i].count = committed[part] BY <1>1, <1>6 DEF ToldExact
  <2>2. \A k \in 1 .. j - 1 : k \in W!Partitions /\ \A m \in 1 .. k : m \in 1 .. j - 1 BY <1>4
  <2>3. \A k \in 1 .. j - 1 : completed[part][k] BY <1>1, <1>6, <2>2 DEF FlagsExact
  <2>4. 1 .. j - 1 \in SUBSET W!Prefix(completed[part]) BY <2>2, <2>3 DEF W!Prefix
  <2>5. W!Prefix(completed[part]) \in SUBSET W!Partitions BY PrefixIs
  <2>6. PICK S : S = 1 .. j - 1 OBVIOUS
  <2>7. W!Weights(part, S) <= W!Weights(part, W!Prefix(completed[part])) /\ W!Weights(part, S) \in Nat
        /\ W!Weights(part, W!Prefix(completed[part])) \in Nat
    BY <2>4, <2>5, <2>6, WeightsGrow
  <2>8. committed[part] = W!Weights(part, W!Prefix(completed[part])) BY <1>1 DEF FlagsExact
  <2> QED BY <2>1, <2>6, <2>7, <2>8
<1> QED BY <1>2, <1>3, <1>5, <1>6

\* V3WaveProgress and its heartbeats: in whatever order the jobs of a wave end and
\* fail, the counts told of a phase are those of leading partitions, never go down,
\* reach the total in a completed wave and are told no more after the last status.
THEOREM WavesCounted == ASSUME W!WaveAssumption PROVE W!Spec => []W!WaveCounts
<1>1. W!Init => WaveInv BY WaveInit
<1>2. WaveInv /\ [W!Next]_(W!vars) => WaveInv' BY WaveStep
<1>3. WaveInv => W!WaveCounts BY WaveExact
<1> QED BY <1>1, <1>2, <1>3, PTL DEF W!Spec
=============================================================================
