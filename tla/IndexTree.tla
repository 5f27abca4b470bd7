----------------------------- MODULE IndexTree ------------------------------
(* The blocks of an index and the layers of branches over them, as the three  *)
(* surfaces of lexongraph-streaming-indexer build them.  Blocks are content   *)
(* addressed: a block is a value, its identity is what it holds.              *)
EXTENDS Naturals, FiniteSets, Sequences, SequencesExt

CONSTANT
    Bound           \* materializability_bound: the children a branch of the target size can hold

ASSUME BoundAssumption == Bound \in Nat \ {0, 1}

Leaf(i) == [level |-> 0, item |-> i, kids |-> {}]

HighestLevel(S) == CHOOSE l \in {b.level : b \in S} : \A b \in S : b.level <= l

\* A branch over the group S of a layer whose highest level is top.
Branch(S, top) == [level |-> top + 1, item |-> "branch", kids |-> S]

\* normalize_current_layer: the layer without repeated children, in the order
\* of their embeddings and ids, which depends on nothing but the set.
Sorted(S) == SetToSeq(S)

\* The group count below without the rounding up.
GroupCountFloor(n) == IF n < Bound THEN 1 ELSE n \div Bound

\* balanced_groups: n children in as few groups as Bound allows, their sizes
\* one apart at most.
GroupCount(n) == (n + Bound - 1) \div Bound

Splittable(n) == n <= Bound \/ GroupCount(n) <= n \div 2

BalancedGroups(S) ==
    LET n      == Cardinality(S)
        count  == GroupCount(n)
        base   == n \div count
        extra  == n % count
        Size(g) == base + IF g <= extra THEN 1 ELSE 0
        From(g) == (g - 1) * base + (IF g - 1 <= extra THEN g - 1 ELSE extra)
    IN  [g \in 1 .. count |->
            {Sorted(S)[i] : i \in From(g) + 1 .. From(g) + Size(g)}]

\* Sizes of balanced_groups over n items.
GroupSizes(n) ==
    LET count == IF n <= Bound THEN 1 ELSE GroupCount(n)
    IN  [g \in 1 .. count |-> n \div count + IF g <= n % count THEN 1 ELSE 0]

\* effective_cluster_count for a partition of n items: as many as the profile
\* requests, but no more than a branch holds, nor than leave two items each.
ClusterCount(requested, n) ==
    LET wanted == IF requested < 2 THEN 2 ELSE requested
        fitted == IF wanted < Bound THEN wanted ELSE Bound
        half   == IF n \div 2 < 1 THEN 1 ELSE n \div 2
        least  == IF fitted < half THEN fitted ELSE half
    IN  IF n <= 1 THEN 1 ELSE IF least < 2 THEN 2 ELSE least

\* One round of assemble_child_set: a layer of more than one child is grouped, and
\* the branches over the groups are the next one.  Not ok when it cannot be split.
NextLayer(low) ==
    IF Cardinality(low.layer) = 1 \/ ~low.ok THEN low
    ELSE IF ~Splittable(Cardinality(low.layer)) THEN [low EXCEPT !.ok = FALSE]
    ELSE LET groups   == BalancedGroups(low.layer)
             branches == [g \in DOMAIN groups |-> Branch(groups[g], HighestLevel(low.layer))]
         IN  [layer |-> Range(branches), puts |-> low.puts \o branches, ok |-> TRUE]

\* The child set S assembled into one block: layer over layer until one child is
\* left.  puts are the branches in the order they are stored.
Assemble(S) ==
    LET Layer[k \in Nat] ==
            IF k = 0 THEN [layer |-> S, puts |-> <<>>, ok |-> TRUE] ELSE NextLayer(Layer[k - 1])
        done == Layer[Cardinality(S)]
    IN  [ok |-> done.ok, puts |-> done.puts, root |-> CHOOSE b \in done.layer : TRUE]

\* The blocks of the index under the block b.
Below(b) ==
    LET Down[l \in Nat] == IF l = 0 THEN {b} ELSE Down[l - 1] \cup UNION {c.kids : c \in Down[l - 1]}
    IN  Down[b.level]

\* The finished index: block_ids are exactly the blocks under the root, its
\* leaves are those of the items and no branch is over- or underfull.
IsIndexOf(root, ids, items) ==
    /\ {b.item : b \in {c \in Below(root) : c.level = 0}} = items
    /\ ids = Below(root)
    /\ \A b \in ids : b.level > 0 => Cardinality(b.kids) \in 2 .. Bound

-----------------------------------------------------------------------------
(* The partitions of the items, parts, with the children of each in order and *)
(* whether it is terminal; and the loop of finalize that makes one block of   *)
(* each: a terminal partition is assembled from the leaves spilled to it, any *)
(* other from the blocks of its children.                                     *)

Terminals(parts) == {p \in DOMAIN parts : parts[p].terminal}

\* The partitions that walk visits from the root, which has no more levels below
\* it than there are partitions.
Visited(root, parts) ==
    LET Down[k \in Nat] ==
            IF k = 0 THEN {root} ELSE UNION {Range(parts[p].children) : p \in Down[k - 1]}
    IN  UNION {Down[k] : k \in 0 .. Cardinality(DOMAIN parts)}

\* The locals of the loop: the leaves spilled to each terminal partition, the
\* blocks of the partitions that are done, the partition at work, the groups of
\* its layer still to be stored with their highest level, the layer that grows,
\* and block_ids.
NothingBuilt(parts) ==
    [spill |-> [t \in Terminals(parts) |-> <<>>], built |-> <<>>, open |-> {},
     groups |-> <<>>, top |-> 0, layer |-> {}, ids |-> {}]

\* A leaf was stored; it is spilled to the terminal partition t.
Spilled(a, t, leaf) == [a EXCEPT !.ids = @ \cup {leaf}, !.spill[t] = Append(@, leaf)]

\* The children that partition p is assembled from.
ChildSet(a, parts, p) ==
    IF parts[p].terminal THEN Range(a.spill[p])
    ELSE {a.built[k] : k \in Range(parts[p].children)}

\* Terminal partitions come first, then every other one after its children; the
\* order is otherwise left open.
Ready(a, parts, p) ==
    /\ a.open = {}
    /\ p \in DOMAIN parts \ DOMAIN a.built
    /\ p \notin Terminals(parts) =>
          /\ Terminals(parts) \subseteq DOMAIN a.built
          /\ Range(parts[p].children) \subseteq DOMAIN a.built

PartitionOpened(a, parts, p) == [a EXCEPT !.open = {p}, !.layer = ChildSet(a, parts, p)]

\* assemble_child_set, between two layers: one child stands for the partition,
\* more are grouped into the next layer.  A layer that is empty or cannot be
\* split is an error, after the layers below it were stored.
BetweenLayers(a) == a.open # {} /\ a.groups = <<>>

PartitionClosed(a) ==
    [a EXCEPT !.built = [q \in DOMAIN a.built \cup a.open |->
                            IF q \in a.open THEN CHOOSE b \in a.layer : TRUE ELSE a.built[q]],
              !.open = {}, !.layer = {}]

LayerSplits(a) == Cardinality(a.layer) > 1 /\ Splittable(Cardinality(a.layer))

LayerGrouped(a) ==
    [a EXCEPT !.groups = BalancedGroups(a.layer), !.top = HighestLevel(a.layer), !.layer = {}]

NextBranch(a) == Branch(Head(a.groups), a.top)

\* BranchPut below, with the layer begun anew at every group.
BranchPutForgets(a) ==
    [a EXCEPT !.groups = Tail(@), !.layer = {NextBranch(a)}, !.ids = @ \cup {NextBranch(a)}]

\* build_branch_layer stored the branch of one group; after the last group the
\* branches are the next layer.
BranchPut(a) ==
    [a EXCEPT !.groups = Tail(@), !.layer = @ \cup {NextBranch(a)}, !.ids = @ \cup {NextBranch(a)}]

-----------------------------------------------------------------------------
(* What the loop keeps true, from the leaves L of the items replayed so far.  *)

\* block_ids have with a branch its children, which lie below it and are as many
\* as fit it, and their leaves are those of L.
IsForest(ids, L) ==
    /\ IsFiniteSet(ids) /\ L \subseteq ids
    /\ \A b \in ids :
          /\ b.level \in Nat /\ b.kids \subseteq ids
          /\ b.level = 0 => b \in L /\ b.kids = {}
          /\ b.level > 0 => Cardinality(b.kids) \in 2 .. Bound
          /\ \A k \in b.kids : k.level < b.level

\* What is in hand is in block_ids: the spilled leaves, the blocks of the
\* partitions that are done and the layer that grows.  The children of these
\* partitions are done.
InHand(a, parts) ==
    /\ DOMAIN a = {"spill", "built", "open", "groups", "top", "layer", "ids"}
    /\ a.spill \in [Terminals(parts) -> Seq(a.ids)]
    /\ DOMAIN a.built \subseteq DOMAIN parts /\ IsFiniteSet(DOMAIN a.built)
    /\ \A q \in DOMAIN a.built : a.built[q] \in a.ids
    /\ a.open \subseteq DOMAIN parts \ DOMAIN a.built
    /\ \A p, q \in a.open : p = q
    /\ \A p \in DOMAIN a.built \cup a.open : Range(parts[p].children) \subseteq DOMAIN a.built
    /\ IsFiniteSet(a.layer) /\ a.layer \subseteq a.ids
    /\ a.open = {} => a.layer = {} /\ a.groups = <<>>

\* So are the groups still to be stored, which are of a size and a level to make
\* branches of.
GroupsReady(a) ==
    /\ a.top \in Nat
    /\ a.groups \in Seq(SUBSET a.ids)
    /\ \A g \in DOMAIN a.groups : /\ Cardinality(a.groups[g]) \in 2 .. Bound
                                  /\ \A b \in a.groups[g] : b.level <= a.top

\* No block is left behind: one without a parent is in the spill of a partition
\* still to be opened, is the block of a partition whose parent is, or is in the
\* layer at work.
NoneLeftBehind(a, parts) ==
    \A b \in a.ids :
        \/ \E c \in a.ids : b \in c.kids
        \/ \E t \in Terminals(parts) \ (DOMAIN a.built \cup a.open) : b \in Range(a.spill[t])
        \/ \E q \in DOMAIN a.built :
              /\ b = a.built[q]
              /\ \A p \in DOMAIN a.built \cup a.open : q \notin Range(parts[p].children)
        \/ b \in a.layer
        \/ \E g \in DOMAIN a.groups : b \in a.groups[g]

AssemblyInv(a, parts, L) ==
    IsForest(a.ids, L) /\ InHand(a, parts) /\ GroupsReady(a) /\ NoneLeftBehind(a, parts)

=============================================================================
