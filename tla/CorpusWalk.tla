----------------------------- MODULE CorpusWalk -----------------------------
(* collect_leaf_records: how the evaluator reads a corpus from a block store.  *)
(* From the root down, with a stack of pending blocks; a block met twice, one  *)
(* that is missing and a read that fails end the walk.                         *)
EXTENDS Naturals, Sequences, FiniteSets, SequencesExt

CONSTANT
    Corpora     \* records of a root and the blocks of the store: for a branch the
                \* sequence of its children, for a leaf that of its entries

VARIABLES corpus, pending, visited, records, outcome
vars == <<corpus, pending, visited, records, outcome>>

Branch(children) == [leaf |-> FALSE, refs |-> children]
LeafOf(entries) == [leaf |-> TRUE, refs |-> entries]

Init ==
    /\ corpus \in Corpora /\ pending = <<corpus.root>>
    /\ visited = {} /\ records = <<>> /\ outcome = "walking"

\* Children pushed as they come are popped from the last.
PushedInOrder(children) == children
Pushed(children) == Reverse(children)

Visit ==
    /\ outcome = "walking" /\ pending # <<>>
    /\ LET block == Last(pending) IN
       /\ visited' = visited \cup {block}
       /\ IF block \in visited THEN outcome' = "repeated" /\ UNCHANGED <<pending, records>>
          ELSE IF block \notin DOMAIN corpus.blocks THEN outcome' = "missing" /\ UNCHANGED <<pending, records>>
          ELSE /\ UNCHANGED outcome
               /\ IF corpus.blocks[block].leaf
                  THEN records' = records \o corpus.blocks[block].refs /\ pending' = Front(pending)
                  ELSE pending' = Front(pending) \o Pushed(corpus.blocks[block].refs) /\ UNCHANGED records
    /\ UNCHANGED corpus

ReadFails ==
    /\ outcome = "walking" /\ pending # <<>> /\ Last(pending) \notin visited
    /\ visited' = visited \cup {Last(pending)} /\ outcome' = "read failed"
    /\ UNCHANGED <<corpus, pending, records>>

Collected ==
    /\ outcome = "walking" /\ pending = <<>>
    /\ outcome' = "ok"
    /\ UNCHANGED <<corpus, pending, visited, records>>

Next == Visit \/ ReadFails \/ Collected

Spec == Init /\ [][Next]_vars

-----------------------------------------------------------------------------
\* The entries below a block, from left to right; a tree is at most 3 high.
Below(c, height, block) ==
    LET Entries[h \in 0 .. height] ==
            [b \in DOMAIN c.blocks |->
                IF c.blocks[b].leaf THEN c.blocks[b].refs
                ELSE IF h = 0 THEN <<>>
                ELSE FlattenSeq([i \in DOMAIN c.blocks[b].refs |->
                        IF c.blocks[b].refs[i] \in DOMAIN c.blocks THEN Entries[h - 1][c.blocks[b].refs[i]] ELSE <<>>])]
    IN  Entries[height][block]

\* How often a block is referred to, by the caller as the root or by a branch.
References(c, block) ==
    (IF block = c.root THEN 1 ELSE 0)
    + Cardinality({<<b, i>> \in {b \in DOMAIN c.blocks : ~c.blocks[b].leaf} \X (1 .. 3) :
                    i \in DOMAIN c.blocks[b].refs /\ c.blocks[b].refs[i] = block})

\* A completed walk has the entries of every leaf below the root from left to
\* right, each once, and an incomplete one is refused for a reason that the store
\* has.
WalkExact ==
    /\ outcome = "ok" => records = Below(corpus, 3, corpus.root)
    /\ outcome = "repeated" => \E b \in visited : References(corpus, b) > 1
    /\ outcome = "missing" => \E b \in visited : b \notin DOMAIN corpus.blocks
=============================================================================
