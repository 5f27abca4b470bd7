------------------------------- MODULE Search -------------------------------
(***************************************************************************)
(* lexongraph_search: best-first search with beam width w over the blocks   *)
(* of an index.  A branch block holds scored references to child blocks, a  *)
(* leaf block is one scored result.  Each round ranks the frontier, stops   *)
(* if its first n candidates are leaves, and otherwise loads up to w        *)
(* children, chosen by a selector, in chunks of concurrent gets.  Scores    *)
(* are computed outside and are part of the graph here.  An indexer may be  *)
(* publishing the blocks, children first, while the search runs.            *)
(***************************************************************************)
EXTENDS Naturals, Sequences, FiniteSets

CONSTANTS Blocks,         \* block identifiers; their order is the byte order
          Graphs,         \* indexes: root, level and references of each block
          Widths,         \* values of w
          Counts,         \* values of n
          MaxConcurrent,  \* MAX_CONCURRENT_CHILD_LOADS
          MaxFaults       \* gets that fail or yield an unusable block

\* A leaf has level 0, one score and no references; a branch refers to blocks
\* of lower levels.  Content addressing leaves no way to build a cycle.
ASSUME GraphAssumption ==
    /\ Blocks \subseteq Nat /\ IsFiniteSet(Blocks)
    /\ \A g \in Graphs :
          /\ g.root \in Blocks
          /\ g.level \in [Blocks -> Nat]
          /\ g.score \in [Blocks -> Nat]
          /\ \A b \in Blocks : IsFiniteSet(g.entries[b])
          /\ \A b \in Blocks : \A e \in g.entries[b] :
                /\ e.child \in Blocks /\ e.score \in Nat
                /\ g.level[e.child] < g.level[b]
ASSUME BoundsAssumption ==
    /\ Widths \subseteq Nat /\ Counts \subseteq Nat
    /\ MaxConcurrent \in Nat \ {0} /\ MaxFaults \in Nat

VARIABLES graph,     \* the index that is searched
          w, n,      \* the caller's traversal width and result count
          present,   \* blocks the store holds
          faults,    \* blocks that could not be used so far
          pc,        \* "start", "rank", "load", "done"
          frontier,  \* ranked candidates
          expanded,  \* expanded_children
          round,     \* current_round: children chosen and not yet consumed
          answers,   \* results of the gets of the current chunk
          fetched,   \* next_candidates
          visited,   \* SearchTelemetryCollector::visited_blocks
          gets,      \* number of gets made for each block
          outcome,   \* SearchTerminationKind
          result,    \* the leaves returned, with their positions
          reported   \* reachable_leaves of Exhausted

inputs == <<graph, w, n>>
traversal == <<frontier, expanded, round, answers, fetched, visited>>
vars == <<graph, w, n, present, faults, pc, frontier, expanded, round,
          answers, fetched, visited, gets, outcome, result, reported>>

Defects == {"failure", "malformed", "incompatible", "unscorable"}
Outcomes == {"running", "success", "InvalidTraversalWidth", "MissingRootBlock",
             "RootLoad", "MissingChildBlock", "ChildLoad", "MalformedBlock",
             "IncompatibleEmbedding", "ScoringFailure", "FrontierSelectionFailure",
             "Exhausted"}

IsLeaf(b) == graph.level[b] = 0
Children(b) == {e.child : e \in graph.entries[b]}

\* Candidates: the entries of a block, with the block's level.
Candidate == [block : Blocks, level : Nat, score : Nat]
CandidatesOf(b) ==
    IF IsLeaf(b)
    THEN {[block |-> b, level |-> 0, score |-> graph.score[b]]}
    ELSE {[block |-> e.child, level |-> graph.level[b], score |-> e.score] :
             e \in graph.entries[b]}
IsTerminal(x) == x.level = 0

\* compare_candidates: score descending, level, then identity.
Ahead(x, y) ==
    \/ x.score > y.score
    \/ x.score = y.score /\ x.level < y.level
    \/ x.score = y.score /\ x.level = y.level /\ x.block < y.block

TypeOK ==
    /\ graph \in Graphs /\ w \in Widths /\ n \in Counts
    /\ present \subseteq Blocks
    /\ faults \in 0 .. MaxFaults
    /\ pc \in {"start", "rank", "load", "done"}
    /\ frontier \subseteq Candidate /\ fetched \subseteq Candidate
    /\ expanded \subseteq Blocks /\ visited \subseteq Blocks
    /\ round \in Seq(Blocks) /\ Len(round) <= w
    /\ DOMAIN answers \subseteq Blocks
    /\ gets \in [Blocks -> Nat]
    /\ outcome \in Outcomes
    /\ \A r \in result : r.leaf \in Blocks /\ r.position \in 0 .. n
    /\ reported \in Nat

\* A writer has stored the leaves.
Init ==
    /\ graph \in Graphs /\ w \in Widths /\ n \in Counts
    /\ present = {b \in Blocks : IsLeaf(b)}
    /\ faults = 0
    /\ pc = "start"
    /\ frontier = {} /\ expanded = {} /\ round = << >>
    /\ answers = << >> /\ fetched = {} /\ visited = {}
    /\ gets = [b \in Blocks |-> 0]
    /\ outcome = "running" /\ result = {} /\ reported = 0

-----------------------------------------------------------------------------
(* Loading blocks.                                                          *)

\* store.get and what comes of its block: it is absent, usable, or it fails to
\* load ("failure"), to validate ("malformed"), to compare or to score.  No block
\* is loaded twice, so what is wrong with a block is decided when it is loaded.
GetAnswers(b) ==
    IF b \notin present THEN {"none"}
    ELSE {"some"} \cup (IF faults < MaxFaults THEN Defects ELSE {})

CountGet(b, answer) ==
    /\ gets' = [gets EXCEPT ![b] = @ + 1]
    /\ faults' = IF answer \in Defects THEN faults + 1 ELSE faults

\* load_validated_block, classify_store_error and build_block_candidates: what
\* ends the search, or "ok".
Verdict(b, answer) ==
    CASE answer = "none"         -> IF b = graph.root THEN "MissingRootBlock" ELSE "MissingChildBlock"
      [] answer = "failure"      -> IF b = graph.root THEN "RootLoad" ELSE "ChildLoad"
      [] answer = "malformed"    -> "MalformedBlock"
      [] answer = "incompatible" -> "IncompatibleEmbedding"
      [] answer = "unscorable"   -> "ScoringFailure"
      [] answer = "some"         -> "ok"

\* record_visited_block comes after the block is validated and before it is
\* compared.
Visits(answer) == answer \in {"some", "incompatible", "unscorable"}

Return(kind) == pc' = "done" /\ outcome' = kind

\* search_internal up to its loop.
LoadRoot ==
    /\ pc = "start"
    /\ IF w = 0
       THEN /\ Return("InvalidTraversalWidth")
            /\ UNCHANGED <<faults, gets, frontier, visited>>
       ELSE \E answer \in GetAnswers(graph.root) :
              /\ CountGet(graph.root, answer)
              /\ visited' = IF Visits(answer) THEN {graph.root} ELSE {}
              /\ IF Verdict(graph.root, answer) = "ok"
                 THEN /\ frontier' = CandidatesOf(graph.root)
                      /\ pc' = "rank"
                      /\ UNCHANGED outcome
                 ELSE Return(Verdict(graph.root, answer)) /\ UNCHANGED frontier
    /\ UNCHANGED <<inputs, present, expanded, round, answers, fetched, result, reported>>

-----------------------------------------------------------------------------
(* A round.                                                                 *)

\* retain at the head of the loop.  The code's frontier is a vector: two parents
\* of one level may refer to a child with one score.  Only references can repeat,
\* and whether the first n are leaves, and how many leaves there are, is the same
\* with and without the repetition.
Live == {x \in frontier : IsTerminal(x) \/ x.block \notin expanded}

\* deduplicated_expandable_frontier.
Expandable == {x.block : x \in {y \in Live : ~IsTerminal(y)}}

Smaller(a, b) == IF a < b THEN a ELSE b

\* Position of a candidate in the sorted frontier.
Rank(x) == Cardinality({y \in Live : Ahead(y, x)})

\* Every order in which some selector may pick as many children as it must.
Selections ==
    LET k == Smaller(Cardinality(Expandable), w)
    IN  {s \in [1 .. k -> Expandable] : \A i, j \in 1 .. k : s[i] = s[j] => i = j}

\* Fault: enough leaves anywhere in the frontier end the search.
EnoughLeaves == Cardinality({x \in Live : IsTerminal(x)}) >= n

\* The frontier has n candidates and the first n of them are leaves.
Enough ==
    /\ Cardinality(Live) >= n
    /\ \A x \in Live : Rank(x) < n => IsTerminal(x)

Finish ==
    /\ pc = "rank"
    /\ Enough
    /\ frontier' = Live
    /\ LET top == {x \in Live : IsTerminal(x) /\ Rank(x) < n}
       IN  result' = {[leaf |-> x.block, score |-> x.score,
                       position |-> Cardinality({y \in Live : Ahead(y, x)})] : x \in top}
    /\ Return("success")
    /\ UNCHANGED <<inputs, present, faults, expanded, round, answers, fetched,
                   visited, gets, reported>>

\* The selector fails, or validate_selected_children rejects what it returned.
SelectionFails ==
    /\ pc = "rank"
    /\ ~Enough
    /\ frontier' = Live
    /\ Return("FrontierSelectionFailure")
    /\ UNCHANGED <<inputs, present, faults, expanded, round, answers, fetched,
                   visited, gets, result, reported>>

ExhaustedRound ==
    /\ pc = "rank"
    /\ ~Enough
    /\ Expandable = {}
    /\ frontier' = Live
    /\ reported' = Cardinality({x \in Live : IsTerminal(x)})
    /\ Return("Exhausted")
    /\ UNCHANGED <<inputs, present, faults, expanded, round, answers, fetched,
                   visited, gets, result>>

\* Fault: an empty selection does not end the search.
SelectNothing ==
    /\ pc = "rank"
    /\ ~Enough
    /\ frontier' = Live
    /\ round' \in Selections
    /\ pc' = "load"
    /\ UNCHANGED <<inputs, present, faults, expanded, answers, fetched, visited,
                   gets, outcome, result, reported>>

Select ==
    /\ pc = "rank"
    /\ ~Enough
    /\ Expandable # {}
    /\ frontier' = Live
    /\ round' \in Selections
    /\ pc' = "load"
    /\ UNCHANGED <<inputs, present, faults, expanded, answers, fetched, visited,
                   gets, outcome, result, reported>>

ChunkLen == Smaller(Len(round), Smaller(w, MaxConcurrent))
Chunk == {round[i] : i \in 1 .. ChunkLen}

\* One of the concurrent gets of the chunk is answered.
Answer(b) ==
    /\ pc = "load"
    /\ b \in Chunk \ DOMAIN answers
    /\ \E answer \in GetAnswers(b) :
          /\ CountGet(b, answer)
          /\ answers' = [x \in DOMAIN answers \cup {b} |->
                            IF x = b THEN answer ELSE answers[x]]
    /\ UNCHANGED <<inputs, present, pc, frontier, expanded, round, fetched, visited,
                   outcome, result, reported>>

\* Fault: a failed child is skipped.
ConsumeSkipsFailures ==
    /\ pc = "load"
    /\ Chunk \subseteq DOMAIN answers
    /\ LET good == {b \in Chunk : Verdict(b, answers[b]) = "ok"}
           rest == SubSeq(round, ChunkLen + 1, Len(round))
       IN  /\ visited' = visited \cup good
           /\ expanded' = expanded \cup Chunk
           /\ IF rest # << >>
              THEN /\ fetched' = fetched \cup UNION {CandidatesOf(b) : b \in good}
                   /\ UNCHANGED <<pc, frontier>>
              ELSE /\ fetched' = {}
                   /\ frontier' = frontier \cup fetched \cup UNION {CandidatesOf(b) : b \in good}
                   /\ pc' = "rank"
           /\ round' = rest
    /\ answers' = << >>
    /\ UNCHANGED <<inputs, present, faults, gets, outcome, result, reported>>

\* Fault: expanded children are not remembered.
ConsumeForgetsExpanded ==
    /\ pc = "load"
    /\ Chunk \subseteq DOMAIN answers
    /\ \A b \in Chunk : Verdict(b, answers[b]) = "ok"
    /\ visited' = visited \cup Chunk
    /\ frontier' = {x \in frontier : IsTerminal(x) \/ x.block \notin Chunk}
                      \cup UNION {CandidatesOf(b) : b \in Chunk}
    /\ fetched' = {} /\ round' = << >> /\ answers' = << >>
    /\ pc' = "rank"
    /\ UNCHANGED <<inputs, present, faults, expanded, gets, outcome, result, reported>>

\* All gets of the chunk are answered: they are consumed in the order of the
\* round, and the first that fails ends the search.  After the last chunk the
\* round's references leave the frontier and what was fetched enters it.
Consume ==
    /\ pc = "load"
    /\ Chunk \subseteq DOMAIN answers
    /\ LET bad   == {i \in 1 .. ChunkLen : Verdict(round[i], answers[round[i]]) # "ok"}
           first == CHOOSE i \in bad : \A j \in bad : i <= j
           good  == {round[i] : i \in {j \in 1 .. ChunkLen : bad = {} \/ j < first}}
           rest  == SubSeq(round, ChunkLen + 1, Len(round))
           found == fetched \cup UNION {CandidatesOf(b) : b \in good}
       IN  /\ expanded' = expanded \cup good
           /\ IF bad # {}
              THEN /\ Return(Verdict(round[first], answers[round[first]]))
                   /\ visited' = visited \cup good \cup
                         (IF Visits(answers[round[first]]) THEN {round[first]} ELSE {})
                   /\ UNCHANGED <<frontier, round, answers, fetched>>
              ELSE /\ visited' = visited \cup good
                   /\ answers' = << >>
                   /\ round' = rest
                   /\ IF rest # << >>
                      THEN fetched' = found /\ UNCHANGED <<pc, frontier>>
                      ELSE /\ fetched' = {}
                           /\ frontier' = {x \in frontier : IsTerminal(x) \/ x.block \notin expanded'}
                                             \cup found
                           /\ pc' = "rank"
                   /\ UNCHANGED outcome
    /\ UNCHANGED <<inputs, present, faults, gets, result, reported>>

-----------------------------------------------------------------------------

\* Fault: a branch block is stored before its children.
PublishAnyOrder(b) ==
    /\ b \notin present
    /\ present' = present \cup {b}
    /\ UNCHANGED <<inputs, faults, pc, traversal, gets, outcome, result, reported>>

\* The streaming indexer stores a branch block after the blocks it refers to.
Publish(b) ==
    /\ b \notin present
    /\ Children(b) \subseteq present
    /\ present' = present \cup {b}
    /\ UNCHANGED <<inputs, faults, pc, traversal, gets, outcome, result, reported>>

SearchStep ==
    \/ LoadRoot \/ Finish \/ SelectionFails \/ ExhaustedRound \/ Select
    \/ \E b \in Blocks : Answer(b)
    \/ Consume

\* The search has returned, and the writer has nothing left to store.
Ended == pc = "done" /\ present = Blocks /\ UNCHANGED vars

Next == SearchStep \/ (\E b \in Blocks : Publish(b)) \/ Ended

\* A get is answered, and the task that runs the search is polled.
Spec == Init /\ [][Next]_vars /\ WF_vars(SearchStep)

-----------------------------------------------------------------------------
(* The inductive invariant.                                                 *)

\* The blocks below the root: what every set of blocks has that holds the root
\* and, with a block, its children.
Closed(S) == graph.root \in S /\ \A b \in S : Children(b) \subseteq S
Reachable == {b \in Blocks : \A S \in SUBSET Blocks : Closed(S) => b \in S}
Leaves == {b \in Reachable : IsLeaf(b)}

\* The store holds the children of what it holds.
ChildrenStored == \A b \in present : Children(b) \subseteq present

\* The search has opened the root and what it expanded, all of it stored and
\* below the root, and nothing above or beside it.
OpenedInv ==
    /\ visited = {graph.root} \cup expanded
    /\ visited \subseteq present \cap Reachable
    /\ \A b \in expanded : graph.level[b] < graph.level[graph.root]

\* The frontier, with what the round fetched, is what the opened blocks hold,
\* but for references to expanded blocks.
FrontierInv ==
    /\ \A x \in frontier \cup fetched : \E b \in visited : x \in CandidatesOf(b)
    /\ \A b \in visited : \A x \in CandidatesOf(b) :
          x \in frontier \cup fetched \/ (~IsTerminal(x) /\ x.block \in expanded)

\* A round is made of distinct unopened blocks the frontier refers to.
RoundInv ==
    /\ w > 0
    /\ pc = "rank" => round = << >> /\ DOMAIN answers = {} /\ fetched = {}
    /\ pc = "load" => Len(round) > 0
    /\ \A i, j \in 1 .. Len(round) : round[i] = round[j] => i = j
    /\ \A i \in 1 .. Len(round) :
          /\ round[i] \notin visited
          /\ \E x \in frontier : ~IsTerminal(x) /\ x.block = round[i]
    /\ DOMAIN answers \subseteq Chunk
    /\ \A b \in DOMAIN answers : answers[b] \in {"some"} \cup Defects

\* Only opened and answered blocks were asked for, once.
GetsInv == \A b \in Blocks : gets[b] <= IF b \in visited \cup DOMAIN answers THEN 1 ELSE 0

StartInv ==
    /\ frontier = {} /\ expanded = {} /\ round = << >> /\ DOMAIN answers = {}
    /\ fetched = {} /\ visited = {} /\ gets = [b \in Blocks |-> 0]

SearchInv ==
    /\ ChildrenStored
    /\ pc = "start" => StartInv
    /\ pc \in {"rank", "load"} => OpenedInv /\ FrontierInv /\ RoundInv /\ GetsInv
    /\ pc # "done" => outcome = "running" /\ result = {}

-----------------------------------------------------------------------------
(* Properties.                                                              *)

\* A reference never scores below what it leads to.
Admissible ==
    \A b \in Blocks : \A e \in graph.entries[b] :
        \A x \in CandidatesOf(e.child) : e.score >= x.score

\* In any index the result is ranked by score, holds no leaf twice, and leaves
\* out no better leaf that was loaded.
ResultRanked ==
    outcome = "success" =>
        /\ \A q, r \in result : q.position < r.position => q.score >= r.score
        /\ {r.position : r \in result} = {k \in 0 .. n : k < n}
        /\ \A b \in visited : IsLeaf(b) /\ b \notin {r.leaf : r \in result} =>
              \A r \in result : graph.score[b] <= r.score

\* If references never score below what they lead to, the leaves a search
\* returns are n of the index, and no leaf left out scores more than one of them.
ResultExact ==
    (outcome = "success" /\ Admissible) =>
        /\ Cardinality({r.leaf : r \in result}) = n
        /\ {r.leaf : r \in result} \subseteq Leaves
        /\ \A b \in Leaves : \A r \in result :
              b \notin {q.leaf : q \in result} => graph.score[b] <= r.score

\* In an admissible index the search returns the n best leaves of the whole
\* index, whatever the width, the selector and the chunks; in any index the
\* result is ranked.
ExactWhenAdmissible == TypeOK /\ ResultRanked /\ ResultExact

\* Exhausted is reported only when the whole index was expanded, with the true
\* number of leaves, which is too small.
ExhaustedHonest ==
    outcome = "Exhausted" =>
        /\ Reachable \subseteq visited
        /\ reported = Cardinality(Leaves)
        /\ reported < n

\* REQ-SEARCH-022: no block is loaded twice, however many references to it
\* come in before, during and after its round.  The indexer stores children
\* first, so a search that found its root finds every child, however early it
\* started.
LoadsRight == outcome # "MissingChildBlock" /\ \A b \in Blocks : gets[b] <= 1

\* Every search returns.
SearchReturns == <>(pc = "done")

=============================================================================
