---------------------------- MODULE SearchProofs ----------------------------
(***************************************************************************)
(* Proofs about Search, for every index, width, count, selector, chunk size *)
(* and number of faults.                                                    *)
(***************************************************************************)
EXTENDS Search, FiniteSetTheorems, TLAPS

\* A set of numbers that is not empty has a least element.
LEMMA LeastNumber ==
    ASSUME NEW S \in SUBSET Nat, S # {}
    PROVE  \E m \in S : \A k \in S : m <= k
<1> DEFINE R == OpToRel(<, Nat)
<1>1. IsWellFoundedOn(R, Nat)
  BY NatLessThanWellFounded, Zenon
<1> HIDE DEF R
<1>2. PICK m \in S : \A k \in S : ~(<<k, m>> \in R)
  BY <1>1, WFMin
<1>3. \A k \in S : ~(k < m)
  BY <1>2 DEF R, OpToRel
<1> QED BY <1>3

-----------------------------------------------------------------------------
(* Ranks.                                                                   *)

\* compare_candidates is a strict total order.
LEMMA AheadOrder ==
    ASSUME NEW x \in Candidate, NEW y \in Candidate, NEW z \in Candidate
    PROVE  /\ ~Ahead(x, x)
           /\ Ahead(x, y) /\ Ahead(y, z) => Ahead(x, z)
           /\ x = y \/ Ahead(x, y) \/ Ahead(y, x)
<1>1. /\ x.block \in Nat /\ x.level \in Nat /\ x.score \in Nat
      /\ y.block \in Nat /\ y.level \in Nat /\ y.score \in Nat
      /\ z.block \in Nat /\ z.level \in Nat /\ z.score \in Nat
  BY GraphAssumption DEF Candidate
<1>2. x.block = y.block /\ x.level = y.level /\ x.score = y.score => x = y
  BY DEF Candidate
<1>3. ~Ahead(x, x) /\ (Ahead(x, y) /\ Ahead(y, z) => Ahead(x, z))
  BY <1>1 DEF Ahead
<1>4. \/ x.block = y.block /\ x.level = y.level /\ x.score = y.score
      \/ Ahead(x, y) \/ Ahead(y, x)
  BY <1>1 DEF Ahead
<1> QED BY <1>2, <1>3, <1>4

\* The position of a candidate in a finite sorted frontier.
LEMMA RankType ==
    ASSUME Live \subseteq Candidate, IsFiniteSet(Live), NEW x \in Live
    PROVE  /\ Cardinality(Live) \in Nat
           /\ Rank(x) \in 0 .. Cardinality(Live) - 1
<1> DEFINE before == {y \in Live : Ahead(y, x)}
<1>1. x \notin before /\ before \subseteq Live
  BY AheadOrder
<1>2. /\ IsFiniteSet(before) /\ Cardinality(before) <= Cardinality(Live)
      /\ Cardinality(Live) = Cardinality(before) => Live = before
  BY <1>1, FS_Subset
<1>3. Cardinality(before) \in Nat /\ Cardinality(Live) \in Nat
  BY <1>2, FS_CardinalityType
<1>4. Rank(x) = Cardinality(before)
  BY DEF Rank
<1> HIDE DEF before
<1> QED BY <1>1, <1>2, <1>3, <1>4

\* A candidate that is ahead has the smaller rank.
LEMMA RankMonotone ==
    ASSUME Live \subseteq Candidate, IsFiniteSet(Live), NEW x \in Live, NEW y \in Live,
           Ahead(x, y)
    PROVE  Rank(x) < Rank(y)
<1> DEFINE bx == {z \in Live : Ahead(z, x)}
           by == {z \in Live : Ahead(z, y)}
<1>1. bx \subseteq by /\ x \in by /\ x \notin bx
  BY AheadOrder
<1>2. IsFiniteSet(by)
  BY FS_Subset
<1>3. /\ IsFiniteSet(bx) /\ Cardinality(bx) <= Cardinality(by)
      /\ Cardinality(by) = Cardinality(bx) => by = bx
  BY <1>1, <1>2, FS_Subset
<1>4. Cardinality(bx) \in Nat /\ Cardinality(by) \in Nat
  BY <1>2, <1>3, FS_CardinalityType
<1>5. Rank(x) = Cardinality(bx) /\ Rank(y) = Cardinality(by)
  BY DEF Rank
<1> HIDE DEF bx, by
<1> QED BY <1>1, <1>3, <1>4, <1>5

\* Ranks are 0, 1, 2 ... with no gap and no tie.
LEMMA RankDense ==
    ASSUME Live \subseteq Candidate, IsFiniteSet(Live)
    PROVE  /\ \A x, y \in Live : Rank(x) = Rank(y) => x = y
           /\ \A k \in 0 .. Cardinality(Live) - 1 : \E x \in Live : Rank(x) = k
<1> DEFINE N == Cardinality(Live)
           f == [x \in Live |-> Rank(x)]
<1>1. N \in Nat
  BY FS_CardinalityType
<1>2. \A x \in Live : Rank(x) \in 0 .. N - 1
  BY RankType
<1>3. \A x, y \in Live : Rank(x) = Rank(y) => x = y
  <2>1. SUFFICES ASSUME NEW x \in Live, NEW y \in Live, Rank(x) = Rank(y), x # y
                 PROVE  FALSE
    OBVIOUS
  <2>2. Ahead(x, y) \/ Ahead(y, x)
    BY <2>1, AheadOrder
  <2>3. Rank(x) < Rank(y) \/ Rank(y) < Rank(x)
    BY <2>2, RankMonotone
  <2> QED BY <1>1, <1>2, <2>1, <2>3
<1>4. f \in Injection(Live, 0 .. N - 1)
  BY <1>2, <1>3 DEF Injection, IsInjective
<1>5. IsFiniteSet(0 .. N - 1) /\ Cardinality(0 .. N - 1) = N
  <2>1. 0 \in Int /\ N - 1 \in Int
    BY <1>1
  <2> QED BY <2>1, <1>1, FS_Interval
<1>6. f \in Surjection(Live, 0 .. N - 1)
  BY <1>4, <1>5, FS_Injection
<1>7. \A k \in 0 .. N - 1 : \E x \in Live : Rank(x) = k
  BY <1>6 DEF Surjection
<1> QED BY <1>3, <1>7

-----------------------------------------------------------------------------
(* The index.                                                               *)

\* A branch refers to blocks of lower levels, a leaf to none.
LEMMA Below ==
    ASSUME graph \in Graphs, NEW b \in Blocks
    PROVE  /\ graph.level[b] \in Nat /\ graph.score[b] \in Nat
           /\ graph.root \in Blocks /\ graph.level[graph.root] \in Nat
           /\ \A e \in graph.entries[b] : /\ e.child \in Blocks /\ e.score \in Nat
                                          /\ graph.level[e.child] \in Nat
                                          /\ graph.level[e.child] < graph.level[b]
           /\ \A d \in Children(b) : d \in Blocks /\ graph.level[d] < graph.level[b]
           /\ IsLeaf(b) => Children(b) = {}
<1>1. /\ graph.level[b] \in Nat /\ graph.score[b] \in Nat
      /\ graph.root \in Blocks /\ graph.level[graph.root] \in Nat
  BY GraphAssumption
<1>2. \A e \in graph.entries[b] : /\ e.child \in Blocks /\ e.score \in Nat
                                  /\ graph.level[e.child] \in Nat
                                  /\ graph.level[e.child] < graph.level[b]
  BY GraphAssumption
<1>3. IsLeaf(b) => Children(b) = {}
  BY <1>1, <1>2 DEF IsLeaf, Children
<1> QED BY <1>1, <1>2, <1>3 DEF Children

\* The candidates of a block: the leaf itself, or its references.
LEMMA CandidateFacts ==
    ASSUME graph \in Graphs, NEW b \in Blocks
    PROVE  /\ CandidatesOf(b) \subseteq Candidate
           /\ \A x \in CandidatesOf(b) :
                 /\ IsTerminal(x) <=> IsLeaf(b)
                 /\ IsTerminal(x) => x = [block |-> b, level |-> 0, score |-> graph.score[b]]
                 /\ ~IsTerminal(x) => x.block \in Children(b)
           /\ IsLeaf(b) => CandidatesOf(b) = {[block |-> b, level |-> 0, score |-> graph.score[b]]}
           /\ \A e \in graph.entries[b] :
                 [block |-> e.child, level |-> graph.level[b], score |-> e.score] \in CandidatesOf(b)
<1>1. CASE IsLeaf(b)
  <2>1. CandidatesOf(b) = {[block |-> b, level |-> 0, score |-> graph.score[b]]}
    BY <1>1 DEF CandidatesOf
  <2>2. graph.entries[b] = {}
    BY <1>1, Below DEF Children
  <2> QED BY <1>1, <2>1, <2>2, Below DEF Candidate, IsTerminal
<1>2. CASE ~IsLeaf(b)
  <2>1. CandidatesOf(b) = {[block |-> e.child, level |-> graph.level[b], score |-> e.score] :
                              e \in graph.entries[b]}
    BY <1>2 DEF CandidatesOf
  <2>2. graph.level[b] \in Nat /\ graph.level[b] # 0
    BY <1>2, Below DEF IsLeaf
  <2>3. CandidatesOf(b) \subseteq Candidate
    BY <2>1, <2>2, Below DEF Candidate
  <2>4. \A x \in CandidatesOf(b) : ~IsTerminal(x) /\ x.block \in Children(b)
    BY <2>1, <2>2 DEF IsTerminal, Children
  <2> QED BY <1>2, <2>1, <2>3, <2>4
<1> QED BY <1>1, <1>2

LEMMA CandidatesFinite ==
    ASSUME graph \in Graphs
    PROVE  IsFiniteSet(UNION {CandidatesOf(b) : b \in Blocks})
<1>1. ASSUME NEW b \in Blocks PROVE IsFiniteSet(CandidatesOf(b))
  <2>1. CASE IsLeaf(b)
    <3>1. CandidatesOf(b) = {[block |-> b, level |-> 0, score |-> graph.score[b]]}
      BY <2>1, CandidateFacts
    <3> QED BY <3>1, FS_Singleton
  <2>2. CASE ~IsLeaf(b)
    <3> DEFINE f == [e \in graph.entries[b] |->
                        [block |-> e.child, level |-> graph.level[b], score |-> e.score]]
    <3>1. f \in Surjection(graph.entries[b], CandidatesOf(b))
      BY <2>2 DEF CandidatesOf, Surjection
    <3>2. IsFiniteSet(graph.entries[b])
      BY GraphAssumption
    <3> QED BY <3>1, <3>2, FS_Surjection
  <2> QED BY <2>1, <2>2
<1> DEFINE C == {CandidatesOf(b) : b \in Blocks}
           g == [b \in Blocks |-> CandidatesOf(b)]
<1>2. g \in Surjection(Blocks, C)
  BY DEF Surjection
<1>3. IsFiniteSet(C)
  BY <1>2, GraphAssumption, FS_Surjection
<1>4. \A T \in C : IsFiniteSet(T)
  BY <1>1
<1> QED BY <1>3, <1>4, FS_UNION

\* The root is reachable, and so are the children of what is reachable.
LEMMA ReachableClosed ==
    ASSUME graph \in Graphs
    PROVE  Reachable \subseteq Blocks /\ Closed(Reachable)
<1>1. graph.root \in Reachable
  BY GraphAssumption DEF Reachable, Closed
<1>2. ASSUME NEW b \in Reachable, NEW d \in Children(b) PROVE d \in Reachable
  <2>1. b \in Blocks /\ d \in Blocks
    BY Below DEF Reachable
  <2> QED BY <2>1 DEF Reachable, Closed
<1> QED BY <1>1, <1>2 DEF Closed, Reachable

LEMMA ReachableLeast ==
    ASSUME NEW S \in SUBSET Blocks, Closed(S)
    PROVE  Reachable \subseteq S
  BY DEF Reachable

-----------------------------------------------------------------------------
(* Type correctness.                                                        *)

LEMMA ChunkFacts ==
    ASSUME TypeOK
    PROVE  /\ ChunkLen \in 0 .. Len(round) /\ Len(round) \in Nat
           /\ Len(round) > 0 /\ w > 0 => ChunkLen > 0
           /\ Chunk \subseteq Blocks
           /\ \A i \in 1 .. ChunkLen : round[i] \in Chunk /\ i \in 1 .. Len(round)
           /\ \A b \in Chunk : \E i \in 1 .. ChunkLen : b = round[i]
<1>1. round \in Seq(Blocks) /\ Len(round) \in Nat /\ w \in Nat /\ MaxConcurrent \in Nat \ {0}
  BY BoundsAssumption DEF TypeOK
<1>2. ChunkLen \in 0 .. Len(round) /\ (Len(round) > 0 /\ w > 0 => ChunkLen > 0)
  BY <1>1 DEF ChunkLen, Smaller
<1>3. \A i \in 1 .. ChunkLen : i \in 1 .. Len(round) /\ round[i] \in Blocks
  BY <1>1, <1>2
<1> QED BY <1>1, <1>2, <1>3 DEF Chunk

LEMMA SelectionFacts ==
    ASSUME TypeOK, NEW s \in Selections
    PROVE  /\ s \in Seq(Blocks) /\ Len(s) <= w /\ Len(s) \in Nat
           /\ Expandable # {} /\ w > 0 => Len(s) > 0
           /\ \A i, j \in 1 .. Len(s) : s[i] = s[j] => i = j
           /\ \A i \in 1 .. Len(s) : s[i] \in Expandable
<1> DEFINE k == Smaller(Cardinality(Expandable), w)
<1>1. Expandable \subseteq Blocks /\ IsFiniteSet(Expandable)
  <2>1. Expandable \subseteq Blocks
    BY DEF Expandable, Live, TypeOK, Candidate
  <2> QED BY <2>1, GraphAssumption, FS_Subset
<1>2. Cardinality(Expandable) \in Nat /\ (Expandable # {} => Cardinality(Expandable) # 0)
  BY <1>1, FS_CardinalityType, FS_EmptySet
<1>3. w \in Nat
  BY BoundsAssumption DEF TypeOK
<1>4. k \in Nat /\ k <= w /\ (Expandable # {} /\ w > 0 => k > 0)
  BY <1>2, <1>3 DEF Smaller
<1>5. s \in [1 .. k -> Expandable] /\ \A i, j \in 1 .. k : s[i] = s[j] => i = j
  BY DEF Selections
<1> HIDE DEF k
<1>6. s \in Seq(Expandable) /\ Len(s) = k
  BY <1>4, <1>5
<1>7. s \in Seq(Blocks)
  BY <1>1, <1>6
<1> QED BY <1>4, <1>5, <1>6, <1>7

-----------------------------------------------------------------------------
(* The invariant while the search runs.                                     *)

\* The index is fixed, and with it what is derived from it.
LEMMA GraphFixed ==
    ASSUME graph' = graph
    PROVE  /\ \A b : CandidatesOf(b)' = CandidatesOf(b) /\ Children(b)' = Children(b)
           /\ \A b : IsLeaf(b)' = IsLeaf(b)
           /\ \A S : Closed(S)' <=> Closed(S)
           /\ Reachable' = Reachable /\ Leaves' = Leaves
<1>1. \A b : IsLeaf(b)' = IsLeaf(b) /\ Children(b)' = Children(b)
  BY DEF IsLeaf, Children
<1>2. \A b : CandidatesOf(b)' = CandidatesOf(b)
  BY DEF CandidatesOf, IsLeaf
<1>3. \A S : Closed(S)' <=> Closed(S)
  BY <1>1 DEF Closed
<1>4. Reachable' = Reachable
  BY <1>3 DEF Reachable
<1> QED BY <1>1, <1>2, <1>3, <1>4 DEF Leaves

\* What the answer to a get means for the search.
LEMMA VerdictFacts ==
    ASSUME NEW b, NEW answer \in {"none", "some"} \cup Defects
    PROVE  /\ Verdict(b, answer) = "ok" <=> answer = "some"
           /\ Verdict(b, answer) = "MissingChildBlock" => answer = "none" /\ b # graph.root
           /\ Verdict(b, answer) # "ok" =>
                 Verdict(b, answer) \in Outcomes \ {"running", "success", "Exhausted"}
  BY DEF Verdict, Defects, Outcomes

LEMMA GetFacts ==
    ASSUME TypeOK, NEW b \in Blocks, NEW answer \in GetAnswers(b), CountGet(b, answer)
    PROVE  /\ answer \in {"none", "some"} \cup Defects
           /\ answer = "none" <=> b \notin present
           /\ faults' \in 0 .. MaxFaults
           /\ gets' \in [Blocks -> Nat] /\ gets' = [gets EXCEPT ![b] = gets[b] + 1]
<1>1. /\ answer \in {"none", "some"} \cup Defects
      /\ answer = "none" <=> b \notin present
      /\ answer \in Defects => faults < MaxFaults
  BY DEF GetAnswers, Defects
<1>2. faults \in 0 .. MaxFaults /\ MaxFaults \in Nat /\ gets \in [Blocks -> Nat]
  BY BoundsAssumption DEF TypeOK
<1>3. gets' = [gets EXCEPT ![b] = gets[b] + 1] /\ faults' = IF answer \in Defects THEN faults + 1 ELSE faults
  BY DEF CountGet
<1> QED BY <1>1, <1>2, <1>3

\* What a running search refers to is stored, below the root, and not the root.
LEMMA Reference ==
    ASSUME TypeOK, ChildrenStored, OpenedInv, FrontierInv,
           NEW x \in frontier \cup fetched, ~IsTerminal(x)
    PROVE  /\ x.block \in Blocks /\ x.block \in present /\ x.block \in Reachable
           /\ graph.level[x.block] < graph.level[graph.root] /\ x.block # graph.root
<1>1. PICK b \in visited : x \in CandidatesOf(b)
  BY DEF FrontierInv
<1>2. graph \in Graphs /\ b \in Blocks /\ b \in present /\ b \in Reachable
  BY <1>1 DEF TypeOK, OpenedInv
<1>3. x.block \in Children(b)
  BY <1>1, <1>2, CandidateFacts
<1>4. x.block \in Blocks /\ graph.level[x.block] < graph.level[b] /\ graph.level[x.block] \in Nat
  BY <1>2, <1>3, Below
<1>5. x.block \in present
  BY <1>2, <1>3 DEF ChildrenStored
<1>6. x.block \in Reachable
  BY <1>2, <1>3, ReachableClosed DEF Closed
<1>7. graph.level[b] <= graph.level[graph.root] /\ graph.level[b] \in Nat /\ graph.level[graph.root] \in Nat
  BY <1>1, <1>2, Below DEF OpenedInv
<1> QED BY <1>4, <1>5, <1>6, <1>7

\* The frontier of a running search is finite.
LEMMA FrontierFinite ==
    ASSUME TypeOK, FrontierInv
    PROVE  IsFiniteSet(Live) /\ Live \subseteq Candidate /\ Live \subseteq frontier
<1>1. graph \in Graphs /\ visited \subseteq Blocks /\ frontier \subseteq Candidate
  BY DEF TypeOK
<1>2. Live \subseteq UNION {CandidatesOf(b) : b \in Blocks}
  BY <1>1 DEF FrontierInv, Live
<1>3. IsFiniteSet(Live)
  BY <1>1, <1>2, CandidatesFinite, FS_Subset
<1> QED BY <1>1, <1>3 DEF Live

FullInv == TypeOK /\ SearchInv /\ LoadsRight

LEMMA LoadRootStep == ASSUME FullInv, LoadRoot PROVE FullInv'
<1>1. /\ TypeOK /\ ChildrenStored /\ StartInv /\ pc = "start" /\ outcome = "running" /\ result = {}
      /\ graph \in Graphs /\ graph.root \in Blocks
      /\ UNCHANGED <<graph, w, n, present, expanded, round, answers, fetched, result, reported>>
  BY GraphAssumption DEF FullInv, SearchInv, LoadRoot, inputs, TypeOK
<1>2. ChildrenStored'
  BY <1>1, GraphFixed DEF ChildrenStored
<1>3. CASE w = 0
  <2>1. pc' = "done" /\ outcome' = "InvalidTraversalWidth" /\ UNCHANGED <<faults, gets, frontier, visited>>
    BY <1>3 DEF LoadRoot, Return
  <2> QED BY <1>1, <1>2, <2>1 DEF FullInv, SearchInv, LoadsRight, TypeOK, Outcomes
<1>4. ASSUME w # 0, NEW answer \in GetAnswers(graph.root), CountGet(graph.root, answer),
             visited' = IF Visits(answer) THEN {graph.root} ELSE {},
             IF Verdict(graph.root, answer) = "ok"
             THEN /\ frontier' = CandidatesOf(graph.root) /\ pc' = "rank" /\ UNCHANGED outcome
             ELSE Return(Verdict(graph.root, answer)) /\ UNCHANGED frontier
      PROVE  FullInv'
  <2>1. /\ answer \in {"none", "some"} \cup Defects
        /\ answer = "none" <=> graph.root \notin present
        /\ faults' \in 0 .. MaxFaults
        /\ gets' \in [Blocks -> Nat] /\ gets' = [gets EXCEPT ![graph.root] = gets[graph.root] + 1]
    BY <1>1, <1>4, GetFacts
  <2>2. \A b \in Blocks : gets'[b] <= IF b = graph.root THEN 1 ELSE 0
    BY <1>1, <2>1 DEF StartInv
  <2>3. CASE answer # "some"
    <3>1. /\ pc' = "done" /\ UNCHANGED frontier /\ outcome' \in Outcomes
          /\ outcome' # "MissingChildBlock" /\ visited' \subseteq Blocks
      BY <1>1, <1>4, <2>1, <2>3, VerdictFacts DEF Return
    <3>2. TypeOK'
      BY <1>1, <2>1, <3>1 DEF TypeOK
    <3>3. LoadsRight'
      BY <2>1, <2>2, <3>1 DEF LoadsRight
    <3> QED BY <1>2, <3>1, <3>2, <3>3 DEF FullInv, SearchInv
  <2>4. CASE answer = "some"
    <3>1. /\ frontier' = CandidatesOf(graph.root) /\ pc' = "rank" /\ UNCHANGED outcome
          /\ visited' = {graph.root} /\ graph.root \in present
      BY <1>4, <2>1, <2>4, VerdictFacts DEF Visits
    <3>2. TypeOK'
      BY <1>1, <2>1, <3>1, CandidateFacts DEF TypeOK
    <3>3. OpenedInv'
      <4>1. graph.root \in Reachable /\ expanded' = {}
        BY <1>1, ReachableClosed DEF Closed, StartInv
      <4> QED BY <1>1, <3>1, <4>1, GraphFixed DEF OpenedInv
    <3>4. FrontierInv'
      <4>1. fetched' = {}
        BY <1>1 DEF StartInv
      <4> QED BY <1>1, <3>1, <4>1, GraphFixed DEF FrontierInv
    <3>5. RoundInv'
      <4>1. round' = << >> /\ DOMAIN answers' = {} /\ fetched' = {} /\ Len(round') = 0
        BY <1>1 DEF StartInv
      <4>2. w' > 0
        BY <1>1, <1>4, BoundsAssumption DEF TypeOK
      <4> QED BY <3>1, <4>1, <4>2 DEF RoundInv
    <3>6. GetsInv'
      BY <2>1, <2>2, <3>1 DEF GetsInv
    <3>7. LoadsRight'
      BY <1>1, <2>1, <2>2, <3>1 DEF LoadsRight
    <3> QED BY <1>1, <1>2, <3>1, <3>2, <3>3, <3>4, <3>5, <3>6, <3>7 DEF FullInv, SearchInv
  <2> QED BY <2>3, <2>4
<1> QED BY <1>3, <1>4 DEF LoadRoot

\* Steps that end the search at a ranked frontier.
LEMMA RankEndStep == ASSUME FullInv, Finish \/ SelectionFails \/ ExhaustedRound PROVE FullInv'
<1>1. /\ TypeOK /\ ChildrenStored /\ FrontierInv /\ LoadsRight
      /\ pc = "rank" /\ pc' = "done" /\ frontier' = Live
      /\ outcome' \in {"success", "FrontierSelectionFailure", "Exhausted"}
      /\ UNCHANGED <<graph, w, n, present, faults, expanded, round, answers, fetched, visited, gets>>
  BY DEF FullInv, SearchInv, Finish, SelectionFails, ExhaustedRound, Return, inputs
<1>2. IsFiniteSet(Live) /\ Live \subseteq Candidate
  BY <1>1, FrontierFinite
<1>3. reported' \in Nat
  <2>1. IsFiniteSet({x \in Live : IsTerminal(x)})
    BY <1>2, FS_Subset
  <2>2. Cardinality({x \in Live : IsTerminal(x)}) \in Nat
    BY <2>1, FS_CardinalityType
  <2> QED BY <1>1, <2>2 DEF Finish, SelectionFails, ExhaustedRound, TypeOK
<1>4. \A r \in result' : r.leaf \in Blocks /\ r.position \in 0 .. n
  <2>1. CASE Finish
    <3>1. result' = {[leaf |-> x.block, score |-> x.score, position |-> Rank(x)] :
                        x \in {y \in Live : IsTerminal(y) /\ Rank(y) < n}}
      BY <2>1 DEF Finish, Rank
    <3>2. \A x \in Live : Rank(x) \in Nat /\ x.block \in Blocks
      BY <1>2, RankType DEF Candidate
    <3>3. n \in Nat
      BY <1>1, BoundsAssumption DEF TypeOK
    <3> QED BY <3>1, <3>2, <3>3
  <2>2. CASE UNCHANGED result
    BY <1>1, <2>2 DEF TypeOK
  <2> QED BY <2>1, <2>2 DEF SelectionFails, ExhaustedRound
<1>5. TypeOK'
  BY <1>1, <1>2, <1>3, <1>4 DEF TypeOK, Outcomes
<1>6. ChildrenStored' /\ LoadsRight'
  BY <1>1, GraphFixed DEF ChildrenStored, LoadsRight
<1> QED BY <1>1, <1>5, <1>6 DEF FullInv, SearchInv

LEMMA SelectStep == ASSUME FullInv, Select PROVE FullInv'
<1>1. /\ TypeOK /\ ChildrenStored /\ OpenedInv /\ FrontierInv /\ RoundInv /\ GetsInv /\ LoadsRight
      /\ pc = "rank" /\ pc' = "load" /\ frontier' = Live /\ round' \in Selections
      /\ Expandable # {} /\ outcome = "running" /\ result = {}
      /\ UNCHANGED <<graph, w, n, present, faults, expanded, answers, fetched, visited, gets,
                     outcome, result, reported>>
  BY DEF FullInv, SearchInv, Select, inputs
<1>2. Live \subseteq Candidate /\ Live \subseteq frontier
  BY <1>1, FrontierFinite
<1>3. /\ round' \in Seq(Blocks) /\ Len(round') <= w /\ Len(round') > 0
      /\ \A i, j \in 1 .. Len(round') : round'[i] = round'[j] => i = j
      /\ \A i \in 1 .. Len(round') : round'[i] \in Expandable
  BY <1>1, SelectionFacts DEF RoundInv
<1>4. TypeOK'
  BY <1>1, <1>2, <1>3 DEF TypeOK
<1>5. OpenedInv' /\ GetsInv' /\ ChildrenStored' /\ LoadsRight'
  BY <1>1, GraphFixed DEF OpenedInv, GetsInv, ChildrenStored, LoadsRight
<1>6. FrontierInv'
  <2>1. \A x \in frontier : x \in Live \/ (~IsTerminal(x) /\ x.block \in expanded)
    BY DEF Live
  <2> QED BY <1>1, <1>2, <2>1, GraphFixed DEF FrontierInv
<1>7. RoundInv'
  <2>1. ASSUME NEW i \in 1 .. Len(round')
        PROVE  /\ round'[i] \notin visited
               /\ \E x \in Live : ~IsTerminal(x) /\ x.block = round'[i]
    <3>1. PICK x \in Live : ~IsTerminal(x) /\ x.block = round'[i]
      BY <1>3 DEF Expandable
    <3>2. x.block \notin expanded /\ x.block # graph.root
      BY <1>1, <1>2, <3>1, Reference DEF Live
    <3> QED BY <1>1, <3>1, <3>2 DEF OpenedInv
  <2>2. DOMAIN answers' = {}
    BY <1>1 DEF RoundInv
  <2> QED BY <1>1, <1>3, <2>1, <2>2 DEF RoundInv
<1> QED BY <1>1, <1>4, <1>5, <1>6, <1>7 DEF FullInv, SearchInv

LEMMA AnswerStep == ASSUME FullInv, NEW b \in Blocks, Answer(b) PROVE FullInv'
<1>1. /\ TypeOK /\ ChildrenStored /\ OpenedInv /\ FrontierInv /\ RoundInv /\ GetsInv /\ LoadsRight
      /\ pc = "load" /\ b \in Chunk /\ b \notin DOMAIN answers
      /\ outcome = "running" /\ result = {}
      /\ UNCHANGED <<graph, w, n, present, pc, frontier, expanded, round, fetched, visited,
                     outcome, result, reported>>
  BY DEF FullInv, SearchInv, Answer, inputs
<1>2. PICK answer \in GetAnswers(b) :
          /\ CountGet(b, answer)
          /\ answers' = [x \in DOMAIN answers \cup {b} |-> IF x = b THEN answer ELSE answers[x]]
  BY DEF Answer
<1>3. /\ answer \in {"none", "some"} \cup Defects
      /\ answer = "none" <=> b \notin present
      /\ faults' \in 0 .. MaxFaults
      /\ gets' \in [Blocks -> Nat] /\ gets' = [gets EXCEPT ![b] = gets[b] + 1]
  BY <1>1, <1>2, GetFacts
<1>4. DOMAIN answers' = DOMAIN answers \cup {b} /\ Chunk' = Chunk
  BY <1>1, <1>2 DEF Chunk, ChunkLen
<1>5. PICK i \in 1 .. Len(round) : b = round[i]
  BY <1>1, ChunkFacts
<1>6. b \notin visited /\ b \in present
  <2>1. PICK x \in frontier : ~IsTerminal(x) /\ x.block = b
    BY <1>1, <1>5 DEF RoundInv
  <2> QED BY <1>1, <1>5, <2>1, Reference DEF RoundInv
<1>7. TypeOK'
  BY <1>1, <1>3, <1>4 DEF TypeOK
<1>8. GetsInv'
  <2>1. ASSUME NEW d \in Blocks
        PROVE  gets'[d] <= IF d \in visited \cup DOMAIN answers' THEN 1 ELSE 0
    <3>1. CASE d = b
      <4>1. gets[b] <= 0 /\ gets[b] \in Nat
        BY <1>1, <1>6 DEF GetsInv, TypeOK
      <4>2. gets'[b] = gets[b] + 1
        BY <1>1, <1>3 DEF TypeOK
      <4>3. b \in DOMAIN answers'
        BY <1>4
      <4> QED BY <3>1, <4>1, <4>2, <4>3
    <3>2. CASE d # b
      <4>1. gets'[d] = gets[d] /\ (d \in DOMAIN answers' <=> d \in DOMAIN answers)
        BY <1>1, <1>3, <1>4, <3>2 DEF TypeOK
      <4> QED BY <1>1, <4>1 DEF GetsInv
    <3> QED BY <3>1, <3>2
  <2> QED BY <1>1, <2>1 DEF GetsInv
<1>9. LoadsRight'
  <2>1. \A d \in Blocks : gets'[d] <= 1
    BY <1>3, <1>8 DEF GetsInv
  <2> QED BY <1>1, <2>1 DEF LoadsRight
<1>10. RoundInv'
  <2>1. answer \in {"some"} \cup Defects
    BY <1>3, <1>6
  <2>2. \A d \in DOMAIN answers' : answers'[d] \in {"some"} \cup Defects
    BY <1>1, <1>2, <1>4, <2>1 DEF RoundInv
  <2> QED BY <1>1, <1>4, <2>2 DEF RoundInv
<1>11. OpenedInv' /\ FrontierInv' /\ ChildrenStored'
  BY <1>1, GraphFixed DEF OpenedInv, FrontierInv, ChildrenStored
<1> QED BY <1>1, <1>7, <1>8, <1>9, <1>10, <1>11 DEF FullInv, SearchInv

\* A step of the writer, or none.
LEMMA WriterStep ==
    ASSUME FullInv, (\E b \in Blocks : Publish(b)) \/ UNCHANGED vars
    PROVE  FullInv'
<1>1. /\ UNCHANGED <<graph, w, n, faults, pc, frontier, expanded, round, answers, fetched, visited,
                     gets, outcome, result, reported>>
      /\ present \subseteq present'
  BY DEF Publish, vars, inputs, traversal
<1>2. TypeOK'
  <2>1. present' \subseteq Blocks
    BY DEF FullInv, TypeOK, Publish, vars
  <2> QED BY <1>1, <2>1 DEF FullInv, TypeOK
<1>3. ChildrenStored'
  <2>1. CASE UNCHANGED present
    BY <1>1, <2>1, GraphFixed DEF FullInv, SearchInv, ChildrenStored
  <2>2. ASSUME NEW b \in Blocks, Publish(b) PROVE ChildrenStored'
    BY <1>1, <2>2, GraphFixed DEF FullInv, SearchInv, ChildrenStored, Publish
  <2> QED BY <2>1, <2>2 DEF vars
<1>4. /\ pc = "start" => StartInv'
      /\ pc \in {"rank", "load"} => RoundInv' /\ GetsInv'
  BY <1>1 DEF FullInv, SearchInv, StartInv, RoundInv, GetsInv, Chunk, ChunkLen
<1>5. pc \in {"rank", "load"} => OpenedInv' /\ FrontierInv'
  BY <1>1, GraphFixed DEF FullInv, SearchInv, OpenedInv, FrontierInv
<1>6. LoadsRight'
  BY <1>1 DEF FullInv, LoadsRight
<1> QED BY <1>1, <1>2, <1>3, <1>4, <1>5, <1>6 DEF FullInv, SearchInv

\* A round of loads ends the search only by an error.
LEMMA ConsumeOutcome ==
    ASSUME FullInv, Consume
    PROVE  outcome' \in Outcomes \ {"success", "Exhausted", "MissingChildBlock"}
<1> DEFINE bad   == {i \in 1 .. ChunkLen : Verdict(round[i], answers[round[i]]) # "ok"}
           first == CHOOSE i \in bad : \A j \in bad : i <= j
<1>1. TypeOK /\ RoundInv /\ outcome = "running" /\ Chunk \subseteq DOMAIN answers
  BY DEF FullInv, SearchInv, Consume
<1>2. \/ UNCHANGED outcome
      \/ bad # {} /\ outcome' = Verdict(round[first], answers[round[first]])
  BY DEF Consume, Return
<1>3. CASE bad # {} /\ outcome' = Verdict(round[first], answers[round[first]])
  <2>1. first \in bad
    <3>1. bad \in SUBSET Nat
      BY <1>1, ChunkFacts
    <3> HIDE DEF bad
    <3>2. \E i \in bad : \A j \in bad : i <= j
      BY <1>3, <3>1, LeastNumber
    <3> QED BY <3>2
  <2>2. round[first] \in Chunk /\ Verdict(round[first], answers[round[first]]) # "ok"
    BY <1>1, <2>1, ChunkFacts
  <2>3. answers[round[first]] \in {"none", "some"} \cup Defects /\ answers[round[first]] # "none"
    BY <1>1, <2>2 DEF RoundInv, Defects
  <2> QED BY <1>3, <2>2, <2>3, VerdictFacts
<1> QED BY <1>1, <1>2, <1>3 DEF Outcomes

LEMMA ConsumeStep == ASSUME FullInv, Consume PROVE FullInv'
<1> DEFINE bad   == {i \in 1 .. ChunkLen : Verdict(round[i], answers[round[i]]) # "ok"}
           first == CHOOSE i \in bad : \A j \in bad : i <= j
           good  == {round[i] : i \in {j \in 1 .. ChunkLen : bad = {} \/ j < first}}
           rest  == SubSeq(round, ChunkLen + 1, Len(round))
           found == fetched \cup UNION {CandidatesOf(b) : b \in good}
<1>1. /\ TypeOK /\ ChildrenStored /\ OpenedInv /\ FrontierInv /\ RoundInv /\ GetsInv /\ LoadsRight
      /\ pc = "load" /\ Chunk \subseteq DOMAIN answers
      /\ outcome = "running" /\ result = {}
      /\ UNCHANGED <<graph, w, n, present, faults, gets, result, reported>>
  BY DEF FullInv, SearchInv, Consume, inputs
<1>2. expanded' = expanded \cup good
  BY DEF Consume
<1>3. bad # {} => /\ Return(Verdict(round[first], answers[round[first]]))
                  /\ visited' = visited \cup good \cup
                        (IF Visits(answers[round[first]]) THEN {round[first]} ELSE {})
                  /\ UNCHANGED <<frontier, round, answers, fetched>>
  BY DEF Consume
<1>4. bad = {} => /\ visited' = visited \cup good
                  /\ answers' = << >>
                  /\ round' = rest
                  /\ rest # << >> => fetched' = found /\ UNCHANGED <<pc, frontier>>
                  /\ rest = << >> => /\ fetched' = {}
                                     /\ frontier' = {x \in frontier : IsTerminal(x) \/ x.block \notin expanded'}
                                                       \cup found
                                     /\ pc' = "rank"
                  /\ UNCHANGED outcome
  BY DEF Consume
<1>5. /\ ChunkLen \in 1 .. Len(round) /\ Len(round) \in Nat /\ Chunk \subseteq Blocks
      /\ \A i \in 1 .. ChunkLen : round[i] \in Chunk /\ i \in 1 .. Len(round)
      /\ \A b \in Chunk : \E i \in 1 .. ChunkLen : b = round[i]
      /\ round \in Seq(Blocks)
  BY <1>1, ChunkFacts DEF RoundInv, TypeOK
<1>6. bad \subseteq 1 .. ChunkLen /\ good \subseteq Chunk
  BY <1>5
<1>7. \A b \in Chunk : answers[b] \in {"some"} \cup Defects
  BY <1>1 DEF RoundInv
<1>8. ChildrenStored'
  BY <1>1, GraphFixed DEF ChildrenStored
<1>9. CASE bad # {}
  <2>1. first \in bad
    <3>1. bad \in SUBSET Nat
      BY <1>5, <1>6
    <3> HIDE DEF bad
    <3>2. \E i \in bad : \A j \in bad : i <= j
      BY <1>9, <3>1, LeastNumber
    <3> QED BY <3>2
  <2>2. round[first] \in Chunk
    BY <1>5, <1>6, <2>1
  <2>3. /\ pc' = "done" /\ outcome' = Verdict(round[first], answers[round[first]])
        /\ outcome' # "ok" /\ visited' \subseteq visited \cup Chunk
        /\ UNCHANGED <<frontier, round, answers, fetched>>
    BY <1>3, <1>6, <1>9, <2>1, <2>2 DEF Return
  <2>4. outcome' \in Outcomes \ {"success", "Exhausted", "MissingChildBlock"}
    BY ConsumeOutcome
  <2> HIDE DEF bad, first, good, rest, found
  <2>5. TypeOK'
    BY <1>1, <1>2, <1>5, <1>6, <2>3, <2>4 DEF TypeOK
  <2>6. LoadsRight'
    BY <1>1, <2>4 DEF LoadsRight
  <2> QED BY <1>8, <2>3, <2>5, <2>6 DEF FullInv, SearchInv
<1>10. CASE bad = {}
  <2>1. good = Chunk
    BY <1>10 DEF Chunk
  <2>2. /\ visited' = visited \cup Chunk /\ expanded' = expanded \cup Chunk
        /\ answers' = << >> /\ round' = rest /\ UNCHANGED outcome
    BY <1>2, <1>4, <1>10, <2>1
  <2>3. ASSUME NEW b \in Chunk
        PROVE  /\ b \in Blocks /\ b \in present /\ b \in Reachable /\ b \notin visited
               /\ graph.level[b] < graph.level[graph.root]
    <3>1. PICK i \in 1 .. Len(round) : b = round[i]
      BY <1>5
    <3>2. b \notin visited /\ \E x \in frontier : ~IsTerminal(x) /\ x.block = b
      BY <1>1, <3>1 DEF RoundInv
    <3> QED BY <1>1, <3>2, Reference
  <2>4. found \subseteq Candidate /\ found = fetched \cup UNION {CandidatesOf(b) : b \in Chunk}
    <3>1. fetched \subseteq Candidate /\ graph \in Graphs
      BY <1>1 DEF TypeOK
    <3>2. \A b \in Chunk : CandidatesOf(b) \subseteq Candidate
      BY <2>3, <3>1, CandidateFacts
    <3> QED BY <2>1, <3>1, <3>2
  <2>5. /\ rest \in Seq(Blocks) /\ Len(rest) = Len(round) - ChunkLen
        /\ \A i \in 1 .. Len(rest) : /\ rest[i] = round[ChunkLen + i]
                                     /\ ChunkLen + i \in 1 .. Len(round)
        /\ rest = << >> <=> Len(rest) = 0
    BY <1>5
  <2>6. DOMAIN answers' = {}
    BY <2>2
  <2> HIDE DEF bad, first, good, rest, found
  <2>7. pc' \in {"rank", "load"}
    BY <1>1, <1>4, <1>10
  <2>8. TypeOK'
    <3>1. frontier' \subseteq Candidate /\ fetched' \subseteq Candidate
      BY <1>1, <1>4, <1>10, <2>4 DEF TypeOK
    <3>2. visited' \subseteq Blocks /\ expanded' \subseteq Blocks
      BY <1>1, <2>2, <2>3 DEF TypeOK
    <3>3. round' \in Seq(Blocks) /\ Len(round') <= w
      BY <1>1, <1>5, <2>2, <2>5, BoundsAssumption DEF TypeOK
    <3> QED BY <1>1, <2>2, <2>6, <2>7, <3>1, <3>2, <3>3 DEF TypeOK
  <2>9. OpenedInv'
    BY <1>1, <2>2, <2>3, GraphFixed DEF OpenedInv
  <2>10. FrontierInv'
    <3>1. ASSUME NEW x \in frontier' \cup fetched' PROVE \E b \in visited' : x \in CandidatesOf(b)
      <4>1. x \in frontier \/ x \in found
        BY <1>4, <1>10
      <4> QED BY <1>1, <2>2, <2>4, <4>1 DEF FrontierInv
    <3>2. ASSUME NEW b \in visited', NEW x \in CandidatesOf(b)
          PROVE  x \in frontier' \cup fetched' \/ (~IsTerminal(x) /\ x.block \in expanded')
      <4>1. x \in frontier \/ x \in found \/ (~IsTerminal(x) /\ x.block \in expanded')
        BY <1>1, <2>2, <2>4 DEF FrontierInv
      <4>2. x \in found => x \in frontier' \cup fetched'
        BY <1>4, <1>10
      <4>3. x \in frontier => x \in frontier' \/ (~IsTerminal(x) /\ x.block \in expanded')
        BY <1>4, <1>10
      <4> QED BY <4>1, <4>2, <4>3
    <3> QED BY <1>1, <3>1, <3>2, GraphFixed DEF FrontierInv
  <2>11. GetsInv'
    <3>1. DOMAIN answers \subseteq visited'
      BY <1>1, <2>2 DEF RoundInv
    <3>2. \A b \in Blocks : gets[b] \in Nat
      BY <1>1 DEF TypeOK
    <3> QED BY <1>1, <2>2, <3>1, <3>2 DEF GetsInv
  <2>12. LoadsRight'
    BY <1>1, <2>2 DEF LoadsRight
  <2>13. RoundInv'
    <3>1. w' > 0
      BY <1>1 DEF RoundInv
    <3>2. pc' = "rank" => round' = << >> /\ fetched' = {}
      BY <1>1, <1>4, <1>10, <2>2
    <3>3. pc' = "load" => Len(round') > 0
      BY <1>1, <1>4, <1>5, <1>10, <2>2, <2>5
    <3>4. \A i, j \in 1 .. Len(round') : round'[i] = round'[j] => i = j
      BY <1>1, <1>5, <2>2, <2>5 DEF RoundInv
    <3>5. ASSUME NEW i \in 1 .. Len(round')
          PROVE  /\ round'[i] \notin visited'
                 /\ \E x \in frontier' : ~IsTerminal(x) /\ x.block = round'[i]
      <4>1. /\ round'[i] = round[ChunkLen + i] /\ ChunkLen + i \in 1 .. Len(round)
            /\ ChunkLen + i \notin 1 .. ChunkLen /\ rest # << >>
        BY <1>5, <2>2, <2>5
      <4>2. round'[i] \notin Chunk
        BY <1>1, <1>5, <4>1 DEF RoundInv
      <4>3. UNCHANGED frontier
        BY <1>4, <1>10, <4>1
      <4> QED BY <1>1, <2>2, <4>1, <4>2, <4>3 DEF RoundInv
    <3> QED BY <2>6, <3>1, <3>2, <3>3, <3>4, <3>5 DEF RoundInv
  <2> QED BY <1>1, <1>8, <2>2, <2>7, <2>8, <2>9, <2>10, <2>11, <2>12, <2>13
          DEF FullInv, SearchInv
<1> QED BY <1>9, <1>10

LEMMA SearchStepSafe == FullInv /\ [Next]_vars => FullInv'
<1> SUFFICES ASSUME FullInv, [Next]_vars PROVE FullInv'
  OBVIOUS
<1>1. CASE SearchStep
  BY <1>1, LoadRootStep, RankEndStep, SelectStep, AnswerStep, ConsumeStep DEF SearchStep
<1>2. CASE (\E b \in Blocks : Publish(b)) \/ UNCHANGED vars
  BY <1>2, WriterStep
<1> QED BY <1>1, <1>2 DEF Next, Ended

LEMMA SearchInvariance == Spec => []FullInv
<1>1. Init => FullInv
  <2> SUFFICES ASSUME Init PROVE FullInv
    OBVIOUS
  <2>1. graph \in Graphs /\ present = {b \in Blocks : IsLeaf(b)}
    BY DEF Init
  <2>2. ChildrenStored
    BY <2>1, Below DEF ChildrenStored
  <2>3. TypeOK
    <3>1. /\ frontier = {} /\ fetched = {} /\ expanded = {} /\ visited = {} /\ result = {}
          /\ round \in Seq(Blocks) /\ Len(round) = 0 /\ DOMAIN answers = {}
          /\ gets \in [Blocks -> Nat] /\ reported = 0 /\ faults = 0 /\ w \in Nat /\ MaxFaults \in Nat
      BY BoundsAssumption DEF Init
    <3> QED BY <2>1, <3>1 DEF Init, TypeOK, Outcomes
  <2>4. StartInv
    BY DEF Init, StartInv
  <2>5. LoadsRight
    BY DEF Init, LoadsRight
  <2> QED BY <2>2, <2>3, <2>4, <2>5 DEF Init, FullInv, SearchInv
<1> QED BY <1>1, SearchStepSafe, PTL DEF Spec

\* search loads no block twice (REQ-SEARCH-022) and never fails for a missing
\* child, for every index and width, every selector and chunk size, and however
\* the indexer's writes interleave with the search.
THEOREM LoadsOnce == Spec => []LoadsRight
<1>1. FullInv => LoadsRight
  BY DEF FullInv
<1> QED BY <1>1, SearchInvariance, PTL

-----------------------------------------------------------------------------
(* What the search returns.                                                 *)

\* The leaves of a live frontier are the opened leaves, with their scores.
LEMMA LiveLeaves ==
    ASSUME TypeOK, FrontierInv, fetched = {}
    PROVE  /\ \A x \in Live : IsTerminal(x) =>
                 /\ x.block \in visited /\ IsLeaf(x.block)
                 /\ x = [block |-> x.block, level |-> 0, score |-> graph.score[x.block]]
           /\ \A b \in visited : IsLeaf(b) =>
                 /\ [block |-> b, level |-> 0, score |-> graph.score[b]] \in Live
                 /\ IsTerminal([block |-> b, level |-> 0, score |-> graph.score[b]])
<1>1. graph \in Graphs /\ visited \subseteq Blocks
  BY DEF TypeOK
<1>2. ASSUME NEW x \in Live, IsTerminal(x)
      PROVE  /\ x.block \in visited /\ IsLeaf(x.block)
             /\ x = [block |-> x.block, level |-> 0, score |-> graph.score[x.block]]
  <2>1. PICK b \in visited : x \in CandidatesOf(b)
    BY <1>2 DEF FrontierInv, Live
  <2>2. IsLeaf(b) /\ x = [block |-> b, level |-> 0, score |-> graph.score[b]]
    BY <1>1, <1>2, <2>1, CandidateFacts
  <2> QED BY <2>1, <2>2
<1>3. ASSUME NEW b \in visited, IsLeaf(b)
      PROVE  /\ [block |-> b, level |-> 0, score |-> graph.score[b]] \in Live
             /\ IsTerminal([block |-> b, level |-> 0, score |-> graph.score[b]])
  <2> DEFINE x == [block |-> b, level |-> 0, score |-> graph.score[b]]
  <2>1. IsTerminal(x)
    BY DEF IsTerminal
  <2>2. x \in CandidatesOf(b)
    BY <1>1, <1>3, CandidateFacts
  <2>3. x \in frontier
    BY <2>1, <2>2 DEF FrontierInv
  <2> QED BY <2>1, <2>3 DEF Live
<1> QED BY <1>2, <1>3

\* A reference of an opened block leads to an opened block or is live.
LEMMA LiveReference ==
    ASSUME TypeOK, OpenedInv, FrontierInv, fetched = {},
           NEW b \in visited, NEW e \in graph.entries[b], e.child \notin visited
    PROVE  \E x \in Live : ~IsTerminal(x) /\ x.block = e.child /\ x.score = e.score
<1> DEFINE x == [block |-> e.child, level |-> graph.level[b], score |-> e.score]
<1>1. graph \in Graphs /\ b \in Blocks
  BY DEF TypeOK
<1>2. x \in CandidatesOf(b)
  BY <1>1, CandidateFacts
<1>3. graph.level[b] # 0
  BY <1>1, Below
<1>4. ~IsTerminal(x) /\ x.block = e.child /\ x.score = e.score
  BY <1>3 DEF IsTerminal
<1>5. x.block \notin expanded
  BY <1>4 DEF OpenedInv
<1>6. x \in Live
  BY <1>2, <1>5 DEF FrontierInv, Live
<1> QED BY <1>4, <1>6

\* The outcomes a result is attached to are set by one step each, and nothing
\* they speak of changes afterwards.
LEMMA OutcomeFrame ==
    ASSUME FullInv, [Next]_vars
    PROVE  /\ graph' = graph /\ n' = n
           /\ outcome' = "Exhausted" =>
                 ExhaustedRound \/ UNCHANGED <<outcome, visited, reported>>
           /\ outcome' = "success" =>
                 Finish \/ UNCHANGED <<outcome, visited, result>>
<1>1. graph' = graph /\ n' = n
  BY DEF Next, SearchStep, LoadRoot, Finish, SelectionFails, ExhaustedRound, Select, Answer,
         Consume, Publish, Ended, inputs, vars
<1>2. CASE LoadRoot
  <2>1. CASE w = 0
    BY <1>2, <2>1, <1>1 DEF LoadRoot, Return
  <2>2. ASSUME NEW answer \in GetAnswers(graph.root),
               \/ UNCHANGED outcome
               \/ Verdict(graph.root, answer) # "ok" /\ outcome' = Verdict(graph.root, answer)
        PROVE  outcome' \notin {"success", "Exhausted"}
    <3>1. answer \in {"none", "some"} \cup Defects
      BY DEF GetAnswers, Defects
    <3>2. outcome = "running"
      BY <1>2 DEF FullInv, SearchInv, LoadRoot
    <3> QED BY <2>2, <3>1, <3>2, VerdictFacts
  <2> QED BY <1>1, <1>2, <2>1, <2>2 DEF LoadRoot, Return
<1>3. CASE SelectionFails \/ Select \/ \E b \in Blocks : Answer(b)
  <2>1. outcome = "running"
    BY <1>3 DEF FullInv, SearchInv, SelectionFails, Select, Answer
  <2>2. outcome' \in {"running", "FrontierSelectionFailure"}
    BY <1>3, <2>1 DEF SelectionFails, Select, Answer, Return
  <2> QED BY <1>1, <2>2
<1>4. CASE Finish
  BY <1>1, <1>4 DEF Finish, Return
<1>5. CASE ExhaustedRound
  BY <1>1, <1>5 DEF ExhaustedRound, Return
<1>6. CASE Consume
  <2>1. outcome' \notin {"success", "Exhausted"}
    BY <1>6, ConsumeOutcome
  <2> QED BY <1>1, <2>1
<1>7. CASE (\E b \in Blocks : Publish(b)) \/ UNCHANGED vars
  BY <1>1, <1>7 DEF Publish, traversal, vars
<1> QED BY <1>2, <1>3, <1>4, <1>5, <1>6, <1>7 DEF Next, SearchStep, Ended

LEMMA ExhaustedStep == ASSUME FullInv, ExhaustedRound PROVE ExhaustedHonest'
<1>1. /\ TypeOK /\ OpenedInv /\ FrontierInv /\ fetched = {} /\ ~Enough /\ Expandable = {}
      /\ reported' = Cardinality({x \in Live : IsTerminal(x)})
      /\ UNCHANGED <<graph, n, visited>>
      /\ graph \in Graphs /\ visited \subseteq Blocks /\ n \in Nat
  BY BoundsAssumption DEF FullInv, SearchInv, RoundInv, ExhaustedRound, inputs, TypeOK
<1>2. Closed(visited)
  <2>1. ASSUME NEW b \in visited, NEW d \in Children(b) PROVE d \in visited
    <3>1. PICK e \in graph.entries[b] : d = e.child
      BY DEF Children
    <3>2. SUFFICES ASSUME e.child \notin visited PROVE FALSE
      BY <3>1, <3>2
    <3>3. \E x \in Live : ~IsTerminal(x)
      BY <1>1, <3>2, LiveReference
    <3> QED BY <1>1, <3>3 DEF Expandable
  <2> QED BY <1>1, <2>1 DEF Closed, OpenedInv
<1>3. visited = Reachable
  BY <1>1, <1>2, ReachableLeast DEF OpenedInv
<1> DEFINE T == {x \in Live : IsTerminal(x)}
<1>4. T = Live
  BY <1>1 DEF Expandable
<1>5. IsFiniteSet(T) /\ Cardinality(T) \in Nat
  BY <1>1, <1>4, FrontierFinite, FS_CardinalityType
<1>6. Cardinality(T) = Cardinality(Leaves)
  <2> DEFINE f == [x \in T |-> x.block]
  <2>1. \A x \in T : /\ x.block \in Leaves
                     /\ x = [block |-> x.block, level |-> 0, score |-> graph.score[x.block]]
    BY <1>1, <1>3, LiveLeaves DEF Leaves
  <2>2. \A b \in Leaves : \E x \in T : x.block = b
    BY <1>1, <1>3, LiveLeaves DEF Leaves
  <2>3. f \in Injection(T, Leaves)
    BY <2>1 DEF Injection, IsInjective
  <2>4. f \in Surjection(T, Leaves)
    BY <2>1, <2>2 DEF Surjection
  <2>5. ExistsBijection(T, Leaves)
    BY <2>3, <2>4 DEF ExistsBijection, Bijection
  <2> HIDE DEF T, f
  <2> QED BY <1>5, <2>5, FS_Bijection
<1>7. Cardinality(T) < n
  <2>1. ~(Cardinality(Live) >= n)
    BY <1>1, <1>4 DEF Enough
  <2>2. n \in Nat /\ Cardinality(Live) = Cardinality(T)
    BY <1>1, <1>4
  <2> HIDE DEF T
  <2> QED BY <1>5, <2>1, <2>2
<1> QED BY <1>1, <1>3, <1>6, <1>7, GraphFixed DEF ExhaustedHonest

\* Exhausted is reported only after the whole index was opened, with the true
\* number of its leaves, which is less than the caller asked for.
THEOREM ExhaustionHonest == Spec => []ExhaustedHonest
<1>1. Init => ExhaustedHonest
  BY DEF Init, ExhaustedHonest
<1>2. FullInv /\ ExhaustedHonest /\ [Next]_vars => ExhaustedHonest'
  <2> SUFFICES ASSUME FullInv, ExhaustedHonest, [Next]_vars, outcome' = "Exhausted"
               PROVE  ExhaustedHonest'
    BY DEF ExhaustedHonest
  <2>1. graph' = graph /\ n' = n
    BY OutcomeFrame
  <2>2. CASE ExhaustedRound
    BY <2>2, ExhaustedStep
  <2>3. CASE UNCHANGED <<outcome, visited, reported>>
    BY <2>1, <2>3, GraphFixed DEF ExhaustedHonest
  <2> QED BY <2>2, <2>3, OutcomeFrame
<1> QED BY <1>1, <1>2, SearchInvariance, PTL DEF Spec

-----------------------------------------------------------------------------
(* The n best leaves.                                                       *)

\* A search that ends has ranked its candidates and returns the first n, all of
\* them leaves.
LEMMA TopFacts ==
    ASSUME FullInv, Finish
    PROVE  /\ TypeOK /\ OpenedInv /\ FrontierInv /\ fetched = {} /\ n \in Nat
           /\ graph \in Graphs /\ visited \subseteq Blocks
           /\ IsFiniteSet(Live) /\ Live \subseteq Candidate
           /\ UNCHANGED <<graph, n, visited>>
           /\ Cardinality(Live) \in Nat /\ Cardinality(Live) >= n
           /\ \A x \in Live : Rank(x) \in Nat /\ (Rank(x) < n => IsTerminal(x))
           /\ result' = {[leaf |-> x.block, score |-> x.score, position |-> Rank(x)] :
                            x \in {y \in Live : Rank(y) < n}}
<1>1. /\ TypeOK /\ OpenedInv /\ FrontierInv /\ fetched = {} /\ n \in Nat
      /\ graph \in Graphs /\ visited \subseteq Blocks /\ Enough
      /\ UNCHANGED <<graph, n, visited>>
  BY BoundsAssumption DEF FullInv, SearchInv, RoundInv, Finish, inputs, TypeOK
<1>2. IsFiniteSet(Live) /\ Live \subseteq Candidate
  BY <1>1, FrontierFinite
<1>3. Cardinality(Live) \in Nat /\ \A x \in Live : Rank(x) \in Nat
  BY <1>2, RankType, FS_CardinalityType
<1>4. Cardinality(Live) >= n /\ \A x \in Live : Rank(x) < n => IsTerminal(x)
  BY <1>1 DEF Enough
<1>5. result' = {[leaf |-> x.block, score |-> x.score, position |-> Rank(x)] :
                    x \in {y \in Live : IsTerminal(y) /\ Rank(y) < n}}
  BY DEF Finish, Rank
<1>6. {y \in Live : IsTerminal(y) /\ Rank(y) < n} = {y \in Live : Rank(y) < n}
  BY <1>4
<1> QED BY <1>1, <1>2, <1>3, <1>4, <1>5, <1>6

\* Whatever scores more than a returned leaf is ranked before it.
LEMMA BetterIsAhead ==
    ASSUME IsFiniteSet(Live), Live \subseteq Candidate,
           NEW x \in Live, NEW y \in Live, x.score > y.score
    PROVE  Rank(x) < Rank(y)
<1>1. Ahead(x, y)
  BY DEF Ahead
<1> QED BY <1>1, RankMonotone

\* An opened leaf that is not returned scores no more than a returned one.
LEMMA OpenedLeafOut ==
    ASSUME FullInv, Finish, NEW b \in visited, IsLeaf(b),
           b \notin {q.leaf : q \in result'}, NEW r \in result'
    PROVE  graph.score[b] <= r.score
<1>1. PICK y \in Live : Rank(y) < n /\ r = [leaf |-> y.block, score |-> y.score, position |-> Rank(y)]
  BY TopFacts
<1> DEFINE x == [block |-> b, level |-> 0, score |-> graph.score[b]]
<1>2. x \in Live
  BY TopFacts, LiveLeaves
<1>3. x.block = b /\ x.score = graph.score[b]
  OBVIOUS
<1> HIDE DEF x
<1>4. ~(Rank(x) < n)
  <2>1. SUFFICES ASSUME Rank(x) < n PROVE FALSE
    OBVIOUS
  <2>2. [leaf |-> x.block, score |-> x.score, position |-> Rank(x)] \in result'
    BY <1>2, <2>1, TopFacts
  <2> QED BY <1>3, <2>2
<1>5. x.score \in Nat /\ y.score \in Nat /\ Rank(x) \in Nat /\ Rank(y) \in Nat /\ n \in Nat
  BY <1>1, <1>2, TopFacts DEF Candidate
<1>6. ~(x.score > y.score)
  BY <1>1, <1>2, <1>4, <1>5, TopFacts, BetterIsAhead
<1> QED BY <1>1, <1>3, <1>5, <1>6

LEMMA RankedStep == ASSUME FullInv, Finish PROVE ResultRanked'
<1>1. \A q, r \in result' : q.position < r.position => q.score >= r.score
  <2> SUFFICES ASSUME NEW q \in result', NEW r \in result', q.position < r.position
               PROVE  q.score >= r.score
    OBVIOUS
  <2>1. PICK x \in Live : q = [leaf |-> x.block, score |-> x.score, position |-> Rank(x)]
    BY TopFacts
  <2>2. PICK y \in Live : r = [leaf |-> y.block, score |-> y.score, position |-> Rank(y)]
    BY TopFacts
  <2>3. x.score \in Nat /\ y.score \in Nat /\ Rank(x) \in Nat /\ Rank(y) \in Nat
    BY TopFacts DEF Candidate
  <2>4. ~(y.score > x.score)
    <3>1. y.score > x.score => Rank(y) < Rank(x)
      BY TopFacts, BetterIsAhead
    <3> QED BY <2>1, <2>2, <2>3, <3>1
  <2> QED BY <2>1, <2>2, <2>3, <2>4
<1>2. {r.position : r \in result'} = {k \in 0 .. n : k < n}
  <2>1. ASSUME NEW r \in result' PROVE r.position \in 0 .. n /\ r.position < n
    BY TopFacts
  <2>2. ASSUME NEW k \in 0 .. n, k < n PROVE \E r \in result' : r.position = k
    <3>1. k \in 0 .. Cardinality(Live) - 1
      BY <2>2, TopFacts
    <3>2. PICK x \in Live : Rank(x) = k
      BY <3>1, TopFacts, RankDense
    <3>3. [leaf |-> x.block, score |-> x.score, position |-> Rank(x)] \in result'
      BY <2>2, <3>2, TopFacts
    <3> QED BY <3>2, <3>3
  <2> QED BY <2>1, <2>2
<1>3. \A b \in visited : IsLeaf(b) /\ b \notin {r.leaf : r \in result'} =>
         \A r \in result' : graph.score[b] <= r.score
  BY OpenedLeafOut
<1>4. graph' = graph /\ n' = n /\ visited' = visited
  BY TopFacts
<1> QED BY <1>1, <1>2, <1>3, <1>4, GraphFixed DEF ResultRanked

\* In an admissible index a reachable leaf that is not opened lies below a live
\* reference that scores at least as much.
LEMMA UnopenedLeaf ==
    ASSUME FullInv, Finish, Admissible, NEW b \in Leaves, b \notin visited
    PROVE  \E y \in Live : ~IsTerminal(y) /\ y.score >= graph.score[b]
<1> DEFINE M == {d \in Blocks : \/ d \in visited
                                \/ \E y \in Live : /\ ~IsTerminal(y)
                                                   /\ \A x \in CandidatesOf(d) : y.score >= x.score}
<1>t. /\ TypeOK /\ OpenedInv /\ FrontierInv /\ fetched = {} /\ graph \in Graphs
      /\ visited \subseteq Blocks /\ Live \subseteq Candidate
  BY TopFacts
<1>1. graph.root \in M
  BY <1>t DEF OpenedInv
<1>2. ASSUME NEW d \in M, NEW c \in Children(d) PROVE c \in M
  <2>1. PICK e \in graph.entries[d] : c = e.child
    BY DEF Children
  <2>2. d \in Blocks /\ c \in Blocks /\ e.score \in Nat
    BY <1>t, <2>1, Below
  <2>3. \A x \in CandidatesOf(c) : e.score >= x.score /\ x.score \in Nat
    <3>1. \A x \in CandidatesOf(c) : e.score >= x.score
      BY <2>1, <2>2 DEF Admissible
    <3>2. CandidatesOf(c) \subseteq Candidate
      BY <1>t, <2>2, CandidateFacts
    <3> QED BY <3>1, <3>2 DEF Candidate
  <2>4. CASE c \in visited
    BY <2>2, <2>4
  <2>5. CASE d \in visited /\ c \notin visited
    <3>1. \E y \in Live : ~IsTerminal(y) /\ y.score = e.score
      BY <1>t, <2>1, <2>5, LiveReference
    <3> QED BY <2>2, <2>3, <3>1
  <2>6. CASE d \notin visited
    <3>1. PICK y \in Live : ~IsTerminal(y) /\ \A x \in CandidatesOf(d) : y.score >= x.score
      BY <2>6
    <3>2. [block |-> e.child, level |-> graph.level[d], score |-> e.score] \in CandidatesOf(d)
      BY <1>t, <2>2, CandidateFacts
    <3>3. y.score >= e.score /\ y.score \in Nat
      BY <1>t, <3>1, <3>2 DEF Candidate
    <3>4. \A x \in CandidatesOf(c) : y.score >= x.score
      BY <2>2, <2>3, <3>3
    <3> QED BY <2>2, <3>1, <3>4
  <2> QED BY <2>4, <2>5, <2>6
<1>3. M \in SUBSET Blocks
  OBVIOUS
<1>4. Closed(M)
  BY <1>1, <1>2 DEF Closed
<1>5. b \in M /\ b \in Blocks /\ IsLeaf(b)
  <2>1. Reachable \subseteq M
    BY <1>3, <1>4, ReachableLeast
  <2> QED BY <2>1 DEF Leaves
<1>6. [block |-> b, level |-> 0, score |-> graph.score[b]] \in CandidatesOf(b)
  BY <1>t, <1>5, CandidateFacts
<1> QED BY <1>5, <1>6

LEMMA ExactStep == ASSUME FullInv, Finish PROVE ResultExact'
<1> SUFFICES ASSUME Admissible'
             PROVE  /\ Cardinality({r.leaf : r \in result'}) = n'
                    /\ {r.leaf : r \in result'} \subseteq Leaves'
                    /\ \A b \in Leaves' : \A r \in result' :
                          b \notin {q.leaf : q \in result'} => graph'.score[b] <= r.score
  BY DEF ResultExact
<1>t. /\ TypeOK /\ OpenedInv /\ FrontierInv /\ fetched = {} /\ n \in Nat
      /\ graph \in Graphs /\ visited \subseteq Blocks
      /\ IsFiniteSet(Live) /\ Live \subseteq Candidate
      /\ Cardinality(Live) \in Nat /\ Cardinality(Live) >= n
      /\ graph' = graph /\ n' = n /\ visited' = visited
  BY TopFacts
<1>a. Admissible
  BY <1>t, GraphFixed DEF Admissible
<1> DEFINE top == {y \in Live : Rank(y) < n}
<1>1. /\ \A x \in Live : Rank(x) \in Nat
      /\ \A x \in top : IsTerminal(x)
      /\ result' = {[leaf |-> x.block, score |-> x.score, position |-> Rank(x)] : x \in top}
  BY TopFacts
<1>2. {r.leaf : r \in result'} = {x.block : x \in top}
  <2>1. ASSUME NEW r \in result' PROVE r.leaf \in {x.block : x \in top}
    BY <1>1, <2>1
  <2>2. ASSUME NEW x \in top PROVE x.block \in {r.leaf : r \in result'}
    <3>1. [leaf |-> x.block, score |-> x.score, position |-> Rank(x)] \in result'
      BY <1>1, <2>2
    <3> QED BY <3>1
  <2> HIDE DEF top
  <2> QED BY <2>1, <2>2
<1>3. \A x \in top : /\ x.block \in visited /\ IsLeaf(x.block)
                     /\ x = [block |-> x.block, level |-> 0, score |-> graph.score[x.block]]
  BY <1>1, <1>t, LiveLeaves
<1>4. Cardinality({x.block : x \in top}) = n
  <2> DEFINE B == {x.block : x \in top}
             f == [x \in top |-> x.block]
             g == [x \in top |-> Rank(x)]
  <2>1. IsFiniteSet(top)
    BY <1>t, FS_Subset
  <2>2. IsFiniteSet(0 .. n - 1) /\ Cardinality(0 .. n - 1) = n
    <3>1. n \in Nat /\ 0 \in Int /\ n - 1 \in Int
      BY <1>t
    <3>2. /\ IsFiniteSet(0 .. n - 1)
          /\ Cardinality(0 .. n - 1) = IF 0 > n - 1 THEN 0 ELSE n - 1 - 0 + 1
      BY ONLY <3>1, FS_Interval
    <3> QED BY ONLY <3>1, <3>2
  <2>3. g \in Injection(top, 0 .. n - 1)
    <3>1. \A x \in top : Rank(x) \in 0 .. n - 1
      BY <1>1, <1>t
    <3>2. \A x, y \in top : Rank(x) = Rank(y) => x = y
      BY <1>t, RankDense
    <3> QED BY <3>1, <3>2 DEF Injection, IsInjective
  <2>4. g \in Surjection(top, 0 .. n - 1)
    <3>1. ASSUME NEW k \in 0 .. n - 1 PROVE \E x \in top : Rank(x) = k
      <4>1. k \in 0 .. Cardinality(Live) - 1 /\ k < n
        BY <1>t
      <4> QED BY <4>1, <1>t, RankDense
    <3>2. g \in [top -> 0 .. n - 1]
      BY <2>3 DEF Injection
    <3> QED BY <3>1, <3>2 DEF Surjection
  <2>5. Cardinality(top) = n
    <3>1. ExistsBijection(top, 0 .. n - 1)
      BY <2>3, <2>4 DEF ExistsBijection, Bijection
    <3> HIDE DEF top
    <3> QED BY <2>1, <2>2, <3>1, FS_Bijection
  <2>6. f \in Injection(top, B) /\ f \in Surjection(top, B)
    <3>1. f \in [top -> B] /\ \A c \in B : \E x \in top : f[x] = c
      OBVIOUS
    <3>2. \A x, y \in top : f[x] = f[y] => x = y
      BY <1>3
    <3> QED BY <3>1, <3>2 DEF Injection, IsInjective, Surjection
  <2>7. ExistsBijection(top, B)
    BY <2>6 DEF ExistsBijection, Bijection
  <2> HIDE DEF top, B
  <2>8. Cardinality(B) = n
    BY <2>1, <2>5, <2>7, FS_Bijection
  <2> QED BY <2>8 DEF B
<1>5. {x.block : x \in top} \subseteq Leaves
  BY <1>3, <1>t DEF Leaves, OpenedInv
<1>6. ASSUME NEW b \in Leaves, NEW r \in result', b \notin {q.leaf : q \in result'}
      PROVE  graph.score[b] <= r.score
  <2>1. CASE b \in visited
    <3>1. IsLeaf(b)
      BY DEF Leaves
    <3> QED BY <1>6, <2>1, <3>1, OpenedLeafOut
  <2>2. CASE b \notin visited
    <3>1. PICK y \in Live : ~IsTerminal(y) /\ y.score >= graph.score[b]
      BY <1>a, <2>2, UnopenedLeaf
    <3>2. PICK x \in top : r = [leaf |-> x.block, score |-> x.score, position |-> Rank(x)]
      BY <1>1
    <3>3. ~(Rank(y) < n) /\ Rank(y) \in Nat /\ Rank(x) \in Nat /\ Rank(x) < n
      BY <1>1, <3>1
    <3>4. y.score \in Nat /\ x.score \in Nat /\ graph.score[b] \in Nat
      BY <1>t, Below DEF Candidate, Leaves, Reachable
    <3>5. ~(y.score > x.score)
      <4>1. y.score > x.score => Rank(y) < Rank(x)
        BY <1>t, BetterIsAhead
      <4> QED BY <1>t, <3>3, <4>1
    <3> QED BY <3>1, <3>2, <3>4, <3>5
  <2> QED BY <2>1, <2>2
<1> QED BY <1>t, <1>2, <1>4, <1>5, <1>6, GraphFixed

\* The n best leaves of an admissible index, ranked: for every index, width,
\* count, selector and chunk size, and while the index is being written.
THEOREM BestLeaves == Spec => []ExactWhenAdmissible
<1>1. Init => ResultRanked /\ ResultExact
  BY DEF Init, ResultRanked, ResultExact
<1>2. FullInv /\ ResultRanked /\ ResultExact /\ [Next]_vars => ResultRanked' /\ ResultExact'
  <2> SUFFICES ASSUME FullInv, ResultRanked, ResultExact, [Next]_vars
               PROVE  ResultRanked' /\ ResultExact'
    OBVIOUS
  <2>1. graph' = graph /\ n' = n
    BY OutcomeFrame
  <2>2. CASE Finish
    BY <2>2, RankedStep, ExactStep
  <2>3. CASE outcome' = "success" /\ UNCHANGED <<outcome, visited, result>>
    <3>1. Admissible' <=> Admissible
      BY <2>1, GraphFixed DEF Admissible
    <3> QED BY <2>1, <2>3, <3>1, GraphFixed DEF ResultRanked, ResultExact
  <2>4. CASE outcome' # "success"
    BY <2>4 DEF ResultRanked, ResultExact
  <2> QED BY <2>2, <2>3, <2>4, OutcomeFrame
<1>3. FullInv /\ ResultRanked /\ ResultExact => ExactWhenAdmissible
  BY DEF FullInv, ExactWhenAdmissible
<1> QED BY <1>1, <1>2, <1>3, SearchInvariance, PTL DEF Spec

=============================================================================
