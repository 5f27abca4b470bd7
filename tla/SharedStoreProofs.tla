------------------------- MODULE SharedStoreProofs --------------------------
(***************************************************************************)
(* Proofs about the stores that many callers share.  The overlay comes first, *)
(* for every stack of layers, any callers and any caches that drop and damage *)
(* what they hold; the filesystem store and the stores of remote objects are  *)
(* instantiated below it, over the same callers and blocks.  A variable that  *)
(* two of the modules declare is declared once: each theorem is about the     *)
(* specification of one of them.                                              *)
(***************************************************************************)
EXTENDS OverlayStore, FiniteSetTheorems, TLAPS

-----------------------------------------------------------------------------
(* Layers and copies.                                                       *)

LEMMA LayerFacts ==
    ASSUME OverlayAssumption
    PROVE  /\ Len(Role) \in Nat /\ 1 \in Layers /\ Durable \subseteq Layers
           /\ \A l \in Layers : l \in Nat /\ l >= 1 /\ l <= Len(Role)
           /\ \A l \in Layers : AcceptsDirectWrites(l) => l \in Durable
           /\ \A l \in Caches : l \in Layers /\ l \notin Durable
           /\ \A k \in 1 .. Len(Role) + 1 : k \notin Layers <=> k = Len(Role) + 1
BY DEF OverlayAssumption, Layers, Durable, Caches, AcceptsDirectWrites

\* Durable layers keep what they hold.
Kept == \A l \in Durable, b \in Blocks : copy[l][b] = "good" => copy'[l][b] = "good"

LEMMA KeptStored == ASSUME Kept PROVE Stored \subseteq Stored'
BY DEF Kept, Stored

\* One copy changes.
LEMMA StoreMoves ==
    ASSUME TypeOK, OverlayAssumption, NEW k \in Layers, NEW x \in Blocks,
           NEW v \in {"none", "good", "bad"}, Store(k, x, v)
    PROVE  /\ copy' \in [Layers -> [Blocks -> {"none", "good", "bad"}]]
           /\ copy'[k][x] = v
           /\ \A l \in Layers, b \in Blocks : l # k \/ b # x => copy'[l][b] = copy[l][b]
           /\ v = "good" \/ k \in Caches => Kept
           /\ k \in Caches => Stored' = Stored
           /\ k \in Durable /\ v = "good" => Stored' = Stored \cup {x}
<1>1. copy' \in [Layers -> [Blocks -> {"none", "good", "bad"}]]
  BY DEF Store, TypeOK
<1>2. copy'[k][x] = v
  BY DEF Store, TypeOK
<1>3. \A l \in Layers, b \in Blocks : l # k \/ b # x => copy'[l][b] = copy[l][b]
  BY DEF Store, TypeOK
<1>4. Durable \subseteq Layers /\ (k \in Caches => k \notin Durable)
  BY DEF Durable, Caches
<1>5. v = "good" \/ k \in Caches => Kept
  BY <1>2, <1>3, <1>4 DEF Kept
<1>6. k \in Caches => Stored' = Stored
  BY <1>3, <1>4 DEF Stored
<1>7. k \in Durable /\ v = "good" => Stored' = Stored \cup {x}
  BY <1>2, <1>3, <1>4 DEF Stored
<1> QED BY <1>1, <1>2, <1>3, <1>5, <1>6, <1>7

LEMMA CopyFixed == ASSUME UNCHANGED copy PROVE Kept /\ Stored' = Stored
BY DEF Kept, Stored

-----------------------------------------------------------------------------
(* The callers that a step does not touch.                                  *)

Locals(c) == <<pc[c], blk[c], at[c], failed[c], seen[c], yielded[c], emitted[c]>>

\* What others do to copies, acknowledgements and counters never breaks what is
\* known of a call under way.
LEMMA ClientKept ==
    ASSUME TypeOK, TypeOK', OverlayAssumption, Kept, attempted \subseteq attempted',
           NEW c \in Clients, ClientInv(c), Locals(c)' = Locals(c),
           \A l \in Layers : Arrived(l + 1)' >= Arrived(l + 1)
    PROVE  ClientInv(c)'
<1>l. /\ pc'[c] = pc[c] /\ blk'[c] = blk[c] /\ at'[c] = at[c] /\ failed'[c] = failed[c]
      /\ seen'[c] = seen[c] /\ yielded'[c] = yielded[c] /\ emitted'[c] = emitted[c]
  BY DEF Locals
<1>t. blk[c] \in Blocks /\ at[c] \in Nat /\ seen[c] \subseteq Blocks
  BY LayerFacts DEF TypeOK
<1>s. Stored \subseteq Stored'
  BY KeptStored
<1>1. PutInv(c)'
  BY <1>l, <1>t, LayerFacts DEF ClientInv, PutInv, Kept
<1>2. \A b \in Blocks : Ahead(c, b) => Ahead(c, b)'
  BY <1>l DEF Ahead, Kept
<1>3. GetInv(c)'
  BY <1>l, <1>t, <1>s, <1>2 DEF ClientInv, GetInv
<1>4. ListInv(c)'
  BY <1>l, <1>t, <1>s, <1>2 DEF ClientInv, ListInv
<1>5. Passed(c)'
  <2>1. SUFFICES ASSUME pc[c] = "get", NEW l \in Layers, l < at[c] PROVE Arrived(l + 1)' > 0
    BY <1>l DEF Passed
  <2>2. Arrived(l + 1) > 0 /\ Arrived(l + 1)' >= Arrived(l + 1)
    BY <2>1 DEF ClientInv, Passed
  <2>3. Arrived(l + 1) \in Nat /\ Arrived(l + 1)' \in Nat
    <3>1. l \in Nat /\ l + 1 # 1 /\ (l + 1) - 1 = l
      BY LayerFacts
    <3>2. stats[l] \in [hits : Nat, misses : Nat, errors : Nat]
      BY DEF TypeOK
    <3>3. stats'[l] \in [hits : Nat, misses : Nat, errors : Nat]
      BY DEF TypeOK
    <3> QED BY <3>1, <3>2, <3>3 DEF Arrived
  <2> QED BY <2>2, <2>3
<1> QED BY <1>1, <1>3, <1>4, <1>5 DEF ClientInv

-----------------------------------------------------------------------------
(* The counters.                                                            *)

LEMMA AtFinite ==
    ASSUME OverlayAssumption, NEW l
    PROVE  IsFiniteSet(At(l)) /\ Cardinality(At(l)) \in Nat
<1>1. At(l) \in SUBSET Clients /\ IsFiniteSet(Clients)
  BY DEF At, OverlayAssumption
<1> QED BY <1>1, FS_Subset, FS_CardinalityType

LEMMA CountTypes ==
    ASSUME TypeOK, OverlayAssumption, NEW l \in Layers
    PROVE  /\ stats[l].hits \in Nat /\ stats[l].misses \in Nat /\ stats[l].errors \in Nat
           /\ Consulted(l) \in Nat /\ Arrived(l) \in Nat /\ Arrived(l + 1) \in Nat
           /\ Arrived(l + 1) = stats[l].misses + stats[l].errors
<1>1. \A k \in Layers : stats[k].hits \in Nat /\ stats[k].misses \in Nat /\ stats[k].errors \in Nat
  BY DEF TypeOK
<1>2. l \in Nat /\ l + 1 # 1 /\ (l + 1) - 1 = l /\ gets \in Nat
  BY LayerFacts DEF TypeOK, OverlayAssumption
<1>3. l # 1 => l - 1 \in Layers
  BY LayerFacts DEF Layers
<1> QED BY <1>1, <1>2, <1>3 DEF Consulted, Arrived

\* No lookup is counted, started or moved on.
LEMMA CountQuiet ==
    ASSUME TypeOK, OverlayAssumption, CountInv, UNCHANGED <<stats, gets>>,
           \A c \in Clients : pc'[c] = "get" => pc[c] = "get" /\ at'[c] = at[c]
    PROVE  CountInv' /\ \A l \in Layers : Arrived(l + 1)' >= Arrived(l + 1)
<1>1. ASSUME NEW l \in Layers PROVE (Consulted(l) + Cardinality(At(l)) <= Arrived(l))'
  <2>1. Consulted(l)' = Consulted(l) /\ Arrived(l)' = Arrived(l)
    BY DEF Consulted, Arrived
  <2>2. At(l)' \in SUBSET At(l)
    BY DEF At
  <2>3. Cardinality(At(l)') \in Nat /\ Cardinality(At(l)') <= Cardinality(At(l))
    BY <2>2, AtFinite, FS_Subset, FS_CardinalityType
  <2>4. Cardinality(At(l)) \in Nat /\ Consulted(l) \in Nat /\ Arrived(l) \in Nat
    BY AtFinite, CountTypes
  <2>5. Consulted(l) + Cardinality(At(l)) <= Arrived(l)
    BY DEF CountInv
  <2>6. Consulted(l) + Cardinality(At(l)') <= Arrived(l)
    BY <2>3, <2>4, <2>5
  <2> QED BY <2>1, <2>6
<1>2. ASSUME NEW l \in Layers PROVE Arrived(l + 1)' >= Arrived(l + 1)
  <2>1. Arrived(l + 1)' = Arrived(l + 1)
    BY DEF Arrived
  <2> QED BY <2>1, CountTypes
<1> QED BY <1>1, <1>2 DEF CountInv

\* A lookup starts.
LEMMA CountStart ==
    ASSUME TypeOK, OverlayAssumption, CountInv, NEW c \in Clients, pc[c] # "get",
           UNCHANGED stats, gets' = gets + 1, pc'[c] = "get", at'[c] = 1,
           \A d \in Clients : d # c => pc'[d] = pc[d] /\ at'[d] = at[d]
    PROVE  CountInv' /\ \A l \in Layers : Arrived(l + 1)' >= Arrived(l + 1)
<1>1. ASSUME NEW l \in Layers PROVE (Consulted(l) + Cardinality(At(l)) <= Arrived(l))'
  <2>1. Consulted(l)' = Consulted(l) /\ Consulted(l) \in Nat /\ Arrived(l) \in Nat
    BY CountTypes DEF Consulted
  <2>2. Consulted(l) + Cardinality(At(l)) <= Arrived(l)
    BY DEF CountInv
  <2>3. CASE l = 1
    <3>1. At(l)' = At(l) \cup {c} /\ c \notin At(l)
      BY <2>3 DEF At
    <3>2. Cardinality(At(l)') = Cardinality(At(l)) + 1 /\ Cardinality(At(l)) \in Nat
      BY <3>1, AtFinite, FS_AddElement
    <3>3. Arrived(l)' = Arrived(l) + 1
      BY <2>3 DEF Arrived
    <3>4. Consulted(l) + (Cardinality(At(l)) + 1) <= Arrived(l) + 1
      BY <2>1, <2>2, <3>2
    <3> QED BY <2>1, <3>2, <3>3, <3>4
  <2>4. CASE l # 1
    <3>1. At(l)' = At(l)
      BY <2>4 DEF At
    <3>2. Arrived(l)' = Arrived(l)
      BY <2>4 DEF Arrived
    <3> QED BY <2>1, <2>2, <3>1, <3>2
  <2> QED BY <2>3, <2>4
<1>2. ASSUME NEW l \in Layers PROVE Arrived(l + 1)' >= Arrived(l + 1)
  <2>1. l + 1 # 1
    BY LayerFacts
  <2>2. Arrived(l + 1)' = Arrived(l + 1)
    BY <2>1 DEF Arrived
  <2> QED BY <2>2, CountTypes
<1> QED BY <1>1, <1>2 DEF CountInv

\* A lookup at layer k is answered there, and ends or goes on to the next.
LEMMA CountAnswer ==
    ASSUME TypeOK, OverlayAssumption, CountInv, NEW c \in Clients, NEW k \in Layers,
           pc[c] = "get", at[c] = k, UNCHANGED gets,
           \A l \in Layers : l # k => stats'[l] = stats[l],
           \/ /\ stats'[k].hits = stats[k].hits + 1 /\ stats'[k].misses = stats[k].misses
              /\ stats'[k].errors = stats[k].errors /\ pc'[c] # "get"
           \/ /\ stats'[k].hits = stats[k].hits
              /\ \/ /\ stats'[k].misses = stats[k].misses + 1
                    /\ stats'[k].errors = stats[k].errors
                 \/ /\ stats'[k].misses = stats[k].misses
                    /\ stats'[k].errors = stats[k].errors + 1
              /\ pc'[c] = "get" /\ at'[c] = k + 1,
           \A d \in Clients : d # c => pc'[d] = pc[d] /\ at'[d] = at[d]
    PROVE  /\ CountInv' /\ \A l \in Layers : Arrived(l + 1)' >= Arrived(l + 1)
           /\ pc'[c] = "get" => Arrived(k + 1)' > 0
<1>t. /\ k \in Nat /\ k >= 1
      /\ stats[k].hits \in Nat /\ stats[k].misses \in Nat /\ stats[k].errors \in Nat
      /\ Consulted(k) = stats[k].hits + stats[k].misses + stats[k].errors
  BY LayerFacts, CountTypes DEF Consulted
<1>a. Consulted(k)' = Consulted(k) + 1
  BY <1>t DEF Consulted
<1>b. \A l \in Layers : l # k => Consulted(l)' = Consulted(l)
  BY DEF Consulted
<1>c. /\ Arrived(k + 1)' = stats'[k].misses + stats'[k].errors
      /\ Arrived(k + 1) = stats[k].misses + stats[k].errors
  <2>1. k + 1 # 1 /\ (k + 1) - 1 = k
    BY <1>t
  <2> QED BY <2>1 DEF Arrived
<1>d. /\ pc'[c] = "get" => Arrived(k + 1)' = Arrived(k + 1) + 1
      /\ pc'[c] # "get" => Arrived(k + 1)' = Arrived(k + 1)
      /\ Arrived(k + 1) \in Nat
  BY <1>t, <1>c
<1>e. \A l \in Layers : l # k + 1 => Arrived(l)' = Arrived(l)
  <2>1. ASSUME NEW l \in Layers, l # k + 1 PROVE Arrived(l)' = Arrived(l)
    <3>1. l \in Nat /\ l >= 1 /\ l <= Len(Role) /\ Len(Role) \in Nat
      BY LayerFacts
    <3>2. CASE l = 1
      BY <3>2 DEF Arrived
    <3>3. CASE l # 1
      <4>1. l - 1 \in Layers /\ l - 1 # k
        BY <1>t, <2>1, <3>1, <3>3 DEF Layers
      <4>2. stats'[l - 1] = stats[l - 1]
        BY <4>1
      <4> QED BY <3>3, <4>2 DEF Arrived
    <3> QED BY <3>2, <3>3
  <2> QED BY <2>1
<1>1. ASSUME NEW l \in Layers PROVE (Consulted(l) + Cardinality(At(l)) <= Arrived(l))'
  <2>1. /\ Consulted(l) \in Nat /\ Arrived(l) \in Nat /\ l \in Nat
        /\ Cardinality(At(l)) \in Nat /\ IsFiniteSet(At(l))
    BY CountTypes, AtFinite, LayerFacts
  <2>2. Consulted(l) + Cardinality(At(l)) <= Arrived(l)
    BY DEF CountInv
  <2>3. CASE l = k
    <3>1. At(l)' = At(l) \ {c} /\ c \in At(l)
      BY <1>t, <2>3 DEF At
    <3>2. Cardinality(At(l)') = Cardinality(At(l)) - 1
      BY <2>1, <3>1, FS_RemoveElement
    <3>3. Arrived(l)' = Arrived(l) /\ Consulted(l)' = Consulted(l) + 1
      BY <1>a, <1>e, <1>t, <2>3
    <3>4. (Consulted(l) + 1) + (Cardinality(At(l)) - 1) <= Arrived(l)
      BY <2>1, <2>2
    <3> QED BY <3>2, <3>3, <3>4
  <2>4. CASE l = k + 1 /\ pc'[c] = "get"
    <3>1. At(l)' = At(l) \cup {c} /\ c \notin At(l)
      BY <1>t, <2>4 DEF At
    <3>2. Cardinality(At(l)') = Cardinality(At(l)) + 1
      BY <2>1, <3>1, FS_AddElement
    <3>3. Arrived(l)' = Arrived(l) + 1 /\ Consulted(l)' = Consulted(l)
      BY <1>b, <1>d, <1>t, <2>4
    <3>4. Consulted(l) + (Cardinality(At(l)) + 1) <= Arrived(l) + 1
      BY <2>1, <2>2
    <3> QED BY <3>2, <3>3, <3>4
  <2>5. CASE l # k /\ (l # k + 1 \/ pc'[c] # "get")
    <3>1. At(l)' = At(l)
      BY <2>5 DEF At
    <3>2. Arrived(l)' = Arrived(l) /\ Consulted(l)' = Consulted(l)
      BY <1>b, <1>d, <1>e, <2>5
    <3> QED BY <2>2, <3>1, <3>2
  <2> QED BY <2>3, <2>4, <2>5
<1>2. ASSUME NEW l \in Layers PROVE Arrived(l + 1)' >= Arrived(l + 1)
  <2>1. CASE l = k
    BY <1>d, <2>1
  <2>2. CASE l # k
    <3>1. l + 1 # 1 /\ (l + 1) - 1 = l
      BY LayerFacts
    <3>2. Arrived(l + 1)' = Arrived(l + 1)
      BY <2>2, <3>1 DEF Arrived
    <3> QED BY <3>2, CountTypes
  <2> QED BY <2>1, <2>2
<1> QED BY <1>1, <1>2, <1>d DEF CountInv

-----------------------------------------------------------------------------
(* The inductive invariant, action by action.                               *)

\* What is left to show of a step of client c.
LEMMA Assembled ==
    ASSUME OverlayInv, OverlayAssumption, NEW c \in Clients,
           TypeOK', Kept, Replicated', LayersInv', CountInv', ClientInv(c)',
           attempted \subseteq attempted',
           \A d \in Clients : d # c => Locals(d)' = Locals(d),
           \A l \in Layers : Arrived(l + 1)' >= Arrived(l + 1)
    PROVE  OverlayInv'
<1>1. ASSUME NEW d \in Clients, d # c PROVE ClientInv(d)'
  BY <1>1, ClientKept DEF OverlayInv
<1> QED BY <1>1 DEF OverlayInv

\* Acknowledged blocks stay where they are.
LEMMA ReplicatedKept ==
    ASSUME TypeOK, OverlayAssumption, Replicated, Kept, acked' = acked
    PROVE  Replicated'
BY LayerFacts DEF Replicated, Kept, TypeOK, AcceptsDirectWrites

\* Nothing is written.
LEMMA NothingWritten ==
    ASSUME OverlayInv, OverlayAssumption, UNCHANGED copy
    PROVE  Kept /\ Stored' = Stored /\ LayersInv' /\ (acked' = acked => Replicated')
<1>1. Kept /\ Stored' = Stored
  BY CopyFixed
<1>2. LayersInv'
  BY <1>1 DEF OverlayInv, LayersInv, CachesFollow
<1> QED BY <1>1, <1>2, ReplicatedKept DEF OverlayInv

\* A durable layer gets a whole block, or a cache something that is stored.
LEMMA SomethingWritten ==
    ASSUME OverlayInv, OverlayAssumption, NEW k \in Layers, NEW x \in Blocks,
           NEW v \in {"none", "good", "bad"}, Store(k, x, v),
           \/ k \in Durable /\ v = "good"
           \/ k \in Caches /\ (v = "none" \/ x \in Stored)
    PROVE  Kept /\ LayersInv' /\ (acked' = acked => Replicated')
<1>1. /\ copy'[k][x] = v /\ Kept
      /\ \A l \in Layers, b \in Blocks : l # k \/ b # x => copy'[l][b] = copy[l][b]
  BY StoreMoves DEF OverlayInv
<1>2. Stored \subseteq Stored'
  BY <1>1, KeptStored
<1>3. LayersInv'
  <2>1. ASSUME NEW l \in Caches, NEW b \in Blocks, copy'[l][b] # "none" PROVE b \in Stored'
    BY <1>1, <1>2, <2>1, LayerFacts DEF OverlayInv, LayersInv, CachesFollow
  <2>2. ASSUME NEW l \in Durable, NEW b \in Blocks PROVE copy'[l][b] # "bad"
    BY <1>1, <2>2, LayerFacts DEF OverlayInv, LayersInv
  <2> QED BY <2>1, <2>2 DEF LayersInv, CachesFollow
<1> QED BY <1>1, <1>3, ReplicatedKept DEF OverlayInv

LEMMA ClientSets ==
    Writers \subseteq Clients /\ Readers \subseteq Clients /\ Listers \subseteq Clients
BY DEF Clients

LEMMA InitInv == ASSUME OverlayAssumption, Init PROVE OverlayInv
<1>1. TypeOK
  <2>1. copy \in [Layers -> [Blocks -> {"none", "good", "bad"}]]
    BY DEF Init
  <2>2. attempted \subseteq Blocks /\ acked \subseteq attempted
    BY DEF Init, Stored
  <2>3. at \in [Clients -> 1 .. Len(Role) + 1]
    BY LayerFacts DEF Init
  <2>4. damaged \in 0 .. MaxDamage /\ gets \in 0 .. MaxGets
    BY DEF Init, OverlayAssumption
  <2>5. stats \in [Layers -> [hits : Nat, misses : Nat, errors : Nat]]
    BY DEF Init
  <2> QED BY <2>1, <2>2, <2>3, <2>4, <2>5 DEF Init, TypeOK, Settled
<1>2. LayersInv
  <2>1. \A l \in Caches, b \in Blocks : copy[l][b] = "none"
    BY LayerFacts DEF Init
  <2>2. \A l \in Durable, b \in Blocks : copy[l][b] # "bad"
    BY LayerFacts DEF Init
  <2> QED BY <2>1, <2>2 DEF LayersInv, CachesFollow
<1>3. Replicated
  BY DEF Init, Replicated
<1>4. CountInv
  <2>1. ASSUME NEW l \in Layers PROVE Consulted(l) + Cardinality(At(l)) <= Arrived(l)
    <3>1. At(l) = {}
      BY DEF Init, At
    <3>2. Cardinality(At(l)) = 0
      BY <3>1, FS_EmptySet
    <3>3. Consulted(l) = 0 /\ Arrived(l) \in Nat
      BY <1>1, CountTypes DEF Init, Consulted
    <3> QED BY <3>2, <3>3
  <2> QED BY <2>1 DEF CountInv
<1>5. ASSUME NEW c \in Clients PROVE ClientInv(c)
  <2>1. pc[c] = "idle" /\ seen[c] = {} /\ yielded[c] = {} /\ emitted[c] = 0
    BY DEF Init
  <2>2. emitted[c] = Cardinality(yielded[c])
    BY <2>1, FS_EmptySet
  <2> QED BY <2>1, <2>2 DEF ClientInv, PutInv, GetInv, ListInv, Passed
<1> QED BY <1>1, <1>2, <1>3, <1>4, <1>5 DEF OverlayInv

LEMMA StartPutInv ==
    ASSUME OverlayInv, OverlayAssumption, NEW c \in Clients, NEW b \in Blocks, StartPut(c, b)
    PROVE  OverlayInv'
<1>m. /\ pc'[c] = "put" /\ blk'[c] = b /\ at'[c] = 1 /\ failed'[c] = FALSE
      /\ seen'[c] = {} /\ yielded'[c] = yielded[c] /\ emitted'[c] = emitted[c]
      /\ \A d \in Clients : d # c => Locals(d)' = Locals(d)
      /\ \A d \in Clients : d # c => pc'[d] = pc[d] /\ at'[d] = at[d]
  BY DEF StartPut, Goto, Locals, OverlayInv, TypeOK
<1>1. TypeOK'
  <2>1. at' \in [Clients -> 1 .. Len(Role) + 1]
    BY LayerFacts DEF StartPut, OverlayInv, TypeOK
  <2>2. attempted' \subseteq Blocks /\ acked' \subseteq attempted'
    BY DEF StartPut, OverlayInv, TypeOK
  <2>3. pc' \in [Clients -> Settled \cup {"put", "get", "refill", "list"}]
    BY DEF StartPut, Goto, OverlayInv, TypeOK
  <2>4. \A d \in Clients : pc'[d] # "refill" => refill'[d] = {}
    BY <1>m DEF StartPut, Settled, OverlayInv, TypeOK
  <2> QED BY <2>1, <2>2, <2>3, <2>4 DEF StartPut, OverlayInv, TypeOK
<1>2. Kept /\ Stored' = Stored /\ LayersInv' /\ Replicated'
  BY NothingWritten DEF StartPut
<1>3. CountInv' /\ \A l \in Layers : Arrived(l + 1)' >= Arrived(l + 1)
  BY <1>m, CountQuiet DEF StartPut, OverlayInv
<1>4. ClientInv(c)'
  <2>1. PutInv(c)'
    BY <1>m, LayerFacts DEF PutInv, StartPut
  <2>2. GetInv(c)' /\ Passed(c)'
    BY <1>m DEF GetInv, Passed
  <2>3. ListInv(c)'
    BY <1>m, <1>2 DEF ListInv, OverlayInv, ClientInv
  <2> QED BY <2>1, <2>2, <2>3 DEF ClientInv
<1> QED BY <1>1, <1>2, <1>3, <1>4, <1>m, Assembled DEF StartPut

LEMMA PutLayerInv ==
    ASSUME OverlayInv, OverlayAssumption, NEW c \in Clients, PutLayer(c)
    PROVE  OverlayInv'
<1>m. /\ pc' = pc /\ pc[c] = "put" /\ blk' = blk /\ at'[c] = at[c] + 1
      /\ seen' = seen /\ yielded' = yielded /\ emitted' = emitted
      /\ \A d \in Clients : d # c => at'[d] = at[d] /\ failed'[d] = failed[d]
      /\ \A d \in Clients : d # c => Locals(d)' = Locals(d)
  BY DEF PutLayer, Advance, Note, Locals, OverlayInv, TypeOK
<1>t. at[c] \in Layers /\ blk[c] \in Blocks /\ at[c] \in Nat /\ at[c] <= Len(Role)
      /\ at[c] + 1 \in 1 .. Len(Role) + 1
  BY LayerFacts DEF PutLayer, OverlayInv, TypeOK
<1>f. failed' \in [Clients -> BOOLEAN] /\ (failed[c] => failed'[c])
  BY DEF PutLayer, Note, OverlayInv, TypeOK
<1>2. /\ copy' \in [Layers -> [Blocks -> {"none", "good", "bad"}]]
      /\ Kept /\ LayersInv' /\ Replicated'
      /\ ~failed'[c] /\ AcceptsDirectWrites(at[c]) => copy'[at[c]][blk[c]] = "good"
  <2>1. CASE UNCHANGED copy /\ (~AcceptsDirectWrites(at[c]) \/ Note(c, TRUE))
    <3>1. Note(c, TRUE) => failed'[c] = TRUE
      BY DEF Note, OverlayInv, TypeOK
    <3>2. Kept /\ LayersInv' /\ Replicated'
      BY <2>1, NothingWritten DEF PutLayer
    <3> QED BY <2>1, <3>1, <3>2 DEF OverlayInv, TypeOK
  <2>2. CASE AcceptsDirectWrites(at[c]) /\ Store(at[c], blk[c], "good")
    <3>1. at[c] \in Durable
      BY <1>t, <2>2, LayerFacts
    <3>2. Kept /\ LayersInv' /\ Replicated'
      BY <1>t, <2>2, <3>1, SomethingWritten DEF PutLayer
    <3>3. /\ copy' \in [Layers -> [Blocks -> {"none", "good", "bad"}]]
          /\ copy'[at[c]][blk[c]] = "good"
      BY <1>t, <2>2, StoreMoves DEF OverlayInv
    <3> QED BY <3>2, <3>3
  <2> QED BY <2>1, <2>2 DEF PutLayer
<1>1. TypeOK'
  <2>1. at' \in [Clients -> 1 .. Len(Role) + 1]
    BY <1>t DEF PutLayer, Advance, OverlayInv, TypeOK
  <2> QED BY <2>1, <1>2, <1>f DEF PutLayer, OverlayInv, TypeOK, Settled
<1>3. CountInv' /\ \A l \in Layers : Arrived(l + 1)' >= Arrived(l + 1)
  BY <1>m, CountQuiet DEF PutLayer, OverlayInv
<1>4. ClientInv(c)'
  <2>s. Stored \subseteq Stored'
    BY <1>2, KeptStored
  <2>1. PutInv(c)'
    <3>1. blk'[c] \in attempted'
      BY <1>m DEF OverlayInv, ClientInv, PutInv, PutLayer
    <3>2. ASSUME ~failed'[c], NEW l \in Layers, l < at'[c], AcceptsDirectWrites(l)
          PROVE  copy'[l][blk'[c]] = "good"
      <4>1. CASE l = at[c]
        BY <1>2, <1>m, <3>2, <4>1
      <4>2. CASE l # at[c]
        <5>1. l < at[c] /\ l \in Durable
          BY <1>m, <1>t, <3>2, <4>2, LayerFacts
        <5>2. copy[l][blk[c]] = "good"
          BY <1>f, <1>m, <3>2, <5>1 DEF OverlayInv, ClientInv, PutInv
        <5> QED BY <1>2, <1>m, <1>t, <5>1, <5>2 DEF Kept
      <4> QED BY <4>1, <4>2
    <3> QED BY <3>1, <3>2 DEF PutInv, AcceptsDirectWrites
  <2>2. GetInv(c)' /\ Passed(c)'
    BY <1>m, <2>s DEF GetInv, Passed, OverlayInv, ClientInv
  <2>3. ListInv(c)'
    BY <1>m, <2>s DEF ListInv, OverlayInv, ClientInv
  <2> QED BY <2>1, <2>2, <2>3 DEF ClientInv
<1> QED BY <1>1, <1>2, <1>3, <1>4, <1>m, Assembled DEF PutLayer

LEMMA PutEndsInv ==
    ASSUME OverlayInv, OverlayAssumption, NEW c \in Clients, PutEnds(c)
    PROVE  OverlayInv'
<1>m. /\ pc'[c] \in {"ok", "err"} /\ pc[c] = "put" /\ blk' = blk /\ at' = at
      /\ failed' = failed /\ seen' = seen /\ yielded' = yielded /\ emitted' = emitted
      /\ \A d \in Clients : d # c => pc'[d] = pc[d]
      /\ \A d \in Clients : d # c => Locals(d)' = Locals(d)
  BY DEF PutEnds, Goto, Locals, OverlayInv, TypeOK
<1>b. blk[c] \in Blocks /\ blk[c] \in attempted
  BY <1>m DEF OverlayInv, TypeOK, ClientInv, PutInv
<1>1. TypeOK'
  <2>1. pc' \in [Clients -> Settled \cup {"put", "get", "refill", "list"}]
    BY DEF PutEnds, Goto, Settled, OverlayInv, TypeOK
  <2>2. acked' \subseteq attempted'
    BY <1>b DEF PutEnds, OverlayInv, TypeOK
  <2>3. \A d \in Clients : pc'[d] # "refill" => refill'[d] = {}
    BY <1>m DEF PutEnds, OverlayInv, TypeOK
  <2> QED BY <2>1, <2>2, <2>3 DEF PutEnds, OverlayInv, TypeOK
<1>2. Kept /\ Stored' = Stored /\ LayersInv' /\ (acked' = acked => Replicated')
  BY NothingWritten DEF PutEnds
<1>5. Replicated'
  <2>1. CASE acked' = acked
    BY <1>2, <2>1
  <2>2. CASE ~failed[c] /\ acked' = acked \cup {blk[c]}
    <3>1. at[c] = Len(Role) + 1
      BY LayerFacts DEF PutEnds, OverlayInv, TypeOK
    <3>2. \A l \in Layers : l < at[c]
      BY <3>1, LayerFacts
    <3>3. \A l \in Layers : Role[l] = "writable" => copy[l][blk[c]] = "good"
      BY <1>m, <2>2, <3>2 DEF OverlayInv, ClientInv, PutInv, AcceptsDirectWrites
    <3> QED BY <2>2, <3>3 DEF Replicated, PutEnds, OverlayInv
  <2> QED BY <2>1, <2>2 DEF PutEnds
<1>3. CountInv' /\ \A l \in Layers : Arrived(l + 1)' >= Arrived(l + 1)
  BY <1>m, CountQuiet DEF PutEnds, OverlayInv
<1>4. ClientInv(c)'
  BY <1>m, <1>2 DEF OverlayInv, ClientInv, PutInv, GetInv, ListInv, Passed
<1> QED BY <1>1, <1>2, <1>3, <1>4, <1>5, <1>m, Assembled DEF PutEnds

LEMMA StartGetInv ==
    ASSUME OverlayInv, OverlayAssumption, NEW c \in Clients, NEW b \in Blocks, StartGet(c, b)
    PROVE  OverlayInv'
<1>m. /\ pc'[c] = "get" /\ pc[c] # "get" /\ blk'[c] = b /\ at'[c] = 1 /\ failed'[c] = FALSE
      /\ seen'[c] = Stored /\ yielded'[c] = {} /\ emitted'[c] = 0
      /\ \A d \in Clients : d # c => Locals(d)' = Locals(d)
      /\ \A d \in Clients : d # c => pc'[d] = pc[d] /\ at'[d] = at[d]
  BY DEF StartGet, Goto, Settled, Locals, OverlayInv, TypeOK
<1>1. TypeOK'
  <2>1. at' \in [Clients -> 1 .. Len(Role) + 1]
    BY LayerFacts DEF StartGet, OverlayInv, TypeOK
  <2>2. gets' \in 0 .. MaxGets
    BY DEF StartGet, OverlayInv, TypeOK, OverlayAssumption
  <2>3. pc' \in [Clients -> Settled \cup {"put", "get", "refill", "list"}]
    BY DEF StartGet, Goto, OverlayInv, TypeOK
  <2>4. /\ refill' \in [Clients -> SUBSET Caches]
        /\ \A d \in Clients : pc'[d] # "refill" => refill'[d] = {}
    BY <1>m DEF StartGet, OverlayInv, TypeOK
  <2>5. seen' \in [Clients -> SUBSET Blocks] /\ yielded' \in [Clients -> SUBSET Blocks]
    BY DEF StartGet, Stored, OverlayInv, TypeOK
  <2> QED BY <2>1, <2>2, <2>3, <2>4, <2>5 DEF StartGet, OverlayInv, TypeOK
<1>2. Kept /\ Stored' = Stored /\ LayersInv' /\ Replicated'
  BY NothingWritten DEF StartGet
<1>3. CountInv' /\ \A l \in Layers : Arrived(l + 1)' >= Arrived(l + 1)
  BY <1>m, CountStart DEF StartGet, OverlayInv
<1>4. ClientInv(c)'
  <2>1. PutInv(c)'
    BY <1>m DEF PutInv
  <2>2. GetInv(c)'
    <3>1. ASSUME b \in Stored PROVE Ahead(c, b)'
      <4>1. PICK l \in Durable : copy[l][b] = "good"
        BY <3>1 DEF Stored
      <4>2. l >= at'[c] /\ copy'[l][b] = "good"
        BY <1>m, <4>1, LayerFacts DEF StartGet
      <4> QED BY <4>2 DEF Ahead
    <3> QED BY <1>m, <1>2, <3>1 DEF GetInv
  <2>3. ListInv(c)'
    BY <1>m, <1>2, FS_EmptySet DEF ListInv
  <2>4. Passed(c)'
    BY <1>m, LayerFacts DEF Passed
  <2> QED BY <2>1, <2>2, <2>3, <2>4 DEF ClientInv
<1> QED BY <1>1, <1>2, <1>3, <1>4, <1>m, Assembled DEF StartGet

\* Bytes of any kind stand for a stored block.
LEMMA HitStored ==
    ASSUME OverlayInv, OverlayAssumption, NEW l \in Layers, NEW b \in Blocks,
           copy[l][b] # "none"
    PROVE  b \in Stored /\ copy[l][b] \in {"good", "bad"}
<1>1. copy[l][b] \in {"none", "good", "bad"}
  BY DEF OverlayInv, TypeOK
<1>2. CASE l \in Caches
  BY <1>1, <1>2 DEF OverlayInv, LayersInv, CachesFollow
<1>3. CASE l \in Durable
  BY <1>1, <1>3 DEF OverlayInv, LayersInv, Stored
<1> QED BY <1>2, <1>3 DEF Caches

LEMMA LayerHitInv ==
    ASSUME OverlayInv, OverlayAssumption, NEW c \in Clients, LayerHit(c)
    PROVE  OverlayInv'
<1>m. /\ pc'[c] = "refill" /\ pc[c] = "get" /\ blk' = blk /\ at' = at /\ failed' = failed
      /\ seen' = seen /\ yielded' = yielded /\ emitted' = emitted
      /\ \A d \in Clients : d # c => pc'[d] = pc[d]
      /\ \A d \in Clients : d # c => Locals(d)' = Locals(d)
  BY DEF LayerHit, Goto, Locals, OverlayInv, TypeOK
<1>t. at[c] \in Layers /\ blk[c] \in Blocks
  BY DEF LayerHit, OverlayInv, TypeOK
<1>h. blk[c] \in Stored /\ copy[at[c]][blk[c]] \in {"good", "bad"}
  BY <1>t, HitStored DEF LayerHit
<1>s. /\ stats' = [stats EXCEPT ![at[c]].hits = @ + 1]
      /\ stats \in [Layers -> [hits : Nat, misses : Nat, errors : Nat]]
  BY DEF LayerHit, Count, OverlayInv, TypeOK
<1>c. /\ stats' \in [Layers -> [hits : Nat, misses : Nat, errors : Nat]]
      /\ stats'[at[c]].hits = stats[at[c]].hits + 1
      /\ stats'[at[c]].misses = stats[at[c]].misses
      /\ stats'[at[c]].errors = stats[at[c]].errors
      /\ \A l \in Layers : l # at[c] => stats'[l] = stats[l]
  BY <1>s, <1>t
<1>1. TypeOK'
  <2>1. pc' \in [Clients -> Settled \cup {"put", "get", "refill", "list"}]
    BY DEF LayerHit, Goto, OverlayInv, TypeOK
  <2>2. bytes' \in [Clients -> {"good", "bad"}]
    BY <1>h DEF LayerHit, OverlayInv, TypeOK
  <2>3. /\ refill' \in [Clients -> SUBSET Caches]
        /\ \A d \in Clients : pc'[d] # "refill" => refill'[d] = {}
    BY <1>m DEF LayerHit, OverlayInv, TypeOK
  <2> QED BY <1>c, <2>1, <2>2, <2>3 DEF LayerHit, OverlayInv, TypeOK
<1>2. Kept /\ Stored' = Stored /\ LayersInv' /\ Replicated'
  BY NothingWritten DEF LayerHit
<1>3. CountInv' /\ \A l \in Layers : Arrived(l + 1)' >= Arrived(l + 1)
  BY <1>m, <1>t, <1>c, CountAnswer DEF LayerHit, OverlayInv
<1>4. ClientInv(c)'
  BY <1>m, <1>2, <1>h DEF OverlayInv, ClientInv, PutInv, GetInv, ListInv, Passed
<1> QED BY <1>1, <1>2, <1>3, <1>4, <1>m, Assembled DEF LayerHit

LEMMA LayerMissInv ==
    ASSUME OverlayInv, OverlayAssumption, NEW c \in Clients, LayerMiss(c)
    PROVE  OverlayInv'
<1>k. PICK k \in Layers : k = at[c]
  BY DEF LayerMiss
<1>m. /\ pc' = pc /\ pc[c] = "get" /\ blk' = blk /\ at'[c] = at[c] + 1
      /\ seen' = seen /\ yielded' = yielded /\ emitted' = emitted
      /\ \A d \in Clients : d # c => at'[d] = at[d] /\ failed'[d] = failed[d]
      /\ \A d \in Clients : d # c => Locals(d)' = Locals(d)
  BY DEF LayerMiss, Advance, Note, Locals, OverlayInv, TypeOK
<1>t. at[c] \in Layers /\ blk[c] \in Blocks /\ at[c] \in Nat /\ at[c] <= Len(Role)
      /\ at[c] + 1 \in 1 .. Len(Role) + 1 /\ seen[c] \subseteq Blocks
  BY LayerFacts DEF LayerMiss, OverlayInv, TypeOK
<1>f. /\ failed' \in [Clients -> BOOLEAN]
      /\ ~failed'[c] => ~failed[c] /\ copy[at[c]][blk[c]] = "none"
  BY DEF LayerMiss, Note, OverlayInv, TypeOK
<1>s. /\ \/ stats' = [stats EXCEPT ![k].misses = @ + 1]
         \/ stats' = [stats EXCEPT ![k].errors = @ + 1]
      /\ stats \in [Layers -> [hits : Nat, misses : Nat, errors : Nat]]
  BY <1>k DEF LayerMiss, Count, OverlayInv, TypeOK
<1>c. /\ stats' \in [Layers -> [hits : Nat, misses : Nat, errors : Nat]]
      /\ stats'[k].hits = stats[k].hits
      /\ \/ stats'[k].misses = stats[k].misses + 1 /\ stats'[k].errors = stats[k].errors
         \/ stats'[k].misses = stats[k].misses /\ stats'[k].errors = stats[k].errors + 1
      /\ \A l \in Layers : l # k => stats'[l] = stats[l]
  <2>1. CASE stats' = [stats EXCEPT ![k].misses = @ + 1]
    BY <1>s, <2>1
  <2>2. CASE stats' = [stats EXCEPT ![k].errors = @ + 1]
    BY <1>s, <2>2
  <2> QED BY <1>s, <2>1, <2>2
<1>1. TypeOK'
  <2>1. at' \in [Clients -> 1 .. Len(Role) + 1]
    BY <1>t DEF LayerMiss, Advance, OverlayInv, TypeOK
  <2> QED BY <1>c, <1>f, <2>1 DEF LayerMiss, OverlayInv, TypeOK, Settled
<1>2. Kept /\ Stored' = Stored /\ LayersInv' /\ Replicated'
  BY NothingWritten DEF LayerMiss
<1>3. /\ CountInv' /\ \A l \in Layers : Arrived(l + 1)' >= Arrived(l + 1)
      /\ Arrived(k + 1)' > 0
  <2>1. /\ pc[c] = "get" /\ at[c] = k /\ pc'[c] = "get" /\ at'[c] = k + 1 /\ UNCHANGED gets
        /\ \A d \in Clients : d # c => pc'[d] = pc[d] /\ at'[d] = at[d]
    BY <1>m, <1>k DEF LayerMiss
  <2>2. TypeOK /\ CountInv
    BY DEF OverlayInv
  <2> QED BY <1>c, <2>1, <2>2, CountAnswer
<1>4. ClientInv(c)'
  <2>1. PutInv(c)'
    BY <1>m DEF PutInv
  <2>2. GetInv(c)'
    <3>1. ASSUME ~failed'[c], blk[c] \in seen[c] PROVE Ahead(c, blk[c])'
      <4>1. Ahead(c, blk[c])
        BY <1>f, <1>m, <3>1 DEF OverlayInv, ClientInv, GetInv
      <4>2. PICK l \in Durable : l >= at[c] /\ copy[l][blk[c]] = "good"
        BY <4>1 DEF Ahead
      <4>3. l # at[c]
        BY <1>f, <3>1, <4>2
      <4>4. l >= at'[c]
        BY <1>m, <1>t, <4>2, <4>3, LayerFacts
      <4> QED BY <4>2, <4>4 DEF Ahead, LayerMiss
    <3> QED BY <1>m, <1>2, <3>1 DEF OverlayInv, ClientInv, GetInv
  <2>3. ListInv(c)'
    BY <1>m, <1>2 DEF OverlayInv, ClientInv, ListInv
  <2>4. Passed(c)'
    <3>1. ASSUME NEW l \in Layers, l < at'[c] PROVE Arrived(l + 1)' > 0
      <4>1. CASE l = k
        BY <1>3, <4>1
      <4>2. CASE l # k
        <5>1. l < at[c]
          BY <1>k, <1>m, <1>t, <3>1, <4>2, LayerFacts
        <5>2. Arrived(l + 1) > 0 /\ Arrived(l + 1)' >= Arrived(l + 1)
          BY <1>3, <1>m, <5>1 DEF OverlayInv, ClientInv, Passed
        <5>3. Arrived(l + 1) \in Nat
          BY CountTypes DEF OverlayInv
        <5>4. Arrived(l + 1)' \in Nat
          <6>1. stats'[l] \in [hits : Nat, misses : Nat, errors : Nat]
            BY <1>c
          <6>2. l + 1 # 1 /\ (l + 1) - 1 = l
            BY LayerFacts
          <6> QED BY <6>1, <6>2 DEF Arrived
        <5> QED BY <5>2, <5>3, <5>4
      <4> QED BY <4>1, <4>2
    <3> QED BY <3>1 DEF Passed
  <2> QED BY <2>1, <2>2, <2>3, <2>4 DEF ClientInv
<1> QED BY <1>1, <1>2, <1>3, <1>4, <1>m, Assembled DEF LayerMiss

LEMMA GetMissedInv ==
    ASSUME OverlayInv, OverlayAssumption, NEW c \in Clients, GetMissed(c)
    PROVE  OverlayInv'
<1>m. /\ pc'[c] \in {"none", "err"} /\ pc[c] = "get" /\ blk' = blk /\ at' = at
      /\ failed' = failed /\ seen' = seen /\ yielded' = yielded /\ emitted' = emitted
      /\ \A d \in Clients : d # c => pc'[d] = pc[d]
      /\ \A d \in Clients : d # c => Locals(d)' = Locals(d)
  BY DEF GetMissed, Goto, Locals, OverlayInv, TypeOK
<1>1. TypeOK'
  <2>1. pc' \in [Clients -> Settled \cup {"put", "get", "refill", "list"}]
    BY DEF GetMissed, Goto, Settled, OverlayInv, TypeOK
  <2>2. \A d \in Clients : pc'[d] # "refill" => refill'[d] = {}
    BY <1>m DEF GetMissed, OverlayInv, TypeOK
  <2> QED BY <2>1, <2>2 DEF GetMissed, OverlayInv, TypeOK
<1>2. Kept /\ Stored' = Stored /\ LayersInv' /\ Replicated'
  BY NothingWritten DEF GetMissed
<1>3. CountInv' /\ \A l \in Layers : Arrived(l + 1)' >= Arrived(l + 1)
  BY <1>m, CountQuiet DEF GetMissed, OverlayInv
<1>4. ClientInv(c)'
  BY <1>m, <1>2 DEF OverlayInv, ClientInv, PutInv, GetInv, ListInv, Passed
<1> QED BY <1>1, <1>2, <1>3, <1>4, <1>m, Assembled DEF GetMissed

LEMMA RefillInv ==
    ASSUME OverlayInv, OverlayAssumption, NEW c \in Clients, Refill(c)
    PROVE  OverlayInv'
<1>m. /\ pc' = pc /\ pc[c] = "refill" /\ blk' = blk /\ at' = at /\ failed' = failed
      /\ seen' = seen /\ yielded' = yielded /\ emitted' = emitted
      /\ \A d \in Clients : d # c => Locals(d)' = Locals(d)
  BY DEF Refill, Locals
<1>t. blk[c] \in Blocks /\ blk[c] \in Stored /\ bytes[c] \in {"good", "bad"}
  BY <1>m DEF OverlayInv, TypeOK, ClientInv, GetInv
<1>2. PICK l \in refill[c] :
          /\ refill' = [refill EXCEPT ![c] = @ \ {l}]
          /\ Store(l, blk[c], bytes[c]) \/ UNCHANGED copy
  BY DEF Refill
<1>3. l \in Caches /\ l \in Layers
  BY <1>2, LayerFacts DEF OverlayInv, TypeOK
<1>4. /\ copy' \in [Layers -> [Blocks -> {"none", "good", "bad"}]]
      /\ Kept /\ Stored' = Stored /\ LayersInv' /\ Replicated'
  <2>1. CASE UNCHANGED copy
    BY <2>1, NothingWritten DEF Refill, OverlayInv, TypeOK
  <2>2. CASE Store(l, blk[c], bytes[c])
    <3>1. Kept /\ LayersInv' /\ Replicated'
      BY <1>t, <1>3, <2>2, SomethingWritten DEF Refill
    <3>2. copy' \in [Layers -> [Blocks -> {"none", "good", "bad"}]] /\ Stored' = Stored
      BY <1>t, <1>3, <2>2, StoreMoves DEF OverlayInv
    <3> QED BY <3>1, <3>2
  <2> QED BY <1>2, <2>1, <2>2
<1>5. TypeOK'
  <2>1. /\ refill' \in [Clients -> SUBSET Caches]
        /\ \A d \in Clients : pc'[d] # "refill" => refill'[d] = {}
    BY <1>2, <1>m DEF OverlayInv, TypeOK
  <2> QED BY <1>4, <2>1 DEF Refill, OverlayInv, TypeOK, Settled
<1>6. CountInv' /\ \A k \in Layers : Arrived(k + 1)' >= Arrived(k + 1)
  BY <1>m, CountQuiet DEF Refill, OverlayInv
<1>7. ClientInv(c)'
  BY <1>m, <1>4 DEF OverlayInv, ClientInv, PutInv, GetInv, ListInv, Passed
<1> QED BY <1>4, <1>5, <1>6, <1>7, <1>m, Assembled DEF Refill

LEMMA GetEndsInv ==
    ASSUME OverlayInv, OverlayAssumption, NEW c \in Clients, GetEnds(c)
    PROVE  OverlayInv'
<1>m. /\ pc'[c] \in {"some", "err"} /\ pc[c] = "refill" /\ blk' = blk /\ at' = at
      /\ failed' = failed /\ seen' = seen /\ yielded' = yielded /\ emitted' = emitted
      /\ \A d \in Clients : d # c => pc'[d] = pc[d]
      /\ \A d \in Clients : d # c => Locals(d)' = Locals(d)
  BY DEF GetEnds, Goto, Locals, OverlayInv, TypeOK
<1>1. TypeOK'
  <2>1. pc' \in [Clients -> Settled \cup {"put", "get", "refill", "list"}]
    BY DEF GetEnds, Goto, Settled, OverlayInv, TypeOK
  <2>2. \A d \in Clients : pc'[d] # "refill" => refill'[d] = {}
    BY <1>m DEF GetEnds, OverlayInv, TypeOK
  <2> QED BY <2>1, <2>2 DEF GetEnds, OverlayInv, TypeOK
<1>2. Kept /\ Stored' = Stored /\ LayersInv' /\ Replicated'
  BY NothingWritten DEF GetEnds
<1>3. CountInv' /\ \A l \in Layers : Arrived(l + 1)' >= Arrived(l + 1)
  BY <1>m, CountQuiet DEF GetEnds, OverlayInv
<1>4. ClientInv(c)'
  BY <1>m, <1>2 DEF OverlayInv, ClientInv, PutInv, GetInv, ListInv, Passed
<1> QED BY <1>1, <1>2, <1>3, <1>4, <1>m, Assembled DEF GetEnds

LEMMA StartListInv ==
    ASSUME OverlayInv, OverlayAssumption, NEW c \in Clients, StartList(c)
    PROVE  OverlayInv'
<1>m. /\ pc'[c] = "list" /\ pc[c] # "refill" /\ blk' = blk /\ at'[c] = 1 /\ failed'[c] = FALSE
      /\ seen'[c] = Stored /\ yielded'[c] = {} /\ emitted'[c] = 0
      /\ \A d \in Clients : d # c => Locals(d)' = Locals(d)
      /\ \A d \in Clients : d # c => pc'[d] = pc[d] /\ at'[d] = at[d]
  BY DEF StartList, Goto, Settled, Locals, OverlayInv, TypeOK
<1>1. TypeOK'
  <2>1. at' \in [Clients -> 1 .. Len(Role) + 1]
    BY LayerFacts DEF StartList, OverlayInv, TypeOK
  <2>2. pc' \in [Clients -> Settled \cup {"put", "get", "refill", "list"}]
    BY DEF StartList, Goto, OverlayInv, TypeOK
  <2>3. \A d \in Clients : pc'[d] # "refill" => refill'[d] = {}
    BY <1>m DEF StartList, OverlayInv, TypeOK
  <2>4. seen' \in [Clients -> SUBSET Blocks] /\ yielded' \in [Clients -> SUBSET Blocks]
    BY DEF StartList, Stored, OverlayInv, TypeOK
  <2> QED BY <2>1, <2>2, <2>3, <2>4 DEF StartList, OverlayInv, TypeOK
<1>2. Kept /\ Stored' = Stored /\ LayersInv' /\ Replicated'
  BY NothingWritten DEF StartList
<1>3. CountInv' /\ \A l \in Layers : Arrived(l + 1)' >= Arrived(l + 1)
  BY <1>m, CountQuiet DEF StartList, OverlayInv
<1>4. ClientInv(c)'
  <2>1. ASSUME NEW b \in Stored PROVE Ahead(c, b)'
    <3>1. PICK l \in Durable : copy[l][b] = "good"
      BY <2>1 DEF Stored
    <3>2. l >= at'[c] /\ copy'[l][b] = "good"
      BY <1>m, <3>1, LayerFacts DEF StartList
    <3> QED BY <3>2 DEF Ahead
  <2>2. ListInv(c)'
    BY <1>m, <1>2, <2>1, FS_EmptySet DEF ListInv
  <2> QED BY <1>m, <1>2, <2>2 DEF ClientInv, PutInv, GetInv, Passed
<1> QED BY <1>1, <1>2, <1>3, <1>4, <1>m, Assembled DEF StartList

LEMMA ListLayerInv ==
    ASSUME OverlayInv, OverlayAssumption, NEW c \in Clients, ListLayer(c)
    PROVE  OverlayInv'
<1> DEFINE ids == {b \in Blocks : copy[at[c]][b] # "none"}
           new == ids \ yielded[c]
<1>m. /\ pc' = pc /\ pc[c] = "list" /\ blk' = blk /\ at'[c] = at[c] + 1 /\ failed' = failed
      /\ seen' = seen /\ yielded'[c] = yielded[c] \cup ids
      /\ emitted'[c] = emitted[c] + Cardinality(new)
      /\ \A d \in Clients : d # c =>
            at'[d] = at[d] /\ yielded'[d] = yielded[d] /\ emitted'[d] = emitted[d]
  BY DEF ListLayer, Advance, OverlayInv, TypeOK
<1>l. \A d \in Clients : d # c => Locals(d)' = Locals(d)
  BY <1>m DEF Locals
<1>t. at[c] \in Layers /\ at[c] \in Nat /\ at[c] <= Len(Role) /\ seen[c] \subseteq Blocks
      /\ at[c] + 1 \in 1 .. Len(Role) + 1
  BY LayerFacts DEF ListLayer, OverlayInv, TypeOK
<1>i. ids \subseteq Stored
  BY <1>t, HitStored
<1>n. /\ IsFiniteSet(yielded[c]) /\ Cardinality(new) \in Nat /\ IsFiniteSet(new)
      /\ Cardinality(yielded[c] \cup new) = Cardinality(yielded[c]) + Cardinality(new)
  <2>1. yielded[c] \in SUBSET Blocks /\ new \in SUBSET Blocks /\ IsFiniteSet(Blocks)
    BY DEF OverlayInv, TypeOK, OverlayAssumption
  <2>2. yielded[c] \cap new = {}
    OBVIOUS
  <2> HIDE DEF new
  <2>3. IsFiniteSet(yielded[c]) /\ IsFiniteSet(new)
    BY <2>1, FS_Subset
  <2>4. Cardinality(yielded[c]) \in Nat /\ Cardinality(new) \in Nat
    BY <2>3, FS_CardinalityType
  <2>5. Cardinality(yielded[c] \cap new) = 0
    BY <2>2, FS_EmptySet
  <2>6. Cardinality(yielded[c] \cup new)
          = Cardinality(yielded[c]) + Cardinality(new) - Cardinality(yielded[c] \cap new)
    BY <2>3, FS_Union
  <2> QED BY <2>3, <2>4, <2>5, <2>6
<1>u. yielded[c] \cup ids = yielded[c] \cup new
  OBVIOUS
<1>1. TypeOK'
  <2>1. at' \in [Clients -> 1 .. Len(Role) + 1]
    BY <1>t DEF ListLayer, Advance, OverlayInv, TypeOK
  <2>2. yielded' \in [Clients -> SUBSET Blocks]
    BY DEF ListLayer, OverlayInv, TypeOK
  <2>3. emitted' \in [Clients -> Nat]
    <3>1. emitted' = [emitted EXCEPT ![c] = @ + Cardinality(new)]
      BY DEF ListLayer
    <3> HIDE DEF new
    <3> QED BY <1>n, <3>1 DEF OverlayInv, TypeOK
  <2> QED BY <2>1, <2>2, <2>3 DEF ListLayer, OverlayInv, TypeOK, Settled
<1>2. Kept /\ Stored' = Stored /\ LayersInv' /\ Replicated'
  BY NothingWritten DEF ListLayer
<1>3. CountInv' /\ \A l \in Layers : Arrived(l + 1)' >= Arrived(l + 1)
  <2>1. \A d \in Clients : pc'[d] = "get" => pc[d] = "get" /\ at'[d] = at[d]
    BY <1>m
  <2> QED BY <2>1, CountQuiet DEF ListLayer, OverlayInv
<1>4. ClientInv(c)'
  <2>1. ASSUME NEW b \in seen[c] PROVE b \in yielded'[c] \/ Ahead(c, b)'
    <3>1. b \in Blocks /\ (b \in yielded[c] \/ Ahead(c, b))
      BY <1>m, <1>t DEF OverlayInv, ClientInv, ListInv
    <3>2. CASE b \notin yielded[c] /\ b \notin ids
      <4>1. PICK l \in Durable : l >= at[c] /\ copy[l][b] = "good"
        BY <3>1, <3>2 DEF Ahead
      <4>2. l # at[c]
        BY <3>1, <3>2, <4>1
      <4>3. l >= at'[c]
        BY <1>m, <1>t, <4>1, <4>2, LayerFacts
      <4> QED BY <4>1, <4>3 DEF Ahead, ListLayer
    <3> QED BY <1>m, <3>1, <3>2
  <2>2. emitted'[c] = Cardinality(yielded'[c])
    <3>1. emitted[c] = Cardinality(yielded[c])
      BY DEF OverlayInv, ClientInv, ListInv
    <3> HIDE DEF ids, new
    <3> QED BY <1>m, <1>n, <1>u, <3>1
  <2>3. yielded'[c] \subseteq Stored'
    BY <1>i, <1>m, <1>2 DEF OverlayInv, ClientInv, ListInv
  <2>4. ListInv(c)'
    BY <1>m, <2>1, <2>2, <2>3 DEF ListInv
  <2>5. PutInv(c)' /\ GetInv(c)' /\ Passed(c)'
    BY <1>m, <1>2 DEF OverlayInv, ClientInv, PutInv, GetInv, Passed
  <2> QED BY <2>4, <2>5 DEF ClientInv
<1> QED BY <1>1, <1>2, <1>3, <1>4, <1>l, Assembled DEF ListLayer

LEMMA ListEndsInv ==
    ASSUME OverlayInv, OverlayAssumption, NEW c \in Clients, ListEnds(c)
    PROVE  OverlayInv'
<1>m. /\ pc'[c] \in {"listed", "err"} /\ pc[c] = "list" /\ blk' = blk /\ at' = at
      /\ failed' = failed /\ seen' = seen /\ yielded' = yielded /\ emitted' = emitted
      /\ pc'[c] = "listed" => at[c] \notin Layers
      /\ \A d \in Clients : d # c => pc'[d] = pc[d]
      /\ \A d \in Clients : d # c => Locals(d)' = Locals(d)
  BY DEF ListEnds, Goto, Locals, OverlayInv, TypeOK
<1>1. TypeOK'
  <2>1. pc' \in [Clients -> Settled \cup {"put", "get", "refill", "list"}]
    BY DEF ListEnds, Goto, Settled, OverlayInv, TypeOK
  <2>2. \A d \in Clients : pc'[d] # "refill" => refill'[d] = {}
    BY <1>m DEF ListEnds, OverlayInv, TypeOK
  <2> QED BY <2>1, <2>2 DEF ListEnds, OverlayInv, TypeOK
<1>2. Kept /\ Stored' = Stored /\ LayersInv' /\ Replicated'
  BY NothingWritten DEF ListEnds
<1>3. CountInv' /\ \A l \in Layers : Arrived(l + 1)' >= Arrived(l + 1)
  BY <1>m, CountQuiet DEF ListEnds, OverlayInv
<1>4. ClientInv(c)'
  <2>1. ASSUME at[c] \notin Layers PROVE seen[c] \subseteq yielded[c]
    <3>1. at[c] = Len(Role) + 1
      BY <2>1, LayerFacts DEF OverlayInv, TypeOK
    <3>2. \A b : ~Ahead(c, b)
      BY <3>1, LayerFacts DEF Ahead
    <3> QED BY <1>m, <3>2 DEF OverlayInv, ClientInv, ListInv
  <2> QED BY <1>m, <1>2, <2>1 DEF OverlayInv, ClientInv, PutInv, GetInv, ListInv, Passed
<1> QED BY <1>1, <1>2, <1>3, <1>4, <1>m, Assembled DEF ListEnds

LEMMA AbandonInv ==
    ASSUME OverlayInv, OverlayAssumption, NEW c \in Clients, Abandon(c)
    PROVE  OverlayInv'
<1>m. /\ pc'[c] = "idle" /\ blk' = blk /\ seen' = seen /\ yielded' = yielded /\ emitted' = emitted
      /\ \A d \in Clients : d # c => pc'[d] = pc[d] /\ at'[d] = at[d]
      /\ \A d \in Clients : d # c => Locals(d)' = Locals(d)
  BY DEF Abandon, Goto, Locals, OverlayInv, TypeOK
<1>1. TypeOK'
  <2>1. pc' \in [Clients -> Settled \cup {"put", "get", "refill", "list"}]
    BY DEF Abandon, Goto, Settled, OverlayInv, TypeOK
  <2>2. /\ refill' \in [Clients -> SUBSET Caches]
        /\ \A d \in Clients : pc'[d] # "refill" => refill'[d] = {}
    BY <1>m DEF Abandon, OverlayInv, TypeOK
  <2>3. at' \in [Clients -> 1 .. Len(Role) + 1]
    BY LayerFacts DEF Abandon, OverlayInv, TypeOK
  <2> QED BY <2>1, <2>2, <2>3 DEF Abandon, OverlayInv, TypeOK
<1>2. Kept /\ Stored' = Stored /\ LayersInv' /\ Replicated'
  BY NothingWritten DEF Abandon
<1>3. CountInv' /\ \A l \in Layers : Arrived(l + 1)' >= Arrived(l + 1)
  BY <1>m, CountQuiet DEF Abandon, OverlayInv
<1>4. ClientInv(c)'
  BY <1>m, <1>2 DEF OverlayInv, ClientInv, PutInv, GetInv, ListInv, Passed
<1> QED BY <1>1, <1>2, <1>3, <1>4, <1>m, Assembled DEF Abandon

\* A cache drops or damages a block on its own: the stored blocks stay.
LEMMA CacheMovesInv ==
    ASSUME OverlayInv, OverlayAssumption, NEW l \in Caches, NEW b \in Blocks,
           CacheDrops(l, b) \/ CacheDamages(l, b)
    PROVE  OverlayInv' /\ Stored' = Stored /\ UNCHANGED <<attempted, acked, callVars, gets, stats>>
<1>u. UNCHANGED <<attempted, acked, callVars, gets, stats>>
  BY DEF CacheDrops, CacheDamages
<1>v. /\ pc' = pc /\ blk' = blk /\ at' = at /\ failed' = failed /\ bytes' = bytes
      /\ refill' = refill /\ seen' = seen /\ yielded' = yielded /\ emitted' = emitted
  BY <1>u DEF callVars
<1>t. l \in Layers /\ l \notin Durable
  BY LayerFacts
<1>1. PICK v \in {"none", "good", "bad"} : Store(l, b, v) /\ (v = "none" \/ b \in Stored)
  BY <1>t, HitStored DEF CacheDrops, CacheDamages
<1>2. /\ copy' \in [Layers -> [Blocks -> {"none", "good", "bad"}]]
      /\ Kept /\ Stored' = Stored
  BY <1>t, <1>1, StoreMoves DEF OverlayInv
<1>3. LayersInv' /\ Replicated'
  BY <1>t, <1>1, <1>u, SomethingWritten
<1>4. TypeOK'
  <2>1. damaged' \in 0 .. MaxDamage
    BY DEF CacheDrops, CacheDamages, OverlayInv, TypeOK, OverlayAssumption
  <2> QED BY <1>u, <1>v, <1>2, <2>1 DEF OverlayInv, TypeOK, Settled
<1>5. CountInv' /\ \A k \in Layers : Arrived(k + 1)' >= Arrived(k + 1)
  BY <1>u, <1>v, CountQuiet DEF OverlayInv
<1>6. ASSUME NEW c \in Clients PROVE ClientInv(c)'
  <2>1. Locals(c)' = Locals(c)
    BY <1>v DEF Locals
  <2>2. TypeOK /\ ClientInv(c) /\ attempted \subseteq attempted'
    BY <1>u DEF OverlayInv
  <2> QED BY <1>2, <1>4, <1>5, <2>1, <2>2, ClientKept
<1> QED BY <1>2, <1>3, <1>4, <1>5, <1>6, <1>u DEF OverlayInv

LEMMA QuietInv == ASSUME OverlayInv, UNCHANGED vars PROVE OverlayInv'
<1>v. /\ copy' = copy /\ damaged' = damaged /\ attempted' = attempted /\ acked' = acked
      /\ pc' = pc /\ blk' = blk /\ at' = at /\ failed' = failed /\ bytes' = bytes
      /\ refill' = refill /\ seen' = seen /\ yielded' = yielded /\ emitted' = emitted
      /\ gets' = gets /\ stats' = stats
  BY DEF vars, callVars
<1>1. TypeOK' /\ Replicated'
  BY <1>v DEF OverlayInv, TypeOK, Replicated
<1>2. Stored' = Stored
  BY <1>v DEF Stored
<1>3. LayersInv'
  BY <1>v, <1>2 DEF OverlayInv, LayersInv, CachesFollow
<1>4. CountInv'
  BY <1>v DEF OverlayInv, CountInv, Consulted, At, Arrived
<1>5. ASSUME NEW c \in Clients PROVE ClientInv(c)'
  <2>1. ClientInv(c)
    BY DEF OverlayInv
  <2> QED BY <1>v, <1>2, <2>1 DEF ClientInv, PutInv, GetInv, ListInv, Passed, Ahead, Arrived
<1> QED BY <1>1, <1>3, <1>4, <1>5 DEF OverlayInv

LEMMA OverlayStep == ASSUME OverlayInv, OverlayAssumption, [Next]_vars PROVE OverlayInv'
<1>1. ASSUME NEW c \in Clients, \/ \E b \in Blocks : StartPut(c, b)
                                \/ PutLayer(c) \/ PutEnds(c)
      PROVE  OverlayInv'
  BY <1>1, StartPutInv, PutLayerInv, PutEndsInv
<1>2. ASSUME NEW c \in Clients,
             \/ \E b \in Blocks : StartGet(c, b)
             \/ LayerHit(c) \/ LayerMiss(c) \/ GetMissed(c) \/ Refill(c) \/ GetEnds(c)
      PROVE  OverlayInv'
  BY <1>2, StartGetInv, LayerHitInv, LayerMissInv, GetMissedInv, RefillInv, GetEndsInv
<1>3. ASSUME NEW c \in Clients, StartList(c) \/ ListLayer(c) \/ ListEnds(c) \/ Abandon(c)
      PROVE  OverlayInv'
  BY <1>3, StartListInv, ListLayerInv, ListEndsInv, AbandonInv
<1>4. ASSUME NEW l \in Caches, NEW b \in Blocks, CacheDrops(l, b) \/ CacheDamages(l, b)
      PROVE  OverlayInv'
  BY <1>4, CacheMovesInv
<1>5. CASE UNCHANGED vars
  BY <1>5, QuietInv
<1> QED BY <1>1, <1>2, <1>3, <1>4, <1>5, ClientSets DEF Next

LEMMA OverlayInvariance == ASSUME OverlayAssumption PROVE Spec => []OverlayInv
<1>1. Init => OverlayInv
  BY InitInv
<1>2. OverlayInv /\ [Next]_vars => OverlayInv'
  BY OverlayStep
<1> QED BY <1>1, <1>2, PTL DEF Spec

-----------------------------------------------------------------------------
(* What the invariant shows.                                                *)

\* An acknowledged put stays in every writable layer, whichever writes failed
\* before, whoever else writes, drops or dies.
THEOREM AcknowledgedReplicated == ASSUME OverlayAssumption PROVE Spec => []Replicated
<1>1. OverlayInv => Replicated
  BY DEF OverlayInv
<1> QED BY <1>1, OverlayInvariance, PTL

\* However refills, drops and abandoned gets interleave, a cache layer never
\* has a block that no durable layer has.
THEOREM CachesHoldStored == ASSUME OverlayAssumption PROVE Spec => []CachesFollow
<1>1. OverlayInv => CachesFollow
  BY DEF OverlayInv, LayersInv
<1> QED BY <1>1, OverlayInvariance, PTL

\* Concurrent gets never make a layer count more lookups than came to it.
THEOREM CountersConsistent == ASSUME OverlayAssumption PROVE Spec => []StatsConsistent
<1>1. ASSUME OverlayInv PROVE StatsConsistent
  <2>1. TypeOK
    BY <1>1 DEF OverlayInv
  <2>2. ASSUME NEW l \in Layers PROVE Consulted(l) <= Arrived(l)
    <3>1. Consulted(l) + Cardinality(At(l)) <= Arrived(l)
      BY <1>1 DEF OverlayInv, CountInv
    <3>2. Consulted(l) \in Nat /\ Arrived(l) \in Nat /\ Cardinality(At(l)) \in Nat
      BY <2>1, CountTypes, AtFinite
    <3> QED BY <3>1, <3>2
  <2>3. Consulted(1) <= gets
    BY <2>2, LayerFacts DEF Arrived
  <2>4. \A l \in Layers \ {1} : Consulted(l) <= stats[l - 1].misses + stats[l - 1].errors
    BY <2>2 DEF Arrived
  <2>5. ASSUME NEW c \in Readers, pc[c] = "get", at[c] > 1, NEW l \in 1 .. at[c] - 1
        PROVE  stats[l].misses + stats[l].errors > 0
    <3>1. c \in Clients /\ at[c] \in 1 .. Len(Role) + 1
      BY <2>1, ClientSets DEF TypeOK
    <3>2. l \in Layers /\ l < at[c]
      BY <2>5, <3>1, LayerFacts DEF Layers
    <3>3. Arrived(l + 1) > 0
      BY <1>1, <2>5, <3>1, <3>2 DEF OverlayInv, ClientInv, Passed
    <3> QED BY <2>1, <3>2, <3>3, CountTypes
  <2> QED BY <2>3, <2>4, <2>5 DEF StatsConsistent
<1> QED BY <1>1, OverlayInvariance, PTL

\* An enumeration returns no id twice, although the layers change under it.
THEOREM IdsReturnedOnce == ASSUME OverlayAssumption PROVE Spec => []NoDuplicates
<1>1. OverlayInv => NoDuplicates
  BY ClientSets DEF OverlayInv, ClientInv, ListInv, NoDuplicates
<1> QED BY <1>1, OverlayInvariance, PTL

-----------------------------------------------------------------------------
(* The refinement of BlockStoreContract.                                    *)

\* The contract sees one client's operation change at a time.
LEMMA BarMoves ==
    ASSUME NEW c \in Clients,
           \A d \in Clients : d # c => pc'[d] = pc[d] /\ yielded'[d] = yielded[d]
    PROVE  /\ opBar' = [opBar EXCEPT ![c] = IF pc'[c] = "refill" THEN "get" ELSE pc'[c]]
           /\ idsBar' = [idsBar EXCEPT ![c] = IF pc'[c] = "listed" THEN yielded'[c] ELSE {}]
BY DEF opBar, idsBar

LEMMA BarValues ==
    ASSUME TypeOK, NEW c \in Clients
    PROVE  /\ pc[c] \in Settled => opBar[c] \in Contract!Replies
           /\ pc[c] \notin Settled => opBar[c] \in Contract!Busy
           /\ pc[c] \in {"put", "get", "list"} => opBar[c] = pc[c]
           /\ pc[c] = "refill" => opBar[c] = "get"
           /\ pc[c] # "listed" => idsBar = [idsBar EXCEPT ![c] = {}]
<1>1. pc[c] \in Settled \cup {"put", "get", "refill", "list"}
  BY DEF TypeOK
<1> QED BY <1>1 DEF opBar, idsBar, Settled, Contract!Replies, Contract!Busy

\* The steps that no caller of the overlay can see.
LEMMA HiddenStep ==
    ASSUME OverlayInv, OverlayAssumption, NEW c \in Clients,
           LayerHit(c) \/ LayerMiss(c) \/ Refill(c) \/ ListLayer(c)
    PROVE  UNCHANGED <<Stored, attempted, opBar, blk, seen, idsBar>>
<1>t. TypeOK
  BY DEF OverlayInv
<1>1. UNCHANGED <<attempted, blk, seen>>
  BY DEF LayerHit, LayerMiss, Refill, ListLayer
<1>2. Stored' = Stored
  <2>1. CASE Refill(c)
    <3>1. PICK l \in refill[c] : Store(l, blk[c], bytes[c]) \/ UNCHANGED copy
      BY <2>1 DEF Refill
    <3>2. l \in Caches /\ l \in Layers /\ blk[c] \in Blocks /\ bytes[c] \in {"good", "bad"}
      BY <1>t, <3>1, LayerFacts DEF TypeOK
    <3> QED BY <1>t, <3>1, <3>2, StoreMoves, CopyFixed
  <2>2. CASE LayerHit(c) \/ LayerMiss(c) \/ ListLayer(c)
    BY <2>2, CopyFixed DEF LayerHit, LayerMiss, ListLayer
  <2> QED BY <2>1, <2>2
<1>3. /\ \A d \in Clients : d # c => pc'[d] = pc[d] /\ yielded'[d] = yielded[d]
      /\ \/ pc[c] = "get" /\ pc'[c] \in {"get", "refill"}
         \/ pc[c] = "refill" /\ pc'[c] = "refill"
         \/ pc[c] = "list" /\ pc'[c] = "list"
  BY <1>t DEF LayerHit, LayerMiss, Refill, ListLayer, Goto, TypeOK
<1>4. opBar' = opBar /\ idsBar' = idsBar
  BY <1>3 DEF opBar, idsBar
<1> QED BY <1>1, <1>2, <1>4

\* Every step of the overlay is a step the contract allows, or none.
LEMMA OverlayContractStep ==
    ASSUME OverlayInv, OverlayAssumption, [Next]_vars
    PROVE  [Contract!Next]_(Contract!vars)
<1>t. TypeOK
  BY DEF OverlayInv
<1> SUFFICES Contract!Next \/ UNCHANGED <<Stored, attempted, opBar, blk, seen, idsBar>>
  BY DEF Contract!vars
<1>1. ASSUME NEW c \in Clients, NEW b \in Blocks, StartPut(c, b) PROVE Contract!Next
  <2>1. /\ blk' = [blk EXCEPT ![c] = b] /\ attempted' = attempted \cup {b}
        /\ seen' = [seen EXCEPT ![c] = {}] /\ pc[c] \in Settled /\ pc'[c] = "put"
        /\ \A d \in Clients : d # c => pc'[d] = pc[d] /\ yielded'[d] = yielded[d]
    BY <1>1, <1>t DEF StartPut, Goto, TypeOK
  <2>2. opBar' = [opBar EXCEPT ![c] = "put"] /\ idsBar' = [idsBar EXCEPT ![c] = {}]
    BY <2>1, BarMoves
  <2>3. Stored' = Stored /\ opBar[c] \in Contract!Replies
    BY <1>1, <1>t, <2>1, CopyFixed, BarValues DEF StartPut
  <2>4. Contract!BeginPut(c, b)
    BY <2>1, <2>2, <2>3 DEF Contract!BeginPut
  <2> QED BY <2>4 DEF Contract!Next
<1>2. ASSUME NEW c \in Clients, PutLayer(c)
      PROVE  Contract!Next \/ UNCHANGED <<Stored, attempted, opBar, blk, seen, idsBar>>
  <2>1. UNCHANGED <<attempted, opBar, blk, seen, idsBar>>
    BY <1>2 DEF PutLayer, opBar, idsBar
  <2>2. blk[c] \in Blocks /\ blk[c] \in attempted /\ at[c] \in Layers
    BY <1>2, <1>t DEF PutLayer, TypeOK, OverlayInv, ClientInv, PutInv
  <2>3. CASE UNCHANGED copy
    BY <2>1, <2>3, CopyFixed
  <2>4. CASE AcceptsDirectWrites(at[c]) /\ Store(at[c], blk[c], "good")
    <3>1. Stored' = Stored \cup {blk[c]}
      BY <1>t, <2>2, <2>4, LayerFacts, StoreMoves
    <3>2. Contract!Publish(blk[c])
      BY <2>1, <2>2, <3>1 DEF Contract!Publish
    <3> QED BY <2>2, <3>2 DEF Contract!Next
  <2> QED BY <1>2, <2>3, <2>4 DEF PutLayer
<1>3. ASSUME NEW c \in Clients, PutEnds(c) PROVE Contract!Next
  <2>1. /\ UNCHANGED <<copy, attempted, blk, seen>> /\ pc[c] = "put"
        /\ \A d \in Clients : d # c => pc'[d] = pc[d] /\ yielded'[d] = yielded[d]
        /\ \/ pc'[c] = "err"
           \/ pc'[c] = "ok" /\ ~failed[c] /\ \E l \in Layers : AcceptsDirectWrites(l)
    BY <1>3, <1>t DEF PutEnds, Goto, TypeOK
  <2>2. /\ opBar[c] = "put" /\ opBar' = [opBar EXCEPT ![c] = pc'[c]]
        /\ idsBar' = idsBar /\ Stored' = Stored
    BY <1>t, <2>1, BarMoves, BarValues, CopyFixed
  <2>3. CASE pc'[c] = "err"
    <3>1. Contract!PutErr(c)
      BY <2>1, <2>2, <2>3 DEF Contract!PutErr, Contract!Reply
    <3> QED BY <3>1 DEF Contract!Next
  <2>4. CASE pc'[c] = "ok"
    <3>1. PICK l \in Layers : AcceptsDirectWrites(l) /\ ~failed[c]
      BY <2>1, <2>4
    <3>2. at[c] = Len(Role) + 1 /\ l < at[c] /\ l \in Durable /\ blk[c] \in Blocks
      BY <1>3, <1>t, <3>1, LayerFacts DEF PutEnds, TypeOK
    <3>3. copy[l][blk[c]] = "good"
      BY <2>1, <3>1, <3>2 DEF OverlayInv, ClientInv, PutInv
    <3>4. Stored' = Stored \cup {blk[c]}
      BY <2>2, <3>2, <3>3 DEF Stored
    <3>5. Contract!PutOk(c)
      BY <2>1, <2>2, <2>4, <3>4 DEF Contract!PutOk, Contract!Reply
    <3> QED BY <3>5 DEF Contract!Next
  <2> QED BY <2>1, <2>3, <2>4
<1>4. ASSUME NEW c \in Clients, NEW b \in Blocks, StartGet(c, b) PROVE Contract!Next
  <2>1. /\ blk' = [blk EXCEPT ![c] = b] /\ UNCHANGED <<copy, attempted>>
        /\ seen' = [seen EXCEPT ![c] = Stored] /\ pc[c] \in Settled /\ pc'[c] = "get"
        /\ \A d \in Clients : d # c => pc'[d] = pc[d] /\ yielded'[d] = yielded[d]
    BY <1>4, <1>t DEF StartGet, Goto, TypeOK
  <2>2. opBar' = [opBar EXCEPT ![c] = "get"] /\ idsBar' = [idsBar EXCEPT ![c] = {}]
    BY <2>1, BarMoves
  <2>3. Stored' = Stored /\ opBar[c] \in Contract!Replies
    BY <1>t, <2>1, CopyFixed, BarValues
  <2>4. Contract!BeginRead(c, b, "get")
    BY <2>1, <2>2, <2>3 DEF Contract!BeginRead
  <2> QED BY <2>4 DEF Contract!Next
<1>5. ASSUME NEW c \in Clients, GetMissed(c) PROVE Contract!Next
  <2>1. /\ UNCHANGED <<copy, attempted, blk, seen>> /\ pc[c] = "get"
        /\ \A d \in Clients : d # c => pc'[d] = pc[d] /\ yielded'[d] = yielded[d]
        /\ pc'[c] = "err" \/ (pc'[c] = "none" /\ ~failed[c])
    BY <1>5, <1>t DEF GetMissed, Goto, TypeOK
  <2>2. /\ opBar[c] = "get" /\ opBar' = [opBar EXCEPT ![c] = pc'[c]]
        /\ idsBar' = idsBar /\ Stored' = Stored
    BY <1>t, <2>1, BarMoves, BarValues, CopyFixed
  <2>3. CASE pc'[c] = "err"
    <3>1. Contract!ReadErr(c)
      BY <2>1, <2>2, <2>3 DEF Contract!ReadErr, Contract!Reply
    <3> QED BY <3>1 DEF Contract!Next
  <2>4. CASE pc'[c] = "none" /\ ~failed[c]
    <3>1. at[c] = Len(Role) + 1
      BY <1>5, <1>t, LayerFacts DEF GetMissed, TypeOK
    <3>2. ~Ahead(c, blk[c])
      BY <3>1, LayerFacts DEF Ahead
    <3>3. blk[c] \notin seen[c]
      BY <2>1, <2>4, <3>2 DEF OverlayInv, ClientInv, GetInv
    <3>4. Contract!GetNone(c)
      BY <2>1, <2>2, <2>4, <3>3 DEF Contract!GetNone, Contract!Reply
    <3> QED BY <3>4 DEF Contract!Next
  <2> QED BY <2>1, <2>3, <2>4
<1>6. ASSUME NEW c \in Clients, GetEnds(c) PROVE Contract!Next
  <2>1. /\ UNCHANGED <<copy, attempted, blk, seen>> /\ pc[c] = "refill"
        /\ \A d \in Clients : d # c => pc'[d] = pc[d] /\ yielded'[d] = yielded[d]
        /\ pc'[c] \in {"some", "err"}
    BY <1>6, <1>t DEF GetEnds, Goto, TypeOK
  <2>2. /\ opBar[c] = "get" /\ opBar' = [opBar EXCEPT ![c] = pc'[c]]
        /\ idsBar' = idsBar /\ Stored' = Stored
    BY <1>t, <2>1, BarMoves, BarValues, CopyFixed
  <2>3. CASE pc'[c] = "err"
    <3>1. Contract!ReadErr(c)
      BY <2>1, <2>2, <2>3 DEF Contract!ReadErr, Contract!Reply
    <3> QED BY <3>1 DEF Contract!Next
  <2>4. CASE pc'[c] = "some"
    <3>1. blk[c] \in Stored
      BY <2>1 DEF OverlayInv, ClientInv, GetInv
    <3>2. Contract!GetSome(c)
      BY <2>1, <2>2, <2>4, <3>1 DEF Contract!GetSome, Contract!Reply
    <3> QED BY <3>2 DEF Contract!Next
  <2> QED BY <2>1, <2>3, <2>4
<1>7. ASSUME NEW c \in Clients, StartList(c) PROVE Contract!Next
  <2>1. /\ UNCHANGED <<copy, attempted, blk>> /\ blk[c] \in Blocks
        /\ blk' = [blk EXCEPT ![c] = blk[c]]
        /\ seen' = [seen EXCEPT ![c] = Stored] /\ pc[c] \in Settled /\ pc'[c] = "list"
        /\ \A d \in Clients : d # c => pc'[d] = pc[d] /\ yielded'[d] = yielded[d]
    BY <1>7, <1>t DEF StartList, Goto, TypeOK
  <2>2. opBar' = [opBar EXCEPT ![c] = "list"] /\ idsBar' = [idsBar EXCEPT ![c] = {}]
    BY <2>1, BarMoves
  <2>3. Stored' = Stored /\ opBar[c] \in Contract!Replies
    BY <1>t, <2>1, CopyFixed, BarValues
  <2>4. Contract!BeginRead(c, blk[c], "list")
    BY <2>1, <2>2, <2>3 DEF Contract!BeginRead
  <2> QED BY <2>1, <2>4 DEF Contract!Next
<1>8. ASSUME NEW c \in Clients, ListEnds(c) PROVE Contract!Next
  <2>1. /\ UNCHANGED <<copy, attempted, blk, seen, yielded>> /\ pc[c] = "list"
        /\ \A d \in Clients : d # c => pc'[d] = pc[d]
        /\ pc'[c] \in {"listed", "err"}
    BY <1>8, <1>t DEF ListEnds, Goto, TypeOK
  <2>2. /\ opBar[c] = "list" /\ opBar' = [opBar EXCEPT ![c] = pc'[c]] /\ Stored' = Stored
        /\ idsBar' = [idsBar EXCEPT ![c] = IF pc'[c] = "listed" THEN yielded[c] ELSE {}]
    BY <1>t, <2>1, BarMoves, BarValues, CopyFixed
  <2>3. CASE pc'[c] = "err"
    <3>1. idsBar' = idsBar
      BY <1>t, <2>1, <2>2, <2>3, BarValues
    <3>2. Contract!ReadErr(c)
      BY <2>1, <2>2, <2>3, <3>1 DEF Contract!ReadErr, Contract!Reply
    <3> QED BY <3>2 DEF Contract!Next
  <2>4. CASE pc'[c] = "listed"
    <3>1. OverlayInv'
      BY <1>8, ListEndsInv
    <3>2. seen[c] \subseteq yielded[c] /\ yielded[c] \subseteq Stored
      BY <2>1, <2>2, <2>4, <3>1 DEF OverlayInv, ClientInv, ListInv
    <3>3. Contract!Listed(c, yielded[c]) /\ yielded[c] \in SUBSET Blocks
      BY <1>t, <2>1, <2>2, <2>4, <3>2 DEF Contract!Listed, Contract!Reply, TypeOK
    <3> QED BY <3>3 DEF Contract!Next
  <2> QED BY <2>1, <2>3, <2>4
<1>9. ASSUME NEW c \in Clients, Abandon(c) PROVE Contract!Next
  <2>1. /\ UNCHANGED <<copy, attempted, blk, seen>> /\ pc[c] \notin Settled
        /\ \A d \in Clients : d # c => pc'[d] = pc[d] /\ yielded'[d] = yielded[d]
        /\ pc'[c] = "idle" /\ pc[c] # "listed"
    BY <1>9, <1>t DEF Abandon, Goto, TypeOK, Settled
  <2>2. /\ opBar[c] \in Contract!Busy /\ opBar' = [opBar EXCEPT ![c] = "idle"]
        /\ idsBar' = idsBar /\ Stored' = Stored
    BY <1>t, <2>1, BarMoves, BarValues, CopyFixed
  <2>3. Contract!Abandon(c)
    BY <2>1, <2>2 DEF Contract!Abandon, Contract!Reply
  <2> QED BY <2>3 DEF Contract!Next
<1>10. ASSUME NEW l \in Caches, NEW b \in Blocks, CacheDrops(l, b) \/ CacheDamages(l, b)
       PROVE  UNCHANGED <<Stored, attempted, opBar, blk, seen, idsBar>>
  BY <1>10, CacheMovesInv DEF callVars, opBar, idsBar
<1>11. CASE UNCHANGED vars
  BY <1>11 DEF vars, callVars, Stored, opBar, idsBar
<1> QED BY <1>1, <1>2, <1>3, <1>4, <1>5, <1>6, <1>7, <1>8, <1>9, <1>10, <1>11,
           HiddenStep, ClientSets DEF Next

\* The overlay implements the BlockStore contract over its durable layers,
\* however caches drop and damage blocks and calls race and are abandoned.
THEOREM OverlayImplementsContract == ASSUME OverlayAssumption PROVE Spec => ContractSpec
<1>1. Init => Contract!Init
  <2>1. Stored \in SUBSET Blocks
    BY DEF Stored
  <2>2. Init => opBar = [c \in Clients |-> "idle"] /\ idsBar = [c \in Clients |-> {}]
    BY DEF Init, opBar, idsBar
  <2> QED BY <2>1, <2>2 DEF Init, Contract!Init
<1>2. OverlayInv /\ [Next]_vars => [Contract!Next]_(Contract!vars)
  BY OverlayContractStep
<1> QED BY <1>1, <1>2, OverlayInvariance, PTL DEF Spec, ContractSpec, Contract!Spec

-----------------------------------------------------------------------------
(* The filesystem store, over the same callers and blocks: published bytes    *)
(* are never replaced, enumerations are complete, and the store implements    *)
(* the BlockStore contract.                                                   *)

CONSTANTS Shards, ShardOf, MaxOrphans
VARIABLES dirs, file, staging, orphans, walkDirs, walkFiles

F == INSTANCE FsStore

-----------------------------------------------------------------------------
(* Steps of one client leave the others alone.                              *)

\* One client changes its phase.
LEMMA GotoMoves ==
    ASSUME F!TypeOK, NEW c \in F!Clients, NEW phase \in F!Settled \cup F!Running, F!Goto(c, phase)
    PROVE  /\ pc' \in [F!Clients -> F!Settled \cup F!Running]
           /\ pc'[c] = phase
           /\ \A d \in F!Clients : d # c => pc'[d] = pc[d]
BY DEF F!TypeOK, F!Goto

\* An iterator that is dropped leaves nothing behind.
LEMMA DropMoves ==
    ASSUME F!TypeOK, NEW c \in F!Clients, F!DropWalk(c)
    PROVE  /\ walkDirs' \in [F!Clients -> SUBSET Shards]
           /\ walkFiles' \in [F!Clients -> SUBSET F!Names]
           /\ yielded' \in [F!Clients -> SUBSET Blocks]
           /\ yielded'[c] = {}
           /\ \A d \in F!Clients : d # c => /\ walkDirs'[d] = walkDirs[d]
                                          /\ walkFiles'[d] = walkFiles[d]
                                          /\ yielded'[d] = yielded[d]
BY DEF F!TypeOK, F!DropWalk

\* What a directory lists, and which of its names are blocks.
LEMMA EntryFacts ==
    ASSUME F!TypeOK, F!FsStoreAssumption
    PROVE  /\ \A s \in Shards : F!Entries(s) \subseteq F!Names
           /\ \A b \in Blocks : file[b] # "none" =>
                 F!BlockFile(b) \in F!Entries(ShardOf[b]) /\ F!BlockFile(b) \in F!AllEntries
           /\ \A e \in F!AllEntries : e[1] = "block" => e[2] \in Blocks /\ file[e[2]] # "none"
<1>1. ASSUME NEW s \in Shards PROVE F!Entries(s) \subseteq F!Names
  BY <1>1 DEF F!Entries, F!Names, F!TypeOK, F!Clients
<1>2. ASSUME NEW b \in Blocks, file[b] # "none"
      PROVE  F!BlockFile(b) \in F!Entries(ShardOf[b]) /\ F!BlockFile(b) \in F!AllEntries
  <2>1. F!BlockFile(b) \in F!Entries(ShardOf[b])
    BY <1>2 DEF F!Entries
  <2>2. ShardOf[b] \in Shards
    BY DEF F!FsStoreAssumption
  <2> QED BY <2>1, <2>2 DEF F!AllEntries
<1>3. ASSUME NEW e \in F!AllEntries, e[1] = "block"
      PROVE  e[2] \in Blocks /\ file[e[2]] # "none"
  <2>1. PICK s \in Shards : e \in F!Entries(s)
    BY DEF F!AllEntries
  <2>2. \A w : e # F!StageFile(w)
    BY <1>3 DEF F!StageFile
  <2>3. \A t : e # F!Orphan(t)
    BY <1>3 DEF F!Orphan
  <2>4. PICK b \in Blocks : file[b] # "none" /\ e = F!BlockFile(b)
    BY <2>1, <2>2, <2>3 DEF F!Entries
  <2> QED BY <2>4 DEF F!BlockFile
<1> QED BY <1>1, <1>2, <1>3

\* A step that leaves the disk's files alone leaves the stored blocks alone.
LEMMA StoredFixed == ASSUME UNCHANGED file PROVE F!Stored' = F!Stored
BY DEF F!Stored

-----------------------------------------------------------------------------
(* The inductive invariant.                                                 *)

\* The walks of the clients that a step does not touch.
WalkOf(c) ==
    /\ seen[c] \subseteq F!Stored
    /\ \A b \in yielded[c] : file[b] # "none"
    /\ F!Ahead(c)

\* Files only come, so a client whose walk does not move keeps its promise.
LEMMA WalkKept ==
    ASSUME F!TypeOK, NEW c \in F!Clients, WalkOf(c),
           \A b \in Blocks : file[b] # "none" => file'[b] = file[b],
           pc'[c] = pc[c] \/ pc'[c] \notin {"list", "listed"},
           seen'[c] = seen[c] \/ seen'[c] = {},
           yielded'[c] = yielded[c] \/ yielded'[c] = {},
           pc'[c] \in {"list", "listed"} =>
               /\ seen'[c] = seen[c] /\ yielded'[c] = yielded[c]
               /\ walkDirs'[c] = walkDirs[c] /\ walkFiles'[c] = walkFiles[c]
    PROVE  WalkOf(c)'
<1>1. F!Stored \subseteq F!Stored'
  BY DEF F!Stored
<1>2. seen'[c] \subseteq F!Stored'
  BY <1>1 DEF WalkOf
<1>3. \A b \in yielded'[c] : file'[b] # "none"
  BY DEF WalkOf, F!TypeOK
<1>4. F!Ahead(c)'
  BY DEF WalkOf, F!Ahead
<1> QED BY <1>2, <1>3, <1>4 DEF WalkOf

\* The steps that write: put, and the death of any client.
LEMMA PutKeeps ==
    ASSUME F!FsInv, F!FsStoreAssumption, NEW c \in F!Clients,
           (\E b \in Blocks : F!StartPut(c, b)) \/ F!PutStep(c) \/ F!Die(c)
    PROVE  F!FsInv' /\ \A b \in Blocks : file[b] # "none" => file'[b] = file[b]
<1> SUFFICES ASSUME TRUE
             PROVE  /\ F!TypeOK' /\ F!DirsInv'
                    /\ \A b \in Blocks : file[b] # "none" => file'[b] = file[b]
                    /\ \A d \in F!Clients :
                          /\ pc'[d] = pc[d] \/ pc'[d] \notin {"list", "listed"}
                          /\ seen'[d] = seen[d] \/ seen'[d] = {}
                          /\ yielded'[d] = yielded[d] \/ yielded'[d] = {}
                          /\ pc'[d] \in {"list", "listed"} =>
                                /\ seen'[d] = seen[d] /\ yielded'[d] = yielded[d]
                                /\ walkDirs'[d] = walkDirs[d] /\ walkFiles'[d] = walkFiles[d]
  <2>1. \A d \in F!Clients : WalkOf(d)
    BY DEF F!FsInv, F!WalkInv, WalkOf
  <2>2. \A d \in F!Clients : WalkOf(d)'
    BY <2>1, WalkKept DEF F!FsInv
  <2> QED BY <2>2 DEF F!FsInv, F!WalkInv, WalkOf
<1>i. F!TypeOK /\ F!DirsInv
  BY DEF F!FsInv
<1>1. CASE \E b \in Blocks : F!StartPut(c, b)
  <2>1. PICK b \in Blocks : F!StartPut(c, b)
    BY <1>1
  <2>2. /\ blk' = [blk EXCEPT ![c] = b] /\ attempted' = attempted \cup {b}
        /\ seen' = [seen EXCEPT ![c] = {}] /\ pc[c] \in F!Settled
        /\ UNCHANGED <<dirs, file, staging, orphans>>
        /\ F!Goto(c, "mkdir") /\ F!DropWalk(c)
    BY <2>1 DEF F!StartPut, F!diskVars
  <2>3. "mkdir" \in F!Settled \cup F!Running
    BY DEF F!Running, F!Putting
  <2>4. /\ pc' \in [F!Clients -> F!Settled \cup F!Running] /\ pc'[c] = "mkdir"
        /\ \A d \in F!Clients : d # c => pc'[d] = pc[d]
    BY <1>i, <2>2, <2>3, GotoMoves
  <2>5. /\ walkDirs' \in [F!Clients -> SUBSET Shards]
        /\ walkFiles' \in [F!Clients -> SUBSET F!Names]
        /\ yielded' \in [F!Clients -> SUBSET Blocks]
        /\ yielded'[c] = {}
        /\ \A d \in F!Clients : d # c => /\ walkDirs'[d] = walkDirs[d]
                                       /\ walkFiles'[d] = walkFiles[d]
                                       /\ yielded'[d] = yielded[d]
    BY <1>i, <2>2, DropMoves
  <2>6. F!TypeOK'
    BY <1>i, <2>2, <2>4, <2>5 DEF F!TypeOK, F!Settled
  <2>7. F!DirsInv'
    BY <1>i, <2>2, <2>4 DEF F!DirsInv, F!TypeOK
  <2> QED BY <1>i, <2>2, <2>4, <2>5, <2>6, <2>7 DEF F!TypeOK
<1>2. CASE F!PutStep(c)
  <2>1. /\ UNCHANGED <<attempted, blk, seen, walkDirs, walkFiles, yielded, orphans>>
        /\ pc[c] \in F!Putting
    BY <1>2 DEF F!PutStep, F!CreateDir, F!CreateStaged, F!WriteStaged, F!Persist, F!Inspect, F!walkVars, F!diskVars, F!Putting
  <2>2. \E phase \in F!Putting \cup {"ok", "err"} : F!Goto(c, phase)
    BY <1>2 DEF F!PutStep, F!CreateDir, F!CreateStaged, F!WriteStaged, F!Persist, F!Inspect, F!Putting
  <2>3. /\ pc' \in [F!Clients -> F!Settled \cup F!Running]
        /\ pc'[c] \in F!Putting \cup {"ok", "err"}
        /\ \A d \in F!Clients : d # c => pc'[d] = pc[d]
    BY <1>i, <2>2, GotoMoves DEF F!Running, F!Settled
  <2>4. blk[c] \in Blocks /\ ShardOf[blk[c]] \in Shards
    BY <1>i DEF F!TypeOK, F!FsStoreAssumption
  <2>5. CASE F!CreateDir(c)
    <3>1. /\ pc[c] = "mkdir" /\ UNCHANGED <<file, staging>>
          /\ \/ dirs' = dirs \cup {ShardOf[blk[c]]} /\ pc'[c] = "stage"
             \/ dirs' = dirs /\ pc'[c] = "err"
      BY <1>i, <2>5 DEF F!CreateDir, F!Goto, F!TypeOK
    <3>2. F!TypeOK'
      BY <1>i, <2>1, <2>3, <2>4, <3>1 DEF F!TypeOK
    <3>3. F!DirsInv'
      BY <1>i, <2>1, <2>3, <3>1 DEF F!DirsInv
    <3> QED BY <2>1, <2>3, <3>1, <3>2, <3>3 DEF F!Putting
  <2>6. CASE F!CreateStaged(c)
    <3>1. /\ pc[c] = "stage" /\ UNCHANGED <<file, dirs>>
          /\ \/ staging' = staging \cup {c} /\ pc'[c] = "write"
             \/ staging' = staging /\ pc'[c] = "err"
      BY <1>i, <2>6 DEF F!CreateStaged, F!Goto, F!TypeOK
    <3>2. F!TypeOK'
      BY <1>i, <2>1, <2>3, <2>4, <3>1 DEF F!TypeOK
    <3>3. F!DirsInv'
      BY <1>i, <2>1, <2>3, <3>1 DEF F!DirsInv
    <3> QED BY <2>1, <2>3, <3>1, <3>2, <3>3 DEF F!Putting
  <2>7. CASE F!WriteStaged(c)
    <3>1. /\ pc[c] = "write" /\ UNCHANGED <<file, dirs>>
          /\ \/ staging' = staging /\ pc'[c] = "persist"
             \/ staging' = staging \ {c} /\ pc'[c] = "err"
      BY <1>i, <2>7 DEF F!WriteStaged, F!Goto, F!TypeOK
    <3>2. F!TypeOK'
      BY <1>i, <2>1, <2>3, <2>4, <3>1 DEF F!TypeOK
    <3>3. F!DirsInv'
      BY <1>i, <2>1, <2>3, <3>1 DEF F!DirsInv
    <3> QED BY <2>1, <2>3, <3>1, <3>2, <3>3 DEF F!Putting
  <2>8. CASE F!Persist(c)
    <3>1. /\ pc[c] = "persist" /\ UNCHANGED dirs /\ staging' = staging \ {c}
          /\ \/ /\ file[blk[c]] = "none" /\ file' = [file EXCEPT ![blk[c]] = "good"]
                /\ pc'[c] = "ok"
             \/ UNCHANGED file /\ pc'[c] = "inspect"
      BY <1>i, <2>8 DEF F!Persist, F!Goto, F!TypeOK
    <3>2. F!TypeOK'
      BY <1>i, <2>1, <2>3, <2>4, <3>1 DEF F!TypeOK, F!Content
    <3>3. F!DirsInv'
      BY <1>i, <2>1, <2>3, <2>4, <3>1 DEF F!DirsInv, F!TypeOK
    <3>4. \A b \in Blocks : file[b] # "none" => file'[b] = file[b]
      BY <1>i, <3>1 DEF F!TypeOK
    <3> QED BY <2>1, <2>3, <3>2, <3>3, <3>4 DEF F!Putting
  <2>9. CASE F!Inspect(c)
    <3>1. /\ pc[c] = "inspect" /\ UNCHANGED <<dirs, staging, file>> /\ pc'[c] \in {"ok", "err"}
      BY <1>i, <2>9 DEF F!Inspect, F!Goto, F!TypeOK, F!diskVars
    <3>2. F!TypeOK'
      BY <1>i, <2>1, <2>3, <2>4, <3>1 DEF F!TypeOK
    <3>3. F!DirsInv'
      BY <1>i, <2>1, <2>3, <3>1 DEF F!DirsInv
    <3> QED BY <2>1, <2>3, <3>1, <3>2, <3>3 DEF F!Putting
  <2> QED BY <1>2, <2>5, <2>6, <2>7, <2>8, <2>9 DEF F!PutStep
<1>3. CASE F!Die(c)
  <2>1. /\ UNCHANGED <<dirs, file, attempted, blk, seen>>
        /\ F!Goto(c, "idle") /\ F!DropWalk(c)
    BY <1>3 DEF F!Die
  <2>2. /\ pc' \in [F!Clients -> F!Settled \cup F!Running] /\ pc'[c] = "idle"
        /\ \A d \in F!Clients : d # c => pc'[d] = pc[d]
    BY <1>i, <2>1, GotoMoves DEF F!Settled
  <2>3. /\ walkDirs' \in [F!Clients -> SUBSET Shards]
        /\ walkFiles' \in [F!Clients -> SUBSET F!Names]
        /\ yielded' \in [F!Clients -> SUBSET Blocks]
        /\ yielded'[c] = {}
        /\ \A d \in F!Clients : d # c => /\ walkDirs'[d] = walkDirs[d]
                                       /\ walkFiles'[d] = walkFiles[d]
                                       /\ yielded'[d] = yielded[d]
    BY <1>i, <2>1, DropMoves
  <2>4. staging' = staging \ {c} /\ orphans' \in [Shards -> 0 .. MaxOrphans]
    <3>1. CASE c \in staging
      <4>1. ShardOf[blk[c]] \in Shards /\ MaxOrphans \in Nat
        BY <1>i DEF F!TypeOK, F!FsStoreAssumption
      <4>2. /\ staging' = staging \ {c} /\ orphans[ShardOf[blk[c]]] < MaxOrphans
            /\ orphans' = [orphans EXCEPT ![ShardOf[blk[c]]] = @ + 1]
        BY <1>3, <3>1 DEF F!Die
      <4>3. orphans[ShardOf[blk[c]]] + 1 \in 0 .. MaxOrphans
        BY <1>i, <4>1, <4>2 DEF F!TypeOK
      <4> QED BY <1>i, <4>2, <4>3 DEF F!TypeOK
    <3>2. CASE c \notin staging
      BY <1>i, <1>3, <3>2 DEF F!Die, F!TypeOK
    <3> QED BY <3>1, <3>2
  <2>5. F!TypeOK'
    BY <1>i, <2>1, <2>2, <2>3, <2>4 DEF F!TypeOK
  <2>6. F!DirsInv'
    BY <1>i, <2>1, <2>2 DEF F!DirsInv
  <2> QED BY <2>1, <2>2, <2>3, <2>5, <2>6
<1> QED BY <1>1, <1>2, <1>3

\* An iterator dropped with an error.
LEMMA WalkDropped ==
    ASSUME F!TypeOK, F!DirsInv, \A d \in F!Clients : WalkOf(d), NEW c \in F!Clients,
           UNCHANGED <<dirs, file, staging, orphans, attempted, blk, seen>>,
           F!Stored' = F!Stored, pc[c] = "list", F!DropWalk(c),
           pc' \in [F!Clients -> F!Settled \cup F!Running], pc'[c] = "err",
           \A d \in F!Clients : d # c => pc'[d] = pc[d]
    PROVE  F!TypeOK' /\ F!DirsInv' /\ \A d \in F!Clients : WalkOf(d)'
<1>1. /\ walkDirs' \in [F!Clients -> SUBSET Shards]
      /\ walkFiles' \in [F!Clients -> SUBSET F!Names]
      /\ yielded' \in [F!Clients -> SUBSET Blocks]
      /\ yielded'[c] = {}
      /\ \A d \in F!Clients : d # c => /\ walkDirs'[d] = walkDirs[d]
                                     /\ walkFiles'[d] = walkFiles[d]
                                     /\ yielded'[d] = yielded[d]
  BY DropMoves
<1>2. F!TypeOK'
  BY <1>1 DEF F!TypeOK
<1>3. F!DirsInv'
  BY DEF F!DirsInv
<1>4. ASSUME NEW d \in F!Clients PROVE WalkOf(d)'
  BY <1>1, <1>4 DEF WalkOf, F!Ahead
<1> QED BY <1>2, <1>3, <1>4

\* The steps that read: get and the enumeration.
LEMMA ReadKeeps ==
    ASSUME F!FsInv, F!FsStoreAssumption, NEW c \in F!Clients,
           \/ (\E b \in Blocks : F!StartGet(c, b)) \/ F!Read(c)
           \/ F!StartList(c) \/ F!ListStep(c)
    PROVE  F!FsInv' /\ UNCHANGED <<dirs, file, staging, orphans, attempted>>
<1>i. F!TypeOK /\ F!DirsInv /\ \A d \in F!Clients : WalkOf(d)
  BY DEF F!FsInv, F!WalkInv, WalkOf
<1>f. UNCHANGED <<dirs, file, staging, orphans, attempted>>
  BY DEF F!StartGet, F!Read, F!StartList, F!ListStep, F!ListDir, F!Visit, F!ListFailed, F!ListEnds, F!diskVars
<1>s. F!Stored' = F!Stored
  BY <1>f, StoredFixed
<1> SUFFICES ASSUME TRUE PROVE F!TypeOK' /\ F!DirsInv' /\ \A d \in F!Clients : WalkOf(d)'
  BY <1>f DEF F!FsInv, F!WalkInv, WalkOf
<1>1. CASE \E b \in Blocks : F!StartGet(c, b)
  <2>1. PICK b \in Blocks : F!StartGet(c, b)
    BY <1>1
  <2>2. /\ blk' = [blk EXCEPT ![c] = b] /\ seen' = [seen EXCEPT ![c] = F!Stored]
        /\ pc[c] \in F!Settled /\ F!Goto(c, "read") /\ F!DropWalk(c)
    BY <2>1 DEF F!StartGet
  <2>3. /\ pc' \in [F!Clients -> F!Settled \cup F!Running] /\ pc'[c] = "read"
        /\ \A d \in F!Clients : d # c => pc'[d] = pc[d]
    BY <1>i, <2>2, GotoMoves DEF F!Running
  <2>4. /\ walkDirs' \in [F!Clients -> SUBSET Shards]
        /\ walkFiles' \in [F!Clients -> SUBSET F!Names]
        /\ yielded' \in [F!Clients -> SUBSET Blocks]
        /\ yielded'[c] = {}
        /\ \A d \in F!Clients : d # c => /\ walkDirs'[d] = walkDirs[d]
                                       /\ walkFiles'[d] = walkFiles[d]
                                       /\ yielded'[d] = yielded[d]
    BY <1>i, <2>2, DropMoves
  <2>5. seen' \in [F!Clients -> SUBSET Blocks] /\ seen'[c] = F!Stored
        /\ \A d \in F!Clients : d # c => seen'[d] = seen[d]
    BY <1>i, <2>2 DEF F!TypeOK, F!Stored
  <2>6. F!TypeOK'
    BY <1>i, <1>f, <2>2, <2>3, <2>4, <2>5 DEF F!TypeOK, F!Settled
  <2>7. F!DirsInv'
    BY <1>i, <1>f, <2>2, <2>3 DEF F!DirsInv, F!TypeOK
  <2>8. WalkOf(c)'
    BY <1>s, <2>3, <2>4, <2>5 DEF WalkOf, F!Ahead
  <2>9. ASSUME NEW d \in F!Clients, d # c PROVE WalkOf(d)'
    BY <1>i, <1>f, <1>s, <2>3, <2>4, <2>5, <2>9 DEF WalkOf, F!Ahead
  <2> QED BY <2>6, <2>7, <2>8, <2>9
<1>2. CASE F!Read(c)
  <2>1. /\ pc[c] = "read" /\ UNCHANGED <<blk, seen, walkDirs, walkFiles, yielded>>
        /\ \E phase \in {"none", "some", "err"} : F!Goto(c, phase)
    BY <1>2 DEF F!Read, F!walkVars
  <2>2. /\ pc' \in [F!Clients -> F!Settled \cup F!Running] /\ pc'[c] \in {"none", "some", "err"}
        /\ \A d \in F!Clients : d # c => pc'[d] = pc[d]
    BY <1>i, <2>1, GotoMoves DEF F!Settled
  <2>3. F!TypeOK'
    BY <1>i, <1>f, <2>1, <2>2 DEF F!TypeOK
  <2>4. F!DirsInv'
    BY <1>i, <1>f, <2>1, <2>2 DEF F!DirsInv
  <2>5. ASSUME NEW d \in F!Clients PROVE WalkOf(d)'
    BY <1>i, <1>f, <1>s, <2>1, <2>2, <2>5 DEF WalkOf, F!Ahead
  <2> QED BY <2>3, <2>4, <2>5
<1>3. CASE F!StartList(c)
  <2>1. /\ pc[c] \in F!Settled /\ seen' = [seen EXCEPT ![c] = F!Stored]
        /\ walkDirs' = [walkDirs EXCEPT ![c] = dirs]
        /\ walkFiles' = [walkFiles EXCEPT ![c] = {}]
        /\ yielded' = [yielded EXCEPT ![c] = {}]
        /\ F!Goto(c, "list") /\ UNCHANGED blk
    BY <1>3 DEF F!StartList
  <2>2. /\ pc' \in [F!Clients -> F!Settled \cup F!Running] /\ pc'[c] = "list"
        /\ \A d \in F!Clients : d # c => pc'[d] = pc[d]
    BY <1>i, <2>1, GotoMoves DEF F!Running
  <2>3. /\ seen' \in [F!Clients -> SUBSET Blocks] /\ seen'[c] = F!Stored
        /\ walkDirs' \in [F!Clients -> SUBSET Shards] /\ walkDirs'[c] = dirs
        /\ walkFiles' \in [F!Clients -> SUBSET F!Names] /\ walkFiles'[c] = {}
        /\ yielded' \in [F!Clients -> SUBSET Blocks] /\ yielded'[c] = {}
        /\ \A d \in F!Clients : d # c =>
              /\ seen'[d] = seen[d] /\ walkDirs'[d] = walkDirs[d]
              /\ walkFiles'[d] = walkFiles[d] /\ yielded'[d] = yielded[d]
    BY <1>i, <2>1 DEF F!TypeOK, F!Stored
  <2>4. F!TypeOK'
    BY <1>i, <1>f, <2>1, <2>2, <2>3 DEF F!TypeOK, F!Settled
  <2>5. F!DirsInv'
    BY <1>i, <1>f, <2>1, <2>2 DEF F!DirsInv
  <2>6. \A b \in F!Stored : ShardOf[b] \in dirs
    BY <1>i DEF F!DirsInv, F!Stored
  <2>7. WalkOf(c)'
    BY <1>s, <2>2, <2>3, <2>6 DEF WalkOf, F!Ahead
  <2>8. ASSUME NEW d \in F!Clients, d # c PROVE WalkOf(d)'
    BY <1>i, <1>f, <1>s, <2>2, <2>3, <2>8 DEF WalkOf, F!Ahead
  <2> QED BY <2>4, <2>5, <2>7, <2>8
<1>4. CASE F!ListDir(c)
  <2>1. PICK s \in walkDirs[c] : /\ walkDirs' = [walkDirs EXCEPT ![c] = @ \ {s}]
                                 /\ walkFiles' = [walkFiles EXCEPT ![c] = F!Entries(s)]
    BY <1>4 DEF F!ListDir
  <2>2. pc[c] = "list" /\ walkFiles[c] = {} /\ UNCHANGED <<pc, blk, seen, yielded>>
    BY <1>4 DEF F!ListDir
  <2>3. s \in Shards /\ F!Entries(s) \subseteq F!Names
    BY <1>i, EntryFacts DEF F!TypeOK
  <2>4. /\ walkDirs' \in [F!Clients -> SUBSET Shards] /\ walkDirs'[c] = walkDirs[c] \ {s}
        /\ walkFiles' \in [F!Clients -> SUBSET F!Names] /\ walkFiles'[c] = F!Entries(s)
        /\ \A d \in F!Clients : d # c => walkDirs'[d] = walkDirs[d] /\ walkFiles'[d] = walkFiles[d]
    BY <1>i, <2>1, <2>3 DEF F!TypeOK
  <2>5. F!TypeOK'
    BY <1>i, <1>f, <2>2, <2>4 DEF F!TypeOK
  <2>6. F!DirsInv'
    BY <1>i, <1>f, <2>2 DEF F!DirsInv
  <2>7. \A b \in seen[c] : ShardOf[b] = s => F!BlockFile(b) \in F!Entries(s)
    BY <1>i, EntryFacts DEF WalkOf, F!Stored
  <2>8. WalkOf(c)'
    BY <1>i, <1>f, <1>s, <2>2, <2>4, <2>7 DEF WalkOf, F!Ahead
  <2>9. ASSUME NEW d \in F!Clients, d # c PROVE WalkOf(d)'
    BY <1>i, <1>f, <1>s, <2>2, <2>4, <2>9 DEF WalkOf, F!Ahead
  <2> QED BY <2>5, <2>6, <2>8, <2>9
<1>5. CASE F!Visit(c)
  <2>1. pc[c] = "list" /\ UNCHANGED <<blk, seen>>
    BY <1>5 DEF F!Visit
  <2>2. PICK e \in walkFiles[c] :
          IF e \in F!AllEntries
          THEN /\ walkFiles' = [walkFiles EXCEPT ![c] = @ \ {e}]
               /\ yielded' = [yielded EXCEPT ![c] = IF e[1] = "block" THEN @ \cup {e[2]} ELSE @]
               /\ UNCHANGED <<pc, walkDirs>>
          ELSE F!Goto(c, "err") /\ F!DropWalk(c)
    BY <1>5 DEF F!Visit
  <2>3. CASE e \in F!AllEntries
    <3>1. e[1] = "block" => e[2] \in Blocks /\ file[e[2]] # "none"
      BY <1>i, <2>3, EntryFacts
    <3>2. /\ walkFiles' \in [F!Clients -> SUBSET F!Names] /\ walkFiles'[c] = walkFiles[c] \ {e}
          /\ yielded' \in [F!Clients -> SUBSET Blocks]
          /\ yielded'[c] = IF e[1] = "block" THEN yielded[c] \cup {e[2]} ELSE yielded[c]
          /\ \A d \in F!Clients : d # c => walkFiles'[d] = walkFiles[d] /\ yielded'[d] = yielded[d]
          /\ UNCHANGED <<pc, walkDirs>>
      BY <1>i, <2>2, <2>3, <3>1 DEF F!TypeOK
    <3>3. F!TypeOK'
      BY <1>i, <1>f, <2>1, <3>2 DEF F!TypeOK
    <3>4. F!DirsInv'
      BY <1>i, <1>f, <2>1, <3>2 DEF F!DirsInv
    <3>5. \A b \in Blocks : F!BlockFile(b) = e => e[1] = "block" /\ e[2] = b
      BY DEF F!BlockFile
    <3>6. F!Ahead(c)'
      <4>1. SUFFICES ASSUME NEW b \in seen[c]
                     PROVE  \/ b \in yielded'[c]
                            \/ F!BlockFile(b) \in walkFiles'[c] \/ ShardOf[b] \in walkDirs'[c]
        BY <2>1, <3>2 DEF F!Ahead
      <4>2. b \in Blocks
        BY <1>i DEF F!TypeOK
      <4>3. b \in yielded[c] \/ F!BlockFile(b) \in walkFiles[c] \/ ShardOf[b] \in walkDirs[c]
        BY <1>i, <2>1 DEF WalkOf, F!Ahead
      <4>4. CASE F!BlockFile(b) = e
        BY <3>2, <3>5, <4>2, <4>4
      <4> QED BY <3>2, <4>3, <4>4
    <3>7. WalkOf(c)'
      BY <1>i, <1>f, <1>s, <2>1, <3>1, <3>2, <3>6 DEF WalkOf
    <3>8. ASSUME NEW d \in F!Clients, d # c PROVE WalkOf(d)'
      BY <1>i, <1>f, <1>s, <2>1, <3>2, <3>8 DEF WalkOf, F!Ahead
    <3> QED BY <3>3, <3>4, <3>7, <3>8
  <2>4. CASE e \notin F!AllEntries
    <3>1. F!Goto(c, "err") /\ F!DropWalk(c)
      BY <2>2, <2>4
    <3>2. /\ pc' \in [F!Clients -> F!Settled \cup F!Running] /\ pc'[c] = "err"
          /\ \A d \in F!Clients : d # c => pc'[d] = pc[d]
      BY <1>i, <3>1, GotoMoves DEF F!Settled
    <3> QED BY <1>i, <1>f, <1>s, <2>1, <3>1, <3>2, WalkDropped
  <2> QED BY <2>3, <2>4
<1>6. CASE F!ListFailed(c)
  <2>1. pc[c] = "list" /\ UNCHANGED <<blk, seen>> /\ F!Goto(c, "err") /\ F!DropWalk(c)
    BY <1>6 DEF F!ListFailed
  <2>2. /\ pc' \in [F!Clients -> F!Settled \cup F!Running] /\ pc'[c] = "err"
        /\ \A d \in F!Clients : d # c => pc'[d] = pc[d]
    BY <1>i, <2>1, GotoMoves DEF F!Settled
  <2> QED BY <1>i, <1>f, <1>s, <2>1, <2>2, WalkDropped
<1>7. CASE F!ListEnds(c)
  <2>1. /\ pc[c] = "list" /\ walkDirs[c] = {} /\ walkFiles[c] = {} /\ F!Goto(c, "listed")
        /\ UNCHANGED <<blk, seen, walkDirs, walkFiles, yielded>>
    BY <1>7 DEF F!ListEnds, F!walkVars
  <2>2. /\ pc' \in [F!Clients -> F!Settled \cup F!Running] /\ pc'[c] = "listed"
        /\ \A d \in F!Clients : d # c => pc'[d] = pc[d]
    BY <1>i, <2>1, GotoMoves DEF F!Settled
  <2>3. F!TypeOK'
    BY <1>i, <1>f, <2>1, <2>2 DEF F!TypeOK
  <2>4. F!DirsInv'
    BY <1>i, <1>f, <2>1, <2>2 DEF F!DirsInv
  <2>5. ASSUME NEW d \in F!Clients PROVE WalkOf(d)'
    BY <1>i, <1>f, <1>s, <2>1, <2>2, <2>5 DEF WalkOf, F!Ahead
  <2> QED BY <2>3, <2>4, <2>5
<1> QED BY <1>1, <1>2, <1>3, <1>4, <1>5, <1>6, <1>7 DEF F!ListStep

LEMMA FsStep ==
    ASSUME F!FsInv, F!FsStoreAssumption, [F!Next]_(F!vars)
    PROVE  F!FsInv' /\ \A b \in Blocks : file[b] # "none" => file'[b] = file[b]
<1>1. CASE UNCHANGED F!vars
  BY <1>1 DEF F!vars, F!FsInv, F!TypeOK, F!DirsInv, F!WalkInv, F!Ahead, F!Stored
<1>2. ASSUME NEW c \in F!Clients,
             (\E b \in Blocks : F!StartPut(c, b)) \/ F!PutStep(c) \/ F!Die(c)
      PROVE  F!FsInv' /\ \A b \in Blocks : file[b] # "none" => file'[b] = file[b]
  BY <1>2, PutKeeps
<1>3. ASSUME NEW c \in F!Clients,
             \/ (\E b \in Blocks : F!StartGet(c, b)) \/ F!Read(c)
             \/ F!StartList(c) \/ F!ListStep(c)
      PROVE  F!FsInv' /\ \A b \in Blocks : file[b] # "none" => file'[b] = file[b]
  BY <1>3, ReadKeeps
<1>4. Writers \subseteq F!Clients /\ Readers \subseteq F!Clients /\ Listers \subseteq F!Clients
  BY DEF F!Clients
<1> QED BY <1>1, <1>2, <1>3, <1>4 DEF F!Next

LEMMA FsInvariance == ASSUME F!FsStoreAssumption PROVE F!Spec => []F!FsInv
<1>1. F!Init => F!FsInv
  <2> SUFFICES ASSUME F!Init PROVE F!FsInv
    OBVIOUS
  <2>1. F!Stored = {}
    BY DEF F!Init, F!Stored
  <2>2. (CHOOSE b \in Blocks : TRUE) \in Blocks
    BY DEF F!FsStoreAssumption
  <2>3. \A b \in Blocks : ShardOf[b] \in Shards
    BY DEF F!FsStoreAssumption
  <2>4. MaxOrphans \in Nat
    BY DEF F!FsStoreAssumption
  <2>5. F!TypeOK
    BY <2>2, <2>3, <2>4 DEF F!Init, F!TypeOK, F!Content, F!Settled
  <2>6. F!DirsInv
    BY DEF F!Init, F!DirsInv
  <2>7. F!WalkInv
    BY <2>1 DEF F!Init, F!WalkInv, F!Ahead
  <2> QED BY <2>5, <2>6, <2>7 DEF F!FsInv
<1>2. F!FsInv /\ [F!Next]_(F!vars) => F!FsInv'
  BY FsStep
<1> QED BY <1>1, <1>2, PTL DEF F!Spec

-----------------------------------------------------------------------------

\* Published bytes are never replaced, for any number of publishers that race
\* for a path and die anywhere in publish_block_bytes.
THEOREM PublishedBytesStay == ASSUME F!FsStoreAssumption PROVE F!Spec => F!NeverOverwritten
<1>1. F!FsInv /\ [F!Next]_(F!vars) => [~F!Overwrites]_(F!vars)
  BY FsStep DEF F!Overwrites
<1> QED BY <1>1, FsInvariance, PTL DEF F!Spec, F!NeverOverwritten

\* An enumeration that runs to its end has yielded every block that was stored
\* when it began, and never a name that is no published file.
THEOREM WalksSound == ASSUME F!FsStoreAssumption PROVE F!Spec => []F!EnumerationSound
<1>1. F!FsInv => F!EnumerationSound
  BY DEF F!FsInv, F!WalkInv, F!Ahead, F!EnumerationSound, F!Clients
<1> QED BY <1>1, FsInvariance, PTL

-----------------------------------------------------------------------------
(* The refinement of BlockStoreContract.                                    *)

\* The contract sees one client's operation change at a time.
LEMMA FsBarMoves ==
    ASSUME NEW c \in F!Clients, \A d \in F!Clients : d # c => pc'[d] = pc[d]
    PROVE  F!opBar' = [F!opBar EXCEPT ![c] = F!Op(c)'] /\ F!idsBar' = F!idsBar
<1>1. \A d \in F!Clients : d # c => F!Op(d)' = F!Op(d)
  BY DEF F!Op
<1> QED BY <1>1 DEF F!opBar, F!idsBar

LEMMA FsBarValues ==
    ASSUME NEW c \in F!Clients
    PROVE  /\ pc[c] \in F!Settled => F!opBar[c] \in F!Contract!Replies
           /\ pc[c] \in F!Putting => F!opBar[c] = "put"
           /\ pc[c] = "read" => F!opBar[c] = "get"
           /\ pc[c] = "list" => F!opBar[c] = "list"
           /\ F!idsBar[c] = {} /\ F!idsBar = [F!idsBar EXCEPT ![c] = {}]
BY DEF F!opBar, F!idsBar, F!Op, F!Settled, F!Putting, F!Contract!Replies

\* Every step of the store is a step the contract allows, or none.
LEMMA FsContractStep ==
    ASSUME F!FsInv, F!FsStoreAssumption, [F!Next]_(F!vars)
    PROVE  [F!Contract!Next]_(F!Contract!vars)
<1>i. F!TypeOK /\ \A c \in F!Clients : WalkOf(c)
  BY DEF F!FsInv, F!WalkInv, WalkOf
<1> SUFFICES F!Contract!Next \/ UNCHANGED <<F!Stored, attempted, F!opBar, blk, seen, F!idsBar>>
  BY DEF F!Contract!vars
<1>1. ASSUME NEW c \in F!Clients, NEW b \in Blocks, F!StartPut(c, b) PROVE F!Contract!Next
  <2>1. /\ blk' = [blk EXCEPT ![c] = b] /\ attempted' = attempted \cup {b}
        /\ seen' = [seen EXCEPT ![c] = {}] /\ pc[c] \in F!Settled
        /\ UNCHANGED file /\ F!Goto(c, "mkdir")
    BY <1>1 DEF F!StartPut, F!diskVars
  <2>2. pc'[c] = "mkdir" /\ \A d \in F!Clients : d # c => pc'[d] = pc[d]
    BY <1>i, <2>1, GotoMoves DEF F!Running, F!Putting
  <2>3. F!Op(c)' = "put"
    BY <2>2 DEF F!Op, F!Putting
  <2>4. F!opBar' = [F!opBar EXCEPT ![c] = "put"] /\ F!idsBar' = [F!idsBar EXCEPT ![c] = {}]
    BY <2>2, <2>3, FsBarMoves, FsBarValues
  <2>5. F!Stored' = F!Stored /\ F!opBar[c] \in F!Contract!Replies
    BY <2>1, StoredFixed, FsBarValues
  <2>6. F!Contract!BeginPut(c, b)
    BY <2>1, <2>4, <2>5 DEF F!Contract!BeginPut
  <2> QED BY <2>6 DEF F!Contract!Next
<1>2. ASSUME NEW c \in F!Clients, F!PutStep(c)
      PROVE  F!Contract!Next \/ UNCHANGED <<F!Stored, attempted, F!opBar, blk, seen, F!idsBar>>
  <2>1. UNCHANGED <<attempted, blk, seen>> /\ pc[c] \in F!Putting
    BY <1>2 DEF F!PutStep, F!CreateDir, F!CreateStaged, F!WriteStaged, F!Persist, F!Inspect, F!Putting
  <2>2. /\ \A d \in F!Clients : d # c => pc'[d] = pc[d]
        /\ blk[c] \in Blocks /\ F!opBar[c] = "put"
        /\ \/ UNCHANGED file /\ pc'[c] \in F!Putting \cup {"err"}
           \/ UNCHANGED file /\ pc'[c] = "ok" /\ file[blk[c]] = "good"
           \/ file' = [file EXCEPT ![blk[c]] = "good"] /\ pc'[c] = "ok"
    BY <1>2, <1>i, <2>1, FsBarValues
       DEF F!PutStep, F!CreateDir, F!CreateStaged, F!WriteStaged, F!Persist, F!Inspect, F!Goto, F!TypeOK, F!Putting, F!diskVars
  <2>3. F!opBar' = [F!opBar EXCEPT ![c] = F!Op(c)'] /\ F!idsBar' = F!idsBar
    BY <2>2, FsBarMoves
  <2>4. CASE UNCHANGED file /\ pc'[c] \in F!Putting
    <3>1. F!Op(c)' = "put"
      BY <2>4 DEF F!Op, F!Putting
    <3>2. F!opBar' = F!opBar
      BY <2>2, <2>3, <3>1 DEF F!opBar
    <3> QED BY <2>1, <2>3, <2>4, <3>2, StoredFixed
  <2>5. CASE UNCHANGED file /\ pc'[c] = "err"
    <3>1. F!Op(c)' = "err" /\ F!Stored' = F!Stored
      BY <2>5, StoredFixed DEF F!Op, F!Putting
    <3>2. F!Contract!PutErr(c)
      BY <2>1, <2>2, <2>3, <3>1 DEF F!Contract!PutErr, F!Contract!Reply
    <3> QED BY <3>2 DEF F!Contract!Next
  <2>6. CASE /\ pc'[c] = "ok"
             /\ \/ UNCHANGED file /\ file[blk[c]] = "good"
                \/ file' = [file EXCEPT ![blk[c]] = "good"]
    <3>1. F!Op(c)' = "ok"
      BY <2>6 DEF F!Op, F!Putting
    <3>2. F!Stored' = F!Stored \cup {blk[c]}
      BY <2>2, <2>6, <1>i DEF F!Stored, F!TypeOK
    <3>3. F!Contract!PutOk(c)
      BY <2>1, <2>2, <2>3, <3>1, <3>2 DEF F!Contract!PutOk, F!Contract!Reply
    <3> QED BY <3>3 DEF F!Contract!Next
  <2> QED BY <2>2, <2>4, <2>5, <2>6
<1>3. ASSUME NEW c \in F!Clients, NEW b \in Blocks, F!StartGet(c, b) PROVE F!Contract!Next
  <2>1. /\ blk' = [blk EXCEPT ![c] = b] /\ UNCHANGED <<file, attempted>>
        /\ seen' = [seen EXCEPT ![c] = F!Stored] /\ pc[c] \in F!Settled /\ F!Goto(c, "read")
    BY <1>3 DEF F!StartGet, F!diskVars
  <2>2. pc'[c] = "read" /\ \A d \in F!Clients : d # c => pc'[d] = pc[d]
    BY <1>i, <2>1, GotoMoves DEF F!Running
  <2>3. F!Op(c)' = "get"
    BY <2>2 DEF F!Op, F!Putting
  <2>4. F!opBar' = [F!opBar EXCEPT ![c] = "get"] /\ F!idsBar' = [F!idsBar EXCEPT ![c] = {}]
    BY <2>2, <2>3, FsBarMoves, FsBarValues
  <2>5. F!Stored' = F!Stored /\ F!opBar[c] \in F!Contract!Replies
    BY <2>1, StoredFixed, FsBarValues
  <2>6. F!Contract!BeginRead(c, b, "get")
    BY <2>1, <2>4, <2>5 DEF F!Contract!BeginRead
  <2> QED BY <2>6 DEF F!Contract!Next
<1>4. ASSUME NEW c \in F!Clients, F!Read(c) PROVE F!Contract!Next
  <2>1. /\ UNCHANGED <<file, attempted, blk, seen>> /\ pc[c] = "read"
        /\ \A d \in F!Clients : d # c => pc'[d] = pc[d]
        /\ \/ pc'[c] = "none" /\ file[blk[c]] = "none"
           \/ pc'[c] = "some" /\ file[blk[c]] = "good"
           \/ pc'[c] = "err"
    BY <1>4, <1>i DEF F!Read, F!Goto, F!TypeOK, F!diskVars
  <2>2. /\ F!opBar[c] = "get" /\ F!opBar' = [F!opBar EXCEPT ![c] = F!Op(c)']
        /\ F!idsBar' = F!idsBar /\ F!Stored' = F!Stored
    BY <2>1, FsBarMoves, FsBarValues, StoredFixed
  <2>3. CASE pc'[c] = "none" /\ file[blk[c]] = "none"
    <3>1. F!Op(c)' = "none" /\ blk[c] \notin seen[c]
      BY <1>i, <2>3 DEF F!Op, F!Putting, WalkOf, F!Stored
    <3>2. F!Contract!GetNone(c)
      BY <2>1, <2>2, <3>1 DEF F!Contract!GetNone, F!Contract!Reply
    <3> QED BY <3>2 DEF F!Contract!Next
  <2>4. CASE pc'[c] = "some" /\ file[blk[c]] = "good"
    <3>1. F!Op(c)' = "some" /\ blk[c] \in F!Stored
      BY <1>i, <2>4 DEF F!Op, F!Putting, F!Stored, F!TypeOK
    <3>2. F!Contract!GetSome(c)
      BY <2>1, <2>2, <3>1 DEF F!Contract!GetSome, F!Contract!Reply
    <3> QED BY <3>2 DEF F!Contract!Next
  <2>5. CASE pc'[c] = "err"
    <3>1. F!Op(c)' = "err"
      BY <2>5 DEF F!Op, F!Putting
    <3>2. F!Contract!ReadErr(c)
      BY <2>1, <2>2, <3>1 DEF F!Contract!ReadErr, F!Contract!Reply
    <3> QED BY <3>2 DEF F!Contract!Next
  <2> QED BY <2>1, <2>3, <2>4, <2>5
<1>5. ASSUME NEW c \in F!Clients, F!StartList(c) PROVE F!Contract!Next
  <2>1. /\ UNCHANGED <<file, attempted, blk>> /\ pc[c] \in F!Settled
        /\ seen' = [seen EXCEPT ![c] = F!Stored] /\ F!Goto(c, "list")
    BY <1>5 DEF F!StartList, F!diskVars
  <2>2. /\ pc'[c] = "list" /\ \A d \in F!Clients : d # c => pc'[d] = pc[d]
        /\ blk[c] \in Blocks /\ blk' = [blk EXCEPT ![c] = blk[c]]
    BY <1>i, <2>1, GotoMoves DEF F!Running, F!TypeOK
  <2>3. F!Op(c)' = "list"
    BY <2>2 DEF F!Op, F!Putting
  <2>4. F!opBar' = [F!opBar EXCEPT ![c] = "list"] /\ F!idsBar' = [F!idsBar EXCEPT ![c] = {}]
    BY <2>2, <2>3, FsBarMoves, FsBarValues
  <2>5. F!Stored' = F!Stored /\ F!opBar[c] \in F!Contract!Replies
    BY <2>1, StoredFixed, FsBarValues
  <2>6. F!Contract!BeginRead(c, blk[c], "list")
    BY <2>1, <2>2, <2>4, <2>5 DEF F!Contract!BeginRead
  <2> QED BY <2>2, <2>6 DEF F!Contract!Next
<1>6. ASSUME NEW c \in F!Clients, F!ListStep(c)
      PROVE  F!Contract!Next \/ UNCHANGED <<F!Stored, attempted, F!opBar, blk, seen, F!idsBar>>
  <2>1. /\ UNCHANGED <<file, attempted, blk, seen>> /\ pc[c] = "list"
        /\ \A d \in F!Clients : d # c => pc'[d] = pc[d]
        /\ pc'[c] \in {"list", "err", "listed"}
    BY <1>6, <1>i DEF F!ListStep, F!ListDir, F!Visit, F!ListFailed, F!ListEnds, F!Goto, F!TypeOK, F!diskVars
  <2>2. /\ F!opBar[c] = "list" /\ F!opBar' = [F!opBar EXCEPT ![c] = F!Op(c)']
        /\ F!idsBar' = F!idsBar /\ F!Stored' = F!Stored
    BY <2>1, FsBarMoves, FsBarValues, StoredFixed
  <2>3. CASE pc'[c] = "list"
    <3>1. F!Op(c)' = "list"
      BY <2>3 DEF F!Op, F!Putting
    <3>2. F!opBar' = F!opBar
      BY <2>2, <3>1 DEF F!opBar
    <3> QED BY <2>1, <2>2, <3>2
  <2>4. CASE pc'[c] \in {"err", "listed"}
    <3>1. F!Op(c)' = "err"
      BY <2>4 DEF F!Op, F!Putting
    <3>2. F!Contract!ReadErr(c)
      BY <2>1, <2>2, <3>1 DEF F!Contract!ReadErr, F!Contract!Reply
    <3> QED BY <3>2 DEF F!Contract!Next
  <2> QED BY <2>1, <2>3, <2>4
<1>7. ASSUME NEW c \in F!Clients, F!Die(c) PROVE F!Contract!Next
  <2>1. UNCHANGED <<file, attempted, blk, seen>> /\ pc[c] \in F!Running /\ F!Goto(c, "idle")
    BY <1>7 DEF F!Die
  <2>2. pc'[c] = "idle" /\ \A d \in F!Clients : d # c => pc'[d] = pc[d]
    BY <1>i, <2>1, GotoMoves DEF F!Settled
  <2>3. F!Op(c)' = "idle" /\ F!Stored' = F!Stored
    BY <2>1, <2>2, StoredFixed DEF F!Op, F!Putting
  <2>4. /\ F!opBar' = [F!opBar EXCEPT ![c] = "idle"] /\ F!idsBar' = F!idsBar
        /\ F!opBar[c] \in F!Contract!Busy
    BY <2>1, <2>2, <2>3, FsBarMoves, FsBarValues DEF F!Running, F!Contract!Busy
  <2>5. F!Contract!Abandon(c)
    BY <2>1, <2>3, <2>4 DEF F!Contract!Abandon, F!Contract!Reply
  <2> QED BY <2>5 DEF F!Contract!Next
<1>8. CASE UNCHANGED F!vars
  BY <1>8 DEF F!vars, F!Stored, F!opBar, F!idsBar, F!Op
<1>c. Writers \subseteq F!Clients /\ Readers \subseteq F!Clients /\ Listers \subseteq F!Clients
  BY DEF F!Clients
<1> QED BY <1>c, <1>1, <1>2, <1>3, <1>4, <1>5, <1>6, <1>7, <1>8 DEF F!Next

\* The filesystem store implements the BlockStore contract whatever tasks race
\* and die: a put that returned Ok is found by every later get, and None is
\* returned only for a block that was absent when the get began.
THEOREM FsImplementsContract == ASSUME F!FsStoreAssumption PROVE F!Spec => F!ContractSpec
<1>1. F!Init => F!Contract!Init
  <2>1. F!Init => F!Stored = {}
    BY DEF F!Init, F!Stored
  <2>2. F!Init => F!opBar = [c \in F!Clients |-> "idle"] /\ F!idsBar = [c \in F!Clients |-> {}]
    BY DEF F!Init, F!opBar, F!idsBar, F!Op, F!Putting
  <2>3. (CHOOSE b \in Blocks : TRUE) \in Blocks
    BY DEF F!FsStoreAssumption
  <2> QED BY <2>1, <2>2, <2>3 DEF F!Init, F!Contract!Init
<1>2. F!FsInv /\ [F!Next]_(F!vars) => [F!Contract!Next]_(F!Contract!vars)
  BY FsContractStep
<1> QED BY <1>1, <1>2, FsInvariance, PTL DEF F!Spec, F!ContractSpec, F!Contract!Spec

-----------------------------------------------------------------------------
(* The stores of remote objects, over the same callers and blocks: lost, late *)
(* and repeated requests included, and every key order, page size and number  *)
(* of attempts.                                                               *)

CONSTANTS Order, Unrelated, Malformed, TooLarge, PageSize, MaxAttempts
VARIABLES kind, twice, objects, flying, tries, cursor, pending

O == INSTANCE ObjectStore


-----------------------------------------------------------------------------
(* What steps have in common.                                               *)

\* A reply changes the call of one client, and ends it.
LEMMA ReplyMoves ==
    ASSUME O!TypeOK, NEW c \in O!Clients, NEW r \in O!Settled, O!Replies(c, r)
    PROVE  /\ pc' \in [O!Clients -> O!Settled \cup {"put", "verify", "get", "list"}]
           /\ tries' \in [O!Clients -> Nat] /\ cursor' \in [O!Clients -> 0 .. Len(Order)]
           /\ pending' \in [O!Clients -> SUBSET (1 .. Len(Order))]
           /\ pc'[c] = r /\ pending'[c] = {} /\ cursor'[c] = 0
           /\ UNCHANGED <<blk, seen, yielded>>
           /\ \A d \in O!Clients : d # c =>
                 pc'[d] = pc[d] /\ pending'[d] = pending[d] /\ cursor'[d] = cursor[d]
<1>1. UNCHANGED <<blk, seen, yielded>>
  BY DEF O!Replies
<1>2. tries' \in [O!Clients -> Nat]
  BY DEF O!Replies, O!TypeOK
<1>3. /\ cursor' \in [O!Clients -> 0 .. Len(Order)] /\ cursor'[c] = 0
      /\ \A d \in O!Clients : d # c => cursor'[d] = cursor[d]
  <2>1. cursor' = [cursor EXCEPT ![c] = 0] /\ cursor \in [O!Clients -> 0 .. Len(Order)]
    BY DEF O!Replies, O!TypeOK
  <2>2. \A k \in 0 .. Len(Order) : 0 \in 0 .. Len(Order)
    OBVIOUS
  <2>3. cursor[c] \in 0 .. Len(Order)
    BY <2>1
  <2> QED BY <2>1, <2>2, <2>3
<1>4. /\ pending' \in [O!Clients -> SUBSET (1 .. Len(Order))] /\ pending'[c] = {}
      /\ \A d \in O!Clients : d # c => pending'[d] = pending[d]
  BY DEF O!Replies, O!TypeOK
<1>5. /\ pc' \in [O!Clients -> O!Settled \cup {"put", "verify", "get", "list"}] /\ pc'[c] = r
      /\ \A d \in O!Clients : d # c => pc'[d] = pc[d]
  BY DEF O!Replies, O!TypeOK
<1> QED BY <1>1, <1>2, <1>3, <1>4, <1>5

\* Objects are only added; calls that a step does not touch stay as they are.
LEMMA CallKept ==
    ASSUME O!TypeOK, objects \subseteq objects', attempted \subseteq attempted',
           NEW c \in O!Clients, O!CallInv(c),
           pc'[c] = pc[c], blk'[c] = blk[c], seen'[c] = seen[c], yielded'[c] = yielded[c],
           pending'[c] = pending[c], cursor'[c] = cursor[c]
    PROVE  O!CallInv(c)'
<1>1. O!Stored \subseteq O!Stored'
  BY DEF O!Stored
<1>2. \A b : O!Ahead(c, b) => O!Ahead(c, b)'
  BY DEF O!Ahead
<1> QED BY <1>1, <1>2 DEF O!CallInv

\* A call that is over, other than an enumeration that came to its end.
LEMMA CallOver ==
    ASSUME O!TypeOK, objects \subseteq objects', NEW c \in O!Clients, O!CallInv(c),
           pc'[c] \in O!Settled \ {"listed"}, pending'[c] = {},
           seen'[c] = seen[c], yielded'[c] = yielded[c]
    PROVE  O!CallInv(c)'
<1>1. O!Stored \subseteq O!Stored'
  BY DEF O!Stored
<1> QED BY <1>1 DEF O!CallInv, O!Settled

\* The contract sees one client's operation change at a time.
LEMMA ObjectBarMoves ==
    ASSUME NEW c \in O!Clients,
           \A d \in O!Clients : d # c => pc'[d] = pc[d] /\ yielded'[d] = yielded[d]
    PROVE  /\ O!opBar' = [O!opBar EXCEPT ![c] = IF pc'[c] = "verify" THEN "put" ELSE pc'[c]]
           /\ O!idsBar' = [O!idsBar EXCEPT ![c] = IF pc'[c] = "listed" THEN yielded'[c] ELSE {}]
BY DEF O!opBar, O!idsBar

LEMMA ObjectBarValues ==
    ASSUME O!TypeOK, NEW c \in O!Clients
    PROVE  /\ pc[c] \in O!Settled => O!opBar[c] \in O!Contract!Replies
           /\ pc[c] \notin O!Settled => O!opBar[c] \in O!Contract!Busy
           /\ pc[c] \in {"put", "get", "list"} => O!opBar[c] = pc[c]
           /\ pc[c] = "verify" => O!opBar[c] = "put"
           /\ pc[c] # "listed" => O!idsBar = [O!idsBar EXCEPT ![c] = {}]
<1>1. pc[c] \in O!Settled \cup {"put", "verify", "get", "list"}
  BY DEF O!TypeOK
<1> QED BY <1>1 DEF O!opBar, O!idsBar, O!Settled, O!Contract!Replies, O!Contract!Busy

\* What a step of the contract looks like, or none.
Allowed == O!Contract!Next \/ UNCHANGED <<O!Stored, attempted, O!opBar, blk, seen, O!idsBar>>

-----------------------------------------------------------------------------
(* The steps: each keeps the invariant and is one that the contract allows. *)

LEMMA ObjectInitInv == ASSUME O!ObjectAssumption, O!Init PROVE O!ObjectInv /\ O!Contract!Init
<1>1. PICK S \in SUBSET Blocks, T \in {Unrelated, Unrelated \cup Malformed} :
          /\ objects = S \cup T /\ attempted = S
          /\ twice \in IF kind = "zip" THEN {{}, S} ELSE {{}}
  BY DEF O!Init
<1>2. (CHOOSE b \in Blocks : TRUE) \in Blocks
  BY DEF O!ObjectAssumption
<1>3. Len(Order) \in Nat /\ 0 \in 0 .. Len(Order)
  BY DEF O!ObjectAssumption
<1>4. O!TypeOK
  <2>1. twice \subseteq Blocks /\ objects \subseteq Blocks \cup Unrelated \cup Malformed
    BY <1>1
  <2>2. flying \subseteq attempted /\ attempted \subseteq Blocks
    BY <1>1 DEF O!Init
  <2> QED BY <1>2, <1>3, <2>1, <2>2 DEF O!Init, O!TypeOK, O!Settled
<1>5. \A c \in O!Clients : O!CallInv(c)
  BY DEF O!Init, O!CallInv
<1>6. O!Stored = attempted /\ O!Stored \in SUBSET Blocks
  BY <1>1 DEF O!Stored, O!ObjectAssumption
<1>7. O!opBar = [c \in O!Clients |-> "idle"] /\ O!idsBar = [c \in O!Clients |-> {}]
  BY DEF O!Init, O!opBar, O!idsBar
<1>8. blk \in [O!Clients -> Blocks]
  BY <1>4 DEF O!TypeOK
<1> QED BY <1>4, <1>5, <1>6, <1>7, <1>8 DEF O!Init, O!ObjectInv, O!Contract!Init

LEMMA BeginStep ==
    ASSUME O!ObjectAssumption, O!ObjectInv, NEW c \in O!Clients, NEW b \in Blocks,
           NEW what \in {"put", "get", "list"}, O!Begin(c, b, what)
    PROVE  O!ObjectInv' /\ Allowed
<1>t. O!TypeOK /\ O!CallInv(c)
  BY DEF O!ObjectInv
<1>m. /\ pc[c] \in O!Settled /\ pc'[c] = what /\ blk'[c] = b /\ yielded'[c] = {} /\ pending'[c] = {}
      /\ seen'[c] = (IF what = "put" THEN {} ELSE O!Stored)
      /\ cursor'[c] = (IF what = "list" THEN 1 ELSE 0)
      /\ \A d \in O!Clients : d # c =>
            /\ pc'[d] = pc[d] /\ blk'[d] = blk[d] /\ yielded'[d] = yielded[d]
            /\ pending'[d] = pending[d] /\ seen'[d] = seen[d] /\ cursor'[d] = cursor[d]
      /\ objects' = objects /\ attempted \subseteq attempted'
  BY <1>t DEF O!Begin, O!TypeOK
<1>s. O!Stored' = O!Stored /\ O!Stored \subseteq Blocks
  BY <1>m DEF O!Stored
<1>l. Len(Order) \in Nat /\ 1 <= Len(Order) /\ DOMAIN Order = 1 .. Len(Order)
  <2>1. Len(Order) \in Nat /\ \E i \in 1 .. Len(Order) : Order[i] = b
    BY DEF O!ObjectAssumption
  <2> QED BY <2>1 DEF O!ObjectAssumption
<1>1. O!TypeOK'
  <2>1. cursor' \in [O!Clients -> 0 .. Len(Order)]
    <3>1. (IF what = "list" THEN 1 ELSE 0) \in 0 .. Len(Order)
      BY <1>l
    <3> QED BY <1>t, <3>1 DEF O!Begin, O!TypeOK
  <2>2. seen' \in [O!Clients -> SUBSET Blocks]
    BY <1>t, <1>s DEF O!Begin, O!TypeOK
  <2>3. pc' \in [O!Clients -> O!Settled \cup {"put", "verify", "get", "list"}]
    BY <1>t DEF O!Begin, O!TypeOK
  <2>4. flying' \subseteq attempted' /\ attempted' \subseteq Blocks
    BY <1>t DEF O!Begin, O!TypeOK
  <2> QED BY <1>t, <2>1, <2>2, <2>3, <2>4 DEF O!Begin, O!TypeOK
<1>2. O!CallInv(c)'
  <2>1. ASSUME what = "list", NEW x \in O!Stored PROVE O!Ahead(c, x)'
    <3>1. PICK i \in 1 .. Len(Order) : Order[i] = x
      BY <1>s DEF O!ObjectAssumption
    <3>2. cursor'[c] # 0 /\ cursor'[c] <= i
      BY <1>l, <1>m, <2>1
    <3> QED BY <3>1, <3>2 DEF O!Ahead
  <2>2. what = "put" => b \in attempted'
    BY DEF O!Begin
  <2> QED BY <1>m, <1>s, <2>1, <2>2 DEF O!CallInv
<1>3. ASSUME NEW d \in O!Clients, d # c PROVE O!CallInv(d)'
  BY <1>3, <1>m, <1>t, CallKept DEF O!ObjectInv
<1>4. /\ O!opBar' = [O!opBar EXCEPT ![c] = what] /\ O!idsBar' = [O!idsBar EXCEPT ![c] = {}]
      /\ O!opBar[c] \in O!Contract!Replies
  BY <1>m, <1>t, ObjectBarMoves, ObjectBarValues
<1>5. CASE what = "put"
  <2>1. O!Contract!BeginPut(c, b)
    BY <1>4, <1>5, <1>s DEF O!Begin, O!Contract!BeginPut
  <2> QED BY <1>1, <1>2, <1>3, <2>1 DEF O!ObjectInv, Allowed, O!Contract!Next
<1>6. CASE what # "put"
  <2>1. O!Contract!BeginRead(c, b, what) /\ what \in {"get", "list"}
    BY <1>4, <1>6, <1>s DEF O!Begin, O!Contract!BeginRead
  <2> QED BY <1>1, <1>2, <1>3, <2>1 DEF O!ObjectInv, Allowed, O!Contract!Next
<1> QED BY <1>5, <1>6

\* A reply, with the object that the service created for it if any.
LEMMA ReplyInv ==
    ASSUME O!ObjectInv, NEW c \in O!Clients, NEW r \in O!Settled, O!Replies(c, r),
           objects' \in {objects, objects \cup {blk[c]}},
           flying' \subseteq attempted, UNCHANGED <<kind, twice, attempted>>,
           r = "listed" => seen[c] \subseteq yielded[c]
    PROVE  /\ O!ObjectInv' /\ UNCHANGED <<blk, seen, yielded>>
           /\ O!opBar' = [O!opBar EXCEPT ![c] = r]
           /\ pc[c] # "listed" /\ r # "listed" => O!idsBar' = O!idsBar
           /\ O!idsBar' = [O!idsBar EXCEPT ![c] = IF r = "listed" THEN yielded[c] ELSE {}]
<1>t. O!TypeOK /\ O!CallInv(c)
  BY DEF O!ObjectInv
<1>m. /\ pc' \in [O!Clients -> O!Settled \cup {"put", "verify", "get", "list"}]
      /\ tries' \in [O!Clients -> Nat] /\ cursor' \in [O!Clients -> 0 .. Len(Order)]
      /\ pending' \in [O!Clients -> SUBSET (1 .. Len(Order))]
      /\ pc'[c] = r /\ pending'[c] = {} /\ cursor'[c] = 0
      /\ UNCHANGED <<blk, seen, yielded>>
      /\ \A d \in O!Clients : d # c =>
            pc'[d] = pc[d] /\ pending'[d] = pending[d] /\ cursor'[d] = cursor[d]
  BY <1>t, ReplyMoves
<1>o. objects \subseteq objects' /\ objects' \subseteq Blocks \cup Unrelated \cup Malformed
  BY <1>t DEF O!TypeOK
<1>1. O!TypeOK'
  BY <1>t, <1>m, <1>o DEF O!TypeOK
<1>2. O!CallInv(c)'
  <2>1. CASE r # "listed"
    BY <1>t, <1>m, <1>o, <2>1, CallOver
  <2>2. CASE r = "listed"
    <3>1. O!Stored \subseteq O!Stored'
      BY <1>o DEF O!Stored
    <3> QED BY <1>t, <1>m, <2>2, <3>1 DEF O!CallInv
  <2> QED BY <2>1, <2>2
<1>3. ASSUME NEW d \in O!Clients, d # c PROVE O!CallInv(d)'
  BY <1>3, <1>m, <1>o, <1>t, CallKept DEF O!ObjectInv
<1>4. /\ O!opBar' = [O!opBar EXCEPT ![c] = r]
      /\ O!idsBar' = [O!idsBar EXCEPT ![c] = IF r = "listed" THEN yielded[c] ELSE {}]
  BY <1>m, ObjectBarMoves DEF O!Settled
<1>5. pc[c] # "listed" /\ r # "listed" => O!idsBar' = O!idsBar
  BY <1>4, <1>t, ObjectBarValues
<1> QED BY <1>1, <1>2, <1>3, <1>4, <1>5, <1>m DEF O!ObjectInv

LEMMA ObjectPutStep ==
    ASSUME O!ObjectInv, NEW c \in O!Clients, O!Put(c)
    PROVE  O!ObjectInv' /\ Allowed
<1>t. O!TypeOK
  BY DEF O!ObjectInv
<1>1. /\ UNCHANGED <<kind, twice, flying, attempted>> /\ pc[c] = "put"
      /\ \/ objects' = objects \cup {blk[c]} /\ O!Replies(c, "ok")
         \/ objects' = objects /\ O!Replies(c, "err")
  BY DEF O!Put, O!BlobPut, O!SdkPut, O!TablePut, O!ArchivePut, O!Created, O!Fails
<1>b. blk[c] \in Blocks /\ flying' \subseteq attempted /\ O!opBar[c] = "put"
  BY <1>1, <1>t, ObjectBarValues DEF O!TypeOK
<1>2. CASE objects' = objects \cup {blk[c]} /\ O!Replies(c, "ok")
  <2>1. /\ O!ObjectInv' /\ UNCHANGED <<blk, seen>> /\ O!idsBar' = O!idsBar
        /\ O!opBar' = [O!opBar EXCEPT ![c] = "ok"]
    BY <1>1, <1>2, <1>b, ReplyInv DEF O!Settled
  <2>2. O!Stored' = O!Stored \cup {blk[c]}
    BY <1>2, <1>b DEF O!Stored
  <2>3. O!Contract!PutOk(c)
    BY <1>1, <1>b, <2>1, <2>2 DEF O!Contract!PutOk, O!Contract!Reply
  <2> QED BY <2>1, <2>3 DEF Allowed, O!Contract!Next
<1>3. CASE objects' = objects /\ O!Replies(c, "err")
  <2>1. /\ O!ObjectInv' /\ UNCHANGED <<blk, seen>> /\ O!idsBar' = O!idsBar
        /\ O!opBar' = [O!opBar EXCEPT ![c] = "err"]
    BY <1>1, <1>3, <1>b, ReplyInv DEF O!Settled
  <2>2. O!Stored' = O!Stored
    BY <1>3 DEF O!Stored
  <2>3. O!Contract!PutErr(c)
    BY <1>1, <1>b, <2>1, <2>2 DEF O!Contract!PutErr, O!Contract!Reply
  <2> QED BY <2>1, <2>3 DEF Allowed, O!Contract!Next
<1> QED BY <1>1, <1>2, <1>3

\* A request that was not answered: repeated, looked after, or given up.
LEMMA PutLostStep ==
    ASSUME O!ObjectAssumption, O!ObjectInv, NEW c \in O!Clients, O!PutLost(c)
    PROVE  O!ObjectInv' /\ Allowed
<1>t. O!TypeOK /\ O!CallInv(c)
  BY DEF O!ObjectInv
<1>1. /\ pc[c] = "put" /\ flying' = flying \cup {blk[c]} /\ blk[c] \in attempted
      /\ UNCHANGED <<kind, twice, objects, attempted, blk, seen, cursor, pending, yielded>>
      /\ pc'[c] \in {"put", "verify", "err"} /\ \A d \in O!Clients : d # c => pc'[d] = pc[d]
  BY <1>t DEF O!PutLost, O!Sends, O!TypeOK, O!CallInv
<1>2. O!TypeOK'
  <2>1. pc' \in [O!Clients -> O!Settled \cup {"put", "verify", "get", "list"}]
    <3>1. PICK x \in {"put", "verify", "err"} : pc' = pc \/ pc' = [pc EXCEPT ![c] = x]
      BY DEF O!PutLost
    <3> QED BY <1>t, <3>1 DEF O!TypeOK, O!Settled
  <2>2. tries' \in [O!Clients -> Nat]
    <3>1. tries' = tries \/ tries' = [tries EXCEPT ![c] = tries[c] + 1]
      BY DEF O!PutLost
    <3>2. tries \in [O!Clients -> Nat]
      BY <1>t DEF O!TypeOK
    <3> QED BY <3>1, <3>2
  <2> QED BY <1>1, <1>t, <2>1, <2>2 DEF O!TypeOK
<1>3. O!CallInv(c)'
  BY <1>1, <1>t DEF O!CallInv, O!Stored
<1>4. ASSUME NEW d \in O!Clients, d # c PROVE O!CallInv(d)'
  BY <1>4, <1>1, <1>t, CallKept DEF O!ObjectInv
<1>5. O!Stored' = O!Stored /\ O!opBar[c] = "put"
  BY <1>1, <1>t, ObjectBarValues DEF O!Stored
<1>6. /\ O!idsBar' = O!idsBar
      /\ O!opBar' = [O!opBar EXCEPT ![c] = IF pc'[c] = "err" THEN "err" ELSE "put"]
  BY <1>1, <1>t, ObjectBarMoves, ObjectBarValues
<1>7. CASE pc'[c] = "err"
  <2>1. O!Contract!PutErr(c)
    BY <1>1, <1>5, <1>6, <1>7 DEF O!Contract!PutErr, O!Contract!Reply
  <2> QED BY <1>2, <1>3, <1>4, <2>1 DEF O!ObjectInv, Allowed, O!Contract!Next
<1>8. CASE pc'[c] # "err"
  <2>1. O!opBar' = O!opBar
    BY <1>5, <1>6, <1>8 DEF O!opBar
  <2> QED BY <1>1, <1>2, <1>3, <1>4, <1>5, <1>6, <2>1 DEF O!ObjectInv, Allowed
<1> QED BY <1>7, <1>8

LEMMA VerifyStep ==
    ASSUME O!ObjectInv, NEW c \in O!Clients, O!Verify(c)
    PROVE  O!ObjectInv' /\ Allowed
<1>t. O!TypeOK
  BY DEF O!ObjectInv
<1>1. /\ UNCHANGED <<kind, twice, flying, attempted, objects>> /\ pc[c] = "verify"
      /\ \/ blk[c] \in objects /\ O!Replies(c, "ok")
         \/ O!Replies(c, "err")
  BY DEF O!Verify
<1>2. /\ blk[c] \in Blocks /\ flying' \subseteq attempted /\ O!opBar[c] = "put"
      /\ O!Stored' = O!Stored
  BY <1>1, <1>t, ObjectBarValues DEF O!TypeOK, O!Stored
<1>3. CASE blk[c] \in objects /\ O!Replies(c, "ok")
  <2>1. /\ O!ObjectInv' /\ UNCHANGED <<blk, seen>> /\ O!idsBar' = O!idsBar
        /\ O!opBar' = [O!opBar EXCEPT ![c] = "ok"]
    BY <1>1, <1>2, <1>3, ReplyInv DEF O!Settled
  <2>2. O!Stored' = O!Stored \cup {blk[c]}
    BY <1>2, <1>3 DEF O!Stored
  <2>3. O!Contract!PutOk(c)
    BY <1>1, <1>2, <2>1, <2>2 DEF O!Contract!PutOk, O!Contract!Reply
  <2> QED BY <2>1, <2>3 DEF Allowed, O!Contract!Next
<1>4. CASE O!Replies(c, "err")
  <2>1. /\ O!ObjectInv' /\ UNCHANGED <<blk, seen>> /\ O!idsBar' = O!idsBar
        /\ O!opBar' = [O!opBar EXCEPT ![c] = "err"]
    BY <1>1, <1>2, <1>4, ReplyInv DEF O!Settled
  <2>2. O!Contract!PutErr(c)
    BY <1>1, <1>2, <2>1 DEF O!Contract!PutErr, O!Contract!Reply
  <2> QED BY <2>1, <2>2 DEF Allowed, O!Contract!Next
<1> QED BY <1>1, <1>3, <1>4

LEMMA ArriveStep ==
    ASSUME O!ObjectInv, NEW b \in Blocks, O!Arrive(b)
    PROVE  O!ObjectInv' /\ Allowed
<1>t. O!TypeOK
  BY DEF O!ObjectInv
<1>1. /\ UNCHANGED <<kind, twice, attempted, pc, blk, tries, seen, cursor, pending, yielded>>
      /\ b \in attempted /\ flying' \subseteq attempted
      /\ objects' = objects \/ objects' = objects \cup {b}
  BY <1>t DEF O!Arrive, O!callVars, O!TypeOK
<1>2. O!TypeOK'
  <2>1. objects' \subseteq Blocks \cup Unrelated \cup Malformed
    BY <1>1, <1>t DEF O!TypeOK
  <2> QED BY <1>1, <1>t, <2>1 DEF O!TypeOK
<1>3. ASSUME NEW c \in O!Clients PROVE O!CallInv(c)'
  BY <1>1, <1>t, CallKept DEF O!ObjectInv
<1>4. UNCHANGED <<O!opBar, O!idsBar>>
  BY <1>1 DEF O!opBar, O!idsBar
<1>5. CASE objects' = objects
  BY <1>1, <1>2, <1>3, <1>4, <1>5 DEF O!ObjectInv, Allowed, O!Stored
<1>6. CASE objects' = objects \cup {b}
  <2>1. O!Stored' = O!Stored \cup {b}
    BY <1>6 DEF O!Stored
  <2>2. O!Contract!Publish(b)
    BY <1>1, <1>4, <2>1 DEF O!Contract!Publish
  <2> QED BY <1>2, <1>3, <2>2 DEF O!ObjectInv, Allowed, O!Contract!Next
<1> QED BY <1>1, <1>5, <1>6

LEMMA GetStep ==
    ASSUME O!ObjectInv, NEW c \in O!Clients, O!Get(c)
    PROVE  O!ObjectInv' /\ Allowed
<1>t. O!TypeOK /\ O!CallInv(c)
  BY DEF O!ObjectInv
<1>1. /\ UNCHANGED <<kind, twice, flying, attempted, objects>> /\ pc[c] = "get"
      /\ \/ blk[c] \in objects /\ O!Replies(c, "some")
         \/ blk[c] \notin objects /\ O!Replies(c, "none")
         \/ O!Replies(c, "err")
  BY DEF O!Get, O!BlobGet, O!SdkGet, O!TableGet, O!ArchiveGet, O!Found, O!Fails
<1>2. /\ blk[c] \in Blocks /\ flying' \subseteq attempted /\ O!opBar[c] = "get"
      /\ O!Stored' = O!Stored
  BY <1>1, <1>t, ObjectBarValues DEF O!TypeOK, O!Stored
<1>3. CASE blk[c] \in objects /\ O!Replies(c, "some")
  <2>1. /\ O!ObjectInv' /\ UNCHANGED <<blk, seen>> /\ O!idsBar' = O!idsBar
        /\ O!opBar' = [O!opBar EXCEPT ![c] = "some"]
    BY <1>1, <1>2, <1>3, ReplyInv DEF O!Settled
  <2>2. blk[c] \in O!Stored
    BY <1>2, <1>3 DEF O!Stored
  <2>3. O!Contract!GetSome(c)
    BY <1>1, <1>2, <2>1, <2>2 DEF O!Contract!GetSome, O!Contract!Reply
  <2> QED BY <2>1, <2>3 DEF Allowed, O!Contract!Next
<1>4. CASE blk[c] \notin objects /\ O!Replies(c, "none")
  <2>1. /\ O!ObjectInv' /\ UNCHANGED <<blk, seen>> /\ O!idsBar' = O!idsBar
        /\ O!opBar' = [O!opBar EXCEPT ![c] = "none"]
    BY <1>1, <1>2, <1>4, ReplyInv DEF O!Settled
  <2>2. blk[c] \notin seen[c]
    BY <1>4, <1>t DEF O!CallInv, O!Stored
  <2>3. O!Contract!GetNone(c)
    BY <1>1, <1>2, <2>1, <2>2 DEF O!Contract!GetNone, O!Contract!Reply
  <2> QED BY <2>1, <2>3 DEF Allowed, O!Contract!Next
<1>5. CASE O!Replies(c, "err")
  <2>1. /\ O!ObjectInv' /\ UNCHANGED <<blk, seen>> /\ O!idsBar' = O!idsBar
        /\ O!opBar' = [O!opBar EXCEPT ![c] = "err"]
    BY <1>1, <1>2, <1>5, ReplyInv DEF O!Settled
  <2>2. O!Contract!ReadErr(c)
    BY <1>1, <1>2, <2>1 DEF O!Contract!ReadErr, O!Contract!Reply
  <2> QED BY <2>1, <2>2 DEF Allowed, O!Contract!Next
<1> QED BY <1>1, <1>3, <1>4, <1>5

LEMMA CallFailsStep ==
    ASSUME O!ObjectAssumption, O!ObjectInv, NEW c \in O!Clients, O!CallFails(c)
    PROVE  O!ObjectInv' /\ Allowed
<1>t. O!TypeOK /\ O!CallInv(c)
  BY DEF O!ObjectInv
<1>1. /\ pc[c] \in {"get", "list", "verify"} /\ pc'[c] \in {pc[c], "err"}
      /\ UNCHANGED <<kind, twice, objects, flying, attempted, blk, seen, cursor, pending, yielded>>
      /\ \A d \in O!Clients : d # c => pc'[d] = pc[d]
  BY <1>t DEF O!CallFails, O!TypeOK
<1>2. O!TypeOK'
  <2>1. pc' \in [O!Clients -> O!Settled \cup {"put", "verify", "get", "list"}]
    BY <1>t DEF O!CallFails, O!TypeOK, O!Settled
  <2>2. tries' \in [O!Clients -> Nat]
    BY <1>t DEF O!CallFails, O!TypeOK
  <2> QED BY <1>1, <1>t, <2>1, <2>2 DEF O!TypeOK
<1>3. CASE pc'[c] = pc[c]
  <2>1. ASSUME NEW d \in O!Clients PROVE O!CallInv(d)'
    BY <1>1, <1>3, <1>t, CallKept DEF O!ObjectInv
  <2>2. UNCHANGED <<O!opBar, O!idsBar, O!Stored>>
    BY <1>1, <1>3 DEF O!opBar, O!idsBar, O!Stored
  <2> QED BY <1>1, <1>2, <2>1, <2>2 DEF O!ObjectInv, Allowed
<1>4. CASE pc'[c] = "err"
  <2>1. ASSUME NEW d \in O!Clients, d # c PROVE O!CallInv(d)'
    BY <1>1, <1>t, <2>1, CallKept DEF O!ObjectInv
  <2>2. O!CallInv(c)'
    BY <1>1, <1>4, <1>t DEF O!CallInv, O!Stored
  <2>3. O!Stored' = O!Stored /\ O!idsBar' = O!idsBar /\ O!opBar' = [O!opBar EXCEPT ![c] = "err"]
    BY <1>1, <1>4, <1>t, ObjectBarMoves, ObjectBarValues DEF O!Stored
  <2>4. CASE pc[c] = "verify"
    <3>1. O!Contract!PutErr(c)
      BY <1>1, <1>t, <2>3, <2>4, ObjectBarValues DEF O!Contract!PutErr, O!Contract!Reply
    <3> QED BY <1>2, <2>1, <2>2, <3>1 DEF O!ObjectInv, Allowed, O!Contract!Next
  <2>5. CASE pc[c] # "verify"
    <3>1. O!opBar[c] \in {"get", "list"}
      BY <1>1, <1>t, <2>5, ObjectBarValues
    <3>2. O!Contract!ReadErr(c)
      BY <1>1, <2>3, <3>1 DEF O!Contract!ReadErr, O!Contract!Reply
    <3> QED BY <1>2, <2>1, <2>2, <3>2 DEF O!ObjectInv, Allowed, O!Contract!Next
  <2> QED BY <2>4, <2>5
<1> QED BY <1>1, <1>3, <1>4

\* A page holds what is stored up to its marker: nothing falls between two pages.
LEMMA FetchPageStep ==
    ASSUME O!ObjectAssumption, O!ObjectInv, NEW c \in O!Clients, O!FetchPage(c)
    PROVE  O!ObjectInv' /\ Allowed
<1>t. O!TypeOK /\ O!CallInv(c) /\ Len(Order) \in Nat
  BY DEF O!ObjectInv, O!ObjectAssumption
<1>1. PICK page \in SUBSET O!Left(cursor[c]), next \in 0 .. Len(Order) :
          /\ O!IsPage(page, O!Left(cursor[c])) /\ O!IsMarker(next, O!Left(cursor[c]) \ page)
          /\ pending' = [pending EXCEPT ![c] = page]
          /\ cursor' = [cursor EXCEPT ![c] = next]
  BY DEF O!FetchPage
<1>2. /\ UNCHANGED <<kind, twice, objects, flying, attempted, pc, blk, seen, yielded>>
      /\ pc[c] = "list" /\ pending[c] = {} /\ cursor[c] # 0 /\ cursor[c] \in Nat
      /\ pending'[c] = page /\ cursor'[c] = next
      /\ \A d \in O!Clients : d # c => pending'[d] = pending[d] /\ cursor'[d] = cursor[d]
  BY <1>1, <1>t DEF O!FetchPage, O!TypeOK
<1>3. O!Left(cursor[c]) \subseteq 1 .. Len(Order)
  BY <1>2, <1>t DEF O!Left
<1>4. O!TypeOK'
  <2>1. tries' \in [O!Clients -> Nat]
    BY <1>t DEF O!FetchPage, O!TypeOK
  <2>2. pending' \in [O!Clients -> SUBSET (1 .. Len(Order))]
    BY <1>1, <1>3, <1>t DEF O!TypeOK
  <2>3. cursor' \in [O!Clients -> 0 .. Len(Order)]
    BY <1>1, <1>t DEF O!TypeOK
  <2> QED BY <1>2, <1>t, <2>1, <2>2, <2>3 DEF O!TypeOK
<1>5. O!CallInv(c)'
  <2>1. \A i \in page : Order[i] \in objects
    BY <1>1 DEF O!Left
  <2>2. ASSUME NEW b \in seen[c], b \notin yielded[c] PROVE O!Ahead(c, b)'
    <3>1. O!Ahead(c, b) /\ b \in objects
      BY <1>2, <1>t, <2>2 DEF O!CallInv, O!Stored
    <3>2. PICK i \in 1 .. Len(Order) : Order[i] = b /\ cursor[c] <= i
      BY <1>2, <3>1 DEF O!Ahead
    <3>3. i \in O!Left(cursor[c])
      BY <1>2, <1>t, <3>1, <3>2 DEF O!Left
    <3>4. CASE i \in page
      BY <1>2, <3>2, <3>4 DEF O!Ahead
    <3>5. CASE i \notin page
      <4>1. next \in O!Left(cursor[c]) /\ next <= i
        BY <1>1, <3>3, <3>5 DEF O!IsMarker
      <4>2. next # 0
        BY <1>3, <4>1
      <4> QED BY <1>2, <3>2, <4>1, <4>2 DEF O!Ahead
    <3> QED BY <3>4, <3>5
  <2> QED BY <1>2, <1>t, <2>1, <2>2 DEF O!CallInv, O!Stored
<1>6. ASSUME NEW d \in O!Clients, d # c PROVE O!CallInv(d)'
  BY <1>2, <1>6, <1>t, CallKept DEF O!ObjectInv
<1>7. UNCHANGED <<O!opBar, O!idsBar, O!Stored>>
  BY <1>2 DEF O!opBar, O!idsBar, O!Stored
<1> QED BY <1>2, <1>4, <1>5, <1>6, <1>7 DEF O!ObjectInv, Allowed

LEMMA YieldStep ==
    ASSUME O!ObjectAssumption, O!ObjectInv, NEW c \in O!Clients, O!Yield(c)
    PROVE  O!ObjectInv' /\ Allowed
<1>t. O!TypeOK /\ O!CallInv(c)
  BY DEF O!ObjectInv
<1>1. PICK i \in pending[c] :
          \/ O!Recognized(Order[i]) = "error" /\ O!Replies(c, "err")
          \/ /\ O!Recognized(Order[i]) # "error"
             /\ pending' = [pending EXCEPT ![c] = @ \ {i}]
             /\ yielded' = [yielded EXCEPT ![c] =
                                IF O!Recognized(Order[i]) = "id" THEN @ \cup {Order[i]} ELSE @]
             /\ UNCHANGED <<pc, blk, tries, seen, cursor>>
  BY DEF O!Yield
<1>2. /\ UNCHANGED <<kind, twice, objects, flying, attempted>> /\ pc[c] = "list"
      /\ O!Stored' = O!Stored /\ O!opBar[c] = "list" /\ flying' \subseteq attempted
      /\ Order[i] \in objects
  BY <1>1, <1>t, ObjectBarValues DEF O!Yield, O!Stored, O!TypeOK, O!CallInv
<1>3. CASE O!Replies(c, "err")
  <2>1. /\ O!ObjectInv' /\ UNCHANGED <<blk, seen>> /\ O!idsBar' = O!idsBar
        /\ O!opBar' = [O!opBar EXCEPT ![c] = "err"]
    BY <1>2, <1>3, ReplyInv DEF O!Settled
  <2>2. O!Contract!ReadErr(c)
    BY <1>2, <2>1 DEF O!Contract!ReadErr, O!Contract!Reply
  <2> QED BY <2>1, <2>2 DEF Allowed, O!Contract!Next
<1>4. CASE /\ O!Recognized(Order[i]) # "error"
           /\ pending' = [pending EXCEPT ![c] = @ \ {i}]
           /\ yielded' = [yielded EXCEPT ![c] =
                              IF O!Recognized(Order[i]) = "id" THEN @ \cup {Order[i]} ELSE @]
           /\ UNCHANGED <<pc, blk, tries, seen, cursor>>
  <2>1. /\ O!Recognized(Order[i]) = "id" => Order[i] \in Blocks
        /\ Order[i] \in Blocks => O!Recognized(Order[i]) = "id"
    BY <1>4, <1>t DEF O!Recognized, O!BlobName, O!SdkName, O!TableKeys, O!EntryName, O!Judged, O!TypeOK
  <2>2. /\ pending'[c] = pending[c] \ {i} /\ yielded[c] \subseteq yielded'[c]
        /\ yielded'[c] \subseteq O!Stored /\ (Order[i] \in Blocks => Order[i] \in yielded'[c])
        /\ \A d \in O!Clients : d # c => pending'[d] = pending[d] /\ yielded'[d] = yielded[d]
    BY <1>2, <1>4, <1>t, <2>1 DEF O!TypeOK, O!CallInv, O!Stored
  <2>3. O!TypeOK'
    <3>1. yielded' \in [O!Clients -> SUBSET Blocks]
      BY <1>4, <1>t, <2>1 DEF O!TypeOK
    <3>2. pending' \in [O!Clients -> SUBSET (1 .. Len(Order))]
      BY <1>4, <1>t DEF O!TypeOK
    <3> QED BY <1>2, <1>4, <1>t, <3>1, <3>2 DEF O!TypeOK
  <2>4. O!CallInv(c)'
    <3>1. ASSUME NEW b \in seen[c], b \notin yielded'[c] PROVE O!Ahead(c, b)'
      <4>1. b \in Blocks /\ O!Ahead(c, b)
        BY <1>2, <1>t, <2>2, <3>1 DEF O!CallInv, O!Stored
      <4>2. PICK j \in 1 .. Len(Order) :
                Order[j] = b /\ (j \in pending[c] \/ (cursor[c] # 0 /\ cursor[c] <= j))
        BY <4>1 DEF O!Ahead
      <4>3. j # i
        BY <2>2, <3>1, <4>1, <4>2
      <4> QED BY <1>4, <2>2, <4>2, <4>3 DEF O!Ahead
    <3> QED BY <1>2, <1>4, <1>t, <2>2, <3>1 DEF O!CallInv
  <2>5. ASSUME NEW d \in O!Clients, d # c PROVE O!CallInv(d)'
    BY <1>2, <1>4, <1>t, <2>2, <2>5, CallKept DEF O!ObjectInv
  <2>6. UNCHANGED <<O!opBar, O!idsBar>>
    BY <1>2, <1>4, <2>2 DEF O!opBar, O!idsBar
  <2> QED BY <1>2, <1>4, <2>3, <2>4, <2>5, <2>6 DEF O!ObjectInv, Allowed
<1> QED BY <1>1, <1>3, <1>4

LEMMA ListEndsStep ==
    ASSUME O!ObjectInv, NEW c \in O!Clients, O!ListEnds(c)
    PROVE  O!ObjectInv' /\ Allowed
<1>t. O!TypeOK /\ O!CallInv(c)
  BY DEF O!ObjectInv
<1>1. /\ UNCHANGED <<kind, twice, objects, flying, attempted>> /\ O!Replies(c, "listed")
      /\ pc[c] = "list" /\ pending[c] = {} /\ cursor[c] = 0
  BY DEF O!ListEnds
<1>2. /\ O!Stored' = O!Stored /\ O!opBar[c] = "list" /\ flying' \subseteq attempted
      /\ yielded[c] \subseteq O!Stored /\ yielded[c] \in SUBSET Blocks
  BY <1>1, <1>t, ObjectBarValues DEF O!Stored, O!TypeOK, O!CallInv
<1>3. seen[c] \subseteq yielded[c]
  BY <1>1, <1>t DEF O!CallInv, O!Ahead
<1>4. /\ O!ObjectInv' /\ UNCHANGED <<blk, seen>> /\ O!idsBar' = [O!idsBar EXCEPT ![c] = yielded[c]]
      /\ O!opBar' = [O!opBar EXCEPT ![c] = "listed"]
  BY <1>1, <1>2, <1>3, ReplyInv DEF O!Settled
<1>5. O!Contract!Listed(c, yielded[c])
  BY <1>1, <1>2, <1>3, <1>4 DEF O!Contract!Listed, O!Contract!Reply
<1> QED BY <1>2, <1>4, <1>5 DEF Allowed, O!Contract!Next

LEMMA AbandonStep ==
    ASSUME O!ObjectInv, NEW c \in O!Clients, O!Abandon(c)
    PROVE  O!ObjectInv' /\ Allowed
<1>t. O!TypeOK /\ O!CallInv(c)
  BY DEF O!ObjectInv
<1>1. /\ UNCHANGED <<kind, twice, objects, attempted>> /\ O!Replies(c, "idle")
      /\ pc[c] \notin O!Settled /\ pc[c] # "listed" /\ flying' \subseteq attempted
  BY <1>t DEF O!Abandon, O!Sends, O!Settled, O!TypeOK, O!CallInv
<1>2. O!Stored' = O!Stored /\ O!opBar[c] \in O!Contract!Busy
  BY <1>1, <1>t, ObjectBarValues DEF O!Stored
<1>3. /\ O!ObjectInv' /\ UNCHANGED <<blk, seen>> /\ O!idsBar' = O!idsBar
      /\ O!opBar' = [O!opBar EXCEPT ![c] = "idle"]
  BY <1>1, <1>2, ReplyInv DEF O!Settled
<1>4. O!Contract!Abandon(c)
  BY <1>1, <1>2, <1>3 DEF O!Contract!Abandon, O!Contract!Reply
<1> QED BY <1>3, <1>4 DEF Allowed, O!Contract!Next

-----------------------------------------------------------------------------

LEMMA ObjectStep ==
    ASSUME O!ObjectAssumption, O!ObjectInv, [O!Next]_(O!vars)
    PROVE  O!ObjectInv' /\ Allowed
<1>1. ASSUME NEW c \in O!Clients,
             \/ \E b \in Blocks, what \in {"put", "get", "list"} : O!Begin(c, b, what)
             \/ O!Put(c) \/ O!PutLost(c) \/ O!Verify(c) \/ O!Get(c) \/ O!CallFails(c)
             \/ O!FetchPage(c) \/ O!Yield(c) \/ O!ListEnds(c)
             \/ O!Abandon(c)
      PROVE  O!ObjectInv' /\ Allowed
  BY <1>1, BeginStep, ObjectPutStep, PutLostStep, VerifyStep, GetStep, CallFailsStep, FetchPageStep,
     YieldStep, ListEndsStep, AbandonStep
<1>2. ASSUME NEW b \in Blocks, O!Arrive(b) PROVE O!ObjectInv' /\ Allowed
  BY <1>2, ArriveStep
<1>3. CASE UNCHANGED O!vars
  <2>1. UNCHANGED <<kind, twice, objects, flying, attempted,
                    pc, blk, tries, seen, cursor, pending, yielded>>
    BY <1>3 DEF O!vars, O!callVars
  <2>2. O!TypeOK' /\ \A c \in O!Clients : O!CallInv(c)'
    BY <2>1, CallKept DEF O!ObjectInv, O!TypeOK
  <2> QED BY <2>1, <2>2 DEF O!ObjectInv, Allowed, O!Stored, O!opBar, O!idsBar
<1> QED BY <1>1, <1>2, <1>3 DEF O!Next

\* Blob, SDK, table and archive stores implement the BlockStore contract, however
\* many callers race, requests are lost, repeated or late, and pages alternate
\* with inserts: what was acknowledged is found, and None and the end of an
\* enumeration are honest answers.
THEOREM ObjectsImplementContract == ASSUME O!ObjectAssumption PROVE O!Spec => O!ContractSpec
<1>1. O!Init => O!ObjectInv /\ O!Contract!Init
  BY ObjectInitInv
<1>2. O!ObjectInv /\ [O!Next]_(O!vars) => O!ObjectInv'
  BY ObjectStep
<1>3. O!ObjectInv /\ [O!Next]_(O!vars) => [O!Contract!Next]_(O!Contract!vars)
  BY ObjectStep DEF Allowed, O!Contract!vars
<1> QED BY <1>1, <1>2, <1>3, PTL DEF O!Spec, O!ContractSpec, O!Contract!Spec

=============================================================================
