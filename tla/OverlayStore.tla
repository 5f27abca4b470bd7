---------------------------- MODULE OverlayStore ----------------------------
(***************************************************************************)
(* lexongraph_block_store_overlay: one block store over an ordered stack of *)
(* layers.  put writes every writable layer in order and goes on after an   *)
(* error; get asks the layers in order, takes the first bytes it is given   *)
(* and copies them into the cache layers above; enumeration is the union,   *)
(* layer by layer.  Each layer is a store of its own that other callers     *)
(* use at the same time.  Cache layers may drop or damage a block, the      *)
(* others keep what they hold.  Bytes are checked against the block id only *)
(* by the trait's get, above the overlay.                                   *)
(***************************************************************************)
EXTENDS Naturals, Sequences, FiniteSets

CONSTANTS Writers, Readers, Listers,  \* concurrent callers of the overlay
          Blocks,                     \* block identifiers
          Role,                       \* role of layer 1, 2, ...: highest first
          MaxGets,                    \* gets that are started in all
          MaxDamage                   \* cache copies that go bad

Layers == 1 .. Len(Role)
Clients == Writers \cup Readers \cup Listers

\* OverlayBlockStore::new refuses fewer than MIN_LAYERS layers.
OverlayAssumption ==
    /\ Role \in Seq({"cache", "writable", "readonly"})
    /\ Len(Role) >= 2
    /\ IsFiniteSet(Blocks) /\ IsFiniteSet(Clients)
    /\ MaxGets \in Nat /\ MaxDamage \in Nat

VARIABLES copy,       \* what each layer holds of each block
          damaged,    \* number of copies that went bad
          attempted,  \* blocks some put was started for, or held from the start
          acked,      \* blocks whose put returned Ok
          pc, blk,    \* phase and block of each caller's operation
          at,         \* layer the operation has reached
          failed,     \* last_error.is_some()
          bytes,      \* what a get was given: good or bad bytes
          refill,     \* cache layers that refill_cache_layers still writes
          seen,       \* stored blocks when the read began
          yielded,    \* OverlayEnumerationState::seen
          emitted,    \* number of ids the enumeration has returned
          gets,       \* number of gets started
          stats       \* LayerCounters

callVars == <<pc, blk, at, failed, bytes, refill, seen, yielded, emitted>>
vars == <<copy, damaged, attempted, acked, callVars, gets, stats>>

Settled == {"idle", "ok", "err", "some", "none", "listed"}
Durable == {l \in Layers : Role[l] # "cache"}
Caches  == Layers \ Durable

\* A block the overlay must find: some layer that never drops it holds it.
Stored == {b \in Blocks : \E l \in Durable : copy[l][b] = "good"}

TypeOK ==
    /\ copy \in [Layers -> [Blocks -> {"none", "good", "bad"}]]
    /\ damaged \in 0 .. MaxDamage
    /\ attempted \subseteq Blocks /\ acked \subseteq attempted
    /\ pc \in [Clients -> Settled \cup {"put", "get", "refill", "list"}]
    /\ blk \in [Clients -> Blocks]
    /\ at \in [Clients -> 1 .. Len(Role) + 1]
    /\ failed \in [Clients -> BOOLEAN]
    /\ bytes \in [Clients -> {"good", "bad"}]
    /\ refill \in [Clients -> SUBSET Caches]
    /\ seen \in [Clients -> SUBSET Blocks] /\ yielded \in [Clients -> SUBSET Blocks]
    /\ emitted \in [Clients -> Nat]
    /\ gets \in 0 .. MaxGets
    /\ stats \in [Layers -> [hits : Nat, misses : Nat, errors : Nat]]
    /\ \A c \in Clients : pc[c] # "refill" => refill[c] = {}

Init ==
    /\ \E S \in [Durable -> SUBSET Blocks] :
          /\ copy = [l \in Layers |-> [b \in Blocks |->
                        IF l \in Durable /\ b \in S[l] THEN "good" ELSE "none"]]
          /\ \A l \in Durable : Role[l] = "writable" => S[l] = {}
    /\ attempted = Stored
    /\ acked = {}
    /\ damaged = 0
    /\ pc = [c \in Clients |-> "idle"]
    /\ blk \in [Clients -> Blocks]
    /\ at = [c \in Clients |-> 1]
    /\ failed = [c \in Clients |-> FALSE]
    /\ bytes = [c \in Clients |-> "good"]
    /\ refill = [c \in Clients |-> {}]
    /\ seen = [c \in Clients |-> {}]
    /\ yielded = [c \in Clients |-> {}]
    /\ emitted = [c \in Clients |-> 0]
    /\ gets = 0
    /\ stats = [l \in Layers |-> [hits |-> 0, misses |-> 0, errors |-> 0]]

Goto(c, phase) == pc' = [pc EXCEPT ![c] = phase]
Advance(c) == at' = [at EXCEPT ![c] = @ + 1]
Note(c, err) == failed' = [failed EXCEPT ![c] = @ \/ err]
Store(l, b, v) == copy' = [copy EXCEPT ![l][b] = v]

-----------------------------------------------------------------------------
(* put_block_bytes.                                                         *)

StartPut(c, b) ==
    /\ pc[c] \in Settled
    /\ Goto(c, "put")
    /\ blk' = [blk EXCEPT ![c] = b]
    /\ at' = [at EXCEPT ![c] = 1]
    /\ failed' = [failed EXCEPT ![c] = FALSE]
    /\ seen' = [seen EXCEPT ![c] = {}]
    /\ attempted' = attempted \cup {b}
    /\ UNCHANGED <<copy, damaged, acked, bytes, refill, yielded, emitted, gets, stats>>

AcceptsDirectWrites(l) == Role[l] = "writable"

\* Fault: the last writable layer decides.
PutLayerLastWins(c) ==
    /\ pc[c] = "put" /\ at[c] \in Layers
    /\ IF AcceptsDirectWrites(at[c])
       THEN \E err \in BOOLEAN :
              /\ failed' = [failed EXCEPT ![c] = err]
              /\ copy' = IF err THEN copy ELSE [copy EXCEPT ![at[c]][blk[c]] = "good"]
       ELSE UNCHANGED <<copy, failed>>
    /\ Advance(c)
    /\ UNCHANGED <<damaged, attempted, acked, pc, blk, bytes, refill, seen,
                   yielded, emitted, gets, stats>>

\* The next layer: skipped, written, or failed with or without effect.
PutLayer(c) ==
    /\ pc[c] = "put" /\ at[c] \in Layers
    /\ \/ ~AcceptsDirectWrites(at[c]) /\ UNCHANGED <<copy, failed>>
       \/ /\ AcceptsDirectWrites(at[c])
          /\ \/ Store(at[c], blk[c], "good") /\ \E err \in BOOLEAN : Note(c, err)
             \/ UNCHANGED copy /\ Note(c, TRUE)
    /\ Advance(c)
    /\ UNCHANGED <<damaged, attempted, acked, pc, blk, bytes, refill, seen,
                   yielded, emitted, gets, stats>>

\* No layer for direct writes is a failure of its own.
PutEnds(c) ==
    /\ pc[c] = "put" /\ at[c] \notin Layers
    /\ IF failed[c] \/ \A l \in Layers : ~AcceptsDirectWrites(l)
       THEN Goto(c, "err") /\ UNCHANGED acked
       ELSE Goto(c, "ok") /\ acked' = acked \cup {blk[c]}
    /\ UNCHANGED <<copy, damaged, attempted, blk, at, failed, bytes, refill, seen,
                   yielded, emitted, gets, stats>>

-----------------------------------------------------------------------------
(* get, with the validation the trait does on what the overlay returns.     *)

StartGet(c, b) ==
    /\ pc[c] \in Settled
    /\ gets < MaxGets
    /\ gets' = gets + 1
    /\ Goto(c, "get")
    /\ blk' = [blk EXCEPT ![c] = b]
    /\ at' = [at EXCEPT ![c] = 1]
    /\ failed' = [failed EXCEPT ![c] = FALSE]
    /\ refill' = [refill EXCEPT ![c] = {}]
    /\ seen' = [seen EXCEPT ![c] = Stored]
    /\ yielded' = [yielded EXCEPT ![c] = {}]
    /\ emitted' = [emitted EXCEPT ![c] = 0]
    /\ UNCHANGED <<copy, damaged, attempted, acked, bytes, stats>>

Count(l, kind) == stats' = [stats EXCEPT ![l][kind] = @ + 1]

\* Ok(Some(bytes)): taken as it is, whatever the bytes.
LayerHit(c) ==
    /\ pc[c] = "get" /\ at[c] \in Layers
    /\ copy[at[c]][blk[c]] # "none"
    /\ Count(at[c], "hits")
    /\ bytes' = [bytes EXCEPT ![c] = copy[at[c]][blk[c]]]
    /\ refill' = [refill EXCEPT ![c] = {l \in Caches : l < at[c]}]
    /\ Goto(c, "refill")
    /\ UNCHANGED <<copy, damaged, attempted, acked, blk, at, failed, seen,
                   yielded, emitted, gets>>

\* Ok(None), or Err: on to the next layer.
LayerMiss(c) ==
    /\ pc[c] = "get" /\ at[c] \in Layers
    /\ \/ copy[at[c]][blk[c]] = "none" /\ Count(at[c], "misses") /\ Note(c, FALSE)
       \/ Count(at[c], "errors") /\ Note(c, TRUE)
    /\ Advance(c)
    /\ UNCHANGED <<copy, damaged, attempted, acked, pc, blk, bytes, refill, seen,
                   yielded, emitted, gets>>

GetMissed(c) ==
    /\ pc[c] = "get" /\ at[c] \notin Layers
    /\ Goto(c, IF failed[c] THEN "err" ELSE "none")
    /\ UNCHANGED <<copy, damaged, attempted, acked, blk, at, failed, bytes, refill,
                   seen, yielded, emitted, gets, stats>>

\* The cache layers are written concurrently, and their failures ignored.
Refill(c) ==
    /\ pc[c] = "refill"
    /\ \E l \in refill[c] :
          /\ refill' = [refill EXCEPT ![c] = @ \ {l}]
          /\ Store(l, blk[c], bytes[c]) \/ UNCHANGED copy
    /\ UNCHANGED <<damaged, attempted, acked, pc, blk, at, failed, bytes, seen,
                   yielded, emitted, gets, stats>>

\* The trait's get validates the bytes it was handed.
GetEnds(c) ==
    /\ pc[c] = "refill" /\ refill[c] = {}
    /\ Goto(c, IF bytes[c] = "good" THEN "some" ELSE "err")
    /\ UNCHANGED <<copy, damaged, attempted, acked, blk, at, failed, bytes, refill,
                   seen, yielded, emitted, gets, stats>>

-----------------------------------------------------------------------------
(* iter_block_ids.                                                          *)

StartList(c) ==
    /\ pc[c] \in Settled
    /\ Goto(c, "list")
    /\ at' = [at EXCEPT ![c] = 1]
    /\ seen' = [seen EXCEPT ![c] = Stored]
    /\ yielded' = [yielded EXCEPT ![c] = {}]
    /\ emitted' = [emitted EXCEPT ![c] = 0]
    /\ failed' = [failed EXCEPT ![c] = FALSE]
    /\ UNCHANGED <<copy, damaged, attempted, acked, blk, bytes, refill, gets, stats>>

ListLayer(c) ==
    /\ pc[c] = "list" /\ at[c] \in Layers
    /\ LET ids == {b \in Blocks : copy[at[c]][b] # "none"}
       IN  /\ yielded' = [yielded EXCEPT ![c] = @ \cup ids]
           /\ emitted' = [emitted EXCEPT ![c] = @ + Cardinality(ids \ yielded[c])]
    /\ Advance(c)
    /\ UNCHANGED <<copy, damaged, attempted, acked, pc, blk, failed, bytes, refill,
                   seen, gets, stats>>

\* The first error of a layer ends the stream.
ListEnds(c) ==
    /\ pc[c] = "list"
    /\ \/ at[c] \notin Layers /\ Goto(c, "listed")
       \/ at[c] \in Layers /\ Goto(c, "err")
    /\ UNCHANGED <<copy, damaged, attempted, acked, blk, at, failed, bytes, refill,
                   seen, yielded, emitted, gets, stats>>

-----------------------------------------------------------------------------
(* Callers that go away, and the layers' own doings.                        *)

Abandon(c) ==
    /\ pc[c] \notin Settled
    /\ Goto(c, "idle")
    /\ at' = [at EXCEPT ![c] = 1]
    /\ failed' = [failed EXCEPT ![c] = FALSE]
    /\ bytes' = [bytes EXCEPT ![c] = "good"]
    /\ refill' = [refill EXCEPT ![c] = {}]
    /\ UNCHANGED <<copy, damaged, attempted, acked, blk, seen, yielded, emitted,
                   gets, stats>>

CacheDrops(l, b) ==
    /\ copy[l][b] # "none"
    /\ Store(l, b, "none")
    /\ UNCHANGED <<damaged, attempted, acked, callVars, gets, stats>>

CacheDamages(l, b) ==
    /\ copy[l][b] = "good"
    /\ damaged < MaxDamage
    /\ damaged' = damaged + 1
    /\ Store(l, b, "bad")
    /\ UNCHANGED <<attempted, acked, callVars, gets, stats>>

Next ==
    \/ \E c \in Writers :
          \/ \E b \in Blocks : StartPut(c, b)
          \/ PutLayer(c) \/ PutEnds(c)
    \/ \E c \in Readers :
          \/ \E b \in Blocks : StartGet(c, b)
          \/ LayerHit(c) \/ LayerMiss(c) \/ GetMissed(c) \/ Refill(c) \/ GetEnds(c)
    \/ \E c \in Listers : StartList(c) \/ ListLayer(c) \/ ListEnds(c)
    \/ \E c \in Clients : Abandon(c)
    \/ \E l \in Caches, b \in Blocks : CacheDrops(l, b) \/ CacheDamages(l, b)

Spec == Init /\ [][Next]_vars

-----------------------------------------------------------------------------
(* Properties.                                                              *)

\* REQ-OVERLAY-STORE-006: once a put returned Ok every writable layer has the
\* block, whichever layer failed before another succeeded.
Replicated ==
    \A b \in acked : \A l \in Layers : Role[l] = "writable" => copy[l][b] = "good"

\* A cache never holds a block that the layers below it could not serve: only
\* gets fill caches, and an interrupted put leaves nothing in one.
CachesFollow ==
    \A l \in Caches, b \in Blocks : copy[l][b] # "none" => b \in Stored

\* REQ-OVERLAY-STORE-016: of the lookups that layer l did not answer, every one
\* that is not under way there or given up has reached layer l + 1.
Consulted(l) == stats[l].hits + stats[l].misses + stats[l].errors

StatsConsistent ==
    /\ Consulted(1) <= gets
    /\ \A l \in Layers \ {1} : Consulted(l) <= stats[l - 1].misses + stats[l - 1].errors
    /\ \A c \in Readers : (pc[c] = "get" /\ at[c] > 1) =>
          \A l \in 1 .. at[c] - 1 : stats[l].misses + stats[l].errors > 0

\* REQ-OVERLAY-STORE-008: the union is returned without repetition, while the
\* layers change under the enumeration.
NoDuplicates == \A c \in Listers : emitted[c] = Cardinality(yielded[c])

\* REQ-OVERLAY-STORE-003, 004: a get of a stored block fails only if a layer
\* reported an error, for the walk goes on until a layer gives a valid block.
ValidCopyFound ==
    \A c \in Readers : (pc[c] = "err" /\ blk[c] \in seen[c]) => failed[c]

\* What the caller of client c sees of its operation.
opBar  == [c \in Clients |-> IF pc[c] = "refill" THEN "get" ELSE pc[c]]
idsBar == [c \in Clients |-> IF pc[c] = "listed" THEN yielded[c] ELSE {}]

\* The overlay implements the BlockStore contract over its durable layers, with
\* caches that drop and damage what they hold.
Contract == INSTANCE BlockStoreContract WITH
    stored <- Stored,
    op <- opBar,
    arg <- blk,
    known <- seen,
    ids <- idsBar

ContractStep == [Contract!Next]_(Contract!vars)
ContractSpec == Contract!Spec

-----------------------------------------------------------------------------
(* The inductive invariant.                                                 *)

\* Only caches hold damaged bytes, and nothing that no durable layer holds.
LayersInv == CachesFollow /\ \A l \in Durable, b \in Blocks : copy[l][b] # "bad"

\* A put has written every writable layer it passed, unless one failed.
PutInv(c) ==
    pc[c] = "put" =>
        /\ blk[c] \in attempted
        /\ ~failed[c] => \A l \in Layers :
              l < at[c] /\ AcceptsDirectWrites(l) => copy[l][blk[c]] = "good"

\* The walk of c over the layers has yet to come to a durable copy of b.
Ahead(c, b) == \E l \in Durable : l >= at[c] /\ copy[l][b] = "good"

\* A get that met no error has not passed by the block it is to find.
GetInv(c) ==
    /\ seen[c] \subseteq Stored
    /\ pc[c] = "refill" => blk[c] \in Stored
    /\ pc[c] = "get" /\ ~failed[c] /\ blk[c] \in seen[c] => Ahead(c, blk[c])

\* An enumeration yields stored blocks, and has yielded or has yet to come to
\* those that were stored when it began.
ListInv(c) ==
    /\ yielded[c] \subseteq Stored
    /\ emitted[c] = Cardinality(yielded[c])
    /\ pc[c] = "list" => \A b \in seen[c] : b \in yielded[c] \/ Ahead(c, b)
    /\ pc[c] = "listed" => seen[c] \subseteq yielded[c]

\* The lookups that came to a layer: all, or those that missed the layer above.
Arrived(l) == IF l = 1 THEN gets ELSE stats[l - 1].misses + stats[l - 1].errors

\* The layers that a get of c has passed have counted it.
Passed(c) == pc[c] = "get" => \A l \in Layers : l < at[c] => Arrived(l + 1) > 0

\* Those at a layer are not yet counted there.
At(l) == {c \in Clients : pc[c] = "get" /\ at[c] = l}
CountInv == \A l \in Layers : Consulted(l) + Cardinality(At(l)) <= Arrived(l)

ClientInv(c) == PutInv(c) /\ GetInv(c) /\ ListInv(c) /\ Passed(c)

OverlayInv ==
    /\ TypeOK /\ Replicated /\ LayersInv /\ CountInv
    /\ \A c \in Clients : ClientInv(c)

=============================================================================
