------------------------------- MODULE MCStores -------------------------------
(* TLC instance for the single-object block stores (memory, filesystem, the    *)
(* filesystem cache, the overlay and the stores of remote objects) and for the *)
(* codec of what they store, each on its own.  `part` is what a behaviour is   *)
(* about; its variables are the slots v1, v2, ... in the order of its module,  *)
(* and the slots it does not need stay 0.                                      *)
EXTENDS Integers, Sequences, TLC

CONSTANTS b1, b2, b3, c1, c2, w1, w2, s1

VARIABLES part, v1, v2, v3, v4, v5, v6, v7, v8, v9, v10, v11, v12, v13, v14, v15
slots == <<part, v1, v2, v3, v4, v5, v6, v7, v8, v9, v10, v11, v12, v13, v14, v15>>

M == INSTANCE MemoryStore WITH
        Clients <- {w1, w2}, Blocks <- {b1, b2, b3}, Sizes <- {0, 1, 2, 4},
        BlockLimits <- {2}, ByteLimits <- {3}, MaxRecency <- 5,
        capacity <- v1, resident <- v2, size <- v3, recency <- v4, residentBytes <- v5,
        nextRecency <- v6, pc <- v7, want <- v8, panicked <- v9

F == INSTANCE FsStore WITH
        Writers <- {w1, w2}, Readers <- {c1}, Listers <- {c1}, Blocks <- {b1, b2},
        Shards <- {s1}, ShardOf <- [b \in {b1, b2} |-> s1], MaxOrphans <- 1,
        dirs <- v1, file <- v2, staging <- v3, orphans <- v4, attempted <- v5, pc <- v6,
        blk <- v7, seen <- v8, walkDirs <- v9, walkFiles <- v10, yielded <- v11

C == INSTANCE FsCache WITH
        Getters <- {c1}, Blocks <- 1 .. 3, Size <- 1 :> 1 @@ 2 :> 1 @@ 3 :> 3,
        ForeignLen <- {1, 2}, MaxBytes <- 3, MaxRecency <- 5, MaxTime <- 1, MaxLosses <- 1,
        files <- v1, clock <- v2, losses <- v3, mode <- v4, lock <- v5, entries <- v6,
        residentBytes <- v7, nextRecency <- v8, todo <- v9, kept <- v10, blk <- v11,
        reading <- v12, unfit <- v13

O == INSTANCE OverlayStore WITH
        Role <- <<"cache", "writable", "writable", "readonly">>,
        Writers <- {c1}, Readers <- {c2}, Listers <- {c2}, Blocks <- {b1},
        MaxGets <- 1, MaxDamage <- 1,
        copy <- v1, damaged <- v2, attempted <- v3, acked <- v4, pc <- v5, blk <- v6, at <- v7,
        failed <- v8, bytes <- v9, refill <- v10, seen <- v11, yielded <- v12, emitted <- v13,
        gets <- v14, stats <- v15

\* Names in key order: a block, an unrelated one, a block that an entity of the
\* table cannot hold, one that only looks like a block's.
R == INSTANCE ObjectStore WITH
        Writers <- {c1}, Readers <- {c2}, Blocks <- {1, 2}, Order <- <<1, 10, 2, 11>>,
        Unrelated <- {10}, Malformed <- {11}, TooLarge <- {2}, PageSize <- 1, MaxAttempts <- 2,
        kind <- v1, twice <- v12, objects <- v2, flying <- v3, attempted <- v4, pc <- v5, blk <- v6,
        tries <- v7, seen <- v8, cursor <- v9, pending <- v10, yielded <- v11

-----------------------------------------------------------------------------
\* The blocks of the codec's instance, all of two dimensions.
\* The parts of a block.
Entry(fields, embedding, child, metadata) ==
    [fields |-> fields, embedding |-> embedding, child |-> child, metadata |-> metadata]
Ext(keys, descriptor) == [present |-> TRUE, keys |-> keys, descriptor |-> descriptor]
NoQuantization == [mode |-> 0]
Descriptor(base, rotation, quantization) ==
    [version |-> 1, logical |-> "f32le", dims |-> 2, base |-> base, rotation |-> rotation, quantization |-> quantization]
NoExt == [present |-> FALSE, keys |-> <<>>, descriptor |-> Descriptor("none", "none", NoQuantization)]
Exts == {NoExt} \cup {[NoExt EXCEPT !.present = TRUE, !.keys = m] : m \in {<<>>, <<0, 7>>, <<7, 0>>, <<7, 7>>, <<7, 100>>}}
BlockOf(version, type, level, encoding, entries, ext) ==
    [version |-> version, type |-> type, level |-> level, dims |-> 2, encoding |-> encoding, entries |-> entries, ext |-> ext]

\* Entries whose embeddings are prefixes of each other, metadata in and out of order.
Pairs == {Entry(<<0, 1>>, e, c, <<>>) : e \in {<<0>>, <<0, 1>>, <<1>>}, c \in 1 .. 2}
Leaves == {Entry(f, <<0>>, 1, m) : f \in {<<0, 1, 2>>, <<0, 1>>, <<0, 2, 1>>}, m \in {<<>>, <<3, 5>>, <<5, 3>>, <<3, 3>>}}

\* Blocks without compression: branches of up to three entries in any order, with
\* fields and extensions in and out of order, leaves of none, one or two entries.
Plain ==
    {BlockOf(v, "branch", l, "f32le", es, NoExt) : v \in 1 .. 2, l \in 0 .. 1, es \in UNION {[1 .. n -> Pairs] : n \in 0 .. 3}}
    \cup {BlockOf(v, "branch", l, e, <<Entry(f, <<0>>, c, <<>>)>>, x) :
            v \in 1 .. 2, l \in 0 .. 1, e \in {"i8", "ambient-delta-uq", "other"},
            f \in {<<0, 1>>, <<1, 0>>, <<0>>, <<0, 1, 2>>}, c \in 0 .. 1, x \in Exts}
    \cup {BlockOf(v, "leaf", 0, e, es, x) : v \in 1 .. 2, e \in {"i8", "ambient-delta-uq", "other"}, x \in Exts,
            es \in UNION {[1 .. n -> Leaves] : n \in 0 .. 2}}

\* Branches with a descriptor: metadata of every kind present, absent or wrong;
\* every payload of one byte, some of two; widths that fill their bytes or not.
Quantizations ==
    [mode: 1 .. 2, uniform: BOOLEAN, width: {0, 3, 32}, variable: BOOLEAN, widths: {<<3, 2>>, <<0, 3>>, <<3>>}, scales: {"good", "bad"}]
Ebcp(encoding, payload, d) == BlockOf(1, "branch", 1, encoding, <<Entry(<<0, 1>>, payload, 1, <<>>)>>, Ext(<<0>>, d))
Zeros(n) == [i \in 1 .. n |-> 0]
Encodings == {"pca-rot-f32le", "pca-rot-delta-f32le", "pca-rot-delta-uq", "pca-rot-delta-vbq", "ambient-delta-uq"}
Kinds == {"none", "good", "bad"}

\* Vectors of moderate and of large values; pairs of floats around the ends of the
\* finite range and of the moderate one.
Sizes == {"none", "good", "huge"}
Quantized(m, s) ==
    [mode |-> m, uniform |-> m = 1, width |-> IF m = 1 THEN 3 ELSE 0, variable |-> m = 2,
     widths |-> IF m = 2 THEN <<3, 2>> ELSE <<>>, scales |-> s]
NotANumber    == <<0, 0, 0, 0, 1, 0, 192, 127>>
Infinity      == <<0, 0, 128, 127, 0, 0, 0, 0>>
MinusInfinity == <<0, 0, 0, 64, 0, 0, 128, 255>>
Greatest      == <<255, 255, 127, 255, 0, 0, 0, 0>>
Two64         == <<0, 0, 128, 95, 0, 0, 0, 0>>
Two65         == <<0, 0, 0, 96, 0, 0, 0, 0>>
Compressed ==
    {Ebcp(e, p, Descriptor(b, r, q)) : e \in Encodings, p \in {<<5>>, Zeros(8)}, b \in Kinds, r \in Kinds, q \in {NoQuantization} \cup Quantizations}
    \cup {Ebcp(e, p, Descriptor("good", IF e = "ambient-delta-uq" THEN "none" ELSE "good",
             [mode |-> IF e = "pca-rot-delta-vbq" THEN 2 ELSE 1, uniform |-> e # "pca-rot-delta-vbq", width |-> w[1],
              variable |-> e = "pca-rot-delta-vbq", widths |-> w, scales |-> "good"])) :
            e \in Encodings, w \in {<<3, 2>>, <<4, 4>>, <<5, 6>>},
            p \in {<<byte>> : byte \in 0 .. 255} \cup ({0, 3, 4, 8, 129, 255} \X {0, 3, 4, 8, 129, 255})}
    \cup {Ebcp(e, p, Descriptor(b, r, q)) :
            e \in Encodings, b \in Sizes, r \in Sizes, q \in {NoQuantization} \cup {Quantized(m, s) : m \in 1 .. 2, s \in {"good", "huge"}},
            p \in {<<5>>, NotANumber, Infinity, MinusInfinity, Greatest, Two64, Two65}}
    \cup {Ebcp("ambient-delta-uq", <<5>>, [Descriptor("good", "none",
             [mode |-> 1, uniform |-> TRUE, width |-> 3, variable |-> FALSE, widths |-> <<>>, scales |-> "good"])
             EXCEPT !.version = v, !.logical = l, !.dims = n]) : v \in 1 .. 2, l \in {"f32le", "i8"}, n \in 2 .. 3}

\* Blocks to write with a mistake, and blocks of a type of their own.
OneEntry(f, m) == <<Entry(f, <<0>>, 1, m)>>
Samples ==
    {BlockOf(v, "branch", 1, "f32le", OneEntry(<<0, 1>>, <<>>), x) : v \in 1 .. 2, x \in {NoExt, Ext(<<7>>, NoExt.descriptor)}}
    \cup {BlockOf(v, "leaf", 0, "f32le", OneEntry(<<0, 1, 2>>, <<3>>), x) : v \in 1 .. 2, x \in {NoExt, Ext(<<7>>, NoExt.descriptor)}}
    \cup {BlockOf(2, "custom", 0, "", <<>>, Ext(m, NoExt.descriptor)) : m \in {<<>>, <<3, 5>>, <<5, 3>>, <<3, 3>>}}

B == INSTANCE BlockCodec WITH
        Blocks <- Plain \cup Compressed \cup Samples, Samples <- Samples,
        given <- v1, at <- v2, document <- v3, block <- v4

-----------------------------------------------------------------------------
ASSUME StoresAssumption ==
    /\ M!MemoryAssumption /\ F!FsStoreAssumption /\ C!FsCacheAssumption /\ O!OverlayAssumption
    /\ R!ObjectAssumption

\* The slots that a part leaves alone.
After4  == <<v5, v6, v7, v8, v9, v10, v11, v12, v13, v14, v15>>
After9  == <<v10, v11, v12, v13, v14, v15>>
After11 == <<v12, v13, v14, v15>>
After13 == <<v14, v15>>

Init ==
    \/ /\ part = "memory" /\ M!Init
       /\ v10 = 0 /\ v11 = 0 /\ v12 = 0 /\ v13 = 0 /\ v14 = 0 /\ v15 = 0
    \/ part = "fs" /\ F!Init /\ v12 = 0 /\ v13 = 0 /\ v14 = 0 /\ v15 = 0
    \/ part = "cache" /\ C!Init /\ v14 = 0 /\ v15 = 0
    \/ part = "overlay" /\ O!Init
    \/ part = "object" /\ R!Init /\ v13 = 0 /\ v14 = 0 /\ v15 = 0
    \/ /\ part = "codec" /\ B!Init /\ v5 = 0 /\ v6 = 0 /\ v7 = 0 /\ v8 = 0 /\ v9 = 0
       /\ v10 = 0 /\ v11 = 0 /\ v12 = 0 /\ v13 = 0 /\ v14 = 0 /\ v15 = 0

Memory  == part = "memory"  /\ M!Next /\ UNCHANGED <<part, After9>>
Files   == part = "fs"      /\ F!Next /\ UNCHANGED <<part, After11>>
Cache   == part = "cache"   /\ C!Next /\ UNCHANGED <<part, After13>>
Overlay == part = "overlay" /\ O!Next /\ UNCHANGED part
Object  == part = "object"  /\ R!Next /\ UNCHANGED <<part, v13, v14, v15>>
Codec   == part = "codec"   /\ B!Next /\ UNCHANGED <<part, After4>>

Next == Memory \/ Files \/ Cache \/ Overlay \/ Object \/ Codec

Spec == Init /\ [][Next]_slots

\* The overlay alone.
OverlaySpec == part = "overlay" /\ Init /\ [][Overlay]_slots

\* The two clients of the memory store and the two publishers of the filesystem
\* store do the same.
Symmetry == Permutations({w1, w2})

\* MemoryStore: the accounting is exact, the limit holds, LRU order is unambiguous
\* and eviction never runs out of victims.  FsCache: published files are accounted
\* for with their true lengths and stay within the budget, a payload that may fit
\* does, and opening keeps the newest.
CachesBounded ==
    /\ part = "memory" => M!TypeOK /\ M!AccountingExact /\ M!EvictionHasVictim
    /\ part = "cache" => C!TypeOK /\ C!WithinBudget /\ C!AlwaysFits /\ C!OpeningKeepsNewest

\* FsCache: a put evicts nothing it need not, and the least recently used first.
EvictsLeastRecent == [][part = "cache" => C!EvictionJustified]_slots

\* FsStore: an enumeration yields what was stored, and no staging file.
EnumerationSound == part = "fs" => F!TypeOK /\ F!EnumerationSound

\* FsStore: published bytes are never replaced.
NeverOverwritten == [][part = "fs" => ~F!Overwrites]_slots

\* OverlayStore: an acknowledged put is on every writable layer, caches hold
\* nothing that the layers below do not, the counters add up and the enumeration
\* repeats nothing.
Replicated ==
    part = "overlay" =>
        O!TypeOK /\ O!Replicated /\ O!CachesFollow /\ O!StatsConsistent /\ O!NoDuplicates

\* ValidCopyFound of OverlayStore: a get that meets no failing layer finds a block
\* that some layer holds undamaged.
ValidCopyFound == part = "overlay" => O!ValidCopyFound

\* CodecExact of BlockCodec: what is stored has one encoding, which alone is read.
CodecExact == part = "codec" => B!CodecExact

\* Each of the stores implements the BlockStore contract.
ContractSpec ==
    /\ part = "fs" => F!Contract!Init
    /\ part = "overlay" => O!Contract!Init
    /\ part = "object" => R!Contract!Init
    /\ [][/\ part = "fs" => F!ContractStep
          /\ part = "overlay" => O!ContractStep
          /\ part = "object" => R!ContractStep]_slots
=============================================================================
