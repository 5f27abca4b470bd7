------------------------------- MODULE FsCache -------------------------------
(***************************************************************************)
(* lexongraph_block_store_fs in cache mode: one process keeps the payload   *)
(* bytes of the published files below a budget, evicting the least recently *)
(* used file before it publishes another.  A mutex is held through a put;   *)
(* get reads its file without the mutex and takes it afterwards to note the *)
(* access.  The accounting lives in memory only: after a crash new_cache_mb *)
(* rebuilds it from the files and their modification times.                 *)
(***************************************************************************)
EXTENDS Integers, FiniteSets, FiniteSetsExt

CONSTANTS Blocks,      \* block identifiers; their order is the byte order
          Getters,     \* threads that get blocks
          Size,        \* length of the canonical bytes of each block
          ForeignLen,  \* lengths of files that hold other bytes
          MaxBytes,    \* CacheState::max_cache_bytes
          MaxRecency,  \* accesses one process can number
          MaxTime,     \* ticks of the clock behind modification times
          MaxLosses    \* files that something else deletes

\* new_cache_mb rejects ZeroCacheCapacity.
FsCacheAssumption ==
    /\ Blocks \subseteq Nat \ {0} /\ IsFiniteSet(Blocks) /\ Blocks # {}
    /\ Size \in [Blocks -> Nat] /\ ForeignLen \subseteq Nat
    /\ MaxBytes \in Nat \ {0}
    /\ MaxRecency \in Nat /\ Cardinality(Blocks) <= MaxRecency /\ MaxTime \in Nat /\ MaxLosses \in Nat

VARIABLES files,          \* published files: length, mtime and content
          clock,          \* current modification time
          losses,         \* files deleted behind the store's back
          mode,           \* "down", "opening", "up"
          lock,           \* "free", "evicting" or "publishing"
          entries,        \* CacheState::entries: payload_bytes and recency
          residentBytes,  \* CacheState::resident_bytes
          nextRecency,    \* CacheState::next_recency
          todo,           \* evictions planned and not yet carried out
          kept,           \* files the opening scan retains
          blk,            \* block of the put that holds the lock
          reading,        \* block each getter has read, before observe_read
          unfit           \* plan_evictions ran out of candidates

diskVars  == <<files, clock, losses>>
cacheVars == <<entries, residentBytes, nextRecency>>
vars == <<files, clock, losses, mode, lock, entries, residentBytes, nextRecency,
          todo, kept, blk, reading, unfit>>

Nobody == 0

SaturatingSub(a, b) == IF a > b THEN a - b ELSE 0
Without(f, b) == [x \in DOMAIN f \ {b} |-> f[x]]
With(f, b, v) == [x \in DOMAIN f \cup {b} |-> IF x = b THEN v ELSE f[x]]

EntryLength == [b \in DOMAIN entries |-> entries[b].bytes]
FileLength  == [b \in DOMAIN files |-> files[b].len]
EntryBytes(S) == MapThenSumSet(LAMBDA b : EntryLength[b], S)
FileBytes(S)  == MapThenSumSet(LAMBDA b : FileLength[b], S)

FileType  == [len : ForeignLen \cup {Size[b] : b \in Blocks},
              mtime : 0 .. MaxTime, good : BOOLEAN]
EntryType == [bytes : Nat, recency : 0 .. MaxRecency]

TypeOK ==
    /\ DOMAIN files \subseteq Blocks /\ files \in [DOMAIN files -> FileType]
    /\ clock \in 0 .. MaxTime
    /\ losses \in 0 .. MaxLosses
    /\ mode \in {"down", "opening", "up"}
    /\ lock \in {"free", "evicting", "publishing"}
    /\ DOMAIN entries \subseteq Blocks /\ entries \in [DOMAIN entries -> EntryType]
    /\ residentBytes \in Nat
    /\ nextRecency \in 0 .. MaxRecency
    /\ todo \subseteq Blocks /\ kept \subseteq Blocks
    /\ blk \in Blocks
    /\ reading \in [Getters -> Blocks \cup {Nobody}]
    /\ unfit \in BOOLEAN

\* The root may hold a few published files, none, or foreign bytes.
Init ==
    /\ \E S \in SUBSET Blocks : \E n \in ForeignLen : \E g \in BOOLEAN :
          files = [b \in S |-> [len |-> IF g THEN Size[b] ELSE n,
                                mtime |-> 0, good |-> g]]
    /\ clock = 0
    /\ losses = 0
    /\ mode = "down"
    /\ lock = "free"
    /\ entries = << >>
    /\ residentBytes = 0
    /\ nextRecency = 0
    /\ todo = {} /\ kept = {}
    /\ blk = CHOOSE b \in Blocks : TRUE
    /\ reading = [g \in Getters |-> Nobody]
    /\ unfit = FALSE

-----------------------------------------------------------------------------
(* initialize_cache_mode.                                                   *)

\* The order of the scan: modification time, then block id.
Older(a, b) ==
    \/ files[a].mtime < files[b].mtime
    \/ files[a].mtime = files[b].mtime /\ a < b

\* S is a prefix of the scan.
Oldest(S) == \A a \in S : \A b \in DOMAIN files \ S : Older(a, b)

\* The scan sorts the files and evicts from the front until the rest fits.
OpenScan ==
    /\ mode = "down"
    /\ LET fits == {S \in SUBSET DOMAIN files :
                      /\ Oldest(S)
                      /\ FileBytes(DOMAIN files \ S) <= MaxBytes}
       IN  \E S \in fits :
             /\ \A T \in fits : S \subseteq T
             /\ todo' = S
             /\ kept' = DOMAIN files \ S
    /\ mode' = "opening"
    /\ residentBytes' = FileBytes(kept')
    /\ entries' = [b \in kept' |->
                     [bytes |-> files[b].len,
                      recency |-> Cardinality({a \in kept' : Older(a, b)})]]
    /\ nextRecency' = Cardinality(kept')
    /\ UNCHANGED <<diskVars, lock, blk, reading, unfit>>

\* Oldest first.  remove_cached_file tolerates a file that is gone; any other error fails the
\* construction, and what was evicted stays evicted.
OpenEvict ==
    /\ mode = "opening"
    /\ \E b \in todo :
          /\ \A a \in (todo \cap DOMAIN files) \ {b} : b \in DOMAIN files => Older(b, a)
          /\ todo' = todo \ {b}
          /\ files' = Without(files, b)
    /\ UNCHANGED <<clock, losses, mode, lock, cacheVars, kept, blk, reading, unfit>>

OpenDone ==
    /\ mode = "opening"
    /\ todo = {}
    /\ mode' = "up"
    /\ kept' = {}
    /\ UNCHANGED <<diskVars, lock, cacheVars, todo, blk, reading, unfit>>

-----------------------------------------------------------------------------
(* put_block_bytes.                                                         *)

ExistingBytes(b) == IF b \in DOMAIN entries THEN entries[b].bytes ELSE 0

\* The payload of b fits once V is evicted.
Room(b, V) ==
    SaturatingSub(SaturatingSub(residentBytes, ExistingBytes(b)), EntryBytes(V))
        + Size[b] <= MaxBytes

\* plan_evictions: the least recently used others, as few as suffice.
LruPrefix(b) ==
    {V \in SUBSET (DOMAIN entries \ {b}) :
        \A v \in V : \A u \in (DOMAIN entries \ {b}) \ V :
            entries[v].recency < entries[u].recency}

PlanEvictions(b) ==
    /\ mode = "up" /\ lock = "free"
    /\ Size[b] <= MaxBytes
    /\ LET enough == {V \in LruPrefix(b) : Room(b, V)}
       IN  IF enough = {}
           THEN unfit' = TRUE /\ UNCHANGED <<lock, todo, blk>>
           ELSE \E V \in enough :
                  /\ \A W \in enough : V \subseteq W
                  /\ todo' = V
                  /\ blk' = b
                  /\ lock' = IF V = {} THEN "publishing" ELSE "evicting"
                  /\ UNCHANGED unfit
    /\ UNCHANGED <<diskVars, mode, cacheVars, kept, reading>>

ApplyEviction(b) ==
    /\ entries' = Without(entries, b)
    /\ residentBytes' = SaturatingSub(residentBytes, entries[b].bytes)
    /\ UNCHANGED nextRecency

\* Fault: the accounting forgets the file before it is removed, and the put
\* fails on the removal.
EvictForgetsFirst ==
    /\ lock = "evicting"
    /\ \E b \in todo : ApplyEviction(b)
    /\ lock' = "free" /\ todo' = {}
    /\ UNCHANGED <<diskVars, mode, kept, blk, reading, unfit>>

\* Fault: some victim of the plan, not the oldest first.
EvictAny ==
    /\ lock = "evicting"
    /\ \E b \in todo :
          /\ files' = Without(files, b)
          /\ ApplyEviction(b)
          /\ \/ todo' = todo \ {b} /\ lock' = IF todo' = {} THEN "publishing" ELSE lock
             \/ todo' = {} /\ lock' = "free"
    /\ UNCHANGED <<clock, losses, mode, kept, blk, reading, unfit>>

\* One file removed and its entry dropped, or the put fails on the removal:
\* the evictions before it stay.
Evict ==
    /\ lock = "evicting"
    /\ \/ \E b \in todo :
             /\ \A a \in todo : entries[b].recency <= entries[a].recency
             /\ files' = Without(files, b)
             /\ ApplyEviction(b)
             /\ todo' = todo \ {b}
             /\ lock' = IF todo' = {} THEN "publishing" ELSE lock
       \/ lock' = "free" /\ todo' = {} /\ UNCHANGED <<files, cacheVars>>
    /\ UNCHANGED <<clock, losses, mode, kept, blk, reading, unfit>>

Upsert(b) ==
    /\ entries' = With(entries, b, [bytes |-> Size[b], recency |-> nextRecency])
    /\ residentBytes' = SaturatingSub(residentBytes, ExistingBytes(b)) + Size[b]
    /\ nextRecency' = nextRecency + 1

\* publish_block_bytes and upsert, or the put fails at the publication and only
\* the evictions remain.  A file that holds the same bytes counts as published.
Publish ==
    /\ lock = "publishing"
    /\ lock' = "free"
    /\ \/ /\ blk \notin DOMAIN files
          /\ files' = With(files, blk, [len |-> Size[blk], mtime |-> clock, good |-> TRUE])
          /\ nextRecency < MaxRecency
          /\ Upsert(blk)
       \/ /\ blk \in DOMAIN files /\ files[blk].good
          /\ UNCHANGED files
          /\ nextRecency < MaxRecency
          /\ Upsert(blk)
       \/ UNCHANGED <<files, cacheVars>>
    /\ UNCHANGED <<clock, losses, mode, todo, kept, blk, reading, unfit>>

-----------------------------------------------------------------------------
(* get_block_bytes.                                                         *)

\* The file is read without the lock.
GetRead(g, b) ==
    /\ mode = "up"
    /\ reading[g] = Nobody
    /\ b \in DOMAIN files
    /\ reading' = [reading EXCEPT ![g] = b]
    /\ UNCHANGED <<diskVars, mode, lock, cacheVars, todo, kept, blk, unfit>>

\* record_cache_read, observe_read.
ObserveRead(g) ==
    /\ mode = "up" /\ lock = "free"
    /\ reading[g] # Nobody
    /\ nextRecency < MaxRecency
    /\ nextRecency' = nextRecency + 1
    /\ entries' = IF reading[g] \in DOMAIN entries
                  THEN [entries EXCEPT ![reading[g]].recency = nextRecency]
                  ELSE entries
    /\ reading' = [reading EXCEPT ![g] = Nobody]
    /\ UNCHANGED <<diskVars, mode, lock, residentBytes, todo, kept, blk, unfit>>

-----------------------------------------------------------------------------
(* The environment.                                                         *)

Tick ==
    /\ clock < MaxTime
    /\ clock' = clock + 1
    /\ UNCHANGED <<files, losses, mode, lock, cacheVars, todo, kept, blk, reading, unfit>>

\* A file disappears: remove_cached_file and get expect that.
Lose(b) ==
    /\ losses < MaxLosses
    /\ b \in DOMAIN files
    /\ losses' = losses + 1
    /\ files' = Without(files, b)
    /\ UNCHANGED <<clock, mode, lock, cacheVars, todo, kept, blk, reading, unfit>>

\* The process ends, at any point, or the construction fails.
Crash ==
    /\ mode # "down"
    /\ mode' = "down"
    /\ lock' = "free"
    /\ entries' = << >> /\ residentBytes' = 0 /\ nextRecency' = 0
    /\ todo' = {} /\ kept' = {}
    /\ reading' = [g \in Getters |-> Nobody]
    /\ UNCHANGED <<diskVars, blk, unfit>>

Next ==
    \/ OpenScan \/ OpenEvict \/ OpenDone
    \/ \E b \in Blocks : PlanEvictions(b) \/ Lose(b)
    \/ Evict \/ Publish
    \/ \E g \in Getters : (\E b \in Blocks : GetRead(g, b)) \/ ObserveRead(g)
    \/ Tick \/ Crash

Spec == Init /\ [][Next]_vars

-----------------------------------------------------------------------------
(* Properties.                                                              *)

\* While the store is open the files on disk never exceed the budget, not even
\* between the evictions and the publication of a put: every published file is
\* accounted for with its true length, across failed publications and lost files.
WithinBudget ==
    /\ residentBytes = EntryBytes(DOMAIN entries)
    /\ mode = "up" =>
        /\ \A b \in DOMAIN files : b \in DOMAIN entries /\ entries[b].bytes = files[b].len
        /\ FileBytes(DOMAIN files) <= MaxBytes

\* A put whose payload is within the budget always finds room: the error "failed
\* to fit block payload" cannot be reached.
AlwaysFits == ~unfit

\* A put removes a file only while the payload does not fit yet, and never one
\* that was used after another that stays.
EvictionJustified ==
    \A b \in DOMAIN entries :
        (lock = "evicting" /\ mode' = "up" /\ b \notin DOMAIN entries') =>
            /\ ~Room(blk, {})
            /\ \A a \in DOMAIN entries' \ {blk} : entries[b].recency < entries[a].recency
EvictsLeastRecent == [][EvictionJustified]_vars

\* Opening keeps the newest files: whatever the scan evicts is older than
\* whatever it retains.
OpeningKeepsNewest ==
    mode = "opening" =>
        \A a \in todo \cap DOMAIN files : \A b \in kept \cap DOMAIN files : Older(a, b)

=============================================================================
