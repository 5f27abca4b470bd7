----------------------------- MODULE MemoryStore -----------------------------
(***************************************************************************)
(* lexongraph_block_store_memory: a bounded in-memory store that evicts the *)
(* least recently used entry.  One mutex guards the state; put and          *)
(* enumeration hold it throughout, get takes it twice, first to clone the   *)
(* bytes and again to refresh the entry's recency.                          *)
(***************************************************************************)
EXTENDS Integers, FiniteSets, FiniteSetsExt

CONSTANTS Clients,     \* threads that share the store
          Blocks,      \* block identifiers
          Sizes,       \* payload lengths, in the unit of the byte budget
          BlockLimits, \* limits of stores built with Capacity::ResidentBlocks
          ByteLimits,  \* limits of stores built with Capacity::ResidentBytes
          MaxRecency   \* operations that the recency counter can number

\* new_with_capacity rejects ZeroCapacity.
MemoryAssumption ==
    /\ Sizes \subseteq Nat
    /\ BlockLimits \subseteq Nat \ {0}
    /\ ByteLimits \subseteq Nat \ {0}
    /\ MaxRecency \in Nat

Capacities == [mode : {"blocks"}, limit : BlockLimits]
              \cup [mode : {"bytes"}, limit : ByteLimits]

VARIABLES capacity,       \* State::capacity
          resident,       \* keys of State::entries
          size,           \* ResidentEntry::bytes.len() of a resident block
          recency,        \* ResidentEntry::recency of a resident block
          residentBytes,  \* State::resident_bytes
          nextRecency,    \* State::next_recency
          pc,             \* "idle", or "cloned" between get's two locks
          want,           \* block of the running get
          panicked        \* evict_lru_excluding found no entry to evict

vars == <<capacity, resident, size, recency, residentBytes, nextRecency, pc, want, panicked>>

\* The types; two resident entries never share a recency, so min_by_key over the
\* hash map has one answer whatever its iteration order.
TypeOK ==
    /\ capacity \in Capacities
    /\ resident \subseteq Blocks
    /\ size \in [Blocks -> Sizes \cup {0}]
    /\ recency \in [Blocks -> 0 .. MaxRecency]
    /\ residentBytes \in Nat
    /\ nextRecency \in 0 .. MaxRecency
    /\ pc \in [Clients -> {"idle", "cloned"}]
    /\ want \in [Clients -> Blocks]
    /\ panicked \in BOOLEAN
    /\ \A a, b \in resident :
          recency[a] < nextRecency /\ (a # b => recency[a] # recency[b])

Init ==
    /\ capacity \in Capacities
    /\ resident = {}
    /\ size = [b \in Blocks |-> 0]
    /\ recency = [b \in Blocks |-> 0]
    /\ residentBytes = 0
    /\ nextRecency = 0
    /\ pc = [c \in Clients |-> "idle"]
    /\ want \in [Clients -> Blocks]
    /\ panicked = FALSE

-----------------------------------------------------------------------------

SaturatingSub(a, b) == IF a > b THEN a - b ELSE 0

SizeOf(S) == MapThenSumSet(LAMBDA b : size[b], S)

AllowsInsert(len, bytes, newLen, replacing) ==
    IF capacity.mode = "blocks" THEN replacing \/ len < capacity.limit
                                ELSE bytes + newLen <= capacity.limit

\* Fault: the replaced entry stays in the account.
OldLenIgnored(b) == 0

\* old_len of insert_or_refresh.
OldLen(b) == IF b \in resident THEN size[b] ELSE 0

\* The insert is allowed once the entries V are evicted.
Fits(b, n, V) ==
    AllowsInsert(Cardinality(resident \ V),
                 SaturatingSub(SaturatingSub(residentBytes, SizeOf(V)), OldLen(b)),
                 n, b \in resident)

\* What evict_lru_excluding(b) removes in some number of calls: nobody that
\* stays was used before somebody that goes.
LruPrefix(b) ==
    {V \in SUBSET (resident \ {b}) :
        \A v \in V : \A u \in (resident \ {b}) \ V : recency[v] < recency[u]}

\* State::insert_or_refresh under the lock.  put_block_bytes takes the bytes as
\* they come, so the same id may return with another length.  A payload beyond the byte budget is
\* rejected before anything changes.  The loop stops at the first
\* prefix that fits; when nothing is left to evict, `expect' panics with the
\* lock held.
Put(b, n) ==
    /\ nextRecency < MaxRecency
    /\ capacity.mode = "bytes" => n <= capacity.limit
    /\ nextRecency' = nextRecency + 1
    /\ LET enough == {V \in LruPrefix(b) : Fits(b, n, V)}
       IN  IF enough = {}
           THEN /\ panicked' = TRUE
                /\ UNCHANGED <<resident, size, recency, residentBytes>>
           ELSE \E V \in enough :
                  /\ \A W \in enough : V \subseteq W
                  /\ resident' = (resident \ V) \cup {b}
                  /\ size' = [[x \in Blocks |-> IF x \in V THEN 0 ELSE size[x]]
                                 EXCEPT ![b] = n]
                  /\ recency' = [[x \in Blocks |-> IF x \in V THEN 0 ELSE recency[x]]
                                    EXCEPT ![b] = nextRecency]
                  /\ residentBytes' =
                        SaturatingSub(SaturatingSub(residentBytes, SizeOf(V)), OldLen(b)) + n
                  /\ UNCHANGED panicked
    /\ UNCHANGED <<capacity, pc, want>>

\* get_block_bytes, first lock: the bytes are cloned.
GetClone(c, b) ==
    /\ pc[c] = "idle"
    /\ b \in resident
    /\ pc' = [pc EXCEPT ![c] = "cloned"]
    /\ want' = [want EXCEPT ![c] = b]
    /\ UNCHANGED <<capacity, resident, size, recency, residentBytes, nextRecency, panicked>>

\* get_block_bytes, second lock: refresh numbers the access even if the entry
\* was evicted in between.
GetRefresh(c) ==
    /\ pc[c] = "cloned"
    /\ nextRecency < MaxRecency
    /\ nextRecency' = nextRecency + 1
    /\ recency' = IF want[c] \in resident
                  THEN [recency EXCEPT ![want[c]] = nextRecency] ELSE recency
    /\ pc' = [pc EXCEPT ![c] = "idle"]
    /\ UNCHANGED <<capacity, resident, size, residentBytes, want, panicked>>

\* get of an absent block, and iter_block_ids, a snapshot under the lock: the
\* state is only read.
ReadOnly == UNCHANGED vars

\* A panic poisons the mutex: every later lock().unwrap() panics too.
Next ==
    /\ ~panicked
    /\ \/ \E b \in Blocks, n \in Sizes : Put(b, n)
       \/ \E c \in Clients : (\E b \in Blocks : GetClone(c, b)) \/ GetRefresh(c)
       \/ ReadOnly

Spec == Init /\ [][Next]_vars

-----------------------------------------------------------------------------
(* Properties.                                                              *)

\* resident_bytes is the sum of the resident payloads, after any sequence of
\* inserts, replacements by another length and evictions: no saturating
\* operation ever loses a byte, and the store never holds more than its capacity.
AccountingExact ==
    /\ residentBytes = SizeOf(resident)
    /\ IF capacity.mode = "blocks" THEN Cardinality(resident) <= capacity.limit
                                   ELSE SizeOf(resident) <= capacity.limit

\* evict_lru_excluding always finds a victim: "memory block store capacity is
\* always positive" is enough.
EvictionHasVictim == ~panicked

\* REQ-MEM-STORE-008: a get that succeeds leaves its entry refreshed.
GetRefreshesEntry ==
    [][\A c \in Clients : GetRefresh(c) => want[c] \in resident]_vars

=============================================================================
