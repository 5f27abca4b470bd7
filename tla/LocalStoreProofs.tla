-------------------------- MODULE LocalStoreProofs --------------------------
(***************************************************************************)
(* Proofs about the stores of one process: RedbStore, for every set of tasks *)
(* and blocks; the memory store and the filesystem cache, instantiated below,*)
(* for every set of blocks, lengths and budgets.  A variable that two of the *)
(* three modules declare is declared once: each theorem is about the          *)
(* specification of one of them.                                             *)
(***************************************************************************)
EXTENDS RedbStore, Integers, FiniteSets, FiniteSetTheorems, TLAPS

\* How a session's memory and its file are related.  A closed store has nothing
\* that is not durable; a task that flushes is the only owner and has nothing
\* left to flush; a task that has committed finds what it put; and what is
\* durable is never ahead of what is visible.  Foreign bytes are the same in both.
Session ==
    /\ mode = "closed" => clones = {} /\ durable = table /\ acked = {} /\ listed = {}
    /\ \A t \in Tasks : pc[t] = "flushed" => clones = {t} /\ durable = table
    /\ \A t \in Tasks : pc[t] = "committed" => entries[t] \subseteq Found(table)
    /\ Found(durable) \subseteq Found(table)
    /\ \A b \in Blocks : durable[b] = "other" <=> table[b] = "other"
    /\ FlagCovers

\* A batch that was not lost is visible as a whole, and durable as a whole or not
\* at all; an enumeration holds nothing that is not in the table.
Batches ==
    /\ \A s \in batches : /\ s \subseteq Found(table)
                          /\ s \subseteq Found(durable) \/ s \cap Found(durable) = {}
                          /\ s \subseteq listed \/ s \cap listed = {}
    /\ listed \subseteq Keys(table)

IndInv == TypeOK /\ Session /\ PromisesKept /\ Batches

-----------------------------------------------------------------------------

LEMMA FoundType == \A f : Found(f) \subseteq Blocks /\ Keys(f) \subseteq Blocks /\ Found(f) \subseteq Keys(f)
  BY DEF Found, Keys

LEMMA InitInv == Init => IndInv
<1> SUFFICES ASSUME Init PROVE IndInv
  OBVIOUS
<1>1. table \in [Blocks -> Contents]
  BY DEF Init, Contents
<1>2. TypeOK
  BY <1>1, NoneAssumption DEF Init, TypeOK
<1>3. Session /\ PromisesKept /\ Batches
  BY DEF Init, Session, FlagCovers, PromisesKept, Batches
<1> QED BY <1>2, <1>3 DEF IndInv

-----------------------------------------------------------------------------
(* One lemma per kind of step.                                              *)

\* Steps that only move handles.
LEMMA HandleStep ==
    ASSUME IndInv, NEW t \in Tasks,
           \/ \E m \in {"durable", "fast"} : OpenReadWrite(t, m)
           \/ Clone(t) \/ DropClone(t)
    PROVE  IndInv'
<1>1. CASE \E m \in {"durable", "fast"} : OpenReadWrite(t, m)
  <2>1. PICK m \in {"durable", "fast"} : OpenReadWrite(t, m)
    BY <1>1
  <2>2. \A u \in Tasks : pc[u] = "idle"
    BY <2>1 DEF IndInv, TypeOK, Session, OpenReadWrite
  <2>3. TypeOK'
    BY <2>1, <2>2 DEF IndInv, TypeOK, OpenReadWrite, content, Found, Keys
  <2>4. Session' /\ PromisesKept' /\ Batches'
    BY <2>1, <2>2 DEF IndInv, Session, FlagCovers, PromisesKept, Batches,
       OpenReadWrite, content, Found, Keys
  <2> QED BY <2>3, <2>4 DEF IndInv
<1>2. CASE Clone(t)
  <2>1. PICK u \in clones : pc[u] = "idle"
    BY <1>2 DEF Clone
  <2>2. TypeOK'
    BY <1>2 DEF IndInv, TypeOK, Clone, content, ghosts
  <2>3. Session'
    BY <1>2, <2>1 DEF IndInv, Session, FlagCovers, Clone, content, ghosts, Found
  <2>4. PromisesKept' /\ Batches'
    BY <1>2 DEF IndInv, PromisesKept, Batches, Clone, content, ghosts, Found, Keys
  <2> QED BY <2>2, <2>3, <2>4 DEF IndInv
<1>3. CASE DropClone(t)
  <2>1. TypeOK'
    BY <1>3 DEF IndInv, TypeOK, DropClone, content, ghosts
  <2>2. Session'
    BY <1>3 DEF IndInv, Session, FlagCovers, DropClone, content, ghosts, Found
  <2>3. PromisesKept' /\ Batches'
    BY <1>3 DEF IndInv, PromisesKept, Batches, DropClone, content, ghosts, Found, Keys
  <2> QED BY <2>1, <2>2, <2>3 DEF IndInv
<1> QED BY <1>1, <1>2, <1>3

\* What closing the store, or dying, does to the batches.
LEMMA SurvivingBatches ==
    ASSUME Batches, NEW f, f = durable \/ f = table
    PROVE  \A s \in Surviving(f) : s \subseteq Found(f)
  BY DEF Batches, Surviving

\* The last handle goes.  Only here does a Fast put become a promise, and it can
\* because FlagCovers leaves nothing that is not durable when the flag is down.
LEMMA DropStep ==
    ASSUME IndInv, NEW t \in Tasks, DropLast(t) \/ DropFlushFails(t)
    PROVE  IndInv'
<1>1. clones = {t} /\ pc[t] = "idle" /\ Close
  BY DEF DropLast, DropFlushFails
<1>2. \A u \in Tasks : pc[u] = "idle"
  BY <1>1 DEF IndInv, TypeOK
<1>3. durable' = durable \/ durable' = table
  BY DEF DropLast, DropFlushFails
<1>4. mode # "closed"
  BY <1>1 DEF IndInv, Session
<1>5. DropLast(t) => durable' = table
  BY <1>1, <1>4 DEF DropLast, MustFlush, IndInv, Session, FlagCovers
<1>6. promised' \subseteq Found(durable')
  BY <1>3, <1>5 DEF DropLast, DropFlushFails, IndInv, PromisesKept, Session
<1>7. TypeOK'
  <2>1. reader # "open"
    BY <1>4 DEF IndInv, TypeOK
  <2>2. promised' \in SUBSET Blocks
    BY DEF DropLast, DropFlushFails, IndInv, TypeOK
  <2> QED BY <1>1, <1>2, <1>3, <2>1, <2>2 DEF IndInv, TypeOK, Close, Surviving
<1>8. Session' /\ PromisesKept'
  BY <1>1, <1>2, <1>6 DEF IndInv, Session, FlagCovers, PromisesKept, Close, TypeOK
<1>9. Batches'
  <2>1. \A s \in batches' : s \subseteq Found(table')
    BY <1>1, <1>3, SurvivingBatches DEF Close, IndInv
  <2> QED BY <1>1, <2>1 DEF Close, Batches
<1> QED BY <1>7, <1>8, <1>9 DEF IndInv

LEMMA ReaderStep == IndInv /\ (OpenReadOnly \/ CloseReadOnly) => IndInv'
<1> SUFFICES ASSUME IndInv, OpenReadOnly \/ CloseReadOnly PROVE IndInv'
  OBVIOUS
<1>1. TypeOK'
  BY DEF IndInv, TypeOK, OpenReadOnly, CloseReadOnly, content, ghosts
<1>2. Session' /\ PromisesKept' /\ Batches'
  BY DEF IndInv, Session, FlagCovers, PromisesKept, Batches, OpenReadOnly, CloseReadOnly,
     content, ghosts, Found, Keys
<1> QED BY <1>1, <1>2 DEF IndInv

\* A put up to its commit, and the ways it ends without one.
LEMMA TransactionStep ==
    ASSUME IndInv, NEW t \in Tasks,
           (\E s \in SUBSET Blocks \ {{}} : Begin(t, s)) \/ Abort(t) \/ NothingToDo(t)
    PROVE  IndInv'
<1>1. CASE \E s \in SUBSET Blocks \ {{}} : Begin(t, s)
  <2>1. PICK s \in SUBSET Blocks : Begin(t, s)
    BY <1>1
  <2>2. TypeOK'
    BY <2>1, NoneAssumption DEF IndInv, TypeOK, Begin, content, ghosts
  <2>3. Session'
    BY <2>1 DEF IndInv, TypeOK, Session, FlagCovers, Begin, content, ghosts, Found
  <2>4. PromisesKept' /\ Batches'
    BY <2>1 DEF IndInv, PromisesKept, Batches, Begin, content, ghosts, Found, Keys
  <2> QED BY <2>2, <2>3, <2>4 DEF IndInv
<1>2. CASE Abort(t)
  <2>1. TypeOK'
    BY <1>2, NoneAssumption DEF IndInv, TypeOK, Abort, Return, content, ghosts
  <2>2. Session'
    BY <1>2 DEF IndInv, TypeOK, Session, FlagCovers, Abort, Return, content, ghosts, Found
  <2>3. PromisesKept' /\ Batches'
    BY <1>2 DEF IndInv, PromisesKept, Batches, Abort, content, ghosts, Found, Keys
  <2> QED BY <2>1, <2>2, <2>3 DEF IndInv
<1>3. CASE NothingToDo(t)
  <2>1. t \in clones /\ mode # "closed"
    BY <1>3 DEF IndInv, TypeOK, Session, NothingToDo
  <2>2. TypeOK'
    BY <1>3, NoneAssumption DEF IndInv, TypeOK, NothingToDo, Return, Acknowledge, content
  <2>3. Session'
    BY <1>3, <2>1 DEF IndInv, TypeOK, Session, FlagCovers, NothingToDo, Return, Acknowledge,
       content, Found
  <2>4. PromisesKept'
    BY <1>3, <2>1 DEF IndInv, Session, FlagCovers, PromisesKept, NothingToDo, Acknowledge,
       content
  <2>5. Batches'
    BY <1>3 DEF IndInv, Batches, NothingToDo, content, Found, Keys
  <2> QED BY <2>2, <2>3, <2>4, <2>5 DEF IndInv
<1> QED BY <1>1, <1>2, <1>3

LEMMA CommitStep ==
    ASSUME IndInv, NEW t \in Tasks, Commit(t)
    PROVE  IndInv'
<1>1. t \in clones /\ mode # "closed" /\ reader # "open"
  BY DEF IndInv, TypeOK, Session, Commit
<1>2. /\ table' \in [Blocks -> Contents]
      /\ Found(table') = Found(table) \cup entries[t]
      /\ Keys(table) \subseteq Keys(table')
  <2>1. entries[t] \subseteq Blocks /\ table \in [Blocks -> Contents]
    BY DEF IndInv, TypeOK
  <2>2. table' = [b \in Blocks |-> IF b \in entries[t] THEN "same" ELSE table[b]]
    BY DEF Commit
  <2> QED BY <2>1, <2>2 DEF Found, Keys, Contents
<1>3. \A u \in Tasks : pc[u] # "flushed" /\ pc'[u] # "flushed"
  BY DEF Commit, IndInv, TypeOK, Session
<1>4. TypeOK'
  BY <1>1, <1>2, NoneAssumption DEF IndInv, TypeOK, Commit
<1>5. Session'
  <2>1. FlagCovers'
    BY <1>1 DEF FlagCovers, Commit, IndInv, TypeOK, Session
  <2>2. \A u \in Tasks : pc'[u] = "committed" => entries'[u] \subseteq Found(table')
    BY <1>2 DEF Commit, IndInv, TypeOK, Session
  <2>3. Found(durable') \subseteq Found(table')
    BY <1>2 DEF Commit, IndInv, Session
  <2>4. \A b \in Blocks : durable'[b] = "other" <=> table'[b] = "other"
    BY DEF Commit, IndInv, TypeOK, Session, Found, Keys
  <2> QED BY <1>1, <1>3, <2>1, <2>2, <2>3, <2>4 DEF Session, Commit
<1>6. PromisesKept'
  BY <1>2 DEF IndInv, PromisesKept, Session, Commit
<1>7. Batches'
  <2> DEFINE new == entries[t] \ Found(table)
  <2>1. new \cap Keys(table) = {}
    BY DEF Commit
  <2>2. new \cap Found(durable) = {} /\ new \cap listed = {}
    BY <2>1 DEF IndInv, Session, Batches
  <2>3. new \subseteq Found(table')
    BY <1>2
  <2>4. durable' = durable \/ durable' = table'
    BY DEF Commit
  <2>5. batches' = batches \cup {new} /\ listed' = listed
    BY DEF Commit
  <2>6. ASSUME NEW s \in batches'
        PROVE  /\ s \subseteq Found(table')
               /\ s \subseteq Found(durable') \/ s \cap Found(durable') = {}
               /\ s \subseteq listed' \/ s \cap listed' = {}
    <3> HIDE DEF new
    <3>1. CASE s \in batches
      BY <3>1, <1>2, <2>4, <2>5 DEF IndInv, Batches
    <3>2. CASE s = new
      BY <3>2, <2>2, <2>3, <2>4, <2>5
    <3> QED BY <2>5, <2>6, <3>1, <3>2
  <2>7. listed' \subseteq Keys(table')
    BY <1>2, <2>5 DEF IndInv, Batches
  <2> QED BY <2>6, <2>7 DEF Batches
<1> QED BY <1>4, <1>5, <1>6, <1>7 DEF IndInv

LEMMA AfterCommitStep ==
    ASSUME IndInv, NEW t \in Tasks, AfterCommit(t)
    PROVE  IndInv'
<1>1. t \in clones /\ mode # "closed"
  BY DEF IndInv, TypeOK, Session, AfterCommit
<1>2. entries[t] \subseteq Found(table)
  BY DEF IndInv, Session, AfterCommit
<1>3. TypeOK'
  BY NoneAssumption DEF IndInv, TypeOK, AfterCommit, Return, Acknowledge, content
<1>4. FlagCovers'
  <2>1. CASE mode = "fast"
    BY <2>1 DEF FlagCovers, AfterCommit, content
  <2>2. CASE mode # "fast"
    BY <2>2 DEF FlagCovers, AfterCommit, content, IndInv, Session
  <2> QED BY <2>1, <2>2
<1>5. Session'
  BY <1>1, <1>4 DEF IndInv, TypeOK, Session, AfterCommit, Return, content, Found
<1>6. PromisesKept'
  BY <1>1, <1>2 DEF IndInv, Session, FlagCovers, PromisesKept, AfterCommit, Acknowledge, content
<1>7. Batches'
  BY DEF IndInv, Batches, AfterCommit, content, Found, Keys
<1> QED BY <1>3, <1>5, <1>6, <1>7 DEF IndInv

LEMMA CompactStep ==
    ASSUME IndInv, NEW t \in Tasks, CompactFlush(t) \/ CompactEnds(t) \/ IterBlockIds(t)
    PROVE  IndInv'
<1>1. CASE CompactFlush(t)
  <2>1. \A u \in Tasks : u # t => pc[u] = "idle"
    BY <1>1 DEF CompactFlush, IndInv, TypeOK
  <2>2. TypeOK'
    BY <1>1 DEF IndInv, TypeOK, CompactFlush
  <2>3. Session'
    BY <1>1, <2>1 DEF IndInv, TypeOK, Session, FlagCovers, CompactFlush
  <2>4. PromisesKept' /\ Batches'
    BY <1>1 DEF IndInv, Session, PromisesKept, Batches, CompactFlush
  <2> QED BY <2>2, <2>3, <2>4 DEF IndInv
<1>2. CASE CompactEnds(t)
  <2>1. durable = table
    BY <1>2 DEF CompactEnds, IndInv, Session
  <2>2. TypeOK'
    BY <1>2, NoneAssumption DEF IndInv, TypeOK, CompactEnds, Return, content, ghosts
  <2>3. Session'
    BY <1>2, <2>1 DEF IndInv, TypeOK, Session, FlagCovers, CompactEnds, Return, content, ghosts, Found
  <2>4. PromisesKept' /\ Batches'
    BY <1>2 DEF IndInv, PromisesKept, Batches, CompactEnds, content, ghosts, Found, Keys
  <2> QED BY <2>2, <2>3, <2>4 DEF IndInv
<1>3. CASE IterBlockIds(t)
  <2>1. mode # "closed"
    BY <1>3 DEF IndInv, Session, IterBlockIds
  <2>2. TypeOK'
    BY <1>3 DEF IndInv, TypeOK, IterBlockIds, content, ghosts, Keys
  <2>3. Session' /\ PromisesKept'
    BY <1>3, <2>1 DEF IndInv, Session, FlagCovers, PromisesKept, IterBlockIds, content, ghosts, Found
  <2>4. Batches'
    BY <1>3, FoundType DEF IndInv, Batches, IterBlockIds, content, ghosts, Found, Keys
  <2> QED BY <2>2, <2>3, <2>4 DEF IndInv
<1> QED BY <1>1, <1>2, <1>3

LEMMA CrashStep == IndInv /\ Crash => IndInv'
<1> SUFFICES ASSUME IndInv, Crash PROVE IndInv'
  OBVIOUS
<1>1. durable' = durable \/ durable' = table
  BY DEF Crash
<1>2. TypeOK'
  BY <1>1, NoneAssumption DEF IndInv, TypeOK, Crash, Surviving
<1>3. promised' \subseteq Found(durable')
  BY <1>1 DEF Crash, IndInv, PromisesKept, Session
<1>4. Session' /\ PromisesKept'
  BY <1>3 DEF Crash, Session, FlagCovers, PromisesKept
<1>5. Batches'
  <2>1. \A s \in batches' : s \subseteq Found(table')
    BY <1>1, SurvivingBatches DEF Crash, IndInv
  <2> QED BY <2>1 DEF Crash, Batches
<1> QED BY <1>2, <1>4, <1>5 DEF IndInv

LEMMA NextStep == IndInv /\ [Next]_vars => IndInv'
<1> SUFFICES ASSUME IndInv, [Next]_vars PROVE IndInv'
  OBVIOUS
<1>1. CASE UNCHANGED vars
  BY <1>1 DEF IndInv, TypeOK, Session, FlagCovers, PromisesKept, Batches, vars, Found, Keys
<1>2. CASE Next
  BY <1>2, HandleStep, DropStep, ReaderStep, TransactionStep, CommitStep, AfterCommitStep,
     CompactStep, CrashStep DEF Next, TaskStep
<1> QED BY <1>1, <1>2

LEMMA Invariant == Spec => []IndInv
  BY InitInv, NextStep, PTL DEF Spec

-----------------------------------------------------------------------------

\* RedbStore's variables keep their types, write transactions exclude each
\* other, and a read-only handle never sees a file that needs recovery.
THEOREM TypeCorrect == Spec => []TypeOK
<1>1. IndInv => TypeOK
  BY DEF IndInv
<1> QED BY <1>1, Invariant, PTL

\* put_block_bytes: in Durable mode a put that returned Ok survives every crash;
\* in Fast mode it does once compact_now or the last drop has flushed it.
THEOREM Durability == Spec => []PromisesKept
<1>1. IndInv => PromisesKept
  BY DEF IndInv
<1> QED BY <1>1, Invariant, PTL

\* flush_pending_writes: whatever is not durable is covered by pending_flush.
THEOREM FlushComplete == Spec => []FlagCovers
<1>1. IndInv => FlagCovers
  BY DEF IndInv, Session
<1> QED BY <1>1, Invariant, PTL

\* put_block_bytes_batch: no crash, failure or concurrent reader ever sees a
\* part of a batch.
THEOREM BatchesWhole == Spec => []BatchAtomic
<1>1. IndInv => BatchAtomic
  BY DEF IndInv, Batches, BatchAtomic
<1> QED BY <1>1, Invariant, PTL

\* put_block_bytes: bytes that conflict with a block are never replaced, by no
\* put, no batch, no flush and no recovery.
THEOREM ConflictsKept == Spec => NeverReplaced
<1> DEFINE Kept == \A b \in Blocks : table[b] = "other" => table'[b] = "other"
<1>1. ASSUME IndInv, [Next]_vars PROVE [Kept]_vars
  <2>1. CASE UNCHANGED vars
    BY <2>1
  <2>2. ASSUME NEW t \in Tasks, Commit(t) PROVE Kept
    BY <1>1, <2>2 DEF Commit, IndInv, TypeOK, Found, Keys
  <2>3. ASSUME table' = durable \/ table' = table PROVE Kept
    BY <1>1, <2>3 DEF IndInv, Session
  <2>4. ASSUME NEW t \in Tasks, DropLast(t) \/ DropFlushFails(t) PROVE Kept
    BY <2>3, <2>4 DEF DropLast, DropFlushFails, Close
  <2>5. CASE Crash
    BY <2>3, <2>5 DEF Crash
  <2>6. CASE OpenReadOnly \/ CloseReadOnly
    BY <2>3, <2>6 DEF OpenReadOnly, CloseReadOnly, content
  <2>7. ASSUME NEW t \in Tasks,
               \/ \E m \in {"durable", "fast"} : OpenReadWrite(t, m)
               \/ \E s \in SUBSET Blocks \ {{}} : Begin(t, s)
               \/ Clone(t) \/ DropClone(t) \/ IterBlockIds(t) \/ CompactFlush(t)
               \/ Abort(t) \/ NothingToDo(t) \/ AfterCommit(t) \/ CompactEnds(t)
        PROVE  Kept
    BY <2>3, <2>7 DEF OpenReadWrite, Begin, Clone, DropClone, IterBlockIds, CompactFlush,
       Abort, NothingToDo, AfterCommit, CompactEnds, content
  <2> HIDE DEF Kept
  <2> QED BY <1>1, <2>1, <2>2, <2>4, <2>5, <2>6, <2>7 DEF Next, TaskStep
<1> QED BY <1>1, Invariant, PTL DEF Spec, NeverReplaced

-----------------------------------------------------------------------------
(* Sums over finite sets.  A sum of lengths is the number of the bytes, and   *)
(* numbers of elements add up without an induction.                           *)

BytesOf(f, S) == UNION {{b} \X (1 .. f[b]) : b \in S}

LEMMA BytesFinite ==
    ASSUME NEW S, IsFiniteSet(S), NEW f, \A b \in S : f[b] \in Nat
    PROVE  IsFiniteSet(BytesOf(f, S)) /\ Cardinality(BytesOf(f, S)) \in Nat
<1> DEFINE Cell(b) == {b} \X (1 .. f[b])
           C == {Cell(b) : b \in S}
<1>1. IsFiniteSet(C)
  <2>1. [b \in S |-> Cell(b)] \in Surjection(S, C)
    BY DEF Surjection
  <2> QED BY <2>1, FS_Surjection
<1>2. \A c \in C : IsFiniteSet(c)
  <2> SUFFICES ASSUME NEW b \in S PROVE IsFiniteSet(Cell(b))
    OBVIOUS
  <2>1. PICK n \in Int : n = f[b]
    OBVIOUS
  <2>2. IsFiniteSet({b})
    BY FS_Singleton
  <2>3. IsFiniteSet(1 .. n)
    BY FS_Interval
  <2> QED BY <2>1, <2>2, <2>3, FS_Product
<1>3. IsFiniteSet(UNION C)
  <2> HIDE DEF C
  <2> QED BY <1>1, <1>2, FS_UNION
<1> QED BY <1>3, FS_CardinalityType DEF BytesOf

\* Disjoint sets.
LEMMA BytesAdd ==
    ASSUME NEW S, NEW T, IsFiniteSet(S), IsFiniteSet(T), S \cap T = {},
           NEW f, \A b \in S \cup T : f[b] \in Nat
    PROVE  Cardinality(BytesOf(f, S \cup T)) = Cardinality(BytesOf(f, S)) + Cardinality(BytesOf(f, T))
<1>1. BytesOf(f, S \cup T) = BytesOf(f, S) \cup BytesOf(f, T)
  BY DEF BytesOf
<1>2. BytesOf(f, S) \cap BytesOf(f, T) = {}
  BY DEF BytesOf
<1>3. /\ IsFiniteSet(BytesOf(f, S)) /\ Cardinality(BytesOf(f, S)) \in Nat
      /\ IsFiniteSet(BytesOf(f, T)) /\ Cardinality(BytesOf(f, T)) \in Nat
  BY BytesFinite
<1>4. PICK U, V : U = BytesOf(f, S) /\ V = BytesOf(f, T)
  OBVIOUS
<1>5. Cardinality(U \cup V) = Cardinality(U) + Cardinality(V) - Cardinality(U \cap V)
  BY <1>3, <1>4, FS_Union
<1>6. Cardinality(U \cap V) = 0
  BY <1>2, <1>4, FS_EmptySet
<1>7. Cardinality(U) \in Nat /\ Cardinality(V) \in Nat
  BY <1>3, <1>4
<1>8. Cardinality(U \cup V) = Cardinality(U) + Cardinality(V)
  BY <1>5, <1>6, <1>7
<1> QED BY <1>1, <1>4, <1>8, Zenon

LEMMA BytesSingle ==
    ASSUME NEW b, NEW f, f[b] \in Nat
    PROVE  Cardinality(BytesOf(f, {b})) = f[b]
<1>1. BytesOf(f, {b}) = {b} \X (1 .. f[b])
  BY DEF BytesOf
<1>2. PICK n \in Nat : n = f[b]
  OBVIOUS
<1>3. IsFiniteSet({b}) /\ Cardinality({b}) = 1
  BY FS_Singleton
<1>4. IsFiniteSet(1 .. n) /\ Cardinality(1 .. n) = n
  BY FS_Interval
<1>5. Cardinality({b} \X (1 .. n)) = Cardinality({b}) * Cardinality(1 .. n)
  BY <1>3, <1>4, FS_Product
<1>6. Cardinality({b} \X (1 .. n)) = n
  BY <1>3, <1>4, <1>5
<1> QED BY <1>1, <1>2, <1>6, Zenon

\* The sum of f over S.
Weight(f, S) == Cardinality(BytesOf(f, S))

\* The sum over a set, a part of it and the rest.
LEMMA WeightParts ==
    ASSUME NEW S, IsFiniteSet(S), NEW T \in SUBSET S, NEW f, \A b \in S : f[b] \in Nat
    PROVE  /\ Weight(f, S) = Weight(f, T) + Weight(f, S \ T)
           /\ Weight(f, S) \in Nat /\ Weight(f, T) \in Nat /\ Weight(f, S \ T) \in Nat
           /\ Weight(f, T) <= Weight(f, S)
<1>1. PICK U \in SUBSET S : U = S \ T
  OBVIOUS
<1>2. IsFiniteSet(T) /\ IsFiniteSet(U)
  BY FS_Subset
<1>3. T \cap U = {} /\ T \cup U = S
  BY <1>1
<1>4. \A b \in T \cup U : f[b] \in Nat
  OBVIOUS
<1>5. Weight(f, S) = Weight(f, T) + Weight(f, U)
  BY <1>2, <1>3, <1>4, BytesAdd DEF Weight
<1>6. Weight(f, S) \in Nat /\ Weight(f, T) \in Nat /\ Weight(f, U) \in Nat
  BY <1>2, BytesFinite DEF Weight
<1> QED BY <1>1, <1>5, <1>6

LEMMA WeightSingle ==
    ASSUME NEW b, NEW f, f[b] \in Nat
    PROVE  Weight(f, {b}) = f[b]
BY BytesSingle DEF Weight

LEMMA WeightEmpty == ASSUME NEW f PROVE Weight(f, {}) = 0
<1>1. BytesOf(f, {}) = {}
  BY DEF BytesOf
<1> QED BY <1>1, FS_EmptySet DEF Weight

LEMMA WeightSame ==
    ASSUME NEW S, NEW f, NEW g, \A b \in S : f[b] = g[b]
    PROVE  Weight(f, S) = Weight(g, S)
<1>1. BytesOf(f, S) = BytesOf(g, S)
  BY DEF BytesOf
<1> QED BY <1>1, Zenon DEF Weight

\* Everywhere less makes a sum that is no more.
LEMMA WeightAtLeast ==
    ASSUME NEW S, IsFiniteSet(S), NEW T \in SUBSET S, NEW f, NEW g,
           \A b \in S : g[b] \in Nat, \A b \in T : f[b] = g[b]
    PROVE  Weight(f, T) <= Weight(g, S)
<1>1. Weight(f, T) = Weight(g, T)
  BY WeightSame
<1>2. Weight(g, T) <= Weight(g, S)
  BY WeightParts
<1> QED BY <1>1, <1>2

\* The recursion of MapThenSumSet, with its function h.
Sums(h, f, S) ==
    h = [s \in SUBSET S |-> IF s = {} THEN 0
                            ELSE LET x == CHOOSE x \in s : TRUE IN f[x] + h[s \ {x}]]

LEMMA SumsExist ==
    ASSUME NEW S, IsFiniteSet(S), NEW f, \A b \in S : f[b] \in Nat
    PROVE  Sums([s \in SUBSET S |-> Weight(f, s)], f, S)
<1> DEFINE h == [s \in SUBSET S |-> Weight(f, s)]
<1> SUFFICES ASSUME NEW s \in SUBSET S
             PROVE  h[s] = IF s = {} THEN 0 ELSE LET x == CHOOSE x \in s : TRUE IN f[x] + h[s \ {x}]
  BY DEF Sums
<1>1. CASE s = {}
  BY <1>1, WeightEmpty
<1>2. CASE s # {}
  <2>1. PICK x \in s : x = CHOOSE y \in s : TRUE
    BY <1>2
  <2>2. IsFiniteSet(s) /\ {x} \in SUBSET s /\ s \ {x} \in SUBSET S /\ \A b \in s : f[b] \in Nat
    BY FS_Subset
  <2>3. /\ Weight(f, s) = Weight(f, {x}) + Weight(f, s \ {x}) /\ Weight(f, {x}) = f[x]
        /\ Weight(f, s \ {x}) \in Nat
    BY <2>2, WeightParts, WeightSingle
  <2> QED BY <1>2, <2>1, <2>2, <2>3
<1> QED BY <1>1, <1>2

LEMMA SumsUnique ==
    ASSUME NEW S, IsFiniteSet(S), NEW f, \A b \in S : f[b] \in Nat,
           NEW g, NEW h, Sums(g, f, S), Sums(h, f, S)
    PROVE  g[S] = h[S]
<1> DEFINE X == {s \in SUBSET S : g[s] # h[s]}
           R == StrictSubsetOrdering(S)
<1> SUFFICES ASSUME X # {} PROVE FALSE
  OBVIOUS
<1>1. IsWellFoundedOn(R, FiniteSubsetsOf(S)) /\ FiniteSubsetsOf(S) = SUBSET S
  BY FS_StrictSubsetOrderingWellFounded, FS_FiniteSubsetsOfFinite
<1> HIDE DEF R
<1>2. PICK s \in X : \A t \in X : ~(<<t, s>> \in R)
  <2>1. X \subseteq SUBSET S
    OBVIOUS
  <2> HIDE DEF X
  <2> QED BY <1>1, <2>1, WFMin
<1>3. CASE s = {}
  <2>1. g[s] = 0 /\ h[s] = 0
    BY <1>3 DEF Sums
  <2> QED BY <2>1
<1>4. CASE s # {}
  <2>1. PICK x \in s : x = CHOOSE y \in s : TRUE
    BY <1>4
  <2>2. g[s] = f[x] + g[s \ {x}] /\ h[s] = f[x] + h[s \ {x}]
    BY <1>4, <2>1 DEF Sums
  <2>3. s \ {x} \in X
    BY <2>2
  <2>4. <<s \ {x}, s>> \in R
    BY DEF R, StrictSubsetOrdering
  <2> QED BY <1>2, <2>3, <2>4
<1> QED BY <1>3, <1>4

LEMMA SumsSolved ==
    ASSUME NEW S, IsFiniteSet(S), NEW f, \A b \in S : f[b] \in Nat
    PROVE  (CHOOSE h : Sums(h, f, S))[S] = Weight(f, S)
<1>1. PICK h : h = CHOOSE g : Sums(g, f, S)
  OBVIOUS
<1>2. Sums(h, f, S)
  BY <1>1, SumsExist
<1>3. h[S] = [s \in SUBSET S |-> Weight(f, s)][S]
  BY <1>2, SumsExist, SumsUnique
<1> QED BY <1>1, <1>3

-----------------------------------------------------------------------------
(* The memory store.                                                        *)

CONSTANTS Clients, Sizes, BlockLimits, ByteLimits, MaxRecency
VARIABLES capacity, resident, size, recency, residentBytes, nextRecency, want, panicked

M == INSTANCE MemoryStore

LEMMA MemoryCardinality == \A S : M!Cardinality(S) = Cardinality(S)
BY DEF M!Cardinality, Cardinality

\* The inductive invariant: there are finitely many entries, which is what the
\* sums are defined for.
MemoryInv ==
    M!TypeOK /\ IsFiniteSet(resident) /\ M!AccountingExact /\ M!EvictionHasVictim

LEMMA SizesNatural == ASSUME M!TypeOK, M!MemoryAssumption PROVE \A b \in resident : size[b] \in Nat
<1>1. Sizes \cup {0} \subseteq Nat
  BY DEF M!MemoryAssumption
<1>2. \A b \in Blocks : size[b] \in Sizes \cup {0}
  BY DEF M!TypeOK
<1> QED BY <1>1, <1>2 DEF M!TypeOK

LEMMA SizeIsWeight ==
    ASSUME M!TypeOK, M!MemoryAssumption, IsFiniteSet(resident), NEW S \in SUBSET resident
    PROVE  M!SizeOf(S) = Weight(size, S)
<1>1. IsFiniteSet(S)
  BY FS_Subset
<1>2. \A b \in S : size[b] \in Nat
  BY SizesNatural
<1>3. M!SizeOf(S) = (CHOOSE h : Sums(h, size, S))[S]
  BY DEF M!SizeOf, Sums, M!MapThenSumSet, M!MapThenFoldSet
<1> QED BY <1>1, <1>2, <1>3, SumsSolved

LEMMA NextSizeIsWeight ==
    ASSUME IsFiniteSet(resident'), \A b \in resident' : size'[b] \in Nat
    PROVE  M!SizeOf(resident)' = Weight(size', resident')
<1>1. M!SizeOf(resident)' = (CHOOSE h : Sums(h, size', resident'))[resident']
  BY DEF M!SizeOf, Sums, M!MapThenSumSet, M!MapThenFoldSet
<1> QED BY <1>1, SumsSolved

LEMMA SizeUnchanged ==
    ASSUME M!MemoryAssumption, MemoryInv, resident' = resident, size' = size, residentBytes' = residentBytes,
           capacity' = capacity
    PROVE  M!AccountingExact'
<1>1. M!SizeOf(resident)' = Weight(size', resident') /\ M!SizeOf(resident) = Weight(size, resident)
  BY SizesNatural, SizeIsWeight, NextSizeIsWeight DEF MemoryInv
<1>2. M!SizeOf(resident)' = M!SizeOf(resident)
  BY <1>1
<1> QED BY <1>2 DEF MemoryInv, M!AccountingExact

\* What is left of the account when V and the old entry of b are taken out.
LEMMA Remaining ==
    ASSUME M!MemoryAssumption, MemoryInv, NEW b \in Blocks, NEW V \in SUBSET (resident \ {b})
    PROVE  /\ M!SaturatingSub(M!SaturatingSub(residentBytes, M!SizeOf(V)), M!OldLen(b))
                  = Weight(size, (resident \ V) \ {b})
           /\ Weight(size, (resident \ V) \ {b}) \in Nat
<1>t. \A x \in resident : size[x] \in Nat
  BY SizesNatural DEF MemoryInv
<1>1. /\ residentBytes = Weight(size, resident) /\ M!SizeOf(V) = Weight(size, V)
  BY SizeIsWeight DEF MemoryInv, M!AccountingExact
<1> DEFINE Q == resident \ V
           P == Q \ {b}
<1>2. V \in SUBSET resident /\ Q \in SUBSET resident /\ IsFiniteSet(resident) /\ IsFiniteSet(Q)
  BY FS_Subset DEF MemoryInv
<1>3. /\ Weight(size, resident) = Weight(size, V) + Weight(size, Q)
      /\ Weight(size, V) \in Nat /\ Weight(size, Q) \in Nat
  BY <1>2, <1>t, WeightParts
<1>4. M!SaturatingSub(residentBytes, M!SizeOf(V)) = Weight(size, Q)
  BY <1>1, <1>3 DEF M!SaturatingSub
<1>5. M!SaturatingSub(Weight(size, Q), M!OldLen(b)) = Weight(size, P) /\ Weight(size, P) \in Nat
  <2>1. CASE b \in resident
    <3>1. {b} \in SUBSET Q /\ \A x \in Q : size[x] \in Nat
      BY <2>1, <1>t
    <3>2. /\ Weight(size, Q) = Weight(size, {b}) + Weight(size, P)
          /\ Weight(size, P) \in Nat /\ Weight(size, {b}) = size[b] /\ size[b] \in Nat
      BY <3>1, <1>2, WeightParts, WeightSingle
    <3>3. M!OldLen(b) = size[b]
      BY <2>1 DEF M!OldLen
    <3> HIDE DEF P, Q
    <3> QED BY <3>2, <3>3 DEF M!SaturatingSub
  <2>2. CASE b \notin resident
    <3>1. P = Q /\ M!OldLen(b) = 0
      BY <2>2 DEF M!OldLen
    <3> HIDE DEF P, Q
    <3> QED BY <3>1, <1>3 DEF M!SaturatingSub
  <2> QED BY <2>1, <2>2
<1> HIDE DEF P, Q
<1>6. M!SaturatingSub(M!SaturatingSub(residentBytes, M!SizeOf(V)), M!OldLen(b)) = Weight(size, P)
  BY <1>4, <1>5
<1> QED BY <1>5, <1>6 DEF P, Q

\* When everything else is evicted, a payload within the budget fits.
LEMMA AllEvictedFits ==
    ASSUME M!MemoryAssumption, MemoryInv, NEW b \in Blocks, NEW n \in Sizes,
           capacity.mode = "bytes" => n <= capacity.limit
    PROVE  resident \ {b} \in M!LruPrefix(b) /\ M!Fits(b, n, resident \ {b})
<1> DEFINE V == resident \ {b}
<1> SUFFICES V \in M!LruPrefix(b) /\ M!Fits(b, n, V)
  OBVIOUS
<1>1. V \in M!LruPrefix(b)
  BY DEF M!LruPrefix
<1>2. capacity.limit \in Nat \ {0} /\ capacity.mode \in {"blocks", "bytes"} /\ n \in Nat
  BY DEF MemoryInv, M!TypeOK, M!Capacities, M!MemoryAssumption
<1>3. CASE capacity.mode = "blocks"
  <2>1. CASE b \in resident
    BY <1>1, <1>3, <2>1, MemoryCardinality DEF M!Fits, M!AllowsInsert
  <2>2. CASE b \notin resident
    <3>1. resident \ V = {}
      BY <2>2
    <3>2. Cardinality(resident \ V) = 0
      BY <3>1, FS_EmptySet
    <3> HIDE DEF V
    <3>3. Cardinality(resident \ V) < capacity.limit
      BY <3>2, <1>2
    <3> QED BY <1>1, <1>3, <3>3, MemoryCardinality DEF M!Fits, M!AllowsInsert
  <2> QED BY <2>1, <2>2
<1>4. CASE capacity.mode # "blocks"
  <2>1. (resident \ V) \ {b} = {}
    OBVIOUS
  <2>2. Weight(size, (resident \ V) \ {b}) = 0
    BY <2>1, WeightEmpty
  <2>3. M!SaturatingSub(M!SaturatingSub(residentBytes, M!SizeOf(V)), M!OldLen(b)) = 0
    BY <2>2, Remaining
  <2> HIDE DEF V
  <2>4. 0 + n <= capacity.limit
    BY <1>2, <1>4
  <2> QED BY <1>1, <1>4, <2>3, <2>4, MemoryCardinality DEF M!Fits, M!AllowsInsert
<1> QED BY <1>3, <1>4

\* The entries after an insert: those that stay, with b as the youngest.
LEMMA InsertKeeps ==
    ASSUME M!MemoryAssumption, MemoryInv, NEW b \in Blocks, NEW n \in Sizes, NEW V \in M!LruPrefix(b),
           M!Fits(b, n, V), nextRecency < MaxRecency, nextRecency' = nextRecency + 1,
           resident' = (resident \ V) \cup {b},
           size' = [[x \in Blocks |-> IF x \in V THEN 0 ELSE size[x]] EXCEPT ![b] = n],
           recency' = [[x \in Blocks |-> IF x \in V THEN 0 ELSE recency[x]] EXCEPT ![b] = nextRecency],
           residentBytes' = M!SaturatingSub(M!SaturatingSub(residentBytes, M!SizeOf(V)), M!OldLen(b)) + n,
           UNCHANGED <<panicked, capacity, pc, want>>
    PROVE  MemoryInv'
<1>t. M!TypeOK /\ IsFiniteSet(resident) /\ MaxRecency \in Nat /\ n \in Nat /\ V \in SUBSET (resident \ {b})
  BY DEF MemoryInv, M!MemoryAssumption, M!LruPrefix
<1> DEFINE P == (resident \ V) \ {b}
<1>1. /\ resident' = P \cup {b} /\ b \notin P /\ P \subseteq resident /\ resident \subseteq Blocks
      /\ P \cap V = {}
  BY <1>t DEF M!TypeOK
<1> HIDE DEF P
<1>2. IsFiniteSet(P) /\ IsFiniteSet(resident')
  BY <1>1, <1>t, FS_Subset, FS_AddElement
<1>3. \A x \in P : size'[x] = size[x] /\ recency'[x] = recency[x]
  BY <1>1
<1>4. size'[b] = n /\ recency'[b] = nextRecency
  OBVIOUS
<1>5. M!TypeOK'
  <2>1. size' \in [Blocks -> Sizes \cup {0}]
    <3>1. size \in [Blocks -> Sizes \cup {0}]
      BY <1>t DEF M!TypeOK
    <3> QED BY <3>1
  <2>2. nextRecency' \in 0 .. MaxRecency /\ nextRecency \in 0 .. MaxRecency /\ 0 \in 0 .. MaxRecency
    BY <1>t DEF M!TypeOK
  <2>3. recency' \in [Blocks -> 0 .. MaxRecency]
    <3>1. recency \in [Blocks -> 0 .. MaxRecency]
      BY <1>t DEF M!TypeOK
    <3> QED BY <2>2, <3>1
  <2>4. \A x, y \in resident' : recency'[x] < nextRecency' /\ (x # y => recency'[x] # recency'[y])
    <3>1. \A x, y \in P : recency[x] < nextRecency /\ (x # y => recency[x] # recency[y])
      BY <1>1, <1>t DEF M!TypeOK
    <3>2. nextRecency \in Nat /\ \A x \in P : recency[x] \in Nat
      BY <1>1, <1>t, <2>2 DEF M!TypeOK
    <3> QED BY <1>1, <1>3, <1>4, <3>1, <3>2
  <2>5. residentBytes' \in Nat
    <3>1. residentBytes' = Weight(size, P) + n /\ Weight(size, P) \in Nat
      BY <1>t, Remaining DEF P
    <3> QED BY <3>1, <1>t
  <2>6. capacity' \in M!Capacities /\ pc' \in [Clients -> {"idle", "cloned"}] /\ want' \in [Clients -> Blocks]
        /\ panicked' \in BOOLEAN
    BY <1>t DEF M!TypeOK
  <2>7. resident' \subseteq Blocks
    BY <1>1
  <2> QED BY <2>1, <2>2, <2>3, <2>4, <2>5, <2>6, <2>7 DEF M!TypeOK
<1>6. /\ residentBytes' = Weight(size, P) + n /\ Weight(size, P) \in Nat
  BY <1>t, Remaining DEF P
<1>7. M!SizeOf(resident)' = Weight(size, P) + n
  <2>1. PICK sz, r : sz = size' /\ r = resident'
    OBVIOUS
  <2>3. IsFiniteSet(r) /\ P \in SUBSET r /\ r \ P = {b} /\ r = P \cup {b}
    BY <1>1, <1>2, <2>1
  <2>4. sz[b] = n /\ \A x \in P : sz[x] = size[x] /\ size[x] \in Nat
    BY <1>1, <1>3, <1>4, <1>t, <2>1, SizesNatural
  <2>5. \A x \in r : sz[x] \in Nat
    BY <1>t, <2>3, <2>4
  <2>6. M!SizeOf(resident)' = Weight(sz, r)
    BY <2>1, <2>3, <2>5, NextSizeIsWeight
  <2>7. Weight(sz, r) = Weight(sz, P) + Weight(sz, r \ P)
    BY <2>3, <2>5, WeightParts
  <2>8. Weight(sz, P) = Weight(size, P)
    BY <2>4, WeightSame
  <2>9. Weight(sz, r \ P) = n
    BY <1>t, <2>3, <2>4, WeightSingle
  <2> QED BY <2>6, <2>7, <2>8, <2>9
<1>8. M!AccountingExact'
  <2>1. residentBytes' = M!SizeOf(resident)'
    BY <1>6, <1>7
  <2>2. capacity' = capacity /\ capacity.limit \in Nat
    BY <1>t DEF M!TypeOK, M!Capacities, M!MemoryAssumption
  <2>3. CASE capacity.mode = "blocks"
    <3>1. Cardinality(resident') = Cardinality(P) + 1 /\ Cardinality(P) \in Nat
      BY <1>1, <1>2, FS_AddElement, FS_CardinalityType
    <3>2. CASE b \in resident
      <4>1. Cardinality(resident') <= Cardinality(resident)
        BY <1>1, <1>t, <3>2, FS_Subset
      <4>2. Cardinality(resident) <= capacity.limit
        BY <2>3, MemoryCardinality DEF MemoryInv, M!AccountingExact
      <4>3. Cardinality(resident) \in Nat /\ Cardinality(resident') \in Nat
        BY <1>2, <1>t, FS_CardinalityType
      <4>4. Cardinality(resident') <= capacity.limit
        BY <4>1, <4>2, <4>3, <2>2
      <4> QED BY <2>1, <2>2, <2>3, <4>4, MemoryCardinality DEF M!AccountingExact
    <3>3. CASE b \notin resident
      <4>1. P = resident \ V
        BY <3>3, <1>t DEF P
      <4>2. Cardinality(P) < capacity.limit
        BY <2>3, <3>3, <4>1, MemoryCardinality DEF M!Fits, M!AllowsInsert
      <4>3. Cardinality(resident') <= capacity.limit
        BY <3>1, <4>2, <2>2
      <4> QED BY <2>1, <2>2, <2>3, <4>3, MemoryCardinality DEF M!AccountingExact
    <3> QED BY <3>2, <3>3
  <2>4. CASE capacity.mode # "blocks"
    <3>1. M!SaturatingSub(M!SaturatingSub(residentBytes, M!SizeOf(V)), M!OldLen(b)) + n <= capacity.limit
      BY <2>4, MemoryCardinality DEF M!Fits, M!AllowsInsert
    <3>2. M!SizeOf(resident)' <= capacity.limit
      BY <2>1, <3>1
    <3> QED BY <2>1, <2>2, <2>4, <3>2, MemoryCardinality DEF M!AccountingExact
  <2> QED BY <2>3, <2>4
<1> QED BY <1>2, <1>5, <1>8 DEF MemoryInv, M!EvictionHasVictim

\* A put within the budget evicts as few of the oldest entries as suffice: of the
\* prefixes of the order of use that make room there is a smallest.
LEMMA SmallestPrefix ==
    ASSUME M!MemoryAssumption, MemoryInv, NEW b \in Blocks, NEW n \in Sizes,
           capacity.mode = "bytes" => n <= capacity.limit
    PROVE  \E V \in {V \in M!LruPrefix(b) : M!Fits(b, n, V)} :
               \A W \in {W \in M!LruPrefix(b) : M!Fits(b, n, W)} : V \subseteq W
<1> DEFINE enough == {V \in M!LruPrefix(b) : M!Fits(b, n, V)}
           R == StrictSubsetOrdering(resident)
<1>1. IsWellFoundedOn(R, FiniteSubsetsOf(resident)) /\ FiniteSubsetsOf(resident) = SUBSET resident
  BY FS_StrictSubsetOrderingWellFounded, FS_FiniteSubsetsOfFinite DEF MemoryInv
<1>2. enough \subseteq SUBSET resident /\ enough # {}
  BY AllEvictedFits DEF M!LruPrefix
<1>3. PICK V \in enough : \A W \in enough : ~(<<W, V>> \in R)
  <2> HIDE DEF R, enough
  <2> QED BY <1>1, <1>2, WFMin
<1>4. ASSUME NEW W \in enough PROVE V \subseteq W
  <2>1. V \subseteq W \/ W \subseteq V
    <3> SUFFICES ASSUME NEW x \in V, x \notin W, NEW y \in W, y \notin V PROVE FALSE
      OBVIOUS
    <3>1. recency[x] < recency[y] /\ recency[y] < recency[x]
      BY DEF M!LruPrefix
    <3>2. recency[x] \in Nat /\ recency[y] \in Nat
      BY DEF M!LruPrefix, MemoryInv, M!TypeOK
    <3> QED BY <3>1, <3>2
  <2>2. W \subseteq V /\ W # V => <<W, V>> \in R
    BY <1>2 DEF StrictSubsetOrdering
  <2> QED BY <1>3, <2>1, <2>2
<1> QED BY <1>4

LEMMA MemoryStep == ASSUME M!MemoryAssumption, MemoryInv, [M!Next]_(M!vars) PROVE MemoryInv'
<1>t. M!TypeOK /\ MaxRecency \in Nat
  BY DEF MemoryInv, M!MemoryAssumption
<1>1. ASSUME NEW b \in Blocks, NEW n \in Sizes, M!Put(b, n) PROVE MemoryInv'
  <2>1. capacity.mode = "bytes" => n <= capacity.limit
    BY <1>1 DEF M!Put
  <2>2. {V \in M!LruPrefix(b) : M!Fits(b, n, V)} # {}
    BY <2>1, AllEvictedFits
  <2>3. PICK V \in M!LruPrefix(b) :
           /\ M!Fits(b, n, V)
           /\ resident' = (resident \ V) \cup {b}
           /\ size' = [[x \in Blocks |-> IF x \in V THEN 0 ELSE size[x]] EXCEPT ![b] = n]
           /\ recency' = [[x \in Blocks |-> IF x \in V THEN 0 ELSE recency[x]] EXCEPT ![b] = nextRecency]
           /\ residentBytes' = M!SaturatingSub(M!SaturatingSub(residentBytes, M!SizeOf(V)), M!OldLen(b)) + n
           /\ UNCHANGED panicked
    <3> DEFINE enough == {V \in M!LruPrefix(b) : M!Fits(b, n, V)}
    <3>1. \E V \in enough :
           /\ resident' = (resident \ V) \cup {b}
           /\ size' = [[x \in Blocks |-> IF x \in V THEN 0 ELSE size[x]] EXCEPT ![b] = n]
           /\ recency' = [[x \in Blocks |-> IF x \in V THEN 0 ELSE recency[x]] EXCEPT ![b] = nextRecency]
           /\ residentBytes' = M!SaturatingSub(M!SaturatingSub(residentBytes, M!SizeOf(V)), M!OldLen(b)) + n
           /\ UNCHANGED panicked
      BY <1>1, <2>2, Zenon DEF M!Put
    <3> QED BY <3>1, Zenon
  <2>4. /\ nextRecency < MaxRecency /\ nextRecency' = nextRecency + 1
        /\ UNCHANGED <<panicked, capacity, pc, want>>
    BY <1>1, <2>3 DEF M!Put
  <2> QED BY <2>3, <2>4, InsertKeeps
<1>2. ASSUME NEW c \in Clients, NEW b \in Blocks, M!GetClone(c, b) PROVE MemoryInv'
  <2>1. M!TypeOK'
    BY <1>2, <1>t DEF M!GetClone, M!TypeOK
  <2>2. M!AccountingExact'
    BY <1>2, SizeUnchanged DEF M!GetClone
  <2> QED BY <1>2, <2>1, <2>2 DEF M!GetClone, MemoryInv, M!EvictionHasVictim
<1>3. ASSUME NEW c \in Clients, M!GetRefresh(c) PROVE MemoryInv'
  <2>1. nextRecency \in 0 .. MaxRecency /\ nextRecency' \in 0 .. MaxRecency /\ nextRecency' = nextRecency + 1
    BY <1>3, <1>t DEF M!GetRefresh, M!TypeOK
  <2>2. recency' \in [Blocks -> 0 .. MaxRecency]
    BY <1>3, <1>t, <2>1 DEF M!GetRefresh, M!TypeOK
  <2>3. \A x, y \in resident : recency'[x] < nextRecency' /\ (x # y => recency'[x] # recency'[y])
    <3>1. \A x, y \in resident : recency[x] < nextRecency /\ (x # y => recency[x] # recency[y])
      BY <1>t DEF M!TypeOK
    <3>2. \A x \in resident : /\ recency[x] \in Nat
                              /\ recency'[x] = recency[x] \/ (x = want[c] /\ recency'[x] = nextRecency)
      BY <1>3, <1>t DEF M!GetRefresh, M!TypeOK
    <3>3. nextRecency \in Nat
      BY <2>1
    <3> QED BY <2>1, <3>1, <3>2, <3>3
  <2>4. M!TypeOK'
    <3>1. capacity' \in M!Capacities /\ resident' = resident /\ resident' \subseteq Blocks
          /\ size' \in [Blocks -> Sizes \cup {0}] /\ residentBytes' \in Nat /\ want' \in [Clients -> Blocks]
      BY <1>3, <1>t DEF M!GetRefresh, M!TypeOK
    <3>2. pc' \in [Clients -> {"idle", "cloned"}]
      BY <1>3, <1>t DEF M!GetRefresh, M!TypeOK
    <3>3. panicked' \in BOOLEAN
      BY <1>3, <1>t DEF M!GetRefresh, M!TypeOK
    <3> QED BY <2>1, <2>2, <2>3, <3>1, <3>2, <3>3, Zenon DEF M!TypeOK
  <2>5. M!AccountingExact'
    BY <1>3, SizeUnchanged DEF M!GetRefresh
  <2> QED BY <1>3, <2>4, <2>5 DEF M!GetRefresh, MemoryInv, M!EvictionHasVictim
<1>4. CASE UNCHANGED M!vars
  <2>1. UNCHANGED <<capacity, resident, size, recency, residentBytes, nextRecency, pc, want, panicked>>
    BY <1>4 DEF M!vars
  <2>2. M!TypeOK'
    BY <1>t, <2>1, Zenon DEF M!TypeOK
  <2>3. M!AccountingExact'
    BY <2>1, SizeUnchanged
  <2> QED BY <2>1, <2>2, <2>3 DEF MemoryInv, M!EvictionHasVictim
<1> QED BY <1>1, <1>2, <1>3, <1>4 DEF M!Next, M!ReadOnly

\* The memory store, for every number of threads, blocks and lengths and every
\* capacity: after any sequence of inserts, replacements and evictions
\* resident_bytes is the sum of the resident payloads and the capacity holds, and
\* evict_lru_excluding always finds a victim.
THEOREM MemoryBounded ==
    ASSUME M!MemoryAssumption PROVE M!Spec => [](M!AccountingExact /\ M!EvictionHasVictim)
<1>1. ASSUME M!Init PROVE MemoryInv
  <2>1. IsFiniteSet(resident) /\ Cardinality(resident) = 0
    BY <1>1, FS_EmptySet DEF M!Init
  <2>2. M!TypeOK
    <3>1. 0 \in 0 .. MaxRecency /\ 0 \in Nat
      BY DEF M!MemoryAssumption
    <3>2. panicked \in BOOLEAN
      BY <1>1 DEF M!Init
    <3> QED BY <1>1, <3>1, <3>2 DEF M!Init, M!TypeOK
  <2>3. M!SizeOf(resident) = 0
    BY <1>1, <2>1, <2>2, SizeIsWeight, WeightEmpty DEF M!Init
  <2>4. capacity.limit \in Nat
    BY <2>2 DEF M!TypeOK, M!Capacities, M!MemoryAssumption
  <2>5. M!AccountingExact
    BY <1>1, <2>1, <2>3, <2>4, MemoryCardinality DEF M!Init, M!AccountingExact
  <2> QED BY <1>1, <2>1, <2>2, <2>5 DEF M!Init, MemoryInv, M!EvictionHasVictim
<1>2. MemoryInv /\ [M!Next]_(M!vars) => MemoryInv'
  BY MemoryStep
<1>3. MemoryInv => M!AccountingExact /\ M!EvictionHasVictim
  BY DEF MemoryInv
<1> QED BY <1>1, <1>2, <1>3, PTL DEF M!Spec

-----------------------------------------------------------------------------
(* The filesystem cache.                                                    *)

CONSTANTS Getters, Size, ForeignLen, MaxBytes, MaxTime, MaxLosses
VARIABLES files, clock, losses, todo, kept, blk, reading, unfit

C == INSTANCE FsCache

LEMMA CacheCardinality == \A S : C!Cardinality(S) = Cardinality(S)
BY DEF C!Cardinality, Cardinality

LEMMA CacheFinite == \A S : C!IsFiniteSet(S) <=> IsFiniteSet(S)
BY DEF C!IsFiniteSet, IsFiniteSet

\* The account of entries e: what the entries S hold, whether b fits without V,
\* and the prefixes of the order of use.
LengthIn(e) == [b \in DOMAIN e |-> e[b].bytes]
Held(e, S) == Weight(LengthIn(e), S)
RoomIn(e, b, V) == Held(e, (DOMAIN e \ V) \ {b}) + Size[b] <= MaxBytes
PrefixesIn(e, b) ==
    {V \in SUBSET (DOMAIN e \ {b}) :
        \A v \in V : \A u \in (DOMAIN e \ {b}) \ V : e[v].recency < e[u].recency}

\* A table of the cache: finite, of lengths, and no two entries share a recency.
Table(e, n) ==
    /\ DOMAIN e \subseteq Blocks /\ e \in [DOMAIN e -> C!EntryType]
    /\ \A a, b \in DOMAIN e : e[a].recency < n /\ (a # b => e[a].recency # e[b].recency)

\* Every file of f outside T has its entry, with the length of the file.
Accounted(f, e, T) ==
    \A b \in DOMAIN f \ T : b \in DOMAIN e /\ e[b].bytes = f[b].len

\* The plan of a put of b that still has to evict V.
PlanIn(e, b, V) ==
    /\ V # {} /\ V \in PrefixesIn(e, b) /\ RoomIn(e, b, V)
    /\ \A W \in PrefixesIn(e, b) : RoomIn(e, b, W) => V \subseteq W

\* The inductive invariant.
CacheInv ==
    /\ C!TypeOK
    /\ Table(entries, nextRecency)
    /\ residentBytes = Held(entries, DOMAIN entries) /\ residentBytes <= MaxBytes
    /\ ~unfit
    /\ \A b \in DOMAIN files : files[b].good => files[b].len = Size[b]
    /\ mode # "up" => lock = "free"
    /\ mode = "up" => Accounted(files, entries, {})
    /\ mode = "opening" => Accounted(files, entries, todo)
    /\ lock = "evicting" => PlanIn(entries, blk, todo)
    /\ lock = "publishing" => RoomIn(entries, blk, {})
    /\ C!OpeningKeepsNewest

LEMMA TableSums ==
    ASSUME C!FsCacheAssumption, NEW e, NEW n, Table(e, n)
    PROVE  /\ IsFiniteSet(DOMAIN e)
           /\ \A b \in DOMAIN e : /\ LengthIn(e)[b] = e[b].bytes /\ e[b].bytes \in Nat
                                  /\ LengthIn(e)[b] \in Nat /\ e[b].recency \in Nat
           /\ \A S \in SUBSET DOMAIN e : Held(e, S) \in Nat /\ Held(e, S) <= Held(e, DOMAIN e)
<1>1. IsFiniteSet(DOMAIN e)
  BY FS_Subset, CacheFinite DEF C!FsCacheAssumption, Table
<1>2. ASSUME NEW b \in DOMAIN e
      PROVE  LengthIn(e)[b] = e[b].bytes /\ e[b].bytes \in Nat /\ LengthIn(e)[b] \in Nat /\ e[b].recency \in Nat
  <2>1. e[b] \in C!EntryType
    BY DEF Table
  <2> QED BY <2>1 DEF LengthIn, C!EntryType
<1>3. ASSUME NEW S \in SUBSET DOMAIN e PROVE Held(e, S) \in Nat /\ Held(e, S) <= Held(e, DOMAIN e)
  BY <1>1, <1>2, WeightParts DEF Held
<1> QED BY <1>1, <1>2, <1>3

\* Taking b out of the table.
LEMMA HeldWithout ==
    ASSUME C!FsCacheAssumption, NEW e, NEW n, Table(e, n), NEW b \in DOMAIN e
    PROVE  /\ Held(e, DOMAIN e) = e[b].bytes + Held(e, DOMAIN e \ {b})
           /\ Held(e, DOMAIN e \ {b}) \in Nat
<1>1. {b} \in SUBSET DOMAIN e
  OBVIOUS
<1>2. Held(e, {b}) = e[b].bytes
  BY TableSums, WeightSingle DEF Held
<1>3. Held(e, DOMAIN e) = Held(e, {b}) + Held(e, DOMAIN e \ {b}) /\ Held(e, DOMAIN e \ {b}) \in Nat
  BY <1>1, TableSums, WeightParts DEF Held
<1> QED BY <1>2, <1>3

LEMMA WithoutTable ==
    ASSUME C!FsCacheAssumption, NEW e, NEW n, Table(e, n), NEW b \in DOMAIN e
    PROVE  /\ Table(C!Without(e, b), n)
           /\ DOMAIN C!Without(e, b) = DOMAIN e \ {b}
           /\ \A x \in DOMAIN e \ {b} : C!Without(e, b)[x] = e[x]
           /\ \A S \in SUBSET (DOMAIN e \ {b}) : Held(C!Without(e, b), S) = Held(e, S)
<1>1. DOMAIN C!Without(e, b) = DOMAIN e \ {b} /\ \A x \in DOMAIN e \ {b} : C!Without(e, b)[x] = e[x]
  BY DEF C!Without
<1>2. Table(C!Without(e, b), n)
  <2>1. C!Without(e, b) \in [DOMAIN e \ {b} -> C!EntryType]
    BY DEF C!Without, Table
  <2> QED BY <1>1, <2>1 DEF Table
<1>3. ASSUME NEW S \in SUBSET (DOMAIN e \ {b}) PROVE Held(C!Without(e, b), S) = Held(e, S)
  <2>1. \A x \in S : LengthIn(C!Without(e, b))[x] = LengthIn(e)[x]
    BY <1>1 DEF LengthIn
  <2> QED BY <2>1, WeightSame DEF Held
<1> QED BY <1>1, <1>2, <1>3

\* Putting b into the table as the youngest.
Grown(e, g, b, n) ==
    /\ Table(g, n + 1)
    /\ DOMAIN g = DOMAIN e \cup {b}
    /\ \A x \in DOMAIN e \ {b} : g[x] = e[x]
    /\ g[b].bytes = Size[b]
    /\ Held(g, DOMAIN g) = Held(e, DOMAIN e \ {b}) + Size[b]

LEMMA WithTable ==
    ASSUME C!FsCacheAssumption, NEW e, NEW n \in Nat, Table(e, n), NEW b \in Blocks, n < MaxRecency,
           NEW g, g = C!With(e, b, [bytes |-> Size[b], recency |-> n])
    PROVE  Grown(e, g, b, n)
<1> DEFINE v == [bytes |-> Size[b], recency |-> n]
<1>1. DOMAIN g = DOMAIN e \cup {b} /\ g[b] = v /\ \A x \in DOMAIN e \ {b} : g[x] = e[x]
  BY DEF C!With
<1>2. Size[b] \in Nat /\ n \in 0 .. MaxRecency /\ b \in Blocks
  BY DEF C!FsCacheAssumption
<1>3. v \in C!EntryType /\ v.bytes = Size[b] /\ v.recency = n
  BY <1>2 DEF C!EntryType
<1>4. g \in [DOMAIN e \cup {b} -> C!EntryType]
  BY <1>3 DEF C!With, Table
<1> HIDE DEF v
<1>5. Table(g, n + 1)
  <2>1. DOMAIN g \subseteq Blocks /\ g \in [DOMAIN g -> C!EntryType]
    BY <1>1, <1>4 DEF Table
  <2>2. ASSUME NEW x \in DOMAIN g, NEW y \in DOMAIN g
        PROVE  g[x].recency < n + 1 /\ (x # y => g[x].recency # g[y].recency)
    <3>0. \A z \in DOMAIN e : e[z].recency \in Nat
      BY TableSums
    <3>1. \A z \in DOMAIN e \ {b} : g[z].recency \in Nat /\ g[z].recency < n
      BY <1>1, <3>0 DEF Table
    <3>2. \A z, w \in DOMAIN e \ {b} : z # w => g[z].recency # g[w].recency
      BY <1>1 DEF Table
    <3> QED BY <1>1, <1>3, <3>1, <3>2
  <2> QED BY <2>1, <2>2 DEF Table
<1>6. Held(g, DOMAIN g \ {b}) = Held(e, DOMAIN e \ {b})
  <2>1. DOMAIN g \ {b} = DOMAIN e \ {b}
    BY <1>1
  <2>2. \A x \in DOMAIN e \ {b} : LengthIn(g)[x] = LengthIn(e)[x]
    BY <1>1 DEF LengthIn
  <2> QED BY <2>1, <2>2, WeightSame DEF Held
<1>7. Held(g, DOMAIN g) = g[b].bytes + Held(g, DOMAIN g \ {b}) /\ Held(g, DOMAIN g \ {b}) \in Nat
  BY <1>1, <1>5, HeldWithout
<1>8. Held(g, DOMAIN g) = Held(e, DOMAIN e \ {b}) + Size[b]
  BY <1>1, <1>2, <1>3, <1>6, <1>7
<1> QED BY <1>1, <1>3, <1>5, <1>8 DEF Grown

\* The sums of the model.
LEMMA EntrySum ==
    ASSUME C!FsCacheAssumption, Table(entries, nextRecency), NEW S \in SUBSET DOMAIN entries
    PROVE  C!EntryBytes(S) = Held(entries, S)
<1>1. C!EntryLength = LengthIn(entries)
  BY DEF C!EntryLength, LengthIn
<1>2. IsFiniteSet(S) /\ \A b \in S : C!EntryLength[b] \in Nat
  BY <1>1, TableSums, FS_Subset
<1>3. C!EntryBytes(S) = (CHOOSE h : Sums(h, C!EntryLength, S))[S]
  BY DEF C!EntryBytes, Sums, C!MapThenSumSet, C!MapThenFoldSet
<1> QED BY <1>1, <1>2, <1>3, SumsSolved DEF Held

LEMMA FileSum ==
    ASSUME C!FsCacheAssumption, C!TypeOK, NEW S \in SUBSET DOMAIN files
    PROVE  /\ C!FileBytes(S) = Weight(C!FileLength, S) /\ IsFiniteSet(S)
           /\ \A b \in S : C!FileLength[b] = files[b].len /\ files[b].len \in Nat
<1>1. ASSUME NEW b \in S PROVE C!FileLength[b] = files[b].len /\ files[b].len \in Nat
  <2>1. files[b] \in C!FileType /\ \A x \in Blocks : Size[x] \in Nat
    BY DEF C!TypeOK, C!FsCacheAssumption
  <2>2. files[b].len \in ForeignLen \cup {Size[x] : x \in Blocks}
    BY <2>1 DEF C!FileType
  <2> QED BY <2>1, <2>2 DEF C!FileLength, C!FsCacheAssumption
<1>2. IsFiniteSet(S)
  BY FS_Subset, CacheFinite DEF C!TypeOK, C!FsCacheAssumption
<1>3. C!FileBytes(S) = (CHOOSE h : Sums(h, C!FileLength, S))[S]
  BY DEF C!FileBytes, Sums, C!MapThenSumSet, C!MapThenFoldSet
<1> QED BY <1>1, <1>2, <1>3, SumsSolved

\* The account without the entry of b.
LEMMA AccountWithout ==
    ASSUME C!FsCacheAssumption, CacheInv, NEW b \in Blocks
    PROVE  /\ C!SaturatingSub(residentBytes, C!ExistingBytes(b)) = Held(entries, DOMAIN entries \ {b})
           /\ Held(entries, DOMAIN entries \ {b}) \in Nat
<1>t. Table(entries, nextRecency) /\ residentBytes = Held(entries, DOMAIN entries)
  BY DEF CacheInv
<1> DEFINE D == DOMAIN entries \ {b}
<1>1. C!SaturatingSub(residentBytes, C!ExistingBytes(b)) = Held(entries, D) /\ Held(entries, D) \in Nat
  <2>1. CASE b \in DOMAIN entries
    <3>1. /\ Held(entries, DOMAIN entries) = entries[b].bytes + Held(entries, D)
          /\ Held(entries, D) \in Nat /\ entries[b].bytes \in Nat
      BY <1>t, <2>1, HeldWithout, TableSums
    <3> HIDE DEF D
    <3> QED BY <1>t, <2>1, <3>1 DEF C!SaturatingSub, C!ExistingBytes
  <2>2. CASE b \notin DOMAIN entries
    <3>1. D = DOMAIN entries /\ Held(entries, D) \in Nat
      BY <1>t, <2>2, TableSums
    <3> HIDE DEF D
    <3> QED BY <1>t, <2>2, <3>1 DEF C!SaturatingSub, C!ExistingBytes
  <2> QED BY <2>1, <2>2
<1> QED BY <1>1

LEMMA RoomIs ==
    ASSUME C!FsCacheAssumption, CacheInv, NEW b \in Blocks, NEW V \in SUBSET (DOMAIN entries \ {b})
    PROVE  C!Room(b, V) <=> RoomIn(entries, b, V)
<1>t. Table(entries, nextRecency) /\ residentBytes = Held(entries, DOMAIN entries)
  BY DEF CacheInv
<1> DEFINE D == DOMAIN entries \ {b}
<1>1. C!SaturatingSub(residentBytes, C!ExistingBytes(b)) = Held(entries, D) /\ Held(entries, D) \in Nat
  BY AccountWithout
<1>2. /\ Held(entries, D) = Held(entries, V) + Held(entries, D \ V)
      /\ Held(entries, V) \in Nat /\ Held(entries, D \ V) \in Nat
  <2>1. IsFiniteSet(D) /\ V \in SUBSET D /\ \A x \in D : LengthIn(entries)[x] \in Nat
    BY <1>t, TableSums, FS_Subset
  <2> HIDE DEF D
  <2> QED BY <2>1, WeightParts DEF Held
<1>3. C!EntryBytes(V) = Held(entries, V)
  BY <1>t, EntrySum
<1>4. D \ V = (DOMAIN entries \ V) \ {b}
  OBVIOUS
<1> HIDE DEF D
<1>5. C!SaturatingSub(C!SaturatingSub(residentBytes, C!ExistingBytes(b)), C!EntryBytes(V)) = Held(entries, D \ V)
  BY <1>1, <1>2, <1>3 DEF C!SaturatingSub
<1> QED BY <1>4, <1>5 DEF C!Room, RoomIn

\* When every other entry is evicted, a payload within the budget fits.
LEMMA EmptyCacheFits ==
    ASSUME C!FsCacheAssumption, CacheInv, NEW b \in Blocks, Size[b] <= MaxBytes
    PROVE  {V \in C!LruPrefix(b) : C!Room(b, V)} # {}
<1> DEFINE V == DOMAIN entries \ {b}
<1>1. V \in C!LruPrefix(b) /\ V \in SUBSET (DOMAIN entries \ {b})
  BY DEF C!LruPrefix
<1>2. RoomIn(entries, b, V)
  <2>1. (DOMAIN entries \ V) \ {b} = {}
    OBVIOUS
  <2>2. Held(entries, (DOMAIN entries \ V) \ {b}) = 0
    BY <2>1, WeightEmpty DEF Held
  <2>3. 0 + Size[b] <= MaxBytes
    BY DEF C!FsCacheAssumption
  <2> HIDE DEF V
  <2> QED BY <2>2, <2>3 DEF RoomIn
<1>3. C!Room(b, V)
  BY <1>1, <1>2, RoomIs
<1> QED BY <1>1, <1>3

\* Files only disappear.
LEMMA WithoutFile ==
    ASSUME C!TypeOK, NEW b, files' = C!Without(files, b)
    PROVE  /\ DOMAIN files' \subseteq DOMAIN files /\ DOMAIN files' = DOMAIN files \ {b}
           /\ \A x \in DOMAIN files' : files'[x] = files[x]
           /\ DOMAIN files' \subseteq Blocks /\ files' \in [DOMAIN files' -> C!FileType]
<1>1. DOMAIN files' = DOMAIN files \ {b} /\ \A x \in DOMAIN files' : files'[x] = files[x]
  BY DEF C!Without
<1>2. files' \in [DOMAIN files \ {b} -> C!FileType]
  BY DEF C!Without, C!TypeOK
<1> QED BY <1>1, <1>2 DEF C!TypeOK

\* A step that leaves the table alone and at most removes files.
LEMMA FewerFiles ==
    ASSUME CacheInv, UNCHANGED <<C!cacheVars, unfit>>, C!TypeOK',
           DOMAIN files' \subseteq DOMAIN files, \A x \in DOMAIN files' : files'[x] = files[x]
    PROVE  /\ Table(entries, nextRecency)'
           /\ residentBytes' = Held(entries, DOMAIN entries)' /\ residentBytes' <= MaxBytes
           /\ ~unfit'
           /\ \A b \in DOMAIN files' : files'[b].good => files'[b].len = Size[b]
           /\ \A T, U : Accounted(files, entries, T) /\ T \cap DOMAIN files' \subseteq U
                           => Accounted(files', entries', U)
           /\ \A a, b \in DOMAIN files' : C!Older(a, b) => C!Older(a, b)'
<1>1. entries' = entries /\ residentBytes' = residentBytes /\ nextRecency' = nextRecency /\ unfit' = unfit
  BY DEF C!cacheVars
<1>2. Table(entries, nextRecency)' /\ residentBytes' = Held(entries, DOMAIN entries)'
  BY <1>1 DEF CacheInv, Table, Held, LengthIn, Weight, BytesOf
<1>3. residentBytes' <= MaxBytes /\ ~unfit'
  BY <1>1 DEF CacheInv
<1>4. \A b \in DOMAIN files' : files'[b].good => files'[b].len = Size[b]
  BY DEF CacheInv
<1>5. \A a, b \in DOMAIN files' : C!Older(a, b) => C!Older(a, b)'
  BY DEF C!Older
<1> QED BY <1>1, <1>2, <1>3, <1>4, <1>5 DEF Accounted

LEMMA OpenEvictKeeps == ASSUME C!FsCacheAssumption, CacheInv, C!OpenEvict PROVE CacheInv'
<1>t. C!TypeOK /\ mode = "opening" /\ lock = "free" /\ C!OpeningKeepsNewest /\ Accounted(files, entries, todo)
  BY DEF C!OpenEvict, CacheInv
<1>1. PICK b \in todo : todo' = todo \ {b} /\ files' = C!Without(files, b)
  BY DEF C!OpenEvict
<1>2. /\ DOMAIN files' \subseteq DOMAIN files /\ DOMAIN files' = DOMAIN files \ {b}
      /\ \A x \in DOMAIN files' : files'[x] = files[x]
      /\ DOMAIN files' \subseteq Blocks /\ files' \in [DOMAIN files' -> C!FileType]
  BY <1>t, <1>1, WithoutFile
<1>3. UNCHANGED <<clock, losses, mode, lock, C!cacheVars, kept, blk, reading, unfit>>
  BY DEF C!OpenEvict
<1>4. C!TypeOK'
  BY <1>t, <1>1, <1>2, <1>3, Zenon DEF C!TypeOK, C!cacheVars
<1>5. Accounted(files', entries', todo')
  BY <1>t, <1>1, <1>2, <1>3, <1>4, FewerFiles
<1>6. C!OpeningKeepsNewest'
  <2> SUFFICES ASSUME NEW x \in todo' \cap DOMAIN files', NEW y \in kept' \cap DOMAIN files'
               PROVE  C!Older(x, y)'
    BY DEF C!OpeningKeepsNewest
  <2>1. C!Older(x, y)
    BY <1>t, <1>1, <1>2, <1>3 DEF C!OpeningKeepsNewest
  <2> QED BY <1>2, <1>3, <1>4, <2>1, FewerFiles
<1>7. lock' = "free" /\ mode' = "opening"
  BY <1>t, <1>3
<1> QED BY <1>2, <1>3, <1>4, <1>5, <1>6, <1>7, FewerFiles DEF CacheInv

LEMMA OpenDoneKeeps == ASSUME C!FsCacheAssumption, CacheInv, C!OpenDone PROVE CacheInv'
<1>t. C!TypeOK /\ mode = "opening" /\ lock = "free" /\ Accounted(files, entries, {})
  BY DEF C!OpenDone, CacheInv
<1>1. UNCHANGED <<files, clock, losses, lock, C!cacheVars, todo, blk, reading, unfit>> /\ mode' = "up"
      /\ kept' = {}
  BY DEF C!OpenDone, C!diskVars
<1>2. C!TypeOK'
  <2>1. kept' \subseteq Blocks /\ mode' \in {"down", "opening", "up"}
    BY <1>1
  <2> QED BY <1>t, <1>1, <2>1, Zenon DEF C!TypeOK, C!cacheVars
<1>3. DOMAIN files' \subseteq DOMAIN files /\ \A x \in DOMAIN files' : files'[x] = files[x]
  BY <1>1
<1>4. Accounted(files', entries', {})
  BY <1>t, <1>1, <1>2, <1>3, FewerFiles
<1>5. C!OpeningKeepsNewest'
  BY <1>1 DEF C!OpeningKeepsNewest
<1> QED BY <1>t, <1>1, <1>2, <1>3, <1>4, <1>5, FewerFiles DEF CacheInv

\* Steps of the environment and of readers that leave mode, lock and the plan.
LEMMA QuietKeeps ==
    ASSUME C!FsCacheAssumption, CacheInv, UNCHANGED <<C!cacheVars, unfit, mode, lock, todo, kept, blk>>, C!TypeOK',
           DOMAIN files' \subseteq DOMAIN files, \A x \in DOMAIN files' : files'[x] = files[x]
    PROVE  CacheInv'
<1>1. UNCHANGED <<C!cacheVars, unfit>> /\ entries' = entries
  BY DEF C!cacheVars
<1>2. mode' = mode /\ lock' = lock /\ todo' = todo /\ kept' = kept /\ blk' = blk
  OBVIOUS
<1>3. mode' = "up" => Accounted(files', entries', {})
  BY <1>1, <1>2, FewerFiles DEF CacheInv
<1>4. mode' = "opening" => Accounted(files', entries', todo')
  BY <1>1, <1>2, FewerFiles DEF CacheInv
<1>5. C!OpeningKeepsNewest'
  <2> SUFFICES ASSUME mode' = "opening", NEW x \in todo' \cap DOMAIN files', NEW y \in kept' \cap DOMAIN files'
               PROVE  C!Older(x, y)'
    BY DEF C!OpeningKeepsNewest
  <2>1. C!Older(x, y)
    BY <1>2 DEF CacheInv, C!OpeningKeepsNewest
  <2> QED BY <1>1, <2>1, FewerFiles
<1>6. /\ mode' # "up" => lock' = "free"
      /\ lock' = "evicting" => PlanIn(entries', blk', todo')
      /\ lock' = "publishing" => RoomIn(entries', blk', {})
  BY <1>1, <1>2 DEF CacheInv
<1> QED BY <1>1, <1>3, <1>4, <1>5, <1>6, FewerFiles DEF CacheInv

LEMMA EnvironmentKeeps ==
    ASSUME C!FsCacheAssumption, CacheInv,
           \/ C!Tick
           \/ \E b \in Blocks : C!Lose(b)
           \/ \E g \in Getters, b \in Blocks : C!GetRead(g, b)
           \/ UNCHANGED C!vars
    PROVE  CacheInv'
<1>t. C!TypeOK
  BY DEF CacheInv
<1>1. CASE C!Tick
  <2>1. clock' \in 0 .. MaxTime
    BY <1>t, <1>1 DEF C!Tick, C!TypeOK, C!FsCacheAssumption
  <2>2. UNCHANGED <<files, losses, mode, lock, entries, residentBytes, nextRecency, todo, kept, blk, reading, unfit>>
    BY <1>1 DEF C!Tick, C!cacheVars
  <2>3. C!TypeOK'
    BY <1>t, <2>1, <2>2, Zenon DEF C!TypeOK
  <2> QED BY <2>2, <2>3, QuietKeeps DEF C!cacheVars
<1>2. ASSUME NEW b \in Blocks, C!Lose(b) PROVE CacheInv'
  <2>1. losses' \in 0 .. MaxLosses
    BY <1>t, <1>2 DEF C!Lose, C!TypeOK, C!FsCacheAssumption
  <2>2. UNCHANGED <<clock, mode, lock, entries, residentBytes, nextRecency, todo, kept, blk, reading, unfit>>
        /\ files' = C!Without(files, b)
    BY <1>2 DEF C!Lose, C!cacheVars
  <2>3. /\ DOMAIN files' \subseteq DOMAIN files /\ \A x \in DOMAIN files' : files'[x] = files[x]
        /\ DOMAIN files' \subseteq Blocks /\ files' \in [DOMAIN files' -> C!FileType]
    BY <1>t, <2>2, WithoutFile
  <2>4. C!TypeOK'
    BY <1>t, <2>1, <2>2, <2>3, Zenon DEF C!TypeOK
  <2> QED BY <2>2, <2>3, <2>4, QuietKeeps DEF C!cacheVars
<1>3. ASSUME NEW g \in Getters, NEW b \in Blocks, C!GetRead(g, b) PROVE CacheInv'
  <2>1. reading' \in [Getters -> Blocks \cup {C!Nobody}]
    BY <1>t, <1>3 DEF C!GetRead, C!TypeOK
  <2>2. UNCHANGED <<files, clock, losses, mode, lock, entries, residentBytes, nextRecency, todo, kept, blk, unfit>>
    BY <1>3 DEF C!GetRead, C!cacheVars, C!diskVars
  <2>3. C!TypeOK'
    BY <1>t, <2>1, <2>2, Zenon DEF C!TypeOK
  <2> QED BY <2>2, <2>3, QuietKeeps DEF C!cacheVars
<1>4. CASE UNCHANGED C!vars
  <2>1. UNCHANGED <<files, clock, losses, mode, lock, entries, residentBytes, nextRecency, todo, kept, blk, reading, unfit>>
    BY <1>4 DEF C!vars
  <2>2. C!TypeOK'
    BY <1>t, <2>1, Zenon DEF C!TypeOK
  <2> QED BY <2>1, <2>2, QuietKeeps DEF C!cacheVars
<1> QED BY <1>1, <1>2, <1>3, <1>4

LEMMA PlanKeeps == ASSUME C!FsCacheAssumption, CacheInv, NEW b \in Blocks, C!PlanEvictions(b) PROVE CacheInv'
<1> DEFINE enough == {V \in C!LruPrefix(b) : C!Room(b, V)}
<1>t. C!TypeOK /\ mode = "up" /\ Accounted(files, entries, {}) /\ Size[b] <= MaxBytes
  BY DEF C!PlanEvictions, CacheInv
<1>1. enough # {}
  BY <1>t, EmptyCacheFits
<1>2. PICK V \in enough :
         /\ \A W \in enough : V \subseteq W
         /\ todo' = V /\ blk' = b /\ lock' = (IF V = {} THEN "publishing" ELSE "evicting")
         /\ unfit' = unfit
  BY <1>1, Zenon DEF C!PlanEvictions
<1>3. UNCHANGED <<files, clock, losses, mode, entries, residentBytes, nextRecency, kept, reading>>
  BY DEF C!PlanEvictions, C!diskVars, C!cacheVars
<1>4. V \in PrefixesIn(entries, b) /\ V \in SUBSET (DOMAIN entries \ {b}) /\ C!Room(b, V)
  BY DEF C!LruPrefix, PrefixesIn
<1>5. RoomIn(entries, b, V)
  BY <1>4, RoomIs
<1>6. ASSUME NEW W \in PrefixesIn(entries, b), RoomIn(entries, b, W) PROVE V \subseteq W
  <2>1. W \in C!LruPrefix(b) /\ W \in SUBSET (DOMAIN entries \ {b})
    BY DEF C!LruPrefix, PrefixesIn
  <2>2. C!Room(b, W)
    BY <1>6, <2>1, RoomIs
  <2> QED BY <1>2, <2>1, <2>2
<1> HIDE DEF enough
<1>7. lock' = "evicting" => PlanIn(entries', blk', todo')
  BY <1>2, <1>3, <1>4, <1>5, <1>6 DEF PlanIn
<1>8. lock' = "publishing" => RoomIn(entries', blk', {})
  BY <1>2, <1>3, <1>5
<1>9. C!TypeOK'
  <2>1. todo' \subseteq Blocks /\ blk' \in Blocks /\ lock' \in {"free", "evicting", "publishing"}
    BY <1>t, <1>2, <1>4 DEF C!TypeOK
  <2> QED BY <1>t, <1>2, <1>3, <2>1, Zenon DEF C!TypeOK
<1>10. /\ UNCHANGED <<C!cacheVars, unfit>> /\ mode' = "up"
       /\ DOMAIN files' \subseteq DOMAIN files /\ \A x \in DOMAIN files' : files'[x] = files[x]
  BY <1>t, <1>2, <1>3 DEF C!cacheVars
<1>11. Accounted(files', entries', {}) /\ C!OpeningKeepsNewest'
  BY <1>t, <1>3, <1>10 DEF C!OpeningKeepsNewest
<1> QED BY <1>7, <1>8, <1>9, <1>10, <1>11, FewerFiles DEF CacheInv

\* The victim is the least recently used entry but that of the put, and the
\* payload does not fit yet.
LEMMA VictimOldest ==
    ASSUME C!FsCacheAssumption, CacheInv, lock = "evicting", NEW b \in todo,
           \A a \in todo : entries[b].recency <= entries[a].recency
    PROVE  /\ b \in DOMAIN entries /\ b # blk /\ blk \in Blocks
           /\ \A u \in DOMAIN entries \ {blk, b} : entries[b].recency < entries[u].recency
           /\ ~C!Room(blk, {})
<1>t. PlanIn(entries, blk, todo) /\ blk \in Blocks /\ Table(entries, nextRecency)
  BY DEF CacheInv, C!TypeOK
<1>1. b \in DOMAIN entries /\ b # blk /\ todo \subseteq DOMAIN entries \ {blk}
  BY <1>t DEF PlanIn, PrefixesIn
<1>2. ASSUME NEW u \in DOMAIN entries \ {blk, b} PROVE entries[b].recency < entries[u].recency
  <2>1. entries[b].recency \in Nat /\ entries[u].recency \in Nat /\ entries[b].recency # entries[u].recency
    BY <1>t, <1>1, TableSums DEF Table
  <2>2. CASE u \in todo
    BY <2>1, <2>2
  <2>3. CASE u \notin todo
    BY <1>t, <2>3 DEF PlanIn, PrefixesIn
  <2> QED BY <2>2, <2>3
<1>3. ~C!Room(blk, {})
  <2> SUFFICES ASSUME C!Room(blk, {}) PROVE FALSE
    OBVIOUS
  <2>1. RoomIn(entries, blk, {})
    BY <1>t, RoomIs
  <2>2. {} \in PrefixesIn(entries, blk)
    BY DEF PrefixesIn
  <2> QED BY <1>t, <2>1, <2>2 DEF PlanIn
<1> QED BY <1>t, <1>1, <1>2, <1>3

\* The rest of a plan is the plan of the table without its first victim.
LEMMA PlanShrinks ==
    ASSUME C!FsCacheAssumption, CacheInv, lock = "evicting", NEW b \in todo,
           \A a \in todo : entries[b].recency <= entries[a].recency
    PROVE  /\ RoomIn(C!Without(entries, b), blk, todo \ {b})
           /\ todo \ {b} # {} => PlanIn(C!Without(entries, b), blk, todo \ {b})
<1>t. PlanIn(entries, blk, todo) /\ Table(entries, nextRecency)
  BY DEF CacheInv
<1>1. /\ b \in DOMAIN entries /\ b # blk
      /\ \A u \in DOMAIN entries \ {blk, b} : entries[b].recency < entries[u].recency
  BY VictimOldest
<1>2. PICK e : e = C!Without(entries, b)
  OBVIOUS
<1>3. /\ Table(e, nextRecency) /\ DOMAIN e = DOMAIN entries \ {b}
      /\ \A x \in DOMAIN entries \ {b} : e[x] = entries[x]
      /\ \A S \in SUBSET (DOMAIN entries \ {b}) : Held(e, S) = Held(entries, S)
  BY <1>t, <1>1, <1>2, WithoutTable
<1>4. ASSUME NEW W, b \notin W PROVE RoomIn(e, blk, W) <=> RoomIn(entries, blk, W \cup {b})
  <2>1. (DOMAIN e \ W) \ {blk} = (DOMAIN entries \ (W \cup {b})) \ {blk}
    BY <1>3
  <2>2. Held(e, (DOMAIN e \ W) \ {blk}) = Held(entries, (DOMAIN entries \ (W \cup {b})) \ {blk})
    BY <1>3, <2>1
  <2> QED BY <2>2 DEF RoomIn
<1>5. (todo \ {b}) \cup {b} = todo
  OBVIOUS
<1>6. RoomIn(e, blk, todo \ {b})
  BY <1>t, <1>4, <1>5 DEF PlanIn
<1>7. todo \ {b} \in PrefixesIn(e, blk)
  BY <1>t, <1>3 DEF PlanIn, PrefixesIn
<1>8. ASSUME NEW W \in PrefixesIn(e, blk), RoomIn(e, blk, W) PROVE todo \ {b} \subseteq W
  <2>1. b \notin W /\ W \cup {b} \in PrefixesIn(entries, blk)
    BY <1>1, <1>3 DEF PrefixesIn
  <2>2. RoomIn(entries, blk, W \cup {b})
    BY <1>4, <1>8, <2>1
  <2> QED BY <1>t, <2>1, <2>2 DEF PlanIn
<1> QED BY <1>2, <1>6, <1>7, <1>8 DEF PlanIn

LEMMA EvictKeeps == ASSUME C!FsCacheAssumption, CacheInv, C!Evict PROVE CacheInv'
<1>t. C!TypeOK /\ lock = "evicting" /\ mode = "up" /\ Accounted(files, entries, {}) /\ Table(entries, nextRecency)
  BY DEF C!Evict, CacheInv
<1>u. UNCHANGED <<clock, losses, mode, kept, blk, reading, unfit>>
  BY DEF C!Evict
<1>n. C!OpeningKeepsNewest'
  BY <1>t, <1>u DEF C!OpeningKeepsNewest
<1>1. ASSUME NEW b \in todo, \A a \in todo : entries[b].recency <= entries[a].recency,
             files' = C!Without(files, b), C!ApplyEviction(b), todo' = todo \ {b},
             lock' = IF todo' = {} THEN "publishing" ELSE lock
      PROVE  CacheInv'
  <2>1. b \in DOMAIN entries /\ b # blk
    BY <1>t, <1>1, VictimOldest
  <2>2. entries' = C!Without(entries, b) /\ nextRecency' = nextRecency
        /\ residentBytes' = C!SaturatingSub(residentBytes, entries[b].bytes)
    BY <1>1 DEF C!ApplyEviction
  <2>3. /\ Table(entries', nextRecency') /\ DOMAIN entries' = DOMAIN entries \ {b}
        /\ \A x \in DOMAIN entries \ {b} : entries'[x] = entries[x]
        /\ \A S \in SUBSET (DOMAIN entries \ {b}) : Held(entries', S) = Held(entries, S)
    BY <1>t, <2>1, <2>2, WithoutTable
  <2>4. residentBytes' = Held(entries', DOMAIN entries') /\ residentBytes' \in Nat /\ residentBytes' <= MaxBytes
    <3>1. /\ residentBytes = entries[b].bytes + Held(entries, DOMAIN entries \ {b})
          /\ Held(entries, DOMAIN entries \ {b}) \in Nat /\ entries[b].bytes \in Nat
          /\ residentBytes <= MaxBytes /\ MaxBytes \in Nat
      BY <1>t, <2>1, HeldWithout, TableSums DEF CacheInv, C!FsCacheAssumption
    <3>2. Held(entries', DOMAIN entries') = Held(entries, DOMAIN entries \ {b})
      BY <2>3
    <3> QED BY <2>2, <3>1, <3>2 DEF C!SaturatingSub
  <2>5. /\ DOMAIN files' \subseteq DOMAIN files /\ DOMAIN files' = DOMAIN files \ {b}
        /\ \A x \in DOMAIN files' : files'[x] = files[x]
        /\ DOMAIN files' \subseteq Blocks /\ files' \in [DOMAIN files' -> C!FileType]
    BY <1>t, <1>1, WithoutFile
  <2>6. Accounted(files', entries', {})
    BY <1>t, <2>3, <2>5 DEF Accounted
  <2>7. \A x \in DOMAIN files' : files'[x].good => files'[x].len = Size[x]
    BY <2>5 DEF CacheInv
  <2>8. /\ RoomIn(entries', blk', todo')
        /\ todo' # {} => PlanIn(entries', blk', todo')
    BY <1>t, <1>u, <1>1, <2>2, PlanShrinks
  <2>9. /\ lock' = "evicting" => PlanIn(entries', blk', todo')
        /\ lock' = "publishing" => RoomIn(entries', blk', {})
    BY <1>t, <1>1, <2>8
  <2>10. C!TypeOK'
    <3>1. DOMAIN entries' \subseteq Blocks /\ entries' \in [DOMAIN entries' -> C!EntryType]
      BY <2>3 DEF Table
    <3>2. lock' \in {"free", "evicting", "publishing"} /\ todo' \subseteq Blocks
      BY <1>t, <1>1 DEF C!TypeOK
    <3> QED BY <1>t, <1>u, <2>2, <2>4, <2>5, <3>1, <3>2, Zenon DEF C!TypeOK
  <2>11. ~unfit' /\ mode' = "up"
    BY <1>t, <1>u DEF CacheInv
  <2> QED BY <1>n, <2>3, <2>4, <2>6, <2>7, <2>9, <2>10, <2>11 DEF CacheInv
<1>2. CASE lock' = "free" /\ todo' = {} /\ UNCHANGED <<files, C!cacheVars>>
  <2>1. C!TypeOK'
    <3>1. lock' \in {"free", "evicting", "publishing"} /\ todo' \subseteq Blocks
      BY <1>2
    <3> QED BY <1>t, <1>u, <1>2, <3>1, Zenon DEF C!TypeOK, C!cacheVars
  <2>2. /\ UNCHANGED <<C!cacheVars, unfit>> /\ mode' = "up" /\ entries' = entries /\ files' = files
    BY <1>t, <1>u, <1>2 DEF C!cacheVars
  <2>3. DOMAIN files' \subseteq DOMAIN files /\ \A x \in DOMAIN files' : files'[x] = files[x]
    BY <2>2
  <2>4. Accounted(files', entries', {})
    BY <1>t, <2>2
  <2> QED BY <1>2, <1>n, <2>1, <2>2, <2>3, <2>4, FewerFiles DEF CacheInv
<1> QED BY <1>1, <1>2 DEF C!Evict

LEMMA PublishKeeps == ASSUME C!FsCacheAssumption, CacheInv, C!Publish PROVE CacheInv'
<1>t. /\ C!TypeOK /\ lock = "publishing" /\ mode = "up" /\ Accounted(files, entries, {})
      /\ Table(entries, nextRecency) /\ RoomIn(entries, blk, {}) /\ blk \in Blocks
      /\ nextRecency \in Nat /\ MaxRecency \in Nat /\ Size[blk] \in Nat
  BY DEF C!Publish, CacheInv, C!TypeOK, C!FsCacheAssumption
<1>u. UNCHANGED <<clock, losses, mode, todo, kept, blk, reading, unfit>> /\ lock' = "free"
  BY DEF C!Publish
<1>n. C!OpeningKeepsNewest'
  BY <1>t, <1>u DEF C!OpeningKeepsNewest
<1>1. ASSUME nextRecency < MaxRecency, C!Upsert(blk),
             DOMAIN files' = DOMAIN files \cup {blk}, files'[blk].len = Size[blk],
             files' \in [DOMAIN files' -> C!FileType], \A x \in DOMAIN files \ {blk} : files'[x] = files[x]
      PROVE  CacheInv'
  <2>1. /\ entries' = C!With(entries, blk, [bytes |-> Size[blk], recency |-> nextRecency])
        /\ residentBytes' = C!SaturatingSub(residentBytes, C!ExistingBytes(blk)) + Size[blk]
        /\ nextRecency' = nextRecency + 1
    BY <1>1 DEF C!Upsert
  <2>2. /\ Table(entries', nextRecency') /\ DOMAIN entries' = DOMAIN entries \cup {blk}
        /\ \A x \in DOMAIN entries \ {blk} : entries'[x] = entries[x]
        /\ entries'[blk].bytes = Size[blk]
        /\ Held(entries', DOMAIN entries') = Held(entries, DOMAIN entries \ {blk}) + Size[blk]
    <3>1. PICK g : g = entries'
      OBVIOUS
    <3>2. Grown(entries, g, blk, nextRecency)
      BY <1>t, <1>1, <2>1, <3>1, WithTable
    <3> QED BY <2>1, <3>1, <3>2 DEF Grown
  <2>3. /\ C!SaturatingSub(residentBytes, C!ExistingBytes(blk)) = Held(entries, DOMAIN entries \ {blk})
        /\ Held(entries, DOMAIN entries \ {blk}) \in Nat
    BY <1>t, AccountWithout
  <2>4. (DOMAIN entries \ {}) \ {blk} = DOMAIN entries \ {blk}
    OBVIOUS
  <2>5. /\ residentBytes' = Held(entries', DOMAIN entries') /\ residentBytes' \in Nat
        /\ residentBytes' <= MaxBytes
    BY <1>t, <2>1, <2>2, <2>3, <2>4 DEF RoomIn
  <2>6. Accounted(files', entries', {})
    BY <1>t, <1>1, <2>2 DEF Accounted
  <2>7. \A x \in DOMAIN files' : files'[x].good => files'[x].len = Size[x]
    BY <1>1 DEF CacheInv
  <2>8. C!TypeOK'
    <3>1. DOMAIN entries' \subseteq Blocks /\ entries' \in [DOMAIN entries' -> C!EntryType]
      BY <2>2 DEF Table
    <3>2. lock' \in {"free", "evicting", "publishing"} /\ nextRecency' \in 0 .. MaxRecency
          /\ DOMAIN files' \subseteq Blocks
      BY <1>t, <1>u, <1>1, <2>1 DEF C!TypeOK
    <3> QED BY <1>t, <1>u, <1>1, <2>5, <3>1, <3>2, Zenon DEF C!TypeOK
  <2>9. ~unfit' /\ mode' = "up"
    BY <1>t, <1>u DEF CacheInv
  <2> QED BY <1>n, <1>u, <2>2, <2>5, <2>6, <2>7, <2>8, <2>9 DEF CacheInv
<1>2. CASE /\ blk \notin DOMAIN files
           /\ files' = C!With(files, blk, [len |-> Size[blk], mtime |-> clock, good |-> TRUE])
           /\ nextRecency < MaxRecency
           /\ C!Upsert(blk)
  <2>1. [len |-> Size[blk], mtime |-> clock, good |-> TRUE] \in C!FileType
    BY <1>t DEF C!FileType, C!TypeOK
  <2>2. files' \in [DOMAIN files \cup {blk} -> C!FileType]
    BY <1>t, <1>2, <2>1 DEF C!With, C!TypeOK
  <2>3. DOMAIN files' = DOMAIN files \cup {blk} /\ files'[blk].len = Size[blk]
        /\ \A x \in DOMAIN files \ {blk} : files'[x] = files[x]
    BY <1>2 DEF C!With
  <2> QED BY <1>1, <1>2, <2>2, <2>3
<1>3. CASE /\ blk \in DOMAIN files /\ files[blk].good
           /\ UNCHANGED files
           /\ nextRecency < MaxRecency
           /\ C!Upsert(blk)
  <2>1. DOMAIN files' = DOMAIN files \cup {blk} /\ files'[blk].len = Size[blk]
        /\ \A x \in DOMAIN files \ {blk} : files'[x] = files[x]
    BY <1>3 DEF CacheInv
  <2>2. files' \in [DOMAIN files' -> C!FileType]
    BY <1>3, <1>t DEF C!TypeOK
  <2> QED BY <1>1, <1>3, <2>1, <2>2
<1>4. CASE UNCHANGED <<files, C!cacheVars>>
  <2>1. C!TypeOK'
    <3>1. lock' \in {"free", "evicting", "publishing"}
      BY <1>u
    <3> QED BY <1>t, <1>u, <1>4, <3>1, Zenon DEF C!TypeOK, C!cacheVars
  <2>2. UNCHANGED <<C!cacheVars, unfit>> /\ mode' = "up" /\ entries' = entries /\ files' = files
    BY <1>t, <1>u, <1>4 DEF C!cacheVars
  <2>3. DOMAIN files' \subseteq DOMAIN files /\ \A x \in DOMAIN files' : files'[x] = files[x]
    BY <2>2
  <2>4. Accounted(files', entries', {})
    BY <1>t, <2>2
  <2> QED BY <1>u, <1>n, <2>1, <2>2, <2>3, <2>4, FewerFiles DEF CacheInv
<1> QED BY <1>2, <1>3, <1>4 DEF C!Publish

LEMMA ObserveKeeps == ASSUME C!FsCacheAssumption, CacheInv, NEW g \in Getters, C!ObserveRead(g) PROVE CacheInv'
<1>t. /\ C!TypeOK /\ lock = "free" /\ mode = "up" /\ Accounted(files, entries, {})
      /\ Table(entries, nextRecency) /\ nextRecency \in Nat /\ nextRecency < MaxRecency /\ MaxRecency \in Nat
  BY DEF C!ObserveRead, CacheInv, C!TypeOK, C!FsCacheAssumption
<1>u. UNCHANGED <<files, clock, losses, mode, lock, residentBytes, todo, kept, blk, unfit>>
      /\ nextRecency' = nextRecency + 1
  BY DEF C!ObserveRead, C!diskVars
<1>n. C!OpeningKeepsNewest'
  BY <1>t, <1>u DEF C!OpeningKeepsNewest
<1>1. /\ DOMAIN entries' = DOMAIN entries /\ entries' \in [DOMAIN entries -> C!EntryType]
      /\ \A x \in DOMAIN entries : /\ entries'[x].bytes = entries[x].bytes
                                   /\ \/ entries'[x].recency = entries[x].recency
                                      \/ x = reading[g] /\ entries'[x].recency = nextRecency
  <2>1. CASE reading[g] \in DOMAIN entries
    <3>1. entries' = [entries EXCEPT ![reading[g]].recency = nextRecency]
      BY <2>1 DEF C!ObserveRead
    <3>2. \A x \in DOMAIN entries : entries[x] \in C!EntryType
      BY <1>t DEF Table
    <3>3. [entries[reading[g]] EXCEPT !.recency = nextRecency] \in C!EntryType
      BY <1>t, <2>1, <3>2 DEF C!EntryType
    <3>4. entries' = [x \in DOMAIN entries |->
                         IF x = reading[g] THEN [entries[x] EXCEPT !.recency = nextRecency] ELSE entries[x]]
      BY <2>1, <3>1, <1>t DEF Table
    <3>5. \A x \in DOMAIN entries : entries'[x] \in C!EntryType
      BY <3>2, <3>3, <3>4
    <3>6. DOMAIN entries' = DOMAIN entries /\ entries' \in [DOMAIN entries -> C!EntryType]
      BY <3>4, <3>5
    <3>7. ASSUME NEW x \in DOMAIN entries, x = reading[g]
          PROVE  entries'[x].bytes = entries[x].bytes /\ entries'[x].recency = nextRecency
      <4>1. entries'[x] = [entries[x] EXCEPT !.recency = nextRecency] /\ entries[x] \in C!EntryType
        BY <3>2, <3>4, <3>7
      <4> QED BY <4>1 DEF C!EntryType
    <3>8. ASSUME NEW x \in DOMAIN entries, x # reading[g] PROVE entries'[x] = entries[x]
      BY <3>4, <3>8
    <3> QED BY <3>6, <3>7, <3>8
  <2>2. CASE reading[g] \notin DOMAIN entries
    BY <1>t, <2>2 DEF C!ObserveRead, Table
  <2> QED BY <2>1, <2>2
<1>2. Table(entries', nextRecency')
  <2>1. DOMAIN entries' \subseteq Blocks /\ entries' \in [DOMAIN entries' -> C!EntryType]
    BY <1>1, <1>t DEF Table
  <2>2. \A x \in DOMAIN entries : entries[x].recency \in Nat
    BY <1>t, TableSums
  <2>3. \A x, y \in DOMAIN entries : entries[x].recency < nextRecency
        /\ (x # y => entries[x].recency # entries[y].recency)
    BY <1>t DEF Table
  <2>4. \A x, y \in DOMAIN entries' : entries'[x].recency < nextRecency'
        /\ (x # y => entries'[x].recency # entries'[y].recency)
    BY <1>t, <1>u, <1>1, <2>2, <2>3
  <2> QED BY <2>1, <2>4 DEF Table
<1>3. residentBytes' = Held(entries', DOMAIN entries')
  <2>1. \A x \in DOMAIN entries : LengthIn(entries')[x] = LengthIn(entries)[x]
    BY <1>1 DEF LengthIn
  <2>2. Held(entries', DOMAIN entries) = Held(entries, DOMAIN entries)
    BY <2>1, WeightSame DEF Held
  <2> QED BY <1>1, <1>u, <2>2 DEF CacheInv
<1>4. Accounted(files', entries', {})
  BY <1>t, <1>u, <1>1 DEF Accounted
<1>5. C!TypeOK'
  <2>1. reading' \in [Getters -> Blocks \cup {C!Nobody}]
    BY <1>t DEF C!ObserveRead, C!TypeOK
  <2>2. nextRecency' \in 0 .. MaxRecency
    BY <1>t, <1>u
  <2>3. DOMAIN entries' \subseteq Blocks /\ entries' \in [DOMAIN entries' -> C!EntryType]
    BY <1>2 DEF Table
  <2> QED BY <1>t, <1>u, <2>1, <2>2, <2>3, Zenon DEF C!TypeOK
<1>6. /\ ~unfit' /\ mode' = "up" /\ lock' = "free" /\ residentBytes' <= MaxBytes
      /\ \A x \in DOMAIN files' : files'[x].good => files'[x].len = Size[x]
  BY <1>t, <1>u DEF CacheInv
<1> QED BY <1>n, <1>2, <1>3, <1>4, <1>5, <1>6 DEF CacheInv

LEMMA EmptyTable ==
    ASSUME C!FsCacheAssumption
    PROVE  /\ DOMAIN << >> = {} /\ Table(<< >>, 0) /\ Held(<< >>, DOMAIN << >>) = 0
<1>1. DOMAIN << >> = {} /\ << >> \in [{} -> C!EntryType]
  OBVIOUS
<1>2. Table(<< >>, 0)
  BY <1>1 DEF Table
<1>3. Held(<< >>, {}) = 0
  BY WeightEmpty DEF Held
<1> QED BY <1>1, <1>2, <1>3

LEMMA CrashKeeps == ASSUME C!FsCacheAssumption, CacheInv, C!Crash PROVE CacheInv'
<1>t. C!TypeOK
  BY DEF CacheInv
<1>1. UNCHANGED <<files, clock, losses, blk, unfit>>
  BY DEF C!Crash, C!diskVars
<1>2. mode' = "down" /\ lock' = "free" /\ entries' = << >> /\ residentBytes' = 0 /\ nextRecency' = 0
      /\ todo' = {} /\ kept' = {}
  BY DEF C!Crash
<1>3. C!TypeOK'
  <2>1. mode' \in {"down", "opening", "up"} /\ lock' \in {"free", "evicting", "publishing"}
        /\ residentBytes' \in Nat /\ nextRecency' \in 0 .. MaxRecency /\ todo' \subseteq Blocks
              /\ kept' \subseteq Blocks
    BY <1>2 DEF C!FsCacheAssumption
  <2>2. DOMAIN entries' \subseteq Blocks /\ entries' \in [DOMAIN entries' -> C!EntryType]
    BY <1>2, EmptyTable DEF Table
  <2>3. reading' \in [Getters -> Blocks \cup {C!Nobody}]
    BY DEF C!Crash
  <2> QED BY <1>t, <1>1, <2>1, <2>2, <2>3, Zenon DEF C!TypeOK
<1>4. Table(entries', nextRecency') /\ residentBytes' = Held(entries', DOMAIN entries')
      /\ residentBytes' <= MaxBytes
  BY <1>2, EmptyTable DEF C!FsCacheAssumption
<1>5. ~unfit' /\ \A x \in DOMAIN files' : files'[x].good => files'[x].len = Size[x]
  BY <1>1 DEF CacheInv
<1>6. C!OpeningKeepsNewest'
  BY <1>2 DEF C!OpeningKeepsNewest
<1> QED BY <1>2, <1>3, <1>4, <1>5, <1>6 DEF CacheInv

\* The order of the scan is total, so that the ranks in it are distinct.
LEMMA ScanOrder ==
    ASSUME C!FsCacheAssumption, C!TypeOK
    PROVE  /\ \A a \in DOMAIN files : ~C!Older(a, a)
           /\ \A a, b \in DOMAIN files : a # b => C!Older(a, b) \/ C!Older(b, a)
           /\ \A a, b, c \in DOMAIN files : C!Older(a, b) /\ C!Older(b, c) => C!Older(a, c)
<1>1. \A a \in DOMAIN files : a \in Nat /\ files[a] \in C!FileType
  BY DEF C!TypeOK, C!FsCacheAssumption
<1>2. \A a \in DOMAIN files : a \in Nat /\ files[a].mtime \in Nat
  BY <1>1 DEF C!FileType
<1> QED BY <1>2 DEF C!Older

Rank(K, b) == Cardinality({a \in K : C!Older(a, b)})

LEMMA RanksDistinct ==
    ASSUME C!FsCacheAssumption, C!TypeOK, NEW K \in SUBSET DOMAIN files
    PROVE  /\ Cardinality(K) \in 0 .. MaxRecency
           /\ \A b \in K : Rank(K, b) \in Nat /\ Rank(K, b) < Cardinality(K)
           /\ \A a, b \in K : a # b => Rank(K, a) # Rank(K, b)
<1>1. IsFiniteSet(K) /\ Cardinality(K) <= Cardinality(Blocks) /\ Cardinality(K) \in Nat
  <2>1. K \subseteq Blocks /\ IsFiniteSet(Blocks)
    BY CacheFinite DEF C!TypeOK, C!FsCacheAssumption
  <2> QED BY <2>1, FS_Subset, FS_CardinalityType
<1>2. Cardinality(K) \in 0 .. MaxRecency
  <2>1. Cardinality(Blocks) \in Nat /\ Cardinality(Blocks) <= MaxRecency /\ MaxRecency \in Nat
    BY FS_CardinalityType, CacheCardinality, CacheFinite DEF C!FsCacheAssumption
  <2> QED BY <1>1, <2>1
<1> DEFINE Before(b) == {a \in K : C!Older(a, b)}
<1>3. ASSUME NEW b \in K PROVE Rank(K, b) \in Nat /\ Rank(K, b) < Cardinality(K)
  <2>1. Before(b) \subseteq K /\ Before(b) # K
    BY ScanOrder
  <2> HIDE DEF Before
  <2>2. Cardinality(Before(b)) \in Nat /\ Cardinality(Before(b)) < Cardinality(K)
    BY <1>1, <2>1, FS_Subset, FS_CardinalityType
  <2> QED BY <2>2 DEF Rank, Before
<1>4. ASSUME NEW a \in K, NEW b \in K, C!Older(a, b) PROVE Rank(K, a) < Rank(K, b)
  <2>1. Before(a) \subseteq Before(b) /\ a \in Before(b) /\ a \notin Before(a) /\ Before(b) \subseteq K
    BY <1>4, ScanOrder
  <2> HIDE DEF Before
  <2>2. IsFiniteSet(Before(b))
    BY <1>1, <2>1, FS_Subset
  <2>3. Cardinality(Before(a)) < Cardinality(Before(b))
    BY <2>1, <2>2, FS_Subset, FS_CardinalityType
  <2> QED BY <2>3 DEF Rank, Before
<1>5. ASSUME NEW a \in K, NEW b \in K, a # b PROVE Rank(K, a) # Rank(K, b)
  <2>1. Rank(K, a) \in Nat /\ Rank(K, b) \in Nat
    BY <1>3
  <2>2. C!Older(a, b) \/ C!Older(b, a)
    BY <1>5, ScanOrder
  <2> QED BY <1>4, <2>1, <2>2
<1> QED BY <1>2, <1>3, <1>5

LEMMA ScanKeeps == ASSUME C!FsCacheAssumption, CacheInv, C!OpenScan PROVE CacheInv'
<1>t. C!TypeOK /\ mode = "down" /\ lock = "free"
  BY DEF C!OpenScan, CacheInv
<1>u. UNCHANGED <<files, clock, losses, lock, blk, reading, unfit>> /\ mode' = "opening"
  BY DEF C!OpenScan, C!diskVars
<1>1. PICK S \in SUBSET DOMAIN files :
         /\ C!Oldest(S) /\ C!FileBytes(DOMAIN files \ S) <= MaxBytes /\ todo' = S /\ kept' = DOMAIN files \ S
  BY DEF C!OpenScan
<1>2. PICK K \in SUBSET DOMAIN files : K = DOMAIN files \ S /\ kept' = K
  BY <1>1
<1>3. /\ residentBytes' = C!FileBytes(K) /\ nextRecency' = Cardinality(K)
      /\ entries' = [b \in K |-> [bytes |-> files[b].len, recency |-> Rank(K, b)]]
  <2>1. C!Cardinality(K) = Cardinality(K) /\ \A b : C!Cardinality({a \in K : C!Older(a, b)}) = Rank(K, b)
    BY CacheCardinality DEF Rank
  <2>2. /\ residentBytes' = C!FileBytes(K) /\ nextRecency' = C!Cardinality(K)
        /\ entries' = [b \in K |-> [bytes |-> files[b].len, recency |-> C!Cardinality({a \in K : C!Older(a, b)})]]
    BY <1>2 DEF C!OpenScan
  <2> QED BY <2>1, <2>2
<1>4. /\ C!FileBytes(K) = Weight(C!FileLength, K) /\ IsFiniteSet(K)
      /\ \A b \in K : C!FileLength[b] = files[b].len /\ files[b].len \in Nat
  BY <1>t, FileSum
<1>5. /\ Cardinality(K) \in 0 .. MaxRecency
      /\ \A b \in K : Rank(K, b) \in Nat /\ Rank(K, b) < Cardinality(K)
      /\ \A a, b \in K : a # b => Rank(K, a) # Rank(K, b)
  BY <1>t, RanksDistinct
<1>6. DOMAIN entries' = K /\ \A b \in K : entries'[b] = [bytes |-> files[b].len, recency |-> Rank(K, b)]
  BY <1>3
<1>7. \A b \in K : entries'[b] \in C!EntryType /\ entries'[b].bytes = files[b].len
      /\ entries'[b].recency = Rank(K, b)
  <2> SUFFICES ASSUME NEW b \in K
               PROVE  entries'[b] \in C!EntryType /\ entries'[b].bytes = files[b].len
                     /\ entries'[b].recency = Rank(K, b)
    OBVIOUS
  <2>1. Rank(K, b) \in 0 .. MaxRecency /\ files[b].len \in Nat
    BY <1>4, <1>5 DEF C!FsCacheAssumption
  <2> QED BY <1>6, <2>1 DEF C!EntryType
<1>8. Table(entries', nextRecency')
  <2>1. K \subseteq Blocks
    BY <1>t DEF C!TypeOK
  <2>2. entries' \in [K -> C!EntryType]
    BY <1>3, <1>7
  <2> QED BY <1>3, <1>5, <1>6, <1>7, <2>1, <2>2 DEF Table
<1>9. Held(entries', K) = Weight(C!FileLength, K)
  <2>1. \A b \in K : LengthIn(entries')[b] = C!FileLength[b]
    BY <1>4, <1>6, <1>7 DEF LengthIn
  <2> QED BY <2>1, WeightSame DEF Held
<1>10. residentBytes' = Held(entries', DOMAIN entries') /\ residentBytes' <= MaxBytes
  BY <1>1, <1>2, <1>3, <1>4, <1>6, <1>9
<1>11. residentBytes' \in Nat
  <2>1. Held(entries', DOMAIN entries') \in Nat
    BY <1>8, TableSums
  <2> QED BY <1>10, <2>1
<1>12. C!TypeOK'
  <2>1. DOMAIN entries' \subseteq Blocks /\ entries' \in [DOMAIN entries' -> C!EntryType]
    BY <1>8 DEF Table
  <2>2. nextRecency' \in 0 .. MaxRecency /\ mode' \in {"down", "opening", "up"}
        /\ todo' \subseteq Blocks /\ kept' \subseteq Blocks
    BY <1>t, <1>u, <1>1, <1>3, <1>5 DEF C!TypeOK
  <2> QED BY <1>t, <1>u, <1>11, <2>1, <2>2, Zenon DEF C!TypeOK
<1>13. Accounted(files', entries', todo')
  BY <1>u, <1>1, <1>2, <1>6, <1>7 DEF Accounted
<1>14. C!OpeningKeepsNewest'
  <2> SUFFICES ASSUME NEW a \in todo' \cap DOMAIN files', NEW b \in kept' \cap DOMAIN files' PROVE C!Older(a, b)'
    BY DEF C!OpeningKeepsNewest
  <2>1. C!Older(a, b)
    BY <1>1 DEF C!Oldest
  <2> QED BY <1>u, <2>1 DEF C!Older
<1>15. ~unfit' /\ lock' = "free" /\ \A x \in DOMAIN files' : files'[x].good => files'[x].len = Size[x]
  BY <1>t, <1>u DEF CacheInv
<1> QED BY <1>u, <1>8, <1>10, <1>12, <1>13, <1>14, <1>15 DEF CacheInv

LEMMA CacheStep == ASSUME C!FsCacheAssumption, CacheInv, [C!Next]_(C!vars) PROVE CacheInv'
BY ScanKeeps, OpenEvictKeeps, OpenDoneKeeps, PlanKeeps, EvictKeeps, PublishKeeps, ObserveKeeps,
   CrashKeeps, EnvironmentKeeps, Zenon DEF C!Next

LEMMA CacheInit == ASSUME C!FsCacheAssumption, C!Init PROVE CacheInv
<1>1. PICK S \in SUBSET Blocks, n \in ForeignLen, g \in BOOLEAN :
         files = [b \in S |-> [len |-> IF g THEN Size[b] ELSE n, mtime |-> 0, good |-> g]]
  BY DEF C!Init
<1>2. 0 \in 0 .. MaxTime /\ 0 \in 0 .. MaxLosses /\ 0 \in 0 .. MaxRecency /\ 0 \in Nat /\ 0 <= MaxBytes
  BY DEF C!FsCacheAssumption
<1>3. ASSUME NEW b \in S
      PROVE  files[b] \in C!FileType /\ (files[b].good => files[b].len = Size[b])
  <2>1. files[b] = [len |-> IF g THEN Size[b] ELSE n, mtime |-> 0, good |-> g]
    BY <1>1
  <2>2. (IF g THEN Size[b] ELSE n) \in ForeignLen \cup {Size[x] : x \in Blocks}
    OBVIOUS
  <2>3. files[b] \in C!FileType
    BY <1>2, <2>1, <2>2 DEF C!FileType
  <2> QED BY <2>1, <2>3
<1>4. DOMAIN files = S /\ files \in [S -> C!FileType]
  BY <1>1, <1>3
<1>5. blk \in Blocks
  BY DEF C!Init, C!FsCacheAssumption
<1>6. C!TypeOK
  <2>1. DOMAIN entries \subseteq Blocks /\ entries \in [DOMAIN entries -> C!EntryType]
    BY EmptyTable DEF C!Init, Table
  <2>2. reading \in [Getters -> Blocks \cup {C!Nobody}]
    BY DEF C!Init
  <2>3. /\ DOMAIN files \subseteq Blocks /\ files \in [DOMAIN files -> C!FileType]
        /\ mode \in {"down", "opening", "up"} /\ lock \in {"free", "evicting", "publishing"}
        /\ todo \subseteq Blocks /\ kept \subseteq Blocks
    BY <1>4 DEF C!Init
  <2>4. clock \in 0 .. MaxTime /\ losses \in 0 .. MaxLosses /\ residentBytes \in Nat
        /\ nextRecency \in 0 .. MaxRecency
    BY <1>2 DEF C!Init
  <2>5. unfit \in BOOLEAN
    BY DEF C!Init
  <2> QED BY <1>5, <2>1, <2>2, <2>3, <2>4, <2>5, Zenon DEF C!TypeOK
<1>7. /\ Table(entries, nextRecency) /\ residentBytes = Held(entries, DOMAIN entries)
      /\ residentBytes <= MaxBytes
  BY <1>2, EmptyTable DEF C!Init
<1>8. \A b \in DOMAIN files : files[b].good => files[b].len = Size[b]
  BY <1>3, <1>4
<1>9. mode = "down" /\ lock = "free" /\ ~unfit /\ C!OpeningKeepsNewest
  BY DEF C!Init, C!OpeningKeepsNewest
<1> QED BY <1>6, <1>7, <1>8, <1>9 DEF CacheInv

LEMMA CacheInvBounds == ASSUME C!FsCacheAssumption, CacheInv PROVE C!WithinBudget /\ C!AlwaysFits
      /\ C!OpeningKeepsNewest
<1>1. residentBytes = C!EntryBytes(DOMAIN entries)
  BY EntrySum DEF CacheInv
<1>2. ASSUME mode = "up"
      PROVE  /\ \A b \in DOMAIN files : b \in DOMAIN entries /\ entries[b].bytes = files[b].len
             /\ C!FileBytes(DOMAIN files) <= MaxBytes
  <2>1. \A b \in DOMAIN files : b \in DOMAIN entries /\ entries[b].bytes = files[b].len
    BY <1>2 DEF CacheInv, Accounted
  <2>2. C!FileBytes(DOMAIN files) = Weight(C!FileLength, DOMAIN files)
        /\ \A b \in DOMAIN files : C!FileLength[b] = files[b].len
    BY FileSum DEF CacheInv
  <2>3. /\ IsFiniteSet(DOMAIN entries) /\ Held(entries, DOMAIN entries) \in Nat
        /\ \A b \in DOMAIN entries : LengthIn(entries)[b] = entries[b].bytes /\ LengthIn(entries)[b] \in Nat
    BY TableSums DEF CacheInv
  <2>4. DOMAIN files \in SUBSET DOMAIN entries /\ \A b \in DOMAIN files : C!FileLength[b] = LengthIn(entries)[b]
    BY <2>1, <2>2, <2>3
  <2>5. Weight(C!FileLength, DOMAIN files) <= Weight(LengthIn(entries), DOMAIN entries)
    BY <2>3, <2>4, WeightAtLeast
  <2>6. /\ Weight(C!FileLength, DOMAIN files) = Weight(LengthIn(entries), DOMAIN files)
        /\ Weight(LengthIn(entries), DOMAIN files) \in Nat
    BY <2>3, <2>4, WeightSame, WeightParts
  <2>7. Held(entries, DOMAIN entries) <= MaxBytes /\ MaxBytes \in Nat
    BY DEF CacheInv, C!FsCacheAssumption
  <2>8. C!FileBytes(DOMAIN files) <= MaxBytes
    BY <2>2, <2>3, <2>5, <2>6, <2>7 DEF Held
  <2> QED BY <2>1, <2>8
<1> QED BY <1>1, <1>2 DEF C!WithinBudget, C!AlwaysFits, CacheInv

LEMMA EvictionStep == ASSUME C!FsCacheAssumption, CacheInv, [C!Next]_(C!vars) PROVE C!EvictionJustified
<1> SUFFICES ASSUME NEW b \in DOMAIN entries, lock = "evicting", mode' = "up", b \notin DOMAIN entries'
             PROVE  /\ ~C!Room(blk, {})
                    /\ \A a \in DOMAIN entries' \ {blk} : entries[b].recency < entries[a].recency
  BY DEF C!EvictionJustified
<1>t. mode = "up"
  BY DEF CacheInv
<1>1. CASE C!Evict
  <2>1. PICK v \in todo : (\A a \in todo : entries[v].recency <= entries[a].recency)
        /\ entries' = C!Without(entries, v)
    BY <1>1 DEF C!Evict, C!cacheVars, C!ApplyEviction
  <2>2. DOMAIN entries' = DOMAIN entries \ {v} /\ b = v
    BY <2>1 DEF C!Without
  <2> QED BY <2>1, <2>2, VictimOldest
<1>2. CASE UNCHANGED entries
  BY <1>2
<1>3. C!Evict \/ UNCHANGED entries
  BY <1>t DEF C!Next, C!vars, C!OpenScan, C!OpenEvict, C!OpenDone, C!PlanEvictions, C!Publish, C!GetRead,
     C!ObserveRead, C!Tick, C!Lose, C!Crash,
     C!cacheVars
<1> QED BY <1>1, <1>2, <1>3

\* The fs cache, for every set of blocks and lengths, every budget, and any
\* crashes, failed removals, failed publications and lost files: while the store is
\* open every published file is accounted for with its length and the files stay
\* within the budget, no put of a block within the budget fails to find room, and
\* opening retains the newest files.
THEOREM CacheBounded ==
    ASSUME C!FsCacheAssumption
    PROVE  C!Spec => [](C!WithinBudget /\ C!AlwaysFits /\ C!OpeningKeepsNewest)
<1>1. C!Init => CacheInv
  BY CacheInit
<1>2. CacheInv /\ [C!Next]_(C!vars) => CacheInv'
  BY CacheStep
<1>3. CacheInv => C!WithinBudget /\ C!AlwaysFits /\ C!OpeningKeepsNewest
  BY CacheInvBounds
<1> QED BY <1>1, <1>2, <1>3, PTL DEF C!Spec

\* In the same cache a put removes a file only while its payload does not fit yet,
\* and never one that was used after another that stays.
THEOREM EvictionLeastRecent ==
    ASSUME C!FsCacheAssumption PROVE C!Spec => C!EvictsLeastRecent
<1>1. C!Init => CacheInv
  BY CacheInit
<1>2. CacheInv /\ [C!Next]_(C!vars) => CacheInv'
  BY CacheStep
<1>3. CacheInv /\ [C!Next]_(C!vars) => [C!EvictionJustified]_(C!vars)
  BY EvictionStep
<1> QED BY <1>1, <1>2, <1>3, PTL DEF C!Spec, C!EvictsLeastRecent

==============================================================================
