------------------------------ MODULE RedbStore ------------------------------
(***************************************************************************)
(* lexongraph_block_store_redb: a store in one redb database file.  Tasks   *)
(* of one process share a SharedState through clones of the handle; write   *)
(* transactions exclude each other.  In Durable mode every commit is        *)
(* durable; in Fast mode none is, a flag remembers that something has to be *)
(* flushed, and compaction and the drop of the last clone flush it.  The    *)
(* process may die at any step, and another process may open the file       *)
(* read-only.                                                               *)
(***************************************************************************)
EXTENDS FiniteSets

CONSTANTS Tasks,    \* tasks of the writing process
          Blocks,   \* block identifiers
          None      \* no task

ASSUME NoneAssumption == None \notin Tasks

VARIABLES file,      \* "absent", "clean", or "recover": the header's recovery bit
          mode,      \* "closed", "durable" or "fast": the writer's SharedState
          clones,    \* tasks that hold a clone of the handle
          pending,   \* SharedState::pending_flush
          table,     \* the blocks table after the last commit
          durable,   \* the blocks table after the last durable commit
          lock,      \* task with the open write transaction
          pc,        \* "idle", "txn", "committed" or "flushed"
          entries,   \* blocks each task is putting
          reader,    \* "closed" or "open": a read-only handle elsewhere
          listed,    \* the last enumeration
          acked,     \* blocks whose put returned Ok since the store was opened
          promised,  \* blocks that must survive whatever happens
          batches    \* sets of blocks that one batch inserted and that were not lost

content == <<table, durable>>
ghosts == <<acked, promised, batches>>
vars == <<file, mode, clones, pending, table, durable, lock, pc, entries, reader,
          listed, acked, promised, batches>>

\* What the table holds for a block: nothing, its bytes, or other bytes.
Contents == {"none", "same", "other"}
Found(t) == {b \in Blocks : t[b] = "same"}
Keys(t) == {b \in Blocks : t[b] # "none"}

\* The types, who holds the write transaction, who may be in a call, and that a
\* read-only handle is open only on a file that was closed in an orderly way.
TypeOK ==
    /\ file \in {"absent", "clean", "recover"}
    /\ mode \in {"closed", "durable", "fast"}
    /\ clones \in SUBSET Tasks
    /\ pending \in BOOLEAN
    /\ table \in [Blocks -> Contents]
    /\ durable \in [Blocks -> Contents]
    /\ lock \in Tasks \cup {None}
    /\ pc \in [Tasks -> {"idle", "txn", "committed", "flushed"}]
    /\ \A t \in Tasks : pc[t] = "txn" <=> lock = t
    /\ \A t \in Tasks : pc[t] # "idle" => t \in clones
    /\ entries \in [Tasks -> SUBSET Blocks]
    /\ reader \in {"closed", "open"}
    /\ reader = "open" => file = "clean" /\ mode = "closed"
    /\ listed \in SUBSET Blocks
    /\ acked \in SUBSET Blocks
    /\ promised \in SUBSET Blocks
    /\ batches \in SUBSET (SUBSET Blocks)

\* No file, or one in which a block may have been damaged.
Init ==
    /\ file \in {"absent", "clean"}
    /\ mode = "closed" /\ clones = {} /\ pending = FALSE
    /\ table \in {t \in [Blocks -> {"none", "other"}] : file = "absent" => Keys(t) = {}}
    /\ durable = table
    /\ lock = None
    /\ pc = [t \in Tasks |-> "idle"]
    /\ entries = [t \in Tasks |-> {}]
    /\ reader = "closed"
    /\ listed = {} /\ acked = {} /\ promised = {} /\ batches = {}

-----------------------------------------------------------------------------
(* Handles.                                                                 *)

\* new_with_options_and_telemetry: redb takes the file, repairs it if it must
\* and sets the recovery bit; initialize_blocks_table commits durably.
OpenReadWrite(t, m) ==
    /\ mode = "closed"
    /\ reader = "closed"
    /\ mode' = m
    /\ file' = "recover"
    /\ clones' = {t}
    /\ pending' = FALSE
    /\ acked' = {} /\ listed' = {}
    /\ UNCHANGED <<content, lock, pc, entries, reader, promised, batches>>

Clone(t) ==
    /\ t \notin clones
    /\ \E u \in clones : pc[u] = "idle"
    /\ clones' = clones \cup {t}
    /\ UNCHANGED <<file, mode, pending, content, lock, pc, entries, reader, listed, ghosts>>

\* The handle of a task goes out of scope and is not the last one.
DropClone(t) ==
    /\ t \in clones /\ clones # {t}
    /\ pc[t] = "idle"
    /\ clones' = clones \ {t}
    /\ UNCHANGED <<file, mode, pending, content, lock, pc, entries, reader, listed, ghosts>>

\* The batches that are not lost altogether.
Surviving(t) == {s \in batches : s \cap Found(t) # {}}

\* redb closes the file; what is not durable is gone.
Close ==
    /\ table' = durable'
    /\ file' = "clean"
    /\ mode' = "closed" /\ clones' = {} /\ pending' = FALSE
    /\ acked' = {} /\ listed' = {}
    /\ batches' = Surviving(table')
    /\ UNCHANGED <<lock, pc, entries, reader>>

MustFlush == mode = "fast" /\ pending

\* Fault: nothing is flushed at the end.
DropNoFlush(t) ==
    /\ clones = {t}
    /\ pc[t] = "idle"
    /\ UNCHANGED durable
    /\ promised' = promised \cup acked
    /\ Close

\* Drop for SharedState.  A put that returned Ok is promised from here on.
DropLast(t) ==
    /\ clones = {t}
    /\ pc[t] = "idle"
    /\ durable' = IF MustFlush THEN table ELSE durable
    /\ promised' = promised \cup acked
    /\ Close

\* The flush fails, on its way to the disk or on its way back; drop can only
\* write to stderr.
DropFlushFails(t) ==
    /\ clones = {t}
    /\ pc[t] = "idle"
    /\ MustFlush
    /\ durable' \in {durable, table}
    /\ UNCHANGED promised
    /\ Close

\* open_database read-only: the file exists, is not held by a writer and needs no
\* recovery.  redb checks both again under its file lock, so that the check of the
\* header and the open are one step here.
OpenReadOnly ==
    /\ reader = "closed"
    /\ mode = "closed"
    /\ file = "clean"
    /\ reader' = "open"
    /\ UNCHANGED <<file, mode, clones, pending, content, lock, pc, entries, listed, ghosts>>

CloseReadOnly ==
    /\ reader = "open"
    /\ reader' = "closed"
    /\ UNCHANGED <<file, mode, clones, pending, content, lock, pc, entries, listed, ghosts>>

-----------------------------------------------------------------------------
(* Puts.  A put is a batch of one entry.                                    *)

\* begin_write waits for the open write transaction to end.
Begin(t, s) ==
    /\ t \in clones
    /\ pc[t] = "idle"
    /\ lock = None
    /\ lock' = t
    /\ pc' = [pc EXCEPT ![t] = "txn"]
    /\ entries' = [entries EXCEPT ![t] = s]
    /\ UNCHANGED <<file, mode, clones, pending, content, reader, listed, ghosts>>

Return(t) ==
    /\ pc' = [pc EXCEPT ![t] = "idle"]
    /\ entries' = [entries EXCEPT ![t] = {}]

Acknowledge(t) ==
    /\ acked' = acked \cup entries[t]
    /\ promised' = IF mode = "durable" THEN promised \cup entries[t] ELSE promised

\* Fault: a transaction that is given up stays open.
AbortKeepsLock(t) ==
    /\ pc[t] = "txn"
    /\ Return(t)
    /\ UNCHANGED <<file, mode, clones, pending, content, lock, reader, listed, ghosts>>

\* Other bytes are stored under a block's identifier, or redb fails: the
\* transaction is dropped with everything in it.
Abort(t) ==
    /\ pc[t] = "txn"
    /\ lock' = None
    /\ Return(t)
    /\ UNCHANGED <<file, mode, clones, pending, content, reader, listed, ghosts>>

\* Every block is there already: Ok without a commit.
NothingToDo(t) ==
    /\ pc[t] = "txn"
    /\ entries[t] \subseteq Found(table)
    /\ lock' = None
    /\ Return(t)
    /\ Acknowledge(t)
    /\ UNCHANGED <<file, mode, clones, pending, content, reader, listed, batches>>

\* Fault: other bytes are overwritten.
CommitOverwrites(t) ==
    /\ pc[t] = "txn"
    /\ ~(entries[t] \subseteq Found(table))
    /\ table' = [b \in Blocks |-> IF b \in entries[t] THEN "same" ELSE table[b]]
    /\ durable' = IF mode = "durable" THEN table' ELSE durable
    /\ batches' = batches \cup {entries[t] \ Found(table)}
    /\ lock' = None
    /\ pc' = [pc EXCEPT ![t] = "committed"]
    /\ UNCHANGED <<file, mode, clones, pending, entries, reader, listed, acked, promised>>

\* Fault: each entry has a transaction of its own.
CommitOneByOne(t) ==
    /\ pc[t] = "txn"
    /\ \E b \in entries[t] \ Found(table) :
          /\ table[b] = "none"
          /\ table' = [table EXCEPT ![b] = "same"]
          /\ durable' = IF mode = "durable" THEN table' ELSE durable
          /\ batches' = batches \cup {entries[t] \ Found(table)}
          /\ IF entries[t] \subseteq Found(table')
             THEN lock' = None /\ pc' = [pc EXCEPT ![t] = "committed"]
             ELSE UNCHANGED <<lock, pc>>
    /\ UNCHANGED <<file, mode, clones, pending, entries, reader, listed, acked, promised>>

\* No entry conflicts and some are missing: they are inserted together.
Commit(t) ==
    /\ pc[t] = "txn"
    /\ entries[t] \cap Keys(table) \subseteq Found(table)
    /\ ~(entries[t] \subseteq Found(table))
    /\ table' = [b \in Blocks |-> IF b \in entries[t] THEN "same" ELSE table[b]]
    /\ durable' = IF mode = "durable" THEN table' ELSE durable
    /\ batches' = batches \cup {entries[t] \ Found(table)}
    /\ lock' = None
    /\ pc' = [pc EXCEPT ![t] = "committed"]
    /\ UNCHANGED <<file, mode, clones, pending, entries, reader, listed, acked, promised>>

\* The flag is set after the commit, and then Ok is returned.
AfterCommit(t) ==
    /\ pc[t] = "committed"
    /\ pending' = IF mode = "fast" THEN TRUE ELSE pending
    /\ Return(t)
    /\ Acknowledge(t)
    /\ UNCHANGED <<file, mode, clones, content, lock, reader, listed, batches>>

-----------------------------------------------------------------------------
(* Reads and compaction.                                                    *)

\* iter_block_ids collects the keys of one read transaction.
IterBlockIds(t) ==
    /\ t \in clones
    /\ pc[t] = "idle"
    /\ listed' = Keys(table)
    /\ UNCHANGED <<file, mode, clones, pending, content, lock, pc, entries, reader, ghosts>>

\* Fault: compaction does not insist on being the only owner.
CompactShared(t) ==
    /\ t \in clones
    /\ pc[t] = "idle"
    /\ MustFlush
    /\ lock = None
    /\ durable' = table
    /\ promised' = promised \cup acked
    /\ pc' = [pc EXCEPT ![t] = "flushed"]
    /\ UNCHANGED <<file, mode, clones, pending, table, lock, entries, reader, listed,
                   acked, batches>>

\* compact_now: the durable commit of flush_pending_writes.
CompactFlush(t) ==
    /\ clones = {t}
    /\ pc[t] = "idle"
    /\ MustFlush
    /\ lock = None
    /\ durable' = table
    /\ promised' = promised \cup acked
    /\ pc' = [pc EXCEPT ![t] = "flushed"]
    /\ UNCHANGED <<file, mode, clones, pending, table, lock, entries, reader, listed,
                   acked, batches>>

\* The flag is cleared after the commit; redb's compaction keeps every block.
CompactEnds(t) ==
    /\ pc[t] = "flushed"
    /\ pending' = FALSE
    /\ Return(t)
    /\ UNCHANGED <<file, mode, clones, content, lock, reader, listed, ghosts>>

-----------------------------------------------------------------------------

\* The process dies.  What was not durable may have reached the disk or not.
Crash ==
    /\ mode # "closed"
    /\ durable' \in {durable, table}
    /\ table' = durable'
    /\ mode' = "closed" /\ clones' = {} /\ pending' = FALSE
    /\ lock' = None
    /\ pc' = [t \in Tasks |-> "idle"]
    /\ entries' = [t \in Tasks |-> {}]
    /\ acked' = {} /\ listed' = {}
    /\ batches' = Surviving(table')
    /\ UNCHANGED <<file, reader, promised>>

TaskStep(t) ==
    \/ Abort(t) \/ NothingToDo(t) \/ Commit(t) \/ AfterCommit(t) \/ CompactEnds(t)

Next ==
    \/ \E t \in Tasks :
          \/ \E m \in {"durable", "fast"} : OpenReadWrite(t, m)
          \/ \E s \in SUBSET Blocks \ {{}} : Begin(t, s)
          \/ Clone(t) \/ DropClone(t) \/ DropLast(t) \/ DropFlushFails(t)
          \/ IterBlockIds(t) \/ CompactFlush(t)
          \/ TaskStep(t)
    \/ OpenReadOnly \/ CloseReadOnly
    \/ Crash

\* A call that was made runs to its end: nothing in it waits but begin_write.
Spec == Init /\ [][Next]_vars /\ \A t \in Tasks : WF_vars(TaskStep(t))

-----------------------------------------------------------------------------
(* Properties.                                                              *)

\* In Durable mode a put that returned Ok survives every crash; in Fast mode it
\* does from the next compaction or the end of the last handle on.  Until then
\* it is visible, whether or not the put committed anything itself.
PromisesKept == promised \subseteq Found(durable) /\ acked \subseteq Found(table)

\* What is not durable is covered by the flag, or by a put that is about to set
\* it: the last handle cannot overlook it.
FlagCovers ==
    (mode # "closed" /\ durable # table) =>
        /\ mode = "fast"
        /\ pending \/ \E t \in clones : pc[t] = "committed"

\* A batch is stored as a whole or not at all, in memory, on disk after any
\* crash, and in every enumeration.
BatchAtomic ==
    \A s \in batches : \A held \in {Found(table), Found(durable), listed} :
        s \subseteq held \/ s \cap held = {}

\* Bytes that are in the table under an identifier are never replaced.
NeverReplaced == [][\A b \in Blocks : table[b] = "other" => table'[b] = "other"]_vars

\* Every call returns, and ends its transaction, or its process dies.
CallsReturn ==
    \A t \in Tasks : (pc[t] # "idle" \/ lock = t) ~> (pc[t] = "idle" /\ lock # t)

=============================================================================
