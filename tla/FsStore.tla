------------------------------- MODULE FsStore -------------------------------
(***************************************************************************)
(* lexongraph_block_store_fs without a cache budget: a block is one file    *)
(* below a shard directory.  put writes a staging file in that directory    *)
(* and renames it to the block's path unless something is there already;    *)
(* any number of processes may share the store root.  A process that dies   *)
(* leaves its staging file behind.  get is the trait's get: the bytes read  *)
(* are checked against the block id.  Enumeration walks the directories     *)
(* and looks at every entry when it gets to it, not when it was listed.     *)
(***************************************************************************)
EXTENDS Naturals, FiniteSets

CONSTANTS Writers,    \* tasks, of any process, that put blocks
          Readers,    \* tasks that get blocks
          Listers,    \* tasks that enumerate block ids
          Blocks,     \* block identifiers
          Shards,     \* shard directories
          ShardOf,    \* block_path: the directory of each block
          MaxOrphans  \* staging files that dead processes leave behind

FsStoreAssumption ==
    /\ Blocks # {} /\ ShardOf \in [Blocks -> Shards]
    /\ MaxOrphans \in Nat

Clients == Writers \cup Readers \cup Listers

\* Published files hold the canonical bytes of the block, or something else
\* that was there before the store was opened.
Content == {"none", "good", "bad"}

VARIABLES dirs,       \* shard directories that exist
          file,       \* what each block's path holds
          staging,    \* live staging files: writer and whether it is complete
          orphans,    \* number of abandoned staging files, per shard
          attempted,  \* blocks some put was started for
          pc, blk,    \* phase and block of each client's operation
          seen,       \* good blocks when the read began
          walkDirs,   \* FilesystemBlockIdIterator::pending: directories
          walkFiles,  \* FilesystemBlockIdIterator::pending: files
          yielded     \* block ids the iterator has returned

diskVars == <<dirs, file, staging, orphans>>
walkVars == <<walkDirs, walkFiles, yielded>>
vars == <<dirs, file, staging, orphans, attempted, pc, blk, seen,
          walkDirs, walkFiles, yielded>>

Settled == {"idle", "ok", "err", "some", "none", "listed"}
Putting == {"mkdir", "stage", "write", "persist", "inspect"}
Running == Putting \cup {"read", "list"}

\* Directory entries: block files, staging files of a writer, abandoned ones.
BlockFile(b)  == <<"block", b>>
StageFile(w)  == <<"stage", w>>
Orphan(s)     == <<"orphan", s>>

Names ==
    {BlockFile(b) : b \in Blocks} \cup {StageFile(w) : w \in Clients}
    \cup {Orphan(s) : s \in Shards}

Entries(s) ==
    {BlockFile(b) : b \in {x \in Blocks : ShardOf[x] = s /\ file[x] # "none"}}
    \cup {StageFile(w) : w \in {x \in staging : ShardOf[blk[x]] = s}}
    \cup (IF orphans[s] > 0 THEN {Orphan(s)} ELSE {})

AllEntries == UNION {Entries(s) : s \in Shards}

Stored == {b \in Blocks : file[b] = "good"}

TypeOK ==
    /\ dirs \subseteq Shards
    /\ file \in [Blocks -> Content]
    /\ staging \subseteq Clients
    /\ orphans \in [Shards -> 0 .. MaxOrphans]
    /\ attempted \subseteq Blocks
    /\ pc \in [Clients -> Settled \cup Running]
    /\ blk \in [Clients -> Blocks]
    /\ seen \in [Clients -> SUBSET Blocks]
    /\ walkDirs \in [Clients -> SUBSET Shards]
    /\ walkFiles \in [Clients -> SUBSET Names]
    /\ yielded \in [Clients -> SUBSET Blocks]
    /\ \A c \in Clients : c \in staging <=> pc[c] \in {"write", "persist"}

Init ==
    /\ file \in [Blocks -> {"none", "bad"}]
    /\ dirs = {ShardOf[b] : b \in {x \in Blocks : file[x] # "none"}}
    /\ staging = {}
    /\ orphans = [s \in Shards |-> 0]
    /\ attempted = {}
    /\ pc = [c \in Clients |-> "idle"]
    /\ blk = [c \in Clients |-> CHOOSE b \in Blocks : TRUE]
    /\ seen = [c \in Clients |-> {}]
    /\ walkDirs = [c \in Clients |-> {}]
    /\ walkFiles = [c \in Clients |-> {}]
    /\ yielded = [c \in Clients |-> {}]

Goto(c, phase) == pc' = [pc EXCEPT ![c] = phase]

\* The iterator is dropped, and what it yielded with it.
DropWalk(c) ==
    /\ walkDirs' = [walkDirs EXCEPT ![c] = {}]
    /\ walkFiles' = [walkFiles EXCEPT ![c] = {}]
    /\ yielded' = [yielded EXCEPT ![c] = {}]

-----------------------------------------------------------------------------
(* publish_block_bytes.                                                     *)

StartPut(c, b) ==
    /\ pc[c] \in Settled
    /\ blk' = [blk EXCEPT ![c] = b]
    /\ attempted' = attempted \cup {b}
    /\ seen' = [seen EXCEPT ![c] = {}]
    /\ Goto(c, "mkdir")
    /\ DropWalk(c)
    /\ UNCHANGED diskVars

CreateDir(c) ==
    /\ pc[c] = "mkdir"
    /\ \/ dirs' = dirs \cup {ShardOf[blk[c]]} /\ Goto(c, "stage")
       \/ dirs' = dirs /\ Goto(c, "err")
    /\ UNCHANGED <<file, staging, orphans, attempted, blk, seen, walkVars>>

CreateStaged(c) ==
    /\ pc[c] = "stage"
    /\ \/ staging' = staging \cup {c} /\ Goto(c, "write")
       \/ staging' = staging /\ Goto(c, "err")
    /\ UNCHANGED <<dirs, file, orphans, attempted, blk, seen, walkVars>>

\* write_all and flush; on failure the temporary file is deleted by its drop.
WriteStaged(c) ==
    /\ pc[c] = "write"
    /\ \/ staging' = staging /\ Goto(c, "persist")
       \/ staging' = staging \ {c} /\ Goto(c, "err")
    /\ UNCHANGED <<dirs, file, orphans, attempted, blk, seen, walkVars>>

\* Fault: the rename replaces what is there.
PersistClobber(c) ==
    /\ pc[c] = "persist"
    /\ staging' = staging \ {c}
    /\ file' = [file EXCEPT ![blk[c]] = IF @ = "good" THEN "bad" ELSE "good"]
    /\ Goto(c, "ok")
    /\ UNCHANGED <<dirs, orphans, attempted, blk, seen, walkVars>>

\* persist_noclobber: the rename happens or fails as a whole.
Persist(c) ==
    /\ pc[c] = "persist"
    /\ staging' = staging \ {c}
    /\ \/ /\ file[blk[c]] = "none"
          /\ file' = [file EXCEPT ![blk[c]] = "good"]
          /\ Goto(c, "ok")
       \/ UNCHANGED file /\ Goto(c, "inspect")
    /\ UNCHANGED <<dirs, orphans, attempted, blk, seen, walkVars>>

\* read_existing_or_map_publish_error.
Inspect(c) ==
    /\ pc[c] = "inspect"
    /\ \/ file[blk[c]] = "good" /\ Goto(c, "ok")
       \/ Goto(c, "err")
    /\ UNCHANGED <<diskVars, attempted, blk, seen, walkVars>>

-----------------------------------------------------------------------------
(* get, and the enumeration.                                                *)

StartGet(c, b) ==
    /\ pc[c] \in Settled
    /\ blk' = [blk EXCEPT ![c] = b]
    /\ seen' = [seen EXCEPT ![c] = Stored]
    /\ Goto(c, "read")
    /\ DropWalk(c)
    /\ UNCHANGED <<diskVars, attempted>>

\* A missing file is Ok(None); other bytes fail validation.
Read(c) ==
    /\ pc[c] = "read"
    /\ \/ file[blk[c]] = "none" /\ Goto(c, "none")
       \/ file[blk[c]] = "good" /\ Goto(c, "some")
       \/ Goto(c, "err")
    /\ UNCHANGED <<diskVars, attempted, blk, seen, walkVars>>

StartList(c) ==
    /\ pc[c] \in Settled
    /\ seen' = [seen EXCEPT ![c] = Stored]
    /\ walkDirs' = [walkDirs EXCEPT ![c] = dirs]
    /\ walkFiles' = [walkFiles EXCEPT ![c] = {}]
    /\ yielded' = [yielded EXCEPT ![c] = {}]
    /\ Goto(c, "list")
    /\ UNCHANGED <<diskVars, attempted, blk>>

ListDir(c) ==
    /\ pc[c] = "list"
    /\ walkFiles[c] = {}
    /\ \E s \in walkDirs[c] :
          /\ walkDirs' = [walkDirs EXCEPT ![c] = @ \ {s}]
          /\ walkFiles' = [walkFiles EXCEPT ![c] = Entries(s)]
    /\ UNCHANGED <<diskVars, attempted, pc, blk, seen, yielded>>

\* Fault: every entry that can be listed is taken for a block.
VisitAny(c) ==
    /\ pc[c] = "list"
    /\ \E e \in walkFiles[c] :
          /\ walkFiles' = [walkFiles EXCEPT ![c] = @ \ {e}]
          /\ yielded' = [yielded EXCEPT ![c] =
                @ \cup (IF e[1] = "block" THEN {e[2]}
                        ELSE IF e[1] = "stage" THEN {blk[e[2]]} ELSE {})]
    /\ UNCHANGED <<diskVars, attempted, pc, blk, seen, walkDirs>>

\* A listed entry is inspected only now.  One that is gone ends the
\* enumeration with an error; one without the .cbor suffix is skipped.
Visit(c) ==
    /\ pc[c] = "list"
    /\ \E e \in walkFiles[c] :
          IF e \in AllEntries
          THEN /\ walkFiles' = [walkFiles EXCEPT ![c] = @ \ {e}]
               /\ yielded' = [yielded EXCEPT ![c] =
                                 IF e[1] = "block" THEN @ \cup {e[2]} ELSE @]
               /\ UNCHANGED <<pc, walkDirs>>
          ELSE Goto(c, "err") /\ DropWalk(c)
    /\ UNCHANGED <<diskVars, attempted, blk, seen>>

ListFailed(c) ==
    /\ pc[c] = "list"
    /\ Goto(c, "err")
    /\ DropWalk(c)
    /\ UNCHANGED <<diskVars, attempted, blk, seen>>

ListEnds(c) ==
    /\ pc[c] = "list"
    /\ walkDirs[c] = {} /\ walkFiles[c] = {}
    /\ Goto(c, "listed")
    /\ UNCHANGED <<diskVars, attempted, blk, seen, walkVars>>

\* The process dies, or the caller drops the future (put has no await inside,
\* so only a death interrupts it): a staging file stays behind.
Die(c) ==
    /\ pc[c] \in Running
    /\ Goto(c, "idle")
    /\ IF c \in staging
       THEN /\ orphans[ShardOf[blk[c]]] < MaxOrphans
            /\ orphans' = [orphans EXCEPT ![ShardOf[blk[c]]] = @ + 1]
            /\ staging' = staging \ {c}
       ELSE UNCHANGED <<orphans, staging>>
    /\ DropWalk(c)
    /\ UNCHANGED <<dirs, file, attempted, blk, seen>>

PutStep(c) ==
    CreateDir(c) \/ CreateStaged(c) \/ WriteStaged(c) \/ Persist(c) \/ Inspect(c)
ListStep(c) == ListDir(c) \/ Visit(c) \/ ListFailed(c) \/ ListEnds(c)

Next ==
    \/ \E c \in Writers : (\E b \in Blocks : StartPut(c, b)) \/ PutStep(c)
    \/ \E c \in Readers : (\E b \in Blocks : StartGet(c, b)) \/ Read(c)
    \/ \E c \in Listers : StartList(c) \/ ListStep(c)
    \/ \E c \in Clients : Die(c)

Spec == Init /\ [][Next]_vars

-----------------------------------------------------------------------------
(* The inductive invariant.                                                 *)

\* A published file has its directory, and so does a put from create_dir_all on.
DirsInv ==
    /\ \A b \in Blocks : file[b] # "none" => ShardOf[b] \in dirs
    /\ \A c \in Clients : pc[c] \in {"stage", "write", "persist"} => ShardOf[blk[c]] \in dirs

\* What was stored when the walk of c began is yielded, or listed and still to be
\* looked at, or in a directory that is still to be listed.
Ahead(c) ==
    pc[c] \in {"list", "listed"} =>
        \A b \in seen[c] :
            \/ b \in yielded[c]
            \/ pc[c] = "list" /\ (BlockFile(b) \in walkFiles[c] \/ ShardOf[b] \in walkDirs[c])

WalkInv ==
    \A c \in Clients :
        /\ seen[c] \subseteq Stored
        /\ \A b \in yielded[c] : file[b] # "none"
        /\ Ahead(c)

FsInv == TypeOK /\ DirsInv /\ WalkInv

-----------------------------------------------------------------------------
(* Properties.                                                              *)

\* REQ-FS-STORE-007, 008: published bytes are never replaced, whatever
\* publishers race for the path and wherever one of them dies.
Overwrites == \E b \in Blocks : file[b] # "none" /\ file'[b] # file[b]
NeverOverwritten == [][~Overwrites]_vars

\* An enumeration that runs to its end holds every good block stored when it
\* began, and only files that are published, however many staging files come
\* and go below it.
EnumerationSound ==
    \A c \in Listers :
        /\ pc[c] = "listed" => seen[c] \subseteq yielded[c]
        /\ \A b \in yielded[c] : file[b] # "none"

\* What the caller of client c sees of its operation, enumeration aside: a list
\* of file names may have foreign files in it.
Op(c) ==
    CASE pc[c] \in Putting  -> "put"
      [] pc[c] = "read"   -> "get"
      [] pc[c] = "listed" -> "err"
      [] OTHER            -> pc[c]

opBar  == [c \in Clients |-> Op(c)]
idsBar == [c \in Clients |-> {}]

\* The store implements the BlockStore contract (restricted to the blocks whose
\* path held nothing foreign when the store was opened).
Contract == INSTANCE BlockStoreContract WITH
    stored <- Stored,
    op <- opBar,
    arg <- blk,
    known <- seen,
    ids <- idsBar

ContractStep == [Contract!Next]_(Contract!vars)
ContractSpec == Contract!Spec

=============================================================================
