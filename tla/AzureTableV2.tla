----------------------------- MODULE AzureTableV2 -----------------------------
(***************************************************************************)
(* lexongraph_block_store_azure_table_v2: a block is a root row and         *)
(* RowCount[b]-1 continuation rows of one Azure table.  put writes the      *)
(* continuation rows first, by one transaction or row by row, and the root  *)
(* row last; get reads the root row, learns the row count from it, and      *)
(* reads the continuation rows concurrently.  Nothing is ever deleted and   *)
(* no client talks to another one: the order of the inserts is all that     *)
(* keeps a reader from seeing part of a block.                              *)
(*                                                                          *)
(* The table service is external.  An insert of a set of rows is applied    *)
(* as a whole if none of the rows exists, and answered with a conflict      *)
(* otherwise.  A request whose answer was lost is in `late' and may be      *)
(* applied at any later time.                                               *)
(***************************************************************************)
EXTENDS Naturals, Sequences, FiniteSets

CONSTANTS Writers,      \* tasks, of any process, that put blocks
          Readers,      \* tasks that get blocks
          Listers,      \* tasks that enumerate the block ids
          Blocks,       \* block identifiers, numbers in key order
          RowCount,     \* rows rows_from_block_bytes cuts each block into
          TxMax,        \* rows that fit into one entity group transaction
          MaxAttempts   \* RETRY_MAX_ATTEMPTS

ASSUME BlocksAssumption      == Blocks \subseteq Nat \ {0} /\ IsFiniteSet(Blocks)
ASSUME RowCountAssumption    == RowCount \in [Blocks -> Nat \ {0}]
ASSUME TxMaxAssumption       == TxMax \in Nat
ASSUME MaxAttemptsAssumption == MaxAttempts \in Nat \ {0}

\* A task carries nothing from one operation to the next, so the three kinds of
\* task together take every sequence of operations a program may make.
Clients == Writers \cup Readers \cup Listers

VARIABLES table,      \* rows the table service holds
          late,       \* insert requests nobody waits for any more
          attempted,  \* blocks some put was started for
          pc,         \* phase of each client's operation, or its last result
          blk,        \* block of the operation
          todo,       \* rows whose request is not settled yet
          tries,      \* failed attempts so far, per row
          missing,    \* continuation reads that settled with no row
          failed,     \* continuation reads that settled with an error
          seen,       \* blocks with a root row when the read began
          cursor,     \* IterState::continuation: key the next page starts at
          finished,   \* IterState::finished: the last page was fetched
          pending,    \* IterState::pending: root rows not yet yielded
          yielded     \* block ids the stream has yielded so far

putVars  == <<table, late, attempted>>
opVars   == <<todo, tries, missing, failed>>
readVars == <<seen, cursor, finished, pending, yielded>>
vars     == <<table, late, attempted, pc, blk, todo, tries, missing, failed,
              seen, cursor, finished, pending, yielded>>

-----------------------------------------------------------------------------
(* Rows and their keys.                                                     *)

Root(b)         == <<b, 0>>
Continuation(b) == {<<b, i>> : i \in 1 .. RowCount[b] - 1}
RowsOf(b)       == {Root(b)} \cup Continuation(b)
Rows            == UNION {RowsOf(b) : b \in Blocks}

\* PartitionKey, then RowKey: the key of a continuation row extends the key
\* of its root row, so the rows of a block are adjacent, the root row first.
Before(r, s) == r[1] < s[1] \/ (r[1] = s[1] /\ r[2] < s[2])

\* A key before every row: where the first page of an enumeration starts, and
\* where the attempts of a request that names no single row are counted.
Start == <<0, 0>>

Settled == {"idle", "ok", "err", "some", "none", "torn", "listed"}
Putting == {"tx", "rows", "root"}
Getting == {"getroot", "getrows"}
Running == Putting \cup Getting \cup {"list"}

Keys    == Rows \cup {Start}
NoTries == [k \in Keys |-> 0]

Stored == {b \in Blocks : Root(b) \in table}

TypeOK ==
    /\ table \subseteq Rows
    /\ late \subseteq SUBSET Rows
    /\ attempted \subseteq Blocks
    /\ pc \in [Clients -> Settled \cup Running]
    /\ blk \in [Clients -> Blocks]
    /\ todo \in [Clients -> SUBSET Rows]
    /\ tries \in [Clients -> [Keys -> 0 .. MaxAttempts - 1]]
    /\ missing \in [Clients -> SUBSET Rows]
    /\ failed \in [Clients -> SUBSET Rows]
    /\ seen \in [Clients -> SUBSET Blocks]
    /\ cursor \in [Clients -> Keys]
    /\ finished \in [Clients -> BOOLEAN]
    /\ pending \in [Clients -> SUBSET Rows]
    /\ yielded \in [Clients -> Seq(Blocks)]

Init ==
    /\ table = {}
    /\ late = {}
    /\ attempted = {}
    /\ pc = [c \in Clients |-> "idle"]
    /\ blk \in [Clients -> Blocks]
    /\ todo = [c \in Clients |-> {}]
    /\ tries = [c \in Clients |-> NoTries]
    /\ missing = [c \in Clients |-> {}]
    /\ failed = [c \in Clients |-> {}]
    /\ seen = [c \in Clients |-> {}]
    /\ cursor = [c \in Clients |-> Start]
    /\ finished = [c \in Clients |-> FALSE]
    /\ pending = [c \in Clients |-> {}]
    /\ yielded = [c \in Clients |-> <<>>]

-----------------------------------------------------------------------------
(* The end of an operation, and the part every operation shares.            *)

\* The operation goes on with requests for `rows'.
Enter(c, phase, rows) ==
    /\ pc' = [pc EXCEPT ![c] = phase]
    /\ todo' = [todo EXCEPT ![c] = rows]
    /\ tries' = [tries EXCEPT ![c] = NoTries]
    /\ missing' = [missing EXCEPT ![c] = {}]
    /\ failed' = [failed EXCEPT ![c] = {}]

\* The operation returns `result' to its caller.
Finish(c, result) == Enter(c, result, {})

\* The insert requests of a client that may be on the wire.
Outstanding(c) ==
    CASE pc[c] = "tx"               -> {todo[c]}
      [] pc[c] \in {"rows", "root"} -> {{r} : r \in todo[c]}
      [] OTHER                      -> {}

\* The futures of the requests are dropped: those already sent may still
\* reach the service, those not sent are never made.
Drop(requests) == \E sent \in SUBSET requests : late' = late \cup sent

\* Fault: one attempt too many.
MayRetryOnceMore(c, r) == tries[c][r] < MaxAttempts

\* Err(Transport(_)) if attempts < RETRY_MAX_ATTEMPTS: sleep, then again.
MayRetry(c, r) == tries[c][r] + 1 < MaxAttempts
CountTry(c, r) == tries' = [tries EXCEPT ![c][r] = @ + 1]

\* The service's rule for an insert of the rows R: all or nothing.
Inserted(R) == IF R \cap table = {} THEN table \cup R ELSE table

-----------------------------------------------------------------------------
(* put_block_bytes: continuation rows, then the root row.                   *)

\* Fault: the root row is inserted along with the continuation rows.
StartPutAllRows(c, b) ==
    /\ pc[c] \in Settled
    /\ blk' = [blk EXCEPT ![c] = b]
    /\ attempted' = attempted \cup {b}
    /\ Enter(c, "rows", RowsOf(b))
    /\ seen' = [seen EXCEPT ![c] = {}]
    /\ UNCHANGED <<table, late, cursor, finished, pending, yielded>>

StartPut(c, b) ==
    /\ pc[c] \in Settled
    /\ blk' = [blk EXCEPT ![c] = b]
    /\ attempted' = attempted \cup {b}
    /\ IF Continuation(b) = {}
       THEN Enter(c, "root", {Root(b)})
       ELSE Enter(c, "tx", Continuation(b))
    /\ seen' = [seen EXCEPT ![c] = {}]
    /\ UNCHANGED <<table, late, cursor, finished, pending, yielded>>

\* build_insert_transaction_request returns None: no request is made.
TxTooLarge(c) ==
    /\ pc[c] = "tx"
    /\ Cardinality(todo[c]) > TxMax
    /\ Enter(c, "rows", todo[c])
    /\ UNCHANGED <<putVars, blk, readVars>>

TxSent(c) ==
    /\ pc[c] = "tx"
    /\ Cardinality(todo[c]) <= TxMax

TxCommitted(c) ==
    /\ TxSent(c)
    /\ todo[c] \cap table = {}
    /\ table' = table \cup todo[c]
    /\ Enter(c, "root", {Root(blk[c])})
    /\ UNCHANGED <<late, attempted, blk, readVars>>

\* One row of the transaction exists: nothing was written, and the rows are
\* inserted one by one instead.
TxAlreadyExists(c) ==
    /\ TxSent(c)
    /\ todo[c] \cap table # {}
    /\ Enter(c, "rows", todo[c])
    /\ UNCHANGED <<putVars, blk, readVars>>

\* No answer arrives: once more, or the attempts are used up.
TxLost(c) ==
    /\ TxSent(c)
    /\ late' \in {late, late \cup {todo[c]}}
    /\ IF MayRetry(c, Start)
       THEN CountTry(c, Start) /\ UNCHANGED <<pc, todo, missing, failed>>
       ELSE Finish(c, "err")
    /\ UNCHANGED <<table, attempted, blk, readVars>>

\* Fault: a refused transaction counts as a committed one.
TxRefusedIgnored(c) ==
    /\ TxSent(c)
    /\ table' \in {table, Inserted(todo[c])}
    /\ Enter(c, "root", {Root(blk[c])})
    /\ UNCHANGED <<late, attempted, blk, readVars>>

\* An answer that is neither success nor conflict, or whose body cannot be
\* read: in the second case the service has done its work.
TxRefused(c) ==
    /\ TxSent(c)
    /\ table' \in {table, Inserted(todo[c])}
    /\ Finish(c, "err")
    /\ UNCHANGED <<late, attempted, blk, readVars>>

\* Fault: the first row to settle opens the root phase.
RowSettledFirst(c, r) ==
    /\ pc[c] \in {"rows", "root"}
    /\ r \in todo[c]
    /\ table' = table \cup {r}
    /\ IF pc[c] = "rows"
       THEN Enter(c, "root", {Root(blk[c])})
       ELSE Finish(c, "ok")
    /\ UNCHANGED <<late, attempted, blk, readVars>>

\* insert_row_with_retries returns Ok: the row was inserted, or exists.  The
\* last continuation row opens the root phase, the root row ends the put.
RowSettled(c, r) ==
    /\ pc[c] \in {"rows", "root"}
    /\ r \in todo[c]
    /\ table' = table \cup {r}
    /\ IF todo[c] # {r}
       THEN /\ todo' = [todo EXCEPT ![c] = @ \ {r}]
            /\ UNCHANGED <<pc, tries, missing, failed>>
       ELSE IF pc[c] = "rows"
            THEN Enter(c, "root", {Root(blk[c])})
            ELSE Finish(c, "ok")
    /\ UNCHANGED <<late, attempted, blk, readVars>>

RowRetry(c, r) ==
    /\ pc[c] \in {"rows", "root"}
    /\ r \in todo[c]
    /\ late' \in {late, late \cup {{r}}}
    /\ MayRetry(c, r)
    /\ CountTry(c, r)
    /\ UNCHANGED <<table, attempted, pc, blk, todo, missing, failed, readVars>>

\* Fault: the attempt counter starts over when it reaches its limit.
RowTriesReset(c, r) ==
    /\ pc[c] \in {"rows", "root"}
    /\ r \in todo[c]
    /\ ~MayRetry(c, r)
    /\ tries' = [tries EXCEPT ![c] = NoTries]
    /\ UNCHANGED <<putVars, pc, blk, todo, missing, failed, readVars>>

\* The attempts are used up.  The other inserts of the FuturesUnordered are
\* dropped where they stand.
RowExhausted(c, r) ==
    /\ pc[c] \in {"rows", "root"}
    /\ r \in todo[c]
    /\ ~MayRetry(c, r)
    /\ Drop(Outstanding(c))
    /\ Finish(c, "err")
    /\ UNCHANGED <<table, attempted, blk, readVars>>

\* Fault: an error answer counts as success.
RowRefusedIgnored(c, r) ==
    /\ pc[c] \in {"rows", "root"}
    /\ r \in todo[c]
    /\ IF pc[c] = "rows"
       THEN Enter(c, "root", {Root(blk[c])})
       ELSE Finish(c, "ok")
    /\ UNCHANGED <<putVars, blk, readVars>>

RowRefused(c, r) ==
    /\ pc[c] \in {"rows", "root"}
    /\ r \in todo[c]
    /\ table' \in {table, table \cup {r}}
    /\ Drop(Outstanding(c) \ {{r}})
    /\ Finish(c, "err")
    /\ UNCHANGED <<attempted, blk, readVars>>

-----------------------------------------------------------------------------
(* get_block_bytes: the root row, then every continuation row at once.      *)

StartGet(c, b) ==
    /\ pc[c] \in Settled
    /\ blk' = [blk EXCEPT ![c] = b]
    /\ Enter(c, "getroot", {Root(b)})
    /\ seen' = [seen EXCEPT ![c] = Stored]
    /\ UNCHANGED <<putVars, cursor, finished, pending, yielded>>

RootMissing(c) ==
    /\ pc[c] = "getroot"
    /\ Root(blk[c]) \notin table
    /\ Finish(c, "none")
    /\ UNCHANGED <<putVars, blk, readVars>>

RootFound(c) ==
    /\ pc[c] = "getroot"
    /\ Root(blk[c]) \in table
    /\ IF Continuation(blk[c]) = {}
       THEN Finish(c, "some")
       ELSE Enter(c, "getrows", Continuation(blk[c]))
    /\ UNCHANGED <<putVars, blk, readVars>>

\* Results are consumed in row order: a bad row ends the read only when every
\* earlier row has settled.
Decisive(bad, open) == {r \in bad : \A s \in open : Before(r, s)}

\* The read of row r settles; `mis' and `bad' are the rows without a result.
RowRead(c, r, mis, bad) ==
    LET open  == todo[c] \ {r}
        first == Decisive(mis \cup bad, open)
        worst == CHOOSE s \in first : \A t \in first : t = s \/ Before(s, t)
    IN  IF first # {}
        THEN Finish(c, IF worst \in mis THEN "torn" ELSE "err")
        ELSE IF open = {}
        THEN Finish(c, "some")
        ELSE /\ todo' = [todo EXCEPT ![c] = open]
             /\ missing' = [missing EXCEPT ![c] = mis]
             /\ failed' = [failed EXCEPT ![c] = bad]
             /\ UNCHANGED <<pc, tries>>

ReadAnswered(c, r) ==
    /\ pc[c] = "getrows"
    /\ r \in todo[c]
    /\ IF r \in table
       THEN RowRead(c, r, missing[c], failed[c])
       ELSE RowRead(c, r, missing[c] \cup {r}, failed[c])
    /\ UNCHANGED <<putVars, blk, readVars>>

ReadRetry(c, r) ==
    /\ pc[c] \in {"getroot", "getrows"}
    /\ r \in todo[c]
    /\ MayRetry(c, r)
    /\ CountTry(c, r)
    /\ UNCHANGED <<putVars, pc, blk, todo, missing, failed, readVars>>

\* The attempts are used up, or the answer is an error.
ReadFailed(c, r) ==
    /\ r \in todo[c]
    /\ \/ pc[c] = "getroot" /\ Finish(c, "err")
       \/ pc[c] = "getrows" /\ RowRead(c, r, missing[c], failed[c] \cup {r})
    /\ UNCHANGED <<putVars, blk, readVars>>

-----------------------------------------------------------------------------
(* iter_block_ids: pages of rows in key order, root rows yielded.           *)

StartList(c) ==
    /\ pc[c] \in Settled
    /\ Enter(c, "list", {})
    /\ seen' = [seen EXCEPT ![c] = Stored]
    /\ cursor' = [cursor EXCEPT ![c] = Start]
    /\ finished' = [finished EXCEPT ![c] = FALSE]
    /\ pending' = [pending EXCEPT ![c] = {}]
    /\ yielded' = [yielded EXCEPT ![c] = <<>>]
    /\ UNCHANGED <<putVars, blk>>

\* Fault: the continuation token is not sent with the next request.
PageRootsFromStart(c, rows) == {r \in rows : r[2] = 0}

\* The rows of a page that ends before the key `stop'.  The service may end a
\* page anywhere, an empty one too.  Continuation rows are not block ids.
PageRoots(c, rows) == {r \in rows : r[2] = 0 /\ ~Before(r, cursor[c])}

PageFetched(c) ==
    /\ pc[c] = "list"
    /\ pending[c] = {}
    /\ ~finished[c]
    /\ \/ \E stop \in Rows :
             /\ Before(cursor[c], stop)
             /\ cursor' = [cursor EXCEPT ![c] = stop]
             /\ pending' = [pending EXCEPT ![c] =
                               PageRoots(c, {r \in table : Before(r, stop)})]
             /\ UNCHANGED finished
       \/ /\ finished' = [finished EXCEPT ![c] = TRUE]
          /\ pending' = [pending EXCEPT ![c] = PageRoots(c, table)]
          /\ UNCHANGED cursor
    /\ tries' = [tries EXCEPT ![c] = NoTries]
    /\ UNCHANGED <<putVars, pc, blk, todo, missing, failed, seen, yielded>>

Yield(c) ==
    /\ pc[c] = "list"
    /\ \E r \in pending[c] :
          /\ \A s \in pending[c] : s = r \/ Before(r, s)
          /\ pending' = [pending EXCEPT ![c] = @ \ {r}]
          /\ yielded' = [yielded EXCEPT ![c] = Append(@, r[1])]
    /\ UNCHANGED <<putVars, pc, blk, opVars, seen, cursor, finished>>

\* Fault: an empty page ends the enumeration.
ListEndsEarly(c) ==
    /\ pc[c] = "list"
    /\ pending[c] = {}
    /\ cursor[c] # Start \/ finished[c]
    /\ Finish(c, "listed")
    /\ UNCHANGED <<putVars, blk, readVars>>

ListEnds(c) ==
    /\ pc[c] = "list"
    /\ pending[c] = {}
    /\ finished[c]
    /\ Finish(c, "listed")
    /\ UNCHANGED <<putVars, blk, readVars>>

PageRetry(c) ==
    /\ pc[c] = "list"
    /\ pending[c] = {}
    /\ ~finished[c]
    /\ MayRetry(c, Start)
    /\ CountTry(c, Start)
    /\ UNCHANGED <<putVars, pc, blk, todo, missing, failed, readVars>>

PageFailed(c) ==
    /\ pc[c] = "list"
    /\ pending[c] = {}
    /\ ~finished[c]
    /\ Finish(c, "err")
    /\ UNCHANGED <<putVars, blk, readVars>>

-----------------------------------------------------------------------------

\* The caller drops the future of the operation, or its process dies.
Abandon(c) ==
    /\ pc[c] \in Running
    /\ Drop(Outstanding(c))
    /\ Finish(c, "idle")
    /\ UNCHANGED <<table, attempted, blk, readVars>>

\* A request that nobody waits for reaches the service.
LateInsert ==
    /\ \E R \in late : late' = late \ {R} /\ table' = Inserted(R)
    /\ UNCHANGED <<attempted, pc, blk, opVars, readVars>>

PutStep(c) ==
    \/ TxTooLarge(c) \/ TxCommitted(c) \/ TxAlreadyExists(c) \/ TxLost(c)
    \/ TxRefused(c)
    \/ \E r \in todo[c] : \/ RowSettled(c, r) \/ RowRetry(c, r)
                          \/ RowExhausted(c, r) \/ RowRefused(c, r)

GetStep(c) ==
    \/ RootMissing(c) \/ RootFound(c)
    \/ \E r \in todo[c] : \/ ReadAnswered(c, r) \/ ReadRetry(c, r)
                          \/ ReadFailed(c, r)

ListStep(c) ==
    \/ PageFetched(c) \/ Yield(c) \/ ListEnds(c) \/ PageRetry(c) \/ PageFailed(c)

Next ==
    \/ \E c \in Writers : (\E b \in Blocks : StartPut(c, b)) \/ PutStep(c)
    \/ \E c \in Readers : (\E b \in Blocks : StartGet(c, b)) \/ GetStep(c)
    \/ \E c \in Listers : StartList(c) \/ ListStep(c)
    \/ \E c \in Clients : Abandon(c)
    \/ LateInsert

Spec == Init /\ [][Next]_vars

\* Every request is answered or fails, and the consumer of a stream polls it.
Fairness ==
    /\ \A c \in Writers : WF_vars(PutStep(c))
    /\ \A c \in Readers : WF_vars(GetStep(c))
    /\ \A c \in Listers : WF_vars(ListStep(c))

FairSpec == Spec /\ Fairness

-----------------------------------------------------------------------------
(* The inductive invariant.                                                 *)

\* A put that has reached its root phase has its continuation rows in the
\* table; before, the rows that are not outstanding are there.
WriterPhase(c) ==
    /\ pc[c] = "tx" => todo[c] = Continuation(blk[c])
    /\ pc[c] = "rows" => /\ todo[c] \subseteq Continuation(blk[c])
                         /\ Continuation(blk[c]) \subseteq table \cup todo[c]
    /\ pc[c] = "root" => /\ todo[c] = {Root(blk[c])}
                         /\ Continuation(blk[c]) \subseteq table

\* A get that reads continuation rows has seen the root row.
ReaderPhase(c) ==
    /\ pc[c] = "getroot" => todo[c] = {Root(blk[c])}
    /\ pc[c] = "getrows" => /\ todo[c] \subseteq Continuation(blk[c])
                            /\ Root(blk[c]) \in table
    /\ missing[c] = {}

ClientSafe(c) == WriterPhase(c) /\ ReaderPhase(c) /\ pc[c] # "torn"

\* Inserting the rows R commits no block whose continuation rows are missing.
SafeRows(R) ==
    \A b \in Blocks : Root(b) \in R => Continuation(b) \subseteq table

IndInv ==
    /\ TypeOK
    /\ \A b \in Blocks : Root(b) \in table => Continuation(b) \subseteq table
    /\ \A R \in late : SafeRows(R)
    /\ \A c \in Clients : ClientSafe(c)

Yielded(c) == {yielded[c][i] : i \in 1 .. Len(yielded[c])}

\* What an enumeration has yielded lies before the rows it holds, and both lie
\* before the key its next page starts at.
Ordered(c) ==
    /\ \A i, j \in 1 .. Len(yielded[c]) : i < j => yielded[c][i] < yielded[c][j]
    /\ \A b \in Yielded(c), r \in pending[c] : b < r[1]
    /\ finished[c] \/ \A b \in Yielded(c) : Before(Root(b), cursor[c])
    /\ \A r \in pending[c] : r[2] = 0 /\ (finished[c] \/ Before(r, cursor[c]))

ListInv == TypeOK /\ \A c \in Clients : Ordered(c)

\* A block stored when the enumeration began is yielded, held, or still ahead
\* of the cursor, and the enumeration knows stored blocks only.
Covered(c) ==
    pc[c] \in {"list", "listed"} =>
        /\ \A b \in seen[c] :
              \/ b \in Yielded(c)
              \/ Root(b) \in pending[c]
              \/ ~finished[c] /\ ~Before(Root(b), cursor[c])
        /\ Yielded(c) \subseteq Stored
        /\ pending[c] \subseteq table
        /\ pc[c] = "listed" => finished[c] /\ pending[c] = {}

\* A root row, in the table, on the wire or to be sent, is of an attempted put.
Attempted ==
    /\ Stored \subseteq attempted
    /\ \A R \in late, b \in Blocks : Root(b) \in R => b \in attempted /\ R = {Root(b)}
    /\ \A c \in Clients : pc[c] \in Putting => blk[c] \in attempted

RefInv ==
    /\ IndInv
    /\ ListInv
    /\ Attempted
    /\ \A c \in Clients : seen[c] \subseteq Stored /\ Covered(c)

-----------------------------------------------------------------------------
(* Properties.                                                              *)

\* The root row is the commit point of put_block_bytes: whatever other
\* publishers, lost answers and dropped futures do, a root row in the table
\* has all its continuation rows in the table.
CommitPoint == \A b \in Blocks : Root(b) \in table => RowsOf(b) \subseteq table

\* get_block_bytes never ends with "row set is missing a required
\* continuation row", however its reads interleave with publishers.
NoTornRead == \A c \in Clients : pc[c] # "torn"

\* iter_block_ids yields ids in key order, so none twice, although rows are
\* inserted between the pages it fetches.
EnumerationOrdered ==
    \A c \in Clients : \A i, j \in 1 .. Len(yielded[c]) :
        i < j => yielded[c][i] < yielded[c][j]

\* Every put, get and enumeration returns: retries are bounded and pages
\* advance.
CallsReturn == \A c \in Clients : pc[c] \in Running ~> pc[c] \in Settled

\* What the caller of client c sees of its operation.
Op(c) ==
    CASE pc[c] \in Putting -> "put"
      [] pc[c] \in Getting -> "get"
      [] OTHER             -> pc[c]

opBar  == [c \in Clients |-> Op(c)]
idsBar == [c \in Clients |-> IF pc[c] = "listed" THEN Yielded(c) ELSE {}]

\* The store implements the BlockStore contract: acknowledged blocks stay
\* visible, reads are whole, enumerations are complete.
Contract == INSTANCE BlockStoreContract WITH
    stored <- Stored,
    attempted <- attempted,
    op <- opBar,
    arg <- blk,
    known <- seen,
    ids <- idsBar

ContractSpec == Contract!Spec

=============================================================================
