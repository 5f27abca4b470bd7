----------------------------- MODULE ObjectStore -----------------------------
(* The stores that keep a block as one object of a remote service or archive:  *)
(* lexongraph_block_store_azure (blobs over HTTP), _azure_sdk (blobs over the  *)
(* SDK), _azure_table (one entity a block) and _zip (read only).  An insert    *)
(* only creates.  A request that failed in transport may have reached the      *)
(* service, may reach it later, or never; it is sent again, up to a limit.     *)
(* Enumeration asks for page after page, and objects come in between.          *)
EXTENDS Naturals, Sequences, FiniteSets

CONSTANTS
    Writers, Readers, \* concurrent callers
    Blocks,         \* block identifiers
    Order,          \* the service's key order: blocks and names of other objects
    Unrelated,      \* names that are no block names: skipped
    Malformed,      \* names that look like a block's and are not: an error
    TooLarge,       \* blocks that do not fit one entity of the table
    PageSize,
    MaxAttempts     \* TRANSPORT_MAX_ATTEMPTS, RETRY_MAX_ATTEMPTS, max_retries + 1

Clients == Writers \cup Readers

\* Every block has a place in the order; a block name is no other object's.
ObjectAssumption ==
    /\ Order \in Seq(Blocks \cup Unrelated \cup Malformed)
    /\ \A b \in Blocks : \E i \in 1 .. Len(Order) : Order[i] = b
    /\ Blocks # {} /\ Blocks \cap (Unrelated \cup Malformed) = {}
    /\ MaxAttempts \in Nat

VARIABLES
    kind,           \* which of the stores
    twice,          \* the blocks that an archive has two entries of
    objects,        \* the names in the service
    flying,         \* blocks whose insert may still reach the service
    attempted,      \* blocks some put was started for
    pc, blk,        \* phase and block of each caller's operation
    tries,          \* attempts_made
    seen,           \* blocks stored when the read began
    cursor,         \* next_marker, continuation: a position in Order; 0 is none
    pending,        \* pending_names, pending: positions in Order
    yielded         \* the ids the stream has returned

callVars == <<pc, blk, tries, seen, cursor, pending, yielded>>
vars == <<kind, twice, objects, flying, attempted, callVars>>

Stored == objects \cap Blocks
Settled == {"idle", "ok", "err", "some", "none", "listed"}

TypeOK ==
    /\ kind \in {"blob", "sdk", "table", "zip"} /\ twice \subseteq Blocks
    /\ objects \subseteq Blocks \cup Unrelated \cup Malformed
    /\ flying \subseteq attempted /\ attempted \subseteq Blocks
    /\ pc \in [Clients -> Settled \cup {"put", "verify", "get", "list"}]
    /\ blk \in [Clients -> Blocks]
    /\ tries \in [Clients -> Nat]
    /\ seen \in [Clients -> SUBSET Blocks] /\ yielded \in [Clients -> SUBSET Blocks]
    /\ cursor \in [Clients -> 0 .. Len(Order)]
    /\ pending \in [Clients -> SUBSET (1 .. Len(Order))]

Init ==
    /\ kind \in {"blob", "sdk", "table", "zip"}
    /\ \E S \in SUBSET Blocks, F \in {Unrelated, Unrelated \cup Malformed} :
          /\ objects = S \cup F
          /\ attempted = S
          /\ twice \in IF kind = "zip" THEN {{}, S} ELSE {{}}
    /\ flying = {}
    /\ pc = [c \in Clients |-> "idle"]
    /\ blk = [c \in Clients |-> CHOOSE b \in Blocks : TRUE]
    /\ tries = [c \in Clients |-> 0]
    /\ seen = [c \in Clients |-> {}]
    /\ cursor = [c \in Clients |-> 0]
    /\ pending = [c \in Clients |-> {}]
    /\ yielded = [c \in Clients |-> {}]

Begin(c, b, what) ==
    /\ c \in (IF what = "put" THEN Writers ELSE Readers)
    /\ pc[c] \in Settled
    /\ pc' = [pc EXCEPT ![c] = what]
    /\ blk' = [blk EXCEPT ![c] = b]
    /\ tries' = [tries EXCEPT ![c] = 0]
    /\ seen' = [seen EXCEPT ![c] = IF what = "put" THEN {} ELSE Stored]
    /\ cursor' = [cursor EXCEPT ![c] = IF what = "list" THEN 1 ELSE 0]
    /\ pending' = [pending EXCEPT ![c] = {}]
    /\ yielded' = [yielded EXCEPT ![c] = {}]
    /\ attempted' = IF what = "put" THEN attempted \cup {b} ELSE attempted
    /\ UNCHANGED <<kind, twice, objects, flying>>

Replies(c, r) ==
    /\ pc' = [pc EXCEPT ![c] = r]
    /\ tries' = [tries EXCEPT ![c] = 0]
    /\ cursor' = [cursor EXCEPT ![c] = 0]
    /\ pending' = [pending EXCEPT ![c] = {}]
    /\ UNCHANGED <<blk, seen, yielded>>

\* The service creates the object, or says that it exists: either is success.
Created(c) ==
    /\ pc[c] = "put"
    /\ objects' = objects \cup {blk[c]}
    /\ Replies(c, "ok")

\* An error that is not the transport's; the blob store first looks at the blob's
\* properties, for its message only.
Fails(c, call) ==
    /\ pc[c] = call
    /\ Replies(c, "err")
    /\ UNCHANGED objects

\* put_block_bytes of the four stores.  The table store refuses a block that does
\* not fit one entity, an archive every block.
TooLong(c) == kind = "table" /\ blk[c] \in TooLarge
Sends(c) == pc[c] = "put" /\ kind # "zip" /\ ~TooLong(c)

BlobPut(c)    == kind = "blob" /\ (Created(c) \/ Fails(c, "put"))
SdkPut(c)     == kind = "sdk" /\ (Created(c) \/ Fails(c, "put"))
TablePut(c)   == kind = "table" /\ ((~TooLong(c) /\ Created(c)) \/ Fails(c, "put"))
ArchivePut(c) == kind = "zip" /\ Fails(c, "put")
Put(c) ==
    /\ BlobPut(c) \/ SdkPut(c) \/ TablePut(c) \/ ArchivePut(c)
    /\ UNCHANGED <<kind, twice, flying, attempted>>

\* What the blob store does when no attempt was answered: PutLost below, for a
\* store that takes the last attempt for done.
PutLostTrusted(c) ==
    /\ Sends(c)
    /\ flying' = flying \cup {blk[c]}
    /\ Replies(c, "ok")
    /\ UNCHANGED <<kind, twice, objects, attempted>>

\* The transport fails: the attempt is repeated if that may help and the limit
\* allows it, else the blob store looks whether the block is there.
PutLost(c) ==
    /\ Sends(c)
    /\ flying' = flying \cup {blk[c]}
    /\ \/ /\ tries[c] + 1 < MaxAttempts
          /\ tries' = [tries EXCEPT ![c] = @ + 1]
          /\ UNCHANGED pc
       \/ /\ pc' = [pc EXCEPT ![c] = IF kind = "blob" THEN "verify" ELSE "err"]
          /\ UNCHANGED tries
    /\ UNCHANGED <<kind, twice, objects, attempted, blk, seen, cursor, pending, yielded>>

\* read_existing_or_map_transport_publish_error.
Verify(c) ==
    /\ pc[c] = "verify"
    /\ Replies(c, IF blk[c] \in objects THEN "ok" ELSE "err")
    /\ UNCHANGED <<kind, twice, objects, flying, attempted>>

\* A late insert reaches the service, or is lost for good.
Arrive(b) ==
    /\ b \in flying
    /\ flying' = flying \ {b}
    /\ objects' \in {objects, objects \cup {b}}
    /\ UNCHANGED <<kind, twice, attempted, callVars>>

\* get_block_bytes of the four stores.  An archive that has the entry twice gives
\* neither.
Found(c) ==
    /\ pc[c] = "get"
    /\ Replies(c, IF blk[c] \in objects THEN "some" ELSE "none")
    /\ UNCHANGED objects

BlobGet(c)    == kind = "blob" /\ (Found(c) \/ Fails(c, "get"))
SdkGet(c)     == kind = "sdk" /\ (Found(c) \/ Fails(c, "get"))
TableGet(c)   == kind = "table" /\ (Found(c) \/ Fails(c, "get"))
ArchiveGet(c) == kind = "zip" /\ ((blk[c] \notin twice /\ Found(c)) \/ Fails(c, "get"))
Get(c) ==
    /\ BlobGet(c) \/ SdkGet(c) \/ TableGet(c) \/ ArchiveGet(c)
    /\ UNCHANGED <<kind, twice, flying, attempted>>

\* The transport fails: repeated, or given up.
CallFails(c) ==
    /\ pc[c] \in {"get", "list", "verify"}
    /\ \/ /\ tries[c] + 1 < MaxAttempts /\ pc[c] # "verify"
          /\ tries' = [tries EXCEPT ![c] = @ + 1]
          /\ UNCHANGED pc
       \/ pc' = [pc EXCEPT ![c] = "err"] /\ UNCHANGED tries
    /\ UNCHANGED <<kind, twice, objects, flying, attempted, blk, seen, cursor, pending, yielded>>

\* A page: the first names from the marker on, all of them in an archive, and
\* the marker of the next page.
Left(from) == {i \in from .. Len(Order) : Order[i] \in objects}

IsPage(page, left) ==
    /\ \A i \in page, j \in left \ page : i < j
    /\ Cardinality(page) =
          IF kind = "zip" \/ Cardinality(left) < PageSize THEN Cardinality(left) ELSE PageSize

IsMarker(next, rest) ==
    IF rest = {} THEN next = 0 ELSE next \in rest /\ \A i \in rest : next <= i

FetchPage(c) ==
    /\ pc[c] = "list" /\ pending[c] = {} /\ cursor[c] # 0
    /\ \E page \in SUBSET Left(cursor[c]), next \in 0 .. Len(Order) :
          /\ IsPage(page, Left(cursor[c]))
          /\ IsMarker(next, Left(cursor[c]) \ page)
          /\ pending' = [pending EXCEPT ![c] = page]
          /\ cursor' = [cursor EXCEPT ![c] = next]
    /\ tries' = [tries EXCEPT ![c] = 0]
    /\ UNCHANGED <<kind, twice, objects, flying, attempted, pc, blk, seen, yielded>>

\* What a name is taken for: an id, nothing, or an error that ends the stream.  An
\* archive passes over what it does not recognise, but not over a second entry.
Judged(name, strict) ==
    CASE name \in Blocks -> "id"
      [] name \in Malformed /\ strict -> "error"
      [] OTHER -> "skip"
BlobName(name)  == Judged(name, TRUE)
SdkName(name)   == Judged(name, TRUE)
TableKeys(name) == Judged(name, TRUE)
EntryName(name) == IF name \in twice THEN "error" ELSE Judged(name, FALSE)
Recognized(name) ==
    CASE kind = "blob" -> BlobName(name) [] kind = "sdk" -> SdkName(name)
      [] kind = "table" -> TableKeys(name) [] kind = "zip" -> EntryName(name)

\* azure_block_id_stream: the next name of the page.
Yield(c) ==
    /\ pc[c] = "list"
    /\ \E i \in pending[c] :
          /\ \A j \in pending[c] : i <= j
          /\ \/ Recognized(Order[i]) = "error" /\ Replies(c, "err")
             \/ /\ Recognized(Order[i]) # "error"
                /\ pending' = [pending EXCEPT ![c] = @ \ {i}]
                /\ yielded' = [yielded EXCEPT ![c] =
                                   IF Recognized(Order[i]) = "id" THEN @ \cup {Order[i]} ELSE @]
                /\ UNCHANGED <<pc, blk, tries, seen, cursor>>
    /\ UNCHANGED <<kind, twice, objects, flying, attempted>>

ListEnds(c) ==
    /\ pc[c] = "list" /\ pending[c] = {} /\ cursor[c] = 0
    /\ Replies(c, "listed")
    /\ UNCHANGED <<kind, twice, objects, flying, attempted>>

\* The caller drops the future: the worker thread of the blob store goes on, and
\* a request already sent may arrive.
Abandon(c) ==
    /\ pc[c] \notin Settled
    /\ flying' = IF Sends(c) THEN flying \cup {blk[c]} ELSE flying
    /\ Replies(c, "idle")
    /\ UNCHANGED <<kind, twice, objects, attempted>>

Next ==
    \/ \E c \in Clients :
          \/ \E b \in Blocks, what \in {"put", "get", "list"} : Begin(c, b, what)
          \/ Put(c) \/ PutLost(c) \/ Verify(c) \/ Get(c) \/ CallFails(c)
          \/ FetchPage(c) \/ Yield(c) \/ ListEnds(c)
          \/ Abandon(c)
    \/ \E b \in Blocks : Arrive(b)

Spec == Init /\ [][Next]_vars

-----------------------------------------------------------------------------

\* What the caller of client c sees of its operation.
opBar  == [c \in Clients |-> IF pc[c] = "verify" THEN "put" ELSE pc[c]]
idsBar == [c \in Clients |-> IF pc[c] = "listed" THEN yielded[c] ELSE {}]

\* The stores implement the BlockStore contract: a put that returned Ok is found
\* by every later get and enumeration, whatever requests were lost, came late or
\* were sent twice, and however pages and inserts alternate.
Contract == INSTANCE BlockStoreContract WITH
    stored <- Stored,
    op  <- opBar,
    arg <- blk,
    known <- seen,
    ids <- idsBar

ContractStep == [Contract!Next]_(Contract!vars)
ContractSpec == Contract!Spec

-----------------------------------------------------------------------------
(* The inductive invariant.                                                 *)

\* The stream of c has yet to come to block b: it is in the page at hand, or its
\* place is not before the marker of the next.
Ahead(c, b) ==
    \E i \in 1 .. Len(Order) :
        Order[i] = b /\ (i \in pending[c] \/ (cursor[c] # 0 /\ cursor[c] <= i))

\* What a call under way knows: a put was announced, what was stored when a read
\* began still is, a page holds only objects, and an enumeration has yielded or
\* has yet to come to everything stored when it began.
CallInv(c) ==
    /\ pc[c] \in {"put", "verify"} => blk[c] \in attempted
    /\ seen[c] \subseteq Stored /\ yielded[c] \subseteq Stored
    /\ \A i \in pending[c] : Order[i] \in objects
    /\ pc[c] = "list" => \A b \in seen[c] : b \in yielded[c] \/ Ahead(c, b)
    /\ pc[c] = "listed" => seen[c] \subseteq yielded[c]

ObjectInv == TypeOK /\ \A c \in Clients : CallInv(c)

=============================================================================
