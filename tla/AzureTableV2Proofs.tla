------------------------- MODULE AzureTableV2Proofs -------------------------
(***************************************************************************)
(* Proofs about AzureTableV2, for every set of tasks, every block layout    *)
(* and every retry limit.                                                   *)
(***************************************************************************)
EXTENDS AzureTableV2, TLAPS

-----------------------------------------------------------------------------
(* Keys of rows.                                                            *)

\* Every row of a block belongs to exactly that block, and the root row is
\* none of its continuation rows.
LEMMA RowKeys ==
    ASSUME NEW b \in Blocks
    PROVE  /\ Root(b) \in Rows
           /\ Continuation(b) \subseteq Rows
           /\ Root(b) \notin Continuation(b)
           /\ \A d \in Blocks : Root(d) \in Continuation(b) => FALSE
           /\ \A d \in Blocks : Root(d) = Root(b) => d = b
  BY BlocksAssumption, RowCountAssumption DEF Root, Continuation, RowsOf, Rows

\* The first key component of a row is a block.
LEMMA RowBlock == \A r \in Rows : r[1] \in Blocks
  BY DEF Root, Continuation, RowsOf, Rows

\* The attempt counters stay below RETRY_MAX_ATTEMPTS.
LEMMA NoTriesType == NoTries \in [Keys -> 0 .. MaxAttempts - 1]
  BY MaxAttemptsAssumption DEF NoTries

LEMMA CountTryType ==
    ASSUME NEW c \in Clients, NEW k \in Keys,
           tries \in [Clients -> [Keys -> 0 .. MaxAttempts - 1]],
           MayRetry(c, k), CountTry(c, k)
    PROVE  tries' \in [Clients -> [Keys -> 0 .. MaxAttempts - 1]]
<1>1. tries[c][k] \in 0 .. MaxAttempts - 1
  OBVIOUS
<1>2. tries[c][k] + 1 \in 0 .. MaxAttempts - 1
  BY <1>1, MaxAttemptsAssumption DEF MayRetry
<1>3. [tries[c] EXCEPT ![k] = tries[c][k] + 1] \in [Keys -> 0 .. MaxAttempts - 1]
  BY <1>2
<1> QED BY <1>3 DEF CountTry

-----------------------------------------------------------------------------
(* The service's insert rule.                                               *)

LEMMA InsertedType ==
    ASSUME table \subseteq Rows, NEW R, R \subseteq Rows
    PROVE  Inserted(R) \subseteq Rows /\ table \subseteq Inserted(R)
  BY DEF Inserted

-----------------------------------------------------------------------------
(* Type correctness.                                                        *)

LEMMA TypeStep == TypeOK /\ [Next]_vars => TypeOK'
<1> SUFFICES ASSUME TypeOK, [Next]_vars PROVE TypeOK'
  OBVIOUS
<1>c. Writers \subseteq Clients /\ Readers \subseteq Clients /\ Listers \subseteq Clients
  BY DEF Clients
<1> DEFINE PhaseType ==
             /\ pc' \in [Clients -> Settled \cup Running]
             /\ todo' \in [Clients -> SUBSET Rows]
             /\ tries' \in [Clients -> [Keys -> 0 .. MaxAttempts - 1]]
             /\ missing' \in [Clients -> SUBSET Rows]
             /\ failed' \in [Clients -> SUBSET Rows]
<1>f. ASSUME NEW c \in Clients, NEW result \in Settled, Finish(c, result)
      PROVE  PhaseType
  BY <1>f, NoTriesType DEF Finish, Enter, TypeOK
<1>t. ASSUME NEW c \in Clients, NEW k \in Keys, MayRetry(c, k), CountTry(c, k)
      PROVE  tries' \in [Clients -> [Keys -> 0 .. MaxAttempts - 1]]
  BY <1>t, CountTryType DEF TypeOK
<1>k. Start \in Keys /\ Rows \subseteq Keys
  BY DEF Keys
<1>e. ASSUME NEW c \in Clients, NEW phase \in Running,
             NEW rows \in SUBSET Rows, Enter(c, phase, rows)
      PROVE  PhaseType
  BY <1>e, NoTriesType DEF Enter, TypeOK
<1>o. ASSUME NEW c \in Clients PROVE Outstanding(c) \subseteq SUBSET Rows
  BY DEF TypeOK, Outstanding
<1>1. ASSUME NEW c \in Clients, c \in Writers, NEW b \in Blocks, StartPut(c, b) PROVE TypeOK'
  <2>1. PhaseType
    BY <1>1, <1>e, RowKeys DEF StartPut, Running, Putting, Getting
  <2> QED BY <1>1, <2>1 DEF TypeOK, StartPut
<1>2. ASSUME NEW c \in Clients, c \in Writers, PutStep(c) PROVE TypeOK'
  <2>1. CASE TxTooLarge(c) \/ TxCommitted(c) \/ TxAlreadyExists(c)
    <3>1. PhaseType
      BY <2>1, <1>e, RowKeys
         DEF TxTooLarge, TxCommitted, TxAlreadyExists, Running, Putting, Getting, TypeOK
    <3> QED BY <2>1, <3>1
            DEF TypeOK, TxTooLarge, TxCommitted, TxAlreadyExists, putVars, readVars
  <2>2. CASE TxLost(c)
    <3>1. PhaseType
      BY <2>2, <1>f, <1>t, <1>k DEF TxLost, Settled, TypeOK
    <3>2. late' \subseteq SUBSET Rows
      <4>1. todo[c] \subseteq Rows /\ late \subseteq SUBSET Rows
        BY DEF TypeOK
      <4>2. late' = late \/ late' = late \cup {todo[c]}
        BY <2>2 DEF TxLost
      <4> QED BY <4>1, <4>2
    <3> QED BY <2>2, <3>1, <3>2 DEF TypeOK, TxLost, readVars
  <2>3. CASE TxRefused(c)
    <3>1. PhaseType
      BY <2>3, <1>f DEF TxRefused, Settled
    <3> QED BY <2>3, <3>1, InsertedType DEF TypeOK, TxRefused, readVars
  <2>4. ASSUME NEW r \in todo[c], RowSettled(c, r) PROVE TypeOK'
    <3>1. CASE todo[c] # {r}
      <4>1. table' \subseteq Rows /\ todo' \in [Clients -> SUBSET Rows]
        <5>1. /\ table' = table \cup {r}
              /\ todo' = [todo EXCEPT ![c] = todo[c] \ {r}]
          BY <2>4, <3>1 DEF RowSettled
        <5>2. /\ r \in Rows /\ table \subseteq Rows
              /\ todo \in [Clients -> SUBSET Rows]
          BY DEF TypeOK
        <5> QED BY <5>1, <5>2
      <4> QED BY <2>4, <3>1, <4>1 DEF RowSettled, TypeOK, readVars
    <3>2. CASE todo[c] = {r}
      <4>1. blk[c] \in Blocks /\ r \in Rows
        BY DEF TypeOK
      <4>2. PhaseType
        BY <2>4, <3>2, <4>1, <1>f, <1>e, RowKeys DEF RowSettled, Settled, Running, Putting, Getting
      <4> QED BY <2>4, <4>1, <4>2 DEF TypeOK, RowSettled, readVars
    <3> QED BY <3>1, <3>2
  <2>5. ASSUME NEW r \in todo[c], RowRetry(c, r) PROVE TypeOK'
    <3>1. r \in Rows /\ late' \subseteq SUBSET Rows
      <4>1. r \in Rows /\ late \subseteq SUBSET Rows
        BY DEF TypeOK
      <4>2. late' = late \/ late' = late \cup {{r}}
        BY <2>5 DEF RowRetry
      <4> QED BY <4>1, <4>2
    <3> QED BY <2>5, <3>1, <1>t, <1>k DEF TypeOK, RowRetry, readVars
  <2>6. ASSUME NEW r \in todo[c], RowExhausted(c, r) PROVE TypeOK'
    <3>1. PhaseType
      BY <2>6, <1>f DEF RowExhausted, Settled
    <3> QED BY <2>6, <3>1, <1>o DEF TypeOK, RowExhausted, Drop, readVars
  <2>7. ASSUME NEW r \in todo[c], RowRefused(c, r) PROVE TypeOK'
    <3>1. PhaseType
      BY <2>7, <1>f DEF RowRefused, Settled
    <3> QED BY <2>7, <3>1, <1>o DEF TypeOK, RowRefused, Drop, readVars
  <2> QED BY <1>2, <2>1, <2>2, <2>3, <2>4, <2>5, <2>6, <2>7 DEF PutStep
<1>3. ASSUME NEW c \in Clients, c \in Readers, NEW b \in Blocks, StartGet(c, b) PROVE TypeOK'
  <2>1. PhaseType
    BY <1>3, <1>e, RowKeys DEF StartGet, Running, Putting, Getting
  <2> QED BY <1>3, <2>1 DEF TypeOK, StartGet, putVars, Stored
<1>4. ASSUME NEW c \in Clients, c \in Readers, GetStep(c) PROVE TypeOK'
  <2>r. ASSUME NEW r \in todo[c], NEW mis \in SUBSET Rows, NEW bad \in SUBSET Rows,
               RowRead(c, r, mis, bad)
        PROVE  PhaseType
    <3> DEFINE open == todo[c] \ {r}
    <3>1. CASE PhaseType
      BY <3>1
    <3>2. CASE /\ todo' = [todo EXCEPT ![c] = open]
               /\ missing' = [missing EXCEPT ![c] = mis]
               /\ failed' = [failed EXCEPT ![c] = bad]
               /\ UNCHANGED <<pc, tries>>
      BY <3>2 DEF TypeOK
    <3> QED BY <2>r, <3>1, <3>2, <1>f DEF RowRead, Settled
  <2>1. CASE RootMissing(c)
    BY <2>1, <1>f DEF TypeOK, RootMissing, Settled, putVars, readVars
  <2>2. CASE RootFound(c)
    <3>1. PhaseType
      BY <2>2, <1>f, <1>e, RowKeys DEF RootFound, Settled, Running, Putting, Getting, TypeOK
    <3> QED BY <2>2, <3>1 DEF TypeOK, RootFound, putVars, readVars
  <2>3. ASSUME NEW r \in todo[c], ReadAnswered(c, r) PROVE TypeOK'
    <3>1. PhaseType
      BY <2>3, <2>r DEF ReadAnswered, TypeOK
    <3> QED BY <2>3, <3>1 DEF TypeOK, ReadAnswered, putVars, readVars
  <2>4. ASSUME NEW r \in todo[c], ReadRetry(c, r) PROVE TypeOK'
    BY <2>4, <1>t, <1>k DEF TypeOK, ReadRetry, putVars, readVars
  <2>5. ASSUME NEW r \in todo[c], ReadFailed(c, r) PROVE TypeOK'
    <3>1. PhaseType
      <4>1. missing[c] \in SUBSET Rows /\ failed[c] \cup {r} \in SUBSET Rows
        BY DEF TypeOK
      <4> QED BY <2>5, <4>1, <2>r, <1>f DEF ReadFailed, Settled
    <3> QED BY <2>5, <3>1 DEF TypeOK, ReadFailed, putVars, readVars
  <2> QED BY <1>4, <2>1, <2>2, <2>3, <2>4, <2>5 DEF GetStep
<1>5. ASSUME NEW c \in Clients, c \in Listers, StartList(c) PROVE TypeOK'
  <2>1. PhaseType
    BY <1>5, <1>e DEF StartList, Running, Putting, Getting
  <2>2. /\ seen' \in [Clients -> SUBSET Blocks]
        /\ cursor' \in [Clients -> Keys]
        /\ finished' \in [Clients -> BOOLEAN]
    BY <1>5, <1>k DEF TypeOK, StartList, Stored
  <2>3. /\ pending' \in [Clients -> SUBSET Rows]
        /\ yielded' \in [Clients -> Seq(Blocks)]
    BY <1>5 DEF TypeOK, StartList
  <2> QED BY <1>5, <2>1, <2>2, <2>3 DEF TypeOK, StartList, putVars
<1>6. ASSUME NEW c \in Clients, c \in Listers, ListStep(c) PROVE TypeOK'
  <2>1. CASE PageFetched(c)
    <3>1. tries' \in [Clients -> [Keys -> 0 .. MaxAttempts - 1]]
      BY <2>1, NoTriesType DEF TypeOK, PageFetched
    <3>2. /\ cursor' \in [Clients -> Keys]
          /\ finished' \in [Clients -> BOOLEAN]
          /\ pending' \in [Clients -> SUBSET Rows]
      <4>1. ASSUME NEW rows \in SUBSET table PROVE PageRoots(c, rows) \in SUBSET Rows
        BY DEF TypeOK, PageRoots
      <4>2. CASE \E stop \in Rows :
                   /\ cursor' = [cursor EXCEPT ![c] = stop]
                   /\ pending' = [pending EXCEPT ![c] =
                                     PageRoots(c, {r \in table : Before(r, stop)})]
                   /\ UNCHANGED finished
        <5>1. PICK stop \in Rows :
                   /\ cursor' = [cursor EXCEPT ![c] = stop]
                   /\ pending' = [pending EXCEPT ![c] =
                                     PageRoots(c, {r \in table : Before(r, stop)})]
                   /\ UNCHANGED finished
          BY <4>2
        <5>2. PageRoots(c, {r \in table : Before(r, stop)}) \in SUBSET Rows
          BY <4>1
        <5> QED BY <5>1, <5>2, <1>k DEF TypeOK
      <4>3. CASE /\ finished' = [finished EXCEPT ![c] = TRUE]
                 /\ pending' = [pending EXCEPT ![c] = PageRoots(c, table)]
                 /\ UNCHANGED cursor
        BY <4>1, <4>3 DEF TypeOK
      <4> QED BY <2>1, <4>2, <4>3 DEF PageFetched
    <3> QED BY <2>1, <3>1, <3>2 DEF TypeOK, PageFetched, putVars
  <2>2. CASE Yield(c)
    BY <2>2, RowBlock DEF TypeOK, Yield, putVars, opVars
  <2>3. CASE ListEnds(c)
    BY <2>3, <1>f DEF TypeOK, ListEnds, Settled, putVars, readVars
  <2>4. CASE PageRetry(c)
    BY <2>4, <1>t, <1>k DEF TypeOK, PageRetry, putVars, readVars
  <2>5. CASE PageFailed(c)
    BY <2>5, <1>f DEF TypeOK, PageFailed, Settled, putVars, readVars
  <2> QED BY <1>6, <2>1, <2>2, <2>3, <2>4, <2>5 DEF ListStep
<1>7. ASSUME NEW c \in Clients, Abandon(c) PROVE TypeOK'
  <2>1. PhaseType
    BY <1>7, <1>f DEF Abandon, Settled
  <2> QED BY <1>7, <2>1, <1>o DEF TypeOK, Abandon, Drop, readVars
<1>8. CASE LateInsert
  BY <1>8, InsertedType DEF TypeOK, LateInsert, opVars, readVars
<1>9. CASE UNCHANGED vars
  BY <1>9 DEF TypeOK, vars
<1> QED BY <1>c, <1>1, <1>2, <1>3, <1>4, <1>5, <1>6, <1>7, <1>8, <1>9 DEF Next

\* TypeOK holds in every reachable state: in particular no request is retried
\* RETRY_MAX_ATTEMPTS times (insert_row_with_retries and its siblings), and an
\* enumeration yields block ids only.
THEOREM TypeCorrect == Spec => []TypeOK
<1>1. Init => TypeOK
  BY NoTriesType DEF Init, TypeOK, Settled, Keys
<1> QED BY <1>1, TypeStep, PTL DEF Spec

-----------------------------------------------------------------------------
(* The commit point.                                                        *)

\* What a client may have on the wire never commits a block too early.
LEMMA OutstandingSafe ==
    ASSUME IndInv, NEW c \in Clients
    PROVE  \A R \in Outstanding(c) : SafeRows(R)
<1>1. blk[c] \in Blocks /\ WriterPhase(c)
  BY DEF IndInv, TypeOK, ClientSafe
<1>2. CASE pc[c] = "tx"
  BY <1>1, <1>2, RowKeys DEF Outstanding, SafeRows, WriterPhase
<1>3. CASE pc[c] = "rows"
  BY <1>1, <1>3, RowKeys DEF Outstanding, SafeRows, WriterPhase
<1>4. CASE pc[c] = "root"
  BY <1>1, <1>4, RowKeys DEF Outstanding, SafeRows, WriterPhase
<1>5. CASE pc[c] \notin {"tx", "rows", "root"}
  BY <1>5 DEF Outstanding
<1> QED BY <1>2, <1>3, <1>4, <1>5

\* A step changes nothing of client d.
Quiet(d) ==
    pc'[d] = pc[d] /\ blk'[d] = blk[d] /\ todo'[d] = todo[d] /\ missing'[d] = missing[d]

\* A client that takes no step stays safe, since rows are never deleted.
LEMMA QuietSafe ==
    ASSUME NEW d \in Clients, ClientSafe(d), table \subseteq table', Quiet(d)
    PROVE  ClientSafe(d)'
  BY DEF ClientSafe, WriterPhase, ReaderPhase, Quiet

\* A step that inserts and abandons only safe requests, and leaves every client
\* quiet or safe, preserves the invariant.
LEMMA SafeStep ==
    ASSUME IndInv, TypeOK',
           NEW Src, \A R \in Src : SafeRows(R),
           table' = table \/ \E R \in Src : table' = table \cup R,
           late' \subseteq late \cup Src,
           \A d \in Clients : Quiet(d) \/ ClientSafe(d)'
    PROVE  IndInv'
<1>1. table \subseteq table'
  OBVIOUS
<1>2. \A d \in Clients : ClientSafe(d)'
  BY <1>1, QuietSafe DEF IndInv
<1>3. \A b \in Blocks : Root(b) \in table' => Continuation(b) \subseteq table'
  BY <1>1 DEF IndInv, SafeRows
<1>4. \A R \in late' : SafeRows(R)'
  BY <1>1 DEF IndInv, SafeRows
<1> QED BY <1>2, <1>3, <1>4 DEF IndInv

\* A client that enters a phase leaves the others alone.
LEMMA EnterQuiet ==
    ASSUME TypeOK, NEW c \in Clients, NEW phase, NEW rows, Enter(c, phase, rows),
           \A d \in Clients \ {c} : blk'[d] = blk[d]
    PROVE  /\ \A d \in Clients \ {c} : Quiet(d)
           /\ pc'[c] = phase /\ todo'[c] = rows /\ missing'[c] = {}
  BY DEF TypeOK, Enter, Quiet

\* An operation that returns anything but a torn read is safe.
LEMMA FinishSafe ==
    ASSUME TypeOK, NEW c \in Clients, NEW result \in Settled \ {"torn"},
           Finish(c, result), UNCHANGED blk
    PROVE  \A d \in Clients : Quiet(d) \/ ClientSafe(d)'
<1>1. /\ \A d \in Clients \ {c} : Quiet(d)
      /\ pc'[c] = result /\ missing'[c] = {}
  BY EnterQuiet DEF Finish
<1>2. ClientSafe(c)'
  BY <1>1 DEF ClientSafe, WriterPhase, ReaderPhase, Settled
<1> QED BY <1>1, <1>2

LEMMA PutSafe ==
    ASSUME IndInv, TypeOK', NEW c \in Clients, PutStep(c)
    PROVE  IndInv'
<1> DEFINE Src == Outstanding(c)
<1>o. \A R \in Src : SafeRows(R)
  BY OutstandingSafe
<1>w. TypeOK /\ blk[c] \in Blocks /\ WriterPhase(c) /\ ReaderPhase(c)
  BY DEF IndInv, TypeOK, ClientSafe
<1>tx. pc[c] = "tx" => Src = {todo[c]} /\ todo[c] = Continuation(blk[c])
  BY <1>w DEF Outstanding, WriterPhase
<1>row. pc[c] \in {"rows", "root"} => Src = {{r} : r \in todo[c]}
  BY DEF Outstanding
<1>1. CASE TxTooLarge(c) \/ TxAlreadyExists(c)
  <2>1. /\ Enter(c, "rows", todo[c]) /\ UNCHANGED <<blk, table, late>>
        /\ pc[c] = "tx"
    BY <1>1 DEF TxTooLarge, TxAlreadyExists, TxSent, putVars
  <2>2. /\ \A d \in Clients \ {c} : Quiet(d)
        /\ pc'[c] = "rows" /\ todo'[c] = todo[c] /\ missing'[c] = {}
    BY <2>1, <1>w, EnterQuiet
  <2>3. ClientSafe(c)'
    BY <2>1, <2>2, <1>tx DEF ClientSafe, WriterPhase, ReaderPhase
  <2> QED BY <1>o, <2>1, <2>2, <2>3, SafeStep
<1>2. CASE TxCommitted(c)
  <2>1. /\ Enter(c, "root", {Root(blk[c])}) /\ UNCHANGED <<blk, late>>
        /\ table' = table \cup todo[c] /\ pc[c] = "tx"
    BY <1>2 DEF TxCommitted, TxSent
  <2>2. /\ \A d \in Clients \ {c} : Quiet(d)
        /\ pc'[c] = "root" /\ todo'[c] = {Root(blk[c])} /\ missing'[c] = {}
    BY <2>1, <1>w, EnterQuiet
  <2>3. ClientSafe(c)'
    BY <2>1, <2>2, <1>tx DEF ClientSafe, WriterPhase, ReaderPhase
  <2>4. \E R \in Src : table' = table \cup R
    BY <2>1, <1>tx
  <2> QED BY <1>o, <2>1, <2>2, <2>3, <2>4, SafeStep
<1>3. CASE TxLost(c)
  <2>1. pc[c] = "tx" /\ UNCHANGED <<blk, table>>
    BY <1>3 DEF TxLost, TxSent
  <2>2. late' \subseteq late \cup Src
    BY <1>3, <2>1, <1>tx DEF TxLost
  <2>3. \A d \in Clients : Quiet(d) \/ ClientSafe(d)'
    <3>1. CASE UNCHANGED <<pc, todo, missing>>
      BY <2>1, <3>1 DEF Quiet
    <3>2. CASE Finish(c, "err")
      BY <2>1, <3>2, <1>w, FinishSafe DEF Settled
    <3> QED BY <1>3, <3>1, <3>2 DEF TxLost
  <2> QED BY <1>o, <2>1, <2>2, <2>3, SafeStep
<1>4. CASE TxRefused(c)
  <2>1. pc[c] = "tx" /\ UNCHANGED <<blk, late>> /\ Finish(c, "err")
    BY <1>4 DEF TxRefused, TxSent
  <2>2. table' = table \/ \E R \in Src : table' = table \cup R
    BY <1>4, <2>1, <1>tx DEF TxRefused, Inserted
  <2>3. \A d \in Clients : Quiet(d) \/ ClientSafe(d)'
    BY <2>1, <1>w, FinishSafe DEF Settled
  <2> QED BY <1>o, <2>1, <2>2, <2>3, SafeStep
<1>5. ASSUME NEW r \in todo[c], RowSettled(c, r) PROVE IndInv'
  <2>1. /\ pc[c] \in {"rows", "root"} /\ UNCHANGED <<blk, late>>
        /\ table' = table \cup {r}
    BY <1>5 DEF RowSettled
  <2>2. \E R \in Src : table' = table \cup R
    BY <2>1, <1>row
  <2>3. \A d \in Clients : Quiet(d) \/ ClientSafe(d)'
    <3>1. CASE todo[c] # {r}
      <4>1. /\ todo' = [todo EXCEPT ![c] = todo[c] \ {r}]
            /\ UNCHANGED <<pc, missing>>
        BY <1>5, <3>1 DEF RowSettled
      <4>2. pc[c] = "rows"
        BY <2>1, <3>1, <1>w DEF WriterPhase
      <4>3. todo'[c] = todo[c] \ {r} /\ \A d \in Clients \ {c} : Quiet(d)
        BY <4>1, <2>1, <1>w DEF TypeOK, Quiet
      <4>4. ClientSafe(c)'
        BY <2>1, <4>1, <4>2, <4>3, <1>w DEF ClientSafe, WriterPhase, ReaderPhase
      <4> QED BY <4>3, <4>4
    <3>2. CASE todo[c] = {r} /\ pc[c] = "rows"
      <4>1. /\ \A d \in Clients \ {c} : Quiet(d)
            /\ pc'[c] = "root" /\ todo'[c] = {Root(blk[c])} /\ missing'[c] = {}
        BY <1>5, <2>1, <3>2, <1>w, EnterQuiet DEF RowSettled
      <4>2. ClientSafe(c)'
        BY <2>1, <3>2, <4>1, <1>w DEF ClientSafe, WriterPhase, ReaderPhase
      <4> QED BY <4>1, <4>2
    <3>3. CASE todo[c] = {r} /\ pc[c] # "rows"
      BY <1>5, <2>1, <3>3, <1>w, FinishSafe DEF RowSettled, Settled
    <3> QED BY <3>1, <3>2, <3>3
  <2> QED BY <1>o, <2>1, <2>2, <2>3, SafeStep
<1>6. ASSUME NEW r \in todo[c], RowRetry(c, r) PROVE IndInv'
  <2>1. /\ pc[c] \in {"rows", "root"}
        /\ UNCHANGED <<blk, table, pc, todo, missing>>
        /\ late' = late \/ late' = late \cup {{r}}
    BY <1>6 DEF RowRetry
  <2>2. late' \subseteq late \cup Src /\ \A d \in Clients : Quiet(d)
    BY <2>1, <1>row DEF Quiet
  <2> QED BY <1>o, <2>1, <2>2, SafeStep
<1>7. ASSUME NEW r \in todo[c], RowExhausted(c, r) PROVE IndInv'
  <2>1. UNCHANGED <<blk, table>> /\ Finish(c, "err")
    BY <1>7 DEF RowExhausted
  <2>2. late' \subseteq late \cup Src
    BY <1>7 DEF RowExhausted, Drop
  <2>3. \A d \in Clients : Quiet(d) \/ ClientSafe(d)'
    BY <2>1, <1>w, FinishSafe DEF Settled
  <2> QED BY <1>o, <2>1, <2>2, <2>3, SafeStep
<1>8. ASSUME NEW r \in todo[c], RowRefused(c, r) PROVE IndInv'
  <2>1. /\ pc[c] \in {"rows", "root"} /\ UNCHANGED blk /\ Finish(c, "err")
        /\ table' = table \/ table' = table \cup {r}
    BY <1>8 DEF RowRefused
  <2>2. late' \subseteq late \cup Src
    BY <1>8 DEF RowRefused, Drop
  <2>3. table' = table \/ \E R \in Src : table' = table \cup R
    BY <2>1, <1>row
  <2>4. \A d \in Clients : Quiet(d) \/ ClientSafe(d)'
    BY <2>1, <1>w, FinishSafe DEF Settled
  <2> QED BY <1>o, <2>1, <2>2, <2>3, <2>4, SafeStep
<1> QED BY <1>1, <1>2, <1>3, <1>4, <1>5, <1>6, <1>7, <1>8 DEF PutStep

LEMMA GetSafe ==
    ASSUME IndInv, TypeOK', NEW c \in Clients, GetStep(c)
    PROVE  IndInv'
<1>w. TypeOK /\ blk[c] \in Blocks /\ WriterPhase(c) /\ ReaderPhase(c)
  BY DEF IndInv, TypeOK, ClientSafe
<1>k. UNCHANGED <<table, late, blk>>
  BY DEF GetStep, RootMissing, RootFound, ReadAnswered, ReadRetry, ReadFailed, putVars
<1>q. SUFFICES \A d \in Clients : Quiet(d) \/ ClientSafe(d)'
  BY <1>k, SafeStep DEF IndInv
<1>r. ASSUME NEW r \in todo[c], NEW bad, pc[c] = "getrows", RowRead(c, r, {}, bad)
      PROVE  \A d \in Clients : Quiet(d) \/ ClientSafe(d)'
  <2>1. CASE Finish(c, "err") \/ Finish(c, "some")
    BY <2>1, <1>k, <1>w, FinishSafe DEF Settled
  <2>2. CASE /\ todo' = [todo EXCEPT ![c] = todo[c] \ {r}]
             /\ missing' = [missing EXCEPT ![c] = {}]
             /\ UNCHANGED pc
    <3>1. /\ todo'[c] = todo[c] \ {r} /\ missing'[c] = {}
          /\ \A d \in Clients \ {c} : Quiet(d)
      BY <2>2, <1>k, <1>w DEF TypeOK, Quiet
    <3>2. ClientSafe(c)'
      BY <2>2, <3>1, <1>k, <1>w, <1>r DEF ClientSafe, WriterPhase, ReaderPhase
    <3> QED BY <3>1, <3>2
  <2> QED BY <1>r, <2>1, <2>2 DEF RowRead
<1>1. CASE RootMissing(c)
  BY <1>1, <1>k, <1>w, FinishSafe DEF RootMissing, Settled
<1>2. CASE RootFound(c)
  <2>1. CASE Finish(c, "some")
    BY <2>1, <1>k, <1>w, FinishSafe DEF Settled
  <2>2. CASE Enter(c, "getrows", Continuation(blk[c]))
    <3>1. /\ \A d \in Clients \ {c} : Quiet(d)
          /\ pc'[c] = "getrows" /\ todo'[c] = Continuation(blk[c])
          /\ missing'[c] = {}
      BY <2>2, <1>k, <1>w, EnterQuiet
    <3>2. ClientSafe(c)'
      BY <1>2, <3>1, <1>k DEF RootFound, ClientSafe, WriterPhase, ReaderPhase
    <3> QED BY <3>1, <3>2
  <2> QED BY <1>2, <2>1, <2>2 DEF RootFound
<1>3. ASSUME NEW r \in todo[c], ReadAnswered(c, r)
      PROVE  \A d \in Clients : Quiet(d) \/ ClientSafe(d)'
  <2>1. pc[c] = "getrows"
    BY <1>3 DEF ReadAnswered
  <2>2. r \in table
    BY <2>1, <1>w DEF IndInv, ReaderPhase
  <2> QED BY <1>3, <2>1, <2>2, <1>w, <1>r DEF ReadAnswered, ReaderPhase
<1>4. ASSUME NEW r \in todo[c], ReadRetry(c, r)
      PROVE  \A d \in Clients : Quiet(d) \/ ClientSafe(d)'
  BY <1>4, <1>k DEF ReadRetry, Quiet
<1>5. ASSUME NEW r \in todo[c], ReadFailed(c, r)
      PROVE  \A d \in Clients : Quiet(d) \/ ClientSafe(d)'
  <2>1. CASE Finish(c, "err")
    BY <2>1, <1>k, <1>w, FinishSafe DEF Settled
  <2>2. CASE pc[c] = "getrows" /\ RowRead(c, r, missing[c], failed[c] \cup {r})
    BY <2>2, <1>r, <1>w DEF ReaderPhase
  <2> QED BY <1>5, <2>1, <2>2 DEF ReadFailed
<1> QED BY <1>1, <1>2, <1>3, <1>4, <1>5 DEF GetStep

LEMMA SafetyStep == IndInv /\ [Next]_vars => IndInv'
<1> SUFFICES ASSUME IndInv, [Next]_vars PROVE IndInv'
  OBVIOUS
<1>t. TypeOK /\ TypeOK'
  BY TypeStep DEF IndInv
<1>c. Writers \subseteq Clients /\ Readers \subseteq Clients /\ Listers \subseteq Clients
  BY DEF Clients
<1>l. \A R \in late : SafeRows(R)
  BY DEF IndInv
<1>1. ASSUME NEW c \in Clients, NEW b \in Blocks, StartPut(c, b) PROVE IndInv'
  <2>1. /\ UNCHANGED <<table, late>>
        /\ blk' = [blk EXCEPT ![c] = b]
    BY <1>1 DEF StartPut
  <2>2. blk'[c] = b /\ \A d \in Clients \ {c} : blk'[d] = blk[d]
    BY <2>1, <1>t DEF TypeOK
  <2>3. \A d \in Clients \ {c} : Quiet(d)
    BY <1>1, <2>2, <1>t, EnterQuiet DEF StartPut
  <2>4. missing'[c] = {}
    BY <1>1, <2>2, <1>t, EnterQuiet DEF StartPut
  <2>5. \/ /\ Continuation(b) = {} /\ pc'[c] = "root" /\ todo'[c] = {Root(b)}
        \/ pc'[c] = "tx" /\ todo'[c] = Continuation(b)
    BY <1>1, <2>2, <1>t, EnterQuiet DEF StartPut
  <2>6. ClientSafe(c)'
    BY <2>2, <2>4, <2>5 DEF ClientSafe, WriterPhase, ReaderPhase
  <2> QED BY <1>l, <1>t, <2>1, <2>3, <2>6, SafeStep
<1>2. ASSUME NEW c \in Clients, NEW b \in Blocks, StartGet(c, b) PROVE IndInv'
  <2>1. /\ UNCHANGED <<table, late>>
        /\ blk' = [blk EXCEPT ![c] = b]
    BY <1>2 DEF StartGet, putVars
  <2>2. blk'[c] = b /\ \A d \in Clients \ {c} : blk'[d] = blk[d]
    BY <2>1, <1>t DEF TypeOK
  <2>3. /\ \A d \in Clients \ {c} : Quiet(d)
        /\ missing'[c] = {} /\ pc'[c] = "getroot" /\ todo'[c] = {Root(b)}
    BY <1>2, <2>2, <1>t, EnterQuiet DEF StartGet
  <2>4. ClientSafe(c)'
    BY <2>2, <2>3 DEF ClientSafe, WriterPhase, ReaderPhase
  <2> QED BY <1>l, <1>t, <2>1, <2>3, <2>4, SafeStep
<1>3. ASSUME NEW c \in Clients, StartList(c) PROVE IndInv'
  <2>1. UNCHANGED <<table, late, blk>>
    BY <1>3 DEF StartList, putVars
  <2>2. /\ \A d \in Clients \ {c} : Quiet(d)
        /\ missing'[c] = {} /\ pc'[c] = "list"
    BY <1>3, <2>1, <1>t, EnterQuiet DEF StartList
  <2>3. ClientSafe(c)'
    BY <2>2 DEF ClientSafe, WriterPhase, ReaderPhase
  <2> QED BY <1>l, <1>t, <2>1, <2>2, <2>3, SafeStep
<1>4. ASSUME NEW c \in Clients, ListStep(c) PROVE IndInv'
  <2>1. UNCHANGED <<table, late, blk>>
    BY <1>4 DEF ListStep, PageFetched, Yield, ListEnds, PageRetry, PageFailed, putVars
  <2>2. CASE PageFetched(c) \/ Yield(c) \/ PageRetry(c)
    <3>1. \A d \in Clients : Quiet(d)
      BY <2>1, <2>2 DEF PageFetched, Yield, PageRetry, Quiet, opVars
    <3> QED BY <1>l, <1>t, <2>1, <3>1, SafeStep
  <2>3. CASE ListEnds(c) \/ PageFailed(c)
    <3>1. \A d \in Clients : Quiet(d) \/ ClientSafe(d)'
      BY <2>1, <2>3, <1>t, FinishSafe DEF ListEnds, PageFailed, Settled
    <3> QED BY <1>l, <1>t, <2>1, <3>1, SafeStep
  <2> QED BY <1>4, <2>2, <2>3 DEF ListStep
<1>5. ASSUME NEW c \in Clients, Abandon(c) PROVE IndInv'
  <2>1. UNCHANGED <<table, blk>> /\ Finish(c, "idle")
    BY <1>5 DEF Abandon
  <2>2. late' \subseteq late \cup Outstanding(c)
    BY <1>5 DEF Abandon, Drop
  <2>3. \A d \in Clients : Quiet(d) \/ ClientSafe(d)'
    BY <2>1, <1>t, FinishSafe DEF Settled
  <2> QED BY <1>t, <2>1, <2>2, <2>3, OutstandingSafe, SafeStep
<1>6. CASE LateInsert
  <2>1. /\ late' \subseteq late
        /\ table' = table \/ \E R \in late : table' = table \cup R
    BY <1>6 DEF LateInsert, Inserted
  <2>2. \A d \in Clients : Quiet(d)
    BY <1>6 DEF LateInsert, Quiet, opVars
  <2> QED BY <1>l, <1>t, <2>1, <2>2, SafeStep
<1>7. CASE UNCHANGED vars
  <2>1. UNCHANGED <<table, late>> /\ \A d \in Clients : Quiet(d)
    BY <1>7 DEF vars, Quiet
  <2> QED BY <1>l, <1>t, <2>1, SafeStep
<1> QED BY <1>c, <1>t, <1>1, <1>2, <1>3, <1>4, <1>5, <1>6, <1>7, PutSafe, GetSafe
        DEF Next

LEMMA Invariance == Spec => []IndInv
<1>1. Init => IndInv
  BY NoTriesType DEF Init, IndInv, TypeOK, Settled, Keys, ClientSafe, WriterPhase,
                     ReaderPhase, SafeRows
<1> QED BY <1>1, SafetyStep, PTL DEF Spec

\* put_block_bytes commits with the root row: in every reachable state a root
\* row has its continuation rows, for any number of publishers, any layout and
\* any loss, delay or abandonment of requests.
THEOREM RootCommits == Spec => []CommitPoint
<1>1. IndInv => CommitPoint
  BY DEF IndInv, CommitPoint, RowsOf
<1> QED BY <1>1, Invariance, PTL

\* get_block_bytes never reports a missing continuation row.
THEOREM ReadsAreWhole == Spec => []NoTornRead
<1>1. IndInv => NoTornRead
  BY DEF IndInv, NoTornRead, ClientSafe
<1> QED BY <1>1, Invariance, PTL

-----------------------------------------------------------------------------
(* Enumerations.                                                            *)

\* Only the steps of an enumeration touch its stream.
LEMMA StreamFrame ==
    ASSUME [Next]_vars
    PROVE  \/ UNCHANGED <<cursor, finished, pending, yielded>>
           \/ \E c \in Clients : StartList(c) \/ PageFetched(c) \/ Yield(c)
<1>1. ASSUME NEW c \in Clients, \/ \E b \in Blocks : StartPut(c, b)
                                \/ PutStep(c)
      PROVE  UNCHANGED <<cursor, finished, pending, yielded>>
  BY <1>1 DEF StartPut, PutStep, TxTooLarge, TxCommitted, TxAlreadyExists, TxLost,
              TxRefused, RowSettled, RowRetry, RowExhausted, RowRefused, readVars
<1>2. ASSUME NEW c \in Clients, \/ \E b \in Blocks : StartGet(c, b)
                                \/ GetStep(c) \/ Abandon(c)
      PROVE  UNCHANGED <<cursor, finished, pending, yielded>>
  BY <1>2 DEF StartGet, GetStep, RootMissing, RootFound, ReadAnswered, ReadRetry,
              ReadFailed, Abandon, readVars
<1>3. ASSUME NEW c \in Clients, ListStep(c)
      PROVE  \/ UNCHANGED <<cursor, finished, pending, yielded>>
             \/ PageFetched(c) \/ Yield(c)
  BY <1>3 DEF ListStep, ListEnds, PageRetry, PageFailed, readVars
<1>4. CASE LateInsert \/ UNCHANGED vars
  BY <1>4 DEF LateInsert, readVars, vars
<1> QED BY <1>1, <1>2, <1>3, <1>4 DEF Next, Clients

\* A row that is not before a key lies, by its block, after every root row that
\* is before the key.
LEMMA AfterCursor ==
    ASSUME NEW b \in Blocks, NEW r \in Rows, NEW k \in Keys,
           Before(Root(b), k), r[2] = 0, ~Before(r, k)
    PROVE  b < r[1]
<1>1. k[1] \in Nat /\ k[2] \in Nat
  BY BlocksAssumption, RowCountAssumption
     DEF Keys, Start, Rows, RowsOf, Root, Continuation
<1>2. r[1] \in Nat /\ b \in Nat
  BY BlocksAssumption, RowBlock
<1> QED BY <1>1, <1>2 DEF Before, Root

\* Root rows in key order are blocks in numeric order, and Before is transitive.
LEMMA KeyOrder ==
    ASSUME NEW r \in Rows, NEW s \in Rows, NEW k \in Keys, Before(r, s)
    PROVE  /\ r[2] = 0 /\ s[2] = 0 => r[1] < s[1]
           /\ Before(s, k) => Before(r, k)
<1>1. ASSUME NEW x \in Keys PROVE x[1] \in Nat /\ x[2] \in Nat
  BY BlocksAssumption, RowCountAssumption
     DEF Keys, Start, Rows, RowsOf, Root, Continuation
<1>2. /\ r[1] \in Nat /\ r[2] \in Nat /\ s[1] \in Nat /\ s[2] \in Nat
      /\ k[1] \in Nat /\ k[2] \in Nat
  BY <1>1 DEF Keys
<1> QED BY <1>2 DEF Before

\* A root row is known by its first key component.
LEMMA RootRow == ASSUME NEW r \in Rows, r[2] = 0 PROVE r = Root(r[1])
  BY RowCountAssumption, BlocksAssumption DEF Rows, RowsOf, Root, Continuation

LEMMA YieldedGrows ==
    ASSUME NEW c \in Clients, NEW b \in Blocks, yielded[c] \in Seq(Blocks),
           yielded'[c] = Append(yielded[c], b)
    PROVE  Yielded(c)' = Yielded(c) \cup {b}
<1> DEFINE y == yielded[c]
<1>1. /\ Len(Append(y, b)) = Len(y) + 1 /\ Len(y) \in Nat
      /\ \A i \in 1 .. Len(y) : Append(y, b)[i] = y[i]
      /\ Append(y, b)[Len(y) + 1] = b
  OBVIOUS
<1>2. yielded'[c] = Append(y, b)
  OBVIOUS
<1>3. Yielded(c) = {y[i] : i \in 1 .. Len(y)}
  BY DEF Yielded
<1> HIDE DEF y
<1>4. \A i : i \in 1 .. Len(y) + 1 <=> i \in 1 .. Len(y) \/ i = Len(y) + 1
  BY <1>1
<1>5. Yielded(c)' = {Append(y, b)[i] : i \in 1 .. Len(y) + 1}
  BY <1>1, <1>2 DEF Yielded
<1> QED BY <1>1, <1>3, <1>4, <1>5

LEMMA OrderStep == ListInv /\ [Next]_vars => ListInv'
<1> SUFFICES ASSUME ListInv, [Next]_vars PROVE ListInv'
  OBVIOUS
<1>t. TypeOK /\ TypeOK' /\ \A d \in Clients : Ordered(d)
  BY TypeStep DEF ListInv
<1> DEFINE Same(d) == /\ cursor'[d] = cursor[d] /\ finished'[d] = finished[d]
                      /\ pending'[d] = pending[d] /\ yielded'[d] = yielded[d]
<1>q. ASSUME NEW d \in Clients, Same(d) PROVE Ordered(d)'
  BY <1>q, <1>t DEF Ordered, Yielded
<1>s. SUFFICES ASSUME NEW c \in Clients,
                      \A d \in Clients \ {c} : Same(d),
                      StartList(c) \/ PageFetched(c) \/ Yield(c)
               PROVE  Ordered(c)'
  <2>1. CASE UNCHANGED <<cursor, finished, pending, yielded>>
    BY <2>1, <1>q, <1>t DEF ListInv
  <2>2. ASSUME NEW c \in Clients, StartList(c) \/ PageFetched(c) \/ Yield(c)
        PROVE  \A d \in Clients \ {c} : Same(d)
    BY <2>2, <1>t DEF StartList, PageFetched, Yield, TypeOK
  <2> QED BY <2>1, <2>2, <1>s, <1>q, <1>t, StreamFrame DEF ListInv
<1>c. /\ cursor[c] \in Keys /\ pending[c] \subseteq Rows /\ table \subseteq Rows
      /\ yielded[c] \in Seq(Blocks) /\ Yielded(c) \subseteq Blocks
  BY <1>t DEF TypeOK, Yielded
<1>1. CASE StartList(c)
  <2>1. cursor'[c] = Start /\ finished'[c] = FALSE /\ pending'[c] = {} /\ yielded'[c] = << >>
    BY <1>1, <1>t DEF StartList, TypeOK
  <2> QED BY <2>1 DEF Ordered, Yielded
<1>2. CASE PageFetched(c)
  <2>1. /\ pc[c] = "list" /\ pending[c] = {} /\ ~finished[c]
        /\ yielded'[c] = yielded[c]
    BY <1>2 DEF PageFetched
  <2>2. ASSUME NEW rows \in SUBSET table, NEW r \in PageRoots(c, rows)
        PROVE  r[2] = 0 /\ \A b \in Yielded(c) : b < r[1]
    BY <2>1, <2>2, <1>c, <1>t, AfterCursor DEF PageRoots, Ordered
  <2>3. CASE \E stop \in Rows :
                /\ Before(cursor[c], stop)
                /\ cursor' = [cursor EXCEPT ![c] = stop]
                /\ pending' = [pending EXCEPT ![c] =
                                  PageRoots(c, {r \in table : Before(r, stop)})]
                /\ UNCHANGED finished
    <3>1. PICK stop \in Rows :
                /\ Before(cursor[c], stop)
                /\ cursor' = [cursor EXCEPT ![c] = stop]
                /\ pending' = [pending EXCEPT ![c] =
                                  PageRoots(c, {r \in table : Before(r, stop)})]
                /\ UNCHANGED finished
      BY <2>3
    <3>2. /\ cursor'[c] = stop
          /\ pending'[c] = PageRoots(c, {r \in table : Before(r, stop)})
      BY <3>1, <1>t DEF TypeOK
    <3>3. \A b \in Yielded(c) : Before(Root(b), stop)
      <4>1. ASSUME NEW b \in Yielded(c) PROVE Before(Root(b), stop)
        <5>1. b \in Blocks /\ Before(Root(b), cursor[c])
          BY <1>c, <1>t, <2>1 DEF Ordered
        <5>2. ASSUME NEW x \in Keys PROVE x[1] \in Nat /\ x[2] \in Nat
          BY BlocksAssumption, RowCountAssumption
             DEF Keys, Start, Rows, RowsOf, Root, Continuation
        <5>3. stop \in Keys /\ Root(b) \in Keys
          BY <5>1, RowKeys DEF Keys
        <5>4. /\ cursor[c][1] \in Nat /\ cursor[c][2] \in Nat
              /\ stop[1] \in Nat /\ stop[2] \in Nat
              /\ Root(b)[1] \in Nat /\ Root(b)[2] \in Nat
          BY <5>2, <5>3, <1>c
        <5> QED BY <5>1, <5>4, <3>1 DEF Before
      <4> QED BY <4>1
    <3>4. Yielded(c)' = Yielded(c)
      BY <2>1 DEF Yielded
    <3>5. \A r \in pending'[c] : /\ r[2] = 0 /\ Before(r, stop)
                                 /\ \A b \in Yielded(c) : b < r[1]
      BY <3>2, <2>2 DEF PageRoots
    <3> QED BY <2>1, <3>2, <3>3, <3>4, <3>5, <1>t DEF Ordered
  <2>4. CASE /\ finished' = [finished EXCEPT ![c] = TRUE]
             /\ pending' = [pending EXCEPT ![c] = PageRoots(c, table)]
    <3>1. finished'[c] = TRUE /\ pending'[c] = PageRoots(c, table)
      BY <2>4, <1>t DEF TypeOK
    <3>2. Yielded(c)' = Yielded(c)
      BY <2>1 DEF Yielded
    <3>3. \A r \in pending'[c] : r[2] = 0 /\ \A b \in Yielded(c) : b < r[1]
      BY <3>1, <2>2
    <3> QED BY <2>1, <3>1, <3>2, <3>3, <1>t DEF Ordered
  <2> QED BY <1>2, <2>3, <2>4 DEF PageFetched
<1>3. CASE Yield(c)
  <2>1. PICK r \in pending[c] :
               /\ \A s \in pending[c] : s = r \/ Before(r, s)
               /\ pending' = [pending EXCEPT ![c] = pending[c] \ {r}]
               /\ yielded' = [yielded EXCEPT ![c] = Append(yielded[c], r[1])]
    BY <1>3 DEF Yield
  <2>2. /\ pending'[c] = pending[c] \ {r} /\ yielded'[c] = Append(yielded[c], r[1])
        /\ cursor'[c] = cursor[c] /\ finished'[c] = finished[c]
    BY <1>3, <2>1, <1>t DEF TypeOK, Yield
  <2>3. r \in Rows /\ r[1] \in Blocks /\ r[2] = 0 /\ r = Root(r[1])
    BY <1>c, <1>t, RowBlock, RootRow DEF Ordered
  <2>4. Yielded(c)' = Yielded(c) \cup {r[1]}
    BY <1>c, <2>2, <2>3, YieldedGrows
  <2>5. \A b \in Yielded(c) : b < r[1]
    BY <1>t DEF Ordered
  <2>6. \A i, j \in 1 .. Len(yielded'[c]) : i < j => yielded'[c][i] < yielded'[c][j]
    <3>1. \A i, j \in 1 .. Len(yielded[c]) : i < j => yielded[c][i] < yielded[c][j]
      BY <1>t DEF Ordered
    <3>2. \A i \in 1 .. Len(yielded[c]) : yielded[c][i] < r[1]
      BY <2>5 DEF Yielded
    <3> QED BY <3>1, <3>2, <2>2, <1>c, <2>3
  <2>7. \A s \in pending'[c] : r[1] < s[1] /\ s[2] = 0 /\ (finished[c] \/ Before(s, cursor[c]))
    BY <2>1, <2>2, <2>3, <1>c, <1>t, KeyOrder DEF Ordered
  <2>8. finished[c] \/ Before(Root(r[1]), cursor[c])
    BY <2>3, <1>t DEF Ordered
  <2> QED BY <2>2, <2>4, <2>5, <2>6, <2>7, <2>8, <1>t DEF Ordered
<1> QED BY <1>s, <1>1, <1>2, <1>3

LEMMA ListInvariance == Spec => []ListInv
<1>1. Init => ListInv
  <2>1. Init => TypeOK
    BY NoTriesType DEF Init, TypeOK, Settled, Keys
  <2>2. Init => \A c \in Clients : Ordered(c)
    BY DEF Init, Ordered, Yielded
  <2> QED BY <2>1, <2>2 DEF ListInv
<1> QED BY <1>1, OrderStep, PTL DEF Spec

\* iter_block_ids yields ids in strictly increasing key order, whatever rows are
\* inserted between its pages and wherever the service ends a page.
THEOREM PagesOrdered == Spec => []EnumerationOrdered
<1>1. ListInv => EnumerationOrdered
  BY DEF ListInv, Ordered, EnumerationOrdered
<1> QED BY <1>1, ListInvariance, PTL

-----------------------------------------------------------------------------
(* The BlockStore contract.                                                 *)

\* What a put may have on the wire: rows of its own block, the root row alone.
LEMMA OutstandingOwn ==
    ASSUME IndInv, NEW c \in Clients, NEW R \in Outstanding(c)
    PROVE  /\ pc[c] \in Putting /\ blk[c] \in Blocks
           /\ R \subseteq Continuation(blk[c]) \/ R = {Root(blk[c])}
<1>1. blk[c] \in Blocks /\ WriterPhase(c)
  BY DEF IndInv, TypeOK, ClientSafe
<1>2. CASE pc[c] = "tx"
  BY <1>1, <1>2 DEF Outstanding, WriterPhase, Putting
<1>3. CASE pc[c] = "rows"
  BY <1>1, <1>3 DEF Outstanding, WriterPhase, Putting
<1>4. CASE pc[c] = "root"
  BY <1>1, <1>4 DEF Outstanding, WriterPhase, Putting
<1>5. CASE pc[c] \notin {"tx", "rows", "root"}
  BY <1>5 DEF Outstanding
<1> QED BY <1>2, <1>3, <1>4, <1>5

\* A client that enters a phase leaves the phase of the others alone.
LEMMA EnterPhase ==
    ASSUME TypeOK, NEW c \in Clients, NEW phase, NEW rows, Enter(c, phase, rows)
    PROVE  pc'[c] = phase /\ \A d \in Clients \ {c} : pc'[d] = pc[d]
  BY DEF TypeOK, Enter

\* Every step of a put goes on without storing its block, acknowledges a stored
\* block, or fails and may have stored it.
LEMMA PutMoves ==
    ASSUME IndInv, NEW c \in Clients, PutStep(c)
    PROVE  /\ UNCHANGED <<attempted, blk, seen, cursor, finished, pending, yielded>>
           /\ \A d \in Clients \ {c} : pc'[d] = pc[d]
           /\ pc[c] \in Putting
           /\ late' \subseteq late \cup Outstanding(c)
           /\ \/ /\ pc'[c] \in Putting
                 /\ table' = table \/ \E R \in SUBSET Continuation(blk[c]) : table' = table \cup R
              \/ pc'[c] = "ok" /\ table' = table \cup {Root(blk[c])}
              \/ /\ pc'[c] = "err"
                 /\ table' = table \/ \E R \in Outstanding(c) : table' = table \cup R
<1>w. TypeOK /\ blk[c] \in Blocks /\ WriterPhase(c)
  BY DEF IndInv, TypeOK, ClientSafe
<1>tx. pc[c] = "tx" => Outstanding(c) = {todo[c]} /\ todo[c] = Continuation(blk[c])
  BY <1>w DEF Outstanding, WriterPhase
<1>row. pc[c] \in {"rows", "root"} => Outstanding(c) = {{r} : r \in todo[c]}
  BY DEF Outstanding
<1>1. CASE TxTooLarge(c) \/ TxAlreadyExists(c)
  <2>1. /\ Enter(c, "rows", todo[c]) /\ pc[c] = "tx"
        /\ UNCHANGED <<table, late, attempted, blk, seen, cursor, finished, pending, yielded>>
    BY <1>1 DEF TxTooLarge, TxAlreadyExists, TxSent, putVars, readVars
  <2> QED BY <2>1, <1>w, EnterPhase DEF Putting
<1>2. CASE TxCommitted(c)
  <2>1. /\ Enter(c, "root", {Root(blk[c])}) /\ pc[c] = "tx" /\ table' = table \cup todo[c]
        /\ UNCHANGED <<late, attempted, blk, seen, cursor, finished, pending, yielded>>
    BY <1>2 DEF TxCommitted, TxSent, readVars
  <2> QED BY <2>1, <1>w, <1>tx, EnterPhase DEF Putting
<1>3. CASE TxLost(c)
  <2>1. /\ pc[c] = "tx"
        /\ UNCHANGED <<table, attempted, blk, seen, cursor, finished, pending, yielded>>
        /\ late' \subseteq late \cup Outstanding(c)
    BY <1>3, <1>tx DEF TxLost, TxSent, readVars
  <2>2. UNCHANGED pc \/ Finish(c, "err")
    BY <1>3 DEF TxLost
  <2> QED BY <2>1, <2>2, <1>w, EnterPhase DEF Putting, Finish
<1>4. CASE TxRefused(c)
  <2>1. /\ pc[c] = "tx" /\ Finish(c, "err")
        /\ UNCHANGED <<late, attempted, blk, seen, cursor, finished, pending, yielded>>
    BY <1>4 DEF TxRefused, TxSent, readVars
  <2>2. table' = table \/ \E R \in Outstanding(c) : table' = table \cup R
    BY <1>4, <2>1, <1>tx DEF TxRefused, Inserted
  <2> QED BY <2>1, <2>2, <1>w, EnterPhase DEF Putting, Finish
<1>5. ASSUME NEW r \in todo[c], RowSettled(c, r)
      PROVE  /\ UNCHANGED <<late, attempted, blk, seen, cursor, finished, pending, yielded>>
             /\ \A d \in Clients \ {c} : pc'[d] = pc[d]
             /\ pc[c] \in Putting
             /\ \/ /\ pc'[c] \in Putting
                   /\ \E R \in SUBSET Continuation(blk[c]) : table' = table \cup R
                \/ pc'[c] = "ok" /\ table' = table \cup {Root(blk[c])}
  <2>1. /\ pc[c] \in {"rows", "root"} /\ table' = table \cup {r}
        /\ UNCHANGED <<late, attempted, blk, seen, cursor, finished, pending, yielded>>
    BY <1>5 DEF RowSettled, readVars
  <2>2. CASE pc[c] = "root"
    <3>1. todo[c] = {Root(blk[c])} /\ r = Root(blk[c])
      BY <2>2, <1>w DEF WriterPhase
    <3>2. Finish(c, "ok")
      BY <1>5, <2>2, <3>1 DEF RowSettled
    <3> QED BY <2>1, <3>1, <3>2, <1>w, EnterPhase DEF Finish, Putting
  <2>3. CASE pc[c] = "rows"
    <3>1. {r} \in SUBSET Continuation(blk[c])
      BY <2>3, <1>w DEF WriterPhase
    <3>2. UNCHANGED pc \/ Enter(c, "root", {Root(blk[c])})
      BY <1>5, <2>3 DEF RowSettled
    <3>3. pc'[c] \in Putting /\ \A d \in Clients \ {c} : pc'[d] = pc[d]
      BY <2>3, <3>2, <1>w, EnterPhase DEF Putting
    <3> QED BY <2>1, <3>1, <3>3 DEF Putting
  <2> QED BY <2>1, <2>2, <2>3
<1>6. ASSUME NEW r \in todo[c], RowRetry(c, r) \/ RowExhausted(c, r) \/ RowRefused(c, r)
      PROVE  /\ UNCHANGED <<attempted, blk, seen, cursor, finished, pending, yielded>>
             /\ \A d \in Clients \ {c} : pc'[d] = pc[d]
             /\ pc[c] \in Putting
             /\ late' \subseteq late \cup Outstanding(c)
             /\ \/ pc'[c] \in Putting /\ table' = table
                \/ /\ pc'[c] = "err"
                   /\ table' = table \/ \E R \in Outstanding(c) : table' = table \cup R
  <2>1. /\ pc[c] \in {"rows", "root"} /\ pc[c] \in Putting
        /\ UNCHANGED <<attempted, blk, seen, cursor, finished, pending, yielded>>
    BY <1>6 DEF RowRetry, RowExhausted, RowRefused, readVars, Putting
  <2>2. {r} \in Outstanding(c)
    BY <2>1, <1>row
  <2>3. late' \subseteq late \cup Outstanding(c)
    BY <1>6, <2>2 DEF RowRetry, RowExhausted, RowRefused, Drop
  <2>4. \/ UNCHANGED pc /\ table' = table
        \/ Finish(c, "err") /\ table' = table
        \/ Finish(c, "err") /\ table' = table \cup {r}
    BY <1>6 DEF RowRetry, RowExhausted, RowRefused
  <2> QED BY <2>1, <2>2, <2>3, <2>4, <1>w, EnterPhase DEF Finish
<1> QED BY <1>1, <1>2, <1>3, <1>4, <1>5, <1>6 DEF PutStep

\* Every step of a get goes on, returns the block with its root row in the
\* table, returns None without one, or fails.
LEMMA GetMoves ==
    ASSUME IndInv, IndInv', NEW c \in Clients, GetStep(c)
    PROVE  /\ UNCHANGED <<table, late, attempted, blk, seen, cursor, finished, pending, yielded>>
           /\ \A d \in Clients \ {c} : pc'[d] = pc[d]
           /\ pc[c] \in Getting
           /\ \/ pc'[c] \in Getting \/ pc'[c] = "err"
              \/ pc'[c] = "some" /\ Root(blk[c]) \in table
              \/ pc'[c] = "none" /\ Root(blk[c]) \notin table
<1>w. TypeOK /\ ReaderPhase(c) /\ pc'[c] # "torn"
  BY DEF IndInv, ClientSafe
<1>1. UNCHANGED <<table, late, attempted, blk, seen, cursor, finished, pending, yielded>>
  BY DEF GetStep, RootMissing, RootFound, ReadAnswered, ReadRetry, ReadFailed, putVars, readVars
<1>2. pc[c] \in Getting
  BY DEF GetStep, RootMissing, RootFound, ReadAnswered, ReadRetry, ReadFailed, Getting
<1>3. ASSUME NEW r, NEW mis, NEW bad, RowRead(c, r, mis, bad), pc[c] = "getrows"
      PROVE  /\ UNCHANGED pc \/ Finish(c, "err") \/ Finish(c, "torn") \/ Finish(c, "some")
             /\ Root(blk[c]) \in table
  BY <1>3, <1>w DEF RowRead, ReaderPhase
<1>4. \/ UNCHANGED pc \/ Finish(c, "err") \/ Finish(c, "torn")
      \/ Finish(c, "some") /\ Root(blk[c]) \in table
      \/ Finish(c, "none") /\ Root(blk[c]) \notin table
      \/ Enter(c, "getrows", Continuation(blk[c]))
  BY <1>3 DEF GetStep, RootMissing, RootFound, ReadAnswered, ReadRetry, ReadFailed
<1>5. ASSUME NEW phase, NEW rows, Enter(c, phase, rows)
      PROVE  pc'[c] = phase /\ \A d \in Clients \ {c} : pc'[d] = pc[d]
  BY <1>5, <1>w, EnterPhase
<1> QED BY <1>1, <1>2, <1>4, <1>5, <1>w DEF Finish, Getting

LEMMA StoredGrows ==
    ASSUME NEW R, table' = table \cup R
    PROVE  Stored' = Stored \cup {b \in Blocks : Root(b) \in R}
  BY DEF Stored

LEMMA StoredByContinuation ==
    ASSUME NEW b \in Blocks, NEW R \in SUBSET Continuation(b), table' = table \cup R
    PROVE  Stored' = Stored
  BY RowKeys DEF Stored

LEMMA StoredByRoot ==
    ASSUME NEW b \in Blocks, table' = table \cup {Root(b)}
    PROVE  Stored' = Stored \cup {b}
  BY RowKeys DEF Stored

\* What a request that nobody waits for may do: nothing, or store one block
\* that some put was started for.
LEMMA LateMoves ==
    ASSUME IndInv, Attempted, LateInsert
    PROVE  Stored' = Stored \/ \E b \in attempted : Stored' = Stored \cup {b}
<1>1. PICK R \in late : table' = table \/ table' = table \cup R
  BY DEF LateInsert, Inserted
<1>2. CASE \A b \in Blocks : Root(b) \notin R
  BY <1>1, <1>2 DEF Stored
<1>3. ASSUME NEW b \in Blocks, Root(b) \in R
      PROVE  Stored' = Stored \/ \E d \in attempted : Stored' = Stored \cup {d}
  <2>1. b \in attempted /\ R = {Root(b)}
    BY <1>3 DEF Attempted
  <2> QED BY <1>1, <2>1, StoredByRoot DEF Stored
<1> QED BY <1>2, <1>3

\* A client whose stream takes no step keeps its account of the enumeration.
LEMMA QuietCovered ==
    ASSUME NEW d \in Clients, seen[d] \subseteq Stored, Covered(d), Stored \subseteq Stored',
           table \subseteq table',
           /\ cursor'[d] = cursor[d] /\ finished'[d] = finished[d]
           /\ pending'[d] = pending[d] /\ yielded'[d] = yielded[d],
           seen'[d] = seen[d],
           pc'[d] = pc[d] \/ pc'[d] \notin {"list", "listed"}
    PROVE  seen'[d] \subseteq Stored' /\ Covered(d)'
  BY DEF Covered, Yielded

LEMMA RefStep == RefInv /\ [Next]_vars => RefInv'
<1> SUFFICES ASSUME RefInv, [Next]_vars PROVE RefInv'
  OBVIOUS
<1>i. IndInv /\ IndInv' /\ ListInv /\ ListInv' /\ TypeOK /\ TypeOK' /\ Attempted
  BY SafetyStep, OrderStep DEF RefInv, IndInv
<1>p. \A d \in Clients : seen[d] \subseteq Stored /\ Covered(d)
  BY DEF RefInv
<1> DEFINE Keeps(d) == seen'[d] \subseteq Stored' /\ Covered(d)'
           OwnRows(R) == \A b \in Blocks : Root(b) \in R => b \in attempted' /\ R = {Root(b)}
           OwnBlock(d) == pc'[d] \in Putting => blk'[d] \in attempted'
<1>s. SUFFICES /\ Stored' \subseteq attempted'
               /\ \A R \in late' : OwnRows(R)
               /\ \A d \in Clients : OwnBlock(d) /\ Keeps(d)
  BY <1>i, <1>s DEF RefInv, Attempted
<1>o. ASSUME NEW c \in Clients, NEW R \in Outstanding(c), attempted' = attempted
      PROVE  OwnRows(R)
  BY <1>o, <1>i, OutstandingOwn, RowKeys DEF Attempted
<1>l. attempted' = attempted => \A R \in late : OwnRows(R)
  BY <1>i DEF Attempted
<1>c. Writers \subseteq Clients /\ Readers \subseteq Clients /\ Listers \subseteq Clients
  BY DEF Clients
<1>1. ASSUME NEW c \in Clients, NEW b \in Blocks, StartPut(c, b)
      PROVE  /\ Stored' \subseteq attempted'
             /\ \A R \in late' : OwnRows(R)
             /\ \A d \in Clients : OwnBlock(d) /\ Keeps(d)
  <2>1. /\ UNCHANGED <<table, late, cursor, finished, pending, yielded>>
        /\ attempted' = attempted \cup {b}
        /\ blk' = [blk EXCEPT ![c] = b] /\ seen' = [seen EXCEPT ![c] = {}]
        /\ \E phase \in Putting : \E rows : Enter(c, phase, rows)
    BY <1>1 DEF StartPut, Putting
  <2>2. /\ blk'[c] = b /\ seen'[c] = {} /\ pc'[c] \in Putting
        /\ \A d \in Clients \ {c} : blk'[d] = blk[d] /\ seen'[d] = seen[d] /\ pc'[d] = pc[d]
    <3>1. pc'[c] \in Putting /\ \A d \in Clients \ {c} : pc'[d] = pc[d]
      BY <2>1, <1>i, EnterPhase
    <3> QED BY <2>1, <3>1, <1>i DEF TypeOK
  <2>3. Stored' = Stored
    BY <2>1 DEF Stored
  <2>4. Keeps(c)
    BY <2>2 DEF Covered, Putting
  <2>5. \A d \in Clients \ {c} : Keeps(d)
    BY <2>1, <2>2, <2>3, <1>p, QuietCovered
  <2>6. \A d \in Clients : OwnBlock(d)
    BY <2>1, <2>2, <1>i DEF Attempted
  <2> QED BY <2>1, <2>3, <2>4, <2>5, <2>6, <1>i DEF Attempted
<1>2. ASSUME NEW c \in Clients, PutStep(c)
      PROVE  /\ Stored' \subseteq attempted'
             /\ \A R \in late' : OwnRows(R)
             /\ \A d \in Clients : OwnBlock(d) /\ Keeps(d)
  <2>1. /\ UNCHANGED <<attempted, blk, seen, cursor, finished, pending, yielded>>
        /\ \A d \in Clients \ {c} : pc'[d] = pc[d]
        /\ pc[c] \in Putting /\ pc'[c] \in Putting \cup {"ok", "err"}
        /\ late' \subseteq late \cup Outstanding(c)
    BY <1>2, <1>i, PutMoves
  <2>2. /\ table \subseteq table' /\ blk[c] \in Blocks /\ blk[c] \in attempted
        /\ Stored' = Stored \/ Stored' = Stored \cup {blk[c]}
    <3>1. blk[c] \in Blocks /\ blk[c] \in attempted
      BY <2>1, <1>i DEF TypeOK, Attempted
    <3>2. ASSUME NEW R, R \subseteq Continuation(blk[c]) \/ R = {Root(blk[c])},
                 table' = table \cup R
          PROVE  Stored' = Stored \/ Stored' = Stored \cup {blk[c]}
      BY <3>1, <3>2, StoredByContinuation, StoredByRoot
    <3>3. table' = table => Stored' = Stored
      BY DEF Stored
    <3>4. \/ table' = table
          \/ \E R : /\ table' = table \cup R
                    /\ R \subseteq Continuation(blk[c]) \/ R = {Root(blk[c])}
      BY <1>2, <1>i, PutMoves, OutstandingOwn
    <3> QED BY <3>1, <3>2, <3>3, <3>4
  <2>3. \A d \in Clients : Keeps(d)
    <3>1. pc'[c] \notin {"list", "listed"}
      BY <2>1 DEF Putting
    <3>2. Stored \subseteq Stored'
      BY <2>2
    <3>3. \A d \in Clients : pc'[d] = pc[d] \/ pc'[d] \notin {"list", "listed"}
      BY <2>1, <3>1
    <3> QED BY <2>1, <2>2, <3>2, <3>3, <1>p, QuietCovered
  <2>4. \A d \in Clients : OwnBlock(d)
    BY <2>1, <1>i DEF Attempted
  <2>5. \A R \in late' : OwnRows(R)
    BY <2>1, <1>o, <1>l
  <2> QED BY <2>1, <2>2, <2>3, <2>4, <2>5, <1>i DEF Attempted
<1>3. ASSUME NEW c \in Clients, NEW b \in Blocks, StartGet(c, b)
      PROVE  /\ Stored' \subseteq attempted'
             /\ \A R \in late' : OwnRows(R)
             /\ \A d \in Clients : OwnBlock(d) /\ Keeps(d)
  <2>1. /\ UNCHANGED <<table, late, attempted, cursor, finished, pending, yielded>>
        /\ blk' = [blk EXCEPT ![c] = b] /\ seen' = [seen EXCEPT ![c] = Stored]
        /\ Enter(c, "getroot", {Root(b)})
    BY <1>3 DEF StartGet, putVars
  <2>2. /\ seen'[c] = Stored /\ pc'[c] = "getroot"
        /\ \A d \in Clients \ {c} : blk'[d] = blk[d] /\ seen'[d] = seen[d] /\ pc'[d] = pc[d]
    <3>1. pc'[c] = "getroot" /\ \A d \in Clients \ {c} : pc'[d] = pc[d]
      BY <2>1, <1>i, EnterPhase
    <3> QED BY <2>1, <3>1, <1>i DEF TypeOK
  <2>3. Stored' = Stored
    BY <2>1 DEF Stored
  <2>4. Keeps(c)
    BY <2>2, <2>3 DEF Covered
  <2>5. \A d \in Clients \ {c} : Keeps(d)
    BY <2>1, <2>2, <2>3, <1>p, QuietCovered
  <2>6. \A d \in Clients : OwnBlock(d)
    BY <2>1, <2>2, <1>i DEF Attempted, Putting
  <2> QED BY <2>1, <2>3, <2>4, <2>5, <2>6, <1>l, <1>i DEF Attempted
<1>4. ASSUME NEW c \in Clients, GetStep(c)
      PROVE  /\ Stored' \subseteq attempted'
             /\ \A R \in late' : OwnRows(R)
             /\ \A d \in Clients : OwnBlock(d) /\ Keeps(d)
  <2>1. /\ UNCHANGED <<table, late, attempted, blk, seen, cursor, finished, pending, yielded>>
        /\ \A d \in Clients \ {c} : pc'[d] = pc[d]
        /\ pc'[c] \in Getting \cup {"err", "some", "none"}
    BY <1>4, <1>i, GetMoves
  <2>2. Stored' = Stored
    BY <2>1 DEF Stored
  <2>3. pc'[c] \notin Putting \cup {"list", "listed"}
    BY <2>1 DEF Putting, Getting
  <2>4. \A d \in Clients : Keeps(d)
    BY <2>1, <2>2, <2>3, <1>p, QuietCovered
  <2> QED BY <2>1, <2>2, <2>3, <2>4, <1>l, <1>i DEF Attempted
<1>5. ASSUME NEW c \in Clients, StartList(c)
      PROVE  /\ Stored' \subseteq attempted'
             /\ \A R \in late' : OwnRows(R)
             /\ \A d \in Clients : OwnBlock(d) /\ Keeps(d)
  <2>1. /\ UNCHANGED <<table, late, attempted, blk>>
        /\ Enter(c, "list", {})
        /\ seen' = [seen EXCEPT ![c] = Stored] /\ cursor' = [cursor EXCEPT ![c] = Start]
        /\ finished' = [finished EXCEPT ![c] = FALSE]
        /\ pending' = [pending EXCEPT ![c] = {}] /\ yielded' = [yielded EXCEPT ![c] = << >>]
    BY <1>5 DEF StartList, putVars
  <2>2. pc'[c] = "list" /\ \A d \in Clients \ {c} : pc'[d] = pc[d]
    BY <2>1, <1>i, EnterPhase
  <2>3. /\ seen'[c] = Stored /\ cursor'[c] = Start /\ ~finished'[c]
        /\ pending'[c] = {} /\ yielded'[c] = << >>
        /\ \A d \in Clients \ {c} :
              /\ seen'[d] = seen[d] /\ cursor'[d] = cursor[d] /\ finished'[d] = finished[d]
              /\ pending'[d] = pending[d] /\ yielded'[d] = yielded[d]
    BY <2>1, <1>i DEF TypeOK
  <2>4. Stored' = Stored
    BY <2>1 DEF Stored
  <2>5. Keeps(c)
    <3>1. \A b \in Blocks : ~Before(Root(b), Start)
      BY BlocksAssumption DEF Before, Root, Start
    <3>2. Yielded(c)' = {}
      BY <2>3 DEF Yielded
    <3>3. Stored \subseteq Blocks
      BY DEF Stored
    <3> QED BY <2>2, <2>3, <2>4, <3>1, <3>2, <3>3 DEF Covered
  <2>6. \A d \in Clients \ {c} : Keeps(d)
    BY <2>1, <2>2, <2>3, <2>4, <1>p, QuietCovered
  <2>7. \A d \in Clients : OwnBlock(d)
    BY <2>1, <2>2, <1>i DEF Attempted, Putting
  <2> QED BY <2>1, <2>4, <2>5, <2>6, <2>7, <1>l, <1>i DEF Attempted
<1>6. ASSUME NEW c \in Clients, ListStep(c)
      PROVE  /\ Stored' \subseteq attempted'
             /\ \A R \in late' : OwnRows(R)
             /\ \A d \in Clients : OwnBlock(d) /\ Keeps(d)
  <2>1. UNCHANGED <<table, late, attempted, blk, seen>> /\ pc[c] = "list"
    BY <1>6 DEF ListStep, PageFetched, Yield, ListEnds, PageRetry, PageFailed, putVars, readVars
  <2>2. Stored' = Stored
    BY <2>1 DEF Stored
  <2>3. /\ pc'[c] \in {"list", "listed", "err"}
        /\ \A d \in Clients \ {c} :
              /\ pc'[d] = pc[d] /\ cursor'[d] = cursor[d] /\ finished'[d] = finished[d]
              /\ pending'[d] = pending[d] /\ yielded'[d] = yielded[d]
    <3>1. CASE PageFetched(c) \/ Yield(c) \/ PageRetry(c)
      BY <3>1, <2>1, <1>i DEF PageFetched, Yield, PageRetry, TypeOK, readVars
    <3>2. CASE ListEnds(c) \/ PageFailed(c)
      <4>1. /\ UNCHANGED <<cursor, finished, pending, yielded>>
            /\ Enter(c, "listed", {}) \/ Enter(c, "err", {})
        BY <3>2 DEF ListEnds, PageFailed, readVars, Finish
      <4> QED BY <4>1, <1>i, EnterPhase
    <3> QED BY <1>6, <3>1, <3>2 DEF ListStep
  <2>4. \A d \in Clients \ {c} : Keeps(d)
    BY <2>1, <2>2, <2>3, <1>p, QuietCovered
  <2>5. \A d \in Clients : OwnBlock(d)
    BY <2>1, <2>3, <1>i DEF Attempted, Putting
  <2>6. /\ \A b \in seen[c] :
              \/ b \in Yielded(c) \/ Root(b) \in pending[c]
              \/ ~finished[c] /\ ~Before(Root(b), cursor[c])
        /\ Yielded(c) \subseteq Stored /\ pending[c] \subseteq table
        /\ seen[c] \subseteq Stored
    BY <2>1, <1>p DEF Covered
  <2>7. Keeps(c)
    <3>1. CASE PageFetched(c)
      <4>1. /\ pending[c] = {} /\ ~finished[c] /\ yielded' = yielded /\ pc' = pc
        BY <3>1 DEF PageFetched
      <4>2. Yielded(c)' = Yielded(c)
        BY <4>1 DEF Yielded
      <4>3. ASSUME NEW b \in seen[c], b \notin Yielded(c)
            PROVE  /\ b \in Blocks /\ Root(b)[2] = 0 /\ Root(b) \in table
                   /\ ~Before(Root(b), cursor[c])
        BY <4>1, <4>3, <2>6 DEF Root, Stored
      <4>4. CASE \E stop \in Rows :
                    /\ cursor' = [cursor EXCEPT ![c] = stop]
                    /\ pending' = [pending EXCEPT ![c] =
                                      PageRoots(c, {r \in table : Before(r, stop)})]
                    /\ UNCHANGED finished
        <5>1. PICK stop \in Rows :
                    /\ cursor' = [cursor EXCEPT ![c] = stop]
                    /\ pending' = [pending EXCEPT ![c] =
                                      PageRoots(c, {r \in table : Before(r, stop)})]
                    /\ UNCHANGED finished
          BY <4>4
        <5>2. /\ cursor'[c] = stop /\ ~finished'[c]
              /\ pending'[c] = PageRoots(c, {r \in table : Before(r, stop)})
          BY <5>1, <4>1, <1>i DEF TypeOK
        <5>3. pending'[c] \subseteq table
          BY <5>2 DEF PageRoots
        <5>4. \A b \in seen[c] : \/ b \in Yielded(c) \/ Root(b) \in pending'[c]
                                 \/ ~Before(Root(b), stop)
          BY <5>2, <4>3 DEF PageRoots
        <5> QED BY <2>1, <2>2, <2>6, <4>1, <4>2, <5>2, <5>3, <5>4 DEF Covered
      <4>5. CASE /\ finished' = [finished EXCEPT ![c] = TRUE]
                 /\ pending' = [pending EXCEPT ![c] = PageRoots(c, table)]
        <5>1. finished'[c] /\ pending'[c] = PageRoots(c, table)
          BY <4>5, <1>i DEF TypeOK
        <5>2. pending'[c] \subseteq table
          BY <5>1 DEF PageRoots
        <5>3. \A b \in seen[c] : b \in Yielded(c) \/ Root(b) \in pending'[c]
          BY <5>1, <4>3 DEF PageRoots
        <5> QED BY <2>1, <2>2, <2>6, <4>1, <4>2, <5>1, <5>2, <5>3 DEF Covered
      <4> QED BY <3>1, <4>4, <4>5 DEF PageFetched
    <3>2. CASE Yield(c)
      <4>1. PICK r \in pending[c] :
                   /\ pending' = [pending EXCEPT ![c] = pending[c] \ {r}]
                   /\ yielded' = [yielded EXCEPT ![c] = Append(yielded[c], r[1])]
        BY <3>2 DEF Yield
      <4>2. /\ pending'[c] = pending[c] \ {r} /\ yielded'[c] = Append(yielded[c], r[1])
            /\ cursor'[c] = cursor[c] /\ finished'[c] = finished[c] /\ pc' = pc
        BY <3>2, <4>1, <1>i DEF TypeOK, Yield, opVars
      <4>3. r \in Rows /\ r \in table /\ r[1] \in Blocks /\ r = Root(r[1])
        <5>1. r \in Rows /\ r[2] = 0
          BY <1>i DEF TypeOK, ListInv, Ordered
        <5> QED BY <5>1, <2>6, RowBlock, RootRow
      <4>4. Yielded(c)' = Yielded(c) \cup {r[1]}
        BY <4>2, <4>3, <1>i, YieldedGrows DEF TypeOK
      <4>5. r[1] \in Stored
        BY <4>3 DEF Stored
      <4>6. \A b \in seen[c] : Root(b) = r => b = r[1]
        BY DEF Root
      <4>7. \A b \in seen[c] :
              \/ b \in Yielded(c)' \/ Root(b) \in pending'[c]
              \/ ~finished'[c] /\ ~Before(Root(b), cursor'[c])
        BY <2>6, <4>2, <4>4, <4>6
      <4> QED BY <2>1, <2>2, <2>6, <4>2, <4>4, <4>5, <4>7 DEF Covered
    <3>3. CASE PageRetry(c)
      BY <3>3, <2>1, <2>2, <1>p, QuietCovered DEF PageRetry, readVars
    <3>4. CASE ListEnds(c)
      <4>1. /\ pending[c] = {} /\ finished[c]
            /\ UNCHANGED <<cursor, finished, pending, yielded>>
        BY <3>4 DEF ListEnds, readVars
      <4>2. Yielded(c)' = Yielded(c)
        BY <4>1 DEF Yielded
      <4> QED BY <2>1, <2>2, <2>6, <4>1, <4>2 DEF Covered
    <3>5. CASE PageFailed(c)
      <4>1. pc'[c] = "err"
        BY <3>5, <1>i, EnterPhase DEF PageFailed, Finish
      <4> QED BY <4>1, <2>1, <2>2, <2>6 DEF Covered
    <3> QED BY <1>6, <3>1, <3>2, <3>3, <3>4, <3>5 DEF ListStep
  <2> QED BY <2>1, <2>2, <2>4, <2>5, <2>7, <1>l, <1>i DEF Attempted
<1>7. ASSUME NEW c \in Clients, Abandon(c)
      PROVE  /\ Stored' \subseteq attempted'
             /\ \A R \in late' : OwnRows(R)
             /\ \A d \in Clients : OwnBlock(d) /\ Keeps(d)
  <2>1. /\ UNCHANGED <<table, attempted, blk, seen, cursor, finished, pending, yielded>>
        /\ Enter(c, "idle", {}) /\ late' \subseteq late \cup Outstanding(c)
    BY <1>7 DEF Abandon, Drop, readVars, Finish
  <2>2. pc'[c] = "idle" /\ \A d \in Clients \ {c} : pc'[d] = pc[d]
    BY <2>1, <1>i, EnterPhase
  <2>3. Stored' = Stored
    BY <2>1 DEF Stored
  <2>4. \A d \in Clients : Keeps(d)
    BY <2>1, <2>2, <2>3, <1>p, QuietCovered
  <2>5. \A d \in Clients : OwnBlock(d)
    BY <2>1, <2>2, <1>i DEF Attempted, Putting
  <2>6. \A R \in late' : OwnRows(R)
    BY <2>1, <1>o, <1>l
  <2> QED BY <2>1, <2>3, <2>4, <2>5, <2>6, <1>i DEF Attempted
<1>8. ASSUME LateInsert
      PROVE  /\ Stored' \subseteq attempted'
             /\ \A R \in late' : OwnRows(R)
             /\ \A d \in Clients : OwnBlock(d) /\ Keeps(d)
  <2>1. /\ UNCHANGED <<attempted, pc, blk, seen, cursor, finished, pending, yielded>>
        /\ late' \subseteq late /\ table \subseteq table'
    BY <1>8 DEF LateInsert, Inserted, readVars
  <2>2. Stored' = Stored \/ \E b \in attempted : Stored' = Stored \cup {b}
    BY <1>8, <1>i, LateMoves
  <2>3. \A d \in Clients : Keeps(d)
    BY <2>1, <2>2, <1>p, QuietCovered
  <2> QED BY <2>1, <2>2, <2>3, <1>l, <1>i DEF Attempted
<1>9. ASSUME UNCHANGED vars
      PROVE  /\ Stored' \subseteq attempted'
             /\ \A R \in late' : OwnRows(R)
             /\ \A d \in Clients : OwnBlock(d) /\ Keeps(d)
  <2>1. UNCHANGED <<table, late, attempted, pc, blk, seen, cursor, finished, pending, yielded>>
    BY <1>9 DEF vars
  <2>2. Stored' = Stored
    BY <2>1 DEF Stored
  <2>3. \A d \in Clients : Keeps(d)
    BY <2>1, <2>2, <1>p, QuietCovered
  <2> QED BY <2>1, <2>2, <2>3, <1>l, <1>i DEF Attempted
<1> HIDE DEF Keeps, OwnRows, OwnBlock
<1> QED BY <1>c, <1>1, <1>2, <1>3, <1>4, <1>5, <1>6, <1>7, <1>8, <1>9 DEF Next

LEMMA RefInvariance == Spec => []RefInv
<1>1. Init => Attempted /\ \A c \in Clients : seen[c] \subseteq Stored /\ Covered(c)
  BY DEF Init, Attempted, Stored, Covered, Putting
<1>2. Init => IndInv
  BY NoTriesType DEF Init, IndInv, TypeOK, Settled, Keys, ClientSafe, WriterPhase,
                     ReaderPhase, SafeRows
<1>3. Init => ListInv
  BY <1>2 DEF Init, IndInv, ListInv, Ordered, Yielded
<1>4. Init => RefInv
  BY <1>1, <1>2, <1>3 DEF RefInv
<1> QED BY <1>4, RefStep, PTL DEF Spec

\* What a step of one client changes of the mapped state.
LEMMA BarMoves ==
    ASSUME NEW c \in Clients, \A d \in Clients \ {c} : pc'[d] = pc[d],
           \A d \in Clients \ {c} : yielded'[d] = yielded[d]
    PROVE  /\ opBar' = [opBar EXCEPT ![c] = Op(c)']
           /\ idsBar' = [idsBar EXCEPT ![c] = IF pc'[c] = "listed" THEN Yielded(c)' ELSE {}]
<1>1. \A d \in Clients \ {c} : Op(d)' = Op(d)
  BY DEF Op
<1>2. \A d \in Clients \ {c} : (pc'[d] = "listed") = (pc[d] = "listed") /\ Yielded(d)' = Yielded(d)
  BY DEF Yielded
<1> QED BY <1>1, <1>2 DEF opBar, idsBar

LEMMA BarValues ==
    ASSUME NEW c \in Clients
    PROVE  /\ opBar[c] = Op(c)
           /\ pc[c] \in Putting => Op(c) = "put"
           /\ pc[c] \in Getting => Op(c) = "get"
           /\ pc[c] \in Settled \cup {"list"} => Op(c) = pc[c]
           /\ idsBar[c] = IF pc[c] = "listed" THEN Yielded(c) ELSE {}
  BY DEF opBar, idsBar, Op, Putting, Getting, Settled

\* Every step of the store is a step of the contract, or leaves what the
\* contract speaks of unchanged.
LEMMA ContractStep == RefInv /\ RefInv' /\ [Next]_vars => [Contract!Next]_(Contract!vars)
<1> SUFFICES ASSUME RefInv, RefInv', [Next]_vars
             PROVE  Contract!Next \/ UNCHANGED <<Stored, attempted, opBar, blk, seen, idsBar>>
  BY DEF Contract!vars
<1>i. IndInv /\ IndInv' /\ TypeOK /\ TypeOK' /\ Attempted
  BY DEF RefInv, IndInv
<1>c. Writers \subseteq Clients /\ Readers \subseteq Clients /\ Listers \subseteq Clients
  BY DEF Clients
<1>n. ASSUME NEW c \in Clients
      PROVE  pc[c] \in Settled => pc[c] \in Contract!Replies
  BY <1>i DEF Settled, Contract!Replies, IndInv, ClientSafe
<1>1. ASSUME NEW c \in Clients, NEW b \in Blocks, StartPut(c, b) PROVE Contract!Next
  <2>1. /\ UNCHANGED <<table, yielded>> /\ attempted' = attempted \cup {b}
        /\ blk' = [blk EXCEPT ![c] = b] /\ seen' = [seen EXCEPT ![c] = {}]
        /\ pc[c] \in Settled
        /\ \E phase \in Putting : \E rows : Enter(c, phase, rows)
    BY <1>1 DEF StartPut, Putting
  <2>2. pc'[c] \in Putting /\ \A d \in Clients \ {c} : pc'[d] = pc[d]
    BY <2>1, <1>i, EnterPhase
  <2>3. Op(c)' = "put" /\ pc'[c] # "listed"
    BY <2>2 DEF Op, Putting, Getting
  <2>4. opBar' = [opBar EXCEPT ![c] = "put"] /\ idsBar' = [idsBar EXCEPT ![c] = {}]
    BY <2>1, <2>2, <2>3, BarMoves
  <2>5. opBar[c] \in Contract!Replies
    BY <2>1, <1>n, BarValues
  <2>6. UNCHANGED Stored
    BY <2>1 DEF Stored
  <2>7. Contract!BeginPut(c, b)
    BY <2>1, <2>4, <2>5, <2>6 DEF Contract!BeginPut
  <2> QED BY <2>7 DEF Contract!Next
<1>2. ASSUME NEW c \in Clients, PutStep(c)
      PROVE  Contract!Next \/ UNCHANGED <<Stored, attempted, opBar, blk, seen, idsBar>>
  <2>1. /\ UNCHANGED <<attempted, blk, seen, yielded>> /\ pc[c] \in Putting
        /\ blk[c] \in Blocks
        /\ \A d \in Clients \ {c} : pc'[d] = pc[d]
    BY <1>2, <1>i, PutMoves DEF TypeOK
  <2>2. opBar[c] = "put" /\ idsBar[c] = {} /\ pc[c] # "listed"
    BY <2>1, BarValues DEF Putting
  <2>3. opBar' = [opBar EXCEPT ![c] = Op(c)']
    BY <2>1, BarMoves
  <2>4. pc'[c] # "listed" => idsBar' = idsBar
    BY <2>1, <2>2, BarMoves DEF idsBar
  <2>5. CASE /\ pc'[c] \in Putting
             /\ table' = table \/ \E R \in SUBSET Continuation(blk[c]) : table' = table \cup R
    <3>1. Stored' = Stored
      <4>1. CASE table' = table
        BY <4>1 DEF Stored
      <4>2. CASE \E R \in SUBSET Continuation(blk[c]) : table' = table \cup R
        BY <4>2, <2>1, StoredByContinuation
      <4> QED BY <2>5, <4>1, <4>2
    <3>2. Op(c)' = "put" /\ pc'[c] # "listed"
      BY <2>5 DEF Op, Putting, Getting
    <3>3. opBar' = opBar
      BY <2>2, <2>3, <3>2 DEF opBar
    <3> QED BY <2>1, <2>4, <3>1, <3>2, <3>3
  <2>6. CASE pc'[c] = "ok" /\ table' = table \cup {Root(blk[c])}
    <3>1. Stored' = Stored \cup {blk[c]}
      BY <2>1, <2>6, StoredByRoot
    <3>2. Op(c)' = "ok"
      BY <2>6 DEF Op, Putting, Getting
    <3>3. Contract!PutOk(c)
      BY <2>1, <2>2, <2>3, <2>4, <2>6, <3>1, <3>2 DEF Contract!PutOk, Contract!Reply
    <3> QED BY <3>3 DEF Contract!Next
  <2>7. CASE /\ pc'[c] = "err"
             /\ table' = table \/ \E R \in Outstanding(c) : table' = table \cup R
    <3>1. Stored' = Stored \/ Stored' = Stored \cup {blk[c]}
      <4>1. CASE table' = table
        BY <4>1 DEF Stored
      <4>2. ASSUME NEW R \in Outstanding(c), table' = table \cup R
            PROVE  Stored' = Stored \/ Stored' = Stored \cup {blk[c]}
        BY <4>2, <1>i, OutstandingOwn, StoredByContinuation, StoredByRoot
      <4> QED BY <2>7, <4>1, <4>2
    <3>2. Op(c)' = "err"
      BY <2>7 DEF Op, Putting, Getting
    <3>3. Contract!PutErr(c)
      BY <2>1, <2>2, <2>3, <2>4, <2>7, <3>1, <3>2 DEF Contract!PutErr, Contract!Reply
    <3> QED BY <3>3 DEF Contract!Next
  <2> QED BY <1>2, <1>i, <2>5, <2>6, <2>7, PutMoves
<1>3. ASSUME NEW c \in Clients, NEW b \in Blocks, StartGet(c, b) PROVE Contract!Next
  <2>1. /\ UNCHANGED <<table, attempted, yielded>> /\ pc[c] \in Settled
        /\ blk' = [blk EXCEPT ![c] = b] /\ seen' = [seen EXCEPT ![c] = Stored]
        /\ Enter(c, "getroot", {Root(b)})
    BY <1>3 DEF StartGet, putVars
  <2>2. pc'[c] = "getroot" /\ \A d \in Clients \ {c} : pc'[d] = pc[d]
    BY <2>1, <1>i, EnterPhase
  <2>3. Op(c)' = "get" /\ pc'[c] # "listed"
    BY <2>2 DEF Op, Putting, Getting
  <2>4. opBar' = [opBar EXCEPT ![c] = "get"] /\ idsBar' = [idsBar EXCEPT ![c] = {}]
    BY <2>1, <2>2, <2>3, BarMoves
  <2>5. opBar[c] \in Contract!Replies
    BY <2>1, <1>n, BarValues
  <2>6. UNCHANGED Stored
    BY <2>1 DEF Stored
  <2>7. Contract!BeginRead(c, b, "get")
    BY <2>1, <2>4, <2>5, <2>6 DEF Contract!BeginRead
  <2> QED BY <2>7 DEF Contract!Next
<1>4. ASSUME NEW c \in Clients, GetStep(c)
      PROVE  Contract!Next \/ UNCHANGED <<Stored, attempted, opBar, blk, seen, idsBar>>
  <2>1. /\ UNCHANGED <<table, attempted, blk, seen, yielded>> /\ pc[c] \in Getting
        /\ blk[c] \in Blocks
        /\ \A d \in Clients \ {c} : pc'[d] = pc[d]
        /\ \/ pc'[c] \in Getting \/ pc'[c] = "err"
           \/ pc'[c] = "some" /\ Root(blk[c]) \in table
           \/ pc'[c] = "none" /\ Root(blk[c]) \notin table
    BY <1>4, <1>i, GetMoves DEF TypeOK
  <2>2. opBar[c] = "get" /\ idsBar[c] = {} /\ pc[c] # "listed"
    BY <2>1, BarValues DEF Getting
  <2>3. opBar' = [opBar EXCEPT ![c] = Op(c)']
    BY <2>1, BarMoves
  <2>4. idsBar' = idsBar
    BY <2>1, <2>2, BarMoves DEF idsBar, Getting
  <2>5. UNCHANGED Stored
    BY <2>1 DEF Stored
  <2>6. CASE pc'[c] \in Getting
    <3>1. Op(c)' = "get"
      BY <2>6 DEF Op, Putting, Getting
    <3>2. opBar' = opBar
      BY <2>2, <2>3, <3>1 DEF opBar
    <3> QED BY <2>1, <2>4, <2>5, <3>2
  <2>7. CASE pc'[c] = "err"
    <3>1. Op(c)' = "err"
      BY <2>7 DEF Op, Putting, Getting
    <3>2. Contract!ReadErr(c)
      BY <2>1, <2>2, <2>3, <2>4, <2>5, <3>1 DEF Contract!ReadErr, Contract!Reply
    <3> QED BY <3>2 DEF Contract!Next
  <2>8. CASE pc'[c] = "some" /\ Root(blk[c]) \in table
    <3>1. Op(c)' = "some" /\ blk[c] \in Stored
      BY <2>1, <2>8 DEF Op, Putting, Getting, Stored
    <3>2. Contract!GetSome(c)
      BY <2>1, <2>2, <2>3, <2>4, <2>5, <3>1 DEF Contract!GetSome, Contract!Reply
    <3> QED BY <3>2 DEF Contract!Next
  <2>9. CASE pc'[c] = "none" /\ Root(blk[c]) \notin table
    <3>1. Op(c)' = "none" /\ blk[c] \notin seen[c]
      BY <2>9 DEF Op, Putting, Getting, Stored, RefInv
    <3>2. Contract!GetNone(c)
      BY <2>1, <2>2, <2>3, <2>4, <2>5, <3>1 DEF Contract!GetNone, Contract!Reply
    <3> QED BY <3>2 DEF Contract!Next
  <2> QED BY <2>1, <2>6, <2>7, <2>8, <2>9
<1>5. ASSUME NEW c \in Clients, StartList(c) PROVE Contract!Next
  <2>1. /\ UNCHANGED <<table, attempted, blk>> /\ pc[c] \in Settled
        /\ seen' = [seen EXCEPT ![c] = Stored]
        /\ yielded' = [yielded EXCEPT ![c] = << >>]
        /\ Enter(c, "list", {})
    BY <1>5 DEF StartList, putVars
  <2>2. /\ pc'[c] = "list" /\ blk[c] \in Blocks
        /\ blk' = [blk EXCEPT ![c] = blk[c]]
        /\ \A d \in Clients \ {c} : pc'[d] = pc[d] /\ yielded'[d] = yielded[d]
    <3>1. pc'[c] = "list" /\ \A d \in Clients \ {c} : pc'[d] = pc[d]
      BY <2>1, <1>i, EnterPhase
    <3> QED BY <2>1, <3>1, <1>i DEF TypeOK
  <2>3. Op(c)' = "list" /\ pc'[c] # "listed"
    BY <2>2 DEF Op, Putting, Getting
  <2>4. opBar' = [opBar EXCEPT ![c] = "list"] /\ idsBar' = [idsBar EXCEPT ![c] = {}]
    BY <2>2, <2>3, BarMoves
  <2>5. opBar[c] \in Contract!Replies
    BY <2>1, <1>n, BarValues
  <2>6. UNCHANGED Stored
    BY <2>1 DEF Stored
  <2>7. Contract!BeginRead(c, blk[c], "list")
    BY <2>1, <2>2, <2>4, <2>5, <2>6 DEF Contract!BeginRead
  <2> QED BY <2>2, <2>7 DEF Contract!Next
<1>6. ASSUME NEW c \in Clients, ListStep(c)
      PROVE  Contract!Next \/ UNCHANGED <<Stored, attempted, opBar, blk, seen, idsBar>>
  <2>1. UNCHANGED <<table, attempted, blk, seen>> /\ pc[c] = "list"
    BY <1>6 DEF ListStep, PageFetched, Yield, ListEnds, PageRetry, PageFailed, putVars, readVars
  <2>2. opBar[c] = "list" /\ idsBar[c] = {}
    BY <2>1, BarValues DEF Settled
  <2>3. UNCHANGED Stored
    BY <2>1 DEF Stored
  <2>4. CASE PageFetched(c) \/ Yield(c) \/ PageRetry(c)
    <3>1. pc' = pc /\ \A d \in Clients \ {c} : yielded'[d] = yielded[d]
      BY <2>4, <1>i DEF PageFetched, Yield, PageRetry, readVars, TypeOK
    <3>2. Op(c)' = Op(c) /\ pc'[c] # "listed"
      BY <2>1, <3>1 DEF Op
    <3>3. opBar' = [opBar EXCEPT ![c] = Op(c)] /\ idsBar' = [idsBar EXCEPT ![c] = {}]
      BY <3>1, <3>2, BarMoves
    <3>4. opBar' = opBar /\ idsBar' = idsBar
      BY <2>2, <3>3, BarValues DEF opBar, idsBar
    <3> QED BY <2>1, <2>3, <3>4
  <2>5. CASE ListEnds(c)
    <3>1. UNCHANGED yielded /\ Enter(c, "listed", {}) /\ pending[c] = {} /\ finished[c]
      BY <2>5 DEF ListEnds, readVars, Finish
    <3>2. pc'[c] = "listed" /\ \A d \in Clients \ {c} : pc'[d] = pc[d]
      BY <3>1, <1>i, EnterPhase
    <3>3. Op(c)' = "listed" /\ Yielded(c)' = Yielded(c)
      BY <3>1, <3>2 DEF Op, Putting, Getting, Yielded
    <3>4. opBar' = [opBar EXCEPT ![c] = "listed"] /\ idsBar' = [idsBar EXCEPT ![c] = Yielded(c)]
      BY <3>1, <3>2, <3>3, BarMoves
    <3>5. seen[c] \subseteq Yielded(c) /\ Yielded(c) \subseteq Stored /\ Stored \subseteq Blocks
      BY <2>1, <3>1 DEF RefInv, Covered, Stored
    <3>6. Contract!Listed(c, Yielded(c))
      BY <2>1, <2>2, <2>3, <3>4, <3>5 DEF Contract!Listed, Contract!Reply
    <3> QED BY <3>5, <3>6 DEF Contract!Next
  <2>6. CASE PageFailed(c)
    <3>1. UNCHANGED yielded /\ Enter(c, "err", {})
      BY <2>6 DEF PageFailed, readVars, Finish
    <3>2. pc'[c] = "err" /\ \A d \in Clients \ {c} : pc'[d] = pc[d]
      BY <3>1, <1>i, EnterPhase
    <3>3. Op(c)' = "err"
      BY <3>2 DEF Op, Putting, Getting
    <3>4. opBar' = [opBar EXCEPT ![c] = "err"] /\ idsBar' = [idsBar EXCEPT ![c] = {}]
      BY <3>1, <3>2, <3>3, BarMoves
    <3>5. idsBar' = idsBar
      BY <2>2, <3>4 DEF idsBar
    <3>6. Contract!ReadErr(c)
      BY <2>1, <2>2, <2>3, <3>4, <3>5 DEF Contract!ReadErr, Contract!Reply
    <3> QED BY <3>6 DEF Contract!Next
  <2> QED BY <1>6, <2>4, <2>5, <2>6 DEF ListStep
<1>7. ASSUME NEW c \in Clients, Abandon(c) PROVE Contract!Next
  <2>1. /\ UNCHANGED <<table, attempted, blk, seen, yielded>> /\ pc[c] \in Running
        /\ Enter(c, "idle", {})
    BY <1>7 DEF Abandon, readVars, Finish
  <2>2. pc'[c] = "idle" /\ \A d \in Clients \ {c} : pc'[d] = pc[d]
    BY <2>1, <1>i, EnterPhase
  <2>3. Op(c)' = "idle"
    BY <2>2 DEF Op, Putting, Getting
  <2>4. opBar' = [opBar EXCEPT ![c] = "idle"] /\ idsBar' = [idsBar EXCEPT ![c] = {}]
    BY <2>1, <2>2, <2>3, BarMoves
  <2>5. opBar[c] \in Contract!Busy /\ idsBar[c] = {}
    BY <2>1, BarValues DEF Contract!Busy, Running, Putting, Getting
  <2>6. idsBar' = idsBar
    BY <2>4, <2>5 DEF idsBar
  <2>7. UNCHANGED Stored
    BY <2>1 DEF Stored
  <2>8. Contract!Abandon(c)
    BY <2>1, <2>4, <2>5, <2>6, <2>7 DEF Contract!Abandon, Contract!Reply
  <2> QED BY <2>8 DEF Contract!Next
<1>8. CASE LateInsert
  <2>1. UNCHANGED <<attempted, pc, blk, seen, yielded>>
    BY <1>8 DEF LateInsert, readVars
  <2>2. UNCHANGED <<opBar, idsBar>>
    BY <2>1 DEF opBar, idsBar, Op, Yielded
  <2>3. CASE Stored' = Stored
    BY <2>1, <2>2, <2>3
  <2>4. ASSUME NEW b \in attempted, Stored' = Stored \cup {b} PROVE Contract!Next
    <3>1. Contract!Publish(b) /\ b \in Blocks
      BY <2>1, <2>2, <2>4, <1>i DEF Contract!Publish, TypeOK
    <3> QED BY <3>1 DEF Contract!Next
  <2> QED BY <1>8, <1>i, <2>3, <2>4, LateMoves
<1>9. CASE UNCHANGED vars
  BY <1>9 DEF vars, Stored, opBar, idsBar, Op, Yielded
<1> QED BY <1>c, <1>1, <1>2, <1>3, <1>4, <1>5, <1>6, <1>7, <1>8, <1>9 DEF Next

\* The table store implements the BlockStore contract for every number of
\* tasks, every block layout and every loss or delay of requests: a put that
\* returned Ok is found by every later get and enumeration, a get returns whole
\* blocks, None only for a block that was absent when it began, and an
\* enumeration holds every block stored when it began.
THEOREM ImplementsContract == Spec => ContractSpec
<1>1. Init => Contract!Init
  <2>1. Init => Stored = {}
    BY DEF Init, Stored
  <2>2. Init => opBar = [c \in Clients |-> "idle"] /\ idsBar = [c \in Clients |-> {}]
    BY DEF Init, opBar, idsBar, Op, Putting, Getting
  <2> QED BY <2>1, <2>2 DEF Init, Contract!Init
<1> QED BY <1>1, RefInvariance, ContractStep, PTL DEF Spec, ContractSpec, Contract!Spec

=============================================================================
