------------------------- MODULE BlockStoreContract -------------------------
(***************************************************************************)
(* What lexongraph_block_store::BlockStore promises to its callers: a      *)
(* content-addressed store that only grows.  A put that returned Ok is      *)
(* visible to every later get and to every later enumeration, a get never   *)
(* returns part of a block, and nothing appears that nobody put.  A put     *)
(* that failed, or whose future was dropped, may still take effect: the     *)
(* trait gives no compensation (put_block_bytes returns Err and stops).     *)
(* The stores that never evict are shown to implement this module.          *)
(***************************************************************************)

CONSTANTS Clients,   \* concurrent callers of the store
          Blocks     \* block identifiers; a block is its identifier

VARIABLES stored,     \* blocks every get must now find
          attempted,  \* blocks some put was started for
          op,         \* what each client is doing, or the reply it got last
          arg,        \* the block of the current or last operation
          known,      \* blocks stored when the current read began
          ids         \* what the last enumeration of the client returned

vars == <<stored, attempted, op, arg, known, ids>>

Busy    == {"put", "get", "list"}
Replies == {"idle", "ok", "err", "some", "none", "listed"}

TypeOK ==
    /\ stored \subseteq attempted
    /\ attempted \subseteq Blocks
    /\ op \in [Clients -> Busy \cup Replies]
    /\ arg \in [Clients -> Blocks]
    /\ known \in [Clients -> SUBSET Blocks]
    /\ ids \in [Clients -> SUBSET Blocks]

\* A store may be opened on what earlier callers put.
Init ==
    /\ stored \in SUBSET Blocks
    /\ attempted = stored
    /\ op = [c \in Clients |-> "idle"]
    /\ arg \in [Clients -> Blocks]
    /\ known = [c \in Clients |-> {}]
    /\ ids = [c \in Clients |-> {}]

-----------------------------------------------------------------------------

BeginPut(c, b) ==
    /\ op[c] \in Replies
    /\ op' = [op EXCEPT ![c] = "put"]
    /\ arg' = [arg EXCEPT ![c] = b]
    /\ known' = [known EXCEPT ![c] = {}]
    /\ ids' = [ids EXCEPT ![c] = {}]
    /\ attempted' = attempted \cup {b}
    /\ UNCHANGED stored

BeginRead(c, b, kind) ==
    /\ op[c] \in Replies
    /\ op' = [op EXCEPT ![c] = kind]
    /\ arg' = [arg EXCEPT ![c] = b]
    /\ known' = [known EXCEPT ![c] = stored]
    /\ ids' = [ids EXCEPT ![c] = {}]
    /\ UNCHANGED <<stored, attempted>>

\* A put takes effect on its own: while it runs, or after it failed.
Publish(b) ==
    /\ b \in attempted
    /\ stored' = stored \cup {b}
    /\ UNCHANGED <<attempted, op, arg, known, ids>>

Reply(c, r) ==
    /\ op' = [op EXCEPT ![c] = r]
    /\ UNCHANGED <<attempted, arg, known>>

PutOk(c) ==
    /\ op[c] = "put"
    /\ stored' = stored \cup {arg[c]}
    /\ Reply(c, "ok")
    /\ UNCHANGED ids

\* A put may report failure and have taken effect.
PutErr(c) ==
    /\ op[c] = "put"
    /\ stored' \in {stored, stored \cup {arg[c]}}
    /\ Reply(c, "err")
    /\ UNCHANGED ids

GetSome(c) ==
    /\ op[c] = "get"
    /\ arg[c] \in stored
    /\ Reply(c, "some")
    /\ UNCHANGED <<stored, ids>>

\* None is an honest answer only for a block that was not there when the
\* read began.
GetNone(c) ==
    /\ op[c] = "get"
    /\ arg[c] \notin known[c]
    /\ Reply(c, "none")
    /\ UNCHANGED <<stored, ids>>

\* The enumeration holds every block stored when it began, and no block that
\* is not stored when it ends.
Listed(c, s) ==
    /\ op[c] = "list"
    /\ known[c] \subseteq s
    /\ s \subseteq stored
    /\ ids' = [ids EXCEPT ![c] = s]
    /\ Reply(c, "listed")
    /\ UNCHANGED stored

ReadErr(c) ==
    /\ op[c] \in {"get", "list"}
    /\ Reply(c, "err")
    /\ UNCHANGED <<stored, ids>>

\* The caller drops the future, or its process dies.
Abandon(c) ==
    /\ op[c] \in Busy
    /\ Reply(c, "idle")
    /\ UNCHANGED <<stored, ids>>

Next ==
    \/ \E c \in Clients, b \in Blocks :
           \/ BeginPut(c, b)
           \/ \E kind \in {"get", "list"} : BeginRead(c, b, kind)
    \/ \E b \in Blocks : Publish(b)
    \/ \E c \in Clients :
           \/ PutOk(c) \/ PutErr(c) \/ GetSome(c) \/ GetNone(c)
           \/ ReadErr(c) \/ Abandon(c)
           \/ \E s \in SUBSET Blocks : Listed(c, s)

Spec == Init /\ [][Next]_vars

=============================================================================
