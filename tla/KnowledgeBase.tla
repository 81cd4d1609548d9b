--------------------------- MODULE KnowledgeBase ---------------------------
(***************************************************************************)
(* What a KnowledgeStore promises its callers: a map from documents to the *)
(* one batch of chunks stored for each, changed by calls that take effect  *)
(* at a single instant.  A call in flight either has its whole effect, on  *)
(* its own document only, or none.  The base class and the in-memory store *)
(* of sorakai/common/store.py implement it directly (neither suspends in   *)
(* the middle of a write); RedisKnowledgeStore is shown to implement it    *)
(* under the conditions that module names.                                 *)
(***************************************************************************)

CONSTANTS
    Docs,     \* document ids
    Batches,  \* what one ingest stores for a document: its chunks and vectors
    NoBatch,  \* "nothing is stored for this document"
    Clients   \* coroutines calling the store

VARIABLES
    kb,       \* kb[d]: the batch stored for d, or NoBatch
    pending   \* pending[c]: the call c is waiting on, or NoCall

vars == <<kb, pending>>

Call == [kind : {"append", "replace"}, doc : Docs, batch : Batches]
          \cup [kind : {"delete"}, doc : Docs, batch : {NoBatch}]

NoCall == [kind |-> "none"]

Init ==
    /\ kb = [d \in Docs |-> NoBatch]
    /\ pending = [c \in Clients |-> NoCall]

Invoke(c, call) ==
    /\ pending[c] = NoCall
    /\ pending' = [pending EXCEPT ![c] = call]
    /\ UNCHANGED kb

\* The document named gets the call's batch (a delete carries NoBatch); a
\* replacement drops every other document as well.
Effect(call) ==
    [d \in Docs |-> IF d = call.doc THEN call.batch
                    ELSE IF call.kind = "replace" THEN NoBatch ELSE kb[d]]

\* The call returns: its effect is there, all of it, from this instant on.
Apply(c) ==
    /\ pending[c] # NoCall
    /\ kb' = Effect(pending[c])
    /\ pending' = [pending EXCEPT ![c] = NoCall]

\* The call raises before its effect (the connection drops, the process dies).
Abort(c) ==
    /\ pending[c] # NoCall
    /\ pending' = [pending EXCEPT ![c] = NoCall]
    /\ UNCHANGED kb

Next ==
    \E c \in Clients :
        \/ \E call \in Call : Invoke(c, call)
        \/ Apply(c)
        \/ Abort(c)

Spec == Init /\ [][Next]_vars
=============================================================================
