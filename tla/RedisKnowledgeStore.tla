------------------------ MODULE RedisKnowledgeStore ------------------------
(***************************************************************************)
(* RedisKnowledgeStore (sorakai/common/store.py): the knowledge base as    *)
(* the fields of one Redis hash, one field ck:<doc_id>:<index> per chunk.  *)
(* A call of a client is several round trips, and the event loop (or       *)
(* another process) runs other calls between any two of them:              *)
(*   append   HSCAN round trips, then MULTI { HDEL stale; HSET new }       *)
(*   delete   HSCAN round trips, then one HDEL; or, when the scan found    *)
(*            nothing, HGETALL and, if the document has entries after all, *)
(*            MULTI { DEL; HSET everything kept }                          *)
(*   replace  one MULTI { DEL; HSET new }                                  *)
(* Reads are one HGETALL, so a reader sees exactly one state of `chunk`    *)
(* and `legacy`.  The store serialises nothing: two histories record which *)
(* calls ran alone and where the others crossed.                           *)
(***************************************************************************)
EXTENDS Naturals

CONSTANTS
    Docs, Batches, NoBatch, Clients,
    MaxChunks,      \* bound on the chunks of a document
    ChunkCount,     \* ChunkCount[b]: how many chunks batch b has
    ScanHits,       \* ScanHits[d]: the documents whose fields match ck:<d>:*
    Serialise,      \* "per_document" for callers that wait for each answer
    InitialLegacy   \* InitialLegacy[d, i]: the pre-Wave-4 ck:<uuid> entries at start

Idx == 0 .. MaxChunks - 1
Fields == Docs \X Idx
NoDoc == "none"

\* An id without ':' and without glob characters matches its own fields only.
PlainIds == \A d \in Docs : ScanHits[d] = {d}

Empty == [f \in Fields |-> NoBatch]
NoLegacy == InitialLegacy = Empty

\* Documents with pre-Wave-4 entries.
OldLayout == {d \in Docs : \E i \in Idx : InitialLegacy[<<d, i>>] # NoBatch}

ASSUME StoreAssumption ==
    /\ MaxChunks \in Nat \ {0}
    /\ ChunkCount \in [Batches -> 1 .. MaxChunks]
    /\ NoBatch \notin Batches
    /\ NoDoc \notin Docs
    /\ ScanHits \in [Docs -> SUBSET Docs]
    /\ Serialise \in {"nothing", "per_document"}
    /\ InitialLegacy \in [Fields -> Batches \cup {NoBatch}]

VARIABLES
    chunk,   \* chunk[d, i]: the batch field ck:<d>:<i> comes from, or NoBatch
    legacy,  \* legacy[d, i]: the batch of the ck:<uuid> entry of chunk i of d
    op,      \* op[c]: the call client c is in the middle of
    alone,   \* history: the calls in flight that met no call on their documents
    crossed  \* history: the documents calls met on, until a later call alone

vars == <<chunk, legacy, op, alone, crossed>>

Kinds == {"append", "delete", "replace"}

\* todo: fields the scan has not visited; found: matching fields it returned;
\* image: what the delete fallback is about to write back.
Idle == [kind |-> "idle", doc |-> NoDoc, batch |-> NoBatch,
         todo |-> {}, found |-> {}, image |-> Empty]
Busy(k, d, b, todo) == [Idle EXCEPT !.kind = k, !.doc = d, !.batch = b, !.todo = todo]

OpType ==
    [kind : Kinds \cup {"idle", "rewrite"}, doc : Docs \cup {NoDoc},
     batch : Batches \cup {NoBatch}, todo : SUBSET Fields, found : SUBSET Fields,
     image : [Fields -> Batches \cup {NoBatch}]]

TypeOK ==
    /\ chunk \in [Fields -> Batches \cup {NoBatch}]
    /\ legacy \in [Fields -> Batches \cup {NoBatch}]
    /\ op \in [Clients -> OpType]
    /\ alone \subseteq Clients
    /\ crossed \subseteq Docs

Init ==
    /\ chunk = Empty
    /\ legacy = InitialLegacy
    /\ op = [c \in Clients |-> Idle]
    /\ alone = {}
    /\ crossed = {}

-----------------------------------------------------------------------------
NewFields(d, b) == {d} \X (0 .. ChunkCount[b] - 1)
\* Seeded fault: the pattern lost its document id.
ScannedEverything(d) == Fields
Scanned(d) == ScanHits[d] \X Idx

\* The documents a call deals with: those its scan may return fields of, and
\* all of them when it rewrites the hash.  A replacement only writes.
Touches(o) ==
    IF o.kind \in {"append", "delete"} THEN ScanHits[o.doc] \cup {o.doc}
    ELSE IF o.kind = "replace" THEN {o.doc}
    ELSE IF o.kind = "rewrite" THEN Docs ELSE {}

Met(c, mine) == {o \in Clients \ {c} : Touches(op[o]) \cap mine # {}}

\* From now on the call of c deals with the documents of mine.
Enter(c, mine, undisturbed) ==
    /\ alone' = IF Met(c, mine) = {} THEN undisturbed ELSE alone \ (Met(c, mine) \cup {c})
    /\ crossed' = crossed \cup {d \in mine : \E o \in Met(c, mine) : d \in Touches(op[o])}

Start(c, o) ==
    /\ op[c] = Idle
    /\ Serialise = "per_document" => \A x \in Clients : op[x].doc # o.doc
    /\ op' = [op EXCEPT ![c] = o]
    /\ Enter(c, Touches(o), alone \cup {c})
    /\ UNCHANGED <<chunk, legacy>>

StartAppend(c, d, b) == Start(c, Busy("append", d, b, Scanned(d)))
StartDelete(c, d) == Start(c, Busy("delete", d, NoBatch, Scanned(d)))
StartReplace(c, d, b) == Start(c, Busy("replace", d, b, {}))

\* Seeded fault: each round trip forgets what the ones before it returned.
ScanForgets(c, F) ==
    /\ op[c].kind \in {"append", "delete"}
    /\ F # {}
    /\ F \subseteq op[c].todo
    /\ op' = [op EXCEPT ![c].todo = @ \ F, ![c].found = {f \in F : chunk[f] # NoBatch}]
    /\ UNCHANGED <<chunk, legacy, alone, crossed>>

\* One HSCAN round trip: the cursor passes the fields F and returns those of
\* them that exist now.
Scan(c, F) ==
    /\ op[c].kind \in {"append", "delete"}
    /\ F # {}
    /\ F \subseteq op[c].todo
    /\ op' = [op EXCEPT ![c].todo = @ \ F,
                        ![c].found = @ \cup {f \in F : chunk[f] # NoBatch}]
    /\ UNCHANGED <<chunk, legacy, alone, crossed>>

Finish(c) ==
    /\ op' = [op EXCEPT ![c] = Idle]
    /\ alone' = alone \ {c}

\* What a call that ran alone has written nothing else has a part in.
Settle(c) == crossed' = IF c \in alone THEN crossed \ {op[c].doc} ELSE crossed

\* Seeded fault: HSET without the HDEL of the stale fields.
AppendKeepsTail(c) ==
    /\ op[c].kind = "append"
    /\ op[c].todo = {}
    /\ chunk' = [f \in Fields |-> IF f \in NewFields(op[c].doc, op[c].batch)
                                  THEN op[c].batch ELSE chunk[f]]
    /\ Finish(c)
    /\ Settle(c)
    /\ UNCHANGED legacy

\* MULTI { HDEL what the scan saw and the batch does not write; HSET batch }.
AppendExec(c) ==
    /\ op[c].kind = "append"
    /\ op[c].todo = {}
    /\ LET new == NewFields(op[c].doc, op[c].batch)
       IN  chunk' = [f \in Fields |-> IF f \in new THEN op[c].batch
                                      ELSE IF f \in op[c].found THEN NoBatch
                                      ELSE chunk[f]]
    /\ Finish(c)
    /\ Settle(c)
    /\ UNCHANGED legacy

DeleteExec(c) ==
    /\ op[c].kind = "delete"
    /\ op[c].todo = {}
    /\ op[c].found # {}
    /\ chunk' = [f \in Fields |-> IF f \in op[c].found THEN NoBatch ELSE chunk[f]]
    /\ Finish(c)
    /\ UNCHANGED <<legacy, crossed>>

Present(d) == {i \in Idx : chunk[<<d, i>>] # NoBatch \/ legacy[<<d, i>>] # NoBatch}

\* Seeded fault: the rewrite puts back only the fields in the new layout.
ImageDropsLegacy(d, old) == [f \in Fields |-> IF f[1] = d THEN NoBatch ELSE chunk[f]]

\* What the rewrite puts back: every entry not of d, under ck:<doc>:<i>.  A
\* document re-ingested over a legacy copy has two entries for one field name;
\* the order HGETALL returned them in decides, and `old` are those the legacy
\* entry wins.
Image(d, old) ==
    [f \in Fields |-> IF f[1] = d THEN NoBatch
                      ELSE IF legacy[f] # NoBatch /\ (chunk[f] = NoBatch \/ f \in old)
                      THEN legacy[f] ELSE chunk[f]]

\* The scan matched nothing: HGETALL; without entries of d the delete is over.
FallbackNone(c) ==
    /\ op[c].kind = "delete"
    /\ op[c].todo = {}
    /\ op[c].found = {}
    /\ Present(op[c].doc) = {}
    /\ Finish(c)
    /\ UNCHANGED <<chunk, legacy, crossed>>

FallbackRead(c, old) ==
    /\ op[c].kind = "delete"
    /\ op[c].todo = {}
    /\ op[c].found = {}
    /\ Present(op[c].doc) # {}
    /\ op' = [op EXCEPT ![c].kind = "rewrite", ![c].image = Image(op[c].doc, old)]
    /\ Enter(c, Docs, alone)
    /\ UNCHANGED <<chunk, legacy>>

\* MULTI { DEL hash; HSET what was kept }.
FallbackWrite(c) ==
    /\ op[c].kind = "rewrite"
    /\ chunk' = op[c].image
    /\ legacy' = Empty
    /\ Finish(c)
    /\ UNCHANGED crossed

\* Seeded fault: HSET without the DEL of the hash.
ReplaceKeepsRest(c) ==
    /\ op[c].kind = "replace"
    /\ chunk' = [f \in Fields |->
                    IF f \in NewFields(op[c].doc, op[c].batch) THEN op[c].batch ELSE chunk[f]]
    /\ legacy' = Empty
    /\ Finish(c)
    /\ Settle(c)

ReplaceExec(c) ==
    /\ op[c].kind = "replace"
    /\ chunk' = [f \in Fields |->
                    IF f \in NewFields(op[c].doc, op[c].batch) THEN op[c].batch ELSE NoBatch]
    /\ legacy' = Empty
    /\ Finish(c)
    /\ Settle(c)

\* A round trip raises or the process dies: nothing more of the call happens.
Fail(c) ==
    /\ op[c].kind # "idle"
    /\ Finish(c)
    /\ UNCHANGED <<chunk, legacy, crossed>>

Next ==
    \E c \in Clients :
        \/ \E d \in Docs, b \in Batches : StartAppend(c, d, b)
        \/ \E d \in Docs : StartDelete(c, d)
        \/ \E d \in Docs, b \in Batches : StartReplace(c, d, b)
        \/ \E F \in SUBSET op[c].todo : Scan(c, F)
        \/ AppendExec(c)
        \/ DeleteExec(c)
        \/ FallbackNone(c)
        \/ \E old \in SUBSET {f \in Fields : legacy[f] # NoBatch} : FallbackRead(c, old)
        \/ FallbackWrite(c)
        \/ ReplaceExec(c)
        \/ Fail(c)

Spec == Init /\ [][Next]_vars

-----------------------------------------------------------------------------
(***************************************************************************)
(* Properties.                                                             *)
(***************************************************************************)

Whole(d, ck) ==
    \/ \A i \in Idx : ck[<<d, i>>] = NoBatch
    \/ \E b \in Batches : \A i \in Idx : ck[<<d, i>>] = IF i < ChunkCount[b] THEN b ELSE NoBatch

\* A document in the new layout only, whose id its own scan pattern matches.
Regular(d) == d \notin OldLayout /\ d \in ScanHits[d]

\* Whatever calls overlap, every reader finds of a document no two calls met on
\* since it was last written by a call alone either nothing or exactly the
\* chunks of one ingest: no tail of an older batch behind a newer head, no gap.
NoTornDocument == \A d \in Docs \ crossed : Regular(d) => Whole(d, chunk)

\* The documents a call may take away: its own, those its pattern matches, and,
\* when another call has met its rewrite of the hash, those that call is about.
Reaches(c, d) ==
    \/ op[c].kind = "replace"
    \/ op[c].kind \in {"append", "delete"} /\ d \in ScanHits[op[c].doc]
    \/ op[c].kind = "rewrite" /\ (op[c].doc = d \/ (c \notin alone /\ d \in crossed))

Moves(c) == op[c].kind # "idle" /\ op'[c] # op[c]

\* Whatever calls overlap, a call changes no chunk of another document out of
\* its reach, except that a rewrite may bring back its pre-Wave-4 copy.
OthersUntouched ==
    [][\A c \in Clients : \A d \in Docs : Moves(c) /\ ~Reaches(c, d) /\ op[c].doc # d =>
          \A i \in Idx : chunk[<<d, i>>] # NoBatch =>
              \/ chunk'[<<d, i>>] = chunk[<<d, i>>]
              \/ /\ op[c].kind = "rewrite" /\ legacy[<<d, i>>] # NoBatch
                 /\ chunk'[<<d, i>>] = legacy[<<d, i>>]]_vars

\* Whatever calls overlap, a document leaves the listing only within the reach of
\* a call, and never by its own ingest, also while part of the hash is still in
\* the pre-Wave-4 layout.
NoDocumentVanishes ==
    [][\A d \in Docs : Present(d) # {} /\ Present(d)' = {} =>
          \E c \in Clients : /\ Moves(c)
                             /\ Reaches(c, d)
                             /\ op[c].kind \in {"append", "replace"} => op[c].doc # d]_vars

(***************************************************************************)
(* Why they hold.                                                          *)
(***************************************************************************)
\* No other call has come near document d since call c began.
Undisturbed(c, d) == c \in alone \/ d \notin crossed

\* A scan in progress has seen, or will still visit, every field there is of the
\* documents it matches, those another call came near apart.
ScanCovers ==
    \A c \in Clients : op[c].kind \in {"append", "delete"} =>
        \A d \in ScanHits[op[c].doc], i \in Idx :
            Undisturbed(c, d) /\ chunk[<<d, i>>] # NoBatch =>
                <<d, i>> \in op[c].todo \cup op[c].found

\* What the fallback is about to write back has, for every field there is, one of
\* its entries, and documents that are whole.
ImagesAreTrue ==
    \A c \in Clients : op[c].kind = "rewrite" => \A d \in Docs :
        /\ d = op[c].doc => \A i \in Idx : op[c].image[<<d, i>>] = NoBatch
        /\ d # op[c].doc /\ Undisturbed(c, d) => \A i \in Idx :
              /\ legacy[<<d, i>>] # NoBatch => op[c].image[<<d, i>>] # NoBatch
              /\ chunk[<<d, i>>] # NoBatch =>
                    op[c].image[<<d, i>>] \in {chunk[<<d, i>>], legacy[<<d, i>>]} \ {NoBatch}
        /\ d \notin crossed /\ Regular(d) => Whole(d, op[c].image)

\* What a call in flight remembers is within its pattern, and an idle client
\* remembers nothing.
CallsAreShaped ==
    \A c \in Clients :
        /\ op[c].kind = "idle" => op[c] = Idle /\ c \notin alone
        /\ op[c].kind # "idle" =>
              /\ op[c].doc \in Docs
              /\ op[c].todo \cup op[c].found \subseteq Scanned(op[c].doc)
        /\ op[c].kind \in {"append", "replace"} => op[c].batch \in Batches
        /\ op[c].kind = "delete" => op[c].batch = NoBatch

\* Calls that deal with one document are not alone, and it counts as crossed.
MeetingsAreKnown ==
    \A c, o \in Clients : c # o =>
        /\ Touches(op[c]) \cap Touches(op[o]) \subseteq crossed
        /\ c \in alone => Touches(op[c]) \cap Touches(op[o]) = {}

LegacyIsOld == \A d \in Docs, i \in Idx : legacy[<<d, i>>] # NoBatch => d \in OldLayout

\* The inductive invariant behind the properties above.
StoreInv ==
    /\ TypeOK
    /\ NoTornDocument
    /\ ScanCovers
    /\ ImagesAreTrue
    /\ CallsAreShaped
    /\ MeetingsAreKnown
    /\ LegacyIsOld

\* When a re-ingest commits, the document's entries are exactly the new batch.
ReingestReplaces ==
    [][\A c \in Clients : AppendExec(c) =>
          \A i \in Idx : /\ legacy'[<<op[c].doc, i>>] = NoBatch
                         /\ chunk'[<<op[c].doc, i>>] =
                                IF i < ChunkCount[op[c].batch] THEN op[c].batch ELSE NoBatch]_vars

-----------------------------------------------------------------------------
(***************************************************************************)
(* The abstract store: a document reads as its batch when it is whole, as  *)
(* nothing when it has no field, and as Torn, which no KnowledgeBase step  *)
(* produces, otherwise.                                                    *)
(***************************************************************************)
Torn == "torn"

Holds(d, b) ==
    \A i \in Idx : chunk[<<d, i>>] = IF i < ChunkCount[b] THEN b ELSE NoBatch

AbstractKb ==
    [d \in Docs |-> IF \A i \in Idx : chunk[<<d, i>>] = NoBatch THEN NoBatch
                    ELSE IF chunk[<<d, 0>>] \in Batches /\ Holds(d, chunk[<<d, 0>>])
                    THEN chunk[<<d, 0>>] ELSE Torn]

AbstractPending ==
    [c \in Clients |-> IF op[c].kind = "idle" THEN [kind |-> "none"]
                       ELSE [kind |-> op[c].kind, doc |-> op[c].doc, batch |-> op[c].batch]]

KB == INSTANCE KnowledgeBase WITH kb <- AbstractKb, pending <- AbstractPending

\* Appends, deletes and replacements of the Redis hash behave as single atomic
\* operations on a map from documents to batches.
ImplementsKnowledgeBase == KB!Spec
=============================================================================
