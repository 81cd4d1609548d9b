--------------------------- MODULE IngestService ---------------------------
(***************************************************************************)
(* The write side of the system: POST and DELETE /v1/documents of the      *)
(* ingest service (sorakai/ingest/app.py) over its three stores,           *)
(*   kb      the KnowledgeStore: what GET /v1/documents lists.  A call of  *)
(*           it is one step, as RedisKnowledgeStore shows for calls that   *)
(*           meet none on their document, but for a delete that rewrites   *)
(*           the hash; of documents on which calls meet nothing is said;   *)
(*   points  the Qdrant collection that queries search, with its dim; not  *)
(*           used when VECTOR_STORE=redis, where the vector store is the   *)
(*           same Redis hash as kb;                                        *)
(*   meta    the identity of the embedding model the KB was built with.    *)
(* A request is one step per round trip to a store, and any other requests *)
(* of this or of another process run between any two of them.              *)
(***************************************************************************)
EXTENDS Naturals, FiniteSets

CONSTANTS
    Docs,         \* documents, by ids that match their own fields only
    Batches, NoBatch, Clients,
    Processes,    \* processes of the ingest service
    ProcessOf,    \* ProcessOf[c]: the one that serves client c
    ChunkCount,   \* ChunkCount[b]: how many chunks batch b has
    Models,       \* identities (provider, model, dim) of embedding models
    NoModel,      \* no meta record
    ModelOf,      \* ModelOf[b]: the model that embedded batch b
    DimOf,        \* DimOf[m]: the size of its vectors
    SharedHash,   \* VECTOR_STORE=redis: the vector store is kb
    ProbeErrs,    \* Qdrant may answer collection_exists with an HTTP error
    Failable      \* the steps at which a request may be cut short

Phases == {"guard", "stamp", "list", "drop", "ensure", "create", "unpoint", "point",
           "hash", "kb", "meta_clear", "meta_write", "kb_delete", "vec_delete", "answer",
           "drop_rewrite", "kb_rewrite", "vec_rewrite"}

NoDim == 0
NoDoc == "none"
Unknown == "unknown"

ASSUME IngestAssumption ==
    /\ ChunkCount \in [Batches -> Nat \ {0}]
    /\ ModelOf \in [Batches -> Models]
    /\ DimOf \in [Models -> Nat \ {0}]
    /\ NoBatch \notin Batches
    /\ NoModel \notin Models
    /\ NoDoc \notin Docs
    /\ Unknown \notin Batches \cup {NoBatch}
    /\ SharedHash \in BOOLEAN
    /\ ProcessOf \in [Clients -> Processes]
    /\ ProbeErrs \in BOOLEAN
    /\ Failable \subseteq Phases

VARIABLES
    kb,      \* kb[d]: the batch stored for d, or NoBatch
    points,  \* points[d]: the batches that have points of d in the collection
    dim,     \* vector size of the collection, NoDim until it is created
    meta,    \* sorakai:kb:meta
    req,     \* req[c]: the request client c is waiting on
    ready,   \* processes whose vector store has _collection_ready set
    alone,   \* history: requests in flight that no rival has overlapped
    crossed, \* history: documents of rivals, until a request alone stores them
    acked    \* history: acked[d] is what the last answer about d promised, a
             \* batch or NoBatch; Unknown if nothing, or if a later request
             \* may have changed it

vars == <<kb, points, dim, meta, req, ready, alone, crossed, acked>>

Call == [kind : {"append", "replace"}, doc : Docs, batch : Batches]
          \cup [kind : {"delete"}, doc : Docs, batch : {NoBatch}]

NothingStored == [d \in Docs |-> NoBatch]

\* at: the next round trip; todo: documents replace_kb has still to drop from
\* the vector store; copy: what a delete is about to write over the whole kb;
\* missed (history): the vector store was taken to be empty, though the
\* collection was there.
Idle == [kind |-> "idle", doc |-> NoDoc, batch |-> NoBatch, at |-> "idle", todo |-> {},
         copy |-> NothingStored, missed |-> FALSE]

\* The first step of a call.
FirstStep == [append |-> "guard", replace |-> "list", delete |-> "kb_delete"]
Fresh(call) == [kind |-> call.kind, doc |-> call.doc, batch |-> call.batch,
                at |-> FirstStep[call.kind], todo |-> {}, copy |-> NothingStored,
                missed |-> FALSE]

ReqType ==
    [kind : {"append", "replace", "delete", "idle"},
     doc : Docs \cup {NoDoc}, batch : Batches \cup {NoBatch},
     at : Phases \cup {"idle"}, todo : SUBSET Docs,
     copy : [Docs -> Batches \cup {NoBatch}], missed : BOOLEAN]

TypeOK ==
    /\ kb \in [Docs -> Batches \cup {NoBatch}]
    /\ points \in [Docs -> SUBSET Batches]
    /\ dim \in {NoDim} \cup {DimOf[m] : m \in Models}
    /\ meta \in Models \cup {NoModel}
    /\ req \in [Clients -> ReqType]
    /\ ready \subseteq Processes
    /\ alone \subseteq Clients
    /\ crossed \subseteq Docs
    /\ acked \in [Docs -> Batches \cup {NoBatch, Unknown}]

Init ==
    /\ kb = NothingStored
    /\ points = [d \in Docs |-> {}]
    /\ dim = NoDim
    /\ meta = NoModel
    /\ req = [c \in Clients |-> Idle]
    /\ ready = {}
    /\ alone = {}
    /\ crossed = {}
    /\ acked = NothingStored

-----------------------------------------------------------------------------
At(c, phase) == req[c].at = phase
GoTo(c, phase) == req' = [req EXCEPT ![c].at = phase] /\ UNCHANGED alone
End(c) == req' = [req EXCEPT ![c] = Idle] /\ alone' = alone \ {c}

Rewriting(r) == r.at \in {"drop_rewrite", "kb_rewrite", "vec_rewrite"}

\* Rivals: requests that may disturb each other.  They are about the same
\* document, one replaces the whole KB or is about to rewrite it, or their
\* models differ.
Conflict(r, s) ==
    \/ r.doc = s.doc
    \/ "replace" \in {r.kind, s.kind}
    \/ Rewriting(r) \/ Rewriting(s)
    \/ "delete" \notin {r.kind, s.kind} /\ ModelOf[r.batch] # ModelOf[s.batch]

Rivals(c, new) == {o \in Clients \ {c} : req[o] # Idle /\ Conflict(req[o], new)}

\* The documents that rivals may leave in any state.
Mixed(r, s) == IF Rewriting(r) \/ Rewriting(s) THEN Docs ELSE {r.doc, s.doc}

UpsertStep == IF SharedHash THEN "hash" ELSE "ensure"

\* A request whose content is chunked and embedded (or a delete) arrives; the
\* embedding provider failing before this point touches no store.
Begin(c, call) ==
    /\ req[c] = Idle
    /\ req' = [req EXCEPT ![c] = Fresh(call)]
    /\ LET rivals == Rivals(c, Fresh(call))
       IN  /\ alone' = IF rivals = {} THEN alone \cup {c} ELSE alone \ rivals
           /\ crossed' = crossed \cup UNION {Mixed(req[o], Fresh(call)) : o \in rivals}
    /\ acked' = [d \in Docs |-> IF call.kind = "replace" \/ d = call.doc
                                THEN Unknown ELSE acked[d]]
    /\ UNCHANGED <<kb, points, dim, meta, ready>>

\* Seeded fault: an existing record is accepted without comparing it.
GuardTrusts(c) ==
    /\ At(c, "guard")
    /\ GoTo(c, IF meta = NoModel THEN "stamp" ELSE UpsertStep)
    /\ UNCHANGED <<kb, points, dim, meta, ready, crossed, acked>>

\* ensure_compatible: HGETALL of the meta record, then a write if it is absent.
Guard(c) ==
    /\ At(c, "guard")
    /\ meta \in {NoModel, ModelOf[req[c].batch]}
    /\ GoTo(c, IF meta = NoModel THEN "stamp" ELSE UpsertStep)
    /\ UNCHANGED <<kb, points, dim, meta, ready, crossed, acked>>

GuardRefuses(c) ==   \* 409
    /\ At(c, "guard")
    /\ meta \notin {NoModel, ModelOf[req[c].batch]}
    /\ End(c)
    /\ UNCHANGED <<kb, points, dim, meta, ready, crossed, acked>>

Stamp(c) ==
    /\ At(c, "stamp")
    /\ meta' = ModelOf[req[c].batch]
    /\ GoTo(c, UpsertStep)
    /\ UNCHANGED <<kb, points, dim, ready, crossed, acked>>

\* _collection_exists: a process that has found the collection looks no more;
\* one that has not takes an HTTP error of Qdrant (UnexpectedResponse) for "no
\* collection".  A connection that fails raises: that is Fail.
CollectionExists(known, found) ==
    \/ found /\ (SharedHash \/ dim # NoDim)
    \/ ~found /\ ~SharedHash /\ ~known /\ (dim = NoDim \/ ProbeErrs)

\* Seeded fault: the flag is set whatever the answer.
RememberAnyway(c, found) ==
    ready' = IF ~SharedHash THEN ready \cup {ProcessOf[c]} ELSE ready

Remember(c, found) ==
    ready' = IF found /\ ~SharedHash THEN ready \cup {ProcessOf[c]} ELSE ready

\* _replace_vector_store_with_document: list_docs, then delete_doc of each.
Searchable(d) == IF SharedHash THEN {kb[d]} \ {NoBatch} ELSE points[d]

DropVectors(d) ==
    IF SharedHash THEN kb' = [kb EXCEPT ![d] = NoBatch] /\ UNCHANGED points
                  ELSE points' = [points EXCEPT ![d] = {}] /\ UNCHANGED kb

\* Seeded fault: the documents to drop are read from the KnowledgeStore.
ListFromKb(c) ==
    /\ At(c, "list")
    /\ req' = [req EXCEPT ![c].at = "drop", ![c].todo = {d \in Docs : kb[d] # NoBatch}]
    /\ UNCHANGED <<kb, points, dim, meta, ready, alone, crossed, acked>>

ListVectors(c) ==
    /\ At(c, "list")
    /\ \E found \in BOOLEAN :
           /\ CollectionExists(ProcessOf[c] \in ready, found)
           /\ Remember(c, found)
           /\ req' = [req EXCEPT ![c].at = "drop",
                                 ![c].todo = {d \in Docs : found /\ Searchable(d) # {}},
                                 ![c].missed = ~found /\ dim # NoDim]
    /\ UNCHANGED <<kb, points, dim, meta, alone, crossed, acked>>

\* Seeded fault: the loop never advances.
DropAgain(c, d) ==
    /\ At(c, "drop")
    /\ d \in req[c].todo
    /\ DropVectors(d)
    /\ UNCHANGED <<req, dim, meta, ready, alone, crossed, acked>>

\* list_docs named a document, so this process has found the collection.
DropListed(c, d) ==
    /\ At(c, "drop")
    /\ d \in req[c].todo
    /\ DropVectors(d)
    /\ req' = [req EXCEPT ![c].todo = @ \ {d}]
    /\ UNCHANGED <<dim, meta, ready, alone, crossed, acked>>

DropDone(c) ==
    /\ At(c, "drop")
    /\ req[c].todo = {}
    /\ GoTo(c, UpsertStep)
    /\ UNCHANGED <<kb, points, dim, meta, ready, crossed, acked>>

\* QdrantVectorStore.upsert: look for the collection, create it if it was not
\* there, delete the document's points, put the new ones.
EnsureCollection(c) ==
    /\ At(c, "ensure")
    /\ \E found \in BOOLEAN :
           /\ CollectionExists(ProcessOf[c] \in ready, found)
           /\ Remember(c, found)
           /\ GoTo(c, IF found THEN "unpoint" ELSE "create")
    /\ UNCHANGED <<kb, points, dim, meta, crossed, acked>>

CreateCollection(c) ==
    /\ At(c, "create")
    /\ dim = NoDim
    /\ dim' = DimOf[ModelOf[req[c].batch]]
    /\ Remember(c, TRUE)
    /\ GoTo(c, "unpoint")
    /\ UNCHANGED <<kb, points, meta, crossed, acked>>

CreateRefused(c) ==   \* it was there, or another request created it: 500
    /\ At(c, "create")
    /\ dim # NoDim
    /\ End(c)
    /\ UNCHANGED <<kb, points, dim, meta, ready, crossed, acked>>

\* Seeded fault: the new points are trusted to overwrite the old ones.
KeepPoints(c) ==
    /\ At(c, "unpoint")
    /\ GoTo(c, "point")
    /\ UNCHANGED <<kb, points, dim, meta, ready, crossed, acked>>

DeletePoints(c) ==
    /\ At(c, "unpoint")
    /\ points' = [points EXCEPT ![req[c].doc] = {}]
    /\ GoTo(c, "point")
    /\ UNCHANGED <<kb, dim, meta, ready, crossed, acked>>

\* A point's id is made of its document and index, so a batch put over a longer
\* one leaves the longer one's tail.
PutPoints(c) ==
    /\ At(c, "point")
    /\ dim = DimOf[ModelOf[req[c].batch]]
    /\ points' = [points EXCEPT ![req[c].doc] =
                     {b \in @ : ChunkCount[b] > ChunkCount[req[c].batch]} \cup {req[c].batch}]
    /\ GoTo(c, "kb")
    /\ UNCHANGED <<kb, dim, meta, ready, crossed, acked>>

PutRefused(c) ==   \* vectors of another size than the collection's: 500
    /\ At(c, "point")
    /\ dim # DimOf[ModelOf[req[c].batch]]
    /\ End(c)
    /\ UNCHANGED <<kb, points, dim, meta, ready, crossed, acked>>

\* KnowledgeStoreVectorStore.upsert: an append_document to the same hash.
UpsertHash(c) ==
    /\ At(c, "hash")
    /\ kb' = [kb EXCEPT ![req[c].doc] = req[c].batch]
    /\ GoTo(c, "kb")
    /\ UNCHANGED <<points, dim, meta, ready, crossed, acked>>

\* What rivals left of the document is gone once a request alone has stored it.
Stored(c) == crossed' = IF c \in alone THEN crossed \ {req[c].doc} ELSE crossed

\* append_document, the end of an append's work.
AppendKb(c) ==
    /\ At(c, "kb")
    /\ req[c].kind = "append"
    /\ kb' = [kb EXCEPT ![req[c].doc] = req[c].batch]
    /\ Stored(c)
    /\ GoTo(c, "answer")
    /\ UNCHANGED <<points, dim, meta, ready, acked>>

\* replace_kb_with_document, then KBMetaStore.reset_to.
ReplaceKb(c) ==
    /\ At(c, "kb")
    /\ req[c].kind = "replace"
    /\ kb' = [d \in Docs |-> IF d = req[c].doc THEN req[c].batch ELSE NoBatch]
    /\ Stored(c)
    /\ GoTo(c, "meta_clear")
    /\ UNCHANGED <<points, dim, meta, ready, acked>>

ClearMeta(c) ==
    /\ At(c, "meta_clear")
    /\ meta' = NoModel
    /\ GoTo(c, "meta_write")
    /\ UNCHANGED <<kb, points, dim, ready, crossed, acked>>

\* Seeded fault: reset_to clears the record and does not write the new one.
ForgetMeta(c) ==
    /\ At(c, "meta_write")
    /\ GoTo(c, "answer")
    /\ UNCHANGED <<kb, points, dim, meta, ready, crossed, acked>>

WriteMeta(c) ==
    /\ At(c, "meta_write")
    /\ meta' = ModelOf[req[c].batch]
    /\ GoTo(c, "answer")
    /\ UNCHANGED <<kb, points, dim, ready, crossed, acked>>

\* DELETE: the KnowledgeStore first; the vector store only if it had chunks.
DeleteKb(c) ==
    /\ At(c, "kb_delete")
    /\ kb[req[c].doc] # NoBatch
    /\ kb' = [kb EXCEPT ![req[c].doc] = NoBatch]
    /\ GoTo(c, "vec_delete")
    /\ UNCHANGED <<points, dim, meta, ready, crossed, acked>>

DeleteUnknown(c) ==   \* 404
    /\ At(c, "kb_delete")
    /\ kb[req[c].doc] = NoBatch
    /\ End(c)
    /\ UNCHANGED <<kb, points, dim, meta, ready, crossed, acked>>

DeleteVectors(c) ==
    /\ At(c, "vec_delete")
    /\ \E found \in BOOLEAN :
           /\ CollectionExists(ProcessOf[c] \in ready, found)
           /\ Remember(c, found)
           /\ IF found THEN DropVectors(req[c].doc) ELSE UNCHANGED <<kb, points>>
           /\ req' = [req EXCEPT ![c].at = "answer", ![c].missed = ~found /\ dim # NoDim]
    /\ UNCHANGED <<dim, meta, alone, crossed, acked>>

\* delete_document when the scan shows nothing of the document and then a rival
\* stores it: HGETALL, without the document, ...
Rewritten == [drop |-> "drop_rewrite", kb_delete |-> "kb_rewrite", vec_delete |-> "vec_rewrite"]

CopyKb(c, d) ==
    /\ At(c, "kb_delete") \/ (SharedHash /\ (At(c, "vec_delete") \/ At(c, "drop")))
    /\ d \in IF At(c, "drop") THEN req[c].todo ELSE {req[c].doc}
    /\ c \notin alone
    /\ kb[d] # NoBatch
    /\ req' = [req EXCEPT ![c].at = Rewritten[req[c].at], ![c].todo = @ \ {d},
                          ![c].copy = [kb EXCEPT ![d] = NoBatch]]
    /\ LET rivals == {o \in Clients \ {c} : req[o] # Idle}
       IN  /\ alone' = alone \ rivals
           /\ crossed' = IF rivals = {} THEN crossed ELSE Docs
    /\ UNCHANGED <<kb, points, dim, meta, ready, acked>>

\* ... and MULTI { DEL hash; HSET what was kept }: what was stored meanwhile is
\* undone.
AfterRewrite == [drop_rewrite |-> "drop", kb_rewrite |-> "vec_delete", vec_rewrite |-> "answer"]

RewriteKb(c) ==
    /\ Rewriting(req[c])
    /\ kb' = req[c].copy
    /\ req' = [req EXCEPT ![c].at = AfterRewrite[req[c].at], ![c].copy = NothingStored]
    /\ UNCHANGED <<points, dim, meta, ready, alone, crossed, acked>>

Rewrite(c) == (\E d \in Docs : CopyKb(c, d)) \/ RewriteKb(c)

\* 201 or 200.  It is a promise if no rival overlapped the request; that old
\* documents are gone is one if the vector store was not taken to be empty.
Promise(r, d) ==
    IF d = r.doc /\ r.kind # "delete" THEN r.batch
    ELSE IF (d = r.doc \/ r.kind = "replace") /\ ~r.missed THEN NoBatch
    ELSE acked[d]

Answer(c) ==
    /\ At(c, "answer")
    /\ acked' = IF c \in alone THEN [d \in Docs |-> Promise(req[c], d)] ELSE acked
    /\ End(c)
    /\ UNCHANGED <<kb, points, dim, meta, ready, crossed>>

\* A store raises, or the connection to it fails: nothing more of the request
\* happens.
Fail(c) ==
    /\ req[c].at \in Failable
    /\ End(c)
    /\ UNCHANGED <<kb, points, dim, meta, ready, crossed, acked>>

\* A process dies with all its requests; the next one has found no collection.
Crash(p) ==
    LET lost == {c \in Clients : ProcessOf[c] = p /\ req[c] # Idle}
    IN  /\ p \in ready \/ lost # {}
        /\ \A c \in lost : req[c].at \in Failable
        /\ req' = [c \in Clients |-> IF c \in lost THEN Idle ELSE req[c]]
        /\ ready' = ready \ {p}
        /\ alone' = alone \ lost
        /\ UNCHANGED <<kb, points, dim, meta, crossed, acked>>

Step(c) ==
    \/ Guard(c) \/ GuardRefuses(c) \/ Stamp(c)
    \/ ListVectors(c) \/ (\E d \in Docs : DropListed(c, d)) \/ DropDone(c)
    \/ EnsureCollection(c) \/ CreateCollection(c) \/ CreateRefused(c)
    \/ DeletePoints(c) \/ PutPoints(c) \/ PutRefused(c)
    \/ UpsertHash(c)
    \/ AppendKb(c)
    \/ ReplaceKb(c) \/ ClearMeta(c) \/ WriteMeta(c)
    \/ DeleteKb(c) \/ DeleteUnknown(c) \/ DeleteVectors(c)
    \/ Answer(c)

Next ==
    \/ \E c \in Clients : (\E call \in Call : Begin(c, call)) \/ Step(c) \/ Rewrite(c) \/ Fail(c)
    \/ \E p \in Processes : Crash(p)

Spec == Init /\ [][Next]_vars

\* The event loop runs every ready coroutine, and every store answers or fails.
FairSpec == Spec /\ \A c \in Clients : WF_vars(Step(c) \/ Rewrite(c))

-----------------------------------------------------------------------------
(***************************************************************************)
(* Properties.                                                             *)
(***************************************************************************)

\* What a 201 or 200 promised stays true until another request about the
\* document begins, wherever other requests failed, crashed or disturbed each
\* other: the batch is listed, exactly it is searchable, and meta names its
\* model; a deleted document, and every other document after a replacement, is
\* gone from both stores.
AnswersHold ==
    \A d \in Docs :
        /\ acked[d] \in Batches => /\ kb[d] = acked[d]
                                   /\ Searchable(d) = {acked[d]}
                                   /\ meta = ModelOf[acked[d]]
        /\ acked[d] = NoBatch => kb[d] = NoBatch /\ Searchable(d) = {}

\* Every stored document that rivals did not leave behind was embedded with the
\* model meta names, except while a replacement has its chunks in place and its
\* meta not yet.
MetaDescribesKb ==
    \/ \A d \in Docs \ crossed : kb[d] # NoBatch => ModelOf[kb[d]] = meta
    \/ \E c \in Clients : req[c].at \in {"meta_clear", "meta_write"}

\* A document's points are those of one upload, rivals' documents aside.
OneUpload == \A d \in Docs \ crossed : \A b, e \in points[d] : b = e

\* Every request is answered or fails; none waits for another.
EveryRequestEnds == \A c \in Clients : req[c] # Idle ~> req[c] = Idle

(***************************************************************************)
(* Where the code departs from what a reader may expect of it: no run has  *)
(* these as its properties, README.md says how each one fails.             *)
(***************************************************************************)

\* No query ranks vectors of two models against each other.
SingleModel ==
    \A d, e \in Docs : kb[d] # NoBatch /\ kb[e] # NoBatch => ModelOf[kb[d]] = ModelOf[kb[e]]

\* The collection takes the vectors of a replacement that has emptied it.
ReplacementFits ==
    \A c \in Clients : req[c].kind = "replace" /\ At(c, "point") =>
        dim = DimOf[ModelOf[req[c].batch]]

\* A DELETE answered 404 leaves nothing of the document to search.
NotFoundIsGone ==
    [][\A c \in Clients, d \in Docs :
          DeleteUnknown(c) /\ req[c].doc = d => Searchable(d) = {}]_vars

\* A DELETE answered 200 with no rival leaves nothing of the document to search.
DeletedIsGone ==
    [][\A c \in alone : Answer(c) /\ req[c].kind = "delete" => Searchable(req[c].doc) = {}]_vars

\* A replacement answered 201 with no rival leaves only its document to search.
ReplacedIsGone ==
    [][\A c \in alone : Answer(c) /\ req[c].kind = "replace" =>
          \A d \in Docs \ {req[c].doc} : Searchable(d) = {}]_vars

(***************************************************************************)
(* Why AnswersHold is kept, however requests overlap.                      *)
(***************************************************************************)

Upsert == IF SharedHash THEN {"hash"} ELSE {"ensure", "create", "unpoint", "point"}

PhasesOf == [append  |-> {"guard", "stamp", "kb", "answer"} \cup Upsert,
             replace |-> {"list", "drop", "kb", "meta_clear", "meta_write", "answer"} \cup Upsert,
             delete  |-> {"kb_delete", "vec_delete", "answer"}]

RewritesOf == [append  |-> {},
               replace |-> {"drop_rewrite"},
               delete  |-> {"kb_rewrite", "vec_rewrite"}]

\* A request is Idle or a call at one of the phases of its kind; only a drop
\* has documents to do; a shared hash is never missed.
Shaped(r) ==
    \/ r = Idle
    \/ /\ [kind |-> r.kind, doc |-> r.doc, batch |-> r.batch] \in Call
       /\ r.at \in PhasesOf[r.kind] \cup RewritesOf[r.kind]
       /\ r.todo # {} => r.at \in {"drop", "drop_rewrite"}
       /\ r.missed => ~SharedHash

\* Nothing is promised about a document while a request may change it, and a
\* request about to stamp has the model of everything promised.
Unpromised(r) ==
    \A d \in Docs :
        /\ r # Idle /\ (r.kind = "replace" \/ d = r.doc) => acked[d] = Unknown
        /\ r.at = "stamp" /\ acked[d] \in Batches => ModelOf[acked[d]] = ModelOf[r.batch]

\* A request is alone when no rival is in flight, and rivals' documents are
\* crossed.
Counted(c) ==
    /\ req[c] = Idle \/ Rewriting(req[c]) => c \notin alone
    /\ req[c] # Idle => c \in alone \/ req[c].doc \in crossed
    /\ c \in alone => \A o \in Clients \ {c} : req[o] # Idle => ~Conflict(req[o], req[c])

\* What a delete is about to write back is still so, of what is promised, and of
\* documents that rivals left alone it has no other batch.
CopyIsTrue(c) ==
    Rewriting(req[c]) =>
        /\ (\E o \in Clients \ {c} : req[o] # Idle) => crossed = Docs
        /\ \A d \in Docs : /\ acked[d] # Unknown => req[c].copy[d] = kb[d]
                           /\ d \notin crossed => req[c].copy[d] \in {kb[d], NoBatch}

\* A process that has found the collection is right, one hash needs none, and
\* nothing is in a collection that is not there.
Collected ==
    /\ ready # {} => dim # NoDim
    /\ SharedHash => dim = NoDim
    /\ dim = NoDim => \A d \in Docs : points[d] = {}

\* What a request that is alone finds done at each phase, whatever ran in
\* between.
AppendDone(r) ==
    /\ r.at = "stamp" => meta \in {NoModel, ModelOf[r.batch]}
    /\ r.at \notin {"guard", "stamp"} => meta = ModelOf[r.batch]
    /\ r.at = "point" => points[r.doc] = {}
    /\ r.at = "kb" /\ ~SharedHash => points[r.doc] = {r.batch}
    /\ r.at = "answer" => kb[r.doc] = r.batch /\ Searchable(r.doc) = {r.batch}

ReplaceDone(r) ==
    /\ r.at = "drop" /\ ~r.missed => \A d \in Docs : Searchable(d) # {} => d \in r.todo
    /\ r.at \in Upsert /\ ~r.missed => \A d \in Docs : Searchable(d) = {}
    /\ r.at = "point" => points[r.doc] = {}
    /\ r.at = "kb" /\ ~SharedHash =>
          /\ points[r.doc] = {r.batch}
          /\ ~r.missed => \A d \in Docs \ {r.doc} : points[d] = {}
    /\ r.at \in {"meta_clear", "meta_write", "answer"} =>
          /\ \A d \in Docs : kb[d] = IF d = r.doc THEN r.batch ELSE NoBatch
          /\ Searchable(r.doc) = {r.batch}
          /\ ~r.missed => \A d \in Docs \ {r.doc} : Searchable(d) = {}
    /\ r.at = "answer" => meta = ModelOf[r.batch]

DeleteDone(r) ==
    /\ r.at \in {"vec_delete", "answer"} => kb[r.doc] = NoBatch
    /\ r.at = "answer" /\ ~r.missed => Searchable(r.doc) = {}

WorkDone(r) ==
    /\ r.kind = "append" => AppendDone(r)
    /\ r.kind = "replace" => ReplaceDone(r)
    /\ r.kind = "delete" => DeleteDone(r)

\* The inductive invariant behind AnswersHold and OneUpload.
IngestInv ==
    /\ TypeOK
    /\ Collected
    /\ \A c \in Clients : /\ Shaped(req[c]) /\ Unpromised(req[c]) /\ Counted(c) /\ CopyIsTrue(c)
                          /\ c \in alone => WorkDone(req[c])
    /\ AnswersHold
    /\ OneUpload

(***************************************************************************)
(* Why every request ends: the order of the handler's round trips.         *)
(***************************************************************************)

\* No more than this many round trips are left to a request, drops aside.
LeftAt == [guard |-> 10, stamp |-> 9, ensure |-> 8, create |-> 7, unpoint |-> 6,
           point |-> 5, hash |-> 5, kb |-> 4, meta_clear |-> 3, meta_write |-> 2,
           kb_delete |-> 5, kb_rewrite |-> 4, vec_delete |-> 3, vec_rewrite |-> 2,
           answer |-> 1, idle |-> 0]

\* A replacement has two more for each document it has still to drop, which
\* are at most all of them.
StepsLeft(r) ==
    IF r.at = "list" THEN 11 + 2 * Cardinality(Docs)
    ELSE IF r.at = "drop" THEN 10 + 2 * Cardinality(r.todo)
    ELSE IF r.at = "drop_rewrite" THEN 11 + 2 * Cardinality(r.todo)
    ELSE LeftAt[r.at]

\* Every step of a request brings it nearer to its end, however many requests
\* overlap, and no other request's step sends it back.
EveryStepIsNearer ==
    [][\A c \in Clients :
          /\ Step(c) \/ Rewrite(c) \/ Fail(c) =>
                StepsLeft(req'[c]) \in Nat /\ StepsLeft(req'[c]) < StepsLeft(req[c])
          /\ req[c] # Idle => StepsLeft(req'[c]) <= StepsLeft(req[c])]_vars
=============================================================================
