----------------------------- MODULE RagService -----------------------------
(***************************************************************************)
(* The read side over the write side: questions to the rag service         *)
(* (sorakai/rag/app.py, sorakai/chains/) while IngestService changes the   *)
(* stores they read.  A question reads meta, the listing, perhaps the      *)
(* whole corpus for the lexical index, and the vector store, one after the *)
(* other, and requests to the ingest service run in between.  The index and *)
(* what it knows of the collection are the only state of the service that  *)
(* outlives a question.                                                    *)
(***************************************************************************)
EXTENDS IngestService, HybridFusion

CONSTANTS
    Askers,    \* clients of the rag service, each with a question at a time
    RagModel,  \* the embedding model rag is configured with
    Hybrid     \* hybrid_retriever_enabled

Questions == {"query", "query_stream", "agent", "agent_stream"}
Guarded == {"query", "agent"}
Chain == {"query", "query_stream"}

ASSUME RagAssumption == RagModel \in Models /\ Hybrid \in BOOLEAN

VARIABLES
    index,    \* HybridRetriever.initialized and corpus_docs
    ragReady, \* _collection_ready of the rag process
    ask,      \* ask[r]: the question asker r waits on
    swapped   \* history: a replacement or a request that rivals overlapped is
              \* in flight, or was since a replacement alone was last answered

ragVars == <<vars, index, ragReady, ask, swapped>>

Chunk == [doc : Docs, batch : Batches, index : Nat \ {0}]

\* hits: the vector ranking; corpus: the snapshot an index is built from;
\* context: the chunks the answer is made from.  settled and guarded (history):
\* the documents no request could have changed since the question arrived, and
\* whether the dimension guard found a record to compare with and nothing was
\* swapped since.  missed (history): the vector store was last taken to be
\* empty, though the collection was there.
Silent == [at |-> "idle", endpoint |-> "query", corpus |-> {}, hits |-> <<>>,
           context |-> {}, settled |-> {}, guarded |-> FALSE, missed |-> FALSE]

AskType ==
    [at : {"idle", "guard", "list", "snapshot", "build", "search", "fuse", "llm"},
     endpoint : Questions, corpus : SUBSET Chunk, hits : Seq(Chunk),
     context : SUBSET Chunk, settled : SUBSET Docs, guarded : BOOLEAN,
     missed : BOOLEAN]

RagTypeOK ==
    /\ TypeOK
    /\ index \in [initialized : BOOLEAN, corpus : SUBSET Chunk]
    /\ ragReady \in BOOLEAN
    /\ ask \in [Askers -> AskType]
    /\ swapped \in BOOLEAN

NoIndex == [initialized |-> FALSE, corpus |-> {}]

RagInit ==
    /\ Init
    /\ index = NoIndex
    /\ ragReady = FALSE
    /\ ask = [r \in Askers |-> Silent]
    /\ swapped = FALSE

-----------------------------------------------------------------------------
Settled == {d \in Docs : acked[d] # Unknown}

\* Requests that may leave chunks of two models, or of no record.
Disturbed ==
    \E c \in Clients : req[c] # Idle /\ (req[c].kind = "replace" \/ c \notin alone)

Mended == \E c \in alone : Answer(c) /\ req[c].kind = "replace" /\ ~req[c].missed

\* A step of the write side, as the questions in flight see it.
Write ==
    /\ Next
    /\ swapped' = (Disturbed' \/ (swapped /\ ~Mended))
    /\ ask' = [r \in Askers |-> [ask[r] EXCEPT !.settled = @ \cap Settled',
                                               !.guarded = @ /\ ~swapped']]
    /\ UNCHANGED <<index, ragReady>>

ChunksOf(d, b) == {[doc |-> d, batch |-> b, index |-> i] : i \in 1..ChunkCount[b]}

\* The chunks in the vector store.  A batch put over a longer one hides its
\* head.
StoredChunks ==
    {e \in UNION {ChunksOf(d, b) : d \in Docs, b \in Batches} :
        /\ e.batch \in Searchable(e.doc)
        /\ \A b \in Searchable(e.doc) :
              ChunkCount[b] < ChunkCount[e.batch] => e.index > ChunkCount[b]}

\* Any n chunks of S in any order: similarities are not modelled.
Rankings(S, n) == {s \in [1..n -> S] : \A i, j \in 1..n : s[i] = s[j] => i = j}

Smaller(m, n) == IF m < n THEN m ELSE n
Larger(m, n) == IF m < n THEN n ELSE m

\* What the vector store may return for a question: top_k hits, or all.
Nearest == Rankings(StoredChunks, Smaller(TopK, Cardinality(StoredChunks)))

AskAt(r, place) == ask[r].at = place
Proceed(r, place) == ask' = [ask EXCEPT ![r].at = place]

\* A valid question arrives.  The agent's stream checks nothing, the chain's
\* only the listing.
Ask(r, endpoint) ==
    /\ AskAt(r, "idle")
    /\ ask' = [ask EXCEPT ![r] =
           [Silent EXCEPT !.at = IF endpoint \in Guarded THEN "guard"
                                 ELSE IF endpoint \in Chain THEN "list" ELSE "search",
                          !.endpoint = endpoint, !.settled = Settled,
                          !.guarded = ~swapped /\ endpoint \in Guarded]]
    /\ UNCHANGED <<vars, index, ragReady, swapped>>

\* The question is answered, refused or fails.
Quit(r) == ask' = [ask EXCEPT ![r] = Silent]

\* The dimension guard: 409, but no record passes.
CheckModel(r) ==
    /\ AskAt(r, "guard")
    /\ IF meta \in {NoModel, RagModel}
       THEN ask' = [ask EXCEPT ![r].at = "list", ![r].guarded = @ /\ meta = RagModel]
       ELSE Quit(r)
    /\ UNCHANGED <<vars, index, ragReady, swapped>>

FirstRead == IF Hybrid /\ ~index.initialized THEN "snapshot" ELSE "search"

\* Seeded fault: the chain runs over an empty listing.
ListingIgnored(r) ==
    /\ AskAt(r, "list")
    /\ Proceed(r, IF ask[r].endpoint \in Chain THEN FirstRead ELSE "search")
    /\ UNCHANGED <<vars, index, ragReady, swapped>>

\* list_documents.  An empty listing is a 404 for the chain and is nothing to
\* the agent.
CheckListing(r) ==
    /\ AskAt(r, "list")
    /\ IF ask[r].endpoint \notin Chain THEN Proceed(r, "search")
       ELSE IF \A d \in Docs : kb[d] = NoBatch THEN Quit(r)
       ELSE Proceed(r, FirstRead)
    /\ UNCHANGED <<vars, index, ragReady, swapped>>

\* The agent's route node: small talk searches nothing.
SmallTalk(r) ==
    /\ AskAt(r, "search")
    /\ ask[r].endpoint \notin Chain /\ ask[r].hits = <<>>
    /\ Proceed(r, "llm")
    /\ UNCHANGED <<vars, index, ragReady, swapped>>

\* The rag process's own _collection_exists.
Look(found) ==
    /\ CollectionExists(ragReady, found)
    /\ ragReady' = (ragReady \/ (found /\ ~SharedHash))

\* arebuild: the corpus is read from the vector store, ...
Snapshot(r) ==
    /\ AskAt(r, "snapshot")
    /\ \E found \in BOOLEAN :
           /\ Look(found)
           /\ ask' = [ask EXCEPT ![r].at = "build",
                                 ![r].corpus = IF found THEN StoredChunks ELSE {},
                                 ![r].missed = ~found /\ dim # NoDim]
    /\ UNCHANGED <<vars, index, swapped>>

\* ... and when the reply is there the index is replaced, whichever other
\* question has built it meanwhile.
Build(r) ==
    /\ AskAt(r, "build")
    /\ index' = [initialized |-> TRUE, corpus |-> ask[r].corpus]
    /\ ask' = [ask EXCEPT ![r].at = "search", ![r].corpus = {}]
    /\ UNCHANGED <<vars, ragReady, swapped>>

\* Vectors of another size than the question's: the request fails.
Fits == IF SharedHash THEN \A e \in StoredChunks : DimOf[ModelOf[e.batch]] = DimOf[RagModel]
                      ELSE dim = DimOf[RagModel]

Members(s) == {s[i] : i \in 1..Len(s)}

\* The vector search: nothing, if no collection is found.  The agent answers
\* from the hits, or searches again.
Search(r) ==
    /\ AskAt(r, "search")
    /\ \E found \in BOOLEAN :
           /\ Look(found)
           /\ IF found /\ ~Fits THEN Quit(r)
              ELSE \E hits \in IF found THEN Nearest ELSE {<<>>} :
                   LET fused == ask[r].endpoint \in Chain /\ Hybrid
                   IN  ask' = [ask EXCEPT ![r] =
                           [@ EXCEPT !.at = IF fused THEN "fuse" ELSE "llm", !.hits = hits,
                                     !.context = IF fused THEN {} ELSE Members(hits),
                                     !.missed = ~found /\ dim # NoDim]]
    /\ UNCHANGED <<vars, index, swapped>>

\* What BM25 may rank: chunks without a word of the question are left out.
Lexical(r) ==
    LET wanted == 0..Larger(2 * TopK, Len(ask[r].hits))
    IN  UNION {Rankings(index.corpus, n) :
               n \in {m \in wanted : m <= Cardinality(index.corpus)}}

Fuse(r) ==
    /\ AskAt(r, "fuse")
    /\ IF index.corpus = {}
       THEN ask' = [ask EXCEPT ![r].at = "llm", ![r].context = Members(ask[r].hits)]
       ELSE \E lexical \in Lexical(r) :
            ask' = [ask EXCEPT ![r].at = "llm", ![r].context = Fused(lexical, ask[r].hits)]
    /\ UNCHANGED <<vars, index, ragReady, swapped>>

\* Another turn of the agent's loops.
SearchAgain(r) ==
    /\ AskAt(r, "llm")
    /\ ask[r].endpoint \notin Chain
    /\ Proceed(r, "search")
    /\ UNCHANGED <<vars, index, ragReady, swapped>>

\* The LLM has answered (a query without context: 404), or some call has
\* raised.
Leave(r) ==
    /\ ~AskAt(r, "idle")
    /\ Quit(r)
    /\ UNCHANGED <<vars, index, ragReady, swapped>>

\* The rag process is restarted.
RagRestart ==
    /\ index # NoIndex \/ ragReady
    /\ index' = NoIndex
    /\ ragReady' = FALSE
    /\ ask' = [r \in Askers |-> Silent]
    /\ UNCHANGED <<vars, swapped>>

Read(r) ==
    \/ \E e \in Questions : Ask(r, e)
    \/ CheckModel(r) \/ CheckListing(r) \/ SmallTalk(r) \/ Snapshot(r) \/ Build(r)
    \/ Search(r) \/ Fuse(r) \/ SearchAgain(r) \/ Leave(r)

RagNext ==
    \/ Write
    \/ \E r \in Askers : Read(r)
    \/ RagRestart

RagSpec == RagInit /\ [][RagNext]_ragVars

-----------------------------------------------------------------------------
(***************************************************************************)
(* Properties, of a question whose answer is about to be generated.        *)
(***************************************************************************)
Contexts == {r \in Askers : AskAt(r, "llm")}
Promised(d) == IF acked[d] \in Batches THEN ChunksOf(d, acked[d]) ELSE {}
FoundKeys(r) == {Key(e) : e \in ask[r].context}

\* Ingest to answer, over two services and three stores: of a document that no
\* request could change while the question ran, the vector search returns
\* chunks of the promised batch only, and the chain's context has them all
\* unless other chunks fill it, or the search took the vector store to be empty.
PromisedIsFound ==
    \A r \in Contexts : \A d \in ask[r].settled :
        LET hits == Members(ask[r].hits)
        IN  /\ {e \in hits : e.doc = d} \subseteq Promised(d)
            /\ ask[r].endpoint \in Chain /\ ~ask[r].missed =>
                  \/ {Key(e) : e \in Promised(d)} \subseteq FoundKeys(r)
                  \/ Len(ask[r].hits) = TopK /\ ~(hits \subseteq Promised(d))
                  \/ Cardinality(Promised(d)) > TopK

\* Whatever the lexical ranking says, stale or not, it displaces no chunk that
\* the vector search returned.
VectorHitsSurvive ==
    \A r \in Contexts : ask[r].endpoint \in Chain => KeysOf(ask[r].hits) \subseteq FoundKeys(r)

\* The guard reads meta and the search runs later: still, a question that passed
\* it by a record ranks only vectors of its own model, unless a replacement or
\* rivals were in flight meanwhile, or before with no replacement alone to mend
\* what they left.  Appends and deletes without rivals never do it.
GuardProtects ==
    \A r \in Contexts : ask[r].guarded =>
        \A e \in Members(ask[r].hits) : ModelOf[e.batch] = RagModel

\* The index is built once, and built over nothing it stays off until a restart:
\* that takes a request to the write side between the listing and the snapshot,
\* one that was cut short before, or an HTTP error of Qdrant when the process
\* looks for the collection the first time.
LexicalIndexLives ==
    [][\A r \in Askers : Build(r) /\ ask[r].corpus = {} =>
          ask[r].settled # Docs \/ ask[r].missed]_ragVars

\* "live ingestions in long-running services pick up changes mid-flight"
\* (chains/retriever.py): a context quotes no replaced or deleted text.
FollowsIngestion ==
    \A r \in Contexts : \A e \in ask[r].context : e.doc \in ask[r].settled => e \in Promised(e.doc)

(***************************************************************************)
(* Where the code departs from what a reader may expect of it: no run has  *)
(* these as its properties, README.md says how each one fails.             *)
(***************************************************************************)

\* A chain that no request overlapped finds something, if something is stored.
StoredIsFound ==
    \A r \in Contexts : \A d \in Docs :
        ask[r].endpoint \in Chain /\ ask[r].settled = Docs /\ acked[d] \in Batches =>
            ask[r].hits # <<>>

\* Nor does it build the index over nothing.
IndexHoldsCorpus ==
    [][\A r \in Askers : Build(r) /\ ask[r].corpus = {} => ask[r].settled # Docs]_ragVars

(***************************************************************************)
(* Why the properties hold, however requests to ingest overlap.            *)
(***************************************************************************)

\* While nothing is swapped, no rival and no replacement is in flight, and all
\* that can be searched was embedded by the model that meta names.
OneModel ==
    ~swapped => ~Disturbed /\ \A d \in Docs : \A b \in Searchable(d) : ModelOf[b] = meta

\* A guarded question past the guard has meta on its side for good.
GuardStands(q) ==
    q.guarded => /\ ~swapped
                 /\ q.at # "guard" => meta = RagModel
                 /\ \A e \in Members(q.hits) : ModelOf[e.batch] = RagModel

\* The vector ranking of a question about to be fused or answered has all that
\* is promised of d, unless top_k leaves no room for it.
Complete(q, d) ==
    \/ {Key(e) : e \in Promised(d)} \subseteq KeysOf(q.hits)
    \/ Len(q.hits) = TopK /\ ~(Members(q.hits) \subseteq Promised(d))
    \/ Cardinality(Promised(d)) > TopK

RankedWell(q) ==
    \A d \in q.settled :
        /\ acked[d] # Unknown
        /\ {e \in Members(q.hits) : e.doc = d} \subseteq Promised(d)
        /\ q.at \in {"fuse", "llm"} /\ q.endpoint \in Chain /\ ~q.missed => Complete(q, d)

\* With no writer in between, the listing that let a question pass stands for
\* chunks in the vector store.
ListingStands(q) ==
    q.settled = Docs => /\ q.at = "snapshot" => \E d \in Docs : acked[d] \in Batches
                        /\ q.at = "build" => q.corpus # {} \/ q.missed

\* Inductive together with IngestInv.
ReadInv ==
    /\ ragReady => dim # NoDim
    /\ OneModel
    /\ \A r \in Askers : GuardStands(ask[r]) /\ RankedWell(ask[r]) /\ ListingStands(ask[r])
=============================================================================
