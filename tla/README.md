# sorakAi in TLA+

sorakAi is a retrieval-augmented generation system: documents are chunked,
embedded and stored by an **ingest** service, and questions are answered over
them by a **rag** service, directly or through a LangGraph **agent**; a
**gateway** fronts both. This directory holds TLA+ models of it, the TLC
configurations that check them, and TLAPS proofs of the properties that matter
most. `../src/sorakai` is the program; all paths below are relative to it unless
they start with `README.md`, which is the repository's own.

    tlc -workers 2 -config store_per_document.cfg MCRedisKnowledgeStore
    tlapm RedisKnowledgeStoreProofs.tla

## 1. The system

### Parts, state and interaction

| Part | Source | State | Operations | Talks to |
|---|---|---|---|---|
| Knowledge store | `common/store.py` | Redis hash `sorakai:kb:chunks`, one field `ck:<doc>:<index>` per chunk (or a list in memory) | append, delete, replace_kb, list, load | Redis |
| KB meta | `common/kb_meta.py` | hash `sorakai:kb:meta`: provider, model, dim | ensure_compatible, reset_to, read | Redis |
| Vector stores | `infra/vector_store/` | a Qdrant collection, and per process whether it was found; or the knowledge store again behind an adapter | upsert, delete_doc, list_docs, search | Qdrant, knowledge store |
| Ingest service | `ingest/app.py` | none of its own | POST, GET, DELETE `/v1/documents` | the three stores, the embedder |
| RAG service and chain | `rag/app.py`, `chains/rag_chain.py` | the chain and graph built at start | query, query/stream, agent, agent/stream | stores, chat history, LLM |
| Retrieval | `chains/retriever.py`, `common/retrieval.py` | a BM25 index built once | vector search, BM25, reciprocal rank fusion | vector store |
| Agent graph | `chains/agent_graph.py`, `chains/tools.py` | `AgentState` of one invocation | six nodes, three branches, save of the turn | LLM, retriever, chat history |
| Chat history | `common/chat_history.py`, `chains/history.py` | a capped list per session | append pair, messages, clear | Redis |
| Embeddings, LLM | `infra/embeddings`, `infra/llm` | a semaphore, a "batch endpoint works" flag | embed documents, embed query, chat | Ollama |
| Gateway, rate limit | `gateway/app.py`, `common/security.py`, `common/middleware.py` | counters per client and window | proxied calls | ingest, rag |
| MLflow callback | `common/mlflow_callback.py` | the open run of a chain | start, end, error callbacks | MLflow |
| Evaluation | `eval/` | none | run and score a dataset | the chain, MLflow |
| Plumbing | config, schemas, telemetry, SSE, logging, chunking, scripts, UI, manifests | none of the system | | |

Each service is one asyncio process: a coroutine runs alone between two awaits,
and every call to Redis, Qdrant, Ollama or the LLM is an await at which other
requests run. Several processes (replicas, a rolling update, a script) may share
the stores. Only Redis transactions and single commands are atomic. The
in-memory stores never suspend, so each of their operations is one step.

### What makes each part correct, and what is hard about it

- **Knowledge store.** A reader sees a document whole, of one ingest, or not at
  all; a call changes its own document only. Hard: append and delete are an
  `HSCAN` of several round trips followed by a transaction that acts on what the
  scan saw; entries of an older layout (`ck:<uuid>`) must survive an upgrade;
  delete falls back to rewriting the whole hash from a copy.
- **KB meta.** Vectors of two models are never stored together. Hard:
  check-then-write, and a swap of two commands that a crash can split.
- **Ingest service.** What an answer promised is true in three stores that share
  no transaction, after failures at any step of other requests, and a retry
  repairs what a failure left.
- **Vector stores.** Upserting replaces a document's points. Hard: in Qdrant that
  is a delete and a put; the collection's vector size is fixed by its first use;
  until a process has found the collection once, it takes an HTTP error of Qdrant
  for its absence, and lists, finds and deletes nothing without an error.
- **RAG service, retrieval.** An answer finds what ingest promised and mixes no
  models. Hard: a question reads four things in separate round trips while the
  write side changes them all, and merges a ranking of the present with one of
  an index built once.
- **Agent graph.** Every question is answered within its budget, from what was
  retrieved last. Hard: two loops share one budget, the LLM's replies steer them
  and may be anything, and state fields survive a loop.
- **Chat history.** A history is whole turns in the order of the conversation.
  Hard: turns read before they append, overlap, fail in three ways, and are cut.
- **Embeddings.** Each text gets its own vector. Hard: concurrency under one
  semaphore, a fallback that changes under way, failed calls with siblings left.
- **Gateway.** The limit holds and answers are true. Hard: windows, requests that
  are refused before or after they are counted, upstream effects after a timeout,
  `replace_kb` forwarded among uploads of other documents.
- **MLflow.** A run is the record of one query. Hard: mlflow's active run is
  global to the process, queries are concurrent, callbacks swallow errors.

The hazards, each at its line and with the properties that watch it, are under
`hazards` in `PROJECT.json`.

## 2. Modules

| Module | Models | Role |
|---|---|---|
| `KnowledgeBase` | base class and in-memory store of `common/store.py` | abstract: an atomic map from documents to batches |
| `RedisKnowledgeStore` | the Redis store, round trip by round trip | implements `KnowledgeBase` |
| `IngestService` | `ingest/app.py` over the knowledge store, KB meta and a vector store | composes the write side |
| `HybridFusion` | reciprocal rank fusion of `chains/retriever.py` | pure operators |
| `RagService` | the four endpoints of `rag/app.py` over retriever, meta and stores | composes the read side with `IngestService` |
| `AgentGraph` | `chains/agent_graph.py` with `kb_search` of `chains/tools.py` | one invocation |
| `ChatHistory` | both history stores and their two users | turns of the sessions |
| `OllamaEmbeddings` | `infra/embeddings/ollama.py` | one adapter |
| `Gateway` | `gateway/app.py`, `common/security.py` | the gateway and what upstream does meanwhile |
| `MlflowTracking` | `common/mlflow_callback.py`, the loop of `eval/runner.py` | one process |

`MC<module>` holds the small instances of a module (there is none for
`KnowledgeBase` and `HybridFusion`, which other instances contain), and
`<module>Proofs` its theorems. Definitions whose comment starts with *Seeded
fault* are never used by a specification: each is a plausible slip in the
definition after it, kept to show that the properties would notice.

### RedisKnowledgeStore

A **batch** is what one ingest stores for a document; only its number of chunks
matters, so a field's value is the batch it comes from. `chunk` holds the fields
`ck:<doc>:<i>`, `legacy` the older entries (their field names are random, so a
document and an index identify them), and `op[c]` the locals of the call client
`c` is in the middle of.

- `StartAppend`, `Scan`, `AppendExec` are `append_document`: the `HSCAN` cursor
  passes any non-empty set of not yet visited fields per round trip and returns
  those present at that moment, then one transaction deletes what was seen and is
  not rewritten, and writes the batch.
- `StartDelete`, `Scan`, `DeleteExec` are `delete_document` when the scan found
  something. `FallbackNone`, `FallbackRead`, `FallbackWrite` are the base class's
  delete it falls back to: an `HGETALL`, then a transaction writing back what was
  read. `Image` resolves two entries mapping to one field name by the order
  `HGETALL` returned them in, which is arbitrary.
- `StartReplace`, `ReplaceExec` are `replace_kb_with_document`.
- `Fail` ends any call before its effect. A transaction is all or nothing.

The program serialises nothing, and the model does not either (`Serialise =
"nothing"`; `"per_document"` is for callers that wait for the answer about a
document before the next call on it). Two histories tell apart what the code can
promise: `crossed` holds the documents that two calls in flight both dealt with
(`Touches`), until a call that met no other writes them, and `alone` the calls in
flight that met none. `ScanHits[d]` is the set of documents whose fields the
pattern `ck:<d>:*` matches: only `d`, unless an id extends `d` with a colon or `d`
has glob characters. `InitialLegacy` is what an upgrade found.

`KnowledgeBase` is the promise: `Invoke`, then `Apply` (the whole effect at one
instant) or `Abort`. The refinement mapping reads a document as its batch when
all and only its chunks are there, as `NoBatch` when it has no field, and as
`Torn` otherwise, which no `KnowledgeBase` step produces.

### IngestService

One action per store round trip of `POST` (append or `replace_kb`) and `DELETE`,
in the order of the handlers: guard (409 on another model), stamp of an absent
record, upsert in the vector store, append to the knowledge store, answer; for
`replace_kb` list and drop of every searchable document, upsert, replace, clear
and write of the meta record, answer; for a delete the knowledge store, 404 or
the vector store, answer. A knowledge-store call is one step, which is what
`RedisKnowledgeStore` establishes for ids that match their own fields only and
calls that meet none on their document; of documents on which calls met nothing is
said. The exception is a delete that finds nothing in its scan and the document in
the `HGETALL` that follows, because a rival stored it in between: `CopyKb` is that
read and `RewriteKb` writes the copy back over the whole hash, undoing what was
stored meanwhile (`common/store.py:167-174`, `322-329`). It may happen wherever a
rival was about (`c \notin alone`), and such a delete is then a rival of every
request in flight. Qdrant is kept at the grain of its calls: look
for the collection, create it, delete the points, put the points. A point's id
is derived from document and index, so `points[d]` is the set of batches with
points left: putting a batch keeps the tails of longer ones. `SharedHash` is
`VECTOR_STORE=redis`, where the vector store *is* the knowledge store.

Embedding happens before any store is touched, so a batch carries its model, and
a request that fails before is no request. `Fail` cuts a request short at the
phases in `Failable`, and `Crash` takes a process down with all of its requests.
`ready` are the processes that have found the collection (`_collection_ready`,
`infra/vector_store/qdrant.py:223-232`): one that has does not look again, one that
has not may be told "no collection" by an HTTP error (`ProbeErrs`), in which case a
listing is empty, a delete deletes nothing, and an upsert tries to create what is
there and fails. `missed` marks a request to which this happened.

Requests overlap in any way. `Conflict` says which of them are rivals: they name
one document, one replaces the KB or is about to rewrite it, or their models differ. Three histories
record what an answer is worth: `alone`, the requests no rival has overlapped;
`crossed`, the documents of rivals, until a request alone has stored them; and
`acked`, what the last answer about each document promised (`Promise`). It is
unknown from the moment a later request that may change it begins, an answer to
a request that was not alone promises nothing, and one that was `missed` does not
promise that anything is gone.

### RagService and HybridFusion

`RagService` extends `IngestService`: `Write` is any step of the write side, and
the other actions are those of a question, one per read. `Ask`; `CheckModel`
(the dimension guard: 409 unless there is no record or it names rag's model);
`CheckListing` (404 on an empty listing, for the chain only); `Snapshot` and
`Build` (the corpus is read, then the index replaced); `Search` (any `top_k`
stored chunks in any order, or an error when vector sizes differ); `Fuse`;
`SearchAgain` and `SmallTalk` for the agent; `Leave`, when the LLM has answered or
any call raised; `RagRestart`. `query_stream` has no meta guard and
`agent_stream` no check at all, as in the code. `Look` is the rag process's own
look for the collection: on an error of Qdrant `Snapshot` and `Search` read
nothing and go on, and the question is `missed`. `index` and `ragReady` are the
only state that outlives a question. `swapped`, `settled` and `guarded` are
histories the properties need: whether chunks of two models, or of no record, may
be stored (a replacement or rivals in flight, or some since a replacement alone
was last answered: `Disturbed`, `Mended`), which documents no request could have
changed since the question came, and whether the guard really compared.

`HybridFusion` computes the fusion with exact fractions: weights in tenths,
`weight / (K + rank)`, the three cuts, and which of two texts of one chunk is kept
(the BM25 one on a tie of ranks, `chains/retriever.py:105`).

### AgentGraph

A node is one action; LangGraph runs one node of an invocation at a time and
what other invocations do reaches it only through the environment's replies. The
branch functions are part of the node before them. `Label` is the normalisation
of a one-word LLM reply with its default for anything off script. A context is
an opaque value or blank. `max_steps` is chosen by the request. `visits` counts
nodes and is what LangGraph's recursion limit bounds; the limit is the runtime's
(external), hence a constant. `praised` is a history of contexts graded good.

### ChatHistory

A turn is one request through one of the four endpoints: `Begin` picks its list
(`KeyOf`: the chain always uses one, without a session the shared stateless key;
the agent only with a session; the agent's stream none), `Load`, `Work`, `Save`,
`Answer`. `Save` is the transaction `RPUSH`, `LTRIM`, `EXPIRE`, hence one step; the
in-memory store never suspends. `SaveFails` and `SaveUnheard` are a refused
transaction and a lost reply: the chain saves in a listener whose exceptions
langchain swallows, so the request still answers 200, while the agent's awaited
save makes it fail. `AnswerEmpty` is the 404 "Could not retrieve context", whose
turn is stored all the same. `Fail`, `Expire` and `Restart` are the other ways to
lose a turn; `excused` is the history of those.

### OllamaEmbeddings

`call[c]` is a call of `aembed_documents` or `aembed_query`, `batch[c]` its batches.
A batch waits, takes a permit (`Acquire`), is answered (`Embedded`), falls back to
one request per text (`FallBack`, `EmbeddedOne`) or fails (`Fail`), which ends the
call but not its other batches; those that had not sent anything find the HTTP
client closed (`Unsent`). `Cancel` is the client of a stream going away. A text is
TRUE unless it is blank, and its vector is its position. The semaphore belongs to
an adapter; the chain and the agent have one each, so the model is of one
adapter.

### Gateway

`Refuse` is everything that ends a request before it is counted (413, 401,
malformed JSON, the limiter's store down), `Reject` what ends it after (429, and
422, because FastAPI validates the body after its dependencies ran), `Admit` the
rest. `window[c]` is the counter of the `limits` library: a window opens at its
first hit and refused hits count. `Reach`, `Succeed` and `Break` are upstream,
which owes the gateway nothing and may finish a write after the gateway gave up
(`GiveUp`, 502). A write is an upload, an upload with `replace_kb`, which the
gateway forwards as it came and after which no other document is stored
(`ingest/app.py:197-210`), or a deletion. `stored` is what the ingest service has
in the knowledge store: a write alone leaves what it says (`Leave`), writes that
may touch one document at once leave it to any of them (`Mix`). A replacement
touches every document; so does a deletion, since the store's fallback may
rewrite the hash. `rivals` is the history of the writes that did so while, or
since, a request was upstream. `Restart` drops the connections, and the counters
when they are in memory.

### MlflowTracking

`stack` is mlflow's stack of active runs, global to the process; `start_run`
refuses while it is not empty. `Record` opens a run at the start of a root chain;
`Skip` is a query that is not recorded; `Forget` a run that stays active because
`log_params` failed. Inside a query, `NestedStart`, `NestedEnd`, `Begin`, `Done` and
`Raise` are the hooks of inner chains, models, retrievers and tools. `Answer` and
`Fail` close the run, or leave it active when a metric cannot be logged.
`evaluating` chooses between the service (a callback per query, queries
concurrent) and the evaluation (one callback for all cases, in turn, then
`LogEvaluation`). Streams pass no callback and are no queries here.

## 3. Runs

| Run | Instance | Shows |
|---|---|---|
| `store` | 2 clients whose calls overlap in any way, documents `a` and `a:b` (the pattern of one matches the other), batches of 1 and 2 chunks, a document in the old layout, failures | `NoTornDocument`, `NoDocumentVanishes`, `OthersUntouched`, the inductive `StoreInv` |
| `store_per_document` | 2 clients, calls per document serialised, plain ids, no old layout, batches of 1 and 3 chunks, failures | `ImplementsKnowledgeBase`: the store is an atomic map |
| `ingest_qdrant` | 2 clients overlapping in any way, 3 batches, vectors of two sizes, one process that crashes, `ProbeErrs`, failures outside the meta swap | `AnswersHold`, `OneUpload`, `MetaDescribesKb`, the inductive `IngestInv` |
| `ingest_hash` | the same over one hash, a batch per model, failures everywhere, fair | `AnswersHold`, `EveryRequestEnds` |
| `rag` | a writer and an asker, 2 documents, 2 models, hybrid, `TopK = 1`, weights 0.4 and 0.6, `K = 60`, `ProbeErrs`, requests cut short between the stores, restarts | `PromisedIsFound`, `VectorHitsSurvive`, `GuardProtects`, `LexicalIndexLives`, the inductive `ReadInv` |
| `agent` | budgets 1 to 4, limit 16 visits (so 1 to 3 fit), calls that raise, fair | `AgentInv`, `NeverOverruns`, `AnswerMatchesContext`, `AlwaysAnswers` |
| `chat` | 3 turns, one session and the stateless key, room for 4 messages, every fault | `WholeTurns`, `AnsweredTurnsStay`, `SeesThePast`, `InOrder`, the inductive `ChatInv` |
| `embed` | 2 calls, 2 permits, up to 2 batches of up to 2 texts, blanks, fair | `PermitsAddUp`, `NotFoundsBounded`, `VectorsAligned`, the inductive `Placed`, `EveryCallEnds` |
| `gateway` | 3 requests of one client, 1 per window of 2 ticks, uploads, replacements and deletions of 2 documents, fair | `UnderTwiceTheLimit`, `OnlyFullWindowsReject`, `LastAnswerStands`, the inductive `GatewayInv`, `AnswersInTime` |
| `tracking` | 3 queries or cases, 2 kinds of work, 2 calls each | `OwnRunOnly`, `FinishedRunsAreTrue`, `RecordingGoesOn`, the inductive `TrackingInv` |
| `chat_stateless`, `rag_stale` | as `chat` without faults, and as `rag` with one more batch | violations, below |

**Why the bounds are enough.** The stores' actions touch one document's fields,
so a second document is "all others"; races need two calls, and a third client
adds no new pair of steps. Two chunks are the least that can tear. Three turns
let two overlap and a third follow, and room for two of them makes the cut
happen. In `ingest_hash` no store looks at a batch's chunks, so one batch per model
is enough there. Two batches under two permits of which the other call may hold both make
a batch wait. Three requests at one per window reach both sides of a boundary:
`MaxTime = 2` is a window's length. `TopK = 1` makes two documents compete for the
one place. `rag` has one client of ingest, because with two TLC does not end in
minutes: there no two writers are rivals, which the two ingest runs check and
the theorems of section 4 cover beside questions. Two client addresses of the gateway are
beyond TLC, and the counters in memory (`SharedLimiter = FALSE`) and the in-memory
histories (`InMemory = TRUE`) have no run of their own: the proofs cover all
three. Fewer visits than five per step make the agent overrun, so the run covers
both sides of that bound. Named bounds on counters are `MaxTime` (the clock) and
`MaxWork` (calls of one query); the other state spaces are finite as they are.
Documents, turns and queries that are alike are declared symmetric where no
liveness is checked.

**Deadlock** is checked where clients repeat calls for ever (stores, ingest, rag)
and not where a fixed number of turns, calls or requests ends (`agent`, `chat`,
`embed`, `gateway`, `tracking`).

**Fairness.** `IngestService`: weak fairness of each request's own steps (the
rewrite of the hash included), since
the event loop runs every ready coroutine and every store call returns or raises
(clients have timeouts); arrivals and failures are not fair. `AgentGraph`: weak
fairness of the nodes; raising is not fair. `OllamaEmbeddings`: weak fairness of
replies (HTTP timeouts) and of the call's own end; strong fairness of taking a
permit, because asyncio's semaphore wakes its waiters in order. `Gateway`: weak
fairness of delivering a reply or giving up, which is httpx's timeout; upstream
has none, and streams, whose reads have no timeout, are excluded from
`AnswersInTime`. The other specifications are used for safety only.

### Where the code departs from its documents

Two runs have one property each, taken from a text of the repository, and TLC
finds it violated by what the code does.

| Run | Property | What happens |
|---|---|---|
| `chat_stateless` | `StatelessIsBlank` | A question without a session gets the key `__stateless__` (`chains/rag_chain.py:223`), which is read and written like a session: it is given other requests' turns. `common/schemas.py:111` says "stateless turn". |
| `rag_stale` | `FollowsIngestion` | The BM25 index is built once (`chains/retriever.py:212`) and a context quotes replaced or deleted text. `chains/retriever.py:180-181` promises an invalidation hook. |

Others are stated in the modules and have no run of their own. Each is reached
from a passing configuration by the change named here. `ImplementsKnowledgeBase`,
`ReingestReplaces`, `IndexHoldsCorpus` and the three whose names end in `IsGone` go
under `PROPERTY`, the others under `INVARIANT`; `SYMMETRY` is to be removed with a
client.

- `ImplementsKnowledgeBase`, `store_per_document` with `Serialise = "nothing"`: both
  appends of one document scan before either commits; the long one commits, then
  the short one, which never saw the tail, and the document is torn until its next
  write. README.md:210-212 promises no half-written state. `NoTornDocument` says
  that it takes two calls that meet.
- `ImplementsKnowledgeBase`, `store_per_document` with `ScanHits <- Nested` and
  `Clients = {c1}`: a call on `a` scans `ck:a:*`, which matches the fields of `a:b`,
  and deletes them (`common/store.py:225-226`). With `InitialLegacy <- Upgraded`
  instead it fails too: `ReingestReplaces` says how.
- `ReingestReplaces`, `store_per_document` with `InitialLegacy <- Upgraded` and
  `Clients = {c1}`: a re-ingest cannot see `ck:<uuid>` entries and leaves the old
  text next to the new (`common/store.py:144`).
- `SingleModel`, `ingest_qdrant` with `Clients = {c1}`, `Failable <- Anywhere`,
  `DimOf <- SameDim`: a crash between the two commands of the meta swap leaves no
  record instead of a stale one, and the next ingest of any model passes the
  guard. README.md:216-218 promises a 409. With two clients and `DimOf <- SameDim`
  alone it fails because two first ingests both find no meta record
  (`common/kb_meta.py:69-71`).
- `ReplacementFits`, `ingest_qdrant` with `Clients = {c1}`, `Failable <- Nowhere`:
  `replace_kb` with a model of another dimension empties the collection but keeps
  its vector size; the put is refused and the KB is unsearchable.
  README.md:121-123 names `replace_kb` as the fix.
- `NotFoundIsGone`, `ingest_qdrant` with `Clients = {c1}`: a delete fails after the
  first store; its retry is answered 404 and the document stays searchable
  (README.md:206).
- `DeletedIsGone` and `ReplacedIsGone`, the same: a process that has not yet found
  the collection is told by an HTTP error that there is none, drops nothing and
  answers 200 or 201 (`infra/vector_store/qdrant.py:223-232`).
  `infra/vector_store/base.py:89` says "Remove every chunk".
- `StoredIsFound` and `IndexHoldsCorpus`, `rag`: the same error makes a search find
  nothing in a KB that has chunks, and the lexical index empty with no writer in
  between.
- `BestContextKept`, `agent` with `MaxSteps = 2`, `RecursionLimit = 10`: a retry after
  a good grade retrieves a worse context and the budget ends there; the answer is
  made from the last context, not the best (`chains/agent_graph.py:46-48`).

Documents that rivals crossed are outside `OneUpload` and `MetaDescribesKb`: two
uploads of one document both delete its points before either puts
(`infra/vector_store/qdrant.py:78-106`), and a replacement runs over an append.

Seen while modelling, and part of the models without a property that denies it:

- **RAG.** `QueryRequest.top_k` is ignored (`common/schemas.py:108`). The meta guard
  compares provider and model, passes when there is no record, and is absent from
  the streams; `rag/app.py:256-259` promises a single 409 where a dimension Qdrant
  refuses gives a 500. The first question that comes between the delete and the
  put of the only document builds an empty index, and hybrid search is off until
  a restart, and so does one to which Qdrant answers with an error: `LexicalIndexLives`
  says that it takes a writer in between or that error.
- **Ingest.** A delete whose fallback raced an upload writes back a copy of the
  whole hash, and an upload of another document, answered 201 meanwhile, is undone
  if it overlapped the delete; `AnswersHold` counts such uploads as rivals'.
- **Chat.** The agent's stream neither loads nor saves its session, although
  `common/schemas.py:139` says the turn is persisted.
- **Embeddings.** After a failed call its siblings run on, holding permits.
- **Gateway.** The burst setting is read and never used (README.md:546,
  `common/security.py:112-114`). An upload retried without a document id is stored
  twice. The late effect of an attempt answered 502 can overtake its retry, which
  is why `LastAnswerStands` speaks of writes without rivals, and why waiting for an
  answer does not keep a client's requests from overlapping at the ingest service.
- **MLflow.** `common/mlflow_callback.py:19-21` and README.md:421-422 promise one run
  per query; a query that starts while another is recorded is not (`Skip`). A
  logging call that fails after `start_run` disables tracking until a restart. The
  evaluation reuses one callback against `common/mlflow_callback.py:54`, so its
  counters accumulate over cases (`before`), and its aggregate goes to a separate
  run that nothing ends, against `eval/runner.py:307-313`.

## 4. What is proved

TLAPS checks these for every set of documents, batches, clients, turns, calls and
requests (finite where said), every limit, cap and budget.

Every safety property of a passing run is a theorem, each inductive invariant
being checked by a run as well; liveness is not.

**RedisKnowledgeStoreProofs.** `StoreInvariant` and what follows from it assume
nothing of the callers, of the ids or of the layout: any calls overlap, patterns
match what they like, and the hash may be of any age. `NoTornDocument` is not
inductive: an append that had missed a field in its scan would tear the document.
`StoreInv` adds

- `ScanCovers`: a scan has seen, or will still visit, every field there is of the
  documents it matches, except those another call came near (another writer could
  add a field behind the cursor);
- `ImagesAreTrue`: what the fallback is about to write back has an entry for a
  field exactly where the hash has one, with the same exception, and documents
  that are whole;
- `MeetingsAreKnown`: calls that deal with one document are not `alone`, and the
  document is `crossed`;
- `CallsAreShaped` and `LegacyIsOld`, on what a call remembers and where old
  entries can be.

`NeverTorn` says that only a document two calls met on is torn, and only until a
call alone writes it; `OthersAreUntouched` and `NoneVanishes` that a call takes
away nothing out of its reach (`Reaches`), however old the copy it writes back.
`Refines` is the refinement, stated with what it needs: plain ids, no old layout
(`PlainStore`) and a behaviour in which no two calls ever meet on a document
(`[](crossed = {})`). The departures above show each of the three to be necessary.
`CarefulCallersSuffice` derives the third from callers that wait for the answer
about a document. The order is: lemmas on what a scanned field set is, one step
lemma per action for the invariant, then one per kind of step for the mapping.

**IngestServiceProofs.** Nothing is assumed of the callers, of either deployment,
of what fails, or of what Qdrant answers. `AnswersHold` is not inductive: it says
nothing of a request that has not answered. `IngestInv` adds

- `Shaped`: a request is a call at a phase of its kind, so a delete never reaches
  the upsert;
- `Unpromised`: nothing is promised of the documents a request may change, and
  one about to stamp has the model of all that is promised;
- `Counted`: a request is `alone` only when no rival is in flight, and otherwise
  its document is `crossed`;
- `CopyIsTrue`: what a delete is about to write back agrees with the hash on all
  that is promised;
- `Collected`: a process that has found the collection is right;
- `WorkDone`, of the requests that are alone: per phase, what each store already
  shows of their work: an append past the guard has its model in meta, its
  document's points are gone before the put, a replacement past its drops finds
  nothing to search unless it was `missed`, and so on.

A step of one request keeps `WorkDone` of another that is alone (`FrameWork`),
because it touches its own document only, and meta only with the model both share
(`StepLocal`); it keeps its own by the order of the handler (`OwnAppend`,
`OwnReplace`, `OwnDelete`). A delete that rewrites the hash leaves nobody alone
(`RewriteStep`). An answer then promises what `WorkDone` says is there. This gives
`IngestInvariant`, `AnswersAreKept` and `PointsOfOneUpload`. `MetaIsTrue` adds
`MetaDescribesKb` to the invariant; it assumes a collection of its own for the
vectors (over one hash a replacement's chunks precede its meta record by more
steps) and no request cut short in the meta swap, which `SingleModel` above shows
to be necessary. `NearerEveryStep` assumes only that `Docs` is finite: the round
trips a request has left (`StepsLeft`, two per document a replacement drops) go
down with every step of its own, whatever overlaps it, and no other request's
step sends it back.

**RagServiceProofs.** `RagTypeCorrect` is the type invariant of the composition.
`FusionDisplacesNothing` proves `VectorHitsSurvive` for every `TopK`, corpus and
constant under `Weighted`: where hybrid search is on,
`LexicalWeight * (K + TopK) < VectorWeight * (K + 1)` and `TopK <= RerankTopN`. The
default weights satisfy the first up to `top_k = 31`. The argument is arithmetic
on fractions: only chunks of the vector ranking can be ahead of one of them
(`OnlyVectorHitsAhead`), there are fewer than `TopK` of those (`FewKeys`), so none
is cut. It holds whatever BM25 ranks, hence for a stale index too.

The other theorems join the two services and assume finite sets and nothing of the
callers; both deployments are covered, requests overlap in any way and are cut
short anywhere, Qdrant's errors included, and any number of questions run beside
them. `PromisesAreFound` goes from ingest's
answer to a question's context, `GuardIsEnough` from the reading of meta to the
search some steps later, `IndexIsNotBuiltEmpty` from the listing to the snapshot.
None is inductive, because a question in flight has promises of the past and the
stores go on changing. `ReadInv` says what it may still rely on:

- a rag process that has found the collection is right;
- `OneModel`: while nothing is `swapped`, no rival and no replacement is in flight,
  and all that can be searched is of the model in meta;
- `GuardStands`: a guarded question past the guard has meta on its side for good;
- `RankedWell`: of the documents no request could change since the question
  began (`settled`), its ranking has only promised chunks, all of them unless
  `TopK` leaves no room or the search was `missed`;
- `ListingStands`: with nothing in between, the listing stands for chunks, and so
  does the corpus unless its reading was `missed`.

Its induction needs `IngestInv`: a document that is settled has no writer, by
`Unpromised`, so what an answer promised is what the search finds, and a document
some writer touches is not settled. Whoever moves, the steps of ingest leave a
question's rankings alone and can only take documents out of `settled`.
`PromisesAreFound` also needs `Weighted`, so that fusion keeps what was found.

**AgentGraphProofs.** `AgentInvariant`: with `VisitsBounded`, which counts at
each node how many visits there have been per retrieval, the two loops together
keep `step <= max_steps`. From it `FiveVisitsPerStep`: an invocation whose budget
is at most a fifth of the recursion limit is never cut short. `LatestContext`:
the answer was generated from the context the response counts as its sources.
`NearerEveryStep`: `StepsLeft`, five visits for each retrieval the budget still
allows and the rest of the way, goes down with every visit, so no loop is
endless; `EndsInAnAnswer`: where the run ends and the budget fits, it is with a
generated answer or a call that raised.

**ChatHistoryProofs.** `ChatInvariant`, and from it `HistoriesHoldWholeTurns`,
`AnsweredTurnsAreKept`, `ModelSeesThePast` and `HistoriesAreInOrder`, for every cap of
at least two, both stores and every fault. `ChatInv` adds `HasList`,
`EarlierIsAnswered`, `StoredHaveRun` (only turns that got as far as storing are in a
list, so no pair is stored twice) and `StoredBeforeAnswer`. The work is in the
lemmas on what appending a pair and cutting from the front do to a sequence
(`AppendedIs`, `AppendedWhole`).

**OllamaEmbeddingsProofs.** `PermitsAreKept` and `FewNotFounds`, by counting the
batches in flight: every step adds to or takes from that set exactly the batch
whose permit it moves, and the batches that may still be told 404 are among
them; `TypeCorrect` follows. `VectorsStayAligned` has two parts. `BatchesArePlaced`
(`Placed`, inductive): a batch holds the vectors of its first texts, in their
order, none before a reply and all when done, also when the fallback takes over
in the middle. The other is about no state: the texts that are not blank are
numbered without gaps (`NthIsThere`: as many numbers as texts and none given
twice, which needs no induction), so `TextsOf` and `Aligned`, which divide that
number by the batch size, agree on who is where (`Slots`, `BatchTexts`). `NearerEveryStep` bounds the steps of a batch by one for its permit,
one for the batch endpoint and one per text.

**GatewayProofs.** `GatewayInvariant`, and from it `LessThanTwiceTheLimit`,
`RejectionsAreEarned` and `ConfirmedWritesStand`, for any number of clients and both
kinds of counters. `WindowsApart` says that windows do not overlap, so a stretch of
a window's length meets at most two; `CountersAreTrue` and `WindowsHoldLimit` that
each let at most `Limit` through, `FirstHitPasses` that the request that opened the
earlier one passed and lies before the stretch, whence the strict bound; `RivalsAreKnown` and `LastWriteStands` follow a
write from upstream's effect to the answer: an upload, a replacement, which also
takes every other document away, or a deletion, which may rewrite the hash.

**MlflowTrackingProofs.** `TrackingInvariant`, and from it
`CallbacksKeepToTheirRuns`, `FinishedRunsTellTheTruth` and `RecordingIsNotLost`, for any
number of concurrent queries. The key is `OneActive`: since `start_run` refuses
while a run is active, the stack never holds two, and the only callback with a
run is the one that started it.

**Only model-checked.** Liveness: `EveryRequestEnds`, `AlwaysAnswers`,
`EveryCallEnds` and `AnswersInTime`. They rest on fairness, hence on ENABLED, which
the prover does not handle. What is proved of the first three is the half that
needs no fairness: a measure that every step lowers and none raises
(`NearerEveryStep`, in three modules), so a request, an invocation or a call that
keeps moving ends. That it keeps moving is what TLC checks. `AnswersInTime` is one
step, hence fairness alone.

## 5. What is not modelled, and abstractions

- Text, embeddings and scores are values without structure: BM25 and similarity
  rankings are arbitrary. Chunking is langchain's splitter. Listings and scrolls
  longer than one page are read at one instant. A question of nothing but blanks
  is not modelled apart from the failure it is to the Ollama adapter.
- A commit whose reply is lost looks like a failure to the caller and a success
  to the store. In `RedisKnowledgeStore` it is `AppendExec`; in `IngestService`
  it is the step followed by `Fail` in the next phase; in `ChatHistory` it is
  `SaveUnheard`.
- The clear operations of the stores and histories are called by no service.
  `VECTOR_STORE=memory` gives the ingest process a vector store of its own that
  nobody else reads; it behaves as `Qdrant` without the collection and is not
  configured separately.
- The tools `calc` and `web_search`, with `safe_calc`, are reached by no node of the
  graph. `retrieve_node` gives `kb_search` a `k`, but always the retriever's own.
- The scorers of `eval/` are word-set arithmetic, the loading of datasets I/O and
  schema checks. The cross-encoder reranker is a model and off by default. The
  LLM adapters, factories and the char embedding keep no state.
- MLflow logging of an ingest swallows its own errors and changes no store.
- Configuration enters as constants and their assumptions. Schemas, telemetry,
  logging, SSE framing, scripts, UI and manifests hold none of the state the
  properties are about.

## 6. Plan

Every component that keeps state or coordinates calls has its module, and all
but the abstract ones their proofs. What could follow, in order:

1. A run of `RagService` with two clients of ingest beside the question, and one
   with two askers that build the index at once; the model allows both, TLC's time
   does not with two documents. The theorems cover them.
2. The scorers and `safe_calc` as pure operators against reference definitions.
