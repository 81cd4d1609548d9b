-------------------------- MODULE OllamaEmbeddings --------------------------
(***************************************************************************)
(* The Ollama embeddings adapter (sorakai/infra/embeddings/ollama.py).     *)
(* A call drops blank texts, cuts the rest into batches, embeds them       *)
(* concurrently under one semaphore of the adapter, and puts the vectors   *)
(* back in the order of its texts.  The first batch that learns that the   *)
(* server has no /api/embed switches the adapter to one request per text,  *)
(* for good; the first that fails ends the call, not its other batches.    *)
(***************************************************************************)
EXTENDS Integers, Sequences, FiniteSets

CONSTANTS
    Calls,         \* calls of aembed_documents and aembed_query
    Inputs,        \* the texts they may have, each TRUE unless blank
    BatchSize,     \* ollama_embed_batch
    Concurrency,   \* ollama_embed_concurrency
    UseBatch       \* ollama_embed_use_batch_endpoint

ASSUME EmbeddingsAssumption ==
    /\ Inputs \subseteq Seq(BOOLEAN) \ {<<>>}
    /\ BatchSize \in Nat \ {0}
    /\ Concurrency \in Nat \ {0}
    /\ UseBatch \in BOOLEAN

VARIABLES
    permits,            \* what is left of the semaphore
    useBatchEndpoint,   \* _use_batch_endpoint
    call,               \* call[c]: the call of aembed_documents
    batch,              \* batch[c]: its batches, in order
    notFound            \* history: how many 404s the adapter has been answered

vars == <<permits, useBatchEndpoint, call, batch, notFound>>

\* The vector of a text is its position; Zero is the vector of a blank text.
Zero == 0

Live(texts) == {i \in 1..Len(texts) : texts[i]}
\* How many texts before text i are not blank, and the n-th of them.
Nth(texts, i) == Cardinality({j \in Live(texts) : j < i})
LiveAt(texts, n) == CHOOSE i \in Live(texts) : Nth(texts, i) = n - 1
BatchCount(texts) == (Cardinality(Live(texts)) + BatchSize - 1) \div BatchSize
\* The texts of batch b, as positions.
TextsOf(texts, b) ==
    LET left == Cardinality(Live(texts)) - (b - 1) * BatchSize
    IN  [n \in 1..(IF left < BatchSize THEN left ELSE BatchSize) |->
            LiveAt(texts, (b - 1) * BatchSize + n)]

NotYet == [at |-> "new", texts |-> <<>>, out |-> <<>>]
Waiting == [at |-> "waiting", vectors |-> <<>>]

BatchType == [at : {"waiting", "batched", "legacy", "done", "failed"}, vectors : Seq(Nat)]

TypeOK ==
    /\ permits \in 0..Concurrency
    /\ useBatchEndpoint \in BOOLEAN
    /\ call \in [Calls -> [at : {"new", "running", "returned", "failed", "cancelled"},
                           texts : Inputs \cup {<<>>}, out : Seq(Nat)]]
    /\ batch \in [Calls -> Seq(BatchType)]
    /\ notFound \in Nat

Init ==
    /\ permits = Concurrency
    /\ useBatchEndpoint = UseBatch
    /\ call = [c \in Calls |-> NotYet]
    /\ batch = [c \in Calls |-> <<>>]
    /\ notFound = 0

-----------------------------------------------------------------------------
Running(c) == call[c].at = "running"
Over(c) == call[c].at \in {"returned", "failed", "cancelled"}
BatchAt(c, b, place) == b \in DOMAIN batch[c] /\ batch[c][b].at = place
InFlight(c, b) == BatchAt(c, b, "batched") \/ BatchAt(c, b, "legacy")

Start(c, texts) ==
    /\ call[c] = NotYet
    /\ call' = [call EXCEPT ![c] = [at |-> "running", texts |-> texts, out |-> <<>>]]
    /\ batch' = [batch EXCEPT ![c] = [b \in 1..BatchCount(texts) |-> Waiting]]
    /\ UNCHANGED <<permits, useBatchEndpoint, notFound>>

\* Nothing to embed: a blank query, or all texts blank.
Refuse(c) ==
    /\ Running(c)
    /\ Live(call[c].texts) = {}
    /\ call' = [call EXCEPT ![c].at = "failed"]
    /\ UNCHANGED <<permits, useBatchEndpoint, batch, notFound>>

\* The semaphore is taken and the first request sent.
Acquire(c, b) ==
    /\ BatchAt(c, b, "waiting")
    /\ permits > 0
    /\ batch' = [batch EXCEPT ![c][b].at = IF useBatchEndpoint THEN "batched" ELSE "legacy"]
    /\ permits' = permits - 1
    /\ UNCHANGED <<useBatchEndpoint, call, notFound>>

\* The HTTP client of a call that failed is closed: sending raises at once, and
\* the permit is taken and given back.
Unsent(c, b) ==
    /\ BatchAt(c, b, "waiting")
    /\ permits > 0
    /\ call[c].at = "failed"
    /\ batch' = [batch EXCEPT ![c][b].at = "failed"]
    /\ UNCHANGED <<permits, useBatchEndpoint, call, notFound>>

Release == permits' = permits + 1

\* The reply to a batched request has a vector for each text.
Embedded(c, b) ==
    /\ call[c].at # "cancelled"
    /\ BatchAt(c, b, "batched")
    /\ batch' = [batch EXCEPT ![c][b] = [at |-> "done", vectors |-> TextsOf(call[c].texts, b)]]
    /\ Release
    /\ UNCHANGED <<useBatchEndpoint, call, notFound>>

\* Seeded fault: the batch falls back and the adapter does not.
FallBackAlone(c, b) ==
    /\ BatchAt(c, b, "batched")
    /\ call[c].at # "cancelled"
    /\ batch' = [batch EXCEPT ![c][b].at = "legacy"]
    /\ notFound' = notFound + 1
    /\ UNCHANGED <<permits, useBatchEndpoint, call>>

\* 404: the batch goes on with single requests, holding its permit.
FallBack(c, b) ==
    /\ BatchAt(c, b, "batched")
    /\ call[c].at # "cancelled"
    /\ useBatchEndpoint' = FALSE
    /\ batch' = [batch EXCEPT ![c][b].at = "legacy"]
    /\ notFound' = notFound + 1
    /\ UNCHANGED <<permits, call>>

\* The reply to a single request; the next one is sent, one at a time.
EmbeddedOne(c, b) ==
    /\ call[c].at # "cancelled"
    /\ BatchAt(c, b, "legacy")
    /\ LET texts == TextsOf(call[c].texts, b)
           sofar == Append(batch[c][b].vectors, texts[Len(batch[c][b].vectors) + 1])
       IN  IF Len(sofar) = Len(texts)
           THEN batch' = [batch EXCEPT ![c][b] = [at |-> "done", vectors |-> sofar]] /\ Release
           ELSE batch' = [batch EXCEPT ![c][b].vectors = sofar] /\ UNCHANGED permits
    /\ UNCHANGED <<useBatchEndpoint, call, notFound>>

\* Seeded fault: a batch that fails keeps its permit.
FailHolding(c, b) ==
    /\ InFlight(c, b)
    /\ batch' = [batch EXCEPT ![c][b].at = "failed"]
    /\ call' = [call EXCEPT ![c].at = IF @ = "running" THEN "failed" ELSE @]
    /\ UNCHANGED <<permits, useBatchEndpoint, notFound>>

\* A request fails, or its reply has the wrong shape; gather passes the first
\* exception on to the call, whose other batches run on.
Fail(c, b) ==
    /\ InFlight(c, b)
    /\ batch' = [batch EXCEPT ![c][b].at = "failed"]
    /\ call' = [call EXCEPT ![c].at = IF @ = "running" THEN "failed" ELSE @]
    /\ Release
    /\ UNCHANGED <<useBatchEndpoint, notFound>>

\* The request that makes the call is cancelled (the client of a stream left):
\* batches that wait end, those in flight are interrupted one by one.
Cancel(c) ==
    /\ Running(c)
    /\ call' = [call EXCEPT ![c].at = "cancelled"]
    /\ batch' = [batch EXCEPT ![c] = [b \in DOMAIN @ |->
                    IF BatchAt(c, b, "waiting") THEN [@[b] EXCEPT !.at = "failed"] ELSE @[b]]]
    /\ UNCHANGED <<permits, useBatchEndpoint, notFound>>

\* Seeded fault: the zero vectors go to the end.
ZerosLast(c) ==
    LET texts == call[c].texts
    IN  [i \in 1..Len(texts) |->
            IF i > Cardinality(Live(texts)) THEN Zero
            ELSE batch[c][((i - 1) \div BatchSize) + 1].vectors[((i - 1) % BatchSize) + 1]]

\* The vectors of all batches in their order, and zeros where texts are blank.
Aligned(c) ==
    LET texts == call[c].texts
    IN  [i \in 1..Len(texts) |->
            IF ~texts[i] THEN Zero
            ELSE batch[c][(Nth(texts, i) \div BatchSize) + 1].vectors[(Nth(texts, i) % BatchSize) + 1]]

Return(c) ==
    /\ Running(c)
    /\ Live(call[c].texts) # {}
    /\ \A b \in DOMAIN batch[c] : BatchAt(c, b, "done")
    /\ call' = [call EXCEPT ![c].at = "returned", ![c].out = Aligned(c)]
    /\ UNCHANGED <<permits, useBatchEndpoint, batch, notFound>>

Reply(c, b) == Embedded(c, b) \/ FallBack(c, b) \/ EmbeddedOne(c, b) \/ Fail(c, b)

Next ==
    \E c \in Calls :
        \/ \E texts \in Inputs : Start(c, texts)
        \/ Refuse(c) \/ Return(c) \/ Cancel(c)
        \/ \E b \in DOMAIN batch[c] : Acquire(c, b) \/ Unsent(c, b) \/ Reply(c, b)

Spec == Init /\ [][Next]_vars

\* Every request is answered or times out, and asyncio's semaphore serves the
\* batches in the order they came.
BatchIds == UNION {1..BatchCount(texts) : texts \in Inputs}
FairSpec ==
    /\ Spec
    /\ \A c \in Calls :
          /\ WF_vars(Refuse(c) \/ Return(c))
          /\ \A b \in BatchIds : SF_vars(Acquire(c, b) \/ Unsent(c, b)) /\ WF_vars(Reply(c, b))

-----------------------------------------------------------------------------
(***************************************************************************)
(* Properties.                                                             *)
(***************************************************************************)
Holders == {cb \in Calls \X BatchIds : InFlight(cb[1], cb[2])}

\* Over all calls, the batches that failed calls left running included, no more
\* than Concurrency batches send requests, and no end of a batch, however it
\* comes, loses or doubles a permit.
PermitsAddUp == permits + Cardinality(Holders) = Concurrency

\* After the first 404 only the batches then in flight can be answered another:
\* the adapter tries /api/embed in vain at most Concurrency times in its life.
NotFoundsBounded == notFound <= Concurrency

\* Blank texts, batches, the fallback in the middle of a call and the order of
\* replies change nothing of which vector belongs to which text.
VectorsAligned ==
    \A c \in Calls : call[c].at = "returned" =>
        call[c].out = [i \in 1..Len(call[c].texts) |-> IF call[c].texts[i] THEN i ELSE Zero]

\* Every call ends: failed and cancelled calls give their permits back.
EveryCallEnds == \A c \in Calls : Running(c) ~> Over(c)

(***************************************************************************)
(* Why the vectors are aligned.                                            *)
(***************************************************************************)

\* A batch has the vectors of its first texts, in their order: none before its
\* requests are answered, all when it is done.
InTextOrder(texts, b, r) ==
    LET wanted == TextsOf(texts, b)
    IN  /\ Len(r.vectors) <= Len(wanted)
        /\ \A n \in 1..Len(r.vectors) : r.vectors[n] = wanted[n]
        /\ r.at \in {"waiting", "batched"} => r.vectors = <<>>
        /\ r.at = "legacy" => Len(r.vectors) < Len(wanted)
        /\ r.at = "done" => Len(r.vectors) = Len(wanted)

\* Inductive with the types of call and batch.
Placed ==
    /\ VectorsAligned
    /\ \A c \in Calls :
        LET texts == call[c].texts
        IN  /\ call[c].at = "new" => call[c] = NotYet /\ batch[c] = <<>>
            /\ call[c].at # "new" => /\ texts \in Inputs
                                     /\ DOMAIN batch[c] = 1..BatchCount(texts)
            /\ \A b \in DOMAIN batch[c] : InTextOrder(texts, b, batch[c][b])

(***************************************************************************)
(* Why every call ends.                                                    *)
(***************************************************************************)

\* No more than this many steps are left to a batch: its permit, /api/embed
\* once, and one request for each of its texts.
StepsLeft(r) ==
    IF r.at = "waiting" THEN BatchSize + 2
    ELSE IF r.at = "batched" THEN BatchSize + 1
    ELSE IF r.at = "legacy" THEN BatchSize - Len(r.vectors)
    ELSE 0

\* Every step of a batch, of a call that failed or was cancelled too, brings it
\* nearer to its end, no other step sends it back, and a call that is over
\* stays so.
EveryStepIsNearer ==
    [][\A c \in Calls :
          /\ \A b \in DOMAIN batch[c] :
                /\ b \in DOMAIN batch'[c] /\ StepsLeft(batch'[c][b]) \in Nat
                /\ Acquire(c, b) \/ Unsent(c, b) \/ Reply(c, b) =>
                      StepsLeft(batch'[c][b]) < StepsLeft(batch[c][b])
                /\ StepsLeft(batch'[c][b]) <= StepsLeft(batch[c][b])
          /\ Over(c) => Over(c)']_vars
=============================================================================
