-------------------------- MODULE RagServiceProofs --------------------------
(***************************************************************************)
(* Proofs about RagService for any finite sets of documents and batches:   *)
(* the types of the composed system; that fusing with a lexical ranking    *)
(* displaces nothing the vector search returned, when the weights let a    *)
(* vector hit outweigh every other chunk; and, however requests to ingest  *)
(* overlap, what a question can rely on of what ingest has answered.       *)
(***************************************************************************)
EXTENDS RagService, IngestServiceProofs, FiniteSetTheorems

(***************************************************************************)
(* Reciprocal rank fusion.                                                 *)
(***************************************************************************)
LEMMA RankFacts ==
    ASSUME NEW T, NEW s \in Seq(T), NEW x \in KeysOf(s)
    PROVE  Rank(s, x) \in 1..Len(s) /\ Key(s[Rank(s, x)]) = x
<1>1. \E i \in 1..Len(s) : Key(s[i]) = x
  BY DEF KeysOf
<1> QED
  BY <1>1 DEF Rank

LEMMA InstanceKey ==
    ASSUME NEW T, NEW b \in Seq(T), NEW v \in Seq(T), NEW x \in KeysOf(b) \cup KeysOf(v)
    PROVE  Key(Instance(b, v, x)) = x /\ Instance(b, v, x) \in T
<1>1. CASE x \in KeysOf(b) /\ (x \in KeysOf(v) => Rank(b, x) <= Rank(v, x))
  BY <1>1, RankFacts DEF Instance
<1>2. CASE ~(x \in KeysOf(b) /\ (x \in KeysOf(v) => Rank(b, x) <= Rank(v, x)))
  <2>1. x \in KeysOf(v)
    BY <1>2
  <2>2. Rank(v, x) \in 1..Len(v) /\ Key(v[Rank(v, x)]) = x
    BY <2>1, RankFacts
  <2> QED
    BY <1>2, <2>2 DEF Instance
<1> QED
  BY <1>1, <1>2

LEMMA Products ==
    ASSUME NEW p \in Nat, NEW q \in Nat, NEW r \in Nat, NEW s \in Nat, p <= q, r <= s
    PROVE  p * r <= q * s
<1>1. p * r <= q * r
  BY SMT
<1>2. q * r <= q * s
  BY SMT
<1>3. p * r \in Nat /\ q * r \in Nat /\ q * s \in Nat
  BY SMT
<1> QED
  BY <1>1, <1>2, <1>3

\* A chunk that is not in the vector ranking scores less than one that is.
LEMMA OnlyVectorHitsAhead ==
    ASSUME FusionAssumption, VectorOutweighs, NEW T, NEW b \in Seq(T), NEW v \in Seq(T),
           Len(v) <= TopK, NEW x \in KeysOf(v), NEW y \in KeysOf(b) \cup KeysOf(v),
           Ahead(b, v, y, x)
    PROVE  y \in KeysOf(v) \ {x}
<1> SUFFICES ASSUME y \notin KeysOf(v) PROVE FALSE
  BY DEF Ahead
<1> DEFINE rv == K + Rank(v, x)
<1> DEFINE ry == K + Rank(b, y)
<1> DEFINE db == Den(b, x)
<1> DEFINE nb == Num(b, LexicalWeight, x)
<1>1. /\ K \in Nat \ {0} /\ TopK \in Nat \ {0}
      /\ LexicalWeight \in Nat /\ VectorWeight \in Nat
  BY DEF FusionAssumption
<1>2. Rank(v, x) \in 1..Len(v) /\ Rank(b, y) \in 1..Len(b)
  BY RankFacts
<1>3. rv \in Nat /\ rv <= K + TopK /\ ry \in Nat /\ K + 1 <= ry
  BY <1>1, <1>2
<1>4. db \in Nat /\ 1 <= db
  <2>1. CASE x \in KeysOf(b)
    BY <2>1, <1>1, RankFacts DEF Den
  <2>2. CASE x \notin KeysOf(b)
    BY <2>2 DEF Den
  <2> QED
    BY <2>1, <2>2
<1>5. nb \in Nat
  BY <1>1 DEF Num
<1>6. ScoreNum(b, v, x) = nb * rv + VectorWeight * db /\ ScoreDen(b, v, x) = db * rv
  BY DEF ScoreNum, ScoreDen, Num, Den
<1>7. ScoreNum(b, v, y) = LexicalWeight * 1 + 0 * ry /\ ScoreDen(b, v, y) = ry * 1
  BY DEF ScoreNum, ScoreDen, Num, Den
<1> HIDE DEF rv, ry, db, nb
<1>8. (nb * rv + VectorWeight * db) * ry > LexicalWeight * (db * rv)
  <2>1. LexicalWeight * rv <= LexicalWeight * (K + TopK)
    BY <1>1, <1>3, Products
  <2>2. VectorWeight * (K + 1) <= VectorWeight * ry
    BY <1>1, <1>3, Products
  <2>3. LexicalWeight * rv + 1 <= VectorWeight * ry
    <3>1. LexicalWeight * (K + TopK) < VectorWeight * (K + 1)
      BY DEF VectorOutweighs
    <3>2. /\ LexicalWeight * rv \in Nat /\ LexicalWeight * (K + TopK) \in Nat
          /\ VectorWeight * ry \in Nat /\ VectorWeight * (K + 1) \in Nat
      BY <1>1, <1>3
    <3> QED
      BY <2>1, <2>2, <3>1, <3>2
  <2>4. db * (LexicalWeight * rv + 1) <= db * (VectorWeight * ry)
    BY <1>1, <1>3, <1>4, <2>3, Products
  <2>5. db * (LexicalWeight * rv + 1) = LexicalWeight * (db * rv) + db
    BY <1>1, <1>3, <1>4
  <2>6. (nb * rv + VectorWeight * db) * ry = (nb * rv) * ry + db * (VectorWeight * ry)
    BY <1>1, <1>3, <1>4, <1>5
  <2>7. (nb * rv) * ry \in Nat /\ LexicalWeight * (db * rv) \in Nat /\ db * (VectorWeight * ry) \in Nat
    BY <1>1, <1>3, <1>4, <1>5
  <2> QED
    BY <1>4, <2>4, <2>5, <2>6, <2>7
<1>9. LexicalWeight * 1 + 0 * ry = LexicalWeight /\ ry * 1 = ry
  BY <1>1, <1>3
<1>10. Higher(b, v, x, y)
  BY <1>6, <1>7, <1>8, <1>9 DEF Higher
<1> QED
  BY <1>10 DEF Ahead

LEMMA FewKeys ==
    ASSUME NEW T, NEW s \in Seq(T)
    PROVE  IsFiniteSet(KeysOf(s)) /\ Cardinality(KeysOf(s)) <= Len(s)
<1> DEFINE f == [i \in 1..Len(s) |-> Key(s[i])]
<1>1. f \in Surjection(1..Len(s), KeysOf(s))
  <2>1. f \in [1..Len(s) -> KeysOf(s)]
    BY DEF KeysOf
  <2>2. \A x \in KeysOf(s) : \E i \in 1..Len(s) : f[i] = x
    BY DEF KeysOf
  <2> QED
    BY <2>1, <2>2 DEF Surjection
<1>2. IsFiniteSet(1..Len(s)) /\ Cardinality(1..Len(s)) = Len(s)
  <2>1. Len(s) \in Nat
    OBVIOUS
  <2>2. Cardinality(1..Len(s)) = IF 1 > Len(s) THEN 0 ELSE Len(s) - 1 + 1
    BY <2>1, FS_Interval
  <2>3. IsFiniteSet(1..Len(s))
    BY <2>1, FS_Interval
  <2> QED
    BY <2>1, <2>2, <2>3
<1> QED
  BY <1>1, <1>2, FS_Surjection

\* A vector ranking of at most top_k chunks is kept whole by the cuts.
LEMMA FusionKeepsVectorHits ==
    ASSUME FusionAssumption, VectorOutweighs, TopK <= RerankTopN,
           NEW T, NEW b \in Seq(T), NEW v \in Seq(T), Len(v) <= TopK, NEW x \in KeysOf(v)
    PROVE  x \in Best(b, v)
<1>1. Before(b, v, x) \subseteq KeysOf(v) \ {x}
  BY OnlyVectorHitsAhead DEF Before
<1>2. /\ IsFiniteSet(KeysOf(v) \ {x})
      /\ Cardinality(KeysOf(v) \ {x}) = Cardinality(KeysOf(v)) - 1
      /\ Cardinality(KeysOf(v)) \in Nat /\ Cardinality(KeysOf(v)) <= Len(v)
  BY FewKeys, FS_RemoveElement, FS_CardinalityType
<1>3. IsFiniteSet(Before(b, v, x)) /\ Cardinality(Before(b, v, x)) <= Cardinality(KeysOf(v) \ {x})
  BY <1>1, <1>2, FS_Subset
<1>4. Cardinality(Before(b, v, x)) \in Nat
  BY <1>3, FS_CardinalityType
<1>5. TopK \in Nat /\ RerankTopN \in Nat /\ Len(v) \in Nat
  BY DEF FusionAssumption
<1>6. Cardinality(Before(b, v, x)) < IF RerankTopN < TopK THEN RerankTopN ELSE TopK
  BY <1>2, <1>3, <1>4, <1>5
<1> QED
  BY <1>6 DEF Best

LEMMA FusedChunks ==
    ASSUME NEW T, NEW b \in Seq(T), NEW v \in Seq(T)
    PROVE  /\ Fused(b, v) \subseteq T
           /\ Best(b, v) \subseteq {Key(e) : e \in Fused(b, v)}
<1>1. \A x \in Best(b, v) : Key(Instance(b, v, x)) = x /\ Instance(b, v, x) \in T
  BY InstanceKey DEF Best
<1> QED
  BY <1>1 DEF Fused

-----------------------------------------------------------------------------
(***************************************************************************)
(* What the searches read.                                                 *)
(***************************************************************************)
LEMMA StoredType == StoredChunks \subseteq Chunk
BY IngestAssumption DEF StoredChunks, ChunksOf, Chunk, IngestAssumption

LEMMA StoredFinite ==
    ASSUME IsFiniteSet(Docs), IsFiniteSet(Batches)
    PROVE  IsFiniteSet(StoredChunks)
<1> DEFINE every == {ChunksOf(p[1], p[2]) : p \in Docs \X Batches}
<1>1. IsFiniteSet(every)
  <2> DEFINE f == [p \in Docs \X Batches |-> ChunksOf(p[1], p[2])]
  <2>1. f \in Surjection(Docs \X Batches, every)
    BY DEF Surjection
  <2> QED
    BY <2>1, FS_Product, FS_Surjection
<1>2. ASSUME NEW d \in Docs, NEW b \in Batches
      PROVE  IsFiniteSet(ChunksOf(d, b))
  <2> DEFINE g == [i \in 1..ChunkCount[b] |-> [doc |-> d, batch |-> b, index |-> i]]
  <2>1. g \in Surjection(1..ChunkCount[b], ChunksOf(d, b))
    BY DEF Surjection, ChunksOf
  <2>2. IsFiniteSet(1..ChunkCount[b])
    BY IngestAssumption, FS_Interval DEF IngestAssumption
  <2> QED
    BY <2>1, <2>2, FS_Surjection
<1>3. \A S \in every : IsFiniteSet(S)
  BY <1>2
<1>4. IsFiniteSet(UNION every)
  BY <1>1, <1>3, FS_UNION
<1>5. StoredChunks \subseteq UNION every
  <2>1. ASSUME NEW e \in StoredChunks PROVE e \in UNION every
    <3>1. PICK d \in Docs, b \in Batches : e \in ChunksOf(d, b)
      BY <2>1 DEF StoredChunks
    <3>2. <<d, b>> \in Docs \X Batches /\ ChunksOf(<<d, b>>[1], <<d, b>>[2]) = ChunksOf(d, b)
      OBVIOUS
    <3> QED
      BY <3>1, <3>2
  <2> QED
    BY <2>1
<1> QED
  BY <1>4, <1>5, FS_Subset

LEMMA RankingFacts ==
    ASSUME NEW T, NEW S \in SUBSET T, NEW n \in Nat, NEW s \in Rankings(S, n)
    PROVE  s \in Seq(T) /\ Len(s) = n
BY DEF Rankings

-----------------------------------------------------------------------------
(***************************************************************************)
(* The types of the composed system, with the requests in their phases.    *)
(***************************************************************************)
AskTyped ==
    /\ ragReady \in BOOLEAN
    /\ index \in [initialized : BOOLEAN, corpus : SUBSET Chunk]
    /\ ask \in [Askers -> AskType]
    /\ swapped \in BOOLEAN

RagBase == Base /\ AskTyped /\ \A r \in Askers : Len(ask[r].hits) <= TopK

LEMMA SilentType == Silent \in AskType /\ Len(Silent.hits) = 0
BY DEF Silent, AskType, Questions

LEMMA RagBaseInit == RagInit => RagBase
<1> SUFFICES ASSUME RagInit PROVE RagBase
  OBVIOUS
<1>1. Base
  BY BaseInit DEF RagInit
<1>2. AskTyped
  BY SilentType DEF RagInit, AskTyped, NoIndex
<1>3. \A r \in Askers : ask[r] = Silent
  BY DEF RagInit
<1>4. 0 <= TopK
  BY FusionAssumption DEF FusionAssumption
<1> QED
  BY <1>1, <1>2, <1>3, <1>4, SilentType DEF RagBase

\* A step of the write side changes of a question only what the history says.
LEMMA WriteAsk ==
    ASSUME RagBase, Write, NEW r \in Askers
    PROVE  /\ ask'[r] \in AskType
           /\ ask'[r].at = ask[r].at /\ ask'[r].endpoint = ask[r].endpoint
           /\ ask'[r].hits = ask[r].hits /\ ask'[r].corpus = ask[r].corpus
           /\ ask'[r].context = ask[r].context /\ ask'[r].missed = ask[r].missed
           /\ ask'[r].settled = ask[r].settled \cap Settled'
           /\ ask'[r].guarded = (ask[r].guarded /\ ~swapped')
<1>1. ask[r] \in AskType
  BY DEF RagBase, AskTyped
<1>2. ask'[r] = [ask[r] EXCEPT !.settled = ask[r].settled \cap Settled',
                               !.guarded = ask[r].guarded /\ ~swapped']
  BY DEF Write
<1>3. ask[r].settled \cap Settled' \in SUBSET Docs
  BY <1>1 DEF AskType
<1>4. (ask[r].guarded /\ ~swapped') \in BOOLEAN
  OBVIOUS
<1>5. PICK set \in SUBSET Docs, flag \in BOOLEAN :
          /\ set = ask[r].settled \cap Settled'
          /\ flag = (ask[r].guarded /\ ~swapped')
          /\ ask'[r] = [ask[r] EXCEPT !.settled = set, !.guarded = flag]
  BY <1>2, <1>3, <1>4
<1> QED
  BY <1>1, <1>5 DEF AskType

LEMMA WriteFrame ==
    ASSUME RagBase, Write
    PROVE  [Next]_vars /\ AskTyped'
<1>1. swapped' \in BOOLEAN
  BY DEF Write
<1>2. ask' \in [Askers -> AskType]
  BY WriteAsk DEF Write
<1> QED
  BY <1>1, <1>2 DEF AskTyped, RagBase, Write

LEMMA QuitType ==
    ASSUME RagBase, NEW r \in Askers, Quit(r), ragReady' \in BOOLEAN,
           UNCHANGED <<index, swapped>>
    PROVE  AskTyped' /\ \A x \in Askers : Len(ask'[x].hits) <= TopK
<1>1. 0 <= TopK
  BY FusionAssumption DEF FusionAssumption
<1> QED
  BY <1>1, SilentType DEF RagBase, AskTyped, Quit

\* What a vector search may return.
LEMMA HitsFacts ==
    ASSUME IsFiniteSet(Docs), IsFiniteSet(Batches),
           NEW hits \in Nearest
    PROVE  hits \in Seq(Chunk) /\ Len(hits) <= TopK
<1>1. Cardinality(StoredChunks) \in Nat
  BY StoredFinite, FS_CardinalityType
<1>2. Smaller(TopK, Cardinality(StoredChunks)) \in Nat /\ Smaller(TopK, Cardinality(StoredChunks)) <= TopK
  BY <1>1, FusionAssumption DEF Smaller, FusionAssumption
<1>3. PICK n \in Nat : n <= TopK /\ hits \in Rankings(StoredChunks, n)
  BY <1>2 DEF Nearest
<1>4. hits \in Seq(Chunk) /\ Len(hits) = n
  BY <1>3, StoredType, RankingFacts
<1> QED
  BY <1>3, <1>4

LEMMA LexicalFacts ==
    ASSUME RagBase, NEW r \in Askers, NEW lexical \in Lexical(r)
    PROVE  lexical \in Seq(Chunk)
<1>1. index.corpus \in SUBSET Chunk
  BY DEF RagBase, AskTyped
<1>2. Larger(2 * TopK, Len(ask[r].hits)) \in Nat
  <2>1. Len(ask[r].hits) \in Nat
    BY DEF RagBase, AskTyped, AskType
  <2>2. TopK \in Nat /\ 2 * TopK \in Nat
    BY FusionAssumption DEF FusionAssumption
  <2> QED
    BY <2>1, <2>2 DEF Larger
<1>3. PICK n \in 0..Larger(2 * TopK, Len(ask[r].hits)) : lexical \in Rankings(index.corpus, n)
  BY DEF Lexical
<1>4. n \in Nat
  BY <1>2
<1> QED
  BY <1>1, <1>3, <1>4, RankingFacts

LEMMA MembersFacts ==
    ASSUME NEW T, NEW s \in Seq(T)
    PROVE  Members(s) \subseteq T /\ {Key(e) : e \in Members(s)} = KeysOf(s)
BY DEF Members, KeysOf

-----------------------------------------------------------------------------
(***************************************************************************)
(* One step.  RagInv is inductive: what has been ranked is short, and once *)
(* the chain has its context the ranking's chunks are in it.               *)
(***************************************************************************)
Weighted == Hybrid => VectorOutweighs /\ TopK <= RerankTopN
FusesIfHybrid == \A r \in Askers : ask[r].at = "fuse" => Hybrid
RagInv == RagBase /\ FusesIfHybrid /\ (Weighted => VectorHitsSurvive)

\* The question's own record after a step that leaves the others alone.
LEMMA OneAsk ==
    ASSUME RagInv, NEW r \in Askers, NEW next \in AskType,
           ask' = [ask EXCEPT ![r] = next], UNCHANGED vars, AskTyped',
           Len(next.hits) <= TopK, next.at = "fuse" => Hybrid,
           Weighted /\ next.at = "llm" /\ next.endpoint \in Chain =>
               KeysOf(next.hits) \subseteq {Key(e) : e \in next.context}
    PROVE  RagInv'
<1>1. Base'
  <2>1. [Next]_vars
    OBVIOUS
  <2> QED
    BY <2>1, BaseStep DEF RagInv, RagBase
<1>2. ask'[r] = next /\ \A x \in Askers : x # r => ask'[x] = ask[x]
  BY DEF RagInv, RagBase, AskTyped
<1>3. \A x \in Askers : Len(ask'[x].hits) <= TopK
  BY <1>2 DEF RagInv, RagBase
<1>4. ASSUME Weighted, NEW x \in Askers, ask'[x].at = "llm", ask'[x].endpoint \in Chain
      PROVE  KeysOf(ask'[x].hits) \subseteq {Key(e) : e \in ask'[x].context}
  BY <1>2, <1>4 DEF RagInv, VectorHitsSurvive, Contexts, AskAt, FoundKeys
<1>5. Weighted => VectorHitsSurvive'
  BY <1>4 DEF VectorHitsSurvive, Contexts, AskAt, FoundKeys
<1>6. FusesIfHybrid'
  BY <1>2 DEF RagInv, FusesIfHybrid
<1> QED
  BY <1>1, <1>3, <1>5, <1>6 DEF RagInv, RagBase

LEMMA RagInvInit == RagInit => RagInv
<1> SUFFICES ASSUME RagInit PROVE RagInv
  OBVIOUS
<1>1. VectorHitsSurvive
  BY DEF RagInit, Silent, VectorHitsSurvive, Contexts, AskAt
<1>2. FusesIfHybrid
  BY DEF RagInit, Silent, FusesIfHybrid
<1> QED
  BY <1>1, <1>2, RagBaseInit DEF RagInv

LEMMA WriteInv ==
    ASSUME RagInv, Write
    PROVE  RagInv'
<1>1. Base'
  BY WriteFrame, BaseStep DEF RagInv, RagBase
<1>2. \A x \in Askers : Len(ask'[x].hits) <= TopK
  BY WriteAsk DEF RagInv, RagBase
<1>3. Weighted => VectorHitsSurvive'
  BY WriteAsk DEF RagInv, VectorHitsSurvive, Contexts, AskAt, FoundKeys
<1>4. FusesIfHybrid'
  BY WriteAsk DEF RagInv, FusesIfHybrid
<1> QED
  BY <1>1, <1>2, <1>3, <1>4, WriteFrame DEF RagInv, RagBase

LEMMA QuitInv ==
    ASSUME RagInv, NEW r \in Askers, Quit(r), ragReady' \in BOOLEAN,
           UNCHANGED <<vars, index, swapped>>
    PROVE  RagInv'
<1>1. AskTyped'
  BY QuitType DEF RagInv
<1>2. Silent \in AskType /\ Len(Silent.hits) <= TopK
  BY SilentType, FusionAssumption DEF FusionAssumption
<1>3. Silent.at \notin {"fuse", "llm"}
  BY DEF Silent
<1> QED
  BY <1>1, <1>2, <1>3, OneAsk DEF Quit

\* The steps before the search, and another turn of the agent.
LEMMA MoveInv ==
    ASSUME RagInv, NEW r \in Askers, NEW next \in AskType,
           next.hits = ask[r].hits, next.at \notin {"fuse", "llm"},
           ask' = [ask EXCEPT ![r] = next],
           index' \in [initialized : BOOLEAN, corpus : SUBSET Chunk],
           ragReady' \in BOOLEAN, UNCHANGED <<vars, swapped>>
    PROVE  RagInv'
<1>1. Len(next.hits) <= TopK
  BY DEF RagInv, RagBase
<1>2. AskTyped'
  BY DEF RagInv, RagBase, AskTyped
<1> QED
  BY <1>1, <1>2, OneAsk

LEMMA AskInv ==
    ASSUME RagInv, NEW r \in Askers, NEW endpoint \in Questions, Ask(r, endpoint)
    PROVE  RagInv'
<1> DEFINE place == IF endpoint \in Guarded THEN "guard"
                    ELSE IF endpoint \in Chain THEN "list" ELSE "search"
<1> DEFINE next == [Silent EXCEPT !.at = place, !.endpoint = endpoint, !.settled = Settled,
                                  !.guarded = ~swapped /\ endpoint \in Guarded]
<1>1. Settled \in SUBSET Docs
  BY DEF Settled
<1>2. place \in {"guard", "list", "search"}
  OBVIOUS
<1>3. (~swapped /\ endpoint \in Guarded) \in BOOLEAN
  OBVIOUS
<1>4. next \in AskType /\ next.hits = Silent.hits /\ next.at \notin {"fuse", "llm"}
  BY <1>1, <1>2, <1>3, SilentType DEF AskType
<1>5. AskTyped' /\ Len(next.hits) <= TopK
  BY <1>4, SilentType, FusionAssumption DEF Ask, RagInv, RagBase, AskTyped, FusionAssumption
<1>6. ask' = [ask EXCEPT ![r] = next] /\ UNCHANGED vars
  BY DEF Ask
<1> QED
  BY <1>4, <1>5, <1>6, OneAsk

LEMMA SnapshotFacts ==
    ASSUME NEW r \in Askers, Snapshot(r)
    PROVE  \E corpus \in SUBSET Chunk, miss \in BOOLEAN :
               /\ ask' = [ask EXCEPT ![r] = [ask[r] EXCEPT !.at = "build", !.corpus = corpus,
                                                           !.missed = miss]]
               /\ ~miss => corpus = StoredChunks \/ (dim = NoDim /\ ~SharedHash)
<1>1. PICK found \in BOOLEAN :
          /\ Look(found)
          /\ ask' = [ask EXCEPT ![r] = [ask[r] EXCEPT
                         !.at = "build", !.corpus = IF found THEN StoredChunks ELSE {},
                         !.missed = ~found /\ dim # NoDim]]
  BY DEF Snapshot
<1>2. (~found /\ dim # NoDim) \in BOOLEAN /\ (~found => ~SharedHash)
  BY <1>1 DEF Look, CollectionExists
<1>3. PICK corpus \in SUBSET Chunk : corpus = IF found THEN StoredChunks ELSE {}
  BY StoredType
<1>4. PICK miss \in BOOLEAN : miss = (~found /\ dim # NoDim)
  BY <1>2
<1>5. ask' = [ask EXCEPT ![r] = [ask[r] EXCEPT !.at = "build", !.corpus = corpus,
                                               !.missed = miss]]
  BY <1>1, <1>3, <1>4
<1>6. ~miss => corpus = StoredChunks \/ (dim = NoDim /\ ~SharedHash)
  BY <1>2, <1>3, <1>4
<1> QED
  BY <1>5, <1>6

LEMMA CheckInv ==
    ASSUME RagInv, NEW r \in Askers,
           CheckModel(r) \/ CheckListing(r) \/ Snapshot(r) \/ Build(r) \/ SearchAgain(r)
    PROVE  RagInv'
<1>1. /\ ask[r] \in AskType
      /\ index \in [initialized : BOOLEAN, corpus : SUBSET Chunk] /\ ragReady \in BOOLEAN
      /\ ask[r].corpus \in SUBSET Chunk /\ ask[r].guarded \in BOOLEAN
  BY DEF RagInv, RagBase, AskTyped, AskType
<1>2. ASSUME NEW place \in {"list", "search", "snapshot"},
             ask' = [ask EXCEPT ![r].at = place], UNCHANGED <<vars, index, ragReady, swapped>>
      PROVE  RagInv'
  <2> DEFINE next == [ask[r] EXCEPT !.at = place]
  <2>1. next \in AskType /\ next.hits = ask[r].hits /\ next.at \notin {"fuse", "llm"}
    BY <1>1 DEF AskType
  <2>2. ask' = [ask EXCEPT ![r] = next]
    BY <1>2
  <2> QED
    BY <1>1, <1>2, <2>1, <2>2, MoveInv
<1>3. CASE CheckModel(r)
  <2>1. CASE meta \in {NoModel, RagModel}
    <3> DEFINE next == [ask[r] EXCEPT !.at = "list", !.guarded = @ /\ meta = RagModel]
    <3>1. next \in AskType /\ next.hits = ask[r].hits /\ next.at \notin {"fuse", "llm"}
      BY <1>1 DEF AskType
    <3>2. ask' = [ask EXCEPT ![r] = next]
      BY <1>3, <2>1 DEF CheckModel
    <3>3. UNCHANGED <<vars, index, ragReady, swapped>>
      BY <1>3 DEF CheckModel
    <3> QED
      BY <1>1, <3>1, <3>2, <3>3, MoveInv
  <2>2. CASE meta \notin {NoModel, RagModel}
    BY <1>1, <1>3, <2>2, QuitInv DEF CheckModel
  <2> QED
    BY <2>1, <2>2
<1>4. CASE CheckListing(r)
  <2>1. UNCHANGED <<vars, index, ragReady, swapped>>
    BY <1>4 DEF CheckListing
  <2>2. Quit(r) \/ Proceed(r, "search") \/ Proceed(r, "snapshot")
    BY <1>4 DEF CheckListing, FirstRead
  <2> QED
    BY <1>1, <1>2, <2>1, <2>2, QuitInv DEF Proceed
<1>5. CASE Snapshot(r)
  <2>1. PICK corpus \in SUBSET Chunk, miss \in BOOLEAN :
            ask' = [ask EXCEPT ![r] = [ask[r] EXCEPT !.at = "build", !.corpus = corpus,
                                                     !.missed = miss]]
    BY <1>5, SnapshotFacts
  <2> DEFINE next == [ask[r] EXCEPT !.at = "build", !.corpus = corpus, !.missed = miss]
  <2>2. next \in AskType /\ next.hits = ask[r].hits /\ next.at \notin {"fuse", "llm"}
    BY <1>1 DEF AskType
  <2>3. ask' = [ask EXCEPT ![r] = next] /\ UNCHANGED <<vars, index, swapped>>
    BY <1>5, <2>1 DEF Snapshot
  <2>4. ragReady' \in BOOLEAN
    BY <1>5 DEF Snapshot, Look
  <2> QED
    BY <1>1, <2>2, <2>3, <2>4, MoveInv
<1>6. CASE Build(r)
  <2> DEFINE next == [ask[r] EXCEPT !.at = "search", !.corpus = {}]
  <2>1. next \in AskType /\ next.hits = ask[r].hits /\ next.at \notin {"fuse", "llm"}
    BY <1>1 DEF AskType
  <2>2. ask' = [ask EXCEPT ![r] = next] /\ UNCHANGED <<vars, ragReady, swapped>>
    BY <1>6 DEF Build
  <2>3. index' \in [initialized : BOOLEAN, corpus : SUBSET Chunk] /\ ragReady' \in BOOLEAN
    BY <1>1, <1>6 DEF Build
  <2> QED
    BY <2>1, <2>2, <2>3, MoveInv
<1>7. CASE SearchAgain(r)
  BY <1>2, <1>7 DEF SearchAgain, Proceed
<1> QED
  BY <1>3, <1>4, <1>5, <1>6, <1>7

LEMMA SmallTalkInv ==
    ASSUME RagInv, NEW r \in Askers, SmallTalk(r)
    PROVE  RagInv'
<1> DEFINE next == [ask[r] EXCEPT !.at = "llm"]
<1>1. ask[r] \in AskType /\ Len(ask[r].hits) <= TopK
  BY DEF RagInv, RagBase, AskTyped
<1>2. /\ next \in AskType /\ next.hits = ask[r].hits /\ next.endpoint = ask[r].endpoint
      /\ next.at = "llm"
  BY <1>1 DEF AskType
<1>3. ask' = [ask EXCEPT ![r] = next] /\ UNCHANGED vars /\ next.endpoint \notin Chain
  BY <1>2 DEF SmallTalk, Proceed
<1>4. AskTyped'
  BY <1>2, <1>3 DEF SmallTalk, RagInv, RagBase, AskTyped
<1> QED
  BY <1>1, <1>2, <1>3, <1>4, OneAsk

\* A search that does not fail leaves the question with a ranking of what is
\* stored, or with none if no collection was found.
LEMMA SearchFacts ==
    ASSUME NEW r \in Askers, Search(r), ~Quit(r)
    PROVE  \E hits, context, place, miss :
               /\ place \in {"fuse", "llm"} /\ miss \in BOOLEAN
               /\ hits \in Nearest \/ (hits = <<>> /\ ~SharedHash /\ (miss \/ dim = NoDim))
               /\ place = "fuse" => Hybrid /\ context = {}
               /\ place = "llm" => context = Members(hits)
               /\ ask' = [ask EXCEPT ![r] = [ask[r] EXCEPT !.at = place, !.hits = hits,
                                                !.context = context, !.missed = miss]]
<1> DEFINE fused == ask[r].endpoint \in Chain /\ Hybrid
<1>1. PICK found \in BOOLEAN :
          /\ Look(found)
          /\ \E hits \in IF found THEN Nearest ELSE {<<>>} :
                ask' = [ask EXCEPT ![r] = [ask[r] EXCEPT
                            !.at = IF fused THEN "fuse" ELSE "llm", !.hits = hits,
                            !.context = IF fused THEN {} ELSE Members(hits),
                            !.missed = ~found /\ dim # NoDim]]
  BY DEF Search
<1>2. PICK hits \in IF found THEN Nearest ELSE {<<>>} :
          ask' = [ask EXCEPT ![r] = [ask[r] EXCEPT
                      !.at = IF fused THEN "fuse" ELSE "llm", !.hits = hits,
                      !.context = IF fused THEN {} ELSE Members(hits),
                      !.missed = ~found /\ dim # NoDim]]
  BY <1>1
<1> DEFINE place == IF fused THEN "fuse" ELSE "llm"
           context == IF fused THEN {} ELSE Members(hits)
           miss == ~found /\ dim # NoDim
<1>3. place \in {"fuse", "llm"} /\ miss \in BOOLEAN
  OBVIOUS
<1>4. hits \in Nearest \/ (hits = <<>> /\ ~SharedHash /\ (miss \/ dim = NoDim))
  <2>1. ~found => ~SharedHash
    BY <1>1 DEF Look, CollectionExists
  <2> QED
    BY <2>1
<1>5. place = "fuse" => Hybrid /\ context = {}
  OBVIOUS
<1>6. place = "llm" => context = Members(hits)
  OBVIOUS
<1>7. ask' = [ask EXCEPT ![r] = [ask[r] EXCEPT !.at = place, !.hits = hits,
                                    !.context = context, !.missed = miss]]
  BY <1>2
<1> HIDE DEF place, context, miss
<1> WITNESS hits, context, place, miss
<1> QED
  BY <1>3, <1>4, <1>5, <1>6, <1>7

LEMMA SearchInv ==
    ASSUME IsFiniteSet(Docs), IsFiniteSet(Batches), RagInv, NEW r \in Askers, Search(r)
    PROVE  RagInv'
<1>0. UNCHANGED <<vars, index, swapped>> /\ ragReady' \in BOOLEAN
  BY DEF Search, Look
<1>1. CASE Quit(r)
  BY <1>0, <1>1, QuitInv
<1>2. CASE ~Quit(r)
  <2>1. PICK hits, context, place, miss :
            /\ place \in {"fuse", "llm"} /\ miss \in BOOLEAN
            /\ hits \in Nearest \/ (hits = <<>> /\ ~SharedHash /\ (miss \/ dim = NoDim))
            /\ place = "fuse" => Hybrid /\ context = {}
            /\ place = "llm" => context = Members(hits)
            /\ ask' = [ask EXCEPT ![r] = [ask[r] EXCEPT !.at = place, !.hits = hits,
                                             !.context = context, !.missed = miss]]
    BY <1>2, SearchFacts
  <2>2. hits \in Seq(Chunk) /\ Len(hits) <= TopK
    <3>1. 0 <= TopK /\ <<>> \in Seq(Chunk) /\ Len(<<>>) = 0
      BY FusionAssumption DEF FusionAssumption
    <3> QED
      BY <2>1, <3>1, HitsFacts
  <2>3. Members(hits) \in SUBSET Chunk /\ {Key(e) : e \in Members(hits)} = KeysOf(hits)
    BY <2>2, MembersFacts
  <2>4. ask \in [Askers -> AskType] /\ ask[r] \in AskType
    BY DEF RagInv, RagBase, AskTyped
  <2>5. context \in SUBSET Chunk
    BY <2>1, <2>3, <2>4 DEF AskType
  <2> DEFINE next == [ask[r] EXCEPT !.at = place, !.hits = hits, !.context = context,
                                    !.missed = miss]
  <2>6. /\ next \in AskType /\ next.hits = hits /\ next.at = place
        /\ next.context = context
    <3>1. place \in {"fuse", "llm"} /\ miss \in BOOLEAN
      BY <2>1
    <3>2. CASE place = "fuse"
      BY <2>2, <2>4, <2>5, <3>1, <3>2 DEF AskType
    <3>3. CASE place = "llm"
      BY <2>2, <2>4, <2>5, <3>1, <3>3 DEF AskType
    <3> QED
      BY <3>1, <3>2, <3>3
  <2>7. ask' = [ask EXCEPT ![r] = next]
    BY <2>1
  <2> HIDE DEF next
  <2>8. AskTyped'
    BY <1>0, <2>4, <2>6, <2>7 DEF RagInv, RagBase, AskTyped
  <2> QED
    BY <1>0, <2>1, <2>2, <2>3, <2>6, <2>7, <2>8, OneAsk
<1> QED
  BY <1>1, <1>2

LEMMA FuseInv ==
    ASSUME RagInv, NEW r \in Askers, Fuse(r)
    PROVE  RagInv'
<1> DEFINE hits == ask[r].hits
<1>1. ask \in [Askers -> AskType] /\ ask[r] \in AskType /\ hits \in Seq(Chunk) /\ Len(hits) <= TopK
  BY DEF RagInv, RagBase, AskTyped, AskType
<1>h. Hybrid
  BY DEF RagInv, FusesIfHybrid, Fuse, AskAt
<1>2. PICK context \in SUBSET Chunk :
          /\ ask' = [ask EXCEPT ![r] = [ask[r] EXCEPT !.at = "llm", !.context = context]]
          /\ Weighted => KeysOf(hits) \subseteq {Key(e) : e \in context}
  <2>1. CASE index.corpus = {}
    <3>1. Members(hits) \in SUBSET Chunk /\ {Key(e) : e \in Members(hits)} = KeysOf(hits)
      BY <1>1, MembersFacts
    <3> QED
      BY <2>1, <3>1 DEF Fuse
  <2>2. CASE index.corpus # {}
    <3>1. PICK lexical \in Lexical(r) :
              ask' = [ask EXCEPT ![r] = [ask[r] EXCEPT !.at = "llm",
                                                       !.context = Fused(lexical, hits)]]
      BY <2>2 DEF Fuse
    <3>2. lexical \in Seq(Chunk)
      BY LexicalFacts DEF RagInv
    <3>3. Weighted => KeysOf(hits) \subseteq Best(lexical, hits)
      BY <1>1, <1>h, <3>2, FusionAssumption, FusionKeepsVectorHits DEF Weighted
    <3>4. /\ Fused(lexical, hits) \in SUBSET Chunk
          /\ Best(lexical, hits) \subseteq {Key(e) : e \in Fused(lexical, hits)}
      BY <1>1, <3>2, FusedChunks
    <3> QED
      BY <3>1, <3>3, <3>4
  <2> QED
    BY <2>1, <2>2
<1> DEFINE next == [ask[r] EXCEPT !.at = "llm", !.context = context]
<1>3. next \in AskType /\ next.hits = hits /\ next.context = context /\ next.at = "llm"
  BY <1>1 DEF AskType
<1>4. UNCHANGED <<vars, index, ragReady, swapped>>
  BY DEF Fuse
<1>5. AskTyped'
  BY <1>1, <1>2, <1>3, <1>4 DEF RagInv, RagBase, AskTyped
<1> QED
  BY <1>1, <1>2, <1>3, <1>4, <1>5, OneAsk

LEMMA RestartInv ==
    ASSUME RagInv, RagRestart
    PROVE  RagInv'
<1>1. Base'
  <2>1. [Next]_vars
    BY DEF RagRestart
  <2> QED
    BY <2>1, BaseStep DEF RagInv, RagBase
<1>2. AskTyped'
  BY SilentType DEF RagRestart, NoIndex, RagInv, RagBase, AskTyped
<1>3. \A x \in Askers : ask'[x] = Silent
  BY DEF RagRestart
<1>4. \A x \in Askers : Len(ask'[x].hits) <= TopK
  BY <1>3, SilentType, FusionAssumption DEF FusionAssumption
<1>5. VectorHitsSurvive'
  BY <1>3 DEF VectorHitsSurvive, Contexts, AskAt, Silent
<1>6. FusesIfHybrid'
  BY <1>3 DEF FusesIfHybrid, Silent
<1> QED
  BY <1>1, <1>2, <1>4, <1>5, <1>6 DEF RagInv, RagBase

LEMMA RagInvStep ==
    ASSUME IsFiniteSet(Docs), IsFiniteSet(Batches), RagInv, [RagNext]_ragVars
    PROVE  RagInv'
<1>1. CASE Write
  BY <1>1, WriteInv
<1>2. ASSUME NEW r \in Askers, Read(r) PROVE RagInv'
  <2>1. CASE \E e \in Questions : Ask(r, e)
    BY <2>1, AskInv
  <2>2. CASE CheckModel(r) \/ CheckListing(r) \/ Snapshot(r) \/ Build(r) \/ SearchAgain(r)
    BY <2>2, CheckInv
  <2>3. CASE SmallTalk(r)
    BY <2>3, SmallTalkInv
  <2>4. CASE Search(r)
    BY <2>4, SearchInv
  <2>5. CASE Fuse(r)
    BY <2>5, FuseInv
  <2>6. CASE Leave(r)
    BY <2>6, QuitInv DEF Leave, RagInv, RagBase, AskTyped
  <2> QED
    BY <1>2, <2>1, <2>2, <2>3, <2>4, <2>5, <2>6 DEF Read
<1>3. CASE RagRestart
  BY <1>3, RestartInv
<1>4. CASE UNCHANGED ragVars
  <2>1. [Next]_vars
    BY <1>4 DEF ragVars
  <2>2. Base'
    BY <2>1, BaseStep DEF RagInv, RagBase
  <2> QED
    BY <1>4, <2>2 DEF ragVars, RagInv, RagBase, AskTyped, FusesIfHybrid, VectorHitsSurvive, Contexts, AskAt, FoundKeys
<1> QED
  BY <1>1, <1>2, <1>3, <1>4 DEF RagNext

\* The variables of both services keep their types, whatever requests overlap
\* and are cut short, questions fail and processes restart.
THEOREM RagTypeCorrect ==
    ASSUME IsFiniteSet(Docs), IsFiniteSet(Batches)
    PROVE  RagSpec => []RagTypeOK
<1>1. RagInv /\ [RagNext]_ragVars => RagInv'
  BY RagInvStep
<1>2. RagInv => RagTypeOK
  BY DEF RagInv, RagBase, Base, AskTyped, RagTypeOK
<1> QED
  BY RagInvInit, <1>1, <1>2, PTL DEF RagSpec

\* Hybrid search, if it is on, never answers from less than plain vector search:
\* with weights under which a vector hit outweighs every other chunk (0.6 and 0.4
\* do up to a top_k of 31), no lexical ranking, however stale, displaces a chunk
\* the vector search returned.
THEOREM FusionDisplacesNothing ==
    ASSUME IsFiniteSet(Docs), IsFiniteSet(Batches), Weighted
    PROVE  RagSpec => []VectorHitsSurvive
<1>1. RagInv /\ [RagNext]_ragVars => RagInv'
  BY RagInvStep
<1>2. RagInv => VectorHitsSurvive
  BY DEF RagInv
<1> QED
  BY RagInvInit, <1>1, <1>2, PTL DEF RagSpec

-----------------------------------------------------------------------------
(***************************************************************************)
(* The read side over the write side.  IngestInv holds of the stores the   *)
(* question reads, and ReadInv is inductive with it.                       *)
(***************************************************************************)

\* A step of the read side changes nothing of the write side.
LEMMA ReadsLeaveStores == [RagNext]_ragVars => [Next]_vars
<1> SUFFICES ASSUME [RagNext]_ragVars PROVE [Next]_vars
  OBVIOUS
<1>1. CASE UNCHANGED ragVars
  BY <1>1 DEF ragVars
<1>2. CASE Write
  BY <1>2 DEF Write
<1>3. ASSUME NEW r \in Askers, Read(r)
      PROVE  [Next]_vars
  BY <1>3 DEF Read, Ask, CheckModel, CheckListing, SmallTalk, Snapshot, Build, Search, Fuse,
              SearchAgain, Leave
<1>4. CASE RagRestart
  BY <1>4 DEF RagRestart
<1> QED
  BY <1>1, <1>2, <1>3, <1>4 DEF RagNext

\* What was answered about a document stays answered until a request about it
\* begins.
LEMMA PromiseKept ==
    ASSUME IngestInv, Next, NEW d \in Docs, acked[d] # Unknown, acked'[d] # Unknown
    PROVE  acked'[d] = acked[d]
<1>1. Base /\ \A c \in Clients : Unpromised(req[c])
  BY DEF IngestInv, Base
<1>2. ASSUME NEW c \in Clients, NEW call \in Call, Begin(c, call)
      PROVE  acked'[d] = acked[d]
  BY <1>2 DEF Begin
<1>3. ASSUME NEW c \in Clients, Step(c) \/ Fail(c)
      PROVE  acked'[d] = acked[d]
  <2>1. req[c] # Idle /\ (acked' = acked \/ (Answer(c) /\ c \in alone))
    BY <1>1, <1>3, StepKept, StepLocal
  <2>2. req[c].kind # "replace" /\ d # req[c].doc
    BY <1>1, <2>1 DEF Unpromised
  <2>3. Promise(req[c], d) = acked[d]
    BY <2>2 DEF Promise
  <2> QED
    BY <2>1, <2>3 DEF Answer
<1>4. ASSUME NEW p \in Processes, Crash(p)
      PROVE  acked'[d] = acked[d]
  BY <1>4 DEF Crash
<1>5. ASSUME NEW c \in Clients, Rewrite(c)
      PROVE  acked'[d] = acked[d]
  BY <1>5 DEF Rewrite, CopyKb, RewriteKb
<1> QED
  BY <1>2, <1>3, <1>4, <1>5 DEF Next

-----------------------------------------------------------------------------
(***************************************************************************)
(* One model.                                                              *)
(***************************************************************************)
\* A chunk becomes searchable when its append puts it, with meta on its side.
LEMMA NewlySearchable ==
    ASSUME Base, NEW c \in Clients, Step(c) \/ Fail(c), req[c].kind # "replace",
           NEW d \in Docs, NEW b \in Searchable(d)', b \notin Searchable(d)
    PROVE  /\ b = req[c].batch /\ req[c].kind = "append"
           /\ req[c].at \notin {"guard", "stamp"} /\ meta' = meta
<1>r. req[c] \in ReqType /\ Shaped(req[c])
  BY DEF Base, TypeOK
<1>b. b \in IF SharedHash THEN {kb'[d]} \ {NoBatch} ELSE points'[d]
  BY DEF Searchable
<1>1. CASE PutPoints(c) \/ UpsertHash(c) \/ AppendKb(c)
  <2>1. req[c].at \in {"point", "hash", "kb"} /\ meta' = meta
    BY <1>1 DEF PutPoints, UpsertHash, AppendKb, At
  <2>2. req[c].kind = "append"
    BY <1>r, <2>1, PhaseFacts DEF Upsert
  <2>3. b = req[c].batch
    <3>1. CASE SharedHash
      BY <1>1, <1>b, <3>1 DEF PutPoints, UpsertHash, AppendKb, Searchable, Base, TypeOK
    <3>2. CASE ~SharedHash
      BY <1>1, <1>b, <3>2 DEF PutPoints, UpsertHash, AppendKb, Searchable, Base, TypeOK
    <3> QED
      BY <3>1, <3>2
  <2> QED
    BY <2>1, <2>2, <2>3
<1>2. ASSUME ~(PutPoints(c) \/ UpsertHash(c) \/ AppendKb(c))
      PROVE  FALSE
  <2>1. ~ReplaceKb(c)
    BY DEF ReplaceKb
  <2>2. kb'[d] \in {kb[d], NoBatch} /\ points'[d] \subseteq points[d]
    BY <1>2, <2>1
       DEF Step, Fail, Guard, GuardRefuses, Stamp, ListVectors, DropListed, DropDone, DropVectors,
           EnsureCollection, CreateCollection, CreateRefused, DeletePoints, PutRefused,
           ClearMeta, WriteMeta, DeleteKb, DeleteUnknown, DeleteVectors, Answer, Base, TypeOK
  <2> QED
    BY <1>b, <2>2 DEF Searchable
<1> QED
  BY <1>1, <1>2

\* A replacement that is alone is the only request, and what it answers for is
\* all that can be searched.
LEMMA MendedFacts ==
    ASSUME IngestInv, Mended
    PROVE  ~Disturbed' /\ \A d \in Docs : \A b \in Searchable(d)' : ModelOf[b] = meta'
<1>1. PICK c \in alone : Answer(c) /\ req[c].kind = "replace" /\ ~req[c].missed
  BY DEF Mended
<1>b. Base /\ c \in Clients /\ WorkDone(req[c]) /\ \A x \in Clients : Counted(x)
  BY DEF IngestInv, Base, TypeOK
<1>2. req'[c] = Idle /\ Kept(c) /\ req[c].at = "answer"
  BY <1>1, <1>b, EndKept DEF Answer, At
<1>3. \A x \in Clients : req'[x] = Idle
  <2>1. ASSUME NEW x \in Clients, x # c, req[x] # Idle PROVE FALSE
    <3>1. req[c] # Idle
      BY <1>2 DEF Idle
    <3> QED
      BY <1>1, <1>b, <2>1, <3>1, AloneFacts
  <2> QED
    BY <1>2, <2>1 DEF Kept
<1>4. \A d \in Docs : \A b \in Searchable(d) : ModelOf[b] = meta
  <2>1. \A d \in Docs : Searchable(d) = IF d = req[c].doc THEN {req[c].batch} ELSE {}
    <3>1. /\ Searchable(req[c].doc) = {req[c].batch}
          /\ \A d \in Docs \ {req[c].doc} : Searchable(d) = {}
      BY <1>1, <1>b, <1>2 DEF WorkDone, ReplaceDone
    <3> QED
      BY <3>1
  <2>2. meta = ModelOf[req[c].batch]
    BY <1>1, <1>b, <1>2 DEF WorkDone, ReplaceDone
  <2> QED
    BY <2>1, <2>2
<1>5. meta' = meta /\ \A d \in Docs : Searchable(d)' = Searchable(d)
  BY <1>1 DEF Answer, Searchable
<1> QED
  BY <1>3, <1>4, <1>5 DEF Disturbed

\* While nothing is swapped, a request's own step keeps one model and a record
\* that is there.
LEMMA OneModelStep ==
    ASSUME IngestInv, OneModel, ~swapped, NEW c \in Clients, Step(c) \/ Fail(c)
    PROVE  /\ \A d \in Docs : \A b \in Searchable(d)' : ModelOf[b] = meta'
           /\ meta # NoModel => meta' = meta
<1>b. Base /\ req[c] # Idle
  BY StepKept DEF IngestInv, Base
<1>1. c \in alone /\ req[c].kind # "replace" /\ WorkDone(req[c])
  <2>1. c \in alone /\ req[c].kind # "replace"
    BY <1>b DEF OneModel, Disturbed
  <2> QED
    BY <2>1 DEF IngestInv
<1>m. /\ NoModel \notin Models /\ ModelOf \in [Batches -> Models]
      /\ \A d \in Docs : Searchable(d) \subseteq Batches
  BY <1>b, IngestAssumption DEF IngestAssumption, Searchable, Base, TypeOK
<1>2. At(c, "stamp") /\ req[c].kind = "append" => meta \in {NoModel, ModelOf[req[c].batch]}
  BY <1>1 DEF At, WorkDone, AppendDone
<1>3. meta # NoModel => meta' = meta
  BY <1>b, <1>1, <1>2, StepLocal
<1>4. ASSUME NEW d \in Docs, NEW b \in Searchable(d)'
      PROVE  ModelOf[b] = meta'
  <2>1. CASE b \in Searchable(d)
    <3>1. ModelOf[b] = meta /\ meta # NoModel
      BY <1>m, <2>1 DEF OneModel
    <3> QED
      BY <1>3, <3>1
  <2>2. CASE b \notin Searchable(d)
    <3>1. /\ b = req[c].batch /\ req[c].kind = "append"
          /\ req[c].at \notin {"guard", "stamp"} /\ meta' = meta
      BY <1>b, <1>1, <2>2, NewlySearchable
    <3> QED
      BY <1>1, <3>1 DEF WorkDone, AppendDone
  <2> QED
    BY <2>1, <2>2
<1> QED
  BY <1>3, <1>4

LEMMA OneModelNext ==
    ASSUME IngestInv, OneModel, ~swapped, Next
    PROVE  /\ \A d \in Docs : \A b \in Searchable(d)' : ModelOf[b] = meta'
           /\ meta # NoModel => meta' = meta
<1>1. ASSUME NEW c \in Clients, NEW call \in Call, Begin(c, call)
      PROVE  meta' = meta /\ \A d \in Docs : Searchable(d)' = Searchable(d)
  BY <1>1 DEF Begin, Searchable
<1>2. ASSUME NEW p \in Processes, Crash(p)
      PROVE  meta' = meta /\ \A d \in Docs : Searchable(d)' = Searchable(d)
  BY <1>2 DEF Crash, Searchable
<1>3. CASE meta' = meta /\ \A d \in Docs : Searchable(d)' = Searchable(d)
  BY <1>3 DEF OneModel
<1>4. ASSUME NEW c \in Clients, Rewrite(c)
      PROVE  FALSE
  <2>1. req[c] # Idle /\ c \notin alone
    <3>1. /\ Rewriting(req[c]) => c \notin alone
          /\ Idle.at = "idle"
      BY DEF IngestInv, Counted, Idle
    <3> QED
      BY <1>4, <3>1 DEF Rewrite, CopyKb, RewriteKb, At, Rewriting
  <2> QED
    BY <2>1 DEF OneModel, Disturbed
<1> QED
  BY <1>1, <1>2, <1>3, <1>4, OneModelStep DEF Next

LEMMA OneModelWrite ==
    ASSUME IngestInv, OneModel, Next, swapped' = (Disturbed' \/ (swapped /\ ~Mended))
    PROVE  OneModel'
<1> SUFFICES ASSUME ~swapped'
             PROVE  ~Disturbed' /\ \A d \in Docs : \A b \in Searchable(d)' : ModelOf[b] = meta'
  BY DEF OneModel
<1>1. CASE ~swapped
  BY <1>1, OneModelNext
<1>2. CASE swapped
  BY <1>2, MendedFacts
<1> QED
  BY <1>1, <1>2

-----------------------------------------------------------------------------
(***************************************************************************)
(* A step of the write side.                                               *)
(***************************************************************************)

\* The collection is there to stay.
LEMMA DimStays ==
    ASSUME Base, Next, dim # NoDim
    PROVE  dim' # NoDim
<1>1. ASSUME NEW c \in Clients, NEW call \in Call, Begin(c, call)
      PROVE  dim' = dim
  BY <1>1 DEF Begin
<1>2. ASSUME NEW c \in Clients, Step(c) \/ Fail(c)
      PROVE  dim' = dim
  BY <1>2
     DEF Step, Fail, Guard, GuardRefuses, Stamp, ListVectors, DropListed, DropDone,
         EnsureCollection, CreateCollection, CreateRefused, DeletePoints, PutPoints, PutRefused,
         UpsertHash, AppendKb, ReplaceKb, ClearMeta, WriteMeta, DeleteKb, DeleteUnknown,
         DeleteVectors, Answer
<1>3. ASSUME NEW p \in Processes, Crash(p)
      PROVE  dim' = dim
  BY <1>3 DEF Crash
<1>4. ASSUME NEW c \in Clients, Rewrite(c)
      PROVE  dim' = dim
  BY <1>4 DEF Rewrite, CopyKb, RewriteKb
<1> QED
  BY <1>1, <1>2, <1>3, <1>4 DEF Next

\* A stamp never changes a record that is there.
LEMMA MetaStands ==
    ASSUME IngestInv, OneModel, Next, ~swapped, meta # NoModel
    PROVE  meta' = meta
BY OneModelNext

LEMMA GuardWrite ==
    ASSUME RagBase, IngestInv, OneModel, Write,
           NEW r \in Askers, GuardStands(ask[r])
    PROVE  GuardStands(ask[r])'
<1> SUFFICES ASSUME ask'[r].guarded
             PROVE  /\ ~swapped'
                    /\ ask'[r].at # "guard" => meta' = RagModel
                    /\ \A e \in Members(ask'[r].hits) : ModelOf[e.batch] = RagModel
  BY DEF GuardStands, Members
<1>1. /\ ask'[r].at = ask[r].at /\ ask'[r].hits = ask[r].hits
      /\ ask[r].guarded /\ ~swapped'
  BY WriteAsk
<1>2. /\ ~swapped
      /\ ask[r].at # "guard" => meta = RagModel
      /\ \A e \in Members(ask[r].hits) : ModelOf[e.batch] = RagModel
  BY <1>1 DEF GuardStands
<1>3. meta = RagModel => meta' = RagModel
  <2>1. RagModel # NoModel
    BY RagAssumption, IngestAssumption DEF RagAssumption, IngestAssumption
  <2> QED
    BY <1>2, <2>1, MetaStands DEF Write
<1> QED
  BY <1>1, <1>2, <1>3

\* The documents a question may still rely on, after a request's step.
LEMMA SettledWrite ==
    ASSUME RagBase, IngestInv, Write, NEW r \in Askers,
           RankedWell(ask[r]), NEW d \in ask'[r].settled
    PROVE  /\ d \in Docs /\ d \in ask[r].settled
           /\ acked'[d] = acked[d] /\ acked[d] # Unknown
<1>1. ask'[r].settled = ask[r].settled \cap Settled' /\ ask[r].settled \subseteq Docs
  BY WriteAsk DEF RagBase, AskTyped, AskType
<1>2. d \in Docs /\ d \in ask[r].settled /\ acked'[d] # Unknown
  BY <1>1 DEF Settled
<1>3. acked[d] # Unknown
  BY <1>2 DEF RankedWell
<1> QED
  BY <1>2, <1>3, PromiseKept DEF Write

LEMMA RankedWrite ==
    ASSUME RagBase, IngestInv, Write,
           NEW r \in Askers, RankedWell(ask[r])
    PROVE  RankedWell(ask[r])'
<1>1. /\ ask'[r].at = ask[r].at /\ ask'[r].hits = ask[r].hits
      /\ ask'[r].endpoint = ask[r].endpoint /\ ask'[r].missed = ask[r].missed
  BY WriteAsk
<1>2. ASSUME NEW d \in ask'[r].settled
      PROVE  /\ acked'[d] # Unknown
             /\ {e \in Members(ask'[r].hits) : e.doc = d} \subseteq Promised(d)'
             /\ ask'[r].at \in {"fuse", "llm"} /\ ask'[r].endpoint \in Chain /\ ~ask'[r].missed =>
                    Complete(ask[r], d)'
  <2>1. d \in ask[r].settled /\ acked'[d] = acked[d] /\ acked[d] # Unknown
    BY <1>2, SettledWrite
  <2>2. Promised(d)' = Promised(d)
    BY <2>1 DEF Promised, ChunksOf
  <2>3. {e \in Members(ask[r].hits) : e.doc = d} \subseteq Promised(d)
    BY <2>1 DEF RankedWell
  <2>4. ask[r].at \in {"fuse", "llm"} /\ ask[r].endpoint \in Chain /\ ~ask[r].missed =>
            Complete(ask[r], d)
    BY <2>1 DEF RankedWell
  <2>5. Complete(ask[r], d) => Complete(ask[r], d)'
    BY <1>1, <2>2 DEF Complete
  <2> QED
    BY <1>1, <2>1, <2>2, <2>3, <2>4, <2>5
<1> QED
  BY <1>2 DEF RankedWell, Members

LEMMA ListingWrite ==
    ASSUME RagBase, IngestInv, Write,
           NEW r \in Askers, RankedWell(ask[r]), ListingStands(ask[r])
    PROVE  ListingStands(ask[r])'
<1> SUFFICES ASSUME ask'[r].settled = Docs
             PROVE  /\ ask'[r].at = "snapshot" => \E d \in Docs : acked'[d] \in Batches
                    /\ ask'[r].at = "build" => ask'[r].corpus # {} \/ ask'[r].missed
  BY DEF ListingStands
<1>1. ask[r].settled = Docs
  <2>1. ask[r].settled \subseteq Docs
    BY DEF RagBase, AskTyped, AskType
  <2>2. Docs = ask[r].settled \cap Settled'
    BY WriteAsk
  <2> QED
    BY <2>1, <2>2
<1>2. \A d \in Docs : acked'[d] = acked[d]
  BY SettledWrite
<1> QED
  BY <1>1, <1>2, WriteAsk DEF ListingStands

LEMMA ReadWrite ==
    ASSUME RagBase, IngestInv, ReadInv, Write
    PROVE  ReadInv'
<1>1. OneModel'
  BY OneModelWrite DEF ReadInv, Write
<1>c. ragReady' => dim' # NoDim
  BY DimStays DEF ReadInv, Write, RagBase
<1>2. ASSUME NEW r \in Askers
      PROVE  GuardStands(ask[r])' /\ RankedWell(ask[r])' /\ ListingStands(ask[r])'
  BY GuardWrite, RankedWrite, ListingWrite DEF ReadInv
<1> QED
  BY <1>1, <1>c, <1>2 DEF ReadInv

-----------------------------------------------------------------------------
(***************************************************************************)
(* A step of the read side.                                                *)
(***************************************************************************)
StandsFor(q) == GuardStands(q) /\ RankedWell(q) /\ ListingStands(q)

\* What stands for a question stands while the stores do.
LEMMA SameStands ==
    ASSUME NEW x \in Askers, NEW q, ask'[x] = q, StandsFor(q), UNCHANGED <<vars, swapped>>
    PROVE  GuardStands(ask[x])' /\ RankedWell(ask[x])' /\ ListingStands(ask[x])'
<1>1. GuardStands(ask[x])'
  BY DEF StandsFor, GuardStands, Members, vars
<1>2. RankedWell(ask[x])'
  <2>1. acked' = acked /\ \A d : Promised(d)' = Promised(d)
    BY DEF vars, Promised, ChunksOf
  <2>2. \A d : Complete(q, d) => Complete(ask[x], d)'
    BY <2>1 DEF Complete
  <2> QED
    BY <2>1, <2>2 DEF StandsFor, RankedWell, Members
<1>3. ListingStands(ask[x])'
  BY DEF StandsFor, ListingStands, vars
<1> QED
  BY <1>1, <1>2, <1>3

LEMMA OneRead ==
    ASSUME RagBase, ReadInv, NEW r \in Askers, NEW next, StandsFor(next),
           ask' = [ask EXCEPT ![r] = next], UNCHANGED <<vars, swapped>>,
           ragReady' => ragReady \/ dim # NoDim
    PROVE  ReadInv'
<1>1. OneModel' /\ (ragReady' => dim' # NoDim)
  BY DEF ReadInv, OneModel, Disturbed, vars, Searchable
<1>2. ASSUME NEW x \in Askers
      PROVE  GuardStands(ask[x])' /\ RankedWell(ask[x])' /\ ListingStands(ask[x])'
  <2>1. ask'[x] = next \/ ask'[x] = ask[x]
    BY DEF RagBase, AskTyped
  <2>2. PICK q : ask'[x] = q /\ StandsFor(q)
    BY <2>1 DEF ReadInv, StandsFor
  <2> QED
    BY <2>2, SameStands
<1> QED
  BY <1>1, <1>2 DEF ReadInv

LEMMA QuitRead ==
    ASSUME RagBase, ReadInv, NEW r \in Askers, Quit(r), UNCHANGED <<vars, swapped>>,
           ragReady' => ragReady \/ dim # NoDim
    PROVE  ReadInv'
<1>1. StandsFor(Silent)
  BY DEF StandsFor, GuardStands, RankedWell, ListingStands, Silent
<1> QED
  BY <1>1, OneRead DEF Quit

LEMMA AskRead ==
    ASSUME RagBase, ReadInv, NEW r \in Askers, NEW endpoint \in Questions, Ask(r, endpoint)
    PROVE  ReadInv'
<1> DEFINE place == IF endpoint \in Guarded THEN "guard"
                    ELSE IF endpoint \in Chain THEN "list" ELSE "search"
<1> DEFINE next == [Silent EXCEPT !.at = place, !.endpoint = endpoint, !.settled = Settled,
                                  !.guarded = ~swapped /\ endpoint \in Guarded]
<1>1. /\ next.at = place /\ next.settled = Settled /\ next.hits = <<>>
      /\ next.guarded = (~swapped /\ endpoint \in Guarded)
  BY DEF Silent
<1>2. ask' = [ask EXCEPT ![r] = next] /\ UNCHANGED <<vars, ragReady, swapped>>
  BY DEF Ask
<1> HIDE DEF next
<1>3. Members(next.hits) = {}
  BY <1>1 DEF Members
<1>4. GuardStands(next)
  BY <1>1, <1>3 DEF GuardStands
<1>5. RankedWell(next)
  BY <1>1, <1>3 DEF RankedWell, Settled
<1>6. ListingStands(next)
  BY <1>1 DEF ListingStands
<1> QED
  BY <1>2, <1>4, <1>5, <1>6, OneRead DEF StandsFor

\* A step that moves a question on and reads no chunk.
LEMMA MoveRead ==
    ASSUME RagBase, ReadInv, NEW r \in Askers, NEW place,
           ask' = [ask EXCEPT ![r].at = place], UNCHANGED <<vars, ragReady, swapped>>,
           ask[r].at # "guard", place \notin {"build", "fuse"},
           place = "llm" => ask[r].endpoint \notin Chain,
           place = "snapshot" /\ ask[r].settled = Docs => \E d \in Docs : acked[d] \in Batches
    PROVE  ReadInv'
<1> DEFINE next == [ask[r] EXCEPT !.at = place]
<1>1. /\ next.at = place /\ next.settled = ask[r].settled /\ next.hits = ask[r].hits
      /\ next.guarded = ask[r].guarded /\ next.endpoint = ask[r].endpoint
  BY DEF RagBase, AskTyped, AskType
<1>2. ask' = [ask EXCEPT ![r] = next]
  OBVIOUS
<1> HIDE DEF next
<1>3. GuardStands(ask[r]) /\ RankedWell(ask[r])
  BY DEF ReadInv
<1>4. GuardStands(next)
  BY <1>1, <1>3 DEF GuardStands
<1>5. RankedWell(next)
  BY <1>1, <1>3 DEF RankedWell
<1>6. ListingStands(next)
  BY <1>1 DEF ListingStands
<1> QED
  BY <1>2, <1>4, <1>5, <1>6, OneRead DEF StandsFor

LEMMA ModelRead ==
    ASSUME RagBase, ReadInv, NEW r \in Askers, CheckModel(r)
    PROVE  ReadInv'
<1>1. CASE meta \notin {NoModel, RagModel}
  BY <1>1, QuitRead DEF CheckModel
<1>2. CASE meta \in {NoModel, RagModel}
  <2> DEFINE next == [ask[r] EXCEPT !.at = "list", !.guarded = @ /\ meta = RagModel]
  <2>1. /\ next.at = "list" /\ next.settled = ask[r].settled /\ next.hits = ask[r].hits
        /\ next.guarded = (ask[r].guarded /\ meta = RagModel)
        /\ next.endpoint = ask[r].endpoint
    BY DEF RagBase, AskTyped, AskType
  <2>2. ask' = [ask EXCEPT ![r] = next] /\ UNCHANGED <<vars, ragReady, swapped>>
    BY <1>2 DEF CheckModel
  <2> HIDE DEF next
  <2>3. GuardStands(ask[r]) /\ RankedWell(ask[r])
    BY DEF ReadInv
  <2>4. GuardStands(next)
    BY <2>1, <2>3 DEF GuardStands
  <2>5. RankedWell(next)
    BY <2>1, <2>3 DEF RankedWell
  <2>6. ListingStands(next)
    BY <2>1 DEF ListingStands
  <2> QED
    BY <2>2, <2>4, <2>5, <2>6, OneRead DEF StandsFor
<1> QED
  BY <1>1, <1>2

\* What is answered of a document is all of it that can be searched.
LEMMA PromisedIsStored ==
    ASSUME IngestInv, NEW d \in Docs, acked[d] # Unknown
    PROVE  {e \in StoredChunks : e.doc = d} = Promised(d)
<1>1. /\ acked[d] \in Batches => Searchable(d) = {acked[d]}
      /\ acked[d] \notin Batches => Searchable(d) = {}
  BY DEF IngestInv, AnswersHold, TypeOK
<1>2. ChunkCount \in [Batches -> Nat \ {0}]
  BY IngestAssumption DEF IngestAssumption
<1>3. \A e \in StoredChunks : e.batch \in Searchable(e.doc) /\ e \in ChunksOf(e.doc, e.batch)
  BY DEF StoredChunks, ChunksOf
<1>4. CASE acked[d] \in Batches
  <2>1. \A e \in StoredChunks : e.doc = d => e \in ChunksOf(d, acked[d])
    BY <1>1, <1>3, <1>4
  <2>2. ASSUME NEW e \in ChunksOf(d, acked[d])
        PROVE  e \in StoredChunks /\ e.doc = d
    <3>1. e.doc = d /\ e.batch = acked[d]
      BY DEF ChunksOf
    <3>2. \A b \in Searchable(e.doc) : ~(ChunkCount[b] < ChunkCount[e.batch])
      BY <1>1, <1>2, <1>4, <3>1
    <3>3. e \in UNION {ChunksOf(x, b) : x \in Docs, b \in Batches}
      BY <1>4
    <3> QED
      BY <1>1, <1>4, <3>1, <3>2, <3>3 DEF StoredChunks
  <2> QED
    BY <1>4, <2>1, <2>2 DEF Promised
<1>5. CASE acked[d] \notin Batches
  <2>1. \A e \in StoredChunks : e.doc # d
    BY <1>1, <1>3, <1>5
  <2> QED
    BY <1>5, <2>1 DEF Promised
<1> QED
  BY <1>4, <1>5

LEMMA ListRead ==
    ASSUME RagBase, IngestInv, ReadInv, NEW r \in Askers,
           CheckListing(r) \/ SmallTalk(r) \/ SearchAgain(r)
    PROVE  ReadInv'
<1>1. CASE CheckListing(r)
  <2>1. CASE Quit(r)
    BY <1>1, <2>1, QuitRead DEF CheckListing
  <2>2. CASE ~Quit(r)
    <3>1. PICK place \in {"search", "snapshot"} :
              /\ ask' = [ask EXCEPT ![r].at = place]
              /\ place = "snapshot" => \E d \in Docs : kb[d] # NoBatch
      BY <1>1, <2>2 DEF CheckListing, Proceed, FirstRead
    <3>2. ASSUME NEW d \in Docs, kb[d] # NoBatch, ask[r].settled = Docs
          PROVE  acked[d] \in Batches
      <4>1. acked[d] # Unknown
        BY <3>2 DEF ReadInv, RankedWell
      <4>2. acked[d] # NoBatch
        BY <3>2 DEF IngestInv, AnswersHold
      <4> QED
        BY <4>1, <4>2 DEF IngestInv, TypeOK
    <3>3. UNCHANGED <<vars, ragReady, swapped>> /\ ask[r].at # "guard"
      BY <1>1 DEF CheckListing, AskAt
    <3> QED
      BY <3>1, <3>2, <3>3, MoveRead
  <2> QED
    BY <2>1, <2>2
<1>2. CASE SmallTalk(r)
  <2>1. PICK place \in {"llm"} :
            /\ ask' = [ask EXCEPT ![r].at = place] /\ UNCHANGED <<vars, ragReady, swapped>>
            /\ ask[r].at # "guard" /\ ask[r].endpoint \notin Chain
    BY <1>2 DEF SmallTalk, AskAt, Proceed
  <2> QED
    BY <2>1, MoveRead
<1>3. CASE SearchAgain(r)
  <2>1. PICK place \in {"search"} :
            /\ ask' = [ask EXCEPT ![r].at = place] /\ UNCHANGED <<vars, ragReady, swapped>>
            /\ ask[r].at # "guard"
    BY <1>3 DEF SearchAgain, AskAt, Proceed
  <2> QED
    BY <2>1, MoveRead
<1> QED
  BY <1>1, <1>2, <1>3

\* Where there is no collection, nothing is promised.
LEMMA NothingPromised ==
    ASSUME IngestInv, dim = NoDim, ~SharedHash, NEW d \in Docs
    PROVE  acked[d] \notin Batches
BY DEF IngestInv, Collected, AnswersHold, Searchable

LEMMA IndexRead ==
    ASSUME RagBase, IngestInv, ReadInv, NEW r \in Askers, Snapshot(r) \/ Build(r)
    PROVE  ReadInv'
<1>1. PICK place \in {"build", "search"}, corpus \in SUBSET Chunk, miss \in BOOLEAN :
          /\ ask' = [ask EXCEPT ![r] = [ask[r] EXCEPT !.at = place, !.corpus = corpus,
                                                      !.missed = miss]]
          /\ place = "build" =>
                 Snapshot(r) /\ (miss \/ corpus = StoredChunks \/ (dim = NoDim /\ ~SharedHash))
  <2>1. CASE Snapshot(r)
    <3>1. PICK corpus \in SUBSET Chunk, miss \in BOOLEAN :
              /\ ask' = [ask EXCEPT ![r] = [ask[r] EXCEPT !.at = "build", !.corpus = corpus,
                                                          !.missed = miss]]
              /\ ~miss => corpus = StoredChunks \/ (dim = NoDim /\ ~SharedHash)
      BY <2>1, SnapshotFacts
    <3> WITNESS "build" \in {"build", "search"}, corpus \in SUBSET Chunk, miss \in BOOLEAN
    <3> QED
      BY <2>1, <3>1
  <2>2. CASE Build(r)
    <3>1. ask[r] \in AskType /\ ask[r].missed \in BOOLEAN
      BY DEF RagBase, AskTyped, AskType
    <3>2. ask' = [ask EXCEPT ![r] = [ask[r] EXCEPT !.at = "search", !.corpus = {},
                                                   !.missed = ask[r].missed]]
      <4>1. ask' = [ask EXCEPT ![r] = [ask[r] EXCEPT !.at = "search", !.corpus = {}]]
        BY <2>2 DEF Build
      <4>2. [ask[r] EXCEPT !.at = "search", !.corpus = {}] =
                [ask[r] EXCEPT !.at = "search", !.corpus = {}, !.missed = ask[r].missed]
        BY <3>1 DEF AskType
      <4> QED
        BY <4>1, <4>2
    <3>3. PICK miss \in BOOLEAN : miss = ask[r].missed
      BY <3>1
    <3> WITNESS "search" \in {"build", "search"}, {} \in SUBSET Chunk, miss \in BOOLEAN
    <3> QED
      BY <3>2, <3>3
  <2> QED
    BY <2>1, <2>2
<1> DEFINE next == [ask[r] EXCEPT !.at = place, !.corpus = corpus, !.missed = miss]
<1>2. /\ next.at = place /\ next.settled = ask[r].settled /\ next.hits = ask[r].hits
      /\ next.guarded = ask[r].guarded /\ next.endpoint = ask[r].endpoint
      /\ next.corpus = corpus /\ next.missed = miss
  BY DEF RagBase, AskTyped, AskType
<1>3. ask' = [ask EXCEPT ![r] = next]
  BY <1>1
<1>u. UNCHANGED <<vars, swapped>>
  BY DEF Snapshot, Build
<1>k. ragReady' => ragReady \/ dim # NoDim
  <2>1. CASE Snapshot(r)
    BY <2>1 DEF Snapshot, Look, CollectionExists
  <2>2. CASE Build(r)
    BY <2>2 DEF Build
  <2> QED
    BY <2>1, <2>2
<1> HIDE DEF next
<1>4. GuardStands(ask[r]) /\ RankedWell(ask[r]) /\ ask[r].at # "guard"
  BY DEF ReadInv, Snapshot, Build, AskAt
<1>5. GuardStands(next)
  BY <1>2, <1>4 DEF GuardStands
<1>6. RankedWell(next)
  BY <1>1, <1>2, <1>4 DEF RankedWell
<1>7. ASSUME place = "build", ask[r].settled = Docs, ~miss
      PROVE  corpus # {}
  <2>1. PICK d \in Docs : acked[d] \in Batches
    BY <1>1, <1>7 DEF ReadInv, ListingStands, Snapshot, AskAt
  <2>2. acked[d] # Unknown
    BY <1>4, <1>7 DEF RankedWell
  <2>3. {e \in StoredChunks : e.doc = d} = Promised(d)
    BY <2>2, PromisedIsStored
  <2>4. ChunkCount[acked[d]] \in Nat \ {0}
    BY <2>1, IngestAssumption DEF IngestAssumption
  <2>5. [doc |-> d, batch |-> acked[d], index |-> 1] \in Promised(d)
    BY <2>1, <2>4 DEF Promised, ChunksOf
  <2>6. CASE corpus = StoredChunks
    BY <2>3, <2>5, <2>6
  <2>7. CASE dim = NoDim /\ ~SharedHash
    BY <2>1, <2>7, NothingPromised
  <2> QED
    BY <1>1, <1>7, <2>6, <2>7
<1>8. ListingStands(next)
  BY <1>1, <1>2, <1>7 DEF ListingStands
<1> QED
  BY <1>3, <1>u, <1>k, <1>5, <1>6, <1>8, OneRead DEF StandsFor

\* A ranking holds as many chunks as it has places.
LEMMA RankingSize ==
    ASSUME NEW S, NEW n \in Nat, NEW s \in Rankings(S, n)
    PROVE  /\ Len(s) = n /\ Members(s) \subseteq S
           /\ IsFiniteSet(Members(s)) /\ Cardinality(Members(s)) = n
<1>1. s \in Seq(S) /\ Len(s) = n
  BY RankingFacts
<1>2. Members(s) \subseteq S
  BY <1>1 DEF Members, Rankings
<1>3. s \in Injection(1..n, Members(s)) /\ s \in Surjection(1..n, Members(s))
  <2>1. s \in [1..n -> Members(s)]
    BY <1>1 DEF Members, Rankings
  <2>2. \A i, j \in 1..n : s[i] = s[j] => i = j
    BY DEF Rankings
  <2>3. \A x \in Members(s) : \E i \in 1..n : s[i] = x
    BY <1>1 DEF Members
  <2>4. s \in Injection(1..n, Members(s))
    BY <2>1, <2>2 DEF Injection, IsInjective
  <2>5. s \in Surjection(1..n, Members(s))
    BY <2>1, <2>3 DEF Surjection
  <2> QED
    BY <2>4, <2>5
<1>4. IsFiniteSet(1..n) /\ Cardinality(1..n) = n
  <2>1. Cardinality(1..n) = IF 1 > n THEN 0 ELSE n - 1 + 1
    BY FS_Interval
  <2>2. IsFiniteSet(1..n)
    BY FS_Interval
  <2> QED
    BY <2>1, <2>2
<1>5. IsFiniteSet(Members(s)) /\ Cardinality(Members(s)) <= n
  BY <1>3, <1>4, FS_Surjection
<1>6. Cardinality(Members(s)) >= n
  BY <1>3, <1>4, <1>5, FS_Injection
<1> QED
  BY <1>1, <1>2, <1>5, <1>6, FS_CardinalityType

\* A vector search over what was answered of d returns only that of d, and all
\* of it unless other chunks took its place or it is more than top_k.
LEMMA SearchFinds ==
    ASSUME IsFiniteSet(Docs), IsFiniteSet(Batches), IngestInv,
           NEW d \in Docs, acked[d] # Unknown,
           NEW q, q.hits \in Nearest
    PROVE  /\ {e \in Members(q.hits) : e.doc = d} \subseteq Promised(d)
           /\ Complete(q, d)
<1> DEFINE hits == q.hits
           n == Smaller(TopK, Cardinality(StoredChunks))
<1>1. IsFiniteSet(StoredChunks) /\ Cardinality(StoredChunks) \in Nat /\ TopK \in Nat
  BY StoredFinite, FS_CardinalityType, FusionAssumption DEF FusionAssumption
<1>2. n \in Nat /\ (n = TopK \/ n = Cardinality(StoredChunks))
  BY <1>1 DEF Smaller
<1>3. /\ Len(hits) = n /\ Members(hits) \subseteq StoredChunks
      /\ IsFiniteSet(Members(hits)) /\ Cardinality(Members(hits)) = n
  BY <1>2, RankingSize DEF Nearest
<1>4. {e \in StoredChunks : e.doc = d} = Promised(d)
  BY PromisedIsStored
<1>5. IsFiniteSet(Promised(d)) /\ Promised(d) \subseteq StoredChunks
  BY <1>1, <1>4, FS_Subset
<1>6. {Key(e) : e \in Members(hits)} = KeysOf(hits)
  BY DEF Members, KeysOf
<1> HIDE DEF n
<1>7. CASE Promised(d) \subseteq Members(hits)
  BY <1>3, <1>4, <1>6, <1>7 DEF Complete
<1>8. CASE ~(Promised(d) \subseteq Members(hits))
  <2>1. n = TopK
    <3>1. ASSUME n = Cardinality(StoredChunks) PROVE Members(hits) = StoredChunks
      BY <1>1, <1>3, <3>1, FS_Subset
    <3> QED
      BY <1>2, <1>5, <1>8, <3>1
  <2>2. ASSUME Members(hits) \subseteq Promised(d)
        PROVE  Cardinality(Promised(d)) > TopK
    <3>1. Cardinality(Promised(d)) \in Nat /\ Cardinality(Members(hits)) <= Cardinality(Promised(d))
      BY <1>5, <2>2, FS_CardinalityType, FS_Subset
    <3>2. Cardinality(Promised(d)) # Cardinality(Members(hits))
      BY <1>5, <1>8, <2>2, FS_Subset
    <3> QED
      BY <1>1, <1>3, <2>1, <3>1, <3>2
  <2> QED
    BY <1>3, <1>4, <2>1, <2>2 DEF Complete
<1> QED
  BY <1>7, <1>8

\* Where there is no collection, the empty ranking is the only one.
LEMMA NothingRanked ==
    ASSUME IngestInv, dim = NoDim, ~SharedHash
    PROVE  <<>> \in Nearest
<1>1. StoredChunks = {}
  <2>1. \A d \in Docs : Searchable(d) = {}
    BY DEF IngestInv, Collected, Searchable
  <2>2. \A e \in StoredChunks : e.doc \in Docs /\ e.batch \in Searchable(e.doc)
    BY StoredType DEF Chunk, StoredChunks
  <2> QED
    BY <2>1, <2>2
<1>2. Smaller(TopK, Cardinality(StoredChunks)) = 0
  BY <1>1, FS_EmptySet, FusionAssumption DEF Smaller, FusionAssumption
<1>3. <<>> \in [1..0 -> StoredChunks]
  OBVIOUS
<1>4. \A i, j \in 1..0 : i = j
  OBVIOUS
<1> QED
  BY <1>2, <1>3, <1>4 DEF Nearest, Rankings

LEMMA SearchRead ==
    ASSUME IsFiniteSet(Docs), IsFiniteSet(Batches), RagBase, IngestInv, ReadInv,
           NEW r \in Askers, Search(r)
    PROVE  ReadInv'
<1>0. UNCHANGED <<vars, swapped>> /\ (ragReady' => ragReady \/ dim # NoDim)
  BY DEF Search, Look, CollectionExists
<1>1. CASE Quit(r)
  BY <1>0, <1>1, QuitRead
<1>2. CASE ~Quit(r)
  <2>1. ask[r] \in AskType /\ ask[r].at = "search" /\ ask[r].settled \subseteq Docs
    BY DEF RagBase, AskTyped, AskType, Search, AskAt
  <2>2. PICK hits, context, place, miss :
            /\ place \in {"fuse", "llm"} /\ miss \in BOOLEAN
            /\ hits \in Nearest \/ (hits = <<>> /\ ~SharedHash /\ (miss \/ dim = NoDim))
            /\ place = "fuse" => Hybrid /\ context = {}
            /\ place = "llm" => context = Members(hits)
            /\ ask' = [ask EXCEPT ![r] = [ask[r] EXCEPT !.at = place, !.hits = hits,
                                             !.context = context, !.missed = miss]]
    BY <1>2, SearchFacts
  <2>h. hits \in Nearest \/ (hits = <<>> /\ miss)
    BY <2>2, NothingRanked
  <2> DEFINE next == [ask[r] EXCEPT !.at = place, !.hits = hits, !.context = context,
                                    !.missed = miss]
  <2>3. /\ next.hits = hits /\ next.at = place /\ next.missed = miss
        /\ next.settled = ask[r].settled /\ next.guarded = ask[r].guarded
    BY <2>1 DEF AskType
  <2>4. ask' = [ask EXCEPT ![r] = next]
    BY <2>2
  <2> HIDE DEF next
  <2>5. GuardStands(ask[r]) /\ RankedWell(ask[r]) /\ OneModel
    BY DEF ReadInv
  <2>6. Members(next.hits) \subseteq StoredChunks
    <3>1. Smaller(TopK, Cardinality(StoredChunks)) \in Nat
      BY StoredFinite, FS_CardinalityType, FusionAssumption DEF Smaller, FusionAssumption
    <3>2. CASE hits \in Nearest
      BY <2>3, <3>1, <3>2, RankingSize DEF Nearest
    <3>3. CASE hits = <<>>
      BY <2>3, <3>3 DEF Members
    <3> QED
      BY <2>h, <3>2, <3>3
  <2>7. GuardStands(next)
    <3>1. ASSUME ask[r].guarded, NEW e \in StoredChunks
          PROVE  ModelOf[e.batch] = RagModel
      <4>1. ~swapped /\ meta = RagModel
        BY <2>1, <2>5, <3>1 DEF GuardStands
      <4>2. e.doc \in Docs /\ e.batch \in Searchable(e.doc)
        BY StoredType DEF Chunk, StoredChunks
      <4> QED
        BY <2>5, <4>1, <4>2 DEF OneModel
    <3> QED
      BY <2>1, <2>3, <2>5, <2>6, <3>1 DEF GuardStands
  <2>8. RankedWell(next)
    <3>1. ASSUME NEW d \in ask[r].settled
          PROVE  /\ acked[d] # Unknown
                 /\ {e \in Members(next.hits) : e.doc = d} \subseteq Promised(d)
                 /\ ~next.missed => Complete(next, d)
      <4>1. d \in Docs /\ acked[d] # Unknown
        BY <2>1, <2>5 DEF RankedWell
      <4>2. CASE hits \in Nearest
        BY <2>3, <4>1, <4>2, SearchFinds
      <4>3. CASE hits = <<>> /\ miss
        <5>1. Members(next.hits) = {}
          BY <2>3, <4>3 DEF Members
        <5> QED
          BY <2>3, <4>1, <4>3, <5>1
      <4> QED
        BY <2>h, <4>2, <4>3
    <3> QED
      BY <2>3, <3>1 DEF RankedWell
  <2>9. ListingStands(next)
    BY <2>2, <2>3 DEF ListingStands
  <2> QED
    BY <1>0, <2>4, <2>7, <2>8, <2>9, OneRead DEF StandsFor
<1> QED
  BY <1>1, <1>2

LEMMA FuseRead ==
    ASSUME RagBase, ReadInv, NEW r \in Askers, Fuse(r)
    PROVE  ReadInv'
<1>1. PICK context :
          ask' = [ask EXCEPT ![r] = [ask[r] EXCEPT !.at = "llm", !.context = context]]
  BY DEF Fuse
<1> DEFINE next == [ask[r] EXCEPT !.at = "llm", !.context = context]
<1>2. /\ next.at = "llm" /\ next.settled = ask[r].settled /\ next.hits = ask[r].hits
      /\ next.guarded = ask[r].guarded /\ next.endpoint = ask[r].endpoint
      /\ next.missed = ask[r].missed
  BY DEF RagBase, AskTyped, AskType
<1>3. ask' = [ask EXCEPT ![r] = next] /\ UNCHANGED <<vars, ragReady, swapped>> /\ ask[r].at = "fuse"
  BY <1>1 DEF Fuse, AskAt
<1> HIDE DEF next
<1>4. GuardStands(ask[r]) /\ RankedWell(ask[r])
  BY DEF ReadInv
<1>5. GuardStands(next)
  BY <1>2, <1>3, <1>4 DEF GuardStands
<1>6. RankedWell(next)
  <2>1. ASSUME NEW d \in ask[r].settled, ask[r].endpoint \in Chain, ~ask[r].missed
        PROVE  Complete(next, d)
    <3>1. Complete(ask[r], d)
      BY <1>3, <1>4, <2>1 DEF RankedWell
    <3> QED
      BY <1>2, <3>1 DEF Complete
  <2> QED
    BY <1>2, <1>4, <2>1 DEF RankedWell
<1>7. ListingStands(next)
  BY <1>2 DEF ListingStands
<1> QED
  BY <1>3, <1>5, <1>6, <1>7, OneRead DEF StandsFor

LEMMA RestartRead ==
    ASSUME ReadInv, RagRestart
    PROVE  ReadInv'
<1>1. OneModel' /\ ~ragReady'
  BY DEF ReadInv, OneModel, Disturbed, RagRestart, vars, Searchable
<1>2. ASSUME NEW x \in Askers
      PROVE  GuardStands(ask[x])' /\ RankedWell(ask[x])' /\ ListingStands(ask[x])'
  <2>1. ask'[x] = Silent
    BY DEF RagRestart
  <2>2. ~ask'[x].guarded /\ ask'[x].settled = {} /\ ask'[x].at = "idle"
    BY <2>1 DEF Silent
  <2> QED
    BY <2>2 DEF GuardStands, RankedWell, ListingStands
<1> QED
  BY <1>1, <1>2 DEF ReadInv

\* All of the system: the types, the stores and the questions that read them.
WholeInv == RagInv /\ IngestInv /\ ReadInv

LEMMA WholeInit == RagInit => WholeInv
<1> SUFFICES ASSUME RagInit PROVE WholeInv
  OBVIOUS
<1>1. RagInv /\ IngestInv
  BY RagInvInit, InvInit DEF RagInit
<1>2. ~Disturbed /\ ~ragReady
  BY DEF RagInit, Init, Disturbed
<1>3. \A d \in Docs : Searchable(d) = {}
  BY DEF RagInit, Init, Searchable, NothingStored
<1>4. \A r \in Askers : GuardStands(ask[r]) /\ RankedWell(ask[r]) /\ ListingStands(ask[r])
  BY DEF RagInit, Silent, GuardStands, RankedWell, ListingStands
<1> QED
  BY <1>1, <1>2, <1>3, <1>4 DEF WholeInv, ReadInv, OneModel

LEMMA WholeStep ==
    ASSUME IsFiniteSet(Docs), IsFiniteSet(Batches), WholeInv, [RagNext]_ragVars
    PROVE  WholeInv'
<1>1. RagInv'
  BY RagInvStep DEF WholeInv
<1>2. IngestInv'
  BY ReadsLeaveStores, InvStep DEF WholeInv
<1>b. RagBase /\ IngestInv /\ ReadInv
  BY DEF WholeInv, RagInv
<1>3. ReadInv'
  <2>1. CASE Write
    BY <1>b, <2>1, ReadWrite
  <2>2. ASSUME NEW r \in Askers, Read(r) PROVE ReadInv'
    <3>1. ASSUME NEW e \in Questions, Ask(r, e) PROVE ReadInv'
      BY <1>b, <3>1, AskRead
    <3>2. CASE CheckModel(r)
      BY <1>b, <3>2, ModelRead
    <3>3. CASE CheckListing(r) \/ SmallTalk(r) \/ SearchAgain(r)
      BY <1>b, <3>3, ListRead
    <3>4. CASE Snapshot(r) \/ Build(r)
      BY <1>b, <3>4, IndexRead
    <3>5. CASE Search(r)
      BY <1>b, <3>5, SearchRead
    <3>6. CASE Fuse(r)
      BY <1>b, <3>6, FuseRead
    <3>7. CASE Leave(r)
      BY <1>b, <3>7, QuitRead DEF Leave
    <3> QED
      BY <2>2, <3>1, <3>2, <3>3, <3>4, <3>5, <3>6, <3>7 DEF Read
  <2>3. CASE RagRestart
    BY <1>b, <2>3, RestartRead
  <2>4. CASE UNCHANGED ragVars
    <3>1. OneModel' /\ (ragReady' => dim' # NoDim)
      BY <1>b, <2>4 DEF ragVars, vars, ReadInv, OneModel, Disturbed, Searchable
    <3>2. ASSUME NEW x \in Askers
          PROVE  GuardStands(ask[x])' /\ RankedWell(ask[x])' /\ ListingStands(ask[x])'
      <4>1. StandsFor(ask[x]) /\ ask'[x] = ask[x] /\ UNCHANGED <<vars, ragReady, swapped>>
        BY <1>b, <2>4 DEF ReadInv, StandsFor, ragVars
      <4> QED
        BY <4>1, SameStands
    <3> QED
      BY <3>1, <3>2 DEF ReadInv
  <2> QED
    BY <2>1, <2>2, <2>3, <2>4 DEF RagNext
<1> QED
  BY <1>1, <1>2, <1>3 DEF WholeInv

\* However requests to ingest overlap and questions interleave with them,
\* wherever requests are cut short and whatever Qdrant answers: the facts about
\* the stores and the questions that the theorems below rest on.
THEOREM ReadInvariant ==
    ASSUME IsFiniteSet(Docs), IsFiniteSet(Batches)
    PROVE  RagSpec => []ReadInv
<1>1. WholeInv /\ [RagNext]_ragVars => WholeInv'
  BY WholeStep
<1>2. WholeInv => ReadInv
  BY DEF WholeInv
<1> QED
  BY WholeInit, <1>1, <1>2, PTL DEF RagSpec

\* Ingest to answer, for any number of documents, chunks, clients and
\* questions: of a document no request could have changed while the question
\* ran, the vector search returns chunks of the promised batch only, and the
\* chain's context has them all unless other chunks fill it, or the search took
\* the vector store to be empty.
THEOREM PromisesAreFound ==
    ASSUME IsFiniteSet(Docs), IsFiniteSet(Batches), Weighted
    PROVE  RagSpec => []PromisedIsFound
<1>1. WholeInv /\ [RagNext]_ragVars => WholeInv'
  BY WholeStep
<1>2. WholeInv => PromisedIsFound
  <2> SUFFICES ASSUME WholeInv, NEW r \in Contexts, NEW d \in ask[r].settled
               PROVE  /\ {e \in Members(ask[r].hits) : e.doc = d} \subseteq Promised(d)
                      /\ ask[r].endpoint \in Chain /\ ~ask[r].missed =>
                            \/ {Key(e) : e \in Promised(d)} \subseteq FoundKeys(r)
                            \/ /\ Len(ask[r].hits) = TopK
                               /\ ~(Members(ask[r].hits) \subseteq Promised(d))
                            \/ Cardinality(Promised(d)) > TopK
    BY DEF PromisedIsFound
  <2>1. r \in Askers /\ ask[r].at = "llm" /\ RankedWell(ask[r])
    BY DEF Contexts, AskAt, WholeInv, ReadInv
  <2>2. ask[r].endpoint \in Chain /\ ~ask[r].missed => Complete(ask[r], d)
    BY <2>1 DEF RankedWell
  <2>3. ask[r].endpoint \in Chain => KeysOf(ask[r].hits) \subseteq FoundKeys(r)
    BY DEF WholeInv, RagInv, VectorHitsSurvive
  <2> QED
    BY <2>1, <2>2, <2>3 DEF RankedWell, Complete
<1> QED
  BY WholeInit, <1>1, <1>2, PTL DEF RagSpec

\* The dimension guard, though it reads meta steps before the search runs, lets
\* no question that passed it by a record rank a vector of another model, unless
\* a replacement or rivals ran meanwhile, or before with no replacement alone to
\* mend what they left: no append or delete without rivals does it, nor a
\* failure of theirs.
THEOREM GuardIsEnough ==
    ASSUME IsFiniteSet(Docs), IsFiniteSet(Batches)
    PROVE  RagSpec => []GuardProtects
<1>1. WholeInv /\ [RagNext]_ragVars => WholeInv'
  BY WholeStep
<1>2. WholeInv => GuardProtects
  BY DEF WholeInv, ReadInv, GuardStands, GuardProtects, Contexts
<1> QED
  BY WholeInit, <1>1, <1>2, PTL DEF RagSpec

\* A question that no request to ingest overlapped, and before which none was
\* cut short, never builds the lexical index over nothing, unless Qdrant failed
\* to say that the collection is there.
THEOREM IndexIsNotBuiltEmpty ==
    ASSUME IsFiniteSet(Docs), IsFiniteSet(Batches)
    PROVE  RagSpec => LexicalIndexLives
<1>1. WholeInv /\ [RagNext]_ragVars => WholeInv'
  BY WholeStep
<1>2. WholeInv => \A r \in Askers : Build(r) /\ ask[r].corpus = {} =>
                      ask[r].settled # Docs \/ ask[r].missed
  BY DEF WholeInv, ReadInv, ListingStands, Build, AskAt
<1> QED
  BY WholeInit, <1>1, <1>2, PTL DEF RagSpec, LexicalIndexLives
=============================================================================
