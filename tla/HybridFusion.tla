---------------------------- MODULE HybridFusion ----------------------------
(***************************************************************************)
(* Weighted reciprocal rank fusion of a lexical (BM25) and a vector ranking *)
(* as HybridRetriever does it (sorakai/chains/retriever.py): a chunk scores *)
(* weight / (K + rank) in each list that has it, and the best are kept.    *)
(* Scores are exact fractions, compared by cross-multiplication.  Only     *)
(* which chunks are kept matters here, not their order.                    *)
(***************************************************************************)
EXTENDS Integers, Sequences, FiniteSets

CONSTANTS
    K,              \* _RRF_K, 60
    LexicalWeight,  \* hybrid_bm25_weight, in tenths
    VectorWeight,   \* hybrid_vector_weight, in tenths
    TopK,           \* rag_top_k
    RerankTopN      \* rerank_top_n

ASSUME FusionAssumption ==
    /\ {K, TopK, RerankTopN} \subseteq Nat \ {0}
    /\ {LexicalWeight, VectorWeight} \subseteq Nat

\* _document_key.  Two retrievals of one chunk may carry different texts.
Key(e) == <<e.doc, e.index>>
KeysOf(s) == {Key(s[i]) : i \in 1..Len(s)}
Rank(s, x) == CHOOSE i \in 1..Len(s) : Key(s[i]) = x

\* What list s adds to the score of x, as a fraction.
Num(s, w, x) == IF x \in KeysOf(s) THEN w ELSE 0
Den(s, x) == IF x \in KeysOf(s) THEN K + Rank(s, x) ELSE 1

ScoreNum(b, v, x) == Num(b, LexicalWeight, x) * Den(v, x) + Num(v, VectorWeight, x) * Den(b, x)
ScoreDen(b, v, x) == Den(b, x) * Den(v, x)

Higher(b, v, x, y) ==
    ScoreNum(b, v, x) * ScoreDen(b, v, y) > ScoreNum(b, v, y) * ScoreDen(b, v, x)

\* The sort is stable over the order of first appearance, lexical list first.
Ahead(b, v, x, y) ==
    /\ x # y
    /\ ~Higher(b, v, y, x)
    /\ Higher(b, v, x, y) \/ Rank(b \o v, x) < Rank(b \o v, y)

\* The instance kept for a key is the higher placed one, the lexical on a tie.
Instance(b, v, x) ==
    IF x \in KeysOf(b) /\ (x \in KeysOf(v) => Rank(b, x) <= Rank(v, x))
    THEN b[Rank(b, x)]
    ELSE v[Rank(v, x)]

\* Seeded fault: what is in both rankings counts once, in the lexical one.
BestLexicalFirst(b, v) ==
    {x \in KeysOf(b) \cup KeysOf(v) :
        Cardinality(IF x \in KeysOf(b) THEN {} ELSE KeysOf(b)) < TopK}

Before(b, v, x) == {y \in KeysOf(b) \cup KeysOf(v) : Ahead(b, v, y, x)}

\* The cuts to top_n, to the reranker's top_n and to top_k.
Best(b, v) ==
    {x \in KeysOf(b) \cup KeysOf(v) :
        Cardinality(Before(b, v, x)) < IF RerankTopN < TopK THEN RerankTopN ELSE TopK}

Fused(b, v) == {Instance(b, v, x) : x \in Best(b, v)}

\* A chunk of the vector ranking outscores every chunk that is not in it.
VectorOutweighs == LexicalWeight * (K + TopK) < VectorWeight * (K + 1)
=============================================================================
