---------------------------- MODULE MCRagService ----------------------------
(***************************************************************************)
(* Small instances of RagService: two documents, one client of ingest, one *)
(* asker, the default weights, and models with vectors of one size, so     *)
(* that nothing but the guard keeps them apart.                            *)
(***************************************************************************)
EXTENDS RagService, TLC

CONSTANTS d1, d2, old, new, other, m1, m2, c1, p1, r1

TwoDocs == {d1, d2}
TwoBatches == {old, other}
ThreeBatches == {old, new, other}
OneChunk == [b \in Batches |-> 1]
TwoModels == {m1, m2}
Embedded == [b \in Batches |-> IF b = other THEN m2 ELSE m1]
SameDim == [m \in TwoModels |-> 768]
BetweenStores == {"kb"}   \* the vector store is written, the listing not yet
OneProcess == [c \in Clients |-> p1]
Alike == Permutations(TwoDocs)
=============================================================================
