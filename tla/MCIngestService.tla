-------------------------- MODULE MCIngestService --------------------------
(***************************************************************************)
(* Small instances of IngestService: two documents; a short and a long     *)
(* batch of the current embedding model and one of the model before it.    *)
(***************************************************************************)
EXTENDS IngestService, TLC

CONSTANTS d1, d2, short, long, other, m1, m2, c1, c2, p1

TwoDocs == {d1, d2}
ThreeBatches == {short, long, other}
TwoBatches == {short, other}
Counts == [b \in Batches |-> IF b = long THEN 2 ELSE 1]
TwoModels == {m1, m2}
Embedded == [b \in Batches |-> IF b = other THEN m2 ELSE m1]

SameDim == [m \in TwoModels |-> 768]
TwoDims == [m \in TwoModels |-> IF m = m1 THEN 768 ELSE 384]

OneProcess == [c \in Clients |-> p1]

\* Documents and clients are alike.
Alike == Permutations(TwoDocs) \cup Permutations({c1, c2})

Anywhere == Phases
OutsideMetaSwap == Phases \ {"meta_clear", "meta_write"}
Nowhere == {}
=============================================================================
