----------------------- MODULE MCRedisKnowledgeStore -----------------------
(***************************************************************************)
(* Small instances of RedisKnowledgeStore: two documents, a batch of one   *)
(* chunk and a batch of MaxChunks, so that a re-ingest may shrink or grow. *)
(***************************************************************************)
EXTENDS RedisKnowledgeStore, TLC

CONSTANTS d1, d2, short, long, c1, c2

TwoDocs == {d1, d2}
TwoClients == {c1, c2}
ClientSymmetry == Permutations(TwoClients)
TwoBatches == {short, long}
Counts == [b \in TwoBatches |-> IF b = short THEN 1 ELSE MaxChunks]

\* Ids whose patterns match only their own fields.
Plain == [d \in TwoDocs |-> {d}]

\* d1 is "a" and d2 is "a:b": the pattern ck:a:* also matches ck:a:b:0.
Nested == [d \in TwoDocs |-> IF d = d1 THEN {d1, d2} ELSE {d2}]

Fresh == [f \in TwoDocs \X (0 .. MaxChunks - 1) |-> NoBatch]

\* d1 was ingested before Wave 4.
Upgraded == [f \in TwoDocs \X (0 .. MaxChunks - 1) |-> IF f[1] = d1 THEN long ELSE NoBatch]
=============================================================================
