--------------------------- MODULE MCChatHistory ---------------------------
(***************************************************************************)
(* Small instances of ChatHistory: three turns, so that two may overlap    *)
(* and a third follow, over one session and the stateless key.             *)
(***************************************************************************)
EXTENDS ChatHistory, TLC

CONSTANTS t1, t2, t3, s1

ThreeTurns == {t1, t2, t3}
Alike == Permutations(ThreeTurns)
Everything == Faults
Nothing == {}
=============================================================================
