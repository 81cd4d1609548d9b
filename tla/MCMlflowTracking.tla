-------------------------- MODULE MCMlflowTracking --------------------------
(***************************************************************************)
(* Small instance of MlflowTracking: three queries, or cases, of up to two *)
(* model or retriever calls each.                                          *)
(***************************************************************************)
EXTENDS MlflowTracking, TLC

CONSTANTS c1, c2, c3

ThreeCalls == {c1, c2, c3}
Alike == Permutations(ThreeCalls)
=============================================================================
