---------------------------- MODULE MCAgentGraph ----------------------------
(***************************************************************************)
(* Small instances of AgentGraph: budgets of one to four steps, of which   *)
(* one to three fit the limit, and two distinguishable contexts.           *)
(***************************************************************************)
EXTENDS AgentGraph

CONSTANTS ctx1, ctx2

TwoContexts == {ctx1, ctx2}
=============================================================================
