----------------------------- MODULE AgentGraph -----------------------------
(***************************************************************************)
(* One invocation of the agent (sorakai/chains/agent_graph.py): the graph  *)
(*   route -> retrieve -> grade -> generate -> critique -> END             *)
(* with two ways back to retrieve, a weak grade and a retry critique, both *)
(* through rewrite and both only while the step budget lasts.  A node runs *)
(* whole and alone in its invocation; what the LLM replies and what the    *)
(* knowledge base returns are up to the environment at each visit, and any *)
(* of those calls may raise.                                               *)
(***************************************************************************)
EXTENDS Naturals

CONSTANTS
    MaxSteps,         \* the largest budget a request may ask for
    RecursionLimit,   \* node visits the graph runtime allows an invocation
    Contexts,         \* what format_docs can make of retrieved chunks
    NoContext         \* a blank context: no chunk, or blank chunks only

ASSUME AgentAssumption ==
    /\ MaxSteps \in Nat \ {0}
    /\ RecursionLimit \in Nat \ {0}
    /\ NoContext \notin Contexts

VARIABLES
    node,     \* the node about to run; then "save" and "end", or how it failed:
              \* "raised" by a call of a node, "overrun" by the runtime
    question, \* "words", or "blank" when only whitespace
    max_steps,\* the budget: the request's, or AGENT_MAX_STEPS
    query,    \* what the next retrieval searches: the question or a rewrite
    context,
    route,
    answer,   \* the last generated answer: its prompt, its context, its text
    step,     \* retrievals so far
    calls,    \* length of state["tool_calls"]
    visits,   \* length of state["trace"]
    saved,    \* the turn was appended to the session
    praised   \* history: the contexts graded good so far

request == <<question, max_steps>>
vars == <<node, request, query, context, route, answer, step, calls, visits, saved, praised>>

Graph == {"route", "retrieve", "grade", "rewrite", "generate", "critique"}
Failed == {"raised", "overrun"}
Texts == {"blank", "some"}
NoAnswer == [prompt |-> "none", context |-> NoContext, text |-> "blank"]

TypeOK ==
    /\ node \in Graph \cup {"save", "end"} \cup Failed
    /\ question \in {"words", "blank"}
    /\ max_steps \in 1 .. MaxSteps
    /\ query \in {"question", "rewrite"}
    /\ context \in Contexts \cup {NoContext}
    /\ route \in {"kb", "chitchat"}
    /\ answer \in [prompt : {"none", "rag", "chitchat"},
                   context : Contexts \cup {NoContext}, text : Texts]
    /\ step \in Nat /\ calls \in Nat /\ visits \in Nat
    /\ saved \in BOOLEAN
    /\ praised \subseteq Contexts

Init ==
    /\ node = "route"
    /\ question \in {"words", "blank"}
    /\ max_steps \in 1 .. MaxSteps
    /\ query = "question"
    /\ context = NoContext
    /\ route = "kb"
    /\ answer = NoAnswer
    /\ step = 0 /\ calls = 0 /\ visits = 0
    /\ saved = FALSE
    /\ praised = {}

-----------------------------------------------------------------------------
\* What the LLM may reply where one word is asked of it.
Replies == {"kb", "chitchat", "good", "weak", "ok", "retry", "off script"}

\* _normalise_label: an expected label, or the default for anything else.
Label(reply, allowed, default) == IF reply \in allowed THEN reply ELSE default

Visit(n) ==
    /\ node = n
    /\ visits < RecursionLimit
    /\ visits' = visits + 1

\* Seeded fault: one step too many.
BudgetOverspent == step > max_steps
BudgetSpent == step >= max_steps

Route(reply) ==
    /\ Visit("route")
    /\ route' = Label(reply, {"kb", "chitchat"}, "kb")
    /\ node' = IF route' = "kb" THEN "retrieve" ELSE "generate"
    /\ UNCHANGED <<request, query, context, answer, step, calls, saved, praised>>

\* kb_search refuses a blank query; run_tool turns that into an empty output.
KbSearch(result) ==
    IF query = "question" /\ question = "blank" THEN NoContext ELSE result

Retrieve(result) ==
    /\ Visit("retrieve")
    /\ context' = KbSearch(result)
    /\ step' = step + 1
    /\ calls' = calls + 1
    /\ node' = "grade"
    /\ UNCHANGED <<request, query, route, answer, saved, praised>>

GradeOf(reply) == IF context = NoContext THEN "weak" ELSE Label(reply, {"good", "weak"}, "good")

\* Seeded fault: a weak grade is sent back whatever the budget.
GradeUnbounded(reply) ==
    /\ Visit("grade")
    /\ node' = IF GradeOf(reply) = "good" THEN "generate" ELSE "rewrite"
    /\ praised' = IF GradeOf(reply) = "good" THEN praised \cup {context} ELSE praised
    /\ UNCHANGED <<request, query, context, route, answer, step, calls, saved>>

\* Seeded fault: a spent budget skips generate instead of going to it.
GradeSkipsGenerate(reply) ==
    /\ Visit("grade")
    /\ node' = IF GradeOf(reply) = "good" THEN "generate"
               ELSE IF BudgetSpent THEN "save" ELSE "rewrite"
    /\ praised' = IF GradeOf(reply) = "good" THEN praised \cup {context} ELSE praised
    /\ UNCHANGED <<request, query, context, route, answer, step, calls, saved>>

Grade(reply) ==
    /\ Visit("grade")
    /\ node' = IF BudgetSpent \/ GradeOf(reply) = "good" THEN "generate" ELSE "rewrite"
    /\ praised' = IF GradeOf(reply) = "good" THEN praised \cup {context} ELSE praised
    /\ UNCHANGED <<request, query, context, route, answer, step, calls, saved>>

\* A blank rewrite falls back to the question.
Rewrite(reply) ==
    /\ Visit("rewrite")
    /\ query' = IF reply = "blank" THEN "question" ELSE "rewrite"
    /\ node' = "retrieve"
    /\ UNCHANGED <<request, context, route, answer, step, calls, saved, praised>>

Generate(text) ==
    /\ Visit("generate")
    /\ answer' = [prompt |-> IF route = "chitchat" \/ context = NoContext
                             THEN "chitchat" ELSE "rag",
                  context |-> context, text |-> text]
    /\ node' = "critique"
    /\ UNCHANGED <<request, query, context, route, step, calls, saved, praised>>

\* Seeded fault: a retry is sent back whatever the budget.
CritiqueUnbounded(reply) ==
    /\ Visit("critique")
    /\ LET critique == IF route = "chitchat" THEN "ok" ELSE Label(reply, {"ok", "retry"}, "ok")
       IN  node' = IF critique = "ok" THEN "save" ELSE "rewrite"
    /\ UNCHANGED <<request, query, context, route, answer, step, calls, saved, praised>>

Critique(reply) ==
    /\ Visit("critique")
    /\ LET critique == IF route = "chitchat" THEN "ok" ELSE Label(reply, {"ok", "retry"}, "ok")
       IN  node' = IF BudgetSpent \/ critique = "ok" THEN "save" ELSE "rewrite"
    /\ UNCHANGED <<request, query, context, route, answer, step, calls, saved, praised>>

\* ainvoke_agent after the graph: a turn with a session and an answer is saved.
Save(session) ==
    /\ node = "save"
    /\ saved' = (session /\ answer.text = "some")
    /\ node' = "end"
    /\ UNCHANGED <<request, query, context, route, answer, step, calls, visits, praised>>

\* The runtime gives up on an invocation that has used its visits.
Overrun ==
    /\ node \in Graph
    /\ visits >= RecursionLimit
    /\ node' = "overrun"
    /\ UNCHANGED <<request, query, context, route, answer, step, calls, visits, saved, praised>>

\* A call made by the node, or by saving the turn, raises: the request fails.
Raise ==
    /\ node \in Graph \cup {"save"}
    /\ node' = "raised"
    /\ UNCHANGED <<request, query, context, route, answer, step, calls, visits, saved, praised>>

Step ==
    \/ \E reply \in Replies : Route(reply) \/ Grade(reply) \/ Critique(reply)
    \/ \E result \in Contexts \cup {NoContext} : Retrieve(result)
    \/ \E text \in Texts : Rewrite(text) \/ Generate(text)
    \/ \E session \in BOOLEAN : Save(session)
    \/ Overrun

Next == Step \/ Raise

Spec == Init /\ [][Next]_vars

\* Each awaited call returns or raises, and the runtime then runs the next node.
FairSpec == Spec /\ WF_vars(Step)

-----------------------------------------------------------------------------
(***************************************************************************)
(* Properties.                                                             *)
(***************************************************************************)

\* The budget bounds retrievals, whichever of the two loops spends it; every
\* retrieval is in the ledger; a rewritten query is always still searched.
BudgetHolds ==
    /\ step <= max_steps
    /\ calls = step
    /\ node \in {"retrieve", "rewrite"} => step < max_steps

\* How far each node can be from the start, per retrieval already made.
VisitsBounded ==
    /\ node = "route"    => step = 0 /\ visits = 0
    /\ node = "retrieve" => visits <= 5 * step + 1
    /\ node = "grade"    => step > 0 /\ visits + 3 <= 5 * step
    /\ node = "generate" => IF route = "kb" THEN step > 0 /\ visits + 2 <= 5 * step
                                            ELSE step = 0 /\ visits = 1
    /\ node = "critique" => IF route = "kb" THEN step > 0 /\ visits + 1 <= 5 * step
                                            ELSE step = 0 /\ visits = 2
    /\ node = "rewrite"  => step > 0 /\ visits <= 5 * step

\* Smalltalk never searches the knowledge base, so it is answered without a
\* context, and is never sent back.
ChitchatStaysOut ==
    /\ step = 0 => context = NoContext
    /\ route = "chitchat" => /\ step = 0
                             /\ node \in {"generate", "critique", "save", "end"} \cup Failed

\* The inductive invariant of the graph.
AgentInv ==
    /\ TypeOK
    /\ BudgetHolds
    /\ VisitsBounded
    /\ ChitchatStaysOut

\* An invocation whose budget fits the limit, five visits to a step, never
\* runs out of visits.
BudgetFits == max_steps <= RecursionLimit \div 5
NeverOverruns == BudgetFits /\ node \in Graph => visits < RecursionLimit

\* The answer returned was generated from the context of the last retrieval,
\* whose documents the response counts as its sources; a loop leaves no answer
\* about another context behind.
AnswerMatchesContext ==
    node \in {"critique", "save", "end"} =>
        answer.context = context /\ (answer.prompt = "rag" <=> context # NoContext)

\* When the budget runs out the answer is made from the best context so far:
\* from one graded good, if any was.
BestContextKept == node = "end" /\ praised # {} => answer.context \in praised

\* An invocation whose budget fits ends with an answer unless a call raises.
AlwaysAnswers ==
    node = "route" /\ BudgetFits ~> node = "raised" \/ (node = "end" /\ answer # NoAnswer)

(***************************************************************************)
(* What AlwaysAnswers rests on besides fairness: no loop runs for ever,    *)
(* and there is no other way to end.                                       *)
(***************************************************************************)

\* No more than this many steps are left: five for each retrieval the budget
\* still allows, and those on the way to the end.
StepsLeft ==
    LET loops == 5 * (max_steps - step)
    IN  CASE node = "route"    -> loops + 5
          [] node = "retrieve" -> loops + 1
          [] node = "grade"    -> loops + 5
          [] node = "generate" -> loops + 4
          [] node = "critique" -> loops + 3
          [] node = "rewrite"  -> loops + 2
          [] node = "save"     -> 1
          [] OTHER             -> 0

\* Every step, around either loop, is one fewer to the end.
EveryStepIsNearer == [][StepsLeft' \in Nat /\ StepsLeft' < StepsLeft]_vars

\* A budget that fits ends in an answer, or in the failure of a call.
NoOtherEnd ==
    /\ node = "end" => answer.prompt # "none"
    /\ BudgetFits => node # "overrun"
=============================================================================
