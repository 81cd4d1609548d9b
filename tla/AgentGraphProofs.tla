-------------------------- MODULE AgentGraphProofs --------------------------
(***************************************************************************)
(* Proofs about AgentGraph for every step budget, every set of contexts    *)
(* and whatever the LLM replies: the inductive invariant, and from it that *)
(* five node visits per step are always enough, that the answer is made    *)
(* from the last context, and that every visit is one fewer to the end.    *)
(***************************************************************************)
EXTENDS AgentGraph, TLAPS

LEMMA InitAgentInv == Init => AgentInv
<1> SUFFICES ASSUME Init PROVE AgentInv
  OBVIOUS
<1>1. TypeOK
  <2>1. NoAnswer \in [prompt : {"none", "rag", "chitchat"},
                      context : Contexts \cup {NoContext}, text : Texts]
    BY DEF NoAnswer, Texts
  <2> QED
    BY <2>1 DEF Init, TypeOK, Graph, Failed
<1>2. BudgetHolds /\ VisitsBounded /\ ChitchatStaysOut
  BY AgentAssumption DEF AgentAssumption, Init, BudgetHolds, VisitsBounded, ChitchatStaysOut
<1> QED
  BY <1>1, <1>2 DEF AgentInv

LEMMA TypeStep == TypeOK /\ [Next]_vars => TypeOK'
<1> SUFFICES ASSUME TypeOK, [Next]_vars PROVE TypeOK'
  OBVIOUS
<1> USE DEF TypeOK, Graph, Failed, Texts, Visit, request
<1>1. ASSUME NEW reply \in Replies, Route(reply)
      PROVE  TypeOK'
  BY <1>1 DEF Route, Label
<1>2. ASSUME NEW reply \in Replies, Grade(reply)
      PROVE  TypeOK'
  <2>1. GradeOf(reply) = "good" => context \in Contexts
    BY DEF GradeOf
  <2> QED
    BY <1>2, <2>1 DEF Grade
<1>3. ASSUME NEW reply \in Replies, Critique(reply)
      PROVE  TypeOK'
  BY <1>3 DEF Critique
<1>4. ASSUME NEW result \in Contexts \cup {NoContext}, Retrieve(result)
      PROVE  TypeOK'
  BY <1>4 DEF Retrieve, KbSearch
<1>5. ASSUME NEW text \in Texts, Rewrite(text)
      PROVE  TypeOK'
  BY <1>5 DEF Rewrite
<1>6. ASSUME NEW text \in Texts, Generate(text)
      PROVE  TypeOK'
  <2>1. answer' \in [prompt : {"none", "rag", "chitchat"},
                     context : Contexts \cup {NoContext}, text : Texts]
    BY <1>6 DEF Generate
  <2> QED
    BY <1>6, <2>1 DEF Generate
<1>7. ASSUME NEW session \in BOOLEAN, Save(session)
      PROVE  TypeOK'
  BY <1>7 DEF Save
<1>8. CASE Overrun \/ Raise
  BY <1>8 DEF Overrun, Raise
<1>9. CASE UNCHANGED vars
  BY <1>9 DEF vars
<1> QED
  BY <1>1, <1>2, <1>3, <1>4, <1>5, <1>6, <1>7, <1>8, <1>9 DEF Next, Step

LEMMA AgentInvStep == AgentInv /\ [Next]_vars => AgentInv'
<1> SUFFICES ASSUME AgentInv, [Next]_vars PROVE AgentInv'
  OBVIOUS
<1>t. TypeOK'
  BY TypeStep DEF AgentInv
<1>a. max_steps \in Nat /\ max_steps > 0
  BY AgentAssumption DEF AgentAssumption, AgentInv, TypeOK
<1>n. step \in Nat /\ calls \in Nat /\ visits \in Nat /\ route \in {"kb", "chitchat"}
  BY DEF AgentInv, TypeOK
<1> USE <1>a, <1>n DEF BudgetHolds, VisitsBounded, ChitchatStaysOut, Visit, BudgetSpent, request, Failed
<1>1. ASSUME NEW reply \in Replies, Route(reply)
      PROVE  AgentInv'
  BY <1>1, <1>t DEF AgentInv, Route, Label
<1>2. ASSUME NEW reply \in Replies, Grade(reply)
      PROVE  AgentInv'
  BY <1>2, <1>t DEF AgentInv, Grade
<1>3. ASSUME NEW reply \in Replies, Critique(reply)
      PROVE  AgentInv'
  BY <1>3, <1>t DEF AgentInv, Critique
<1>4. ASSUME NEW result \in Contexts \cup {NoContext}, Retrieve(result)
      PROVE  AgentInv'
  BY <1>4, <1>t DEF AgentInv, Retrieve
<1>5. ASSUME NEW text \in Texts, Rewrite(text)
      PROVE  AgentInv'
  BY <1>5, <1>t DEF AgentInv, Rewrite
<1>6. ASSUME NEW text \in Texts, Generate(text)
      PROVE  AgentInv'
  BY <1>6, <1>t DEF AgentInv, Generate
<1>7. ASSUME NEW session \in BOOLEAN, Save(session)
      PROVE  AgentInv'
  BY <1>7, <1>t DEF AgentInv, Save
<1>8. CASE Overrun \/ Raise
  BY <1>8, <1>t DEF AgentInv, Overrun, Raise
<1>9. CASE UNCHANGED vars
  BY <1>9, <1>t DEF AgentInv, vars, request
<1> QED
  BY <1>1, <1>2, <1>3, <1>4, <1>5, <1>6, <1>7, <1>8, <1>9 DEF Next, Step

\* For every budget: retrievals stay within it, each is in the ledger, a
\* rewritten query is always searched, and smalltalk never reaches the KB.
THEOREM AgentInvariant == Spec => []AgentInv
BY InitAgentInv, AgentInvStep, PTL DEF Spec

\* An invocation allowed five visits per step of its budget is never cut short.
THEOREM FiveVisitsPerStep == Spec => []NeverOverruns
<1>1. AgentInv => NeverOverruns
  <2> SUFFICES ASSUME AgentInv, BudgetFits, node \in Graph PROVE visits < RecursionLimit
    BY DEF NeverOverruns
  <2>1. /\ step \in Nat /\ visits \in Nat /\ max_steps \in Nat \ {0} /\ RecursionLimit \in Nat
        /\ step <= max_steps
    BY AgentAssumption DEF AgentAssumption, AgentInv, TypeOK, BudgetHolds
  <2>2. visits < 5 * max_steps
    BY <2>1 DEF AgentInv, BudgetHolds, VisitsBounded, Graph
  <2> QED
    BY <2>1, <2>2 DEF BudgetFits
<1> QED
  BY <1>1, AgentInvariant, PTL

\* The answer returned is about the context of the last retrieval.
THEOREM LatestContext == Spec => []AnswerMatchesContext
<1>1. Init => AnswerMatchesContext
  BY DEF Init, AnswerMatchesContext
<1>2. AgentInv /\ AnswerMatchesContext /\ [Next]_vars => AnswerMatchesContext'
  <2> SUFFICES ASSUME AgentInv, AnswerMatchesContext, [Next]_vars PROVE AnswerMatchesContext'
    OBVIOUS
  <2> USE DEF AnswerMatchesContext, Visit, request, Failed
  <2>0. CASE UNCHANGED vars
    BY <2>0 DEF vars, request
  <2>1. ASSUME NEW text \in Texts, Generate(text)
        PROVE  AnswerMatchesContext'
    <3>1. route = "chitchat" => context = NoContext
      BY DEF AgentInv, ChitchatStaysOut
    <3> QED
      BY <2>1, <3>1 DEF Generate
  <2> QED
    BY <2>0, <2>1 DEF Next, Step, Route, Grade, Critique, Retrieve, Rewrite, Save, Overrun, Raise
<1> QED
  BY <1>1, <1>2, AgentInvariant, PTL DEF Spec

\* Whatever is graded and whichever loop is taken, an invocation takes at most
\* five steps for each of its budget and five more: no loop runs for ever.
THEOREM NearerEveryStep == Spec => EveryStepIsNearer
<1>1. AgentInv /\ [Next]_vars => [StepsLeft' \in Nat /\ StepsLeft' < StepsLeft]_vars
  <2> SUFFICES ASSUME AgentInv, Next PROVE StepsLeft' \in Nat /\ StepsLeft' < StepsLeft
    OBVIOUS
  <2>0. /\ step \in Nat /\ max_steps \in Nat /\ max_steps > 0 /\ step <= max_steps
        /\ node \in {"retrieve", "rewrite"} => step < max_steps
    BY AgentAssumption DEF AgentAssumption, AgentInv, TypeOK, BudgetHolds
  <2> USE <2>0 DEF Visit, BudgetSpent, request, StepsLeft
  <2>1. ASSUME NEW reply \in Replies, Route(reply)
        PROVE  StepsLeft' \in Nat /\ StepsLeft' < StepsLeft
    BY <2>1 DEF Route
  <2>2. ASSUME NEW reply \in Replies, Grade(reply)
        PROVE  StepsLeft' \in Nat /\ StepsLeft' < StepsLeft
    BY <2>2 DEF Grade
  <2>3. ASSUME NEW reply \in Replies, Critique(reply)
        PROVE  StepsLeft' \in Nat /\ StepsLeft' < StepsLeft
    BY <2>3 DEF Critique
  <2>4. ASSUME NEW result \in Contexts \cup {NoContext}, Retrieve(result)
        PROVE  StepsLeft' \in Nat /\ StepsLeft' < StepsLeft
    BY <2>4 DEF Retrieve
  <2>5. ASSUME NEW text \in Texts, Rewrite(text) \/ Generate(text)
        PROVE  StepsLeft' \in Nat /\ StepsLeft' < StepsLeft
    BY <2>5 DEF Rewrite, Generate
  <2>6. ASSUME NEW session \in BOOLEAN, Save(session)
        PROVE  StepsLeft' \in Nat /\ StepsLeft' < StepsLeft
    BY <2>6 DEF Save
  <2>7. CASE Overrun \/ Raise
    BY <2>7 DEF Overrun, Raise, Graph
  <2> QED
    BY <2>1, <2>2, <2>3, <2>4, <2>5, <2>6, <2>7 DEF Next, Step
<1> QED
  BY <1>1, AgentInvariant, PTL DEF Spec, EveryStepIsNearer

\* The end of an invocation whose budget fits is an answer that was generated,
\* or a call that raised.
THEOREM EndsInAnAnswer == Spec => []NoOtherEnd
<1> DEFINE Generated == /\ node \in {"critique", "save", "end"} => answer.prompt # "none"
                        /\ BudgetFits => node # "overrun"
<1>1. Init => Generated
  BY DEF Init
<1>2. AgentInv /\ NeverOverruns /\ Generated /\ [Next]_vars => Generated'
  <2> SUFFICES ASSUME AgentInv, NeverOverruns, Generated, [Next]_vars PROVE Generated'
    OBVIOUS
  <2>1. CASE UNCHANGED vars
    BY <2>1 DEF vars, request, BudgetFits
  <2>2. CASE Overrun
    <3>1. node \in Graph /\ visits >= RecursionLimit /\ visits \in Nat /\ RecursionLimit \in Nat
      BY <2>2, AgentAssumption DEF Overrun, AgentAssumption, AgentInv, TypeOK
    <3>2. ~BudgetFits
      BY <3>1 DEF NeverOverruns
    <3>3. BudgetFits' <=> BudgetFits
      BY <2>2 DEF Overrun, request, BudgetFits
    <3> QED
      BY <2>2, <3>2, <3>3 DEF Overrun
  <2>3. CASE ~Overrun /\ Next
    BY <2>3 DEF Next, Step, Route, Grade, Critique, Retrieve, Rewrite, Generate, Save, Raise,
                Visit, request, BudgetFits
  <2> QED
    BY <2>1, <2>2, <2>3
<1>3. Generated => NoOtherEnd
  BY DEF NoOtherEnd
<1> HIDE DEF Generated
<1> QED
  BY <1>1, <1>2, <1>3, AgentInvariant, FiveVisitsPerStep, PTL DEF Spec
=============================================================================
