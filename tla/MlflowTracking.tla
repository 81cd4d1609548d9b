--------------------------- MODULE MlflowTracking ---------------------------
(***************************************************************************)
(* MLflow tracking (sorakai/common/mlflow_callback.py).  A callback opens  *)
(* one MLflow run when its root chain starts, buffers what the chain does, *)
(* logs it and ends the run when the root ends.  The RAG service makes a   *)
(* callback per query and serves queries concurrently; the evaluation      *)
(* harness (sorakai/eval/runner.py) hands one callback to its cases in     *)
(* turn and logs their aggregate last.  mlflow keeps the active runs of    *)
(* the process on a stack and refuses to start a run while one is active.  *)
(***************************************************************************)
EXTENDS Naturals, Sequences, SequencesExt

CONSTANTS
    Calls,      \* queries of the service, or cases of the evaluation, of one process
    Kinds,      \* what a callback counts: model calls, retrievals, tool calls
    MaxWork     \* bound on the model, retriever and tool calls of one query

None == "none"
Evaluation == "evaluation"   \* the callback of the evaluation, and its last run

ASSUME TrackingAssumption == {None, Evaluation} \cap Calls = {}

VARIABLES
    evaluating,   \* TRUE: the process is the evaluation, FALSE: the RAG service
    call,         \* call[c]: the query, as LangChain runs it
    cb,           \* cb[k]: the callback object k
    stack,        \* mlflow's active runs, each named after the call that started it
    run,          \* run[c]: the run as the tracking server has it
    hurt          \* history: the server failed a call after which a run stays active

vars == <<evaluating, call, cb, stack, run, hurt>>

Runs == Calls \cup {Evaluation}
CallbackOf(c) == IF evaluating THEN Evaluation ELSE c

NoCounts == [kind \in Kinds |-> 0]
NewCall == [at |-> "new", nested |-> FALSE, doing |-> None, done |-> NoCounts, before |-> NoCounts]
NewCallback == [root |-> None, run |-> None, counts |-> NoCounts]
NoRun == [state |-> "none", counts |-> NoCounts]

Counts == [Kinds -> Nat]

TypeOK ==
    /\ evaluating \in BOOLEAN
    /\ call \in [Calls -> [at : {"new", "running", "answered", "failed"}, nested : BOOLEAN,
                           doing : Kinds \cup {None}, done : Counts, before : Counts]]
    /\ cb \in [Runs -> [root : Calls \cup {None}, run : Calls \cup {None}, counts : Counts]]
    /\ stack \in Seq(Runs)
    /\ run \in [Runs -> [state : {"none", "open", "finished"}, counts : Counts]]
    /\ hurt \in BOOLEAN

Init ==
    /\ evaluating \in BOOLEAN
    /\ call = [c \in Calls |-> NewCall]
    /\ cb = [k \in Runs |-> NewCallback]
    /\ stack = <<>>
    /\ run = [r \in Runs |-> NoRun]
    /\ hurt = FALSE

-----------------------------------------------------------------------------
(***************************************************************************)
(* The root chain starts: _open_run.                                       *)
(***************************************************************************)
Running(c) == call[c].at = "running"

\* The evaluation awaits each case, and stops at the first that raises.
InTurn(c) == evaluating => \A d \in Calls : call[d].at \in {"new", "answered"}

Starts(c, itsRun) ==
    /\ call[c] = NewCall
    /\ InTurn(c)
    /\ call' = [call EXCEPT ![c].at = "running", ![c].before = cb[CallbackOf(c)].counts]
    /\ cb' = [cb EXCEPT ![CallbackOf(c)].root = c, ![CallbackOf(c)].run = itsRun]
    /\ UNCHANGED evaluating

StartRun(r) ==
    /\ stack' = Append(stack, r)
    /\ run' = [run EXCEPT ![r].state = "open"]

\* Seeded fault: the run is started as a nested one, whatever is active.
RecordNested(c) ==
    /\ Starts(c, c)
    /\ StartRun(c)
    /\ UNCHANGED hurt

\* The run is started and its parameters are logged.
Record(c) ==
    /\ stack = <<>>
    /\ Starts(c, c)
    /\ StartRun(c)
    /\ UNCHANGED hurt

\* log_params fails: the callback forgets a run that is active.
Forget(c) ==
    /\ stack = <<>>
    /\ Starts(c, None)
    /\ StartRun(c)
    /\ hurt' = TRUE

\* A run is active, or the server fails: this query is not recorded.
Skip(c) ==
    /\ Starts(c, None)
    /\ UNCHANGED <<stack, run, hurt>>

-----------------------------------------------------------------------------
(***************************************************************************)
(* The query at work.                                                      *)
(***************************************************************************)
\* A chain within the root chain starts.
NestedStart(c) ==
    /\ Running(c) /\ ~call[c].nested
    /\ call' = [call EXCEPT ![c].nested = TRUE]
    /\ UNCHANGED <<evaluating, cb, stack, run, hurt>>

\* The model, the retriever or a tool is called.
Begin(c, kind) ==
    /\ Running(c) /\ call[c].nested /\ call[c].doing = None
    /\ FoldFunction(+, 0, call[c].done) < MaxWork
    /\ call' = [call EXCEPT ![c].doing = kind]
    /\ UNCHANGED <<evaluating, cb, stack, run, hurt>>

\* It returns, and is counted.
Done(c) ==
    LET kind == call[c].doing
    IN  /\ kind # None
        /\ call' = [call EXCEPT ![c].doing = None, ![c].done[kind] = @ + 1]
        /\ cb' = [cb EXCEPT ![CallbackOf(c)].counts[kind] = @ + 1]
        /\ UNCHANGED <<evaluating, stack, run, hurt>>

\* It raises; a node of the agent or the chain goes on.
Raise(c) ==
    /\ call[c].doing # None
    /\ call' = [call EXCEPT ![c].doing = None]
    /\ UNCHANGED <<evaluating, cb, stack, run, hurt>>

-----------------------------------------------------------------------------
(***************************************************************************)
(* The root chain ends: _close_run.                                        *)
(***************************************************************************)
Quiet(c) == Running(c) /\ ~call[c].nested /\ call[c].doing = None

Ends(c, how) ==
    /\ Quiet(c)
    /\ call' = [call EXCEPT ![c].at = how]
    /\ cb' = [cb EXCEPT ![CallbackOf(c)].root = None, ![CallbackOf(c)].run = None]
    /\ UNCHANGED evaluating

Recorded(c) == cb[CallbackOf(c)].run # None

\* log_metric and end_run act on the run on top of the stack.
Logged(c, state) ==
    [run EXCEPT ![Last(stack)] = [state |-> state, counts |-> cb[CallbackOf(c)].counts]]

\* Metrics logged, run ended; or the server fails to end the run, which mlflow
\* has taken off its stack by then.
EndRun(c) ==
    /\ \E state \in {"finished", "open"} : run' = Logged(c, state)
    /\ stack' = Front(stack)
    /\ UNCHANGED hurt

\* A metric cannot be logged: end_run is skipped.
LeaveActive(c) ==
    /\ hurt' = TRUE
    /\ UNCHANGED <<stack, run>>

Close(c) ==
    IF Recorded(c) THEN EndRun(c) \/ LeaveActive(c) ELSE UNCHANGED <<stack, run, hurt>>

Answer(c) == Ends(c, "answered") /\ Close(c)

\* Seeded fault: there is no on_chain_error.
FailUnseen(c) == Ends(c, "failed") /\ UNCHANGED <<stack, run, hurt>>

\* on_chain_error: a tag more, whose failure changes nothing.
Fail(c) == Ends(c, "failed") /\ Close(c)

\* Seeded fault: the end of any chain is taken for the root's.
NestedEndCloses(c) ==
    /\ call[c].nested /\ call[c].doing = None
    /\ call' = [call EXCEPT ![c].nested = FALSE]
    /\ cb' = [cb EXCEPT ![CallbackOf(c)].root = None, ![CallbackOf(c)].run = None]
    /\ Close(c)
    /\ UNCHANGED evaluating

\* The end of a chain within the root chain is not the end of the run.
NestedEnd(c) ==
    /\ call[c].nested /\ call[c].doing = None
    /\ call' = [call EXCEPT ![c].nested = FALSE]
    /\ UNCHANGED <<evaluating, cb, stack, run, hurt>>

-----------------------------------------------------------------------------
\* _log_eval_to_mlflow: no root chain is running by then, so the aggregate goes
\* to a run of its own; nothing ends it before the process exits.
LogEvaluation ==
    /\ evaluating
    /\ \A c \in Calls : call[c].at = "answered"
    /\ stack = <<>> /\ run[Evaluation] = NoRun
    /\ StartRun(Evaluation)
    /\ UNCHANGED <<evaluating, call, cb, hurt>>

\* The service restarts: queries in progress are lost, and their runs stay open
\* on the server.
Restart ==
    /\ ~evaluating
    /\ call' = [c \in Calls |-> IF Running(c)
                                THEN [call[c] EXCEPT !.at = "failed", !.nested = FALSE, !.doing = None]
                                ELSE call[c]]
    /\ cb' = [k \in Runs |-> NewCallback]
    /\ stack' = <<>>
    /\ hurt' = FALSE
    /\ UNCHANGED <<evaluating, run>>

Next ==
    \/ LogEvaluation \/ Restart
    \/ \E c \in Calls :
          \/ Record(c) \/ Forget(c) \/ Skip(c)
          \/ NestedStart(c) \/ NestedEnd(c) \/ Done(c) \/ Raise(c)
          \/ \E kind \in Kinds : Begin(c, kind)
          \/ Answer(c) \/ Fail(c)

Spec == Init /\ [][Next]_vars

-----------------------------------------------------------------------------
(***************************************************************************)
(* Properties.                                                             *)
(***************************************************************************)
\* mlflow's active run is global to the process and the callbacks' calls name no
\* run.  All the same a callback that has a run finds that run active, and no
\* other: concurrent queries never log to or end each other's runs.
OwnRunOnly ==
    \A k \in Runs : cb[k].run # None => stack = <<cb[k].run>> /\ run[cb[k].run].state = "open"

\* A finished run is the record of its own query, all of it: the query is over,
\* and the run counts what it did after what the callback had counted before,
\* which is nothing in the service.
FinishedRunsAreTrue ==
    \A c \in Calls : run[c].state = "finished" =>
        /\ call[c].at \in {"answered", "failed"}
        /\ \A kind \in Kinds : run[c].counts[kind] = call[c].before[kind] + call[c].done[kind]
        /\ evaluating \/ call[c].before = NoCounts

\* An active run that no callback will end stops recording for good.  It takes a
\* server failure at the wrong moment, or the end of an evaluation: no order of
\* queries, errors and restarts leads there.
RecordingGoesOn ==
    stack # <<>> => \/ \E k \in Runs : cb[k].run = Last(stack)
                    \/ hurt
                    \/ Last(stack) = Evaluation

(***************************************************************************)
(* Why they hold.                                                          *)
(***************************************************************************)
\* A callback follows the root chain it was given, which is running, and its run
\* is that chain's.
CallbacksFollow ==
    \A k \in Runs :
        /\ cb[k].root # None => Running(cb[k].root) /\ CallbackOf(cb[k].root) = k
        /\ cb[k].run # None => cb[k].run = cb[k].root

\* A query has its callback's attention while it runs, and leaves no trace before.
CallsAreFollowed ==
    \A c \in Calls :
        /\ Running(c) =>
              /\ cb[CallbackOf(c)].root = c
              /\ \A kind \in Kinds :
                    cb[CallbackOf(c)].counts[kind] = call[c].before[kind] + call[c].done[kind]
        /\ ~Running(c) => ~call[c].nested /\ call[c].doing = None
        /\ call[c].at = "new" =>
              /\ call[c] = NewCall /\ run[c] = NoRun
              /\ ~evaluating => cb[c].counts = NoCounts
        /\ ~evaluating => call[c].before = NoCounts

OneActive == stack = <<>> \/ \E r \in Runs : stack = <<r>>

\* The inductive invariant behind the three safety properties.
TrackingInv ==
    /\ TypeOK
    /\ CallbacksFollow
    /\ CallsAreFollowed
    /\ OneActive
    /\ OwnRunOnly
    /\ FinishedRunsAreTrue
    /\ RecordingGoesOn
=============================================================================
