---------------------------- MODULE ChatHistory ----------------------------
(***************************************************************************)
(* The turns of chat sessions: the four question endpoints of the rag      *)
(* service (sorakai/rag/app.py) over the history store                     *)
(* (sorakai/common/chat_history.py, sorakai/chains/history.py).  A turn    *)
(* reads its session's list, spends a while retrieving and generating, and *)
(* appends its question and answer to the list, which is cut to Max        *)
(* messages.  Turns of one session may overlap; each of the two accesses   *)
(* is atomic (LRANGE, and RPUSH + LTRIM + EXPIRE in one transaction, or no *)
(* await at all in the in-memory store).                                   *)
(***************************************************************************)
EXTENDS Naturals, Sequences

CONSTANTS
    Turns,      \* requests, each with a question of its own
    Sessions,   \* ids that validate_session_id accepts
    NoSession,  \* no session_id, or use_chat_history = false
    BadSession, \* an id that validate_session_id refuses
    Stateless,  \* the key "__stateless__" of chain calls without a session
    NoKey,      \* the turn uses no list
    Max,        \* chat_history_max_messages
    InMemory,   \* no REDIS_URL: the lists live in the process
    MayFail     \* the faults of this instance, a subset of Faults

Endpoints == {"query", "query_stream", "agent", "agent_stream"}
Chain == {"query", "query_stream"}
Faults == {"work", "save", "reply", "restart", "expiry"}
Keys == Sessions \cup {Stateless}

ASSUME ChatAssumption ==
    /\ Max \in Nat /\ Max >= 2
    /\ NoKey \notin Keys
    /\ Stateless \notin Sessions
    /\ {NoSession, BadSession} \cap Sessions = {}
    /\ NoSession # BadSession
    /\ InMemory \in BOOLEAN
    /\ MayFail \subseteq Faults

VARIABLES
    log,     \* log[k]: the messages stored under key k
    turn,    \* turn[t]: the request, see TurnType
    excused  \* history: turns whose messages an expiry, a restart or a failed
             \* save took, and agent turns that had no answer to store

vars == <<log, turn, excused>>

Message == [turn : Turns, role : {"user", "assistant"}]

Places == {"new", "load", "work", "save", "answer", "answered", "empty", "failed", "rejected"}

\* view: the history the model is given; earlier (history): the turns of the
\* same list that were answered when this one arrived.
TurnType == [at : Places, endpoint : Endpoints, key : Keys \cup {NoKey},
             view : Seq(Message), earlier : SUBSET Turns]

TypeOK ==
    /\ log \in [Keys -> Seq(Message)]
    /\ turn \in [Turns -> TurnType]
    /\ excused \in SUBSET Turns

NotYet == [at |-> "new", endpoint |-> "query", key |-> NoKey, view |-> <<>>, earlier |-> {}]

Init ==
    /\ log = [k \in Keys |-> <<>>]
    /\ turn = [t \in Turns |-> NotYet]
    /\ excused = {}

-----------------------------------------------------------------------------
At(t, place) == turn[t].at = place
GoTo(t, place) == turn' = [turn EXCEPT ![t].at = place]
Running(t) == turn[t].at \in {"load", "work", "save", "answer"}
Asked(s) == {s[i].turn : i \in 1..Len(s)}

\* Which list an endpoint uses: the chain always one, the agent only with a
\* session, the agent's stream none.
KeyOf(endpoint, session) ==
    IF endpoint = "agent_stream" THEN NoKey
    ELSE IF session \in Sessions THEN session
    ELSE IF endpoint \in Chain THEN Stateless ELSE NoKey

\* A request arrives; meta and listing have been checked where the endpoint
\* checks them.
Begin(t, endpoint, session) ==
    /\ At(t, "new")
    /\ LET k == KeyOf(endpoint, session)
       IN  turn' = [turn EXCEPT ![t] =
               [at |-> IF k = NoKey THEN "work" ELSE "load",
                endpoint |-> endpoint, key |-> k, view |-> <<>>,
                earlier |-> {u \in Turns \ excused : At(u, "answered") /\ turn[u].key = k
                                                       /\ k # NoKey}]]
    /\ UNCHANGED <<log, excused>>

\* 400 for the session id, or the 409 and 404 before the chain runs.
Reject(t, session) ==
    /\ At(t, "new")
    /\ session = BadSession
    /\ GoTo(t, "rejected")
    /\ UNCHANGED <<log, excused>>

\* Seeded fault: only the chain is given the history.
LoadForChain(t) ==
    /\ At(t, "load")
    /\ turn' = [turn EXCEPT ![t].at = "work",
                            ![t].view = IF turn[t].endpoint \in Chain THEN log[turn[t].key]
                                        ELSE <<>>]
    /\ UNCHANGED <<log, excused>>

\* aget_messages.
Load(t) ==
    /\ At(t, "load")
    /\ turn' = [turn EXCEPT ![t].at = "work", ![t].view = log[turn[t].key]]
    /\ UNCHANGED <<log, excused>>

\* Retrieval and generation.
Work(t) ==
    /\ At(t, "work")
    /\ GoTo(t, IF turn[t].key = NoKey THEN "answer" ELSE "save")
    /\ UNCHANGED <<log, excused>>

\* The graph may end with an empty answer, which the agent does not store.
SaySomethingElse(t) ==
    /\ At(t, "work")
    /\ turn[t].endpoint = "agent"
    /\ turn[t].key # NoKey
    /\ GoTo(t, "answer")
    /\ excused' = excused \cup {t}
    /\ UNCHANGED log

\* Seeded fault: LTRIM key -(max-1) -1.
TrimmedShort(s) == IF Len(s) >= Max THEN SubSeq(s, Len(s) - Max + 2, Len(s)) ELSE s

\* LTRIM key -max -1.
Trimmed(s) == IF Len(s) > Max THEN SubSeq(s, Len(s) - Max + 1, Len(s)) ELSE s

Pair(t) == <<[turn |-> t, role |-> "user"], [turn |-> t, role |-> "assistant"]>>

\* Seeded fault: the list read before is written back with the pair.
AppendedToView(t) == Trimmed(turn[t].view \o Pair(t))

\* Seeded fault: LPUSH for RPUSH.
AppendedFirst(t) == Trimmed(Pair(t) \o log[turn[t].key])

\* The list after aadd_messages.  The in-memory store trims after each of the
\* two messages, which leaves the same list.
Appended(t) == Trimmed(log[turn[t].key] \o Pair(t))

Save(t) ==
    /\ At(t, "save")
    /\ log' = [log EXCEPT ![turn[t].key] = Appended(t)]
    /\ GoTo(t, "answer")
    /\ UNCHANGED excused

\* Redis refuses the transaction.  The agent's request fails; the chain saves
\* in a callback, whose exceptions langchain logs and swallows.
SaveFails(t) ==
    /\ At(t, "save")
    /\ "save" \in MayFail /\ ~InMemory
    /\ IF turn[t].endpoint \in Chain
       THEN GoTo(t, "answer") /\ excused' = excused \cup {t}
       ELSE GoTo(t, "failed") /\ UNCHANGED excused
    /\ UNCHANGED log

\* Redis commits and its reply is lost.
SaveUnheard(t) ==
    /\ At(t, "save")
    /\ "reply" \in MayFail /\ ~InMemory
    /\ log' = [log EXCEPT ![turn[t].key] = Appended(t)]
    /\ GoTo(t, IF turn[t].endpoint \in Chain THEN "answer" ELSE "failed")
    /\ UNCHANGED excused

Answer(t) ==
    /\ At(t, "answer")
    /\ GoTo(t, "answered")
    /\ UNCHANGED <<log, excused>>

\* 404 "Could not retrieve context": the turn is stored all the same.
AnswerEmpty(t) ==
    /\ At(t, "answer")
    /\ turn[t].endpoint = "query"
    /\ GoTo(t, "empty")
    /\ UNCHANGED <<log, excused>>

\* A call raises, or the client of a stream goes away.
Fail(t) ==
    /\ "work" \in MayFail
    /\ turn[t].at \in {"load", "work"}
    /\ GoTo(t, "failed")
    /\ UNCHANGED <<log, excused>>

\* EXPIRE: nothing was appended to k for chat_history_ttl_seconds.
Expire(k) ==
    /\ "expiry" \in MayFail /\ ~InMemory
    /\ log[k] # <<>>
    /\ log' = [log EXCEPT ![k] = <<>>]
    /\ excused' = excused \cup {t \in Turns : turn[t].key = k
                                  /\ turn[t].at \in {"answer", "answered", "empty", "failed"}}
    /\ UNCHANGED turn

\* The rag process is restarted: its requests are lost, and the in-memory lists.
Restart ==
    /\ "restart" \in MayFail
    /\ \E t \in Turns : Running(t)
    /\ turn' = [t \in Turns |-> IF Running(t) THEN [turn[t] EXCEPT !.at = "failed"] ELSE turn[t]]
    /\ IF InMemory
       THEN /\ log' = [k \in Keys |-> <<>>]
            /\ excused' = excused \cup {t \in Turns : ~At(t, "new")}
       ELSE UNCHANGED <<log, excused>>

Step(t) ==
    Load(t) \/ Work(t) \/ SaySomethingElse(t) \/ Save(t) \/ SaveFails(t)
            \/ SaveUnheard(t) \/ Answer(t) \/ AnswerEmpty(t)

Next ==
    \/ \E t \in Turns :
          \/ \E e \in Endpoints, s \in Sessions \cup {NoSession} : Begin(t, e, s)
          \/ Reject(t, BadSession)
          \/ Step(t) \/ Fail(t)
    \/ \E k \in Keys : Expire(k)
    \/ Restart

Spec == Init /\ [][Next]_vars

-----------------------------------------------------------------------------
(***************************************************************************)
(* Properties.                                                             *)
(***************************************************************************)

\* Whole turns: questions and answers alternate, the list ends with an answer,
\* each question is followed by its own answer, and an even Max cuts no pair.
Whole(s) ==
    /\ Len(s) <= Max
    /\ \A i \in 1..Len(s) : s[i].role = IF (Len(s) - i) % 2 = 0 THEN "assistant" ELSE "user"
    /\ \A i \in 1..Len(s) - 1 : s[i].role = "user" => s[i + 1].turn = s[i].turn
    /\ Max % 2 = 0 => Len(s) % 2 = 0

\* However turns of a session overlap and fail, and whatever the cut removes,
\* a history holds whole turns.
WholeTurns == \A k \in Keys : Whole(log[k])

Full(s) == Len(s) = Max

\* A turn answered with a list of its own is still in it, whichever turns
\* overlapped with it, until the list is full or was taken away.
AnsweredTurnsStay ==
    \A t \in Turns \ excused :
        At(t, "answered") /\ turn[t].key # NoKey =>
            t \in Asked(log[turn[t].key]) \/ Full(log[turn[t].key])

\* The model is shown every turn of its session answered before the question
\* arrived, unless the list it read was full.
SeesThePast ==
    \A t \in Turns : turn[t].at \in {"work", "save", "answer", "answered"} =>
        \A u \in turn[t].earlier \ excused :
            u \in Asked(turn[t].view) \/ Full(turn[t].view)

\* A turn asked after another was answered comes after it in the list.
InOrder ==
    \A k \in Keys : \A i, j \in 1..Len(log[k]) :
        i < j => log[k][j].turn \notin turn[log[k][i].turn].earlier

\* A question without a session is answered without other requests' turns.
StatelessIsBlank == \A t \in Turns : turn[t].key = Stateless => turn[t].view = <<>>

(***************************************************************************)
(* Why they hold.                                                          *)
(***************************************************************************)

\* A turn counts as earlier once it was answered, for good.
EarlierIsAnswered ==
    \A t \in Turns : \A u \in turn[t].earlier :
        At(u, "answered") /\ turn[u].key = turn[t].key /\ turn[t].key # NoKey

\* Only turns that got as far as storing are in a list.
StoredHaveRun ==
    \A k \in Keys : \A u \in Asked(log[k]) :
        turn[u].at \in {"answer", "answered", "empty", "failed"}

\* A turn with a list has stored its pair when it comes to its answer.
StoredBeforeAnswer ==
    \A t \in Turns \ excused :
        turn[t].at \in {"answer", "answered"} /\ turn[t].key # NoKey =>
            t \in Asked(log[turn[t].key]) \/ Full(log[turn[t].key])

HasList == \A t \in Turns : turn[t].at \in {"load", "save"} => turn[t].key \in Keys

\* The inductive invariant behind the properties above.
ChatInv ==
    /\ TypeOK
    /\ HasList
    /\ EarlierIsAnswered
    /\ StoredHaveRun
    /\ StoredBeforeAnswer
    /\ WholeTurns
    /\ SeesThePast
    /\ InOrder
=============================================================================
