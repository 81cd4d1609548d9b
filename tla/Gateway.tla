------------------------------ MODULE Gateway ------------------------------
(***************************************************************************)
(* The gateway (sorakai/gateway/app.py, sorakai/common/security.py): every *)
(* /v1 request passes the size limit, bearer auth and a fixed-window rate  *)
(* limit per client address, and is then forwarded once to the ingest or   *)
(* the RAG service.  A request the gateway gives up on (502) goes on       *)
(* upstream, and its client may send another meanwhile.  Upstream the      *)
(* ingest service (sorakai/ingest/app.py) writes the knowledge store.      *)
(***************************************************************************)
EXTENDS Integers, FiniteSets

CONSTANTS
    Requests,       \* requests, each sent once; a retry is another request
    Clients,        \* client addresses
    Docs,           \* documents, by ids that match their own fields only
    Limit,          \* rate_limit_per_minute
    Window,         \* the minute, in ticks
    MaxTime,        \* bound on the clock
    SharedLimiter   \* TRUE: redis_url is set, the counts outlive the gateway

ASSUME GatewayAssumption ==
    /\ Limit \in Nat \ {0}
    /\ Window \in Nat \ {0}
    /\ MaxTime \in Nat
    /\ SharedLimiter \in BOOLEAN
    /\ IsFiniteSet(Requests)

VARIABLES
    now,      \* the clock
    window,   \* window[c]: the limiter's counter for client c and its first hit
    req,      \* req[r]: the request, at the gateway and upstream
    stored    \* stored[d]: the upload whose chunks of document d Redis holds, or None

vars == <<now, window, req, stored>>

None == "none"
NoTime == -1

\* "replace" is an upload with replace_kb, which the gateway forwards as it is.
Writes == {"upload", "replace", "delete"}
Kinds == Writes \cup {"ask", "stream"}
NoWindow == [start |-> 0, count |-> 0]

\* up: what the upstream service does with the request; started: the window
\* that counted it; time: when it was counted; rivals (history): the writes
\* that may touch what it touches and that upstream was busy with since it began.
New == [at |-> "new", client |-> None, kind |-> "ask", doc |-> None, up |-> "none",
        started |-> NoTime, time |-> NoTime, rivals |-> {}]

ReqType ==
    [at : {"new", "refused", "limited", "waiting", "answered", "error", "unreachable"},
     client : Clients \cup {None}, kind : Kinds, doc : Docs \cup {None},
     up : {"none", "running", "ok", "error", "gone"},
     started : Nat \cup {NoTime}, time : Nat \cup {NoTime}, rivals : SUBSET Requests]

TypeOK ==
    /\ now \in Nat
    /\ window \in [Clients -> [start : Nat, count : Nat]]
    /\ req \in [Requests -> ReqType]
    /\ stored \in [Docs -> Requests \cup {None}]

Init ==
    /\ now = 0
    /\ window = [c \in Clients |-> NoWindow]
    /\ req = [r \in Requests |-> New]
    /\ stored = [d \in Docs |-> None]

-----------------------------------------------------------------------------
(***************************************************************************)
(* At the gateway's door.                                                  *)
(***************************************************************************)
Tick ==
    /\ now < MaxTime
    /\ now' = now + 1
    /\ UNCHANGED <<window, req, stored>>

\* The counter of a window that is over is gone.
OpenWindow(c) ==
    IF window[c].count > 0 /\ now < window[c].start + Window
    THEN window[c] ELSE [start |-> now, count |-> 0]

\* limits' hit: every hit is counted, the refused ones too.
Counted(c) == [OpenWindow(c) EXCEPT !.count = @ + 1]

\* Seeded fault: one too many passes.
AllowsOneMore(c) == Counted(c).count <= Limit + 1

Allows(c) == Counted(c).count <= Limit

\* A request of client c that the limiter counts.
Hit(c, place) ==
    [New EXCEPT !.at = place, !.client = c, !.started = OpenWindow(c).start, !.time = now]

\* A request is refused before it is counted.
RefuseUncounted(r) ==
    /\ req[r] = New
    /\ req' = [req EXCEPT ![r].at = "refused"]
    /\ UNCHANGED <<now, window, stored>>

\* Seeded fault: a request refused for its credentials has been counted.
RefuseCounted(r) ==
    /\ req[r] = New
    /\ req' = [req EXCEPT ![r].at = "refused"]
    /\ \E c \in Clients : window' = [window EXCEPT ![c] = Counted(c)]
    /\ UNCHANGED <<now, stored>>

\* 413: the middleware turns the body down.
TooLarge(r) == RefuseUncounted(r)

\* 401, or the limiter's store does not answer (500).
Refuse(r) == RefuseUncounted(r)

\* The request is let through, to be forwarded.
Admit(r, c, kind, d) ==
    /\ req[r] = New
    /\ Allows(c)
    /\ d \in IF kind \in Writes THEN Docs ELSE {None}
    /\ window' = [window EXCEPT ![c] = Counted(c)]
    /\ req' = [req EXCEPT ![r] = [Hit(c, "waiting") EXCEPT !.kind = kind, !.doc = d]]
    /\ UNCHANGED <<now, stored>>

\* 429; or 422: FastAPI reports a body that is well-formed JSON and not a valid
\* request only after its dependencies ran, when it has been counted.
Reject(r, c) ==
    /\ req[r] = New
    /\ window' = [window EXCEPT ![c] = Counted(c)]
    /\ req' = [req EXCEPT ![r] = Hit(c, IF Allows(c) THEN "refused" ELSE "limited")]
    /\ UNCHANGED <<now, stored>>

-----------------------------------------------------------------------------
(***************************************************************************)
(* Upstream.                                                               *)
(***************************************************************************)
Waiting(r) == req[r].at = "waiting"
Up(r, state) == req[r].up = state

\* The documents a write is about: replace_kb deletes every other one.
Written(r) == IF req[r].kind = "replace" THEN Docs ELSE {req[r].doc}

\* Those it may write: a deletion that a scan does not show the document may
\* rewrite the whole hash from a copy.
Touched(r) == IF req[r].kind = "upload" THEN {req[r].doc} ELSE Docs
Rival(q, r) ==
    {req[q].kind, req[r].kind} \subseteq Writes /\ Touched(q) \cap Touched(r) # {}

\* The upstream service receives the request.
Reach(r) ==
    /\ Waiting(r)
    /\ Up(r, "none")
    /\ req' = [q \in Requests |->
                 IF q = r
                 THEN [req[r] EXCEPT !.up = "running",
                                     !.rivals = {p \in Requests : Rival(p, r) /\ Up(p, "running")}]
                 ELSE IF Rival(q, r) /\ ~Up(q, "none")
                 THEN [req[q] EXCEPT !.rivals = @ \cup {r}]
                 ELSE req[q]]
    /\ UNCHANGED <<now, window, stored>>

\* What a write leaves in a document it is about.
Wrote(r, d) == IF req[r].kind # "delete" /\ d = req[r].doc THEN r ELSE None

\* Seeded fault: replace_kb stores its document and keeps the others.
LeaveOthers(r) == stored' = [stored EXCEPT ![req[r].doc] = Wrote(r, req[r].doc)]

\* The write is done.
Leave(r) ==
    stored' = [d \in Docs |-> IF d \in Written(r) THEN Wrote(r, d) ELSE stored[d]]

\* Writes of one document that overlap leave it to any of them, or a rewrite
\* brings back what another replaced.
Mix(r) ==
    /\ req[r].rivals # {}
    /\ \E s \in [Touched(r) -> Requests \cup {None}] :
          /\ \A d \in Touched(r) : s[d] # None =>
                ~Up(s[d], "none") /\ Wrote(s[d], d) = s[d]
          /\ stored' = [d \in Docs |-> IF d \in Touched(r) THEN s[d] ELSE stored[d]]

Succeed(r) ==
    /\ Up(r, "running")
    /\ req' = [req EXCEPT ![r].up = "ok"]
    /\ IF req[r].kind \in Writes THEN Leave(r) \/ Mix(r) ELSE UNCHANGED stored
    /\ UNCHANGED <<now, window>>

\* An error reply, or a crash and no reply: a write may have been done.
Break(r) ==
    /\ Up(r, "running")
    /\ \E end \in {"error", "gone"} : req' = [req EXCEPT ![r].up = end]
    /\ (req[r].kind \in Writes /\ (Leave(r) \/ Mix(r))) \/ UNCHANGED stored
    /\ UNCHANGED <<now, window>>

-----------------------------------------------------------------------------
(***************************************************************************)
(* The answer.                                                             *)
(***************************************************************************)
\* Seeded fault: the upstream status is not looked at.
DeliverAnyStatus(r) ==
    /\ Waiting(r)
    /\ Up(r, "ok") \/ Up(r, "error")
    /\ req' = [req EXCEPT ![r].at = "answered"]
    /\ UNCHANGED <<now, window, stored>>

\* The upstream reply is passed on: its body, or its status and detail.
Deliver(r) ==
    /\ Waiting(r)
    /\ Up(r, "ok") \/ Up(r, "error")
    /\ req' = [req EXCEPT ![r].at = IF Up(r, "ok") THEN "answered" ELSE "error"]
    /\ UNCHANGED <<now, window, stored>>

\* Seeded fault: a reply is waited for without limit, as a stream's is.
GiveUpUnreached(r) ==
    /\ Waiting(r)
    /\ Up(r, "none") \/ Up(r, "gone")
    /\ req' = [req EXCEPT ![r].at = "unreachable"]
    /\ UNCHANGED <<now, window, stored>>

\* httpx.RequestError: no connection, a dropped one, or a timeout while upstream
\* goes on.  Once a stream is connected its reads have no timeout.
GiveUp(r) ==
    /\ Waiting(r)
    /\ req[r].kind # "stream" \/ Up(r, "none") \/ Up(r, "gone")
    /\ req' = [req EXCEPT ![r].at = "unreachable"]
    /\ UNCHANGED <<now, window, stored>>

\* The gateway restarts: its clients see their connections drop, and upstream
\* goes on.  Counters in memory are gone, and so is what they counted.
Restart ==
    /\ req' = [r \in Requests |->
                 LET q == IF Waiting(r) THEN [req[r] EXCEPT !.at = "unreachable"] ELSE req[r]
                 IN  IF SharedLimiter THEN q ELSE [q EXCEPT !.started = NoTime, !.time = NoTime]]
    /\ window' = IF SharedLimiter THEN window ELSE [c \in Clients |-> NoWindow]
    /\ UNCHANGED <<now, stored>>

Next ==
    \/ Tick \/ Restart
    \/ \E r \in Requests :
          \/ TooLarge(r) \/ Refuse(r) \/ Reach(r) \/ Succeed(r) \/ Break(r) \/ Deliver(r) \/ GiveUp(r)
          \/ \E c \in Clients :
                Reject(r, c) \/ \E kind \in Kinds, d \in Docs \cup {None} : Admit(r, c, kind, d)

Spec == Init /\ [][Next]_vars

\* The gateway's own steps: httpx returns a reply it has, and raises when the
\* timeout is over.  Upstream owes nothing.
FairSpec == Spec /\ \A r \in Requests : WF_vars(Deliver(r) \/ GiveUp(r))

-----------------------------------------------------------------------------
(***************************************************************************)
(* Properties.                                                             *)
(***************************************************************************)
\* The requests of c that were let through, those with an invalid body included.
Admitted(c) == {r \in Requests : req[r].client = c /\ req[r].started # NoTime
                                                   /\ req[r].at # "limited"}

\* However requests fall around the boundary of two windows and whenever the
\* gateway restarts, no stretch of time as long as a window lets twice the limit
\* of one client through: a window opens with a request that passes, and a
\* stretch that meets two windows begins after it.
UnderTwiceTheLimit ==
    \A c \in Clients :
        Cardinality({r \in Admitted(c) : req[r].time + Window > now}) < 2 * Limit

\* A client is told 429 only when Limit of its own requests passed in the same
\* window: what auth or the size limit refuses, other clients send, or an
\* earlier window counted takes nothing of its budget.
OnlyFullWindowsReject ==
    \A r \in Requests : req[r].at = "limited" /\ req[r].started # NoTime =>
        Cardinality({q \in Admitted(req[r].client) : req[q].started = req[r].started}) = Limit

\* What the gateway confirmed is so: an upload, replacement or deletion that was
\* answered, with no rival in progress upstream since it began (one the gateway
\* gave up on earlier, or a later one), is what the knowledge store holds; after
\* a replacement nothing else is there.
LastAnswerStands ==
    \A r \in Requests :
        req[r].at = "answered" /\ req[r].kind \in Writes /\ req[r].rivals = {} =>
            \A d \in Written(r) : stored[d] = Wrote(r, d)

\* Whatever upstream does, a client that is not streaming gets an answer.
AnswersInTime ==
    \A r \in Requests : (Waiting(r) /\ req[r].kind # "stream") ~> ~Waiting(r)

(***************************************************************************)
(* Why they hold.                                                          *)
(***************************************************************************)
CountedAs(r, c) == req[r].client = c /\ req[r].started # NoTime
In(c, start) == {r \in Requests : CountedAs(r, c) /\ req[r].started = start
                                                 /\ req[r].at # "limited"}

\* Every request lies in its window, no window is later than the open one, and
\* windows do not overlap.
WindowsApart ==
    \A c \in Clients :
        /\ window[c].start <= now
        /\ \A r \in Requests : CountedAs(r, c) =>
              /\ req[r].started <= req[r].time
              /\ req[r].time <= now
              /\ req[r].time < req[r].started + Window
              /\ window[c].count > 0
              /\ req[r].started = window[c].start \/ req[r].started + Window <= window[c].start
              /\ \A q \in Requests : CountedAs(q, c) /\ req[q].started < req[r].started =>
                    req[q].started + Window <= req[r].started

\* The counter of the open window tells how many it let through.
CountersAreTrue ==
    \A c \in Clients : window[c].count > 0 =>
        Cardinality(In(c, window[c].start)) =
            IF window[c].count < Limit THEN window[c].count ELSE Limit

\* No window lets more than Limit through, and one that turned a request down
\* did not let fewer.
WindowsHoldLimit ==
    \A c \in Clients : \A r \in Requests : CountedAs(r, c) =>
        /\ Cardinality(In(c, req[r].started)) <= Limit
        /\ req[r].at = "limited" =>
              /\ Cardinality(In(c, req[r].started)) = Limit
              /\ req[r].started = window[c].start => window[c].count > Limit

\* The request that opened a window passed.
FirstHitPasses ==
    \A c \in Clients : \A r \in Requests : CountedAs(r, c) =>
        \E q \in In(c, req[r].started) : req[q].time = req[q].started

\* Forwarded requests are whole, and nobody is told of a success that was none.
AnswersAreTrue ==
    \A r \in Requests :
        /\ req[r].at = "answered" => req[r].up = "ok"
        /\ req[r].kind \in Writes => req[r].doc \in Docs
        /\ req[r].started # NoTime => req[r].client \in Clients

RivalsAreKnown ==
    \A r, q \in Requests :
        r # q /\ Rival(q, r) /\ ~Up(r, "none") /\ Up(q, "running") => q \in req[r].rivals

LastWriteStands ==
    \A r \in Requests :
        Up(r, "ok") /\ req[r].kind \in Writes /\ req[r].rivals = {} =>
            \A d \in Written(r) : stored[d] = Wrote(r, d)

\* The inductive invariant behind the three safety properties.
GatewayInv ==
    /\ TypeOK
    /\ WindowsApart
    /\ CountersAreTrue
    /\ WindowsHoldLimit
    /\ FirstHitPasses
    /\ AnswersAreTrue
    /\ RivalsAreKnown
    /\ LastWriteStands
=============================================================================
