--------------------------- MODULE GatewayProofs ---------------------------
(***************************************************************************)
(* Proofs about Gateway, for any requests, clients and documents, any      *)
(* limit and any window: the limiter lets at most twice its limit through  *)
(* in any stretch as long as a window and turns nobody down for less than  *)
(* a full one, and what the gateway confirmed is what is stored.           *)
(***************************************************************************)
EXTENDS Gateway, FiniteSetTheorems, TLAPS

USE GatewayAssumption DEF GatewayAssumption, NoTime

LEMMA InFinite ==
    ASSUME NEW c, NEW s
    PROVE  IsFiniteSet(In(c, s)) /\ Cardinality(In(c, s)) \in Nat
BY FS_Subset, FS_CardinalityType DEF In

LEMMA NewIsNew == New \in ReqType /\ New.started = NoTime /\ New.up = "none" /\ New.at = "new"
                  /\ New.kind = "ask" /\ New.rivals = {} /\ New.kind \notin Writes
BY DEF New, ReqType, Kinds, Writes, None

LEMMA WindowIs ==
    ASSUME TypeOK, NEW c \in Clients
    PROVE  /\ OpenWindow(c) \in [start : Nat, count : Nat]
           /\ Counted(c) = [start |-> OpenWindow(c).start, count |-> OpenWindow(c).count + 1]
           /\ Counted(c) \in [start : Nat, count : Nat]
BY DEF TypeOK, OpenWindow, Counted

LEMMA HitIs ==
    ASSUME TypeOK, NEW c \in Clients, NEW place \in {"waiting", "refused", "limited"}
    PROVE  /\ Hit(c, place) \in ReqType
           /\ Hit(c, place).at = place /\ Hit(c, place).client = c
           /\ Hit(c, place).started = OpenWindow(c).start /\ Hit(c, place).time = now
           /\ Hit(c, place).up = "none" /\ Hit(c, place).rivals = {} /\ Hit(c, place).kind = "ask"
BY WindowIs DEF TypeOK, Hit, New, ReqType, Kinds, Writes, None

-----------------------------------------------------------------------------
(***************************************************************************)
(* Types.                                                                  *)
(***************************************************************************)
LEMMA TypeStep == TypeOK /\ [Next]_vars => TypeOK'
<1> SUFFICES ASSUME TypeOK, [Next]_vars PROVE TypeOK'
  OBVIOUS
<1>0. CASE UNCHANGED vars
  BY <1>0 DEF vars, TypeOK
<1>1. CASE Tick
  BY <1>1 DEF Tick, TypeOK
<1>2. CASE Restart
  <2>1. NoWindow \in [start : Nat, count : Nat]
    BY DEF NoWindow
  <2>2. ASSUME NEW r \in Requests
        PROVE  req'[r] \in ReqType
    <3> DEFINE q == IF Waiting(r) THEN [req[r] EXCEPT !.at = "unreachable"] ELSE req[r]
    <3>1. q \in ReqType
      BY DEF TypeOK, ReqType
    <3>2. [q EXCEPT !.started = NoTime, !.time = NoTime] \in ReqType
      BY <3>1 DEF ReqType
    <3>3. req'[r] = IF SharedLimiter THEN q ELSE [q EXCEPT !.started = NoTime, !.time = NoTime]
      BY <1>2 DEF Restart
    <3> QED
      BY <3>1, <3>2, <3>3
  <2> QED
    BY <1>2, <2>1, <2>2 DEF Restart, TypeOK
<1>3. ASSUME NEW r \in Requests, TooLarge(r) \/ Refuse(r) \/ Deliver(r) \/ GiveUp(r)
      PROVE  TypeOK'
  BY <1>3 DEF TooLarge, Refuse, RefuseUncounted, Deliver, GiveUp, TypeOK, ReqType
<1>4. ASSUME NEW r \in Requests, Reach(r)
      PROVE  TypeOK'
  <2>1. ASSUME NEW q \in Requests
        PROVE  req'[q] \in ReqType
    <3>0. req[q] \in ReqType
      BY DEF TypeOK
    <3>1. CASE q = r
      BY <1>4, <3>0, <3>1 DEF Reach, ReqType
    <3>2. CASE q # r /\ Rival(q, r) /\ ~Up(q, "none")
      <4>1. req'[q] = [req[q] EXCEPT !.rivals = @ \cup {r}]
        BY <1>4, <3>2 DEF Reach
      <4> QED
        BY <3>0, <4>1 DEF ReqType
    <3>3. CASE q # r /\ ~(Rival(q, r) /\ ~Up(q, "none"))
      BY <1>4, <3>0, <3>3 DEF Reach
    <3> QED
      BY <3>1, <3>2, <3>3
  <2> QED
    BY <1>4, <2>1 DEF Reach, TypeOK
<1>5. ASSUME NEW r \in Requests, Succeed(r) \/ Break(r)
      PROVE  TypeOK'
  <2>1. req' \in [Requests -> ReqType]
    BY <1>5 DEF Succeed, Break, TypeOK, ReqType
  <2>2. CASE UNCHANGED stored
    BY <1>5, <2>1, <2>2 DEF Succeed, Break, TypeOK
  <2>3. CASE Leave(r)
    <3>1. stored' \in [Docs -> Requests \cup {None}]
      BY <2>3 DEF Leave, Wrote, TypeOK
    <3> QED
      BY <1>5, <2>1, <3>1 DEF Succeed, Break, TypeOK
  <2>4. CASE Mix(r)
    <3>1. stored' \in [Docs -> Requests \cup {None}]
      BY <2>4 DEF Mix, TypeOK
    <3> QED
      BY <1>5, <2>1, <3>1 DEF Succeed, Break, TypeOK
  <2> QED
    BY <1>5, <2>2, <2>3, <2>4 DEF Succeed, Break
<1>6. ASSUME NEW r \in Requests, NEW c \in Clients, Reject(r, c)
      PROVE  TypeOK'
  BY <1>6, HitIs, WindowIs DEF Reject, TypeOK
<1>7. ASSUME NEW r \in Requests, NEW c \in Clients, NEW kind \in Kinds, NEW d \in Docs \cup {None},
             Admit(r, c, kind, d)
      PROVE  TypeOK'
  <2>1. Hit(c, "waiting") \in ReqType
    BY HitIs
  <2>2. [Hit(c, "waiting") EXCEPT !.kind = kind, !.doc = d] \in ReqType
    BY <2>1 DEF ReqType
  <2> QED
    BY <1>7, <2>2, WindowIs DEF Admit, TypeOK
<1> QED
  BY <1>0, <1>1, <1>2, <1>3, <1>4, <1>5, <1>6, <1>7 DEF Next

-----------------------------------------------------------------------------
(***************************************************************************)
(* The limiter.                                                            *)
(***************************************************************************)
LimiterInv == WindowsApart /\ CountersAreTrue /\ WindowsHoldLimit /\ FirstHitPasses

\* A step that counts nothing and turns nothing down.
Calm ==
    /\ now' = now /\ window' = window
    /\ \A r \in Requests :
          /\ req'[r].client = req[r].client
          /\ req'[r].started = req[r].started
          /\ req'[r].time = req[r].time
          /\ req'[r].at = "limited" <=> req[r].at = "limited"

LEMMA CalmKeeps == LimiterInv /\ Calm => LimiterInv'
<1> SUFFICES ASSUME LimiterInv, Calm PROVE LimiterInv'
  OBVIOUS
<1>1. \A r \in Requests, c \in Clients : CountedAs(r, c)' <=> CountedAs(r, c)
  BY DEF CountedAs, Calm
<1>2. \A c \in Clients : \A s : In(c, s)' = In(c, s)
  BY <1>1 DEF In, Calm
<1>3. WindowsApart'
  BY <1>1 DEF LimiterInv, WindowsApart, Calm
<1>4. CountersAreTrue'
  BY <1>2 DEF LimiterInv, CountersAreTrue, Calm
<1>5. WindowsHoldLimit'
  BY <1>1, <1>2 DEF LimiterInv, WindowsHoldLimit, Calm
<1>6. FirstHitPasses'
  <2> SUFFICES ASSUME NEW c \in Clients, NEW r \in Requests, CountedAs(r, c)',
                      NEW s, s = req'[r].started
               PROVE  \E q \in In(c, s)' : req'[q].time = req'[q].started
    BY DEF FirstHitPasses
  <2>0. CountedAs(r, c) /\ s = req[r].started
    BY <1>1 DEF Calm
  <2>1. PICK q \in In(c, s) : req[q].time = req[q].started
    BY <2>0 DEF LimiterInv, FirstHitPasses
  <2>2. q \in In(c, s)' /\ q \in Requests
    BY <1>2, <2>1 DEF In
  <2> QED
    BY <2>1, <2>2 DEF Calm
<1> QED
  BY <1>3, <1>4, <1>5, <1>6 DEF LimiterInv

LEMMA TickKeeps == TypeOK /\ LimiterInv /\ Tick => LimiterInv'
<1> SUFFICES ASSUME TypeOK, LimiterInv, Tick PROVE LimiterInv'
  OBVIOUS
<1>1. WindowsApart'
  BY DEF LimiterInv, TypeOK, ReqType, WindowsApart, CountedAs, Tick
<1>2. CountersAreTrue' /\ WindowsHoldLimit' /\ FirstHitPasses'
  BY DEF LimiterInv, CountersAreTrue, WindowsHoldLimit, FirstHitPasses, CountedAs, In, Tick
<1> QED
  BY <1>1, <1>2 DEF LimiterInv

\* What the open window is to the requests counted before.
LEMMA OpenWindowFacts ==
    ASSUME TypeOK, LimiterInv, NEW c \in Clients
    PROVE  /\ OpenWindow(c).start <= now
           /\ now < OpenWindow(c).start + Window
           /\ \A r \in Requests : CountedAs(r, c) =>
                 req[r].started = OpenWindow(c).start
                   \/ req[r].started + Window <= OpenWindow(c).start
           /\ Cardinality(In(c, OpenWindow(c).start)) =
                 IF OpenWindow(c).count < Limit THEN OpenWindow(c).count ELSE Limit
           /\ OpenWindow(c).count = 0 => OpenWindow(c).start = now
<1>0. /\ now \in Nat /\ window[c] \in [start : Nat, count : Nat] /\ window[c].start <= now
      /\ \A r \in Requests : req[r].started \in Nat \cup {NoTime}
  BY DEF TypeOK, ReqType, LimiterInv, WindowsApart
<1>1. CASE window[c].count > 0 /\ now < window[c].start + Window
  BY <1>0, <1>1 DEF OpenWindow, LimiterInv, WindowsApart, CountersAreTrue
<1>2. CASE ~(window[c].count > 0 /\ now < window[c].start + Window)
  <2>1. OpenWindow(c) = [start |-> now, count |-> 0]
    BY <1>2 DEF OpenWindow
  <2>2. \A r \in Requests : CountedAs(r, c) => req[r].started + Window <= now
    BY <1>0, <1>2 DEF LimiterInv, WindowsApart
  <2>3. \A r \in Requests : CountedAs(r, c) => req[r].started # now
    BY <1>0, <2>2
  <2>4. In(c, now) = {}
    BY <2>3 DEF In
  <2>5. OpenWindow(c).start = now /\ OpenWindow(c).count = 0
    BY <2>1
  <2>6. Cardinality(In(c, OpenWindow(c).start)) = 0
    BY <2>4, <2>5, FS_EmptySet
  <2> QED
    BY <1>0, <2>2, <2>5, <2>6
<1> QED
  BY <1>1, <1>2

LEMMA HitKeeps ==
    ASSUME TypeOK, LimiterInv, NEW r \in Requests, NEW c \in Clients, NEW h \in ReqType,
           req[r] = New, now' = now,
           window' = [window EXCEPT ![c] = Counted(c)],
           req' = [req EXCEPT ![r] = h],
           h.client = c, h.started = OpenWindow(c).start, h.time = now,
           (h.at = "limited") <=> ~Allows(c)
    PROVE  LimiterInv'
<1> PICK w : w = OpenWindow(c)
  OBVIOUS
<1>0. /\ now \in Nat /\ w \in [start : Nat, count : Nat]
      /\ window'[c] = [start |-> w.start, count |-> w.count + 1]
      /\ \A d \in Clients : d # c => window'[d] = window[d]
      /\ req'[r] = h /\ \A q \in Requests : q # r => req'[q] = req[q]
      /\ \A q \in Requests : req[q].started \in Nat \cup {NoTime} /\ req[q].time \in Nat \cup {NoTime}
  BY WindowIs DEF TypeOK, ReqType
<1>1. /\ w.start <= now /\ now < w.start + Window
      /\ \A q \in Requests : CountedAs(q, c) =>
            req[q].started = w.start \/ req[q].started + Window <= w.start
      /\ Cardinality(In(c, w.start)) = IF w.count < Limit THEN w.count ELSE Limit
      /\ w.count = 0 => w.start = now
  BY OpenWindowFacts
<1>2. /\ ~CountedAs(r, c) /\ CountedAs(r, c)'
      /\ \A q \in Requests, d \in Clients : q # r \/ d # c => (CountedAs(q, d)' <=> CountedAs(q, d))
  BY <1>0, NewIsNew DEF CountedAs
<1>3. \A d \in Clients : \A s : d # c \/ s # w.start => In(d, s)' = In(d, s)
  BY <1>0, <1>2 DEF In, CountedAs
<1>4. In(c, w.start)' = IF Allows(c) THEN In(c, w.start) \cup {r} ELSE In(c, w.start)
  BY <1>0, <1>2 DEF In, CountedAs
<1>5. r \notin In(c, w.start)
  BY <1>2 DEF In
<1>6. Allows(c) <=> w.count + 1 <= Limit
  BY WindowIs DEF Allows
<1>7. Cardinality(In(c, w.start)') = IF w.count + 1 < Limit THEN w.count + 1 ELSE Limit
  <2>1. CASE Allows(c)
    <3>1. Cardinality(In(c, w.start) \cup {r}) = Cardinality(In(c, w.start)) + 1
      BY <1>5, InFinite, FS_AddElement
    <3> QED
      BY <1>0, <1>1, <1>4, <1>6, <2>1, <3>1
  <2>2. CASE ~Allows(c)
    BY <1>0, <1>1, <1>4, <1>6, <2>2
  <2> QED
    BY <2>1, <2>2
<1>8. WindowsApart'
  <2> SUFFICES ASSUME NEW d \in Clients
               PROVE  /\ window'[d].start <= now
                      /\ \A q \in Requests : CountedAs(q, d)' =>
                           /\ req'[q].started <= req'[q].time
                           /\ req'[q].time <= now
                           /\ req'[q].time < req'[q].started + Window
                           /\ window'[d].count > 0
                           /\ req'[q].started = window'[d].start
                                \/ req'[q].started + Window <= window'[d].start
                           /\ \A p \in Requests : CountedAs(p, d)' /\ req'[p].started < req'[q].started =>
                                req'[p].started + Window <= req'[q].started
    BY DEF WindowsApart
  <2>1. CASE d # c
    <3>1. \A q \in Requests : CountedAs(q, d)' => q # r /\ CountedAs(q, d)
      BY <1>0, <1>2, <2>1 DEF CountedAs
    <3> QED
      BY <1>0, <2>1, <3>1 DEF LimiterInv, WindowsApart
  <2>2. CASE d = c
    <3>1. window'[d].start = w.start /\ window'[d].count > 0
      BY <1>0, <2>2
    <3>2. \A q \in Requests \ {r} : CountedAs(q, d)' =>
             /\ req'[q].started = req[q].started /\ req'[q].time = req[q].time
             /\ req[q].started <= req[q].time /\ req[q].time <= now
             /\ req[q].time < req[q].started + Window
             /\ req[q].started = w.start \/ req[q].started + Window <= w.start
             /\ \A p \in Requests \ {r} : CountedAs(p, d)' /\ req[p].started < req[q].started =>
                  req[p].started + Window <= req[q].started
      BY <1>0, <1>1, <1>2, <2>2 DEF LimiterInv, WindowsApart
    <3>3. req'[r].started = w.start /\ req'[r].time = now
      BY <1>0
    <3>4. ASSUME NEW q \in Requests, CountedAs(q, d)'
          PROVE  \A p \in Requests : CountedAs(p, d)' /\ req'[p].started < req'[q].started =>
                    req'[p].started + Window <= req'[q].started
      <4> SUFFICES ASSUME NEW p \in Requests, CountedAs(p, d)', req'[p].started < req'[q].started
                   PROVE  req'[p].started + Window <= req'[q].started
        OBVIOUS
      <4>1. CASE p # r /\ q # r
        BY <4>1, <3>2, <3>4, <1>0
      <4>2. CASE q = r /\ p # r
        BY <4>2, <3>2, <3>3, <1>0
      <4>3. CASE p = r /\ q # r
        BY <4>3, <3>2, <3>3, <3>4, <1>0
      <4>4. CASE p = r /\ q = r
        BY <4>4, <3>3, <1>0
      <4> QED
        BY <4>1, <4>2, <4>3, <4>4
    <3> QED
      BY <1>0, <1>1, <3>1, <3>2, <3>3, <3>4
  <2> QED
    BY <2>1, <2>2
<1>9. CountersAreTrue'
  <2> SUFFICES ASSUME NEW d \in Clients, NEW v, v = window'[d], v.count > 0
               PROVE  Cardinality(In(d, v.start)') = IF v.count < Limit THEN v.count ELSE Limit
    BY DEF CountersAreTrue
  <2>1. CASE d # c
    <3>1. v = window[d] /\ In(d, v.start)' = In(d, v.start)
      BY <1>0, <1>3, <2>1
    <3> QED
      BY <3>1 DEF LimiterInv, CountersAreTrue
  <2>2. CASE d = c
    <3>1. v.start = w.start /\ v.count = w.count + 1
      BY <1>0, <2>2
    <3> QED
      BY <1>7, <2>2, <3>1
  <2> QED
    BY <2>1, <2>2
<1>10. WindowsHoldLimit'
  <2> SUFFICES ASSUME NEW d \in Clients, NEW q \in Requests, CountedAs(q, d)',
                      NEW s, s = req'[q].started
               PROVE  /\ Cardinality(In(d, s)') <= Limit
                      /\ req'[q].at = "limited" =>
                            /\ Cardinality(In(d, s)') = Limit
                            /\ s = window'[d].start => window'[d].count > Limit
    BY DEF WindowsHoldLimit
  <2>1. CASE d # c
    <3>1. q # r /\ CountedAs(q, d) /\ req'[q] = req[q] /\ window'[d] = window[d]
      BY <1>0, <1>2, <2>1 DEF CountedAs
    <3>2. In(d, s)' = In(d, s)
      BY <1>3, <2>1
    <3> QED
      BY <3>1, <3>2 DEF LimiterInv, WindowsHoldLimit
  <2>2. CASE d = c /\ s # w.start
    <3>1. q # r /\ CountedAs(q, c) /\ req'[q] = req[q] /\ window'[c].start = w.start
      BY <1>0, <1>2, <2>2
    <3>2. In(d, s)' = In(d, s)
      BY <1>3, <2>2
    <3> QED
      BY <2>2, <3>1, <3>2 DEF LimiterInv, WindowsHoldLimit
  <2>3. CASE d = c /\ s = w.start
    <3>1. Cardinality(In(c, s)') = IF w.count + 1 < Limit THEN w.count + 1 ELSE Limit
      BY <1>7, <2>3
    <3>2. ASSUME req'[q].at = "limited" PROVE w.count >= Limit
      <4>1. CASE q = r
        BY <1>0, <1>6, <3>2, <4>1
      <4>2. CASE q # r
        <5>1. CountedAs(q, c) /\ req[q].at = "limited" /\ req[q].started = w.start
          BY <1>0, <1>2, <2>3, <3>2, <4>2
        <5>2. Cardinality(In(c, w.start)) = Limit
          BY <5>1 DEF LimiterInv, WindowsHoldLimit
        <5> QED
          BY <1>0, <1>1, <5>2
      <4> QED
        BY <4>1, <4>2
    <3>3. window'[c].count = w.count + 1
      BY <1>0
    <3> QED
      BY <1>0, <2>3, <3>1, <3>2, <3>3
  <2> QED
    BY <2>1, <2>2, <2>3
<1>11. FirstHitPasses'
  <2> SUFFICES ASSUME NEW d \in Clients, NEW q \in Requests, CountedAs(q, d)',
                      NEW s, s = req'[q].started
               PROVE  \E p \in In(d, s)' : req'[p].time = req'[p].started
    BY DEF FirstHitPasses
  <2>1. ASSUME NEW o \in Requests, CountedAs(o, d), req[o].started = s
        PROVE  \E p \in In(d, s)' : req'[p].time = req'[p].started
    <3>1. PICK p \in In(d, s) : req[p].time = req[p].started
      BY <2>1 DEF LimiterInv, FirstHitPasses
    <3>2. p \in Requests /\ CountedAs(p, d) /\ p # r
      BY <1>0, <3>1, NewIsNew DEF In, CountedAs
    <3>3. p \in In(d, s)'
      BY <1>3, <1>4, <3>1
    <3> QED
      BY <1>0, <3>1, <3>2, <3>3
  <2>2. CASE q # r
    <3>1. CountedAs(q, d) /\ req'[q] = req[q]
      BY <1>0, <1>2, <2>2
    <3> QED
      BY <2>1, <3>1
  <2>3. CASE q = r
    <3>1. d = c /\ s = w.start /\ req'[q].started = w.start /\ req'[q].time = now
      BY <1>0, <2>3 DEF CountedAs
    <3>2. CASE w.count = 0
      <4>1. Limit >= 1 /\ Allows(c)
        BY <1>6, <3>2, GatewayAssumption DEF GatewayAssumption
      <4>2. r \in In(c, w.start)'
        BY <1>4, <4>1
      <4> QED
        BY <1>1, <2>3, <3>1, <3>2, <4>2
    <3>3. CASE w.count # 0
      <4>1. Cardinality(In(c, w.start)) # 0
        BY <1>0, <1>1, <3>3, GatewayAssumption DEF GatewayAssumption
      <4>2. PICK o : o \in In(c, w.start)
        BY <4>1, FS_EmptySet
      <4>3. o \in Requests /\ CountedAs(o, d) /\ req[o].started = s
        BY <3>1, <4>2 DEF In
      <4> QED
        BY <2>1, <4>3
    <3> QED
      BY <3>2, <3>3
  <2> QED
    BY <2>2, <2>3
<1> QED
  BY <1>8, <1>9, <1>10, <1>11 DEF LimiterInv

\* A gateway that counts in memory has forgotten every hit.
LEMMA ForgetKeeps ==
    (\A r \in Requests : req'[r].started = NoTime)
      /\ window' = [c \in Clients |-> NoWindow] /\ now' = now /\ now \in Nat => LimiterInv'
BY DEF LimiterInv, WindowsApart, CountersAreTrue, WindowsHoldLimit, FirstHitPasses, CountedAs,
       NoWindow

\* What the receipt of a request changes.
LEMMA ReachIs ==
    ASSUME TypeOK, NEW r \in Requests, Reach(r), NEW q \in Requests
    PROVE  /\ req'[q].at = req[q].at /\ req'[q].kind = req[q].kind /\ req'[q].doc = req[q].doc
           /\ req'[q].client = req[q].client /\ req'[q].started = req[q].started
           /\ req'[q].time = req[q].time
           /\ q = r => /\ req[q].at = "waiting" /\ req[q].up = "none" /\ req'[q].up = "running"
                       /\ req'[q].rivals = {p \in Requests : Rival(p, r) /\ Up(p, "running")}
           /\ q # r => req'[q].up = req[q].up
           /\ q # r /\ Rival(q, r) /\ ~Up(q, "none") => req'[q].rivals = req[q].rivals \cup {r}
           /\ q # r /\ ~(Rival(q, r) /\ ~Up(q, "none")) => req'[q].rivals = req[q].rivals
<1>0. req[q] \in ReqType
  BY DEF TypeOK
<1>1. CASE q = r
  <2>1. req'[q] = [req[q] EXCEPT !.up = "running",
                     !.rivals = {p \in Requests : Rival(p, r) /\ Up(p, "running")}]
    BY <1>1 DEF Reach
  <2>2. req[q].at = "waiting" /\ req[q].up = "none"
    BY <1>1 DEF Reach, Waiting, Up
  <2> QED
    BY <1>0, <1>1, <2>1, <2>2 DEF ReqType
<1>2. CASE q # r /\ Rival(q, r) /\ ~Up(q, "none")
  <2>1. req'[q] = [req[q] EXCEPT !.rivals = @ \cup {r}]
    BY <1>2 DEF Reach
  <2> QED
    BY <1>0, <1>2, <2>1 DEF ReqType
<1>3. CASE q # r /\ ~(Rival(q, r) /\ ~Up(q, "none"))
  <2>1. req'[q] = req[q]
    BY <1>3 DEF Reach
  <2> QED
    BY <1>3, <2>1
<1> QED
  BY <1>1, <1>2, <1>3

LEMMA LimiterStep == TypeOK /\ LimiterInv /\ [Next]_vars => LimiterInv'
<1> SUFFICES ASSUME TypeOK, LimiterInv, [Next]_vars PROVE LimiterInv'
  OBVIOUS
<1>0. CASE UNCHANGED vars
  BY <1>0, CalmKeeps DEF vars, Calm
<1>1. CASE Tick
  BY <1>1, TickKeeps
<1>2. CASE Restart
  <2>1. CASE SharedLimiter
    BY <1>2, <2>1, CalmKeeps DEF Restart, Calm, TypeOK, ReqType, Waiting
  <2>2. CASE ~SharedLimiter
    <3>1. ASSUME NEW r \in Requests PROVE req'[r].started = NoTime
      <4> DEFINE q == IF Waiting(r) THEN [req[r] EXCEPT !.at = "unreachable"] ELSE req[r]
      <4>1. q \in ReqType
        BY DEF TypeOK, ReqType
      <4>2. req'[r] = [q EXCEPT !.started = NoTime, !.time = NoTime]
        BY <1>2, <2>2 DEF Restart
      <4> QED
        BY <4>1, <4>2 DEF ReqType
    <3> QED
      BY <1>2, <2>2, <3>1, ForgetKeeps DEF Restart, TypeOK
  <2> QED
    BY <2>1, <2>2
<1>3. ASSUME NEW r \in Requests,
             TooLarge(r) \/ Refuse(r) \/ Reach(r) \/ Succeed(r) \/ Break(r) \/ Deliver(r) \/ GiveUp(r)
      PROVE  LimiterInv'
  <2>1. CASE TooLarge(r) \/ Refuse(r) \/ Deliver(r) \/ GiveUp(r)
    BY <2>1, NewIsNew, CalmKeeps DEF TooLarge, Refuse, RefuseUncounted, Deliver, GiveUp, Calm, TypeOK, ReqType, Waiting
  <2>2. CASE Reach(r)
    <3>1. now' = now /\ window' = window
      BY <2>2 DEF Reach
    <3> QED
      BY <2>2, <3>1, ReachIs, CalmKeeps DEF Calm
  <2>3. CASE Succeed(r) \/ Break(r)
    BY <2>3, CalmKeeps DEF Succeed, Break, Calm, TypeOK, ReqType
  <2> QED
    BY <1>3, <2>1, <2>2, <2>3
<1>4. ASSUME NEW r \in Requests, NEW c \in Clients, Reject(r, c)
      PROVE  LimiterInv'
  <2> PICK h : h = Hit(c, IF Allows(c) THEN "refused" ELSE "limited")
    OBVIOUS
  <2>1. /\ h \in ReqType /\ h.client = c /\ h.started = OpenWindow(c).start /\ h.time = now
        /\ (h.at = "limited") <=> ~Allows(c)
    BY HitIs
  <2> QED
    BY <1>4, <2>1, HitKeeps DEF Reject
<1>5. ASSUME NEW r \in Requests, NEW c \in Clients, NEW kind \in Kinds, NEW d \in Docs \cup {None},
             Admit(r, c, kind, d)
      PROVE  LimiterInv'
  <2> PICK h : h = [Hit(c, "waiting") EXCEPT !.kind = kind, !.doc = d]
    OBVIOUS
  <2>1. /\ Hit(c, "waiting") \in ReqType
        /\ Hit(c, "waiting").at = "waiting" /\ Hit(c, "waiting").client = c
        /\ Hit(c, "waiting").started = OpenWindow(c).start /\ Hit(c, "waiting").time = now
    BY HitIs
  <2>2. /\ h \in ReqType /\ h.client = c /\ h.started = OpenWindow(c).start /\ h.time = now
        /\ h.at = "waiting"
    BY <2>1 DEF ReqType
  <2> QED
    BY <1>5, <2>2, HitKeeps DEF Admit
<1> QED
  BY <1>0, <1>1, <1>2, <1>3, <1>4, <1>5 DEF Next

-----------------------------------------------------------------------------
(***************************************************************************)
(* What the gateway confirms.                                              *)
(***************************************************************************)
WriteInv == AnswersAreTrue /\ RivalsAreKnown /\ LastWriteStands

\* A step at the gateway: nothing happens upstream.
Idle ==
    /\ stored' = stored
    /\ \A r \in Requests :
          /\ req'[r].up = req[r].up
          /\ req'[r].rivals = req[r].rivals
          /\ req[r].up # "none" => req'[r].kind = req[r].kind /\ req'[r].doc = req[r].doc
          /\ req'[r].at = "answered" => req[r].up = "ok"
          /\ req'[r].kind \in Writes => req'[r].doc \in Docs
          /\ req'[r].started # NoTime => req'[r].client \in Clients

LEMMA IdleKeeps == WriteInv /\ Idle => WriteInv'
<1> SUFFICES ASSUME WriteInv, Idle PROVE WriteInv'
  OBVIOUS
<1>1. AnswersAreTrue'
  BY DEF Idle, AnswersAreTrue
<1>2. RivalsAreKnown'
  BY DEF WriteInv, Idle, RivalsAreKnown, Rival, Touched, Up
<1>3. LastWriteStands'
  BY DEF WriteInv, Idle, LastWriteStands, Up, Written, Wrote
<1> QED
  BY <1>1, <1>2, <1>3 DEF WriteInv

LEMMA ReachKeeps ==
    ASSUME TypeOK, WriteInv, NEW r \in Requests, Reach(r)
    PROVE  WriteInv'
<1>1. /\ \A q \in Requests :
            /\ req'[q].at = req[q].at /\ req'[q].kind = req[q].kind /\ req'[q].doc = req[q].doc
            /\ req'[q].client = req[q].client /\ req'[q].started = req[q].started
      /\ stored' = stored
  BY ReachIs DEF Reach
<1>2. /\ req[r].at = "waiting" /\ req[r].up = "none" /\ req'[r].up = "running"
      /\ \A q \in Requests : q # r => req'[q].up = req[q].up
  BY ReachIs
<1>3. /\ \A q \in Requests : Rival(q, r) /\ req[q].up = "running" => q \in req'[r].rivals
      /\ \A q \in Requests : q # r /\ Rival(q, r) /\ req[q].up # "none" =>
            req'[q].rivals = req[q].rivals \cup {r}
      /\ \A q \in Requests : q # r /\ ~(Rival(q, r) /\ req[q].up # "none") =>
            req'[q].rivals = req[q].rivals
  BY ReachIs DEF Up
<1>4. \A p, q \in Requests : (Rival(p, q)' <=> Rival(p, q)) /\ (Rival(p, q) <=> Rival(q, p))
  <2>1. \A p \in Requests : Touched(p)' = Touched(p)
    BY <1>1 DEF Touched
  <2> QED
    BY <1>1, <2>1 DEF Rival
<1>5. AnswersAreTrue'
  BY <1>1, <1>2 DEF WriteInv, AnswersAreTrue
<1>6. RivalsAreKnown'
  <2> SUFFICES ASSUME NEW p \in Requests, NEW q \in Requests, p # q, Rival(q, p),
                      req'[p].up # "none", req'[q].up = "running"
               PROVE  q \in req'[p].rivals
    BY <1>4 DEF RivalsAreKnown, Up
  <2>1. CASE p = r
    BY <1>2, <1>3, <2>1
  <2>2. CASE q = r
    BY <1>2, <1>3, <1>4, <2>2
  <2>3. CASE p # r /\ q # r
    BY <1>2, <1>3, <2>3 DEF WriteInv, RivalsAreKnown, Up
  <2> QED
    BY <2>1, <2>2, <2>3
<1>7. LastWriteStands'
  BY <1>1, <1>2, <1>3 DEF WriteInv, LastWriteStands, Up, Written, Wrote
<1> QED
  BY <1>5, <1>6, <1>7 DEF WriteInv

LEMMA EndKeeps ==
    ASSUME TypeOK, WriteInv, NEW r \in Requests, Succeed(r) \/ Break(r)
    PROVE  WriteInv'
<1>1. PICK end \in {"ok", "error", "gone"} :
         /\ req' = [req EXCEPT ![r].up = end]
         /\ end = "ok" /\ req[r].kind \in Writes => Leave(r) \/ Mix(r)
         /\ UNCHANGED stored \/ (req[r].kind \in Writes /\ (Leave(r) \/ Mix(r)))
  BY DEF Succeed, Break
<1>2. /\ req[r].up = "running" /\ req'[r].up = end
      /\ \A q \in Requests : q # r => req'[q].up = req[q].up
      /\ \A q \in Requests :
            /\ req'[q].at = req[q].at /\ req'[q].kind = req[q].kind /\ req'[q].doc = req[q].doc
            /\ req'[q].client = req[q].client /\ req'[q].started = req[q].started
            /\ req'[q].rivals = req[q].rivals
  BY <1>1 DEF Succeed, Break, TypeOK, ReqType, Up
<1>3. \A q \in Requests : Touched(q) \subseteq Docs \/ req[q].kind \notin Writes
  BY DEF WriteInv, AnswersAreTrue, Touched
<1>4. AnswersAreTrue'
  BY <1>2 DEF WriteInv, AnswersAreTrue
<1>5. RivalsAreKnown'
  BY <1>2 DEF WriteInv, RivalsAreKnown, Up, Rival, Touched
<1>6. LastWriteStands'
  <2> SUFFICES ASSUME NEW q \in Requests, req'[q].up = "ok", req[q].kind \in Writes,
                      req[q].rivals = {}, NEW d \in Written(q)
               PROVE  stored'[d] = Wrote(q, d)
    BY <1>2 DEF LastWriteStands, Up, Written, Wrote
  <2>0. d \in Touched(q) /\ d \in Docs
    BY <1>3 DEF Written, Touched, WriteInv, AnswersAreTrue
  <2>1. CASE q = r
    <3>1. Leave(r)
      BY <1>1, <1>2, <2>1 DEF Mix
    <3> QED
      BY <2>0, <2>1, <3>1 DEF Leave
  <2>2. CASE q # r
    <3>1. req[q].up = "ok" /\ stored[d] = Wrote(q, d)
      BY <1>2, <2>2 DEF WriteInv, LastWriteStands, Up
    <3>2. req[r].kind \in Writes => d \notin Touched(r)
      <4>1. ~Rival(r, q)
        BY <1>2, <2>2, <3>1 DEF WriteInv, RivalsAreKnown, Up
      <4> QED
        BY <2>0, <4>1 DEF Rival
    <3>3. req[r].kind \in Writes => Written(r) \subseteq Touched(r)
      BY DEF WriteInv, AnswersAreTrue, Written, Touched
    <3>4. stored'[d] = stored[d]
      BY <1>1, <2>0, <3>2, <3>3 DEF Leave, Mix
    <3> QED
      BY <3>1, <3>4
  <2> QED
    BY <2>1, <2>2
<1> QED
  BY <1>4, <1>5, <1>6 DEF WriteInv

LEMMA WriteStep == TypeOK /\ WriteInv /\ [Next]_vars => WriteInv'
<1> SUFFICES ASSUME TypeOK, WriteInv, [Next]_vars PROVE WriteInv'
  OBVIOUS
<1>0. CASE UNCHANGED vars \/ Tick
  BY <1>0, IdleKeeps DEF vars, Tick, WriteInv, Idle, AnswersAreTrue
<1>1. CASE Restart
  <2>1. ASSUME NEW r \in Requests
        PROVE  /\ req'[r].up = req[r].up /\ req'[r].rivals = req[r].rivals
               /\ req'[r].kind = req[r].kind /\ req'[r].doc = req[r].doc
               /\ req'[r].client = req[r].client
               /\ req'[r].started # NoTime => req[r].started # NoTime
               /\ req'[r].at \in {"answered", "waiting"} => req'[r].at = req[r].at
    <3> DEFINE q == IF Waiting(r) THEN [req[r] EXCEPT !.at = "unreachable"] ELSE req[r]
    <3>1. q \in ReqType
      BY DEF TypeOK, ReqType
    <3>2. /\ q.up = req[r].up /\ q.rivals = req[r].rivals /\ q.kind = req[r].kind
          /\ q.doc = req[r].doc /\ q.client = req[r].client /\ q.started = req[r].started
          /\ q.at \in {"answered", "waiting"} => q.at = req[r].at
      BY DEF TypeOK, ReqType
    <3>3. CASE SharedLimiter
      BY <1>1, <3>2, <3>3 DEF Restart
    <3>4. CASE ~SharedLimiter
      <4>1. req'[r] = [q EXCEPT !.started = NoTime, !.time = NoTime]
        BY <1>1, <3>4 DEF Restart
      <4> HIDE DEF q
      <4> QED
        BY <3>1, <3>2, <4>1 DEF ReqType
    <3> QED
      BY <3>3, <3>4
  <2> QED
    <3>1. stored' = stored
      BY <1>1 DEF Restart
    <3>2. Idle
      BY <2>1, <3>1 DEF WriteInv, Idle, AnswersAreTrue
    <3> QED
      BY <3>2, IdleKeeps
<1>2. ASSUME NEW r \in Requests, TooLarge(r) \/ Refuse(r) \/ Deliver(r) \/ GiveUp(r)
      PROVE  WriteInv'
  <2>1. /\ req' \in [Requests -> ReqType] /\ stored' = stored
        /\ \A q \in Requests :
              /\ req'[q].up = req[q].up /\ req'[q].rivals = req[q].rivals
              /\ req'[q].kind = req[q].kind /\ req'[q].doc = req[q].doc
              /\ req'[q].client = req[q].client /\ req'[q].started = req[q].started
              /\ req'[q].at = "answered" => req[q].at = "answered" \/ req[q].up = "ok"
    BY <1>2 DEF TooLarge, Refuse, RefuseUncounted, Deliver, GiveUp, Up, TypeOK, ReqType
  <2>2. Idle
    BY <2>1 DEF WriteInv, Idle, AnswersAreTrue
  <2> QED
    BY <2>2, IdleKeeps
<1>3. ASSUME NEW r \in Requests, Reach(r) \/ Succeed(r) \/ Break(r)
      PROVE  WriteInv'
  BY <1>3, ReachKeeps, EndKeeps
<1>4. ASSUME NEW r \in Requests, NEW c \in Clients, Reject(r, c)
      PROVE  WriteInv'
  <2> PICK h : h = Hit(c, IF Allows(c) THEN "refused" ELSE "limited")
    OBVIOUS
  <2>1. /\ h.client = c /\ h.up = "none" /\ h.at \in {"refused", "limited"} /\ h.rivals = {}
        /\ h.kind \notin Writes
    BY HitIs DEF Writes
  <2> QED
    BY <1>4, <2>1, NewIsNew, IdleKeeps DEF Reject, WriteInv, Idle, AnswersAreTrue, TypeOK
<1>5. ASSUME NEW r \in Requests, NEW c \in Clients, NEW kind \in Kinds, NEW d \in Docs \cup {None},
             Admit(r, c, kind, d)
      PROVE  WriteInv'
  <2>1. /\ Hit(c, "waiting") \in ReqType /\ Hit(c, "waiting").client = c
        /\ Hit(c, "waiting").up = "none" /\ Hit(c, "waiting").at = "waiting"
        /\ Hit(c, "waiting").rivals = {}
    BY HitIs
  <2>2. PICK h : /\ req' = [req EXCEPT ![r] = h] /\ req[r] = New /\ stored' = stored
                 /\ h.client = c /\ h.up = "none" /\ h.at = "waiting" /\ h.rivals = {}
                 /\ h.kind \in Writes => h.doc \in Docs
    <3> PICK h : h = [Hit(c, "waiting") EXCEPT !.kind = kind, !.doc = d]
      OBVIOUS
    <3>1. /\ h.client = c /\ h.up = "none" /\ h.at = "waiting" /\ h.rivals = {}
          /\ h.kind \in Writes => h.doc \in Docs
      BY <1>5, <2>1 DEF Admit, ReqType
    <3>2. /\ req' = [req EXCEPT ![r] = h] /\ req[r] = New /\ stored' = stored
      BY <1>5 DEF Admit
    <3> QED
      BY <3>1, <3>2
  <2>3. Idle
    <3>1. req'[r] = h /\ \A q \in Requests : q # r => req'[q] = req[q]
      BY <2>2 DEF TypeOK
    <3>2. ASSUME NEW q \in Requests
          PROVE  /\ req'[q].up = req[q].up /\ req'[q].rivals = req[q].rivals
                 /\ req[q].up # "none" => req'[q].kind = req[q].kind /\ req'[q].doc = req[q].doc
                 /\ req'[q].at = "answered" => req[q].up = "ok"
                 /\ req'[q].kind \in Writes => req'[q].doc \in Docs
                 /\ req'[q].started # NoTime => req'[q].client \in Clients
      <4>1. CASE q = r
        BY <2>2, <2>2, <3>1, <4>1, NewIsNew
      <4>2. CASE q # r
        BY <3>1, <4>2 DEF WriteInv, AnswersAreTrue
      <4> QED
        BY <4>1, <4>2
    <3> HIDE DEF NoTime
    <3> QED
      BY <2>2, <3>2 DEF Idle
  <2> QED
    BY <2>3, IdleKeeps
<1> QED
  BY <1>0, <1>1, <1>2, <1>3, <1>4, <1>5 DEF Next

-----------------------------------------------------------------------------
(***************************************************************************)
(* The theorems.                                                           *)
(***************************************************************************)
LEMMA InvInit == Init => GatewayInv
<1> SUFFICES ASSUME Init PROVE GatewayInv
  OBVIOUS
<1>1. TypeOK
  BY NewIsNew DEF Init, TypeOK, NoWindow
<1>2. \A r \in Requests : req[r] = New
  BY DEF Init
<1>3. WindowsApart /\ CountersAreTrue /\ WindowsHoldLimit /\ FirstHitPasses
  BY <1>2, NewIsNew DEF Init, WindowsApart, CountersAreTrue, WindowsHoldLimit, FirstHitPasses,
                        CountedAs, NoWindow
<1>4. AnswersAreTrue /\ RivalsAreKnown /\ LastWriteStands
  BY <1>2, NewIsNew DEF AnswersAreTrue, RivalsAreKnown, LastWriteStands, Up
<1> QED
  BY <1>1, <1>3, <1>4 DEF GatewayInv

\* The inductive invariant: windows that lie apart, counters that tell what was
\* let through, and rivals that are known.
THEOREM GatewayInvariant == Spec => []GatewayInv
<1>1. GatewayInv /\ [Next]_vars => GatewayInv'
  BY TypeStep, LimiterStep, WriteStep DEF GatewayInv, LimiterInv, WriteInv
<1> QED
  BY InvInit, <1>1, PTL DEF Spec

LEMMA NoWindowOverLimit ==
    ASSUME GatewayInv, NEW c \in Clients, NEW s
    PROVE  Cardinality(In(c, s)) <= Limit
<1>1. CASE In(c, s) = {}
  BY <1>1, FS_EmptySet
<1>2. CASE In(c, s) # {}
  BY <1>2 DEF In, GatewayInv, WindowsHoldLimit
<1> QED
  BY <1>1, <1>2

\* The fixed-window limiter of security.py never lets twice its limit of one
\* client through in a stretch as long as a window.
THEOREM LessThanTwiceTheLimit == Spec => []UnderTwiceTheLimit
<1>1. GatewayInv => UnderTwiceTheLimit
  <2> SUFFICES ASSUME GatewayInv, NEW c \in Clients
               PROVE  Cardinality({r \in Admitted(c) : req[r].time + Window > now}) < 2 * Limit
    BY DEF UnderTwiceTheLimit
  <2> DEFINE S == {r \in Admitted(c) : req[r].time + Window > now}
             last == window[c].start
  <2>0. /\ now \in Nat /\ last \in Nat /\ last <= now /\ Limit \in Nat /\ Limit >= 1
        /\ \A r \in Requests : req[r].started \in Nat \cup {NoTime} /\ req[r].time \in Nat \cup {NoTime}
    BY GatewayAssumption DEF GatewayInv, TypeOK, ReqType, WindowsApart, GatewayAssumption
  <2>1. \A r \in S : /\ r \in Requests /\ CountedAs(r, c) /\ r \in In(c, req[r].started)
                     /\ req[r].time + Window > now
    BY DEF Admitted, CountedAs, In
  <2>2. \A r \in S : /\ req[r].time < req[r].started + Window
                     /\ req[r].started = last \/ req[r].started + Window <= last
                     /\ \A q \in S : req[q].started < req[r].started =>
                           req[q].started + Window <= req[r].started
    BY <2>1 DEF GatewayInv, WindowsApart
  <2>3. \A p, q \in S : req[p].started # last /\ req[q].started # last =>
                          req[p].started = req[q].started
    BY <2>0, <2>1, <2>2
  <2>4. \A s : /\ IsFiniteSet(In(c, s)) /\ Cardinality(In(c, s)) \in Nat
               /\ Cardinality(In(c, s)) <= Limit
    BY InFinite, NoWindowOverLimit
  <2>5. CASE \A p \in S : req[p].started = last
    <3>1. S \subseteq In(c, last)
      BY <2>1, <2>5
    <3>2. Cardinality(S) <= Cardinality(In(c, last)) /\ Cardinality(S) \in Nat
      BY <2>4, <3>1, FS_Subset, FS_CardinalityType
    <3> QED
      BY <2>0, <2>4, <3>2
  <2>6. CASE \E p \in S : req[p].started # last
    <3>1. PICK p \in S : req[p].started # last
      BY <2>6
    <3> DEFINE s == req[p].started
    <3>2. PICK o \in In(c, s) : req[o].time = req[o].started
      BY <2>1 DEF GatewayInv, FirstHitPasses
    <3>3. o \in Requests /\ req[o].started = s /\ CountedAs(o, c)
      BY <3>2 DEF In
    <3>4. o \notin S
      BY <2>0, <2>2, <3>1, <3>2, <3>3
    <3>5. S \subseteq In(c, last) \cup (In(c, s) \ {o})
      BY <2>1, <2>3, <3>1, <3>4
    <3>6. /\ IsFiniteSet(In(c, s) \ {o})
          /\ Cardinality(In(c, s) \ {o}) = Cardinality(In(c, s)) - 1
      BY <2>4, <3>2, FS_RemoveElement
    <3> HIDE DEF S
    <3> DEFINE A == In(c, last)
               B == In(c, s) \ {o}
    <3>7. /\ IsFiniteSet(A \cup B)
          /\ Cardinality(A \cup B) = Cardinality(A) + Cardinality(B) - Cardinality(A \cap B)
      BY <2>4, <3>6, FS_Union
    <3>8. Cardinality(A \cap B) \in Nat
      BY <2>4, FS_Intersection, FS_CardinalityType
    <3>9. Cardinality(A \cup B) < 2 * Limit
      BY <2>0, <2>4, <3>6, <3>7, <3>8
    <3>10. Cardinality(S) <= Cardinality(A \cup B) /\ Cardinality(S) \in Nat
      BY <3>5, <3>7, FS_Subset, FS_CardinalityType
    <3> QED
      BY <2>0, <3>7, <3>9, <3>10, FS_CardinalityType DEF S
  <2> QED
    BY <2>5, <2>6
<1> QED
  BY <1>1, GatewayInvariant, PTL

\* A client is turned away only by its own requests: 429 means that Limit of
\* them passed in the same window.
THEOREM RejectionsAreEarned == Spec => []OnlyFullWindowsReject
<1>1. GatewayInv => OnlyFullWindowsReject
  <2> SUFFICES ASSUME GatewayInv, NEW r \in Requests, req[r].at = "limited", req[r].started # NoTime
               PROVE  Cardinality({q \in Admitted(req[r].client) : req[q].started = req[r].started}) = Limit
    BY DEF OnlyFullWindowsReject
  <2>1. req[r].client \in Clients /\ CountedAs(r, req[r].client)
    BY DEF GatewayInv, AnswersAreTrue, CountedAs
  <2>2. {q \in Admitted(req[r].client) : req[q].started = req[r].started}
          = In(req[r].client, req[r].started)
    BY DEF Admitted, In, CountedAs
  <2> QED
    BY <2>1, <2>2 DEF GatewayInv, WindowsHoldLimit
<1> QED
  BY <1>1, GatewayInvariant, PTL

\* What an answered upload, replacement or deletion reported is what the
\* knowledge store holds, unless a rival was busy upstream since it began.
THEOREM ConfirmedWritesStand == Spec => []LastAnswerStands
<1>1. GatewayInv => LastAnswerStands
  BY DEF GatewayInv, AnswersAreTrue, LastWriteStands, LastAnswerStands, Up
<1> QED
  BY <1>1, GatewayInvariant, PTL
=============================================================================
