------------------------ MODULE MlflowTrackingProofs ------------------------
(***************************************************************************)
(* Proofs about MlflowTracking, for any queries, any work they do and any  *)
(* order of their starts, calls, errors and ends: callbacks act on their   *)
(* own run only, finished runs are true, and recording stops for good only *)
(* when the server failed at the wrong moment.                             *)
(***************************************************************************)
EXTENDS MlflowTracking, TLAPS

USE TrackingAssumption DEF TrackingAssumption

CallType == [at : {"new", "running", "answered", "failed"}, nested : BOOLEAN,
             doing : Kinds \cup {None}, done : Counts, before : Counts]
CallbackType == [root : Calls \cup {None}, run : Calls \cup {None}, counts : Counts]
RunType == [state : {"none", "open", "finished"}, counts : Counts]

LEMMA StackFacts ==
    ASSUME NEW r \in Runs
    PROVE  /\ Last(<<r>>) = r /\ Front(<<r>>) = <<>> /\ Append(<<>>, r) = <<r>>
           /\ <<r>> # <<>> /\ <<r>> \in Seq(Runs) /\ <<>> \in Seq(Runs)
BY DEF Last, Front

LEMMA NamesDiffer ==
    /\ None \notin Runs /\ Evaluation \notin Calls /\ None # Evaluation
    /\ \A c \in Calls : c \in Runs /\ CallbackOf(c) \in Runs
BY DEF None, Evaluation, Runs, CallbackOf

LEMMA FreshTypes ==
    /\ NewCall \in CallType /\ NewCallback \in CallbackType /\ NoRun \in RunType
    /\ NewCall.at = "new" /\ ~NewCall.nested /\ NewCall.doing = None
    /\ NewCall.done = NoCounts /\ NewCall.before = NoCounts
    /\ NewCallback.root = None /\ NewCallback.run = None /\ NewCallback.counts = NoCounts
    /\ NoRun.state = "none"
    /\ NoCounts \in Counts /\ \A kind \in Kinds : NoCounts[kind] = 0
BY DEF NewCall, NewCallback, NoRun, NoCounts, Counts, CallType, CallbackType, RunType

-----------------------------------------------------------------------------
(***************************************************************************)
(* Types.                                                                  *)
(***************************************************************************)
LEMMA TypesAre ==
    TypeOK <=> /\ call \in [Calls -> CallType] /\ cb \in [Runs -> CallbackType]
               /\ run \in [Runs -> RunType]
               /\ evaluating \in BOOLEAN /\ hurt \in BOOLEAN /\ stack \in Seq(Runs)
BY DEF TypeOK, CallType, CallbackType, RunType

LEMMA StartsType ==
    ASSUME TypeOK, NEW c \in Calls, NEW itsRun \in {c, None}, Starts(c, itsRun)
    PROVE  /\ call' \in [Calls -> CallType] /\ cb' \in [Runs -> CallbackType]
           /\ evaluating' \in BOOLEAN
<1>0. /\ call \in [Calls -> CallType] /\ cb \in [Runs -> CallbackType] /\ evaluating \in BOOLEAN
      /\ evaluating' = evaluating
  BY TypesAre DEF Starts
<1> PICK k \in Runs : k = CallbackOf(c)
  BY NamesDiffer
<1>1. cb[k] \in CallbackType /\ cb[k].counts \in Counts
  BY <1>0 DEF CallbackType
<1>2. [call[c] EXCEPT !.at = "running", !.before = cb[k].counts] \in CallType
  BY <1>0, <1>1 DEF CallType
<1>3. call' = [call EXCEPT ![c] = [call[c] EXCEPT !.at = "running", !.before = cb[k].counts]]
  BY <1>0 DEF Starts
<1>4. [cb[k] EXCEPT !.root = c, !.run = itsRun] \in CallbackType
  BY <1>1 DEF CallbackType
<1>5. cb' = [cb EXCEPT ![k] = [cb[k] EXCEPT !.root = c, !.run = itsRun]]
  BY <1>0 DEF Starts
<1> QED
  BY <1>0, <1>2, <1>3, <1>4, <1>5

LEMMA StartRunType ==
    ASSUME TypeOK, NEW r \in Runs, stack = <<>>, StartRun(r)
    PROVE  stack' = <<r>> /\ stack' \in Seq(Runs) /\ run' \in [Runs -> RunType]
<1>1. [run[r] EXCEPT !.state = "open"] \in RunType
  BY DEF TypeOK, RunType
<1> QED
  BY <1>1, StackFacts DEF TypeOK, StartRun, RunType

LEMMA EndsType ==
    ASSUME TypeOK, NEW c \in Calls, NEW how \in {"answered", "failed"}, Ends(c, how)
    PROVE  /\ call' \in [Calls -> CallType] /\ cb' \in [Runs -> CallbackType]
           /\ evaluating' \in BOOLEAN
<1>0. /\ call \in [Calls -> CallType] /\ cb \in [Runs -> CallbackType] /\ evaluating \in BOOLEAN
      /\ evaluating' = evaluating
  BY TypesAre DEF Ends
<1> PICK k \in Runs : k = CallbackOf(c)
  BY NamesDiffer
<1>1. [call[c] EXCEPT !.at = how] \in CallType
  BY <1>0 DEF CallType
<1>2. call' = [call EXCEPT ![c] = [call[c] EXCEPT !.at = how]]
  BY <1>0 DEF Ends
<1>3. [cb[k] EXCEPT !.root = None, !.run = None] \in CallbackType
  BY <1>0 DEF CallbackType
<1>4. cb' = [cb EXCEPT ![k] = [cb[k] EXCEPT !.root = None, !.run = None]]
  BY <1>0 DEF Ends
<1> QED
  BY <1>0, <1>1, <1>2, <1>3, <1>4

\* What the end of a root chain does to the run of its callback.
LEMMA CloseIs ==
    ASSUME TypeOK, OwnRunOnly, NEW c \in Calls, Close(c), NEW k, k = CallbackOf(c)
    PROVE  \/ UNCHANGED <<stack, run, hurt>> /\ cb[k].run = None
           \/ UNCHANGED <<stack, run>> /\ hurt' = TRUE
           \/ /\ cb[k].run \in Calls /\ stack = <<cb[k].run>> /\ stack' = <<>> /\ UNCHANGED hurt
              /\ \E state \in {"finished", "open"} :
                    run' = [run EXCEPT ![cb[k].run] = [state |-> state, counts |-> cb[k].counts]]
<1>1. k \in Runs /\ cb[k].run \in Calls \cup {None}
  BY NamesDiffer DEF TypeOK
<1>2. CASE cb[k].run = None
  BY <1>2 DEF Close, Recorded
<1>3. CASE cb[k].run # None
  <2>1. cb[k].run \in Runs /\ cb[k].run \in Calls /\ stack = <<cb[k].run>>
    BY <1>1, <1>3, NamesDiffer DEF OwnRunOnly
  <2>2. Last(stack) = cb[k].run /\ Front(stack) = <<>>
    BY <2>1, StackFacts
  <2>3. EndRun(c) \/ LeaveActive(c)
    BY <1>3 DEF Close, Recorded
  <2> QED
    BY <2>1, <2>2, <2>3 DEF EndRun, LeaveActive, Logged
<1> QED
  BY <1>2, <1>3

Plus(counts, kind) == [counts EXCEPT ![kind] = @ + 1]
Returned(it, kind) == [it EXCEPT !.doing = None, !.done = Plus(it.done, kind)]
Counting(it, kind) == [it EXCEPT !.counts = Plus(it.counts, kind)]

\* What the return of a call changes.
LEMMA DoneIs ==
    ASSUME TypeOK, NEW c \in Calls, Done(c)
    PROVE  \E k \in Runs, kind \in Kinds :
              /\ k = CallbackOf(c) /\ kind = call[c].doing
              /\ call[c].done \in Counts /\ Plus(call[c].done, kind) \in Counts
              /\ cb[k].counts \in Counts /\ Plus(cb[k].counts, kind) \in Counts
              /\ call' = [call EXCEPT ![c] = Returned(call[c], kind)]
              /\ cb' = [cb EXCEPT ![k] = Counting(cb[k], kind)]
<1> PICK k : k = CallbackOf(c)
  OBVIOUS
<1> PICK kind : kind = call[c].doing
  OBVIOUS
<1>t. call \in [Calls -> CallType] /\ cb \in [Runs -> CallbackType]
  BY TypesAre
<1>0. kind \in Kinds /\ k \in Runs
  BY <1>t, NamesDiffer DEF Done, CallType
<1>1. /\ call[c].done \in Counts /\ Plus(call[c].done, kind) \in Counts
      /\ cb[k].counts \in Counts /\ Plus(cb[k].counts, kind) \in Counts
  BY <1>t, <1>0 DEF Plus, Counts, CallType, CallbackType
<1>2. call' = [call EXCEPT ![c] = Returned(call[c], kind)]
  BY <1>t, <1>0, <1>1 DEF Done, Plus, Returned, CallType
<1>3. cb' = [cb EXCEPT ![k] = Counting(cb[k], kind)]
  BY <1>t, <1>0, <1>1 DEF Done, Plus, Counting, CallbackType
<1> QED
  BY <1>0, <1>1, <1>2, <1>3

LEMMA TypeStep == TypeOK /\ OneActive /\ OwnRunOnly /\ [Next]_vars => TypeOK'
<1> SUFFICES ASSUME TypeOK, OneActive, OwnRunOnly, [Next]_vars PROVE TypeOK'
  OBVIOUS
<1>t. /\ call \in [Calls -> CallType] /\ cb \in [Runs -> CallbackType] /\ run \in [Runs -> RunType]
      /\ evaluating \in BOOLEAN /\ hurt \in BOOLEAN /\ stack \in Seq(Runs)
  BY TypesAre
<1>u. call' \in [Calls -> CallType] /\ cb' \in [Runs -> CallbackType] /\ run' \in [Runs -> RunType]
        /\ evaluating' \in BOOLEAN /\ hurt' \in BOOLEAN /\ stack' \in Seq(Runs) => TypeOK'
  BY DEF TypeOK, CallType, CallbackType, RunType
<1>0. CASE UNCHANGED vars
  BY <1>0, <1>t, <1>u DEF vars
<1>1. CASE LogEvaluation
  <2>1. Evaluation \in Runs
    BY DEF Runs
  <2> QED
    BY <1>1, <1>t, <1>u, <2>1, StartRunType DEF LogEvaluation
<1>2. CASE Restart
  <2>1. ASSUME NEW c \in Calls PROVE call'[c] \in CallType
    <3>1. [call[c] EXCEPT !.at = "failed", !.nested = FALSE, !.doing = None] \in CallType
      BY <1>t DEF CallType
    <3> QED
      BY <1>2, <1>t, <3>1 DEF Restart
  <2>2. call' \in [Calls -> CallType]
    BY <1>2, <2>1 DEF Restart
  <2>3. cb' \in [Runs -> CallbackType]
    BY <1>2, FreshTypes DEF Restart
  <2>4. run' = run /\ evaluating' = evaluating /\ stack' = <<>> /\ hurt' = FALSE
    BY <1>2 DEF Restart
  <2>5. <<>> \in Seq(Runs)
    OBVIOUS
  <2> QED
    BY <1>t, <1>u, <2>2, <2>3, <2>4, <2>5
<1>3. ASSUME NEW c \in Calls, Record(c) \/ Forget(c) \/ Skip(c)
      PROVE  TypeOK'
  <2>1. \E itsRun \in {c, None} : Starts(c, itsRun)
    BY <1>3 DEF Record, Forget, Skip
  <2>2. call' \in [Calls -> CallType] /\ cb' \in [Runs -> CallbackType] /\ evaluating' \in BOOLEAN
    BY <2>1, StartsType
  <2>3. stack' \in Seq(Runs) /\ run' \in [Runs -> RunType]
    BY <1>3, <1>t, NamesDiffer, StartRunType DEF Record, Forget, Skip
  <2> QED
    BY <1>3, <1>t, <1>u, <2>2, <2>3 DEF Record, Forget, Skip
<1>4. ASSUME NEW c \in Calls, NestedStart(c) \/ NestedEnd(c) \/ Raise(c) \/ \E kind \in Kinds : Begin(c, kind)
      PROVE  TypeOK'
  <2>1. PICK new : /\ call' = [call EXCEPT ![c] = new]
                   /\ \/ \E b \in BOOLEAN : new = [call[c] EXCEPT !.nested = b]
                      \/ \E d \in Kinds \cup {None} : new = [call[c] EXCEPT !.doing = d]
    BY <1>4 DEF NestedStart, NestedEnd, Raise, Begin
  <2>2. new \in CallType
    BY <1>t, <2>1 DEF CallType
  <2> QED
    BY <1>4, <1>t, <1>u, <2>1, <2>2 DEF NestedStart, NestedEnd, Raise, Begin
<1>5. ASSUME NEW c \in Calls, Done(c)
      PROVE  TypeOK'
  <2>1. PICK k \in Runs, kind \in Kinds :
           /\ Plus(call[c].done, kind) \in Counts
           /\ Plus(cb[k].counts, kind) \in Counts
           /\ call' = [call EXCEPT ![c] = Returned(call[c], kind)]
           /\ cb' = [cb EXCEPT ![k] = Counting(cb[k], kind)]
    BY <1>5, DoneIs
  <2>2. call' \in [Calls -> CallType]
    BY <1>t, <2>1 DEF CallType, Returned
  <2>3. cb' \in [Runs -> CallbackType]
    BY <1>t, <2>1 DEF CallbackType, Counting
  <2> QED
    BY <1>5, <1>t, <1>u, <2>2, <2>3 DEF Done
<1>6. ASSUME NEW c \in Calls, Answer(c) \/ Fail(c)
      PROVE  TypeOK'
  <2>1. call' \in [Calls -> CallType] /\ cb' \in [Runs -> CallbackType] /\ evaluating' \in BOOLEAN
    BY <1>6, EndsType DEF Answer, Fail
  <2> PICK k : k = CallbackOf(c)
    OBVIOUS
  <2>2. cb[k].counts \in Counts
    BY <1>t, NamesDiffer DEF CallbackType
  <2>3. \A state \in {"finished", "open"} : [state |-> state, counts |-> cb[k].counts] \in RunType
    BY <2>2 DEF RunType
  <2>4. stack' \in Seq(Runs) /\ run' \in [Runs -> RunType] /\ hurt' \in BOOLEAN
    <3>1. /\ hurt' \in {hurt, TRUE}
          /\ \/ stack' = stack /\ run' = run
             \/ /\ stack' = <<>>
                /\ \E state \in {"finished", "open"} :
                      run' = [run EXCEPT ![cb[k].run] = [state |-> state, counts |-> cb[k].counts]]
      BY <1>6, CloseIs DEF Answer, Fail
    <3>2. <<>> \in Seq(Runs)
      OBVIOUS
    <3> QED
      BY <1>t, <2>3, <3>1, <3>2
  <2> QED
    BY <1>u, <2>1, <2>4
<1> QED
  BY <1>0, <1>1, <1>2, <1>3, <1>4, <1>5, <1>6 DEF Next

-----------------------------------------------------------------------------
(***************************************************************************)
(* The steps.                                                              *)
(***************************************************************************)
\* What is left of the invariant when the types are known to be kept.
Kept ==
    /\ CallbacksFollow /\ CallsAreFollowed /\ OneActive
    /\ OwnRunOnly /\ FinishedRunsAreTrue /\ RecordingGoesOn

LEMMA Basics ==
    ASSUME TrackingInv
    PROVE  /\ call \in [Calls -> CallType] /\ cb \in [Runs -> CallbackType]
           /\ run \in [Runs -> RunType] /\ evaluating \in BOOLEAN
           /\ stack = <<>> => \A k \in Runs : cb[k].run = None
           /\ stack # <<>> => Last(stack) # None
           /\ \A c \in Calls : ~Running(c) => cb[CallbackOf(c)].root # c
           /\ \A c, d \in Calls : Running(c) /\ Running(d) /\ CallbackOf(c) = CallbackOf(d) => c = d
<1>1. stack # <<>> => Last(stack) # None
  BY StackFacts, NamesDiffer DEF TrackingInv, OneActive
<1>2. stack = <<>> => \A k \in Runs : cb[k].run = None
  <2> SUFFICES ASSUME stack = <<>>, NEW k \in Runs, cb[k].run # None PROVE FALSE
    OBVIOUS
  <2>1. stack = <<cb[k].run>> /\ cb[k].run \in Runs
    BY DEF TrackingInv, OwnRunOnly, TypeOK, Runs
  <2> QED
    BY <2>1, StackFacts
<1>3. \A c \in Calls : ~Running(c) => cb[CallbackOf(c)].root # c
  BY NamesDiffer DEF TrackingInv, CallbacksFollow
<1>4. \A c, d \in Calls : Running(c) /\ Running(d) /\ CallbackOf(c) = CallbackOf(d) => c = d
  BY DEF TrackingInv, CallsAreFollowed
<1> QED
  BY <1>1, <1>2, <1>3, <1>4, TypesAre DEF TrackingInv

LEMMA StartKeeps ==
    ASSUME TrackingInv, NEW c \in Calls, Record(c) \/ Forget(c) \/ Skip(c)
    PROVE  Kept'
<1> PICK k \in Runs : k = CallbackOf(c)
  BY NamesDiffer
<1>1. PICK itsRun \in {c, None} : Starts(c, itsRun)
  BY DEF Record, Forget, Skip
<1>2. /\ call[c] = NewCall /\ ~Running(c) /\ evaluating' = evaluating
      /\ run[c].state = "none"
      /\ ~evaluating => cb[k].counts = NoCounts
  <2>1. call[c] = NewCall /\ evaluating' = evaluating
    BY <1>1 DEF Starts
  <2>2. call[c].at = "new"
    BY <2>1, FreshTypes
  <2>3. run[c] = NoRun /\ (~evaluating => cb[c].counts = NoCounts)
    BY <2>2 DEF TrackingInv, CallsAreFollowed
  <2> QED
    BY <2>1, <2>2, <2>3, FreshTypes DEF Running, CallbackOf
<1>3. /\ call'[c].at = "running" /\ ~call'[c].nested /\ call'[c].doing = None
      /\ call'[c].done = NoCounts /\ call'[c].before = cb[k].counts
      /\ \A d \in Calls : d # c => call'[d] = call[d]
      /\ cb'[k].root = c /\ cb'[k].run = itsRun /\ cb'[k].counts = cb[k].counts
      /\ \A j \in Runs : j # k => cb'[j] = cb[j]
  <2>1. /\ call' = [call EXCEPT ![c] = [call[c] EXCEPT !.at = "running", !.before = cb[k].counts]]
        /\ cb' = [cb EXCEPT ![k] = [cb[k] EXCEPT !.root = c, !.run = itsRun]]
    BY <1>1, Basics DEF Starts
  <2>2. /\ call \in [Calls -> CallType] /\ cb \in [Runs -> CallbackType]
        /\ call[c].nested = FALSE /\ call[c].doing = None /\ call[c].done = NoCounts
    BY <1>2, Basics, FreshTypes
  <2> QED
    BY <2>1, <2>2 DEF CallType, CallbackType
<1>4. cb[k].root = None
  <2> SUFFICES ASSUME cb[k].root # None PROVE FALSE
    OBVIOUS
  <2>1. PICK d \in Calls : d = cb[k].root
    BY Basics DEF CallbackType
  <2>2. Running(d) /\ CallbackOf(d) = k
    BY <2>1 DEF TrackingInv, CallbacksFollow
  <2>3. evaluating
    BY <1>2, <2>2 DEF CallbackOf
  <2> QED
    BY <1>1, <2>2, <2>3 DEF Starts, InTurn, Running
<1>5. cb[k].run = None
  BY <1>4 DEF TrackingInv, CallbacksFollow
<1>6. /\ \A d \in Calls : CallbackOf(d)' = CallbackOf(d)
      /\ \A d \in Calls : d # c /\ Running(d) => CallbackOf(d) # k
      /\ \A d \in Calls : Running(d)' <=> (d = c \/ Running(d))
  <2>1. \A d \in Calls : Running(d) => cb[CallbackOf(d)].root = d
    BY DEF TrackingInv, CallsAreFollowed
  <2> QED
    BY <1>2, <1>3, <1>4, <2>1, NamesDiffer DEF CallbackOf, Running
<1>7. CallbacksFollow'
  <2> SUFFICES ASSUME NEW j \in Runs
               PROVE  /\ cb'[j].root # None => Running(cb[j].root)' /\ CallbackOf(cb[j].root)' = j
                      /\ cb'[j].run # None => cb'[j].run = cb'[j].root
    BY DEF CallbacksFollow
  <2>1. CASE j = k
    BY <1>3, <1>6, <2>1
  <2>2. CASE j # k
    <3>1. cb'[j] = cb[j] /\ cb[j].root \in Calls \cup {None}
      BY <1>3, <2>2, Basics DEF CallbackType
    <3> PICK d : d = cb[j].root
      OBVIOUS
    <3>2. d # None => d \in Calls /\ Running(d) /\ CallbackOf(d) = j
      BY <3>1 DEF TrackingInv, CallbacksFollow
    <3>3. d # None => Running(d)' /\ CallbackOf(d)' = j
      BY <1>6, <3>1, <3>2
    <3>4. cb[j].run # None => cb[j].run = cb[j].root
      BY DEF TrackingInv, CallbacksFollow
    <3> QED
      BY <3>1, <3>3, <3>4 DEF Running, CallbackOf
  <2> QED
    BY <2>1, <2>2
<1>8. \A d \in Runs : d # c => run'[d] = run[d]
  BY Basics DEF Record, Forget, Skip, StartRun
<1>9. CallsAreFollowed'
  <2>1. \A kind \in Kinds : cb'[k].counts[kind] = call'[c].before[kind] + call'[c].done[kind]
    <3>1. cb[k].counts \in Counts
      BY Basics DEF CallbackType
    <3> QED
      BY <1>3, <3>1, FreshTypes DEF Counts
  <2>2. ASSUME NEW d \in Calls, d # c
        PROVE  /\ Running(d)' =>
                  /\ cb'[CallbackOf(d)].root = d
                  /\ \A kind \in Kinds :
                        cb'[CallbackOf(d)].counts[kind] = call'[d].before[kind] + call'[d].done[kind]
               /\ ~Running(d)' => ~call'[d].nested /\ call'[d].doing = None
               /\ call'[d].at = "new" =>
                     /\ call'[d] = NewCall /\ run'[d] = NoRun
                     /\ ~evaluating => cb'[d].counts = NoCounts
               /\ ~evaluating => call'[d].before = NoCounts
    <3>1. call'[d] = call[d] /\ run'[d] = run[d] /\ (Running(d)' <=> Running(d))
      BY <1>3, <1>6, <1>8, <2>2, NamesDiffer
    <3>2. Running(d) => cb'[CallbackOf(d)] = cb[CallbackOf(d)]
      BY <1>3, <1>6, <2>2, NamesDiffer
    <3>3. cb'[d].counts = cb[d].counts
      BY <1>3, NamesDiffer
    <3> QED
      BY <3>1, <3>2, <3>3 DEF TrackingInv, CallsAreFollowed
  <2> QED
    BY <1>2, <1>3, <1>6, <2>1, <2>2 DEF CallsAreFollowed
<1>10. CASE Skip(c)
  <2>0. stack' = stack /\ run' = run /\ hurt' = hurt
    BY <1>10 DEF Skip
  <2>1. cb'[k].run = None
    <3>1. Starts(c, None)
      BY <1>10 DEF Skip
    <3> QED
      BY <3>1, Basics DEF Starts, CallbackType
  <2>2. OneActive' /\ OwnRunOnly'
    BY <1>3, <2>0, <2>1 DEF TrackingInv, OneActive, OwnRunOnly
  <2>3. FinishedRunsAreTrue'
    BY <1>2, <1>3, <2>0 DEF TrackingInv, FinishedRunsAreTrue
  <2>4. RecordingGoesOn'
    BY <1>3, <1>5, <2>0, Basics DEF TrackingInv, RecordingGoesOn
  <2> QED
    BY <1>7, <1>9, <2>2, <2>3, <2>4 DEF Kept
<1>11. CASE Record(c) \/ Forget(c)
  <2>1. stack = <<>> /\ StartRun(c) /\ c \in Runs
    BY <1>11, NamesDiffer DEF Record, Forget
  <2>2. stack' = <<c>> /\ run'[c].state = "open" /\ stack' # <<>> /\ Last(stack') = c
    BY <2>1, StackFacts, Basics DEF StartRun, RunType
  <2>3. OneActive'
    BY <2>1, <2>2 DEF OneActive
  <2>4. \A j \in Runs : j # k => cb'[j].run = None
    BY <1>3, <2>1, Basics
  <2>5. OwnRunOnly'
    BY <1>3, <2>2, <2>4 DEF OwnRunOnly
  <2>6. FinishedRunsAreTrue'
    BY <1>2, <1>3, <1>8, <2>2, NamesDiffer DEF TrackingInv, FinishedRunsAreTrue
  <2>7. RecordingGoesOn'
    <3>1. CASE Record(c)
      <4>1. cb'[k].run = c
        BY <3>1, Basics DEF Record, Starts, CallbackType
      <4> QED
        BY <2>2, <4>1 DEF RecordingGoesOn
    <3>2. CASE Forget(c)
      BY <3>2 DEF Forget, RecordingGoesOn
    <3> QED
      BY <1>11, <3>1, <3>2
  <2> QED
    BY <1>7, <1>9, <2>3, <2>5, <2>6, <2>7 DEF Kept
<1> QED
  BY <1>10, <1>11

\* A step of a running query changes nothing of it but whether a chain is nested
\* in it and what it waits for.
LEMMA WorkKeeps ==
    ASSUME TrackingInv, NEW c \in Calls,
           NestedStart(c) \/ NestedEnd(c) \/ Raise(c) \/ \E kind \in Kinds : Begin(c, kind)
    PROVE  Kept'
<1>1. /\ Running(c) /\ UNCHANGED <<evaluating, cb, stack, run, hurt>>
      /\ \E nested \in BOOLEAN, doing \in Kinds \cup {None} :
            call' = [call EXCEPT ![c] = [call[c] EXCEPT !.nested = nested, !.doing = doing]]
  <2>1. call \in [Calls -> CallType] /\ call[c].nested \in BOOLEAN /\ call[c].doing \in Kinds \cup {None}
    BY Basics DEF CallType
  <2>2. ~Running(c) => ~call[c].nested /\ call[c].doing = None
    BY DEF TrackingInv, CallsAreFollowed
  <2>3. PICK new : /\ call' = [call EXCEPT ![c] = new]
                   /\ \/ \E b \in BOOLEAN : new = [call[c] EXCEPT !.nested = b]
                      \/ \E d \in Kinds \cup {None} : new = [call[c] EXCEPT !.doing = d]
    BY DEF NestedStart, NestedEnd, Raise, Begin
  <2>4. \E nested \in BOOLEAN, doing \in Kinds \cup {None} :
            new = [call[c] EXCEPT !.nested = nested, !.doing = doing]
    <3>1. \A b \in BOOLEAN : [call[c] EXCEPT !.nested = b]
                               = [call[c] EXCEPT !.nested = b, !.doing = call[c].doing]
      BY <2>1 DEF CallType
    <3>2. \A d \in Kinds \cup {None} : [call[c] EXCEPT !.doing = d]
                               = [call[c] EXCEPT !.nested = call[c].nested, !.doing = d]
      BY <2>1 DEF CallType
    <3> QED
      BY <2>1, <2>3, <3>1, <3>2
  <2> QED
    BY <2>2, <2>3, <2>4 DEF NestedStart, NestedEnd, Raise, Begin
<1>2. /\ \A d \in Calls : d # c => call'[d] = call[d]
      /\ \A d \in Calls : /\ call'[d].at = call[d].at /\ call'[d].before = call[d].before
                          /\ call'[d].done = call[d].done
  BY <1>1, Basics DEF CallType
<1>3. /\ \A d \in Calls : (Running(d)' <=> Running(d)) /\ CallbackOf(d)' = CallbackOf(d)
      /\ call[c].at # "new"
  BY <1>1, <1>2 DEF Running, CallbackOf
<1>4. CallbacksFollow'
  <2>1. \A j \in Runs : cb[j].root \in Calls \cup {None}
    BY Basics DEF CallbackType
  <2> QED
    BY <1>1, <1>2, <1>3, <2>1 DEF TrackingInv, CallbacksFollow, Running, CallbackOf
<1>5. CallsAreFollowed'
  BY <1>1, <1>2, <1>3 DEF TrackingInv, CallsAreFollowed
<1>6. OneActive' /\ OwnRunOnly' /\ RecordingGoesOn'
  BY <1>1 DEF TrackingInv, OneActive, OwnRunOnly, RecordingGoesOn
<1>7. FinishedRunsAreTrue'
  BY <1>1, <1>2 DEF TrackingInv, FinishedRunsAreTrue
<1> QED
  BY <1>4, <1>5, <1>6, <1>7 DEF Kept

LEMMA DoneKeeps ==
    ASSUME TrackingInv, NEW c \in Calls, Done(c)
    PROVE  Kept'
<1>2. PICK k \in Runs, kind \in Kinds :
         /\ k = CallbackOf(c) /\ kind = call[c].doing
         /\ call' = [call EXCEPT ![c] = Returned(call[c], kind)]
         /\ cb' = [cb EXCEPT ![k] = Counting(cb[k], kind)]
  BY DoneIs DEF TrackingInv
<1>1. /\ Running(c) /\ kind \in Kinds /\ UNCHANGED <<evaluating, stack, run, hurt>>
      /\ cb[k].root = c
  BY <1>2, Basics DEF Done, TrackingInv, CallsAreFollowed, CallType
<1>3. /\ \A d \in Calls : /\ call'[d].at = call[d].at /\ call'[d].before = call[d].before
                          /\ call'[d].nested = call[d].nested
                          /\ d # c => call'[d] = call[d]
      /\ call'[c].done = Plus(call[c].done, kind)
      /\ \A j \in Runs : cb'[j].root = cb[j].root /\ cb'[j].run = cb[j].run /\ (j # k => cb'[j] = cb[j])
      /\ cb'[k].counts = Plus(cb[k].counts, kind)
  BY <1>2, Basics DEF CallType, CallbackType, Returned, Counting
<1>4. /\ \A d \in Calls : (Running(d)' <=> Running(d)) /\ CallbackOf(d)' = CallbackOf(d)
      /\ \A d \in Calls : d # c /\ Running(d) => CallbackOf(d) # k
      /\ call[c].at = "running"
  BY <1>1, <1>2, <1>3, Basics DEF Running, CallbackOf
<1>5. CallbacksFollow'
  <2>1. \A j \in Runs : cb[j].root \in Calls \cup {None}
    BY Basics DEF CallbackType
  <2> QED
    BY <1>1, <1>2, <1>3, <1>4, <2>1 DEF TrackingInv, CallbacksFollow, Running, CallbackOf
<1>6. CallsAreFollowed'
  <2>1. \A n \in Kinds : cb'[k].counts[n] = call'[c].before[n] + call'[c].done[n]
    <3>1. /\ cb[k].counts \in Counts /\ call[c].before \in Counts /\ call[c].done \in Counts
          /\ \A n \in Kinds : cb[k].counts[n] = call[c].before[n] + call[c].done[n]
      BY <1>1, <1>2, Basics DEF CallbackType, CallType, TrackingInv, CallsAreFollowed
    <3> QED
      BY <1>1, <1>2, <1>3, <3>1 DEF Counts, Plus
  <2> SUFFICES ASSUME NEW d \in Calls
               PROVE  /\ Running(d)' =>
                         /\ cb'[CallbackOf(d)].root = d
                         /\ \A n \in Kinds :
                               cb'[CallbackOf(d)].counts[n] = call'[d].before[n] + call'[d].done[n]
                      /\ ~Running(d)' => ~call'[d].nested /\ call'[d].doing = None
                      /\ call'[d].at = "new" =>
                            /\ call'[d] = NewCall /\ run'[d] = NoRun
                            /\ ~evaluating => cb'[d].counts = NoCounts
                      /\ ~evaluating => call'[d].before = NoCounts
    BY <1>1, <1>2, <1>4 DEF CallsAreFollowed
  <2>2. CASE d # c
    <3>1. call'[d] = call[d] /\ run'[d] = run[d] /\ (Running(d)' <=> Running(d))
      BY <1>1, <1>2, <1>3, <1>4, <2>2
    <3>2. Running(d) => cb'[CallbackOf(d)] = cb[CallbackOf(d)]
      BY <1>2, <1>3, <1>4, <2>2, NamesDiffer
    <3>3. ~evaluating => cb'[d] = cb[d]
      BY <1>2, <1>3, <2>2, NamesDiffer DEF CallbackOf
    <3> QED
      BY <3>1, <3>2, <3>3 DEF TrackingInv, CallsAreFollowed
  <2>3. CASE d = c
    <3>1. ~evaluating => call'[c].before = NoCounts
      BY <1>3 DEF TrackingInv, CallsAreFollowed
    <3> QED
      BY <1>1, <1>2, <1>3, <1>4, <2>1, <2>3, <3>1
  <2> QED
    BY <2>2, <2>3
<1>7. OneActive' /\ OwnRunOnly' /\ RecordingGoesOn'
  BY <1>1, <1>2, <1>3 DEF TrackingInv, OneActive, OwnRunOnly, RecordingGoesOn
<1>8. FinishedRunsAreTrue'
  BY <1>1, <1>2, <1>3, <1>4 DEF TrackingInv, FinishedRunsAreTrue
<1> QED
  BY <1>5, <1>6, <1>7, <1>8 DEF Kept

LEMMA EndKeeps ==
    ASSUME TrackingInv, NEW c \in Calls, Answer(c) \/ Fail(c)
    PROVE  Kept'
<1> PICK k \in Runs : k = CallbackOf(c)
  BY NamesDiffer
<1>1. PICK how \in {"answered", "failed"} : Ends(c, how) /\ Close(c)
  BY DEF Answer, Fail
<1>2. /\ Running(c) /\ call[c].at = "running" /\ evaluating' = evaluating /\ cb[k].root = c
      /\ call[c].nested = FALSE /\ call[c].doing = None
      /\ cb[k].run # None => cb[k].run = c
  <2>1. call[c].nested \in BOOLEAN
    BY Basics DEF CallType
  <2> QED
    BY <1>1, <2>1 DEF Ends, Quiet, Running, TrackingInv, CallsAreFollowed, CallbacksFollow
<1>3. /\ \A d \in Calls : d # c => call'[d] = call[d]
      /\ call'[c].at = how /\ call'[c].before = call[c].before /\ call'[c].done = call[c].done
      /\ call'[c].nested = FALSE /\ call'[c].doing = None
      /\ cb'[k].root = None /\ cb'[k].run = None /\ cb'[k].counts = cb[k].counts
      /\ \A j \in Runs : j # k => cb'[j] = cb[j]
  <2>1. /\ call' = [call EXCEPT ![c] = [call[c] EXCEPT !.at = how]]
        /\ cb' = [cb EXCEPT ![k] = [cb[k] EXCEPT !.root = None, !.run = None]]
    BY <1>1, Basics DEF Ends
  <2> QED
    BY <1>2, <2>1, Basics DEF CallType, CallbackType
<1>4. /\ \A d \in Calls : CallbackOf(d)' = CallbackOf(d)
      /\ \A d \in Calls : d # c /\ Running(d) => CallbackOf(d) # k
      /\ \A d \in Calls : Running(d)' <=> (d # c /\ Running(d))
  BY <1>2, <1>3, Basics DEF CallbackOf, Running
<1>5. CallbacksFollow'
  <2> SUFFICES ASSUME NEW j \in Runs
               PROVE  /\ cb'[j].root # None => Running(cb[j].root)' /\ CallbackOf(cb[j].root)' = j
                      /\ cb'[j].run # None => cb'[j].run = cb'[j].root
    BY DEF CallbacksFollow
  <2>1. CASE j = k
    BY <1>3, <2>1
  <2>2. CASE j # k
    <3>1. cb'[j] = cb[j] /\ cb[j].root \in Calls \cup {None}
      BY <1>3, <2>2, Basics DEF CallbackType
    <3> PICK d : d = cb[j].root
      OBVIOUS
    <3>2. d # None => d \in Calls /\ Running(d) /\ CallbackOf(d) = j
      BY <3>1 DEF TrackingInv, CallbacksFollow
    <3>3. d # None => Running(d)' /\ CallbackOf(d)' = j
      BY <1>4, <2>2, <3>1, <3>2
    <3>4. cb[j].run # None => cb[j].run = cb[j].root
      BY DEF TrackingInv, CallbacksFollow
    <3> QED
      BY <3>1, <3>3, <3>4 DEF Running, CallbackOf
  <2> QED
    BY <2>1, <2>2
<1>6. \/ UNCHANGED <<stack, run, hurt>> /\ cb[k].run = None
      \/ UNCHANGED <<stack, run>> /\ hurt' = TRUE
      \/ /\ cb[k].run = c /\ stack = <<c>> /\ stack' = <<>> /\ UNCHANGED hurt
         /\ run'[c].counts = cb[k].counts
         /\ \A d \in Runs : d # c => run'[d] = run[d]
  <2>1. \/ UNCHANGED <<stack, run, hurt>> /\ cb[k].run = None
        \/ UNCHANGED <<stack, run>> /\ hurt' = TRUE
        \/ /\ cb[k].run \in Calls /\ stack = <<cb[k].run>> /\ stack' = <<>> /\ UNCHANGED hurt
           /\ \E state \in {"finished", "open"} :
                 run' = [run EXCEPT ![cb[k].run] = [state |-> state, counts |-> cb[k].counts]]
    BY <1>1, CloseIs DEF TrackingInv
  <2>2. cb[k].run \in Calls => cb[k].run = c
    BY <1>2, NamesDiffer
  <2> QED
    BY <2>1, <2>2, Basics, NamesDiffer
<1>7. \A d \in Calls : d # c => run'[d] = run[d]
  BY <1>6, NamesDiffer
<1>8. CallsAreFollowed'
  <2> SUFFICES ASSUME NEW d \in Calls
               PROVE  /\ Running(d)' =>
                         /\ cb'[CallbackOf(d)].root = d
                         /\ \A n \in Kinds :
                               cb'[CallbackOf(d)].counts[n] = call'[d].before[n] + call'[d].done[n]
                      /\ ~Running(d)' => ~call'[d].nested /\ call'[d].doing = None
                      /\ call'[d].at = "new" =>
                            /\ call'[d] = NewCall /\ run'[d] = NoRun
                            /\ ~evaluating => cb'[d].counts = NoCounts
                      /\ ~evaluating => call'[d].before = NoCounts
    BY <1>2, <1>4 DEF CallsAreFollowed
  <2>1. CASE d = c
    BY <1>3, <1>4, <2>1 DEF TrackingInv, CallsAreFollowed
  <2>2. CASE d # c
    <3>1. call'[d] = call[d] /\ run'[d] = run[d] /\ (Running(d)' <=> Running(d))
      BY <1>3, <1>4, <1>7, <2>2
    <3>2. Running(d) => cb'[CallbackOf(d)] = cb[CallbackOf(d)]
      BY <1>3, <1>4, <2>2, NamesDiffer
    <3>3. cb'[d].counts = cb[d].counts
      BY <1>3, NamesDiffer
    <3> QED
      BY <3>1, <3>2, <3>3 DEF TrackingInv, CallsAreFollowed
  <2> QED
    BY <2>1, <2>2
<1>9. FinishedRunsAreTrue'
  <2> SUFFICES ASSUME NEW d \in Calls, run'[d].state = "finished"
               PROVE  /\ call'[d].at \in {"answered", "failed"}
                      /\ \A kind \in Kinds : run'[d].counts[kind] = call'[d].before[kind] + call'[d].done[kind]
                      /\ evaluating \/ call'[d].before = NoCounts
    BY <1>2 DEF FinishedRunsAreTrue
  <2>1. CASE d # c
    BY <1>3, <1>7, <2>1 DEF TrackingInv, FinishedRunsAreTrue
  <2>2. CASE d = c
    <3>1. run[c].state # "finished"
      BY <1>2 DEF TrackingInv, FinishedRunsAreTrue
    <3>2. run'[c].counts = cb[k].counts
      BY <1>6, <2>2, <3>1
    <3> QED
      BY <1>2, <1>3, <2>2, <3>2 DEF TrackingInv, CallsAreFollowed
  <2> QED
    BY <2>1, <2>2
<1>10. OneActive'
  BY <1>6 DEF TrackingInv, OneActive
<1>11. OwnRunOnly'
  <2> SUFFICES ASSUME NEW j \in Runs, cb'[j].run # None
               PROVE  stack' = <<cb'[j].run>> /\ run'[cb'[j].run].state = "open"
    BY DEF OwnRunOnly
  <2>1. j # k /\ cb'[j] = cb[j]
    BY <1>3
  <2>2. stack = <<cb[j].run>> /\ run[cb[j].run].state = "open"
    BY <2>1 DEF TrackingInv, OwnRunOnly
  <2>3. stack' = stack /\ run' = run
    <3>1. stack # <<c>>
      <4>1. stack = <<c>> => cb[j].run = c
        BY <2>2
      <4>2. cb[j].run = c => cb[j].root = c /\ CallbackOf(c) = j
        BY <2>1, NamesDiffer DEF TrackingInv, CallbacksFollow
      <4> QED
        BY <2>1, <4>1, <4>2
    <3> QED
      BY <1>6, <3>1
  <2> QED
    BY <2>1, <2>2, <2>3
<1>12. RecordingGoesOn'
  <2>1. CASE UNCHANGED <<stack, run, hurt>> /\ cb[k].run = None
    BY <1>3, <2>1, Basics DEF TrackingInv, RecordingGoesOn
  <2>2. CASE hurt' = TRUE \/ stack' = <<>>
    BY <2>2 DEF RecordingGoesOn
  <2> QED
    BY <1>6, <2>1, <2>2
<1> QED
  BY <1>5, <1>8, <1>9, <1>10, <1>11, <1>12 DEF Kept

LEMMA LogKeeps == TrackingInv /\ LogEvaluation => Kept'
<1> SUFFICES ASSUME TrackingInv, LogEvaluation PROVE Kept'
  OBVIOUS
<1>1. /\ UNCHANGED <<evaluating, call, cb, hurt>> /\ stack = <<>> /\ Evaluation \in Runs
      /\ StartRun(Evaluation) /\ \A j \in Runs : cb[j].run = None
  BY Basics DEF LogEvaluation, Runs
<1>2. stack' = <<Evaluation>> /\ Last(stack') = Evaluation
  BY <1>1, StackFacts DEF StartRun
<1>3. \A c \in Calls : run'[c] = run[c]
  BY <1>1, NamesDiffer, Basics DEF StartRun
<1>4. CallbacksFollow' /\ CallsAreFollowed'
  BY <1>1, <1>3 DEF TrackingInv, CallbacksFollow, CallsAreFollowed, Running, CallbackOf
<1>5. OneActive' /\ OwnRunOnly' /\ RecordingGoesOn'
  BY <1>1, <1>2 DEF OneActive, OwnRunOnly, RecordingGoesOn
<1>6. FinishedRunsAreTrue'
  BY <1>1, <1>3 DEF TrackingInv, FinishedRunsAreTrue
<1> QED
  BY <1>4, <1>5, <1>6 DEF Kept

LEMMA RestartKeeps == TrackingInv /\ Restart => Kept'
<1> SUFFICES ASSUME TrackingInv, Restart PROVE Kept'
  OBVIOUS
<1>1. /\ ~evaluating /\ evaluating' = evaluating /\ run' = run /\ stack' = <<>>
      /\ \A j \in Runs : cb'[j] = NewCallback
  BY DEF Restart
<1>2. \A c \in Calls :
         /\ Running(c) => /\ call'[c].at = "failed" /\ ~call'[c].nested /\ call'[c].doing = None
                          /\ call'[c].before = call[c].before /\ call'[c].done = call[c].done
         /\ ~Running(c) => call'[c] = call[c]
  BY Basics DEF Restart, CallType
<1>3. \A c \in Calls : ~Running(c)'
  BY <1>2 DEF Running
<1>4. CallbacksFollow' /\ OneActive' /\ OwnRunOnly' /\ RecordingGoesOn'
  BY <1>1, FreshTypes DEF CallbacksFollow, OneActive, OwnRunOnly, RecordingGoesOn
<1>5. CallsAreFollowed'
  BY <1>1, <1>2, <1>3, FreshTypes, NamesDiffer DEF TrackingInv, CallsAreFollowed
<1>6. FinishedRunsAreTrue'
  BY <1>1, <1>2 DEF TrackingInv, FinishedRunsAreTrue, Running
<1> QED
  BY <1>4, <1>5, <1>6 DEF Kept

-----------------------------------------------------------------------------
(***************************************************************************)
(* The theorems.                                                           *)
(***************************************************************************)
LEMMA InvInit == Init => TrackingInv
<1> SUFFICES ASSUME Init PROVE TrackingInv
  OBVIOUS
<1>2. \A c \in Calls : call[c] = NewCall
  BY DEF Init
<1>3. \A r \in Runs : run[r] = NoRun /\ cb[r] = NewCallback
  BY DEF Init
<1>4. TypeOK
  <2>1. call \in [Calls -> CallType] /\ cb \in [Runs -> CallbackType] /\ run \in [Runs -> RunType]
    <3>1. NewCall \in CallType /\ NewCallback \in CallbackType /\ NoRun \in RunType
      BY FreshTypes
    <3>2. call = [c \in Calls |-> NewCall] /\ cb = [k \in Runs |-> NewCallback] /\ run = [r \in Runs |-> NoRun]
      BY DEF Init
    <3>3. call \in [Calls -> CallType]
      BY <3>1, <3>2
    <3>4. cb \in [Runs -> CallbackType]
      BY <3>1, <3>2
    <3>5. run \in [Runs -> RunType]
      BY <3>1, <3>2
    <3> QED
      BY <3>3, <3>4, <3>5
  <2>2. stack = <<>> /\ hurt \in BOOLEAN /\ evaluating \in BOOLEAN
    BY DEF Init
  <2>3. <<>> \in Seq(Runs)
    OBVIOUS
  <2> QED
    BY <2>1, <2>2, <2>3, TypesAre
<1>5. CallbacksFollow /\ OneActive /\ OwnRunOnly /\ RecordingGoesOn
  BY <1>3, FreshTypes DEF Init, CallbacksFollow, OneActive, OwnRunOnly, RecordingGoesOn
<1>6. CallsAreFollowed /\ FinishedRunsAreTrue
  BY <1>2, <1>3, FreshTypes, NamesDiffer DEF CallsAreFollowed, FinishedRunsAreTrue, Running
<1> QED
  BY <1>4, <1>5, <1>6 DEF TrackingInv

LEMMA InvStep == TrackingInv /\ [Next]_vars => TrackingInv'
<1> SUFFICES ASSUME TrackingInv, [Next]_vars PROVE TrackingInv'
  OBVIOUS
<1>2. TypeOK'
  BY TypeStep DEF TrackingInv
<1>3. CASE UNCHANGED vars
  BY <1>3 DEF vars, TrackingInv, TypeOK, CallbacksFollow, CallsAreFollowed, OneActive, OwnRunOnly,
              FinishedRunsAreTrue, RecordingGoesOn, Running, CallbackOf
<1>4. CASE Next
  <2>1. Kept'
    BY <1>4, StartKeeps, WorkKeeps, DoneKeeps, EndKeeps, LogKeeps, RestartKeeps DEF Next
  <2> QED
    BY <1>2, <2>1 DEF Kept, TrackingInv
<1> QED
  BY <1>3, <1>4

\* The inductive invariant: a callback follows one running chain at a time, and
\* no more than one run is active.
THEOREM TrackingInvariant == Spec => []TrackingInv
BY InvInit, InvStep, PTL DEF Spec

\* Concurrent queries never log to or end each other's MLflow runs, though the
\* active run is global and no call names one.
THEOREM CallbacksKeepToTheirRuns == Spec => []OwnRunOnly
<1>1. TrackingInv => OwnRunOnly
  BY DEF TrackingInv
<1> QED
  BY TrackingInvariant, <1>1, PTL

\* A finished run counts what its query did, all of it and nothing of others'.
THEOREM FinishedRunsTellTheTruth == Spec => []FinishedRunsAreTrue
<1>1. TrackingInv => FinishedRunsAreTrue
  BY DEF TrackingInv
<1> QED
  BY TrackingInvariant, <1>1, PTL

\* No order of queries, errors and restarts leaves a run active that no callback
\* will end, unless the server failed at the wrong moment.
THEOREM RecordingIsNotLost == Spec => []RecordingGoesOn
<1>1. TrackingInv => RecordingGoesOn
  BY DEF TrackingInv
<1> QED
  BY TrackingInvariant, <1>1, PTL
=============================================================================
