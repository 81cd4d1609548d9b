------------------------ MODULE IngestServiceProofs ------------------------
(***************************************************************************)
(* Proofs about IngestService, for any sets of documents, batches, models  *)
(* and clients, with one hash or with a collection, whatever requests      *)
(* overlap, whatever steps fail and whatever collection_exists answers:    *)
(* its type invariant; that what the service promised holds in every       *)
(* store; and that a request has a bounded number of steps.                *)
(***************************************************************************)
EXTENDS IngestService, FiniteSetTheorems, TLAPS

LEMMA CallFacts ==
    ASSUME NEW call \in Call
    PROVE  /\ call.kind \in {"append", "replace", "delete"}
           /\ call.doc \in Docs
           /\ call.kind \in {"append", "replace"} => call.batch \in Batches
           /\ call.kind = "delete" => call.batch = NoBatch
           /\ call = [kind |-> call.kind, doc |-> call.doc, batch |-> call.batch]
BY DEF Call

LEMMA StartFacts ==
    ASSUME NEW call \in Call
    PROVE  /\ Fresh(call) \in ReqType
           /\ Fresh(call).kind = call.kind /\ Fresh(call).doc = call.doc
           /\ Fresh(call).batch = call.batch /\ Fresh(call).at = FirstStep[call.kind]
           /\ Fresh(call).todo = {} /\ ~Fresh(call).missed
           /\ ~Rewriting(Fresh(call))
<1>1. Fresh(call) = [kind |-> call.kind, doc |-> call.doc, batch |-> call.batch,
                     at |-> FirstStep[call.kind], todo |-> {}, copy |-> NothingStored,
                     missed |-> FALSE]
  BY DEF Fresh, Idle
<1>2. FirstStep[call.kind] \in {"guard", "list", "kb_delete"}
  BY CallFacts DEF FirstStep
<1> QED
  BY <1>1, <1>2, CallFacts DEF ReqType, Phases, NothingStored, Rewriting

LEMMA IdleType == Idle \in ReqType
BY DEF Idle, ReqType, NothingStored

\* A process that looks for the collection stays one of the processes.
LEMMA RememberType ==
    ASSUME TypeOK, NEW c \in Clients, NEW found, Remember(c, found)
    PROVE  ready' \subseteq Processes
BY IngestAssumption DEF TypeOK, Remember, IngestAssumption

LEMMA DropType ==
    ASSUME TypeOK, NEW d \in Docs, DropVectors(d)
    PROVE  /\ kb' \in [Docs -> Batches \cup {NoBatch}]
           /\ points' \in [Docs -> SUBSET Batches]
BY DEF TypeOK, DropVectors

-----------------------------------------------------------------------------
\* What the phase of a request says about the request.
LEMMA PhaseFacts ==
    ASSUME NEW r \in ReqType, Shaped(r)
    PROVE  /\ r.at = "idle" <=> r = Idle
           /\ r.at # "idle" => /\ r.kind \in {"append", "replace", "delete"}
                               /\ r.doc \in Docs
                               /\ r.at \in PhasesOf[r.kind] \cup RewritesOf[r.kind]
           /\ r.kind \in {"append", "replace"} => r.batch \in Batches
           /\ r.kind = "delete" => r.batch = NoBatch
           /\ r.at \in {"guard", "stamp"} => r.kind = "append"
           /\ r.at \in {"list", "drop", "drop_rewrite", "meta_clear", "meta_write"} =>
                  r.kind = "replace"
           /\ r.at \in {"kb_delete", "kb_rewrite", "vec_delete", "vec_rewrite"} =>
                  r.kind = "delete"
           /\ r.at \in Upsert \cup {"kb"} => r.kind \in {"append", "replace"}
           /\ r.at \in {"ensure", "create", "unpoint", "point"} => ~SharedHash
           /\ r.at = "hash" => SharedHash
           /\ r.at \notin {"drop", "drop_rewrite"} => r.todo = {}
           /\ r.missed => ~SharedHash
<1>1. CASE r = Idle
  BY <1>1 DEF Idle, Upsert
<1>2. CASE r # Idle
  <2>1. /\ r.kind \in {"append", "replace", "delete"}
        /\ r.doc \in Docs
        /\ r.kind \in {"append", "replace"} => r.batch \in Batches
        /\ r.kind = "delete" => r.batch = NoBatch
    BY <1>2, CallFacts DEF Shaped, Call
  <2>2. /\ r.at \in PhasesOf[r.kind] \cup RewritesOf[r.kind]
        /\ r.todo # {} => r.at \in {"drop", "drop_rewrite"}
        /\ r.missed => ~SharedHash
    BY <1>2 DEF Shaped
  <2> QED
    BY <1>2, <2>1, <2>2 DEF PhasesOf, RewritesOf, Upsert
<1> QED
  BY <1>1, <1>2

\* A request that moves to another phase of its kind keeps its shape.
LEMMA MoveShape ==
    ASSUME NEW r \in ReqType, Shaped(r), r # Idle, NEW m \in ReqType,
           m.kind = r.kind, m.doc = r.doc, m.batch = r.batch,
           m.at \in PhasesOf[r.kind] \cup RewritesOf[r.kind],
           m.todo # {} => m.at \in {"drop", "drop_rewrite"}, m.missed => ~SharedHash
    PROVE  Shaped(m) /\ m # Idle
<1>1. r.kind \in {"append", "replace", "delete"}
  BY PhaseFacts
<1>2. m # Idle
  BY <1>1 DEF Idle
<1>3. [kind |-> m.kind, doc |-> m.doc, batch |-> m.batch] \in Call
  BY DEF Shaped
<1> QED
  BY <1>2, <1>3 DEF Shaped

Base == TypeOK /\ \A c \in Clients : Shaped(req[c])

\* What every step of a request but a rewrite does to the requests: the others
\* stay as they are, and its own ends or goes on being the same call.
Kept(c) ==
    /\ req' \in [Clients -> ReqType]
    /\ \A x \in Clients : x # c => req'[x] = req[x]
    /\ Shaped(req'[c])
    /\ req'[c] # Idle => /\ req'[c].kind = req[c].kind
                         /\ req'[c].doc = req[c].doc
                         /\ req'[c].batch = req[c].batch
    /\ ~Rewriting(req'[c])
    /\ alone' = IF req'[c] = Idle THEN alone \ {c} ELSE alone

LEMMA MoveKept ==
    ASSUME Base, NEW c \in Clients, req[c] # Idle, NEW phase \in PhasesOf[req[c].kind],
           NEW todo \in SUBSET Docs, NEW missed \in BOOLEAN,
           todo # {} => phase = "drop", missed => ~SharedHash,
           req' = [req EXCEPT ![c] = [req[c] EXCEPT !.at = phase, !.todo = todo,
                                                    !.missed = missed]],
           alone' = alone
    PROVE  /\ Kept(c) /\ req'[c] # Idle
           /\ req'[c].at = phase /\ req'[c].todo = todo /\ req'[c].missed = missed
<1>1. req \in [Clients -> ReqType] /\ req[c] \in ReqType /\ Shaped(req[c])
  BY DEF Base, TypeOK
<1>2. req'[c] = [req[c] EXCEPT !.at = phase, !.todo = todo, !.missed = missed]
  BY <1>1
<1>3. /\ req'[c] \in ReqType
      /\ req'[c].kind = req[c].kind /\ req'[c].doc = req[c].doc
      /\ req'[c].batch = req[c].batch /\ req'[c].at = phase /\ req'[c].todo = todo
      /\ req'[c].missed = missed
  <2>1. req[c].kind \in {"append", "replace", "delete"}
    BY <1>1, PhaseFacts
  <2>2. phase \in Phases
    BY <2>1 DEF PhasesOf, Phases, Upsert
  <2> QED
    BY <1>1, <1>2, <2>2 DEF ReqType
<1>6. ~Rewriting(req'[c])
  <2>1. req[c].kind \in {"append", "replace", "delete"}
    BY <1>1, PhaseFacts
  <2> QED
    BY <1>3, <2>1 DEF PhasesOf, Upsert, Rewriting
<1>4. Shaped(req'[c]) /\ req'[c] # Idle
  <2>1. req'[c].missed => ~SharedHash
    BY <1>3
  <2>2. req'[c].at \in PhasesOf[req[c].kind] /\ (req'[c].todo # {} => req'[c].at = "drop")
    BY <1>3
  <2> PICK r \in ReqType : r = req[c]
    BY <1>1
  <2> PICK m \in ReqType : m = req'[c]
    BY <1>3
  <2>3. /\ m.kind = r.kind /\ m.doc = r.doc /\ m.batch = r.batch /\ m.at \in PhasesOf[r.kind]
        /\ m.todo # {} => m.at \in {"drop", "drop_rewrite"}
        /\ m.missed => ~SharedHash
    BY <1>3, <2>1, <2>2
  <2>4. Shaped(r) /\ r # Idle
    BY <1>1
  <2> QED
    BY <2>3, <2>4, MoveShape
<1>5. req' \in [Clients -> ReqType] /\ \A x \in Clients : x # c => req'[x] = req[x]
  BY <1>1, <1>2, <1>3
<1> QED
  BY <1>3, <1>4, <1>5, <1>6 DEF Kept

LEMMA GoToKept ==
    ASSUME Base, NEW c \in Clients, req[c] # Idle, NEW phase \in PhasesOf[req[c].kind],
           req[c].todo = {}, GoTo(c, phase)
    PROVE  Kept(c) /\ req'[c] # Idle /\ req'[c].at = phase /\ req'[c].todo = {}
<1>1. req[c] \in ReqType
  BY DEF Base, TypeOK
<1>2. req[c].missed \in BOOLEAN /\ (req[c].missed => ~SharedHash)
  BY <1>1, PhaseFacts DEF Base, ReqType
<1>3. [req[c] EXCEPT !.at = phase]
          = [req[c] EXCEPT !.at = phase, !.todo = {}, !.missed = req[c].missed]
  BY <1>1 DEF ReqType
<1>4. /\ req' = [req EXCEPT ![c] = [req[c] EXCEPT !.at = phase, !.todo = {},
                                                  !.missed = req[c].missed]]
      /\ alone' = alone
  BY <1>3 DEF GoTo
<1> QED
  BY <1>2, <1>4, MoveKept

LEMMA EndKept ==
    ASSUME Base, NEW c \in Clients, End(c)
    PROVE  Kept(c) /\ req'[c] = Idle
<1>1. ~Rewriting(Idle)
  BY DEF Idle, Rewriting
<1> QED
  BY <1>1, IdleType DEF Base, TypeOK, End, Kept, Shaped

\* Where each action leaves its request.
LEMMA StepKept ==
    ASSUME Base, NEW c \in Clients, Step(c) \/ Fail(c)
    PROVE  Kept(c) /\ req[c] # Idle
<1>r. req[c] \in ReqType /\ Shaped(req[c])
  BY DEF Base, TypeOK
<1>i. Idle.at = "idle"
  BY DEF Idle
<1>f. Failable \subseteq Phases
  BY IngestAssumption DEF IngestAssumption
<1>1. CASE GuardRefuses(c) \/ CreateRefused(c) \/ PutRefused(c) \/ DeleteUnknown(c)
           \/ Answer(c) \/ Fail(c)
  BY <1>1, <1>i, <1>f, EndKept
     DEF GuardRefuses, CreateRefused, PutRefused, DeleteUnknown, Answer, Fail, At, Phases
<1>2. CASE Guard(c) \/ Stamp(c)
  <2>1. req[c].at \in {"guard", "stamp"}
    BY <1>2 DEF Guard, Stamp, At
  <2>2. req[c].kind = "append" /\ req[c].todo = {} /\ req[c] # Idle
    BY <1>r, <1>i, <2>1, PhaseFacts
  <2>3. PICK phase \in {"stamp", UpsertStep} : GoTo(c, phase)
    BY <1>2 DEF Guard, Stamp
  <2>4. phase \in PhasesOf[req[c].kind]
    BY <2>2 DEF PhasesOf, Upsert, UpsertStep
  <2> QED
    BY <2>2, <2>3, <2>4, GoToKept
<1>3. CASE ListVectors(c)
  <2>1. req[c].kind = "replace" /\ req[c] # Idle
    BY <1>r, <1>i, <1>3, PhaseFacts DEF ListVectors, At
  <2>2. "drop" \in PhasesOf[req[c].kind]
    BY <2>1 DEF PhasesOf
  <2>3. PICK found \in BOOLEAN :
            /\ CollectionExists(ProcessOf[c] \in ready, found)
            /\ req' = [req EXCEPT ![c] = [req[c] EXCEPT
                              !.at = "drop", !.todo = {d \in Docs : found /\ Searchable(d) # {}},
                              !.missed = ~found /\ dim # NoDim]]
    BY <1>3 DEF ListVectors
  <2> DEFINE todo == {d \in Docs : found /\ Searchable(d) # {}}
             missed == ~found /\ dim # NoDim
  <2>4. alone' = alone /\ todo \in SUBSET Docs /\ missed \in BOOLEAN
    BY <1>3 DEF ListVectors
  <2>5. missed => ~SharedHash
    BY <2>3 DEF CollectionExists
  <2>6. req' = [req EXCEPT ![c] = [req[c] EXCEPT !.at = "drop", !.todo = todo,
                                                  !.missed = missed]]
    BY <2>3
  <2> HIDE DEF todo, missed
  <2> QED
    BY <2>1, <2>2, <2>4, <2>5, <2>6, MoveKept
<1>4. ASSUME NEW d \in Docs, DropListed(c, d)
      PROVE  Kept(c) /\ req[c] # Idle
  <2>1. req[c].kind = "replace" /\ req[c] # Idle /\ req[c].at = "drop"
    BY <1>r, <1>i, <1>4, PhaseFacts DEF DropListed, At
  <2>2. "drop" \in PhasesOf[req[c].kind]
    BY <2>1 DEF PhasesOf
  <2>3. req[c].todo \ {d} \in SUBSET Docs
    BY <1>r DEF ReqType
  <2>4. [req[c] EXCEPT !.todo = req[c].todo \ {d}]
          = [req[c] EXCEPT !.at = "drop", !.todo = req[c].todo \ {d}, !.missed = req[c].missed]
    BY <1>r, <2>1 DEF ReqType
  <2>5. /\ req' = [req EXCEPT ![c] = [req[c] EXCEPT !.at = "drop", !.todo = req[c].todo \ {d},
                                                    !.missed = req[c].missed]]
        /\ alone' = alone
    BY <1>4, <2>4 DEF DropListed
  <2>6. req[c].missed \in BOOLEAN /\ (req[c].missed => ~SharedHash)
    BY <1>r, PhaseFacts DEF ReqType
  <2> QED
    BY <2>1, <2>2, <2>3, <2>5, <2>6, MoveKept
<1>5. CASE DropDone(c)
  <2>1. req[c].kind = "replace" /\ req[c] # Idle /\ req[c].todo = {} /\ GoTo(c, UpsertStep)
    BY <1>r, <1>i, <1>5, PhaseFacts DEF DropDone, At
  <2>2. UpsertStep \in PhasesOf[req[c].kind]
    BY <2>1 DEF PhasesOf, Upsert, UpsertStep
  <2> QED
    BY <2>1, <2>2, GoToKept
<1>6. CASE EnsureCollection(c) \/ CreateCollection(c) \/ DeletePoints(c) \/ PutPoints(c)
           \/ UpsertHash(c)
  <2>1. /\ req[c].kind \in {"append", "replace"} /\ req[c].todo = {} /\ req[c] # Idle
        /\ req[c].at # "hash" => ~SharedHash
    <3>1. req[c].at \in {"ensure", "create", "unpoint", "point", "hash"}
      BY <1>6 DEF EnsureCollection, CreateCollection, DeletePoints, PutPoints, UpsertHash, At
    <3>2. req[c].at \in Upsert
      BY <1>r, <3>1, PhaseFacts DEF Upsert
    <3> QED
      BY <1>r, <1>i, <3>1, <3>2, PhaseFacts
  <2>2. PICK phase \in {"create", "unpoint", "point", "kb"} :
            /\ GoTo(c, phase)
            /\ phase # "kb" => ~SharedHash
    BY <1>6, <2>1
       DEF EnsureCollection, CreateCollection, DeletePoints, PutPoints, UpsertHash, At
  <2>3. phase \in PhasesOf[req[c].kind]
    BY <2>1, <2>2 DEF PhasesOf, Upsert
  <2> QED
    BY <2>1, <2>2, <2>3, GoToKept
<1>7. CASE AppendKb(c) \/ ReplaceKb(c) \/ ClearMeta(c) \/ WriteMeta(c) \/ DeleteKb(c)
  <2>1. req[c].todo = {} /\ req[c] # Idle /\ req[c].kind \in {"append", "replace", "delete"}
    BY <1>7, <1>r, <1>i, PhaseFacts DEF AppendKb, ReplaceKb, ClearMeta, WriteMeta, DeleteKb, At
  <2>2. PICK phase \in PhasesOf[req[c].kind] : GoTo(c, phase)
    <3>1. CASE AppendKb(c) \/ WriteMeta(c)
      BY <2>1, <3>1 DEF AppendKb, WriteMeta, PhasesOf
    <3>2. CASE ReplaceKb(c) \/ ClearMeta(c)
      BY <1>r, <3>2, PhaseFacts DEF ReplaceKb, ClearMeta, At, PhasesOf
    <3>3. CASE DeleteKb(c)
      BY <1>r, <3>3, PhaseFacts DEF DeleteKb, At, PhasesOf
    <3> QED
      BY <1>7, <3>1, <3>2, <3>3
  <2> QED
    BY <2>1, <2>2, GoToKept
<1>8. CASE DeleteVectors(c)
  <2>1. req[c].kind = "delete" /\ req[c] # Idle /\ req[c].todo = {}
    BY <1>r, <1>i, <1>8, PhaseFacts DEF DeleteVectors, At
  <2>f. PICK found \in BOOLEAN :
            /\ CollectionExists(ProcessOf[c] \in ready, found)
            /\ req' = [req EXCEPT ![c] = [req[c] EXCEPT !.at = "answer",
                                                        !.missed = ~found /\ dim # NoDim]]
    BY <1>8 DEF DeleteVectors
  <2> DEFINE missed == ~found /\ dim # NoDim
  <2>2. /\ missed \in BOOLEAN /\ alone' = alone
        /\ req' = [req EXCEPT ![c] = [req[c] EXCEPT !.at = "answer", !.missed = missed]]
    BY <1>8, <2>f DEF DeleteVectors
  <2>5. missed => ~SharedHash
    BY <2>f DEF CollectionExists
  <2> HIDE DEF missed
  <2>3. [req[c] EXCEPT !.at = "answer", !.missed = missed]
            = [req[c] EXCEPT !.at = "answer", !.todo = {}, !.missed = missed]
    BY <1>r, <2>1 DEF ReqType
  <2>4. "answer" \in PhasesOf[req[c].kind]
    BY <2>1 DEF PhasesOf
  <2> QED
    BY <2>1, <2>2, <2>3, <2>4, <2>5, MoveKept
<1> QED
  BY <1>1, <1>2, <1>3, <1>4, <1>5, <1>6, <1>7, <1>8 DEF Step

\* A crash ends the requests of its process, and nothing else.
LEMMA CrashKept ==
    ASSUME Base, NEW p \in Processes, Crash(p)
    PROVE  /\ Base'
           /\ \A x \in Clients : \/ req'[x] = req[x]
                                 \/ req'[x] = Idle /\ req[x].at \in Failable
           /\ alone' \subseteq alone
           /\ \A x \in Clients : req'[x] # req[x] => x \notin alone'
           /\ \A x \in Clients : req'[x] = req[x] /\ x \in alone => req[x] = Idle \/ x \in alone'
           /\ ready' \subseteq ready
           /\ UNCHANGED <<kb, points, dim, meta, crossed, acked>>
<1> PICK lost \in SUBSET Clients :
        /\ lost = {c \in Clients : ProcessOf[c] = p /\ req[c] # Idle}
        /\ \A c \in lost : req[c].at \in Failable
        /\ req' = [c \in Clients |-> IF c \in lost THEN Idle ELSE req[c]]
        /\ ready' = ready \ {p}
        /\ alone' = alone \ lost
        /\ UNCHANGED <<kb, points, dim, meta, crossed, acked>>
  BY DEF Crash
<1>1. \A x \in Clients : req'[x] = IF x \in lost THEN Idle ELSE req[x]
  OBVIOUS
<1>2. req' \in [Clients -> ReqType] /\ \A x \in Clients : Shaped(req'[x])
  BY <1>1, IdleType DEF Base, TypeOK, Shaped
<1>3. Base'
  BY <1>2 DEF Base, TypeOK
<1> QED
  BY <1>1, <1>3

-----------------------------------------------------------------------------
LEMMA StepTypes ==
    ASSUME Base, NEW c \in Clients, Step(c) \/ Fail(c)
    PROVE  Base'
<1>1. Kept(c) /\ req[c] # Idle
  BY StepKept
<1>2. \A x \in Clients : Shaped(req'[x])
  BY <1>1 DEF Kept, Base
<1>r. req[c] \in ReqType /\ Shaped(req[c])
  BY DEF Base, TypeOK
<1>b. /\ req[c].doc \in Docs
      /\ req[c].at \in Upsert \cup {"kb", "guard", "stamp", "meta_clear", "meta_write"} =>
             req[c].batch \in Batches
      /\ req[c].batch \in Batches \cup {NoBatch}
  BY <1>1, <1>r, PhaseFacts DEF ReqType
<1>u. /\ ModelOf \in [Batches -> Models]
      /\ req[c].at \in {"ensure", "create", "unpoint", "point", "hash"} => req[c].at \in Upsert
  BY <1>r, PhaseFacts, IngestAssumption DEF IngestAssumption, Upsert
<1>3. kb' \in [Docs -> Batches \cup {NoBatch}] /\ points' \in [Docs -> SUBSET Batches]
  <2>1. ASSUME NEW d \in Docs, DropListed(c, d)
        PROVE  kb' \in [Docs -> Batches \cup {NoBatch}] /\ points' \in [Docs -> SUBSET Batches]
    BY <2>1, DropType DEF Base, DropListed
  <2>2. CASE DeleteVectors(c)
    BY <2>2, <1>b, DropType DEF Base, DeleteVectors, TypeOK
  <2>3. CASE PutPoints(c)
    <3>1. req[c].batch \in Batches
      BY <2>3, <1>b, <1>u DEF PutPoints, At
    <3> QED
      BY <2>3, <3>1 DEF PutPoints, Base, TypeOK
  <2>4. CASE UpsertHash(c) \/ AppendKb(c) \/ ReplaceKb(c) \/ DeleteKb(c) \/ DeletePoints(c)
    BY <2>4, <1>b DEF UpsertHash, AppendKb, ReplaceKb, DeleteKb, DeletePoints, Base, TypeOK
  <2> QED
    BY <2>1, <2>2, <2>3, <2>4
       DEF Step, Fail, Guard, GuardRefuses, Stamp, ListVectors, DropDone, EnsureCollection,
           CreateCollection, CreateRefused, PutRefused, ClearMeta, WriteMeta, DeleteUnknown,
           Answer, Base, TypeOK
<1>4. dim' \in {NoDim} \cup {DimOf[m] : m \in Models}
  <2>1. CASE CreateCollection(c)
    BY <2>1, <1>b, <1>u DEF CreateCollection, At
  <2> QED
    BY <2>1
       DEF Step, Fail, Guard, GuardRefuses, Stamp, ListVectors, DropListed, DropDone,
           EnsureCollection, CreateRefused, DeletePoints, PutPoints, PutRefused, UpsertHash,
           AppendKb, ReplaceKb, ClearMeta, WriteMeta, DeleteKb, DeleteUnknown, DeleteVectors,
           Answer, Base, TypeOK
<1>5. meta' \in Models \cup {NoModel}
  <2>1. CASE Stamp(c) \/ WriteMeta(c)
    BY <2>1, <1>b, <1>u DEF Stamp, WriteMeta, At
  <2> QED
    BY <2>1
       DEF Step, Fail, Guard, GuardRefuses, ListVectors, DropListed, DropDone,
           EnsureCollection, CreateCollection, CreateRefused, DeletePoints, PutPoints, PutRefused,
           UpsertHash, AppendKb, ReplaceKb, ClearMeta, DeleteKb, DeleteUnknown, DeleteVectors,
           Answer, Base, TypeOK
<1>6. acked' \in [Docs -> Batches \cup {NoBatch, Unknown}]
  <2>1. CASE Answer(c)
    BY <2>1, <1>b DEF Answer, Promise, Base, TypeOK
  <2> QED
    BY <2>1
       DEF Step, Fail, Guard, GuardRefuses, Stamp, ListVectors, DropListed, DropDone,
           EnsureCollection, CreateCollection, CreateRefused, DeletePoints, PutPoints, PutRefused,
           UpsertHash, AppendKb, ReplaceKb, ClearMeta, WriteMeta, DeleteKb, DeleteUnknown,
           DeleteVectors, Base, TypeOK
<1>7. ready' \subseteq Processes
  <2>1. CASE ListVectors(c) \/ EnsureCollection(c) \/ CreateCollection(c) \/ DeleteVectors(c)
    BY <2>1, RememberType DEF ListVectors, EnsureCollection, CreateCollection, DeleteVectors, Base
  <2> QED
    BY <2>1
       DEF Step, Fail, Guard, GuardRefuses, Stamp, DropListed, DropDone, CreateRefused,
           DeletePoints, PutPoints, PutRefused, UpsertHash, AppendKb, ReplaceKb, ClearMeta,
           WriteMeta, DeleteKb, DeleteUnknown, Answer, Base, TypeOK
<1>8. alone' \subseteq Clients /\ crossed' \subseteq Docs
  <2>1. alone' \subseteq Clients
    BY <1>1 DEF Kept, Base, TypeOK
  <2>2. crossed' \subseteq crossed
    BY DEF Step, Fail, Guard, GuardRefuses, Stamp, ListVectors, DropListed, DropDone,
           EnsureCollection, CreateCollection, CreateRefused, DeletePoints, PutPoints, PutRefused,
           UpsertHash, AppendKb, ReplaceKb, Stored, ClearMeta, WriteMeta, DeleteKb, DeleteUnknown,
           DeleteVectors, Answer
  <2> QED
    BY <2>1, <2>2 DEF Base, TypeOK
<1> QED
  BY <1>1, <1>2, <1>3, <1>4, <1>5, <1>6, <1>7, <1>8 DEF Base, TypeOK, Kept

\* A request that arrives is at the first phase of its kind.
LEMMA BeginKept ==
    ASSUME Base, NEW c \in Clients, NEW call \in Call, Begin(c, call)
    PROVE  /\ Base'
           /\ \A x \in Clients : x # c => req'[x] = req[x]
           /\ req'[c].kind = call.kind /\ req'[c].doc = call.doc /\ req'[c].batch = call.batch
           /\ req'[c].at = FirstStep[call.kind] /\ req'[c] # Idle /\ req[c] = Idle
           /\ ~Rewriting(req'[c])
<1> DEFINE r == Fresh(call)
<1>1. /\ r \in ReqType
      /\ r.kind = call.kind /\ r.doc = call.doc /\ r.batch = call.batch
      /\ r.at = FirstStep[call.kind] /\ r.todo = {} /\ ~r.missed /\ ~Rewriting(r)
  BY StartFacts
<1>4. req' = [req EXCEPT ![c] = r] /\ req \in [Clients -> ReqType]
  BY DEF Begin, Base, TypeOK
<1> HIDE DEF r
<1>2. call.kind \in {"append", "replace", "delete"} /\ FirstStep[call.kind] \in PhasesOf[call.kind]
  BY CallFacts DEF FirstStep, PhasesOf
<1>3. Shaped(r) /\ r # Idle
  BY <1>1, <1>2, CallFacts DEF Shaped, Idle
<1>5. req' \in [Clients -> ReqType] /\ \A x \in Clients : Shaped(req'[x])
  BY <1>1, <1>3, <1>4 DEF Base
<1>6. acked' \in [Docs -> Batches \cup {NoBatch, Unknown}]
  BY DEF Begin, Base, TypeOK
<1>7. alone' \subseteq Clients /\ crossed' \subseteq Docs
  <2>1. \A o \in Rivals(c, Fresh(call)) : o \in Clients /\ req[o].doc \in Docs
    BY PhaseFacts DEF Rivals, Base, TypeOK, Shaped, Call
  <2>2. \A o \in Rivals(c, Fresh(call)) : Mixed(req[o], Fresh(call)) \subseteq Docs
    BY <2>1, StartFacts, CallFacts DEF Mixed
  <2> QED
    BY <2>1, <2>2 DEF Begin, Base, TypeOK
<1>8. Base'
  BY <1>5, <1>6, <1>7 DEF Begin, Base, TypeOK
<1> QED
  BY <1>1, <1>3, <1>4, <1>8 DEF Begin

\* A rewrite keeps its request the same call, on the way to its next phase.
Carried(c) ==
    /\ \A x \in Clients : x # c => req'[x] = req[x]
    /\ req'[c].kind = req[c].kind /\ req'[c].doc = req[c].doc
    /\ req'[c].batch = req[c].batch /\ req'[c] # Idle /\ req[c] # Idle

Moved(c, at, todo, copy) ==
    /\ req' = [req EXCEPT ![c] = [req[c] EXCEPT !.at = at, !.todo = todo, !.copy = copy]]
    /\ todo \subseteq req[c].todo /\ copy \in [Docs -> Batches \cup {NoBatch}]
    /\ <<req[c].at, at>> \in
            {<<"drop", "drop_rewrite">>, <<"drop_rewrite", "drop">>,
             <<"kb_delete", "kb_rewrite">>, <<"kb_rewrite", "vec_delete">>,
             <<"vec_delete", "vec_rewrite">>, <<"vec_rewrite", "answer">>}

LEMMA CarryKept ==
    ASSUME Base, NEW c \in Clients, NEW at, NEW todo, NEW copy, Moved(c, at, todo, copy)
    PROVE  /\ Carried(c)
           /\ req' \in [Clients -> ReqType] /\ \A x \in Clients : Shaped(req'[x])
           /\ req'[c].at = at /\ req'[c].todo = todo /\ req'[c].copy = copy
<1>r. /\ req \in [Clients -> ReqType] /\ req[c] \in ReqType
      /\ \A x \in Clients : Shaped(req[x])
  BY DEF Base, TypeOK
<1>p. <<req[c].at, at>> \in
          {<<"drop", "drop_rewrite">>, <<"drop_rewrite", "drop">>,
           <<"kb_delete", "kb_rewrite">>, <<"kb_rewrite", "vec_delete">>,
           <<"vec_delete", "vec_rewrite">>, <<"vec_rewrite", "answer">>}
  BY DEF Moved
<1>m. /\ at \in Phases /\ todo \subseteq Docs /\ copy \in [Docs -> Batches \cup {NoBatch}]
      /\ todo \subseteq req[c].todo
      /\ req' = [req EXCEPT ![c] = [req[c] EXCEPT !.at = at, !.todo = todo, !.copy = copy]]
  <2>1. at \in Phases
    BY <1>p DEF Phases
  <2>2. req[c].todo \subseteq Docs
    BY <1>r DEF ReqType
  <2> QED
    BY <2>1, <2>2 DEF Moved
<1>1. /\ req'[c] = [req[c] EXCEPT !.at = at, !.todo = todo, !.copy = copy]
      /\ \A x \in Clients : x # c => req'[x] = req[x]
  BY <1>r, <1>m
<1>2. /\ req'[c] \in ReqType
      /\ req'[c].kind = req[c].kind /\ req'[c].doc = req[c].doc
      /\ req'[c].batch = req[c].batch /\ req'[c].missed = req[c].missed
      /\ req'[c].at = at /\ req'[c].todo = todo /\ req'[c].copy = copy
  BY <1>r, <1>m, <1>1 DEF ReqType
<1>3. req[c] # Idle
  BY <1>p DEF Idle
<1>4. Shaped(req'[c]) /\ req'[c] # Idle
  <2>1. /\ req[c].at \in {"drop", "drop_rewrite"} => req[c].kind = "replace"
        /\ req[c].at \notin {"drop", "drop_rewrite"} => req[c].kind = "delete" /\ req[c].todo = {}
        /\ req[c].missed => ~SharedHash
    BY <1>r, <1>p, PhaseFacts
  <2>2. at \in PhasesOf[req[c].kind] \cup RewritesOf[req[c].kind]
    BY <1>p, <2>1 DEF PhasesOf, RewritesOf
  <2>3. todo # {} => at \in {"drop", "drop_rewrite"}
    BY <1>p, <1>m, <2>1
  <2> PICK r \in ReqType : r = req[c]
    BY <1>r
  <2> PICK m \in ReqType : m = req'[c]
    BY <1>2
  <2>4. /\ m.kind = r.kind /\ m.doc = r.doc /\ m.batch = r.batch
        /\ m.at \in PhasesOf[r.kind] \cup RewritesOf[r.kind]
        /\ m.todo # {} => m.at \in {"drop", "drop_rewrite"}
        /\ m.missed => ~SharedHash
    BY <1>2, <2>1, <2>2, <2>3
  <2>5. Shaped(r) /\ r # Idle
    BY <1>r, <1>3
  <2> QED
    BY <2>4, <2>5, MoveShape
<1>5. req' \in [Clients -> ReqType] /\ \A x \in Clients : x # c => req'[x] = req[x]
  BY <1>r, <1>m, <1>1, <1>2
<1> QED
  BY <1>r, <1>2, <1>3, <1>4, <1>5 DEF Carried

LEMMA CopyKept ==
    ASSUME Base, NEW c \in Clients, NEW d \in Docs, CopyKb(c, d)
    PROVE  /\ Base' /\ Carried(c) /\ (d = req[c].doc \/ req[c].kind = "replace")
           /\ <<req[c].at, req'[c].at>> \in {<<"drop", "drop_rewrite">>,
                  <<"kb_delete", "kb_rewrite">>, <<"vec_delete", "vec_rewrite">>}
           /\ req[c].at = "drop" => d \in req[c].todo
           /\ req'[c].todo = req[c].todo \ {d} /\ req'[c].copy = [kb EXCEPT ![d] = NoBatch]
<1>r. /\ req \in [Clients -> ReqType] /\ req[c] \in ReqType /\ Shaped(req[c])
      /\ kb \in [Docs -> Batches \cup {NoBatch}]
  BY DEF Base, TypeOK
<1>1. /\ req[c].at \in {"drop", "kb_delete", "vec_delete"}
      /\ IF req[c].at = "drop" THEN d \in req[c].todo ELSE d = req[c].doc
      /\ req' = [req EXCEPT ![c] = [req[c] EXCEPT !.at = Rewritten[req[c].at],
                     !.todo = req[c].todo \ {d}, !.copy = [kb EXCEPT ![d] = NoBatch]]]
  BY DEF CopyKb, At
<1> DEFINE at == Rewritten[req[c].at]
           todo == req[c].todo \ {d}
           copy == [kb EXCEPT ![d] = NoBatch]
<1>2. /\ <<req[c].at, at>> \in {<<"drop", "drop_rewrite">>,
                  <<"kb_delete", "kb_rewrite">>, <<"vec_delete", "vec_rewrite">>}
      /\ at \in Phases
  BY <1>1 DEF Rewritten, Phases
<1>3. todo \in SUBSET Docs /\ todo \subseteq req[c].todo
  BY <1>r DEF ReqType
<1>4. copy \in [Docs -> Batches \cup {NoBatch}]
  BY <1>r
<1>5. Moved(c, at, todo, copy)
  BY <1>1, <1>2, <1>3, <1>4 DEF Moved, at, todo, copy
<1> HIDE DEF at, todo, copy
<1>6. /\ Carried(c)
      /\ req' \in [Clients -> ReqType] /\ \A x \in Clients : Shaped(req'[x])
      /\ req'[c].at = at /\ req'[c].todo = todo /\ req'[c].copy = copy
  BY <1>5, CarryKept
<1>7. alone' \subseteq Clients /\ crossed' \subseteq Docs
  BY DEF CopyKb, Base, TypeOK
<1>8. Base'
  BY <1>6, <1>7 DEF CopyKb, Base, TypeOK
<1>9. d = req[c].doc \/ req[c].kind = "replace"
  BY <1>r, <1>1, PhaseFacts
<1> QED
  BY <1>1, <1>2, <1>6, <1>8, <1>9 DEF at, todo, copy

LEMMA WriteBackKept ==
    ASSUME Base, NEW c \in Clients, RewriteKb(c)
    PROVE  /\ Base' /\ Carried(c)
           /\ <<req[c].at, req'[c].at>> \in {<<"drop_rewrite", "drop">>,
                  <<"kb_rewrite", "vec_delete">>, <<"vec_rewrite", "answer">>}
           /\ req'[c].todo = req[c].todo
<1>r. /\ req \in [Clients -> ReqType] /\ req[c] \in ReqType
      /\ req[c].copy \in [Docs -> Batches \cup {NoBatch}]
      /\ NothingStored \in [Docs -> Batches \cup {NoBatch}]
  BY DEF Base, TypeOK, ReqType, NothingStored
<1>1. /\ req[c].at \in {"drop_rewrite", "kb_rewrite", "vec_rewrite"}
      /\ req' = [req EXCEPT ![c] = [req[c] EXCEPT !.at = AfterRewrite[req[c].at],
                                                  !.copy = NothingStored]]
  BY DEF RewriteKb, Rewriting
<1>2. /\ <<req[c].at, AfterRewrite[req[c].at]>> \in {<<"drop_rewrite", "drop">>,
                  <<"kb_rewrite", "vec_delete">>, <<"vec_rewrite", "answer">>}
      /\ AfterRewrite[req[c].at] \in Phases
  BY <1>1 DEF AfterRewrite, Phases
<1> PICK at \in Phases, todo \in SUBSET Docs, copy \in [Docs -> Batches \cup {NoBatch}] :
        at = AfterRewrite[req[c].at] /\ todo = req[c].todo /\ copy = NothingStored
  BY <1>r, <1>2 DEF ReqType
<1>3. [req[c] EXCEPT !.at = at, !.copy = copy]
          = [req[c] EXCEPT !.at = at, !.todo = todo, !.copy = copy]
  BY <1>r DEF ReqType
<1>4. Moved(c, at, todo, copy)
  BY <1>1, <1>2, <1>3 DEF Moved
<1>6. /\ Carried(c)
      /\ req' \in [Clients -> ReqType] /\ \A x \in Clients : Shaped(req'[x])
      /\ req'[c].at = at /\ req'[c].todo = todo
  BY <1>4, CarryKept
<1>7. Base'
  BY <1>r, <1>6 DEF RewriteKb, Base, TypeOK
<1> QED
  BY <1>2, <1>6, <1>7

LEMMA BaseInit == Init => Base
<1>1. NothingStored \in [Docs -> Batches \cup {NoBatch}]
  BY DEF NothingStored
<1> QED
  BY <1>1, IdleType DEF Init, Base, TypeOK, Shaped

LEMMA BaseStep == Base /\ [Next]_vars => Base'
<1> SUFFICES ASSUME Base, [Next]_vars PROVE Base'
  OBVIOUS
<1>1. CASE UNCHANGED vars
  BY <1>1 DEF vars, Base, TypeOK
<1>2. ASSUME NEW c \in Clients, NEW call \in Call, Begin(c, call)
      PROVE  Base'
  BY <1>2, BeginKept
<1>3. ASSUME NEW c \in Clients, Step(c) \/ Fail(c)
      PROVE  Base'
  BY <1>3, StepTypes
<1>4. ASSUME NEW c \in Clients, Rewrite(c)
      PROVE  Base'
  BY <1>4, CopyKept, WriteBackKept DEF Rewrite
<1> QED
  BY <1>1, <1>2, <1>3, <1>4, CrashKept DEF Next

\* Every variable keeps its type, whatever requests overlap and whatever fails:
\* a store is only ever given a batch by a request that has one.
THEOREM TypeCorrect == Spec => []TypeOK
<1>1. Spec => []Base
  BY BaseInit, BaseStep, PTL DEF Spec
<1>2. Base => TypeOK
  BY DEF Base
<1> QED
  BY <1>1, <1>2, PTL


-----------------------------------------------------------------------------
\* What a step of a request leaves alone: a request other than a replacement
\* touches its own document only, meta changes only by an append's stamp or a
\* replacement, a promise is made only by an answer, and only a request that is
\* alone settles what rivals left.
LEMMA StepLocal ==
    ASSUME Base, NEW c \in Clients, Step(c) \/ Fail(c)
    PROVE  /\ req[c].kind # "replace" =>
                  \A d \in Docs : d # req[c].doc => kb'[d] = kb[d] /\ points'[d] = points[d]
           /\ \/ meta' = meta
              \/ req[c].kind = "replace"
              \/ At(c, "stamp") /\ req[c].kind = "append" /\ meta' = ModelOf[req[c].batch]
           /\ acked' = acked \/ (Answer(c) /\ c \in alone)
           /\ crossed' = crossed \/ (/\ AppendKb(c) \/ ReplaceKb(c)
                                    /\ c \in alone /\ crossed' = crossed \ {req[c].doc})
<1>r. req[c] \in ReqType /\ Shaped(req[c])
  BY DEF Base, TypeOK
<1>1. req[c].kind # "replace" =>
          \A d \in Docs : d # req[c].doc => kb'[d] = kb[d] /\ points'[d] = points[d]
  <2>1. ASSUME NEW d \in Docs, DropListed(c, d)
        PROVE  req[c].kind = "replace"
    BY <1>r, <2>1, PhaseFacts DEF DropListed, At
  <2>2. CASE DeleteVectors(c)
    BY <2>2 DEF DeleteVectors, DropVectors, Base, TypeOK
  <2>3. CASE PutPoints(c) \/ UpsertHash(c) \/ AppendKb(c) \/ ReplaceKb(c) \/ DeleteKb(c)
             \/ DeletePoints(c)
    BY <2>3 DEF PutPoints, UpsertHash, AppendKb, ReplaceKb, DeleteKb, DeletePoints, Base, TypeOK
  <2> QED
    BY <2>1, <2>2, <2>3
       DEF Step, Fail, Guard, GuardRefuses, Stamp, ListVectors, DropDone, EnsureCollection,
           CreateCollection, CreateRefused, PutRefused, ClearMeta, WriteMeta, DeleteUnknown, Answer
<1>2. \/ meta' = meta
      \/ req[c].kind = "replace"
      \/ At(c, "stamp") /\ req[c].kind = "append" /\ meta' = ModelOf[req[c].batch]
  <2>1. CASE Stamp(c)
    BY <1>r, <2>1, PhaseFacts DEF Stamp, At
  <2>2. CASE ClearMeta(c) \/ WriteMeta(c)
    BY <1>r, <2>2, PhaseFacts DEF ClearMeta, WriteMeta, At
  <2> QED
    BY <2>1, <2>2
       DEF Step, Fail, Guard, GuardRefuses, ListVectors, DropListed, DropDone,
           EnsureCollection, CreateCollection, CreateRefused, DeletePoints, PutPoints, PutRefused,
           UpsertHash, AppendKb, ReplaceKb, DeleteKb, DeleteUnknown, DeleteVectors, Answer
<1>3. acked' = acked \/ (Answer(c) /\ c \in alone)
  <2>1. Answer(c) => acked' = acked \/ c \in alone
    BY DEF Answer
  <2> QED
  BY <2>1 DEF Step, Fail, Guard, GuardRefuses, Stamp, ListVectors, DropListed, DropDone,
         EnsureCollection, CreateCollection, CreateRefused, DeletePoints, PutPoints, PutRefused,
         UpsertHash, AppendKb, ReplaceKb, ClearMeta, WriteMeta, DeleteKb, DeleteUnknown,
         DeleteVectors
<1>4. crossed' = crossed \/ (/\ AppendKb(c) \/ ReplaceKb(c)
                             /\ c \in alone /\ crossed' = crossed \ {req[c].doc})
  BY DEF Step, Fail, Guard, GuardRefuses, Stamp, ListVectors, DropListed, DropDone,
         EnsureCollection, CreateCollection, CreateRefused, DeletePoints, PutPoints, PutRefused,
         UpsertHash, AppendKb, ReplaceKb, Stored, ClearMeta, WriteMeta, DeleteKb, DeleteUnknown,
         DeleteVectors, Answer
<1> QED
  BY <1>1, <1>2, <1>3, <1>4

\* The parts of the invariant that speak of all requests.
EachRequest ==
    \A c \in Clients : /\ Unpromised(req[c]) /\ Counted(c)
                       /\ c \in alone => WorkDone(req[c])

CopiesAreTrue == \A c \in Clients : CopyIsTrue(c)

\* Two requests in flight, one of them alone, are about different documents,
\* neither replaces the KB or is about to rewrite it, and if both are appends
\* one model embedded both.
LEMMA AloneFacts ==
    ASSUME Base, NEW c \in Clients, NEW x \in Clients, x # c, Counted(c), Counted(x),
           req[c] # Idle, req[x] # Idle, c \in alone \/ x \in alone
    PROVE  /\ req[c].kind \in {"append", "delete"} /\ req[x].kind \in {"append", "delete"}
           /\ req[c].doc # req[x].doc
           /\ ~Rewriting(req[c]) /\ ~Rewriting(req[x])
           /\ req[c].kind = "append" /\ req[x].kind = "append" =>
                  ModelOf[req[c].batch] = ModelOf[req[x].batch]
<1>1. ~Conflict(req[c], req[x]) \/ ~Conflict(req[x], req[c])
  BY DEF Counted
<1>2. /\ req[c] \in ReqType /\ Shaped(req[c]) /\ req[x] \in ReqType /\ Shaped(req[x])
  BY DEF Base, TypeOK
<1>3. /\ req[c].kind \in {"append", "replace", "delete"}
      /\ req[x].kind \in {"append", "replace", "delete"}
  BY <1>2, CallFacts DEF Shaped
<1> QED
  BY <1>1, <1>3 DEF Conflict

\* What a request that is alone has done is not undone by a step of another one.
LEMMA FrameWork ==
    ASSUME Base, EachRequest, NEW c \in Clients, Step(c) \/ Fail(c),
           NEW x \in Clients, x # c, x \in alone
    PROVE  WorkDone(req[x])'
<1>1. req'[x] = req[x] /\ req[c] # Idle /\ WorkDone(req[x]) /\ Counted(c) /\ Counted(x)
  BY StepKept DEF Kept, EachRequest
<1>2. req[x] # Idle
  BY <1>1 DEF Counted
<1>3. /\ req[c].kind \in {"append", "delete"} /\ req[x].kind \in {"append", "delete"}
      /\ req[c].doc # req[x].doc
      /\ req[c].kind = "append" /\ req[x].kind = "append" =>
             ModelOf[req[c].batch] = ModelOf[req[x].batch]
  BY <1>1, <1>2, AloneFacts
<1>4. req[x].doc \in Docs
  <2>1. req[x] \in ReqType /\ Shaped(req[x])
    BY DEF Base, TypeOK
  <2> QED
    BY <1>2, <2>1, CallFacts DEF Shaped
<1>5. kb'[req[x].doc] = kb[req[x].doc] /\ points'[req[x].doc] = points[req[x].doc]
  BY <1>3, <1>4, StepLocal
<1>6. Searchable(req[x].doc)' = Searchable(req[x].doc)
  BY <1>1, <1>5 DEF Searchable
<1>7. req[x].kind = "append" => meta' = meta \/ meta' = ModelOf[req[x].batch]
  BY <1>3, StepLocal
<1>8. CASE req[x].kind = "append"
  <2>1. AppendDone(req[x])
    BY <1>1, <1>8 DEF WorkDone
  <2>2. AppendDone(req[x])'
    BY <1>1, <1>5, <1>6, <1>7, <1>8, <2>1 DEF AppendDone
  <2> QED
    BY <1>1, <1>8, <2>2 DEF WorkDone
<1>9. CASE req[x].kind = "delete"
  <2>1. DeleteDone(req[x])
    BY <1>1, <1>9 DEF WorkDone
  <2>2. DeleteDone(req[x])'
    BY <1>1, <1>5, <1>6, <2>1 DEF DeleteDone
  <2> QED
    BY <1>1, <1>9, <2>2 DEF WorkDone
<1> QED
  BY <1>3, <1>8, <1>9

LEMMA GoToFacts ==
    ASSUME Base, NEW c \in Clients, NEW phase, GoTo(c, phase)
    PROVE  /\ req'[c].at = phase
           /\ req'[c].kind = req[c].kind /\ req'[c].doc = req[c].doc
           /\ req'[c].batch = req[c].batch /\ req'[c].todo = req[c].todo
           /\ req'[c].missed = req[c].missed
BY DEF Base, TypeOK, GoTo, ReqType

LEMMA LookFacts ==
    ASSUME Base, NEW c \in Clients
    PROVE  /\ ListVectors(c) => req'[c].at = "drop"
           /\ DeleteVectors(c) => req'[c].at = "answer"
<1>1. req \in [Clients -> ReqType]
  BY DEF Base, TypeOK
<1>2. ASSUME ListVectors(c) PROVE req'[c].at = "drop"
  <2>1. PICK found \in BOOLEAN :
            req' = [req EXCEPT ![c].at = "drop",
                               ![c].todo = {d \in Docs : found /\ Searchable(d) # {}},
                               ![c].missed = ~found /\ dim # NoDim]
    BY <1>2 DEF ListVectors
  <2> QED
    BY <1>1, <2>1 DEF ReqType
<1>3. ASSUME DeleteVectors(c) PROVE req'[c].at = "answer"
  <2>1. PICK found \in BOOLEAN :
            req' = [req EXCEPT ![c].at = "answer", ![c].missed = ~found /\ dim # NoDim]
    BY <1>3 DEF DeleteVectors
  <2> QED
    BY <1>1, <2>1 DEF ReqType
<1> QED
  BY <1>2, <1>3

\* Each step of a request finds done what the steps before it did, and leaves
\* done what the next one finds.
LEMMA OwnAppend ==
    ASSUME Base, NEW c \in Clients, Step(c), req[c].kind = "append", AppendDone(req[c]),
           req'[c] # Idle
    PROVE  AppendDone(req[c])'
<1>r. req[c] \in ReqType /\ Shaped(req[c])
  BY DEF Base, TypeOK
<1>i. Idle.at = "idle"
  BY DEF Idle
<1>f. /\ req[c].doc \in Docs /\ req[c].batch \in Batches /\ req[c].batch # NoBatch
      /\ req[c].at \in {"guard", "stamp", "kb", "answer"} \cup Upsert
      /\ req[c].at \in {"ensure", "create", "unpoint", "point"} => ~SharedHash
      /\ req[c].at = "hash" => SharedHash
  <2>1. req[c].at # "idle"
    BY <1>r, PhaseFacts DEF Idle
  <2> QED
    BY <1>r, <2>1, PhaseFacts, IngestAssumption DEF IngestAssumption, PhasesOf, RewritesOf
<1>e. End(c) => FALSE
  BY EndKept
<1>1. CASE Guard(c) \/ Stamp(c)
  BY <1>1, <1>f, GoToFacts DEF Guard, Stamp, At, UpsertStep, AppendDone
<1>2. CASE EnsureCollection(c) \/ CreateCollection(c)
  <2>1. /\ req'[c].at \in {"create", "unpoint"} /\ req'[c].batch = req[c].batch
        /\ meta' = meta /\ req[c].at \in {"ensure", "create"}
    BY <1>2, GoToFacts DEF EnsureCollection, CreateCollection, At
  <2> QED
    BY <2>1 DEF AppendDone
<1>3. CASE DeletePoints(c)
  BY <1>3, <1>f, GoToFacts DEF DeletePoints, At, AppendDone, Base, TypeOK
<1>4. CASE PutPoints(c)
  <2>1. points[req[c].doc] = {}
    BY <1>4 DEF PutPoints, At, AppendDone
  <2>2. points'[req[c].doc] = {req[c].batch}
    BY <1>4, <1>f, <2>1 DEF PutPoints, Base, TypeOK
  <2> QED
    BY <1>4, <1>f, <2>2, GoToFacts DEF PutPoints, At, AppendDone
<1>5. CASE UpsertHash(c)
  BY <1>5, <1>f, GoToFacts DEF UpsertHash, At, AppendDone
<1>6. CASE AppendKb(c)
  <2>1. kb'[req[c].doc] = req[c].batch /\ points' = points
    BY <1>6, <1>f DEF AppendKb, Base, TypeOK
  <2>2. Searchable(req[c].doc)' = {req[c].batch}
    BY <1>6, <1>f, <2>1, GoToFacts DEF AppendKb, At, AppendDone, Searchable
  <2> QED
    BY <1>6, <2>1, <2>2, GoToFacts DEF AppendKb, At, AppendDone
<1>7. CASE \/ ListVectors(c) \/ (\E d \in Docs : DropListed(c, d)) \/ DropDone(c)
           \/ ReplaceKb(c) \/ ClearMeta(c) \/ WriteMeta(c) \/ DeleteKb(c) \/ DeleteVectors(c)
  BY <1>7, <1>f DEF ListVectors, DropListed, DropDone, ReplaceKb, ClearMeta, WriteMeta,
                    DeleteKb, DeleteVectors, At, Upsert
<1>8. CASE GuardRefuses(c) \/ CreateRefused(c) \/ PutRefused(c) \/ DeleteUnknown(c) \/ Answer(c)
  BY <1>8, <1>e DEF GuardRefuses, CreateRefused, PutRefused, DeleteUnknown, Answer
<1> QED
  BY <1>1, <1>2, <1>3, <1>4, <1>5, <1>6, <1>7, <1>8 DEF Step

LEMMA OwnReplace ==
    ASSUME Base, Collected, NEW c \in Clients, Step(c), req[c].kind = "replace",
           ReplaceDone(req[c]), req'[c] # Idle
    PROVE  ReplaceDone(req[c])'
<1>r. req[c] \in ReqType /\ Shaped(req[c])
  BY DEF Base, TypeOK
<1>f. /\ req[c].doc \in Docs /\ req[c].batch \in Batches /\ req[c].batch # NoBatch
      /\ req[c].at \in {"list", "drop", "drop_rewrite", "kb", "meta_clear", "meta_write", "answer"}
                          \cup Upsert
      /\ req[c].at \in {"ensure", "create", "unpoint", "point"} => ~SharedHash
      /\ req[c].at = "hash" => SharedHash
      /\ req[c].missed => ~SharedHash
  <2>1. req[c].at # "idle"
    BY <1>r, PhaseFacts DEF Idle
  <2> QED
    BY <1>r, <2>1, PhaseFacts, IngestAssumption DEF IngestAssumption, PhasesOf, RewritesOf
<1>e. End(c) => FALSE
  BY EndKept
<1>1. CASE ListVectors(c)
  <2>1. PICK found \in BOOLEAN :
            /\ CollectionExists(ProcessOf[c] \in ready, found)
            /\ req' = [req EXCEPT ![c].at = "drop",
                                  ![c].todo = {d \in Docs : found /\ Searchable(d) # {}},
                                  ![c].missed = ~found /\ dim # NoDim]
    BY <1>1 DEF ListVectors
  <2>2. /\ req'[c].at = "drop" /\ req'[c].todo = {d \in Docs : found /\ Searchable(d) # {}}
        /\ req'[c].doc = req[c].doc /\ req'[c].missed = (~found /\ dim # NoDim)
    BY <2>1 DEF Base, TypeOK, ReqType
  <2>3. \A d \in Docs : Searchable(d)' = Searchable(d)
    BY <1>1 DEF ListVectors, Searchable
  <2>4. ASSUME ~req'[c].missed, NEW d \in Docs, Searchable(d) # {}
        PROVE  d \in req'[c].todo
    <3>1. CASE found
      BY <2>2, <2>4, <3>1
    <3>2. CASE ~found
      <4>1. dim = NoDim /\ ~SharedHash
        BY <2>1, <2>2, <2>4, <3>2 DEF CollectionExists
      <4> QED
        BY <2>4, <4>1 DEF Collected, Searchable
    <3> QED
      BY <3>1, <3>2
  <2> QED
    BY <2>2, <2>3, <2>4 DEF ReplaceDone, Upsert
<1>2. ASSUME NEW d \in Docs, DropListed(c, d)
      PROVE  ReplaceDone(req[c])'
  <2>1. /\ req'[c].at = "drop" /\ req'[c].todo = req[c].todo \ {d}
        /\ req'[c].missed = req[c].missed
    BY <1>2 DEF DropListed, At, Base, TypeOK, ReqType
  <2>2. Searchable(d)' = {} /\ \A e \in Docs : e # d => Searchable(e)' = Searchable(e)
    BY <1>2 DEF DropListed, DropVectors, Searchable, Base, TypeOK
  <2>3. ~req[c].missed => \A e \in Docs : Searchable(e)' # {} => e \in req[c].todo \ {d}
    BY <1>2, <2>2 DEF ReplaceDone, DropListed, At
  <2> QED
    BY <2>1, <2>3 DEF ReplaceDone, Upsert
<1>3. CASE DropDone(c)
  <2>1. ~req[c].missed => \A d \in Docs : Searchable(d)' = {}
    BY <1>3 DEF DropDone, At, ReplaceDone, Searchable
  <2>2. req'[c].at \in {"ensure", "hash"} /\ req'[c].missed = req[c].missed
    BY <1>3, GoToFacts DEF DropDone, UpsertStep
  <2> QED
    BY <2>1, <2>2 DEF ReplaceDone
<1>4. CASE EnsureCollection(c) \/ CreateCollection(c)
  <2>1. /\ req[c].at \in Upsert /\ req'[c].at \in {"create", "unpoint"}
        /\ req'[c].missed = req[c].missed
    BY <1>4, <1>f, GoToFacts DEF EnsureCollection, CreateCollection, At, Upsert
  <2>2. ~req[c].missed => \A d \in Docs : Searchable(d)' = {}
    BY <1>4, <2>1 DEF EnsureCollection, CreateCollection, ReplaceDone, Searchable
  <2> QED
    BY <2>1, <2>2 DEF ReplaceDone
<1>5. CASE DeletePoints(c)
  <2>1. /\ ~SharedHash /\ req[c].at \in Upsert
        /\ req'[c].at = "point" /\ req'[c].missed = req[c].missed /\ req'[c].doc = req[c].doc
    BY <1>5, <1>f, GoToFacts DEF DeletePoints, At, Upsert
  <2>2. points'[req[c].doc] = {} /\ \A d \in Docs : points'[d] \subseteq points[d]
    BY <1>5, <1>f DEF DeletePoints, Base, TypeOK
  <2>3. ~req[c].missed => \A d \in Docs : Searchable(d)' = {}
    BY <2>1, <2>2 DEF ReplaceDone, Searchable
  <2> QED
    BY <2>1, <2>2, <2>3 DEF ReplaceDone
<1>6. CASE PutPoints(c)
  <2>1. ~SharedHash /\ req[c].at = "point" /\ req[c].at \in Upsert
    BY <1>6, <1>f DEF PutPoints, At, Upsert
  <2>2. /\ points[req[c].doc] = {}
        /\ ~req[c].missed => \A d \in Docs : points[d] = {}
    BY <2>1 DEF ReplaceDone, Searchable
  <2>3. /\ points'[req[c].doc] = {req[c].batch}
        /\ \A d \in Docs \ {req[c].doc} : points'[d] = points[d]
    BY <1>6, <1>f, <2>2 DEF PutPoints, Base, TypeOK
  <2>4. /\ req'[c].at = "kb" /\ req'[c].missed = req[c].missed /\ req'[c].doc = req[c].doc
        /\ req'[c].batch = req[c].batch
    BY <1>6, GoToFacts DEF PutPoints
  <2> QED
    BY <2>2, <2>3, <2>4 DEF ReplaceDone, Upsert
<1>7. CASE UpsertHash(c)
  BY <1>7, <1>f, GoToFacts DEF UpsertHash, At, ReplaceDone, Upsert
<1>8. CASE ReplaceKb(c)
  <2>1. \A d \in Docs : kb'[d] = IF d = req[c].doc THEN req[c].batch ELSE NoBatch
    BY <1>8 DEF ReplaceKb
  <2>2. /\ Searchable(req[c].doc)' = {req[c].batch}
        /\ ~req[c].missed => \A d \in Docs \ {req[c].doc} : Searchable(d)' = {}
    BY <1>8, <1>f, <2>1, GoToFacts DEF ReplaceKb, At, ReplaceDone, Searchable
  <2>3. /\ req'[c].at = "meta_clear" /\ req'[c].missed = req[c].missed /\ req'[c].doc = req[c].doc
        /\ req'[c].batch = req[c].batch
    BY <1>8, GoToFacts DEF ReplaceKb
  <2> QED
    BY <2>1, <2>2, <2>3 DEF ReplaceDone, Upsert, Searchable
<1>9. CASE ClearMeta(c) \/ WriteMeta(c)
  <2>1. \A d \in Docs : kb'[d] = kb[d] /\ Searchable(d)' = Searchable(d)
    BY <1>9 DEF ClearMeta, WriteMeta, Searchable
  <2>2. /\ req'[c].at \in {"meta_write", "answer"} /\ req'[c].missed = req[c].missed
        /\ req'[c].doc = req[c].doc /\ req'[c].batch = req[c].batch
        /\ req'[c].at = "answer" => meta' = ModelOf[req[c].batch]
    BY <1>9, GoToFacts DEF ClearMeta, WriteMeta
  <2>3. Searchable(req[c].doc)' = Searchable(req[c].doc)
    BY <1>f, <2>1, <2>2 DEF Searchable
  <2> QED
    BY <1>9, <1>f, <2>1, <2>2, <2>3 DEF ClearMeta, WriteMeta, At, ReplaceDone, Upsert
<1>10. CASE Guard(c) \/ Stamp(c) \/ AppendKb(c) \/ DeleteKb(c) \/ DeleteVectors(c)
  BY <1>10, <1>f DEF Guard, Stamp, AppendKb, DeleteKb, DeleteVectors, At, Upsert
<1>11. CASE GuardRefuses(c) \/ CreateRefused(c) \/ PutRefused(c) \/ DeleteUnknown(c) \/ Answer(c)
  BY <1>11, <1>e DEF GuardRefuses, CreateRefused, PutRefused, DeleteUnknown, Answer
<1> QED
  BY <1>1, <1>2, <1>3, <1>4, <1>5, <1>6, <1>7, <1>8, <1>9, <1>10, <1>11 DEF Step

LEMMA OwnDelete ==
    ASSUME Base, Collected, NEW c \in Clients, Step(c), req[c].kind = "delete",
           DeleteDone(req[c]), req'[c] # Idle
    PROVE  DeleteDone(req[c])'
<1>r. req[c] \in ReqType /\ Shaped(req[c])
  BY DEF Base, TypeOK
<1>f. /\ req[c].doc \in Docs
      /\ req[c].at \in {"kb_delete", "kb_rewrite", "vec_delete", "vec_rewrite", "answer"}
  <2>1. req[c].at # "idle"
    BY <1>r, PhaseFacts DEF Idle
  <2> QED
    BY <1>r, <2>1, PhaseFacts DEF PhasesOf, RewritesOf
<1>e. End(c) => FALSE
  BY EndKept
<1>1. CASE DeleteKb(c)
  BY <1>1, <1>f, GoToFacts DEF DeleteKb, DeleteDone, Base, TypeOK
<1>2. CASE DeleteVectors(c)
  <2>1. kb[req[c].doc] = NoBatch
    BY <1>2 DEF DeleteVectors, At, DeleteDone
  <2>2. PICK found \in BOOLEAN :
            /\ CollectionExists(ProcessOf[c] \in ready, found)
            /\ IF found THEN DropVectors(req[c].doc) ELSE UNCHANGED <<kb, points>>
            /\ req' = [req EXCEPT ![c].at = "answer", ![c].missed = ~found /\ dim # NoDim]
    BY <1>2 DEF DeleteVectors
  <2>3. req'[c].doc = req[c].doc /\ req'[c].missed = (~found /\ dim # NoDim)
    BY <2>2 DEF Base, TypeOK, ReqType
  <2>4. kb'[req[c].doc] = NoBatch
    BY <1>f, <2>1, <2>2 DEF DropVectors, Base, TypeOK
  <2>5. ASSUME ~req'[c].missed
        PROVE  \A d \in Docs : d = req[c].doc => Searchable(d)' = {}
    <3>1. CASE found
      BY <1>f, <2>1, <2>2, <3>1 DEF DropVectors, Searchable, Base, TypeOK
    <3>2. CASE ~found
      <4>1. dim = NoDim /\ ~SharedHash /\ points' = points
        BY <2>2, <2>3, <2>5, <3>2 DEF CollectionExists
      <4> QED
        BY <4>1 DEF Collected, Searchable
    <3> QED
      BY <3>1, <3>2
  <2> QED
    BY <1>f, <2>3, <2>4, <2>5 DEF DeleteDone, Searchable
<1>3. CASE Answer(c) \/ DeleteUnknown(c)
  BY <1>3, <1>e DEF Answer, DeleteUnknown
<1> QED
  BY <1>1, <1>2, <1>3, <1>f
     DEF Step, Guard, GuardRefuses, Stamp, ListVectors, DropListed, DropDone, EnsureCollection,
         CreateCollection, CreateRefused, DeletePoints, PutPoints, PutRefused, UpsertHash,
         AppendKb, ReplaceKb, ClearMeta, WriteMeta, At

-----------------------------------------------------------------------------
\* The collection is created once and never goes, and only a request that has
\* found it there puts points into it.
LEMMA CollectedStep ==
    ASSUME Base, Collected, NEW c \in Clients, Step(c) \/ Fail(c)
    PROVE  Collected'
<1>r. req[c] \in ReqType /\ Shaped(req[c]) /\ req[c] # Idle
  BY StepKept DEF Base, TypeOK
<1>d. \A b \in Batches : DimOf[ModelOf[b]] # NoDim
  BY IngestAssumption DEF IngestAssumption, NoDim
<1>1. CASE CreateCollection(c)
  <2>1. req[c].batch \in Batches /\ ~SharedHash
    BY <1>1, <1>r, PhaseFacts DEF CreateCollection, At, Upsert
  <2> QED
    BY <1>1, <1>d, <2>1 DEF CreateCollection, Collected
<1>2. CASE PutPoints(c)
  <2>1. req[c].at = "point"
    BY <1>2 DEF PutPoints, At
  <2>2. ~SharedHash
    BY <1>r, <2>1, PhaseFacts
  <2>3. req[c].batch \in Batches
    BY <1>r, <2>1, <2>2, PhaseFacts DEF Upsert
  <2> QED
    BY <1>2, <1>d, <2>2, <2>3 DEF PutPoints, Collected
<1>3. CASE ~CreateCollection(c) /\ ~PutPoints(c)
  <2>1. dim' = dim /\ \A d \in Docs : points'[d] \subseteq points[d]
    BY <1>3
       DEF Step, Fail, Guard, GuardRefuses, Stamp, ListVectors, DropListed, DropDone,
           EnsureCollection, CreateRefused, DeletePoints, PutRefused, UpsertHash, AppendKb,
           ReplaceKb, ClearMeta, WriteMeta, DeleteKb, DeleteUnknown, DeleteVectors, Answer,
           DropVectors, Base, TypeOK
  <2>2. ready' = ready \/ dim # NoDim
    <3>1. CASE ListVectors(c) \/ EnsureCollection(c) \/ DeleteVectors(c)
      BY <3>1 DEF ListVectors, EnsureCollection, DeleteVectors, Remember, CollectionExists
    <3> QED
      BY <1>3, <3>1
         DEF Step, Fail, Guard, GuardRefuses, Stamp, DropListed, DropDone, CreateRefused,
             DeletePoints, PutRefused, UpsertHash, AppendKb, ReplaceKb, ClearMeta, WriteMeta,
             DeleteKb, DeleteUnknown, Answer
  <2> QED
    BY <2>1, <2>2 DEF Collected
<1> QED
  BY <1>1, <1>2, <1>3

LEMMA CountedStep ==
    ASSUME Base, EachRequest, NEW c \in Clients, Step(c) \/ Fail(c), NEW x \in Clients
    PROVE  Counted(x)'
<1>1. Kept(c) /\ req[c] # Idle
  BY StepKept
<1>2. \A o \in Clients :
          req'[o] # Idle => /\ req[o] # Idle
                            /\ req'[o].kind = req[o].kind /\ req'[o].doc = req[o].doc
                            /\ req'[o].batch = req[o].batch
                            /\ Rewriting(req'[o]) => Rewriting(req[o])
  BY <1>1 DEF Kept
<1>3. /\ alone' \subseteq alone
      /\ \A o \in Clients : req'[o] # Idle /\ o \in alone => o \in alone'
      /\ \A o \in Clients : req'[o] = Idle \/ Rewriting(req'[o]) => o \notin alone'
  BY <1>1 DEF Kept, EachRequest, Counted
<1>4. ASSUME req'[x] # Idle, x \notin alone'
      PROVE  req'[x].doc \in crossed'
  <2>1. x \notin alone /\ req[x] # Idle /\ req'[x].doc = req[x].doc /\ req[x].doc \in crossed
    BY <1>2, <1>3, <1>4 DEF EachRequest, Counted
  <2>2. CASE c \in alone
    <3>1. req[c].doc # req[x].doc
      BY <1>1, <2>1, <2>2, AloneFacts DEF EachRequest
    <3> QED
      BY <2>1, <3>1, StepLocal
  <2>3. CASE c \notin alone
    BY <2>1, <2>3, StepLocal
  <2> QED
    BY <2>2, <2>3
<1>5. ASSUME x \in alone', NEW o \in Clients \ {x}, req'[o] # Idle
      PROVE  ~Conflict(req'[o], req'[x])
  <2>1. x \in alone /\ req'[x] # Idle
    BY <1>3, <1>5
  <2>2. ~Conflict(req[o], req[x])
    BY <1>2, <1>5, <2>1 DEF EachRequest, Counted
  <2> QED
    BY <1>2, <1>5, <2>1, <2>2 DEF Conflict
<1> QED
  BY <1>3, <1>4, <1>5 DEF Counted

LEMMA UnpromisedStep ==
    ASSUME Base, EachRequest, AnswersHold, NEW c \in Clients, Step(c) \/ Fail(c), NEW x \in Clients
    PROVE  Unpromised(req[x])'
<1>1. Kept(c) /\ req[c] # Idle /\ Unpromised(req[x]) /\ Counted(x) /\ Counted(c)
  BY StepKept DEF EachRequest
<1>r. req[x] \in ReqType /\ Shaped(req[x]) /\ req[c] \in ReqType /\ Shaped(req[c])
  BY DEF Base, TypeOK
<1>2. CASE req'[x] = Idle
  BY <1>2 DEF Unpromised, Idle
<1>3. CASE req'[x] # Idle /\ acked' = acked
  <2>1. /\ req[x] # Idle /\ req'[x].kind = req[x].kind /\ req'[x].doc = req[x].doc
        /\ req'[x].batch = req[x].batch
    BY <1>1, <1>3 DEF Kept
  <2>2. ASSUME req'[x].at = "stamp", NEW d \in Docs, acked[d] \in Batches
        PROVE  ModelOf[acked[d]] = ModelOf[req[x].batch]
    <3>1. CASE req[x].at = "stamp"
      BY <1>1, <2>2, <3>1 DEF Unpromised
    <3>2. CASE req[x].at # "stamp"
      <4>1. x = c
        BY <1>1, <2>2, <3>2 DEF Kept
      <4>2. \/ Guard(c) /\ meta = NoModel
            \/ ~Guard(c)
        BY <2>2, <4>1, GoToFacts DEF Guard, UpsertStep
      <4>3. Guard(c)
        <5>1. CASE ListVectors(c) \/ DeleteVectors(c)
          BY <2>2, <4>1, <5>1, LookFacts
        <5>2. ASSUME NEW e \in Docs, DropListed(c, e)
              PROVE  FALSE
          BY <1>r, <2>2, <4>1, <5>2 DEF DropListed, At, Base, TypeOK, ReqType
        <5>3. CASE \/ Stamp(c) \/ DropDone(c) \/ EnsureCollection(c) \/ CreateCollection(c)
                   \/ DeletePoints(c) \/ PutPoints(c) \/ UpsertHash(c) \/ AppendKb(c)
                   \/ ReplaceKb(c) \/ ClearMeta(c) \/ WriteMeta(c) \/ DeleteKb(c)
          <6>1. PICK phase \in {"ensure", "hash", "create", "unpoint", "point", "kb", "answer",
                                "meta_clear", "meta_write", "vec_delete"} : GoTo(c, phase)
            <7>1. CASE Stamp(c) \/ DropDone(c)
              BY <7>1 DEF Stamp, DropDone, UpsertStep
            <7>2. CASE EnsureCollection(c) \/ CreateCollection(c) \/ DeletePoints(c)
              BY <7>2 DEF EnsureCollection, CreateCollection, DeletePoints
            <7>3. CASE PutPoints(c)
              BY <7>3 DEF PutPoints
            <7>4. CASE UpsertHash(c) \/ AppendKb(c) \/ ReplaceKb(c)
              BY <7>4 DEF UpsertHash, AppendKb, ReplaceKb
            <7>5. CASE ClearMeta(c) \/ WriteMeta(c) \/ DeleteKb(c)
              BY <7>5 DEF ClearMeta, WriteMeta, DeleteKb
            <7> QED
              BY <5>3, <7>1, <7>2, <7>3, <7>4, <7>5
          <6> QED
            BY <2>2, <4>1, <6>1, GoToFacts
        <5>4. ~End(c)
          BY <1>3, <4>1, EndKept
        <5>5. ~(\/ GuardRefuses(c) \/ CreateRefused(c) \/ PutRefused(c) \/ DeleteUnknown(c)
                \/ Answer(c) \/ Fail(c))
          BY <5>4 DEF GuardRefuses, CreateRefused, PutRefused, DeleteUnknown, Answer, Fail
        <5> QED
          BY <5>1, <5>2, <5>3, <5>5 DEF Step
      <4>4. NoModel \notin Models /\ ModelOf \in [Batches -> Models]
        BY IngestAssumption DEF IngestAssumption
      <4> QED
        BY <2>2, <4>2, <4>3, <4>4 DEF AnswersHold
    <3> QED
      BY <3>1, <3>2
  <2>3. \A d \in Docs : req[x].kind = "replace" \/ d = req[x].doc => acked[d] = Unknown
    BY <1>1, <2>1 DEF Unpromised
  <2> QED
    BY <1>3, <2>1, <2>2, <2>3 DEF Unpromised
<1>4. CASE req'[x] # Idle /\ Answer(c) /\ c \in alone
  <2>1. x # c
    BY <1>4, EndKept DEF Answer
  <2>2. req'[x] = req[x]
    BY <1>1, <2>1 DEF Kept
  <2>3. /\ req[c].kind \in {"append", "delete"} /\ req[x].kind \in {"append", "delete"}
        /\ req[c].doc # req[x].doc
        /\ req[c].kind = "append" /\ req[x].kind = "append" =>
               ModelOf[req[c].batch] = ModelOf[req[x].batch]
    BY <1>1, <1>4, <2>1, <2>2, AloneFacts
  <2>4. \A d \in Docs : d # req[c].doc => acked'[d] = acked[d]
    BY <1>4, <2>3 DEF Answer, Promise
  <2>5. /\ req[c].kind = "append" => \A d \in Docs : d = req[c].doc => acked'[d] = req[c].batch
        /\ req[c].kind = "delete" => \A d \in Docs : d = req[c].doc =>
               acked'[d] \in {NoBatch, acked[d]}
    BY <1>4 DEF Answer, Promise
  <2>6. req[x].at = "stamp" => req[x].kind = "append"
    BY <1>r, PhaseFacts
  <2>7. NoBatch \notin Batches
    BY IngestAssumption DEF IngestAssumption
  <2>8. ASSUME NEW d \in Docs, req[x].kind = "replace" \/ d = req[x].doc
        PROVE  acked'[d] = Unknown
    BY <1>1, <1>4, <2>2, <2>3, <2>4, <2>8 DEF Unpromised
  <2>9. ASSUME NEW d \in Docs, req[x].at = "stamp", acked'[d] \in Batches
        PROVE  ModelOf[acked'[d]] = ModelOf[req[x].batch]
    <3>1. CASE acked'[d] = acked[d]
      BY <1>1, <2>9, <3>1 DEF Unpromised
    <3>2. CASE acked'[d] # acked[d]
      BY <2>3, <2>4, <2>5, <2>6, <2>7, <2>9, <3>2
    <3> QED
      BY <3>1, <3>2
  <2> QED
    BY <2>2, <2>8, <2>9 DEF Unpromised
<1> QED
  BY <1>2, <1>3, <1>4, StepLocal

LEMMA WorkStep ==
    ASSUME Base, Collected, EachRequest, NEW c \in Clients, Step(c) \/ Fail(c),
           NEW x \in Clients, x \in alone'
    PROVE  WorkDone(req[x])'
<1>a. x \in alone /\ (x = c => req'[c] # Idle)
  BY StepKept DEF Kept
<1>1. CASE x # c
  BY <1>1, <1>a, FrameWork
<1>3. CASE x = c /\ req'[c] # Idle
  <2>1. Step(c)
    BY <1>3, EndKept DEF Fail
  <2>2. req'[c].kind = req[c].kind
    BY <1>3, StepKept DEF Kept
  <2>3. WorkDone(req[c])
    BY <1>a, <1>3 DEF EachRequest
  <2>4. req[c].kind = "append" => AppendDone(req[c])'
    BY <1>3, <2>1, <2>3, OwnAppend DEF WorkDone
  <2>5. req[c].kind = "replace" => ReplaceDone(req[c])'
    BY <1>3, <2>1, <2>3, OwnReplace DEF WorkDone
  <2>6. req[c].kind = "delete" => DeleteDone(req[c])'
    BY <1>3, <2>1, <2>3, OwnDelete DEF WorkDone
  <2> QED
    BY <1>3, <2>2, <2>4, <2>5, <2>6 DEF WorkDone
<1> QED
  BY <1>a, <1>1, <1>3

\* A step of a request that has not answered changes nothing that was promised;
\* an answer promises what its request has done.
LEMMA AnswersStep ==
    ASSUME Base, EachRequest, AnswersHold, NEW c \in Clients, Step(c) \/ Fail(c)
    PROVE  AnswersHold'
<1>r. req[c] \in ReqType /\ Shaped(req[c]) /\ req[c] # Idle
  BY StepKept DEF Base, TypeOK
<1>w. Unpromised(req[c]) /\ (c \in alone => WorkDone(req[c]))
  BY DEF EachRequest
<1>a. IngestAssumption
  BY IngestAssumption
<1>1. CASE acked' = acked
  <2> SUFFICES ASSUME NEW d \in Docs, acked[d] # Unknown
               PROVE  /\ kb'[d] = kb[d] /\ points'[d] = points[d]
                      /\ acked[d] \in Batches => meta' = ModelOf[acked[d]]
    <3>1. Unknown \notin Batches \cup {NoBatch}
      BY <1>a DEF IngestAssumption
    <3>2. \A d \in Docs : acked[d] # Unknown =>
              /\ kb'[d] = kb[d] /\ Searchable(d)' = Searchable(d)
              /\ acked[d] \in Batches => meta' = ModelOf[acked[d]]
      BY DEF Searchable
    <3> QED
      BY <1>1, <3>1, <3>2 DEF AnswersHold
  <2>1. req[c].kind # "replace" /\ d # req[c].doc
    BY <1>r, <1>w DEF Unpromised
  <2>2. kb'[d] = kb[d] /\ points'[d] = points[d]
    BY <2>1, StepLocal
  <2>3. ASSUME acked[d] \in Batches
        PROVE  meta' = ModelOf[acked[d]]
    <3>1. meta = ModelOf[acked[d]]
      BY <2>3 DEF AnswersHold
    <3>2. At(c, "stamp") => ModelOf[acked[d]] = ModelOf[req[c].batch]
      BY <1>w, <2>3 DEF At, Unpromised
    <3> QED
      BY <2>1, <3>1, <3>2, StepLocal
  <2> QED
    BY <2>2, <2>3
<1>2. CASE Answer(c) /\ c \in alone
  <2>1. kb' = kb /\ points' = points /\ meta' = meta /\ req[c].at = "answer"
    BY <1>2 DEF Answer, At
  <2>2. \A d \in Docs : Searchable(d)' = Searchable(d)
    BY <2>1 DEF Searchable
  <2>3. \A d \in Docs : acked'[d] = Promise(req[c], d)
    BY <1>2 DEF Answer
  <2>4. /\ req[c].kind \in {"append", "replace", "delete"} /\ req[c].doc \in Docs
        /\ req[c].kind \in {"append", "replace"} => req[c].batch \in Batches
        /\ req[c].kind = "delete" => req[c].batch = NoBatch
        /\ NoBatch \notin Batches
    BY <1>a, <1>r, <2>1, PhaseFacts DEF IngestAssumption
  <2>5. CASE req[c].kind = "append"
    BY <1>2, <1>w, <2>1, <2>2, <2>3, <2>4, <2>5 DEF AnswersHold, WorkDone, AppendDone, Promise
  <2>6. CASE req[c].kind = "replace"
    <3>1. /\ \A d \in Docs : kb[d] = IF d = req[c].doc THEN req[c].batch ELSE NoBatch
          /\ Searchable(req[c].doc) = {req[c].batch}
          /\ ~req[c].missed => \A d \in Docs \ {req[c].doc} : Searchable(d) = {}
          /\ meta = ModelOf[req[c].batch]
      BY <1>2, <1>w, <2>1, <2>6 DEF WorkDone, ReplaceDone
    <3>2. \A d \in Docs : acked'[d] = IF d = req[c].doc THEN req[c].batch
                                     ELSE IF ~req[c].missed THEN NoBatch ELSE acked[d]
      BY <2>3, <2>6 DEF Promise
    <3>3. \A d \in Docs : acked[d] = Unknown
      BY <1>r, <1>w, <2>6 DEF Unpromised
    <3>4. Unknown \notin Batches \cup {NoBatch}
      BY <1>a DEF IngestAssumption
    <3>5. ASSUME NEW d \in Docs
          PROVE  /\ acked'[d] \in Batches => /\ kb'[d] = acked'[d]
                                             /\ Searchable(d)' = {acked'[d]}
                                             /\ meta' = ModelOf[acked'[d]]
                 /\ acked'[d] = NoBatch => kb'[d] = NoBatch /\ Searchable(d)' = {}
      <4>1. CASE d = req[c].doc
        BY <2>1, <2>2, <2>4, <2>6, <3>1, <3>2, <4>1
      <4>2. CASE d # req[c].doc /\ ~req[c].missed
        BY <2>1, <2>2, <2>4, <3>1, <3>2, <4>2
      <4>3. CASE d # req[c].doc /\ req[c].missed
        BY <3>2, <3>3, <3>4, <4>3
      <4> QED
        BY <4>1, <4>2, <4>3
    <3> QED
      BY <3>5 DEF AnswersHold
  <2>7. CASE req[c].kind = "delete"
    <3>1. kb[req[c].doc] = NoBatch /\ (~req[c].missed => Searchable(req[c].doc) = {})
      BY <1>2, <1>w, <2>1, <2>7 DEF WorkDone, DeleteDone
    <3>2. \A d \in Docs : acked'[d] = IF d = req[c].doc /\ ~req[c].missed THEN NoBatch
                                     ELSE acked[d]
      BY <2>3, <2>7 DEF Promise
    <3> QED
      BY <2>1, <2>2, <2>4, <3>1, <3>2 DEF AnswersHold
  <2> QED
    BY <2>4, <2>5, <2>6, <2>7
<1> QED
  BY <1>1, <1>2, StepLocal

LEMMA UploadStep ==
    ASSUME Base, Collected, EachRequest, OneUpload, NEW c \in Clients, Step(c) \/ Fail(c)
    PROVE  OneUpload'
<1>r. req[c] \in ReqType /\ Shaped(req[c]) /\ req[c] # Idle
  BY StepKept DEF Base, TypeOK
<1>w. (c \in alone => WorkDone(req[c])) /\ Counted(c)
  BY DEF EachRequest
<1>1. CASE PutPoints(c)
  <2>1. /\ req[c].kind \in {"append", "replace"} /\ req[c].doc \in Docs
        /\ req[c].at = "point" /\ crossed' = crossed
    <3>1. req[c].at = "point" /\ crossed' = crossed
      BY <1>1 DEF PutPoints, At
    <3>2. ~SharedHash
      BY <1>r, <3>1, PhaseFacts
    <3> QED
      BY <1>r, <3>1, <3>2, PhaseFacts DEF Upsert
  <2>2. \A d \in Docs : d # req[c].doc => points'[d] = points[d]
    BY <1>1 DEF PutPoints, Base, TypeOK
  <2>3. CASE c \in alone
    <3>1. points[req[c].doc] = {}
      BY <1>w, <2>1, <2>3 DEF WorkDone, AppendDone, ReplaceDone
    <3>2. points'[req[c].doc] = {req[c].batch}
      BY <1>1, <2>1, <3>1 DEF PutPoints, Base, TypeOK
    <3> QED
      BY <2>1, <2>2, <3>2 DEF OneUpload
  <2>4. CASE c \notin alone
    <3>1. req[c].doc \in crossed
      BY <1>r, <1>w, <2>4 DEF Counted
    <3> QED
      BY <2>1, <2>2, <3>1 DEF OneUpload
  <2> QED
    BY <2>3, <2>4
<1>2. CASE ~PutPoints(c)
  <2>1. \A d \in Docs : points'[d] \subseteq points[d]
    BY <1>2
       DEF Step, Fail, Guard, GuardRefuses, Stamp, ListVectors, DropListed, DropDone,
           EnsureCollection, CreateCollection, CreateRefused, DeletePoints, PutRefused, UpsertHash,
           AppendKb, ReplaceKb, ClearMeta, WriteMeta, DeleteKb, DeleteUnknown, DeleteVectors,
           Answer, DropVectors, Base, TypeOK
  <2>2. CASE crossed' = crossed
    BY <2>1, <2>2 DEF OneUpload
  <2>3. CASE /\ AppendKb(c) \/ ReplaceKb(c)
             /\ c \in alone /\ crossed' = crossed \ {req[c].doc}
    <3>1. points' = points /\ req[c].at = "kb"
      BY <2>3 DEF AppendKb, ReplaceKb, At
    <3>2. req[c].kind \in {"append", "replace"}
      BY <2>3 DEF AppendKb, ReplaceKb
    <3>3. points[req[c].doc] \subseteq {req[c].batch}
      <4>1. CASE SharedHash
        BY <1>r, <4>1, <3>2, PhaseFacts DEF Collected
      <4>2. CASE ~SharedHash
        BY <1>w, <2>3, <3>1, <3>2, <4>2 DEF WorkDone, AppendDone, ReplaceDone
      <4> QED
        BY <4>1, <4>2
    <3> QED
      BY <2>3, <3>1, <3>3 DEF OneUpload
  <2> QED
    BY <2>2, <2>3, StepLocal
<1> QED
  BY <1>1, <1>2

\* A request that begins touches no store; it breaks no promise because what it
\* may change is no longer promised, and makes its rivals' work uncertain.
LEMMA BeginStep ==
    ASSUME Base, Collected, EachRequest, AnswersHold, OneUpload,
           CopiesAreTrue, NEW c \in Clients, NEW call \in Call, Begin(c, call)
    PROVE  Collected' /\ EachRequest' /\ AnswersHold' /\ OneUpload' /\ CopiesAreTrue'
<1>k. /\ \A x \in Clients : x # c => req'[x] = req[x]
      /\ req'[c].kind = call.kind /\ req'[c].doc = call.doc /\ req'[c].batch = call.batch
      /\ req'[c].at = FirstStep[call.kind] /\ req'[c] # Idle /\ req[c] = Idle
      /\ ~Rewriting(req'[c])
  BY BeginKept
<1>s. kb' = kb /\ points' = points /\ meta' = meta /\ dim' = dim /\ ready' = ready
  BY DEF Begin
<1>a. \A d \in Docs : acked'[d] = IF call.kind = "replace" \/ d = call.doc
                                 THEN Unknown ELSE acked[d]
  BY DEF Begin
<1>u. Unknown \notin Batches \cup {NoBatch}
  BY IngestAssumption DEF IngestAssumption
<1>f. /\ call.kind \in {"append", "replace", "delete"}
      /\ call.kind = "append" => req'[c].at = "guard"
      /\ call.kind = "replace" => req'[c].at = "list"
      /\ call.kind = "delete" => req'[c].at = "kb_delete"
  BY <1>k, CallFacts DEF FirstStep
<1> PICK rivals \in SUBSET Clients :
        /\ rivals = Rivals(c, Fresh(call))
        /\ alone' = IF rivals = {} THEN alone \cup {c} ELSE alone \ rivals
        /\ crossed' = crossed \cup UNION {Mixed(req[o], Fresh(call)) : o \in rivals}
  BY DEF Begin, Rivals
<1>m. \A o \in rivals :
          /\ req[o].doc \in Mixed(req[o], Fresh(call))
          /\ call.doc \in Mixed(req[o], Fresh(call))
          /\ Rewriting(req[o]) => Mixed(req[o], Fresh(call)) = Docs
  <2>1. \A o \in rivals : o \in Clients /\ req[o] # Idle /\ Shaped(req[o]) /\ req[o] \in ReqType
    BY DEF Base, TypeOK, Rivals
  <2>2. \A o \in rivals : req[o].doc \in Docs
    BY <2>1, CallFacts DEF Shaped
  <2> QED
    BY <2>2, StartFacts, CallFacts DEF Mixed
<1>r. /\ crossed \subseteq crossed'
      /\ \A o \in rivals : Mixed(req[o], Fresh(call)) \subseteq crossed'
      /\ \A o \in rivals : req[o].doc \in crossed'
      /\ rivals # {} => call.doc \in crossed'
      /\ c \notin rivals
  <2>1. crossed \subseteq crossed' /\ c \notin rivals
    BY DEF Rivals
  <2>2. ASSUME NEW o \in rivals
        PROVE  Mixed(req[o], Fresh(call)) \subseteq crossed'
    OBVIOUS
  <2> QED
    BY <1>m, <2>1, <2>2
<1>n. c \notin alone
  BY <1>k DEF EachRequest, Counted
<1>1. Collected'
  BY <1>s DEF Collected
<1>2. ASSUME NEW x \in Clients
      PROVE  Unpromised(req[x])'
  <2>1. CASE x = c
    BY <1>k, <1>a, <1>f, <2>1 DEF Unpromised
  <2>2. CASE x # c
    <3>1. Unpromised(req[x]) /\ req'[x] = req[x]
      BY <1>k, <2>2 DEF EachRequest
    <3> QED
      BY <1>a, <1>u, <3>1 DEF Unpromised
  <2> QED
    BY <2>1, <2>2
<1>3. ASSUME NEW x \in Clients
      PROVE  Counted(x)'
  <2>1. CASE x = c
    <3>1. c \in alone' \/ req'[c].doc \in crossed'
      BY <1>k, <1>r
    <3>2. ASSUME c \in alone', NEW o \in Clients \ {c}, req'[o] # Idle
          PROVE  ~Conflict(req'[o], req'[c])
      <4>1. o \notin Rivals(c, Fresh(call))
        BY <1>n, <3>2
      <4> QED
        BY <1>k, <3>2, <4>1, StartFacts DEF Rivals, Conflict
    <3> QED
      BY <1>k, <2>1, <3>1, <3>2 DEF Counted
  <2>2. CASE x # c
    <3>1. req'[x] = req[x] /\ Counted(x)
      BY <1>k, <2>2 DEF EachRequest
    <3>2. x \in alone' => x \in alone /\ x \notin rivals
      BY <2>2
    <3>3. x \in alone /\ x \notin alone' => req[x].doc \in crossed'
      BY <1>r
    <3>4. ASSUME x \in alone', NEW o \in Clients \ {x}, req'[o] # Idle
          PROVE  ~Conflict(req'[o], req'[x])
      <4>1. CASE o # c
        BY <1>k, <3>1, <3>2, <3>4, <4>1 DEF Counted
      <4>2. CASE o = c
        <5>1. ~Conflict(req[x], Fresh(call))
          BY <2>2, <3>1, <3>2, <3>4 DEF Rivals, Counted
        <5> QED
          BY <1>k, <3>1, <4>2, <5>1, StartFacts DEF Conflict
      <4> QED
        BY <4>1, <4>2
    <3>5. req'[x] = Idle \/ Rewriting(req'[x]) => x \notin alone'
      BY <3>1, <3>2 DEF Counted
    <3>6. req'[x] # Idle => x \in alone' \/ req'[x].doc \in crossed'
      BY <1>r, <3>1, <3>3 DEF Counted
    <3> QED
      BY <3>4, <3>5, <3>6 DEF Counted
  <2> QED
    BY <2>1, <2>2
<1>4. ASSUME NEW x \in Clients, x \in alone'
      PROVE  WorkDone(req[x])'
  <2>1. CASE x = c
    BY <1>k, <1>f, <2>1 DEF WorkDone, AppendDone, ReplaceDone, DeleteDone, Upsert
  <2>2. CASE x # c
    <3>1. x \in alone
      BY <1>4, <2>2
    <3>2. WorkDone(req[x]) /\ req'[x] = req[x]
      BY <1>k, <2>2, <3>1 DEF EachRequest
    <3> QED
      BY <1>s, <3>2 DEF WorkDone, AppendDone, ReplaceDone, DeleteDone, Searchable
  <2> QED
    BY <2>1, <2>2
<1>5. AnswersHold'
  BY <1>s, <1>a, <1>u DEF AnswersHold, Searchable
<1>6. OneUpload'
  BY <1>s, <1>r DEF OneUpload
<1>7. ASSUME NEW x \in Clients, Rewriting(req'[x])
      PROVE  CopyIsTrue(x)'
  <2>1. x # c /\ req'[x] = req[x] /\ Rewriting(req[x])
    BY <1>k, <1>7
  <2>2. req[x] # Idle
    BY <2>1 DEF Rewriting, Idle
  <2>3. x \in rivals
    BY <2>1, <2>2 DEF Rivals, Conflict
  <2>4. crossed' = Docs
    <3>1. Mixed(req[x], Fresh(call)) = Docs
      BY <1>m, <2>1, <2>3
    <3>2. Mixed(req[x], Fresh(call)) \subseteq crossed'
      BY <1>r, <2>3
    <3>3. crossed' \subseteq Docs
      BY BeginKept DEF Base, TypeOK
    <3> QED
      BY <3>1, <3>2, <3>3
  <2>5. \A d \in Docs : acked'[d] # Unknown => req'[x].copy[d] = kb'[d]
    BY <1>s, <1>a, <2>1 DEF CopiesAreTrue, CopyIsTrue
  <2> QED
    BY <2>4, <2>5 DEF CopyIsTrue
<1>8. CopiesAreTrue'
  BY <1>7 DEF CopiesAreTrue, CopyIsTrue
<1> QED
  BY <1>1, <1>2, <1>3, <1>4, <1>5, <1>6, <1>8 DEF EachRequest

\* Requests that a crash ends promised nothing, and it touches no store.
LEMMA CrashStep ==
    ASSUME Base, Collected, EachRequest, AnswersHold, OneUpload, CopiesAreTrue,
           NEW p \in Processes, Crash(p)
    PROVE  Collected' /\ EachRequest' /\ AnswersHold' /\ OneUpload' /\ CopiesAreTrue'
<1>k. /\ \A x \in Clients : req'[x] = req[x] \/ req'[x] = Idle
      /\ alone' \subseteq alone
      /\ \A x \in Clients : req'[x] # req[x] => x \notin alone'
      /\ \A x \in Clients : req'[x] = req[x] /\ x \in alone => req[x] = Idle \/ x \in alone'
      /\ ready' \subseteq ready
      /\ UNCHANGED <<kb, points, dim, meta, crossed, acked>>
  BY CrashKept
<1>i. Idle.at # "stamp" /\ ~Rewriting(Idle)
  BY DEF Idle, Rewriting
<1>1. Collected' /\ OneUpload'
  BY <1>k DEF Collected, OneUpload
<1>2. AnswersHold'
  BY <1>k DEF AnswersHold, Searchable
<1>3. ASSUME NEW x \in Clients
      PROVE  Unpromised(req[x])'
  <2>1. Unpromised(req[x])
    BY DEF EachRequest
  <2> QED
    BY <1>k, <1>i, <2>1 DEF Unpromised
<1>4. ASSUME NEW x \in Clients
      PROVE  Counted(x)'
  <2>1. Counted(x)
    BY DEF EachRequest
  <2>2. req'[x] = Idle \/ Rewriting(req'[x]) => x \notin alone'
    BY <1>k, <2>1 DEF Counted
  <2>3. req'[x] # Idle => x \in alone' \/ req'[x].doc \in crossed'
    BY <1>k, <2>1 DEF Counted
  <2>4. ASSUME x \in alone', NEW o \in Clients \ {x}, req'[o] # Idle
        PROVE  ~Conflict(req'[o], req'[x])
    BY <1>k, <2>1, <2>4 DEF Counted
  <2> QED
    BY <2>2, <2>3, <2>4 DEF Counted
<1>5. ASSUME NEW x \in Clients, x \in alone'
      PROVE  WorkDone(req[x])'
  <2>1. WorkDone(req[x]) /\ req'[x] = req[x]
    BY <1>k, <1>5 DEF EachRequest
  <2> QED
    BY <1>k, <2>1 DEF WorkDone, AppendDone, ReplaceDone, DeleteDone, Searchable
<1>6. CopiesAreTrue'
  <2> SUFFICES ASSUME NEW x \in Clients, Rewriting(req'[x])
               PROVE  CopyIsTrue(x)'
    BY DEF CopiesAreTrue, CopyIsTrue
  <2>1. req'[x] = req[x] /\ Rewriting(req[x]) /\ CopyIsTrue(x)
    BY <1>k, <1>i DEF CopiesAreTrue
  <2>2. \A o \in Clients : req'[o] # Idle => req[o] # Idle
    BY <1>k
  <2> QED
    BY <1>k, <2>1, <2>2 DEF CopyIsTrue
<1> QED
  BY <1>1, <1>2, <1>3, <1>4, <1>5, <1>6 DEF EachRequest

\* What a delete is about to write back stays true while another request goes
\* on, which is its rival.
LEMMA CopyStep ==
    ASSUME Base, EachRequest, CopiesAreTrue, NEW c \in Clients, Step(c) \/ Fail(c)
    PROVE  CopiesAreTrue'
<1> SUFFICES ASSUME NEW x \in Clients, Rewriting(req'[x])
             PROVE  CopyIsTrue(x)'
  BY DEF CopiesAreTrue, CopyIsTrue
<1>1. Kept(c) /\ req[c] # Idle /\ Counted(c) /\ Counted(x) /\ Unpromised(req[c])
  BY StepKept DEF EachRequest
<1>2. x # c /\ req'[x] = req[x] /\ Rewriting(req[x]) /\ CopyIsTrue(x)
  BY <1>1 DEF Kept, CopiesAreTrue
<1>3. c \notin alone
  <2>1. req[x] # Idle
    BY <1>2 DEF Rewriting, Idle
  <2> QED
    BY <1>1, <1>2, <2>1, AloneFacts
<1>4. crossed = Docs /\ crossed' = Docs /\ acked' = acked
  BY <1>1, <1>2, <1>3, StepLocal DEF CopyIsTrue
<1>5. ASSUME NEW d \in Docs, acked[d] # Unknown
      PROVE  kb'[d] = kb[d]
  <2>1. req[c].kind # "replace" /\ d # req[c].doc
    BY <1>1, <1>5 DEF Unpromised
  <2> QED
    BY <2>1, StepLocal
<1> QED
  BY <1>2, <1>4, <1>5 DEF CopyIsTrue

\* A copy leaves no request alone, and a rewrite finds none so.
LEMMA RewriteAlone ==
    ASSUME Base, EachRequest, NEW c \in Clients, Rewrite(c)
    PROVE  alone' = {} /\ crossed \subseteq crossed' /\ crossed' \subseteq Docs
<1>1. \A x \in alone : x \in Clients /\ Counted(x) /\ req[x] # Idle
  BY DEF Base, TypeOK, EachRequest, Counted
<1>2. ASSUME NEW d \in Docs, CopyKb(c, d)
      PROVE  alone' = {} /\ crossed \subseteq crossed' /\ crossed' \subseteq Docs
  BY <1>1, <1>2 DEF CopyKb, Base, TypeOK
<1>3. CASE RewriteKb(c)
  <2>1. Rewriting(req[c]) /\ alone' = alone /\ crossed' = crossed /\ req[c] # Idle
    BY <1>3, WriteBackKept DEF RewriteKb, Carried
  <2>2. c \notin alone
    BY <1>1, <2>1 DEF EachRequest, Counted
  <2>3. \A x \in alone : ~Conflict(req[c], req[x])
    BY <1>1, <2>1, <2>2 DEF Counted
  <2> QED
    BY <2>1, <2>3 DEF Conflict, Base, TypeOK
<1> QED
  BY <1>2, <1>3 DEF Rewrite

\* What is written back over the whole hash differs from it in no document that
\* something is promised of.
LEMMA RewriteStep ==
    ASSUME Base, Collected, EachRequest, AnswersHold, OneUpload, CopiesAreTrue,
           NEW c \in Clients, Rewrite(c)
    PROVE  Collected' /\ EachRequest' /\ AnswersHold' /\ OneUpload' /\ CopiesAreTrue'
<1>k. Carried(c) /\ req[c].at # "stamp" /\ req'[c].at # "stamp"
  BY CopyKept, WriteBackKept DEF Rewrite
<1>a. alone' = {} /\ crossed \subseteq crossed' /\ crossed' \subseteq Docs
  BY RewriteAlone
<1>s. UNCHANGED <<points, dim, meta, ready, acked>>
  BY DEF Rewrite, CopyKb, RewriteKb
<1>c. Counted(c) /\ Unpromised(req[c]) /\ CopyIsTrue(c) /\ req[c] # Idle
  BY <1>k DEF EachRequest, CopiesAreTrue, Carried
<1>b. \A d \in Docs : acked[d] # Unknown => kb'[d] = kb[d]
  <2>1. ASSUME NEW d \in Docs, CopyKb(c, d) PROVE kb' = kb
    BY <2>1 DEF CopyKb
  <2>2. CASE RewriteKb(c)
    BY <1>c, <2>2 DEF RewriteKb, CopyIsTrue
  <2> QED
    BY <2>1, <2>2 DEF Rewrite
<1>1. Collected' /\ OneUpload'
  BY <1>a, <1>s DEF Collected, OneUpload
<1>2. AnswersHold'
  <2>1. Unknown \notin Batches \cup {NoBatch}
    BY IngestAssumption DEF IngestAssumption
  <2>2. \A d \in Docs : acked[d] # Unknown => Searchable(d)' = Searchable(d)
    BY <1>b, <1>s DEF Searchable
  <2> QED
    BY <1>b, <1>s, <2>1, <2>2 DEF AnswersHold
<1>3. ASSUME NEW x \in Clients
      PROVE  Unpromised(req[x])'
  <2>1. Unpromised(req[x])
    BY DEF EachRequest
  <2> QED
    BY <1>k, <1>s, <1>c, <2>1 DEF Unpromised, Carried
<1>4. ASSUME NEW x \in Clients, req'[x] # Idle
      PROVE  req'[x].doc \in crossed'
  <2>1. req[x] # Idle /\ req'[x].doc = req[x].doc /\ Counted(x) /\ req[x].doc \in Docs
    <3>1. req[x] # Idle /\ req'[x].doc = req[x].doc
      BY <1>k, <1>4 DEF Carried
    <3>2. Shaped(req[x])
      BY DEF Base
    <3> QED
      BY <3>1, <3>2, CallFacts DEF Shaped, EachRequest
  <2>2. CASE crossed' = Docs
    BY <2>1, <2>2
  <2>3. ASSUME NEW d \in Docs, CopyKb(c, d), crossed' # Docs
        PROVE  req[x].doc \in crossed
    <3>1. x = c /\ c \notin alone
      BY <2>1, <2>3 DEF CopyKb
    <3> QED
      BY <1>c, <3>1 DEF Counted
  <2>4. CASE RewriteKb(c)
    <3>1. alone = {}
      BY <1>a, <2>4 DEF RewriteKb
    <3> QED
      BY <1>a, <2>1, <3>1 DEF Counted
  <2> QED
    BY <1>a, <2>1, <2>2, <2>3, <2>4 DEF Rewrite
<1>5. EachRequest'
  BY <1>a, <1>3, <1>4 DEF EachRequest, Counted
<1>6. ASSUME NEW x \in Clients, Rewriting(req'[x])
      PROVE  CopyIsTrue(x)'
  <2>1. CASE x # c
    <3>1. req'[x] = req[x] /\ CopyIsTrue(x) /\ Rewriting(req[x])
      BY <1>k, <1>6, <2>1 DEF Carried, CopiesAreTrue
    <3>2. crossed = Docs
      BY <1>c, <2>1, <3>1 DEF CopyIsTrue
    <3>3. crossed' = Docs
      BY <1>a, <3>2
    <3> QED
      BY <1>b, <1>s, <3>1, <3>3 DEF CopyIsTrue
  <2>2. ASSUME x = c, NEW d \in Docs, CopyKb(c, d)
        PROVE  CopyIsTrue(x)'
    <3>1. /\ kb' = kb /\ req'[c].copy = [kb EXCEPT ![d] = NoBatch]
          /\ d = req[c].doc \/ req[c].kind = "replace"
      BY <2>2, CopyKept DEF CopyKb
    <3>2. acked[d] = Unknown
      BY <1>c, <3>1 DEF Unpromised
    <3>3. \A e \in Docs : /\ acked[e] # Unknown => req'[c].copy[e] = kb[e]
                           /\ req'[c].copy[e] \in {kb[e], NoBatch}
      BY <3>1, <3>2 DEF Base, TypeOK
    <3>4. (\E o \in Clients \ {c} : req'[o] # Idle) => crossed' = Docs
      <4>1. \A o \in Clients \ {c} : req'[o] = req[o]
        BY <1>k DEF Carried
      <4> QED
        BY <2>2, <4>1 DEF CopyKb
    <3> QED
      BY <1>s, <2>2, <3>1, <3>3, <3>4 DEF CopyIsTrue
  <2>3. CASE x = c /\ RewriteKb(c)
    BY <1>6, <2>3, WriteBackKept DEF Rewriting
  <2> QED
    BY <2>1, <2>2, <2>3 DEF Rewrite
<1>7. CopiesAreTrue'
  BY <1>6 DEF CopiesAreTrue, CopyIsTrue
<1> QED
  BY <1>1, <1>2, <1>5, <1>7

LEMMA InvInit == Init => IngestInv
<1> SUFFICES ASSUME Init PROVE IngestInv
  OBVIOUS
<1>1. TypeOK /\ \A c \in Clients : Shaped(req[c])
  BY BaseInit DEF Base
<1>2. \A c \in Clients : req[c] = Idle /\ c \notin alone
  BY DEF Init
<1>i. Idle.at # "stamp" /\ ~Rewriting(Idle)
  BY DEF Idle, Rewriting
<1>3. ASSUME NEW c \in Clients
      PROVE  Unpromised(req[c]) /\ Counted(c) /\ CopyIsTrue(c)
  <2>1. req[c] = Idle /\ c \notin alone /\ ~Rewriting(req[c]) /\ req[c].at # "stamp"
    BY <1>2, <1>i
  <2> QED
    BY <2>1 DEF Unpromised, Counted, CopyIsTrue
<1>4. Collected /\ AnswersHold /\ OneUpload
  BY IngestAssumption
     DEF Init, NothingStored, Collected, AnswersHold, OneUpload, Searchable, IngestAssumption
<1> QED
  BY <1>1, <1>2, <1>3, <1>4 DEF IngestInv

LEMMA InvStep == IngestInv /\ [Next]_vars => IngestInv'
<1> SUFFICES ASSUME IngestInv, [Next]_vars PROVE IngestInv'
  OBVIOUS
<1>1. Base /\ Collected /\ EachRequest /\ AnswersHold /\ OneUpload /\ CopiesAreTrue
  BY DEF IngestInv, Base, EachRequest, CopiesAreTrue
<1>2. Base'
  BY <1>1, BaseStep
<1>3. Collected' /\ EachRequest' /\ AnswersHold' /\ OneUpload' /\ CopiesAreTrue'
  <2>1. CASE UNCHANGED vars
    <3>1. Collected' /\ OneUpload'
      BY <1>1, <2>1 DEF vars, Collected, OneUpload
    <3>2. AnswersHold'
      BY <1>1, <2>1 DEF vars, AnswersHold, Searchable
    <3>4. CopiesAreTrue'
      BY <1>1, <2>1 DEF vars, CopiesAreTrue, CopyIsTrue
    <3>3. ASSUME NEW c \in Clients
          PROVE  /\ Unpromised(req[c])' /\ Counted(c)'
                 /\ c \in alone' => WorkDone(req[c])'
      <4>1. Unpromised(req[c]) /\ Counted(c) /\ (c \in alone => WorkDone(req[c]))
        BY <1>1 DEF EachRequest
      <4>2. Unpromised(req[c])' /\ Counted(c)'
        BY <2>1, <4>1 DEF vars, Unpromised, Counted
      <4> QED
        BY <2>1, <4>1, <4>2 DEF vars, WorkDone, AppendDone, ReplaceDone, DeleteDone, Searchable
    <3> QED
      BY <3>1, <3>2, <3>3, <3>4 DEF EachRequest
  <2>2. ASSUME NEW c \in Clients, NEW call \in Call, Begin(c, call)
        PROVE  Collected' /\ EachRequest' /\ AnswersHold' /\ OneUpload' /\ CopiesAreTrue'
    BY <1>1, <2>2, BeginStep
  <2>3. ASSUME NEW c \in Clients, Step(c) \/ Fail(c)
        PROVE  Collected' /\ EachRequest' /\ AnswersHold' /\ OneUpload' /\ CopiesAreTrue'
    <3>1. \A x \in Clients : Unpromised(req[x])'
      BY <1>1, <2>3, UnpromisedStep
    <3>2. \A x \in Clients : Counted(x)'
      BY <1>1, <2>3, CountedStep
    <3>3. \A x \in Clients : x \in alone' => WorkDone(req[x])'
      BY <1>1, <2>3, WorkStep
    <3>4. EachRequest'
      BY <3>1, <3>2, <3>3, <3>4 DEF EachRequest
    <3> QED
      BY <1>1, <2>3, <3>4, CollectedStep, AnswersStep, UploadStep, CopyStep
  <2>4. ASSUME NEW p \in Processes, Crash(p)
        PROVE  Collected' /\ EachRequest' /\ AnswersHold' /\ OneUpload' /\ CopiesAreTrue'
    BY <1>1, <2>4, CrashStep
  <2>5. ASSUME NEW c \in Clients, Rewrite(c)
        PROVE  Collected' /\ EachRequest' /\ AnswersHold' /\ OneUpload' /\ CopiesAreTrue'
    BY <1>1, <2>5, RewriteStep
  <2> QED
    BY <2>1, <2>2, <2>3, <2>4, <2>5 DEF Next
<1> QED
  BY <1>2, <1>3 DEF IngestInv, Base, EachRequest, CopiesAreTrue

\* The inductive invariant: whatever requests overlap, one that no rival has
\* overlapped finds the stores as its own earlier steps left them, and what was
\* promised before stands.
THEOREM IngestInvariant == Spec => []IngestInv
BY InvInit, InvStep, PTL DEF Spec

\* What a 201 or 200 promised of a document holds in the KnowledgeStore, in the
\* vector store and in the meta record until a later request may change it,
\* whatever other requests overlap, at whatever step they fail, whichever
\* processes crash, and though collection_exists may take an error for "no".
THEOREM AnswersAreKept == Spec => []AnswersHold
<1>1. IngestInv => AnswersHold
  BY DEF IngestInv
<1> QED
  BY InvInit, InvStep, <1>1, PTL DEF Spec

\* No document but one that rivals have written at once has points of two
\* uploads, though the upsert deletes the old points and puts the new ones in
\* two round trips; the next upload that is alone settles such a document.
THEOREM PointsOfOneUpload == Spec => []OneUpload
<1>1. IngestInv => OneUpload
  BY DEF IngestInv
<1> QED
  BY InvInit, InvStep, <1>1, PTL DEF Spec

-----------------------------------------------------------------------------
\* What requests in the meta swap and about to stamp know of the documents that
\* rivals did not leave behind.
MetaKnown ==
    \A x \in Clients, d \in Docs \ crossed : kb[d] # NoBatch =>
        /\ req[x].at \in {"meta_clear", "meta_write"} => d = req[x].doc /\ kb[d] = req[x].batch
        /\ req[x].at = "stamp" => ModelOf[kb[d]] = ModelOf[req[x].batch]

\* How a step changes what is stored, as far as rivals did not leave it behind.
LEMMA KbStep ==
    ASSUME ~SharedHash, Base, EachRequest, NEW c \in Clients, Step(c) \/ Fail(c)
    PROVE  /\ ~AppendKb(c) /\ ~ReplaceKb(c) =>
                  crossed' = crossed /\ \A d \in Docs : kb'[d] \in {kb[d], NoBatch}
           /\ AppendKb(c) /\ c \notin alone =>
                  crossed' = crossed /\ \A d \in Docs \ crossed : kb'[d] = kb[d]
           /\ AppendKb(c) /\ c \in alone =>
                  /\ crossed' = crossed \ {req[c].doc}
                  /\ kb'[req[c].doc] = req[c].batch
                  /\ \A d \in Docs : d # req[c].doc => kb'[d] = kb[d]
           /\ ReplaceKb(c) =>
                  /\ ~AppendKb(c)
                  /\ \A d \in Docs : kb'[d] = IF d = req[c].doc THEN req[c].batch ELSE NoBatch
                  /\ IF c \in alone THEN crossed' = crossed \ {req[c].doc}
                                    ELSE crossed' = crossed /\ req[c].doc \in crossed
<1>r. req[c] \in ReqType /\ Shaped(req[c]) /\ req[c] # Idle /\ Counted(c)
  BY StepKept DEF Base, TypeOK, EachRequest
<1>d. req[c].doc \in Docs
  BY <1>r, CallFacts DEF Shaped
<1>1. CASE AppendKb(c)
  <2>1. kb'[req[c].doc] = req[c].batch /\ \A d \in Docs : d # req[c].doc => kb'[d] = kb[d]
    BY <1>1, <1>d DEF AppendKb, Base, TypeOK
  <2>2. ~ReplaceKb(c)
    BY <1>1 DEF AppendKb, ReplaceKb
  <2>3. IF c \in alone THEN crossed' = crossed \ {req[c].doc}
                       ELSE crossed' = crossed /\ req[c].doc \in crossed
    BY <1>1, <1>r DEF AppendKb, Stored, Counted
  <2> QED
    BY <1>1, <2>1, <2>2, <2>3
<1>2. CASE ReplaceKb(c)
  <2>1. ~AppendKb(c)
    BY <1>2 DEF AppendKb, ReplaceKb
  <2>2. \A d \in Docs : kb'[d] = IF d = req[c].doc THEN req[c].batch ELSE NoBatch
    BY <1>2 DEF ReplaceKb
  <2>3. IF c \in alone THEN crossed' = crossed \ {req[c].doc}
                       ELSE crossed' = crossed /\ req[c].doc \in crossed
    BY <1>2, <1>r DEF ReplaceKb, Stored, Counted
  <2> QED
    BY <1>2, <2>1, <2>2, <2>3
<1>3. CASE ~AppendKb(c) /\ ~ReplaceKb(c)
  <2>1. crossed' = crossed
    BY <1>3, StepLocal
  <2>2. ~UpsertHash(c)
    BY <1>r, PhaseFacts DEF UpsertHash, At
  <2>3. \A d \in Docs : kb'[d] \in {kb[d], NoBatch}
    <3>1. CASE DeleteKb(c)
      BY <3>1 DEF DeleteKb, Base, TypeOK
    <3>2. CASE DeleteVectors(c)
      BY <3>2 DEF DeleteVectors, DropVectors
    <3>3. CASE ~DeleteKb(c) /\ ~DeleteVectors(c)
      BY <1>3, <2>2, <3>3
         DEF Step, Fail, Guard, GuardRefuses, Stamp, ListVectors, DropListed, DropDone, DropVectors,
             EnsureCollection, CreateCollection, CreateRefused, DeletePoints, PutPoints,
             PutRefused, ClearMeta, WriteMeta, DeleteUnknown, Answer
    <3> QED
      BY <3>1, <3>2, <3>3
  <2> QED
    BY <1>3, <2>1, <2>3
<1> QED
  BY <1>1, <1>2, <1>3

\* Only a guard that found no record leads to a stamp, and only the end of a
\* replacement's chunks to its meta swap.
LEMMA SwapStep ==
    ASSUME Base, NEW c \in Clients, Step(c) \/ Fail(c), NEW x \in Clients
    PROVE  /\ req'[x].at = "stamp" =>
                  \/ req[x].at = "stamp" /\ req'[x].batch = req[x].batch
                  \/ x = c /\ meta = NoModel /\ UNCHANGED <<kb, meta, crossed>>
           /\ req'[x].at \in {"meta_clear", "meta_write"} =>
                  \/ /\ req[x].at \in {"meta_clear", "meta_write"}
                     /\ req'[x].batch = req[x].batch /\ req'[x].doc = req[x].doc
                  \/ x = c /\ ReplaceKb(c) /\ req'[c].batch = req[c].batch /\ req'[c].doc = req[c].doc
<1>k. Kept(c)
  BY StepKept
<1>i. Idle.at = "idle"
  BY DEF Idle
<1>1. CASE x # c
  BY <1>1, <1>k DEF Kept
<1>2. CASE x = c /\ req'[c] = Idle
  BY <1>2, <1>i
<1>3. CASE x = c /\ req'[c] # Idle
  <2>f. req'[c].batch = req[c].batch /\ req'[c].doc = req[c].doc
    BY <1>3, <1>k DEF Kept
  <2>1. CASE Guard(c)
    BY <1>3, <2>1, GoToFacts DEF Guard, UpsertStep
  <2>2. CASE ReplaceKb(c)
    BY <1>3, <2>2, <2>f, GoToFacts DEF ReplaceKb
  <2>3. CASE ClearMeta(c)
    BY <1>3, <2>3, <2>f, GoToFacts DEF ClearMeta, At
  <2>4. CASE ~Guard(c) /\ ~ReplaceKb(c) /\ ~ClearMeta(c)
    <3>1. req'[c].at \notin {"stamp", "meta_clear", "meta_write"}
      <4>1. CASE ListVectors(c) \/ DeleteVectors(c)
        BY <4>1, LookFacts
      <4>2. ASSUME NEW e \in Docs, DropListed(c, e)
            PROVE  req'[c].at = "drop"
        BY <4>2 DEF DropListed, At, Base, TypeOK, ReqType
      <4>3. CASE \/ Stamp(c) \/ DropDone(c) \/ EnsureCollection(c) \/ CreateCollection(c)
                 \/ DeletePoints(c) \/ PutPoints(c) \/ UpsertHash(c) \/ AppendKb(c)
                 \/ WriteMeta(c) \/ DeleteKb(c)
        <5>1. PICK phase \in {"ensure", "hash", "create", "unpoint", "point", "kb", "answer",
                              "vec_delete"} : GoTo(c, phase)
          <6>1. CASE Stamp(c) \/ DropDone(c)
            BY <6>1 DEF Stamp, DropDone, UpsertStep
          <6>2. CASE EnsureCollection(c) \/ CreateCollection(c) \/ DeletePoints(c)
            BY <6>2 DEF EnsureCollection, CreateCollection, DeletePoints
          <6>3. CASE PutPoints(c)
            BY <6>3 DEF PutPoints
          <6>4. CASE UpsertHash(c) \/ AppendKb(c)
            BY <6>4 DEF UpsertHash, AppendKb
          <6>5. CASE WriteMeta(c) \/ DeleteKb(c)
            BY <6>5 DEF WriteMeta, DeleteKb
          <6> QED
            BY <4>3, <6>1, <6>2, <6>3, <6>4, <6>5
        <5> QED
          BY <5>1, GoToFacts
      <4>4. ~End(c)
        BY <1>3, EndKept
      <4>5. ~(\/ GuardRefuses(c) \/ CreateRefused(c) \/ PutRefused(c) \/ DeleteUnknown(c)
              \/ Answer(c) \/ Fail(c))
        BY <4>4 DEF GuardRefuses, CreateRefused, PutRefused, DeleteUnknown, Answer, Fail
      <4> QED
        BY <2>4, <4>1, <4>2, <4>3, <4>5 DEF Step
    <3> QED
      BY <1>3, <3>1
  <2> QED
    BY <2>1, <2>2, <2>3, <2>4
<1> QED
  BY <1>1, <1>2, <1>3

\* What requests in the swap and about to stamp know is kept by every step.
LEMMA KnownStep ==
    ASSUME ~SharedHash, Base, EachRequest, MetaDescribesKb, MetaKnown,
           NEW c \in Clients, Step(c) \/ Fail(c)
    PROVE  MetaKnown'
<1> SUFFICES ASSUME NEW x \in Clients, NEW d \in Docs, d \notin crossed', kb'[d] # NoBatch
             PROVE  /\ req'[x].at \in {"meta_clear", "meta_write"} =>
                           d = req'[x].doc /\ kb'[d] = req'[x].batch
                    /\ req'[x].at = "stamp" => ModelOf[kb'[d]] = ModelOf[req'[x].batch]
  BY DEF MetaKnown
<1>k. Kept(c) /\ req[c] # Idle /\ Counted(c) /\ Counted(x)
  BY StepKept DEF EachRequest
<1>r. req[x] \in ReqType /\ Shaped(req[x]) /\ req[c] \in ReqType /\ Shaped(req[c])
  BY DEF Base, TypeOK
<1>1. ASSUME req'[x].at \in {"meta_clear", "meta_write"}
      PROVE  d = req'[x].doc /\ kb'[d] = req'[x].batch
  <2>1. CASE x = c /\ ReplaceKb(c)
    <3>1. \A e \in Docs : kb'[e] = IF e = req[c].doc THEN req[c].batch ELSE NoBatch
      BY <2>1 DEF ReplaceKb
    <3>2. req'[c].batch = req[c].batch /\ req'[c].doc = req[c].doc
      BY <2>1, GoToFacts DEF ReplaceKb
    <3> QED
      BY <2>1, <3>1, <3>2
  <2>2. CASE ~(x = c /\ ReplaceKb(c))
    <3>1. /\ req[x].at \in {"meta_clear", "meta_write"}
          /\ req'[x].batch = req[x].batch /\ req'[x].doc = req[x].doc
      BY <1>1, <2>2, SwapStep
    <3>2. req[x].kind = "replace" /\ req[x] # Idle
      BY <1>r, <3>1, PhaseFacts DEF Idle
    <3>3. d \notin crossed /\ kb[d] # NoBatch => d = req[x].doc /\ kb[d] = req[x].batch
      BY <3>1 DEF MetaKnown
    <3>4. CASE x = c
      <4>1. ~AppendKb(c) /\ ~ReplaceKb(c)
        BY <3>1, <3>4 DEF AppendKb, ReplaceKb, At
      <4>2. kb'[d] = kb[d] /\ crossed' = crossed
        BY <4>1, KbStep
      <4> QED
        BY <3>1, <3>3, <4>2
    <3>5. CASE x # c
      <4>1. c \notin alone
        BY <1>k, <3>2, <3>5, AloneFacts
      <4>2. kb'[d] = kb[d] /\ crossed' = crossed
        BY <4>1, KbStep
      <4> QED
        BY <3>1, <3>3, <4>2
    <3> QED
      BY <3>4, <3>5
  <2> QED
    BY <2>1, <2>2
<1>2. ASSUME req'[x].at = "stamp"
      PROVE  ModelOf[kb'[d]] = ModelOf[req'[x].batch]
  <2>1. CASE req[x].at = "stamp" /\ req'[x].batch = req[x].batch
    <3>1. req[x].kind = "append" /\ req[x] # Idle
      BY <1>r, <2>1, PhaseFacts DEF Idle
    <3>2. d \notin crossed /\ kb[d] # NoBatch => ModelOf[kb[d]] = ModelOf[req[x].batch]
      BY <2>1 DEF MetaKnown
    <3>3. CASE AppendKb(c) /\ c \in alone /\ d = req[c].doc
      <4>1. x # c /\ req[c].kind = "append"
        BY <2>1, <3>3 DEF AppendKb, At
      <4>2. ModelOf[req[c].batch] = ModelOf[req[x].batch]
        BY <1>k, <3>1, <3>3, <4>1, AloneFacts
      <4>3. kb'[d] = req[c].batch
        BY <3>3, KbStep
      <4> QED
        BY <2>1, <4>2, <4>3
    <3>4. CASE ReplaceKb(c)
      <4>1. x # c /\ req[c].kind = "replace"
        BY <2>1, <3>4 DEF ReplaceKb, At
      <4>2. c \notin alone
        BY <1>k, <3>1, <4>1, AloneFacts
      <4>3. kb'[d] = NoBatch
        BY <3>4, <4>1, <4>2, KbStep
      <4> QED
        BY <4>3
    <3>5. CASE ~ReplaceKb(c) /\ ~(AppendKb(c) /\ c \in alone /\ d = req[c].doc)
      <4>1. kb'[d] = kb[d] /\ d \notin crossed
        BY <3>5, KbStep
      <4> QED
        BY <2>1, <3>2, <4>1
    <3> QED
      BY <3>3, <3>4, <3>5
  <2>2. CASE x = c /\ meta = NoModel /\ UNCHANGED <<kb, meta, crossed>>
    <3>1. kb[d] \in Batches /\ ModelOf[kb[d]] # meta
      BY <2>2, IngestAssumption DEF IngestAssumption, Base, TypeOK
    <3>2. PICK o \in Clients : req[o].at \in {"meta_clear", "meta_write"}
      BY <2>2, <3>1 DEF MetaDescribesKb
    <3>3. req[o].kind = "replace" /\ req[o] # Idle /\ Counted(o)
      BY <3>2, PhaseFacts DEF Base, TypeOK, EachRequest, Idle
    <3>4. d = req[o].doc
      BY <2>2, <3>2 DEF MetaKnown
    <3>5. o # c
      <4>1. CASE o = c
        <5>1. req[c].at \in {"meta_clear", "meta_write"} /\ req'[c].at = "stamp"
          BY <1>2, <2>2, <3>2, <4>1
        <5>2. req'[c] # Idle /\ req'[c] \in ReqType /\ Shaped(req'[c])
          BY <1>k, <5>1 DEF Kept, Idle
        <5>3. req'[c].kind = "append" /\ req'[c].kind = req[c].kind
          BY <1>k, <5>1, <5>2, PhaseFacts DEF Kept
        <5> QED
          BY <3>3, <4>1, <5>3
      <4> QED
        BY <4>1
    <3>6. o \notin alone
      BY <1>k, <3>3, <3>5, AloneFacts
    <3> QED
      BY <2>2, <3>3, <3>4, <3>6 DEF Counted
  <2> QED
    BY <1>2, <2>1, <2>2, SwapStep
<1> QED
  BY <1>1, <1>2

\* No step but the end of a replacement's meta swap relies on what meta says of
\* the stored documents.
LEMMA MetaStep ==
    ASSUME ~SharedHash, Failable \cap {"meta_clear", "meta_write"} = {},
           Base, EachRequest, MetaDescribesKb, MetaKnown, NEW c \in Clients, Step(c) \/ Fail(c)
    PROVE  MetaDescribesKb'
<1>k. Kept(c) /\ req[c] # Idle /\ Counted(c)
  BY StepKept DEF EachRequest
<1>r. req[c] \in ReqType /\ Shaped(req[c]) /\ (c \in alone => WorkDone(req[c]))
  BY DEF Base, TypeOK, EachRequest
<1>1. CASE \E o \in Clients \ {c} : req[o].at \in {"meta_clear", "meta_write"}
  BY <1>1, <1>k DEF Kept, MetaDescribesKb
<1>2. CASE req[c].at = "meta_clear"
  <2>1. ClearMeta(c)
    BY <1>2 DEF Step, Fail, Guard, GuardRefuses, Stamp, ListVectors, DropListed, DropDone,
         EnsureCollection, CreateCollection, CreateRefused, DeletePoints, PutPoints, PutRefused,
         UpsertHash, AppendKb, ReplaceKb, WriteMeta, DeleteKb, DeleteUnknown, DeleteVectors,
         Answer, At
  <2>2. req'[c].at = "meta_write"
    BY <2>1, GoToFacts DEF ClearMeta
  <2> QED
    BY <2>2 DEF MetaDescribesKb
<1>3. CASE req[c].at = "meta_write"
  <2>1. WriteMeta(c)
    BY <1>3 DEF Step, Fail, Guard, GuardRefuses, Stamp, ListVectors, DropListed, DropDone,
         EnsureCollection, CreateCollection, CreateRefused, DeletePoints, PutPoints, PutRefused,
         UpsertHash, AppendKb, ReplaceKb, ClearMeta, DeleteKb, DeleteUnknown, DeleteVectors,
         Answer, At
  <2>2. \A d \in Docs \ crossed : kb[d] # NoBatch => kb[d] = req[c].batch
    BY <1>3 DEF MetaKnown
  <2>3. kb' = kb /\ crossed' = crossed /\ meta' = ModelOf[req[c].batch]
    BY <2>1 DEF WriteMeta
  <2> QED
    BY <2>2, <2>3 DEF MetaDescribesKb
<1>4. CASE \A o \in Clients : req[o].at \notin {"meta_clear", "meta_write"}
  <2>1. \A d \in Docs \ crossed : kb[d] # NoBatch => ModelOf[kb[d]] = meta
    BY <1>4 DEF MetaDescribesKb
  <2>2. CASE ReplaceKb(c)
    <3>1. req'[c].at = "meta_clear"
      BY <2>2, GoToFacts DEF ReplaceKb
    <3> QED
      BY <3>1 DEF MetaDescribesKb
  <2>3. CASE AppendKb(c)
    <3>1. meta' = meta /\ (c \in alone => meta = ModelOf[req[c].batch])
      BY <1>r, <2>3 DEF AppendKb, At, WorkDone, AppendDone
    <3>2. CASE c \in alone
      <4>1. /\ crossed' = crossed \ {req[c].doc} /\ kb'[req[c].doc] = req[c].batch
            /\ \A d \in Docs : d # req[c].doc => kb'[d] = kb[d]
        BY <2>3, <3>2, KbStep
      <4> QED
        BY <2>1, <3>1, <3>2, <4>1 DEF MetaDescribesKb
    <3>3. CASE c \notin alone
      <4>1. crossed' = crossed /\ \A d \in Docs \ crossed : kb'[d] \in {kb[d], NoBatch}
        BY <2>3, <3>3, KbStep
      <4> QED
        BY <2>1, <3>1, <4>1 DEF MetaDescribesKb
    <3> QED
      BY <3>2, <3>3
  <2>4. CASE Stamp(c)
    <3>1. kb' = kb /\ crossed' = crossed /\ meta' = ModelOf[req[c].batch] /\ req[c].at = "stamp"
      BY <2>4 DEF Stamp, At
    <3> QED
      BY <3>1 DEF MetaDescribesKb, MetaKnown
  <2>5. CASE ~ReplaceKb(c) /\ ~AppendKb(c) /\ ~Stamp(c)
    <3>1. meta' = meta
      BY <1>4, <2>5
         DEF Step, Fail, Guard, GuardRefuses, ListVectors, DropListed, DropDone,
             EnsureCollection, CreateCollection, CreateRefused, DeletePoints, PutPoints,
             PutRefused, UpsertHash, ClearMeta, WriteMeta, DeleteKb, DeleteUnknown,
             DeleteVectors, Answer, At
    <3>2. crossed' = crossed /\ \A d \in Docs : kb'[d] \in {kb[d], NoBatch}
      BY <2>5, KbStep
    <3> QED
      BY <2>1, <3>1, <3>2 DEF MetaDescribesKb
  <2> QED
    BY <2>2, <2>3, <2>4, <2>5
<1> QED
  BY <1>1, <1>2, <1>3, <1>4

LEMMA MetaInvStep ==
    ASSUME ~SharedHash, Failable \cap {"meta_clear", "meta_write"} = {}
    PROVE  IngestInv /\ MetaDescribesKb /\ MetaKnown /\ [Next]_vars =>
               (IngestInv /\ MetaDescribesKb /\ MetaKnown)'
<1> SUFFICES ASSUME IngestInv, MetaDescribesKb, MetaKnown, [Next]_vars
             PROVE  MetaDescribesKb' /\ MetaKnown'
  BY InvStep
<1>1. Base /\ EachRequest /\ CopiesAreTrue
  BY DEF IngestInv, Base, EachRequest, CopiesAreTrue
<1>i. Idle.at = "idle"
  BY DEF Idle
<1>2. CASE UNCHANGED vars
  BY <1>2 DEF vars, MetaDescribesKb, MetaKnown
<1>3. ASSUME NEW c \in Clients, NEW call \in Call, Begin(c, call)
      PROVE  MetaDescribesKb' /\ MetaKnown'
  <2>1. kb' = kb /\ meta' = meta
    BY <1>3 DEF Begin
  <2>2. crossed \subseteq crossed'
    BY <1>3 DEF Begin
  <2>3. /\ \A x \in Clients : x # c => req'[x] = req[x]
        /\ req[c] = Idle /\ req'[c].at = FirstStep[call.kind]
    BY <1>1, <1>3, BeginKept
  <2>4. req'[c].at \notin {"stamp", "meta_clear", "meta_write"}
    BY <2>3, CallFacts DEF FirstStep
  <2>5. MetaDescribesKb'
    <3>1. CASE \A d \in Docs \ crossed : kb[d] # NoBatch => ModelOf[kb[d]] = meta
      BY <2>1, <2>2, <3>1 DEF MetaDescribesKb
    <3>2. CASE \E o \in Clients : req[o].at \in {"meta_clear", "meta_write"}
      BY <1>i, <2>3, <3>2 DEF MetaDescribesKb
    <3> QED
      BY <3>1, <3>2 DEF MetaDescribesKb
  <2>6. MetaKnown'
    BY <2>1, <2>2, <2>3, <2>4 DEF MetaKnown
  <2> QED
    BY <2>5, <2>6
<1>4. ASSUME NEW c \in Clients, Step(c) \/ Fail(c)
      PROVE  MetaDescribesKb' /\ MetaKnown'
  BY <1>1, <1>4, MetaStep, KnownStep
<1>5. ASSUME NEW p \in Processes, Crash(p)
      PROVE  MetaDescribesKb' /\ MetaKnown'
  <2>1. /\ \A x \in Clients : \/ req'[x] = req[x]
                              \/ req'[x] = Idle /\ req[x].at \in Failable
        /\ UNCHANGED <<kb, meta, crossed>>
    BY <1>1, <1>5, CrashKept
  <2>2. \A x \in Clients : req[x].at \in {"meta_clear", "meta_write"} => req'[x] = req[x]
    BY <2>1
  <2>3. MetaDescribesKb'
    BY <2>1, <2>2 DEF MetaDescribesKb
  <2>4. MetaKnown'
    BY <1>i, <2>1 DEF MetaKnown
  <2> QED
    BY <2>3, <2>4
<1>6. ASSUME NEW c \in Clients, Rewrite(c)
      PROVE  MetaDescribesKb' /\ MetaKnown'
  <2>1. Carried(c) /\ {req[c].at, req'[c].at} \cap {"stamp", "meta_clear", "meta_write"} = {}
    BY <1>1, <1>6, CopyKept, WriteBackKept DEF Rewrite
  <2>2. meta' = meta /\ crossed \subseteq crossed'
    BY <1>1, <1>6, RewriteAlone DEF Rewrite, CopyKb, RewriteKb
  <2>3. \A d \in Docs \ crossed : kb'[d] \in {kb[d], NoBatch}
    <3>1. ASSUME NEW d \in Docs, CopyKb(c, d) PROVE kb' = kb
      BY <3>1 DEF CopyKb
    <3>2. CASE RewriteKb(c)
      BY <1>1, <3>2 DEF RewriteKb, CopiesAreTrue, CopyIsTrue
    <3> QED
      BY <1>6, <3>1, <3>2 DEF Rewrite
  <2>4. MetaDescribesKb'
    <3>1. CASE \A d \in Docs \ crossed : kb[d] # NoBatch => ModelOf[kb[d]] = meta
      BY <2>2, <2>3, <3>1 DEF MetaDescribesKb
    <3>2. CASE \E o \in Clients : req[o].at \in {"meta_clear", "meta_write"}
      BY <2>1, <3>2 DEF MetaDescribesKb, Carried
    <3> QED
      BY <3>1, <3>2 DEF MetaDescribesKb
  <2>5. MetaKnown'
    <3> SUFFICES ASSUME NEW x \in Clients, NEW d \in Docs, d \notin crossed', kb'[d] # NoBatch
                 PROVE  /\ req'[x].at \in {"meta_clear", "meta_write"} =>
                               d = req'[x].doc /\ kb'[d] = req'[x].batch
                        /\ req'[x].at = "stamp" => ModelOf[kb'[d]] = ModelOf[req'[x].batch]
      BY DEF MetaKnown
    <3>1. d \notin crossed /\ kb'[d] = kb[d]
      BY <2>2, <2>3
    <3>2. CASE x = c
      BY <2>1, <3>2
    <3>3. CASE x # c
      <4>1. req'[x] = req[x]
        BY <2>1, <3>3 DEF Carried
      <4> QED
        BY <3>1, <4>1 DEF MetaKnown
    <3> QED
      BY <3>2, <3>3
  <2> QED
    BY <2>4, <2>5
<1> QED
  BY <1>2, <1>3, <1>4, <1>5, <1>6 DEF Next

\* With a collection of its own for vectors, and if no replacement is cut short
\* between its chunks and its meta record, the record names the model of every
\* document that rivals did not leave behind, outside that swap: the guard
\* compares with the truth, however requests overlap.
THEOREM MetaIsTrue ==
    ASSUME ~SharedHash, Failable \cap {"meta_clear", "meta_write"} = {}
    PROVE  Spec => []MetaDescribesKb
<1>1. Init => IngestInv /\ MetaDescribesKb /\ MetaKnown
  BY InvInit DEF Init, NothingStored, MetaDescribesKb, MetaKnown
<1>2. IngestInv /\ MetaDescribesKb /\ MetaKnown /\ [Next]_vars =>
          (IngestInv /\ MetaDescribesKb /\ MetaKnown)'
  BY MetaInvStep
<1> QED
  BY <1>1, <1>2, PTL DEF Spec

-----------------------------------------------------------------------------
\* The measure of a request is a number: what it has to drop is finite.
LEMMA LeftIsNat ==
    ASSUME IsFiniteSet(Docs), NEW r \in ReqType
    PROVE  /\ StepsLeft(r) \in Nat
           /\ r.at \notin {"list", "drop", "drop_rewrite"} => StepsLeft(r) = LeftAt[r.at]
           /\ r.at = "list" => StepsLeft(r) = 11 + 2 * Cardinality(Docs)
           /\ r.at = "drop" => StepsLeft(r) = 10 + 2 * Cardinality(r.todo)
           /\ r.at = "drop_rewrite" => StepsLeft(r) = 11 + 2 * Cardinality(r.todo)
           /\ IsFiniteSet(r.todo) /\ Cardinality(r.todo) \in Nat
           /\ Cardinality(Docs) \in Nat /\ Cardinality(r.todo) <= Cardinality(Docs)
<1>1. /\ IsFiniteSet(r.todo) /\ Cardinality(r.todo) \in Nat
      /\ Cardinality(Docs) \in Nat /\ Cardinality(r.todo) <= Cardinality(Docs)
  BY FS_Subset, FS_CardinalityType DEF ReqType
<1>2. r.at \notin {"list", "drop", "drop_rewrite"} => LeftAt[r.at] \in Nat
  BY DEF ReqType, Phases, LeftAt
<1> QED
  BY <1>1, <1>2 DEF StepsLeft

\* A step of a request brings it nearer to its end: a round trip is not made
\* twice, except that each document to drop has its own.
LEMMA StepNearer ==
    ASSUME IsFiniteSet(Docs), Base, NEW c \in Clients, Step(c) \/ Fail(c)
    PROVE  StepsLeft(req'[c]) \in Nat /\ StepsLeft(req'[c]) < StepsLeft(req[c])
<1> DEFINE r == req[c]
           s == req'[c]
<1>r. r \in ReqType /\ s \in ReqType /\ r.at \in Phases /\ req \in [Clients -> ReqType]
  <2>1. r.at # "idle"
    BY StepKept, PhaseFacts DEF Base, TypeOK
  <2> QED
    BY <2>1, StepKept DEF Base, TypeOK, Kept, ReqType
<1>n. /\ StepsLeft(s) \in Nat /\ StepsLeft(r) \in Nat /\ Cardinality(Docs) \in Nat
      /\ Cardinality(r.todo) \in Nat
  BY <1>r, LeftIsNat
<1> SUFFICES StepsLeft(s) < StepsLeft(r)
  BY <1>n
<1>1. CASE GuardRefuses(c) \/ CreateRefused(c) \/ PutRefused(c) \/ DeleteUnknown(c)
           \/ Answer(c) \/ Fail(c)
  <2>1. s = Idle
    BY <1>1, EndKept DEF GuardRefuses, CreateRefused, PutRefused, DeleteUnknown, Answer, Fail
  <2>2. StepsLeft(s) = 0
    BY <2>1 DEF Idle, StepsLeft, LeftAt
  <2>3. r.at \notin {"list", "drop", "drop_rewrite"} => LeftAt[r.at] > 0
    BY <1>r DEF Phases, LeftAt
  <2> QED
    BY <1>r, <1>n, <2>2, <2>3, LeftIsNat
<1>2. CASE ListVectors(c)
  <2>1. r.at = "list" /\ s.at = "drop"
    BY <1>2, LookFacts DEF ListVectors, At
  <2>2. StepsLeft(r) = 11 + 2 * Cardinality(Docs) /\ StepsLeft(s) = 10 + 2 * Cardinality(s.todo)
    BY <1>r, <2>1, LeftIsNat
  <2>3. Cardinality(s.todo) \in Nat /\ Cardinality(s.todo) <= Cardinality(Docs)
    BY <1>r, LeftIsNat
  <2> QED
    BY <1>n, <2>2, <2>3
<1>3. ASSUME NEW d \in Docs, DropListed(c, d)
      PROVE  StepsLeft(s) < StepsLeft(r)
  <2>1. r.at = "drop" /\ s.at = "drop" /\ d \in r.todo /\ s.todo = r.todo \ {d}
    BY <1>3, <1>r DEF DropListed, At, ReqType
  <2>f. IsFiniteSet(r.todo)
    BY <1>r, LeftIsNat
  <2>2. Cardinality(s.todo) = Cardinality(r.todo) - 1
    BY <2>1, <2>f, FS_RemoveElement
  <2>3. StepsLeft(r) = 10 + 2 * Cardinality(r.todo) /\ StepsLeft(s) = 10 + 2 * Cardinality(s.todo)
    BY <1>r, <2>1, LeftIsNat
  <2> QED
    BY <1>n, <2>2, <2>3
<1>4. CASE DropDone(c)
  <2>1. r.at = "drop" /\ s.at \in {"ensure", "hash"}
    BY <1>4, <1>r DEF DropDone, At, GoTo, UpsertStep, ReqType
  <2>2. StepsLeft(r) = 10 + 2 * Cardinality(r.todo) /\ StepsLeft(s) = LeftAt[s.at]
    BY <1>r, <2>1, LeftIsNat
  <2> QED
    BY <1>n, <2>1, <2>2 DEF LeftAt
<1>5. CASE Guard(c) \/ Stamp(c) \/ EnsureCollection(c) \/ CreateCollection(c)
           \/ DeletePoints(c) \/ PutPoints(c) \/ UpsertHash(c) \/ AppendKb(c)
           \/ ReplaceKb(c) \/ ClearMeta(c) \/ WriteMeta(c) \/ DeleteKb(c) \/ DeleteVectors(c)
  <2>1. /\ {r.at, s.at} \cap {"list", "drop", "drop_rewrite"} = {}
        /\ LeftAt[s.at] < LeftAt[r.at]
    <3>1. CASE DeleteVectors(c)
      <4>1. r.at = "vec_delete" /\ s.at = "answer"
        BY <3>1, LookFacts DEF DeleteVectors, At
      <4> QED
        BY <4>1 DEF LeftAt
    <3>2. CASE ~DeleteVectors(c)
      <4>1. PICK phase :
                /\ GoTo(c, phase)
                /\ <<r.at, phase>> \in
                     {<<"guard", "stamp">>, <<"guard", "ensure">>, <<"guard", "hash">>,
                      <<"stamp", "ensure">>, <<"stamp", "hash">>,
                      <<"ensure", "create">>, <<"ensure", "unpoint">>, <<"create", "unpoint">>,
                      <<"unpoint", "point">>, <<"point", "kb">>, <<"hash", "kb">>,
                      <<"kb", "answer">>, <<"kb", "meta_clear">>, <<"meta_clear", "meta_write">>,
                      <<"meta_write", "answer">>, <<"kb_delete", "vec_delete">>}
        <5>1. CASE Guard(c) \/ Stamp(c)
          BY <5>1 DEF Guard, Stamp, At, UpsertStep
        <5>2. CASE EnsureCollection(c) \/ CreateCollection(c)
          BY <5>2 DEF EnsureCollection, CreateCollection, At
        <5>3. CASE DeletePoints(c) \/ PutPoints(c)
          BY <5>3 DEF DeletePoints, PutPoints, At
        <5>4. CASE UpsertHash(c)
          BY <5>4 DEF UpsertHash, At
        <5>5. CASE AppendKb(c) \/ ReplaceKb(c)
          BY <5>5 DEF AppendKb, ReplaceKb, At
        <5>6. CASE ClearMeta(c) \/ WriteMeta(c) \/ DeleteKb(c)
          BY <5>6 DEF ClearMeta, WriteMeta, DeleteKb, At
        <5> QED
          BY <1>5, <3>2, <5>1, <5>2, <5>3, <5>4, <5>5, <5>6
      <4>2. s.at = phase
        BY <4>1, GoToFacts
      <4> QED
        BY <4>1, <4>2 DEF LeftAt
    <3> QED
      BY <3>1, <3>2
  <2>2. StepsLeft(r) = LeftAt[r.at] /\ StepsLeft(s) = LeftAt[s.at]
    BY <1>r, <2>1, LeftIsNat
  <2> QED
    BY <2>1, <2>2
<1> QED
  BY <1>1, <1>2, <1>3, <1>4, <1>5 DEF Step

\* A rewrite takes two round trips in the place of one.
LEMMA RewriteNearer ==
    ASSUME IsFiniteSet(Docs), Base, NEW c \in Clients, Rewrite(c)
    PROVE  StepsLeft(req'[c]) \in Nat /\ StepsLeft(req'[c]) < StepsLeft(req[c])
<1> DEFINE r == req[c]
           s == req'[c]
<1>r. r \in ReqType /\ s \in ReqType
  BY CopyKept, WriteBackKept DEF Base, TypeOK, Rewrite
<1>n. /\ StepsLeft(s) \in Nat /\ StepsLeft(r) \in Nat
      /\ Cardinality(r.todo) \in Nat /\ Cardinality(s.todo) \in Nat
  BY <1>r, LeftIsNat
<1>1. CASE r.at = "drop"
  <2>1. PICK d \in Docs : d \in r.todo /\ s.todo = r.todo \ {d} /\ s.at = "drop_rewrite"
    BY <1>1, CopyKept, WriteBackKept DEF Rewrite
  <2>f. IsFiniteSet(r.todo)
    BY <1>r, LeftIsNat
  <2>2. Cardinality(s.todo) = Cardinality(r.todo) - 1
    BY <2>1, <2>f, FS_RemoveElement
  <2>3. /\ StepsLeft(r) = 10 + 2 * Cardinality(r.todo)
        /\ StepsLeft(s) = 11 + 2 * Cardinality(s.todo)
    BY <1>r, <1>1, <2>1, LeftIsNat
  <2> QED
    BY <1>n, <2>2, <2>3
<1>2. CASE r.at = "drop_rewrite"
  <2>1. s.todo = r.todo /\ s.at = "drop"
    BY <1>2, CopyKept, WriteBackKept DEF Rewrite
  <2>2. /\ StepsLeft(r) = 11 + 2 * Cardinality(r.todo)
        /\ StepsLeft(s) = 10 + 2 * Cardinality(s.todo)
    BY <1>r, <1>2, <2>1, LeftIsNat
  <2> QED
    BY <1>n, <2>1, <2>2
<1>3. CASE r.at \notin {"drop", "drop_rewrite"}
  <2>1. <<r.at, s.at>> \in {<<"kb_delete", "kb_rewrite">>, <<"kb_rewrite", "vec_delete">>,
                            <<"vec_delete", "vec_rewrite">>, <<"vec_rewrite", "answer">>}
    BY <1>3, CopyKept, WriteBackKept DEF Rewrite
  <2>2. StepsLeft(r) = LeftAt[r.at] /\ StepsLeft(s) = LeftAt[s.at]
    BY <1>r, <2>1, LeftIsNat
  <2> QED
    BY <1>n, <2>1, <2>2 DEF LeftAt
<1> QED
  BY <1>n, <1>1, <1>2, <1>3

\* However many requests overlap and whatever fails, a request takes at most as
\* many steps as its handler has round trips, at most two for each document a
\* replacement drops: no request can go round in a circle.
THEOREM NearerEveryStep ==
    ASSUME IsFiniteSet(Docs)
    PROVE  Spec => EveryStepIsNearer
<1> DEFINE Nearer ==
        \A c \in Clients :
          /\ Step(c) \/ Rewrite(c) \/ Fail(c) =>
                StepsLeft(req'[c]) \in Nat /\ StepsLeft(req'[c]) < StepsLeft(req[c])
          /\ req[c] # Idle => StepsLeft(req'[c]) <= StepsLeft(req[c])
<1>1. Base /\ Next => Nearer
  <2> SUFFICES ASSUME Base, Next, NEW c \in Clients
               PROVE  /\ Step(c) \/ Rewrite(c) \/ Fail(c) =>
                            /\ StepsLeft(req'[c]) \in Nat
                            /\ StepsLeft(req'[c]) < StepsLeft(req[c])
                      /\ req[c] # Idle => StepsLeft(req'[c]) <= StepsLeft(req[c])
    OBVIOUS
  <2>r. StepsLeft(req[c]) \in Nat
    BY LeftIsNat DEF Base, TypeOK
  <2>1. CASE Step(c) \/ Rewrite(c) \/ Fail(c)
    BY <2>1, <2>r, StepNearer, RewriteNearer
  <2>2. ASSUME NEW o \in Clients, o # c, Step(o) \/ Rewrite(o) \/ Fail(o)
        PROVE  req'[c] = req[c]
    <3>1. CASE Step(o) \/ Fail(o)
      BY <2>2, <3>1, StepKept DEF Kept
    <3>2. CASE Rewrite(o)
      BY <2>2, <3>2, CopyKept, WriteBackKept DEF Rewrite, Carried
    <3> QED
      BY <2>2, <3>1, <3>2
  <2>3. ASSUME NEW o \in Clients, NEW other \in Call, Begin(o, other)
        PROVE  req'[c] = req[c] \/ req[c] = Idle
    BY <2>3, BeginKept
  <2>4. ASSUME NEW p \in Processes, Crash(p)
        PROVE  req'[c] = req[c] \/ StepsLeft(req'[c]) = 0
    <3>1. StepsLeft(Idle) = 0
      BY DEF Idle, StepsLeft, LeftAt
    <3> QED
      BY <2>4, <3>1, CrashKept
  <2> QED
    BY <2>r, <2>1, <2>2, <2>3, <2>4 DEF Next
<1>2. Base /\ [Next]_vars => [Nearer]_vars
  BY <1>1
<1>3. Spec => []Base
  BY BaseInit, BaseStep, PTL DEF Spec
<1> QED
  BY <1>2, <1>3, PTL DEF Spec, EveryStepIsNearer
=============================================================================
