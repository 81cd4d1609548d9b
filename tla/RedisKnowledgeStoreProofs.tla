--------------------- MODULE RedisKnowledgeStoreProofs ---------------------
(***************************************************************************)
(* Proofs about RedisKnowledgeStore, for any sets of documents, batches    *)
(* and clients, any number of chunks and any scan patterns, whatever calls *)
(* overlap and wherever they fail: its type invariant, the invariant       *)
(* behind its properties, that only documents calls met on can be torn,    *)
(* and that a call takes no document but those within its reach.  For ids  *)
(* that match their own fields only and a hash without pre-Wave-4 entries: *)
(* that the store implements KnowledgeBase as long as no two calls meet on *)
(* a document, as when callers wait for each answer about one.             *)
(***************************************************************************)
EXTENDS RedisKnowledgeStore, TLAPS

LEMMA FieldsFacts ==
    /\ Empty \in [Fields -> Batches \cup {NoBatch}]
    /\ 0 \in Idx
    /\ \A b \in Batches : 0 < ChunkCount[b] /\ ChunkCount[b] \in Nat
    /\ \A d \in Docs : Scanned(d) \subseteq Fields
    /\ Idle \in OpType
BY StoreAssumption DEF Empty, Idx, Scanned, Fields, Idle, OpType, StoreAssumption

LEMMA BusyType ==
    ASSUME NEW k \in Kinds, NEW d \in Docs, NEW b \in Batches \cup {NoBatch},
           NEW todo \in SUBSET Fields
    PROVE  Busy(k, d, b, todo) \in OpType
BY FieldsFacts DEF Busy, OpType, Idle, Kinds, Empty

LEMMA ImageType ==
    ASSUME TypeOK, NEW d, NEW old
    PROVE  Image(d, old) \in [Fields -> Batches \cup {NoBatch}]
BY DEF Image, TypeOK

\* A call deals with documents only.
LEMMA TouchesDocs ==
    ASSUME NEW o, o.doc \in Docs
    PROVE  Touches(o) \subseteq Docs
BY StoreAssumption DEF Touches, StoreAssumption

LEMMA EnterType ==
    ASSUME TypeOK, NEW c \in Clients, NEW mine \in SUBSET Docs,
           NEW undisturbed \in SUBSET Clients, Enter(c, mine, undisturbed)
    PROVE  alone' \subseteq Clients /\ crossed' \subseteq Docs
BY DEF Enter, TypeOK

LEMMA TypeStep == TypeOK /\ [Next]_vars => TypeOK'
<1> SUFFICES ASSUME TypeOK, [Next]_vars PROVE TypeOK'
  OBVIOUS
<1>0. CASE UNCHANGED vars
  BY <1>0 DEF vars, TypeOK
<1>1. ASSUME NEW c \in Clients, NEW k \in Kinds, NEW d \in Docs,
             NEW b \in Batches \cup {NoBatch}, NEW todo \in SUBSET Fields,
             Start(c, Busy(k, d, b, todo))
      PROVE  TypeOK'
  <2>1. Busy(k, d, b, todo) \in OpType /\ Busy(k, d, b, todo).doc = d
    BY BusyType DEF Busy, Idle
  <2>2. alone' \subseteq Clients /\ crossed' \subseteq Docs
    BY <1>1, <2>1, TouchesDocs, EnterType DEF Start, TypeOK
  <2> QED
    BY <1>1, <2>1, <2>2 DEF TypeOK, Start
<1>2. ASSUME NEW c \in Clients, NEW d \in Docs,
             StartDelete(c, d) \/ \E b \in Batches : StartAppend(c, d, b) \/ StartReplace(c, d, b)
      PROVE  TypeOK'
  BY <1>1, <1>2, FieldsFacts DEF StartAppend, StartDelete, StartReplace, Kinds
<1>3. ASSUME NEW c \in Clients, NEW F \in SUBSET op[c].todo, Scan(c, F)
      PROVE  TypeOK'
  <2>1. op[c] \in OpType
    BY DEF TypeOK
  <2>2. /\ op[c].todo \ F \in SUBSET Fields
        /\ op[c].found \cup {f \in F : chunk[f] # NoBatch} \in SUBSET Fields
    BY <1>3, <2>1 DEF OpType
  <2>3. [op[c] EXCEPT !.todo = @ \ F,
                      !.found = @ \cup {f \in F : chunk[f] # NoBatch}] \in OpType
    BY <2>1, <2>2 DEF OpType
  <2>4. op' \in [Clients -> OpType]
    BY <1>3, <2>3 DEF Scan, TypeOK
  <2> QED
    BY <1>3, <2>4 DEF Scan, TypeOK
<1>4. ASSUME NEW c \in Clients,
             \/ AppendExec(c) \/ DeleteExec(c) \/ FallbackNone(c) \/ FallbackWrite(c)
             \/ ReplaceExec(c) \/ Fail(c)
      PROVE  TypeOK'
  <2>1. op' \in [Clients -> OpType] /\ alone' \subseteq Clients
    BY <1>4, FieldsFacts
       DEF TypeOK, AppendExec, DeleteExec, FallbackNone, FallbackWrite, ReplaceExec, Fail, Finish
  <2>2. op[c].batch \in Batches \cup {NoBatch} /\ op[c].image \in [Fields -> Batches \cup {NoBatch}]
    BY DEF TypeOK, OpType
  <2>3. chunk' \in [Fields -> Batches \cup {NoBatch}]
    BY <1>4, <2>2
       DEF TypeOK, AppendExec, DeleteExec, FallbackNone, FallbackWrite, ReplaceExec, Fail
  <2>4. legacy' \in [Fields -> Batches \cup {NoBatch}]
    BY <1>4, FieldsFacts
       DEF TypeOK, AppendExec, DeleteExec, FallbackNone, FallbackWrite, ReplaceExec, Fail
  <2>5. crossed' \subseteq Docs
    BY <1>4 DEF TypeOK, AppendExec, DeleteExec, FallbackNone, FallbackWrite, ReplaceExec, Fail, Settle
  <2> QED
    BY <2>1, <2>3, <2>4, <2>5 DEF TypeOK
<1>5. ASSUME NEW c \in Clients, NEW old, FallbackRead(c, old)
      PROVE  TypeOK'
  <2>1. op[c] \in OpType
    BY DEF TypeOK
  <2>2. Image(op[c].doc, old) \in [Fields -> Batches \cup {NoBatch}]
    BY ImageType
  <2>3. [op[c] EXCEPT !.kind = "rewrite", !.image = Image(op[c].doc, old)] \in OpType
    BY <2>1, <2>2 DEF OpType
  <2>4. alone' \subseteq Clients /\ crossed' \subseteq Docs
    BY <1>5, EnterType DEF FallbackRead, TypeOK
  <2> QED
    BY <1>5, <2>3, <2>4 DEF FallbackRead, TypeOK
<1> QED
  BY <1>0, <1>2, <1>3, <1>4, <1>5 DEF Next

\* Every variable keeps its type whatever calls overlap and whatever the ids.
THEOREM TypeCorrect == Spec => []TypeOK
<1>1. Init => TypeOK
  BY FieldsFacts, StoreAssumption DEF Init, TypeOK, StoreAssumption
<1> QED
  BY <1>1, TypeStep, PTL DEF Spec

-----------------------------------------------------------------------------
(***************************************************************************)
(* The invariant, call by call.                                            *)
(***************************************************************************)

\* The documents other calls may have changed under client c.
Near(c) == IF c \in alone THEN {} ELSE crossed

\* What the invariant says of one call o, `near` being its Near.
Fits(o, near, met, ck, lg) ==
    /\ o.kind \in {"append", "delete"} => \A d \in ScanHits[o.doc], i \in Idx :
          d \notin near /\ ck[<<d, i>>] # NoBatch => <<d, i>> \in o.todo \cup o.found
    /\ o.kind = "rewrite" => \A d \in Docs :
          /\ d = o.doc => \A i \in Idx : o.image[<<d, i>>] = NoBatch
          /\ d # o.doc /\ d \notin near => \A i \in Idx :
                /\ lg[<<d, i>>] # NoBatch => o.image[<<d, i>>] # NoBatch
                /\ ck[<<d, i>>] # NoBatch =>
                      o.image[<<d, i>>] \in {ck[<<d, i>>], lg[<<d, i>>]} \ {NoBatch}
          /\ d \notin met /\ Regular(d) => Whole(d, o.image)

\* What it says of its shape.
Shaped(o) ==
    /\ o.kind = "idle" => o = Idle
    /\ o.kind # "idle" => o.doc \in Docs /\ o.todo \cup o.found \subseteq Scanned(o.doc)
    /\ o.kind \in {"append", "replace"} => o.batch \in Batches
    /\ o.kind = "delete" => o.batch = NoBatch

LEMMA StoreInvIs ==
    StoreInv <=> /\ TypeOK /\ NoTornDocument /\ LegacyIsOld /\ MeetingsAreKnown
                 /\ \A c \in Clients : /\ Fits(op[c], Near(c), crossed, chunk, legacy)
                                       /\ Shaped(op[c])
                                       /\ op[c].kind = "idle" => c \notin alone
<1>1. ScanCovers /\ ImagesAreTrue <=>
         \A c \in Clients : Fits(op[c], Near(c), crossed, chunk, legacy)
  BY DEF ScanCovers, ImagesAreTrue, Fits, Near, Undisturbed
<1>2. CallsAreShaped <=>
         \A c \in Clients : Shaped(op[c]) /\ (op[c].kind = "idle" => c \notin alone)
  BY DEF CallsAreShaped, Shaped
<1> QED
  BY <1>1, <1>2 DEF StoreInv

LEMMA StoreInvNext ==
    StoreInv' <=> /\ TypeOK' /\ NoTornDocument' /\ LegacyIsOld' /\ MeetingsAreKnown'
                  /\ \A c \in Clients : /\ Fits(op'[c], Near(c)', crossed', chunk', legacy')
                                        /\ Shaped(op'[c])
                                        /\ op'[c].kind = "idle" => c \notin alone'
<1>1. ScanCovers' /\ ImagesAreTrue' <=>
         \A c \in Clients : Fits(op'[c], Near(c)', crossed', chunk', legacy')
  BY DEF ScanCovers, ImagesAreTrue, Fits, Near, Undisturbed
<1>2. CallsAreShaped' <=>
         \A c \in Clients : Shaped(op'[c]) /\ (op'[c].kind = "idle" => c \notin alone')
  BY DEF CallsAreShaped, Shaped
<1> QED
  BY <1>1, <1>2 DEF StoreInv

\* What the invariant says of a call goes on holding while others write only
\* where it counts them as near, or empty documents.
LEMMA FitsLater ==
    ASSUME NEW o, o.kind # "idle" => o.doc \in Docs, NEW near, NEW near2, NEW met, NEW met2,
           NEW ck, NEW ck2, NEW lg, NEW lg2,
           Fits(o, near, met, ck, lg),
           near \cap Touches(o) \subseteq near2, met \cap Touches(o) \subseteq met2,
           \A d \in Touches(o) \ near2 : \A i \in Idx :
              \/ ck2[<<d, i>>] = ck[<<d, i>>] /\ lg2[<<d, i>>] = lg[<<d, i>>]
              \/ ck2[<<d, i>>] = NoBatch /\ lg2[<<d, i>>] = NoBatch
    PROVE  Fits(o, near2, met2, ck2, lg2)
<1>1. ASSUME o.kind \in {"append", "delete"}, NEW d \in ScanHits[o.doc], NEW i \in Idx,
             d \notin near2, ck2[<<d, i>>] # NoBatch
      PROVE  <<d, i>> \in o.todo \cup o.found
  <2>1. d \in Touches(o)
    BY <1>1 DEF Touches
  <2>2. d \notin near /\ ck[<<d, i>>] # NoBatch
    BY <1>1, <2>1
  <2> QED
    BY <1>1, <2>2 DEF Fits
<1>2. ASSUME o.kind = "rewrite", NEW d \in Docs
      PROVE  /\ d = o.doc => \A i \in Idx : o.image[<<d, i>>] = NoBatch
             /\ d # o.doc /\ d \notin near2 => \A i \in Idx :
                   /\ lg2[<<d, i>>] # NoBatch => o.image[<<d, i>>] # NoBatch
                   /\ ck2[<<d, i>>] # NoBatch =>
                         o.image[<<d, i>>] \in {ck2[<<d, i>>], lg2[<<d, i>>]} \ {NoBatch}
             /\ d \notin met2 /\ Regular(d) => Whole(d, o.image)
  <2>1. d \in Touches(o)
    BY <1>2 DEF Touches
  <2>2. /\ d = o.doc => \A i \in Idx : o.image[<<d, i>>] = NoBatch
        /\ d # o.doc /\ d \notin near => \A i \in Idx :
              /\ lg[<<d, i>>] # NoBatch => o.image[<<d, i>>] # NoBatch
              /\ ck[<<d, i>>] # NoBatch =>
                    o.image[<<d, i>>] \in {ck[<<d, i>>], lg[<<d, i>>]} \ {NoBatch}
        /\ d \notin met /\ Regular(d) => Whole(d, o.image)
    BY <1>2 DEF Fits
  <2>3. ASSUME d # o.doc, d \notin near2, NEW i \in Idx
        PROVE  /\ lg2[<<d, i>>] # NoBatch => o.image[<<d, i>>] # NoBatch
               /\ ck2[<<d, i>>] # NoBatch =>
                     o.image[<<d, i>>] \in {ck2[<<d, i>>], lg2[<<d, i>>]} \ {NoBatch}
    <3>1. \/ ck2[<<d, i>>] = ck[<<d, i>>] /\ lg2[<<d, i>>] = lg[<<d, i>>]
          \/ ck2[<<d, i>>] = NoBatch /\ lg2[<<d, i>>] = NoBatch
      BY <2>1, <2>3
    <3> QED
      BY <2>1, <2>2, <2>3, <3>1
  <2> QED
    BY <2>1, <2>2, <2>3
<1> QED
  BY <1>1, <1>2 DEF Fits

\* A call begins to deal with the documents of `mine`.
LEMMA EnterStep ==
    ASSUME StoreInv, TypeOK', NEW c \in Clients, NEW undisturbed,
           undisturbed \subseteq alone \cup {c}, Touches(op'[c]) \subseteq Docs,
           \A o \in Clients \ {c} : op'[o] = op[o],
           Enter(c, Touches(op'[c]), undisturbed)
    PROVE  /\ crossed \subseteq crossed'
           /\ MeetingsAreKnown'
           /\ \A o \in Clients \ {c} : (o \in alone' => o \in alone) /\ Near(o) \subseteq Near(o)'
<1> DEFINE mine == Touches(op'[c])
<1>1. crossed \subseteq crossed'
  BY DEF Enter
<1>2. \A o \in Clients \ {c} : o \in alone' => o \in alone
  BY DEF Enter
<1>3. \A o \in Clients \ {c} : Near(o) \subseteq Near(o)'
  BY <1>1, <1>2 DEF Near
<1>4. ASSUME NEW o \in Clients \ {c}
      PROVE  /\ mine \cap Touches(op[o]) \subseteq crossed'
             /\ c \in alone' \/ o \in alone' => mine \cap Touches(op[o]) = {}
  BY DEF Enter, Met
<1>5. ASSUME NEW x \in Clients, NEW y \in Clients, x # y
      PROVE  /\ Touches(op'[x]) \cap Touches(op'[y]) \subseteq crossed'
             /\ x \in alone' => Touches(op'[x]) \cap Touches(op'[y]) = {}
  <2>1. CASE x = c
    BY <1>4, <1>5, <2>1
  <2>2. CASE y = c
    BY <1>4, <1>5, <2>2
  <2>3. CASE x # c /\ y # c
    BY <1>1, <1>2, <1>5, <2>3 DEF StoreInv, MeetingsAreKnown
  <2> QED
    BY <2>1, <2>2, <2>3
<1> QED
  BY <1>1, <1>2, <1>3, <1>5 DEF MeetingsAreKnown

\* A call starts, or goes on to rewrite the hash.
LEMMA EnterInv ==
    ASSUME StoreInv, TypeOK', NEW c \in Clients, NEW undisturbed, NEW o \in OpType,
           undisturbed \subseteq alone \cup {c},
           op' = [op EXCEPT ![c] = o], o.kind # "idle", Shaped(o),
           Enter(c, Touches(o), undisturbed), UNCHANGED <<chunk, legacy>>,
           Fits(o, Near(c)', crossed', chunk, legacy)
    PROVE  StoreInv'
<1>1. op \in [Clients -> OpType]
  BY DEF StoreInv, TypeOK
<1>2. op'[c] = o /\ \A x \in Clients \ {c} : op'[x] = op[x]
  BY <1>1
<1>3. Touches(o) \subseteq Docs
  BY TouchesDocs DEF Shaped
<1>4. /\ crossed \subseteq crossed'
      /\ MeetingsAreKnown'
      /\ \A x \in Clients \ {c} : (x \in alone' => x \in alone) /\ Near(x) \subseteq Near(x)'
  BY <1>2, <1>3, EnterStep
<1>5. NoTornDocument' /\ LegacyIsOld'
  BY <1>4 DEF StoreInv, NoTornDocument, LegacyIsOld
<1>6. ASSUME NEW x \in Clients \ {c}
      PROVE  /\ Fits(op'[x], Near(x)', crossed', chunk', legacy')
             /\ Shaped(op'[x])
             /\ op'[x].kind = "idle" => x \notin alone'
  <2>1. /\ Fits(op[x], Near(x), crossed, chunk, legacy) /\ Shaped(op[x])
        /\ op[x].kind = "idle" => x \notin alone
    BY StoreInvIs
  <2>2. Fits(op[x], Near(x)', crossed', chunk', legacy')
    BY <1>4, <2>1, FitsLater DEF Shaped
  <2> QED
    BY <1>2, <1>4, <2>1, <2>2
<1>7. /\ Fits(op'[c], Near(c)', crossed', chunk', legacy')
      /\ Shaped(op'[c])
      /\ op'[c].kind # "idle"
  BY <1>2
<1> QED
  BY <1>4, <1>5, <1>6, <1>7, StoreInvNext

\* A call ends; out of the documents it deals with it leaves entries as they
\* were or empties them, and the documents calls met on only it may settle.
LEMMA FinishInv ==
    ASSUME StoreInv, TypeOK', NEW c \in Clients, op[c].kind # "idle", Finish(c),
           crossed' = crossed \/ (Settle(c) /\ op[c].doc \in Touches(op[c])),
           legacy' = legacy \/ legacy' = Empty, NoTornDocument',
           \A d \in Docs \ Touches(op[c]), i \in Idx :
              \/ chunk'[<<d, i>>] = chunk[<<d, i>>] /\ legacy'[<<d, i>>] = legacy[<<d, i>>]
              \/ chunk'[<<d, i>>] = NoBatch /\ legacy'[<<d, i>>] = NoBatch
    PROVE  StoreInv'
<1>1. op \in [Clients -> OpType]
  BY DEF StoreInv, TypeOK
<1>2. op'[c] = Idle /\ \A o \in Clients \ {c} : op'[o] = op[o]
  BY <1>1 DEF Finish
<1>3. /\ c \notin alone'
      /\ \A o \in Clients \ {c} : o \in alone' <=> o \in alone
  BY DEF Finish
<1>4. Touches(Idle) = {} /\ Idle.kind = "idle"
  BY DEF Touches, Idle
<1>5. /\ crossed' \subseteq crossed
      /\ c \notin alone => crossed' = crossed
      /\ \A d \in crossed \ crossed' : c \in alone /\ d \in Touches(op[c])
  BY DEF Settle
<1>6. \A o \in Clients \ {c} :
         /\ Touches(op[c]) \cap Touches(op[o]) \subseteq crossed
         /\ c \in alone \/ o \in alone => Touches(op[c]) \cap Touches(op[o]) = {}
  BY DEF StoreInv, MeetingsAreKnown
<1>7. MeetingsAreKnown'
  <2> SUFFICES ASSUME NEW x \in Clients, NEW y \in Clients, x # y
               PROVE  /\ Touches(op'[x]) \cap Touches(op'[y]) \subseteq crossed'
                      /\ x \in alone' => Touches(op'[x]) \cap Touches(op'[y]) = {}
    BY DEF MeetingsAreKnown
  <2>1. CASE x = c \/ y = c
    BY <1>2, <1>4, <2>1
  <2>2. CASE x # c /\ y # c
    BY <1>2, <1>3, <1>5, <1>6, <2>2 DEF StoreInv, MeetingsAreKnown
  <2> QED
    BY <2>1, <2>2
<1>8. LegacyIsOld'
  BY DEF StoreInv, LegacyIsOld, Empty, Fields
<1>9. ASSUME NEW o \in Clients \ {c}
      PROVE  /\ Fits(op'[o], Near(o)', crossed', chunk', legacy')
             /\ Shaped(op'[o])
             /\ op'[o].kind = "idle" => o \notin alone'
  <2>1. /\ Fits(op[o], Near(o), crossed, chunk, legacy) /\ Shaped(op[o])
        /\ op[o].kind = "idle" => o \notin alone
    BY StoreInvIs
  <2>2. crossed \cap Touches(op[o]) \subseteq crossed'
    BY <1>5, <1>6
  <2>3. Near(o) \cap Touches(op[o]) \subseteq Near(o)'
    BY <1>3, <2>2 DEF Near
  <2>4. op[o].kind # "idle" => op[o].doc \in Docs
    BY <2>1 DEF Shaped
  <2>5. Touches(op[o]) \subseteq Docs
    <3>1. CASE op[o].kind = "idle"
      BY <3>1 DEF Touches
    <3> QED
      BY <2>4, <3>1, TouchesDocs
  <2>6. \A d \in Touches(op[o]) \ Near(o)' : d \notin Touches(op[c])
    BY <1>3, <1>5, <1>6 DEF Near
  <2>7. Fits(op[o], Near(o)', crossed', chunk', legacy')
    BY <2>1, <2>2, <2>3, <2>4, <2>5, <2>6, FitsLater
  <2> QED
    BY <1>2, <1>3, <2>1, <2>7
<1>10. Fits(op'[c], Near(c)', crossed', chunk', legacy') /\ Shaped(op'[c])
  BY <1>2 DEF Fits, Shaped, Idle
<1> QED
  BY <1>3, <1>7, <1>8, <1>9, <1>10, StoreInvNext

-----------------------------------------------------------------------------
(***************************************************************************)
(* Each step keeps it.                                                     *)
(***************************************************************************)

\* The fields a batch writes, and those of another document, never coincide.
LEMMA OwnFields ==
    ASSUME NEW d \in Docs, NEW b \in Batches
    PROVE  /\ NewFields(d, b) \subseteq Fields
           /\ \A e \in Docs, i \in Idx : <<e, i>> \in NewFields(d, b) <=>
                   e = d /\ i < ChunkCount[b]
<1>1. ChunkCount[b] \in 1 .. MaxChunks /\ MaxChunks \in Nat
  BY StoreAssumption DEF StoreAssumption
<1> QED
  BY <1>1 DEF NewFields, Fields, Idx

\* What a finished scan found is every field of the documents it matches that
\* no other call came near, and no field of any other document.
LEMMA ScanComplete ==
    ASSUME StoreInv, NEW c \in Clients, op[c].kind \in {"append", "delete"}, op[c].todo = {}
    PROVE  /\ op[c].doc \in Docs
           /\ \A d \in Docs \ ScanHits[op[c].doc], i \in Idx : <<d, i>> \notin op[c].found
           /\ \A d \in ScanHits[op[c].doc] \ Near(c), i \in Idx :
                  <<d, i>> \notin op[c].found => chunk[<<d, i>>] = NoBatch
<1>1. Fits(op[c], Near(c), crossed, chunk, legacy) /\ Shaped(op[c])
  BY StoreInvIs
<1> QED
  BY <1>1 DEF Fits, Shaped, Scanned

\* The fields an append leaves.
LEMMA AppendChunks ==
    ASSUME StoreInv, NEW c \in Clients, AppendExec(c)
    PROVE  /\ op[c].doc \in Docs /\ op[c].batch \in Batches
           /\ \A d \in Docs, i \in Idx :
                 chunk'[<<d, i>>] = IF d = op[c].doc /\ i < ChunkCount[op[c].batch] THEN op[c].batch
                                    ELSE IF <<d, i>> \in op[c].found THEN NoBatch
                                    ELSE chunk[<<d, i>>]
<1>1. op[c].doc \in Docs /\ op[c].batch \in Batches
  BY DEF AppendExec, StoreInv, CallsAreShaped
<1>2. \A d \in Docs, i \in Idx : <<d, i>> \in NewFields(op[c].doc, op[c].batch) <=>
         d = op[c].doc /\ i < ChunkCount[op[c].batch]
  BY <1>1, OwnFields
<1>3. \A d \in Docs, i \in Idx : <<d, i>> \in Fields
  BY DEF Fields
<1> QED
  BY <1>1, <1>2, <1>3 DEF AppendExec

LEMMA ReplaceChunks ==
    ASSUME StoreInv, NEW c \in Clients, ReplaceExec(c)
    PROVE  /\ op[c].doc \in Docs /\ op[c].batch \in Batches
           /\ \A d \in Docs, i \in Idx :
                 chunk'[<<d, i>>] = IF d = op[c].doc /\ i < ChunkCount[op[c].batch] THEN op[c].batch
                                    ELSE NoBatch
<1>1. op[c].doc \in Docs /\ op[c].batch \in Batches
  BY DEF ReplaceExec, StoreInv, CallsAreShaped
<1>2. \A d \in Docs, i \in Idx : <<d, i>> \in NewFields(op[c].doc, op[c].batch) <=>
         d = op[c].doc /\ i < ChunkCount[op[c].batch]
  BY <1>1, OwnFields
<1>3. \A d \in Docs, i \in Idx : <<d, i>> \in Fields
  BY DEF Fields
<1> QED
  BY <1>1, <1>2, <1>3 DEF ReplaceExec

\* A document whose chunks a step keeps, empties or sets to one batch is whole.
LEMMA WholeNext ==
    ASSUME NEW d \in Docs,
           \/ Whole(d, chunk) /\ \A i \in Idx : chunk'[<<d, i>>] = chunk[<<d, i>>]
           \/ \A i \in Idx : chunk'[<<d, i>>] = NoBatch
           \/ \E b \in Batches : \A i \in Idx :
                 chunk'[<<d, i>>] = IF i < ChunkCount[b] THEN b ELSE NoBatch
    PROVE  Whole(d, chunk')
BY DEF Whole

LEMMA StartInv ==
    ASSUME StoreInv, TypeOK', NEW c \in Clients, NEW k \in Kinds, NEW d \in Docs,
           NEW b \in Batches \cup {NoBatch}, NEW todo \in SUBSET Scanned(d),
           k \in {"append", "replace"} => b \in Batches, k = "delete" => b = NoBatch,
           k # "replace" => todo = Scanned(d), Start(c, Busy(k, d, b, todo))
    PROVE  StoreInv'
<1> DEFINE o == Busy(k, d, b, todo)
<1>1. /\ o.kind = k /\ o.doc = d /\ o.batch = b /\ o.todo = todo /\ o.found = {}
      /\ k # "idle" /\ k # "rewrite"
  BY DEF Busy, Idle, Kinds
<1>2. o \in OpType
  BY BusyType, FieldsFacts
<1>3. Shaped(o)
  BY <1>1 DEF Shaped
<1>4. Fits(o, Near(c)', crossed', chunk, legacy)
  BY <1>1 DEF Fits, Scanned
<1>5. /\ op' = [op EXCEPT ![c] = o] /\ Enter(c, Touches(o), alone \cup {c})
      /\ UNCHANGED <<chunk, legacy>>
  BY DEF Start
<1> QED
  BY <1>1, <1>2, <1>3, <1>4, <1>5, EnterInv

LEMMA ScanInv ==
    ASSUME StoreInv, TypeOK', NEW c \in Clients, NEW F \in SUBSET op[c].todo, Scan(c, F)
    PROVE  StoreInv'
<1>1. op \in [Clients -> OpType] /\ op[c] \in OpType
  BY DEF StoreInv, TypeOK
<1>2. /\ op'[c].kind = op[c].kind /\ op'[c].doc = op[c].doc /\ op'[c].batch = op[c].batch
      /\ op'[c].todo = op[c].todo \ F
      /\ op'[c].found = op[c].found \cup {f \in F : chunk[f] # NoBatch}
      /\ \A x \in Clients \ {c} : op'[x] = op[x]
  BY <1>1 DEF Scan, OpType
<1>3. op[c].kind \in {"append", "delete"} /\ UNCHANGED <<chunk, legacy, alone, crossed>>
  BY DEF Scan
<1>4. Fits(op[c], Near(c), crossed, chunk, legacy) /\ Shaped(op[c])
  BY StoreInvIs
<1>5. NoTornDocument' /\ LegacyIsOld'
  BY <1>3 DEF StoreInv, NoTornDocument, LegacyIsOld
<1>6. MeetingsAreKnown'
  <2>1. \A x \in Clients : Touches(op'[x]) = Touches(op[x])
    BY <1>2 DEF Touches
  <2> QED
    BY <1>3, <2>1 DEF StoreInv, MeetingsAreKnown
<1>7. Fits(op'[c], Near(c)', crossed', chunk', legacy')
  <2>1. \A d \in ScanHits[op[c].doc], i \in Idx :
           d \notin Near(c) /\ chunk[<<d, i>>] # NoBatch => <<d, i>> \in op[c].todo \cup op[c].found
    BY <1>3, <1>4 DEF Fits
  <2> QED
    BY <1>2, <1>3, <2>1 DEF Fits, Near
<1>8. Shaped(op'[c]) /\ op'[c].kind # "idle"
  BY <1>2, <1>3, <1>4 DEF Shaped
<1>9. \A x \in Clients \ {c} :
         /\ Fits(op'[x], Near(x)', crossed', chunk', legacy') /\ Shaped(op'[x])
         /\ op'[x].kind = "idle" => x \notin alone'
  BY <1>2, <1>3, StoreInvIs DEF Near
<1> QED
  BY <1>5, <1>6, <1>7, <1>8, <1>9, StoreInvNext

LEMMA AppendInv ==
    ASSUME StoreInv, TypeOK', NEW c \in Clients, AppendExec(c)
    PROVE  StoreInv'
<1>1. op[c].kind = "append" /\ op[c].todo = {} /\ Finish(c) /\ Settle(c) /\ legacy' = legacy
  BY DEF AppendExec
<1>2. op[c].doc \in Touches(op[c]) /\ ScanHits[op[c].doc] \subseteq Touches(op[c])
  BY <1>1 DEF Touches
<1>3. \A d \in Docs \ Touches(op[c]), i \in Idx : chunk'[<<d, i>>] = chunk[<<d, i>>]
  BY <1>1, <1>2, AppendChunks, ScanComplete
<1>4. ASSUME NEW d \in Docs \ crossed', Regular(d)
      PROVE  Whole(d, chunk')
  <2>1. d \in ScanHits[op[c].doc] => d \notin Near(c)
    BY <1>1, <1>4 DEF Settle, Near
  <2>2. d # op[c].doc => d \notin crossed
    BY <1>1, <1>4 DEF Settle
  <2>3. CASE d = op[c].doc
    <3>1. \A i \in Idx : <<d, i>> \notin op[c].found => chunk[<<d, i>>] = NoBatch
      BY <1>1, <1>4, <2>1, <2>3, ScanComplete DEF Regular
    <3>2. \A i \in Idx : chunk'[<<d, i>>] = IF i < ChunkCount[op[c].batch] THEN op[c].batch
                                            ELSE NoBatch
      BY <2>3, <3>1, AppendChunks
    <3> QED
      BY <3>2, AppendChunks, WholeNext
  <2>4. CASE d # op[c].doc /\ d \in ScanHits[op[c].doc]
    <3>1. \A i \in Idx : <<d, i>> \notin op[c].found => chunk[<<d, i>>] = NoBatch
      BY <1>1, <2>1, <2>4, ScanComplete
    <3>2. \A i \in Idx : chunk'[<<d, i>>] = NoBatch
      BY <2>4, <3>1, AppendChunks
    <3> QED
      BY <3>2, WholeNext
  <2>5. CASE d # op[c].doc /\ d \notin ScanHits[op[c].doc]
    <3>1. \A i \in Idx : chunk'[<<d, i>>] = chunk[<<d, i>>]
      BY <1>1, <2>5, AppendChunks, ScanComplete
    <3>2. Whole(d, chunk)
      BY <1>4, <2>2, <2>5 DEF StoreInv, NoTornDocument
    <3> QED
      BY <3>1, <3>2, WholeNext
  <2> QED
    BY <2>3, <2>4, <2>5
<1>5. NoTornDocument'
  BY <1>4 DEF NoTornDocument
<1> QED
  BY <1>1, <1>2, <1>3, <1>5, FinishInv

LEMMA DeleteInv ==
    ASSUME StoreInv, TypeOK', NEW c \in Clients, DeleteExec(c)
    PROVE  StoreInv'
<1>1. /\ op[c].kind = "delete" /\ op[c].todo = {} /\ Finish(c)
      /\ legacy' = legacy /\ crossed' = crossed
  BY DEF DeleteExec
<1>2. \A d \in Docs, i \in Idx :
         chunk'[<<d, i>>] = IF <<d, i>> \in op[c].found THEN NoBatch ELSE chunk[<<d, i>>]
  BY DEF DeleteExec, Fields
<1>3. ScanHits[op[c].doc] \subseteq Touches(op[c])
  BY <1>1 DEF Touches
<1>4. \A d \in Docs \ Touches(op[c]), i \in Idx : chunk'[<<d, i>>] = chunk[<<d, i>>]
  BY <1>1, <1>2, <1>3, ScanComplete
<1>5. ASSUME NEW d \in Docs \ crossed, Regular(d)
      PROVE  Whole(d, chunk')
  <2>1. CASE d \in ScanHits[op[c].doc]
    <3>1. \A i \in Idx : <<d, i>> \notin op[c].found => chunk[<<d, i>>] = NoBatch
      BY <1>1, <1>5, <2>1, ScanComplete DEF Near
    <3> QED
      BY <1>2, <3>1, WholeNext
  <2>2. CASE d \notin ScanHits[op[c].doc]
    <3>1. \A i \in Idx : chunk'[<<d, i>>] = chunk[<<d, i>>]
      BY <1>1, <1>2, <2>2, ScanComplete
    <3>2. Whole(d, chunk)
      BY <1>5 DEF StoreInv, NoTornDocument
    <3> QED
      BY <3>1, <3>2, WholeNext
  <2> QED
    BY <2>1, <2>2
<1>6. NoTornDocument'
  BY <1>1, <1>5 DEF NoTornDocument
<1> QED
  BY <1>1, <1>4, <1>6, FinishInv

\* A call that ends without a write.
LEMMA QuietEndInv ==
    ASSUME StoreInv, TypeOK', NEW c \in Clients, op[c].kind # "idle", Finish(c),
           UNCHANGED <<chunk, legacy, crossed>>
    PROVE  StoreInv'
<1>1. NoTornDocument'
  BY DEF StoreInv, NoTornDocument
<1> QED
  BY <1>1, FinishInv

LEMMA FallbackReadInv ==
    ASSUME StoreInv, TypeOK', NEW c \in Clients, NEW old, FallbackRead(c, old)
    PROVE  StoreInv'
<1> PICK image : image = Image(op[c].doc, old)
  OBVIOUS
<1> PICK o : o = [op[c] EXCEPT !.kind = "rewrite", !.image = image]
  OBVIOUS
<1>1. /\ op' = [op EXCEPT ![c] = o] /\ Enter(c, Docs, alone) /\ UNCHANGED <<chunk, legacy>>
      /\ op[c].kind = "delete"
  BY DEF FallbackRead
<1>2. op[c] \in OpType /\ image \in [Fields -> Batches \cup {NoBatch}]
  BY ImageType DEF StoreInv, TypeOK
<1>3. /\ o \in OpType /\ o.kind = "rewrite" /\ o.doc = op[c].doc /\ o.image = image
      /\ o.todo = op[c].todo /\ o.found = op[c].found
  BY <1>2 DEF OpType
<1>4. Shaped(o)
  BY <1>1, <1>3, StoreInvIs DEF Shaped
<1>5. Touches(o) = Docs
  BY <1>3 DEF Touches
<1>6. \A d \in Docs, i \in Idx :
         image[<<d, i>>] = IF d = op[c].doc THEN NoBatch
                           ELSE IF /\ legacy[<<d, i>>] # NoBatch
                                   /\ chunk[<<d, i>>] = NoBatch \/ <<d, i>> \in old
                           THEN legacy[<<d, i>>] ELSE chunk[<<d, i>>]
  BY DEF Image, Fields
<1>7. crossed \subseteq crossed'
  BY <1>1 DEF Enter
<1>8. ASSUME NEW d \in Docs, d \notin crossed', Regular(d)
      PROVE  Whole(d, image)
  <2>1. Whole(d, chunk) /\ \A i \in Idx : legacy[<<d, i>>] = NoBatch
    BY <1>7, <1>8 DEF StoreInv, NoTornDocument, LegacyIsOld, Regular
  <2>2. \A i \in Idx : image[<<d, i>>] = IF d = op[c].doc THEN NoBatch ELSE chunk[<<d, i>>]
    BY <1>6, <2>1
  <2>3. CASE d = op[c].doc
    BY <2>2, <2>3 DEF Whole
  <2>4. CASE d # op[c].doc
    BY <2>1, <2>2, <2>4 DEF Whole
  <2> QED
    BY <2>3, <2>4
<1>9. Fits(o, Near(c)', crossed', chunk, legacy)
  <2>1. ASSUME NEW d \in Docs, d # op[c].doc, NEW i \in Idx
        PROVE  /\ legacy[<<d, i>>] # NoBatch => image[<<d, i>>] # NoBatch
               /\ chunk[<<d, i>>] # NoBatch =>
                     image[<<d, i>>] \in {chunk[<<d, i>>], legacy[<<d, i>>]} \ {NoBatch}
    BY <1>6, <2>1
  <2>2. \A d \in Docs : d = op[c].doc => \A i \in Idx : image[<<d, i>>] = NoBatch
    BY <1>6
  <2> QED
    BY <1>3, <1>8, <2>1, <2>2 DEF Fits
<1> QED
  BY <1>1, <1>3, <1>4, <1>5, <1>9, EnterInv

LEMMA FallbackWriteInv ==
    ASSUME StoreInv, TypeOK', NEW c \in Clients, FallbackWrite(c)
    PROVE  StoreInv'
<1>1. /\ op[c].kind = "rewrite" /\ chunk' = op[c].image /\ legacy' = Empty
      /\ Finish(c) /\ crossed' = crossed
  BY DEF FallbackWrite
<1>2. NoTornDocument'
  BY <1>1, StoreInvIs DEF Fits, NoTornDocument
<1>3. Touches(op[c]) = Docs
  BY <1>1 DEF Touches
<1> QED
  BY <1>1, <1>2, <1>3, FinishInv

LEMMA ReplaceInv ==
    ASSUME StoreInv, TypeOK', NEW c \in Clients, ReplaceExec(c)
    PROVE  StoreInv'
<1>1. op[c].kind = "replace" /\ legacy' = Empty /\ Finish(c) /\ Settle(c)
  BY DEF ReplaceExec
<1>2. op[c].doc \in Touches(op[c])
  BY <1>1 DEF Touches
<1>3. \A d \in Docs \ Touches(op[c]), i \in Idx :
         chunk'[<<d, i>>] = NoBatch /\ legacy'[<<d, i>>] = NoBatch
  BY <1>1, <1>2, ReplaceChunks DEF Empty, Fields
<1>4. ASSUME NEW d \in Docs
      PROVE  Whole(d, chunk')
  <2>1. CASE d = op[c].doc
    <3>1. \A i \in Idx : chunk'[<<d, i>>] = IF i < ChunkCount[op[c].batch] THEN op[c].batch
                                            ELSE NoBatch
      BY <2>1, ReplaceChunks
    <3> QED
      BY <3>1, ReplaceChunks, WholeNext
  <2>2. CASE d # op[c].doc
    <3>1. \A i \in Idx : chunk'[<<d, i>>] = NoBatch
      BY <2>2, ReplaceChunks
    <3> QED
      BY <3>1, WholeNext
  <2> QED
    BY <2>1, <2>2
<1>5. NoTornDocument'
  BY <1>4 DEF NoTornDocument
<1> QED
  BY <1>1, <1>2, <1>3, <1>5, FinishInv

LEMMA InitStoreInv == Init => StoreInv
<1> SUFFICES ASSUME Init PROVE StoreInv
  OBVIOUS
<1>1. TypeOK
  BY FieldsFacts, StoreAssumption DEF Init, TypeOK, StoreAssumption
<1>2. NoTornDocument
  BY DEF Init, NoTornDocument, Empty, Fields, Whole
<1>3. ScanCovers /\ ImagesAreTrue /\ CallsAreShaped
  BY DEF Init, ScanCovers, ImagesAreTrue, CallsAreShaped, Idle
<1>4. MeetingsAreKnown
  BY DEF Init, MeetingsAreKnown, Touches, Idle
<1>5. LegacyIsOld
  BY DEF Init, LegacyIsOld, OldLayout
<1> QED
  BY <1>1, <1>2, <1>3, <1>4, <1>5 DEF StoreInv

LEMMA StoreInvStep == StoreInv /\ [Next]_vars => StoreInv'
<1> SUFFICES ASSUME StoreInv, [Next]_vars PROVE StoreInv'
  OBVIOUS
<1>t. TypeOK'
  BY TypeStep DEF StoreInv
<1>0. CASE UNCHANGED vars
  <2>1. \A c \in Clients : Near(c)' = Near(c)
    BY <1>0 DEF vars, Near
  <2>2. NoTornDocument' /\ LegacyIsOld' /\ MeetingsAreKnown'
    BY <1>0 DEF vars, StoreInv, NoTornDocument, LegacyIsOld, MeetingsAreKnown
  <2> QED
    BY <1>0, <1>t, <2>1, <2>2, StoreInvIs, StoreInvNext DEF vars
<1>1. ASSUME NEW c \in Clients, NEW d \in Docs, NEW b \in Batches, StartAppend(c, d, b)
      PROVE  StoreInv'
  BY <1>1, <1>t, StartInv DEF StartAppend, Kinds
<1>2. ASSUME NEW c \in Clients, NEW d \in Docs, StartDelete(c, d)
      PROVE  StoreInv'
  BY <1>2, <1>t, StartInv DEF StartDelete, Kinds
<1>3. ASSUME NEW c \in Clients, NEW d \in Docs, NEW b \in Batches, StartReplace(c, d, b)
      PROVE  StoreInv'
  BY <1>3, <1>t, StartInv DEF StartReplace, Kinds
<1>4. ASSUME NEW c \in Clients, NEW F \in SUBSET op[c].todo, Scan(c, F)
      PROVE  StoreInv'
  BY <1>4, <1>t, ScanInv
<1>5. ASSUME NEW c \in Clients, FallbackNone(c) \/ Fail(c)
      PROVE  StoreInv'
  <2>1. op[c].kind # "idle" /\ Finish(c) /\ UNCHANGED <<chunk, legacy, crossed>>
    BY <1>5 DEF FallbackNone, Fail
  <2> QED
    BY <1>t, <2>1, QuietEndInv
<1> QED
  BY <1>t, <1>0, <1>1, <1>2, <1>3, <1>4, <1>5, AppendInv, DeleteInv, FallbackReadInv,
     FallbackWriteInv, ReplaceInv DEF Next

\* The invariant holds throughout, whatever calls overlap and whatever their
\* patterns match.
THEOREM StoreInvariant == Spec => []StoreInv
<1>1. Init => StoreInv
  BY InitStoreInv
<1>2. StoreInv /\ [Next]_vars => StoreInv'
  BY StoreInvStep
<1> QED
  BY <1>1, <1>2, PTL DEF Spec

\* Calls may overlap in any way and fail anywhere: a document that has none but
\* new-layout entries can be torn only between two calls that meet on it and
\* the next write of it by a call that meets none.
THEOREM NeverTorn == Spec => []NoTornDocument
<1>1. StoreInv => NoTornDocument
  BY DEF StoreInv
<1> QED
  BY <1>1, StoreInvariant, PTL

-----------------------------------------------------------------------------
(***************************************************************************)
(* What a call leaves alone.                                               *)
(***************************************************************************)

\* A step is one client's, and no other client's call moves in it.
LEMMA OneMoves ==
    ASSUME TypeOK, NEW c \in Clients, NEW o \in Clients, Moves(c),
           \/ Finish(o)
           \/ \E p : op' = [op EXCEPT ![o] = p]
    PROVE  o = c
BY DEF Moves, TypeOK, Finish

\* Out of its reach a call keeps every chunk; a rewrite may restore an old copy.
LEMMA OthersStep ==
    ASSUME StoreInv, [Next]_vars, NEW c \in Clients, NEW d \in Docs, Moves(c), ~Reaches(c, d),
           op[c].doc # d, NEW i \in Idx, chunk[<<d, i>>] # NoBatch
    PROVE  \/ chunk'[<<d, i>>] = chunk[<<d, i>>]
           \/ /\ op[c].kind = "rewrite" /\ legacy[<<d, i>>] # NoBatch
              /\ chunk'[<<d, i>>] = legacy[<<d, i>>]
<1>t. TypeOK
  BY DEF StoreInv
<1>1. CASE chunk' = chunk
  BY <1>1
<1>2. ASSUME NEW o \in Clients, AppendExec(o)
      PROVE  chunk'[<<d, i>>] = chunk[<<d, i>>]
  <2>1. o = c /\ op[o].kind = "append" /\ op[o].todo = {}
    BY <1>2, <1>t, OneMoves DEF AppendExec
  <2>2. <<d, i>> \notin op[o].found
    BY <2>1, ScanComplete DEF Reaches
  <2> QED
    BY <1>2, <2>1, <2>2, AppendChunks
<1>3. ASSUME NEW o \in Clients, DeleteExec(o)
      PROVE  chunk'[<<d, i>>] = chunk[<<d, i>>]
  <2>1. o = c /\ op[o].kind = "delete" /\ op[o].todo = {}
    BY <1>3, <1>t, OneMoves DEF DeleteExec
  <2>2. <<d, i>> \notin op[o].found
    BY <2>1, ScanComplete DEF Reaches
  <2> QED
    BY <1>3, <2>1, <2>2 DEF DeleteExec, Fields
<1>4. ASSUME NEW o \in Clients, ReplaceExec(o)
      PROVE  FALSE
  BY <1>4, <1>t, OneMoves DEF ReplaceExec, Reaches
<1>5. ASSUME NEW o \in Clients, FallbackWrite(o)
      PROVE  chunk'[<<d, i>>] \in {chunk[<<d, i>>], legacy[<<d, i>>]} \ {NoBatch}
  <2>1. o = c /\ op[o].kind = "rewrite" /\ chunk' = op[o].image
    BY <1>5, <1>t, OneMoves DEF FallbackWrite
  <2>2. d \notin Near(o)
    BY <2>1 DEF Reaches, Near
  <2>3. Fits(op[o], Near(o), crossed, chunk, legacy)
    BY StoreInvIs
  <2> QED
    BY <2>1, <2>2, <2>3 DEF Fits
<1>6. ASSUME NEW o \in Clients, FallbackWrite(o)
      PROVE  op[c].kind = "rewrite"
  BY <1>6, <1>t, OneMoves DEF FallbackWrite
<1>7. CASE Next
  BY <1>1, <1>2, <1>3, <1>4, <1>5, <1>6, <1>7
     DEF Next, StartAppend, StartDelete, StartReplace, Start, Scan, FallbackNone, FallbackRead, Fail
<1> QED
  BY <1>1, <1>7 DEF vars

\* Whatever calls overlap, whatever patterns match and wherever calls fail, a
\* call changes no chunk of another document out of its reach.
THEOREM OthersAreUntouched == Spec => OthersUntouched
<1>1. StoreInv /\ [Next]_vars =>
         [\A c \in Clients : \A d \in Docs : Moves(c) /\ ~Reaches(c, d) /\ op[c].doc # d =>
             \A i \in Idx : chunk[<<d, i>>] # NoBatch =>
                 \/ chunk'[<<d, i>>] = chunk[<<d, i>>]
                 \/ /\ op[c].kind = "rewrite" /\ legacy[<<d, i>>] # NoBatch
                    /\ chunk'[<<d, i>>] = legacy[<<d, i>>]]_vars
  BY OthersStep
<1> QED
  BY <1>1, StoreInvariant, PTL DEF Spec, OthersUntouched

\* A step takes every entry of a document only for a call that reaches it.
LEMMA VanishStep ==
    ASSUME StoreInv, [Next]_vars, NEW d \in Docs, Present(d) # {}, Present(d)' = {}
    PROVE  \E c \in Clients : /\ Moves(c)
                              /\ Reaches(c, d)
                              /\ op[c].kind \in {"append", "replace"} => op[c].doc # d
<1>1. PICK i \in Idx : chunk[<<d, i>>] # NoBatch \/ legacy[<<d, i>>] # NoBatch
  BY DEF Present
<1>2. \A n \in Idx : chunk'[<<d, n>>] = NoBatch /\ legacy'[<<d, n>>] = NoBatch
  BY DEF Present
<1>3. chunk' # chunk \/ legacy' # legacy
  BY <1>1, <1>2
<1>4. ASSUME NEW c \in Clients, op[c].kind # "idle", Finish(c)
      PROVE  Moves(c)
  BY <1>4 DEF Moves, Finish, StoreInv, TypeOK, Idle
<1>5. ASSUME NEW b \in Batches
      PROVE  chunk'[<<d, 0>>] # b /\ 0 < ChunkCount[b] /\ 0 \in Idx
  BY <1>2, FieldsFacts, StoreAssumption DEF StoreAssumption
<1>6. ASSUME NEW c \in Clients, AppendExec(c)
      PROVE  Moves(c) /\ Reaches(c, d) /\ op[c].doc # d
  <2>1. op[c].kind = "append" /\ op[c].todo = {} /\ Finish(c) /\ legacy' = legacy
    BY <1>6 DEF AppendExec
  <2>2. op[c].doc # d
    BY <1>5, <1>6, AppendChunks
  <2>3. <<d, i>> \in op[c].found
    BY <1>1, <1>2, <1>6, <2>1, <2>2, AppendChunks
  <2>4. d \in ScanHits[op[c].doc]
    BY <2>1, <2>3, ScanComplete
  <2> QED
    BY <1>4, <2>1, <2>2, <2>4 DEF Reaches
<1>7. ASSUME NEW c \in Clients, DeleteExec(c)
      PROVE  Moves(c) /\ Reaches(c, d) /\ op[c].kind = "delete"
  <2>1. op[c].kind = "delete" /\ op[c].todo = {} /\ Finish(c) /\ legacy' = legacy
    BY <1>7 DEF DeleteExec
  <2>2. <<d, i>> \in op[c].found
    BY <1>1, <1>2, <1>7, <2>1 DEF DeleteExec, Fields
  <2>3. d \in ScanHits[op[c].doc]
    BY <2>1, <2>2, ScanComplete
  <2> QED
    BY <1>4, <2>1, <2>3 DEF Reaches
<1>8. ASSUME NEW c \in Clients, FallbackWrite(c)
      PROVE  Moves(c) /\ Reaches(c, d) /\ op[c].kind = "rewrite"
  <2>1. op[c].kind = "rewrite" /\ chunk' = op[c].image /\ Finish(c)
    BY <1>8 DEF FallbackWrite
  <2>2. ASSUME op[c].doc # d, d \notin Near(c)
        PROVE  FALSE
    <3>1. Fits(op[c], Near(c), crossed, chunk, legacy)
      BY StoreInvIs
    <3>2. op[c].image[<<d, i>>] # NoBatch
      BY <1>1, <2>1, <2>2, <3>1 DEF Fits
    <3> QED
      BY <1>2, <2>1, <3>2
  <2>3. op[c].doc = d \/ (c \notin alone /\ d \in crossed)
    BY <2>2 DEF Near
  <2> QED
    BY <1>4, <2>1, <2>3 DEF Reaches
<1>9. ASSUME NEW c \in Clients, ReplaceExec(c)
      PROVE  Moves(c) /\ Reaches(c, d) /\ op[c].doc # d
  <2>1. op[c].kind = "replace" /\ Finish(c)
    BY <1>9 DEF ReplaceExec
  <2>2. op[c].doc # d
    BY <1>5, <1>9, ReplaceChunks
  <2> QED
    BY <1>4, <2>1, <2>2 DEF Reaches
<1>10. \E c \in Clients : AppendExec(c) \/ DeleteExec(c) \/ FallbackWrite(c) \/ ReplaceExec(c)
  BY <1>3
     DEF vars, Next, StartAppend, StartDelete, StartReplace, Start, Scan, FallbackNone,
         FallbackRead, Fail
<1> QED
  BY <1>6, <1>7, <1>8, <1>9, <1>10

\* Whatever calls overlap, also while part of the hash is in the pre-Wave-4
\* layout, a document leaves the listing only within the reach of a call: a
\* delete or a replacement, a pattern that matches it, or a copy of the hash
\* older than a call on the document.
THEOREM NoneVanishes == Spec => NoDocumentVanishes
<1>1. StoreInv /\ [Next]_vars =>
         [\A d \in Docs : Present(d) # {} /\ Present(d)' = {} =>
             \E c \in Clients : /\ Moves(c)
                                /\ Reaches(c, d)
                                /\ op[c].kind \in {"append", "replace"} => op[c].doc # d]_vars
  BY VanishStep
<1> QED
  BY <1>1, StoreInvariant, PTL DEF Spec, NoDocumentVanishes

-----------------------------------------------------------------------------
(***************************************************************************)
(* The refinement.                                                         *)
(***************************************************************************)

\* Ids match their own fields only, and the hash is in the new layout.
PlainStore == PlainIds /\ NoLegacy

\* What is true of a plain store while no two calls meet on a document.
NoneMet ==
    /\ StoreInv
    /\ crossed = {}
    /\ legacy = Empty
    /\ \A c \in Clients : op[c].kind # "rewrite"

\* A delete then never finds anything to rewrite.
LEMMA NothingToRewrite ==
    ASSUME PlainStore, NoneMet, NEW c \in Clients, NEW old, FallbackRead(c, old)
    PROVE  FALSE
<1>1. op[c].kind = "delete" /\ op[c].todo = {} /\ op[c].found = {} /\ Present(op[c].doc) # {}
  BY DEF FallbackRead
<1>2. op[c].doc \in ScanHits[op[c].doc] \ Near(c)
  BY <1>1, ScanComplete DEF PlainStore, PlainIds, NoneMet, Near
<1>3. \A i \in Idx : chunk[<<op[c].doc, i>>] = NoBatch
  BY <1>1, <1>2, ScanComplete DEF NoneMet
<1>4. \A i \in Idx : legacy[<<op[c].doc, i>>] = NoBatch
  BY <1>1, ScanComplete DEF NoneMet, Empty, Fields
<1> QED
  BY <1>1, <1>3, <1>4 DEF Present

LEMMA NoneMetStep ==
    ASSUME PlainStore, NoneMet, [Next]_vars, StoreInv', crossed' = {}
    PROVE  NoneMet'
<1>1. legacy' = Empty
  <2>1. legacy' \in [Fields -> Batches \cup {NoBatch}] /\ OldLayout = {}
    BY DEF StoreInv, TypeOK, PlainStore, NoLegacy, OldLayout, Empty, Fields
  <2>2. \A f \in Fields : legacy'[f] = NoBatch
    BY <2>1 DEF StoreInv, LegacyIsOld, Fields
  <2> QED
    BY <2>1, <2>2 DEF Empty
<1>2. \A c \in Clients : op'[c].kind # "rewrite"
  <2>o. op \in [Clients -> OpType] /\ \A c \in Clients : op[c].kind # "rewrite"
    BY DEF NoneMet, StoreInv, TypeOK
  <2>1. ASSUME NEW c \in Clients, NEW k \in Kinds, NEW d, NEW b, NEW todo,
               Start(c, Busy(k, d, b, todo)), NEW x \in Clients
        PROVE  op'[x].kind # "rewrite"
    BY <2>o, <2>1 DEF Start, Busy, Idle, Kinds
  <2>2. ASSUME NEW c \in Clients, NEW F \in SUBSET op[c].todo, Scan(c, F), NEW x \in Clients
        PROVE  op'[x].kind # "rewrite"
    BY <2>o, <2>2 DEF Scan, OpType
  <2>3. ASSUME NEW c \in Clients, Finish(c), NEW x \in Clients
        PROVE  op'[x].kind # "rewrite"
    BY <2>o, <2>3 DEF Finish, Idle
  <2>4. CASE UNCHANGED vars
    BY <2>o, <2>4 DEF vars
  <2>5. CASE Next
    BY <2>1, <2>2, <2>3, <2>5, NothingToRewrite
       DEF Next, StartAppend, StartDelete, StartReplace, Kinds, AppendExec, DeleteExec,
           FallbackNone, FallbackWrite, ReplaceExec, Fail
  <2> QED
    BY <2>4, <2>5
<1> QED
  BY <1>1, <1>2 DEF NoneMet

\* The abstract value of a document, read off its fields.
LEMMA AbstractValue ==
    ASSUME NEW d \in Docs, NEW b \in Batches
    PROVE  /\ Holds(d, b) => AbstractKb[d] = b
           /\ (\A i \in Idx : chunk[<<d, i>>] = NoBatch) => AbstractKb[d] = NoBatch
<1>1. Holds(d, b) => chunk[<<d, 0>>] = b /\ b # NoBatch
  BY FieldsFacts, StoreAssumption DEF Holds, StoreAssumption
<1> QED
  BY <1>1, FieldsFacts DEF AbstractKb

\* The same in the next state, and for documents whose fields do not change.
LEMMA AbstractValueNext ==
    ASSUME NEW d \in Docs, NEW b \in Batches
    PROVE  /\ Holds(d, b)' => AbstractKb'[d] = b
           /\ (\A i \in Idx : chunk'[<<d, i>>] = NoBatch) => AbstractKb'[d] = NoBatch
<1>1. Holds(d, b)' => chunk'[<<d, 0>>] = b /\ b # NoBatch
  BY FieldsFacts, StoreAssumption DEF Holds, StoreAssumption
<1> QED
  BY <1>1, FieldsFacts DEF AbstractKb

LEMMA AbstractValueSame ==
    ASSUME NEW d \in Docs, \A i \in Idx : chunk'[<<d, i>>] = chunk[<<d, i>>]
    PROVE  AbstractKb'[d] = AbstractKb[d]
<1>1. \A b \in Batches : Holds(d, b)' <=> Holds(d, b)
  BY DEF Holds
<1> QED
  BY <1>1, FieldsFacts DEF AbstractKb, Holds

\* A step of one client shows in the abstract calls as a step of that client.
LEMMA PendingStep ==
    ASSUME TypeOK, NEW c \in Clients, NEW o \in OpType, op' = [op EXCEPT ![c] = o]
    PROVE  AbstractPending' =
              [AbstractPending EXCEPT ![c] =
                  IF o.kind = "idle" THEN [kind |-> "none"]
                  ELSE [kind |-> o.kind, doc |-> o.doc, batch |-> o.batch]]
BY DEF TypeOK, AbstractPending

\* A call starts.
LEMMA InvokeRefines ==
    ASSUME TypeOK, NEW c \in Clients, op[c] = Idle, NEW k \in Kinds, NEW d \in Docs,
           NEW b \in Batches \cup {NoBatch}, NEW todo \in SUBSET Fields,
           k \in {"append", "replace"} => b \in Batches,
           k = "delete" => b = NoBatch,
           op' = [op EXCEPT ![c] = Busy(k, d, b, todo)], UNCHANGED chunk
    PROVE  KB!Next
<1> DEFINE call == [kind |-> k, doc |-> d, batch |-> b]
<1>1. call \in KB!Call
  BY DEF KB!Call, Kinds
<1>2. AbstractPending' = [AbstractPending EXCEPT ![c] = call]
  <2>1. Busy(k, d, b, todo) \in OpType
    BY BusyType
  <2>2. /\ Busy(k, d, b, todo).kind = k /\ Busy(k, d, b, todo).doc = d
        /\ Busy(k, d, b, todo).batch = b /\ k # "idle"
    BY DEF Busy, Idle, Kinds
  <2> QED
    BY <2>1, <2>2, PendingStep
<1>3. AbstractPending[c] = KB!NoCall
  BY DEF AbstractPending, KB!NoCall, Idle
<1>4. AbstractKb' = AbstractKb
  BY DEF AbstractKb, Holds
<1>5. KB!Invoke(c, call)
  BY <1>2, <1>3, <1>4 DEF KB!Invoke
<1> QED
  BY <1>1, <1>5 DEF KB!Next

\* A call takes effect or fails, and is over.
LEMMA ReturnRefines ==
    ASSUME TypeOK, NEW c \in Clients, op[c].kind \in Kinds, Finish(c),
           \/ AbstractKb' = KB!Effect([kind |-> op[c].kind, doc |-> op[c].doc,
                                        batch |-> op[c].batch])
           \/ AbstractKb' = AbstractKb
    PROVE  KB!Next
<1>1. AbstractPending[c] = [kind |-> op[c].kind, doc |-> op[c].doc, batch |-> op[c].batch]
  BY DEF AbstractPending, Kinds
<1>2. AbstractPending[c] # KB!NoCall
  BY <1>1 DEF KB!NoCall, Kinds
<1>3. AbstractPending' = [AbstractPending EXCEPT ![c] = KB!NoCall]
  BY PendingStep, FieldsFacts DEF Finish, Idle, KB!NoCall
<1>4. KB!Apply(c) \/ KB!Abort(c)
  BY <1>1, <1>2, <1>3 DEF KB!Apply, KB!Abort
<1> QED
  BY <1>4 DEF KB!Next

\* The chunks a call of theirs leaves.
LEMMA PlainChunks ==
    ASSUME PlainStore, NoneMet, NEW c \in Clients,
           AppendExec(c) \/ DeleteExec(c) \/ FallbackNone(c)
    PROVE  /\ \A d \in Docs \ {op[c].doc}, i \in Idx : chunk'[<<d, i>>] = chunk[<<d, i>>]
           /\ \A i \in Idx : chunk'[<<op[c].doc, i>>] =
                 IF AppendExec(c) /\ i < ChunkCount[op[c].batch] THEN op[c].batch ELSE NoBatch
<1>1. op[c].kind \in {"append", "delete"} /\ op[c].todo = {} /\ (AppendExec(c) <=> op[c].kind = "append")
  BY DEF AppendExec, DeleteExec, FallbackNone
<1>2. /\ op[c].doc \in Docs
      /\ \A d \in Docs \ {op[c].doc}, i \in Idx : <<d, i>> \notin op[c].found
      /\ \A i \in Idx : <<op[c].doc, i>> \notin op[c].found => chunk[<<op[c].doc, i>>] = NoBatch
  BY <1>1, ScanComplete DEF PlainStore, PlainIds, NoneMet, Near
<1>3. CASE AppendExec(c)
  BY <1>2, <1>3, AppendChunks DEF NoneMet
<1>4. CASE DeleteExec(c)
  BY <1>1, <1>2, <1>4 DEF DeleteExec, Fields
<1>5. CASE FallbackNone(c)
  BY <1>1, <1>2, <1>5 DEF FallbackNone
<1> QED
  BY <1>3, <1>4, <1>5

\* A call that takes effect changes the abstract map as KnowledgeBase says.
LEMMA AppendRefines ==
    ASSUME PlainStore, NoneMet, NEW c \in Clients, NEW d \in Docs, NEW b \in Batches,
           AppendExec(c), op[c].doc = d, op[c].batch = b
    PROVE  AbstractKb' = KB!Effect([kind |-> "append", doc |-> d, batch |-> b])
<1>1. AbstractKb'[d] = b
  <2>1. Holds(d, b)'
    BY PlainChunks DEF Holds
  <2> QED
    BY <2>1, AbstractValueNext
<1>2. \A e \in Docs : e # d => AbstractKb'[e] = AbstractKb[e]
  BY PlainChunks, AbstractValueSame
<1>3. AbstractKb' = [e \in Docs |-> AbstractKb'[e]]
  BY DEF AbstractKb
<1> QED
  BY <1>1, <1>2, <1>3 DEF KB!Effect

LEMMA DeleteRefines ==
    ASSUME PlainStore, NoneMet, NEW c \in Clients, NEW d \in Docs,
           DeleteExec(c) \/ FallbackNone(c), op[c].doc = d
    PROVE  AbstractKb' = KB!Effect([kind |-> "delete", doc |-> d, batch |-> NoBatch])
<1>1. AbstractKb'[d] = NoBatch
  <2>1. ~AppendExec(c)
    BY DEF AppendExec, DeleteExec, FallbackNone
  <2>2. \A i \in Idx : chunk'[<<d, i>>] = NoBatch
    BY <2>1, PlainChunks
  <2> QED
    BY <2>2 DEF AbstractKb
<1>2. \A e \in Docs : e # d => AbstractKb'[e] = AbstractKb[e]
  BY PlainChunks, AbstractValueSame
<1>3. AbstractKb' = [e \in Docs |-> AbstractKb'[e]]
  BY DEF AbstractKb
<1> QED
  BY <1>1, <1>2, <1>3 DEF KB!Effect

LEMMA ReplaceRefines ==
    ASSUME PlainStore, NoneMet, NEW c \in Clients, NEW d \in Docs, NEW b \in Batches,
           ReplaceExec(c), op[c].doc = d, op[c].batch = b
    PROVE  AbstractKb' = KB!Effect([kind |-> "replace", doc |-> d, batch |-> b])
<1>1. AbstractKb'[d] = b
  <2>1. Holds(d, b)'
    BY ReplaceChunks DEF NoneMet, Holds
  <2> QED
    BY <2>1, AbstractValueNext
<1>2. \A e \in Docs : e # d => AbstractKb'[e] = NoBatch
  BY ReplaceChunks DEF NoneMet, AbstractKb
<1>3. AbstractKb' = [e \in Docs |-> AbstractKb'[e]]
  BY DEF AbstractKb
<1> QED
  BY <1>1, <1>2, <1>3 DEF KB!Effect

LEMMA InitRefines == PlainStore /\ Init => KB!Init
<1> SUFFICES ASSUME PlainStore, Init PROVE KB!Init
  OBVIOUS
<1>1. AbstractKb = [d \in Docs |-> NoBatch]
  BY DEF Init, AbstractKb, Empty, Fields
<1>2. AbstractPending = [c \in Clients |-> KB!NoCall]
  BY DEF Init, AbstractPending, Idle, KB!NoCall
<1> QED
  BY <1>1, <1>2 DEF KB!Init

\* Every step of the Redis store is a KnowledgeBase step or changes nothing
\* a caller can see.
LEMMA StepRefines == PlainStore /\ NoneMet /\ [Next]_vars => [KB!Next]_(KB!vars)
<1> SUFFICES ASSUME PlainStore, NoneMet, [Next]_vars PROVE [KB!Next]_(KB!vars)
  OBVIOUS
<1>t. TypeOK /\ \A c \in Clients : op[c].kind # "rewrite"
  BY DEF NoneMet, StoreInv
<1>p. \A c \in Clients : op[c].kind # "idle" =>
         /\ op[c].doc \in Docs
         /\ op[c].kind \in {"append", "replace"} => op[c].batch \in Batches
         /\ op[c].kind = "delete" => op[c].batch = NoBatch
  BY DEF NoneMet, StoreInv, CallsAreShaped
<1>k. \A c \in Clients : op[c].kind # "idle" => op[c].kind \in Kinds
  BY <1>t DEF TypeOK, OpType
<1>0. CASE UNCHANGED vars
  <2>1. AbstractKb' = AbstractKb /\ AbstractPending' = AbstractPending
    BY <1>0 DEF vars, AbstractKb, AbstractPending, Holds
  <2> QED
    BY <2>1 DEF KB!vars
<1>1. ASSUME NEW c \in Clients, NEW k \in Kinds, NEW d \in Docs,
             NEW b \in Batches \cup {NoBatch}, NEW todo \in SUBSET Fields,
             k \in {"append", "replace"} => b \in Batches, k = "delete" => b = NoBatch,
             Start(c, Busy(k, d, b, todo))
      PROVE  KB!Next
  <2>1. op[c] = Idle /\ op' = [op EXCEPT ![c] = Busy(k, d, b, todo)] /\ UNCHANGED chunk
    BY <1>1 DEF Start
  <2> QED
    BY <1>1, <1>t, <2>1, InvokeRefines
<1>2. ASSUME NEW c \in Clients, NEW d \in Docs,
             StartDelete(c, d) \/ \E b \in Batches : StartAppend(c, d, b) \/ StartReplace(c, d, b)
      PROVE  KB!Next
  BY <1>1, <1>2, FieldsFacts DEF StartAppend, StartDelete, StartReplace, Kinds
<1>3. ASSUME NEW c \in Clients, NEW F \in SUBSET op[c].todo, Scan(c, F)
      PROVE  UNCHANGED KB!vars
  <2>1. AbstractKb' = AbstractKb
    BY <1>3 DEF Scan, AbstractKb, Holds
  <2>2. op[c] \in OpType /\ op \in [Clients -> OpType]
    BY <1>t DEF TypeOK
  <2>3. /\ op'[c].kind = op[c].kind /\ op'[c].doc = op[c].doc /\ op'[c].batch = op[c].batch
        /\ \A o \in Clients \ {c} : op'[o] = op[o]
    BY <1>3, <2>2 DEF Scan, OpType
  <2>4. AbstractPending' = AbstractPending
    BY <2>3 DEF AbstractPending
  <2> QED
    BY <2>1, <2>4 DEF KB!vars
<1>4. ASSUME NEW c \in Clients, AppendExec(c)
      PROVE  KB!Next
  <2>1. op[c].kind = "append" /\ op[c].kind \in Kinds /\ op[c].kind # "idle" /\ Finish(c)
    BY <1>4 DEF AppendExec, Kinds
  <2>2. PICK d \in Docs, b \in Batches : op[c].doc = d /\ op[c].batch = b
    BY <1>p, <2>1
  <2>3. AbstractKb' = KB!Effect([kind |-> "append", doc |-> d, batch |-> b])
    BY <1>4, <2>2, AppendRefines
  <2>4. AbstractKb' = KB!Effect([kind |-> op[c].kind, doc |-> op[c].doc, batch |-> op[c].batch])
    BY <2>1, <2>2, <2>3
  <2> QED
    BY <1>t, <2>1, <2>4, ReturnRefines
<1>5. ASSUME NEW c \in Clients, DeleteExec(c) \/ FallbackNone(c)
      PROVE  KB!Next
  <2>1. op[c].kind = "delete" /\ op[c].kind \in Kinds /\ op[c].kind # "idle" /\ Finish(c)
    BY <1>5 DEF DeleteExec, FallbackNone, Kinds
  <2>2. PICK d \in Docs : op[c].doc = d /\ op[c].batch = NoBatch
    BY <1>p, <2>1
  <2>3. AbstractKb' = KB!Effect([kind |-> "delete", doc |-> d, batch |-> NoBatch])
    BY <1>5, <2>2, DeleteRefines
  <2>4. AbstractKb' = KB!Effect([kind |-> op[c].kind, doc |-> op[c].doc, batch |-> op[c].batch])
    BY <2>1, <2>2, <2>3
  <2> QED
    BY <1>t, <2>1, <2>4, ReturnRefines
<1>6. ASSUME NEW c \in Clients, ReplaceExec(c)
      PROVE  KB!Next
  <2>1. op[c].kind = "replace" /\ op[c].kind \in Kinds /\ op[c].kind # "idle" /\ Finish(c)
    BY <1>6 DEF ReplaceExec, Kinds
  <2>2. PICK d \in Docs, b \in Batches : op[c].doc = d /\ op[c].batch = b
    BY <1>p, <2>1
  <2>3. AbstractKb' = KB!Effect([kind |-> "replace", doc |-> d, batch |-> b])
    BY <1>6, <2>2, ReplaceRefines
  <2>4. AbstractKb' = KB!Effect([kind |-> op[c].kind, doc |-> op[c].doc, batch |-> op[c].batch])
    BY <2>1, <2>2, <2>3
  <2> QED
    BY <1>t, <2>1, <2>4, ReturnRefines
<1>7. ASSUME NEW c \in Clients, Fail(c)
      PROVE  KB!Next
  <2>1. op[c].kind \in Kinds /\ Finish(c) /\ AbstractKb' = AbstractKb
    BY <1>7, <1>k DEF Fail, AbstractKb, Holds
  <2> QED
    BY <1>t, <2>1, ReturnRefines
<1>8. \A c \in Clients : ~FallbackWrite(c)
  BY <1>t DEF FallbackWrite
<1> QED
  BY <1>0, <1>2, <1>3, <1>4, <1>5, <1>6, <1>7, <1>8, NothingToRewrite DEF Next

\* As long as no two calls meet on a document, callers of a store with plain ids
\* and no pre-Wave-4 entries cannot tell the Redis hash, several round trips a
\* call and a failure at any of them, from a map whose operations are atomic.
THEOREM Refines ==
    ASSUME PlainStore PROVE Spec /\ [](crossed = {}) => ImplementsKnowledgeBase
<1>1. Init => KB!Init
  BY InitRefines
<1>2. NoneMet /\ [Next]_vars => [KB!Next]_(KB!vars)
  BY StepRefines
<1>3. Init /\ StoreInv /\ crossed = {} => NoneMet
  BY DEF Init, NoneMet, PlainStore, NoLegacy, Idle
<1>4. NoneMet /\ [Next]_vars /\ StoreInv' /\ (crossed = {})' => NoneMet'
  BY NoneMetStep
<1> QED
  BY <1>1, <1>2, <1>3, <1>4, StoreInvariant, PTL DEF Spec, ImplementsKnowledgeBase, KB!Spec

-----------------------------------------------------------------------------
(***************************************************************************)
(* Callers that never make two calls meet.                                 *)
(***************************************************************************)

\* A client waits for the answer about a document before another call on it is
\* sent.
CarefulCallers == Serialise = "per_document" /\ PlainStore

\* No two calls in flight name one document.
CarefulInv ==
    NoneMet /\ \A c, o \in Clients : c # o /\ op[c].kind # "idle" => op[c].doc # op[o].doc

\* A call of theirs meets no other.
LEMMA CarefulStart ==
    ASSUME CarefulCallers, CarefulInv, NEW c \in Clients, NEW k \in Kinds, NEW d \in Docs,
           NEW b \in Batches \cup {NoBatch}, NEW todo \in SUBSET Fields,
           Start(c, Busy(k, d, b, todo))
    PROVE  /\ crossed' = {} /\ UNCHANGED <<chunk, legacy>>
           /\ op[c] = Idle /\ op' = [op EXCEPT ![c] = Busy(k, d, b, todo)]
           /\ op'[c].kind = k /\ op'[c].doc = d /\ k # "idle" /\ k # "rewrite"
           /\ \A x \in Clients \ {c} : op'[x] = op[x] /\ op[x].doc # d
<1> DEFINE o == Busy(k, d, b, todo)
<1>1. o.kind = k /\ o.doc = d /\ k # "idle" /\ k # "rewrite"
  BY DEF Busy, Idle, Kinds
<1>2. \A x \in Clients : op[x].doc # d
  BY <1>1 DEF Start, CarefulCallers
<1>3. Touches(o) = {d}
  BY <1>1 DEF Touches, CarefulCallers, PlainStore, PlainIds, Kinds
<1>4. \A x \in Clients : d \notin Touches(op[x])
  <2> TAKE x \in Clients
  <2>1. op[x].kind # "idle" => op[x].doc \in Docs
    BY DEF CarefulInv, NoneMet, StoreInv, CallsAreShaped
  <2> QED
    BY <1>2, <2>1 DEF Touches, CarefulInv, NoneMet, CarefulCallers, PlainStore, PlainIds
<1>5. crossed' = {}
  <2>1. Enter(c, {d}, alone \cup {c})
    BY <1>3 DEF Start
  <2>2. Met(c, {d}) = {}
    BY <1>4 DEF Met
  <2> QED
    BY <2>1, <2>2 DEF Enter, CarefulInv, NoneMet
<1>6. op \in [Clients -> OpType]
  BY DEF CarefulInv, NoneMet, StoreInv, TypeOK
<1> QED
  BY <1>1, <1>2, <1>5, <1>6 DEF Start

LEMMA CarefulFinish ==
    ASSUME CarefulInv, StoreInv', NEW c \in Clients, Finish(c), crossed' \subseteq crossed,
           legacy' = legacy \/ legacy' = Empty
    PROVE  CarefulInv'
<1>1. op \in [Clients -> OpType]
  BY DEF CarefulInv, NoneMet, StoreInv, TypeOK
<1>2. op'[c] = Idle /\ \A x \in Clients \ {c} : op'[x] = op[x]
  BY <1>1 DEF Finish
<1>3. \A x \in Clients : op[x].kind # "idle" => op[x].doc \in Docs
  BY DEF CarefulInv, NoneMet, StoreInv, CallsAreShaped
<1>4. Idle.kind = "idle" /\ Idle.doc \notin Docs
  BY StoreAssumption DEF Idle, StoreAssumption
<1> QED
  BY <1>2, <1>3, <1>4 DEF CarefulInv, NoneMet

LEMMA CarefulStep == CarefulCallers /\ CarefulInv /\ [Next]_vars => CarefulInv'
<1> SUFFICES ASSUME CarefulCallers, CarefulInv, [Next]_vars PROVE CarefulInv'
  OBVIOUS
<1>s. StoreInv'
  BY StoreInvStep DEF CarefulInv, NoneMet
<1>0. CASE UNCHANGED vars
  BY <1>0, <1>s DEF vars, CarefulInv, NoneMet
<1>1. ASSUME NEW c \in Clients, NEW k \in Kinds, NEW d \in Docs,
             NEW b \in Batches \cup {NoBatch}, NEW todo \in SUBSET Fields,
             Start(c, Busy(k, d, b, todo))
      PROVE  CarefulInv'
  BY <1>1, <1>s, CarefulStart DEF CarefulInv, NoneMet
<1>2. ASSUME NEW c \in Clients, NEW d \in Docs,
             StartDelete(c, d) \/ \E b \in Batches : StartAppend(c, d, b) \/ StartReplace(c, d, b)
      PROVE  CarefulInv'
  BY <1>1, <1>2, FieldsFacts DEF StartAppend, StartDelete, StartReplace, Kinds
<1>3. ASSUME NEW c \in Clients, NEW F \in SUBSET op[c].todo, Scan(c, F)
      PROVE  CarefulInv'
  <2>1. op \in [Clients -> OpType] /\ op[c] \in OpType
    BY DEF CarefulInv, NoneMet, StoreInv, TypeOK
  <2>2. \A x \in Clients : op'[x].kind = op[x].kind /\ op'[x].doc = op[x].doc
    BY <1>3, <2>1 DEF Scan, OpType
  <2>3. legacy' = legacy /\ crossed' = crossed
    BY <1>3 DEF Scan
  <2> QED
    BY <1>s, <2>2, <2>3 DEF CarefulInv, NoneMet
<1>4. ASSUME NEW c \in Clients,
             \/ AppendExec(c) \/ DeleteExec(c) \/ FallbackNone(c) \/ FallbackWrite(c)
             \/ ReplaceExec(c) \/ Fail(c)
      PROVE  CarefulInv'
  <2>1. Finish(c) /\ crossed' \subseteq crossed /\ (legacy' = legacy \/ legacy' = Empty)
    BY <1>4
       DEF AppendExec, DeleteExec, FallbackNone, FallbackWrite, ReplaceExec, Fail, Settle
  <2> QED
    BY <1>s, <2>1, CarefulFinish
<1> QED
  BY <1>0, <1>2, <1>3, <1>4, NothingToRewrite DEF Next, CarefulCallers, CarefulInv

\* Such callers see atomic operations on a map from documents to batches.
THEOREM CarefulCallersSuffice == ASSUME CarefulCallers PROVE Spec => ImplementsKnowledgeBase
<1>1. Init => CarefulInv
  BY InitStoreInv DEF Init, CarefulInv, NoneMet, CarefulCallers, PlainStore, NoLegacy, Idle
<1>2. CarefulInv /\ [Next]_vars => CarefulInv'
  BY CarefulStep
<1>3. CarefulInv => crossed = {}
  BY DEF CarefulInv, NoneMet
<1>4. Spec /\ [](crossed = {}) => ImplementsKnowledgeBase
  BY Refines DEF CarefulCallers
<1> QED
  BY <1>1, <1>2, <1>3, <1>4, PTL DEF Spec
=============================================================================
