----------------------- MODULE OllamaEmbeddingsProofs -----------------------
(***************************************************************************)
(* Proofs about OllamaEmbeddings, for any calls, texts, batch size and     *)
(* number of permits: no permit is lost or doubled, the adapter learns at  *)
(* most Concurrency times that there is no /api/embed, and every text gets *)
(* its own vector.  The first two count the batches in flight; the third   *)
(* rests on what every batch holds of its own texts, and on the numbering  *)
(* of the texts that are not blank, which cuts them into the batches.  At  *)
(* the end, that a call has a bounded number of steps.                     *)
(***************************************************************************)
EXTENDS OllamaEmbeddings, FiniteSetTheorems, SequenceTheorems, TLAPS

\* What cutting into parts of s needs of arithmetic.
LEMMA TimesAdds ==
    ASSUME NEW i \in Int, NEW j \in Int, NEW s \in Int
    PROVE  i * s \in Int /\ (i + j) * s = i * s + j * s
BY SMT

LEMMA TimesIsNat ==
    ASSUME NEW i \in Nat, NEW s \in Nat
    PROVE  i * s \in Nat
BY SMT

LEMMA TimesGrows ==
    ASSUME NEW i \in Int, NEW j \in Int, NEW s \in Nat, i <= j
    PROVE  i * s <= j * s
<1>1. (j - i) * s \in Nat
  BY TimesIsNat
<1>2. (i + (j - i)) * s = i * s + (j - i) * s /\ i * s \in Int
  BY TimesAdds
<1>3. i + (j - i) = j
  OBVIOUS
<1> QED
  BY <1>1, <1>2, <1>3

LEMMA Divides ==
    ASSUME NEW n \in Nat, NEW s \in Nat \ {0}
    PROVE  /\ n \div s \in Nat /\ n % s \in 0..(s - 1)
           /\ n = (n \div s) * s + (n % s)
<1>q. PICK q : q = n \div s
  OBVIOUS
<1>r. PICK r : r = n % s
  OBVIOUS
<1>p. PICK p : p = q * s
  OBVIOUS
<1>1. q \in Nat /\ r \in 0..(s - 1) /\ n = p + r
  BY <1>q, <1>r, <1>p, SMT
<1> QED
  BY <1>q, <1>r, <1>p, <1>1

USE EmbeddingsAssumption DEF EmbeddingsAssumption

Pairs == Calls \X BatchIds
Batched == {p \in Pairs : BatchAt(p[1], p[2], "batched")}

\* What of the types the proofs need.
Shaped ==
    /\ permits \in Nat /\ notFound \in Nat /\ useBatchEndpoint \in BOOLEAN
    /\ DOMAIN call = Calls /\ DOMAIN batch = Calls
    /\ \A c \in Calls :
          /\ "at" \in DOMAIN call[c]
          /\ DOMAIN batch[c] \subseteq BatchIds
          /\ \A b \in DOMAIN batch[c] : "at" \in DOMAIN batch[c][b]
          /\ call[c].at = "new" => DOMAIN batch[c] = {}

\* The permits and the refusals of /api/embed, counted.
Counted ==
    /\ IsFiniteSet(Holders)
    /\ permits + Cardinality(Holders) = Concurrency
    /\ useBatchEndpoint => notFound = 0
    /\ ~useBatchEndpoint => notFound + Cardinality(Batched) <= Concurrency

LEMMA SetsAre ==
    /\ Holders = {p \in Pairs : InFlight(p[1], p[2])}
    /\ Batched \subseteq Holders
    /\ \A c \in Calls : \A b \in BatchIds : <<c, b>> \in Pairs
    /\ \A p \in Pairs : p[1] \in Calls /\ p[2] \in BatchIds /\ p = <<p[1], p[2]>>
BY DEF Holders, Pairs, Batched, InFlight

\* A step that changes batch b of call c and no other.
Changes(c, b, place) ==
    /\ DOMAIN batch' = Calls
    /\ \A x \in Calls : x # c => batch'[x] = batch[x]
    /\ DOMAIN batch'[c] = DOMAIN batch[c]
    /\ \A y \in DOMAIN batch[c] : y # b => batch'[c][y] = batch[c][y]
    /\ batch'[c][b].at = place /\ "at" \in DOMAIN batch'[c][b]

\* What such a step does to the sets.
LEMMA ChangeCounts ==
    ASSUME Shaped, NEW c \in Calls, NEW b \in DOMAIN batch[c], NEW place, Changes(c, b, place)
    PROVE  /\ <<c, b>> \in Pairs
           /\ Holders' = IF place \in {"batched", "legacy"} THEN Holders \cup {<<c, b>>}
                                                            ELSE Holders \ {<<c, b>>}
           /\ Batched' = IF place = "batched" THEN Batched \cup {<<c, b>>} ELSE Batched \ {<<c, b>>}
<1>1. <<c, b>> \in Pairs
  BY DEF Shaped, Pairs
<1>2. ASSUME NEW x \in Calls, NEW y
      PROVE  /\ InFlight(x, y)' <=> IF x = c /\ y = b THEN place \in {"batched", "legacy"}
                                                     ELSE InFlight(x, y)
             /\ BatchAt(x, y, "batched")' <=> IF x = c /\ y = b THEN place = "batched"
                                                     ELSE BatchAt(x, y, "batched")
  <2>1. DOMAIN batch'[x] = DOMAIN batch[x]
    BY DEF Changes
  <2>2. CASE x = c /\ y = b
    <3>1. batch'[c][b].at = place
      BY DEF Changes
    <3> QED
      BY <2>1, <2>2, <3>1 DEF InFlight, BatchAt
  <2>3. CASE ~(x = c /\ y = b)
    <3>1. y \in DOMAIN batch[x] => batch'[x][y] = batch[x][y]
      <4>1. CASE x = c
        BY <2>3, <4>1 DEF Changes
      <4>2. CASE x # c
        BY <4>2 DEF Changes
      <4> QED
        BY <4>1, <4>2
    <3> QED
      BY <2>1, <2>3, <3>1 DEF InFlight, BatchAt
  <2> QED
    BY <2>2, <2>3
<1>3. \A p \in Pairs : p[1] \in Calls /\ (p = <<c, b>> <=> p[1] = c /\ p[2] = b)
  BY DEF Pairs
<1>4. Holders' = {p \in Pairs : InFlight(p[1], p[2])'}
  BY DEF Holders, Pairs
<1>5. Batched' = {p \in Pairs : BatchAt(p[1], p[2], "batched")'}
  BY DEF Batched, Pairs
<1>6. Holders = {p \in Pairs : InFlight(p[1], p[2])} /\ Batched = {p \in Pairs : BatchAt(p[1], p[2], "batched")}
  BY DEF Holders, Pairs, Batched
<1> QED
  BY <1>1, <1>2, <1>3, <1>4, <1>5, <1>6

LEMMA ChangeShapes ==
    ASSUME Shaped, NEW c \in Calls, NEW b \in DOMAIN batch[c], NEW place, Changes(c, b, place),
           permits' \in Nat, notFound' \in Nat, useBatchEndpoint' \in BOOLEAN,
           UNCHANGED call \/ call' = [call EXCEPT ![c].at = IF @ = "running" THEN "failed" ELSE @]
    PROVE  Shaped'
<1>1. /\ DOMAIN call' = Calls
      /\ \A x \in Calls : "at" \in DOMAIN call'[x] /\ (call'[x].at = "new" => call[x].at = "new")
  BY DEF Shaped
<1>2. /\ DOMAIN batch' = Calls
      /\ \A x \in Calls : /\ DOMAIN batch'[x] = DOMAIN batch[x]
                          /\ \A y \in DOMAIN batch'[x] : "at" \in DOMAIN batch'[x][y]
  BY DEF Changes, Shaped
<1> QED
  BY <1>1, <1>2 DEF Shaped

\* The permits of a step that takes, gives back or passes on one.
LEMMA ChangeKeeps ==
    ASSUME Shaped, Counted, NEW c \in Calls, NEW b \in DOMAIN batch[c], NEW place, Changes(c, b, place),
           UNCHANGED call \/ call' = [call EXCEPT ![c].at = IF @ = "running" THEN "failed" ELSE @],
           \/ /\ place \in {"batched", "legacy"} /\ ~InFlight(c, b)
              /\ permits > 0 /\ permits' = permits - 1
              /\ place = "batched" <=> useBatchEndpoint
              /\ UNCHANGED <<useBatchEndpoint, notFound>>
           \/ /\ place \notin {"batched", "legacy"} /\ InFlight(c, b)
              /\ permits' = permits + 1
              /\ UNCHANGED <<useBatchEndpoint, notFound>>
           \/ /\ place \notin {"batched", "legacy"} /\ ~InFlight(c, b)
              /\ UNCHANGED <<permits, useBatchEndpoint, notFound>>
           \/ /\ place = "legacy" /\ BatchAt(c, b, "batched")
              /\ useBatchEndpoint' = FALSE /\ notFound' = notFound + 1
              /\ UNCHANGED permits
           \/ /\ place = "legacy" /\ BatchAt(c, b, "legacy")
              /\ UNCHANGED <<permits, useBatchEndpoint, notFound>>
    PROVE  Shaped' /\ Counted'
<1>1. permits' \in Nat /\ notFound' \in Nat /\ useBatchEndpoint' \in BOOLEAN
  <2>1. permits' \in {permits - 1, permits + 1, permits} /\ (permits' = permits - 1 => permits > 0)
    BY DEF Shaped
  <2>2. notFound' \in {notFound, notFound + 1}
    OBVIOUS
  <2>3. permits \in Nat /\ notFound \in Nat /\ useBatchEndpoint \in BOOLEAN
    BY DEF Shaped
  <2>4. permits' \in Nat
    BY <2>1, <2>3
  <2>5. useBatchEndpoint' \in BOOLEAN
    BY <2>3
  <2>6. notFound' \in Nat
    BY <2>2, <2>3
  <2> QED
    BY <2>4, <2>5, <2>6
<1>2. Shaped'
  BY <1>1, ChangeShapes
<1> PICK p : p = <<c, b>>
  OBVIOUS
<1>3. /\ p \in Pairs
      /\ Holders' = IF place \in {"batched", "legacy"} THEN Holders \cup {p} ELSE Holders \ {p}
      /\ Batched' = IF place = "batched" THEN Batched \cup {p} ELSE Batched \ {p}
      /\ p \in Holders <=> InFlight(c, b)
      /\ p \in Batched <=> BatchAt(c, b, "batched")
  BY ChangeCounts DEF Holders, Batched, Pairs
<1>4. /\ IsFiniteSet(Holders) /\ IsFiniteSet(Holders \cup {p}) /\ IsFiniteSet(Holders \ {p})
      /\ IsFiniteSet(Batched) /\ Cardinality(Batched) <= Cardinality(Holders)
      /\ Cardinality(Holders) \in Nat /\ Cardinality(Batched) \in Nat
  BY SetsAre, FS_Subset, FS_AddElement, FS_RemoveElement, FS_CardinalityType DEF Counted
<1>5. /\ Cardinality(Holders \cup {p}) = IF p \in Holders THEN Cardinality(Holders) ELSE Cardinality(Holders) + 1
      /\ Cardinality(Holders \ {p}) = IF p \in Holders THEN Cardinality(Holders) - 1 ELSE Cardinality(Holders)
      /\ Cardinality(Batched \ {p}) = IF p \in Batched THEN Cardinality(Batched) - 1 ELSE Cardinality(Batched)
  BY <1>4, FS_AddElement, FS_RemoveElement
<1>6. BatchAt(c, b, "batched") => InFlight(c, b)
  BY DEF InFlight
<1>7. BatchAt(c, b, "legacy") => InFlight(c, b) /\ ~BatchAt(c, b, "batched")
  BY DEF InFlight, BatchAt
<1>8. IsFiniteSet(Holders') /\ permits' + Cardinality(Holders') = Concurrency
  <2>1. permits \in Nat /\ permits + Cardinality(Holders) = Concurrency
    BY DEF Shaped, Counted
  <2> QED
    BY <1>3, <1>4, <1>5, <1>6, <1>7, <2>1
<1>9. useBatchEndpoint' => notFound' = 0
  BY DEF Counted
<1>10. ~useBatchEndpoint' => notFound' + Cardinality(Batched') <= Concurrency
  <2> SUFFICES ASSUME ~useBatchEndpoint' PROVE notFound' + Cardinality(Batched') <= Concurrency
    OBVIOUS
  <2>1. place # "batched"
    OBVIOUS
  <2>2. Cardinality(Batched') = IF p \in Batched THEN Cardinality(Batched) - 1 ELSE Cardinality(Batched)
    BY <1>3, <1>5, <2>1
  <2>3. /\ permits \in Nat /\ notFound \in Nat /\ permits + Cardinality(Holders) = Concurrency
        /\ useBatchEndpoint \in BOOLEAN
        /\ useBatchEndpoint => notFound = 0
        /\ ~useBatchEndpoint => notFound + Cardinality(Batched) <= Concurrency
    BY DEF Shaped, Counted
  <2>4. CASE notFound' = notFound + 1 /\ p \in Batched
    BY <1>4, <2>2, <2>3, <2>4
  <2>5. CASE notFound' = notFound /\ useBatchEndpoint' = useBatchEndpoint
    BY <1>4, <2>2, <2>3, <2>5
  <2> QED
    BY <1>3, <2>4, <2>5
<1> QED
  BY <1>2, <1>8, <1>9, <1>10 DEF Counted

\* A step that leaves every batch in flight where it is.
LEMMA CalmKeeps ==
    ASSUME Counted, UNCHANGED <<permits, useBatchEndpoint, notFound>>,
           \A c \in Calls : \A b \in BatchIds :
              /\ InFlight(c, b)' <=> InFlight(c, b)
              /\ BatchAt(c, b, "batched")' <=> BatchAt(c, b, "batched")
    PROVE  Counted'
<1>1. \A p \in Pairs : p[1] \in Calls /\ p[2] \in BatchIds
  BY DEF Pairs
<1>2. Holders' = Holders
  BY <1>1 DEF Holders, Pairs
<1>3. Batched' = Batched
  BY <1>1 DEF Batched, Pairs
<1> QED
  BY <1>2, <1>3 DEF Counted

LEMMA Step ==
    ASSUME Shaped, Counted, [Next]_vars
    PROVE  Shaped' /\ Counted'
<1>0. CASE UNCHANGED vars
  <2>1. Shaped'
    BY <1>0 DEF vars, Shaped
  <2>2. Counted'
    BY <1>0, CalmKeeps DEF vars, InFlight, BatchAt
  <2> QED
    BY <2>1, <2>2
<1>1. ASSUME NEW c \in Calls, NEW texts \in Inputs, Start(c, texts)
      PROVE  Shaped' /\ Counted'
  <2> PICK fresh : fresh = [b \in 1..BatchCount(texts) |-> Waiting]
    OBVIOUS
  <2>1. /\ DOMAIN fresh \subseteq BatchIds
        /\ \A b \in DOMAIN fresh : "at" \in DOMAIN fresh[b] /\ fresh[b].at = "waiting"
    BY DEF Waiting, BatchIds
  <2>2. /\ "at" \in DOMAIN call'[c] /\ call'[c].at # "new"
        /\ DOMAIN call' = Calls /\ \A x \in Calls : x # c => call'[x] = call[x]
        /\ UNCHANGED <<permits, useBatchEndpoint, notFound>>
    BY <1>1 DEF Start, Shaped
  <2>3. /\ batch'[c] = fresh /\ \A x \in Calls : x # c => batch'[x] = batch[x]
        /\ DOMAIN batch' = Calls
    BY <1>1 DEF Start, Shaped
  <2>4. DOMAIN batch[c] = {}
    <3>1. call[c].at = "new"
      BY <1>1 DEF Start, NotYet
    <3> QED
      BY <3>1 DEF Shaped
  <2>5. Shaped'
    <3>1. ASSUME NEW x \in Calls
          PROVE  /\ "at" \in DOMAIN call'[x]
                 /\ DOMAIN batch'[x] \subseteq BatchIds
                 /\ \A b \in DOMAIN batch'[x] : "at" \in DOMAIN batch'[x][b]
                 /\ call'[x].at = "new" => DOMAIN batch'[x] = {}
      <4>1. CASE x = c
        BY <2>1, <2>2, <2>3, <4>1
      <4>2. CASE x # c
        BY <2>2, <2>3, <4>2 DEF Shaped
      <4> QED
        BY <4>1, <4>2
    <3>2. permits' \in Nat /\ notFound' \in Nat /\ useBatchEndpoint' \in BOOLEAN
      BY <2>2 DEF Shaped
    <3> QED
      BY <2>2, <2>3, <3>1, <3>2 DEF Shaped
  <2>6. ASSUME NEW x \in Calls, NEW b \in BatchIds
        PROVE  /\ InFlight(x, b)' <=> InFlight(x, b)
               /\ BatchAt(x, b, "batched")' <=> BatchAt(x, b, "batched")
    <3>1. CASE x = c
      <4>1. b \in DOMAIN fresh => fresh[b].at = "waiting"
        BY <2>1
      <4> QED
        BY <2>3, <2>4, <3>1, <4>1 DEF InFlight, BatchAt
    <3>2. CASE x # c
      BY <2>3, <3>2 DEF InFlight, BatchAt
    <3> QED
      BY <3>1, <3>2
  <2>7. Counted'
    BY <2>2, <2>6, CalmKeeps
  <2> QED
    BY <2>5, <2>7
<1>2. ASSUME NEW c \in Calls, Refuse(c) \/ Return(c)
      PROVE  Shaped' /\ Counted'
  <2>1. UNCHANGED <<permits, useBatchEndpoint, batch, notFound>>
    BY <1>2 DEF Refuse, Return
  <2>2. /\ DOMAIN call' = Calls
        /\ \A x \in Calls : x # c => call'[x] = call[x]
        /\ "at" \in DOMAIN call'[c] /\ call'[c].at # "new"
    <3>1. CASE Refuse(c)
      BY <3>1 DEF Refuse, Shaped
    <3>2. CASE Return(c)
      <4> PICK vectors : vectors = Aligned(c)
        OBVIOUS
      <4>1. call' = [call EXCEPT ![c].at = "returned", ![c].out = vectors]
        BY <3>2 DEF Return
      <4> QED
        BY <4>1 DEF Shaped
    <3> QED
      BY <1>2, <3>1, <3>2
  <2>3. Shaped'
    BY <2>1, <2>2 DEF Shaped
  <2>4. Counted'
    BY <2>1, CalmKeeps DEF InFlight, BatchAt
  <2> QED
    BY <2>3, <2>4
<1>3. ASSUME NEW c \in Calls, Cancel(c)
      PROVE  Shaped' /\ Counted'
  <2> PICK left : left = [b \in DOMAIN batch[c] |->
                    IF BatchAt(c, b, "waiting") THEN [batch[c][b] EXCEPT !.at = "failed"] ELSE batch[c][b]]
    OBVIOUS
  <2>1. /\ UNCHANGED <<permits, useBatchEndpoint, notFound>>
        /\ batch' = [batch EXCEPT ![c] = left]
        /\ call' = [call EXCEPT ![c].at = "cancelled"]
    BY <1>3 DEF Cancel, Shaped
  <2>2. /\ DOMAIN left = DOMAIN batch[c]
        /\ \A b \in DOMAIN left :
              /\ "at" \in DOMAIN left[b]
              /\ batch[c][b].at = "waiting" => left[b].at = "failed"
              /\ batch[c][b].at # "waiting" => left[b] = batch[c][b]
    BY DEF Shaped, BatchAt
  <2>3. /\ DOMAIN batch' = Calls
        /\ batch'[c] = left /\ \A x \in Calls : x # c => batch'[x] = batch[x]
    BY <2>1 DEF Shaped
  <2>4. /\ DOMAIN call' = Calls
        /\ \A x \in Calls : x # c => call'[x] = call[x]
        /\ "at" \in DOMAIN call'[c] /\ call'[c].at # "new"
    BY <2>1 DEF Shaped
  <2>5. Shaped'
    BY <2>1, <2>2, <2>3, <2>4 DEF Shaped
  <2>6. ASSUME NEW x \in Calls, NEW b \in BatchIds
        PROVE  /\ InFlight(x, b)' <=> InFlight(x, b)
               /\ BatchAt(x, b, "batched")' <=> BatchAt(x, b, "batched")
    BY <2>2, <2>3 DEF InFlight, BatchAt
  <2>7. Counted'
    BY <2>1, <2>6, CalmKeeps
  <2> QED
    BY <2>5, <2>7
<1>4. ASSUME NEW c \in Calls, NEW b \in DOMAIN batch[c], Acquire(c, b) \/ Unsent(c, b) \/ Reply(c, b)
      PROVE  Shaped' /\ Counted'
  <2>0. useBatchEndpoint \in BOOLEAN
    BY DEF Shaped
  <2>1. ASSUME NEW place, batch' = [batch EXCEPT ![c][b].at = place]
        PROVE  Changes(c, b, place)
    BY <2>1 DEF Changes, Shaped
  <2>2. ASSUME NEW place, NEW vectors, batch' = [batch EXCEPT ![c][b] = [at |-> place, vectors |-> vectors]]
        PROVE  Changes(c, b, place)
    BY <2>2 DEF Changes, Shaped
  <2>3. CASE Acquire(c, b)
    <3> PICK place : place = IF useBatchEndpoint THEN "batched" ELSE "legacy"
      OBVIOUS
    <3>1. Changes(c, b, place)
      BY <2>1, <2>3 DEF Acquire
    <3>2. ~InFlight(c, b)
      BY <2>3 DEF Acquire, InFlight, BatchAt
    <3> QED
      BY <2>0, <2>3, <3>1, <3>2, ChangeKeeps DEF Acquire
  <2>4. CASE Unsent(c, b)
    <3>1. Changes(c, b, "failed") /\ ~InFlight(c, b)
      BY <2>1, <2>4 DEF Unsent, InFlight, BatchAt
    <3> QED
      BY <2>4, <3>1, ChangeKeeps DEF Unsent
  <2>5. CASE Embedded(c, b)
    <3>1. Changes(c, b, "done") /\ InFlight(c, b)
      BY <2>2, <2>5 DEF Embedded, InFlight
    <3> QED
      BY <2>5, <3>1, ChangeKeeps DEF Embedded, Release
  <2>6. CASE FallBack(c, b)
    <3>1. Changes(c, b, "legacy") /\ BatchAt(c, b, "batched")
      BY <2>1, <2>6 DEF FallBack
    <3> QED
      BY <2>6, <3>1, ChangeKeeps DEF FallBack
  <2>7. CASE EmbeddedOne(c, b)
    <3> PICK sofar : sofar = Append(batch[c][b].vectors,
                               TextsOf(call[c].texts, b)[Len(batch[c][b].vectors) + 1])
      OBVIOUS
    <3>1. BatchAt(c, b, "legacy") /\ InFlight(c, b) /\ UNCHANGED <<useBatchEndpoint, call, notFound>>
      BY <2>7 DEF EmbeddedOne, InFlight
    <3>2. \/ /\ batch' = [batch EXCEPT ![c][b] = [at |-> "done", vectors |-> sofar]]
             /\ permits' = permits + 1
          \/ /\ batch' = [batch EXCEPT ![c][b].vectors = sofar]
             /\ permits' = permits
      BY <2>7 DEF EmbeddedOne, Release
    <3>3. CASE batch' = [batch EXCEPT ![c][b] = [at |-> "done", vectors |-> sofar]] /\ permits' = permits + 1
      <4>1. Changes(c, b, "done")
        BY <2>2, <3>3
      <4> QED
        BY <3>1, <3>3, <4>1, ChangeKeeps
    <3>4. CASE batch' = [batch EXCEPT ![c][b].vectors = sofar] /\ permits' = permits
      <4>1. batch[c][b].at = "legacy"
        BY <3>1 DEF BatchAt
      <4>2. Changes(c, b, "legacy")
        BY <3>4, <4>1 DEF Changes, Shaped
      <4> QED
        BY <3>1, <3>4, <4>2, ChangeKeeps
    <3> QED
      BY <3>2, <3>3, <3>4
  <2>8. CASE Fail(c, b)
    <3>1. Changes(c, b, "failed") /\ InFlight(c, b)
      BY <2>1, <2>8 DEF Fail
    <3> QED
      BY <2>8, <3>1, ChangeKeeps DEF Fail, Release
  <2> QED
    BY <1>4, <2>3, <2>4, <2>5, <2>6, <2>7, <2>8 DEF Reply
<1> QED
  BY <1>0, <1>1, <1>2, <1>3, <1>4 DEF Next

LEMMA InvInit == Init => Shaped /\ Counted
<1> SUFFICES ASSUME Init PROVE Shaped /\ Counted
  OBVIOUS
<1>1. /\ permits = Concurrency /\ useBatchEndpoint = UseBatch /\ notFound = 0
      /\ call = [c \in Calls |-> NotYet] /\ batch = [c \in Calls |-> <<>>]
  BY DEF Init
<1>2. Shaped
  BY <1>1 DEF Shaped, NotYet
<1>3. Holders = {} /\ Batched = {}
  BY <1>1, SetsAre DEF InFlight, BatchAt
<1> QED
  BY <1>1, <1>2, <1>3, FS_EmptySet DEF Counted

LEMMA AlwaysCounted == Spec => [](Shaped /\ Counted)
BY InvInit, Step, PTL DEF Spec

\* No end of a batch, however it comes, loses or doubles a permit of the
\* adapter's semaphore: concurrent calls never send more requests than it allows.
THEOREM PermitsAreKept == Spec => []PermitsAddUp
<1>1. Counted => PermitsAddUp
  BY DEF Counted, PermitsAddUp
<1> QED
  BY AlwaysCounted, <1>1, PTL

\* The adapter is told at most Concurrency times that there is no /api/embed.
THEOREM FewNotFounds == Spec => []NotFoundsBounded
<1>1. Shaped /\ Counted => NotFoundsBounded
  <2> SUFFICES ASSUME Shaped, Counted PROVE notFound <= Concurrency
    BY DEF NotFoundsBounded
  <2>1. IsFiniteSet(Batched)
    BY SetsAre, FS_Subset DEF Counted
  <2>2. Cardinality(Batched) \in Nat
    BY <2>1, FS_CardinalityType
  <2> QED
    BY <2>2 DEF Shaped, Counted
<1> QED
  BY AlwaysCounted, <1>1, PTL

-----------------------------------------------------------------------------
(***************************************************************************)
(* Where a text is: the n-th of those that are not blank, in batch b at    *)
(* place k.                                                                *)
(***************************************************************************)
LEMMA LiveFacts ==
    ASSUME NEW texts \in Seq(BOOLEAN)
    PROVE  /\ Live(texts) \subseteq 1..Len(texts)
           /\ IsFiniteSet(Live(texts)) /\ Cardinality(Live(texts)) \in Nat
<1>1. Len(texts) \in Nat
  OBVIOUS
<1>2. IsFiniteSet(1..Len(texts))
  BY <1>1, FS_Interval
<1>3. Live(texts) \subseteq 1..Len(texts)
  BY DEF Live
<1> QED
  BY <1>2, <1>3, FS_Subset, FS_CardinalityType

\* A later text is preceded by more.
LEMMA NthFacts ==
    ASSUME NEW texts \in Seq(BOOLEAN), NEW i \in Live(texts)
    PROVE  /\ Nth(texts, i) \in 0..(Cardinality(Live(texts)) - 1)
           /\ \A k \in Live(texts) : k < i => Nth(texts, k) < Nth(texts, i)
<1>1. /\ Live(texts) \subseteq 1..Len(texts) /\ i \in Int
      /\ IsFiniteSet(Live(texts)) /\ Cardinality(Live(texts)) \in Nat
  BY LiveFacts
<1>2. IsFiniteSet(Live(texts) \ {i}) /\ Cardinality(Live(texts) \ {i}) = Cardinality(Live(texts)) - 1
  BY <1>1, FS_RemoveElement
<1>3. \A k : IsFiniteSet({j \in Live(texts) : j < k}) /\ Nth(texts, k) \in Nat
  BY <1>1, FS_Subset, FS_CardinalityType DEF Nth
<1>4. Nth(texts, i) <= Cardinality(Live(texts) \ {i})
  <2>1. {j \in Live(texts) : j < i} \subseteq Live(texts) \ {i}
    BY <1>1
  <2> QED
    BY <1>2, <2>1, FS_Subset DEF Nth
<1>5. ASSUME NEW k \in Live(texts), k < i
      PROVE  Nth(texts, k) < Nth(texts, i)
  <2> DEFINE before == {j \in Live(texts) : j < i}
             sooner == {j \in Live(texts) : j < k}
  <2>1. k \in before /\ sooner \subseteq before \ {k}
    <3>1. k \in 1..Len(texts) /\ \A j \in Live(texts) : j \in 1..Len(texts)
      BY <1>1
    <3> QED
      BY <1>1, <1>5, <3>1
  <2>2. IsFiniteSet(before) /\ Cardinality(before) \in Nat
    BY <1>3, FS_CardinalityType
  <2>3. IsFiniteSet(before \ {k}) /\ Cardinality(before \ {k}) = Cardinality(before) - 1
    BY <2>1, <2>2, FS_RemoveElement
  <2>4. Cardinality(sooner) <= Cardinality(before \ {k}) /\ Cardinality(sooner) \in Nat
    BY <2>1, <2>3, FS_Subset, FS_CardinalityType
  <2>5. Cardinality(sooner) < Cardinality(before)
    BY <2>2, <2>3, <2>4
  <2> QED
    BY <2>5 DEF Nth
<1>6. Nth(texts, i) \in 0..(Cardinality(Live(texts)) - 1)
  <2>1. Nth(texts, i) \in Nat
    BY <1>3
  <2>2. Nth(texts, i) <= Cardinality(Live(texts)) - 1
    BY <1>2, <1>4
  <2> QED
    BY <1>1, <2>1, <2>2
<1> QED
  BY <1>5, <1>6

LEMMA NthIsOne ==
    ASSUME NEW texts \in Seq(BOOLEAN), NEW i \in Live(texts), NEW k \in Live(texts),
           Nth(texts, i) = Nth(texts, k)
    PROVE  i = k
<1>1. i \in Int /\ k \in Int
  BY LiveFacts
<1>2. Nth(texts, i) \in Int /\ Nth(texts, k) \in Int
  BY NthFacts
<1>3. ~(i < k) /\ ~(k < i)
  BY <1>2, NthFacts
<1> QED
  BY <1>1, <1>3

\* The texts that are not blank are numbered without gaps: as many numbers as
\* texts, and no two of one number.
LEMMA NthIsThere ==
    ASSUME NEW texts \in Seq(BOOLEAN), NEW m \in 0..(Cardinality(Live(texts)) - 1)
    PROVE  \E i \in Live(texts) : Nth(texts, i) = m
<1> DEFINE N == Cardinality(Live(texts))
           f == [i \in Live(texts) |-> Nth(texts, i)]
<1>1. N \in Nat /\ IsFiniteSet(Live(texts))
  BY LiveFacts
<1>2. f \in [Live(texts) -> 0..(N - 1)]
  BY NthFacts
<1>3. IsInjective(f)
  BY NthIsOne DEF IsInjective
<1>4. f \in Injection(Live(texts), 0..(N - 1))
  BY <1>2, <1>3 DEF Injection
<1>5. IsFiniteSet(0..(N - 1)) /\ Cardinality(0..(N - 1)) = N
  <2>1. 0 \in Int /\ N - 1 \in Int
    BY <1>1
  <2>2. Cardinality(0..(N - 1)) = IF 0 > N - 1 THEN 0 ELSE N - 1 - 0 + 1
    BY <2>1, FS_Interval
  <2>3. IsFiniteSet(0..(N - 1))
    BY <2>1, FS_Interval
  <2> QED
    BY <1>1, <2>2, <2>3
<1>6. f \in Surjection(Live(texts), 0..(N - 1))
  BY <1>4, <1>5, FS_Injection
<1> QED
  BY <1>6 DEF Surjection

LEMMA LiveAtFacts ==
    ASSUME NEW texts \in Seq(BOOLEAN)
    PROVE  /\ \A m \in 0..(Cardinality(Live(texts)) - 1) : LiveAt(texts, m + 1) \in Live(texts)
           /\ \A i \in Live(texts) : LiveAt(texts, Nth(texts, i) + 1) = i
<1>1. ASSUME NEW m \in 0..(Cardinality(Live(texts)) - 1)
      PROVE  LiveAt(texts, m + 1) \in Live(texts) /\ Nth(texts, LiveAt(texts, m + 1)) = m
  <2>1. \E i \in Live(texts) : Nth(texts, i) = m
    BY NthIsThere
  <2>2. PICK n : n = m + 1
    OBVIOUS
  <2>3. n - 1 = m
    BY <2>2, LiveFacts
  <2>4. \E i \in Live(texts) : Nth(texts, i) = n - 1
    BY <2>1, <2>3
  <2>5. LiveAt(texts, n) \in Live(texts) /\ Nth(texts, LiveAt(texts, n)) = n - 1
    BY <2>4 DEF LiveAt
  <2> QED
    BY <2>2, <2>3, <2>5
<1>2. ASSUME NEW i \in Live(texts)
      PROVE  LiveAt(texts, Nth(texts, i) + 1) = i
  <2>1. PICK m \in 0..(Cardinality(Live(texts)) - 1) : m = Nth(texts, i)
    BY NthFacts
  <2>2. LiveAt(texts, m + 1) \in Live(texts) /\ Nth(texts, LiveAt(texts, m + 1)) = Nth(texts, i)
    BY <1>1, <2>1
  <2>3. LiveAt(texts, m + 1) = i
    BY <2>2, NthIsOne
  <2> QED
    BY <2>1, <2>3
<1> QED
  BY <1>1, <1>2

\* The m-th of n texts, counted from zero, has a place in the batches.
SlotBatch(m) == (m \div BatchSize) + 1
SlotPlace(m) == (m % BatchSize) + 1

LEMMA Slots ==
    ASSUME NEW n \in Nat, NEW m \in 0..(n - 1)
    PROVE  /\ SlotBatch(m) \in 1..((n + BatchSize - 1) \div BatchSize)
           /\ SlotPlace(m) \in 1..BatchSize
           /\ SlotPlace(m) <= n - (SlotBatch(m) - 1) * BatchSize
           /\ (SlotBatch(m) - 1) * BatchSize + SlotPlace(m) = m + 1
<1>s. PICK s \in Nat \ {0} : s = BatchSize
  OBVIOUS
<1>b. PICK b : b = SlotBatch(m)
  OBVIOUS
<1>k. PICK k : k = SlotPlace(m)
  OBVIOUS
<1>q. PICK q : q = m \div s
  OBVIOUS
<1>r. PICK r : r = m % s
  OBVIOUS
<1>c. PICK c : c = (n + s - 1) \div s
  OBVIOUS
<1>p. PICK p : p = q * s
  OBVIOUS
<1>1. q \in Nat /\ r \in 0..(s - 1) /\ m = p + r /\ p \in Nat
  <2>1. m \in Nat
    OBVIOUS
  <2>2. q \in Nat /\ r \in 0..(s - 1) /\ m = q * s + r
    BY <1>q, <1>r, <2>1, Divides
  <2>3. q * s \in Nat
    BY <2>2, TimesIsNat
  <2> QED
    BY <1>p, <2>2, <2>3
<1>a. PICK a : a = c * s
  OBVIOUS
<1>2. c \in Nat /\ a \in Nat /\ n - 1 < a
  <2>1. n + s - 1 \in Nat
    OBVIOUS
  <2>2. c \in Nat /\ (n + s - 1) % s \in 0..(s - 1) /\ n + s - 1 = c * s + ((n + s - 1) % s)
    BY <1>c, <2>1, Divides
  <2>3. PICK rest \in 0..(s - 1) : n + s - 1 = a + rest
    BY <1>a, <2>2
  <2>4. a \in Nat
    BY <1>a, <2>2, TimesIsNat
  <2> QED
    BY <2>2, <2>3, <2>4
<1>3. p <= n - 1
  BY <1>1
<1>4. q < c
  <2>1. CASE c <= q
    <3>1. a <= p
      BY <1>1, <1>2, <1>a, <1>p, <2>1, TimesGrows
    <3> QED
      BY <1>1, <1>2, <1>3, <3>1
  <2> QED
    BY <1>1, <1>2, <2>1
<1>5. b = q + 1 /\ k = r + 1 /\ b - 1 = q
  BY <1>q, <1>r, <1>1, <1>b, <1>k, <1>s DEF SlotBatch, SlotPlace
<1>6. k <= n - p /\ p + k = m + 1 /\ b \in 1..c /\ k \in 1..s
  BY <1>1, <1>2, <1>4, <1>5
<1> QED
  BY <1>5, <1>6, <1>c, <1>p, <1>s, <1>b, <1>k

\* A batch has a text at least, and its texts are in order those of its slots.
LEMMA BatchTexts ==
    ASSUME NEW texts \in Seq(BOOLEAN)
    PROVE  /\ BatchCount(texts) \in Nat
           /\ \A b \in 1..BatchCount(texts) :
                 /\ TextsOf(texts, b) \in Seq(Nat) /\ Len(TextsOf(texts, b)) >= 1
                 /\ Len(TextsOf(texts, b)) =
                       IF Cardinality(Live(texts)) - (b - 1) * BatchSize < BatchSize
                       THEN Cardinality(Live(texts)) - (b - 1) * BatchSize ELSE BatchSize
                 /\ \A n \in 1..Len(TextsOf(texts, b)) :
                       TextsOf(texts, b)[n] = LiveAt(texts, (b - 1) * BatchSize + n)
<1> DEFINE L == Cardinality(Live(texts))
<1>1. L \in Nat /\ BatchSize \in Nat \ {0}
  BY LiveFacts
<1>2. /\ BatchCount(texts) \in Nat /\ BatchCount(texts) = (L + BatchSize - 1) \div BatchSize
      /\ BatchCount(texts) * BatchSize <= L + BatchSize - 1
  <2> PICK n \in Nat : n = L + BatchSize - 1
    BY <1>1
  <2>1. /\ n \div BatchSize \in Nat /\ n % BatchSize \in 0..(BatchSize - 1)
        /\ n = (n \div BatchSize) * BatchSize + (n % BatchSize)
    BY <1>1, Divides
  <2>2. PICK all : all = (n \div BatchSize) * BatchSize
    OBVIOUS
  <2>3. all \in Nat
    BY <1>1, <2>1, <2>2, TimesIsNat
  <2>4. all <= n
    BY <1>1, <2>1, <2>2, <2>3
  <2>5. BatchCount(texts) = n \div BatchSize
    BY <1>1 DEF BatchCount
  <2> QED
    BY <2>1, <2>2, <2>4, <2>5
<1>3. ASSUME NEW b \in 1..BatchCount(texts)
      PROVE  /\ TextsOf(texts, b) \in Seq(Nat) /\ Len(TextsOf(texts, b)) >= 1
             /\ Len(TextsOf(texts, b)) = IF L - (b - 1) * BatchSize < BatchSize
                                         THEN L - (b - 1) * BatchSize ELSE BatchSize
             /\ \A n \in 1..Len(TextsOf(texts, b)) :
                   TextsOf(texts, b)[n] = LiveAt(texts, (b - 1) * BatchSize + n)
  <2>b. PICK before : before = (b - 1) * BatchSize
    OBVIOUS
  <2>a. PICK all : all = BatchCount(texts) * BatchSize
    OBVIOUS
  <2>s. PICK size : size = IF L - before < BatchSize THEN L - before ELSE BatchSize
    OBVIOUS
  <2>1. before \in Nat /\ all \in Int /\ before + BatchSize <= all
    <3>1. b \in Nat /\ BatchCount(texts) - b \in Nat
      BY <1>2
    <3>u. PICK upto : upto = b * BatchSize
      OBVIOUS
    <3>a. PICK after : after = (BatchCount(texts) - b) * BatchSize
      OBVIOUS
    <3>2. before + BatchSize = upto /\ upto \in Int
      <4>1. ((b - 1) + 1) * BatchSize = (b - 1) * BatchSize + 1 * BatchSize
            /\ (b - 1) * BatchSize \in Int
        BY <1>1, <3>1, TimesAdds
      <4>2. (b - 1) + 1 = b /\ 1 * BatchSize = BatchSize
        BY <1>1, <3>1
      <4> QED
        BY <1>1, <2>b, <3>u, <4>1, <4>2
    <3>3. all = upto + after
      <4>1. BatchCount(texts) \in Int /\ b \in Int /\ BatchCount(texts) - b \in Int
            /\ b + (BatchCount(texts) - b) = BatchCount(texts)
        BY <1>2, <3>1
      <4>2. (b + (BatchCount(texts) - b)) * BatchSize
              = b * BatchSize + (BatchCount(texts) - b) * BatchSize
        BY <1>1, <4>1, TimesAdds
      <4> QED
        BY <2>a, <3>u, <3>a, <4>1, <4>2
    <3>4. after \in Nat
      BY <1>1, <3>1, <3>a, TimesIsNat
    <3>5. before \in Nat
      <4>1. b - 1 \in Nat
        BY <1>2
      <4> QED
        BY <1>1, <2>b, <4>1, TimesIsNat
    <3>6. BatchSize \in Int
      BY <1>1
    <3> HIDE DEF L
    <3> QED
      BY <3>2, <3>3, <3>4, <3>5, <3>6
  <2>2. L - before >= 1
    <3>1. all <= L + BatchSize - 1
      BY <1>2, <2>a
    <3>2. L \in Int /\ BatchSize \in Int
      BY <1>1
    <3> HIDE DEF L
    <3> QED
      BY <2>1, <3>1, <3>2
  <2>3. size \in Nat /\ size >= 1 /\ size <= L - before
    BY <1>1, <2>1, <2>2, <2>s
  <2>4. TextsOf(texts, b) = [n \in 1..size |-> LiveAt(texts, before + n)]
    BY <2>b, <2>s DEF TextsOf
  <2>5. ASSUME NEW n \in 1..size
        PROVE  LiveAt(texts, before + n) \in Nat
    <3> PICK m : m = before + n - 1
      OBVIOUS
    <3>1. m \in 0..(L - 1) /\ m + 1 = before + n
      BY <1>1, <2>1, <2>3
    <3>2. LiveAt(texts, m + 1) \in Live(texts)
      BY <3>1, LiveAtFacts
    <3> QED
      BY <3>1, <3>2, LiveFacts
  <2>6. TextsOf(texts, b) \in Seq(Nat) /\ Len(TextsOf(texts, b)) = size
    BY <2>3, <2>4, <2>5
  <2> QED
    BY <2>3, <2>4, <2>6, <2>b, <2>s
<1> QED
  BY <1>2, <1>3

-----------------------------------------------------------------------------
(***************************************************************************)
(* Which vector is whose.                                                  *)
(***************************************************************************)
CallType == [at : {"new", "running", "returned", "failed", "cancelled"},
             texts : Inputs \cup {<<>>}, out : Seq(Nat)]
Expected(texts) == [i \in 1..Len(texts) |-> IF texts[i] THEN i ELSE Zero]

\* Of one call and its batches, what Placed and the types say of them.
Sound(k, bs) ==
    /\ k \in CallType /\ bs \in Seq(BatchType)
    /\ k.at = "new" => k = NotYet /\ bs = <<>>
    /\ k.at # "new" => k.texts \in Inputs /\ DOMAIN bs = 1..BatchCount(k.texts)
    /\ \A b \in DOMAIN bs : InTextOrder(k.texts, b, bs[b])
    /\ k.at = "returned" => k.out = Expected(k.texts)

Functions == call = [x \in Calls |-> call[x]] /\ batch = [x \in Calls |-> batch[x]]

Whole == /\ Functions
         /\ \A c \in Calls : Sound(call[c], batch[c])

\* A call whose batch changes.
LEMMA SoundBatch ==
    ASSUME NEW k, NEW bs, Sound(k, bs), NEW b \in DOMAIN bs, NEW r \in BatchType,
           InTextOrder(k.texts, b, r)
    PROVE  Sound(k, [bs EXCEPT ![b] = r]) /\ k.at # "new"
<1> PICK new : new = [bs EXCEPT ![b] = r]
  OBVIOUS
<1>1. bs \in Seq(BatchType)
  BY DEF Sound
<1>2. new \in Seq(BatchType)
  BY <1>1, ExceptSeq
<1>3. DOMAIN new = DOMAIN bs /\ new[b] = r /\ \A y \in DOMAIN bs : y # b => new[y] = bs[y]
  OBVIOUS
<1>4. \A y \in DOMAIN new : InTextOrder(k.texts, y, new[y])
  BY <1>3 DEF Sound
<1>5. k.at # "new"
  BY DEF Sound
<1> QED
  BY <1>2, <1>3, <1>4, <1>5 DEF Sound

\* A call that ends without vectors.
LEMMA SoundEnd ==
    ASSUME NEW k, NEW bs, Sound(k, bs), k.at # "new", NEW place \in {"failed", "cancelled"}
    PROVE  Sound([k EXCEPT !.at = place], bs)
<1> PICK new : new = [k EXCEPT !.at = place]
  OBVIOUS
<1>1. new \in CallType /\ new.at = place /\ new.texts = k.texts
  BY DEF Sound, CallType
<1> QED
  BY <1>1 DEF Sound

\* A step of one call.
LEMMA OneCall ==
    ASSUME Whole, NEW c \in Calls, Sound(call'[c], batch'[c]),
           call' = call \/ (\E k : call' = [call EXCEPT ![c] = k]),
           batch' = batch \/ (\E bs : batch' = [batch EXCEPT ![c] = bs])
    PROVE  Whole'
<1>f. /\ call' = [x \in Calls |-> call'[x]] /\ batch' = [x \in Calls |-> batch'[x]]
      /\ \A x \in Calls : x # c => call'[x] = call[x] /\ batch'[x] = batch[x]
  <2>1. call = [x \in Calls |-> call[x]] /\ batch = [x \in Calls |-> batch[x]]
    BY DEF Whole, Functions
  <2>2. call' = [x \in Calls |-> call'[x]] /\ \A x \in Calls : x # c => call'[x] = call[x]
    BY <2>1
  <2>3. batch' = [x \in Calls |-> batch'[x]] /\ \A x \in Calls : x # c => batch'[x] = batch[x]
    BY <2>1
  <2> QED
    BY <2>2, <2>3
<1>1. ASSUME NEW x \in Calls
      PROVE  Sound(call'[x], batch'[x])
  <2>1. CASE x = c
    BY <2>1
  <2>2. CASE x # c
    <3>1. call'[x] = call[x] /\ batch'[x] = batch[x] /\ Sound(call[x], batch[x])
      BY <1>f, <2>2 DEF Whole
    <3> QED
      BY <3>1
  <2> QED
    BY <2>1, <2>2
<1>2. Whole' <=> /\ call' = [x \in Calls |-> call'[x]] /\ batch' = [x \in Calls |-> batch'[x]]
                 /\ \A x \in Calls : Sound(call'[x], batch'[x])
  BY DEF Whole, Functions, Sound, InTextOrder
<1> QED
  BY <1>f, <1>1, <1>2

\* Start: every batch waits and has no vectors.
LEMMA WholeStart ==
    ASSUME Whole, NEW c \in Calls, NEW texts \in Inputs, Start(c, texts)
    PROVE  Whole'
<1> PICK k : k = [at |-> "running", texts |-> texts, out |-> <<>>]
  OBVIOUS
<1> PICK bs : bs = [b \in 1..BatchCount(texts) |-> Waiting]
  OBVIOUS
<1>1. texts \in Seq(BOOLEAN)
  OBVIOUS
<1>2. k \in CallType
  BY DEF CallType
<1>3. Waiting \in BatchType /\ Waiting.at = "waiting" /\ Waiting.vectors = <<>>
  BY DEF Waiting, BatchType
<1>4. bs \in Seq(BatchType) /\ DOMAIN bs = 1..BatchCount(texts)
  BY <1>1, <1>3, BatchTexts
<1>5. ASSUME NEW b \in DOMAIN bs
      PROVE  InTextOrder(texts, b, bs[b])
  <2>1. bs[b] = Waiting
    OBVIOUS
  <2>2. TextsOf(texts, b) \in Seq(Nat) /\ Len(TextsOf(texts, b)) >= 1
    BY <1>1, BatchTexts
  <2>3. Len(bs[b].vectors) = 0
    BY <1>3, <2>1
  <2> QED
    BY <1>3, <2>1, <2>2, <2>3 DEF InTextOrder
<1>6. k.at = "running" /\ k.texts = texts
  OBVIOUS
<1>7. Sound(k, bs)
  BY <1>2, <1>4, <1>5, <1>6 DEF Sound
<1>8. /\ call' = [call EXCEPT ![c] = k] /\ batch' = [batch EXCEPT ![c] = bs]
      /\ DOMAIN call = Calls /\ DOMAIN batch = Calls
  BY DEF Start, Whole, Functions
<1> QED
  BY <1>7, <1>8, OneCall

\* Every text that is not blank has its own vector once all batches are done.
LEMMA AllPlaced ==
    ASSUME Whole, NEW c \in Calls, call[c].at = "running",
           \A b \in DOMAIN batch[c] : BatchAt(c, b, "done")
    PROVE  Aligned(c) = Expected(call[c].texts)
<1> PICK texts : texts = call[c].texts
  OBVIOUS
<1>1. /\ texts \in Seq(BOOLEAN) /\ DOMAIN batch[c] = 1..BatchCount(texts)
      /\ \A b \in DOMAIN batch[c] : InTextOrder(texts, b, batch[c][b])
  BY DEF Whole, Sound
<1>2. Cardinality(Live(texts)) \in Nat /\ BatchSize \in Nat \ {0}
  BY <1>1, LiveFacts
<1>3. ASSUME NEW i \in 1..Len(texts), texts[i]
      PROVE  batch[c][(Nth(texts, i) \div BatchSize) + 1].vectors[(Nth(texts, i) % BatchSize) + 1] = i
  <2>1. i \in Live(texts)
    BY <1>3 DEF Live
  <2>m. PICK m \in 0..(Cardinality(Live(texts)) - 1) : m = Nth(texts, i)
    BY <1>1, <2>1, NthFacts
  <2>b. PICK b : b = SlotBatch(m)
    OBVIOUS
  <2>n. PICK n : n = SlotPlace(m)
    OBVIOUS
  <2>2. /\ b \in 1..BatchCount(texts) /\ n \in 1..BatchSize
        /\ n <= Cardinality(Live(texts)) - (b - 1) * BatchSize
        /\ (b - 1) * BatchSize + n = m + 1
    <3>1. PICK all \in Nat : all = Cardinality(Live(texts))
      BY <1>2
    <3>2. m \in 0..(all - 1)
      BY <3>1
    <3>3. /\ b \in 1..((all + BatchSize - 1) \div BatchSize) /\ n \in 1..BatchSize
          /\ n <= all - (b - 1) * BatchSize
          /\ (b - 1) * BatchSize + n = m + 1
      BY <3>2, <2>b, <2>n, Slots
    <3> QED
      BY <3>1, <3>3 DEF BatchCount
  <2>3. n \in 1..Len(TextsOf(texts, b)) /\ TextsOf(texts, b)[n] = LiveAt(texts, m + 1)
    <3>1. Len(TextsOf(texts, b)) \in {Cardinality(Live(texts)) - (b - 1) * BatchSize, BatchSize}
      BY <1>1, <2>2, BatchTexts
    <3>2. TextsOf(texts, b) \in Seq(Nat)
      BY <1>1, <2>2, BatchTexts
    <3>3. n \in 1..Len(TextsOf(texts, b))
      BY <2>2, <3>1, <3>2
    <3> QED
      BY <1>1, <2>2, <3>3, BatchTexts
  <2>4. LiveAt(texts, m + 1) = i
    BY <1>1, <2>1, <2>m, LiveAtFacts
  <2>5. batch[c][b].at = "done"
    BY <1>1, <2>2 DEF BatchAt
  <2>6. batch[c][b].vectors[n] = TextsOf(texts, b)[n]
    BY <1>1, <2>2, <2>3, <2>5 DEF InTextOrder
  <2> QED
    BY <2>3, <2>4, <2>6, <2>m, <2>b, <2>n DEF SlotBatch, SlotPlace
<1> QED
  BY <1>3 DEF Aligned, Expected

LEMMA WholeEnd ==
    ASSUME Whole, NEW c \in Calls, Refuse(c) \/ Return(c)
    PROVE  Whole'
<1>1. /\ DOMAIN call = Calls /\ DOMAIN batch = Calls /\ batch' = batch
      /\ Sound(call[c], batch[c]) /\ call[c].at = "running"
  BY DEF Whole, Functions, Refuse, Return, Running
<1>2. CASE Refuse(c)
  <2>1. call' = [call EXCEPT ![c] = [call[c] EXCEPT !.at = "failed"]]
    BY <1>2 DEF Refuse
  <2>2. Sound([call[c] EXCEPT !.at = "failed"], batch[c])
    BY <1>1, SoundEnd
  <2> QED
    BY <1>1, <2>1, <2>2, OneCall
<1>3. CASE Return(c)
  <2> PICK out : out = Aligned(c)
    OBVIOUS
  <2> PICK k : k = [call[c] EXCEPT !.at = "returned", !.out = out]
    OBVIOUS
  <2>1. out = Expected(call[c].texts)
    BY <1>1, <1>3, AllPlaced DEF Return
  <2>2. call[c].texts \in Seq(BOOLEAN)
    BY <1>1 DEF Sound
  <2>3. out \in Seq(Nat)
    BY <2>1, <2>2 DEF Expected, Zero
  <2>4. k \in CallType /\ k.at = "returned" /\ k.texts = call[c].texts /\ k.out = out
    BY <1>1, <2>3 DEF Sound, CallType
  <2>5. Sound(k, batch[c])
    BY <1>1, <2>1, <2>4 DEF Sound
  <2>6. call' = [call EXCEPT ![c] = k]
    BY <1>3 DEF Return
  <2> QED
    BY <1>1, <2>5, <2>6, OneCall
<1> QED
  BY <1>2, <1>3

LEMMA WholeCancel ==
    ASSUME Whole, NEW c \in Calls, Cancel(c)
    PROVE  Whole'
<1> PICK bs : bs = [b \in DOMAIN batch[c] |->
                 IF BatchAt(c, b, "waiting") THEN [batch[c][b] EXCEPT !.at = "failed"] ELSE batch[c][b]]
  OBVIOUS
<1>1. /\ DOMAIN call = Calls /\ DOMAIN batch = Calls
      /\ batch' = [batch EXCEPT ![c] = bs]
      /\ call' = [call EXCEPT ![c] = [call[c] EXCEPT !.at = "cancelled"]]
      /\ Sound(call[c], batch[c]) /\ call[c].at = "running"
  BY DEF Whole, Functions, Cancel, Running
<1>2. batch[c] \in Seq(BatchType)
  BY <1>1 DEF Sound
<1>3. ASSUME NEW b \in DOMAIN batch[c]
      PROVE  bs[b] \in BatchType /\ InTextOrder(call[c].texts, b, bs[b])
  <2>1. batch[c][b] \in BatchType /\ InTextOrder(call[c].texts, b, batch[c][b])
    <3>1. batch[c][b] \in BatchType
      BY <1>2
    <3> QED
      BY <1>1, <3>1 DEF Sound
  <2>2. CASE BatchAt(c, b, "waiting")
    <3> PICK r : r = [batch[c][b] EXCEPT !.at = "failed"]
      OBVIOUS
    <3>1. r \in BatchType /\ r.at = "failed" /\ r.vectors = batch[c][b].vectors /\ bs[b] = r
      BY <2>1, <2>2 DEF BatchType
    <3> QED
      BY <2>1, <3>1 DEF InTextOrder
  <2>3. CASE ~BatchAt(c, b, "waiting")
    BY <2>1, <2>3
  <2> QED
    BY <2>2, <2>3
<1>4. bs \in Seq(BatchType) /\ DOMAIN bs = DOMAIN batch[c]
  <2>1. Len(batch[c]) \in Nat /\ DOMAIN batch[c] = 1..Len(batch[c])
    BY <1>2
  <2>2. DOMAIN bs = DOMAIN batch[c] /\ \A b \in DOMAIN batch[c] : bs[b] \in BatchType
    BY <1>3
  <2>3. bs \in [1..Len(batch[c]) -> BatchType]
    BY <2>1, <2>2
  <2> QED
    BY <2>1, <2>2, <2>3
<1>5. Sound(call[c], bs)
  BY <1>1, <1>3, <1>4 DEF Sound
<1>6. Sound([call[c] EXCEPT !.at = "cancelled"], bs)
  BY <1>1, <1>5, SoundEnd
<1> QED
  BY <1>1, <1>6, OneCall

\* A step of one batch: its record changes, and its call may fail.
LEMMA WholeBatch ==
    ASSUME Whole, NEW c \in Calls, NEW b \in DOMAIN batch[c], NEW r \in BatchType,
           InTextOrder(call[c].texts, b, r),
           batch' = [batch EXCEPT ![c][b] = r],
           UNCHANGED call \/ call' = [call EXCEPT ![c].at = IF @ = "running" THEN "failed" ELSE @]
    PROVE  Whole'
<1> PICK bs : bs = [batch[c] EXCEPT ![b] = r]
  OBVIOUS
<1>1. DOMAIN call = Calls /\ DOMAIN batch = Calls /\ Sound(call[c], batch[c])
  BY DEF Whole, Functions
<1>2. Sound(call[c], bs) /\ call[c].at # "new"
  BY <1>1, SoundBatch
<1>3. batch' = [batch EXCEPT ![c] = bs]
  OBVIOUS
<1>4. CASE call' = call
  <2>1. Sound(call'[c], batch'[c])
    BY <1>1, <1>2, <1>3, <1>4
  <2> QED
    BY <1>3, <1>4, <2>1, OneCall
<1>5. CASE call' = [call EXCEPT ![c] = [call[c] EXCEPT !.at = "failed"]]
  <2>1. Sound([call[c] EXCEPT !.at = "failed"], bs)
    BY <1>2, SoundEnd
  <2> QED
    BY <1>1, <1>3, <1>5, <2>1, OneCall
<1>6. call' = [call EXCEPT ![c].at = call[c].at] => call' = call
  <2> SUFFICES ASSUME call' = [call EXCEPT ![c] = [call[c] EXCEPT !.at = call[c].at]] PROVE call' = call
    OBVIOUS
  <2>1. [call[c] EXCEPT !.at = call[c].at] = call[c]
    BY <1>1 DEF Sound, CallType
  <2> QED
    BY <2>1 DEF Whole, Functions
<1> QED
  BY <1>4, <1>5, <1>6

LEMMA WholeRequests ==
    ASSUME Whole, NEW c \in Calls, NEW b \in DOMAIN batch[c],
           Acquire(c, b) \/ Unsent(c, b) \/ Reply(c, b)
    PROVE  Whole'
<1> PICK texts : texts = call[c].texts
  OBVIOUS
<1> PICK wanted : wanted = TextsOf(texts, b)
  OBVIOUS
<1> PICK old : old = batch[c][b]
  OBVIOUS
<1>1. /\ DOMAIN call = Calls /\ DOMAIN batch = Calls /\ batch[c] \in Seq(BatchType)
      /\ texts \in Seq(BOOLEAN) /\ b \in 1..BatchCount(texts)
  <2>1. DOMAIN call = Calls /\ DOMAIN batch = Calls /\ Sound(call[c], batch[c])
    BY DEF Whole, Functions
  <2>2. batch[c] \in Seq(BatchType) /\ batch[c] # <<>>
    BY <2>1 DEF Sound
  <2>3. texts \in Inputs /\ DOMAIN batch[c] = 1..BatchCount(texts)
    BY <2>1, <2>2 DEF Sound
  <2> QED
    BY <2>1, <2>2, <2>3
<1>2. old \in BatchType /\ InTextOrder(texts, b, old)
  <2>1. old \in BatchType
    BY <1>1
  <2> QED
    BY <2>1 DEF Whole, Sound
<1>3. wanted \in Seq(Nat) /\ Len(wanted) >= 1
  BY <1>1, BatchTexts
<1>4. /\ old.vectors \in Seq(Nat) /\ Len(old.vectors) \in Nat /\ Len(wanted) \in Nat
      /\ Len(old.vectors) <= Len(wanted)
      /\ \A n \in 1..Len(old.vectors) : old.vectors[n] = wanted[n]
      /\ old.at \in {"waiting", "batched"} => old.vectors = <<>>
      /\ old.at = "legacy" => Len(old.vectors) < Len(wanted)
  BY <1>2, <1>3 DEF InTextOrder, BatchType
\* A batch that moves on with the vectors it has.
<1>5. ASSUME NEW place \in {"batched", "legacy", "failed"},
             place \in {"batched", "legacy"} => old.at \in {"waiting", "batched"}
      PROVE  /\ [old EXCEPT !.at = place] \in BatchType
             /\ InTextOrder(texts, b, [old EXCEPT !.at = place])
  <2> PICK r : r = [old EXCEPT !.at = place]
    OBVIOUS
  <2>1. r \in BatchType /\ r.at = place /\ r.vectors = old.vectors
    BY <1>2 DEF BatchType
  <2>2. old.vectors = <<>> => Len(old.vectors) = 0
    OBVIOUS
  <2> QED
    BY <1>3, <1>4, <1>5, <2>1, <2>2 DEF InTextOrder
<1>6. CASE Acquire(c, b)
  <2> PICK place \in {"batched", "legacy"} : place = IF useBatchEndpoint THEN "batched" ELSE "legacy"
    OBVIOUS
  <2>1. old.at = "waiting" /\ call' = call
    BY <1>6 DEF Acquire, BatchAt
  <2>2. batch' = [batch EXCEPT ![c][b] = [old EXCEPT !.at = place]]
    BY <1>6 DEF Acquire
  <2>3. [old EXCEPT !.at = place] \in BatchType /\ InTextOrder(texts, b, [old EXCEPT !.at = place])
    BY <1>5, <2>1
  <2> QED
    BY <2>1, <2>2, <2>3, WholeBatch
<1>7. CASE Unsent(c, b) \/ Fail(c, b)
  <2>1. /\ batch' = [batch EXCEPT ![c][b] = [old EXCEPT !.at = "failed"]]
        /\ UNCHANGED call \/ call' = [call EXCEPT ![c].at = IF @ = "running" THEN "failed" ELSE @]
    BY <1>7 DEF Unsent, Fail
  <2>2. [old EXCEPT !.at = "failed"] \in BatchType /\ InTextOrder(texts, b, [old EXCEPT !.at = "failed"])
    BY <1>5
  <2> QED
    BY <2>1, <2>2, WholeBatch
<1>8. CASE FallBack(c, b)
  <2>1. /\ batch' = [batch EXCEPT ![c][b] = [old EXCEPT !.at = "legacy"]]
        /\ call' = call /\ old.at = "batched"
    BY <1>8 DEF FallBack, BatchAt
  <2>2. [old EXCEPT !.at = "legacy"] \in BatchType /\ InTextOrder(texts, b, [old EXCEPT !.at = "legacy"])
    BY <1>5, <2>1
  <2> QED
    BY <2>1, <2>2, WholeBatch
<1>9. CASE Embedded(c, b)
  <2> PICK r : r = [at |-> "done", vectors |-> wanted]
    OBVIOUS
  <2>1. batch' = [batch EXCEPT ![c][b] = r] /\ call' = call
    BY <1>9 DEF Embedded
  <2>2. r \in BatchType /\ r.at = "done" /\ r.vectors = wanted
    BY <1>3 DEF BatchType
  <2>3. InTextOrder(texts, b, r)
    BY <1>4, <2>2 DEF InTextOrder
  <2> QED
    BY <2>1, <2>2, <2>3, WholeBatch
<1>10. CASE EmbeddedOne(c, b)
  <2> PICK sofar : sofar = Append(old.vectors, wanted[Len(old.vectors) + 1])
    OBVIOUS
  <2>1. old.at = "legacy" /\ call' = call
    BY <1>10 DEF EmbeddedOne, BatchAt
  <2>2. /\ sofar \in Seq(Nat) /\ Len(sofar) = Len(old.vectors) + 1 /\ Len(sofar) <= Len(wanted)
        /\ \A n \in 1..Len(sofar) : sofar[n] = wanted[n]
    <3>1. Len(old.vectors) + 1 \in 1..Len(wanted)
      BY <1>4, <2>1
    <3>2. wanted[Len(old.vectors) + 1] \in Nat
      BY <1>3, <3>1
    <3> QED
      BY <1>4, <3>1, <3>2
  <2>3. CASE Len(sofar) = Len(wanted)
    <3> PICK r : r = [at |-> "done", vectors |-> sofar]
      OBVIOUS
    <3>1. batch' = [batch EXCEPT ![c][b] = r]
      BY <1>10, <2>3 DEF EmbeddedOne
    <3>2. r \in BatchType /\ r.at = "done" /\ r.vectors = sofar
      BY <2>2 DEF BatchType
    <3>3. InTextOrder(texts, b, r)
      BY <2>2, <2>3, <3>2 DEF InTextOrder
    <3> QED
      BY <2>1, <3>1, <3>2, <3>3, WholeBatch
  <2>4. CASE Len(sofar) # Len(wanted)
    <3> PICK r : r = [old EXCEPT !.vectors = sofar]
      OBVIOUS
    <3>1. batch' = [batch EXCEPT ![c][b] = r]
      BY <1>10, <2>4 DEF EmbeddedOne
    <3>2. r \in BatchType /\ r.at = "legacy" /\ r.vectors = sofar
      BY <1>2, <2>1, <2>2 DEF BatchType
    <3>3. InTextOrder(texts, b, r)
      <4>1. Len(sofar) < Len(wanted)
        BY <1>4, <2>2, <2>4
      <4> QED
        BY <2>2, <3>2, <4>1 DEF InTextOrder
    <3> QED
      BY <2>1, <3>1, <3>2, <3>3, WholeBatch
  <2> QED
    BY <2>3, <2>4
<1> QED
  BY <1>6, <1>7, <1>8, <1>9, <1>10 DEF Reply

LEMMA WholeStep ==
    ASSUME Whole, [Next]_vars
    PROVE  Whole'
<1>1. CASE UNCHANGED vars
  <2>1. call' = call /\ batch' = batch
    BY <1>1 DEF vars
  <2> QED
    BY <2>1 DEF Whole, Functions, Sound, InTextOrder
<1>2. CASE Next
  <2> PICK c \in Calls :
        \/ \E texts \in Inputs : Start(c, texts)
        \/ Refuse(c) \/ Return(c) \/ Cancel(c)
        \/ \E b \in DOMAIN batch[c] : Acquire(c, b) \/ Unsent(c, b) \/ Reply(c, b)
    BY <1>2 DEF Next
  <2> QED
    BY WholeStart, WholeEnd, WholeCancel, WholeRequests
<1> QED
  BY <1>1, <1>2

LEMMA WholeInit == Init => Whole
<1> SUFFICES ASSUME Init PROVE Whole
  OBVIOUS
<1>1. Functions /\ \A c \in Calls : call[c] = NotYet /\ batch[c] = <<>>
  BY DEF Init, Functions
<1>2. Sound(NotYet, <<>>)
  <2>1. NotYet \in CallType /\ NotYet.at = "new"
    BY DEF NotYet, CallType
  <2>2. <<>> \in Seq(BatchType) /\ DOMAIN <<>> = {}
    OBVIOUS
  <2> QED
    BY <2>1, <2>2 DEF Sound
<1> QED
  BY <1>1, <1>2 DEF Whole

LEMMA AlwaysWhole == Spec => []Whole
BY WholeInit, WholeStep, PTL DEF Spec

\* The state of the adapter keeps its types: no permit is given back that was
\* not taken, whatever way its batch ends.
THEOREM TypeCorrect == Spec => []TypeOK
<1>1. Shaped /\ Counted /\ Whole => TypeOK
  <2> SUFFICES ASSUME Shaped, Counted, Whole PROVE TypeOK
    OBVIOUS
  <2>1. permits \in 0..Concurrency
    <3>1. Cardinality(Holders) \in Nat
      BY FS_CardinalityType DEF Counted
    <3> QED
      BY <3>1 DEF Shaped, Counted
  <2>2. \A c \in Calls : call[c] \in CallType /\ batch[c] \in Seq(BatchType)
    BY DEF Whole, Sound
  <2>3. call = [c \in Calls |-> call[c]] /\ batch = [c \in Calls |-> batch[c]]
    BY DEF Whole, Functions
  <2>4. call \in [Calls -> CallType] /\ batch \in [Calls -> Seq(BatchType)]
    BY <2>2, <2>3
  <2> QED
    BY <2>1, <2>4 DEF Shaped, TypeOK, CallType
<1> QED
  BY AlwaysCounted, AlwaysWhole, <1>1, PTL

\* Each batch has the vectors of its own texts, in their order, at every step of
\* either endpoint, so that a call gives every text its own vector.
THEOREM BatchesArePlaced == Spec => []Placed
<1>1. Whole => Placed
  BY DEF Whole, Sound, Placed, VectorsAligned, Expected
<1> QED
  BY AlwaysWhole, <1>1, PTL

\* Blank texts, the cut into batches, the fallback half way through a call and
\* the order of the replies change nothing of which vector belongs to which text.
THEOREM VectorsStayAligned == Spec => []VectorsAligned
<1>1. Placed => VectorsAligned
  BY DEF Placed
<1> QED
  BY BatchesArePlaced, <1>1, PTL

-----------------------------------------------------------------------------
(***************************************************************************)
(* How many steps a call has left.                                         *)
(***************************************************************************)
LEMMA BatchFacts ==
    ASSUME NEW k, NEW bs, Sound(k, bs), NEW b \in DOMAIN bs
    PROVE  /\ bs[b] \in BatchType /\ Len(bs[b].vectors) \in Nat
           /\ StepsLeft(bs[b]) \in Nat
           /\ bs[b].at = "legacy" => StepsLeft(bs[b]) >= 1
           /\ k.at # "new"
<1> PICK r : r = bs[b]
  OBVIOUS
<1>1. /\ r \in BatchType /\ InTextOrder(k.texts, b, r) /\ k.at # "new"
      /\ k.texts \in Seq(BOOLEAN) /\ b \in 1..BatchCount(k.texts)
  <2>1. bs \in Seq(BatchType) /\ bs # <<>>
    BY DEF Sound
  <2>2. r \in BatchType
    BY <2>1
  <2>3. k.at # "new"
    BY <2>1 DEF Sound
  <2> QED
    BY <2>2, <2>3 DEF Sound
<1> PICK size : size = Len(TextsOf(k.texts, b))
  OBVIOUS
<1> PICK left : left = Cardinality(Live(k.texts)) - (b - 1) * BatchSize
  OBVIOUS
<1>2. size \in Nat /\ size <= BatchSize
  <2>1. /\ TextsOf(k.texts, b) \in Seq(Nat)
        /\ size = IF left < BatchSize THEN left ELSE BatchSize
    BY <1>1, BatchTexts
  <2>2. size \in Nat
    BY <2>1, LenProperties
  <2>3. Cardinality(Live(k.texts)) \in Nat /\ b \in Nat /\ BatchSize \in Nat
    BY <1>1, LiveFacts, BatchTexts
  <2>4. left \in Int
    <3>1. (b - 1) * BatchSize \in Int
      BY <2>3, TimesAdds
    <3> QED
      BY <2>3, <3>1
  <2> QED
    BY <2>1, <2>2, <2>3, <2>4
<1>3. Len(r.vectors) \in Nat /\ (r.at = "legacy" => Len(r.vectors) < size)
  BY <1>1 DEF InTextOrder, BatchType
<1>4. StepsLeft(r) \in Nat /\ (r.at = "legacy" => StepsLeft(r) >= 1)
  BY <1>2, <1>3 DEF StepsLeft
<1> QED
  BY <1>1, <1>3, <1>4

\* A batch's permit, reply, failure.
LEMMA RequestNearer ==
    ASSUME Whole, NEW c \in Calls, NEW b \in DOMAIN batch[c],
           Acquire(c, b) \/ Unsent(c, b) \/ Reply(c, b)
    PROVE  /\ StepsLeft(batch'[c][b]) < StepsLeft(batch[c][b])
           /\ DOMAIN batch'[c] = DOMAIN batch[c]
           /\ \A y \in DOMAIN batch[c] : y # b => batch'[c][y] = batch[c][y]
           /\ \A x \in Calls : x # c => batch'[x] = batch[x]
           /\ \A x \in Calls : Over(x) => Over(x)'
<1> PICK old : old = batch[c][b]
  OBVIOUS
<1>d. DOMAIN call = Calls /\ DOMAIN batch = Calls
  BY DEF Whole, Functions
<1>o. /\ old \in BatchType /\ Len(old.vectors) \in Nat /\ StepsLeft(old) \in Nat
      /\ old.at = "legacy" => StepsLeft(old) >= 1
  BY BatchFacts DEF Whole
<1>1. PICK new : batch' = [batch EXCEPT ![c][b] = new] /\ StepsLeft(new) < StepsLeft(old)
  <2>1. ASSUME NEW place \in {"batched", "legacy", "failed"},
               old.at = "waiting" \/ (old.at = "batched" /\ place # "batched") \/ place = "failed",
               old.at \in {"waiting", "batched", "legacy"}
        PROVE  StepsLeft([old EXCEPT !.at = place]) < StepsLeft(old)
    <3> PICK new : new = [old EXCEPT !.at = place]
      OBVIOUS
    <3>1. new.at = place /\ new.vectors = old.vectors
      BY <1>o DEF BatchType
    <3> QED
      BY <1>o, <2>1, <3>1 DEF StepsLeft
  <2>2. CASE Acquire(c, b)
    <3> PICK place \in {"batched", "legacy"} : place = IF useBatchEndpoint THEN "batched" ELSE "legacy"
      OBVIOUS
    <3>1. old.at = "waiting" /\ batch' = [batch EXCEPT ![c][b] = [old EXCEPT !.at = place]]
      BY <2>2 DEF Acquire, BatchAt
    <3> QED
      BY <2>1, <3>1
  <2>3. CASE Unsent(c, b) \/ Fail(c, b)
    <3>1. /\ batch' = [batch EXCEPT ![c][b] = [old EXCEPT !.at = "failed"]]
          /\ old.at \in {"waiting", "batched", "legacy"}
      BY <2>3 DEF Unsent, Fail, InFlight, BatchAt
    <3> QED
      BY <2>1, <3>1
  <2>4. CASE FallBack(c, b)
    <3>1. batch' = [batch EXCEPT ![c][b] = [old EXCEPT !.at = "legacy"]] /\ old.at = "batched"
      BY <2>4 DEF FallBack, BatchAt
    <3> QED
      BY <2>1, <3>1
  <2>5. CASE Embedded(c, b)
    <3> PICK new : new = [at |-> "done", vectors |-> TextsOf(call[c].texts, b)]
      OBVIOUS
    <3>1. batch' = [batch EXCEPT ![c][b] = new] /\ old.at = "batched"
      BY <2>5 DEF Embedded, BatchAt
    <3>2. StepsLeft(new) < StepsLeft(old)
      BY <3>1 DEF StepsLeft
    <3> QED
      BY <3>1, <3>2
  <2>6. CASE EmbeddedOne(c, b)
    <3> PICK wanted : wanted = TextsOf(call[c].texts, b)
      OBVIOUS
    <3> PICK sofar : sofar = Append(old.vectors, wanted[Len(old.vectors) + 1])
      OBVIOUS
    <3>1. old.at = "legacy" /\ Len(sofar) = Len(old.vectors) + 1
      BY <1>o, <2>6 DEF EmbeddedOne, BatchAt, BatchType
    <3>2. CASE Len(sofar) = Len(wanted)
      <4> PICK new : new = [at |-> "done", vectors |-> sofar]
        OBVIOUS
      <4>1. batch' = [batch EXCEPT ![c][b] = new]
        BY <2>6, <3>2 DEF EmbeddedOne
      <4>2. StepsLeft(new) < StepsLeft(old)
        BY <1>o, <3>1 DEF StepsLeft
      <4> QED
        BY <4>1, <4>2
    <3>3. CASE Len(sofar) # Len(wanted)
      <4> PICK new : new = [old EXCEPT !.vectors = sofar]
        OBVIOUS
      <4>1. batch' = [batch EXCEPT ![c][b] = new]
        BY <2>6, <3>3 DEF EmbeddedOne
      <4>2. new.at = "legacy" /\ new.vectors = sofar
        BY <1>o, <3>1 DEF BatchType
      <4>3. StepsLeft(new) < StepsLeft(old)
        BY <1>o, <3>1, <4>2 DEF StepsLeft
      <4> QED
        BY <4>1, <4>3
    <3> QED
      BY <3>2, <3>3
  <2> QED
    BY <2>2, <2>3, <2>4, <2>5, <2>6 DEF Reply
<1>2. \A x \in Calls : Over(x) => Over(x)'
  <2>1. CASE Fail(c, b)
    <3>1. \A x \in Calls : call'[x].at = call[x].at \/ (x = c /\ call[c].at = "running")
      <4>1. call' = [call EXCEPT ![c] = [call[c] EXCEPT !.at =
                                           IF call[c].at = "running" THEN "failed" ELSE call[c].at]]
        BY <2>1 DEF Fail
      <4>2. call[c] \in CallType
        BY DEF Whole, Sound
      <4> QED
        BY <1>d, <4>1, <4>2 DEF CallType
    <3> QED
      BY <3>1 DEF Over
  <2>2. CASE ~Fail(c, b)
    <3>1. call' = call
      BY <2>2 DEF Acquire, Unsent, Reply, Embedded, FallBack, EmbeddedOne
    <3> QED
      BY <3>1 DEF Over
  <2> QED
    BY <2>1, <2>2
<1>3. batch'[c] = [batch[c] EXCEPT ![b] = new] /\ \A x \in Calls : x # c => batch'[x] = batch[x]
  BY <1>d, <1>1
<1> QED
  BY <1>1, <1>2, <1>3

\* A step of the call itself moves its batches to their end or leaves them.
LEMMA CallNearer ==
    ASSUME Whole, NEW c \in Calls,
           (\E texts \in Inputs : Start(c, texts)) \/ Refuse(c) \/ Return(c) \/ Cancel(c)
    PROVE  /\ \A x \in Calls : x # c => batch'[x] = batch[x] /\ call'[x] = call[x]
           /\ \A b \in DOMAIN batch[c] :
                 /\ b \in DOMAIN batch'[c]
                 /\ batch'[c][b] = batch[c][b] \/ StepsLeft(batch'[c][b]) = 0
           /\ ~Over(c)
<1>d. DOMAIN call = Calls /\ DOMAIN batch = Calls /\ Sound(call[c], batch[c])
  BY DEF Whole, Functions
<1>1. ASSUME NEW texts \in Inputs, Start(c, texts)
      PROVE  /\ \A x \in Calls : x # c => batch'[x] = batch[x] /\ call'[x] = call[x]
             /\ DOMAIN batch[c] = {} /\ ~Over(c)
  <2>1. call[c].at = "new"
    BY <1>1 DEF Start, NotYet
  <2>2. batch[c] = <<>>
    BY <1>d, <2>1 DEF Sound
  <2> QED
    BY <1>1, <1>d, <2>1, <2>2 DEF Start, Over
<1>2. CASE Refuse(c) \/ Return(c)
  BY <1>2, <1>d DEF Refuse, Return, Running, Over
<1>3. CASE Cancel(c)
  <2>1. ~Over(c) /\ \A x \in Calls : x # c => batch'[x] = batch[x] /\ call'[x] = call[x]
    BY <1>3, <1>d DEF Cancel, Running, Over
  <2>2. batch'[c] = [b \in DOMAIN batch[c] |->
                       IF BatchAt(c, b, "waiting") THEN [batch[c][b] EXCEPT !.at = "failed"]
                       ELSE batch[c][b]]
    BY <1>3, <1>d DEF Cancel
  <2>3. ASSUME NEW b \in DOMAIN batch[c]
        PROVE  /\ b \in DOMAIN batch'[c]
               /\ batch'[c][b] = batch[c][b] \/ StepsLeft(batch'[c][b]) = 0
    <3>1. batch[c][b] \in BatchType
      BY <1>d, BatchFacts
    <3>2. [batch[c][b] EXCEPT !.at = "failed"].at = "failed"
      BY <3>1 DEF BatchType
    <3> QED
      BY <2>2, <3>2 DEF StepsLeft
  <2> QED
    BY <2>1, <2>3
<1> QED
  BY <1>1, <1>2, <1>3

\* However calls overlap, fail and are cancelled, a batch takes a permit, asks
\* /api/embed once and sends a request for each of its texts at most: no retry
\* and no fallback goes on for ever.
THEOREM NearerEveryStep == Spec => EveryStepIsNearer
<1> DEFINE Nearer(c) ==
        /\ \A b \in DOMAIN batch[c] :
              /\ b \in DOMAIN batch'[c] /\ StepsLeft(batch'[c][b]) \in Nat
              /\ Acquire(c, b) \/ Unsent(c, b) \/ Reply(c, b) =>
                    StepsLeft(batch'[c][b]) < StepsLeft(batch[c][b])
              /\ StepsLeft(batch'[c][b]) <= StepsLeft(batch[c][b])
        /\ Over(c) => Over(c)'
<1>1. ASSUME Whole, Next, NEW c \in Calls
      PROVE  Nearer(c)
  <2>w. Whole'
    BY <1>1, WholeStep
  <2>1. ASSUME NEW b \in DOMAIN batch[c]
        PROVE  StepsLeft(batch[c][b]) \in Nat
    BY <1>1, BatchFacts DEF Whole
  <2>2. ASSUME NEW b \in DOMAIN batch'[c]
        PROVE  StepsLeft(batch'[c][b]) \in Nat
    <3>1. Sound(call'[c], batch'[c])
      BY <2>w DEF Whole, Sound, InTextOrder
    <3> QED
      BY <3>1, BatchFacts
  <2>3. ASSUME NEW b \in DOMAIN batch[c], Acquire(c, b) \/ Unsent(c, b) \/ Reply(c, b)
        PROVE  StepsLeft(batch'[c][b]) < StepsLeft(batch[c][b])
    BY <1>1, <2>3, RequestNearer
  <2>4. /\ \A b \in DOMAIN batch[c] : /\ b \in DOMAIN batch'[c]
                                      /\ \/ batch'[c][b] = batch[c][b]
                                         \/ StepsLeft(batch'[c][b]) = 0
                                         \/ StepsLeft(batch'[c][b]) < StepsLeft(batch[c][b])
        /\ Over(c) => Over(c)'
    <3>1. ASSUME NEW o \in Calls,
                 (\E texts \in Inputs : Start(o, texts)) \/ Refuse(o) \/ Return(o) \/ Cancel(o)
          PROVE  <2>4!1 /\ (Over(c) => Over(c)')
      <4>1. CASE o = c
        BY <1>1, <3>1, <4>1, CallNearer
      <4>2. CASE o # c
        BY <1>1, <3>1, <4>2, CallNearer DEF Over
      <4> QED
        BY <4>1, <4>2
    <3>2. ASSUME NEW o \in Calls, NEW b \in DOMAIN batch[o],
                 Acquire(o, b) \/ Unsent(o, b) \/ Reply(o, b)
          PROVE  <2>4!1 /\ (Over(c) => Over(c)')
      BY <1>1, <3>2, RequestNearer
    <3> QED
      BY <1>1, <3>1, <3>2 DEF Next
  <2> QED
    BY <2>1, <2>2, <2>3, <2>4
<1>2. Whole /\ [Next]_vars => [\A c \in Calls : Nearer(c)]_vars
  BY <1>1
<1> QED
  BY <1>2, AlwaysWhole, PTL DEF Spec, EveryStepIsNearer
=============================================================================
