------------------------- MODULE ChatHistoryProofs -------------------------
(***************************************************************************)
(* For every set of turns and sessions, every Max and every fault: chat    *)
(* histories hold whole turns, in order, keep what was answered, and show  *)
(* it to the model.                                                        *)
(***************************************************************************)
EXTENDS ChatHistory, SequenceTheorems, TLAPS

LEMMA TurnOf ==
    ASSUME NEW s \in Seq(Message), NEW i \in 1..Len(s)
    PROVE  s[i].turn \in Turns
  <1>1. s[i] \in Message
    BY ElementOfSeq
  <1> QED BY <1>1 DEF Message

LEMMA AskedAreTurns ==
    ASSUME NEW s \in Seq(Message)
    PROVE  Asked(s) \subseteq Turns
  BY TurnOf DEF Asked

LEMMA SameParity == \A n \in Nat : (n + 2) % 2 = n % 2
  OBVIOUS

\* Cutting a list to Max messages: what stays, and where it was.
LEMMA TrimmedIs ==
    ASSUME NEW s \in Seq(Message)
    PROVE  /\ Trimmed(s) \in Seq(Message)
           /\ Len(Trimmed(s)) = IF Len(s) > Max THEN Max ELSE Len(s)
           /\ \A i \in 1..Len(Trimmed(s)) :
                 /\ i + (Len(s) - Len(Trimmed(s))) \in 1..Len(s)
                 /\ Trimmed(s)[i] = s[i + (Len(s) - Len(Trimmed(s)))]
  <1> USE ChatAssumption
  <1>1. CASE Len(s) > Max
    <2>1. Trimmed(s) = SubSeq(s, Len(s) - Max + 1, Len(s))
      BY <1>1 DEF Trimmed
    <2>2. Len(s) - Max + 1 \in 1..Len(s)
      BY <1>1
    <2> QED BY <2>1, <2>2, <1>1
  <1>2. CASE ~(Len(s) > Max)
    BY <1>2 DEF Trimmed
  <1> QED BY <1>1, <1>2

Old(t) == log[turn[t].key]
Cut(t) == Len(Old(t)) + 2 - Len(Appended(t))

\* The list a save leaves, position by position counted from the old list.
LEMMA AppendedIs ==
    ASSUME TypeOK, NEW t \in Turns, turn[t].key \in Keys
    PROVE  /\ Old(t) \in Seq(Message) /\ Appended(t) \in Seq(Message)
           /\ Cut(t) \in Nat
           /\ Len(Appended(t)) = IF Len(Old(t)) + 2 > Max THEN Max ELSE Len(Old(t)) + 2
           /\ Appended(t)[Len(Appended(t))] = [turn |-> t, role |-> "assistant"]
           /\ Appended(t)[Len(Appended(t)) - 1] = [turn |-> t, role |-> "user"]
           /\ \A i \in 1..Len(Appended(t)) - 2 :
                 i + Cut(t) \in 1..Len(Old(t)) /\ Appended(t)[i] = Old(t)[i + Cut(t)]
  <1> USE ChatAssumption
  <1> DEFINE s == Old(t) \o Pair(t)
  <1>1. Old(t) \in Seq(Message)
    BY DEF TypeOK, Old
  <1>2. Pair(t) \in Seq(Message) /\ Len(Pair(t)) = 2
        /\ Pair(t)[1] = [turn |-> t, role |-> "user"]
        /\ Pair(t)[2] = [turn |-> t, role |-> "assistant"]
    BY DEF Pair, Message
  <1>3. /\ s \in Seq(Message)
        /\ Len(s) = Len(Old(t)) + 2
        /\ \A i \in 1..Len(Old(t)) + 2 :
              s[i] = IF i <= Len(Old(t)) THEN Old(t)[i] ELSE Pair(t)[i - Len(Old(t))]
    <2>1. /\ s \in Seq(Message)
          /\ Len(s) = Len(Old(t)) + Len(Pair(t))
          /\ \A i \in 1..Len(Old(t)) + Len(Pair(t)) :
                s[i] = IF i <= Len(Old(t)) THEN Old(t)[i] ELSE Pair(t)[i - Len(Old(t))]
      BY <1>1, <1>2, ConcatProperties, Zenon
    <2> QED BY <2>1, <1>2
  <1>0. Len(Old(t)) \in Nat
    BY <1>1
  <1>4. /\ \A i \in 1..Len(Old(t)) : s[i] = Old(t)[i]
        /\ s[Len(Old(t)) + 1] = [turn |-> t, role |-> "user"]
        /\ s[Len(Old(t)) + 2] = [turn |-> t, role |-> "assistant"]
    <2> HIDE DEF s
    <2>1. Len(Old(t)) + 1 \in 1..Len(Old(t)) + 2 /\ Len(Old(t)) + 2 \in 1..Len(Old(t)) + 2
          /\ (Len(Old(t)) + 1) - Len(Old(t)) = 1 /\ (Len(Old(t)) + 2) - Len(Old(t)) = 2
      BY <1>0
    <2>2. /\ s[Len(Old(t)) + 1] = Pair(t)[1]
          /\ s[Len(Old(t)) + 2] = Pair(t)[2]
      BY <1>0, <1>3, <2>1
    <2>3. \A i \in 1..Len(Old(t)) : s[i] = Old(t)[i]
      BY <1>0, <1>3
    <2> QED BY <2>2, <2>3, <1>2
  <1>5. Appended(t) = Trimmed(s)
    BY DEF Appended, Old
  <1> HIDE DEF s
  <1>6. /\ Appended(t) \in Seq(Message)
        /\ Len(Appended(t)) = IF Len(s) > Max THEN Max ELSE Len(s)
        /\ \A i \in 1..Len(Appended(t)) :
              /\ i + (Len(s) - Len(Appended(t))) \in 1..Len(s)
              /\ Appended(t)[i] = s[i + (Len(s) - Len(Appended(t)))]
    BY <1>3, <1>5, TrimmedIs
  <1>7. Len(Appended(t)) \in Nat /\ Len(Appended(t)) >= 2 /\ Cut(t) \in Nat
        /\ Len(s) - Len(Appended(t)) = Cut(t)
    BY <1>6, <1>3, <1>0 DEF Cut
  <1>8. /\ Appended(t)[Len(Appended(t))] = [turn |-> t, role |-> "assistant"]
        /\ Appended(t)[Len(Appended(t)) - 1] = [turn |-> t, role |-> "user"]
    <2>1. Len(Appended(t)) \in 1..Len(Appended(t)) /\ Len(Appended(t)) - 1 \in 1..Len(Appended(t))
      BY <1>7
    <2>2. Len(Appended(t)) + Cut(t) = Len(Old(t)) + 2
          /\ (Len(Appended(t)) - 1) + Cut(t) = Len(Old(t)) + 1
      BY <1>0, <1>7 DEF Cut
    <2> QED BY <2>1, <2>2, <1>6, <1>4, <1>7
  <1>9. ASSUME NEW i \in 1..Len(Appended(t)) - 2
        PROVE  i + Cut(t) \in 1..Len(Old(t)) /\ Appended(t)[i] = Old(t)[i + Cut(t)]
    <2>1. i \in 1..Len(Appended(t)) /\ i + Cut(t) \in 1..Len(Old(t))
      BY <1>7, <1>0 DEF Cut
    <2> QED BY <2>1, <1>6, <1>4, <1>7
  <1> QED BY <1>1, <1>0, <1>3, <1>6, <1>7, <1>8, <1>9

\* Whose messages are in the list a save leaves.
LEMMA AppendedAsked ==
    ASSUME TypeOK, NEW t \in Turns, turn[t].key \in Keys
    PROVE  /\ t \in Asked(Appended(t))
           /\ Asked(Appended(t)) \subseteq Asked(log[turn[t].key]) \cup {t}
           /\ \A u \in Asked(log[turn[t].key]) : u \in Asked(Appended(t)) \/ Full(Appended(t))
           /\ Full(log[turn[t].key]) => Full(Appended(t))
  <1> DEFINE old == Old(t)
             new == Appended(t)
             cut == Cut(t)
  <1>0. log[turn[t].key] = old
    BY DEF Old
  <1>1. /\ new \in Seq(Message) /\ old \in Seq(Message) /\ cut \in Nat
        /\ Len(new) = IF Len(old) + 2 > Max THEN Max ELSE Len(old) + 2
        /\ new[Len(new)] = [turn |-> t, role |-> "assistant"]
        /\ new[Len(new) - 1] = [turn |-> t, role |-> "user"]
        /\ \A i \in 1..Len(new) - 2 : i + cut \in 1..Len(old) /\ new[i] = old[i + cut]
        /\ cut = Len(old) + 2 - Len(new)
    BY AppendedIs DEF Cut
  <1> HIDE DEF old, new, cut
  <1>2. Len(new) \in Nat /\ Len(old) \in Nat /\ Len(new) >= 2 /\ Max \in Nat
    BY <1>1, ChatAssumption
  <1>3. t \in Asked(new)
    <2>1. Len(new) \in 1..Len(new) /\ new[Len(new)].turn = t
      BY <1>1, <1>2
    <2> QED BY <2>1 DEF Asked
  <1>4. ASSUME NEW i \in 1..Len(new)
        PROVE  new[i].turn \in Asked(old) \cup {t}
    <2>1. CASE i \in 1..Len(new) - 2
      BY <2>1, <1>1 DEF Asked
    <2>2. CASE i = Len(new) \/ i = Len(new) - 1
      BY <2>2, <1>1
    <2> QED BY <2>1, <2>2, <1>2
  <1>5. Asked(new) \subseteq Asked(old) \cup {t}
    BY <1>4 DEF Asked
  <1>6. ASSUME NEW u \in Asked(old), ~Full(new) PROVE u \in Asked(new)
    <2>1. PICK i \in 1..Len(old) : u = old[i].turn
      BY DEF Asked
    <2>2. cut = 0 /\ i \in 1..Len(new) - 2 /\ i + cut = i
      BY <1>1, <1>2, <1>6 DEF Full
    <2>3. new[i] = old[i] /\ i \in 1..Len(new)
      BY <2>2, <1>1, <1>2
    <2> QED BY <2>1, <2>3 DEF Asked
  <1>7. Full(old) => Full(new)
    BY <1>1, <1>2 DEF Full
  <1> QED BY <1>0, <1>3, <1>5, <1>6, <1>7 DEF new

-----------------------------------------------------------------------------
USE ChatAssumption DEF vars

LEMMA InitChat == Init => ChatInv
  <1> SUFFICES ASSUME Init PROVE ChatInv
    OBVIOUS
  <1>1. \A k \in Keys : log[k] = <<>>
    BY DEF Init
  <1>2. \A t \in Turns : turn[t] = NotYet
    BY DEF Init
  <1>3. TypeOK
    BY DEF Init, TypeOK, NotYet, TurnType, Places, Endpoints
  <1>4. HasList /\ EarlierIsAnswered
    BY <1>2 DEF HasList, EarlierIsAnswered, NotYet
  <1>5. StoredHaveRun /\ WholeTurns /\ InOrder
    <2>1. \A k \in Keys : Len(log[k]) = 0 /\ Asked(log[k]) = {}
      BY <1>1 DEF Asked
    <2>2. StoredHaveRun /\ InOrder
      BY <2>1 DEF StoredHaveRun, InOrder
    <2>3. \A k \in Keys : Whole(log[k])
      <3> SUFFICES ASSUME NEW k \in Keys PROVE Whole(log[k])
        OBVIOUS
      <3>1. Len(log[k]) = 0
        BY <2>1
      <3>2. 0 <= Max /\ 0 % 2 = 0 /\ 1..0 = {} /\ 1..0 - 1 = {}
        OBVIOUS
      <3> QED BY <3>1, <3>2 DEF Whole
    <2> QED BY <2>2, <2>3 DEF WholeTurns
  <1>6. StoredBeforeAnswer /\ SeesThePast
    BY <1>2 DEF StoredBeforeAnswer, SeesThePast, NotYet
  <1> QED BY <1>3, <1>4, <1>5, <1>6 DEF ChatInv

LEMMA AppendedWhole ==
    ASSUME TypeOK, NEW t \in Turns, turn[t].key \in Keys, Whole(log[turn[t].key])
    PROVE  Whole(Appended(t))
  <1> DEFINE old == Old(t)
             new == Appended(t)
             cut == Cut(t)
  <1>1. /\ new \in Seq(Message) /\ old \in Seq(Message) /\ cut \in Nat
        /\ Len(new) = IF Len(old) + 2 > Max THEN Max ELSE Len(old) + 2
        /\ new[Len(new)] = [turn |-> t, role |-> "assistant"]
        /\ new[Len(new) - 1] = [turn |-> t, role |-> "user"]
        /\ \A i \in 1..Len(new) - 2 : i + cut \in 1..Len(old) /\ new[i] = old[i + cut]
        /\ cut = Len(old) + 2 - Len(new)
    BY AppendedIs DEF Cut
  <1>2. Whole(old)
    BY DEF Old
  <1> HIDE DEF old, new, cut
  <1>3. Len(new) \in Nat /\ Len(old) \in Nat /\ Len(new) >= 2 /\ Len(old) <= Max
    BY <1>1, <1>2 DEF Whole
  <1>4. ASSUME NEW i \in 1..Len(new)
        PROVE  new[i].role = IF (Len(new) - i) % 2 = 0 THEN "assistant" ELSE "user"
    <2>1. CASE i \in 1..Len(new) - 2
      <3>1. (Len(new) - i) % 2 = (Len(old) - (i + cut)) % 2
        <4>1. Len(old) - (i + cut) \in Nat /\ Len(new) - i = (Len(old) - (i + cut)) + 2
          BY <2>1, <1>1, <1>3
        <4> QED BY <4>1, SameParity
      <3>2. i + cut \in 1..Len(old) /\ new[i] = old[i + cut]
        BY <2>1, <1>1
      <3>3. old[i + cut].role = IF (Len(old) - (i + cut)) % 2 = 0 THEN "assistant" ELSE "user"
        BY <3>2, <1>2 DEF Whole
      <3> QED BY <3>1, <3>2, <3>3
    <2>2. CASE i = Len(new)
      BY <2>2, <1>1, <1>3
    <2>3. CASE i = Len(new) - 1
      BY <2>3, <1>1, <1>3
    <2> QED BY <2>1, <2>2, <2>3, <1>3
  <1>5. ASSUME NEW i \in 1..Len(new) - 1, new[i].role = "user"
        PROVE  new[i + 1].turn = new[i].turn
    <2>1. CASE i = Len(new) - 1
      BY <2>1, <1>1, <1>3
    <2>2. CASE i = Len(new) - 2
      <3>1. i \in 1..Len(new) /\ (Len(new) - i) % 2 = 0
        BY <2>2, <1>3
      <3> QED BY <3>1, <1>4, <1>5
    <2>3. CASE i \in 1..Len(new) - 3
      <3>1. /\ i \in 1..Len(new) - 2 /\ i + 1 \in 1..Len(new) - 2
            /\ (i + 1) + cut = (i + cut) + 1
            /\ i + cut \in 1..Len(old) - 1
        BY <2>3, <1>1, <1>3
      <3>2. new[i] = old[i + cut] /\ new[i + 1] = old[(i + cut) + 1]
        BY <3>1, <1>1
      <3> QED BY <3>1, <3>2, <1>5, <1>2 DEF Whole
    <2> QED BY <2>1, <2>2, <2>3, <1>3
  <1>6. Max % 2 = 0 => Len(new) % 2 = 0
    <2>1. CASE Len(old) + 2 > Max
      BY <2>1, <1>1
    <2>2. CASE ~(Len(old) + 2 > Max)
      BY <2>2, <1>1, <1>2, <1>3 DEF Whole
    <2> QED BY <2>1, <2>2
  <1>7. Len(new) <= Max
    BY <1>1, <1>3
  <1>8. Whole(new)
    BY <1>4, <1>5, <1>6, <1>7 DEF Whole
  <1> QED BY <1>8 DEF new

\* What a save does to the invariant, whatever the request does next.
LEMMA SaveStep ==
    ASSUME ChatInv, NEW t \in Turns, At(t, "save"),
           log' = [log EXCEPT ![turn[t].key] = Appended(t)],
           NEW place \in {"answer", "failed"},
           turn' = [turn EXCEPT ![t].at = place],
           excused' = excused
    PROVE  ChatInv'
  <1> DEFINE k == turn[t].key
  <1>0. TypeOK /\ HasList /\ EarlierIsAnswered /\ StoredHaveRun /\ StoredBeforeAnswer
        /\ WholeTurns /\ SeesThePast /\ InOrder
    BY DEF ChatInv
  <1>1. k \in Keys
    BY <1>0 DEF HasList, At
  <1>2. Appended(t) \in Seq(Message)
    BY <1>0, <1>1, AppendedIs
  <1>3. TypeOK'
    <2>1. log' \in [Keys -> Seq(Message)]
      BY <1>0, <1>2 DEF TypeOK
    <2>2. turn' \in [Turns -> TurnType]
      <3>1. [turn[t] EXCEPT !.at = place] \in TurnType
        <4>1. turn[t] \in TurnType /\ place \in Places
          BY <1>0 DEF TypeOK, Places
        <4> QED BY <4>1 DEF TurnType
      <3> QED BY <3>1, <1>0 DEF TypeOK
    <2> QED BY <2>1, <2>2, <1>0 DEF TypeOK
  <1>4. \A u \in Turns : /\ turn'[u].key = turn[u].key /\ turn'[u].view = turn[u].view
                         /\ turn'[u].earlier = turn[u].earlier
                         /\ u # t => turn'[u].at = turn[u].at
    BY <1>0 DEF TypeOK, TurnType
  <1>5. turn[t].at = "save" /\ turn'[t].at = place
    BY <1>0 DEF TypeOK, At
  <1>6. /\ log'[k] = Appended(t)
        /\ \A j \in Keys : j # k => log'[j] = log[j]
    BY <1>0, <1>1 DEF TypeOK
  <1>7. /\ t \in Asked(Appended(t))
        /\ Asked(Appended(t)) \subseteq Asked(log[k]) \cup {t}
        /\ \A u \in Asked(log[k]) : u \in Asked(Appended(t)) \/ Full(Appended(t))
        /\ Full(log[k]) => Full(Appended(t))
    BY <1>0, <1>1, AppendedAsked
  <1>8. HasList'
    BY <1>0, <1>4, <1>5 DEF HasList
  <1>9. EarlierIsAnswered'
    BY <1>0, <1>4, <1>5 DEF EarlierIsAnswered, At, TypeOK, TurnType
  <1>10. StoredHaveRun'
    <2> SUFFICES ASSUME NEW j \in Keys, NEW u \in Asked(log'[j])
                 PROVE  turn'[u].at \in {"answer", "answered", "empty", "failed"}
      BY DEF StoredHaveRun, Asked
    <2>1. CASE u = t
      BY <2>1, <1>5
    <2>2. CASE u # t
      <3>1. u \in Asked(log[j])
        BY <2>2, <1>6, <1>7
      <3>2. u \in Turns
        BY <3>1, <1>0, AskedAreTurns DEF TypeOK
      <3> QED BY <3>1, <3>2, <2>2, <1>0, <1>4 DEF StoredHaveRun
    <2> QED BY <2>1, <2>2
  <1>11. StoredBeforeAnswer'
    <2> SUFFICES ASSUME NEW u \in Turns \ excused, turn'[u].at \in {"answer", "answered"},
                        turn[u].key # NoKey
                 PROVE  u \in Asked(log'[turn[u].key]) \/ Full(log'[turn[u].key])
      BY <1>4 DEF StoredBeforeAnswer
    <2>1. CASE u = t
      BY <2>1, <1>6, <1>7
    <2>2. CASE u # t
      <3>1. u \in Asked(log[turn[u].key]) \/ Full(log[turn[u].key])
        BY <2>2, <1>0, <1>4 DEF StoredBeforeAnswer
      <3>2. turn[u].key \in Keys
        BY <1>0 DEF TypeOK, TurnType
      <3> QED BY <3>1, <3>2, <1>6, <1>7
    <2> QED BY <2>1, <2>2
  <1>12. WholeTurns'
    <2>1. \A j \in Keys : Whole(log'[j])
      BY <1>0, <1>1, <1>6, AppendedWhole DEF WholeTurns
    <2> QED BY <2>1 DEF WholeTurns
  <1>13. SeesThePast'
    BY <1>0, <1>4, <1>5 DEF SeesThePast
  <1>14. InOrder'
    <2> SUFFICES ASSUME NEW j \in Keys, NEW a \in 1..Len(log'[j]), NEW b \in 1..Len(log'[j]), a < b
                 PROVE  log'[j][b].turn \notin turn'[log'[j][a].turn].earlier
      BY DEF InOrder
    <2>1. CASE j # k
      <3>1. log[j][b].turn \notin turn[log[j][a].turn].earlier
        BY <2>1, <1>0, <1>6 DEF InOrder
      <3>2. log[j][a].turn \in Turns
        BY <2>1, <1>0, <1>6, TurnOf DEF TypeOK
      <3> QED BY <3>1, <3>2, <2>1, <1>4, <1>6
    <2>2. CASE j = k /\ log'[k][b].turn = t
      <3>1. log'[k][a].turn \in Turns
        BY <2>2, <1>2, <1>6, TurnOf
      <3>2. t \notin turn[log'[k][a].turn].earlier
        BY <3>1, <1>0, <1>5 DEF EarlierIsAnswered, At
      <3> QED BY <3>1, <3>2, <2>2, <1>4
    <2>3. CASE j = k /\ log'[k][b].turn # t
      <3> DEFINE new == Appended(t)
      <3>1. /\ log'[j] = new
            /\ Old(t) = log[k] /\ Old(t) \in Seq(Message)
            /\ new \in Seq(Message)
            /\ Cut(t) \in Nat
            /\ new[Len(new)] = [turn |-> t, role |-> "assistant"]
            /\ new[Len(new) - 1] = [turn |-> t, role |-> "user"]
            /\ \A i \in 1..Len(new) - 2 : i + Cut(t) \in 1..Len(Old(t)) /\ new[i] = Old(t)[i + Cut(t)]
        BY <2>3, <1>0, <1>1, <1>6, AppendedIs DEF Old
      <3> HIDE DEF new
      <3>2. b \in 1..Len(new) - 2 /\ a \in 1..Len(new) - 2
        BY <2>3, <3>1
      <3>3. a + Cut(t) < b + Cut(t)
        BY <3>1, <3>2
      <3>4. log[k][b + Cut(t)].turn \notin turn[log[k][a + Cut(t)].turn].earlier
        BY <3>1, <3>2, <3>3, <1>0, <1>1 DEF InOrder
      <3>5. log[k][a + Cut(t)].turn \in Turns
        BY <3>1, <3>2, TurnOf
      <3>6. /\ log'[j][b] = log[k][b + Cut(t)]
            /\ log'[j][a] = log[k][a + Cut(t)]
        BY <3>1, <3>2
      <3>7. turn'[log[k][a + Cut(t)].turn].earlier = turn[log[k][a + Cut(t)].turn].earlier
        BY <3>5, <1>4
      <3> QED BY <3>4, <3>6, <3>7
    <2> QED BY <2>1, <2>2, <2>3
  <1> QED BY <1>3, <1>8, <1>9, <1>10, <1>11, <1>12, <1>13, <1>14 DEF ChatInv


Past == {"answer", "answered", "empty", "failed"}
Loaded == {"work", "save", "answer", "answered"}

\* A step that leaves the lists alone and moves requests forward.
LEMMA QuietStep ==
    ASSUME ChatInv, UNCHANGED log, excused \subseteq excused', excused' \subseteq Turns,
           turn' \in [Turns -> TurnType],
           \A u \in Turns :
              /\ turn'[u].key = turn[u].key
              /\ turn'[u].view = turn[u].view
              /\ turn'[u].earlier = turn[u].earlier
              /\ turn[u].at = "answered" => turn'[u].at = "answered"
              /\ turn[u].at \in Past => turn'[u].at \in Past
              /\ turn'[u].at \in {"load", "save"} => turn[u].key # NoKey
              /\ turn'[u].at \in Loaded => turn[u].at \in Loaded
              /\ turn'[u].at \in {"answer", "answered"} /\ turn[u].key # NoKey /\ u \notin excused' =>
                    turn[u].at \in {"answer", "answered"}
    PROVE  ChatInv'
  <1>0. TypeOK /\ HasList /\ EarlierIsAnswered /\ StoredHaveRun /\ StoredBeforeAnswer
        /\ WholeTurns /\ SeesThePast /\ InOrder
    BY DEF ChatInv
  <1>1. TypeOK'
    BY <1>0 DEF TypeOK
  <1>2. \A u \in Turns : turn[u].key \in Keys \cup {NoKey} /\ turn[u].earlier \subseteq Turns
    BY <1>0 DEF TypeOK, TurnType
  <1>3. \A j \in Keys : Asked(log[j]) \subseteq Turns
    BY <1>0, AskedAreTurns DEF TypeOK
  <1>4. HasList'
    BY <1>2 DEF HasList
  <1>5. EarlierIsAnswered'
    BY <1>0, <1>2 DEF EarlierIsAnswered, At
  <1>6. StoredHaveRun'
    BY <1>0, <1>3 DEF StoredHaveRun, Past
  <1>7. StoredBeforeAnswer'
    BY <1>0 DEF StoredBeforeAnswer
  <1>8. WholeTurns'
    <2>1. \A j \in Keys : Whole(log'[j])
      BY <1>0 DEF WholeTurns
    <2> QED BY <2>1 DEF WholeTurns
  <1>9. SeesThePast'
    BY <1>0 DEF SeesThePast, Loaded
  <1>10. InOrder'
    <2> SUFFICES ASSUME NEW j \in Keys, NEW a \in 1..Len(log[j]), NEW b \in 1..Len(log[j]), a < b
                 PROVE  log[j][b].turn \notin turn'[log[j][a].turn].earlier
      BY DEF InOrder
    <2>1. log[j][a].turn \in Turns
      BY <1>0, TurnOf DEF TypeOK
    <2> QED BY <2>1, <1>0 DEF InOrder
  <1> QED BY <1>1, <1>4, <1>5, <1>6, <1>7, <1>8, <1>9, <1>10 DEF ChatInv

\* A step that empties lists, and excuses the turns that had stored there.
LEMMA EmptyingStep ==
    ASSUME ChatInv, NEW K \in SUBSET Keys,
           log' = [k \in Keys |-> IF k \in K THEN <<>> ELSE log[k]],
           excused \subseteq excused', excused' \subseteq Turns,
           turn' \in [Turns -> TurnType],
           \A u \in Turns :
              /\ turn'[u].key = turn[u].key
              /\ turn'[u].view = turn[u].view
              /\ turn'[u].earlier = turn[u].earlier
              /\ turn'[u].at = turn[u].at \/ (turn'[u].at = "failed" /\ turn[u].at # "answered")
              /\ turn[u].key \in K /\ turn[u].at \in Past => u \in excused'
    PROVE  ChatInv'
  <1>0. TypeOK /\ HasList /\ EarlierIsAnswered /\ StoredHaveRun /\ StoredBeforeAnswer
        /\ WholeTurns /\ SeesThePast /\ InOrder
    BY DEF ChatInv
  <1>1. \A k \in Keys : log'[k] = (IF k \in K THEN <<>> ELSE log[k]) /\ log'[k] \in Seq(Message)
    BY <1>0 DEF TypeOK
  <1>2. TypeOK'
    BY <1>0, <1>1 DEF TypeOK
  <1>3. \A u \in Turns : turn[u].key \in Keys \cup {NoKey} /\ turn[u].earlier \subseteq Turns
    BY <1>0 DEF TypeOK, TurnType
  <1>4. \A j \in Keys : /\ Asked(log'[j]) \subseteq Asked(log[j])
                        /\ Asked(log[j]) \subseteq Turns
                        /\ j \in K => Len(log'[j]) = 0
                        /\ j \notin K => log'[j] = log[j]
    <2>1. \A j \in Keys : Asked(log[j]) \subseteq Turns
      BY <1>0, AskedAreTurns DEF TypeOK
    <2>2. Len(<<>>) = 0 /\ Asked(<<>>) = {}
      BY DEF Asked
    <2> QED BY <2>1, <2>2, <1>1
  <1>5. HasList'
    BY <1>0 DEF HasList
  <1>6. EarlierIsAnswered'
    BY <1>0, <1>3 DEF EarlierIsAnswered, At
  <1>7. StoredHaveRun'
    <2> SUFFICES ASSUME NEW j \in Keys, NEW u \in Asked(log'[j]) PROVE turn'[u].at \in Past
      BY DEF StoredHaveRun, Past
    <2>1. u \in Turns /\ turn[u].at \in Past
      BY <1>0, <1>4 DEF StoredHaveRun, Past
    <2> QED BY <2>1 DEF Past
  <1>8. StoredBeforeAnswer'
    <2> SUFFICES ASSUME NEW u \in Turns \ excused', turn'[u].at \in {"answer", "answered"},
                        turn'[u].key # NoKey
                 PROVE  u \in Asked(log'[turn'[u].key]) \/ Full(log'[turn'[u].key])
      BY DEF StoredBeforeAnswer
    <2>1. turn[u].at \in {"answer", "answered"} /\ turn[u].key \in Keys \ K
      BY <1>3 DEF Past
    <2>2. u \in Asked(log[turn[u].key]) \/ Full(log[turn[u].key])
      BY <2>1, <1>0 DEF StoredBeforeAnswer
    <2> QED BY <2>1, <2>2, <1>4
  <1>9. WholeTurns'
    <2>1. ASSUME NEW j \in Keys PROVE Whole(log'[j])
      <3>1. CASE j \notin K
        BY <3>1, <1>0, <1>4 DEF WholeTurns
      <3>2. CASE j \in K
        <4>1. Len(log'[j]) = 0
          BY <3>2, <1>4
        <4>2. 0 <= Max /\ 0 % 2 = 0 /\ 1..0 = {} /\ 1..0 - 1 = {}
          OBVIOUS
        <4> QED BY <4>1, <4>2 DEF Whole
      <3> QED BY <3>1, <3>2
    <2> QED BY <2>1 DEF WholeTurns
  <1>10. SeesThePast'
    BY <1>0 DEF SeesThePast
  <1>11. InOrder'
    <2> SUFFICES ASSUME NEW j \in Keys, NEW a \in 1..Len(log'[j]), NEW b \in 1..Len(log'[j]), a < b
                 PROVE  log'[j][b].turn \notin turn'[log'[j][a].turn].earlier
      BY DEF InOrder
    <2>1. log'[j] = log[j]
      BY <1>4
    <2>2. log[j][a].turn \in Turns
      BY <1>0, <2>1, TurnOf DEF TypeOK
    <2> QED BY <2>1, <2>2, <1>0 DEF InOrder
  <1> QED BY <1>2, <1>5, <1>6, <1>7, <1>8, <1>9, <1>10, <1>11 DEF ChatInv


LEMMA BeginStep ==
    ASSUME ChatInv, NEW t \in Turns, NEW endpoint \in Endpoints, NEW session,
           Begin(t, endpoint, session)
    PROVE  ChatInv'
  <1> DEFINE k == KeyOf(endpoint, session)
             before == {u \in Turns \ excused : At(u, "answered") /\ turn[u].key = k /\ k # NoKey}
             new == [at |-> IF k = NoKey THEN "work" ELSE "load",
                     endpoint |-> endpoint, key |-> k, view |-> <<>>, earlier |-> before]
  <1>0. TypeOK /\ HasList /\ EarlierIsAnswered /\ StoredHaveRun /\ StoredBeforeAnswer
        /\ WholeTurns /\ SeesThePast /\ InOrder
    BY DEF ChatInv
  <1>1. /\ turn[t].at = "new"
        /\ turn' = [turn EXCEPT ![t] = new]
        /\ log' = log /\ excused' = excused
    BY DEF Begin, At
  <1>2. k \in Keys \cup {NoKey}
    BY DEF KeyOf, Keys
  <1>3. new \in TurnType
    BY <1>2 DEF TurnType, Places
  <1> HIDE DEF k
  <1>4. TypeOK'
    BY <1>0, <1>1, <1>3 DEF TypeOK
  <1>5. turn'[t] = new /\ \A u \in Turns : u # t => turn'[u] = turn[u]
    BY <1>0, <1>1 DEF TypeOK
  <1>6. HasList'
    BY <1>0, <1>2, <1>5 DEF HasList
  <1>7. \A u \in Turns : turn[u].earlier \subseteq Turns
    BY <1>0 DEF TypeOK, TurnType
  <1>8. EarlierIsAnswered'
    <2> SUFFICES ASSUME NEW v \in Turns, NEW u \in turn'[v].earlier
                 PROVE  turn'[u].at = "answered" /\ turn'[u].key = turn'[v].key /\ turn'[v].key # NoKey
      BY DEF EarlierIsAnswered, At
    <2>1. CASE v = t
      <3>1. u \in before
        BY <2>1, <1>5
      <3>2. u \in Turns /\ u # t
        BY <3>1, <1>1 DEF At
      <3> QED BY <2>1, <3>1, <3>2, <1>5 DEF At
    <2>2. CASE v # t
      <3>1. u \in turn[v].earlier /\ u \in Turns
        BY <2>2, <1>5, <1>7
      <3>2. turn[u].at = "answered" /\ turn[u].key = turn[v].key /\ turn[v].key # NoKey
        BY <3>1, <1>0 DEF EarlierIsAnswered, At
      <3> QED BY <2>2, <3>1, <3>2, <1>1, <1>5
    <2> QED BY <2>1, <2>2
  <1>9. \A j \in Keys : Asked(log[j]) \subseteq Turns /\ t \notin Asked(log[j])
    <2>1. \A j \in Keys : Asked(log[j]) \subseteq Turns
      BY <1>0, AskedAreTurns DEF TypeOK
    <2> QED BY <2>1, <1>0, <1>1 DEF StoredHaveRun
  <1>10. StoredHaveRun'
    <2> SUFFICES ASSUME NEW j \in Keys, NEW u \in Asked(log[j])
                 PROVE  turn'[u].at \in Past
      BY <1>1 DEF StoredHaveRun, Past
    <2>1. u # t /\ u \in Turns
      BY <1>9
    <2> QED BY <2>1, <1>0, <1>5 DEF StoredHaveRun, Past
  <1>11. StoredBeforeAnswer'
    BY <1>0, <1>1, <1>5 DEF StoredBeforeAnswer
  <1>12. WholeTurns'
    <2>1. \A j \in Keys : Whole(log'[j])
      BY <1>0, <1>1 DEF WholeTurns
    <2> QED BY <2>1 DEF WholeTurns
  <1>13. SeesThePast'
    <2> SUFFICES ASSUME NEW v \in Turns, turn'[v].at \in Loaded, NEW u \in turn'[v].earlier \ excused
                 PROVE  u \in Asked(turn'[v].view) \/ Full(turn'[v].view)
      BY <1>1 DEF SeesThePast, Loaded
    <2>1. CASE v = t
      <3>1. k = NoKey
        BY <2>1, <1>5 DEF Loaded
      <3> QED BY <2>1, <3>1, <1>5
    <2>2. CASE v # t
      BY <2>2, <1>0, <1>5 DEF SeesThePast, Loaded
    <2> QED BY <2>1, <2>2
  <1>14. InOrder'
    <2> SUFFICES ASSUME NEW j \in Keys, NEW a \in 1..Len(log[j]), NEW b \in 1..Len(log[j]), a < b
                 PROVE  log[j][b].turn \notin turn'[log[j][a].turn].earlier
      BY <1>1 DEF InOrder
    <2>1. log[j][a].turn \in Turns /\ log[j][a].turn # t
      BY <1>9 DEF Asked
    <2> QED BY <2>1, <1>0, <1>5 DEF InOrder
  <1> QED BY <1>4, <1>6, <1>8, <1>10, <1>11, <1>12, <1>13, <1>14 DEF ChatInv

LEMMA LoadStep ==
    ASSUME ChatInv, NEW t \in Turns, Load(t)
    PROVE  ChatInv'
  <1> DEFINE k == turn[t].key
  <1>0. TypeOK /\ HasList /\ EarlierIsAnswered /\ StoredHaveRun /\ StoredBeforeAnswer
        /\ WholeTurns /\ SeesThePast /\ InOrder
    BY DEF ChatInv
  <1>1. /\ turn[t].at = "load"
        /\ turn' = [turn EXCEPT ![t].at = "work", ![t].view = log[k]]
        /\ log' = log /\ excused' = excused
    BY DEF Load, At
  <1>2. k \in Keys /\ log[k] \in Seq(Message)
    BY <1>0, <1>1 DEF HasList, TypeOK
  <1>3. turn' \in [Turns -> TurnType]
    <2>1. turn[t] \in TurnType
      BY <1>0 DEF TypeOK
    <2>2. [turn[t] EXCEPT !.at = "work", !.view = log[k]] \in TurnType
      BY <2>1, <1>2 DEF TurnType, Places
    <2> QED BY <2>2, <1>0, <1>1 DEF TypeOK
  <1>4. \A u \in Turns : /\ turn'[u].key = turn[u].key
                         /\ turn'[u].earlier = turn[u].earlier
                         /\ u # t => turn'[u] = turn[u]
    BY <1>0, <1>1 DEF TypeOK, TurnType
  <1>5. turn'[t].at = "work" /\ turn'[t].view = log[k]
    BY <1>0, <1>1 DEF TypeOK, TurnType
  <1>6. \A u \in Turns : turn[u].earlier \subseteq Turns
    BY <1>0 DEF TypeOK, TurnType
  <1>7. TypeOK'
    BY <1>0, <1>1, <1>3 DEF TypeOK
  <1>8. HasList'
    BY <1>0, <1>4, <1>5 DEF HasList
  <1>9. EarlierIsAnswered'
    <2> SUFFICES ASSUME NEW v \in Turns, NEW u \in turn[v].earlier
                 PROVE  turn'[u].at = "answered" /\ turn'[u].key = turn'[v].key /\ turn'[v].key # NoKey
      BY <1>4 DEF EarlierIsAnswered, At
    <2>1. u \in Turns /\ turn[u].at = "answered" /\ turn[u].key = turn[v].key /\ turn[v].key # NoKey
      BY <1>0, <1>6 DEF EarlierIsAnswered, At
    <2>2. u # t
      BY <2>1, <1>1
    <2> QED BY <2>1, <2>2, <1>4
  <1>10. StoredHaveRun'
    <2> SUFFICES ASSUME NEW j \in Keys, NEW u \in Asked(log[j])
                 PROVE  turn'[u].at \in Past
      BY <1>1 DEF StoredHaveRun, Past
    <2>1. u \in Turns
      BY <1>0, AskedAreTurns DEF TypeOK
    <2>2. turn[u].at \in Past
      BY <1>0 DEF StoredHaveRun, Past
    <2> QED BY <2>1, <2>2, <1>1, <1>4 DEF Past
  <1>11. StoredBeforeAnswer'
    BY <1>0, <1>1, <1>4, <1>5 DEF StoredBeforeAnswer
  <1>12. WholeTurns'
    <2>1. \A j \in Keys : Whole(log'[j])
      BY <1>0, <1>1 DEF WholeTurns
    <2> QED BY <2>1 DEF WholeTurns
  <1>13. SeesThePast'
    <2> SUFFICES ASSUME NEW v \in Turns, turn'[v].at \in Loaded, NEW u \in turn[v].earlier \ excused
                 PROVE  u \in Asked(turn'[v].view) \/ Full(turn'[v].view)
      BY <1>1, <1>4 DEF SeesThePast, Loaded
    <2>1. CASE v = t
      <3>1. u \in Turns /\ turn[u].at = "answered" /\ turn[u].key = k /\ k # NoKey
        BY <2>1, <1>0, <1>6 DEF EarlierIsAnswered, At
      <3>2. u \in Asked(log[k]) \/ Full(log[k])
        BY <3>1, <1>0 DEF StoredBeforeAnswer
      <3> QED BY <2>1, <3>2, <1>5
    <2>2. CASE v # t
      BY <2>2, <1>0, <1>4 DEF SeesThePast, Loaded
    <2> QED BY <2>1, <2>2
  <1>14. InOrder'
    <2> SUFFICES ASSUME NEW j \in Keys, NEW a \in 1..Len(log[j]), NEW b \in 1..Len(log[j]), a < b
                 PROVE  log[j][b].turn \notin turn'[log[j][a].turn].earlier
      BY <1>1 DEF InOrder
    <2>1. log[j][a].turn \in Turns
      BY <1>0, TurnOf DEF TypeOK
    <2> QED BY <2>1, <1>0, <1>4 DEF InOrder
  <1> QED BY <1>7, <1>8, <1>9, <1>10, <1>11, <1>12, <1>13, <1>14 DEF ChatInv

\* Moving one request forward.
LEMMA MoveStep ==
    ASSUME ChatInv, NEW t \in Turns, NEW place \in Places, GoTo(t, place), UNCHANGED log,
           excused \subseteq excused', excused' \subseteq Turns,
           turn[t].at # "answered",
           turn[t].at \in Past => place \in Past,
           place \in {"load", "save"} => turn[t].key # NoKey,
           place \in Loaded => turn[t].at \in Loaded,
           place \in {"answer", "answered"} /\ turn[t].key # NoKey /\ t \notin excused' =>
              turn[t].at \in {"answer", "answered"}
    PROVE  ChatInv'
  <1>1. TypeOK /\ HasList
    BY DEF ChatInv
  <1>2. turn[t] \in TurnType
    BY <1>1 DEF TypeOK
  <1>3. [turn[t] EXCEPT !.at = place] \in TurnType
    BY <1>2 DEF TurnType
  <1>4. turn' \in [Turns -> TurnType]
    BY <1>1, <1>3 DEF TypeOK, GoTo
  <1>5. turn'[t] = [turn[t] EXCEPT !.at = place] /\ \A u \in Turns : u # t => turn'[u] = turn[u]
    BY <1>1 DEF TypeOK, GoTo
  <1>6. /\ turn'[t].at = place /\ turn'[t].key = turn[t].key /\ turn'[t].view = turn[t].view
        /\ turn'[t].earlier = turn[t].earlier
    BY <1>2, <1>5 DEF TurnType
  <1>7. \A u \in Turns :
              /\ turn'[u].key = turn[u].key
              /\ turn'[u].view = turn[u].view
              /\ turn'[u].earlier = turn[u].earlier
              /\ turn[u].at = "answered" => turn'[u].at = "answered"
              /\ turn[u].at \in Past => turn'[u].at \in Past
              /\ turn'[u].at \in {"load", "save"} => turn[u].key # NoKey
              /\ turn'[u].at \in Loaded => turn[u].at \in Loaded
              /\ turn'[u].at \in {"answer", "answered"} /\ turn[u].key # NoKey /\ u \notin excused' =>
                    turn[u].at \in {"answer", "answered"}
    <2> SUFFICES ASSUME NEW u \in Turns, u # t PROVE turn'[u].at \in {"load", "save"} => turn[u].key # NoKey
      BY <1>5, <1>6
    <2> QED BY <1>1, <1>5 DEF HasList
  <1> QED BY <1>4, <1>7, QuietStep


LEMMA NextStep == ChatInv /\ [Next]_vars => ChatInv'
  <1> SUFFICES ASSUME ChatInv, [Next]_vars PROVE ChatInv'
    OBVIOUS
  <1>0. TypeOK /\ excused \subseteq Turns
    BY DEF ChatInv, TypeOK
  <1>1. ASSUME NEW t \in Turns, NEW e \in Endpoints, NEW s, Begin(t, e, s) PROVE ChatInv'
    BY <1>1, BeginStep
  <1>2. ASSUME NEW t \in Turns, Reject(t, BadSession) PROVE ChatInv'
    BY <1>2, <1>0, MoveStep DEF Reject, At, Past, Loaded, Places
  <1>3. ASSUME NEW t \in Turns, Step(t) PROVE ChatInv'
    <2>1. CASE Load(t)
      BY <2>1, LoadStep
    <2>2. CASE Work(t)
      <3>1. CASE turn[t].key = NoKey
        BY <2>2, <3>1, <1>0, MoveStep DEF Work, At, Past, Loaded, Places
      <3>2. CASE turn[t].key # NoKey
        BY <2>2, <3>2, <1>0, MoveStep DEF Work, At, Past, Loaded, Places
      <3> QED BY <3>1, <3>2
    <2>3. CASE SaySomethingElse(t)
      <3>1. excused \subseteq excused' /\ excused' \subseteq Turns /\ t \in excused'
        BY <2>3, <1>0 DEF SaySomethingElse
      <3> QED BY <2>3, <3>1, MoveStep DEF SaySomethingElse, At, Past, Loaded, Places
    <2>4. CASE Save(t)
      BY <2>4, SaveStep DEF Save, GoTo
    <2>5. CASE SaveFails(t)
      <3>1. CASE turn[t].endpoint \in Chain
        <4>1. excused \subseteq excused' /\ excused' \subseteq Turns /\ t \in excused'
          BY <2>5, <3>1, <1>0 DEF SaveFails
        <4> QED BY <2>5, <3>1, <4>1, MoveStep DEF SaveFails, At, Past, Loaded, Places
      <3>2. CASE turn[t].endpoint \notin Chain
        BY <2>5, <3>2, <1>0, MoveStep DEF SaveFails, At, Past, Loaded, Places
      <3> QED BY <3>1, <3>2
    <2>6. CASE SaveUnheard(t)
      <3>1. CASE turn[t].endpoint \in Chain
        BY <2>6, <3>1, SaveStep DEF SaveUnheard, GoTo
      <3>2. CASE turn[t].endpoint \notin Chain
        BY <2>6, <3>2, SaveStep DEF SaveUnheard, GoTo
      <3> QED BY <3>1, <3>2
    <2>7. CASE Answer(t)
      BY <2>7, <1>0, MoveStep DEF Answer, At, Past, Loaded, Places
    <2>8. CASE AnswerEmpty(t)
      BY <2>8, <1>0, MoveStep DEF AnswerEmpty, At, Past, Loaded, Places
    <2> QED BY <1>3, <2>1, <2>2, <2>3, <2>4, <2>5, <2>6, <2>7, <2>8 DEF Step
  <1>4. ASSUME NEW t \in Turns, Fail(t) PROVE ChatInv'
    BY <1>4, <1>0, MoveStep DEF Fail, At, Past, Loaded, Places
  <1>5. ASSUME NEW k \in Keys, Expire(k) PROVE ChatInv'
    <2> DEFINE K == {k}
    <2>1. log' = [j \in Keys |-> IF j \in K THEN <<>> ELSE log[j]]
      BY <1>5, <1>0 DEF Expire, TypeOK
    <2>2. /\ excused \subseteq excused' /\ excused' \subseteq Turns
          /\ turn' = turn /\ turn' \in [Turns -> TurnType]
          /\ \A u \in Turns : turn[u].key \in K /\ turn[u].at \in Past => u \in excused'
      BY <1>5, <1>0 DEF Expire, TypeOK, Past
    <2>3. K \in SUBSET Keys
      OBVIOUS
    <2>4. \A u \in Turns :
              /\ turn'[u].key = turn[u].key
              /\ turn'[u].view = turn[u].view
              /\ turn'[u].earlier = turn[u].earlier
              /\ turn'[u].at = turn[u].at \/ (turn'[u].at = "failed" /\ turn[u].at # "answered")
      BY <2>2
    <2> HIDE DEF K
    <2> QED BY <2>1, <2>2, <2>3, <2>4, EmptyingStep
  <1>6. CASE Restart
    <2>1. /\ turn' \in [Turns -> TurnType]
          /\ \A u \in Turns :
                /\ turn'[u].key = turn[u].key
                /\ turn'[u].view = turn[u].view
                /\ turn'[u].earlier = turn[u].earlier
                /\ IF Running(u) THEN turn'[u].at = "failed" ELSE turn'[u].at = turn[u].at
      <3>1. \A u \in Turns : /\ turn[u] \in TurnType
                             /\ [turn[u] EXCEPT !.at = "failed"] \in TurnType
        <4>1. \A r \in TurnType : [r EXCEPT !.at = "failed"] \in TurnType
          BY DEF TurnType, Places
        <4> QED BY <4>1, <1>0 DEF TypeOK
      <3>2. turn' = [t \in Turns |-> IF Running(t) THEN [turn[t] EXCEPT !.at = "failed"] ELSE turn[t]]
        BY <1>6 DEF Restart
      <3>3. turn' \in [Turns -> TurnType]
        BY <3>1, <3>2
      <3>4. ASSUME NEW r \in TurnType
            PROVE  LET q == [r EXCEPT !.at = "failed"] IN
                   q.key = r.key /\ q.view = r.view /\ q.earlier = r.earlier /\ q.at = "failed"
        BY DEF TurnType
      <3> QED BY <3>1, <3>2, <3>3, <3>4
    <2>2. CASE InMemory
      <3>1. log' = [j \in Keys |-> IF j \in Keys THEN <<>> ELSE log[j]]
        BY <1>6, <2>2 DEF Restart
      <3>2. excused \subseteq excused' /\ excused' \subseteq Turns
            /\ \A u \in Turns : turn[u].at \in Past => u \in excused'
        BY <1>6, <2>2, <1>0 DEF Restart, At, Past
      <3>3. \A u \in Turns :
              /\ turn'[u].key = turn[u].key
              /\ turn'[u].view = turn[u].view
              /\ turn'[u].earlier = turn[u].earlier
              /\ turn'[u].at = turn[u].at \/ (turn'[u].at = "failed" /\ turn[u].at # "answered")
              /\ turn[u].key \in Keys /\ turn[u].at \in Past => u \in excused'
        BY <2>1, <3>2 DEF Running
      <3> DEFINE K == Keys
      <3>4. /\ K \in SUBSET Keys
            /\ log' = [j \in Keys |-> IF j \in K THEN <<>> ELSE log[j]]
            /\ \A u \in Turns : turn[u].key \in K /\ turn[u].at \in Past => u \in excused'
        BY <3>1, <3>3
      <3> HIDE DEF K
      <3> QED BY <2>1, <3>2, <3>3, <3>4, EmptyingStep
    <2>3. CASE ~InMemory
      <3>1. UNCHANGED <<log, excused>>
        BY <1>6, <2>3 DEF Restart
      <3>2. \A u \in Turns :
              /\ turn[u].at = "answered" => turn'[u].at = "answered"
              /\ turn[u].at \in Past => turn'[u].at \in Past
              /\ turn'[u].at \in {"load", "save"} => turn[u].at \in {"load", "save"} /\ ~Running(u)
              /\ turn'[u].at \in Loaded => turn[u].at \in Loaded
              /\ turn'[u].at \in {"answer", "answered"} => turn[u].at \in {"answer", "answered"}
        BY <2>1 DEF Running, Past, Loaded
      <3>3. \A u \in Turns : turn'[u].at \notin {"load", "save"}
        BY <3>2 DEF Running
      <3> QED BY <2>1, <3>1, <3>2, <3>3, <1>0, QuietStep
    <2> QED BY <2>2, <2>3
  <1>7. CASE UNCHANGED vars
    BY <1>7, <1>0, QuietStep DEF ChatInv, HasList, TypeOK
  <1> QED BY <1>1, <1>2, <1>3, <1>4, <1>5, <1>6, <1>7 DEF Next

\* For every Max, every set of turns and sessions and every fault of the store
\* and the process, the invariant of the histories holds.
THEOREM ChatInvariant == Spec => []ChatInv
  BY InitChat, NextStep, PTL DEF Spec

\* A history always holds whole turns: no overlap, failure or cut leaves a
\* question without its answer, and with an even Max no answer without its
\* question.
THEOREM HistoriesHoldWholeTurns == Spec => []WholeTurns
  <1>1. ChatInv => WholeTurns
    BY DEF ChatInv
  <1> QED BY <1>1, ChatInvariant, PTL

\* A turn answered with a list is in it until the list is full or taken away:
\* turns that overlap lose nothing of each other.
THEOREM AnsweredTurnsAreKept == Spec => []AnsweredTurnsStay
  <1>1. ChatInv => AnsweredTurnsStay
    BY DEF ChatInv, StoredBeforeAnswer, AnsweredTurnsStay, At
  <1> QED BY <1>1, ChatInvariant, PTL

\* The model is shown every turn of its list answered before the question came.
THEOREM ModelSeesThePast == Spec => []SeesThePast
  <1>1. ChatInv => SeesThePast
    BY DEF ChatInv
  <1> QED BY <1>1, ChatInvariant, PTL

\* Turns asked one after the other are stored in that order.
THEOREM HistoriesAreInOrder == Spec => []InOrder
  <1>1. ChatInv => InOrder
    BY DEF ChatInv
  <1> QED BY <1>1, ChatInvariant, PTL

=============================================================================
