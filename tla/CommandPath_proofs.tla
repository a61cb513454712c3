------------------------- MODULE CommandPath_proofs -------------------------
(* Theorems about CommandPath, for every table of entries, every number of   *)
(* messages and every setting of the timing constants.                      *)
EXTENDS CommandPath, SequenceTheorems, WellFoundedInduction, TLAPS

(* The entry that takes a message is an entry of the table and is free.      *)
LEMMA FirstFreeIsFree ==
  ASSUME NEW t, Free(t) # {}
  PROVE  FirstFree(t) \in Slot /\ SlotTopic[FirstFree(t)] = t /\ done[FirstFree(t)]
<1> DEFINE R == OpToRel(<, Nat)
<1>1. Free(t) \subseteq Slot /\ Slot \subseteq Nat
  BY SlotAssumption DEF Free, SlotAssumption, Slot
<1>2. PICK s \in Free(t) : \A r \in Free(t) : ~ (<<r, s>> \in R)
  BY <1>1, WFMin, NatLessThanWellFounded
<1>3. \A r \in Free(t) : <<r, s>> \in R <=> r < s
  BY <1>1 DEF OpToRel
<1>4. \A r \in Free(t) : s <= r
  <2> SUFFICES ASSUME NEW r \in Free(t) PROVE s <= r
    OBVIOUS
  <2>1. ~ (r < s)
    BY <1>2, <1>3
  <2>2. r \in Nat /\ s \in Nat
    BY <1>1
  <2>3. QED
    BY <2>1, <2>2
<1>5. FirstFree(t) \in Free(t)
  BY <1>4 DEF FirstFree
<1>6. QED
  BY <1>5 DEF Free

(* The next message has a number of its own.                                 *)
LEMMA NextMsgId ==
  ASSUME HistoryTypeOK, Len(msgs) < MaxMsgs
  PROVE  Len(msgs) + 1 \in MsgId /\ Len(msgs) + 1 \in 0..MaxMsgs
<1>1. Len(msgs) \in Nat
  BY LenProperties DEF HistoryTypeOK
<1>2. QED
  BY <1>1, BoundAssumption DEF MsgId, BoundAssumption, HistoryTypeOK

(* The days that createRequest takes from the queue are its first ones.      *)
LEMMA DrainedRange ==
  ASSUME SharedTypeOK
  PROVE  Drained \in 0..Len(requestQ) /\ DaysDrained \subseteq MsgId
<1>1. Drained \in 0..Len(requestQ)
  BY BoundAssumption DEF Drained, BoundAssumption, SharedTypeOK
<1>2. QED
  BY <1>1 DEF DaysDrained, SharedTypeOK

(* Every variable has its type at first, and each step keeps it.            *)
LEMMA InitType == Init => TypeOK
<1> SUFFICES ASSUME Init PROVE TypeOK
  OBVIOUS
<1>1. SharedTypeOK
  <2>1. payload \in [Slot -> 0..MaxMsgs]
    BY BoundAssumption DEF Init, BoundAssumption
  <2>2. requestQ \in Seq(MsgId) /\ done \in [Slot -> BOOLEAN] /\ \A s \in Slot : done[s]
    BY DEF Init
  <2>3. QED
    BY <2>1, <2>2 DEF Init, SharedTypeOK
<1>2. ControlTypeOK
  <2>1. countdown \in -1..CountdownStart
    BY BoundAssumption DEF Init, BoundAssumption
  <2>2. QED
    BY <2>1 DEF Init, ControlTypeOK, PC
<1>3. HistoryTypeOK
  <2>1. msgs \in Seq([topic : Topic, verdict : {"rejected", "accepted", "badDate"}])
        /\ Len(msgs) <= MaxMsgs
    BY BoundAssumption DEF Init, BoundAssumption
  <2>2. QED
    BY <2>1 DEF Init, HistoryTypeOK
<1>4. QED
  BY <1>1, <1>2, <1>3 DEF TypeOK

LEMMA StepType == TypeOK /\ [Next]_vars => TypeOK'
<1> SUFFICES ASSUME SharedTypeOK, ControlTypeOK, HistoryTypeOK, [Next]_vars
             PROVE  SharedTypeOK' /\ ControlTypeOK' /\ HistoryTypeOK'
  BY DEF TypeOK
<1>1. ASSUME UNCHANGED shared PROVE SharedTypeOK'
  BY <1>1 DEF shared, SharedTypeOK
<1>2. ASSUME UNCHANGED control PROVE ControlTypeOK'
  BY <1>2 DEF control, ControlTypeOK
<1>3. ASSUME UNCHANGED history PROVE HistoryTypeOK'
  BY <1>3 DEF history, HistoryTypeOK
<1> USE DEF ControlTypeOK, PC, CloseSession
<1>4. CASE Connect
  <2>1. CountdownStart \in -1..CountdownStart
    BY BoundAssumption DEF BoundAssumption
  <2>2. QED
    BY <1>4, <1>1, <1>3, <2>1 DEF Connect
<1>5. CASE Exit \/ SendOk \/ WakeUp \/ CreateAuth
  BY <1>5, <1>1, <1>3 DEF Exit, SendOk, WakeUp, CreateAuth
<1>6. CASE LeaveLoop \/ SendFails
  BY <1>6, <1>1, <1>3, BoundAssumption DEF LeaveLoop, SendFails, BoundAssumption
<1>7. CASE Create
  <2>1. SharedTypeOK'
    <3>1. QueueRest \in Seq(MsgId)
      BY DrainedRange, SubSeqProperties DEF SharedTypeOK, QueueRest
    <3>2. QED
      BY <1>7, <3>1 DEF Create, SharedTypeOK
  <2>2. ControlTypeOK'
    <3>1. {payload[s] : s \in Looked \cap DeviceSlot} \subseteq MsgId
      BY DEF Looked, Waiting, SharedTypeOK
    <3>2. QED
      BY <1>7, DrainedRange, <3>1 DEF Create
  <2>3. HistoryTypeOK'
    BY <1>7 DEF Create, HistoryTypeOK
  <2>4. QED
    BY <2>1, <2>2, <2>3
<1>8. ASSUME NEW level \in BOOLEAN, Answer(level)
      PROVE  SharedTypeOK' /\ ControlTypeOK' /\ HistoryTypeOK'
  BY <1>8, <1>1 DEF Answer, HistoryTypeOK
<1>9. CASE Break
  BY <1>9, <1>1, BoundAssumption DEF Break, HistoryTypeOK, BoundAssumption
<1>10. CASE Publish
  <2>1. countdown' \in -1..CountdownStart
    BY <1>10, BoundAssumption DEF Publish, BoundAssumption
  <2>2. left' \in Nat
    BY <1>10, BoundAssumption DEF Publish, BoundAssumption
  <2>3. QED
    BY <1>10, <1>1, <1>3, <2>1, <2>2 DEF Publish
<1>11. CASE SleepSecond
  BY <1>11, <1>1, <1>3 DEF SleepSecond
<1>12. ASSUME NEW t \in Topic, NEW v \in Verdict(t), Deliver(t, v)
       PROVE  SharedTypeOK' /\ ControlTypeOK' /\ HistoryTypeOK'
  <2>1. Len(msgs) + 1 \in MsgId /\ Len(msgs) + 1 \in 0..MaxMsgs
    BY <1>12, NextMsgId DEF Deliver
  <2>2. SharedTypeOK'
    <3> DEFINE m == Len(msgs) + 1
               s == FirstFree(t)
               take == Taken(t, v)
    <3>1. payload' = IF take THEN [payload EXCEPT ![s] = m] ELSE payload
      BY <1>12 DEF Deliver, Enqueue, RaiseFlag
    <3>2. done' = IF take /\ t \notin QueueTopic THEN [done EXCEPT ![s] = FALSE] ELSE done
      BY <1>12 DEF Deliver, Enqueue, RaiseFlag
    <3>3. requestQ' = IF take /\ t \in QueueTopic THEN Append(requestQ, m) ELSE requestQ
      BY <1>12 DEF Deliver, Enqueue, RaiseFlag
    <3>4. mqttRcvd' = TRUE
      BY <1>12 DEF Deliver, Enqueue, RaiseFlag
    <3> HIDE DEF m, s, take
    <3>5. m \in MsgId /\ m \in 0..MaxMsgs
      BY <2>1 DEF m
    <3>6. payload' \in [Slot -> 0..MaxMsgs] /\ done' \in [Slot -> BOOLEAN]
      BY <3>1, <3>2, <3>5 DEF SharedTypeOK
    <3>7. requestQ' \in Seq(MsgId)
      BY <3>3, <3>5, AppendProperties DEF SharedTypeOK
    <3>8. ASSUME NEW r \in Slot PROVE done'[r] \/ payload'[r] \in MsgId
      BY <3>1, <3>2, <3>5 DEF SharedTypeOK
    <3>9. QED
      BY <3>4, <3>6, <3>7, <3>8 DEF SharedTypeOK
  <2>3. HistoryTypeOK'
    <3>1. [topic |-> t, verdict |-> v]
            \in [topic : Topic, verdict : {"rejected", "accepted", "badDate"}]
      BY DEF Verdict
    <3>2. QED
      BY <1>12, <2>1, <3>1, AppendProperties DEF Deliver, HistoryTypeOK
  <2>4. QED
    BY <1>12, <1>2, <2>2, <2>3 DEF Deliver
<1>13. CASE Signal
  BY <1>13, <1>1, <1>3 DEF Signal
<1>14. CASE UNCHANGED vars
  BY <1>14, <1>1, <1>2, <1>3 DEF vars
<1>15. QED
  BY <1>4, <1>5, <1>6, <1>7, <1>8, <1>9, <1>10, <1>11, <1>12, <1>13, <1>14 DEF Next, Main

(* Every variable keeps its type.                                            *)
THEOREM TypeCorrect == Spec => []TypeOK
<1>1. QED
  BY InitType, StepType, PTL DEF Spec

(***************************************************************************)
(* The ledger of commands.                                                 *)
(***************************************************************************)
LedgerInv == NoLostWakeup /\ Ledger /\ HeldOnce

(* A step that leaves the cache and the record of messages alone keeps the   *)
(* ledger.                                                                   *)
LEMMA LedgerUnchanged ==
  ASSUME LedgerInv, UNCHANGED shared, UNCHANGED <<msgs, accepted, runs>>
  PROVE  LedgerInv'
BY DEF LedgerInv, shared, NoLostWakeup, Ledger, HeldOnce, Held, Queued, Waiting

(* storeMQTTReceivedValue keeps the ledger.                                  *)
LEMMA LedgerDeliver ==
  ASSUME SharedTypeOK, HistoryTypeOK, LedgerInv,
         NEW t \in Topic, NEW v \in Verdict(t), Deliver(t, v)
  PROVE  LedgerInv'
<1> DEFINE m == Len(msgs) + 1
           s == FirstFree(t)
           take == Taken(t, v)
<1>1. /\ payload' = IF take THEN [payload EXCEPT ![s] = m] ELSE payload
      /\ done' = IF take /\ t \notin QueueTopic THEN [done EXCEPT ![s] = FALSE] ELSE done
      /\ requestQ' = IF take /\ t \in QueueTopic THEN Append(requestQ, m) ELSE requestQ
      /\ accepted' = IF take THEN accepted \cup {m} ELSE accepted
      /\ msgs' = Append(msgs, [topic |-> t, verdict |-> v])
      /\ mqttRcvd' = TRUE
      /\ runs' = runs
  BY DEF Deliver, Enqueue, RaiseFlag
<1>2. m \in MsgId /\ m \notin 1..Len(msgs) /\ 1..Len(msgs) \subseteq 1..m
  BY NextMsgId, LenProperties DEF Deliver, HistoryTypeOK
<1>3. Len(msgs') = m
  BY <1>1, AppendProperties DEF HistoryTypeOK
<1>4. take => s \in Slot /\ done[s]
  BY FirstFreeIsFree DEF Taken
<1>5. m \notin accepted /\ m \notin Held /\ runs[m] = 0
  BY <1>2 DEF LedgerInv, HeldOnce, Ledger, HistoryTypeOK
<1> HIDE DEF m, s, take
<1>6. Waiting' = IF take /\ t \notin QueueTopic THEN Waiting \cup {s} ELSE Waiting
  BY <1>1, <1>4 DEF Waiting, SharedTypeOK
<1>7. \A r \in Waiting : payload'[r] = payload[r]
  BY <1>1, <1>4 DEF Waiting, SharedTypeOK
<1>8. take => payload'[s] = m
  BY <1>1, <1>4 DEF SharedTypeOK
<1>9. Queued' = IF take /\ t \in QueueTopic THEN Queued \cup {m} ELSE Queued
  <2>1. CASE take /\ t \in QueueTopic
    <3>1. Len(requestQ') = Len(requestQ) + 1 /\ requestQ'[Len(requestQ) + 1] = m
          /\ \A i \in 1..Len(requestQ) : requestQ'[i] = requestQ[i]
      BY <1>1, <1>2, <2>1, AppendProperties DEF SharedTypeOK
    <3>2. Len(requestQ) \in Nat
      BY LenProperties DEF SharedTypeOK
    <3>3. 1..Len(requestQ') = 1..Len(requestQ) \cup {Len(requestQ) + 1}
      BY <3>1, <3>2
    <3>4. QED
      BY <2>1, <3>1, <3>3 DEF Queued
  <2>2. CASE ~(take /\ t \in QueueTopic)
    BY <1>1, <2>2 DEF Queued
  <2>3. QED
    BY <2>1, <2>2
<1>10. Held' = IF take THEN Held \cup {m} ELSE Held
  <2>1. {payload'[r] : r \in Waiting} = {payload[r] : r \in Waiting}
    BY <1>7
  <2>2. CASE take /\ t \notin QueueTopic
    <3>1. {payload'[r] : r \in Waiting'} = {payload'[r] : r \in Waiting} \cup {m}
      BY <1>6, <1>8, <2>2
    <3>2. QED
      BY <2>1, <3>1, <1>9, <2>2 DEF Held
  <2>3. CASE ~(take /\ t \notin QueueTopic)
    BY <2>1, <1>6, <1>9, <2>3 DEF Held
  <2>4. QED
    BY <2>2, <2>3
<1>11. NoLostWakeup'
  BY <1>1 DEF NoLostWakeup
<1>12. Ledger'
  BY <1>1, <1>5, <1>10 DEF Ledger, LedgerInv
<1>13. HeldOnce'
  <2>1. \A r \in Waiting' : payload'[r] \notin Queued'
    BY <1>5, <1>6, <1>7, <1>8, <1>9 DEF LedgerInv, HeldOnce, Held
  <2>2. \A i, j \in 1..Len(requestQ') : requestQ'[i] = requestQ'[j] => i = j
    <3>1. CASE take /\ t \in QueueTopic
      <4>1. Len(requestQ') = Len(requestQ) + 1 /\ requestQ'[Len(requestQ) + 1] = m
            /\ \A i \in 1..Len(requestQ) : requestQ'[i] = requestQ[i]
        BY <1>1, <1>2, <3>1, AppendProperties DEF SharedTypeOK
      <4>2. Len(requestQ) \in Nat
        BY LenProperties DEF SharedTypeOK
      <4>3. \A i \in 1..Len(requestQ) : requestQ[i] # m
        BY <1>5 DEF Held, Queued
      <4>4. \A i \in 1..Len(requestQ') : i = Len(requestQ) + 1 \/ i \in 1..Len(requestQ)
        BY <4>1, <4>2
      <4>5. QED
        BY <4>1, <4>3, <4>4 DEF LedgerInv, HeldOnce
    <3>2. CASE ~(take /\ t \in QueueTopic)
      BY <1>1, <3>2 DEF LedgerInv, HeldOnce
    <3>3. QED
      BY <3>1, <3>2
  <2>3. accepted' \subseteq 1..Len(msgs')
    BY <1>1, <1>2, <1>3 DEF LedgerInv, HeldOnce, MsgId
  <2>4. QED
    BY <2>1, <2>2, <2>3 DEF HeldOnce
<1>14. QED
  BY <1>11, <1>12, <1>13 DEF LedgerInv

(* createRequest keeps the ledger: what it takes out of the queue and of the *)
(* entries is what it acts on.                                               *)
LEMMA LedgerCreate ==
  ASSUME SharedTypeOK, HistoryTypeOK, LedgerInv, Create
  PROVE  LedgerInv'
<1>1. Looked = Waiting
  BY DEF Looked, LedgerInv, NoLostWakeup
<1>2. Waiting' = {}
  BY <1>1 DEF Create, Waiting, SharedTypeOK
<1>3. PICK k \in 0..Len(requestQ) : k = Drained
  BY DrainedRange
<1>4. Len(requestQ) \in Nat
  BY LenProperties DEF SharedTypeOK
<1>5. /\ Len(requestQ') = Len(requestQ) - k
      /\ \A i \in 1..(Len(requestQ) - k) : requestQ'[i] = requestQ[i + k]
  <2>1. requestQ' = SubSeq(requestQ, k + 1, Len(requestQ))
    BY <1>3 DEF Create, QueueRest
  <2>2. QED
    BY <2>1, <1>4, SubSeqProperties DEF SharedTypeOK
<1>6. Queued' = {requestQ[i] : i \in (k + 1)..Len(requestQ)}
  <2>1. Queued' = {requestQ[i + k] : i \in 1..(Len(requestQ) - k)}
    BY <1>5 DEF Queued
  <2>2. \A i \in (k + 1)..Len(requestQ) : i - k \in 1..(Len(requestQ) - k) /\ (i - k) + k = i
    BY <1>4
  <2>3. \A i \in 1..(Len(requestQ) - k) : i + k \in (k + 1)..Len(requestQ)
    BY <1>4
  <2>4. QED
    BY <2>1, <2>2, <2>3
<1>7. DaysDrained = {requestQ[i] : i \in 1..k}
  BY <1>3 DEF DaysDrained
<1>8. Queued = DaysDrained \cup Queued' /\ DaysDrained \cap Queued' = {}
  <2>1. 1..Len(requestQ) = 1..k \cup (k + 1)..Len(requestQ)
    BY <1>4
  <2>2. Queued = DaysDrained \cup Queued'
    BY <2>1, <1>6, <1>7 DEF Queued
  <2>3. \A i \in 1..k, j \in (k + 1)..Len(requestQ) : requestQ[i] # requestQ[j]
    BY <1>4 DEF LedgerInv, HeldOnce
  <2>4. QED
    BY <2>2, <2>3, <1>6, <1>7
<1>9. Held' = Queued'
  BY <1>2 DEF Held
<1>10. Held = Handled \cup DaysDrained \cup Queued'
  BY <1>1, <1>8 DEF Held, Handled
<1>11. Handled \cap Queued' = {}
  BY <1>1, <1>8 DEF Handled, LedgerInv, HeldOnce
<1>12. /\ accepted' = accepted
       /\ msgs' = msgs
       /\ runs' = [m \in MsgId |-> IF m \in DaysDrained \cup Handled THEN runs[m] + 1 ELSE runs[m]]
  BY DEF Create
<1>13. NoLostWakeup'
  BY <1>2 DEF NoLostWakeup
<1>14. Ledger'
  <2> SUFFICES ASSUME NEW m \in MsgId
               PROVE  /\ runs'[m] <= 1
                      /\ m \in accepted <=> (runs'[m] = 1 \/ m \in Queued')
                      /\ m \in Queued' => runs'[m] = 0
    BY <1>9, <1>12 DEF Ledger
  <2>1. /\ runs[m] <= 1 /\ runs[m] \in Nat
        /\ m \in accepted <=> (runs[m] = 1 \/ m \in Held)
        /\ m \in Held => runs[m] = 0
    BY DEF Ledger, LedgerInv, HistoryTypeOK
  <2>2. CASE m \in DaysDrained \cup Handled
    <3>1. m \in Held /\ m \notin Queued'
      BY <2>2, <1>8, <1>10, <1>11
    <3>2. runs'[m] = 1
      BY <2>1, <2>2, <3>1, <1>12
    <3>3. QED
      BY <2>1, <3>1, <3>2
  <2>3. CASE m \notin DaysDrained \cup Handled
    <3>1. runs'[m] = runs[m] /\ (m \in Held <=> m \in Queued')
      BY <2>3, <1>10, <1>12
    <3>2. QED
      BY <2>1, <3>1
  <2>4. QED
    BY <2>2, <2>3
<1>15. HeldOnce'
  <2>1. \A i, j \in 1..Len(requestQ') : requestQ'[i] = requestQ'[j] => i = j
    <3> SUFFICES ASSUME NEW i \in 1..Len(requestQ'), NEW j \in 1..Len(requestQ'),
                        requestQ'[i] = requestQ'[j]
                 PROVE  i = j
      OBVIOUS
    <3>1. i + k \in 1..Len(requestQ) /\ j + k \in 1..Len(requestQ)
      BY <1>4, <1>5
    <3>2. requestQ[i + k] = requestQ[j + k]
      BY <1>5
    <3>3. i + k = j + k
      BY <3>1, <3>2 DEF LedgerInv, HeldOnce
    <3>4. QED
      BY <3>3, <1>4, <1>5
  <2>2. QED
    BY <2>1, <1>2, <1>12 DEF HeldOnce, LedgerInv
<1>16. QED
  BY <1>13, <1>14, <1>15 DEF LedgerInv

(***************************************************************************)
(* The inductive invariant and what follows from it.                       *)
(***************************************************************************)

LEMMA InitInductive == Init => IInv
<1> SUFFICES ASSUME Init PROVE IInv
  OBVIOUS
<1>1. Waiting = {} /\ Queued = {} /\ Held = {}
  BY DEF Init, Waiting, Queued, Held
<1>2. NoLostWakeup /\ Ledger
  BY <1>1 DEF Init, NoLostWakeup, Ledger
<1>3. HeldOnce
  BY <1>1 DEF Init, HeldOnce
<1>4. SessionInv
  BY DEF Init, SessionInv
<1>5. QED
  BY <1>2, <1>3, <1>4, InitType DEF IInv

LEMMA StepInductive == IInv /\ [Next]_vars => IInv'
<1> SUFFICES ASSUME IInv, [Next]_vars PROVE IInv'
  OBVIOUS
<1>1. TypeOK'
  BY StepType DEF IInv
<1>2. SharedTypeOK /\ ControlTypeOK /\ HistoryTypeOK /\ LedgerInv /\ SessionInv
  BY DEF IInv, TypeOK, LedgerInv
<1>3. LedgerInv' /\ SessionInv'
  <2> USE <1>2 DEF SessionInv, CloseSession
  <2>1. CASE Connect \/ Exit \/ LeaveLoop \/ CreateAuth \/ SendOk \/ SendFails
             \/ Publish \/ SleepSecond \/ WakeUp \/ Signal
    <3>1. UNCHANGED shared /\ UNCHANGED <<msgs, accepted, runs>>
      BY <2>1 DEF Connect, Exit, LeaveLoop, CreateAuth, SendOk, SendFails, Publish,
                  SleepSecond, WakeUp, Signal, history
    <3>2. LedgerInv'
      BY <3>1, LedgerUnchanged
    <3>3. SessionInv'
      <4>1. CASE Connect \/ Exit \/ LeaveLoop \/ WakeUp
        BY <4>1 DEF Connect, Exit, LeaveLoop, WakeUp
      <4>2. CASE CreateAuth \/ SendOk \/ SendFails
        BY <4>2 DEF CreateAuth, SendOk, SendFails
      <4>3. CASE SleepSecond \/ Signal
        BY <4>3 DEF SleepSecond, Signal
      <4>4. CASE Publish
        <5>1. pc = "publish" /\ pc' \in {"create", "wait"}
              /\ UNCHANGED <<iAuthenticated, session, frame>>
          BY <4>4 DEF Publish
        <5>2. QED
          BY <5>1
      <4>5. QED
        BY <2>1, <4>1, <4>2, <4>3, <4>4
    <3>4. QED
      BY <3>2, <3>3
  <2>2. CASE Create
    BY <2>2, LedgerCreate DEF Create
  <2>3. ASSUME NEW level \in BOOLEAN, Answer(level) PROVE LedgerInv' /\ SessionInv'
    BY <2>3, LedgerUnchanged DEF Answer
  <2>4. CASE Break
    BY <2>4, LedgerUnchanged DEF Break
  <2>5. ASSUME NEW t \in Topic, NEW v \in Verdict(t), Deliver(t, v)
        PROVE  LedgerInv' /\ SessionInv'
    BY <2>5, LedgerDeliver DEF Deliver, control
  <2>6. CASE UNCHANGED vars
    BY <2>6, LedgerUnchanged DEF vars, shared, control, history
  <2>7. QED
    BY <2>1, <2>2, <2>3, <2>4, <2>5, <2>6 DEF Next, Main
<1>4. QED
  BY <1>1, <1>3 DEF IInv, LedgerInv

LEMMA Inductive == Spec => []IInv
BY InitInductive, StepInductive, PTL DEF Spec

(* A waiting command always has mqttRcvd set.                                *)
THEOREM WakeupNeverLost == Spec => []NoLostWakeup
<1>1. IInv => NoLostWakeup
  BY DEF IInv
<1>2. QED
  BY <1>1, Inductive, PTL

(* No command that the receive cache took is forgotten or acted on twice.    *)
THEOREM LedgerBalances == Spec => []Ledger
<1>1. IInv => Ledger
  BY DEF IInv
<1>2. QED
  BY <1>1, Inductive, PTL

(* Commands leave the program only inside a session that the device holds    *)
(* authenticated.                                                            *)
THEOREM SessionRespected == Spec => []OnlyInSession
<1>1. IInv => OnlyInSession
  BY DEF IInv, SessionInv, OnlyInSession
<1>2. QED
  BY <1>1, Inductive, PTL

(* wsleep never begins a second of sleep while a command waits.              *)
THEOREM NeverSleepsOverCommand == Spec => NoSleepOverCommand
<1>1. IInv /\ [Next]_vars => [SleepSecond => Waiting = {}]_vars
  BY DEF IInv, NoLostWakeup, SleepSecond
<1>2. QED
  BY <1>1, Inductive, PTL DEF Spec, NoSleepOverCommand

(***************************************************************************)
(* The order of commands.                                                  *)
(***************************************************************************)

(* InOrder is not inductive: what has not been acted on yet has to wait      *)
(* behind what has. The days wait in the order of their arrival, and every   *)
(* one that left the queue came before them; the only entry of a topic, as   *)
(* long as it waits, keeps later messages from being taken at all.           *)
QueueInOrder == \A i, j \in 1..Len(requestQ) : i < j => requestQ[i] < requestQ[j]
DaysAreQueued == \A m \in Queued : msgs[m].topic \in QueueTopic
OthersAreNot ==
  \A s \in Waiting : SlotTopic[s] \notin QueueTopic /\ msgs[payload[s]].topic = SlotTopic[s]
NoneBehind ==
  \A s \in Waiting : \A n \in accepted :
    SingleSlot(SlotTopic[s]) /\ msgs[n].topic = SlotTopic[s] => n <= payload[s]
NoneBefore ==
  \A n \in accepted : \A m \in Queued :
    runs[n] = 1 /\ msgs[n].topic \in QueueTopic => n < m
OrderInv == QueueInOrder /\ DaysAreQueued /\ OthersAreNot /\ NoneBehind /\ NoneBefore

(* Together with the ledger that is enough.                                  *)
LEMMA OrderFollows ==
  ASSUME HistoryTypeOK, Ledger, OrderInv
  PROVE  InOrder
<1> SUFFICES ASSUME NEW n \in accepted, NEW m \in accepted, m < n,
                    msgs[m].topic = msgs[n].topic, SingleSlot(msgs[m].topic), runs[n] = 1,
                    runs[m] # 1
             PROVE  FALSE
  BY DEF InOrder
<1>1. m \in MsgId /\ n \in MsgId /\ m \in Int /\ n \in Int
  BY DEF HistoryTypeOK, MsgId
<1>2. m \in Held
  BY <1>1 DEF Ledger
<1>3. CASE m \in Queued
  <2>1. n < m
    BY <1>3 DEF OrderInv, DaysAreQueued, NoneBefore
  <2>2. QED
    BY <2>1, <1>1
<1>4. CASE m \notin Queued
  <2>1. PICK s \in Waiting : m = payload[s]
    BY <1>2, <1>4 DEF Held
  <2>2. n <= m
    BY <2>1 DEF OrderInv, OthersAreNot, NoneBehind
  <2>3. QED
    BY <2>2, <1>1
<1>5. QED
  BY <1>3, <1>4

(* A step that leaves the cache and the record of messages alone keeps the   *)
(* order.                                                                    *)
LEMMA OrderUnchanged ==
  ASSUME OrderInv, UNCHANGED shared, UNCHANGED <<msgs, accepted, runs>>
  PROVE  OrderInv'
BY DEF OrderInv, shared, QueueInOrder, DaysAreQueued, OthersAreNot, NoneBehind, NoneBefore,
       Queued, Waiting

(* storeMQTTReceivedValue keeps the order: a new message has the largest     *)
(* number, and its topic has a free entry.                                   *)
LEMMA OrderDeliver ==
  ASSUME SharedTypeOK, HistoryTypeOK, LedgerInv, OrderInv,
         NEW t \in Topic, NEW v \in Verdict(t), Deliver(t, v)
  PROVE  OrderInv'
<1> DEFINE m == Len(msgs) + 1
           s == FirstFree(t)
           take == Taken(t, v)
<1>1. /\ payload' = IF take THEN [payload EXCEPT ![s] = m] ELSE payload
      /\ done' = IF take /\ t \notin QueueTopic THEN [done EXCEPT ![s] = FALSE] ELSE done
      /\ requestQ' = IF take /\ t \in QueueTopic THEN Append(requestQ, m) ELSE requestQ
      /\ accepted' = IF take THEN accepted \cup {m} ELSE accepted
      /\ msgs' = Append(msgs, [topic |-> t, verdict |-> v])
      /\ runs' = runs
  BY DEF Deliver, Enqueue
<1>2. m \in MsgId /\ Len(msgs) \in Nat
  BY NextMsgId, LenProperties DEF Deliver, HistoryTypeOK
<1>3. accepted \subseteq 1..Len(msgs) /\ Held \subseteq accepted
  <2>1. Held \subseteq MsgId
    BY DEF Held, Queued, Waiting, SharedTypeOK
  <2>2. QED
    BY <2>1 DEF LedgerInv, HeldOnce, Ledger
<1>4. msgs'[m].topic = t /\ \A n \in 1..Len(msgs) : msgs'[n] = msgs[n]
  BY <1>1, AppendProperties DEF HistoryTypeOK
<1>5. \A n \in accepted : n < m /\ n \in Nat /\ msgs'[n] = msgs[n]
  BY <1>2, <1>3, <1>4
<1>6. m \notin accepted /\ runs[m] # 1
  BY <1>2, <1>5 DEF LedgerInv, Ledger
<1>7. take => s \in Slot /\ SlotTopic[s] = t /\ done[s]
  BY FirstFreeIsFree DEF Taken
<1> HIDE DEF m, s, take
<1>8. Waiting' = IF take /\ t \notin QueueTopic THEN Waiting \cup {s} ELSE Waiting
  BY <1>1, <1>7 DEF Waiting, SharedTypeOK
<1>9. \A r \in Waiting : payload'[r] = payload[r] /\ (take => r # s)
  BY <1>1, <1>7 DEF Waiting, SharedTypeOK
<1>10. take => payload'[s] = m
  BY <1>1, <1>7 DEF SharedTypeOK
<1>11. Len(requestQ) \in Nat
  BY LenProperties DEF SharedTypeOK
<1>12. take /\ t \in QueueTopic =>
         /\ Len(requestQ') = Len(requestQ) + 1 /\ requestQ'[Len(requestQ) + 1] = m
         /\ \A i \in 1..Len(requestQ) : requestQ'[i] = requestQ[i]
  BY <1>1, <1>2, AppendProperties DEF SharedTypeOK
<1>13. Queued' \subseteq (IF take /\ t \in QueueTopic THEN Queued \cup {m} ELSE Queued)
  <2>1. CASE take /\ t \in QueueTopic
    <3>1. \A i \in 1..Len(requestQ') : i \in 1..Len(requestQ) \/ i = Len(requestQ) + 1
      BY <2>1, <1>11, <1>12
    <3>2. QED
      BY <2>1, <3>1, <1>12 DEF Queued
  <2>2. CASE ~(take /\ t \in QueueTopic)
    BY <1>1, <2>2 DEF Queued
  <2>3. QED
    BY <2>1, <2>2
<1>14. Queued \subseteq accepted /\ \A r \in Waiting : payload[r] \in accepted
  BY <1>3 DEF Held
<1>15. QueueInOrder'
  <2>1. CASE take /\ t \in QueueTopic
    <3> SUFFICES ASSUME NEW i \in 1..Len(requestQ'), NEW j \in 1..Len(requestQ'), i < j
                 PROVE  requestQ'[i] < requestQ'[j]
      BY DEF QueueInOrder
    <3>1. i \in 1..Len(requestQ)
      BY <2>1, <1>11, <1>12
    <3>2. CASE j \in 1..Len(requestQ)
      BY <2>1, <3>1, <3>2, <1>12 DEF OrderInv, QueueInOrder
    <3>3. CASE j = Len(requestQ) + 1
      <4>1. requestQ[i] < m
        BY <3>1, <1>5, <1>14 DEF Queued
      <4>2. QED
        BY <4>1, <2>1, <3>1, <3>3, <1>12
    <3>4. QED
      BY <2>1, <3>2, <3>3, <1>11, <1>12
  <2>2. CASE ~(take /\ t \in QueueTopic)
    BY <1>1, <2>2 DEF OrderInv, QueueInOrder
  <2>3. QED
    BY <2>1, <2>2
<1>16. DaysAreQueued'
  BY <1>4, <1>5, <1>13, <1>14 DEF OrderInv, DaysAreQueued
<1>17. OthersAreNot'
  BY <1>4, <1>5, <1>7, <1>8, <1>9, <1>10, <1>14 DEF OrderInv, OthersAreNot
<1>18. NoneBehind'
  <2> SUFFICES ASSUME NEW r \in Waiting', NEW n \in accepted', SingleSlot(SlotTopic[r]),
                      msgs'[n].topic = SlotTopic[r]
               PROVE  n <= payload'[r]
    BY DEF NoneBehind, SingleSlot
  <2>1. CASE r \in Waiting /\ n \in accepted
    BY <2>1, <1>5, <1>9 DEF OrderInv, NoneBehind
  <2>2. CASE r \in Waiting /\ n \notin accepted
    <3>1. take /\ n = m /\ SlotTopic[r] = t
      BY <2>2, <1>1, <1>4
    <3>2. r = s
      BY <3>1, <2>2, <1>7 DEF SingleSlot, Waiting
    <3>3. QED
      BY <3>1, <3>2, <2>2, <1>9
  <2>3. CASE r \notin Waiting
    <3>1. take /\ payload'[r] = m
      BY <2>3, <1>8, <1>10
    <3>2. n \in accepted \/ n = m
      BY <1>1
    <3>3. QED
      BY <3>1, <3>2, <1>2, <1>5 DEF m
  <2>4. QED
    BY <2>1, <2>2, <2>3
<1>19. NoneBefore'
  <2> SUFFICES ASSUME NEW n \in accepted', NEW q \in Queued', runs'[n] = 1,
                      msgs'[n].topic \in QueueTopic
               PROVE  n < q
    BY DEF NoneBefore
  <2>1. n \in accepted
    BY <1>1, <1>6
  <2>2. CASE q \in Queued
    BY <2>1, <2>2, <1>1, <1>5 DEF OrderInv, NoneBefore
  <2>3. CASE q \notin Queued
    BY <2>1, <2>3, <1>5, <1>13
  <2>4. QED
    BY <2>2, <2>3
<1>20. QED
  BY <1>15, <1>16, <1>17, <1>18, <1>19 DEF OrderInv

(* createRequest keeps the order: it takes the first days, and no entry of   *)
(* the table waits when it is done.                                          *)
LEMMA OrderCreate ==
  ASSUME SharedTypeOK, HistoryTypeOK, LedgerInv, OrderInv, Create
  PROVE  OrderInv'
<1>1. Looked = Waiting
  BY DEF Looked, LedgerInv, NoLostWakeup
<1>2. Waiting' = {}
  BY <1>1 DEF Create, Waiting, SharedTypeOK
<1>3. PICK k \in 0..Len(requestQ) : k = Drained
  BY DrainedRange
<1>4. Len(requestQ) \in Nat
  BY LenProperties DEF SharedTypeOK
<1>5. /\ Len(requestQ') = Len(requestQ) - k
      /\ \A i \in 1..(Len(requestQ) - k) : requestQ'[i] = requestQ[i + k]
  <2>1. requestQ' = SubSeq(requestQ, k + 1, Len(requestQ))
    BY <1>3 DEF Create, QueueRest
  <2>2. QED
    BY <2>1, <1>4, SubSeqProperties DEF SharedTypeOK
<1>6. \A i \in 1..Len(requestQ') : i + k \in (k + 1)..Len(requestQ)
                                  /\ requestQ'[i] = requestQ[i + k]
  BY <1>4, <1>5
<1>7. Queued' \subseteq Queued
  BY <1>4, <1>6 DEF Queued
<1>8. /\ accepted' = accepted /\ msgs' = msgs
      /\ runs' = [m \in MsgId |-> IF m \in DaysDrained \cup Handled THEN runs[m] + 1 ELSE runs[m]]
  BY DEF Create
<1>9. QueueInOrder'
  <2> SUFFICES ASSUME NEW i \in 1..Len(requestQ'), NEW j \in 1..Len(requestQ'), i < j
               PROVE  requestQ'[i] < requestQ'[j]
    BY DEF QueueInOrder
  <2>1. i + k \in 1..Len(requestQ) /\ j + k \in 1..Len(requestQ) /\ i + k < j + k
    BY <1>4, <1>5, <1>6
  <2>2. QED
    BY <2>1, <1>6 DEF OrderInv, QueueInOrder
<1>10. DaysAreQueued'
  BY <1>7, <1>8 DEF OrderInv, DaysAreQueued
<1>11. OthersAreNot' /\ NoneBehind'
  BY <1>2 DEF OthersAreNot, NoneBehind
<1>12. NoneBefore'
  <2> SUFFICES ASSUME NEW n \in accepted, NEW q \in Queued', runs'[n] = 1,
                      msgs[n].topic \in QueueTopic
               PROVE  n < q
    BY <1>8 DEF NoneBefore
  <2>1. n \in MsgId
    BY DEF HistoryTypeOK
  <2>2. CASE n \in DaysDrained
    <3>1. PICK i \in 1..k : n = requestQ[i]
      BY <2>2, <1>3 DEF DaysDrained
    <3>2. PICK j \in (k + 1)..Len(requestQ) : q = requestQ[j]
      BY <1>6 DEF Queued
    <3>3. i \in 1..Len(requestQ) /\ j \in 1..Len(requestQ) /\ i < j
      BY <1>4
    <3>4. QED
      BY <3>1, <3>2, <3>3 DEF OrderInv, QueueInOrder
  <2>3. CASE n \notin DaysDrained
    <3>1. n \notin Handled
      BY <1>1 DEF Handled, OrderInv, OthersAreNot, Waiting, SharedTypeOK, SlotAssumption
    <3>2. runs[n] = 1
      BY <2>1, <2>3, <3>1, <1>8
    <3>3. QED
      BY <3>2, <1>7 DEF OrderInv, NoneBefore
  <2>4. QED
    BY <2>2, <2>3
<1>13. QED
  BY <1>9, <1>10, <1>11, <1>12 DEF OrderInv

LEMMA InitOrder == Init => OrderInv
BY DEF Init, OrderInv, QueueInOrder, DaysAreQueued, OthersAreNot, NoneBehind, NoneBefore,
       Queued, Waiting

LEMMA StepOrder == IInv /\ OrderInv /\ [Next]_vars => OrderInv'
<1> SUFFICES ASSUME IInv, OrderInv, [Next]_vars PROVE OrderInv'
  OBVIOUS
<1>1. SharedTypeOK /\ HistoryTypeOK /\ LedgerInv
  BY DEF IInv, TypeOK, LedgerInv
<1>2. CASE Connect \/ Exit \/ LeaveLoop \/ CreateAuth \/ SendOk \/ SendFails
           \/ Publish \/ SleepSecond \/ WakeUp \/ Signal
  <2>1. UNCHANGED shared /\ UNCHANGED <<msgs, accepted, runs>>
    BY <1>2 DEF Connect, Exit, LeaveLoop, CreateAuth, SendOk, SendFails, Publish,
                SleepSecond, WakeUp, Signal, history
  <2>2. QED
    BY <2>1, OrderUnchanged
<1>3. CASE Create
  BY <1>1, <1>3, OrderCreate
<1>4. ASSUME NEW level \in BOOLEAN, Answer(level) PROVE OrderInv'
  BY <1>4, OrderUnchanged DEF Answer
<1>5. CASE Break
  BY <1>5, OrderUnchanged DEF Break
<1>6. ASSUME NEW t \in Topic, NEW v \in Verdict(t), Deliver(t, v) PROVE OrderInv'
  BY <1>1, <1>6, OrderDeliver
<1>7. CASE UNCHANGED vars
  BY <1>7, OrderUnchanged DEF vars, shared, control, history
<1>8. QED
  BY <1>2, <1>3, <1>4, <1>5, <1>6, <1>7 DEF Next, Main

(* Commands on a topic with one entry are acted on in the order of their     *)
(* arrival (storeMQTTReceivedValue, the queue and the entries against        *)
(* createRequest).                                                           *)
THEOREM ActedOnInOrder == Spec => []InOrder
<1>1. IInv /\ OrderInv => InOrder
  BY OrderFollows DEF IInv, TypeOK
<1>2. QED
  BY <1>1, Inductive, InitOrder, StepOrder, PTL DEF Spec

=============================================================================
