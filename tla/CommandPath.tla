---------------------------- MODULE CommandPath ----------------------------
(***************************************************************************)
(* The way of a command from the MQTT broker to the E3/DC device.          *)
(*                                                                         *)
(* Two threads share the receive cache under the mutex mtx:                *)
(*   - the libmosquitto listener runs storeMQTTReceivedValue once per      *)
(*     message (action Deliver);                                           *)
(*   - the main thread runs main's reconnect loop and mainLoop, and empties*)
(*     the cache in createRequest (action Create).                         *)
(* Each critical section holds the mutex from its first to its last shared *)
(* access, so each one is a single action.                                 *)
(*                                                                         *)
(* A message is named by its number in order of arrival; payload, requestQ *)
(* and frame hold these numbers in place of the texts they stand for.      *)
(* The entries that auto_refresh repeats (refresh_until) are left out.     *)
(***************************************************************************)
EXTENDS Integers, Sequences, FiniteSets

CONSTANTS
  Topic,           \* the topics somebody publishes on
  NSlot,           \* number of entries of RscpMqttReceiveCache
  SlotTopic,       \* the topic of each entry, in table order
  DeviceSlot,      \* the entries that have a tag: they go into the frame
  QueueTopic,      \* the topics whose entries have queue = true
  AutoRefresh,     \* cfg.auto_refresh
  MaxDays,         \* MAX_DAYS_PER_ITERATION
  CountdownStart,  \* the initial countdown of mainLoop
  Interval,        \* cfg.interval, in seconds
  ReconnectDelay,  \* DELAY_BEFORE_RECONNECT, in seconds
  MaxMsgs          \* bound: number of messages that arrive

Slot == 1..NSlot
MsgId == 1..MaxMsgs

ASSUME SlotAssumption ==
  /\ NSlot \in Nat
  /\ SlotTopic \in [Slot -> Topic]
  /\ DeviceSlot \subseteq Slot
  /\ QueueTopic \subseteq Topic
ASSUME BoundAssumption ==
  /\ AutoRefresh \in BOOLEAN
  /\ MaxDays \in Nat \ {0}
  /\ CountdownStart \in Nat
  /\ Interval \in Nat
  /\ ReconnectDelay \in Nat
  /\ MaxMsgs \in Nat

\* How the regular expressions and the date check take a payload.
Verdict(t) == {"rejected", "accepted"} \cup (IF t \in QueueTopic THEN {"badDate"} ELSE {})
PC == {"connect", "create", "send", "receive", "publish", "wait", "reconnect", "exit"}

VARIABLES
  done,            \* rec_cache_t.done of each entry
  payload,         \* rec_cache_t.payload: the message it came from, 0 for none
  mqttRcvd,        \* the flag that ends wsleep early
  requestQ,        \* the days asked for on set/request/day
  iAuthenticated,  \* this program believes that the session is authenticated
  frame,           \* the commands in the frame being sent
  pc,              \* where the main thread is
  countdown,       \* the cycles of mainLoop that run without a pause
  left,            \* the seconds wsleep still has to sleep
  go,              \* cleared by the signal handler
  listening,       \* the listener thread runs
  session,         \* the device's view of the connection
  msgs,            \* history: the messages that arrived
  accepted,        \* history: those the receive cache took
  runs,            \* history: how often createRequest acted on each of them
  reached          \* history: those whose frame the device has processed

shared == <<done, payload, mqttRcvd, requestQ>>
history == <<msgs, accepted, runs, reached>>
control == <<iAuthenticated, frame, pc, countdown, left, go, listening, session>>
vars == <<shared, control, history>>

Init ==
  /\ done = [s \in Slot |-> TRUE]
  /\ payload = [s \in Slot |-> 0]
  /\ mqttRcvd = FALSE
  /\ requestQ = <<>>
  /\ iAuthenticated = FALSE
  /\ frame = {}
  /\ pc = "connect"
  /\ countdown = CountdownStart
  /\ left = 0
  /\ go = TRUE
  /\ listening = FALSE
  /\ session = "closed"
  /\ msgs = <<>>
  /\ accepted = {}
  /\ runs = [m \in MsgId |-> 0]
  /\ reached = {}

-----------------------------------------------------------------------------
(* The listener thread.                                                    *)

Free(t) == {s \in Slot : SlotTopic[s] = t /\ done[s]}

\* The first entry of the table with this topic that has nothing to do.
FirstFree(t) == CHOOSE s \in Free(t) : \A r \in Free(t) : s <= r

Taken(t, verdict) == Free(t) # {} /\ verdict # "rejected"

\* requestQ.push.
Enqueue_AtFront(q, m) == <<m>> \o q                               \* mutant
Enqueue(q, m) == Append(q, m)

\* mqttRcvd is raised whatever becomes of the message.
RaiseFlag_Never == UNCHANGED mqttRcvd                              \* mutant
RaiseFlag == mqttRcvd' = TRUE

\* storeMQTTReceivedValue: an entry that still waits is skipped, so a message
\* whose entries all wait is dropped; set/request/day goes to requestQ.
Deliver(t, verdict) ==
  /\ listening /\ pc # "exit"
  /\ Len(msgs) < MaxMsgs
  /\ LET m == Len(msgs) + 1
         s == FirstFree(t)
         take == Taken(t, verdict)
     IN /\ payload' = IF take THEN [payload EXCEPT ![s] = m] ELSE payload
        /\ done' = IF take /\ t \notin QueueTopic THEN [done EXCEPT ![s] = FALSE] ELSE done
        /\ requestQ' = IF take /\ t \in QueueTopic THEN Enqueue(requestQ, m) ELSE requestQ
        /\ accepted' = IF take THEN accepted \cup {m} ELSE accepted
        /\ msgs' = Append(msgs, [topic |-> t, verdict |-> verdict])
  /\ RaiseFlag
  /\ UNCHANGED <<control, runs, reached>>

-----------------------------------------------------------------------------
(* The main thread.                                                        *)

\* main: a new session begins; when SocketConnect fails, main sleeps for a
\* second and tries again, which changes nothing here.
Connect_KeepsFlag ==                                               \* mutant
  /\ pc = "connect" /\ go
  /\ session' = "open"
  /\ countdown' = CountdownStart
  /\ pc' = "create"
  /\ UNCHANGED <<shared, iAuthenticated, frame, left, go, listening, history>>

Connect ==
  /\ pc = "connect" /\ go
  /\ iAuthenticated' = FALSE
  /\ session' = "open"
  /\ countdown' = CountdownStart
  /\ pc' = "create"
  /\ UNCHANGED <<shared, frame, left, go, listening, history>>

\* main: while (go) ends.
Exit ==
  /\ pc = "connect" /\ ~go
  /\ pc' = "exit"
  /\ UNCHANGED <<shared, iAuthenticated, frame, countdown, left, go, listening, session, history>>

\* mainLoop returns, main closes the socket and sleeps.
CloseSession ==
  /\ session' = "closed"
  /\ pc' = "reconnect"
  /\ left' = ReconnectDelay

\* mainLoop: while (go && !bStopExecution); a stop goes through CloseSession.
LoopGoesOn_IgnoresSignal == TRUE                                   \* mutant
LoopGoesOn == go

LeaveLoop ==
  /\ pc = "create" /\ ~LoopGoesOn
  /\ CloseSession
  /\ UNCHANGED <<shared, iAuthenticated, frame, countdown, go, listening, history>>

Drained == IF Len(requestQ) < MaxDays THEN Len(requestQ) ELSE MaxDays
QueueRest_Cleared == <<>>                                          \* mutant
QueueRest == SubSeq(requestQ, Drained + 1, Len(requestQ))
DaysDrained == {requestQ[i] : i \in 1..Drained}
Waiting == {s \in Slot : ~done[s]}
\* Entries are looked at only when something came in or refresh is automatic.
Looked_AutoOnly == IF AutoRefresh THEN Waiting ELSE {}             \* mutant
Looked == IF mqttRcvd \/ AutoRefresh THEN Waiting ELSE {}
Handled == {payload[s] : s \in Looked}

\* createRequest with an open session: the authentication request alone.
CreateAuth ==
  /\ pc = "create" /\ LoopGoesOn /\ ~iAuthenticated
  /\ frame' = {}
  /\ pc' = "send"
  /\ UNCHANGED <<shared, iAuthenticated, countdown, left, go, listening, session, history>>

\* createRequest: up to MaxDays days leave requestQ, those with a valid date
\* go into the frame; every waiting entry is carried out: at once when it is
\* a system call, through the frame when it has a tag.
Create ==
  /\ pc = "create" /\ LoopGoesOn /\ iAuthenticated
  /\ frame' = {m \in DaysDrained : msgs[m].verdict = "accepted"}
                \cup {payload[s] : s \in Looked \cap DeviceSlot}
  /\ runs' = [m \in MsgId |-> IF m \in DaysDrained \cup Handled THEN runs[m] + 1 ELSE runs[m]]
  /\ requestQ' = QueueRest
  /\ done' = [s \in Slot |-> done[s] \/ s \in Looked]
  /\ mqttRcvd' = FALSE
  /\ pc' = "send"
  /\ UNCHANGED <<payload, iAuthenticated, countdown, left, go, listening, session, msgs,
                 accepted, reached>>

\* SocketSendData.
SendOk ==
  /\ pc = "send"
  /\ pc' = "receive"
  /\ UNCHANGED <<shared, iAuthenticated, frame, countdown, left, go, listening, session, history>>

SendFails ==
  /\ pc = "send"
  /\ CloseSession
  /\ frame' = {}
  /\ UNCHANGED <<shared, iAuthenticated, countdown, go, listening, history>>

\* receiveLoop returns with an answer; the device has carried out the frame.
\* level says whether the answer to the authentication request grants access.
Answer(level) ==
  /\ pc = "receive"
  /\ reached' = IF session = "authenticated" THEN reached \cup frame ELSE reached
  /\ frame' = {}
  /\ IF ~iAuthenticated /\ level
     THEN iAuthenticated' = TRUE /\ session' = "authenticated"
     ELSE UNCHANGED <<iAuthenticated, session>>
  /\ pc' = "publish"
  /\ UNCHANGED <<shared, countdown, left, go, listening, msgs, accepted, runs>>

\* receiveLoop sees the connection break, before or after the device has
\* carried out the frame.
Break ==
  /\ pc = "receive"
  /\ reached' \in {reached, IF session = "authenticated" THEN reached \cup frame ELSE reached}
  /\ frame' = {}
  /\ CloseSession
  /\ UNCHANGED <<shared, iAuthenticated, countdown, go, listening, msgs, accepted, runs>>

Publish_CountsOn ==                                                \* mutant
  /\ pc = "publish"
  /\ listening' \in {listening, TRUE}
  /\ countdown' = countdown - 1
  /\ pc' = IF countdown >= 0 THEN "create" ELSE "wait"
  /\ left' \in 0..Interval
  /\ UNCHANGED <<shared, iAuthenticated, frame, go, session, history>>

\* mainLoop, end of a cycle: connect to the broker if that is not done yet,
\* publish, and pause unless the countdown still runs.
Publish ==
  /\ pc = "publish"
  /\ listening' \in {listening, TRUE}
  /\ IF countdown >= 0
     THEN /\ countdown' = countdown - 1
          /\ pc' = "create"
          /\ UNCHANGED left
     ELSE /\ left' \in 0..Interval
          /\ pc' = "wait"
          /\ UNCHANGED countdown
  /\ UNCHANGED <<shared, iAuthenticated, frame, go, session, history>>

\* wsleep: look at the flags, then sleep for a second.
SleepSecond ==
  /\ pc \in {"wait", "reconnect"}
  /\ left > 0 /\ ~mqttRcvd /\ go
  /\ left' = left - 1
  /\ UNCHANGED <<shared, iAuthenticated, frame, pc, countdown, go, listening, session, history>>

WakeUp_ClearsFlag ==                                               \* mutant
  /\ pc \in {"wait", "reconnect"}
  /\ left = 0 \/ mqttRcvd \/ ~go
  /\ pc' = IF pc = "wait" THEN "create" ELSE "connect"
  /\ left' = 0
  /\ mqttRcvd' = FALSE
  /\ UNCHANGED <<done, payload, requestQ, iAuthenticated, frame, countdown, go, listening,
                 session, history>>

\* wsleep returns.
WakeUp ==
  /\ pc \in {"wait", "reconnect"}
  /\ left = 0 \/ mqttRcvd \/ ~go
  /\ pc' = IF pc = "wait" THEN "create" ELSE "connect"
  /\ left' = 0
  /\ UNCHANGED <<shared, iAuthenticated, frame, countdown, go, listening, session, history>>

\* signal_handler.
Signal ==
  /\ go /\ pc # "exit"
  /\ go' = FALSE
  /\ UNCHANGED <<shared, iAuthenticated, frame, pc, countdown, left, listening, session, history>>

Main ==
  \/ Connect \/ Exit \/ LeaveLoop
  \/ CreateAuth \/ Create
  \/ SendOk \/ SendFails
  \/ \E level \in BOOLEAN : Answer(level)
  \/ Break \/ Publish
  \/ SleepSecond \/ WakeUp

Next ==
  \/ Main
  \/ \E t \in Topic : \E v \in Verdict(t) : Deliver(t, v)
  \/ Signal

Spec == Init /\ [][Next]_vars

\* The main thread is always scheduled. Of the outside it is assumed that a
\* session, a transmission and a granting answer each succeed again and again
\* when they are tried again and again.
Fairness ==
  /\ WF_vars(Main)
  /\ SF_vars(Connect) /\ SF_vars(SendOk) /\ SF_vars(Answer(TRUE))

FairSpec == Spec /\ Fairness

-----------------------------------------------------------------------------
(* Properties.                                                             *)

Queued == {requestQ[i] : i \in 1..Len(requestQ)}
Held == {payload[s] : s \in Waiting} \cup Queued

SharedTypeOK ==
  /\ done \in [Slot -> BOOLEAN]
  /\ payload \in [Slot -> 0..MaxMsgs]
  /\ mqttRcvd \in BOOLEAN
  /\ requestQ \in Seq(MsgId)
  /\ \A s \in Slot : done[s] \/ payload[s] \in MsgId

ControlTypeOK ==
  /\ iAuthenticated \in BOOLEAN
  /\ frame \subseteq MsgId
  /\ pc \in PC
  /\ countdown \in -1..CountdownStart
  /\ left \in Nat
  /\ go \in BOOLEAN
  /\ listening \in BOOLEAN
  /\ session \in {"closed", "open", "authenticated"}

HistoryTypeOK ==
  /\ msgs \in Seq([topic : Topic, verdict : {"rejected", "accepted", "badDate"}])
  /\ Len(msgs) <= MaxMsgs
  /\ accepted \subseteq MsgId
  /\ runs \in [MsgId -> Nat]
  /\ reached \subseteq MsgId

\* The types of the receive cache, of the main thread and of the history.
TypeOK == SharedTypeOK /\ ControlTypeOK /\ HistoryTypeOK

\* A command that waits in the receive cache always has mqttRcvd set, so that
\* the next createRequest looks at it and no wsleep sleeps over it: the flag is
\* set by the listener and cleared by the main thread (wsleep, createRequest,
\* storeMQTTReceivedValue).
NoLostWakeup == Waiting # {} => mqttRcvd

\* Every message the receive cache took is held in exactly one way or has been
\* acted on exactly once, whatever the interleaving of listener and main thread
\* and however often the connection broke: none is forgotten, none is acted on
\* twice (storeMQTTReceivedValue against createRequest).
Ledger ==
  \A m \in MsgId :
    /\ runs[m] <= 1
    /\ m \in accepted <=> (runs[m] = 1 \/ m \in Held)
    /\ m \in Held => runs[m] = 0

\* What Ledger needs to survive each step: no message is held twice, and only
\* messages that arrived were taken.
HeldOnce ==
  /\ \A s \in Waiting : payload[s] \notin Queued
  /\ \A i, j \in 1..Len(requestQ) : requestQ[i] = requestQ[j] => i = j
  /\ accepted \subseteq 1..Len(msgs)

SingleSlot(t) == \A r, s \in Slot : SlotTopic[r] = t /\ SlotTopic[s] = t => r = s

\* Commands on a topic with one entry (all but set/idle_period and
\* set/idle_period/delete) are acted on in the order of their arrival.
InOrder ==
  \A n \in accepted : \A m \in accepted :
    m < n /\ msgs[m].topic = msgs[n].topic /\ SingleSlot(msgs[m].topic) /\ runs[n] = 1
      => runs[m] = 1

\* Commands leave the program only inside a session that the device itself
\* holds authenticated: iAuthenticated never survives the session it was
\* granted in (main resets it after SocketConnect).
OnlyInSession == frame # {} => session = "authenticated"

\* Why: the flag and the device agree for as long as a session lasts, and the
\* frame is empty outside of the exchange.
SessionInv ==
  /\ iAuthenticated /\ pc \in {"create", "send", "receive", "publish", "wait"}
       => session = "authenticated"
  /\ frame # {} => iAuthenticated /\ pc \in {"send", "receive"}

\* The inductive invariant behind NoLostWakeup, Ledger and OnlyInSession.
IInv == TypeOK /\ NoLostWakeup /\ Ledger /\ HeldOnce /\ SessionInv

\* wsleep never begins a second of sleep while a command waits.
NoSleepOverCommand == [][SleepSecond => Waiting = {}]_vars

\* As long as the program is not told to stop, a command that is held is
\* eventually acted on.
EventuallyActedOn == \A m \in MsgId : m \in Held ~> (m \notin Held \/ pc = "exit")

\* After a signal the main thread comes to its end.
SignalEnds == ~go ~> pc = "exit"

=============================================================================
