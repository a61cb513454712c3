---------------------------- MODULE ResponseCache ----------------------------
(***************************************************************************)
(* The response cache: one entry per topic with the payload published      *)
(* last, a changed flag, and a handled flag that gives each value of an    *)
(* answer to one entry. A cycle asks the home power station, stores the    *)
(* answers, derives the values that are computed from others, and          *)
(* publishes what has changed to the MQTT broker. The broker may be absent *)
(* at first and its connection may be lost and restored later.             *)
(*                                                                         *)
(* MQTT_QOS is 0, its default: mosquitto_publish fails while the           *)
(* connection is lost and keeps nothing for later. A payload is <<>> or    *)
(* <<v>>; the broker keeps the last message of each topic.                 *)
(***************************************************************************)
EXTENDS Integers, Sequences, FiniteSets

CONSTANTS
  Table,           \* RscpMqttCache, sorted: [key, bit] of each entry
  Forced,          \* entries of FORCE_PUB
  Patterns,        \* the entries each payload of set/force names
  Start, Devices,  \* what the home power station shows first, and may show
  Full,            \* 100 % of TAG_EMS_BAT_SOC
  MaxChanges,      \* bound: changes of what it shows
  MaxTroubles      \* bound: sessions, answers and connections lost

NoBit == 0         \* bit_to_bool of an entry that shows the value itself
Entry == 1..Len(Table)
AnswerKeys == <<"power", "grid", "soc", "status", "cells">>
Keys == {AnswerKeys[n] : n \in DOMAIN AnswerKeys}
With(key) == {i \in Entry : Table[i].key = key}
Plain(key) == {i \in With(key) : Table[i].bit = NoBit}

ASSUME CacheAssumption ==
  /\ Len(Table) \in Nat
  /\ \A i \in Entry : Table[i].key \in Keys \union {"state", "gridState"}
  /\ Patterns \subseteq SUBSET Entry
  /\ Forced \subseteq Entry /\ Start \in Devices
  /\ Full \in Nat /\ MaxChanges \in Nat /\ MaxTroubles \in Nat

(* The table has the entries that classifyValues reads, and one for the    *)
(* state of charge. An entry with a key of its own shows the value, those  *)
(* after it bits of it. Of the cell values each entry shows one.           *)
ASSUME TableAssumption ==
  /\ \A key \in {"power", "grid", "soc"} : Plain(key) # {}
  /\ \A i, j \in With("soc") : i = j
  /\ \A i, j \in Entry :
       (i < j /\ Table[i].key = Table[j].key /\ Table[i].key # "cells") => Table[j].bit # NoBit
  /\ With("cells") = Plain("cells")

(* What the device shows: a state of charge in percent, and as many cell   *)
(* values as there are entries for, or more.                               *)
ASSUME DeviceAssumption ==
  \A d \in Devices :
    /\ d.soc \in 0..Full
    /\ d.cells \in Seq(Int) /\ Cardinality(With("cells")) <= Len(d.cells)

VARIABLES
  pc,              \* "request", "answer", "store", "publish": where mainLoop is
  countdown,       \* of mainLoop: 3 at the begin of a session, then down to -1
  payload, changed, handled,
  rest,            \* the values of the answer with each key that are to be stored
  lastSoc,         \* the static battery_soc of storeResponseValue
  mosq,            \* the MQTT client exists
  link,            \* it is connected to the broker
  device,          \* what the home power station shows
  broker,          \* the last message about each topic
  answered,        \* history: the last answer with each key
  lost,            \* history: entries whose last publication failed
  changes, troubles \* history: what the bounds are about

cache == <<payload, changed, handled, lastSoc>>
bounds == <<changes, troubles>>
vars == <<pc, countdown, cache, rest, mosq, link, device, broker, answered, lost, bounds>>

None == [i \in Entry |-> <<>>]
No == [i \in Entry |-> FALSE]

Init ==
  /\ pc = "request" /\ countdown = 3
  /\ payload = None /\ changed = No /\ handled = No /\ lastSoc = -1
  /\ rest = [k \in Keys |-> <<>>] /\ mosq = FALSE /\ link = FALSE
  /\ device = Start
  /\ broker = None /\ lost = {} /\ answered = [k \in Keys |-> <<>>]
  /\ changes = 0 /\ troubles = 0

Trouble == troubles < MaxTroubles /\ troubles' = troubles + 1

-----------------------------------------------------------------------------
(* The home power station shows something else. When between two answers  *)
(* it does so makes no difference.                                         *)
Change ==
  /\ pc = "answer" /\ changes < MaxChanges
  /\ changes' = changes + 1
  /\ device' \in Devices \ {device}
  /\ UNCHANGED <<pc, countdown, rest, cache, mosq, link, broker, answered, lost, troubles>>

-----------------------------------------------------------------------------
(* A cache c = [payload, changed, handled, soc] and a value v.             *)
(* What entry i shows of the value: itself, or one bit of it.              *)
Rendered(i, v) == IF Table[i].bit = NoBit THEN <<v>> ELSE <<Table[i].bit \in v>>

Changed(c, i, v) == c.changed[i] \/ c.payload[i] # Rendered(i, v)

(* Mutant: a zero is always believed.                                      *)
WrongZero_Never(c, i, v) == FALSE

(* A state of charge of 0 is taken for an error of the device until the    *)
(* program has counted down from the last good one.                        *)
WrongZero(c, i, v) == Table[i].key = "soc" /\ v = 0 /\ Changed(c, i, v) /\ c.soc > 1

(* Mutant: a value goes to all the entries with its key.                   *)
Filled_All(c, key) == {i \in Entry : Table[i].key = key /\ ~c.handled[i]}

(* The entries a value goes to: those with its key that have not had one   *)
(* in this cycle. After the first of them, an entry that shows the value   *)
(* itself ends the search: it is for the next value with this key.         *)
Filled(c, key) ==
  LET fitting == {i \in Entry : Table[i].key = key /\ ~c.handled[i]}
  IN {i \in fitting :
        \A j \in fitting, k \in Entry :
          (j < k /\ k <= i /\ Table[k].key = key) => Table[k].bit # NoBit}

(* The value is stored in the entries f that are with the key.             *)
StoreResponseValue(c, key, v, f) ==
  LET zero(i) == WrongZero(c, i, v)
  IN [payload |-> [i \in Entry |-> IF i \notin f THEN c.payload[i]
                                   ELSE IF zero(i) THEN <<c.soc>> ELSE Rendered(i, v)],
      changed |-> [i \in Entry |-> IF i \in f THEN Changed(c, i, v) ELSE c.changed[i]],
      handled |-> [i \in Entry |-> i \in f \/ c.handled[i]],
      soc |-> IF key # "soc" \/ \A i \in f : ~Changed(c, i, v) THEN c.soc
              ELSE IF \E i \in f : zero(i) THEN c.soc - 1 ELSE v]

(* The values of an answer with one key, one after another.                *)
Values(shown, key) == IF key = "cells" THEN shown.cells ELSE <<shown[key]>>

(* storeIntegerValue, storeFloatValue and storeStringValue for an entry    *)
(* the program computes itself.                                            *)
StoreValue(c, key, v) ==
  [payload |-> [i \in Entry |-> IF i \in With(key) THEN <<v>> ELSE c.payload[i]],
   changed |-> [i \in Entry |-> c.changed[i] \/ (i \in With(key) /\ c.payload[i] # <<v>>)],
   handled |-> c.handled,
   soc |-> c.soc]

(* getIntegerValue, getFloatValue: an empty payload is 0.                  *)
GetValue(p, key) ==
  LET i == CHOOSE j \in Plain(key) : TRUE
  IN IF p[i] = <<>> THEN 0 ELSE p[i][1]

BatteryState(power, soc) ==
  CASE power < 0 -> "DISCHARGING"
    [] power > 0 -> "CHARGING"
    [] power = 0 /\ soc = 0 -> "EMPTY"
    [] power = 0 /\ soc = Full -> "FULL"
    [] OTHER -> "PENDING"

GridState(power) == IF power <= 0 THEN "IN" ELSE "OUT"

(* classifyValues.                                                         *)
Derived(c) ==
  LET get(key) == GetValue(c.payload, key)
  IN StoreValue(StoreValue(c,
       "state", BatteryState(get("power"), get("soc"))),
       "gridState", GridState(get("grid")))

(* The cache as a record, and the variables of the record c.               *)
Cache == [payload |-> payload, changed |-> changed, handled |-> handled, soc |-> lastSoc]

CacheIs(c) ==
  /\ payload' = c.payload /\ changed' = c.changed /\ handled' = c.handled /\ lastSoc' = c.soc

-----------------------------------------------------------------------------
(* Mutant: the entries stay handled for ever.                              *)
ResetHandleFlag_Not(c) == c

ResetHandleFlag(c) == [c EXCEPT !.handled = No]

(* refreshCache: set/force names topics to be published again.             *)
RefreshCache(c, topics) ==
  [c EXCEPT !.changed = [i \in Entry |-> (i \in topics /\ c.payload[i] # <<>>) \/ @[i]]]

(* A cycle begins, perhaps with the command set/force.                     *)
Request ==
  /\ pc = "request"
  /\ \/ CacheIs(ResetHandleFlag(Cache))
     \/ \E topics \in Patterns : CacheIs(RefreshCache(ResetHandleFlag(Cache), topics))
  /\ pc' = "answer"
  /\ UNCHANGED <<countdown, rest, mosq, link, device, broker, answered, lost, bounds>>

(* The answer comes, without values the device refuses. The first one of a *)
(* session is about the authentication alone.                              *)
Answer ==
  /\ pc = "answer"
  /\ \E refused \in {{}, Keys} \union {{k} : k \in Keys} :
       /\ countdown = 3 <=> refused = Keys
       /\ IF refused = {} \/ countdown = 3 THEN UNCHANGED troubles ELSE Trouble
       /\ rest' = [k \in Keys |-> IF k \in refused THEN <<>> ELSE Values(device, k)]
       /\ answered' = [k \in Keys |-> IF k \in refused THEN answered[k] ELSE Values(device, k)]
  /\ pc' = "store"
  /\ UNCHANGED <<countdown, cache, mosq, link, device, broker, lost, changes>>

(* The next value of the answer is stored: those with one key after those  *)
(* with the keys before it.                                                *)
Store ==
  /\ pc = "store"
  /\ \E n \in DOMAIN AnswerKeys :
       LET k == AnswerKeys[n]
       IN /\ rest[k] # <<>> /\ \A m \in 1..(n - 1) : rest[AnswerKeys[m]] = <<>>
          /\ \E f \in {Filled(Cache, k)} : CacheIs(StoreResponseValue(Cache, k, Head(rest[k]), f))
          /\ rest' = [rest EXCEPT ![k] = Tail(@)]
  /\ UNCHANGED <<pc, countdown, mosq, link, device, broker, answered, lost, bounds>>

(* Mutant: one cycle later.                                                *)
Derive_Late ==
  /\ pc = "store" /\ \A k \in Keys : rest[k] = <<>>
  /\ \E c \in {IF countdown < 0 THEN Derived(Cache) ELSE Cache} : CacheIs(c)
  /\ pc' = "publish"
  /\ UNCHANGED <<countdown, rest, mosq, link, device, broker, answered, lost, bounds>>

(* From the fourth cycle of a session on, the derived values are computed. *)
Derive ==
  /\ pc = "store" /\ \A k \in Keys : rest[k] = <<>>
  /\ \E c \in {IF countdown <= 0 THEN Derived(Cache) ELSE Cache} : CacheIs(c)
  /\ pc' = "publish"
  /\ UNCHANGED <<countdown, rest, mosq, link, device, broker, answered, lost, bounds>>

(* The session ends before the answer: a new one begins.                   *)
Break ==
  /\ pc = "answer"
  /\ Trouble
  /\ pc' = "request" /\ countdown' = 3
  /\ UNCHANGED <<rest, cache, mosq, link, device, broker, answered, lost, changes>>

-----------------------------------------------------------------------------
(* handleMQTT publishes what has changed and is not empty, and what is to  *)
(* be published in every cycle.                                            *)
Due == {i \in Entry : (changed[i] \/ i \in Forced) /\ payload[i] # <<>>}

(* The end of a cycle in which the messages about the entries sent came    *)
(* through. The flags of the others are cleared, too.                      *)
EndCycle(sent) ==
  /\ changed' = [i \in Entry |-> changed[i] /\ i \notin Due]
  /\ broker' = [i \in Entry |-> IF i \in sent THEN payload[i] ELSE broker[i]]
  /\ lost' = (lost \union Due) \ sent
  /\ mosq' = TRUE
  /\ countdown' = IF countdown >= 0 THEN countdown - 1 ELSE countdown
  /\ pc' = "request"
  /\ UNCHANGED <<payload, handled, lastSoc, rest, device, answered, changes>>

(* The MQTT client is connected, or can connect now.                       *)
Connected == ~mosq \/ link

Publish ==
  /\ pc = "publish" /\ Connected
  /\ EndCycle(Due)
  /\ link' = TRUE
  /\ UNCHANGED troubles

(* mosquitto_reconnect after the last publication has failed.              *)
TryReconnect ==
  \/ link' = TRUE /\ UNCHANGED troubles
  \/ link' = FALSE /\ Trouble

(* The connection is lost during the publication: the messages from some   *)
(* entry on do not come through.                                           *)
PublishLosesLink ==
  /\ pc = "publish" /\ Connected
  /\ troubles < MaxTroubles
  /\ \E i \in Due :
       /\ EndCycle({j \in Due : j < i})
       /\ link' = TRUE /\ troubles' = troubles + 1

(* It was lost before: nothing comes through, or, when the listener has    *)
(* restored it meanwhile, the messages from some entry on.                 *)
PublishWithoutLink ==
  /\ pc = "publish" /\ ~Connected
  /\ \/ Due = {} /\ EndCycle({}) /\ UNCHANGED <<link, troubles>>
     \/ Due # {} /\ EndCycle({}) /\ TryReconnect
     \/ \E i \in Due :
          /\ EndCycle({j \in Due : j >= i})
          /\ link' = TRUE /\ UNCHANGED troubles

(* There is no broker yet: nothing is published, and nothing is lost.      *)
NoBroker ==
  /\ pc = "publish" /\ ~mosq
  /\ UNCHANGED cache
  /\ countdown' = IF countdown >= 0 THEN countdown - 1 ELSE countdown
  /\ pc' = "request"
  /\ UNCHANGED <<rest, mosq, link, device, broker, answered, lost, bounds>>

(* Between two publications the connection is lost, or the listener        *)
(* restores it.                                                            *)
LinkLost ==
  /\ pc = "publish" /\ link /\ link' = FALSE
  /\ Trouble
  /\ UNCHANGED <<pc, countdown, rest, cache, mosq, device, broker, answered, lost, changes>>

ListenerReconnects ==
  /\ pc = "publish" /\ mosq /\ ~link /\ link' = TRUE
  /\ UNCHANGED <<pc, countdown, rest, cache, mosq, device, broker, answered, lost, bounds>>

Publication == Publish \/ PublishLosesLink \/ PublishWithoutLink \/ NoBroker

Next ==
  \/ Change \/ LinkLost \/ ListenerReconnects
  \/ Request \/ Answer \/ Break \/ Store \/ Derive \/ Publication

(* mainLoop goes on for ever, and the broker can be reached in the end.    *)
Fairness ==
  /\ WF_vars(Request) /\ WF_vars(Answer) /\ WF_vars(Store \/ Derive) /\ WF_vars(Publication)
  /\ SF_vars(Publish)

Spec == Init /\ [][Next]_vars /\ Fairness

-----------------------------------------------------------------------------
TypeOK ==
  /\ pc \in {"request", "answer", "store", "publish"} /\ countdown \in -1..3
  /\ changed \in [Entry -> BOOLEAN] /\ handled \in [Entry -> BOOLEAN]
  /\ lastSoc \in -1..Full /\ mosq \in BOOLEAN /\ link \in BOOLEAN /\ (link => mosq)
  /\ device \in Devices /\ lost \subseteq Entry
  /\ DOMAIN payload = Entry /\ DOMAIN broker = Entry
  /\ changes \in 0..MaxChanges /\ troubles \in 0..MaxTroubles

(* Which of the entries with its key entry i is.                           *)
Number(i) == Cardinality({j \in 1..i : Table[j].key = Table[i].key})

(* What the answers a say that entry i shows: the value, one bit of it, or *)
(* of several values with one key the one whose number the entry has.      *)
Said(a, i) ==
  LET values == a[Table[i].key]
      single == Len(values) = 1
  IN IF values = <<>> THEN <<>>
     ELSE IF Table[i].bit # NoBit THEN <<Table[i].bit \in values[1]>>
     ELSE <<values[IF single THEN 1 ELSE Number(i)]>>

DeviceEntry == {i \in Entry : Table[i].key \in Keys}
SocEntry == CHOOSE i \in With("soc") : TRUE

(* Every entry shows what the last answer with its key said, whatever      *)
(* other answers are missing: each of the cell values in its own entry,    *)
(* each bit in its own, and in the next cycle again. The state of charge   *)
(* alone may be corrected.                                                 *)
AsAnswered ==
  pc # "store" => \A i \in DeviceEntry \ {SocEntry} : payload[i] = Said(answered, i)

(* The broker shows the payload of each entry that is not marked as        *)
(* changed, unless the last message about it has failed. A change before   *)
(* the broker was there is not forgotten.                                  *)
BrokerInStep ==
  \A i \in Entry \ lost : ~changed[i] => broker[i] = payload[i]

(* Once the derived values are computed, no cycle ends with a battery      *)
(* state or grid state at the broker that does not fit the values shown    *)
(* beside it, unless a message has failed.                           *)
DerivedInStep ==
  (pc = "request" /\ countdown = -1 /\ mosq /\ lost = {}) =>
    LET get(key) == GetValue(broker, key)
    IN /\ \A i \in Entry : Table[i].key = "state"
                            => broker[i] = <<BatteryState(get("power"), get("soc"))>>
       /\ \A i \in Entry : Table[i].key = "gridState" => broker[i] = <<GridState(get("grid"))>>

(* A single zero of the device never shows as an empty battery: the state  *)
(* of charge goes to 0 from 2 or less only.                                *)
NoFalseZero ==
  [][payload'[SocEntry] = <<0>> => payload[SocEntry] \in {<<>>, <<0>>, <<1>>, <<2>>}]_vars

(* What the entries show when they show what the device shows.             *)
Wanted(i) ==
  CASE Table[i].key = "state" -> <<BatteryState(device.power, device.soc)>>
    [] Table[i].key = "gridState" -> <<GridState(device.grid)>>
    [] OTHER -> Said([k \in Keys |-> Values(device, k)], i)

(* When the device no longer changes, the broker comes to show what it     *)
(* shows, zero counted down to and derived values included, except for     *)
(* messages that have failed.                                              *)
EventuallyShown == <>[](\A i \in Entry \ lost : broker[i] = Wanted(i))

(* A topic that is always published comes through in the end.              *)
ForcedComeThrough == <>[](Forced \intersect lost = {})

(* The cache shows what was answered, and the broker what the cache shows. *)
CacheInStep == TypeOK /\ AsAnswered /\ BrokerInStep

(* Every change of the device reaches the broker, and what is always       *)
(* published comes through even after messages that failed.                *)
BrokerShows == EventuallyShown /\ ForcedComeThrough

=============================================================================
