------------------------ MODULE ResponseCache_proofs ------------------------
(* Theorems about ResponseCache, for any table of entries, any values that   *)
(* the home power station shows, and any number of changes and troubles.     *)
EXTENDS ResponseCache, FiniteSetTheorems, SequenceTheorems, WellFoundedInduction, TLAPS

-----------------------------------------------------------------------------
(* The inductive invariant. What the cache owes to the answers: before the   *)
(* values of an answer are stored no entry has had one, and while they are   *)
(* stored the values of a key are those that the entries not handled wait    *)
(* for.                                                                      *)
Shows(i) == payload[i] = Said(answered, i)

AnswerType ==
  \A k \in Keys : answered[k] = <<>> \/ \E d \in Devices : answered[k] = Values(d, k)

(* A key with one value.                                                     *)
SingleInStep(k) ==
  IF rest[k] = <<>>
  THEN \A i \in With(k) \ {SocEntry} : Shows(i)
  ELSE rest[k] = answered[k] /\ \A i \in With(k) : ~handled[i]

(* The cell values: the entries that have had theirs are the first ones.     *)
CellsDone == {i \in With("cells") : handled[i]}

CellsInStep ==
  IF rest["cells"] = <<>>
  THEN \A i \in With("cells") : Shows(i)
  ELSE \E s \in Nat :
         /\ s < Len(answered["cells"])
         /\ rest["cells"] = SubSeq(answered["cells"], s + 1, Len(answered["cells"]))
         /\ \A i, j \in With("cells") : (i < j /\ handled[j]) => handled[i]
         /\ CellsDone = With("cells") \/ Cardinality(CellsDone) = s
         /\ \A i \in CellsDone : Shows(i)

AnswersInv ==
  /\ DOMAIN rest = Keys /\ AnswerType
  /\ pc = "answer" => handled = No
  /\ pc # "store" => AsAnswered
  /\ pc = "store" => CellsInStep /\ \A k \in Keys \ {"cells"} : SingleInStep(k)

(* The derived values fit those they are computed from, from their           *)
(* computation to the end of the cycle; an entry marked as changed has a     *)
(* payload.                                                                  *)
Fits(p) ==
  LET get(key) == GetValue(p, key)
  IN /\ \A i \in Entry : Table[i].key = "state"
                          => p[i] = <<BatteryState(get("power"), get("soc"))>>
     /\ \A i \in Entry : Table[i].key = "gridState" => p[i] = <<GridState(get("grid"))>>

DerivedInv ==
  /\ \A i \in Entry : changed[i] => payload[i] # <<>>
  /\ (pc = "publish" /\ countdown <= 0) => Fits(payload)
  /\ DerivedInStep

(* The entry of the state of charge shows the last good one, or one more     *)
(* when the program has begun to count down.                                 *)
SocInv ==
  payload[SocEntry] # <<>>
    => lastSoc >= 0 /\ payload[SocEntry] \in {<<lastSoc>>, <<lastSoc + 1>>}

CacheInv == TypeOK /\ BrokerInStep /\ AnswersInv /\ DerivedInv /\ SocInv

-----------------------------------------------------------------------------
(* The table.                                                                *)
LEMMA KeysAre == Keys = {"power", "grid", "soc", "status", "cells"}
<1>1. DOMAIN AnswerKeys = 1..5
  BY DEF AnswerKeys
<1>2. /\ AnswerKeys[1] = "power" /\ AnswerKeys[2] = "grid" /\ AnswerKeys[3] = "soc"
      /\ AnswerKeys[4] = "status" /\ AnswerKeys[5] = "cells"
  BY DEF AnswerKeys
<1>3. \A n \in 1..5 : n = 1 \/ n = 2 \/ n = 3 \/ n = 4 \/ n = 5
  OBVIOUS
<1>4. Keys \subseteq {"power", "grid", "soc", "status", "cells"}
  BY <1>1, <1>2, <1>3 DEF Keys
<1>5. {"power", "grid", "soc", "status", "cells"} \subseteq Keys
  BY <1>1, <1>2 DEF Keys
<1>6. QED
  BY <1>4, <1>5

LEMMA SocEntryIs ==
  SocEntry \in Entry /\ With("soc") = {SocEntry} /\ Table[SocEntry].key = "soc"
  /\ Table[SocEntry].bit = NoBit
<1>1. PICK i \in With("soc") : Table[i].bit = NoBit
  BY TableAssumption DEF TableAssumption, Plain
<1>2. \A j \in With("soc") : j = i
  BY <1>1, TableAssumption DEF TableAssumption
<1>3. SocEntry = i
  BY <1>1, <1>2 DEF SocEntry
<1>4. QED
  BY <1>1, <1>2, <1>3 DEF With

(* A value that classifyValues reads is that of an entry with its key.       *)
LEMMA GetsTheSame ==
  ASSUME NEW p, NEW q, NEW key \in {"power", "grid", "soc"},
         \A i \in With(key) : p[i] = q[i]
  PROVE  GetValue(p, key) = GetValue(q, key)
<1> DEFINE j == CHOOSE i \in Plain(key) : TRUE
<1>1. j \in Plain(key)
  BY TableAssumption DEF TableAssumption
<1>2. p[j] = q[j]
  BY <1>1 DEF Plain
<1>3. QED
  BY <1>2 DEF GetValue

(* What a computed value changes in a cache.                                 *)
Written(p, key, v) == [i \in Entry |-> IF i \in With(key) THEN <<v>> ELSE p[i]]
Marked(q, p, key, v) == [i \in Entry |-> q[i] \/ (i \in With(key) /\ p[i] # <<v>>)]

LEMMA StoreValueIs ==
  ASSUME NEW p, NEW q, NEW h, NEW s, NEW key, NEW v
  PROVE  StoreValue([payload |-> p, changed |-> q, handled |-> h, soc |-> s], key, v)
           = [payload |-> Written(p, key, v), changed |-> Marked(q, p, key, v),
              handled |-> h, soc |-> s]
BY DEF StoreValue, Written, Marked

DerivedState == BatteryState(GetValue(payload, "power"), GetValue(payload, "soc"))
DerivedGrid == GridState(GetValue(payload, "grid"))
WithState == Written(payload, "state", DerivedState)
MarkState == Marked(changed, payload, "state", DerivedState)

LEMMA DerivedIs ==
  Derived(Cache) = [payload |-> Written(WithState, "gridState", DerivedGrid),
                    changed |-> Marked(MarkState, WithState, "gridState", DerivedGrid),
                    handled |-> handled, soc |-> lastSoc]
<1>1. Cache = [payload |-> payload, changed |-> changed, handled |-> handled, soc |-> lastSoc]
  BY DEF Cache
<1>2. Cache.payload = payload
  BY <1>1
<1>3. StoreValue(Cache, "state", DerivedState)
        = [payload |-> WithState, changed |-> MarkState, handled |-> handled, soc |-> lastSoc]
  BY <1>1, StoreValueIs DEF WithState, MarkState
<1>4. Derived(Cache)
        = StoreValue(StoreValue(Cache, "state", DerivedState), "gridState", DerivedGrid)
  <2>1. Derived(Cache)
          = StoreValue(StoreValue(Cache, "state", BatteryState(GetValue(Cache.payload, "power"),
                                                               GetValue(Cache.payload, "soc"))),
                       "gridState", GridState(GetValue(Cache.payload, "grid")))
    BY Zenon DEF Derived
  <2>2. QED
    BY <1>2, <2>1 DEF DerivedState, DerivedGrid
<1>5. StoreValue([payload |-> WithState, changed |-> MarkState, handled |-> handled,
                  soc |-> lastSoc], "gridState", DerivedGrid)
        = [payload |-> Written(WithState, "gridState", DerivedGrid),
           changed |-> Marked(MarkState, WithState, "gridState", DerivedGrid),
           handled |-> handled, soc |-> lastSoc]
  BY StoreValueIs
<1>6. QED
  BY <1>3, <1>4, <1>5

(* The step that computes them: only their own entries change.               *)
LEMMA DeriveEffect ==
  ASSUME TypeOK, Derive
  PROVE  /\ handled' = handled /\ lastSoc' = lastSoc /\ DOMAIN payload' = Entry
         /\ changed' \in [Entry -> BOOLEAN]
         /\ \A i \in Entry : ~changed'[i] => ~changed[i] /\ payload'[i] = payload[i]
         /\ \A i \in Entry : changed'[i] => changed[i] \/ payload'[i] # <<>>
         /\ \A i \in Entry : payload[i] # <<>> => payload'[i] # <<>>
         /\ \A i \in Entry : Table[i].key \notin {"state", "gridState"}
                               => payload'[i] = payload[i] /\ changed'[i] = changed[i]
         /\ countdown <= 0 => Fits(payload')
<1>1. DOMAIN payload = Entry /\ changed \in [Entry -> BOOLEAN]
  BY DEF TypeOK
<1>2. CASE countdown <= 0
  <2>1. CacheIs(Derived(Cache))
    BY <1>2 DEF Derive
  <2>2. /\ payload' = Written(WithState, "gridState", DerivedGrid)
        /\ changed' = Marked(MarkState, WithState, "gridState", DerivedGrid)
        /\ handled' = handled /\ lastSoc' = lastSoc
    BY <2>1, DerivedIs DEF CacheIs
  <2>3. \A i \in Entry : i \in With("state") => i \notin With("gridState")
    BY DEF With
  <2>4. \A i \in Entry : payload'[i] = IF i \in With("gridState") THEN <<DerivedGrid>>
                                       ELSE IF i \in With("state") THEN <<DerivedState>>
                                       ELSE payload[i]
    BY <2>2 DEF Written, WithState
  <2>5. changed' \in [Entry -> BOOLEAN] /\ DOMAIN payload' = Entry
    BY <2>2 DEF Marked, Written
  <2>6. \A i \in Entry : changed'[i] <=> \/ changed[i]
                                         \/ i \in With("state") /\ payload[i] # <<DerivedState>>
                                         \/ i \in With("gridState") /\ payload[i] # <<DerivedGrid>>
    BY <1>1, <2>2, <2>3 DEF Marked, MarkState, WithState, Written
  <2>7. \A i \in Entry : Table[i].key \notin {"state", "gridState"}
                           => payload'[i] = payload[i] /\ changed'[i] = changed[i]
    BY <1>1, <2>4, <2>5, <2>6 DEF With
  <2>8. \A key \in {"power", "grid", "soc"} : \A i \in With(key) : payload'[i] = payload[i]
    BY <2>7 DEF With
  <2>9. \A key \in {"power", "grid", "soc"} : GetValue(payload', key) = GetValue(payload, key)
    BY <2>8, GetsTheSame
  <2>10. Fits(payload')
    BY <2>3, <2>4, <2>9 DEF Fits, With, DerivedState, DerivedGrid
  <2>11. \A i \in Entry : ~changed'[i] => ~changed[i] /\ payload'[i] = payload[i]
    BY <2>4, <2>6
  <2>12. \A i \in Entry : changed'[i] => changed[i] \/ payload'[i] # <<>>
    BY <2>4, <2>6
  <2>13. \A i \in Entry : payload[i] # <<>> => payload'[i] # <<>>
    BY <2>4
  <2>14. QED
    BY <2>2, <2>5, <2>7, <2>10, <2>11, <2>12, <2>13
<1>3. CASE ~(countdown <= 0)
  <2>1. CacheIs(Cache)
    BY <1>3 DEF Derive
  <2>2. UNCHANGED <<payload, changed, handled, lastSoc>>
    BY <2>1 DEF CacheIs, Cache
  <2>3. QED
    BY <1>1, <1>3, <2>2
<1>4. QED
  BY <1>2, <1>3

-----------------------------------------------------------------------------
(* A value of an answer goes to entries with its key that have had none.     *)
Pending(k) == {i \in With(k) : ~handled[i]}
Took(k) == Filled(Cache, k)
Value(k) == Head(rest[k])

LEMMA StoreEffect ==
  ASSUME TypeOK, NEW k,
         CacheIs(StoreResponseValue(Cache, k, Value(k), Took(k)))
  PROVE  /\ Took(k) \subseteq Pending(k)
         /\ \A i \in Entry : payload'[i] = IF i \in Took(k)
                                           THEN IF WrongZero(Cache, i, Value(k))
                                                THEN <<lastSoc>> ELSE Rendered(i, Value(k))
                                           ELSE payload[i]
         /\ \A i \in Entry : changed'[i] = IF i \in Took(k)
                                           THEN Changed(Cache, i, Value(k)) ELSE changed[i]
         /\ \A i \in Entry : handled'[i] = (i \in Took(k) \/ handled[i])
         /\ DOMAIN payload' = Entry /\ changed' \in [Entry -> BOOLEAN]
         /\ handled' \in [Entry -> BOOLEAN]
         /\ lastSoc' = IF k # "soc" \/ \A i \in Took(k) : ~Changed(Cache, i, Value(k))
                       THEN lastSoc
                       ELSE IF \E i \in Took(k) : WrongZero(Cache, i, Value(k)) THEN lastSoc - 1
                       ELSE Value(k)
<1>1. /\ Cache.payload = payload /\ Cache.changed = changed /\ Cache.handled = handled
      /\ Cache.soc = lastSoc
  BY DEF Cache
<1>2. Took(k) \subseteq Pending(k) /\ Pending(k) \subseteq Entry
  BY <1>1 DEF Took, Filled, Pending, With
<1>3. changed \in [Entry -> BOOLEAN] /\ handled \in [Entry -> BOOLEAN]
  BY DEF TypeOK
<1> DEFINE v == Value(k)
           f == Took(k)
<1>4. payload' = [i \in Entry |-> IF i \notin f THEN payload[i]
                                  ELSE IF WrongZero(Cache, i, v) THEN <<lastSoc>>
                                  ELSE Rendered(i, v)]
  BY <1>1 DEF CacheIs, StoreResponseValue
<1>5. changed' = [i \in Entry |-> IF i \in f THEN Changed(Cache, i, v) ELSE changed[i]]
  BY <1>1 DEF CacheIs, StoreResponseValue
<1>6. handled' = [i \in Entry |-> i \in f \/ handled[i]]
  BY <1>1 DEF CacheIs, StoreResponseValue
<1>7. lastSoc' = IF k # "soc" \/ \A i \in f : ~Changed(Cache, i, v) THEN lastSoc
                 ELSE IF \E i \in f : WrongZero(Cache, i, v) THEN lastSoc - 1 ELSE v
  BY <1>1 DEF CacheIs, StoreResponseValue
<1>8. \A i \in Entry : payload'[i] = IF i \in f
                                     THEN IF WrongZero(Cache, i, v)
                                          THEN <<lastSoc>> ELSE Rendered(i, v)
                                     ELSE payload[i]
  BY <1>4
<1>9. \A i \in Entry : Changed(Cache, i, v) \in BOOLEAN
  BY <1>1, <1>3 DEF Changed
<1>10. changed' \in [Entry -> BOOLEAN]
  BY <1>3, <1>5, <1>9
<1>11. QED
  BY <1>2, <1>4, <1>5, <1>6, <1>7, <1>8, <1>10

LEMMA StorePick ==
  ASSUME Store
  PROVE  \E k \in Keys : /\ rest[k] # <<>> /\ pc = "store"
                         /\ CacheIs(StoreResponseValue(Cache, k, Value(k), Took(k)))
                         /\ rest' = [rest EXCEPT ![k] = Tail(@)]
                         /\ UNCHANGED <<pc, countdown, mosq, link, device, broker, answered,
                                        lost, bounds>>
BY DEF Store, Keys, Value, Took

-----------------------------------------------------------------------------
(* Types, and the broker.                                                    *)
LEMMA InitType == Init => TypeOK /\ BrokerInStep /\ SocInv
<1> SUFFICES ASSUME Init PROVE TypeOK /\ BrokerInStep /\ SocInv
  OBVIOUS
<1>1. Full \in Nat /\ MaxChanges \in Nat /\ MaxTroubles \in Nat /\ Start \in Devices
  BY CacheAssumption DEF CacheAssumption
<1>2. \A i \in Entry : payload[i] = <<>> /\ broker[i] = <<>>
  BY DEF Init, None
<1>3. TypeOK
  <2>1. DOMAIN payload = Entry /\ DOMAIN broker = Entry
    BY DEF Init, None
  <2>2. changed \in [Entry -> BOOLEAN] /\ handled \in [Entry -> BOOLEAN]
    BY DEF Init, No
  <2>3. /\ pc = "request" /\ countdown = 3 /\ lastSoc = -1 /\ mosq = FALSE /\ link = FALSE
        /\ device = Start /\ lost = {} /\ changes = 0 /\ troubles = 0
    BY DEF Init
  <2>4. /\ countdown \in -1..3 /\ lastSoc \in -1..Full
        /\ changes \in 0..MaxChanges /\ troubles \in 0..MaxTroubles
    BY <1>1, <2>3
  <2>5. /\ pc \in {"request", "answer", "store", "publish"} /\ mosq \in BOOLEAN
        /\ link \in BOOLEAN /\ (link => mosq) /\ device \in Devices /\ lost \subseteq Entry
    BY <1>1, <2>3
  <2>6. QED
    BY <2>1, <2>2, <2>4, <2>5 DEF TypeOK
<1>4. QED
  BY <1>2, <1>3, SocEntryIs DEF BrokerInStep, SocInv

(* The value of the state of charge that is stored.                          *)
LEMMA SocValue ==
  ASSUME AnswersInv, pc = "store", rest["soc"] # <<>>
  PROVE  Value("soc") \in 0..Full
<1>1. "soc" \in Keys /\ "soc" # "cells"
  BY KeysAre
<1>2. rest["soc"] = answered["soc"]
  BY <1>1 DEF AnswersInv, SingleInStep
<1>3. PICK d \in Devices : answered["soc"] = Values(d, "soc")
  BY <1>1, <1>2 DEF AnswersInv, AnswerType
<1>4. Values(d, "soc") = <<d.soc>>
  BY DEF Values
<1>5. d.soc \in 0..Full
  BY DeviceAssumption DEF DeviceAssumption
<1>6. QED
  BY <1>2, <1>3, <1>4, <1>5 DEF Value

LEMMA StoreType ==
  ASSUME TypeOK, AnswersInv, Store
  PROVE  TypeOK'
<1>1. PICK k \in Keys : /\ rest[k] # <<>> /\ pc = "store"
                        /\ CacheIs(StoreResponseValue(Cache, k, Value(k), Took(k)))
                        /\ UNCHANGED <<pc, countdown, mosq, link, device, broker, lost, bounds>>
  BY StorePick
<1>2. /\ DOMAIN payload' = Entry /\ changed' \in [Entry -> BOOLEAN]
      /\ handled' \in [Entry -> BOOLEAN]
      /\ lastSoc' = IF k # "soc" \/ \A i \in Took(k) : ~Changed(Cache, i, Value(k))
                    THEN lastSoc
                    ELSE IF \E i \in Took(k) : WrongZero(Cache, i, Value(k)) THEN lastSoc - 1
                    ELSE Value(k)
  BY <1>1, StoreEffect
<1>3. lastSoc \in -1..Full /\ Full \in Nat
  BY CacheAssumption DEF TypeOK, CacheAssumption
<1>4. lastSoc' \in -1..Full
  <2>1. CASE k # "soc" \/ \A i \in Took(k) : ~Changed(Cache, i, Value(k))
    BY <1>2, <1>3, <2>1
  <2>2. CASE /\ ~(k # "soc" \/ \A i \in Took(k) : ~Changed(Cache, i, Value(k)))
             /\ \E i \in Took(k) : WrongZero(Cache, i, Value(k))
    <3>1. lastSoc > 1
      BY <2>2 DEF WrongZero, Cache
    <3>2. lastSoc' = lastSoc - 1
      BY <1>2, <2>2
    <3>3. QED
      BY <1>3, <3>1, <3>2
  <2>3. CASE /\ ~(k # "soc" \/ \A i \in Took(k) : ~Changed(Cache, i, Value(k)))
             /\ ~(\E i \in Took(k) : WrongZero(Cache, i, Value(k)))
    <3>1. k = "soc" /\ lastSoc' = Value(k)
      BY <1>2, <2>3
    <3>2. QED
      BY <1>1, <1>3, <3>1, SocValue
  <2>4. QED
    BY <2>1, <2>2, <2>3
<1>5. QED
  BY <1>1, <1>2, <1>4 DEF TypeOK, bounds

(* A cycle begins.                                                           *)
LEMMA RequestEffect ==
  ASSUME TypeOK, Request
  PROVE  /\ payload' = payload /\ handled' = No /\ lastSoc' = lastSoc
         /\ changed' \in [Entry -> BOOLEAN]
         /\ \A i \in Entry : changed[i] => changed'[i]
         /\ \A i \in Entry : changed'[i] => changed[i] \/ payload[i] # <<>>
<1> DEFINE c == [payload |-> payload, changed |-> changed, handled |-> No, soc |-> lastSoc]
<1>1. ResetHandleFlag(Cache) = c
  BY DEF ResetHandleFlag, Cache
<1>2. changed \in [Entry -> BOOLEAN]
  BY DEF TypeOK
<1>3. CASE CacheIs(ResetHandleFlag(Cache))
  BY <1>1, <1>2, <1>3 DEF CacheIs
<1>4. ASSUME NEW topics \in Patterns, CacheIs(RefreshCache(ResetHandleFlag(Cache), topics))
      PROVE  /\ payload' = payload /\ handled' = No /\ lastSoc' = lastSoc
             /\ changed' = [i \in Entry |-> (i \in topics /\ payload[i] # <<>>) \/ changed[i]]
  <2>1. RefreshCache(c, topics)
          = [payload |-> payload, handled |-> No, soc |-> lastSoc,
             changed |-> [i \in Entry |-> (i \in topics /\ payload[i] # <<>>) \/ changed[i]]]
    BY DEF RefreshCache
  <2>2. CacheIs(RefreshCache(c, topics))
    BY <1>1, <1>4
  <2>3. QED
    BY <2>1, <2>2 DEF CacheIs
<1>5. CASE \E topics \in Patterns : CacheIs(RefreshCache(ResetHandleFlag(Cache), topics))
  BY <1>2, <1>4, <1>5
<1>6. QED
  BY <1>3, <1>5 DEF Request

(* The end of a cycle.                                                       *)
LEMMA EndCycleEffect ==
  ASSUME TypeOK, NEW sent \in SUBSET Due, EndCycle(sent)
  PROVE  /\ changed' \in [Entry -> BOOLEAN] /\ DOMAIN broker' = Entry
         /\ \A i \in Entry : changed'[i] <=> changed[i] /\ i \notin Due
         /\ \A i \in Entry : broker'[i] = IF i \in sent THEN payload[i] ELSE broker[i]
         /\ lost' = (lost \union Due) \ sent /\ lost' \subseteq Entry
         /\ mosq' = TRUE /\ pc' = "request" /\ countdown' \in -1..3
         /\ UNCHANGED <<payload, handled, lastSoc, rest, device, answered, changes>>
<1>1. Due \subseteq Entry
  BY DEF Due
<1>2. changed \in [Entry -> BOOLEAN] /\ countdown \in -1..3 /\ lost \subseteq Entry
  BY DEF TypeOK
<1>3. changed' = [i \in Entry |-> changed[i] /\ i \notin Due]
      /\ broker' = [i \in Entry |-> IF i \in sent THEN payload[i] ELSE broker[i]]
  BY DEF EndCycle
<1>4. changed' \in [Entry -> BOOLEAN] /\ DOMAIN broker' = Entry
  BY <1>2, <1>3
<1>5. countdown' = IF countdown >= 0 THEN countdown - 1 ELSE countdown
  BY DEF EndCycle
<1>6. countdown' \in -1..3
  BY <1>2, <1>5
<1>7. /\ \A i \in Entry : changed'[i] <=> changed[i] /\ i \notin Due
      /\ \A i \in Entry : broker'[i] = IF i \in sent THEN payload[i] ELSE broker[i]
  BY <1>3
<1>8. /\ lost' = (lost \union Due) \ sent
      /\ mosq' = TRUE /\ pc' = "request"
      /\ UNCHANGED <<payload, handled, lastSoc, rest, device, answered, changes>>
  BY DEF EndCycle
<1>9. lost' \subseteq Entry
  BY <1>1, <1>2, <1>8
<1>10. QED
  BY <1>4, <1>6, <1>7, <1>8, <1>9

LEMMA Published ==
  ASSUME Publish \/ PublishLosesLink \/ PublishWithoutLink, TypeOK
  PROVE  (\E sent \in SUBSET Due : EndCycle(sent)) /\ link' \in BOOLEAN
         /\ troubles' \in 0..MaxTroubles /\ pc = "publish"
<1>1. troubles \in 0..MaxTroubles /\ link \in BOOLEAN /\ MaxTroubles \in Nat
  BY CacheAssumption DEF TypeOK, CacheAssumption
<1>2. CASE Publish
  BY <1>1, <1>2 DEF Publish
<1>3. CASE PublishLosesLink
  <2>1. PICK i \in Due : EndCycle({j \in Due : j < i}) /\ link' = TRUE /\ troubles' = troubles + 1
    BY <1>3 DEF PublishLosesLink
  <2>2. {j \in Due : j < i} \in SUBSET Due
    OBVIOUS
  <2>3. pc = "publish" /\ troubles < MaxTroubles
    BY <1>3 DEF PublishLosesLink
  <2>4. QED
    BY <1>1, <2>1, <2>2, <2>3
<1>4. CASE PublishWithoutLink
  <2>1. pc = "publish"
    BY <1>4 DEF PublishWithoutLink
  <2>2. CASE EndCycle({}) /\ (UNCHANGED <<link, troubles>> \/ TryReconnect)
    <3>1. {} \in SUBSET Due
      OBVIOUS
    <3>2. link' \in BOOLEAN
      BY <1>1, <2>2 DEF TryReconnect
    <3>3. troubles' \in 0..MaxTroubles
      BY <1>1, <2>2 DEF TryReconnect, Trouble
    <3>4. QED
      BY <2>1, <2>2, <3>1, <3>2, <3>3
  <2>3. CASE \E i \in Due : /\ EndCycle({j \in Due : j >= i})
                            /\ link' = TRUE /\ UNCHANGED troubles
    <3>1. PICK i \in Due : EndCycle({j \in Due : j >= i}) /\ link' = TRUE /\ UNCHANGED troubles
      BY <2>3
    <3>2. {j \in Due : j >= i} \in SUBSET Due
      OBVIOUS
    <3>3. QED
      BY <1>1, <2>1, <3>1, <3>2
  <2>4. QED
    BY <1>4, <2>2, <2>3 DEF PublishWithoutLink
<1>5. QED
  BY <1>2, <1>3, <1>4

LEMMA StepType == TypeOK /\ AnswersInv /\ [Next]_vars => TypeOK'
<1> SUFFICES ASSUME TypeOK, AnswersInv, [Next]_vars PROVE TypeOK'
  OBVIOUS
<1> USE DEF bounds, cache
<1>1. /\ troubles \in 0..MaxTroubles /\ MaxTroubles \in Nat
      /\ changes \in 0..MaxChanges /\ MaxChanges \in Nat
  BY CacheAssumption DEF TypeOK, CacheAssumption
<1>2. CASE Change
  <2>1. changes' \in 0..MaxChanges /\ device' \in Devices
    BY <1>1, <1>2 DEF Change
  <2>2. QED
    BY <1>2, <2>1 DEF Change, TypeOK
<1>3. CASE LinkLost
  <2>1. troubles' \in 0..MaxTroubles
    BY <1>1, <1>3 DEF LinkLost, Trouble
  <2>2. QED
    BY <1>3, <2>1 DEF LinkLost, TypeOK
<1>4. CASE ListenerReconnects
  BY <1>4 DEF ListenerReconnects, TypeOK
<1>5. CASE Request
  <2>1. /\ payload' = payload /\ handled' = No /\ lastSoc' = lastSoc
        /\ changed' \in [Entry -> BOOLEAN]
    BY <1>5, RequestEffect
  <2>2. handled' \in [Entry -> BOOLEAN]
    BY <2>1 DEF No
  <2>3. pc' = "answer" /\ UNCHANGED <<countdown, mosq, link, device, broker, lost, bounds>>
    BY <1>5 DEF Request
  <2>4. QED
    BY <2>1, <2>2, <2>3 DEF TypeOK
<1>6. CASE Answer
  <2>1. troubles' \in 0..MaxTroubles
    BY <1>1, <1>6 DEF Answer, Trouble
  <2>2. QED
    BY <1>6, <2>1 DEF Answer, TypeOK
<1>7. CASE Break
  <2>1. troubles' \in 0..MaxTroubles
    BY <1>1, <1>7 DEF Break, Trouble
  <2>2. countdown' \in -1..3 /\ pc' = "request"
    BY <1>7 DEF Break
  <2>3. QED
    BY <1>7, <2>1, <2>2 DEF Break, TypeOK
<1>8. CASE Store
  BY <1>8, StoreType
<1>9. CASE Derive
  <2>1. /\ handled' = handled /\ lastSoc' = lastSoc /\ DOMAIN payload' = Entry
        /\ changed' \in [Entry -> BOOLEAN]
    BY <1>9, DeriveEffect
  <2>2. pc' = "publish" /\ UNCHANGED <<countdown, mosq, link, device, broker, lost, bounds>>
    BY <1>9 DEF Derive
  <2>3. QED
    BY <2>1, <2>2 DEF TypeOK
<1>10. CASE Publish \/ PublishLosesLink \/ PublishWithoutLink
  <2>1. PICK sent \in SUBSET Due : EndCycle(sent)
    BY <1>10, Published
  <2>2. link' \in BOOLEAN /\ troubles' \in 0..MaxTroubles
    BY <1>10, Published
  <2>3. /\ changed' \in [Entry -> BOOLEAN] /\ DOMAIN broker' = Entry /\ lost' \subseteq Entry
        /\ mosq' = TRUE /\ pc' = "request" /\ countdown' \in -1..3
        /\ UNCHANGED <<payload, handled, lastSoc, device, changes>>
    BY <2>1, EndCycleEffect
  <2>4. QED
    BY <2>2, <2>3 DEF TypeOK
<1>11. CASE NoBroker
  <2>1. countdown' \in -1..3
    <3>1. countdown \in -1..3 /\ countdown' = IF countdown >= 0 THEN countdown - 1 ELSE countdown
      BY <1>11 DEF TypeOK, NoBroker
    <3>2. QED
      BY <3>1
  <2>2. QED
    BY <1>11, <2>1 DEF NoBroker, TypeOK
<1>12. CASE UNCHANGED vars
  BY <1>12 DEF vars, TypeOK
<1>13. QED
  BY <1>2, <1>3, <1>4, <1>5, <1>6, <1>7, <1>8, <1>9, <1>10, <1>11, <1>12 DEF Next, Publication

LEMMA StepBroker == TypeOK /\ BrokerInStep /\ [Next]_vars => BrokerInStep'
<1> SUFFICES ASSUME TypeOK, BrokerInStep, [Next]_vars PROVE BrokerInStep'
  OBVIOUS
<1> USE DEF bounds, cache
<1>1. ASSUME UNCHANGED <<lost, broker>>,
             \A i \in Entry : ~changed'[i] => ~changed[i] /\ payload'[i] = payload[i]
      PROVE  BrokerInStep'
  BY <1>1 DEF BrokerInStep
<1>2. CASE UNCHANGED <<lost, broker, changed, payload>>
  BY <1>2 DEF BrokerInStep
<1>3. CASE Request
  <2>1. /\ payload' = payload
        /\ \A i \in Entry : changed[i] => changed'[i]
    BY <1>3, RequestEffect
  <2>2. QED
    BY <1>1, <1>3, <2>1 DEF Request
<1>4. CASE Store
  <2>1. PICK k \in Keys : /\ CacheIs(StoreResponseValue(Cache, k, Value(k), Took(k)))
                          /\ UNCHANGED <<broker, lost>>
    BY <1>4, StorePick
  <2>2. ASSUME NEW i \in Entry, ~changed'[i] PROVE ~changed[i] /\ payload'[i] = payload[i]
    <3>1. /\ payload'[i] = IF i \in Took(k)
                           THEN IF WrongZero(Cache, i, Value(k))
                                THEN <<lastSoc>> ELSE Rendered(i, Value(k))
                           ELSE payload[i]
          /\ changed'[i] = IF i \in Took(k) THEN Changed(Cache, i, Value(k)) ELSE changed[i]
      BY <2>1, StoreEffect
    <3>2. CASE i \in Took(k)
      <4>1. ~Changed(Cache, i, Value(k))
        BY <2>2, <3>1, <3>2
      <4>2. ~WrongZero(Cache, i, Value(k))
        BY <4>1 DEF WrongZero
      <4>3. ~changed[i] /\ payload[i] = Rendered(i, Value(k))
        BY <4>1 DEF Changed, Cache
      <4>4. QED
        BY <3>1, <3>2, <4>2, <4>3
    <3>3. QED
      BY <2>2, <3>1, <3>2
  <2>3. QED
    BY <1>1, <2>1, <2>2
<1>5. CASE Derive
  BY <1>1, <1>5, DeriveEffect DEF Derive
<1>6. CASE Publish \/ PublishLosesLink \/ PublishWithoutLink
  <2>1. PICK sent \in SUBSET Due : EndCycle(sent)
    BY <1>6, Published
  <2>2. /\ \A i \in Entry : changed'[i] <=> changed[i] /\ i \notin Due
        /\ \A i \in Entry : broker'[i] = IF i \in sent THEN payload[i] ELSE broker[i]
        /\ lost' = (lost \union Due) \ sent
        /\ payload' = payload
    BY <2>1, EndCycleEffect
  <2>3. QED
    BY <2>2 DEF BrokerInStep
<1>7. QED
  BY <1>2, <1>3, <1>4, <1>5, <1>6
     DEF Next, Publication, Change, LinkLost, ListenerReconnects, Answer, Break, NoBroker, vars

-----------------------------------------------------------------------------
(* Derived values.                                                           *)
LEMMA StepDerived == TypeOK /\ BrokerInStep /\ DerivedInv /\ [Next]_vars => DerivedInv'
<1> SUFFICES ASSUME TypeOK, BrokerInStep, DerivedInv, [Next]_vars PROVE DerivedInv'
  OBVIOUS
<1> USE DEF bounds, cache
<1>1. DerivedInStep <=>
        ((pc = "request" /\ countdown = -1 /\ mosq /\ lost = {}) => Fits(broker))
  BY DEF DerivedInStep, Fits
<1>2. DerivedInStep' <=>
        ((pc' = "request" /\ countdown' = -1 /\ mosq' /\ lost' = {}) => Fits(broker'))
  BY DEF DerivedInStep, Fits, GetValue
<1>3. ASSUME \A i \in Entry : changed'[i] => payload'[i] # <<>>,
             pc' \notin {"publish", "request"} \/ (pc' = "request" /\ countdown' # -1)
      PROVE  DerivedInv'
  BY <1>2, <1>3 DEF DerivedInv
<1>4. CASE Request
  <2>1. /\ payload' = payload /\ pc' = "answer"
        /\ \A i \in Entry : changed'[i] => changed[i] \/ payload[i] # <<>>
    BY <1>4, RequestEffect DEF Request
  <2>2. \A i \in Entry : changed'[i] => payload'[i] # <<>>
    BY <2>1 DEF DerivedInv
  <2>3. QED
    BY <1>3, <2>1, <2>2
<1>5. CASE Change \/ Answer \/ Break
  <2>1. /\ UNCHANGED <<payload, changed>>
        /\ pc' \notin {"publish", "request"} \/ (pc' = "request" /\ countdown' # -1)
    BY <1>5 DEF Change, Answer, Break
  <2>2. \A i \in Entry : changed'[i] => payload'[i] # <<>>
    BY <2>1 DEF DerivedInv
  <2>3. QED
    BY <1>3, <2>1, <2>2
<1>6. CASE LinkLost \/ ListenerReconnects
  <2>1. UNCHANGED <<payload, changed, countdown, pc>> /\ pc = "publish"
    BY <1>6 DEF LinkLost, ListenerReconnects
  <2>2. QED
    BY <1>2, <2>1 DEF DerivedInv
<1>7. CASE Store
  <2>1. PICK k \in Keys : /\ CacheIs(StoreResponseValue(Cache, k, Value(k), Took(k)))
                          /\ pc = "store" /\ pc' = pc
    BY <1>7, StorePick
  <2>2. ASSUME NEW i \in Entry, changed'[i] PROVE payload'[i] # <<>>
    <3>1. /\ payload'[i] = IF i \in Took(k)
                           THEN IF WrongZero(Cache, i, Value(k))
                                THEN <<lastSoc>> ELSE Rendered(i, Value(k))
                           ELSE payload[i]
          /\ changed'[i] = IF i \in Took(k) THEN Changed(Cache, i, Value(k)) ELSE changed[i]
      BY <2>1, StoreEffect
    <3>2. Rendered(i, Value(k)) # <<>>
      BY DEF Rendered
    <3>3. QED
      BY <2>2, <3>1, <3>2 DEF DerivedInv
  <2>3. QED
    BY <1>3, <2>1, <2>2
<1>8. CASE Derive
  <2>1. /\ countdown <= 0 => Fits(payload')
        /\ \A i \in Entry : Table[i].key \notin {"state", "gridState"}
                              => payload'[i] = payload[i] /\ changed'[i] = changed[i]
        /\ pc' = "publish" /\ countdown' = countdown
    BY <1>8, DeriveEffect DEF Derive
  <2>2. \A i \in Entry : changed'[i] => payload'[i] # <<>>
    BY <1>8, DeriveEffect DEF DerivedInv
  <2>3. QED
    BY <1>2, <2>1, <2>2 DEF DerivedInv
<1>9. CASE Publish \/ PublishLosesLink \/ PublishWithoutLink
  <2>1. PICK sent \in SUBSET Due : EndCycle(sent)
    BY <1>9, Published
  <2>2. /\ \A i \in Entry : changed'[i] <=> changed[i] /\ i \notin Due
        /\ \A i \in Entry : broker'[i] = IF i \in sent THEN payload[i] ELSE broker[i]
        /\ lost' = (lost \union Due) \ sent /\ DOMAIN broker' = Entry
        /\ payload' = payload /\ pc' = "request"
    BY <2>1, EndCycleEffect
  <2>3. pc = "publish" /\ DOMAIN payload = Entry
    BY <1>9, Published DEF TypeOK
  <2>4. \A i \in Entry : changed'[i] => payload'[i] # <<>>
    BY <2>2 DEF DerivedInv
  <2>5. \A i \in Entry : ~changed'[i]
    BY <2>2 DEF DerivedInv, Due
  <2>6. ASSUME countdown' = -1, lost' = {} PROVE Fits(broker')
    <3>1. countdown <= 0
      <4>1. countdown' = IF countdown >= 0 THEN countdown - 1 ELSE countdown
        BY <2>1 DEF EndCycle
      <4>2. countdown \in Int
        BY DEF TypeOK
      <4>3. QED
        BY <2>6, <4>1, <4>2
    <3>2. \A i \in Entry : broker'[i] = payload[i]
      BY <2>2, <2>5, <2>6 DEF BrokerInStep
    <3>3. Fits(payload)
      BY <2>3, <3>1 DEF DerivedInv
    <3>4. \A key \in {"power", "grid", "soc"} : \A i \in With(key) : broker'[i] = payload[i]
      BY <3>2 DEF With
    <3>5. \A key \in {"power", "grid", "soc"} : GetValue(broker', key) = GetValue(payload, key)
      BY <3>4, GetsTheSame
    <3>6. QED
      BY <3>2, <3>3, <3>5 DEF Fits
  <2>7. QED
    BY <1>2, <2>2, <2>4, <2>6 DEF DerivedInv
<1>10. CASE NoBroker
  <2>1. mosq' = FALSE /\ UNCHANGED <<payload, changed>> /\ pc' = "request"
    BY <1>10 DEF NoBroker, TypeOK
  <2>2. QED
    BY <1>2, <2>1 DEF DerivedInv
<1>11. CASE UNCHANGED vars
  <2>1. UNCHANGED <<payload, changed, pc, countdown, mosq, lost, broker>>
    BY <1>11 DEF vars
  <2>2. QED
    BY <1>1, <1>2, <2>1 DEF DerivedInv
<1>12. QED
  BY <1>4, <1>5, <1>6, <1>7, <1>8, <1>9, <1>10, <1>11 DEF Next, Publication

-----------------------------------------------------------------------------
(* Answers.                                                                  *)
LEMMA SaidSingle ==
  ASSUME NEW a, NEW k, NEW i \in With(k), NEW v, a[k] = <<v>>
  PROVE  Said(a, i) = Rendered(i, v)
<1>1. Table[i].key = k
  BY DEF With
<1>2. Len(<<v>>) = 1 /\ <<v>> # <<>> /\ <<v>>[1] = v
  OBVIOUS
<1>3. CASE Table[i].bit = NoBit
  BY <1>1, <1>2, <1>3 DEF Said, Rendered
<1>4. CASE Table[i].bit # NoBit
  BY <1>1, <1>2, <1>4 DEF Said, Rendered
<1>5. QED
  BY <1>3, <1>4

LEMMA SaidSame ==
  ASSUME NEW a, NEW b, NEW k, NEW i \in With(k), a[k] = b[k]
  PROVE  Said(a, i) = Said(b, i)
BY DEF With, Said

LEMMA EntriesFinite ==
  /\ Entry \subseteq Nat \ {0} /\ IsFiniteSet(Entry)
  /\ \A k : With(k) \subseteq Entry /\ IsFiniteSet(With(k))
<1>1. Len(Table) \in Nat
  BY CacheAssumption DEF CacheAssumption
<1>2. Entry \subseteq Nat \ {0} /\ IsFiniteSet(Entry)
  <2>1. IsFiniteSet(1..Len(Table))
    BY <1>1, FS_Interval
  <2>2. 1..Len(Table) \subseteq Nat \ {0}
    BY <1>1
  <2>3. QED
    BY <2>1, <2>2 DEF Entry
<1>3. ASSUME NEW k PROVE With(k) \subseteq Entry /\ IsFiniteSet(With(k))
  <2>1. With(k) \subseteq Entry
    BY DEF With
  <2>2. QED
    BY <1>2, <2>1, FS_Subset
<1>4. QED
  BY <1>2, <1>3

(* The entry that is number n of those with the key of the cell values.      *)
LEMMA NumberOfCell ==
  ASSUME NEW i \in With("cells")
  PROVE  /\ Number(i) \in Nat \ {0} /\ Number(i) <= Cardinality(With("cells"))
         /\ Number(i) = Cardinality({j \in With("cells") : j < i}) + 1
<1> DEFINE before == {j \in With("cells") : j < i}
           upto == {j \in 1..i : Table[j].key = Table[i].key}
<1>1. Entry = 1..Len(Table) /\ Len(Table) \in Nat /\ i \in Entry /\ Table[i].key = "cells"
      /\ i \in Nat \ {0}
  BY CacheAssumption DEF CacheAssumption, Entry, With
<1>2. upto = before \cup {i} /\ i \notin before
  BY <1>1 DEF With
<1>3. before \subseteq With("cells") /\ upto \subseteq With("cells")
  BY <1>2
<1>4. IsFiniteSet(With("cells")) /\ IsFiniteSet(before) /\ IsFiniteSet(upto)
  BY <1>3, EntriesFinite, FS_Subset
<1>5. Cardinality(upto) = Cardinality(before) + 1
  BY <1>2, <1>4, FS_AddElement
<1>6. Cardinality(upto) <= Cardinality(With("cells"))
  BY <1>3, <1>4, FS_Subset
<1>7. Cardinality(before) \in Nat
  BY <1>4, FS_CardinalityType
<1>8. Number(i) = Cardinality(upto)
  BY DEF Number
<1>9. QED
  BY <1>5, <1>6, <1>7, <1>8

LEMMA SaidCell ==
  ASSUME NEW a, NEW i \in With("cells"), a["cells"] \in Seq(Int), Number(i) <= Len(a["cells"])
  PROVE  Said(a, i) = <<a["cells"][Number(i)]>>
<1>1. Table[i].key = "cells" /\ Table[i].bit = NoBit
  BY TableAssumption DEF TableAssumption, With, Plain
<1>2. Number(i) \in Nat \ {0}
  BY NumberOfCell
<1> DEFINE values == a["cells"]
           n == Number(i)
<1>3. values \in Seq(Int) /\ Len(values) \in Nat /\ n \in Nat \ {0} /\ n <= Len(values)
  BY <1>2
<1>4. Said(a, i) = IF values = <<>> THEN <<>> ELSE <<values[IF Len(values) = 1 THEN 1 ELSE n]>>
  BY <1>1 DEF Said
<1> HIDE DEF values, n
<1>5. values # <<>> /\ (Len(values) = 1 => n = 1)
  <2>1. Len(values) # 0
    BY <1>3
  <2>2. Len(values) = 1 => n = 1
    BY <1>3
  <2>3. values # <<>>
    BY <2>1
  <2>4. QED
    BY <2>2, <2>3
<1>6. Said(a, i) = <<values[n]>>
  BY <1>4, <1>5
<1>7. QED
  BY <1>6 DEF values, n

(* The cell values of an answer: at least one for each entry.                *)
LEMMA CellValues ==
  ASSUME AnswerType
  PROVE  /\ answered["cells"] \in Seq(Int)
         /\ answered["cells"] = <<>> \/ Cardinality(With("cells")) <= Len(answered["cells"])
<1>1. "cells" \in Keys
  BY KeysAre
<1>2. CASE answered["cells"] = <<>>
  BY <1>2
<1>3. CASE \E d \in Devices : answered["cells"] = Values(d, "cells")
  <2>1. PICK d \in Devices : answered["cells"] = Values(d, "cells")
    BY <1>3
  <2>2. answered["cells"] = d.cells
    BY <2>1 DEF Values
  <2>3. QED
    BY <2>2, DeviceAssumption DEF DeviceAssumption
<1>4. QED
  BY <1>1, <1>2, <1>3 DEF AnswerType

(* The value of another key changes nothing.                                 *)
LEMMA OtherKeys ==
  ASSUME TypeOK, AnswersInv, NEW k \in Keys, NEW l \in Keys \ {k},
         CacheIs(StoreResponseValue(Cache, k, Value(k), Took(k))),
         rest' = [rest EXCEPT ![k] = Tail(@)], answered' = answered
  PROVE  /\ rest'[l] = rest[l]
         /\ \A i \in With(l) : payload'[i] = payload[i] /\ handled'[i] = handled[i]
                               /\ Shows(i)' = Shows(i)
<1>1. rest'[l] = rest[l]
  BY DEF AnswersInv
<1>2. ASSUME NEW i \in With(l) PROVE payload'[i] = payload[i] /\ handled'[i] = handled[i]
  <2>1. i \in Entry /\ i \notin With(k)
    BY <1>2 DEF With
  <2>2. i \notin Took(k)
    BY <2>1, StoreEffect DEF Pending
  <2>3. handled[i] \in BOOLEAN
    BY <2>1 DEF TypeOK
  <2>4. handled'[i] = (i \in Took(k) \/ handled[i]) /\ payload'[i] = payload[i]
    BY <2>1, <2>2, StoreEffect
  <2>5. QED
    BY <2>2, <2>3, <2>4
<1>3. \A i \in With(l) : Shows(i)' = Shows(i)
  BY <1>2 DEF Shows, Said, Number
<1>4. QED
  BY <1>1, <1>2, <1>3

(* A key with one value: all its entries take it.                            *)
LEMMA SingleStored ==
  ASSUME TypeOK, AnswersInv, NEW k \in Keys \ {"cells"}, pc = "store", rest[k] # <<>>,
         CacheIs(StoreResponseValue(Cache, k, Value(k), Took(k))),
         rest' = [rest EXCEPT ![k] = Tail(@)], answered' = answered
  PROVE  SingleInStep(k)'
<1>1. rest[k] = answered[k] /\ \A i \in With(k) : ~handled[i]
  BY DEF AnswersInv, SingleInStep
<1>2. PICK d \in Devices : answered[k] = Values(d, k)
  BY <1>1 DEF AnswersInv, AnswerType
<1> DEFINE v == d[k]
<1>3. answered[k] = <<v>>
  BY <1>2 DEF Values
<1> HIDE DEF v
<1>4. Value(k) = v /\ Tail(rest[k]) = <<>>
  BY <1>1, <1>3 DEF Value
<1>5. rest'[k] = <<>>
  BY <1>4 DEF AnswersInv
<1>6. Took(k) = With(k)
  <2>1. Took(k) \subseteq With(k)
    BY StoreEffect DEF Pending
  <2>2. ASSUME NEW i \in With(k) PROVE i \in Took(k)
    <3>1. {x \in Entry : Table[x].key = k /\ ~Cache.handled[x]} = With(k)
      BY <1>1 DEF Cache, With
    <3>2. ASSUME NEW j \in With(k), NEW x \in Entry, j < x, Table[x].key = k
          PROVE  Table[x].bit # NoBit
      BY <3>2, TableAssumption DEF TableAssumption, With
    <3>3. QED
      BY <2>2, <3>1, <3>2 DEF Took, Filled
  <2>3. QED
    BY <2>1, <2>2
<1>7. ASSUME NEW i \in With(k) \ {SocEntry} PROVE Shows(i)'
  <2>1. i \in Entry /\ Table[i].key = k
    BY DEF With
  <2>2. ~WrongZero(Cache, i, Value(k))
    <3>1. Table[i].key # "soc"
      BY <1>7, <2>1, SocEntryIs DEF With
    <3>2. QED
      BY <3>1 DEF WrongZero
  <2>3. payload'[i] = Rendered(i, v)
    BY <1>4, <1>6, <2>1, <2>2, StoreEffect
  <2>4. Said(answered, i) = Rendered(i, v)
    BY <1>3, SaidSingle
  <2>5. Said(answered, i)' = Said(answered, i)
    BY DEF Said, Number
  <2>6. QED
    BY <2>3, <2>4, <2>5 DEF Shows
<1>8. QED
  BY <1>5, <1>7 DEF SingleInStep

(* The cell values: the first entry that has none takes the next one.        *)
LEMMA FirstCell ==
  ASSUME NEW m \in Pending("cells"),
         \A i, j \in With("cells") : (i < j /\ handled[j]) => handled[i]
  PROVE  \E i \in Pending("cells") :
           /\ Took("cells") = {i}
           /\ {j \in With("cells") : j < i} = CellsDone
<1> DEFINE P == Pending("cells")
           R == OpToRel(<, Nat)
<1>1. With("cells") \subseteq Nat /\ P \subseteq With("cells")
  BY EntriesFinite DEF Pending
<1>2. PICK i \in P : \A j \in P : ~ (<<j, i>> \in R)
  BY <1>1, WFMin, NatLessThanWellFounded
<1>3. \A j \in P : <<j, i>> \in R <=> j < i
  BY <1>1 DEF OpToRel
<1>4. \A j \in P : ~ (j < i)
  BY <1>2, <1>3
<1>5. P = {x \in Entry : Table[x].key = "cells" /\ ~Cache.handled[x]}
  BY DEF Pending, With, Cache
<1>6. \A x \in Entry : Table[x].key = "cells" => Table[x].bit = NoBit
  BY TableAssumption DEF TableAssumption, With, Plain
<1>7. Took("cells") = {x \in P : \A j \in P, y \in Entry :
                                   ~ (j < y /\ y <= x /\ Table[y].key = "cells")}
  BY <1>5, <1>6 DEF Took, Filled
<1>8. i \in Took("cells")
  <2>1. SUFFICES ASSUME NEW j \in P, NEW y \in Entry, j < y, y <= i, Table[y].key = "cells"
                 PROVE  FALSE
    BY <1>2, <1>7
  <2>2. i \in Nat /\ j \in Nat /\ y \in Nat
    BY <1>1, <1>2, EntriesFinite
  <2>3. j < i
    BY <2>1, <2>2
  <2>4. QED
    BY <1>4, <2>3
<1>9. ASSUME NEW x \in Took("cells") PROVE x = i
  <2>1. x \in P /\ x \in Nat /\ i \in Nat /\ x \in Entry /\ Table[x].key = "cells"
    BY <1>1, <1>2, <1>7 DEF With
  <2>2. ~ (i < x)
    <3>1. ~ (i < x /\ x <= x /\ Table[x].key = "cells")
      BY <1>2, <1>7, <2>1
    <3>2. x <= x
      BY <2>1
    <3>3. QED
      BY <2>1, <3>1, <3>2
  <2>3. ~ (x < i)
    BY <1>4, <2>1
  <2>4. QED
    BY <2>1, <2>2, <2>3
<1>10. {j \in With("cells") : j < i} = CellsDone
  <2>1. ASSUME NEW j \in With("cells"), j < i PROVE handled[j]
    BY <1>4, <2>1 DEF Pending
  <2>2. ASSUME NEW j \in With("cells"), handled[j] PROVE j < i
    <3>1. j \in Nat /\ i \in Nat /\ i \in With("cells") /\ ~handled[i]
      BY <1>1, <1>2 DEF Pending
    <3>2. j # i
      BY <2>2, <3>1
    <3>3. ~ (i < j)
      BY <2>2, <3>1
    <3>4. QED
      BY <3>1, <3>2, <3>3
  <2>3. QED
    BY <2>1, <2>2 DEF CellsDone
<1>11. QED
  BY <1>2, <1>8, <1>9, <1>10

LEMMA CellStored ==
  ASSUME TypeOK, AnswersInv, pc = "store", rest["cells"] # <<>>,
         CacheIs(StoreResponseValue(Cache, "cells", Value("cells"), Took("cells"))),
         rest' = [rest EXCEPT !["cells"] = Tail(@)], answered' = answered
  PROVE  CellsInStep'
<1> DEFINE values == answered["cells"]
           C == With("cells")
<1>1. "cells" \in Keys /\ DOMAIN rest = Keys
  BY KeysAre DEF AnswersInv
<1>2. values \in Seq(Int) /\ (values = <<>> \/ Cardinality(C) <= Len(values))
  BY CellValues DEF AnswersInv
<1>3. PICK s \in Nat :
        /\ s < Len(values) /\ rest["cells"] = SubSeq(values, s + 1, Len(values))
        /\ \A i, j \in C : (i < j /\ handled[j]) => handled[i]
        /\ CellsDone = C \/ Cardinality(CellsDone) = s
        /\ \A i \in CellsDone : Shows(i)
  BY DEF AnswersInv, CellsInStep
<1>4. /\ s + 1 \in 1..Len(values) /\ Len(values) \in (s + 1)..Len(values) /\ Len(values) \in Nat
      /\ values # <<>>
  BY <1>2, <1>3
<1>5. Value("cells") = values[s + 1] /\ Tail(rest["cells"]) = SubSeq(values, s + 2, Len(values))
  <2>1. Head(SubSeq(values, s + 1, Len(values))) = values[s + 1]
        /\ Tail(SubSeq(values, s + 1, Len(values))) = SubSeq(values, (s + 1) + 1, Len(values))
    BY <1>2, <1>4, HeadTailOfSubSeq
  <2>2. (s + 1) + 1 = s + 2
    BY <1>3
  <2>3. QED
    BY <1>3, <2>1, <2>2 DEF Value
<1>6. rest'["cells"] = SubSeq(values, s + 2, Len(values))
  BY <1>1, <1>5
<1>7. IsFiniteSet(C) /\ C \subseteq Entry /\ CellsDone \subseteq C /\ C \subseteq Nat
  BY EntriesFinite DEF CellsDone
<1>8. ASSUME NEW i \in C PROVE Number(i) \in Nat \ {0} /\ Number(i) <= Len(values)
  <2>1. Number(i) \in Nat \ {0} /\ Number(i) <= Cardinality(C)
    BY NumberOfCell
  <2>2. Cardinality(C) \in Nat /\ Cardinality(C) <= Len(values)
    BY <1>2, <1>4, <1>7, FS_CardinalityType
  <2>3. QED
    BY <1>4, <2>1, <2>2
<1>9. \A i \in C : Said(answered, i) = <<values[Number(i)]>>
  BY <1>2, <1>8, SaidCell
<1>10. \A i \in C : Shows(i)' <=> payload'[i] = Said(answered, i)
  BY DEF Shows, Said, Number
<1>11. \A i \in C : ~WrongZero(Cache, i, Value("cells"))
  BY DEF With, WrongZero
<1>12. \A i \in C : /\ payload'[i] = IF i \in Took("cells") THEN Rendered(i, Value("cells"))
                                    ELSE payload[i]
                    /\ handled'[i] = (i \in Took("cells") \/ handled[i])
  BY <1>7, <1>11, StoreEffect
<1>13. \A i \in C : Rendered(i, Value("cells")) = <<Value("cells")>>
  BY TableAssumption DEF TableAssumption, Rendered, With, Plain
<1>14. Took("cells") \subseteq Pending("cells") /\ CellsDone' = CellsDone \union Took("cells")
  <2>1. Took("cells") \subseteq Pending("cells")
    BY StoreEffect
  <2>2. \A i \in C : handled[i] \in BOOLEAN
    BY <1>7 DEF TypeOK
  <2>3. QED
    BY <1>12, <2>1, <2>2 DEF CellsDone, Pending
<1>15. s + 2 <= Len(values) => rest'["cells"] # <<>>
  <2>1. SUFFICES ASSUME s + 2 <= Len(values) PROVE rest'["cells"] # <<>>
    OBVIOUS
  <2>2. s + 2 \in Int /\ Len(values) \in Int /\ \A i \in (s + 2)..Len(values) : values[i] \in Int
    BY <1>2, <1>3, <1>4
  <2>3. Len(SubSeq(values, s + 2, Len(values)))
          = IF s + 2 <= Len(values) THEN Len(values) - (s + 2) + 1 ELSE 0
    BY <2>2, SubSeqProperties
  <2>4. Len(rest'["cells"]) # 0
    BY <1>3, <1>4, <1>6, <2>1, <2>3
  <2>5. QED
    BY <2>4
<1>16. ~ (s + 2 <= Len(values)) => rest'["cells"] = <<>>
  <2>1. SUFFICES ASSUME ~ (s + 2 <= Len(values)) PROVE rest'["cells"] = <<>>
    OBVIOUS
  <2>2. s + 2 \in Int /\ Len(values) \in Int /\ Len(values) < s + 2
    BY <1>3, <1>4, <2>1
  <2>3. SubSeq(values, s + 2, Len(values)) = <<>>
    BY <2>2, SubSeqEmpty
  <2>4. QED
    BY <1>6, <2>3
(* When the entries have all had theirs, the value goes nowhere.             *)
<1>17. CASE CellsDone = C
  <2>1. Took("cells") = {} /\ CellsDone' = C
    BY <1>14, <1>17 DEF Pending, CellsDone
  <2>2. \A i \in C : Shows(i)' /\ handled'[i]
    BY <1>3, <1>10, <1>12, <1>17, <2>1 DEF Shows, CellsDone
  <2>3. CASE s + 2 <= Len(values)
    <3>1. s + 1 \in Nat /\ s + 1 < Len(values) /\ (s + 1) + 1 = s + 2
      BY <1>3, <1>4, <2>3
    <3>2. rest'["cells"] = SubSeq(values, (s + 1) + 1, Len(values))
      BY <1>6, <3>1
    <3>3. QED
      BY <2>1, <2>2, <3>1, <3>2 DEF CellsInStep, CellsDone
  <2>4. CASE ~ (s + 2 <= Len(values))
    <3>1. rest'["cells"] = <<>>
      BY <1>16, <2>4
    <3>2. QED
      BY <2>2, <3>1 DEF CellsInStep
  <2>5. QED
    BY <2>3, <2>4
(* Otherwise the first one without takes it.                                 *)
<1>18. CASE CellsDone # C
  <2>1. PICK m \in C : ~handled[m]
    BY <1>18 DEF CellsDone
  <2>2. m \in Pending("cells")
    BY <2>1 DEF Pending
  <2>3. PICK i \in Pending("cells") : Took("cells") = {i} /\ {j \in C : j < i} = CellsDone
    BY <1>3, <2>2, FirstCell
  <2>4. i \in C /\ ~handled[i] /\ i \notin CellsDone
    BY <2>3 DEF Pending, CellsDone
  <2>5. Cardinality(CellsDone) = s /\ IsFiniteSet(CellsDone)
    BY <1>3, <1>7, <1>18, FS_Subset
  <2>6. Number(i) = s + 1
    BY <2>3, <2>4, <2>5, NumberOfCell
  <2>7. CellsDone' = CellsDone \union {i} /\ Cardinality(CellsDone') = s + 1
    <3>1. CellsDone' = CellsDone \union {i}
      BY <1>14, <2>3
    <3>2. Cardinality(CellsDone \union {i}) = s + 1
      BY <2>4, <2>5, FS_AddElement
    <3>3. QED
      BY <3>1, <3>2
  <2>8. Shows(i)'
    BY <1>5, <1>9, <1>10, <1>12, <1>13, <2>3, <2>4, <2>6
  <2>9. \A j \in CellsDone : Shows(j)'
    <3>1. TAKE j \in CellsDone
    <3>2. j \in C /\ j \notin Took("cells")
      BY <1>7, <2>3, <2>4
    <3>3. payload[j] = Said(answered, j)
      BY <1>3 DEF Shows
    <3>4. QED
      BY <1>10, <1>12, <3>2, <3>3
  <2>10. \A j \in CellsDone' : Shows(j)'
    BY <2>7, <2>8, <2>9
  <2>11. \A j \in C : handled'[j] <=> j \in CellsDone'
    BY DEF CellsDone
  <2>12. ASSUME NEW x \in C, NEW y \in C, x < y, handled'[y] PROVE handled'[x]
    <3>1. y \in CellsDone \/ y = i
      BY <2>7, <2>11, <2>12
    <3>2. CASE y \in CellsDone
      <4>1. x \in CellsDone
        BY <1>3, <2>12, <3>2 DEF CellsDone
      <4>2. QED
        BY <2>7, <2>11, <4>1
    <3>3. CASE y = i
      <4>1. x \in CellsDone
        BY <2>3, <2>12, <3>3
      <4>2. QED
        BY <2>7, <2>11, <4>1
    <3>4. QED
      BY <3>1, <3>2, <3>3
  <2>13. CASE s + 2 <= Len(values)
    <3>1. s + 1 \in Nat /\ s + 1 < Len(values) /\ (s + 1) + 1 = s + 2
      BY <1>3, <1>4, <2>13
    <3>2. rest'["cells"] = SubSeq(values, (s + 1) + 1, Len(values))
      BY <1>6, <3>1
    <3>3. QED
      BY <1>15, <2>7, <2>10, <2>12, <2>13, <3>1, <3>2 DEF CellsInStep
  <2>14. CASE ~ (s + 2 <= Len(values))
    <3>1. rest'["cells"] = <<>>
      BY <1>16, <2>14
    <3>2. s + 1 = Len(values)
      BY <1>3, <1>4, <2>14
    <3>3. CellsDone' \subseteq C
      BY DEF CellsDone
    <3>4. Cardinality(CellsDone') <= Cardinality(C) /\ Cardinality(C) \in Nat
          /\ (Cardinality(C) = Cardinality(CellsDone') => C = CellsDone')
      BY <1>7, <3>3, FS_Subset, FS_CardinalityType
    <3>5. CellsDone' = C
      BY <1>2, <1>4, <2>7, <3>2, <3>4
    <3>6. QED
      BY <2>10, <3>1, <3>5 DEF CellsInStep
  <2>15. QED
    BY <2>13, <2>14
<1>19. QED
  BY <1>17, <1>18

(* Steps outside the storing that change neither entries nor answers.        *)
LEMMA AnswersUnchanged ==
  ASSUME AnswersInv, UNCHANGED <<payload, rest, answered>>, pc # "store", pc' # "store",
         pc' = "answer" => handled' = No
  PROVE  AnswersInv'
<1>1. AnswerType'
  BY DEF AnswersInv, AnswerType
<1>2. AsAnswered'
  BY DEF AnswersInv, AsAnswered, Said, Number
<1>3. QED
  BY <1>1, <1>2 DEF AnswersInv

(* The entries with one key, before the values of an answer are stored.      *)
LEMMA BeforeStore ==
  ASSUME AnswersInv, pc # "store", NEW k \in Keys, NEW i \in With(k) \ {SocEntry}
  PROVE  Shows(i)
<1>1. i \in DeviceEntry \ {SocEntry}
  BY DEF DeviceEntry, With
<1>2. QED
  BY <1>1 DEF AnswersInv, AsAnswered, Shows

LEMMA AnswersAnswer == TypeOK /\ AnswersInv /\ Answer => AnswersInv'
<1> SUFFICES ASSUME TypeOK, AnswersInv, Answer PROVE AnswersInv'
  OBVIOUS
<1>1. PICK refused :
        /\ rest' = [k \in Keys |-> IF k \in refused THEN <<>> ELSE Values(device, k)]
        /\ answered' = [k \in Keys |-> IF k \in refused THEN answered[k] ELSE Values(device, k)]
  BY DEF Answer
<1>2. pc = "answer" /\ pc' = "store" /\ UNCHANGED <<payload, handled>> /\ handled = No
  BY DEF Answer, cache, AnswersInv
<1>3. device \in Devices /\ \A k : With(k) \subseteq Entry
  BY DEF TypeOK, With
<1>4. \A k : \A i \in With(k) : ~handled[i] /\ ~handled'[i]
  BY <1>2, <1>3 DEF No
<1>5. AnswerType'
  <2>1. SUFFICES ASSUME NEW k \in Keys
                 PROVE  answered'[k] = <<>> \/ \E d \in Devices : answered'[k] = Values(d, k)
    BY DEF AnswerType, Values
  <2>2. CASE k \in refused
    BY <1>1, <2>2 DEF AnswersInv, AnswerType
  <2>3. CASE k \notin refused
    BY <1>1, <1>3, <2>3
  <2>4. QED
    BY <2>2, <2>3
<1>6. ASSUME NEW k \in Keys, k \in refused, NEW i \in With(k) \ {SocEntry} PROVE Shows(i)'
  <2>1. answered'[k] = answered[k]
    BY <1>1, <1>6
  <2>2. Said(answered', i) = Said(answered, i)
    BY <1>6, <2>1, SaidSame
  <2>3. Said(answered, i)' = Said(answered', i)
    BY DEF Said, Number
  <2>4. Shows(i)
    BY <1>2, <1>6, BeforeStore
  <2>5. QED
    BY <1>2, <2>2, <2>3, <2>4 DEF Shows
<1>7. ASSUME NEW k \in Keys \ {"cells"} PROVE SingleInStep(k)'
  <2>1. CASE k \in refused
    <3>1. rest'[k] = <<>>
      BY <1>1, <2>1
    <3>2. \A i \in With(k) \ {SocEntry} : Shows(i)'
      BY <1>6, <2>1
    <3>3. QED
      BY <3>1, <3>2 DEF SingleInStep
  <2>2. CASE k \notin refused
    <3>1. rest'[k] = <<device[k]>> /\ answered'[k] = <<device[k]>>
      BY <1>1, <2>2 DEF Values
    <3>2. rest'[k] # <<>>
      BY <3>1
    <3>3. QED
      BY <1>4, <3>1, <3>2 DEF SingleInStep
  <2>3. QED
    BY <2>1, <2>2
<1>8. CellsInStep'
  <2>1. "cells" \in Keys
    BY KeysAre
  <2>2. SocEntry \notin With("cells")
    BY SocEntryIs DEF With
  <2>3. CASE "cells" \in refused
    <3>1. rest'["cells"] = <<>>
      BY <1>1, <2>1, <2>3
    <3>2. \A i \in With("cells") : Shows(i)'
      BY <1>6, <2>1, <2>2, <2>3
    <3>3. QED
      BY <3>1, <3>2 DEF CellsInStep
  <2>4. CASE "cells" \notin refused
    <3>1. rest'["cells"] = device.cells /\ answered'["cells"] = device.cells
      BY <1>1, <2>1, <2>4 DEF Values
    <3>2. device.cells \in Seq(Int) /\ Cardinality(With("cells")) <= Len(device.cells)
      BY <1>3, DeviceAssumption DEF DeviceAssumption
    <3>3. CASE device.cells = <<>>
      <4>1. Cardinality(With("cells")) = 0
        <5>1. Cardinality(With("cells")) \in Nat /\ Len(<<>>) = 0
          BY EntriesFinite, FS_CardinalityType
        <5>2. QED
          BY <3>2, <3>3, <5>1
      <4>2. With("cells") = {}
        BY <4>1, EntriesFinite, FS_EmptySet
      <4>3. QED
        BY <3>1, <3>3, <4>2 DEF CellsInStep
    <3>4. CASE device.cells # <<>>
      <4>1. 0 < Len(device.cells) /\ 0 \in Nat /\ 0 + 1 = 1
        BY <3>2, <3>4
      <4>2. SubSeq(device.cells, 0 + 1, Len(device.cells)) = device.cells
        BY <3>2, <4>1, SubSeqFull
      <4>3. CellsDone' = {}
        BY <1>4 DEF CellsDone
      <4>4. Cardinality(CellsDone') = 0
        BY <4>3, FS_EmptySet
      <4>5. \E s \in Nat :
              /\ s < Len(answered'["cells"])
              /\ rest'["cells"] = SubSeq(answered'["cells"], s + 1, Len(answered'["cells"]))
              /\ Cardinality(CellsDone') = s
        BY <3>1, <4>1, <4>2, <4>4
      <4>6. QED
        BY <1>4, <3>1, <3>4, <4>3, <4>5 DEF CellsInStep
    <3>5. QED
      BY <3>3, <3>4
  <2>5. QED
    BY <2>3, <2>4
<1>9. DOMAIN rest' = Keys
  BY <1>1
<1>10. QED
  BY <1>2, <1>5, <1>7, <1>8, <1>9 DEF AnswersInv

LEMMA AnswersStore == TypeOK /\ AnswersInv /\ Store => AnswersInv'
<1> SUFFICES ASSUME TypeOK, AnswersInv, Store PROVE AnswersInv'
  OBVIOUS
<1>1. PICK k \in Keys : /\ rest[k] # <<>> /\ pc = "store"
                        /\ CacheIs(StoreResponseValue(Cache, k, Value(k), Took(k)))
                        /\ rest' = [rest EXCEPT ![k] = Tail(@)]
                        /\ pc' = pc /\ answered' = answered
  BY StorePick
<1>2. DOMAIN rest' = Keys /\ AnswerType'
  BY <1>1 DEF AnswersInv, AnswerType, Values
<1>3. ASSUME NEW l \in Keys \ {"cells"} PROVE SingleInStep(l)'
  <2>1. CASE l = k
    BY <1>1, <2>1, SingleStored
  <2>2. CASE l # k
    <3>1. /\ rest'[l] = rest[l]
          /\ \A i \in With(l) : handled'[i] = handled[i] /\ Shows(i)' = Shows(i)
      BY <1>1, <2>2, OtherKeys
    <3>2. SingleInStep(l)
      BY <1>1 DEF AnswersInv
    <3>3. QED
      BY <1>1, <3>1, <3>2 DEF SingleInStep
  <2>3. QED
    BY <2>1, <2>2
<1>4. CellsInStep'
  <2>1. "cells" \in Keys
    BY KeysAre
  <2>2. CASE k = "cells"
    BY <1>1, <2>2, CellStored
  <2>3. CASE k # "cells"
    <3>1. /\ rest'["cells"] = rest["cells"]
          /\ \A i \in With("cells") : handled'[i] = handled[i] /\ Shows(i)' = Shows(i)
      BY <1>1, <2>1, <2>3, OtherKeys
    <3>2. CellsInStep
      BY <1>1 DEF AnswersInv
    <3>3. CellsDone' = CellsDone
      BY <3>1 DEF CellsDone
    <3>4. CASE rest["cells"] = <<>>
      BY <3>1, <3>2, <3>4 DEF CellsInStep
    <3>5. CASE rest["cells"] # <<>>
      <4>1. PICK s \in Nat :
              /\ s < Len(answered["cells"])
              /\ rest["cells"] = SubSeq(answered["cells"], s + 1, Len(answered["cells"]))
              /\ \A i, j \in With("cells") : (i < j /\ handled[j]) => handled[i]
              /\ CellsDone = With("cells") \/ Cardinality(CellsDone) = s
              /\ \A i \in CellsDone : Shows(i)
        BY <3>2, <3>5 DEF CellsInStep
      <4>2. \A i, j \in With("cells") : (i < j /\ handled'[j]) => handled'[i]
        BY <3>1, <4>1
      <4>3. \A i \in CellsDone' : Shows(i)'
        BY <3>1, <3>3, <4>1 DEF CellsDone
      <4>4. QED
        BY <1>1, <3>1, <3>3, <3>5, <4>1, <4>2, <4>3 DEF CellsInStep
    <3>6. QED
      BY <3>4, <3>5
  <2>4. QED
    BY <2>2, <2>3
<1>5. QED
  BY <1>1, <1>2, <1>3, <1>4 DEF AnswersInv

LEMMA AnswersDerive == TypeOK /\ AnswersInv /\ Derive => AnswersInv'
<1> SUFFICES ASSUME TypeOK, AnswersInv, Derive PROVE AnswersInv'
  OBVIOUS
<1>1. /\ pc = "store" /\ pc' = "publish" /\ UNCHANGED <<rest, answered>>
      /\ \A k \in Keys : rest[k] = <<>>
  BY DEF Derive
<1>2. \A i \in Entry : Table[i].key \notin {"state", "gridState"} => payload'[i] = payload[i]
  BY DeriveEffect
<1>3. ASSUME NEW i \in DeviceEntry \ {SocEntry} PROVE payload'[i] = Said(answered, i)'
  <2>1. PICK k \in Keys : k = Table[i].key /\ i \in With(k) /\ i \in Entry
    BY DEF DeviceEntry, With
  <2>2. k \notin {"state", "gridState"}
    BY KeysAre
  <2>3. Shows(i)
    <3>1. CASE k = "cells"
      BY <1>1, <2>1, <3>1 DEF AnswersInv, CellsInStep
    <3>2. CASE k # "cells"
      BY <1>1, <1>3, <2>1, <3>2 DEF AnswersInv, SingleInStep
    <3>3. QED
      BY <3>1, <3>2
  <2>4. Said(answered, i)' = Said(answered, i)
    BY <1>1 DEF Said, Number
  <2>5. QED
    BY <1>2, <2>1, <2>2, <2>3, <2>4 DEF Shows
<1>4. AsAnswered'
  BY <1>3 DEF AsAnswered
<1>5. AnswerType'
  BY <1>1 DEF AnswersInv, AnswerType, Values
<1>6. QED
  BY <1>1, <1>4, <1>5 DEF AnswersInv

LEMMA StepAnswers == TypeOK /\ AnswersInv /\ [Next]_vars => AnswersInv'
<1> SUFFICES ASSUME TypeOK, AnswersInv, [Next]_vars PROVE AnswersInv'
  OBVIOUS
<1> USE DEF bounds, cache
<1>1. CASE Request
  <2>1. payload' = payload /\ handled' = No
    BY <1>1, RequestEffect
  <2>2. pc = "request" /\ pc' = "answer" /\ UNCHANGED <<rest, answered>>
    BY <1>1 DEF Request
  <2>3. QED
    BY <2>1, <2>2, AnswersUnchanged
<1>2. CASE Answer
  BY <1>2, AnswersAnswer
<1>3. CASE Store
  BY <1>3, AnswersStore
<1>4. CASE Derive
  BY <1>4, AnswersDerive
<1>5. CASE Change \/ Break \/ LinkLost \/ ListenerReconnects \/ NoBroker
  <2>1. /\ UNCHANGED <<payload, handled, rest, answered>> /\ pc # "store" /\ pc' # "store"
        /\ pc' = "answer" => pc = "answer"
    BY <1>5 DEF Change, Break, LinkLost, ListenerReconnects, NoBroker
  <2>2. pc' = "answer" => handled' = No
    BY <2>1 DEF AnswersInv
  <2>3. QED
    BY <2>1, <2>2, AnswersUnchanged
<1>6. CASE Publish \/ PublishLosesLink \/ PublishWithoutLink
  <2>1. PICK sent \in SUBSET Due : EndCycle(sent)
    BY <1>6, Published
  <2>2. UNCHANGED <<payload, rest, answered>> /\ pc' = "request"
    BY <2>1 DEF EndCycle
  <2>3. pc = "publish"
    BY <1>6, Published
  <2>4. QED
    BY <2>2, <2>3, AnswersUnchanged
<1>7. CASE UNCHANGED vars
  <2>1. UNCHANGED <<payload, handled, rest, answered, pc>>
    BY <1>7 DEF vars
  <2>2. CASE pc # "store"
    <3>1. pc' = "answer" => handled' = No
      BY <2>1 DEF AnswersInv
    <3>2. QED
      BY <2>1, <2>2, <3>1, AnswersUnchanged
  <2>3. CASE pc = "store"
    <3>1. \A i : Shows(i)' = Shows(i)
      BY <2>1 DEF Shows, Said, Number
    <3>2. CellsDone' = CellsDone
      BY <2>1 DEF CellsDone
    <3>3. CellsInStep'
      BY <2>1, <2>3, <3>1, <3>2 DEF AnswersInv, CellsInStep
    <3>4. \A k \in Keys \ {"cells"} : SingleInStep(k)'
      BY <2>1, <2>3, <3>1 DEF AnswersInv, SingleInStep
    <3>5. AnswerType'
      BY <2>1 DEF AnswersInv, AnswerType, Values
    <3>6. QED
      BY <2>1, <2>3, <3>3, <3>4, <3>5 DEF AnswersInv
  <2>4. QED
    BY <2>2, <2>3
<1>8. QED
  BY <1>1, <1>2, <1>3, <1>4, <1>5, <1>6, <1>7 DEF Next, Publication

LEMMA InitAnswers == Init => AnswersInv /\ DerivedInv
<1> SUFFICES ASSUME Init PROVE AnswersInv /\ DerivedInv
  OBVIOUS
<1>1. pc = "request" /\ countdown = 3
  BY DEF Init
<1>2. \A k \in Keys : answered[k] = <<>> /\ rest[k] = <<>>
  BY DEF Init
<1>3. DOMAIN rest = Keys /\ AnswerType
  BY <1>2 DEF Init, AnswerType
<1>4. AsAnswered
  <2>1. SUFFICES ASSUME NEW i \in DeviceEntry \ {SocEntry} PROVE payload[i] = Said(answered, i)
    BY DEF AsAnswered
  <2>2. answered[Table[i].key] = <<>> /\ i \in Entry
    BY <1>2 DEF DeviceEntry
  <2>3. payload[i] = <<>>
    BY <2>2 DEF Init, None
  <2>4. QED
    BY <2>2, <2>3 DEF Said
<1>5. AnswersInv
  BY <1>1, <1>3, <1>4 DEF AnswersInv
<1>6. \A i \in Entry : ~changed[i]
  BY DEF Init, No
<1>7. DerivedInv
  BY <1>1, <1>6 DEF DerivedInv, DerivedInStep
<1>8. QED
  BY <1>5, <1>7

-----------------------------------------------------------------------------
(* The state of charge.                                                      *)
LEMMA SocStored ==
  ASSUME TypeOK, AnswersInv, SocInv, Store
  PROVE  /\ SocInv'
         /\ payload'[SocEntry] = <<0>> => payload[SocEntry] \in {<<>>, <<0>>, <<1>>, <<2>>}
<1> DEFINE e == SocEntry
           v == Value("soc")
<1>1. PICK k \in Keys : /\ rest[k] # <<>> /\ pc = "store"
                        /\ CacheIs(StoreResponseValue(Cache, k, Value(k), Took(k)))
  BY StorePick
<1>2. e \in Entry /\ With("soc") = {e} /\ Table[e].key = "soc" /\ Table[e].bit = NoBit
  BY SocEntryIs
<1>3. lastSoc \in -1..Full /\ Full \in Nat
  BY CacheAssumption DEF TypeOK, CacheAssumption
<1>4. /\ Took(k) \subseteq With(k)
      /\ payload'[e] = IF e \in Took(k)
                       THEN IF WrongZero(Cache, e, Value(k))
                            THEN <<lastSoc>> ELSE Rendered(e, Value(k))
                       ELSE payload[e]
      /\ lastSoc' = IF k # "soc" \/ \A i \in Took(k) : ~Changed(Cache, i, Value(k))
                    THEN lastSoc
                    ELSE IF \E i \in Took(k) : WrongZero(Cache, i, Value(k)) THEN lastSoc - 1
                    ELSE Value(k)
  BY <1>1, <1>2, StoreEffect DEF Pending
<1>5. CASE e \notin Took(k)
  <2>1. k # "soc" \/ Took(k) = {}
    BY <1>2, <1>4, <1>5
  <2>2. payload'[e] = payload[e] /\ lastSoc' = lastSoc
    BY <1>4, <1>5, <2>1
  <2>3. SocInv'
    BY <2>2 DEF SocInv
  <2>4. QED
    BY <2>2, <2>3
<1>6. CASE e \in Took(k)
  <2>1. k = "soc" /\ Took(k) = {e}
    BY <1>2, <1>4, <1>6 DEF With
  <2>2. v \in 0..Full
    BY <1>1, <2>1, SocValue
  <2>3. Rendered(e, v) = <<v>>
    BY <1>2 DEF Rendered
  <2>4. WrongZero(Cache, e, v) <=> v = 0 /\ Changed(Cache, e, v) /\ lastSoc > 1
    BY <1>2 DEF WrongZero, Cache
  <2> HIDE DEF v, e
  <2>5. CASE ~Changed(Cache, e, v)
    <3>1. payload[e] = <<v>>
      BY <2>3, <2>5 DEF Changed, Cache
    <3>2. payload'[e] = <<v>> /\ lastSoc' = lastSoc
      BY <1>4, <2>1, <2>3, <2>4, <2>5 DEF v
    <3>3. SocInv'
      BY <3>1, <3>2 DEF SocInv, e
    <3>4. QED
      BY <3>1, <3>2, <3>3 DEF e
  <2>6. CASE WrongZero(Cache, e, v)
    <3>1. payload'[e] = <<lastSoc>> /\ lastSoc' = lastSoc - 1 /\ lastSoc > 1
      BY <1>4, <2>1, <2>4, <2>6 DEF v
    <3>2. lastSoc = lastSoc' + 1 /\ lastSoc' >= 0 /\ lastSoc # 0
      BY <1>3, <3>1
    <3>3. payload'[e] # <<0>>
      BY <3>1, <3>2
    <3>4. SocInv'
      BY <3>1, <3>2 DEF SocInv, e
    <3>5. QED
      BY <3>3, <3>4 DEF e
  <2>7. CASE Changed(Cache, e, v) /\ ~WrongZero(Cache, e, v)
    <3>1. payload'[e] = <<v>> /\ lastSoc' = v
      BY <1>4, <2>1, <2>3, <2>7 DEF v
    <3>2. SocInv'
      BY <2>2, <3>1 DEF SocInv, e
    <3>3. payload[e] # <<>> => payload[e] \in {<<lastSoc>>, <<lastSoc + 1>>}
      BY DEF SocInv, e
    <3>4. v = 0 => lastSoc \in {0, 1} \/ payload[e] = <<>>
      BY <1>3, <2>4, <2>7 DEF SocInv, e
    <3>5. payload'[e] = <<0>> => v = 0
      BY <3>1
    <3>6. payload'[e] = <<0>> => payload[e] \in {<<>>, <<0>>, <<1>>, <<2>>}
      BY <3>3, <3>4, <3>5
    <3>7. QED
      BY <3>2, <3>6 DEF e
  <2>8. QED
    BY <2>4, <2>5, <2>6, <2>7
<1>7. QED
  BY <1>5, <1>6

LEMMA StepSoc ==
  TypeOK /\ AnswersInv /\ SocInv /\ [Next]_vars =>
    /\ SocInv'
    /\ payload'[SocEntry] = <<0>> => payload[SocEntry] \in {<<>>, <<0>>, <<1>>, <<2>>}
<1> SUFFICES ASSUME TypeOK, AnswersInv, SocInv, [Next]_vars
             PROVE  /\ SocInv'
                    /\ payload'[SocEntry] = <<0>>
                         => payload[SocEntry] \in {<<>>, <<0>>, <<1>>, <<2>>}
  OBVIOUS
<1> USE DEF bounds, cache
<1>1. ASSUME lastSoc' = lastSoc, payload'[SocEntry] = payload[SocEntry]
      PROVE  /\ SocInv'
             /\ payload'[SocEntry] = <<0>> => payload[SocEntry] \in {<<>>, <<0>>, <<1>>, <<2>>}
  BY <1>1 DEF SocInv
<1>2. CASE Store
  BY <1>2, SocStored
<1>3. CASE Request
  BY <1>1, <1>3, RequestEffect
<1>4. CASE Derive
  <2>1. lastSoc' = lastSoc /\ payload'[SocEntry] = payload[SocEntry]
    BY <1>4, DeriveEffect, SocEntryIs
  <2>2. QED
    BY <1>1, <2>1
<1>5. CASE Publish \/ PublishLosesLink \/ PublishWithoutLink
  <2>1. PICK sent \in SUBSET Due : EndCycle(sent)
    BY <1>5, Published
  <2>2. UNCHANGED <<payload, lastSoc>>
    BY <2>1 DEF EndCycle
  <2>3. QED
    BY <1>1, <2>2
<1>6. CASE Change \/ Answer \/ Break \/ LinkLost \/ ListenerReconnects \/ NoBroker
  <2>1. UNCHANGED <<payload, lastSoc>>
    BY <1>6 DEF Change, Answer, Break, LinkLost, ListenerReconnects, NoBroker
  <2>2. QED
    BY <1>1, <2>1
<1>7. CASE UNCHANGED vars
  <2>1. UNCHANGED <<payload, lastSoc>>
    BY <1>7 DEF vars
  <2>2. QED
    BY <1>1, <2>1
<1>8. QED
  BY <1>2, <1>3, <1>4, <1>5, <1>6, <1>7 DEF Next, Publication

-----------------------------------------------------------------------------
(* The results.                                                              *)
THEOREM CacheInductive == Spec => []CacheInv
<1>1. Init => CacheInv
  BY InitType, InitAnswers DEF CacheInv
<1>2. CacheInv /\ [Next]_vars => CacheInv'
  BY StepType, StepBroker, StepAnswers, StepDerived, StepSoc DEF CacheInv
<1>3. QED
  BY <1>1, <1>2, PTL DEF Spec

(* Every value of an answer is in the entry that it is for, and the broker   *)
(* shows every entry that is not marked as changed.                          *)
THEOREM CacheIsInStep == Spec => []CacheInStep
<1>1. CacheInv => CacheInStep
  <2>1. CacheInv /\ pc = "store" => AsAnswered
    BY DEF AsAnswered
  <2>2. QED
    BY <2>1 DEF CacheInv, AnswersInv, CacheInStep
<1>2. QED
  BY <1>1, CacheInductive, PTL

(* No cycle ends with a derived state at the broker that does not fit the    *)
(* values beside it.                                                         *)
THEOREM DerivedFits == Spec => []DerivedInStep
<1>1. CacheInv => DerivedInStep
  BY DEF CacheInv, DerivedInv
<1>2. QED
  BY <1>1, CacheInductive, PTL

(* A zero of the device never shows as an empty battery at once.             *)
THEOREM ZeroIsNeverFalse == Spec => NoFalseZero
<1>1. CacheInv /\ [Next]_vars
        => [payload'[SocEntry] = <<0>> => payload[SocEntry] \in {<<>>, <<0>>, <<1>>, <<2>>}]_vars
  BY StepSoc DEF CacheInv
<1>2. QED
  BY <1>1, CacheInductive, PTL DEF Spec, NoFalseZero

=============================================================================
