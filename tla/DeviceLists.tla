------------------------------ MODULE DeviceLists ------------------------------
(***************************************************************************)
(* The lists that the device answers with, item by item: idle periods of   *)
(* both versions and stored errors; the texts in which periods are         *)
(* published and set; and the publishing of the lists. IdlePeriods follows *)
(* the list of version 2 through time, here it is its form that counts.    *)
(* A text is a record of its fields, and a time in it is a pair.           *)
(***************************************************************************)
EXTENDS Integers, Sequences, SequencesExt

Word == <<"monday", "tuesday", "wednesday", "thursday", "friday", "saturday", "sunday", "today">>
TypeWord(type) == IF type = 1 THEN "discharge" ELSE "charge"
BoolWord(b) == IF b THEN "true" ELSE "false"

\* tm_wday counts from Sunday, the device from Monday.
Today(wday) == IF wday = 0 THEN 6 ELSE wday - 1

Minutes(t) == t[1] * 60 + t[2]

-----------------------------------------------------------------------------
(* handleSetIdlePeriod: the request for a text of version 1, or none.      *)
handleSetIdlePeriod(text, wday) ==
  LET day == (CHOOSE i \in 1..8 : Word[i] = text.day) - 1
  IN IF Minutes(text.from) >= Minutes(text.to) THEN <<>>
     ELSE <<[day |-> IF day = 7 THEN Today(wday) ELSE day,
             type |-> IF text.type = "discharge" THEN 1 ELSE 0,
             active |-> text.active = "true", from |-> text.from, to |-> text.to]>>

(* storeSetIdlePeriod2: the period for a text of version 2. The field of   *)
(* the days is searched for each word; bits are a set of numbers.          *)
storeSetIdlePeriod2(text, wday) ==
  LET bit(i) == IF i = 8 THEN Today(wday) ELSE i - 1
  IN IF Minutes(text.from) >= Minutes(text.to) THEN <<>>
     ELSE <<[name |-> IF text.name = "" THEN "?" ELSE text.name,
             weekdays |-> {bit(i) : i \in {j \in 1..8 : Word[j] \in text.days}},
             type |-> IF text.type = "discharge" THEN 1 ELSE 0, active |-> text.active = "true",
             start |-> Minutes(text.from) * 60, stop |-> Minutes(text.to) * 60]>>

-----------------------------------------------------------------------------
(* handleMQTTIdlePeriods and handleMQTTIdlePeriods2: the texts.            *)
Text1(e) ==
  [day |-> Word[e.day + 1], type |-> TypeWord(e.type), active |-> BoolWord(e.active),
   from |-> e.from, to |-> e.to]

Clock(s) == <<s \div 3600, (s \div 60) - ((s \div 3600) * 60)>>

Text2(e) ==
  [name |-> e.name, days |-> {Word[d + 1] : d \in e.weekdays}, type |-> TypeWord(e.type),
   active |-> BoolWord(e.active), from |-> Clock(e.start), to |-> Clock(e.stop)]

(* The list is published from its end, numbered from 1; the number of      *)
(* periods follows, here under 0, if it is not the one of the last time.   *)
Published(v, short, nr, lastNr) ==
  LET entry(i) == v[Len(v) + 1 - i]
      topic(i) == IF short THEN <<i>> ELSE <<entry(i).marker, i>>
  IN [i \in 1..Len(v) |-> [topic |-> topic(i), payload |-> entry(i)]]
     \o IF nr = lastNr THEN <<>> ELSE <<[topic |-> <<0>>, payload |-> nr]>>

(* handleMQTTErrorMessages: an error is published under two topics.        *)
PublishedErrors(v) ==
  FlattenSeq([i \in 1..Len(v) |->
    LET e == v[Len(v) + 1 - i]
    IN <<[topic |-> <<i, "meta">>, payload |-> [type |-> e.type, code |-> e.code,
                                                source |-> e.source]],
         [topic |-> <<i>>, payload |-> e.message]>>])

-----------------------------------------------------------------------------
(* TAG_EMS_IDLE_PERIOD: the items of one period, each [tag, value], in any *)
(* order; what is missing is 0.                                            *)
IdlePeriod(items) ==
  LET set(p, x) == IF x.tag \in {"day", "type", "active", "from", "to"}
                   THEN [p EXCEPT ![x.tag] = x.value] ELSE p
  IN FoldLeft(set, [day |-> 0, type |-> 0, active |-> FALSE, from |-> <<0, 0>>, to |-> <<0, 0>>],
              items)

(* TAG_EMS_ERROR_CONTAINER: the case of an item sets its own field and,    *)
(* without a break, those of the cases after it, from the same item. A     *)
(* field is known by the item it was set from.                             *)
ErrorField == <<"type", "source", "message", "code">>
StoredError(items) ==
  LET set(e, tag) ==
        LET at == CHOOSE i \in 1..4 : ErrorField[i] = tag
        IN [f \in {"type", "source", "message", "code"} |->
              IF \E i \in at..4 : ErrorField[i] = f THEN tag ELSE e[f]]
  IN FoldLeft(set, [f \in {"type", "source", "message", "code"} |-> "none"], items)

-----------------------------------------------------------------------------
Times == {<<0, 0>>, <<0, 5>>, <<9, 30>>, <<23, 59>>}
Before(a, b) == Minutes(a) < Minutes(b)
Period1 == [day : 0..6, type : {0, 1}, active : BOOLEAN, from : Times, to : Times]
Period2 == [name : {"a", "?"}, weekdays : SUBSET (0..6), type : {0, 1}, active : BOOLEAN,
            start : {Minutes(t) * 60 : t \in Times}, stop : {Minutes(t) * 60 : t \in Times}]

(* What is published can be sent back, and is the same period then: both   *)
(* versions, every day and set of days. Not a period over midnight, which  *)
(* is refused.                                                             *)
ASSUME TextsComeBack ==
  /\ \A p \in Period1 :
       handleSetIdlePeriod(Text1(p), 0) = IF Before(p.from, p.to) THEN <<p>> ELSE <<>>
  /\ \A p \in Period2 :
       storeSetIdlePeriod2(Text2(p), 0) = IF p.start < p.stop THEN <<p>> ELSE <<>>

(* today is the day of the week that it is, in both versions: seen from    *)
(* the device, where the week begins with Monday.                          *)
ASSUME TodayIsToday ==
  \A wday \in 0..6 :
    LET lock == [name |-> "l", day |-> "today", days |-> {"today"}, type |-> "charge",
                 active |-> "true", from |-> <<0, 0>>, to |-> <<23, 59>>]
        day == (wday + 6) % 7
    IN /\ handleSetIdlePeriod(lock, wday)[1].day = day
       /\ storeSetIdlePeriod2(lock, wday)[1].weekdays = {day}

(* With the short topics, the first <number> of them are the list of the   *)
(* device, however many lists were fetched before, and whether the broker  *)
(* was there in between (README.md: consider e3dc/idle_period/number).     *)
Shown(messages) ==
  FoldLeft(LAMBDA f, m : [t \in DOMAIN f \cup {m.topic} |->
                            IF t = m.topic THEN m.payload ELSE f[t]],
           [t \in {} |-> 0], messages)
NameLists == UNION {[1..n -> {"p", "q", "r"}] : n \in 0..3}

ASSUME ShortListRight ==
  \A before \in NameLists, now \in NameLists : before # <<>> /\ now # <<>> =>
    \A away \in BOOLEAN :
      LET first == Published(before, TRUE, Len(before), -1)
          messages == IF away THEN Published(before \o now, TRUE, Len(now), -1)
                      ELSE first \o Published(now, TRUE, Len(now), Len(before))
          shown == Shown(messages)
      IN /\ shown[<<0>>] = Len(now)
         /\ \A i \in 1..Len(now) : shown[<<i>>] = now[Len(now) + 1 - i]

(* An idle period is read the same in whatever order its items come, but a *)
(* stored error only in one: type, source, message, code. Any other order  *)
(* leaves a field that was set from an item of another kind.               *)
ASSUME ErrorsInOneOrder ==
  LET right == [f \in {"type", "source", "message", "code"} |-> f]
  IN \A items \in SetToSeqs({"type", "source", "message", "code"}) :
       StoredError(items) = right <=> items = ErrorField

ASSUME PeriodsInAnyOrder ==
  LET items == <<[tag |-> "day", value |-> 3], [tag |-> "type", value |-> 1],
                 [tag |-> "active", value |-> TRUE], [tag |-> "from", value |-> <<1, 2>>],
                 [tag |-> "to", value |-> <<3, 4>>]>>
  IN \A order \in SetToSeqs(1..5) :
       IdlePeriod([i \in 1..5 |-> items[order[i]]]) =
         [day |-> 3, type |-> 1, active |-> TRUE, from |-> <<1, 2>>, to |-> <<3, 4>>]

(* Both topics of every error are published, and each number is used once. *)
ASSUME ErrorsComplete ==
  \A n \in 0..3 :
    LET errors == [i \in 1..n |-> [type |-> i, code |-> i, source |-> i, message |-> i]]
        shown == Shown(PublishedErrors(errors))
    IN /\ Len(PublishedErrors(errors)) = 2 * n
       /\ \A i \in 1..n : shown[<<i>>] = n + 1 - i /\ shown[<<i, "meta">>].code = n + 1 - i

===============================================================================
