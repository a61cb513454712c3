----------------------------- MODULE WallboxDay -----------------------------
(***************************************************************************)
(* The energy a wallbox has charged today. The wallbox only has counters   *)
(* that run on for ever, so the program remembers what they showed at the  *)
(* beginning of the day (start) and publishes the difference. wb_stat      *)
(* helps it over counters that begin anew. A start value lives in the      *)
(* cache, which ends with the process; with RETAIN_FOR_SETUP it is also    *)
(* published as a retained message, dated, and read back in the third      *)
(* cycle of every session.                                                 *)
(*                                                                         *)
(* The broker is up and delivers to each subscriber in order; when, is     *)
(* open. What has come (mqttQ) and what is still on its way are one queue, *)
(* mail, and a session takes a part of it from the front. Each wallbox has *)
(* two counters, the total energy and its solar share.                     *)
(***************************************************************************)
EXTENDS Integers, Sequences, FiniteSets

CONSTANTS
  Wallboxes,       \* cfg.wb_number
  MaxMeter,        \* bound: energy of a counter
  MaxDays,         \* bound: number of days
  MaxTroubles      \* bound: sessions lost, restarts of the program and of the counters

ASSUME WallboxAssumption ==
  /\ Wallboxes \in Nat \ {0} /\ MaxMeter \in Nat \ {0} /\ MaxDays \in Nat \ {0}
  /\ MaxTroubles \in Nat

Total(i) == <<i, "total">>
Solar(i) == <<i, "solar">>
Meter == (1..Wallboxes) \X {"total", "solar"}
Zero == [m \in Meter |-> 0]
NoDay == 0         \* the date of a message that was never sent

VARIABLES
  storeSetup,      \* cfg.store_setup
  countdown,       \* of mainLoop: 3 at the begin of a session, then down to -1
  pc,              \* "request": createRequest is next; "answer": the answer is
  currDay, newDay, \* curr_day, new_day
  cell,            \* TAG_WB_ENERGY_ALL and TAG_WB_ENERGY_SOLAR of the cache
  start, day,      \* energy_start/... and energy/day/... of the cache
  add, seen,       \* wb_stat.day_add_... and wb_stat.day_...
  today,           \* the clock
  meter,           \* the counters of the wallboxes
  retained,        \* broker: the last message about each start value
  mail,            \* messages for the program, in mqttQ or on their way
  unread,          \* history: energy charged since the last values came
  charged,         \* history: energy charged today, and what was unread at midnight
  read,            \* history: this process has had values of the wallboxes
  blind,           \* history: a count has begun without values
  missed,          \* history: a day change was missed
  late,            \* history: a message did not come before the session after it
  troubles         \* history: what the bound is about

counts == <<start, day, add, seen>>
broker == <<retained, mail>>
history == <<read, blind, missed, late>>
vars == <<storeSetup, countdown, pc, currDay, newDay, cell, counts, today, meter, broker,
          unread, charged, history, troubles>>

Init ==
  /\ storeSetup \in BOOLEAN
  /\ countdown = 3 /\ pc = "request" /\ today = 1 /\ currDay = 1 /\ newDay = FALSE
  /\ cell = Zero /\ start = Zero /\ day = Zero /\ add = Zero /\ seen = Zero
  /\ meter = [m \in Meter |-> IF m[2] = "total" THEN 1 ELSE 0]   \* they have run before
  /\ retained = [m \in Meter |-> [date |-> NoDay, value |-> 0]] /\ mail = <<>>
  /\ unread = Zero /\ charged = Zero /\ read = FALSE
  /\ blind = FALSE /\ missed = FALSE /\ late = FALSE
  /\ troubles = 0

Trouble == troubles < MaxTroubles /\ troubles' = troubles + 1

-----------------------------------------------------------------------------
(* The wallboxes and the clock. When between two answers a counter moves   *)
(* makes no difference, so it does while an answer is awaited.             *)
Charge(i) ==
  \E sun \in {0, 1} :
    LET more == [m \in Meter |-> IF m = Total(i) THEN 1 ELSE IF m = Solar(i) THEN sun ELSE 0]
    IN /\ pc = "answer" /\ meter[Total(i)] < MaxMeter
       /\ meter' = [m \in Meter |-> meter[m] + more[m]]
       /\ unread' = [m \in Meter |-> unread[m] + more[m]]
       /\ charged' = [m \in Meter |-> charged[m] + more[m]]
       /\ UNCHANGED <<storeSetup, countdown, pc, currDay, newDay, cell, counts, today, broker,
                      history, troubles>>

(* The counters of a wallbox begin anew.                                   *)
CounterReset(i) ==
  /\ pc = "answer" /\ meter[Total(i)] > 0
  /\ Trouble
  /\ meter' = [m \in Meter |-> IF m[1] = i THEN 0 ELSE meter[m]]
  /\ UNCHANGED <<storeSetup, countdown, pc, currDay, newDay, cell, counts, today, broker,
                 unread, charged, history>>

Midnight ==
  /\ today < MaxDays
  /\ today' = today + 1
  /\ charged' = unread
  /\ UNCHANGED <<storeSetup, countdown, pc, currDay, newDay, cell, counts, meter, broker,
                 unread, history, troubles>>

-----------------------------------------------------------------------------
(* storeSetupItem for both counters of each wallbox, n times over.         *)
Message(v, m) == [meter |-> m, date |-> today, value |-> v[m]]
Sent(v, n) ==
  [k \in 1..(IF storeSetup THEN 2 * Wallboxes * n ELSE 0) |->
     LET i == (((k - 1) \div 2) % Wallboxes) + 1
     IN Message(v, IF k % 2 = 1 THEN Total(i) ELSE Solar(i))]

(* The broker keeps the last message about each counter, and sends them    *)
(* all back.                                                               *)
About(q, m) == {k \in DOMAIN q : q[k].meter = m}
LastOf(places) == CHOOSE i \in places : \A j \in places : j <= i
Kept(sent) ==
  [m \in Meter |-> LET mine == About(sent, m)
                       x == sent[LastOf(mine)]
                   IN IF mine = {} THEN retained[m] ELSE [date |-> x.date, value |-> x.value]]

Send(sent) == mail' = mail \o sent /\ retained' = Kept(sent)

(* wallboxDaily for a new day: every wallbox starts from its present       *)
(* values v.                                                               *)
Reset(v) ==
  /\ start' = v /\ day' = Zero /\ add' = Zero /\ seen' = Zero
  /\ Send(Sent(v, 1))

(* A value below the last one means that the counter has begun anew. Once  *)
(* one is corrected, wallboxDailyNull lets all the wallboxes start from    *)
(* their present values, again after each further wallbox; those that are  *)
(* counted after it show no difference.                                    *)
Behind(v, m) == v[m] - start[m] < seen[m]
Corrected(v, i) == \E m \in Meter : m[1] <= i /\ Behind(v, m)
Corrections(v) == Cardinality({i \in 1..Wallboxes : Corrected(v, i)})
Diff(v, m) == IF Corrected(v, m[1] - 1) THEN 0 ELSE v[m] - start[m]

(* Mutants: the difference as it is; a correction that forgets what was    *)
(* counted before.                                                         *)
CountOne_Plain(v, m) ==
  LET d == Diff(v, m)
  IN [day |-> add[m] + d, add |-> add[m], seen |-> IF d > 0 THEN d ELSE 0]

CountOne_Forgets(v, m) ==
  LET d == Diff(v, m)
  IN IF d >= seen[m] THEN [day |-> add[m] + d, add |-> add[m], seen |-> d]
     ELSE [day |-> day[m], add |-> add[m], seen |-> 0]

(* One counter: what it counted before is added from then on.              *)
CountOne(v, m) ==
  LET d == Diff(v, m)
  IN IF d >= seen[m] THEN [day |-> add[m] + d, add |-> add[m], seen |-> d]
     ELSE [day |-> day[m], add |-> add[m] + seen[m], seen |-> 0]

Daily(v) ==
  /\ day' = [m \in Meter |-> CountOne(v, m).day]
  /\ add' = [m \in Meter |-> CountOne(v, m).add]
  /\ seen' = [m \in Meter |-> CountOne(v, m).seen]
  /\ start' = IF Corrected(v, Wallboxes) THEN v ELSE start
  /\ Send(Sent(v, Corrections(v)))

(* setupItem for the messages q: those of this day count, and of them the  *)
(* last one about a counter.                                               *)
OfToday(q, m) == {k \in About(q, m) : q[k].date = today}
Restored(v, q) ==
  [m \in Meter |-> IF OfToday(q, m) = {} THEN v[m] ELSE q[LastOf(OfToday(q, m))].value]

-----------------------------------------------------------------------------
(* createRequest looks at the clock in every cycle, the authentication     *)
(* included.                                                               *)
CreateRequest ==
  /\ pc = "request"
  /\ pc' = "answer"
  /\ newDay' = (currDay # today)
  /\ currDay' = today
  /\ UNCHANGED <<storeSetup, countdown, cell, counts, today, meter, broker, unread, charged,
                 history, troubles>>

(* The answer: the first frame of a session only logs in, and any later    *)
(* one may lack the values of the wallboxes.                               *)
Received(v) ==
  /\ cell' = v
  /\ \/ v = cell /\ UNCHANGED <<read, unread>>
     \/ countdown < 3 /\ v = meter /\ read' = TRUE /\ unread' = Zero

Counting == \E m \in Meter : add[m] + seen[m] > 0

(* A cycle that is complete counts down, to -1 in the end.                 *)
CountedDown == IF countdown >= 0 THEN countdown - 1 ELSE countdown

(* The first two cycles of a session.                                      *)
EarlyCycle ==
  /\ pc = "answer" /\ countdown > 1
  /\ \E v \in {cell, meter} : Received(v)
  /\ countdown' = CountedDown
  /\ pc' = "request"
  /\ missed' = (missed \/ (newDay /\ Counting))
  /\ UNCHANGED <<storeSetup, currDay, newDay, counts, today, meter, broker, charged, blind, late,
                 troubles>>

(* The third cycle: start anew, then take what has come from the broker.   *)
Setup ==
  /\ pc = "answer" /\ countdown = 1
  /\ countdown' = CountedDown
  /\ pc' = "request"
  /\ \E v \in {cell, meter} :
       LET all == mail \o Sent(v, 1)
       IN /\ Received(v)
          /\ \E n \in 0..Len(all) :
               /\ start' = Restored(v, SubSeq(all, 1, n))
               /\ mail' = SubSeq(all, n + 1, Len(all))
               /\ late' = (late \/ n < Len(mail))
          /\ day' = Zero
          /\ retained' = Kept(Sent(v, 1))
  /\ blind' = (blind \/ ~read')
  /\ missed' = (missed \/ (newDay /\ Counting))
  /\ UNCHANGED <<storeSetup, currDay, newDay, add, seen, today, meter, charged, troubles>>

(* Every later cycle counts.                                               *)
Cycle ==
  /\ pc = "answer" /\ countdown <= 0
  /\ countdown' = CountedDown
  /\ pc' = "request"
  /\ \E v \in {cell, meter} :
       /\ Received(v)
       /\ IF newDay THEN Reset(v) ELSE Daily(v)
  /\ blind' = (blind \/ ~read')
  /\ missed' = (missed /\ ~newDay)
  /\ UNCHANGED <<storeSetup, currDay, newDay, today, meter, charged, late, troubles>>

(* The connection to the device breaks before the cycle is complete.       *)
Break ==
  /\ pc = "answer"
  /\ Trouble
  /\ \E v \in {cell, meter} : Received(v)
  /\ pc' = "request"
  /\ countdown' = 3
  /\ missed' = (missed \/ (newDay /\ Counting))
  /\ UNCHANGED <<storeSetup, currDay, newDay, counts, today, meter, broker, charged, blind, late>>

(* The sequences of all elements of a set.                                 *)
Orders(S) == {q \in [1..Cardinality(S) -> S] : \A j, k \in DOMAIN q : q[j] = q[k] => j = k}

(* The program is started again: everything in its memory is gone, and the *)
(* broker sends the retained messages, in an order of its own.             *)
Restart ==
  /\ Trouble
  /\ pc' = "request" /\ countdown' = 3 /\ currDay' = today /\ newDay' = FALSE
  /\ cell' = Zero /\ start' = Zero /\ day' = Zero /\ add' = Zero /\ seen' = Zero
  /\ \E q \in Orders({m \in Meter : retained[m].date # NoDay}) :
       mail' = [k \in DOMAIN q |-> [meter |-> q[k], date |-> retained[q[k]].date,
                                    value |-> retained[q[k]].value]]
  /\ read' = FALSE
  /\ UNCHANGED <<storeSetup, today, meter, retained, unread, charged, blind, missed, late>>

Next ==
  \/ \E i \in 1..Wallboxes : Charge(i) \/ CounterReset(i)
  \/ Midnight
  \/ CreateRequest \/ EarlyCycle \/ Setup \/ Cycle
  \/ Break \/ Restart

Spec == Init /\ [][Next]_vars

-----------------------------------------------------------------------------
TypeOK ==
  /\ storeSetup \in BOOLEAN /\ countdown \in -1..3 /\ pc \in {"request", "answer"}
  /\ today \in 1..MaxDays /\ currDay \in 1..MaxDays /\ newDay \in BOOLEAN
  /\ \A f \in {cell, start, seen, meter} : f \in [Meter -> 0..MaxMeter]
  /\ \A f \in {day, add} : f \in [Meter -> Int]
  /\ \A m \in Meter : retained[m].date \in 0..MaxDays /\ retained[m].value \in 0..MaxMeter
  /\ \A n \in DOMAIN mail : mail[n].meter \in Meter /\ mail[n].date \in 1..MaxDays

(* A day's energy is never negative (RELEASE.md:129, Issue #62), and never *)
(* more than was charged that day: whatever start value comes back after a *)
(* restart or a lost session, however the corrections of several counters  *)
(* follow upon each other. The second half has three conditions, each of   *)
(* them a weakness of the code: the wallboxes had answered before the      *)
(* third cycle (else the count begins at 0), no day change fell into the   *)
(* first three cycles of a session or one that broke (else yesterday's     *)
(* energy is counted on), and no message came later than the session after *)
(* it (else a start value from before a correction comes back).            *)
Plausible ==
  /\ \A m \in Meter : day[m] >= 0
  /\ ~blind /\ ~missed /\ ~late /\ currDay = today /\ ~newDay
       => \A m \in Meter : day[m] <= charged[m]

(* Once a session counts, a day's energy does not fall before the day is   *)
(* over, though the counters of the wallbox begin anew and start values    *)
(* are exchanged underneath.                                               *)
NeverFalls == [][Cycle /\ ~newDay => \A m \in Meter : day'[m] >= day[m]]_vars

(* Every counter is one that a wallbox can show, and every day's energy    *)
(* derived from them is plausible.                                         *)
DayInRange == TypeOK /\ Plausible

=============================================================================
