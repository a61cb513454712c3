-------------------------- MODULE WallboxDay_proofs --------------------------
(* Theorems about WallboxDay, for any number of wallboxes, energy, days,    *)
(* and troubles: the energy of a day is never negative and does not fall,   *)
(* and it is not more than was charged, under the conditions of Plausible.  *)
EXTENDS WallboxDay, FiniteSetTheorems, SequenceTheorems, WellFoundedInduction, TLAPS

(* Nothing has gone wrong that the published energy could be too high for:  *)
(* the conditions of Plausible, and a new day has been dealt with.          *)
Sound ==
  /\ ~blind /\ ~missed /\ ~late
  /\ currDay = today /\ (newDay => pc = "request")

(* A wallbox has less solar energy than energy; a message is dated when it  *)
(* was sent, and none is sent without RETAIN_FOR_SETUP.                     *)
InRange ==
  /\ \A i \in 1..Wallboxes : meter[Solar(i)] <= meter[Total(i)]
  /\ currDay <= today
  /\ \A m \in Meter : retained[m].date <= today
  /\ mail \in Seq([meter : Meter, date : 1..today, value : 0..MaxMeter])
  /\ ~storeSetup => mail = <<>> /\ \A m \in Meter : retained[m].date = NoDay

(* What is published of a counter is not more than what was counted.        *)
DayCounted == \A m \in Meter : 0 <= add[m] /\ 0 <= day[m] /\ day[m] <= add[m] + seen[m]

(* The values last received lag behind the counters by what is unread.      *)
(* Before the first values nothing is counted, or it is counted blindly.    *)
Lag ==
  /\ \A m \in Meter : /\ unread[m] \in Nat /\ charged[m] \in Nat /\ unread[m] <= charged[m]
                      /\ read => meter[m] - cell[m] <= unread[m]
                      /\ ~read => cell[m] = 0
  /\ ~read /\ ~blind => countdown > 0 /\ \A m \in Meter : add[m] = 0 /\ seen[m] = 0

(* A start value of today, wherever it is, counts no more energy than was   *)
(* charged today.                                                           *)
StartOfToday(m, x) ==
  cell[m] - x + unread[m] <= charged[m] /\ meter[m] - x <= charged[m]

StartsOK ==
  ~blind =>
    /\ \A m \in Meter : retained[m].date = today => StartOfToday(m, retained[m].value)
    /\ \A k \in DOMAIN mail : mail[k].date = today => StartOfToday(mail[k].meter, mail[k].value)

(* What was counted today, was charged today. So is what will be counted    *)
(* from the present start value, or from the one that is the last to come   *)
(* back from the broker.                                                    *)
CountsOK ==
  Sound =>
    \A m \in Meter :
      /\ add[m] + seen[m] + unread[m] <= charged[m]
      /\ countdown <= 0 => add[m] + cell[m] - start[m] + unread[m] <= charged[m]
      /\ \A k \in OfToday(mail, m) :
           (\A j \in OfToday(mail, m) : j <= k)
             => add[m] + cell[m] - mail[k].value + unread[m] <= charged[m]

DayInv == TypeOK /\ InRange /\ DayCounted /\ Lag /\ StartsOK /\ CountsOK

-----------------------------------------------------------------------------
(* The wallboxes' counters.                                                 *)
LEMMA MeterParts ==
  /\ \A i \in 1..Wallboxes : Total(i) \in Meter /\ Solar(i) \in Meter /\ Total(i) # Solar(i)
  /\ \A m \in Meter : /\ m[1] \in 1..Wallboxes /\ m = <<m[1], m[2]>>
                      /\ m = Total(m[1]) \/ m = Solar(m[1])
  /\ \A i, j \in 1..Wallboxes : /\ Total(i) = Total(j) => i = j
                                /\ Solar(i) = Solar(j) => i = j
                                /\ Total(i) # Solar(j)
  /\ \A i : Total(i)[1] = i /\ Solar(i)[1] = i
BY DEF Meter, Total, Solar

LEMMA ZeroParts == Zero \in [Meter -> {0}] /\ \A m \in Meter : Zero[m] = 0
BY DEF Zero

(* What the variables are, one by one.                                      *)
LEMMA Types ==
  ASSUME TypeOK
  PROVE  /\ \A m \in Meter : /\ cell[m] \in 0..MaxMeter /\ start[m] \in 0..MaxMeter
                             /\ seen[m] \in 0..MaxMeter /\ meter[m] \in 0..MaxMeter
                             /\ day[m] \in Int /\ add[m] \in Int
         /\ cell \in [Meter -> 0..MaxMeter] /\ start \in [Meter -> 0..MaxMeter]
         /\ seen \in [Meter -> 0..MaxMeter] /\ meter \in [Meter -> 0..MaxMeter]
         /\ day \in [Meter -> Int] /\ add \in [Meter -> Int]
BY DEF TypeOK

(* The messages about the start values v: each is of today, and if there is *)
(* any, there is one about each counter.                                    *)
LEMMA SentParts ==
  ASSUME NEW v \in [Meter -> 0..MaxMeter], NEW n \in Nat, today \in Nat, today >= 1
  PROVE  /\ Sent(v, n) \in Seq([meter : Meter, date : 1..today, value : 0..MaxMeter])
         /\ \A k \in DOMAIN Sent(v, n) :
              /\ Sent(v, n)[k].meter \in Meter /\ Sent(v, n)[k].date = today
              /\ Sent(v, n)[k].value = v[Sent(v, n)[k].meter]
         /\ DOMAIN Sent(v, n) = 1..Len(Sent(v, n)) /\ Len(Sent(v, n)) \in Nat
         /\ storeSetup /\ n # 0 => \A m \in Meter : About(Sent(v, n), m) # {}
         /\ ~storeSetup \/ n = 0 => Sent(v, n) = <<>>
<1> DEFINE N == IF storeSetup THEN 2 * Wallboxes * n ELSE 0
           Place(k) == (((k - 1) \div 2) % Wallboxes) + 1
           Which(k) == IF k % 2 = 1 THEN Total(Place(k)) ELSE Solar(Place(k))
           q == Sent(v, n)
<1>1. Wallboxes \in Nat \ {0} /\ N \in Nat
  BY WallboxAssumption
<1>2. ASSUME NEW k \in 1..N PROVE Place(k) \in 1..Wallboxes
  <2>1. k - 1 \in Nat
    BY <1>1
  <2>2. (k - 1) \div 2 \in Nat
    BY <2>1
  <2> DEFINE a == (k - 1) \div 2
  <2> HIDE DEF a
  <2>3. a % Wallboxes \in 0..(Wallboxes - 1)
    BY <1>1, <2>2 DEF a
  <2>4. (a % Wallboxes) + 1 \in 1..Wallboxes
    BY <1>1, <2>3
  <2>5. QED
    BY <2>4 DEF a
<1>3. \A k \in 1..N : Which(k) \in Meter
  BY <1>2, MeterParts
<1>4. q = [k \in 1..N |-> Message(v, Which(k))]
  BY DEF Sent
<1> HIDE DEF N, Which, q
<1>5. DOMAIN q = 1..N /\ Len(q) = N
  BY <1>1, <1>4
<1>6. \A k \in 1..N : q[k] = [meter |-> Which(k), date |-> today, value |-> v[Which(k)]]
  BY <1>4 DEF Message
<1>7. \A k \in 1..N : /\ q[k].meter = Which(k) /\ q[k].date = today
                      /\ q[k].value = v[Which(k)]
                      /\ q[k] \in [meter : Meter, date : 1..today, value : 0..MaxMeter]
  <2> SUFFICES ASSUME NEW k \in 1..N
               PROVE  /\ q[k].meter = Which(k) /\ q[k].date = today
                      /\ q[k].value = v[Which(k)]
                      /\ q[k] \in [meter : Meter, date : 1..today, value : 0..MaxMeter]
    OBVIOUS
  <2> DEFINE m == Which(k)
  <2>1. m \in Meter /\ q[k] = [meter |-> m, date |-> today, value |-> v[m]]
    BY <1>3, <1>6
  <2> HIDE DEF m
  <2>2. v[m] \in 0..MaxMeter /\ today \in 1..today
    BY <2>1
  <2>3. [meter |-> m, date |-> today, value |-> v[m]]
          \in [meter : Meter, date : 1..today, value : 0..MaxMeter]
    BY <2>1, <2>2
  <2>4. q[k].meter = m /\ q[k].date = today /\ q[k].value = v[m]
    BY <2>1
  <2>5. QED
    BY <2>1, <2>3, <2>4 DEF m
<1>8. q \in Seq([meter : Meter, date : 1..today, value : 0..MaxMeter])
  BY <1>1, <1>4, <1>5, <1>7
<1>9. storeSetup /\ n # 0 => \A m \in Meter : About(q, m) # {}
  <2> SUFFICES ASSUME storeSetup, n # 0, NEW m \in Meter PROVE About(q, m) # {}
    OBVIOUS
  <2> DEFINE i == m[1]
             a == i - 1
  <2>1. i \in 1..Wallboxes /\ a \in 0..(Wallboxes - 1) /\ a \in Nat /\ a + 1 = i
    BY <1>1, MeterParts
  <2>2. N = 2 * Wallboxes * n /\ N >= 2 * Wallboxes
    BY <1>1 DEF N
  <2> HIDE DEF i, a
  <2>3. /\ 2 * a + 1 \in 1..N /\ 2 * a + 2 \in 1..N
    BY <1>1, <2>1, <2>2
  <2>4. a % Wallboxes = a
    BY <1>1, <2>1
  <2>5. Place(2 * a + 1) = i
    <3>1. ((2 * a + 1) - 1) \div 2 = a
      BY <2>1
    <3>2. QED
      BY <2>1, <2>4, <3>1
  <2>6. Place(2 * a + 2) = i
    <3>1. ((2 * a + 2) - 1) \div 2 = a
      BY <2>1
    <3>2. QED
      BY <2>1, <2>4, <3>1
  <2>7. (2 * a + 1) % 2 = 1 /\ (2 * a + 2) % 2 # 1
    BY <2>1
  <2>8. Which(2 * a + 1) = Total(i) /\ Which(2 * a + 2) = Solar(i)
    BY <2>5, <2>6, <2>7 DEF Which
  <2>9. m = Total(i) \/ m = Solar(i)
    BY MeterParts DEF i
  <2>10. \E k \in 1..N : q[k].meter = m
    BY <1>7, <2>3, <2>8, <2>9
  <2>11. QED
    BY <1>5, <2>10 DEF About
<1>10. ~storeSetup \/ n = 0 => q = <<>>
  <2>1. ~storeSetup \/ n = 0 => N = 0
    BY <1>1 DEF N
  <2>2. N = 0 => q = <<>>
    BY <1>5, <1>8, EmptySeq
  <2>3. QED
    BY <2>1, <2>2
<1>11. QED
  BY <1>1, <1>3, <1>5, <1>7, <1>8, <1>9, <1>10 DEF q
(* The last of some places is the one that no other is after.               *)
LEMMA LastIs ==
  ASSUME NEW S, S \subseteq Nat, NEW i \in S, \A j \in S : j <= i
  PROVE  LastOf(S) = i
<1>1. LastOf(S) \in S /\ \A j \in S : j <= LastOf(S)
  BY DEF LastOf
<1>2. LastOf(S) <= i /\ i <= LastOf(S)
  BY <1>1
<1>3. LastOf(S) \in Nat /\ i \in Nat
  BY <1>1
<1>4. QED
  BY <1>2, <1>3

(* Places in a frame have a last one.                                       *)
LEMMA LastExists ==
  ASSUME NEW n \in Nat, NEW S, S \subseteq 1..n, S # {}
  PROVE  LastOf(S) \in S /\ \A j \in S : j <= LastOf(S)
<1> DEFINE R == OpToRel(<, Nat)
           T == {n - i : i \in S}
<1>a. \A i \in S : i \in Nat /\ n - i \in Nat
  OBVIOUS
<1>1. T \subseteq Nat /\ T # {}
  BY <1>a
<1>2. PICK m \in T : \A k \in T : ~ (<<k, m>> \in R)
  BY <1>1, WFMin, NatLessThanWellFounded
<1>3. PICK i \in S : m = n - i
  BY <1>2
<1>4. \A k \in T : <<k, m>> \in R <=> k < m
  BY <1>1 DEF OpToRel
<1>5. \A j \in S : j <= i
  <2> SUFFICES ASSUME NEW j \in S PROVE j <= i
    OBVIOUS
  <2>1. n - j \in T
    OBVIOUS
  <2>2. ~ (n - j < m)
    BY <2>1, <1>2, <1>4
  <2>3. n - j \in Nat /\ i \in Nat /\ j \in Nat
    OBVIOUS
  <2>4. QED
    BY <2>2, <2>3, <1>3
<1>6. LastOf(S) = i
  BY <1>5, <1>a, LastIs
<1>7. QED
  BY <1>5, <1>6

(* What the broker keeps after messages about the start values v.           *)
LEMMA KeptParts ==
  ASSUME NEW v \in [Meter -> 0..MaxMeter], NEW n \in Nat, today \in Nat, today >= 1,
         NEW m \in Meter
  PROVE  LET k == Kept(Sent(v, n))
         IN k[m] = retained[m] \/ (k[m].date = today /\ k[m].value = v[m])
<1> DEFINE q == Sent(v, n)
           mine == About(q, m)
<1>1. /\ \A k \in DOMAIN q : q[k].date = today /\ q[k].value = v[q[k].meter]
      /\ DOMAIN q = 1..Len(q) /\ Len(q) \in Nat
  BY SentParts
<1> HIDE DEF q
<1>2. mine \subseteq 1..Len(q) /\ \A k \in mine : q[k].meter = m
  BY <1>1 DEF About
<1> HIDE DEF mine
<1>3. mine # {} => LastOf(mine) \in mine
  BY <1>1, <1>2, LastExists
<1>4. mine # {} => q[LastOf(mine)].date = today /\ q[LastOf(mine)].value = v[m]
  BY <1>1, <1>2, <1>3
<1>5. Kept(q)[m] = IF mine = {} THEN retained[m]
                   ELSE [date |-> q[LastOf(mine)].date, value |-> q[LastOf(mine)].value]
  BY DEF Kept, mine
<1>6. QED
  BY <1>4, <1>5 DEF q

(* Messages of this day in a queue.                                         *)
LEMMA OfTodayParts ==
  ASSUME NEW D, NEW q \in Seq([meter : Meter, date : D, value : 0..MaxMeter]), NEW m
  PROVE  /\ OfToday(q, m) \subseteq 1..Len(q) /\ Len(q) \in Nat /\ DOMAIN q = 1..Len(q)
         /\ \A k \in 1..Len(q) : k \in OfToday(q, m) <=> q[k].meter = m /\ q[k].date = today
         /\ \A k \in 1..Len(q) : q[k].meter \in Meter /\ q[k].date \in D
                                 /\ q[k].value \in 0..MaxMeter
<1>1. Len(q) \in Nat /\ DOMAIN q = 1..Len(q)
  OBVIOUS
<1>2. \A k \in 1..Len(q) : q[k] \in [meter : Meter, date : D, value : 0..MaxMeter]
  BY ElementOfSeq
<1>3. \A k \in 1..Len(q) : q[k].meter \in Meter /\ q[k].date \in D /\ q[k].value \in 0..MaxMeter
  <2> SUFFICES ASSUME NEW k \in 1..Len(q)
               PROVE  q[k].meter \in Meter /\ q[k].date \in D /\ q[k].value \in 0..MaxMeter
    OBVIOUS
  <2> DEFINE x == q[k]
  <2>1. x \in [meter : Meter, date : D, value : 0..MaxMeter]
    BY <1>2
  <2> HIDE DEF x
  <2>2. x.meter \in Meter /\ x.date \in D /\ x.value \in 0..MaxMeter
    BY <2>1
  <2>3. QED
    BY <2>2 DEF x
<1>4. \A k : k \in OfToday(q, m) <=> k \in 1..Len(q) /\ q[k].meter = m /\ q[k].date = today
  BY <1>1 DEF OfToday, About
<1>5. QED
  BY <1>1, <1>3, <1>4

(* The start value that comes back, of a counter.                           *)
LEMMA RestoredParts ==
  ASSUME NEW D, NEW q \in Seq([meter : Meter, date : D, value : 0..MaxMeter]),
         NEW v \in [Meter -> 0..MaxMeter]
  PROVE  /\ Restored(v, q) \in [Meter -> 0..MaxMeter]
         /\ \A m \in Meter :
              \/ OfToday(q, m) = {} /\ Restored(v, q)[m] = v[m]
              \/ \E k \in OfToday(q, m) : /\ \A j \in OfToday(q, m) : j <= k
                                          /\ Restored(v, q)[m] = q[k].value
<1>1. ASSUME NEW m \in Meter
      PROVE  \/ OfToday(q, m) = {} /\ Restored(v, q)[m] = v[m]
             \/ \E k \in OfToday(q, m) : /\ \A j \in OfToday(q, m) : j <= k
                                         /\ Restored(v, q)[m] = q[k].value
  <2> DEFINE S == OfToday(q, m)
  <2>1. Restored(v, q)[m] = IF S = {} THEN v[m] ELSE q[LastOf(S)].value
    BY DEF Restored
  <2>2. S \subseteq 1..Len(q) /\ Len(q) \in Nat
    BY OfTodayParts
  <2> HIDE DEF S
  <2>3. S # {} => LastOf(S) \in S /\ \A j \in S : j <= LastOf(S)
    BY <2>2, LastExists
  <2>4. QED
    BY <2>1, <2>3 DEF S
<1>2. \A m \in Meter : \A k \in OfToday(q, m) : q[k].value \in 0..MaxMeter
  BY OfTodayParts
<1>3. \A m \in Meter : Restored(v, q)[m] \in 0..MaxMeter
  BY <1>1, <1>2
<1>4. Restored(v, q) = [m \in Meter |-> Restored(v, q)[m]]
  BY DEF Restored
<1>5. QED
  BY <1>1, <1>3, <1>4

(* The values v that have come: whatever counted no more than was charged,  *)
(* with those unread, still does.                                           *)
LEMMA ReceivedParts ==
  ASSUME DayInv, NEW v \in {cell, meter}, Received(v)
  PROVE  /\ v \in [Meter -> 0..MaxMeter] /\ cell' = v
         /\ \A m \in Meter :
              /\ v[m] \in 0..MaxMeter
              /\ unread'[m] \in Nat /\ unread'[m] <= unread[m] /\ unread'[m] <= charged[m]
              /\ read' => meter[m] - v[m] <= unread'[m]
              /\ ~read' => v[m] = 0
              /\ read => v[m] + unread'[m] <= cell[m] + unread[m]
              /\ \A x \in Int : StartOfToday(m, x) => v[m] - x + unread'[m] <= charged[m]
         /\ read => read'
         /\ read' \in BOOLEAN \/ read' = read
<1>1. /\ cell \in [Meter -> 0..MaxMeter] /\ meter \in [Meter -> 0..MaxMeter] /\ cell' = v
      /\ \A m \in Meter : cell[m] \in 0..MaxMeter /\ meter[m] \in 0..MaxMeter
  BY Types DEF DayInv, Received
<1>2. \A m \in Meter : /\ unread[m] \in Nat /\ charged[m] \in Nat /\ unread[m] <= charged[m]
                       /\ read => meter[m] - cell[m] <= unread[m]
                       /\ ~read => cell[m] = 0
  BY DEF DayInv, Lag
<1>3. CASE v = cell /\ UNCHANGED <<read, unread>>
  <2> SUFFICES ASSUME NEW m \in Meter
               PROVE  /\ v[m] \in 0..MaxMeter
                      /\ unread'[m] \in Nat /\ unread'[m] <= unread[m] /\ unread'[m] <= charged[m]
                      /\ read' => meter[m] - v[m] <= unread'[m]
                      /\ ~read' => v[m] = 0
                      /\ read => v[m] + unread'[m] <= cell[m] + unread[m]
                      /\ \A x \in Int : StartOfToday(m, x) => v[m] - x + unread'[m] <= charged[m]
    BY <1>1, <1>3
  <2>1. \A x \in Int : StartOfToday(m, x) => v[m] - x + unread'[m] <= charged[m]
    BY <1>3 DEF StartOfToday
  <2>2. QED
    BY <1>1, <1>2, <1>3, <2>1
<1>4. CASE v = meter /\ read' = TRUE /\ unread' = Zero
  <2> SUFFICES ASSUME NEW m \in Meter
               PROVE  /\ v[m] \in 0..MaxMeter
                      /\ unread'[m] \in Nat /\ unread'[m] <= unread[m] /\ unread'[m] <= charged[m]
                      /\ read' => meter[m] - v[m] <= unread'[m]
                      /\ ~read' => v[m] = 0
                      /\ read => v[m] + unread'[m] <= cell[m] + unread[m]
                      /\ \A x \in Int : StartOfToday(m, x) => v[m] - x + unread'[m] <= charged[m]
    BY <1>1, <1>4
  <2>1. unread'[m] = 0
    BY <1>4, ZeroParts
  <2>2. v[m] = meter[m] /\ meter[m] \in 0..MaxMeter
    BY <1>1, <1>4
  <2>3. \A x \in Int : StartOfToday(m, x) => v[m] - x + unread'[m] <= charged[m]
    BY <1>1, <1>2, <2>1, <2>2 DEF StartOfToday
  <2>4. /\ meter[m] - v[m] <= unread'[m] /\ unread'[m] <= unread[m]
        /\ read => v[m] + unread'[m] <= cell[m] + unread[m]
    BY <1>1, <1>2, <2>1, <2>2
  <2>5. QED
    BY <1>2, <1>4, <2>1, <2>2, <2>3, <2>4
<1>5. QED
  BY <1>3, <1>4 DEF Received

-----------------------------------------------------------------------------
(* The messages on their way, and those the broker keeps.                   *)
LEMMA MailParts ==
  ASSUME DayInv
  PROVE  /\ Len(mail) \in Nat /\ DOMAIN mail = 1..Len(mail)
         /\ \A k \in DOMAIN mail : /\ mail[k].meter \in Meter /\ mail[k].date \in 1..today
                                   /\ mail[k].value \in 0..MaxMeter
         /\ \A m : \A k \in OfToday(mail, m) :
              k \in DOMAIN mail /\ k \in Nat /\ mail[k].meter = m /\ mail[k].date = today
         /\ today \in Nat /\ today >= 1 /\ today <= MaxDays
<1>1. mail \in Seq([meter : Meter, date : 1..today, value : 0..MaxMeter])
  BY DEF DayInv, InRange
<1>2. today \in Nat /\ today >= 1 /\ today <= MaxDays
  BY WallboxAssumption DEF DayInv, TypeOK
<1>3. /\ Len(mail) \in Nat /\ DOMAIN mail = 1..Len(mail)
      /\ \A k \in 1..Len(mail) : /\ mail[k].meter \in Meter /\ mail[k].date \in 1..today
                                 /\ mail[k].value \in 0..MaxMeter
  BY <1>1, OfTodayParts
<1>4. ASSUME NEW m, NEW k \in OfToday(mail, m)
      PROVE  k \in DOMAIN mail /\ k \in Nat /\ mail[k].meter = m /\ mail[k].date = today
  BY <1>3 DEF OfToday, About
<1>5. QED
  BY <1>2, <1>3, <1>4

LEMMA InitDay == Init => DayInv
<1> SUFFICES ASSUME Init PROVE DayInv
  OBVIOUS
<1>1. /\ storeSetup \in BOOLEAN /\ countdown = 3 /\ pc = "request" /\ today = 1 /\ currDay = 1
      /\ newDay = FALSE /\ cell = Zero /\ start = Zero /\ day = Zero /\ add = Zero /\ seen = Zero
      /\ mail = <<>> /\ unread = Zero /\ charged = Zero /\ read = FALSE
      /\ meter = [m \in Meter |-> IF m[2] = "total" THEN 1 ELSE 0]
      /\ retained = [m \in Meter |-> [date |-> NoDay, value |-> 0]]
  BY DEF Init
<1>2. \A m \in Meter : meter[m] = IF m[2] = "total" THEN 1 ELSE 0
  BY <1>1
<1>a. \A m \in Meter : retained[m].date = 0 /\ retained[m].value = 0
  BY <1>1 DEF NoDay
<1>3. \A m \in Meter : cell[m] = 0 /\ start[m] = 0 /\ day[m] = 0 /\ add[m] = 0 /\ seen[m] = 0
                       /\ unread[m] = 0 /\ charged[m] = 0
  BY <1>1, ZeroParts
<1>4. TypeOK
  <2>1. /\ cell \in [Meter -> 0..MaxMeter] /\ start \in [Meter -> 0..MaxMeter]
        /\ seen \in [Meter -> 0..MaxMeter] /\ day \in [Meter -> Int] /\ add \in [Meter -> Int]
    BY <1>1, WallboxAssumption DEF Zero
  <2>2. meter \in [Meter -> 0..MaxMeter]
    BY <1>1, WallboxAssumption
  <2>3. \A m \in Meter : retained[m].date \in 0..MaxDays /\ retained[m].value \in 0..MaxMeter
    BY <1>a, WallboxAssumption
  <2>4. \A n \in DOMAIN mail : mail[n].meter \in Meter /\ mail[n].date \in 1..MaxDays
    BY <1>1
  <2>5. today \in 1..MaxDays /\ currDay \in 1..MaxDays
    BY <1>1, WallboxAssumption
  <2>6. /\ storeSetup \in BOOLEAN /\ countdown \in -1..3 /\ pc \in {"request", "answer"}
        /\ newDay \in BOOLEAN
    <3>1. 3 \in -1..3
      OBVIOUS
    <3>2. FALSE \in BOOLEAN
      OBVIOUS
    <3>3. QED
      BY <1>1, <3>1, <3>2, Zenon
  <2>7. QED
    BY <2>1, <2>2, <2>3, <2>4, <2>5, <2>6 DEF TypeOK
<1>5. InRange
  <2>1. \A i \in 1..Wallboxes : meter[Solar(i)] <= meter[Total(i)]
    <3>1. \A i \in 1..Wallboxes : Total(i)[2] = "total" /\ Solar(i)[2] = "solar"
      BY DEF Total, Solar
    <3>2. \A i \in 1..Wallboxes : meter[Solar(i)] = 0 /\ meter[Total(i)] = 1
      BY <1>2, <3>1, MeterParts
    <3>3. QED
      BY <3>2
  <2>2. mail \in Seq([meter : Meter, date : 1..today, value : 0..MaxMeter])
    BY <1>1
  <2>3. QED
    BY <1>1, <1>a, <2>1, <2>2 DEF InRange, NoDay
<1>6. DayCounted
  BY <1>3 DEF DayCounted
<1>7. Lag
  BY <1>1, <1>3 DEF Lag
<1>8. StartsOK
  BY <1>1, <1>a DEF StartsOK
<1>9. CountsOK
  <2>1. \A m : OfToday(mail, m) = {}
    BY <1>1 DEF OfToday, About
  <2>2. QED
    BY <1>1, <1>3, <2>1 DEF CountsOK
<1>10. QED
  BY <1>4, <1>5, <1>6, <1>7, <1>8, <1>9 DEF DayInv

(* Charging: the counter, what is unread and what was charged go up.        *)
LEMMA DayCharge == ASSUME DayInv, NEW i \in 1..Wallboxes, Charge(i) PROVE DayInv'
<1>1. PICK sun \in {0, 1} :
        LET more == [m \in Meter |-> IF m = Total(i) THEN 1 ELSE IF m = Solar(i) THEN sun ELSE 0]
        IN /\ meter[Total(i)] < MaxMeter
           /\ meter' = [m \in Meter |-> meter[m] + more[m]]
           /\ unread' = [m \in Meter |-> unread[m] + more[m]]
           /\ charged' = [m \in Meter |-> charged[m] + more[m]]
  BY DEF Charge
<1> DEFINE More(m) == IF m = Total(i) THEN 1 ELSE IF m = Solar(i) THEN sun ELSE 0
<1>2. \A m \in Meter : /\ meter'[m] = meter[m] + More(m) /\ unread'[m] = unread[m] + More(m)
                       /\ charged'[m] = charged[m] + More(m)
                       /\ More(m) \in {0, 1}
  BY <1>1
<1>3. /\ More(Total(i)) = 1 /\ More(Solar(i)) = sun
      /\ \A j \in 1..Wallboxes : j # i => More(Total(j)) = 0 /\ More(Solar(j)) = 0
  BY MeterParts
<1>4. UNCHANGED <<storeSetup, countdown, pc, currDay, newDay, cell, start, day, add, seen, today,
                  retained, mail, read, blind, missed, late>>
  BY DEF Charge, counts, broker, history
<1>5. \A m \in Meter : /\ cell[m] \in 0..MaxMeter /\ start[m] \in 0..MaxMeter
                       /\ seen[m] \in 0..MaxMeter /\ meter[m] \in 0..MaxMeter
                       /\ day[m] \in Int /\ add[m] \in Int
  BY Types DEF DayInv
<1>6. \A m \in Meter : /\ unread[m] \in Nat /\ charged[m] \in Nat /\ unread[m] <= charged[m]
                       /\ read => meter[m] - cell[m] <= unread[m]
                       /\ ~read => cell[m] = 0
  BY DEF DayInv, Lag
<1> HIDE DEF More
<1>7. \A j \in 1..Wallboxes : meter'[Solar(j)] <= meter'[Total(j)]
  <2> SUFFICES ASSUME NEW j \in 1..Wallboxes PROVE meter'[Solar(j)] <= meter'[Total(j)]
    OBVIOUS
  <2>1. Solar(j) \in Meter /\ Total(j) \in Meter
    BY MeterParts
  <2>2. meter[Solar(j)] <= meter[Total(j)]
    BY DEF DayInv, InRange
  <2>3. More(Solar(j)) <= More(Total(j))
    BY <1>3
  <2>4. QED
    BY <1>2, <1>5, <2>1, <2>2, <2>3
<1>8. \A m \in Meter : meter'[m] \in 0..MaxMeter
  <2>1. \A j \in 1..Wallboxes : meter'[Total(j)] \in 0..MaxMeter
    <3> SUFFICES ASSUME NEW j \in 1..Wallboxes PROVE meter'[Total(j)] \in 0..MaxMeter
      OBVIOUS
    <3>1. Total(j) \in Meter
      BY MeterParts
    <3>2. CASE j = i
      BY <1>1, <1>2, <1>3, <1>5, <3>1, <3>2, WallboxAssumption
    <3>3. CASE j # i
      BY <1>2, <1>3, <1>5, <3>1, <3>3
    <3>4. QED
      BY <3>2, <3>3
  <2>2. \A j \in 1..Wallboxes : meter'[Solar(j)] \in 0..MaxMeter
    <3> SUFFICES ASSUME NEW j \in 1..Wallboxes PROVE meter'[Solar(j)] \in 0..MaxMeter
      OBVIOUS
    <3>1. Solar(j) \in Meter /\ meter'[Solar(j)] <= meter'[Total(j)]
      BY <1>7, MeterParts
    <3>2. meter'[Solar(j)] \in Nat
      BY <1>2, <1>5, <3>1
    <3>3. QED
      BY <2>1, <3>1, <3>2, WallboxAssumption
  <2>3. QED
    BY <2>1, <2>2, MeterParts
<1>9. TypeOK'
  <2>1. meter' \in [Meter -> 0..MaxMeter]
    BY <1>1, <1>8
  <2>2. QED
    BY <1>4, <2>1 DEF DayInv, TypeOK
<1>10. InRange'
  BY <1>4, <1>7 DEF DayInv, InRange
<1>11. DayCounted'
  BY <1>4 DEF DayInv, DayCounted
<1>12. Lag'
  <2>1. ~read /\ ~blind => countdown > 0 /\ \A m \in Meter : add[m] = 0 /\ seen[m] = 0
    BY DEF DayInv, Lag
  <2>2. \A m \in Meter : /\ unread'[m] \in Nat /\ charged'[m] \in Nat
                         /\ unread'[m] <= charged'[m]
                         /\ read => meter'[m] - cell[m] <= unread'[m]
    BY <1>2, <1>5, <1>6
  <2>3. QED
    BY <1>4, <1>6, <2>1, <2>2 DEF Lag
<1>13. StartsOK'
  <2>1. \A m \in Meter : \A x \in Int : StartOfToday(m, x) => StartOfToday(m, x)'
    BY <1>2, <1>4, <1>5, <1>6 DEF StartOfToday
  <2>2. \A m \in Meter : retained[m].value \in Int
    BY DEF DayInv, TypeOK
  <2>3. \A k \in DOMAIN mail : mail[k].meter \in Meter /\ mail[k].value \in Int
    BY MailParts
  <2>4. QED
    BY <1>4, <2>1, <2>2, <2>3 DEF DayInv, StartsOK
<1>14. CountsOK'
  <2> SUFFICES ASSUME Sound', NEW m \in Meter
               PROVE  /\ add'[m] + seen'[m] + unread'[m] <= charged'[m]
                      /\ countdown' <= 0 =>
                           add'[m] + cell'[m] - start'[m] + unread'[m] <= charged'[m]
                      /\ \A k \in OfToday(mail, m)' :
                           (\A j \in OfToday(mail, m)' : j <= k)
                             => add'[m] + cell'[m] - mail'[k].value + unread'[m] <= charged'[m]
    BY DEF CountsOK
  <2>1. Sound
    BY <1>4 DEF Sound
  <2>2. OfToday(mail, m)' = OfToday(mail, m)
    BY <1>4 DEF OfToday, About
  <2>3. \A k \in OfToday(mail, m) : mail[k].value \in Int
    BY MailParts
  <2>4. /\ add[m] + seen[m] + unread[m] <= charged[m]
        /\ countdown <= 0 => add[m] + cell[m] - start[m] + unread[m] <= charged[m]
        /\ \A k \in OfToday(mail, m) :
             (\A j \in OfToday(mail, m) : j <= k)
               => add[m] + cell[m] - mail[k].value + unread[m] <= charged[m]
    BY <2>1 DEF DayInv, CountsOK
  <2>5. QED
    BY <1>2, <1>4, <1>5, <1>6, <2>2, <2>3, <2>4
<1>15. QED
  BY <1>9, <1>10, <1>11, <1>12, <1>13, <1>14 DEF DayInv

(* A counter that begins anew shows less.                                   *)
LEMMA DayCounterReset ==
  ASSUME DayInv, NEW i \in 1..Wallboxes, CounterReset(i)
  PROVE  DayInv'
<1>1. /\ meter' = [m \in Meter |-> IF m[1] = i THEN 0 ELSE meter[m]]
      /\ UNCHANGED <<storeSetup, countdown, pc, currDay, newDay, cell, start, day, add, seen, today,
                     retained, mail, unread, charged, read, blind, missed, late>>
  BY DEF CounterReset, counts, broker, history
<1>2. \A m \in Meter : cell[m] \in 0..MaxMeter /\ meter[m] \in 0..MaxMeter
  BY Types DEF DayInv
<1>3. \A m \in Meter : meter'[m] \in 0..MaxMeter /\ meter'[m] <= meter[m]
  BY <1>1, <1>2, WallboxAssumption
<1>4. TypeOK'
  <2>1. meter' \in [Meter -> 0..MaxMeter]
    BY <1>1, <1>3
  <2>2. QED
    BY <1>1, <2>1 DEF DayInv, TypeOK
<1>5. InRange'
  <2>1. \A j \in 1..Wallboxes : meter'[Solar(j)] <= meter'[Total(j)]
    BY <1>1, MeterParts DEF DayInv, InRange
  <2>2. QED
    BY <1>1, <2>1 DEF DayInv, InRange
<1>6. DayCounted'
  BY <1>1 DEF DayInv, DayCounted
<1>7. Lag'
  <2>1. \A m \in Meter : unread[m] \in Nat /\ (read => meter'[m] - cell[m] <= unread[m])
    BY <1>2, <1>3 DEF DayInv, Lag
  <2>2. QED
    BY <1>1, <2>1 DEF DayInv, Lag
<1>8. StartsOK'
  <2>1. \A m \in Meter : charged[m] \in Nat
    BY DEF DayInv, Lag
  <2>2. \A m \in Meter : \A x \in Int : StartOfToday(m, x) => StartOfToday(m, x)'
    BY <1>1, <1>2, <1>3, <2>1 DEF StartOfToday
  <2>3. \A m \in Meter : retained[m].value \in Int
    BY DEF DayInv, TypeOK
  <2>4. \A k \in DOMAIN mail : mail[k].meter \in Meter /\ mail[k].value \in Int
    BY MailParts
  <2>5. QED
    BY <1>1, <2>2, <2>3, <2>4 DEF DayInv, StartsOK
<1>9. CountsOK'
  BY <1>1 DEF DayInv, CountsOK, Sound, OfToday, About
<1>10. QED
  BY <1>4, <1>5, <1>6, <1>7, <1>8, <1>9 DEF DayInv

(* At midnight nothing is of today, and createRequest has not noticed yet.  *)
LEMMA DayMidnight == ASSUME DayInv, Midnight PROVE DayInv'
<1>1. /\ today < MaxDays /\ today' = today + 1 /\ charged' = unread
      /\ UNCHANGED <<storeSetup, countdown, pc, currDay, newDay, cell, start, day, add, seen,
                     meter, retained, mail, unread, read, blind, missed, late>>
  BY DEF Midnight, counts, broker, history
<1>2. today \in Nat /\ today >= 1 /\ today' \in 1..MaxDays
  BY <1>1, MailParts, WallboxAssumption
<1>3. TypeOK'
  BY <1>1, <1>2 DEF DayInv, TypeOK
<1>a. currDay \in Nat /\ currDay <= today
  BY WallboxAssumption DEF DayInv, InRange, TypeOK
<1>b. \A m \in Meter : retained[m].date \in 0..MaxDays
  BY DEF DayInv, TypeOK
<1>c. \A m \in Meter : retained[m].date <= today
  BY DEF DayInv, InRange
<1>4. /\ currDay \in Nat /\ currDay <= today
      /\ \A m \in Meter : retained[m].date \in Nat /\ retained[m].date <= today
  BY <1>a, <1>b, <1>c, WallboxAssumption
<1>5. InRange'
  <2>1. currDay <= today' /\ \A m \in Meter : retained[m].date <= today'
    BY <1>1, <1>2, <1>4
  <2>2. mail \in Seq([meter : Meter, date : 1..today', value : 0..MaxMeter])
    <3> DEFINE S == [meter : Meter, date : 1..today, value : 0..MaxMeter]
               T == [meter : Meter, date : 1..today', value : 0..MaxMeter]
    <3>1. mail \in Seq(S)
      BY DEF DayInv, InRange
    <3>2. 1..today \subseteq 1..today'
      BY <1>1, <1>2
    <3>3. S \subseteq T
      BY <3>2
    <3> HIDE DEF S, T
    <3>4. mail \in Seq(T)
      BY <3>1, <3>3
    <3>5. QED
      BY <3>4 DEF T
  <2>3. QED
    BY <1>1, <2>1, <2>2 DEF DayInv, InRange
<1>6. DayCounted'
  BY <1>1 DEF DayInv, DayCounted
<1>7. Lag'
  <2>1. \A m \in Meter : unread[m] \in Nat
    BY DEF DayInv, Lag
  <2>2. \A m \in Meter : unread[m] <= unread[m]
    BY <2>1
  <2>3. QED
    BY <1>1, <2>1, <2>2 DEF DayInv, Lag
<1>8. StartsOK'
  <2>1. \A m \in Meter : retained[m].date # today'
    BY <1>1, <1>2, <1>4
  <2>2. \A k \in DOMAIN mail : mail[k].date # today'
    BY <1>1, <1>2, MailParts
  <2>3. QED
    BY <1>1, <2>1, <2>2 DEF StartsOK
<1>9. CountsOK'
  <2>1. currDay # today'
    BY <1>1, <1>2, <1>4
  <2>2. QED
    BY <1>1, <2>1 DEF CountsOK, Sound
<1>10. QED
  BY <1>3, <1>5, <1>6, <1>7, <1>8, <1>9 DEF DayInv

(* createRequest takes note of the day.                                     *)
LEMMA DayCreateRequest == ASSUME DayInv, CreateRequest PROVE DayInv'
<1>1. /\ pc = "request" /\ pc' = "answer" /\ newDay' = (currDay # today) /\ currDay' = today
      /\ UNCHANGED <<storeSetup, countdown, cell, start, day, add, seen, today, meter, retained,
                     mail, unread, charged, read, blind, missed, late>>
  BY DEF CreateRequest, counts, broker, history
<1>2. TypeOK'
  <2>1. newDay' \in BOOLEAN
    BY <1>1
  <2>2. QED
    BY <1>1, <2>1 DEF DayInv, TypeOK
<1>3. InRange'
  BY <1>1, MailParts DEF DayInv, InRange
<1>4. DayCounted'
  BY <1>1 DEF DayInv, DayCounted
<1>5. Lag'
  BY <1>1 DEF DayInv, Lag
<1>6. StartsOK'
  BY <1>1 DEF DayInv, StartsOK, StartOfToday
<1>7. CountsOK'
  <2> SUFFICES ASSUME Sound' PROVE CountsOK'
    BY DEF CountsOK
  <2>1. ~blind /\ ~missed /\ ~late /\ currDay = today
    BY <1>1 DEF Sound
  <2>2. Sound
    BY <1>1, <2>1 DEF Sound
  <2>3. QED
    BY <1>1, <2>2 DEF DayInv, CountsOK, OfToday, About
<1>8. QED
  BY <1>2, <1>3, <1>4, <1>5, <1>6, <1>7 DEF DayInv

(* A cycle that does not count, in the beginning of a session or because    *)
(* it is not complete.                                                      *)
LEMMA DayQuiet ==
  ASSUME DayInv, NEW v \in {cell, meter}, Received(v), pc = "answer", pc' = "request",
         countdown' \in 1..3, missed' = (missed \/ (newDay /\ Counting)),
         UNCHANGED <<storeSetup, currDay, newDay, start, day, add, seen, today, meter, retained,
                     mail, charged, blind, late>>
  PROVE  DayInv'
<1>1. /\ v \in [Meter -> 0..MaxMeter] /\ cell' = v
      /\ \A m \in Meter :
           /\ v[m] \in 0..MaxMeter
           /\ unread'[m] \in Nat /\ unread'[m] <= unread[m] /\ unread'[m] <= charged[m]
           /\ read' => meter[m] - v[m] <= unread'[m]
           /\ ~read' => v[m] = 0
           /\ read => v[m] + unread'[m] <= cell[m] + unread[m]
           /\ \A x \in Int : StartOfToday(m, x) => v[m] - x + unread'[m] <= charged[m]
      /\ read => read'
  BY ReceivedParts
<1>2. \A m \in Meter : /\ cell[m] \in 0..MaxMeter /\ seen[m] \in 0..MaxMeter /\ add[m] \in Int
                       /\ unread[m] \in Nat /\ charged[m] \in Nat /\ 0 <= add[m]
  BY Types DEF DayInv, Lag, DayCounted
<1>3. TypeOK'
  <2>1. countdown' \in -1..3 /\ cell' \in [Meter -> 0..MaxMeter]
    BY <1>1
  <2>2. QED
    BY <2>1 DEF DayInv, TypeOK
<1>4. InRange'
  BY DEF DayInv, InRange
<1>5. DayCounted'
  BY DEF DayInv, DayCounted
<1>6. Lag'
  <2>1. countdown' > 0
    OBVIOUS
  <2>2. ~read /\ ~blind => \A m \in Meter : add[m] = 0 /\ seen[m] = 0
    BY DEF DayInv, Lag
  <2>3. QED
    BY <1>1, <1>2, <2>1, <2>2 DEF Lag
<1>7. \A m \in Meter : \A x \in Int : StartOfToday(m, x) => StartOfToday(m, x)'
  BY <1>1 DEF StartOfToday
<1>8. StartsOK'
  <2>1. \A m \in Meter : retained[m].value \in Int
    BY DEF DayInv, TypeOK
  <2>2. \A k \in DOMAIN mail : mail[k].meter \in Meter /\ mail[k].value \in Int
    BY MailParts
  <2>3. QED
    BY <1>7, <2>1, <2>2 DEF DayInv, StartsOK
<1>9. CountsOK'
  <2> SUFFICES ASSUME Sound', NEW m \in Meter
               PROVE  /\ add[m] + seen[m] + unread'[m] <= charged[m]
                      /\ \A k \in OfToday(mail, m) :
                           (\A j \in OfToday(mail, m) : j <= k)
                             => add[m] + v[m] - mail[k].value + unread'[m] <= charged[m]
    <3>1. ~(countdown' <= 0)
      OBVIOUS
    <3>2. \A n \in Meter : OfToday(mail, n)' = OfToday(mail, n)
      BY DEF OfToday, About
    <3>3. QED
      BY <1>1, <3>1, <3>2 DEF CountsOK
  <2>1. ~blind /\ ~missed /\ ~late /\ currDay = today /\ ~(newDay /\ Counting)
    BY DEF Sound
  <2>2. \A k \in OfToday(mail, m) : mail[k].value \in Int /\ StartOfToday(m, mail[k].value)
    BY <2>1, MailParts DEF DayInv, StartsOK
  <2>3. \A k \in OfToday(mail, m) : v[m] - mail[k].value + unread'[m] <= charged[m]
    BY <1>1, <2>2
  <2>4. CASE add[m] = 0 /\ seen[m] = 0
    BY <1>1, <1>2, <2>2, <2>3, <2>4
  <2>5. CASE ~(add[m] = 0 /\ seen[m] = 0)
    <3>1. add[m] + seen[m] > 0
      BY <1>2, <2>5
    <3>2. ~newDay
      BY <2>1, <3>1 DEF Counting
    <3>3. read
      BY <2>1, <2>5 DEF DayInv, Lag
    <3>4. Sound
      BY <2>1, <3>2 DEF Sound
    <3>5. /\ add[m] + seen[m] + unread[m] <= charged[m]
          /\ \A k \in OfToday(mail, m) :
               (\A j \in OfToday(mail, m) : j <= k)
                 => add[m] + cell[m] - mail[k].value + unread[m] <= charged[m]
      BY <3>4 DEF DayInv, CountsOK
    <3>6. v[m] \in Int /\ unread'[m] \in Nat /\ unread'[m] <= unread[m]
          /\ v[m] + unread'[m] <= cell[m] + unread[m]
      BY <1>1, <3>3
    <3>7. QED
      BY <1>2, <2>2, <3>5, <3>6
  <2>6. QED
    BY <2>4, <2>5
<1>10. QED
  BY <1>3, <1>4, <1>5, <1>6, <1>8, <1>9 DEF DayInv

LEMMA DayEarlyCycle == ASSUME DayInv, EarlyCycle PROVE DayInv'
<1>1. PICK v \in {cell, meter} : Received(v)
  BY DEF EarlyCycle
<1>2. countdown \in -1..3 /\ countdown > 1
  BY DEF DayInv, TypeOK, EarlyCycle
<1>3. countdown' \in 1..3
  BY <1>2 DEF EarlyCycle, CountedDown
<1>4. /\ pc = "answer" /\ pc' = "request" /\ missed' = (missed \/ (newDay /\ Counting))
      /\ UNCHANGED <<storeSetup, currDay, newDay, start, day, add, seen, today, meter, retained,
                     mail, charged, blind, late>>
  BY DEF EarlyCycle, counts, broker
<1>5. QED
  BY <1>1, <1>3, <1>4, DayQuiet

LEMMA DayBreak == ASSUME DayInv, Break PROVE DayInv'
<1>1. PICK v \in {cell, meter} : Received(v)
  BY DEF Break
<1>2. /\ pc = "answer" /\ pc' = "request" /\ missed' = (missed \/ (newDay /\ Counting))
      /\ countdown' \in 1..3
      /\ UNCHANGED <<storeSetup, currDay, newDay, start, day, add, seen, today, meter, retained,
                     mail, charged, blind, late>>
  BY DEF Break, counts, broker
<1>3. QED
  BY <1>1, <1>2, DayQuiet

(* One counter. Its corrections keep what was counted, and an energy of the *)
(* day does not fall.                                                       *)
LEMMA CountOneParts ==
  ASSUME DayInv, NEW v \in [Meter -> 0..MaxMeter], NEW m \in Meter
  PROVE  LET c == CountOne(v, m)
         IN /\ c.seen \in 0..MaxMeter /\ c.add \in Int /\ c.day \in Int
            /\ 0 <= c.add /\ day[m] <= c.day /\ c.day <= c.add + c.seen
            /\ c.add + c.seen = add[m] + seen[m] \/ c.add + c.seen = add[m] + v[m] - start[m]
            /\ ~Corrected(v, Wallboxes) => c.add = add[m]
<1> DEFINE c == CountOne(v, m)
           d == Diff(v, m)
<1>1. /\ v[m] \in 0..MaxMeter /\ start[m] \in 0..MaxMeter /\ seen[m] \in 0..MaxMeter
      /\ day[m] \in Int /\ add[m] \in Int
  BY Types DEF DayInv
<1>2. 0 <= add[m] /\ 0 <= day[m] /\ day[m] <= add[m] + seen[m]
  BY DEF DayInv, DayCounted
<1>3. d = 0 \/ d = v[m] - start[m]
  BY DEF Diff
<1>4. /\ c.day = IF d >= seen[m] THEN add[m] + d ELSE day[m]
      /\ c.add = IF d >= seen[m] THEN add[m] ELSE add[m] + seen[m]
      /\ c.seen = IF d >= seen[m] THEN d ELSE 0
  BY DEF CountOne
<1>5. ~Corrected(v, Wallboxes) => d >= seen[m]
  <2> SUFFICES ASSUME ~Corrected(v, Wallboxes) PROVE d >= seen[m]
    OBVIOUS
  <2>1. m[1] \in 1..Wallboxes /\ Wallboxes \in Nat
    BY MeterParts, WallboxAssumption
  <2>2. ~Behind(v, m)
    BY <2>1 DEF Corrected
  <2>3. ~Corrected(v, m[1] - 1)
    <3>1. \A x \in Meter : x[1] \in Int
      BY MeterParts, WallboxAssumption
    <3>2. QED
      BY <2>1, <3>1 DEF Corrected
  <2>4. d = v[m] - start[m]
    BY <2>3 DEF Diff
  <2>5. QED
    BY <1>1, <2>2, <2>4 DEF Behind
<1> HIDE DEF c, d
<1>6. CASE d >= seen[m]
  BY <1>1, <1>2, <1>3, <1>4, <1>6, WallboxAssumption DEF c
<1>7. CASE ~(d >= seen[m])
  BY <1>1, <1>2, <1>3, <1>4, <1>5, <1>7, WallboxAssumption DEF c
<1>8. QED
  BY <1>6, <1>7

(* A start value taken from the values that have come is one of today.      *)
LEMMA Published ==
  ASSUME DayInv, NEW v \in {cell, meter}, Received(v), NEW n \in Nat,
         retained' = Kept(Sent(v, n)),
         \A k \in DOMAIN mail' : \/ \E j \in DOMAIN mail : mail'[k] = mail[j]
                                 \/ \E j \in DOMAIN Sent(v, n) : mail'[k] = Sent(v, n)[j],
         blind' = (blind \/ ~read'), UNCHANGED <<today, meter, charged>>
  PROVE  /\ StartsOK'
         /\ \A m \in Meter : retained'[m].date \in 0..MaxDays /\ retained'[m].value \in 0..MaxMeter
                             /\ retained'[m].date <= today
<1> DEFINE OK(m, x) == v[m] - x + unread'[m] <= charged[m] /\ meter[m] - x <= charged[m]
<1>1. /\ v \in [Meter -> 0..MaxMeter] /\ cell' = v
      /\ \A m \in Meter :
           /\ v[m] \in 0..MaxMeter /\ meter[m] \in 0..MaxMeter /\ charged[m] \in Nat
           /\ unread'[m] \in Nat /\ unread'[m] <= charged[m]
           /\ read' => meter[m] - v[m] <= unread'[m]
           /\ \A x \in Int : StartOfToday(m, x) => v[m] - x + unread'[m] <= charged[m]
  BY ReceivedParts, Types DEF DayInv, Lag
<1>2. today \in Nat /\ today >= 1 /\ today <= MaxDays
  BY MailParts
<1>3. \A m \in Meter : \A x \in Int : StartOfToday(m, x) => OK(m, x)
  BY <1>1 DEF StartOfToday
<1>4. \A m \in Meter : read' => OK(m, v[m])
  BY <1>1
<1> HIDE DEF OK
<1>5. \A m \in Meter : \/ retained'[m] = retained[m]
                       \/ retained'[m].date = today /\ retained'[m].value = v[m]
  BY <1>1, <1>2, KeptParts
<1>6. \A m \in Meter : /\ retained[m].date \in 0..MaxDays /\ retained[m].value \in 0..MaxMeter
                       /\ retained[m].date <= today
  BY DEF DayInv, TypeOK, InRange
<1>7. \A m \in Meter : retained'[m].date \in 0..MaxDays /\ retained'[m].value \in 0..MaxMeter
                       /\ retained'[m].date <= today
  BY <1>1, <1>2, <1>5, <1>6, WallboxAssumption
<1>8. StartsOK'
  <2> SUFFICES ASSUME ~blind'
               PROVE  /\ \A m \in Meter :
                           retained'[m].date = today => OK(m, retained'[m].value)
                      /\ \A k \in DOMAIN mail' :
                           mail'[k].date = today => OK(mail'[k].meter, mail'[k].value)
    BY <1>1 DEF StartsOK, StartOfToday, OK
  <2>1. ~blind /\ read'
    OBVIOUS
  <2>2. ASSUME NEW m \in Meter, retained'[m].date = today
        PROVE  OK(m, retained'[m].value)
    <3>1. CASE retained'[m] = retained[m]
      <4>1. StartOfToday(m, retained[m].value) /\ retained[m].value \in Int
        BY <1>6, <2>1, <2>2, <3>1 DEF DayInv, StartsOK
      <4>2. QED
        BY <1>3, <3>1, <4>1
    <3>2. CASE retained'[m].value = v[m]
      BY <1>4, <2>1, <3>2
    <3>3. QED
      BY <1>5, <3>1, <3>2
  <2>3. ASSUME NEW k \in DOMAIN mail', mail'[k].date = today
        PROVE  OK(mail'[k].meter, mail'[k].value)
    <3>1. CASE \E j \in DOMAIN mail : mail'[k] = mail[j]
      <4>1. PICK j \in DOMAIN mail : mail'[k] = mail[j]
        BY <3>1
      <4>2. mail[j].meter \in Meter /\ mail[j].value \in Int
        BY MailParts
      <4>3. StartOfToday(mail[j].meter, mail[j].value)
        BY <2>1, <2>3, <4>1 DEF DayInv, StartsOK
      <4>4. QED
        BY <1>3, <4>1, <4>2, <4>3
    <3>2. CASE \E j \in DOMAIN Sent(v, n) : mail'[k] = Sent(v, n)[j]
      <4>1. PICK j \in DOMAIN Sent(v, n) : mail'[k] = Sent(v, n)[j]
        BY <3>2
      <4>2. mail'[k].meter \in Meter /\ mail'[k].value = v[mail'[k].meter]
        BY <1>1, <1>2, <4>1, SentParts
      <4>3. QED
        BY <1>4, <2>1, <4>2
    <3>3. QED
      BY <3>1, <3>2
  <2>4. QED
    BY <2>2, <2>3
<1>9. QED
  BY <1>7, <1>8

(* A cycle that counts.                                                     *)
LEMMA DayDaily ==
  ASSUME DayInv, NEW v \in {cell, meter}, Received(v), Daily(v), pc = "answer", pc' = "request",
         countdown \in {-1, 0}, countdown' = -1, ~newDay,
         blind' = (blind \/ ~read'), missed' = (missed /\ ~newDay),
         UNCHANGED <<storeSetup, currDay, newDay, today, meter, charged, late>>
  PROVE  DayInv'
<1> DEFINE n == Corrections(v)
           q == Sent(v, n)
           R == [meter : Meter, date : 1..today, value : 0..MaxMeter]
<1>1. /\ v \in [Meter -> 0..MaxMeter] /\ cell' = v
      /\ \A m \in Meter :
           /\ v[m] \in 0..MaxMeter
           /\ unread'[m] \in Nat /\ unread'[m] <= unread[m] /\ unread'[m] <= charged[m]
           /\ read' => meter[m] - v[m] <= unread'[m]
           /\ ~read' => v[m] = 0
           /\ read => v[m] + unread'[m] <= cell[m] + unread[m]
      /\ read => read'
  BY ReceivedParts
<1>2. n \in Nat /\ (n = 0 <=> ~Corrected(v, Wallboxes))
  <2> DEFINE I == {i \in 1..Wallboxes : Corrected(v, i)}
  <2>1. IsFiniteSet(I)
    <3>1. IsFiniteSet(1..Wallboxes) /\ I \subseteq 1..Wallboxes
      BY WallboxAssumption, FS_Interval
    <3>2. QED
      BY <3>1, FS_Subset
  <2>2. n \in Nat /\ (n = 0 <=> I = {})
    BY <2>1, FS_CardinalityType, FS_EmptySet DEF Corrections
  <2>3. Wallboxes \in 1..Wallboxes /\ \A i \in 1..Wallboxes : i <= Wallboxes
    BY WallboxAssumption
  <2>4. \A i \in 1..Wallboxes : Corrected(v, i) => Corrected(v, Wallboxes)
    <3>1. \A m \in Meter : m[1] \in 1..Wallboxes
      BY MeterParts
    <3>2. \A m \in Meter : m[1] <= Wallboxes
      BY <2>3, <3>1
    <3>3. QED
      BY <3>2 DEF Corrected
  <2>5. I = {} <=> ~Corrected(v, Wallboxes)
    BY <2>3, <2>4
  <2>6. QED
    BY <2>2, <2>5
<1>3. /\ day' = [m \in Meter |-> CountOne(v, m).day] /\ add' = [m \in Meter |-> CountOne(v, m).add]
      /\ seen' = [m \in Meter |-> CountOne(v, m).seen]
      /\ start' = IF Corrected(v, Wallboxes) THEN v ELSE start
      /\ mail' = mail \o q /\ retained' = Kept(q)
  BY DEF Daily, Send
<1>4. \A m \in Meter :
        /\ seen'[m] \in 0..MaxMeter /\ add'[m] \in Int /\ day'[m] \in Int
        /\ 0 <= add'[m] /\ day[m] <= day'[m] /\ day'[m] <= add'[m] + seen'[m]
        /\ \/ add'[m] + seen'[m] = add[m] + seen[m]
           \/ add'[m] + seen'[m] = add[m] + v[m] - start[m]
        /\ ~Corrected(v, Wallboxes) => add'[m] = add[m]
  <2> SUFFICES ASSUME NEW m \in Meter
               PROVE  /\ seen'[m] \in 0..MaxMeter /\ add'[m] \in Int /\ day'[m] \in Int
                      /\ 0 <= add'[m] /\ day[m] <= day'[m] /\ day'[m] <= add'[m] + seen'[m]
                      /\ \/ add'[m] + seen'[m] = add[m] + seen[m]
                         \/ add'[m] + seen'[m] = add[m] + v[m] - start[m]
                      /\ ~Corrected(v, Wallboxes) => add'[m] = add[m]
    OBVIOUS
  <2>1. /\ day'[m] = CountOne(v, m).day /\ add'[m] = CountOne(v, m).add
        /\ seen'[m] = CountOne(v, m).seen
    BY <1>3
  <2>2. QED
    BY <1>1, <2>1, CountOneParts
<1>5. today \in Nat /\ today >= 1 /\ today <= MaxDays
  BY MailParts
<1>6. /\ q \in Seq(R) /\ DOMAIN q = 1..Len(q) /\ Len(q) \in Nat
      /\ \A k \in DOMAIN q : q[k].meter \in Meter /\ q[k].date = today /\ q[k].value = v[q[k].meter]
      /\ storeSetup /\ n # 0 => \A m \in Meter : About(q, m) # {}
      /\ ~storeSetup \/ n = 0 => q = <<>>
  BY <1>1, <1>2, <1>5, SentParts
<1>7. mail \in Seq(R) /\ Len(mail) \in Nat /\ DOMAIN mail = 1..Len(mail)
  BY MailParts DEF DayInv, InRange
<1> HIDE DEF n, R
<1>8. /\ mail \o q \in Seq(R) /\ Len(mail \o q) = Len(mail) + Len(q)
      /\ \A i \in 1..(Len(mail) + Len(q)) :
           (mail \o q)[i] = IF i <= Len(mail) THEN mail[i] ELSE q[i - Len(mail)]
  BY <1>6, <1>7, ConcatProperties
<1>9. /\ DOMAIN mail' = 1..(Len(mail) + Len(q))
      /\ \A k \in DOMAIN mail' :
           IF k <= Len(mail) THEN k \in DOMAIN mail /\ mail'[k] = mail[k]
           ELSE k - Len(mail) \in DOMAIN q /\ mail'[k] = q[k - Len(mail)]
  <2>1. DOMAIN mail' = 1..(Len(mail) + Len(q))
    BY <1>3, <1>8
  <2>2. \A k \in 1..(Len(mail) + Len(q)) :
          IF k <= Len(mail) THEN k \in 1..Len(mail) ELSE k - Len(mail) \in 1..Len(q)
    BY <1>6, <1>7
  <2>3. QED
    BY <1>3, <1>6, <1>7, <1>8, <2>1, <2>2
<1>10. /\ StartsOK'
       /\ \A m \in Meter : retained'[m].date \in 0..MaxDays /\ retained'[m].value \in 0..MaxMeter
                           /\ retained'[m].date <= today
  BY <1>2, <1>3, <1>9, Published
<1>11. mail' \in Seq(R)
  BY <1>3, <1>8
<1>12. \A k \in DOMAIN mail' : mail'[k].meter \in Meter /\ mail'[k].date \in 1..today
                               /\ mail'[k].value \in 0..MaxMeter
  BY <1>11, OfTodayParts DEF R
<1>13. TypeOK'
  <2>1. /\ cell' \in [Meter -> 0..MaxMeter] /\ seen' \in [Meter -> 0..MaxMeter]
        /\ day' \in [Meter -> Int] /\ add' \in [Meter -> Int]
    BY <1>1, <1>3, <1>4
  <2>2. start' \in [Meter -> 0..MaxMeter] /\ meter' \in [Meter -> 0..MaxMeter]
    BY <1>1, <1>3, Types DEF DayInv
  <2>3. countdown' \in -1..3 /\ pc' \in {"request", "answer"}
    OBVIOUS
  <2>4. /\ storeSetup' \in BOOLEAN /\ newDay' \in BOOLEAN
        /\ today' \in 1..MaxDays /\ currDay' \in 1..MaxDays
    BY DEF DayInv, TypeOK
  <2>5. \A k \in DOMAIN mail' : mail'[k].meter \in Meter /\ mail'[k].date \in 1..MaxDays
    BY <1>5, <1>12, WallboxAssumption
  <2>6. QED
    BY <1>10, <2>1, <2>2, <2>3, <2>4, <2>5 DEF TypeOK
<1>14. InRange'
  <2>1. ~storeSetup => mail' = <<>> /\ \A m \in Meter : retained'[m].date = NoDay
    <3> SUFFICES ASSUME ~storeSetup
                 PROVE  mail' = <<>> /\ \A m \in Meter : retained'[m].date = NoDay
      OBVIOUS
    <3>1. mail = <<>> /\ q = <<>> /\ \A m \in Meter : retained[m].date = NoDay
      BY <1>6 DEF DayInv, InRange
    <3>2. mail' = <<>>
      BY <1>3, <3>1, ConcatEmptySeq, <<>> \in Seq({})
    <3>3. \A m \in Meter : retained'[m] = retained[m]
      BY <1>3, <3>1 DEF Kept, About
    <3>4. QED
      BY <3>1, <3>2, <3>3
  <2>2. (\A i \in 1..Wallboxes : meter[Solar(i)] <= meter[Total(i)]) /\ currDay <= today
    BY DEF DayInv, InRange
  <2>3. QED
    BY <1>10, <1>11, <2>1, <2>2 DEF InRange, R
<1>15. DayCounted'
  <2>1. \A m \in Meter : 0 <= day[m] /\ day[m] \in Int
    BY Types DEF DayInv, DayCounted
  <2>2. \A m \in Meter : 0 <= day'[m]
    BY <1>4, <2>1
  <2>3. QED
    BY <1>4, <2>2 DEF DayCounted
<1>16. Lag'
  <2>1. \A m \in Meter : charged[m] \in Nat
    BY DEF DayInv, Lag
  <2>2. ~read' => blind'
    OBVIOUS
  <2>3. QED
    BY <1>1, <2>1, <2>2 DEF Lag
<1>17. CountsOK'
  <2> SUFFICES ASSUME Sound', NEW m \in Meter
               PROVE  /\ add'[m] + seen'[m] + unread'[m] <= charged[m]
                      /\ add'[m] + v[m] - start'[m] + unread'[m] <= charged[m]
                      /\ \A k \in OfToday(mail, m)' :
                           (\A j \in OfToday(mail, m)' : j <= k)
                             => add'[m] + v[m] - mail'[k].value + unread'[m] <= charged[m]
    BY <1>1 DEF CountsOK
  <2>1. ~blind /\ ~missed /\ ~late /\ currDay = today /\ read'
    BY DEF Sound
  <2>2. Sound /\ read
    <3>1. Sound
      BY <2>1 DEF Sound
    <3>2. ~read /\ ~blind => countdown > 0
      BY DEF DayInv, Lag
    <3>3. QED
      BY <2>1, <3>1, <3>2
  <2>3. /\ add[m] + seen[m] + unread[m] <= charged[m]
        /\ add[m] + cell[m] - start[m] + unread[m] <= charged[m]
        /\ \A k \in OfToday(mail, m) :
             (\A j \in OfToday(mail, m) : j <= k)
               => add[m] + cell[m] - mail[k].value + unread[m] <= charged[m]
    BY <2>2 DEF DayInv, CountsOK
  <2>4. /\ v[m] \in 0..MaxMeter /\ unread'[m] \in Nat /\ unread'[m] <= unread[m]
        /\ v[m] + unread'[m] <= cell[m] + unread[m]
    BY <1>1, <2>2
  <2>5. /\ cell[m] \in 0..MaxMeter /\ start[m] \in 0..MaxMeter /\ seen[m] \in 0..MaxMeter
        /\ add[m] \in Int /\ unread[m] \in Nat /\ charged[m] \in Nat
    BY Types DEF DayInv, Lag
  <2>6. add'[m] + seen'[m] + unread'[m] <= charged[m]
    BY <1>4, <2>3, <2>4, <2>5, WallboxAssumption
  <2>7. add'[m] + unread'[m] <= charged[m]
    BY <1>4, <2>4, <2>5, <2>6, WallboxAssumption
  <2>8. add'[m] + v[m] - start'[m] + unread'[m] <= charged[m]
    <3>1. CASE Corrected(v, Wallboxes)
      <4>1. start'[m] = v[m]
        BY <1>3, <3>1
      <4>2. QED
        BY <1>4, <2>4, <2>5, <2>7, <4>1, WallboxAssumption
    <3>2. CASE ~Corrected(v, Wallboxes)
      <4>1. start'[m] = start[m] /\ add'[m] = add[m]
        BY <1>3, <1>4, <3>2
      <4>2. QED
        BY <2>3, <2>4, <2>5, <4>1, WallboxAssumption
    <3>3. QED
      BY <3>1, <3>2
  <2>9. ASSUME NEW k \in OfToday(mail, m)', \A j \in OfToday(mail, m)' : j <= k
        PROVE  add'[m] + v[m] - mail'[k].value + unread'[m] <= charged[m]
    <3>1. \A j : j \in OfToday(mail, m)' <=>
                   j \in DOMAIN mail' /\ mail'[j].meter = m /\ mail'[j].date = today
      BY DEF OfToday, About
    <3>2. CASE k > Len(mail)
      <4>1. k \in DOMAIN mail' /\ mail'[k].meter = m /\ ~(k <= Len(mail))
        BY <1>7, <1>9, <2>9, <3>1, <3>2
      <4>2. k - Len(mail) \in DOMAIN q /\ mail'[k] = q[k - Len(mail)]
        BY <1>9, <4>1
      <4>3. mail'[k].value = v[m]
        BY <1>6, <4>1, <4>2
      <4>4. QED
        BY <1>4, <2>4, <2>5, <2>7, <4>3, WallboxAssumption
    <3>3. CASE ~(k > Len(mail))
      <4>1. k \in DOMAIN mail' /\ mail'[k].meter = m /\ mail'[k].date = today
        BY <2>9, <3>1
      <4>2. k <= Len(mail) /\ k \in DOMAIN mail /\ mail'[k] = mail[k]
        BY <1>7, <1>9, <3>3, <4>1
      <4>3. About(q, m) = {}
        <5> SUFFICES ASSUME NEW j \in About(q, m) PROVE FALSE
          OBVIOUS
        <5>1. j \in 1..Len(q) /\ q[j].meter = m /\ q[j].date = today
          BY <1>6 DEF About
        <5> DEFINE i == Len(mail) + j
        <5>2. i \in 1..(Len(mail) + Len(q)) /\ ~(i <= Len(mail)) /\ i - Len(mail) = j
          BY <1>6, <1>7, <5>1
        <5> HIDE DEF i
        <5>3. mail'[i] = q[j] /\ i \in DOMAIN mail'
          BY <1>9, <5>2
        <5>4. i \in OfToday(mail, m)'
          BY <3>1, <5>1, <5>3
        <5>5. i <= k
          BY <2>9, <5>4
        <5>6. QED
          BY <1>6, <1>7, <3>3, <4>2, <5>2, <5>5
      <4>4. ~storeSetup \/ n = 0
        BY <1>6, <4>3
      <4>5. storeSetup
        BY <1>7, <4>2 DEF DayInv, InRange
      <4>6. add'[m] = add[m] /\ q = <<>>
        BY <1>2, <1>4, <1>6, <4>4, <4>5
      <4>7. k \in OfToday(mail, m)
        BY <4>1, <4>2 DEF OfToday, About
      <4>8. \A j \in OfToday(mail, m) : j <= k
        <5> SUFFICES ASSUME NEW j \in OfToday(mail, m) PROVE j <= k
          OBVIOUS
        <5>1. j \in DOMAIN mail /\ mail[j].meter = m /\ mail[j].date = today
          BY MailParts
        <5>2. j \in DOMAIN mail' /\ j <= Len(mail)
          BY <1>6, <1>7, <1>9, <5>1
        <5>3. mail'[j] = mail[j]
          BY <1>9, <5>2
        <5>4. QED
          BY <2>9, <3>1, <5>1, <5>2, <5>3
      <4>9. add[m] + cell[m] - mail[k].value + unread[m] <= charged[m]
        BY <2>3, <4>7, <4>8
      <4>10. mail[k].value \in 0..MaxMeter
        BY <4>2, MailParts
      <4> DEFINE x == mail[k].value
      <4>11. mail'[k].value = x /\ x \in Int /\ add[m] + cell[m] - x + unread[m] <= charged[m]
        BY <4>2, <4>9, <4>10
      <4> HIDE DEF x
      <4>12. add[m] + v[m] - x + unread'[m] <= charged[m]
        BY <2>4, <2>5, <4>11
      <4>13. QED
        BY <4>6, <4>11, <4>12
    <3>4. QED
      BY <3>2, <3>3
  <2>10. QED
    BY <2>6, <2>8, <2>9
<1>18. QED
  BY <1>10, <1>13, <1>14, <1>15, <1>16, <1>17 DEF DayInv

(* The messages on their way, and behind them those about the values v.     *)
LEMMA Joined ==
  ASSUME DayInv, NEW v \in [Meter -> 0..MaxMeter], NEW n \in Nat
  PROVE  LET q == Sent(v, n)
             all == mail \o q
         IN /\ q \in Seq([meter : Meter, date : 1..today, value : 0..MaxMeter])
            /\ all \in Seq([meter : Meter, date : 1..today, value : 0..MaxMeter])
            /\ Len(q) \in Nat /\ Len(all) = Len(mail) + Len(q) /\ DOMAIN all = 1..Len(all)
            /\ \A k \in 1..Len(all) :
                 IF k <= Len(mail) THEN k \in DOMAIN mail /\ all[k] = mail[k]
                 ELSE k - Len(mail) \in DOMAIN q /\ all[k] = q[k - Len(mail)]
            /\ ~storeSetup => all = <<>> /\ \A m \in Meter : Kept(q)[m].date = NoDay
<1> DEFINE q == Sent(v, n)
           all == mail \o q
           R == [meter : Meter, date : 1..today, value : 0..MaxMeter]
<1>1. today \in Nat /\ today >= 1
  BY MailParts
<1>2. /\ q \in Seq(R) /\ DOMAIN q = 1..Len(q) /\ Len(q) \in Nat
      /\ ~storeSetup => q = <<>>
  BY <1>1, SentParts
<1>3. mail \in Seq(R) /\ Len(mail) \in Nat /\ DOMAIN mail = 1..Len(mail)
  BY MailParts DEF DayInv, InRange
<1> HIDE DEF q, R
<1>4. /\ all \in Seq(R) /\ Len(all) = Len(mail) + Len(q)
      /\ \A k \in 1..(Len(mail) + Len(q)) :
           all[k] = IF k <= Len(mail) THEN mail[k] ELSE q[k - Len(mail)]
  BY <1>2, <1>3, ConcatProperties
<1>5. ~storeSetup => all = <<>> /\ \A m \in Meter : Kept(q)[m].date = NoDay
  <2> SUFFICES ASSUME ~storeSetup
               PROVE  all = <<>> /\ \A m \in Meter : Kept(q)[m].date = NoDay
    OBVIOUS
  <2>1. mail = <<>> /\ q = <<>> /\ \A m \in Meter : retained[m].date = NoDay
    BY <1>2 DEF DayInv, InRange
  <2>2. all = <<>>
    BY <2>1, ConcatEmptySeq, <<>> \in Seq({})
  <2>3. \A m \in Meter : Kept(q)[m] = retained[m]
    BY <2>1 DEF Kept, About
  <2>4. QED
    BY <2>1, <2>2, <2>3
<1> HIDE DEF all
<1>6. DOMAIN all = 1..Len(all)
  BY <1>4
<1>7. \A k \in 1..Len(all) :
        IF k <= Len(mail) THEN k \in DOMAIN mail ELSE k - Len(mail) \in DOMAIN q
  BY <1>2, <1>3, <1>4
<1>8. \A k \in 1..Len(all) :
        IF k <= Len(mail) THEN k \in DOMAIN mail /\ all[k] = mail[k]
        ELSE k - Len(mail) \in DOMAIN q /\ all[k] = q[k - Len(mail)]
  BY <1>4, <1>7
<1>9. QED
  BY <1>2, <1>4, <1>5, <1>6, <1>8 DEF q, all, R

(* A cycle that begins a day.                                               *)
LEMMA DayReset ==
  ASSUME DayInv, NEW v \in {cell, meter}, Received(v), Reset(v), pc = "answer", pc' = "request",
         countdown' = -1, newDay,
         blind' = (blind \/ ~read'), missed' = (missed /\ ~newDay),
         UNCHANGED <<storeSetup, currDay, newDay, today, meter, charged, late>>
  PROVE  DayInv'
<1> DEFINE q == Sent(v, 1)
           R == [meter : Meter, date : 1..today, value : 0..MaxMeter]
<1>1. /\ v \in [Meter -> 0..MaxMeter] /\ cell' = v
      /\ \A m \in Meter :
           /\ v[m] \in 0..MaxMeter
           /\ unread'[m] \in Nat /\ unread'[m] <= charged[m]
           /\ read' => meter[m] - v[m] <= unread'[m]
           /\ ~read' => v[m] = 0
  BY ReceivedParts
<1>2. /\ start' = v /\ day' = Zero /\ add' = Zero /\ seen' = Zero
      /\ mail' = mail \o q /\ retained' = Kept(q)
  BY DEF Reset, Send
<1>3. \A m \in Meter : day'[m] = 0 /\ add'[m] = 0 /\ seen'[m] = 0
  BY <1>2, ZeroParts
<1>4. today \in Nat /\ today >= 1 /\ today <= MaxDays
  BY MailParts
<1>5. 1 \in Nat
  OBVIOUS
<1>6. /\ mail' \in Seq(R) /\ DOMAIN mail' = 1..Len(mail')
      /\ \A k \in 1..Len(mail') :
           IF k <= Len(mail) THEN k \in DOMAIN mail /\ mail'[k] = mail[k]
           ELSE k - Len(mail) \in DOMAIN q /\ mail'[k] = q[k - Len(mail)]
      /\ ~storeSetup => mail' = <<>> /\ \A m \in Meter : retained'[m].date = NoDay
  BY <1>1, <1>2, <1>5, Joined
<1> HIDE DEF R
<1>7. \A k \in DOMAIN mail' : mail'[k].meter \in Meter /\ mail'[k].date \in 1..today
                              /\ mail'[k].value \in 0..MaxMeter
  BY <1>6, OfTodayParts DEF R
<1>8. /\ StartsOK'
      /\ \A m \in Meter : retained'[m].date \in 0..MaxDays /\ retained'[m].value \in 0..MaxMeter
                          /\ retained'[m].date <= today
  <2>1. \A k \in DOMAIN mail' : \/ \E j \in DOMAIN mail : mail'[k] = mail[j]
                                \/ \E j \in DOMAIN q : mail'[k] = q[j]
    BY <1>6
  <2>2. QED
    BY <1>2, <1>5, <2>1, Published
<1>9. TypeOK'
  <2>1. /\ cell' \in [Meter -> 0..MaxMeter] /\ start' \in [Meter -> 0..MaxMeter]
        /\ meter' \in [Meter -> 0..MaxMeter]
    BY <1>1, <1>2, Types DEF DayInv
  <2>2. /\ seen' \in [Meter -> 0..MaxMeter] /\ day' \in [Meter -> Int]
        /\ add' \in [Meter -> Int]
    BY <1>2, WallboxAssumption DEF Zero
  <2>3. countdown' \in -1..3 /\ pc' \in {"request", "answer"}
    OBVIOUS
  <2>4. /\ storeSetup' \in BOOLEAN /\ newDay' \in BOOLEAN
        /\ today' \in 1..MaxDays /\ currDay' \in 1..MaxDays
    BY DEF DayInv, TypeOK
  <2>5. \A k \in DOMAIN mail' : mail'[k].meter \in Meter /\ mail'[k].date \in 1..MaxDays
    BY <1>4, <1>7, WallboxAssumption
  <2>6. QED
    BY <1>8, <2>1, <2>2, <2>3, <2>4, <2>5 DEF TypeOK
<1>10. InRange'
  <2>1. (\A i \in 1..Wallboxes : meter[Solar(i)] <= meter[Total(i)]) /\ currDay <= today
    BY DEF DayInv, InRange
  <2>2. QED
    BY <1>6, <1>8, <2>1 DEF InRange, R
<1>11. DayCounted'
  BY <1>3 DEF DayCounted
<1>12. Lag'
  <2>1. \A m \in Meter : charged[m] \in Nat
    BY DEF DayInv, Lag
  <2>2. ~read' => blind'
    OBVIOUS
  <2>3. QED
    BY <1>1, <2>1, <2>2 DEF Lag
<1>13. CountsOK'
  <2> SUFFICES ASSUME Sound', NEW m \in Meter
               PROVE  /\ add'[m] + seen'[m] + unread'[m] <= charged[m]
                      /\ add'[m] + v[m] - start'[m] + unread'[m] <= charged[m]
                      /\ \A k \in OfToday(mail, m)' :
                           add'[m] + v[m] - mail'[k].value + unread'[m] <= charged[m]
    BY <1>1 DEF CountsOK
  <2>1. unread'[m] \in Nat /\ charged[m] \in Nat /\ unread'[m] <= charged[m] /\ v[m] \in Int
    BY <1>1 DEF DayInv, Lag
  <2>2. /\ add'[m] + seen'[m] + unread'[m] <= charged[m]
        /\ add'[m] + v[m] - start'[m] + unread'[m] <= charged[m]
    BY <1>2, <1>3, <2>1
  <2>3. ASSUME NEW k \in OfToday(mail, m)'
        PROVE  add'[m] + v[m] - mail'[k].value + unread'[m] <= charged[m]
    <3>1. k \in DOMAIN mail' /\ mail'[k].meter = m /\ mail'[k].date = today
      BY DEF OfToday, About
    <3>2. v[m] - mail'[k].value + unread'[m] <= charged[m]
      BY <1>1, <1>8, <3>1 DEF StartsOK, StartOfToday, Sound
    <3>3. mail'[k].value \in 0..MaxMeter
      BY <1>7, <3>1
    <3> DEFINE x == mail'[k].value
    <3>4. x \in Int /\ v[m] - x + unread'[m] <= charged[m]
      BY <3>2, <3>3
    <3> HIDE DEF x
    <3>5. add'[m] + v[m] - x + unread'[m] <= charged[m]
      BY <1>3, <2>1, <3>4
    <3>6. QED
      BY <3>5 DEF x
  <2>4. QED
    BY <2>2, <2>3
<1>14. QED
  BY <1>8, <1>9, <1>10, <1>11, <1>12, <1>13 DEF DayInv

LEMMA DayCycle == ASSUME DayInv, Cycle PROVE DayInv'
<1>1. PICK v \in {cell, meter} : Received(v) /\ IF newDay THEN Reset(v) ELSE Daily(v)
  BY DEF Cycle
<1>2. countdown \in -1..3 /\ countdown <= 0
  BY DEF DayInv, TypeOK, Cycle
<1>3. countdown \in {-1, 0} /\ countdown' = -1
  BY <1>2 DEF Cycle, CountedDown
<1>4. /\ pc = "answer" /\ pc' = "request" /\ blind' = (blind \/ ~read')
      /\ missed' = (missed /\ ~newDay)
      /\ UNCHANGED <<storeSetup, currDay, newDay, today, meter, charged, late>>
  BY DEF Cycle
<1>5. CASE newDay
  BY <1>1, <1>3, <1>4, <1>5, DayReset
<1>6. CASE ~newDay
  BY <1>1, <1>3, <1>4, <1>6, DayDaily
<1>7. QED
  BY <1>5, <1>6

(* The third cycle. If every message has come, the start value is the       *)
(* present one or the last that was on its way, and only what has just been *)
(* sent is on its way.                                                      *)
LEMMA DaySetup == ASSUME DayInv, Setup PROVE DayInv'
<1>1. PICK v \in {cell, meter} :
        LET all == mail \o Sent(v, 1)
        IN /\ Received(v)
           /\ \E n \in 0..Len(all) :
                /\ start' = Restored(v, SubSeq(all, 1, n))
                /\ mail' = SubSeq(all, n + 1, Len(all))
                /\ late' = (late \/ n < Len(mail))
           /\ day' = Zero
           /\ retained' = Kept(Sent(v, 1))
  BY DEF Setup
<1> DEFINE q == Sent(v, 1)
           all == mail \o q
           R == [meter : Meter, date : 1..today, value : 0..MaxMeter]
<1>2. PICK n \in 0..Len(all) : /\ start' = Restored(v, SubSeq(all, 1, n))
                               /\ mail' = SubSeq(all, n + 1, Len(all))
                               /\ late' = (late \/ n < Len(mail))
  BY <1>1
<1> DEFINE p == SubSeq(all, 1, n)
<1>3. /\ countdown = 1 /\ countdown' = 0 /\ pc' = "request"
      /\ blind' = (blind \/ ~read') /\ missed' = (missed \/ (newDay /\ Counting))
      /\ UNCHANGED <<storeSetup, currDay, newDay, add, seen, today, meter, charged>>
  BY DEF Setup, CountedDown
<1>4. /\ v \in [Meter -> 0..MaxMeter] /\ cell' = v
      /\ \A m \in Meter :
           /\ v[m] \in 0..MaxMeter
           /\ unread'[m] \in Nat /\ unread'[m] <= unread[m] /\ unread'[m] <= charged[m]
           /\ read' => meter[m] - v[m] <= unread'[m]
           /\ ~read' => v[m] = 0
           /\ read => v[m] + unread'[m] <= cell[m] + unread[m]
           /\ \A x \in Int : StartOfToday(m, x) => v[m] - x + unread'[m] <= charged[m]
  BY <1>1, ReceivedParts
<1>5. /\ today \in Nat /\ today >= 1 /\ today <= MaxDays
      /\ Len(mail) \in Nat /\ DOMAIN mail = 1..Len(mail)
  BY MailParts
<1>6. /\ all \in Seq(R) /\ Len(all) \in Nat /\ DOMAIN all = 1..Len(all)
      /\ Len(q) \in Nat /\ Len(all) = Len(mail) + Len(q)
      /\ \A k \in 1..Len(all) :
           IF k <= Len(mail) THEN k \in DOMAIN mail /\ all[k] = mail[k]
           ELSE k - Len(mail) \in DOMAIN q /\ all[k] = q[k - Len(mail)]
      /\ ~storeSetup => all = <<>> /\ \A m \in Meter : Kept(q)[m].date = NoDay
  <2>1. 1 \in Nat
    OBVIOUS
  <2>2. /\ all \in Seq(R) /\ DOMAIN all = 1..Len(all)
        /\ Len(q) \in Nat /\ Len(all) = Len(mail) + Len(q)
        /\ \A k \in 1..Len(all) :
             IF k <= Len(mail) THEN k \in DOMAIN mail /\ all[k] = mail[k]
             ELSE k - Len(mail) \in DOMAIN q /\ all[k] = q[k - Len(mail)]
        /\ ~storeSetup => all = <<>> /\ \A m \in Meter : Kept(q)[m].date = NoDay
    BY <1>4, <2>1, Joined
  <2> HIDE DEF all, q, R
  <2>3. Len(all) \in Nat
    BY <1>5, <2>2
  <2>4. QED
    BY <2>2, <2>3
<1>7. \A k \in DOMAIN q : q[k].value = v[q[k].meter]
  <2>1. 1 \in Nat
    OBVIOUS
  <2>2. QED
    BY <1>4, <1>5, <2>1, SentParts
<1> HIDE DEF q, all, R
<1>8. /\ n \in Nat /\ n <= Len(all)
      /\ p \in Seq(R) /\ Len(p) = n /\ \A k \in 1..n : k \in 1..Len(all) /\ p[k] = all[k]
  <2>1. n \in Nat /\ n <= Len(all)
    BY <1>6
  <2>2. \A k \in 1..n : k \in 1..Len(all)
    BY <1>6, <2>1
  <2>3. p \in Seq(R) /\ Len(p) = n /\ \A k \in 1..n : p[k] = all[k]
    <3>1. p = [k \in 1..n |-> all[k]]
      BY <1>6, <2>1
    <3>2. \A k \in 1..n : all[k] \in R
      BY <1>6, <2>2, ElementOfSeq
    <3>3. QED
      BY <2>1, <3>1, <3>2
  <2>4. QED
    BY <2>1, <2>2, <2>3
<1>9. /\ mail' \in Seq(R) /\ DOMAIN mail' = 1..(Len(all) - n) /\ Len(mail') = Len(all) - n
      /\ \A k \in 1..(Len(all) - n) : n + k \in 1..Len(all) /\ mail'[k] = all[n + k]
  <2>1. \A k \in 1..(Len(all) - n) : n + k \in 1..Len(all)
    BY <1>6, <1>8
  <2>2. mail' = [k \in 1..(Len(all) - n) |-> all[n + k]]
    <3>1. Len(all) - n \in Nat
      BY <1>6, <1>8
    <3>2. mail' = SubSeq(all, n + 1, Len(all))
      BY <1>2 DEF all
    <3>3. SubSeq(all, n + 1, Len(all)) = [k \in 1..(Len(all) - n) |-> all[n + k]]
      BY <1>6, <1>8, <3>1
    <3>4. QED
      BY <3>2, <3>3
  <2>3. \A k \in 1..(Len(all) - n) : all[n + k] \in R
    BY <1>6, <2>1, ElementOfSeq
  <2>4. Len(all) - n \in Nat
    BY <1>6, <1>8
  <2>5. QED
    BY <2>1, <2>2, <2>3, <2>4
<1>10. retained' = Kept(q) /\ day' = Zero /\ start' = Restored(v, p)
       /\ late' = (late \/ n < Len(mail))
  BY <1>1, <1>2 DEF all, q
<1> HIDE DEF p
<1>11. \A k \in DOMAIN mail' : mail'[k].meter \in Meter /\ mail'[k].date \in 1..today
                               /\ mail'[k].value \in 0..MaxMeter
  BY <1>9, OfTodayParts DEF R
<1>12. /\ start' \in [Meter -> 0..MaxMeter]
       /\ \A m \in Meter :
            \/ OfToday(p, m) = {} /\ start'[m] = v[m]
            \/ \E k \in OfToday(p, m) : /\ \A j \in OfToday(p, m) : j <= k
                                        /\ start'[m] = p[k].value
  <2>1. p \in Seq([meter : Meter, date : 1..today, value : 0..MaxMeter])
    BY <1>8 DEF R
  <2>2. QED
    BY <1>4, <1>10, <2>1, RestoredParts
<1>13. /\ StartsOK'
       /\ \A m \in Meter : retained'[m].date \in 0..MaxDays /\ retained'[m].value \in 0..MaxMeter
                           /\ retained'[m].date <= today
  <2>1. \A k \in DOMAIN mail' : \/ \E j \in DOMAIN mail : mail'[k] = mail[j]
                                \/ \E j \in DOMAIN q : mail'[k] = q[j]
    BY <1>6, <1>9
  <2>2. 1 \in Nat
    OBVIOUS
  <2>3. QED
    BY <1>1, <1>3, <1>10, <2>1, <2>2, Published DEF q
<1>14. TypeOK'
  <2>1. /\ cell' \in [Meter -> 0..MaxMeter] /\ seen' \in [Meter -> 0..MaxMeter]
        /\ meter' \in [Meter -> 0..MaxMeter] /\ add' \in [Meter -> Int]
    BY <1>3, <1>4, Types DEF DayInv
  <2>2. day' \in [Meter -> Int]
    BY <1>10 DEF Zero
  <2>3. countdown' \in -1..3 /\ pc' \in {"request", "answer"}
    BY <1>3
  <2>4. /\ storeSetup' \in BOOLEAN /\ newDay' \in BOOLEAN
        /\ today' \in 1..MaxDays /\ currDay' \in 1..MaxDays
    BY <1>3 DEF DayInv, TypeOK
  <2>5. \A k \in DOMAIN mail' : mail'[k].meter \in Meter /\ mail'[k].date \in 1..MaxDays
    BY <1>5, <1>11, WallboxAssumption
  <2>6. QED
    BY <1>12, <1>13, <2>1, <2>2, <2>3, <2>4, <2>5 DEF TypeOK
<1>15. InRange'
  <2>1. (\A i \in 1..Wallboxes : meter[Solar(i)] <= meter[Total(i)]) /\ currDay <= today
    BY DEF DayInv, InRange
  <2>2. ~storeSetup => mail' = <<>> /\ \A m \in Meter : retained'[m].date = NoDay
    <3> SUFFICES ASSUME ~storeSetup
                 PROVE  mail' = <<>> /\ \A m \in Meter : retained'[m].date = NoDay
      OBVIOUS
    <3>1. all = <<>> /\ \A m \in Meter : retained'[m].date = NoDay
      BY <1>6, <1>10
    <3>2. Len(mail') = 0
      BY <1>8, <1>9, <3>1
    <3>3. mail' = <<>>
      BY <1>9, <3>2, EmptySeq
    <3>4. QED
      BY <3>1, <3>3
  <2>3. QED
    BY <1>3, <1>9, <1>13, <2>1, <2>2 DEF InRange, R
<1>16. \A m \in Meter : 0 <= add[m] /\ add[m] \in Int /\ seen[m] \in 0..MaxMeter
                        /\ charged[m] \in Nat /\ unread[m] \in Nat /\ cell[m] \in 0..MaxMeter
  BY Types DEF DayInv, DayCounted, Lag
<1>17. DayCounted'
  BY <1>3, <1>10, <1>16, ZeroParts, WallboxAssumption DEF DayCounted
<1>18. Lag'
  BY <1>3, <1>4, <1>16 DEF Lag
<1>19. CountsOK'
  <2> SUFFICES ASSUME Sound', NEW m \in Meter
               PROVE  /\ add[m] + seen[m] + unread'[m] <= charged[m]
                      /\ add[m] + v[m] - start'[m] + unread'[m] <= charged[m]
                      /\ \A k \in OfToday(mail, m)' :
                           add[m] + v[m] - mail'[k].value + unread'[m] <= charged[m]
    BY <1>3, <1>4 DEF CountsOK
  <2>1. ~blind /\ ~missed /\ ~late /\ currDay = today /\ ~(newDay /\ Counting) /\ n >= Len(mail)
    <3>1. ~blind /\ ~missed /\ ~late /\ currDay = today /\ ~(newDay /\ Counting)
          /\ ~(n < Len(mail))
      BY <1>3, <1>10 DEF Sound
    <3>2. n >= Len(mail)
      BY <1>5, <1>8, <3>1
    <3>3. QED
      BY <3>1, <3>2
  <2>2. (add[m] = 0 /\ seen[m] = 0) \/ (Sound /\ read)
    <3> SUFFICES ASSUME ~(add[m] = 0 /\ seen[m] = 0) PROVE Sound /\ read
      OBVIOUS
    <3>1. add[m] + seen[m] > 0
      BY <1>16
    <3>2. ~newDay
      BY <2>1, <3>1 DEF Counting
    <3>3. read
      BY <2>1 DEF DayInv, Lag
    <3>4. QED
      BY <2>1, <3>2, <3>3 DEF Sound
  <2>3. Sound => /\ add[m] + seen[m] + unread[m] <= charged[m]
                 /\ \A k \in OfToday(mail, m) :
                      (\A j \in OfToday(mail, m) : j <= k)
                        => add[m] + cell[m] - mail[k].value + unread[m] <= charged[m]
    BY DEF DayInv, CountsOK
  <2>4. /\ v[m] \in 0..MaxMeter
        /\ unread'[m] \in Nat /\ unread'[m] <= unread[m] /\ unread'[m] <= charged[m]
        /\ read => v[m] + unread'[m] <= cell[m] + unread[m]
    BY <1>4
  <2>5. add[m] + seen[m] + unread'[m] <= charged[m]
    BY <1>16, <2>2, <2>3, <2>4
  <2>6. ASSUME NEW x \in Int, x = v[m]
        PROVE  add[m] + v[m] - x + unread'[m] <= charged[m]
    <3>1. add[m] + unread'[m] <= charged[m]
      BY <1>16, <2>4, <2>5
    <3>2. add[m] + x - x + unread'[m] <= charged[m]
      BY <1>16, <2>4, <3>1
    <3>3. QED
      BY <2>6, <3>2
  <2>7. add[m] + v[m] - start'[m] + unread'[m] <= charged[m]
    <3>1. CASE OfToday(p, m) = {} /\ start'[m] = v[m]
      BY <2>4, <2>6, <3>1
    <3>2. CASE \E k \in OfToday(p, m) : /\ \A j \in OfToday(p, m) : j <= k
                                        /\ start'[m] = p[k].value
      <4>1. PICK k \in OfToday(p, m) : /\ \A j \in OfToday(p, m) : j <= k
                                       /\ start'[m] = p[k].value
        BY <3>2
      <4>2. \A j : j \in OfToday(p, m) <=> j \in 1..n /\ p[j].meter = m /\ p[j].date = today
        <5>1. p \in Seq([meter : Meter, date : 1..today, value : 0..MaxMeter])
          BY <1>8 DEF R
        <5>2. DOMAIN p = 1..n
          BY <1>8, <5>1
        <5>3. QED
          BY <5>2 DEF OfToday, About
      <4>3. k \in 1..n /\ p[k].meter = m /\ p[k].date = today /\ p[k] = all[k]
            /\ k \in 1..Len(all)
        BY <1>8, <4>1, <4>2
      <4>4. CASE ~(k <= Len(mail))
        <5>1. k - Len(mail) \in DOMAIN q /\ all[k] = q[k - Len(mail)]
          BY <1>6, <4>3, <4>4
        <5>2. start'[m] = v[m]
          BY <1>7, <4>1, <4>3, <5>1
        <5>3. QED
          BY <2>4, <2>6, <5>2
      <4>5. CASE k <= Len(mail)
        <5>1. k \in DOMAIN mail /\ all[k] = mail[k]
          BY <1>6, <4>3, <4>5
        <5>2. k \in OfToday(mail, m)
          BY <4>3, <5>1 DEF OfToday, About
        <5>3. \A j \in OfToday(mail, m) : j <= k
          <6> SUFFICES ASSUME NEW j \in OfToday(mail, m) PROVE j <= k
            OBVIOUS
          <6>1. j \in 1..Len(mail) /\ mail[j].meter = m /\ mail[j].date = today
            BY <1>5, MailParts
          <6>2. j \in 1..n /\ j \in 1..Len(all) /\ j <= Len(mail)
            BY <1>5, <1>8, <2>1, <6>1
          <6>3. p[j] = mail[j]
            BY <1>6, <1>8, <6>2
          <6>4. j \in OfToday(p, m)
            BY <4>2, <6>1, <6>2, <6>3
          <6>5. QED
            BY <4>1, <6>4
        <5> DEFINE x == mail[k].value
        <5>4. mail[k].meter = m /\ mail[k].date = today /\ x \in Int
          BY <5>1, <5>2, MailParts
        <5>5. StartOfToday(m, x)
          BY <2>1, <5>1, <5>4 DEF DayInv, StartsOK
        <5>6. start'[m] = x
          BY <4>1, <4>3, <5>1
        <5>7. Sound => add[m] + cell[m] - x + unread[m] <= charged[m]
          BY <2>3, <5>2, <5>3
        <5> HIDE DEF x
        <5>8. v[m] - x + unread'[m] <= charged[m]
          BY <1>4, <5>4, <5>5
        <5>9. add[m] + v[m] - x + unread'[m] <= charged[m]
          <6>1. CASE add[m] = 0
            BY <1>16, <2>4, <5>4, <5>8, <6>1
          <6>2. CASE Sound /\ read
            <7>1. /\ add[m] + cell[m] - x + unread[m] <= charged[m]
                  /\ v[m] + unread'[m] <= cell[m] + unread[m]
              BY <2>4, <5>7, <6>2
            <7>2. /\ add[m] \in Int /\ cell[m] \in Int /\ unread[m] \in Int /\ charged[m] \in Int
                  /\ v[m] \in Int /\ unread'[m] \in Int
              BY <1>16, <2>4
            <7>3. x \in Int
              BY <5>4
            <7>4. \A a, b, c, d, e, f, g \in Int :
                    a + c - g + d <= f /\ b + e <= c + d => a + b - g + e <= f
              OBVIOUS
            <7>5. QED
              BY <7>1, <7>2, <7>3, <7>4
          <6>3. QED
            BY <2>2, <6>1, <6>2
        <5>10. QED
          BY <5>6, <5>9
      <4>6. QED
        BY <4>4, <4>5
    <3>3. QED
      BY <1>12, <3>1, <3>2
  <2>8. ASSUME NEW k \in OfToday(mail, m)'
        PROVE  add[m] + v[m] - mail'[k].value + unread'[m] <= charged[m]
    <3>1. k \in 1..(Len(all) - n) /\ mail'[k].meter = m
      BY <1>9 DEF OfToday, About
    <3>2. n + k \in 1..Len(all) /\ mail'[k] = all[n + k]
      BY <1>9, <3>1
    <3>3. ~(n + k <= Len(mail))
      BY <1>5, <1>6, <1>8, <2>1, <3>1
    <3> DEFINE i == n + k
    <3> HIDE DEF i
    <3>4. i - Len(mail) \in DOMAIN q /\ all[i] = q[i - Len(mail)]
      <4>1. i \in 1..Len(all) /\ ~(i <= Len(mail))
        BY <3>2, <3>3 DEF i
      <4>2. QED
        BY <1>6, <4>1
    <3>5. mail'[k].value = v[m]
      <4>1. mail'[k] = all[i]
        BY <3>2 DEF i
      <4>2. QED
        BY <1>7, <3>1, <3>4, <4>1
    <3>6. QED
      BY <2>4, <2>6, <3>5
  <2>9. QED
    BY <2>5, <2>7, <2>8
<1>20. QED
  BY <1>13, <1>14, <1>15, <1>17, <1>18, <1>19 DEF DayInv

(* When the program is started again, it gets what the broker has kept and  *)
(* has counted nothing.                                                     *)
LEMMA DayRestart == ASSUME DayInv, Restart PROVE DayInv'
<1> DEFINE S == {m \in Meter : retained[m].date # NoDay}
           R == [meter : Meter, date : 1..today, value : 0..MaxMeter]
<1>1. PICK q \in Orders(S) :
        mail' = [k \in DOMAIN q |-> [meter |-> q[k], date |-> retained[q[k]].date,
                                     value |-> retained[q[k]].value]]
  BY DEF Restart
<1>2. /\ pc' = "request" /\ countdown' = 3 /\ currDay' = today /\ newDay' = FALSE
      /\ cell' = Zero /\ start' = Zero /\ day' = Zero /\ add' = Zero /\ seen' = Zero
      /\ read' = FALSE
      /\ UNCHANGED <<storeSetup, today, meter, retained, unread, charged, blind, missed, late>>
  BY DEF Restart
<1>3. today \in Nat /\ today >= 1 /\ today <= MaxDays
  BY MailParts
<1>4. \A m \in Meter :
        /\ cell'[m] = 0 /\ day'[m] = 0 /\ add'[m] = 0 /\ seen'[m] = 0
        /\ meter[m] \in 0..MaxMeter /\ unread[m] \in Nat /\ charged[m] \in Nat
        /\ unread[m] <= charged[m]
  BY <1>2, ZeroParts, Types DEF DayInv, Lag
<1>a. \A m \in Meter : retained[m].date \in 0..MaxDays /\ retained[m].value \in 0..MaxMeter
  BY DEF DayInv, TypeOK
<1>b. \A m \in Meter : retained[m].date <= today
  BY DEF DayInv, InRange
<1>5. \A m \in S : /\ m \in Meter
                   /\ retained[m].date \in 1..today /\ retained[m].value \in 0..MaxMeter
  BY <1>3, <1>a, <1>b, WallboxAssumption DEF NoDay
<1>6. IsFiniteSet(S)
  <2>1. IsFiniteSet(1..Wallboxes)
    BY WallboxAssumption, FS_Interval
  <2>2. IsFiniteSet({"total", "solar"})
    <3>1. IsFiniteSet({} \cup {"total"})
      BY FS_EmptySet, FS_AddElement
    <3>2. IsFiniteSet(({} \cup {"total"}) \cup {"solar"})
      BY <3>1, FS_AddElement
    <3>3. ({} \cup {"total"}) \cup {"solar"} = {"total", "solar"}
      OBVIOUS
    <3>4. QED
      BY <3>2, <3>3
  <2>3. IsFiniteSet(Meter)
    BY <2>1, <2>2, FS_Product DEF Meter
  <2>4. S \subseteq Meter
    OBVIOUS
  <2>5. QED
    BY <2>3, <2>4, FS_Subset
<1> DEFINE N == Cardinality(S)
<1>7. N \in Nat /\ (S = {} => N = 0)
  BY <1>6, FS_CardinalityType, FS_EmptySet
<1>8. ~storeSetup => S = {}
  BY DEF DayInv, InRange
<1>9. q \in [1..N -> S]
  BY DEF Orders
<1> HIDE DEF S, R, N
<1>10. /\ DOMAIN mail' = 1..N
       /\ \A k \in 1..N : /\ q[k] \in S /\ mail'[k].meter = q[k]
                          /\ mail'[k].date = retained[q[k]].date
                          /\ mail'[k].value = retained[q[k]].value
  BY <1>1, <1>9
<1>11. mail' \in Seq(R) /\ Len(mail') = N
  <2>1. ASSUME NEW k \in 1..N PROVE mail'[k] \in R
    <3> DEFINE x == q[k]
               d == retained[x].date
               e == retained[x].value
    <3>1. x \in S
      BY <1>9
    <3>2. mail'[k] = [meter |-> x, date |-> d, value |-> e]
      BY <1>1, <1>9
    <3>3. x \in Meter /\ d \in 1..today /\ e \in 0..MaxMeter
      BY <1>5, <3>1
    <3> HIDE DEF x, d, e
    <3>4. QED
      BY <3>2, <3>3 DEF R
  <2>2. mail' = [k \in 1..N |-> mail'[k]]
    BY <1>1, <1>9
  <2>3. QED
    BY <1>7, <2>1, <2>2
<1>12. \A k \in DOMAIN mail' : mail'[k].meter \in Meter /\ mail'[k].date \in 1..today
                               /\ mail'[k].value \in 0..MaxMeter
  BY <1>5, <1>10
<1>13. TypeOK'
  <2>1. /\ cell' \in [Meter -> 0..MaxMeter] /\ start' \in [Meter -> 0..MaxMeter]
        /\ seen' \in [Meter -> 0..MaxMeter] /\ day' \in [Meter -> Int] /\ add' \in [Meter -> Int]
    BY <1>2, WallboxAssumption DEF Zero
  <2>2. meter' \in [Meter -> 0..MaxMeter]
    BY <1>2, Types DEF DayInv
  <2>3. countdown' \in -1..3 /\ pc' \in {"request", "answer"}
    BY <1>2
  <2>4. newDay' \in BOOLEAN
    BY <1>2
  <2>5. storeSetup' \in BOOLEAN /\ today' \in 1..MaxDays
    BY <1>2 DEF DayInv, TypeOK
  <2>6. currDay' \in 1..MaxDays
    BY <1>2 DEF DayInv, TypeOK
  <2>7. \A k \in DOMAIN mail' : mail'[k].meter \in Meter /\ mail'[k].date \in 1..MaxDays
    BY <1>3, <1>12, WallboxAssumption
  <2>8. QED
    BY <1>2, <1>a, <2>1, <2>2, <2>3, <2>4, <2>5, <2>6, <2>7 DEF TypeOK
<1>14. InRange'
  <2>1. (\A i \in 1..Wallboxes : meter[Solar(i)] <= meter[Total(i)])
        /\ (~storeSetup => \A m \in Meter : retained[m].date = NoDay)
    BY DEF DayInv, InRange
  <2>2. ~storeSetup => mail' = <<>>
    BY <1>7, <1>8, <1>11, EmptySeq
  <2>3. currDay' <= today'
    BY <1>2, <1>3
  <2>4. QED
    BY <1>2, <1>b, <1>11, <2>1, <2>2, <2>3 DEF InRange, R
<1>15. DayCounted'
  BY <1>4 DEF DayCounted
<1>16. Lag'
  BY <1>2, <1>4 DEF Lag
<1>17. \A m \in Meter : \A x \in 0..MaxMeter : StartOfToday(m, x) => StartOfToday(m, x)'
  BY <1>2, <1>4, WallboxAssumption DEF StartOfToday
<1>18. StartsOK'
  <2> SUFFICES ASSUME ~blind
               PROVE  /\ \A m \in Meter :
                           retained[m].date = today => StartOfToday(m, retained[m].value)'
                      /\ \A k \in DOMAIN mail' :
                           mail'[k].date = today
                             => StartOfToday(mail[k].meter, mail[k].value)'
    BY <1>2 DEF StartsOK
  <2>1. \A m \in Meter : retained[m].date = today => StartOfToday(m, retained[m].value)
    BY DEF DayInv, StartsOK
  <2>2. \A m \in Meter :
          retained[m].date = today => /\ cell'[m] - retained[m].value + unread[m] <= charged[m]
                                      /\ meter[m] - retained[m].value <= charged[m]
    BY <1>2, <1>a, <1>17, <2>1 DEF StartOfToday
  <2>3. \A m \in Meter : retained[m].date = today => StartOfToday(m, retained[m].value)'
    BY <1>2, <2>2 DEF StartOfToday
  <2>4. ASSUME NEW k \in DOMAIN mail', mail'[k].date = today
        PROVE  StartOfToday(mail[k].meter, mail[k].value)'
    <3> DEFINE x == q[k]
    <3>1. /\ x \in Meter /\ retained[x].date = today /\ mail'[k].meter = x
          /\ mail'[k].value = retained[x].value
      BY <1>5, <1>10, <2>4
    <3> HIDE DEF x
    <3>2. /\ cell'[x] - retained[x].value + unread[x] <= charged[x]
          /\ meter[x] - retained[x].value <= charged[x]
      BY <2>2, <3>1
    <3>3. QED
      BY <1>2, <3>1, <3>2 DEF StartOfToday
  <2>5. QED
    BY <2>3, <2>4
<1>19. CountsOK'
  <2> SUFFICES ASSUME Sound', NEW m \in Meter
               PROVE  /\ add'[m] + seen'[m] + unread'[m] <= charged'[m]
                      /\ ~(countdown' <= 0)
                      /\ \A k \in OfToday(mail, m)' :
                           add'[m] + cell'[m] - mail'[k].value + unread'[m] <= charged'[m]
    BY DEF CountsOK
  <2>1. add'[m] + seen'[m] + unread'[m] <= charged'[m] /\ ~(countdown' <= 0)
    BY <1>2, <1>4
  <2>2. ASSUME NEW k \in OfToday(mail, m)'
        PROVE  add'[m] + cell'[m] - mail'[k].value + unread'[m] <= charged'[m]
    <3>1. k \in DOMAIN mail' /\ mail'[k].meter = m /\ mail'[k].date = today'
      BY DEF OfToday, About
    <3>2. cell'[m] - mail'[k].value + unread'[m] <= charged'[m]
      BY <1>18, <3>1 DEF StartsOK, StartOfToday, Sound
    <3>3. mail'[k].value \in 0..MaxMeter
      BY <1>12, <3>1
    <3> DEFINE x == mail'[k].value
    <3>4. x \in Int /\ cell'[m] - x + unread'[m] <= charged'[m]
      BY <3>2, <3>3
    <3> HIDE DEF x
    <3>5. add'[m] + cell'[m] - x + unread'[m] <= charged'[m]
      BY <1>2, <1>4, <3>4
    <3>6. QED
      BY <3>5 DEF x
  <2>3. QED
    BY <2>1, <2>2
<1>20. QED
  BY <1>13, <1>14, <1>15, <1>16, <1>18, <1>19 DEF DayInv

-----------------------------------------------------------------------------
LEMMA DayStep == DayInv /\ [Next]_vars => DayInv'
<1> SUFFICES ASSUME DayInv, [Next]_vars PROVE DayInv'
  OBVIOUS
<1>1. ASSUME NEW i \in 1..Wallboxes, Charge(i) PROVE DayInv'
  BY <1>1, DayCharge
<1>2. ASSUME NEW i \in 1..Wallboxes, CounterReset(i) PROVE DayInv'
  BY <1>2, DayCounterReset
<1>3. CASE Midnight
  BY <1>3, DayMidnight
<1>4. CASE CreateRequest
  BY <1>4, DayCreateRequest
<1>5. CASE EarlyCycle
  BY <1>5, DayEarlyCycle
<1>6. CASE Setup
  BY <1>6, DaySetup
<1>7. CASE Cycle
  BY <1>7, DayCycle
<1>8. CASE Break
  BY <1>8, DayBreak
<1>9. CASE Restart
  BY <1>9, DayRestart
<1>10. CASE UNCHANGED vars
  <2>1. UNCHANGED <<storeSetup, countdown, pc, currDay, newDay, cell, start, day, add, seen, today,
                    meter, retained, mail, unread, charged, read, blind, missed, late>>
    BY <1>10 DEF vars, counts, broker, history
  <2>2. TypeOK' /\ InRange' /\ DayCounted' /\ Lag'
    BY <2>1 DEF DayInv, TypeOK, InRange, DayCounted, Lag
  <2>3. StartsOK' /\ CountsOK'
    BY <2>1 DEF DayInv, StartsOK, StartOfToday, CountsOK, Sound, OfToday, About
  <2>4. QED
    BY <2>2, <2>3 DEF DayInv
<1>11. QED
  BY <1>1, <1>2, <1>3, <1>4, <1>5, <1>6, <1>7, <1>8, <1>9, <1>10 DEF Next

(* Whatever the wallboxes charge, however often their counters begin anew,  *)
(* the session breaks or the program is started again, in every order of    *)
(* the retained messages: what is known of the start values and the counts  *)
(* stays true.                                                              *)
THEOREM DayInductive == Spec => []DayInv
<1>1. Init => DayInv
  BY InitDay
<1>2. DayInv /\ [Next]_vars => DayInv'
  BY DayStep
<1>3. QED
  BY <1>1, <1>2, PTL DEF Spec

(* The energy of a day that wallboxDaily publishes is never negative, and   *)
(* under the conditions of Plausible not more than was charged that day.    *)
THEOREM DayIsInRange == Spec => []DayInRange
<1>1. DayInv => DayInRange
  <2> SUFFICES ASSUME DayInv PROVE DayInRange
    OBVIOUS
  <2>1. \A m \in Meter : day[m] >= 0
    <3>1. \A m \in Meter : day[m] \in Int /\ 0 <= day[m]
      BY Types DEF DayInv, DayCounted
    <3>2. QED
      BY <3>1
  <2>2. ASSUME ~blind, ~missed, ~late, currDay = today, ~newDay, NEW m \in Meter
        PROVE  day[m] <= charged[m]
    <3>1. Sound
      BY <2>2 DEF Sound
    <3>2. add[m] + seen[m] + unread[m] <= charged[m]
      BY <3>1 DEF DayInv, CountsOK
    <3>3. /\ day[m] \in Int /\ add[m] \in Int /\ seen[m] \in 0..MaxMeter
          /\ unread[m] \in Nat /\ charged[m] \in Nat /\ day[m] <= add[m] + seen[m]
      BY Types DEF DayInv, DayCounted, Lag
    <3>4. QED
      BY <3>2, <3>3, WallboxAssumption
  <2>3. TypeOK
    BY DEF DayInv
  <2>4. QED
    BY <2>1, <2>2, <2>3 DEF DayInRange, Plausible
<1>2. QED
  BY <1>1, DayInductive, PTL

(* A cycle that counts does not let the energy of the day fall, whatever    *)
(* wallboxDaily has to correct in it.                                       *)
THEOREM DayNeverFalls == Spec => NeverFalls
<1>1. DayInv /\ [Next]_vars
        => [Cycle /\ ~newDay => \A m \in Meter : day'[m] >= day[m]]_vars
  <2> SUFFICES ASSUME DayInv, Cycle, ~newDay, NEW m \in Meter PROVE day'[m] >= day[m]
    OBVIOUS
  <2>1. PICK v \in {cell, meter} : Received(v) /\ Daily(v)
    BY DEF Cycle
  <2>2. v \in [Meter -> 0..MaxMeter]
    BY <2>1, ReceivedParts
  <2>3. day'[m] = CountOne(v, m).day
    BY <2>1 DEF Daily
  <2>4. CountOne(v, m).day \in Int /\ day[m] <= CountOne(v, m).day
    BY <2>2, CountOneParts
  <2>5. day[m] \in Int
    BY Types DEF DayInv
  <2>6. QED
    BY <2>3, <2>4, <2>5
<1>2. QED
  BY <1>1, DayInductive, PTL DEF Spec, NeverFalls
=============================================================================
