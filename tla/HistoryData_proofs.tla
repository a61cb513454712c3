------------------------- MODULE HistoryData_proofs -------------------------
(***************************************************************************)
(* Proofs about HistoryData: the dates of the requested days and the       *)
(* answers stay in step, and all data is stored where it belongs.          *)
(*                                                                         *)
(* The properties speak about what is counted, and are not inductive: they *)
(* need to know where in a frame today, yesterday, the years and the       *)
(* requested days stand (Shape), how far the two counters are at the next  *)
(* answer (DaysCounted, YearsCounted), and how many of the years to come   *)
(* the device will refuse (RangeCovers).                                   *)
(***************************************************************************)
EXTENDS HistoryData, FiniteSetTheorems, SequenceTheorems, TLAPS

(* An answer about today or yesterday, and one about a year.                *)
Std(r) == r.kind = "day" /\ r.of \in DayCell
OfYear(r) == r.kind = "year"

Today == DayRequest("today")
Yesterday == DayRequest("yesterday")

(* The order of a frame, and of what is left of it: today and yesterday,    *)
(* the years one after another, the days somebody asked for.                *)
Shape ==
  /\ pc = "create" => frame = <<>>
  /\ \A i, j \in 1..Len(frame) :
       i < j /\ Std(frame[j]) => frame[i] = Today /\ frame[j] = Yesterday
  /\ \A i, j \in 1..Len(frame) : i < j /\ Asked(frame[i]) => Asked(frame[j])
  /\ \A i, j \in 1..Len(frame) :
       OfYear(frame[i]) /\ OfYear(frame[j]) => frame[i].of + i = frame[j].of + j

(* Where the counter of the days stands. It lags behind after faults only,  *)
(* and never runs ahead. A date waits for an answer that is handled as a    *)
(* requested day only if today and yesterday come before it.                *)
DaysCounted ==
  /\ pc = "answer" /\ frame # <<>> => frame[1] # Yesterday
  /\ pc = "handle" /\ frame # <<>> =>
       /\ frame[1] = Today => day = 0
       /\ frame[1] = Yesterday => day <= 1 /\ (~disturbed => day = 1)
  /\ ~disturbed /\ paramQ # <<>> =>
       \/ Len(frame) >= 2 /\ frame[1] = Today /\ frame[2] = Yesterday
       \/ pc = "handle" /\ frame # <<>> /\ (frame[1] = Yesterday \/ day >= 2)

(* The first of the years that are left.                                    *)
FirstLeft(k) == OfYear(frame[k]) /\ (k = 1 \/ frame[k - 1].kind = "day")

(* Where the counter of the years stands: at the year of the next answer    *)
(* as long as the device has data for it. Each year it counts down to is    *)
(* one that was asked for.                                                  *)
YearsCounted ==
  /\ pc = "answer" => \A k \in 1..Len(frame) : FirstLeft(k) => frame[k].of = CurrYear
  /\ pc = "handle" => \A i, j \in 1..Len(frame) :
       i <= j /\ OfYear(frame[i]) /\ OfYear(frame[j]) => year >= FirstYear + (j - i)
  /\ pc = "handle" /\ ~yearShifted => \A k \in 1..Len(frame) :
       FirstLeft(k) => frame[k].of = year \/ frame[k].of < install

(* What the years that the device lacks will cut off the range, it lacks.   *)
RangeCovers ==
  ~yearShifted => \A i, j \in 1..Len(frame) :
    (i <= j /\ OfYear(frame[i]) /\ OfYear(frame[j]) /\ frame[i].of < install)
      => startYear + (j - i + 1) <= install

HistoryInv ==
  /\ TypeOK /\ Shape
  /\ InStep /\ NeverNameless /\ DaysCounted /\ RightDate
  /\ YearsCounted /\ RangeCovers /\ RightYear /\ NotCutTooFar

-----------------------------------------------------------------------------
(* Each request is about today or yesterday, about a requested day, or      *)
(* about a year.                                                            *)
LEMMA RequestParts ==
  ASSUME NEW r \in Request
  PROVE  /\ Std(r) \/ Asked(r) \/ OfYear(r)
         /\ Std(r) => ~Asked(r) /\ ~OfYear(r) /\ (r = Today \/ r = Yesterday)
         /\ Asked(r) => ~OfYear(r) /\ r.of \in Date /\ r = DayRequest(r.of)
         /\ OfYear(r) => r.of \in Year
<1>1. CASE \E d \in DayCell \cup Date : r = DayRequest(d)
  <2>1. PICK d \in DayCell \cup Date : r = DayRequest(d)
    BY <1>1
  <2>2. r.kind = "day" /\ r.of = d
    BY <2>1 DEF DayRequest
  <2>3. d \in DayCell => d \notin Date
    BY HistoryAssumption DEF DayCell
  <2>4. d \in DayCell => r = Today \/ r = Yesterday
    BY <2>1 DEF DayCell, Today, Yesterday
  <2>5. QED
    BY <2>1, <2>2, <2>3, <2>4 DEF Std, Asked, OfYear
<1>2. CASE \E y \in Year : r = YearRequest(y)
  <2>1. PICK y \in Year : r = YearRequest(y)
    BY <1>2
  <2>2. r.kind = "year" /\ r.of = y
    BY <2>1 DEF YearRequest
  <2>3. QED
    BY <2>2 DEF Std, Asked, OfYear
<1>3. QED
  BY <1>1, <1>2 DEF Request

(* Today, yesterday and the years as requests.                              *)
LEMMA Named ==
  /\ Today \in Request /\ Std(Today) /\ Today.of = "today" /\ Today.kind = "day"
  /\ Yesterday \in Request /\ Std(Yesterday) /\ Yesterday.of = "yesterday"
  /\ Yesterday.kind = "day" /\ Today # Yesterday
  /\ \A d \in Date : DayRequest(d) \in Request /\ Asked(DayRequest(d)) /\ DayRequest(d).of = d
  /\ \A y \in Year : /\ YearRequest(y) \in Request
                     /\ OfYear(YearRequest(y)) /\ YearRequest(y).of = y
<1>1. Today.of = "today" /\ Today.kind = "day" /\ Yesterday.of = "yesterday"
      /\ Yesterday.kind = "day"
  BY DEF Today, Yesterday, DayRequest
<1>2. Today \in Request /\ Yesterday \in Request
  BY DEF Today, Yesterday, Request, DayCell
<1>3. Std(Today) /\ Std(Yesterday) /\ Today # Yesterday
  BY <1>1 DEF Std, DayCell
<1>4. ASSUME NEW d \in Date
      PROVE  DayRequest(d) \in Request /\ Asked(DayRequest(d)) /\ DayRequest(d).of = d
  BY DEF DayRequest, Request, Asked
<1>5. ASSUME NEW y \in Year
      PROVE  YearRequest(y) \in Request /\ OfYear(YearRequest(y)) /\ YearRequest(y).of = y
  BY DEF YearRequest, Request, OfYear
<1>6. QED
  BY <1>1, <1>2, <1>3, <1>4, <1>5

(* What is left of a frame when its first answer is handled.                *)
LEMMA TailParts ==
  ASSUME frame \in Seq(Request), frame # <<>>, NextAnswer
  PROVE  /\ frame' \in Seq(Request)
         /\ Len(frame) \in Nat \ {0} /\ Len(frame') = Len(frame) - 1
         /\ \A i \in 1..Len(frame') : i + 1 \in 1..Len(frame) /\ frame'[i] = frame[i + 1]
         /\ Answer = frame[1] /\ frame[1] \in Request
         /\ \A i \in 1..Len(frame) : frame[i] \in Request
BY HeadTailProperties DEF NextAnswer, Answer

(* The same of the dates.                                                   *)
LEMMA DatesTail ==
  ASSUME paramQ \in Seq(Date), paramQ # <<>>
  PROVE  /\ Tail(paramQ) \in Seq(Date)
         /\ Len(paramQ) \in Nat \ {0} /\ Len(Tail(paramQ)) = Len(paramQ) - 1
         /\ \A i \in 1..Len(Tail(paramQ)) : Tail(paramQ)[i] = paramQ[i + 1]
         /\ Head(paramQ) = paramQ[1] /\ Head(paramQ) \in Date /\ Head(paramQ) # None
BY HeadTailProperties, HistoryAssumption

(* The numbers that the constants are about.                                *)
LEMMA Numbers ==
  /\ CurrYear \in Nat /\ FirstYear \in Nat \ {0} /\ FirstYear < CurrYear /\ MaxDays \in Nat \ {0}
  /\ \A y \in Year : y \in Nat \ {0} /\ FirstYear <= y /\ y <= CurrYear
BY HistoryAssumption DEF Year

(* The dates of the valid days at the front of the queue, in any order.     *)
LEMMA DatesParts ==
  ASSUME requestQ \in Seq(Date \cup BadDate), NEW at \in Ordered(Kept)
  PROVE  /\ NewDates(at) \in Seq(Date)
         /\ DOMAIN at = 1..Len(NewDates(at)) /\ DOMAIN NewDates(at) = DOMAIN at
<1> DEFINE n == Cardinality(Kept)
<1>1. Drained \in Nat /\ Drained <= Len(requestQ)
  BY HistoryAssumption, LenProperties DEF Drained
<1>2. n \in Nat
  <2>1. IsFiniteSet(1..Drained)
    BY <1>1, FS_Interval
  <2>2. Kept \subseteq 1..Drained
    BY DEF Kept
  <2>3. QED
    BY <2>1, <2>2, FS_Subset, FS_CardinalityType
<1>3. at \in [1..n -> Kept]
  BY DEF Ordered
<1>4. \A i \in 1..n : at[i] \in Kept /\ requestQ[at[i]] \in Date
  BY <1>3 DEF Kept, Valid
<1>5. NewDates(at) = [i \in 1..n |-> requestQ[at[i]]]
  BY <1>3 DEF NewDates
<1> HIDE DEF n
<1>6. NewDates(at) \in Seq(Date) /\ Len(NewDates(at)) = n
  BY <1>2, <1>4, <1>5
<1>7. QED
  BY <1>3, <1>5, <1>6

(* The requests of every frame of a program that asks for history.          *)
LEMMA StandardParts ==
  ASSUME startYear \in Year, hstRequests \in BOOLEAN, e3dcTs \in BOOLEAN
  PROVE  /\ Standard \in Seq(Request)
         /\ Len(Standard) = IF HistoryOn THEN CurrYear - startYear + 3 ELSE 0
         /\ HistoryOn => /\ Standard[1] = Today /\ Standard[2] = Yesterday
                         /\ \A i \in 3..Len(Standard) :
                              /\ CurrYear + 3 - i \in Year
                              /\ Standard[i] = YearRequest(CurrYear + 3 - i)
<1> DEFINE n == CurrYear - startYear + 1
           years == [i \in 1..n |-> YearRequest(CurrYear - i + 1)]
           two == <<Today, Yesterday>>
<1>1. n \in Nat \ {0}
  BY Numbers
<1>2. \A i \in 1..n : CurrYear - i + 1 \in Year
  BY <1>1, Numbers DEF Year
<1>3. \A i \in 1..n : YearRequest(CurrYear - i + 1) \in Request
  BY <1>2, Named
<1>4. years \in Seq(Request) /\ Len(years) = n
  BY <1>1, <1>3
<1>5. two \in Seq(Request) /\ Len(two) = 2 /\ two[1] = Today /\ two[2] = Yesterday
  BY Named
<1>6. CASE HistoryOn
  <2>1. Standard = two \o years
    BY <1>6 DEF Standard, YearsAsked, Today, Yesterday
  <2> HIDE DEF years, two
  <2>2. /\ two \o years \in Seq(Request) /\ Len(two \o years) = 2 + n
        /\ \A i \in 1..(2 + n) : (two \o years)[i] = IF i <= 2 THEN two[i] ELSE years[i - 2]
    <3>1. /\ two \o years \in Seq(Request) /\ Len(two \o years) = Len(two) + Len(years)
          /\ \A i \in 1..(Len(two) + Len(years)) :
               (two \o years)[i] = IF i <= Len(two) THEN two[i] ELSE years[i - Len(two)]
      BY <1>4, <1>5, ConcatProperties
    <3> HIDE DEF n
    <3>2. QED
      BY <1>1, <1>4, <1>5, <3>1
  <2>3. \A i \in 3..(2 + n) :
          /\ i - 2 \in 1..n
          /\ years[i - 2] = YearRequest(CurrYear - (i - 2) + 1)
          /\ CurrYear - (i - 2) + 1 = CurrYear + 3 - i
    <3>1. TAKE i \in 3..(2 + n)
    <3>2. i \in Nat /\ i - 2 \in 1..n
      BY <1>1
    <3>3. years[i - 2] = YearRequest(CurrYear - (i - 2) + 1)
      BY <3>2 DEF years
    <3>4. CurrYear - (i - 2) + 1 = CurrYear + 3 - i
      BY <3>2, Numbers
    <3>5. QED
      BY <3>2, <3>3, <3>4
  <2>4. \A i \in 3..(2 + n) : CurrYear + 3 - i \in Year
    BY <1>2, <2>3
  <2>5. 2 + n = CurrYear - startYear + 3
    BY Numbers
  <2> HIDE DEF n
  <2>6. \A i \in 3..(2 + n) : (two \o years)[i] = YearRequest(CurrYear + 3 - i)
    BY <1>1, <2>2, <2>3
  <2>7. (two \o years)[1] = Today /\ (two \o years)[2] = Yesterday
    BY <1>1, <1>5, <2>2
  <2>8. QED
    BY <1>6, <2>1, <2>2, <2>4, <2>5, <2>6, <2>7
<1>7. CASE ~HistoryOn
  BY <1>7 DEF Standard
<1>8. QED
  BY <1>6, <1>7

(* The frame that createRequest builds, and the dates it remembers.         *)
LEMMA CreatedParts ==
  ASSUME HistoryInv, CreateRequest
  PROVE  \E dates \in Seq(Date) :
           /\ paramQ' = paramQ \o dates
           /\ disturbed' = (disturbed \/ (dates # <<>> /\ ~HistoryOn))
           /\ frame' \in Seq(Request) /\ Len(frame') = Len(Standard) + Len(dates)
           /\ \A i \in 1..Len(frame') :
                IF i <= Len(Standard)
                THEN frame'[i] = Standard[i]
                ELSE /\ i - Len(Standard) \in 1..Len(dates)
                     /\ frame'[i] = DayRequest(dates[i - Len(Standard)])
<1>1. PICK at \in Ordered(Kept) :
        LET dates == NewDates(at)
        IN /\ frame' = Standard \o [i \in DOMAIN at |-> DayRequest(dates[i])]
           /\ paramQ' = paramQ \o dates
           /\ disturbed' = (disturbed \/ (dates # <<>> /\ ~HistoryOn))
  BY DEF CreateRequest
<1> DEFINE dates == NewDates(at)
           asked == [i \in DOMAIN at |-> DayRequest(dates[i])]
<1>2. dates \in Seq(Date) /\ DOMAIN at = 1..Len(dates)
  BY DatesParts DEF HistoryInv, TypeOK
<1>3. Standard \in Seq(Request) /\ Len(Standard) \in Nat
  BY StandardParts, LenProperties DEF HistoryInv, TypeOK
<1>4. frame' = Standard \o asked /\ paramQ' = paramQ \o dates
      /\ disturbed' = (disturbed \/ (dates # <<>> /\ ~HistoryOn))
  BY <1>1
<1> HIDE DEF dates
<1>5. \A i \in 1..Len(dates) : dates[i] \in Date /\ DayRequest(dates[i]) \in Request
  BY <1>2, ElementOfSeq, Named
<1>6. asked \in Seq(Request) /\ Len(asked) = Len(dates) /\ Len(dates) \in Nat
  BY <1>2, <1>5, LenProperties
<1>7. \A i \in 1..Len(dates) : asked[i] = DayRequest(dates[i])
  BY <1>2
<1> HIDE DEF asked
<1>8. /\ frame' \in Seq(Request) /\ Len(frame') = Len(Standard) + Len(asked)
      /\ \A i \in 1..(Len(Standard) + Len(asked)) :
           frame'[i] = IF i <= Len(Standard) THEN Standard[i] ELSE asked[i - Len(Standard)]
  BY <1>3, <1>4, <1>6, ConcatProperties
<1>9. Len(frame') = Len(Standard) + Len(dates)
  BY <1>6, <1>8
<1>10. ASSUME NEW i \in 1..Len(frame')
       PROVE  IF i <= Len(Standard)
              THEN frame'[i] = Standard[i]
              ELSE /\ i - Len(Standard) \in 1..Len(dates)
                   /\ frame'[i] = DayRequest(dates[i - Len(Standard)])
  <2>1. CASE i <= Len(Standard)
    BY <1>6, <1>8, <2>1
  <2>2. CASE ~(i <= Len(Standard))
    <3>1. i - Len(Standard) \in 1..Len(dates)
      BY <1>3, <1>6, <1>9, <2>2
    <3>2. frame'[i] = asked[i - Len(Standard)]
      BY <1>6, <1>8, <2>2
    <3>3. QED
      BY <1>7, <2>2, <3>1, <3>2
  <2>3. QED
    BY <2>1, <2>2
<1>11. QED
  BY <1>2, <1>4, <1>8, <1>9, <1>10

-----------------------------------------------------------------------------
(* The invariant, conjunct by conjunct: the types.                          *)
LEMMA InitInv == Init => HistoryInv
<1> SUFFICES ASSUME Init PROVE HistoryInv
  OBVIOUS
<1>1. frame = <<>> /\ paramQ = <<>> /\ requestQ = <<>> /\ Len(frame) = 0 /\ Len(paramQ) = 0
  BY DEF Init
<1>2. TypeOK
  <2>1. startYear \in Year /\ day \in Nat /\ year \in (FirstYear - 1)..CurrYear
    BY Numbers DEF Init, Year
  <2>2. dayCell \in [DayCell -> DayCell \cup Date \cup {None}]
        /\ yearCell \in [Year -> Year \cup {0}]
    BY DEF Init
  <2>3. frame \in Seq(Request) /\ requestQ \in Seq(Date \cup BadDate) /\ paramQ \in Seq(Date)
    BY <1>1
  <2>4. asks \in 0..MaxAsk /\ faults \in 0..MaxFaults
    BY HistoryAssumption DEF Init
  <2>5. QED
    BY <2>1, <2>2, <2>3, <2>4 DEF Init, TypeOK
<1>3. Shape /\ NeverNameless /\ DaysCounted /\ YearsCounted /\ RangeCovers
  BY <1>1 DEF Init, Shape, NeverNameless, DaysCounted, YearsCounted, RangeCovers
<1>4. InStep
  BY <1>1 DEF InStep, DatesFit
<1>5. RightDate /\ RightYear
  BY DEF Init, RightDate, RightYear
<1>6. NotCutTooFar
  BY Numbers DEF Init, NotCutTooFar
<1>7. QED
  BY <1>2, <1>3, <1>4, <1>5, <1>6 DEF HistoryInv

(* The dates and what was served when a day answer is handled.              *)
LEMMA PoppedParts ==
  ASSUME TypeOK, Handling("day")
  PROVE  /\ frame[1] = Answer /\ Answer \in Request /\ Answer.of \in DayCell \cup Date
         /\ Popped # None => /\ day >= 2 /\ paramQ # <<>>
                             /\ Popped = paramQ[1] /\ Popped \in Date
         /\ Popped = None => day < 2 \/ paramQ = <<>>
<1>1. frame[1] = Answer /\ Answer \in Request
  BY HeadTailProperties DEF Handling, Answer, TypeOK
<1>2. Answer.of \in DayCell \cup Date
  BY <1>1, RequestParts DEF Handling, Std, Asked, OfYear
<1>3. CASE day >= 2 /\ paramQ # <<>>
  BY <1>1, <1>2, <1>3, DatesTail DEF Popped, TypeOK
<1>4. CASE ~(day >= 2 /\ paramQ # <<>>)
  BY <1>1, <1>2, <1>4 DEF Popped, TypeOK
<1>5. QED
  BY <1>3, <1>4

LEMMA StepType ==
  ASSUME HistoryInv, [Next]_vars
  PROVE  TypeOK'
<1> USE DEF HistoryInv
<1>1. CASE CreateRequest
  <2>1. PICK dates \in Seq(Date) : paramQ' = paramQ \o dates /\ frame' \in Seq(Request)
                                   /\ disturbed' = (disturbed \/ (dates # <<>> /\ ~HistoryOn))
    BY <1>1, CreatedParts
  <2>2. paramQ' \in Seq(Date)
    BY <2>1, ConcatProperties DEF TypeOK
  <2>3. requestQ' \in Seq(Date \cup BadDate)
    <3>1. Drained \in Nat /\ Drained <= Len(requestQ) /\ Len(requestQ) \in Nat
      BY HistoryAssumption, LenProperties DEF Drained, TypeOK
    <3>2. \A i \in (Drained + 1)..Len(requestQ) : requestQ[i] \in Date \cup BadDate
      BY <3>1, ElementOfSeq DEF TypeOK
    <3>3. QED
      BY <1>1, <3>1, <3>2, SubSeqProperties DEF CreateRequest, QueueRest, TypeOK
  <2>4. year' \in (FirstYear - 1)..CurrYear
    BY <1>1, Numbers DEF CreateRequest, TypeOK
  <2>5. disturbed' \in BOOLEAN
    BY <2>1 DEF TypeOK
  <2>6. QED
    BY <1>1, <2>1, <2>2, <2>3, <2>4, <2>5 DEF CreateRequest, TypeOK
<1>2. CASE Break
  BY <1>2 DEF Break, TypeOK
<1>3. CASE Receive
  BY <1>3, Numbers DEF Receive, ResetCounters, TypeOK
<1>4. CASE DayData
  <2>1. Handling("day") /\ NextAnswer /\ frame # <<>>
    BY <1>4 DEF DayData, Handling
  <2>2. frame' \in Seq(Request)
    BY <2>1, TailParts DEF TypeOK
  <2>3. paramQ' \in Seq(Date)
    BY <1>4, <2>1, PoppedParts, DatesTail DEF DayData, TypeOK
  <2>4. served' \subseteq [date : Date, answer : DayCell \cup Date, data : BOOLEAN]
    <3>1. Popped # None => [date |-> Popped, answer |-> Answer.of, data |-> TRUE]
                             \in [date : Date, answer : DayCell \cup Date, data : BOOLEAN]
      BY <2>1, PoppedParts
    <3>2. QED
      BY <1>4, <3>1 DEF DayData, TypeOK
  <2>5. dayCell' \in [DayCell -> DayCell \cup Date \cup {None}]
    BY <1>4, <2>1, PoppedParts DEF DayData, TypeOK
  <2>6. day' \in Nat
    BY <1>4 DEF DayData, TypeOK
  <2>7. QED
    BY <1>4, <2>2, <2>3, <2>4, <2>5, <2>6 DEF DayData, TypeOK
<1>5. CASE DayEmpty
  <2>1. Handling("day") /\ NextAnswer /\ frame # <<>>
    BY <1>5 DEF DayEmpty, Handling
  <2>2. frame' \in Seq(Request)
    BY <2>1, TailParts DEF TypeOK
  <2>3. paramQ' \in Seq(Date)
    BY <1>5, <2>1, PoppedParts, DatesTail DEF DayEmpty, TypeOK
  <2>4. served' \subseteq [date : Date, answer : DayCell \cup Date, data : BOOLEAN]
    <3>1. Popped # None => [date |-> Popped, answer |-> Answer.of, data |-> FALSE]
                             \in [date : Date, answer : DayCell \cup Date, data : BOOLEAN]
      BY <2>1, PoppedParts
    <3>2. QED
      BY <1>5, <3>1 DEF DayEmpty, TypeOK
  <2>5. faults' \in 0..MaxFaults
    BY <1>5, HistoryAssumption DEF DayEmpty, TypeOK
  <2>6. disturbed' \in BOOLEAN
    BY <1>5 DEF DayEmpty, TypeOK
  <2>7. QED
    BY <1>5, <2>2, <2>3, <2>4, <2>5, <2>6 DEF DayEmpty, TypeOK
<1>6. CASE DayError
  <2>1. Handling("day") /\ NextAnswer /\ frame # <<>>
    BY <1>6 DEF DayError, Handling
  <2>2. frame' \in Seq(Request)
    BY <2>1, TailParts DEF TypeOK
  <2>3. faults' \in 0..MaxFaults
    BY <1>6, HistoryAssumption DEF DayError, TypeOK
  <2>4. QED
    BY <1>6, <2>2, <2>3 DEF DayError, TypeOK
<1>7. CASE YearData
  <2>1. Handling("year") /\ NextAnswer /\ frame # <<>>
    BY <1>7 DEF YearData, Handling
  <2>2. frame' \in Seq(Request) /\ Answer = frame[1] /\ frame[1] \in Request
        /\ 1 \in 1..Len(frame)
    BY <2>1, TailParts DEF TypeOK
  <2>3. OfYear(frame[1]) /\ Answer.of \in Year
    BY <2>1, <2>2, RequestParts DEF Handling, OfYear
  <2>4. year >= FirstYear
    BY <1>7, <2>1, <2>2, <2>3, Numbers DEF YearsCounted, Handling
  <2>5. year' \in (FirstYear - 1)..CurrYear
    BY <1>7, <2>4, Numbers DEF YearData, TypeOK
  <2>6. yearCell' \in [Year -> Year \cup {0}]
    BY <1>7, <2>3 DEF YearData, TypeOK
  <2>7. QED
    BY <1>7, <2>2, <2>5, <2>6 DEF YearData, TypeOK
<1>8. CASE YearError
  <2>1. Handling("year") /\ NextAnswer /\ frame # <<>>
    BY <1>8 DEF YearError, Handling
  <2>2. frame' \in Seq(Request)
    BY <2>1, TailParts DEF TypeOK
  <2>3. startYear' \in Year
    BY <1>8, Numbers DEF YearError, Corrected, TypeOK, Year
  <2>4. faults' \in 0..MaxFaults /\ yearShifted' \in BOOLEAN
    <3>1. CASE Answer.of < install
      BY <1>8, <3>1 DEF YearError, TypeOK
    <3>2. CASE ~(Answer.of < install)
      <4>1. faults < MaxFaults /\ faults' = faults + 1 /\ yearShifted' = TRUE
        BY <1>8, <3>2 DEF YearError
      <4>2. QED
        BY <4>1, HistoryAssumption DEF TypeOK
    <3>3. QED
      BY <3>1, <3>2
  <2>5. QED
    BY <1>8, <2>2, <2>3, <2>4 DEF YearError, TypeOK
<1>9. CASE EndFrame
  BY <1>9 DEF EndFrame, TypeOK
<1>10. ASSUME NEW d \in Date \cup BadDate, Ask(d) PROVE TypeOK'
  <2>1. requestQ' \in Seq(Date \cup BadDate)
    BY <1>10, AppendProperties DEF Ask, TypeOK
  <2>2. asks' \in 0..MaxAsk
    BY <1>10, HistoryAssumption DEF Ask, TypeOK
  <2>3. QED
    BY <1>10, <2>1, <2>2 DEF Ask, TypeOK
<1>11. CASE UNCHANGED vars
  BY <1>11 DEF vars, TypeOK
<1>12. QED
  BY <1>1, <1>2, <1>3, <1>4, <1>5, <1>6, <1>7, <1>8, <1>9, <1>10, <1>11 DEF Next, Main

-----------------------------------------------------------------------------
(* What stands where in a frame that createRequest has built.               *)
LEMMA CreatedKinds ==
  ASSUME HistoryInv, CreateRequest
  PROVE  /\ Len(Standard) \in Nat /\ Len(frame') \in Nat /\ Len(Standard) <= Len(frame')
         /\ IF HistoryOn THEN Len(Standard) >= 3 ELSE Len(Standard) = 0
         /\ Len(Standard) > 0 => frame'[1] = Today /\ frame'[2] = Yesterday
         /\ \A i \in 1..Len(frame') :
              /\ Std(frame'[i]) <=> i <= 2 /\ i <= Len(Standard)
              /\ OfYear(frame'[i]) <=> 3 <= i /\ i <= Len(Standard)
              /\ Asked(frame'[i]) <=> i > Len(Standard)
              /\ OfYear(frame'[i]) => frame'[i].of = CurrYear + 3 - i /\ frame'[i].of >= startYear
<1> DEFINE s == Len(Standard)
<1>1. PICK dates \in Seq(Date) :
        /\ frame' \in Seq(Request) /\ Len(frame') = s + Len(dates)
        /\ \A i \in 1..Len(frame') :
             IF i <= s
             THEN frame'[i] = Standard[i]
             ELSE /\ i - s \in 1..Len(dates)
                  /\ frame'[i] = DayRequest(dates[i - s])
  BY CreatedParts
<1>2. /\ Standard \in Seq(Request)
      /\ s = IF HistoryOn THEN CurrYear - startYear + 3 ELSE 0
      /\ HistoryOn => /\ Standard[1] = Today /\ Standard[2] = Yesterday
                      /\ \A i \in 3..s : /\ CurrYear + 3 - i \in Year
                                         /\ Standard[i] = YearRequest(CurrYear + 3 - i)
  BY StandardParts DEF HistoryInv, TypeOK
<1>3. s \in Nat /\ Len(dates) \in Nat
  BY <1>2, LenProperties
<1>4. startYear \in Year /\ CurrYear \in Nat /\ startYear \in Nat /\ startYear <= CurrYear
  BY Numbers DEF HistoryInv, TypeOK
<1>5. IF HistoryOn THEN s >= 3 /\ s = CurrYear - startYear + 3 ELSE s = 0
  BY <1>2, <1>4
<1> HIDE DEF s
<1>6. Len(frame') \in Nat /\ s <= Len(frame')
  BY <1>1, <1>3
<1>7. ASSUME s > 0 PROVE HistoryOn /\ frame'[1] = Today /\ frame'[2] = Yesterday
  <2>1. HistoryOn /\ s >= 3
    BY <1>5, <1>7
  <2>2. 1 \in 1..Len(frame') /\ 2 \in 1..Len(frame')
    BY <1>6, <1>3, <2>1
  <2>3. QED
    BY <1>1, <1>2, <2>1, <2>2, <1>3
<1>8. ASSUME NEW i \in 1..Len(frame')
      PROVE  /\ Std(frame'[i]) <=> i <= 2 /\ i <= s
             /\ OfYear(frame'[i]) <=> 3 <= i /\ i <= s
             /\ Asked(frame'[i]) <=> i > s
             /\ OfYear(frame'[i]) => frame'[i].of = CurrYear + 3 - i /\ frame'[i].of >= startYear
  <2>1. i \in Nat /\ i >= 1
    BY <1>6
  <2>2. CASE i <= s /\ i <= 2
    <3>1. frame'[i] = Today \/ frame'[i] = Yesterday
      BY <2>1, <2>2, <1>3, <1>7
    <3>2. Std(frame'[i]) /\ ~OfYear(frame'[i]) /\ ~Asked(frame'[i])
      BY <3>1, Named, RequestParts
    <3>3. QED
      BY <2>1, <2>2, <3>2, <1>3
  <2>3. CASE i <= s /\ 3 <= i
    <3>1. HistoryOn /\ i \in 3..s
      BY <1>3, <1>5, <2>1, <2>3
    <3>2. CurrYear + 3 - i \in Year /\ frame'[i] = YearRequest(CurrYear + 3 - i)
      BY <1>1, <1>2, <2>3, <3>1
    <3>3. OfYear(frame'[i]) /\ frame'[i].of = CurrYear + 3 - i /\ frame'[i] \in Request
      BY <3>2, Named
    <3>4. ~Std(frame'[i]) /\ ~Asked(frame'[i])
      BY <3>3, RequestParts
    <3>5. CurrYear + 3 - i >= startYear
      BY <1>3, <1>4, <1>5, <2>1, <2>3, <3>1
    <3>6. QED
      BY <1>3, <2>1, <2>3, <3>3, <3>4, <3>5
  <2>4. CASE i > s
    <3>1. i - s \in 1..Len(dates) /\ frame'[i] = DayRequest(dates[i - s])
      BY <1>1, <1>3, <2>1, <2>4
    <3>2. dates[i - s] \in Date
      BY <3>1, ElementOfSeq
    <3>3. Asked(frame'[i]) /\ frame'[i] \in Request
      BY <3>1, <3>2, Named
    <3>4. ~Std(frame'[i]) /\ ~OfYear(frame'[i])
      BY <3>3, RequestParts
    <3>5. QED
      BY <1>3, <2>1, <2>4, <3>3, <3>4
  <2>5. QED
    BY <1>3, <2>1, <2>2, <2>3, <2>4
<1>9. QED
  BY <1>3, <1>5, <1>6, <1>7, <1>8 DEF s

(* The order of a frame outlives the handling of its first answer.          *)
LEMMA ShapeOfTail ==
  ASSUME TypeOK, Shape, frame # <<>>, NextAnswer, pc' = "handle"
  PROVE  Shape'
<1>1. /\ Len(frame) \in Nat \ {0} /\ Len(frame') = Len(frame) - 1
      /\ \A i \in 1..Len(frame') : i + 1 \in 1..Len(frame) /\ frame'[i] = frame[i + 1]
  BY TailParts DEF TypeOK
<1>2. ASSUME NEW i \in 1..Len(frame'), NEW j \in 1..Len(frame')
      PROVE  /\ i < j /\ Std(frame'[j]) => frame'[i] = Today /\ frame'[j] = Yesterday
             /\ i < j /\ Asked(frame'[i]) => Asked(frame'[j])
             /\ OfYear(frame'[i]) /\ OfYear(frame'[j]) => frame'[i].of + i = frame'[j].of + j
  <2>1. i + 1 \in 1..Len(frame) /\ j + 1 \in 1..Len(frame) /\ (i < j <=> i + 1 < j + 1)
        /\ frame'[i] = frame[i + 1] /\ frame'[j] = frame[j + 1] /\ i \in Nat /\ j \in Nat
    BY <1>1
  <2>2. i < j /\ Std(frame[j + 1]) => frame[i + 1] = Today /\ frame[j + 1] = Yesterday
    BY <2>1 DEF Shape
  <2>3. i < j /\ Asked(frame[i + 1]) => Asked(frame[j + 1])
    BY <2>1 DEF Shape
  <2>4. ASSUME OfYear(frame[i + 1]), OfYear(frame[j + 1])
        PROVE  frame[i + 1].of + i = frame[j + 1].of + j
    <3> DEFINE a == frame[i + 1].of
               b == frame[j + 1].of
    <3>1. a + (i + 1) = b + (j + 1)
      BY <2>1, <2>4 DEF Shape
    <3>2. frame[i + 1] \in Request /\ frame[j + 1] \in Request
      BY <2>1, ElementOfSeq DEF TypeOK
    <3>3. a \in Nat /\ b \in Nat
      BY <2>4, <3>2, RequestParts, Numbers
    <3> HIDE DEF a, b
    <3>4. a + i = b + j
      BY <2>1, <3>1, <3>3
    <3>5. QED
      BY <3>4 DEF a, b
  <2>5. QED
    BY <2>1, <2>2, <2>3, <2>4
<1>3. QED
  BY <1>2 DEF Shape, Std, Asked, OfYear, Today, Yesterday, DayRequest

LEMMA StepShape ==
  ASSUME HistoryInv, [Next]_vars
  PROVE  Shape'
<1> USE DEF HistoryInv
<1>1. CASE CreateRequest
  <2>1. ASSUME NEW i \in 1..Len(frame'), NEW j \in 1..Len(frame')
        PROVE  /\ i < j /\ Std(frame'[j]) => frame'[i] = Today /\ frame'[j] = Yesterday
               /\ i < j /\ Asked(frame'[i]) => Asked(frame'[j])
               /\ OfYear(frame'[i]) /\ OfYear(frame'[j]) => frame'[i].of + i = frame'[j].of + j
    <3>1. i \in Nat /\ i >= 1 /\ j \in Nat /\ j >= 1
      BY <1>1, CreatedKinds
    <3>2. ASSUME i < j, Std(frame'[j]) PROVE frame'[i] = Today /\ frame'[j] = Yesterday
      <4>1. j <= 2 /\ j <= Len(Standard) /\ Len(Standard) \in Nat
        BY <1>1, <3>2, CreatedKinds
      <4>2. i = 1 /\ j = 2 /\ Len(Standard) > 0
        BY <3>1, <3>2, <4>1
      <4>3. QED
        BY <1>1, <4>2, CreatedKinds
    <3>3. ASSUME i < j, Asked(frame'[i]) PROVE Asked(frame'[j])
      BY <1>1, <3>1, <3>3, CreatedKinds
    <3>4. ASSUME OfYear(frame'[i]), OfYear(frame'[j])
          PROVE  frame'[i].of + i = frame'[j].of + j
      <4>1. frame'[i].of = CurrYear + 3 - i /\ frame'[j].of = CurrYear + 3 - j
        BY <1>1, <3>4, CreatedKinds
      <4>2. QED
        BY <3>1, <4>1, Numbers
    <3>5. QED
      BY <3>2, <3>3, <3>4
  <2>2. pc' = "answer"
    BY <1>1 DEF CreateRequest
  <2>3. QED
    BY <2>1, <2>2 DEF Shape, Std, Asked, OfYear, Today, Yesterday, DayRequest
<1>2. CASE Break
  <2>1. frame' = <<>> /\ Len(frame') = 0
    BY <1>2 DEF Break
  <2>2. QED
    BY <2>1 DEF Shape
<1>3. CASE Receive
  BY <1>3 DEF Receive, Shape, Std, Asked, OfYear, Today, Yesterday, DayRequest
<1>4. CASE DayData
  BY <1>4, ShapeOfTail DEF DayData, Handling
<1>5. CASE DayEmpty
  BY <1>5, ShapeOfTail DEF DayEmpty, Handling
<1>6. CASE DayError
  BY <1>6, ShapeOfTail DEF DayError, Handling
<1>7. CASE YearData
  BY <1>7, ShapeOfTail DEF YearData, Handling
<1>8. CASE YearError
  BY <1>8, ShapeOfTail DEF YearError, Handling
<1>9. CASE EndFrame
  BY <1>9 DEF EndFrame, Shape, Std, Asked, OfYear, Today, Yesterday, DayRequest
<1>10. ASSUME NEW d \in Date \cup BadDate, Ask(d) PROVE Shape'
  BY <1>10 DEF Ask, Shape, Std, Asked, OfYear, Today, Yesterday, DayRequest
<1>11. CASE UNCHANGED vars
  BY <1>11 DEF vars, Shape, Std, Asked, OfYear, Today, Yesterday, DayRequest
<1>12. QED
  BY <1>1, <1>2, <1>3, <1>4, <1>5, <1>6, <1>7, <1>8, <1>9, <1>10, <1>11 DEF Next, Main

-----------------------------------------------------------------------------
(* A date is popped for a requested day only. As long as days and dates are *)
(* in step it is popped for each, and today and yesterday are counted.      *)
LEMMA DayAnswer ==
  ASSUME HistoryInv, Handling("day")
  PROVE  /\ Popped # None => Asked(frame[1])
         /\ ~disturbed /\ Popped = None => /\ ~Asked(frame[1])
                                           /\ \/ frame[1] = Today /\ day = 0
                                              \/ frame[1] = Yesterday /\ day = 1
<1> USE DEF HistoryInv
<1>1. pc = "handle" /\ frame # <<>> /\ frame[1] \in Request /\ ~OfYear(frame[1])
      /\ Len(frame) \in Nat \ {0} /\ day \in Nat
  BY PoppedParts, LenProperties DEF Handling, TypeOK, OfYear
<1>2. Std(frame[1]) => (frame[1] = Today /\ day = 0) \/ (frame[1] = Yesterday /\ day <= 1)
  BY <1>1, RequestParts DEF DaysCounted
<1>3. ASSUME Popped # None PROVE Asked(frame[1])
  <2>1. day >= 2
    BY <1>3, PoppedParts
  <2>2. QED
    BY <1>1, <1>2, <2>1, RequestParts
<1>4. ASSUME ~disturbed, Popped = None
      PROVE  /\ ~Asked(frame[1])
             /\ (frame[1] = Today /\ day = 0) \/ (frame[1] = Yesterday /\ day = 1)
  <2>1. ASSUME Asked(frame[1]) PROVE FALSE
    <3>1. 1 \in 1..Len(frame) /\ Len(paramQ) \in Nat
      BY <1>1, LenProperties DEF TypeOK
    <3>2. ~(1 <= Len(frame) - Len(paramQ))
      BY <1>4, <2>1, <3>1 DEF InStep, DatesFit
    <3>3. Len(paramQ) >= 1
      BY <1>1, <3>1, <3>2
    <3>4. paramQ # <<>>
      BY <3>3
    <3>5. day < 2
      BY <1>4, <3>4, PoppedParts
    <3>6. frame[1] = Today \/ frame[1] = Yesterday
      BY <1>1, <1>4, <3>4, <3>5 DEF DaysCounted
    <3>7. QED
      BY <2>1, <3>6, Named, RequestParts
  <2>2. Std(frame[1])
    BY <1>1, <2>1, RequestParts
  <2>3. frame[1] = Yesterday => day = 1
    BY <1>1, <1>4 DEF DaysCounted
  <2>4. QED
    BY <1>2, <2>1, <2>2, <2>3
<1>5. QED
  BY <1>3, <1>4

(* Dates and answers fit after an answer that is no requested day.          *)
LEMMA FitKept ==
  ASSUME TypeOK, DatesFit, frame # <<>>, ~Asked(frame[1]), NextAnswer, paramQ' = paramQ
  PROVE  DatesFit'
<1>1. /\ frame' \in Seq(Request) /\ Len(frame) \in Nat \ {0} /\ Len(frame') = Len(frame) - 1
      /\ \A i \in 1..Len(frame') : i + 1 \in 1..Len(frame) /\ frame'[i] = frame[i + 1]
  BY TailParts DEF TypeOK
<1>2. Len(paramQ) \in Nat /\ paramQ \in Seq(Date)
  BY LenProperties DEF TypeOK
<1> DEFINE others == Len(frame) - Len(paramQ)
           left == Len(frame') - Len(paramQ)
<1>3. others >= 0 /\ \A i \in 1..Len(frame) :
        IF i <= others THEN ~Asked(frame[i]) ELSE frame[i] = DayRequest(paramQ[i - others])
  BY DEF DatesFit
<1>4. others # 0
  <2>1. SUFFICES ASSUME others = 0 PROVE FALSE
    OBVIOUS
  <2>2. 1 \in 1..Len(frame) /\ 1 - others = 1 /\ ~(1 <= others) /\ 1 \in 1..Len(paramQ)
    BY <1>1, <1>2, <2>1
  <2>3. frame[1] = DayRequest(paramQ[1]) /\ paramQ[1] \in Date
    BY <1>2, <1>3, <2>2
  <2>4. QED
    BY <2>3, Named
<1>5. left = others - 1 /\ left \in Nat
  BY <1>1, <1>2, <1>3, <1>4
<1>6. ASSUME NEW i \in 1..Len(frame')
      PROVE  IF i <= left THEN ~Asked(frame'[i]) ELSE frame'[i] = DayRequest(paramQ[i - left])
  <2>1. i + 1 \in 1..Len(frame) /\ frame'[i] = frame[i + 1] /\ i \in Nat
    BY <1>1
  <2>2. (i <= left <=> i + 1 <= others) /\ (i + 1) - others = i - left
    BY <1>1, <1>2, <1>5, <2>1
  <2> HIDE DEF others, left
  <2>3. IF i + 1 <= others THEN ~Asked(frame[i + 1])
        ELSE frame[i + 1] = DayRequest(paramQ[(i + 1) - others])
    BY <1>3, <2>1
  <2>4. QED
    BY <2>1, <2>2, <2>3
<1>7. left >= 0 /\ left = Len(frame') - Len(paramQ')
  BY <1>5
<1> HIDE DEF others, left
<1>8. \A i \in 1..Len(frame') :
        IF i <= left THEN ~Asked(frame'[i]) ELSE frame'[i] = DayRequest(paramQ'[i - left])
  BY <1>6
<1>9. QED
  BY <1>7, <1>8 DEF DatesFit, Asked, DayRequest

(* They fit after a requested day that took its date.                       *)
LEMMA FitPopped ==
  ASSUME TypeOK, DatesFit, frame # <<>>, Asked(frame[1]), paramQ # <<>>,
         NextAnswer, paramQ' = Tail(paramQ)
  PROVE  DatesFit' /\ frame[1] = DayRequest(paramQ[1])
<1>1. /\ frame' \in Seq(Request) /\ Len(frame) \in Nat \ {0} /\ Len(frame') = Len(frame) - 1
      /\ \A i \in 1..Len(frame') : i + 1 \in 1..Len(frame) /\ frame'[i] = frame[i + 1]
  BY TailParts DEF TypeOK
<1>2. /\ Len(paramQ) \in Nat \ {0} /\ Len(paramQ') = Len(paramQ) - 1
      /\ \A i \in 1..Len(paramQ') : paramQ'[i] = paramQ[i + 1]
  BY DatesTail DEF TypeOK
<1>3. 1 \in 1..Len(frame)
  BY <1>1
<1>4. Len(frame) = Len(paramQ)
  <2>1. Len(frame) - Len(paramQ) >= 0 /\ ~(1 <= Len(frame) - Len(paramQ))
    BY <1>3 DEF DatesFit
  <2>2. Len(frame) \in Nat /\ Len(paramQ) \in Nat
    BY <1>1, <1>2
  <2>3. QED
    BY <2>1, <2>2
<1>5. ASSUME NEW i \in 1..Len(frame) PROVE frame[i] = DayRequest(paramQ[i])
  <2>1. i \in Nat /\ i >= 1 /\ Len(frame) - Len(paramQ) = 0 /\ ~(i <= 0) /\ i - 0 = i
    BY <1>1, <1>4
  <2>2. QED
    BY <2>1 DEF DatesFit
<1>6. ASSUME NEW i \in 1..Len(frame')
      PROVE  frame'[i] = DayRequest(paramQ'[i]) /\ i - 0 = i /\ ~(i <= 0)
  <2>1. i + 1 \in 1..Len(frame) /\ frame'[i] = frame[i + 1] /\ i \in 1..Len(paramQ')
    BY <1>1, <1>2, <1>4
  <2>2. QED
    BY <1>1, <1>2, <1>5, <2>1
<1>7. Len(frame') - Len(paramQ') = 0
  BY <1>1, <1>2, <1>4
<1>8. QED
  BY <1>3, <1>5, <1>6, <1>7 DEF DatesFit, Asked, DayRequest

(* An answer that takes no date away leaves as many dates as before for the *)
(* requested days after it.                                                 *)
LEMMA NamesKept ==
  ASSUME TypeOK, NeverNameless, frame # <<>>, NextAnswer, paramQ' = paramQ
  PROVE  NeverNameless'
<1>1. /\ Len(frame) \in Nat \ {0} /\ Len(frame') = Len(frame) - 1
      /\ \A i \in 1..Len(frame') : i + 1 \in 1..Len(frame) /\ frame'[i] = frame[i + 1]
  BY TailParts DEF TypeOK
<1>2. ASSUME NEW i \in 1..Len(frame'), Asked(frame'[i])
      PROVE  Len(frame') - i < Len(paramQ')
  <2>1. i + 1 \in 1..Len(frame) /\ Asked(frame[i + 1]) /\ Len(frame') - i = Len(frame) - (i + 1)
    BY <1>1, <1>2
  <2>2. Len(frame) - (i + 1) < Len(paramQ)
    BY <2>1 DEF NeverNameless
  <2>3. QED
    BY <2>1, <2>2
<1>3. QED
  BY <1>2 DEF NeverNameless, Asked

(* One that takes a date is a requested day itself.                         *)
LEMMA NamesPopped ==
  ASSUME TypeOK, NeverNameless, frame # <<>>, Asked(frame[1]), paramQ # <<>>,
         NextAnswer, paramQ' = Tail(paramQ)
  PROVE  NeverNameless'
<1>1. /\ Len(frame) \in Nat \ {0} /\ Len(frame') = Len(frame) - 1
  BY TailParts DEF TypeOK
<1>2. Len(paramQ) \in Nat \ {0} /\ Len(paramQ') = Len(paramQ) - 1
  BY DatesTail DEF TypeOK
<1>3. 1 \in 1..Len(frame)
  BY <1>1
<1>4. Len(frame) - 1 < Len(paramQ)
  BY <1>3 DEF NeverNameless
<1>5. ASSUME NEW i \in 1..Len(frame') PROVE Len(frame') - i < Len(paramQ')
  BY <1>1, <1>2, <1>4
<1>6. QED
  BY <1>5 DEF NeverNameless

(* What comes before today and yesterday in what is left of a frame.        *)
LEMMA NextStd ==
  ASSUME TypeOK, Shape, frame # <<>>, NextAnswer, frame' # <<>>
  PROVE  /\ frame'[1] # Today
         /\ frame'[1] = Yesterday => frame[1] = Today
         /\ Len(frame) >= 2 /\ frame'[1] = frame[2]
<1>1. /\ Len(frame) \in Nat \ {0} /\ Len(frame') = Len(frame) - 1 /\ frame' \in Seq(Request)
      /\ \A i \in 1..Len(frame') : i + 1 \in 1..Len(frame) /\ frame'[i] = frame[i + 1]
  BY TailParts DEF TypeOK
<1>2. Len(frame') # 0
  BY <1>1
<1>3. 1 \in 1..Len(frame') /\ 1 \in 1..Len(frame) /\ 2 \in 1..Len(frame) /\ Len(frame) >= 2
  BY <1>1, <1>2
<1>4. frame'[1] = frame[2]
  BY <1>1, <1>3
<1>5. Std(frame[2]) => frame[1] = Today /\ frame[2] = Yesterday
  BY <1>3 DEF Shape
<1>6. QED
  BY <1>3, <1>4, <1>5, Named

(* The counter of the days after an answer that is no day.                  *)
LEMMA DaysAfterYear ==
  ASSUME HistoryInv, Handling("year"), NextAnswer, UNCHANGED <<pc, day, paramQ, disturbed>>
  PROVE  InStep' /\ NeverNameless' /\ DaysCounted'
<1> USE DEF HistoryInv
<1>1. frame # <<>> /\ pc = "handle" /\ frame[1] \in Request /\ OfYear(frame[1])
  BY TailParts DEF Handling, OfYear, TypeOK
<1>2. ~Asked(frame[1]) /\ frame[1] # Today /\ frame[1] # Yesterday
  BY <1>1, RequestParts, Named
<1>3. InStep' /\ (~disturbed => DatesFit')
  BY <1>1, <1>2, FitKept DEF InStep
<1>4. NeverNameless'
  BY <1>1, NamesKept
<1>5. frame' # <<>> => frame'[1] # Today /\ frame'[1] # Yesterday
  BY <1>1, <1>2, NextStd
<1>6. ASSUME ~disturbed, paramQ # <<>> PROVE day >= 2 /\ frame' # <<>>
  <2>1. day >= 2
    BY <1>2, <1>6 DEF DaysCounted
  <2>2. DatesFit' /\ Len(paramQ) \in Nat \ {0} /\ Len(frame') \in Nat
    BY <1>1, <1>3, <1>6, TailParts, DatesTail DEF TypeOK
  <2>3. Len(frame') - Len(paramQ) >= 0
    BY <2>2 DEF DatesFit
  <2>4. Len(frame') # 0
    BY <2>2, <2>3
  <2>5. QED
    BY <2>1, <2>4
<1>7. pc' = "handle"
  BY <1>1
<1>8. DaysCounted'
  BY <1>5, <1>6, <1>7 DEF DaysCounted, Today, Yesterday, DayRequest
<1>9. QED
  BY <1>3, <1>4, <1>8

(* Nothing that is said about days changes where frame, queue and counter   *)
(* stay as they are.                                                        *)
LEMMA DaysUntouched ==
  ASSUME HistoryInv, UNCHANGED <<frame, paramQ, day, pc, disturbed, served, dayCell>>
  PROVE  InStep' /\ NeverNameless' /\ DaysCounted' /\ RightDate'
<1> USE DEF HistoryInv
<1>1. InStep' /\ NeverNameless'
  BY DEF InStep, DatesFit, NeverNameless, Asked, DayRequest
<1>2. DaysCounted'
  BY DEF DaysCounted, Today, Yesterday, DayRequest
<1>3. RightDate'
  BY DEF RightDate
<1>4. QED
  BY <1>1, <1>2, <1>3

(* createRequest: dates and requested days are added one for one, behind    *)
(* today and yesterday unless history is off.                               *)
LEMMA DaysCreated ==
  ASSUME HistoryInv, CreateRequest
  PROVE  InStep' /\ NeverNameless' /\ DaysCounted' /\ RightDate'
<1> USE DEF HistoryInv
<1> DEFINE s == Len(Standard)
<1>1. PICK dates \in Seq(Date) :
        /\ paramQ' = paramQ \o dates
        /\ disturbed' = (disturbed \/ (dates # <<>> /\ ~HistoryOn))
        /\ frame' \in Seq(Request) /\ Len(frame') = s + Len(dates)
        /\ \A i \in 1..Len(frame') :
             IF i <= s
             THEN frame'[i] = Standard[i]
             ELSE /\ i - s \in 1..Len(dates)
                  /\ frame'[i] = DayRequest(dates[i - s])
  BY CreatedParts
<1>2. Len(dates) \in Nat /\ Len(paramQ) \in Nat /\ Len(paramQ') = Len(paramQ) + Len(dates)
  BY <1>1, LenProperties, ConcatProperties DEF TypeOK
<1>3. /\ s \in Nat /\ (HistoryOn => s >= 3)
      /\ s > 0 => frame'[1] = Today /\ frame'[2] = Yesterday
      /\ \A i \in 1..Len(frame') :
           (Std(frame'[i]) <=> i <= 2 /\ i <= s) /\ (Asked(frame'[i]) <=> i > s)
  BY CreatedKinds
<1>4. pc = "create" /\ frame = <<>> /\ pc' = "answer"
  BY DEF CreateRequest, Shape
<1>5. ~disturbed => paramQ = <<>>
  <2>1. Len(frame) = 0
    BY <1>4
  <2>2. ~disturbed => Len(frame) - Len(paramQ) >= 0
    BY DEF InStep, DatesFit
  <2>3. ~disturbed => Len(paramQ) = 0
    BY <1>2, <2>1, <2>2
  <2>4. QED
    BY <2>3, EmptySeq DEF TypeOK
<1> HIDE DEF s
<1>6. ASSUME ~disturbed' PROVE DatesFit'
  <2>1. paramQ' = dates
    BY <1>1, <1>5, <1>6, ConcatEmptySeq
  <2>2. Len(frame') - Len(paramQ') = s
    BY <1>1, <1>2, <1>3, <2>1
  <2>3. ASSUME NEW i \in 1..Len(frame')
        PROVE  IF i <= s THEN ~Asked(frame'[i]) ELSE frame'[i] = DayRequest(paramQ'[i - s])
    <3>1. i \in Nat
      BY <1>1, <1>2, <1>3
    <3>2. QED
      BY <1>1, <1>3, <2>1, <3>1
  <2>4. QED
    BY <1>3, <2>2, <2>3 DEF DatesFit, Asked, DayRequest
<1>7. NeverNameless'
  <2>1. ASSUME NEW i \in 1..Len(frame'), Asked(frame'[i])
        PROVE  Len(frame') - i < Len(paramQ')
    <3>1. i > s /\ i \in Nat
      BY <1>1, <1>2, <1>3, <2>1
    <3>2. QED
      BY <1>1, <1>2, <1>3, <3>1
  <2>2. QED
    BY <2>1 DEF NeverNameless, Asked
<1>8. DaysCounted'
  <2>1. ASSUME frame' # <<>> PROVE frame'[1] # Yesterday
    <3>1. Len(frame') \in Nat /\ Len(frame') # 0
      BY <1>1, <2>1, EmptySeq
    <3>2. 1 \in 1..Len(frame')
      BY <3>1
    <3>3. CASE s > 0
      BY <1>3, <3>3, Named
    <3>4. CASE ~(s > 0)
      <4>1. ~(1 <= s)
        BY <1>3, <3>4
      <4>2. QED
        BY <1>3, <3>2, <4>1, Named
    <3>5. QED
      BY <3>3, <3>4
  <2>2. ASSUME ~disturbed', paramQ' # <<>>
        PROVE  Len(frame') >= 2 /\ frame'[1] = Today /\ frame'[2] = Yesterday
    <3>1. paramQ = <<>> /\ dates # <<>>
      BY <1>1, <1>5, <2>2, ConcatEmptySeq
    <3>2. HistoryOn
      BY <1>1, <2>2, <3>1
    <3>3. s >= 3
      BY <1>3, <3>2
    <3>4. QED
      BY <1>1, <1>2, <1>3, <3>3
  <2>3. QED
    BY <1>4, <2>1, <2>2 DEF DaysCounted, Today, Yesterday, DayRequest
<1>9. RightDate'
  BY <1>1 DEF CreateRequest, RightDate
<1>10. QED
  BY <1>6, <1>7, <1>8, <1>9 DEF InStep

(* A day with data: today and yesterday are counted, a requested day takes  *)
(* its date and goes out under it.                                          *)
LEMMA DaysAfterData ==
  ASSUME HistoryInv, DayData
  PROVE  InStep' /\ NeverNameless' /\ DaysCounted' /\ RightDate'
<1> USE DEF HistoryInv
<1>1. Handling("day") /\ NextAnswer /\ frame # <<>> /\ pc = "handle" /\ pc' = "handle"
      /\ disturbed' = disturbed /\ day' = day + 1 /\ day \in Nat
  BY DEF DayData, Handling, TypeOK
<1>2. frame[1] = Answer /\ Answer \in Request
  BY <1>1, PoppedParts
<1>3. CASE Popped # None
  <2>1. Asked(frame[1]) /\ paramQ # <<>> /\ paramQ' = Tail(paramQ) /\ Popped = paramQ[1]
        /\ day >= 2
    BY <1>1, <1>3, DayAnswer, PoppedParts DEF DayData
  <2>2. NeverNameless'
    BY <1>1, <2>1, NamesPopped
  <2>3. ~disturbed => DatesFit' /\ frame[1] = DayRequest(paramQ[1])
    BY <1>1, <2>1, FitPopped DEF InStep
  <2>4. Answer # Today /\ ~Std(frame[1])
    BY <1>2, <2>1, RequestParts, Named
  <2>5. frame' # <<>> => frame'[1] # Today /\ frame'[1] # Yesterday
    BY <1>1, <1>2, <2>4, NextStd
  <2>6. ASSUME ~disturbed, paramQ' # <<>> PROVE frame' # <<>> /\ day' >= 2
    <3>1. Len(frame') \in Nat /\ Len(paramQ') \in Nat /\ paramQ' \in Seq(Date)
      BY <1>1, <2>1, TailParts, DatesTail, LenProperties DEF TypeOK
    <3>2. Len(paramQ') # 0
      BY <2>6, <3>1, EmptySeq
    <3>3. Len(frame') - Len(paramQ') >= 0
      BY <2>3, <2>6 DEF DatesFit
    <3>4. Len(frame') # 0
      BY <3>1, <3>2, <3>3
    <3>5. QED
      BY <1>1, <2>1, <3>4
  <2>7. DaysCounted'
    BY <1>1, <2>5, <2>6 DEF DaysCounted, Today, Yesterday, DayRequest
  <2>8. RightDate'
    <3>1. ~disturbed => Popped = Answer.of
      BY <1>2, <2>1, <2>3 DEF DayRequest
    <3>2. /\ dayCell' = dayCell
          /\ served' = served \cup {[date |-> Popped, answer |-> Answer.of, data |-> TRUE]}
      BY <1>3 DEF DayData
    <3>3. QED
      BY <1>1, <3>1, <3>2 DEF RightDate
  <2>9. QED
    BY <1>1, <2>2, <2>3, <2>7, <2>8 DEF InStep
<1>4. CASE Popped = None
  <2>1. paramQ' = paramQ /\ served' = served
    BY <1>4 DEF DayData
  <2>2. ~disturbed => /\ ~Asked(frame[1])
                      /\ (frame[1] = Today /\ day = 0) \/ (frame[1] = Yesterday /\ day = 1)
    BY <1>1, <1>4, DayAnswer
  <2>3. NeverNameless'
    BY <1>1, <2>1, NamesKept
  <2>4. ~disturbed => DatesFit'
    BY <1>1, <2>1, <2>2, FitKept DEF InStep
  <2>5. ASSUME frame' # <<>>
        PROVE  /\ frame'[1] # Today
               /\ frame'[1] = Yesterday => day' = 1
    BY <1>1, <2>5, NextStd DEF DaysCounted
  <2>6. ASSUME ~disturbed, paramQ # <<>>
        PROVE  frame' # <<>> /\ (frame'[1] = Yesterday \/ day' >= 2)
    <3>1. Len(frame') \in Nat /\ Len(paramQ) \in Nat \ {0}
      BY <1>1, <2>6, TailParts, DatesTail DEF TypeOK
    <3>2. Len(frame') - Len(paramQ) >= 0
      BY <2>1, <2>4, <2>6 DEF DatesFit
    <3>3. Len(frame') # 0
      BY <3>1, <3>2
    <3>4. frame' # <<>> /\ frame'[1] = frame[2]
      BY <1>1, <3>3, NextStd
    <3>5. CASE frame[1] = Today
      BY <1>1, <2>6, <3>4, <3>5, Named DEF DaysCounted
    <3>6. CASE frame[1] = Yesterday
      BY <1>1, <2>2, <2>6, <3>4, <3>6, Named
    <3>7. QED
      BY <2>2, <2>6, <3>5, <3>6
  <2>7. DaysCounted'
    BY <1>1, <2>1, <2>5, <2>6 DEF DaysCounted, Today, Yesterday, DayRequest
  <2>8. RightDate'
    <3>1. ASSUME ~disturbed
          PROVE  \A c \in DayCell : dayCell'[c] \in {None, c}
      <4>1. dayCell' = [dayCell EXCEPT ![IF day = 0 THEN "today" ELSE "yesterday"] = Answer.of]
        BY <1>4, <2>2, <3>1 DEF DayData
      <4>2. Answer.of = IF day = 0 THEN "today" ELSE "yesterday"
        BY <1>2, <2>2, <3>1, Named
      <4>3. QED
        BY <3>1, <4>1, <4>2 DEF RightDate, TypeOK
    <3>2. QED
      BY <1>1, <2>1, <3>1 DEF RightDate
  <2>9. QED
    BY <1>1, <2>3, <2>4, <2>7, <2>8 DEF InStep
<1>5. QED
  BY <1>3, <1>4

(* A day answer without data: the requested day has its date all the same,  *)
(* but today or yesterday is not counted.                                   *)
LEMMA DaysAfterEmpty ==
  ASSUME HistoryInv, DayEmpty
  PROVE  InStep' /\ NeverNameless' /\ DaysCounted' /\ RightDate'
<1> USE DEF HistoryInv
<1>1. Handling("day") /\ NextAnswer /\ frame # <<>> /\ pc = "handle" /\ pc' = "handle"
      /\ disturbed' = (disturbed \/ day < 2) /\ day' = day /\ day \in Nat
      /\ dayCell' = dayCell
  BY DEF DayEmpty, Handling, TypeOK
<1>2. ~disturbed' => ~disturbed
  BY <1>1
<1>3. frame[1] = Answer /\ Answer \in Request
  BY <1>1, PoppedParts
<1>4. ASSUME frame' # <<>>
      PROVE  frame'[1] # Today /\ (frame'[1] = Yesterday => day = 0)
  BY <1>1, <1>4, NextStd DEF DaysCounted
<1>5. CASE Popped # None
  <2>1. Asked(frame[1]) /\ paramQ # <<>> /\ paramQ' = Tail(paramQ) /\ Popped = paramQ[1]
        /\ day >= 2
    BY <1>1, <1>5, DayAnswer, PoppedParts DEF DayEmpty
  <2>2. NeverNameless'
    BY <1>1, <2>1, NamesPopped
  <2>3. ~disturbed => DatesFit' /\ frame[1] = DayRequest(paramQ[1])
    BY <1>1, <2>1, FitPopped DEF InStep
  <2>4. ASSUME ~disturbed, paramQ' # <<>> PROVE frame' # <<>> /\ day' >= 2
    <3>1. Len(frame') \in Nat /\ Len(paramQ') \in Nat /\ paramQ' \in Seq(Date)
      BY <1>1, <2>1, TailParts, DatesTail, LenProperties DEF TypeOK
    <3>2. Len(paramQ') # 0
      BY <2>4, <3>1, EmptySeq
    <3>3. Len(frame') - Len(paramQ') >= 0
      BY <2>3, <2>4 DEF DatesFit
    <3>4. Len(frame') # 0
      BY <3>1, <3>2, <3>3
    <3>5. QED
      BY <1>1, <2>1, <3>4
  <2>5. DaysCounted'
    BY <1>1, <1>4, <1>2, <2>1, <2>4 DEF DaysCounted, Today, Yesterday, DayRequest
  <2>6. RightDate'
    <3>1. ~disturbed => Popped = Answer.of
      BY <1>3, <2>1, <2>3 DEF DayRequest
    <3>2. served' = served \cup {[date |-> Popped, answer |-> Answer.of, data |-> FALSE]}
      BY <1>5 DEF DayEmpty
    <3>3. QED
      BY <1>1, <1>2, <3>1, <3>2 DEF RightDate
  <2>7. QED
    BY <1>2, <2>2, <2>3, <2>5, <2>6 DEF InStep
<1>6. CASE Popped = None
  <2>1. paramQ' = paramQ /\ served' = served
    BY <1>6 DEF DayEmpty
  <2>2. disturbed'
    <3>1. CASE disturbed
      BY <1>1, <3>1
    <3>2. CASE ~disturbed
      <4>1. day < 2
        BY <1>1, <1>6, <3>2, DayAnswer
      <4>2. QED
        BY <1>1, <4>1
    <3>3. QED
      BY <3>1, <3>2
  <2>3. NeverNameless'
    BY <1>1, <2>1, NamesKept
  <2>4. DaysCounted'
    BY <1>1, <1>4, <2>2 DEF DaysCounted, Today, Yesterday, DayRequest
  <2>5. QED
    BY <2>2, <2>3, <2>4 DEF InStep, RightDate
<1>7. QED
  BY <1>5, <1>6

(* A day answer that is refused: days and dates are no longer in step.      *)
LEMMA DaysAfterError ==
  ASSUME HistoryInv, DayError
  PROVE  InStep' /\ NeverNameless' /\ DaysCounted' /\ RightDate'
<1> USE DEF HistoryInv
<1>1. Handling("day") /\ NextAnswer /\ frame # <<>> /\ pc = "handle" /\ pc' = "handle"
      /\ disturbed' /\ day' = day /\ day \in Nat /\ paramQ' = paramQ
  BY DEF DayError, Handling, TypeOK
<1>2. ASSUME frame' # <<>>
      PROVE  frame'[1] # Today /\ (frame'[1] = Yesterday => day = 0)
  BY <1>1, <1>2, NextStd DEF DaysCounted
<1>3. NeverNameless'
  BY <1>1, NamesKept
<1>4. DaysCounted'
  BY <1>1, <1>2 DEF DaysCounted, Today, Yesterday, DayRequest
<1>5. InStep' /\ RightDate'
  <2>1. disturbed'
    BY <1>1
  <2>2. InStep'
    BY <2>1 DEF InStep
  <2>3. RightDate'
    BY <2>1 DEF RightDate
  <2>4. QED
    BY <2>2, <2>3
<1>6. QED
  BY <1>3, <1>4, <1>5

LEMMA StepDays ==
  ASSUME HistoryInv, [Next]_vars
  PROVE  InStep' /\ NeverNameless' /\ DaysCounted' /\ RightDate'
<1> USE DEF HistoryInv
<1>1. CASE CreateRequest
  BY <1>1, DaysCreated
<1>2. CASE Break
  <2>1. frame' = <<>> /\ Len(frame') = 0 /\ pc' = "create" /\ paramQ' = paramQ
        /\ disturbed' = (disturbed \/ paramQ # <<>>) /\ UNCHANGED <<served, dayCell>>
    BY <1>2 DEF Break
  <2>2. NeverNameless'
    BY <2>1 DEF NeverNameless
  <2>3. ASSUME ~disturbed' PROVE DatesFit'
    <3>1. paramQ' = <<>> /\ Len(paramQ') = 0
      BY <2>1, <2>3
    <3>2. QED
      BY <2>1, <3>1 DEF DatesFit
  <2>4. DaysCounted'
    BY <2>1 DEF DaysCounted
  <2>5. RightDate'
    BY <2>1 DEF RightDate
  <2>6. QED
    BY <2>2, <2>3, <2>4, <2>5 DEF InStep
<1>3. CASE Receive
  <2>1. UNCHANGED <<frame, paramQ, disturbed, served, dayCell>>
        /\ pc = "answer" /\ pc' = "handle" /\ day' = 0
    BY <1>3 DEF Receive, ResetCounters
  <2>2. InStep' /\ NeverNameless'
    BY <2>1 DEF InStep, DatesFit, NeverNameless, Asked, DayRequest
  <2>3. DaysCounted'
    BY <2>1 DEF DaysCounted, Today, Yesterday, DayRequest
  <2>4. RightDate'
    BY <2>1 DEF RightDate
  <2>5. QED
    BY <2>2, <2>3, <2>4
<1>4. CASE DayData
  BY <1>4, DaysAfterData
<1>5. CASE DayEmpty
  BY <1>5, DaysAfterEmpty
<1>6. CASE DayError
  BY <1>6, DaysAfterError
<1>7. CASE YearData
  BY <1>7, DaysAfterYear DEF YearData, RightDate, Handling
<1>8. CASE YearError
  BY <1>8, DaysAfterYear DEF YearError, RightDate, Handling
<1>9. CASE EndFrame
  <2>1. UNCHANGED <<frame, paramQ, disturbed, served, dayCell, day>>
        /\ frame = <<>> /\ Len(frame) = 0 /\ pc' = "create"
    BY <1>9 DEF EndFrame
  <2>2. InStep' /\ NeverNameless'
    BY <2>1 DEF InStep, DatesFit, NeverNameless, Asked, DayRequest
  <2>3. ~disturbed => paramQ = <<>>
    <3>1. Len(paramQ) \in Nat
      BY LenProperties DEF TypeOK
    <3>2. ~disturbed => Len(frame) - Len(paramQ) >= 0
      BY DEF InStep, DatesFit
    <3>3. ~disturbed => Len(paramQ) = 0
      BY <2>1, <3>1, <3>2
    <3>4. QED
      BY <3>3, EmptySeq DEF TypeOK
  <2>4. DaysCounted'
    BY <2>1, <2>3 DEF DaysCounted
  <2>5. RightDate'
    BY <2>1 DEF RightDate
  <2>6. QED
    BY <2>2, <2>4, <2>5
<1>10. ASSUME NEW d \in Date \cup BadDate, Ask(d)
       PROVE  InStep' /\ NeverNameless' /\ DaysCounted' /\ RightDate'
  BY <1>10, DaysUntouched DEF Ask
<1>11. CASE UNCHANGED vars
  BY <1>11, DaysUntouched DEF vars
<1>12. QED
  BY <1>1, <1>2, <1>3, <1>4, <1>5, <1>6, <1>7, <1>8, <1>9, <1>10, <1>11 DEF Next, Main

-----------------------------------------------------------------------------
(* The years of a frame are numbers, and two of them are as far from each   *)
(* other as their places.                                                   *)
LEMMA YearNumbers ==
  ASSUME TypeOK, Shape,
         NEW i \in 1..Len(frame), NEW j \in 1..Len(frame), OfYear(frame[i]), OfYear(frame[j])
  PROVE  /\ frame[i].of \in Nat /\ FirstYear <= frame[i].of /\ frame[i].of <= CurrYear
         /\ frame[j].of \in Nat /\ frame[i].of + i = frame[j].of + j
         /\ i \in Nat /\ j \in Nat /\ i >= 1 /\ j >= 1
<1>1. frame[i] \in Request /\ frame[j] \in Request
  BY ElementOfSeq DEF TypeOK
<1>2. frame[i].of \in Year /\ frame[j].of \in Year
  BY <1>1, RequestParts
<1>3. frame[i].of + i = frame[j].of + j
  BY DEF Shape
<1>4. i \in Nat /\ j \in Nat /\ i >= 1 /\ j >= 1
  BY LenProperties DEF TypeOK
<1>5. QED
  BY <1>2, <1>3, <1>4, Numbers

(* After a day the same years are left, and the first of them is the same.  *)
LEMMA YearsAfterDay ==
  ASSUME HistoryInv, Handling("day"), NextAnswer,
         UNCHANGED <<pc, year, startYear, yearShifted, install, yearCell>>
  PROVE  YearsCounted' /\ RangeCovers' /\ RightYear' /\ NotCutTooFar'
<1> USE DEF HistoryInv
<1>1. pc = "handle" /\ frame # <<>> /\ frame[1] = Answer /\ frame[1].kind = "day"
  BY PoppedParts DEF Handling
<1>2. /\ Len(frame) \in Nat \ {0} /\ Len(frame') = Len(frame) - 1
      /\ \A i \in 1..Len(frame') : i + 1 \in 1..Len(frame) /\ frame'[i] = frame[i + 1]
  BY <1>1, TailParts DEF TypeOK
<1>3. ASSUME NEW i \in 1..Len(frame'), NEW j \in 1..Len(frame'),
             i <= j, OfYear(frame'[i]), OfYear(frame'[j])
      PROVE  /\ year >= FirstYear + (j - i)
             /\ ~yearShifted /\ frame'[i].of < install => startYear + (j - i + 1) <= install
  <2>1. i + 1 \in 1..Len(frame) /\ j + 1 \in 1..Len(frame) /\ i + 1 <= j + 1
        /\ frame'[i] = frame[i + 1] /\ frame'[j] = frame[j + 1] /\ (j + 1) - (i + 1) = j - i
    BY <1>2, <1>3
  <2>2. year >= FirstYear + ((j + 1) - (i + 1))
    BY <1>1, <1>3, <2>1 DEF YearsCounted
  <2>3. ~yearShifted /\ frame[i + 1].of < install
          => startYear + ((j + 1) - (i + 1) + 1) <= install
    BY <1>3, <2>1 DEF RangeCovers
  <2>4. QED
    BY <2>1, <2>2, <2>3
<1>4. ASSUME NEW k \in 1..Len(frame'), FirstLeft(k)', ~yearShifted
      PROVE  frame'[k].of = year \/ frame'[k].of < install
  <2>1. k + 1 \in 1..Len(frame) /\ frame'[k] = frame[k + 1] /\ (k + 1) - 1 = k /\ k \in Nat
    BY <1>2
  <2>2. OfYear(frame[k + 1])
    BY <1>4, <2>1 DEF FirstLeft, OfYear
  <2>3. frame[k].kind = "day"
    <3>1. CASE k = 1
      BY <1>1, <3>1
    <3>2. CASE k # 1
      <4>1. k - 1 \in 1..Len(frame') /\ (k - 1) + 1 = k
        BY <1>2, <3>2
      <4>2. frame'[k - 1] = frame[k]
        BY <1>2, <4>1
      <4>3. QED
        BY <1>4, <3>2, <4>2 DEF FirstLeft
    <3>3. QED
      BY <3>1, <3>2
  <2>4. FirstLeft(k + 1)
    BY <2>1, <2>2, <2>3 DEF FirstLeft
  <2>5. QED
    BY <1>1, <1>4, <2>1, <2>4 DEF YearsCounted
<1>5. YearsCounted'
  BY <1>1, <1>3, <1>4 DEF YearsCounted, OfYear
<1>6. RangeCovers'
  BY <1>3 DEF RangeCovers, OfYear
<1>7. QED
  BY <1>5, <1>6 DEF RightYear, NotCutTooFar

(* After a year the next one is the first that is left.                     *)
LEMMA NextYear ==
  ASSUME HistoryInv, Handling("year"), NextAnswer
  PROVE  /\ pc = "handle" /\ frame # <<>> /\ Answer = frame[1] /\ OfYear(frame[1])
         /\ 1 \in 1..Len(frame) /\ FirstLeft(1) /\ frame[1].of \in Nat
         /\ \A k \in 1..Len(frame') :
              FirstLeft(k)' => k = 1 /\ frame'[k].of \in Nat /\ frame'[k].of = frame[1].of - 1
<1> USE DEF HistoryInv
<1>1. pc = "handle" /\ frame # <<>> /\ Answer = frame[1] /\ OfYear(frame[1])
  BY TailParts DEF Handling, OfYear, TypeOK
<1>2. /\ Len(frame) \in Nat \ {0} /\ Len(frame') = Len(frame) - 1
      /\ \A i \in 1..Len(frame') : i + 1 \in 1..Len(frame) /\ frame'[i] = frame[i + 1]
  BY <1>1, TailParts DEF TypeOK
<1>3. 1 \in 1..Len(frame)
  BY <1>2
<1>4. frame[1].of \in Nat
  BY <1>1, <1>3, YearNumbers
<1>5. FirstLeft(1)
  BY <1>1 DEF FirstLeft
<1>6. ASSUME NEW k \in 1..Len(frame'), FirstLeft(k)'
      PROVE  k = 1 /\ frame'[k].of \in Nat /\ frame'[k].of = frame[1].of - 1
  <2>1. k + 1 \in 1..Len(frame) /\ frame'[k] = frame[k + 1] /\ k \in Nat /\ k >= 1
    BY <1>2
  <2>2. OfYear(frame[k + 1])
    BY <1>6, <2>1 DEF FirstLeft, OfYear
  <2>3. k = 1
    <3>1. SUFFICES ASSUME k # 1 PROVE FALSE
      OBVIOUS
    <3>2. k - 1 \in 1..Len(frame') /\ (k - 1) + 1 = k /\ k \in 1..Len(frame) /\ 1 < k
      BY <1>2, <2>1, <3>1
    <3>3. frame[k].kind = "day" /\ frame[k] \in Request
      BY <1>2, <1>6, <3>1, <3>2, ElementOfSeq DEF FirstLeft, TypeOK
    <3>4. Std(frame[k]) \/ Asked(frame[k])
      BY <3>3, RequestParts DEF OfYear
    <3>5. CASE Std(frame[k])
      <4>1. frame[1] = Today
        BY <1>3, <3>2, <3>5 DEF Shape
      <4>2. QED
        BY <1>1, <4>1, Named DEF OfYear
    <3>6. CASE Asked(frame[k])
      <4>1. Asked(frame[k + 1])
        BY <2>1, <3>2, <3>6 DEF Shape
      <4>2. QED
        BY <2>2, <4>1 DEF OfYear, Asked
    <3>7. QED
      BY <3>4, <3>5, <3>6
  <2>4. 2 \in 1..Len(frame) /\ frame'[1] = frame[2] /\ OfYear(frame[2])
    BY <2>1, <2>2, <2>3
  <2> DEFINE a == frame[1].of
             b == frame[2].of
  <2>5. a + 1 = b + 2 /\ a \in Nat /\ b \in Nat
    BY <1>1, <1>3, <2>4, YearNumbers
  <2> HIDE DEF a, b
  <2>6. b = a - 1
    BY <2>5
  <2>7. QED
    BY <2>3, <2>4, <2>5, <2>6 DEF a, b
<1>7. QED
  BY <1>1, <1>3, <1>4, <1>5, <1>6

(* What is known of the years after the next one holds of them when they    *)
(* have moved up.                                                           *)
LEMMA LaterYears ==
  ASSUME HistoryInv, Handling("year"), NextAnswer,
         NEW i \in 1..Len(frame'), NEW j \in 1..Len(frame'),
         i <= j, OfYear(frame'[i]), OfYear(frame'[j])
  PROVE  /\ i \in Nat /\ j \in Nat /\ i >= 1
         /\ year >= FirstYear + j
         /\ ~yearShifted /\ frame[1].of < install => startYear + (j + 1) <= install
         /\ ~yearShifted /\ frame'[i].of < install => startYear + (j - i + 1) <= install
<1> USE DEF HistoryInv
<1>1. /\ Len(frame) \in Nat \ {0} /\ Len(frame') = Len(frame) - 1
      /\ \A n \in 1..Len(frame') : n + 1 \in 1..Len(frame) /\ frame'[n] = frame[n + 1]
  BY NextYear, TailParts DEF TypeOK
<1>2. /\ i + 1 \in 1..Len(frame) /\ j + 1 \in 1..Len(frame) /\ i + 1 <= j + 1
      /\ i \in Nat /\ j \in Nat /\ i >= 1 /\ 1 <= j + 1 /\ 1 \in 1..Len(frame)
      /\ frame'[i] = frame[i + 1] /\ frame'[j] = frame[j + 1]
      /\ (j + 1) - (i + 1) = j - i /\ (j + 1) - 1 = j
  BY <1>1
<1>3. pc = "handle" /\ OfYear(frame[1])
  BY NextYear
<1>4. year >= FirstYear + ((j + 1) - 1)
  BY <1>2, <1>3 DEF YearsCounted
<1>5. ~yearShifted /\ frame[1].of < install => startYear + ((j + 1) - 1 + 1) <= install
  BY <1>2, <1>3 DEF RangeCovers
<1>6. ~yearShifted /\ frame[i + 1].of < install
        => startYear + ((j + 1) - (i + 1) + 1) <= install
  BY <1>2 DEF RangeCovers
<1>7. QED
  BY <1>2, <1>4, <1>5, <1>6

(* createRequest asks for the years from the current one down to the first. *)
LEMMA YearsCreated ==
  ASSUME HistoryInv, CreateRequest
  PROVE  YearsCounted' /\ RangeCovers' /\ RightYear' /\ NotCutTooFar'
<1> USE DEF HistoryInv
<1>1. /\ pc' = "answer" /\ UNCHANGED <<startYear, yearShifted, install, yearCell>>
      /\ startYear \in Year /\ install \in Year
  BY DEF CreateRequest, TypeOK
<1>2. /\ Len(frame') \in Nat
      /\ \A i \in 1..Len(frame') :
           /\ OfYear(frame'[i]) <=> 3 <= i /\ i <= Len(Standard)
           /\ OfYear(frame'[i]) => frame'[i].of = CurrYear + 3 - i /\ frame'[i].of >= startYear
      /\ Len(Standard) \in Nat
  BY CreatedKinds
<1>3. ASSUME NEW k \in 1..Len(frame'), FirstLeft(k)' PROVE frame'[k].of = CurrYear
  <2>1. OfYear(frame'[k]) /\ k \in Nat /\ 3 <= k /\ k <= Len(Standard)
    BY <1>2, <1>3 DEF FirstLeft, OfYear
  <2>2. frame'[k - 1].kind = "day"
    BY <1>3, <2>1 DEF FirstLeft
  <2>3. ~OfYear(frame'[k - 1]) /\ k - 1 \in 1..Len(frame')
    BY <1>2, <2>1, <2>2 DEF OfYear
  <2>4. ~(3 <= k - 1)
    BY <1>2, <2>1, <2>3
  <2>5. k = 3
    BY <2>1, <2>4
  <2>6. QED
    BY <1>2, <2>1, <2>5, Numbers
<1>4. ASSUME NEW i \in 1..Len(frame'), NEW j \in 1..Len(frame'),
             i <= j, OfYear(frame'[i]), OfYear(frame'[j]), frame'[i].of < install
      PROVE  startYear + (j - i + 1) <= install
  <2>1. CurrYear + 3 - i < install /\ CurrYear + 3 - j >= startYear
        /\ i \in Nat /\ j \in Nat
    BY <1>2, <1>4
  <2>2. CurrYear \in Nat /\ install \in Nat /\ startYear \in Nat
    BY <1>1, Numbers
  <2>3. QED
    BY <2>1, <2>2
<1>5. YearsCounted'
  BY <1>1, <1>3 DEF YearsCounted
<1>6. RangeCovers'
  BY <1>1, <1>4 DEF RangeCovers, OfYear
<1>7. QED
  BY <1>1, <1>5, <1>6 DEF RightYear, NotCutTooFar

(* The counter starts at the first year that was asked for.                 *)
LEMMA YearsReceived ==
  ASSUME HistoryInv, Receive
  PROVE  YearsCounted' /\ RangeCovers' /\ RightYear' /\ NotCutTooFar'
<1> USE DEF HistoryInv
<1>1. /\ pc = "answer" /\ pc' = "handle" /\ year' = CurrYear
      /\ UNCHANGED <<frame, startYear, yearShifted, install, yearCell>>
  BY DEF Receive, ResetCounters
<1>2. ASSUME NEW i \in 1..Len(frame), NEW j \in 1..Len(frame),
             i <= j, OfYear(frame[i]), OfYear(frame[j])
      PROVE  CurrYear >= FirstYear + (j - i)
  <2> DEFINE a == frame[i].of
             b == frame[j].of
  <2>1. a \in Nat /\ b \in Nat /\ a <= CurrYear /\ FirstYear <= b /\ a + i = b + j
        /\ i \in Nat /\ j \in Nat
    BY <1>2, YearNumbers
  <2> HIDE DEF a, b
  <2>2. QED
    BY <2>1, Numbers
<1>3. \A k \in 1..Len(frame) : FirstLeft(k) => frame[k].of = CurrYear
  BY <1>1 DEF YearsCounted
<1>4. YearsCounted'
  BY <1>1, <1>2, <1>3 DEF YearsCounted, FirstLeft, OfYear
<1>5. RangeCovers'
  BY <1>1 DEF RangeCovers, OfYear
<1>6. QED
  BY <1>1, <1>4, <1>5 DEF RightYear, NotCutTooFar

(* A year with data is the year that the counter stands at.                 *)
LEMMA YearsAfterData ==
  ASSUME HistoryInv, YearData
  PROVE  YearsCounted' /\ RangeCovers' /\ RightYear' /\ NotCutTooFar'
<1> USE DEF HistoryInv
<1>1. /\ Handling("year") /\ NextAnswer /\ Answer.of >= install
      /\ yearCell' = [yearCell EXCEPT ![year] = Answer.of] /\ year' = year - 1
      /\ UNCHANGED <<pc, startYear, yearShifted, install>>
      /\ yearCell \in [Year -> Year \cup {0}] /\ year \in Int /\ install \in Nat
  BY Numbers DEF YearData, TypeOK
<1>2. ~yearShifted => Answer.of = year
  BY <1>1, NextYear DEF YearsCounted
<1>3. ASSUME NEW i \in 1..Len(frame'), NEW j \in 1..Len(frame'),
             i <= j, OfYear(frame'[i]), OfYear(frame'[j])
      PROVE  /\ year' >= FirstYear + (j - i)
             /\ ~yearShifted /\ frame'[i].of < install => startYear + (j - i + 1) <= install
  <2>1. year >= FirstYear + j /\ i \in Nat /\ j \in Nat /\ i >= 1
    BY <1>1, <1>3, LaterYears
  <2>2. ~yearShifted /\ frame'[i].of < install => startYear + (j - i + 1) <= install
    BY <1>1, <1>3, LaterYears
  <2>3. year' >= FirstYear + (j - i)
    BY <1>1, <2>1, Numbers
  <2>4. QED
    BY <2>2, <2>3
<1>4. ASSUME NEW k \in 1..Len(frame'), FirstLeft(k)', ~yearShifted PROVE frame'[k].of = year'
  BY <1>1, <1>2, <1>4, NextYear
<1>5. YearsCounted'
  BY <1>1, <1>3, <1>4, NextYear DEF YearsCounted, OfYear
<1>6. RangeCovers'
  BY <1>1, <1>3 DEF RangeCovers, OfYear
<1>7. RightYear'
  BY <1>1, <1>2 DEF RightYear
<1>8. QED
  BY <1>1, <1>5, <1>6, <1>7 DEF NotCutTooFar

(* A year that the device refuses takes the first year of the range away.   *)
LEMMA YearsAfterError ==
  ASSUME HistoryInv, YearError
  PROVE  YearsCounted' /\ RangeCovers' /\ RightYear' /\ NotCutTooFar'
<1> USE DEF HistoryInv
<1>1. /\ Handling("year") /\ NextAnswer /\ startYear' = Corrected(startYear)
      /\ UNCHANGED <<pc, year, install, yearCell>>
      /\ startYear \in Nat /\ install \in Nat
  BY Numbers DEF YearError, TypeOK
<1>2. startYear' \in Nat /\ startYear' <= startYear + 1
  BY <1>1 DEF Corrected
<1>3. pc' = "handle"
  BY <1>1, NextYear
<1>4. ASSUME NEW i \in 1..Len(frame'), NEW j \in 1..Len(frame'),
             i <= j, OfYear(frame'[i]), OfYear(frame'[j])
      PROVE  year' >= FirstYear + (j - i)
  <2>1. year >= FirstYear + j /\ i \in Nat /\ j \in Nat /\ i >= 1
    BY <1>1, <1>4, LaterYears
  <2>2. year' = year /\ year \in Int
    BY <1>1 DEF TypeOK
  <2>3. QED
    BY <2>1, <2>2, Numbers
<1>5. CASE Answer.of < install
  <2>1. yearShifted' = yearShifted /\ frame[1].of < install
    BY <1>1, <1>5, NextYear DEF YearError
  <2>2. ASSUME NEW k \in 1..Len(frame'), FirstLeft(k)' PROVE frame'[k].of < install
    <3> DEFINE a == frame[1].of
               b == frame'[k].of
    <3>1. a \in Nat /\ b \in Nat /\ b = a - 1 /\ a < install
      BY <1>1, <2>1, <2>2, NextYear
    <3> HIDE DEF a, b
    <3>2. b < install
      BY <1>1, <3>1
    <3>3. QED
      BY <3>2 DEF b
  <2>3. ASSUME NEW i \in 1..Len(frame'), NEW j \in 1..Len(frame'), ~yearShifted,
               i <= j, OfYear(frame'[i]), OfYear(frame'[j])
        PROVE  startYear' + (j - i + 1) <= install
    <3>1. startYear + (j + 1) <= install /\ i \in Nat /\ j \in Nat /\ i >= 1
      BY <1>1, <2>1, <2>3, LaterYears
    <3>2. QED
      BY <1>1, <1>2, <3>1
  <2>4. ~yearShifted => startYear' <= install
    <3>1. ~yearShifted => startYear + (1 - 1 + 1) <= install
      BY <1>1, <2>1, NextYear DEF RangeCovers
    <3>2. QED
      BY <1>1, <1>2, <3>1
  <2>5. YearsCounted'
    BY <1>1, <1>3, <1>4, <2>2 DEF YearsCounted, OfYear
  <2>6. RangeCovers'
    BY <1>1, <2>1, <2>3 DEF RangeCovers, OfYear
  <2>7. QED
    BY <1>1, <2>1, <2>4, <2>5, <2>6 DEF RightYear, NotCutTooFar
<1>6. CASE ~(Answer.of < install)
  <2>1. yearShifted'
    BY <1>6 DEF YearError
  <2>2. YearsCounted'
    BY <1>3, <1>4, <2>1 DEF YearsCounted, OfYear
  <2>3. QED
    BY <2>1, <2>2 DEF RangeCovers, RightYear, NotCutTooFar
<1>7. QED
  BY <1>5, <1>6

LEMMA StepYears ==
  ASSUME HistoryInv, [Next]_vars
  PROVE  YearsCounted' /\ RangeCovers' /\ RightYear' /\ NotCutTooFar'
<1> USE DEF HistoryInv
<1>1. CASE CreateRequest
  BY <1>1, YearsCreated
<1>2. CASE Break
  <2>1. frame' = <<>> /\ Len(frame') = 0 /\ pc' = "create"
        /\ UNCHANGED <<startYear, yearShifted, install, yearCell>>
    BY <1>2 DEF Break
  <2>2. QED
    BY <2>1 DEF YearsCounted, RangeCovers, RightYear, NotCutTooFar
<1>3. CASE Receive
  BY <1>3, YearsReceived
<1>4. CASE DayData
  BY <1>4, YearsAfterDay DEF DayData
<1>5. CASE DayEmpty
  BY <1>5, YearsAfterDay DEF DayEmpty
<1>6. CASE DayError
  BY <1>6, YearsAfterDay DEF DayError
<1>7. CASE YearData
  BY <1>7, YearsAfterData
<1>8. CASE YearError
  BY <1>8, YearsAfterError
<1>9. CASE EndFrame
  <2>1. pc' = "create" /\ UNCHANGED <<frame, startYear, yearShifted, install, yearCell>>
    BY <1>9 DEF EndFrame
  <2>2. QED
    BY <2>1 DEF YearsCounted, RangeCovers, RightYear, NotCutTooFar, OfYear
<1>10. ASSUME UNCHANGED <<pc, frame, year, startYear, yearShifted, install, yearCell>>
       PROVE  YearsCounted' /\ RangeCovers' /\ RightYear' /\ NotCutTooFar'
  <2>1. YearsCounted'
    BY <1>10 DEF YearsCounted, FirstLeft, OfYear
  <2>2. RangeCovers' /\ RightYear' /\ NotCutTooFar'
    BY <1>10 DEF RangeCovers, RightYear, NotCutTooFar, OfYear
  <2>3. QED
    BY <2>1, <2>2
<1>11. ASSUME NEW d \in Date \cup BadDate, Ask(d)
       PROVE  YearsCounted' /\ RangeCovers' /\ RightYear' /\ NotCutTooFar'
  BY <1>10, <1>11 DEF Ask
<1>12. CASE UNCHANGED vars
  BY <1>10, <1>12 DEF vars
<1>13. QED
  BY <1>1, <1>2, <1>3, <1>4, <1>5, <1>6, <1>7, <1>8, <1>9, <1>11, <1>12 DEF Next, Main

-----------------------------------------------------------------------------
(* The results. The invariant holds in every state: days, dates, years and  *)
(* both counters are in step wherever the code can keep them so.            *)
THEOREM HistoryInductive == Spec => []HistoryInv
<1>1. Init => HistoryInv
  BY InitInv
<1>2. HistoryInv /\ [Next]_vars => HistoryInv'
  BY StepType, StepShape, StepDays, StepYears DEF HistoryInv
<1>3. QED
  BY <1>1, <1>2, PTL DEF Spec

(* The dates that createRequest remembers are those of the requested days   *)
(* that are still to be answered, one for one; and even after refused       *)
(* answers, breaks and without history no requested day is without a date.  *)
THEOREM DatesAreInStep == Spec => []DatesInStep
<1>1. HistoryInv => DatesInStep
  BY DEF HistoryInv, DatesInStep
<1>2. QED
  BY <1>1, HistoryInductive, PTL

(* What goes out under a date, as today or yesterday, or under a year is    *)
(* the data of that day or year, and no year the device has data for is     *)
(* cut off the range.                                                       *)
THEOREM DataIsInPlace == Spec => []DataInPlace
<1>1. HistoryInv => DataInPlace
  BY DEF HistoryInv, DataInPlace
<1>2. QED
  BY <1>1, HistoryInductive, PTL

=============================================================================
