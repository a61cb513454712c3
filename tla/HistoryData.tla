---------------------------- MODULE HistoryData ----------------------------
(***************************************************************************)
(* History data: today, yesterday, the years back to history_start_year,   *)
(* and the days somebody asked for on set/request/day.                     *)
(*                                                                         *)
(* An answer of the device carries no date. createRequest remembers the    *)
(* dates of the requested days in paramQ, and handleResponseValue tells    *)
(* the answers apart by counting: day counts the day answers of a frame up,*)
(* year counts the year answers down. The week and the month answers, of   *)
(* which a frame has one each, need no counting and are left out.          *)
(*                                                                         *)
(* The listener thread appends to requestQ at any moment (Ask).            *)
(***************************************************************************)
EXTENDS Integers, Sequences, FiniteSets

CONSTANTS
  Date,            \* dates that can be asked for
  BadDate,         \* dates that no month has
  YearOf,          \* the year of each date
  None,            \* the date of no day (x.year = 0)
  CurrYear,        \* curr_year
  FirstYear,       \* history_start_year as configured
  MaxDays,         \* MAX_DAYS_PER_ITERATION
  MaxAsk,          \* bound: number of days asked for
  MaxFaults        \* bound: number of answers that are refused or empty

ASSUME HistoryAssumption ==
  /\ CurrYear \in Nat /\ FirstYear \in Nat \ {0} /\ FirstYear < CurrYear
  /\ MaxDays \in Nat \ {0} /\ MaxAsk \in Nat /\ MaxFaults \in Nat
  /\ BadDate \cap Date = {}
  /\ YearOf \in [Date -> Int]
  /\ None \notin Date \cup BadDate \cup {"today", "yesterday"}
  /\ Date \cap {"today", "yesterday"} = {}

Year == FirstYear..CurrYear

VARIABLES
  requestQ,        \* the days asked for
  paramQ,          \* the dates of the days in the frames sent
  hstRequests,     \* cfg.hst_requests
  e3dcTs,          \* e3dc_ts # 0: the device has told its time
  startYear,       \* cfg.history_start_year
  day, year,       \* the counters of handleResponseValue
  frame,           \* the requests in the frame, then the answers left to handle
  pc,              \* "create", "answer" or "handle"
  dayCell,         \* the day whose data is stored as today and as yesterday
  yearCell,        \* the year whose data is stored for each year (0: none)
  install,         \* the first year the device has data for
  served,          \* history: for each day answer at day >= 2, the date it went out under
  asks, faults,    \* history: number of asks and of faulty answers
  disturbed,       \* history: days and dates may be out of step from here on
  yearShifted      \* history: a year of the device's data was refused

vars == <<requestQ, paramQ, hstRequests, e3dcTs, startYear, day, year, frame, pc, dayCell,
          yearCell, install, served, asks, faults, disturbed, yearShifted>>

DayCell == {"today", "yesterday"}
DayRequest(d) == [kind |-> "day", of |-> d]
YearRequest(y) == [kind |-> "year", of |-> y]
Request == {DayRequest(d) : d \in DayCell \cup Date} \cup {YearRequest(y) : y \in Year}

Init ==
  /\ requestQ = <<>> /\ paramQ = <<>>
  /\ hstRequests \in BOOLEAN
  /\ e3dcTs = FALSE
  /\ startYear = FirstYear
  /\ day = 0 /\ year = CurrYear
  /\ frame = <<>>
  /\ pc = "create"
  /\ dayCell = [c \in DayCell |-> None]
  /\ yearCell = [y \in Year |-> 0]
  /\ install \in Year
  /\ served = {}
  /\ asks = 0 /\ faults = 0
  /\ disturbed = FALSE /\ yearShifted = FALSE

-----------------------------------------------------------------------------
(* The listener thread: storeMQTTReceivedValue on set/request/day.         *)
Ask(d) ==
  /\ asks < MaxAsk
  /\ asks' = asks + 1
  /\ requestQ' = Append(requestQ, d)
  /\ UNCHANGED <<paramQ, hstRequests, e3dcTs, startYear, day, year, frame, pc, dayCell,
                 yearCell, install, served, faults, disturbed, yearShifted>>

-----------------------------------------------------------------------------
(* createRequest in an authenticated session.                              *)
HistoryOn == hstRequests /\ e3dcTs

\* The years from the current one down to the first one.
YearsAsked(s) == [i \in 1..(CurrYear - s + 1) |-> YearRequest(CurrYear - i + 1)]

Standard ==
  IF HistoryOn
  THEN <<DayRequest("today"), DayRequest("yesterday")>> \o YearsAsked(startYear)
  ELSE <<>>

Drained == IF Len(requestQ) < MaxDays THEN Len(requestQ) ELSE MaxDays

\* The check of a date, against the range of years as it is by now.
Valid(d) == d \in Date /\ YearOf[d] >= startYear /\ YearOf[d] <= CurrYear

\* The places of the days that go into the frame, in their order.
Kept == {i \in 1..Drained : Valid(requestQ[i])}
Ordered(places) ==
  {at \in [1..Cardinality(places) -> places] :
     \A i, j \in DOMAIN at : i < j => at[i] < at[j]}

\* The dates at these places, and what is left of the queue.
NewDates(at) == [i \in DOMAIN at |-> requestQ[at[i]]]
QueueRest_Kept == requestQ                                          \* mutant
QueueRest == SubSeq(requestQ, Drained + 1, Len(requestQ))

\* The loop over the years counts with the counter of handleResponseValue.
CreateRequest ==
  /\ pc = "create"
  /\ \E at \in Ordered(Kept) :
       LET dates == NewDates(at)
       IN /\ frame' = Standard \o [i \in DOMAIN at |-> DayRequest(dates[i])]
          /\ paramQ' = paramQ \o dates
          /\ disturbed' = (disturbed \/ (dates # <<>> /\ ~HistoryOn))
  /\ requestQ' = QueueRest
  /\ year' = IF HistoryOn THEN startYear - 1 ELSE year
  /\ pc' = "answer"
  /\ UNCHANGED <<hstRequests, e3dcTs, startYear, day, dayCell, yearCell, install, served, asks,
                 faults, yearShifted>>

\* The connection breaks before the answer is there. The queues survive.
Break ==
  /\ pc = "answer"
  /\ frame' = <<>>
  /\ pc' = "create"
  /\ disturbed' = (disturbed \/ paramQ # <<>>)
  /\ UNCHANGED <<requestQ, paramQ, hstRequests, e3dcTs, startYear, day, year, dayCell,
                 yearCell, install, served, asks, faults, yearShifted>>

\* processReceiveBuffer has the whole frame; TAG_INFO_TIME comes before the history.
ResetCounters_Not == UNCHANGED <<day, year>>                        \* mutant
ResetCounters == day' = 0 /\ year' = CurrYear

Receive ==
  /\ pc = "answer"
  /\ ResetCounters
  /\ e3dcTs' = TRUE
  /\ pc' = "handle"
  /\ UNCHANGED <<requestQ, paramQ, hstRequests, startYear, frame, dayCell, yearCell, install,
                 served, asks, faults, disturbed, yearShifted>>

-----------------------------------------------------------------------------
(* handleResponseValue, one answer after the other. The device answers in  *)
(* the order of the requests.                                              *)
Answer == Head(frame)
NextAnswer == frame' = Tail(frame)
Handling(kind) == pc = "handle" /\ frame # <<>> /\ Answer.kind = kind

Popped_AnyDay == IF paramQ # <<>> THEN Head(paramQ) ELSE None      \* mutant
Popped == IF day >= 2 /\ paramQ # <<>> THEN Head(paramQ) ELSE None

\* A day with data: under the date of paramQ, or as today or yesterday.
DayData ==
  /\ Handling("day")
  /\ paramQ' = IF Popped # None THEN Tail(paramQ) ELSE paramQ
  /\ served' = IF Popped # None
               THEN served \cup {[date |-> Popped, answer |-> Answer.of, data |-> TRUE]}
               ELSE served
  /\ dayCell' = IF Popped = None /\ day \in {0, 1}
                THEN [dayCell EXCEPT ![IF day = 0 THEN "today" ELSE "yesterday"] = Answer.of]
                ELSE dayCell
  /\ day' = day + 1
  /\ NextAnswer
  /\ UNCHANGED <<requestQ, hstRequests, e3dcTs, startYear, year, pc, yearCell, install, asks,
                 faults, disturbed, yearShifted>>

\* A day answer without a sum container: nothing is stored and day stays.
DayEmpty ==
  /\ Handling("day") /\ faults < MaxFaults
  /\ faults' = faults + 1
  /\ paramQ' = IF Popped # None THEN Tail(paramQ) ELSE paramQ
  /\ served' = IF Popped # None
               THEN served \cup {[date |-> Popped, answer |-> Answer.of, data |-> FALSE]}
               ELSE served
  /\ NextAnswer
  /\ disturbed' = (disturbed \/ day < 2)
  /\ UNCHANGED <<requestQ, hstRequests, e3dcTs, startYear, day, year, pc, dayCell, yearCell,
                 install, asks, yearShifted>>

\* A day answer of type error: handleResponseValue returns at once.
DayError ==
  /\ Handling("day") /\ faults < MaxFaults
  /\ faults' = faults + 1
  /\ NextAnswer
  /\ disturbed' = TRUE
  /\ UNCHANGED <<requestQ, paramQ, hstRequests, e3dcTs, startYear, day, year, pc, dayCell,
                 yearCell, install, served, asks, yearShifted>>

\* A year the device has data for is stored for the year counted to.
YearData ==
  /\ Handling("year") /\ Answer.of >= install
  /\ yearCell' = [yearCell EXCEPT ![year] = Answer.of]
  /\ year' = year - 1
  /\ NextAnswer
  /\ UNCHANGED <<requestQ, paramQ, hstRequests, e3dcTs, startYear, day, pc, dayCell, install,
                 served, asks, faults, disturbed, yearShifted>>

\* A refused year, in the device's range only by a fault: the range is cut at
\* its old end unless the current year is counted to.
Corrected_Not(s) == s                                               \* mutant
Corrected(s) == IF s < CurrYear /\ year < CurrYear THEN s + 1 ELSE s

YearError ==
  /\ Handling("year")
  /\ IF Answer.of < install
     THEN UNCHANGED <<faults, yearShifted>>
     ELSE faults < MaxFaults /\ faults' = faults + 1 /\ yearShifted' = TRUE
  /\ startYear' = Corrected(startYear)
  /\ NextAnswer
  /\ UNCHANGED <<requestQ, paramQ, hstRequests, e3dcTs, day, year, pc, dayCell, yearCell,
                 install, served, asks, disturbed>>

\* All answers are handled; the next cycle begins.
EndFrame ==
  /\ pc = "handle" /\ frame = <<>>
  /\ pc' = "create"
  /\ UNCHANGED <<requestQ, paramQ, hstRequests, e3dcTs, startYear, day, year, frame, dayCell,
                 yearCell, install, served, asks, faults, disturbed, yearShifted>>

Main ==
  \/ CreateRequest \/ Break \/ Receive
  \/ DayData \/ DayEmpty \/ DayError
  \/ YearData \/ YearError \/ EndFrame

Next == Main \/ \E d \in Date \cup BadDate : Ask(d)

Spec == Init /\ [][Next]_vars

\* The main thread runs, and answers come through again and again.
FairSpec == Spec /\ WF_vars(Main) /\ SF_vars(Receive)

-----------------------------------------------------------------------------
(* Properties.                                                             *)

TypeOK ==
  /\ requestQ \in Seq(Date \cup BadDate) /\ paramQ \in Seq(Date)
  /\ hstRequests \in BOOLEAN /\ e3dcTs \in BOOLEAN
  /\ startYear \in Year /\ day \in Nat /\ year \in (FirstYear - 1)..CurrYear
  /\ frame \in Seq(Request)
  /\ pc \in {"create", "answer", "handle"}
  /\ dayCell \in [DayCell -> DayCell \cup Date \cup {None}]
  /\ yearCell \in [Year -> Year \cup {0}]
  /\ install \in Year
  /\ served \subseteq [date : Date, answer : DayCell \cup Date, data : BOOLEAN]
  /\ asks \in 0..MaxAsk /\ faults \in 0..MaxFaults
  /\ disturbed \in BOOLEAN /\ yearShifted \in BOOLEAN

\* An answer that is about a requested day.
Asked(r) == r.kind = "day" /\ r.of \in Date

\* The queue holds the dates of the last answers of the frame, one for one, and
\* these are all the requested days.
DatesFit ==
  LET others == Len(frame) - Len(paramQ)
  IN /\ others >= 0
     /\ \A i \in 1..Len(frame) :
          IF i <= others THEN ~Asked(frame[i]) ELSE frame[i] = DayRequest(paramQ[i - others])

\* They do so as long as no answer was refused, no connection broke over a
\* requested day and history was on.
InStep == ~disturbed => DatesFit

\* In step, each requested day is published under its own date, and the day
\* cells hold only their own day (createRequest's push against
\* handleResponseValue's pop and its count).
RightDate ==
  ~disturbed => /\ \A s \in served : s.date = s.answer
                /\ \A c \in DayCell : dayCell[c] \in {None, c}

\* Whatever was refused, broken off or switched off: an answer that is handled as
\* a requested day finds a date in paramQ, with one more for each answer after it
\* (day >= 2 and x.year # 0): it is never stored under a day number that no topic
\* has.
NeverNameless ==
  \A i \in 1..Len(frame) : Asked(frame[i]) => Len(frame) - i < Len(paramQ)

\* Every year's data is stored for that year, whatever years the device lacks
\* at the old end of the range, as long as it refuses no year it has.
RightYear == ~yearShifted => \A y \in Year : yearCell[y] \in {0, y}

\* The range of years is cut down to the years the device has and not further.
NotCutTooFar == ~yearShifted => startYear <= install
CutInTheEnd == hstRequests => <>[](startYear >= install)

\* A day that is asked for is served sooner or later unless dates and days fall
\* out of step, or the range of years has been cut beyond it.
EventuallyServed ==
  \A d \in Date :
    (\E i \in 1..Len(requestQ) : requestQ[i] = d)
      ~> (disturbed \/ YearOf[d] < startYear \/ \E s \in served : s.date = d)

\* README.md:369 "Historical data for a specific day ... can be queried by"
\* set/request/day: what is published for a day is the data of that day.
DayIsThatDay == \A s \in served : s.data => s.date = s.answer

\* The dates and the answers that wait for them match, whatever was refused,
\* broken off or switched off: InStep as long as nothing of that happened, and
\* NeverNameless always.
DatesInStep == TypeOK /\ InStep /\ NeverNameless

\* All data is stored where it belongs: days under their dates, years under their
\* years, in a range of years that never leaves out one the device has.
DataInPlace == RightDate /\ RightYear /\ NotCutTooFar

=============================================================================
