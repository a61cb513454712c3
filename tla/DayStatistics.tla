----------------------------- MODULE DayStatistics -----------------------------
(***************************************************************************)
(* What mainLoop derives from the values of a cycle, beside the energy of  *)
(* the wallboxes (WallboxDay): the extremes and durations of the day, the  *)
(* energy of the PV strings, of the last charging and of the power meters. *)
(* Each is a step from the statics of its function and the reading of a    *)
(* cycle; TLC evaluates them over all short sequences of readings.         *)
(***************************************************************************)
EXTENDS Integers, Sequences, SequencesExt, TLC

\* store...Value, whose result is the new value of the static variable k.
Store(s, k, v) == [s EXCEPT !.at[k] = v, !.shown = (k :> v) @@ @]

-----------------------------------------------------------------------------
(* statisticValues. A reading r has four powers and levels, whether the    *)
(* sun shines and the feed-in is limited, the time in seconds, and whether *)
(* it is the first one of a new day. shown is what was published.          *)
Extreme == {"solar_max", "home_min", "home_max", "grid_min", "grid_max", "soc_min", "soc_max"}
Source == [solar_max |-> "solar", home_min |-> "home", home_max |-> "home",
           grid_min |-> "grid", grid_max |-> "grid", soc_min |-> "soc", soc_max |-> "soc"]
IsMin == {"home_min", "grid_min", "soc_min"}

\* The static variables, as they are before the first reading.
Statics(r, minutes) ==
  [at |-> [k \in Extreme |-> CASE k = "home_min" -> r.home [] k = "soc_min" -> 101 [] OTHER -> 0],
   shown |-> <<>>, last |-> 0, sun |-> 60 * minutes, limited |-> 60 * minutes]

\* A new day: every extreme begins one beyond the present value.
ResetStatistics(s, r) ==
  LET begin(c, k) == Store(c, k, r[Source[k]] + (IF k \in IsMin THEN 1 ELSE -1))
      begun == FoldLeft(begin, s, <<"solar_max", "home_min", "home_max", "grid_min",
                                    "grid_max", "soc_min", "soc_max">>)
  IN [begun EXCEPT !.sun = 0, !.limited = 0,
                   !.shown = ("sun" :> 0) @@ ("limited" :> 0) @@ @]

\* A house that takes no power at all is no minimum.
IsNew(s, k, v) ==
  IF k \in IsMin THEN v < s.at[k] /\ (k = "home_min" => v # 0) ELSE v > s.at[k]

Extremes(s, r) ==
  LET new == {k \in Extreme : IsNew(s, k, r[Source[k]])}
  IN [s EXCEPT !.at = [k \in Extreme |-> IF k \in new THEN r[Source[k]] ELSE @[k]],
               !.shown = [k \in new |-> r[Source[k]]] @@ @]

Durations(s, r) ==
  LET passed == IF s.last = 0 THEN 0 ELSE r.time - s.last
      lasts(c, k, yes) ==
        IF yes THEN [c EXCEPT ![k] = @ + passed, !.shown = (k :> ((s[k] + passed) \div 60)) @@ @]
               ELSE c
  IN [lasts(lasts(s, "limited", r.limit), "sun", r.solar # 0) EXCEPT !.last = r.time]

statisticValues(s, r) ==
  Durations(Extremes(IF r.reset THEN ResetStatistics(s, r) ELSE s, r), r)

-----------------------------------------------------------------------------
(* pviString and pviStringNull, for one string. sent is the message for    *)
(* the setup store.                                                        *)
pviStringNull(v) == [start |-> v, energy |-> 0, sent |-> <<>>]

pviString(s, v, reset) ==
  IF reset THEN [start |-> v, energy |-> 0, sent |-> <<v>>]
           ELSE [start |-> s.start, energy |-> v - s.start, sent |-> <<>>]

-----------------------------------------------------------------------------
(* wallboxLastCharging, for one of the two counters of a wallbox. start,   *)
(* add and diff are the fields of wb_stat, last is the topic.              *)
NoCharging == [begun |-> FALSE, plugged |-> FALSE, start |-> 0, add |-> 0, diff |-> 0, last |-> 0]

Begun(w, r) == IF w.begun THEN w ELSE [w EXCEPT !.begun = TRUE, !.start = r.meter]

Plugged(w, r) ==
  IF r.plugged /\ ~w.plugged
  THEN [w EXCEPT !.last = 0, !.start = r.meter, !.add = 0, !.diff = 0]
  ELSE w

\* The counter has begun anew.
Anew(w, r) ==
  IF r.meter < w.start \/ r.meter = 0
  THEN [w EXCEPT !.start = r.meter, !.add = w.diff, !.diff = 0]
  ELSE w

Gained(w, r) ==
  LET all == w.add + r.meter - w.start
  IN IF r.meter > w.start + w.diff - w.add THEN [w EXCEPT !.diff = all, !.last = all] ELSE w

wallboxLastCharging(w, r) ==
  Gained([Anew(Plugged(Begun(w, r), r), r) EXCEPT !.plugged = r.plugged], r)

-----------------------------------------------------------------------------
(* pmSummation, for one power meter: of the topics, that is, after each    *)
(* phase was rounded. Values are in tenths.                                *)
Rounded(v) == ((v + 5) \div 10) * 10
pmSummation(l) == Rounded(Rounded(l[1]) + Rounded(l[2]) + Rounded(l[3]))

-----------------------------------------------------------------------------
(* The readings of a day: all of one quantity, v, and one less for the     *)
(* grid, which may be negative; one every 40 seconds.                      *)
Reading(v, n, reset) ==
  [solar |-> v, home |-> v, soc |-> v, grid |-> v - 1, limit |-> v = 1, time |-> 40 * n,
   reset |-> reset]
Readings(vs, from, reset) ==
  [i \in DOMAIN vs |-> Reading(vs[i], from + i, reset /\ i = 1)]
Values(n, m) == UNION {[1..k -> 0..m] : k \in 1..n}
MinOf(S) == CHOOSE x \in S : \A y \in S : x <= y
MaxOf(S) == CHOOSE x \in S : \A y \in S : x >= y

FirstDay(vs) ==
  FoldLeft(statisticValues, Statics(Reading(vs[1], 1, FALSE), 0), Readings(vs, 0, FALSE))

(* From the first change of day on, whatever was before, the topics are    *)
(* the extremes of the day. One exception, by the way home_min skips 0: if *)
(* the day begins with 0, it is 1 at most, though nothing was ever 1.      *)
ASSUME ExtremesOfTheDay ==
  \A v0 \in 0..3 : \A vs \in Values(4, 3) :
    LET s == FoldLeft(statisticValues, FirstDay(<<v0>>), Readings(vs, 1, TRUE))
        all == {vs[i] : i \in DOMAIN vs}
    IN /\ \A k \in {"solar_max", "home_max", "soc_max"} : s.shown[k] = MaxOf(all)
       /\ s.shown["soc_min"] = MinOf(all)
       /\ s.shown["grid_min"] = MinOf(all) - 1 /\ s.shown["grid_max"] = MaxOf(all) - 1
       /\ s.shown["home_min"] = MinOf((all \ {0}) \cup (IF vs[1] = 0 THEN {1} ELSE {}))

(* On the day the program was started there is no reset. What is published *)
(* was really read, but not all is published: extremes on the other side   *)
(* of 0, or of the first power of the house, are not.                      *)
ASSUME FirstDayReal ==
  \A vs \in Values(4, 3) :
    LET s == FirstDay(vs)
    IN \A k \in Extreme \cap DOMAIN s.shown :
         \E i \in DOMAIN vs : s.shown[k] = Reading(vs[i], i, FALSE)[Source[k]]

(* The duration of the sun is the time before each reading with sun, in    *)
(* full minutes; of the time around midnight, all of it belongs to the new *)
(* day. No second is lost by the division, as seconds are counted.         *)
ASSUME SunOfTheDay ==
  \A vs \in Values(5, 1) :
    LET s == FoldLeft(statisticValues, FirstDay(<<1>>), Readings(vs, 1, TRUE))
        sunny == Len(SelectSeq(vs, LAMBDA v : v = 1))
    IN s.shown["sun"] = (40 * sunny) \div 60 /\ s.shown["limited"] = s.shown["sun"]

(* The start value of a string that had not answered before the third      *)
(* cycle is 0; then the topic of the day is the counter itself. Once it    *)
(* has, it is the energy since then, and after a new day that of the day.  *)
ASSUME StringsOfTheDay ==
  \A a \in 0..2, b \in 0..2, c \in 0..2 :
    LET s == pviString(pviStringNull(a), a + b, FALSE)
        t == pviString(pviString(s, a + b, TRUE), a + b + c, FALSE)
    IN s.energy = b /\ t.energy = c /\ pviStringNull(a).sent = <<>>

(* energy/last_charging, over every sequence of readings with plugs pulled *)
(* and counters that begin anew: never more than was charged since the car *)
(* was plugged in, all of it if the counter went on, and it does not fall  *)
(* before the next car.                                                    *)
Cars == UNION {[1..n -> [meter : 0..3, plugged : BOOLEAN]] : n \in 1..4}
NewCar(rs, i) == i = 1 \/ (rs[i].plugged /\ ~rs[i - 1].plugged)
Since(rs) == MaxOf({i \in DOMAIN rs : NewCar(rs, i)})
Charged(rs) ==
  LET more(i) == IF rs[i].meter >= rs[i - 1].meter THEN rs[i].meter - rs[i - 1].meter
                                                   ELSE rs[i].meter
  IN FoldLeft(LAMBDA sum, i : IF i > Since(rs) THEN sum + more(i) ELSE sum, 0,
              [i \in DOMAIN rs |-> i])
LastCharging(rs) == FoldLeft(wallboxLastCharging, NoCharging, rs).last

ASSUME LastChargingRight ==
  \A rs \in Cars :
    /\ LastCharging(rs) \in 0..Charged(rs)
    /\ (\A i \in (Since(rs) + 1)..Len(rs) : rs[i].meter >= rs[i - 1].meter)
         => LastCharging(rs) = Charged(rs)
    /\ ~NewCar(rs, Len(rs)) => LastCharging(rs) >= LastCharging(Front(rs))

(* The topic of the sum is the sum of the topics of the phases, and off    *)
(* the sum of the phases by one and a half at most.                        *)
ASSUME SumOfTopics ==
  \A a \in -20..20, b \in -6..6, c \in {0, 4, 5} :
    LET sum == pmSummation(<<a, b, c>>)
    IN /\ sum = Rounded(a) + Rounded(b) + Rounded(c)
       /\ sum - (a + b + c) \in -15..15

===============================================================================
