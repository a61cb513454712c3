-------------------------- MODULE Configured_proofs --------------------------
(* Theorems about the configuration and two components that run by it: the   *)
(* limiter of the state of charge, whose limits it may set, and the devices  *)
(* of the cyclic frame, whose lists and numbers it gives. The three share no *)
(* variable; each is proved for every value of its own constants.            *)
EXTENDS Configuration, DeviceAnswers, SocLimiter, FiniteSetTheorems, WellFoundedInduction, TLAPS

(* SocLimiter, for every range of the values, every set of limits that may   *)
(* be set, and any number of days and lost orders.                           *)

(* Every variable has its type at first, and each step keeps it.             *)
LEMMA InitType == LimiterInit => LimiterTypeOK
<1> SUFFICES ASSUME LimiterInit PROVE LimiterTypeOK
  OBVIOUS
<1>1. sets \in 0..MaxSets /\ losses \in 0..MaxLosses
  BY LimiterAssumption DEF LimiterInit, LimiterAssumption
<1>2. durable \in [Side -> BOOLEAN] /\ locked \in [Side -> BOOLEAN]
  BY DEF LimiterInit
<1>3. lockDay \in [Side -> 0..today] /\ today \in Nat
  BY DEF LimiterInit
<1>4. QED
  BY <1>1, <1>2, <1>3 DEF LimiterInit, LimiterTypeOK

(* The orders of a cycle keep the types.                                      *)
LEMMA LimitType == LimiterTypeOK /\ (\E arrives \in BOOLEAN : Limit(arrives)) => LimiterTypeOK'
<1> SUFFICES ASSUME LimiterTypeOK, NEW arrives \in BOOLEAN, Limit(arrives) PROVE LimiterTypeOK'
  OBVIOUS
<1>1. locked' \in [Side -> BOOLEAN]
  BY DEF Limit, LimiterTypeOK
<1>2. lockDay' \in [Side -> 0..today']
  <2>1. \A d \in Side : Ordered(d) \in 0..today
    BY DEF Ordered, LimiterTypeOK
  <2>2. \A d \in Side : (IF arrives /\ d \in Switched THEN Ordered(d) ELSE lockDay[d]) \in 0..today
    BY <2>1 DEF LimiterTypeOK
  <2>3. lockDay' \in [Side -> 0..today]
    BY <2>2 DEF Limit
  <2>4. QED
    BY <2>3 DEF Limit, clock
<1>3. losses' \in 0..MaxLosses
  BY LimiterAssumption DEF Limit, LimiterTypeOK, LimiterAssumption
<1>4. astray' \subseteq Side
  BY DEF Limit, LimiterTypeOK, Switched
<1>5. socLimit' \in [Side -> SocLimits \cup {0}] /\ homeLimit' \in HomeLimits \cup {0}
  <2>1. \A d \in Side : AfterDay(d, socLimit[d]) \in SocLimits \cup {0}
    BY DEF AfterDay, LimiterTypeOK
  <2>2. AfterDay("discharge", homeLimit) \in HomeLimits \cup {0}
    BY DEF AfterDay, LimiterTypeOK
  <2>3. QED
    BY <2>1, <2>2 DEF Limit
<1>6. closed' \in BOOLEAN /\ turn' \in {"limit", "answer"}
  BY DEF Limit, LimiterTypeOK
<1>7. QED
  BY <1>1, <1>2, <1>3, <1>4, <1>5, <1>6 DEF Limit, LimiterTypeOK, values, clock

(* Every step keeps the types.                                                *)
LEMMA StepType == LimiterTypeOK /\ [LimiterNext]_limiterVars => LimiterTypeOK'
<1> SUFFICES ASSUME LimiterTypeOK, [LimiterNext]_limiterVars PROVE LimiterTypeOK'
  OBVIOUS
<1>1. ASSUME NEW d \in Side, NEW l \in SocLimits, SetSocLimit(d, l) PROVE LimiterTypeOK'
  BY <1>1, LimiterAssumption
     DEF SetSocLimit, Set, LimiterTypeOK, LimiterAssumption, values, clock
<1>2. ASSUME NEW l \in HomeLimits, SetHomeLimit(l) PROVE LimiterTypeOK'
  BY <1>2, LimiterAssumption
     DEF SetHomeLimit, Set, LimiterTypeOK, LimiterAssumption, values, clock
<1>3. ASSUME NEW d \in Side, SetDurable(d) PROVE LimiterTypeOK'
  BY <1>3, LimiterAssumption
     DEF SetDurable, Set, LimiterTypeOK, LimiterAssumption, values, clock
<1>4. CASE \E arrives \in BOOLEAN : Limit(arrives)
  BY <1>4, LimitType
<1>5. ASSUME NEW s \in Soc, NEW p \in Solar, NEW h \in Home, Values(s, p, h) PROVE LimiterTypeOK'
  BY <1>5 DEF Values, LimiterTypeOK, limits, clock
<1>6. CASE DayEnds
  BY <1>6 DEF DayEnds, LimiterTypeOK, values, limits
<1>7. CASE Midnight
  <2>1. today' \in Nat /\ 0..today \subseteq 0..today'
    BY <1>7 DEF Midnight, LimiterTypeOK
  <2>2. QED
    BY <1>7, <2>1 DEF Midnight, LimiterTypeOK, values, limits
<1>8. CASE UNCHANGED limiterVars
  BY <1>8 DEF limiterVars, values, limits, clock, LimiterTypeOK
<1>9. QED
  BY <1>1, <1>2, <1>3, <1>4, <1>5, <1>6, <1>7, <1>8 DEF LimiterNext

(* The types of the limiter.                                                 *)
THEOREM LimiterTypes == LimiterSpec => []LimiterTypeOK
BY InitType, StepType, PTL DEF LimiterSpec

-----------------------------------------------------------------------------
(* The limits are numbers.                                                    *)
LEMMA LimitsAreNat ==
  LimiterTypeOK => socLimit["charge"] \in Nat /\ socLimit["discharge"] \in Nat
<1> SUFFICES ASSUME LimiterTypeOK, NEW d \in Side PROVE socLimit[d] \in Nat
  BY DEF Side
<1>1. socLimit[d] \in SocLimits \cup {0}
  BY DEF LimiterTypeOK
<1>2. SocLimits \subseteq Nat
  BY LimiterAssumption DEF LimiterAssumption
<1>3. CASE socLimit[d] \in SocLimits
  BY <1>2, <1>3
<1>4. CASE socLimit[d] = 0
  BY <1>4
<1>5. QED
  BY <1>1, <1>3, <1>4

(* Lock and Release as one call of socLimiter sees them: what locks and what  *)
(* releases exclude each other, but for two discharge limits, and for the     *)
(* home power limit with an empty battery.                                    *)
LEMMA LockOrRelease == LimiterTypeOK => NoFlapping
<1> SUFFICES ASSUME LimiterTypeOK, NEW d \in Side, Lock(d), Release(d)
             PROVE  d = "discharge" /\ (BothLimits \/ soc = 0)
  BY DEF NoFlapping
<1>1. ~(ChargeLock /\ ChargeRelease)
  <2>1. socLimit["charge"] \in Nat
    BY LimitsAreNat
  <2>2. soc \in Nat /\ solar \in Nat /\ SolarMin \in Nat \ {0}
    BY LimiterAssumption DEF LimiterTypeOK, LimiterAssumption
  <2>3. QED
    BY <2>1, <2>2 DEF ChargeLock, ChargeRelease
<1>2. ASSUME DischargeLock, DischargeRelease PROVE BothLimits \/ soc = 0
  <2>1. soc \in Nat /\ home \in Nat /\ homeLimit \in Nat
    BY LimiterAssumption DEF LimiterTypeOK, LimiterAssumption
  <2>2. socLimit["discharge"] \in Nat
    BY LimitsAreNat
  <2>3. HomeRelease <= homeLimit
    BY <2>1 DEF HomeRelease
  <2>4. HomeRelease \in Int
    BY <2>1 DEF HomeRelease
  <2>5. QED
    BY <1>2, <2>1, <2>2, <2>3, <2>4 DEF DischargeLock, DischargeRelease, BySoc, ByHome, BothLimits
<1>3. QED
  BY <1>1, <1>2 DEF Lock, Release, Side

(* No values make the limiter lock and release a side in turn.               *)
THEOREM NeverFlaps == LimiterSpec => []NoFlapping
BY LimiterTypes, LockOrRelease, PTL

-----------------------------------------------------------------------------
(* The flags of socLimiter and the locks of the device.                      *)
LEMMA StepLocks == LimiterTypeOK /\ LockIsReal /\ [LimiterNext]_limiterVars => LockIsReal'
<1> SUFFICES ASSUME LimiterTypeOK, LockIsReal, [LimiterNext]_limiterVars PROVE LockIsReal'
  OBVIOUS
<1>1. ASSUME NEW arrives \in BOOLEAN, Limit(arrives) PROVE LockIsReal'
  <2> SUFFICES ASSUME NEW d \in Side \ astray'
               PROVE  lockDay'[d] = IF locked'[d] THEN today' ELSE 0
    BY DEF LockIsReal
  <2>1. today' = today
    BY <1>1 DEF Limit, clock
  <2>2. CASE d \in Switched
    <3>1. arrives
      BY <1>1, <2>2 DEF Limit
    <3>2. lockDay'[d] = Ordered(d) /\ locked'[d] = ~locked[d]
      BY <1>1, <2>2, <3>1 DEF Limit
    <3>3. locked[d] \in BOOLEAN
      BY DEF LimiterTypeOK
    <3>4. QED
      BY <2>1, <3>2, <3>3 DEF Ordered
  <2>3. CASE d \notin Switched
    <3>1. d \notin astray
      BY <1>1, <2>3 DEF Limit
    <3>2. lockDay'[d] = lockDay[d] /\ locked'[d] = locked[d]
      BY <1>1, <2>3 DEF Limit
    <3>3. QED
      BY <2>1, <3>1, <3>2 DEF LockIsReal
  <2>4. QED
    BY <2>2, <2>3
<1>2. CASE Midnight
  BY <1>2 DEF Midnight, LockIsReal
<1>3. ASSUME UNCHANGED <<lockDay, locked, today, astray>> PROVE LockIsReal'
  BY <1>3 DEF LockIsReal
<1>4. QED
  BY <1>1, <1>2, <1>3
     DEF LimiterNext, SetSocLimit, SetHomeLimit, SetDurable, Values, DayEnds, limiterVars, clock

(* As long as no order was lost and none is left from another day, a side is *)
(* locked on the device, for today, exactly when its flag says so.           *)
THEOREM FlagsAreReal == LimiterSpec => []LocksInStep
<1>1. LimiterInit => LockIsReal
  BY DEF LimiterInit, LockIsReal
<1>2. LimiterSpec => []LockIsReal
  BY <1>1, StepLocks, LimiterTypes, PTL DEF LimiterSpec
<1>3. LimiterTypeOK /\ LockIsReal => LocksInStep
  BY DEF LocksInStep
<1>4. QED
  BY <1>2, <1>3, LimiterTypes, PTL

-----------------------------------------------------------------------------
(* What holds after a cycle of the day, and after one in its last minutes.    *)
LEMMA LimitsAfterCycle ==
  ASSUME LimiterTypeOK, NEW arrives \in BOOLEAN, Limit(arrives), ~dayEnd
  PROVE  LimitsHold'
<1>1. UNCHANGED <<soc, solar, home, dayEnd>>
  BY DEF Limit, values, clock
<1>2. socLimit' = socLimit /\ homeLimit' = homeLimit
  BY DEF Limit, AfterDay, LimiterTypeOK
<1>3. \A d \in Side : locked[d] \in BOOLEAN
  BY DEF LimiterTypeOK
<1>4. \A d \in Side : locked'[d] <=> IF locked[d] THEN ~Release(d) ELSE Lock(d)
  <2> SUFFICES ASSUME NEW d \in Side
               PROVE  locked'[d] <=> IF locked[d] THEN ~Release(d) ELSE Lock(d)
    OBVIOUS
  <2>1. d \in Switched <=> IF locked[d] THEN Release(d) ELSE Lock(d)
    BY DEF Switched
  <2>2. locked'[d] = IF d \in Switched THEN ~locked[d] ELSE locked[d]
    BY DEF Limit
  <2>3. QED
    BY <1>3, <2>1, <2>2
<1>5. NoFlapping
  BY LockOrRelease
<1>6. /\ ChargeLock' => locked'["charge"]
      /\ socLimit'["charge"] = 0 => ~locked'["charge"]
  <2>1. "charge" \in Side
    BY DEF Side
  <2>2. ChargeLock => ~ChargeRelease
    BY <1>5, <2>1 DEF NoFlapping, Lock, Release
  <2>3. ChargeLock' = ChargeLock
    BY <1>1, <1>2 DEF ChargeLock
  <2>4. locked'["charge"] <=> IF locked["charge"] THEN ~ChargeRelease ELSE ChargeLock
    BY <1>4, <2>1 DEF Lock, Release
  <2>5. socLimit["charge"] = 0 => ChargeRelease /\ ~ChargeLock
    BY DEF ChargeRelease, ChargeLock
  <2>6. QED
    BY <1>2, <1>3, <2>1, <2>2, <2>3, <2>4, <2>5
<1>7. /\ BySoc' /\ ~BothLimits' => locked'["discharge"]
      /\ ByHome' /\ ~BothLimits' /\ soc' # 0 => locked'["discharge"]
      /\ socLimit'["discharge"] = 0 /\ homeLimit' = 0 => ~locked'["discharge"]
  <2>1. "discharge" \in Side
    BY DEF Side
  <2>2. BySoc' = BySoc /\ ByHome' = ByHome /\ BothLimits' = BothLimits /\ soc' = soc
    BY <1>1, <1>2 DEF BySoc, ByHome, BothLimits
  <2>3. locked'["discharge"] <=> IF locked["discharge"] THEN ~DischargeRelease ELSE DischargeLock
    BY <1>4, <2>1, "discharge" # "charge" DEF Lock, Release
  <2>4. DischargeLock /\ DischargeRelease => BothLimits \/ soc = 0
    BY <1>5, <2>1, "discharge" # "charge" DEF NoFlapping, Lock, Release
  <2>5. BySoc \/ ByHome => DischargeLock
    BY DEF DischargeLock
  <2>6. BySoc => soc # 0
    BY DEF BySoc
  <2>7. socLimit["discharge"] = 0 /\ homeLimit = 0 => DischargeRelease /\ ~DischargeLock
    BY DEF DischargeRelease, DischargeLock, BySoc, ByHome
  <2>8. QED
    BY <1>2, <1>3, <2>1, <2>2, <2>3, <2>4, <2>5, <2>6, <2>7
<1>8. QED
  BY <1>6, <1>7 DEF LimitsHold

(* Every step keeps the limits held.                                          *)
LEMMA StepLimits == LimiterTypeOK /\ LimitsHold /\ [LimiterNext]_limiterVars => LimitsHold'
<1> SUFFICES ASSUME LimiterTypeOK, LimitsHold, [LimiterNext]_limiterVars PROVE LimitsHold'
  OBVIOUS
<1>1. ASSUME NEW arrives \in BOOLEAN, Limit(arrives) PROVE LimitsHold'
  <2>1. CASE dayEnd
    BY <1>1, <2>1 DEF Limit, clock, LimitsHold
  <2>2. QED
    BY <1>1, <2>1, LimitsAfterCycle
<1>2. CASE UNCHANGED limiterVars
  BY <1>2 DEF limiterVars, values, limits, clock, LimitsHold, ChargeLock, BySoc, ByHome, BothLimits
<1>3. ASSUME turn' = "limit" PROVE LimitsHold'
  BY <1>3 DEF LimitsHold
<1>4. QED
  BY <1>1, <1>2, <1>3
     DEF LimiterNext, SetSocLimit, SetHomeLimit, SetDurable, Set, Values, DayEnds, Midnight

(* After every cycle of the day the locks are what limits and values ask for: *)
(* a side is locked at a limit, and not locked without one.                   *)
THEOREM LimitsAreObeyed == LimiterSpec => []LimitsHold
<1>1. LimiterInit => LimitsHold
  BY DEF LimiterInit, LimitsHold
<1>2. QED
  BY <1>1, StepLimits, LimiterTypes, PTL DEF LimiterSpec

(* Every step keeps the end of the day.                                       *)
LEMMA StepEnd == LimiterTypeOK /\ EndOfDay /\ [LimiterNext]_limiterVars => EndOfDay'
<1> SUFFICES ASSUME LimiterTypeOK, EndOfDay, [LimiterNext]_limiterVars PROVE EndOfDay'
  OBVIOUS
<1>1. ASSUME NEW arrives \in BOOLEAN, Limit(arrives) PROVE EndOfDay'
  <2> SUFFICES ASSUME dayEnd'
      PROVE  /\ \A d \in Side : ~locked'[d]
             /\ \A d \in Side : ~durable'[d] => socLimit'[d] = 0
             /\ ~durable'["discharge"] => homeLimit' = 0
    BY DEF EndOfDay
  <2>1. dayEnd /\ durable' = durable
    BY <1>1 DEF Limit, clock
  <2>2. \A d \in Side : Release(d) /\ ~Lock(d)
    BY <2>1 DEF Release, Lock, ChargeRelease, ChargeLock, DischargeRelease, DischargeLock
  <2>3. \A d \in Side : locked[d] \in BOOLEAN
    BY DEF LimiterTypeOK
  <2>4. \A d \in Side : ~locked'[d]
    BY <1>1, <2>2, <2>3 DEF Limit, Switched
  <2>5. \A d \in Side : ~durable[d] => socLimit'[d] = 0
    BY <1>1, <2>1 DEF Limit, AfterDay
  <2>6. ~durable["discharge"] => homeLimit' = 0
    BY <1>1, <2>1 DEF Limit, AfterDay
  <2>7. QED
    BY <2>1, <2>4, <2>5, <2>6
<1>2. CASE DayEnds
  BY <1>2 DEF DayEnds, EndOfDay
<1>3. CASE Midnight
  BY <1>3 DEF Midnight, EndOfDay
<1>4. CASE UNCHANGED limiterVars
  BY <1>4 DEF limiterVars, limits, clock, EndOfDay
<1>5. ASSUME turn' = "limit", UNCHANGED <<dayEnd, closed, locked>> PROVE EndOfDay'
  BY <1>5 DEF EndOfDay
<1>6. QED
  BY <1>1, <1>2, <1>3, <1>4, <1>5
     DEF LimiterNext, SetSocLimit, SetHomeLimit, SetDurable, Set, Values, clock

(* One cycle in the last minutes of the day is enough: no lock is taken over  *)
(* midnight, and of the limits only the durable ones.                         *)
THEOREM DayIsClosed == LimiterSpec => []EndOfDay
<1>1. LimiterInit => EndOfDay
  BY DEF LimiterInit, EndOfDay
<1>2. QED
  BY <1>1, StepEnd, LimiterTypes, PTL DEF LimiterSpec

-----------------------------------------------------------------------------
(* Configuration, for every file and environment, however long: what is in   *)
(* force at the end is what is written. The invariant says it of all that    *)
(* has been read until now; the corrections and the order of the requests    *)
(* come at the end, from what was read alone.                                *)

(* The requests, words and tags that occur in lines and settings.             *)
Request == {x.value.request : x \in Lines \union Settings}

(* The words: those of the values, and none.                                  *)
Word == {""} \union {x.value.word : x \in Lines \union Settings}

(* An additional tag, as the configuration keeps it.                          *)
Tag == [request : Request, one_shot : BOOLEAN]

(* The configuration, field by field.                                         *)
CfgType ==
  [num : [IntKey -> Int], flag : [OnKey \union OffKey -> BOOLEAN], text : [TextKey -> Word],
   limit : [LimitKey \union DurableKey -> Int], pm_indexes : Seq(0..127),
   wb_indexes : Seq(0..(MaxCount - 1)), tags : Seq(Tag)]

(* The types of the start.                                                    *)
StartTypeOK ==
  /\ stage \in {"file", "env", "ready", "exit"} /\ skip \in BOOLEAN
  /\ cfg \in CfgType
  /\ Len(cfg.pm_indexes) <= MaxCount /\ Len(cfg.wb_indexes) <= MaxCount
  /\ \A k \in LimitKey : cfg.limit[k] \in LimitRange(k)
  /\ file \in Seq(Lines) /\ env \in Seq(Settings)
  /\ stage = "file" => env = <<>>

-----------------------------------------------------------------------------
(* Sets of places, and one more behind them all.                              *)
LEMMA LatestIsNew ==
  ASSUME NEW n \in Nat, NEW P \in SUBSET (1..(n - 1))
  PROVE  Latest(P \union {n}) = n
<1> DEFINE Q == P \union {n}
<1>1. n \in Q /\ \A m \in Q : m <= n
  OBVIOUS
<1>2. \A m \in Q : (\A l \in Q : l <= m) => m = n
  BY <1>1
<1>3. (CHOOSE m \in Q : \A l \in Q : l <= m) = n
  BY <1>1, <1>2
<1>4. QED
  BY <1>3 DEF Latest

(* The rank of the earlier places stays, and the new one has the last.        *)
LEMMA RankIsKept ==
  ASSUME NEW n \in Nat, NEW P \in SUBSET (1..(n - 1))
  PROVE  /\ IsFiniteSet(P) /\ Cardinality(P) \in Nat
         /\ IsFiniteSet(P \union {n}) /\ Cardinality(P \union {n}) = Cardinality(P) + 1
         /\ \A m \in P : Rank(P \union {n}, m) = Rank(P, m) /\ Rank(P, m) <= Cardinality(P)
         /\ \A m \in P : Rank(P, m) \in Nat
         /\ Rank(P \union {n}, n) = Cardinality(P) + 1
<1>1. IsFiniteSet(1..(n - 1))
  BY FS_Interval
<1>2. IsFiniteSet(P) /\ Cardinality(P) \in Nat
  BY <1>1, FS_Subset, FS_CardinalityType
<1>3. IsFiniteSet(P \union {n}) /\ Cardinality(P \union {n}) = Cardinality(P) + 1
  <2>1. n \notin P
    OBVIOUS
  <2>2. QED
    BY <1>2, <2>1, FS_AddElement
<1>4. ASSUME NEW m \in P
      PROVE  /\ Rank(P \union {n}, m) = Rank(P, m) /\ Rank(P, m) <= Cardinality(P)
             /\ Rank(P, m) \in Nat
  <2>1. {l \in P \union {n} : l <= m} = {l \in P : l <= m}
    OBVIOUS
  <2>2. {l \in P : l <= m} \in SUBSET P
    OBVIOUS
  <2>3. Cardinality({l \in P : l <= m}) <= Cardinality(P) /\ IsFiniteSet({l \in P : l <= m})
    BY <1>2, <2>2, FS_Subset
  <2>4. Cardinality({l \in P : l <= m}) \in Nat
    BY <2>3, FS_CardinalityType
  <2>5. QED
    BY <2>1, <2>3, <2>4 DEF Rank
<1>5. Rank(P \union {n}, n) = Cardinality(P) + 1
  <2> DEFINE Q == P \union {n}
  <2>0. \A l \in Q : l <= n
    OBVIOUS
  <2> HIDE DEF Q
  <2>1. {l \in Q : l <= n} = Q
    BY <2>0
  <2>2. QED
    BY <1>3, <2>1 DEF Rank, Q
<1>6. QED
  BY <1>2, <1>3, <1>4, <1>5

(* The places are numbers, and finitely many.                                 *)
LEMMA GivenIsFinite ==
  ASSUME StartTypeOK, NEW keys
  PROVE  /\ Given(keys) \in SUBSET Places /\ Places = 1..(Len(file) + Len(env))
         /\ Len(file) \in Nat /\ Len(env) \in Nat
         /\ IsFiniteSet(Given(keys)) /\ Cardinality(Given(keys)) \in Nat
<1>1. Len(file) \in Nat /\ Len(env) \in Nat
  BY DEF StartTypeOK
<1>2. Given(keys) \in SUBSET Places /\ Places = 1..(Len(file) + Len(env))
  BY DEF Given, Places
<1>3. IsFiniteSet(Places)
  BY <1>1, <1>2, FS_Interval
<1>4. QED
  BY <1>1, <1>2, <1>3, FS_Subset, FS_CardinalityType

-----------------------------------------------------------------------------

(* What a setting of key to v does to the lists: c before, d after. acc says  *)
(* whether the value is accepted.                                             *)
Lists(key, v, c, d, acc) ==
  /\ d.pm_indexes = IF key = "PM_INDEX" /\ acc /\ Len(c.pm_indexes) < MaxCount
                    THEN Append(c.pm_indexes, v.num) ELSE c.pm_indexes
  /\ d.wb_indexes = IF key = "WB_INDEX" /\ acc /\ Len(c.wb_indexes) < MaxCount
                    THEN Append(c.wb_indexes, v.num) ELSE c.wb_indexes

(* What it does to the requests that are added.                               *)
Tags(key, v, c, d, acc, inEnv) ==
  d.tags = IF key \in RequestKey /\ acc /\ \A i \in DOMAIN c.tags : c.tags[i].request # v.request
           THEN Append(c.tags, [request |-> v.request,
                                one_shot |-> inEnv /\ key = "ADD_NEW_REQUEST_AT_START"])
           ELSE c.tags

(* What it does to the numbers, flags, texts and limits.                      *)
Scalars(key, v, c, d, acc) ==
  /\ \A k \in IntKey : d.num[k] = IF k = key /\ acc THEN v.num ELSE c.num[k]
  /\ \A k \in OnKey \union OffKey :
       d.flag[k] = IF k = key /\ acc THEN v.word \in {"true", "1"} ELSE c.flag[k]
  /\ \A k \in TextKey : d.text[k] = IF k = key /\ acc THEN v.word ELSE c.text[k]
  /\ \A k \in LimitKey : d.limit[k] = IF k = key /\ acc THEN v.num ELSE c.limit[k]
  /\ \A k \in DurableKey : d.limit[k] = IF k = key /\ acc THEN 1 ELSE c.limit[k]

(* What it does to the whole configuration.                                   *)
Effect(key, v, c, d, acc, inEnv) ==
  Scalars(key, v, c, d, acc) /\ Lists(key, v, c, d, acc) /\ Tags(key, v, c, d, acc, inEnv)

(* Each key is of one kind.                                                   *)
LEMMA KeysApart ==
  /\ TextKey \intersect (IntKey \union OnKey \union OffKey \union LimitKey \union DurableKey
                         \union RequestKey \union {"PM_INDEX", "WB_INDEX"}) = {}
  /\ IntKey \intersect (OnKey \union OffKey \union LimitKey \union DurableKey
                        \union RequestKey \union {"PM_INDEX", "WB_INDEX"}) = {}
  /\ OnKey \intersect (OffKey \union LimitKey \union DurableKey
                       \union RequestKey \union {"PM_INDEX", "WB_INDEX"}) = {}
  /\ OffKey \intersect (LimitKey \union DurableKey
                        \union RequestKey \union {"PM_INDEX", "WB_INDEX"}) = {}
  /\ LimitKey \intersect (DurableKey \union RequestKey \union {"PM_INDEX", "WB_INDEX"}) = {}
  /\ DurableKey \intersect (RequestKey \union {"PM_INDEX", "WB_INDEX"}) = {}
  /\ RequestKey \intersect {"PM_INDEX", "WB_INDEX"} = {}
<1>1. TextKey \intersect (IntKey \union OnKey \union OffKey \union LimitKey \union DurableKey
                         \union RequestKey \union {"PM_INDEX", "WB_INDEX"}) = {}
  BY ConfigurationAssumption DEF ConfigurationAssumption
<1>2. QED
  BY <1>1 DEF IntKey, OnKey, OffKey, LimitKey, DurableKey, RequestKey

(* What the file and the environment share.                                   *)
LEMMA CommonEffect ==
  ASSUME NEW c \in CfgType, NEW key, NEW v, ValueType(v), NEW inEnv \in BOOLEAN, v.word # "",
         key \notin IntKey \union OnKey \union OffKey \union TextKey \union RequestKey
  PROVE  Effect(key, v, c, Common(c, key, v), Accepted(key, v, inEnv), inEnv)
<1> DEFINE d == Common(c, key, v)
           acc == Accepted(key, v, inEnv)
<1>1. CASE key = "PM_INDEX"
  <2>1. acc <=> v.num \in 0..127
    BY <1>1, KeysApart DEF Accepted
  <2>2. d = IF acc /\ Len(c.pm_indexes) < MaxCount
            THEN [c EXCEPT !.pm_indexes = Append(@, v.num)] ELSE c
    BY <1>1, <2>1, KeysApart DEF Common
  <2> HIDE DEF d, acc
  <2>3. /\ d.num = c.num /\ d.flag = c.flag /\ d.text = c.text
        /\ d.limit = c.limit /\ d.wb_indexes = c.wb_indexes /\ d.tags = c.tags
        /\ d.pm_indexes = IF acc /\ Len(c.pm_indexes) < MaxCount
             THEN Append(c.pm_indexes, v.num)
             ELSE c.pm_indexes
    BY <2>2 DEF CfgType
  <2>4. Effect(key, v, c, d, acc, inEnv)
    BY <1>1, <2>3, KeysApart DEF Effect, Scalars, Lists, Tags, CfgType
  <2>5. QED
    BY <2>4 DEF d, acc
<1>2. CASE key = "WB_INDEX"
  <2>1. acc <=> v.num \in 0..(MaxCount - 1)
    BY <1>2, KeysApart DEF Accepted
  <2>2. d = IF acc /\ Len(c.wb_indexes) < MaxCount
            THEN [c EXCEPT !.wb_indexes = Append(@, v.num)] ELSE c
    BY <1>2, <2>1, KeysApart DEF Common
  <2> HIDE DEF d, acc
  <2>3. /\ d.num = c.num /\ d.flag = c.flag /\ d.text = c.text
        /\ d.limit = c.limit /\ d.pm_indexes = c.pm_indexes /\ d.tags = c.tags
        /\ d.wb_indexes = IF acc /\ Len(c.wb_indexes) < MaxCount
             THEN Append(c.wb_indexes, v.num)
             ELSE c.wb_indexes
    BY <2>2 DEF CfgType
  <2>4. Effect(key, v, c, d, acc, inEnv)
    BY <1>2, <2>3, KeysApart DEF Effect, Scalars, Lists, Tags, CfgType
  <2>5. QED
    BY <2>4 DEF d, acc
<1>3. CASE key \in LimitKey
  <2>1. acc <=> v.num \in LimitRange(key)
    BY <1>3, KeysApart DEF Accepted
  <2>2. d = IF acc THEN [c EXCEPT !.limit[key] = v.num] ELSE c
    BY <1>3, <2>1, KeysApart DEF Common
  <2> HIDE DEF d, acc
  <2>3. /\ d.num = c.num /\ d.flag = c.flag /\ d.text = c.text
        /\ d.pm_indexes = c.pm_indexes /\ d.wb_indexes = c.wb_indexes /\ d.tags = c.tags
        /\ d.limit = IF acc
             THEN [c.limit EXCEPT ![key] = v.num]
             ELSE c.limit
    BY <2>2 DEF CfgType
  <2>4. \A k \in LimitKey \union DurableKey :
          d.limit[k] = IF k = key /\ acc THEN v.num ELSE c.limit[k]
    BY <1>3, <2>3 DEF CfgType
  <2>5. Lists(key, v, c, d, acc) /\ Tags(key, v, c, d, acc, inEnv)
    BY <1>3, <2>3, KeysApart DEF Lists, Tags
  <2>6. Scalars(key, v, c, d, acc)
    BY <1>3, <2>3, <2>4, KeysApart DEF Scalars
  <2>7. QED
    BY <2>5, <2>6 DEF Effect, d, acc
<1>4. CASE key \in DurableKey
  <2>1. acc <=> v.word = "true"
    BY <1>4, KeysApart DEF Accepted
  <2>2. d = IF acc THEN [c EXCEPT !.limit[key] = 1] ELSE c
    BY <1>4, <2>1, KeysApart DEF Common
  <2> HIDE DEF d, acc
  <2>3. /\ d.num = c.num /\ d.flag = c.flag /\ d.text = c.text
        /\ d.pm_indexes = c.pm_indexes /\ d.wb_indexes = c.wb_indexes /\ d.tags = c.tags
        /\ d.limit = IF acc
             THEN [c.limit EXCEPT ![key] = 1]
             ELSE c.limit
    BY <2>2 DEF CfgType
  <2>4. \A k \in LimitKey \union DurableKey :
          d.limit[k] = IF k = key /\ acc THEN 1 ELSE c.limit[k]
    BY <1>4, <2>3 DEF CfgType
  <2>5. Lists(key, v, c, d, acc) /\ Tags(key, v, c, d, acc, inEnv)
    BY <1>4, <2>3, KeysApart DEF Lists, Tags
  <2>6. Scalars(key, v, c, d, acc)
    BY <1>4, <2>3, <2>4, KeysApart DEF Scalars
  <2>7. QED
    BY <2>5, <2>6 DEF Effect, d, acc
<1>5. CASE key \notin {"PM_INDEX", "WB_INDEX"} \union LimitKey \union DurableKey
  <2>1. d = c
    BY <1>5 DEF Common
  <2>2. QED
    BY <1>5, <2>1 DEF Effect, Scalars, Lists, Tags
<1>6. QED
  BY <1>1, <1>2, <1>3, <1>4, <1>5

(* A request that is added, or that is there.                                 *)
LEMMA PushEffect ==
  ASSUME NEW c \in CfgType, NEW key \in RequestKey, NEW v, NEW inEnv \in BOOLEAN, v.word # ""
  PROVE  Effect(key, v, c, Push(c, v.request, inEnv /\ key = "ADD_NEW_REQUEST_AT_START"),
                Accepted(key, v, inEnv), inEnv)
<1> DEFINE once == inEnv /\ key = "ADD_NEW_REQUEST_AT_START"
           d == Push(c, v.request, once)
<1>1. Accepted(key, v, inEnv)
  BY KeysApart DEF Accepted
<1>2. d = IF \A i \in DOMAIN c.tags : c.tags[i].request # v.request
          THEN [c EXCEPT !.tags = Append(@, [request |-> v.request, one_shot |-> once])] ELSE c
  BY DEF Push
<1> HIDE DEF d, once
<1>3. /\ d.num = c.num /\ d.flag = c.flag /\ d.text = c.text
      /\ d.limit = c.limit /\ d.pm_indexes = c.pm_indexes /\ d.wb_indexes = c.wb_indexes
      /\ d.tags = IF \A i \in DOMAIN c.tags : c.tags[i].request # v.request
                  THEN Append(c.tags, [request |-> v.request, one_shot |-> once]) ELSE c.tags
  BY <1>2 DEF CfgType
<1>4. Effect(key, v, c, d, Accepted(key, v, inEnv), inEnv)
  BY <1>1, <1>3, KeysApart DEF Effect, Scalars, Lists, Tags, once
<1>5. QED
  BY <1>4 DEF d, once

(* A line of the file.                                                        *)
LEMMA FileEffect ==
  ASSUME NEW c \in CfgType, NEW key, NEW v, ValueType(v)
  PROVE  Effect(key, v, c, FromFile(c, key, v), Accepted(key, v, FALSE), FALSE)
<1> DEFINE d == FromFile(c, key, v)
           acc == Accepted(key, v, FALSE)
<1>1. CASE v.word = ""
  <2>1. d = c
    BY <1>1 DEF FromFile
  <2>2. ~acc
    BY <1>1 DEF Accepted
  <2>3. QED
    BY <2>1, <2>2 DEF Effect, Scalars, Lists, Tags
<1>2. CASE v.word # "" /\ key \in IntKey
  <2>1. acc
    BY <1>2, KeysApart DEF Accepted
  <2>2. d = [c EXCEPT !.num[key] = v.num]
    BY <1>2, KeysApart DEF FromFile
  <2> HIDE DEF d, acc
  <2>3. /\ d.flag = c.flag /\ d.text = c.text /\ d.limit = c.limit
        /\ d.pm_indexes = c.pm_indexes /\ d.wb_indexes = c.wb_indexes /\ d.tags = c.tags
        /\ \A k \in IntKey : d.num[k] = IF k = key THEN v.num ELSE c.num[k]
    BY <2>2 DEF CfgType
  <2>4. Effect(key, v, c, d, acc, FALSE)
    BY <1>2, <2>1, <2>3, KeysApart DEF Effect, Scalars, Lists, Tags
  <2>5. QED
    BY <2>4 DEF d, acc
<1>3. CASE v.word # "" /\ key \in TextKey
  <2>1. acc /\ key \notin IntKey
    BY <1>3, KeysApart DEF Accepted
  <2>2. d = [c EXCEPT !.text[key] = v.word]
    BY <1>3, <2>1, KeysApart DEF FromFile
  <2> HIDE DEF d, acc
  <2>3. /\ d.num = c.num /\ d.flag = c.flag /\ d.limit = c.limit
        /\ d.pm_indexes = c.pm_indexes /\ d.wb_indexes = c.wb_indexes /\ d.tags = c.tags
        /\ \A k \in TextKey : d.text[k] = IF k = key THEN v.word ELSE c.text[k]
    BY <2>2 DEF CfgType
  <2>4. Effect(key, v, c, d, acc, FALSE)
    BY <1>3, <2>1, <2>3, KeysApart DEF Effect, Scalars, Lists, Tags
  <2>5. QED
    BY <2>4 DEF d, acc
<1>4. CASE v.word # "" /\ key \in OnKey \union OffKey
  <2>1. /\ key \in OnKey => (acc <=> v.word = "true")
        /\ key \in OffKey => (acc <=> v.word = "false")
        /\ key \notin IntKey \union TextKey
    BY <1>4, KeysApart DEF Accepted
  <2>2. d = IF acc THEN [c EXCEPT !.flag[key] = v.word = "true"] ELSE c
    <3>1. CASE key \in OnKey
      BY <1>4, <2>1, <3>1, KeysApart DEF FromFile, Common
    <3>2. CASE key \in OffKey
      BY <1>4, <2>1, <3>2, KeysApart DEF FromFile, Common
    <3>3. QED
      BY <1>4, <3>1, <3>2
  <2>3. acc => (v.word = "true" <=> v.word \in {"true", "1"})
    BY <1>4, <2>1
  <2> HIDE DEF d, acc
  <2>4. /\ d.num = c.num /\ d.text = c.text /\ d.limit = c.limit
        /\ d.pm_indexes = c.pm_indexes /\ d.wb_indexes = c.wb_indexes /\ d.tags = c.tags
        /\ \A k \in OnKey \union OffKey :
             d.flag[k] = IF k = key /\ acc THEN v.word \in {"true", "1"} ELSE c.flag[k]
    BY <2>2, <2>3 DEF CfgType
  <2>5. Effect(key, v, c, d, acc, FALSE)
    BY <1>4, <2>1, <2>4, KeysApart DEF Effect, Scalars, Lists, Tags
  <2>6. QED
    BY <2>5 DEF d, acc
<1>5. CASE v.word # "" /\ key \in RequestKey
  <2>1. d = Push(c, v.request, FALSE)
    BY <1>5, KeysApart DEF FromFile
  <2>2. QED
    BY <1>5, <2>1, PushEffect
<1>6. CASE /\ v.word # ""
           /\ key \notin IntKey \union TextKey \union OnKey \union OffKey \union RequestKey
  <2>1. d = Common(c, key, v)
    BY <1>6 DEF FromFile
  <2>2. QED
    BY <1>6, <2>1, CommonEffect
<1>7. QED
  BY <1>1, <1>2, <1>3, <1>4, <1>5, <1>6

(* A variable of the environment.                                             *)
LEMMA EnvEffect ==
  ASSUME NEW c \in CfgType, NEW key, NEW v, ValueType(v)
  PROVE  Effect(key, v, c, FromEnv(c, key, v), Accepted(key, v, TRUE), TRUE)
<1> DEFINE d == FromEnv(c, key, v)
           acc == Accepted(key, v, TRUE)
<1>1. CASE key \in IntKey
  <2>1. acc <=> EnvTakes(key, v)
    BY <1>1, KeysApart DEF Accepted
  <2>2. d = IF acc THEN [c EXCEPT !.num[key] = v.num] ELSE c
    BY <1>1, <2>1, KeysApart DEF FromEnv
  <2> HIDE DEF d, acc
  <2>3. /\ d.flag = c.flag /\ d.text = c.text /\ d.limit = c.limit
        /\ d.pm_indexes = c.pm_indexes /\ d.wb_indexes = c.wb_indexes /\ d.tags = c.tags
        /\ \A k \in IntKey : d.num[k] = IF k = key /\ acc THEN v.num ELSE c.num[k]
    BY <2>2 DEF CfgType
  <2>4. Effect(key, v, c, d, acc, TRUE)
    BY <1>1, <2>3, KeysApart DEF Effect, Scalars, Lists, Tags
  <2>5. QED
    BY <2>4 DEF d, acc
<1>2. CASE key \in TextKey
  <2>1. acc /\ key \notin IntKey
    BY <1>2, KeysApart DEF Accepted
  <2>2. d = [c EXCEPT !.text[key] = v.word]
    BY <1>2, <2>1, KeysApart DEF FromEnv
  <2> HIDE DEF d, acc
  <2>3. /\ d.num = c.num /\ d.flag = c.flag /\ d.limit = c.limit
        /\ d.pm_indexes = c.pm_indexes /\ d.wb_indexes = c.wb_indexes /\ d.tags = c.tags
        /\ \A k \in TextKey : d.text[k] = IF k = key THEN v.word ELSE c.text[k]
    BY <2>2 DEF CfgType
  <2>4. Effect(key, v, c, d, acc, TRUE)
    BY <1>2, <2>1, <2>3, KeysApart DEF Effect, Scalars, Lists, Tags
  <2>5. QED
    BY <2>4 DEF d, acc
<1>3. CASE key \in OnKey \union OffKey
  <2>1. acc /\ key \notin IntKey \union TextKey
    BY <1>3, KeysApart DEF Accepted
  <2>2. d = [c EXCEPT !.flag[key] = v.word \in {"true", "1"}]
    BY <1>3, <2>1, KeysApart DEF FromEnv
  <2> HIDE DEF d, acc
  <2>3. /\ d.num = c.num /\ d.text = c.text /\ d.limit = c.limit
        /\ d.pm_indexes = c.pm_indexes /\ d.wb_indexes = c.wb_indexes /\ d.tags = c.tags
        /\ \A k \in OnKey \union OffKey :
             d.flag[k] = IF k = key THEN v.word \in {"true", "1"} ELSE c.flag[k]
    BY <2>2 DEF CfgType
  <2>4. Effect(key, v, c, d, acc, TRUE)
    BY <1>3, <2>1, <2>3, KeysApart DEF Effect, Scalars, Lists, Tags
  <2>5. QED
    BY <2>4 DEF d, acc
<1>4. CASE v.word = "" /\ key \notin IntKey \union TextKey \union OnKey \union OffKey
  <2>1. d = c
    BY <1>4 DEF FromEnv
  <2>2. ~acc
    BY <1>4 DEF Accepted
  <2>3. QED
    BY <2>1, <2>2 DEF Effect, Scalars, Lists, Tags
<1>5. CASE v.word # "" /\ key \in RequestKey
  <2>1. d = Push(c, v.request, key = "ADD_NEW_REQUEST_AT_START")
    BY <1>5, KeysApart DEF FromEnv
  <2>2. (TRUE /\ key = "ADD_NEW_REQUEST_AT_START") = (key = "ADD_NEW_REQUEST_AT_START")
    OBVIOUS
  <2>3. QED
    BY <1>5, <2>1, <2>2, PushEffect
<1>6. CASE /\ v.word # ""
           /\ key \notin IntKey \union TextKey \union OnKey \union OffKey \union RequestKey
  <2>1. d = Common(c, key, v)
    BY <1>6 DEF FromEnv
  <2>2. QED
    BY <1>6, <2>1, CommonEffect
<1>7. QED
  BY <1>1, <1>2, <1>3, <1>4, <1>5, <1>6

(* The comments are followed.                                                 *)
SkipsComments == stage = "file" => (skip <=> Commented(Len(file)))

(* Place n is read: a setting of key to v, if it counts.                      *)
Reads(n, key, v, inEnv, counts) ==
  /\ n \in Nat \ {0} /\ Places = 1..(n - 1) /\ Places' = 1..n
  /\ \A m \in 1..(n - 1) : Setting(m)' = Setting(m) /\ InEnv(m)' = InEnv(m)
  /\ Setting(n)'.key = key /\ Setting(n)'.value = v /\ InEnv(n)' = inEnv
  /\ \A m \in 1..(n - 1) : Counts(m)' = Counts(m)
  /\ Counts(n)' = counts

(* A line more: the comments before it are what they were.                    *)
LEMMA CommentsGrow ==
  ASSUME StartTypeOK, NEW l \in Lines, file' = Append(file, l),
         NEW n \in Nat, n = Len(file) + 1
  PROVE  /\ \A m \in 1..(n - 1) : Commented(m)' = Commented(m)
         /\ Commented(n)' <=> (l.kind = "open" \/ (l.kind # "close" /\ Commented(n - 1)))
<1>1. /\ n \in Nat \ {0} /\ Len(file) \in Nat /\ file'[n] = l
      /\ \A i \in 1..(n - 1) : file'[i] = file[i]
  BY DEF StartTypeOK
<1>2. ASSUME NEW m \in 1..(n - 1)  PROVE Commented(m)' = Commented(m)
  <2>1. \A j \in 1..m : file'[j] = file[j] /\ \A k \in (j + 1)..m : file'[k] = file[k]
    BY <1>1
  <2>2. \A j \in 1..m : \A k \in (j + 1)..m : Mark(k)' = Mark(k)
    BY <2>1 DEF Mark
  <2>3. QED
    BY <2>1, <2>2 DEF Commented
<1>3. CASE l.kind = "open"
  <2>1. n \in 1..n /\ (n + 1)..n = {}
    BY <1>1
  <2>2. QED
    BY <1>1, <1>2, <1>3, <2>1 DEF Commented
<1>4. CASE l.kind = "close"
  <2>1. Mark(n)'
    BY <1>1, <1>4 DEF Mark
  <2>2. \A j \in 1..n : file'[j].kind = "open" => n \in (j + 1)..n
    BY <1>1, <1>4
  <2>3. ~Commented(n)'
    BY <2>1, <2>2 DEF Commented
  <2>4. QED
    BY <1>2, <1>4, <2>3
<1>5. CASE l.kind \notin {"open", "close"}
  <2>1. ~Mark(n)'
    BY <1>1, <1>5 DEF Mark
  <2>2. ASSUME NEW j \in 1..n
        PROVE  (file'[j].kind = "open" /\ \A k \in (j + 1)..n : ~Mark(k)')
                 <=> (j \in 1..(n - 1) /\ file[j].kind = "open"
                        /\ \A k \in (j + 1)..(n - 1) : ~Mark(k))
    <3>1. CASE j = n
      BY <1>1, <1>5, <3>1
    <3>2. CASE j # n
      <4>1. j \in 1..(n - 1) /\ file'[j] = file[j]
        BY <1>1, <3>2
      <4>2. \A k \in (j + 1)..n : k = n \/ k \in (j + 1)..(n - 1)
        BY <1>1
      <4>3. \A k \in (j + 1)..(n - 1) : Mark(k)' = Mark(k) /\ k \in (j + 1)..n
        BY <1>1, <4>1 DEF Mark
      <4>4. QED
        BY <2>1, <4>1, <4>2, <4>3
    <3>3. QED
      BY <3>1, <3>2
  <2>3. Commented(n)' <=> Commented(n - 1)
    BY <1>1, <2>2 DEF Commented
  <2>4. QED
    BY <1>2, <1>5, <2>3
<1>6. QED
  BY <1>2, <1>3, <1>4, <1>5

(* A line is a place read, which counts outside of comments.                  *)
LEMMA LineRead ==
  ASSUME StartTypeOK, SkipsComments, NEW l \in Lines, ReadLine(l),
         NEW n \in Nat, n = Len(file) + 1
  PROVE  /\ Reads(n, l.key, l.value, FALSE, l.kind = "set" /\ ~skip')
         /\ SkipsComments'
<1>1. /\ n \in Nat \ {0} /\ Len(file) \in Nat /\ env = <<>> /\ env' = env /\ stage = "file"
      /\ file' = Append(file, l) /\ file'[n] = l /\ Len(file') = n /\ Len(env) = 0
      /\ \A i \in 1..(n - 1) : file'[i] = file[i]
  BY DEF StartTypeOK, ReadLine
<1>2. skip' <=> Commented(n)'
  <2>1. Commented(n)' <=> (l.kind = "open" \/ (l.kind # "close" /\ Commented(n - 1)))
    BY <1>1, CommentsGrow
  <2>2. skip <=> Commented(n - 1)
    BY <1>1 DEF SkipsComments
  <2>3. skip' <=> (l.kind = "open" \/ (l.kind # "close" /\ skip))
    BY DEF ReadLine, AfterLine, StartTypeOK
  <2>4. QED
    BY <2>1, <2>2, <2>3
<1>3. Places = 1..(n - 1) /\ Places' = 1..n
  BY <1>1 DEF Places
<1>4. /\ \A m \in 1..(n - 1) : Setting(m)' = Setting(m) /\ InEnv(m)' = InEnv(m)
      /\ \A m \in 1..(n - 1) : ~InEnv(m)
      /\ Setting(n)' = l /\ InEnv(n)' = FALSE
  BY <1>1 DEF Setting, InEnv
<1>5. \A m \in 1..(n - 1) : Counts(m)' = Counts(m)
  <2>1. \A m \in 1..(n - 1) : Commented(m)' = Commented(m)
    BY <1>1, CommentsGrow
  <2>2. QED
    BY <1>1, <1>4, <2>1 DEF Counts
<1>6. Counts(n)' = (l.kind = "set" /\ ~skip')
  BY <1>1, <1>2, <1>4 DEF Counts
<1>7. SkipsComments'
  BY <1>1, <1>2 DEF SkipsComments
<1>8. QED
  BY <1>1, <1>3, <1>4, <1>5, <1>6, <1>7 DEF Reads

(* A variable of the environment is a place read.                             *)
LEMMA VariableRead ==
  ASSUME StartTypeOK, NEW s \in Settings, ReadVariable(s),
         NEW n \in Nat, n = Len(file) + Len(env) + 1
  PROVE  Reads(n, s.key, s.value, TRUE, TRUE)
<1>1. /\ n \in Nat \ {0} /\ Len(file) \in Nat /\ Len(env) \in Nat /\ file' = file
      /\ env' = Append(env, s) /\ Len(env') = Len(env) + 1 /\ env'[n - Len(file)] = s
      /\ \A i \in 1..Len(env) : env'[i] = env[i]
  BY DEF StartTypeOK, ReadVariable
<1>2. Places = 1..(n - 1) /\ Places' = 1..n
  BY <1>1 DEF Places
<1>3. /\ \A m \in 1..(n - 1) : Setting(m)' = Setting(m) /\ InEnv(m)' = InEnv(m)
      /\ Setting(n)' = s /\ InEnv(n)' = TRUE
  BY <1>1 DEF Setting, InEnv
<1>4. \A m \in 1..(n - 1) : Counts(m)' = Counts(m)
  BY <1>1, <1>3 DEF Counts, Commented, Mark
<1>5. Counts(n)' = TRUE
  BY <1>3 DEF Counts
<1>6. QED
  BY <1>1, <1>2, <1>3, <1>4, <1>5 DEF Reads

(* Some numbers up to n have a greatest.                                      *)
LEMMA HasMax ==
  ASSUME NEW n \in Nat, NEW P \in SUBSET (1..n), P # {}
  PROVE  \E m \in P : \A l \in P : l <= m
<1> DEFINE T == {i \in Nat : \E p \in P : i = n - p}
<1>1. T \subseteq Nat /\ T # {}
  <2>1. PICK p \in P : TRUE
    OBVIOUS
  <2>2. n - p \in T
    BY <2>1
  <2>3. QED
    BY <2>2
<1>2. \E x \in T : \A y \in T : ~(<<y, x>> \in OpToRel(<, Nat))
  <2> HIDE DEF T
  <2>1. QED
  BY <1>1, NatLessThanWellFounded, WFMin
<1>3. PICK x \in T : \A y \in T : ~(y < x)
  BY <1>1, <1>2 DEF OpToRel
<1>4. PICK m \in P : x = n - m
  BY <1>3
<1>5. ASSUME NEW l \in P PROVE l <= m
  <2>1. n - l \in T
    OBVIOUS
  <2>2. ~(n - l < x)
    BY <1>3, <2>1
  <2>3. QED
    BY <1>4, <2>2
<1>6. QED
  BY <1>5

(* The places where the keys are given a value, one more place read.          *)
LEMMA GivenGrows ==
  ASSUME NEW n, NEW key, NEW v, NEW inEnv, NEW counts,
         Reads(n, key, v, inEnv, counts), NEW keys
  PROVE  /\ Given(keys) \in SUBSET (1..(n - 1)) /\ n \in Nat
         /\ Given(keys)' = IF counts /\ key \in keys /\ Accepted(key, v, inEnv)
                           THEN Given(keys) \union {n} ELSE Given(keys)
<1>1. Given(keys) \in SUBSET (1..(n - 1)) /\ n \in Nat
  BY DEF Given, Reads
<1>2. ASSUME NEW m \in 1..(n - 1)  PROVE m \in Given(keys)' <=> m \in Given(keys)
  <2>1. /\ Counts(m)' = Counts(m) /\ Setting(m)' = Setting(m) /\ InEnv(m)' = InEnv(m)
        /\ m \in Places /\ m \in Places'
    BY DEF Reads
  <2>2. Accepted(Setting(m).key, Setting(m).value, InEnv(m))'
           = Accepted(Setting(m).key, Setting(m).value, InEnv(m))
    BY <2>1 DEF Accepted
  <2>3. QED
    BY <2>1, <2>2 DEF Given
<1>3. n \in Given(keys)' <=> counts /\ key \in keys /\ Accepted(key, v, inEnv)
  <2>1. /\ Counts(n)' = counts /\ Setting(n)'.key = key /\ Setting(n)'.value = v
        /\ InEnv(n)' = inEnv /\ n \in Places'
    BY DEF Reads
  <2>2. Accepted(Setting(n).key, Setting(n).value, InEnv(n))' = Accepted(key, v, inEnv)
    BY <2>1 DEF Accepted
  <2>3. QED
    BY <2>1, <2>2 DEF Given
<1>4. Given(keys)' \in SUBSET (1..n)
  BY DEF Given, Reads
<1>5. \A m \in 1..n : m = n \/ m \in 1..(n - 1)
  BY DEF Reads
<1>6. QED
  BY <1>1, <1>2, <1>3, <1>4, <1>5

(* The value in force is the new one, where it is given.                      *)
LEMMA InForceGrows ==
  ASSUME NEW n, NEW key, NEW v, NEW inEnv, NEW counts,
         Reads(n, key, v, inEnv, counts), NEW k, NEW default
  PROVE  InForce(k, default)' = IF counts /\ k = key /\ Accepted(key, v, inEnv)
                                THEN v ELSE InForce(k, default)
<1>1. /\ Given({k}) \in SUBSET (1..(n - 1)) /\ n \in Nat
      /\ Given({k})' = IF counts /\ key \in {k} /\ Accepted(key, v, inEnv)
                       THEN Given({k}) \union {n} ELSE Given({k})
  BY GivenGrows
<1>2. PICK P : P = Given({k})
  OBVIOUS
<1>3. CASE counts /\ k = key /\ Accepted(key, v, inEnv)
  <2>1. Given({k})' = P \union {n}
    BY <1>1, <1>2, <1>3
  <2>2. Latest(P \union {n}) = n
    BY <1>1, <1>2, LatestIsNew
  <2>3. Latest(Given({k}))' = n
    BY <2>1, <2>2 DEF Latest
  <2>4. InForce(k, default)' = Setting(Latest(Given({k})))'.value
    BY <2>1 DEF InForce
  <2>5. Setting(Latest(Given({k})))' = Setting(n)'
    BY <2>3 DEF Setting, InEnv
  <2>6. QED
    BY <1>3, <2>4, <2>5 DEF Reads
<1>4. CASE ~(counts /\ k = key /\ Accepted(key, v, inEnv)) /\ P # {}
  <2>1. Given({k})' = P
    BY <1>1, <1>2, <1>4
  <2>2. \E m \in P : \A l \in P : l <= m
    <3>1. n - 1 \in Nat
      BY DEF Reads
    <3>2. QED
      BY <1>1, <1>2, <1>4, <3>1, HasMax
  <2>3. Latest(P) \in P
    BY <2>2 DEF Latest
  <2>4. PICK m \in 1..(n - 1) : m = Latest(P)
    BY <1>1, <1>2, <2>3
  <2>5. Latest(Given({k}))' = m /\ Latest(Given({k})) = m
    BY <1>2, <2>1, <2>4 DEF Latest
  <2>6. Setting(Latest(Given({k})))' = Setting(m)' /\ Setting(Latest(Given({k}))) = Setting(m)
    BY <2>5 DEF Setting, InEnv
  <2>7. Setting(m)' = Setting(m)
    BY DEF Reads
  <2>8. QED
    BY <1>2, <1>4, <2>1, <2>6, <2>7 DEF InForce
<1>5. CASE ~(counts /\ k = key /\ Accepted(key, v, inEnv)) /\ P = {}
  BY <1>1, <1>2, <1>5 DEF InForce
<1>6. QED
  BY <1>3, <1>4, <1>5

(* Each of the places has a rank, and each rank a place.                      *)
AllRanked(P) == \A i \in 1..Cardinality(P) : \E m \in P : Rank(P, m) = i

(* The smaller of two numbers.                                                *)
Smaller(a, b) == IF a < b THEN a ELSE b

(* A list grows by the accepted value of a place read, until it is full.      *)
LEMMA ListGrows ==
  ASSUME NEW n, NEW key, NEW v, NEW inEnv, NEW counts,
         Reads(n, key, v, inEnv, counts), NEW k, AllRanked(Given({k})), MaxCount \in Nat
  PROVE  /\ AllRanked(Given({k}))'
         /\ ListOf(k) \in Seq(Range(ListOf(k))) /\ Len(ListOf(k)) \in Nat
         /\ ListOf(k)' = IF counts /\ k = key /\ Accepted(key, v, inEnv)
                            /\ Len(ListOf(k)) < MaxCount
                         THEN Append(ListOf(k), v.num) ELSE ListOf(k)
<1>1. /\ Given({k}) \in SUBSET (1..(n - 1)) /\ n \in Nat
      /\ Given({k})' = IF counts /\ key \in {k} /\ Accepted(key, v, inEnv)
                       THEN Given({k}) \union {n} ELSE Given({k})
  BY GivenGrows
<1>2. PICK P : P = Given({k})
  OBVIOUS
<1>3. PICK list : list = ListOf(k)
  OBVIOUS
<1>4. PICK size : size = Cardinality(P)
  OBVIOUS
<1>5. /\ size \in Nat /\ \A m \in P : Rank(P, m) <= size /\ Rank(P, m) \in Nat
      /\ Cardinality(P \union {n}) = size + 1 /\ Rank(P \union {n}, n) = size + 1
      /\ \A m \in P : Rank(P \union {n}, m) = Rank(P, m)
  BY <1>1, <1>2, <1>4, RankIsKept
<1>6. /\ list = [i \in 1..Smaller(size, MaxCount) |->
                   Setting(Ranked(P, i)).value.num]
      /\ Smaller(size, MaxCount) \in Nat
  BY <1>2, <1>3, <1>4, <1>5 DEF ListOf, Smaller
<1>7. list \in Seq(Range(list)) /\ Len(list) = Smaller(size, MaxCount)
  <2>1. list \in [1..Smaller(size, MaxCount) -> Range(list)]
    BY <1>6 DEF Range
  <2>2. list \in Seq(Range(list)) /\ DOMAIN list = 1..Smaller(size, MaxCount)
    BY <1>6, <2>1
  <2>3. QED
    BY <1>6, <2>2
<1>8. \A i \in 1..size : /\ Ranked(P, i) \in P
                         /\ Rank(P, Ranked(P, i)) = i
  BY <1>2, <1>4 DEF AllRanked, Ranked
<1>9. \A i \in 1..size : Setting(Ranked(P, i))'
                           = Setting(Ranked(P, i))
  <2> TAKE i \in 1..size
  <2>1. PICK m \in 1..(n - 1) : m = Ranked(P, i)
    BY <1>1, <1>2, <1>8
  <2>2. Setting(m)' = Setting(m)
    BY DEF Reads
  <2>3. QED
    BY <2>1, <2>2 DEF Setting, InEnv
<1>10. CASE ~(counts /\ k = key /\ Accepted(key, v, inEnv))
  <2>1. Given({k})' = P
    BY <1>1, <1>2, <1>10
  <2>2. ListOf(k)' = [i \in 1..Smaller(size, MaxCount) |->
                        Setting(Ranked(P, i))'.value.num]
    BY <1>4, <2>1 DEF ListOf, Smaller
  <2>3. \A i \in 1..Smaller(size, MaxCount) : i \in 1..size
    BY <1>5 DEF Smaller
  <2>4. ListOf(k)' = list
    BY <1>6, <1>9, <2>2, <2>3
  <2>5. AllRanked(Given({k}))'
    BY <1>2, <2>1 DEF AllRanked, Rank
  <2>6. QED
    BY <1>3, <1>6, <1>7, <1>10, <2>4, <2>5
<1>11. CASE counts /\ k = key /\ Accepted(key, v, inEnv)
  <2>1. PICK Q : Q = P \union {n}
    OBVIOUS
  <2>2. Given({k})' = Q /\ Cardinality(Q) = size + 1
    BY <1>1, <1>2, <1>5, <1>11, <2>1
  <2>3. \A m \in Q : m = n \/ m \in P
    BY <2>1
  <2>4. ASSUME NEW i \in 1..size
        PROVE  Ranked(Q, i) = Ranked(P, i)
    <3>1. \A m : (m \in Q /\ Rank(Q, m) = i) <=> (m \in P /\ Rank(P, m) = i)
      BY <1>5, <2>1
    <3>2. QED
      BY <3>1 DEF Ranked
  <2>5. Ranked(Q, size + 1) = n
    <3>1. \A m \in Q : Rank(Q, m) = size + 1 <=> m = n
      BY <1>5, <2>1
    <3>2. n \in Q
      BY <2>1
    <3>3. QED
      BY <3>1, <3>2 DEF Ranked
  <2>6. ListOf(k)' = [i \in 1..Smaller(size + 1, MaxCount) |->
                        Setting(Ranked(Q, i))'.value.num]
    BY <2>2 DEF ListOf, Smaller
  <2>7. AllRanked(Q)
    <3>1. ASSUME NEW i \in 1..(size + 1)  PROVE \E m \in Q : Rank(Q, m) = i
      <4>1. CASE i = size + 1
        BY <1>5, <2>1, <4>1
      <4>2. CASE i \in 1..size
        <5>1. PICK m \in P : Rank(P, m) = i
          BY <1>8, <4>2
        <5>2. m \in Q /\ Rank(Q, m) = i
          BY <1>5, <2>1, <5>1
        <5>3. QED
          BY <5>2
      <4>3. QED
        BY <1>5, <4>1, <4>2
    <3>2. QED
      BY <2>2, <3>1 DEF AllRanked
  <2>8. AllRanked(Given({k}))'
    BY <2>2, <2>7 DEF AllRanked, Rank
  <2>9. \A i \in 1..size : Setting(Ranked(Q, i))'.value.num
                             = Setting(Ranked(P, i)).value.num
    <3> TAKE i \in 1..size
    <3>1. PICK m : m = Ranked(P, i)
      OBVIOUS
    <3>2. PICK p : p = Ranked(Q, i)
      OBVIOUS
    <3>3. p = m
      BY <2>4, <3>1, <3>2
    <3>4. Setting(m)' = Setting(m)
      BY <1>9, <3>1
    <3>5. QED
      BY <3>1, <3>2, <3>3, <3>4 DEF Setting, InEnv
  <2>10. CASE size < MaxCount
    <3>1. /\ Smaller(size, MaxCount) = size /\ Smaller(size + 1, MaxCount) = size + 1
      BY <1>5, <2>10 DEF Smaller
    <3>2. Setting(Ranked(Q, size + 1))'.value.num = v.num
      <4>1. Setting(n)'.value = v
        BY DEF Reads
      <4>2. QED
        BY <2>5, <4>1
    <3>3. ListOf(k)' = [i \in 1..(size + 1) |-> IF i = size + 1 THEN v.num ELSE list[i]]
      <4>1. \A i \in 1..size : list[i] = Setting(Ranked(Q, i))'.value.num
        BY <1>5, <1>6, <2>9, <3>1
      <4>2. \A i \in 1..(size + 1) : i = size + 1 \/ i \in 1..size
        BY <1>5
      <4>3. QED
        BY <2>6, <3>1, <3>2, <4>1, <4>2
    <3>4. ListOf(k)' = Append(list, v.num)
      BY <1>5, <1>6, <1>7, <3>1, <3>3
    <3>5. QED
      BY <1>3, <1>6, <1>7, <1>11, <2>8, <2>10, <3>1, <3>4
  <2>11. CASE ~(size < MaxCount)
    <3>1. /\ Smaller(size, MaxCount) = MaxCount /\ Smaller(size + 1, MaxCount) = MaxCount
          /\ \A i \in 1..MaxCount : i \in 1..size
      BY <1>5, <2>11 DEF Smaller
    <3>2. ListOf(k)' = list
      BY <1>6, <2>6, <2>9, <3>1
    <3>3. QED
      BY <1>3, <1>6, <1>7, <1>11, <2>8, <2>11, <3>1, <3>2
  <2>12. QED
    BY <2>10, <2>11
<1>12. QED
  BY <1>10, <1>11

(* The requests asked for.                                                    *)
AskedFor == {Setting(m).value.request : m \in Given(RequestKey)}

(* The places that ask for a request.                                         *)
Asks(m) == m \in Given(RequestKey)

(* The places that are the first to ask for theirs.                           *)
FirstToAsk(m) ==
  /\ Asks(m)
  /\ \A l \in Given(RequestKey) : l < m => Setting(l).value.request # Setting(m).value.request

(* The tag that a place asks for.                                             *)
AsTag(m) == [request |-> Setting(m).value.request,
             one_shot |-> InEnv(m) /\ Setting(m).key = "ADD_NEW_REQUEST_AT_START"]

(* A place read asks for one request more, unless it was asked for before.    *)
LEMMA RequestedGrows ==
  ASSUME NEW n, NEW key, NEW v, NEW inEnv, NEW counts,
         Reads(n, key, v, inEnv, counts)
  PROVE  LET asks == counts /\ key \in RequestKey /\ Accepted(key, v, inEnv)
         IN /\ AskedFor' = IF asks THEN AskedFor \union {v.request} ELSE AskedFor
            /\ Requested' =
                 IF asks /\ v.request \notin AskedFor
                 THEN Requested \union
                        {[request |-> v.request,
                          one_shot |-> inEnv /\ key = "ADD_NEW_REQUEST_AT_START"]}
                 ELSE Requested
<1>1. PICK asks : asks <=> (counts /\ key \in RequestKey /\ Accepted(key, v, inEnv))
  OBVIOUS
<1>2. PICK P : P = Given(RequestKey)
  OBVIOUS
<1>3. /\ P \in SUBSET (1..(n - 1)) /\ n \in Nat
      /\ Given(RequestKey)' = IF asks THEN P \union {n} ELSE P
  <2>1. /\ Given(RequestKey) \in SUBSET (1..(n - 1)) /\ n \in Nat
        /\ Given(RequestKey)' = IF counts /\ key \in RequestKey /\ Accepted(key, v, inEnv)
                               THEN Given(RequestKey) \union {n} ELSE Given(RequestKey)
    BY GivenGrows
  <2>2. QED
    BY <1>1, <1>2, <2>1
<1>4. /\ \A m \in P : /\ Setting(m)' = Setting(m) /\ (InEnv(m))' = InEnv(m)
      /\ Setting(n)'.key = key /\ Setting(n)'.value = v /\ (InEnv(n))' = inEnv
  BY <1>3 DEF Reads
<1>5. AskedFor' = IF asks THEN AskedFor \union {v.request} ELSE AskedFor
  <2>1. AskedFor' = {Setting(m)'.value.request : m \in Given(RequestKey)'}
    BY DEF AskedFor
  <2>2. AskedFor = {Setting(m).value.request : m \in P}
    BY <1>2 DEF AskedFor
  <2>3. QED
    BY <1>3, <1>4, <2>1, <2>2
<1>6. ASSUME NEW m \in P  PROVE FirstToAsk(m)' <=> FirstToAsk(m)
  <2>1. \A l \in Given(RequestKey)' : l < m => l \in P
    BY <1>3
  <2>2. P \subseteq Given(RequestKey)'
    BY <1>3
  <2>3. FirstToAsk(m)' <=> \A l \in P : l < m =>
                             Setting(l)'.value.request # Setting(m)'.value.request
    BY <2>1, <2>2 DEF FirstToAsk, Asks
  <2>4. FirstToAsk(m) <=> \A l \in P : l < m =>
                             Setting(l).value.request # Setting(m).value.request
    BY <1>2 DEF FirstToAsk, Asks
  <2>5. QED
    BY <1>4, <2>3, <2>4
<1>7. FirstToAsk(n)' <=> asks /\ v.request \notin AskedFor
  <2>1. n \in Given(RequestKey)' <=> asks
    BY <1>3
  <2>2. \A l \in P : l < n
    BY <1>3
  <2>3. FirstToAsk(n)' <=> asks /\ \A l \in P : Setting(l)'.value.request # v.request
    <3>1. CASE ~asks
      BY <2>1, <3>1 DEF FirstToAsk, Asks
    <3>2. CASE asks
      <4>1. \A l \in Given(RequestKey)' : (l < n) <=> (l \in P)
        <5>1. \A l \in P : l < n
          BY <1>3
        <5>2. \A l \in Given(RequestKey)' : l = n \/ l \in P
          BY <1>3, <3>2
        <5>3. ~(n < n)
          BY <1>3
        <5>4. QED
          BY <5>1, <5>2, <5>3
      <4>2. P \subseteq Given(RequestKey)' /\ n \in Given(RequestKey)'
        BY <1>3, <3>2
      <4>3. FirstToAsk(n)' <=> \A l \in P : Setting(l)'.value.request
                                              # Setting(n)'.value.request
        BY <4>1, <4>2 DEF FirstToAsk, Asks
      <4>4. QED
        BY <1>4, <3>2, <4>3
    <3>3. QED
      BY <3>1, <3>2
  <2>4. QED
    BY <1>2, <1>4, <2>3 DEF AskedFor
<1>8. \A m : FirstToAsk(m)' => m \in P \/ m = n
  BY <1>3 DEF FirstToAsk, Asks
<1>9. Requested = {AsTag(m) : m \in {l \in P : FirstToAsk(l)}}
  BY <1>2 DEF Requested, FirstToAsk, Asks, AsTag
<1>10. Requested' = {AsTag(m)' : m \in {l \in Given(RequestKey)' : FirstToAsk(l)'}}
  BY DEF Requested, FirstToAsk, Asks, AsTag
<1>11. /\ \A m \in P : AsTag(m)' = AsTag(m)
       /\ AsTag(n)' = [request |-> v.request,
                       one_shot |-> inEnv /\ key = "ADD_NEW_REQUEST_AT_START"]
  BY <1>4 DEF AsTag
<1>12. \A m : FirstToAsk(m)' => m \in Given(RequestKey)'
  BY DEF FirstToAsk, Asks
<1>13. Requested' = IF asks /\ v.request \notin AskedFor
                    THEN Requested \union {AsTag(n)'} ELSE Requested
  <2>1. \A x : x \in Requested' <=> \E m : FirstToAsk(m)' /\ x = AsTag(m)'
    BY <1>10, <1>12
  <2>2. \A x : x \in Requested <=> \E m \in P : FirstToAsk(m) /\ x = AsTag(m)
    BY <1>9
  <2>3. \A x : x \in Requested' <=> \/ x \in Requested
                                    \/ asks /\ v.request \notin AskedFor /\ x = AsTag(n)'
    BY <1>6, <1>7, <1>8, <1>11, <2>1, <2>2
  <2>4. QED
    BY <2>3
<1>14. QED
  BY <1>1, <1>5, <1>11, <1>13

(* What a setting leaves has the types.                                       *)
LEMMA CommonType ==
  ASSUME NEW c \in CfgType, NEW key, NEW v, ValueType(v), MaxCount \in Nat \ {0}
  PROVE  /\ Common(c, key, v) \in CfgType
         /\ (\A k \in LimitKey : c.limit[k] \in LimitRange(k))
              => \A k \in LimitKey : Common(c, key, v).limit[k] \in LimitRange(k)
<1> DEFINE d == Common(c, key, v)
<1>1. CASE key = "PM_INDEX" /\ Len(c.pm_indexes) < MaxCount /\ v.num \in 0..127
  <2>1. d = [c EXCEPT !.pm_indexes = Append(@, v.num)]
    BY <1>1, KeysApart DEF Common
  <2>2. Append(c.pm_indexes, v.num) \in Seq(0..127)
    BY <1>1 DEF CfgType
  <2> HIDE DEF d
  <2>3. d \in CfgType /\ d.limit = c.limit
    BY <2>1, <2>2 DEF CfgType
  <2>4. QED
    BY <2>3 DEF d
<1>2. CASE key = "WB_INDEX" /\ Len(c.wb_indexes) < MaxCount /\ v.num \in 0..(MaxCount - 1)
  <2>1. d = [c EXCEPT !.wb_indexes = Append(@, v.num)]
    BY <1>2, KeysApart DEF Common
  <2>2. Append(c.wb_indexes, v.num) \in Seq(0..(MaxCount - 1))
    BY <1>2 DEF CfgType
  <2> HIDE DEF d
  <2>3. d \in CfgType /\ d.limit = c.limit
    BY <2>1, <2>2 DEF CfgType
  <2>4. QED
    BY <2>3 DEF d
<1>3. CASE key \in LimitKey /\ v.num \in LimitRange(key)
  <2>1. d = [c EXCEPT !.limit[key] = v.num]
    BY <1>3, KeysApart DEF Common
  <2>2. v.num \in Int
    BY DEF ValueType
  <2> HIDE DEF d
  <2>3. d \in CfgType /\ d.limit = [c.limit EXCEPT ![key] = v.num]
    BY <1>3, <2>1, <2>2 DEF CfgType
  <2>4. \A k \in LimitKey : d.limit[k] = IF k = key THEN v.num ELSE c.limit[k]
    BY <2>3 DEF CfgType
  <2>5. QED
    BY <1>3, <2>3, <2>4 DEF d
<1>4. CASE key \in DurableKey /\ v.word = "true"
  <2>1. d = [c EXCEPT !.limit[key] = 1]
    BY <1>4, KeysApart DEF Common
  <2> HIDE DEF d
  <2>2. [c.limit EXCEPT ![key] = 1] \in [LimitKey \union DurableKey -> Int]
    BY <1>4 DEF CfgType
  <2>3. d \in CfgType /\ d.limit = [c.limit EXCEPT ![key] = 1]
    BY <2>1, <2>2 DEF CfgType
  <2>4. \A k \in LimitKey : d.limit[k] = c.limit[k]
    BY <1>4, <2>3, KeysApart DEF CfgType
  <2>5. QED
    BY <2>3, <2>4 DEF d
<1>5. CASE /\ ~(key = "PM_INDEX" /\ Len(c.pm_indexes) < MaxCount /\ v.num \in 0..127)
           /\ ~(key = "WB_INDEX" /\ Len(c.wb_indexes) < MaxCount /\ v.num \in 0..(MaxCount - 1))
           /\ ~(key \in LimitKey /\ v.num \in LimitRange(key))
           /\ ~(key \in DurableKey /\ v.word = "true")
  <2>1. d = c
    BY <1>5 DEF Common
  <2>2. QED
    BY <2>1
<1>6. QED
  BY <1>1, <1>2, <1>3, <1>4, <1>5

(* A request that is added leaves the types.                                  *)
LEMMA PushType ==
  ASSUME NEW c \in CfgType, NEW r \in Request, NEW once \in BOOLEAN
  PROVE  Push(c, r, once) \in CfgType /\ Push(c, r, once).limit = c.limit
<1>1. Append(c.tags, [request |-> r, one_shot |-> once]) \in Seq(Tag)
  BY DEF CfgType, Tag
<1>2. QED
  BY <1>1 DEF Push, CfgType

(* So does a line of the file.                                                *)
LEMMA FileType ==
  ASSUME NEW c \in CfgType, NEW l \in Lines, MaxCount \in Nat \ {0}, ValueType(l.value)
  PROVE  /\ FromFile(c, l.key, l.value) \in CfgType
         /\ (\A k \in LimitKey : c.limit[k] \in LimitRange(k))
              => \A k \in LimitKey : FromFile(c, l.key, l.value).limit[k] \in LimitRange(k)
<1> DEFINE key == l.key
           v == l.value
           d == FromFile(c, key, v)
<1>0. v.num \in Int /\ v.word \in Word /\ v.request \in Request /\ ValueType(v)
  BY DEF ValueType, Request, Word
<1>1. CASE v.word = ""
  BY <1>1 DEF FromFile
<1>2. CASE v.word # "" /\ key \in IntKey
  <2>1. d = [c EXCEPT !.num[key] = v.num]
    BY <1>2, KeysApart DEF FromFile
  <2> HIDE DEF d, v, key
  <2>2. d \in CfgType /\ d.limit = c.limit
    BY <1>0, <1>2, <2>1 DEF CfgType
  <2>3. QED
    BY <2>2 DEF d, v, key
<1>3. CASE v.word # "" /\ key \in TextKey
  <2>1. d = [c EXCEPT !.text[key] = v.word]
    BY <1>3, KeysApart DEF FromFile
  <2> HIDE DEF d, v, key
  <2>2. d \in CfgType /\ d.limit = c.limit
    BY <1>0, <1>3, <2>1 DEF CfgType
  <2>3. QED
    BY <2>2 DEF d, v, key
<1>4. CASE v.word # "" /\ key \in OnKey /\ v.word = "true"
  <2>1. d = [c EXCEPT !.flag[key] = TRUE]
    BY <1>4, KeysApart DEF FromFile
  <2> HIDE DEF d, v, key
  <2>2. d \in CfgType /\ d.limit = c.limit
    BY <1>0, <1>4, <2>1 DEF CfgType
  <2>3. QED
    BY <2>2 DEF d, v, key
<1>5. CASE v.word # "" /\ key \in OffKey /\ v.word = "false"
  <2>1. d = [c EXCEPT !.flag[key] = FALSE]
    BY <1>5, KeysApart DEF FromFile
  <2> HIDE DEF d, v, key
  <2>2. d \in CfgType /\ d.limit = c.limit
    BY <1>0, <1>5, <2>1 DEF CfgType
  <2>3. QED
    BY <2>2 DEF d, v, key
<1>6. CASE v.word # "" /\ key \in RequestKey
  <2>1. d = Push(c, v.request, FALSE)
    BY <1>6, KeysApart DEF FromFile
  <2>2. d \in CfgType /\ d.limit = c.limit
    BY <1>0, <2>1, PushType
  <2>3. QED
    BY <2>2
<1>7. CASE /\ v.word # "" /\ key \notin IntKey \union TextKey \union RequestKey
           /\ ~(key \in OnKey /\ v.word = "true") /\ ~(key \in OffKey /\ v.word = "false")
  <2>1. d = Common(c, key, v)
    BY <1>7 DEF FromFile
  <2>2. QED
    BY <1>0, <2>1, CommonType
<1>8. QED
  BY <1>1, <1>2, <1>3, <1>4, <1>5, <1>6, <1>7

(* So does a variable of the environment.                                     *)
LEMMA EnvType ==
  ASSUME NEW c \in CfgType, NEW s \in Settings, MaxCount \in Nat \ {0}, ValueType(s.value)
  PROVE  /\ FromEnv(c, s.key, s.value) \in CfgType
         /\ (\A k \in LimitKey : c.limit[k] \in LimitRange(k))
              => \A k \in LimitKey : FromEnv(c, s.key, s.value).limit[k] \in LimitRange(k)
<1> DEFINE key == s.key
           v == s.value
           d == FromEnv(c, key, v)
<1>0. v.num \in Int /\ v.word \in Word /\ v.request \in Request /\ ValueType(v)
  BY DEF ValueType, Request, Word
<1>1. CASE key \in IntKey
  <2>1. d = c \/ d = [c EXCEPT !.num[key] = v.num]
    BY <1>1, KeysApart DEF FromEnv
  <2> HIDE DEF d, v, key
  <2>2. CASE d = [c EXCEPT !.num[key] = v.num]
    <3>1. d \in CfgType /\ d.limit = c.limit
      BY <1>0, <1>1, <2>2 DEF CfgType
    <3>2. QED
      BY <3>1 DEF d, v, key
  <2>3. CASE d = c
    BY <2>3 DEF d, v, key
  <2>4. QED
    BY <2>1, <2>2, <2>3
<1>2. CASE key \in TextKey
  <2>1. d = [c EXCEPT !.text[key] = v.word]
    BY <1>2, KeysApart DEF FromEnv
  <2> HIDE DEF d, v, key
  <2>2. d \in CfgType /\ d.limit = c.limit
    BY <1>0, <1>2, <2>1 DEF CfgType
  <2>3. QED
    BY <2>2 DEF d, v, key
<1>3. CASE key \in OnKey \union OffKey
  <2>0. PICK set \in BOOLEAN : set <=> v.word \in {"true", "1"}
    <3>1. CASE v.word \in {"true", "1"}
      BY <3>1
    <3>2. CASE v.word \notin {"true", "1"}
      BY <3>2
    <3>3. QED
      BY <3>1, <3>2
  <2>1. d = [c EXCEPT !.flag[key] = set]
    BY <1>3, <2>0, KeysApart DEF FromEnv
  <2> HIDE DEF d, v, key
  <2>2. d \in CfgType /\ d.limit = c.limit
    BY <1>0, <1>3, <2>1 DEF CfgType
  <2>3. QED
    BY <2>2 DEF d, v, key
<1>4. CASE key \in RequestKey /\ v.word # ""
  <2>0. PICK once \in BOOLEAN : once = (key = "ADD_NEW_REQUEST_AT_START")
    OBVIOUS
  <2>1. d = Push(c, v.request, once)
    BY <1>4, <2>0, KeysApart DEF FromEnv
  <2>2. d \in CfgType /\ d.limit = c.limit
    BY <1>0, <2>1, PushType
  <2>3. QED
    BY <2>2
<1>5. CASE /\ key \notin IntKey \union TextKey \union OnKey \union OffKey
           /\ ~(key \in RequestKey /\ v.word # "")
  <2>1. d = IF v.word = "" THEN c ELSE Common(c, key, v)
    BY <1>5 DEF FromEnv
  <2>2. QED
    BY <1>0, <2>1, CommonType
<1>6. QED
  BY <1>1, <1>2, <1>3, <1>4, <1>5

(* The numbers, flags, texts and limits are what is in force of the places    *)
(* read.                                                                      *)
ScalarsSoFar ==
  /\ \A k \in IntKey : cfg.num[k] = InForce(k, [num |-> Default.num[k]]).num
  /\ \A k \in OnKey \union OffKey :
       cfg.flag[k] = (InForce(k, [word |-> IF k \in OffKey THEN "true" ELSE "false"]).word
                        \in {"true", "1"})
  /\ \A k \in TextKey : cfg.text[k] = InForce(k, [word |-> ""]).word
  /\ \A k \in LimitKey : cfg.limit[k] = InForce(k, [num |-> 0]).num
  /\ \A k \in DurableKey : cfg.limit[k] = IF Given({k}) = {} THEN 0 ELSE 1

(* The lists have the accepted values of the places read, in their order.     *)
ListsSoFar ==
  /\ cfg.pm_indexes = ListOf("PM_INDEX") /\ AllRanked(Given({"PM_INDEX"}))
  /\ cfg.wb_indexes = ListOf("WB_INDEX") /\ AllRanked(Given({"WB_INDEX"}))

(* The tags are the requests asked for, each once.                            *)
TagsSoFar ==
  /\ Range(cfg.tags) = Requested
  /\ AskedFor = {cfg.tags[i].request : i \in DOMAIN cfg.tags}
  /\ \A i, j \in DOMAIN cfg.tags : cfg.tags[i].request = cfg.tags[j].request => i = j

(* The configuration is what the places read so far say.                      *)
SoFar == ScalarsSoFar /\ ListsSoFar /\ TagsSoFar

(* The inductive invariant of the start: AsWritten speaks of its end only.    *)
StartInv ==
  /\ StartTypeOK /\ SkipsComments
  /\ stage \in {"file", "env"} => SoFar
  /\ AsWritten

(* A place read keeps the numbers, flags, texts and limits in force.          *)
LEMMA ScalarsGrow ==
  ASSUME NEW n, NEW key, NEW v, NEW inEnv, NEW counts, ScalarsSoFar,
         Reads(n, key, v, inEnv, counts),
         Scalars(key, v, cfg, cfg', counts /\ Accepted(key, v, inEnv))
  PROVE  ScalarsSoFar'
<1>1. PICK acc : acc <=> counts /\ Accepted(key, v, inEnv)
  OBVIOUS
<1>2. \A k, default : InForce(k, default)' = IF k = key /\ acc THEN v ELSE InForce(k, default)
  BY <1>1, InForceGrows
<1>3. /\ \A k \in IntKey : cfg'.num[k] = IF k = key /\ acc THEN v.num ELSE cfg.num[k]
      /\ \A k \in OnKey \union OffKey :
           cfg'.flag[k] = IF k = key /\ acc THEN v.word \in {"true", "1"} ELSE cfg.flag[k]
      /\ \A k \in TextKey : cfg'.text[k] = IF k = key /\ acc THEN v.word ELSE cfg.text[k]
      /\ \A k \in LimitKey : cfg'.limit[k] = IF k = key /\ acc THEN v.num ELSE cfg.limit[k]
      /\ \A k \in DurableKey : cfg'.limit[k] = IF k = key /\ acc THEN 1 ELSE cfg.limit[k]
  BY <1>1 DEF Scalars
<1>4. \A k \in IntKey : cfg'.num[k] = InForce(k, [num |-> Default.num[k]])'.num
  <2> TAKE k \in IntKey
  <2>1. PICK default : default = [num |-> Default.num[k]]
    OBVIOUS
  <2>2. InForce(k, default)' = IF k = key /\ acc THEN v ELSE InForce(k, default)
    BY <1>2
  <2>3. InForce(k, default).num = cfg.num[k]
    BY <2>1 DEF ScalarsSoFar
  <2>4. QED
    BY <1>3, <2>1, <2>2, <2>3
<1>5. \A k \in OnKey \union OffKey :
       cfg'.flag[k] = (InForce(k, [word |-> IF k \in OffKey THEN "true" ELSE "false"])'.word
                        \in {"true", "1"})
  <2> TAKE k \in OnKey \union OffKey
  <2>1. PICK default : default = [word |-> IF k \in OffKey THEN "true" ELSE "false"]
    OBVIOUS
  <2>2. InForce(k, default)' = IF k = key /\ acc THEN v ELSE InForce(k, default)
    BY <1>2
  <2>3. cfg.flag[k] = (InForce(k, default).word \in {"true", "1"})
    BY <2>1 DEF ScalarsSoFar
  <2>4. cfg'.flag[k] = (InForce(k, default)'.word \in {"true", "1"})
    BY <1>3, <2>2, <2>3
  <2>5. QED
    BY <2>1, <2>4
<1>6. \A k \in TextKey : cfg'.text[k] = InForce(k, [word |-> ""])'.word
  <2> TAKE k \in TextKey
  <2>1. InForce(k, [word |-> ""])' = IF k = key /\ acc THEN v ELSE InForce(k, [word |-> ""])
    BY <1>2
  <2>2. QED
    BY <1>3, <2>1 DEF ScalarsSoFar
<1>7. \A k \in LimitKey : cfg'.limit[k] = InForce(k, [num |-> 0])'.num
  <2> TAKE k \in LimitKey
  <2>1. InForce(k, [num |-> 0])' = IF k = key /\ acc THEN v ELSE InForce(k, [num |-> 0])
    BY <1>2
  <2>2. QED
    BY <1>3, <2>1 DEF ScalarsSoFar
<1>8. \A k \in DurableKey : cfg'.limit[k] = IF Given({k})' = {} THEN 0 ELSE 1
  <2> TAKE k \in DurableKey
  <2>1. Given({k})' = IF counts /\ key \in {k} /\ Accepted(key, v, inEnv)
                      THEN Given({k}) \union {n} ELSE Given({k})
    BY GivenGrows
  <2>2. QED
    BY <1>1, <1>3, <2>1 DEF ScalarsSoFar
<1>9. QED
  BY <1>4, <1>5, <1>6, <1>7, <1>8 DEF ScalarsSoFar

(* It keeps the lists.                                                        *)
LEMMA ListsGrow ==
  ASSUME NEW n, NEW key, NEW v, NEW inEnv, NEW counts, ListsSoFar, MaxCount \in Nat,
         Reads(n, key, v, inEnv, counts),
         Lists(key, v, cfg, cfg', counts /\ Accepted(key, v, inEnv))
  PROVE  ListsSoFar'
<1>1. \A k \in {"PM_INDEX", "WB_INDEX"} :
        /\ AllRanked(Given({k}))'
        /\ ListOf(k)' = IF counts /\ k = key /\ Accepted(key, v, inEnv)
                            /\ Len(ListOf(k)) < MaxCount
                        THEN Append(ListOf(k), v.num) ELSE ListOf(k)
  BY ListGrows DEF ListsSoFar
<1>2. QED
  BY <1>1 DEF ListsSoFar, Lists

(* It keeps the requests.                                                     *)
LEMMA TagsGrow ==
  ASSUME NEW n, NEW key, NEW v, NEW inEnv, NEW counts, TagsSoFar, cfg \in CfgType,
         Reads(n, key, v, inEnv, counts),
         Tags(key, v, cfg, cfg', counts /\ Accepted(key, v, inEnv), inEnv)
  PROVE  TagsSoFar'
<1>1. PICK asks : asks <=> (counts /\ key \in RequestKey /\ Accepted(key, v, inEnv))
  OBVIOUS
<1>2. PICK tag : tag = [request |-> v.request,
                        one_shot |-> inEnv /\ key = "ADD_NEW_REQUEST_AT_START"]
  OBVIOUS
<1>3. /\ AskedFor' = IF asks THEN AskedFor \union {v.request} ELSE AskedFor
      /\ Requested' = IF asks /\ v.request \notin AskedFor
                      THEN Requested \union {tag} ELSE Requested
  BY <1>1, <1>2, RequestedGrows
<1>4. cfg'.tags = IF asks /\ v.request \notin AskedFor THEN Append(cfg.tags, tag) ELSE cfg.tags
  BY <1>1, <1>2 DEF Tags, TagsSoFar
<1>5. CASE ~(asks /\ v.request \notin AskedFor)
  BY <1>3, <1>4, <1>5 DEF TagsSoFar
<1>6. CASE asks /\ v.request \notin AskedFor
  <2>1. PICK tags \in Seq(Tag) : tags = cfg.tags
    BY DEF CfgType
  <2>2. PICK more : more = Append(tags, tag)
    OBVIOUS
  <2>3. /\ DOMAIN tags = 1..Len(tags) /\ DOMAIN more = 1..(Len(tags) + 1) /\ Len(tags) \in Nat
        /\ \A i \in 1..Len(tags) : more[i] = tags[i]
        /\ more[Len(tags) + 1] = tag /\ tag.request = v.request
    BY <1>2, <2>1, <2>2
  <2>4. \A i \in 1..(Len(tags) + 1) : i \in 1..Len(tags) \/ i = Len(tags) + 1
    BY <2>3
  <2>5. Range(more) = Range(tags) \union {tag}
    BY <2>3, <2>4 DEF Range
  <2>6. {more[i].request : i \in DOMAIN more}
          = {tags[i].request : i \in DOMAIN tags} \union {v.request}
    BY <2>3, <2>4
  <2>7. \A i \in 1..Len(tags) : tags[i].request # v.request
    BY <1>6, <2>1, <2>3 DEF TagsSoFar
  <2>8. \A i, j \in DOMAIN more : more[i].request = more[j].request => i = j
    BY <2>1, <2>3, <2>4, <2>7 DEF TagsSoFar
  <2>9. cfg'.tags = more
    BY <1>4, <1>6, <2>1, <2>2
  <2>10. Range(cfg'.tags) = Requested'
    BY <1>3, <1>6, <2>1, <2>5, <2>9 DEF TagsSoFar
  <2>11. AskedFor' = {cfg'.tags[i].request : i \in DOMAIN cfg'.tags}
    <3>1. AskedFor = {tags[i].request : i \in DOMAIN tags}
      BY <2>1 DEF TagsSoFar
    <3>2. AskedFor' = {more[i].request : i \in DOMAIN more}
      BY <1>3, <1>6, <2>6, <3>1
    <3>3. QED
      BY <2>9, <3>2
  <2>12. \A i, j \in DOMAIN cfg'.tags : cfg'.tags[i].request = cfg'.tags[j].request => i = j
    BY <2>8, <2>9
  <2>13. QED
    BY <2>10, <2>11, <2>12 DEF TagsSoFar
<1>7. QED
  BY <1>5, <1>6

(* Nothing is read at first, and the configuration has its defaults.          *)
LEMMA StartInitially == InitStart => StartInv
<1> SUFFICES ASSUME InitStart PROVE StartInv
  OBVIOUS
<1>1. file = <<>> /\ env = <<>> /\ stage = "file" /\ skip = FALSE /\ cfg = Default
  BY DEF InitStart
<1>2. StartTypeOK
  <2>1. CurrYear - 1 \in Int /\ MaxCount \in Nat \ {0}
    BY ConfigurationAssumption DEF ConfigurationAssumption
  <2>2. Default \in CfgType
    <3>1. Default.num \in [IntKey -> Int]
      <4>1. \A k \in IntKey : Default.num[k] \in {4, 1, CurrYear - 1, 0}
        BY DEF Default, IntKey
      <4>2. QED
        BY <2>1, <4>1 DEF Default
    <3>2. Default.flag \in [OnKey \union OffKey -> BOOLEAN]
      BY DEF Default
    <3>3. Default.text \in [TextKey -> Word]
      <4>1. Default.text = [k \in TextKey |-> ""]
        BY DEF Default
      <4>2. [k \in TextKey |-> ""] \in [TextKey -> Word]
        BY DEF Word
      <4>3. QED
        BY <4>1, <4>2, Zenon
    <3>4. Default.limit \in [LimitKey \union DurableKey -> Int]
      BY DEF Default
    <3>5. Default = [num |-> Default.num, flag |-> Default.flag, text |-> Default.text,
                     limit |-> Default.limit, pm_indexes |-> <<>>, wb_indexes |-> <<>>,
                     tags |-> <<>>]
      BY DEF Default
    <3>6. \A a \in [IntKey -> Int], b \in [OnKey \union OffKey -> BOOLEAN],
             c \in [TextKey -> Word], d \in [LimitKey \union DurableKey -> Int] :
            [num |-> a, flag |-> b, text |-> c, limit |-> d,
             pm_indexes |-> <<>>, wb_indexes |-> <<>>, tags |-> <<>>] \in CfgType
      BY <2>1 DEF CfgType
    <3>7. [num |-> Default.num, flag |-> Default.flag, text |-> Default.text,
           limit |-> Default.limit, pm_indexes |-> <<>>, wb_indexes |-> <<>>,
           tags |-> <<>>] \in CfgType
      BY <3>1, <3>2, <3>3, <3>4, <3>6
    <3>8. QED
      BY <3>5, <3>7, Zenon
  <2>3. \A k \in LimitKey : Default.limit[k] = 0 /\ 0 \in LimitRange(k)
    BY DEF Default, LimitRange
  <2>4. Len(Default.pm_indexes) <= MaxCount /\ Len(Default.wb_indexes) <= MaxCount
    <3>1. Len(Default.pm_indexes) = 0 /\ Len(Default.wb_indexes) = 0
      BY DEF Default
    <3>2. QED
      BY <2>1, <3>1
  <2>5. file \in Seq(Lines) /\ env \in Seq(Settings)
    BY <1>1
  <2>6. /\ cfg \in CfgType /\ Len(cfg.pm_indexes) <= MaxCount /\ Len(cfg.wb_indexes) <= MaxCount
        /\ \A k \in LimitKey : cfg.limit[k] \in LimitRange(k)
    BY <1>1, <2>1, <2>2, <2>3, <2>4, Zenon
  <2>7. QED
    BY <1>1, <2>5, <2>6 DEF StartTypeOK
<1>3. \A keys : Given(keys) = {}
  BY <1>1 DEF Given, Places
<1>4. SkipsComments
  BY <1>1 DEF SkipsComments, Commented
<1>5. ScalarsSoFar
  <2>1. \A k, default : InForce(k, default) = default
    BY <1>3 DEF InForce
  <2>2. \A k \in OnKey \union OffKey :
          Default.flag[k] = ((IF k \in OffKey THEN "true" ELSE "false") \in {"true", "1"})
    BY DEF Default
  <2>3. \A k \in LimitKey \union DurableKey : Default.limit[k] = 0
    BY DEF Default
  <2>4. \A k \in TextKey : Default.text[k] = ""
    BY DEF Default
  <2>5. \A k \in IntKey : Default.num[k] = InForce(k, [num |-> Default.num[k]]).num
    BY <2>1
  <2>6. \A k \in OnKey \union OffKey :
          Default.flag[k] = (InForce(k, [word |-> IF k \in OffKey THEN "true" ELSE "false"]).word
                              \in {"true", "1"})
    BY <2>1, <2>2
  <2>7. /\ \A k \in TextKey : Default.text[k] = InForce(k, [word |-> ""]).word
        /\ \A k \in LimitKey : Default.limit[k] = InForce(k, [num |-> 0]).num
        /\ \A k \in DurableKey : Default.limit[k] = IF Given({k}) = {} THEN 0 ELSE 1
    <3>1. \A k \in TextKey : Default.text[k] = InForce(k, [word |-> ""]).word
      <4> TAKE k \in TextKey
      <4>1. Default.text[k] = ""
        BY <2>4
      <4>2. InForce(k, [word |-> ""]) = [word |-> ""]
        BY <2>1
      <4>3. [word |-> ""].word = ""
        OBVIOUS
      <4>4. QED
        BY <4>1, <4>2, <4>3, Zenon
    <3>2. \A k \in LimitKey : Default.limit[k] = InForce(k, [num |-> 0]).num
      <4> TAKE k \in LimitKey
      <4>1. Default.limit[k] = 0
        BY <2>3
      <4>2. InForce(k, [num |-> 0]) = [num |-> 0]
        BY <2>1
      <4>3. QED
        BY <4>1, <4>2
    <3>3. \A k \in DurableKey : Default.limit[k] = IF Given({k}) = {} THEN 0 ELSE 1
      <4> TAKE k \in DurableKey
      <4>1. Given({k}) = {} /\ Default.limit[k] = 0
        BY <1>3, <2>3
      <4>2. QED
        BY <4>1
    <3>4. QED
      BY <3>1, <3>2, <3>3
  <2>8. QED
    BY <1>1, <2>5, <2>6, <2>7, Zenon DEF ScalarsSoFar
<1>6. ListsSoFar
  <2>1. Cardinality({}) = 0 /\ 0 < MaxCount
    BY FS_EmptySet, ConfigurationAssumption DEF ConfigurationAssumption
  <2>2. \A k : ListOf(k) = <<>>
    <3> TAKE k
    <3>1. DOMAIN ListOf(k) = 1..0
      BY <1>3, <2>1 DEF ListOf
    <3>2. ListOf(k) = [i \in 1..0 |-> ListOf(k)[i]]
      BY <1>3, <2>1 DEF ListOf
    <3>3. ListOf(k) \in Seq({})
      BY <3>1, <3>2
    <3>4. QED
      BY <3>3
  <2>3. Default.pm_indexes = <<>> /\ Default.wb_indexes = <<>>
    BY DEF Default
  <2>4. \A k : AllRanked(Given({k}))
    BY <1>3, <2>1 DEF AllRanked
  <2>5. QED
    BY <1>1, <2>2, <2>3, <2>4 DEF ListsSoFar
<1>7. TagsSoFar
  <2>1. cfg.tags = <<>>
    BY <1>1 DEF Default
  <2>2. Requested = {} /\ AskedFor = {}
    BY <1>3 DEF Requested, AskedFor
  <2>3. QED
    BY <2>1, <2>2 DEF TagsSoFar, Range
<1>8. AsWritten
  BY <1>1 DEF AsWritten
<1>9. QED
  BY <1>1, <1>2, <1>4, <1>5, <1>6, <1>7, <1>8 DEF StartInv, SoFar

(* Nothing read, nothing changes.                                             *)
LEMMA NothingRead ==
  ASSUME UNCHANGED <<file, env>>
  PROVE  /\ \A keys : Given(keys)' = Given(keys)
         /\ \A k, default : InForce(k, default)' = InForce(k, default)
         /\ \A k : ListOf(k)' = ListOf(k)
         /\ Requested' = Requested /\ AskedFor' = AskedFor
<1>1. file' = file /\ env' = env
  OBVIOUS
<1>2. /\ \A m : InEnv(m)' = InEnv(m)
      /\ \A m : Setting(m)' = Setting(m)
      /\ Places' = Places
  BY <1>1 DEF InEnv, Setting, Places
<1>3. \A m : Commented(m)' = Commented(m)
  BY <1>1 DEF Commented, Mark
<1>4. \A m : Counts(m)' = Counts(m)
  BY <1>1, <1>2, <1>3 DEF Counts
<1>5. \A m : Accepted(Setting(m).key, Setting(m).value, InEnv(m))'
               = Accepted(Setting(m).key, Setting(m).value, InEnv(m))
  BY <1>2 DEF Accepted
<1>6. \A keys : Given(keys)' = Given(keys)
  BY <1>2, <1>4, <1>5 DEF Given
<1>7. \A k, default : InForce(k, default)' = InForce(k, default)
  <2> TAKE k, default
  <2>1. PICK P : P = Given({k}) /\ P = Given({k})'
    BY <1>6
  <2>2. Latest(Given({k}))' = Latest(P)
    BY <2>1 DEF Latest
  <2>3. InForce(k, default)' = IF P = {} THEN default ELSE Setting(Latest(Given({k})))'.value
    BY <2>1 DEF InForce
  <2>4. PICK m : m = Latest(P)
    OBVIOUS
  <2>5. Setting(Latest(Given({k})))' = Setting(m)'
    BY <2>2, <2>4 DEF Setting, InEnv
  <2>6. QED
    BY <1>2, <2>1, <2>3, <2>4, <2>5 DEF InForce
<1>8. \A k : ListOf(k)' = ListOf(k)
  <2> TAKE k
  <2>1. PICK P : P = Given({k}) /\ P = Given({k})'
    BY <1>6
  <2>2. \A i : Setting(Ranked(P, i))' = Setting(Ranked(P, i))
    BY <1>1 DEF Setting, InEnv
  <2>3. QED
    BY <2>1, <2>2 DEF ListOf
<1>9. Requested' = Requested /\ AskedFor' = AskedFor
  BY <1>2, <1>6 DEF Requested, AskedFor
<1>10. QED
  BY <1>6, <1>7, <1>8, <1>9

(* A line keeps the invariant.                                                *)
LEMMA LineStep ==
  ASSUME StartInv, NEW l \in Lines, ReadLine(l)
  PROVE  StartInv'
<1>1. /\ stage = "file" /\ StartTypeOK /\ SkipsComments /\ SoFar
      /\ MaxCount \in Nat \ {0} /\ ValueType(l.value) /\ cfg \in CfgType
  BY ConfigurationAssumption DEF ReadLine, StartInv, StartTypeOK, ConfigurationAssumption
<1>2. PICK n \in Nat : n = Len(file) + 1
  BY <1>1 DEF StartTypeOK
<1>3. PICK counts : counts <=> (l.kind = "set" /\ ~skip')
  OBVIOUS
<1>4. /\ Reads(n, l.key, l.value, FALSE, l.kind = "set" /\ ~skip') /\ SkipsComments'
  BY <1>1, <1>2, LineRead
<1>5. Reads(n, l.key, l.value, FALSE, counts)
  BY <1>3, <1>4 DEF Reads
<1>6. /\ cfg' = IF counts THEN FromFile(cfg, l.key, l.value) ELSE cfg
      /\ file' = Append(file, l) /\ env' = env /\ skip' \in BOOLEAN /\ stage' \in {"file", "env"}
  BY <1>1, <1>3 DEF ReadLine, AfterLine, StartTypeOK
<1>7. Effect(l.key, l.value, cfg, cfg', counts /\ Accepted(l.key, l.value, FALSE), FALSE)
  <2>1. CASE counts
    <3>1. Effect(l.key, l.value, cfg, cfg', Accepted(l.key, l.value, FALSE), FALSE)
      BY <1>1, <1>6, <2>1, FileEffect
    <3>2. QED
      BY <2>1, <3>1 DEF Effect, Scalars, Lists, Tags
  <2>2. CASE ~counts
    BY <1>6, <2>2 DEF Effect, Scalars, Lists, Tags
  <2>3. QED
    BY <2>1, <2>2
<1>8. SoFar'
  <2>1. ScalarsSoFar'
    BY <1>1, <1>5, <1>7, ScalarsGrow DEF SoFar, Effect
  <2>2. ListsSoFar'
    BY <1>1, <1>5, <1>7, ListsGrow DEF SoFar, Effect
  <2>3. TagsSoFar'
    BY <1>1, <1>5, <1>7, TagsGrow DEF SoFar, Effect
  <2>4. QED
    BY <2>1, <2>2, <2>3 DEF SoFar
<1>9. StartTypeOK'
  <2>1. cfg' \in CfgType /\ \A k \in LimitKey : cfg'.limit[k] \in LimitRange(k)
    BY <1>1, <1>6, FileType DEF StartTypeOK
  <2>2. Len(cfg'.pm_indexes) <= MaxCount /\ Len(cfg'.wb_indexes) <= MaxCount
    <3>1. cfg.pm_indexes \in Seq(0..127) /\ cfg.wb_indexes \in Seq(0..(MaxCount - 1))
      BY <1>1 DEF CfgType
    <3>2. Len(cfg.pm_indexes) <= MaxCount /\ Len(cfg.wb_indexes) <= MaxCount
      BY <1>1 DEF StartTypeOK
    <3>3. PICK num : /\ \/ cfg'.pm_indexes = cfg.pm_indexes
                        \/ /\ Len(cfg.pm_indexes) < MaxCount
                           /\ cfg'.pm_indexes = Append(cfg.pm_indexes, num)
                     /\ \/ cfg'.wb_indexes = cfg.wb_indexes
                        \/ /\ Len(cfg.wb_indexes) < MaxCount
                           /\ cfg'.wb_indexes = Append(cfg.wb_indexes, num)
      BY <1>7 DEF Effect, Lists
    <3>4. QED
      BY <1>1, <3>1, <3>2, <3>3
  <2>3. file' \in Seq(Lines) /\ env' = <<>> /\ env' \in Seq(Settings)
    BY <1>1, <1>6 DEF StartTypeOK
  <2>4. QED
    BY <1>6, <2>1, <2>2, <2>3 DEF StartTypeOK
<1>10. AsWritten'
  BY <1>6 DEF AsWritten
<1>11. QED
  BY <1>4, <1>8, <1>9, <1>10 DEF StartInv

(* A variable keeps the invariant.                                            *)
LEMMA VariableStep ==
  ASSUME StartInv, NEW s \in Settings, ReadVariable(s)
  PROVE  StartInv'
<1>1. /\ stage = "env" /\ StartTypeOK /\ SoFar
      /\ MaxCount \in Nat \ {0} /\ ValueType(s.value) /\ cfg \in CfgType
  BY ConfigurationAssumption DEF ReadVariable, StartInv, StartTypeOK, ConfigurationAssumption
<1>2. PICK n \in Nat : n = Len(file) + Len(env) + 1
  BY <1>1 DEF StartTypeOK
<1>3. Reads(n, s.key, s.value, TRUE, TRUE)
  BY <1>1, <1>2, VariableRead
<1>4. /\ cfg' = FromEnv(cfg, s.key, s.value) /\ env' = Append(env, s)
      /\ file' = file /\ skip' = skip /\ stage' = "env"
  BY <1>1 DEF ReadVariable
<1>5. Effect(s.key, s.value, cfg, cfg', TRUE /\ Accepted(s.key, s.value, TRUE), TRUE)
  <2>1. Effect(s.key, s.value, cfg, cfg', Accepted(s.key, s.value, TRUE), TRUE)
    BY <1>1, <1>4, EnvEffect
  <2>2. QED
    BY <2>1 DEF Effect, Scalars, Lists, Tags
<1>6. SoFar'
  <2>1. ScalarsSoFar'
    BY <1>1, <1>3, <1>5, ScalarsGrow DEF SoFar, Effect
  <2>2. ListsSoFar'
    BY <1>1, <1>3, <1>5, ListsGrow DEF SoFar, Effect
  <2>3. TagsSoFar'
    BY <1>1, <1>3, <1>5, TagsGrow DEF SoFar, Effect
  <2>4. QED
    BY <2>1, <2>2, <2>3 DEF SoFar
<1>7. StartTypeOK'
  <2>1. cfg' \in CfgType /\ \A k \in LimitKey : cfg'.limit[k] \in LimitRange(k)
    BY <1>1, <1>4, EnvType DEF StartTypeOK
  <2>2. Len(cfg'.pm_indexes) <= MaxCount /\ Len(cfg'.wb_indexes) <= MaxCount
    <3>1. cfg.pm_indexes \in Seq(0..127) /\ cfg.wb_indexes \in Seq(0..(MaxCount - 1))
      BY <1>1 DEF CfgType
    <3>2. Len(cfg.pm_indexes) <= MaxCount /\ Len(cfg.wb_indexes) <= MaxCount
      BY <1>1 DEF StartTypeOK
    <3>3. PICK num : /\ \/ cfg'.pm_indexes = cfg.pm_indexes
                        \/ /\ Len(cfg.pm_indexes) < MaxCount
                           /\ cfg'.pm_indexes = Append(cfg.pm_indexes, num)
                     /\ \/ cfg'.wb_indexes = cfg.wb_indexes
                        \/ /\ Len(cfg.wb_indexes) < MaxCount
                           /\ cfg'.wb_indexes = Append(cfg.wb_indexes, num)
      BY <1>5 DEF Effect, Lists
    <3>4. QED
      BY <1>1, <3>1, <3>2, <3>3
  <2>3. file' \in Seq(Lines) /\ env' \in Seq(Settings)
    BY <1>1, <1>4 DEF StartTypeOK
  <2>4. QED
    BY <1>1, <1>4, <2>1, <2>2, <2>3 DEF StartTypeOK
<1>8. AsWritten' /\ SkipsComments'
  BY <1>4 DEF AsWritten, SkipsComments
<1>9. QED
  BY <1>6, <1>7, <1>8 DEF StartInv

(* The end of the file.                                                       *)
LEMMA EndStep ==
  ASSUME StartInv, EndOfFile
  PROVE  StartInv'
<1>1. /\ stage = "file" /\ StartTypeOK /\ SoFar /\ stage' = "env"
      /\ file' = file /\ env' = env /\ cfg' = cfg /\ skip' = skip
  BY DEF EndOfFile, StartInv
<1>2. /\ \A keys : Given(keys)' = Given(keys)
      /\ \A k, default : InForce(k, default)' = InForce(k, default)
      /\ \A k : ListOf(k)' = ListOf(k)
      /\ Requested' = Requested /\ AskedFor' = AskedFor
  BY <1>1, NothingRead
<1>3. ScalarsSoFar'
  BY <1>1, <1>2 DEF SoFar, ScalarsSoFar
<1>4. ListsSoFar'
  BY <1>1, <1>2 DEF SoFar, ListsSoFar, AllRanked, Rank
<1>5. TagsSoFar'
  BY <1>1, <1>2 DEF SoFar, TagsSoFar
<1>6. StartTypeOK' /\ AsWritten' /\ SkipsComments'
  BY <1>1 DEF StartTypeOK, AsWritten, SkipsComments
<1>7. QED
  BY <1>3, <1>4, <1>5, <1>6 DEF StartInv, SoFar

(* An order of the requests holds each of them once.                          *)
LEMMA SortedHoldsAll ==
  ASSUME NEW tags \in Seq(Tag), NEW t \in Sorted(tags)
  PROVE  Range(t) = Range(tags) /\ Len(t) = Cardinality(Range(tags)) /\ t \in Seq(Tag)
<1> DEFINE S == Range(tags)
           D == 1..Cardinality(S)
<1>1. IsFiniteSet(S) /\ Cardinality(S) \in Nat
  <2>1. Len(tags) \in Nat /\ DOMAIN tags = 1..Len(tags) /\ tags \in [1..Len(tags) -> S]
    BY DEF Range
  <2>2. \A x \in S : \E i \in 1..Len(tags) : tags[i] = x
    BY <2>1 DEF Range
  <2>3. IsFiniteSet(1..Len(tags))
    BY <2>1, FS_Interval
  <2>4. tags \in Surjection(1..Len(tags), S)
    BY <2>1, <2>2 DEF Surjection
  <2>5. IsFiniteSet(S)
    BY <2>3, <2>4, FS_Surjection
  <2>6. QED
    BY <2>5, FS_CardinalityType
<1>2. t \in [D -> S] /\ \A i, j \in D : i # j => t[i] # t[j]
  BY DEF Sorted, SetToSeqs
<1> HIDE DEF S
<1>3. IsFiniteSet(D) /\ Cardinality(D) = Cardinality(S)
  BY <1>1, FS_Interval
<1>4. t \in Injection(D, S)
  BY <1>2 DEF Injection, IsInjective
<1>5. t \in Surjection(D, S)
  BY <1>1, <1>3, <1>4, FS_Injection
<1>6. Range(t) = S
  BY <1>2, <1>5 DEF Surjection, Range
<1>7. S \subseteq Tag
  BY DEF S, Range
<1>8. t \in Seq(Tag) /\ Len(t) = Cardinality(S)
  BY <1>1, <1>2, <1>7
<1>9. QED
  BY <1>6, <1>8 DEF S

(* The numbers after the corrections are in their ranges.                     *)
LEMMA CorrectedType ==
  ASSUME NEW num \in [IntKey -> Int], CurrYear \in Int
  PROVE  /\ Corrected(num) \in [IntKey -> Int]
         /\ Corrected(num)["INTERVAL"] \in 1..300
         /\ Corrected(num)["MQTT_QOS"] \in 0..2
         /\ Corrected(num)["PVI_TRACKER"] \in 0..127
         /\ Corrected(num)["BATTERY_STRINGS"] \in 1..127
         /\ Corrected(num)["HISTORY_START_YEAR"] < CurrYear
<1> DEFINE d == Corrected(num)
<1>1. /\ d["INTERVAL"] = Interval(num["INTERVAL"])
      /\ d["MQTT_QOS"] = InRange(num["MQTT_QOS"], 0..2, 0)
      /\ d["PVI_TRACKER"] = InRange(num["PVI_TRACKER"], 0..127, 0)
      /\ d["BATTERY_STRINGS"] = InRange(num["BATTERY_STRINGS"], 1..127, 1)
      /\ d["HISTORY_START_YEAR"] = InRange(num["HISTORY_START_YEAR"], 2010..(CurrYear - 1),
                                           CurrYear - 1)
      /\ d = [k \in IntKey |-> d[k]]
  BY DEF Corrected, IntKey
<1>2. /\ d["INTERVAL"] \in 1..300 /\ d["MQTT_QOS"] \in 0..2 /\ d["PVI_TRACKER"] \in 0..127
      /\ d["BATTERY_STRINGS"] \in 1..127 /\ d["HISTORY_START_YEAR"] \in Int
      /\ d["HISTORY_START_YEAR"] < CurrYear
  <2> HIDE DEF d
  <2>1. \A k \in IntKey : num[k] \in Int
    OBVIOUS
  <2>2. QED
    BY <1>1, <2>1 DEF Interval, InRange, IntKey
<1>3. d \in [IntKey -> Int]
  <2> HIDE DEF d
  <2>1. \A k \in IntKey : d[k] \in Int
    BY <1>2 DEF IntKey
  <2>2. QED
    BY <1>1, <2>1
<1>4. QED
  BY <1>2, <1>3

(* The lists after the defaults are in their ranges.                          *)
LEMMA ListsType ==
  ASSUME NEW c \in CfgType, MaxCount \in Nat \ {0},
         Len(c.pm_indexes) <= MaxCount, Len(c.wb_indexes) <= MaxCount
  PROVE  /\ Meters(c) \in Seq(0..127) /\ Len(Meters(c)) \in 1..MaxCount
         /\ Wallboxes(c) \in Seq(0..(MaxCount - 1)) /\ Len(Wallboxes(c)) <= MaxCount
<1>1. c.pm_indexes \in Seq(0..127) /\ c.wb_indexes \in Seq(0..(MaxCount - 1))
  BY DEF CfgType
<1>2. PICK list : list = IF c.pm_indexes = <<>> THEN <<0>> ELSE c.pm_indexes
  OBVIOUS
<1>3. list \in Seq(0..127) /\ Len(list) \in 1..MaxCount
  <2>1. CASE c.pm_indexes = <<>>
    <3>1. list = <<0>> /\ <<0>> \in Seq(0..127) /\ Len(<<0>>) = 1
      BY <1>2, <2>1
    <3>2. QED
      BY <3>1
  <2>2. CASE c.pm_indexes # <<>>
    <3>1. list = c.pm_indexes /\ Len(c.pm_indexes) \in Nat \ {0}
      BY <1>1, <1>2, <2>2
    <3>2. QED
      BY <1>1, <3>1
  <2>3. QED
    BY <2>1, <2>2
<1>4. Meters(c) = IF c.flag["PM_EXTERN"] THEN [list EXCEPT ![1] = 6] ELSE list
  BY <1>2 DEF Meters
<1>5. [list EXCEPT ![1] = 6] \in Seq(0..127) /\ Len([list EXCEPT ![1] = 6]) = Len(list)
  BY <1>3
<1>6. Wallboxes(c) \in Seq(0..(MaxCount - 1)) /\ Len(Wallboxes(c)) <= MaxCount
  <2>1. PICK one : one = <<0>> /\ one \in Seq(0..(MaxCount - 1)) /\ Len(one) = 1
    <3>1. 0 \in 0..(MaxCount - 1)
      OBVIOUS
    <3>2. \A S : 0 \in S => <<0>> \in Seq(S) /\ Len(<<0>>) = 1
      OBVIOUS
    <3>3. QED
      BY <3>1, <3>2, Zenon
  <2>2. Wallboxes(c) = one \/ Wallboxes(c) = c.wb_indexes
    BY <2>1 DEF Wallboxes
  <2>3. Len(one) <= MaxCount
    BY <2>1
  <2>4. QED
    BY <1>1, <2>1, <2>2, <2>3
<1>7. QED
  BY <1>3, <1>4, <1>5, <1>6

(* The corrections, and the order of the requests.                            *)
LEMMA FinishStep ==
  ASSUME StartInv, Finish
  PROVE  StartInv'
<1>1. /\ stage = "env" /\ StartTypeOK /\ SoFar /\ MaxCount \in Nat \ {0} /\ CurrYear \in Int
      /\ file' = file /\ env' = env /\ skip' = skip /\ cfg \in CfgType
  BY ConfigurationAssumption DEF Finish, StartInv, StartTypeOK, ConfigurationAssumption
<1>2. CASE stage' = "exit" /\ cfg' = cfg
  BY <1>1, <1>2 DEF StartInv, StartTypeOK, SkipsComments, AsWritten
<1>3. CASE stage' = "ready" /\ \E t \in Sorted(cfg.tags) :
             cfg' = [cfg EXCEPT !.num = Corrected(@), !.pm_indexes = Meters(cfg),
                                !.wb_indexes = Wallboxes(cfg), !.tags = t]
  <2>1. PICK t \in Sorted(cfg.tags) :
             cfg' = [cfg EXCEPT !.num = Corrected(@), !.pm_indexes = Meters(cfg),
                                !.wb_indexes = Wallboxes(cfg), !.tags = t]
    BY <1>3
  <2>2. /\ cfg'.num = Corrected(cfg.num) /\ cfg'.flag = cfg.flag /\ cfg'.text = cfg.text
        /\ cfg'.limit = cfg.limit /\ cfg'.pm_indexes = Meters(cfg)
        /\ cfg'.wb_indexes = Wallboxes(cfg) /\ cfg'.tags = t
    BY <1>1, <2>1 DEF CfgType
  <2>3. cfg.tags \in Seq(Tag) /\ cfg.num \in [IntKey -> Int]
    BY <1>1 DEF CfgType
  <2>4. Range(t) = Range(cfg.tags) /\ Len(t) = Cardinality(Range(cfg.tags)) /\ t \in Seq(Tag)
    BY <2>3, SortedHoldsAll
  <2>5. Corrected(cfg.num) \in [IntKey -> Int]
    BY <1>1, <2>3, CorrectedType
  <2>6. /\ Meters(cfg) \in Seq(0..127) /\ Len(Meters(cfg)) <= MaxCount
        /\ Wallboxes(cfg) \in Seq(0..(MaxCount - 1)) /\ Len(Wallboxes(cfg)) <= MaxCount
    BY <1>1, ListsType DEF StartTypeOK
  <2>7. cfg' \in CfgType
    <3>1. PICK num \in [IntKey -> Int], pm \in Seq(0..127), wb \in Seq(0..(MaxCount - 1)) :
            /\ num = Corrected(cfg.num) /\ pm = Meters(cfg) /\ wb = Wallboxes(cfg)
      BY <2>5, <2>6
    <3>2. cfg' = [cfg EXCEPT !.num = num, !.pm_indexes = pm, !.wb_indexes = wb, !.tags = t]
      BY <2>1, <3>1
    <3>3. QED
      BY <1>1, <2>4, <3>2 DEF CfgType
  <2>8. StartTypeOK'
    BY <1>1, <1>3, <2>2, <2>6, <2>7 DEF StartTypeOK
  <2>9. /\ \A keys : Given(keys)' = Given(keys)
        /\ \A k, default : InForce(k, default)' = InForce(k, default)
        /\ \A k : ListOf(k)' = ListOf(k)
        /\ Requested' = Requested
    BY <1>1, NothingRead
  <2>10. cfg'.num = Corrected([k \in IntKey |-> InForce(k, [num |-> Default.num[k]])'.num])
    <3>1. cfg.num = [k \in IntKey |-> InForce(k, [num |-> Default.num[k]]).num]
      BY <1>1, <2>3 DEF SoFar, ScalarsSoFar
    <3>2. \A k \in IntKey : InForce(k, [num |-> Default.num[k]])'
                              = InForce(k, [num |-> Default.num[k]])
      <4> TAKE k \in IntKey
      <4>1. PICK default : default = [num |-> Default.num[k]]
        OBVIOUS
      <4>2. QED
        BY <2>9, <4>1
    <3>3. cfg.num = [k \in IntKey |-> InForce(k, [num |-> Default.num[k]])'.num]
      BY <3>1, <3>2
    <3>4. QED
      BY <2>2, <3>3, Zenon
  <2>11. \A k \in OnKey \union OffKey :
           cfg'.flag[k] = (InForce(k, [word |-> IF k \in OffKey THEN "true" ELSE "false"])'.word
                            \in {"true", "1"})
    <3> TAKE k \in OnKey \union OffKey
    <3>1. PICK default : default = [word |-> IF k \in OffKey THEN "true" ELSE "false"]
      OBVIOUS
    <3>2. InForce(k, default)' = InForce(k, default)
      BY <2>9
    <3>3. QED
      BY <1>1, <2>2, <3>1, <3>2 DEF SoFar, ScalarsSoFar
  <2>12. /\ \A k \in TextKey : cfg'.text[k] = InForce(k, [word |-> ""])'.word
         /\ \A k \in LimitKey : cfg'.limit[k] = InForce(k, [num |-> 0])'.num
         /\ \A k \in DurableKey : cfg'.limit[k] = IF Given({k})' = {} THEN 0 ELSE 1
    BY <1>1, <2>2, <2>9 DEF SoFar, ScalarsSoFar
  <2>13. cfg'.pm_indexes = Meters([cfg' EXCEPT !.pm_indexes = ListOf("PM_INDEX")'])
    <3>1. PICK c : c = [cfg' EXCEPT !.pm_indexes = ListOf("PM_INDEX")']
      OBVIOUS
    <3>2. c.pm_indexes = cfg.pm_indexes /\ c.flag = cfg.flag
      BY <1>1, <2>2, <2>7, <2>9, <3>1 DEF SoFar, ListsSoFar, CfgType
    <3>3. Meters(c) = Meters(cfg)
      BY <3>2 DEF Meters
    <3>4. QED
      BY <2>2, <3>1, <3>3
  <2>14. cfg'.wb_indexes = Wallboxes([cfg' EXCEPT !.wb_indexes = ListOf("WB_INDEX")'])
    <3>1. PICK c : c = [cfg' EXCEPT !.wb_indexes = ListOf("WB_INDEX")']
      OBVIOUS
    <3>2. c.wb_indexes = cfg.wb_indexes /\ c.flag = cfg.flag
      BY <1>1, <2>2, <2>7, <2>9, <3>1 DEF SoFar, ListsSoFar, CfgType
    <3>3. Wallboxes(c) = Wallboxes(cfg)
      BY <3>2 DEF Wallboxes
    <3>4. QED
      BY <2>2, <3>1, <3>3
  <2>15. Range(cfg'.tags) = Requested' /\ Len(cfg'.tags) = Cardinality(Requested')
    BY <1>1, <2>2, <2>4, <2>9 DEF SoFar, TagsSoFar
  <2>16. AsWritten'
    BY <2>10, <2>11, <2>12, <2>13, <2>14, <2>15 DEF AsWritten
  <2>17. SkipsComments' /\ stage' \notin {"file", "env"}
    BY <1>3 DEF SkipsComments
  <2>18. QED
    BY <2>8, <2>16, <2>17 DEF StartInv
<1>4. QED
  BY <1>2, <1>3 DEF Finish

(* The invariant of the start holds: it holds at first, and every step keeps  *)
(* it.                                                                        *)
THEOREM StartInductive == StartSpec => []StartInv
<1>1. InitStart => StartInv
  BY StartInitially
<1>2. StartInv /\ [Start]_startVars => StartInv'
  <2> SUFFICES ASSUME StartInv, [Start]_startVars PROVE StartInv'
    OBVIOUS
  <2>1. CASE \E l \in Lines : ReadLine(l)
    BY <2>1, LineStep
  <2>2. CASE EndOfFile
    BY <2>2, EndStep
  <2>3. CASE \E s \in Settings : ReadVariable(s)
    BY <2>3, VariableStep
  <2>4. CASE Finish
    BY <2>4, FinishStep
  <2>5. CASE UNCHANGED startVars
    <3>1. /\ file' = file /\ env' = env /\ stage' = stage /\ skip' = skip /\ cfg' = cfg
      BY <2>5 DEF startVars
    <3>2. StartTypeOK' /\ SkipsComments'
      BY <3>1 DEF StartInv, StartTypeOK, SkipsComments, Commented, Mark
    <3>3. /\ \A keys : Given(keys)' = Given(keys)
          /\ \A k, default : InForce(k, default)' = InForce(k, default)
          /\ \A k : ListOf(k)' = ListOf(k)
          /\ Requested' = Requested /\ AskedFor' = AskedFor
      BY <3>1, NothingRead
    <3>4. SoFar' <=> SoFar
      <4>1. ScalarsSoFar' <=> ScalarsSoFar
        BY <3>1, <3>3 DEF ScalarsSoFar
      <4>2. ListsSoFar' <=> ListsSoFar
        BY <3>1, <3>3 DEF ListsSoFar, AllRanked, Rank
      <4>3. TagsSoFar' <=> TagsSoFar
        BY <3>1, <3>3 DEF TagsSoFar
      <4>4. QED
        BY <4>1, <4>2, <4>3 DEF SoFar
    <3>5. AsWritten' <=> AsWritten
      BY <3>1, <3>3 DEF AsWritten
    <3>6. QED
      BY <3>1, <3>2, <3>4, <3>5 DEF StartInv
  <2>6. QED
    BY <2>1, <2>2, <2>3, <2>4, <2>5 DEF Start
<1>3. QED
  BY <1>1, <1>2, PTL DEF StartSpec

(* Every configuration that the start ends with is the one that is written:   *)
(* AsWritten for every file and environment, the last accepted setting in     *)
(* force, each list in its order, each request once.                          *)
THEOREM ConfigurationIsAsWritten == StartSpec => []AsWritten
<1>1. StartInv => AsWritten
  BY DEF StartInv
<1>2. QED
  BY <1>1, StartInductive, PTL

(* What is in force is a number, as every value given has one.                *)
LEMMA InForceIsNumber ==
  ASSUME StartTypeOK, NEW k \in IntKey, CurrYear \in Int
  PROVE  InForce(k, [num |-> Default.num[k]]).num \in Int
<1>1. CASE Given({k}) = {}
  <2>1. Default.num[k] \in Int
    BY DEF Default
  <2>2. InForce(k, [num |-> Default.num[k]]) = [num |-> Default.num[k]]
    BY <1>1 DEF InForce
  <2>3. QED
    BY <2>1, <2>2
<1>2. CASE Given({k}) # {}
  <2>1. PICK P : P = Given({k})
    OBVIOUS
  <2>2. /\ P \in SUBSET Places /\ Places = 1..(Len(file) + Len(env))
        /\ Len(file) \in Nat /\ Len(env) \in Nat /\ P # {}
    BY <1>2, <2>1, GivenIsFinite
  <2>3. \E n \in P : \A m \in P : m <= n
    <3>1. PICK size \in Nat : Places = 1..size
      BY <2>2
    <3>2. P \in SUBSET (1..size) /\ P # {}
      BY <2>2, <3>1
    <3>3. QED
      BY <3>2, HasMax
  <2>4. PICK n \in P : n = Latest(P)
    BY <2>3 DEF Latest
  <2>5. InForce(k, [num |-> Default.num[k]]) = Setting(n).value
    BY <1>2, <2>1, <2>4 DEF InForce
  <2>6. ValueType(Setting(n).value)
    <3>1. CASE n > Len(file)
      <4>1. n - Len(file) \in 1..Len(env)
        BY <2>2, <2>4, <3>1
      <4>2. Setting(n) \in Settings
        BY <3>1, <4>1 DEF Setting, InEnv, StartTypeOK
      <4>3. QED
        BY <4>2, ConfigurationAssumption DEF ConfigurationAssumption
    <3>2. CASE ~(n > Len(file))
      <4>1. n \in 1..Len(file)
        BY <2>2, <2>4, <3>2
      <4>2. Setting(n) \in Lines
        BY <3>2, <4>1 DEF Setting, InEnv, StartTypeOK
      <4>3. QED
        BY <4>2, ConfigurationAssumption DEF ConfigurationAssumption
    <3>3. QED
      BY <3>1, <3>2
  <2>7. QED
    BY <2>5, <2>6 DEF ValueType
<1>3. QED
  BY <1>1, <1>2

(* Indexes up to a limit are numbers.                                         *)
LEMMA IndexesAreNumbers == ASSUME NEW m \in Nat, NEW p \in Seq(0..m) PROVE p \in Seq(Nat)
<1>1. Len(p) \in Nat /\ p \in [1..Len(p) -> 0..m]
  OBVIOUS
<1>2. \A i \in 1..Len(p) : p[i] \in Nat
  BY <1>1
<1>3. QED
  BY <1>1, <1>2

(* The system of devices that the configuration describes, when these strings *)
(* and trackers are there.                                                    *)
SystemFor(strings, trackers) ==
  [strings |-> strings, battery_strings |-> cfg.num["BATTERY_STRINGS"],
   trackers |-> trackers, pvi_tracker |-> cfg.num["PVI_TRACKER"],
   pm_indexes |-> cfg.pm_indexes, wb_indexes |-> cfg.wb_indexes]

(* What the other components take for given of the configuration: what        *)
(* DeviceAnswers assumes of a system, HistoryData of the first year, and      *)
(* SocLimiter of limits; besides, the pause of a cycle and the quality of     *)
(* service.                                                                   *)
FitForUse ==
  stage = "ready" =>
    /\ \A strings \in Seq(Nat \ {0}), trackers \in Nat \ {0} :
         SystemType(SystemFor(strings, trackers))
    /\ Len(cfg.pm_indexes) <= MaxCount /\ Len(cfg.wb_indexes) <= MaxCount
    /\ cfg.num["HISTORY_START_YEAR"] < CurrYear
    /\ \A k \in LimitKey : cfg.limit[k] \in LimitRange(k)
    /\ cfg.num["INTERVAL"] \in 1..300 /\ cfg.num["MQTT_QOS"] \in 0..2

(* Whatever is written, however far out of range, the program runs with a     *)
(* configuration that the other components can work with.                     *)
THEOREM ConfigurationIsFitForUse == StartSpec => []FitForUse
<1>1. ASSUME StartInv PROVE FitForUse
  <2> SUFFICES ASSUME stage = "ready"
               PROVE  /\ \A strings \in Seq(Nat \ {0}), trackers \in Nat \ {0} :
                           SystemType(SystemFor(strings, trackers))
                      /\ Len(cfg.pm_indexes) <= MaxCount /\ Len(cfg.wb_indexes) <= MaxCount
                      /\ cfg.num["HISTORY_START_YEAR"] < CurrYear
                      /\ \A k \in LimitKey : cfg.limit[k] \in LimitRange(k)
                      /\ cfg.num["INTERVAL"] \in 1..300 /\ cfg.num["MQTT_QOS"] \in 0..2
    BY DEF FitForUse
  <2>1. StartTypeOK /\ CurrYear \in Int /\ MaxCount \in Nat \ {0} /\ cfg \in CfgType
    BY <1>1, ConfigurationAssumption DEF StartInv, StartTypeOK, ConfigurationAssumption
  <2>2. PICK num : num = [k \in IntKey |-> InForce(k, [num |-> Default.num[k]]).num]
    OBVIOUS
  <2>3. num \in [IntKey -> Int]
    BY <2>1, <2>2, InForceIsNumber
  <2>4. cfg.num = Corrected(num)
    BY <1>1, <2>2 DEF StartInv, AsWritten
  <2>5. /\ cfg.num["INTERVAL"] \in 1..300 /\ cfg.num["MQTT_QOS"] \in 0..2
        /\ cfg.num["PVI_TRACKER"] \in 0..127 /\ cfg.num["BATTERY_STRINGS"] \in 1..127
        /\ cfg.num["HISTORY_START_YEAR"] < CurrYear
    BY <2>1, <2>3, <2>4, CorrectedType
  <2>6. /\ cfg.pm_indexes \in Seq(0..127) /\ cfg.wb_indexes \in Seq(0..(MaxCount - 1))
        /\ Len(cfg.pm_indexes) <= MaxCount /\ Len(cfg.wb_indexes) <= MaxCount
    BY <2>1 DEF StartTypeOK, CfgType
  <2>7. cfg.pm_indexes \in Seq(Nat) /\ cfg.wb_indexes \in Seq(Nat)
    <3>1. PICK m \in Nat : m = 127
      BY SMT
    <3>2. cfg.pm_indexes \in Seq(0..m)
      BY <2>6, <3>1, Zenon
    <3>3. MaxCount - 1 \in Nat
      BY <2>1
    <3>4. QED
      BY <2>6, <3>2, <3>3, IndexesAreNumbers
  <2>8. \A k \in LimitKey : cfg.limit[k] \in LimitRange(k)
    BY <2>1 DEF StartTypeOK
  <2>9. ASSUME NEW strings \in Seq(Nat \ {0}), NEW trackers \in Nat \ {0}
        PROVE  SystemType(SystemFor(strings, trackers))
    <3>1. cfg.num["BATTERY_STRINGS"] \in Nat \ {0} /\ cfg.num["PVI_TRACKER"] \in Nat
      <4>1. PICK b, t : b = cfg.num["BATTERY_STRINGS"] /\ t = cfg.num["PVI_TRACKER"]
        OBVIOUS
      <4>2. b \in 1..127 /\ t \in 0..127
        BY <2>5, <4>1
      <4>3. b \in Nat \ {0} /\ t \in Nat
        BY <4>2
      <4>4. QED
        BY <4>1, <4>3
    <3>2. PICK s : s = SystemFor(strings, trackers)
      OBVIOUS
    <3>3. /\ s.strings = strings /\ s.battery_strings = cfg.num["BATTERY_STRINGS"]
          /\ s.trackers = trackers /\ s.pvi_tracker = cfg.num["PVI_TRACKER"]
          /\ s.pm_indexes = cfg.pm_indexes /\ s.wb_indexes = cfg.wb_indexes
      BY <3>2 DEF SystemFor
    <3>4. SystemType(s)
      BY <2>7, <3>1, <3>3 DEF SystemType
    <3>5. QED
      BY <3>2, <3>4
  <2>10. QED
    BY <2>5, <2>6, <2>8, <2>9
<1>2. QED
  BY <1>1, StartInductive, PTL

-----------------------------------------------------------------------------
(* DeviceAnswers, for every system of devices and every sequence of answers, *)
(* errors, lost frames and commands: a topic shows the device whose number   *)
(* it has. The invariant follows the answers of a frame: the devices there   *)
(* are numbered by their place in it, so what is counted so far is how many  *)
(* of them have answered.                                                    *)

(* How many battery strings are configured and there.                         *)
There == AtMost(system.battery_strings, Len(system.strings))

(* How many power meters a frame asks for.                                    *)
Pms == IF requests.pm THEN Len(system.pm_indexes) ELSE 0

(* Whether it asks for the inverter.                                          *)
Pvs == IF requests.pvi THEN 1 ELSE 0

(* How many wallboxes it asks for.                                            *)
Wbs == Len(system.wb_indexes)

(* How many devices that are no battery strings it asks for, behind them.     *)
Others == Wbs + Pvs + Pms

(* How many battery strings are yet to be answered.                           *)
LeftBat == IF Len(frame) <= Others THEN 0 ELSE Len(frame) - Others

(* How many power meters or wallboxes are yet to be answered.                 *)
Left(k) ==
  IF k = "wb" THEN AtMost(Len(frame), Wbs)
  ELSE IF Len(frame) <= Wbs + Pvs THEN 0 ELSE AtMost(Len(frame) - Wbs - Pvs, Pms)

(* The kinds of devices asked for by the lists of the configuration.          *)
Plain == {"pm", "wb"}

(* How many of a plain kind a frame asks for.                                 *)
InFrame(k) == IF k = "pm" THEN Pms ELSE Wbs

(* Their indexes.                                                             *)
Indexes(k) == IF k = "pm" THEN system.pm_indexes ELSE system.wb_indexes

(* A device: its kind, its index, and no module.                              *)
Device == Counted \X Nat \X {0}

(* A request about a battery string.                                          *)
BatType == [kind : {"bat"}, index : Nat, spec : BOOLEAN, count : BOOLEAN, modules : Nat]

(* The types of the devices' part.                                            *)
DevTypeOK ==
  /\ system \in Systems /\ new \in BOOLEAN
  /\ battery_strings \in Nat \ {0} /\ There <= battery_strings
  /\ battery_strings <= system.battery_strings
  /\ bat_dcb_count \in [0..(system.battery_strings - 1) -> Nat]
  /\ bat_dcb_start \in [0..(system.battery_strings - 1) -> Nat]
  /\ pvi_tracker \in Nat
  /\ requests \in [dcb : BOOLEAN, pm : BOOLEAN, pvi : BOOLEAN]
  /\ pc \in {"idle", "sent", "answers"}
  /\ nr \in [Counted -> Nat] /\ handled = nr
  /\ rawData \in [Counted -> Seq(Device)]

(* A request with so many behind it, in a frame for so many strings.          *)
Fits(r, behind, strings, spec) ==
  /\ behind < Wbs => r = [kind |-> "wb", index |-> system.wb_indexes[Wbs - behind]]
  /\ Wbs <= behind /\ behind < Wbs + Pvs =>
       r.kind = "pv" /\ r.count \in BOOLEAN /\ r.trackers \in Nat
  /\ Wbs + Pvs <= behind /\ behind < Others =>
       r = [kind |-> "pm", index |-> system.pm_indexes[Others - behind]]
  /\ Others <= behind =>
       r \in BatType /\ r.index = strings - 1 - (behind - Others) /\ r.spec = spec

(* What is left of the frame, and how many strings are counted so far.        *)
FrameFits(strings, spec) ==
  /\ strings \in There..system.battery_strings
  /\ frame \in Seq({frame[i] : i \in DOMAIN frame}) /\ Len(frame) <= strings + Others
  /\ \A i \in 1..Len(frame) : Fits(frame[i], Len(frame) - i, strings, spec)
  /\ LeftBat > 0 =>
       battery_strings >= AtMost(strings - LeftBat, Len(system.strings)) + LeftBat
  /\ nr["bat"] <= AtMost(strings - LeftBat, Len(system.strings))
  /\ "bat" \notin mixed => nr["bat"] = AtMost(strings - LeftBat, Len(system.strings))
  /\ (LeftBat > 0 /\ spec /\ "spec" \notin mixed) => "bat" \notin mixed

(* The frame of each stage, and how many of the other devices are counted.    *)
FrameOK ==
  /\ pc = "idle" => frame = <<>>
  /\ pc = "sent" => frame = Requests
  /\ pc = "answers" => /\ \E strings \in Nat, spec \in BOOLEAN : FrameFits(strings, spec)
                       /\ \A k \in Plain : nr[k] <= InFrame(k) - Left(k)
                       /\ \A k \in Plain : k \notin mixed => nr[k] = InFrame(k) - Left(k)

(* The kinds of topics.                                                       *)
Kinds == {"bat", "spec", "dcb", "cell", "pm", "pv", "wb"}

(* How many topics of a kind there may be.                                    *)
TopicLimit(k) ==
  CASE k = "pm" -> Len(system.pm_indexes)
    [] k = "wb" -> Len(system.wb_indexes)
    [] k = "bat" -> system.battery_strings
    [] k = "spec" -> system.battery_strings

(* The topic of entry n has the number n + 1, the single battery's cells      *)
(* none.                                                                      *)
TopicsOK ==
  /\ DOMAIN shown = DOMAIN topic
  /\ \A e \in DOMAIN topic :
       /\ e = <<e[1], e[2]>> /\ e[1] \in Kinds /\ e[2] \in Nat
       /\ topic[e] = e[2] + 1 \/ (e[1] = "cell" /\ topic[e] = 0)
       /\ e[1] \in {"pm", "wb", "bat", "spec"} => e[2] < TopicLimit(e[1])

(* Numbers the answers of this frame will come to.                            *)
Awaited(k, c) ==
  /\ pc = "answers" /\ nr[k] <= c
  /\ c < IF k = "bat" THEN There ELSE InFrame(k)

(* What is shown and kept of a counted kind is in its place.                  *)
PlainOK(k) ==
  /\ k \notin mixed =>
       /\ \A c \in Nat : (<<k, c>> \in DOMAIN shown /\ shown[<<k, c>>] # <<>> /\ ~Awaited(k, c))
                           => shown[<<k, c>>] = <<DeviceOf(k, c + 1)>>
       /\ \A i \in DOMAIN rawData[k] : ~Awaited(k, i - 1) => rawData[k][i] = DeviceOf(k, i)
  /\ Len(rawData[k]) <= TopicLimit(k)
  /\ pc = "answers" => nr[k] <= Len(rawData[k])

(* What is shown of the strings is in its place.                              *)
BatsOK ==
  /\ PlainOK("bat")
  /\ Len(rawData["bat"]) <= There
  /\ \A k \in {"bat", "spec"} : \A c \in Nat :
       (<<k, c>> \in DOMAIN shown /\ shown[<<k, c>>] # <<>>) => c < There
  /\ "spec" \notin mixed =>
       \A c \in Nat : (<<"spec", c>> \in DOMAIN shown /\ shown[<<"spec", c>>] # <<>>)
                         => shown[<<"spec", c>>] = <<<<"bat", c, 0>>>>

(* What is shown of the inverter's trackers is in its place.                  *)
PvOK ==
  \A c \in Nat : (<<"pv", c>> \in DOMAIN shown /\ shown[<<"pv", c>>] # <<>>)
                   => shown[<<"pv", c>>] = <<<<"pv", c, 0>>>>

(* The first module of string n, of two strings.                              *)
First(n) == IF n = 0 THEN 0 ELSE system.strings[1]

(* The string that has the module with number c.                              *)
StringOf(c) == IF c < system.strings[1] THEN 0 ELSE 1

(* The frame still asks for the modules of string j.                          *)
Asking(j) == \E i \in 1..Len(frame) : /\ frame[i].kind = "bat" /\ frame[i].index = j
                                      /\ frame[i].modules > 0

(* The numbers of modules learned are those of the strings, and start where   *)
(* the string before ends.                                                    *)
CountsOK ==
  /\ \A j \in 0..(system.battery_strings - 1) : bat_dcb_count[j] > 0 =>
       j < There /\ bat_dcb_count[j] = system.strings[j + 1] /\ bat_dcb_start[j] = First(j)
  /\ pc = "answers" =>
       /\ \A i \in 1..Len(frame) : frame[i].kind = "bat" /\ frame[i].index < There =>
            /\ frame[i].count <=> bat_dcb_count[frame[i].index] = 0
            /\ frame[i].count => frame[i].modules = 0 /\ "bat" \notin mixed
            /\ frame[i].modules > 0 => frame[i].modules = system.strings[frame[i].index + 1]
       /\ "bat" \notin mixed => \A j \in 0..(nr["bat"] - 1) : bat_dcb_count[j] > 0
       /\ "dcb" \notin mixed => "bat" \notin mixed

(* What is shown of a module is the one with its number, unless its string is *)
(* yet to be answered in this frame.                                          *)
ModulesOK ==
  /\ \A k \in {"dcb", "cell"}, c \in Nat : <<k, c>> \in DOMAIN shown =>
       /\ There > 0 /\ StringOf(c) < There
       /\ StringOf(c) = 1 => c - system.strings[1] < system.strings[2]
  /\ "dcb" \notin mixed =>
       \A k \in {"dcb", "cell"}, c \in Nat :
         (<<k, c>> \in DOMAIN shown /\ shown[<<k, c>>] # <<>>) =>
            \/ shown[<<k, c>>] = <<<<"dcb", StringOf(c), c - First(StringOf(c))>>>>
            \/ pc = "answers" /\ Asking(StringOf(c))

(* The inductive invariant of the devices: InPlace speaks of the time between *)
(* the frames only.                                                           *)
DevInv ==
  /\ DevTypeOK /\ FrameOK /\ TopicsOK
  /\ PlainOK("pm") /\ PlainOK("wb") /\ BatsOK /\ PvOK
  /\ (Len(system.strings) <= 2 /\ "counts" \notin mixed) => CountsOK /\ ModulesOK

(* Four sequences, one after the other.                                       *)
LEMMA FourParts ==
  ASSUME NEW S, NEW a \in Seq(S), NEW b \in Seq(S), NEW c \in Seq(S), NEW d \in Seq(S),
         NEW all, all = a \o b \o c \o d
  PROVE  /\ all \in Seq(S) /\ Len(all) = Len(a) + Len(b) + Len(c) + Len(d)
         /\ \A i \in 1..Len(all) :
              /\ Len(all) - i < Len(d) => all[i] = d[Len(d) - (Len(all) - i)]
              /\ Len(d) <= Len(all) - i /\ Len(all) - i < Len(d) + Len(c) =>
                   all[i] = c[Len(d) + Len(c) - (Len(all) - i)]
              /\ Len(d) + Len(c) <= Len(all) - i /\ Len(all) - i < Len(d) + Len(c) + Len(b) =>
                   all[i] = b[Len(d) + Len(c) + Len(b) - (Len(all) - i)]
              /\ Len(d) + Len(c) + Len(b) <= Len(all) - i => all[i] = a[i]
<1>1. a \o b \in Seq(S) /\ Len(a \o b) = Len(a) + Len(b)
  OBVIOUS
<1>2. (a \o b) \o c \in Seq(S) /\ Len((a \o b) \o c) = Len(a) + Len(b) + Len(c)
  OBVIOUS
<1>3. /\ \A i \in 1..Len(a) : (a \o b)[i] = a[i]
      /\ \A i \in 1..Len(b) : (a \o b)[Len(a) + i] = b[i]
  OBVIOUS
<1>4. PICK p : p = a \o b
  OBVIOUS
<1>5. /\ \A i \in 1..Len(p) : (p \o c)[i] = p[i]
      /\ \A i \in 1..Len(c) : (p \o c)[Len(p) + i] = c[i]
  BY <1>1, <1>4
<1>6. PICK q : q = p \o c
  OBVIOUS
<1>7. /\ \A i \in 1..Len(q) : (q \o d)[i] = q[i]
      /\ \A i \in 1..Len(d) : (q \o d)[Len(q) + i] = d[i]
      /\ q \o d \in Seq(S) /\ Len(q \o d) = Len(q) + Len(d)
  BY <1>2, <1>4, <1>6
<1>8. QED
  BY <1>1, <1>2, <1>3, <1>4, <1>5, <1>6, <1>7

(* What a system has.                                                         *)
LEMMA SystemHas ==
  ASSUME system \in Systems
  PROVE  /\ system.strings \in Seq(Nat \ {0}) /\ system.battery_strings \in Nat \ {0}
         /\ system.trackers \in Nat \ {0} /\ system.pvi_tracker \in Nat
         /\ system.pm_indexes \in Seq(Nat) /\ system.wb_indexes \in Seq(Nat)
         /\ Len(system.strings) \in Nat /\ Len(system.pm_indexes) \in Nat
         /\ Wbs \in Nat /\ Pvs \in {0, 1} /\ Pms \in Nat /\ Others \in Nat
         /\ Pms <= Len(system.pm_indexes) /\ Others = Wbs + Pvs + Pms
         /\ There \in Nat /\ There <= Len(system.strings) /\ There <= system.battery_strings
<1>1. SystemType(system)
  BY DeviceAssumption DEF DeviceAssumption
<1>2. /\ system.strings \in Seq(Nat \ {0}) /\ system.battery_strings \in Nat \ {0}
      /\ system.trackers \in Nat \ {0} /\ system.pvi_tracker \in Nat
      /\ system.pm_indexes \in Seq(Nat) /\ system.wb_indexes \in Seq(Nat)
  BY <1>1 DEF SystemType
<1>3. /\ Len(system.strings) \in Nat /\ Len(system.pm_indexes) \in Nat
      /\ Len(system.wb_indexes) \in Nat
  BY <1>2
<1>4. /\ Wbs \in Nat /\ Pvs \in {0, 1} /\ Pms \in Nat /\ Pms <= Len(system.pm_indexes)
  BY <1>3 DEF Wbs, Pvs, Pms
<1>5. Others \in Nat /\ Others = Wbs + Pvs + Pms
  BY <1>4 DEF Others
<1>6. There \in Nat /\ There <= Len(system.strings) /\ There <= system.battery_strings
  <2>1. PICK m \in Nat, n \in Nat : m = system.battery_strings /\ n = Len(system.strings)
    BY <1>2, <1>3
  <2>2. AtMost(m, n) \in Nat /\ AtMost(m, n) <= n /\ AtMost(m, n) <= m
    BY DEF AtMost
  <2>3. QED
    BY <2>1, <2>2 DEF There
<1>7. QED
  BY <1>2, <1>3, <1>4, <1>5, <1>6

(* The same of every state.                                                   *)
LEMMA SystemIs ==
  ASSUME DevTypeOK
  PROVE  /\ system.strings \in Seq(Nat \ {0}) /\ system.battery_strings \in Nat \ {0}
         /\ system.trackers \in Nat \ {0} /\ system.pvi_tracker \in Nat
         /\ system.pm_indexes \in Seq(Nat) /\ system.wb_indexes \in Seq(Nat)
         /\ Len(system.strings) \in Nat /\ Len(system.pm_indexes) \in Nat
         /\ Wbs \in Nat /\ Pvs \in {0, 1} /\ Pms \in Nat /\ Others \in Nat
         /\ Pms <= Len(system.pm_indexes) /\ Others = Wbs + Pvs + Pms
         /\ There \in Nat /\ There <= Len(system.strings) /\ There <= system.battery_strings
<1>1. system \in Systems
  BY DEF DevTypeOK
<1>2. QED
  BY <1>1, SystemHas

(* A function on 1..n is a sequence of length n.                              *)
LEMMA MadeSeq ==
  ASSUME NEW n \in Nat, NEW S, NEW f, f = [i \in 1..n |-> f[i]], \A i \in 1..n : f[i] \in S
  PROVE  f \in Seq(S) /\ Len(f) = n
<1>1. f \in [1..n -> S]
  OBVIOUS
<1>2. QED
  BY <1>1

(* The requests of createRequest, in their order.                             *)
LEMMA RequestsFit ==
  ASSUME DevTypeOK
  PROVE  /\ Requests \in Seq({Requests[i] : i \in DOMAIN Requests})
         /\ Len(Requests) = battery_strings + Others /\ Len(Requests) \in Nat
         /\ \A i \in 1..Len(Requests) : Fits(Requests[i], Len(Requests) - i, battery_strings, new)
         /\ \A i \in 1..battery_strings : Requests[i] = BatRequest(i - 1)
         /\ \A i \in 0..(battery_strings - 1) : BatRequest(i) \in BatType
<1> DEFINE a == [i \in 1..battery_strings |-> BatRequest(i - 1)]
           b == IF requests.pm
                THEN [i \in 1..Len(system.pm_indexes) |->
                        [kind |-> "pm", index |-> system.pm_indexes[i]]]
                ELSE <<>>
           c == IF requests.pvi THEN <<PviRequest>> ELSE <<>>
           d == [i \in 1..Len(system.wb_indexes) |->
                   [kind |-> "wb", index |-> system.wb_indexes[i]]]
           S == {a[i] : i \in DOMAIN a} \union {b[i] : i \in DOMAIN b}
                  \union {c[i] : i \in DOMAIN c} \union {d[i] : i \in DOMAIN d}
<1>1. Requests = a \o b \o c \o d
  BY DEF Requests
<1>2. a \in Seq(S) /\ Len(a) = battery_strings
  <2>1. battery_strings \in Nat /\ DOMAIN a = 1..battery_strings
    BY DEF DevTypeOK
  <2>2. a = [i \in 1..battery_strings |-> a[i]]
    OBVIOUS
  <2> HIDE DEF a, b, c, d
  <2>3. \A i \in 1..battery_strings : a[i] \in S
    BY <2>1
  <2> HIDE DEF S
  <2>4. QED
    BY <2>1, <2>2, <2>3, MadeSeq
<1>3. b \in Seq(S) /\ Len(b) = Pms /\ \A i \in 1..Pms :
        b[i] = [kind |-> "pm", index |-> system.pm_indexes[i]]
  <2>1. CASE requests.pm
    <3>1. /\ Pms \in Nat /\ DOMAIN b = 1..Pms /\ b = [i \in 1..Pms |-> b[i]]
          /\ \A i \in 1..Pms : b[i] = [kind |-> "pm", index |-> system.pm_indexes[i]]
      BY <2>1, SystemIs DEF Pms
    <3> HIDE DEF a, b, c, d
    <3>2. \A i \in 1..Pms : b[i] \in S
      BY <3>1
    <3> HIDE DEF S
    <3>3. QED
      BY <3>1, <3>2, MadeSeq
  <2>2. CASE ~requests.pm
    <3>1. b = <<>> /\ Pms = 0
      BY <2>2 DEF Pms
    <3> HIDE DEF a, b, c, d, S
    <3>2. QED
      BY <3>1
  <2>3. QED
    BY <2>1, <2>2
<1>4. c \in Seq(S) /\ Len(c) = Pvs /\ \A i \in 1..Pvs : c[i] = PviRequest
  <2>1. CASE requests.pvi
    <3>1. c = <<PviRequest>> /\ Pvs = 1 /\ DOMAIN c = 1..1
      BY <2>1 DEF Pvs
    <3> HIDE DEF a, b, c, d
    <3>2. PviRequest \in S
      BY <3>1
    <3> HIDE DEF S
    <3>3. QED
      BY <3>1, <3>2
  <2>2. CASE ~requests.pvi
    <3>1. c = <<>> /\ Pvs = 0
      BY <2>2 DEF Pvs
    <3> HIDE DEF a, b, c, d, S
    <3>2. QED
      BY <3>1
  <2>3. QED
    BY <2>1, <2>2
<1>5. d \in Seq(S) /\ Len(d) = Wbs /\ \A i \in 1..Wbs :
        d[i] = [kind |-> "wb", index |-> system.wb_indexes[i]]
  <2>1. /\ Wbs \in Nat /\ DOMAIN d = 1..Wbs /\ d = [i \in 1..Wbs |-> d[i]]
        /\ \A i \in 1..Wbs : d[i] = [kind |-> "wb", index |-> system.wb_indexes[i]]
    BY SystemIs DEF Wbs
  <2> HIDE DEF a, b, c, d
  <2>2. \A i \in 1..Wbs : d[i] \in S
    BY <2>1
  <2> HIDE DEF S
  <2>3. QED
    BY <2>1, <2>2, MadeSeq
<1>6. \A i \in 1..battery_strings : a[i] = BatRequest(i - 1)
  OBVIOUS
<1>7. \A i \in 0..(battery_strings - 1) :
        BatRequest(i) \in BatType /\ BatRequest(i).index = i /\ BatRequest(i).spec = new
  <2> TAKE i \in 0..(battery_strings - 1)
  <2>1. bat_dcb_count[i] \in Nat /\ i \in Nat /\ new \in BOOLEAN
    <3>1. /\ bat_dcb_count \in [0..(system.battery_strings - 1) -> Nat]
          /\ battery_strings \in Nat /\ battery_strings <= system.battery_strings
          /\ system.battery_strings \in Nat /\ new \in BOOLEAN
      BY SystemIs DEF DevTypeOK
    <3>2. i \in 0..(system.battery_strings - 1) /\ i \in Nat
      BY <3>1
    <3>3. QED
      BY <3>1, <3>2
  <2>2. QED
    BY <2>1 DEF BatRequest, BatType
<1>8. PviRequest.kind = "pv" /\ PviRequest.count \in BOOLEAN /\ PviRequest.trackers \in Nat
  BY DEF PviRequest, DevTypeOK
<1> HIDE DEF a, b, c, d, S
<1>9. PICK all : all = a \o b \o c \o d
  OBVIOUS
<1>10. /\ all \in Seq(S) /\ Len(all) = battery_strings + Pms + Pvs + Wbs
       /\ \A i \in 1..Len(all) :
            /\ Len(all) - i < Wbs => all[i] = d[Wbs - (Len(all) - i)]
            /\ Wbs <= Len(all) - i /\ Len(all) - i < Wbs + Pvs =>
                 all[i] = c[Wbs + Pvs - (Len(all) - i)]
            /\ Wbs + Pvs <= Len(all) - i /\ Len(all) - i < Wbs + Pvs + Pms =>
                 all[i] = b[Wbs + Pvs + Pms - (Len(all) - i)]
            /\ Wbs + Pvs + Pms <= Len(all) - i => all[i] = a[i]
  <2>1. /\ all \in Seq(S) /\ Len(all) = Len(a) + Len(b) + Len(c) + Len(d)
        /\ \A i \in 1..Len(all) :
             /\ Len(all) - i < Len(d) => all[i] = d[Len(d) - (Len(all) - i)]
             /\ Len(d) <= Len(all) - i /\ Len(all) - i < Len(d) + Len(c) =>
                  all[i] = c[Len(d) + Len(c) - (Len(all) - i)]
             /\ Len(d) + Len(c) <= Len(all) - i /\ Len(all) - i < Len(d) + Len(c) + Len(b) =>
                  all[i] = b[Len(d) + Len(c) + Len(b) - (Len(all) - i)]
             /\ Len(d) + Len(c) + Len(b) <= Len(all) - i => all[i] = a[i]
    <3>1. a \in Seq(S) /\ b \in Seq(S) /\ c \in Seq(S) /\ d \in Seq(S)
      BY <1>2, <1>3, <1>4, <1>5
    <3>2. all \in Seq(S) /\ Len(all) = Len(a) + Len(b) + Len(c) + Len(d)
      BY <1>9, <3>1, FourParts
    <3>3. ASSUME NEW i \in 1..Len(all)
          PROVE  /\ Len(all) - i < Len(d) => all[i] = d[Len(d) - (Len(all) - i)]
                 /\ Len(d) <= Len(all) - i /\ Len(all) - i < Len(d) + Len(c) =>
                      all[i] = c[Len(d) + Len(c) - (Len(all) - i)]
                 /\ Len(d) + Len(c) <= Len(all) - i
                      /\ Len(all) - i < Len(d) + Len(c) + Len(b) =>
                      all[i] = b[Len(d) + Len(c) + Len(b) - (Len(all) - i)]
                 /\ Len(d) + Len(c) + Len(b) <= Len(all) - i => all[i] = a[i]
      BY <1>9, <3>1, FourParts
    <3>4. QED
      BY <3>2, <3>3
  <2>2. QED
    BY <1>2, <1>3, <1>4, <1>5, <2>1
<1>11. battery_strings \in Nat \ {0} /\ Wbs \in Nat /\ Pvs \in Nat /\ Pms \in Nat
       /\ Others = Wbs + Pvs + Pms
  BY SystemIs DEF DevTypeOK
<1>12. ASSUME NEW i \in 1..Len(all)
       PROVE  Fits(all[i], Len(all) - i, battery_strings, new)
  <2> DEFINE behind == Len(all) - i
  <2>1. behind \in Nat
    BY <1>10, <1>11
  <2>2. behind < Wbs => all[i] = [kind |-> "wb", index |-> system.wb_indexes[Wbs - behind]]
    BY <1>5, <1>10, <1>11, <2>1
  <2>3. Wbs <= behind /\ behind < Wbs + Pvs => all[i] = PviRequest
    <3>1. SUFFICES ASSUME Wbs <= behind, behind < Wbs + Pvs PROVE all[i] = PviRequest
      OBVIOUS
    <3>2. all[i] = c[Wbs + Pvs - behind] /\ Wbs + Pvs - behind \in 1..Pvs
      BY <1>10, <1>11, <2>1, <3>1
    <3>3. QED
      BY <1>4, <3>2
  <2>4. Wbs + Pvs <= behind /\ behind < Others =>
          all[i] = [kind |-> "pm", index |-> system.pm_indexes[Others - behind]]
    BY <1>3, <1>10, <1>11, <2>1
  <2>5. Others <= behind =>
          /\ all[i] = BatRequest(i - 1) /\ i - 1 \in 0..(battery_strings - 1)
          /\ i - 1 = battery_strings - 1 - (behind - Others)
    <3>1. SUFFICES ASSUME Others <= behind PROVE /\ all[i] = BatRequest(i - 1)
                                                /\ i - 1 \in 0..(battery_strings - 1)
                                                /\ i - 1 = battery_strings - 1 - (behind - Others)
      OBVIOUS
    <3>2. all[i] = a[i] /\ i \in 1..battery_strings
      BY <1>10, <1>11, <2>1, <3>1
    <3>3. a[i] = BatRequest(i - 1) /\ i - 1 \in 0..(battery_strings - 1)
      <4>1. a[i] = BatRequest(i - 1)
        BY <1>6, <3>2
      <4>2. i - 1 \in 0..(battery_strings - 1)
        BY <1>11, <3>2
      <4>3. QED
        BY <4>1, <4>2
    <3>4. i - 1 = battery_strings - 1 - (behind - Others)
      BY <1>10, <1>11, <2>1
    <3>5. QED
      BY <3>2, <3>3, <3>4
  <2> HIDE DEF behind
  <2>6. Fits(all[i], behind, battery_strings, new)
    BY <1>7, <1>8, <2>2, <2>3, <2>4, <2>5 DEF Fits
  <2>7. QED
    BY <2>6 DEF behind
<1>13. \A i \in 1..battery_strings : all[i] = BatRequest(i - 1)
  <2> TAKE i \in 1..battery_strings
  <2>1. i \in 1..Len(all) /\ Wbs + Pvs + Pms <= Len(all) - i
    BY <1>10, <1>11
  <2>2. all[i] = a[i]
    BY <1>10, <2>1
  <2>3. QED
    BY <1>6, <2>2
<1>14. all \in Seq({all[i] : i \in DOMAIN all}) /\ Len(all) \in Nat
  BY <1>10
<1>15. all = Requests
  BY <1>1, <1>9
<1>16. \A i \in 0..(battery_strings - 1) : BatRequest(i) \in BatType
  BY <1>7
<1>17. Len(all) = battery_strings + Others
  BY <1>10, <1>11
<1>18. QED
  BY <1>12, <1>13, <1>14, <1>15, <1>16, <1>17

(* What is known of the next request of the frame, and of what is left then.  *)
Taken(T, spec, r) ==
  /\ r = frame[1] /\ Len(frame) \in Nat \ {0} /\ Len(frame') = Len(frame) - 1
  /\ \A i \in 1..Len(frame') : frame'[i] = frame[i + 1]
  /\ frame' \in Seq({frame'[i] : i \in DOMAIN frame'})
  /\ \A i \in 1..Len(frame') : Fits(frame'[i], Len(frame') - i, T, spec)
  /\ LeftBat \in Nat /\ LeftBat' \in Nat /\ LeftBat <= T
  /\ \A k \in Plain : Left(k) \in Nat /\ Left(k)' \in Nat
  /\ r.kind \in {"bat", "pv", "pm", "wb"}
  /\ r.kind = "bat" => /\ r \in BatType /\ r.spec = spec /\ r.index = T - LeftBat
                       /\ LeftBat = LeftBat' + 1 /\ LeftBat = Len(frame) - Others
                       /\ \A k \in Plain : Left(k)' = Left(k)
  /\ r.kind = "pv" => /\ LeftBat' = LeftBat /\ \A k \in Plain : Left(k)' = Left(k)
                      /\ r.count \in BOOLEAN /\ r.trackers \in Nat
  /\ \A k \in Plain : r.kind = k =>
       /\ r = [kind |-> k, index |-> Indexes(k)[InFrame(k) - Left(k) + 1]]
       /\ Left(k) = Left(k)' + 1 /\ Left(k) <= InFrame(k)
       /\ LeftBat' = LeftBat /\ \A j \in Plain \ {k} : Left(j)' = Left(j)

(* It is known of every frame that fits.                                      *)
LEMMA HeadTaken ==
  ASSUME DevTypeOK, NEW T \in Nat, NEW spec \in BOOLEAN, FrameFits(T, spec), frame # <<>>,
         frame' = Tail(frame), UNCHANGED <<system, requests>>,
         NEW r, r = Head(frame)
  PROVE  Taken(T, spec, r)
<1>1. /\ Wbs \in Nat /\ Pvs \in {0, 1} /\ Pms \in Nat /\ Others = Wbs + Pvs + Pms
      /\ Wbs' = Wbs /\ Pvs' = Pvs /\ Pms' = Pms /\ Others' = Others
  BY SystemIs DEF Wbs, Pvs, Pms, Others
<1>2. /\ Len(frame) \in Nat \ {0} /\ Len(frame') = Len(frame) - 1 /\ r = frame[1]
      /\ \A i \in 1..Len(frame') : frame'[i] = frame[i + 1]
  BY DEF FrameFits
<1>3. frame' \in Seq({frame'[i] : i \in DOMAIN frame'})
  <2>1. PICK S : frame \in Seq(S)
    BY DEF FrameFits
  <2>2. PICK g : g = Tail(frame)
    OBVIOUS
  <2>3. g \in Seq(S) /\ frame' = g
    BY <2>1, <2>2
  <2>4. PICK n \in Nat : n = Len(g)
    BY <2>3
  <2>5. DOMAIN g = 1..n /\ g = [i \in 1..n |-> g[i]]
    BY <2>3, <2>4
  <2>6. \A i \in 1..n : g[i] \in {g[j] : j \in DOMAIN g}
    BY <2>5
  <2>7. g \in Seq({g[j] : j \in DOMAIN g})
    BY <2>5, <2>6, MadeSeq
  <2>8. QED
    BY <2>3, <2>7
<1>4. PICK q \in Nat \ {0} : q = Len(frame) /\ Len(frame') = q - 1
  BY <1>2
<1>5. ASSUME NEW i \in 1..Len(frame')  PROVE Fits(frame'[i], Len(frame') - i, T, spec)
  <2>1. i + 1 \in 1..Len(frame) /\ Len(frame') - i = Len(frame) - (i + 1)
    BY <1>2
  <2>2. Fits(frame[i + 1], Len(frame) - (i + 1), T, spec)
    BY <2>1 DEF FrameFits
  <2>3. QED
    BY <1>2, <2>1, <2>2
<1>6. Fits(r, q - 1, T, spec)
  BY <1>2, <1>4 DEF FrameFits
<1>7. /\ LeftBat = (IF q <= Others THEN 0 ELSE q - Others)
      /\ LeftBat' = (IF q - 1 <= Others THEN 0 ELSE q - 1 - Others)
  BY <1>1, <1>4 DEF LeftBat
<1>8. /\ Left("wb") = AtMost(q, Wbs) /\ Left("wb")' = AtMost(q - 1, Wbs)
      /\ Left("pm") = (IF q <= Wbs + Pvs THEN 0 ELSE AtMost(q - Wbs - Pvs, Pms))
      /\ Left("pm")' = (IF q - 1 <= Wbs + Pvs THEN 0 ELSE AtMost(q - 1 - Wbs - Pvs, Pms))
  BY <1>1, <1>4 DEF Left, AtMost
<1>9. q <= T + Others
  BY <1>4 DEF FrameFits
<1>10. /\ LeftBat \in Nat /\ LeftBat' \in Nat /\ LeftBat <= T
       /\ \A k \in Plain : Left(k) \in Nat /\ Left(k)' \in Nat
  BY <1>1, <1>7, <1>8, <1>9 DEF AtMost, Plain
<1>11. CASE Others <= q - 1
  <2>1. r \in BatType /\ r.index = T - 1 - (q - 1 - Others) /\ r.spec = spec
    BY <1>6, <1>11 DEF Fits
  <2>2. r.kind = "bat"
    BY <2>1 DEF BatType
  <2>3. LeftBat = q - Others /\ LeftBat' = q - 1 - Others
    BY <1>1, <1>7, <1>11
  <2>4. \A k \in Plain : Left(k)' = Left(k)
    BY <1>1, <1>8, <1>11 DEF Plain, AtMost
  <2>5. r.index = T - LeftBat /\ LeftBat = LeftBat' + 1 /\ LeftBat = Len(frame) - Others
    BY <1>1, <1>4, <2>1, <2>3
  <2>6. QED
    BY <1>2, <1>3, <1>5, <1>10, <2>1, <2>2, <2>4, <2>5 DEF Plain, Taken
<1>12. CASE q - 1 < Wbs
  <2>1. r = [kind |-> "wb", index |-> system.wb_indexes[Wbs - (q - 1)]]
    BY <1>6, <1>12 DEF Fits
  <2>2. /\ Left("wb") = q /\ Left("wb")' = q - 1 /\ Left("pm") = 0 /\ Left("pm")' = 0
        /\ LeftBat = 0 /\ LeftBat' = 0
    BY <1>1, <1>7, <1>8, <1>12 DEF AtMost
  <2>3. InFrame("wb") = Wbs /\ Indexes("wb") = system.wb_indexes
    BY DEF InFrame, Indexes
  <2>4. Wbs - (q - 1) = InFrame("wb") - Left("wb") + 1
    BY <1>1, <2>2, <2>3
  <2>5. /\ r = [kind |-> "wb", index |-> Indexes("wb")[InFrame("wb") - Left("wb") + 1]]
        /\ r.kind = "wb"
    BY <2>1, <2>3, <2>4
  <2>6. /\ Left("wb") = Left("wb")' + 1 /\ Left("wb") <= InFrame("wb")
        /\ Left("pm")' = Left("pm") /\ LeftBat' = LeftBat
    BY <1>1, <1>12, <2>2, <2>3
  <2>7. QED
    BY <1>2, <1>3, <1>5, <1>10, <2>5, <2>6 DEF Plain, Taken
<1>13. CASE Wbs <= q - 1 /\ q - 1 < Wbs + Pvs
  <2>1. r.kind = "pv" /\ r.count \in BOOLEAN /\ r.trackers \in Nat
    BY <1>6, <1>13 DEF Fits
  <2>2. /\ Left("wb") = Left("wb")' /\ Left("pm") = 0 /\ Left("pm")' = 0
        /\ LeftBat = 0 /\ LeftBat' = 0
    BY <1>1, <1>7, <1>8, <1>13 DEF AtMost
  <2>3. QED
    BY <1>2, <1>3, <1>5, <1>10, <2>1, <2>2 DEF Plain, Taken
<1>14. CASE Wbs + Pvs <= q - 1 /\ q - 1 < Others
  <2>1. r = [kind |-> "pm", index |-> system.pm_indexes[Others - (q - 1)]]
    BY <1>6, <1>14 DEF Fits
  <2>2. /\ Left("pm") = q - Wbs - Pvs /\ Left("pm")' = q - 1 - Wbs - Pvs
        /\ Left("wb") = Left("wb")' /\ LeftBat = 0 /\ LeftBat' = 0
    BY <1>1, <1>7, <1>8, <1>14 DEF AtMost
  <2>3. InFrame("pm") = Pms /\ Indexes("pm") = system.pm_indexes
    BY DEF InFrame, Indexes
  <2>4. Others - (q - 1) = InFrame("pm") - Left("pm") + 1
    BY <1>1, <2>2, <2>3
  <2>5. /\ r = [kind |-> "pm", index |-> Indexes("pm")[InFrame("pm") - Left("pm") + 1]]
        /\ Left("pm") = Left("pm")' + 1 /\ Left("pm") <= InFrame("pm")
        /\ Left("wb")' = Left("wb") /\ LeftBat' = LeftBat /\ r.kind = "pm"
    BY <1>1, <1>14, <2>1, <2>2, <2>3, <2>4
  <2>6. QED
    BY <1>2, <1>3, <1>5, <1>10, <2>5 DEF Plain, Taken
<1>15. \/ q - 1 < Wbs \/ (Wbs <= q - 1 /\ q - 1 < Wbs + Pvs)
       \/ (Wbs + Pvs <= q - 1 /\ q - 1 < Others) \/ Others <= q - 1
  BY <1>1
<1>16. QED
  BY <1>15, <1>11, <1>12, <1>13, <1>14

(* Once everything in the frame is answered, no number is awaited.            *)
LEMMA NothingAwaited ==
  ASSUME DevTypeOK, FrameOK, pc = "answers" => frame = <<>>,
         NEW k \in Counted, k \notin mixed, NEW c \in Nat
  PROVE  ~Awaited(k, c)
<1>1. CASE pc # "answers"
  BY <1>1 DEF Awaited
<1>2. CASE pc = "answers"
  <2>1. PICK T \in Nat, spec \in BOOLEAN : FrameFits(T, spec)
    BY <1>2 DEF FrameOK
  <2>2. Len(frame) = 0
    BY <1>2
  <2>3. /\ Wbs \in Nat /\ Pvs \in {0, 1} /\ Pms \in Nat /\ Others \in Nat
        /\ There \in Nat /\ Len(system.strings) \in Nat /\ There <= Len(system.strings)
    BY SystemIs
  <2>4. LeftBat = 0
    BY <2>2, <2>3 DEF LeftBat
  <2>5. Left("wb") = 0 /\ Left("pm") = 0
    BY <2>2, <2>3 DEF Left, AtMost
  <2>6. CASE k = "bat"
    <3>1. nr["bat"] = AtMost(T, Len(system.strings)) /\ There <= T
      BY <2>1, <2>4, <2>6, <2>3 DEF FrameFits
    <3>2. There <= nr["bat"]
      BY <2>3, <3>1 DEF AtMost
    <3>3. QED
      BY <2>3, <2>6, <3>1, <3>2 DEF Awaited, AtMost
  <2>7. CASE k \in Plain
    <3>1. nr[k] = InFrame(k)
      BY <1>2, <2>3, <2>5, <2>7 DEF FrameOK, Plain, InFrame
    <3>2. QED
      BY <2>3, <2>7, <3>1 DEF Awaited, InFrame, Plain
  <2>8. QED
    BY <2>6, <2>7 DEF Counted, Plain
<1>3. QED
  BY <1>1, <1>2

(* What waits for no answer disturbs nothing.                                 *)
LEMMA QuietStep ==
  ASSUME DevInv, pc' \in {"idle", "sent"}, pc = "answers" => frame = <<>>,
         UNCHANGED <<system, new, learned, nr, cache, raw, mixed>>,
         requests' \in [dcb : BOOLEAN, pm : BOOLEAN, pvi : BOOLEAN], FrameOK'
  PROVE  DevInv'
<1>1. DevTypeOK /\ FrameOK /\ TopicsOK
  BY DEF DevInv
<1>2. There' = There /\ pc' # "answers"
  BY DEF There, AtMost
<1>3. DevTypeOK'
  BY <1>1, <1>2 DEF DevTypeOK, learned, raw
<1>4. \A k : TopicLimit(k)' = TopicLimit(k)
  BY DEF TopicLimit
<1>5. TopicsOK'
  BY <1>1, <1>4 DEF TopicsOK, cache
<1>6. \A k \in Counted : PlainOK(k) => PlainOK(k)'
  <2> TAKE k \in Counted
  <2>1. \A c \in Nat : k \notin mixed => ~Awaited(k, c)
    BY <1>1, NothingAwaited
  <2>2. \A c, t : DeviceOf(k, t)' = DeviceOf(k, t)
    BY DEF DeviceOf, StringWith, Before
  <2>3. rawData[k] \in Seq(Device)
    BY <1>1 DEF DevTypeOK
  <2>4. \A i \in DOMAIN rawData[k] : i - 1 \in Nat
    BY <2>3
  <2>5. QED
    BY <1>2, <1>4, <2>1, <2>2, <2>4 DEF PlainOK, cache, raw
<1>7. PlainOK("pm")' /\ PlainOK("wb")' /\ PlainOK("bat")'
  BY <1>6 DEF DevInv, BatsOK, Counted
<1>8. BatsOK'
  BY <1>2, <1>7 DEF DevInv, BatsOK, cache, raw
<1>9. PvOK'
  BY DEF DevInv, PvOK, cache
<1>10. ASSUME CountsOK, ModulesOK PROVE CountsOK' /\ ModulesOK'
  <2>1. CountsOK'
    BY <1>2, <1>10 DEF CountsOK, learned, First
  <2>2. \A j : pc = "answers" => ~Asking(j)
    BY DEF Asking
  <2>3. \A c : StringOf(c)' = StringOf(c) /\ First(StringOf(c))' = First(StringOf(c))
    BY DEF StringOf, First
  <2>4. ModulesOK'
    BY <1>2, <1>10, <2>2, <2>3 DEF ModulesOK, cache
  <2>5. QED
    BY <2>1, <2>4
<1>11. QED
  BY <1>3, <1>5, <1>7, <1>8, <1>9, <1>10 DEF DevInv

(* What the first frame part of an answer finds.                              *)
LEMMA WholeFrame ==
  ASSUME DevTypeOK, frame = Requests
  PROVE  /\ LeftBat = battery_strings
         /\ \A k \in Plain : Left(k) = InFrame(k)
         /\ \A i \in 1..Len(frame) : frame[i].kind = "bat" =>
              /\ frame[i].index \in 0..(battery_strings - 1)
              /\ frame[i] = BatRequest(frame[i].index)
         /\ \A i \in 1..Len(frame) : frame[i].kind \in {"bat", "pv", "pm", "wb"}
         /\ "bat" \in Renewed
         /\ ~requests.pm => "pm" \notin Renewed
         /\ Renewed \subseteq {"bat", "pv", "pm", "wb", "dcb"}
<1>1. /\ Len(frame) = battery_strings + Others /\ frame \in Seq({frame[i] : i \in DOMAIN frame})
      /\ \A i \in 1..Len(frame) : Fits(frame[i], Len(frame) - i, battery_strings, new)
      /\ \A i \in 1..battery_strings : frame[i] = BatRequest(i - 1)
  BY RequestsFit
<1>2. /\ Wbs \in Nat /\ Pvs \in {0, 1} /\ Pms \in Nat /\ Others \in Nat
      /\ Others = Wbs + Pvs + Pms /\ battery_strings \in Nat \ {0}
  BY SystemIs DEF DevTypeOK
<1>3. LeftBat = battery_strings
  BY <1>1, <1>2 DEF LeftBat
<1>4. Left("wb") = Wbs /\ Left("pm") = Pms
  BY <1>1, <1>2 DEF Left, AtMost
<1>5. \A k \in Plain : Left(k) = InFrame(k)
  BY <1>4 DEF Plain, InFrame
<1>6. ASSUME NEW i \in 1..Len(frame)
      PROVE  /\ frame[i].kind \in {"bat", "pv", "pm", "wb"}
             /\ frame[i].kind = "bat" => Others <= Len(frame) - i
             /\ frame[i].kind = "pm" => Pms > 0
  <2>1. PICK b \in Nat : b = Len(frame) - i
    BY <1>1, <1>2
  <2>2. Fits(frame[i], b, battery_strings, new)
    BY <1>1, <2>1
  <2>3. \/ b < Wbs \/ (Wbs <= b /\ b < Wbs + Pvs)
        \/ (Wbs + Pvs <= b /\ b < Others) \/ Others <= b
    BY <1>2
  <2>4. CASE b < Wbs
    <3>1. frame[i].kind = "wb"
      BY <2>2, <2>4 DEF Fits
    <3>2. QED
      BY <3>1
  <2>5. CASE Wbs <= b /\ b < Wbs + Pvs
    <3>1. frame[i].kind = "pv"
      BY <2>2, <2>5 DEF Fits
    <3>2. QED
      BY <3>1
  <2>6. CASE Wbs + Pvs <= b /\ b < Others
    <3>1. frame[i].kind = "pm"
      BY <2>2, <2>6 DEF Fits
    <3>2. Pms > 0
      BY <1>2, <2>6
    <3>3. QED
      BY <3>1, <3>2
  <2>7. CASE Others <= b
    <3>1. frame[i] \in BatType
      BY <2>2, <2>7 DEF Fits
    <3>2. frame[i].kind = "bat"
      BY <3>1 DEF BatType
    <3>3. QED
      BY <2>1, <2>7, <3>2
  <2>8. QED
    BY <2>3, <2>4, <2>5, <2>6, <2>7
<1>7. ASSUME NEW i \in 1..Len(frame), frame[i].kind = "bat"
      PROVE  /\ frame[i].index \in 0..(battery_strings - 1)
             /\ frame[i] = BatRequest(frame[i].index)
  <2>0. Others <= Len(frame) - i /\ i \in Nat \ {0}
    BY <1>6, <1>7
  <2>1. i \in 1..battery_strings
    BY <1>1, <1>2, <2>0
  <2>2. frame[i] = BatRequest(i - 1)
    BY <1>1, <2>1
  <2>3. frame[i].index = i - 1
    BY <2>2 DEF BatRequest
  <2>4. QED
    BY <1>2, <2>1, <2>2, <2>3
<1>8. "bat" \in Renewed
  <2>1. 1 \in DOMAIN frame /\ 1 \in 1..battery_strings
    BY <1>1, <1>2
  <2>2. frame[1].kind = "bat"
    <3>1. frame[1] = BatRequest(1 - 1)
      BY <1>1, <2>1
    <3>2. BatRequest(1 - 1).kind = "bat"
      BY DEF BatRequest
    <3>3. QED
      BY <3>1, <3>2
  <2>3. QED
    BY <2>1, <2>2 DEF Renewed
<1>9. Renewed \subseteq {"bat", "pv", "pm", "wb", "dcb"}
  BY <1>1, <1>6 DEF Renewed
<1>10. ~requests.pm => "pm" \notin Renewed
  BY <1>1, <1>6 DEF Renewed, Pms
<1>11. QED
  BY <1>3, <1>5, <1>6, <1>7, <1>8, <1>9, <1>10

(* The answer to a frame begins.                                              *)
LEMMA ArriveStep ==
  ASSUME DevInv, Arrive
  PROVE  DevInv'
<1>1. DevTypeOK /\ FrameOK /\ TopicsOK /\ pc = "sent" /\ pc' = "answers" /\ frame = Requests
  BY DEF DevInv, Arrive, FrameOK
<1>2. /\ LeftBat = battery_strings /\ \A k \in Plain : Left(k) = InFrame(k)
      /\ \A i \in 1..Len(frame) : frame[i].kind = "bat" =>
           /\ frame[i].index \in 0..(battery_strings - 1)
           /\ frame[i] = BatRequest(frame[i].index)
      /\ "bat" \in Renewed /\ Renewed \subseteq {"bat", "pv", "pm", "wb", "dcb"}
      /\ ~requests.pm => "pm" \notin Renewed
  BY <1>1, WholeFrame
<1>3. /\ There' = There /\ LeftBat' = LeftBat /\ Wbs' = Wbs /\ Pvs' = Pvs /\ Pms' = Pms
      /\ Others' = Others /\ system' = system /\ frame' = frame /\ requests' = requests
      /\ battery_strings' = battery_strings /\ shown' = shown /\ topic' = topic
      /\ rawData' = rawData /\ bat_dcb_count' = bat_dcb_count /\ bat_dcb_start' = bat_dcb_start
      /\ nr' = [k \in Counted |-> 0] /\ handled' = nr' /\ mixed' = mixed \ Renewed
      /\ new' = FALSE /\ pvi_tracker' = pvi_tracker
  BY DEF Arrive, There, LeftBat, Wbs, Pvs, Pms, Others, AtMost, learned, cache
<1>4. \A k : TopicLimit(k)' = TopicLimit(k) /\ InFrame(k)' = InFrame(k) /\ Left(k)' = Left(k)
  BY <1>3 DEF TopicLimit, InFrame, Left, AtMost
<1>5. DevTypeOK'
  BY <1>1, <1>3 DEF DevTypeOK
<1>6. /\ Wbs \in Nat /\ Pvs \in {0, 1} /\ Pms \in Nat /\ Others \in Nat
      /\ Others = Wbs + Pvs + Pms /\ battery_strings \in Nat \ {0}
      /\ There \in Nat /\ There <= battery_strings /\ battery_strings <= system.battery_strings
      /\ Len(system.strings) \in Nat /\ There <= Len(system.strings)
      /\ system.battery_strings \in Nat
  BY <1>1, SystemIs DEF DevTypeOK
<1>7. FrameOK'
  <2>1. PICK T \in Nat, spec \in BOOLEAN : T = battery_strings /\ spec = new
    BY <1>1, <1>6 DEF DevTypeOK
  <2>2. /\ frame \in Seq({frame[i] : i \in DOMAIN frame})
        /\ Len(frame) = T + Others /\ Len(frame) \in Nat
        /\ \A i \in 1..Len(frame) : Fits(frame[i], Len(frame) - i, T, spec)
    BY <1>1, <2>1, RequestsFit
  <2>3. \A r, b : Fits(r, b, T, spec)' = Fits(r, b, T, spec)
    BY <1>3 DEF Fits
  <2>4. AtMost(T - LeftBat, Len(system.strings)) = 0
    BY <1>2, <1>6, <2>1 DEF AtMost
  <2>5. "bat" \notin mixed' /\ nr'["bat"] = 0
    BY <1>2, <1>3 DEF Counted
  <2>6. AtMost(T - LeftBat, Len(system.strings))' = 0
    BY <1>3, <2>4 DEF AtMost
  <2>7. T \in (There..system.battery_strings)' /\ (Len(frame) <= T + Others)'
    BY <1>3, <1>6, <2>1, <2>2
  <2>8. \A i \in 1..Len(frame) : Fits(frame[i], Len(frame) - i, T, spec)'
    <3> TAKE i \in 1..Len(frame)
    <3>1. PICK r, b : r = frame[i] /\ b = Len(frame) - i
      OBVIOUS
    <3>2. Fits(r, b, T, spec)'
      BY <2>2, <2>3, <3>1
    <3>3. frame'[i] = r /\ Len(frame') - i = b
      BY <1>3, <3>1
    <3>4. QED
      BY <3>2, <3>3
  <2>9. FrameFits(T, spec)'
    <3>1. (LeftBat > 0 =>
             battery_strings >= AtMost(T - LeftBat, Len(system.strings)) + LeftBat)'
      BY <1>2, <1>3, <1>6, <2>6
    <3>2. (\A i \in 1..Len(frame) : Fits(frame[i], Len(frame) - i, T, spec))'
      BY <1>3, <2>8
    <3>3. (frame \in Seq({frame[i] : i \in DOMAIN frame}))'
      BY <1>3, <2>2
    <3>4. (nr["bat"] <= AtMost(T - LeftBat, Len(system.strings)))'
      BY <2>5, <2>6
    <3>5. ("bat" \notin mixed => nr["bat"] = AtMost(T - LeftBat, Len(system.strings)))'
      BY <2>5, <2>6
    <3>6. QED
      BY <2>5, <2>7, <3>1, <3>2, <3>3, <3>4, <3>5 DEF FrameFits
  <2>10. \A k \in Plain : nr'[k] = 0 /\ InFrame(k)' - Left(k)' = 0
    BY <1>2, <1>3, <1>4, <1>6 DEF Plain, Counted, InFrame
  <2>11. QED
    BY <1>1, <2>9, <2>10 DEF FrameOK
<1>8. TopicsOK'
  BY <1>1, <1>3, <1>4 DEF TopicsOK
<1>9. \A k, t : DeviceOf(k, t)' = DeviceOf(k, t)
  BY <1>3 DEF DeviceOf, StringWith, Before
<1>10. /\ PlainOK("pm") /\ PlainOK("wb") /\ PlainOK("bat") /\ BatsOK /\ PvOK
  BY DEF DevInv, BatsOK
<1>11. \A k \in Counted : Len(rawData[k]) \in Nat /\ DOMAIN rawData[k] = 1..Len(rawData[k])
  BY <1>1 DEF DevTypeOK
<1>12. \A k \in Counted : \A c : Awaited(k, c) <=> FALSE
  BY <1>1 DEF Awaited
<1>13. \A k \in Counted, c \in Nat :
         Awaited(k, c)' <=> c < IF k = "bat" THEN There ELSE InFrame(k)
  BY <1>1, <1>3, <1>4 DEF Awaited
<1>14. PlainOK("bat")'
  <2>1. \A c \in Nat : (<<"bat", c>> \in DOMAIN shown /\ shown[<<"bat", c>>] # <<>>) =>
          Awaited("bat", c)'
    BY <1>6, <1>10, <1>13 DEF BatsOK, Counted
  <2>2. \A i \in DOMAIN rawData["bat"] : i - 1 \in Nat /\ i - 1 < There
    BY <1>6, <1>10, <1>11 DEF BatsOK, Counted
  <2>3. \A i \in DOMAIN rawData["bat"] : Awaited("bat", i - 1)'
    BY <1>13, <2>2 DEF Counted
  <2>4. nr'["bat"] <= Len(rawData'["bat"])
    BY <1>3, <1>11 DEF Counted
  <2>5. QED
    BY <1>3, <1>4, <1>10, <2>1, <2>3, <2>4 DEF PlainOK
<1>15. ASSUME NEW k \in Plain PROVE PlainOK(k)'
  <2>1. PlainOK(k) /\ k \in Counted /\ k # "bat"
    BY <1>10 DEF Plain, Counted
  <2>2. nr'[k] <= Len(rawData'[k]) /\ Len(rawData'[k]) <= TopicLimit(k)'
    BY <1>3, <1>4, <1>11, <2>1 DEF PlainOK
  <2>3. CASE InFrame(k) = TopicLimit(k)
    <3>1. \A c \in Nat : <<k, c>> \in DOMAIN shown => c < TopicLimit(k)
      BY <1>1 DEF TopicsOK, Plain
    <3>2. \A i \in DOMAIN rawData[k] : i - 1 \in Nat /\ i - 1 < TopicLimit(k)
      <4>1. TopicLimit(k) \in Nat
        BY <1>6, <2>3 DEF InFrame, Plain
      <4>2. QED
        BY <1>11, <2>1, <4>1 DEF PlainOK
    <3>3. \A c \in Nat : c < TopicLimit(k) => Awaited(k, c)'
      BY <1>13, <2>1, <2>3
    <3>4. \A c \in Nat : <<k, c>> \in DOMAIN shown => Awaited(k, c)'
      BY <3>1, <3>3
    <3>5. \A i \in DOMAIN rawData[k] : Awaited(k, i - 1)'
      BY <3>2, <3>3
    <3>6. QED
      BY <1>3, <2>2, <3>4, <3>5 DEF PlainOK
  <2>4. CASE InFrame(k) # TopicLimit(k)
    <3>1. k = "pm" /\ ~requests.pm
      BY <2>4 DEF Plain, InFrame, TopicLimit, Wbs, Pms
    <3>2. k \notin mixed' => k \notin mixed
      BY <1>2, <1>3, <3>1
    <3>3. QED
      BY <1>3, <1>9, <1>12, <2>1, <2>2, <3>2 DEF PlainOK
  <2>5. QED
    BY <2>3, <2>4
<1>16. BatsOK'
  <2>1. "spec" \notin mixed' => "spec" \notin mixed
    BY <1>2, <1>3
  <2>2. QED
    BY <1>3, <1>10, <1>14, <2>1 DEF BatsOK
<1>17. PvOK'
  BY <1>3, <1>10 DEF PvOK
<1>18. ASSUME CountsOK, ModulesOK, Len(system.strings) <= 2
       PROVE  CountsOK' /\ ModulesOK'
  <2>1. "bat" \notin mixed'
    BY <1>2, <1>3
  <2>2. \A j \in 0..(battery_strings - 1) : j \in 0..(system.battery_strings - 1)
    BY <1>6
  <2>3. ASSUME NEW i \in 1..Len(frame), frame[i].kind = "bat", frame[i].index < There
        PROVE  /\ frame[i].count <=> bat_dcb_count[frame[i].index] = 0
               /\ frame[i].count => frame[i].modules = 0
               /\ frame[i].modules > 0 => frame[i].modules = system.strings[frame[i].index + 1]
    <3>1. PICK j \in 0..(battery_strings - 1) : j = frame[i].index /\ frame[i] = BatRequest(j)
      BY <1>2, <2>3
    <3>2. /\ frame[i].count <=> bat_dcb_count[j] = 0
          /\ frame[i].modules = IF requests.dcb THEN bat_dcb_count[j] ELSE 0
      <4>1. /\ BatRequest(j).count = (bat_dcb_count[j] = 0)
            /\ BatRequest(j).modules = IF requests.dcb THEN bat_dcb_count[j] ELSE 0
        BY DEF BatRequest
      <4>2. QED
        BY <3>1, <4>1
    <3>3. bat_dcb_count[j] \in Nat
      BY <1>1, <2>2 DEF DevTypeOK
    <3>4. bat_dcb_count[j] > 0 => bat_dcb_count[j] = system.strings[j + 1]
      BY <1>18, <2>2 DEF CountsOK
    <3>5. PICK n \in Nat : n = bat_dcb_count[j]
      BY <3>3
    <3>6. /\ frame[i].count => frame[i].modules = 0
          /\ frame[i].modules > 0 => frame[i].modules = n /\ n > 0
      BY <3>2, <3>5
    <3>7. QED
      BY <3>1, <3>2, <3>4, <3>5, <3>6
  <2>4. nr'["bat"] = 0 /\ (First(0)' = First(0)) /\ \A j : First(j)' = First(j)
    BY <1>3 DEF Counted, First
  <2>5. CountsOK'
    <3>1. \A j \in 0..(system.battery_strings - 1) : bat_dcb_count'[j] > 0 =>
            j < There' /\ bat_dcb_count'[j] = system.strings[j + 1] /\ bat_dcb_start'[j] = First(j)'
      BY <1>3, <1>18, <2>4 DEF CountsOK
    <3>2. \A j \in 0..(nr'["bat"] - 1) : bat_dcb_count'[j] > 0
      BY <2>4
    <3>3. QED
      BY <1>3, <2>1, <2>3, <3>1, <3>2 DEF CountsOK
  <2>6. ASSUME NEW s \in Nat, s < There, "dcb" \in Renewed  PROVE Asking(s)'
    <3>1. s < battery_strings /\ s < Len(system.strings) /\ s \in 0..(battery_strings - 1)
      BY <1>6, <2>6
    <3>2. "dcb" \notin {r.kind : r \in {frame[i] : i \in DOMAIN frame}}
      <4>1. \A i \in 1..Len(frame) : frame[i].kind \in {"bat", "pv", "pm", "wb"}
        BY <1>1, WholeFrame
      <4>2. DOMAIN frame = 1..Len(frame)
        BY <1>1, RequestsFit
      <4>3. QED
        BY <4>1, <4>2
    <3>3. frame[s + 1].modules > 0
      BY <2>6, <3>1, <3>2 DEF Renewed
    <3>4. s + 1 \in 1..battery_strings /\ frame[s + 1] = BatRequest(s)
      <4>1. s + 1 \in 1..battery_strings
        BY <1>6, <3>1
      <4>2. QED
        BY <1>1, <4>1, RequestsFit
    <3>5. frame[s + 1].kind = "bat" /\ frame[s + 1].index = s
      BY <3>4 DEF BatRequest
    <3>6. s + 1 \in 1..Len(frame)
      BY <1>1, <1>6, <3>4, RequestsFit
    <3>7. QED
      BY <1>3, <3>3, <3>5, <3>6 DEF Asking
  <2>7. \A c \in Nat : StringOf(c)' = StringOf(c) /\ StringOf(c) \in Nat
                       /\ First(StringOf(c))' = First(StringOf(c))
    BY <1>3 DEF StringOf, First
  <2>8. "dcb" \notin mixed' => "dcb" \notin mixed \/ "dcb" \in Renewed
    BY <1>3
  <2>9. ASSUME NEW k \in {"dcb", "cell"}, NEW c \in Nat, "dcb" \notin mixed',
               <<k, c>> \in DOMAIN shown, shown[<<k, c>>] # <<>>
        PROVE  \/ shown[<<k, c>>] = <<<<"dcb", StringOf(c), c - First(StringOf(c))>>>>
               \/ Asking(StringOf(c))'
    <3>1. CASE "dcb" \notin mixed
      BY <1>1, <1>18, <2>9, <3>1 DEF ModulesOK
    <3>2. CASE "dcb" \in Renewed
      <4>1. StringOf(c) < There
        BY <1>18, <2>9 DEF ModulesOK
      <4>2. QED
        BY <2>6, <2>7, <3>2, <4>1
    <3>3. QED
      BY <2>8, <2>9, <3>1, <3>2
  <2>10. ModulesOK'
    <3>1. \A k \in {"dcb", "cell"}, c \in Nat : <<k, c>> \in DOMAIN shown =>
            /\ There > 0 /\ StringOf(c) < There
            /\ StringOf(c) = 1 => c - system.strings[1] < system.strings[2]
      BY <1>18 DEF ModulesOK
    <3>2. QED
      BY <1>1, <1>3, <2>7, <2>9, <3>1 DEF ModulesOK
  <2>11. QED
    BY <2>5, <2>10
<1>19. "counts" \notin mixed' => "counts" \notin mixed
  BY <1>2, <1>3
<1>20. QED
  BY <1>3, <1>5, <1>7, <1>8, <1>14, <1>15, <1>16, <1>17, <1>18, <1>19 DEF DevInv, Plain

(* storeResponseValue, entry by entry.                                        *)
LEMMA StoreIs ==
  ASSUME NEW vals, NEW topics, NEW s, s = Store(vals, topics)
  PROVE  /\ DOMAIN s = DOMAIN topics
         /\ \A e \in DOMAIN s : s[e] # <<>> =>
              \/ e \in DOMAIN vals /\ s[e] = <<vals[e]>>
              \/ e \notin DOMAIN vals /\ e \in DOMAIN shown /\ s[e] = shown[e]
  BY DEF Store

(* mergeRawData: the entry for the next number has the device.                *)
LEMMA MergedRaw ==
  ASSUME DevTypeOK, NEW k \in Counted, NEW d \in Device, MergeRaw(k, d),
         nr[k] <= Len(rawData[k])
  PROVE  /\ rawData' \in [Counted -> Seq(Device)]
         /\ handled' = [nr EXCEPT ![k] = @ + 1]
         /\ \A j \in Counted \ {k} : rawData'[j] = rawData[j]
         /\ Len(rawData'[k]) = IF nr[k] < Len(rawData[k]) THEN Len(rawData[k]) ELSE nr[k] + 1
         /\ \A i \in DOMAIN rawData'[k] :
              /\ i \in Nat \ {0}
              /\ i = nr[k] + 1 => rawData'[k][i] = d
              /\ i # nr[k] + 1 => i \in DOMAIN rawData[k] /\ rawData'[k][i] = rawData[k][i]
<1>1. /\ rawData \in [Counted -> Seq(Device)] /\ nr \in [Counted -> Nat] /\ handled = nr
  BY DEF DevTypeOK
<1>2. PICK s \in Seq(Device) : s = rawData[k]
  BY <1>1
<1>3. PICK n \in Nat : n = nr[k]
  BY <1>1
<1>4. CASE n < Len(s)
  <2>1. rawData' = [rawData EXCEPT ![k][n + 1] = d]
    BY <1>1, <1>2, <1>3, <1>4 DEF MergeRaw
  <2>2. /\ rawData'[k] = [s EXCEPT ![n + 1] = d]
        /\ \A j \in Counted \ {k} : rawData'[j] = rawData[j]
        /\ rawData' = [rawData EXCEPT ![k] = rawData'[k]]
    BY <1>1, <1>2, <2>1
  <2>3. PICK t : t = [s EXCEPT ![n + 1] = d]
    OBVIOUS
  <2>4. /\ t \in Seq(Device) /\ Len(t) = Len(s) /\ DOMAIN t = 1..Len(s)
        /\ \A i \in 1..Len(s) : t[i] = IF i = n + 1 THEN d ELSE s[i]
    <3>1. PICK m \in Nat : m = Len(s) /\ DOMAIN s = 1..m /\ n + 1 \in 1..m
      BY <1>2, <1>3, <1>4
    <3>2. \A i \in 1..m : s[i] \in Device
      BY <1>2, <3>1
    <3>3. DOMAIN t = 1..m /\ \A i \in 1..m : t[i] = IF i = n + 1 THEN d ELSE s[i]
      BY <2>3, <3>1
    <3>4. t = [i \in 1..m |-> t[i]] /\ \A i \in 1..m : t[i] \in Device
      BY <2>3, <3>1, <3>2, <3>3
    <3>5. QED
      BY <3>1, <3>3, <3>4, MadeSeq
  <2>5. rawData' \in [Counted -> Seq(Device)]
    BY <1>1, <2>2, <2>3, <2>4
  <2>6. QED
    BY <1>1, <1>2, <1>3, <1>4, <2>2, <2>3, <2>4, <2>5 DEF MergeRaw
<1>5. CASE ~(n < Len(s))
  <2>1. rawData' = [rawData EXCEPT ![k] = Append(s, d)] /\ Len(s) = n
    BY <1>1, <1>2, <1>3, <1>5 DEF MergeRaw
  <2>2. PICK t : t = Append(s, d)
    OBVIOUS
  <2>3. /\ t \in Seq(Device) /\ Len(t) = n + 1 /\ DOMAIN t = 1..(n + 1) /\ DOMAIN s = 1..n
        /\ t[n + 1] = d /\ \A i \in 1..n : t[i] = s[i]
    BY <1>2, <2>1, <2>2
  <2>4. rawData'[k] = t /\ \A j \in Counted \ {k} : rawData'[j] = rawData[j]
    BY <1>1, <2>1, <2>2
  <2>5. rawData' \in [Counted -> Seq(Device)]
    BY <1>1, <2>1, <2>2, <2>3
  <2>6. QED
    BY <1>1, <1>2, <1>3, <1>5, <2>1, <2>3, <2>4, <2>5 DEF MergeRaw
<1>6. QED
  BY <1>4, <1>5

(* How many of a counted kind a frame will have.                              *)
Bound(k) == IF k = "bat" THEN There ELSE InFrame(k)

(* The answer of a device that is counted keeps what is shown in its place.   *)
LEMMA CountedAnswer ==
  ASSUME DevTypeOK, \A j \in Counted : PlainOK(j),
         pc = "answers", UNCHANGED <<system, requests, mixed, pc>>,
         NEW k \in Counted, nr[k] < Bound(k),
         NEW d \in Device, k \notin mixed => d = DeviceOf(k, nr[k] + 1),
         nr' = [nr EXCEPT ![k] = @ + 1], MergeRaw(k, d),
         NEW vals, shown' = Store(vals, topic'),
         \A j \in Counted, c \in Nat : <<j, c>> \in DOMAIN vals <=> j = k /\ c = nr[k],
         vals[<<k, nr[k]>>] = d
  PROVE  /\ \A j \in Counted : PlainOK(j)'
         /\ nr' \in [Counted -> Nat] /\ handled' = nr' /\ rawData' \in [Counted -> Seq(Device)]
         /\ Len(rawData["bat"]) <= There => Len(rawData'["bat"]) <= There
<1>1. /\ rawData \in [Counted -> Seq(Device)] /\ nr \in [Counted -> Nat]
      /\ \A j \in Counted : nr[j] <= Len(rawData[j]) /\ nr[j] \in Nat
      /\ \A j \in Counted : Len(rawData[j]) \in Nat
  BY DEF DevTypeOK, PlainOK
<1>2. /\ nr' \in [Counted -> Nat] /\ nr'[k] = nr[k] + 1
      /\ \A j \in Counted \ {k} : nr'[j] = nr[j]
  BY <1>1
<1>3. /\ rawData' \in [Counted -> Seq(Device)] /\ handled' = nr'
      /\ \A j \in Counted \ {k} : rawData'[j] = rawData[j]
      /\ Len(rawData'[k]) = IF nr[k] < Len(rawData[k]) THEN Len(rawData[k]) ELSE nr[k] + 1
      /\ \A i \in DOMAIN rawData'[k] :
           /\ i \in Nat \ {0}
           /\ i = nr[k] + 1 => rawData'[k][i] = d
           /\ i # nr[k] + 1 => i \in DOMAIN rawData[k] /\ rawData'[k][i] = rawData[k][i]
  BY <1>1, MergedRaw
<1>4. \A j, t : /\ DeviceOf(j, t)' = DeviceOf(j, t) /\ TopicLimit(j)' = TopicLimit(j)
                /\ Bound(j)' = Bound(j)
  BY DEF DeviceOf, StringWith, Before, TopicLimit, Bound, There, InFrame, Pms, Wbs, AtMost
<1>5. \A j \in Counted : Bound(j) \in Nat /\ TopicLimit(j) \in Nat /\ Bound(j) <= TopicLimit(j)
  BY SystemIs DEF Bound, TopicLimit, Counted, InFrame, Wbs
<1>6. \A j \in Counted : \A c :
        /\ Awaited(j, c) <=> (nr[j] <= c /\ c < Bound(j))
        /\ Awaited(j, c)' <=> (nr'[j] <= c /\ c < Bound(j))
  BY <1>4 DEF Awaited, Bound
<1>7. \A e \in DOMAIN shown' : shown'[e] # <<>> =>
        \/ e \in DOMAIN vals /\ shown'[e] = <<vals[e]>>
        \/ e \notin DOMAIN vals /\ e \in DOMAIN shown /\ shown'[e] = shown[e]
  BY StoreIs
<1>8. ASSUME NEW j \in Counted \ {k}  PROVE PlainOK(j)'
  <2>1. \A c : Awaited(j, c)' <=> Awaited(j, c)
    BY <1>2, <1>6
  <2>2. ASSUME NEW c \in Nat, <<j, c>> \in DOMAIN shown', shown'[<<j, c>>] # <<>>
        PROVE  <<j, c>> \in DOMAIN shown /\ shown'[<<j, c>>] = shown[<<j, c>>]
    BY <1>7, <2>2
  <2>3. QED
    <3>1. PlainOK(j) /\ j \in Counted /\ rawData'[j] = rawData[j] /\ nr'[j] = nr[j]
      BY <1>2, <1>3
    <3>2. Len(rawData'[j]) <= TopicLimit(j)' /\ nr'[j] <= Len(rawData'[j])
      BY <1>1, <1>4, <3>1 DEF PlainOK
    <3>3. \A i \in DOMAIN rawData'[j] : j \notin mixed' /\ ~Awaited(j, i - 1)' =>
            rawData'[j][i] = DeviceOf(j, i)'
      BY <1>4, <2>1, <3>1 DEF PlainOK
    <3>4. \A c \in Nat : (/\ j \notin mixed' /\ <<j, c>> \in DOMAIN shown'
                          /\ shown'[<<j, c>>] # <<>> /\ ~Awaited(j, c)') =>
            shown'[<<j, c>>] = <<DeviceOf(j, c + 1)>>'
      BY <1>4, <2>1, <2>2, <3>1 DEF PlainOK
    <3>5. QED
      BY <3>2, <3>3, <3>4 DEF PlainOK
<1>9. PlainOK(k)'
  <2>1. PICK n \in Nat : n = nr[k] /\ n < Bound(k) /\ nr'[k] = n + 1
    BY <1>1, <1>2
  <2>2. \A c \in Nat : Awaited(k, c) => c = n \/ Awaited(k, c)'
    BY <1>5, <1>6, <2>1
  <2>3. ASSUME k \notin mixed, NEW c \in Nat, <<k, c>> \in DOMAIN shown',
               shown'[<<k, c>>] # <<>>, ~Awaited(k, c)'
        PROVE  shown'[<<k, c>>] = <<DeviceOf(k, c + 1)>>
    <3>1. CASE c = n
      BY <1>7, <2>1, <2>3, <3>1
    <3>2. CASE c # n
      <4>1. <<k, c>> \in DOMAIN shown /\ shown'[<<k, c>>] = shown[<<k, c>>]
        BY <1>7, <2>1, <2>3, <3>2
      <4>2. ~Awaited(k, c)
        BY <2>2, <2>3, <3>2
      <4>3. QED
        BY <2>3, <4>1, <4>2 DEF PlainOK
    <3>3. QED
      BY <3>1, <3>2
  <2>4. ASSUME k \notin mixed, NEW i \in DOMAIN rawData'[k], ~Awaited(k, i - 1)'
        PROVE  rawData'[k][i] = DeviceOf(k, i)
    <3>1. CASE i = n + 1
      BY <1>3, <2>1, <2>4, <3>1
    <3>2. CASE i # n + 1
      <4>1. i \in DOMAIN rawData[k] /\ rawData'[k][i] = rawData[k][i] /\ i \in Nat \ {0}
        BY <1>3, <2>1, <3>2
      <4>2. i - 1 \in Nat /\ i - 1 # n
        BY <2>1, <3>2, <4>1
      <4>3. ~Awaited(k, i - 1)
        BY <2>2, <2>4, <4>2
      <4>4. QED
        BY <2>4, <4>1, <4>3 DEF PlainOK
    <3>3. QED
      BY <3>1, <3>2
  <2>5. Len(rawData'[k]) <= TopicLimit(k) /\ nr'[k] <= Len(rawData'[k])
    <3>1. Len(rawData[k]) <= TopicLimit(k) /\ Len(rawData[k]) \in Nat /\ TopicLimit(k) \in Nat
      BY <1>1, <1>5 DEF PlainOK
    <3>2. Bound(k) <= TopicLimit(k) /\ Bound(k) \in Nat
      BY <1>5
    <3>3. QED
      BY <1>3, <2>1, <3>1, <3>2
  <2>6. QED
    BY <1>4, <2>3, <2>4, <2>5 DEF PlainOK
<1>10. Len(rawData["bat"]) <= There => Len(rawData'["bat"]) <= There
  <2>1. CASE k = "bat"
    <3>1. PICK m \in Nat : m = Bound(k)
      BY <1>5
    <3>2. nr[k] < m /\ There = m /\ Len(rawData[k]) \in Nat /\ nr[k] \in Nat
      BY <1>1, <2>1, <3>1 DEF Bound
    <3>3. QED
      BY <1>3, <2>1, <3>2
  <2>2. CASE k # "bat"
    BY <1>3, <2>2 DEF Counted
  <2>3. QED
    BY <2>1, <2>2
<1>11. QED
  BY <1>2, <1>3, <1>8, <1>9, <1>10

(* Which requests of a frame are about battery strings.                       *)
LEMMA FitsBat ==
  ASSUME DevTypeOK, NEW r, NEW b \in Nat, NEW T \in Nat, NEW spec \in BOOLEAN,
         Fits(r, b, T, spec), r.kind = "bat"
  PROVE  Others <= b /\ r \in BatType /\ r.index = T - 1 - (b - Others)
<1>1. /\ Wbs \in Nat /\ Pvs \in {0, 1} /\ Pms \in Nat /\ Others \in Nat
      /\ Others = Wbs + Pvs + Pms
  BY SystemIs
<1>2. ~(b < Wbs)
  <2>1. b < Wbs => r.kind = "wb"
    BY DEF Fits
  <2>2. QED
    BY <2>1
<1>3. ~(Wbs <= b /\ b < Wbs + Pvs)
  <2>1. Wbs <= b /\ b < Wbs + Pvs => r.kind = "pv"
    BY DEF Fits
  <2>2. QED
    BY <2>1
<1>4. ~(Wbs + Pvs <= b /\ b < Others)
  <2>1. Wbs + Pvs <= b /\ b < Others => r.kind = "pm"
    BY DEF Fits
  <2>2. QED
    BY <2>1
<1>5. Others <= b
  BY <1>1, <1>2, <1>3, <1>4
<1>6. QED
  BY <1>5 DEF Fits

(* The request that is answered next, and the number its answer gets.         *)
LEMMA NextRequest ==
  ASSUME DevTypeOK, FrameOK, pc = "answers", frame # <<>>,
         frame' = Tail(frame), UNCHANGED <<system, requests>>, NEW r, r = Head(frame)
  PROVE  /\ r = frame[1] /\ 1 \in 1..Len(frame)
         /\ \A i \in 1..Len(frame') : frame'[i] = frame[i + 1] /\ i + 1 \in 1..Len(frame)
         /\ \A i \in 1..Len(frame) : i = 1 \/ (i - 1 \in 1..Len(frame') /\ frame'[i - 1] = frame[i])
         /\ r.kind \in {"bat", "pv", "pm", "wb"}
         /\ r.kind = "bat" =>
              /\ r \in BatType
              /\ \A i \in 1..Len(frame') : frame'[i].kind = "bat" =>
                   frame'[i].index \in Nat /\ r.index < frame'[i].index
              /\ r.index < Len(system.strings) =>
                   /\ r.index < There /\ nr["bat"] <= r.index
                   /\ "bat" \notin mixed => nr["bat"] = r.index
                   /\ r.spec /\ "spec" \notin mixed => "bat" \notin mixed
         /\ r.kind = "pv" => r.count \in BOOLEAN /\ r.trackers \in Nat
         /\ \A k \in Plain : r.kind = k =>
              /\ nr[k] < InFrame(k) /\ r.index \in Nat
              /\ k \notin mixed => r.index = Indexes(k)[nr[k] + 1]
<1>1. PICK T \in Nat, spec \in BOOLEAN : FrameFits(T, spec)
  BY DEF FrameOK
<1>2. Taken(T, spec, r)
  BY <1>1, HeadTaken
<1>3. PICK q \in Nat \ {0} : q = Len(frame) /\ Len(frame') = q - 1
  BY <1>2 DEF Taken
<1>4. /\ \A i \in 1..Len(frame') : frame'[i] = frame[i + 1] /\ i + 1 \in 1..Len(frame)
      /\ \A i \in 1..Len(frame) : i = 1 \/ (i - 1 \in 1..Len(frame') /\ frame'[i - 1] = frame[i])
      /\ 1 \in 1..Len(frame)
  <2>1. \A i \in 1..(q - 1) : i + 1 \in 1..q
    OBVIOUS
  <2>2. \A i \in 1..q : i = 1 \/ (i - 1 \in 1..(q - 1) /\ (i - 1) + 1 = i)
    OBVIOUS
  <2>3. \A i \in 1..(q - 1) : frame'[i] = frame[i + 1]
    BY <1>2, <1>3 DEF Taken
  <2>4. QED
    BY <1>3, <2>1, <2>2, <2>3
<1>5. /\ There \in Nat /\ Len(system.strings) \in Nat /\ T <= system.battery_strings
      /\ Others \in Nat /\ system.battery_strings \in Nat
  BY <1>1, SystemIs DEF FrameFits
<1>6. r.kind = "bat" => /\ r \in BatType /\ r.spec = spec /\ r.index = T - LeftBat
                        /\ LeftBat \in Nat /\ LeftBat' \in Nat /\ LeftBat = LeftBat' + 1
                        /\ LeftBat = Len(frame) - Others
  BY <1>2 DEF Taken
<1>7. ASSUME r.kind = "bat", NEW i \in 1..(q - 1), frame'[i].kind = "bat"
      PROVE  frame'[i].index \in Nat /\ r.index < frame'[i].index
  <2>1. PICK b \in Nat : b = q - 1 - i
    OBVIOUS
  <2>2. PICK g : g = frame'[i]
    OBVIOUS
  <2>3. Fits(g, b, T, spec)
    BY <1>2, <1>3, <2>1, <2>2 DEF Taken
  <2>4. g \in BatType /\ g.index = T - 1 - (b - Others) /\ Others <= b
    <3>1. g.kind = "bat"
      BY <1>7, <2>2
    <3>2. QED
      BY <2>3, <3>1, FitsBat
  <2>5. g.index \in Nat
    BY <2>4 DEF BatType
  <2>6. r.index = T - (q - Others) /\ b < q - 1
    BY <1>3, <1>6, <1>7, <2>1
  <2>7. r.index < g.index
    BY <1>5, <2>4, <2>5, <2>6
  <2>8. QED
    BY <2>2, <2>5, <2>7
<1>8. ASSUME r.kind = "bat", r.index < Len(system.strings)
      PROVE  /\ r.index < There /\ nr["bat"] <= r.index
             /\ "bat" \notin mixed => nr["bat"] = r.index
             /\ r.spec /\ "spec" \notin mixed => "bat" \notin mixed
  <2>1. PICK b \in Nat \ {0} : b = LeftBat /\ r.index = T - b
    BY <1>6, <1>8
  <2>2. AtMost(T - LeftBat, Len(system.strings)) = r.index
    BY <1>8, <2>1 DEF AtMost
  <2>3. r.index < There
    BY <1>5, <1>8, <2>1 DEF There, AtMost
  <2>4. LeftBat > 0 /\ r.spec = spec
    BY <1>6, <1>8, <2>1
  <2>5. nr["bat"] <= r.index /\ ("bat" \notin mixed => nr["bat"] = r.index)
    BY <1>1, <2>2 DEF FrameFits
  <2>6. spec /\ "spec" \notin mixed => "bat" \notin mixed
    BY <1>1, <2>4 DEF FrameFits
  <2>7. QED
    BY <2>3, <2>4, <2>5, <2>6
<1>9. ASSUME NEW k \in Plain, r.kind = k
      PROVE  /\ nr[k] < InFrame(k) /\ r.index \in Nat
             /\ k \notin mixed => r.index = Indexes(k)[nr[k] + 1]
  <2>1. /\ r = [kind |-> k, index |-> Indexes(k)[InFrame(k) - Left(k) + 1]]
        /\ Left(k) \in Nat /\ Left(k)' \in Nat /\ Left(k) = Left(k)' + 1
        /\ Left(k) <= InFrame(k)
    BY <1>2, <1>9 DEF Taken
  <2>2. r.index = Indexes(k)[InFrame(k) - Left(k) + 1]
    BY <2>1
  <2>3. /\ nr[k] \in Nat /\ InFrame(k) \in Nat
        /\ Indexes(k) \in Seq(Nat) /\ InFrame(k) <= Len(Indexes(k))
    <3>1. nr[k] \in Nat
      BY DEF DevTypeOK, Plain, Counted
    <3>2. CASE k = "pm"
      BY <3>1, <3>2, SystemIs DEF InFrame, Indexes
    <3>3. CASE k = "wb"
      BY <3>1, <3>3, SystemIs DEF InFrame, Indexes, Wbs
    <3>4. QED
      BY <3>2, <3>3 DEF Plain
  <2>4. nr[k] <= InFrame(k) - Left(k)
    BY DEF FrameOK
  <2>5. k \notin mixed => nr[k] = InFrame(k) - Left(k)
    BY DEF FrameOK
  <2>6. PICK l \in Nat \ {0}, n \in Nat : l = Left(k) /\ n = InFrame(k) /\ l <= n
    BY <2>1, <2>3
  <2>7. n - l + 1 \in 1..Len(Indexes(k)) /\ nr[k] < n
    BY <2>3, <2>4, <2>6
  <2>8. r.index \in Nat
    <3>1. PICK f, x : f = Indexes(k) /\ x = n - l + 1
      OBVIOUS
    <3>2. f \in Seq(Nat) /\ x \in 1..Len(f)
      BY <2>3, <2>7, <3>1
    <3>3. f[x] \in Nat
      BY <3>2
    <3>4. QED
      BY <2>2, <2>6, <3>1, <3>3
  <2>9. QED
    BY <2>2, <2>5, <2>6, <2>7, <2>8
<1>10. /\ r = frame[1] /\ r.kind \in {"bat", "pv", "pm", "wb"}
       /\ r.kind = "pv" => r.count \in BOOLEAN /\ r.trackers \in Nat
  BY <1>2 DEF Taken
<1>11. QED
  <2>1. r.kind = "bat" => \A i \in 1..Len(frame') : frame'[i].kind = "bat" =>
          frame'[i].index \in Nat /\ r.index < frame'[i].index
    BY <1>3, <1>7
  <2>2. QED
    BY <1>4, <1>6, <1>8, <1>9, <1>10, <2>1

(* The frame after an answer.                                                 *)
LEMMA AnswerFrame ==
  ASSUME DevTypeOK, FrameOK, pc = "answers", frame # <<>>, frame' = Tail(frame),
         NEW r, r = Head(frame), IsThere(r),
         UNCHANGED <<system, requests, battery_strings, mixed, pc>>,
         nr' = IF r.kind = "pv" THEN nr ELSE [nr EXCEPT ![r.kind] = @ + 1]
  PROVE  FrameOK'
<1>1. PICK T \in Nat, spec \in BOOLEAN : FrameFits(T, spec)
  BY DEF FrameOK
<1>2. Taken(T, spec, r)
  BY <1>1, HeadTaken
<1>3. /\ There' = There /\ Others' = Others /\ \A k : InFrame(k)' = InFrame(k)
      /\ \A q, b : Fits(q, b, T, spec)' = Fits(q, b, T, spec)
  BY DEF There, Others, InFrame, Wbs, Pvs, Pms, Fits, AtMost
<1>4. /\ nr["bat"] \in Nat /\ nr["pm"] \in Nat /\ nr["wb"] \in Nat
      /\ Len(system.strings) \in Nat /\ InFrame("pm") \in Nat /\ InFrame("wb") \in Nat
      /\ battery_strings \in Nat
  BY SystemIs DEF DevTypeOK, Counted, InFrame
<1>5. /\ nr'["bat"] = IF r.kind = "bat" THEN nr["bat"] + 1 ELSE nr["bat"]
      /\ \A k \in Plain : nr'[k] = IF r.kind = k THEN nr[k] + 1 ELSE nr[k]
  BY <1>2 DEF DevTypeOK, Counted, Plain, Taken
<1>6. FrameFits(T, spec)'
  <2>1. /\ (T \in There..system.battery_strings)' /\ (Len(frame) <= T + Others)'
    <3>1. T \in There..system.battery_strings /\ Len(frame) <= T + Others /\ Others \in Nat
      BY <1>1, SystemIs DEF FrameFits
    <3>2. QED
      <4>1. PICK n \in Nat : n = Len(frame) /\ n <= T + Others /\ Len(frame') = n - 1
        BY <1>2, <3>1 DEF Taken
      <4>2. Len(frame') <= T + Others
        BY <3>1, <4>1
      <4>3. QED
        BY <1>3, <3>1, <4>2
  <2>2. (\A i \in 1..Len(frame) : Fits(frame[i], Len(frame) - i, T, spec))'
    <3> TAKE i \in 1..Len(frame')
    <3>1. PICK q, b : q = frame'[i] /\ b = Len(frame') - i
      OBVIOUS
    <3>2. Fits(q, b, T, spec)'
      BY <1>2, <1>3, <3>1 DEF Taken
    <3>3. QED
      BY <3>1, <3>2
  <2>0. PICK b \in Nat, e \in Nat, l \in Nat :
          /\ b = LeftBat /\ e = LeftBat' /\ l = Len(system.strings) /\ b <= T /\ e <= b
          /\ r.kind = "bat" => b = e + 1 /\ r.index = T - b
          /\ r.kind # "bat" => b = e
    <3>1. /\ LeftBat \in Nat /\ LeftBat' \in Nat /\ LeftBat <= T
          /\ r.kind = "bat" => LeftBat = LeftBat' + 1 /\ r.index = T - LeftBat
      BY <1>2 DEF Taken
    <3>2. r.kind # "bat" => LeftBat = LeftBat'
      BY <1>2 DEF Taken, Plain
    <3>3. PICK b \in Nat : b = LeftBat
      BY <3>1
    <3>4. PICK e \in Nat : e = LeftBat'
      BY <3>1
    <3>5. PICK l \in Nat : l = Len(system.strings)
      BY <1>4
    <3>6. /\ b <= T /\ e <= b
          /\ r.kind = "bat" => b = e + 1 /\ r.index = T - b
          /\ r.kind # "bat" => b = e
      <4>1. r.kind = "bat" => b = e + 1 /\ r.index = T - b
        BY <3>1, <3>3, <3>4
      <4>2. r.kind # "bat" => b = e
        BY <3>2, <3>3, <4>1, <3>4
      <4>3. b = e + 1 \/ b = e
        BY <4>1, <4>2
      <4>4. e <= b
        BY <4>3
      <4>5. b <= T
        BY <3>1, <3>3
      <4>6. QED
        BY <4>1, <4>2, <4>4, <4>5
    <3>7. QED
      BY <3>3, <3>4, <3>5, <3>6
  <2>3. PICK c \in Nat : c = AtMost(T - b, l) /\ c = AtMost(T - LeftBat, Len(system.strings))
    BY <2>0 DEF AtMost
  <2>4. PICK d \in Nat : d = AtMost(T - e, l) /\ d = AtMost(T - LeftBat, Len(system.strings))'
    <3>1. AtMost(T - LeftBat, Len(system.strings))' = AtMost(T - e, l)
      BY <2>0 DEF AtMost
    <3>2. AtMost(T - e, l) \in Nat
      <4>1. T - e \in Nat
        <5>1. e <= b /\ b <= T
          BY <2>0
        <5>2. QED
          BY <5>1
      <4>2. QED
        BY <4>1 DEF AtMost
    <3>3. QED
      BY <3>1, <3>2
  <2>5. /\ r.kind = "bat" => d = c + 1
        /\ r.kind # "bat" => d = c
    <3>1. r.kind = "bat" => T - b < l
      BY <2>0 DEF IsThere
    <3>2. c = AtMost(T - b, l) /\ d = AtMost(T - e, l)
      BY <2>3, <2>4
    <3>3. CASE r.kind = "bat"
      <4>1. T - b < l /\ b = e + 1
        BY <2>0, <3>1, <3>3
      <4>2. d = c + 1
        BY <3>2, <4>1 DEF AtMost
      <4>3. QED
        BY <3>3, <4>2
    <3>4. CASE r.kind # "bat"
      <4>1. b = e
        BY <2>0, <3>4
      <4>2. QED
        BY <3>2, <3>4, <4>1
    <3>5. QED
      BY <3>3, <3>4
  <2>6. /\ b > 0 => battery_strings >= c + b
        /\ (b > 0 /\ spec /\ "spec" \notin mixed) => "bat" \notin mixed
    BY <1>1, <2>0, <2>3 DEF FrameFits
  <2>7. nr["bat"] <= c
    BY <1>1, <2>3 DEF FrameFits
  <2>8. "bat" \notin mixed => nr["bat"] = c
    BY <1>1, <2>3 DEF FrameFits
  <2>9. /\ e > 0 => battery_strings >= d + e
        /\ (e > 0 /\ spec /\ "spec" \notin mixed) => "bat" \notin mixed
    <3>1. /\ e <= b
          /\ d + e <= c + b
      <4>1. CASE r.kind = "bat"
        <5>1. d = c + 1 /\ b = e + 1
          BY <2>0, <2>5, <4>1
        <5>2. QED
          BY <5>1
      <4>2. CASE r.kind # "bat"
        <5>1. d = c /\ b = e
          BY <2>0, <2>5, <4>2
        <5>2. QED
          BY <5>1
      <4>3. QED
        BY <4>1, <4>2
    <3>2. battery_strings \in Nat
      BY <1>4
    <3>3. e > 0 => b > 0
      BY <3>1
    <3>4. QED
      BY <2>6, <3>1, <3>2, <3>3
  <2>10. nr'["bat"] <= d /\ ("bat" \notin mixed => nr'["bat"] = d)
    BY <1>4, <1>5, <2>5, <2>7, <2>8
  <2>11. (frame \in Seq({frame[i] : i \in DOMAIN frame}))'
    BY <1>2 DEF Taken
  <2>12. QED
    BY <2>0, <2>1, <2>2, <2>4, <2>9, <2>10, <2>11 DEF FrameFits
<1>7. ASSUME NEW k \in Plain
      PROVE  /\ nr'[k] <= InFrame(k)' - Left(k)'
             /\ k \notin mixed => nr'[k] = InFrame(k)' - Left(k)'
  <2>1. nr[k] <= InFrame(k) - Left(k)
    BY DEF FrameOK
  <2>2. k \notin mixed => nr[k] = InFrame(k) - Left(k)
    BY DEF FrameOK
  <2>3. /\ r.kind = k => Left(k) = Left(k)' + 1
        /\ r.kind # k => Left(k)' = Left(k)
    BY <1>2 DEF Plain, Taken
  <2>4. nr[k] \in Nat /\ InFrame(k) \in Nat /\ Left(k) \in Nat /\ Left(k)' \in Nat
    BY <1>2, <1>4 DEF Plain, Taken
  <2>5. QED
    BY <1>3, <1>5, <2>1, <2>2, <2>3, <2>4
<1>8. QED
  BY <1>6, <1>7 DEF FrameOK

(* What is learned of the modules stays right when no string that is there    *)
(* is concerned.                                                              *)
LEMMA StringsUntouched ==
  ASSUME DevTypeOK, FrameOK, CountsOK, ModulesOK, pc = "answers", frame # <<>>,
         frame' = Tail(frame), UNCHANGED <<system, requests, bat_dcb_count, bat_dcb_start, pc>>,
         nr'["bat"] = nr["bat"],
         \A x \in {"bat", "dcb"} : x \in mixed' <=> x \in mixed,
         Head(frame).kind = "bat" => Len(system.strings) <= Head(frame).index,
         \A k \in {"dcb", "cell"}, c \in Nat : <<k, c>> \in DOMAIN shown' =>
           /\ <<k, c>> \in DOMAIN shown
           /\ shown'[<<k, c>>] # <<>> => shown'[<<k, c>>] = shown[<<k, c>>]
  PROVE  CountsOK' /\ ModulesOK'
<1>1. PICK r : r = Head(frame)
  OBVIOUS
<1>2. /\ r = frame[1]
      /\ \A i \in 1..Len(frame') : frame'[i] = frame[i + 1] /\ i + 1 \in 1..Len(frame)
      /\ \A i \in 1..Len(frame) : i = 1 \/ (i - 1 \in 1..Len(frame') /\ frame'[i - 1] = frame[i])
      /\ r.kind = "bat" => r \in BatType
  BY <1>1, NextRequest
<1>3. /\ There' = There /\ There \in Nat /\ There <= Len(system.strings)
      /\ Len(system.strings) \in Nat
  BY SystemIs DEF There, AtMost
<1>4. \A n : First(n)' = First(n) /\ StringOf(n)' = StringOf(n)
  BY DEF First, StringOf
<1>5. CountsOK'
  <2>1. (\A j \in 0..(system.battery_strings - 1) : bat_dcb_count[j] > 0 =>
           j < There /\ bat_dcb_count[j] = system.strings[j + 1] /\ bat_dcb_start[j] = First(j))'
    BY <1>3, <1>4 DEF CountsOK
  <2>2. ASSUME NEW i \in 1..Len(frame'), frame'[i].kind = "bat", frame'[i].index < There
        PROVE  /\ frame'[i].count <=> bat_dcb_count[frame'[i].index] = 0
               /\ frame'[i].count => frame'[i].modules = 0 /\ "bat" \notin mixed
               /\ frame'[i].modules > 0 =>
                    frame'[i].modules = system.strings[frame'[i].index + 1]
    BY <1>2, <2>2 DEF CountsOK
  <2>3. /\ "bat" \notin mixed => \A j \in 0..(nr["bat"] - 1) : bat_dcb_count[j] > 0
        /\ "dcb" \notin mixed => "bat" \notin mixed
    BY DEF CountsOK
  <2>4. QED
    BY <1>3, <2>1, <2>2, <2>3 DEF CountsOK
<1>6. ASSUME NEW j, j \in Nat, j < There, Asking(j)  PROVE Asking(j)'
  <2>1. PICK i \in 1..Len(frame) : /\ frame[i].kind = "bat" /\ frame[i].index = j
                                   /\ frame[i].modules > 0
    BY <1>6 DEF Asking
  <2>2. i # 1
    <3>1. SUFFICES ASSUME i = 1 PROVE FALSE
      OBVIOUS
    <3>2. r.kind = "bat" /\ r.index = j /\ Len(system.strings) <= r.index
      BY <1>1, <1>2, <2>1, <3>1
    <3>3. QED
      BY <1>3, <1>6, <3>2
  <2>3. i - 1 \in 1..Len(frame') /\ frame'[i - 1] = frame[i]
    BY <1>2, <2>2
  <2>4. QED
    BY <2>1, <2>3 DEF Asking
<1>7. ModulesOK'
  <2>1. \A c : StringOf(c) \in Nat
    BY DEF StringOf
  <2>2. \A k \in {"dcb", "cell"}, c \in Nat : <<k, c>> \in DOMAIN shown' =>
           /\ There > 0 /\ StringOf(c) < There
           /\ StringOf(c) = 1 => c - system.strings[1] < system.strings[2]
    BY DEF ModulesOK
  <2>3. ASSUME "dcb" \notin mixed, NEW k \in {"dcb", "cell"}, NEW c \in Nat,
               <<k, c>> \in DOMAIN shown', shown'[<<k, c>>] # <<>>
        PROVE  \/ shown'[<<k, c>>] = <<<<"dcb", StringOf(c), c - First(StringOf(c))>>>>
               \/ Asking(StringOf(c))'
    <3>1. <<k, c>> \in DOMAIN shown /\ shown'[<<k, c>>] = shown[<<k, c>>]
      BY <2>3
    <3>2. \/ shown[<<k, c>>] = <<<<"dcb", StringOf(c), c - First(StringOf(c))>>>>
          \/ Asking(StringOf(c))
      BY <2>3, <3>1 DEF ModulesOK
    <3>3. StringOf(c) \in Nat /\ StringOf(c) < There
      BY <2>1, <2>2, <2>3
    <3>4. Asking(StringOf(c)) => Asking(StringOf(c))'
      <4>1. PICK j : j = StringOf(c)
        OBVIOUS
      <4>2. StringOf(c)' = j
        BY <1>4, <4>1
      <4>3. Asking(j) => Asking(j)'
        BY <1>6, <3>3, <4>1
      <4>4. Asking(StringOf(c)) <=> Asking(j)
        BY <4>1
      <4>5. Asking(StringOf(c))' <=> Asking(j)'
        BY <4>2 DEF Asking
      <4>6. QED
        BY <4>3, <4>4, <4>5
    <3>5. QED
      BY <3>1, <3>2, <3>4
  <2>4. QED
    BY <1>3, <1>4, <2>2, <2>3 DEF ModulesOK
<1>8. QED
  BY <1>5, <1>7

(* The answer about a meter or a wallbox.                                     *)
LEMMA PlainStep ==
  ASSUME DevInv, Answer, Head(frame).kind \in Plain
  PROVE  DevInv'
<1>1. DevTypeOK /\ FrameOK /\ TopicsOK /\ PlainOK("pm") /\ PlainOK("wb") /\ BatsOK /\ PvOK
  BY DEF DevInv
<1>2. PICK r : r = Head(frame)
  OBVIOUS
<1>3. PICK k \in Plain : r.kind = k
  BY <1>2
<1>4. /\ pc = "answers" /\ frame # <<>> /\ IsThere(r) /\ frame' = Tail(frame)
      /\ PlainAnswer(r)
      /\ UNCHANGED <<system, new, battery_strings, requests, pc, mixed>>
  BY <1>2, <1>3 DEF Answer, Plain, bounds
<1>5. PICK d : d = <<k, r.index, 0>>
  OBVIOUS
<1>6. PICK vals : vals = [e \in {<<k, nr[k]>>} |-> d]
  OBVIOUS
<1>7. /\ shown' = Store(vals, topic) /\ topic' = topic
      /\ nr' = [nr EXCEPT ![k] = @ + 1] /\ MergeRaw(k, d)
      /\ UNCHANGED <<bat_dcb_count, bat_dcb_start, pvi_tracker>>
  BY <1>3, <1>4, <1>5, <1>6 DEF PlainAnswer
<1>8. /\ nr[k] < InFrame(k) /\ r.index \in Nat
      /\ k \notin mixed => r.index = Indexes(k)[nr[k] + 1]
  BY <1>1, <1>2, <1>3, <1>4, NextRequest
<1>9. k \in Counted /\ k # "bat" /\ d \in Device /\ nr[k] < Bound(k) /\ nr[k] \in Nat
  BY <1>1, <1>5, <1>8 DEF Plain, Counted, Device, Bound, DevTypeOK
<1>10. k \notin mixed => d = DeviceOf(k, nr[k] + 1)
  BY <1>5, <1>8 DEF DeviceOf, Plain, Indexes
<1>11. \A e : e \in DOMAIN vals <=> e = <<k, nr[k]>>
  BY <1>6
<1>12. vals[<<k, nr[k]>>] = d
  BY <1>6
<1>13. \A j \in Counted : PlainOK(j)
  BY <1>1 DEF Counted, BatsOK
<1>14. /\ \A j \in Counted : PlainOK(j)'
       /\ nr' \in [Counted -> Nat] /\ handled' = nr' /\ rawData' \in [Counted -> Seq(Device)]
       /\ Len(rawData["bat"]) <= There => Len(rawData'["bat"]) <= There
  <2>1. \A j \in Counted, c \in Nat : <<j, c>> \in DOMAIN vals <=> j = k /\ c = nr[k]
    BY <1>11
  <2>2. shown' = Store(vals, topic')
    BY <1>7
  <2>3. QED
    <3>1. UNCHANGED <<system, requests, mixed, pc>> /\ pc = "answers" /\ DevTypeOK
      BY <1>1, <1>4
    <3>2. k \in Counted /\ nr[k] < Bound(k) /\ d \in Device
      BY <1>9
    <3>3. nr' = [nr EXCEPT ![k] = @ + 1] /\ MergeRaw(k, d)
      BY <1>7
    <3> HIDE DEF Bound
    <3>4. QED
      BY <1>10, <1>12, <1>13, <2>1, <2>2, <3>1, <3>2, <3>3, CountedAnswer
<1>15. There' = There /\ \A j : TopicLimit(j)' = TopicLimit(j)
  BY <1>4 DEF There, AtMost, TopicLimit
<1>16. DevTypeOK'
  BY <1>1, <1>4, <1>7, <1>14, <1>15 DEF DevTypeOK
<1>17. FrameOK'
  <2>1. nr' = IF r.kind = "pv" THEN nr ELSE [nr EXCEPT ![r.kind] = @ + 1]
    BY <1>3, <1>7 DEF Plain
  <2>2. QED
    BY <1>1, <1>2, <1>4, <2>1, AnswerFrame
<1>18. /\ DOMAIN shown' = DOMAIN topic' /\ DOMAIN shown = DOMAIN topic
       /\ \A e \in DOMAIN shown' : shown'[e] # <<>> /\ e # <<k, nr[k]>> =>
            e \in DOMAIN shown /\ shown'[e] = shown[e]
  BY <1>1, <1>7, <1>11, StoreIs DEF TopicsOK
<1>19. TopicsOK'
  BY <1>1, <1>7, <1>15, <1>18 DEF TopicsOK
<1>20. \A x, c : x \notin Plain => <<x, c>> # <<k, nr[k]>>
  OBVIOUS
<1>21. \A x, c : /\ x \notin Plain /\ <<x, c>> \in DOMAIN shown' =>
                      /\ <<x, c>> \in DOMAIN shown
                      /\ shown'[<<x, c>>] # <<>> => shown'[<<x, c>>] = shown[<<x, c>>]
  BY <1>7, <1>18, <1>20
<1>22. BatsOK'
  <2>1. PlainOK("bat")' /\ Len(rawData'["bat"]) <= There
    BY <1>1, <1>14 DEF Counted, BatsOK
  <2>2. \A x \in {"bat", "spec"} : x \notin Plain
    BY DEF Plain
  <2>3. QED
    BY <1>1, <1>4, <1>15, <1>21, <2>1, <2>2 DEF BatsOK
<1>23. PvOK'
  <2>1. "pv" \notin Plain
    BY DEF Plain
  <2>2. QED
    BY <1>1, <1>21, <2>1 DEF PvOK
<1>24. ASSUME CountsOK, ModulesOK  PROVE CountsOK' /\ ModulesOK'
  <2>1. nr'["bat"] = nr["bat"] /\ Head(frame).kind # "bat"
    BY <1>1, <1>2, <1>3, <1>7, <1>9 DEF DevTypeOK, Counted, Plain
  <2>2. \A x \in {"dcb", "cell"} : x \notin Plain
    BY DEF Plain
  <2>3. \A x \in {"dcb", "cell"}, c \in Nat : <<x, c>> \in DOMAIN shown' =>
           /\ <<x, c>> \in DOMAIN shown
           /\ shown'[<<x, c>>] # <<>> => shown'[<<x, c>>] = shown[<<x, c>>]
    BY <1>21, <2>2
  <2>4. QED
    BY <1>1, <1>4, <1>7, <1>24, <2>1, <2>3, StringsUntouched
<1>25. QED
  BY <1>4, <1>14, <1>16, <1>17, <1>19, <1>22, <1>23, <1>24 DEF DevInv, Counted

(* The answer about the inverter.                                             *)
LEMMA PviStep ==
  ASSUME DevInv, Answer, Head(frame).kind = "pv"
  PROVE  DevInv'
<1>1. DevTypeOK /\ FrameOK /\ TopicsOK /\ PlainOK("pm") /\ PlainOK("wb") /\ BatsOK /\ PvOK
  BY DEF DevInv
<1>2. PICK r : r = Head(frame)
  OBVIOUS
<1>3. /\ pc = "answers" /\ frame # <<>> /\ IsThere(r) /\ frame' = Tail(frame)
      /\ PviAnswer(r) /\ r.kind = "pv"
      /\ UNCHANGED <<system, new, battery_strings, requests, pc, mixed>>
  BY <1>2 DEF Answer, bounds
<1>4. r.count \in BOOLEAN /\ r.trackers \in Nat
  BY <1>1, <1>2, <1>3, NextRequest
<1>5. PICK vals : vals = [e \in {"pv"} \X (0..(r.trackers - 1)) |-> <<"pv", e[2], 0>>]
  OBVIOUS
<1>6. /\ topic' = Over(topic, Numbered("pv", pvi_tracker'))
      /\ shown' = Store(vals, topic')
      /\ UNCHANGED <<bat_dcb_count, bat_dcb_start, nr, rawData, handled>>
  BY <1>3, <1>5 DEF PviAnswer, raw
<1>7. pvi_tracker' \in Nat
  <2>1. system.trackers \in Nat /\ pvi_tracker \in Nat
    BY <1>1, SystemIs DEF DevTypeOK
  <2>2. pvi_tracker' = system.trackers \/ pvi_tracker' = pvi_tracker
    BY <1>3, <1>4 DEF PviAnswer
  <2>3. QED
    BY <2>1, <2>2
<1>8. There' = There /\ \A j : TopicLimit(j)' = TopicLimit(j) /\ InFrame(j)' = InFrame(j)
  BY <1>3 DEF There, AtMost, TopicLimit, InFrame, Pms, Wbs
<1>9. DevTypeOK'
  BY <1>1, <1>3, <1>6, <1>7, <1>8 DEF DevTypeOK
<1>10. FrameOK'
  <2>1. nr' = IF r.kind = "pv" THEN nr ELSE [nr EXCEPT ![r.kind] = @ + 1]
    BY <1>3, <1>6
  <2>2. QED
    BY <1>1, <1>2, <1>3, <2>1, AnswerFrame
<1>11. PICK t : t = Numbered("pv", pvi_tracker')
  OBVIOUS
<1>12. \A e \in DOMAIN t : e = <<e[1], e[2]>> /\ e[1] = "pv" /\ e[2] \in Nat /\ t[e] = e[2] + 1
  BY <1>7, <1>11 DEF Numbered
<1>13. /\ DOMAIN topic' = DOMAIN topic \union DOMAIN t
       /\ \A e \in DOMAIN topic' : topic'[e] = IF e \in DOMAIN topic THEN topic[e] ELSE t[e]
  BY <1>6, <1>11 DEF Over
<1>14. /\ DOMAIN shown' = DOMAIN topic' /\ DOMAIN shown = DOMAIN topic
       /\ \A e \in DOMAIN shown' : shown'[e] # <<>> =>
            \/ e \in DOMAIN vals /\ shown'[e] = <<vals[e]>>
            \/ e \notin DOMAIN vals /\ e \in DOMAIN shown /\ shown'[e] = shown[e]
  BY <1>1, <1>6, StoreIs DEF TopicsOK
<1>15. TopicsOK'
  <2>1. ASSUME NEW e \in DOMAIN topic'
        PROVE  /\ e = <<e[1], e[2]>> /\ e[1] \in Kinds /\ e[2] \in Nat
               /\ topic'[e] = e[2] + 1 \/ (e[1] = "cell" /\ topic'[e] = 0)
               /\ e[1] \in {"pm", "wb", "bat", "spec"} => e[2] < TopicLimit(e[1])
    <3>1. CASE e \in DOMAIN topic
      BY <1>1, <1>13, <3>1 DEF TopicsOK
    <3>2. CASE e \notin DOMAIN topic
      BY <1>12, <1>13, <3>2 DEF Kinds
    <3>3. QED
      BY <3>1, <3>2
  <2>2. QED
    BY <1>8, <1>14, <2>1 DEF TopicsOK
<1>16. \A x, c : x # "pv" => <<x, c>> \notin DOMAIN vals
  BY <1>5
<1>17. \A x, c : x # "pv" /\ <<x, c>> \in DOMAIN shown' =>
         /\ <<x, c>> \in DOMAIN shown
         /\ shown'[<<x, c>>] # <<>> => shown'[<<x, c>>] = shown[<<x, c>>]
  <2> TAKE x, c
  <2>1. SUFFICES ASSUME x # "pv", <<x, c>> \in DOMAIN shown'
                 PROVE  /\ <<x, c>> \in DOMAIN shown
                        /\ shown'[<<x, c>>] # <<>> => shown'[<<x, c>>] = shown[<<x, c>>]
    OBVIOUS
  <2>2. <<x, c>> \notin DOMAIN t
    BY <1>11, <2>1 DEF Numbered
  <2>3. <<x, c>> \in DOMAIN shown
    BY <1>13, <1>14, <2>1, <2>2
  <2>4. QED
    BY <1>14, <1>16, <2>1, <2>3
<1>18. ASSUME NEW k \in Counted  PROVE PlainOK(k)'
  <2>1. PlainOK(k) /\ k # "pv"
    BY <1>1 DEF Counted, BatsOK
  <2>2. \A c : Awaited(k, c)' <=> Awaited(k, c)
    BY <1>3, <1>6, <1>8 DEF Awaited
  <2>3. \A c : DeviceOf(k, c)' = DeviceOf(k, c)
    BY <1>3 DEF DeviceOf, StringWith, Before
  <2>4. \A c \in Nat : (/\ k \notin mixed' /\ <<k, c>> \in DOMAIN shown'
                        /\ shown'[<<k, c>>] # <<>> /\ ~Awaited(k, c)') =>
          shown'[<<k, c>>] = <<DeviceOf(k, c + 1)>>'
    BY <1>3, <1>17, <2>1, <2>2, <2>3 DEF PlainOK
  <2>5. QED
    BY <1>3, <1>6, <1>8, <2>1, <2>2, <2>3, <2>4 DEF PlainOK
<1>19. BatsOK'
  BY <1>1, <1>3, <1>6, <1>8, <1>17, <1>18 DEF BatsOK, Counted
<1>20. PvOK'
  <2>1. ASSUME NEW c \in Nat, <<"pv", c>> \in DOMAIN shown', shown'[<<"pv", c>>] # <<>>
        PROVE  shown'[<<"pv", c>>] = <<<<"pv", c, 0>>>>
    <3>1. CASE <<"pv", c>> \in DOMAIN vals
      <4>1. vals[<<"pv", c>>] = <<"pv", c, 0>>
        BY <1>5, <3>1
      <4>2. QED
        BY <1>14, <2>1, <3>1, <4>1
    <3>2. CASE <<"pv", c>> \notin DOMAIN vals
      BY <1>1, <1>14, <2>1, <3>2 DEF PvOK
    <3>3. QED
      BY <3>1, <3>2
  <2>2. QED
    BY <2>1 DEF PvOK
<1>21. ASSUME CountsOK, ModulesOK  PROVE CountsOK' /\ ModulesOK'
  <2>1. nr'["bat"] = nr["bat"] /\ Head(frame).kind # "bat"
    BY <1>6
  <2>2. \A x \in {"dcb", "cell"}, c \in Nat : <<x, c>> \in DOMAIN shown' =>
           /\ <<x, c>> \in DOMAIN shown
           /\ shown'[<<x, c>>] # <<>> => shown'[<<x, c>>] = shown[<<x, c>>]
    BY <1>17
  <2>3. UNCHANGED <<system, requests, bat_dcb_count, bat_dcb_start, pc>> /\ frame' = Tail(frame)
    BY <1>3, <1>6
  <2>4. \A x \in {"bat", "dcb"} : x \in mixed' <=> x \in mixed
    BY <1>3
  <2>5. QED
    BY <1>1, <1>3, <1>21, <2>1, <2>2, <2>3, <2>4, StringsUntouched
<1>22. QED
  BY <1>3, <1>9, <1>10, <1>15, <1>18, <1>19, <1>20, <1>21 DEF DevInv, Counted

(* The frame after a device answered with an error, and how many strings are  *)
(* asked for from now on.                                                     *)
LEMMA RefusedFrame ==
  ASSUME DevTypeOK, FrameOK, pc = "answers", frame # <<>>, frame' = Tail(frame),
         NEW r, r = Head(frame), NEW code \in ErrorCodes,
         UNCHANGED <<system, requests, nr, pc>>,
         IsThere(r) => code # NOT_AVAILABLE, ~IsThere(r) => code = NOT_AVAILABLE,
         IsThere(r) => r.kind \in mixed' /\ (r.kind = "bat" /\ r.spec => "spec" \in mixed'),
         mixed \subseteq mixed',
         "bat" \in mixed' => "bat" \in mixed \/ (r.kind = "bat" /\ IsThere(r)),
         battery_strings' = LessStrings(r, code)
  PROVE  /\ FrameOK' /\ battery_strings' \in Nat \ {0} /\ There <= battery_strings'
         /\ battery_strings' <= battery_strings
<1>1. PICK T \in Nat, spec \in BOOLEAN : FrameFits(T, spec)
  BY DEF FrameOK
<1>2. Taken(T, spec, r)
  BY <1>1, HeadTaken
<1>3. /\ There' = There /\ Others' = Others /\ \A k : InFrame(k)' = InFrame(k)
      /\ \A q, b : Fits(q, b, T, spec)' = Fits(q, b, T, spec)
  BY DEF There, Others, InFrame, Wbs, Pvs, Pms, Fits, AtMost
<1>4. PICK l \in Nat, s \in Nat \ {0}, m \in Nat :
        l = Len(system.strings) /\ s = battery_strings /\ m = There
  BY SystemIs DEF DevTypeOK
<1>5. m <= l /\ m <= s /\ m <= T
  <2>1. There <= Len(system.strings) /\ There <= battery_strings /\ There <= T
    BY <1>1, <1>4, SystemIs DEF DevTypeOK, FrameFits
  <2>2. QED
    BY <1>4, <2>1
<1>6. PICK b \in Nat : b = LeftBat
  BY <1>2 DEF Taken
<1>7. PICK e \in Nat : e = LeftBat'
  BY <1>2 DEF Taken
<1>8. /\ b <= T
      /\ r.kind = "bat" => b = e + 1 /\ r.index = T - b /\ r.spec = spec
      /\ r.kind # "bat" => b = e
  <2>1. b <= T /\ (r.kind = "bat" => b = e + 1 /\ r.index = T - b /\ r.spec = spec)
    BY <1>2, <1>6, <1>7 DEF Taken
  <2>2. r.kind # "bat" => b = e
    BY <1>2, <1>6, <1>7 DEF Taken, Plain
  <2>3. QED
    BY <2>1, <2>2
<1>9. e <= b
  <2>1. b = e + 1 \/ b = e
    BY <1>8
  <2>2. QED
    BY <2>1
<1>10. PICK c \in Nat : c = AtMost(T - b, l)
  <2>1. T - b \in Nat
    BY <1>8
  <2>2. QED
    BY <2>1 DEF AtMost
<1>11. PICK d \in Nat : d = AtMost(T - e, l)
  <2>1. T - e \in Nat
    BY <1>8, <1>9
  <2>2. QED
    BY <2>1 DEF AtMost
<1>12. /\ b > 0 => s >= c + b
       /\ nr["bat"] <= c
       /\ "bat" \notin mixed => nr["bat"] = c
       /\ (b > 0 /\ spec /\ "spec" \notin mixed) => "bat" \notin mixed
  <2>1. c = AtMost(T - LeftBat, Len(system.strings))
    BY <1>4, <1>6, <1>10
  <2>2. b > 0 => s >= c + b
    BY <1>1, <1>4, <1>6, <2>1 DEF FrameFits
  <2>3. nr["bat"] <= c
    BY <1>1, <2>1 DEF FrameFits
  <2>4. "bat" \notin mixed => nr["bat"] = c
    BY <1>1, <2>1 DEF FrameFits
  <2>5. (b > 0 /\ spec /\ "spec" \notin mixed) => "bat" \notin mixed
    BY <1>1, <1>6 DEF FrameFits
  <2>6. QED
    BY <2>2, <2>3, <2>4, <2>5
<1>13. c <= d /\ d + e <= c + b
  <2>1. CASE b = e
    BY <1>10, <1>11, <2>1
  <2>2. CASE b = e + 1
    BY <1>8, <1>10, <1>11, <2>2 DEF AtMost
  <2>3. QED
    BY <1>8, <2>1, <2>2
<1>14. ~IsThere(r) => r.kind = "bat" /\ l <= T - b /\ d = c /\ c = l /\ b = e + 1
  <2>1. SUFFICES ASSUME ~IsThere(r)
        PROVE  r.kind = "bat" /\ l <= T - b /\ d = c /\ c = l /\ b = e + 1
    OBVIOUS
  <2>2. r.kind = "bat" /\ ~(r.index < l)
    BY <1>4, <2>1 DEF IsThere
  <2>3. b = e + 1 /\ l <= T - b
    BY <1>8, <2>2
  <2>4. c = l /\ d = l
    BY <1>8, <1>10, <1>11, <2>3 DEF AtMost
  <2>5. QED
    BY <2>2, <2>3, <2>4
<1>15. PICK g \in Nat \ {0} :
         /\ g = battery_strings' /\ g <= s
         /\ g = s \/ (~IsThere(r) /\ g = s - 1)
         /\ ~IsThere(r) => g = s - 1 \/ s = 1
  <2>1. battery_strings' = IF r.kind = "bat" /\ code = NOT_AVAILABLE /\ s > 1 THEN s - 1 ELSE s
    BY <1>4 DEF LessStrings
  <2>2. code = NOT_AVAILABLE <=> ~IsThere(r)
    OBVIOUS
  <2>3. CASE IsThere(r)
    BY <2>1, <2>2, <2>3
  <2>4. CASE ~IsThere(r)
    <3>1. battery_strings' = IF s > 1 THEN s - 1 ELSE s
      BY <1>14, <2>1, <2>2, <2>4
    <3>2. CASE s > 1
      <4>1. battery_strings' = s - 1 /\ s - 1 \in Nat \ {0}
        BY <3>1, <3>2
      <4>2. QED
        BY <2>4, <4>1
    <3>3. CASE ~(s > 1)
      <4>1. battery_strings' = s /\ s = 1
        BY <3>1, <3>3
      <4>2. QED
        BY <2>4, <4>1
    <3>4. QED
      BY <3>2, <3>3
  <2>5. QED
    BY <2>3, <2>4
<1>16. m <= g /\ (e > 0 => g >= d + e)
  <2>1. CASE IsThere(r)
    <3>1. g = s
      BY <1>15, <2>1
    <3>2. QED
      BY <1>5, <1>9, <1>12, <1>13, <3>1
  <2>2. CASE ~IsThere(r)
    <3>1. b = e + 1 /\ d = c /\ c = l /\ (g = s - 1 \/ s = 1) /\ s >= c + b
      BY <1>12, <1>14, <1>15, <2>2
    <3>2. QED
      BY <1>5, <3>1
  <2>3. QED
    BY <2>1, <2>2
<1>17. nr["bat"] <= d /\ ("bat" \notin mixed' => nr["bat"] = d)
  <2>1. nr["bat"] \in Nat
    BY DEF DevTypeOK, Counted
  <2>2. nr["bat"] <= d
    BY <1>12, <1>13, <2>1
  <2>3. ASSUME "bat" \notin mixed'  PROVE nr["bat"] = d
    <3>1. nr["bat"] = c
      BY <1>12, <2>3
    <3>2. CASE IsThere(r)
      <4>1. r.kind # "bat"
        BY <2>3, <3>2
      <4>2. b = e
        BY <1>8, <4>1
      <4>3. QED
        BY <1>10, <1>11, <3>1, <4>2
    <3>3. CASE ~IsThere(r)
      BY <1>14, <3>1, <3>3
    <3>4. QED
      BY <3>2, <3>3
  <2>4. QED
    BY <2>2, <2>3
<1>18. (e > 0 /\ spec /\ "spec" \notin mixed') => "bat" \notin mixed'
  <2>1. SUFFICES ASSUME e > 0, spec, "spec" \notin mixed' PROVE "bat" \notin mixed'
    OBVIOUS
  <2>2. b > 0 /\ "bat" \notin mixed
    <3>1. b > 0
      BY <1>9, <2>1
    <3>2. QED
      BY <1>12, <2>1, <3>1
  <2>3. ~(r.kind = "bat" /\ IsThere(r))
    BY <1>8, <2>1
  <2>4. QED
    BY <2>2, <2>3
<1>19. d = AtMost(T - LeftBat, Len(system.strings))'
  BY <1>4, <1>7, <1>11 DEF AtMost
<1>20. FrameFits(T, spec)'
  <2>1. /\ (T \in There..system.battery_strings)' /\ (Len(frame) <= T + Others)'
    <3>1. T \in There..system.battery_strings /\ Len(frame) <= T + Others /\ Others \in Nat
      BY <1>1, SystemIs DEF FrameFits
    <3>2. PICK n \in Nat : n = Len(frame) /\ n <= T + Others /\ Len(frame') = n - 1
      BY <1>2, <3>1 DEF Taken
    <3>3. Len(frame') <= T + Others
      BY <3>1, <3>2
    <3>4. QED
      BY <1>3, <3>1, <3>3
  <2>2. (\A i \in 1..Len(frame) : Fits(frame[i], Len(frame) - i, T, spec))'
    <3> TAKE i \in 1..Len(frame')
    <3>1. PICK q, o : q = frame'[i] /\ o = Len(frame') - i
      OBVIOUS
    <3>2. Fits(q, o, T, spec)'
      BY <1>2, <1>3, <3>1 DEF Taken
    <3>3. QED
      BY <3>1, <3>2
  <2>3. (frame \in Seq({frame[i] : i \in DOMAIN frame}))'
    BY <1>2 DEF Taken
  <2>4. QED
    BY <1>7, <1>15, <1>16, <1>17, <1>18, <1>19, <2>1, <2>2, <2>3 DEF FrameFits
<1>21. ASSUME NEW k \in Plain
       PROVE  /\ nr'[k] <= InFrame(k)' - Left(k)'
              /\ k \notin mixed' => nr'[k] = InFrame(k)' - Left(k)'
  <2>1. nr[k] <= InFrame(k) - Left(k)
    BY DEF FrameOK
  <2>2. k \notin mixed => nr[k] = InFrame(k) - Left(k)
    BY DEF FrameOK
  <2>3. /\ r.kind = k => Left(k) = Left(k)' + 1
        /\ r.kind # k => Left(k)' = Left(k)
    BY <1>2 DEF Plain, Taken
  <2>4. nr[k] \in Nat /\ InFrame(k) \in Nat /\ Left(k) \in Nat /\ Left(k)' \in Nat
    BY <1>2, SystemIs DEF DevTypeOK, Counted, InFrame, Plain, Taken
  <2>5. r.kind = k => k \in mixed'
    <3>1. SUFFICES ASSUME r.kind = k PROVE k \in mixed'
      OBVIOUS
    <3>2. IsThere(r)
      BY <3>1 DEF IsThere, Plain
    <3>3. QED
      BY <3>1, <3>2
  <2>6. QED
    BY <1>3, <2>1, <2>2, <2>3, <2>4, <2>5
<1>22. FrameOK'
  BY <1>20, <1>21 DEF FrameOK
<1>23. QED
  BY <1>4, <1>15, <1>16, <1>22

(* A string that is there answers with an error, once the modules are known.  *)
LEMMA StringRefused ==
  ASSUME DevTypeOK, FrameOK, CountsOK, ModulesOK, CountsKnown, pc = "answers", frame # <<>>,
         frame' = Tail(frame), UNCHANGED <<system, requests, bat_dcb_count, bat_dcb_start, pc>>,
         shown' = shown, {"bat", "dcb"} \subseteq mixed'
  PROVE  CountsOK' /\ ModulesOK'
<1>1. PICK r : r = Head(frame)
  OBVIOUS
<1>2. \A i \in 1..Len(frame') : frame'[i] = frame[i + 1] /\ i + 1 \in 1..Len(frame)
  BY <1>1, NextRequest
<1>3. /\ There' = There /\ There \in Nat /\ There <= Len(system.strings)
      /\ Len(system.strings) \in Nat /\ There <= system.battery_strings
      /\ system.battery_strings \in Nat
  BY SystemIs DEF There, AtMost
<1>4. \A n : First(n)' = First(n) /\ StringOf(n)' = StringOf(n)
  BY DEF First, StringOf
<1>5. PICK T \in Nat, spec \in BOOLEAN : FrameFits(T, spec)
  BY DEF FrameOK
<1>6. ASSUME NEW i \in 1..Len(frame), frame[i].kind = "bat"  PROVE frame[i].index \in Nat
  <2>0. PICK g : g = frame[i]
    OBVIOUS
  <2>1. PICK b \in Nat : b = Len(frame) - i /\ g = frame[i]
    <3>1. PICK q \in Nat : q = Len(frame)
      BY <1>5 DEF FrameFits
    <3>2. i \in 1..q
      BY <3>1
    <3>3. q - i \in Nat
      BY <3>2
    <3>4. QED
      BY <2>0, <3>1, <3>3
  <2>2. Fits(g, b, T, spec)
    BY <1>5, <2>1 DEF FrameFits
  <2>3. g.kind = "bat"
    BY <1>6, <2>1
  <2>4. g \in BatType
    BY <2>2, <2>3, FitsBat
  <2>5. g.index \in Nat
    BY <2>4 DEF BatType
  <2>6. QED
    BY <2>1, <2>5
<1>7. (\A j \in 0..(system.battery_strings - 1) : bat_dcb_count[j] > 0 =>
         j < There /\ bat_dcb_count[j] = system.strings[j + 1] /\ bat_dcb_start[j] = First(j))'
  BY <1>3, <1>4 DEF CountsOK
<1>8. ASSUME NEW i \in 1..Len(frame'), frame'[i].kind = "bat", frame'[i].index < There
      PROVE  /\ frame'[i].count <=> bat_dcb_count[frame'[i].index] = 0
             /\ ~frame'[i].count
             /\ frame'[i].modules > 0 =>
                  frame'[i].modules = system.strings[frame'[i].index + 1]
  <2>1. PICK j : j = i + 1 /\ j \in 1..Len(frame) /\ frame'[i] = frame[j]
    BY <1>2
  <2>2. /\ frame[j].count <=> bat_dcb_count[frame[j].index] = 0
        /\ frame[j].modules > 0 => frame[j].modules = system.strings[frame[j].index + 1]
    BY <1>8, <2>1 DEF CountsOK
  <2>3. PICK n \in Nat : n = frame[j].index /\ n < There
    BY <1>6, <1>8, <2>1
  <2>4. n \in 0..(system.battery_strings - 1) /\ n < Len(system.strings)
    BY <1>3, <2>3
  <2>5. bat_dcb_count[n] > 0 /\ bat_dcb_count[n] \in Nat
    BY <2>4 DEF CountsKnown, DevTypeOK
  <2>6. ~frame[j].count
    BY <2>2, <2>3, <2>5
  <2>7. QED
    BY <2>1, <2>2, <2>6
<1>9. CountsOK'
  BY <1>3, <1>7, <1>8 DEF CountsOK
<1>10. ModulesOK'
  <2>1. \A k \in {"dcb", "cell"}, c \in Nat : <<k, c>> \in DOMAIN shown =>
           /\ There > 0 /\ StringOf(c) < There
           /\ StringOf(c) = 1 => c - system.strings[1] < system.strings[2]
    BY DEF ModulesOK
  <2>2. QED
    BY <1>3, <1>4, <2>1 DEF ModulesOK
<1>11. QED
  BY <1>9, <1>10

(* A device answers with an error.                                            *)
LEMMA RefuseStep ==
  ASSUME DevInv, Refuse
  PROVE  DevInv'
<1>1. DevTypeOK /\ FrameOK /\ TopicsOK /\ PlainOK("pm") /\ PlainOK("wb") /\ BatsOK /\ PvOK
  BY DEF DevInv
<1>2. PICK r : r = Head(frame)
  OBVIOUS
<1>3. PICK code \in ErrorCodes :
        /\ pc = "answers" /\ frame # <<>> /\ frame' = Tail(frame)
        /\ IF IsThere(r)
           THEN /\ code # NOT_AVAILABLE
                /\ mixed' = mixed \cup
                     (IF r.kind = "bat"
                      THEN {"bat", "dcb"} \cup (IF r.spec THEN {"spec"} ELSE {})
                             \cup (IF CountsKnown THEN {} ELSE {"counts"})
                      ELSE {r.kind})
           ELSE code = NOT_AVAILABLE /\ mixed' = mixed
        /\ battery_strings' = LessStrings(r, code)
        /\ UNCHANGED <<system, new, bat_dcb_count, bat_dcb_start, pvi_tracker, requests, pc, nr,
                       cache, raw>>
  BY <1>2 DEF Refuse
<1>4. /\ UNCHANGED <<system, requests, bat_dcb_count, bat_dcb_start, pc, nr, new, pvi_tracker>>
      /\ shown' = shown /\ topic' = topic /\ rawData' = rawData /\ handled' = handled
  BY <1>3 DEF cache, raw
<1>5. r.kind \in {"bat", "pv", "pm", "wb"}
  BY <1>1, <1>2, <1>3, <1>4, NextRequest
<1>6. mixed \subseteq mixed'
  BY <1>3
<1>7. /\ IsThere(r) => r.kind \in mixed' /\ (r.kind = "bat" /\ r.spec => "spec" \in mixed')
      /\ "bat" \in mixed' => "bat" \in mixed \/ (r.kind = "bat" /\ IsThere(r))
  <2>1. CASE IsThere(r) /\ r.kind = "bat"
    BY <1>3, <2>1
  <2>2. CASE IsThere(r) /\ r.kind # "bat"
    BY <1>3, <2>2
  <2>3. CASE ~IsThere(r)
    <3>1. mixed' = mixed
      BY <1>3, <2>3
    <3>2. "bat" \in mixed' => "bat" \in mixed
      BY <3>1
    <3>3. QED
      BY <2>3, <3>2
  <2>4. QED
    BY <2>1, <2>2, <2>3
<1>8. /\ FrameOK' /\ battery_strings' \in Nat \ {0} /\ There <= battery_strings'
      /\ battery_strings' <= battery_strings
  <2>1. IsThere(r) => code # NOT_AVAILABLE
    BY <1>3
  <2>2. ~IsThere(r) => code = NOT_AVAILABLE
    BY <1>3
  <2>3. UNCHANGED <<system, requests, nr, pc>> /\ battery_strings' = LessStrings(r, code)
    BY <1>3, <1>4
  <2>4. QED
    BY <1>1, <1>2, <1>3, <1>6, <1>7, <2>1, <2>2, <2>3, RefusedFrame
<1>9. There' = There /\ \A j : TopicLimit(j)' = TopicLimit(j) /\ InFrame(j)' = InFrame(j)
  BY <1>4 DEF There, AtMost, TopicLimit, InFrame, Pms, Wbs
<1>10. DevTypeOK'
  <2>1. battery_strings' <= system.battery_strings
    <3>1. /\ battery_strings \in Nat /\ system.battery_strings \in Nat
          /\ battery_strings <= system.battery_strings
      BY <1>1, SystemIs DEF DevTypeOK
    <3>2. QED
      BY <1>8, <3>1
  <2>2. QED
    BY <1>1, <1>4, <1>8, <1>9, <2>1 DEF DevTypeOK
<1>11. TopicsOK'
  BY <1>1, <1>4, <1>9 DEF TopicsOK
<1>12. ASSUME NEW k \in Counted  PROVE PlainOK(k)'
  <2>1. PlainOK(k)
    BY <1>1 DEF Counted, BatsOK
  <2>2. \A c : Awaited(k, c)' <=> Awaited(k, c)
    BY <1>4, <1>9 DEF Awaited
  <2>3. \A c : DeviceOf(k, c)' = DeviceOf(k, c)
    BY <1>4 DEF DeviceOf, StringWith, Before
  <2>4. QED
    BY <1>4, <1>6, <1>9, <2>1, <2>2, <2>3 DEF PlainOK
<1>13. BatsOK'
  <2>1. PlainOK("bat")'
    BY <1>12 DEF Counted
  <2>2. QED
    BY <1>1, <1>4, <1>6, <1>9, <2>1 DEF BatsOK
<1>14. PvOK'
  BY <1>1, <1>4 DEF PvOK
<1>15. ASSUME CountsOK, ModulesOK, "counts" \notin mixed'  PROVE CountsOK' /\ ModulesOK'
  <2>1. CASE IsThere(r) /\ r.kind = "bat"
    <3>1. CountsKnown /\ {"bat", "dcb"} \subseteq mixed'
      BY <1>3, <1>15, <2>1
    <3>2. QED
      BY <1>1, <1>3, <1>4, <1>15, <3>1, StringRefused
  <2>2. CASE ~(IsThere(r) /\ r.kind = "bat")
    <3>1. \A x \in {"bat", "dcb"} : x \in mixed' <=> x \in mixed
      BY <1>3, <1>5, <2>2
    <3>2. Head(frame).kind = "bat" => Len(system.strings) <= Head(frame).index
      <4>1. SUFFICES ASSUME r.kind = "bat" PROVE Len(system.strings) <= r.index
        BY <1>2
      <4>2. ~(r.index < Len(system.strings))
        BY <2>2, <4>1 DEF IsThere
      <4>3. r \in BatType /\ Len(system.strings) \in Nat
        BY <1>1, <1>2, <1>3, <1>4, <4>1, NextRequest, SystemIs
      <4>4. r.index \in Nat
        BY <4>3 DEF BatType
      <4>5. QED
        BY <4>2, <4>3, <4>4
    <3>3. \A x \in {"dcb", "cell"}, c \in Nat : <<x, c>> \in DOMAIN shown' =>
            /\ <<x, c>> \in DOMAIN shown
            /\ shown'[<<x, c>>] # <<>> => shown'[<<x, c>>] = shown[<<x, c>>]
      BY <1>4
    <3>4. UNCHANGED <<system, requests, bat_dcb_count, bat_dcb_start, pc>>
          /\ nr'["bat"] = nr["bat"] /\ frame' = Tail(frame)
      BY <1>3, <1>4
    <3>5. QED
      BY <1>1, <1>3, <1>15, <3>1, <3>2, <3>3, <3>4, StringsUntouched
  <2>3. QED
    BY <2>1, <2>2
<1>16. "counts" \notin mixed' => "counts" \notin mixed
  BY <1>6
<1>17. QED
  BY <1>4, <1>8, <1>10, <1>11, <1>12, <1>13, <1>14, <1>15, <1>16 DEF DevInv, Counted

(* The values in the answer about a battery string.                           *)
BatValues(r, n, d, first, count) ==
  Over([e \in {<<"bat", n>>} \cup (IF r.spec THEN {<<"spec", n>>} ELSE {}) |-> d],
       [e \in {"dcb", "cell"} \X {first + m : m \in {m \in 0..(r.modules - 1) : m < count}} |->
          <<"dcb", r.index, e[2] - first>>])

(* Which entries they have, and of which device.                              *)
ValuesAre(r, n, d, first, count, v) ==
  /\ \A c : <<"bat", c>> \in DOMAIN v <=> c = n
  /\ v[<<"bat", n>>] = d
  /\ \A c : <<"spec", c>> \in DOMAIN v => r.spec /\ c = n /\ v[<<"spec", c>>] = d
  /\ \A k \in {"pv", "pm", "wb"} : \A c : <<k, c>> \notin DOMAIN v
  /\ \A k \in {"dcb", "cell"}, c \in Nat :
       /\ <<k, c>> \in DOMAIN v <=> (first <= c /\ c - first < r.modules /\ c - first < count)
       /\ <<k, c>> \in DOMAIN v => v[<<k, c>>] = <<"dcb", r.index, c - first>>

(* They have these.                                                           *)
LEMMA BatValuesAre ==
  ASSUME NEW r \in BatType, NEW n \in Nat, NEW d, NEW first \in Nat, NEW count \in Nat,
         NEW v, v = BatValues(r, n, d, first, count)
  PROVE  ValuesAre(r, n, d, first, count, v)
<1> DEFINE own == {<<"bat", n>>} \cup (IF r.spec THEN {<<"spec", n>>} ELSE {})
           places == {first + m : m \in {m \in 0..(r.modules - 1) : m < count}}
<1>1. r.modules \in Nat /\ r.index \in Nat
  BY DEF BatType
<1>2. \A c \in Nat : c \in places <=> (first <= c /\ c - first < r.modules /\ c - first < count)
  <2> TAKE c \in Nat
  <2>1. PICK l \in Nat : l = r.modules
    BY <1>1
  <2>2. ASSUME first <= c, c - first < l, c - first < count  PROVE c \in places
    <3>1. c - first \in {m \in 0..(l - 1) : m < count} /\ c = first + (c - first)
      BY <2>2
    <3>2. QED
      BY <2>1, <3>1
  <2>3. ASSUME c \in places  PROVE first <= c /\ c - first < l /\ c - first < count
    <3>1. PICK m \in 0..(l - 1) : m < count /\ c = first + m
      BY <2>1, <2>3
    <3>2. QED
      BY <3>1
  <2>4. QED
    BY <2>1, <2>2, <2>3
<1>3. \A x, c : <<x, c>> \in own <=> (c = n /\ (x = "bat" \/ (x = "spec" /\ r.spec)))
  <2>1. CASE r.spec
    <3>1. own = {<<"bat", n>>, <<"spec", n>>}
      BY <2>1
    <3>2. QED
      BY <2>1, <3>1
  <2>2. CASE ~r.spec
    <3>1. own = {<<"bat", n>>}
      BY <2>2
    <3>2. QED
      BY <2>2, <3>1
  <2>3. QED
    BY <2>1, <2>2
<1>4. v = Over([e \in own |-> d],
               [e \in {"dcb", "cell"} \X places |-> <<"dcb", r.index, e[2] - first>>])
  BY DEF BatValues
<1> HIDE DEF own, places
<1>5. /\ DOMAIN v = own \cup ({"dcb", "cell"} \X places)
      /\ \A e \in DOMAIN v : v[e] = IF e \in own THEN d ELSE <<"dcb", r.index, e[2] - first>>
  BY <1>4 DEF Over
<1>6. \A x, c : <<x, c>> \in {"dcb", "cell"} \X places <=> (x \in {"dcb", "cell"} /\ c \in places)
  OBVIOUS
<1>7. \A x, c : <<x, c>> \in DOMAIN v <=>
        \/ (c = n /\ x = "bat")
        \/ (c = n /\ x = "spec" /\ r.spec)
        \/ (x \in {"dcb", "cell"} /\ c \in places)
  <2> TAKE x, c
  <2>1. <<x, c>> \in DOMAIN v <=> (<<x, c>> \in own \/ <<x, c>> \in {"dcb", "cell"} \X places)
    BY <1>5
  <2>2. <<x, c>> \in own <=> (c = n /\ (x = "bat" \/ (x = "spec" /\ r.spec)))
    BY <1>3
  <2>3. <<x, c>> \in {"dcb", "cell"} \X places <=> (x \in {"dcb", "cell"} /\ c \in places)
    BY <1>6
  <2>4. QED
    BY <2>1, <2>2, <2>3
<1>8. /\ \A c : <<"bat", c>> \in DOMAIN v <=> c = n
      /\ \A c : <<"spec", c>> \in DOMAIN v => r.spec /\ c = n
      /\ \A k \in {"pv", "pm", "wb"} : \A c : <<k, c>> \notin DOMAIN v
  BY <1>7
<1>9. v[<<"bat", n>>] = d /\ \A c : <<"spec", c>> \in DOMAIN v => v[<<"spec", c>>] = d
  BY <1>3, <1>5, <1>8
<1>10. ASSUME NEW k \in {"dcb", "cell"}, NEW c \in Nat
       PROVE  /\ <<k, c>> \in DOMAIN v <=>
                    (first <= c /\ c - first < r.modules /\ c - first < count)
              /\ <<k, c>> \in DOMAIN v => v[<<k, c>>] = <<"dcb", r.index, c - first>>
  <2>1. <<k, c>> \in DOMAIN v <=> c \in places
    BY <1>7
  <2>2. <<k, c>> \notin own
    BY <1>3
  <2>3. <<k, c>> \in DOMAIN v => v[<<k, c>>] = <<"dcb", r.index, c - first>>
    BY <1>5, <2>2
  <2>4. QED
    BY <1>2, <2>1, <2>3
<1>11. QED
  BY <1>8, <1>9, <1>10 DEF ValuesAre

(* The topics of the modules of a string.                                     *)
LEMMA ModuleTopicsAre ==
  ASSUME NEW first \in Nat, NEW count \in Nat, NEW t, t = ModuleTopics(first, first + count)
  PROVE  /\ \A e \in DOMAIN t : /\ e = <<e[1], e[2]>> /\ e[1] \in {"dcb", "cell"} /\ e[2] \in Nat
                                /\ t[e] = e[2] + 1 \/ (e[1] = "cell" /\ t[e] = 0)
         /\ \A k, c : <<k, c>> \in DOMAIN t =>
              k \in {"dcb", "cell"} /\ c \in Nat /\ first <= c /\ c - first < count
<1>1. /\ DOMAIN t = {"dcb", "cell"} \X (first..(first + count - 1))
      /\ \A e \in DOMAIN t : t[e] = IF e[1] = "cell" /\ first + count = 1 THEN 0 ELSE e[2] + 1
  BY DEF ModuleTopics
<1>2. \A e \in DOMAIN t : /\ e = <<e[1], e[2]>> /\ e[1] \in {"dcb", "cell"}
                          /\ e[2] \in first..(first + count - 1)
  BY <1>1
<1>3. \A c \in first..(first + count - 1) : c \in Nat /\ first <= c /\ c - first < count
  OBVIOUS
<1>4. \A k, c : <<k, c>> \in DOMAIN t => k \in {"dcb", "cell"} /\ c \in first..(first + count - 1)
  BY <1>1
<1>5. QED
  BY <1>1, <1>2, <1>3, <1>4

(* What the answer about a string does, with all that it uses.                *)
BatTaken(r, n, d, first, count, v) ==
  /\ r = Head(frame) /\ r.kind = "bat" /\ r \in BatType
  /\ r.index < There /\ r.index < Len(system.strings)
  /\ n \in Nat /\ n = nr["bat"] /\ n <= r.index
  /\ "bat" \notin mixed => n = r.index
  /\ r.spec /\ "spec" \notin mixed => "bat" \notin mixed
  /\ d = <<"bat", r.index, 0>>
  /\ first \in Nat /\ first = IF r.count THEN FirstModule(n) ELSE bat_dcb_start[n]
  /\ count \in Nat \ {0} /\ count = system.strings[r.index + 1]
  /\ v = BatValues(r, n, d, first, count) /\ shown' = Store(v, topic')
  /\ r.count => /\ bat_dcb_count' = [bat_dcb_count EXCEPT ![n] = count]
                /\ bat_dcb_start' = [bat_dcb_start EXCEPT ![n] = first]
                /\ topic' = Over(topic, ModuleTopics(first, first + count))
  /\ ~r.count => UNCHANGED <<bat_dcb_count, bat_dcb_start, topic>>
  /\ nr' = [nr EXCEPT !["bat"] = @ + 1] /\ MergeRaw("bat", d) /\ pvi_tracker' = pvi_tracker

(* Every answer about a string does that.                                     *)
LEMMA BatTakes ==
  ASSUME DevTypeOK, FrameOK, Answer, Head(frame).kind = "bat"
  PROVE  \E r, n, d, first, count, v : BatTaken(r, n, d, first, count, v)
<1>1. PICK r : r = Head(frame)
  OBVIOUS
<1>2. /\ pc = "answers" /\ frame # <<>> /\ IsThere(r) /\ frame' = Tail(frame)
      /\ BatAnswer(r) /\ r.kind = "bat" /\ UNCHANGED <<system, requests>>
  BY <1>1 DEF Answer
<1>3. r.index < Len(system.strings)
  BY <1>2 DEF IsThere
<1>4. /\ r \in BatType /\ r.index < There /\ nr["bat"] <= r.index
      /\ "bat" \notin mixed => nr["bat"] = r.index
      /\ r.spec /\ "spec" \notin mixed => "bat" \notin mixed
  BY <1>1, <1>2, <1>3, NextRequest
<1>5. PICK n \in Nat : n = nr["bat"]
  BY DEF DevTypeOK, Counted
<1>6. r.index \in Nat /\ r.count \in BOOLEAN
  BY <1>4 DEF BatType
<1>7. /\ system.strings \in Seq(Nat \ {0}) /\ There <= system.battery_strings /\ There \in Nat
      /\ Len(system.strings) \in Nat /\ system.battery_strings \in Nat
  BY SystemIs
<1>8. n \in 0..(system.battery_strings - 1) /\ r.index + 1 \in 1..Len(system.strings)
  BY <1>3, <1>4, <1>5, <1>6, <1>7
<1>9. PICK count \in Nat \ {0} : count = system.strings[r.index + 1]
  BY <1>7, <1>8
<1>10. FirstModule(n) \in Nat /\ bat_dcb_start[n] \in Nat
  <2>1. bat_dcb_start[n] \in Nat
    BY <1>8 DEF DevTypeOK
  <2>2. CASE n = 0
    BY <2>1, <2>2 DEF FirstModule
  <2>3. CASE n # 0
    <3>1. n - 1 \in 0..(system.battery_strings - 1)
      BY <1>7, <1>8, <2>3
    <3>2. bat_dcb_count[n - 1] \in Nat
      BY <3>1 DEF DevTypeOK
    <3>3. QED
      BY <2>1, <2>3, <3>2 DEF FirstModule
  <2>4. QED
    BY <2>2, <2>3
<1>11. PICK first \in Nat : first = IF r.count THEN FirstModule(n) ELSE bat_dcb_start[n]
  BY <1>10
<1>12. PICK d : d = <<"bat", r.index, 0>>
  OBVIOUS
<1>13. PICK v : v = BatValues(r, n, d, first, count)
  OBVIOUS
<1>14. /\ shown' = Store(v, topic') /\ nr' = [nr EXCEPT !["bat"] = @ + 1]
       /\ MergeRaw("bat", d) /\ pvi_tracker' = pvi_tracker
  BY <1>2, <1>5, <1>9, <1>11, <1>12, <1>13 DEF BatAnswer, BatValues
<1>15. /\ r.count => /\ bat_dcb_count' = [bat_dcb_count EXCEPT ![n] = count]
                     /\ bat_dcb_start' = [bat_dcb_start EXCEPT ![n] = first]
                     /\ topic' = Over(topic, ModuleTopics(first, first + count))
       /\ ~r.count => UNCHANGED <<bat_dcb_count, bat_dcb_start, topic>>
  BY <1>2, <1>5, <1>9, <1>11 DEF BatAnswer
<1>16. BatTaken(r, n, d, first, count, v)
  BY <1>1, <1>2, <1>3, <1>4, <1>5, <1>9, <1>11, <1>12, <1>13, <1>14, <1>15 DEF BatTaken
<1>17. QED
  BY <1>16

(* How many modules a string has, and where they begin, is learned right.     *)
LEMMA ModulesLearned ==
  ASSUME DevTypeOK, FrameOK, TopicsOK, CountsOK, ModulesOK, Len(system.strings) <= 2,
         pc = "answers", frame # <<>>, frame' = Tail(frame),
         UNCHANGED <<system, requests, mixed, pc>>,
         NEW r, NEW n, NEW d, NEW first, NEW count, NEW v, BatTaken(r, n, d, first, count, v)
  PROVE  CountsOK' /\ ModulesOK'
<1>1. /\ r = Head(frame) /\ r.kind = "bat" /\ r \in BatType
      /\ r.index < There /\ n \in Nat /\ n = nr["bat"] /\ n <= r.index
      /\ "bat" \notin mixed => n = r.index
      /\ first \in Nat /\ count \in Nat \ {0} /\ count = system.strings[r.index + 1]
  BY DEF BatTaken
<1>2. r.index \in Nat /\ r.modules \in Nat
  BY <1>1 DEF BatType
<1>3. /\ r = frame[1] /\ 1 \in 1..Len(frame)
      /\ \A i \in 1..Len(frame') : frame'[i] = frame[i + 1] /\ i + 1 \in 1..Len(frame)
      /\ \A i \in 1..Len(frame) : i = 1 \/ (i - 1 \in 1..Len(frame') /\ frame'[i - 1] = frame[i])
      /\ \A i \in 1..Len(frame') : frame'[i].kind = "bat" =>
           frame'[i].index \in Nat /\ r.index < frame'[i].index
  BY <1>1, NextRequest
<1>4. /\ There' = There /\ There \in Nat /\ There <= 2 /\ There <= system.battery_strings
      /\ system.battery_strings \in Nat /\ system.strings \in Seq(Nat \ {0})
      /\ There <= Len(system.strings) /\ Len(system.strings) \in Nat
  BY SystemIs DEF There, AtMost
<1>5. /\ r.count <=> bat_dcb_count[r.index] = 0
      /\ r.count => r.modules = 0 /\ "bat" \notin mixed
      /\ r.modules > 0 => r.modules = count
  BY <1>1, <1>3 DEF CountsOK
<1>6. \A i : First(i)' = First(i) /\ StringOf(i)' = StringOf(i)
  BY DEF First, StringOf
<1>7. n \in 0..(system.battery_strings - 1) /\ r.index \in {0, 1}
  <2>1. PICK i \in Nat, m \in Nat, t \in Nat :
          i = r.index /\ m = There /\ t = system.battery_strings
    BY <1>2, <1>4
  <2>2. i < m /\ n <= i /\ m <= 2 /\ m <= t /\ n \in Nat
    BY <1>1, <1>4, <2>1
  <2>3. QED
    BY <2>1, <2>2
<1>8. "bat" \notin mixed => \A j \in 0..(n - 1) : bat_dcb_count[j] > 0
  BY <1>1 DEF CountsOK
<1>9. r.count => n = r.index /\ first = First(n)
  <2>1. SUFFICES ASSUME r.count PROVE n = r.index /\ first = First(n)
    OBVIOUS
  <2>2. n = r.index /\ first = FirstModule(n) /\ "bat" \notin mixed
    BY <1>1, <1>5, <2>1 DEF BatTaken
  <2>3. CASE n = 0
    BY <2>2, <2>3 DEF FirstModule, First
  <2>4. CASE n = 1
    <3>1. bat_dcb_count[0] > 0 /\ 0 \in 0..(system.battery_strings - 1)
      BY <1>4, <1>7, <1>8, <2>2, <2>4
    <3>2. bat_dcb_count[0] = system.strings[0 + 1]
      BY <3>1 DEF CountsOK
    <3>3. QED
      BY <2>2, <2>4, <3>2 DEF FirstModule, First
  <2>5. QED
    BY <1>7, <2>2, <2>3, <2>4
<1>10. ASSUME NEW j \in 0..(system.battery_strings - 1)
       PROVE  /\ bat_dcb_count'[j] = IF r.count /\ j = n THEN count ELSE bat_dcb_count[j]
              /\ bat_dcb_start'[j] = IF r.count /\ j = n THEN first ELSE bat_dcb_start[j]
              /\ bat_dcb_count[j] \in Nat
  <2>1. /\ bat_dcb_count \in [0..(system.battery_strings - 1) -> Nat]
        /\ bat_dcb_start \in [0..(system.battery_strings - 1) -> Nat]
    BY DEF DevTypeOK
  <2>2. CASE r.count
    <3>1. /\ bat_dcb_count' = [bat_dcb_count EXCEPT ![n] = count]
          /\ bat_dcb_start' = [bat_dcb_start EXCEPT ![n] = first]
      BY <2>2 DEF BatTaken
    <3>2. QED
      BY <2>1, <2>2, <3>1
  <2>3. CASE ~r.count
    BY <2>1, <2>3 DEF BatTaken
  <2>4. QED
    BY <2>2, <2>3
<1>11. nr'["bat"] = n + 1
  BY <1>1 DEF BatTaken, DevTypeOK, Counted
<1>12. CountsOK'
  <2>1. ASSUME NEW j \in 0..(system.battery_strings - 1), bat_dcb_count'[j] > 0
        PROVE  /\ j < There /\ bat_dcb_count'[j] = system.strings[j + 1]
               /\ bat_dcb_start'[j] = First(j)
    <3>1. CASE r.count /\ j = n
      BY <1>1, <1>9, <1>10, <3>1
    <3>2. CASE ~(r.count /\ j = n)
      BY <1>10, <2>1, <3>2 DEF CountsOK
    <3>3. QED
      BY <3>1, <3>2
  <2>2. ASSUME NEW i \in 1..Len(frame'), frame'[i].kind = "bat", frame'[i].index < There
        PROVE  /\ frame'[i].count <=> bat_dcb_count'[frame'[i].index] = 0
               /\ frame'[i].count => frame'[i].modules = 0 /\ "bat" \notin mixed
               /\ frame'[i].modules > 0 =>
                    frame'[i].modules = system.strings[frame'[i].index + 1]
    <3>1. PICK g, x \in Nat : g = i + 1 /\ g \in 1..Len(frame) /\ frame'[i] = frame[g]
                              /\ x = frame[g].index /\ r.index < x /\ x < There
      BY <1>3, <2>2
    <3>2. /\ frame[g].count <=> bat_dcb_count[x] = 0
          /\ frame[g].count => frame[g].modules = 0 /\ "bat" \notin mixed
          /\ frame[g].modules > 0 => frame[g].modules = system.strings[x + 1]
      BY <2>2, <3>1 DEF CountsOK
    <3>3. x \in 0..(system.battery_strings - 1) /\ ~(r.count /\ x = n)
      BY <1>2, <1>4, <1>9, <3>1
    <3>4. bat_dcb_count'[x] = bat_dcb_count[x]
      BY <1>10, <3>3
    <3>5. QED
      BY <3>1, <3>2, <3>4
  <2>3. ASSUME "bat" \notin mixed, NEW j \in 0..n  PROVE bat_dcb_count'[j] > 0
    <3>1. j \in 0..(system.battery_strings - 1)
      BY <1>1, <1>4, <1>7
    <3>2. CASE r.count /\ j = n
      BY <1>1, <1>10, <3>1, <3>2
    <3>3. CASE ~(r.count /\ j = n)
      <4>1. CASE j = n
        <5>1. bat_dcb_count[j] # 0
          BY <1>1, <1>5, <2>3, <3>3, <4>1
        <5>2. QED
          BY <1>10, <3>1, <3>3, <5>1
      <4>2. CASE j # n
        <5>1. j \in 0..(n - 1)
          BY <1>1, <4>2
        <5>2. QED
          BY <1>8, <1>10, <2>3, <3>1, <3>3, <5>1
      <4>3. QED
        BY <4>1, <4>2
    <3>4. QED
      BY <3>2, <3>3
  <2>4. "dcb" \notin mixed => "bat" \notin mixed
    BY DEF CountsOK
  <2>5. \A j \in 0..(nr'["bat"] - 1) : j \in 0..n
    BY <1>1, <1>11
  <2>6. QED
    BY <1>4, <1>6, <2>1, <2>2, <2>3, <2>4, <2>5 DEF CountsOK
<1>13. ASSUME NEW c \in Nat, n = r.index, First(n) <= c, c - First(n) < count
       PROVE  /\ StringOf(c) = n /\ First(n) \in Nat
              /\ StringOf(c) = 1 => c - system.strings[1] < system.strings[2]
  <2>1. PICK s \in Nat : s = system.strings[1]
    BY <1>1, <1>2, <1>4
  <2>2. CASE n = 0
    BY <1>1, <1>13, <2>1, <2>2 DEF First, StringOf
  <2>3. CASE n = 1
    <3>1. count = system.strings[2] /\ First(n) = s
      BY <1>1, <1>13, <2>1, <2>3 DEF First
    <3>2. s <= c /\ c - s < count
      BY <1>13, <3>1
    <3>3. StringOf(c) = 1
      BY <2>1, <3>2 DEF StringOf
    <3>4. QED
      BY <2>1, <2>3, <3>1, <3>2, <3>3
  <2>4. QED
    BY <1>7, <1>13, <2>2, <2>3
<1>14. /\ DOMAIN shown' = DOMAIN topic' /\ DOMAIN shown = DOMAIN topic
       /\ \A e \in DOMAIN shown' : shown'[e] # <<>> =>
            \/ e \in DOMAIN v /\ shown'[e] = <<v[e]>>
            \/ e \notin DOMAIN v /\ e \in DOMAIN shown /\ shown'[e] = shown[e]
  BY StoreIs DEF TopicsOK, BatTaken
<1>15. \A k \in {"dcb", "cell"}, c \in Nat :
         /\ <<k, c>> \in DOMAIN v <=> (first <= c /\ c - first < r.modules /\ c - first < count)
         /\ <<k, c>> \in DOMAIN v => v[<<k, c>>] = <<"dcb", r.index, c - first>>
  <2>1. count \in Nat /\ v = BatValues(r, n, d, first, count)
    BY <1>1 DEF BatTaken
  <2>2. r \in BatType /\ n \in Nat /\ first \in Nat
    BY <1>1
  <2>3. ValuesAre(r, n, d, first, count, v)
    BY <2>1, <2>2, BatValuesAre
  <2>4. QED
    BY <2>3 DEF ValuesAre
<1>16. \A k \in {"dcb", "cell"}, c \in Nat : <<k, c>> \in DOMAIN shown =>
         /\ There > 0 /\ StringOf(c) < There
         /\ StringOf(c) = 1 => c - system.strings[1] < system.strings[2]
  BY DEF ModulesOK
<1>17. ASSUME NEW k \in {"dcb", "cell"}, NEW c \in Nat, <<k, c>> \in DOMAIN shown'
       PROVE  /\ There > 0 /\ StringOf(c) < There
              /\ StringOf(c) = 1 => c - system.strings[1] < system.strings[2]
  <2>1. CASE <<k, c>> \in DOMAIN shown
    BY <1>16, <2>1
  <2>2. CASE <<k, c>> \notin DOMAIN shown
    <3>1. r.count
      BY <1>14, <1>17, <2>2 DEF BatTaken
    <3>2. PICK t : t = ModuleTopics(first, first + count)
      OBVIOUS
    <3>3. topic' = Over(topic, t)
      BY <3>1, <3>2 DEF BatTaken
    <3>4. <<k, c>> \in DOMAIN t
      BY <1>14, <1>17, <2>2, <3>3 DEF Over
    <3>5. first <= c /\ c - first < count
      <4>1. first \in Nat /\ count \in Nat
        BY <1>1
      <4>2. \A i, e : <<i, e>> \in DOMAIN t => first <= e /\ e - first < count
        BY <3>2, <4>1, ModuleTopicsAre
      <4>3. QED
        BY <3>4, <4>2
    <3>6. n = r.index /\ first = First(n)
      BY <1>9, <3>1
    <3>7. /\ StringOf(c) = n
          /\ StringOf(c) = 1 => c - system.strings[1] < system.strings[2]
      BY <1>13, <3>5, <3>6
    <3>8. QED
      BY <1>1, <1>2, <1>4, <3>6, <3>7
  <2>3. QED
    BY <2>1, <2>2
<1>18. r.modules > 0 => ~r.count /\ r.modules = count
  BY <1>2, <1>5
<1>19. ASSUME n = r.index, r.modules > 0  PROVE first = First(n)
  <2>1. ~r.count
    BY <1>18, <1>19
  <2>2. first = bat_dcb_start[n]
    BY <2>1 DEF BatTaken
  <2>3. bat_dcb_count[n] > 0
    BY <1>5, <1>7, <1>10, <1>19, <2>1
  <2>4. QED
    BY <1>7, <2>2, <2>3 DEF CountsOK
<1>20. ASSUME "dcb" \notin mixed, NEW k \in {"dcb", "cell"}, NEW c \in Nat,
              <<k, c>> \in DOMAIN shown', shown'[<<k, c>>] # <<>>
       PROVE  \/ shown'[<<k, c>>] = <<<<"dcb", StringOf(c), c - First(StringOf(c))>>>>
              \/ Asking(StringOf(c))'
  <2>1. n = r.index
    BY <1>1, <1>20 DEF CountsOK
  <2>2. CASE <<k, c>> \in DOMAIN v
    <3>1. /\ shown'[<<k, c>>] = <<<<"dcb", r.index, c - first>>>>
          /\ first <= c /\ c - first < r.modules /\ c - first < count
      BY <1>14, <1>15, <1>20, <2>2
    <3>2. r.modules > 0
      BY <1>1, <1>2, <3>1
    <3>3. first = First(n)
      BY <1>19, <2>1, <3>2
    <3>4. StringOf(c) = n
      BY <1>13, <2>1, <3>1, <3>3
    <3>5. QED
      BY <2>1, <3>1, <3>3, <3>4
  <2>3. CASE <<k, c>> \notin DOMAIN v
    <3>1. <<k, c>> \in DOMAIN shown /\ shown'[<<k, c>>] = shown[<<k, c>>]
      BY <1>14, <1>20, <2>3
    <3>2. \/ shown[<<k, c>>] = <<<<"dcb", StringOf(c), c - First(StringOf(c))>>>>
          \/ Asking(StringOf(c))
      BY <1>20, <3>1 DEF ModulesOK
    <3>3. ASSUME Asking(StringOf(c))  PROVE Asking(StringOf(c))'
      <4>1. PICK i \in 1..Len(frame) : /\ frame[i].kind = "bat" /\ frame[i].index = StringOf(c)
                                       /\ frame[i].modules > 0
        BY <3>3 DEF Asking
      <4>2. i # 1
        <5>1. SUFFICES ASSUME i = 1 PROVE FALSE
          OBVIOUS
        <5>2. n = StringOf(c) /\ r.modules > 0
          BY <1>3, <2>1, <4>1, <5>1
        <5>3. first = First(n) /\ r.modules = count
          BY <1>18, <1>19, <2>1, <5>2
        <5>4. first <= c /\ c - first < count
          <6>1. PICK s \in Nat : s = system.strings[1]
            BY <1>1, <1>2, <1>4
          <6>2. CASE n = 0
            <7>1. c < s
              BY <5>2, <6>1, <6>2 DEF StringOf
            <7>2. first = 0 /\ count = s
              BY <1>1, <2>1, <5>3, <6>1, <6>2 DEF First
            <7>3. QED
              BY <7>1, <7>2
          <6>3. CASE n = 1
            <7>1. ~(c < s)
              BY <5>2, <6>1, <6>3 DEF StringOf
            <7>2. first = s /\ count = system.strings[2]
              BY <1>1, <2>1, <5>3, <6>1, <6>3 DEF First
            <7>3. c - s < count
              BY <1>16, <3>1, <5>2, <6>1, <6>3, <7>2
            <7>4. QED
              BY <7>1, <7>2, <7>3
          <6>4. QED
            BY <1>7, <2>1, <6>2, <6>3
        <5>5. <<k, c>> \in DOMAIN v
          BY <1>15, <5>3, <5>4
        <5>6. QED
          BY <2>3, <5>5
      <4>3. i - 1 \in 1..Len(frame') /\ frame'[i - 1] = frame[i]
        BY <1>3, <4>2
      <4>4. QED
        BY <1>6, <4>1, <4>3 DEF Asking
    <3>4. QED
      BY <3>1, <3>2, <3>3
  <2>4. QED
    BY <2>2, <2>3
<1>21. ModulesOK'
  BY <1>4, <1>6, <1>17, <1>20 DEF ModulesOK
<1>22. QED
  BY <1>12, <1>21

(* The answer about a battery string.                                         *)
LEMMA BatStep ==
  ASSUME DevInv, Answer, Head(frame).kind = "bat"
  PROVE  DevInv'
<1>1. DevTypeOK /\ FrameOK /\ TopicsOK /\ PlainOK("pm") /\ PlainOK("wb") /\ BatsOK /\ PvOK
  BY DEF DevInv
<1>2. PICK r, n, d, first, count, v : BatTaken(r, n, d, first, count, v)
  BY <1>1, BatTakes
<1>3. /\ r = Head(frame) /\ r.kind = "bat" /\ r \in BatType
      /\ r.index < There /\ n \in Nat /\ n = nr["bat"] /\ n <= r.index
      /\ "bat" \notin mixed => n = r.index
      /\ r.spec /\ "spec" \notin mixed => "bat" \notin mixed
      /\ d = <<"bat", r.index, 0>>
      /\ first \in Nat /\ count \in Nat \ {0}
      /\ v = BatValues(r, n, d, first, count) /\ shown' = Store(v, topic')
      /\ nr' = [nr EXCEPT !["bat"] = @ + 1] /\ MergeRaw("bat", d) /\ pvi_tracker' = pvi_tracker
  BY <1>2 DEF BatTaken
<1>4. /\ pc = "answers" /\ frame # <<>> /\ frame' = Tail(frame) /\ IsThere(r)
      /\ UNCHANGED <<system, new, battery_strings, requests, pc, mixed>>
  BY <1>3 DEF Answer, bounds
<1>5. r.index \in Nat /\ d \in Device
  <2>1. r.index \in Nat
    BY <1>3 DEF BatType
  <2>2. QED
    BY <1>3, <2>1 DEF Device, Counted
<1>6. /\ There' = There /\ There \in Nat /\ There <= system.battery_strings
      /\ system.battery_strings \in Nat /\ \A j : TopicLimit(j)' = TopicLimit(j)
  BY <1>1, <1>4, SystemIs DEF There, AtMost, TopicLimit
<1>7. n < There
  BY <1>3, <1>5, <1>6
<1>8. ValuesAre(r, n, d, first, count, v)
  BY <1>3, BatValuesAre
<1>9. /\ \A j \in Counted : PlainOK(j)'
      /\ nr' \in [Counted -> Nat] /\ handled' = nr' /\ rawData' \in [Counted -> Seq(Device)]
      /\ Len(rawData["bat"]) <= There => Len(rawData'["bat"]) <= There
  <2>1. UNCHANGED <<system, requests, mixed, pc>>
    BY <1>4
  <2>2. \A j \in Counted : PlainOK(j)
    BY <1>1 DEF Counted, BatsOK
  <2>3. "bat" \in Counted /\ nr["bat"] < Bound("bat")
    BY <1>3, <1>7 DEF Counted, Bound
  <2>4. "bat" \notin mixed => d = DeviceOf("bat", nr["bat"] + 1)
    <3>1. SUFFICES ASSUME "bat" \notin mixed PROVE d = DeviceOf("bat", n + 1)
      BY <1>3
    <3>2. d = <<"bat", n, 0>> /\ (n + 1) - 1 = n
      BY <1>3, <3>1
    <3>3. QED
      BY <3>2 DEF DeviceOf
  <2>5. \A j \in Counted, c \in Nat : <<j, c>> \in DOMAIN v <=> j = "bat" /\ c = nr["bat"]
    BY <1>3, <1>8 DEF ValuesAre, Counted
  <2>6. v[<<"bat", nr["bat"]>>] = d
    BY <1>3, <1>8 DEF ValuesAre
  <2>7. nr' = [nr EXCEPT !["bat"] = @ + 1] /\ MergeRaw("bat", d) /\ shown' = Store(v, topic')
    BY <1>3
  <2>8. QED
    BY <1>1, <1>4, <1>5, <2>1, <2>2, <2>3, <2>4, <2>5, <2>6, <2>7, CountedAnswer
<1>10. DevTypeOK'
  <2>1. n \in 0..(system.battery_strings - 1)
    BY <1>3, <1>6, <1>7
  <2>2. /\ bat_dcb_count' \in [0..(system.battery_strings - 1) -> Nat]
        /\ bat_dcb_start' \in [0..(system.battery_strings - 1) -> Nat]
    <3>1. CASE r.count
      <4>1. /\ bat_dcb_count' = [bat_dcb_count EXCEPT ![n] = count]
            /\ bat_dcb_start' = [bat_dcb_start EXCEPT ![n] = first]
        BY <1>2, <3>1 DEF BatTaken
      <4>2. QED
        BY <1>1, <1>3, <2>1, <4>1 DEF DevTypeOK
    <3>2. CASE ~r.count
      BY <1>1, <1>2, <3>2 DEF BatTaken, DevTypeOK
    <3>3. QED
      BY <3>1, <3>2
  <2>3. QED
    BY <1>1, <1>3, <1>4, <1>6, <1>9, <2>2 DEF DevTypeOK
<1>11. FrameOK'
  <2>1. nr' = IF r.kind = "pv" THEN nr ELSE [nr EXCEPT ![r.kind] = @ + 1]
    BY <1>3
  <2>2. QED
    BY <1>1, <1>3, <1>4, <2>1, AnswerFrame
<1>12. /\ DOMAIN shown' = DOMAIN topic' /\ DOMAIN shown = DOMAIN topic
       /\ \A e \in DOMAIN shown' : shown'[e] # <<>> =>
            \/ e \in DOMAIN v /\ shown'[e] = <<v[e]>>
            \/ e \notin DOMAIN v /\ e \in DOMAIN shown /\ shown'[e] = shown[e]
  BY <1>1, <1>3, StoreIs DEF TopicsOK
<1>13. PICK t : t = ModuleTopics(first, first + count)
  OBVIOUS
<1>14. /\ \A e \in DOMAIN t : /\ e = <<e[1], e[2]>> /\ e[1] \in {"dcb", "cell"} /\ e[2] \in Nat
                              /\ t[e] = e[2] + 1 \/ (e[1] = "cell" /\ t[e] = 0)
       /\ \A k, c : <<k, c>> \in DOMAIN t => k \in {"dcb", "cell"}
  BY <1>3, <1>13, ModuleTopicsAre
<1>15. topic' = topic \/ topic' = Over(topic, t)
  BY <1>2, <1>13 DEF BatTaken
<1>16. ASSUME NEW e \in DOMAIN topic'
       PROVE  \/ e \in DOMAIN topic /\ topic'[e] = topic[e]
              \/ e \notin DOMAIN topic /\ e \in DOMAIN t /\ topic'[e] = t[e]
  BY <1>15, <1>16 DEF Over
<1>17. TopicsOK'
  <2>1. ASSUME NEW e \in DOMAIN topic'
        PROVE  /\ e = <<e[1], e[2]>> /\ e[1] \in Kinds /\ e[2] \in Nat
               /\ topic'[e] = e[2] + 1 \/ (e[1] = "cell" /\ topic'[e] = 0)
               /\ e[1] \in {"pm", "wb", "bat", "spec"} => e[2] < TopicLimit(e[1])
    <3>1. CASE e \in DOMAIN topic
      BY <1>1, <1>16, <3>1 DEF TopicsOK
    <3>2. CASE e \notin DOMAIN topic
      <4>1. e \in DOMAIN t /\ topic'[e] = t[e]
        BY <1>16, <3>2
      <4>2. /\ e = <<e[1], e[2]>> /\ e[1] \in {"dcb", "cell"} /\ e[2] \in Nat
            /\ t[e] = e[2] + 1 \/ (e[1] = "cell" /\ t[e] = 0)
        BY <1>14, <4>1
      <4>3. QED
        BY <4>1, <4>2 DEF Kinds
    <3>3. QED
      BY <3>1, <3>2
  <2>2. QED
    BY <1>6, <1>12, <2>1 DEF TopicsOK
<1>18. \A k, c : k \notin {"dcb", "cell"} /\ <<k, c>> \in DOMAIN shown' => <<k, c>> \in DOMAIN shown
  BY <1>12, <1>14, <1>16
<1>19. ASSUME NEW k \in {"bat", "spec"}, NEW c \in Nat,
              <<k, c>> \in DOMAIN shown', shown'[<<k, c>>] # <<>>
       PROVE  c < There
  <2>1. CASE <<k, c>> \in DOMAIN v
    BY <1>7, <1>8, <2>1 DEF ValuesAre
  <2>2. CASE <<k, c>> \notin DOMAIN v
    <3>1. <<k, c>> \in DOMAIN shown /\ shown[<<k, c>>] # <<>>
      BY <1>12, <1>19, <2>2
    <3>2. QED
      BY <1>1, <3>1 DEF BatsOK
  <2>3. QED
    BY <2>1, <2>2
<1>20. ASSUME "spec" \notin mixed, NEW c \in Nat,
              <<"spec", c>> \in DOMAIN shown', shown'[<<"spec", c>>] # <<>>
       PROVE  shown'[<<"spec", c>>] = <<<<"bat", c, 0>>>>
  <2>1. CASE <<"spec", c>> \in DOMAIN v
    <3>1. r.spec /\ c = n /\ v[<<"spec", c>>] = d
      BY <1>8, <2>1 DEF ValuesAre
    <3>2. n = r.index
      BY <1>3, <1>20, <3>1
    <3>3. shown'[<<"spec", c>>] = <<v[<<"spec", c>>]>>
      BY <1>12, <1>20, <2>1
    <3>4. QED
      BY <1>3, <3>1, <3>2, <3>3
  <2>2. CASE <<"spec", c>> \notin DOMAIN v
    <3>1. <<"spec", c>> \in DOMAIN shown /\ shown'[<<"spec", c>>] = shown[<<"spec", c>>]
      BY <1>12, <1>20, <2>2
    <3>2. QED
      BY <1>1, <1>20, <3>1 DEF BatsOK
  <2>3. QED
    BY <2>1, <2>2
<1>21. BatsOK'
  <2>1. PlainOK("bat")' /\ Len(rawData'["bat"]) <= There
    BY <1>1, <1>9 DEF Counted, BatsOK
  <2>2. QED
    BY <1>4, <1>6, <1>19, <1>20, <2>1 DEF BatsOK
<1>22. PvOK'
  <2>1. ASSUME NEW c \in Nat, <<"pv", c>> \in DOMAIN shown', shown'[<<"pv", c>>] # <<>>
        PROVE  shown'[<<"pv", c>>] = <<<<"pv", c, 0>>>>
    <3>1. <<"pv", c>> \notin DOMAIN v
      BY <1>8 DEF ValuesAre
    <3>2. <<"pv", c>> \in DOMAIN shown /\ shown'[<<"pv", c>>] = shown[<<"pv", c>>]
      BY <1>12, <2>1, <3>1
    <3>3. QED
      BY <1>1, <2>1, <3>2 DEF PvOK
  <2>2. QED
    BY <2>1 DEF PvOK
<1>23. ASSUME CountsOK, ModulesOK, Len(system.strings) <= 2  PROVE CountsOK' /\ ModulesOK'
  BY <1>1, <1>2, <1>4, <1>23, ModulesLearned
<1>24. QED
  BY <1>4, <1>9, <1>10, <1>11, <1>17, <1>21, <1>22, <1>23 DEF DevInv, Counted

(* Every step keeps the invariant.                                            *)
LEMMA DevStep ==
  ASSUME DevInv, [Next]_vars
  PROVE  DevInv'
<1>1. DevTypeOK /\ FrameOK
  BY DEF DevInv
<1>2. ASSUME pc' \in {"idle", "sent"}, pc = "answers" => frame = <<>>, FrameOK',
             UNCHANGED <<system, new, learned, nr, cache, raw, mixed>>,
             requests' \in [dcb : BOOLEAN, pm : BOOLEAN, pvi : BOOLEAN]
      PROVE  DevInv'
  BY <1>2, QuietStep
<1>3. requests \in [dcb : BOOLEAN, pm : BOOLEAN, pvi : BOOLEAN]
  BY <1>1 DEF DevTypeOK
<1>4. CASE Begin
  <2>1. pc' = "sent" /\ frame' = Requests
    BY <1>4 DEF Begin
  <2>2. Requests' = Requests
    BY <1>4 DEF Begin, Requests, BatRequest, PviRequest, learned
  <2>3. FrameOK'
    BY <2>1, <2>2 DEF FrameOK
  <2>4. /\ UNCHANGED <<system, new, learned, nr, cache, raw, mixed>> /\ requests' = requests
        /\ pc = "idle"
    BY <1>4 DEF Begin
  <2>5. QED
    BY <1>2, <1>3, <2>1, <2>3, <2>4
<1>5. CASE Arrive
  BY <1>5, ArriveStep
<1>6. CASE Lose
  <2>1. /\ UNCHANGED <<system, new, learned, nr, cache, raw, mixed>> /\ requests' = requests
        /\ pc = "sent" /\ pc' = "idle" /\ frame' = <<>>
    BY <1>6 DEF Lose
  <2>2. FrameOK'
    BY <2>1 DEF FrameOK
  <2>3. QED
    BY <1>2, <1>3, <2>1, <2>2
<1>7. CASE Refuse
  BY <1>7, RefuseStep
<1>8. CASE Answer
  <2>1. PICK r : r = Head(frame)
    OBVIOUS
  <2>2. r.kind \in {"bat", "pv", "pm", "wb"}
    <3>1. pc = "answers" /\ frame # <<>> /\ frame' = Tail(frame) /\ UNCHANGED <<system, requests>>
      BY <1>8 DEF Answer
    <3>2. QED
      BY <1>1, <2>1, <3>1, NextRequest
  <2>3. CASE r.kind = "bat"
    BY <1>8, <2>1, <2>3, BatStep
  <2>4. CASE r.kind = "pv"
    BY <1>8, <2>1, <2>4, PviStep
  <2>5. CASE r.kind \in Plain
    BY <1>8, <2>1, <2>5, PlainStep
  <2>6. QED
    BY <2>2, <2>3, <2>4, <2>5 DEF Plain
<1>9. CASE Done
  <2>1. /\ UNCHANGED <<system, new, learned, nr, cache, raw, mixed>> /\ requests' = requests
        /\ pc' = "idle" /\ frame = <<>> /\ frame' = frame
    BY <1>9 DEF Done
  <2>2. FrameOK'
    BY <2>1 DEF FrameOK
  <2>3. QED
    BY <1>2, <1>3, <2>1, <2>2
<1>10. ASSUME NEW k \in {"dcb", "pm", "pvi"}, Switch(k)  PROVE DevInv'
  <2>1. /\ UNCHANGED <<system, new, learned, nr, cache, raw, mixed>>
        /\ requests' = [requests EXCEPT ![k] = ~@]
        /\ pc = "idle" /\ pc' = "idle" /\ frame' = frame
    BY <1>10 DEF Switch
  <2>2. FrameOK'
    BY <1>1, <2>1 DEF FrameOK
  <2>3. requests' \in [dcb : BOOLEAN, pm : BOOLEAN, pvi : BOOLEAN]
    BY <1>3, <2>1
  <2>4. QED
    BY <1>2, <2>1, <2>2, <2>3
<1>11. CASE UNCHANGED vars
  <2>1. UNCHANGED <<system, new, learned, requests, pc, frame, nr, cache, raw, mixed>>
    BY <1>11 DEF vars
  <2>2. CASE pc \in {"idle", "sent"}
    <3>1. Requests' = Requests
      BY <2>1 DEF Requests, BatRequest, PviRequest, learned
    <3>2. FrameOK'
      BY <1>1, <2>1, <2>2, <3>1 DEF FrameOK
    <3>3. QED
      BY <1>2, <1>3, <2>1, <2>2, <3>2
  <2>3. CASE pc = "answers"
    <3>1. /\ UNCHANGED <<system, new, battery_strings, bat_dcb_count, bat_dcb_start, pvi_tracker,
                          requests, pc, frame, nr, topic, shown, rawData, handled, mixed>>
      BY <2>1 DEF learned, cache, raw
    <3>2. /\ There' = There /\ Pms' = Pms /\ Pvs' = Pvs /\ Wbs' = Wbs /\ Others' = Others
          /\ LeftBat' = LeftBat
      BY <3>1 DEF There, AtMost, Pms, Pvs, Wbs, Others, LeftBat
    <3>3. \A k : /\ Left(k)' = Left(k) /\ InFrame(k)' = InFrame(k) /\ TopicLimit(k)' = TopicLimit(k)
                 /\ First(k)' = First(k) /\ StringOf(k)' = StringOf(k)
      BY <3>1, <3>2 DEF Left, InFrame, TopicLimit, First, StringOf, AtMost
    <3>4. DevTypeOK' /\ TopicsOK' /\ PvOK'
      BY <3>1, <3>2, <3>3 DEF DevInv, DevTypeOK, TopicsOK, PvOK
    <3>5. FrameOK'
      <4>1. \A T, spec : FrameFits(T, spec)' = FrameFits(T, spec)
        BY <3>1, <3>2 DEF FrameFits, Fits, AtMost
      <4>2. QED
        BY <1>1, <2>3, <3>1, <3>3, <4>1 DEF FrameOK
    <3>6. \A k, c : /\ Awaited(k, c)' = Awaited(k, c)
                    /\ DeviceOf(k, c)' = DeviceOf(k, c)
      BY <3>1, <3>2, <3>3 DEF Awaited, DeviceOf, StringWith, Before
    <3>7. \A k : PlainOK(k)' = PlainOK(k)
      BY <3>1, <3>3, <3>6 DEF PlainOK
    <3>8. BatsOK' = BatsOK
      BY <3>1, <3>2, <3>7 DEF BatsOK
    <3>9. CountsOK' = CountsOK
      BY <3>1, <3>2, <3>3 DEF CountsOK
    <3>10. ModulesOK => ModulesOK'
      <4>1. \A j : Asking(j)' = Asking(j)
        BY <3>1 DEF Asking
      <4>2. \A c : Asking(StringOf(c))' = Asking(StringOf(c))
        BY <3>1, <3>3 DEF Asking
      <4>3. \A c : First(StringOf(c))' = First(StringOf(c))
        BY <3>1 DEF First, StringOf
      <4>4. QED
        BY <3>1, <3>2, <3>3, <4>2, <4>3 DEF ModulesOK
    <3>11. QED
      BY <3>1, <3>4, <3>5, <3>7, <3>8, <3>9, <3>10 DEF DevInv
  <2>4. QED
    BY <1>1, <2>2, <2>3 DEF DevTypeOK
<1>12. QED
  BY <1>4, <1>5, <1>6, <1>7, <1>8, <1>9, <1>10, <1>11 DEF Next

(* Before anything is asked.                                                  *)
LEMMA DevStart ==
  ASSUME Init
  PROVE  DevInv
<1>1. /\ system \in Systems /\ new = TRUE /\ battery_strings = system.battery_strings
      /\ bat_dcb_count = [i \in 0..(system.battery_strings - 1) |-> 0]
      /\ bat_dcb_start = [i \in 0..(system.battery_strings - 1) |-> 0]
      /\ pvi_tracker = system.pvi_tracker
      /\ requests \in [dcb : BOOLEAN, pm : BOOLEAN, pvi : BOOLEAN]
      /\ pc = "idle" /\ frame = <<>> /\ nr = [k \in Counted |-> 0]
      /\ topic = StartTopics(system) /\ shown = NoneShown(topic)
      /\ rawData = [k \in Counted |-> <<>>] /\ handled = [k \in Counted |-> 0] /\ mixed = {}
  <2>1. /\ system \in Systems /\ new = TRUE /\ battery_strings = system.battery_strings
        /\ bat_dcb_count = [i \in 0..(battery_strings - 1) |-> 0]
        /\ bat_dcb_start = [i \in 0..(battery_strings - 1) |-> 0]
        /\ pvi_tracker = system.pvi_tracker
    BY Zenon DEF Init
  <2>2. requests \in [dcb : BOOLEAN, pm : BOOLEAN, pvi : BOOLEAN]
    <3>1. requests \in {[dcb |-> d, pm |-> TRUE, pvi |-> TRUE] : d \in BOOLEAN}
      BY Zenon DEF Init
    <3>2. PICK b \in BOOLEAN : requests = [dcb |-> b, pm |-> TRUE, pvi |-> TRUE]
      BY <3>1
    <3>3. QED
      BY <3>2
  <2>3. /\ pc = "idle" /\ frame = <<>> /\ nr = [k \in Counted |-> 0]
        /\ topic = StartTopics(system) /\ shown = NoneShown(topic)
        /\ rawData = [k \in Counted |-> <<>>] /\ handled = [k \in Counted |-> 0] /\ mixed = {}
    BY Zenon DEF Init
  <2>4. QED
    BY <2>1, <2>2, <2>3
<1>2. /\ system.battery_strings \in Nat \ {0} /\ system.pvi_tracker \in Nat
      /\ Len(system.pm_indexes) \in Nat /\ Wbs \in Nat
      /\ There \in Nat /\ There <= system.battery_strings
  BY <1>1, SystemHas
<1>3. DevTypeOK
  <2>1. rawData \in [Counted -> Seq(Device)]
    BY <1>1
  <2>2. QED
    BY <1>1, <1>2, <2>1 DEF DevTypeOK
<1>4. FrameOK
  BY <1>1 DEF FrameOK
<1>5. DOMAIN shown = DOMAIN topic /\ \A e \in DOMAIN shown : shown[e] = <<>>
  BY <1>1 DEF NoneShown
<1>6. ASSUME NEW e \in DOMAIN topic
      PROVE  /\ e = <<e[1], e[2]>> /\ e[1] \in {"bat", "spec", "pv", "pm", "wb"} /\ e[2] \in Nat
             /\ topic[e] = e[2] + 1
             /\ e[1] \in {"pm", "wb", "bat", "spec"} => e[2] < TopicLimit(e[1])
  <2> DEFINE size(k) == CASE k \in {"bat", "spec"} -> system.battery_strings
                          [] k = "pv" -> system.pvi_tracker
                          [] k = "pm" -> Len(system.pm_indexes)
                          [] k = "wb" -> Len(system.wb_indexes)
  <2>1. topic = [x \in UNION {{k} \X (0..(size(k) - 1)) : k \in {"bat", "spec", "pv", "pm", "wb"}}
                   |-> x[2] + 1]
    BY <1>1 DEF StartTopics
  <2>2. \A k \in {"bat", "spec", "pv", "pm", "wb"} :
          size(k) \in Nat /\ (k # "pv" => size(k) = TopicLimit(k))
    <3>1. size("bat") \in Nat /\ size("bat") = TopicLimit("bat")
      BY <1>2 DEF TopicLimit
    <3>2. size("spec") \in Nat /\ size("spec") = TopicLimit("spec")
      BY <1>2 DEF TopicLimit
    <3>3. size("pv") \in Nat
      BY <1>2
    <3>4. size("pm") \in Nat /\ size("pm") = TopicLimit("pm")
      BY <1>2 DEF TopicLimit
    <3>5. size("wb") \in Nat /\ size("wb") = TopicLimit("wb")
      BY <1>2 DEF TopicLimit, Wbs
    <3>6. QED
      BY <3>1, <3>2, <3>3, <3>4, <3>5
  <2> HIDE DEF size
  <2>3. PICK k \in {"bat", "spec", "pv", "pm", "wb"} : e \in {k} \X (0..(size(k) - 1))
    BY <2>1
  <2>4. e = <<e[1], e[2]>> /\ e[1] = k /\ e[2] \in 0..(size(k) - 1) /\ topic[e] = e[2] + 1
    BY <2>1, <2>3
  <2>5. e[2] \in Nat /\ e[2] < size(k)
    BY <2>2, <2>4
  <2>6. QED
    BY <2>2, <2>4, <2>5
<1>7. TopicsOK
  BY <1>5, <1>6 DEF TopicsOK, Kinds
<1>8. ASSUME NEW k \in Counted  PROVE PlainOK(k)
  <2>1. rawData[k] = <<>> /\ Len(rawData[k]) = 0 /\ DOMAIN rawData[k] = {}
    BY <1>1
  <2>2. TopicLimit(k) \in Nat
    BY <1>2 DEF TopicLimit, Counted, Wbs
  <2>3. QED
    BY <1>1, <1>5, <2>1, <2>2 DEF PlainOK
<1>9. BatsOK
  <2>1. PlainOK("bat") /\ Len(rawData["bat"]) = 0
    BY <1>1, <1>8 DEF Counted
  <2>2. QED
    BY <1>2, <1>5, <2>1 DEF BatsOK
<1>10. PvOK
  BY <1>5 DEF PvOK
<1>11. CountsOK
  BY <1>1 DEF CountsOK
<1>12. ModulesOK
  <2>1. \A k \in {"dcb", "cell"}, c \in Nat : <<k, c>> \notin DOMAIN shown
    <3> TAKE k \in {"dcb", "cell"}, c \in Nat
    <3>1. PICK e : e = <<k, c>>
      OBVIOUS
    <3>2. e[1] \notin {"bat", "spec", "pv", "pm", "wb"}
      BY <3>1
    <3>3. QED
      BY <1>5, <1>6, <3>1, <3>2
  <2>2. QED
    BY <2>1 DEF ModulesOK
<1>13. QED
  BY <1>3, <1>4, <1>7, <1>8, <1>9, <1>10, <1>11, <1>12 DEF DevInv, Counted

(* Modules of the first strings.                                              *)
LEMMA BeforeIs ==
  ASSUME DevTypeOK
  PROVE  /\ Before(0) = 0
         /\ Len(system.strings) >= 1 => Before(1) = system.strings[1]
         /\ Len(system.strings) >= 2 => Before(2) = system.strings[1] + system.strings[2]
<1>1. system.strings \in Seq(Nat \ {0})
  BY SystemIs
<1>2. Before(0) = 0
  <2>1. UNION {{s} \X (1..system.strings[s]) : s \in 1..0} = {}
    OBVIOUS
  <2>2. QED
    BY <2>1, FS_EmptySet DEF Before
<1>3. ASSUME NEW s \in 1..Len(system.strings)
      PROVE  /\ IsFiniteSet({s} \X (1..system.strings[s]))
             /\ Cardinality({s} \X (1..system.strings[s])) = system.strings[s]
  <2>1. PICK n \in Nat \ {0} : n = system.strings[s]
    BY <1>1
  <2>2. IsFiniteSet(1..n) /\ Cardinality(1..n) = n
    BY FS_Interval
  <2>3. IsFiniteSet({s}) /\ Cardinality({s}) = 1
    BY FS_Singleton
  <2>4. IsFiniteSet({s} \X (1..n)) /\ Cardinality({s} \X (1..n)) = 1 * n
    BY <2>2, <2>3, FS_Product
  <2>5. QED
    BY <2>1, <2>4
<1>4. ASSUME Len(system.strings) >= 1  PROVE Before(1) = system.strings[1]
  <2>1. UNION {{s} \X (1..system.strings[s]) : s \in 1..1} = {1} \X (1..system.strings[1])
    OBVIOUS
  <2>2. 1 \in 1..Len(system.strings)
    BY <1>1, <1>4
  <2>3. QED
    BY <1>3, <2>1, <2>2 DEF Before
<1>5. ASSUME Len(system.strings) >= 2  PROVE Before(2) = system.strings[1] + system.strings[2]
  <2> DEFINE A == {1} \X (1..system.strings[1])
             B == {2} \X (1..system.strings[2])
  <2>1. 1..2 = {1, 2}
    OBVIOUS
  <2>2. UNION {{s} \X (1..system.strings[s]) : s \in {1, 2}} = A \cup B
    OBVIOUS
  <2>3. A \cap B = {}
    OBVIOUS
  <2>4. 1 \in 1..Len(system.strings) /\ 2 \in 1..Len(system.strings)
    BY <1>1, <1>5
  <2>5. /\ IsFiniteSet(A) /\ Cardinality(A) = system.strings[1]
        /\ IsFiniteSet(B) /\ Cardinality(B) = system.strings[2]
    BY <1>3, <2>4
  <2>6. system.strings[1] \in Nat /\ system.strings[2] \in Nat
    BY <1>1, <2>4
  <2> HIDE DEF A, B
  <2>7. Cardinality(A \cup B) = Cardinality(A) + Cardinality(B) - Cardinality(A \cap B)
    BY <2>5, FS_Union
  <2>8. Cardinality({}) = 0
    BY FS_EmptySet
  <2>9. QED
    BY <2>1, <2>2, <2>3, <2>5, <2>6, <2>7, <2>8 DEF Before
<1>6. QED
  BY <1>2, <1>4, <1>5

(* The module with a number.                                                  *)
LEMMA ModuleIs ==
  ASSUME DevTypeOK, Len(system.strings) <= 2, NEW k \in {"dcb", "cell"}, NEW c \in Nat,
         There > 0, StringOf(c) < There,
         StringOf(c) = 1 => c - system.strings[1] < system.strings[2]
  PROVE  DeviceOf(k, c + 1) = <<"dcb", StringOf(c), c - First(StringOf(c))>>
<1>1. /\ system.strings \in Seq(Nat \ {0}) /\ There \in Nat
      /\ Len(system.strings) \in Nat /\ There <= Len(system.strings)
  BY SystemIs
<1>2. PICK l \in {1, 2} : l = Len(system.strings)
  <2>1. PICK t \in Nat, n \in Nat : t = There /\ n = Len(system.strings)
    BY <1>1
  <2>2. t > 0 /\ t <= n /\ n <= 2
    BY <1>1, <2>1
  <2>3. n = 1 \/ n = 2
    BY <2>2
  <2>4. QED
    BY <2>1, <2>3
<1>3. PICK f \in Nat \ {0} : f = system.strings[1]
  BY <1>1, <1>2
<1>4. PICK x \in {0, 1} : x = StringOf(c) /\ x < l
  BY <1>1, <1>2 DEF StringOf
<1>5. /\ Before(0) = 0 /\ Before(1) = f
      /\ l = 2 => Before(2) = f + system.strings[2] /\ system.strings[2] \in Nat \ {0}
  <2>1. Before(0) = 0 /\ Before(1) = f
    BY <1>2, <1>3, BeforeIs
  <2>2. ASSUME l = 2  PROVE Before(2) = f + system.strings[2] /\ system.strings[2] \in Nat \ {0}
    <3>1. 2 \in 1..Len(system.strings) /\ Len(system.strings) >= 2
      BY <1>2, <2>2
    <3>2. system.strings[2] \in Nat \ {0}
      BY <1>1, <3>1
    <3>3. QED
      BY <1>3, <3>1, <3>2, BeforeIs
  <2>3. QED
    BY <2>1, <2>2
<1>6. \A s \in 1..l : (Before(s - 1) < c + 1 /\ c + 1 <= Before(s)) <=> s = x + 1
  <2>1. CASE x = 0
    <3>1. c < f
      BY <1>3, <1>4, <2>1 DEF StringOf
    <3>2. \A s \in 1..l : s = 1 \/ s = 2
      BY <1>2
    <3>3. Before(1 - 1) < c + 1 /\ c + 1 <= Before(1)
      BY <1>5, <3>1
    <3>4. ~(Before(2 - 1) < c + 1)
      BY <1>5, <3>1
    <3>5. QED
      BY <2>1, <3>2, <3>3, <3>4
  <2>2. CASE x = 1
    <3>1. ~(c < f) /\ l = 2
      BY <1>2, <1>3, <1>4, <2>2 DEF StringOf
    <3>2. c - f < system.strings[2]
      BY <1>3, <1>4, <2>2
    <3>3. \A s \in 1..l : s = 1 \/ s = 2
      BY <1>2
    <3>4. Before(2 - 1) < c + 1 /\ c + 1 <= Before(2)
      BY <1>5, <3>1, <3>2
    <3>5. ~(c + 1 <= Before(1))
      BY <1>5, <3>1
    <3>6. QED
      BY <2>2, <3>3, <3>4, <3>5
  <2>3. QED
    BY <1>4, <2>1, <2>2
<1>7. x + 1 \in 1..l
  BY <1>2, <1>4
<1>8. StringWith(c + 1) = x + 1
  BY <1>2, <1>6, <1>7 DEF StringWith
<1>9. PICK t \in Nat : t = c + 1
  OBVIOUS
<1>10. DeviceOf(k, t) = <<"dcb", StringWith(t) - 1, t - 1 - Before(StringWith(t) - 1)>>
  BY DEF DeviceOf
<1>11. StringWith(t) - 1 = x
  BY <1>8, <1>9
<1>12. Before(x) = First(x) /\ First(x) \in Nat
  BY <1>3, <1>4, <1>5 DEF First
<1>13. t - 1 - Before(x) = c - First(x)
  BY <1>9, <1>12
<1>14. DeviceOf(k, t) = <<"dcb", x, c - First(x)>>
  BY Zenon, <1>10, <1>11, <1>13
<1>15. QED
  BY <1>4, <1>9, <1>14

(* The invariant is enough.                                                   *)
LEMMA DevInPlace ==
  ASSUME DevInv
  PROVE  InPlace
<1>1. SUFFICES ASSUME pc = "idle", Len(system.strings) <= 2
      PROVE  /\ \A e \in DOMAIN shown :
                  (shown[e] # <<>> /\ Trusted(e[1]) /\ topic[e] > 0)
                    => shown[e] = <<DeviceOf(e[1], topic[e])>>
             /\ \A k \in Counted : Trusted(k) =>
                  \A i \in DOMAIN rawData[k] : rawData[k][i] = DeviceOf(k, i)
  BY DEF InPlace
<1>2. DevTypeOK /\ TopicsOK /\ PlainOK("pm") /\ PlainOK("wb") /\ BatsOK /\ PvOK
      /\ ("counts" \notin mixed => CountsOK /\ ModulesOK)
  BY <1>1 DEF DevInv
<1>3. \A k \in Counted : PlainOK(k) /\ k \notin {"dcb", "cell"}
  BY <1>2 DEF Counted, BatsOK
<1>4. \A k, c : ~Awaited(k, c)
  BY <1>1 DEF Awaited
<1>5. \A k \in Counted : Trusted(k) =>
        \A i \in DOMAIN rawData[k] : rawData[k][i] = DeviceOf(k, i)
  BY <1>3, <1>4 DEF PlainOK, Trusted
<1>6. ASSUME NEW e \in DOMAIN shown, shown[e] # <<>>, Trusted(e[1]), topic[e] > 0
      PROVE  shown[e] = <<DeviceOf(e[1], topic[e])>>
  <2>1. PICK k \in Kinds, c \in Nat : e = <<k, c>> /\ topic[e] = c + 1
    BY <1>2, <1>6 DEF TopicsOK
  <2>2. Trusted(k) /\ e[1] = k
    BY <1>6, <2>1
  <2>3. shown[<<k, c>>] # <<>> /\ <<k, c>> \in DOMAIN shown
    BY <1>6, <2>1
  <2>4. c + 1 - 1 = c
    OBVIOUS
  <2>5. CASE k \in Counted
    <3>1. k \notin mixed
      BY <1>3, <2>2, <2>5 DEF Trusted
    <3>2. shown[<<k, c>>] = <<DeviceOf(k, c + 1)>>
      BY <1>3, <1>4, <2>3, <2>5, <3>1 DEF PlainOK
    <3>3. QED
      BY <2>1, <2>2, <3>2
  <2>6. CASE k = "spec"
    <3>1. shown[<<k, c>>] = <<<<"bat", c, 0>>>>
      BY <1>2, <2>2, <2>3, <2>6 DEF BatsOK, Trusted
    <3>2. DeviceOf(k, c + 1) = <<"bat", c, 0>>
      BY <2>4, <2>6 DEF DeviceOf
    <3>3. QED
      BY <2>1, <2>2, <3>1, <3>2
  <2>7. CASE k = "pv"
    <3>1. shown[<<k, c>>] = <<<<"pv", c, 0>>>>
      BY <1>2, <2>3, <2>7 DEF PvOK
    <3>2. DeviceOf(k, c + 1) = <<"pv", c, 0>>
      BY <2>4, <2>7 DEF DeviceOf
    <3>3. QED
      BY <2>1, <2>2, <3>1, <3>2
  <2>8. CASE k \in {"dcb", "cell"}
    <3>1. "dcb" \notin mixed /\ "counts" \notin mixed
      BY <2>2, <2>8 DEF Trusted
    <3>2. ModulesOK
      BY <1>2, <3>1
    <3>3. shown[<<k, c>>] = <<<<"dcb", StringOf(c), c - First(StringOf(c))>>>>
      BY <1>1, <2>3, <2>8, <3>1, <3>2 DEF ModulesOK
    <3>4. /\ There > 0 /\ StringOf(c) < There
          /\ StringOf(c) = 1 => c - system.strings[1] < system.strings[2]
      BY <2>3, <2>8, <3>2 DEF ModulesOK
    <3>5. DeviceOf(k, c + 1) = <<"dcb", StringOf(c), c - First(StringOf(c))>>
      BY <1>1, <1>2, <2>8, <3>4, ModuleIs
    <3>6. QED
      BY <2>1, <2>2, <3>3, <3>5
  <2>9. QED
    BY <2>5, <2>6, <2>7, <2>8 DEF Kinds, Counted
<1>7. QED
  BY <1>5, <1>6

(* Every topic shows its own device, between the frames: InPlace for every    *)
(* system, and every sequence of answers, errors, lost frames and commands.   *)
THEOREM DevicesInPlace == Spec => []InPlace
<1>1. Init => DevInv
  BY DevStart
<1>2. DevInv /\ [Next]_vars => DevInv'
  BY DevStep
<1>3. DevInv => InPlace
  BY DevInPlace
<1>4. QED
  BY <1>1, <1>2, <1>3, PTL DEF Spec
=============================================================================
