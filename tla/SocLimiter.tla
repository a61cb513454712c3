----------------------------- MODULE SocLimiter -----------------------------
(***************************************************************************)
(* The battery SOC limiter: socLimiter looks at the values of the last     *)
(* answer and the limits, and locks charging or discharging by an idle     *)
(* period for today. What it has locked it keeps in two static flags; it   *)
(* never looks at the periods of the device.                               *)
(*                                                                         *)
(* Charging and discharging are the two sides. day_end is true in the last *)
(* minutes of the day; whether a cycle falls into them is up to the        *)
(* connection. Percents, watts and the 90 percent of the home power that   *)
(* release the lock are scaled down.                                       *)
(***************************************************************************)
EXTENDS Integers

CONSTANTS
  Soc,             \* states of charge: 0 is empty
  FullSoc,         \* 100
  Solar,           \* solar power
  SolarMin,        \* PV_SOLAR_MIN
  Home,            \* home power
  SocLimits,       \* limits that may be set; 0: off
  HomeLimits,
  MaxSets,         \* bound: number of limits set
  MaxDays,         \* bound: number of days
  MaxLosses        \* bound: number of requests lost

ASSUME LimiterAssumption ==
  /\ Soc \subseteq Nat /\ Solar \subseteq Nat /\ Home \subseteq Nat
  /\ FullSoc \in Nat \ {0} /\ SolarMin \in Nat \ {0}
  /\ SocLimits \subseteq Nat /\ HomeLimits \subseteq Nat
  /\ MaxSets \in Nat /\ MaxDays \in Nat /\ MaxLosses \in Nat

Side == {"charge", "discharge"}

VARIABLES
  soc, solar, home,          \* the values of the cache, 0 before the first answer
  socLimit,                  \* limit/charge/soc and limit/discharge/soc
  homeLimit,                 \* limit/discharge/by_home_power
  durable,                   \* limit/charge/durable and limit/discharge/durable
  locked,                    \* charge_locked and discharge_locked
  dayEnd,                    \* day_end: the last minutes of the day
  today,                     \* number of the day
  turn,                      \* "limit": createRequest is next; "answer": the answer is
  lockDay,                   \* device: the day for which a side is locked (0: none)
  sets, losses,              \* history: what the bounds are about
  astray,                    \* history: sides with an order lost, or locked over midnight
  closed                     \* history: a cycle fell into the end of this day

values == <<soc, solar, home>>
limits == <<socLimit, homeLimit, durable>>
clock == <<dayEnd, today>>
limiterVars == <<values, limits, clock, locked, turn, lockDay, sets, losses, astray, closed>>

LimiterInit ==
  /\ soc = 0 /\ solar = 0 /\ home = 0
  /\ socLimit = [d \in Side |-> 0] /\ homeLimit = 0
  /\ durable = [d \in Side |-> FALSE]
  /\ locked = [d \in Side |-> FALSE] /\ lockDay = [d \in Side |-> 0]
  /\ dayEnd = FALSE /\ today = 1 /\ turn = "limit"
  /\ sets = 0 /\ losses = 0 /\ astray = {} /\ closed = FALSE

-----------------------------------------------------------------------------
(* Commands: createRequest stores them before it calls socLimiter.         *)
Set == turn = "limit" /\ sets < MaxSets /\ sets' = sets + 1

SetSocLimit(d, l) ==
  /\ Set
  /\ socLimit' = [socLimit EXCEPT ![d] = l]
  /\ UNCHANGED <<values, homeLimit, durable, clock, locked, turn, lockDay, losses, astray, closed>>

SetHomeLimit(l) ==
  /\ Set
  /\ homeLimit' = l
  /\ UNCHANGED <<values, socLimit, durable, clock, locked, turn, lockDay, losses, astray, closed>>

SetDurable(d) ==
  /\ Set
  /\ durable' = [durable EXCEPT ![d] = ~@]
  /\ UNCHANGED <<values, socLimit, homeLimit, clock, locked, turn, lockDay, losses, astray, closed>>

-----------------------------------------------------------------------------
(* socLimiter.                                                             *)
ChargeLock ==
  /\ ~dayEnd /\ socLimit["charge"] # 0
  /\ solar >= SolarMin /\ soc >= socLimit["charge"] /\ soc # FullSoc

ChargeRelease_NoLimit ==                                          \* mutant
  dayEnd \/ solar = 0 \/ soc < socLimit["charge"] \/ soc = FullSoc
ChargeRelease ==
  dayEnd \/ solar = 0 \/ soc < socLimit["charge"] \/ soc = FullSoc \/ socLimit["charge"] = 0

BySoc == socLimit["discharge"] # 0 /\ soc <= socLimit["discharge"] /\ soc # 0
ByHome == homeLimit # 0 /\ home >= homeLimit

DischargeLock == ~dayEnd /\ (BySoc \/ ByHome)

\* 90 percent of the limit, in integers.
HomeRelease_Above == homeLimit + 1                                \* mutant
HomeRelease == (homeLimit * 9) \div 10

DischargeRelease_Awake ==                                         \* mutant
  \/ socLimit["discharge"] = 0 /\ homeLimit = 0
  \/ socLimit["discharge"] # 0 /\ soc > socLimit["discharge"]
  \/ soc = 0
  \/ homeLimit # 0 /\ home < HomeRelease
DischargeRelease ==
  \/ dayEnd
  \/ socLimit["discharge"] = 0 /\ homeLimit = 0
  \/ socLimit["discharge"] # 0 /\ soc > socLimit["discharge"]
  \/ soc = 0
  \/ homeLimit # 0 /\ home < HomeRelease

Lock(d) == IF d = "charge" THEN ChargeLock ELSE DischargeLock
Release(d) == IF d = "charge" THEN ChargeRelease ELSE DischargeRelease

Switched == {d \in Side : IF locked[d] THEN Release(d) ELSE Lock(d)}

\* At the end of the day a limit goes that is not durable.
AfterDay(d, l) == IF dayEnd /\ ~durable[d] THEN 0 ELSE l

\* storeSetIdlePeriod2 with a period for today, active or not.
Ordered_LockOnly(d) == today                                      \* mutant
Ordered(d) == IF locked[d] THEN 0 ELSE today

\* One call of createRequest. The flags change whether or not the order arrives.
Limit(arrives) ==
  /\ turn = "limit"
  /\ ~arrives => losses < MaxLosses /\ Switched # {}
  /\ losses' = IF arrives THEN losses ELSE losses + 1
  /\ locked' = [d \in Side |-> IF d \in Switched THEN ~locked[d] ELSE locked[d]]
  /\ lockDay' = [d \in Side |-> IF arrives /\ d \in Switched THEN Ordered(d) ELSE lockDay[d]]
  /\ astray' = IF arrives THEN astray \ Switched ELSE astray \cup Switched
  /\ socLimit' = [d \in Side |-> AfterDay(d, socLimit[d])]
  /\ homeLimit' = AfterDay("discharge", homeLimit)
  /\ closed' = (closed \/ dayEnd)
  /\ turn' = "answer"
  /\ UNCHANGED <<values, durable, clock, sets>>

\* The answer of the device brings its values.
Values(s, p, h) ==
  /\ turn = "answer"
  /\ soc' = s /\ solar' = p /\ home' = h
  /\ turn' = "limit"
  /\ UNCHANGED <<limits, clock, locked, lockDay, sets, losses, astray, closed>>

\* The clock that createRequest reads. Without a connection there is no cycle
\* before midnight.
DayEnds ==
  /\ turn = "limit" /\ ~dayEnd
  /\ dayEnd' = TRUE /\ closed' = FALSE
  /\ UNCHANGED <<values, limits, today, locked, turn, lockDay, sets, losses, astray>>

Midnight ==
  /\ turn = "limit" /\ dayEnd /\ today < MaxDays
  /\ dayEnd' = FALSE /\ today' = today + 1
  /\ astray' = astray \cup {d \in Side : locked[d]}
  /\ UNCHANGED <<values, limits, locked, turn, lockDay, sets, losses, closed>>

LimiterNext ==
  \/ \E d \in Side, l \in SocLimits : SetSocLimit(d, l)
  \/ \E l \in HomeLimits : SetHomeLimit(l)
  \/ \E d \in Side : SetDurable(d)
  \/ \E arrives \in BOOLEAN : Limit(arrives)
  \/ \E s \in Soc, p \in Solar, h \in Home : Values(s, p, h)
  \/ DayEnds \/ Midnight

LimiterSpec == LimiterInit /\ [][LimiterNext]_limiterVars

-----------------------------------------------------------------------------
(* Properties.                                                             *)

LimiterTypeOK ==
  /\ soc \in Soc \cup {0} /\ solar \in Solar \cup {0} /\ home \in Home \cup {0}
  /\ socLimit \in [Side -> SocLimits \cup {0}] /\ homeLimit \in HomeLimits \cup {0}
  /\ durable \in [Side -> BOOLEAN] /\ locked \in [Side -> BOOLEAN]
  /\ dayEnd \in BOOLEAN /\ today \in Nat /\ turn \in {"limit", "answer"}
  /\ lockDay \in [Side -> 0..today]
  /\ sets \in 0..MaxSets /\ losses \in 0..MaxLosses
  /\ astray \subseteq Side /\ closed \in BOOLEAN

\* The flags are all that socLimiter knows of the device: as long as no order was
\* lost and none was left over from another day, a side is locked on the device,
\* for today, exactly when its flag says so.
LockIsReal == \A d \in Side \ astray : lockDay[d] = IF locked[d] THEN today ELSE 0

\* With both discharge limits in use, each may release what the other has locked.
BothLimits == socLimit["discharge"] # 0 /\ homeLimit # 0

\* No values make a side lock and release in turn, cycle by cycle; but for two
\* discharge limits, and for the home power limit with an empty battery.
NoFlapping ==
  \A d \in Side : Lock(d) /\ Release(d) => d = "discharge" /\ (BothLimits \/ soc = 0)

\* After every cycle of the day the locks are what the limits and the values ask
\* for: at a limit a side is locked, and without a limit it is not.
LimitsHold ==
  turn = "answer" /\ ~dayEnd =>
    /\ ChargeLock => locked["charge"]
    /\ socLimit["charge"] = 0 => ~locked["charge"]
    /\ BySoc /\ ~BothLimits => locked["discharge"]
    /\ ByHome /\ ~BothLimits /\ soc # 0 => locked["discharge"]
    /\ socLimit["discharge"] = 0 /\ homeLimit = 0 => ~locked["discharge"]

\* One cycle in the last minutes is enough: no lock is taken into the next day, and
\* only durable limits are, unless a limit is set after that cycle.
EndOfDay ==
  dayEnd /\ closed =>
    /\ \A d \in Side : ~locked[d]
    /\ turn = "answer" => /\ \A d \in Side : ~durable[d] => socLimit[d] = 0
                          /\ ~durable["discharge"] => homeLimit = 0

\* The flags are what the device does, and the limits are what has been set.
LocksInStep == LimiterTypeOK /\ LockIsReal

=============================================================================
