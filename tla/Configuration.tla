---------------------------- MODULE Configuration ----------------------------
(***************************************************************************)
(* How main comes to its configuration: the defaults, the lines of the     *)
(* config file one after the other, the variables of the environment, and  *)
(* the corrections of what is out of range. A value is what the program    *)
(* can read in its text: the word, the number that atoi or strtol find,    *)
(* whether nothing follows the number, and, for ADD_NEW_REQUEST, the       *)
(* request. Keys of one kind are alike, a few of each kind stand for all.  *)
(***************************************************************************)
EXTENDS Integers, Sequences, FiniteSets, SequencesExt

CONSTANTS
  Lines,          \* lines a config file may have: [kind, key, value]
  Settings,       \* variables the environment may have: [key, value]
  BadText,        \* [text key -> words that main refuses]
  CurrYear,       \* the current year
  MaxCount,       \* MAX_PM_COUNT, and MAX_WB_COUNT
  MaxLines, MaxSettings

VARIABLES
  stage,          \* "file", "env", "ready" or "exit"
  skip,           \* a comment has been opened
  cfg,            \* cfg, the limits of the response cache, AdditionalTags
  file, env       \* history: the lines and variables read

startVars == <<stage, skip, cfg, file, env>>

IntKey == {"INTERVAL", "MQTT_QOS", "PVI_TRACKER", "BATTERY_STRINGS", "HISTORY_START_YEAR"}
OnKey == {"WALLBOX", "PM_EXTERN"}               \* only "true" counts in the file
OffKey == {"DCB_REQUESTS", "PM_REQUESTS"}       \* only "false" counts in the file
TextKey == DOMAIN BadText
LimitKey == {"LIMIT_CHARGE_SOC", "LIMIT_DISCHARGE_BY_HOME_POWER"}
DurableKey == {"LIMIT_CHARGE_DURABLE"}
RequestKey == {"ADD_NEW_REQUEST", "ADD_NEW_REQUEST_AT_START"}

ValueType(v) == v.num \in Int /\ v.clean \in BOOLEAN

ASSUME ConfigurationAssumption ==
  /\ \A l \in Lines : ValueType(l.value)
  /\ \A s \in Settings : ValueType(s.value)
  /\ TextKey \intersect (IntKey \union OnKey \union OffKey \union LimitKey \union DurableKey
                           \union RequestKey \union {"PM_INDEX", "WB_INDEX"}) = {}
  /\ CurrYear \in Int /\ MaxCount \in Nat \ {0}

Default ==
  [num |-> [k \in IntKey |-> CASE k = "INTERVAL" -> 4
                               [] k = "BATTERY_STRINGS" -> 1
                               [] k = "HISTORY_START_YEAR" -> CurrYear - 1
                               [] OTHER -> 0],
   flag |-> [k \in OnKey \union OffKey |-> k \in OffKey],
   text |-> [k \in TextKey |-> ""],
   limit |-> [k \in LimitKey \union DurableKey |-> 0],
   pm_indexes |-> <<>>, wb_indexes |-> <<>>, tags |-> <<>>]

-----------------------------------------------------------------------------
(* pushAdditionalTag: what is there already is not added again.            *)
Push(c, r, once) ==
  IF \E i \in DOMAIN c.tags : c.tags[i].request = r
  THEN c
  ELSE [c EXCEPT !.tags = Append(@, [request |-> r, one_shot |-> once])]

LimitRange(key) == IF key = "LIMIT_DISCHARGE_BY_HOME_POWER" THEN 0..99999 ELSE 0..100

(* What the file and the environment share: devices, limits, requests.     *)
Common(c, key, v) ==
  CASE key = "PM_INDEX" /\ Len(c.pm_indexes) < MaxCount /\ v.num \in 0..127 ->
         [c EXCEPT !.pm_indexes = Append(@, v.num)]
    [] key = "WB_INDEX" /\ Len(c.wb_indexes) < MaxCount /\ v.num \in 0..(MaxCount - 1) ->
         [c EXCEPT !.wb_indexes = Append(@, v.num)]
    [] key \in LimitKey /\ v.num \in LimitRange(key) -> [c EXCEPT !.limit[key] = v.num]
    [] key \in DurableKey /\ v.word = "true" -> [c EXCEPT !.limit[key] = 1]
    [] OTHER -> c

(* One line of the file. ADD_NEW_REQUEST is compared by its length only,   *)
(* so the branch for ADD_NEW_REQUEST_AT_START is never reached.            *)
FromFile(c, key, v) ==
  IF v.word = "" THEN c
  ELSE CASE key \in IntKey -> [c EXCEPT !.num[key] = v.num]
         [] key \in TextKey -> [c EXCEPT !.text[key] = v.word]
         [] key \in OnKey /\ v.word = "true" -> [c EXCEPT !.flag[key] = TRUE]
         [] key \in OffKey /\ v.word = "false" -> [c EXCEPT !.flag[key] = FALSE]
         [] key \in RequestKey -> Push(c, v.request, FALSE)
         [] OTHER -> Common(c, key, v)

(* ENV_INT and ENV_INT_RANGE take a number that nothing follows.           *)
EnvTakes(key, v) == v.clean /\ (key = "MQTT_QOS" => v.num \in 0..2)

(* One variable of the environment. ENV_BOOL takes any other word for no.  *)
FromEnv(c, key, v) ==
  CASE key \in IntKey -> IF EnvTakes(key, v) THEN [c EXCEPT !.num[key] = v.num] ELSE c
    [] key \in TextKey -> [c EXCEPT !.text[key] = v.word]
    [] key \in OnKey \union OffKey -> [c EXCEPT !.flag[key] = v.word \in {"true", "1"}]
    [] key \in RequestKey /\ v.word # "" ->
         Push(c, v.request, key = "ADD_NEW_REQUEST_AT_START")
    [] OTHER -> IF v.word = "" THEN c ELSE Common(c, key, v)

(* What is out of range at the end.                                        *)
InRange(n, range, other) == IF n \in range THEN n ELSE other

Interval(n) == IF n < 1 THEN 1 ELSE IF n > 300 THEN 300 ELSE n

Corrected(num) ==
  [k \in IntKey |->
    CASE k = "INTERVAL" -> Interval(num[k])
      [] k = "MQTT_QOS" -> InRange(num[k], 0..2, 0)
      [] k = "PVI_TRACKER" -> InRange(num[k], 0..127, 0)
      [] k = "BATTERY_STRINGS" -> InRange(num[k], 1..127, 1)
      [] k = "HISTORY_START_YEAR" -> InRange(num[k], 2010..(CurrYear - 1), CurrYear - 1)]

(* Without a PM_INDEX there is one meter, without a WB_INDEX one wallbox,  *)
(* both with the index the arrays begin with; PM_EXTERN moves the first.   *)
Meters(c) ==
  LET list == IF c.pm_indexes = <<>> THEN <<0>> ELSE c.pm_indexes
  IN IF c.flag["PM_EXTERN"] THEN [list EXCEPT ![1] = 6] ELSE list

Wallboxes(c) == IF c.flag["WALLBOX"] /\ c.wb_indexes = <<>> THEN <<0>> ELSE c.wb_indexes

(* compareAdditionalTags, and sort, which may turn equals round.           *)
SortsBefore(r, s) == r.container < s.container \/ (r.container = s.container /\ r.order < s.order)

Sorted(tags) ==
  {t \in SetToSeqs(Range(tags)) :
     \A i, j \in DOMAIN t : i < j => ~SortsBefore(t[j].request, t[i].request)}

-----------------------------------------------------------------------------
InitStart ==
  /\ stage = "file" /\ skip = FALSE /\ cfg = Default
  /\ file = <<>> /\ env = <<>>

(* Comments: what is to be skipped after a line.                           *)
AfterLine_StaysOpen(line) == skip \/ line.kind = "open"          (* Mutant *)

AfterLine(line) ==
  CASE line.kind = "open" -> TRUE
    [] line.kind = "close" -> FALSE
    [] OTHER -> skip

(* EXIT ends the file, even inside a comment.                              *)
ReadLine(line) ==
  /\ stage = "file" /\ Len(file) < MaxLines
  /\ file' = Append(file, line)
  /\ stage' = IF line.kind = "exit" THEN "env" ELSE "file"
  /\ skip' = IF line.kind = "exit" THEN skip ELSE AfterLine(line)
  /\ cfg' = IF line.kind = "set" /\ ~skip' THEN FromFile(cfg, line.key, line.value) ELSE cfg
  /\ UNCHANGED env

EndOfFile == stage = "file" /\ stage' = "env" /\ UNCHANGED <<skip, cfg, file, env>>

(* A variable stands once in the environment; several for the keys that    *)
(* are searched in the name.                                               *)
Once == IntKey \union TextKey \union OnKey \union OffKey \union LimitKey \union DurableKey

ReadVariable(s) ==
  /\ stage = "env" /\ Len(env) < MaxSettings
  /\ s.key \in Once => \A i \in DOMAIN env : env[i].key # s.key
  /\ env' = Append(env, s)
  /\ cfg' = FromEnv(cfg, s.key, s.value)
  /\ UNCHANGED <<stage, skip, file>>

Finish ==
  /\ stage = "env"
  /\ IF \E k \in TextKey : cfg.text[k] \in BadText[k]
     THEN stage' = "exit" /\ UNCHANGED cfg
     ELSE /\ stage' = "ready"
          /\ \E t \in Sorted(cfg.tags) :
               cfg' = [cfg EXCEPT !.num = Corrected(@), !.pm_indexes = Meters(cfg),
                                  !.wb_indexes = Wallboxes(cfg), !.tags = t]
  /\ UNCHANGED <<skip, file, env>>

Start ==
  \/ \E l \in Lines : ReadLine(l)
  \/ EndOfFile
  \/ \E s \in Settings : ReadVariable(s)
  \/ Finish

StartSpec == InitStart /\ [][Start]_startVars

-----------------------------------------------------------------------------
(* All that was read has a place: the lines of the file, then the variables*)
(* of the environment.                                                     *)
Places == 1..(Len(file) + Len(env))

InEnv(n) == n > Len(file)

Setting(n) == IF InEnv(n) THEN env[n - Len(file)] ELSE file[n]

(* The lines that count stand outside of comments.                         *)
Mark(i) == file[i].kind \in {"open", "close"}

Commented(i) ==
  \E j \in 1..i : file[j].kind = "open" /\ \A k \in (j + 1)..i : ~Mark(k)

Counts(n) == InEnv(n) \/ (file[n].kind = "set" /\ ~Commented(n))

(* Whether a value is one that the key accepts.                            *)
Accepted(key, v, inEnv) ==
  /\ key \in IntKey /\ inEnv => EnvTakes(key, v)
  /\ key \in OnKey /\ ~inEnv => v.word = "true"
  /\ key \in OffKey /\ ~inEnv => v.word = "false"
  /\ key \in DurableKey => v.word = "true"
  /\ key \in LimitKey => v.num \in LimitRange(key)
  /\ key = "PM_INDEX" => v.num \in 0..127
  /\ key = "WB_INDEX" => v.num \in 0..(MaxCount - 1)
  /\ v.word = "" => inEnv /\ key \in IntKey \union TextKey \union OnKey \union OffKey

(* Where the keys are given a value they accept.                           *)
Given(keys) ==
  {n \in Places : /\ Counts(n) /\ Setting(n).key \in keys
                  /\ Accepted(Setting(n).key, Setting(n).value, InEnv(n))}

(* The value in force: the last one given.                                 *)
Latest(places) == CHOOSE n \in places : \A m \in places : m <= n

InForce(key, default) ==
  IF Given({key}) = {} THEN default ELSE Setting(Latest(Given({key}))).value

(* The first values given, as many as there is room for, in their order.   *)
Rank(places, n) == Cardinality({m \in places : m <= n})

Ranked(places, i) == CHOOSE n \in places : Rank(places, n) = i

ListOf(key) ==
  LET places == Given({key})
      size == Cardinality(places)
  IN [i \in 1..(IF size < MaxCount THEN size ELSE MaxCount) |->
        Setting(Ranked(places, i)).value.num]

(* The requests: each once, and for the start only if the environment was  *)
(* the first to ask for it, that way.                                      *)
Requested ==
  LET all == Given(RequestKey)
      request(n) == Setting(n).value.request
  IN {[request |-> request(n),
       one_shot |-> InEnv(n) /\ Setting(n).key = "ADD_NEW_REQUEST_AT_START"] :
        n \in {n \in all : \A m \in all : m < n => request(m) # request(n)}}

(* CONFIG.md:7: "the environment variables overwrite the parameters set    *)
(* with .config! (Exception: parameters that can be set multiple times)".  *)
(* What the program runs with is what a reader of the file and of the      *)
(* environment expects: the last accepted value in that order, and of the  *)
(* others all; whatever comments, EXIT, unusable values and repetitions    *)
(* there are.                                                              *)
AsWritten ==
  stage = "ready" =>
    /\ cfg.num = Corrected([k \in IntKey |-> InForce(k, [num |-> Default.num[k]]).num])
    /\ \A k \in OnKey \union OffKey :
         LET default == [word |-> IF k \in OffKey THEN "true" ELSE "false"]
         IN cfg.flag[k] = (InForce(k, default).word \in {"true", "1"})
    /\ \A k \in TextKey : cfg.text[k] = InForce(k, [word |-> ""]).word
    /\ \A k \in LimitKey : cfg.limit[k] = InForce(k, [num |-> 0]).num
    /\ \A k \in DurableKey : cfg.limit[k] = IF Given({k}) = {} THEN 0 ELSE 1
    /\ cfg.pm_indexes = Meters([cfg EXCEPT !.pm_indexes = ListOf("PM_INDEX")])
    /\ cfg.wb_indexes = Wallboxes([cfg EXCEPT !.wb_indexes = ListOf("WB_INDEX")])
    /\ Range(cfg.tags) = Requested /\ Len(cfg.tags) = Cardinality(Requested)

=============================================================================
