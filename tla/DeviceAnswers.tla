---------------------------- MODULE DeviceAnswers ----------------------------
(***************************************************************************)
(* The devices of one system in the cyclic frame: battery strings with     *)
(* their modules (DCB), power meters, solar trackers and wallboxes.        *)
(*                                                                         *)
(* createRequest asks for each of them by an index; the answers about a    *)
(* string, a meter or a wallbox carry no index, and handleResponseValue    *)
(* counts them. A device that answers with an error is not counted. How    *)
(* many modules a string has, and how many trackers there are, is found    *)
(* out by asking, and the topics for them are added to the response cache  *)
(* with the answer. Battery strings that are configured and not there are  *)
(* given up one by one. In raw mode the answers are published under the    *)
(* name of their tag, numbered as they come.                               *)
(***************************************************************************)
EXTENDS Integers, Sequences, FiniteSets

CONSTANTS
  Systems,         \* systems with their configuration, see SystemType
  MaxErrors,       \* bound: answers with an error, frames lost
  MaxSwitches      \* bound: commands set/requests/...

SystemType(s) ==
  /\ s.strings \in Seq(Nat \ {0})      \* modules of each battery string
  /\ s.battery_strings \in Nat \ {0}   \* BATTERY_STRINGS
  /\ s.trackers \in Nat \ {0}          \* solar trackers
  /\ s.pvi_tracker \in Nat             \* PVI_TRACKER, 0: automatic
  /\ s.pm_indexes \in Seq(Nat) /\ s.wb_indexes \in Seq(Nat)

ASSUME DeviceAssumption ==
  /\ \A s \in Systems : SystemType(s)
  /\ MaxErrors \in Nat /\ MaxSwitches \in Nat

NOT_AVAILABLE == 6
ErrorCodes == {1, NOT_AVAILABLE}

VARIABLES
  system,          \* the system, and the start of cfg
  new,             \* e3dc_ts = 0: no answer yet
  battery_strings, bat_dcb_count, bat_dcb_start, pvi_tracker, \* of cfg
  requests,        \* of cfg: dcb_requests, pm_requests, pvi_requests
  pc,              \* "idle", "sent", "answers"
  frame,           \* requests that are not answered
  nr,              \* battery_nr, pm_nr and wb_nr
  topic,           \* response cache: the number in the topic of entry <<kind, index>>
  shown,           \* response cache: the device whose value the entry has
  rawData, handled, \* raw mode: devices by the number of the topic, those of this frame
  mixed,           \* history: kinds of devices whose answers may have been taken for others
  errors, switches \* history: what the bounds are about

learned == <<battery_strings, bat_dcb_count, bat_dcb_start, pvi_tracker>>
cache == <<topic, shown>>
raw == <<rawData, handled>>
bounds == <<errors, switches>>
vars == <<system, new, learned, requests, pc, frame, nr, cache, raw, mixed, bounds>>

Counted == {"bat", "pm", "wb"}
Over(f, g) == [x \in DOMAIN f \union DOMAIN g |-> IF x \in DOMAIN f THEN f[x] ELSE g[x]]
NoneShown(t) == [e \in DOMAIN t |-> <<>>]
Numbered(kind, n) == [e \in {kind} \X (0..(n - 1)) |-> e[2] + 1]

(* The topics main adds from the configuration.                            *)
StartTopics(s) ==
  LET size(k) == CASE k \in {"bat", "spec"} -> s.battery_strings
                   [] k = "pv" -> s.pvi_tracker
                   [] k = "pm" -> Len(s.pm_indexes)
                   [] k = "wb" -> Len(s.wb_indexes)
  IN [e \in UNION {{k} \X (0..(size(k) - 1)) : k \in {"bat", "spec", "pv", "pm", "wb"}} |->
        e[2] + 1]

Init ==
  /\ system \in Systems
  /\ new = TRUE
  /\ battery_strings = system.battery_strings
  /\ bat_dcb_count = [i \in 0..(battery_strings - 1) |-> 0]
  /\ bat_dcb_start = [i \in 0..(battery_strings - 1) |-> 0]
  /\ pvi_tracker = system.pvi_tracker
  /\ requests \in {[dcb |-> d, pm |-> TRUE, pvi |-> TRUE] : d \in BOOLEAN}
  /\ pc = "idle" /\ frame = <<>> /\ nr = [k \in Counted |-> 0]
  /\ topic = StartTopics(system) /\ shown = NoneShown(topic)
  /\ rawData = [k \in Counted |-> <<>>] /\ handled = [k \in Counted |-> 0]
  /\ mixed = {} /\ errors = 0 /\ switches = 0

-----------------------------------------------------------------------------
(* The part of the frame about one battery string. What does not change is *)
(* asked for in the first frame, the number of modules until it is known.  *)
BatRequest(i) ==
  [kind |-> "bat", index |-> i, spec |-> new, count |-> bat_dcb_count[i] = 0,
   modules |-> IF requests.dcb THEN bat_dcb_count[i] ELSE 0]

PviRequest == [kind |-> "pv", count |-> pvi_tracker = 0, trackers |-> pvi_tracker]

Requests ==
  [i \in 1..battery_strings |-> BatRequest(i - 1)]
    \o (IF requests.pm
        THEN [i \in 1..Len(system.pm_indexes) |-> [kind |-> "pm", index |-> system.pm_indexes[i]]]
        ELSE <<>>)
    \o (IF requests.pvi THEN <<PviRequest>> ELSE <<>>)
    \o [i \in 1..Len(system.wb_indexes) |-> [kind |-> "wb", index |-> system.wb_indexes[i]]]

(* createRequest.                                                          *)
Begin ==
  /\ pc = "idle" /\ pc' = "sent"
  /\ frame' = Requests
  /\ UNCHANGED <<system, new, learned, requests, nr, cache, raw, mixed, bounds>>

(* The kinds of devices whose answers in this frame replace all the older  *)
(* ones.                                                                   *)
Renewed ==
  {r.kind : r \in {frame[i] : i \in DOMAIN frame}}
    \cup (IF \A i \in 0..(battery_strings - 1) :
               i < Len(system.strings) => frame[i + 1].modules > 0
          THEN {"dcb"} ELSE {})

(* The answer to the frame: the counters begin anew, and the time is known.*)
Arrive ==
  /\ pc = "sent" /\ pc' = "answers"
  /\ nr' = [k \in Counted |-> 0]
  /\ handled' = [k \in Counted |-> 0]
  /\ new' = FALSE
  /\ mixed' = mixed \ Renewed
  /\ UNCHANGED <<system, learned, requests, frame, cache, rawData, bounds>>

(* The connection breaks.                                                  *)
Lose ==
  /\ pc = "sent" /\ pc' = "idle" /\ frame' = <<>>
  /\ errors < MaxErrors /\ errors' = errors + 1
  /\ UNCHANGED <<system, new, learned, requests, nr, cache, raw, mixed, switches>>

IsThere(r) == r.kind = "bat" => r.index < Len(system.strings)

(* Mutant: a string is given up for any error.                             *)
LessStrings_AnyError(r, code) ==
  IF r.kind = "bat" /\ battery_strings > 1 THEN battery_strings - 1 ELSE battery_strings

(* A string that is not available is not asked for any more.               *)
LessStrings(r, code) ==
  IF r.kind = "bat" /\ code = NOT_AVAILABLE /\ battery_strings > 1
  THEN battery_strings - 1 ELSE battery_strings

CountsKnown ==
  \A i \in DOMAIN bat_dcb_count : i < Len(system.strings) => bat_dcb_count[i] > 0

(* A device answers with an error. The next answers take its place.        *)
Refuse ==
  \E code \in ErrorCodes :
    LET r == Head(frame)
    IN /\ pc = "answers" /\ frame # <<>>
       /\ frame' = Tail(frame)
       /\ IF IsThere(r)
          THEN /\ code # NOT_AVAILABLE
               /\ errors < MaxErrors /\ errors' = errors + 1
               /\ mixed' = mixed \cup
                    (IF r.kind = "bat"
                     THEN {"bat", "dcb"} \cup (IF r.spec THEN {"spec"} ELSE {})
                            \cup (IF CountsKnown THEN {} ELSE {"counts"})
                     ELSE {r.kind})
          ELSE code = NOT_AVAILABLE /\ UNCHANGED <<errors, mixed>>
       /\ battery_strings' = LessStrings(r, code)
       /\ UNCHANGED <<system, new, bat_dcb_count, bat_dcb_start, pvi_tracker, requests, pc, nr,
                      cache, raw, switches>>

-----------------------------------------------------------------------------
(* storeResponseValue: values are stored in the entries there are.         *)
Store(values, topics) ==
  [e \in DOMAIN topics |-> IF e \in DOMAIN values THEN <<values[e]>>
                           ELSE IF e \in DOMAIN shown THEN shown[e] ELSE <<>>]

(* mergeRawData: the next topic with this name, or a new one.              *)
MergeRaw(k, d) ==
  /\ handled' = [handled EXCEPT ![k] = @ + 1]
  /\ rawData' = IF handled[k] < Len(rawData[k])
                THEN [rawData EXCEPT ![k][handled[k] + 1] = d]
                ELSE [rawData EXCEPT ![k] = Append(@, d)]

(* Mutant: the modules of each string are numbered from the beginning.     *)
FirstModule_Zero(n) == 0

(* The first module of string n follows the modules of the string before.  *)
FirstModule(n) == IF n = 0 THEN 0 ELSE bat_dcb_count[n - 1]

(* addTemplTopics, and addTemplTopicsIdx for the cells: it takes the topic *)
(* of the only entry for one without a number, and the template has one,   *)
(* which is then 0.                                                        *)
ModuleTopics(first, n) ==
  [e \in {"dcb", "cell"} \X (first..(n - 1)) |->
     IF e[1] = "cell" /\ n = 1 THEN 0 ELSE e[2] + 1]

(* The answer about a battery string.                                      *)
BatAnswer(r) ==
  LET n == nr["bat"]
      d == <<"bat", r.index, 0>>
      first == IF r.count THEN FirstModule(n) ELSE bat_dcb_start[n]
      count == system.strings[r.index + 1]
      own == {<<"bat", n>>} \cup (IF r.spec THEN {<<"spec", n>>} ELSE {})
      modules == {m \in 0..(r.modules - 1) : m < count}
      values == Over([e \in own |-> d],
                     [e \in {"dcb", "cell"} \X {first + m : m \in modules} |->
                        <<"dcb", r.index, e[2] - first>>])
  IN /\ IF r.count
        THEN /\ bat_dcb_count' = [bat_dcb_count EXCEPT ![n] = count]
             /\ bat_dcb_start' = [bat_dcb_start EXCEPT ![n] = first]
             /\ topic' = Over(topic, ModuleTopics(first, first + count))
        ELSE UNCHANGED <<bat_dcb_count, bat_dcb_start, topic>>
     /\ shown' = Store(values, topic')
     /\ nr' = [nr EXCEPT !["bat"] = @ + 1]
     /\ MergeRaw("bat", d)
     /\ UNCHANGED pvi_tracker

(* The answer about a meter or a wallbox.                                  *)
PlainAnswer(r) ==
  LET d == <<r.kind, r.index, 0>>
  IN /\ shown' = Store([e \in {<<r.kind, nr[r.kind]>>} |-> d], topic)
     /\ nr' = [nr EXCEPT ![r.kind] = @ + 1]
     /\ MergeRaw(r.kind, d)
     /\ UNCHANGED <<bat_dcb_count, bat_dcb_start, pvi_tracker, topic>>

(* The answer about the inverter names the tracker with each value.        *)
PviAnswer(r) ==
  /\ pvi_tracker' = IF r.count THEN system.trackers ELSE pvi_tracker
  /\ topic' = Over(topic, Numbered("pv", pvi_tracker'))
  /\ shown' = Store([e \in {"pv"} \X (0..(r.trackers - 1)) |-> <<"pv", e[2], 0>>], topic')
  /\ UNCHANGED <<bat_dcb_count, bat_dcb_start, nr, raw>>

Answer ==
  LET r == Head(frame)
  IN /\ pc = "answers" /\ frame # <<>> /\ IsThere(r)
     /\ frame' = Tail(frame)
     /\ CASE r.kind = "bat" -> BatAnswer(r)
          [] r.kind = "pv" -> PviAnswer(r)
          [] OTHER -> PlainAnswer(r)
     /\ UNCHANGED <<system, new, battery_strings, requests, pc, mixed, bounds>>

Done ==
  /\ pc = "answers" /\ frame = <<>> /\ pc' = "idle"
  /\ UNCHANGED <<system, new, learned, requests, frame, nr, cache, raw, mixed, bounds>>

(* set/requests/dcb, pm, pvi.                                              *)
Switch(k) ==
  /\ pc = "idle"
  /\ switches < MaxSwitches /\ switches' = switches + 1
  /\ requests' = [requests EXCEPT ![k] = ~@]
  /\ UNCHANGED <<system, new, learned, pc, frame, nr, cache, raw, mixed, errors>>

Next ==
  \/ Begin \/ Arrive \/ Lose \/ Refuse \/ Answer \/ Done
  \/ \E k \in {"dcb", "pm", "pvi"} : Switch(k)

Fairness == WF_vars(Begin) /\ WF_vars(Arrive) /\ WF_vars(Refuse \/ Answer) /\ WF_vars(Done)

Spec == Init /\ [][Next]_vars /\ Fairness

-----------------------------------------------------------------------------
(* How many modules the first n strings have.                              *)
Before(n) == Cardinality(UNION {{s} \X (1..system.strings[s]) : s \in 1..n})

(* The string the module with number t belongs to.                         *)
StringWith(t) ==
  CHOOSE s \in 1..Len(system.strings) : Before(s - 1) < t /\ t <= Before(s)

(* The device a topic with number t is about: modules are numbered         *)
(* consecutively, all the others as they are configured.                   *)
DeviceOf(kind, t) ==
  CASE kind \in {"bat", "spec"} -> <<"bat", t - 1, 0>>
    [] kind = "pv" -> <<"pv", t - 1, 0>>
    [] kind = "pm" -> <<"pm", system.pm_indexes[t], 0>>
    [] kind = "wb" -> <<"wb", system.wb_indexes[t], 0>>
    [] OTHER -> <<"dcb", StringWith(t) - 1, t - 1 - Before(StringWith(t) - 1)>>

Trusted(kind) ==
  IF kind \in {"dcb", "cell"} THEN mixed \cap {"dcb", "counts"} = {} ELSE kind \notin mixed

(* Every topic shows its own device, whatever was learned in which frame,  *)
(* was switched off and on or lost on the way, if no device that is there  *)
(* has answered with an error since all of its kind have answered, or      *)
(* while what is asked only once was asked for. The start of a string is   *)
(* computed from the one before it alone, so this is for two strings.      *)
InPlace ==
  (pc = "idle" /\ Len(system.strings) <= 2) =>
    /\ \A e \in DOMAIN shown :
         (shown[e] # <<>> /\ Trusted(e[1]) /\ topic[e] > 0)
           => shown[e] = <<DeviceOf(e[1], topic[e])>>
    /\ \A k \in Counted : Trusted(k) =>
         \A i \in DOMAIN rawData[k] : rawData[k][i] = DeviceOf(k, i)

AtMost(a, b) == IF a < b THEN a ELSE b

(* The entries there should be of a kind of devices.                       *)
Expected(kind) ==
  LET strings == AtMost(system.battery_strings, Len(system.strings))
      n == CASE kind \in {"bat", "spec"} -> strings
             [] kind \in {"dcb", "cell"} -> Before(strings)
             [] kind = "pv" -> IF system.pvi_tracker = 0 THEN system.trackers
                               ELSE system.pvi_tracker
             [] kind = "pm" -> Len(system.pm_indexes)
             [] OTHER -> Len(system.wb_indexes)
  IN {<<kind, c>> : c \in 0..(n - 1)}

Asked(kind) ==
  CASE kind \in {"dcb", "cell"} -> requests.dcb
    [] kind = "pm" -> requests.pm
    [] kind = "pv" -> requests.pvi
    [] OTHER -> TRUE

(* In the end every device that is configured and there is shown, however  *)
(* many strings are configured that are not there, and the program asks    *)
(* only for strings that are.                                              *)
EventuallyAll ==
  <>[](/\ \A kind \in {"bat", "spec", "dcb", "cell", "pm", "pv", "wb"} :
            (Asked(kind) /\ Trusted(kind)) =>
              \A e \in Expected(kind) : e \in DOMAIN shown /\ shown[e] # <<>>
       /\ battery_strings = AtMost(system.battery_strings, Len(system.strings)))

=============================================================================
