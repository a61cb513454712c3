------------------------- MODULE RequestPass_proofs -------------------------
(* Theorems about RequestPass: the power mode, and the commands for the     *)
(* wallboxes, for any wallboxes, currents, power modes and configurations,  *)
(* any time from cycle to cycle, and any number of commands and troubles.   *)
EXTENDS RequestPass, FiniteSetTheorems, WellFoundedInduction, TLAPS

(* The times are counted down together, and the power mode received is one  *)
(* of those that can be asked for. request is a sequence.                   *)
TimesOK ==
  /\ left \in Nat /\ promised \in Nat /\ held \in Nat /\ promised <= left
  /\ powerWaits = <<>> \/ \E p \in PowerModes : powerWaits = <<p>>
  /\ troubles \in Nat
  /\ request \in Seq({request[i] : i \in 1..Len(request)})

(* As long as cycles are promised and nothing has gone wrong, the frame     *)
(* begins with the power mode, and the device is in it after each answer    *)
(* for as long as it keeps a mode, which is longer than to the next cycle.  *)
ModeInv ==
  promised > 0 =>
    /\ pc \in {"pass", "answer"} =>
         request # <<>> /\ request[1] = [to |-> 0, mode |-> power]
    /\ pc = "wait" /\ troubles = 0 => mode = power /\ held = Hold
    /\ pc = "power" /\ troubles = 0 => mode = power

PowerInv == TimesOK /\ ModeInv

(* A sequence is one over its own elements, and stays one when it grows.    *)
LEMMA OwnElements ==
  ASSUME NEW S, NEW s \in Seq(S)
  PROVE  s \in Seq({s[i] : i \in 1..Len(s)})
OBVIOUS

LEMMA Appended ==
  ASSUME NEW s, s \in Seq({s[i] : i \in 1..Len(s)}), NEW x
  PROVE  /\ Append(s, x) \in Seq({Append(s, x)[i] : i \in 1..Len(Append(s, x))})
         /\ s # <<>> => Append(s, x) # <<>> /\ Append(s, x)[1] = s[1]
<1> DEFINE S == {s[i] : i \in 1..Len(s)} \cup {x}
<1>1. s \in Seq(S)
  OBVIOUS
<1>2. Append(s, x) \in Seq(S)
  BY <1>1
<1>3. Append(s, x) \in Seq({Append(s, x)[i] : i \in 1..Len(Append(s, x))})
  BY <1>2, OwnElements
<1>4. ASSUME s # <<>> PROVE Append(s, x) # <<>> /\ Append(s, x)[1] = s[1]
  BY <1>1, <1>4
<1>5. QED
  BY <1>3, <1>4

LEMMA InitPower == Init => PowerInv
<1> SUFFICES ASSUME Init PROVE PowerInv
  OBVIOUS
<1>1. request \in Seq({request[i] : i \in 1..Len(request)})
  BY OwnElements, <<>> \in Seq({}) DEF Init
<1>2. QED
  BY <1>1 DEF Init, PowerInv, TimesOK, ModeInv

(* The pause: a mode begun with the last frame outlasts it.                 *)
LEMMA PowerBegin == ASSUME PowerInv, Begin PROVE PowerInv'
<1>1. PICK d \in 1..Interval : Pause(d)
  BY DEF Begin
<1>2. Interval \in Nat /\ Hold \in Nat /\ Interval < Hold
  BY RequestAssumption DEF RequestAssumption
<1>3. left' \in Nat /\ promised' \in Nat /\ held' \in Nat /\ promised' <= left'
      /\ promised' <= promised
  BY <1>1, <1>2 DEF Pause, Later, PowerInv, TimesOK
<1>4. request' \in Seq({request[i] : i \in 1..Len(request)})'
  BY OwnElements, <<>> \in Seq({}) DEF Begin
<1>5. TimesOK'
  BY <1>3, <1>4 DEF Begin, PowerInv, TimesOK, bounds
<1>6. ModeInv'
  <2>1. SUFFICES ASSUME promised > 0, troubles = 0 PROVE mode' = power'
    BY <1>3 DEF ModeInv, Begin, bounds, PowerInv, TimesOK
  <2>2. mode = power /\ held = Hold
    BY <2>1 DEF PowerInv, ModeInv, Begin
  <2>3. held' > 0
    BY <1>1, <1>2, <2>2 DEF Pause, Later
  <2>4. QED
    BY <1>1, <1>3, <2>2, <2>3 DEF Pause, Begin
<1>7. QED
  BY <1>5, <1>6 DEF PowerInv

(* The power mode: promised cycles are cycles in which it is sent.          *)
LEMMA PowerPower == ASSUME PowerInv, Power PROVE PowerInv'
<1>1. left' \in Nat /\ promised' \in Nat /\ promised' <= left'
  <2>1. CASE powerWaits # <<>> /\ config.auto_refresh
    <3>1. PICK p \in PowerModes : powerWaits = <<p>>
      BY <2>1 DEF PowerInv, TimesOK
    <3>2. p.cycles \in Nat /\ Interval \in Nat
      BY RequestAssumption DEF RequestAssumption
    <3>3. p.cycles * Interval \in Nat
      BY <3>2
    <3>4. PICK d \in {0, 1} : left' = Duration(p) + d
      BY <2>1, <3>1 DEF Power
    <3>5. promised' = p.cycles * Interval
      BY <2>1, <3>1 DEF Power
    <3>6. QED
      BY <3>3, <3>4, <3>5 DEF Duration
  <2>2. CASE ~(powerWaits # <<>> /\ config.auto_refresh)
    BY <2>2 DEF Power, PowerInv, TimesOK
  <2>3. QED
    BY <2>1, <2>2
<1>2. request' \in Seq({request[i] : i \in 1..Len(request)})'
  <2> DEFINE c == [to |-> 0, mode |-> power']
  <2>1. request' = <<c>> \/ request' = <<>>
    BY DEF Power
  <2> HIDE DEF c
  <2>2. <<c>> \in Seq({c})
    OBVIOUS
  <2>3. <<>> \in Seq({c})
    OBVIOUS
  <2>4. request' \in Seq({c})
    BY <2>1, <2>2, <2>3, Zenon
  <2>5. QED
    BY <2>4, OwnElements
<1>3. TimesOK'
  BY <1>1, <1>2 DEF Power, PowerInv, TimesOK, bounds, devices
<1>4. ModeInv'
  BY <1>1 DEF Power, ModeInv
<1>5. QED
  BY <1>3, <1>4 DEF PowerInv

(* A command behind the power mode.                                         *)
LEMMA PowerTake == ASSUME PowerInv, NEW e \in Entry, Take(e) PROVE PowerInv'
<1>1. PICK c : request' = Append(request, c)
  BY DEF Take
<1>2. /\ request' \in Seq({request[i] : i \in 1..Len(request)})'
      /\ request # <<>> => request' # <<>> /\ request'[1] = request[1]
  BY <1>1, Appended DEF PowerInv, TimesOK
<1>3. UNCHANGED <<pc, powers, devices, promised, bounds>> /\ pc = "pass"
  BY DEF Take
<1>4. QED
  BY <1>2, <1>3 DEF PowerInv, TimesOK, ModeInv, powers, devices, bounds

LEMMA PowerAnswer == ASSUME PowerInv, Answer PROVE PowerInv'
<1>1. /\ pc = "answer" /\ pc' = "wait"
      /\ UNCHANGED <<powers, locals, promised, bounds>>
  BY DEF Answer
<1>2. held' \in Nat
  BY RequestAssumption DEF Answer, FrameArrives, PowerInv, TimesOK, RequestAssumption
<1>3. TimesOK'
  BY <1>1, <1>2 DEF PowerInv, TimesOK, powers, locals, bounds
<1>4. ASSUME promised > 0 PROVE mode' = power' /\ held' = Hold
  <2>1. request # <<>> /\ request[1] = [to |-> 0, mode |-> power]
    BY <1>1, <1>4 DEF PowerInv, ModeInv
  <2>2. QED
    BY <1>1, <2>1 DEF Answer, FrameArrives, powers
<1>5. QED
  BY <1>1, <1>3, <1>4 DEF PowerInv, ModeInv

LEMMA PowerBreak == ASSUME PowerInv, Break PROVE PowerInv'
<1>1. /\ pc' = "wait" /\ troubles' = troubles + 1
      /\ UNCHANGED <<powers, locals, promised>>
  BY DEF Break, Trouble
<1>2. held' \in Nat
  BY RequestAssumption DEF Break, FrameArrives, PowerInv, TimesOK, RequestAssumption, devices
<1>3. QED
  BY <1>1, <1>2 DEF PowerInv, TimesOK, ModeInv, powers, locals

LEMMA StepPower == PowerInv /\ [Next]_vars => PowerInv'
<1> SUFFICES ASSUME PowerInv, [Next]_vars PROVE PowerInv'
  OBVIOUS
<1> USE DEF powers, locals, bounds, devices
<1>1. ASSUME NEW e \in Entry, NEW v \in Payloads(e[1]), Receive(e, v) PROVE PowerInv'
  BY <1>1 DEF Receive, PowerInv, TimesOK, ModeInv
<1>2. ASSUME NEW e \in Entry, Take(e) PROVE PowerInv'
  BY <1>2, PowerTake
<1>3. ASSUME NEW p \in PowerModes, ReceivePower(p) PROVE PowerInv'
  BY <1>3 DEF ReceivePower, PowerInv, TimesOK, ModeInv
<1>4. ASSUME NEW w \in Wallboxes, Operate(w) PROVE PowerInv'
  BY <1>4 DEF Operate, Trouble, PowerInv, TimesOK, ModeInv
<1>5. CASE Begin
  BY <1>5, PowerBegin
<1>6. CASE Power
  BY <1>6, PowerPower
<1>7. CASE Send
  BY <1>7 DEF Send, PowerInv, TimesOK, ModeInv
<1>8. CASE Answer
  BY <1>8, PowerAnswer
<1>9. CASE Break
  BY <1>9, PowerBreak
<1>10. CASE UNCHANGED vars
  BY <1>10 DEF vars, PowerInv, TimesOK, ModeInv
<1>11. QED
  BY <1>1, <1>2, <1>3, <1>4, <1>5, <1>6, <1>7, <1>8, <1>9, <1>10 DEF Next

(* A power mode that was asked for some cycles has no gap in them, as long  *)
(* as no frame is lost and the device keeps a mode for longer than a cycle. *)
THEOREM PowerIsHeld == Spec => []PowerHeld
<1>1. Init => PowerInv
  BY InitPower
<1>2. PowerInv /\ [Next]_vars => PowerInv'
  BY StepPower
<1>3. PowerInv => PowerHeld
  BY DEF PowerInv, ModeInv, PowerHeld
<1>4. QED
  BY <1>1, <1>2, <1>3, PTL DEF Spec

-----------------------------------------------------------------------------
(* The types. Some facts hold of the variables in every state: what waits   *)
(* and what was asked are payloads, and so is what a command says.          *)
ShownType == [sun : BOOLEAN, suspended : BOOLEAN, max : 0..MaxCurrent]
DeviceType == [sun : BOOLEAN, suspended : BOOLEAN, max : 1..MaxCurrent, min : Nat]
Payload(e) == {<<>>} \cup {<<v>> : v \in Payloads(e[1])}

Typed ==
  /\ pc \in {"wait", "power", "pass", "answer"}
  /\ DOMAIN waiting = Entry /\ \A e \in Entry : waiting[e] \in Payload(e)
  /\ DOMAIN asked = Entry /\ \A e \in Entry : asked[e] \in Payload(e)
  /\ container \in Wallboxes \cup {0} /\ sun_mode \in BOOLEAN /\ max_current \in Nat \cup {-1}
  /\ shown \in [Wallboxes -> ShownType]
  /\ device \in [Wallboxes -> DeviceType]
  /\ request \in Seq({request[i] : i \in 1..Len(request)})

CommandsTyped ==
  \A i \in 1..Len(request) :
    \/ request[i].to = 0
    \/ /\ request[i].to \in Wallboxes /\ request[i].what = "min"
       /\ request[i].min \in Nat
    \/ /\ request[i].to \in Wallboxes /\ request[i].what = "extern"
       /\ request[i].sun \in BOOLEAN /\ request[i].max \in 1..MaxCurrent

(* A wallbox that is as it was shown last.                                  *)
FreshShown ==
  /\ fresh \subseteq Wallboxes
  /\ \A w \in fresh : /\ shown[w].sun = device[w].sun
                      /\ shown[w].suspended = device[w].suspended
                      /\ shown[w].max = device[w].max

(* An entry is taken once in a pass.                                        *)
TakenOnce ==
  pc \in {"power", "pass"} => \A e \in Entry : waiting[e] # <<>> => asked[e] = <<>>

(* At its beginning nothing has been asked and nothing is put together.     *)
Begun ==
  pc = "power" => asked = None /\ request = <<>> /\ container = 0 /\ max_current = -1

(* The wallbox that all the commands of the pass so far are for.            *)
AllFor(w) == \A e \in Entry : asked[e] # <<>> => e[2] = w

Toggled(w) ==
  (IF Named(w, "toggle") THEN 1 ELSE 0)
    + (IF Named(w, "suspended") /\ Wish(w, "suspended") # shown[w].suspended THEN 1 ELSE 0)

(* What the pass has put together for the wallbox: the container and the    *)
(* local variables, the last record and the last command about min_current, *)
(* and the number of toggles.                                               *)
Addressed(w) == container \in {0, w} /\ \A i \in 1..Len(request) : request[i].to \in {0, w}

NoRecord(w) ==
  /\ Commands(w, "extern") = {} /\ max_current = -1
  /\ \A name \in Name : name # "min_current" => ~Named(w, name)

LastRecord(w) ==
  \E i \in Commands(w, "extern") :
    /\ \A j \in Commands(w, "extern") : j <= i
    /\ request[i].sun = sun_mode /\ request[i].max = Clamp(max_current)
    /\ \E name \in Name : name # "min_current" /\ Named(w, name)
    /\ sun_mode = IF Named(w, "sun_mode") THEN Wish(w, "sun_mode") ELSE shown[w].sun
    /\ max_current = IF Named(w, "max_current") THEN Wish(w, "max_current") ELSE shown[w].max

LastMin(w) ==
  IF Named(w, "min_current")
  THEN \E i \in Commands(w, "min") : /\ \A j \in Commands(w, "min") : j <= i
                                     /\ request[i].min = Wish(w, "min_current")
  ELSE Commands(w, "min") = {}

PassOf(w) ==
  /\ Addressed(w)
  /\ NoRecord(w) \/ LastRecord(w)
  /\ LastMin(w)
  /\ Cardinality(Toggling(w)) = Toggled(w)

InPass == pc \in {"power", "pass", "answer"}

PassInv ==
  /\ Typed /\ CommandsTyped /\ FreshShown /\ TakenOnce /\ Begun
  /\ InPass => \A w \in Wallboxes : AllFor(w) => PassOf(w)

-----------------------------------------------------------------------------
(* The entries of the receive cache that a pass takes.                      *)
LEMMA EntryParts ==
  /\ \A e \in Entry : e[1] \in Name /\ e[2] \in Wallboxes /\ e = <<e[1], e[2]>>
  /\ \A name \in Name, w \in Wallboxes :
       /\ <<name, w>> \in Entry /\ <<name, w>>[1] = name /\ <<name, w>>[2] = w
       /\ \A e \in Entry : e[2] = w => (<<name, w>> = e <=> name = e[1])
  /\ \A w \in Wallboxes : w \in Nat /\ w # 0
BY RequestAssumption DEF Entry

(* Payloads, by the name of the topic.                                      *)
LEMMA PayloadParts ==
  ASSUME NEW e \in Entry, NEW p \in Payload(e)
  PROVE  p # <<>> => /\ p = <<p[1]>> /\ p[1] \in Payloads(e[1])
                     /\ e[1] \in {"sun_mode", "suspended"} => p[1] \in BOOLEAN
                     /\ e[1] \in {"max_current", "min_current"} => p[1] \in Nat
<1> SUFFICES ASSUME p # <<>>
             PROVE  /\ p = <<p[1]>> /\ p[1] \in Payloads(e[1])
                    /\ e[1] \in {"sun_mode", "suspended"} => p[1] \in BOOLEAN
                    /\ e[1] \in {"max_current", "min_current"} => p[1] \in Nat
  OBVIOUS
<1>1. PICK v \in Payloads(e[1]) : p = <<v>>
  BY DEF Payload
<1>2. p[1] = v
  BY <1>1
<1>3. v \in Payloads(e[1])
  OBVIOUS
<1>4. e[1] \in {"sun_mode", "suspended"} => v \in BOOLEAN
  BY <1>3 DEF Payloads
<1>5. e[1] \in {"max_current", "min_current"} => v \in Nat
  BY <1>3, RequestAssumption DEF Payloads
<1>6. QED
  BY <1>1, <1>2, <1>3, <1>4, <1>5

(* A frame that has grown by a command.                                     *)
LEMMA Grown ==
  ASSUME request \in Seq({request[i] : i \in 1..Len(request)}), NEW c,
         request' = Append(request, c)
  PROVE  /\ Len(request) \in Nat /\ Len(request') = Len(request) + 1
         /\ DOMAIN request = 1..Len(request) /\ DOMAIN request' = 1..(Len(request) + 1)
         /\ \A i \in 1..Len(request) : request'[i] = request[i]
         /\ request'[Len(request) + 1] = c
<1> DEFINE S == {request[i] : i \in 1..Len(request)} \cup {c}
<1>1. request \in Seq(S)
  OBVIOUS
<1> HIDE DEF S
<1>2. c \in S
  BY DEF S
<1>3. QED
  BY <1>1, <1>2

(* What is shown of a wallbox, and what it is set to.                       *)
LEMMA WallboxParts ==
  ASSUME Typed, NEW w \in Wallboxes
  PROVE  /\ shown[w].sun \in BOOLEAN /\ shown[w].suspended \in BOOLEAN
         /\ shown[w].max \in 0..MaxCurrent
         /\ device[w].sun \in BOOLEAN /\ device[w].suspended \in BOOLEAN
         /\ device[w].max \in 1..MaxCurrent /\ device[w].min \in Nat
<1>1. shown[w] \in ShownType /\ device[w] \in DeviceType
  BY DEF Typed
<1>2. QED
  BY <1>1 DEF ShownType, DeviceType

(* A current is sent within the limits.                                     *)
LEMMA Clamped ==
  ASSUME NEW a \in Nat
  PROVE  Clamp(a) \in 1..MaxCurrent /\ (a \in 1..MaxCurrent => Clamp(a) = a)
BY RequestAssumption DEF Clamp

(* What the record for a wallbox is completed with.                         *)
LEMMA SettingsParts ==
  ASSUME Typed, NEW e \in Entry, waiting[e] # <<>>, e[1] # "min_current"
  PROVE  LET s == Settings(e[1], e[2], waiting[e][1])
             v == waiting[e][1]
             w == e[2]
         IN /\ s.sun \in BOOLEAN /\ s.max \in Nat
            /\ s.sun = IF e[1] = "sun_mode" THEN v
                       ELSE IF max_current < 0 THEN shown[w].sun ELSE sun_mode
            /\ s.max = IF e[1] = "max_current" THEN v
                       ELSE IF max_current < 0 THEN shown[w].max ELSE max_current
<1> DEFINE w == e[2]
           v == waiting[e][1]
           s == Settings(e[1], w, v)
<1>1. w \in Wallboxes
  BY EntryParts
<1>2. /\ e[1] = "sun_mode" => v \in BOOLEAN
      /\ e[1] = "max_current" => v \in Nat
  BY PayloadParts DEF Typed
<1>3. /\ s.sun = IF e[1] = "sun_mode" THEN v
                 ELSE IF max_current < 0 THEN shown[w].sun ELSE sun_mode
      /\ s.max = IF e[1] = "max_current" THEN v
                 ELSE IF max_current < 0 THEN shown[w].max ELSE max_current
  BY DEF Settings, Known
<1>a. shown[w].sun \in BOOLEAN /\ shown[w].max \in 0..MaxCurrent
  BY <1>1, WallboxParts
<1>b. shown[w].max \in Nat
  BY <1>a, RequestAssumption
<1>c. sun_mode \in BOOLEAN /\ max_current \in Nat \cup {-1}
  BY DEF Typed
<1>4. /\ shown[w].sun \in BOOLEAN /\ shown[w].max \in Nat
      /\ sun_mode \in BOOLEAN /\ max_current \in Nat \cup {-1}
  BY <1>a, <1>b, <1>c
<1> HIDE DEF s, v, w
<1>5. s.sun \in BOOLEAN
  BY <1>2, <1>3, <1>4
<1>6. s.max \in Nat
  BY <1>2, <1>3, <1>4
<1>7. QED
  BY <1>3, <1>5, <1>6 DEF s, v, w

(* The last of some places is the one that no other is after.               *)
LEMMA LastIs ==
  ASSUME NEW S, S \subseteq Nat, NEW i \in S, \A j \in S : j <= i
  PROVE  LastOf(S) = i
<1>1. LastOf(S) \in S /\ \A j \in S : j <= LastOf(S)
  BY DEF LastOf
<1>2. LastOf(S) <= i /\ i <= LastOf(S)
  BY <1>1
<1>3. LastOf(S) \in Nat /\ i \in Nat
  BY <1>1
<1>4. QED
  BY <1>2, <1>3

(* Places in a frame have a last one.                                       *)
LEMMA LastExists ==
  ASSUME NEW n \in Nat, NEW S, S \subseteq 1..n, S # {}
  PROVE  LastOf(S) \in S
<1> DEFINE R == OpToRel(<, Nat)
           T == {n - i : i \in S}
<1>a. \A i \in S : i \in Nat /\ n - i \in Nat
  OBVIOUS
<1>1. T \subseteq Nat /\ T # {}
  BY <1>a
<1>2. PICK m \in T : \A k \in T : ~ (<<k, m>> \in R)
  BY <1>1, WFMin, NatLessThanWellFounded
<1>3. PICK i \in S : m = n - i
  BY <1>2
<1>4. \A k \in T : <<k, m>> \in R <=> k < m
  BY <1>1 DEF OpToRel
<1>5. \A j \in S : j <= i
  <2> SUFFICES ASSUME NEW j \in S PROVE j <= i
    OBVIOUS
  <2>1. n - j \in T
    OBVIOUS
  <2>2. ~ (n - j < m)
    BY <2>1, <1>2, <1>4
  <2>3. n - j \in Nat /\ i \in Nat /\ j \in Nat
    OBVIOUS
  <2>4. QED
    BY <2>2, <2>3, <1>3
<1>6. LastOf(S) = i
  BY <1>5, <1>a, LastIs
<1>7. QED
  BY <1>6

(* The commands of a frame that has grown by c.                             *)
LEMMA CommandsGrow ==
  ASSUME request \in Seq({request[i] : i \in 1..Len(request)}), NEW c,
         request' = Append(request, c), NEW w
  PROVE  /\ \A what \in {"min", "extern"} :
              Commands(w, what)' = IF c.to = w /\ c.what = what
                                   THEN Commands(w, what) \cup {Len(request) + 1}
                                   ELSE Commands(w, what)
         /\ Toggling(w)' = IF c.to = w /\ c.what = "extern" /\ c.toggle = 1
                           THEN Toggling(w) \cup {Len(request) + 1}
                           ELSE Toggling(w)
<1> DEFINE n == Len(request)
<1>1. /\ n \in Nat /\ Len(request') = n + 1
      /\ DOMAIN request = 1..n /\ DOMAIN request' = 1..(n + 1)
      /\ \A i \in 1..n : request'[i] = request[i]
      /\ request'[n + 1] = c
  BY Grown
<1> HIDE DEF n
<1>2. \A i \in 1..n : i \in 1..(n + 1) /\ i # n + 1
  BY <1>1
<1>3. \A i \in 1..(n + 1) : i \in 1..n \/ i = n + 1
  BY <1>1
<1>4. n + 1 \in 1..(n + 1)
  BY <1>1
<1>5. ASSUME NEW what
      PROVE  Commands(w, what)' = IF c.to = w /\ c.what = what
                                  THEN Commands(w, what) \cup {n + 1}
                                  ELSE Commands(w, what)
  BY <1>1, <1>2, <1>3, <1>4 DEF Commands
<1>6. \A i \in Commands(w, "extern") : i \in 1..n
  BY <1>1 DEF Commands
<1>7. Toggling(w)' = IF c.to = w /\ c.what = "extern" /\ c.toggle = 1
                     THEN Toggling(w) \cup {n + 1} ELSE Toggling(w)
  BY <1>1, <1>5, <1>6 DEF Toggling
<1>8. QED
  BY <1>5, <1>7 DEF n

(* The commands are places of the frame.                                    *)
LEMMA CommandPlaces ==
  ASSUME Typed, NEW w, NEW what
  PROVE  /\ Len(request) \in Nat /\ Commands(w, what) \subseteq 1..Len(request)
         /\ Toggling(w) \subseteq 1..Len(request) /\ IsFiniteSet(Toggling(w))
<1>1. Len(request) \in Nat /\ DOMAIN request = 1..Len(request)
  BY DEF Typed
<1>2. Commands(w, what) \subseteq 1..Len(request) /\ Toggling(w) \subseteq 1..Len(request)
  BY <1>1 DEF Commands, Toggling
<1>3. IsFiniteSet(1..Len(request))
  BY <1>1, FS_Interval
<1>4. QED
  BY <1>1, <1>2, <1>3, FS_Subset

(* A pass begins with a frame that is about the power mode only.            *)
LEMMA PassBegins ==
  ASSUME NEW w \in Wallboxes, asked' = None, container' = 0, max_current' = -1,
         request' \in Seq({request'[i] : i \in 1..Len(request')}),
         \A i \in 1..Len(request') : request'[i].to = 0
  PROVE  PassOf(w)'
<1>1. DOMAIN request' = 1..Len(request')
  OBVIOUS
<1>2. w # 0
  BY EntryParts
<1>3. \A what : Commands(w, what)' = {}
  BY <1>1, <1>2 DEF Commands
<1>4. Toggling(w)' = {}
  BY <1>3 DEF Toggling
<1>5. \A name \in Name : ~Named(w, name)'
  BY EntryParts DEF Named, None
<1>6. Addressed(w)' /\ NoRecord(w)'
  BY <1>3, <1>5 DEF Addressed, NoRecord
<1>7. LastMin(w)'
  BY <1>3, <1>5 DEF LastMin, Name
<1>8. Cardinality(Toggling(w)') = 0 /\ Toggled(w)' = 0
  BY <1>4, <1>5, FS_EmptySet DEF Toggled, Name
<1>9. QED
  BY <1>6, <1>7, <1>8 DEF PassOf

(* Steps that have nothing to do with the pass leave it as it is.           *)
LEMMA PassKept ==
  ASSUME UNCHANGED <<asked, locals, shown>>, NEW w
  PROVE  (AllFor(w)' <=> AllFor(w)) /\ (PassOf(w)' <=> PassOf(w))
<1>1. AllFor(w)' <=> AllFor(w)
  BY DEF AllFor
<1>2. /\ request' = request /\ container' = container /\ sun_mode' = sun_mode
      /\ max_current' = max_current /\ shown' = shown /\ asked' = asked
  BY DEF locals
<1>3. /\ \A what : Commands(w, what)' = Commands(w, what)
      /\ Toggling(w)' = Toggling(w)
  BY <1>2 DEF Commands, Toggling
<1>4. \A name : (Named(w, name)' <=> Named(w, name)) /\ Wish(w, name)' = Wish(w, name)
  BY <1>2 DEF Named, Wish
<1>5. Toggled(w)' = Toggled(w)
  BY <1>2, <1>4 DEF Toggled
<1>6. Addressed(w)' <=> Addressed(w)
  BY <1>2 DEF Addressed
<1>7. NoRecord(w)' <=> NoRecord(w)
  BY <1>2, <1>3, <1>4 DEF NoRecord
<1>8. LastRecord(w)' <=> LastRecord(w)
  BY <1>2, <1>3, <1>4 DEF LastRecord
<1>9. LastMin(w)' <=> LastMin(w)
  BY <1>2, <1>3, <1>4 DEF LastMin
<1>10. QED
  BY <1>1, <1>3, <1>5, <1>6, <1>7, <1>8, <1>9 DEF PassOf

(* The entry taken is one more that has been asked for, and if all of them  *)
(* are for one wallbox, so were those before, and it has the container.     *)
LEMMA TakeAsked ==
  ASSUME PassInv, NEW e \in Entry, Take(e), NEW w \in Wallboxes, AllFor(w)'
  PROVE  /\ e[2] = w /\ AllFor(w) /\ PassOf(w) /\ ContainerOf(w) = w
         /\ ~Named(w, e[1])
         /\ \A name \in Name :
              /\ Named(w, name)' <=> name = e[1] \/ Named(w, name)
              /\ Wish(w, name)' = IF name = e[1] THEN waiting[e][1] ELSE Wish(w, name)
<1>1. /\ pc = "pass" /\ waiting[e] # <<>>
      /\ asked' = [asked EXCEPT ![e] = waiting[e]]
  BY DEF Take
<1>2. DOMAIN asked = Entry /\ asked[e] = <<>>
  BY <1>1 DEF PassInv, Typed, TakenOnce
<1>3. asked'[e] = waiting[e] /\ \A f \in Entry : f # e => asked'[f] = asked[f]
  BY <1>1, <1>2
<1>4. e[2] = w
  BY <1>1, <1>3 DEF AllFor
<1>5. AllFor(w)
  BY <1>2, <1>3 DEF AllFor
<1>6. PassOf(w)
  BY <1>1, <1>5 DEF PassInv, InPass
<1>7. ContainerOf(w) = w
  BY <1>6 DEF PassOf, Addressed, ContainerOf
<1>8. /\ e[1] \in Name /\ e = <<e[1], w>>
      /\ \A name \in Name : <<name, w>> \in Entry /\ (<<name, w>> = e <=> name = e[1])
  BY <1>4, EntryParts
<1>9. ~Named(w, e[1])
  BY <1>2, <1>8 DEF Named
<1>10. ASSUME NEW name \in Name
       PROVE  /\ Named(w, name)' <=> name = e[1] \/ Named(w, name)
              /\ Wish(w, name)' = IF name = e[1] THEN waiting[e][1] ELSE Wish(w, name)
  <2>1. CASE name = e[1]
    <3>1. asked'[<<name, w>>] = waiting[e]
      BY <1>3, <1>8, <2>1
    <3>2. QED
      BY <1>1, <2>1, <3>1 DEF Named, Wish
  <2>2. CASE name # e[1]
    <3>1. asked'[<<name, w>>] = asked[<<name, w>>]
      BY <1>3, <1>8, <2>2
    <3>2. QED
      BY <2>2, <3>1 DEF Named, Wish
  <2>3. QED
    BY <2>1, <2>2
<1>11. QED
  BY <1>4, <1>5, <1>6, <1>7, <1>9, <1>10

(* A command about min_current changes nothing of the record.               *)
LEMMA TakeMin ==
  ASSUME PassInv, NEW e \in Entry, Take(e), e[1] = "min_current",
         NEW w \in Wallboxes, AllFor(w)'
  PROVE  PassOf(w)'
<1> DEFINE v == waiting[e][1]
           c == MinCommand(w, v)
           n == Len(request)
<1>1. /\ e[2] = w /\ PassOf(w) /\ ContainerOf(w) = w /\ ~Named(w, "min_current")
      /\ \A name \in Name :
           /\ Named(w, name)' <=> name = "min_current" \/ Named(w, name)
           /\ Wish(w, name)' = IF name = "min_current" THEN v ELSE Wish(w, name)
  BY TakeAsked
<1>2. /\ request' = Append(request, c) /\ container' = w
      /\ sun_mode' = sun_mode /\ max_current' = max_current /\ shown' = shown
  BY <1>1 DEF Take
<1>3. c.to = w /\ c.what = "min" /\ c.min = v
  BY DEF MinCommand
<1>4. request \in Seq({request[i] : i \in 1..Len(request)})
  BY DEF PassInv, Typed
<1> HIDE DEF c, v
<1>5. /\ n \in Nat /\ Len(request') = n + 1
      /\ \A i \in 1..n : request'[i] = request[i]
      /\ request'[n + 1] = c
  BY <1>2, <1>4, Grown
<1>6. /\ Commands(w, "min")' = Commands(w, "min") \cup {n + 1}
      /\ Commands(w, "extern")' = Commands(w, "extern")
      /\ Toggling(w)' = Toggling(w)
  BY <1>2, <1>3, <1>4, CommandsGrow
<1>7. /\ Commands(w, "min") \subseteq 1..n /\ Commands(w, "extern") \subseteq 1..n
  BY CommandPlaces DEF PassInv
<1>8. \A name \in Name : name # "min_current" =>
        (Named(w, name)' <=> Named(w, name)) /\ Wish(w, name)' = Wish(w, name)
  BY <1>1
<1> HIDE DEF n
<1>9. Addressed(w)'
  <2>1. \A i \in 1..n : request[i].to \in {0, w}
    BY <1>1 DEF PassOf, Addressed, n
  <2>2. \A i \in 1..(n + 1) : i \in 1..n \/ i = n + 1
    BY <1>5
  <2>3. \A i \in 1..Len(request') : request'[i].to \in {0, w}
    BY <1>3, <1>5, <2>1, <2>2
  <2>4. QED
    BY <1>2, <2>3 DEF Addressed
<1>10. NoRecord(w)' \/ LastRecord(w)'
  <2>1. NoRecord(w) => NoRecord(w)'
    BY <1>2, <1>6, <1>8 DEF NoRecord
  <2>2. LastRecord(w) => LastRecord(w)'
    <3> SUFFICES ASSUME LastRecord(w) PROVE LastRecord(w)'
      OBVIOUS
    <3>1. \A i \in Commands(w, "extern") : request'[i] = request[i]
      BY <1>5, <1>7
    <3>2. /\ Named(w, "sun_mode")' <=> Named(w, "sun_mode")
          /\ Wish(w, "sun_mode")' = Wish(w, "sun_mode")
          /\ Named(w, "max_current")' <=> Named(w, "max_current")
          /\ Wish(w, "max_current")' = Wish(w, "max_current")
      BY <1>8 DEF Name
    <3>3. Clamp(max_current') = Clamp(max_current)
      BY <1>2
    <3>4. QED
      BY <1>2, <1>6, <1>8, <3>1, <3>2, <3>3 DEF LastRecord
  <2>3. QED
    BY <1>1, <2>1, <2>2 DEF PassOf
<1>11. LastMin(w)'
  <2>1. "min_current" \in Name
    BY DEF Name
  <2>2. Named(w, "min_current")' /\ Wish(w, "min_current")' = v
    BY <1>1, <2>1
  <2>3. \A j \in Commands(w, "min")' : j <= n + 1
    BY <1>5, <1>6, <1>7
  <2>4. n + 1 \in Commands(w, "min")'
    BY <1>6
  <2>5. QED
    BY <1>3, <1>5, <2>2, <2>3, <2>4 DEF LastMin
<1>12. Toggled(w)' = Toggled(w)
  <2>1. /\ Named(w, "toggle")' <=> Named(w, "toggle")
        /\ Named(w, "suspended")' <=> Named(w, "suspended")
        /\ Wish(w, "suspended")' = Wish(w, "suspended")
    BY <1>8 DEF Name
  <2>2. QED
    BY <1>2, <2>1 DEF Toggled
<1>13. (Cardinality(Toggling(w)) = Toggled(w))'
  BY <1>1, <1>6, <1>12 DEF PassOf
<1>14. QED
  BY <1>9, <1>10, <1>11, <1>13 DEF PassOf

(* What has been asked for.                                                 *)
LEMMA WishParts ==
  ASSUME Typed, NEW w \in Wallboxes
  PROVE  /\ Named(w, "sun_mode") => Wish(w, "sun_mode") \in BOOLEAN
         /\ Named(w, "suspended") => Wish(w, "suspended") \in BOOLEAN
         /\ Named(w, "max_current") => Wish(w, "max_current") \in Nat
         /\ Named(w, "min_current") => Wish(w, "min_current") \in Nat
<1>1. ASSUME NEW name \in Name, Named(w, name)
      PROVE  /\ name \in {"sun_mode", "suspended"} => Wish(w, name) \in BOOLEAN
             /\ name \in {"max_current", "min_current"} => Wish(w, name) \in Nat
  <2>1. <<name, w>> \in Entry /\ <<name, w>>[1] = name
    BY EntryParts
  <2>2. asked[<<name, w>>] \in Payload(<<name, w>>) /\ asked[<<name, w>>] # <<>>
    BY <1>1, <2>1 DEF Typed, Named
  <2>3. QED
    BY <2>1, <2>2, PayloadParts DEF Wish
<1>2. QED
  BY <1>1 DEF Name

(* After a record the local variables are known.                            *)
LEMMA RecordKnown ==
  ASSUME Typed, NEW w \in Wallboxes, LastRecord(w)
  PROVE  max_current \in Nat
<1>1. max_current = IF Named(w, "max_current") THEN Wish(w, "max_current") ELSE shown[w].max
  BY DEF LastRecord
<1>2. shown[w].max \in 0..MaxCurrent
  BY WallboxParts
<1>3. shown[w].max \in Nat
  BY <1>2, RequestAssumption
<1>4. QED
  BY <1>1, <1>3, WishParts

(* The other commands go into the record. The first one of the pass         *)
(* completes it with what is shown, and the next ones with what has been    *)
(* sent so far.                                                             *)
LEMMA TakeExtern ==
  ASSUME PassInv, NEW e \in Entry, Take(e), e[1] # "min_current",
         NEW w \in Wallboxes, AllFor(w)'
  PROVE  PassOf(w)'
<1> DEFINE v == waiting[e][1]
           s == Settings(e[1], w, v)
           t == Toggles(e[1], w, v)
           c == ExternCommand(w, s.sun, Clamp(s.max), t)
           n == Len(request)
<1>1. /\ e[2] = w /\ PassOf(w) /\ ContainerOf(w) = w /\ ~Named(w, e[1])
      /\ \A name \in Name :
           /\ Named(w, name)' <=> name = e[1] \/ Named(w, name)
           /\ Wish(w, name)' = IF name = e[1] THEN v ELSE Wish(w, name)
  BY TakeAsked
<1>2. /\ request' = Append(request, c) /\ container' = w
      /\ sun_mode' = s.sun /\ max_current' = s.max /\ shown' = shown
  BY <1>1 DEF Take
<1>3. /\ c.to = w /\ c.what = "extern" /\ c.sun = s.sun /\ c.max = Clamp(s.max)
      /\ c.toggle = IF t THEN 1 ELSE 0
  BY DEF ExternCommand
<1>4. request \in Seq({request[i] : i \in 1..Len(request)})
  BY DEF PassInv, Typed
<1>5. waiting[e] # <<>>
  BY DEF Take
<1>6. /\ s.sun = IF e[1] = "sun_mode" THEN v
                 ELSE IF max_current < 0 THEN shown[w].sun ELSE sun_mode
      /\ s.max = IF e[1] = "max_current" THEN v
                 ELSE IF max_current < 0 THEN shown[w].max ELSE max_current
  BY <1>1, <1>5, SettingsParts DEF PassInv
<1>7. t <=> e[1] = "toggle" \/ (e[1] = "suspended" /\ v # shown[w].suspended)
  BY DEF Toggles
<1> HIDE DEF c, s, t, v
<1>8. /\ n \in Nat /\ Len(request') = n + 1
      /\ \A i \in 1..n : request'[i] = request[i]
      /\ request'[n + 1] = c
  BY <1>2, <1>4, Grown
<1>9. /\ Commands(w, "min")' = Commands(w, "min")
      /\ Commands(w, "extern")' = Commands(w, "extern") \cup {n + 1}
      /\ Toggling(w)' = IF t THEN Toggling(w) \cup {n + 1} ELSE Toggling(w)
  BY <1>2, <1>3, <1>4, CommandsGrow
<1>10. /\ Commands(w, "min") \subseteq 1..n /\ Commands(w, "extern") \subseteq 1..n
       /\ Toggling(w) \subseteq 1..n /\ IsFiniteSet(Toggling(w))
  BY CommandPlaces DEF PassInv
<1>11. e[1] \in Name
  BY EntryParts
<1> HIDE DEF n
<1>12. Addressed(w)'
  <2>1. \A i \in 1..n : request[i].to \in {0, w}
    BY <1>1 DEF PassOf, Addressed, n
  <2>2. \A i \in 1..(n + 1) : i \in 1..n \/ i = n + 1
    BY <1>8
  <2>3. \A i \in 1..Len(request') : request'[i].to \in {0, w}
    BY <1>3, <1>8, <2>1, <2>2
  <2>4. QED
    BY <1>2, <2>3 DEF Addressed
<1>13. /\ Named(w, "sun_mode")' <=> e[1] = "sun_mode" \/ Named(w, "sun_mode")
       /\ Wish(w, "sun_mode")' = IF e[1] = "sun_mode" THEN v ELSE Wish(w, "sun_mode")
       /\ Named(w, "max_current")' <=> e[1] = "max_current" \/ Named(w, "max_current")
       /\ Wish(w, "max_current")' = IF e[1] = "max_current" THEN v ELSE Wish(w, "max_current")
       /\ Named(w, "min_current")' <=> Named(w, "min_current")
       /\ Wish(w, "min_current")' = Wish(w, "min_current")
  BY <1>1 DEF Name
<1>14. /\ Named(w, "toggle")' <=> e[1] = "toggle" \/ Named(w, "toggle")
       /\ Named(w, "suspended")' <=> e[1] = "suspended" \/ Named(w, "suspended")
       /\ Wish(w, "suspended")' = IF e[1] = "suspended" THEN v ELSE Wish(w, "suspended")
  BY <1>1 DEF Name
<1>15. LastRecord(w)'
  <2>1. \A j \in Commands(w, "extern")' : j <= n + 1
    BY <1>8, <1>9, <1>10
  <2>2. n + 1 \in Commands(w, "extern")'
    BY <1>9
  <2>3. request'[n + 1].sun = sun_mode' /\ request'[n + 1].max = Clamp(max_current')
    BY <1>2, <1>3, <1>8
  <2>4. Named(w, e[1])'
    BY <1>1, <1>11
  <2>5. /\ sun_mode' = IF Named(w, "sun_mode")' THEN Wish(w, "sun_mode")' ELSE shown[w].sun
        /\ max_current' = IF Named(w, "max_current")' THEN Wish(w, "max_current")'
                          ELSE shown[w].max
    <3>1. CASE NoRecord(w)
      <4>1. max_current = -1 /\ ~Named(w, "sun_mode") /\ ~Named(w, "max_current")
        BY <3>1 DEF NoRecord, Name
      <4>2. max_current < 0
        BY <4>1
      <4>3. QED
        BY <1>2, <1>6, <1>13, <4>1, <4>2
    <3>2. CASE LastRecord(w)
      <4>1. max_current \in Nat
        BY <3>2, RecordKnown DEF PassInv
      <4>2. ~(max_current < 0)
        BY <4>1
      <4>3. /\ sun_mode = IF Named(w, "sun_mode") THEN Wish(w, "sun_mode") ELSE shown[w].sun
            /\ max_current = IF Named(w, "max_current") THEN Wish(w, "max_current")
                             ELSE shown[w].max
        BY <3>2 DEF LastRecord
      <4>4. sun_mode' = IF e[1] = "sun_mode" THEN v ELSE sun_mode
        BY <1>2, <1>6, <4>2
      <4>5. max_current' = IF e[1] = "max_current" THEN v ELSE max_current
        BY <1>2, <1>6, <4>2
      <4>6. QED
        BY <1>13, <4>3, <4>4, <4>5
    <3>3. QED
      BY <1>1, <3>1, <3>2 DEF PassOf
  <2>6. QED
    BY <1>2, <1>11, <2>1, <2>2, <2>3, <2>4, <2>5 DEF LastRecord
<1>16. LastMin(w)'
  <2>1. \A i \in Commands(w, "min") : request'[i] = request[i]
    BY <1>8, <1>10
  <2>2. LastMin(w)
    BY <1>1 DEF PassOf
  <2>3. QED
    BY <1>9, <1>13, <2>1, <2>2 DEF LastMin
<1>17. (Cardinality(Toggling(w)) = Toggled(w))'
  <2>1. Cardinality(Toggling(w)) = Toggled(w)
    BY <1>1 DEF PassOf
  <2>2. n + 1 \notin Toggling(w)
    BY <1>8, <1>10
  <2>3. Cardinality(Toggling(w)') = Cardinality(Toggling(w)) + (IF t THEN 1 ELSE 0)
    <3>1. CASE t
      BY <1>9, <1>10, <2>2, <3>1, FS_AddElement
    <3>2. CASE ~t
      BY <1>9, <1>10, <3>2, FS_CardinalityType
    <3>3. QED
      BY <3>1, <3>2
  <2>4. Toggled(w)' = Toggled(w) + (IF t THEN 1 ELSE 0)
    <3>1. CASE e[1] = "toggle"
      <4>1. ~Named(w, "toggle") /\ t
        BY <1>1, <1>7, <3>1
      <4>2. QED
        BY <1>2, <1>14, <3>1, <4>1 DEF Toggled
    <3>2. CASE e[1] = "suspended"
      <4>1. ~Named(w, "suspended") /\ (t <=> v # shown[w].suspended)
        BY <1>1, <1>7, <3>2
      <4>2. QED
        BY <1>2, <1>14, <3>2, <4>1 DEF Toggled
    <3>3. CASE e[1] \notin {"toggle", "suspended"}
      <4>1. ~t
        BY <1>7, <3>3
      <4>2. QED
        BY <1>2, <1>14, <3>3, <4>1 DEF Toggled
    <3>4. QED
      BY <3>1, <3>2, <3>3
  <2>5. QED
    BY <2>1, <2>3, <2>4
<1>18. QED
  BY <1>12, <1>15, <1>16, <1>17 DEF PassOf

-----------------------------------------------------------------------------
(* The steps, one by one.                                                   *)
LEMMA InitPass == Init => PassInv
<1> SUFFICES ASSUME Init PROVE PassInv
  OBVIOUS
<1>1. request \in Seq({request[i] : i \in 1..Len(request)}) /\ Len(request) = 0
  BY OwnElements, <<>> \in Seq({}) DEF Init
<1>2. /\ DOMAIN waiting = Entry /\ \A e \in Entry : waiting[e] \in Payload(e)
      /\ DOMAIN asked = Entry /\ \A e \in Entry : asked[e] \in Payload(e)
  BY DEF Init, None, Payload
<1>3. shown \in [Wallboxes -> ShownType]
  <2>1. Unknown \in ShownType
    BY RequestAssumption DEF Unknown, ShownType
  <2>2. QED
    BY <2>1 DEF Init
<1>4. device \in [Wallboxes -> DeviceType]
  <2>1. [sun |-> TRUE, suspended |-> FALSE, max |-> 2, min |-> 2] \in DeviceType
    BY RequestAssumption DEF DeviceType
  <2>2. QED
    BY <2>1 DEF Init
<1>5. Typed
  BY <1>1, <1>2, <1>3, <1>4 DEF Init, Typed
<1>6. CommandsTyped
  BY <1>1 DEF CommandsTyped
<1>7. FreshShown /\ TakenOnce /\ Begun /\ ~InPass
  BY DEF Init, FreshShown, TakenOnce, Begun, InPass
<1>8. QED
  BY <1>5, <1>6, <1>7 DEF PassInv

LEMMA PassReceive ==
  ASSUME PassInv, NEW e \in Entry, NEW v \in Payloads(e[1]), Receive(e, v)
  PROVE  PassInv'
<1>1. /\ waiting' = [waiting EXCEPT ![e] = <<v>>] /\ pc \in {"wait", "answer"}
      /\ UNCHANGED <<asked, locals, shown>> /\ UNCHANGED <<pc, device, fresh>>
      /\ UNCHANGED <<container, sun_mode, max_current, request>>
  BY DEF Receive, locals, devices
<1>2. DOMAIN waiting' = Entry /\ \A f \in Entry : waiting'[f] \in Payload(f)
  <2>1. <<v>> \in Payload(e)
    BY DEF Payload
  <2>2. QED
    BY <1>1, <2>1 DEF PassInv, Typed
<1>3. Typed'
  BY <1>1, <1>2 DEF PassInv, Typed, Payload
<1>4. CommandsTyped' /\ FreshShown' /\ TakenOnce' /\ Begun'
  BY <1>1 DEF PassInv, CommandsTyped, FreshShown, TakenOnce, Begun
<1>5. (InPass => \A w \in Wallboxes : AllFor(w) => PassOf(w))'
  BY <1>1, PassKept DEF PassInv, InPass
<1>6. QED
  BY <1>3, <1>4, <1>5 DEF PassInv

LEMMA PassReceivePower ==
  ASSUME PassInv, NEW p \in PowerModes, ReceivePower(p)
  PROVE  PassInv'
<1>1. /\ UNCHANGED <<asked, locals, shown>> /\ UNCHANGED <<pc, waiting, device, fresh>>
      /\ UNCHANGED <<container, sun_mode, max_current, request>>
  BY DEF ReceivePower, locals, devices
<1>2. Typed'
  BY <1>1 DEF PassInv, Typed, Payload
<1>3. CommandsTyped' /\ FreshShown' /\ TakenOnce' /\ Begun'
  BY <1>1 DEF PassInv, CommandsTyped, FreshShown, TakenOnce, Begun
<1>4. (InPass => \A w \in Wallboxes : AllFor(w) => PassOf(w))'
  BY <1>1, PassKept DEF PassInv, InPass
<1>5. QED
  BY <1>2, <1>3, <1>4 DEF PassInv

LEMMA PassOperate ==
  ASSUME PassInv, NEW w \in Wallboxes, Operate(w)
  PROVE  PassInv'
<1>1. /\ fresh' = fresh \ {w}
      /\ UNCHANGED <<asked, locals, shown>> /\ UNCHANGED <<pc, waiting>>
      /\ UNCHANGED <<container, sun_mode, max_current, request>>
  BY DEF Operate, locals
<1>2. PICK s \in BOOLEAN, m \in 1..MaxCurrent :
        device' = [device EXCEPT ![w].sun = s, ![w].max = m, ![w].suspended = ~@]
  BY DEF Operate
<1>3. device \in [Wallboxes -> DeviceType]
  BY DEF PassInv, Typed
<1>4. /\ device'[w] = [device[w] EXCEPT !.sun = s, !.max = m, !.suspended = ~@]
      /\ \A u \in Wallboxes : u # w => device'[u] = device[u]
      /\ DOMAIN device' = Wallboxes /\ device' = [u \in Wallboxes |-> device'[u]]
  BY <1>2, <1>3
<1>5. device'[w] \in DeviceType
  BY <1>3, <1>4 DEF DeviceType
<1>6. device' \in [Wallboxes -> DeviceType]
  BY <1>3, <1>4, <1>5
<1>7. Typed'
  BY <1>1, <1>6 DEF PassInv, Typed, Payload, DeviceType, ShownType
<1>8. FreshShown'
  BY <1>1, <1>4 DEF PassInv, FreshShown
<1>9. CommandsTyped' /\ TakenOnce' /\ Begun'
  BY <1>1 DEF PassInv, CommandsTyped, TakenOnce, Begun
<1>10. (InPass => \A u \in Wallboxes : AllFor(u) => PassOf(u))'
  BY <1>1, PassKept DEF PassInv, InPass
<1>11. QED
  BY <1>7, <1>8, <1>9, <1>10 DEF PassInv

LEMMA PassBegin == ASSUME PassInv, Begin PROVE PassInv'
<1>1. /\ pc' = "power" /\ container' = 0 /\ sun_mode' = FALSE /\ max_current' = -1
      /\ request' = <<>> /\ asked' = None /\ UNCHANGED <<waiting, shown, device, fresh>>
  BY DEF Begin
<1>2. request' \in Seq({request'[i] : i \in 1..Len(request')}) /\ Len(request') = 0
  BY <1>1, OwnElements, <<>> \in Seq({})
<1>3. DOMAIN asked' = Entry /\ \A e \in Entry : asked'[e] \in Payload(e) /\ asked'[e] = <<>>
  BY <1>1 DEF None, Payload
<1>4. Typed'
  BY <1>1, <1>2, <1>3 DEF PassInv, Typed, Payload
<1>5. CommandsTyped'
  BY <1>2 DEF CommandsTyped
<1>6. FreshShown' /\ TakenOnce' /\ Begun'
  BY <1>1, <1>3 DEF PassInv, FreshShown, TakenOnce, Begun
<1>7. ASSUME NEW w \in Wallboxes PROVE PassOf(w)'
  <2>1. \A i \in 1..Len(request') : request'[i].to = 0
    BY <1>2
  <2>2. QED
    BY <1>1, <1>2, <2>1, PassBegins
<1>8. QED
  BY <1>4, <1>5, <1>6, <1>7 DEF PassInv

LEMMA PassPower == ASSUME PassInv, Power PROVE PassInv'
<1>1. /\ pc = "power" /\ pc' = "pass"
      /\ request' = IF left' > 0 THEN <<[to |-> 0, mode |-> power']>> ELSE <<>>
      /\ UNCHANGED <<waiting, container, sun_mode, max_current, shown, device, asked, fresh>>
  BY DEF Power, devices
<1>2. asked' = None /\ container' = 0 /\ max_current' = -1
  BY <1>1 DEF PassInv, Begun
<1>3. /\ request' \in Seq({request'[i] : i \in 1..Len(request')})
      /\ \A i \in 1..Len(request') : request'[i].to = 0
  <2>1. CASE left' > 0
    <3> DEFINE c == [to |-> 0, mode |-> power']
    <3>1. request' = <<c>> /\ c.to = 0
      BY <1>1, <2>1
    <3> HIDE DEF c
    <3>2. <<c>> \in Seq({c}) /\ Len(<<c>>) = 1 /\ <<c>>[1] = c
      OBVIOUS
    <3>3. QED
      BY <3>1, <3>2, OwnElements
  <2>2. CASE ~(left' > 0)
    <3>1. request' = <<>> /\ Len(request') = 0
      BY <1>1, <2>2
    <3>2. QED
      BY <3>1, OwnElements, <<>> \in Seq({})
  <2>3. QED
    BY <2>1, <2>2
<1>4. Typed'
  BY <1>1, <1>3 DEF PassInv, Typed, Payload
<1>5. CommandsTyped'
  BY <1>3 DEF CommandsTyped
<1>6. FreshShown' /\ TakenOnce' /\ Begun'
  BY <1>1 DEF PassInv, FreshShown, TakenOnce, Begun
<1>7. ASSUME NEW w \in Wallboxes PROVE PassOf(w)'
  BY <1>2, <1>3, PassBegins
<1>8. QED
  BY <1>4, <1>5, <1>6, <1>7 DEF PassInv

LEMMA PassTake == ASSUME PassInv, NEW e \in Entry, Take(e) PROVE PassInv'
<1> DEFINE v == waiting[e][1]
           s == Settings(e[1], e[2], v)
           to == ContainerOf(e[2])
<1>1. /\ pc = "pass" /\ waiting[e] # <<>> /\ UNCHANGED <<pc, shown, device, fresh>>
      /\ container' = to
      /\ waiting' = [waiting EXCEPT ![e] = <<>>]
      /\ asked' = [asked EXCEPT ![e] = waiting[e]]
  BY DEF Take, devices
<1>2. /\ e[1] = "min_current" =>
           request' = Append(request, MinCommand(to, v)) /\ UNCHANGED <<sun_mode, max_current>>
      /\ e[1] # "min_current" =>
           /\ request' = Append(request, ExternCommand(to, s.sun, Clamp(s.max),
                                                       Toggles(e[1], e[2], v)))
           /\ sun_mode' = s.sun /\ max_current' = s.max
  BY DEF Take
<1>3. to \in Wallboxes
  BY EntryParts DEF PassInv, Typed, ContainerOf
<1>4. e[1] = "min_current" => v \in Nat
  BY <1>1, PayloadParts DEF PassInv, Typed
<1>5. e[1] # "min_current" => s.sun \in BOOLEAN /\ s.max \in Nat
  BY <1>1, SettingsParts DEF PassInv
<1>6. Clamp(s.max) \in 1..MaxCurrent \/ e[1] = "min_current"
  BY <1>5, Clamped
<1>7. PICK c : /\ request' = Append(request, c)
               /\ \/ c.to \in Wallboxes /\ c.what = "min" /\ c.min \in Nat
                  \/ /\ c.to \in Wallboxes /\ c.what = "extern"
                     /\ c.sun \in BOOLEAN /\ c.max \in 1..MaxCurrent
  <2>1. CASE e[1] = "min_current"
    <3> DEFINE d == MinCommand(to, v)
    <3>1. d.to = to /\ d.what = "min" /\ d.min = v
      BY DEF MinCommand
    <3>2. request' = Append(request, d)
      BY <1>2, <2>1
    <3> HIDE DEF d
    <3>3. QED
      BY <1>3, <1>4, <2>1, <3>1, <3>2
  <2>2. CASE e[1] # "min_current"
    <3> DEFINE d == ExternCommand(to, s.sun, Clamp(s.max), Toggles(e[1], e[2], v))
    <3>1. d.to = to /\ d.what = "extern" /\ d.sun = s.sun /\ d.max = Clamp(s.max)
      BY DEF ExternCommand
    <3>2. request' = Append(request, d)
      BY <1>2, <2>2
    <3> HIDE DEF d, s
    <3>3. QED
      BY <1>3, <1>5, <1>6, <2>2, <3>1, <3>2
  <2>3. QED
    BY <2>1, <2>2
<1>8. request \in Seq({request[i] : i \in 1..Len(request)})
  BY DEF PassInv, Typed
<1>9. Typed'
  <2>1. DOMAIN waiting' = Entry /\ \A f \in Entry : waiting'[f] \in Payload(f)
    BY <1>1 DEF PassInv, Typed, Payload
  <2>2. DOMAIN asked' = Entry /\ \A f \in Entry : asked'[f] \in Payload(f)
    BY <1>1 DEF PassInv, Typed
  <2>3. request' \in Seq({request'[i] : i \in 1..Len(request')})
    BY <1>7, <1>8, Appended
  <2>4. sun_mode' \in BOOLEAN /\ max_current' \in Nat \cup {-1}
    <3> HIDE DEF s
    <3>1. CASE e[1] = "min_current"
      BY <1>2, <3>1 DEF PassInv, Typed
    <3>2. CASE e[1] # "min_current"
      BY <1>2, <1>5, <3>2
    <3>3. QED
      BY <3>1, <3>2
  <2>5. shown' \in [Wallboxes -> ShownType] /\ device' \in [Wallboxes -> DeviceType]
    BY <1>1 DEF PassInv, Typed
  <2>6. container' \in Wallboxes \cup {0} /\ pc' \in {"wait", "power", "pass", "answer"}
    BY <1>1, <1>3
  <2>7. QED
    BY <2>1, <2>2, <2>3, <2>4, <2>5, <2>6 DEF Typed, Payload
<1>10. CommandsTyped'
  <2>1. /\ Len(request) \in Nat /\ Len(request') = Len(request) + 1
        /\ \A i \in 1..Len(request) : request'[i] = request[i]
        /\ request'[Len(request) + 1] = c
    BY <1>7, <1>8, Grown
  <2> DEFINE n == Len(request)
  <2>2. /\ n \in Nat /\ Len(request') = n + 1
        /\ \A i \in 1..n : request'[i] = request[i]
        /\ request'[n + 1] = c
    BY <2>1
  <2>3. \A i \in 1..n : \/ request[i].to = 0
                        \/ /\ request[i].to \in Wallboxes /\ request[i].what = "min"
                           /\ request[i].min \in Nat
                        \/ /\ request[i].to \in Wallboxes /\ request[i].what = "extern"
                           /\ request[i].sun \in BOOLEAN /\ request[i].max \in 1..MaxCurrent
    BY DEF PassInv, CommandsTyped
  <2> HIDE DEF n
  <2>4. \A i \in 1..(n + 1) : i \in 1..n \/ i = n + 1
    BY <2>2
  <2>5. QED
    BY <1>7, <2>2, <2>3, <2>4 DEF CommandsTyped
<1>11. FreshShown' /\ TakenOnce' /\ Begun'
  <2>1. FreshShown' /\ Begun'
    BY <1>1 DEF PassInv, FreshShown, Begun
  <2>2. TakenOnce'
    BY <1>1 DEF PassInv, Typed, TakenOnce
  <2>3. QED
    BY <2>1, <2>2
<1>12. ASSUME NEW w \in Wallboxes, AllFor(w)' PROVE PassOf(w)'
  BY <1>12, TakeMin, TakeExtern
<1>13. QED
  BY <1>9, <1>10, <1>11, <1>12 DEF PassInv

LEMMA PassSend == ASSUME PassInv, Send PROVE PassInv'
<1>1. /\ pc = "pass" /\ pc' = "answer"
      /\ UNCHANGED <<asked, locals, shown>> /\ UNCHANGED <<waiting, device, fresh>>
      /\ UNCHANGED <<container, sun_mode, max_current, request>>
  BY DEF Send, locals, devices
<1>2. Typed'
  BY <1>1 DEF PassInv, Typed, Payload
<1>3. CommandsTyped' /\ FreshShown' /\ TakenOnce' /\ Begun'
  BY <1>1 DEF PassInv, CommandsTyped, FreshShown, TakenOnce, Begun
<1>4. (InPass => \A w \in Wallboxes : AllFor(w) => PassOf(w))'
  BY <1>1, PassKept DEF PassInv, InPass
<1>5. QED
  BY <1>2, <1>3, <1>4 DEF PassInv

(* A wallbox keeps its types, whatever the frame says.                      *)
LEMMA ObeysTyped ==
  ASSUME PassInv, NEW w \in Wallboxes
  PROVE  ObeysAll(w) \in DeviceType
<1> DEFINE extern == Commands(w, "extern")
           min == Commands(w, "min")
<1>1. /\ Len(request) \in Nat
      /\ extern \subseteq 1..Len(request) /\ min \subseteq 1..Len(request)
  BY CommandPlaces DEF PassInv
<1>2. \A i \in 1..Len(request) :
        /\ i \in extern => request[i].sun \in BOOLEAN /\ request[i].max \in 1..MaxCurrent
        /\ i \in min => request[i].min \in Nat
  BY EntryParts DEF PassInv, CommandsTyped, Commands
<1> HIDE DEF extern, min
<1>3. extern # {} => request[LastOf(extern)].sun \in BOOLEAN
                     /\ request[LastOf(extern)].max \in 1..MaxCurrent
  BY <1>1, <1>2, LastExists
<1>4. min # {} => request[LastOf(min)].min \in Nat
  BY <1>1, <1>2, LastExists
<1>5. /\ device[w].sun \in BOOLEAN /\ device[w].suspended \in BOOLEAN
      /\ device[w].max \in 1..MaxCurrent /\ device[w].min \in Nat
  BY WallboxParts DEF PassInv
<1>6. (IF Cardinality(Toggling(w)) % 2 = 1 THEN ~device[w].suspended ELSE device[w].suspended)
        \in BOOLEAN
  BY <1>5
<1>7. /\ (IF extern = {} THEN device[w].sun ELSE request[LastOf(extern)].sun) \in BOOLEAN
      /\ (IF extern = {} THEN device[w].max ELSE request[LastOf(extern)].max) \in 1..MaxCurrent
      /\ (IF min = {} THEN device[w].min ELSE request[LastOf(min)].min) \in Nat
  BY <1>3, <1>4, <1>5
<1>8. QED
  BY <1>6, <1>7 DEF ObeysAll, DeviceType, extern, min

LEMMA PassAnswer == ASSUME PassInv, Answer PROVE PassInv'
<1>1. /\ pc' = "wait" /\ device' = [w \in Wallboxes |-> ObeysAll(w)]
      /\ shown' \in IF config.wallbox THEN {ShownOf(device), ShownOf(device')} ELSE {shown}
      /\ fresh' = {w \in Wallboxes : shown'[w] = ExternData(device'[w])}
      /\ UNCHANGED <<waiting, asked, container, sun_mode, max_current, request>>
  BY DEF Answer, FrameArrives, locals
<1>2. device' \in [Wallboxes -> DeviceType]
  BY <1>1, ObeysTyped
<1>3. \A d \in [Wallboxes -> DeviceType] : ShownOf(d) \in [Wallboxes -> ShownType]
  <2> SUFFICES ASSUME NEW d \in [Wallboxes -> DeviceType], NEW w \in Wallboxes
               PROVE  ExternData(d[w]) \in ShownType
    BY DEF ShownOf
  <2>1. d[w].sun \in BOOLEAN /\ d[w].suspended \in BOOLEAN /\ d[w].max \in 1..MaxCurrent
    BY DEF DeviceType
  <2>2. d[w].max \in 0..MaxCurrent
    BY <2>1, RequestAssumption
  <2>3. QED
    BY <2>1, <2>2 DEF ExternData, ShownType
<1>4. shown' \in [Wallboxes -> ShownType]
  BY <1>1, <1>2, <1>3 DEF PassInv, Typed
<1>5. Typed'
  BY <1>1, <1>2, <1>4 DEF PassInv, Typed, Payload, DeviceType, ShownType
<1>6. CommandsTyped' /\ TakenOnce' /\ Begun' /\ ~InPass'
  BY <1>1 DEF PassInv, CommandsTyped, TakenOnce, Begun, InPass
<1>7. FreshShown'
  BY <1>1 DEF FreshShown, ExternData
<1>8. QED
  BY <1>5, <1>6, <1>7 DEF PassInv

LEMMA PassBreak == ASSUME PassInv, Break PROVE PassInv'
<1>1. /\ pc' = "wait"
      /\ device' = [w \in Wallboxes |-> ObeysAll(w)] \/ device' = device
      /\ fresh' = {w \in fresh : device'[w] = device[w]}
      /\ UNCHANGED <<waiting, asked, shown, container, sun_mode, max_current, request>>
  BY DEF Break, FrameArrives, locals, devices
<1>2. device' \in [Wallboxes -> DeviceType]
  BY <1>1, ObeysTyped DEF PassInv, Typed
<1>3. Typed'
  BY <1>1, <1>2 DEF PassInv, Typed, Payload, DeviceType
<1>4. CommandsTyped' /\ TakenOnce' /\ Begun' /\ ~InPass'
  BY <1>1 DEF PassInv, CommandsTyped, TakenOnce, Begun, InPass
<1>5. FreshShown'
  BY <1>1 DEF PassInv, FreshShown
<1>6. QED
  BY <1>3, <1>4, <1>5 DEF PassInv

LEMMA PassStep == PassInv /\ [Next]_vars => PassInv'
<1> SUFFICES ASSUME PassInv, [Next]_vars PROVE PassInv'
  OBVIOUS
<1>1. ASSUME UNCHANGED vars PROVE PassInv'
  <2>1. /\ UNCHANGED <<pc, waiting, device, fresh, container, sun_mode, max_current, request>>
        /\ UNCHANGED <<asked, locals, shown>>
    BY <1>1 DEF vars, locals, devices
  <2>2. Typed'
    BY <2>1 DEF PassInv, Typed, Payload
  <2>3. CommandsTyped' /\ FreshShown' /\ TakenOnce' /\ Begun'
    BY <2>1 DEF PassInv, CommandsTyped, FreshShown, TakenOnce, Begun
  <2>4. (InPass => \A w \in Wallboxes : AllFor(w) => PassOf(w))'
    BY <2>1, PassKept DEF PassInv, InPass
  <2>5. QED
    BY <2>2, <2>3, <2>4 DEF PassInv
<1>2. ASSUME NEW e \in Entry, (\E v \in Payloads(e[1]) : Receive(e, v)) \/ Take(e)
      PROVE  PassInv'
  BY <1>2, PassReceive, PassTake
<1>3. ASSUME NEW p \in PowerModes, ReceivePower(p) PROVE PassInv'
  BY <1>3, PassReceivePower
<1>4. ASSUME NEW w \in Wallboxes, Operate(w) PROVE PassInv'
  BY <1>4, PassOperate
<1>5. QED
  BY <1>1, <1>2, <1>3, <1>4, PassBegin, PassPower, PassSend, PassAnswer, PassBreak DEF Next

-----------------------------------------------------------------------------
(* What the frame makes of the wallbox that all its commands are for.       *)
LEMMA Effect ==
  ASSUME PassInv, InPass, NEW w \in Wallboxes, AllFor(w)
  PROVE  LET o == ObeysAll(w)
         IN /\ IF \E name \in Name : name # "min_current" /\ Named(w, name)
               THEN /\ o.sun = IF Named(w, "sun_mode") THEN Wish(w, "sun_mode")
                               ELSE shown[w].sun
                    /\ o.max = Clamp(IF Named(w, "max_current") THEN Wish(w, "max_current")
                                     ELSE shown[w].max)
               ELSE o.sun = device[w].sun /\ o.max = device[w].max
            /\ o.min = IF Named(w, "min_current") THEN Wish(w, "min_current")
                       ELSE device[w].min
            /\ Toggled(w) = 0 => o.suspended = device[w].suspended
            /\ Toggled(w) = 1 => o.suspended = ~device[w].suspended
<1> DEFINE o == ObeysAll(w)
           extern == Commands(w, "extern")
           min == Commands(w, "min")
           d == device[w]
<1>1. PassOf(w)
  BY DEF PassInv
<1>2. /\ o.sun = IF extern = {} THEN d.sun ELSE request[LastOf(extern)].sun
      /\ o.max = IF extern = {} THEN d.max ELSE request[LastOf(extern)].max
      /\ o.min = IF min = {} THEN d.min ELSE request[LastOf(min)].min
      /\ o.suspended = IF Cardinality(Toggling(w)) % 2 = 1 THEN ~d.suspended ELSE d.suspended
  BY DEF ObeysAll
<1>3. /\ Len(request) \in Nat
      /\ extern \subseteq 1..Len(request) /\ min \subseteq 1..Len(request)
  BY CommandPlaces DEF PassInv
<1>4. extern \subseteq Nat /\ min \subseteq Nat
  BY <1>3
<1> HIDE DEF o, d
<1>5. IF \E name \in Name : name # "min_current" /\ Named(w, name)
      THEN /\ o.sun = IF Named(w, "sun_mode") THEN Wish(w, "sun_mode") ELSE shown[w].sun
           /\ o.max = Clamp(IF Named(w, "max_current") THEN Wish(w, "max_current")
                            ELSE shown[w].max)
      ELSE o.sun = d.sun /\ o.max = d.max
  <2>1. CASE NoRecord(w)
    <3>1. extern = {} /\ ~ \E name \in Name : name # "min_current" /\ Named(w, name)
      BY <2>1 DEF NoRecord
    <3>2. QED
      BY <1>2, <3>1
  <2>2. CASE LastRecord(w)
    <3>1. PICK i \in extern :
            /\ \A j \in extern : j <= i
            /\ request[i].sun = sun_mode /\ request[i].max = Clamp(max_current)
      BY <2>2 DEF LastRecord
    <3>2. /\ \E name \in Name : name # "min_current" /\ Named(w, name)
          /\ sun_mode = IF Named(w, "sun_mode") THEN Wish(w, "sun_mode") ELSE shown[w].sun
          /\ max_current = IF Named(w, "max_current") THEN Wish(w, "max_current")
                           ELSE shown[w].max
      BY <2>2 DEF LastRecord
    <3> HIDE DEF extern
    <3>3. LastOf(extern) = i /\ extern # {}
      BY <1>4, <3>1, LastIs
    <3>4. o.sun = sun_mode /\ o.max = Clamp(max_current)
      BY <1>2, <3>1, <3>3
    <3>5. QED
      BY <3>2, <3>4
  <2>3. QED
    BY <1>1, <2>1, <2>2 DEF PassOf
<1>6. o.min = IF Named(w, "min_current") THEN Wish(w, "min_current") ELSE d.min
  <2>1. CASE Named(w, "min_current")
    <3>1. PICK i \in min : /\ \A j \in min : j <= i
                           /\ request[i].min = Wish(w, "min_current")
      BY <1>1, <2>1 DEF PassOf, LastMin
    <3> HIDE DEF min
    <3>2. LastOf(min) = i /\ min # {}
      BY <1>4, <3>1, LastIs
    <3>3. QED
      BY <1>2, <2>1, <3>1, <3>2
  <2>2. CASE ~Named(w, "min_current")
    <3>1. min = {}
      BY <1>1, <2>2 DEF PassOf, LastMin
    <3>2. QED
      BY <1>2, <2>2, <3>1
  <2>3. QED
    BY <2>1, <2>2
<1>7. Cardinality(Toggling(w)) = Toggled(w)
  BY <1>1 DEF PassOf
<1>8. Toggled(w) = 0 => o.suspended = d.suspended
  <2>1. 0 % 2 = 0
    OBVIOUS
  <2>2. QED
    BY <1>2, <1>7, <2>1
<1>9. Toggled(w) = 1 => o.suspended = ~d.suspended
  <2>1. 1 % 2 = 1
    OBVIOUS
  <2>2. QED
    BY <1>2, <1>7, <2>1
<1>10. QED
  BY <1>5, <1>6, <1>8, <1>9 DEF o, d

(* All the commands of a pass for one wallbox take effect together.         *)
LEMMA TogetherStep ==
  ASSUME PassInv, Arrives, OnlyOne, NEW w \in Wallboxes
  PROVE  Obeyed(w)
<1>1. InPass /\ device'[w] = ObeysAll(w)
  BY DEF Arrives, FrameArrives, InPass
<1>2. CASE ~AllFor(w)
  <2>1. \A e \in Entry : e[2] = w => asked[e] = <<>>
    BY <1>2 DEF AllFor, OnlyOne
  <2>2. \A name \in Name : ~Named(w, name)
    BY <2>1, EntryParts DEF Named
  <2>3. QED
    BY <2>2 DEF Obeyed, Name
<1>3. CASE AllFor(w)
  <2> DEFINE o == ObeysAll(w)
  <2>1. /\ IF \E name \in Name : name # "min_current" /\ Named(w, name)
           THEN /\ o.sun = IF Named(w, "sun_mode") THEN Wish(w, "sun_mode") ELSE shown[w].sun
                /\ o.max = Clamp(IF Named(w, "max_current") THEN Wish(w, "max_current")
                                 ELSE shown[w].max)
           ELSE o.sun = device[w].sun /\ o.max = device[w].max
        /\ o.min = IF Named(w, "min_current") THEN Wish(w, "min_current") ELSE device[w].min
        /\ Toggled(w) = 0 => o.suspended = device[w].suspended
        /\ Toggled(w) = 1 => o.suspended = ~device[w].suspended
    BY <1>1, <1>3, Effect
  <2> HIDE DEF o
  <2>2. device'[w] = o
    BY <1>1 DEF o
  <2>3. Named(w, "sun_mode") => device'[w].sun = Wish(w, "sun_mode")
    BY <2>1, <2>2 DEF Name
  <2>4. Named(w, "max_current") => device'[w].max = Clamp(Wish(w, "max_current"))
    BY <2>1, <2>2 DEF Name
  <2>5. Named(w, "min_current") => device'[w].min = Wish(w, "min_current")
    BY <2>1, <2>2
  <2>6. (Named(w, "suspended") /\ ~Named(w, "toggle") /\ w \in fresh)
          => (device'[w].suspended <=> Wish(w, "suspended"))
    <3> SUFFICES ASSUME Named(w, "suspended"), ~Named(w, "toggle"), w \in fresh
                 PROVE  device'[w].suspended <=> Wish(w, "suspended")
      OBVIOUS
    <3>1. shown[w].suspended = device[w].suspended
      BY DEF PassInv, FreshShown
    <3>2. Wish(w, "suspended") \in BOOLEAN /\ device[w].suspended \in BOOLEAN
      BY WishParts, WallboxParts DEF PassInv
    <3>3. CASE Wish(w, "suspended") = device[w].suspended
      <4>1. Toggled(w) = 0
        BY <3>1, <3>3 DEF Toggled
      <4>2. device'[w].suspended = device[w].suspended
        BY <2>1, <2>2, <4>1
      <4>3. QED
        BY <3>3, <4>2
    <3>4. CASE Wish(w, "suspended") # device[w].suspended
      <4>1. Toggled(w) = 1
        BY <3>1, <3>4 DEF Toggled
      <4>2. device'[w].suspended = ~device[w].suspended
        BY <2>1, <2>2, <4>1
      <4>3. QED
        BY <3>2, <3>4, <4>2
    <3>5. QED
      BY <3>3, <3>4
  <2>7. QED
    BY <2>3, <2>4, <2>5, <2>6 DEF Obeyed
<1>4. QED
  BY <1>2, <1>3

(* And they leave alone what they are not about.                            *)
LEMMA OthersStep ==
  ASSUME PassInv, [Next]_vars, pc = "answer", pc' = "wait", OnlyOne, NEW w \in Wallboxes,
         w \in fresh \/ \A e \in Entry : e[2] = w => asked[e] = <<>>
  PROVE  /\ Named(w, "sun_mode") \/ device'[w].sun = device[w].sun
         /\ Named(w, "max_current") \/ device'[w].max = device[w].max
         /\ Named(w, "min_current") \/ device'[w].min = device[w].min
         /\ \/ Named(w, "toggle") \/ Named(w, "suspended")
            \/ device'[w].suspended = device[w].suspended
<1>1. device' = device \/ device'[w] = ObeysAll(w)
  <2>1. Answer \/ Break
    BY DEF Next, Receive, ReceivePower, Operate, Begin, Power, Take, Send, vars
  <2>2. Answer => device'[w] = ObeysAll(w)
    BY DEF Answer, FrameArrives
  <2>3. Break => device'[w] = ObeysAll(w) \/ device' = device
    BY DEF Break, FrameArrives, devices
  <2>4. QED
    BY <2>1, <2>2, <2>3
<1>2. CASE device' = device
  BY <1>2
<1>3. CASE device'[w] = ObeysAll(w) /\ AllFor(w)
  <2> DEFINE o == ObeysAll(w)
  <2>1. /\ IF \E name \in Name : name # "min_current" /\ Named(w, name)
           THEN /\ o.sun = IF Named(w, "sun_mode") THEN Wish(w, "sun_mode") ELSE shown[w].sun
                /\ o.max = Clamp(IF Named(w, "max_current") THEN Wish(w, "max_current")
                                 ELSE shown[w].max)
           ELSE o.sun = device[w].sun /\ o.max = device[w].max
        /\ o.min = IF Named(w, "min_current") THEN Wish(w, "min_current") ELSE device[w].min
        /\ Toggled(w) = 0 => o.suspended = device[w].suspended
    BY <1>3, Effect DEF InPass
  <2> HIDE DEF o
  <2>2. device'[w] = o
    BY <1>3 DEF o
  <2>3. ASSUME \E name \in Name : name # "min_current" /\ Named(w, name)
        PROVE  /\ shown[w].sun = device[w].sun
               /\ Clamp(shown[w].max) = device[w].max
    <3>1. w \in fresh
      BY <2>3, EntryParts DEF Named
    <3>2. shown[w].sun = device[w].sun /\ shown[w].max = device[w].max
      BY <3>1 DEF PassInv, FreshShown
    <3>3. device[w].max \in 1..MaxCurrent
      BY WallboxParts DEF PassInv
    <3>4. device[w].max \in Nat
      BY <3>3, RequestAssumption
    <3>5. QED
      BY <3>2, <3>3, <3>4, Clamped
  <2>4. Named(w, "sun_mode") \/ device'[w].sun = device[w].sun
    BY <2>1, <2>2, <2>3
  <2>5. Named(w, "max_current") \/ device'[w].max = device[w].max
    BY <2>1, <2>2, <2>3
  <2>6. \/ Named(w, "toggle") \/ Named(w, "suspended")
        \/ device'[w].suspended = device[w].suspended
    BY <2>1, <2>2 DEF Toggled
  <2>7. Named(w, "min_current") \/ device'[w].min = device[w].min
    BY <2>1, <2>2
  <2>8. QED
    BY <2>4, <2>5, <2>6, <2>7
<1>4. CASE device'[w] = ObeysAll(w) /\ ~AllFor(w)
  <2>1. PICK e \in Entry : asked[e] # <<>> /\ e[2] # w
    BY <1>4 DEF AllFor
  <2>2. e[2] \in Wallboxes /\ AllFor(e[2])
    BY <2>1, EntryParts DEF AllFor, OnlyOne
  <2>3. Addressed(e[2])
    BY <2>2 DEF PassInv, InPass, PassOf
  <2>4. w # 0 /\ DOMAIN request = 1..Len(request)
    BY EntryParts DEF PassInv, Typed
  <2>5. \A what : Commands(w, what) = {}
    BY <2>1, <2>3, <2>4 DEF Addressed, Commands
  <2>6. Cardinality(Toggling(w)) = 0
    BY <2>5, FS_EmptySet DEF Toggling
  <2>7. Cardinality(Toggling(w)) % 2 # 1
    BY <2>6
  <2>8. /\ ObeysAll(w).sun = device[w].sun /\ ObeysAll(w).max = device[w].max
        /\ ObeysAll(w).min = device[w].min
        /\ ObeysAll(w).suspended = device[w].suspended
    BY <2>5, <2>7 DEF ObeysAll
  <2>9. QED
    BY <1>4, <2>8
<1>5. QED
  BY <1>1, <1>2, <1>3, <1>4

(* The commands for a wallbox: sun mode, current, suspension and the least  *)
(* current all take effect when the frame arrives, although each is sent as *)
(* a record of all settings, and in whatever order the table has them.      *)
THEOREM CommandsTakeEffect == Spec => Together
<1>1. PassInv /\ [Next]_vars => [Arrives /\ OnlyOne => \A w \in Wallboxes : Obeyed(w)]_vars
  BY TogetherStep
<1>2. QED
  BY InitPass, PassStep, <1>1, PTL DEF Spec, Together

(* No command changes a setting it is not about, of its own wallbox or of   *)
(* another one, if the wallbox is as it was last shown.                     *)
THEOREM OthersAreKept == Spec => OthersKept
<1>1. PassInv /\ [Next]_vars =>
        [pc = "answer" /\ pc' = "wait" /\ OnlyOne =>
           \A w \in Wallboxes :
             (w \in fresh \/ \A e \in Entry : e[2] = w => asked[e] = <<>>) =>
               /\ Named(w, "sun_mode") \/ device'[w].sun = device[w].sun
               /\ Named(w, "max_current") \/ device'[w].max = device[w].max
               /\ Named(w, "min_current") \/ device'[w].min = device[w].min
               /\ \/ Named(w, "toggle") \/ Named(w, "suspended")
                  \/ device'[w].suspended = device[w].suspended]_vars
  BY OthersStep
<1>2. QED
  BY InitPass, PassStep, <1>1, PTL DEF Spec, OthersKept

=============================================================================
