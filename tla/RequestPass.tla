----------------------------- MODULE RequestPass -----------------------------
(***************************************************************************)
(* The pass of createRequest over the receive cache, with the commands     *)
(* that need more than their own entry: set/wallbox/... and                *)
(* set/power_mode. The cache is sorted by container, tag and wallbox.      *)
(*                                                                         *)
(* All wallbox commands of a pass go into one container, which begins with *)
(* the index of a wallbox. A command about sun mode, current or suspension *)
(* is sent as a record of all these settings, completed with what the      *)
(* response cache shows; sun_mode and max_current are local variables that *)
(* live for the whole pass. The power mode is sent again in each cycle     *)
(* until its time is over; the device falls back to normal by itself when  *)
(* it is not repeated.                                                     *)
(*                                                                         *)
(* The listener is kept out of the pass by the mutex. The wallboxes can    *)
(* also be operated by hand, and a frame with commands may be lost.        *)
(***************************************************************************)
EXTENDS Integers, Sequences, FiniteSets

CONSTANTS
  Wallboxes,       \* the wallboxes, by the place in WB_INDEX
  Currents,        \* payloads of max_current, and of min_current
  MaxCurrent,      \* 32 A
  PowerModes,      \* payloads of power_mode: [mode, cycles], the power with the mode
  Interval,        \* seconds from cycle to cycle, at most
  Hold,            \* seconds the device keeps a power mode
  Configs,         \* configurations: [wallbox, auto_refresh]
  MaxCommands,     \* bound: commands received
  MaxTroubles      \* bound: wallboxes operated by hand, frames lost

Normal == "auto"

ASSUME RequestAssumption ==
  /\ Wallboxes \subseteq Nat \ {0} /\ IsFiniteSet(Wallboxes)
  /\ Currents \subseteq Nat /\ MaxCurrent \in Nat \ {0, 1}
  /\ \A p \in PowerModes : p.cycles \in Nat /\ (p.mode = Normal => p.cycles = 0)
  /\ Interval \in Nat \ {0} /\ Hold \in Nat /\ Interval < Hold
  /\ \A c \in Configs : c.wallbox \in BOOLEAN /\ c.auto_refresh \in BOOLEAN
  /\ MaxCommands \in Nat /\ MaxTroubles \in Nat

(* Tags by their numeric order: TAG_WB_REQ_SET_MIN_CHARGE_CURRENT comes    *)
(* before TAG_WB_EXTERN_DATA, the tag of all the other commands here.      *)
Tag(name) == IF name = "min_current" THEN 1 ELSE 2

Payloads(name) ==
  IF name = "toggle" THEN {TRUE}
  ELSE IF name \in {"sun_mode", "suspended"} THEN BOOLEAN ELSE Currents

Name == {"sun_mode", "toggle", "suspended", "max_current", "min_current"}
Entry == Name \X Wallboxes

None == [e \in Entry |-> <<>>]
Unknown == [sun |-> FALSE, suspended |-> FALSE, max |-> 0]  \* of an empty response cache

VARIABLES
  config,          \* of cfg: wallbox, auto_refresh
  pc,              \* "wait", "power" and "pass" over the receive cache, "answer"
  waiting,         \* payload of each entry that is not done
  powerWaits,      \* the same of set/power_mode
  power,           \* entries "power_mode: mode" and "power_mode: value"
  left,            \* their refresh_until, in seconds from now; 0: not in the future
  container,       \* wallbox ReqContainer is for, 0: none yet
  sun_mode, max_current,
  request,         \* the commands of the frame, in their order
  shown,           \* what the response cache shows of each wallbox
  device,          \* the wallboxes
  mode, held,      \* power mode of the device, and how long it keeps it
  asked,           \* history: the commands of this pass
  fresh,           \* history: wallboxes that are still as shown
  promised,        \* history: seconds left of the cycles asked for with the power mode
  commands, troubles \* history: what the bounds are about

locals == <<container, sun_mode, max_current, request>>
powers == <<powerWaits, power, left>>
devices == <<device, mode, held>>
bounds == <<commands, troubles>>
vars == <<config, pc, waiting, powers, locals, shown, devices, asked, fresh, promised, bounds>>

Init ==
  /\ config \in Configs
  /\ pc = "wait" /\ waiting = None
  /\ powerWaits = <<>> /\ power = Normal /\ left = 0
  /\ container = 0 /\ sun_mode = FALSE /\ max_current = -1 /\ request = <<>>
  /\ shown = [w \in Wallboxes |-> Unknown]
  /\ device = [w \in Wallboxes |-> [sun |-> TRUE, suspended |-> FALSE, max |-> 2, min |-> 2]]
  /\ mode = Normal /\ held = 0
  /\ asked = None /\ fresh = {} /\ promised = 0 /\ commands = 0 /\ troubles = 0

Command == commands < MaxCommands /\ commands' = commands + 1
Trouble == troubles < MaxTroubles /\ troubles' = troubles + 1

-----------------------------------------------------------------------------
(* storeMQTTReceivedValue: an entry that waits is not overwritten.         *)
Receive(e, v) ==
  /\ config.wallbox /\ pc \in {"wait", "answer"} /\ waiting[e] = <<>>
  /\ Command
  /\ waiting' = [waiting EXCEPT ![e] = <<v>>]
  /\ UNCHANGED <<config, pc, powers, locals, shown, devices, asked, fresh, promised, troubles>>

ReceivePower(p) ==
  /\ pc \in {"wait", "answer"} /\ powerWaits = <<>>
  /\ Command
  /\ powerWaits' = <<p>>
  /\ UNCHANGED <<config, pc, waiting, power, left, locals, shown, devices, asked, fresh, promised,
                 troubles>>

(* Somebody operates a wallbox by hand.                                    *)
Operate(w) ==
  /\ config.wallbox /\ Trouble
  /\ \E s \in BOOLEAN, m \in 1..MaxCurrent :
       device' = [device EXCEPT ![w].sun = s, ![w].max = m, ![w].suspended = ~@]
  /\ fresh' = fresh \ {w}
  /\ UNCHANGED <<config, pc, waiting, powers, locals, shown, mode, held, asked, promised, commands>>

Later(t, d) == IF t > d THEN t - d ELSE 0

(* Seconds pass until the next cycle. A power mode the device has kept     *)
(* long enough is over.                                                    *)
Pause(d) ==
  /\ left' = Later(left, d) /\ held' = Later(held, d) /\ promised' = Later(promised, d)
  /\ mode' = IF held' = 0 THEN Normal ELSE mode

-----------------------------------------------------------------------------
(* Mutant: the variables keep what the pass before has left in them.       *)
Begin_NoReset ==
  /\ pc = "wait" /\ pc' = "power"
  /\ \E d \in 1..Interval : Pause(d)
  /\ container' = 0 /\ request' = <<>>
  /\ asked' = None
  /\ UNCHANGED <<config, sun_mode, max_current, waiting, powerWaits, power, shown, device, fresh,
                 bounds>>

(* The next cycle: createRequest begins its pass over the receive cache.   *)
Begin ==
  /\ pc = "wait" /\ pc' = "power"
  /\ \E d \in 1..Interval : Pause(d)
  /\ container' = 0 /\ sun_mode' = FALSE /\ max_current' = -1 /\ request' = <<>>
  /\ asked' = None
  /\ UNCHANGED <<config, waiting, powerWaits, power, shown, device, fresh, bounds>>

(* Mutant: the number of cycles is taken for seconds.                      *)
Duration_Cycles(p) == p.cycles

Duration(p) == p.cycles * Interval

(* The system call set/power_mode comes first, and handleSetPower reads    *)
(* the clock again, perhaps a second later. Then the entries of the power  *)
(* mode are sent if their time is not over.                                *)
Power ==
  /\ pc = "power" /\ pc' = "pass"
  /\ \/ powerWaits # <<>> /\ config.auto_refresh
        /\ power' = powerWaits[1].mode
        /\ \E d \in {0, 1} : left' = Duration(powerWaits[1]) + d
        /\ promised' = powerWaits[1].cycles * Interval
     \/ ~(powerWaits # <<>> /\ config.auto_refresh) /\ UNCHANGED <<power, left, promised>>
  /\ powerWaits' = <<>>
  /\ request' = IF left' > 0 THEN <<[to |-> 0, mode |-> power']>> ELSE <<>>
  /\ UNCHANGED <<config, waiting, container, sun_mode, max_current, shown, devices, asked, fresh,
                 bounds>>

(* The container is begun by the first wallbox command of the pass, with   *)
(* the index of its wallbox; the next ones have the same container.        *)
ContainerOf(w) == IF container = 0 THEN w ELSE container

(* Mutant: the record is always completed with what is shown.              *)
Known_Shown(w) == [sun |-> shown[w].sun, max |-> shown[w].max]

(* What the record is completed with: the first time in a pass what the    *)
(* response cache shows, then what the pass has found or was asked for.    *)
Known(w) ==
  IF max_current < 0 THEN [sun |-> shown[w].sun, max |-> shown[w].max]
  ELSE [sun |-> sun_mode, max |-> max_current]

(* The settings after the command name with payload v.                     *)
Settings(name, w, v) ==
  [sun |-> IF name = "sun_mode" THEN v ELSE Known(w).sun,
   max |-> IF name = "max_current" THEN v ELSE Known(w).max]

(* A command as it is sent: about min_current alone, or the whole record.  *)
(* Its fifth byte is 1 to suspend a wallbox, or to resume it.              *)
MinCommand(to, min) == [to |-> to, what |-> "min", min |-> min]
ExternCommand(to, sun, max, toggle) ==
  [to |-> to, what |-> "extern", sun |-> sun, max |-> max, toggle |-> IF toggle THEN 1 ELSE 0]

(* A wallbox is suspended, or resumed, by a toggle.                        *)
Toggles(name, w, v) == name = "toggle" \/ (name = "suspended" /\ v # shown[w].suspended)

Clamp(a) == IF a < 1 THEN 1 ELSE IF a > MaxCurrent THEN MaxCurrent ELSE a

(* The entries are taken in the order of tag and wallbox; the sort leaves  *)
(* those with the same tag and wallbox in any order.                       *)
First(e) ==
  \A f \in Entry :
    waiting[f] # <<>> =>
      Tag(e[1]) < Tag(f[1]) \/ (Tag(e[1]) = Tag(f[1]) /\ e[2] <= f[2])

Take(e) ==
  LET name == e[1]
      w == e[2]
      v == waiting[e][1]
      s == Settings(name, w, v)
  IN /\ pc = "pass" /\ waiting[e] # <<>> /\ First(e)
     /\ container' = ContainerOf(w)
     /\ IF name = "min_current"
        THEN /\ request' = Append(request, MinCommand(ContainerOf(w), v))
             /\ UNCHANGED <<sun_mode, max_current>>
        ELSE /\ request' = Append(request, ExternCommand(ContainerOf(w), s.sun, Clamp(s.max),
                                                         Toggles(name, w, v)))
             /\ sun_mode' = s.sun /\ max_current' = s.max
     /\ waiting' = [waiting EXCEPT ![e] = <<>>]
     /\ asked' = [asked EXCEPT ![e] = waiting[e]]
     /\ UNCHANGED <<config, pc, powers, shown, devices, fresh, promised, bounds>>

Send ==
  /\ pc = "pass" /\ waiting = None
  /\ pc' = "answer"
  /\ UNCHANGED <<config, waiting, powers, locals, shown, devices, asked, fresh, promised, bounds>>

-----------------------------------------------------------------------------
(* The commands for wallbox w, and those of them that toggle.              *)
Commands(w, what) == {i \in DOMAIN request : request[i].to = w /\ request[i].what = what}
Toggling(w) == {i \in Commands(w, "extern") : request[i].toggle = 1}
LastOf(places) == CHOOSE i \in places : \A j \in places : j <= i

(* A wallbox after all of them: the last one wins, but every toggle counts. *)
ObeysAll(w) ==
  LET extern == Commands(w, "extern")
      min == Commands(w, "min")
      d == device[w]
  IN [sun |-> IF extern = {} THEN d.sun ELSE request[LastOf(extern)].sun,
      suspended |-> IF Cardinality(Toggling(w)) % 2 = 1 THEN ~d.suspended ELSE d.suspended,
      max |-> IF extern = {} THEN d.max ELSE request[LastOf(extern)].max,
      min |-> IF min = {} THEN d.min ELSE request[LastOf(min)].min]

(* The devices do what the frame says. A power mode begins anew each time. *)
FrameArrives ==
  /\ device' = [w \in Wallboxes |-> ObeysAll(w)]
  /\ IF request # <<>> /\ request[1].to = 0
     THEN mode' = request[1].mode /\ held' = Hold
     ELSE UNCHANGED <<mode, held>>

(* What the answer says of a wallbox with settings d (TAG_WB_EXTERN_DATA). *)
ExternData(d) == [sun |-> d.sun, suspended |-> d.suspended, max |-> d.max]

(* Mutant: the answers are not counted.                                    *)
ShownOf_First(d) == [w \in Wallboxes |-> ExternData(d[1])]

ShownOf(d) == [w \in Wallboxes |-> ExternData(d[w])]

(* The answer shows the wallboxes as they were before the commands, or as  *)
(* they are after them.                                                    *)
Answer ==
  /\ pc = "answer" /\ pc' = "wait"
  /\ FrameArrives
  /\ shown' \in IF config.wallbox THEN {ShownOf(device), ShownOf(device')} ELSE {shown}
  /\ fresh' = {w \in Wallboxes : shown'[w] = ExternData(device'[w])}
  /\ UNCHANGED <<config, waiting, powers, locals, asked, promised, bounds>>

(* The connection breaks: the frame, or the answer, is lost.               *)
Break ==
  /\ pc = "answer" /\ pc' = "wait"
  /\ Trouble
  /\ FrameArrives \/ UNCHANGED devices
  /\ fresh' = {w \in fresh : device'[w] = device[w]}
  /\ UNCHANGED <<config, waiting, powers, locals, shown, asked, promised, commands>>

Next ==
  \/ \E e \in Entry : (\E v \in Payloads(e[1]) : Receive(e, v)) \/ Take(e)
  \/ \E p \in PowerModes : ReceivePower(p)
  \/ \E w \in Wallboxes : Operate(w)
  \/ Begin \/ Power \/ Send \/ Answer \/ Break

Fairness ==
  /\ WF_vars(Begin) /\ WF_vars(Power) /\ WF_vars((\E e \in Entry : Take(e)) \/ Send)
  /\ WF_vars(Answer \/ Break)

Spec == Init /\ [][Next]_vars /\ Fairness

-----------------------------------------------------------------------------
(* What was asked of wallbox w in this pass.                               *)
Named(w, name) == asked[<<name, w>>] # <<>>
Wish(w, name) == asked[<<name, w>>][1]

(* Wallbox w has got what was asked of it. "suspended" leads to the state  *)
(* it names if the wallbox is still as it was last shown.                  *)
Obeyed(w) ==
  /\ Named(w, "sun_mode") => (device'[w].sun <=> Wish(w, "sun_mode"))
  /\ Named(w, "max_current") => device'[w].max = Clamp(Wish(w, "max_current"))
  /\ Named(w, "min_current") => device'[w].min = Wish(w, "min_current")
  /\ (Named(w, "suspended") /\ ~Named(w, "toggle") /\ w \in fresh)
       => (device'[w].suspended <=> Wish(w, "suspended"))

OnlyOne == \A e, f \in Entry : asked[e] # <<>> /\ asked[f] # <<>> => e[2] = f[2]

Arrives == pc = "answer" /\ pc' = "wait" /\ FrameArrives

(* All the commands of a pass take effect together, in whatever order the  *)
(* table has them, if they are for one wallbox.                            *)
Together == [][Arrives /\ OnlyOne => \A w \in Wallboxes : Obeyed(w)]_vars

(* A command leaves the settings alone that it is not about, also those of *)
(* the other wallboxes, if the wallbox is still as it was last shown.      *)
OthersKept ==
  [][pc = "answer" /\ pc' = "wait" /\ OnlyOne =>
       \A w \in Wallboxes :
         (w \in fresh \/ \A e \in Entry : e[2] = w => asked[e] = <<>>) =>
           /\ Named(w, "sun_mode") \/ device'[w].sun = device[w].sun
           /\ Named(w, "max_current") \/ device'[w].max = device[w].max
           /\ Named(w, "min_current") \/ device'[w].min = device[w].min
           /\ \/ Named(w, "toggle") \/ Named(w, "suspended")
              \/ device'[w].suspended = device[w].suspended]_vars

(* The device stays in the power mode of the last command as many cycles   *)
(* as were asked for, from the frame that first sends it and without a gap *)
(* from one cycle to the next, if nothing goes wrong on the way.           *)
PowerHeld == (pc \in {"wait", "power"} /\ promised > 0 /\ troubles = 0) => mode = power

(* When nothing happens any more, all commands have been sent, the         *)
(* wallboxes are shown as they are, and the power mode is normal again.    *)
SettlesDown ==
  <>[](/\ waiting = None /\ powerWaits = <<>>
       /\ config.wallbox => fresh = Wallboxes
       /\ mode = Normal)

(* The documentation addresses each wallbox by its number. All commands of *)
(* a pass go to the wallbox of the first one.                              *)
ForItsWallbox == [][Arrives => \A w \in Wallboxes : Obeyed(w)]_vars

=============================================================================
