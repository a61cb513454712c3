---------------------------- MODULE IdlePeriods ----------------------------
(***************************************************************************)
(* Idle periods, version 2 (cfg.idle_periods_v2).                          *)
(*                                                                         *)
(* The device keeps the list of periods and a change marker. rscp2mqtt     *)
(* keeps a copy of the list, IdlePeriodTable, fetches it when the marker   *)
(* has changed, edits the copy on a command, and always sends the whole of *)
(* it, which replaces the list of the device. Device and copy are edited   *)
(* without a lock; what keeps them together is the marker alone.           *)
(*                                                                         *)
(* A span stands for the type, the weekdays, the start and the stop of a   *)
(* period. Its active flag takes no part in what follows and is left out,  *)
(* and so is the order of the list.                                        *)
(***************************************************************************)
EXTENDS Integers, FiniteSets

CONSTANTS
  Name,            \* names of periods
  Span,            \* spans of periods
  None,            \* no period, no name
  FirstLists,      \* the lists the device may start with
  ForeignLists,    \* the lists somebody else may store
  MaxCommands,     \* bound: number of commands
  MaxForeign,      \* bound: number of changes by somebody else
  MaxFaults        \* bound: number of broken connections and refused answers

Period == [name : Name, span : Span]

ASSUME IdleAssumption ==
  /\ IsFiniteSet(Name) /\ IsFiniteSet(Span)
  /\ None \notin Period /\ None \notin Name
  /\ FirstLists \subseteq SUBSET Period /\ FirstLists # {}
  /\ ForeignLists \subseteq SUBSET Period
  /\ MaxCommands \in Nat /\ MaxForeign \in Nat /\ MaxFaults \in Nat

VARIABLES
  table,           \* IdlePeriodTable: periods, each with the marker it came under
  changeNr,        \* period_change_nr
  trigger,         \* period_trigger
  number,          \* period_number
  setSlot,         \* the pending set/idle_period
  delSlot,         \* the pending set/idle_period/delete
  refreshSlot,     \* a pending set/idle_period/refresh, or a malformed set/idle_period
  forceSlot,       \* a pending set/force for all topics or for the idle periods
  frame,           \* the request that createRequest made
  answer,          \* the answer of the device
  pc,              \* "create", "sent" or "answered"
  device,          \* the list of the device
  devMarker,       \* the change marker of the device
  known,           \* history: periods told to the program, on the device ever since
  touched,         \* history: the names that commands were about
  spans,           \* history: the spans that commands set
  doubles,         \* history: the spans of which a list was sent without one of its periods
  lost,            \* history: a list that was to be sent did not arrive
  commands, foreigners, faults    \* history: what the bounds are about

program == <<table, changeNr, trigger, number>>
slots == <<setSlot, delSlot, refreshSlot, forceSlot>>
link == <<frame, answer, pc>>
appliance == <<device, devMarker>>
ghost == <<known, touched, spans, doubles, lost>>
bounds == <<commands, foreigners, faults>>
vars == <<program, slots, link, appliance, ghost, bounds>>

Idle == [get |-> FALSE, send |-> FALSE, list |-> {}]

Init ==
  /\ table = {} /\ changeNr = 0 /\ trigger = FALSE /\ number = 0
  /\ setSlot = None /\ delSlot = None /\ refreshSlot = FALSE /\ forceSlot = FALSE
  /\ frame = Idle /\ answer = [list |-> {}, marker |-> 0] /\ pc = "create"
  /\ device \in FirstLists /\ devMarker = 1
  /\ known = {} /\ touched = {} /\ spans = {} /\ doubles = {} /\ lost = FALSE
  /\ commands = 0 /\ foreigners = 0 /\ faults = 0

-----------------------------------------------------------------------------
(* Commands arrive: storeMQTTReceivedValue fills a slot that is free.      *)
Count == commands < MaxCommands /\ commands' = commands + 1

AskSet(p) ==
  /\ Count /\ setSlot = None
  /\ setSlot' = p
  /\ touched' = touched \cup {p.name} /\ spans' = spans \cup {p.span}
  /\ UNCHANGED <<program, delSlot, refreshSlot, forceSlot, link, appliance, known, doubles,
                 lost, foreigners, faults>>

AskDelete(n) ==
  /\ Count /\ delSlot = None
  /\ delSlot' = n
  /\ touched' = touched \cup {n}
  /\ UNCHANGED <<program, setSlot, refreshSlot, forceSlot, link, appliance, known, spans,
                 doubles, lost, foreigners, faults>>

AskRefresh ==
  /\ Count /\ ~refreshSlot
  /\ refreshSlot' = TRUE
  /\ UNCHANGED <<program, setSlot, delSlot, forceSlot, link, appliance, ghost, foreigners,
                 faults>>

AskForce ==
  /\ Count /\ ~forceSlot
  /\ forceSlot' = TRUE
  /\ UNCHANGED <<program, setSlot, delSlot, refreshSlot, link, appliance, ghost, foreigners,
                 faults>>

-----------------------------------------------------------------------------
(* The main thread.                                                        *)

\* deleteMQTTIdlePeriodsTable.
Without(t, n) == {e \in t : e.name # n}

Entry(p, nr) == [name |-> p.name, span |-> p.span, marker |-> nr]

\* storeSetIdlePeriod2 replaces the periods of that name.
With(t, p) == Without(t, p.name) \cup {Entry(p, changeNr)}

Deleted(t) == IF delSlot = None THEN t ELSE Without(t, delSlot)
Stored(t) == IF setSlot = None THEN t ELSE With(t, setSlot)

\* The receive cache is sorted by a key that its commands share: either order.
Commanded == {Stored(Deleted(table)), Deleted(Stored(table))}

\* sort and unique in sendSetIdlePeriod2: of the entries with the same marker and
\* span one is left, whatever their names, and the sort does not tell which.
Alike(e, f) == e.marker = f.marker /\ e.span = f.span
Uniques(t) ==
  {k \in SUBSET t : \A e \in t : Cardinality({f \in k : Alike(e, f)}) = 1}

Periods(t) == {[name |-> e.name, span |-> e.span] : e \in t}

\* set_period_trigger
SendIt == setSlot # None \/ delSlot # None \/ refreshSlot

\* createRequest: whether the list is fetched is settled before the commands are
\* looked at, so a fetch that set/force asks for waits for the next cycle.
CreateRequest ==
  /\ pc = "create"
  /\ \E t \in Commanded :
       \E k \in IF SendIt THEN Uniques(t) ELSE {t} :
         /\ table' = k
         /\ frame' = [get |-> trigger, send |-> SendIt,
                      list |-> IF SendIt THEN Periods(k) ELSE {}]
         /\ doubles' = doubles \cup {e.span : e \in t \ k}
  /\ trigger' = (trigger \/ forceSlot)
  /\ setSlot' = None /\ delSlot' = None /\ refreshSlot' = FALSE /\ forceSlot' = FALSE
  /\ pc' = "sent"
  /\ UNCHANGED <<changeNr, number, answer, appliance, known, touched, spans, lost, bounds>>

\* The device handles the requests of a frame in their order: the list, the
\* marker, and then the new list, which moves the marker if it is a change.
Device ==
  /\ pc = "sent"
  /\ pc' = "answered"
  /\ answer' = [list |-> device, marker |-> devMarker]
  /\ IF frame.send
     THEN /\ device' = frame.list
          /\ devMarker' = IF frame.list = device THEN devMarker ELSE devMarker + 1
          /\ known' = known \cap frame.list
     ELSE UNCHANGED <<appliance, known>>
  /\ UNCHANGED <<program, slots, frame, touched, spans, doubles, lost, bounds>>

\* The marker of a fetched period is the one of the last cycle, and the entries
\* under another marker go (cleanupMQTTIdlePeriodsTable).
Cleaned_Never(t) == t                                            \* mutant
Cleaned(t) == {e \in t : e.marker = changeNr}

Fetched_FromScratch(l) == {Entry(p, changeNr + 1) : p \in l}     \* mutant
Fetched(l) == {Entry(p, changeNr) : p \in l}

\* processReceiveBuffer: a list that is on its way is counted from the beginning.
Counted_On(l) == number + Cardinality(l)                         \* mutant
Counted(l) == (IF trigger THEN 0 ELSE number) + Cardinality(l)

\* TAG_EMS_IDLE_PERIOD_CHANGE_MARKER, after the list has been handled.
FetchAgain_Never(fetching) == fetching                           \* mutant
FetchAgain(fetching) == fetching \/ changeNr # answer.marker

HandleAnswer(refused) ==
  /\ pc = "answered"
  /\ refused => frame.get /\ faults < MaxFaults
  /\ faults' = IF refused THEN faults + 1 ELSE faults
  /\ LET l == IF frame.get /\ ~refused THEN answer.list ELSE {}
     IN /\ table' = IF l = {} THEN table ELSE Cleaned(table \cup Fetched(l))
        /\ number' = Counted(l)
        /\ trigger' = FetchAgain(trigger /\ l = {})
        /\ known' = known \cup (l \cap device)
  /\ changeNr' = answer.marker
  /\ pc' = "create"
  /\ UNCHANGED <<slots, frame, answer, appliance, touched, spans, doubles, lost,
                 commands, foreigners>>

\* The connection breaks, before or after the device has had the frame.
Break ==
  /\ pc # "create" /\ faults < MaxFaults
  /\ faults' = faults + 1
  /\ lost' = (lost \/ (pc = "sent" /\ frame.send))
  /\ pc' = "create"
  /\ UNCHANGED <<program, slots, frame, answer, appliance, known, touched, spans, doubles,
                 commands, foreigners>>

\* Somebody changes the list at the display or in the portal.
Foreign(l) ==
  /\ foreigners < MaxForeign /\ l # device
  /\ foreigners' = foreigners + 1
  /\ device' = l /\ devMarker' = devMarker + 1
  /\ known' = known \cap l
  /\ UNCHANGED <<program, slots, link, touched, spans, doubles, lost, commands, faults>>

Cycle == CreateRequest \/ Device \/ HandleAnswer(FALSE)

Next ==
  \/ Cycle
  \/ HandleAnswer(TRUE) \/ Break
  \/ \E p \in Period : AskSet(p)
  \/ \E n \in Name : AskDelete(n)
  \/ AskRefresh \/ AskForce
  \/ \E l \in ForeignLists : Foreign(l)

Spec == Init /\ [][Next]_vars

\* The main thread goes on, and the device answers.
FairSpec == Spec /\ WF_vars(Cycle)

-----------------------------------------------------------------------------
(* Properties.                                                             *)

TypeOK ==
  /\ table \subseteq [name : Name, span : Span, marker : Nat]
  /\ changeNr \in Nat /\ trigger \in BOOLEAN /\ number \in 0..Cardinality(Period)
  /\ setSlot \in Period \cup {None} /\ delSlot \in Name \cup {None}
  /\ refreshSlot \in BOOLEAN /\ forceSlot \in BOOLEAN
  /\ frame \in [get : BOOLEAN, send : BOOLEAN, list : SUBSET Period]
  /\ answer \in [list : SUBSET Period, marker : Nat]
  /\ pc \in {"create", "sent", "answered"}
  /\ device \subseteq Period /\ devMarker \in Nat
  /\ known \subseteq device /\ touched \subseteq Name
  /\ spans \subseteq Span /\ doubles \subseteq Span
  /\ lost \in BOOLEAN
  /\ commands \in 0..MaxCommands /\ foreigners \in 0..MaxForeign /\ faults \in 0..MaxFaults

\* Between two cycles, a copy that is not waiting for a fetch and whose marker is
\* the device's is the list of the device, duplicates aside: the marker is enough
\* to know it (handleResponseValue, TAG_EMS_IDLE_PERIOD_CHANGE_MARKER). Only a list
\* that got lost on its way breaks that, and an empty list, which is no answer.
InSync ==
  pc = "create" /\ ~trigger /\ changeNr = devMarker /\ ~lost => Periods(table) = device

\* Sending the whole copy costs nobody a period: one that the program has been
\* told of and that no command was about stays on the device, unless it shares its
\* span with one that a command set, or with one of two periods of which a list
\* was sent with one only (sendSetIdlePeriod2 against the fetch and its cleanup, with
\* changes by others, refused answers and broken connections).
MayGo(p) == p.name \in touched \/ p.span \in spans \cup doubles

KeepsOthers ==
  [][pc = "sent" /\ pc' = "answered" => \A p \in known \ device' : MayGo(p)]_vars

\* When nobody changes anything any more, the copy becomes the list of the device;
\* not when that list is empty, for which no answer ever cleans the copy.
CopyInTheEnd == <>[](Periods(table) = device \/ device = {} \/ lost)

\* The published number of periods becomes the number of periods.
NumberInTheEnd == <>[](number = Cardinality(device))

\* At every step the copy has the shape the code gives it, and is in step with the
\* device when its marker says so.
CopyInStep == TypeOK /\ InSync

=============================================================================
