------------------------- MODULE IdlePeriods_proofs -------------------------
(* Theorems about IdlePeriods, for any names and spans, any lists of the    *)
(* device and any number of commands, changes by others and faults.         *)
EXTENDS IdlePeriods, FiniteSetTheorems, TLAPS

(* The inductive invariant behind InSync. An entry of the copy carries the  *)
(* marker of its cycle or an older one. While the marker is the device's,   *)
(* the entries under it are periods of the device, and the copy is its list *)
(* if no fetch is due.                                                      *)
Current == {e \in table : e.marker = changeNr}

Fits(idle) == Periods(Current) \subseteq device /\ (idle => Periods(table) = device)

Latest == ~lost /\ changeNr = devMarker

MarkersInOrder ==
  /\ changeNr <= devMarker
  /\ \A e \in table : e.marker <= changeNr
  /\ pc = "answered" => changeNr <= answer.marker /\ answer.marker <= devMarker

FramesInOrder ==
  pc # "create" =>
    /\ frame.get => trigger
    /\ (frame.send /\ pc = "sent") => frame.list = Periods(table)

CopyFits ==
  /\ (pc = "create" /\ Latest) => Fits(~trigger)
  /\ (pc = "sent" /\ ~frame.send /\ Latest) => Fits(~frame.get)
  /\ (pc = "answered" /\ Latest) => device = answer.list /\ Fits(~frame.get)

SyncInv == MarkersInOrder /\ FramesInOrder /\ CopyFits

(* The inductive invariant behind KeepsOthers. A period the program has     *)
(* been told of is in the copy, unless a command or a doublet was about it. *)
Held(ps) == \A p \in known : MayGo(p) \/ p \in ps

KnownInv ==
  /\ known \subseteq device
  /\ delSlot # None => delSlot \in touched
  /\ setSlot # None => setSlot.name \in touched
  /\ Held(Periods(table))
  /\ (pc = "sent" /\ frame.send) => Held(frame.list)
  /\ pc = "answered" => known \subseteq answer.list

-----------------------------------------------------------------------------
(* Types.                                                                   *)
LEMMA PeriodsFinite == IsFiniteSet(Period)
<1> DEFINE Pairs == Name \X Span
           f == [x \in Pairs |-> [name |-> x[1], span |-> x[2]]]
<1>1. IsFiniteSet(Pairs)
  BY IdleAssumption, FS_Product DEF IdleAssumption
<1>2. f \in Surjection(Pairs, Period)
  <2>1. f \in [Pairs -> Period]
    BY DEF Period
  <2>2. \A p \in Period : \E x \in Pairs : f[x] = p
    <3>1. SUFFICES ASSUME NEW p \in Period PROVE f[<<p.name, p.span>>] = p
      BY <3>1 DEF Period
    <3>2. p = [name |-> p.name, span |-> p.span] /\ <<p.name, p.span>> \in Pairs
      BY DEF Period
    <3>3. f[<<p.name, p.span>>] = [name |-> p.name, span |-> p.span]
      BY <3>2
    <3>4. QED
      BY <3>2, <3>3
  <2>3. QED
    BY <2>1, <2>2 DEF Surjection
<1>3. QED
  BY <1>1, <1>2, FS_Surjection

(* A list has no more periods than there are.                               *)
LEMMA ListBound == ASSUME NEW l \in SUBSET Period
                   PROVE  Cardinality(l) \in 0..Cardinality(Period)
BY PeriodsFinite, FS_Subset, FS_CardinalityType

LEMMA InitType == Init => TypeOK
<1> SUFFICES ASSUME Init PROVE TypeOK
  OBVIOUS
<1>1. number \in 0..Cardinality(Period)
  BY ListBound DEF Init
<1>2. commands \in 0..MaxCommands /\ foreigners \in 0..MaxForeign /\ faults \in 0..MaxFaults
  BY IdleAssumption DEF Init, IdleAssumption
<1>3. frame \in [get : BOOLEAN, send : BOOLEAN, list : SUBSET Period]
  BY DEF Init, Idle
<1>4. device \subseteq Period
  BY IdleAssumption DEF Init, IdleAssumption
<1>5. QED
  BY <1>1, <1>2, <1>3, <1>4 DEF Init, TypeOK

LEMMA EntryType ==
  ASSUME TypeOK, NEW t, t \subseteq [name : Name, span : Span, marker : Nat]
  PROVE  /\ Deleted(t) \subseteq [name : Name, span : Span, marker : Nat]
         /\ Stored(t) \subseteq [name : Name, span : Span, marker : Nat]
         /\ Periods(t) \subseteq Period
<1>1. Deleted(t) \subseteq [name : Name, span : Span, marker : Nat]
  BY DEF Deleted, Without
<1>2. ASSUME setSlot # None
      PROVE  Entry(setSlot, changeNr) \in [name : Name, span : Span, marker : Nat]
  BY <1>2 DEF Entry, TypeOK, Period
<1>3. Stored(t) \subseteq [name : Name, span : Span, marker : Nat]
  BY <1>2 DEF Stored, With, Without
<1>4. Periods(t) \subseteq Period
  BY DEF Periods, Period
<1>5. QED
  BY <1>1, <1>3, <1>4

(* The copy has a fetched list with the same names and spans.               *)
LEMMA FetchedPeriods == ASSUME NEW l \in SUBSET Period PROVE Periods(Fetched(l)) = l
<1>1. ASSUME NEW p \in Period
      PROVE  [name |-> Entry(p, changeNr).name, span |-> Entry(p, changeNr).span] = p
  <2>1. p = [name |-> p.name, span |-> p.span]
    BY DEF Period
  <2>2. QED
    BY <2>1 DEF Entry
<1>2. Periods(Fetched(l)) =
        {[name |-> Entry(p, changeNr).name, span |-> Entry(p, changeNr).span] : p \in l}
  BY DEF Periods, Fetched
<1>3. QED
  BY <1>1, <1>2

(* What a request leaves in the copy: the table with the commands carried   *)
(* out and without some of its doublets; the table itself if nothing is to  *)
(* be sent.                                                                 *)
LEMMA RequestKeeps ==
  ASSUME CreateRequest
  PROVE  \E t \in Commanded : \E k \in SUBSET t :
           /\ table' = k
           /\ frame' = [get |-> trigger, send |-> SendIt,
                        list |-> IF SendIt THEN Periods(k) ELSE {}]
           /\ doubles' = doubles \cup {e.span : e \in t \ k}
           /\ ~SendIt => k = table
<1>1. PICK t \in Commanded : \E k \in IF SendIt THEN Uniques(t) ELSE {t} :
        /\ table' = k
        /\ frame' = [get |-> trigger, send |-> SendIt,
                     list |-> IF SendIt THEN Periods(k) ELSE {}]
        /\ doubles' = doubles \cup {e.span : e \in t \ k}
  BY DEF CreateRequest
<1>2. PICK k \in IF SendIt THEN Uniques(t) ELSE {t} :
        /\ table' = k
        /\ frame' = [get |-> trigger, send |-> SendIt,
                     list |-> IF SendIt THEN Periods(k) ELSE {}]
        /\ doubles' = doubles \cup {e.span : e \in t \ k}
  BY <1>1
<1>3. k \in SUBSET t
  BY DEF Uniques
<1>4. ~SendIt => t = table /\ k = table
  BY DEF SendIt, Commanded, Stored, Deleted
<1>5. QED
  BY <1>2, <1>3, <1>4

LEMMA RequestType == TypeOK /\ CreateRequest => TypeOK'
<1> SUFFICES ASSUME TypeOK, CreateRequest PROVE TypeOK'
  OBVIOUS
<1> DEFINE E == [name : Name, span : Span, marker : Nat]
<1>1. PICK t \in Commanded : \E k \in SUBSET t :
        /\ table' = k
        /\ frame' = [get |-> trigger, send |-> SendIt,
                     list |-> IF SendIt THEN Periods(k) ELSE {}]
        /\ doubles' = doubles \cup {e.span : e \in t \ k}
  BY RequestKeeps
<1>2. table \subseteq E
  BY DEF TypeOK
<1>3. t \subseteq E
  <2>1. Deleted(table) \subseteq E /\ Stored(table) \subseteq E
    BY <1>2, EntryType
  <2>2. Stored(Deleted(table)) \subseteq E /\ Deleted(Stored(table)) \subseteq E
    BY <2>1, EntryType
  <2>3. QED
    BY <2>2 DEF Commanded
<1>4. PICK k \in SUBSET t :
        /\ table' = k
        /\ frame' = [get |-> trigger, send |-> SendIt,
                     list |-> IF SendIt THEN Periods(k) ELSE {}]
        /\ doubles' = doubles \cup {e.span : e \in t \ k}
  BY <1>1
<1>5. k \subseteq E /\ Periods(k) \subseteq Period
  BY <1>3, EntryType
<1>6. doubles' \subseteq Span
  BY <1>3, <1>4 DEF TypeOK
<1>7. frame' \in [get : BOOLEAN, send : BOOLEAN, list : SUBSET Period]
  <2>1. SendIt \in BOOLEAN /\ trigger \in BOOLEAN
    BY DEF SendIt, TypeOK
  <2>2. QED
    BY <1>4, <1>5, <2>1
<1>8. table' \subseteq E /\ trigger' \in BOOLEAN
  BY <1>4, <1>5 DEF CreateRequest, TypeOK
<1>9. QED
  BY <1>6, <1>7, <1>8 DEF CreateRequest, TypeOK, appliance, bounds

LEMMA AnswerType == ASSUME TypeOK, FramesInOrder, NEW refused \in BOOLEAN, HandleAnswer(refused)
                    PROVE  TypeOK'
<1> DEFINE l == IF frame.get /\ ~refused THEN answer.list ELSE {}
<1>1. l \subseteq Period
  BY DEF TypeOK
<1>2. table' = (IF l = {} THEN table ELSE Cleaned(table \cup Fetched(l)))
      /\ number' = Counted(l) /\ trigger' = FetchAgain(trigger /\ l = {})
      /\ known' = known \cup (l \cap device) /\ changeNr' = answer.marker
  BY DEF HandleAnswer
<1>3. table' \subseteq [name : Name, span : Span, marker : Nat]
  <2>1. Fetched(l) \subseteq [name : Name, span : Span, marker : Nat]
    BY <1>1 DEF Fetched, Entry, Period, TypeOK
  <2>2. Cleaned(table \cup Fetched(l)) \subseteq [name : Name, span : Span, marker : Nat]
    BY <2>1 DEF Cleaned, TypeOK
  <2>3. QED
    BY <1>2, <2>2 DEF TypeOK
<1>4. number' \in 0..Cardinality(Period)
  <2>1. Cardinality(l) \in 0..Cardinality(Period)
    BY <1>1, ListBound
  <2>2. CASE trigger
    BY <1>2, <2>1, <2>2 DEF Counted
  <2>3. CASE ~trigger
    <3>1. l = {}
      BY <2>3 DEF FramesInOrder, HandleAnswer
    <3>2. Cardinality(l) = 0
      BY <3>1, FS_EmptySet
    <3>3. number' = number
      BY <1>2, <2>3, <3>2 DEF Counted, TypeOK
    <3>4. QED
      BY <3>3 DEF TypeOK
  <2>4. QED
    BY <2>2, <2>3
<1>5. trigger' \in BOOLEAN /\ changeNr' \in Nat
  BY <1>2 DEF FetchAgain, TypeOK
<1>6. known' \subseteq device'
  BY <1>2 DEF HandleAnswer, appliance, TypeOK
<1>7. faults' \in 0..MaxFaults
  BY IdleAssumption DEF HandleAnswer, TypeOK, IdleAssumption
<1>8. QED
  BY <1>3, <1>4, <1>5, <1>6, <1>7 DEF HandleAnswer, TypeOK, slots, appliance

LEMMA StepType == TypeOK /\ FramesInOrder /\ [Next]_vars => TypeOK'
<1> SUFFICES ASSUME TypeOK, FramesInOrder, [Next]_vars PROVE TypeOK'
  OBVIOUS
<1> USE DEF program, slots, link, appliance, bounds
<1>1. ASSUME NEW p \in Period, AskSet(p) PROVE TypeOK'
  BY <1>1, IdleAssumption DEF AskSet, Count, TypeOK, IdleAssumption, Period
<1>2. ASSUME NEW n \in Name, AskDelete(n) PROVE TypeOK'
  BY <1>2, IdleAssumption DEF AskDelete, Count, TypeOK, IdleAssumption
<1>3. CASE AskRefresh
  BY <1>3, IdleAssumption DEF AskRefresh, Count, TypeOK, IdleAssumption, ghost
<1>4. CASE AskForce
  BY <1>4, IdleAssumption DEF AskForce, Count, TypeOK, IdleAssumption, ghost
<1>5. CASE CreateRequest
  BY <1>5, RequestType
<1>6. CASE Device
  <2>1. device' \subseteq Period /\ devMarker' \in Nat /\ known' \subseteq device'
    BY <1>6 DEF Device, TypeOK
  <2>2. answer' \in [list : SUBSET Period, marker : Nat]
    BY <1>6 DEF Device, TypeOK
  <2>3. QED
    BY <1>6, <2>1, <2>2 DEF Device, TypeOK
<1>7. CASE HandleAnswer(FALSE) \/ HandleAnswer(TRUE)
  BY <1>7, AnswerType
<1>8. CASE Break
  BY <1>8, IdleAssumption DEF Break, TypeOK, IdleAssumption
<1>9. ASSUME NEW l \in ForeignLists, Foreign(l) PROVE TypeOK'
  BY <1>9, IdleAssumption DEF Foreign, TypeOK, IdleAssumption
<1>10. CASE UNCHANGED vars
  BY <1>10 DEF vars, TypeOK, ghost
<1>11. QED
  BY <1>1, <1>2, <1>3, <1>4, <1>5, <1>6, <1>7, <1>8, <1>9, <1>10 DEF Next, Cycle

-----------------------------------------------------------------------------
(* The copy and the marker.                                                 *)
LEMMA InitSync == Init => SyncInv
BY DEF Init, SyncInv, MarkersInOrder, FramesInOrder, CopyFits, Latest, Idle

(* Steps that leave the copy and the device alone.                          *)
LEMMA SyncUnchanged ==
  ASSUME SyncInv, UNCHANGED <<program, link, appliance, lost>>
  PROVE  SyncInv'
BY DEF SyncInv, MarkersInOrder, FramesInOrder, CopyFits, Latest, Fits, Periods, Current,
       program, link, appliance

LEMMA SyncRequest == ASSUME TypeOK, SyncInv, CreateRequest PROVE SyncInv'
<1>1. PICK t \in Commanded : \E k \in SUBSET t :
        /\ table' = k
        /\ frame' = [get |-> trigger, send |-> SendIt,
                     list |-> IF SendIt THEN Periods(k) ELSE {}]
        /\ ~SendIt => k = table
  BY RequestKeeps
<1>2. PICK k \in SUBSET t :
        /\ table' = k
        /\ frame' = [get |-> trigger, send |-> SendIt,
                     list |-> IF SendIt THEN Periods(k) ELSE {}]
        /\ ~SendIt => k = table
  BY <1>1
<1>3. pc = "create" /\ pc' = "sent" /\ trigger' = (trigger \/ forceSlot)
      /\ UNCHANGED <<changeNr, devMarker, device, lost>>
  BY DEF CreateRequest, appliance
<1>4. MarkersInOrder'
  <2>1. \A e \in t : e.marker <= changeNr
    <3>1. ASSUME NEW e \in t, e \notin table PROVE e.marker = changeNr
      BY <3>1 DEF Commanded, Stored, Deleted, With, Without, Entry
    <3>2. QED
      BY <3>1 DEF SyncInv, MarkersInOrder, TypeOK
  <2>2. \A e \in table' : e.marker <= changeNr
    BY <1>2, <2>1
  <2>3. QED
    BY <1>3, <2>2 DEF SyncInv, MarkersInOrder
<1>5. FramesInOrder'
  BY <1>2, <1>3 DEF FramesInOrder, Periods
<1>6. CopyFits'
  <2>1. SUFFICES ASSUME ~frame'.send, Latest PROVE Fits(~frame.get)'
    BY <1>3 DEF CopyFits, Latest
  <2>2. table' = table /\ frame'.get = trigger
    BY <1>2, <2>1
  <2>3. Fits(~trigger)
    BY <1>3, <2>1 DEF SyncInv, CopyFits
  <2>4. QED
    BY <1>3, <2>2, <2>3 DEF Fits, Current, Periods
<1>7. QED
  BY <1>4, <1>5, <1>6 DEF SyncInv

LEMMA SyncDevice == ASSUME TypeOK, SyncInv, Device PROVE SyncInv'
<1>1. pc = "sent" /\ pc' = "answered" /\ answer' = [list |-> device, marker |-> devMarker]
      /\ UNCHANGED <<table, changeNr, trigger, frame, lost>>
  BY DEF Device, program
<1>2. MarkersInOrder'
  BY <1>1 DEF SyncInv, MarkersInOrder, Device, TypeOK, appliance
<1>3. FramesInOrder'
  BY <1>1 DEF SyncInv, FramesInOrder
<1>4. CopyFits'
  <2>1. SUFFICES ASSUME Latest' PROVE device' = device /\ Fits(~frame.get)'
    BY <1>1 DEF CopyFits
  <2>2. ~lost /\ changeNr = devMarker' /\ changeNr <= devMarker
    BY <1>1, <2>1 DEF Latest, SyncInv, MarkersInOrder
  <2>3. CASE frame.send
    <3>1. devMarker' = devMarker /\ device = frame.list /\ device' = frame.list
      BY <2>2, <2>3 DEF Device, TypeOK
    <3>2. device = Periods(table)
      BY <1>1, <2>3, <3>1 DEF SyncInv, FramesInOrder
    <3>3. QED
      BY <1>1, <3>1, <3>2 DEF Fits, Current, Periods
  <2>4. CASE ~frame.send
    <3>1. UNCHANGED <<device, devMarker>>
      BY <2>4 DEF Device, appliance
    <3>2. Fits(~frame.get)
      BY <1>1, <2>2, <2>4, <3>1 DEF SyncInv, CopyFits, Latest
    <3>3. QED
      BY <1>1, <3>1, <3>2 DEF Fits, Current, Periods
  <2>5. QED
    BY <2>3, <2>4
<1>5. QED
  BY <1>2, <1>3, <1>4 DEF SyncInv

LEMMA SyncAnswer ==
  ASSUME TypeOK, SyncInv, NEW refused \in BOOLEAN, HandleAnswer(refused)
  PROVE  SyncInv'
<1> DEFINE l == IF frame.get /\ ~refused THEN answer.list ELSE {}
<1>1. /\ table' = (IF l = {} THEN table ELSE Cleaned(table \cup Fetched(l)))
      /\ trigger' = FetchAgain(trigger /\ l = {})
      /\ changeNr' = answer.marker /\ pc = "answered" /\ pc' = "create"
      /\ UNCHANGED <<device, devMarker, lost>>
  BY DEF HandleAnswer, appliance
<1>2. \A e \in table' : e.marker <= changeNr
  BY <1>1 DEF Cleaned, Fetched, Entry, SyncInv, MarkersInOrder, TypeOK
<1>3. changeNr <= answer.marker /\ answer.marker <= devMarker
  BY <1>1 DEF SyncInv, MarkersInOrder
<1>4. table' \subseteq [name : Name, span : Span, marker : Nat]
  BY AnswerType DEF SyncInv, TypeOK
<1>5. MarkersInOrder'
  <2>1. ASSUME NEW e \in table' PROVE e.marker <= answer.marker
    <3>1. e.marker \in Nat /\ e.marker <= changeNr
      BY <1>2, <1>4, <2>1
    <3>2. QED
      BY <1>3, <3>1 DEF TypeOK
  <2>2. QED
    BY <1>1, <1>3, <2>1 DEF MarkersInOrder
<1>6. FramesInOrder'
  BY <1>1 DEF FramesInOrder
<1>7. CopyFits'
  <2>1. SUFFICES ASSUME ~lost, answer.marker = devMarker PROVE Fits(~trigger)'
    BY <1>1 DEF CopyFits, Latest
  <2>2. CASE changeNr # answer.marker
    <3>1. \A e \in table' : e.marker # answer.marker
      BY <1>2, <1>3, <1>4, <2>2 DEF TypeOK
    <3>2. Current' = {}
      BY <1>1, <3>1 DEF Current
    <3>3. trigger'
      BY <1>1, <2>2 DEF FetchAgain
    <3>4. QED
      BY <3>2, <3>3 DEF Fits, Periods
  <2>3. CASE changeNr = answer.marker
    <3>1. device = answer.list /\ Fits(~frame.get)
      BY <1>1, <2>1, <2>3 DEF SyncInv, CopyFits, Latest
    <3>2. CASE l = {}
      <4>1. trigger' = trigger /\ table' = table
        BY <1>1, <2>3, <3>2 DEF FetchAgain, TypeOK
      <4>2. ~trigger => ~frame.get
        BY <1>1 DEF SyncInv, FramesInOrder
      <4>3. QED
        BY <1>1, <2>3, <3>1, <4>1, <4>2 DEF Fits, Current, Periods
    <3>3. CASE l # {}
      <4>1. l = device
        BY <3>1, <3>3
      <4>2. table' = Current \cup Fetched(l)
        BY <1>1, <3>3 DEF Cleaned, Current, Fetched, Entry
      <4>3. Periods(Fetched(l)) = l
        <5>1. l \subseteq Period
          BY DEF TypeOK
        <5>2. QED
          BY <5>1, FetchedPeriods
      <4>4. Periods(table') = Periods(Current) \cup Periods(Fetched(l))
        BY <4>2 DEF Periods
      <4>5. Periods(table') = device
        BY <3>1, <4>1, <4>3, <4>4 DEF Fits
      <4>6. Periods(Current') \subseteq Periods(table')
        BY DEF Periods, Current
      <4>7. QED
        BY <1>1, <4>5, <4>6 DEF Fits, Periods
    <3>4. QED
      BY <3>2, <3>3
  <2>4. QED
    BY <2>2, <2>3
<1>8. QED
  BY <1>5, <1>6, <1>7 DEF SyncInv

LEMMA SyncBreak == ASSUME TypeOK, SyncInv, Break PROVE SyncInv'
<1>1. pc \in {"sent", "answered"} /\ pc' = "create"
      /\ lost' = (lost \/ (pc = "sent" /\ frame.send))
      /\ UNCHANGED <<table, changeNr, trigger, frame, answer, device, devMarker>>
  BY DEF Break, program, appliance, TypeOK
<1>2. MarkersInOrder' /\ FramesInOrder'
  BY <1>1 DEF SyncInv, MarkersInOrder, FramesInOrder
<1>3. CopyFits'
  <2>1. SUFFICES ASSUME ~lost', changeNr = devMarker PROVE Fits(~trigger)'
    BY <1>1 DEF CopyFits, Latest
  <2>2. Fits(~frame.get)
    BY <1>1, <2>1 DEF SyncInv, CopyFits, Latest
  <2>3. ~trigger => ~frame.get
    BY <1>1 DEF SyncInv, FramesInOrder
  <2>4. QED
    BY <1>1, <2>2, <2>3 DEF Fits, Current, Periods
<1>4. QED
  BY <1>2, <1>3 DEF SyncInv

LEMMA SyncForeign == ASSUME TypeOK, SyncInv, NEW d \in ForeignLists, Foreign(d) PROVE SyncInv'
<1>1. devMarker' = devMarker + 1 /\ UNCHANGED <<table, changeNr, trigger, frame, answer, pc, lost>>
  BY DEF Foreign, program, link
<1>2. changeNr < devMarker'
  BY <1>1 DEF SyncInv, MarkersInOrder, TypeOK
<1>3. MarkersInOrder'
  BY <1>1, <1>2 DEF SyncInv, MarkersInOrder, TypeOK
<1>4. FramesInOrder'
  BY <1>1 DEF SyncInv, FramesInOrder, Periods
<1>5. ~Latest'
  BY <1>1, <1>2 DEF Latest, TypeOK
<1>6. QED
  BY <1>3, <1>4, <1>5 DEF SyncInv, CopyFits

LEMMA StepSync == TypeOK /\ SyncInv /\ [Next]_vars => SyncInv'
<1> SUFFICES ASSUME TypeOK, SyncInv, [Next]_vars PROVE SyncInv'
  OBVIOUS
<1>1. ASSUME NEW p \in Period, AskSet(p) PROVE SyncInv'
  BY <1>1, SyncUnchanged DEF AskSet
<1>2. ASSUME NEW n \in Name, AskDelete(n) PROVE SyncInv'
  BY <1>2, SyncUnchanged DEF AskDelete
<1>3. CASE AskRefresh \/ AskForce
  BY <1>3, SyncUnchanged DEF AskRefresh, AskForce, ghost
<1>4. CASE CreateRequest
  BY <1>4, SyncRequest
<1>5. CASE Device
  BY <1>5, SyncDevice
<1>6. CASE HandleAnswer(FALSE) \/ HandleAnswer(TRUE)
  BY <1>6, SyncAnswer
<1>7. CASE Break
  BY <1>7, SyncBreak
<1>8. ASSUME NEW d \in ForeignLists, Foreign(d) PROVE SyncInv'
  BY <1>8, SyncForeign
<1>9. CASE UNCHANGED vars
  BY <1>9, SyncUnchanged DEF vars, ghost
<1>10. QED
  BY <1>1, <1>2, <1>3, <1>4, <1>5, <1>6, <1>7, <1>8, <1>9 DEF Next, Cycle

(* The copy and its marker as an inductive invariant.                       *)
THEOREM SyncInductive == Spec => [](TypeOK /\ SyncInv)
<1>1. Init => TypeOK /\ SyncInv
  BY InitType, InitSync
<1>2. TypeOK /\ SyncInv /\ [Next]_vars => (TypeOK /\ SyncInv)'
  BY StepType, StepSync DEF SyncInv
<1>3. QED
  BY <1>1, <1>2, PTL DEF Spec

(* Between two cycles the marker is enough to know the list of the device:  *)
(* a copy that waits for no fetch and has the device's marker is its list,  *)
(* whatever commands, changes by others and faults there have been.         *)
THEOREM CopyIsTheList == Spec => []CopyInStep
<1>1. TypeOK /\ SyncInv => CopyInStep
  BY DEF SyncInv, CopyFits, Fits, Latest, CopyInStep, InSync
<1>2. QED
  BY <1>1, SyncInductive, PTL

-----------------------------------------------------------------------------
(* Periods nobody gave a command about.                                     *)
LEMMA InitKnown == Init => KnownInv
BY DEF Init, KnownInv, Held, Idle

LEMMA KnownRequest == ASSUME TypeOK, KnownInv, CreateRequest PROVE KnownInv'
<1>1. PICK t \in Commanded : \E k \in SUBSET t :
        /\ table' = k
        /\ frame' = [get |-> trigger, send |-> SendIt,
                     list |-> IF SendIt THEN Periods(k) ELSE {}]
        /\ doubles' = doubles \cup {e.span : e \in t \ k}
  BY RequestKeeps
<1>2. PICK k \in SUBSET t :
        /\ table' = k
        /\ frame' = [get |-> trigger, send |-> SendIt,
                     list |-> IF SendIt THEN Periods(k) ELSE {}]
        /\ doubles' = doubles \cup {e.span : e \in t \ k}
  BY <1>1
<1>3. UNCHANGED <<known, touched, spans, device>> /\ pc' = "sent"
      /\ setSlot' = None /\ delSlot' = None
  BY DEF CreateRequest, appliance
<1>4. \A e \in table : e.name \in touched \/ e \in t
  BY DEF Commanded, Stored, Deleted, With, Without, KnownInv
<1>5. ASSUME NEW p \in known, ~MayGo(p)' PROVE p \in Periods(k)
  <2>1. ~MayGo(p) /\ p.name \notin touched
    BY <1>2, <1>3, <1>5 DEF MayGo
  <2>2. PICK e \in table : p = [name |-> e.name, span |-> e.span]
    BY <2>1 DEF KnownInv, Held, Periods
  <2>3. e \in t
    BY <1>4, <2>1, <2>2
  <2>4. e.span \notin doubles'
    BY <1>5, <2>2 DEF MayGo
  <2>5. e \in k
    BY <1>2, <2>3, <2>4
  <2>6. QED
    BY <2>2, <2>5 DEF Periods
<1>6. Held(Periods(table))'
  BY <1>2, <1>3, <1>5 DEF Held, Periods
<1>7. frame'.send => Held(frame.list)'
  BY <1>2, <1>3, <1>5 DEF Held
<1>8. QED
  BY <1>3, <1>6, <1>7 DEF KnownInv

LEMMA KnownDevice == ASSUME TypeOK, KnownInv, Device PROVE KnownInv'
<1>1. known' \subseteq known /\ known \subseteq device /\ answer'.list = device
  BY DEF Device, KnownInv
<1>2. known' \subseteq device'
  BY <1>1 DEF Device, appliance
<1>3. UNCHANGED <<table, touched, spans, doubles, setSlot, delSlot>> /\ pc' = "answered"
  BY DEF Device, program, slots
<1>4. Held(Periods(table))'
  BY <1>1, <1>3 DEF KnownInv, Held, MayGo, Periods
<1>5. QED
  BY <1>1, <1>2, <1>3, <1>4 DEF KnownInv

LEMMA KnownAnswer ==
  ASSUME TypeOK, KnownInv, NEW refused \in BOOLEAN, HandleAnswer(refused)
  PROVE  KnownInv'
<1> DEFINE l == IF frame.get /\ ~refused THEN answer.list ELSE {}
<1>1. /\ table' = (IF l = {} THEN table ELSE Cleaned(table \cup Fetched(l)))
      /\ known' = known \cup (l \cap device)
      /\ pc = "answered" /\ pc' = "create"
      /\ UNCHANGED <<device, touched, spans, doubles, setSlot, delSlot>>
  BY DEF HandleAnswer, slots, appliance
<1>2. known' \subseteq device'
  BY <1>1 DEF KnownInv
<1>3. Held(Periods(table))'
  <2>1. CASE l = {}
    BY <1>1, <2>1 DEF KnownInv, Held, MayGo, Periods
  <2>2. CASE l # {}
    <3>1. known' \subseteq l
      BY <1>1, <2>2 DEF KnownInv
    <3>2. \A p \in l : Entry(p, changeNr) \in table'
      BY <1>1, <2>2 DEF Cleaned, Fetched, Entry
    <3>3. l \subseteq Period
      BY DEF TypeOK
    <3>4. Fetched(l) \subseteq table'
      BY <3>2 DEF Fetched
    <3>5. l \subseteq Periods(table')
      BY <3>3, <3>4, FetchedPeriods DEF Periods
    <3>6. QED
      BY <3>1, <3>5 DEF Held, Periods
  <2>3. QED
    BY <2>1, <2>2
<1>4. QED
  BY <1>1, <1>2, <1>3 DEF KnownInv

LEMMA StepKnown == TypeOK /\ KnownInv /\ [Next]_vars => KnownInv'
<1> SUFFICES ASSUME TypeOK, KnownInv, [Next]_vars PROVE KnownInv'
  OBVIOUS
<1> USE DEF program, slots, link, appliance
<1>1. ASSUME NEW p \in Period, AskSet(p) PROVE KnownInv'
  BY <1>1 DEF AskSet, KnownInv, Held, MayGo, Periods
<1>2. ASSUME NEW n \in Name, AskDelete(n) PROVE KnownInv'
  BY <1>2 DEF AskDelete, KnownInv, Held, MayGo, Periods
<1>3. CASE AskRefresh \/ AskForce
  BY <1>3 DEF AskRefresh, AskForce, ghost, KnownInv, Held, MayGo, Periods
<1>4. CASE CreateRequest
  BY <1>4, KnownRequest
<1>5. CASE Device
  BY <1>5, KnownDevice
<1>6. CASE HandleAnswer(FALSE) \/ HandleAnswer(TRUE)
  BY <1>6, KnownAnswer
<1>7. CASE Break
  BY <1>7 DEF Break, KnownInv, Held, MayGo, Periods
<1>8. ASSUME NEW d \in ForeignLists, Foreign(d) PROVE KnownInv'
  BY <1>8 DEF Foreign, KnownInv, Held, MayGo, Periods
<1>9. CASE UNCHANGED vars
  BY <1>9 DEF vars, ghost, KnownInv, Held, MayGo, Periods
<1>10. QED
  BY <1>1, <1>2, <1>3, <1>4, <1>5, <1>6, <1>7, <1>8, <1>9 DEF Next, Cycle

(* Sending the whole copy costs nobody a period: in every step in which the *)
(* device takes a list over, the periods that go are those of commands and  *)
(* of doublets.                                                             *)
THEOREM OthersSurvive == Spec => KeepsOthers
<1>1. Init => KnownInv
  BY InitKnown
<1>2. TypeOK /\ KnownInv /\ [Next]_vars => KnownInv'
  BY StepKnown
<1>3. TypeOK /\ KnownInv /\ [Next]_vars
        => [pc = "sent" /\ pc' = "answered" => \A p \in known \ device' : MayGo(p)]_vars
  <2>1. SUFFICES ASSUME TypeOK, KnownInv, Next, pc = "sent", pc' = "answered",
                        NEW p \in known \ device'
                 PROVE  MayGo(p)
    BY <2>1
  <2>2. Device
    BY <2>1 DEF Next, Cycle, CreateRequest, HandleAnswer, Break, AskSet, AskDelete, AskRefresh,
                AskForce, Foreign, link
  <2>3. frame.send /\ device' = frame.list
    BY <2>1, <2>2 DEF Device, appliance, KnownInv
  <2>4. QED
    BY <2>1, <2>3 DEF KnownInv, Held
<1>4. QED
  BY <1>1, <1>2, <1>3, SyncInductive, PTL DEF Spec, KeepsOthers
=============================================================================
