-------------------------------- MODULE RawMode --------------------------------
(***************************************************************************)
(* The raw data mode: every value of a frame is published under the tags   *)
(* of the containers it is in, numbered where the same topic comes more    *)
(* than once in a frame. And the generic way of values into the topics     *)
(* (handleContainer), which walks through containers in the same manner.   *)
(* A value of a frame is [tag, kind, value], and a container has its       *)
(* values as value. Payloads as such: TypedValues.                         *)
(***************************************************************************)
EXTENDS Integers, Sequences, FiniteSets, SequencesExt, TLC

RECURSION_MAX_LEVEL == 7

Leaf(tag, value) == [tag |-> tag, kind |-> "value", value |-> value]
Box(tag, values) == [tag |-> tag, kind |-> "container", value |-> values]
Error(tag) == [tag |-> tag, kind |-> "error", value |-> 6]

-----------------------------------------------------------------------------
(* rawData: [topic, nr, payload], the set of its entries that are handled  *)
(* in this frame, and shown: what the broker has.                          *)
initRawData(s) == [s EXCEPT !.handled = {}]

\* The first entry of the topic that is not handled and has the number of
\* those handled before it; a new one, if there is none.
mergeRawData(s, topic, payload) ==
  LET same == {k \in DOMAIN s.data : s.data[k].topic = topic}
      seen(k) == Cardinality({j \in same \cap s.handled : j < k})
      fits == {k \in same \ s.handled : s.data[k].nr = seen(k)}
      new == Len(s.data) + 1
  IN IF fits = {}
     THEN [k |-> new, changed |-> TRUE,
           data |-> Append(s.data, [topic |-> topic, nr |-> seen(new), payload |-> payload])]
     ELSE LET k == CHOOSE i \in fits : \A j \in fits : i <= j
          IN [k |-> k, changed |-> s.data[k].payload # payload,
              data |-> [s.data EXCEPT ![k].payload = payload]]

\* The broker hears of a change or does not; the entry is as changed as ever.
publishRaw(s, topic, payload) ==
  LET merged == mergeRawData(s, topic, payload)
      nr == merged.data[merged.k].nr
      place == IF nr > 0 THEN Append(topic, nr) ELSE topic
  IN [s EXCEPT !.data = merged.data, !.handled = @ \cup {merged.k},
               !.sent = IF merged.changed THEN Append(@, place) ELSE @,
               !.shown = IF merged.changed /\ s.heard THEN (place :> payload) @@ @ ELSE @]

(* handleRaw: the tags on the way are in an array that all levels share.   *)
(* used is the set of its places that were written, full those containers  *)
(* that were too deep.                                                     *)
Noted(s, place, tag) == [s EXCEPT !.cache = (place :> tag) @@ @, !.used = @ \cup {place}]

RECURSIVE handleRaw(_, _, _)
handleRaw(s, response, level) ==
  LET l == level + 1
      one(c, item) ==
        LET noted == Noted(c, l, response.tag)
            named == Noted(noted, l + 1, item.tag)
        IN CASE item.kind = "error" -> c
             [] item.kind = "container" /\ l < RECURSION_MAX_LEVEL -> handleRaw(noted, item, l)
             [] item.kind = "container" /\ l >= RECURSION_MAX_LEVEL ->
                  [noted EXCEPT !.full = @ \cup {item.tag}]
             [] OTHER -> publishRaw(named, [i \in 1..(l + 2) |-> named.cache[i - 1]], item.value)
  IN CASE response.kind = "error" -> s
       [] l = 0 /\ response.kind = "value" -> publishRaw(s, <<response.tag>>, response.value)
       [] OTHER -> FoldLeft(one, s, response.value)

(* handleContainer: the same walk; a value is stored under the tag of the  *)
(* container around it and its own.                                        *)
RECURSIVE handleContainer(_, _, _)
handleContainer(s, response, level) ==
  LET l == level + 1
      one(c, item) ==
        LET noted == Noted(c, l, response.tag)
            named == Noted(noted, l + 1, item.tag)
        IN CASE item.kind = "error" -> c
             [] item.kind = "container" /\ l < RECURSION_MAX_LEVEL ->
                  handleContainer(noted, item, l)
             [] item.kind = "container" /\ l >= RECURSION_MAX_LEVEL ->
                  [noted EXCEPT !.full = @ \cup {item.tag}]
             [] OTHER -> [named EXCEPT !.sent = Append(@, <<named.cache[l], item.tag, item.value>>)]
  IN IF response.kind = "error" THEN s ELSE FoldLeft(one, s, response.value)

\* What handleResponseValue and classifyValues make of it, frame by frame.
NoRaw == [data |-> <<>>, handled |-> {}, shown |-> <<>>, sent |-> <<>>, heard |-> TRUE,
          cache |-> <<>>, used |-> {}, full |-> {}]
RawFrame(s, frame) ==
  FoldLeft(LAMBDA c, r : handleRaw(c, r, -1), initRawData(s), frame)
RawFrames(s, frames) == FoldLeft(RawFrame, s, frames)

-----------------------------------------------------------------------------
(* Over all sequences of two frames with up to three values under two      *)
(* topics: the topic <t>/<n> shows the value of the n-th repetition in the *)
(* last frame that had so many, and what has not changed is not sent       *)
(* again. So a repetition is told by its place among those present: where  *)
(* one is missing from a frame, the next ones take its topic.              *)
Frames == UNION {[1..n -> {Leaf("t", 1), Leaf("t", 2), Leaf("u", 1), Box("c", <<Leaf("t", 1)>>)}]
                 : n \in 0..3}
Flattened(frame) ==
  [i \in DOMAIN frame |->
     IF frame[i].kind = "container" THEN [topic |-> <<"c", "t">>, value |-> 1]
                                    ELSE [topic |-> <<frame[i].tag>>, value |-> frame[i].value]]
ValuesOf(frame, topic) ==
  LET all == SelectSeq(Flattened(frame), LAMBDA v : v.topic = topic)
  IN [i \in DOMAIN all |-> all[i].value]
Place(topic, i) == IF i = 1 THEN topic ELSE Append(topic, i - 1)
Times(s, place) == Len(SelectSeq(s.sent, LAMBDA p : p = place))

ShownRight(s, topic, old, now) ==
  \A i \in 1..4 :
    IF i \in DOMAIN old \/ i \in DOMAIN now
    THEN /\ s.shown[Place(topic, i)] = IF i \in DOMAIN now THEN now[i] ELSE old[i]
         /\ Times(s, Place(topic, i)) =
              IF i \in DOMAIN old /\ i \in DOMAIN now /\ old[i] # now[i] THEN 2 ELSE 1
    ELSE Place(topic, i) \notin DOMAIN s.shown

ASSUME RawShowsTheLast ==
  \A f \in Frames, g \in Frames, topic \in {<<"t">>, <<"u">>, <<"c", "t">>} :
    ShownRight(RawFrames(NoRaw, <<f, g>>), topic, ValuesOf(f, topic), ValuesOf(g, topic))

(* What was sent while the broker could not be reached comes again only by *)
(* a change.                                                               *)
ASSUME OnlyByAChange ==
  \A vs \in [1..3 -> 0..1] :
    LET frame(i) == <<Leaf("t", vs[i])>>
        away == RawFrame([NoRaw EXCEPT !.heard = FALSE], frame(1))
        s == RawFrames([away EXCEPT !.heard = TRUE], <<frame(2), frame(3)>>)
    IN IF vs[1] = vs[2] /\ vs[2] = vs[3] THEN s.shown = <<>> ELSE s.shown[<<"t">>] = vs[3]

(* The topic of a value is the way to it, however containers follow each   *)
(* other, also after refused values and containers that were left; and it  *)
(* is stored under the last two tags of the way (NEWTAGS.md: please        *)
(* specify the last two levels).                                           *)
Inner == {Leaf("a", 1), Error("b"), Box("c", <<Leaf("a", 2), Leaf("d", 3)>>),
          Box("e", <<Box("f", <<Leaf("a", 4)>>), Leaf("g", 5)>>), Box("h", <<>>)}
RECURSIVE Ways(_)
Ways(item) ==
  CASE item.kind = "error" -> <<>>
    [] item.kind = "value" -> <<<<item.tag>>>>
    [] OTHER -> LET inside == FlattenSeq([i \in DOMAIN item.value |-> Ways(item.value[i])])
                IN [i \in DOMAIN inside |-> <<item.tag>> \o inside[i]]

ASSUME TopicIsTheWay ==
  \A a \in Inner, b \in Inner, c \in Inner :
    LET all == Box("r", <<a, b, c>>)
        ways == Ways(all)
        stored == handleContainer(NoRaw, all, -1).sent
        data == handleRaw(NoRaw, all, -1).data
    IN /\ [i \in DOMAIN data |-> data[i].topic] = ways
       /\ [i \in DOMAIN stored |-> SubSeq(stored[i], 1, 2)] =
            [i \in DOMAIN ways |-> SubSeq(ways[i], Len(ways[i]) - 1, Len(ways[i]))]

(* The array has RECURSION_MAX_LEVEL places, 0 to 6. A value in up to six  *)
(* containers keeps to it. The guard lets one in seven or eight pass, and  *)
(* writes the places 7 and 8 behind the array; deeper ones are refused.    *)
RECURSIVE Chain(_)
Chain(n) == IF n = 0 THEN Leaf("v", 1) ELSE Box(n, <<Chain(n - 1)>>)

ASSUME PlacesUsed ==
  \A n \in 1..10 :
    LET s == handleRaw(NoRaw, Chain(n), -1)
        t == handleContainer(NoRaw, Chain(n), -1)
    IN /\ s.used = t.used /\ s.full = t.full
       /\ s.used \subseteq 0..(RECURSION_MAX_LEVEL - 1) <=> n <= RECURSION_MAX_LEVEL - 1
       /\ s.used = 0..(IF n <= 8 THEN n ELSE 7)
       /\ s.full # {} <=> n > 8

===============================================================================
