------------------------------ MODULE MessageLog ------------------------------
(***************************************************************************)
(* The messages about what the device refuses: collected, counted and      *)
(* logged; the names of tags in them; and the tags that are not asked for  *)
(* any more.                                                               *)
(***************************************************************************)
EXTENDS Integers, Sequences, FiniteSets, SequencesExt

-----------------------------------------------------------------------------
(* RscpTagsOverview: a vector that grows. Some entries of its table stand  *)
(* for all: each tag and each name is there once, and requests are marked. *)
(* A pointer to a name is good as long as the vector is in the same place. *)
TagEntry(tag, name, request) == [tag |-> tag, name |-> name, request |-> request]

RscpTagsOverview ==
  [list |-> <<TagEntry(0, <<"0">>, TRUE),
              TagEntry(\h00000001, <<"TAG_RSCP_REQ_AUTHENTICATION">>, TRUE),
              TagEntry(\h03040000, <<"TAG_BAT_REQ_DATA">>, TRUE),
              TagEntry(\h03840000, <<"TAG_BAT_DATA">>, FALSE),
              TagEntry(\h03800001, <<"TAG_BAT_RSOC">>, FALSE)>>,
   capacity |-> 5, place |-> 0]

Unnamed == {\h03800099, \h03800098}                  \* tags that no table has
Hex(tag) == <<"0x", tag>>

Known(v, tag) == \E i \in DOMAIN v.list : v.list[i].tag = tag

\* push_back moves a vector that is full.
PushBack(v, e) ==
  IF Len(v.list) < v.capacity THEN [v EXCEPT !.list = Append(@, e)]
  ELSE [list |-> Append(v.list, e), capacity |-> 2 * v.capacity, place |-> v.place + 1]

tagName(v, tag) ==
  LET w == IF Known(v, tag) THEN v ELSE PushBack(v, TagEntry(tag, Hex(tag), FALSE))
      i == CHOOSE j \in DOMAIN w.list : w.list[j].tag = tag
  IN [v |-> w, name |-> w.list[i].name, place |-> w.place]

tagID(v, name) ==
  LET is == SelectSeq(v.list, LAMBDA e : e.name = name)
  IN IF is = <<>> THEN 0 ELSE is[1].tag

isTag(v, name, must_be_request_tag) ==
  \E i \in DOMAIN v.list : v.list[i].name = name /\ (must_be_request_tag => v.list[i].request)

(* typeName and errName: the name of a code, or that of 0.                 *)
RscpTypeNames ==
  <<"None", "Bool", "Char8", "UChar8", "Int16", "UInt16", "Int32", "UInt32", "Int64", "UInt64",
    "Float32", "Double64", "Bitfield", "String", "Container", "Timestamp", "ByteArray">>
RscpErrorOverview ==
  <<"UNKNOWN", "NOT_HANDLED", "ACCESS_DENIED", "FORMAT_ERROR", "ERROR_AGAIN", "OUT_OF_BOUNDS",
    "NOT_AVAILABLE", "UNKNOWN_TAG", "ALREADY_IN_USE">>
NameOf(names, code) == IF code < Len(names) THEN names[code + 1] ELSE names[1]
typeID(name) ==
  IF \E i \in DOMAIN RscpTypeNames : RscpTypeNames[i] = name
  THEN (CHOOSE i \in DOMAIN RscpTypeNames : RscpTypeNames[i] = name) - 1 ELSE 0

-----------------------------------------------------------------------------
(* A log is [held, lines]: MessageCache, whose entries have a kind and a   *)
(* count and are never removed, and what was written to the log file.      *)
NoLog == [held |-> <<>>, lines |-> <<>>]

\* The line is the kind and the count; clear resets the counts.
logMessageCache(s, clear) ==
  [held |-> IF clear THEN [i \in DOMAIN s.held |-> [s.held[i] EXCEPT !.count = 0]] ELSE s.held,
   lines |-> s.lines \o SelectSeq(s.held, LAMBDA e : e.count > 0)]

Held(s, kind) == {i \in DOMAIN s.held : s.held[i].kind = kind}

updMessageByTag(s, kind) ==
  [s EXCEPT !.held = [i \in DOMAIN @ |-> IF i \in Held(s, kind) THEN [@[i] EXCEPT !.count = @ + 1]
                                                              ELSE @[i]]]

logMessageByTag(s, log_level, kind) ==
  LET new == [s EXCEPT !.held = Append(@, [kind |-> kind, count |-> 1])]
  IN IF log_level = 0 THEN s
     ELSE IF Held(s, kind) # {} THEN updMessageByTag(s, kind)
     ELSE IF log_level = 1 THEN logMessageCache(new, TRUE)
     ELSE new

\* A message, a new day, the command set/log/errors, and the end.
Happens(s, log_level, event) ==
  CASE event = "new_day" -> IF log_level > 0 THEN logMessageCache(s, TRUE) ELSE s
    [] event = "query" -> logMessageCache(s, FALSE)
    [] event = "end" -> IF log_level > 0 THEN logMessageCache(s, FALSE) ELSE s
    [] OTHER -> logMessageByTag(s, log_level, event)

(* The arguments of a line are chosen by what of container, tag and error  *)
(* is there, the format by the place that has made the message.            *)
Arguments(container, tag, error) ==
  CASE container # 0 /\ tag # 0 /\ error # 0 -> <<"container", "tag", "error", "count">>
    [] container = 0 /\ tag # 0 /\ error # 0 -> <<"tag", "error", "count">>
    [] container # 0 /\ tag # 0 /\ error = 0 -> <<"container", "tag", "count">>
    [] OTHER -> <<"count">>

\* The places: which of the three they give, and what their format prints.
Places ==
  {[gives |-> {"tag", "error"}, format |-> <<"tag", "error", "count">>],
   [gives |-> {"container", "tag", "error"}, format |-> <<"container", "tag", "error", "count">>],
   [gives |-> {"container", "tag"}, format |-> <<"container", "tag", "count">>],
   [gives |-> {}, format |-> <<"count">>]}

-----------------------------------------------------------------------------
(* NotSupportedTags.                                                       *)
existsNotSupportedTag(tags, container, tag) ==
  \E i \in DOMAIN tags : tags[i] = <<container, tag>>

pushNotSupportedTag(tags, container, tag) ==
  IF existsNotSupportedTag(tags, container, tag) THEN tags ELSE Append(tags, <<container, tag>>)

(* What of the inverter may be left out of a request, and the tag of the    *)
(* answer to a request.                                                    *)
TAG_PVI_DATA == \h02840000
Omittable == {\h02000060, \h02000070, \h02000080}
AnswerTag(request) == request + \h00800000
PviRequests(tags) == {t \in Omittable : ~existsNotSupportedTag(tags, TAG_PVI_DATA, t)}

-----------------------------------------------------------------------------
Kinds == {"a", "b"}
Events == Kinds \cup {"new_day", "query"}
Histories == UNION {[1..n -> Events] : n \in 0..5}
Logged(events, log_level) == FoldLeft(LAMBDA s, e : Happens(s, log_level, e), NoLog, events)
Times(events, kind) == Len(SelectSeq(events, LAMBDA e : e = kind))
Counted(entries, kind) ==
  FoldLeft(LAMBDA sum, e : IF e.kind = kind THEN sum + e.count ELSE sum, 0, entries)

(* No message is forgotten, and none is counted twice: what the log says   *)
(* at the ends of the days, and at the end of the program, adds up to what *)
(* has happened, whatever was looked at in between. Off is off.            *)
ASSUME NothingForgotten ==
  \A events \in Histories, kind \in Kinds :
    LET days == SelectSeq(events, LAMBDA e : e # "query")
        all(level) == Counted(Happens(Logged(days, level), level, "end").lines, kind)
        now(level) == Counted(Logged(events, level).held, kind)
    IN /\ all(1) = Times(events, kind) /\ all(2) = Times(events, kind)
       /\ now(1) = Counted(Logged(days, 1).held, kind)
       /\ now(2) = Counted(Logged(days, 2).held, kind)
       /\ Logged(events, 0) = NoLog

(* LOG_MODE=ON logs the first message of a kind at once. The next ones of  *)
(* the kind wait until a kind comes that was never seen before, or for the *)
(* end of the day, as with LOG_MODE=BUFFERED (CONFIG.md: if every event is *)
(* to be logged).                                                          *)
ASSUME FirstAtOnce ==
  \A events \in Histories, kind \in Kinds :
    LET before == Logged(events, 1)
        after == Logged(Append(events, kind), 1)
    IN IF Times(events, kind) = 0 THEN \A k \in Kinds : Counted(after.held, k) = 0
       ELSE /\ after.lines = before.lines
            /\ Counted(after.held, kind) = Counted(before.held, kind) + 1

(* Each place prints with the arguments it has a format for, as long as no *)
(* device gives an error the number 0: then the arguments are those of     *)
(* another format.                                                         *)
ASSUME FormatsFit ==
  \A p \in Places, error \in {0, 1, 6} :
    LET part(what, n) == IF what \in p.gives THEN n ELSE 0
        arguments == Arguments(part("container", 1), part("tag", 2), part("error", error))
    IN arguments = p.format <=> ("error" \in p.gives => error # 0)

(* A name leads back to its tag, also that of a tag nobody knows, which    *)
(* gets its number as a name; and no such tag can be asked for.            *)
ASSUME NamesLeadBack ==
  \A a \in {e.tag : e \in ToSet(RscpTagsOverview.list)} \cup Unnamed, b \in Unnamed :
    LET v == tagName(tagName(RscpTagsOverview, b).v, a).v
        name == tagName(v, a).name
    IN /\ tagID(v, name) = a
       /\ isTag(v, name, FALSE) /\ (a \in Unnamed => ~isTag(v, name, TRUE))
       /\ Cardinality({e.tag : e \in ToSet(v.list)}) = Len(v.list)

(* A line with a container and a tag asks for two names before it prints   *)
(* them, in whichever order. The first pointer is stale if the second tag  *)
(* is a new one and the vector is full; at the start of the program it is. *)
Intact(v, first, second) ==
  LET one == tagName(v, first) two == tagName(one.v, second)
  IN one.place = two.v.place

ASSUME StaleAtTheFirstNew ==
  LET known == {e.tag : e \in ToSet(RscpTagsOverview.list)}
  IN \A a \in known \cup Unnamed, b \in known \cup Unnamed :
       LET v == RscpTagsOverview w == tagName(v, CHOOSE u \in Unnamed : u # b).v
       IN /\ Intact(v, a, b) <=> (b \in known \/ a \in Unnamed)
          /\ Intact(w, a, b)

(* Codes of types and errors have their names, and what has none is        *)
(* unknown; the name of a type leads back to it.                           *)
ASSUME CodesNamed ==
  /\ \A code \in 0..16 : typeID(NameOf(RscpTypeNames, code)) = code
  /\ \A code \in {17, 255} : NameOf(RscpTypeNames, code) = "None"
  /\ NameOf(RscpErrorOverview, 6) = "NOT_AVAILABLE" /\ NameOf(RscpErrorOverview, 9) = "UNKNOWN"

(* A tag is on the list once, however often it is refused.                 *)
ASSUME RefusedOnce ==
  \A refused \in UNION {[1..n -> {1, 2} \X {0, 1}] : n \in 0..4} :
    LET tags == FoldLeft(LAMBDA l, r : pushNotSupportedTag(l, r[1], r[2]), <<>>, refused)
    IN ToSet(tags) = ToSet(refused) /\ Cardinality(ToSet(tags)) = Len(tags)

(* What the inverter refuses under the tag of the request is not asked for *)
(* again. Refused under the tag of its answer it is asked for for ever: it *)
(* is noted by the one tag and looked for by the other.                    *)
ASSUME NotAskedAgain ==
  \A refused \in SUBSET Omittable :
    LET push(tags, t) == pushNotSupportedTag(tags, TAG_PVI_DATA, t)
        noted(S) == FoldLeft(push, <<>>, SetToSeq(S))
    IN /\ PviRequests(noted(refused)) = Omittable \ refused
       /\ PviRequests(noted({AnswerTag(t) : t \in refused})) = Omittable

===============================================================================
