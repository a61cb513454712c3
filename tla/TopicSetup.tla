------------------------------ MODULE TopicSetup ------------------------------
(***************************************************************************)
(* How the table of topics comes about at the start of the program: lines  *)
(* of the configuration that add topics, correct those of external power   *)
(* meters, or name patterns of topics that are forced, logged or written   *)
(* to InfluxDB; the prefix; the topics made from templates; and the topics *)
(* of commands. (Templates and their numbers: DeviceAnswers. Parsing of    *)
(* lines: Configuration.) A topic is a tuple of its segments; a pattern is *)
(* [type, match], the match being the set of topics it matches as a whole. *)
(***************************************************************************)
EXTENDS Integers, Sequences, FiniteSets, SequencesExt

Types == {"forced", "history_log", "influx"}
Everything(type) == [type |-> type, match |-> "all"]
Matches(p, topic) == IF p.match = "all" THEN TRUE ELSE topic \in p.some

-----------------------------------------------------------------------------
(* s is [cache, templ, store]. An entry is [key, tag, topic, attr, unit,   *)
(* divisor], its key what compareCache looks at: container, tag, index,    *)
(* bit and topic.                                                          *)
Topic(key, tag, topic, unit, divisor) ==
  [key |-> key, tag |-> tag, topic |-> topic, attr |-> {}, unit |-> unit, divisor |-> divisor]

compareCache(e, f) == e.key < f.key
SortedCache(s) == [s EXCEPT !.cache = SortSeq(@, compareCache)]

\* setTopicAttr: attributes are given, never taken.
setTopicAttr(s) ==
  LET attr(e) == e.attr \cup {t \in Types : \E i \in DOMAIN s.store :
                                s.store[i].type = t /\ Matches(s.store[i], e.topic)}
  IN [s EXCEPT !.cache = [i \in DOMAIN @ |-> [@[i] EXCEPT !.attr = attr(s.cache[i])]]]

addTopic(s, e, finalize) ==
  LET added == [s EXCEPT !.cache = Append(@, e)]
  IN IF finalize THEN setTopicAttr(SortedCache(added)) ELSE added

addPrefix(table, prefix) ==
  [i \in DOMAIN table |-> [table[i] EXCEPT !.topic = <<prefix>> \o @]]

\* Only the table, not the templates.
correctExternalPM(s, tag, unit, divisor) ==
  LET correct(e) ==
        IF e.tag # tag THEN e
        ELSE [e EXCEPT !.unit = IF unit \in {"kWh", "Wh"} THEN unit ELSE @,
                       !.divisor = IF divisor \in {1, 1000} THEN divisor ELSE @]
  IN [s EXCEPT !.cache = [i \in DOMAIN @ |-> correct(@[i])]]

(* parse_and_add_new_topic: both tags must be known and the line complete. *)
parse_and_add_new_topic(s, line) ==
  IF ~(line.complete /\ line.known) THEN s
  ELSE addTopic(s, Topic(line.key, line.tag, line.topic, "", 1), TRUE)

\* A line of the file or a variable of the environment.
Handled(s, line) ==
  CASE line.kind = "pattern" -> [s EXCEPT !.store = Append(@, line.pattern)]
    [] line.kind = "new" -> parse_and_add_new_topic(s, line)
    [] line.kind = "unit" -> correctExternalPM(s, line.tag, line.unit, 0)
    [] line.kind = "divisor" -> correctExternalPM(s, line.tag, "", line.divisor)

\* INFLUXDB_TOPIC: .* if there is no such line.
InfluxAll(s) ==
  IF \E i \in DOMAIN s.store : s.store[i].type = "influx" THEN s
  ELSE [s EXCEPT !.store = Append(@, Everything("influx"))]

Prefixed(s) == [s EXCEPT !.cache = addPrefix(@, "e3dc"), !.templ = addPrefix(@, "e3dc")]

\* The topics of the templates; the last of them sorts all and gives attributes to all.
FromTemplates(s) ==
  setTopicAttr(SortedCache([s EXCEPT !.cache = @ \o s.templ]))

StartTopics(cache, templ, lines) ==
  FromTemplates(Prefixed(InfluxAll(
    FoldLeft(Handled, [cache |-> cache, templ |-> templ, store |-> <<>>], lines))))

-----------------------------------------------------------------------------
(* addSetTopic and parse_and_add_new_set_topic: a line has 9 or 6 parts;   *)
(* with 6, what is not matched by the first regular expression is refused. *)
(* Containers and tags are numbers here; entries that compareRecCache does *)
(* not tell apart may be in any order, one of which is taken.              *)
SetTopic(container, tag, index, topic, words) ==
  [container |-> container, tag |-> tag, index |-> index, topic |-> topic, words |-> words,
   done |-> TRUE]

compareRecCache(e, f) ==
  \/ e.container < f.container
  \/ e.container = f.container /\ e.tag < f.tag
  \/ e.container = f.container /\ e.tag = f.tag /\ e.index < f.index

addSetTopic(receive, e, finalize) ==
  IF finalize THEN SortSeq(Append(receive, e), compareRecCache) ELSE Append(receive, e)

parse_and_add_new_set_topic(receive, line) ==
  IF line.parts \in {6, 9} /\ line.known /\ line.index >= 0
  THEN addSetTopic(receive, SetTopic(line.container, line.tag, line.index, line.topic,
                                     IF line.parts = 9 THEN {"true", "false"} ELSE {"true"}), TRUE)
  ELSE receive

\* The topics of the idle periods, as often as changes can wait.
IdleTopics(v2, size) ==
  FlattenSeq([i \in 1..size |->
    IF v2 THEN <<SetTopic(0, 0, 0, <<"idle_period">>, {"new"}),
                 SetTopic(0, 0, 0, <<"idle_period", "delete">>, {"old"})>>
    ELSE <<SetTopic(0, 0, 0, <<"idle_period">>, {"new"})>>])

\* Of these only the last is followed by a sort.
WallboxWords ==
  <<<<"sun_mode", 14, {"true", "false"}>>, <<"toggle", 14, {"true"}>>,
    <<"suspended", 14, {"true", "false"}>>, <<"max_current", 14, {"number"}>>,
    <<"min_current", 13, {"number"}>>, <<"number_phases", 12, {"number"}>>,
    <<"auto_phase_switch", 11, {"true", "false"}>>>>

\* Topics with a number for as many wallboxes as lines have named.
WallboxTopics(wb_number) ==
  FlattenSeq([c \in 1..wb_number |->
    [i \in DOMAIN WallboxWords |->
       LET w == WallboxWords[i] IN SetTopic(1, w[2], c - 1, <<"wallbox", c, w[1]>>, w[3])]])

ReceiveTopics(table, v2, size, wallbox, wb_number) ==
  LET add(receive, e) ==
        addSetTopic(receive, e, e.container = 0 \/ e.topic[3] = "auto_phase_switch")
  IN FoldLeft(add, table,
       IdleTopics(v2, size) \o IF wallbox THEN WallboxTopics(wb_number) ELSE <<>>)

-----------------------------------------------------------------------------
Short(name) == <<name>>
Full(name) == <<"e3dc", name>>
Pattern(type, topics) == [type |-> type, match |-> "some", some |-> topics]

PatternLine(type, topics) == [kind |-> "pattern", pattern |-> Pattern(type, topics)]
NewLine(tag, name) ==
  [kind |-> "new", key |-> tag, tag |-> tag, topic |-> Short(name),
   complete |-> TRUE, known |-> TRUE]

Table == <<Topic(1, 1, Short("a"), "", 1), Topic(2, 2, Short("b"), "kWh", 1000)>>
Templ == <<Topic(5, 3, Short("t"), "", 1), Topic(3, 2, Short("h"), "kWh", 1000)>>
LineSet ==
  {PatternLine("forced", {Full("a"), Full("n"), Full("t")}), PatternLine("forced", {Short("a")}),
   PatternLine("history_log", {Full("b"), Full("t")}), PatternLine("influx", {Full("n")}),
   NewLine(4, "n"), [NewLine(5, "m") EXCEPT !.known = FALSE],
   [kind |-> "unit", tag |-> 2, unit |-> "Wh"], [kind |-> "divisor", tag |-> 2, divisor |-> 1]}
Files == UNION {[1..n -> LineSet] : n \in 0..4}

(* Where the patterns are the topics as they are published, it does not    *)
(* matter in which order the lines are: an entry has an attribute if a     *)
(* pattern fits its topic, also one that a line or a template has added.   *)
(* Without a line for InfluxDB everything is written.                      *)
ASSUME AttributesOfTopics ==
  \A lines \in Files :
    LET s == StartTopics(Table, Templ, lines)
        patterns == {lines[i].pattern : i \in {j \in DOMAIN lines : lines[j].kind = "pattern"}}
        fits(e, t) == \E p \in patterns : p.type = t /\ e.topic \in p.some
        reduced == \E p \in patterns : p.type = "influx"
    IN \A i \in DOMAIN s.cache :
         LET e == s.cache[i]
         IN /\ "history_log" \in e.attr <=> fits(e, "history_log")
            /\ "influx" \in e.attr <=> ~reduced \/ fits(e, "influx")
            /\ e.topic # Full("a") => ("forced" \in e.attr <=> fits(e, "forced"))

(* A pattern without the prefix fits nothing, unless a line below it adds  *)
(* a topic: then the attributes are given when the topics have no prefix   *)
(* yet, and they stay.                                                     *)
ASSUME ShortPattern ==
  \A lines \in Files :
    LET s == StartTopics(Table, Templ, lines)
        short == PatternLine("forced", {Short("a")})
        full == PatternLine("forced", {Full("a"), Full("n"), Full("t")})
        above == \E i \in DOMAIN lines, j \in DOMAIN lines :
                   i < j /\ lines[i] = short /\ lines[j] = NewLine(4, "n")
    IN "forced" \in s.cache[1].attr <=> above \/ \E i \in DOMAIN lines : lines[i] = full

(* Every topic has the prefix once, is there as often as it was added, in  *)
(* the order in which the rest of the program looks for its equals, and    *)
(* what corrects an external meter corrects all of its topics but those    *)
(* that come from the templates.                                           *)
ASSUME TopicsComplete ==
  \A lines \in Files :
    LET s == StartTopics(Table, Templ, lines)
        topics == [i \in DOMAIN s.cache |-> s.cache[i].topic]
        added == Len(SelectSeq(lines, LAMBDA l : l.kind = "new" /\ l.known))
        is(kind) == \E i \in DOMAIN lines : lines[i].kind = kind
    IN /\ Len(topics) = 4 + added
       /\ SubSeq(topics, 1, 3) = <<Full("a"), Full("b"), Full("h")>>
       /\ \A i \in 4..(3 + added) : topics[i] = Full("n")
       /\ Last(topics) = Full("t")
       /\ s.cache[2].unit = (IF is("unit") THEN "Wh" ELSE "kWh")
       /\ s.cache[2].divisor = (IF is("divisor") THEN 1 ELSE 1000)
       /\ s.cache[3].unit = "kWh" /\ s.cache[3].divisor = 1000

CommandLine(parts, known, index) ==
  [parts |-> parts, known |-> known, index |-> index, container |-> 1, tag |-> 14,
   topic |-> <<"other", 0, "command">>]

(* A command for a wallbox by its number is known for the wallboxes that   *)
(* lines name, and each of those has all of them; so the one wallbox that  *)
(* there is without a line has only the topics without a number. What is   *)
(* for one container, tag and index is found together.                     *)
ASSUME WallboxesReached ==
  \A lines \in 0..3, wallbox \in BOOLEAN, v2 \in BOOLEAN, new \in BOOLEAN :
    LET line == CommandLine(9, TRUE, 1)
        table == IF new THEN parse_and_add_new_set_topic(<<>>, line) ELSE <<>>
        receive == ReceiveTopics(table, v2, 3, wallbox, lines)
        key(i) == <<receive[i].container, receive[i].tag, receive[i].index>>
        names == {WallboxWords[i][1] : i \in DOMAIN WallboxWords}
    IN /\ \A c \in 1..3 :
            LET there == {n \in names : \E i \in DOMAIN receive :
                            receive[i].index = c - 1 /\ receive[i].topic = <<"wallbox", c, n>>}
            IN there = IF wallbox /\ c <= lines THEN names ELSE {}
       /\ Len(SelectSeq(receive, LAMBDA e : e.topic = <<"idle_period">>)) = 3
       /\ \A i \in DOMAIN receive, j \in DOMAIN receive :
            i < j /\ key(i) = key(j) => \A k \in i..j : key(k) = key(i)
       /\ \A i \in DOMAIN receive : receive[i].done

(* A line for a command is taken only whole, with tags that are known and  *)
(* an index that is not negative.                                          *)
ASSUME CommandsAdded ==
  \A parts \in 4..9, known \in BOOLEAN, index \in {-1, 0, 2} :
    LET receive == parse_and_add_new_set_topic(<<>>, CommandLine(parts, known, index))
    IN /\ Len(receive) = IF parts \in {6, 9} /\ known /\ index # -1 THEN 1 ELSE 0
       /\ receive # <<>> => ("false" \in receive[1].words <=> parts = 9)

===============================================================================
