----------------------------- MODULE InfluxOutput -----------------------------
(***************************************************************************)
(* The values that go to an InfluxDB: lines are collected in a buffer, and *)
(* written when it is full and at the end of each round. A connection that *)
(* has failed is made anew. A line is [topic, measurement, value, at, size] *)
(* where at is 0 for the time of arrival; libcurl is external: each try    *)
(* ends "ok", with a failure ("fails"), or with one after which there are  *)
(* no resources for a new handle ("gone").                                 *)
(***************************************************************************)
EXTENDS Integers, Sequences, FiniteSets, SequencesExt

CURL_BUFFER_SIZE == 65536

(* set_curl_options: the list of headers gets the same ones again.         *)
HeadersOf(version) ==
  <<"Content-Type", "Accept">> \o (IF version = 1 THEN <<>> ELSE <<"Authorization">>)

set_curl_options(s) == [s EXCEPT !.headers = @ \o HeadersOf(s.version)]

\* At the start of the program, with what will become of the tries.
Opened(version, tries) ==
  set_curl_options([curl |-> TRUE, version |-> version, headers |-> <<>>, tries |-> tries,
                    written |-> <<>>, lost |-> <<>>])

\* One try. libcurl refuses to work without a handle, but makes a new one.
Perform(s, buffer) ==
  LET last == IF s.tries = <<>> THEN "ok" ELSE Head(s.tries)
      rest == [s EXCEPT !.tries = IF @ = <<>> THEN @ ELSE Tail(@)]
  IN IF s.curl /\ last = "ok" THEN [ok |-> TRUE, s |-> [rest EXCEPT !.written = @ \o buffer.lines]]
     ELSE IF last = "gone" THEN [ok |-> FALSE, s |-> [rest EXCEPT !.curl = FALSE]]
     ELSE [ok |-> FALSE, s |-> set_curl_options([rest EXCEPT !.curl = TRUE])]

insertInfluxDb(s, buffer) ==
  LET first == Perform(s, buffer)
      second == Perform(first.s, buffer)
  IN IF buffer.size = 0 THEN s
     ELSE IF first.ok THEN first.s
     ELSE IF second.ok THEN second.s
     ELSE [second.s EXCEPT !.lost = @ \o buffer.lines]

-----------------------------------------------------------------------------
(* handleInfluxDb. A buffer has its lines and the bytes they have; a line  *)
(* that is added begins with a line feed, one in an empty buffer after a   *)
(* full one does not.                                                      *)
Empty == [lines |-> <<>>, size |-> 0]

Line(topic, kind, value, at, size) ==
  [topic |-> topic, measurement |-> IF kind = "text" THEN "meta" ELSE "values",
   value |-> CASE kind = "true" -> <<1>> [] kind = "false" -> <<0>> [] OTHER -> value,
   at |-> IF kind = "number" THEN at ELSE 0, size |-> size]

handleInfluxDb(b, line) ==
  IF b.buffer.size + line.size + 1 < CURL_BUFFER_SIZE
  THEN [b EXCEPT !.buffer = [lines |-> Append(@.lines, line), size |-> @.size + line.size + 1]]
  ELSE [s |-> insertInfluxDb(b.s, b.buffer), buffer |-> [lines |-> <<line>>, size |-> line.size]]

(* A round: handleMQTT with the lines of what is due, publishImmediately   *)
(* with one line, handleImmediately with those of an answer. Nothing is    *)
(* done without a handle; if it is gone in the round, the rest is neither. *)
Round(s, lines) ==
  LET add(b, line) == IF b.s.curl THEN handleInfluxDb(b, line)
                      ELSE [b EXCEPT !.s.lost = Append(@, line)]
      end == FoldLeft(add, [s |-> s, buffer |-> Empty], lines)
  IN IF end.s.curl THEN insertInfluxDb(end.s, end.buffer)
     ELSE [end.s EXCEPT !.lost = @ \o end.buffer.lines]

(* handleImmediately: a template of the answer is [topic, tag, divisor,    *)
(* decimals]; a line for each pattern that fits the topic, with the begin  *)
(* of the day. A value is rounded to the digits after its point.           *)
Decimal(v, divisor, decimals) == (2 * v * 10^decimals + divisor) \div (2 * divisor)

handleImmediately(templates, tag, v, day, store) ==
  FlattenSeq([i \in DOMAIN templates |->
    LET t == templates[i]
        topic == <<t.topic, day>>
        patterns == SelectSeq(store, LAMBDA p : t.topic \in p)
    IN IF t.tag # tag THEN <<>>
       ELSE [j \in DOMAIN patterns |->
               Line(topic, "number", <<Decimal(v, t.divisor, t.decimals)>>, day, 1)]])

-----------------------------------------------------------------------------
Sizes == {40, 21000, 44534, 65534}
Rounds == UNION {[1..n -> Sizes] : n \in 0..4}
Tries == UNION {[1..n -> {"ok", "fails", "gone"}] : n \in 0..4}
Numbered(sizes, k) ==
  [i \in DOMAIN sizes |-> Line(<<k, i>>, "number", <<i>>, 0, sizes[i])]

(* Every line of a round is written once, in the order of the round, or is *)
(* lost; one failure loses nothing, two in a row lose at most what was in  *)
(* the buffer. Nothing of it is tried again in the next round, and no line *)
(* of the next round is lost because of it.                                *)
ASSUME OnceOrLost ==
  \A sizes \in Rounds, tries \in Tries :
    LET s == Round(Opened(1, tries), Numbered(sizes, 1))
        all == Numbered(sizes, 1)
        next == Round([s EXCEPT !.tries = <<>>, !.written = <<>>, !.lost = <<>>],
                      Numbered(<<40>>, 2))
    IN /\ ToSet(s.written) \cup ToSet(s.lost) = ToSet(all)
       /\ Len(s.written) + Len(s.lost) = Len(all)
       /\ s.written = SelectSeq(all, LAMBDA l : l \in ToSet(s.written))
       /\ (\A i \in 1..(Len(tries) - 1) : tries[i] = "ok" \/ tries[i + 1] = "ok")
          /\ (\A i \in DOMAIN tries : tries[i] # "gone") => s.lost = <<>>
       /\ s.curl => next.written = Numbered(<<40>>, 2)

(* With a line feed before each line but one, and the zero at its end, a   *)
(* buffer is never longer than it may be, and no line is left out of it.   *)
ASSUME BufferHolds ==
  \A sizes \in Rounds :
    LET add(b, line) == handleInfluxDb(b, line)
        b == FoldLeft(add, [s |-> Opened(1, <<>>), buffer |-> Empty], Numbered(sizes, 1))
        bytes == FoldLeft(LAMBDA n, l : n + l.size + 1, 0, b.buffer.lines)
    IN /\ bytes <= 65536
       /\ b.buffer.size \in {bytes - 1, bytes} /\ b.buffer.size < 65536
       /\ Len(b.s.written) + Len(b.buffer.lines) = Len(sizes)
       /\ b.s.lost = <<>>

(* Where no handle can be had any more at the second failure, nothing goes *)
(* to the database until the program is started again. At the first one,   *)
(* the second try makes a handle for the next round.                       *)
ASSUME HandleGone ==
  \A first \in {"fails", "gone"}, second \in {"ok", "fails", "gone"} :
    LET s == Round(Opened(2, <<first, second>>), Numbered(<<40>>, 1))
        later == Round(Round(s, Numbered(<<40>>, 2)), Numbered(<<40>>, 3))
    IN /\ s.written # <<>> <=> first = "fails" /\ second = "ok"
       /\ second = "gone" <=> ~s.curl
       /\ s.curl <=> later.written = s.written \o Numbered(<<40>>, 2) \o Numbered(<<40>>, 3)
       /\ ~s.curl => later.written = <<>>

(* Each new handle leaves the headers in the list once more, and all of    *)
(* them are sent.                                                          *)
ASSUME HeadersPileUp ==
  \A version \in {1, 2}, n \in 0..3 :
    LET s == Round(Opened(version, [i \in 1..n |-> "fails"]), Numbered(<<65534, 65534>>, 1))
    IN Len(s.headers) = (1 + n) * (version + 1)

(* A value of the history is written with the begin of its day, once for   *)
(* each pattern that fits, and is off by half of its last digit at most.   *)
Templates == <<[topic |-> "energy", tag |-> 1, divisor |-> 1000, decimals |-> 2],
               [topic |-> "rsoc", tag |-> 2, divisor |-> 1, decimals |-> 1]>>
ASSUME HistoryLines ==
  \A tag \in 1..3, v \in {0, 4, 5, 7, 994, 995, 12347}, day \in 1..2,
     store \in UNION {[1..n -> SUBSET {"energy", "rsoc"}] : n \in 0..2} :
    LET lines == handleImmediately(Templates, tag, v, day, store)
        t == Templates[tag]
        fits == {j \in DOMAIN store : t.topic \in store[j]}
    IN /\ tag = 3 => lines = <<>>
       /\ tag # 3 => /\ Len(lines) = Cardinality(fits)
                     /\ \A i \in DOMAIN lines :
                          LET d == lines[i].value[1] * t.divisor - v * 10^t.decimals
                          IN /\ lines[i].at = day
                             /\ -t.divisor <= 2 * d /\ 2 * d <= t.divisor

===============================================================================
