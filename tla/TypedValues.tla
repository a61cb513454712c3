----------------------------- MODULE TypedValues -----------------------------
(***************************************************************************)
(* The other operations of RscpProtocol: values of the types of C++ made,  *)
(* put into each other, read again, and written as payloads; and the       *)
(* overloads that make frames. They are built from the operators of        *)
(* RequestFrame, which stand for what the requests need of them. Numbers   *)
(* with a point are the bytes they have. Memory is always there.           *)
(***************************************************************************)
EXTENDS RequestFrame

\* eRscpDataType.
T == [None |-> NoType, Bool |-> 1, Char8 |-> 2, UChar8 |-> UChar8, Int16 |-> 4, UInt16 |-> 5,
      Int32 |-> Int32, UInt32 |-> 7, Int64 |-> 8, UInt64 |-> 9, Float32 |-> 10, Double64 |-> 11,
      Bitfield |-> 12, String |-> 13, Container |-> ContainerType, Timestamp |-> 15,
      ByteArray |-> 16, Error |-> 255]

Signed == {"Char8", "Int16", "Int32", "Int64"}
SizeOf ==
  [Bool |-> 1, Char8 |-> 1, UChar8 |-> 1, Int16 |-> 2, UInt16 |-> 2, Int32 |-> 4, UInt32 |-> 4,
   Int64 |-> 8, UInt64 |-> 8, Float32 |-> 4, Double64 |-> 8, Timestamp |-> 12, Error |-> 4]

\* A small number in many bytes, negative ones in two's complement, and back.
Wide(n, size) ==
  [i \in 1..size |-> IF i <= 4 THEN Bytes(n, 4)[i] ELSE IF n < 0 THEN 255 ELSE 0]
SignedNumber(bytes) ==
  IF Last(bytes) < 128 THEN Number(bytes)
  ELSE -1 - Number([i \in DOMAIN bytes |-> 255 - bytes[i]])

-----------------------------------------------------------------------------
(* A value that was just declared, or destroyed, has no data.              *)
Value(tag, type, data) == [tag |-> tag, type |-> type, data |-> data]
Zeroed == Value(0, NoType, <<>>)
destroyValueData(v) == [v EXCEPT !.data = <<>>]
destroyValues(values) == <<>>

Returned(code, value) == [code |-> code, value |-> value]
Exceeded(value) == Returned("ERR_DATA_LIMIT_EXCEEDED", value)

\* createValue with data and type. What was in the value before is forgotten.
createPlain(tag, data, type) ==
  IF Len(data) > Limit THEN Exceeded(Zeroed) ELSE Returned("OK", Value(tag, type, data))

\* appendValue with data and type; at most 0xFFF8 bytes of data.
appendPlain(response, tag, data, type) ==
  IF Len(response.data) + HeaderSize + Len(data) > Limit THEN Exceeded(response)
  ELSE Returned("OK", [response EXCEPT !.data = @ \o Encoded(Value(tag, type, data))])

(* The overloads: what a value of a type becomes as data. The length of a  *)
(* string has 16 bits.                                                     *)
AsData(type, n) == Wide(n, SizeOf[type])
CutString(s) == SubSeq(s, 1, Len(s) % 2^16)

createValue(tag, type, n) == createPlain(tag, AsData(type, n), T[type])
createString(tag, s) == createPlain(tag, CutString(s), T.String)
createValueType(tag, type) == createPlain(tag, <<>>, T[type])
appendTyped(response, tag, type, n) == appendPlain(response, tag, AsData(type, n), T[type])
appendString(response, tag, s) == appendPlain(response, tag, CutString(s), T.String)
appendValueType(response, tag, type) == appendPlain(response, tag, <<>>, T[type])

(* Values in a row, as they are in a container and in a frame.             *)
Row(values) == FoldLeft(LAMBDA data, v : data \o Encoded(v), <<>>, values)

\* createValue and appendValue with a vector of values: all of them or none.
createContainer(tag, values) ==
  IF Len(Row(values)) > Limit THEN Exceeded(Zeroed)
  ELSE Returned("OK", Value(tag, T.Container, Row(values)))

appendVector(response, values) ==
  IF Len(response.data) + Len(Row(values)) > Limit THEN Exceeded(response)
  ELSE Returned("OK", [response EXCEPT !.data = @ \o Row(values)])

(* appendValue with a tag and a vector. The header of the new container is *)
(* at its place; the values are written as many bytes behind it as they    *)
(* are long, not behind the header. Unwritten bytes can be anything.       *)
Unwritten == -1
appendContainer(response, tag, values) ==
  LET row == Row(values)
      header == Bytes(tag, 4) \o <<T.Container>> \o Bytes(Len(row), 2)
      new == [i \in 1..(HeaderSize + Len(row)) |->
                IF row # <<>> /\ i > Len(row) THEN row[i - Len(row)]
                ELSE IF i <= HeaderSize THEN header[i]
                ELSE Unwritten]
  IN IF Len(response.data) + Len(new) > Limit THEN Exceeded(response)
     ELSE Returned("OK", [response EXCEPT !.data = @ \o new])

-----------------------------------------------------------------------------
(* getValue: as many bytes as the type has, zeros where the value has      *)
(* fewer. A bool is taken to be 0 or 1.                                    *)
getValue(v, type) ==
  LET bytes == Slice(v.data, 0, SizeOf[type])
  IN IF type \in Signed THEN SignedNumber(bytes) ELSE Number(bytes)

getValueAsString(v) == v.data
getValueAsContainer(v) == ParseData(v.data, 0)

(* preparePayload: a payload is a tuple, the name of the type last if it   *)
(* is asked for. Types that have no case have no payload. What is a time   *)
(* is the lower half of its seconds.                                       *)
Numbers == {"Int16", "Int32", "UInt16", "UInt32", "Char8", "UChar8"}
preparePayload(v, true_value, false_value, add_type) ==
  LET types == {t \in DOMAIN T : T[t] = v.type}
      type == IF types = {} THEN "None" ELSE CHOOSE t \in types : TRUE
      text == CASE type = "Bool" ->
                     <<IF getValue(v, "Bool") # 0 THEN true_value ELSE false_value>>
                [] type \in Numbers -> <<getValue(v, type)>>
                [] type = "Timestamp" -> <<getValue(v, "Int32")>>
                [] type \in {"Float32", "Double64"} ->
                     <<"%0.2f", Slice(v.data, 0, SizeOf[type])>>
                [] type = "String" -> <<getValueAsString(v)>>
                [] OTHER -> <<>>
  IN IF ~add_type THEN text ELSE Append(text, IF text = <<>> THEN "default" ELSE type)

-----------------------------------------------------------------------------
(* createFrameAsBuffer of data, of one value, of values, of a frame, and   *)
(* createFrame. Only the first one is used by the program. The check sum   *)
(* of a frame that createFrame makes is not its own: it is read from where *)
(* the pointer to the buffer is.                                           *)
FrameHeader(length, crc) ==
  <<227, 220, 0, 1 + IF crc THEN 16 ELSE 0>> \o [i \in 1..12 |-> 0] \o Bytes(length, 2)
Summed(bytes, crc) == IF crc THEN bytes \o CalculateCRC32(bytes) ELSE bytes

createFrameAsBuffer(data, calcCRC) ==
  Summed(FrameHeader(Len(data), calcCRC) \o data, calcCRC)
createFrameAsBufferOf(values, calcCRC) ==
  LET row == Row(values) IN Summed(FrameHeader(Len(row), calcCRC) \o row, calcCRC)
createFrame(values, calcCRC) ==
  [header |-> FrameHeader(FoldLeft(LAMBDA n, v : n + HeaderSize + Len(v.data), 0, values), calcCRC),
   data |-> values]
createFrameAsBufferFrom(made, calcCRC) == Summed(made.header \o Row(made.data), calcCRC)
destroyFrameData(made) == [made EXCEPT !.data = destroyValues(@)]

-----------------------------------------------------------------------------
Bounds(type) ==
  CASE type = "Bool" -> {0, 1}
    [] type = "Char8" -> {-128, -1, 0, 127}
    [] type = "UChar8" -> {0, 128, 255}
    [] type = "Int16" -> {-32768, -129, -1, 0, 32767}
    [] type = "UInt16" -> {0, 256, 32768, 65535}
    [] OTHER -> {0, 255, 65536, 2147483647}
                \cup IF type \in Signed THEN {-2147483647 - 1, -65537, -1} ELSE {}

Tag == \h01000001
Made(type, n) == createValue(Tag, type, n).value

(* What is written as a value of a type is read as that type again, and    *)
(* its payload shows it, for the smallest and largest numbers, also after  *)
(* a way through a container and a frame.                                  *)
ASSUME ReadAsWritten ==
  \A type \in {"Bool", "Error", "Timestamp", "Int64", "UInt64"} \cup Numbers :
    \A n \in Bounds(type) :
      LET box == createContainer(Tag, <<Made(type, n)>>).value
          arrived == ParseFrame(createFrameAsBuffer(Encoded(box), TRUE)).values
          v == getValueAsContainer(arrived[1])[1]
      IN /\ v = Made(type, n) /\ getValue(v, type) = n
         /\ type \in Numbers => preparePayload(v, "1", "0", FALSE) = <<n>>
         /\ type = "Bool" => preparePayload(v, "1", "0", FALSE) = <<IF n = 1 THEN "1" ELSE "0">>

(* A number may be read as another type that has room for it, unless it is *)
(* negative: it is filled with zeros, and is positive in a wider type.     *)
ASSUME WiderIfPositive ==
  \A type \in Numbers \ {"UInt32"}, as \in Numbers \ {"UInt32"} : \A n \in Bounds(type) :
    LET half == 2^(8 * SizeOf[as] - 1)
        fits == IF SizeOf[as] = 4 THEN TRUE
                ELSE IF as \in Signed THEN -half <= n /\ n < half ELSE 0 <= n /\ n < 2 * half
        wider == SizeOf[as] > SizeOf[type]
    IN fits => (getValue(Made(type, n), as) = n <=> n >= 0 \/ ~wider)

(* A time has no payload after 2^31 seconds but a negative one; errors,    *)
(* 64 bits, bitfields, containers and bytes have none at all; a value      *)
(* without data is 0.                                                      *)
ASSUME PayloadsOfTypes ==
  /\ preparePayload(Value(Tag, T.Timestamp, <<0, 0, 0, 128>> \o Wide(0, 8)), "1", "0", FALSE)
       = <<-2147483647 - 1>>
  /\ \A type \in {"None", "Int64", "UInt64", "Bitfield", "Container", "ByteArray", "Error"} :
       preparePayload(Value(Tag, T[type], <<1, 2, 3, 4>>), "1", "0", FALSE) = <<>>
  /\ preparePayload(createValueType(Tag, "Int64").value, "1", "0", TRUE) = <<"default">>
  /\ \A type \in Numbers : getValue(destroyValueData(Made(type, 1)), type) = 0

(* A container that gets its values one by one, all at once, or is made    *)
(* from them is the same, as long as they fit; else, nothing is lost of    *)
(* what is in it already.                                                  *)
Parts == {Made("Bool", 1), Made("UInt32", 7), createString(Tag, <<65, 66, 67>>).value,
          createContainer(Tag, <<Made("Int16", -1), Made("Bool", 0)>>).value, Zeroed}

ASSUME OneWayOrTheOther ==
  \A values \in UNION {[1..n -> Parts] : n \in 0..4} :
    LET empty == createValueType(Tag, "Container").value
        steps(r, v) == appendVector(r, <<v>>).value
        oneByOne == FoldLeft(steps, empty, values)
        whole == createContainer(Tag, values)
        plain(r, v) == appendPlain(r, v.tag, v.data, v.type).value
    IN /\ oneByOne = FoldLeft(plain, empty, values)
       /\ oneByOne = [empty EXCEPT !.data = AppendAll(<<>>, values)]
       /\ whole.code = "OK" =>
            /\ whole.value = oneByOne /\ appendVector(empty, values).value = whole.value
            /\ getValueAsContainer(whole.value) = values
       /\ whole.code # "OK" => /\ appendVector(empty, values) = Exceeded(empty)
                               /\ whole.value = Zeroed

(* A container appended with its tag can be read only if it is empty, or   *)
(* has one value without data.                                             *)
ASSUME AppendedContainers ==
  \A values \in UNION {[1..n -> Parts] : n \in 0..2} :
    LET empty == createValueType(Tag, "Container").value
        right == appendVector(empty, <<createContainer(Tag, values).value>>)
    IN right.code = "OK" =>
         (appendContainer(empty, Tag, values) = right <=> Len(Row(values)) \in {0, HeaderSize})

(* The length of a string is cut to 16 bits without a word.                *)
ASSUME LongStrings ==
  \A n \in {0, 1, Limit, Limit + 1, 2^16 - 1, 2^16, 2^16 + 3} :
    LET s == [i \in 1..n |-> 65]
        made == createString(Tag, s)
    IN /\ n <= Limit => made.code = "OK" /\ getValueAsString(made.value) = s
       /\ n > Limit /\ n < 2^16 => made.code = "ERR_DATA_LIMIT_EXCEEDED"
       /\ n >= 2^16 => made.code = "OK" /\ Len(made.value.data) = n - 2^16

(* Each way to a frame leads to the same one, and back to the values. The  *)
(* fullest container is a frame whose length has 16 bits.                  *)
ASSUME OneFrame ==
  /\ \A values \in UNION {[1..n -> Parts] : n \in 0..3}, crc \in BOOLEAN :
       LET buffer == createFrameAsBuffer(Row(values), crc)
       IN /\ buffer = createFrameAsBufferOf(values, crc)
          /\ buffer = createFrameAsBufferFrom(createFrame(values, crc), crc)
          /\ ParseFrame(buffer) = [code |-> "OK", values |-> values]
          /\ crc => buffer = FrameOf(Row(values))
  /\ HeaderSize + \hFFF8 = 2^16 - 1

=============================================================================
