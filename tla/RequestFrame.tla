---------------------------- MODULE RequestFrame ----------------------------
(***************************************************************************)
(* The way of a cyclic request to the other side: what createRequest asks  *)
(* for under the configuration, how RscpProtocol writes it byte by byte,   *)
(* and how it reads a frame. On the wire a byte may be damaged, and bytes  *)
(* at the end may be missing. (Encryption and the pieces that recv         *)
(* delivers: ReceiveLoop.)                                                 *)
(***************************************************************************)
EXTENDS Configuration

CONSTANTS
  Limit,          \* the most bytes in a value: 0xFFF8
  Spots,          \* where a byte may be damaged, or bytes be missing from
  Damages         \* by how much a damaged byte may differ

VARIABLES
  e3dc_ts,        \* the time of the device has been answered
  frame,          \* the frame createRequest has made
  wire,           \* what arrives of it
  result          \* what parseFrame returns: [code, values]

allVars == <<startVars, e3dc_ts, frame, wire, result>>

-----------------------------------------------------------------------------
(* Numbers, little endian.                                                 *)
Bytes(n, size) == [i \in 1..size |-> (n \div 256^(i - 1)) % 256]

RECURSIVE Number(_)
Number(bytes) == IF bytes = <<>> THEN 0 ELSE Head(bytes) + 256 * Number(Tail(bytes))

(* What lies behind the end of the bytes counts as zero.                   *)
Slice(bytes, from, size) ==
  [i \in 1..size |-> IF from + i \in DOMAIN bytes THEN bytes[from + i] ELSE 0]

(* calculateCRC32, half a byte at a time; the lowest digit comes first.    *)
CrcTable ==
  <<<<4,13,11,13,15,2,1,12>>, <<5,0,0,10,14,2,7,8>>, <<7,6,13,3,13,2,13,4>>,
    <<6,11,6,4,12,2,11,0>>, <<3,11,6,1,11,3,8,12>>, <<2,6,13,6,10,3,14,8>>,
    <<0,0,0,15,9,3,4,4>>, <<1,13,11,8,8,3,2,0>>, <<10,0,0,5,7,1,3,12>>,
    <<11,13,11,2,6,1,5,8>>, <<9,11,6,11,5,1,15,4>>, <<8,6,13,12,4,1,9,0>>,
    <<13,6,13,9,3,0,10,12>>, <<12,11,6,14,2,0,12,8>>, <<14,13,11,7,1,0,6,4>>,
    <<15,0,0,0,0,0,0,0>>>>

Bit(n, k) == (n \div 2^k) % 2

Xor ==
  [m \in 0..15 |-> [n \in 0..15 |->
     LET bit(k) == ((Bit(m, k) + Bit(n, k)) % 2) * 2^k
     IN bit(0) + bit(1) + bit(2) + bit(3)]]

CrcStep(crc, nibble) ==
  LET row == CrcTable[Xor[crc[1]][nibble] + 1]
      x(i) == Xor[crc[i]][row[10 - i]]
  IN <<x(2), x(3), x(4), x(5), x(6), x(7), x(8), row[1]>>

(* Byte after byte; written half by half, which nests less deeply when TLC *)
(* evaluates it.                                                           *)
RECURSIVE CrcOf(_, _)
CrcOf(crc, bytes) ==
  LET half == Len(bytes) \div 2
  IN IF bytes = <<>> THEN crc
     ELSE IF Len(bytes) = 1 THEN CrcStep(CrcStep(crc, bytes[1] % 16), bytes[1] \div 16)
     ELSE CASE crc \in [1..8 -> 0..15] ->
            CrcOf(CrcOf(crc, SubSeq(bytes, 1, half)), SubSeq(bytes, half + 1, Len(bytes)))

CalculateCRC32(bytes) ==
  LET digit == CrcOf(<<0, 0, 0, 0, 0, 0, 0, 0>>, bytes)
  IN [i \in 1..4 |-> digit[2 * i - 1] + 16 * digit[2 * i]]

-----------------------------------------------------------------------------
(* Values. A container has the values inside it in its data.               *)
HeaderSize == 7
FrameHeaderSize == 18
CrcSize == 4

NoType == 0
UChar8 == 3
Int32 == 6
ContainerType == 14

Encoded(v) == Bytes(v.tag, 4) \o <<v.type>> \o Bytes(Len(v.data), 2) \o v.data

(* appendValue: what does not fit is left out, and createRequest does not  *)
(* look at the return code.                                                *)
AppendValue(data, v) ==
  IF Len(data) + HeaderSize + Len(v.data) > Limit THEN data ELSE data \o Encoded(v)

RECURSIVE AppendAll(_, _)
AppendAll(data, values) ==
  IF values = <<>> THEN data ELSE AppendAll(AppendValue(data, Head(values)), Tail(values))

(* createFrameAsBuffer: magic, version and flag of the check sum, time,    *)
(* length.                                                                 *)
FrameOf(data) ==
  LET start == <<227, 220, 0, 17>> \o [i \in 1..12 |-> 0] \o Bytes(Len(data), 2) \o data
  IN start \o CalculateCRC32(start)

(* parseData: value by value, as long as their lengths keep to the data.   *)
RECURSIVE ParseData(_, _)
ParseData(data, pos) ==
  LET length == Number(Slice(data, pos + 5, 2))
  IN IF pos < Len(data) /\ pos + length <= Len(data)
     THEN <<[tag |-> Number(Slice(data, pos, 4)), type |-> Slice(data, pos + 4, 1)[1],
             data |-> Slice(data, pos + HeaderSize, length)]>>
          \o ParseData(data, pos + HeaderSize + length)
     ELSE <<>>

Refused(code) == [code |-> code, values |-> <<>>]

CrcFits_Ignored(bytes, size) == TRUE                             (* Mutant *)

CrcFits(bytes, size) ==
  Slice(bytes, size - CrcSize, CrcSize) = CalculateCRC32(Slice(bytes, 0, size - CrcSize))

(* parseFrame.                                                             *)
ParseFrame(bytes) ==
  LET dataLength == Number(Slice(bytes, 16, 2))
      hasCrc == Bit(Slice(bytes, 3, 1)[1], 4) = 1
      size == FrameHeaderSize + dataLength + IF hasCrc THEN CrcSize ELSE 0
  IN IF Len(bytes) < FrameHeaderSize THEN Refused("ERR_INVALID_FRAME_LENGTH")
     ELSE IF Slice(bytes, 0, 2) # <<227, 220>> THEN Refused("ERR_INVALID_MAGIC")
     ELSE IF bytes[4] % 16 # 1 THEN Refused("ERR_PROT_VERSION_MISMATCH")
     ELSE IF size > Len(bytes) THEN Refused("ERR_INVALID_FRAME_LENGTH")
     ELSE IF hasCrc /\ ~CrcFits(bytes, size) THEN Refused("ERR_INVALID_CRC")
     ELSE [code |-> "OK", values |-> ParseData(Slice(bytes, FrameHeaderSize, dataLength), 0)]

-----------------------------------------------------------------------------
(* What createRequest asks for. Of the plain requests in a container one   *)
(* or two stand for all.                                                   *)
TAG_INFO_REQ_SERIAL_NUMBER == \h0A000001
TAG_INFO_REQ_TIME == \h0A00000E
TAG_BAT_REQ_DATA == \h03040000
TAG_BAT_INDEX == \h03040001
TAG_BAT_REQ_DEVICE_NAME == \h0300000C
TAG_BAT_REQ_ASOC == \h0300000F
TAG_PM_REQ_DATA == \h05040000
TAG_PM_INDEX == \h05040001
TAG_PM_REQ_POWER_L1 == \h05000001
TAG_WB_REQ_DATA == \h0E040000
TAG_WB_INDEX == \h0E040001
TAG_WB_REQ_SOC == \h0E000003

Plain(tag) == [tag |-> tag, type |-> NoType, data |-> <<>>, inside |-> <<>>]
Char(tag, n) == [tag |-> tag, type |-> UChar8, data |-> <<n % 256>>, inside |-> <<>>]
Int4(tag, n) == [tag |-> tag, type |-> Int32, data |-> Bytes(n, 4), inside |-> <<>>]
Container(tag, values) ==
  [tag |-> tag, type |-> ContainerType, data |-> <<>>, inside |-> values]

(* Some requests are for the first time only.                              *)
AtStart(values) == IF e3dc_ts THEN <<>> ELSE values

Device(tag, index, n, values) == Container(tag, <<Char(index, n)>> \o values)

Batteries ==
  [i \in 1..cfg.num["BATTERY_STRINGS"] |->
     Device(TAG_BAT_REQ_DATA, TAG_BAT_INDEX, i - 1,
            <<Plain(TAG_BAT_REQ_ASOC)>> \o AtStart(<<Plain(TAG_BAT_REQ_DEVICE_NAME)>>))]

PowerMeters ==
  IF ~cfg.flag["PM_REQUESTS"] THEN <<>>
  ELSE [i \in DOMAIN cfg.pm_indexes |->
          Device(TAG_PM_REQ_DATA, TAG_PM_INDEX, cfg.pm_indexes[i], <<Plain(TAG_PM_REQ_POWER_L1)>>)]

WallboxData ==
  IF ~cfg.flag["WALLBOX"] THEN <<>>
  ELSE [i \in DOMAIN cfg.wb_indexes |->
          Device(TAG_WB_REQ_DATA, TAG_WB_INDEX, cfg.wb_indexes[i], <<Plain(TAG_WB_REQ_SOC)>>)]

(* The additional requests: those outside of containers, and the others    *)
(* container by container as they are sorted.                              *)
Added(container) ==
  LET tags == SelectSeq(cfg.tags, LAMBDA t : /\ t.request.container = container
                                             /\ t.one_shot => ~e3dc_ts)
  IN [i \in DOMAIN tags |->
        LET r == tags[i].request
        IN IF r.index >= 0 THEN Int4(r.tag, r.index) ELSE Plain(r.tag)]

AddedContainers ==
  LET all == {cfg.tags[i].request.container : i \in DOMAIN cfg.tags} \ {0}
      used == {c \in all : Added(c) # <<>>}
  IN [i \in 1..Cardinality(used) |->
        LET c == CHOOSE c \in used : Cardinality({d \in used : d <= c}) = i
        IN Container(c, Added(c))]

Requests ==
  Added(0) \o AtStart(<<Plain(TAG_INFO_REQ_SERIAL_NUMBER)>>) \o <<Plain(TAG_INFO_REQ_TIME)>>
  \o Batteries \o PowerMeters \o WallboxData \o AddedContainers

Flat(v) ==
  [tag |-> v.tag, type |-> v.type,
   data |-> IF v.type = ContainerType THEN AppendAll(<<>>, v.inside) ELSE v.data]

-----------------------------------------------------------------------------
InitFrame == /\ InitStart /\ e3dc_ts = FALSE /\ frame = <<>> /\ wire = <<>>
             /\ result = Refused("OK")

Configure == Start /\ UNCHANGED <<e3dc_ts, frame, wire, result>>

(* In the first cycles or later on.                                        *)
CreateRequest ==
  /\ stage = "ready" /\ stage' = "sent"
  /\ e3dc_ts' \in BOOLEAN /\ UNCHANGED <<skip, cfg, result>>
  /\ frame' = FrameOf(AppendAll(<<>>, [i \in DOMAIN Requests' |-> Flat(Requests'[i])]))
  /\ wire' = frame'
  /\ file' = <<>> /\ env' = <<>>

(* On the way one byte is damaged, or the end of the frame is missing.     *)
Damage(i, d) ==
  /\ stage = "sent" /\ wire = frame
  /\ wire' = [wire EXCEPT ![i] = (@ + d) % 256]
  /\ UNCHANGED <<startVars, e3dc_ts, frame, result>>

Lose(n) ==
  /\ stage = "sent" /\ wire = frame
  /\ wire' = SubSeq(wire, 1, n)
  /\ UNCHANGED <<startVars, e3dc_ts, frame, result>>

Parse ==
  /\ stage = "sent" /\ stage' = "parsed"
  /\ result' = ParseFrame(wire)
  /\ UNCHANGED <<skip, cfg, file, env, e3dc_ts, frame, wire>>

Next ==
  \/ Configure \/ CreateRequest \/ Parse
  \/ \E i \in Spots \intersect DOMAIN wire, d \in Damages : Damage(i, d)
  \/ \E n \in Spots \intersect DOMAIN wire : Lose(n)

Spec == InitFrame /\ [][Next]_allVars

-----------------------------------------------------------------------------
(* What fits of a list of values, each of them whole or not at all.        *)
RECURSIVE Size(_)
Size(values) ==
  IF values = <<>> THEN 0
  ELSE HeaderSize + Len(Head(values).data) + Size(Head(values).inside) + Size(Tail(values))

RECURSIVE Fitting(_)
Fitting(values) ==
  IF values = <<>> THEN <<>>
  ELSE LET before == Fitting(Front(values))
           last == [Last(values) EXCEPT !.inside = Fitting(@)]
       IN IF Size(before) + Size(<<last>>) > Limit THEN before ELSE Append(before, last)

(* The values that a receiver takes out of the frame and its containers.   *)
RECURSIVE Tree(_)
Tree(values) ==
  [i \in DOMAIN values |->
     LET v == values[i]
     IN IF v.type = ContainerType
        THEN Container(v.tag, Tree(ParseData(v.data, 0)))
        ELSE [tag |-> v.tag, type |-> v.type, data |-> v.data, inside |-> <<>>]]

(* Whatever is configured, the receiver of a frame finds in it what was    *)
(* asked for, device by device and request by request, but for what did    *)
(* not fit any more. Of a frame that was damaged or cut it finds nothing   *)
(* or the same, never something else.                                      *)
Understood ==
  stage = "parsed" =>
    /\ result.code = "OK" => Tree(result.values) = Fitting(Requests)
    /\ wire = frame => result.code = "OK"

=============================================================================
