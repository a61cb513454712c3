------------------------- MODULE ReceiveLoop_proofs -------------------------
(* Theorems about ReceiveLoop, for blocks, chunks and frames of any length, *)
(* and any number of sessions, requests and frames.                         *)
EXTENDS ReceiveLoop, FiniteSetTheorems, SequenceTheorems, TLAPS

-----------------------------------------------------------------------------
(* Blocks and chunks.                                                       *)
LEMMA DivMod == ASSUME NEW n \in Nat, NEW b \in Nat \ {0}
                PROVE  /\ n \div b \in Nat /\ n % b \in 0..(b - 1)
                       /\ n = b * (n \div b) + (n % b)
OBVIOUS

LEMMA TimesMonotone == ASSUME NEW i \in Nat, NEW j \in Nat, NEW b \in Nat, i <= j
                       PROVE  b * i <= b * j
OBVIOUS

LEMMA Multiple == ASSUME NEW b \in Nat \ {0}, NEW k \in Nat
                  PROVE  b * k \in Nat /\ (b * k) % b = 0 /\ (b * k) \div b = k
OBVIOUS

(* Two multiples of a block make one.                                       *)
LEMMA BlocksAdd ==
  ASSUME NEW b \in Nat \ {0}, NEW x \in Nat, NEW y \in Nat, x % b = 0, y % b = 0
  PROVE  (x + y) % b = 0
<1>1. x = b * (x \div b) /\ y = b * (y \div b) /\ x \div b \in Nat /\ y \div b \in Nat
  BY DivMod
<1>2. x + y = b * ((x \div b) + (y \div b))
  BY <1>1
<1>3. (x \div b) + (y \div b) \in Nat
  BY <1>1
<1>4. QED
  BY <1>2, <1>3, Multiple

(* The decrypted blocks are bytes received, and a whole number of blocks.   *)
LEMMA DownFits == ASSUME NEW n \in Nat
                  PROVE  RoundDown(n) \in 0..n /\ RoundDown(n) % Block = 0
<1>1. Block \in Nat \ {0}
  BY ReceiveAssumption DEF ReceiveAssumption
<1>2. n \div Block \in Nat /\ n % Block \in Nat /\ n = Block * (n \div Block) + (n % Block)
  BY <1>1, DivMod
<1>3. RoundDown(n) = Block * (n \div Block)
  BY <1>1, <1>2 DEF RoundDown
<1>4. RoundDown(n) \in Nat /\ RoundDown(n) % Block = 0
  BY <1>1, <1>2, <1>3, Multiple
<1>5. QED
  BY <1>2, <1>3, <1>4

(* A frame that is in the decrypted blocks is there with its padding.       *)
LEMMA UpFits ==
  ASSUME NEW n \in Nat, NEW a \in Nat \ {0}, a <= RoundDown(n)
  PROVE  RoundUp(a) \in 1..RoundDown(n) /\ RoundUp(a) % Block = 0
<1> DEFINE d == (a + Block - 1) \div Block
           q == n \div Block
<1>1. Block \in Nat \ {0}
  BY ReceiveAssumption DEF ReceiveAssumption
<1>2. q \in Nat /\ RoundDown(n) = Block * q
  BY <1>1, DivMod DEF RoundDown
<1>3. a + Block - 1 \in Nat
  BY <1>1
<1>4. d \in Nat /\ (a + Block - 1) % Block \in 0..(Block - 1)
      /\ a + Block - 1 = Block * d + ((a + Block - 1) % Block)
  BY <1>1, <1>3, DivMod
<1>5. RoundUp(a) = Block * d
  BY <1>1, <1>4 DEF RoundUp, RoundDown
<1>6. Block * d \in Nat /\ Block * q \in Nat
  BY <1>1, <1>2, <1>4
<1>7. a <= Block * d /\ Block * d <= a + Block - 1
  BY <1>1, <1>4, <1>6
<1>8. d <= q
  <2>1. SUFFICES ASSUME q + 1 <= d PROVE FALSE
    BY <1>2, <1>4
  <2>2. Block * (q + 1) <= Block * d
    BY <1>1, <1>2, <1>4, <2>1, TimesMonotone
  <2>3. Block * (q + 1) = Block * q + Block
    BY <1>1, <1>2
  <2>4. QED
    BY <1>1, <1>2, <1>6, <1>7, <2>2, <2>3
<1>9. Block * d <= Block * q
  BY <1>1, <1>2, <1>4, <1>8, TimesMonotone
<1>10. (Block * d) % Block = 0
  BY <1>1, <1>4, Multiple
<1>11. QED
  BY <1>2, <1>5, <1>6, <1>7, <1>9, <1>10

(* A frame and its padding take up the blocks that receiveLoop uses up.     *)
LEMMA PaddedIsUp ==
  ASSUME NEW l \in Nat \ {0}
  PROVE  Padded(l) = RoundUp(l) /\ Padded(l) \in Nat \ {0} /\ l <= Padded(l)
<1> DEFINE d == (l + Block - 1) \div Block
           e == (-l) \div Block
           r == (-l) % Block
<1>1. Block \in Nat \ {0}
  BY ReceiveAssumption DEF ReceiveAssumption
<1>2. d \in Nat /\ (l + Block - 1) % Block \in 0..(Block - 1)
      /\ l + Block - 1 = Block * d + ((l + Block - 1) % Block)
  <2>1. l + Block - 1 \in Nat
    BY <1>1
  <2>2. QED
    BY <1>1, <2>1, DivMod
<1>3. e \in Int /\ r \in 0..(Block - 1) /\ -l = Block * e + r
  BY <1>1
<1>4. RoundUp(l) = Block * d
  BY <1>1, <1>2 DEF RoundUp, RoundDown
<1>5. Padded(l) = l + r
  BY DEF Padded
<1> HIDE DEF d, e, r
<1>6. Block * (d + e) = Block * d + Block * e /\ Block * d \in Int /\ Block * e \in Int
  BY <1>1, <1>2, <1>3
<1>7. Block * (d + e) < Block /\ -Block < Block * (d + e)
  BY <1>1, <1>2, <1>3, <1>6
<1>8. d + e = 0
  <2>1. CASE d + e >= 1
    <3>1. Block * 1 <= Block * (d + e)
      BY <1>1, <1>2, <1>3, <2>1, TimesMonotone
    <3>2. QED
      BY <1>1, <1>6, <1>7, <3>1
  <2>2. CASE d + e <= -1
    <3>1. Block * 1 <= Block * (-(d + e))
      BY <1>1, <1>2, <1>3, <2>2, TimesMonotone
    <3>2. Block * (-(d + e)) = -(Block * (d + e))
      BY <1>1, <1>2, <1>3
    <3>3. QED
      BY <1>1, <1>6, <1>7, <3>1, <3>2
  <2>3. QED
    BY <1>2, <1>3, <2>1, <2>2
<1>9. Block * d = l + r
  <2>1. Block * (d + e) = 0
    BY <1>1, <1>8
  <2>2. QED
    BY <1>2, <1>3, <1>6, <2>1
<1>10. QED
  BY <1>1, <1>3, <1>4, <1>5, <1>9

-----------------------------------------------------------------------------
(* The buffer: BufferInStep is inductive as it stands.                      *)
LEMMA InitHolds == Init => BufferInStep
<1> SUFFICES ASSUME Init PROVE BufferInStep
  OBVIOUS
<1>1. MaxSessions \in Nat \ {0} /\ MaxRequests \in Nat /\ MaxExtra \in Nat
  BY ReceiveAssumption DEF ReceiveAssumption
<1>2. iv \in Bytes
  BY <1>1 DEF Init, Bytes
<1>3. Block \in Nat \ {0}
  BY ReceiveAssumption DEF ReceiveAssumption
<1>4. 0 % Block = 0
  BY <1>3
<1>5. TypeOK
  BY <1>1, <1>2 DEF Init, TypeOK
<1>6. IvInStep
  BY <1>4 DEF Init, IvInStep
<1>7. QED
  BY <1>5, <1>6 DEF Init, BufferInStep, NothingLeft

(* Steps that leave the buffer and the stream alone.                        *)
LEMMA BufferUnchanged ==
  ASSUME BufferInStep, UNCHANGED <<buffer, session, received>>,
         pc \in {"send", "closed"} \/ pc' \notin {"send", "closed"} \/ buf = <<>>,
         pc' # "closed" => pc # "closed",
         pc' \in {"send", "head", "recv", "parse", "closed"},
         count' \in Nat, sent' \in Seq(SentFrames), requests' \in 0..MaxRequests,
         extra' \in 0..MaxExtra, UNCHANGED <<handled, tooLong>>
  PROVE  BufferInStep'
<1>1. TypeOK'
  BY DEF BufferInStep, TypeOK, buffer
<1>2. NothingLeft'
  BY DEF BufferInStep, NothingLeft, buffer
<1>3. IvInStep'
  BY DEF BufferInStep, IvInStep, buffer, Byte
<1>4. QED
  BY <1>1, <1>2, <1>3 DEF BufferInStep

(* The buffer is emptied and the socket closed.                             *)
LEMMA BufferStopped ==
  ASSUME BufferInStep, Stop, tooLong' \subseteq Nat
  PROVE  BufferInStep'
<1>1. TypeOK'
  BY DEF BufferInStep, TypeOK, Stop, Emptied, device
<1>2. NothingLeft' /\ IvInStep'
  BY DEF BufferInStep, Stop, Emptied, device, NothingLeft, IvInStep
<1>3. QED
  BY <1>1, <1>2 DEF BufferInStep

(* recv appends the next bytes of the stream.                               *)
LEMMA BufferRecv == BufferInStep /\ Recv => BufferInStep'
<1> SUFFICES ASSUME BufferInStep, Recv PROVE BufferInStep'
  OBVIOUS
<1>1. PICK n \in 1..Room :
        /\ buf' = buf \o [i \in 1..n |-> Byte(received + i)]
        /\ received' = received + n
  BY DEF Recv
<1>2. buf \in Seq(Bytes) /\ size \in Nat /\ Len(buf) <= size /\ received \in Nat
      /\ session \in 1..MaxSessions /\ iv \in Bytes /\ iv.n \in Nat
  BY DEF BufferInStep, TypeOK, Bytes
<1>3. n \in Nat \ {0} /\ Len(buf) + n <= size
  BY <1>2 DEF Room
<1> DEFINE new == [i \in 1..n |-> Byte(received + i)]
<1>4. new \in Seq(Bytes) /\ Len(new) = n
  BY <1>2, <1>3 DEF Byte, Bytes
<1>5. buf' \in Seq(Bytes) /\ Len(buf') = Len(buf) + n
  BY <1>1, <1>2, <1>4
<1>6. /\ pc = "recv" /\ pc' = "parse"
      /\ UNCHANGED <<size, iv, count, session, sent, extra, requests, handled, tooLong>>
  BY DEF Recv
<1>7. TypeOK'
  BY <1>1, <1>2, <1>3, <1>5, <1>6 DEF BufferInStep, TypeOK
<1>8. received = iv.n + Len(buf)
  BY <1>6 DEF BufferInStep, IvInStep
<1>9. ASSUME NEW i \in 1..Len(buf') PROVE buf'[i] = Byte(iv.n + i)
  <2>1. CASE i <= Len(buf)
    BY <1>1, <1>2, <1>4, <1>5, <2>1 DEF BufferInStep, IvInStep
  <2>2. CASE i > Len(buf)
    <3>1. buf'[i] = new[i - Len(buf)] /\ i - Len(buf) \in 1..n
      BY <1>1, <1>2, <1>3, <1>4, <1>5, <2>2
    <3>2. received + (i - Len(buf)) = iv.n + i
      BY <1>2, <1>8
    <3>3. QED
      BY <3>1, <3>2
  <2>3. QED
    BY <1>2, <2>1, <2>2
<1>10. IvInStep'
  <2>1. received' = iv.n + Len(buf')
    BY <1>1, <1>2, <1>3, <1>5, <1>8
  <2>2. iv.s = session /\ iv.n % Block = 0
    BY <1>6 DEF BufferInStep, IvInStep
  <2>3. QED
    BY <1>6, <1>9, <2>1, <2>2 DEF IvInStep, Byte
<1>11. QED
  BY <1>6, <1>7, <1>10 DEF BufferInStep, NothingLeft

LEMMA LengthsNat == \A l \in Length : l \in Nat \ {0}
BY ReceiveAssumption DEF ReceiveAssumption

LEMMA Suffix ==
  ASSUME NEW S, NEW s \in Seq(S), NEW u \in 1..Len(s)
  PROVE  /\ SubSeq(s, u + 1, Len(s)) \in Seq(S)
         /\ Len(SubSeq(s, u + 1, Len(s))) = Len(s) - u
         /\ \A i \in 1..(Len(s) - u) : SubSeq(s, u + 1, Len(s))[i] = s[u + i]
OBVIOUS

(* A frame leaves the buffer with its padding, and the decryption goes on   *)
(* from its last block.                                                     *)
LEMMA BufferParse == BufferInStep /\ ParseFrame => BufferInStep'
<1> SUFFICES ASSUME BufferInStep, ParseFrame PROVE BufferInStep'
  OBVIOUS
<1> DEFINE used == RoundUp(sent[Frame].len)
<1>1. buf \in Seq(Bytes) /\ Len(buf) \in Nat /\ iv \in Bytes /\ iv.n \in Nat
      /\ session \in 1..MaxSessions /\ sent \in Seq(SentFrames) /\ received \in Nat
      /\ size \in Nat /\ Len(buf) <= size
  BY DEF BufferInStep, TypeOK, Bytes
<1>2. Frame \in 1..Len(sent)
  BY DEF ParseFrame, Readable, Frame
<1>3. sent[Frame].len \in Nat \ {0} /\ sent[Frame].len <= RoundDown(Len(buf))
  <2>1. sent[Frame].len \in Length
    <3>1. sent[Frame] \in SentFrames
      BY <1>1, <1>2
    <3>2. QED
      BY <3>1 DEF SentFrames
  <2>2. sent[Frame].len \in Nat \ {0}
    BY <2>1, LengthsNat
  <2>3. sent[Frame].len <= RoundDown(Len(buf))
    BY DEF ParseFrame, Blocks
  <2>4. QED
    BY <2>2, <2>3
<1>4. used \in 1..Len(buf) /\ used % Block = 0
  <2>1. used \in 1..RoundDown(Len(buf)) /\ used % Block = 0
    BY <1>1, <1>3, UpFits
  <2>2. RoundDown(Len(buf)) \in 0..Len(buf)
    BY <1>1, DownFits
  <2>3. QED
    BY <1>1, <2>1, <2>2
<1>5. iv' = buf[used] /\ buf' = SubSeq(buf, used + 1, Len(buf))
  BY DEF ParseFrame, Consume, IvAfter
<1>6. \A i \in 1..Len(buf) : buf[i] = Byte(iv.n + i)
  BY DEF BufferInStep, IvInStep
<1>7. /\ pc = "parse" /\ count' = count + 1
      /\ handled' = Append(handled, <<Head(buf).s, Frame>>)
      /\ UNCHANGED <<size, pc, session, sent, received, extra, requests, tooLong>>
  BY DEF ParseFrame, device
<1>8. iv' = Byte(iv.n + used) /\ iv'.n = iv.n + used /\ iv'.s = session
  BY <1>4, <1>5, <1>6 DEF Byte
<1>9. buf' \in Seq(Bytes) /\ Len(buf') = Len(buf) - used
      /\ \A i \in 1..Len(buf') : buf'[i] = buf[used + i]
  <2> HIDE DEF used
  <2>1. buf \in Seq(Bytes) /\ used \in 1..Len(buf)
    BY <1>1, <1>4
  <2>2. /\ SubSeq(buf, used + 1, Len(buf)) \in Seq(Bytes)
        /\ Len(SubSeq(buf, used + 1, Len(buf))) = Len(buf) - used
        /\ \A i \in 1..(Len(buf) - used) : SubSeq(buf, used + 1, Len(buf))[i] = buf[used + i]
    BY <2>1, Suffix
  <2>3. QED
    BY <1>5, <2>2
<1>10. TypeOK'
  <2>1. iv' \in Bytes
    BY <1>1, <1>4, <1>8 DEF Byte, Bytes
  <2>2. Head(buf) \in Bytes
    BY <1>1, <1>4
  <2>3. handled' \in Seq((1..MaxSessions) \X Nat)
    <3>1. <<Head(buf).s, Frame>> \in (1..MaxSessions) \X Nat
      BY <1>1, <1>2, <2>2 DEF Bytes
    <3>2. handled \in Seq((1..MaxSessions) \X Nat)
      BY DEF BufferInStep, TypeOK
    <3>3. QED
      BY <1>7, <3>1, <3>2
  <2>4. Len(buf') <= size
    BY <1>1, <1>4, <1>9
  <2>5. QED
    BY <1>7, <1>9, <2>1, <2>3, <2>4 DEF BufferInStep, TypeOK
<1>11. IvInStep'
  <2>1. \A i \in 1..Len(buf') : buf'[i] = Byte(iv'.n + i)
    <3>1. TAKE i \in 1..Len(buf')
    <3>2. used + i \in 1..Len(buf) /\ iv.n + (used + i) = iv'.n + i
      BY <1>1, <1>4, <1>8, <1>9
    <3>3. QED
      BY <1>6, <1>9, <3>2
  <2>2. Block \in Nat \ {0} /\ iv.n % Block = 0 /\ received = iv.n + Len(buf)
    BY <1>7, ReceiveAssumption DEF BufferInStep, IvInStep, ReceiveAssumption
  <2>3. iv'.n % Block = 0
    BY <1>1, <1>4, <1>8, <2>2, BlocksAdd
  <2>4. received = iv'.n + Len(buf')
    BY <1>1, <1>4, <1>8, <1>9, <2>2
  <2>5. QED
    BY <1>7, <1>8, <2>1, <2>3, <2>4 DEF IvInStep, Byte
<1>12. QED
  BY <1>7, <1>10, <1>11 DEF BufferInStep, NothingLeft

LEMMA BufferReconnect == BufferInStep /\ Reconnect => BufferInStep'
<1> SUFFICES ASSUME BufferInStep, Reconnect PROVE BufferInStep'
  OBVIOUS
<1>1. Block \in Nat \ {0} /\ MaxSessions \in Nat \ {0} /\ MaxRequests \in Nat /\ MaxExtra \in Nat
  BY ReceiveAssumption DEF ReceiveAssumption
<1>2. session' \in 1..MaxSessions /\ session' = session + 1
  BY <1>1 DEF Reconnect, BufferInStep, TypeOK
<1>3. iv' = [s |-> session', n |-> 0] /\ iv' \in Bytes
  BY <1>2 DEF Reconnect, Bytes
<1>4. buf = <<>> /\ buf' = <<>> /\ received' = 0
  BY DEF Reconnect, BufferInStep, NothingLeft
<1>5. TypeOK'
  BY <1>1, <1>2, <1>3 DEF Reconnect, BufferInStep, TypeOK
<1>6. IvInStep'
  <2>1. 0 % Block = 0
    BY <1>1
  <2>2. QED
    BY <1>3, <1>4, <2>1 DEF IvInStep
<1>7. QED
  BY <1>4, <1>5, <1>6 DEF BufferInStep, NothingLeft

LEMMA BufferExpand == BufferInStep /\ Expand => BufferInStep'
<1> SUFFICES ASSUME BufferInStep, Expand PROVE BufferInStep'
  OBVIOUS
<1>1. Chunk \in Nat
  BY ReceiveAssumption DEF ReceiveAssumption
<1>2. size' \in Nat /\ Len(buf) <= size'
  BY <1>1 DEF Expand, BufferInStep, TypeOK
<1>3. pc = "head" /\ pc' = "recv" /\ UNCHANGED <<buf, iv, count, device, requests, handled, tooLong>>
  BY DEF Expand
<1>4. TypeOK'
  BY <1>2, <1>3 DEF BufferInStep, TypeOK, device
<1>5. NothingLeft' /\ IvInStep'
  BY <1>3 DEF BufferInStep, NothingLeft, IvInStep, Byte, device
<1>6. QED
  BY <1>4, <1>5 DEF BufferInStep

(* The device goes on where the last frame ends.                            *)
LEMMA StreamType ==
  ASSUME sent \in Seq(SentFrames)
  PROVE  StreamLength \in Nat
<1>1. CASE sent = <<>>
  BY <1>1 DEF StreamLength
<1>2. CASE sent # <<>>
  <2>1. sent[Len(sent)].at \in Nat /\ sent[Len(sent)].len \in Length
    <3>1. sent[Len(sent)] \in SentFrames
      BY <1>2
    <3>2. QED
      BY <3>1 DEF SentFrames
  <2>2. Padded(sent[Len(sent)].len) \in Nat
    BY <2>1, LengthsNat, PaddedIsUp
  <2>3. QED
    BY <1>2, <2>1, <2>2 DEF StreamLength
<1>3. QED
  BY <1>1, <1>2

LEMMA FollowingType ==
  ASSUME sent \in Seq(SentFrames), NEW l \in Length
  PROVE  Append(sent, Following(l)) \in Seq(SentFrames)
<1>1. Following(l) \in SentFrames
  BY StreamType DEF Following, SentFrames
<1>2. QED
  BY <1>1

LEMMA StepBuffer == BufferInStep /\ [Next]_vars => BufferInStep'
<1> SUFFICES ASSUME BufferInStep, [Next]_vars PROVE BufferInStep'
  OBVIOUS
<1> USE DEF buffer, device
<1>1. count \in Nat /\ sent \in Seq(SentFrames) /\ requests \in 0..MaxRequests /\ extra \in 0..MaxExtra
      /\ pc \in {"send", "head", "recv", "parse", "closed"} /\ buf \in Seq(Bytes)
      /\ MaxRequests \in Nat /\ MaxExtra \in Nat /\ tooLong \subseteq Nat
  BY ReceiveAssumption DEF BufferInStep, TypeOK, ReceiveAssumption
<1>2. ASSUME NEW l \in Length, Answer(l) PROVE BufferInStep'
  <2>1. sent' \in Seq(SentFrames)
    BY <1>1, <1>2, FollowingType DEF Answer
  <2>2. QED
    BY <1>1, <1>2, <2>1, BufferUnchanged DEF Answer
<1>3. ASSUME NEW l \in Length, Extra(l) PROVE BufferInStep'
  <2>1. sent' \in Seq(SentFrames)
    BY <1>1, <1>3, FollowingType DEF Extra
  <2>2. extra' \in 0..MaxExtra
    BY <1>1, <1>3 DEF Extra
  <2>3. QED
    BY <1>1, <1>3, <2>1, <2>2, BufferUnchanged DEF Extra
<1>4. CASE Request
  <2>1. requests' \in 0..MaxRequests /\ count' \in Nat
    BY <1>1, <1>4 DEF Request
  <2>2. QED
    BY <1>1, <1>4, <2>1, BufferUnchanged DEF Request
<1>5. CASE SendFails
  BY <1>1, <1>5, BufferUnchanged DEF SendFails
<1>6. CASE Return
  BY <1>1, <1>6, BufferUnchanged DEF Return, GoOn
<1>7. CASE Expand
  BY <1>7, BufferExpand
<1>8. CASE TooLong
  <2>1. Len(buf) \in Nat
    BY <1>1
  <2>2. tooLong' = tooLong \cup {Len(buf)}
    BY <1>8 DEF TooLong
  <2>3. tooLong' \subseteq Nat
    BY <1>1, <2>1, <2>2
  <2>4. QED
    BY <1>8, <2>3, BufferStopped DEF TooLong
<1>9. CASE Recv
  BY <1>9, BufferRecv
<1>10. CASE RecvFails \/ ParseError
  BY <1>1, <1>10, BufferStopped DEF RecvFails, ParseError
<1>11. CASE ParseFrame
  BY <1>11, BufferParse
<1>12. CASE ParseLater
  BY <1>1, <1>12, BufferUnchanged DEF ParseLater
<1>13. CASE Reconnect
  BY <1>13, BufferReconnect
<1>14. CASE UNCHANGED vars
  BY <1>1, <1>14, BufferUnchanged DEF vars
<1>15. QED
  BY <1>2, <1>3, <1>4, <1>5, <1>6, <1>7, <1>8, <1>9, <1>10, <1>11, <1>12, <1>13, <1>14
     DEF Next, Loop, Faults

(* Nothing of an answer or a session is left for the next one, and the      *)
(* decryption always goes on from the block before the buffer's first.      *)
THEOREM BufferIsInStep == Spec => []BufferInStep
BY InitHolds, StepBuffer, PTL DEF Spec

-----------------------------------------------------------------------------
(* The size of the buffer is a number of chunks, and a buffer found too long*)
(* was nearly full.                                                         *)
ChunksInv == (\E k \in Nat : size = Chunk * k) /\ NoFalseAlarm

LEMMA ChunksAlarm ==
  ASSUME NEW n \in Nat, NEW k \in Nat, Chunk * k - n < Chunk, Chunk * k > MaxFrame
  PROVE  n > (MaxFrame \div Chunk) * Chunk
<1> DEFINE m == MaxFrame \div Chunk
<1>1. Chunk \in Nat \ {0} /\ MaxFrame \in Nat
  BY ReceiveAssumption DEF ReceiveAssumption
<1>2. m \in Nat /\ MaxFrame % Chunk \in Nat /\ MaxFrame = Chunk * m + (MaxFrame % Chunk)
  BY <1>1, DivMod
<1>3. m < k
  <2>1. SUFFICES ASSUME k <= m PROVE FALSE
    BY <1>2
  <2>2. Chunk * k <= Chunk * m
    BY <1>1, <1>2, <2>1, TimesMonotone
  <2>3. Chunk * k \in Nat /\ Chunk * m \in Nat
    BY <1>1, <1>2
  <2>4. QED
    BY <1>1, <1>2, <2>2, <2>3
<1>4. Chunk * (m + 1) <= Chunk * k
  BY <1>1, <1>2, <1>3, TimesMonotone
<1>5. Chunk * (m + 1) = m * Chunk + Chunk /\ m * Chunk \in Nat /\ Chunk * k \in Nat
  BY <1>1, <1>2
<1>6. QED
  BY <1>1, <1>4, <1>5

LEMMA StepChunks == BufferInStep /\ ChunksInv /\ [Next]_vars => ChunksInv'
<1> SUFFICES ASSUME BufferInStep, ChunksInv, [Next]_vars PROVE ChunksInv'
  OBVIOUS
<1> USE DEF buffer, device
<1>1. PICK k \in Nat : size = Chunk * k
  BY DEF ChunksInv
<1>2. Chunk \in Nat \ {0} /\ size \in Nat /\ Len(buf) \in Nat
  BY ReceiveAssumption DEF ReceiveAssumption, BufferInStep, TypeOK
<1>3. \E j \in Nat : size' = Chunk * j
  <2>1. CASE size' = size
    BY <1>1, <2>1
  <2>2. CASE size' = 0
    <3>1. 0 = Chunk * 0
      BY <1>2
    <3>2. QED
      BY <2>2, <3>1
  <2>3. CASE size' = size + Chunk
    <3>1. size + Chunk = Chunk * (k + 1) /\ k + 1 \in Nat
      BY <1>1, <1>2
    <3>2. QED
      BY <2>3, <3>1
  <2>4. QED
    BY <2>1, <2>2, <2>3 DEF Next, Loop, Faults, Answer, Extra, Request, SendFails, Return, Expand,
       TooLong, Recv, RecvFails, ParseFrame, ParseLater, ParseError, Reconnect, Stop, Emptied,
       Consume, vars
<1>4. NoFalseAlarm'
  <2>1. CASE tooLong' = tooLong
    BY <2>1 DEF ChunksInv, NoFalseAlarm
  <2>2. CASE TooLong
    <3>1. Chunk * k - Len(buf) < Chunk /\ Chunk * k > MaxFrame
      BY <1>1, <2>2 DEF TooLong, Full
    <3>2. Len(buf) > (MaxFrame \div Chunk) * Chunk
      BY <1>2, <3>1, ChunksAlarm
    <3>3. QED
      BY <2>2, <3>2 DEF TooLong, ChunksInv, NoFalseAlarm
  <2>3. QED
    BY <2>1, <2>2 DEF Next, Loop, Faults, Answer, Extra, Request, SendFails, Return, Expand,
       Recv, RecvFails, ParseFrame, ParseLater, ParseError, Reconnect, Stop, vars
<1>5. QED
  BY <1>3, <1>4 DEF ChunksInv

(* A buffer found too long holds more than the chunks that the longest      *)
(* frame fills.                                                             *)
THEOREM NoAlarmIsFalse == Spec => []NoFalseAlarm
<1>1. Init => ChunksInv
  <2>1. 0 = Chunk * 0
    BY ReceiveAssumption DEF ReceiveAssumption
  <2>2. QED
    BY <2>1 DEF Init, ChunksInv, NoFalseAlarm
<1>2. BufferInStep /\ ChunksInv /\ [Next]_vars => ChunksInv'
  BY StepChunks
<1>3. ChunksInv => NoFalseAlarm
  BY DEF ChunksInv
<1>4. QED
  BY <1>1, <1>2, <1>3, BufferIsInStep, PTL DEF Spec

-----------------------------------------------------------------------------
(* The stream: each frame begins where the one before it ends, and none     *)
(* where another one does.                                                  *)
Begin(k) == IF k <= Len(sent) THEN sent[k].at ELSE StreamLength

StreamInStep ==
  /\ Len(sent) > 0 => sent[1].at = 0
  /\ \A k \in 1..Len(sent) : k > 1 => sent[k].at = sent[k - 1].at + Padded(sent[k - 1].len)
  /\ \A j, k \in 1..Len(sent) : j < k => sent[j].at < sent[k].at

(* The decryption has come to the begin of the first frame that is not      *)
(* handled yet, and the frames handled are of this session and earlier ones.*)
NextInStep ==
  /\ \A i \in 1..Len(handled) : handled[i][1] <= session
  /\ HandledNow <= Len(sent)
  /\ iv.n = Begin(HandledNow + 1)

(* A call handles at least one frame before it returns.                     *)
AnswersInStep ==
  /\ AnswersFirst
  /\ pc \in {"head", "recv", "parse"} => HandledNow >= requests - 1 + count

FramesInStep == StreamInStep /\ NextInStep /\ AnswersInStep

LEMMA SentTypes ==
  ASSUME sent \in Seq(SentFrames)
  PROVE  \A k \in 1..Len(sent) : /\ sent[k].at \in Nat /\ sent[k].len \in Nat \ {0}
                                 /\ Padded(sent[k].len) \in Nat \ {0}
                                 /\ Padded(sent[k].len) = RoundUp(sent[k].len)
<1>1. TAKE k \in 1..Len(sent)
<1>2. sent[k] \in SentFrames
  OBVIOUS
<1>3. sent[k].at \in Nat /\ sent[k].len \in Nat \ {0}
  BY <1>2, LengthsNat DEF SentFrames
<1>4. QED
  BY <1>3, PaddedIsUp

(* A frame that follows begins after all the others.                        *)
LEMMA StreamAppend ==
  ASSUME sent \in Seq(SentFrames), StreamInStep, NEW l \in Length,
         sent' = Append(sent, Following(l))
  PROVE  /\ StreamInStep'
         /\ Len(sent') = Len(sent) + 1 /\ sent'[Len(sent) + 1] = Following(l)
         /\ \A k \in 1..Len(sent) : sent'[k] = sent[k]
         /\ \A k \in 1..(Len(sent) + 1) : Begin(k)' = Begin(k)
<1>1. Len(sent') = Len(sent) + 1 /\ sent'[Len(sent) + 1] = Following(l) /\ Len(sent) \in Nat
  OBVIOUS
<1>2. \A k \in 1..Len(sent) : sent'[k] = sent[k]
  OBVIOUS
<1>3. Following(l).at = StreamLength
  BY DEF Following
<1>4. \A k \in 1..Len(sent) : sent[k].at < StreamLength
  <2>1. TAKE k \in 1..Len(sent)
  <2>2. Len(sent) \in 1..Len(sent) /\ sent # <<>>
    BY <1>1
  <2>3. sent[k].at <= sent[Len(sent)].at
    <3>1. CASE k = Len(sent)
      BY <3>1, <2>2, SentTypes
    <3>2. CASE k < Len(sent)
      <4>1. sent[k].at < sent[Len(sent)].at
        BY <2>2, <3>2 DEF StreamInStep
      <4>2. sent[k].at \in Nat /\ sent[Len(sent)].at \in Nat
        BY <2>2, SentTypes
      <4>3. QED
        BY <4>1, <4>2
    <3>3. QED
      BY <1>1, <3>1, <3>2
  <2>4. StreamLength = sent[Len(sent)].at + Padded(sent[Len(sent)].len)
    BY <2>2 DEF StreamLength
  <2>5. /\ sent[k].at \in Nat /\ sent[Len(sent)].at \in Nat
        /\ Padded(sent[Len(sent)].len) \in Nat \ {0}
    BY <2>2, SentTypes
  <2>6. QED
    BY <2>3, <2>4, <2>5
<1>5. Len(sent') > 0 => sent'[1].at = 0
  <2>1. CASE sent = <<>>
    BY <1>1, <1>3, <2>1 DEF StreamLength
  <2>2. CASE sent # <<>>
    BY <1>1, <1>2, <2>2 DEF StreamInStep
  <2>3. QED
    BY <2>1, <2>2
<1>6. ASSUME NEW k \in 1..Len(sent'), k > 1
      PROVE  sent'[k].at = sent'[k - 1].at + Padded(sent'[k - 1].len)
  <2>1. CASE k <= Len(sent)
    BY <1>1, <1>2, <1>6, <2>1 DEF StreamInStep
  <2>2. CASE k = Len(sent) + 1
    <3>1. sent # <<>> /\ k - 1 = Len(sent) /\ k - 1 \in 1..Len(sent)
      BY <1>1, <1>6, <2>2
    <3>2. QED
      BY <1>1, <1>2, <1>3, <2>2, <3>1 DEF StreamLength
  <2>3. k <= Len(sent) \/ k = Len(sent) + 1
    BY <1>1
  <2>4. QED
    BY <2>1, <2>2, <2>3
<1>7. ASSUME NEW j \in 1..Len(sent'), NEW k \in 1..Len(sent'), j < k
      PROVE  sent'[j].at < sent'[k].at
  <2>1. j \in 1..Len(sent)
    BY <1>1, <1>7
  <2>2. CASE k <= Len(sent)
    BY <1>1, <1>2, <1>7, <2>1, <2>2 DEF StreamInStep
  <2>3. CASE k = Len(sent) + 1
    BY <1>1, <1>2, <1>3, <1>4, <2>1, <2>3
  <2>4. QED
    BY <1>1, <2>2, <2>3
<1>8. ASSUME NEW k \in 1..(Len(sent) + 1) PROVE Begin(k)' = Begin(k)
  <2>1. k <= Len(sent') /\ Begin(k)' = sent'[k].at
    BY <1>1 DEF Begin
  <2>2. CASE k <= Len(sent)
    BY <1>1, <1>2, <2>1, <2>2 DEF Begin
  <2>3. CASE k = Len(sent) + 1
    BY <1>1, <1>3, <2>1, <2>3 DEF Begin
  <2>4. QED
    BY <1>1, <2>2, <2>3
<1>9. StreamInStep'
  BY <1>5, <1>6, <1>7 DEF StreamInStep
<1>10. QED
  BY <1>1, <1>2, <1>8, <1>9

(* The number of frames handled.                                            *)
OfSession(h, s) == {i \in DOMAIN h : h[i][1] = s}

LEMMA OfSessionFinite ==
  ASSUME NEW S, NEW h \in Seq(S), NEW s
  PROVE  IsFiniteSet(OfSession(h, s)) /\ Cardinality(OfSession(h, s)) \in Nat
<1>1. Len(h) \in Nat /\ OfSession(h, s) \subseteq 1..Len(h)
  BY DEF OfSession
<1>2. IsFiniteSet(1..Len(h))
  BY <1>1, FS_Interval
<1>3. QED
  BY <1>1, <1>2, FS_Subset, FS_CardinalityType

LEMMA OfSessionAppend ==
  ASSUME NEW S, NEW h \in Seq(S), NEW e \in S, NEW s
  PROVE  Cardinality(OfSession(Append(h, e), s))
           = Cardinality(OfSession(h, s)) + (IF e[1] = s THEN 1 ELSE 0)
<1>1. DOMAIN h = 1..Len(h) /\ Len(h) \in Nat /\ DOMAIN Append(h, e) = 1..(Len(h) + 1)
      /\ Append(h, e)[Len(h) + 1] = e /\ \A i \in 1..Len(h) : Append(h, e)[i] = h[i]
  OBVIOUS
<1>2. CASE e[1] = s
  <2>1. OfSession(Append(h, e), s) = OfSession(h, s) \cup {Len(h) + 1}
    BY <1>1, <1>2 DEF OfSession
  <2>2. Len(h) + 1 \notin OfSession(h, s)
    BY <1>1 DEF OfSession
  <2>3. QED
    BY <1>2, <2>1, <2>2, OfSessionFinite, FS_AddElement
<1>3. CASE e[1] # s
  <2>1. OfSession(Append(h, e), s) = OfSession(h, s)
    BY <1>1, <1>3 DEF OfSession
  <2>2. QED
    BY <1>3, <2>1, OfSessionFinite
<1>4. QED
  BY <1>2, <1>3

LEMMA HandledType ==
  ASSUME TypeOK
  PROVE  HandledNow \in Nat /\ HandledNow = Cardinality(OfSession(handled, session))
BY OfSessionFinite DEF TypeOK, HandledNow, OfSession

LEMMA InitFrames == Init => FramesInStep
<1> SUFFICES ASSUME Init PROVE FramesInStep
  OBVIOUS
<1>1. OfSession(handled, session) = {}
  BY DEF Init, OfSession
<1>2. HandledNow = 0
  BY <1>1, FS_EmptySet DEF HandledNow, OfSession
<1>3. Begin(1) = 0
  BY DEF Init, Begin, StreamLength
<1>4. QED
  BY <1>2, <1>3 DEF Init, FramesInStep, StreamInStep, NextInStep, AnswersInStep, AnswersFirst

(* Steps that leave the frames sent and handled and the decryption alone.   *)
LEMMA FramesUnchanged ==
  ASSUME FramesInStep, UNCHANGED <<iv, session, sent, handled>>, AnswersInStep'
  PROVE  FramesInStep'
<1>1. StreamInStep'
  BY DEF FramesInStep, StreamInStep
<1>2. HandledNow' = HandledNow /\ Begin(HandledNow + 1)' = Begin(HandledNow + 1)
  BY DEF HandledNow, Begin, StreamLength
<1>3. NextInStep'
  BY <1>2 DEF FramesInStep, NextInStep
<1>4. QED
  BY <1>1, <1>3 DEF FramesInStep

LEMMA FramesSent ==
  ASSUME BufferInStep, FramesInStep, NEW l \in Length, sent' = Append(sent, Following(l)),
         UNCHANGED <<iv, count, pc, session, requests, handled>>
  PROVE  FramesInStep' /\ Len(sent') = Len(sent) + 1
<1>1. TypeOK /\ sent \in Seq(SentFrames) /\ StreamInStep /\ NextInStep /\ AnswersInStep
  BY DEF BufferInStep, TypeOK, FramesInStep
<1>2. /\ StreamInStep' /\ Len(sent') = Len(sent) + 1
      /\ \A k \in 1..(Len(sent) + 1) : Begin(k)' = Begin(k)
  BY <1>1, StreamAppend
<1>3. HandledNow \in Nat /\ HandledNow' = HandledNow /\ Len(sent) \in Nat
  BY <1>1, HandledType DEF HandledNow
<1>4. HandledNow <= Len(sent) /\ iv.n = Begin(HandledNow + 1)
  BY <1>1 DEF NextInStep
<1>5. Begin(HandledNow + 1)' = Begin(HandledNow + 1)
  <2>1. PICK k \in 1..(Len(sent) + 1) : k = HandledNow + 1
    BY <1>3, <1>4
  <2>2. Begin(k)' = Begin(k)
    BY <1>2
  <2>3. QED
    BY <1>3, <2>1, <2>2 DEF Begin
<1>6. NextInStep'
  BY <1>1, <1>2, <1>3, <1>4, <1>5 DEF NextInStep
<1>7. AnswersInStep'
  BY <1>1, <1>3 DEF AnswersInStep, AnswersFirst
<1>8. QED
  BY <1>2, <1>6, <1>7 DEF FramesInStep

(* The frame that begins with the buffer is the next one to be handled.     *)
LEMMA NextFrame ==
  ASSUME BufferInStep, FramesInStep, ParseFrame
  PROVE  /\ Frame = HandledNow + 1 /\ Frame \in 1..Len(sent)
         /\ handled' = Append(handled, <<session, HandledNow + 1>>)
         /\ iv'.n = sent[Frame].at + Padded(sent[Frame].len)
<1> DEFINE h == HandledNow
           used == RoundUp(sent[Frame].len)
<1>1. TypeOK /\ sent \in Seq(SentFrames) /\ buf \in Seq(Bytes) /\ Len(buf) \in Nat /\ iv.n \in Nat
      /\ Len(sent) \in Nat
  BY DEF BufferInStep, TypeOK, Bytes
<1>2. Frame \in 1..Len(sent) /\ Begins(Frame)
  BY DEF ParseFrame, Readable, Frame
<1>3. h \in Nat /\ h <= Len(sent) /\ iv.n = Begin(h + 1)
  BY <1>1, HandledType DEF FramesInStep, NextInStep
<1>4. Len(buf) > 0
  <2>1. RoundDown(Len(buf)) \in 0..Len(buf) /\ RoundDown(Len(buf)) > 0
    BY <1>1, DownFits DEF ParseFrame, Blocks
  <2>2. QED
    BY <1>1, <2>1
<1>5. Head(buf) = Byte(iv.n + 1)
  <2>1. Head(buf) = buf[1] /\ 1 \in 1..Len(buf)
    BY <1>1, <1>4
  <2>2. QED
    BY <2>1 DEF BufferInStep, IvInStep
<1>6. \A k \in 1..Len(sent) : sent[k].at \in Nat /\ Padded(sent[k].len) \in Nat \ {0}
                              /\ Padded(sent[k].len) = RoundUp(sent[k].len)
                              /\ sent[k].len \in Nat \ {0}
  BY <1>1, SentTypes
<1>7. sent[Frame].at = iv.n
  <2>1. sent[Frame].at + 1 = iv.n + 1
    BY <1>2, <1>5 DEF Begins, Byte
  <2>2. QED
    BY <1>1, <1>2, <1>6, <2>1
<1>8. h < Len(sent)
  <2>1. SUFFICES ASSUME h = Len(sent) PROVE FALSE
    BY <1>1, <1>3
  <2>2. Len(sent) \in 1..Len(sent) /\ sent # <<>>
    BY <1>1, <1>2
  <2>3. iv.n = sent[Len(sent)].at + Padded(sent[Len(sent)].len)
    BY <1>1, <1>3, <2>1, <2>2 DEF Begin, StreamLength
  <2>4. sent[Frame].at <= sent[Len(sent)].at
    <3>1. CASE Frame = Len(sent)
      BY <3>1, <2>2, <1>6
    <3>2. CASE Frame < Len(sent)
      <4>1. sent[Frame].at < sent[Len(sent)].at
        BY <1>2, <2>2, <3>2 DEF FramesInStep, StreamInStep
      <4>2. QED
        BY <1>2, <1>6, <2>2, <4>1
    <3>3. QED
      BY <1>1, <1>2, <3>1, <3>2
  <2>5. QED
    BY <1>2, <1>6, <1>7, <2>2, <2>3, <2>4
<1>9. Frame = h + 1
  <2>1. h + 1 \in 1..Len(sent) /\ sent[h + 1].at = iv.n
    BY <1>1, <1>3, <1>8 DEF Begin
  <2>2. ~(Frame < h + 1)
    BY <1>2, <1>6, <1>7, <2>1 DEF FramesInStep, StreamInStep
  <2>3. ~(h + 1 < Frame)
    BY <1>2, <1>6, <1>7, <2>1 DEF FramesInStep, StreamInStep
  <2>4. QED
    BY <1>1, <1>2, <1>3, <2>2, <2>3
<1>10. handled' = Append(handled, <<session, h + 1>>)
  BY <1>5, <1>9 DEF ParseFrame, Byte
<1>11. used \in 1..Len(buf)
  <2>1. sent[Frame].len <= RoundDown(Len(buf))
    BY DEF ParseFrame, Blocks
  <2>2. sent[Frame].len \in Nat \ {0}
    BY <1>2, <1>6
  <2>3. used \in 1..RoundDown(Len(buf))
    BY <1>1, <2>1, <2>2, UpFits
  <2>4. RoundDown(Len(buf)) \in 0..Len(buf)
    BY <1>1, DownFits
  <2>5. QED
    BY <1>1, <2>3, <2>4
<1>12. iv'.n = iv.n + used
  <2>1. iv' = buf[used]
    BY DEF ParseFrame, Consume, IvAfter
  <2>2. buf[used] = Byte(iv.n + used)
    BY <1>11 DEF BufferInStep, IvInStep
  <2>3. QED
    BY <2>1, <2>2 DEF Byte
<1>13. QED
  BY <1>2, <1>6, <1>7, <1>9, <1>10, <1>12

LEMMA HandledOneMore ==
  ASSUME BufferInStep, FramesInStep, ParseFrame
  PROVE  HandledNow' = HandledNow + 1
<1> DEFINE h == HandledNow
<1>1. handled \in Seq((1..MaxSessions) \X Nat) /\ session \in 1..MaxSessions
  BY DEF BufferInStep, TypeOK
<1>2. handled' = Append(handled, <<session, h + 1>>) /\ session' = session
  BY NextFrame DEF ParseFrame, device
<1>3. h \in Nat /\ h = Cardinality(OfSession(handled, session))
  BY HandledType DEF BufferInStep
<1>4. <<session, h + 1>> \in (1..MaxSessions) \X Nat /\ <<session, h + 1>>[1] = session
  BY <1>1, <1>3
<1>5. Cardinality(OfSession(handled', session)) = Cardinality(OfSession(handled, session)) + 1
  BY <1>1, <1>2, <1>4, OfSessionAppend
<1>6. HandledNow' = Cardinality(OfSession(handled', session))
  BY <1>2 DEF HandledNow, OfSession
<1>7. QED
  BY <1>3, <1>5, <1>6

LEMMA FramesParse == BufferInStep /\ FramesInStep /\ ParseFrame => FramesInStep'
<1> SUFFICES ASSUME BufferInStep, FramesInStep, ParseFrame PROVE FramesInStep'
  OBVIOUS
<1> DEFINE h == HandledNow
<1>1. TypeOK /\ sent \in Seq(SentFrames) /\ Len(sent) \in Nat /\ session \in Nat
      /\ handled \in Seq((1..MaxSessions) \X Nat) /\ session \in 1..MaxSessions
      /\ count \in Nat /\ requests \in Nat
  BY ReceiveAssumption DEF BufferInStep, TypeOK, ReceiveAssumption
<1>2. /\ Frame = h + 1 /\ Frame \in 1..Len(sent)
      /\ handled' = Append(handled, <<session, h + 1>>)
      /\ iv'.n = sent[Frame].at + Padded(sent[Frame].len)
  BY NextFrame
<1>3. pc = "parse" /\ count' = count + 1 /\ UNCHANGED <<pc, session, sent, requests>>
  BY DEF ParseFrame, device
<1>4. h \in Nat /\ h = Cardinality(OfSession(handled, session))
  BY <1>1, HandledType
<1>5. HandledNow' = h + 1
  BY HandledOneMore
<1>6. StreamInStep'
  BY <1>3 DEF FramesInStep, StreamInStep
<1>7. iv'.n = Begin(h + 2)
  <2>1. CASE h + 2 <= Len(sent)
    <3>1. h + 2 \in 1..Len(sent) /\ h + 2 > 1 /\ (h + 2) - 1 = h + 1
      BY <1>1, <1>4, <2>1
    <3>2. sent[h + 2].at = sent[h + 1].at + Padded(sent[h + 1].len)
      BY <3>1 DEF FramesInStep, StreamInStep
    <3>3. QED
      BY <1>2, <2>1, <3>2 DEF Begin
  <2>2. CASE ~(h + 2 <= Len(sent))
    <3>1. h + 1 = Len(sent) /\ sent # <<>>
      BY <1>1, <1>2, <1>4, <2>2
    <3>2. QED
      BY <1>2, <2>2, <3>1 DEF Begin, StreamLength
  <2>3. QED
    BY <2>1, <2>2
<1>8. NextInStep'
  <2>1. \A i \in 1..Len(handled') : handled'[i][1] <= session'
    <3>1. TAKE i \in 1..Len(handled')
    <3>2. CASE i <= Len(handled)
      BY <1>1, <1>2, <1>3, <3>2 DEF FramesInStep, NextInStep
    <3>3. CASE i = Len(handled) + 1
      BY <1>1, <1>2, <1>3, <3>3
    <3>4. Len(handled') = Len(handled) + 1 /\ Len(handled) \in Nat
      BY <1>1, <1>2
    <3>5. i <= Len(handled) \/ i = Len(handled) + 1
      BY <3>4
    <3>6. QED
      BY <3>2, <3>3, <3>5
  <2>2. HandledNow' <= Len(sent')
    BY <1>1, <1>2, <1>3, <1>4, <1>5
  <2>3. iv'.n = Begin(HandledNow + 1)'
    <3>1. (h + 1) + 1 = h + 2
      BY <1>4
    <3>2. Begin(HandledNow + 1)' = Begin(h + 2)
      BY <1>3, <1>5, <3>1 DEF Begin, StreamLength
    <3>3. QED
      BY <1>7, <3>2
  <2>4. QED
    BY <2>1, <2>2, <2>3 DEF NextInStep
<1>9. AnswersInStep'
  BY <1>1, <1>3, <1>4, <1>5 DEF FramesInStep, AnswersInStep, AnswersFirst
<1>10. QED
  BY <1>6, <1>8, <1>9 DEF FramesInStep

(* No frame of the new session has been handled.                            *)
LEMMA NoneHandledYet ==
  ASSUME BufferInStep, FramesInStep, Reconnect
  PROVE  HandledNow' = 0
<1>1. handled' = handled /\ session' = session + 1 /\ session \in Nat
      /\ handled \in Seq((1..MaxSessions) \X Nat)
  BY DEF Reconnect, BufferInStep, TypeOK
<1>2. OfSession(handled, session + 1) = {}
  <2>1. SUFFICES ASSUME NEW i \in DOMAIN handled, handled[i][1] = session + 1 PROVE FALSE
    BY DEF OfSession
  <2>2. i \in 1..Len(handled)
    BY <1>1
  <2>3. handled[i][1] <= session
    BY <2>2 DEF FramesInStep, NextInStep
  <2>4. QED
    BY <1>1, <2>1, <2>3
<1>3. HandledNow' = Cardinality(OfSession(handled, session + 1))
  BY <1>1 DEF HandledNow, OfSession
<1>4. QED
  BY <1>2, <1>3, FS_EmptySet

LEMMA FramesReconnect == BufferInStep /\ FramesInStep /\ Reconnect => FramesInStep'
<1> SUFFICES ASSUME BufferInStep, FramesInStep, Reconnect PROVE FramesInStep'
  OBVIOUS
<1>1. /\ handled' = handled /\ session' = session + 1 /\ session \in Nat
      /\ sent' = <<>> /\ requests' = 0 /\ iv'.n = 0 /\ pc' = "send"
      /\ handled \in Seq((1..MaxSessions) \X Nat)
  BY DEF Reconnect, BufferInStep, TypeOK
<1>2. HandledNow' = 0
  BY NoneHandledYet
<1>3. Begin(HandledNow + 1)' = 0
  BY <1>1, <1>2 DEF Begin, StreamLength
<1>4. \A i \in 1..Len(handled') : handled'[i][1] <= session'
  <2>1. TAKE i \in 1..Len(handled')
  <2>2. handled[i] \in (1..MaxSessions) \X Nat
    BY <1>1
  <2>3. handled[i][1] \in Nat /\ handled[i][1] <= session
    BY <1>1, <2>2 DEF FramesInStep, NextInStep
  <2>4. QED
    BY <1>1, <2>3
<1>5. StreamInStep' /\ NextInStep'
  BY <1>1, <1>2, <1>3, <1>4 DEF StreamInStep, NextInStep
<1>6. AnswersInStep'
  BY <1>1, <1>2 DEF AnswersInStep, AnswersFirst
<1>7. QED
  BY <1>5, <1>6 DEF FramesInStep

LEMMA StepFrames == BufferInStep /\ FramesInStep /\ [Next]_vars => FramesInStep'
<1> SUFFICES ASSUME BufferInStep, FramesInStep, [Next]_vars PROVE FramesInStep'
  OBVIOUS
<1> USE DEF buffer, device
<1>1. HandledNow \in Nat /\ count \in Nat /\ requests \in Nat /\ AnswersInStep
  BY HandledType, ReceiveAssumption
     DEF BufferInStep, TypeOK, FramesInStep, ReceiveAssumption
<1>2. ASSUME UNCHANGED <<session, handled>> PROVE HandledNow' = HandledNow
  BY <1>2 DEF HandledNow
<1>3. ASSUME NEW l \in Length, Answer(l) \/ Extra(l) PROVE FramesInStep'
  BY <1>3, FramesSent DEF Answer, Extra
<1>4. CASE Request
  <2>1. AnswersInStep'
    BY <1>1, <1>2, <1>4 DEF Request, AnswersInStep, AnswersFirst
  <2>2. QED
    BY <1>4, <2>1, FramesUnchanged DEF Request
<1>5. CASE Return
  <2>1. AnswersInStep'
    BY <1>1, <1>2, <1>5 DEF Return, GoOn, AnswersInStep, AnswersFirst
  <2>2. QED
    BY <1>5, <2>1, FramesUnchanged DEF Return
<1>6. CASE Expand \/ Recv \/ ParseLater
  <2>1. AnswersInStep'
    BY <1>1, <1>2, <1>6 DEF Expand, Recv, ParseLater, AnswersInStep, AnswersFirst
  <2>2. QED
    BY <1>6, <2>1, FramesUnchanged DEF Expand, Recv, ParseLater
<1>7. CASE SendFails \/ TooLong \/ RecvFails \/ ParseError
  <2>1. pc' = "closed" /\ UNCHANGED <<iv, session, sent, handled>>
    BY <1>7 DEF SendFails, TooLong, RecvFails, ParseError, Stop
  <2>2. AnswersInStep'
    BY <2>1 DEF AnswersInStep, AnswersFirst
  <2>3. QED
    BY <2>1, <2>2, FramesUnchanged
<1>8. CASE ParseFrame
  BY <1>8, FramesParse
<1>9. CASE Reconnect
  BY <1>9, FramesReconnect
<1>10. CASE UNCHANGED vars
  <2>1. AnswersInStep'
    BY <1>1, <1>2, <1>10 DEF vars, AnswersInStep, AnswersFirst
  <2>2. QED
    BY <1>10, <2>1, FramesUnchanged DEF vars
<1>11. QED
  BY <1>3, <1>4, <1>5, <1>6, <1>7, <1>8, <1>9, <1>10 DEF Next, Loop, Faults

THEOREM FramesAreInStep == Spec => []FramesInStep
BY InitFrames, StepFrames, BufferIsInStep, PTL DEF Spec

(* receiveLoop returns only after an answer to every request of the session,*)
(* however the stream is cut into pieces and whatever else the device sends.*)
THEOREM AnswersComeFirst == Spec => []AnswersFirst
<1>1. FramesInStep => AnswersFirst
  BY DEF FramesInStep, AnswersInStep
<1>2. QED
  BY <1>1, FramesAreInStep, PTL

-----------------------------------------------------------------------------
(* The refinement: the frames sent and not yet handled are those that wait  *)
(* in FrameChannel. A frame that the device sends is appended, a frame that *)
(* is parsed is the first one, a new session begins without one, and every  *)
(* other step leaves the channel as it is.                                  *)
ChannelVars == <<session, Waiting, handled>>

LEMMA WaitingLength ==
  ASSUME BufferInStep, FramesInStep
  PROVE  /\ Len(sent) - HandledNow \in Nat /\ Waiting \in Seq(Nat \X Nat)
         /\ Len(Waiting) = Len(sent) - HandledNow
         /\ Channel!Sent = Len(sent)
<1>1. HandledNow \in Nat /\ HandledNow <= Len(sent) /\ Len(sent) \in Nat /\ session \in Nat
  BY HandledType DEF BufferInStep, TypeOK, FramesInStep, NextInStep
<1>2. Len(sent) - HandledNow \in Nat
  BY <1>1
<1>3. Waiting \in Seq(Nat \X Nat) /\ Len(Waiting) = Len(sent) - HandledNow
  BY <1>1, <1>2 DEF Waiting
<1>4. Channel!Sent = HandledNow + Len(Waiting)
  BY DEF Channel!Sent, HandledNow, Cardinality, Channel!Cardinality
<1>5. QED
  BY <1>1, <1>2, <1>3, <1>4

LEMMA ChannelInit == Init => Channel!Init
<1> SUFFICES ASSUME Init PROVE Channel!Init
  OBVIOUS
<1>1. HandledNow = 0
  <2>1. OfSession(handled, session) = {}
    BY DEF Init, OfSession
  <2>2. QED
    BY <2>1, FS_EmptySet DEF HandledNow, OfSession
<1>2. Waiting = <<>>
  BY <1>1 DEF Init, Waiting
<1>3. QED
  BY <1>2 DEF Init, Channel!Init

LEMMA ChannelSend ==
  ASSUME BufferInStep, FramesInStep, NEW l \in Length, sent' = Append(sent, Following(l)),
         UNCHANGED <<session, handled>>
  PROVE  Channel!Send
<1> DEFINE n == Len(sent) - HandledNow
<1>1. n \in Nat /\ Waiting \in Seq(Nat \X Nat) /\ Len(Waiting) = n /\ Channel!Sent = Len(sent)
  BY WaitingLength
<1>2. HandledNow' = HandledNow /\ HandledNow \in Nat /\ Len(sent) \in Nat
  BY HandledType DEF HandledNow, BufferInStep, TypeOK
<1>3. Len(sent') = Len(sent) + 1
  BY DEF BufferInStep, TypeOK
<1>4. Len(sent') - HandledNow' = n + 1
  BY <1>2, <1>3
<1>5. Waiting' = [i \in 1..(n + 1) |-> <<session, HandledNow + i>>]
  BY <1>2, <1>4 DEF Waiting
<1>6. Waiting = [i \in 1..n |-> <<session, HandledNow + i>>]
  BY DEF Waiting
<1>7. HandledNow + (n + 1) = Len(sent) + 1
  BY <1>2
<1> HIDE DEF n
<1>8. Waiting' = Append(Waiting, <<session, Len(sent) + 1>>)
  BY <1>1, <1>5, <1>6, <1>7
<1>9. QED
  BY <1>1, <1>8 DEF Channel!Send

LEMMA ChannelHandle ==
  ASSUME BufferInStep, FramesInStep, ParseFrame, HandledNow' = HandledNow + 1
  PROVE  Channel!Handle
<1> DEFINE n == Len(sent) - HandledNow
<1>1. n \in Nat /\ Waiting \in Seq(Nat \X Nat) /\ Len(Waiting) = n
  BY WaitingLength
<1>2. HandledNow \in Nat /\ Len(sent) \in Nat
  BY HandledType DEF BufferInStep, TypeOK
<1>3. /\ HandledNow + 1 \in 1..Len(sent)
      /\ handled' = Append(handled, <<session, HandledNow + 1>>)
      /\ UNCHANGED <<session, sent>>
  BY NextFrame DEF ParseFrame, device
<1>4. n > 0 /\ Len(sent') - HandledNow' = n - 1
  BY <1>2, <1>3
<1>5. Waiting' = [i \in 1..(n - 1) |-> <<session, HandledNow + 1 + i>>]
  BY <1>3, <1>4 DEF Waiting
<1>6. Waiting = [i \in 1..n |-> <<session, HandledNow + i>>]
  BY DEF Waiting
<1> HIDE DEF n
<1>7. Waiting # <<>> /\ Head(Waiting) = <<session, HandledNow + 1>>
  <2>1. Waiting # <<>> /\ 1 \in 1..n
    BY <1>1, <1>4
  <2>2. Head(Waiting) = Waiting[1]
    BY <1>1, <2>1
  <2>3. Waiting[1] = <<session, HandledNow + 1>>
    BY <1>6, <2>1
  <2>4. QED
    BY <2>1, <2>2, <2>3
<1>8. Tail(Waiting) \in Seq(Nat \X Nat) /\ Len(Tail(Waiting)) = n - 1
      /\ \A i \in 1..(n - 1) : Tail(Waiting)[i] = Waiting[i + 1]
  BY <1>1, <1>7, HeadTailProperties
<1>9. Waiting' \in Seq(Nat \X Nat) /\ Len(Waiting') = n - 1
  <2>1. session \in Nat /\ n - 1 \in Nat
    BY <1>1, <1>4 DEF BufferInStep, TypeOK
  <2>2. \A i \in 1..(n - 1) : <<session, HandledNow + 1 + i>> \in Nat \X Nat
    BY <1>2, <2>1
  <2>3. QED
    BY <1>5, <2>1, <2>2
<1>10. \A i \in 1..(n - 1) : Waiting'[i] = Tail(Waiting)[i]
  <2>1. TAKE i \in 1..(n - 1)
  <2>2. i + 1 \in 1..n /\ HandledNow + (i + 1) = HandledNow + 1 + i
    BY <1>1, <1>2
  <2>3. Waiting[i + 1] = <<session, HandledNow + 1 + i>>
    BY <1>6, <2>2
  <2>4. Waiting'[i] = <<session, HandledNow + 1 + i>>
    BY <1>5
  <2>5. QED
    BY <1>8, <2>3, <2>4
<1>11. Waiting' = Tail(Waiting)
  BY <1>8, <1>9, <1>10, SeqEqual
<1>12. QED
  BY <1>3, <1>7, <1>11 DEF Channel!Handle

LEMMA ChannelStep ==
  ASSUME BufferInStep, FramesInStep, [Next]_vars
  PROVE  [Channel!Next]_ChannelVars
<1> USE DEF buffer, device
<1>1. ASSUME NEW l \in Length, Answer(l) \/ Extra(l) PROVE Channel!Send
  BY <1>1, ChannelSend DEF Answer, Extra
<1>2. CASE ParseFrame
  <2>1. HandledNow' = HandledNow + 1
    BY <1>2, HandledOneMore
  <2>2. QED
    BY <1>2, <2>1, ChannelHandle DEF Channel!Next
<1>3. CASE Reconnect
  <2>1. HandledNow' = 0 /\ sent' = <<>>
    BY <1>3, NoneHandledYet DEF Reconnect
  <2>2. Waiting' = <<>>
    BY <2>1 DEF Waiting
  <2>3. Channel!NewSession
    BY <1>3, <2>2 DEF Channel!NewSession, Reconnect
  <2>4. QED
    BY <2>3 DEF Channel!Next
<1>4. CASE UNCHANGED <<session, sent, handled>>
  <2>1. HandledNow' = HandledNow
    BY <1>4 DEF HandledNow
  <2>2. Waiting' = Waiting
    BY <1>4, <2>1 DEF Waiting
  <2>3. QED
    BY <1>4, <2>2 DEF ChannelVars
<1>5. QED
  BY <1>1, <1>2, <1>3, <1>4
     DEF Next, Loop, Faults, Request, SendFails, Return, Expand, TooLong, Recv, RecvFails,
         ParseLater, ParseError, Stop, vars, Channel!Next

(* receiveLoop implements the channel: the frames of a session are handled  *)
(* once each and in order, and none of an earlier session is handled later. *)
THEOREM LoopIsChannel == Spec => Frames
<1>1. Init => Channel!Init
  BY ChannelInit
<1>2. BufferInStep /\ FramesInStep /\ [Next]_vars => [Channel!Next]_ChannelVars
  BY ChannelStep
<1>3. QED
  BY <1>1, <1>2, BufferIsInStep, FramesAreInStep, PTL DEF Spec, Frames, Channel!Spec, ChannelVars
=============================================================================
