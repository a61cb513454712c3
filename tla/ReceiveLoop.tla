---------------------------- MODULE ReceiveLoop ----------------------------
(***************************************************************************)
(* receiveLoop: from the bytes of the socket to the frames that            *)
(* processReceiveBuffer handles, and the way mainLoop calls it.            *)
(*                                                                         *)
(* A byte of the stream is [s, n]: session and position. The socket hands  *)
(* out the stream in pieces of any size. The bytes received and not yet    *)
(* used up are kept in a static buffer, across calls and sessions; the     *)
(* blocks are decrypted with the block before them, the last one used up   *)
(* (ucDecryptionIV). A frame starts on a block of its own, padded by the   *)
(* device. Bytes decrypted with the wrong block, or from the middle of a   *)
(* frame, are no frame: the header has no magic then.                      *)
(***************************************************************************)
EXTENDS Integers, Sequences, FiniteSets

CONSTANTS
  Block,           \* AES_BLOCK_SIZE
  Chunk,           \* 4096
  MaxFrame,        \* RSCP_MAX_FRAME_LENGTH
  Length,          \* the lengths of the frames the device sends
  MaxSessions,     \* bound: number of sessions
  MaxRequests,     \* bound: requests in a session
  MaxExtra         \* bound: frames in a session that nobody asked for

ASSUME ReceiveAssumption ==
  /\ Block \in Nat \ {0} /\ Chunk \in Nat \ {0} /\ MaxFrame \in Nat
  /\ Length \subseteq 1..MaxFrame
  /\ MaxSessions \in Nat \ {0} /\ MaxRequests \in Nat /\ MaxExtra \in Nat

VARIABLES
  buf,             \* the first iReceivedBytes bytes of vecDynamicBuffer
  size,            \* vecDynamicBuffer.size()
  iv,              \* ucDecryptionIV: the last byte of the last block used up
  count,           \* iReceivedRscpFrames
  pc,              \* "send", "head", "recv", "parse" or "closed"
  session,         \* number of the session
  sent,            \* the frames of this session: where each begins, and its length
  received,        \* number of bytes of this session that recv has handed out
  requests, extra, \* frames of this session asked for, and sent without
  handled,         \* history: the frames handled, session and number
  tooLong          \* history: what was in the buffer when its size was exceeded

buffer == <<buf, size, iv>>
device == <<session, sent, received, extra>>
vars == <<buffer, count, pc, device, requests, handled, tooLong>>

RoundDown(n) == (n \div Block) * Block
RoundUp(n) == RoundDown(n + Block - 1)

\* The device fills the last block of a frame up.
Padded(l) == l + (-l % Block)

\* How long the stream is; the next frame begins where it ends.
StreamLength == IF sent = <<>> THEN 0 ELSE sent[Len(sent)].at + Padded(sent[Len(sent)].len)
Following(l) == [at |-> StreamLength, len |-> l]

Byte(n) == [s |-> session, n |-> n]

Init ==
  /\ buf = <<>> /\ size = 0 /\ iv = [s |-> 1, n |-> 0]
  /\ count = 0 /\ pc = "send"
  /\ session = 1 /\ sent = <<>> /\ received = 0 /\ requests = 0 /\ extra = 0
  /\ handled = <<>> /\ tooLong = {}

-----------------------------------------------------------------------------
(* The device: one frame for each request, and now and then one more.      *)
Answer(l) ==
  /\ pc # "closed" /\ Len(sent) < requests + extra
  /\ sent' = Append(sent, Following(l))
  /\ UNCHANGED <<buffer, count, pc, session, received, requests, extra, handled, tooLong>>

Extra(l) ==
  /\ pc # "closed" /\ extra < MaxExtra
  /\ extra' = extra + 1
  /\ sent' = Append(sent, Following(l))
  /\ UNCHANGED <<buffer, count, pc, session, received, requests, handled, tooLong>>

-----------------------------------------------------------------------------
(* mainLoop sends a request and calls receiveLoop.                         *)
Request ==
  /\ pc = "send" /\ requests < MaxRequests
  /\ requests' = requests + 1
  /\ count' = 0
  /\ pc' = "head"
  /\ UNCHANGED <<buffer, device, handled, tooLong>>

\* SocketSendData fails: receiveLoop is not called.
SendFails ==
  /\ pc = "send"
  /\ pc' = "closed"
  /\ UNCHANGED <<buffer, count, device, requests, handled, tooLong>>

(* receiveLoop.                                                            *)
GoOn_AnyBytes == buf # <<>>                                      \* mutant
GoOn_Always == TRUE                                              \* mutant
GoOn == buf # <<>> \/ count = 0

Return ==
  /\ pc = "head" /\ ~GoOn
  /\ pc' = "send"
  /\ UNCHANGED <<buffer, count, device, requests, handled, tooLong>>

Full_Early == size - Len(buf) <= Chunk                           \* mutant
Full == size - Len(buf) < Chunk

Expand ==
  /\ pc = "head" /\ GoOn
  /\ Full => size <= MaxFrame
  /\ size' = IF Full THEN size + Chunk ELSE size
  /\ pc' = "recv"
  /\ UNCHANGED <<buf, iv, count, device, requests, handled, tooLong>>

\* bStopExecution: the buffer is emptied, so that the next session starts anew.
Emptied_Not == UNCHANGED <<buf, size>>                           \* mutant
Emptied == buf' = <<>> /\ size' = 0

Stop ==
  /\ Emptied
  /\ pc' = "closed"
  /\ UNCHANGED <<iv, count, device, requests, handled>>

TooLong ==
  /\ pc = "head" /\ GoOn /\ Full /\ size > MaxFrame
  /\ tooLong' = tooLong \cup {Len(buf)}
  /\ Stop

\* recv hands out what has arrived, as much of it as it likes. EAGAIN, EWOULDBLOCK
\* and EINTR change nothing.
Room == size - Len(buf)

Recv ==
  /\ pc = "recv"
  /\ \E n \in 1..Room :
       /\ received + n <= StreamLength
       /\ buf' = buf \o [i \in 1..n |-> Byte(received + i)]
       /\ received' = received + n
  /\ pc' = "parse"
  /\ UNCHANGED <<size, iv, count, session, sent, extra, requests, handled, tooLong>>

\* An error of recv, or the device closes the connection.
RecvFails == pc = "recv" /\ Stop /\ UNCHANGED tooLong

\* The decrypted blocks, and the frame that begins with them.
Blocks == RoundDown(Len(buf))
Decrypts == iv.s = Head(buf).s /\ iv.n + 1 = Head(buf).n
Begins(k) == Head(buf) = Byte(sent[k].at + 1)
Readable == Decrypts /\ \E k \in 1..Len(sent) : Begins(k)
Frame == CHOOSE k \in 1..Len(sent) : Begins(k)

\* The frame is complete: it is handled, and its blocks are used up.
IvAfter(used) == buf[used]

Consume_Not(used) == UNCHANGED <<buf, iv>>                       \* mutant
Consume(used) ==
  /\ iv' = IvAfter(used)
  /\ buf' = SubSeq(buf, used + 1, Len(buf))

ParseFrame ==
  /\ pc = "parse" /\ Blocks > 0
  /\ Readable /\ sent[Frame].len <= Blocks
  /\ Consume(RoundUp(sent[Frame].len))
  /\ count' = count + 1
  /\ handled' = Append(handled, <<Head(buf).s, Frame>>)
  /\ UNCHANGED <<size, pc, device, requests, tooLong>>

\* Not a block, or not enough of the next frame.
ParseLater ==
  /\ pc = "parse"
  /\ Blocks = 0 \/ (Blocks > 0 /\ Readable /\ sent[Frame].len > Blocks)
  /\ pc' = "head"
  /\ UNCHANGED <<buffer, count, device, requests, handled, tooLong>>

\* Not a frame: garbled on its way, or decrypted wrongly.
ParseError == pc = "parse" /\ Blocks > 0 /\ Stop /\ UNCHANGED tooLong

\* main: the socket is closed and a new session begins.
Reconnect ==
  /\ pc = "closed" /\ session < MaxSessions
  /\ session' = session + 1
  /\ sent' = <<>> /\ received' = 0 /\ requests' = 0 /\ extra' = 0
  /\ iv' = [s |-> session + 1, n |-> 0]
  /\ pc' = "send"
  /\ UNCHANGED <<buf, size, count, handled, tooLong>>

Loop == Request \/ Return \/ Expand \/ TooLong \/ Recv \/ ParseFrame \/ ParseLater
Faults == SendFails \/ RecvFails \/ ParseError

Next ==
  \/ Loop \/ Faults \/ Reconnect
  \/ \E l \in Length : Answer(l) \/ Extra(l)

Spec == Init /\ [][Next]_vars

\* The main thread goes on, and the device answers.
FairSpec == Spec /\ WF_vars(Loop) /\ WF_vars(\E l \in Length : Answer(l))

-----------------------------------------------------------------------------
(* Properties.                                                             *)

Bytes == [s : 1..MaxSessions, n : Nat]
SentFrames == [at : Nat, len : Length]

TypeOK ==
  /\ buf \in Seq(Bytes) /\ size \in Nat /\ Len(buf) <= size /\ iv \in Bytes
  /\ count \in Nat
  /\ pc \in {"send", "head", "recv", "parse", "closed"}
  /\ session \in 1..MaxSessions /\ sent \in Seq(SentFrames) /\ received \in Nat
  /\ requests \in 0..MaxRequests /\ extra \in 0..MaxExtra
  /\ handled \in Seq((1..MaxSessions) \X Nat)
  /\ tooLong \subseteq Nat

\* receiveLoop does not return before the buffer is used up, and it leaves nothing
\* behind when it stops: a request is never sent, and a session never begun, over
\* the remains of an earlier answer (the buffer is static).
NothingLeft == pc \in {"send", "closed"} => buf = <<>>

\* The buffer holds the stream of the session from right after the block that the
\* next decryption starts from, without a gap, up to what recv has handed out.
IvInStep ==
  /\ pc # "closed" => iv.s = session /\ iv.n % Block = 0
  /\ \A i \in 1..Len(buf) : buf[i] = Byte(iv.n + i)
  /\ pc # "closed" => received = iv.n + Len(buf)

\* A buffer is found too long only when it holds more than the chunks that the
\* longest frame fills: what fits into them is received, however it is cut into
\* pieces and whatever was received before.
NoFalseAlarm == \A n \in tooLong : n > (MaxFrame \div Chunk) * Chunk

\* The frames of a session are handled once each and in order: the loop implements
\* the channel, in which those sent and not handled yet are waiting.
HandledNow == Cardinality({i \in DOMAIN handled : handled[i][1] = session})
Waiting == [i \in 1..(Len(sent) - HandledNow) |-> <<session, HandledNow + i>>]
Channel == INSTANCE FrameChannel WITH session <- session, waiting <- Waiting, handled <- handled
Frames == Channel!Spec

\* At every request all the earlier ones of the session have their answer.
AnswersFirst == pc = "send" => HandledNow >= requests

\* A call of receiveLoop comes to an end.
LoopEnds == pc = "head" ~> pc \in {"send", "closed"}

\* The static buffer is used up at every return, and holds in between nothing but
\* the stream of the session from the block that the next decryption starts from.
BufferInStep == TypeOK /\ NothingLeft /\ IvInStep

=============================================================================
