----------------------------- MODULE WebSocket -----------------------------
(***************************************************************************)
(* WebSocket frames: net/http/WebSocketFormat.h builds and extracts them,  *)
(* and the data callback of HttpServer::handleHttp takes as many as have   *)
(* arrived and puts messages together.                                     *)
(*                                                                         *)
(* The peer splits a message the way the callback understands it: some     *)
(* continuation frames and then a final text or binary frame, with control *)
(* frames anywhere between.  (A text frame without FIN, the way RFC 6455   *)
(* starts a split message, runs into assert(false).)                       *)
(*                                                                         *)
(* Frames are given byte by byte but never put together: payloads of the   *)
(* 16 and 64 bit lengths are large.  The mask is any four bytes; one set   *)
(* stands for rand().                                                      *)
(***************************************************************************)
EXTENDS Integers, Sequences, FiniteSets, Bitwise

CONSTANTS
    WsLens,             \* payload lengths
    WsOpcodes,          \* opcodes the peer sends
    MaxFrames           \* bound: frames sent

ASSUME WebSocketAssumption ==
    WsLens \subseteq Nat /\ WsOpcodes \subseteq 0..15 /\ MaxFrames \in Nat

CONTINUATION_FRAME == 0
TEXT_FRAME == 1
BINARY_FRAME == 2
CLOSE_FRAME == 8
PING_FRAME == 9
PONG_FRAME == 10

Control == {CLOSE_FRAME, PING_FRAME, PONG_FRAME}
Data == {TEXT_FRAME, BINARY_FRAME}

VARIABLES
    wsMasking,          \* the peer masks its frames
    wsFrames,           \* history: the frames sent, in order
    wsArrived,          \* bytes of them in the receive buffer or taken from it
    wsTaken,            \* bytes taken from the receive buffer
    wsInLoop,           \* the data callback is in its loop
    cacheFrame,         \* parts of the message being put together
    wsMessages          \* history: what the user's callback got

wsVars == <<wsMasking, wsFrames, wsArrived, wsTaken, wsInLoop, cacheFrame, wsMessages>>

-----------------------------------------------------------------------------
(* wsFrameBuild *)

\* Byte j of the payload of frame f.
PayloadByte(f, j) == (7 * f.len + 3 * f.opcode + j) % 256

lengthBytes(len) ==
    IF len <= 125 THEN <<len>>
    ELSE IF len <= 65535 THEN <<126, (len \div 256) % 256, len % 256>>
    ELSE <<127, 0, 0, 0, 0, (len \div 16777216) % 256, (len \div 65536) % 256,
           (len \div 256) % 256, len % 256>>

frameHead(f) ==
    LET len == lengthBytes(f.len)
    IN  <<f.opcode + (IF f.fin THEN 128 ELSE 0)>>
        \o (IF f.masking THEN <<len[1] + 128>> \o Tail(len) \o f.mask ELSE len)

frameLen(f) == Len(frameHead(f)) + f.len

\* Byte i, from 0, of the frame.
wsFrameBuild(f, i) ==
    LET head == frameHead(f)
        j == i - Len(head)
    IN  IF j < 0 THEN head[i + 1]
        ELSE IF f.masking THEN PayloadByte(f, j) ^^ f.mask[(j % 4) + 1]
        ELSE PayloadByte(f, j)
-----------------------------------------------------------------------------
(* The stream and the receive buffer. *)

Start[n \in Nat] == IF n <= 1 THEN 0 ELSE Start[n - 1] + frameLen(wsFrames[n - 1])
StreamLen == Start[Len(wsFrames) + 1]

\* Byte i, from 0, of the stream.
StreamByte(i) ==
    LET n == CHOOSE n \in 1..Len(wsFrames) : Start[n] <= i /\ i < Start[n + 1]
    IN  wsFrameBuild(wsFrames[n], i - Start[n])

\* Byte i of the receive buffer.
Buf(i) == StreamByte(wsTaken + i)

Failed == [ok |-> FALSE]

\* The length in four bytes from buf[i] on.
fourBytes(buf, i) == buf[i] * 16777216 + buf[i + 1] * 65536 + buf[i + 2] * 256 + buf[i + 3]

\* Mutant: 126 stands for itself.
payloadLen_short(buf, size) ==
    LET code == buf[1] % 128 IN
    IF code < 127 THEN [ok |-> TRUE, len |-> code, pos |-> 2]
    ELSE IF size < 10 THEN Failed
    ELSE [ok |-> TRUE, len |-> fourBytes(buf, 6), pos |-> 10]

\* Length and start of the payload, when enough bytes are there; a length of
\* 2^31 or more is taken for one that is not.
payloadLen(buf, size) ==
    LET code == buf[1] % 128 IN
    CASE code < 126 -> [ok |-> TRUE, len |-> code, pos |-> 2]
      [] code = 126 ->
            IF size < 4 THEN Failed
            ELSE [ok |-> TRUE, len |-> buf[2] * 256 + buf[3], pos |-> 4]
      [] OTHER ->
            IF size < 10 \/ (\E i \in 2..5 : buf[i] # 0) \/ buf[6] >= 128 THEN Failed
            ELSE [ok |-> TRUE, len |-> fourBytes(buf, 6), pos |-> 10]

\* The frame at the start of a buffer of size bytes.  The payload is where it
\* lies in the stream and the mask to take off.  A head has at most 14 bytes.
wsFrameExtractBuffer(size) ==
    IF size < 2 THEN Failed
    ELSE LET buf == [i \in (0..13) \cap (0..(size - 1)) |-> Buf(i)]
             masking == buf[1] >= 128
             p == payloadLen(buf, size)
             pos == IF p.ok /\ masking THEN p.pos + 4 ELSE p.pos
         IN  IF ~ p.ok THEN Failed
             ELSE IF size < pos + p.len THEN Failed
             ELSE [ok |-> TRUE, fin |-> buf[0] >= 128, opcode |-> buf[0] % 16, len |-> p.len,
                   at |-> wsTaken + pos, frameSize |-> pos + p.len,
                   mask |-> IF masking THEN [i \in 1..4 |-> buf[p.pos + i - 1]] ELSE <<0, 0, 0, 0>>]
-----------------------------------------------------------------------------
WebSocketInit ==
    /\ wsMasking \in BOOLEAN
    /\ wsFrames = <<>> /\ wsArrived = 0 /\ wsTaken = 0 /\ wsInLoop = FALSE
    /\ cacheFrame = <<>> /\ wsMessages = <<>>

\* The peer sends a frame: control frames are final, continuations are not.
wsSend(opcode, len) ==
    /\ Len(wsFrames) < MaxFrames
    /\ opcode \in Control => len <= 125
    /\ wsFrames' = Append(wsFrames,
           [opcode |-> opcode, fin |-> opcode # CONTINUATION_FRAME, len |-> len,
            masking |-> wsMasking, mask |-> <<18, 0, 255, 86>>])
    /\ UNCHANGED <<wsMasking, wsArrived, wsTaken, wsInLoop, cacheFrame, wsMessages>>

\* Where a piece of the stream may end: in and around every head, and in front
\* of and at the end of every frame.
Cuts ==
    {StreamLen} \cup
    UNION {{Start[n] + i : i \in (0..14) \cap (0..frameLen(wsFrames[n]))}
           \cup {Start[n + 1] - 1} : n \in 1..Len(wsFrames)}

\* Bytes arrive, and the data callback starts on all that are not taken.
wsArrive(n) ==
    /\ ~ wsInLoop
    /\ n > wsArrived
    /\ wsArrived' = n
    /\ wsInLoop' = TRUE
    /\ UNCHANGED <<wsMasking, wsFrames, wsTaken, cacheFrame, wsMessages>>

\* A turn of the loop: one frame, or the end.
wsTurn ==
    LET f == wsFrameExtractBuffer(wsArrived - wsTaken)
        part == [len |-> f.len, at |-> f.at, mask |-> f.mask]
    IN  /\ wsInLoop
        /\ IF wsArrived = wsTaken \/ ~ f.ok
           THEN wsInLoop' = FALSE /\ UNCHANGED <<wsTaken, cacheFrame, wsMessages>>
           ELSE /\ \/ /\ f.fin /\ f.opcode \in Data
                      /\ wsMessages' = Append(wsMessages,
                             [opcode |-> f.opcode, parts |-> Append(cacheFrame, part)])
                      /\ cacheFrame' = <<>>
                   \/ /\ f.opcode = CONTINUATION_FRAME
                      /\ cacheFrame' = Append(cacheFrame, part)
                      /\ UNCHANGED wsMessages
                   \/ /\ f.opcode \in Control
                      /\ wsMessages' = Append(wsMessages,
                             [opcode |-> f.opcode, parts |-> <<part>>])
                      /\ UNCHANGED cacheFrame
                /\ wsTaken' = wsTaken + f.frameSize
                /\ UNCHANGED wsInLoop
        /\ UNCHANGED <<wsMasking, wsFrames, wsArrived>>

WebSocketNext ==
    \/ \E opcode \in WsOpcodes, len \in WsLens : wsSend(opcode, len)
    \/ \E n \in Cuts : wsArrive(n)
    \/ wsTurn

WebSocketSpec == WebSocketInit /\ [][WebSocketNext]_wsVars
-----------------------------------------------------------------------------
\* The byte the user sees at position j of a part of a message.
PartByte(part, j) == StreamByte(part.at + j) ^^ part.mask[(j % 4) + 1]
Sample(len) == {j \in {0, 1, 2, 3, 4, 5, len - 1} : 0 <= j /\ j < len}

PartOf(part, f) ==
    /\ part.len = f.len
    /\ \A j \in Sample(f.len) : PartByte(part, j) = PayloadByte(f, j)

\* The messages the first n frames make.
Meant(n) ==
    LET ends == SelectSeq([i \in 1..n |-> i], LAMBDA i : wsFrames[i].opcode # CONTINUATION_FRAME)
        before(i) == {k \in 1..(i - 1) : wsFrames[k].opcode \in Data}
        from(i) == IF before(i) = {} THEN 1
                   ELSE 1 + CHOOSE k \in before(i) : \A m \in before(i) : m <= k
        own(i) == SelectSeq([k \in 1..i |-> k],
                      LAMBDA k : k >= from(i) /\ wsFrames[k].opcode = CONTINUATION_FRAME)
    IN  [e \in 1..Len(ends) |->
            IF wsFrames[ends[e]].opcode \in Control THEN <<ends[e]>>
            ELSE Append(own(ends[e]), ends[e])]

(***************************************************************************)
(* However the bytes of the frames are cut, masked or not and for each of  *)
(* the three forms of the length, the callback gets the messages that were *)
(* sent, in order, once, with the payload of their own frames, and bytes   *)
(* are only left in the receive buffer when a frame is incomplete.         *)
(***************************************************************************)
WsMessagesIntact ==
    \E n \in 0..Len(wsFrames) :
        LET meant == Meant(n) IN
        /\ wsTaken = Start[n + 1]
        /\ Len(wsMessages) = Len(meant)
        /\ \A m \in DOMAIN meant :
             /\ Len(wsMessages[m].parts) = Len(meant[m])
             /\ wsMessages[m].opcode = wsFrames[meant[m][Len(meant[m])]].opcode
             /\ \A k \in DOMAIN meant[m] : PartOf(wsMessages[m].parts[k], wsFrames[meant[m][k]])
        /\ ~ wsInLoop /\ n < Len(wsFrames) => wsArrived < Start[n + 2]
=============================================================================
