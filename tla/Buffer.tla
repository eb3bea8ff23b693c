------------------------------- MODULE Buffer -------------------------------
(***************************************************************************)
(* utils/buffer.c as DataSocket::recv uses it: bytes are received behind   *)
(* write_pos, the data callback is shown everything from read_pos to       *)
(* write_pos and says how much of it it is done with, a full buffer is     *)
(* replaced by a larger one, and unread bytes are moved to the head when   *)
(* there is no room behind them.                                           *)
(*                                                                         *)
(* Bytes are numbered in the order in which they arrive; a byte of the     *)
(* buffer that was never written is 0.                                     *)
(***************************************************************************)
EXTENDS Integers, Sequences

CONSTANTS
    BufferSize,         \* size of the first buffer
    BufferGrow,         \* GROW_BUFFER_SIZE
    BufferMax,          \* mMaxRecvBufferSize
    MaxBytes            \* bound: bytes received

ASSUME BufferAssumption ==
    BufferSize \in Nat \ {0} /\ BufferGrow \in Nat \ {0} /\ BufferMax \in Nat /\ MaxBytes \in Nat

VARIABLES
    recvBuffer,         \* struct buffer_s
    receivedBytes,      \* history: bytes received
    shownBytes,         \* history: what the data callback was shown last
    doneBytes           \* history: bytes the data callback is done with

bufferVars == <<recvBuffer, receivedBytes, shownBytes, doneBytes>>

ox_buffer_new(size) == [data |-> [i \in 1..size |-> 0], write_pos |-> 0, read_pos |-> 0]

Size(b) == Len(b.data)
readValid(b) == b.write_pos - b.read_pos
writeValid(b) == Size(b) - b.write_pos
Unread(b) == SubSeq(b.data, b.read_pos + 1, b.write_pos)

\* memcpy to b.data + at.
Memcpy(b, at, bytes) ==
    [b EXCEPT !.data = [i \in 1..Size(b) |->
        IF i - at \in DOMAIN bytes THEN bytes[i - at] ELSE @[i]]]

ox_buffer_addwritepos(b, n) ==
    IF b.write_pos + n <= Size(b) THEN [b EXCEPT !.write_pos = @ + n] ELSE b

ox_buffer_addreadpos(b, n) ==
    IF b.read_pos + n <= Size(b) THEN [b EXCEPT !.read_pos = @ + n] ELSE b

\* Mutant: the bytes are copied after the positions were set.
ox_buffer_adjustto_head_late(b) ==
    LET moved == [b EXCEPT !.read_pos = 0, !.write_pos = readValid(b)]
    IN  IF b.read_pos = 0 THEN b ELSE Memcpy(moved, 0, Unread(moved))

\* memmove of the unread bytes.
ox_buffer_adjustto_head(b) ==
    IF b.read_pos = 0 THEN b
    ELSE [Memcpy(b, 0, Unread(b)) EXCEPT !.read_pos = 0, !.write_pos = readValid(b)]

\* Behind write_pos, or after a move to the head; else the buffer stays as it is.
ox_buffer_write(b, bytes) ==
    LET append(c) == ox_buffer_addwritepos(Memcpy(c, c.write_pos, bytes), Len(bytes)) IN
    IF writeValid(b) >= Len(bytes) THEN append(b)
    ELSE IF Size(b) - readValid(b) >= Len(bytes) THEN append(ox_buffer_adjustto_head(b))
    ELSE b

growRecvBuffer(b) ==
    IF Size(b) + BufferGrow <= BufferMax
    THEN ox_buffer_write(ox_buffer_new(Size(b) + BufferGrow), Unread(b))
    ELSE b

BufferInit ==
    /\ recvBuffer = ox_buffer_new(BufferSize)
    /\ receivedBytes = 0 /\ shownBytes = <<>> /\ doneBytes = 0

\* A pass of DataSocket::recv in which n bytes came and the callback took k.
recvPass(n, k) ==
    LET bytes == [i \in 1..n |-> receivedBytes + i]
        got == ox_buffer_addwritepos(Memcpy(recvBuffer, recvBuffer.write_pos, bytes), n)
        grown == IF readValid(got) = Size(got) THEN growRecvBuffer(got) ELSE got
        taken == ox_buffer_addreadpos(grown, k)
    IN  /\ n \in 1..writeValid(recvBuffer)
        /\ receivedBytes + n <= MaxBytes
        /\ k <= readValid(grown)
        /\ recvBuffer' = IF writeValid(taken) = 0 \/ readValid(taken) = 0
                         THEN ox_buffer_adjustto_head(taken) ELSE taken
        /\ receivedBytes' = receivedBytes + n
        /\ shownBytes' = Unread(grown)
        /\ doneBytes' = doneBytes + k

BufferNext == \E n \in 1..MaxBytes, k \in 0..MaxBytes : recvPass(n, k)

BufferSpec == BufferInit /\ [][BufferNext]_bufferVars
-----------------------------------------------------------------------------
(***************************************************************************)
(* However the bytes come in and however much of them the data callback    *)
(* takes each time, moving and replacing the buffer loses, repeats and     *)
(* reorders nothing: what is unread, and what the callback was shown last, *)
(* are the received bytes up to the last one.  recv only finds no room     *)
(* when the unread bytes fill a buffer that may not grow any more.         *)
(***************************************************************************)
ReceivedBytesIntact ==
    /\ Unread(recvBuffer) = [i \in 1..(receivedBytes - doneBytes) |-> doneBytes + i]
    /\ \A i \in DOMAIN shownBytes : shownBytes[i] = receivedBytes - Len(shownBytes) + i
    /\ writeValid(recvBuffer) = 0 =>
         readValid(recvBuffer) = Size(recvBuffer) /\ Size(recvBuffer) + BufferGrow > BufferMax
=============================================================================
