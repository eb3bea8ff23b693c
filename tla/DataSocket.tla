----------------------------- MODULE DataSocket -----------------------------
(***************************************************************************)
(* net/DataSocket.cpp (Linux build): one connection on the thread of its   *)
(* EventLoop, from onEnterEventLoop to the disconnect callback that        *)
(* deletes it.  ds holds the members of the DataSocket and the procs it    *)
(* has pushed to mAfterLoopProcs; the phases are those of one              *)
(* EventLoop::loop(): epoll_wait, dispatch, async procs, after-loop procs, *)
(* timers.                                                                 *)
(*                                                                         *)
(* User code reaches the socket on the loop thread only, through the id    *)
(* TcpService gives it: in the callbacks of this socket, in those of other *)
(* sockets, in async procs and in timers.  userCall is one such call; it   *)
(* may come wherever the loop thread runs user code.  Time is abstract: a  *)
(* timer may be due whenever TimerMgr::schedule looks.                     *)
(***************************************************************************)
EXTENDS Naturals, Sequences, FiniteSets

CONSTANTS
    SSLModes,       \* whether sockets have an SSL object: a set of Booleans
    Sizes,          \* sizes of the packets that are sent
    MaxSends,       \* bound: packets sent
    MaxAfter,       \* bound: procs waiting when the user calls postShutdown
    MaxIovec,       \* packets one writev takes (MAX_IOVEC, 1024)
    SendBufSize,    \* bytes one SSL_write merges (SENDBUF_SIZE, 32k)
    InitRecvSize,   \* first size of mRecvBuffer
    GrowSize,       \* GROW_BUFFER_SIZE
    MaxRecvSize,    \* mMaxRecvBufferSize
    MaxIncoming,    \* bound: bytes the peer sends
    MaxTimers       \* bound: timers created

ASSUME DataSocketAssumption ==
    /\ SSLModes \subseteq BOOLEAN
    /\ Sizes \subseteq Nat
    /\ MaxSends \in Nat /\ MaxAfter \in Nat /\ MaxIncoming \in Nat /\ MaxTimers \in Nat
    /\ MaxIovec \in Nat \ {0} /\ SendBufSize \in Nat \ {0}
    /\ InitRecvSize \in Nat \ {0} /\ GrowSize \in Nat /\ MaxRecvSize \in Nat

VARIABLES
    ds,         \* the DataSocket
    life,       \* "queued" in helpAddChannel's proc, "entered", "deleted"
    copyAfter,  \* mCopyAfterLoopProcs: procs of this socket still to run in this loop
    timers,     \* the heap of TimerMgr: what became of each timer
    phase,      \* part of loop() being executed
    calls,      \* Channel calls this epoll event still asks for
    call,       \* "recv", or the part of flush being executed
    net,        \* kernel: the socket, its peer and its entry in the epoll instance
    sizes,      \* history: sizes of the packets sent, in order
    wire,       \* history: bytes the kernel took, as <<packet, offset>>
    completed   \* history: packets in the order of their complete callbacks

history == <<sizes, wire, completed>>
vars == <<ds, life, copyAfter, timers, phase, calls, call, net, history>>

Packets == [id : 1..MaxSends, left : Nat]
AfterProcs == {"flush", "shutdown", "disconnect"}
Phases == {"wait", "dispatch", "async", "after", "timers"}
ChannelCalls == {"canRecv", "canSend", "onClose"}

\* mRecvBuffer never grows over mMaxRecvBufferSize.
RecvLimit == IF InitRecvSize <= MaxRecvSize THEN MaxRecvSize ELSE InitRecvSize

DataSockets ==
    [mFD : BOOLEAN,               \* mFD # SOCKET_ERROR
     mSSL : SSLModes,             \* mSSL # nullptr
     mIsPostFinalClose : BOOLEAN,
     mCanWrite : BOOLEAN,
     mIsPostFlush : BOOLEAN,
     mIsHandsharked : BOOLEAN,
     mSendList : Seq(Packets),
     recvLen : 0..RecvLimit,      \* unread bytes in mRecvBuffer
     recvSize : 0..RecvLimit,     \* size of mRecvBuffer
     mRecvData : BOOLEAN,
     mCheckTime : BOOLEAN,        \* mCheckTime > 0
     mTimer : 0..MaxTimers,       \* the timer mTimer was set to, 0 if none
     callbacks : BOOLEAN,         \* the enter callback has set the others
     after : Seq(AfterProcs)]     \* its procs in mAfterLoopProcs

Nets ==
    [onList : BOOLEAN,            \* on the ready list of the epoll instance
     epollout : BOOLEAN,          \* EPOLLOUT is in the event mask
     incoming : 0..MaxIncoming,   \* bytes received and not read
     peerSent : 0..MaxIncoming,   \* bytes the peer has sent
     peer : {"open", "fin", "reset"},
     space : BOOLEAN,             \* the send buffer has room
     shut : BOOLEAN]              \* shutdown(SHUT_WR) was called

TypeOK ==
    /\ ds \in DataSockets
    /\ life \in {"queued", "entered", "deleted"}
    /\ copyAfter \in Seq(AfterProcs)
    /\ timers \in [1..MaxTimers -> {"unused", "active", "cancelled", "gone"}]
    /\ phase \in Phases
    /\ calls \in Seq(ChannelCalls)
    /\ call \in {"none", "recv", "flush", "sent", "partial", "stuck"}
    /\ net \in Nets
    /\ sizes \in Seq(Sizes)
    /\ wire \in Seq((1..MaxSends) \X Nat)
    /\ completed \in Seq(1..MaxSends)

Init ==
    /\ \E ssl \in SSLModes :
         ds = [mFD |-> TRUE, mSSL |-> ssl, mIsPostFinalClose |-> FALSE, mCanWrite |-> TRUE,
               mIsPostFlush |-> FALSE, mIsHandsharked |-> FALSE, mSendList |-> <<>>,
               recvLen |-> 0, recvSize |-> InitRecvSize, mRecvData |-> FALSE,
               mCheckTime |-> FALSE, mTimer |-> 0, callbacks |-> FALSE, after |-> <<>>]
    /\ life = "queued"
    /\ copyAfter = <<>>
    /\ timers = [i \in 1..MaxTimers |-> "unused"]
    /\ phase = "wait" /\ calls = <<>> /\ call = "none"
    /\ net = [onList |-> FALSE, epollout |-> FALSE, incoming |-> 0, peerSent |-> 0,
              peer |-> "open", space |-> TRUE, shut |-> FALSE]
    /\ sizes = <<>> /\ wire = <<>> /\ completed = <<>>
-----------------------------------------------------------------------------
(* The functions of DataSocket, as what they make of its members. *)

closeSocket(d) == IF d.mFD THEN [d EXCEPT !.mFD = FALSE, !.mCanWrite = FALSE] ELSE d

\* Mutant: the close is not announced.
onClose_silent(d) == [closeSocket(d) EXCEPT !.mIsPostFinalClose = TRUE]

onClose(d) ==
    IF d.mIsPostFinalClose THEN d
    ELSE [closeSocket(d) EXCEPT !.after = Append(@, "disconnect"),
                                !.mIsPostFinalClose = TRUE]

procCloseInLoop(d) == IF d.mFD THEN onClose(d) ELSE d

\* Mutant: a closed socket posts a flush too.
runAfterFlush_closed(d) ==
    IF ~ d.mIsPostFlush /\ d.mSendList # <<>>
    THEN [d EXCEPT !.after = Append(@, "flush"), !.mIsPostFlush = TRUE]
    ELSE d

runAfterFlush(d) ==
    IF ~ d.mIsPostFlush /\ d.mSendList # <<>> /\ d.mFD
    THEN [d EXCEPT !.after = Append(@, "flush"), !.mIsPostFlush = TRUE]
    ELSE d

\* sendPacket runs the same code: its proc runs on the spot on the loop thread.
sendPacketInLoop(d, p) == runAfterFlush([d EXCEPT !.mSendList = Append(@, p)])

postShutdown(d) == IF d.mFD THEN [d EXCEPT !.after = Append(@, "shutdown")] ELSE d

procShutdownInLoop(d) == IF d.mFD THEN [d EXCEPT !.mCanWrite = FALSE] ELSE d

\* Mutant: the largest size is not respected.
growRecvBuffer_over(d, len) ==
    IF len = d.recvSize THEN d.recvSize + GrowSize ELSE d.recvSize

growRecvBuffer(d, len) ==
    IF len = d.recvSize /\ d.recvSize + GrowSize <= MaxRecvSize
    THEN d.recvSize + GrowSize
    ELSE d.recvSize

\* A weak_ptr locks while the heap, or schedule() itself, holds the timer.
Locked(d) == d.mTimer # 0 /\ timers[d.mTimer] \in {"active", "cancelled"}

FreeTimers == {i \in 1..MaxTimers : timers[i] = "unused"}

\* cancel() through mTimer.
cancelTimer(d) ==
    timers' = IF Locked(d) THEN [timers EXCEPT ![d.mTimer] = "cancelled"] ELSE timers

\* Leaves d, with a new timer in the heap if mTimer does not lock.  heap is
\* the heap the timer is added to.
startPingCheckTimer(d, heap) ==
    IF ~ Locked(d) /\ d.mCheckTime
    THEN \E i \in FreeTimers :
            /\ \A j \in FreeTimers : i <= j
            /\ timers' = [heap EXCEPT ![i] = "active"]
            /\ ds' = [d EXCEPT !.mTimer = i]
    ELSE timers' = heap /\ ds' = d
-----------------------------------------------------------------------------
(* The kernel. *)

\* What polling the socket returns, within the event mask.
Ready(n) ==
    (IF n.incoming > 0 \/ n.peer # "open" THEN {"IN"} ELSE {})
        \cup (IF n.peer # "open" THEN {"RDHUP"} ELSE {})
        \cup (IF n.epollout /\ (n.space \/ n.peer = "reset") THEN {"OUT"} ELSE {})

\* epoll_ctl ADD and MOD poll the socket and queue it if it is ready.
EpollCtl(n) == [n EXCEPT !.onList = @ \/ Ready(n) # {}]

\* A socket that is not in the epoll instance yet is polled when it is added.
Linked == life = "entered"

peerSends ==
    /\ net.peer = "open"
    /\ net.peerSent < MaxIncoming
    /\ net' = [net EXCEPT !.incoming = @ + 1, !.peerSent = @ + 1, !.onList = Linked]
    /\ UNCHANGED <<ds, life, copyAfter, timers, phase, calls, call, history>>

peerCloses ==
    /\ net.peer = "open"
    /\ \/ net' = [net EXCEPT !.peer = "fin", !.onList = Linked]
       \/ net' = [net EXCEPT !.peer = "reset", !.incoming = 0, !.onList = Linked]
    /\ UNCHANGED <<ds, life, copyAfter, timers, phase, calls, call, history>>

\* The peer acknowledges data: room in a full send buffer is an EPOLLOUT edge.
drain ==
    /\ ~ net.space
    /\ net' = [net EXCEPT !.space = TRUE, !.onList = @ \/ (Linked /\ net.epollout)]
    /\ UNCHANGED <<ds, life, copyAfter, timers, phase, calls, call, history>>
-----------------------------------------------------------------------------
(* User code on the loop thread. *)

\* TcpService resolves the id of this socket from the enter callback to the
\* disconnect callback.
Reachable == life = "entered" /\ ds.callbacks

\* Where the loop thread can be inside user code.  A complete callback (call
\* "sent", "partial") must not send on its own socket: see userSend.
InUserCode == phase # "wait" /\ Reachable /\ call \in {"none", "recv", "sent", "partial"}

\* send.  Not from a complete callback: push_back there would invalidate the
\* iterator quickFlush erases with (lines 489-507).
userSend(size) ==
    /\ InUserCode
    /\ call \in {"none", "recv"}
    /\ Len(sizes) < MaxSends
    /\ sizes' = Append(sizes, size)
    /\ ds' = sendPacketInLoop(ds, [id |-> Len(sizes) + 1, left |-> size])
    /\ UNCHANGED <<life, copyAfter, timers, phase, calls, call, net, wire, completed>>

\* postDisConnect and postShutdown.
userClose ==
    /\ InUserCode
    /\ \/ ds' = procCloseInLoop(ds)
       \/ Len(ds.after) < MaxAfter /\ ds' = postShutdown(ds)
    /\ ds' # ds
    /\ UNCHANGED <<life, copyAfter, timers, phase, calls, call, net, history>>

\* setCheckTime(overtime) with overtime > 0, and with -1.
setCheckTime(on) ==
    /\ InUserCode
    /\ IF on
       THEN startPingCheckTimer([ds EXCEPT !.mCheckTime = TRUE], timers)
       ELSE cancelTimer(ds) /\ ds' = [ds EXCEPT !.mCheckTime = FALSE]
    /\ UNCHANGED <<life, copyAfter, phase, calls, call, net, history>>
-----------------------------------------------------------------------------
(* epoll_wait and the dispatch of one event. *)

\* The calls loop() makes for an event.
CallsFor(events) ==
    IF "RDHUP" \in events THEN <<"canRecv", "onClose">>
    ELSE (IF "IN" \in events THEN <<"canRecv">> ELSE <<>>)
           \o (IF "OUT" \in events THEN <<"canSend">> ELSE <<>>)

epollWait ==
    /\ phase = "wait"
    /\ phase' = "dispatch"
    /\ calls' = IF net.onList /\ ds.mFD THEN CallsFor(Ready(net)) ELSE <<>>
    /\ net' = [net EXCEPT !.onList = FALSE]
    /\ UNCHANGED <<ds, life, copyAfter, timers, call, history>>

Calling(c) ==
    /\ phase = "dispatch"
    /\ call = "none"
    /\ calls # <<>>
    /\ Head(calls) = c
    /\ calls' = Tail(calls)

\* The enter callback sets the data and the disconnect callback.
entered(d) == [d EXCEPT !.callbacks = TRUE]

\* SSL_accept / SSL_connect: done, waiting to read, waiting to write, or failed.
\* It reads from the socket, and WANT_WRITE means that the send buffer is full.
processSSLHandshake(d, n) ==
    \/ /\ n.peer = "open" \/ n.incoming > 0
       /\ ds' = entered([d EXCEPT !.mIsHandsharked = TRUE])
       /\ \E k \in 0..n.incoming : net' = [n EXCEPT !.incoming = k]
    \/ n.peer = "open" /\ ds' = d /\ net' = [n EXCEPT !.incoming = 0]
    \/ ds' = d /\ \E k \in 0..n.incoming : net' = [n EXCEPT !.incoming = k, !.space = FALSE]
    \/ ds' = procCloseInLoop(entered(d)) /\ net' = n

Handshaking(d) == d.mSSL /\ ~ d.mIsHandsharked

canRecv ==
    /\ Calling("canRecv")
    /\ IF Handshaking(ds)
       THEN processSSLHandshake(ds, net) /\ UNCHANGED call
       ELSE call' = "recv" /\ UNCHANGED <<ds, net>>
    /\ UNCHANGED <<life, copyAfter, timers, phase, history>>

\* removeCheckWrite drops EPOLLOUT from the mask.
removeCheckWrite == IF ds.mFD THEN EpollCtl([net EXCEPT !.epollout = FALSE]) ELSE net

\* Mutant: EPOLLOUT does not lead to a flush.
canSend_noFlush ==
    /\ Calling("canSend")
    /\ ds' = [ds EXCEPT !.mCanWrite = TRUE]
    /\ net' = removeCheckWrite
    /\ UNCHANGED <<life, copyAfter, timers, phase, call, history>>

canSend ==
    /\ Calling("canSend")
    /\ IF Handshaking(ds)
       THEN processSSLHandshake([ds EXCEPT !.mCanWrite = TRUE], removeCheckWrite)
       ELSE /\ ds' = runAfterFlush([ds EXCEPT !.mCanWrite = TRUE])
            /\ net' = removeCheckWrite
    /\ UNCHANGED <<life, copyAfter, timers, phase, call, history>>

channelClose ==
    /\ Calling("onClose")
    /\ ds' = onClose(ds)
    /\ UNCHANGED <<life, copyAfter, timers, phase, call, net, history>>

\* Mutant: recv does not read until EWOULDBLOCK.
recvSome_once(n, m) ==
    /\ call = "recv" /\ ds.mFD
    /\ n \in 1..net.incoming /\ ds.recvLen + n <= ds.recvSize
    /\ m \in 0..(ds.recvLen + n)
    /\ net' = [net EXCEPT !.incoming = @ - n]
    /\ ds' = [ds EXCEPT !.recvLen = @ + n - m, !.mRecvData = TRUE]
    /\ call' = "none"
    /\ UNCHANGED <<life, copyAfter, timers, phase, calls, history>>

\* recv: one iteration that reads n bytes and lets the data callback take m of
\* what is in the buffer.
recvSome(n, m) ==
    /\ call = "recv"
    /\ ds.mFD
    /\ n \in 1..net.incoming
    /\ ds.recvLen + n <= ds.recvSize
    /\ m \in 0..(ds.recvLen + n)
    /\ net' = [net EXCEPT !.incoming = @ - n]
    /\ ds' = [ds EXCEPT !.recvSize = growRecvBuffer(ds, ds.recvLen + n),
                        !.recvLen = @ + n - m,
                        !.mRecvData = TRUE]
    /\ UNCHANGED <<life, copyAfter, timers, phase, calls, call, history>>

\* recv returns: the socket was closed by the data callback, the buffer is
\* full, there is nothing to read, or the peer is gone.
recvReturn ==
    /\ call = "recv"
    /\ call' = "none"
    /\ \/ ~ ds.mFD
       \/ ds.recvLen = ds.recvSize
       \/ net.incoming = 0 /\ net.peer = "open"
    /\ UNCHANGED <<ds, life, copyAfter, timers, phase, calls, net, history>>

recvClose ==
    /\ call = "recv"
    /\ ds.mFD
    /\ ds.recvLen # ds.recvSize
    /\ net.incoming = 0
    /\ net.peer # "open"
    /\ call' = "none"
    /\ ds' = procCloseInLoop(ds)
    /\ UNCHANGED <<life, copyAfter, timers, phase, calls, net, history>>
-----------------------------------------------------------------------------
(* flush. *)

SumLeft(list, n) ==
    LET sum[i \in 0..n] == IF i = 0 THEN 0 ELSE sum[i - 1] + list[i].left
    IN  sum[n]

\* How many packets the next write covers: quickFlush takes up to MAX_IOVEC,
\* normalFlush as many as fit into its buffer and at least one.
BatchLen(list) ==
    LET fits == IF ds.mSSL
                THEN {n \in 0..Len(list) : n = 1 \/ SumLeft(list, n) <= SendBufSize}
                ELSE {n \in 0..Len(list) : n <= MaxIovec}
    IN  CHOOSE n \in fits : \A m \in fits : m <= n

\* Packets that k bytes finish, with the empty packets that follow them.
Finished(list, k) ==
    CHOOSE n \in 0..Len(list) :
        SumLeft(list, n) <= k /\ \A m \in 0..Len(list) : SumLeft(list, m) <= k => m <= n

\* Mutant: a packet that was written in part is not shortened.
Unsent_again(list, k) == SubSeq(list, Finished(list, k) + 1, Len(list))

\* The send list after k bytes: finished packets are erased, the next one is
\* left shorter.
Unsent(list, k) ==
    LET n    == Finished(list, k)
        rest == SubSeq(list, n + 1, Len(list))
    IN  IF rest = <<>> THEN rest
        ELSE [rest EXCEPT ![1].left = @ - (k - SumLeft(list, n))]

\* The bytes the kernel takes: those the iovec points at, from data + size - left.
Taken(list, k) ==
    LET packetOf(b) == CHOOSE n \in 1..Len(list) :
                          SumLeft(list, n - 1) < b /\ b <= SumLeft(list, n)
        byte(b) == LET p == list[packetOf(b)]
                   IN  <<p.id, sizes[p.id] - p.left + b - SumLeft(list, packetOf(b) - 1)>>
    IN  [b \in 1..k |-> byte(b)]

ReadySendLen == SumLeft(ds.mSendList, BatchLen(ds.mSendList))
Writable == ds.mFD /\ ~ net.shut /\ net.peer # "reset"

\* mCanWrite = false; checkWrite adds EPOLLOUT to the mask.
checkWrite ==
    /\ ds' = [ds EXCEPT !.mCanWrite = FALSE]
    /\ net' = IF ds.mFD THEN EpollCtl([net EXCEPT !.epollout = TRUE]) ELSE net

\* writev / SSL_write takes k bytes; the complete callbacks of finished packets run.
writeSome(k) ==
    /\ call = "flush"
    /\ Writable /\ net.space
    /\ ds.mSendList # <<>>
    /\ k \in 1..ReadySendLen
    /\ LET n == Finished(ds.mSendList, k) IN
        /\ wire' = wire \o Taken(ds.mSendList, k)
        /\ completed' = completed \o [i \in 1..n |-> ds.mSendList[i].id]
        /\ ds' = [ds EXCEPT !.mSendList = Unsent(@, k)]
        /\ call' = IF k = ReadySendLen THEN "sent" ELSE IF n > 0 THEN "partial" ELSE "stuck"
    /\ \E room \in BOOLEAN : /\ room => k = ReadySendLen
                             /\ net' = [net EXCEPT !.space = room]
    /\ UNCHANGED <<life, copyAfter, timers, phase, calls, sizes>>

\* Everything was taken: goto SEND_PROC if there is more.
flushMore ==
    /\ call = "sent"
    /\ call' = IF ds.mSendList = <<>> THEN "none" ELSE "flush"
    /\ UNCHANGED <<ds, life, copyAfter, timers, phase, calls, net, history>>

flushPartial ==
    /\ call \in {"partial", "stuck"}
    /\ call' = "none"
    /\ checkWrite
    /\ UNCHANGED <<life, copyAfter, timers, phase, calls, history>>

\* The write returns -1 with EWOULDBLOCK, or 0 because all packets are empty
\* with EWOULDBLOCK left in errno by an earlier call.
writeBlocked ==
    /\ call = "flush"
    /\ Writable
    /\ ds.mSendList # <<>>
    /\ ReadySendLen > 0 => ~ net.space
    /\ ds.mSSL => ReadySendLen > 0
    /\ call' = "none"
    /\ checkWrite
    /\ UNCHANGED <<life, copyAfter, timers, phase, calls, history>>

\* The write fails, or returns 0 with some other error left in errno.
writeError ==
    /\ call = "flush"
    /\ ds.mSendList # <<>>
    /\ ~ Writable \/ ReadySendLen = 0
    /\ ds.mSSL => ReadySendLen > 0
    /\ call' = "none"
    /\ ds' = procCloseInLoop(ds)
    /\ UNCHANGED <<life, copyAfter, timers, phase, calls, net, history>>

\* Nothing to write: an empty list, or (normalFlush) nothing but empty packets
\* in the buffer.
writeNothing ==
    /\ call = "flush"
    /\ ReadySendLen = 0
    /\ ds.mSendList # <<>> => ds.mSSL
    /\ call' = "none"
    /\ UNCHANGED <<ds, life, copyAfter, timers, phase, calls, net, history>>
-----------------------------------------------------------------------------
(* The rest of loop(). *)

Idle == call = "none" /\ calls = <<>>

dispatchEnd ==
    /\ phase = "dispatch" /\ Idle
    /\ phase' = "async"
    /\ UNCHANGED <<ds, life, copyAfter, timers, calls, call, net, history>>

\* The proc of helpAddChannel: onEnterEventLoop links the socket and enters it;
\* a socket that cannot be linked is closed and deleted.
onEnterEventLoop ==
    /\ phase = "async"
    /\ life = "queued"
    /\ \/ /\ life' = "entered"
          /\ IF ds.mSSL
             THEN processSSLHandshake(ds, EpollCtl(net))
             ELSE ds' = entered(ds) /\ net' = EpollCtl(net)
       \/ life' = "deleted" /\ ds' = closeSocket(ds) /\ UNCHANGED net
    /\ UNCHANGED <<copyAfter, timers, phase, calls, call, history>>

\* processAfterLoopProcs: swap.
asyncEnd ==
    /\ phase = "async"
    /\ phase' = "after"
    /\ copyAfter' = ds.after
    /\ ds' = [ds EXCEPT !.after = <<>>]
    /\ UNCHANGED <<life, timers, calls, call, net, history>>

AfterProc(p) ==
    /\ phase = "after" /\ call = "none"
    /\ copyAfter # <<>>
    /\ Head(copyAfter) = p
    /\ copyAfter' = Tail(copyAfter)

\* Mutant: mIsPostFlush is not reset.
flush_keeps ==
    /\ AfterProc("flush")
    /\ call' = IF ds.mCanWrite /\ ds.mFD THEN "flush" ELSE "none"
    /\ UNCHANGED <<ds, life, timers, phase, calls, net, history>>

flush ==
    /\ AfterProc("flush")
    /\ ds' = [ds EXCEPT !.mIsPostFlush = FALSE]
    /\ call' = IF ds.mCanWrite /\ ds.mFD THEN "flush" ELSE "none"
    /\ UNCHANGED <<life, timers, phase, calls, net, history>>

shutdownProc ==
    /\ AfterProc("shutdown")
    /\ ds' = procShutdownInLoop(ds)
    /\ net' = IF ds.mFD THEN [net EXCEPT !.shut = TRUE] ELSE net
    /\ UNCHANGED <<life, timers, phase, calls, call, history>>

\* The disconnect callback TcpService sets gives the id back and deletes the
\* DataSocket; the destructor cancels its timer.  Without one nothing happens.
disconnectProc ==
    /\ AfterProc("disconnect")
    /\ IF ds.callbacks
       THEN life' = "deleted" /\ cancelTimer(ds)
       ELSE UNCHANGED <<life, timers>>
    /\ UNCHANGED <<ds, phase, calls, call, net, history>>

afterEnd ==
    /\ phase = "after" /\ call = "none" /\ copyAfter = <<>>
    /\ phase' = "timers"
    /\ UNCHANGED <<ds, life, copyAfter, timers, calls, call, net, history>>

\* TimerMgr::schedule pops a timer that is due and calls it while it still
\* holds the shared_ptr, so that mTimer.lock() in startPingCheckTimer succeeds.
PingCheck(i) ==
    /\ phase = "timers"
    /\ timers[i] = "active"
    /\ LET heap == [timers EXCEPT ![i] = "gone"] IN
        IF ds.mRecvData
        THEN startPingCheckTimer([ds EXCEPT !.mRecvData = FALSE], heap)
        ELSE ds' = procCloseInLoop(ds) /\ timers' = heap
    /\ UNCHANGED <<life, copyAfter, phase, calls, call, net, history>>

\* A cancelled timer is popped and does nothing.
popCancelled(i) ==
    /\ phase = "timers"
    /\ timers[i] = "cancelled"
    /\ timers' = [timers EXCEPT ![i] = "gone"]
    /\ UNCHANGED <<ds, life, copyAfter, phase, calls, call, net, history>>

loopEnd ==
    /\ phase = "timers"
    /\ phase' = "wait"
    /\ UNCHANGED <<ds, life, copyAfter, timers, calls, call, net, history>>
-----------------------------------------------------------------------------
User == \/ \E size \in Sizes : userSend(size)
        \/ userClose
        \/ \E on \in BOOLEAN : setCheckTime(on)

Kernel == peerSends \/ peerCloses \/ drain

Recv == \/ \E n, m \in 0..(MaxRecvSize + MaxIncoming) : recvSome(n, m)
        \/ recvReturn
        \/ recvClose

Write == \/ \E k \in 1..ReadySendLen : writeSome(k)
         \/ flushMore \/ flushPartial
         \/ writeBlocked \/ writeError \/ writeNothing

Dispatch == canRecv \/ canSend \/ channelClose \/ dispatchEnd

After == flush \/ shutdownProc \/ disconnectProc \/ afterEnd

Timers == loopEnd \/ \E i \in 1..MaxTimers : PingCheck(i) \/ popCancelled(i)

Loop == epollWait \/ Dispatch \/ Recv \/ onEnterEventLoop \/ asyncEnd \/ Write \/ After \/ Timers

Next == User \/ Kernel \/ Loop

Spec == Init /\ [][Next]_vars

\* The worker thread keeps calling loop(); a peer that stays connected and
\* reads makes room in the send buffer.
Fairness == WF_vars(Loop) /\ WF_vars(drain)

FairSpec == Spec /\ Fairness
-----------------------------------------------------------------------------
(* What is checked. *)

In(x, q) == \E i \in 1..Len(q) : q[i] = x

\* The byte stream of the first n packets of these sizes.
StreamOf(list, n) ==
    LET stream[i \in 0..n] ==
            IF i = 0 THEN <<>> ELSE stream[i - 1] \o [b \in 1..list[i] |-> <<i, b>>]
    IN  stream[n]

(***************************************************************************)
(* Nothing refers to a DataSocket once it is deleted: no proc of it is     *)
(* left in either after-loop vector, no event of the batch, no function of *)
(* it is on the stack and no timer will call PingCheck.  This is what the  *)
(* comment at DataSocket.cpp:582 promises of the disconnect callback, and  *)
(* DataSocket.h:28 (it is called once only).                               *)
(***************************************************************************)
NoUseAfterDelete ==
    life = "deleted" =>
        /\ ~ ds.mFD
        /\ ds.after = <<>> /\ copyAfter = <<>>
        /\ calls = <<>> /\ call = "none"
        /\ \A i \in 1..MaxTimers : timers[i] # "active"

(***************************************************************************)
(* However the writes are cut (lines 458-542, 337-456): the kernel gets    *)
(* the packets in the order of the sends, without a gap or a repetition,   *)
(* complete callbacks come once, in order and only after the last byte,    *)
(* and every packet not completed is still in mSendList.                   *)
(***************************************************************************)
StreamIntact ==
    LET c == Len(completed) IN
    /\ wire = SubSeq(StreamOf(sizes, Len(sizes)), 1, Len(wire))
    /\ completed = [i \in 1..c |-> i]
    /\ Len(StreamOf(sizes, c)) <= Len(wire)
    /\ [i \in 1..Len(ds.mSendList) |-> ds.mSendList[i].id]
           = [i \in 1..(Len(sizes) - c) |-> c + i]

(***************************************************************************)
(* Data waiting in mSendList is never forgotten: when the loop goes to     *)
(* sleep with bytes to send on an open socket, a flush is posted, or       *)
(* EPOLLOUT is in the mask and the event is already queued if the socket   *)
(* has room (mIsPostFlush, mCanWrite and the epoll mask agree).  Over TLS  *)
(* this is said of the bytes normalFlush gathers: an empty packet in front *)
(* of one larger than its buffer makes it gather none (lines 351-372).     *)
(***************************************************************************)
NoStalledSend ==
    phase = "wait" /\ ds.mFD /\ ~ net.shut /\ SumLeft(ds.mSendList, Len(ds.mSendList)) > 0
            /\ (ds.mSSL => ReadySendLen > 0)
        => \/ In("flush", ds.after) /\ ds.mIsPostFlush
           \/ ~ ds.mCanWrite /\ net.epollout /\ (net.space => net.onList)

(***************************************************************************)
(* With edge-triggered epoll an event is reported once.  When the loop     *)
(* goes to sleep, received bytes that are unread have a new event queued,  *)
(* or mRecvBuffer is full (line 222-226), and so has a closed connection.  *)
(* Over TLS canRecv may end with the handshake, and what arrived with it   *)
(* stays unread until the next event.                                      *)
(***************************************************************************)
NoStalledRecv ==
    phase = "wait" /\ ds.mFD /\ Linked /\ ~ ds.mSSL =>
        /\ net.incoming > 0 => net.onList \/ ds.recvLen = ds.recvSize
        /\ net.peer # "open" => net.onList

(***************************************************************************)
(* A connection that is closed, by the peer, by the user or by an error,   *)
(* gets its disconnect callback and is deleted.                            *)
(***************************************************************************)
GoneIsDeleted == Linked /\ (net.peer # "open" \/ ~ ds.mFD) ~> life = "deleted"

(***************************************************************************)
(* Queued packets leave mSendList as long as the peer makes room, unless   *)
(* the connection is closed or shut down.                                  *)
(***************************************************************************)
SendsFinish == ds.mSendList # <<>> ~> ds.mSendList = <<>> \/ ~ ds.mFD \/ net.shut

(***************************************************************************)
(* DataSocket.h:68: setCheckTime sets the time of the heartbeat check, -1  *)
(* means no check.  A PingCheck that finds the connection alive is         *)
(* followed by another one: it leaves a timer behind (line 726).           *)
(***************************************************************************)
CheckFired ==
    /\ \E i \in 1..MaxTimers : timers[i] = "active" /\ timers'[i] = "gone"
    /\ ds'.mFD

HeartbeatGoesOn ==
    [][CheckFired => \E i \in 1..MaxTimers : timers'[i] = "active"]_vars

(***************************************************************************)
(* DataSocket.cpp:900: a failed handshake calls the enter callback before  *)
(* the close, so that the layer above can delete the socket.  Whenever a   *)
(* close is posted, the disconnect callback is set.                        *)
(***************************************************************************)
ClosedIsDeletable == ds.mIsPostFinalClose => ds.callbacks
=============================================================================
