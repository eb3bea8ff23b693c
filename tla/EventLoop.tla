------------------------------ MODULE EventLoop ------------------------------
(***************************************************************************)
(* net/EventLoop.cpp (Linux build): one thread runs loop() over and over,  *)
(* any other thread posts procs to it with pushAsyncProc and wakes it      *)
(* through an eventfd.  Two atomic flags keep the number of eventfd writes *)
(* low: a poster writes only if mIsInBlock is set and it is the one that   *)
(* turns mIsAlreadyPostWakeup on.  Every access to an atomic, every        *)
(* critical section of mAsyncProcsMutex, every system call and every       *)
(* callback is one step, so the posters interleave with the loop wherever  *)
(* the C++ memory model (sequentially consistent atomics) lets them.       *)
(*                                                                         *)
(* Procs are identified by the thread that posts them and a per-thread     *)
(* sequence number.  What a callback does is abstracted to the calls it    *)
(* makes back into the EventLoop (UserCode).                               *)
(***************************************************************************)
EXTENDS Naturals, Sequences, FiniteSets

CONSTANTS
    Producers,      \* threads other than the one that runs loop()
    LoopThread,     \* the thread that runs loop()
    NoThread,       \* mSelfThreadid before it is set (-1)
    Channels,       \* sockets registered with the epoll instance
    Wakeup,         \* the WakeupChannel
    TimerCallers,   \* producers that may call getTimerMgr()
    MaxPosts,       \* bound: procs each producer posts
    MaxLoopPosts,   \* bound: procs callbacks post from the loop thread
    InitEntries,    \* size of the first epoll_event array (1024)
    GrowEntries     \* by how much a full array grows (128)

ASSUME EventLoopAssumption ==
    /\ LoopThread \notin Producers
    /\ NoThread \notin Producers \cup {LoopThread}
    /\ Wakeup \notin Channels
    /\ TimerCallers \subseteq Producers
    /\ MaxPosts \in Nat
    /\ MaxLoopPosts \in Nat
    /\ InitEntries \in Nat \ {0}
    /\ GrowEntries \in Nat

VARIABLES
    mSelfThreadid,          \* thread that won tryInitThreadID
    mIsInBlock,
    mIsAlreadyPostWakeup,
    mAsyncProcs,
    mCopyAsyncProcs,
    mAfterLoopProcs,
    mCopyAfterLoopProcs,
    mEventEntriesNum,
    eventfd,                \* TRUE iff the eventfd counter is not zero
    edges,                  \* channels on the ready list of the edge-triggered epoll
    batch,                  \* events of this epoll_wait not yet dispatched
    full,                   \* numComplete == mEventEntriesNum
    nonblock,               \* timeout was forced to 0
    loopPc,                 \* where the loop thread is in loop()
    pc,                     \* where each producer is in pushAsyncProc / wakeup
    count,                  \* procs posted so far by each thread
    ran                     \* history: procs in the order in which they ran

queueVars == <<mAsyncProcs, mCopyAsyncProcs, mAfterLoopProcs, mCopyAfterLoopProcs>>
epollVars == <<mEventEntriesNum, eventfd, edges, batch, full, nonblock>>
flagVars  == <<mIsInBlock, mIsAlreadyPostWakeup>>
vars == <<mSelfThreadid, flagVars, queueVars, epollVars, loopPc, pc, count, ran>>

Threads == Producers \cup {LoopThread}
Limit(t) == IF t = LoopThread THEN MaxLoopPosts ELSE MaxPosts
Procs == UNION {{t} \X (1..Limit(t)) : t \in Threads}

LoopPcs == {"enter", "wait", "woken", "dispatch", "rearm", "swap", "runAsync", "runAfter"}

TypeOK ==
    /\ mSelfThreadid \in Threads \cup {NoThread}
    /\ mIsInBlock \in BOOLEAN
    /\ mIsAlreadyPostWakeup \in BOOLEAN
    /\ mAsyncProcs \in Seq(Procs)
    /\ mCopyAsyncProcs \in Seq(Procs)
    /\ mAfterLoopProcs \in Seq(Procs)
    /\ mCopyAfterLoopProcs \in Seq(Procs)
    /\ mEventEntriesNum \in Nat
    /\ eventfd \in BOOLEAN
    /\ edges \subseteq Channels \cup {Wakeup}
    /\ batch \subseteq Channels \cup {Wakeup}
    /\ full \in BOOLEAN
    /\ nonblock \in BOOLEAN
    /\ loopPc \in LoopPcs
    /\ pc \in [Producers -> {"idle", "check", "exchange", "write"}]
    /\ count \in [Threads -> Nat]
    /\ \A t \in Threads : count[t] <= Limit(t)
    /\ ran \in Seq(Procs)

Init ==
    /\ mSelfThreadid = NoThread
    /\ mIsInBlock = TRUE
    /\ mIsAlreadyPostWakeup = FALSE
    /\ mAsyncProcs = <<>> /\ mCopyAsyncProcs = <<>>
    /\ mAfterLoopProcs = <<>> /\ mCopyAfterLoopProcs = <<>>
    /\ mEventEntriesNum = InitEntries
    /\ eventfd = FALSE
    /\ edges = {} /\ batch = {} /\ full = FALSE /\ nonblock = FALSE
    /\ loopPc = "enter"
    /\ pc = [p \in Producers |-> "idle"]
    /\ count = [t \in Threads |-> 0]
    /\ ran = <<>>
-----------------------------------------------------------------------------
(* The posting threads. *)

\* The first thread to get here becomes the loop thread for good.
tryInitThreadID(t) ==
    mSelfThreadid' = IF mSelfThreadid = NoThread THEN t ELSE mSelfThreadid

\* getTimerMgr called by a thread that does not run loop(): it returns mTimer if
\* mSelfThreadid' = p and nullptr otherwise.
getTimerMgr(p) ==
    /\ p \in TimerCallers
    /\ pc[p] = "idle"
    /\ tryInitThreadID(p)
    /\ UNCHANGED <<flagVars, queueVars, epollVars, loopPc, pc, count, ran>>

nextProc(t) == <<t, count[t] + 1>>
canPost(t)  == count[t] < Limit(t)
posted(t)   == count' = [count EXCEPT ![t] = @ + 1]

\* Mutant: the proc goes to the front of the vector.
pushAsyncProc_front(p) ==
    /\ pc[p] = "idle" /\ mSelfThreadid # p /\ canPost(p) /\ posted(p)
    /\ mAsyncProcs' = <<nextProc(p)>> \o mAsyncProcs
    /\ pc' = [pc EXCEPT ![p] = "check"]
    /\ UNCHANGED <<mSelfThreadid, flagVars, mCopyAsyncProcs, mAfterLoopProcs,
                   mCopyAfterLoopProcs, epollVars, loopPc, ran>>

\* pushAsyncProc off the loop thread: lock, push_back, unlock; wakeup() follows.
pushAsyncProc(p) ==
    /\ pc[p] = "idle"
    /\ mSelfThreadid # p
    /\ canPost(p)
    /\ posted(p)
    /\ mAsyncProcs' = Append(mAsyncProcs, nextProc(p))
    /\ pc' = [pc EXCEPT ![p] = "check"]
    /\ UNCHANGED <<mSelfThreadid, flagVars, mCopyAsyncProcs, mAfterLoopProcs,
                   mCopyAfterLoopProcs, epollVars, loopPc, ran>>

\* pushAsyncProc by the thread mSelfThreadid names: the proc runs at once.
pushAsyncProcInThread(p) ==
    /\ pc[p] = "idle"
    /\ mSelfThreadid = p
    /\ canPost(p)
    /\ posted(p)
    /\ ran' = Append(ran, nextProc(p))
    /\ UNCHANGED <<mSelfThreadid, flagVars, queueVars, epollVars, loopPc, pc>>

\* wakeup() called on its own (TcpService::wakeup and wakeupAll).
callWakeup(p) ==
    /\ pc[p] = "idle"
    /\ mSelfThreadid # p
    /\ pc' = [pc EXCEPT ![p] = "check"]
    /\ UNCHANGED <<mSelfThreadid, flagVars, queueVars, epollVars, loopPc, count, ran>>

\* wakeup(), first operand: load mIsInBlock.
wakeupCheck(p) ==
    /\ pc[p] = "check"
    /\ pc' = [pc EXCEPT ![p] = IF mIsInBlock THEN "exchange" ELSE "idle"]
    /\ UNCHANGED <<mSelfThreadid, flagVars, queueVars, epollVars, loopPc, count, ran>>

\* wakeup(), second operand: mIsAlreadyPostWakeup.exchange(true).
wakeupExchange(p) ==
    /\ pc[p] = "exchange"
    /\ pc' = [pc EXCEPT ![p] = IF mIsAlreadyPostWakeup THEN "idle" ELSE "write"]
    /\ mIsAlreadyPostWakeup' = TRUE
    /\ UNCHANGED <<mSelfThreadid, mIsInBlock, queueVars, epollVars, loopPc, count, ran>>

\* WakeupChannel::wakeup: the write makes the eventfd readable and, because it
\* is a new edge, puts it back on the ready list.
wakeupWrite(p) ==
    /\ pc[p] = "write"
    /\ pc' = [pc EXCEPT ![p] = "idle"]
    /\ eventfd' = TRUE
    /\ edges' = edges \cup {Wakeup}
    /\ UNCHANGED <<mSelfThreadid, flagVars, queueVars, mEventEntriesNum, batch, full,
                   nonblock, loopPc, count, ran>>

\* The kernel reports something on a socket.
ioReady(c) ==
    /\ c \notin edges
    /\ edges' = edges \cup {c}
    /\ UNCHANGED <<mSelfThreadid, flagVars, queueVars, mEventEntriesNum, eventfd, batch,
                   full, nonblock, loopPc, pc, count, ran>>
-----------------------------------------------------------------------------
(* The loop thread. *)

\* The body of a callback that runs in the loop thread, after log has been
\* recorded: it may call pushAfterLoopProc, or pushAsyncProc, which runs the
\* proc on the spot.
UserCode(log) ==
    \/ ran' = log /\ UNCHANGED <<count, mAfterLoopProcs>>
    \/ /\ canPost(LoopThread) /\ posted(LoopThread)
       /\ mAfterLoopProcs' = Append(mAfterLoopProcs, nextProc(LoopThread))
       /\ ran' = log
    \/ /\ canPost(LoopThread) /\ posted(LoopThread)
       /\ ran' = Append(log, nextProc(LoopThread))
       /\ UNCHANGED mAfterLoopProcs

\* Mutant: the timeout is not forced to 0 when after-loop procs are waiting.
loopEnter_blocks ==
    /\ loopPc = "enter"
    /\ tryInitThreadID(LoopThread)
    /\ nonblock' = FALSE
    /\ loopPc' = IF mSelfThreadid' = LoopThread THEN "wait" ELSE "enter"
    /\ UNCHANGED <<flagVars, queueVars, mEventEntriesNum, eventfd, edges, batch, full, pc,
                   count, ran>>

\* loop() up to epoll_wait.  A thread that lost tryInitThreadID returns at once;
\* the worker of TcpService does not get that far, as its own getTimerMgr, in
\* front of loop() (TCPService.cpp:453), then returns nullptr and is used.
loopEnter ==
    /\ loopPc = "enter"
    /\ tryInitThreadID(LoopThread)
    /\ nonblock' = (mAfterLoopProcs # <<>>)
    /\ loopPc' = IF mSelfThreadid' = LoopThread THEN "wait" ELSE "enter"
    /\ UNCHANGED <<flagVars, queueVars, mEventEntriesNum, eventfd, edges, batch, full, pc,
                   count, ran>>

\* What epoll_wait can report: ready-list entries that still poll as ready.
Reportable == {c \in edges : c = Wakeup => eventfd}

\* epoll_wait returns as many events as are reportable and fit into the array.
epollReturn(S) ==
    /\ loopPc = "wait"
    /\ Reportable # {} \/ nonblock
    /\ S \subseteq Reportable
    /\ \/ S = Reportable /\ Cardinality(S) <= mEventEntriesNum
       \/ Cardinality(S) = mEventEntriesNum
    /\ batch' = S
    /\ edges' = IF S = Reportable THEN {} ELSE edges \ S
    /\ full' = (Cardinality(S) = mEventEntriesNum)
    /\ loopPc' = "woken"
    /\ UNCHANGED <<mSelfThreadid, flagVars, queueVars, mEventEntriesNum, eventfd,
                   nonblock, pc, count, ran>>

\* epoll_wait times out or is interrupted by a signal: no events.
epollTimeout ==
    /\ loopPc = "wait"
    /\ Reportable = {}
    /\ full' = FALSE
    /\ loopPc' = "woken"
    /\ UNCHANGED <<mSelfThreadid, flagVars, queueVars, mEventEntriesNum, eventfd, edges,
                   batch, nonblock, pc, count, ran>>

\* mIsInBlock = false
loopLeaveBlock ==
    /\ loopPc = "woken"
    /\ mIsInBlock' = FALSE
    /\ loopPc' = "dispatch"
    /\ UNCHANGED <<mSelfThreadid, mIsAlreadyPostWakeup, queueVars, epollVars, pc, count,
                   ran>>

\* One event of the batch: a socket's canRecv / canSend / onClose.
dispatchChannel(c) ==
    /\ loopPc = "dispatch"
    /\ c \in batch \ {Wakeup}
    /\ batch' = batch \ {c}
    /\ UserCode(ran)
    /\ UNCHANGED <<mSelfThreadid, flagVars, mAsyncProcs, mCopyAsyncProcs,
                   mCopyAfterLoopProcs, mEventEntriesNum, eventfd, edges, full, nonblock,
                   loopPc, pc>>

\* WakeupChannel::canRecv reads until EAGAIN.
dispatchWakeup ==
    /\ loopPc = "dispatch"
    /\ Wakeup \in batch
    /\ batch' = batch \ {Wakeup}
    /\ eventfd' = FALSE
    /\ UNCHANGED <<mSelfThreadid, flagVars, queueVars, mEventEntriesNum, edges, full,
                   nonblock, loopPc, pc, count, ran>>

\* Mutant: mIsAlreadyPostWakeup is never cleared.
loopClearPosted_never ==
    /\ loopPc = "dispatch" /\ batch = {}
    /\ loopPc' = "rearm"
    /\ UNCHANGED <<mSelfThreadid, flagVars, queueVars, epollVars, pc, count, ran>>

\* mIsAlreadyPostWakeup = false
loopClearPosted ==
    /\ loopPc = "dispatch"
    /\ batch = {}
    /\ mIsAlreadyPostWakeup' = FALSE
    /\ loopPc' = "rearm"
    /\ UNCHANGED <<mSelfThreadid, mIsInBlock, queueVars, epollVars, pc, count, ran>>

\* Mutant: mIsInBlock stays false after the first loop().
loopEnterBlock_never ==
    /\ loopPc = "rearm"
    /\ loopPc' = "swap"
    /\ UNCHANGED <<mSelfThreadid, flagVars, queueVars, epollVars, pc, count, ran>>

\* mIsInBlock = true
loopEnterBlock ==
    /\ loopPc = "rearm"
    /\ mIsInBlock' = TRUE
    /\ loopPc' = "swap"
    /\ UNCHANGED <<mSelfThreadid, mIsAlreadyPostWakeup, queueVars, epollVars, pc, count,
                   ran>>

\* Mutant: the vector is copied instead of swapped.
swapAsyncProcs_copies ==
    /\ loopPc = "swap"
    /\ mCopyAsyncProcs' = mAsyncProcs
    /\ loopPc' = "runAsync"
    /\ UNCHANGED <<mSelfThreadid, flagVars, mAsyncProcs, mAfterLoopProcs,
                   mCopyAfterLoopProcs, epollVars, pc, count, ran>>

\* processAsyncProcs: the critical section swaps the two vectors.
swapAsyncProcs ==
    /\ loopPc = "swap"
    /\ mCopyAsyncProcs' = mAsyncProcs
    /\ mAsyncProcs' = mCopyAsyncProcs
    /\ loopPc' = "runAsync"
    /\ UNCHANGED <<mSelfThreadid, flagVars, mAfterLoopProcs, mCopyAfterLoopProcs,
                   epollVars, pc, count, ran>>

\* One iteration of processAsyncProcs' for; the clear() after the last one is
\* the removal of each proc as it is run.
runAsyncProc ==
    /\ loopPc = "runAsync"
    /\ mCopyAsyncProcs # <<>>
    /\ mCopyAsyncProcs' = Tail(mCopyAsyncProcs)
    /\ UserCode(Append(ran, Head(mCopyAsyncProcs)))
    /\ UNCHANGED <<mSelfThreadid, flagVars, mAsyncProcs, mCopyAfterLoopProcs, epollVars,
                   loopPc, pc>>

\* processAfterLoopProcs swaps its two vectors, so that what a proc pushes
\* is left for the next loop().
swapAfterLoopProcs ==
    /\ loopPc = "runAsync"
    /\ mCopyAsyncProcs = <<>>
    /\ mCopyAfterLoopProcs' = mAfterLoopProcs
    /\ mAfterLoopProcs' = mCopyAfterLoopProcs
    /\ loopPc' = "runAfter"
    /\ UNCHANGED <<mSelfThreadid, flagVars, mAsyncProcs, mCopyAsyncProcs, epollVars, pc,
                   count, ran>>

runAfterLoopProc ==
    /\ loopPc = "runAfter"
    /\ mCopyAfterLoopProcs # <<>>
    /\ mCopyAfterLoopProcs' = Tail(mCopyAfterLoopProcs)
    /\ UserCode(Append(ran, Head(mCopyAfterLoopProcs)))
    /\ UNCHANGED <<mSelfThreadid, flagVars, mAsyncProcs, mCopyAsyncProcs, epollVars,
                   loopPc, pc>>

\* Mutant: a full event array shrinks.
loopFinish_shrinks ==
    /\ loopPc = "runAfter" /\ mCopyAfterLoopProcs = <<>>
    /\ mEventEntriesNum' = IF full THEN mEventEntriesNum - GrowEntries ELSE mEventEntriesNum
    /\ UserCode(ran)
    /\ loopPc' = "enter"
    /\ UNCHANGED <<mSelfThreadid, flagVars, mAsyncProcs, mCopyAsyncProcs,
                   mCopyAfterLoopProcs, eventfd, edges, batch, full, nonblock, pc>>

\* The end of loop(): a full event array grows, then the timers fire.  The frame
\* callback of the worker thread runs between this loop() and the next.
loopFinish ==
    /\ loopPc = "runAfter"
    /\ mCopyAfterLoopProcs = <<>>
    /\ mEventEntriesNum' = IF full THEN mEventEntriesNum + GrowEntries ELSE mEventEntriesNum
    /\ UserCode(ran)
    /\ loopPc' = "enter"
    /\ UNCHANGED <<mSelfThreadid, flagVars, mAsyncProcs, mCopyAsyncProcs,
                   mCopyAfterLoopProcs, eventfd, edges, batch, full, nonblock, pc>>
-----------------------------------------------------------------------------
\* A thread that has entered pushAsyncProc or wakeup() finishes the call.
Continue(p) == wakeupCheck(p) \/ wakeupExchange(p) \/ wakeupWrite(p)

Producer(p) == \/ getTimerMgr(p)
               \/ pushAsyncProc(p)
               \/ pushAsyncProcInThread(p)
               \/ callWakeup(p)
               \/ Continue(p)

\* The loop thread, except that nothing makes a blocking epoll_wait time out.
Loop == \/ loopEnter
        \/ \E S \in SUBSET edges : epollReturn(S)
        \/ loopLeaveBlock
        \/ \E c \in Channels : dispatchChannel(c)
        \/ dispatchWakeup
        \/ loopClearPosted
        \/ loopEnterBlock
        \/ swapAsyncProcs
        \/ runAsyncProc
        \/ swapAfterLoopProcs
        \/ runAfterLoopProc
        \/ loopFinish

Next == \/ \E p \in Producers : Producer(p)
        \/ \E c \in Channels : ioReady(c)
        \/ Loop
        \/ epollTimeout

Spec == Init /\ [][Next]_vars

\* The worker thread calls loop() for as long as it runs, and a thread does not
\* stop inside a call.  No fairness for new posts, sockets or timeouts.
Fairness == WF_vars(Loop) /\ \A p \in Producers : WF_vars(Continue(p))

FairSpec == Spec /\ Fairness
-----------------------------------------------------------------------------
(* What is checked. *)

In(x, q) == \E i \in 1..Len(q) : q[i] = x

\* Procs of one producer stand in q in the order in which it posted them.
Sorted(q) ==
    \A i, j \in 1..Len(q) :
        i < j /\ q[i][1] = q[j][1] /\ q[i][1] \in Producers => q[i][2] < q[j][2]

\* Procs posted and not yet run.
Outstanding(t) == {n \in 1..count[t] : ~ In(<<t, n>>, ran)}

\* The eventfd is certain to end the next epoll_wait.
SignalPending == Wakeup \in Reportable

\* A poster that has pushed its proc and may still be about to write the eventfd.
WakeupInFlight == \E p \in Producers : pc[p] # "idle"

(***************************************************************************)
(* No lost wakeup.  While the loop thread sits in epoll_wait (line 213)    *)
(* and procs are queued, either the eventfd will end the wait or a poster  *)
(* is still inside wakeup() (line 280).  It depends on the order of the    *)
(* two resets (lines 242, 243) and the swap (line 270), and on a poster    *)
(* that skips the write because another one set mIsAlreadyPostWakeup.      *)
(***************************************************************************)
NoLostWakeup ==
    loopPc = "wait" /\ mAsyncProcs # <<>> => SignalPending \/ WakeupInFlight

(***************************************************************************)
(* A loop that may sleep for its whole timeout, with nobody about to wake  *)
(* it, has run every proc ever posted to it: by pushAsyncProc, by          *)
(* pushAfterLoopProc, and by procs that were themselves run in this loop   *)
(* (lines 166-169 keep the loop from blocking on the latter).              *)
(***************************************************************************)
SleepsOnlyWhenDone ==
    loopPc = "wait" /\ ~ nonblock /\ ~ SignalPending /\ ~ WakeupInFlight
        => \A t \in Threads : Outstanding(t) = {}

(***************************************************************************)
(* Procs a thread posts run in the order in which it posted them, however  *)
(* the vectors are swapped under it (lines 267-278, 304-334).              *)
(***************************************************************************)
RunInPostOrder == Sorted(ran)

(***************************************************************************)
(* The loop implements the two FIFO lanes of TaskQueue: nothing posted is  *)
(* dropped, run twice or overtaken in its lane.                            *)
(***************************************************************************)
Lanes == INSTANCE TaskQueue WITH async <- mCopyAsyncProcs \o mAsyncProcs,
                                 after <- mCopyAfterLoopProcs \o mAfterLoopProcs

ImplementsTaskQueue == Lanes!Spec

(***************************************************************************)
(* Every posted proc runs in the end, even if epoll_wait never times out.  *)
(***************************************************************************)
EveryProcRuns ==
    \A t \in Threads : \A n \in 1..Limit(t) : count[t] >= n ~> In(<<t, n>>, ran)

(***************************************************************************)
(* EventLoop.h:66 says of getTimerMgr that it returns nullptr when it is   *)
(* called off the network thread: no other thread ever owns the loop.      *)
(***************************************************************************)
TimerMgrOnlyOnLoopThread == mSelfThreadid \notin Producers
=============================================================================
