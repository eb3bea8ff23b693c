--------------------------- MODULE EventLoopProofs ---------------------------
(***************************************************************************)
(* Proofs about EventLoop, for any number of producers, sockets and posts. *)
(***************************************************************************)
EXTENDS EventLoop, SequenceTheorems, TLAPS

-----------------------------------------------------------------------------
(* Inductive strengthening of NoLostWakeup. *)

\* The posters see mIsInBlock off exactly from line 215 to line 243.
BlockFlag == mIsInBlock = (loopPc \notin {"dispatch", "rearm"})

BatchInv == loopPc \notin {"woken", "dispatch"} => batch = {}

\* A readable eventfd is on the ready list or already reported to this loop().
EdgeInv == eventfd => Wakeup \in edges \cup batch

\* Outside the window in which the eventfd is drained and the flag cleared, the
\* flag stands for a write that has happened or is about to.
PostedInv == loopPc \notin {"woken", "dispatch"} /\ mIsAlreadyPostWakeup
                 => eventfd \/ \E p \in Producers : pc[p] = "write"

\* A proc pushed after the swap has a flag, or a poster that will see mIsInBlock on.
QueuedInv == loopPc \in {"runAsync", "runAfter", "enter", "wait"} /\ mAsyncProcs # <<>>
                 => \/ mIsAlreadyPostWakeup
                    \/ \E p \in Producers : pc[p] \in {"check", "exchange"}

CopyInv == /\ loopPc # "runAsync" => mCopyAsyncProcs = <<>>
           /\ loopPc # "runAfter" => mCopyAfterLoopProcs = <<>>

WakeupInv == BlockFlag /\ BatchInv /\ EdgeInv /\ PostedInv /\ QueuedInv /\ CopyInv

(* Inductive strengthening of SleepsOnlyWhenDone. *)

Somewhere(x) == \/ In(x, ran)
                \/ In(x, mAsyncProcs)
                \/ In(x, mCopyAsyncProcs)
                \/ In(x, mAfterLoopProcs)
                \/ In(x, mCopyAfterLoopProcs)

\* No posted proc gets lost on its way through the vectors.
Conserved == \A t \in Threads : \A n \in 1..count[t] : Somewhere(<<t, n>>)

AfterInv == loopPc = "wait" /\ ~ nonblock => mAfterLoopProcs = <<>>

(* Inductive strengthening of RunInPostOrder and of the refinement. *)

\* loop() does not get past its first lines in a thread that is not the owner.
OwnerInv == loopPc # "enter" => mSelfThreadid = LoopThread

\* What stands in q was posted before what stands in r.  A thread that took the
\* loop's identity with getTimerMgr is left out: its procs overtake the queue.
Precedes(q, r) ==
    \A i \in 1..Len(q), j \in 1..Len(r) :
        q[i][1] = r[j][1] /\ q[i][1] \in Producers \ {mSelfThreadid} => q[i][2] < r[j][2]

LoopOwn(q) == \A i \in 1..Len(q) : q[i][1] = LoopThread

\* Sequence numbers in use are numbers already given out.
Bounded(q) == \A i \in 1..Len(q) : q[i][2] <= count[q[i][1]]

OrderInv ==
    /\ OwnerInv
    /\ Sorted(ran) /\ Sorted(mCopyAsyncProcs) /\ Sorted(mAsyncProcs)
    /\ Precedes(ran, mCopyAsyncProcs)
    /\ Precedes(ran, mAsyncProcs)
    /\ Precedes(mCopyAsyncProcs, mAsyncProcs)
    /\ LoopOwn(mAfterLoopProcs) /\ LoopOwn(mCopyAfterLoopProcs)

BoundInv == /\ Bounded(ran)
            /\ Bounded(mAsyncProcs) /\ Bounded(mCopyAsyncProcs)
            /\ Bounded(mAfterLoopProcs) /\ Bounded(mCopyAfterLoopProcs)
-----------------------------------------------------------------------------
(* Types. *)

LEMMA NextProcType ==
    ASSUME TypeOK, NEW t \in Threads, canPost(t)
    PROVE  /\ nextProc(t) \in Procs
           /\ count[t] + 1 \in Nat
           /\ count[t] + 1 <= Limit(t)
<1>1. count[t] \in Nat /\ Limit(t) \in Nat
  BY EventLoopAssumption DEF TypeOK, Limit
<1>2. count[t] + 1 \in 1..Limit(t)
  BY <1>1 DEF canPost
<1>3. nextProc(t) \in {t} \X (1..Limit(t))
  BY <1>2 DEF nextProc
<1> QED BY <1>1, <1>2, <1>3 DEF Procs

\* What a callback body may leave behind, in terms of the types.
LEMMA UserCodeType ==
    ASSUME TypeOK, NEW log \in Seq(Procs), UserCode(log)
    PROVE  /\ ran' \in Seq(Procs)
           /\ mAfterLoopProcs' \in Seq(Procs)
           /\ count' \in [Threads -> Nat]
           /\ \A t \in Threads : count'[t] <= Limit(t)
<1> LoopThread \in Threads
  BY DEF Threads
<1>1. CASE ran' = log /\ UNCHANGED <<count, mAfterLoopProcs>>
  BY <1>1 DEF TypeOK
<1>2. CASE /\ canPost(LoopThread) /\ posted(LoopThread)
           /\ mAfterLoopProcs' = Append(mAfterLoopProcs, nextProc(LoopThread))
           /\ ran' = log
  BY <1>2, NextProcType DEF TypeOK, posted
<1>3. CASE /\ canPost(LoopThread) /\ posted(LoopThread)
           /\ ran' = Append(log, nextProc(LoopThread))
           /\ UNCHANGED mAfterLoopProcs
  BY <1>3, NextProcType DEF TypeOK, posted
<1> QED BY <1>1, <1>2, <1>3 DEF UserCode

\* Every step keeps the types.
LEMMA TypeStep == TypeOK /\ [Next]_vars => TypeOK'
<1> SUFFICES ASSUME TypeOK, [Next]_vars PROVE TypeOK'
  OBVIOUS
<1> USE DEF flagVars, queueVars, epollVars
<1>1. ASSUME NEW p \in Producers, getTimerMgr(p) PROVE TypeOK'
  BY <1>1 DEF TypeOK, getTimerMgr, tryInitThreadID, Threads
<1>2. ASSUME NEW p \in Producers, pushAsyncProc(p) PROVE TypeOK'
  <2>1. p \in Threads /\ canPost(p)
    BY <1>2 DEF Threads, pushAsyncProc
  <2> QED BY <1>2, <2>1, NextProcType DEF TypeOK, pushAsyncProc, posted
<1>3. ASSUME NEW p \in Producers, pushAsyncProcInThread(p) PROVE TypeOK'
  <2>1. p \in Threads /\ canPost(p)
    BY <1>3 DEF Threads, pushAsyncProcInThread
  <2> QED BY <1>3, <2>1, NextProcType DEF TypeOK, pushAsyncProcInThread, posted
<1>4. ASSUME NEW p \in Producers, callWakeup(p) PROVE TypeOK'
  BY <1>4 DEF TypeOK, callWakeup
<1>5. ASSUME NEW p \in Producers, Continue(p) PROVE TypeOK'
  BY <1>5 DEF TypeOK, Continue, wakeupCheck, wakeupExchange, wakeupWrite
<1>6. ASSUME NEW c \in Channels, ioReady(c) PROVE TypeOK'
  BY <1>6 DEF TypeOK, ioReady
<1>7. CASE loopEnter
  BY <1>7 DEF TypeOK, loopEnter, tryInitThreadID, Threads, LoopPcs
<1>8. ASSUME NEW S \in SUBSET edges, epollReturn(S) PROVE TypeOK'
  BY <1>8 DEF TypeOK, epollReturn, LoopPcs
<1>9. CASE epollTimeout
  BY <1>9 DEF TypeOK, epollTimeout, LoopPcs
<1>10. CASE loopLeaveBlock
  BY <1>10 DEF TypeOK, loopLeaveBlock, LoopPcs
<1>11. ASSUME NEW c \in Channels, dispatchChannel(c) PROVE TypeOK'
  <2>1. ran \in Seq(Procs) /\ UserCode(ran)
    BY <1>11 DEF TypeOK, dispatchChannel
  <2> HIDE DEF UserCode
  <2> QED BY <1>11, <2>1, UserCodeType DEF TypeOK, dispatchChannel
<1>12. CASE dispatchWakeup
  BY <1>12 DEF TypeOK, dispatchWakeup
<1>13. CASE loopClearPosted
  BY <1>13 DEF TypeOK, loopClearPosted, LoopPcs
<1>14. CASE loopEnterBlock
  BY <1>14 DEF TypeOK, loopEnterBlock, LoopPcs
<1>15. CASE swapAsyncProcs
  BY <1>15 DEF TypeOK, swapAsyncProcs, LoopPcs
<1>16. CASE runAsyncProc
  <2>1. /\ mCopyAsyncProcs \in Seq(Procs) /\ mCopyAsyncProcs # <<>>
        /\ Tail(mCopyAsyncProcs) \in Seq(Procs)
        /\ Append(ran, Head(mCopyAsyncProcs)) \in Seq(Procs)
    BY <1>16 DEF TypeOK, runAsyncProc
  <2>2. UserCode(Append(ran, Head(mCopyAsyncProcs)))
    BY <1>16 DEF runAsyncProc
  <2> QED BY <1>16, <2>1, <2>2, UserCodeType DEF TypeOK, runAsyncProc
<1>17. CASE swapAfterLoopProcs
  BY <1>17 DEF TypeOK, swapAfterLoopProcs, LoopPcs
<1>18. CASE runAfterLoopProc
  <2>1. /\ mCopyAfterLoopProcs \in Seq(Procs) /\ mCopyAfterLoopProcs # <<>>
        /\ Tail(mCopyAfterLoopProcs) \in Seq(Procs)
        /\ Append(ran, Head(mCopyAfterLoopProcs)) \in Seq(Procs)
    BY <1>18 DEF TypeOK, runAfterLoopProc
  <2>2. UserCode(Append(ran, Head(mCopyAfterLoopProcs)))
    BY <1>18 DEF runAfterLoopProc
  <2> QED BY <1>18, <2>1, <2>2, UserCodeType DEF TypeOK, runAfterLoopProc
<1>19. CASE loopFinish
  <2>1. ran \in Seq(Procs) /\ UserCode(ran)
    BY <1>19 DEF TypeOK, loopFinish
  <2>2. mEventEntriesNum' \in Nat
    BY <1>19, EventLoopAssumption DEF TypeOK, loopFinish
  <2> QED BY <1>19, <2>1, <2>2, UserCodeType DEF TypeOK, loopFinish, LoopPcs
<1>20. CASE UNCHANGED vars
  BY <1>20 DEF TypeOK, vars
<1> QED
  BY <1>1, <1>2, <1>3, <1>4, <1>5, <1>6, <1>7, <1>8, <1>9, <1>10, <1>11, <1>12, <1>13,
     <1>14, <1>15, <1>16, <1>17, <1>18, <1>19, <1>20 DEF Next, Producer, Loop

\* Every variable of the event loop keeps its type.
THEOREM TypeCorrect == Spec => []TypeOK
<1>1. Init => TypeOK
  <2>1. ASSUME NEW t \in Threads PROVE Limit(t) \in Nat
    BY EventLoopAssumption DEF Limit
  <2>2. Init => \A t \in Threads : count[t] <= Limit(t)
    BY <2>1 DEF Init
  <2>3. Init => /\ pc \in [Producers -> {"idle", "check", "exchange", "write"}]
                /\ count \in [Threads -> Nat]
    BY DEF Init
  <2>4. <<>> \in Seq(Procs) /\ InitEntries \in Nat
    BY EventLoopAssumption
  <2> QED BY <2>2, <2>3, <2>4 DEF Init, TypeOK, LoopPcs
<1> QED BY <1>1, TypeStep, PTL DEF Spec
-----------------------------------------------------------------------------
(* The wakeup protocol. *)

LEMMA WakeupInvStep == TypeOK /\ WakeupInv /\ [Next]_vars => WakeupInv'
<1> SUFFICES ASSUME TypeOK, WakeupInv, [Next]_vars PROVE WakeupInv'
  OBVIOUS
<1> USE DEF flagVars, queueVars, epollVars, WakeupInv, BlockFlag, BatchInv, EdgeInv,
            PostedInv, QueuedInv, CopyInv
<1>1. ASSUME NEW p \in Producers, getTimerMgr(p) PROVE WakeupInv'
  BY <1>1 DEF getTimerMgr
<1>2. ASSUME NEW p \in Producers, pushAsyncProc(p) PROVE WakeupInv'
  BY <1>2 DEF TypeOK, pushAsyncProc
<1>3. ASSUME NEW p \in Producers, pushAsyncProcInThread(p) PROVE WakeupInv'
  BY <1>3 DEF pushAsyncProcInThread
<1>4. ASSUME NEW p \in Producers, callWakeup(p) PROVE WakeupInv'
  BY <1>4 DEF TypeOK, callWakeup
<1>5. ASSUME NEW p \in Producers, wakeupCheck(p) PROVE WakeupInv'
  BY <1>5 DEF TypeOK, wakeupCheck
<1>6. ASSUME NEW p \in Producers, wakeupExchange(p) PROVE WakeupInv'
  BY <1>6 DEF TypeOK, wakeupExchange
<1>7. ASSUME NEW p \in Producers, wakeupWrite(p) PROVE WakeupInv'
  BY <1>7 DEF TypeOK, wakeupWrite
<1>8. ASSUME NEW c \in Channels, ioReady(c) PROVE WakeupInv'
  BY <1>8 DEF ioReady
<1>9. CASE loopEnter
  BY <1>9 DEF loopEnter
<1>10. ASSUME NEW S \in SUBSET edges, epollReturn(S) PROVE WakeupInv'
  <2>1. EdgeInv'
    BY <1>10 DEF epollReturn, Reportable
  <2> QED BY <1>10, <2>1 DEF epollReturn
<1>11. CASE epollTimeout
  BY <1>11 DEF epollTimeout
<1>12. CASE loopLeaveBlock
  BY <1>12 DEF loopLeaveBlock
<1>13. ASSUME NEW c \in Channels, dispatchChannel(c) PROVE WakeupInv'
  BY <1>13 DEF dispatchChannel
<1>14. CASE dispatchWakeup
  BY <1>14 DEF dispatchWakeup
<1>15. CASE loopClearPosted
  BY <1>15 DEF loopClearPosted
<1>16. CASE loopEnterBlock
  BY <1>16 DEF loopEnterBlock
<1>17. CASE swapAsyncProcs
  BY <1>17 DEF swapAsyncProcs
<1>18. CASE runAsyncProc
  BY <1>18 DEF runAsyncProc
<1>19. CASE swapAfterLoopProcs
  BY <1>19 DEF swapAfterLoopProcs
<1>20. CASE runAfterLoopProc
  BY <1>20 DEF runAfterLoopProc
<1>21. CASE loopFinish
  BY <1>21 DEF loopFinish
<1>22. CASE UNCHANGED vars
  BY <1>22 DEF vars
<1> QED
  BY <1>1, <1>2, <1>3, <1>4, <1>5, <1>6, <1>7, <1>8, <1>9, <1>10, <1>11, <1>12, <1>13,
     <1>14, <1>15, <1>16, <1>17, <1>18, <1>19, <1>20, <1>21, <1>22
  DEF Next, Producer, Continue, Loop

\* WakeupInv holds at all times.
LEMMA WakeupInvariant == Spec => []WakeupInv
<1>1. Init => WakeupInv
  BY DEF Init, WakeupInv, BlockFlag, BatchInv, EdgeInv, PostedInv, QueuedInv, CopyInv
<1> QED BY <1>1, TypeCorrect, WakeupInvStep, PTL DEF Spec

(***************************************************************************)
(* A loop blocked in epoll_wait with procs queued will be woken: the       *)
(* eventfd is readable or a poster is still inside wakeup().               *)
(***************************************************************************)
THEOREM NoWakeupIsLost == Spec => []NoLostWakeup
<1>1. TypeOK /\ WakeupInv => NoLostWakeup
  BY DEF TypeOK, WakeupInv, BatchInv, EdgeInv, PostedInv, QueuedInv, NoLostWakeup,
         SignalPending, WakeupInFlight, Reportable
<1> QED BY <1>1, TypeCorrect, WakeupInvariant, PTL
-----------------------------------------------------------------------------
(* Procs are conserved. *)

LEMMA InAppend ==
    ASSUME NEW S, NEW q \in Seq(S), NEW x \in S
    PROVE  /\ In(x, Append(q, x))
           /\ \A y : In(y, q) => In(y, Append(q, x))
           /\ \A y : In(y, Append(q, x)) => In(y, q) \/ y = x
<1>1. Len(Append(q, x)) = Len(q) + 1 /\ Len(q) \in Nat
  OBVIOUS
<1>2. \A i \in 1..Len(q) : Append(q, x)[i] = q[i]
  OBVIOUS
<1>3. Append(q, x)[Len(q) + 1] = x
  OBVIOUS
<1> QED BY <1>1, <1>2, <1>3 DEF In

\* What is in a sequence is its head or in its tail.
LEMMA InTail ==
    ASSUME NEW S, NEW q \in Seq(S), q # <<>>
    PROVE  /\ In(Head(q), q)
           /\ \A y : In(y, q) => In(y, Tail(q)) \/ y = Head(q)
           /\ \A y : In(y, Tail(q)) => In(y, q)
<1>1. Len(Tail(q)) = Len(q) - 1 /\ Len(q) \in Nat \ {0}
  OBVIOUS
<1>2. \A i \in 1..(Len(q) - 1) : Tail(q)[i] = q[i + 1]
  OBVIOUS
<1>3. Head(q) = q[1]
  OBVIOUS
<1>4. ASSUME NEW y, In(y, q) PROVE In(y, Tail(q)) \/ y = Head(q)
  <2>1. PICK i \in 1..Len(q) : q[i] = y
    BY <1>4 DEF In
  <2>2. CASE i = 1
    BY <2>1, <2>2, <1>3
  <2>3. CASE i # 1
    <3>1. i - 1 \in 1..(Len(q) - 1) /\ (i - 1) + 1 = i
      BY <2>3, <1>1
    <3>2. Tail(q)[i - 1] = y
      BY <3>1, <1>2, <2>1
    <3> QED BY <3>1, <3>2, <1>1 DEF In
  <2> QED BY <2>2, <2>3
<1>5. ASSUME NEW y, In(y, Tail(q)) PROVE In(y, q)
  <2>1. PICK i \in 1..(Len(q) - 1) : Tail(q)[i] = y
    BY <1>5, <1>1 DEF In
  <2>2. i + 1 \in 1..Len(q) /\ q[i + 1] = y
    BY <2>1, <1>1, <1>2
  <2> QED BY <2>2 DEF In
<1> QED BY <1>1, <1>3, <1>4, <1>5 DEF In

\* A callback body keeps what its lanes hold and accounts for what it posts.
LEMMA UserCodeIn ==
    ASSUME TypeOK, NEW log \in Seq(Procs), UserCode(log)
    PROVE  /\ \A x : In(x, log) => In(x, ran')
           /\ \A x : In(x, mAfterLoopProcs) => In(x, mAfterLoopProcs')
           /\ \A t \in Threads : \A n \in 1..count'[t] :
                  n \in 1..count[t] \/ In(<<t, n>>, ran') \/ In(<<t, n>>, mAfterLoopProcs')
<1> DEFINE x == nextProc(LoopThread)
<1>0. LoopThread \in Threads
  BY DEF Threads
<1>1. CASE ran' = log /\ UNCHANGED <<count, mAfterLoopProcs>>
  BY <1>1
<1>2. ASSUME canPost(LoopThread), posted(LoopThread)
      PROVE  /\ x \in Procs
             /\ \A t \in Threads : \A n \in 1..count'[t] : n \in 1..count[t] \/ <<t, n>> = x
  <2>1. x \in Procs
    BY <1>0, <1>2, NextProcType
  <2>2. ASSUME NEW t \in Threads, NEW n \in 1..count'[t] PROVE n \in 1..count[t] \/ <<t, n>> = x
    BY <1>0, <1>2 DEF posted, nextProc, TypeOK
  <2> QED BY <2>1, <2>2
<1>3. CASE /\ canPost(LoopThread) /\ posted(LoopThread)
           /\ mAfterLoopProcs' = Append(mAfterLoopProcs, x)
           /\ ran' = log
  <2>1. mAfterLoopProcs \in Seq(Procs)
    BY DEF TypeOK
  <2>2. In(x, mAfterLoopProcs') /\ \A y : In(y, mAfterLoopProcs) => In(y, mAfterLoopProcs')
    BY <1>2, <1>3, <2>1, InAppend
  <2>3. \A y : In(y, log) => In(y, ran')
    BY <1>3
  <2>4. ASSUME NEW t \in Threads, NEW n \in 1..count'[t]
        PROVE  n \in 1..count[t] \/ In(<<t, n>>, mAfterLoopProcs')
    BY <1>2, <1>3, <2>2
  <2> QED BY <2>2, <2>3, <2>4
<1>4. CASE /\ canPost(LoopThread) /\ posted(LoopThread)
           /\ ran' = Append(log, x)
           /\ UNCHANGED mAfterLoopProcs
  BY <1>2, <1>4, InAppend
<1> QED BY <1>1, <1>3, <1>4 DEF UserCode

\* No step drops a proc.
LEMMA ConservedStep == TypeOK /\ CopyInv /\ Conserved /\ [Next]_vars => Conserved'
<1> SUFFICES ASSUME TypeOK, CopyInv, Conserved, [Next]_vars PROVE Conserved'
  OBVIOUS
<1> USE DEF flagVars, queueVars, epollVars
<1>0. ASSUME UNCHANGED <<queueVars, count, ran>> PROVE Conserved'
  BY <1>0 DEF Conserved, Somewhere, In
<1>1. ASSUME NEW p \in Producers, pushAsyncProc(p) PROVE Conserved'
  <2>1. p \in Threads /\ nextProc(p) \in Procs /\ mAsyncProcs \in Seq(Procs)
    BY <1>1, NextProcType DEF Threads, pushAsyncProc, TypeOK
  <2>2. ASSUME NEW t \in Threads, NEW n \in 1..count'[t]
        PROVE  n \in 1..count[t] \/ <<t, n>> = nextProc(p)
    BY <1>1, <2>1 DEF pushAsyncProc, posted, nextProc, TypeOK
  <2>3. /\ In(nextProc(p), mAsyncProcs')
        /\ \A y : In(y, mAsyncProcs) => In(y, mAsyncProcs')
    BY <1>1, <2>1, InAppend DEF pushAsyncProc
  <2>4. \A y : Somewhere(y) => Somewhere(y)'
    BY <1>1, <2>3 DEF pushAsyncProc, Somewhere, In
  <2> QED BY <2>2, <2>3, <2>4 DEF Conserved, Somewhere, In
<1>2. ASSUME NEW p \in Producers, pushAsyncProcInThread(p) PROVE Conserved'
  <2>1. p \in Threads /\ nextProc(p) \in Procs /\ ran \in Seq(Procs)
    BY <1>2, NextProcType DEF Threads, pushAsyncProcInThread, TypeOK
  <2>2. ASSUME NEW t \in Threads, NEW n \in 1..count'[t]
        PROVE  n \in 1..count[t] \/ <<t, n>> = nextProc(p)
    BY <1>2, <2>1 DEF pushAsyncProcInThread, posted, nextProc, TypeOK
  <2>3. In(nextProc(p), ran') /\ \A y : In(y, ran) => In(y, ran')
    BY <1>2, <2>1, InAppend DEF pushAsyncProcInThread
  <2>4. \A y : Somewhere(y) => Somewhere(y)'
    BY <1>2, <2>3 DEF pushAsyncProcInThread, Somewhere, In
  <2> QED BY <2>2, <2>3, <2>4 DEF Conserved, Somewhere, In
<1>3. ASSUME UNCHANGED <<mAsyncProcs, mCopyAsyncProcs, mCopyAfterLoopProcs>>, UserCode(ran)
      PROVE  Conserved'
  <2>1. ran \in Seq(Procs)
    BY DEF TypeOK
  <2>2. /\ \A x : In(x, ran) => In(x, ran')
        /\ \A x : In(x, mAfterLoopProcs) => In(x, mAfterLoopProcs')
        /\ \A t \in Threads : \A n \in 1..count'[t] :
              n \in 1..count[t] \/ In(<<t, n>>, ran') \/ In(<<t, n>>, mAfterLoopProcs')
    BY <1>3, <2>1, UserCodeIn
  <2>3. \A y : Somewhere(y) => Somewhere(y)'
    BY <1>3, <2>2 DEF Somewhere, In
  <2> QED BY <2>2, <2>3 DEF Conserved, Somewhere, In
<1>4. CASE swapAsyncProcs
  BY <1>4 DEF swapAsyncProcs, Conserved, Somewhere, In
<1>5. CASE swapAfterLoopProcs
  BY <1>5 DEF swapAfterLoopProcs, Conserved, Somewhere, In
<1>6. CASE runAsyncProc
  <2> DEFINE q   == mCopyAsyncProcs
             log == Append(ran, Head(q))
  <2>1. /\ q \in Seq(Procs) /\ q # <<>> /\ Head(q) \in Procs /\ ran \in Seq(Procs)
        /\ log \in Seq(Procs) /\ q' = Tail(q)
    BY <1>6 DEF TypeOK, runAsyncProc
  <2>2. \A y : In(y, q) => In(y, q') \/ In(y, log)
    BY <2>1, InTail, InAppend
  <2>3. \A y : In(y, ran) => In(y, log)
    BY <2>1, InAppend
  <2> HIDE DEF log
  <2>4. /\ \A x : In(x, log) => In(x, ran')
        /\ \A x : In(x, mAfterLoopProcs) => In(x, mAfterLoopProcs')
        /\ \A t \in Threads : \A n \in 1..count'[t] :
              n \in 1..count[t] \/ In(<<t, n>>, ran') \/ In(<<t, n>>, mAfterLoopProcs')
    BY <1>6, <2>1, UserCodeIn DEF runAsyncProc, log
  <2>5. \A y : Somewhere(y) => Somewhere(y)'
    BY <1>6, <2>2, <2>3, <2>4 DEF Somewhere, In, runAsyncProc
  <2> QED BY <2>4, <2>5 DEF Conserved, Somewhere, In
<1>7. CASE runAfterLoopProc
  <2> DEFINE q   == mCopyAfterLoopProcs
             log == Append(ran, Head(q))
  <2>1. /\ q \in Seq(Procs) /\ q # <<>> /\ Head(q) \in Procs /\ ran \in Seq(Procs)
        /\ log \in Seq(Procs) /\ q' = Tail(q)
    BY <1>7 DEF TypeOK, runAfterLoopProc
  <2>2. \A y : In(y, q) => In(y, q') \/ In(y, log)
    BY <2>1, InTail, InAppend
  <2>3. \A y : In(y, ran) => In(y, log)
    BY <2>1, InAppend
  <2> HIDE DEF log
  <2>4. /\ \A x : In(x, log) => In(x, ran')
        /\ \A x : In(x, mAfterLoopProcs) => In(x, mAfterLoopProcs')
        /\ \A t \in Threads : \A n \in 1..count'[t] :
              n \in 1..count[t] \/ In(<<t, n>>, ran') \/ In(<<t, n>>, mAfterLoopProcs')
    BY <1>7, <2>1, UserCodeIn DEF runAfterLoopProc, log
  <2>5. \A y : Somewhere(y) => Somewhere(y)'
    BY <1>7, <2>2, <2>3, <2>4 DEF Somewhere, In, runAfterLoopProc
  <2> QED BY <2>4, <2>5 DEF Conserved, Somewhere, In
<1> QED
  BY <1>0, <1>1, <1>2, <1>3, <1>4, <1>5, <1>6, <1>7
  DEF Next, vars, Producer, Continue, Loop, getTimerMgr, callWakeup, wakeupCheck,
      wakeupExchange, wakeupWrite, ioReady, loopEnter, epollReturn, epollTimeout,
      loopLeaveBlock, dispatchChannel, dispatchWakeup, loopClearPosted, loopEnterBlock,
      loopFinish

\* Every step keeps AfterInv.
LEMMA AfterInvStep == AfterInv /\ [Next]_vars => AfterInv'
  BY DEF AfterInv, flagVars, queueVars, epollVars, Next, vars, Producer, Continue, Loop,
      getTimerMgr, pushAsyncProc, pushAsyncProcInThread, callWakeup, wakeupCheck,
      wakeupExchange, wakeupWrite, ioReady, loopEnter, epollReturn, epollTimeout,
      loopLeaveBlock, dispatchChannel, dispatchWakeup, loopClearPosted, loopEnterBlock,
      swapAsyncProcs, runAsyncProc, swapAfterLoopProcs, runAfterLoopProc, loopFinish

(***************************************************************************)
(* A loop that may sleep for its whole timeout with nobody about to wake   *)
(* it has run every proc that was ever posted to it.                       *)
(***************************************************************************)
THEOREM SleepMeansDone == Spec => []SleepsOnlyWhenDone
<1>1. Init => Conserved /\ AfterInv
  <2>1. Init => \A t \in Threads : 1..count[t] = {}
    BY DEF Init
  <2> QED BY <2>1 DEF Init, Conserved, AfterInv
<1>2. WakeupInv => CopyInv
  BY DEF WakeupInv
<1>3. TypeOK /\ WakeupInv /\ NoLostWakeup /\ Conserved /\ AfterInv => SleepsOnlyWhenDone
  <2> SUFFICES ASSUME TypeOK, CopyInv, NoLostWakeup, Conserved, AfterInv,
                      loopPc = "wait", ~ nonblock, ~ SignalPending, ~ WakeupInFlight,
                      NEW t \in Threads
               PROVE  Outstanding(t) = {}
    BY <1>2 DEF SleepsOnlyWhenDone
  <2>1. /\ mAsyncProcs = <<>> /\ mCopyAsyncProcs = <<>>
        /\ mAfterLoopProcs = <<>> /\ mCopyAfterLoopProcs = <<>>
    BY DEF NoLostWakeup, CopyInv, AfterInv
  <2>2. \A x : ~ In(x, <<>>)
    BY DEF In
  <2>3. \A n \in 1..count[t] : In(<<t, n>>, ran)
    BY <2>1, <2>2 DEF Conserved, Somewhere
  <2> QED BY <2>3 DEF Outstanding
<1> QED
  BY <1>1, <1>2, <1>3, TypeCorrect, WakeupInvariant, NoWakeupIsLost, ConservedStep,
     AfterInvStep, PTL DEF Spec
-----------------------------------------------------------------------------
(* Sequence numbers in use have been given out. *)

LEMMA BoundedAppend ==
    ASSUME NEW q \in Seq(Procs), NEW x \in Procs, Bounded(q), x[2] <= count[x[1]]
    PROVE  Bounded(Append(q, x))
  BY DEF Bounded

\* Taking a proc keeps the bounds of the others.
LEMMA BoundedTail ==
    ASSUME NEW q \in Seq(Procs), q # <<>>, Bounded(q)
    PROVE  Bounded(Tail(q)) /\ Head(q)[2] <= count[Head(q)[1]]
  BY DEF Bounded

\* The counters only grow, so a bounded vector stays bounded when it does not change.
LEMMA BoundedMono ==
    ASSUME TypeOK, NEW q \in Seq(Procs), Bounded(q),
           count' \in [Threads -> Nat], \A t \in Threads : count[t] <= count'[t]
    PROVE  \A i \in 1..Len(q) : q[i][2] <= count'[q[i][1]]
<1> SUFFICES ASSUME NEW i \in 1..Len(q) PROVE q[i][2] <= count'[q[i][1]]
  OBVIOUS
<1>1. q[i] \in Procs
  OBVIOUS
<1>2. q[i][1] \in Threads /\ q[i][2] \in Nat
  <2>1. PICK t \in Threads : q[i] \in {t} \X (1..Limit(t))
    BY <1>1 DEF Procs
  <2> QED BY <2>1, EventLoopAssumption DEF Limit
<1>3. q[i][2] <= count[q[i][1]]
  BY DEF Bounded
<1> QED BY <1>2, <1>3 DEF TypeOK

\* A post takes the thread's next number.
LEMMA PostCount ==
    ASSUME TypeOK, NEW t \in Threads, canPost(t), posted(t)
    PROVE  /\ nextProc(t) \in Procs
           /\ count' \in [Threads -> Nat]
           /\ \A u \in Threads : count[u] <= count'[u]
           /\ nextProc(t)[1] = t /\ nextProc(t)[2] = count[t] + 1
           /\ count'[t] = count[t] + 1
  BY NextProcType DEF TypeOK, posted, nextProc

\* A vector that grows by the proc just posted, or does not change, stays bounded.
LEMMA BoundedPost ==
    ASSUME TypeOK, NEW t \in Threads, canPost(t), posted(t), NEW q \in Seq(Procs), Bounded(q)
    PROVE  /\ \A i \in 1..Len(q) : q[i][2] <= count'[q[i][1]]
           /\ \A i \in 1..Len(Append(q, nextProc(t))) :
                  Append(q, nextProc(t))[i][2] <= count'[Append(q, nextProc(t))[i][1]]
<1> DEFINE x == nextProc(t)
<1>1. /\ x \in Procs /\ x[1] = t /\ x[2] = count[t] + 1 /\ count'[t] = count[t] + 1
      /\ count' \in [Threads -> Nat] /\ \A u \in Threads : count[u] <= count'[u]
      /\ count[t] \in Nat
  BY PostCount DEF TypeOK
<1>2. \A i \in 1..Len(q) : q[i][2] <= count'[q[i][1]]
  BY <1>1, BoundedMono
<1> HIDE DEF x
<1>3. x[2] <= count'[x[1]]
  BY <1>1
<1>4. ASSUME NEW i \in 1..Len(Append(q, x))
      PROVE  Append(q, x)[i][2] <= count'[Append(q, x)[i][1]]
  <2>1. (i \in 1..Len(q) /\ Append(q, x)[i] = q[i]) \/ Append(q, x)[i] = x
    BY <1>1
  <2> QED BY <2>1, <1>2, <1>3
<1> QED BY <1>2, <1>4 DEF x

\* The posts of a callback keep within the bounds.
LEMMA UserCodeBounded ==
    ASSUME TypeOK, Bounded(mAfterLoopProcs), NEW log \in Seq(Procs), Bounded(log), UserCode(log)
    PROVE  /\ Bounded(ran)' /\ Bounded(mAfterLoopProcs)'
           /\ count' \in [Threads -> Nat]
           /\ \A t \in Threads : count[t] <= count'[t]
<1>0. LoopThread \in Threads /\ mAfterLoopProcs \in Seq(Procs)
  BY DEF Threads, TypeOK
<1>1. CASE ran' = log /\ UNCHANGED <<count, mAfterLoopProcs>>
  <2>1. count' \in [Threads -> Nat] /\ \A t \in Threads : count[t] <= count'[t]
    BY <1>1 DEF TypeOK
  <2> QED BY <1>1, <2>1 DEF Bounded
<1>2. CASE canPost(LoopThread) /\ posted(LoopThread)
  <2>1. count' \in [Threads -> Nat] /\ \A t \in Threads : count[t] <= count'[t]
    BY <1>0, <1>2, PostCount
  <2>2. /\ ran' = log \/ ran' = Append(log, nextProc(LoopThread))
        /\ \/ mAfterLoopProcs' = mAfterLoopProcs
           \/ mAfterLoopProcs' = Append(mAfterLoopProcs, nextProc(LoopThread))
    BY <1>2 DEF UserCode
  <2>3. Bounded(ran)'
    BY <1>0, <1>2, <2>2, BoundedPost DEF Bounded
  <2>4. Bounded(mAfterLoopProcs)'
    BY <1>0, <1>2, <2>2, BoundedPost DEF Bounded
  <2> QED BY <2>1, <2>3, <2>4
<1> QED BY <1>1, <1>2 DEF UserCode

\* Every step keeps BoundInv.
LEMMA BoundInvStep == TypeOK /\ BoundInv /\ [Next]_vars => BoundInv'
<1> SUFFICES ASSUME TypeOK, BoundInv, [Next]_vars PROVE BoundInv'
  OBVIOUS
<1> USE DEF flagVars, queueVars, epollVars
<1>0. /\ ran \in Seq(Procs) /\ mAsyncProcs \in Seq(Procs) /\ mCopyAsyncProcs \in Seq(Procs)
      /\ mAfterLoopProcs \in Seq(Procs) /\ mCopyAfterLoopProcs \in Seq(Procs)
      /\ Bounded(ran) /\ Bounded(mAsyncProcs) /\ Bounded(mCopyAsyncProcs)
      /\ Bounded(mAfterLoopProcs) /\ Bounded(mCopyAfterLoopProcs)
  BY DEF TypeOK, BoundInv
<1>1. ASSUME UNCHANGED <<queueVars, count, ran>> PROVE BoundInv'
  BY <1>1 DEF BoundInv, Bounded
<1>2. ASSUME NEW p \in Producers, pushAsyncProc(p) PROVE BoundInv'
  <2>1. p \in Threads /\ canPost(p) /\ posted(p)
    BY <1>2 DEF Threads, pushAsyncProc
  <2>2. Bounded(mAsyncProcs)'
    BY <1>0, <1>2, <2>1, BoundedPost DEF Bounded, pushAsyncProc
  <2>3. Bounded(ran)' /\ Bounded(mCopyAsyncProcs)'
    BY <1>0, <1>2, <2>1, BoundedPost DEF Bounded, pushAsyncProc
  <2>4. Bounded(mAfterLoopProcs)' /\ Bounded(mCopyAfterLoopProcs)'
    BY <1>0, <1>2, <2>1, BoundedPost DEF Bounded, pushAsyncProc
  <2> QED BY <2>2, <2>3, <2>4 DEF BoundInv
<1>3. ASSUME NEW p \in Producers, pushAsyncProcInThread(p) PROVE BoundInv'
  <2>1. p \in Threads /\ canPost(p) /\ posted(p)
    BY <1>3 DEF Threads, pushAsyncProcInThread
  <2>2. Bounded(mAsyncProcs)' /\ Bounded(mCopyAsyncProcs)'
    BY <1>0, <1>3, <2>1, BoundedPost DEF Bounded, pushAsyncProcInThread
  <2>3. Bounded(ran)'
    BY <1>0, <1>3, <2>1, BoundedPost DEF Bounded, pushAsyncProcInThread
  <2>4. Bounded(mAfterLoopProcs)' /\ Bounded(mCopyAfterLoopProcs)'
    BY <1>0, <1>3, <2>1, BoundedPost DEF Bounded, pushAsyncProcInThread
  <2> QED BY <2>2, <2>3, <2>4 DEF BoundInv
<1>4. ASSUME UNCHANGED <<mAsyncProcs, mCopyAsyncProcs, mCopyAfterLoopProcs>>, UserCode(ran)
      PROVE  BoundInv'
  <2>1. /\ Bounded(ran)' /\ Bounded(mAfterLoopProcs)' /\ count' \in [Threads -> Nat]
        /\ \A t \in Threads : count[t] <= count'[t]
    BY <1>0, <1>4, UserCodeBounded
  <2>2. Bounded(mAsyncProcs)' /\ Bounded(mCopyAsyncProcs)' /\ Bounded(mCopyAfterLoopProcs)'
    BY <1>0, <1>4, <2>1, BoundedMono DEF Bounded
  <2> QED BY <2>1, <2>2 DEF BoundInv
<1>5. CASE swapAsyncProcs
  BY <1>5 DEF swapAsyncProcs, BoundInv, Bounded
<1>6. CASE swapAfterLoopProcs
  BY <1>6 DEF swapAfterLoopProcs, BoundInv, Bounded
<1>7. CASE runAsyncProc
  <2>0. /\ mCopyAsyncProcs # <<>> /\ mCopyAsyncProcs' = Tail(mCopyAsyncProcs)
        /\ UNCHANGED <<mAsyncProcs, mCopyAfterLoopProcs>>
    BY <1>7 DEF runAsyncProc
  <2>1. /\ Bounded(Tail(mCopyAsyncProcs)) /\ Tail(mCopyAsyncProcs) \in Seq(Procs)
        /\ Append(ran, Head(mCopyAsyncProcs)) \in Seq(Procs)
        /\ Bounded(Append(ran, Head(mCopyAsyncProcs)))
    BY <1>0, <2>0, BoundedTail, BoundedAppend
  <2>2. /\ Bounded(ran)' /\ Bounded(mAfterLoopProcs)' /\ count' \in [Threads -> Nat]
        /\ \A t \in Threads : count[t] <= count'[t]
    BY <1>0, <1>7, <2>1, UserCodeBounded DEF runAsyncProc
  <2>3. Bounded(mAsyncProcs)' /\ Bounded(mCopyAfterLoopProcs)'
    BY <1>0, <2>0, <2>2, BoundedMono DEF Bounded
  <2>4. Bounded(mCopyAsyncProcs)'
    BY <2>0, <2>1, <2>2, BoundedMono DEF Bounded
  <2> QED BY <2>2, <2>3, <2>4 DEF BoundInv
<1>8. CASE runAfterLoopProc
  <2>0. /\ mCopyAfterLoopProcs # <<>> /\ mCopyAfterLoopProcs' = Tail(mCopyAfterLoopProcs)
        /\ UNCHANGED <<mAsyncProcs, mCopyAsyncProcs>>
    BY <1>8 DEF runAfterLoopProc
  <2>1. /\ Bounded(Tail(mCopyAfterLoopProcs)) /\ Tail(mCopyAfterLoopProcs) \in Seq(Procs)
        /\ Append(ran, Head(mCopyAfterLoopProcs)) \in Seq(Procs)
        /\ Bounded(Append(ran, Head(mCopyAfterLoopProcs)))
    BY <1>0, <2>0, BoundedTail, BoundedAppend
  <2>2. /\ Bounded(ran)' /\ Bounded(mAfterLoopProcs)' /\ count' \in [Threads -> Nat]
        /\ \A t \in Threads : count[t] <= count'[t]
    BY <1>0, <1>8, <2>1, UserCodeBounded DEF runAfterLoopProc
  <2>3. Bounded(mAsyncProcs)' /\ Bounded(mCopyAsyncProcs)'
    BY <1>0, <2>0, <2>2, BoundedMono DEF Bounded
  <2>4. Bounded(mCopyAfterLoopProcs)'
    BY <2>0, <2>1, <2>2, BoundedMono DEF Bounded
  <2> QED BY <2>2, <2>3, <2>4 DEF BoundInv
<1> QED
  BY <1>1, <1>2, <1>3, <1>4, <1>5, <1>6, <1>7, <1>8
  DEF Next, vars, Producer, Continue, Loop, getTimerMgr, callWakeup, wakeupCheck,
      wakeupExchange, wakeupWrite, ioReady, loopEnter, epollReturn, epollTimeout,
      loopLeaveBlock, dispatchChannel, dispatchWakeup, loopClearPosted, loopEnterBlock,
      loopFinish

\* BoundInv holds at all times.
LEMMA BoundInvariant == Spec => []BoundInv
<1>1. Init => BoundInv
  BY DEF Init, BoundInv, Bounded
<1> QED BY <1>1, TypeCorrect, BoundInvStep, PTL DEF Spec
-----------------------------------------------------------------------------
(* Posting order. *)

LEMMA SortedAppend ==
    ASSUME NEW q \in Seq(Procs), NEW x \in Procs, Sorted(q),
           \A i \in 1..Len(q) : q[i][1] = x[1] /\ x[1] \in Producers => q[i][2] < x[2]
    PROVE  Sorted(Append(q, x))
<1> SUFFICES ASSUME NEW i \in 1..Len(Append(q, x)), NEW j \in 1..Len(Append(q, x)), i < j,
                    Append(q, x)[i][1] = Append(q, x)[j][1],
                    Append(q, x)[i][1] \in Producers
             PROVE  Append(q, x)[i][2] < Append(q, x)[j][2]
  BY DEF Sorted
<1>1. i \in 1..Len(q) /\ Append(q, x)[i] = q[i]
  OBVIOUS
<1>2. CASE j \in 1..Len(q) /\ Append(q, x)[j] = q[j]
  BY <1>1, <1>2 DEF Sorted
<1>3. CASE Append(q, x)[j] = x
  BY <1>1, <1>3
<1> QED BY <1>2, <1>3

\* A sorted vector without its head is sorted, and the head came first.
LEMMA SortedTail ==
    ASSUME NEW q \in Seq(Procs), q # <<>>, Sorted(q)
    PROVE  /\ Sorted(Tail(q))
           /\ \A j \in 1..Len(Tail(q)) :
                  Tail(q)[j][1] = Head(q)[1] /\ Head(q)[1] \in Producers
                      => Head(q)[2] < Tail(q)[j][2]
<1>1. /\ Len(q) \in Nat \ {0} /\ Len(Tail(q)) = Len(q) - 1 /\ Head(q) = q[1]
      /\ \A j \in 1..(Len(q) - 1) : Tail(q)[j] = q[j + 1]
  OBVIOUS
<1>2. \A j \in 1..(Len(q) - 1) : j + 1 \in 1..Len(q) /\ 1 < j + 1 /\ 1 \in 1..Len(q)
  BY <1>1
<1> QED BY <1>1, <1>2 DEF Sorted

\* Precedes with one more proc on either side.
LEMMA PrecedesAppend ==
    ASSUME NEW q \in Seq(Procs), NEW r \in Seq(Procs), NEW x \in Procs, Precedes(q, r)
    PROVE  /\ (\A j \in 1..Len(r) :
                  r[j][1] = x[1] /\ x[1] \in Producers \ {mSelfThreadid} => x[2] < r[j][2])
                  => Precedes(Append(q, x), r)
           /\ (\A i \in 1..Len(q) :
                  q[i][1] = x[1] /\ x[1] \in Producers \ {mSelfThreadid} => q[i][2] < x[2])
                  => Precedes(q, Append(r, x))
<1>1. /\ \A i \in 1..Len(Append(q, x)) :
            (i \in 1..Len(q) /\ Append(q, x)[i] = q[i]) \/ Append(q, x)[i] = x
      /\ \A i \in 1..Len(Append(r, x)) :
            (i \in 1..Len(r) /\ Append(r, x)[i] = r[i]) \/ Append(r, x)[i] = x
  OBVIOUS
<1> QED BY <1>1 DEF Precedes

\* Precedes with the head of the left side taken.
LEMMA PrecedesTail ==
    ASSUME NEW q \in Seq(Procs), NEW r \in Seq(Procs), q # <<>>, Precedes(q, r)
    PROVE  /\ Precedes(Tail(q), r)
           /\ \A j \in 1..Len(r) :
                 r[j][1] = Head(q)[1] /\ Head(q)[1] \in Producers \ {mSelfThreadid}
                     => Head(q)[2] < r[j][2]
<1>1. /\ Len(q) \in Nat \ {0} /\ Len(Tail(q)) = Len(q) - 1 /\ Head(q) = q[1]
      /\ \A j \in 1..(Len(q) - 1) : Tail(q)[j] = q[j + 1]
      /\ \A j \in 1..(Len(q) - 1) : j + 1 \in 1..Len(q)
      /\ 1 \in 1..Len(q)
  OBVIOUS
<1> QED BY <1>1 DEF Precedes

\* Precedes with the head of the right side taken.
LEMMA PrecedesTailRight ==
    ASSUME NEW q \in Seq(Procs), NEW r \in Seq(Procs), r # <<>>, Precedes(q, r)
    PROVE  /\ Precedes(q, Tail(r))
           /\ \A i \in 1..Len(q) :
                 q[i][1] = Head(r)[1] /\ Head(r)[1] \in Producers \ {mSelfThreadid}
                     => q[i][2] < Head(r)[2]
<1>1. /\ Len(r) \in Nat \ {0} /\ Len(Tail(r)) = Len(r) - 1 /\ Head(r) = r[1]
      /\ \A j \in 1..(Len(r) - 1) : Tail(r)[j] = r[j + 1]
      /\ \A j \in 1..(Len(r) - 1) : j + 1 \in 1..Len(r)
      /\ 1 \in 1..Len(r)
  OBVIOUS
<1> QED BY <1>1 DEF Precedes

\* A callback body adds nothing but procs of the loop thread, which no producer
\* is ordered against.
LEMMA UserCodeOrder ==
    ASSUME TypeOK, NEW log \in Seq(Procs), UserCode(log), Sorted(log),
           LoopOwn(mAfterLoopProcs), UNCHANGED mSelfThreadid
    PROVE  /\ Sorted(ran)' /\ LoopOwn(mAfterLoopProcs)'
           /\ \A r \in Seq(Procs) : Precedes(log, r) => Precedes(ran', r)
<1> DEFINE x == nextProc(LoopThread)
<1>0. LoopThread \in Threads /\ LoopThread \notin Producers /\ x[1] = LoopThread
      /\ mAfterLoopProcs \in Seq(Procs)
  BY EventLoopAssumption DEF Threads, nextProc, TypeOK
<1>1. CASE ran' = log /\ UNCHANGED <<count, mAfterLoopProcs>>
  BY <1>1 DEF Sorted, LoopOwn
<1>2. CASE canPost(LoopThread) /\ posted(LoopThread)
  <2>1. x \in Procs
    BY <1>0, <1>2, NextProcType
  <2>2. /\ ran' = log \/ ran' = Append(log, x)
        /\ \/ mAfterLoopProcs' = mAfterLoopProcs
           \/ mAfterLoopProcs' = Append(mAfterLoopProcs, x)
    BY <1>2 DEF UserCode
  <2> HIDE DEF x
  <2>3. Sorted(Append(log, x))
    BY <1>0, <2>1, SortedAppend
  <2>4. \A r \in Seq(Procs) : Precedes(log, r) => Precedes(Append(log, x), r)
    BY <1>0, <2>1, PrecedesAppend
  <2>5. LoopOwn(Append(mAfterLoopProcs, x))
    BY <1>0, <2>1 DEF LoopOwn
  <2> QED BY <2>2, <2>3, <2>4, <2>5 DEF Sorted, LoopOwn
<1> QED BY <1>1, <1>2 DEF UserCode

\* Every step keeps OwnerInv.
LEMMA OwnerInvStep == OwnerInv /\ [Next]_vars => OwnerInv'
  BY EventLoopAssumption
  DEF OwnerInv, flagVars, queueVars, epollVars, Next, vars, Producer, Continue, Loop,
      getTimerMgr, tryInitThreadID, pushAsyncProc, pushAsyncProcInThread, callWakeup,
      wakeupCheck, wakeupExchange, wakeupWrite, ioReady, loopEnter, epollReturn,
      epollTimeout, loopLeaveBlock, dispatchChannel, dispatchWakeup, loopClearPosted,
      loopEnterBlock, swapAsyncProcs, runAsyncProc, swapAfterLoopProcs, runAfterLoopProc,
      loopFinish

\* A newly posted proc has a higher number than any proc of its thread in q.
LEMMA NewIsLast ==
    ASSUME TypeOK, NEW t \in Threads, canPost(t), NEW q \in Seq(Procs), Bounded(q)
    PROVE  \A i \in 1..Len(q) : q[i][1] = nextProc(t)[1] => q[i][2] < nextProc(t)[2]
<1> SUFFICES ASSUME NEW i \in 1..Len(q), q[i][1] = t PROVE q[i][2] < count[t] + 1
  BY DEF nextProc
<1>1. q[i] \in Procs /\ q[i][2] <= count[t]
  BY DEF Bounded
<1>2. q[i][2] \in Nat
  <2>1. PICK u \in Threads : q[i] \in {u} \X (1..Limit(u))
    BY <1>1 DEF Procs
  <2> QED BY <2>1, EventLoopAssumption DEF Limit
<1> QED BY <1>1, <1>2 DEF TypeOK

\* Every step keeps OrderInv.
LEMMA OrderInvStep ==
    TypeOK /\ CopyInv /\ BoundInv /\ OrderInv /\ [Next]_vars => OrderInv'
<1> SUFFICES ASSUME TypeOK, CopyInv, BoundInv, OrderInv, [Next]_vars PROVE OrderInv'
  OBVIOUS
<1> USE DEF flagVars, queueVars, epollVars
<1>0. /\ ran \in Seq(Procs) /\ mAsyncProcs \in Seq(Procs) /\ mCopyAsyncProcs \in Seq(Procs)
      /\ mAfterLoopProcs \in Seq(Procs) /\ mCopyAfterLoopProcs \in Seq(Procs)
      /\ Bounded(ran) /\ Bounded(mAsyncProcs) /\ Bounded(mCopyAsyncProcs)
      /\ Sorted(ran) /\ Sorted(mAsyncProcs) /\ Sorted(mCopyAsyncProcs)
      /\ Precedes(ran, mCopyAsyncProcs) /\ Precedes(ran, mAsyncProcs)
      /\ Precedes(mCopyAsyncProcs, mAsyncProcs)
      /\ LoopOwn(mAfterLoopProcs) /\ LoopOwn(mCopyAfterLoopProcs)
  BY DEF TypeOK, BoundInv, OrderInv
<1>1. OwnerInv'
  BY OwnerInvStep DEF OrderInv
<1>2. ASSUME UNCHANGED <<queueVars, ran, mSelfThreadid>> PROVE OrderInv'
  BY <1>1, <1>2 DEF OrderInv, Sorted, Precedes, LoopOwn
<1>3. ASSUME NEW t \in Threads, tryInitThreadID(t), UNCHANGED <<queueVars, ran>>
      PROVE  OrderInv'
  <2>1. CASE mSelfThreadid' = mSelfThreadid
    BY <1>2, <1>3, <2>1
  <2>2. CASE mSelfThreadid = NoThread
    <3>1. Producers \ {mSelfThreadid'} \subseteq Producers \ {mSelfThreadid}
      BY <2>2, EventLoopAssumption
    <3> QED BY <1>1, <1>3, <3>1 DEF OrderInv, Sorted, Precedes, LoopOwn
  <2> QED BY <1>3, <2>1, <2>2 DEF tryInitThreadID
<1>4. ASSUME NEW p \in Producers, pushAsyncProc(p) PROVE OrderInv'
  <2> DEFINE x == nextProc(p)
  <2>1. /\ p \in Threads /\ canPost(p) /\ x \in Procs /\ mAsyncProcs' = Append(mAsyncProcs, x)
        /\ UNCHANGED <<ran, mCopyAsyncProcs, mAfterLoopProcs, mCopyAfterLoopProcs, mSelfThreadid>>
    BY <1>4, NextProcType DEF Threads, pushAsyncProc
  <2>2. /\ \A i \in 1..Len(ran) : ran[i][1] = x[1] => ran[i][2] < x[2]
        /\ \A i \in 1..Len(mAsyncProcs) : mAsyncProcs[i][1] = x[1] => mAsyncProcs[i][2] < x[2]
        /\ \A i \in 1..Len(mCopyAsyncProcs) :
               mCopyAsyncProcs[i][1] = x[1] => mCopyAsyncProcs[i][2] < x[2]
    BY <1>0, <2>1, NewIsLast
  <2> HIDE DEF x
  <2>3. Sorted(Append(mAsyncProcs, x))
    BY <1>0, <2>1, <2>2, SortedAppend
  <2>4. Precedes(ran, Append(mAsyncProcs, x)) /\ Precedes(mCopyAsyncProcs, Append(mAsyncProcs, x))
    BY <1>0, <2>1, <2>2, PrecedesAppend
  <2> QED BY <1>0, <1>1, <2>1, <2>3, <2>4 DEF OrderInv, Sorted, Precedes, LoopOwn
<1>5. ASSUME NEW p \in Producers, pushAsyncProcInThread(p) PROVE OrderInv'
  <2> DEFINE x == nextProc(p)
  <2>1. /\ p \in Threads /\ canPost(p) /\ x \in Procs /\ ran' = Append(ran, x)
        /\ x[1] = mSelfThreadid
        /\ UNCHANGED <<queueVars, mSelfThreadid>>
    BY <1>5, NextProcType DEF Threads, pushAsyncProcInThread, nextProc
  <2>2. \A i \in 1..Len(ran) : ran[i][1] = x[1] => ran[i][2] < x[2]
    BY <1>0, <2>1, NewIsLast
  <2> HIDE DEF x
  <2>3. Sorted(Append(ran, x))
    BY <1>0, <2>1, <2>2, SortedAppend
  <2>4. Precedes(Append(ran, x), mAsyncProcs) /\ Precedes(Append(ran, x), mCopyAsyncProcs)
    BY <1>0, <2>1, PrecedesAppend
  <2> QED BY <1>0, <1>1, <2>1, <2>3, <2>4 DEF OrderInv, Sorted, Precedes, LoopOwn
<1>6. ASSUME UNCHANGED <<mAsyncProcs, mCopyAsyncProcs, mCopyAfterLoopProcs, mSelfThreadid>>,
             UserCode(ran)
      PROVE  OrderInv'
  <2>1. /\ Sorted(ran)' /\ LoopOwn(mAfterLoopProcs)'
        /\ Precedes(ran', mAsyncProcs) /\ Precedes(ran', mCopyAsyncProcs)
    BY <1>0, <1>6, UserCodeOrder
  <2> QED BY <1>0, <1>1, <1>6, <2>1 DEF OrderInv, Sorted, Precedes, LoopOwn
<1>7. CASE swapAsyncProcs
  <2>1. /\ mCopyAsyncProcs = <<>> /\ mAsyncProcs' = <<>> /\ mCopyAsyncProcs' = mAsyncProcs
        /\ UNCHANGED <<mAfterLoopProcs, mCopyAfterLoopProcs, ran, mSelfThreadid>>
    BY <1>7 DEF swapAsyncProcs, CopyInv
  <2> QED BY <1>0, <1>1, <2>1 DEF OrderInv, Sorted, Precedes, LoopOwn
<1>8. CASE swapAfterLoopProcs
  BY <1>0, <1>1, <1>8 DEF swapAfterLoopProcs, OrderInv, Sorted, Precedes, LoopOwn
<1>9. CASE runAsyncProc
  <2> DEFINE q   == mCopyAsyncProcs
             x   == Head(q)
             log == Append(ran, x)
  <2>1. /\ q # <<>> /\ q' = Tail(q) /\ UserCode(log) /\ mSelfThreadid = LoopThread
        /\ UNCHANGED <<mAsyncProcs, mCopyAfterLoopProcs, mSelfThreadid>>
    BY <1>9 DEF runAsyncProc, OrderInv, OwnerInv
  <2>2. /\ x \in Procs /\ log \in Seq(Procs) /\ Tail(q) \in Seq(Procs)
        /\ Producers \ {mSelfThreadid} = Producers
    BY <1>0, <2>1, EventLoopAssumption
  <2>3. /\ Precedes(ran, Tail(q))
        /\ \A i \in 1..Len(ran) : ran[i][1] = x[1] /\ x[1] \in Producers => ran[i][2] < x[2]
    BY <1>0, <2>1, <2>2, PrecedesTailRight
  <2>4. /\ Sorted(Tail(q))
        /\ \A j \in 1..Len(Tail(q)) :
               Tail(q)[j][1] = x[1] /\ x[1] \in Producers => x[2] < Tail(q)[j][2]
    BY <1>0, <2>1, SortedTail
  <2>5. /\ Precedes(Tail(q), mAsyncProcs)
        /\ \A j \in 1..Len(mAsyncProcs) :
               mAsyncProcs[j][1] = x[1] /\ x[1] \in Producers => x[2] < mAsyncProcs[j][2]
    BY <1>0, <2>1, <2>2, PrecedesTail
  <2> HIDE DEF x
  <2>6. Sorted(log) /\ Precedes(log, Tail(q)) /\ Precedes(log, mAsyncProcs)
    <3>1. Sorted(log)
      BY <1>0, <2>2, <2>3, SortedAppend
    <3>2. Precedes(log, Tail(q))
      BY <1>0, <2>2, <2>3, <2>4, PrecedesAppend
    <3>3. Precedes(log, mAsyncProcs)
      BY <1>0, <2>2, <2>5, PrecedesAppend
    <3> QED BY <3>1, <3>2, <3>3
  <2> HIDE DEF log
  <2>7. /\ Sorted(ran)' /\ LoopOwn(mAfterLoopProcs)'
        /\ Precedes(ran', Tail(q)) /\ Precedes(ran', mAsyncProcs)
    BY <1>0, <2>1, <2>2, <2>6, UserCodeOrder
  <2> QED BY <1>0, <1>1, <2>1, <2>4, <2>5, <2>7 DEF OrderInv, Sorted, Precedes, LoopOwn
<1>10. CASE runAfterLoopProc
  <2> DEFINE q   == mCopyAfterLoopProcs
             x   == Head(q)
             log == Append(ran, x)
  <2>1. /\ q # <<>> /\ q' = Tail(q) /\ UserCode(log)
        /\ UNCHANGED <<mAsyncProcs, mCopyAsyncProcs, mSelfThreadid>>
    BY <1>10 DEF runAfterLoopProc
  <2>2. /\ x \in Procs /\ log \in Seq(Procs) /\ Tail(q) \in Seq(Procs)
        /\ x[1] = LoopThread /\ LoopThread \notin Producers /\ LoopOwn(Tail(q))
    BY <1>0, <2>1, EventLoopAssumption DEF LoopOwn
  <2> HIDE DEF x
  <2>3. Sorted(log)
    BY <1>0, <2>2, SortedAppend
  <2>4. Precedes(log, mAsyncProcs) /\ Precedes(log, mCopyAsyncProcs)
    BY <1>0, <2>2, PrecedesAppend
  <2> HIDE DEF log
  <2>5. /\ Sorted(ran)' /\ LoopOwn(mAfterLoopProcs)'
        /\ Precedes(ran', mAsyncProcs) /\ Precedes(ran', mCopyAsyncProcs)
    BY <1>0, <2>1, <2>2, <2>3, <2>4, UserCodeOrder
  <2> QED BY <1>0, <1>1, <2>1, <2>2, <2>5 DEF OrderInv, Sorted, Precedes, LoopOwn
<1>11. CASE \E p \in Producers : getTimerMgr(p)
  BY <1>3, <1>11 DEF getTimerMgr, Threads
<1>12. CASE loopEnter
  BY <1>3, <1>12 DEF loopEnter, Threads
<1>13. CASE loopFinish
  BY <1>6, <1>13 DEF loopFinish
<1>14. CASE \E c \in Channels : dispatchChannel(c)
  BY <1>6, <1>14 DEF dispatchChannel
<1> QED
  BY <1>2, <1>4, <1>5, <1>7, <1>8, <1>9, <1>10, <1>11, <1>12, <1>13, <1>14
  DEF Next, vars, Producer, Continue, Loop, callWakeup, wakeupCheck, wakeupExchange,
      wakeupWrite, ioReady, epollReturn, epollTimeout, loopLeaveBlock, dispatchWakeup,
      loopClearPosted, loopEnterBlock

\* OrderInv holds at all times.
LEMMA OrderInvariant == Spec => []OrderInv
<1>1. Init => OrderInv
  BY DEF Init, OrderInv, OwnerInv, Sorted, Precedes, LoopOwn
<1>2. WakeupInv => CopyInv
  BY DEF WakeupInv
<1> QED
  BY <1>1, <1>2, TypeCorrect, WakeupInvariant, BoundInvariant, OrderInvStep, PTL DEF Spec

\* The procs of each producer run in the order in which it posted them.
THEOREM PostOrderKept == Spec => []RunInPostOrder
<1>1. OrderInv => RunInPostOrder
  BY DEF OrderInv, RunInPostOrder
<1> QED BY <1>1, OrderInvariant, PTL
-----------------------------------------------------------------------------
(* The two lanes of TaskQueue. *)

LEMMA ConcatAppend ==
    ASSUME NEW q \in Seq(Procs), NEW r \in Seq(Procs), NEW x \in Procs
    PROVE  q \o Append(r, x) = Append(q \o r, x)
  OBVIOUS

\* The head and the tail of a concatenation are those of its left side.
LEMMA ConcatTail ==
    ASSUME NEW q \in Seq(Procs), NEW r \in Seq(Procs), q # <<>>
    PROVE  /\ q \o r # <<>>
           /\ Head(q \o r) = Head(q)
           /\ Tail(q \o r) = Tail(q) \o r
  OBVIOUS

\* The empty sequence on either side of a concatenation.
LEMMA ConcatEmpty ==
    ASSUME NEW q \in Seq(Procs)
    PROVE  <<>> \o q = q /\ q \o <<>> = q
  OBVIOUS

\* What is in a concatenation is on one of its sides.
LEMMA InConcat ==
    ASSUME NEW q \in Seq(Procs), NEW r \in Seq(Procs), NEW x, In(x, q \o r)
    PROVE  In(x, q) \/ In(x, r)
<1>1. PICK i \in 1..Len(q \o r) : (q \o r)[i] = x
  BY DEF In
<1>2. Len(q) \in Nat /\ Len(r) \in Nat /\ Len(q \o r) = Len(q) + Len(r)
  OBVIOUS
<1>3. CASE i <= Len(q)
  <2>1. i \in 1..Len(q) /\ q[i] = x
    BY <1>1, <1>2, <1>3
  <2> QED BY <2>1 DEF In
<1>4. CASE i > Len(q)
  <2>1. i - Len(q) \in 1..Len(r) /\ r[i - Len(q)] = x
    BY <1>1, <1>2, <1>4
  <2> QED BY <2>1 DEF In
<1> QED BY <1>2, <1>3, <1>4

\* A proc that has not been posted is new to the abstract queue.
LEMMA NextProcFresh ==
    ASSUME TypeOK, BoundInv, NEW t \in Threads, canPost(t)
    PROVE  Lanes!Fresh(nextProc(t))
<1> DEFINE x == nextProc(t)
<1>1. ASSUME NEW q \in Seq(Procs), Bounded(q) PROVE ~ In(x, q)
  <2>1. x[2] \in Nat
    BY DEF nextProc, TypeOK
  <2>2. \A i \in 1..Len(q) : q[i][1] = x[1] => q[i][2] < x[2]
    BY <1>1, NewIsLast
  <2> QED BY <2>1, <2>2 DEF In
<1>2. /\ ran \in Seq(Procs) /\ mAsyncProcs \in Seq(Procs) /\ mCopyAsyncProcs \in Seq(Procs)
      /\ mAfterLoopProcs \in Seq(Procs) /\ mCopyAfterLoopProcs \in Seq(Procs)
      /\ Bounded(ran) /\ Bounded(mAsyncProcs) /\ Bounded(mCopyAsyncProcs)
      /\ Bounded(mAfterLoopProcs) /\ Bounded(mCopyAfterLoopProcs)
  BY DEF TypeOK, BoundInv
<1> HIDE DEF x
<1>3. /\ ~ In(x, ran)
      /\ ~ In(x, mCopyAsyncProcs \o mAsyncProcs)
      /\ ~ In(x, mCopyAfterLoopProcs \o mAfterLoopProcs)
  BY <1>1, <1>2, InConcat
<1>4. Lanes!Fresh(x)
  BY <1>3 DEF Lanes!Fresh, Lanes!In, In
<1> QED BY <1>4 DEF x

\* The body of a callback does to the lanes what Body allows.
LEMMA UserCodeBody ==
    ASSUME TypeOK, BoundInv, NEW log \in Seq(Procs), UserCode(log), NEW q \in Seq(Procs),
           mCopyAfterLoopProcs' = q
    PROVE  Lanes!Body(log, q \o mAfterLoopProcs)
<1> DEFINE x == nextProc(LoopThread)
<1>0. LoopThread \in Threads /\ mAfterLoopProcs \in Seq(Procs)
  BY DEF Threads, TypeOK
<1>1. CASE ran' = log /\ UNCHANGED <<count, mAfterLoopProcs>>
  BY <1>1 DEF Lanes!Body
<1>2. CASE canPost(LoopThread) /\ posted(LoopThread)
  <2>1. x \in Procs /\ Lanes!Fresh(x)
    BY <1>0, <1>2, NextProcType, NextProcFresh
  <2>2. \/ ran' = log /\ mAfterLoopProcs' = Append(mAfterLoopProcs, x)
        \/ ran' = Append(log, x) /\ mAfterLoopProcs' = mAfterLoopProcs
        \/ ran' = log /\ mAfterLoopProcs' = mAfterLoopProcs
    BY <1>2 DEF UserCode
  <2> HIDE DEF x
  <2>3. q \o Append(mAfterLoopProcs, x) = Append(q \o mAfterLoopProcs, x)
    BY <1>0, <2>1, ConcatAppend
  <2> QED BY <2>1, <2>2, <2>3 DEF Lanes!Body
<1> QED BY <1>1, <1>2 DEF UserCode

\* Every step of the loop and its posters is one of the lanes, or none.
LEMMA RefinementStep ==
    TypeOK /\ CopyInv /\ BoundInv /\ [Next]_vars => [Lanes!Next]_(Lanes!vars)
<1> SUFFICES ASSUME TypeOK, CopyInv, BoundInv, [Next]_vars
             PROVE  Lanes!Next \/ UNCHANGED Lanes!vars
  OBVIOUS
<1> USE DEF flagVars, queueVars, epollVars
<1>0. /\ ran \in Seq(Procs) /\ mAsyncProcs \in Seq(Procs) /\ mCopyAsyncProcs \in Seq(Procs)
      /\ mAfterLoopProcs \in Seq(Procs) /\ mCopyAfterLoopProcs \in Seq(Procs)
  BY DEF TypeOK
<1>1. ASSUME UNCHANGED <<queueVars, ran>> PROVE UNCHANGED Lanes!vars
  BY <1>1 DEF Lanes!vars
<1>2. ASSUME NEW p \in Producers, pushAsyncProc(p) PROVE Lanes!Next
  <2>1. /\ p \in Threads /\ canPost(p)
        /\ mAsyncProcs' = Append(mAsyncProcs, nextProc(p))
        /\ UNCHANGED <<mCopyAsyncProcs, mAfterLoopProcs, mCopyAfterLoopProcs, ran>>
    BY <1>2 DEF Threads, pushAsyncProc
  <2>2. nextProc(p) \in Procs /\ Lanes!Fresh(nextProc(p))
    BY <2>1, NextProcType, NextProcFresh
  <2>3. mCopyAsyncProcs \o Append(mAsyncProcs, nextProc(p))
            = Append(mCopyAsyncProcs \o mAsyncProcs, nextProc(p))
    BY <1>0, <2>2, ConcatAppend
  <2>4. Lanes!Post(nextProc(p))
    BY <2>1, <2>2, <2>3 DEF Lanes!Post
  <2> QED BY <2>2, <2>4 DEF Lanes!Next
<1>3. ASSUME NEW p \in Producers, pushAsyncProcInThread(p) PROVE Lanes!Next
  <2>1. /\ p \in Threads /\ canPost(p) /\ ran' = Append(ran, nextProc(p))
        /\ UNCHANGED queueVars
    BY <1>3 DEF Threads, pushAsyncProcInThread
  <2>2. nextProc(p) \in Procs /\ Lanes!Fresh(nextProc(p))
    BY <2>1, NextProcType, NextProcFresh
  <2> QED BY <2>1, <2>2 DEF Lanes!Next, Lanes!Callback, Lanes!Body
<1>4. ASSUME UNCHANGED <<mAsyncProcs, mCopyAsyncProcs, mCopyAfterLoopProcs>>, UserCode(ran)
      PROVE  Lanes!Next
  <2>1. Lanes!Body(ran, mCopyAfterLoopProcs \o mAfterLoopProcs)
    BY <1>0, <1>4, UserCodeBody
  <2> QED BY <1>4, <2>1 DEF Lanes!Next, Lanes!Callback
<1>5. CASE swapAsyncProcs
  <2>1. /\ mCopyAsyncProcs = <<>> /\ mAsyncProcs' = <<>> /\ mCopyAsyncProcs' = mAsyncProcs
        /\ UNCHANGED <<mAfterLoopProcs, mCopyAfterLoopProcs, ran>>
    BY <1>5 DEF swapAsyncProcs, CopyInv
  <2> QED BY <1>0, <2>1, ConcatEmpty DEF Lanes!vars
<1>6. CASE swapAfterLoopProcs
  <2>1. /\ mCopyAfterLoopProcs = <<>> /\ mAfterLoopProcs' = <<>>
        /\ mCopyAfterLoopProcs' = mAfterLoopProcs
        /\ UNCHANGED <<mAsyncProcs, mCopyAsyncProcs, ran>>
    BY <1>6 DEF swapAfterLoopProcs, CopyInv
  <2> QED BY <1>0, <2>1, ConcatEmpty DEF Lanes!vars
<1>7. CASE runAsyncProc
  <2> DEFINE q   == mCopyAsyncProcs
             log == Append(ran, Head(q))
  <2>1. /\ q # <<>> /\ q' = Tail(q) /\ UserCode(log)
        /\ UNCHANGED <<mAsyncProcs, mCopyAfterLoopProcs>>
    BY <1>7 DEF runAsyncProc
  <2>2. log \in Seq(Procs)
    BY <1>0, <2>1
  <2>3. Lanes!Body(log, mCopyAfterLoopProcs \o mAfterLoopProcs)
    BY <1>0, <2>1, <2>2, UserCodeBody
  <2>4. /\ q \o mAsyncProcs # <<>> /\ Head(q \o mAsyncProcs) = Head(q)
        /\ Tail(q \o mAsyncProcs) = Tail(q) \o mAsyncProcs
    BY <1>0, <2>1, ConcatTail
  <2>5. Lanes!RunAsync
    BY <2>1, <2>3, <2>4 DEF Lanes!RunAsync
  <2> QED BY <2>5 DEF Lanes!Next
<1>8. CASE runAfterLoopProc
  <2> DEFINE q   == mCopyAfterLoopProcs
             log == Append(ran, Head(q))
  <2>1. /\ q # <<>> /\ q' = Tail(q) /\ UserCode(log)
        /\ UNCHANGED <<mAsyncProcs, mCopyAsyncProcs>>
    BY <1>8 DEF runAfterLoopProc
  <2>2. log \in Seq(Procs) /\ Tail(q) \in Seq(Procs)
    BY <1>0, <2>1
  <2>3. Lanes!Body(log, Tail(q) \o mAfterLoopProcs)
    BY <1>0, <2>1, <2>2, UserCodeBody
  <2>4. /\ q \o mAfterLoopProcs # <<>> /\ Head(q \o mAfterLoopProcs) = Head(q)
        /\ Tail(q \o mAfterLoopProcs) = Tail(q) \o mAfterLoopProcs
    BY <1>0, <2>1, ConcatTail
  <2>5. Lanes!RunAfter
    BY <2>1, <2>3, <2>4 DEF Lanes!RunAfter
  <2> QED BY <2>5 DEF Lanes!Next
<1> QED
  BY <1>1, <1>2, <1>3, <1>4, <1>5, <1>6, <1>7, <1>8
  DEF Next, vars, Producer, Continue, Loop, getTimerMgr, callWakeup, wakeupCheck,
      wakeupExchange, wakeupWrite, ioReady, loopEnter, epollReturn, epollTimeout,
      loopLeaveBlock, dispatchChannel, dispatchWakeup, loopClearPosted, loopEnterBlock,
      loopFinish

(***************************************************************************)
(* The event loop implements the two FIFO lanes: nothing posted is         *)
(* dropped, run twice or overtaken in its lane.                            *)
(***************************************************************************)
THEOREM LoopImplementsTaskQueue == Spec => ImplementsTaskQueue
<1>1. Init => Lanes!Init
  BY DEF Init, Lanes!Init
<1>2. WakeupInv => CopyInv
  BY DEF WakeupInv
<1> QED
  BY <1>1, <1>2, TypeCorrect, WakeupInvariant, BoundInvariant, RefinementStep, PTL
  DEF Spec, ImplementsTaskQueue, Lanes!Spec
=============================================================================
