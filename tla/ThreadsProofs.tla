---------------------------- MODULE ThreadsProofs ----------------------------
(***************************************************************************)
(* Proofs about the two-list queue and the thread pool, for any number of  *)
(* elements, workers and messages.                                         *)
(***************************************************************************)
EXTENDS RWList, ThreadPool, SequenceFacts

(* The two-list queue. *)

RwTypes ==
    /\ local_write \in Seq(Nat) /\ shared \in Seq(Nat) /\ local_read \in Seq(Nat)
    /\ rwPushed \in Nat

\* What a test made without the mutex still says once the mutex is taken: only
\* the writer fills shared, and only the reader fills local_read.
RwInv ==
    /\ RwTypes
    /\ rwWriter = "swap" => shared = <<>>
    /\ rwReader \in {"lock", "wait"} => local_read = <<>>

RwQueue == local_read \o shared \o local_write

\* Every step of writer and reader keeps RwInv, and is a Put, a Take or none of a FIFO.
LEMMA RwStep ==
    RwInv /\ [RWListNext]_rwVars
        => /\ RwInv'
           /\ [RwFifo!Put \/ RwFifo!Take]_<<RwQueue, rwPushed, rwPopped>>
<1> SUFFICES ASSUME RwInv, [RWListNext]_rwVars
             PROVE  /\ RwInv'
                    /\ \/ RwFifo!Put \/ RwFifo!Take
                       \/ RwQueue' = RwQueue /\ rwPushed' = rwPushed /\ rwPopped' = rwPopped
  OBVIOUS
<1>t. /\ local_write \in Seq(Nat) /\ shared \in Seq(Nat) /\ local_read \in Seq(Nat)
      /\ rwPushed \in Nat /\ <<>> \in Seq(Nat)
  BY DEF RwInv, RwTypes
<1>1. CASE ox_rwlist_push
  <2>1. local_write' \in Seq(Nat) /\ rwPushed + 1 \in Nat
    BY <1>t, <1>1 DEF ox_rwlist_push
  <2>2. RwInv'
    BY <1>t, <1>1, <2>1 DEF RwInv, RwTypes, ox_rwlist_push, NothingAhead
  <2>3. RwQueue' = Append(RwQueue, rwPushed + 1)
    <3>1. local_read \o shared \in Seq(Nat)
      BY <1>t
    <3>2. RwQueue' = (local_read \o shared) \o Append(local_write, rwPushed + 1)
      BY <1>1 DEF ox_rwlist_push, RwQueue
    <3> QED BY SMTT(40), <1>t, <2>1, <3>1, <3>2, ConcatAppend DEF RwQueue
  <2>4. RwFifo!Put
    BY <1>1, <2>3 DEF RwFifo!Put, ox_rwlist_push, RwQueue
  <2> QED BY <2>2, <2>4
<1>2. CASE ox_rwlist_flush
  BY <1>2 DEF ox_rwlist_flush, NothingAhead, RwInv, RwTypes, RwQueue
<1>3. CASE ox_rwlist_force_flush
  BY <1>3 DEF ox_rwlist_force_flush, RwInv, RwTypes, RwQueue
<1>4. CASE swapWrite
  <2>1. shared = <<>> /\ local_write' = <<>> /\ shared' = local_write /\ local_read' = local_read
    BY <1>4 DEF swapWrite, RwInv
  <2>2. RwInv'
    BY <1>t, <1>4, <2>1 DEF swapWrite, RwInv, RwTypes
  <2>3. RwQueue' = RwQueue
    <3>1. local_read \o local_write \in Seq(Nat)
      BY <1>t
    <3> QED BY <1>t, <2>1, <3>1, ConcatEmptySeq DEF RwQueue
  <2> QED BY <1>4, <2>2, <2>3 DEF swapWrite
<1>5. CASE moveWrite
  <2>1. shared' = shared \o local_write /\ local_write' = <<>> /\ local_read' = local_read
    BY <1>5 DEF moveWrite
  <2>2. RwInv'
    <3>1. shared' \in Seq(Nat)
      BY <1>t, <2>1
    <3> QED BY <1>t, <1>5, <2>1, <3>1 DEF moveWrite, RwInv, RwTypes
  <2>3. RwQueue' = RwQueue
    <3>1. shared \o local_write \in Seq(Nat) /\ local_read \o (shared \o local_write) \in Seq(Nat)
      BY <1>t
    <3>2. RwQueue' = local_read \o (shared \o local_write)
      BY <1>t, <2>1, <3>1, ConcatEmptySeq DEF RwQueue
    <3> QED BY SMTT(40), <1>t, <3>2, ConcatAssociative DEF RwQueue
  <2> QED BY <1>5, <2>2, <2>3 DEF moveWrite
<1>6. CASE \E timeout \in {0, 1} : rwlist_sync_read(timeout)
  BY <1>6 DEF rwlist_sync_read, RwInv, RwTypes, RwQueue
<1>7. CASE endWait
  BY <1>7 DEF endWait, RwInv, RwTypes, RwQueue
<1>8. CASE swapRead
  <2>1. CASE shared = <<>>
    BY <1>8, <2>1 DEF swapRead, RwInv, RwTypes, RwQueue
  <2>2. CASE shared # <<>>
    <3>1. local_read = <<>> /\ local_read' = shared /\ shared' = <<>> /\ local_write' = local_write
      BY <1>8, <2>2 DEF swapRead, RwInv
    <3>2. RwInv'
      BY <1>t, <1>8, <2>2, <3>1 DEF swapRead, RwInv, RwTypes
    <3>3. RwQueue' = RwQueue
      BY <1>t, <3>1, ConcatEmptySeq DEF RwQueue
    <3> QED BY <1>8, <3>2, <3>3 DEF swapRead
  <2> QED BY <2>1, <2>2
<1>9. CASE ox_rwlist_pop
  <2>1. local_read' \in Seq(Nat)
    BY <1>t, <1>9, HeadTailProperties DEF ox_rwlist_pop
  <2>2. RwInv'
    BY <1>t, <1>9, <2>1 DEF ox_rwlist_pop, RwInv, RwTypes
  <2>3. /\ local_read \o shared # <<>> /\ local_read \o shared \in Seq(Nat)
        /\ Head(local_read \o shared) = Head(local_read)
        /\ Tail(local_read \o shared) = local_read' \o shared
    <3>1. local_read # <<>> /\ local_read' = Tail(local_read)
      BY <1>9 DEF ox_rwlist_pop
    <3>2. local_read \o shared \in Seq(Nat)
      BY <1>t
    <3>3. /\ local_read \o shared # <<>>
          /\ Head(local_read \o shared) = Head(local_read)
          /\ Tail(local_read \o shared) = Tail(local_read) \o shared
      BY ONLY <1>t, <3>1, ConcatHeadTail
    <3> QED BY <3>1, <3>2, <3>3
  <2>4. /\ RwQueue # <<>> /\ Head(RwQueue) = Head(local_read)
        /\ Tail(RwQueue) = (local_read' \o shared) \o local_write
    <3> DEFINE ahead == local_read \o shared
    <3>1. ahead \in Seq(Nat) /\ ahead # <<>> /\ RwQueue = ahead \o local_write
      BY <2>3 DEF RwQueue
    <3>2. Head(ahead) = Head(local_read) /\ Tail(ahead) = local_read' \o shared
      BY <2>3
    <3> HIDE DEF ahead
    <3>3. ahead \o local_write # <<>> /\ Head(ahead \o local_write) = Head(ahead)
          /\ Tail(ahead \o local_write) = Tail(ahead) \o local_write
      BY ONLY <1>t, <3>1, ConcatHeadTail
    <3> QED BY <3>1, <3>2, <3>3
  <2>5. RwFifo!Take
    BY <1>9, <2>4 DEF RwFifo!Take, ox_rwlist_pop, RwQueue
  <2> QED BY <2>2, <2>5
<1>10. CASE UNCHANGED rwVars
  BY <1>10 DEF rwVars, RwInv, RwTypes, RwQueue
<1> QED
  BY <1>1, <1>2, <1>3, <1>4, <1>5, <1>6, <1>7, <1>8, <1>9, <1>10 DEF RWListNext

(***************************************************************************)
(* The three stacks of rwlist.c implement one FIFO queue, for any number   *)
(* of elements and any max_pengding_num: rwlist_sync_write and             *)
(* ox_rwlist_force_flush may act on tests made before the mutex is taken.  *)
(***************************************************************************)
THEOREM RwlistIsFifo == RWListSpec => RwImplementsFifo
<1>1. RWListInit => RwInv /\ RwFifo!Init
  <2> SUFFICES ASSUME RWListInit PROVE RwInv /\ RwFifo!Init
    OBVIOUS
  <2>1. RwInv
    BY DEF RWListInit, RwInv, RwTypes
  <2>2. local_read \o shared \o local_write = <<>>
    BY ConcatEmptySeq, EmptySeq DEF RWListInit
  <2> QED BY <2>1, <2>2 DEF RWListInit, RwFifo!Init
<1>2. RwInv /\ [RWListNext]_rwVars
        => RwInv' /\ [RwFifo!Put \/ RwFifo!Take]_<<local_read \o shared \o local_write,
                                                   rwPushed, rwPopped>>
  BY RwStep DEF RwQueue
<1> QED BY <1>1, <1>2, PTL DEF RWListSpec, RwImplementsFifo, RwFifo!Spec
-----------------------------------------------------------------------------
(* The thread pool. *)

PoolPcs == {"none", "lock", "test", "sleep", "wait", "leave", "done", "popped", "work"}

\* The worker that has the lock is the one between the test and the wait, and
\* one that has decided to sleep has nothing to do: no message is pushed while
\* it has the lock.
PoolInv ==
    /\ workPc \in [Workers -> PoolPcs]
    /\ stackNum \in Nat
    /\ \A w \in Workers : workPc[w] \in {"test", "sleep"} => poolLock = w
    /\ \A w \in Workers : workPc[w] = "sleep" => stackNum = 0

\* A signal leaves a worker that is not waiting, and none at a test or a wait.
LEMMA SignalWakes ==
    ASSUME NEW pcs \in [Workers -> PoolPcs], Signal(pcs)
    PROVE  /\ workPc' \in [Workers -> PoolPcs]
           /\ \A w \in Workers : workPc'[w] \in {"test", "sleep"} => workPc'[w] = pcs[w]
           /\ \E w \in Workers : workPc'[w] # "wait"
<1> USE DEF PoolPcs
<1> DEFINE asleep == {w \in Workers : pcs[w] = "wait"}
<1>1. CASE asleep = {}
  BY <1>1, ThreadPoolAssumption DEF Signal
<1>2. CASE asleep # {}
  <2>1. PICK w \in asleep : workPc' = [pcs EXCEPT ![w] = "lock"]
    BY <1>2 DEF Signal
  <2>2. w \in Workers /\ workPc'[w] = "lock" /\ \A v \in Workers \ {w} : workPc'[v] = pcs[v]
    BY <2>1
  <2> QED BY <2>1, <2>2
<1> QED BY <1>1, <1>2

\* Every step of owner and workers keeps PoolInv, and strands no message.
LEMMA PoolStep ==
    PoolInv /\ NoStrandedMessage /\ [ThreadPoolNext]_poolVars
        => PoolInv' /\ NoStrandedMessage'
<1> SUFFICES ASSUME PoolInv, NoStrandedMessage, [ThreadPoolNext]_poolVars
             PROVE  PoolInv' /\ NoStrandedMessage'
  OBVIOUS
<1> USE ThreadPoolAssumption DEF PoolPcs
<1>1. CASE thread_pool_start
  BY <1>1 DEF thread_pool_start, PoolInv, NoStrandedMessage
<1>2. CASE thread_pool_pushmsg
  BY <1>2 DEF thread_pool_pushmsg, PoolInv, NoStrandedMessage
<1>3. CASE pushMsg
  <2>1. \A w \in Workers : workPc[w] \notin {"test", "sleep"}
    BY <1>3 DEF pushMsg, PoolInv
  <2> QED BY <1>3, <2>1 DEF pushMsg, PoolInv, NoStrandedMessage
<1>4. CASE signalPush
  <2>1. workPc \in [Workers -> PoolPcs] /\ Signal(workPc)
    BY <1>4 DEF signalPush, PoolInv
  <2> QED BY <1>4, <2>1, SignalWakes DEF signalPush, PoolInv, NoStrandedMessage
<1>5. CASE thread_pool_stop
  <2>1. CASE is_run /\ is_run' = FALSE /\ UNCHANGED workPc
    BY <1>5, <2>1 DEF thread_pool_stop, PoolInv, NoStrandedMessage
  <2>2. CASE ~ is_run /\ Signal(workPc) /\ UNCHANGED is_run
    <3>1. workPc \in [Workers -> PoolPcs]
      BY DEF PoolInv
    <3> QED BY <1>5, <2>2, <3>1, SignalWakes DEF thread_pool_stop, PoolInv, NoStrandedMessage
  <2> QED BY <1>5, <2>1, <2>2 DEF thread_pool_stop
<1>6. ASSUME NEW w \in Workers, PoolWork(w) PROVE PoolInv' /\ NoStrandedMessage'
  <2>1. CASE lockWork(w)
    BY <2>1 DEF lockWork, Go, PoolInv, NoStrandedMessage
  <2>2. CASE testWork(w)
    <3>1. \A v \in Workers \ {w} : workPc[v] \notin {"test", "sleep"}
      BY <2>2 DEF testWork, PoolInv
    <3>2. CASE is_run /\ stackNum = 0 /\ Go(w, "test", "sleep")
               /\ UNCHANGED <<stackNum, poolLock, msg_ptr>>
      BY <2>2, <3>1, <3>2 DEF Go, PoolInv, NoStrandedMessage
    <3>3. CASE Go(w, "test", "leave") /\ poolLock' = "free" /\ UNCHANGED <<stackNum, msg_ptr>>
      BY <2>2, <3>1, <3>3 DEF Go, PoolInv, NoStrandedMessage
    <3>4. CASE stackNum > 0 /\ stackNum' = stackNum - 1 /\ Go(w, "test", "popped")
               /\ poolLock' = "free"
      BY <2>2, <3>1, <3>4 DEF Go, PoolInv, NoStrandedMessage
    <3> QED BY <2>2, <3>2, <3>3, <3>4 DEF testWork
  <2>3. CASE condWait(w)
    <3>1. /\ \A v \in Workers \ {w} : workPc[v] \notin {"test", "sleep"}
          /\ stackNum = 0
      BY <2>3 DEF condWait, Go, PoolInv
    <3> QED BY <2>3, <3>1 DEF condWait, Go, PoolInv, NoStrandedMessage
  <2>4. CASE leaveWork(w)
    <3>1. [workPc EXCEPT ![w] = "done"] \in [Workers -> PoolPcs]
      BY DEF PoolInv
    <3>2. \A v \in Workers : [workPc EXCEPT ![w] = "done"][v] \in {"test", "sleep"}
              => [workPc EXCEPT ![w] = "done"][v] = workPc[v]
      BY DEF PoolInv
    <3>3. Signal([workPc EXCEPT ![w] = "done"])
      BY <2>4 DEF leaveWork
    <3> DEFINE pcs == [workPc EXCEPT ![w] = "done"]
    <3> HIDE DEF pcs
    <3>4. /\ workPc' \in [Workers -> PoolPcs]
          /\ \A v \in Workers : workPc'[v] \in {"test", "sleep"} => workPc'[v] = pcs[v]
          /\ \E v \in Workers : workPc'[v] # "wait"
      BY <3>1, <3>3, SignalWakes DEF pcs
    <3>5. \A v \in Workers : workPc'[v] \in {"test", "sleep"} => workPc'[v] = workPc[v]
      BY <3>2, <3>4 DEF pcs
    <3> QED BY <2>4, <3>4, <3>5 DEF leaveWork, PoolInv, NoStrandedMessage
  <2>5. CASE beginWork(w)
    BY <2>5 DEF beginWork, Go, PoolInv, NoStrandedMessage
  <2>6. CASE callback(w)
    BY <2>6 DEF callback, Go, PoolInv, NoStrandedMessage
  <2> QED BY <1>6, <2>1, <2>2, <2>3, <2>4, <2>5, <2>6 DEF PoolWork
<1>7. CASE UNCHANGED poolVars
  BY <1>7 DEF poolVars, PoolInv, NoStrandedMessage
<1> QED BY <1>1, <1>2, <1>3, <1>4, <1>5, <1>6, <1>7 DEF ThreadPoolNext

(***************************************************************************)
(* No message is stranded in the pool, for any number of workers and       *)
(* messages: thread_pool_work tests and waits in one critical section, and *)
(* thread_pool_pushmsg, which signals after its unlock, cannot push in     *)
(* between.                                                                *)
(***************************************************************************)
THEOREM NoMessageStranded == ThreadPoolSpec => []NoStrandedMessage
<1>1. ThreadPoolInit => PoolInv /\ NoStrandedMessage
  BY ThreadPoolAssumption DEF ThreadPoolInit, PoolInv, PoolPcs, NoStrandedMessage
<1> QED BY <1>1, PoolStep, PTL DEF ThreadPoolSpec
=============================================================================
