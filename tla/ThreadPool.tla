----------------------------- MODULE ThreadPool -----------------------------
(***************************************************************************)
(* utils/threadpool.c: workers sleep on a condition variable until a       *)
(* message is pushed.  thread_pool_pushmsg signals after it has unlocked;  *)
(* thread_pool_stop writes is_run and signals without the lock.            *)
(*                                                                         *)
(* The stack, mutex and condition variable come from a library that is not *)
(* in the repository.  ox_stack_popback returns a pointer to the element's *)
(* place in the stack; thread_pool_work follows it after it has unlocked,  *)
(* so what it reads is what the place holds by then.                       *)
(***************************************************************************)
EXTENDS Naturals, Sequences

CONSTANTS
    Workers,
    MaxPoolMsgs         \* bound: messages pushed

ASSUME ThreadPoolAssumption ==
    Workers # {} /\ "free" \notin Workers /\ MaxPoolMsgs \in Nat

VARIABLES
    is_run,
    stackMem, stackNum, \* msg_list: its places, and how many are in use
    poolLock,           \* msg_lock is held across a step of this worker, or "free"
    workPc,             \* where each worker is in thread_pool_work
    msg_ptr,            \* the place each worker popped
    work_thread_state,
    pusher,             \* where the pushing thread is in thread_pool_pushmsg
    pushed,             \* messages pushed
    handled             \* history: what the callback was given

poolVars == <<is_run, stackMem, stackNum, poolLock, workPc, msg_ptr, work_thread_state,
              pusher, pushed, handled>>

ThreadPoolInit ==
    /\ is_run = TRUE
    /\ stackMem = <<>> /\ stackNum = 0 /\ poolLock = "free"
    /\ workPc = [w \in Workers |-> "none"]
    /\ msg_ptr = [w \in Workers |-> 0]
    /\ work_thread_state = [w \in Workers |-> FALSE]
    /\ pusher = "none" /\ pushed = 0 /\ handled = <<>>

Go(w, from, to) == workPc[w] = from /\ workPc' = [workPc EXCEPT ![w] = to]

thread_pool_start ==
    /\ \A w \in Workers : workPc[w] = "none"
    /\ workPc' = [w \in Workers |-> "lock"]
    /\ UNCHANGED <<is_run, stackMem, stackNum, poolLock, msg_ptr, work_thread_state, pusher,
                   pushed, handled>>

\* ox_mutex_lock, first or on the way out of ox_thread_cond_wait.
lockWork(w) ==
    /\ poolLock = "free"
    /\ poolLock' = w
    /\ Go(w, "lock", "test")
    /\ UNCHANGED <<is_run, stackMem, stackNum, msg_ptr, work_thread_state, pusher, pushed,
                   handled>>

\* Mutant: the lock is let go between the test and the wait.
testWork_unlocks(w) ==
    /\ workPc[w] = "test"
    /\ poolLock' = "free"
    /\ \/ /\ is_run /\ stackNum = 0
          /\ Go(w, "test", "sleep") /\ UNCHANGED <<stackNum, msg_ptr>>
       \/ /\ ~ is_run
          /\ Go(w, "test", "leave") /\ UNCHANGED <<stackNum, msg_ptr>>
       \/ /\ is_run /\ stackNum > 0
          /\ msg_ptr' = [msg_ptr EXCEPT ![w] = stackNum]
          /\ stackNum' = stackNum - 1
          /\ Go(w, "test", "popped")
    /\ UNCHANGED <<is_run, stackMem, work_thread_state, pusher, pushed, handled>>

\* Under the lock: go to sleep, leave, or pop and unlock.
testWork(w) ==
    /\ workPc[w] = "test"
    /\ \/ /\ is_run /\ stackNum = 0
          /\ Go(w, "test", "sleep")
          /\ UNCHANGED <<stackNum, poolLock, msg_ptr>>
       \/ /\ ~ is_run
          /\ Go(w, "test", "leave")
          /\ poolLock' = "free"
          /\ UNCHANGED <<stackNum, msg_ptr>>
       \/ /\ is_run /\ stackNum > 0
          /\ msg_ptr' = [msg_ptr EXCEPT ![w] = stackNum]
          /\ stackNum' = stackNum - 1
          /\ Go(w, "test", "popped")
          /\ poolLock' = "free"
    /\ UNCHANGED <<is_run, stackMem, work_thread_state, pusher, pushed, handled>>

\* ox_thread_cond_wait unlocks and sleeps in one step.
condWait(w) ==
    /\ Go(w, "sleep", "wait")
    /\ poolLock' = "free"
    /\ UNCHANGED <<is_run, stackMem, stackNum, msg_ptr, work_thread_state, pusher, pushed,
                   handled>>

\* ox_thread_cond_signal wakes one of the sleeping workers.
Signal(pcs) ==
    LET asleep == {w \in Workers : pcs[w] = "wait"} IN
    IF asleep = {} THEN workPc' = pcs
    ELSE \E w \in asleep : workPc' = [pcs EXCEPT ![w] = "lock"]

\* A worker that leaves wakes the next one.
leaveWork(w) ==
    /\ workPc[w] = "leave"
    /\ Signal([workPc EXCEPT ![w] = "done"])
    /\ UNCHANGED <<is_run, stackMem, stackNum, poolLock, msg_ptr, work_thread_state, pusher,
                   pushed, handled>>

\* thread_state goes up only now, after the unlock.
beginWork(w) ==
    /\ Go(w, "popped", "work")
    /\ work_thread_state' = [work_thread_state EXCEPT ![w] = TRUE]
    /\ UNCHANGED <<is_run, stackMem, stackNum, poolLock, msg_ptr, pusher, pushed, handled>>

\* *msg_ptr is read here, and the callback runs.
callback(w) ==
    /\ Go(w, "work", "lock")
    /\ handled' = Append(handled, stackMem[msg_ptr[w]])
    /\ work_thread_state' = [work_thread_state EXCEPT ![w] = FALSE]
    /\ UNCHANGED <<is_run, stackMem, stackNum, poolLock, msg_ptr, pusher, pushed>>

\* is_run is read without the lock.
thread_pool_pushmsg ==
    /\ pusher = "none"
    /\ is_run
    /\ pusher' = "lock"
    /\ UNCHANGED <<is_run, stackMem, stackNum, poolLock, workPc, msg_ptr, work_thread_state,
                   pushed, handled>>

\* Under the lock; messages are numbered.
pushMsg ==
    /\ pusher = "lock"
    /\ poolLock = "free"
    /\ pusher' = "signal"
    /\ \/ /\ pushed < MaxPoolMsgs
          /\ pushed' = pushed + 1
          /\ stackMem' = IF stackNum = Len(stackMem) THEN Append(stackMem, pushed + 1)
                         ELSE [stackMem EXCEPT ![stackNum + 1] = pushed + 1]
          /\ stackNum' = stackNum + 1
       \/ UNCHANGED <<pushed, stackMem, stackNum>>       \* ox_stack_push fails
    /\ UNCHANGED <<is_run, poolLock, workPc, msg_ptr, work_thread_state, handled>>

\* After the unlock, whether or not the message was pushed.
signalPush ==
    /\ pusher = "signal"
    /\ pusher' = "none"
    /\ Signal(workPc)
    /\ UNCHANGED <<is_run, stackMem, stackNum, poolLock, msg_ptr, work_thread_state, pushed,
                   handled>>

\* thread_pool_stop: the flag, then a signal and a join for each worker.
thread_pool_stop ==
    /\ \A w \in Workers : workPc[w] # "none"
    /\ \/ is_run /\ is_run' = FALSE /\ UNCHANGED workPc
       \/ ~ is_run /\ Signal(workPc) /\ UNCHANGED is_run
    /\ UNCHANGED <<stackMem, stackNum, poolLock, msg_ptr, work_thread_state, pusher, pushed,
                   handled>>

PoolWork(w) ==
    \/ lockWork(w) \/ testWork(w) \/ condWait(w) \/ leaveWork(w) \/ beginWork(w) \/ callback(w)

ThreadPoolNext ==
    \/ thread_pool_start \/ thread_pool_pushmsg \/ pushMsg \/ signalPush \/ thread_pool_stop
    \/ \E w \in Workers : PoolWork(w)

ThreadPoolSpec == ThreadPoolInit /\ [][ThreadPoolNext]_poolVars
-----------------------------------------------------------------------------
(***************************************************************************)
(* No message is stranded: with messages in the list, a worker is awake or *)
(* the thread that pushed is about to wake one.  It rests on the test and  *)
(* the wait being one critical section (lines 100-105) although the signal *)
(* (226) comes after the unlock.                                           *)
(***************************************************************************)
NoStrandedMessage ==
    stackNum > 0 /\ is_run /\ pusher # "signal" => \E w \in Workers : workPc[w] # "wait"
=============================================================================
