------------------------------ MODULE MsgQueue ------------------------------
(***************************************************************************)
(* utils/MsgQueue.h: a queue between one writing and one reading thread.   *)
(* Each has a list of its own; they meet in mSharedList under mMutex.  The *)
(* writer looks at mSharedList without the lock before it takes it: only   *)
(* the writer fills that list and only the reader empties it, so what the  *)
(* look says can change in one direction before the lock is taken.         *)
(*                                                                         *)
(* Messages are numbered as they are pushed.  wait_for in syncRead has no  *)
(* predicate and always ends, by a notify or by its timeout: it is a delay *)
(* in front of the swap.  clear() runs in the destructor only, when both   *)
(* threads are done.                                                       *)
(***************************************************************************)
EXTENDS Naturals, Sequences

CONSTANT MaxMsgs        \* bound: messages pushed

ASSUME MsgQueueAssumption == MaxMsgs \in Nat

VARIABLES
    mWriteList,         \* the writer's
    mSharedList,        \* under mMutex
    mReadList,          \* the reader's
    mqWriter,           \* where the writer is: "idle", or about to lock in
                        \* trySyncWrite ("try") or forceSyncWrite ("force")
    mqPushed,           \* history: messages pushed
    mqPopped            \* history: messages popped, in order

mqVars == <<mWriteList, mSharedList, mReadList, mqWriter, mqPushed, mqPopped>>

\* What has been pushed and not popped, oldest first.
mqPending == mReadList \o mSharedList \o mWriteList

MsgQueueInit ==
    /\ mWriteList = <<>> /\ mSharedList = <<>> /\ mReadList = <<>>
    /\ mqWriter = "idle"
    /\ mqPushed = 0 /\ mqPopped = <<>>

mqPush ==
    /\ mqWriter = "idle"
    /\ mqPushed < MaxMsgs
    /\ mqPushed' = mqPushed + 1
    /\ mWriteList' = Append(mWriteList, mqPushed + 1)
    /\ UNCHANGED <<mSharedList, mReadList, mqWriter, mqPopped>>

\* The look without the lock.
trySyncWrite ==
    /\ mqWriter = "idle"
    /\ mWriteList # <<>> /\ mSharedList = <<>>
    /\ mqWriter' = "try"
    /\ UNCHANGED <<mWriteList, mSharedList, mReadList, mqPushed, mqPopped>>

\* The critical section looks again and swaps.
trySyncWriteLocked ==
    /\ mqWriter = "try"
    /\ IF mWriteList # <<>> /\ mSharedList = <<>>
       THEN mSharedList' = mWriteList /\ mWriteList' = mSharedList
       ELSE UNCHANGED <<mSharedList, mWriteList>>
    /\ mqWriter' = "idle"
    /\ UNCHANGED <<mReadList, mqPushed, mqPopped>>

forceSyncWrite ==
    /\ mqWriter = "idle"
    /\ mWriteList # <<>>
    /\ mqWriter' = IF mSharedList = <<>> THEN "try" ELSE "force"
    /\ UNCHANGED <<mWriteList, mSharedList, mReadList, mqPushed, mqPopped>>

\* Mutant: the shorter shared list is put behind the write list.
forceMerge_behind(shared, write) ==
    IF Len(write) > Len(shared) THEN write \o shared ELSE shared \o write

\* The shorter list is moved into the longer one, in front of it or behind it.
forceMerge(shared, write) == shared \o write

forceSyncWriteLocked ==
    /\ mqWriter = "force"
    /\ mSharedList' = forceMerge(mSharedList, mWriteList)
    /\ mWriteList' = <<>>
    /\ mqWriter' = "idle"
    /\ UNCHANGED <<mReadList, mqPushed, mqPopped>>

syncRead ==
    /\ mReadList = <<>>
    /\ mReadList' = mSharedList /\ mSharedList' = mReadList
    /\ UNCHANGED <<mWriteList, mqWriter, mqPushed, mqPopped>>

popFront ==
    /\ mReadList # <<>>
    /\ mqPopped' = Append(mqPopped, Head(mReadList))
    /\ mReadList' = Tail(mReadList)
    /\ UNCHANGED <<mWriteList, mSharedList, mqWriter, mqPushed>>

popBack ==
    /\ mReadList # <<>>
    /\ mqPopped' = Append(mqPopped, mReadList[Len(mReadList)])
    /\ mReadList' = SubSeq(mReadList, 1, Len(mReadList) - 1)
    /\ UNCHANGED <<mWriteList, mSharedList, mqWriter, mqPushed>>

MsgQueueNext ==
    \/ mqPush \/ trySyncWrite \/ trySyncWriteLocked
    \/ forceSyncWrite \/ forceSyncWriteLocked
    \/ syncRead \/ popFront \/ popBack

MsgQueueSpec == MsgQueueInit /\ [][MsgQueueNext]_mqVars
-----------------------------------------------------------------------------
Elements(s) == {s[i] : i \in 1..Len(s)}

\* popBack reverses a batch and never reaches past it.
BatchOrder ==
    \A m \in Elements(mqPopped) : \A n \in Elements(mSharedList \o mWriteList) : m < n

(***************************************************************************)
(* Nothing is lost or delivered twice, and what is pending stands in push  *)
(* order across the three lists, however the two unlocked looks (lines 49, *)
(* 68) and the moves of forceSyncWrite (80-98) fall between the reader's   *)
(* swaps (151-154).  A message is popped, by popFront or popBack, only     *)
(* after every message of the batches before its own.                      *)
(***************************************************************************)
QueueIntact ==
    /\ \A i, j \in 1..Len(mqPending) : i < j => mqPending[i] < mqPending[j]
    /\ Elements(mqPopped) \cup Elements(mqPending) = 1..mqPushed
    /\ Len(mqPopped) + Len(mqPending) = mqPushed
    /\ BatchOrder
=============================================================================
