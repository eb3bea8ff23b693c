----------------------------- MODULE Connector -----------------------------
(***************************************************************************)
(* net/Connector.cpp over utils/fdset.c and utils/MsgQueue.h.  A caller    *)
(* queues requests with asyncConnect; one thread takes them, connects      *)
(* without blocking, polls the pending sockets and answers every request   *)
(* through a callback, with a connected fd or with SOCKET_ERROR.           *)
(*                                                                         *)
(* A request is its uid, the number MsgQueue gives it.  mIsRun is a plain  *)
(* bool, read once per round.  loop(10) of the round lasts at most 10 ms   *)
(* whether or not asyncConnect's wakeup() reaches it, so it is no step of  *)
(* its own.  fd numbers are the kernel's: other threads open and close     *)
(* sockets too, and a closed number comes back.                            *)
(***************************************************************************)
EXTENDS MsgQueue, Integers

CONSTANTS
    Fds,                \* numbers the kernel gives to sockets
    FdsetSize,          \* ox_fdset_new's first size (1024)
    FdsetStep           \* what a full fdset grows by (128)

ASSUME ConnectorAssumption ==
    /\ Fds \subseteq Nat
    /\ FdsetSize \in Nat \ {0} /\ FdsetStep \in Nat \ {0}

SOCKET_ERROR == -1

VARIABLES
    mIsRun, mThread,    \* of ThreadConnector
    connCaller,         \* asyncConnect has pushed and not yet synced
    connPc,             \* where the thread is in run()
    mConnectingInfos,   \* fd -> uid, of the sockets that are connecting
    mConnectingFds,
    pollFds, limitSize, \* of mFDSet
    completeFds, failedFds, \* locals of checkConnectStatus
    dueFds,             \* what is left of checkTimeout's for
    overdue,            \* sockets whose timeout has passed
    fdOwner,            \* kernel: "free", "connector" or "user"
    fdState,            \* kernel: "pending", "ok" or "err"
    answers             \* history: calls of mCallback

fdsetVars == <<pollFds, limitSize>>
tableVars == <<mConnectingInfos, mConnectingFds, fdsetVars, overdue>>
localVars == <<completeFds, failedFds, dueFds>>
kernelVars == <<fdOwner, fdState>>
connVars == <<mqVars, mIsRun, mThread, connCaller, connPc, tableVars, localVars,
              kernelVars, answers>>
-----------------------------------------------------------------------------
(* utils/fdset.c.  A type is a set of checks, as events and revents are. *)

\* upstepPollfd, when the array is full.
fdsetLimit == IF limitSize = Len(pollFds) THEN limitSize + FdsetStep ELSE limitSize

\* findPollfd: 0 if fd has no entry.
findPollfd(fd) ==
    LET at == {i \in 1..Len(pollFds) : pollFds[i].fd = fd}
    IN  IF at = {} THEN 0 ELSE CHOOSE i \in at : \A j \in at : i <= j

\* ErrorCheck asks poll for nothing, and a new entry's revents are what the
\* memory held.
ox_fdset_add(fd, type) ==
    /\ limitSize' = fdsetLimit
    /\ LET i == findPollfd(fd)
           events == type \ {"Error"}
       IN  IF i = 0
           THEN \E garbage \in SUBSET {"Write", "Error"} :
                    pollFds' = Append(pollFds, [fd |-> fd, events |-> events,
                                                revents |-> garbage])
           ELSE pollFds' = [pollFds EXCEPT ![i].events = @ \cup events]

RemoveAt(s, i) == SubSeq(s, 1, i - 1) \o SubSeq(s, i + 1, Len(s))

\* Mutant: the entry stays when its last event goes.
ox_fdset_del_keeps(fd, type) ==
    LET i == findPollfd(fd) IN
    /\ pollFds' = IF i = 0 THEN pollFds ELSE [pollFds EXCEPT ![i].events = @ \ type]
    /\ UNCHANGED limitSize

\* ox_fdset_del, and TryRemovePollFd for an entry without events.
ox_fdset_del(fd, type) ==
    LET i == findPollfd(fd) IN
    /\ pollFds' = IF i = 0 THEN pollFds
                  ELSE IF pollFds[i].events \ type = {} THEN RemoveAt(pollFds, i)
                  ELSE [pollFds EXCEPT ![i].events = @ \ type]
    /\ UNCHANGED limitSize

\* What poll may report: a failed connect is writable and, on most systems,
\* in error.
Reports(fd) == CASE fdState[fd] = "ok" -> {{"Write"}}
                 [] fdState[fd] = "err" -> {{"Write"}, {"Write", "Error"}}
                 [] OTHER -> {{}}

\* ox_fdset_poll writes the revents of every entry.
Polled(rev) == [i \in 1..Len(pollFds) |-> [pollFds[i] EXCEPT !.revents = rev[pollFds[i].fd]]]

\* ox_fdset_check, on the entries poll has written.
ox_fdset_check(polled, fd, type) ==
    \E i \in 1..Len(polled) : polled[i].fd = fd /\ type \in polled[i].revents
-----------------------------------------------------------------------------
ConnectorInit ==
    /\ MsgQueueInit
    /\ mIsRun = FALSE /\ mThread = FALSE
    /\ connCaller = "idle" /\ connPc = "none"
    /\ mConnectingInfos = <<>> /\ mConnectingFds = {}
    /\ pollFds = <<>> /\ limitSize = FdsetSize
    /\ completeFds = {} /\ failedFds = {} /\ dueFds = {} /\ overdue = {}
    /\ fdOwner = [f \in Fds |-> "free"] /\ fdState = [f \in Fds |-> "pending"]
    /\ answers = <<>>

startThread ==
    /\ ~ mThread
    /\ mIsRun' = TRUE /\ mThread' = TRUE
    /\ connPc' = "round"
    /\ UNCHANGED <<mqVars, connCaller, tableVars, localVars, kernelVars, answers>>

\* asyncConnect: push, then forceSyncWrite, whose lock is a step of its own.
asyncConnect ==
    /\ connCaller = "idle"
    /\ mqPush
    /\ connCaller' = "pushed"
    /\ UNCHANGED <<mIsRun, mThread, connPc, tableVars, localVars, kernelVars, answers>>

asyncConnectSync ==
    /\ \/ connCaller = "pushed" /\ forceSyncWrite /\ connCaller' = "sync"
       \/ connCaller = "sync" /\ trySyncWriteLocked /\ connCaller' = "idle"
       \/ connCaller = "sync" /\ forceSyncWriteLocked /\ connCaller' = "idle"
    /\ UNCHANGED <<mIsRun, mThread, connPc, tableVars, localVars, kernelVars, answers>>

\* while (mIsRun), and loop(10).
runRound ==
    /\ connPc = "round"
    /\ connPc' = IF mIsRun THEN "status" ELSE "ended"
    /\ UNCHANGED <<mqVars, mIsRun, mThread, connCaller, tableVars, localVars, kernelVars,
                   answers>>

\* Mutant: a writable socket is a connected one.
isConnectSuccess_writable(polled, fd) == ox_fdset_check(polled, fd, "Write")

\* SO_ERROR decides.
isConnectSuccess(polled, fd) ==
    ox_fdset_check(polled, fd, "Write") /\ fdState[fd] # "err"

\* The poll of checkConnectStatus and its first for.
checkConnectStatus ==
    /\ connPc = "status"
    /\ \E rev \in [Fds -> SUBSET {"Write", "Error"}] :
        /\ \A fd \in Fds : rev[fd] \in Reports(fd)
        /\ LET polled == Polled(rev)
               failed == {fd \in mConnectingFds : ox_fdset_check(polled, fd, "Error")}
               writable == {fd \in mConnectingFds : ox_fdset_check(polled, fd, "Write")}
           IN  /\ pollFds' = polled
               /\ IF \A i \in 1..Len(polled) : polled[i].revents = {}
                  THEN UNCHANGED <<completeFds, failedFds>> /\ connPc' = "sync"
                  ELSE /\ completeFds' = failed \cup writable
                       /\ failedFds' = failed \cup {fd \in writable \ failed :
                                                      ~ isConnectSuccess(polled, fd)}
                       /\ connPc' = "complete"
    /\ UNCHANGED <<mqVars, mIsRun, mThread, connCaller, mConnectingInfos, mConnectingFds,
                   limitSize, overdue, dueFds, kernelVars, answers>>

mCallback(fd, uid) == answers' = Append(answers, [fd |-> fd, uid |-> uid])

Forget(fd) ==
    /\ mConnectingInfos' = [f \in DOMAIN mConnectingInfos \ {fd} |-> mConnectingInfos[f]]
    /\ mConnectingFds' = mConnectingFds \ {fd}
    /\ overdue' = overdue \ {fd}

\* One round of checkConnectStatus' second for.
completeFd(fd) ==
    /\ connPc = "complete"
    /\ fd \in completeFds
    /\ completeFds' = completeFds \ {fd}
    /\ ox_fdset_del(fd, {"Write", "Error"})
    /\ \/ /\ fd \in DOMAIN mConnectingInfos
          /\ fdOwner' = [fdOwner EXCEPT ![fd] = IF fd \in failedFds THEN "free" ELSE "user"]
          /\ mCallback(IF fd \in failedFds THEN SOCKET_ERROR ELSE fd, mConnectingInfos[fd])
       \/ fd \notin DOMAIN mConnectingInfos /\ UNCHANGED <<fdOwner, answers>>
    /\ Forget(fd)
    /\ UNCHANGED <<mqVars, mIsRun, mThread, connCaller, connPc, failedFds, dueFds, fdState>>

completeDone ==
    /\ connPc = "complete"
    /\ completeFds = {}
    /\ failedFds' = {}
    /\ connPc' = "sync"
    /\ UNCHANGED <<mqVars, mIsRun, mThread, connCaller, completeFds, dueFds, tableVars,
                   kernelVars, answers>>

\* mConnectRequests.syncRead(0); the list is empty, pollConnectRequest drained it.
syncRequests ==
    /\ connPc = "sync"
    /\ syncRead
    /\ connPc' = "request"
    /\ UNCHANGED <<mIsRun, mThread, connCaller, tableVars, localVars, kernelVars, answers>>

\* connect says EINPROGRESS.
startConnecting(fd, uid) ==
    /\ fdOwner' = [fdOwner EXCEPT ![fd] = "connector"]
    /\ fdState' = [fdState EXCEPT ![fd] = "pending"]
    /\ mConnectingInfos' = [f \in DOMAIN mConnectingInfos \cup {fd} |->
                               IF f = fd THEN uid ELSE mConnectingInfos[f]]
    /\ mConnectingFds' = mConnectingFds \cup {fd}
    /\ ox_fdset_add(fd, {"Write", "Error"})
    /\ UNCHANGED <<overdue, answers>>

\* One round of pollConnectRequest's while: the newest request of the batch, a
\* socket that cannot be had or that connects at once, later or never.
pollConnectRequest ==
    /\ connPc = "request"
    /\ popBack
    /\ LET uid == mReadList[Len(mReadList)] IN
        \/ /\ mCallback(SOCKET_ERROR, uid)
           /\ UNCHANGED <<tableVars, kernelVars>>
        \/ \E fd \in Fds :
            /\ fdOwner[fd] = "free"
            /\ fdOwner' = [fdOwner EXCEPT ![fd] = "user"]
            /\ fdState' = [fdState EXCEPT ![fd] = "ok"]
            /\ mCallback(fd, uid)
            /\ UNCHANGED tableVars
        \/ \E fd \in Fds : fdOwner[fd] = "free" /\ startConnecting(fd, uid)
    /\ UNCHANGED <<mIsRun, mThread, connCaller, connPc, localVars>>

\* now_time is read once: the for of checkTimeout goes through these.
requestsDone ==
    /\ connPc = "request"
    /\ mReadList = <<>>
    /\ dueFds' = overdue
    /\ connPc' = "timeout"
    /\ UNCHANGED <<mqVars, mIsRun, mThread, connCaller, completeFds, failedFds, tableVars,
                   kernelVars, answers>>

\* Mutant: the socket stays in mConnectingInfos.
checkTimeout_forgets(fd) ==
    /\ connPc = "timeout" /\ fd \in dueFds
    /\ dueFds' = dueFds \ {fd}
    /\ ox_fdset_del(fd, {"Write", "Error"})
    /\ mConnectingFds' = mConnectingFds \ {fd} /\ overdue' = overdue \ {fd}
    /\ fdOwner' = [fdOwner EXCEPT ![fd] = "free"]
    /\ mCallback(SOCKET_ERROR, mConnectingInfos[fd])
    /\ UNCHANGED <<mqVars, mIsRun, mThread, connCaller, connPc, mConnectingInfos, completeFds,
                   failedFds, fdState>>

checkTimeout(fd) ==
    /\ connPc = "timeout"
    /\ fd \in dueFds
    /\ dueFds' = dueFds \ {fd}
    /\ ox_fdset_del(fd, {"Write", "Error"})
    /\ Forget(fd)
    /\ fdOwner' = [fdOwner EXCEPT ![fd] = "free"]
    /\ mCallback(SOCKET_ERROR, mConnectingInfos[fd])
    /\ UNCHANGED <<mqVars, mIsRun, mThread, connCaller, connPc, completeFds, failedFds, fdState>>

\* Mutant: no timeouts.
timeoutsDone_skips ==
    /\ connPc = "timeout"
    /\ dueFds' = {} /\ connPc' = "round"
    /\ UNCHANGED <<mqVars, mIsRun, mThread, connCaller, completeFds, failedFds, tableVars,
                   kernelVars, answers>>

timeoutsDone ==
    /\ connPc = "timeout"
    /\ dueFds = {}
    /\ connPc' = "round"
    /\ UNCHANGED <<mqVars, mIsRun, mThread, connCaller, localVars, tableVars, kernelVars,
                   answers>>

\* destroy: the flag, and the join once the thread has left run().
destroy ==
    /\ mThread
    /\ \/ mIsRun /\ mIsRun' = FALSE /\ UNCHANGED connPc
       \/ ~ mIsRun /\ connPc = "ended" /\ connPc' = "joined" /\ UNCHANGED mIsRun
    /\ UNCHANGED <<mqVars, mThread, connCaller, tableVars, localVars, kernelVars, answers>>
-----------------------------------------------------------------------------
(* The kernel, the clock and the other threads of the process. *)

connectEnds(fd) ==
    /\ fdOwner[fd] = "connector" /\ fdState[fd] = "pending"
    /\ \E s \in {"ok", "err"} : fdState' = [fdState EXCEPT ![fd] = s]
    /\ UNCHANGED <<mqVars, mIsRun, mThread, connCaller, connPc, tableVars, localVars, fdOwner,
                   answers>>

timePasses(fd) ==
    /\ fd \in DOMAIN mConnectingInfos \ overdue
    /\ overdue' = overdue \cup {fd}
    /\ UNCHANGED <<mqVars, mIsRun, mThread, connCaller, connPc, mConnectingInfos,
                   mConnectingFds, fdsetVars, localVars, kernelVars, answers>>

userOpensOrCloses(fd) ==
    /\ fdOwner[fd] \in {"free", "user"}
    /\ fdOwner' = [fdOwner EXCEPT ![fd] = IF @ = "free" THEN "user" ELSE "free"]
    /\ fdState' = [fdState EXCEPT ![fd] = "pending"]
    /\ UNCHANGED <<mqVars, mIsRun, mThread, connCaller, connPc, tableVars, localVars, answers>>
-----------------------------------------------------------------------------
ConnectorThread ==
    \/ runRound
    \/ checkConnectStatus \/ (\E fd \in Fds : completeFd(fd)) \/ completeDone
    \/ syncRequests \/ pollConnectRequest \/ requestsDone
    \/ (\E fd \in Fds : checkTimeout(fd)) \/ timeoutsDone

ConnectorNext ==
    \/ startThread \/ asyncConnect \/ asyncConnectSync \/ destroy
    \/ ConnectorThread
    \/ \E fd \in Fds : connectEnds(fd) \/ timePasses(fd) \/ userOpensOrCloses(fd)

ConnectorSpec == ConnectorInit /\ [][ConnectorNext]_connVars
-----------------------------------------------------------------------------
Answered(uid) == {i \in 1..Len(answers) : answers[i].uid = uid}
Connecting(uid) == {fd \in DOMAIN mConnectingInfos : mConnectingInfos[fd] = uid}

(***************************************************************************)
(* A request is in exactly one place: in the queue, in mConnectingInfos    *)
(* under one fd, or answered, once.  In particular a connect that succeeds *)
(* while its timeout passes is answered by checkConnectStatus (line 131)   *)
(* or by checkTimeout (159) and not by both.                               *)
(***************************************************************************)
RequestInOnePlace ==
    \A uid \in 1..mqPushed :
        LET queued == IF uid \in Elements(mqPending) THEN 1 ELSE 0
            connecting == IF Connecting(uid) = {} THEN 0 ELSE 1
        IN  /\ \A f, g \in Connecting(uid) : f = g
            /\ \A i, j \in Answered(uid) : i = j
            /\ queued + connecting + (IF Answered(uid) = {} THEN 0 ELSE 1) = 1

(***************************************************************************)
(* mConnectingInfos, mConnectingFds and mFDSet name the same sockets, each *)
(* once, inside the poll array, and all of them belong to the connector:   *)
(* no fd that was closed or handed over stays behind, where a reused       *)
(* number would be polled, reported or closed in its place.                *)
(***************************************************************************)
ConnectingTablesAgree ==
    /\ DOMAIN mConnectingInfos = mConnectingFds
    /\ {pollFds[i].fd : i \in 1..Len(pollFds)} = mConnectingFds
    /\ \A i, j \in 1..Len(pollFds) : pollFds[i].fd = pollFds[j].fd => i = j
    /\ Len(pollFds) <= limitSize
    /\ \A fd \in Fds : fdOwner[fd] = "connector" <=> fd \in mConnectingFds
    /\ completeFds \cup dueFds \subseteq mConnectingFds

(***************************************************************************)
(* The callback gets an fd only if its connect succeeded (lines 131, 226). *)
(***************************************************************************)
HandsOverConnected ==
    [][\A i \in 1..Len(answers') :
          i > Len(answers) /\ answers'[i].fd # SOCKET_ERROR
              => fdState'[answers'[i].fd] = "ok"]_connVars

(***************************************************************************)
(* Every request is answered in the end, unless the connector is           *)
(* destroyed first: whether the connect succeeds, fails or hangs.          *)
(***************************************************************************)
EveryRequestAnswered ==
    \A uid \in 1..MaxMsgs : mThread /\ mqPushed >= uid ~> Answered(uid) # {} \/ ~ mIsRun
=============================================================================
