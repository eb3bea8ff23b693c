----------------------------- MODULE TcpService -----------------------------
(***************************************************************************)
(* net/TCPService.cpp with utils/Typeids.h: how sessions get their ids and *)
(* how a thread that holds an id reaches the DataSocket behind it.         *)
(*                                                                         *)
(* Every worker thread runs one EventLoop, here its two lanes of procs     *)
(* (TaskQueue): async[l] is what other threads posted, after[l] the        *)
(* disconnect callbacks DataSocket::onClose has pushed.  A DataSocket is   *)
(* reduced to its life and its id (mUserData); the module DataSocket has   *)
(* the rest.  Procs resolve the id when they run, so that an id may by     *)
(* then be stale and its slot in mDataSockets taken by another session.    *)
(*                                                                         *)
(* An operation carries what the caller means by the id (for), which the   *)
(* code does not know.                                                     *)
(***************************************************************************)
EXTENDS Naturals, Sequences, FiniteSets

CONSTANTS
    Loops,          \* worker threads, one EventLoop each (loopIndex)
    Callers,        \* other threads that use the service
    Cacher,         \* the one that uses cacheSend and flushCachePackectList
    Socks,          \* DataSocket objects
    Null,           \* nullptr
    IncreaseNum,    \* slots TypeIDS::increase adds (_NUM, 100)
    IndexMod,       \* values of SessionId.index (2^16)
    IidMod,         \* values of SessionId.iid (2^32)
    MaxOps,         \* bound: operations on ids
    MaxStarts       \* bound: calls of startWorkerThread

ASSUME TcpServiceAssumption ==
    /\ Loops # {}
    /\ Callers \cap Loops = {}
    /\ Cacher \in Callers
    /\ Null \notin Socks /\ Null \notin [loopIndex : Loops, index : Nat, iid : Nat]
    /\ IncreaseNum \in Nat \ {0} /\ IndexMod \in Nat \ {0} /\ IidMod \in Nat \ {0}
    /\ MaxOps \in Nat /\ MaxStarts \in Nat

VARIABLES
    service,        \* "new", "running", "stopped" (threads joined), "closed"
    starts,         \* calls of startWorkerThread
    mValues,        \* mDataSockets[l].mValues
    mIds,           \* mDataSockets[l].mIds
    mIncIds,
    mCachePacketList,
    async, after,   \* the lanes of each EventLoop
    life,           \* what became of each DataSocket
    mUserData,      \* its id, or Null
    known,          \* ids handed to enter callbacks, with the session they mean
    ops,            \* operations requested so far
    reached         \* history: operations that reached a DataSocket, in order

tableVars == <<mValues, mIds, mIncIds>>
vars == <<service, starts, tableVars, mCachePacketList, async, after, life, mUserData,
          known, ops, reached>>

SessionIds == [loopIndex : Loops, index : Nat, iid : Nat]

\* "control" is shutdown or setPingCheckTime: what they do is inside DataSocket.
Kinds == {"send", "cacheSend", "control", "disConnect"}
Requests == [kind : Kinds, id : SessionIds, for : Socks, by : Callers \cup Loops, n : Nat]

\* Procs of the async lane: helpAddChannel's, one operation, or a cached list.
AsyncProcs == [enter : Socks] \cup [list : Seq(Requests)]

TypeOK ==
    /\ service \in {"new", "running", "stopped", "closed"}
    /\ starts \in Nat
    /\ mValues \in [Loops -> Seq(Socks \cup {Null})]
    /\ mIds \in [Loops -> Seq(Nat)]
    /\ mIncIds \in [Loops -> Nat]
    /\ mCachePacketList \in [Loops -> Seq(Requests)]
    /\ async \in [Loops -> Seq(AsyncProcs)]
    /\ after \in [Loops -> Seq(Socks)]
    /\ life \in [Socks -> {"none", "queued", "open", "closing", "deleted", "deletedOpen", "leaked"}]
    /\ mUserData \in [Socks -> SessionIds \cup {Null}]
    /\ known \subseteq [id : SessionIds, sock : Socks]
    /\ ops \in Nat
    /\ reached \in Seq([req : Requests, sock : Socks])

Init ==
    /\ service = "new" /\ starts = 0
    /\ mValues = [l \in Loops |-> <<>>]
    /\ mIds = [l \in Loops |-> <<>>]
    /\ mIncIds = [l \in Loops |-> 0]
    /\ mCachePacketList = [l \in Loops |-> <<>>]
    /\ async = [l \in Loops |-> <<>>]
    /\ after = [l \in Loops |-> <<>>]
    /\ life = [s \in Socks |-> "none"]
    /\ mUserData = [s \in Socks |-> Null]
    /\ known = {} /\ ops = 0 /\ reached = <<>>
-----------------------------------------------------------------------------
(* Starting and stopping the worker threads. *)

\* startWorkerThread does nothing unless mLoops is nullptr.
startWorkerThread ==
    /\ service \in {"new", "closed"}
    /\ starts < MaxStarts
    /\ starts' = starts + 1
    /\ service' = "running"
    /\ mValues' = [l \in Loops |-> <<>>]
    /\ mIds' = [l \in Loops |-> <<>>]
    /\ mIncIds' = [l \in Loops |-> 0]
    /\ mCachePacketList' = [l \in Loops |-> <<>>]
    /\ UNCHANGED <<async, after, life, mUserData, known, ops, reached>>

\* stopWorkerThread: the threads leave their while and are joined.
stopWorkerThread ==
    /\ service = "running"
    /\ service' = "stopped"
    /\ UNCHANGED <<starts, tableVars, mCachePacketList, async, after, life, mUserData,
                   known, ops, reached>>

\* closeWorkerThread frees the loops, with the procs in them, and the tables.
\* The DataSockets are not closed.
closeWorkerThread ==
    /\ service \in {"running", "stopped"}
    /\ service' = "closed"
    /\ async' = [l \in Loops |-> <<>>]
    /\ after' = [l \in Loops |-> <<>>]
    /\ life' = [s \in Socks |-> IF life[s] \in {"queued", "open", "closing"}
                                THEN "leaked" ELSE life[s]]
    /\ UNCHANGED <<starts, tableVars, mCachePacketList, mUserData, known, ops, reached>>

\* The service object can be used: mLoops is not nullptr.
HasLoops == service \in {"running", "stopped"}

\* A thread that can make a call: loop threads only while they run.
Active(c) == c \in Loops => service = "running"
-----------------------------------------------------------------------------
(* TypeIDS.  Slots are numbered from 0; mValues[l][i + 1] is slot i. *)

Get(l, index) == IF index < Len(mValues[l]) THEN mValues[l][index + 1] ELSE Null

\* claimID: the values and the free list before a slot is taken, grown if it
\* is empty.
GrownValues(l) ==
    IF mIds[l] = <<>> THEN mValues[l] \o [i \in 1..IncreaseNum |-> Null] ELSE mValues[l]

GrownIds(l) ==
    IF mIds[l] = <<>> THEN [i \in 1..IncreaseNum |-> Len(mValues[l]) + i - 1] ELSE mIds[l]

Last(q) == q[Len(q)]
ButLast(q) == SubSeq(q, 1, Len(q) - 1)

\* Mutant: the counter is read one too low.
MakeID_low(l) == [loopIndex |-> l,
                  index     |-> Last(GrownIds(l)) % IndexMod,
                  iid       |-> mIncIds[l] - 1]

\* MakeID, with the widths of SessionId.
MakeID(l) == [loopIndex |-> l,
              index     |-> Last(GrownIds(l)) % IndexMod,
              iid       |-> mIncIds[l] % IidMod]
-----------------------------------------------------------------------------
(* Sessions enter and leave. *)

\* onEnterEventLoop in loop l: the enter callback makes the id, stores the
\* socket and hands the id to the user; or linking fails and it is deleted.
onEnterEventLoop(l, s) ==
    \/ LET id == MakeID(l) IN
        /\ mValues' = [mValues EXCEPT ![l] = [GrownValues(l) EXCEPT ![id.index + 1] = s]]
        /\ mIds' = [mIds EXCEPT ![l] = ButLast(GrownIds(l))]
        /\ mIncIds' = [mIncIds EXCEPT ![l] = @ + 1]
        /\ mUserData' = [mUserData EXCEPT ![s] = id]
        /\ known' = known \cup {[id |-> id, sock |-> s]}
        /\ life' = [life EXCEPT ![s] = "open"]
    \/ life' = [life EXCEPT ![s] = "deleted"] /\ UNCHANGED <<tableVars, mUserData, known>>

\* addDataSocket, and the accept callback of startListen: thread c brings a new
\* connection.  On the thread of the chosen loop the proc runs at once.
addDataSocket(c, s) ==
    /\ Active(c)
    /\ HasLoops
    /\ life[s] = "none"
    /\ \E l \in Loops :
        IF c = l
        THEN onEnterEventLoop(l, s) /\ UNCHANGED async
        ELSE /\ async' = [async EXCEPT ![l] = Append(@, [enter |-> s])]
             /\ life' = [life EXCEPT ![s] = "queued"]
             /\ UNCHANGED <<tableVars, mUserData, known>>
    /\ UNCHANGED <<service, starts, mCachePacketList, after, ops, reached>>

\* helpAddChannel returns false, before the first startWorkerThread (mLoopNum
\* is 0) or when forceSameThreadLoop is asked for off the worker threads:
\* the new DataSocket is deleted as it is.
addDataSocketFails(c, s) ==
    /\ service = "new" \/ (HasLoops /\ c \notin Loops)
    /\ Active(c)
    /\ life[s] = "none"
    /\ life' = [life EXCEPT ![s] = "deletedOpen"]
    /\ UNCHANGED <<service, starts, tableVars, mCachePacketList, async, after, mUserData,
                   known, ops, reached>>

\* onClose of a DataSocket: the disconnect callback goes to the after-loop lane.
LoopOf(s) == mUserData[s].loopIndex

\* Mutant: the disconnect callback is not posted.
onClose_silent(s) ==
    /\ life' = [life EXCEPT ![s] = "closing"]
    /\ UNCHANGED after

onClose(s) ==
    IF life[s] = "open"
    THEN /\ life' = [life EXCEPT ![s] = "closing"]
         /\ after' = [after EXCEPT ![LoopOf(s)] = Append(@, s)]
    ELSE UNCHANGED <<life, after>>

\* The peer, an error or the heartbeat closes the connection.
connectionCloses(s) ==
    /\ service = "running"
    /\ life[s] = "open"
    /\ onClose(s)
    /\ UNCHANGED <<service, starts, tableVars, mCachePacketList, async, mUserData, known,
                   ops, reached>>

\* Mutant: the slot is given back and still points to the DataSocket.
procDataSocketClose_keeps(l) ==
    /\ service = "running" /\ after[l] # <<>>
    /\ mIds' = [mIds EXCEPT ![l] = Append(@, mUserData[Head(after[l])].index)]
    /\ life' = [life EXCEPT ![Head(after[l])] = "deleted"]
    /\ after' = [after EXCEPT ![l] = Tail(@)]
    /\ UNCHANGED <<service, starts, mValues, mIncIds, mCachePacketList, async, mUserData,
                   known, ops, reached>>

\* The disconnect callback: procDataSocketClose, the user's callback, delete.
procDataSocketClose(l) ==
    /\ service = "running"
    /\ after[l] # <<>>
    /\ LET s == Head(after[l])
           index == mUserData[s].index
       IN  /\ mValues' = [mValues EXCEPT ![l][index + 1] = Null]
           /\ mIds' = [mIds EXCEPT ![l] = Append(@, index)]
           /\ life' = [life EXCEPT ![s] = "deleted"]
    /\ after' = [after EXCEPT ![l] = Tail(@)]
    /\ UNCHANGED <<service, starts, mIncIds, mCachePacketList, async, mUserData, known,
                   ops, reached>>
-----------------------------------------------------------------------------
(* Operations on ids. *)

\* Mutant: whoever has the slot is taken.
Resolve_slot(id) == Get(id.loopIndex, id.index)

\* The DataSocket an operation finds in its loop, or Null.
Resolve(id) ==
    LET tmp == Get(id.loopIndex, id.index)
    IN  IF tmp # Null /\ mUserData[tmp] = id THEN tmp ELSE Null

\* The operations of list that find a DataSocket, in their order.
Hits(list) ==
    LET hits[i \in 0..Len(list)] ==
            IF i = 0 THEN <<>>
            ELSE IF Resolve(list[i].id) = Null THEN hits[i - 1]
            ELSE Append(hits[i - 1], [req |-> list[i], sock |-> Resolve(list[i].id)])
    IN  hits[Len(list)]

\* The operations of list that disconnect a session.
Closes(list) ==
    {i \in 1..Len(list) : list[i].kind = "disConnect" /\ Resolve(list[i].id) # Null}

\* What the operations of list do, one after the other, in their loop.
\* Disconnecting (in a list of its own) closes the session; the rest is inside
\* the DataSocket.
Run(list) ==
    /\ reached' = reached \o Hits(list)
    /\ IF Closes(list) = {} THEN UNCHANGED <<life, after>>
       ELSE \E i \in Closes(list) : onClose(Resolve(list[i].id))

request(c, kind, k) == [kind |-> kind, id |-> k.id, for |-> k.sock, by |-> c, n |-> ops + 1]

\* send, and shutdown, disConnect, setPingCheckTime through postSessionAsyncProc:
\* on the thread of the session's loop the proc runs at once.
postSessionAsyncProc(c, kind, k) ==
    /\ Active(c)
    /\ HasLoops
    /\ kind # "cacheSend"
    /\ ops < MaxOps
    /\ ops' = ops + 1
    /\ IF c = k.id.loopIndex
       THEN Run(<<request(c, kind, k)>>) /\ UNCHANGED async
       ELSE /\ async' = [async EXCEPT ![k.id.loopIndex] =
                            Append(@, [list |-> <<request(c, kind, k)>>])]
            /\ UNCHANGED <<life, after, reached>>
    /\ UNCHANGED <<service, starts, tableVars, mCachePacketList, mUserData, known>>

\* Mutant: the packet goes to the front of the list.
cacheSend_front(k) ==
    /\ HasLoops /\ ops < MaxOps /\ ops' = ops + 1
    /\ mCachePacketList' = [mCachePacketList EXCEPT ![k.id.loopIndex] =
                                <<request(Cacher, "cacheSend", k)>> \o @]
    /\ UNCHANGED <<service, starts, tableVars, async, after, life, mUserData, known, reached>>

cacheSend(k) ==
    /\ HasLoops
    /\ ops < MaxOps
    /\ ops' = ops + 1
    /\ mCachePacketList' = [mCachePacketList EXCEPT ![k.id.loopIndex] =
                                Append(@, request(Cacher, "cacheSend", k))]
    /\ UNCHANGED <<service, starts, tableVars, async, after, life, mUserData, known, reached>>

\* flushCachePackectList posts every list that is not empty and starts new ones.
flushCachePackectList ==
    /\ HasLoops
    /\ \E l \in Loops : mCachePacketList[l] # <<>>
    /\ async' = [l \in Loops |->
                    IF mCachePacketList[l] = <<>> THEN async[l]
                    ELSE Append(async[l], [list |-> mCachePacketList[l]])]
    /\ mCachePacketList' = [l \in Loops |-> <<>>]
    /\ UNCHANGED <<service, starts, tableVars, after, life, mUserData, known, ops, reached>>

\* The loop runs the next proc other threads posted.
runAsyncProc(l) ==
    /\ service = "running"
    /\ async[l] # <<>>
    /\ async' = [async EXCEPT ![l] = Tail(@)]
    /\ LET proc == Head(async[l]) IN
        \/ /\ "enter" \in DOMAIN proc
           /\ onEnterEventLoop(l, proc.enter)
           /\ UNCHANGED <<after, reached>>
        \/ /\ "list" \in DOMAIN proc
           /\ Run(proc.list)
           /\ UNCHANGED <<tableVars, mUserData, known>>
    /\ UNCHANGED <<service, starts, mCachePacketList, ops>>
-----------------------------------------------------------------------------
Call(c) ==
    \/ \E s \in Socks : addDataSocket(c, s) \/ addDataSocketFails(c, s)
    \/ \E kind \in Kinds, k \in known : postSessionAsyncProc(c, kind, k)

Lifecycle == startWorkerThread \/ stopWorkerThread \/ closeWorkerThread

Worker(l) == procDataSocketClose(l) \/ runAsyncProc(l)

Next == \/ Lifecycle
        \/ \E c \in Callers \cup Loops : Call(c)
        \/ \E k \in known : cacheSend(k)
        \/ flushCachePackectList
        \/ \E l \in Loops : Worker(l)
        \/ \E s \in Socks : connectionCloses(s)

Spec == Init /\ [][Next]_vars

\* A worker thread keeps calling loop() until it is stopped.
Fairness == \A l \in Loops : WF_vars(Worker(l))

FairSpec == Spec /\ Fairness
-----------------------------------------------------------------------------
(* What is checked. *)

Occupying(s) == life[s] \in {"open", "closing"}

(***************************************************************************)
(* The tables of TypeIDS agree with the sessions: a session that has       *)
(* entered and is not deleted is what its id resolves to, every other slot *)
(* is nullptr, and the free list names the nullptr slots once each (the    *)
(* assertions of reclaimID and set, Typeids.h:38-39, 45).                  *)
(***************************************************************************)
TablesSound ==
    HasLoops => \A l \in Loops :
        LET slots == 0..(Len(mValues[l]) - 1) IN
        /\ \A s \in Socks : Occupying(s) /\ LoopOf(s) = l => Resolve(mUserData[s]) = s
        /\ \A i \in slots : Get(l, i) # Null => Occupying(Get(l, i))
        /\ {mIds[l][j] : j \in 1..Len(mIds[l])} = {i \in slots : Get(l, i) = Null}
        /\ Len(mIds[l]) = Cardinality({i \in slots : Get(l, i) = Null})

(***************************************************************************)
(* An operation on an id reaches the session the id was issued for or      *)
(* nobody, however late it runs and whoever has the slot by then:          *)
(* TCPService.h:140, "the validity of the id is checked".                  *)
(***************************************************************************)
OpsReachTheirSession ==
    \A i \in 1..Len(reached) : reached[i].sock = reached[i].req.for

(***************************************************************************)
(* What one thread sends to one session arrives in the order in which it   *)
(* was sent, for send and for cacheSend, whether the packets went through  *)
(* the lane or were sent on the loop's own thread.                         *)
(***************************************************************************)
SendOrder ==
    \A i, j \in 1..Len(reached) :
        LET a == reached[i].req
            b == reached[j].req
        IN  i < j /\ a.by = b.by /\ a.kind = b.kind /\ a.for = b.for => a.n < b.n

(***************************************************************************)
(* disConnect on an id that is still valid ends the session with its       *)
(* disconnect callback (TCPService.h:95), unless the service is stopped.   *)
(***************************************************************************)
DisconnectEndsSession ==
    \A s \in Socks :
        (\E l \in Loops : \E i \in 1..Len(async[l]) :
            /\ "list" \in DOMAIN async[l][i]
            /\ \E j \in 1..Len(async[l][i].list) :
                  async[l][i].list[j].kind = "disConnect" /\ async[l][i].list[j].for = s)
            ~> life[s] \in {"deleted", "leaked"} \/ service # "running"
=============================================================================
