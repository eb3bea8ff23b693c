------------------------------ MODULE MCThreads ------------------------------
(***************************************************************************)
(* One instance of each component that is a protocol between two or more   *)
(* threads: the event loop and its posters, the accept thread, the connect *)
(* thread with its queue, the two-list queue and the thread pool.  A       *)
(* behaviour is one of one of them.                                        *)
(***************************************************************************)
EXTENDS EventLoop, ListenThread, Connector, RWList, ThreadPool

VARIABLE part

PartsInit ==
    /\ part \in {"eventloop", "listen", "connector", "rwlist", "threadpool"}
    /\ Init /\ ListenInit /\ ConnectorInit /\ RWListInit /\ ThreadPoolInit

PartsNext ==
    /\ UNCHANGED part
    /\ \/ part = "eventloop" /\ Next /\ UNCHANGED <<listenVars, connVars, rwVars, poolVars>>
       \/ part = "listen" /\ ListenNext /\ UNCHANGED <<vars, connVars, rwVars, poolVars>>
       \/ part = "connector" /\ ConnectorNext /\ UNCHANGED <<vars, listenVars, rwVars, poolVars>>
       \/ part = "rwlist" /\ RWListNext /\ UNCHANGED <<vars, listenVars, connVars, poolVars>>
       \/ part = "threadpool" /\ ThreadPoolNext /\ UNCHANGED <<vars, listenVars, connVars, rwVars>>

partsVars == <<part, vars, listenVars, connVars, rwVars, poolVars>>

\* Threads that can take a step take one, as in Fairness of EventLoop; a
\* timeout that is running expires.
PartsFairness ==
    /\ WF_vars(part = "eventloop" /\ Loop)
    /\ \A p \in Producers : WF_vars(part = "eventloop" /\ Continue(p))
    /\ WF_listenVars(part = "listen" /\ ListenOwner)
    /\ WF_listenVars(part = "listen" /\ ListenRun)
    /\ WF_connVars(part = "connector" /\ ConnectorThread)
    /\ WF_connVars(part = "connector" /\ asyncConnectSync)
    /\ \A fd \in Fds : WF_connVars(part = "connector" /\ timePasses(fd))

PartsSpec == PartsInit /\ [][PartsNext]_partsVars /\ PartsFairness
=============================================================================
