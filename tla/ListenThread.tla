---------------------------- MODULE ListenThread ----------------------------
(***************************************************************************)
(* The ListenThread of net/TCPService.cpp: one thread accepts connections  *)
(* and hands them to a callback; its owner starts it and closes it.  The   *)
(* thread blocks in accept, so closeListenThread clears mRunListen and     *)
(* then connects to the port itself to make accept return.                 *)
(*                                                                         *)
(* mRunListen is a plain bool both threads use; the loop calls out of the  *)
(* compilation unit between two reads, so each read is a load.  The owner  *)
(* can reach the port, and accept fails for no other reason than EINTR.    *)
(***************************************************************************)
EXTENDS Naturals

CONSTANTS
    MaxClients,     \* bound: connections of clients
    MaxBacklog,     \* connections the kernel queues (512)
    MaxListens      \* bound: calls of startListen

ASSUME ListenThreadAssumption ==
    MaxClients \in Nat /\ MaxBacklog \in Nat \ {0} /\ MaxListens \in Nat

VARIABLES
    mRunListen,
    mListenThread,  \* the std::thread exists
    listenOwner,    \* where the owner is: "idle", or in closeListenThread
    listenPc,       \* where the thread is in runListen
    listening,      \* listen_fd is open
    backlog,        \* connections accept has not taken
    clients,        \* client connections made so far
    listenStarts,   \* calls of startListen so far
    accepted,       \* history: connections handed to mAcceptCallback
    dropped         \* history: connections accepted and not handed over

listenVars == <<mRunListen, mListenThread, listenOwner, listenPc, listening, backlog,
                clients, listenStarts, accepted, dropped>>

ListenTypeOK ==
    /\ mRunListen \in BOOLEAN /\ mListenThread \in BOOLEAN /\ listening \in BOOLEAN
    /\ listenOwner \in {"idle", "connect", "join"}
    /\ listenPc \in {"none", "listen", "check", "accept", "got", "done"}
    /\ backlog \in 0..MaxBacklog
    /\ clients \in 0..MaxClients
    /\ listenStarts \in 0..MaxListens
    /\ accepted \in Nat /\ dropped \in Nat

ListenInit ==
    /\ mRunListen = FALSE /\ mListenThread = FALSE /\ listening = FALSE
    /\ listenOwner = "idle" /\ listenPc = "none"
    /\ backlog = 0 /\ clients = 0 /\ listenStarts = 0
    /\ accepted = 0 /\ dropped = 0

startListen ==
    /\ listenOwner = "idle" /\ ~ mListenThread
    /\ listenStarts < MaxListens
    /\ listenStarts' = listenStarts + 1
    /\ mRunListen' = TRUE /\ mListenThread' = TRUE
    /\ listenPc' = "listen"
    /\ UNCHANGED <<listenOwner, listening, backlog, clients, accepted, dropped>>

closeListenThread ==
    /\ listenOwner = "idle" /\ mListenThread
    /\ mRunListen' = FALSE
    /\ listenOwner' = "connect"
    /\ UNCHANGED <<mListenThread, listenPc, listening, backlog, clients, listenStarts, accepted, dropped>>

\* Mutant: no connection is made.
closeConnect_none ==
    /\ listenOwner = "connect"
    /\ listenOwner' = "join"
    /\ UNCHANGED <<mRunListen, mListenThread, listenPc, listening, backlog, clients, listenStarts,
                   accepted, dropped>>

\* ox_socket_connect and ox_socket_close: refused if nobody listens or the
\* backlog is full.
closeConnect ==
    /\ listenOwner = "connect"
    /\ listenOwner' = "join"
    /\ backlog' = IF listening /\ backlog < MaxBacklog THEN backlog + 1 ELSE backlog
    /\ UNCHANGED <<mRunListen, mListenThread, listenPc, listening, clients, listenStarts, accepted, dropped>>

\* Mutant: the thread is not joined.
closeJoin_detaches ==
    /\ listenOwner = "join"
    /\ listenOwner' = "idle" /\ mListenThread' = FALSE
    /\ UNCHANGED <<mRunListen, listenPc, listening, backlog, clients, listenStarts, accepted, dropped>>

closeJoin ==
    /\ listenOwner = "join"
    /\ listenPc = "done"
    /\ listenOwner' = "idle" /\ mListenThread' = FALSE /\ listenPc' = "none"
    /\ UNCHANGED <<mRunListen, listening, backlog, clients, listenStarts, accepted, dropped>>

clientConnects ==
    /\ listening /\ backlog < MaxBacklog
    /\ clients < MaxClients
    /\ clients' = clients + 1
    /\ backlog' = backlog + 1
    /\ UNCHANGED <<mRunListen, mListenThread, listenOwner, listenPc, listening, listenStarts, accepted, dropped>>

\* runListen: ox_socket_listen, which may fail.
runListen ==
    /\ listenPc = "listen"
    /\ \/ listenPc' = "check" /\ listening' = TRUE
       \/ listenPc' = "done" /\ UNCHANGED listening
    /\ UNCHANGED <<mRunListen, mListenThread, listenOwner, backlog, clients, listenStarts, accepted, dropped>>

\* for (; mRunListen;), and the close of listen_fd after it.
checkRunListen ==
    /\ listenPc = "check"
    /\ IF mRunListen
       THEN listenPc' = "accept" /\ UNCHANGED <<listening, backlog>>
       ELSE listenPc' = "done" /\ listening' = FALSE /\ backlog' = 0
    /\ UNCHANGED <<mRunListen, mListenThread, listenOwner, clients, listenStarts, accepted, dropped>>

accept ==
    /\ listenPc = "accept"
    /\ backlog > 0
    /\ backlog' = backlog - 1
    /\ listenPc' = "got"
    /\ UNCHANGED <<mRunListen, mListenThread, listenOwner, listening, clients, listenStarts, accepted, dropped>>

\* Mutant: mRunListen is not looked at again.
handOver_always ==
    /\ listenPc = "got"
    /\ listenPc' = "check"
    /\ accepted' = accepted + 1
    /\ UNCHANGED <<mRunListen, mListenThread, listenOwner, listening, backlog, clients, listenStarts, dropped>>

\* The second look at mRunListen: the connection goes to mAcceptCallback or is
\* forgotten.
handOver ==
    /\ listenPc = "got"
    /\ listenPc' = "check"
    /\ IF mRunListen
       THEN accepted' = accepted + 1 /\ UNCHANGED dropped
       ELSE dropped' = dropped + 1 /\ UNCHANGED accepted
    /\ UNCHANGED <<mRunListen, mListenThread, listenOwner, listening, backlog, clients, listenStarts>>

ListenOwner == closeConnect \/ closeJoin
ListenRun == runListen \/ checkRunListen \/ accept \/ handOver

ListenNext == startListen \/ closeListenThread \/ ListenOwner \/ clientConnects \/ ListenRun

ListenSpec == ListenInit /\ [][ListenNext]_listenVars
-----------------------------------------------------------------------------
(***************************************************************************)
(* closeListenThread returns, wherever the thread is when it is called:    *)
(* between two loops, in accept, or not yet listening, when the connection *)
(* that should wake it up is refused (lines 52-70, 133-152).               *)
(***************************************************************************)
CloseReturns == listenOwner # "idle" ~> listenOwner = "idle"

(***************************************************************************)
(* Only clients reach mAcceptCallback: the connection closeListenThread    *)
(* makes to wake the thread up is never handed over (line 146).            *)
(***************************************************************************)
OnlyClientsHandedOver == accepted <= clients

(***************************************************************************)
(* After closeListenThread the port is free and the thread is gone, so     *)
(* that startListen can be called again: at most one thread ever listens.  *)
(***************************************************************************)
ClosedMeansStopped == ~ mListenThread => listenPc = "none" /\ ~ listening
=============================================================================
