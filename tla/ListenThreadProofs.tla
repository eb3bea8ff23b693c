------------------------- MODULE ListenThreadProofs -------------------------
(***************************************************************************)
(* Safety of ListenThread for any number of clients and listenStarts and any     *)
(* backlog.                                                                *)
(***************************************************************************)
EXTENDS ListenThread, TLAPS

\* The thread, the listening socket and the owner agree with each other.
Shape ==
    /\ mListenThread <=> listenPc # "none"
    /\ listening <=> listenPc \in {"check", "accept", "got"}
    /\ ~ listening => backlog = 0
    /\ listenOwner # "idle" => mListenThread /\ ~ mRunListen

InHand == IF listenPc = "got" THEN 1 ELSE 0

\* While mRunListen is set, every connection that is queued or in hand is a
\* client's: the owner connects only after it has cleared the flag.
ClientsOnly ==
    /\ accepted <= clients
    /\ mRunListen => accepted + backlog + InHand <= clients

ListenIInv == ListenTypeOK /\ Shape /\ ClientsOnly

\* ListenIInv holds before the first start.
LEMMA InitIInv == ListenInit => ListenIInv
<1> SUFFICES ASSUME ListenInit PROVE ListenIInv
  OBVIOUS
<1>1. ListenTypeOK
  <2>1. mRunListen \in BOOLEAN /\ mListenThread \in BOOLEAN /\ listening \in BOOLEAN
    BY Zenon DEF ListenInit
  <2>2. 0 \in 0..MaxBacklog /\ 0 \in 0..MaxClients /\ 0 \in 0..MaxListens /\ 0 \in Nat
    BY ListenThreadAssumption
  <2>3. /\ listenOwner \in {"idle", "connect", "join"}
        /\ listenPc \in {"none", "listen", "check", "accept", "got", "done"}
    BY Zenon DEF ListenInit
  <2>4. QED
    BY <2>1, <2>2, <2>3, Zenon DEF ListenInit, ListenTypeOK
<1>2. Shape
  <2>1. listenPc = "none" /\ listenPc \notin {"check", "accept", "got"}
    BY DEF ListenInit
  <2>2. ~ listening /\ ~ mListenThread /\ backlog = 0 /\ listenOwner = "idle"
    BY Zenon DEF ListenInit
  <2>3. QED
    BY <2>1, <2>2, Zenon DEF Shape
<1>3. ClientsOnly
  <2>1. accepted = 0 /\ clients = 0 /\ ~ mRunListen
    BY DEF ListenInit
  <2>2. QED
    BY <2>1 DEF ClientsOnly
<1>4. QED
  BY <1>1, <1>2, <1>3 DEF ListenIInv

\* Every step of owner, thread and clients keeps ListenIInv.
LEMMA NextIInv == ListenIInv /\ [ListenNext]_listenVars => ListenIInv'
<1> SUFFICES ASSUME ListenIInv, [ListenNext]_listenVars PROVE ListenIInv'
  OBVIOUS
<1> USE ListenThreadAssumption DEF ListenIInv, ListenTypeOK, Shape, ClientsOnly, InHand
<1>1. CASE startListen
  BY <1>1 DEF startListen
<1>2. CASE closeListenThread
  BY <1>2 DEF closeListenThread
<1>3. CASE closeConnect
  <2>1. CASE listening /\ backlog < MaxBacklog
    BY <1>3, <2>1 DEF closeConnect
  <2>2. CASE ~ (listening /\ backlog < MaxBacklog)
    BY <1>3, <2>2 DEF closeConnect
  <2>3. QED BY <2>1, <2>2
<1>4. CASE closeJoin
  BY <1>4 DEF closeJoin
<1>5. CASE clientConnects
  BY <1>5 DEF clientConnects
<1>6. CASE runListen
  <2>1. CASE listenPc' = "check" /\ listening' = TRUE
    BY <1>6, <2>1 DEF runListen
  <2>2. CASE listenPc' = "done" /\ UNCHANGED listening
    BY <1>6, <2>2 DEF runListen
  <2>3. QED BY <1>6, <2>1, <2>2 DEF runListen
<1>7. CASE checkRunListen
  <2>1. CASE mRunListen
    BY <1>7, <2>1 DEF checkRunListen
  <2>2. CASE ~ mRunListen
    <3>1. listenPc' = "done" /\ listening' = FALSE /\ backlog' = 0
      BY <1>7, <2>2 DEF checkRunListen
    <3>2. ListenTypeOK'
      <4>1. /\ mRunListen' = mRunListen /\ mListenThread' = mListenThread
            /\ listenOwner' = listenOwner /\ clients' = clients /\ listenStarts' = listenStarts
            /\ accepted' = accepted /\ dropped' = dropped
        BY <1>7, Zenon DEF checkRunListen
      <4>2. backlog' \in 0..MaxBacklog
        BY <3>1
      <4>3. listening' \in BOOLEAN
        BY <3>1, Zenon
      <4>4. listenPc' \in {"none", "listen", "check", "accept", "got", "done"}
        BY <3>1, Zenon
      <4>5. QED
        BY <4>1, <4>2, <4>3, <4>4, Zenon
    <3>3. Shape'
      <4>1. listenPc' \notin {"check", "accept", "got"} /\ listenPc' # "none" /\ listenPc # "none"
        BY <1>7, <3>1 DEF checkRunListen
      <4>2. ~ listening'
        BY <3>1, Zenon
      <4>3. QED
        BY <1>7, <2>2, <3>1, <4>1, <4>2, Zenon DEF checkRunListen
    <3>4. ClientsOnly'
      <4>1. accepted' = accepted /\ clients' = clients /\ ~ mRunListen'
        BY <1>7, <2>2, Zenon DEF checkRunListen
      <4>2. accepted <= clients
        OBVIOUS
      <4>3. QED
        BY <4>1, <4>2
    <3>5. QED BY <3>2, <3>3, <3>4
  <2>3. QED BY <2>1, <2>2
<1>8. CASE accept
  BY <1>8 DEF accept
<1>9. CASE handOver
  <2>1. CASE mRunListen
    BY <1>9, <2>1 DEF handOver
  <2>2. CASE ~ mRunListen
    BY <1>9, <2>2 DEF handOver
  <2>3. QED BY <2>1, <2>2
<1>10. CASE UNCHANGED listenVars
  BY <1>10 DEF listenVars
<1>11. QED
  BY <1>1, <1>2, <1>3, <1>4, <1>5, <1>6, <1>7, <1>8, <1>9, <1>10 DEF ListenNext, ListenOwner, ListenRun

\* ListenIInv holds at all times.
LEMMA AlwaysIInv == ListenSpec => []ListenIInv
  BY InitIInv, NextIInv, PTL DEF ListenSpec

\* The variables of the accept thread and its owner keep their types; the
\* backlog never runs below 0 or over its limit.
THEOREM ListenTypeCorrect == ListenSpec => []ListenTypeOK
  BY AlwaysIInv, PTL DEF ListenIInv

\* closeListenThread's own connection is never handed to mAcceptCallback
\* (TCPService.cpp:146), however often the thread is closed and started.
THEOREM NoForeignHandOver == ListenSpec => []OnlyClientsHandedOver
<1>1. ListenIInv => OnlyClientsHandedOver
  BY DEF ListenIInv, ClientsOnly, OnlyClientsHandedOver
<1>2. QED
  BY <1>1, AlwaysIInv, PTL

\* When there is no ListenThread, nobody listens and no thread runs.
THEOREM CloseLeavesNothing == ListenSpec => []ClosedMeansStopped
<1>1. ListenIInv => ClosedMeansStopped
  BY DEF ListenIInv, Shape, ClosedMeansStopped
<1>2. QED
  BY <1>1, AlwaysIInv, PTL
=============================================================================
