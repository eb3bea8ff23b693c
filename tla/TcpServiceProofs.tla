-------------------------- MODULE TcpServiceProofs --------------------------
(***************************************************************************)
(* Proofs about TcpService, for any number of worker threads, callers,     *)
(* sessions and operations.                                                *)
(***************************************************************************)
EXTENDS TcpService, SequenceFacts, SequenceTheorems, FiniteSetTheorems

IsEnter(proc) == "enter" \in DOMAIN proc

(* Types, and what the lanes say of the sessions they name. *)

\* A session that has entered has an id, and there are loops it can be on.
SessionInv ==
    /\ \A s \in Socks : Occupying(s) => mUserData[s] \in SessionIds /\ HasLoops
    /\ \A l \in Loops : HasLoops \/ (async[l] = <<>> /\ after[l] = <<>>)

\* A disconnect callback stands for one closing session of its loop.
AfterInv ==
    \A l \in Loops : \A i \in 1..Len(after[l]) :
        /\ life[after[l][i]] = "closing" /\ LoopOf(after[l][i]) = l
        /\ \A j \in 1..Len(after[l]) : after[l][i] = after[l][j] => i = j

\* A session waits in one proc to enter.
EnterInv ==
    \A l \in Loops : \A i \in 1..Len(async[l]) : IsEnter(async[l][i]) =>
        /\ life[async[l][i].enter] = "queued"
        /\ \A m \in Loops : \A j \in 1..Len(async[m]) :
             IsEnter(async[m][j]) /\ async[m][j].enter = async[l][i].enter => l = m /\ i = j

TypeInv == TypeOK /\ SessionInv /\ AfterInv /\ EnterInv
-----------------------------------------------------------------------------
(* What the operators of the model return. *)

LEMMA GrownType ==
    ASSUME TypeOK, NEW l \in Loops
    PROVE  /\ GrownValues(l) \in Seq(Socks \cup {Null})
           /\ GrownIds(l) \in Seq(Nat) /\ GrownIds(l) # <<>>
           /\ Last(GrownIds(l)) \in Nat
           /\ ButLast(GrownIds(l)) \in Seq(Nat)
           /\ MakeID(l) \in SessionIds
<1> USE TcpServiceAssumption
<1>1. mValues[l] \in Seq(Socks \cup {Null}) /\ mIds[l] \in Seq(Nat) /\ mIncIds[l] \in Nat
  BY DEF TypeOK
<1>2. [i \in 1..IncreaseNum |-> Null] \in Seq(Socks \cup {Null})
  OBVIOUS
<1>3. GrownValues(l) \in Seq(Socks \cup {Null})
  BY <1>1, <1>2 DEF GrownValues
<1> DEFINE new == [i \in 1..IncreaseNum |-> Len(mValues[l]) + i - 1]
<1>4. new \in Seq(Nat) /\ Len(new) = IncreaseNum
  BY <1>1
<1>a. new # <<>>
  <2> HIDE DEF new
  <2> QED BY <1>4
<1>5. GrownIds(l) \in Seq(Nat) /\ GrownIds(l) # <<>>
  BY <1>1, <1>4, <1>a DEF GrownIds
<1>6. Last(GrownIds(l)) \in Nat /\ ButLast(GrownIds(l)) \in Seq(Nat)
  BY <1>5 DEF Last, ButLast
<1>7. Last(GrownIds(l)) % IndexMod \in Nat /\ mIncIds[l] % IidMod \in Nat
  BY <1>1, <1>6
<1> QED BY <1>3, <1>5, <1>6, <1>7 DEF MakeID, SessionIds

\* An id that resolves is the one of the socket it resolves to.
LEMMA ResolveType ==
    ASSUME TypeOK, NEW id \in SessionIds, Resolve(id) # Null
    PROVE  /\ Resolve(id) \in Socks
           /\ Resolve(id) = Get(id.loopIndex, id.index)
           /\ mUserData[Resolve(id)] = id
<1>1. id.loopIndex \in Loops /\ id.index \in Nat
  BY DEF SessionIds
<1>2. mValues[id.loopIndex] \in Seq(Socks \cup {Null})
  BY <1>1 DEF TypeOK
<1>3. Get(id.loopIndex, id.index) \in Socks \cup {Null}
  BY <1>1, <1>2 DEF Get
<1> QED BY <1>3 DEF Resolve

(* Hits is defined by recursion over the list. *)

HitsUpTo(list, f, n) ==
    f = [i \in 0..n |->
            IF i = 0 THEN <<>>
            ELSE IF Resolve(list[i].id) = Null THEN f[i - 1]
            ELSE Append(f[i - 1], [req |-> list[i], sock |-> Resolve(list[i].id)])]

\* The recursion of Hits has a solution up to every n.
LEMMA HitsExist ==
    ASSUME NEW list, NEW n \in Nat
    PROVE  \E f : HitsUpTo(list, f, n)
<1> DEFINE S == {i \in Nat : \E f : HitsUpTo(list, f, i)}
<1>1. 0 \in S
  <2> DEFINE f == [i \in 0..0 |-> <<>>]
  <2>1. f = [i \in 0..0 |->
            IF i = 0 THEN <<>>
            ELSE IF Resolve(list[i].id) = Null THEN f[i - 1]
            ELSE Append(f[i - 1], [req |-> list[i], sock |-> Resolve(list[i].id)])]
    OBVIOUS
  <2> HIDE DEF f
  <2> QED BY <2>1 DEF HitsUpTo
<1>2. ASSUME NEW k \in Nat, k \in S PROVE k + 1 \in S
  <2>1. PICK f : HitsUpTo(list, f, k)
    BY <1>2
  <2> DEFINE last == IF Resolve(list[k + 1].id) = Null THEN f[k]
                     ELSE Append(f[k], [req |-> list[k + 1], sock |-> Resolve(list[k + 1].id)])
             g == [i \in 0..(k + 1) |-> IF i <= k THEN f[i] ELSE last]
  <2>2. ASSUME NEW i \in 0..(k + 1)
        PROVE  g[i] = IF i = 0 THEN <<>>
                      ELSE IF Resolve(list[i].id) = Null THEN g[i - 1]
                      ELSE Append(g[i - 1], [req |-> list[i], sock |-> Resolve(list[i].id)])
    <3> HIDE DEF last
    <3>1. CASE i = k + 1
      BY <3>1 DEF last
    <3>2. CASE i \in 0..k
      <4>1. g[i] = f[i] /\ (i # 0 => g[i - 1] = f[i - 1])
        BY <3>2
      <4> QED BY <2>1, <3>2, <4>1 DEF HitsUpTo
    <3> QED BY <3>1, <3>2
  <2> HIDE DEF last
  <2>3. g = [i \in 0..(k + 1) |-> g[i]]
    OBVIOUS
  <2> HIDE DEF g
  <2>4. HitsUpTo(list, g, k + 1)
    BY <2>2, <2>3 DEF HitsUpTo
  <2> QED BY <2>4
<1> HIDE DEF S
<1>3. Nat \subseteq S
  BY <1>1, <1>2, NatSetInduction
<1> QED BY <1>3 DEF S

\* The function Hits chooses is such a solution.
LEMMA HitsDef ==
    ASSUME NEW list, Len(list) \in Nat
    PROVE  \E f : HitsUpTo(list, f, Len(list)) /\ Hits(list) = f[Len(list)]
<1> DEFINE h == CHOOSE f : HitsUpTo(list, f, Len(list))
<1>1. HitsUpTo(list, h, Len(list))
  BY HitsExist
<1>2. Hits(list) = h[Len(list)]
  BY DEF Hits, HitsUpTo
<1> HIDE DEF h
<1> QED BY <1>1, <1>2

\* h is the part of the first k operations of list that at picks, in order.
Picked(list, k, h, at) ==
    /\ h \in Seq([req : Requests, sock : Socks])
    /\ at \in [1..Len(h) -> 1..k]
    /\ \A j \in 1..Len(h) : /\ h[j].req = list[at[j]]
                            /\ h[j].sock = Resolve(list[at[j]].id)
                            /\ h[j].sock # Null
    /\ \A i, j \in 1..Len(h) : i < j => at[i] < at[j]

(***************************************************************************)
(* The hits of a list are some of its operations, in their order, with the *)
(* DataSocket each resolves to.                                            *)
(***************************************************************************)
LEMMA HitsPicked ==
    ASSUME TypeOK, NEW list \in Seq(Requests)
    PROVE  \E at : Picked(list, Len(list), Hits(list), at)
<1>1. PICK f : HitsUpTo(list, f, Len(list)) /\ Hits(list) = f[Len(list)]
  BY HitsDef
<1> DEFINE S == {k \in 0..Len(list) : \E at : Picked(list, k, f[k], at)}
<1>2. 0 \in S
  <2>1. f[0] = <<>>
    BY <1>1 DEF HitsUpTo
  <2>2. <<>> \in [1..0 -> 1..0] /\ <<>> \in Seq([req : Requests, sock : Socks])
    OBVIOUS
  <2>3. Picked(list, 0, <<>>, <<>>)
    BY <2>2 DEF Picked
  <2> QED BY <2>1, <2>3
<1>3. ASSUME NEW k \in 0..(Len(list) - 1), k \in S PROVE k + 1 \in S
  <2>1. PICK at : Picked(list, k, f[k], at)
    BY <1>3
  <2> DEFINE s == Resolve(list[k + 1].id)
             hit == [req |-> list[k + 1], sock |-> s]
  <2>2. f[k + 1] = IF s = Null THEN f[k] ELSE Append(f[k], hit)
    <3>1. k + 1 \in 0..Len(list) /\ k + 1 # 0 /\ (k + 1) - 1 = k
      OBVIOUS
    <3>2. f[k + 1] = IF k + 1 = 0 THEN <<>>
                     ELSE IF Resolve(list[k + 1].id) = Null THEN f[(k + 1) - 1]
                     ELSE Append(f[(k + 1) - 1], [req |-> list[k + 1], sock |-> Resolve(list[k + 1].id)])
      BY <1>1, <3>1 DEF HitsUpTo
    <3> QED BY <3>1, <3>2
  <2>3. list[k + 1] \in Requests /\ list[k + 1].id \in SessionIds
    <3>1. k + 1 \in 1..Len(list)
      OBVIOUS
    <3>2. list[k + 1] \in Requests
      BY <3>1, ElementOfSeq
    <3> QED BY <3>2 DEF Requests
  <2>4. CASE s = Null
    <3>1. Picked(list, k + 1, f[k + 1], at)
      BY <2>1, <2>2, <2>4 DEF Picked
    <3> QED BY <3>1
  <2>5. CASE s # Null
    <3>1. s \in Socks
      BY <2>3, <2>5, ResolveType
    <3> DEFINE to == [j \in 1..(Len(f[k]) + 1) |-> IF j <= Len(f[k]) THEN at[j] ELSE k + 1]
    <3>2. hit \in [req : Requests, sock : Socks] /\ f[k + 1] = Append(f[k], hit)
      BY <2>2, <2>3, <2>5, <3>1
    <3>3. f[k] \in Seq([req : Requests, sock : Socks])
      BY <2>1 DEF Picked
    <3>4. /\ f[k + 1] \in Seq([req : Requests, sock : Socks])
          /\ Len(f[k + 1]) = Len(f[k]) + 1
          /\ \A j \in 1..Len(f[k]) : f[k + 1][j] = f[k][j]
          /\ f[k + 1][Len(f[k]) + 1] = hit
      BY <3>2, <3>3, AppendProperties
    <3>5. to \in [1..Len(f[k + 1]) -> 1..(k + 1)]
      BY <2>1, <3>3, <3>4 DEF Picked
    <3>6. ASSUME NEW j \in 1..Len(f[k + 1])
          PROVE  /\ f[k + 1][j].req = list[to[j]]
                 /\ f[k + 1][j].sock = Resolve(list[to[j]].id)
                 /\ f[k + 1][j].sock # Null
      <4>1. CASE j \in 1..Len(f[k])
        <5>1. to[j] = at[j] /\ f[k + 1][j] = f[k][j]
          BY <3>3, <3>4, <4>1
        <5> HIDE DEF to
        <5> QED BY <2>1, <4>1, <5>1 DEF Picked
      <4>2. CASE j = Len(f[k]) + 1
        <5>1. to[j] = k + 1 /\ f[k + 1][j] = hit
          BY <3>3, <3>4, <4>2
        <5> HIDE DEF to
        <5> QED BY <2>5, <5>1
      <4> QED BY <3>3, <3>4, <4>1, <4>2
    <3>7. ASSUME NEW i \in 1..Len(f[k + 1]), NEW j \in 1..Len(f[k + 1]), i < j
          PROVE  to[i] < to[j]
      <4>1. Len(f[k]) \in Nat /\ i \in 1..Len(f[k])
        BY <3>3, <3>4, <3>7
      <4>2. at[i] \in 1..k /\ to[i] = at[i]
        BY <2>1, <4>1 DEF Picked
      <4>3. CASE j \in 1..Len(f[k])
        BY <2>1, <3>7, <4>1, <4>2, <4>3 DEF Picked
      <4>4. CASE j = Len(f[k]) + 1
        BY <4>1, <4>2, <4>4
      <4> QED BY <3>4, <4>1, <4>3, <4>4
    <3> HIDE DEF to
    <3>8. Picked(list, k + 1, f[k + 1], to)
      BY <3>4, <3>5, <3>6, <3>7 DEF Picked
    <3> QED BY <3>8
  <2> QED BY <2>4, <2>5
<1> HIDE DEF S
<1>4. 0..Len(list) \subseteq S
  BY <1>2, <1>3, UpToInduction
<1> QED BY <1>1, <1>4 DEF S
-----------------------------------------------------------------------------
(* What the parts of the actions do. *)

Lives == {"none", "queued", "open", "closing", "deleted", "deletedOpen", "leaked"}

\* A session enters loop l, or is deleted because it cannot be linked.
LEMMA EnterEffect ==
    ASSUME TypeOK, NEW l \in Loops, NEW s \in Socks, onEnterEventLoop(l, s)
    PROVE  /\ life' \in [Socks -> Lives] /\ life'[s] \in {"open", "deleted"}
           /\ mUserData' \in [Socks -> SessionIds \cup {Null}]
           /\ \A t \in Socks \ {s} : life'[t] = life[t] /\ mUserData'[t] = mUserData[t]
           /\ life'[s] = "open" => mUserData'[s] \in SessionIds
           /\ mValues' \in [Loops -> Seq(Socks \cup {Null})]
           /\ mIds' \in [Loops -> Seq(Nat)]
           /\ mIncIds' \in [Loops -> Nat]
           /\ known' \subseteq [id : SessionIds, sock : Socks]
<1>0. /\ life \in [Socks -> Lives] /\ mUserData \in [Socks -> SessionIds \cup {Null}]
      /\ mValues \in [Loops -> Seq(Socks \cup {Null})]
      /\ mIds \in [Loops -> Seq(Nat)] /\ mIncIds \in [Loops -> Nat]
      /\ known \subseteq [id : SessionIds, sock : Socks]
  BY DEF TypeOK, Lives
<1>1. CASE life' = [life EXCEPT ![s] = "deleted"] /\ UNCHANGED <<tableVars, mUserData, known>>
  BY <1>0, <1>1 DEF tableVars, Lives
<1>2. CASE /\ mValues' = [mValues EXCEPT ![l] = [GrownValues(l) EXCEPT ![MakeID(l).index + 1] = s]]
           /\ mIds' = [mIds EXCEPT ![l] = ButLast(GrownIds(l))]
           /\ mIncIds' = [mIncIds EXCEPT ![l] = @ + 1]
           /\ mUserData' = [mUserData EXCEPT ![s] = MakeID(l)]
           /\ known' = known \cup {[id |-> MakeID(l), sock |-> s]}
           /\ life' = [life EXCEPT ![s] = "open"]
  <2>1. /\ GrownValues(l) \in Seq(Socks \cup {Null})
        /\ ButLast(GrownIds(l)) \in Seq(Nat)
        /\ MakeID(l) \in SessionIds
    BY GrownType
  <2>2. [GrownValues(l) EXCEPT ![MakeID(l).index + 1] = s] \in Seq(Socks \cup {Null})
    BY <2>1, ExceptInSeq
  <2>3. mValues' \in [Loops -> Seq(Socks \cup {Null})]
    BY <1>0, <1>2, <2>2
  <2>4. life' \in [Socks -> Lives] /\ life'[s] = "open" /\ \A t \in Socks \ {s} : life'[t] = life[t]
    BY <1>0, <1>2 DEF Lives
  <2>5. /\ mUserData' \in [Socks -> SessionIds \cup {Null}] /\ mUserData'[s] \in SessionIds
        /\ \A t \in Socks \ {s} : mUserData'[t] = mUserData[t]
    BY <1>0, <1>2, <2>1
  <2>6. mIds' \in [Loops -> Seq(Nat)] /\ mIncIds' \in [Loops -> Nat]
    BY <1>0, <1>2, <2>1
  <2>7. known' \subseteq [id : SessionIds, sock : Socks]
    BY <1>0, <1>2, <2>1
  <2> QED BY <2>3, <2>4, <2>5, <2>6, <2>7
<1> QED BY <1>1, <1>2 DEF onEnterEventLoop

\* A session that is open gets its disconnect callback; others stay as they are.
LEMMA CloseEffect ==
    ASSUME TypeOK, SessionInv, AfterInv, NEW s \in Socks, onClose(s)
    PROVE  /\ life' \in [Socks -> Lives]
           /\ \A t \in Socks : \/ life'[t] = life[t]
                               \/ life[t] = "open" /\ life'[t] = "closing"
           /\ after' \in [Loops -> Seq(Socks)]
           /\ \A l \in Loops : \A i \in 1..Len(after'[l]) :
                /\ life'[after'[l][i]] = "closing" /\ LoopOf(after'[l][i]) = l
                /\ \A j \in 1..Len(after'[l]) : after'[l][i] = after'[l][j] => i = j
<1>0. life \in [Socks -> Lives] /\ after \in [Loops -> Seq(Socks)]
  BY DEF TypeOK, Lives
<1>1. CASE life[s] # "open"
  BY <1>0, <1>1 DEF onClose, AfterInv
<1>2. CASE life[s] = "open"
  <2> DEFINE m == LoopOf(s)
  <2>1. /\ life' = [life EXCEPT ![s] = "closing"]
        /\ after' = [after EXCEPT ![m] = Append(@, s)]
    BY <1>2 DEF onClose
  <2>2. m \in Loops
    BY <1>2 DEF SessionInv, Occupying, SessionIds, LoopOf
  <2>3. life' \in [Socks -> Lives] /\ after' \in [Loops -> Seq(Socks)]
    BY <1>0, <2>1, <2>2 DEF Lives
  <2>4. \A t \in Socks : life'[t] = IF t = s THEN "closing" ELSE life[t]
    BY <1>0, <2>1
  <2>5. ASSUME NEW l \in Loops, NEW i \in 1..Len(after'[l])
        PROVE  /\ life'[after'[l][i]] = "closing" /\ LoopOf(after'[l][i]) = l
               /\ \A j \in 1..Len(after'[l]) : after'[l][i] = after'[l][j] => i = j
    <3>1. after[l] \in Seq(Socks)
      BY <1>0
    <3>2. \A j \in 1..Len(after[l]) : after[l][j] \in Socks /\ after[l][j] # s
      BY <1>2, <3>1 DEF AfterInv
    <3>3. CASE l # m
      BY <1>0, <2>1, <2>2, <2>4, <3>1, <3>2, <3>3 DEF AfterInv
    <3>4. CASE l = m
      <4>1. after'[l] = Append(after[l], s)
        BY <1>0, <2>1, <3>4
      <4>2. /\ Len(after'[l]) = Len(after[l]) + 1 /\ Len(after[l]) \in Nat
            /\ \A j \in 1..Len(after[l]) : after'[l][j] = after[l][j]
            /\ after'[l][Len(after[l]) + 1] = s
        BY <3>1, <4>1, AppendProperties
      <4>3. CASE i = Len(after[l]) + 1
        BY SMTT(40), <2>4, <3>2, <3>4, <4>2, <4>3
      <4>4. CASE i \in 1..Len(after[l])
        BY SMTT(40), <2>4, <3>2, <4>2, <4>4 DEF AfterInv
      <4> QED BY <4>2, <4>3, <4>4
    <3> QED BY <3>3, <3>4
  <2> QED BY <1>2, <2>3, <2>4, <2>5
<1> QED BY <1>1, <1>2

\* Operations are added to reached, and at most close a session.
LEMMA RunEffect ==
    ASSUME TypeOK, NEW list \in Seq(Requests), Run(list)
    PROVE  /\ reached' \in Seq([req : Requests, sock : Socks])
           /\ UNCHANGED <<life, after>> \/ \E s \in Socks : onClose(s)
<1>1. PICK at : Picked(list, Len(list), Hits(list), at)
  BY HitsPicked
<1>2. reached' \in Seq([req : Requests, sock : Socks])
  BY <1>1, ConcatProperties DEF Run, Picked, TypeOK
<1>3. ASSUME NEW i \in Closes(list) PROVE Resolve(list[i].id) \in Socks
  <2>1. i \in 1..Len(list) /\ Resolve(list[i].id) # Null
    BY DEF Closes
  <2>2. list[i] \in Requests
    BY <2>1, ElementOfSeq
  <2>3. list[i].id \in SessionIds
    BY <2>2 DEF Requests
  <2> QED BY <2>1, <2>3, ResolveType
<1> QED BY <1>2, <1>3 DEF Run

\* The disconnect callback of loop l ends the session in front of its lane.
LEMMA ProcCloseEffect ==
    ASSUME TypeInv, NEW l \in Loops, procDataSocketClose(l)
    PROVE  LET s == Head(after[l]) IN
           /\ s \in Socks /\ life[s] = "closing" /\ LoopOf(s) = l
           /\ mUserData[s] \in SessionIds
           /\ life' = [life EXCEPT ![s] = "deleted"]
           /\ after' = [after EXCEPT ![l] = Tail(@)]
           /\ \A i \in 1..Len(after'[l]) : after'[l][i] # s /\ after'[l][i] = after[l][i + 1]
           /\ Len(after'[l]) = Len(after[l]) - 1
           /\ mValues' = [mValues EXCEPT ![l][mUserData[s].index + 1] = Null]
           /\ mIds' = [mIds EXCEPT ![l] = Append(@, mUserData[s].index)]
<1> DEFINE s == Head(after[l])
<1>1. after[l] \in Seq(Socks) /\ after[l] # <<>> /\ after \in [Loops -> Seq(Socks)]
  BY DEF TypeInv, TypeOK, procDataSocketClose
<1>2. s = after[l][1] /\ 1 \in 1..Len(after[l]) /\ s \in Socks
  BY <1>1
<1>3. life[s] = "closing" /\ LoopOf(s) = l /\ \A j \in 1..Len(after[l]) : after[l][j] = s => j = 1
  BY <1>2 DEF TypeInv, AfterInv
<1>4. mUserData[s] \in SessionIds
  BY <1>2, <1>3 DEF TypeInv, SessionInv, Occupying
<1>5. after'[l] = Tail(after[l])
  BY <1>1 DEF procDataSocketClose
<1>6. /\ Len(after'[l]) = Len(after[l]) - 1
      /\ \A i \in 1..Len(after'[l]) : after'[l][i] = after[l][i + 1] /\ i + 1 \in 1..Len(after[l])
  BY <1>1, <1>5, HeadTailProperties
<1>7. \A i \in 1..Len(after'[l]) : after'[l][i] # s
  BY <1>1, <1>3, <1>6
<1> QED BY <1>1, <1>2, <1>3, <1>4, <1>6, <1>7 DEF procDataSocketClose
-----------------------------------------------------------------------------
(* Types and lanes are kept by every step. *)

LEMMA TypeOKStep == TypeInv /\ [Next]_vars => TypeOK'
<1> SUFFICES ASSUME TypeInv, [Next]_vars PROVE TypeOK'
  OBVIOUS
<1> USE TcpServiceAssumption DEF tableVars
<1>0. TypeOK /\ SessionInv /\ AfterInv /\ EnterInv
  BY DEF TypeInv
<1>1. CASE startWorkerThread
  BY <1>0, <1>1 DEF TypeOK, startWorkerThread
<1>2. CASE stopWorkerThread
  BY <1>0, <1>2 DEF TypeOK, stopWorkerThread
<1>3. CASE closeWorkerThread
  BY <1>0, <1>3 DEF TypeOK, closeWorkerThread
<1>4. ASSUME NEW c \in Callers \cup Loops, NEW s \in Socks, addDataSocket(c, s) PROVE TypeOK'
  <2>1. PICK l \in Loops :
          IF c = l
          THEN onEnterEventLoop(l, s) /\ UNCHANGED async
          ELSE /\ async' = [async EXCEPT ![l] = Append(@, [enter |-> s])]
               /\ life' = [life EXCEPT ![s] = "queued"]
               /\ UNCHANGED <<tableVars, mUserData, known>>
    BY <1>4 DEF addDataSocket
  <2>2. UNCHANGED <<service, starts, mCachePacketList, after, ops, reached>>
    BY <1>4 DEF addDataSocket
  <2>3. CASE c = l
    BY <1>0, <2>1, <2>2, <2>3, EnterEffect DEF TypeOK, Lives
  <2>4. CASE c # l
    <3>1. [enter |-> s] \in AsyncProcs
      BY DEF AsyncProcs
    <3>2. async \in [Loops -> Seq(AsyncProcs)] /\ Append(async[l], [enter |-> s]) \in Seq(AsyncProcs)
      BY <1>0, <3>1, AppendProperties DEF TypeOK
    <3>3. async' \in [Loops -> Seq(AsyncProcs)]
      BY <2>1, <2>4, <3>2
    <3> QED BY <1>0, <2>1, <2>2, <2>4, <3>3 DEF TypeOK
  <2> QED BY <2>3, <2>4
<1>5. ASSUME NEW c \in Callers \cup Loops, NEW s \in Socks, addDataSocketFails(c, s) PROVE TypeOK'
  BY <1>0, <1>5 DEF TypeOK, addDataSocketFails
<1>6. ASSUME NEW c \in Callers \cup Loops, NEW kind \in Kinds, NEW k \in known,
             postSessionAsyncProc(c, kind, k)
      PROVE  TypeOK'
  <2>1. k \in [id : SessionIds, sock : Socks] /\ ops + 1 \in Nat /\ ops' = ops + 1
    BY <1>0, <1>6 DEF TypeOK, postSessionAsyncProc
  <2>2. request(c, kind, k) \in Requests
    BY <2>1 DEF request, Requests
  <2>3. <<request(c, kind, k)>> \in Seq(Requests) /\ k.id.loopIndex \in Loops
    BY <2>1, <2>2 DEF SessionIds
  <2>4. UNCHANGED <<service, starts, tableVars, mCachePacketList, mUserData, known>>
    BY <1>6 DEF postSessionAsyncProc
  <2>5. CASE c = k.id.loopIndex
    <3>1. Run(<<request(c, kind, k)>>) /\ UNCHANGED async
      BY <1>6, <2>5 DEF postSessionAsyncProc
    <3>2. /\ reached' \in Seq([req : Requests, sock : Socks])
          /\ life' \in [Socks -> Lives] /\ after' \in [Loops -> Seq(Socks)]
      BY <1>0, <2>3, <3>1, RunEffect, CloseEffect DEF TypeOK, Lives
    <3> QED BY <1>0, <2>1, <2>4, <3>1, <3>2 DEF TypeOK, Lives
  <2>6. CASE c # k.id.loopIndex
    <3>1. /\ async' = [async EXCEPT ![k.id.loopIndex] = Append(@, [list |-> <<request(c, kind, k)>>])]
          /\ UNCHANGED <<life, after, reached>>
      BY <1>6, <2>6 DEF postSessionAsyncProc
    <3>2. [list |-> <<request(c, kind, k)>>] \in AsyncProcs
      BY <2>3 DEF AsyncProcs
    <3>3. async' \in [Loops -> Seq(AsyncProcs)]
      BY <1>0, <2>3, <3>1, <3>2 DEF TypeOK
    <3> QED BY <1>0, <2>1, <2>4, <3>1, <3>3 DEF TypeOK
  <2> QED BY <2>5, <2>6
<1>7. ASSUME NEW k \in known, cacheSend(k) PROVE TypeOK'
  <2>1. k \in [id : SessionIds, sock : Socks] /\ ops + 1 \in Nat
    BY <1>0 DEF TypeOK
  <2>2. request(Cacher, "cacheSend", k) \in Requests /\ k.id.loopIndex \in Loops
    BY <2>1 DEF request, Requests, Kinds, SessionIds
  <2>3. mCachePacketList' \in [Loops -> Seq(Requests)]
    BY <1>0, <1>7, <2>2 DEF TypeOK, cacheSend
  <2> QED BY <1>0, <1>7, <2>1, <2>3 DEF TypeOK, cacheSend
<1>8. CASE flushCachePackectList
  <2>1. ASSUME NEW l \in Loops PROVE [list |-> mCachePacketList[l]] \in AsyncProcs
    BY <1>0 DEF TypeOK, AsyncProcs
  <2>2. async' \in [Loops -> Seq(AsyncProcs)]
    BY <1>0, <1>8, <2>1 DEF TypeOK, flushCachePackectList
  <2>3. mCachePacketList' \in [Loops -> Seq(Requests)]
    BY <1>8 DEF flushCachePackectList
  <2>4. UNCHANGED <<service, starts, tableVars, after, life, mUserData, known, ops, reached>>
    BY <1>8 DEF flushCachePackectList
  <2> QED BY <1>0, <2>2, <2>3, <2>4 DEF TypeOK
<1>9. ASSUME NEW l \in Loops, procDataSocketClose(l) PROVE TypeOK'
  <2> DEFINE s == Head(after[l])
  <2>1. /\ s \in Socks /\ mUserData[s] \in SessionIds
        /\ life' = [life EXCEPT ![s] = "deleted"]
        /\ after' = [after EXCEPT ![l] = Tail(@)]
        /\ mValues' = [mValues EXCEPT ![l][mUserData[s].index + 1] = Null]
        /\ mIds' = [mIds EXCEPT ![l] = Append(@, mUserData[s].index)]
    BY <1>9, ProcCloseEffect
  <2> HIDE DEF s
  <2>2. mValues[l] \in Seq(Socks \cup {Null}) /\ mUserData[s].index \in Nat
    BY <1>0, <2>1 DEF TypeOK, SessionIds
  <2>3. [mValues[l] EXCEPT ![mUserData[s].index + 1] = Null] \in Seq(Socks \cup {Null})
    <3> DEFINE T == Socks \cup {Null}
               q == mValues[l]
    <3>1. q \in Seq(T) /\ Null \in T
      BY <2>2
    <3> HIDE DEF T, q
    <3>2. [q EXCEPT ![mUserData[s].index + 1] = Null] \in Seq(T)
      BY <3>1, ExceptInSeq
    <3> QED BY <3>2 DEF T, q
  <2>4. mValues' \in [Loops -> Seq(Socks \cup {Null})] /\ mIds' \in [Loops -> Seq(Nat)]
    <3>1. mValues \in [Loops -> Seq(Socks \cup {Null})] /\ mIds \in [Loops -> Seq(Nat)]
      BY <1>0 DEF TypeOK
    <3>2. mValues' = [mValues EXCEPT ![l] = [mValues[l] EXCEPT ![mUserData[s].index + 1] = Null]]
      BY <2>1
    <3>3. Append(mIds[l], mUserData[s].index) \in Seq(Nat)
      BY <2>2, <3>1
    <3> QED BY <2>1, <2>3, <3>1, <3>2, <3>3
  <2>5. after[l] # <<>> /\ after' \in [Loops -> Seq(Socks)]
    BY <1>0, <1>9, <2>1 DEF TypeOK, procDataSocketClose
  <2>6. life' \in [Socks -> Lives]
    BY <1>0, <2>1 DEF TypeOK, Lives
  <2>7. UNCHANGED <<service, starts, mIncIds, mCachePacketList, async, mUserData, known, ops, reached>>
    BY <1>9 DEF procDataSocketClose
  <2> QED BY <1>0, <2>4, <2>5, <2>6, <2>7 DEF TypeOK, Lives
<1>10. ASSUME NEW l \in Loops, runAsyncProc(l) PROVE TypeOK'
  <2>1. /\ async[l] # <<>> /\ async' = [async EXCEPT ![l] = Tail(@)]
        /\ UNCHANGED <<service, starts, mCachePacketList, ops>>
    BY <1>10 DEF runAsyncProc
  <2>2. async[l] \in Seq(AsyncProcs) /\ async' \in [Loops -> Seq(AsyncProcs)] /\ Head(async[l]) \in AsyncProcs
    BY <1>0, <2>1 DEF TypeOK
  <2> DEFINE proc == Head(async[l])
  <2>3. CASE /\ "enter" \in DOMAIN proc
             /\ onEnterEventLoop(l, proc.enter)
             /\ UNCHANGED <<after, reached>>
    <3>1. proc.enter \in Socks
      BY <2>2, <2>3 DEF AsyncProcs
    <3> QED BY <1>0, <2>1, <2>2, <2>3, <3>1, EnterEffect DEF TypeOK, Lives
  <2>4. CASE /\ "list" \in DOMAIN proc
             /\ Run(proc.list)
             /\ UNCHANGED <<tableVars, mUserData, known>>
    <3>1. proc.list \in Seq(Requests)
      BY <2>2, <2>4 DEF AsyncProcs
    <3>2. /\ reached' \in Seq([req : Requests, sock : Socks])
          /\ life' \in [Socks -> Lives] /\ after' \in [Loops -> Seq(Socks)]
      BY <1>0, <2>4, <3>1, RunEffect, CloseEffect DEF TypeOK, Lives
    <3> QED BY <1>0, <2>1, <2>2, <2>4, <3>2 DEF TypeOK, Lives
  <2> QED BY <1>10, <2>3, <2>4 DEF runAsyncProc
<1>11. ASSUME NEW s \in Socks, connectionCloses(s) PROVE TypeOK'
  BY <1>0, <1>11, CloseEffect DEF TypeOK, connectionCloses, Lives
<1>12. CASE UNCHANGED vars
  BY <1>0, <1>12 DEF TypeOK, vars
<1> QED BY <1>1, <1>2, <1>3, <1>4, <1>5, <1>6, <1>7, <1>8, <1>9, <1>10, <1>11, <1>12
        DEF Next, Lifecycle, Call, Worker

\* Every step keeps SessionInv and AfterInv.
LEMMA SessionStep == TypeInv /\ [Next]_vars => SessionInv' /\ AfterInv'
<1> SUFFICES ASSUME TypeInv, [Next]_vars PROVE SessionInv' /\ AfterInv'
  OBVIOUS
<1> USE TcpServiceAssumption DEF tableVars, HasLoops, Occupying, LoopOf
<1>0. TypeOK /\ SessionInv /\ AfterInv /\ EnterInv
  BY DEF TypeInv
<1>a. life \in [Socks -> Lives] /\ after \in [Loops -> Seq(Socks)]
  BY <1>0 DEF TypeOK, Lives
<1>b. \A l \in Loops : \A i \in 1..Len(after[l]) : after[l][i] \in Socks
  BY <1>a
<1>1. CASE startWorkerThread
  BY <1>0, <1>1 DEF SessionInv, AfterInv, startWorkerThread
<1>2. CASE stopWorkerThread
  BY <1>0, <1>2 DEF SessionInv, AfterInv, stopWorkerThread
<1>3. CASE closeWorkerThread
  <2>1. \A l \in Loops : async'[l] = <<>> /\ after'[l] = <<>>
    BY <1>3 DEF closeWorkerThread
  <2>2. \A s \in Socks : life'[s] \notin {"open", "closing"}
    BY <1>3 DEF closeWorkerThread
  <2> QED BY <2>1, <2>2 DEF SessionInv, AfterInv
\* A session that was not open or closing enters loop l.
<1>c. ASSUME NEW l \in Loops, NEW s \in Socks, ~ Occupying(s), onEnterEventLoop(l, s), HasLoops,
             UNCHANGED <<service, after>>
      PROVE  SessionInv' /\ AfterInv'
  <2>1. /\ \A t \in Socks \ {s} : life'[t] = life[t] /\ mUserData'[t] = mUserData[t]
        /\ life'[s] \in {"open", "deleted"}
        /\ life'[s] = "open" => mUserData'[s] \in SessionIds
    BY <1>0, <1>c, EnterEffect
  <2>2. SessionInv'
    BY <1>0, <1>c, <2>1 DEF SessionInv
  <2>3. \A m \in Loops : \A i \in 1..Len(after[m]) : after[m][i] # s
    BY <1>0, <1>c DEF AfterInv
  <2>4. AfterInv'
    BY <1>0, <1>b, <1>c, <2>1, <2>3 DEF AfterInv
  <2> QED BY <2>2, <2>4
\* A session is closed, or none.
<1>d. ASSUME UNCHANGED <<life, after>> \/ \E s \in Socks : onClose(s),
             UNCHANGED <<service, mUserData>>, HasLoops
      PROVE  SessionInv' /\ AfterInv'
  <2>1. CASE UNCHANGED <<life, after>>
    BY <1>0, <1>d, <2>1 DEF SessionInv, AfterInv
  <2>2. ASSUME NEW s \in Socks, onClose(s) PROVE SessionInv' /\ AfterInv'
    <3>1. \A t \in Socks : life'[t] = life[t] \/ (life[t] = "open" /\ life'[t] = "closing")
      BY <1>0, <2>2, CloseEffect
    <3>2. SessionInv'
      BY <1>0, <1>d, <3>1 DEF SessionInv
    <3>3. AfterInv'
      BY <1>0, <1>d, <2>2, CloseEffect DEF AfterInv
    <3> QED BY <3>2, <3>3
  <2> QED BY <1>d, <2>1, <2>2
<1>4. ASSUME NEW c \in Callers \cup Loops, NEW s \in Socks, addDataSocket(c, s)
      PROVE  SessionInv' /\ AfterInv'
  <2>1. life[s] = "none" /\ HasLoops /\ UNCHANGED <<service, after>>
    BY <1>4 DEF addDataSocket
  <2>2. PICK l \in Loops :
          IF c = l
          THEN onEnterEventLoop(l, s) /\ UNCHANGED async
          ELSE /\ async' = [async EXCEPT ![l] = Append(@, [enter |-> s])]
               /\ life' = [life EXCEPT ![s] = "queued"]
               /\ UNCHANGED <<tableVars, mUserData, known>>
    BY <1>4 DEF addDataSocket
  <2>3. CASE c = l
    BY <1>c, <2>1, <2>2, <2>3
  <2>4. CASE c # l
    <3>1. \A t \in Socks : life'[t] = IF t = s THEN "queued" ELSE life[t]
      BY <1>a, <2>2, <2>4
    <3>2. SessionInv'
      BY <1>0, <2>1, <2>2, <2>4, <3>1 DEF SessionInv
    <3>3. AfterInv'
      BY <1>0, <1>b, <2>1, <2>2, <2>4, <3>1 DEF AfterInv
    <3> QED BY <3>2, <3>3
  <2> QED BY <2>3, <2>4
<1>5. ASSUME NEW c \in Callers \cup Loops, NEW s \in Socks, addDataSocketFails(c, s)
      PROVE  SessionInv' /\ AfterInv'
  <2>1. \A t \in Socks : life'[t] = IF t = s THEN "deletedOpen" ELSE life[t]
    BY <1>a, <1>5 DEF addDataSocketFails
  <2>2. life[s] = "none" /\ UNCHANGED <<service, after, async, mUserData>>
    BY <1>5 DEF addDataSocketFails
  <2> QED BY <1>0, <1>b, <2>1, <2>2 DEF SessionInv, AfterInv
<1>6. ASSUME NEW c \in Callers \cup Loops, NEW kind \in Kinds, NEW k \in known,
             postSessionAsyncProc(c, kind, k)
      PROVE  SessionInv' /\ AfterInv'
  <2>1. k \in [id : SessionIds, sock : Socks] /\ ops + 1 \in Nat
    BY <1>0 DEF TypeOK
  <2>2. request(c, kind, k) \in Requests
    BY <2>1 DEF request, Requests
  <2>3. <<request(c, kind, k)>> \in Seq(Requests)
    BY <2>2
  <2>4. UNCHANGED <<life, after>> \/ \E s \in Socks : onClose(s)
    BY <1>0, <1>6, <2>3, RunEffect DEF postSessionAsyncProc
  <2> QED BY <1>6, <1>d, <2>4 DEF postSessionAsyncProc
<1>7. ASSUME NEW k \in known, cacheSend(k) PROVE SessionInv' /\ AfterInv'
  BY <1>0, <1>7 DEF SessionInv, AfterInv, cacheSend
<1>8. CASE flushCachePackectList
  BY <1>0, <1>8 DEF SessionInv, AfterInv, flushCachePackectList
<1>9. ASSUME NEW l \in Loops, procDataSocketClose(l) PROVE SessionInv' /\ AfterInv'
  <2> DEFINE s == Head(after[l])
  <2>1. /\ s \in Socks
        /\ life' = [life EXCEPT ![s] = "deleted"]
        /\ after' = [after EXCEPT ![l] = Tail(@)]
        /\ \A i \in 1..Len(after'[l]) : after'[l][i] # s /\ after'[l][i] = after[l][i + 1]
        /\ Len(after'[l]) = Len(after[l]) - 1
        /\ life[s] = "closing" /\ LoopOf(s) = l
    BY <1>9, ProcCloseEffect
  <2> HIDE DEF s
  <2>2. service = "running" /\ UNCHANGED <<service, async, mUserData>>
    BY <1>9 DEF procDataSocketClose
  <2>3. \A t \in Socks : life'[t] = IF t = s THEN "deleted" ELSE life[t]
    BY <1>a, <2>1
  <2>4. SessionInv'
    BY <1>0, <2>2, <2>3 DEF SessionInv
  <2>5. ASSUME NEW m \in Loops, NEW i \in 1..Len(after'[m])
        PROVE  /\ life'[after'[m][i]] = "closing" /\ LoopOf(after'[m][i]) = m
               /\ \A j \in 1..Len(after'[m]) : after'[m][i] = after'[m][j] => i = j
    <3>1. CASE m = l
      <4>1. Len(after[l]) \in Nat
        BY <1>a
      <4>2. \A j \in 1..Len(after'[l]) : j + 1 \in 1..Len(after[l]) /\ after'[l][j] \in Socks
        BY <1>b, <2>1, <4>1
      <4> QED BY <1>0, <2>1, <2>3, <3>1, <4>1, <4>2 DEF AfterInv
    <3>2. CASE m # l
      <4>1. after'[m] = after[m]
        BY <1>a, <2>1, <3>2
      <4>2. after[m][i] # s
        BY <1>0, <2>1, <3>2, <4>1 DEF AfterInv
      <4> QED BY <1>0, <1>b, <2>3, <4>1, <4>2 DEF AfterInv
    <3> QED BY <3>1, <3>2
  <2>6. AfterInv'
    BY <2>2, <2>5 DEF AfterInv
  <2> QED BY <2>4, <2>6
<1>10. ASSUME NEW l \in Loops, runAsyncProc(l) PROVE SessionInv' /\ AfterInv'
  <2> DEFINE proc == Head(async[l])
  <2>1. service = "running" /\ async[l] # <<>> /\ UNCHANGED service
    BY <1>10 DEF runAsyncProc
  <2>2. proc \in AsyncProcs /\ proc = async[l][1] /\ 1 \in 1..Len(async[l])
    BY <1>0, <2>1 DEF TypeOK
  <2>3. CASE /\ "enter" \in DOMAIN proc
             /\ onEnterEventLoop(l, proc.enter)
             /\ UNCHANGED <<after, reached>>
    <3>1. proc.enter \in Socks /\ life[proc.enter] = "queued"
      BY <1>0, <2>2, <2>3 DEF AsyncProcs, EnterInv, IsEnter
    <3> QED BY <1>c, <2>1, <2>3, <3>1
  <2>4. CASE /\ "list" \in DOMAIN proc
             /\ Run(proc.list)
             /\ UNCHANGED <<tableVars, mUserData, known>>
    <3>1. proc.list \in Seq(Requests)
      BY <2>2, <2>4 DEF AsyncProcs
    <3> QED BY <1>0, <1>d, <2>1, <2>4, <3>1, RunEffect
  <2> QED BY <1>10, <2>3, <2>4 DEF runAsyncProc
<1>11. ASSUME NEW s \in Socks, connectionCloses(s) PROVE SessionInv' /\ AfterInv'
  BY <1>d, <1>11 DEF connectionCloses
<1>12. CASE UNCHANGED vars
  BY <1>0, <1>12 DEF SessionInv, AfterInv, vars
<1> QED BY <1>1, <1>2, <1>3, <1>4, <1>5, <1>6, <1>7, <1>8, <1>9, <1>10, <1>11, <1>12
        DEF Next, Lifecycle, Call, Worker

\* Every step keeps EnterInv.
LEMMA EnterStep == TypeInv /\ [Next]_vars => EnterInv'
<1> SUFFICES ASSUME TypeInv, [Next]_vars PROVE EnterInv'
  OBVIOUS
<1> USE TcpServiceAssumption DEF HasLoops
<1>0. TypeOK /\ SessionInv /\ AfterInv /\ EnterInv
  BY DEF TypeInv
<1>a. life \in [Socks -> Lives] /\ async \in [Loops -> Seq(AsyncProcs)]
  BY <1>0 DEF TypeOK, Lives
<1>b. \A l \in Loops : \A i \in 1..Len(async[l]) : IsEnter(async[l][i]) => async[l][i].enter \in Socks
  BY <1>a DEF AsyncProcs, IsEnter
\* What waits to enter has waited before, and each lane has lost its first procs.
<1>c. ASSUME NEW shift \in [Loops -> Nat],
             \A l \in Loops : \A i \in 1..Len(async'[l]) : IsEnter(async'[l][i]) =>
                /\ i + shift[l] \in 1..Len(async[l])
                /\ async'[l][i] = async[l][i + shift[l]]
                /\ life'[async'[l][i].enter] = "queued"
      PROVE  EnterInv'
  <2> SUFFICES ASSUME NEW l \in Loops, NEW i \in 1..Len(async'[l]), IsEnter(async'[l][i]),
                      NEW m \in Loops, NEW j \in 1..Len(async'[m]), IsEnter(async'[m][j]),
                      async'[m][j].enter = async'[l][i].enter
               PROVE  l = m /\ i = j
    BY <1>c DEF EnterInv, IsEnter
  <2> DEFINE p == i + shift[l]
             q == j + shift[m]
  <2>1. /\ p \in 1..Len(async[l]) /\ q \in 1..Len(async[m])
        /\ async'[l][i] = async[l][p] /\ async'[m][j] = async[m][q]
    BY <1>c
  <2> HIDE DEF p, q
  <2>2. l = m /\ p = q
    <3>1. IsEnter(async[l][p]) /\ IsEnter(async[m][q]) /\ async[m][q].enter = async[l][p].enter
      BY <2>1
    <3> QED BY <1>0, <2>1, <3>1 DEF EnterInv
  <2>3. shift[l] \in Nat /\ i \in Int /\ j \in Int
    BY <1>c
  <2> QED BY <2>2, <2>3 DEF p, q
<1>d. ASSUME \A s \in Socks : life[s] = "queued" => life'[s] = "queued", UNCHANGED async
      PROVE  EnterInv'
  BY <1>0, <1>b, <1>d DEF EnterInv, IsEnter
<1>1. CASE startWorkerThread
  BY <1>d, <1>1 DEF startWorkerThread
<1>2. CASE stopWorkerThread
  BY <1>d, <1>2 DEF stopWorkerThread
<1>3. CASE closeWorkerThread
  BY <1>3 DEF closeWorkerThread, EnterInv
<1>4. ASSUME NEW c \in Callers \cup Loops, NEW s \in Socks, addDataSocket(c, s) PROVE EnterInv'
  <2>1. life[s] = "none"
    BY <1>4 DEF addDataSocket
  <2>2. PICK l \in Loops :
          IF c = l
          THEN onEnterEventLoop(l, s) /\ UNCHANGED async
          ELSE /\ async' = [async EXCEPT ![l] = Append(@, [enter |-> s])]
               /\ life' = [life EXCEPT ![s] = "queued"]
               /\ UNCHANGED <<tableVars, mUserData, known>>
    BY <1>4 DEF addDataSocket
  <2>3. CASE c = l
    BY <1>0, <1>d, <2>1, <2>2, <2>3, EnterEffect
  <2>4. CASE c # l
    <3>1. \A t \in Socks : life'[t] = IF t = s THEN "queued" ELSE life[t]
      BY <1>a, <2>2, <2>4
    <3>2. /\ async[l] \in Seq(AsyncProcs)
          /\ async'[l] = Append(async[l], [enter |-> s])
          /\ \A m \in Loops \ {l} : async'[m] = async[m]
      BY <1>a, <2>2, <2>4
    <3>3. /\ Len(async'[l]) = Len(async[l]) + 1 /\ Len(async[l]) \in Nat
          /\ \A i \in 1..Len(async[l]) : async'[l][i] = async[l][i]
          /\ async'[l][Len(async[l]) + 1] = [enter |-> s]
      BY <3>2
    <3>4. ASSUME NEW m \in Loops, NEW i \in 1..Len(async'[m]), IsEnter(async'[m][i])
          PROVE  \/ /\ i \in 1..Len(async[m]) /\ async'[m][i] = async[m][i]
                    /\ life[async[m][i].enter] = "queued"
                    /\ life'[async'[m][i].enter] = "queued"
                    /\ async'[m][i].enter # s
                 \/ /\ m = l /\ i = Len(async[l]) + 1
                    /\ async'[m][i].enter = s
                    /\ life'[async'[m][i].enter] = "queued"
      <4>1. CASE m = l /\ i = Len(async[l]) + 1
        BY <3>1, <3>3, <4>1
      <4>2. CASE ~ (m = l /\ i = Len(async[l]) + 1)
        <5>1. i \in 1..Len(async[m]) /\ async'[m][i] = async[m][i]
          BY <3>2, <3>3, <3>4, <4>2
        <5>2. IsEnter(async[m][i]) /\ async[m][i].enter \in Socks /\ life[async[m][i].enter] = "queued"
          BY <1>0, <1>b, <3>4, <5>1 DEF EnterInv
        <5>3. async[m][i].enter # s
          BY <2>1, <5>2
        <5>4. life'[async[m][i].enter] = "queued"
          BY <3>1, <5>2, <5>3
        <5> QED BY <5>1, <5>2, <5>3, <5>4
      <4> QED BY <4>1, <4>2
    <3> SUFFICES ASSUME NEW m \in Loops, NEW i \in 1..Len(async'[m]), IsEnter(async'[m][i]),
                        NEW p \in Loops, NEW j \in 1..Len(async'[p]), IsEnter(async'[p][j]),
                        async'[p][j].enter = async'[m][i].enter
                 PROVE  m = p /\ i = j
      BY <3>4 DEF EnterInv, IsEnter
    <3>5. CASE async'[m][i].enter = s
      BY <3>4, <3>5
    <3>6. CASE async'[m][i].enter # s
      <4>1. /\ i \in 1..Len(async[m]) /\ async'[m][i] = async[m][i]
            /\ j \in 1..Len(async[p]) /\ async'[p][j] = async[p][j]
        BY <3>4, <3>6
      <4> QED BY <1>0, <4>1 DEF EnterInv
    <3> QED BY <3>5, <3>6
  <2> QED BY <2>3, <2>4
<1>5. ASSUME NEW c \in Callers \cup Loops, NEW s \in Socks, addDataSocketFails(c, s) PROVE EnterInv'
  <2>1. \A t \in Socks : life'[t] = IF t = s THEN "deletedOpen" ELSE life[t]
    BY <1>a, <1>5 DEF addDataSocketFails
  <2>2. life[s] = "none" /\ UNCHANGED async
    BY <1>5 DEF addDataSocketFails
  <2> QED BY <1>d, <2>1, <2>2
\* Procs with operations are put behind the others.
<1>e. ASSUME NEW lists \in [Loops -> Seq(Requests)], NEW M \in SUBSET Loops,
             \A m \in Loops : async'[m] = IF m \in M THEN Append(async[m], [list |-> lists[m]])
                                          ELSE async[m],
             UNCHANGED life
      PROVE  EnterInv'
  <2> DEFINE shift == [m \in Loops |-> 0]
  <2>1. ASSUME NEW m \in Loops, NEW i \in 1..Len(async'[m]), IsEnter(async'[m][i])
        PROVE  i \in 1..Len(async[m]) /\ async'[m][i] = async[m][i] /\ life'[async'[m][i].enter] = "queued"
    <3>1. async[m] \in Seq(AsyncProcs)
      BY <1>a
    <3>2. CASE m \notin M
      <4>1. async'[m] = async[m] /\ life' = life
        BY <1>e, <3>2
      <4> QED BY <1>0, <2>1, <4>1 DEF EnterInv
    <3>3. CASE m \in M
      <4>1. /\ Len(async'[m]) = Len(async[m]) + 1 /\ Len(async[m]) \in Nat
            /\ \A j \in 1..Len(async[m]) : async'[m][j] = async[m][j]
            /\ async'[m][Len(async[m]) + 1] = [list |-> lists[m]]
        <5>1. async'[m] = Append(async[m], [list |-> lists[m]])
          BY <1>e, <3>3
        <5>2. [list |-> lists[m]] \in AsyncProcs
          BY <1>e DEF AsyncProcs
        <5> QED BY <3>1, <5>1, <5>2, AppendProperties
      <4>2. ~ IsEnter([list |-> lists[m]])
        BY DEF IsEnter
      <4>3. i \in 1..Len(async[m]) /\ async'[m][i] = async[m][i]
        BY <2>1, <4>1, <4>2
      <4> QED BY <1>0, <1>e, <2>1, <4>3 DEF EnterInv
    <3> QED BY <3>2, <3>3
  <2>2. shift \in [Loops -> Nat] /\ \A m \in Loops : shift[m] = 0
    OBVIOUS
  <2> HIDE DEF shift
  <2> QED BY SMTT(40), <1>c, <2>1, <2>2
<1>6. ASSUME NEW c \in Callers \cup Loops, NEW kind \in Kinds, NEW k \in known,
             postSessionAsyncProc(c, kind, k)
      PROVE  EnterInv'
  <2>1. k.id.loopIndex \in Loops /\ k \in [id : SessionIds, sock : Socks] /\ ops + 1 \in Nat
    BY <1>0 DEF TypeOK, SessionIds
  <2> DEFINE r == request(c, kind, k)
             l == k.id.loopIndex
  <2>2. <<r>> \in Seq(Requests)
    BY <2>1 DEF request, Requests
  <2>3. CASE c = l
    <3>1. Run(<<r>>) /\ UNCHANGED async
      BY <1>6, <2>3 DEF postSessionAsyncProc
    <3>2. \A t \in Socks : life[t] = "queued" => life'[t] = "queued"
      <4> HIDE DEF r
      <4> QED BY <1>0, <2>2, <3>1, RunEffect, CloseEffect
    <3> QED BY <1>d, <3>1, <3>2
  <2>4. CASE c # l
    <3>1. async' = [async EXCEPT ![l] = Append(@, [list |-> <<r>>])] /\ UNCHANGED life
      BY <1>6, <2>4 DEF postSessionAsyncProc
    <3> HIDE DEF r, l
    <3> DEFINE lists == [m \in Loops |-> <<r>>]
    <3>2. /\ lists \in [Loops -> Seq(Requests)] /\ {l} \in SUBSET Loops
          /\ \A m \in Loops : async'[m] = IF m \in {l} THEN Append(async[m], [list |-> lists[m]])
                                          ELSE async[m]
      BY <1>a, <2>1, <2>2, <3>1 DEF l
    <3> HIDE DEF lists
    <3> QED BY <1>e, <3>1, <3>2
  <2> QED BY <2>3, <2>4
<1>7. ASSUME NEW k \in known, cacheSend(k) PROVE EnterInv'
  BY <1>d, <1>7 DEF cacheSend
<1>8. CASE flushCachePackectList
  <2> DEFINE M == {m \in Loops : mCachePacketList[m] # <<>>}
  <2>1. /\ mCachePacketList \in [Loops -> Seq(Requests)] /\ M \in SUBSET Loops /\ UNCHANGED life
        /\ \A m \in Loops : async'[m] = IF m \in M THEN Append(async[m], [list |-> mCachePacketList[m]])
                                        ELSE async[m]
    BY <1>0, <1>8 DEF TypeOK, flushCachePackectList
  <2> HIDE DEF M
  <2> QED BY <1>e, <2>1
<1>9. ASSUME NEW l \in Loops, procDataSocketClose(l) PROVE EnterInv'
  <2> DEFINE s == Head(after[l])
  <2>1. s \in Socks /\ life' = [life EXCEPT ![s] = "deleted"] /\ life[s] = "closing"
    BY <1>0, <1>9, ProcCloseEffect
  <2> HIDE DEF s
  <2>2. UNCHANGED async
    BY <1>9 DEF procDataSocketClose
  <2> QED BY <1>a, <1>d, <2>1, <2>2
<1>10. ASSUME NEW l \in Loops, runAsyncProc(l) PROVE EnterInv'
  <2> DEFINE proc == Head(async[l])
             shift == [m \in Loops |-> IF m = l THEN 1 ELSE 0]
  <2>1. /\ async[l] \in Seq(AsyncProcs) /\ async[l] # <<>> /\ async' = [async EXCEPT ![l] = Tail(@)]
    BY <1>a, <1>10 DEF runAsyncProc
  <2>2. proc \in AsyncProcs /\ proc = async[l][1] /\ 1 \in 1..Len(async[l])
    BY <2>1
  <2>3. shift \in [Loops -> Nat] /\ \A m \in Loops : shift[m] = IF m = l THEN 1 ELSE 0
    OBVIOUS
  <2>4. ASSUME NEW m \in Loops, NEW i \in 1..Len(async'[m])
        PROVE  i + shift[m] \in 1..Len(async[m]) /\ async'[m][i] = async[m][i + shift[m]]
    <3>1. CASE m = l
      <4>1. async'[m] = Tail(async[l])
        BY <1>a, <2>1, <3>1
      <4>2. /\ Len(Tail(async[l])) = Len(async[l]) - 1 /\ Len(async[l]) \in Nat
            /\ \A j \in 1..Len(Tail(async[l])) : Tail(async[l])[j] = async[l][j + 1]
        BY <2>1, HeadTailProperties
      <4>3. shift[m] = 1
        BY <2>3, <3>1
      <4> QED BY <2>4, <3>1, <4>1, <4>2, <4>3
    <3>2. CASE m # l
      BY <1>a, <2>1, <2>3, <2>4, <3>2
    <3> QED BY <3>1, <3>2
  <2> HIDE DEF shift
  <2>5. CASE /\ "enter" \in DOMAIN proc
             /\ onEnterEventLoop(l, proc.enter)
             /\ UNCHANGED <<after, reached>>
    <3>1. proc.enter \in Socks /\ IsEnter(async[l][1])
      BY <2>2, <2>5 DEF AsyncProcs, IsEnter
    <3>2. \A t \in Socks \ {proc.enter} : life'[t] = life[t]
      BY <1>0, <2>5, <3>1, EnterEffect
    <3>3. ASSUME NEW m \in Loops, NEW i \in 1..Len(async'[m]), IsEnter(async'[m][i])
          PROVE  life'[async'[m][i].enter] = "queued"
      <4> DEFINE j == i + shift[m]
      <4>1. j \in 1..Len(async[m]) /\ async'[m][i] = async[m][j] /\ (m = l => j # 1)
        BY <2>3, <2>4
      <4> HIDE DEF j
      <4>2. IsEnter(async[m][j]) /\ async[m][j].enter \in Socks /\ life[async[m][j].enter] = "queued"
        BY <1>0, <1>b, <3>3, <4>1 DEF EnterInv
      <4>3. async[m][j].enter # async[l][1].enter
        BY <1>0, <2>2, <3>1, <4>1, <4>2 DEF EnterInv
      <4> QED BY <2>2, <3>2, <4>1, <4>2, <4>3
    <3> QED BY <1>c, <2>3, <2>4, <3>3
  <2>6. CASE /\ "list" \in DOMAIN proc
             /\ Run(proc.list)
             /\ UNCHANGED <<tableVars, mUserData, known>>
    <3>1. proc.list \in Seq(Requests)
      BY <2>2, <2>6 DEF AsyncProcs
    <3>2. \A t \in Socks : life[t] = "queued" => life'[t] = "queued"
      BY <1>0, <2>6, <3>1, RunEffect, CloseEffect
    <3>3. ASSUME NEW m \in Loops, NEW i \in 1..Len(async'[m]), IsEnter(async'[m][i])
          PROVE  life'[async'[m][i].enter] = "queued"
      <4> DEFINE j == i + shift[m]
      <4>1. j \in 1..Len(async[m]) /\ async'[m][i] = async[m][j]
        BY <2>4
      <4> HIDE DEF j
      <4>2. async[m][j].enter \in Socks /\ life[async[m][j].enter] = "queued"
        BY <1>0, <1>b, <3>3, <4>1 DEF EnterInv
      <4> QED BY <3>2, <4>1, <4>2
    <3> QED BY <1>c, <2>3, <2>4, <3>3
  <2> QED BY <1>10, <2>5, <2>6 DEF runAsyncProc
<1>11. ASSUME NEW s \in Socks, connectionCloses(s) PROVE EnterInv'
  BY <1>0, <1>d, <1>11, CloseEffect DEF connectionCloses
<1>12. CASE UNCHANGED vars
  BY <1>d, <1>12 DEF vars
<1> QED BY <1>1, <1>2, <1>3, <1>4, <1>5, <1>6, <1>7, <1>8, <1>9, <1>10, <1>11, <1>12
        DEF Next, Lifecycle, Call, Worker

\* Every step keeps TypeInv.
LEMMA TypeInvStep == TypeInv /\ [Next]_vars => TypeInv'
  BY TypeOKStep, SessionStep, EnterStep DEF TypeInv

\* TypeInv holds before the service is started.
LEMMA TypeInvInit == Init => TypeInv
<1> SUFFICES ASSUME Init PROVE TypeInv
  OBVIOUS
<1>1. TypeOK
  BY DEF Init, TypeOK
<1>2. SessionInv /\ AfterInv /\ EnterInv
  BY DEF Init, SessionInv, AfterInv, EnterInv, Occupying
<1> QED BY <1>1, <1>2 DEF TypeInv

\* TypeInv holds at all times.
LEMMA TypeInvariant == Spec => []TypeInv
  BY TypeInvInit, TypeInvStep, PTL DEF Spec

(***************************************************************************)
(* The tables, lanes, sessions and requests of TCPService keep their       *)
(* types, whatever the callers, the loops and the connections do.          *)
(***************************************************************************)
THEOREM TypeCorrect == Spec => []TypeOK
<1>1. TypeInv => TypeOK
  BY DEF TypeInv
<1> QED BY <1>1, TypeInvariant, PTL
-----------------------------------------------------------------------------
(* The tables of the loops. *)

\* SessionId.index has room for every slot of every loop (65536 in the code).
IndexesFit == \A l \in Loops : Len(mValues[l]) <= IndexMod

\* The slots v and the free list d are those of loop l: a session is in the
\* slot of its id, the free list names the other slots, each once.
TableOf(l, v, d) ==
    /\ \A s \in Socks : Occupying(s) /\ LoopOf(s) = l =>
         mUserData[s].index < Len(v) /\ v[mUserData[s].index + 1] = s
    /\ \A i \in 1..Len(v) : v[i] # Null =>
         Occupying(v[i]) /\ LoopOf(v[i]) = l /\ mUserData[v[i]].index = i - 1
    /\ \A j \in 1..Len(d) : d[j] < Len(v) /\ v[d[j] + 1] = Null
    /\ \A i \in 1..Len(v) : v[i] = Null => \E j \in 1..Len(d) : d[j] = i - 1
    /\ \A j, k \in 1..Len(d) : d[j] = d[k] => j = k

TablesInv == HasLoops => \A l \in Loops : TableOf(l, mValues[l], mIds[l])

\* Growing the tables keeps them: the new slots are free.
LEMMA GrownTable ==
    ASSUME TypeInv, NEW l \in Loops, TableOf(l, mValues[l], mIds[l])
    PROVE  TableOf(l, GrownValues(l), GrownIds(l))
<1> DEFINE v == mValues[l]
           d == mIds[l]
           w == GrownValues(l)
           e == GrownIds(l)
<1>0. v \in Seq(Socks \cup {Null}) /\ d \in Seq(Nat) /\ IncreaseNum \in Nat /\ Len(v) \in Nat
  BY TcpServiceAssumption DEF TypeInv, TypeOK
<1>1. CASE d # <<>>
  BY <1>1 DEF GrownValues, GrownIds
<1>2. CASE d = <<>>
  <2> DEFINE new == [i \in 1..IncreaseNum |-> Null]
             ids == [i \in 1..IncreaseNum |-> Len(v) + i - 1]
  <2>1. w = v \o new /\ e = ids
    BY <1>2 DEF GrownValues, GrownIds
  <2>2. /\ Len(w) = Len(v) + IncreaseNum
        /\ \A i \in 1..Len(v) : w[i] = v[i]
        /\ \A i \in (Len(v) + 1)..(Len(v) + IncreaseNum) : w[i] = Null
    <3>1. new \in Seq(Socks \cup {Null}) /\ Len(new) = IncreaseNum /\ \A i \in 1..IncreaseNum : new[i] = Null
      BY <1>0
    <3> HIDE DEF new, w, v
    <3>2. /\ Len(v \o new) = Len(v) + Len(new)
          /\ \A i \in 1..(Len(v) + Len(new)) : (v \o new)[i] = IF i <= Len(v) THEN v[i] ELSE new[i - Len(v)]
      BY <1>0, <3>1, ConcatProperties
    <3> QED BY <1>0, <2>1, <3>1, <3>2
  <2>3. Len(e) = IncreaseNum /\ \A j \in 1..IncreaseNum : e[j] = Len(v) + j - 1
    BY <1>0, <2>1
  <2>4. \A i \in 1..Len(v) : v[i] # Null
    BY <1>2 DEF TableOf
  <2> HIDE DEF w, e
  <2>a. ASSUME NEW s \in Socks, Occupying(s), LoopOf(s) = l
        PROVE  mUserData[s].index < Len(w) /\ w[mUserData[s].index + 1] = s
    <3>1. mUserData[s].index < Len(v) /\ v[mUserData[s].index + 1] = s
      BY <2>a DEF TableOf
    <3>2. mUserData[s].index \in Nat
      BY <2>a DEF TypeInv, SessionInv, SessionIds
    <3>3. mUserData[s].index + 1 \in 1..Len(v)
      BY <1>0, <3>1, <3>2
    <3> HIDE DEF v
    <3> QED BY <1>0, <2>2, <3>1, <3>2, <3>3
  <2>b. ASSUME NEW i \in 1..Len(w), w[i] # Null
        PROVE  Occupying(w[i]) /\ LoopOf(w[i]) = l /\ mUserData[w[i]].index = i - 1
    <3>1. i \in 1..Len(v) /\ w[i] = v[i]
      <4> HIDE DEF v
      <4> QED BY <1>0, <2>2, <2>b
    <3> QED BY <2>4, <3>1 DEF TableOf
  <2>c. ASSUME NEW j \in 1..Len(e) PROVE e[j] < Len(w) /\ w[e[j] + 1] = Null
    <3> HIDE DEF v
    <3> QED BY <1>0, <2>2, <2>3
  <2>d. ASSUME NEW i \in 1..Len(w), w[i] = Null PROVE \E j \in 1..Len(e) : e[j] = i - 1
    <3>1. i \notin 1..Len(v)
      BY <2>2, <2>4, <2>d
    <3> HIDE DEF v
    <3>2. i - Len(v) \in 1..Len(e) /\ e[i - Len(v)] = i - 1
      BY <1>0, <2>2, <2>3, <3>1
    <3> QED BY <3>2
  <2>e. ASSUME NEW j \in 1..Len(e), NEW k \in 1..Len(e), e[j] = e[k] PROVE j = k
    <3> HIDE DEF v
    <3> QED BY <1>0, <2>3, <2>e
  <2> QED BY <2>a, <2>b, <2>c, <2>d, <2>e DEF TableOf, w, e
<1> QED BY <1>1, <1>2

\* Steps that leave a loop's table alone, and its sessions.
LEMMA TableKept ==
    ASSUME TypeInv, NEW l \in Loops, TableOf(l, mValues[l], mIds[l]),
           mValues'[l] = mValues[l], mIds'[l] = mIds[l],
           \A s \in Socks :
              \/ /\ life[s] \in {"open", "closing"} <=> life'[s] \in {"open", "closing"}
                 /\ mUserData'[s] = mUserData[s]
              \/ /\ ~ (life[s] \in {"open", "closing"} /\ mUserData[s].loopIndex = l)
                 /\ ~ (life'[s] \in {"open", "closing"} /\ mUserData'[s].loopIndex = l)
    PROVE  TableOf(l, mValues[l], mIds[l])'
<1> DEFINE v == mValues[l]
           d == mIds[l]
<1>0. v \in Seq(Socks \cup {Null})
  BY DEF TypeInv, TypeOK
<1>a. ASSUME NEW s \in Socks, life'[s] \in {"open", "closing"}, mUserData'[s].loopIndex = l
      PROVE  mUserData'[s].index < Len(v) /\ v[mUserData'[s].index + 1] = s
  BY <1>a DEF TableOf, LoopOf, Occupying
<1>b. ASSUME NEW i \in 1..Len(v), v[i] # Null
      PROVE  /\ life'[v[i]] \in {"open", "closing"}
             /\ mUserData'[v[i]].loopIndex = l /\ mUserData'[v[i]].index = i - 1
  <2>1. v[i] \in Socks
    BY <1>0, <1>b
  <2>2. Occupying(v[i]) /\ LoopOf(v[i]) = l /\ mUserData[v[i]].index = i - 1
    BY <1>b DEF TableOf
  <2> QED BY <2>1, <2>2 DEF LoopOf, Occupying
<1>c. /\ \A j \in 1..Len(d) : d[j] < Len(v) /\ v[d[j] + 1] = Null
      /\ \A i \in 1..Len(v) : v[i] = Null => \E j \in 1..Len(d) : d[j] = i - 1
      /\ \A j, k \in 1..Len(d) : d[j] = d[k] => j = k
  BY DEF TableOf
<1>d. mValues'[l] = v /\ mIds'[l] = d
  OBVIOUS
<1> HIDE DEF v, d
<1> QED BY <1>a, <1>b, <1>c, <1>d DEF TableOf, Occupying, LoopOf

\* A session takes the slot the free list named last.
LEMMA TableEnter ==
    ASSUME TypeInv, NEW l \in Loops, NEW s \in Socks, ~ Occupying(s),
           TableOf(l, mValues[l], mIds[l]), IndexesFit',
           mValues' = [mValues EXCEPT ![l] = [GrownValues(l) EXCEPT ![MakeID(l).index + 1] = s]],
           mIds' = [mIds EXCEPT ![l] = ButLast(GrownIds(l))],
           mUserData' = [mUserData EXCEPT ![s] = MakeID(l)],
           life' = [life EXCEPT ![s] = "open"]
    PROVE  TableOf(l, mValues[l], mIds[l])'
<1> USE TcpServiceAssumption
<1> DEFINE v == GrownValues(l)
           d == GrownIds(l)
           w == mValues'[l]
           e == mIds'[l]
           n == Last(d)
<1>1. /\ v \in Seq(Socks \cup {Null}) /\ d \in Seq(Nat) /\ d # <<>> /\ n \in Nat
      /\ MakeID(l) \in SessionIds /\ MakeID(l).index = n % IndexMod /\ MakeID(l).loopIndex = l
  BY GrownType DEF TypeInv, MakeID
<1>2. TableOf(l, v, d)
  BY GrownTable
<1>3. w = [v EXCEPT ![MakeID(l).index + 1] = s] /\ e = ButLast(d)
  BY DEF TypeInv, TypeOK
<1>4. \A t \in Socks \ {s} : mUserData'[t] = mUserData[t] /\ life'[t] = life[t]
  BY DEF TypeInv, TypeOK
<1>5. mUserData'[s] = MakeID(l) /\ life'[s] = "open"
  BY DEF TypeInv, TypeOK
<1>6. IndexMod \in Nat \ {0} /\ Len(w) <= IndexMod
  BY DEF IndexesFit
<1>7. Len(w) = Len(v) /\ \A i \in 1..Len(v) : w[i] = IF i = MakeID(l).index + 1 THEN s ELSE v[i]
  <2> DEFINE T == Socks \cup {Null}
  <2>1. v \in Seq(T) /\ s \in T
    BY <1>1
  <2> HIDE DEF v, w, T
  <2> QED BY <1>3, <2>1, ExceptInSeq
<1> HIDE DEF v, d, w, e
<1>8. n < Len(v) /\ v[n + 1] = Null /\ Len(d) \in 1..Len(d) /\ d[Len(d)] = n
  <2>1. Len(d) \in 1..Len(d) /\ n = d[Len(d)]
    BY <1>1 DEF Last
  <2> HIDE DEF n
  <2> QED BY <1>2, <2>1 DEF TableOf
<1>9. MakeID(l).index = n
  <2>1. n < IndexMod
    BY <1>1, <1>6, <1>7, <1>8
  <2>2. ASSUME NEW x \in Nat, NEW y \in Nat \ {0}, x < y PROVE x % y = x
    BY <2>2
  <2> HIDE DEF n
  <2> QED BY <1>1, <1>6, <2>1, <2>2
<1>10. Len(e) = Len(d) - 1 /\ \A j \in 1..Len(e) : e[j] = d[j]
  <2>1. Len(d) \in Nat \ {0} /\ e = SubSeq(d, 1, Len(d) - 1)
    BY <1>1, <1>3 DEF ButLast
  <2> DEFINE k == Len(d) - 1
  <2>2. k \in Nat /\ \A i \in 1..k : d[i] \in Nat
    BY <1>1, <2>1
  <2> HIDE DEF k
  <2>3. Len(e) = (IF 1 <= k THEN k - 1 + 1 ELSE 0) /\ \A i \in 1..(k - 1 + 1) : e[i] = d[1 + i - 1]
    BY <2>1, <2>2, SubSeqProperties DEF k
  <2>4. Len(e) = k
    BY <2>2, <2>3
  <2>5. ASSUME NEW j \in 1..k PROVE e[j] = d[j]
    <3>1. j \in 1..(k - 1 + 1) /\ 1 + j - 1 = j
      BY <2>2
    <3> QED BY <2>3, <3>1
  <2> QED BY <2>4, <2>5 DEF k
<1> HIDE DEF n
<1>11. Len(v) \in Nat /\ Len(d) \in Nat
  BY <1>1
<1>12. n \in Nat
  BY <1>1
<1>a. ASSUME NEW t \in Socks, life'[t] \in {"open", "closing"}, mUserData'[t].loopIndex = l
      PROVE  mUserData'[t].index < Len(w) /\ w[mUserData'[t].index + 1] = t
  <2>1. CASE t = s
    BY <1>1, <1>5, <1>7, <1>8, <1>9, <1>11, <2>1
  <2>2. CASE t # s
    <3> DEFINE x == mUserData[t].index
    <3>1. Occupying(t) /\ LoopOf(t) = l /\ mUserData'[t] = mUserData[t]
      BY <1>4, <1>a, <2>2 DEF Occupying, LoopOf
    <3>2. x < Len(v) /\ v[x + 1] = t
      BY <1>2, <3>1 DEF TableOf
    <3>3. x \in Nat /\ t # Null
      BY <3>1 DEF TypeInv, SessionInv, SessionIds
    <3>4. x # n
      BY <1>8, <3>2, <3>3
    <3> HIDE DEF x
    <3>5. x + 1 \in 1..Len(v) /\ x + 1 # n + 1 /\ MakeID(l).index + 1 = n + 1
      BY <1>9, <1>11, <1>12, <3>2, <3>3, <3>4
    <3> QED BY <1>7, <3>1, <3>2, <3>5 DEF x
  <2> QED BY <2>1, <2>2
<1>b. ASSUME NEW i \in 1..Len(w), w[i] # Null
      PROVE  /\ life'[w[i]] \in {"open", "closing"}
             /\ mUserData'[w[i]].loopIndex = l /\ mUserData'[w[i]].index = i - 1
  <2>1. CASE i = n + 1
    BY <1>1, <1>5, <1>7, <1>9, <1>11, <2>1 DEF Occupying, LoopOf
  <2>2. CASE i # n + 1
    <3>1. i \in 1..Len(v) /\ w[i] = v[i]
      BY <1>7, <1>9, <2>2
    <3>2. v[i] \in Socks /\ Occupying(v[i]) /\ LoopOf(v[i]) = l /\ mUserData[v[i]].index = i - 1
      BY <1>1, <1>2, <1>b, <3>1 DEF TableOf
    <3>3. v[i] # s
      BY <3>2
    <3> QED BY <1>4, <3>1, <3>2, <3>3 DEF Occupying, LoopOf
  <2> QED BY <2>1, <2>2
<1>c. ASSUME NEW j \in 1..Len(e) PROVE e[j] < Len(w) /\ w[e[j] + 1] = Null
  <2>0. j \in 1..Len(d) /\ j # Len(d) /\ e[j] = d[j]
    BY <1>10, <1>11
  <2>1. j \in 1..Len(d) /\ j # Len(d) /\ e[j] = d[j] /\ d[j] \in Nat
    BY <1>1, <2>0, ElementOfSeq
  <2>2. d[j] < Len(v) /\ v[d[j] + 1] = Null /\ d[j] # n
    BY <1>2, <1>8, <2>1 DEF TableOf
  <2>3. d[j] + 1 \in 1..Len(v) /\ d[j] + 1 # MakeID(l).index + 1
    BY SMTT(40), <1>1, <1>9, <1>11, <2>1, <2>2
  <2> QED BY <1>7, <2>1, <2>2, <2>3
<1>d. ASSUME NEW i \in 1..Len(w), w[i] = Null PROVE \E j \in 1..Len(e) : e[j] = i - 1
  <2>1. i \in 1..Len(v) /\ v[i] = Null /\ i # n + 1
    BY <1>7, <1>9, <1>d
  <2>2. PICK j \in 1..Len(d) : d[j] = i - 1
    BY <1>2, <2>1 DEF TableOf
  <2>3. j # Len(d)
    BY <1>1, <1>8, <2>1, <2>2
  <2> QED BY <1>10, <1>11, <2>2, <2>3
<1>e. ASSUME NEW j \in 1..Len(e), NEW k \in 1..Len(e), e[j] = e[k] PROVE j = k
  <2>1. j \in 1..Len(d) /\ k \in 1..Len(d) /\ d[j] = d[k]
    BY <1>10, <1>11, <1>e
  <2> QED BY <1>2, <2>1 DEF TableOf
<1> QED BY <1>a, <1>b, <1>c, <1>d, <1>e DEF TableOf, w, e, Occupying, LoopOf

\* The slot of a closed session goes back to the free list.
LEMMA TableClose ==
    ASSUME TypeInv, NEW l \in Loops, procDataSocketClose(l), TableOf(l, mValues[l], mIds[l])
    PROVE  TableOf(l, mValues[l], mIds[l])'
<1> USE TcpServiceAssumption
<1> DEFINE s == Head(after[l])
           x == mUserData[s].index
           v == mValues[l]
           d == mIds[l]
           w == mValues'[l]
           e == mIds'[l]
<1>1. /\ s \in Socks /\ life[s] = "closing" /\ LoopOf(s) = l /\ mUserData[s] \in SessionIds
      /\ life' = [life EXCEPT ![s] = "deleted"]
      /\ mValues' = [mValues EXCEPT ![l][x + 1] = Null]
      /\ mIds' = [mIds EXCEPT ![l] = Append(@, x)]
  BY ProcCloseEffect
<1> HIDE DEF s
<1>2. x \in Nat /\ v \in Seq(Socks \cup {Null}) /\ d \in Seq(Nat)
  BY <1>1 DEF SessionIds, TypeInv, TypeOK
<1>3. x < Len(v) /\ v[x + 1] = s
  BY <1>1 DEF TableOf, Occupying
<1>4. w = [v EXCEPT ![x + 1] = Null] /\ e = Append(d, x)
  BY <1>1 DEF TypeInv, TypeOK
<1>5. \A t \in Socks : life'[t] = IF t = s THEN "deleted" ELSE life[t]
  BY <1>1 DEF TypeInv, TypeOK
<1>6. mUserData' = mUserData
  BY DEF procDataSocketClose
<1>t. TableOf(l, v, d)
  OBVIOUS
<1> HIDE DEF v, d, w, e
<1>7. Len(w) = Len(v) /\ \A i \in 1..Len(v) : w[i] = IF i = x + 1 THEN Null ELSE v[i]
  <2> DEFINE T == Socks \cup {Null}
  <2>1. v \in Seq(T) /\ Null \in T
    BY <1>2
  <2> HIDE DEF T, x
  <2> QED BY <1>4, <2>1, ExceptInSeq
<1>8. /\ Len(e) = Len(d) + 1 /\ \A j \in 1..Len(d) : e[j] = d[j] /\ d[j] \in Nat
      /\ e[Len(d) + 1] = x
  BY <1>2, <1>4, AppendProperties
<1>9. Len(v) \in Nat /\ Len(d) \in Nat
  BY <1>2
<1>a. ASSUME NEW t \in Socks, life'[t] \in {"open", "closing"}, mUserData'[t].loopIndex = l
      PROVE  mUserData'[t].index < Len(w) /\ w[mUserData'[t].index + 1] = t
  <2> DEFINE y == mUserData[t].index
  <2>1. t # s /\ Occupying(t) /\ LoopOf(t) = l /\ mUserData'[t] = mUserData[t]
    BY <1>5, <1>6, <1>a DEF Occupying, LoopOf
  <2>2. y < Len(v) /\ v[y + 1] = t /\ y \in Nat
    BY <1>t, <2>1 DEF TableOf, TypeInv, SessionInv, SessionIds
  <2> HIDE DEF x, y
  <2>3. y # x
    BY <1>3, <2>1, <2>2
  <2>4. y + 1 \in 1..Len(v) /\ y + 1 # x + 1
    BY <1>2, <1>9, <2>2, <2>3
  <2> QED BY <1>7, <2>1, <2>2, <2>4 DEF y
<1>b. ASSUME NEW i \in 1..Len(w), w[i] # Null
      PROVE  /\ life'[w[i]] \in {"open", "closing"}
             /\ mUserData'[w[i]].loopIndex = l /\ mUserData'[w[i]].index = i - 1
  <2>1. i \in 1..Len(v) /\ w[i] = v[i] /\ i # x + 1 /\ v[i] # Null
    BY <1>7, <1>b
  <2>2. v[i] \in Socks /\ Occupying(v[i]) /\ LoopOf(v[i]) = l /\ mUserData[v[i]].index = i - 1
    BY <1>2, <1>t, <2>1 DEF TableOf
  <2>3. v[i] # s
    <3>1. i - 1 # x
      BY <1>2, <2>1
    <3> QED BY <2>2, <3>1
  <2> QED BY <1>5, <1>6, <2>1, <2>2, <2>3 DEF Occupying, LoopOf
<1> HIDE DEF x
<1>c. ASSUME NEW j \in 1..Len(e) PROVE e[j] < Len(w) /\ w[e[j] + 1] = Null
  <2>1. CASE j = Len(d) + 1
    BY <1>2, <1>3, <1>7, <1>8, <1>9, <2>1
  <2>2. CASE j \in 1..Len(d)
    <3>1. e[j] = d[j] /\ d[j] \in Nat /\ d[j] < Len(v) /\ v[d[j] + 1] = Null
      BY <1>8, <1>t, <2>2 DEF TableOf
    <3>2. d[j] + 1 \in 1..Len(v)
      BY <1>9, <3>1
    <3> QED BY <1>7, <3>1, <3>2
  <2> QED BY <1>8, <1>9, <2>1, <2>2
<1>d. ASSUME NEW i \in 1..Len(w), w[i] = Null PROVE \E j \in 1..Len(e) : e[j] = i - 1
  <2>1. CASE i = x + 1
    <3>1. Len(d) + 1 \in 1..Len(e) /\ e[Len(d) + 1] = i - 1
      BY <1>2, <1>8, <1>9, <2>1
    <3> QED BY <3>1
  <2>2. CASE i # x + 1
    <3>1. i \in 1..Len(v) /\ v[i] = Null
      BY <1>7, <1>d, <2>2
    <3>2. PICK j \in 1..Len(d) : d[j] = i - 1
      BY <1>t, <3>1 DEF TableOf
    <3>3. j \in 1..Len(e) /\ e[j] = i - 1
      BY <1>8, <1>9, <3>2
    <3> QED BY <3>3
  <2> QED BY <2>1, <2>2
<1>e. ASSUME NEW j \in 1..Len(e), NEW k \in 1..Len(e), e[j] = e[k] PROVE j = k
  <2>1. \A i \in 1..Len(d) : d[i] # x
    <3> SUFFICES ASSUME NEW i \in 1..Len(d), d[i] = x PROVE FALSE
      OBVIOUS
    <3>1. v[x + 1] = Null
      BY <1>t DEF TableOf
    <3> QED BY <1>1, <1>3, <3>1
  <2>2. \A i \in 1..Len(e) : i \in 1..Len(d) \/ i = Len(d) + 1
    BY <1>8, <1>9
  <2>3. CASE j \in 1..Len(d) /\ k \in 1..Len(d)
    BY <1>8, <1>e, <1>t, <2>3 DEF TableOf
  <2> QED BY <1>8, <1>e, <2>1, <2>2, <2>3
<1> QED BY <1>a, <1>b, <1>c, <1>d, <1>e DEF TableOf, w, e, Occupying, LoopOf

\* Every step keeps the tables, as long as the slots fit into an id.
LEMMA TablesStep == TypeInv /\ TablesInv /\ IndexesFit' /\ [Next]_vars => TablesInv'
<1> SUFFICES ASSUME TypeInv, TablesInv, IndexesFit', [Next]_vars, HasLoops',
                    NEW l \in Loops
             PROVE  TableOf(l, mValues[l], mIds[l])'
  BY DEF TablesInv
<1> USE TcpServiceAssumption DEF tableVars
<1>0. TypeOK /\ SessionInv /\ AfterInv /\ EnterInv
  BY DEF TypeInv
<1>a. life \in [Socks -> Lives]
  BY <1>0 DEF TypeOK, Lives
<1>b. mUserData \in [Socks -> SessionIds \cup {Null}]
  BY <1>0 DEF TypeOK
<1>c. mValues \in [Loops -> Seq(Socks \cup {Null})] /\ mIds \in [Loops -> Seq(Nat)]
  BY <1>0 DEF TypeOK
\* No session gets or loses a slot.
<1>d. ASSUME UNCHANGED <<mValues, mIds, mUserData>>, HasLoops,
             \A s \in Socks : life[s] \in {"open", "closing"} <=> life'[s] \in {"open", "closing"}
      PROVE  TableOf(l, mValues[l], mIds[l])'
  BY <1>d, TableKept DEF TablesInv
<1>1. CASE startWorkerThread
  <2>1. \A s \in Socks : life'[s] \notin {"open", "closing"}
    BY <1>0, <1>1 DEF SessionInv, Occupying, HasLoops, startWorkerThread
  <2>2. mValues'[l] = <<>> /\ mIds'[l] = <<>>
    BY <1>1 DEF startWorkerThread
  <2>3. Len(mValues'[l]) = 0 /\ Len(mIds'[l]) = 0
    BY <2>2
  <2> QED BY <2>1, <2>3 DEF TableOf, Occupying
<1>2. CASE stopWorkerThread
  BY <1>d, <1>2 DEF stopWorkerThread, HasLoops
<1>3. CASE closeWorkerThread
  BY <1>3 DEF closeWorkerThread, HasLoops
\* A session that was not open or closing enters loop m.
<1>e. ASSUME NEW m \in Loops, NEW s \in Socks, life[s] \in {"none", "queued"},
             onEnterEventLoop(m, s), HasLoops
      PROVE  TableOf(l, mValues[l], mIds[l])'
  <2>1. CASE life' = [life EXCEPT ![s] = "deleted"] /\ UNCHANGED <<tableVars, mUserData, known>>
    <3>1. \A t \in Socks : life[t] \in {"open", "closing"} <=> life'[t] \in {"open", "closing"}
      BY <1>a, <1>e, <2>1
    <3> QED BY <1>d, <1>e, <2>1, <3>1
  <2>2. CASE /\ mValues' = [mValues EXCEPT ![m] = [GrownValues(m) EXCEPT ![MakeID(m).index + 1] = s]]
             /\ mIds' = [mIds EXCEPT ![m] = ButLast(GrownIds(m))]
             /\ mIncIds' = [mIncIds EXCEPT ![m] = @ + 1]
             /\ mUserData' = [mUserData EXCEPT ![s] = MakeID(m)]
             /\ known' = known \cup {[id |-> MakeID(m), sock |-> s]}
             /\ life' = [life EXCEPT ![s] = "open"]
    <3>1. CASE l = m
      <4>1. ~ Occupying(s)
        BY <1>e DEF Occupying
      <4> QED BY <1>e, <2>2, <3>1, <4>1, TableEnter DEF TablesInv
    <3>2. CASE l # m
      <4>1. mValues'[l] = mValues[l] /\ mIds'[l] = mIds[l]
        BY <1>c, <2>2, <3>2
      <4>2. MakeID(m).loopIndex = m
        BY DEF MakeID
      <4>3. ASSUME NEW t \in Socks
            PROVE  \/ /\ life[t] \in {"open", "closing"} <=> life'[t] \in {"open", "closing"}
                      /\ mUserData'[t] = mUserData[t]
                   \/ /\ ~ (life[t] \in {"open", "closing"} /\ mUserData[t].loopIndex = l)
                      /\ ~ (life'[t] \in {"open", "closing"} /\ mUserData'[t].loopIndex = l)
        <5>1. CASE t = s
          <6>1. mUserData'[t] = MakeID(m) /\ life[t] \notin {"open", "closing"}
            BY <1>b, <1>e, <2>2, <5>1
          <6> QED BY <3>2, <4>2, <6>1
        <5>2. CASE t # s
          BY <1>a, <1>b, <2>2, <5>2
        <5> QED BY <5>1, <5>2
      <4> QED BY <1>e, <4>1, <4>3, TableKept DEF TablesInv
    <3> QED BY <3>1, <3>2
  <2> QED BY <1>e, <2>1, <2>2 DEF onEnterEventLoop
<1>4. ASSUME NEW c \in Callers \cup Loops, NEW s \in Socks, addDataSocket(c, s)
      PROVE  TableOf(l, mValues[l], mIds[l])'
  <2>1. life[s] = "none" /\ HasLoops
    BY <1>4 DEF addDataSocket
  <2>2. PICK m \in Loops :
          IF c = m
          THEN onEnterEventLoop(m, s) /\ UNCHANGED async
          ELSE /\ async' = [async EXCEPT ![m] = Append(@, [enter |-> s])]
               /\ life' = [life EXCEPT ![s] = "queued"]
               /\ UNCHANGED <<tableVars, mUserData, known>>
    BY <1>4 DEF addDataSocket
  <2>3. CASE c = m
    BY <1>e, <2>1, <2>2, <2>3
  <2>4. CASE c # m
    <3>1. \A t \in Socks : life[t] \in {"open", "closing"} <=> life'[t] \in {"open", "closing"}
      BY <1>a, <2>1, <2>2, <2>4
    <3> QED BY <1>d, <2>1, <2>2, <2>4, <3>1
  <2> QED BY <2>3, <2>4
<1>5. ASSUME NEW c \in Callers \cup Loops, NEW s \in Socks, addDataSocketFails(c, s)
      PROVE  TableOf(l, mValues[l], mIds[l])'
  <2>1. \A t \in Socks : life[t] \in {"open", "closing"} <=> life'[t] \in {"open", "closing"}
    BY <1>a, <1>5 DEF addDataSocketFails
  <2> QED BY <1>d, <1>5, <2>1 DEF addDataSocketFails, HasLoops
<1>f. ASSUME UNCHANGED <<life, after>> \/ \E s \in Socks : onClose(s)
      PROVE  \A s \in Socks : life[s] \in {"open", "closing"} <=> life'[s] \in {"open", "closing"}
  <2>1. CASE UNCHANGED <<life, after>>
    BY <2>1
  <2>2. ASSUME NEW s \in Socks, onClose(s)
        PROVE  \A t \in Socks : life[t] \in {"open", "closing"} <=> life'[t] \in {"open", "closing"}
    BY <1>0, <2>2, CloseEffect
  <2> QED BY <1>f, <2>1, <2>2
<1>6. ASSUME NEW c \in Callers \cup Loops, NEW kind \in Kinds, NEW k \in known,
             postSessionAsyncProc(c, kind, k)
      PROVE  TableOf(l, mValues[l], mIds[l])'
  <2>1. k \in [id : SessionIds, sock : Socks] /\ ops + 1 \in Nat
    BY <1>0 DEF TypeOK
  <2>2. <<request(c, kind, k)>> \in Seq(Requests)
    BY <2>1 DEF request, Requests
  <2>3. UNCHANGED <<life, after>> \/ \E s \in Socks : onClose(s)
    BY <1>0, <1>6, <2>2, RunEffect DEF postSessionAsyncProc
  <2> QED BY <1>6, <1>d, <1>f, <2>3 DEF postSessionAsyncProc
<1>7. ASSUME NEW k \in known, cacheSend(k) PROVE TableOf(l, mValues[l], mIds[l])'
  BY <1>7, <1>d DEF cacheSend
<1>8. CASE flushCachePackectList
  BY <1>8, <1>d DEF flushCachePackectList
<1>9. ASSUME NEW m \in Loops, procDataSocketClose(m) PROVE TableOf(l, mValues[l], mIds[l])'
  <2>0. HasLoops
    BY <1>9 DEF procDataSocketClose, HasLoops
  <2>1. CASE m = l
    BY <1>9, <2>0, <2>1, TableClose DEF TablesInv
  <2>2. CASE m # l
    <3> DEFINE s == Head(after[m])
    <3>1. /\ s \in Socks /\ LoopOf(s) = m
          /\ life' = [life EXCEPT ![s] = "deleted"]
          /\ mValues' = [mValues EXCEPT ![m][mUserData[s].index + 1] = Null]
          /\ mIds' = [mIds EXCEPT ![m] = Append(@, mUserData[s].index)]
      BY <1>9, ProcCloseEffect
    <3> HIDE DEF s
    <3>2. mUserData' = mUserData
      BY <1>9 DEF procDataSocketClose
    <3>3. mValues'[l] = mValues[l] /\ mIds'[l] = mIds[l]
      BY <1>c, <2>2, <3>1
    <3>4. \A t \in Socks \ {s} : life'[t] = life[t]
      BY <1>a, <3>1
    <3>5. mUserData[s].loopIndex # l
      BY <2>2, <3>1 DEF LoopOf
    <3> QED BY <2>0, <3>2, <3>3, <3>4, <3>5, TableKept DEF TablesInv
  <2> QED BY <2>1, <2>2
<1>10. ASSUME NEW m \in Loops, runAsyncProc(m) PROVE TableOf(l, mValues[l], mIds[l])'
  <2> DEFINE proc == Head(async[m])
  <2>1. HasLoops /\ async[m] # <<>>
    BY <1>10 DEF runAsyncProc, HasLoops
  <2>2. proc \in AsyncProcs /\ proc = async[m][1] /\ 1 \in 1..Len(async[m])
    BY SMTT(40), <1>0, <2>1 DEF TypeOK
  <2>3. CASE /\ "enter" \in DOMAIN proc
             /\ onEnterEventLoop(m, proc.enter)
             /\ UNCHANGED <<after, reached>>
    <3>1. proc.enter \in Socks /\ life[proc.enter] = "queued"
      BY <1>0, <2>2, <2>3 DEF AsyncProcs, EnterInv, IsEnter
    <3> QED BY <1>e, <2>1, <2>3, <3>1
  <2>4. CASE /\ "list" \in DOMAIN proc
             /\ Run(proc.list)
             /\ UNCHANGED <<tableVars, mUserData, known>>
    <3>1. proc.list \in Seq(Requests)
      BY <2>2, <2>4 DEF AsyncProcs
    <3> QED BY <1>0, <1>d, <1>f, <2>1, <2>4, <3>1, RunEffect
  <2> QED BY <1>10, <2>3, <2>4 DEF runAsyncProc
<1>11. ASSUME NEW s \in Socks, connectionCloses(s) PROVE TableOf(l, mValues[l], mIds[l])'
  BY <1>d, <1>f, <1>11 DEF connectionCloses, HasLoops
<1>12. CASE UNCHANGED vars
  BY <1>12, <1>d DEF vars, HasLoops
<1> QED BY <1>1, <1>2, <1>3, <1>4, <1>5, <1>6, <1>7, <1>8, <1>9, <1>10, <1>11, <1>12
        DEF Next, Lifecycle, Call, Worker

\* TablesInv is more than TablesSound says.
LEMMA TablesImply == TypeInv /\ TablesInv => TablesSound
<1> SUFFICES ASSUME TypeInv, TablesInv, HasLoops, NEW l \in Loops
             PROVE  LET slots == 0..(Len(mValues[l]) - 1) IN
                    /\ \A s \in Socks : Occupying(s) /\ LoopOf(s) = l => Resolve(mUserData[s]) = s
                    /\ \A i \in slots : Get(l, i) # Null => Occupying(Get(l, i))
                    /\ {mIds[l][j] : j \in 1..Len(mIds[l])} = {i \in slots : Get(l, i) = Null}
                    /\ Len(mIds[l]) = Cardinality({i \in slots : Get(l, i) = Null})
  BY DEF TablesSound
<1> USE TcpServiceAssumption
<1> DEFINE v == mValues[l]
           d == mIds[l]
           slots == 0..(Len(v) - 1)
           free == {i \in slots : Get(l, i) = Null}
<1>1. v \in Seq(Socks \cup {Null}) /\ d \in Seq(Nat) /\ Len(v) \in Nat /\ Len(d) \in Nat
  BY DEF TypeInv, TypeOK
<1>2. TableOf(l, v, d)
  BY DEF TablesInv
<1>3. \A i \in slots : Get(l, i) = v[i + 1] /\ i + 1 \in 1..Len(v)
  BY <1>1 DEF Get
<1>4. ASSUME NEW s \in Socks, Occupying(s), LoopOf(s) = l PROVE Resolve(mUserData[s]) = s
  <2>1. mUserData[s].index \in Nat /\ mUserData[s].loopIndex = l
    BY <1>4 DEF TypeInv, SessionInv, SessionIds, LoopOf
  <2>2. mUserData[s].index < Len(v) /\ v[mUserData[s].index + 1] = s
    BY <1>2, <1>4 DEF TableOf
  <2>3. Get(mUserData[s].loopIndex, mUserData[s].index) = s
    BY <2>1, <2>2 DEF Get
  <2> QED BY <2>3 DEF Resolve
<1>5. ASSUME NEW i \in slots, Get(l, i) # Null PROVE Occupying(Get(l, i))
  BY <1>2, <1>3, <1>5 DEF TableOf
<1> HIDE DEF v, d
<1>6. ASSUME NEW j \in 1..Len(d) PROVE d[j] \in free
  <2>1. d[j] \in Nat /\ d[j] < Len(v) /\ v[d[j] + 1] = Null
    BY <1>1, <1>2 DEF TableOf
  <2>2. d[j] \in slots
    BY <1>1, <2>1
  <2> QED BY <1>3, <2>1, <2>2
<1>7. ASSUME NEW i \in free PROVE \E j \in 1..Len(d) : d[j] = i
  <2>1. i + 1 \in 1..Len(v) /\ v[i + 1] = Null /\ (i + 1) - 1 = i
    BY <1>3
  <2> QED BY <1>2, <2>1 DEF TableOf
<1> HIDE DEF free
<1>8. {d[j] : j \in 1..Len(d)} = free
  BY <1>6, <1>7
<1>9. Len(d) = Cardinality(free)
  <2>1. d \in [1..Len(d) -> free]
    BY <1>1, <1>6
  <2>2. \A j, k \in 1..Len(d) : d[j] = d[k] => j = k
    BY <1>2 DEF TableOf
  <2>3. d \in Bijection(1..Len(d), free)
    BY <1>7, <2>1, <2>2 DEF Bijection, Injection, Surjection, IsInjective
  <2>4. ExistsBijection(1..Len(d), free)
    BY <2>3 DEF ExistsBijection
  <2>5. IsFiniteSet(1..Len(d)) /\ Cardinality(1..Len(d)) = Len(d)
    <3> DEFINE n == Len(d)
    <3>1. n \in Nat
      BY <1>1
    <3> HIDE DEF n
    <3>2. IsFiniteSet(1..n) /\ Cardinality(1..n) = IF 1 > n THEN 0 ELSE n - 1 + 1
      BY <3>1, FS_Interval
    <3> QED BY <3>1, <3>2 DEF n
  <2> QED BY <2>4, <2>5, FS_Bijection
<1> QED BY <1>4, <1>5, <1>8, <1>9 DEF v, d, free

(***************************************************************************)
(* TypeIDS and the sessions agree at any number of sessions, as long as no *)
(* loop has more slots than SessionId.index can name.                      *)
(***************************************************************************)
THEOREM TablesCorrect == Spec /\ []IndexesFit => []TablesSound
<1>1. Init => TablesInv
  BY DEF Init, TablesInv, HasLoops
<1>2. TypeInv /\ TablesInv /\ IndexesFit' /\ [Next]_vars => TablesInv'
  BY TablesStep
<1>3. TypeInv /\ TablesInv => TablesSound
  BY TablesImply
<1> QED BY <1>1, <1>2, <1>3, TypeInvariant, PTL DEF Spec
-----------------------------------------------------------------------------
(* The operations on their way, and the order they are in. *)

\* A session is issued one id, when it enters.
KnownInv ==
    /\ \A k \in known : life[k.sock] \notin {"none", "queued"}
    /\ \A j, k \in known : j.sock = k.sock => j = k

IsList(proc) == "list" \in DOMAIN proc

\* What waits for a loop: the lists in its lane q and, behind them, its cached
\* packets c.
LaneOf(q, c) ==
    [p \in 1..(Len(q) + 1) |-> IF p = Len(q) + 1 THEN c
                               ELSE IF IsList(q[p]) THEN q[p].list ELSE <<>>]

\* Operation r is meant for the session its id was issued to, by the ids k.
MeantIn(k, r) == [id |-> r.id, sock |-> r.for] \in k

\* a and b are operations one thread asked for in this order, if they are of
\* the same kind and for the same session.
InOrder(a, b) == a.by = b.by /\ a.kind = b.kind /\ a.for = b.for => a.n < b.n

\* The operations of lane L wait in the loop of their session, posted by other
\* threads, in order and behind the ones that arrived, h.
LaneMeant(l, L, k, o) ==
    \A p \in 1..Len(L) : \A j \in 1..Len(L[p]) :
        LET r == L[p][j] IN
        /\ MeantIn(k, r) /\ r.id.loopIndex = l /\ r.by # l /\ r.n <= o
        /\ p = Len(L) => r.kind = "cacheSend"

LaneOrdered(L) ==
    \A p, q \in 1..Len(L) : \A i \in 1..Len(L[p]), j \in 1..Len(L[q]) :
        p < q \/ (p = q /\ i < j) => InOrder(L[p][i], L[q][j])

LaneBehind(L, h) ==
    \A i \in 1..Len(h), p \in 1..Len(L) : \A j \in 1..Len(L[p]) : InOrder(h[i].req, L[p][j])

LaneOK(l, L, h, k, o) == LaneMeant(l, L, k, o) /\ LaneOrdered(L) /\ LaneBehind(L, h)

ReachedOK(h, k, o) ==
    /\ \A i \in 1..Len(h) : MeantIn(k, h[i].req) /\ h[i].req.n <= o
    /\ \A i, j \in 1..Len(h) : i < j => InOrder(h[i].req, h[j].req)

FlowInv ==
    /\ ReachedOK(reached, known, ops)
    /\ \A l \in Loops : LaneOK(l, LaneOf(async[l], mCachePacketList[l]), reached, known, ops)

\* Sessions are issued an id once.
LEMMA KnownStep == TypeInv /\ KnownInv /\ [Next]_vars => KnownInv' /\ known \subseteq known'
<1> SUFFICES ASSUME TypeInv, KnownInv, [Next]_vars PROVE KnownInv' /\ known \subseteq known'
  OBVIOUS
<1> USE TcpServiceAssumption DEF tableVars
<1>0. TypeOK /\ SessionInv /\ AfterInv /\ EnterInv
  BY DEF TypeInv
<1>a. life \in [Socks -> Lives] /\ known \subseteq [id : SessionIds, sock : Socks]
  BY <1>0 DEF TypeOK, Lives
\* No id is issued.
<1>b. ASSUME UNCHANGED known,
             \A s \in Socks : life[s] \notin {"none", "queued"} => life'[s] \notin {"none", "queued"}
      PROVE  KnownInv' /\ known \subseteq known'
  BY <1>a, <1>b DEF KnownInv
<1>c. ASSUME UNCHANGED <<life, after>> \/ \E s \in Socks : onClose(s), UNCHANGED known
      PROVE  KnownInv' /\ known \subseteq known'
  <2>1. ASSUME NEW s \in Socks, onClose(s)
        PROVE  \A t \in Socks : life[t] \notin {"none", "queued"} => life'[t] \notin {"none", "queued"}
    BY <1>0, <2>1, CloseEffect
  <2> QED BY <1>b, <1>c, <2>1
<1>d. ASSUME NEW m \in Loops, NEW s \in Socks, life[s] \in {"none", "queued"}, onEnterEventLoop(m, s)
      PROVE  KnownInv' /\ known \subseteq known'
  <2>1. \A k \in known : k.sock # s /\ k.sock \in Socks
    BY <1>a, <1>d DEF KnownInv
  <2>2. known' = known \/ known' = known \cup {[id |-> MakeID(m), sock |-> s]}
    BY <1>d DEF onEnterEventLoop
  <2>3. /\ \A t \in Socks \ {s} : life'[t] = life[t]
        /\ life'[s] \in {"open", "deleted"}
    BY <1>0, <1>d, EnterEffect
  <2> QED BY <2>1, <2>2, <2>3 DEF KnownInv
<1>1. CASE startWorkerThread
  BY <1>b, <1>1 DEF startWorkerThread
<1>2. CASE stopWorkerThread
  BY <1>b, <1>2 DEF stopWorkerThread
<1>3. CASE closeWorkerThread
  BY <1>b, <1>3 DEF closeWorkerThread
<1>4. ASSUME NEW c \in Callers \cup Loops, NEW s \in Socks, addDataSocket(c, s)
      PROVE  KnownInv' /\ known \subseteq known'
  <2>1. life[s] = "none"
    BY <1>4 DEF addDataSocket
  <2>2. PICK m \in Loops :
          IF c = m
          THEN onEnterEventLoop(m, s) /\ UNCHANGED async
          ELSE /\ async' = [async EXCEPT ![m] = Append(@, [enter |-> s])]
               /\ life' = [life EXCEPT ![s] = "queued"]
               /\ UNCHANGED <<tableVars, mUserData, known>>
    BY <1>4 DEF addDataSocket
  <2>3. CASE c = m
    BY <1>d, <2>1, <2>2, <2>3
  <2>4. CASE c # m
    <3>1. \A t \in Socks : life[t] \notin {"none", "queued"} => life'[t] \notin {"none", "queued"}
      BY <1>a, <2>1, <2>2, <2>4
    <3> QED BY <1>b, <2>2, <2>4, <3>1
  <2> QED BY <2>3, <2>4
<1>5. ASSUME NEW c \in Callers \cup Loops, NEW s \in Socks, addDataSocketFails(c, s)
      PROVE  KnownInv' /\ known \subseteq known'
  <2>1. \A t \in Socks : life[t] \notin {"none", "queued"} => life'[t] \notin {"none", "queued"}
    BY <1>a, <1>5 DEF addDataSocketFails
  <2> QED BY <1>b, <1>5, <2>1 DEF addDataSocketFails
<1>6. ASSUME NEW c \in Callers \cup Loops, NEW kind \in Kinds, NEW k \in known,
             postSessionAsyncProc(c, kind, k)
      PROVE  KnownInv' /\ known \subseteq known'
  <2>1. k \in [id : SessionIds, sock : Socks] /\ ops + 1 \in Nat
    BY <1>0 DEF TypeOK
  <2>2. <<request(c, kind, k)>> \in Seq(Requests)
    BY <2>1 DEF request, Requests
  <2>3. UNCHANGED <<life, after>> \/ \E s \in Socks : onClose(s)
    BY <1>0, <1>6, <2>2, RunEffect DEF postSessionAsyncProc
  <2> QED BY <1>6, <1>c, <2>3 DEF postSessionAsyncProc
<1>7. ASSUME NEW k \in known, cacheSend(k) PROVE KnownInv' /\ known \subseteq known'
  BY <1>7, <1>b DEF cacheSend
<1>8. CASE flushCachePackectList
  BY <1>8, <1>b DEF flushCachePackectList
<1>9. ASSUME NEW m \in Loops, procDataSocketClose(m) PROVE KnownInv' /\ known \subseteq known'
  <2>1. \A t \in Socks : life[t] \notin {"none", "queued"} => life'[t] \notin {"none", "queued"}
    BY <1>a, <1>9, ProcCloseEffect
  <2> QED BY <1>9, <1>b, <2>1 DEF procDataSocketClose
<1>10. ASSUME NEW m \in Loops, runAsyncProc(m) PROVE KnownInv' /\ known \subseteq known'
  <2> DEFINE proc == Head(async[m])
  <2>1. async[m] # <<>>
    BY <1>10 DEF runAsyncProc
  <2>2. proc \in AsyncProcs /\ proc = async[m][1] /\ 1 \in 1..Len(async[m])
    BY <1>0, <2>1 DEF TypeOK
  <2>3. CASE /\ "enter" \in DOMAIN proc
             /\ onEnterEventLoop(m, proc.enter)
             /\ UNCHANGED <<after, reached>>
    <3>1. proc.enter \in Socks /\ life[proc.enter] = "queued"
      BY <1>0, <2>2, <2>3 DEF AsyncProcs, EnterInv, IsEnter
    <3> QED BY <1>d, <2>1, <2>3, <3>1
  <2>4. CASE /\ "list" \in DOMAIN proc
             /\ Run(proc.list)
             /\ UNCHANGED <<tableVars, mUserData, known>>
    <3>1. proc.list \in Seq(Requests)
      BY <2>2, <2>4 DEF AsyncProcs
    <3> QED BY <1>0, <1>c, <2>1, <2>4, <3>1, RunEffect
  <2> QED BY <1>10, <2>3, <2>4 DEF runAsyncProc
<1>11. ASSUME NEW s \in Socks, connectionCloses(s) PROVE KnownInv' /\ known \subseteq known'
  BY <1>c, <1>11 DEF connectionCloses
<1>12. CASE UNCHANGED vars
  BY <1>12, <1>b DEF vars
<1> QED BY <1>1, <1>2, <1>3, <1>4, <1>5, <1>6, <1>7, <1>8, <1>9, <1>10, <1>11, <1>12
        DEF Next, Lifecycle, Call, Worker

\* What waits in lane M, other than the operation r at the places N, waits in
\* lane L, at place at; r is behind those of its kind.
LaneMoves(L, M, at, N, r) ==
    /\ \A p \in 1..Len(M) : \A j \in 1..Len(M[p]) : <<p, j>> \notin N =>
         /\ at[p] \in 1..Len(L) /\ j \in 1..Len(L[at[p]]) /\ M[p][j] = L[at[p]][j]
         /\ p = Len(M) => at[p] = Len(L)
    /\ \A p, q \in 1..Len(M) : \A i \in 1..Len(M[p]), j \in 1..Len(M[q]) :
         <<p, i>> \notin N /\ <<q, j>> \notin N /\ p < q => at[p] < at[q]
    /\ \A p \in 1..Len(M) : \A j \in 1..Len(M[p]) : <<p, j>> \in N =>
         M[p][j] = r /\ (p = Len(M) => r.kind = "cacheSend")
    /\ \A p, q \in 1..Len(M) : \A i \in 1..Len(M[p]), j \in 1..Len(M[q]) :
         <<p, i>> \in N /\ (p < q \/ (p = q /\ i < j)) => <<q, j>> \notin N /\ M[q][j].kind # r.kind

\* A lane that moves up, and gets new operations at its end, stays in order.
LEMMA LaneMoved ==
    ASSUME NEW l \in Loops, NEW L \in Seq(Seq(Requests)), NEW M \in Seq(Seq(Requests)),
           NEW h \in Seq([req : Requests, sock : Socks]), NEW k, NEW k2, k \subseteq k2,
           NEW o \in Nat, NEW o2 \in Nat, o <= o2,
           LaneOK(l, L, h, k, o), ReachedOK(h, k, o),
           NEW at \in [Nat -> Nat], NEW N, NEW r,
           N # {} => r \in Requests /\ MeantIn(k2, r) /\ r.id.loopIndex = l /\ r.by # l /\ o < r.n /\ r.n <= o2,
           LaneMoves(L, M, at, N, r)
    PROVE  LaneOK(l, M, h, k2, o2)
<1>0. LaneMeant(l, L, k, o) /\ LaneOrdered(L) /\ LaneBehind(L, h)
  BY DEF LaneOK
<1>a. ASSUME NEW T \in Seq(Seq(Requests)), NEW p \in 1..Len(T), NEW j \in 1..Len(T[p])
      PROVE  T[p][j] \in Requests /\ T[p][j].n \in Nat
  <2>1. T[p] \in Seq(Requests)
    BY ElementOfSeq
  <2>2. T[p][j] \in Requests
    BY <2>1, ElementOfSeq
  <2> QED BY <2>2 DEF Requests
<1>b. N # {} => r.n \in Nat
  BY DEF Requests
<1>c. ASSUME NEW i \in 1..Len(h) PROVE h[i].req.n \in Nat /\ h[i].req.n <= o
  <2>1. h[i] \in [req : Requests, sock : Socks]
    BY ElementOfSeq
  <2>2. h[i].req \in Requests
    BY <2>1
  <2>3. h[i].req.n \in Nat
    BY <2>2 DEF Requests
  <2> QED BY <2>3 DEF ReachedOK
\* Each operation is an earlier one or the new one.
<1>d. ASSUME NEW p \in 1..Len(M), NEW j \in 1..Len(M[p]), <<p, j>> \notin N
      PROVE  /\ at[p] \in 1..Len(L) /\ j \in 1..Len(L[at[p]]) /\ M[p][j] = L[at[p]][j]
             /\ p = Len(M) => at[p] = Len(L)
             /\ M[p][j].n \in Nat /\ M[p][j].n <= o
  <2>1. /\ at[p] \in 1..Len(L) /\ j \in 1..Len(L[at[p]]) /\ M[p][j] = L[at[p]][j]
        /\ p = Len(M) => at[p] = Len(L)
    BY <1>d DEF LaneMoves
  <2>2. M[p][j].n \in Nat
    BY <1>a
  <2>3. L[at[p]][j].n <= o
    BY <1>0, <2>1 DEF LaneMeant
  <2> QED BY <2>1, <2>2, <2>3
<1>e. ASSUME NEW p \in 1..Len(M), NEW j \in 1..Len(M[p]), <<p, j>> \in N
      PROVE  /\ M[p][j] = r /\ (p = Len(M) => r.kind = "cacheSend")
             /\ MeantIn(k2, r) /\ r.id.loopIndex = l /\ r.by # l /\ o < r.n /\ r.n <= o2
             /\ r.n \in Nat
  <2>1. N # {}
    BY <1>e
  <2> QED BY <1>b, <1>e, <2>1 DEF LaneMoves
<1>1. LaneMeant(l, M, k2, o2)
  <2> SUFFICES ASSUME NEW p \in 1..Len(M), NEW j \in 1..Len(M[p])
               PROVE  /\ MeantIn(k2, M[p][j]) /\ M[p][j].id.loopIndex = l /\ M[p][j].by # l
                      /\ M[p][j].n <= o2 /\ (p = Len(M) => M[p][j].kind = "cacheSend")
    BY DEF LaneMeant
  <2>1. CASE <<p, j>> \in N
    BY <1>e, <2>1
  <2>2. CASE <<p, j>> \notin N
    <3> DEFINE q == at[p]
               x == L[q][j]
    <3>1. q \in 1..Len(L) /\ j \in 1..Len(L[q]) /\ M[p][j] = x /\ (p = Len(M) => q = Len(L))
      BY <1>d, <2>2
    <3>2. x.n \in Nat /\ x.n <= o
      BY <1>d, <2>2, <3>1
    <3> HIDE DEF q
    <3>3. MeantIn(k, x) /\ x.id.loopIndex = l /\ x.by # l /\ (q = Len(L) => x.kind = "cacheSend")
      BY <1>0, <3>1 DEF LaneMeant
    <3>4. MeantIn(k2, x)
      BY <3>3 DEF MeantIn
    <3> HIDE DEF x
    <3>5. x.n <= o2
      BY <3>2, NatOrder
    <3> QED BY <3>1, <3>3, <3>4, <3>5
  <2> QED BY <2>1, <2>2
<1>2. LaneBehind(M, h)
  <2> SUFFICES ASSUME NEW i \in 1..Len(h), NEW p \in 1..Len(M), NEW j \in 1..Len(M[p])
               PROVE  InOrder(h[i].req, M[p][j])
    BY DEF LaneBehind
  <2>1. CASE <<p, j>> \in N
    <3>1. M[p][j] = r /\ o < r.n /\ r.n \in Nat /\ h[i].req.n \in Nat /\ h[i].req.n <= o
      BY <1>c, <1>e, <2>1
    <3>2. h[i].req.n < r.n
      BY <3>1, NatOrder
    <3> QED BY <3>1, <3>2 DEF InOrder
  <2>2. CASE <<p, j>> \notin N
    BY <1>0, <1>d, <2>2 DEF LaneBehind
  <2> QED BY <2>1, <2>2
<1>3. LaneOrdered(M)
  <2> SUFFICES ASSUME NEW p \in 1..Len(M), NEW q \in 1..Len(M),
                      NEW i \in 1..Len(M[p]), NEW j \in 1..Len(M[q]), p < q \/ (p = q /\ i < j)
               PROVE  InOrder(M[p][i], M[q][j])
    BY DEF LaneOrdered
  <2>1. CASE <<p, i>> \in N
    <3>1. M[p][i] = r
      BY <1>e, <2>1
    <3>2. M[q][j].kind # r.kind
      <4>1. \A a, b \in 1..Len(M) : \A c \in 1..Len(M[a]), d \in 1..Len(M[b]) :
              <<a, c>> \in N /\ (a < b \/ (a = b /\ c < d)) => <<b, d>> \notin N /\ M[b][d].kind # r.kind
        BY DEF LaneMoves
      <4> QED BY <2>1, <4>1
    <3> QED BY <3>1, <3>2 DEF InOrder
  <2>2. CASE <<p, i>> \notin N /\ <<q, j>> \in N
    <3>1. M[q][j] = r /\ o < r.n /\ r.n \in Nat /\ M[p][i].n \in Nat /\ M[p][i].n <= o
      BY <1>d, <1>e, <2>2
    <3>2. M[p][i].n < r.n
      BY <3>1, NatOrder
    <3> QED BY <3>1, <3>2 DEF InOrder
  <2>3. CASE <<p, i>> \notin N /\ <<q, j>> \notin N
    <3> DEFINE x == at[p]
               y == at[q]
    <3>1. /\ x \in 1..Len(L) /\ i \in 1..Len(L[x]) /\ M[p][i] = L[x][i]
          /\ y \in 1..Len(L) /\ j \in 1..Len(L[y]) /\ M[q][j] = L[y][j]
      BY <1>d, <2>3
    <3>2. x < y \/ (x = y /\ i < j)
      BY <2>3 DEF LaneMoves
    <3> HIDE DEF x, y
    <3> QED BY <1>0, <3>1, <3>2 DEF LaneOrdered
  <2> QED BY <2>1, <2>2, <2>3
<1> QED BY <1>1, <1>2, <1>3 DEF LaneOK

\* The lists a loop has waiting are its procs' and, last, its cached packets.
LEMMA LaneType ==
    ASSUME NEW q \in Seq(AsyncProcs), NEW c \in Seq(Requests)
    PROVE  /\ LaneOf(q, c) \in Seq(Seq(Requests))
           /\ Len(q) \in Nat /\ Len(LaneOf(q, c)) = Len(q) + 1
           /\ LaneOf(q, c)[Len(q) + 1] = c
           /\ \A p \in 1..Len(q) : /\ p \in 1..(Len(q) + 1) /\ p # Len(q) + 1
                                   /\ IsList(q[p]) => LaneOf(q, c)[p] = q[p].list
                                   /\ ~ IsList(q[p]) => LaneOf(q, c)[p] = <<>>
<1> DEFINE L == LaneOf(q, c)
<1>1. Len(q) \in Nat
  OBVIOUS
<1>2. ASSUME NEW p \in 1..(Len(q) + 1) PROVE L[p] \in Seq(Requests)
  <2>1. CASE p = Len(q) + 1
    BY <2>1 DEF LaneOf
  <2>2. CASE p \in 1..Len(q)
    <3>1. q[p] \in AsyncProcs /\ p # Len(q) + 1
      BY <1>1, <2>2, ElementOfSeq
    <3>2. CASE IsList(q[p])
      <4>1. q[p].list \in Seq(Requests)
        BY <3>1, <3>2 DEF IsList, AsyncProcs
      <4> QED BY <3>1, <3>2, <4>1 DEF LaneOf
    <3>3. CASE ~ IsList(q[p])
      <4>1. L[p] = <<>>
        BY <3>1, <3>3 DEF LaneOf
      <4> QED BY <4>1
    <3> QED BY <3>2, <3>3
  <2> QED BY <1>1, <2>1, <2>2
<1>3. L = [p \in 1..(Len(q) + 1) |-> L[p]]
  BY DEF LaneOf
<1>4. \A p \in 1..Len(q) : p \in 1..(Len(q) + 1) /\ p # Len(q) + 1
  BY <1>1
<1>5. Len(q) + 1 \in 1..(Len(q) + 1)
  BY <1>1
<1>6. L[Len(q) + 1] = c
  BY <1>5 DEF LaneOf
<1>7. ASSUME NEW p \in 1..Len(q)
      PROVE  (IsList(q[p]) => L[p] = q[p].list) /\ (~ IsList(q[p]) => L[p] = <<>>)
  BY <1>4 DEF LaneOf
<1> HIDE DEF L
<1>8. L \in Seq(Seq(Requests)) /\ Len(L) = Len(q) + 1
  <2>1. L \in [1..(Len(q) + 1) -> Seq(Requests)]
    BY <1>2, <1>3
  <2> QED BY <1>1, <2>1
<1> QED BY <1>1, <1>4, <1>6, <1>7, <1>8 DEF L

\* A proc behind the others: L is the lane before it, M after it, e what the
\* proc holds.
LEMMA LaneAppend ==
    ASSUME NEW q \in Seq(AsyncProcs), NEW c \in Seq(Requests), NEW proc \in AsyncProcs, NEW d \in Seq(Requests),
           NEW e, IsList(proc) => e = proc.list, ~ IsList(proc) => e = <<>>
    PROVE  LET L == LaneOf(q, c)
               M == LaneOf(Append(q, proc), d)
           IN  /\ M \in Seq(Seq(Requests)) /\ Len(L) = Len(q) + 1 /\ Len(M) = Len(q) + 2
               /\ \A p \in 1..Len(q) : M[p] = L[p]
               /\ M[Len(q) + 1] = e /\ M[Len(q) + 2] = d /\ L[Len(q) + 1] = c
<1> DEFINE L == LaneOf(q, c)
           r == Append(q, proc)
           M == LaneOf(r, d)
<1>1. r \in Seq(AsyncProcs) /\ Len(r) = Len(q) + 1 /\ Len(q) \in Nat
      /\ (\A p \in 1..Len(q) : r[p] = q[p]) /\ r[Len(q) + 1] = proc
  BY AppendProperties
<1> HIDE DEF r
<1>2. /\ M \in Seq(Seq(Requests)) /\ Len(M) = Len(r) + 1 /\ M[Len(r) + 1] = d
      /\ \A p \in 1..Len(r) : /\ IsList(r[p]) => M[p] = r[p].list
                              /\ ~ IsList(r[p]) => M[p] = <<>>
  <2>1. M \in Seq(Seq(Requests)) /\ Len(M) = Len(r) + 1 /\ M[Len(r) + 1] = d
    BY <1>1, LaneType
  <2>2. ASSUME NEW p \in 1..Len(r)
        PROVE  (IsList(r[p]) => M[p] = r[p].list) /\ (~ IsList(r[p]) => M[p] = <<>>)
    <3>1. r \in Seq(AsyncProcs)
      BY <1>1
    <3>2. \A x \in 1..Len(r) : /\ IsList(r[x]) => LaneOf(r, d)[x] = r[x].list
                               /\ ~ IsList(r[x]) => LaneOf(r, d)[x] = <<>>
      BY ONLY <3>1, LaneType, d \in Seq(Requests)
    <3> QED BY <3>2
  <2> HIDE DEF M
  <2> QED BY <2>1, <2>2
<1>3. /\ Len(L) = Len(q) + 1 /\ L[Len(q) + 1] = c
      /\ \A p \in 1..Len(q) : /\ IsList(q[p]) => L[p] = q[p].list
                              /\ ~ IsList(q[p]) => L[p] = <<>>
  BY LaneType
<1> HIDE DEF L, M
<1>4. Len(r) + 1 = Len(q) + 2 /\ Len(q) + 1 \in 1..Len(r) /\ \A p \in 1..Len(q) : p \in 1..Len(r)
  BY <1>1
<1>5. M[Len(q) + 1] = e
  BY <1>1, <1>2, <1>4
<1>6. \A p \in 1..Len(q) : M[p] = L[p]
  BY <1>1, <1>2, <1>3, <1>4
<1>7. Len(M) = Len(q) + 2 /\ M[Len(q) + 2] = d
  BY <1>2, <1>4
<1> QED BY <1>2, <1>3, <1>5, <1>6, <1>7 DEF L, M, r

\* The steps of one lane, for the ids k and k2, the operation counts o and o2
\* before and after them.
LaneContext(l, q, c, h, k, k2, o, o2) ==
    /\ l \in Loops /\ q \in Seq(AsyncProcs) /\ c \in Seq(Requests)
    /\ h \in Seq([req : Requests, sock : Socks])
    /\ k \subseteq k2 /\ o \in Nat /\ o2 \in Nat /\ o <= o2
    /\ LaneOK(l, LaneOf(q, c), h, k, o) /\ ReachedOK(h, k, o)

\* A session waits to enter, or one operation is posted.
LEMMA LanePosts ==
    ASSUME NEW l, NEW q, NEW c, NEW h, NEW k, NEW k2, NEW o, NEW o2, LaneContext(l, q, c, h, k, k2, o, o2),
           NEW proc \in AsyncProcs, NEW r,
           \/ ~ IsList(proc)
           \/ /\ IsList(proc) /\ proc.list = <<r>> /\ r \in Requests /\ r.kind # "cacheSend"
              /\ MeantIn(k2, r) /\ r.id.loopIndex = l /\ r.by # l /\ o < r.n /\ r.n <= o2
    PROVE  LaneOK(l, LaneOf(Append(q, proc), c), h, k2, o2)
<1> DEFINE L == LaneOf(q, c)
           M == LaneOf(Append(q, proc), c)
           e == IF IsList(proc) THEN proc.list ELSE <<>>
           n == Len(q)
           N == IF IsList(proc) THEN {<<n + 1, 1>>} ELSE {}
           at == [p \in Nat |-> IF p = n + 2 THEN n + 1 ELSE p]
<1>0. LaneContext(l, q, c, h, k, k2, o, o2)
  OBVIOUS
<1>1. q \in Seq(AsyncProcs) /\ c \in Seq(Requests) /\ n \in Nat
  BY <1>0 DEF LaneContext
<1>2. /\ M \in Seq(Seq(Requests)) /\ Len(L) = n + 1 /\ Len(M) = n + 2
      /\ \A p \in 1..n : M[p] = L[p]
      /\ M[n + 1] = e /\ M[n + 2] = c /\ L[n + 1] = c
  BY <1>1, LaneAppend
<1>3. L \in Seq(Seq(Requests))
  BY <1>1, LaneType
<1>4. at \in [Nat -> Nat] /\ \A p \in Nat : at[p] = IF p = n + 2 THEN n + 1 ELSE p
  BY <1>1
<1>5. N # {} => /\ r \in Requests /\ MeantIn(k2, r) /\ r.id.loopIndex = l /\ r.by # l /\ o < r.n
                /\ r.n <= o2 /\ r.kind # "cacheSend" /\ e = <<r>>
  OBVIOUS
<1>6. N = {} => e = <<>>
  OBVIOUS
<1>7. \A p, j : <<p, j>> \in N <=> N # {} /\ p = n + 1 /\ j = 1
  OBVIOUS
<1>8. Len(e) = IF N = {} THEN 0 ELSE 1
  BY <1>5, <1>6
<1>k. ASSUME NEW j \in 1..Len(c) PROVE c[j].kind = "cacheSend"
  <2>1. LaneMeant(l, L, k, o)
    BY <1>0 DEF LaneContext, LaneOK
  <2> HIDE DEF L
  <2>2. n + 1 \in 1..Len(L) /\ L[n + 1] = c /\ Len(L) = n + 1
    BY <1>1, <1>2
  <2> HIDE DEF n
  <2> QED BY <2>1, <2>2 DEF LaneMeant
<1> HIDE DEF L, M, e, N, at, n
<1>9. \A p \in 1..Len(M) : p \in 1..n \/ p = n + 1 \/ p = n + 2
  BY <1>1, <1>2
<1>10. ASSUME NEW p \in 1..Len(M), NEW j \in 1..Len(M[p])
       PROVE  \/ p \in 1..n /\ <<p, j>> \notin N /\ at[p] = p /\ M[p] = L[p] /\ p \in 1..Len(L)
              \/ p = n + 1 /\ j = 1 /\ <<p, j>> \in N /\ M[p][j] = r
              \/ p = n + 2 /\ <<p, j>> \notin N /\ at[p] = n + 1 /\ M[p] = L[n + 1] /\ M[p] = c
  <2>1. CASE p \in 1..n
    <3>1. p \in Nat /\ p # n + 1 /\ p # n + 2 /\ p \in 1..(n + 1)
      BY <1>1, <2>1
    <3> QED BY <1>2, <1>4, <1>7, <2>1, <3>1
  <2>2. CASE p = n + 1
    <3>0. Len(M[p]) = Len(e)
      BY <1>2, <2>2
    <3>1. j = 1 /\ N # {}
      BY <1>8, <3>0
    <3> QED BY <1>2, <1>5, <1>7, <2>2, <3>1
  <2>3. CASE p = n + 2
    <3>1. n + 2 # n + 1 /\ n + 2 \in Nat
      BY <1>1
    <3> QED BY <1>2, <1>4, <1>7, <2>3, <3>1
  <2> QED BY <1>9, <2>1, <2>2, <2>3
<1>11. LaneMoves(L, M, at, N, r)
  <2>1. ASSUME NEW p \in 1..Len(M), NEW j \in 1..Len(M[p]), <<p, j>> \notin N
        PROVE  /\ at[p] \in 1..Len(L) /\ j \in 1..Len(L[at[p]]) /\ M[p][j] = L[at[p]][j]
               /\ p = Len(M) => at[p] = Len(L)
    BY <1>1, <1>2, <1>10, <2>1
  <2>2. ASSUME NEW p \in 1..Len(M), NEW x \in 1..Len(M), NEW i \in 1..Len(M[p]), NEW j \in 1..Len(M[x]),
               <<p, i>> \notin N, <<x, j>> \notin N, p < x
        PROVE  at[p] < at[x]
    BY SMTT(40), <1>1, <1>2, <1>10, <2>2
  <2>3. ASSUME NEW p \in 1..Len(M), NEW j \in 1..Len(M[p]), <<p, j>> \in N
        PROVE  M[p][j] = r /\ (p = Len(M) => r.kind = "cacheSend")
    BY <1>1, <1>2, <1>10, <2>3
  <2>4. ASSUME NEW p \in 1..Len(M), NEW x \in 1..Len(M), NEW i \in 1..Len(M[p]), NEW j \in 1..Len(M[x]),
               <<p, i>> \in N, p < x \/ (p = x /\ i < j)
        PROVE  <<x, j>> \notin N /\ M[x][j].kind # r.kind
    <3>1. p = n + 1 /\ i = 1 /\ N # {}
      BY <1>7, <2>4
    <3>2. x # n + 1
      <4> SUFFICES ASSUME x = n + 1 PROVE FALSE
        OBVIOUS
      <4>1. j = 1
        BY <1>2, <1>5, <1>8, <3>1
      <4> QED BY <1>1, <2>4, <3>1, <4>1
    <3>3. x = n + 2
      BY <1>1, <1>9, <2>4, <3>1, <3>2
    <3>4. M[x] = c /\ <<x, j>> \notin N
      BY <1>2, <1>7, <3>2, <3>3
    <3> QED BY <1>5, <1>k, <3>1, <3>4
  <2> QED BY <2>1, <2>2, <2>3, <2>4 DEF LaneMoves
<1> QED BY <1>0, <1>2, <1>3, <1>4, <1>5, <1>11, LaneMoved DEF LaneContext, L, M

\* The cached packets become a proc of the lane.
LEMMA LaneFlushes ==
    ASSUME NEW l, NEW q, NEW c, NEW h, NEW k, NEW k2, NEW o, NEW o2, LaneContext(l, q, c, h, k, k2, o, o2)
    PROVE  LaneOK(l, LaneOf(Append(q, [list |-> c]), <<>>), h, k2, o2)
<1> DEFINE proc == [list |-> c]
           L == LaneOf(q, c)
           M == LaneOf(Append(q, proc), <<>>)
           n == Len(q)
           at == [p \in Nat |-> p]
<1>0. LaneContext(l, q, c, h, k, k2, o, o2)
  OBVIOUS
<1>1. q \in Seq(AsyncProcs) /\ c \in Seq(Requests) /\ n \in Nat
  BY <1>0 DEF LaneContext
<1>2. proc \in AsyncProcs /\ IsList(proc) /\ proc.list = c /\ <<>> \in Seq(Requests)
  BY <1>1 DEF AsyncProcs, IsList
<1> HIDE DEF proc
<1>3. /\ M \in Seq(Seq(Requests)) /\ Len(L) = n + 1 /\ Len(M) = n + 2
      /\ \A p \in 1..n : M[p] = L[p]
      /\ M[n + 1] = c /\ M[n + 2] = <<>> /\ L[n + 1] = c
  <2> DEFINE d == <<>>
  <2>2. d \in Seq(Requests)
    OBVIOUS
  <2> HIDE DEF d
  <2>3. LET K == LaneOf(Append(q, proc), d)
        IN  /\ K \in Seq(Seq(Requests)) /\ Len(L) = n + 1 /\ Len(K) = n + 2
            /\ \A p \in 1..n : K[p] = L[p]
            /\ K[n + 1] = c /\ K[n + 2] = d /\ L[n + 1] = c
    BY <1>1, <1>2, <2>2, LaneAppend
  <2> QED BY <2>3 DEF d
<1>4. L \in Seq(Seq(Requests))
  BY <1>1, LaneType
<1>5. at \in [Nat -> Nat] /\ \A p \in Nat : at[p] = p
  OBVIOUS
<1> HIDE DEF L, M, at, n
<1>6. ASSUME NEW p \in 1..Len(M), NEW j \in 1..Len(M[p])
      PROVE  p \in 1..Len(L) /\ M[p] = L[p] /\ at[p] = p /\ p # Len(M)
  <2>1. p # n + 2
    BY <1>3
  <2>2. p \in Nat /\ p \in 1..(n + 1) /\ (p \in 1..n \/ p = n + 1)
    BY <1>1, <1>3, <2>1
  <2> QED BY <1>3, <1>5, <2>1, <2>2
<1>7. LaneMoves(L, M, at, {}, 0)
  BY <1>6 DEF LaneMoves
<1> QED BY <1>0, <1>3, <1>4, <1>5, <1>7, LaneMoved DEF LaneContext, L, M, proc

\* One more cached packet.
LEMMA LaneCaches ==
    ASSUME NEW l, NEW q, NEW c, NEW h, NEW k, NEW k2, NEW o, NEW o2, LaneContext(l, q, c, h, k, k2, o, o2),
           NEW r \in Requests, r.kind = "cacheSend",
           MeantIn(k2, r), r.id.loopIndex = l, r.by # l, o < r.n, r.n <= o2
    PROVE  LaneOK(l, LaneOf(q, Append(c, r)), h, k2, o2)
<1> DEFINE d == Append(c, r)
           L == LaneOf(q, c)
           M == LaneOf(q, d)
           n == Len(q)
           N == {<<n + 1, Len(c) + 1>>}
           at == [p \in Nat |-> p]
<1>0. LaneContext(l, q, c, h, k, k2, o, o2)
  OBVIOUS
<1>1. q \in Seq(AsyncProcs) /\ c \in Seq(Requests) /\ n \in Nat /\ Len(c) \in Nat
  BY <1>0 DEF LaneContext
<1>2. /\ d \in Seq(Requests) /\ Len(d) = Len(c) + 1 /\ d[Len(c) + 1] = r
      /\ \A j \in 1..Len(c) : d[j] = c[j]
  BY <1>1, AppendProperties
<1> HIDE DEF d
<1>3. L \in Seq(Seq(Requests)) /\ Len(L) = n + 1 /\ L[n + 1] = c
  BY <1>1, LaneType
<1>4. M \in Seq(Seq(Requests)) /\ Len(M) = n + 1 /\ M[n + 1] = d
  BY <1>1, <1>2, LaneType
<1>5. \A p \in 1..n : M[p] = L[p]
  <2>1. \A p \in 1..n : p \in 1..(n + 1) /\ p # n + 1
    BY <1>1
  <2> QED BY <2>1 DEF LaneOf
<1>6. at \in [Nat -> Nat] /\ \A p \in Nat : at[p] = p
  OBVIOUS
<1>7. \A p, j : <<p, j>> \in N <=> p = n + 1 /\ j = Len(c) + 1
  OBVIOUS
<1> HIDE DEF L, M, N, at, n
<1>8. ASSUME NEW p \in 1..Len(M), NEW j \in 1..Len(M[p])
      PROVE  /\ p \in 1..Len(L) /\ at[p] = p
             /\ <<p, j>> \notin N => j \in 1..Len(L[p]) /\ M[p][j] = L[p][j]
             /\ <<p, j>> \in N => M[p][j] = r
  <2>1. CASE p = n + 1
    <3>1. j \in 1..Len(c) \/ j = Len(c) + 1
      BY <1>1, <1>2, <1>4, <2>1
    <3>2. p \in 1..Len(L) /\ at[p] = p
      BY <1>1, <1>3, <1>4, <1>6
    <3> QED BY <1>2, <1>3, <1>4, <1>7, <2>1, <3>1, <3>2
  <2>2. CASE p \in 1..n
    BY SMTT(40), <1>1, <1>3, <1>4, <1>5, <1>6, <1>7, <2>2
  <2> QED BY <1>1, <1>4, <2>1, <2>2
<1>9. LaneMoves(L, M, at, N, r)
  <2>1. ASSUME NEW p \in 1..Len(M), NEW x \in 1..Len(M), NEW i \in 1..Len(M[p]), NEW j \in 1..Len(M[x]),
               <<p, i>> \in N, p < x \/ (p = x /\ i < j)
        PROVE  FALSE
    <3>1. p = n + 1 /\ i = Len(c) + 1
      BY <1>7, <2>1
    <3>2. p = x /\ i < j
      BY <1>1, <1>4, <2>1, <3>1
    <3>3. j \in 1..(Len(c) + 1)
      BY <1>2, <1>4, <3>1, <3>2
    <3> QED BY <1>1, <3>1, <3>2, <3>3
  <2>2. ASSUME NEW p \in 1..Len(M), NEW j \in 1..Len(M[p]), <<p, j>> \notin N
        PROVE  /\ at[p] \in 1..Len(L) /\ j \in 1..Len(L[at[p]]) /\ M[p][j] = L[at[p]][j]
               /\ p = Len(M) => at[p] = Len(L)
    BY <1>3, <1>4, <1>8, <2>2
  <2>3. ASSUME NEW p \in 1..Len(M), NEW x \in 1..Len(M), NEW i \in 1..Len(M[p]), NEW j \in 1..Len(M[x]),
               <<p, i>> \notin N, <<x, j>> \notin N, p < x
        PROVE  at[p] < at[x]
    BY <1>8, <2>3
  <2>4. ASSUME NEW p \in 1..Len(M), NEW j \in 1..Len(M[p]), <<p, j>> \in N
        PROVE  M[p][j] = r /\ (p = Len(M) => r.kind = "cacheSend")
    BY <1>8, <2>4
  <2> QED BY <2>1, <2>2, <2>3, <2>4 DEF LaneMoves
<1>10. r \in Requests /\ MeantIn(k2, r) /\ r.id.loopIndex = l /\ r.by # l /\ o < r.n /\ r.n <= o2
  OBVIOUS
<1> QED BY <1>0, <1>3, <1>4, <1>6, <1>9, <1>10, LaneMoved DEF LaneContext, L, M, d

\* The loop takes the first proc of its lane.
LEMMA LaneTakes ==
    ASSUME NEW l, NEW q, NEW c, NEW h, NEW k, NEW k2, NEW o, NEW o2, LaneContext(l, q, c, h, k, k2, o, o2),
           q # <<>>
    PROVE  LaneOK(l, LaneOf(Tail(q), c), h, k2, o2)
<1> DEFINE t == Tail(q)
           L == LaneOf(q, c)
           M == LaneOf(t, c)
           n == Len(t)
           at == [p \in Nat |-> p + 1]
<1>0. LaneContext(l, q, c, h, k, k2, o, o2)
  OBVIOUS
<1>1. q \in Seq(AsyncProcs) /\ c \in Seq(Requests)
  BY <1>0 DEF LaneContext
<1>2. t \in Seq(AsyncProcs) /\ n \in Nat /\ Len(q) = n + 1 /\ \A p \in 1..n : t[p] = q[p + 1]
  BY <1>1, HeadTailProperties
<1> HIDE DEF t
<1>3. L \in Seq(Seq(Requests)) /\ Len(L) = n + 2 /\ L[n + 2] = c
  <2>1. L \in Seq(Seq(Requests)) /\ Len(L) = Len(q) + 1 /\ L[Len(q) + 1] = c
    BY <1>1, LaneType
  <2>2. Len(q) + 1 = n + 2
    BY <1>2
  <2> QED BY <2>1, <2>2
<1>4. M \in Seq(Seq(Requests)) /\ Len(M) = n + 1 /\ M[n + 1] = c
  BY <1>1, <1>2, LaneType
<1>5. \A p \in 1..n : M[p] = L[p + 1]
  <2>1. \A p \in 1..n : /\ p \in 1..(n + 1) /\ p # n + 1
                        /\ p + 1 \in 1..(Len(q) + 1) /\ p + 1 # Len(q) + 1
    BY <1>2
  <2> QED BY <1>2, <2>1 DEF LaneOf
<1>6. at \in [Nat -> Nat] /\ \A p \in Nat : at[p] = p + 1
  OBVIOUS
<1> HIDE DEF L, M, at, n
<1>7. ASSUME NEW p \in 1..Len(M)
      PROVE  /\ at[p] = p + 1 /\ p + 1 \in 1..Len(L) /\ M[p] = L[p + 1]
             /\ p = Len(M) => p + 1 = Len(L)
  <2>1. p \in Nat /\ p + 1 \in 1..(n + 2) /\ (p \in 1..n \/ p = n + 1) /\ (n + 1) + 1 = n + 2
    BY <1>2, <1>4
  <2> QED BY <1>3, <1>4, <1>5, <1>6, <2>1
<1>8. LaneMoves(L, M, at, {}, 0)
  <2>1. ASSUME NEW p \in 1..Len(M), NEW x \in 1..Len(M), p < x PROVE at[p] < at[x]
    <3>1. at[p] = p + 1 /\ at[x] = x + 1 /\ p \in Int /\ x \in Int
      BY <1>7
    <3> QED BY <2>1, <3>1
  <2> QED BY <1>7, <2>1 DEF LaneMoves
<1> QED BY <1>0, <1>3, <1>4, <1>6, <1>8, LaneMoved DEF LaneContext, L, M, t

\* The procs of the lane are dropped, the cached packets kept or not.
LEMMA LaneDrops ==
    ASSUME NEW l, NEW q, NEW c, NEW h, NEW k, NEW k2, NEW o, NEW o2, LaneContext(l, q, c, h, k, k2, o, o2),
           NEW d, d = c \/ d = <<>>
    PROVE  LaneOK(l, LaneOf(<<>>, d), h, k2, o2)
<1> DEFINE L == LaneOf(q, c)
           M == LaneOf(<<>>, d)
           n == Len(q) + 1
           at == [p \in Nat |-> n]
<1>0. LaneContext(l, q, c, h, k, k2, o, o2)
  OBVIOUS
<1>1. q \in Seq(AsyncProcs) /\ c \in Seq(Requests) /\ d \in Seq(Requests) /\ n \in Nat \ {0}
  <2>1. q \in Seq(AsyncProcs) /\ c \in Seq(Requests)
    BY <1>0 DEF LaneContext
  <2>2. Len(q) + 1 \in Nat \ {0}
    BY <2>1
  <2>3. <<>> \in Seq(Requests)
    OBVIOUS
  <2>4. d \in Seq(Requests)
    BY ONLY <2>1, <2>3, d = c \/ d = <<>>
  <2> QED BY <2>1, <2>2, <2>4
<1>2. L \in Seq(Seq(Requests)) /\ Len(L) = n /\ L[n] = c
  BY <1>1, LaneType
<1>3. M \in Seq(Seq(Requests)) /\ Len(M) = 1 /\ M[1] = d
  <2>1. <<>> \in Seq(AsyncProcs) /\ Len(<<>>) = 0 /\ 0 + 1 = 1
    OBVIOUS
  <2>2. M \in Seq(Seq(Requests)) /\ Len(M) = Len(<<>>) + 1 /\ M[Len(<<>>) + 1] = d
    BY <1>1, <2>1, LaneType
  <2> QED BY <2>1, <2>2
<1>4. at \in [Nat -> Nat] /\ \A p \in Nat : at[p] = n
  BY <1>1
<1> HIDE DEF L, M, at, n
<1>5. ASSUME NEW p \in 1..Len(M), NEW j \in 1..Len(M[p])
      PROVE  p = 1 /\ at[p] = n /\ n \in 1..Len(L) /\ M[p] = L[n] /\ p = Len(M) /\ n = Len(L)
  <2>1. p = 1 /\ M[p] = d /\ d # <<>>
    BY <1>3
  <2> QED BY <1>1, <1>2, <1>3, <1>4, <2>1
<1>6. LaneMoves(L, M, at, {}, 0)
  BY <1>5 DEF LaneMoves
<1> QED BY <1>0, <1>2, <1>3, <1>4, <1>6, LaneMoved DEF LaneContext, L, M

\* The lane stays as it is.
LEMMA LaneStays ==
    ASSUME NEW l, NEW q, NEW c, NEW h, NEW k, NEW k2, NEW o, NEW o2, LaneContext(l, q, c, h, k, k2, o, o2)
    PROVE  LaneOK(l, LaneOf(q, c), h, k2, o2)
<1> DEFINE L == LaneOf(q, c)
           at == [p \in Nat |-> p]
<1>0. LaneContext(l, q, c, h, k, k2, o, o2)
  OBVIOUS
<1>1. q \in Seq(AsyncProcs) /\ c \in Seq(Requests)
  BY <1>0 DEF LaneContext
<1>2. L \in Seq(Seq(Requests)) /\ Len(L) \in Nat
  BY <1>1, LaneType
<1>3. at \in [Nat -> Nat] /\ \A p \in Nat : at[p] = p
  OBVIOUS
<1> HIDE DEF L, at
<1>4. LaneMoves(L, L, at, {}, 0)
  BY <1>2, <1>3 DEF LaneMoves
<1> QED BY <1>0, <1>2, <1>3, <1>4, LaneMoved DEF LaneContext, L

\* Some operations of list arrive, behind h.
LEMMA ReachedRuns ==
    ASSUME NEW h \in Seq([req : Requests, sock : Socks]), NEW list \in Seq(Requests), NEW new, NEW at,
           Picked(list, Len(list), new, at),
           NEW k, NEW k2, k \subseteq k2, NEW o \in Nat, NEW o2 \in Nat, o <= o2, ReachedOK(h, k, o),
           \A j \in 1..Len(list) : MeantIn(k2, list[j]) /\ list[j].n <= o2,
           \A i \in 1..Len(h), j \in 1..Len(list) : InOrder(h[i].req, list[j]),
           \A i, j \in 1..Len(list) : i < j => InOrder(list[i], list[j])
    PROVE  /\ ReachedOK(h \o new, k2, o2)
           /\ \A l, L : /\ LaneOK(l, L, h, k2, o2)
                        /\ \A j \in 1..Len(list), p \in 1..Len(L) : \A i \in 1..Len(L[p]) : InOrder(list[j], L[p][i])
                        => LaneOK(l, L, h \o new, k2, o2)
<1> DEFINE g == h \o new
           n == Len(h)
<1>1. /\ new \in Seq([req : Requests, sock : Socks]) /\ at \in [1..Len(new) -> 1..Len(list)]
      /\ \A j \in 1..Len(new) : new[j].req = list[at[j]]
      /\ \A i, j \in 1..Len(new) : i < j => at[i] < at[j]
  BY DEF Picked
<1>2. /\ Len(g) = n + Len(new) /\ n \in Nat /\ Len(new) \in Nat
      /\ \A i \in 1..(n + Len(new)) : g[i] = IF i <= n THEN h[i] ELSE new[i - n]
  BY <1>1, ConcatProperties
<1> HIDE DEF g, n
<1>3. ASSUME NEW i \in 1..Len(g)
      PROVE  \/ i <= n /\ i \in 1..n /\ g[i] = h[i]
             \/ i > n /\ i - n \in 1..Len(new) /\ at[i - n] \in 1..Len(list) /\ g[i].req = list[at[i - n]]
  <2>1. CASE i <= n
    BY <1>2, <2>1
  <2>2. CASE i > n
    <3> DEFINE x == i - n
    <3>1. x \in 1..Len(new) /\ g[i] = new[x]
      BY <1>2, <2>2
    <3> HIDE DEF x
    <3>2. at[x] \in 1..Len(list) /\ g[i].req = list[at[x]]
      BY <1>1, <3>1
    <3> QED BY <2>2, <3>1, <3>2 DEF x
  <2> QED BY <1>2, <2>1, <2>2
<1>4. ASSUME NEW i \in 1..Len(g) PROVE MeantIn(k2, g[i].req) /\ g[i].req.n <= o2
  <2>1. CASE i \in 1..n /\ g[i] = h[i]
    <3>1. MeantIn(k, h[i].req) /\ h[i].req.n <= o
      BY <2>1 DEF ReachedOK, n
    <3>2. h[i] \in [req : Requests, sock : Socks]
      BY <2>1, ElementOfSeq DEF n
    <3>3. h[i].req \in Requests
      BY <3>2
    <3>4. h[i].req.n \in Nat
      BY <3>3 DEF Requests
    <3>5. h[i].req.n <= o2
      BY <3>1, <3>4, NatOrder
    <3>6. MeantIn(k2, h[i].req)
      BY <3>1 DEF MeantIn
    <3> QED BY <2>1, <3>5, <3>6
  <2>2. CASE at[i - n] \in 1..Len(list) /\ g[i].req = list[at[i - n]]
    BY <2>2
  <2> QED BY <1>3, <2>1, <2>2
<1>5. ASSUME NEW i \in 1..Len(g), NEW j \in 1..Len(g), i < j PROVE InOrder(g[i].req, g[j].req)
  <2>1. CASE i <= n /\ j <= n
    <3>1. i \in 1..n /\ j \in 1..n /\ g[i] = h[i] /\ g[j] = h[j]
      BY <1>2, <1>3, <2>1
    <3> QED BY <1>5, <3>1 DEF ReachedOK, n
  <2>2. CASE i <= n /\ j > n
    <3>1. i \in 1..n /\ g[i] = h[i] /\ at[j - n] \in 1..Len(list) /\ g[j].req = list[at[j - n]]
      BY <1>2, <1>3, <2>2
    <3> QED BY <3>1 DEF n
  <2>3. CASE i > n /\ j > n
    <3> DEFINE x == i - n
               y == j - n
    <3>1. /\ x \in 1..Len(new) /\ at[x] \in 1..Len(list) /\ g[i].req = list[at[x]]
          /\ y \in 1..Len(new) /\ at[y] \in 1..Len(list) /\ g[j].req = list[at[y]]
      BY <1>2, <1>3, <2>3
    <3>2. x < y
      BY <1>2, <1>5
    <3> HIDE DEF x, y
    <3>3. at[x] < at[y]
      BY <1>1, <3>1, <3>2
    <3> QED BY <3>1, <3>3
  <2>4. i <= n \/ i > n
    BY <1>2
  <2>5. j <= n \/ j > n
    BY <1>2
  <2>6. ~ (i > n /\ j <= n)
    BY <1>2, <1>5
  <2> QED BY <2>1, <2>2, <2>3, <2>4, <2>5, <2>6
<1>6. ASSUME NEW l, NEW L, LaneOK(l, L, h, k2, o2),
             \A j \in 1..Len(list), p \in 1..Len(L) : \A i \in 1..Len(L[p]) : InOrder(list[j], L[p][i])
      PROVE  LaneOK(l, L, g, k2, o2)
  <2>1. ASSUME NEW i \in 1..Len(g), NEW p \in 1..Len(L), NEW j \in 1..Len(L[p])
        PROVE  InOrder(g[i].req, L[p][j])
    <3>1. CASE i \in 1..n /\ g[i] = h[i]
      BY <1>6, <3>1 DEF LaneOK, LaneBehind, n
    <3>2. CASE at[i - n] \in 1..Len(list) /\ g[i].req = list[at[i - n]]
      BY <1>6, <3>2
    <3> QED BY <1>3, <3>1, <3>2
  <2> QED BY <1>6, <2>1 DEF LaneOK, LaneBehind
<1>7. ReachedOK(g, k2, o2)
  BY <1>4, <1>5 DEF ReachedOK
<1> QED BY <1>6, <1>7 DEF g

\* Every step keeps the order of the operations.
LEMMA FlowStep == TypeInv /\ KnownInv /\ FlowInv /\ [Next]_vars => FlowInv'
<1> SUFFICES ASSUME TypeInv, KnownInv, FlowInv, [Next]_vars PROVE FlowInv'
  OBVIOUS
<1> USE TcpServiceAssumption DEF tableVars
<1> DEFINE Hist == Seq([req : Requests, sock : Socks])
           Lane(l) == LaneOf(async[l], mCachePacketList[l])
           NewLane(l) == LaneOf(async'[l], mCachePacketList'[l])
<1>0. TypeOK /\ SessionInv /\ AfterInv /\ EnterInv
  BY DEF TypeInv
<1>a. /\ ops \in Nat /\ reached \in Hist
      /\ async \in [Loops -> Seq(AsyncProcs)] /\ mCachePacketList \in [Loops -> Seq(Requests)]
      /\ known \subseteq [id : SessionIds, sock : Socks]
  BY <1>0 DEF TypeOK
<1>b. known \subseteq known'
  BY KnownStep
<1>r. ReachedOK(reached, known, ops) /\ \A l \in Loops : LaneOK(l, Lane(l), reached, known, ops)
  BY DEF FlowInv
<1>c. ASSUME ops <= ops', ops' \in Nat, NEW l \in Loops
      PROVE  LaneContext(l, async[l], mCachePacketList[l], reached, known, known', ops, ops')
  <2>1. async[l] \in Seq(AsyncProcs) /\ mCachePacketList[l] \in Seq(Requests)
    BY <1>a
  <2> QED BY <1>a, <1>b, <1>c, <1>r, <2>1 DEF LaneContext
<1>s. ASSUME ops <= ops', ops' \in Nat, NEW l \in Loops,
             async'[l] = async[l], mCachePacketList'[l] = mCachePacketList[l]
      PROVE  LaneOK(l, NewLane(l), reached, known', ops')
  <2>1. LaneContext(l, async[l], mCachePacketList[l], reached, known, known', ops, ops')
    BY <1>c, <1>s
  <2> QED BY <1>s, <2>1, LaneStays
<1>d. ASSUME ops <= ops', ops' \in Nat, reached' = reached,
             \A l \in Loops : LaneOK(l, NewLane(l), reached, known', ops')
      PROVE  FlowInv'
  <2>1. ASSUME NEW i \in 1..Len(reached)
        PROVE  MeantIn(known', reached[i].req) /\ reached[i].req.n <= ops'
    <3>1. MeantIn(known, reached[i].req) /\ reached[i].req.n <= ops
      BY <1>r DEF ReachedOK
    <3>2. reached[i] \in [req : Requests, sock : Socks]
      BY <1>a, ElementOfSeq
    <3>3. reached[i].req \in Requests
      BY <3>2
    <3>4. reached[i].req.n \in Nat
      BY <3>3 DEF Requests
    <3>5. reached[i].req.n <= ops'
      BY <1>a, <1>d, <3>1, <3>4, NatOrder
    <3>6. MeantIn(known', reached[i].req)
      BY <1>b, <3>1 DEF MeantIn
    <3> QED BY <3>5, <3>6
  <2>2. ReachedOK(reached, known', ops')
    BY <1>r, <2>1 DEF ReachedOK
  <2> QED BY <1>d, <2>2 DEF FlowInv
\* Nothing is posted, cached, taken or reached.
<1>e. ASSUME UNCHANGED <<ops, reached, async, mCachePacketList>> PROVE FlowInv'
  <2>1. ops <= ops' /\ ops' \in Nat
    BY <1>a, <1>e
  <2>2. \A l \in Loops : LaneOK(l, NewLane(l), reached, known', ops')
    BY <1>e, <1>s, <2>1
  <2> QED BY <1>d, <1>e, <2>1, <2>2
\* The operations of list run.
<1>f. ASSUME NEW list \in Seq(Requests), Run(list), ops <= ops', ops' \in Nat,
             \A l \in Loops : LaneOK(l, NewLane(l), reached, known', ops'),
             \A j \in 1..Len(list) : MeantIn(known', list[j]) /\ list[j].n <= ops',
             \A i \in 1..Len(reached), j \in 1..Len(list) : InOrder(reached[i].req, list[j]),
             \A i, j \in 1..Len(list) : i < j => InOrder(list[i], list[j]),
             \A l \in Loops : \A j \in 1..Len(list), p \in 1..Len(NewLane(l)) :
                \A i \in 1..Len(NewLane(l)[p]) : InOrder(list[j], NewLane(l)[p][i])
      PROVE  FlowInv'
  <2>1. PICK at : Picked(list, Len(list), Hits(list), at)
    BY <1>0, HitsPicked
  <2>2. reached' = reached \o Hits(list)
    BY <1>f DEF Run
  <2>3. /\ ReachedOK(reached \o Hits(list), known', ops')
        /\ \A l \in Loops : LaneOK(l, NewLane(l), reached \o Hits(list), known', ops')
    <3> HIDE DEF NewLane
    <3> QED BY <1>a, <1>b, <1>f, <1>r, <2>1, ReachedRuns
  <2> QED BY <2>2, <2>3 DEF FlowInv
<1>1. CASE startWorkerThread
  <2>1. /\ UNCHANGED <<ops, reached, async>> /\ ops <= ops' /\ ops' \in Nat
        /\ \A l \in Loops : mCachePacketList'[l] = <<>> /\ async'[l] = <<>>
    <3>1. UNCHANGED <<ops, reached, async>> /\ ~ HasLoops
      BY <1>1 DEF startWorkerThread, HasLoops
    <3>2. \A l \in Loops : async[l] = <<>>
      BY <1>0, <3>1 DEF SessionInv
    <3>3. \A l \in Loops : mCachePacketList'[l] = <<>>
      BY <1>1 DEF startWorkerThread
    <3> QED BY <1>a, <3>1, <3>2, <3>3
  <2>2. ASSUME NEW l \in Loops PROVE LaneOK(l, NewLane(l), reached, known', ops')
    <3>1. LaneContext(l, async[l], mCachePacketList[l], reached, known, known', ops, ops')
      BY <1>c, <2>1
    <3> QED BY <2>1, <3>1, LaneDrops
  <2> QED BY <1>d, <2>1, <2>2
<1>2. CASE stopWorkerThread
  BY <1>2, <1>e DEF stopWorkerThread
<1>3. CASE closeWorkerThread
  <2>1. /\ UNCHANGED <<ops, reached, mCachePacketList>> /\ ops <= ops' /\ ops' \in Nat
        /\ \A l \in Loops : async'[l] = <<>>
    BY <1>3, <1>a DEF closeWorkerThread
  <2>2. ASSUME NEW l \in Loops PROVE LaneOK(l, NewLane(l), reached, known', ops')
    <3>1. LaneContext(l, async[l], mCachePacketList[l], reached, known, known', ops, ops')
      BY <1>c, <2>1
    <3> QED BY <2>1, <3>1, LaneDrops
  <2> QED BY <1>d, <2>1, <2>2
<1>4. ASSUME NEW c \in Callers \cup Loops, NEW s \in Socks, addDataSocket(c, s) PROVE FlowInv'
  <2>1. UNCHANGED <<mCachePacketList, ops, reached>> /\ ops <= ops' /\ ops' \in Nat
    BY <1>4, <1>a DEF addDataSocket
  <2>2. PICK m \in Loops :
          IF c = m
          THEN onEnterEventLoop(m, s) /\ UNCHANGED async
          ELSE /\ async' = [async EXCEPT ![m] = Append(@, [enter |-> s])]
               /\ life' = [life EXCEPT ![s] = "queued"]
               /\ UNCHANGED <<tableVars, mUserData, known>>
    BY <1>4 DEF addDataSocket
  <2>3. CASE c = m
    BY <1>e, <2>1, <2>2, <2>3
  <2>4. CASE c # m
    <3> DEFINE proc == [enter |-> s]
    <3>1. proc \in AsyncProcs /\ ~ IsList(proc)
      BY DEF AsyncProcs, IsList
    <3> HIDE DEF proc
    <3>2. \A l \in Loops : async'[l] = IF l = m THEN Append(async[m], proc) ELSE async[l]
      BY <1>a, <2>2, <2>4 DEF proc
    <3>3. ASSUME NEW l \in Loops PROVE LaneOK(l, NewLane(l), reached, known', ops')
      <4>1. LaneContext(l, async[l], mCachePacketList[l], reached, known, known', ops, ops')
        BY <1>c, <2>1
      <4>2. CASE l = m
        <5>1. async'[l] = Append(async[l], proc) /\ mCachePacketList'[l] = mCachePacketList[l]
          BY <2>1, <3>2, <4>2
        <5> QED BY <3>1, <4>1, <5>1, LanePosts
      <4>3. CASE l # m
        BY <1>s, <2>1, <3>2, <4>3
      <4> QED BY <4>2, <4>3
    <3> QED BY <1>d, <2>1, <3>3
  <2> QED BY <2>3, <2>4
<1>5. ASSUME NEW c \in Callers \cup Loops, NEW s \in Socks, addDataSocketFails(c, s) PROVE FlowInv'
  BY <1>5, <1>e DEF addDataSocketFails
\* A new operation.
<1>g. ASSUME NEW c \in Callers \cup Loops, NEW kind \in Kinds, NEW k \in known, ops' = ops + 1
      PROVE  LET r == request(c, kind, k) IN
             /\ r \in Requests /\ MeantIn(known', r) /\ MeantIn(known, r)
             /\ ops < r.n /\ r.n <= ops' /\ r.n \in Nat
             /\ r.kind = kind /\ r.by = c /\ r.id = k.id /\ r.for = k.sock
             /\ r.id.loopIndex \in Loops
             /\ ops <= ops' /\ ops' \in Nat
  <2>1. k \in [id : SessionIds, sock : Socks] /\ ops + 1 \in Nat
    BY <1>a
  <2>2. request(c, kind, k) \in Requests /\ k.id.loopIndex \in Loops
    BY <2>1 DEF request, Requests, SessionIds
  <2>3. [id |-> k.id, sock |-> k.sock] = k
    BY <2>1
  <2>4. k \in known'
    BY <1>b
  <2> QED BY <1>a, <1>g, <2>1, <2>2, <2>3, <2>4 DEF request, MeantIn
<1>6. ASSUME NEW c \in Callers \cup Loops, NEW kind \in Kinds, NEW k \in known,
             postSessionAsyncProc(c, kind, k)
      PROVE  FlowInv'
  <2> DEFINE r == request(c, kind, k)
             m == k.id.loopIndex
  <2>1. kind # "cacheSend" /\ ops' = ops + 1 /\ UNCHANGED <<mCachePacketList, known>>
    BY <1>6 DEF postSessionAsyncProc
  <2>2. /\ r \in Requests /\ MeantIn(known', r) /\ MeantIn(known, r)
        /\ ops < r.n /\ r.n <= ops' /\ r.n \in Nat
        /\ r.kind = kind /\ r.by = c /\ r.id = k.id /\ r.for = k.sock
        /\ m \in Loops
        /\ ops <= ops' /\ ops' \in Nat
    BY <1>g, <2>1
  <2>3. CASE c = m
    <3>1. Run(<<r>>) /\ UNCHANGED async
      BY <1>6, <2>3 DEF postSessionAsyncProc
    <3> HIDE DEF r
    <3> DEFINE list == <<r>>
    <3>2. list \in Seq(Requests) /\ Len(list) = 1 /\ list[1] = r
      BY <2>2
    <3> HIDE DEF list
    <3>3. \A j \in 1..Len(list) : list[j] = r /\ j = 1
      BY <3>2
    <3>4. \A l \in Loops : LaneOK(l, NewLane(l), reached, known', ops')
      BY <1>s, <2>1, <2>2, <3>1
    <3>5. ASSUME NEW i \in 1..Len(reached) PROVE InOrder(reached[i].req, r)
      <4>1. reached[i].req.n <= ops
        BY <1>r DEF ReachedOK
      <4>2. reached[i] \in [req : Requests, sock : Socks]
        BY <1>a, ElementOfSeq
      <4>3. reached[i].req \in Requests
        BY <4>2
      <4>4. reached[i].req.n \in Nat
        BY <4>3 DEF Requests
      <4>5. reached[i].req.n < r.n
        BY <1>a, <2>2, <4>1, <4>4, NatOrder
      <4> QED BY <4>5 DEF InOrder
    <3>6. ASSUME NEW l \in Loops, NEW p \in 1..Len(NewLane(l)), NEW i \in 1..Len(NewLane(l)[p])
          PROVE  InOrder(r, NewLane(l)[p][i])
      <4> DEFINE b == NewLane(l)[p][i]
      <4>1. MeantIn(known', b) /\ b.id.loopIndex = l /\ b.by # l
        BY <3>4 DEF LaneOK, LaneMeant
      <4> HIDE DEF b
      <4>2. b.for = r.for => b.id = r.id
        BY <2>1, <2>2, <4>1 DEF MeantIn, KnownInv
      <4> QED BY <2>2, <2>3, <4>1, <4>2 DEF InOrder, b
    <3>7. Run(list)
      BY <3>1 DEF list
    <3> HIDE DEF NewLane
    <3>8. \A j \in 1..Len(list) : MeantIn(known', list[j]) /\ list[j].n <= ops'
      BY <2>2, <3>3
    <3>9. \A i \in 1..Len(reached), j \in 1..Len(list) : InOrder(reached[i].req, list[j])
      BY <3>3, <3>5
    <3>10. \A i, j \in 1..Len(list) : i < j => InOrder(list[i], list[j])
      BY <3>3
    <3>11. \A l \in Loops : \A j \in 1..Len(list), p \in 1..Len(NewLane(l)) :
              \A i \in 1..Len(NewLane(l)[p]) : InOrder(list[j], NewLane(l)[p][i])
      BY <3>3, <3>6
    <3> QED BY <1>f, <2>2, <3>2, <3>4, <3>7, <3>8, <3>9, <3>10, <3>11
  <2>4. CASE c # m
    <3> DEFINE proc == [list |-> <<r>>]
    <3>1. async' = [async EXCEPT ![m] = Append(@, proc)] /\ reached' = reached
      BY <1>6, <2>4 DEF postSessionAsyncProc
    <3> HIDE DEF r, m
    <3>2. proc \in AsyncProcs /\ IsList(proc) /\ proc.list = <<r>>
      BY <2>2 DEF AsyncProcs, IsList
    <3> HIDE DEF proc
    <3>3. \A l \in Loops : async'[l] = IF l = m THEN Append(async[m], proc) ELSE async[l]
      BY <1>a, <2>2, <3>1
    <3>4. ASSUME NEW l \in Loops PROVE LaneOK(l, NewLane(l), reached, known', ops')
      <4>1. LaneContext(l, async[l], mCachePacketList[l], reached, known, known', ops, ops')
        BY <1>c, <2>2
      <4>2. CASE l = m
        <5>1. async'[l] = Append(async[l], proc) /\ mCachePacketList'[l] = mCachePacketList[l]
          BY <2>1, <3>3, <4>2
        <5>2. r.kind # "cacheSend" /\ r.id.loopIndex = l /\ r.by # l
          BY <2>1, <2>2, <2>4, <4>2 DEF m
        <5> QED BY <2>2, <3>2, <4>1, <5>1, <5>2, LanePosts
      <4>3. CASE l # m
        BY <1>s, <2>1, <2>2, <3>3, <4>3
      <4> QED BY <4>2, <4>3
    <3> QED BY <1>d, <2>2, <3>1, <3>4
  <2> QED BY <2>3, <2>4
<1>7. ASSUME NEW k \in known, cacheSend(k) PROVE FlowInv'
  <2> DEFINE r == request(Cacher, "cacheSend", k)
             m == k.id.loopIndex
  <2>1. ops' = ops + 1 /\ UNCHANGED <<async, known, reached>>
        /\ mCachePacketList' = [mCachePacketList EXCEPT ![m] = Append(@, r)]
    BY <1>7 DEF cacheSend
  <2>2. /\ r \in Requests /\ MeantIn(known', r)
        /\ ops < r.n /\ r.n <= ops' /\ r.n \in Nat
        /\ r.kind = "cacheSend" /\ r.by = Cacher /\ r.id = k.id
        /\ m \in Loops
        /\ ops <= ops' /\ ops' \in Nat
    <3>1. "cacheSend" \in Kinds /\ Cacher \in Callers \cup Loops
      BY DEF Kinds
    <3> QED BY <1>g, <2>1, <3>1
  <2> HIDE DEF r, m
  <2>3. \A l \in Loops : mCachePacketList'[l] = IF l = m THEN Append(mCachePacketList[m], r) ELSE mCachePacketList[l]
    BY <1>a, <2>1, <2>2
  <2>4. ASSUME NEW l \in Loops PROVE LaneOK(l, NewLane(l), reached, known', ops')
    <3>1. LaneContext(l, async[l], mCachePacketList[l], reached, known, known', ops, ops')
      BY <1>c, <2>2
    <3>2. CASE l = m
      <4>1. mCachePacketList'[l] = Append(mCachePacketList[l], r) /\ async'[l] = async[l]
        BY <2>1, <2>3, <3>2
      <4>2. r.id.loopIndex = l /\ r.by # l
        BY <2>2, <3>2 DEF m
      <4> QED BY <2>2, <3>1, <4>1, <4>2, LaneCaches
    <3>3. CASE l # m
      BY <1>s, <2>1, <2>2, <2>3, <3>3
    <3> QED BY <3>2, <3>3
  <2> QED BY <1>d, <2>1, <2>2, <2>4
<1>8. CASE flushCachePackectList
  <2>1. /\ UNCHANGED <<ops, reached, known>> /\ ops <= ops' /\ ops' \in Nat
        /\ \A l \in Loops : /\ mCachePacketList'[l] = <<>>
                            /\ async'[l] = IF mCachePacketList[l] = <<>> THEN async[l]
                                           ELSE Append(async[l], [list |-> mCachePacketList[l]])
    BY <1>8, <1>a DEF flushCachePackectList
  <2>2. ASSUME NEW l \in Loops PROVE LaneOK(l, NewLane(l), reached, known', ops')
    <3>1. LaneContext(l, async[l], mCachePacketList[l], reached, known, known', ops, ops')
      BY <1>c, <2>1
    <3>2. CASE mCachePacketList[l] = <<>>
      BY <1>s, <2>1, <3>2
    <3>3. CASE mCachePacketList[l] # <<>>
      BY <2>1, <3>1, <3>3, LaneFlushes
    <3> QED BY <3>2, <3>3
  <2> QED BY <1>d, <2>1, <2>2
<1>9. ASSUME NEW l \in Loops, procDataSocketClose(l) PROVE FlowInv'
  BY <1>9, <1>e DEF procDataSocketClose
<1>10. ASSUME NEW m \in Loops, runAsyncProc(m) PROVE FlowInv'
  <2> DEFINE proc == Head(async[m])
  <2>1. /\ async[m] # <<>> /\ async' = [async EXCEPT ![m] = Tail(@)]
        /\ UNCHANGED <<ops, mCachePacketList>> /\ ops <= ops' /\ ops' \in Nat
    BY <1>10, <1>a DEF runAsyncProc
  <2>2. async[m] \in Seq(AsyncProcs) /\ proc \in AsyncProcs /\ proc = async[m][1] /\ 1 \in 1..Len(async[m])
    BY <1>a, <2>1
  <2>3. \A l \in Loops : async'[l] = IF l = m THEN Tail(async[m]) ELSE async[l]
    BY <1>a, <2>1
  <2>4. ASSUME NEW l \in Loops PROVE LaneOK(l, NewLane(l), reached, known', ops')
    <3>1. LaneContext(l, async[l], mCachePacketList[l], reached, known, known', ops, ops')
      BY <1>c, <2>1
    <3>2. CASE l = m
      <4>1. async'[l] = Tail(async[l]) /\ mCachePacketList'[l] = mCachePacketList[l] /\ async[l] # <<>>
        BY <2>1, <2>3, <3>2
      <4> QED BY <3>1, <4>1, LaneTakes
    <3>3. CASE l # m
      BY <1>s, <2>1, <2>3, <3>3
    <3> QED BY <3>2, <3>3
  <2>5. CASE UNCHANGED <<after, reached>>
    BY <1>d, <2>1, <2>4, <2>5
  <2>6. CASE /\ "list" \in DOMAIN proc
             /\ Run(proc.list)
             /\ UNCHANGED <<tableVars, mUserData, known>>
    <3> DEFINE list == proc.list
               L == Lane(m)
    <3>1. list \in Seq(Requests) /\ IsList(async[m][1])
      BY <2>2, <2>6 DEF AsyncProcs, IsList
    <3>2. /\ Len(L) = Len(async[m]) + 1 /\ L[1] = list /\ Len(async[m]) \in Nat
          /\ 1 \in 1..Len(L)
      <4>1. mCachePacketList[m] \in Seq(Requests)
        BY <1>a
      <4>2. Len(L) = Len(async[m]) + 1 /\ Len(async[m]) \in Nat
        BY <2>2, <4>1, LaneType
      <4>3. 1 \in 1..(Len(async[m]) + 1) /\ 1 # Len(async[m]) + 1
        BY <2>2
      <4>4. L[1] = list
        BY <2>2, <3>1, <4>3 DEF LaneOf
      <4> QED BY <4>2, <4>3, <4>4
    <3>3. LaneMeant(m, L, known, ops) /\ LaneOrdered(L) /\ LaneBehind(L, reached)
      BY <1>r DEF LaneOK
    <3>4. LaneMeant(m, L, known', ops') /\ known' = known /\ ops' = ops
      BY <2>1, <2>6, <3>3
    <3>5. Run(list)
      BY <2>6
    <3> HIDE DEF list, L
    <3>6. \A j \in 1..Len(list) : MeantIn(known', list[j]) /\ list[j].n <= ops' /\ list[j].id.loopIndex = m
      BY <3>2, <3>4 DEF LaneMeant
    <3>7. \A i \in 1..Len(reached), j \in 1..Len(list) : InOrder(reached[i].req, list[j])
      BY <3>2, <3>3 DEF LaneBehind
    <3>8. \A i, j \in 1..Len(list) : i < j => InOrder(list[i], list[j])
      BY <3>2, <3>3 DEF LaneOrdered
    <3>9. ASSUME NEW l \in Loops, NEW j \in 1..Len(list), NEW p \in 1..Len(NewLane(l)),
                 NEW i \in 1..Len(NewLane(l)[p])
          PROVE  InOrder(list[j], NewLane(l)[p][i])
      <4>1. CASE l = m
        <5>1. Tail(async[m]) \in Seq(AsyncProcs) /\ Len(Tail(async[m])) = Len(async[m]) - 1
              /\ \A x \in 1..Len(Tail(async[m])) : Tail(async[m])[x] = async[m][x + 1]
          BY <2>1, <2>2, HeadTailProperties
        <5>2. async'[m] = Tail(async[m]) /\ mCachePacketList'[m] = mCachePacketList[m]
          BY <2>1, <2>3
        <5>3. Len(NewLane(m)) = Len(async[m])
          <6>1. mCachePacketList[m] \in Seq(Requests)
            BY <1>a
          <6>2. Len(LaneOf(Tail(async[m]), mCachePacketList[m])) = Len(Tail(async[m])) + 1
            BY <5>1, <6>1, LaneType
          <6> QED BY <3>2, <5>1, <5>2, <6>2
        <5>4. p + 1 \in 1..Len(L) /\ 1 < p + 1 /\ NewLane(m)[p] = L[p + 1]
          <6>1. p \in 1..Len(async[m])
            BY <4>1, <5>3
          <6>2. CASE p = Len(async[m])
            <7>1. p = Len(Tail(async[m])) + 1 /\ p + 1 = Len(async[m]) + 1
              BY <3>2, <5>1, <6>2
            <7>2. mCachePacketList[m] \in Seq(Requests)
              BY <1>a
            <7>3. NewLane(m)[p] = mCachePacketList[m]
              <8>1. LaneOf(Tail(async[m]), mCachePacketList[m])[Len(Tail(async[m])) + 1] = mCachePacketList[m]
                BY <5>1, <7>2, LaneType
              <8> QED BY <5>2, <7>1, <8>1
            <7>4. L[p + 1] = mCachePacketList[m]
              <8>1. L[Len(async[m]) + 1] = mCachePacketList[m]
                BY <2>2, <7>2, LaneType DEF L
              <8> QED BY <7>1, <8>1
            <7> QED BY <3>2, <6>1, <7>1, <7>3, <7>4
          <6>3. CASE p # Len(async[m])
            <7>1. /\ p \in 1..(Len(Tail(async[m])) + 1) /\ p # Len(Tail(async[m])) + 1
                  /\ p \in 1..Len(Tail(async[m]))
                  /\ p + 1 \in 1..(Len(async[m]) + 1) /\ p + 1 # Len(async[m]) + 1 /\ 1 < p + 1
              BY SMTT(40), <3>2, <5>1, <6>1, <6>3
            <7>2. NewLane(m)[p] = L[p + 1]
              BY <5>1, <5>2, <7>1 DEF L, LaneOf
            <7> QED BY <3>2, <7>1, <7>2
          <6> QED BY <6>2, <6>3
        <5> HIDE DEF NewLane
        <5>5. i \in 1..Len(L[p + 1]) /\ NewLane(l)[p][i] = L[p + 1][i]
          BY <4>1, <5>4
        <5>6. InOrder(L[1][j], L[p + 1][i])
          BY <3>2, <3>3, <5>4, <5>5 DEF LaneOrdered
        <5> QED BY <3>2, <5>5, <5>6
      <4>2. CASE l # m
        <5> DEFINE b == NewLane(l)[p][i]
        <5>1. MeantIn(known', b) /\ b.id.loopIndex = l
          BY <2>4 DEF LaneOK, LaneMeant
        <5> HIDE DEF b
        <5>2. MeantIn(known', list[j]) /\ list[j].id.loopIndex = m
          BY <3>6
        <5>3. b.for # list[j].for
          BY <3>4, <4>2, <5>1, <5>2 DEF MeantIn, KnownInv
        <5> QED BY <5>3 DEF InOrder, b
      <4> QED BY <4>1, <4>2
    <3> HIDE DEF NewLane
    <3> QED BY <1>f, <2>1, <2>4, <3>1, <3>5, <3>6, <3>7, <3>8, <3>9
  <2> QED BY <1>10, <2>5, <2>6 DEF runAsyncProc
<1>11. ASSUME NEW s \in Socks, connectionCloses(s) PROVE FlowInv'
  BY <1>e, <1>11 DEF connectionCloses
<1>12. CASE UNCHANGED vars
  BY <1>12, <1>e DEF vars
<1> QED BY <1>1, <1>2, <1>3, <1>4, <1>5, <1>6, <1>7, <1>8, <1>9, <1>10, <1>11, <1>12
        DEF Next, Lifecycle, Call, Worker

\* The order holds at all times.
LEMMA FlowInvariant == Spec => [](TypeInv /\ KnownInv /\ FlowInv)
<1>1. Init => KnownInv /\ FlowInv
  <2> SUFFICES ASSUME Init PROVE KnownInv /\ FlowInv
    OBVIOUS
  <2>1. KnownInv /\ ReachedOK(reached, known, ops)
    BY DEF Init, KnownInv, ReachedOK
  <2>2. ASSUME NEW l \in Loops
        PROVE  LaneOK(l, LaneOf(async[l], mCachePacketList[l]), reached, known, ops)
    <3> DEFINE M == LaneOf(<<>>, <<>>)
    <3>1. async[l] = <<>> /\ mCachePacketList[l] = <<>>
      BY DEF Init
    <3>2. <<>> \in Seq(AsyncProcs) /\ <<>> \in Seq(Requests) /\ Len(<<>>) = 0
      OBVIOUS
    <3>3. M = [p \in 1..1 |-> <<>>]
      BY <3>2 DEF LaneOf
    <3>4. Len(M) = 1 /\ \A p \in 1..Len(M) : Len(M[p]) = 0
      BY <3>3
    <3> HIDE DEF M
    <3>5. LaneOK(l, M, reached, known, ops)
      BY <3>4 DEF LaneOK, LaneMeant, LaneOrdered, LaneBehind
    <3> QED BY <3>1, <3>5 DEF M
  <2> QED BY <2>1, <2>2 DEF FlowInv
<1>2. TypeInv /\ KnownInv /\ FlowInv /\ [Next]_vars => KnownInv' /\ FlowInv'
  BY KnownStep, FlowStep
<1> QED BY <1>1, <1>2, TypeInvariant, PTL DEF Spec

(***************************************************************************)
(* What one thread sends to one session arrives in the order in which it   *)
(* was sent, with any number of threads, sessions and restarts.            *)
(***************************************************************************)
THEOREM SendOrderHolds == Spec => []SendOrder
<1>1. FlowInv => SendOrder
  BY DEF FlowInv, ReachedOK, InOrder, SendOrder
<1> QED BY <1>1, FlowInvariant, PTL
-----------------------------------------------------------------------------
(* The ids and the operations that carry them. *)

\* One start of the service, and SessionId.iid has room for every session of
\* every loop (2^32 in the code).
IidsFit == starts <= 1 /\ \A l \in Loops : mIncIds[l] <= IidMod

\* Ids are issued once each, and a DataSocket has one that was issued.
IdsInv ==
    /\ service = "new" => known = {}
    /\ service # "new" => starts >= 1
    /\ \A k \in known : k.id.iid < mIncIds[k.id.loopIndex]
    /\ \A j, k \in known : j.id = k.id => j = k
    /\ \A s \in Socks : mUserData[s] # Null => [id |-> mUserData[s], sock |-> s] \in known

\* Every step keeps the ids apart, as long as the counters fit into an id.
LEMMA IdsStep ==
    TypeInv /\ KnownInv /\ IdsInv /\ IidsFit' /\ [Next]_vars => IdsInv'
<1> SUFFICES ASSUME TypeInv, KnownInv, IdsInv, IidsFit', [Next]_vars PROVE IdsInv'
  OBVIOUS
<1> USE TcpServiceAssumption DEF tableVars
<1>0. TypeOK /\ SessionInv /\ AfterInv /\ EnterInv
  BY DEF TypeInv
<1>a. /\ starts \in Nat /\ mIncIds \in [Loops -> Nat]
      /\ known \subseteq [id : SessionIds, sock : Socks]
      /\ mUserData \in [Socks -> SessionIds \cup {Null}]
  BY <1>0 DEF TypeOK
<1>b. ASSUME UNCHANGED <<starts, mIncIds, known, mUserData>>,
             service' = "new" => service = "new", service = "new" => service' = "new"
      PROVE  IdsInv'
  BY <1>b DEF IdsInv
\* A session enters loop m.
<1>c. ASSUME NEW m \in Loops, NEW s \in Socks, life[s] \in {"none", "queued"}, onEnterEventLoop(m, s),
             service # "new", UNCHANGED <<service, starts>>
      PROVE  IdsInv'
  <2>1. CASE UNCHANGED <<tableVars, mUserData, known>>
    BY <1>b, <1>c, <2>1
  <2>2. CASE /\ mIncIds' = [mIncIds EXCEPT ![m] = @ + 1]
             /\ mUserData' = [mUserData EXCEPT ![s] = MakeID(m)]
             /\ known' = known \cup {[id |-> MakeID(m), sock |-> s]}
    <3> DEFINE id == MakeID(m)
               n == mIncIds[m]
               new == [id |-> id, sock |-> s]
    <3>1. n \in Nat /\ mIncIds'[m] = n + 1 /\ \A l \in Loops \ {m} : mIncIds'[l] = mIncIds[l]
      BY <1>a, <2>2
    <3>2. n + 1 <= IidMod /\ IidMod \in Nat \ {0}
      BY <3>1 DEF IidsFit
    <3>3. id.iid = n /\ id.loopIndex = m
      <4>1. ASSUME NEW x \in Nat, NEW y \in Nat \ {0}, x < y PROVE x % y = x
        BY <4>1
      <4>2. n % IidMod = n
        BY <3>1, <3>2, <4>1
      <4> QED BY <4>2 DEF MakeID
    <3> HIDE DEF id, n
    <3>4. ASSUME NEW k \in known
          PROVE  /\ k.id.loopIndex \in Loops /\ k.id.iid \in Nat
                 /\ k.id.iid < mIncIds[k.id.loopIndex] /\ k.id.iid < mIncIds'[k.id.loopIndex]
      <4>1. k.id \in SessionIds
        BY <1>a
      <4>2. k.id.loopIndex \in Loops /\ k.id.iid \in Nat
        BY <4>1 DEF SessionIds
      <4>3. k.id.iid < mIncIds[k.id.loopIndex]
        BY DEF IdsInv
      <4>4. CASE k.id.loopIndex = m
        BY <3>1, <4>2, <4>3, <4>4 DEF n
      <4>5. CASE k.id.loopIndex # m
        BY <3>1, <4>2, <4>3, <4>5
      <4> QED BY <4>2, <4>3, <4>4, <4>5
    <3>5. \A k \in known : k.id # id
      <4> SUFFICES ASSUME NEW k \in known, k.id = id PROVE FALSE
        OBVIOUS
      <4>1. k.id.iid < mIncIds[m] /\ k.id.iid = n
        BY <3>3, <3>4
      <4> QED BY <3>1, <4>1 DEF n
    <3>6. known' = known \cup {new} /\ new.id = id /\ new.sock = s
      BY <2>2 DEF id
    <3> HIDE DEF new
    <3>7. \A k \in known' : k.id.iid < mIncIds'[k.id.loopIndex]
      BY <3>1, <3>3, <3>4, <3>6
    <3>8. \A j, k \in known' : j.id = k.id => j = k
      BY <3>5, <3>6 DEF IdsInv
    <3>9. ASSUME NEW t \in Socks, mUserData'[t] # Null
          PROVE  [id |-> mUserData'[t], sock |-> t] \in known'
      <4>1. CASE t = s
        BY <1>a, <2>2, <3>6, <4>1 DEF new, id
      <4>2. CASE t # s
        <5>1. mUserData'[t] = mUserData[t]
          BY <1>a, <2>2, <4>2
        <5> QED BY <3>6, <3>9, <5>1 DEF IdsInv
      <4> QED BY <4>1, <4>2
    <3> QED BY <1>c, <3>7, <3>8, <3>9 DEF IdsInv
  <2> QED BY <1>c, <2>1, <2>2 DEF onEnterEventLoop
<1>1. CASE startWorkerThread
  <2>1. /\ starts' = starts + 1 /\ starts' <= 1 /\ service' = "running"
        /\ mIncIds' = [l \in Loops |-> 0] /\ UNCHANGED <<known, mUserData>>
    BY <1>1 DEF startWorkerThread, IidsFit
  <2>2. service = "new"
    BY <1>a, <2>1 DEF IdsInv
  <2>3. known = {}
    BY <2>2 DEF IdsInv
  <2> QED BY <1>a, <2>1, <2>3 DEF IdsInv
<1>2. CASE stopWorkerThread
  BY <1>2, <1>b DEF stopWorkerThread
<1>3. CASE closeWorkerThread
  BY <1>3, <1>b DEF closeWorkerThread
<1>4. ASSUME NEW c \in Callers \cup Loops, NEW s \in Socks, addDataSocket(c, s) PROVE IdsInv'
  <2>1. life[s] = "none" /\ service # "new" /\ UNCHANGED <<service, starts>>
    BY <1>4 DEF addDataSocket, HasLoops
  <2>2. PICK m \in Loops :
          IF c = m
          THEN onEnterEventLoop(m, s) /\ UNCHANGED async
          ELSE /\ async' = [async EXCEPT ![m] = Append(@, [enter |-> s])]
               /\ life' = [life EXCEPT ![s] = "queued"]
               /\ UNCHANGED <<tableVars, mUserData, known>>
    BY <1>4 DEF addDataSocket
  <2>3. CASE c = m
    BY <1>c, <2>1, <2>2, <2>3
  <2>4. CASE c # m
    BY <1>b, <2>1, <2>2, <2>4
  <2> QED BY <2>3, <2>4
<1>5. ASSUME NEW c \in Callers \cup Loops, NEW s \in Socks, addDataSocketFails(c, s) PROVE IdsInv'
  BY <1>5, <1>b DEF addDataSocketFails
<1>6. ASSUME NEW c \in Callers \cup Loops, NEW kind \in Kinds, NEW k \in known,
             postSessionAsyncProc(c, kind, k)
      PROVE  IdsInv'
  BY <1>6, <1>b DEF postSessionAsyncProc
<1>7. ASSUME NEW k \in known, cacheSend(k) PROVE IdsInv'
  BY <1>7, <1>b DEF cacheSend
<1>8. CASE flushCachePackectList
  BY <1>8, <1>b DEF flushCachePackectList
<1>9. ASSUME NEW m \in Loops, procDataSocketClose(m) PROVE IdsInv'
  BY <1>9, <1>b DEF procDataSocketClose
<1>10. ASSUME NEW m \in Loops, runAsyncProc(m) PROVE IdsInv'
  <2> DEFINE proc == Head(async[m])
  <2>1. service = "running" /\ async[m] # <<>> /\ UNCHANGED <<service, starts>>
    BY <1>10 DEF runAsyncProc
  <2>2. proc \in AsyncProcs /\ proc = async[m][1] /\ 1 \in 1..Len(async[m])
    BY <1>0, <2>1 DEF TypeOK
  <2>3. CASE /\ "enter" \in DOMAIN proc
             /\ onEnterEventLoop(m, proc.enter)
             /\ UNCHANGED <<after, reached>>
    <3>1. proc.enter \in Socks /\ life[proc.enter] = "queued"
      BY <1>0, <2>2, <2>3 DEF AsyncProcs, EnterInv, IsEnter
    <3> QED BY <1>c, <2>1, <2>3, <3>1
  <2>4. CASE UNCHANGED <<tableVars, mUserData, known>>
    BY <1>b, <2>1, <2>4
  <2> QED BY <1>10, <2>3, <2>4 DEF runAsyncProc
<1>11. ASSUME NEW s \in Socks, connectionCloses(s) PROVE IdsInv'
  BY <1>11, <1>b DEF connectionCloses
<1>12. CASE UNCHANGED vars
  BY <1>12, <1>b DEF vars
<1> QED BY <1>1, <1>2, <1>3, <1>4, <1>5, <1>6, <1>7, <1>8, <1>9, <1>10, <1>11, <1>12
        DEF Next, Lifecycle, Call, Worker

\* What an id resolves to is the session it was issued to.
LEMMA ReachStep ==
    TypeInv /\ FlowInv /\ IdsInv /\ OpsReachTheirSession /\ [Next]_vars => OpsReachTheirSession'
<1> SUFFICES ASSUME TypeInv, FlowInv, IdsInv, OpsReachTheirSession, [Next]_vars
             PROVE  OpsReachTheirSession'
  OBVIOUS
<1> USE TcpServiceAssumption DEF tableVars
<1>0. TypeOK
  BY DEF TypeInv
<1>a. reached \in Seq([req : Requests, sock : Socks])
  BY <1>0 DEF TypeOK
<1>b. ASSUME UNCHANGED reached PROVE OpsReachTheirSession'
  BY <1>b DEF OpsReachTheirSession
<1>c. ASSUME NEW list \in Seq(Requests), Run(list), \A j \in 1..Len(list) : MeantIn(known, list[j])
      PROVE  OpsReachTheirSession'
  <2> DEFINE new == Hits(list)
             n == Len(reached)
  <2>1. PICK at : Picked(list, Len(list), new, at)
    BY <1>0, HitsPicked
  <2>2. /\ new \in Seq([req : Requests, sock : Socks]) /\ at \in [1..Len(new) -> 1..Len(list)]
        /\ \A j \in 1..Len(new) : /\ new[j].req = list[at[j]]
                                  /\ new[j].sock = Resolve(list[at[j]].id)
                                  /\ new[j].sock # Null
    BY <2>1 DEF Picked
  <2>3. reached' = reached \o new
    BY <1>c DEF Run
  <2> HIDE DEF new
  <2>4. ASSUME NEW j \in 1..Len(new) PROVE new[j].sock = new[j].req.for
    <3> DEFINE r == list[at[j]]
               t == Resolve(r.id)
    <3>1. at[j] \in 1..Len(list) /\ new[j].req = r /\ new[j].sock = t /\ t # Null
      BY <2>2
    <3>2. r \in Requests
      BY <3>1, ElementOfSeq
    <3>3. r.id \in SessionIds /\ MeantIn(known, r)
      BY <1>c, <3>1, <3>2 DEF Requests
    <3>4. t \in Socks /\ mUserData[t] = r.id
      BY <1>0, <3>1, <3>3, ResolveType
    <3>5. mUserData[t] # Null
      BY <3>3, <3>4 DEF SessionIds
    <3> HIDE DEF r, t
    <3>6. [id |-> mUserData[t], sock |-> t] \in known
      BY <3>4, <3>5 DEF IdsInv
    <3>7. [id |-> r.id, sock |-> t] \in known /\ [id |-> r.id, sock |-> r.for] \in known
      BY <3>3, <3>4, <3>6 DEF MeantIn
    <3>8. t = r.for
      BY <3>7 DEF IdsInv
    <3> QED BY <3>1, <3>8
  <2>5. /\ Len(reached') = n + Len(new) /\ n \in Nat /\ Len(new) \in Nat
        /\ \A i \in 1..(n + Len(new)) : reached'[i] = IF i <= n THEN reached[i] ELSE new[i - n]
    BY <1>a, <2>2, <2>3, ConcatProperties
  <2> HIDE DEF n
  <2>6. ASSUME NEW i \in 1..Len(reached') PROVE reached'[i].sock = reached'[i].req.for
    <3>1. CASE i <= n
      <4>1. i \in 1..n /\ reached'[i] = reached[i]
        BY <2>5, <3>1
      <4> QED BY <4>1 DEF OpsReachTheirSession, n
    <3>2. CASE i > n
      <4>1. i - n \in 1..Len(new) /\ reached'[i] = new[i - n]
        BY <2>5, <3>2
      <4> QED BY <2>4, <4>1
    <3> QED BY <2>5, <3>1, <3>2
  <2> QED BY <2>6 DEF OpsReachTheirSession
<1>1. ASSUME NEW c \in Callers \cup Loops, NEW kind \in Kinds, NEW k \in known,
             postSessionAsyncProc(c, kind, k)
      PROVE  OpsReachTheirSession'
  <2> DEFINE r == request(c, kind, k)
  <2>1. k \in [id : SessionIds, sock : Socks] /\ ops + 1 \in Nat
    BY <1>0 DEF TypeOK
  <2>2. r \in Requests /\ r.id = k.id /\ r.for = k.sock
    BY <2>1 DEF request, Requests
  <2>3. MeantIn(known, r)
    <3>1. [id |-> k.id, sock |-> k.sock] = k
      BY <2>1
    <3> QED BY <2>2, <3>1 DEF MeantIn
  <2>4. Run(<<r>>) \/ UNCHANGED reached
    BY <1>1 DEF postSessionAsyncProc
  <2> HIDE DEF r
  <2>5. <<r>> \in Seq(Requests) /\ \A j \in 1..Len(<<r>>) : MeantIn(known, <<r>>[j])
    BY <2>2, <2>3
  <2> QED BY <1>b, <1>c, <2>4, <2>5
<1>2. ASSUME NEW m \in Loops, runAsyncProc(m) PROVE OpsReachTheirSession'
  <2> DEFINE proc == Head(async[m])
             L == LaneOf(async[m], mCachePacketList[m])
  <2>1. async[m] # <<>>
    BY <1>2 DEF runAsyncProc
  <2>2. /\ async[m] \in Seq(AsyncProcs) /\ proc \in AsyncProcs /\ proc = async[m][1] /\ 1 \in 1..Len(async[m])
        /\ mCachePacketList[m] \in Seq(Requests)
    BY <1>0, <2>1 DEF TypeOK
  <2>3. CASE UNCHANGED reached
    BY <1>b, <2>3
  <2>4. CASE "list" \in DOMAIN proc /\ Run(proc.list)
    <3> DEFINE list == proc.list
    <3>1. list \in Seq(Requests) /\ IsList(async[m][1])
      BY <2>2, <2>4 DEF AsyncProcs, IsList
    <3>2. Len(L) = Len(async[m]) + 1 /\ Len(async[m]) \in Nat
      BY <2>2, LaneType
    <3>3. 1 \in 1..(Len(async[m]) + 1) /\ 1 # Len(async[m]) + 1
      BY <2>2
    <3>4. L[1] = list
      BY <2>2, <3>1, <3>3 DEF LaneOf
    <3>5. LaneMeant(m, L, known, ops)
      BY DEF FlowInv, LaneOK
    <3> HIDE DEF L
    <3>6. \A j \in 1..Len(list) : MeantIn(known, list[j])
      BY <3>2, <3>3, <3>4, <3>5 DEF LaneMeant
    <3> QED BY <1>c, <2>4, <3>1, <3>6
  <2> QED BY <1>2, <2>3, <2>4 DEF runAsyncProc
<1>3. CASE UNCHANGED reached
  BY <1>3, <1>b
<1>4. ASSUME NEW l \in Loops, procDataSocketClose(l) PROVE UNCHANGED reached
  BY <1>4 DEF procDataSocketClose
<1>5. ASSUME NEW k \in known, cacheSend(k) PROVE UNCHANGED reached
  BY <1>5 DEF cacheSend
<1>6. ASSUME NEW s \in Socks, connectionCloses(s) PROVE UNCHANGED reached
  BY <1>6 DEF connectionCloses
<1>7. ASSUME NEW c \in Callers \cup Loops, NEW s \in Socks, addDataSocket(c, s) \/ addDataSocketFails(c, s)
      PROVE  UNCHANGED reached
  BY <1>7 DEF addDataSocket, addDataSocketFails
<1>8. ASSUME Lifecycle \/ flushCachePackectList \/ UNCHANGED vars PROVE UNCHANGED reached
  BY <1>8 DEF Lifecycle, startWorkerThread, stopWorkerThread, closeWorkerThread, flushCachePackectList, vars
<1> QED BY <1>1, <1>2, <1>3, <1>4, <1>5, <1>6, <1>7, <1>8 DEF Next, Call, Worker

(***************************************************************************)
(* An operation reaches the session its id was issued for or nobody, as    *)
(* long as the service is started once and no loop issues more ids than    *)
(* SessionId.iid can tell apart.  (After a second start ids repeat: see    *)
(* the run TcpServiceRestart.)                                             *)
(***************************************************************************)
THEOREM OpsReachTheirs == Spec /\ []IidsFit => []OpsReachTheirSession
<1>1. Init => IdsInv /\ OpsReachTheirSession
  BY DEF Init, IdsInv, OpsReachTheirSession
<1>2. TypeInv /\ KnownInv /\ IdsInv /\ IidsFit' /\ [Next]_vars => IdsInv'
  BY IdsStep
<1>3. TypeInv /\ FlowInv /\ IdsInv /\ OpsReachTheirSession /\ [Next]_vars => OpsReachTheirSession'
  BY ReachStep
<1> QED BY <1>1, <1>2, <1>3, FlowInvariant, PTL DEF Spec
=============================================================================
