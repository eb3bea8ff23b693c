-------------------------------- MODULE Rpc --------------------------------
(***************************************************************************)
(* rpc/: two RpcService objects, one at each end of a connection, over the *)
(* JSON or the msgpack protocol.  A call whose last argument is a callback *)
(* gets a request id, under which the callback waits in mResponseCallbacks.*)
(* The handler on the other side may answer at once, later or never; the   *)
(* answer is a call of rpc_reply with the id and, as a string, a message   *)
(* that calls the function of that name.  An answer may have a callback of *)
(* its own.                                                                *)
(*                                                                         *)
(* The function f of both services takes a map<int, vector<int>>, and so   *)
(* do the callbacks.  A handler answers a request that has an id, and only *)
(* once: a second answer finds no callback (assert, and then del erases    *)
(* end()).  Messages of one direction arrive in order.                     *)
(***************************************************************************)
EXTENDS Integers, Sequences, SequencesExt, FiniteSets, TLC

CONSTANTS
    RpcArgs,            \* maps from integers to sequences of integers
    MaxCalls            \* bound: calls and answers

ASSUME RpcAssumption == MaxCalls \in Nat

Sides == {1, 2}
Other(s) == 3 - s
EmptyMap == [k \in {} |-> <<>>]

VARIABLES
    protocol,           \* PROTOCOL_TYPE: "json" or "msgpack"
    mNextID,            \* side -> the id made last
    mResponseCallbacks, \* side -> name -> the call whose callback it is
    mTuple,             \* side -> the argument of f, which is kept between calls
    rpcWire,            \* side -> messages on the way to it
    requests,           \* requests that handlers hold and have not answered
    rpcBroken,          \* a function was not found
    rpcCalls            \* history: calls and answers, and what became of them

rpcVars == <<protocol, mNextID, mResponseCallbacks, mTuple, rpcWire, requests, rpcBroken, rpcCalls>>

-----------------------------------------------------------------------------
(* msgpack: one token for each integer or string, a length in front of the *)
(* elements of a container.                                                *)

ValueWriteVec(v) == <<Len(v)>> \o v

\* The keys of a map, in order.
keysOf(m) == SetToSortSeq(DOMAIN m, LAMBDA a, b : a < b)

ValueWriteMap(m) ==
    LET keys == keysOf(m)
        tokens[i \in 0..Len(keys)] ==
            IF i = 0 THEN <<Len(keys)>>
            ELSE tokens[i - 1] \o (<<keys[i]>> \o ValueWriteVec(m[keys[i]]))
    IN  tokens[Len(keys)]

\* Reads return what they read and the new off.  A container ends early when
\* the buffer does.
ValueReadVec(buf, off) ==
    LET len == buf[off + 1]
        n == IF off + 1 + len <= Len(buf) THEN len ELSE Len(buf) - off - 1
    IN  [value |-> SubSeq(buf, off + 2, off + 1 + n), off |-> off + 1 + n]

\* insert leaves a key that is there already as it is.
ReadElement(buf, st) ==
    IF st.off = Len(buf) THEN st
    ELSE LET key == buf[st.off + 1]
             v   == ValueReadVec(buf, st.off + 1)
         IN  [value |-> [k \in DOMAIN st.value \cup {key} |->
                            IF k \in DOMAIN st.value THEN st.value[k] ELSE v.value],
              off |-> v.off]

ValueReadMap(buf, off, old) ==
    LET len == buf[off + 1]
        st[i \in 0..len] ==
            IF i = 0 THEN [value |-> old, off |-> off + 1] ELSE ReadElement(buf, st[i - 1])
    IN  st[len]
-----------------------------------------------------------------------------
(* JSON: a vector is an array, a map an object with the keys as strings.   *)

Ints == 0..9
atoi(s) == CHOOSE i \in Ints : ToString(i) = s

writeJson(m) ==
    LET names == {ToString(k) : k \in DOMAIN m} IN [n \in names |-> m[atoi(n)]]

readJson(obj, old) ==
    LET keys == {atoi(n) : n \in DOMAIN obj}
    IN  [k \in keys \cup DOMAIN old |-> IF k \in keys THEN obj[ToString(k)] ELSE old[k]]
-----------------------------------------------------------------------------
(* What the theorems about this module need to know of ToString and of     *)
(* SetToSortSeq: numbers have names of their own, and keysOf lists the     *)
(* keys of a map.                                                          *)

ASSUME RpcNames == \A i, j \in Ints \cup 1..MaxCalls : ToString(i) = ToString(j) => i = j

ASSUME RpcMaps == \A m \in RpcArgs : DOMAIN m \subseteq Ints /\ m \in [DOMAIN m -> Seq(Int)]

ASSUME RpcKeys ==
    \A m \in RpcArgs :
        /\ Len(keysOf(m)) \in Nat /\ keysOf(m) \in [1..Len(keysOf(m)) -> DOMAIN m]
        /\ \A k \in DOMAIN m : \E i \in 1..Len(keysOf(m)) : keysOf(m)[i] = k
-----------------------------------------------------------------------------
(* Messages. *)

\* Caller::call of a function that takes a map.
callMap(id, name, m) ==
    IF protocol = "json" THEN [name |-> name, parm |-> [n \in {"0"} |-> writeJson(m)], req_id |-> id]
    ELSE <<id, name>> \o ValueWriteMap(m)

\* Caller::call of rpc_reply.
callReply(id, message) ==
    IF protocol = "json"
    THEN [name |-> "rpc_reply", req_id |-> -1,
          parm |-> [n \in {"0", "1"} |-> IF n = "0" THEN id ELSE message]]
    ELSE <<-1, "rpc_reply", id, message>>

req_id(msg) == IF protocol = "json" THEN msg.req_id ELSE msg[1]
name(msg) == IF protocol = "json" THEN msg.name ELSE msg[2]
intArg(msg) == IF protocol = "json" THEN msg.parm["0"] ELSE msg[3]
stringArg(msg) == IF protocol = "json" THEN msg.parm["1"] ELSE msg[4]

\* Mutant: the argument is not cleared before it is read.
mapArg_keeps(msg, old) ==
    IF protocol = "json" THEN readJson(msg.parm["0"], old) ELSE ValueReadMap(msg, 2, old).value

clear(value) == EmptyMap

\* Eval: the argument is cleared and read.
mapArg(msg, old) ==
    IF protocol = "json" THEN readJson(msg.parm["0"], clear(old))
    ELSE ValueReadMap(msg, 2, clear(old)).value
-----------------------------------------------------------------------------
RpcInit ==
    /\ protocol \in {"json", "msgpack"}
    /\ mNextID = [s \in Sides |-> 0]
    /\ mResponseCallbacks = [s \in Sides |-> <<>>]
    /\ mTuple = [s \in Sides |-> EmptyMap]
    /\ rpcWire = [s \in Sides |-> <<>>]
    /\ requests = {} /\ rpcBroken = FALSE /\ rpcCalls = <<>>

\* The id of a call by s: a new one when there is a callback.
makeNextID(s, callback) == IF callback THEN mNextID[s] + 1 ELSE -1

insert(table, key, c) == [k \in DOMAIN table \cup {key} |-> IF k = key THEN c ELSE table[k]]

insertFunction(s, callback) ==
    IF callback
    THEN /\ mNextID' = [mNextID EXCEPT ![s] = @ + 1]
         /\ mResponseCallbacks' = [mResponseCallbacks EXCEPT
                ![s] = insert(@, ToString(mNextID[s] + 1), Len(rpcCalls) + 1)]
    ELSE UNCHANGED <<mNextID, mResponseCallbacks>>

\* The history of a call, and its message on the way.
Sent(s, arg, callback, answers, msg) ==
    /\ rpcCalls' = Append(rpcCalls, [by |-> s, arg |-> arg, callback |-> callback,
                                     answers |-> answers, got |-> <<>>, ran |-> <<>>])
    /\ rpcWire' = [rpcWire EXCEPT ![Other(s)] = Append(@, [call |-> Len(rpcCalls) + 1, msg |-> msg])]

call(s, m, callback) ==
    /\ Len(rpcCalls) < MaxCalls
    /\ Sent(s, m, callback, 0, callMap(makeNextID(s, callback), "f", m))
    /\ insertFunction(s, callback)
    /\ UNCHANGED <<protocol, mTuple, requests, rpcBroken>>

\* The inner call is made before the outer one, which has no callback.
reply(r, m, callback) ==
    /\ Len(rpcCalls) < MaxCalls
    /\ Sent(r.side, m, callback, r.call,
            callReply(r.id, callMap(makeNextID(r.side, callback), ToString(r.id), m)))
    /\ insertFunction(r.side, callback)
    /\ requests' = requests \ {r}
    /\ UNCHANGED <<protocol, mTuple, rpcBroken>>

\* The user's function, or callback, got a request it can answer.
Holding(s, id, c) == IF id = -1 THEN {} ELSE {[side |-> s, id |-> id, call |-> c]}

\* Mutant: the callback stays.
del_keeps(table, key) == table

del(table, key) == [k \in DOMAIN table \ {key} |-> table[k]]

handleCall(s) ==
    LET in == Head(rpcWire[s])
        arg == mapArg(in.msg, mTuple[s])
    IN  /\ name(in.msg) = "f"
        /\ mTuple' = [mTuple EXCEPT ![s] = arg]
        /\ rpcCalls' = [rpcCalls EXCEPT ![in.call].got = Append(@, arg)]
        /\ requests' = requests \cup Holding(s, req_id(in.msg), in.call)
        /\ UNCHANGED <<mResponseCallbacks, rpcBroken>>

\* rpc_reply: handleResponse and then del.  Each callback has its own argument.
handleReply(s) ==
    LET in == Head(rpcWire[s])
        inner == stringArg(in.msg)
        key == name(inner)
        arg == mapArg(inner, EmptyMap)
        c == mResponseCallbacks[s][key]
    IN  /\ name(in.msg) = "rpc_reply"
        /\ IF key \in DOMAIN mResponseCallbacks[s]
           THEN /\ rpcCalls' = [rpcCalls EXCEPT ![in.call].got = Append(@, arg),
                                                ![c].ran = Append(@, in.call)]
                /\ requests' = requests \cup Holding(s, req_id(inner), in.call)
                /\ UNCHANGED rpcBroken
           ELSE rpcBroken' = TRUE /\ UNCHANGED <<rpcCalls, requests>>
        /\ mResponseCallbacks' = [mResponseCallbacks EXCEPT ![s] = del(@, ToString(intArg(in.msg)))]
        /\ UNCHANGED mTuple

handleRpc(s) ==
    /\ rpcWire[s] # <<>>
    /\ rpcWire' = [rpcWire EXCEPT ![s] = Tail(@)]
    /\ handleCall(s) \/ handleReply(s)
    /\ UNCHANGED <<protocol, mNextID>>

RpcNext ==
    \/ \E s \in Sides, m \in RpcArgs, callback \in BOOLEAN : call(s, m, callback)
    \/ \E r \in requests, m \in RpcArgs, callback \in BOOLEAN : reply(r, m, callback)
    \/ \E s \in Sides : handleRpc(s)

RpcSpec == RpcInit /\ [][RpcNext]_rpcVars
-----------------------------------------------------------------------------
(***************************************************************************)
(* With several requests open in both directions, answered in any order,   *)
(* and answers that ask for an answer, every answer runs the callback of   *)
(* the call it answers, once; a callback waits in mResponseCallbacks       *)
(* exactly until then, and no message names a function that is not there   *)
(* (the assertion in execute).                                             *)
(***************************************************************************)
AnswersFindTheirCall ==
    /\ ~ rpcBroken
    /\ \A c \in DOMAIN rpcCalls :
         /\ Len(rpcCalls[c].ran) <= 1
         /\ \A i \in DOMAIN rpcCalls[c].ran : rpcCalls[rpcCalls[c].ran[i]].answers = c
         /\ rpcCalls[c].callback /\ rpcCalls[c].ran = <<>>
              <=> c \in {mResponseCallbacks[rpcCalls[c].by][k] :
                           k \in DOMAIN mResponseCallbacks[rpcCalls[c].by]}

(***************************************************************************)
(* Functions and callbacks get the argument their caller passed, once,     *)
(* although the argument object of a function is used again by every call  *)
(* (clear in RpcCommon.h) and maps and vectors are read into it piece by   *)
(* piece.                                                                  *)
(***************************************************************************)
ArgumentsArrive ==
    \A c \in DOMAIN rpcCalls :
        /\ Len(rpcCalls[c].got) <= 1
        /\ \A i \in DOMAIN rpcCalls[c].got : rpcCalls[c].got[i] = rpcCalls[c].arg
=============================================================================
