----------------------------- MODULE MCLibrary -----------------------------
(***************************************************************************)
(* One instance of each component that works for one caller and shares     *)
(* nothing with the others.  A behaviour is one of one of them.            *)
(***************************************************************************)
EXTENDS MsgQueue, Coroutine, Timeaction, Pools, Buffer, MCPacket, WebSocket, MCHttp, Rpc

\* Two type pools, with elements of 1 and of 2 bytes.
Lens == <<1, 2>>

\* Arguments with keys in common.
Args == {EmptyMap, 1 :> <<5>> @@ 2 :> <<>>, 1 :> <<6, 7>>}

VARIABLE part

vars == <<part, mqVars, coVars, taVars, poolsVars, bufferVars, packetVars, wsVars, httpVars, rpcVars>>

Init ==
    /\ part \in {"msgqueue", "coroutine", "timeaction", "pools", "buffer",
                "packet", "websocket", "http", "rpc"}
    /\ MsgQueueInit /\ CoroutineInit /\ TimeactionInit /\ PoolsInit
    /\ BufferInit /\ PacketInit /\ WebSocketInit /\ HttpInit
    /\ RpcInit
    \* The parts that do not run start in one way.
    /\ part # "coroutine" => coBuild = "fiber"
    /\ part # "packet" => mBigEndian /\ mIsAutoMalloc
    /\ part # "websocket" => wsMasking
    /\ part # "rpc" => protocol = "json"

Next ==
    /\ UNCHANGED part
    /\ \/ /\ part = "msgqueue" /\ MsgQueueNext
          /\ UNCHANGED <<coVars, taVars, poolsVars, bufferVars, packetVars, wsVars, httpVars, rpcVars>>
       \/ /\ part = "coroutine" /\ CoroutineNext
          /\ UNCHANGED <<mqVars, taVars, poolsVars, bufferVars, packetVars, wsVars, httpVars, rpcVars>>
       \/ /\ part = "timeaction" /\ TimeactionNext
          /\ UNCHANGED <<mqVars, coVars, poolsVars, bufferVars, packetVars, wsVars, httpVars, rpcVars>>
       \/ /\ part = "pools" /\ PoolsNext
          /\ UNCHANGED <<mqVars, coVars, taVars, bufferVars, packetVars, wsVars, httpVars, rpcVars>>
       \/ /\ part = "buffer" /\ BufferNext
          /\ UNCHANGED <<mqVars, coVars, taVars, poolsVars, packetVars, wsVars, httpVars, rpcVars>>
       \/ /\ part = "packet" /\ PacketNext
          /\ UNCHANGED <<mqVars, coVars, taVars, poolsVars, bufferVars, wsVars, httpVars, rpcVars>>
       \/ /\ part = "websocket" /\ WebSocketNext
          /\ UNCHANGED <<mqVars, coVars, taVars, poolsVars, bufferVars, packetVars, httpVars, rpcVars>>
       \/ /\ part = "http" /\ HttpNext
          /\ UNCHANGED <<mqVars, coVars, taVars, poolsVars, bufferVars, packetVars, wsVars, rpcVars>>
       \/ /\ part = "rpc" /\ RpcNext
          /\ UNCHANGED <<mqVars, coVars, taVars, poolsVars, bufferVars, packetVars, wsVars, httpVars>>

Spec == Init /\ [][Next]_vars
=============================================================================
