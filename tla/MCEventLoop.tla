----------------------------- MODULE MCEventLoop -----------------------------
(***************************************************************************)
(* EventLoop for TLC: two posting threads, one socket, an event array that *)
(* starts with room for one event, so that a full array, a wakeup event    *)
(* left for the next epoll_wait and the array's growth all happen.         *)
(***************************************************************************)
EXTENDS EventLoop, TLC

ProducerSymmetry == Permutations(Producers)
=============================================================================
