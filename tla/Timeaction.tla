----------------------------- MODULE Timeaction -----------------------------
(***************************************************************************)
(* utils/timeaction.c: timers in an array of nodes, a heap of the ids of   *)
(* those that are set and a stack of the ids that are not.  Deleting a     *)
(* timer only clears its callback; the id comes back when the scheduler    *)
(* meets it at the top of the heap.  Callbacks add and delete timers       *)
(* while the scheduler runs.                                               *)
(*                                                                         *)
(* Timers are numbered.  A holder deletes a timer that has not fired: an   *)
(* id is only a number, and ox_timer_mgr_del with an old one would clear   *)
(* the callback of whoever has the node by then.  The heap and the stack   *)
(* come from a library that is not in the repository.                      *)
(***************************************************************************)
EXTENDS Integers, Sequences, FiniteSets

CONSTANTS
    TimerNodes,         \* nodes ox_timer_mgr_new makes
    MaxTimers,          \* bound: timers added
    MaxNow              \* bound: the clock

ASSUME TimeactionAssumption ==
    TimerNodes \in Nat \ {0} /\ MaxTimers \in Nat /\ MaxNow \in Nat

VARIABLES
    node_array,         \* 0-based id -> left_time, the timer, callback is set
    free_node_ids, heap,
    clock,
    scheduling,         \* the scheduler's now while it runs, or -1
    timers              \* history: id, due time and fate of each timer

taVars == <<node_array, free_node_ids, heap, clock, scheduling, timers>>

NoNode == [left_time |-> 0, timer |-> 0, callback |-> FALSE]
Count(from, to) == [i \in 1..(to - from) |-> from + i - 1]

TimeactionInit ==
    /\ node_array = [i \in 0..(TimerNodes - 1) |-> NoNode]
    /\ free_node_ids = Count(0, TimerNodes)
    /\ heap = {} /\ clock = 0 /\ scheduling = -1 /\ timers = <<>>

NodeNum == Cardinality(DOMAIN node_array)

\* timeaction_mgr_init on a manager whose ids are all in use.
timeaction_mgr_init(num) ==
    [nodes |-> [i \in 0..(num - 1) |-> IF i < NodeNum THEN node_array[i] ELSE NoNode],
     ids |-> free_node_ids \o Count(NodeNum, num)]

\* An id of the free stack, or of the bigger one.
ox_timer_mgr_add(delay) ==
    /\ Len(timers) < MaxTimers
    /\ LET mgr == IF free_node_ids = <<>> THEN timeaction_mgr_init(2 * NodeNum)
                  ELSE [nodes |-> node_array, ids |-> free_node_ids]
           id == mgr.ids[Len(mgr.ids)]
           t == Len(timers) + 1
       IN  /\ free_node_ids' = SubSeq(mgr.ids, 1, Len(mgr.ids) - 1)
           /\ node_array' = [mgr.nodes EXCEPT ![id] =
                  [left_time |-> clock + delay, timer |-> t, callback |-> TRUE]]
           /\ heap' = heap \cup {id}
           /\ timers' = Append(timers, [id |-> id, due |-> clock + delay, fate |-> "set"])
    /\ UNCHANGED <<clock, scheduling>>

\* Mutant: the id is free at once.
ox_timer_mgr_del_frees(t) ==
    /\ timers[t].fate = "set"
    /\ node_array' = [node_array EXCEPT ![timers[t].id].callback = FALSE]
    /\ free_node_ids' = Append(free_node_ids, timers[t].id)
    /\ timers' = [timers EXCEPT ![t].fate = "deleted"]
    /\ UNCHANGED <<heap, clock, scheduling>>

ox_timer_mgr_del(t) ==
    /\ timers[t].fate = "set"
    /\ node_array' = [node_array EXCEPT ![timers[t].id].callback = FALSE]
    /\ timers' = [timers EXCEPT ![t].fate = "deleted"]
    /\ UNCHANGED <<free_node_ids, heap, clock, scheduling>>

\* The clock is read once.
ox_timer_mgr_schedule ==
    /\ scheduling = -1
    /\ scheduling' = clock
    /\ UNCHANGED <<node_array, free_node_ids, heap, clock, timers>>

Top(id) == id \in heap /\ \A j \in heap : node_array[id].left_time <= node_array[j].left_time

\* One round of the scheduler's while, on a node that is deleted or due.  The
\* callback's own adds and deletes are the actions above.
scheduleTop(id) ==
    /\ scheduling # -1
    /\ Top(id)
    /\ LET node == node_array[id] IN
        /\ node.callback => node.left_time <= scheduling
        /\ timers' = IF node.callback THEN [timers EXCEPT ![node.timer].fate = "fired"]
                     ELSE timers
    /\ heap' = heap \ {id}
    /\ free_node_ids' = Append(free_node_ids, id)
    /\ UNCHANGED <<node_array, clock, scheduling>>

scheduleReturns ==
    /\ scheduling # -1
    /\ heap = {} \/ \E id \in heap : /\ Top(id)
                                     /\ node_array[id].callback
                                     /\ node_array[id].left_time > scheduling
    /\ scheduling' = -1
    /\ UNCHANGED <<node_array, free_node_ids, heap, clock, timers>>

clockTicks ==
    /\ clock < MaxNow
    /\ clock' = clock + 1
    /\ UNCHANGED <<node_array, free_node_ids, heap, scheduling, timers>>

TimeactionNext ==
    \/ \E delay \in -1..1 : ox_timer_mgr_add(delay)
    \/ \E t \in 1..Len(timers) : ox_timer_mgr_del(t)
    \/ ox_timer_mgr_schedule \/ (\E id \in heap : scheduleTop(id)) \/ scheduleReturns
    \/ clockTicks

TimeactionSpec == TimeactionInit /\ [][TimeactionNext]_taVars
-----------------------------------------------------------------------------
(***************************************************************************)
(* A node is on the heap or on the free stack, once, across growth, late   *)
(* deletes and callbacks that change the timers under the scheduler; a     *)
(* timer that is set owns a node that will call it, nobody else's node     *)
(* calls it, and none has fired before its time.                           *)
(***************************************************************************)
TimersSound ==
    /\ heap \cup {free_node_ids[i] : i \in 1..Len(free_node_ids)} = DOMAIN node_array
    /\ Cardinality(heap) + Len(free_node_ids) = NodeNum
    /\ \A t \in 1..Len(timers) :
        LET id == timers[t].id IN
        /\ timers[t].fate = "set" <=>
              id \in heap /\ node_array[id].callback /\ node_array[id].timer = t
        /\ timers[t].fate = "fired" => timers[t].due <= clock
=============================================================================
