------------------------------- MODULE RWList -------------------------------
(***************************************************************************)
(* utils/rwlist.c: three stacks between one writing and one reading        *)
(* thread.  The writer tests shared and local_read before it takes the     *)
(* mutex, and swaps without a second test.                                 *)
(*                                                                         *)
(* The stacks are those of stack.h, a library that is not in the           *)
(* repository: deques of elements that grow when full.                     *)
(***************************************************************************)
EXTENDS Naturals, Sequences

CONSTANTS
    MaxRwMsgs,          \* bound: elements pushed
    MaxPending          \* max_pengding_num

ASSUME RWListAssumption == MaxRwMsgs \in Nat /\ MaxPending \in Nat

VARIABLES
    local_write, shared, local_read,
    rwWriter,           \* the writer: "idle", or past a test and about to lock
                        \* for a swap ("swap") or to move elements ("move")
    rwReader,           \* the reader: "idle", about to lock ("lock"), or asleep
                        \* in ox_thread_cond_timewait ("wait")
    rwPushed, rwPopped  \* history

rwVars == <<local_write, shared, local_read, rwWriter, rwReader, rwPushed, rwPopped>>

RWListInit ==
    /\ local_write = <<>> /\ shared = <<>> /\ local_read = <<>>
    /\ rwWriter = "idle" /\ rwReader = "idle"
    /\ rwPushed = 0 /\ rwPopped = <<>>

\* The test of rwlist_sync_write, which ox_rwlist_push and ox_rwlist_flush share.
NothingAhead == shared = <<>> /\ local_read = <<>>

ox_rwlist_push ==
    /\ rwWriter = "idle"
    /\ rwPushed < MaxRwMsgs
    /\ rwPushed' = rwPushed + 1
    /\ local_write' = Append(local_write, rwPushed + 1)
    /\ rwWriter' = IF Len(local_write') > MaxPending /\ NothingAhead THEN "swap" ELSE "idle"
    /\ UNCHANGED <<shared, local_read, rwReader, rwPopped>>

\* Mutant: the test is left out.
ox_rwlist_flush_untested ==
    /\ rwWriter = "idle" /\ local_write # <<>>
    /\ rwWriter' = "swap"
    /\ UNCHANGED <<local_write, shared, local_read, rwReader, rwPushed, rwPopped>>

ox_rwlist_flush ==
    /\ rwWriter = "idle"
    /\ local_write # <<>>
    /\ NothingAhead
    /\ rwWriter' = "swap"
    /\ UNCHANGED <<local_write, shared, local_read, rwReader, rwPushed, rwPopped>>

ox_rwlist_force_flush ==
    /\ rwWriter = "idle"
    /\ local_write # <<>>
    /\ rwWriter' = IF shared = <<>> THEN "swap" ELSE "move"
    /\ UNCHANGED <<local_write, shared, local_read, rwReader, rwPushed, rwPopped>>

\* The critical section of rwlist_sync_write and of force_flush's first branch.
\* Only the first of the two signals, which shortens the reader's wait.
swapWrite ==
    /\ rwWriter = "swap"
    /\ shared' = local_write /\ local_write' = shared
    /\ rwWriter' = "idle"
    /\ UNCHANGED <<local_read, rwReader, rwPushed, rwPopped>>

moveWrite ==
    /\ rwWriter = "move"
    /\ shared' = shared \o local_write /\ local_write' = <<>>
    /\ rwWriter' = "idle"
    /\ UNCHANGED <<local_read, rwReader, rwPushed, rwPopped>>

\* rwlist_sync_read's test, once ox_rwlist_sync_read, front or pop has found
\* local_read empty.
rwlist_sync_read(timeout) ==
    /\ rwReader = "idle"
    /\ local_read = <<>>
    /\ timeout > 0 \/ shared # <<>>
    /\ rwReader' = IF timeout > 0 /\ shared = <<>> THEN "wait" ELSE "lock"
    /\ UNCHANGED <<local_write, shared, local_read, rwWriter, rwPushed, rwPopped>>

\* A signal, or the timeout.
endWait ==
    /\ rwReader = "wait"
    /\ rwReader' = "lock"
    /\ UNCHANGED <<local_write, shared, local_read, rwWriter, rwPushed, rwPopped>>

swapRead ==
    /\ rwReader = "lock"
    /\ IF shared # <<>> THEN local_read' = shared /\ shared' = local_read
       ELSE UNCHANGED <<shared, local_read>>
    /\ rwReader' = "idle"
    /\ UNCHANGED <<local_write, rwWriter, rwPushed, rwPopped>>

\* ox_rwlist_pop and ox_rwlist_once_pop, with something to pop.
ox_rwlist_pop ==
    /\ rwReader = "idle"
    /\ local_read # <<>>
    /\ rwPopped' = Append(rwPopped, Head(local_read))
    /\ local_read' = Tail(local_read)
    /\ UNCHANGED <<local_write, shared, rwWriter, rwReader, rwPushed>>

RWListNext ==
    \/ ox_rwlist_push \/ ox_rwlist_flush \/ ox_rwlist_force_flush \/ swapWrite \/ moveWrite
    \/ (\E timeout \in {0, 1} : rwlist_sync_read(timeout)) \/ endWait \/ swapRead
    \/ ox_rwlist_pop

RWListSpec == RWListInit /\ [][RWListNext]_rwVars

(***************************************************************************)
(* The three stacks are one FIFO queue: no element is lost, delivered      *)
(* twice or overtaken, although the writer acts on tests it made before it *)
(* had the mutex (lines 103, 123, 228).                                    *)
(***************************************************************************)
RwFifo == INSTANCE Fifo WITH fifo <- local_read \o shared \o local_write,
                             in <- rwPushed, out <- rwPopped

RwImplementsFifo == RwFifo!Spec
=============================================================================
