----------------------------- MODULE Coroutine -----------------------------
(***************************************************************************)
(* utils/coroutine.c: a table of coroutines, a list of the ones that may   *)
(* run, and a scheduler that switches to the first of them.  The file has  *)
(* two builds, chosen here by the variable coBuild:                        *)
(*   "ucontext"  all coroutines run on one stack, which a coroutine that   *)
(*               leaves copies away and one that comes back copies in;     *)
(*   "fiber"     each has a stack; ids are handed out and never returned.  *)
(* coroutine_resume passes cos to ox_array_at, which only the second build *)
(* declares and whose type only there is an array: it is modelled there.   *)
(*                                                                         *)
(* A coroutine is numbered when it is made.  Its frame is its number and   *)
(* the switches it has made.                                               *)
(***************************************************************************)
EXTENDS Integers, Sequences, FiniteSets

CONSTANTS
    CoCap,              \* first size of cos (16, or 1024)
    MaxCos,             \* bound: coroutines made
    MaxSwitches         \* bound: switches a coroutine makes

ASSUME CoroutineAssumption == CoCap \in Nat \ {0} /\ MaxCos \in Nat /\ MaxSwitches \in Nat

VARIABLES
    coBuild,
    cos,                \* 0-based id -> coroutine record, or NoCo
    nco,
    coFree,             \* freeids of the fiber build
    active_list,
    running,            \* running, or current: an id, or -1
    coStack,            \* the frame on the one stack
    coMade,             \* coroutines made
    coFrames            \* the frame each coroutine should find when it runs

coVars == <<coBuild, cos, nco, coFree, active_list, running, coStack, coMade, coFrames>>

NoCo == [n |-> 0, state |-> "DEAD", stack |-> <<>>]
Ids == DOMAIN cos
Slots(n) == [i \in 0..(n - 1) |-> NoCo]
FreeIds(from, to) == [i \in 1..(to - from) |-> from + i - 1]

\* coroutine_open.
CoroutineInit ==
    /\ coBuild \in {"ucontext", "fiber"}
    /\ cos = Slots(CoCap) /\ nco = 0
    /\ coFree = IF coBuild = "fiber" THEN FreeIds(0, CoCap) ELSE <<>>
    /\ active_list = <<>> /\ running = -1
    /\ coStack = <<>> /\ coMade = 0 /\ coFrames = <<>>

\* cos with its size doubled (ucontext) or increased by the first size (fiber).
Grown == LET cap == Cardinality(Ids) IN
         [i \in 0..(cap + (IF coBuild = "fiber" THEN CoCap ELSE cap) - 1) |->
             IF i < cap THEN cos[i] ELSE NoCo]

\* The free slot coroutine_new of the ucontext build finds.
newSlot ==
    LET cap == Cardinality(Ids)
        at(i) == (i + nco) % cap
        i == CHOOSE k \in 0..(cap - 1) :
                 cos[at(k)] = NoCo /\ \A j \in 0..(k - 1) : cos[at(j)] # NoCo
    IN  at(i)

Make(id, table) ==
    /\ coMade' = coMade + 1
    /\ coFrames' = Append(coFrames, <<coMade + 1, 0>>)
    /\ cos' = [table EXCEPT ![id] = [n |-> coMade + 1, state |-> "READY", stack |-> <<>>]]
    /\ active_list' = Append(active_list, id)

coroutine_new ==
    /\ coMade < MaxCos
    /\ \/ /\ coBuild = "ucontext"
          /\ IF nco >= Cardinality(Ids) THEN Make(Cardinality(Ids), Grown)
             ELSE Make(newSlot, cos)
          /\ nco' = nco + 1
          /\ UNCHANGED coFree
       \/ /\ coBuild = "fiber"          \* claim_coroutine_id, increase_coroutine
          /\ LET cap == Cardinality(Ids)
                 ids == IF coFree = <<>> THEN FreeIds(cap, cap + CoCap) ELSE coFree
             IN  /\ Make(ids[Len(ids)], IF coFree = <<>> THEN Grown ELSE cos)
                 /\ coFree' = SubSeq(ids, 1, Len(ids) - 1)
          /\ UNCHANGED nco
    /\ UNCHANGED <<coBuild, running, coStack>>

\* A first run starts on a fresh frame, a later one on the saved stack.
coroutine_goto(id) ==
    /\ running' = id
    /\ cos' = [cos EXCEPT ![id].state = "RUNNING"]
    /\ coStack' = IF cos[id].state = "READY" THEN <<cos[id].n, 0>> ELSE cos[id].stack

\* A slot that is empty is skipped (ucontext); the assertions say that the
\* coroutine may run.  It is the main program that calls the scheduler: the
\* ucontext build asserts it (line 128), the fiber build takes it on trust.
coroutine_schedule ==
    /\ running = -1
    /\ active_list # <<>>
    /\ active_list' = Tail(active_list)
    /\ LET id == Head(active_list) IN
        IF cos[id] = NoCo THEN UNCHANGED <<running, cos, coStack>> ELSE coroutine_goto(id)
    /\ UNCHANGED <<coBuild, nco, coFree, coMade, coFrames>>

\* Mutant: the stack is copied when room was made for it only.
save_stack_once == IF cos[running].stack = <<>> THEN coStack' ELSE cos[running].stack

\* _save_stack: what lies on the stack when the coroutine leaves.
save_stack == coStack'

\* The coroutine goes to the end of the list.
coroutine_yield ==
    /\ running # -1
    /\ cos' = [cos EXCEPT ![running].state = "SUSPEND", ![running].stack = save_stack]
    /\ active_list' = Append(active_list, running)

coroutine_block ==
    /\ running # -1
    /\ cos' = [cos EXCEPT ![running].state = "BLOCK", ![running].stack = save_stack]
    /\ UNCHANGED active_list

\* The running coroutine leaves: the frame on the stack has moved on since it
\* came.
switchBack ==
    /\ running # -1
    /\ LET n == cos[running].n IN
        /\ coFrames[n][2] < MaxSwitches
        /\ coFrames' = [coFrames EXCEPT ![n][2] = @ + 1]
    /\ coStack' = [coStack EXCEPT ![2] = @ + 1]
    /\ coroutine_yield \/ coroutine_block
    /\ running' = -1
    /\ UNCHANGED <<coBuild, nco, coFree, coMade>>

\* mainfunc and coroutine_main: the function returned.  The id becomes free in
\* the ucontext build only.
finish ==
    /\ running # -1
    /\ cos' = [cos EXCEPT ![running] = NoCo]
    /\ nco' = IF coBuild = "ucontext" THEN nco - 1 ELSE nco
    /\ running' = -1
    /\ UNCHANGED <<coBuild, coFree, active_list, coStack, coMade, coFrames>>

\* Mutant: a coroutine that waits for its turn is put on the list again.
coroutine_resume_any(id) ==
    /\ coBuild = "fiber" /\ cos[id].state \in {"BLOCK", "SUSPEND"}
    /\ cos' = [cos EXCEPT ![id].state = "SUSPEND"]
    /\ active_list' = Append(active_list, id)
    /\ Len(active_list) < 2 * MaxCos
    /\ UNCHANGED <<coBuild, nco, coFree, running, coStack, coMade, coFrames>>

\* Called by the main program or by the running coroutine.
coroutine_resume(id) ==
    /\ coBuild = "fiber"
    /\ cos[id].state = "BLOCK"
    /\ cos' = [cos EXCEPT ![id].state = "SUSPEND"]
    /\ active_list' = Append(active_list, id)
    /\ UNCHANGED <<coBuild, nco, coFree, running, coStack, coMade, coFrames>>

CoroutineNext ==
    \/ coroutine_new \/ coroutine_schedule \/ switchBack \/ finish
    \/ \E id \in Ids : coroutine_resume(id)

CoroutineSpec == CoroutineInit /\ [][CoroutineNext]_coVars
-----------------------------------------------------------------------------
CoWith(states) == {id \in Ids : cos[id].state \in states}

\* Every coroutine has a slot of its own, and nco counts them, so the search of
\* coroutine_new finds a free one (the assert(0) at line 109).
SlotsSound ==
    /\ \A i, j \in Ids : cos[i] # NoCo /\ cos[i].n = cos[j].n => i = j
    /\ coBuild = "ucontext" => nco = Cardinality({i \in Ids : cos[i] # NoCo})
    /\ \A i \in 1..Len(coFree) : cos[coFree[i]] = NoCo

(***************************************************************************)
(* The list names every coroutine that may run, once, and nothing else,    *)
(* also when a slot was freed and used again: the assertions that the      *)
(* coroutine may run (lines 153, 342) never fail, and no coroutine is      *)
(* forgotten.                                                              *)
(***************************************************************************)
ActiveListSound ==
    /\ {active_list[i] : i \in 1..Len(active_list)} = CoWith({"READY", "SUSPEND"})
    /\ Len(active_list) = Cardinality(CoWith({"READY", "SUSPEND"}))
    /\ CoWith({"RUNNING"}) = (IF running = -1 THEN {} ELSE {running})
    /\ SlotsSound

(***************************************************************************)
(* A coroutine runs on the frame it left, whatever ran on the one stack in *)
(* the meantime (lines 147, 167).                                          *)
(***************************************************************************)
RunsOnItsOwnStack == running # -1 => coStack = coFrames[cos[running].n]
=============================================================================
