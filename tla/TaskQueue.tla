------------------------------ MODULE TaskQueue ------------------------------
(***************************************************************************)
(* What an EventLoop promises to the code that posts procs to it, without  *)
(* any thread, lock, flag or eventfd: two FIFO lanes of procs that have    *)
(* been posted and not yet run, and the order in which procs were run.     *)
(* EventLoop.tla is shown to implement this module.                        *)
(*                                                                         *)
(*   async   procs posted with pushAsyncProc from another thread           *)
(*   after   procs posted with pushAfterLoopProc by the loop thread        *)
(***************************************************************************)
EXTENDS Naturals, Sequences

CONSTANT Procs      \* identities of the posted procs

VARIABLES
    async,          \* Seq(Procs): posted from other threads, not yet run
    after,          \* Seq(Procs): posted for the end of a loop, not yet run
    ran             \* Seq(Procs): procs in the order in which they were run

vars == <<async, after, ran>>

Init == async = <<>> /\ after = <<>> /\ ran = <<>>

\* A proc is posted at most once and never comes back once it has run.
In(x, q) == \E i \in 1..Len(q) : q[i] = x
Fresh(x) == ~ In(x, async) /\ ~ In(x, after) /\ ~ In(x, ran)

Post(x) == /\ Fresh(x)
           /\ async' = Append(async, x)
           /\ UNCHANGED <<after, ran>>

\* What the body of a running callback may do: nothing, post for the end of
\* the loop, or push in the loop thread, which runs the proc on the spot.
\* "log" is the history once the callback itself has been recorded, "rest"
\* the after lane once it has been removed from it.
Body(log, rest) ==
    \/ ran' = log /\ after' = rest
    \/ \E x \in Procs : Fresh(x) /\ ran' = log /\ after' = Append(rest, x)
    \/ \E x \in Procs : Fresh(x) /\ ran' = Append(log, x) /\ after' = rest

RunAsync == /\ async # <<>>
            /\ async' = Tail(async)
            /\ Body(Append(ran, Head(async)), after)

RunAfter == /\ after # <<>>
            /\ UNCHANGED async
            /\ Body(Append(ran, Head(after)), Tail(after))

\* Callbacks of channels and timers, which were not posted to a lane.
Callback == Body(ran, after) /\ UNCHANGED async

Next == \/ \E x \in Procs : Post(x)
        \/ RunAsync
        \/ RunAfter
        \/ Callback

Spec == Init /\ [][Next]_vars
=============================================================================
