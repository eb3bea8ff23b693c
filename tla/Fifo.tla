-------------------------------- MODULE Fifo --------------------------------
(***************************************************************************)
(* What a queue between a writing and a reading thread promises, however   *)
(* it batches: elements come out in the order in which they went in, each  *)
(* one once.                                                               *)
(***************************************************************************)
EXTENDS Naturals, Sequences

VARIABLES fifo, in, out     \* queued elements, how many went in, what came out

Init == fifo = <<>> /\ in = 0 /\ out = <<>>

Put == in' = in + 1 /\ fifo' = Append(fifo, in + 1) /\ UNCHANGED out

Take == /\ fifo # <<>>
        /\ out' = Append(out, Head(fifo))
        /\ fifo' = Tail(fifo)
        /\ UNCHANGED in

Spec == Init /\ [][Put \/ Take]_<<fifo, in, out>>
=============================================================================
