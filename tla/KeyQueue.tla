------------------------------ MODULE KeyQueue ------------------------------
(***************************************************************************)
(* What the keyboard stream of src/kernel/stream.c promises to the         *)
(* interrupt handler that fills it and to the thread that empties it: a    *)
(* bounded first-in first-out queue that refuses a character when full.    *)
(***************************************************************************)
EXTENDS Naturals, Sequences

CONSTANTS Chars, Capacity

VARIABLE queue

Init == queue = <<>>

Put(c) == Len(queue) < Capacity /\ queue' = Append(queue, c)
Get    == queue # <<>> /\ queue' = Tail(queue)

Next == Get \/ \E c \in Chars : Put(c)

Spec == Init /\ [][Next]_queue
=============================================================================
