----------------------------- MODULE BoundedFifo -----------------------------
(***************************************************************************)
(* What a ring of the spider's shared memory promises to the workers: a    *)
(* first-in first-out queue that never holds more than Capacity elements,  *)
(* loses none, duplicates none and reorders none.                          *)
(***************************************************************************)
EXTENDS Integers, Sequences

CONSTANTS Elem, Capacity

VARIABLE fifo

Init == fifo = << >>

Put == \E e \in Elem :
         /\ Len(fifo) < Capacity
         /\ fifo' = Append(fifo, e)

Take == /\ fifo # << >>
        /\ fifo' = Tail(fifo)

Next == Put \/ Take

Spec == Init /\ [][Next]_fifo
=============================================================================
