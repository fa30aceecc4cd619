------------------------------- MODULE ShmRing -------------------------------
(***************************************************************************)
(* The index arithmetic of the two rings in the spider's shared memory     *)
(* segment (spider/shmctrl.h).  A ring of N slots numbered 0 .. N-1 is     *)
(* described by the index of its oldest element, h (url_head, html_head),  *)
(* and the index of its first unused slot, t (url_tail, html_tail).  One   *)
(* slot always stays unused, so that a full ring is not mistaken for an    *)
(* empty one.                                                              *)
(***************************************************************************)
EXTENDS Integers, Sequences

RingEmpty(h, t) == h = t

\* Mutant: the wrap-around of the tail is forgotten.
RingFullNoWrap(h, t, N) == t + 1 = h

RingFull(h, t, N) == (t + 1) % N = h

\* Mutant: the index runs off the end of the ring.
RingNextNoWrap(i, N) == i + 1

RingNext(i, N) == (i + 1) % N

RingUsed(h, t, N) == (t - h + N) % N

\* The number of elements a worker may still insert (url_insert_size before
\* it is limited to the number of links).
RingRoom(h, t, N) == IF h = t THEN N - 1 ELSE ((h - t + N) % N) - 1

\* Slot i lies between the head and the tail.
RingHolds(i, h, t) == IF h <= t THEN h <= i /\ i < t ELSE h <= i \/ i < t

\* The elements of the ring, oldest first.
RingContents(slots, h, t, N) ==
  [i \in 1 .. RingUsed(h, t, N) |-> slots[(h + i - 1) % N]]
=============================================================================
