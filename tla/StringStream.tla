------------------------------ MODULE StringStream ------------------------------
(***************************************************************************)
(* Numbers read through a stringstream that is used again and again, as    *)
(* search_server.cc and db_info.hpp do.  A param is the number a string    *)
(* begins with (0 if it begins with none) and whether characters follow    *)
(* that belong to no number.                                               *)
(***************************************************************************)
EXTENDS Integers

\* Mutant: ss.clear() is forgotten, so a number read to its end is the last one.
ReadNumberUncleared(stuck, param) ==
  [n |-> IF stuck THEN 0 ELSE param.n, stuck |-> TRUE]

\* ss << param; ss >> n; ss.clear(): clear() resets the state of the stream
\* and not its text, so what no number could be read from stays in front of
\* all that comes later.
ReadNumber(stuck, param) ==
  [n |-> IF stuck THEN 0 ELSE param.n, stuck |-> stuck \/ param.rest]
=============================================================================
