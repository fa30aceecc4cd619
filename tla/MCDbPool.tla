------------------------------- MODULE MCDbPool -------------------------------
(***************************************************************************)
(* A pool of few connections for TLC.                                      *)
(***************************************************************************)
EXTENDS DbPool, TLC

ConnectionsAlike == Permutations(Conn)
=============================================================================
