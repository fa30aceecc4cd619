---------------------------- MODULE MCReverseIndex ----------------------------
(***************************************************************************)
(* Two words, four pages and two workers for TLC.  Page 2 is one that both *)
(* workers fetched at the same time, pages 1 and 3 weigh the same, page 4  *)
(* does not use the second word at all.                                    *)
(***************************************************************************)
EXTENDS ReverseIndex

CONSTANTS w1, w2, v1, v2

Weights == [p \in PageNo |->
              [word \in Word |-> CASE word = v1 -> <<10, 5, 10, 2>>[p]
                                  [] word = v2 -> <<3, 11, 3, 0>>[p]]]

Shares == [w \in Worker |-> IF w = w1 THEN {1, 2} ELSE {2, 3, 4}]
=============================================================================
