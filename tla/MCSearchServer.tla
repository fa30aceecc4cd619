---------------------------- MODULE MCSearchServer ----------------------------
(***************************************************************************)
(* Two words, three pages, two workers and a search server for TLC.  Page 2 *)
(* is one that both workers fetched at the same time; v2 is a stop word.   *)
(***************************************************************************)
EXTENDS SearchServer

CONSTANTS w1, w2, v1, v2

Weights == [p \in PageNo |->
              [word \in Word |-> CASE word = v1 -> <<10, 5, 10>>[p]
                                  [] word = v2 -> <<3, 0, 0>>[p]]]

Shares == [w \in Worker |-> IF w = w1 THEN {1, 2} ELSE {2, 3}]

Sentences == {[word \in Word |-> IF word = v1 THEN 2 ELSE 1]}

Params == {[n |-> 1, rest |-> FALSE], [n |-> 2, rest |-> FALSE], [n |-> 2, rest |-> TRUE]}
=============================================================================
