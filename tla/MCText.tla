-------------------------------- MODULE MCText --------------------------------
(***************************************************************************)
(* Small dictionaries, a model of four states, and the inputs of the pure  *)
(* algorithms for TLC.                                                     *)
(***************************************************************************)
EXTENDS TextCases

DictLines ==
  << [word |-> <<"A", "B">>, weight |-> -3], [word |-> <<"A">>, weight |-> -2],
     [word |-> <<"B", "C">>, weight |-> -2], [word |-> <<"A", "B", "C", "A">>, weight |-> -6],
     [word |-> <<"B", "C", "A">>, weight |-> -7], [word |-> <<"C", "A">>, weight |-> -5] >>

UserLines ==
  << [word |-> <<"B">>, weight |-> <<-9>>], [word |-> <<"a", "A">>, weight |-> << >>],
     [word |-> <<"A", "B">>, weight |-> <<-4>>] >>

MinDoubles == -100

StartProbs == [y \in Status |-> CASE y = "B" -> -1 [] y = "S" -> -2 [] OTHER -> MinDoubles]

TransProbs ==
  [y \in Status |->
     [z \in Status |->
        CASE y \in {"B", "M"} /\ z = "E" -> -1 [] y \in {"B", "M"} /\ z = "M" -> -2
          [] y \in {"E", "S"} /\ z = "B" -> -1 [] y \in {"E", "S"} /\ z = "S" -> -2
          [] OTHER -> MinDoubles]]

\* The character C is one the model has never seen.
EmitProbs ==
  [e \in Status \X {"A", "B"} |->
     CASE e = <<"B", "A">> -> -2 [] e = <<"E", "B">> -> -1
       [] e = <<"S", "A">> -> -1 [] e = <<"M", "A">> -> -1 [] OTHER -> -4]

Words == {<< >>, <<"A">>, <<"A", "B">>, <<"A", "B", "A">>, <<"B", "A">>}

Symbols ==
  [text |-> {"A", "B", "C", "a", "1", ".", " "},
   lines |-> [word : Words, weight : {-1, -2}],
   firsts |-> 1 .. 5,
   chars |-> 1 .. 4,
   weights |-> 1 .. 3,
   url |-> {<<"http", ":", "/", "/">>, <<"http", "s", ":", "/", "/">>, <<"www", ".">>,
            <<"a", ".", "a">>, <<"javascript">>, <<"j">>, <<"a">>, <<"A">>, <<".">>, <<"/">>,
            <<"#">>, <<":">>, <<" ">>, <<"\n">>},
   bytes |-> {0, 35, 37, 46, 47, 48, 65, 97, 200, 255},
   file |-> {<<"K", "=">>, <<"V">>, <<"=">>, <<" ">>, <<"#">>, <<"\n">>},
   numbers |-> {<< >>} \cup {<<[n |-> n, rest |-> FALSE]>> : n \in {-1, 0, 1, 2, 5}}
                 \cup {<<[n |-> 2, rest |-> TRUE]>>},
   page |-> {"a", "none", "p", "script", "text", "end"}]

Bounds ==
  [text |-> 5, lines |-> 4, firsts |-> 5, chars |-> 5, weights |-> 6, url |-> 4, bytes |-> 4,
   file |-> 5, numbers |-> 5, page |-> 5,
   size |-> 4, total |-> 9, window |-> 7, cut |-> 12]

Sample == <<"A", "B", "A", "B", "A">>
=============================================================================
