------------------------------ MODULE WeightList ------------------------------
(***************************************************************************)
(* The weight column of one row of the reverse index, and how              *)
(* ReverseValuateStrategy::handle updates it for one page                  *)
(* (update_weight, strategy/reverse_valuate_strategy.hpp:196-345).         *)
(*                                                                         *)
(* The column is a string "nums|weight_no|weight_no|..." which is here a   *)
(* record: the number in front, and the sequence of the nodes.  The        *)
(* number is kept apart from the length of the sequence because the code   *)
(* never counts the nodes: it trusts the number.                           *)
(***************************************************************************)
EXTENDS Integers, SequencesExt

Node == [weight : Nat, no : Nat]

Row == [nums : Int, nodes : Seq(Node)]

\* The default of the column, "1|0_0": one node for no page.
DefaultRow == [nums |-> 1, nodes |-> <<[weight |-> 0, no |-> 0]>>]

HasNode(nodes, no) == \E i \in DOMAIN nodes : nodes[i].no = no

\* Mutant: the node in the middle is cut out, the number in front forgotten.
WithoutNodeUncounted(row, no) ==
  IF HasNode(row.nodes, no)
  THEN [row EXCEPT !.nodes = RemoveFirstMatch(@, LAMBDA n : n.no = no)]
  ELSE row

\* The row after the node of page no was cut out, if it has one.
WithoutNode(row, no) ==
  IF HasNode(row.nodes, no)
  THEN [nums |-> row.nums - 1,
        nodes |-> RemoveFirstMatch(row.nodes, LAMBDA n : n.no = no)]
  ELSE row

\* Mutant: the comparison of the weights is turned round.
PlaceTurned(nodes, weight) ==
  LET i == SelectInSeq(nodes, LAMBDA n : n.weight > weight)
  IN  IF i = 0 THEN Len(nodes) + 1 ELSE i

\* In front of the first node whose weight is not greater, or at the end.
Place(nodes, weight) ==
  LET i == SelectInSeq(nodes, LAMBDA n : n.weight <= weight)
  IN  IF i = 0 THEN Len(nodes) + 1 ELSE i

\* The row after a page of this number and weight was indexed in it; at most
\* maxUrls nodes are kept.
UpdateWeight(row, no, weight, maxUrls) ==
  LET node == [weight |-> weight, no |-> no]
      rest == WithoutNode(row, no)
      nodes == InsertAt(rest.nodes, Place(rest.nodes, weight), node)
  IN  IF weight = 0 THEN row
      ELSE IF row.nums = 1 /\ HasNode(row.nodes, no)
           THEN [nums |-> 1, nodes |-> <<node>>]
      ELSE IF rest.nums = maxUrls
           THEN [nums |-> rest.nums, nodes |-> Front(nodes)]
      ELSE [nums |-> rest.nums + 1, nodes |-> nodes]

-----------------------------------------------------------------------------
\* The number in front is the number of the nodes, no page has two nodes, and
\* the nodes are sorted, the greatest weight first.
WellFormed(row, maxUrls) ==
  /\ row.nums = Len(row.nodes)
  /\ Len(row.nodes) \in 1 .. maxUrls
  /\ \A i, j \in DOMAIN row.nodes :
       i < j => /\ row.nodes[i].weight >= row.nodes[j].weight
                /\ row.nodes[i].no # row.nodes[j].no
=============================================================================
