--------------------------- MODULE WeightListProofs ---------------------------
(***************************************************************************)
(* What update_weight does to one row of the reverse index, for every row, *)
(* page, weight and max_url_per_word.  UpdateWeightIs puts it in one rule: *)
(* splice the page's node into the sorted list and cut the list off.  From *)
(* the rule follow that the row stays well formed                          *)
(* (UpdateWeightKeepsTheRow), that the page is in the row or was not good  *)
(* enough for it (IndexedPageIsRanked), and that no other page loses its   *)
(* place to a page that weighs less (OtherPagesStayRanked).                *)
(***************************************************************************)
EXTENDS WeightList, SequenceTheorems, WellFoundedInduction, TLAPS

LEMMA LessRelation ==
  ASSUME NEW x \in Nat, NEW y \in Nat
  PROVE  <<x, y>> \in OpToRel(<, Nat) <=> x < y
  BY DEF OpToRel

\* Every set of numbers that is not empty has a least one.
LEMMA MinIsLeast ==
  ASSUME NEW S \in SUBSET Nat, S # {}
  PROVE  Min(S) \in S /\ \A y \in S : Min(S) <= y
<1>1. PICK x \in S : \A y \in S : ~(<<y, x>> \in OpToRel(<, Nat))
  BY WFMin, NatLessThanWellFounded
<1>2. \A y \in S : ~(y < x)
  BY <1>1, LessRelation
<1>3. \A y \in S : x <= y
  BY <1>2
<1> QED BY <1>3 DEF Min

LEMMA ElementIsNode ==
  ASSUME NEW nodes \in Seq(Node), NEW i \in 1 .. Len(nodes)
  PROVE  nodes[i] \in Node /\ nodes[i].weight \in Nat /\ nodes[i].no \in Nat
<1>1. nodes[i] \in Node
  BY ElementOfSeq
<1> QED BY <1>1 DEF Node

\* Where update_weight puts a node (the search loop, lines 289-321): the
\* nodes in front weigh more, the one behind does not.
LEMMA PlaceIs ==
  ASSUME NEW nodes \in Seq(Node), NEW weight \in Nat
  PROVE  /\ Place(nodes, weight) \in 1 .. Len(nodes) + 1
         /\ \A i \in 1 .. Place(nodes, weight) - 1 : nodes[i].weight > weight
         /\ Place(nodes, weight) <= Len(nodes) =>
              nodes[Place(nodes, weight)].weight <= weight
<1> DEFINE I == {i \in 1 .. Len(nodes) : nodes[i].weight <= weight}
<1>0. Len(nodes) \in Nat /\ \A i \in 1 .. Len(nodes) : nodes[i].weight \in Nat
  BY ElementIsNode
<1>1. I \in SUBSET Nat
  BY <1>0
<1>2. I # {} => Min(I) \in I /\ \A y \in I : Min(I) <= y
  BY <1>1, MinIsLeast
<1>3. SelectInSeq(nodes, LAMBDA n : n.weight <= weight) = IF I # {} THEN Min(I) ELSE 0
  BY Zenon DEF SelectInSeq
<1>4. Place(nodes, weight) = IF I # {} THEN Min(I) ELSE Len(nodes) + 1
  <2>1. I # {} => Min(I) # 0
    BY <1>2, <1>0
  <2> QED BY <1>3, <2>1 DEF Place
<1> HIDE DEF Place
<1>5. CASE I = {}
  BY <1>0, <1>4, <1>5
<1>6. CASE I # {}
  <2>1. /\ Min(I) \in 1 .. Len(nodes)
        /\ nodes[Min(I)].weight <= weight
        /\ \A y \in 1 .. Len(nodes) : nodes[y].weight <= weight => Min(I) <= y
    BY <1>2, <1>6
  <2> DEFINE m == Min(I)
  <2>2. Place(nodes, weight) = m
    BY <1>4, <1>6
  <2> HIDE DEF I, m
  <2>3. \A i \in 1 .. m - 1 : nodes[i].weight > weight
    BY <1>0, <2>1 DEF m
  <2> QED BY <1>0, <2>1, <2>2, <2>3 DEF m
<1> QED BY <1>5, <1>6

LEMMA InsertAtIs ==
  ASSUME NEW S, NEW s \in Seq(S), NEW e \in S, NEW p \in 1 .. Len(s) + 1
  PROVE  /\ InsertAt(s, p, e) \in Seq(S)
         /\ Len(InsertAt(s, p, e)) = Len(s) + 1
         /\ \A i \in 1 .. Len(s) + 1 :
              InsertAt(s, p, e)[i] = IF i < p THEN s[i]
                                     ELSE IF i = p THEN e ELSE s[i - 1]
<1> DEFINE a == SubSeq(s, 1, p - 1)
           b == SubSeq(s, p, Len(s))
<1>0. Len(s) \in Nat
  OBVIOUS
<1>1. /\ a \in Seq(S) /\ Len(a) = p - 1
      /\ \A i \in 1 .. p - 1 : a[i] = s[i]
  BY <1>0, SubSeqProperties
<1>2. /\ b \in Seq(S) /\ Len(b) = Len(s) - p + 1
      /\ \A i \in 1 .. Len(s) - p + 1 : b[i] = s[p + i - 1]
  BY <1>0, SubSeqProperties
<1>3. InsertAt(s, p, e) = (a \o <<e>>) \o b
  BY DEF InsertAt
<1> HIDE DEF a, b
<1>4. /\ a \o <<e>> \in Seq(S) /\ Len(a \o <<e>>) = p
      /\ \A i \in 1 .. p : (a \o <<e>>)[i] = IF i < p THEN s[i] ELSE e
  BY <1>0, <1>1
<1> DEFINE c == a \o <<e>>
<1> HIDE DEF c
<1>5. /\ c \o b \in Seq(S) /\ Len(c \o b) = Len(s) + 1
      /\ \A i \in 1 .. Len(s) + 1 : (c \o b)[i] = IF i <= p THEN c[i] ELSE b[i - p]
  <2>1. c \in Seq(S) /\ Len(c) = p
    BY <1>4 DEF c
  <2> QED BY <1>0, <1>2, <2>1, ConcatProperties
<1>6. \A i \in 1 .. Len(s) + 1 : i > p => b[i - p] = s[i - 1]
  BY <1>0, <1>2
<1> QED BY <1>0, <1>3, <1>4, <1>5, <1>6 DEF c

LEMMA RemoveAtIs ==
  ASSUME NEW S, NEW s \in Seq(S), NEW p \in 1 .. Len(s)
  PROVE  /\ RemoveAt(s, p) \in Seq(S)
         /\ Len(RemoveAt(s, p)) = Len(s) - 1
         /\ \A i \in 1 .. Len(s) - 1 :
              RemoveAt(s, p)[i] = IF i < p THEN s[i] ELSE s[i + 1]
<1> DEFINE a == SubSeq(s, 1, p - 1)
           b == SubSeq(s, p + 1, Len(s))
<1>0. Len(s) \in Nat
  OBVIOUS
<1>1. /\ a \in Seq(S) /\ Len(a) = p - 1
      /\ \A i \in 1 .. p - 1 : a[i] = s[i]
  BY <1>0, SubSeqProperties
<1>2. /\ b \in Seq(S) /\ Len(b) = Len(s) - p
      /\ \A i \in 1 .. Len(s) - p : b[i] = s[p + i]
  BY <1>0, SubSeqProperties
<1>3. RemoveAt(s, p) = a \o b
  BY DEF RemoveAt
<1> HIDE DEF a, b
<1>4. /\ a \o b \in Seq(S) /\ Len(a \o b) = Len(s) - 1
      /\ \A i \in 1 .. Len(s) - 1 : (a \o b)[i] = IF i < p THEN a[i] ELSE b[i - p + 1]
  <2>1. /\ a \o b \in Seq(S) /\ Len(a \o b) = Len(a) + Len(b)
        /\ \A i \in 1 .. Len(a) + Len(b) :
             (a \o b)[i] = IF i <= Len(a) THEN a[i] ELSE b[i - Len(a)]
    BY <1>1, <1>2, ConcatProperties
  <2>2. Len(a) + Len(b) = Len(s) - 1
    BY <1>0, <1>1, <1>2
  <2>3. ASSUME NEW i \in 1 .. Len(s) - 1
        PROVE  (a \o b)[i] = IF i < p THEN a[i] ELSE b[i - p + 1]
    <3>1. i - Len(a) = i - p + 1 /\ (i <= Len(a) <=> i < p)
      BY <1>0, <1>1
    <3> QED BY <2>1, <2>2, <3>1
  <2> QED BY <2>1, <2>2, <2>3
<1>5. \A i \in 1 .. Len(s) - 1 : i >= p => b[i - p + 1] = s[i + 1]
  BY <1>0, <1>2
<1> QED BY <1>0, <1>1, <1>3, <1>4, <1>5

LEMMA FrontIs ==
  ASSUME NEW S, NEW s \in Seq(S), Len(s) # 0
  PROVE  /\ Front(s) \in Seq(S)
         /\ Len(Front(s)) = Len(s) - 1
         /\ \A i \in 1 .. Len(s) - 1 : Front(s)[i] = s[i]
<1>1. Len(s) \in Nat
  OBVIOUS
<1>2. \A i \in 1 .. Len(s) - 1 : s[i] \in S
  BY <1>1
<1> DEFINE f == SubSeq(s, 1, Len(s) - 1)
<1>3. /\ f \in Seq(S)
      /\ Len(f) = IF 1 <= Len(s) - 1 THEN Len(s) - 1 - 1 + 1 ELSE 0
      /\ \A i \in 1 .. Len(s) - 1 - 1 + 1 : f[i] = s[1 + i - 1]
  BY <1>1, <1>2, SubSeqProperties
<1>4. Front(s) = f
  BY DEF Front
<1> HIDE DEF f
<1> QED BY <1>1, <1>3, <1>4

-----------------------------------------------------------------------------
Sorted(nodes) ==
  \A i, j \in DOMAIN nodes :
    i < j => nodes[i].weight >= nodes[j].weight /\ nodes[i].no # nodes[j].no

NodesOf(nodes) == {nodes[i] : i \in DOMAIN nodes}

\* The node of the page is cut out and every other stays (lines 220-283).
LEMMA WithoutNodeIs ==
  ASSUME NEW row \in Row, NEW no \in Nat,
         row.nums = Len(row.nodes), Sorted(row.nodes)
  PROVE  LET rest == WithoutNode(row, no)
         IN  /\ rest.nodes \in Seq(Node)
             /\ rest.nums = Len(rest.nodes)
             /\ Len(rest.nodes) = IF HasNode(row.nodes, no)
                                  THEN Len(row.nodes) - 1 ELSE Len(row.nodes)
             /\ Sorted(rest.nodes)
             /\ ~HasNode(rest.nodes, no)
             /\ NodesOf(rest.nodes) = {n \in NodesOf(row.nodes) : n.no # no}
<1> DEFINE s == row.nodes
           I == {i \in 1 .. Len(s) : s[i].no = no}
           k == Min(I)
<1>0. s \in Seq(Node) /\ Len(s) \in Nat /\ DOMAIN s = 1 .. Len(s)
  BY DEF Row
<1>1. HasNode(s, no) <=> I # {}
  BY <1>0 DEF HasNode
<1>2. CASE I = {}
  <2>1. WithoutNode(row, no) = row
    BY <1>1, <1>2 DEF WithoutNode
  <2>2. \A n \in NodesOf(s) : n.no # no
    BY <1>0, <1>2 DEF NodesOf
  <2> QED BY <1>0, <1>1, <1>2, <2>1, <2>2
<1>3. CASE I # {}
  <2>1. k \in 1 .. Len(s) /\ s[k].no = no
    <3>1. I \in SUBSET Nat
      OBVIOUS
    <3>2. k \in I
      BY <1>3, <3>1, MinIsLeast
    <3> QED BY <3>2
  <2>2. RemoveFirstMatch(s, LAMBDA n : n.no = no) = RemoveAt(s, k)
    <3>1. SelectInSeq(s, LAMBDA n : n.no = no) = k
      BY <1>3, Zenon DEF SelectInSeq
    <3>2. \E i \in 1 .. Len(s) : s[i].no = no
      BY <1>3
    <3> QED BY <3>1, <3>2, Zenon DEF RemoveFirstMatch
  <2> DEFINE r == RemoveAt(s, k)
  <2>3. WithoutNode(row, no) = [nums |-> row.nums - 1, nodes |-> r]
    BY <1>1, <1>3, <2>2 DEF WithoutNode
  <2> HIDE DEF k, I
  <2>4. /\ r \in Seq(Node) /\ Len(r) = Len(s) - 1 /\ DOMAIN r = 1 .. Len(s) - 1
        /\ \A i \in 1 .. Len(s) - 1 : r[i] = IF i < k THEN s[i] ELSE s[i + 1]
    <3> HIDE DEF s
    <3>1. /\ r \in Seq(Node) /\ Len(r) = Len(s) - 1
          /\ \A i \in 1 .. Len(s) - 1 : r[i] = IF i < k THEN s[i] ELSE s[i + 1]
      BY <1>0, <2>1, RemoveAtIs
    <3> HIDE DEF r
    <3>2. DOMAIN r = 1 .. Len(r)
      BY <3>1
    <3> QED BY <3>1, <3>2
  <2> HIDE DEF r
  <2>5. Sorted(r)
    <3> SUFFICES ASSUME NEW i \in 1 .. Len(s) - 1, NEW j \in 1 .. Len(s) - 1, i < j
                 PROVE  r[i].weight >= r[j].weight /\ r[i].no # r[j].no
      BY <2>4 DEF Sorted
    <3> DEFINE ii == IF i < k THEN i ELSE i + 1
               jj == IF j < k THEN j ELSE j + 1
    <3>1. ii \in 1 .. Len(s) /\ jj \in 1 .. Len(s) /\ ii < jj
      BY <1>0, <2>1
    <3>2. r[i] = s[ii] /\ r[j] = s[jj]
      BY <2>4
    <3> HIDE DEF ii, jj
    <3> QED BY <1>0, <3>1, <3>2 DEF Sorted
  <2>6. ~HasNode(r, no)
    <3> SUFFICES ASSUME NEW i \in 1 .. Len(s) - 1
                 PROVE  r[i].no # no
      BY <2>4 DEF HasNode
    <3> DEFINE ii == IF i < k THEN i ELSE i + 1
    <3>1. ii \in 1 .. Len(s) /\ ii # k
      BY <1>0, <2>1
    <3>2. r[i] = s[ii]
      BY <2>4
    <3>3. ii < k \/ k < ii
      BY <1>0, <2>1, <3>1
    <3> HIDE DEF ii
    <3> QED BY <1>0, <2>1, <3>1, <3>2, <3>3 DEF Sorted
  <2>7. NodesOf(r) = {n \in NodesOf(s) : n.no # no}
    <3>1. ASSUME NEW i \in 1 .. Len(s) - 1
          PROVE  r[i].no # no /\ \E j \in 1 .. Len(s) : r[i] = s[j]
      <4>1. (IF i < k THEN i ELSE i + 1) \in 1 .. Len(s)
        BY <1>0
      <4> QED BY <2>4, <2>6, <4>1 DEF HasNode
    <3>2. ASSUME NEW j \in 1 .. Len(s), s[j].no # no
          PROVE  \E i \in 1 .. Len(s) - 1 : s[j] = r[i]
      <4> DEFINE i == IF j < k THEN j ELSE j - 1
      <4>1. j # k
        BY <2>1, <3>2
      <4>2. i \in 1 .. Len(s) - 1 /\ j = IF i < k THEN i ELSE i + 1
        BY <1>0, <2>1, <4>1
      <4> HIDE DEF i
      <4> QED BY <2>4, <4>2
    <3>3. NodesOf(r) = {r[i] : i \in 1 .. Len(s) - 1}
      BY <2>4 DEF NodesOf
    <3>4. NodesOf(s) = {s[i] : i \in 1 .. Len(s)}
      BY <1>0 DEF NodesOf
    <3> HIDE DEF s
    <3> QED BY <3>1, <3>2, <3>3, <3>4
  <2> QED BY <1>0, <1>1, <1>3, <2>3, <2>4, <2>5, <2>6, <2>7
<1> QED BY <1>2, <1>3

\* The node goes where the list stays sorted.
LEMMA PlacedNodeSorted ==
  ASSUME NEW s \in Seq(Node), NEW node \in Node,
         Sorted(s), ~HasNode(s, node.no)
  PROVE  LET t == InsertAt(s, Place(s, node.weight), node)
         IN  /\ t \in Seq(Node) /\ Len(t) = Len(s) + 1
             /\ Sorted(t)
             /\ NodesOf(t) = NodesOf(s) \cup {node}
<1> DEFINE p == Place(s, node.weight)
           t == InsertAt(s, p, node)
<1>0. /\ Len(s) \in Nat /\ DOMAIN s = 1 .. Len(s)
      /\ node.weight \in Nat
      /\ \A i \in 1 .. Len(s) : s[i].weight \in Nat
  <2>1. \A i \in 1 .. Len(s) : s[i].weight \in Nat
    BY ElementIsNode
  <2>2. Len(s) \in Nat /\ DOMAIN s = 1 .. Len(s)
    BY LenProperties
  <2> QED BY <2>1, <2>2 DEF Node
<1>1. /\ p \in 1 .. Len(s) + 1
      /\ \A i \in 1 .. p - 1 : s[i].weight > node.weight
      /\ p <= Len(s) => s[p].weight <= node.weight
  BY <1>0, PlaceIs
<1> HIDE DEF p
<1>2. /\ t \in Seq(Node) /\ Len(t) = Len(s) + 1 /\ DOMAIN t = 1 .. Len(s) + 1
      /\ \A i \in 1 .. Len(s) + 1 :
           t[i] = IF i < p THEN s[i] ELSE IF i = p THEN node ELSE s[i - 1]
  BY <1>0, <1>1, InsertAtIs
<1> HIDE DEF t
<1>3. \A i \in 1 .. Len(s) : i >= p => s[i].weight <= node.weight
  <2> SUFFICES ASSUME NEW i \in 1 .. Len(s), i >= p
               PROVE  s[i].weight <= node.weight
    OBVIOUS
  <2>1. p \in 1 .. Len(s) /\ s[p].weight <= node.weight
    BY <1>0, <1>1
  <2>2. i = p \/ s[p].weight >= s[i].weight
    BY <1>0, <1>1, <2>1 DEF Sorted
  <2> QED BY <1>0, <2>1, <2>2
<1>4. Sorted(t)
  <2> SUFFICES ASSUME NEW i \in 1 .. Len(s) + 1, NEW j \in 1 .. Len(s) + 1, i < j
               PROVE  t[i].weight >= t[j].weight /\ t[i].no # t[j].no
    BY <1>2 DEF Sorted
  <2> DEFINE ii == IF i < p THEN i ELSE i - 1
             jj == IF j < p THEN j ELSE j - 1
  <2>1. CASE i # p /\ j # p
    <3>1. ii \in 1 .. Len(s) /\ jj \in 1 .. Len(s) /\ ii < jj
      BY <1>0, <1>1, <2>1
    <3>2. t[i] = s[ii] /\ t[j] = s[jj]
      BY <1>2, <2>1
    <3> HIDE DEF ii, jj
    <3> QED BY <1>0, <3>1, <3>2 DEF Sorted
  <2>2. CASE i = p
    <3>1. jj \in 1 .. Len(s) /\ jj >= p /\ t[j] = s[jj] /\ t[i] = node
      BY <1>0, <1>1, <1>2, <2>2
    <3> HIDE DEF jj
    <3>2. node.weight >= s[jj].weight
      BY <1>0, <1>3, <3>1
    <3> QED BY <1>0, <3>1, <3>2 DEF HasNode
  <2>3. CASE j = p
    <3>1. i \in 1 .. Len(s) /\ i \in 1 .. p - 1 /\ t[i] = s[i] /\ t[j] = node
      BY <1>0, <1>1, <1>2, <2>3
    <3>2. s[i].weight >= node.weight
      BY <1>0, <1>1, <3>1
    <3> QED BY <1>0, <3>1, <3>2 DEF HasNode
  <2> QED BY <2>1, <2>2, <2>3
<1>5. NodesOf(t) = NodesOf(s) \cup {node}
  <2>1. ASSUME NEW i \in 1 .. Len(s) + 1
        PROVE  t[i] = node \/ \E j \in 1 .. Len(s) : t[i] = s[j]
    <3>1. i # p => (IF i < p THEN i ELSE i - 1) \in 1 .. Len(s)
      BY <1>0, <1>1
    <3> QED BY <1>2, <3>1
  <2>2. ASSUME NEW j \in 1 .. Len(s)
        PROVE  \E i \in 1 .. Len(s) + 1 : s[j] = t[i]
    <3> DEFINE i == IF j < p THEN j ELSE j + 1
    <3>1. i \in 1 .. Len(s) + 1 /\ i # p /\ j = IF i < p THEN i ELSE i - 1
      BY <1>0, <1>1
    <3> HIDE DEF i
    <3> QED BY <1>2, <3>1
  <2>3. p \in 1 .. Len(s) + 1 /\ t[p] = node
    BY <1>0, <1>1, <1>2
  <2>4. /\ NodesOf(t) = {t[i] : i \in 1 .. Len(s) + 1}
        /\ NodesOf(s) = {s[i] : i \in 1 .. Len(s)}
    BY <1>0, <1>2 DEF NodesOf
  <2> QED BY <2>1, <2>2, <2>3, <2>4
<1> QED BY <1>2, <1>4, <1>5 DEF p, t

LEMMA WellFormedIs ==
  ASSUME NEW row, NEW maxUrls
  PROVE  WellFormed(row, maxUrls) <=> /\ row.nums = Len(row.nodes)
                                      /\ Len(row.nodes) \in 1 .. maxUrls
                                      /\ Sorted(row.nodes)
  BY DEF WellFormed, Sorted

Spliced(nodes, node) == {n \in NodesOf(nodes) : n.no # node.no} \cup {node}

\* What update_weight makes of a row, as one rule: the page's node is spliced
\* into the sorted list, and the list cut off after max_url_per_word nodes.
\* The row of one node that is the page's (line 230) is no exception.
LEMMA UpdateWeightIs ==
  ASSUME NEW maxUrls \in Nat \ {0}, NEW row \in Row, WellFormed(row, maxUrls),
         NEW no \in Nat, NEW weight \in Nat \ {0}
  PROVE  \E t \in Seq(Node) :
           /\ Sorted(t)
           /\ NodesOf(t) = Spliced(row.nodes, [weight |-> weight, no |-> no])
           /\ Len(t) = IF HasNode(row.nodes, no)
                       THEN Len(row.nodes) ELSE Len(row.nodes) + 1
           /\ UpdateWeight(row, no, weight, maxUrls) =
                IF Len(t) = maxUrls + 1
                THEN [nums |-> maxUrls, nodes |-> Front(t)]
                ELSE [nums |-> Len(t), nodes |-> t]
<1> DEFINE node == [weight |-> weight, no |-> no]
           rest == WithoutNode(row, no)
           t == InsertAt(rest.nodes, Place(rest.nodes, weight), node)
           new == UpdateWeight(row, no, weight, maxUrls)
<1>0. /\ row.nodes \in Seq(Node) /\ row.nums = Len(row.nodes)
      /\ Len(row.nodes) \in 1 .. maxUrls /\ Sorted(row.nodes)
      /\ node \in Node /\ node.weight = weight /\ node.no = no
  BY WellFormedIs DEF Row, Node
<1>1. /\ rest.nodes \in Seq(Node) /\ rest.nums = Len(rest.nodes)
      /\ Len(rest.nodes) = IF HasNode(row.nodes, no)
                           THEN Len(row.nodes) - 1 ELSE Len(row.nodes)
      /\ Sorted(rest.nodes) /\ ~HasNode(rest.nodes, no)
      /\ NodesOf(rest.nodes) = {n \in NodesOf(row.nodes) : n.no # no}
  BY <1>0, WithoutNodeIs
<1>2. /\ t \in Seq(Node) /\ Len(t) = Len(rest.nodes) + 1
      /\ Sorted(t) /\ NodesOf(t) = NodesOf(rest.nodes) \cup {node}
  BY <1>0, <1>1, PlacedNodeSorted
<1>3. new = IF row.nums = 1 /\ HasNode(row.nodes, no)
            THEN [nums |-> 1, nodes |-> <<node>>]
            ELSE IF rest.nums = maxUrls
                 THEN [nums |-> rest.nums, nodes |-> Front(t)]
            ELSE [nums |-> rest.nums + 1, nodes |-> t]
  BY DEF UpdateWeight
<1> HIDE DEF node, rest, t, new
<1>4. NodesOf(t) = Spliced(row.nodes, node)
  BY <1>0, <1>1, <1>2 DEF Spliced
<1>5. ASSUME row.nums = 1, HasNode(row.nodes, no)
      PROVE  /\ Len(t) # maxUrls + 1
             /\ new = [nums |-> Len(t), nodes |-> t]
  <2>0. Len(row.nodes) = 1 /\ Len(t) = 1 /\ Len(t) # maxUrls + 1
    BY <1>0, <1>1, <1>2, <1>5
  <2>1. DOMAIN row.nodes = {1} /\ DOMAIN t = {1}
    <3> DEFINE s == row.nodes
    <3>1. s \in Seq(Node) /\ Len(s) = 1
      BY <1>0, <2>0
    <3> HIDE DEF s
    <3>2. DOMAIN s = {1}
      BY <3>1
    <3> QED BY <1>2, <2>0, <3>2 DEF s
  <2>2. NodesOf(row.nodes) = {row.nodes[1]} /\ row.nodes[1].no = no
    BY <1>5, <2>1 DEF NodesOf, HasNode
  <2>3. NodesOf(t) = {node}
    BY <1>1, <1>2, <2>2
  <2>4. t = <<node>>
    BY <1>2, <2>0, <2>1, <2>3 DEF NodesOf
  <2>5. new = [nums |-> Len(t), nodes |-> t]
    BY <1>3, <1>5, <2>0, <2>4
  <2> QED BY <1>5, <2>0, <2>5
<1>6. ASSUME ~(row.nums = 1 /\ HasNode(row.nodes, no))
      PROVE  new = IF Len(t) = maxUrls + 1
                   THEN [nums |-> maxUrls, nodes |-> Front(t)]
                   ELSE [nums |-> Len(t), nodes |-> t]
  <2>1. rest.nums = maxUrls <=> Len(t) = maxUrls + 1
    BY <1>0, <1>1, <1>2
  <2>2. rest.nums + 1 = Len(t)
    BY <1>1, <1>2
  <2> QED BY <1>3, <1>6, <2>1, <2>2
<1>7. Len(t) = IF HasNode(row.nodes, no) THEN Len(row.nodes) ELSE Len(row.nodes) + 1
  BY <1>0, <1>1, <1>2
<1>8. new = IF Len(t) = maxUrls + 1
            THEN [nums |-> maxUrls, nodes |-> Front(t)]
            ELSE [nums |-> Len(t), nodes |-> t]
  BY <1>5, <1>6
<1> QED BY <1>2, <1>4, <1>7, <1>8 DEF new, node

\* The list without its last node.
LEMMA CutOffIs ==
  ASSUME NEW t \in Seq(Node), Sorted(t), Len(t) > 0
  PROVE  /\ Front(t) \in Seq(Node) /\ Len(Front(t)) = Len(t) - 1
         /\ Sorted(Front(t))
         /\ \A n \in NodesOf(t) : n = t[Len(t)] \/ n \in NodesOf(Front(t))
         /\ t[Len(t)] \in NodesOf(t)
         /\ \A n \in NodesOf(Front(t)) :
              /\ n \in NodesOf(t)
              /\ n.weight >= t[Len(t)].weight
              /\ n.no # t[Len(t)].no
<1> DEFINE f == Front(t)
<1>1. Len(t) \in Nat /\ DOMAIN t = 1 .. Len(t)
  OBVIOUS
<1>2. /\ f \in Seq(Node) /\ Len(f) = Len(t) - 1
      /\ \A i \in 1 .. Len(t) - 1 : f[i] = t[i]
  <2>1. Len(t) # 0
    BY <1>1
  <2> QED BY <2>1, FrontIs
<1> HIDE DEF f
<1>3. DOMAIN f = 1 .. Len(t) - 1
  BY <1>2
<1>4. Sorted(f)
  BY <1>1, <1>2, <1>3 DEF Sorted
<1>5. /\ NodesOf(t) = {t[i] : i \in 1 .. Len(t)}
      /\ NodesOf(f) = {f[i] : i \in 1 .. Len(t) - 1}
  BY <1>1, <1>3 DEF NodesOf
<1>6. \A n \in NodesOf(t) : n = t[Len(t)] \/ n \in NodesOf(f)
  <2> DEFINE L == Len(t)
  <2>1. L \in Nat
    BY <1>1
  <2> HIDE DEF L
  <2>2. \A i \in 1 .. L : i = L \/ i \in 1 .. L - 1
    BY <2>1
  <2> QED BY <1>2, <1>5, <2>2 DEF L
<1>7. t[Len(t)] \in NodesOf(t)
  BY <1>1, <1>5
<1>8. ASSUME NEW n \in NodesOf(f)
      PROVE  /\ n \in NodesOf(t)
             /\ n.weight >= t[Len(t)].weight
             /\ n.no # t[Len(t)].no
  <2>1. PICK i \in 1 .. Len(t) - 1 : n = f[i]
    BY <1>5
  <2>2. i \in 1 .. Len(t) /\ Len(t) \in 1 .. Len(t) /\ i < Len(t) /\ n = t[i]
    BY <1>1, <1>2, <2>1
  <2> QED BY <1>1, <1>5, <2>2 DEF Sorted
<1> QED BY <1>2, <1>4, <1>6, <1>7, <1>8 DEF f

\* What handle makes of a row of the index is a row it can read again: the
\* number in front is the number of the nodes, at most max_url_per_word, sorted
\* by weight, one for a page; and every node was there, but that of the page.
THEOREM UpdateWeightKeepsTheRow ==
  ASSUME NEW maxUrls \in Nat \ {0}, NEW row \in Row, WellFormed(row, maxUrls),
         NEW no \in Nat, NEW weight \in Nat
  PROVE  LET new == UpdateWeight(row, no, weight, maxUrls)
         IN  /\ new \in Row
             /\ WellFormed(new, maxUrls)
             /\ NodesOf(new.nodes) \subseteq
                  NodesOf(row.nodes) \cup {[weight |-> weight, no |-> no]}
<1> DEFINE node == [weight |-> weight, no |-> no]
           new == UpdateWeight(row, no, weight, maxUrls)
<1>1. CASE weight = 0
  <2>1. new = row
    BY <1>1 DEF UpdateWeight
  <2> QED BY <2>1
<1>2. CASE weight # 0
  <2>1. PICK t \in Seq(Node) :
          /\ Sorted(t)
          /\ NodesOf(t) = Spliced(row.nodes, node)
          /\ Len(t) = IF HasNode(row.nodes, no)
                      THEN Len(row.nodes) ELSE Len(row.nodes) + 1
          /\ new = IF Len(t) = maxUrls + 1
                   THEN [nums |-> maxUrls, nodes |-> Front(t)]
                   ELSE [nums |-> Len(t), nodes |-> t]
    BY <1>2, UpdateWeightIs
  <2>2. Len(row.nodes) \in 1 .. maxUrls /\ Len(t) \in 1 .. maxUrls + 1
    BY <2>1, WellFormedIs
  <2>3. NodesOf(t) \subseteq NodesOf(row.nodes) \cup {node}
    BY <2>1 DEF Spliced
  <2> HIDE DEF node, new
  <2>4. CASE Len(t) = maxUrls + 1
    <3>1. /\ Front(t) \in Seq(Node) /\ Len(Front(t)) = maxUrls /\ Sorted(Front(t))
          /\ NodesOf(Front(t)) \subseteq NodesOf(t)
      BY <2>1, <2>2, <2>4, CutOffIs
    <3>2. new = [nums |-> maxUrls, nodes |-> Front(t)]
      BY <2>1, <2>4
    <3>3. WellFormed(new, maxUrls)
      BY <3>1, <3>2, WellFormedIs
    <3>4. new \in Row
      BY <3>1, <3>2 DEF Row
    <3> QED BY <2>3, <3>1, <3>2, <3>3, <3>4 DEF new, node
  <2>5. CASE Len(t) # maxUrls + 1
    <3>1. new = [nums |-> Len(t), nodes |-> t] /\ Len(t) \in 1 .. maxUrls
      BY <2>1, <2>2, <2>5
    <3>2. WellFormed(new, maxUrls)
      BY <2>1, <3>1, WellFormedIs
    <3>3. new \in Row
      BY <3>1 DEF Row
    <3> QED BY <2>3, <3>1, <3>2, <3>3 DEF new, node
  <2> QED BY <2>4, <2>5
<1> QED BY <1>1, <1>2

-----------------------------------------------------------------------------
\* The list has a node of the page, or it is full of nodes that weigh no less.
RankedIn(nodes, maxUrls, no, weight) ==
  \/ \E n \in NodesOf(nodes) : n.no = no
  \/ Len(nodes) = maxUrls /\ \A n \in NodesOf(nodes) : n.weight >= weight

\* A page that was indexed in a row is in it, or the row is full of pages that
\* weigh no less: it was cut off only for being the last one.
THEOREM IndexedPageIsRanked ==
  ASSUME NEW maxUrls \in Nat \ {0}, NEW row \in Row, WellFormed(row, maxUrls),
         NEW no \in Nat, NEW weight \in Nat \ {0}
  PROVE  RankedIn(UpdateWeight(row, no, weight, maxUrls).nodes, maxUrls, no, weight)
<1> DEFINE node == [weight |-> weight, no |-> no]
           new == UpdateWeight(row, no, weight, maxUrls)
<1>1. PICK t \in Seq(Node) :
        /\ Sorted(t)
        /\ NodesOf(t) = Spliced(row.nodes, node)
        /\ new = IF Len(t) = maxUrls + 1
                 THEN [nums |-> maxUrls, nodes |-> Front(t)]
                 ELSE [nums |-> Len(t), nodes |-> t]
  BY UpdateWeightIs
<1>2. node \in NodesOf(t) /\ node.no = no /\ node.weight = weight
  BY <1>1 DEF Spliced
<1> HIDE DEF node, new
<1>3. CASE Len(t) = maxUrls + 1
  <2>1. new.nodes = Front(t)
    BY <1>1, <1>3
  <2>2. /\ Len(Front(t)) = maxUrls
        /\ node = t[Len(t)] \/ node \in NodesOf(Front(t))
        /\ \A n \in NodesOf(Front(t)) : n.weight >= t[Len(t)].weight
    BY <1>1, <1>2, <1>3, CutOffIs
  <2> QED BY <1>2, <2>1, <2>2 DEF RankedIn, new
<1>4. CASE Len(t) # maxUrls + 1
  <2>1. new.nodes = t
    BY <1>1, <1>4
  <2> QED BY <1>2, <2>1 DEF RankedIn, new
<1> QED BY <1>3, <1>4

\* Indexing a page takes no better page out of the row, also when the page had a
\* node there before.  It matters that the nodes tell the weights of their
\* pages: a page that came back lighter would keep a place a better one lost.
THEOREM OtherPagesStayRanked ==
  ASSUME NEW maxUrls \in Nat \ {0}, NEW row \in Row, WellFormed(row, maxUrls),
         NEW no \in Nat, NEW weight \in Nat \ {0},
         NEW p \in Nat, NEW v \in Nat, p # no,
         \A n \in NodesOf(row.nodes) :
           /\ n.no = no => n.weight = weight
           /\ n.no = p => n.weight = v,
         RankedIn(row.nodes, maxUrls, p, v)
  PROVE  RankedIn(UpdateWeight(row, no, weight, maxUrls).nodes, maxUrls, p, v)
<1> DEFINE node == [weight |-> weight, no |-> no]
           new == UpdateWeight(row, no, weight, maxUrls)
<1>1. PICK t \in Seq(Node) :
        /\ Sorted(t)
        /\ NodesOf(t) = Spliced(row.nodes, node)
        /\ Len(t) = IF HasNode(row.nodes, no)
                    THEN Len(row.nodes) ELSE Len(row.nodes) + 1
        /\ new = IF Len(t) = maxUrls + 1
                 THEN [nums |-> maxUrls, nodes |-> Front(t)]
                 ELSE [nums |-> Len(t), nodes |-> t]
  BY UpdateWeightIs
<1>2. /\ node.no = no /\ node.weight = weight
      /\ NodesOf(t) = {n \in NodesOf(row.nodes) : n.no # no} \cup {node}
  BY <1>1 DEF Spliced
<1>3. Len(row.nodes) \in 1 .. maxUrls
  BY WellFormedIs
<1>4. \A n \in NodesOf(t) : n.weight \in Nat
  BY ElementIsNode DEF NodesOf
<1>5. HasNode(row.nodes, no) => \E n \in NodesOf(row.nodes) : n.no = no
  BY DEF HasNode, NodesOf
<1> HIDE DEF node, new
<1>6. CASE Len(t) = maxUrls + 1
  <2> DEFINE f == Front(t)
             last == t[Len(t)]
  <2>1. new.nodes = f
    BY <1>1, <1>6
  <2>2. /\ Len(f) = maxUrls
        /\ last \in NodesOf(t)
        /\ \A n \in NodesOf(t) : n = last \/ n \in NodesOf(f)
        /\ \A n \in NodesOf(f) : n \in NodesOf(t) /\ n.weight >= last.weight /\ n.no # last.no
    BY <1>1, <1>6, CutOffIs
  <2> HIDE DEF f, last
  <2>3. CASE \E n \in NodesOf(row.nodes) : n.no = p
    <3>1. PICK n \in NodesOf(row.nodes) : n.no = p
      BY <2>3
    <3>2. n \in NodesOf(t) /\ n.weight = v
      BY <1>2, <3>1
    <3>3. n = last \/ n \in NodesOf(f)
      BY <2>2, <3>2
    <3> QED BY <2>1, <2>2, <3>1, <3>2, <3>3 DEF RankedIn, new
  <2>4. CASE \A n \in NodesOf(row.nodes) : n.weight >= v
    <3>1. \A n \in NodesOf(f) : n.weight >= v
      <4> SUFFICES ASSUME NEW n \in NodesOf(f) PROVE n.weight >= v
        OBVIOUS
      <4>1. n \in NodesOf(t) /\ n.weight >= last.weight /\ n.no # last.no
        BY <2>2
      <4>2. n \in NodesOf(row.nodes) \/ last \in NodesOf(row.nodes)
        BY <1>2, <2>2, <4>1
      <4> QED BY <1>4, <2>2, <2>4, <4>1, <4>2
    <3> QED BY <2>1, <2>2, <3>1 DEF RankedIn, new
  <2> QED BY <2>3, <2>4 DEF RankedIn
<1>7. CASE Len(t) # maxUrls + 1
  <2>1. new.nodes = t
    BY <1>1, <1>7
  <2>2. CASE \E n \in NodesOf(row.nodes) : n.no = p
    BY <1>2, <2>1, <2>2 DEF RankedIn, new
  <2>3. CASE Len(row.nodes) = maxUrls /\ \A n \in NodesOf(row.nodes) : n.weight >= v
    <3>1. HasNode(row.nodes, no) /\ Len(t) = maxUrls
      BY <1>1, <1>7, <2>3
    <3>2. weight >= v
      BY <1>5, <2>3, <3>1
    <3> QED BY <1>2, <2>1, <2>3, <3>1, <3>2 DEF RankedIn, new
  <2> QED BY <2>2, <2>3 DEF RankedIn
<1> QED BY <1>6, <1>7
===============================================================================
