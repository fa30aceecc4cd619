-------------------------- MODULE ReverseIndexProofs --------------------------
(***************************************************************************)
(* Whatever the workers select and write in between, every row of the      *)
(* reverse index stays well formed and true: IndexInv, in the form of      *)
(* GoodRows, is inductive.  While no two updates of a row race, the best   *)
(* pages stay in it: RowsKeepTheBest follows from BestInv, which adds that *)
(* a row in hand is what update_weight makes of the row that was selected. *)
(* What update_weight does to one row is proved in WeightListProofs.       *)
(* IndexedPagesAreFound then follows from FoundInv: once a search is       *)
(* answered, the weights it has added up are at least those of each row.   *)
(***************************************************************************)
EXTENDS SearchServer, SearchRankProofs

\* A row that is good for the word.
GoodRow(row, word) ==
  /\ row \in Row
  /\ WellFormed(row, MAX_URLS)
  /\ \A i \in DOMAIN row.nodes : TrueNode(row.nodes[i], word)

LEMMA DefaultRowIsGood ==
  ASSUME NEW word \in Word
  PROVE  GoodRow(DefaultRow, word)
<1> DEFINE node == [weight |-> 0, no |-> 0]
           one == <<node>>
<1>1. /\ node \in Node /\ node.no = 0
  BY DEF Node
<1> HIDE DEF node
<1>2. one \in Seq(Node) /\ Len(one) = 1 /\ DOMAIN one = {1} /\ one[1] = node
  BY <1>1
<1> HIDE DEF one
<1>3. DefaultRow = [nums |-> 1, nodes |-> one]
  BY DEF DefaultRow, one, node
<1>4. Sorted(one)
  BY <1>2 DEF Sorted
<1>5. WellFormed(DefaultRow, MAX_URLS)
  <2>1. DefaultRow.nodes = one /\ DefaultRow.nums = 1 /\ 1 \in 1 .. MAX_URLS
    BY <1>3, MaxUrlsAssumption
  <2> QED BY <1>2, <1>4, <2>1, WellFormedIs
<1>6. DefaultRow \in Row
  BY <1>2, <1>3 DEF Row
<1> QED BY <1>1, <1>2, <1>3, <1>5, <1>6 DEF GoodRow, TrueNode

\* A row that is good stays good when a page is indexed in it.
LEMMA UpdatedRowIsGood ==
  ASSUME NEW word \in Word, NEW row, GoodRow(row, word), NEW p \in PageNo
  PROVE  GoodRow(UpdateWeight(row, p, Weight[p][word], MAX_URLS), word)
<1> DEFINE new == UpdateWeight(row, p, Weight[p][word], MAX_URLS)
           node == [weight |-> Weight[p][word], no |-> p]
<1>1. p \in Nat /\ Weight[p][word] \in Nat
  BY PagesAssumption
<1>2. /\ new \in Row /\ WellFormed(new, MAX_URLS)
      /\ NodesOf(new.nodes) \subseteq NodesOf(row.nodes) \cup {node}
  BY <1>1, UpdateWeightKeepsTheRow, MaxUrlsAssumption DEF GoodRow
<1>3. TrueNode(node, word)
  BY DEF TrueNode
<1>4. \A n \in NodesOf(row.nodes) : TrueNode(n, word)
  BY DEF GoodRow, NodesOf
<1> HIDE DEF new, node
<1>5. \A i \in DOMAIN new.nodes : TrueNode(new.nodes[i], word)
  BY <1>2, <1>3, <1>4 DEF NodesOf
<1> QED BY <1>2, <1>5 DEF GoodRow, new

\* What a worker has in hand: the words it has still to select, and the rows
\* it has computed and not written.
InHand(w) ==
  /\ DOMAIN unsaved[w] = DOMAIN selected[w]
  /\ pc[w] = "idle" => unread[w] = {} /\ DOMAIN unsaved[w] = {}
  /\ pc[w] = "update" => unread[w] = {}
  /\ unread[w] \cup DOMAIN unsaved[w] \subseteq
       (IF page[w] = 0 THEN {} ELSE WordsOf(page[w]))
  /\ \A word \in DOMAIN unsaved[w] : GoodRow(unsaved[w][word], word)

\* IndexInv, row by row and worker by worker.
GoodRows ==
  /\ TypeOK
  /\ \A word \in Word : GoodRow(reverse[word], word)
  /\ \A w \in Worker : InHand(w)

LEMMA IndexInvIsGoodRows == IndexInv <=> GoodRows
  BY DEF GoodRows, InHand, IndexInv, TypeOK, RowsWellFormed, RowsTellTheTruth,
         UnsavedRows, GoodRow, GivesRows

LEMMA NoRowsIs == DOMAIN NoRows = {} /\ GivesRows(NoRows)
<1>1. NoRows \in [{} -> Row]
  BY DEF NoRows
<1> QED BY <1>1 DEF GivesRows

LEMMA InitGoodRows == Init => GoodRows
<1> SUFFICES ASSUME Init PROVE GoodRows
  OBVIOUS
<1>1. \A word \in Word : GoodRow(reverse[word], word)
  BY DefaultRowIsGood DEF Init
<1>2. TypeOK
  BY <1>1, NoRowsIs, PagesAssumption DEF Init, TypeOK, GoodRow
<1>3. \A w \in Worker : InHand(w)
  BY NoRowsIs DEF Init, InHand
<1> QED BY <1>1, <1>2, <1>3 DEF GoodRows

\* The steps that write no row leave the index as it is.
LEMMA CutWordsKeeps ==
  ASSUME GoodRows, NEW w \in Worker, CutWords(w)
  PROVE  GoodRows'
<1> USE DEF GoodRows
<1>1. PICK p \in left[w] :
        /\ page' = [page EXCEPT ![w] = p]
        /\ left' = [left EXCEPT ![w] = @ \ {p}]
        /\ unread' = [unread EXCEPT ![w] = WordsOf(p)]
  BY DEF CutWords
<1>2. p \in PageNo /\ p # 0 /\ WordsOf(p) \in SUBSET Word
  BY PagesAssumption DEF TypeOK, WordsOf
<1>3. TypeOK'
  BY <1>1, <1>2 DEF CutWords, TypeOK
<1>4. \A v \in Worker : InHand(v)'
  BY <1>1, <1>2 DEF CutWords, TypeOK, InHand, WordsOf
<1> QED BY <1>3, <1>4 DEF CutWords

LEMMA SelectRowsKeeps ==
  ASSUME GoodRows, NEW w \in Worker, SelectRows(w)
  PROVE  GoodRows'
<1> USE DEF GoodRows
<1>1. PICK S \in (SUBSET unread[w]) \ {{}} :
        /\ unread' = [unread EXCEPT ![w] = @ \ S]
        /\ unsaved' = [unsaved EXCEPT ![w] = Together(@,
             [word \in S |-> UpdateWeight(reverse[word], page[w],
                                          Weight[page[w]][word], MAX_URLS)])]
        /\ selected' = [selected EXCEPT ![w] =
                          Together(@, [word \in S |-> reverse[word]])]
  BY DEF SelectRows
<1> DEFINE computed == [word \in S |-> UpdateWeight(reverse[word], page[w],
                                          Weight[page[w]][word], MAX_URLS)]
           old == [word \in S |-> reverse[word]]
<1>2. /\ pc[w] = "select" /\ S \subseteq unread[w] /\ S \subseteq Word /\ S # {}
      /\ page[w] \in PageNo /\ page[w] # 0 /\ S \subseteq WordsOf(page[w])
  BY PagesAssumption DEF SelectRows, TypeOK, InHand
<1>3. \A word \in S : GoodRow(computed[word], word) /\ GoodRow(old[word], word)
  BY <1>2, UpdatedRowIsGood
<1>4. DOMAIN computed = S /\ DOMAIN old = S
  OBVIOUS
<1> HIDE DEF computed, old
<1>5. /\ DOMAIN unsaved' = Worker /\ DOMAIN selected' = Worker
      /\ unsaved'[w] = Together(unsaved[w], computed)
      /\ selected'[w] = Together(selected[w], old)
      /\ \A v \in Worker \ {w} : unsaved'[v] = unsaved[v] /\ selected'[v] = selected[v]
  BY <1>1 DEF computed, old, TypeOK
<1>6. \A word \in DOMAIN unsaved[w] : GoodRow(unsaved[w][word], word)
  BY DEF InHand
<1>7. /\ DOMAIN unsaved'[w] = DOMAIN unsaved[w] \cup S
      /\ \A word \in DOMAIN unsaved'[w] : GoodRow(unsaved'[w][word], word)
  BY <1>3, <1>4, <1>5, <1>6 DEF Together
<1>8. DOMAIN selected'[w] = DOMAIN selected[w] \cup S
  BY <1>4, <1>5 DEF Together
<1>9. GivesRows(unsaved'[w]) /\ GivesRows(selected'[w])
  <2>1. DOMAIN unsaved[w] \cup S \in SUBSET Word /\ DOMAIN selected[w] \cup S \in SUBSET Word
    BY <1>2 DEF TypeOK, GivesRows
  <2>2. unsaved'[w] \in [DOMAIN unsaved[w] \cup S -> Row]
    BY <1>3, <1>4, <1>5, <1>6 DEF Together, GoodRow
  <2>3. \A word \in DOMAIN selected[w] : selected[w][word] \in Row
    BY DEF TypeOK, GivesRows
  <2>4. selected'[w] \in [DOMAIN selected[w] \cup S -> Row]
    BY <1>3, <1>4, <1>5, <2>3 DEF Together, GoodRow
  <2> QED BY <2>1, <2>2, <2>4 DEF GivesRows
<1>10. TypeOK'
  BY <1>1, <1>2, <1>5, <1>9 DEF SelectRows, TypeOK
<1>11. \A v \in Worker : InHand(v)'
  <2>1. InHand(w)'
    BY <1>1, <1>2, <1>7, <1>8 DEF SelectRows, TypeOK, InHand
  <2>2. ASSUME NEW v \in Worker, v # w
        PROVE  InHand(v)'
    BY <1>1, <1>5, <2>2 DEF SelectRows, TypeOK, InHand
  <2> QED BY <2>1, <2>2
<1> QED BY <1>10, <1>11 DEF SelectRows

LEMMA AllSelectedKeeps ==
  ASSUME GoodRows, NEW w \in Worker, AllSelected(w)
  PROVE  GoodRows'
<1> USE DEF GoodRows, AllSelected
<1>1. TypeOK'
  BY DEF TypeOK
<1>2. \A v \in Worker : InHand(v)'
  BY DEF InHand, TypeOK
<1> QED BY <1>1, <1>2

\* The rows that are written are good, whatever they overwrite.
LEMMA UpdateRowsKeeps ==
  ASSUME GoodRows, NEW w \in Worker, UpdateRows(w)
  PROVE  GoodRows'
<1> USE DEF GoodRows
<1>1. PICK S \in (SUBSET DOMAIN unsaved[w]) \ {{}} :
       /\ reverse' = [word \in Word |->
                        IF word \in S THEN unsaved[w][word] ELSE reverse[word]]
       /\ raced' = raced \cup {word \in S : reverse[word] # selected[w][word]}
       /\ indexed' = indexed \cup {<<page[w], word>> : word \in S}
       /\ unsaved' = [unsaved EXCEPT ![w] = Without(@, S)]
       /\ selected' = [selected EXCEPT ![w] = Without(@, S)]
  BY DEF UpdateRows
<1>2. /\ pc[w] = "update" /\ S \subseteq DOMAIN unsaved[w] /\ S \subseteq Word
      /\ page[w] \in PageNo
  BY DEF UpdateRows, TypeOK, InHand, GivesRows
<1>3. \A word \in Word : GoodRow(reverse'[word], word)
  BY <1>1, <1>2 DEF InHand
<1>4. /\ DOMAIN unsaved' = Worker /\ DOMAIN selected' = Worker
      /\ unsaved'[w] = Without(unsaved[w], S)
      /\ selected'[w] = Without(selected[w], S)
      /\ \A v \in Worker \ {w} : unsaved'[v] = unsaved[v] /\ selected'[v] = selected[v]
  BY <1>1 DEF TypeOK
<1>5. ASSUME NEW f, GivesRows(f)
      PROVE  /\ DOMAIN Without(f, S) = DOMAIN f \ S
             /\ GivesRows(Without(f, S))
             /\ \A word \in DOMAIN f \ S : Without(f, S)[word] = f[word]
  BY <1>5 DEF GivesRows, Without
<1>6. /\ DOMAIN unsaved'[w] = DOMAIN unsaved[w] \ S /\ GivesRows(unsaved'[w])
      /\ DOMAIN selected'[w] = DOMAIN selected[w] \ S /\ GivesRows(selected'[w])
      /\ \A word \in DOMAIN unsaved[w] \ S : unsaved'[w][word] = unsaved[w][word]
  <2>1. GivesRows(unsaved[w]) /\ GivesRows(selected[w])
    BY DEF TypeOK
  <2>2. /\ DOMAIN Without(unsaved[w], S) = DOMAIN unsaved[w] \ S
        /\ GivesRows(Without(unsaved[w], S))
        /\ \A word \in DOMAIN unsaved[w] \ S :
             Without(unsaved[w], S)[word] = unsaved[w][word]
    BY <1>5, <2>1
  <2>3. /\ DOMAIN Without(selected[w], S) = DOMAIN selected[w] \ S
        /\ GivesRows(Without(selected[w], S))
    BY <1>5, <2>1
  <2> QED BY <1>4, <2>2, <2>3
<1>7. TypeOK'
  <2>1. reverse' \in [Word -> Row]
    BY <1>1, <1>3 DEF GoodRow
  <2>2. indexed' \subseteq PageNo \X Word /\ raced' \subseteq Word
    BY <1>1, <1>2 DEF TypeOK
  <2>3. \A v \in Worker : GivesRows(unsaved'[v]) /\ GivesRows(selected'[v])
    BY <1>4, <1>6 DEF TypeOK
  <2> QED BY <1>4, <2>1, <2>2, <2>3 DEF UpdateRows, TypeOK
<1>8. \A v \in Worker : InHand(v)'
  <2>1. InHand(w)'
    BY <1>2, <1>6 DEF UpdateRows, TypeOK, InHand
  <2>2. ASSUME NEW v \in Worker, v # w
        PROVE  InHand(v)'
    BY <1>4, <2>2 DEF UpdateRows, TypeOK, InHand
  <2> QED BY <2>1, <2>2
<1> QED BY <1>3, <1>7, <1>8

LEMMA AllUpdatedKeeps ==
  ASSUME GoodRows, NEW w \in Worker, AllUpdated(w)
  PROVE  GoodRows'
<1> USE DEF GoodRows, AllUpdated
<1>1. TypeOK'
  BY DEF TypeOK
<1>2. \A v \in Worker : InHand(v)'
  BY NoRowsIs DEF InHand, TypeOK
<1> QED BY <1>1, <1>2

LEMMA StatementFailsKeeps ==
  ASSUME GoodRows, NEW w \in Worker, StatementFails(w)
  PROVE  GoodRows'
<1> USE DEF GoodRows, StatementFails
<1>1. TypeOK'
  BY DEF TypeOK
<1>2. \A v \in Worker : InHand(v)'
  BY DEF InHand, TypeOK
<1> QED BY <1>1, <1>2

\* For every number of workers, words and pages and every max_url_per_word:
\* whatever the statements of several workers do in between, and wherever one
\* of them fails, update_weight finds in every row what it relies on, and no
\* row names a page with a weight the word does not have there.
THEOREM IndexStaysWellFormed == Spec => []IndexInv
<1>1. Init => GoodRows
  BY InitGoodRows
<1>2. GoodRows /\ [Next]_vars => GoodRows'
  <2> SUFFICES ASSUME GoodRows, [Next]_vars PROVE GoodRows'
    OBVIOUS
  <2>1. CASE UNCHANGED vars
    BY <2>1 DEF vars, GoodRows, TypeOK, InHand
  <2>2. ASSUME NEW w \in Worker, Handle(w)
        PROVE  GoodRows'
    BY <2>2, CutWordsKeeps, SelectRowsKeeps, AllSelectedKeeps, UpdateRowsKeeps,
       AllUpdatedKeeps, StatementFailsKeeps DEF Handle
  <2> QED BY <2>1, <2>2 DEF Next
<1>3. GoodRows => IndexInv
  BY IndexInvIsGoodRows
<1> QED BY <1>1, <1>2, <1>3, PTL DEF Spec

-----------------------------------------------------------------------------
(* The best pages stay in the rows, as long as no two updates of a row race. *)

\* A row in hand is what update_weight makes of the row that was selected.
InHandIsUpdate(w) ==
  \A word \in DOMAIN unsaved[w] :
    unsaved[w][word] =
      UpdateWeight(selected[w][word], page[w], Weight[page[w]][word], MAX_URLS)

BestInv == /\ GoodRows
           /\ \A w \in Worker : InHandIsUpdate(w)
           /\ RowsKeepTheBest

LEMMA RankedIs ==
  ASSUME NEW row, NEW p, NEW v
  PROVE  RankedIn(row.nodes, MAX_URLS, p, v) <=>
           \/ HasNode(row.nodes, p)
           \/ /\ Len(row.nodes) = MAX_URLS
              /\ \A i \in DOMAIN row.nodes : row.nodes[i].weight >= v
  BY DEF RankedIn, HasNode, NodesOf

LEMMA InitBest == Init => BestInv
<1>1. Init => GoodRows
  BY InitGoodRows
<1>2. Init => RowsKeepTheBest /\ \A w \in Worker : InHandIsUpdate(w)
  BY NoRowsIs DEF Init, RowsKeepTheBest, InHandIsUpdate
<1> QED BY <1>1, <1>2 DEF BestInv

\* When w writes over the row it selected, its page and every page that was
\* ranked in the row are ranked in the new one.
LEMMA WrittenRowKeepsTheBest ==
  ASSUME BestInv, NEW w \in Worker, NEW word \in DOMAIN unsaved[w],
         reverse[word] = selected[w][word],
         NEW p \in PageNo,
         p = page[w] \/ Ranked(p, word)
  PROVE  LET new == unsaved[w][word].nodes
         IN  \/ HasNode(new, p)
             \/ /\ Len(new) = MAX_URLS
                /\ \A i \in DOMAIN new : new[i].weight >= Weight[p][word]
<1> DEFINE row == reverse[word]
           no == page[w]
           weight == Weight[no][word]
           v == Weight[p][word]
<1>1. /\ word \in Word /\ no \in PageNo /\ no # 0 /\ weight \in Nat \ {0}
      /\ p \in Nat \ {0} /\ v \in Nat /\ no \in Nat
  <2>1. page[w] # 0 /\ word \in WordsOf(page[w]) /\ page[w] \in PageNo
    BY DEF BestInv, GoodRows, InHand, TypeOK
  <2>2. word \in Word /\ Weight[page[w]][word] > 0
    BY <2>1 DEF WordsOf
  <2>3. page[w] \in Nat \ {0} /\ p \in Nat \ {0}
    BY <2>1, PagesAssumption
  <2>4. Weight[page[w]] \in [Word -> Nat] /\ Weight[p] \in [Word -> Nat]
    BY <2>1, PagesAssumption
  <2>5. Weight[page[w]][word] \in Nat /\ Weight[p][word] \in Nat
    BY <2>2, <2>4
  <2> QED BY <2>1, <2>2, <2>3, <2>5
<1>2. unsaved[w][word] = UpdateWeight(row, no, weight, MAX_URLS)
  BY DEF BestInv, InHandIsUpdate
<1>3. GoodRow(row, word)
  BY <1>1 DEF BestInv, GoodRows
<1>4. row \in Row /\ WellFormed(row, MAX_URLS)
  BY <1>3 DEF GoodRow
<1>5. \A n \in NodesOf(row.nodes) :
        /\ n.no = no => n.weight = weight
        /\ n.no = p => n.weight = v
  BY <1>1, <1>3 DEF GoodRow, TrueNode, NodesOf
<1>6. p # no => RankedIn(row.nodes, MAX_URLS, p, v)
  BY RankedIs DEF Ranked
<1>7. p = no => v = weight
  OBVIOUS
<1> HIDE DEF row, no, weight, v
<1>8. RankedIn(UpdateWeight(row, no, weight, MAX_URLS).nodes, MAX_URLS, p, v)
  <2>1. CASE p = no
    BY <1>1, <1>4, <1>7, <2>1, IndexedPageIsRanked, MaxUrlsAssumption
  <2>2. CASE p # no
    BY <1>1, <1>4, <1>5, <1>6, <2>2, OtherPagesStayRanked, MaxUrlsAssumption
  <2> QED BY <2>1, <2>2
<1> QED BY <1>2, <1>8, RankedIs DEF v

LEMMA UpdateRowsKeepsTheBest ==
  ASSUME BestInv, NEW w \in Worker, UpdateRows(w)
  PROVE  BestInv'
<1>1. PICK S \in (SUBSET DOMAIN unsaved[w]) \ {{}} :
       /\ reverse' = [word \in Word |->
                        IF word \in S THEN unsaved[w][word] ELSE reverse[word]]
       /\ raced' = raced \cup {word \in S : reverse[word] # selected[w][word]}
       /\ indexed' = indexed \cup {<<page[w], word>> : word \in S}
       /\ unsaved' = [unsaved EXCEPT ![w] = Without(@, S)]
       /\ selected' = [selected EXCEPT ![w] = Without(@, S)]
  BY DEF UpdateRows
<1>2. GoodRows'
  BY UpdateRowsKeeps DEF BestInv
<1>3. \A x \in Worker : InHandIsUpdate(x)'
  <2>1. DOMAIN unsaved[w] = DOMAIN selected[w]
    BY DEF BestInv, GoodRows, InHand
  <2>2. InHandIsUpdate(w)'
    BY <1>1, <2>1 DEF UpdateRows, BestInv, GoodRows, TypeOK, InHandIsUpdate, Without
  <2>3. ASSUME NEW x \in Worker, x # w
        PROVE  InHandIsUpdate(x)'
    BY <1>1, <2>3 DEF UpdateRows, BestInv, GoodRows, TypeOK, InHandIsUpdate
  <2> QED BY <2>2, <2>3
<1>4. RowsKeepTheBest'
  <2> SUFFICES ASSUME NEW entry \in indexed', entry[2] \notin raced'
               PROVE  Ranked(entry[1], entry[2])'
    BY DEF RowsKeepTheBest
  <2>0. /\ entry \in PageNo \X Word
        /\ S \subseteq Word
    BY <1>1, <1>2 DEF GoodRows, TypeOK, BestInv, GivesRows
  <2>1. CASE entry[2] \notin S
    <3>1. entry \in indexed /\ entry[2] \notin raced
      BY <1>1, <2>1
    <3>2. Ranked(entry[1], entry[2])
      BY <3>1 DEF BestInv, RowsKeepTheBest
    <3>3. reverse'[entry[2]] = reverse[entry[2]]
      BY <1>1, <2>0, <2>1
    <3> QED BY <3>2, <3>3 DEF Ranked
  <2>2. CASE entry[2] \in S
    <3>1. reverse[entry[2]] = selected[w][entry[2]] /\ entry[2] \notin raced
      BY <1>1, <2>2
    <3>2. entry[1] = page[w] \/ Ranked(entry[1], entry[2])
      <4>1. entry \in indexed \/ entry[1] = page[w]
        BY <1>1
      <4> QED BY <3>1, <4>1 DEF BestInv, RowsKeepTheBest
    <3>3. reverse'[entry[2]] = unsaved[w][entry[2]]
      BY <1>1, <2>0, <2>2
    <3> QED BY <1>1, <2>0, <2>2, <3>1, <3>2, <3>3, WrittenRowKeepsTheBest DEF Ranked
  <2> QED BY <2>1, <2>2
<1> QED BY <1>2, <1>3, <1>4 DEF BestInv

LEMMA SelectRowsKeepsTheBest ==
  ASSUME BestInv, NEW w \in Worker, SelectRows(w)
  PROVE  BestInv'
<1>1. PICK S \in (SUBSET unread[w]) \ {{}} :
        /\ unsaved' = [unsaved EXCEPT ![w] = Together(@,
             [word \in S |-> UpdateWeight(reverse[word], page[w],
                                          Weight[page[w]][word], MAX_URLS)])]
        /\ selected' = [selected EXCEPT ![w] =
                          Together(@, [word \in S |-> reverse[word]])]
  BY DEF SelectRows
<1>2. GoodRows'
  BY SelectRowsKeeps DEF BestInv
<1>3. RowsKeepTheBest'
  BY DEF SelectRows, BestInv, RowsKeepTheBest, Ranked
<1>4. DOMAIN unsaved = Worker /\ DOMAIN selected = Worker
      /\ DOMAIN unsaved[w] = DOMAIN selected[w]
  BY DEF BestInv, GoodRows, InHand, TypeOK
<1>5. InHandIsUpdate(w)'
  BY <1>1, <1>4 DEF SelectRows, BestInv, InHandIsUpdate, Together
<1>6. ASSUME NEW x \in Worker, x # w
      PROVE  InHandIsUpdate(x)'
  BY <1>1, <1>4, <1>6 DEF SelectRows, BestInv, InHandIsUpdate
<1> QED BY <1>2, <1>3, <1>5, <1>6 DEF BestInv

\* The other steps write no row and select none; a worker that takes its next
\* page has nothing in hand.
LEMMA OtherStepsKeepTheBest ==
  ASSUME BestInv, NEW w \in Worker,
         CutWords(w) \/ AllSelected(w) \/ AllUpdated(w) \/ StatementFails(w)
  PROVE  BestInv'
<1>1. GoodRows'
  BY CutWordsKeeps, AllSelectedKeeps, AllUpdatedKeeps, StatementFailsKeeps DEF BestInv
<1>2. UNCHANGED <<reverse, unsaved, selected, indexed, raced>>
  BY DEF CutWords, AllSelected, AllUpdated, StatementFails
<1>3. RowsKeepTheBest'
  BY <1>2 DEF BestInv, RowsKeepTheBest, Ranked
<1>4. ASSUME NEW x \in Worker
      PROVE  InHandIsUpdate(x)'
  <2>1. DOMAIN unsaved[x] = {} \/ page'[x] = page[x]
    BY DEF BestInv, GoodRows, InHand, TypeOK, CutWords, AllSelected, AllUpdated,
           StatementFails
  <2> QED BY <1>2, <2>1 DEF BestInv, InHandIsUpdate
<1> QED BY <1>1, <1>3, <1>4 DEF BestInv

LEMMA StepKeepsTheBest == BestInv /\ [Next]_vars => BestInv'
<1> SUFFICES ASSUME BestInv, [Next]_vars PROVE BestInv'
  OBVIOUS
<1>1. CASE UNCHANGED vars
  BY <1>1 DEF vars, BestInv, GoodRows, TypeOK, InHand, InHandIsUpdate,
              RowsKeepTheBest, Ranked
<1>2. ASSUME NEW w \in Worker, Handle(w)
      PROVE  BestInv'
  BY <1>2, UpdateRowsKeepsTheBest, SelectRowsKeepsTheBest, OtherStepsKeepTheBest
     DEF Handle
<1> QED BY <1>1, <1>2 DEF Next

\* For every number of workers, words and pages and every max_url_per_word: as
\* long as no worker has written a row over an update it had not seen, every
\* page that was indexed in the row is in it, or gave way to pages in which the
\* word weighs no less.
THEOREM BestPagesStay == Spec => []RowsKeepTheBest
<1>1. BestInv /\ [Next]_vars => BestInv'
  BY StepKeepsTheBest
<1>2. BestInv => RowsKeepTheBest
  BY DEF BestInv
<1> QED BY InitBest, <1>1, <1>2, PTL DEF Spec

-----------------------------------------------------------------------------
(* What a search reads of the rows while the workers write them.           *)

\* What RowsReadAreFresh says of one row.
FreshRow(row, word) ==
  word \notin raced =>
    \A p \in PageNo :
      <<p, word>> \in before =>
        \/ HasNode(row.nodes, p)
        \/ /\ Len(row.nodes) = MAX_URLS
           /\ \A i \in DOMAIN row.nodes : row.nodes[i].weight >= Weight[p][word]

ReadInv ==
  /\ BestInv
  /\ unfound \subseteq Word
  /\ before \subseteq indexed
  /\ \A word \in DOMAIN wordno_weight :
       GoodRow(wordno_weight[word], word) /\ FreshRow(wordno_weight[word], word)

\* What was indexed stays so, and so does what was raced.
LEMMA HistoryGrows == [Next]_vars => indexed \subseteq indexed' /\ raced \subseteq raced'
<1> SUFFICES ASSUME NEW w \in Worker, Handle(w)
             PROVE  indexed \subseteq indexed' /\ raced \subseteq raced'
  BY DEF Next, vars
<1>1. CASE UpdateRows(w)
  BY <1>1 DEF UpdateRows
<1>2. CASE ~UpdateRows(w)
  BY <1>2 DEF Handle, CutWords, SelectRows, AllSelected, AllUpdated, StatementFails
<1> QED BY <1>1, <1>2

LEMMA WorkersKeepReadInv == ReadInv /\ [Next]_vars /\ UNCHANGED server => ReadInv'
<1> SUFFICES ASSUME ReadInv, [Next]_vars, UNCHANGED server PROVE ReadInv'
  OBVIOUS
<1>1. BestInv'
  BY StepKeepsTheBest DEF ReadInv
<1>2. UNCHANGED <<unfound, before, wordno_weight>>
  BY DEF server, request
<1>3. indexed \subseteq indexed' /\ raced \subseteq raced'
  BY HistoryGrows
<1>4. ASSUME NEW word \in DOMAIN wordno_weight'
      PROVE  GoodRow(wordno_weight[word], word)' /\ FreshRow(wordno_weight[word], word)'
  BY <1>2, <1>3, <1>4 DEF ReadInv, GoodRow, FreshRow
<1> QED BY <1>1, <1>2, <1>3, <1>4 DEF ReadInv

\* A row that is selected is as good as the one in the table.
LEMMA SelectWeightsKeepsReadInv ==
  ReadInv /\ SelectWeights /\ UNCHANGED vars => ReadInv'
<1> SUFFICES ASSUME ReadInv, SelectWeights, UNCHANGED vars PROVE ReadInv'
  OBVIOUS
<1>1. PICK S \in (SUBSET unfound) \ {{}} :
        /\ unfound' = unfound \ S
        /\ wordno_weight' = Together(wordno_weight, [word \in S |-> reverse[word]])
  BY DEF SelectWeights
<1>2. before' = before /\ indexed' = indexed /\ raced' = raced
  BY DEF SelectWeights, request, vars
<1>3. BestInv'
  BY StepKeepsTheBest DEF ReadInv
<1>4. ASSUME NEW word \in DOMAIN wordno_weight'
      PROVE  GoodRow(wordno_weight[word], word)' /\ FreshRow(wordno_weight[word], word)'
  <2>1. CASE word \in DOMAIN wordno_weight
    <3>1. wordno_weight'[word] = wordno_weight[word]
      BY <1>1, <2>1 DEF Together
    <3> QED BY <1>2, <2>1, <3>1 DEF ReadInv, GoodRow, FreshRow
  <2>2. CASE word \notin DOMAIN wordno_weight
    <3>1. word \in S /\ wordno_weight'[word] = reverse[word]
      BY <1>1, <1>4, <2>2 DEF Together
    <3>2. word \in Word
      BY <3>1 DEF ReadInv
    <3>3. GoodRow(reverse[word], word)
      BY <3>2 DEF ReadInv, BestInv, GoodRows
    <3>4. FreshRow(reverse[word], word)
      <4> SUFFICES ASSUME word \notin raced, NEW p \in PageNo, <<p, word>> \in before
                   PROVE  Ranked(p, word)
        BY DEF FreshRow, Ranked
      <4> QED BY DEF ReadInv, BestInv, RowsKeepTheBest
    <3> QED BY <1>2, <3>1, <3>3, <3>4 DEF GoodRow, FreshRow
  <2> QED BY <2>1, <2>2
<1> QED BY <1>1, <1>2, <1>3, <1>4 DEF ReadInv

\* A request and an exit empty the rows; a response leaves them alone.
LEMMA OtherServerStepsKeepReadInv ==
  ReadInv /\ (Accept \/ Respond \/ SearchFails) /\ UNCHANGED vars => ReadInv'
<1> SUFFICES ASSUME ReadInv, Accept \/ Respond \/ SearchFails, UNCHANGED vars
             PROVE  ReadInv'
  OBVIOUS
<1>1. BestInv'
  BY StepKeepsTheBest DEF ReadInv
<1>2. CASE Accept
  <2>1. before' = indexed /\ indexed' = indexed /\ wordno_weight' = NoRows
        /\ unfound' \subseteq Word
    BY <1>2 DEF Accept, vars
  <2>2. DOMAIN wordno_weight' = {}
    BY <2>1, NoRowsIs
  <2> QED BY <1>1, <2>1, <2>2 DEF ReadInv
<1>3. CASE Respond
  <2>1. UNCHANGED <<unfound, before, wordno_weight, indexed, raced>>
    BY <1>3 DEF Respond, request, vars
  <2> QED BY <1>1, <2>1 DEF ReadInv, GoodRow, FreshRow
<1>4. CASE SearchFails
  <2>1. before' = {} /\ wordno_weight' = NoRows /\ unfound' = {} /\ indexed' = indexed
    BY <1>4 DEF SearchFails, vars
  <2>2. DOMAIN wordno_weight' = {}
    BY <2>1, NoRowsIs
  <2> QED BY <1>1, <2>1, <2>2 DEF ReadInv
<1> QED BY <1>2, <1>3, <1>4

LEMMA EngineKeepsReadInv == EngineSpec => []ReadInv
<1>1. EngineInit => ReadInv
  BY InitBest, NoRowsIs DEF EngineInit, Init, ServerInit, ReadInv
<1>2. ReadInv /\ [EngineNext]_engine => ReadInv'
  BY WorkersKeepReadInv, SelectWeightsKeepsReadInv, OtherServerStepsKeepReadInv
     DEF EngineNext, ServerStep, engine
<1> QED BY <1>1, <1>2, PTL DEF EngineSpec

\* For any number of workers, words, pages and requests: whatever the workers
\* write between the statements of a search, the rows it reads can be parsed,
\* name pages with their weights, and hold the best of what was indexed when the
\* search came.
THEOREM SearchesReadFreshRows == EngineSpec => []RowsReadAreFresh
<1>1. ReadInv => RowsReadAreFresh
  BY DEF ReadInv, GoodRow, FreshRow, RowsReadAreFresh
<1> QED BY <1>1, EngineKeepsReadInv, PTL

\* The search server changes nothing the index stands on.
THEOREM EngineKeepsTheIndex == EngineSpec => [](IndexInv /\ RowsKeepTheBest)
<1>1. ReadInv => IndexInv /\ RowsKeepTheBest
  BY IndexInvIsGoodRows DEF ReadInv, BestInv
<1> QED BY <1>1, EngineKeepsReadInv, PTL

\* A finite sum of numbers is a number, and none of them is greater.  The fold
\* is a function defined by itself: Steps(n) gives it on the sets of n elements
\* at most, and it is its only value.
LEMMA FoundWeightIs ==
  ASSUME NEW rows, IsFiniteSet(DOMAIN rows), NEW p \in DOMAIN ParseWeight(rows),
         \A word \in DOMAIN rows : Times(word) * NodeWeight(rows[word].nodes, p) \in Nat
  PROVE  /\ ParseWeight(rows)[p] \in Nat
         /\ \A word \in DOMAIN rows :
              ParseWeight(rows)[p] >= Times(word) * NodeWeight(rows[word].nodes, p)
<1> DEFINE S == DOMAIN rows
           term(word) == Times(word) * NodeWeight(rows[word].nodes, p)
           pick(s) == CHOOSE x \in s : TRUE
           Def(g, D) == \A s \in D : g[s] = IF s = {} THEN 0 ELSE term(pick(s)) + g[s \ {pick(s)}]
           Small(n) == {s \in SUBSET S : Cardinality(s) <= n}
           it == CHOOSE iter : iter = [s \in SUBSET S |->
                   IF s = {} THEN 0 ELSE term(pick(s)) + iter[s \ {pick(s)}]]
<1>1. ParseWeight(rows)[p] = it[S]
  BY DEF ParseWeight, MapThenSumSet, MapThenFoldSet
<1>2. \A word \in S : term(word) \in Nat
  OBVIOUS
<1>3. \A s \in SUBSET S : s # {} =>
        /\ pick(s) \in s /\ IsFiniteSet(s) /\ Cardinality(s) \in Nat
        /\ Cardinality(s \ {pick(s)}) = Cardinality(s) - 1
  <2> SUFFICES ASSUME NEW s \in SUBSET S, s # {}
               PROVE  /\ pick(s) \in s /\ IsFiniteSet(s) /\ Cardinality(s) \in Nat
                      /\ Cardinality(s \ {pick(s)}) = Cardinality(s) - 1
    OBVIOUS
  <2>1. pick(s) \in s
    OBVIOUS
  <2> HIDE DEF pick
  <2>2. IsFiniteSet(s)
    BY FS_Subset
  <2> QED BY <2>1, <2>2, FS_RemoveElement, FS_CardinalityType
<1> HIDE DEF term, pick
<1>4. \A s \in SUBSET S : /\ IsFiniteSet(s) /\ Cardinality(s) \in Nat
                          /\ Cardinality(s) = 0 <=> s = {}
  BY FS_Subset, FS_CardinalityType, FS_EmptySet
\* The fold exists.
<1>5. \A n \in Nat : \E g : DOMAIN g = Small(n) /\ Def(g, Small(n))
  <2> DEFINE Bad == {n \in Nat : ~ \E g : DOMAIN g = Small(n) /\ Def(g, Small(n))}
  <2> SUFFICES ASSUME Bad # {} PROVE FALSE
    OBVIOUS
  <2>1. PICK n \in Bad : \A m \in Bad : n <= m
    BY MinIsLeast
  <2>0. n \in Nat
    BY <2>1
  <2>2. CASE n = 0
    <3>1. Small(n) = {{}}
      BY <1>4, <2>2
    <3>2. Def([s \in Small(n) |-> 0], Small(n))
      BY <3>1
    <3> QED BY <2>1, <3>2
  <2>3. CASE n # 0
    <3>1. n - 1 \in Nat /\ n - 1 \notin Bad
      <4> HIDE DEF Bad
      <4> QED BY <2>1, <2>0, <2>3
    <3>2. PICK g : DOMAIN g = Small(n - 1) /\ Def(g, Small(n - 1))
      BY <3>1
    <3> DEFINE h == [s \in Small(n) |-> IF s = {} THEN 0 ELSE term(pick(s)) + g[s \ {pick(s)}]]
    <3>3. \A s \in Small(n - 1) : h[s] = g[s] /\ s \in Small(n)
      <4> SUFFICES ASSUME NEW s \in Small(n - 1) PROVE h[s] = g[s] /\ s \in Small(n)
        OBVIOUS
      <4>1. s \in Small(n)
        BY <1>4, <2>0
      <4>2. g[s] = IF s = {} THEN 0 ELSE term(pick(s)) + g[s \ {pick(s)}]
        BY <3>2
      <4> QED BY <4>1, <4>2
    <3>4. \A s \in Small(n) : s # {} => s \ {pick(s)} \in Small(n - 1)
      BY <1>3, <2>0
    <3>5. Def(h, Small(n))
      BY <3>3, <3>4
    <3> QED BY <2>1, <3>5
  <2> QED BY <2>2, <2>3
<1>6. it = [s \in SUBSET S |-> IF s = {} THEN 0 ELSE term(pick(s)) + it[s \ {pick(s)}]]
  <2>1. Small(Cardinality(S)) = SUBSET S /\ Cardinality(S) \in Nat
    BY FS_Subset, FS_CardinalityType
  <2>2. PICK g : DOMAIN g = SUBSET S /\ Def(g, SUBSET S)
    BY <1>5, <2>1
  <2> DEFINE h == [s \in SUBSET S |-> g[s]]
  <2>3. h = [s \in SUBSET S |-> IF s = {} THEN 0 ELSE term(pick(s)) + h[s \ {pick(s)}]]
    BY <2>2, <1>3
  <2> HIDE DEF h
  <2> QED BY <2>3
<1> HIDE DEF it
<1>7. Def(it, SUBSET S)
  BY <1>6
<1> DEFINE Bounds(s) == it[s] \in Nat /\ \A word \in s : it[s] >= term(word)
<1>8. \A n \in Nat : \A s \in SUBSET S : Cardinality(s) = n => Bounds(s)
  <2> DEFINE Bad == {n \in Nat : ~ \A s \in SUBSET S : Cardinality(s) = n => Bounds(s)}
  <2> SUFFICES ASSUME Bad # {} PROVE FALSE
    OBVIOUS
  <2>1. PICK n \in Bad : \A m \in Bad : n <= m
    BY MinIsLeast
  <2>2. PICK s \in SUBSET S : Cardinality(s) = n /\ ~Bounds(s)
    BY <2>1
  <2>3. CASE s = {}
    <3>1. it[s] = 0
      BY <1>7, <2>3
    <3> QED BY <2>2, <2>3, <3>1
  <2>4. CASE s # {}
    <3> DEFINE rest == s \ {pick(s)}
    <3>1. pick(s) \in s /\ Cardinality(rest) = n - 1 /\ n \in Nat /\ rest \in SUBSET S
      BY <1>3, <2>2, <2>4
    <3>2. n # 0
      BY <1>3, <2>2, <2>4, FS_EmptySet
    <3>3. n - 1 \in Nat /\ n - 1 \notin Bad
      BY <2>1, <3>1, <3>2
    <3>4. Bounds(rest)
      BY <3>1, <3>3
    <3>5. it[s] = term(pick(s)) + it[rest]
      BY <1>7, <2>4
    <3>6. term(pick(s)) \in Nat
      BY <1>2, <3>1
    <3> HIDE DEF rest
    <3>7. \A word \in s : word = pick(s) \/ word \in rest
      BY DEF rest
    <3>8. \A word \in s : term(word) \in Nat
      BY <1>2
    <3> QED BY <2>2, <3>4, <3>5, <3>6, <3>7, <3>8
  <2> QED BY <2>3, <2>4
<1>9. Bounds(S)
  BY <1>8, FS_CardinalityType
<1> QED BY <1>1, <1>9 DEF term

LEMMA NodeWeightIs ==
  ASSUME NEW row, NEW word \in Word, GoodRow(row, word), NEW p \in PageNo
  PROVE  /\ NodeWeight(row.nodes, p) \in Nat
         /\ HasNode(row.nodes, p) => NodeWeight(row.nodes, p) = Weight[p][word]
<1> DEFINE nodes == row.nodes
           I == {i \in 1 .. Len(nodes) : nodes[i].no = p}
<1>1. nodes \in Seq(Node) /\ DOMAIN nodes = 1 .. Len(nodes) /\ Len(nodes) \in Nat
  BY DEF GoodRow, Row
<1>2. SelectInSeq(nodes, LAMBDA n : n.no = p) = IF I # {} THEN Min(I) ELSE 0
  BY DEF SelectInSeq
<1>3. I \in SUBSET Nat /\ 0 \notin I
  BY <1>1
<1>4. I # {} => Min(I) \in I
  <2> HIDE DEF I
  <2> QED BY <1>3, MinIsLeast
<1>5. NodeWeight(nodes, p) = IF I = {} THEN 0 ELSE nodes[Min(I)].weight
  <2> HIDE DEF I
  <2> QED BY <1>2, <1>3, <1>4 DEF NodeWeight
<1>6. p \in Nat \ {0} /\ Weight[p][word] \in Nat
  BY PagesAssumption
<1>7. \A i \in I : nodes[i].weight = Weight[p][word]
  BY <1>1, <1>6 DEF GoodRow, TrueNode
<1>8. HasNode(nodes, p) => I # {}
  BY <1>1 DEF HasNode
<1> HIDE DEF I, nodes
<1> QED BY <1>4, <1>5, <1>6, <1>7, <1>8 DEF nodes

\* A page with a node in a row is found with no less than the row's weight.
PagesFound ==
  \A word \in DOMAIN wordno_weight : \A p \in PageNo :
    HasNode(wordno_weight[word].nodes, p) =>
      p \in DOMAIN urlno_weight /\ urlno_weight[p] >= Times(word) * Weight[p][word]

WordsAsked == {word \in Word : sentence[word] > 0}

FoundInv ==
  /\ ReadInv
  /\ sentence \in [Word -> Nat] /\ IsFiniteSet(WordsAsked)
  /\ spc = "select" \/ Answered => DOMAIN wordno_weight \cup unfound = WordsAsked
  /\ Answered => unfound = {} /\ PagesFound

LEMMA RespondFinds ==
  ASSUME FoundInv, Respond
  PROVE  PagesFound'
<1>1. /\ urlno_weight' = ParseWeight(wordno_weight)
      /\ wordno_weight' = wordno_weight /\ sentence' = sentence
      /\ DOMAIN wordno_weight = WordsAsked
  BY DEF Respond, request, FoundInv
<1>2. \A word \in DOMAIN wordno_weight : word \in Word /\ GoodRow(wordno_weight[word], word)
  BY <1>1 DEF FoundInv, ReadInv, WordsAsked
<1>3. \A word \in Word : Times(word) \in Nat
  BY DEF FoundInv, Times
<1> SUFFICES ASSUME NEW word \in DOMAIN wordno_weight, NEW p \in PageNo,
                    HasNode(wordno_weight[word].nodes, p)
             PROVE  /\ p \in DOMAIN urlno_weight'
                    /\ urlno_weight'[p] >= Times(word) * Weight[p][word]
  BY <1>1 DEF PagesFound, Times
<1>4. p \in UNION {RowPages(wordno_weight[v]) : v \in DOMAIN wordno_weight}
  <2>1. p # 0
    BY PagesAssumption
  <2>2. p \in RowPages(wordno_weight[word])
    BY <2>1 DEF RowPages, HasNode, Range
  <2> QED BY <2>2
<1>5. \A v \in DOMAIN wordno_weight :
        Times(v) * NodeWeight(wordno_weight[v].nodes, p) \in Nat
  <2> SUFFICES ASSUME NEW v \in DOMAIN wordno_weight
               PROVE  Times(v) * NodeWeight(wordno_weight[v].nodes, p) \in Nat
    OBVIOUS
  <2>1. Times(v) \in Nat /\ NodeWeight(wordno_weight[v].nodes, p) \in Nat
    BY <1>2, <1>3, NodeWeightIs
  <2> QED BY <2>1
<1>6. IsFiniteSet(DOMAIN wordno_weight)
  BY <1>1 DEF FoundInv
<1>7. p \in DOMAIN ParseWeight(wordno_weight)
  BY <1>4 DEF ParseWeight
<1>8. ParseWeight(wordno_weight)[p] >= Times(word) * NodeWeight(wordno_weight[word].nodes, p)
  BY <1>5, <1>6, <1>7, FoundWeightIs
<1>9. NodeWeight(wordno_weight[word].nodes, p) = Weight[p][word]
  BY <1>2, NodeWeightIs
<1> QED BY <1>1, <1>7, <1>8, <1>9

LEMMA FoundInvStays == FoundInv /\ ReadInv' /\ [EngineNext]_engine => FoundInv'
<1> SUFFICES ASSUME FoundInv, ReadInv', [EngineNext]_engine PROVE FoundInv'
  OBVIOUS
<1>1. CASE UNCHANGED server
  BY <1>1 DEF FoundInv, server, request, WordsAsked, Answered, PagesFound, Times
<1>2. CASE Accept
  <2>1. PICK s \in Sentence : sentence' = s /\ unfound' = {word \in Word : s[word] > 0}
    BY <1>2 DEF Accept
  <2>2. spc' = "select" /\ DOMAIN wordno_weight' = {}
    BY <1>2, NoRowsIs DEF Accept
  <2> QED BY <2>1, <2>2, RequestsAssumption DEF FoundInv, WordsAsked, Answered
<1>3. CASE SelectWeights
  <2>1. PICK S \in (SUBSET unfound) \ {{}} :
          /\ unfound' = unfound \ S
          /\ wordno_weight' = Together(wordno_weight, [word \in S |-> reverse[word]])
    BY <1>3 DEF SelectWeights
  <2>2. DOMAIN wordno_weight' = DOMAIN wordno_weight \cup S
    BY <2>1 DEF Together
  <2>3. spc = "select" /\ spc' = "select" /\ sentence' = sentence
    BY <1>3 DEF SelectWeights, request
  <2> QED BY <2>1, <2>2, <2>3 DEF FoundInv, WordsAsked, Answered
<1>4. CASE Respond
  <2>1. /\ spc = "select" /\ unfound = {} /\ unfound' = {} /\ sentence' = sentence
        /\ wordno_weight' = wordno_weight
    BY <1>4 DEF Respond, request
  <2> QED BY <1>4, <2>1, RespondFinds DEF FoundInv, WordsAsked, Answered
<1>5. CASE SearchFails
  <2>1. spc' = "exited" /\ sentence' = sentence
    BY <1>5 DEF SearchFails
  <2> QED BY <2>1 DEF FoundInv, WordsAsked, Answered
<1> QED BY <1>1, <1>2, <1>3, <1>4, <1>5 DEF EngineNext, ServerStep, engine

LEMMA EngineStartsFound == EngineInit => FoundInv
<1> SUFFICES ASSUME EngineInit PROVE FoundInv
  OBVIOUS
<1>1. ReadInv
  BY InitBest, NoRowsIs DEF EngineInit, Init, ServerInit, ReadInv
<1>2. sentence = [word \in Word |-> 0] /\ spc = "accept" /\ requests = 0
  BY DEF EngineInit, ServerInit
<1>3. WordsAsked = {} /\ sentence \in [Word -> Nat]
  BY <1>2 DEF WordsAsked
<1> QED BY <1>1, <1>2, <1>3, FS_EmptySet DEF FoundInv, Answered

LEMMA EngineKeepsFoundInv == EngineSpec => []FoundInv
<1>1. ReadInv /\ FoundInv /\ ReadInv' /\ [EngineNext]_engine => FoundInv'
  BY FoundInvStays
<1> QED BY <1>1, EngineStartsFound, EngineKeepsReadInv, PTL DEF EngineSpec

\* For any number of workers, words, pages and requests, and whatever the
\* workers write between the statements of a search: once it is answered
\* (PlainSearchStrategy::handle), every page that was indexed under a word of
\* the sentence when it came is among the pages found, with at least what that
\* word counts for, unless its row was full of pages that weigh no less.
THEOREM IndexedPagesStayFound == EngineSpec => []IndexedPagesAreFound
<1>1. FoundInv => IndexedPagesAreFound
  <2> SUFFICES ASSUME FoundInv, Answered, NEW entry \in before,
                      sentence[entry[2]] > 0, entry[2] \notin raced
               PROVE  \/ /\ entry[1] \in DOMAIN urlno_weight
                         /\ urlno_weight[entry[1]] >=
                              Times(entry[2]) * Weight[entry[1]][entry[2]]
                      \/ LET nodes == wordno_weight[entry[2]].nodes
                         IN  /\ ~HasNode(nodes, entry[1])
                             /\ Len(nodes) = MAX_URLS
                             /\ \A i \in DOMAIN nodes :
                                  nodes[i].weight >= Weight[entry[1]][entry[2]]
    BY DEF IndexedPagesAreFound
  <2> DEFINE p == entry[1]
             word == entry[2]
  <2>1. entry \in PageNo \X Word
    BY DEF FoundInv, ReadInv, BestInv, GoodRows, TypeOK
  <2>2. p \in PageNo /\ word \in Word /\ <<p, word>> \in before
    BY <2>1
  <2>3. word \in DOMAIN wordno_weight
    BY <2>2 DEF FoundInv, WordsAsked
  <2>4. FreshRow(wordno_weight[word], word) /\ PagesFound
    BY <2>3 DEF FoundInv, ReadInv
  <2> HIDE DEF p, word
  <2>5. word \notin raced
    BY DEF word
  <2> QED BY <2>2, <2>3, <2>4, <2>5 DEF FreshRow, PagesFound, p, word
<1> QED BY <1>1, EngineKeepsFoundInv, PTL

-----------------------------------------------------------------------------
(* What a search answers.                                                  *)

LEMMA RangeIsFinite ==
  ASSUME NEW f, IsFiniteSet(DOMAIN f)
  PROVE  IsFiniteSet(Range(f))
<1> DEFINE g == [x \in DOMAIN f |-> f[x]]
<1>1. g \in Surjection(DOMAIN f, Range(f))
  BY DEF Surjection, Range
<1> QED BY <1>1, FS_Surjection

\* The pages of a row are finitely many, and pages.
LEMMA RowPagesAre ==
  ASSUME NEW row, NEW word, GoodRow(row, word)
  PROVE  IsFiniteSet(RowPages(row)) /\ RowPages(row) \subseteq PageNo
<1> DEFINE no == [i \in DOMAIN row.nodes |-> row.nodes[i].no]
<1>1. row.nodes \in Seq(Node) /\ DOMAIN row.nodes = 1 .. Len(row.nodes)
      /\ Len(row.nodes) \in Nat
  BY DEF GoodRow, Row
<1>2. IsFiniteSet(DOMAIN no)
  BY <1>1, FS_Interval
<1>3. RowPages(row) \subseteq Range(no)
  BY DEF RowPages, Range
<1>4. IsFiniteSet(Range(no))
  <2> HIDE DEF no
  <2> QED BY <1>2, RangeIsFinite
<1>5. RowPages(row) \subseteq PageNo
  BY DEF GoodRow, TrueNode, RowPages, Range
<1> HIDE DEF no
<1> QED BY <1>3, <1>4, <1>5, FS_Subset

\* A search finds finitely many pages, each with a number for a weight.
LEMMA PagesFoundAre ==
  ASSUME NEW rows, IsFiniteSet(DOMAIN rows),
         \A word \in DOMAIN rows :
           word \in Word /\ GoodRow(rows[word], word) /\ Times(word) \in Nat
  PROVE  /\ IsFiniteSet(DOMAIN ParseWeight(rows))
         /\ ParseWeight(rows) \in [DOMAIN ParseWeight(rows) -> Nat]
<1> DEFINE pages == [word \in DOMAIN rows |-> RowPages(rows[word])]
           S == DOMAIN ParseWeight(rows)
<1>1. S = UNION {RowPages(rows[word]) : word \in DOMAIN rows}
  BY DEF ParseWeight
<1>2. Range(pages) = {RowPages(rows[word]) : word \in DOMAIN rows}
  BY DEF Range
<1>3. IsFiniteSet(Range(pages))
  <2>1. DOMAIN pages = DOMAIN rows
    OBVIOUS
  <2> HIDE DEF pages
  <2> QED BY <2>1, RangeIsFinite
<1> HIDE DEF pages, S
<1>4. \A T \in Range(pages) : IsFiniteSet(T) /\ T \subseteq PageNo
  BY <1>2, RowPagesAre
<1>5. S = UNION Range(pages)
  BY <1>1, <1>2
<1>6. IsFiniteSet(S) /\ S \subseteq PageNo
  BY <1>3, <1>4, <1>5, FS_UNION
<1>7. ASSUME NEW p \in S
      PROVE  ParseWeight(rows)[p] \in Nat
  <2>1. \A word \in DOMAIN rows : Times(word) * NodeWeight(rows[word].nodes, p) \in Nat
    <3> SUFFICES ASSUME NEW word \in DOMAIN rows
                 PROVE  Times(word) * NodeWeight(rows[word].nodes, p) \in Nat
      OBVIOUS
    <3>1. Times(word) \in Nat /\ NodeWeight(rows[word].nodes, p) \in Nat
      BY <1>6, <1>7, NodeWeightIs
    <3> QED BY <3>1
  <2> QED BY <1>7, <2>1, FoundWeightIs DEF S
<1>8. ParseWeight(rows) = [p \in S |-> ParseWeight(rows)[p]]
  BY DEF S, ParseWeight
<1> HIDE DEF ParseWeight
<1>9. ParseWeight(rows) \in [S -> Nat]
  BY <1>7, <1>8
<1> QED BY <1>6, <1>9 DEF S

\* The unordered_map gives every page found once.
LEMMA PagesArrayIs ==
  ASSUME NEW S, IsFiniteSet(S), NEW pages \in SetToSeqs(S)
  PROVE  /\ Cardinality(S) \in Nat
         /\ Len(pages) = Cardinality(S)
         /\ Arranged([i \in 0 .. Len(pages) - 1 |-> pages[i + 1]], Cardinality(S), S)
<1> DEFINE n == Cardinality(S)
<1>1. n \in Nat
  BY FS_CardinalityType
<1>2. pages \in [1 .. n -> S] /\ \A i, j \in 1 .. n : i # j => pages[i] # pages[j]
  BY DEF SetToSeqs
<1>3. Len(pages) = n
  BY <1>1, <1>2
<1> HIDE DEF n
<1> DEFINE arr == [i \in 0 .. n - 1 |-> pages[i + 1]]
<1>4. \A i \in 0 .. n - 1 : i + 1 \in 1 .. n /\ arr[i] = pages[i + 1]
  BY <1>1
<1>5. \A i, j \in 0 .. n - 1 : arr[i] = arr[j] => i = j
  <2> SUFFICES ASSUME NEW i \in 0 .. n - 1, NEW j \in 0 .. n - 1, arr[i] = arr[j]
               PROVE  i = j
    OBVIOUS
  <2>1. i + 1 = j + 1
    BY <1>2, <1>4
  <2> QED BY <2>1
<1>6. arr \in [0 .. n - 1 -> S]
  BY <1>2, <1>4
<1> QED BY <1>1, <1>3, <1>5, <1>6 DEF Arranged, n

\* The answer is the slice of the ranking that starts at start_page.
SliceAsked(start, size) ==
  /\ IsSliceOfRanking(response.urls, urlno_weight, StartSub(start, size) + 1, size)
  /\ response.start_page \in {-1, start}

\* What is left over in the stringstream and what a request asks for: as long as
\* every number was one, nothing and what the server has understood.
AnswersInv ==
  /\ FoundInv
  /\ clean => ~ss
  /\ start_page \in Nat \ {0} /\ results_per_page \in Nat \ {0}
  /\ clean => asked = [start_page |-> start_page, results_per_page |-> results_per_page]
  /\ Answered => SliceAsked(start_page, results_per_page)

LEMMA WantedIs ==
  ASSUME NEW start \in Int, NEW size \in Int
  PROVE  /\ Wanted(start, size) = [start_page |-> Wanted(start, size).start_page,
                                   results_per_page |-> Wanted(start, size).results_per_page]
         /\ Wanted(start, size).start_page \in Nat \ {0}
         /\ Wanted(start, size).results_per_page \in Nat \ {0}
<1>1. AtLeastOne(start) \in Nat \ {0}
  BY DEF AtLeastOne
<1>2. InLimits(size, DEFAULT_RESULTS_PER_PAGE, MAX_RESULTS_PER_PAGE) \in Nat \ {0}
  BY RequestsAssumption DEF InLimits
<1> QED BY <1>1, <1>2 DEF Wanted

LEMMA RespondAnswers ==
  ASSUME AnswersInv, Respond
  PROVE  SliceAsked(start_page, results_per_page)'
<1>1. /\ urlno_weight' = ParseWeight(wordno_weight)
      /\ start_page' = start_page /\ results_per_page' = results_per_page
      /\ DOMAIN wordno_weight = WordsAsked
  BY DEF Respond, request, AnswersInv, FoundInv
<1> DEFINE S == DOMAIN urlno_weight'
<1>2. IsFiniteSet(S) /\ urlno_weight' \in [S -> Nat]
  <2>1. \A word \in DOMAIN wordno_weight :
          word \in Word /\ GoodRow(wordno_weight[word], word) /\ Times(word) \in Nat
    BY <1>1 DEF AnswersInv, FoundInv, ReadInv, WordsAsked, Times
  <2>2. IsFiniteSet(DOMAIN wordno_weight)
    BY <1>1 DEF AnswersInv, FoundInv
  <2> QED BY <1>1, <2>1, <2>2, PagesFoundAre
<1>3. PICK pages \in SetToSeqs(S) :
        response' = SearchResult([i \in 0 .. Len(pages) - 1 |-> pages[i + 1]],
                                 urlno_weight', start_page, results_per_page)
  BY DEF Respond
<1> DEFINE n == Cardinality(S)
           arr == [i \in 0 .. Len(pages) - 1 |-> pages[i + 1]]
           weight == urlno_weight'
<1>4. n \in Nat /\ Arranged(arr, n, S)
  BY <1>2, PagesArrayIs
<1>5. start_page \in Nat \ {0} /\ results_per_page \in Nat \ {0}
  BY DEF AnswersInv
<1>6. response' = SearchResult(arr, weight, start_page, results_per_page)
  BY <1>3
<1>7. weight \in [S -> Nat] /\ n = Cardinality(S)
  BY <1>2
<1> HIDE DEF S, n, arr, weight
<1>8. /\ IsSliceOfRanking(response'.urls, weight, StartSub(start_page, results_per_page) + 1,
                          results_per_page)
      /\ response'.start_page \in {-1, start_page}
  BY <1>2, <1>4, <1>5, <1>6, <1>7, ResultIsSlice
<1> QED BY <1>1, <1>8 DEF SliceAsked, weight

\* A number that is one is read as it is, and nothing is left over.
LEMMA NumberReadIs ==
  ASSUME NEW stuck, NEW param \in [n : Int, rest : BOOLEAN]
  PROVE  /\ ReadNumber(stuck, param).n \in Int
         /\ ~stuck /\ ~param.rest =>
              ReadNumber(stuck, param).n = param.n /\ ~ReadNumber(stuck, param).stuck
  BY DEF ReadNumber

LEMMA AcceptUnderstands ==
  ASSUME AnswersInv, Accept
  PROVE  /\ clean' => ~ss'
         /\ start_page' \in Nat \ {0} /\ results_per_page' \in Nat \ {0}
         /\ clean' => asked' = [start_page |-> start_page',
                                results_per_page |-> results_per_page']
<1>1. PICK params \in BoundedSeq(Param, 2) :
        LET start == IF Len(params) >= 1 THEN ReadNumber(ss, params[1]) ELSE NotGiven(ss)
            size == IF Len(params) = 2 THEN ReadNumber(start.stuck, params[2])
                    ELSE NotGiven(start.stuck)
            numbers == [i \in 1 .. 2 |-> IF i <= Len(params) THEN params[i].n ELSE 0]
            wanted == Wanted(start.n, size.n)
        IN  /\ ss' = size.stuck
            /\ start_page' = wanted.start_page
            /\ results_per_page' = wanted.results_per_page
            /\ asked' = Wanted(numbers[1], numbers[2])
            /\ clean' = (clean /\ \A i \in DOMAIN params : ~params[i].rest)
  BY DEF Accept
<1> DEFINE start == IF Len(params) >= 1 THEN ReadNumber(ss, params[1]) ELSE NotGiven(ss)
           size == IF Len(params) = 2 THEN ReadNumber(start.stuck, params[2])
                   ELSE NotGiven(start.stuck)
           given(i) == IF i <= Len(params) THEN params[i].n ELSE 0
<1>2. DOMAIN params = 1 .. Len(params) /\ Len(params) \in 0 .. 2
      /\ \A i \in 1 .. Len(params) : params[i] \in Param
  <2>1. PICK m \in 0 .. 2 : params \in [1 .. m -> Param]
    BY DEF BoundedSeq, SeqOf
  <2>2. Len(params) = m
    BY <2>1
  <2> QED BY <2>1, <2>2
<1>3. /\ 1 <= Len(params) => params[1] \in [n : Int, rest : BOOLEAN]
      /\ 2 <= Len(params) => params[2] \in [n : Int, rest : BOOLEAN]
  BY <1>2, RequestsAssumption
<1>4. clean' => /\ clean /\ ~ss
                /\ 1 <= Len(params) => ~params[1].rest
                /\ 2 <= Len(params) => ~params[2].rest
  <2>1. clean' => clean /\ \A i \in DOMAIN params : ~params[i].rest
    BY <1>1
  <2> QED BY <1>2, <2>1 DEF AnswersInv
<1>5. start.n \in Int /\ (clean' => start.n = given(1) /\ ~start.stuck)
  <2>1. CASE Len(params) >= 1
    BY <1>2, <1>3, <1>4, <2>1, NumberReadIs
  <2>2. CASE ~(Len(params) >= 1)
    BY <1>2, <1>4, <2>2 DEF NotGiven
  <2> QED BY <2>1, <2>2
<1>6. size.n \in Int /\ (clean' => size.n = given(2) /\ ~size.stuck)
  <2> HIDE DEF start
  <2>1. CASE Len(params) = 2
    BY <1>3, <1>4, <1>5, <2>1, NumberReadIs
  <2>2. CASE Len(params) # 2
    <3>1. ~(2 <= Len(params))
      BY <1>2, <2>2
    <3> QED BY <1>5, <2>2, <3>1 DEF NotGiven
  <2> QED BY <2>1, <2>2
<1>7. asked' = Wanted(given(1), given(2))
  BY <1>1
<1>8. /\ ss' = size.stuck
      /\ start_page' = Wanted(start.n, size.n).start_page
      /\ results_per_page' = Wanted(start.n, size.n).results_per_page
  BY <1>1
<1> HIDE DEF start, size, given
<1> QED BY <1>5, <1>6, <1>7, <1>8, WantedIs

LEMMA AnswersInvStays == AnswersInv /\ FoundInv' /\ [EngineNext]_engine => AnswersInv'
<1> SUFFICES ASSUME AnswersInv, FoundInv', [EngineNext]_engine PROVE AnswersInv'
  OBVIOUS
<1>1. CASE UNCHANGED server
  BY <1>1 DEF AnswersInv, server, request, Answered, SliceAsked
<1>2. CASE Accept
  <2>1. spc' = "select"
    BY <1>2 DEF Accept
  <2> QED BY <1>2, <2>1, AcceptUnderstands DEF AnswersInv, Answered
<1>3. CASE SelectWeights
  BY <1>3 DEF AnswersInv, SelectWeights, request, Answered
<1>4. CASE Respond
  <2>1. UNCHANGED request
    BY <1>4 DEF Respond
  <2> QED BY <1>4, <2>1, RespondAnswers DEF AnswersInv, request
<1>5. CASE SearchFails
  BY <1>5, RequestsAssumption DEF AnswersInv, SearchFails, Answered
<1> QED BY <1>1, <1>2, <1>3, <1>4, <1>5 DEF EngineNext, ServerStep, engine

\* For any number of pages, words and requests: as long as every number of every
\* request was one, a search is answered with the pages of results it asks for,
\* the heaviest first, whatever order the unordered_map gave them in
\* (PlainSearchStrategy::handle and its heap sort).
THEOREM AnswersStayAsAsked == EngineSpec => []AnswersAreAsAsked
<1>1. EngineInit => AnswersInv
  <2> SUFFICES ASSUME EngineInit PROVE AnswersInv
    OBVIOUS
  <2>1. ~Answered
    BY DEF EngineInit, ServerInit, Answered
  <2> QED BY <2>1, EngineStartsFound, RequestsAssumption
          DEF EngineInit, ServerInit, AnswersInv
<1>2. AnswersInv /\ FoundInv' /\ [EngineNext]_engine => AnswersInv'
  BY AnswersInvStays
<1>3. AnswersInv => AnswersAreAsAsked
  BY DEF AnswersInv, AnswersAreAsAsked, SliceAsked
<1> QED BY <1>1, <1>2, <1>3, EngineKeepsFoundInv, PTL DEF EngineSpec
=============================================================================
