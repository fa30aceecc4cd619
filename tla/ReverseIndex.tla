----------------------------- MODULE ReverseIndex -----------------------------
(***************************************************************************)
(* The reverse index while several workers update it: each runs            *)
(* ReverseValuateStrategy::handle on one page after another, in a process  *)
(* of its own.  handle selects the rows of all words of the page in        *)
(* several statements, computes the new weight columns, and writes them    *)
(* with several statements more.  There is no transaction around them and  *)
(* no lock.  The sizes of the statements, and so which rows go together,   *)
(* are left open.  A word of both the title and the contents may be asked  *)
(* for in two statements and its row computed and written twice; here once.*)
(***************************************************************************)
EXTENDS WeightList, FiniteSets

CONSTANTS
  Worker,
  Word,           \* the words of dictionary.word that have a row in reverse
  PageNo,         \* the numbers get_url_no gives the pages
  Weight,         \* Weight[p][word]: 10 per use in the title, 1 per use below
  Handles,        \* the pages a worker handles
  MAX_URLS,       \* max_url_per_word of strategy_manager
  QueryFails      \* a statement may fail

ASSUME PagesAssumption ==
  /\ PageNo \subseteq Nat \ {0}
  /\ Weight \in [PageNo -> [Word -> Nat]]
  /\ Handles \in [Worker -> SUBSET PageNo]
  /\ QueryFails \in BOOLEAN

ASSUME MaxUrlsAssumption == MAX_URLS \in Nat \ {0}

VARIABLES
  reverse,     \* the weight column of every word
  pc, page,
  left,        \* the pages a worker has still to handle
  unread,      \* the words of its page whose rows it has not selected
  unsaved,     \* the rows it has computed and not written
  selected,    \* history: the rows as they were when it selected them
  indexed,     \* history: <<page, word>> whose row was written
  raced        \* history: words of which a row was written over an update

vars == <<reverse, pc, page, left, unread, unsaved, selected, indexed, raced>>

WordsOf(p) == {word \in Word : Weight[p][word] > 0}

NoRows == [word \in {} |-> DefaultRow]

\* f gives some words a row each.
GivesRows(f) == \E S \in SUBSET Word : f \in [S -> Row]

TypeOK ==
  /\ reverse \in [Word -> Row]
  /\ pc \in [Worker -> {"idle", "select", "update", "exited"}]
  /\ page \in [Worker -> PageNo \cup {0}]
  /\ left \in [Worker -> SUBSET PageNo]
  /\ unread \in [Worker -> SUBSET Word]
  /\ DOMAIN unsaved = Worker /\ DOMAIN selected = Worker
  /\ \A w \in Worker : GivesRows(unsaved[w]) /\ GivesRows(selected[w])
  /\ indexed \subseteq PageNo \X Word
  /\ raced \subseteq Word

Init ==
  /\ reverse = [word \in Word |-> DefaultRow]
  /\ pc = [w \in Worker |-> "idle"]
  /\ page = [w \in Worker |-> 0]
  /\ left = Handles
  /\ unread = [w \in Worker |-> {}]
  /\ unsaved = [w \in Worker |-> NoRows]
  /\ selected = [w \in Worker |-> NoRows]
  /\ indexed = {}
  /\ raced = {}

\* handle begins: the words of the title and of the contents, and those of
\* them the dictionary knows.
CutWords(w) ==
  /\ pc[w] = "idle"
  /\ \E p \in left[w] :
       /\ page' = [page EXCEPT ![w] = p]
       /\ left' = [left EXCEPT ![w] = @ \ {p}]
       /\ unread' = [unread EXCEPT ![w] = WordsOf(p)]
  /\ pc' = [pc EXCEPT ![w] = "select"]
  /\ UNCHANGED <<reverse, unsaved, selected, indexed, raced>>

Together(rows, more) ==
  [word \in DOMAIN rows \cup DOMAIN more |->
     IF word \in DOMAIN rows THEN rows[word] ELSE more[word]]

\* One select statement, and update_weight on each of its rows.
SelectRows(w) ==
  /\ pc[w] = "select"
  /\ \E S \in (SUBSET unread[w]) \ {{}} :
       /\ unread' = [unread EXCEPT ![w] = @ \ S]
       /\ unsaved' = [unsaved EXCEPT ![w] = Together(@,
            [word \in S |-> UpdateWeight(reverse[word], page[w],
                                         Weight[page[w]][word], MAX_URLS)])]
       /\ selected' = [selected EXCEPT ![w] =
                         Together(@, [word \in S |-> reverse[word]])]
  /\ UNCHANGED <<reverse, pc, page, left, indexed, raced>>

AllSelected(w) ==
  /\ pc[w] = "select"
  /\ unread[w] = {}
  /\ pc' = [pc EXCEPT ![w] = "update"]
  /\ UNCHANGED <<reverse, page, left, unread, unsaved, selected, indexed, raced>>

Without(rows, S) == [word \in DOMAIN rows \ S |-> rows[word]]

\* One update statement: update reverse set weight = case no when ... end.
UpdateRows(w) ==
  /\ pc[w] = "update"
  /\ \E S \in (SUBSET DOMAIN unsaved[w]) \ {{}} :
       /\ reverse' = [word \in Word |->
                        IF word \in S THEN unsaved[w][word] ELSE reverse[word]]
       /\ raced' = raced \cup {word \in S : reverse[word] # selected[w][word]}
       /\ indexed' = indexed \cup {<<page[w], word>> : word \in S}
       /\ unsaved' = [unsaved EXCEPT ![w] = Without(@, S)]
       /\ selected' = [selected EXCEPT ![w] = Without(@, S)]
  /\ UNCHANGED <<pc, page, left, unread>>

AllUpdated(w) ==
  /\ pc[w] = "update"
  /\ unsaved[w] = NoRows
  /\ pc' = [pc EXCEPT ![w] = "idle"]
  /\ UNCHANGED <<reverse, page, left, unread, unsaved, selected, indexed, raced>>

\* exit(1), with part of the rows written.
StatementFails(w) ==
  /\ QueryFails
  /\ \/ pc[w] = "select" /\ unread[w] # {}
     \/ pc[w] = "update" /\ unsaved[w] # NoRows
  /\ pc' = [pc EXCEPT ![w] = "exited"]
  /\ UNCHANGED <<reverse, page, left, unread, unsaved, selected, indexed, raced>>

Handle(w) ==
  \/ CutWords(w) \/ SelectRows(w) \/ AllSelected(w) \/ UpdateRows(w)
  \/ AllUpdated(w) \/ StatementFails(w)

Next == \E w \in Worker : Handle(w)

Spec == Init /\ [][Next]_vars

-----------------------------------------------------------------------------
\* Whatever statements of several workers come in between, and whichever of
\* them is the last one of a worker that exits, every row stays one that
\* update_weight can read again: the number in front counts the nodes, there
\* are at most max_url_per_word of them, sorted by weight, one for a page.
RowsWellFormed == \A word \in Word : WellFormed(reverse[word], MAX_URLS)

TrueNode(node, word) ==
  node.no = 0 \/ (node.no \in PageNo /\ node.weight = Weight[node.no][word])

\* A node of a row names a page and the weight the word has in that page, and
\* never that of another word or page.
RowsTellTheTruth ==
  \A word \in Word :
    \A i \in DOMAIN reverse[word].nodes : TrueNode(reverse[word].nodes[i], word)

\* The page has a node in the row, or the row is full of pages in which the
\* word weighs no less.
Ranked(p, word) ==
  LET nodes == reverse[word].nodes
  IN  \/ HasNode(nodes, p)
      \/ /\ Len(nodes) = MAX_URLS
         /\ \A i \in DOMAIN nodes : nodes[i].weight >= Weight[p][word]

\* Until a worker writes a row over an update it has not seen, the row lists
\* the best of the pages that were indexed in it.
RowsKeepTheBest ==
  \A entry \in indexed : entry[2] \in raced \/ Ranked(entry[1], entry[2])

\* What a worker has selected and computed and not written yet.
UnsavedRows ==
  \A w \in Worker :
    /\ DOMAIN unsaved[w] = DOMAIN selected[w]
    /\ pc[w] = "idle" => unread[w] = {} /\ DOMAIN unsaved[w] = {}
    /\ pc[w] = "update" => unread[w] = {}
    /\ unread[w] \cup DOMAIN unsaved[w] \subseteq
         (IF page[w] = 0 THEN {} ELSE WordsOf(page[w]))
    /\ \A word \in DOMAIN unsaved[w] :
         /\ WellFormed(unsaved[w][word], MAX_URLS)
         /\ \A i \in DOMAIN unsaved[w][word].nodes :
              TrueNode(unsaved[w][word].nodes[i], word)

\* The inductive invariant behind RowsWellFormed and RowsTellTheTruth.
IndexInv == TypeOK /\ RowsWellFormed /\ RowsTellTheTruth /\ UnsavedRows

-----------------------------------------------------------------------------
(* What the project report says of the index, and the code does not do.    *)

\* A row lists the best max_url_per_word of all pages indexed in it.
NoPageForgotten == \A entry \in indexed : Ranked(entry[1], entry[2])
=============================================================================
