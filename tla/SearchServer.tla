----------------------------- MODULE SearchServer -----------------------------
(***************************************************************************)
(* A search server (http/search_server.cc) that answers one request after  *)
(* another with PlainSearchStrategy::handle                                *)
(* (strategy/plain_search_strategy.hpp) while the workers of ReverseIndex  *)
(* update the rows it reads.  A sentence is what Jieba's CutForSearch      *)
(* leaves of it: how often each word of dictionary.word occurs.  The words *)
(* of dictionary.stop_word are among them; the tables do not change here.  *)
(* A request other than GET, and one with nothing behind its first =,      *)
(* changes nothing; the others are all taken, an empty sentence (one of no *)
(* words) with the numbers behind it too.                                  *)
(***************************************************************************)
EXTENDS ReverseIndex, SearchRank, StringStream

CONSTANTS
  Sentence,       \* a subset of [Word -> Nat]
  StopWord,
  Param,          \* what stands for a number in a request
  MaxRequests,    \* bound: the requests of a behaviour
  DEFAULT_RESULTS_PER_PAGE,
  MAX_RESULTS_PER_PAGE

ASSUME RequestsAssumption ==
  /\ Sentence \subseteq [Word -> Nat]
  /\ \A s \in Sentence : IsFiniteSet({word \in Word : s[word] > 0})
  /\ StopWord \subseteq Word
  /\ Param \subseteq [n : Int, rest : BOOLEAN]
  /\ MaxRequests \in Nat
  /\ DEFAULT_RESULTS_PER_PAGE \in 1 .. MAX_RESULTS_PER_PAGE

VARIABLES
  spc,
  ss,          \* characters are left over in the stringstream
  sentence, start_page, results_per_page,
  unfound,     \* the words whose rows are not selected yet
  wordno_weight,
  urlno_weight,
  response,
  requests,
  asked,       \* history: the page and the size the request names
  clean,       \* history: every number of a request was one so far
  before       \* history: what was indexed when the request came

request == <<ss, sentence, start_page, results_per_page, requests, asked,
             clean, before>>
server == <<spc, unfound, wordno_weight, urlno_weight, response, request>>
engine == <<vars, server>>

ServerInit ==
  /\ spc = "accept"
  /\ ss = FALSE /\ clean = TRUE
  /\ sentence = [word \in Word |-> 0]
  /\ start_page = 1 /\ results_per_page = DEFAULT_RESULTS_PER_PAGE
  /\ unfound = {} /\ wordno_weight = NoRows
  /\ urlno_weight = [p \in {} |-> 0]
  /\ response = NoResults
  /\ requests = 0
  /\ asked = [start_page |-> 1, results_per_page |-> DEFAULT_RESULTS_PER_PAGE]
  /\ before = {}

NotGiven(stuck) == [n |-> 0, stuck |-> stuck]

Wanted(start, size) ==
  [start_page |-> AtLeastOne(start),
   results_per_page |-> InLimits(size, DEFAULT_RESULTS_PER_PAGE, MAX_RESULTS_PER_PAGE)]

\* Mutant: the rows of the searches before are kept, and not read again.
AcceptRowsKept ==
  /\ spc = "accept"
  /\ requests < MaxRequests
  /\ \E s \in Sentence :
       /\ sentence' = s
       /\ unfound' = {word \in Word : s[word] > 0}
  /\ spc' = "select"
  /\ requests' = requests + 1
  /\ before' = indexed
  /\ urlno_weight' = [p \in {} |-> 0]
  /\ response' = NoResults
  /\ UNCHANGED <<wordno_weight, ss, start_page, results_per_page, asked, clean>>

\* q=...&start_page=...&results_per_page=..., the last two optional.
Accept ==
  /\ spc = "accept"
  /\ requests < MaxRequests
  /\ \E s \in Sentence, params \in BoundedSeq(Param, 2) :
       LET start == IF Len(params) >= 1 THEN ReadNumber(ss, params[1]) ELSE NotGiven(ss)
           size == IF Len(params) = 2 THEN ReadNumber(start.stuck, params[2])
                   ELSE NotGiven(start.stuck)
           numbers == [i \in 1 .. 2 |-> IF i <= Len(params) THEN params[i].n ELSE 0]
           wanted == Wanted(start.n, size.n)
       IN  /\ sentence' = s
           /\ ss' = size.stuck
           /\ start_page' = wanted.start_page
           /\ results_per_page' = wanted.results_per_page
           /\ asked' = Wanted(numbers[1], numbers[2])
           /\ clean' = (clean /\ \A i \in DOMAIN params : ~params[i].rest)
           /\ unfound' = {word \in Word : s[word] > 0}
  /\ spc' = "select"
  /\ requests' = requests + 1
  /\ before' = indexed
  /\ wordno_weight' = NoRows
  /\ urlno_weight' = [p \in {} |-> 0]
  /\ response' = NoResults

\* wordno_times: tmp_times.erase takes the stop words away, and
\* wordno_times[tmp_no] = tmp_times[tmp_word] brings them back with 0.
Times(word) == IF word \in StopWord THEN 0 ELSE sentence[word]

\* One statement select no,weight from reverse.
SelectWeights ==
  /\ spc = "select"
  /\ \E S \in (SUBSET unfound) \ {{}} :
       /\ unfound' = unfound \ S
       /\ wordno_weight' = Together(wordno_weight, [word \in S |-> reverse[word]])
  /\ UNCHANGED <<spc, urlno_weight, response, request>>

\* Mutant: the loop over a row ends one node early.
RowPagesButLast(row) == {n.no : n \in Range(Front(row.nodes))} \ {0}

\* The pages of a row; number 0 is none.
RowPages(row) == {n.no : n \in Range(row.nodes)} \ {0}

\* The weight of page p in one row.
NodeWeight(nodes, p) ==
  LET i == SelectInSeq(nodes, LAMBDA n : n.no = p)
  IN  IF i = 0 THEN 0 ELSE nodes[i].weight

\* parse_weight on every row: the pages of all of them, each with its weights
\* times the occurrences of the words.
ParseWeight(rows) ==
  [p \in UNION {RowPages(rows[word]) : word \in DOMAIN rows} |->
     MapThenSumSet(LAMBDA word : Times(word) * NodeWeight(rows[word].nodes, p),
                   DOMAIN rows)]

\* Ranking and response; the unordered_map gives its pages in any order.  The
\* rows of visited_url that are read last are there for every indexed page.  What
\* is written of the response -- that there is no result, when one of the numbers
\* handle left is negative (search_server.cc:132) -- is not part of the state.
Respond ==
  /\ spc = "select"
  /\ unfound = {}
  /\ urlno_weight' = ParseWeight(wordno_weight)
  /\ \E pages \in SetToSeqs(DOMAIN urlno_weight') :
       response' = SearchResult([i \in 0 .. Len(pages) - 1 |-> pages[i + 1]],
                                urlno_weight', start_page, results_per_page)
  /\ spc' = "accept"
  /\ UNCHANGED <<unfound, wordno_weight, request>>

\* A statement fails: exit(1), without a response; its rows go with the process.
SearchFails ==
  /\ QueryFails
  /\ spc = "select"
  /\ spc' = "exited"
  /\ unfound' = {} /\ wordno_weight' = NoRows
  /\ start_page' = 1 /\ results_per_page' = DEFAULT_RESULTS_PER_PAGE
  /\ ss' = FALSE /\ before' = {}
  /\ asked' = [start_page |-> 1, results_per_page |-> DEFAULT_RESULTS_PER_PAGE]
  /\ UNCHANGED <<sentence, urlno_weight, response, requests, clean>>

ServerStep == Accept \/ SelectWeights \/ Respond \/ SearchFails

EngineNext ==
  \/ Next /\ UNCHANGED server
  \/ ServerStep /\ UNCHANGED vars

EngineInit == Init /\ ServerInit

EngineSpec == EngineInit /\ [][EngineNext]_engine

-----------------------------------------------------------------------------
Answered == spc = "accept" /\ requests > 0

\* As long as all numbers of all requests so far were numbers, the page of
\* results is the one the request asks for: the next results_per_page places,
\* from its start_page on, of the pages found, the heaviest first.
AnswersAreAsAsked ==
  Answered /\ clean =>
    LET first == StartSub(asked.start_page, asked.results_per_page) + 1
    IN  /\ IsSliceOfRanking(response.urls, urlno_weight, first, asked.results_per_page)
        /\ response.start_page \in {-1, asked.start_page}

\* The rows a search has read so far, while the workers write between its
\* statements, are readable and true, and each is no older than the search: a
\* page that was in the index when the search came is in the row it read of the
\* word, or gave way to pages in which the word weighs no less, or the row was
\* written over an unseen update.
RowsReadAreFresh ==
  \A word \in DOMAIN wordno_weight :
    LET nodes == wordno_weight[word].nodes
    IN  /\ WellFormed(wordno_weight[word], MAX_URLS)
        /\ \A i \in DOMAIN nodes : TrueNode(nodes[i], word)
        /\ word \notin raced =>
             \A p \in PageNo :
               <<p, word>> \in before =>
                 \/ HasNode(nodes, p)
                 \/ /\ Len(nodes) = MAX_URLS
                    /\ \A i \in DOMAIN nodes : nodes[i].weight >= Weight[p][word]

\* While a search goes on, its rows are selected one statement after another
\* and the workers write between them.  Even so a page that was in the row of
\* a word of the sentence before the search began is found, and with no less
\* than the weight of that word, unless the row is full of pages that weigh no
\* less or was written over an unseen update.
IndexedPagesAreFound ==
  Answered =>
    \A entry \in before :
      LET p == entry[1]
          word == entry[2]
      IN  sentence[word] > 0 /\ word \notin raced =>
            \/ /\ p \in DOMAIN urlno_weight
               /\ urlno_weight[p] >= Times(word) * Weight[p][word]
            \/ LET nodes == wordno_weight[word].nodes
               IN  /\ ~HasNode(nodes, p)
                   /\ Len(nodes) = MAX_URLS
                   /\ \A i \in DOMAIN nodes : nodes[i].weight >= Weight[p][word]
=============================================================================
