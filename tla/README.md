# amigao in TLA+

amigao is a small web search engine in C++: a spider that fetches pages and
writes a reverse index into a MariaDB database, and a search server that
answers queries from it. This directory models the parts whose correctness
depends on the order in which things happen and the algorithms whose results are
hard to test, checks them with TLC on small instances, and proves the central
invariants with TLAPS for all instances.

Paths below are relative to the `src/` of the repository's sources
(`spider/master.cc` is `src/src/spider/master.cc`). "The report" is the
project report in the repository, `终稿_刘春林2016214292毕业论文最终版.docx`.

## 1. The system

### Components, their state and operations

| part | code | state | operations |
|---|---|---|---|
| shared memory segment | `spider/shmctrl.h` | ring of URLs, ring of (URL, page) slots, head and tail of both; mutexes `url_lock`, `html_lock`, `url_lists_lock`, shared between processes and not robust | test for empty and full, advance an index, count the used slots |
| master | `spider/master.cc` | start url file, list of child pids | creates the segment, fills the URL ring, starts the workers, waits; on SIGINT drains the ring into the write url file, removes the segment, interrupts the children |
| crawl_worker (n processes) | `spider/crawl_worker.cc` | `work_url`, `has_url`, page, links, open sockets | take a URL from the ring, the read url file or its own last page; fetch; put URL and page into the html ring, or persist the page itself when that ring is full |
| parse_worker (n processes) | `spider/parse_worker.cc` | the same without `has_url` | take a page out of the html ring and persist it; when the ring is empty fetch one like a crawl worker |
| monitor | `spider/monitor.cc` | none | prints the indices of the rings every three seconds |
| SqlDBOperation | `db/sql_db_operation.hpp` | tables `visited_url`, `website_nice`, `dict_manager`, `strategy_manager`, dictionaries | check-then-write statements, one row at a time |
| SqlDBPool, DBPoolList, DBInfo | `db/*.hpp` | lists of unused and used connections, one mutex each, three limits | get, recycle and add connections |
| ReverseValuateStrategy | `strategy/reverse_valuate_strategy.hpp` | table `reverse`: for each word the list of its pages | `handle`: mark a page visited, number it, put it into the row of each of its words |
| PlainSearchStrategy | `strategy/plain_search_strategy.hpp` | none | look up the words of a query, add up weights, partial heap sort, one page of results |
| search_server | `http/search_server.cc` | one `stringstream` used for all requests | parse a CGI request, call the strategy, print HTML |
| segmenter | `utils/cppjieba/` (`CutForSearch` and what it is made of) | dictionary trie with weights, hidden Markov model | cut a text into the words it is indexed and searched by |
| URL helpers | `utils/format_url.cc`, `parse_url.cc`, `escape_url.cc`, `str2html.cc` | none | normal form of a URL, host and path, percent escapes |
| crypt_string, ini_parser, parse_html | `utils/` | none | encoding of database text, `key=value` files, links, text and title of a page |
| wrappers | `utils/op_redis.hpp`, `maria_op.cc`, `gbk2utf8.cc`, `str2sum.cc` | | calls of hiredis, mysql, iconv; one unused checksum |
| abandoned | `spider_multithr/` | | empty loops |
| not the program's own | gumbo, limonp, `build/`, `manager/`, `page/`, `test/` | | third-party code, build output, a one-call import tool, static pages, unit tests |

### How they interact

The spider's processes share the segment, the database and two files, the read
url file (URLs to fetch, consumed line by line with `sed`) and the write url
file (URLs that found no room in the ring). The master and the workers exchange
nothing but the segment and one SIGINT. Database access is check-then-write
without transactions, so two processes may act on the same check. Inside a
process everything is sequential. The pool carries locks for threads, although
none of today's programs starts one.

### Hard behaviours

* Two programs take three mutexes in different orders, with five `goto start`
  and three early `exit` paths between the locks.
* The URL and the page of a slot are copied in separate loops.
* A page's row in `visited_url` is written before its words are indexed, and
  nobody fetches a page that has the row.
* SIGINT may end a worker at any instruction, also inside a locked section;
  `at_exit` uses the ring without `url_lock` while workers still run.
* A URL changes hands between ring, html ring, `has_url`, the two files and a
  worker's links; each hand-over can lose it.
* Rows of the reverse index are read, changed in memory and written back, and a
  search reads them statement by statement meanwhile.
* Operations on dictionaries take up to six statements; one may fail, or the
  process end, between any two.
* A peer that accepts a connection and sends nothing holds a worker for ever.
* A failed query looks like an empty answer to `if_exist`.
* `stringstream`s are used again after numbers that did not read to their end.
* The segmenter, the partial heap sort and the paging have many boundary cases.

`PROJECT.json` lists these and the others as hazards, each at its line.

### What makes each component correct

* Segment: both rings are bounded FIFO queues; a slot pairs a page with its URL.
* Workers: lock discipline, at most one lock at a time, no accepted URL is lost,
  every accepted URL is settled at last unless a peer never answers.
* Persisting: a page is indexed under the URL it came from; a visited page is
  indexed, or somebody is at it, or its worker died.
* Master: a stop ends every process.
* Pool: exclusive use of connections, the three limits, no circular wait.
* Reverse index: rows stay well formed and true, and hold the best pages.
* Tables: a registered dictionary exists and is complete; strategies, pages and
  websites each have one row with what was stored last, unless two processes meet on it or
  a query fails; a page keeps its number.
* Search: the page of results asked for, by weight; pages indexed before are found.
* Algorithms: the reference definitions of section 2.

## 2. The modules

| module | models | extends |
|---|---|---|
| `ShmRing` | index arithmetic of a ring | |
| `BoundedFifo` | abstract specification: a bounded FIFO queue | |
| `SpiderState` | constants with their assumptions, variables, type invariant | `ShmRing` |
| `WorkerSteps` | the steps both kinds of worker share | `SpiderState` |
| `CrawlWorker`, `ParseWorker` | `main` of the two programs | `WorkerSteps` |
| `Master` | seeding, spawning, SIGINT, `at_exit` | `WorkerSteps` |
| `Spider` | composition, fairness, properties, refinement to `BoundedFifo` | the three above |
| `MCSpider` | a small web for TLC | `Spider` |
| `SpiderProofs`, `SpiderUrls` | proofs about the rings, locks and pages; about URLs | `Spider` |
| `DbPool`, `MCDbPool`, `DbPoolProofs` | the connection pool, its instance, its proofs | |
| `WeightList`, `WeightListProofs` | `update_weight`, the pure algorithm on one row, and what is proved of it | |
| `ReverseIndex`, `MCReverseIndex` | `handle` in several workers, and its instance | `WeightList` |
| `SearchRank` | heap, partial heap sort, page of results, links to pages | |
| `SearchRankProofs` | folds; the sort, the pages of results and the links, for any number of pages | `SearchRank`, `WeightListProofs` |
| `StringStream` | numbers read through a `stringstream` that is used again | |
| `SearchServer`, `MCSearchServer` | the loop over requests and `PlainSearchStrategy::handle`, beside the workers of the index | `ReverseIndex`, `SearchRank`, `StringStream` |
| `ReverseIndexProofs` | proofs about the index, what a search reads of it and what it answers | `SearchServer`, `SearchRankProofs` |
| `DictTables` | operations on dictionaries, `dict_manager`, `strategy_manager` | |
| `PageTables` | operations on `visited_url` and `website_nice` | |
| `MCDictTables` | both groups, for TLC | the two above |
| `TableProofs` | proofs about both groups | the same two |
| `Runes`, `WordTrie`, `Segmenter` | decoding of UTF-8; dictionary and trie; `CutForSearch` | |
| `SegmenterSpec` | what the words of a text ought to be | `Segmenter` |
| `FormatUrl`, `CryptString`, `IniParser`, `DbInfo`, `PageContents` | the helpers in `utils/` and the reading of the pool's limits | |
| `TextCases` | the inputs of the pure algorithms, over any alphabets and bounds | all of them, `SearchRank` |
| `MCText` | dictionaries, alphabets and bounds for TLC | `TextCases` |
| `TextProofs` | proofs about the pure algorithms | `TextCases`, `SearchRankProofs` |

### The spider

One variable per field of the segment, per file, per table the spider decides
by, and per local variable of a worker that outlives a step. `pc[w]` is where
worker `w` is; a label stands between two points at which another process or a
signal makes a difference: taking a lock, one access to the segment inside a
lock, one statement against the database, a fetch, one access to a file.

* A URL is a model value, already normalised by `format_url`; `NoUrl` is an
  empty line or an unwritten slot.
* A page is known by its URL and by whether it went through an html slot
  (`cut`): the copy into a slot leaves out the first `URL_SIZE` bytes of the
  page (`crawl_worker.cc:307-313`), so it can yield fewer links
  (`SlotLinks` beside `Links`).
* A fetch succeeds or fails. `Answers` and `Fails` say which URLs can; they may
  overlap. All failures have one effect in the code, `op_website_nice(url, "0")`.
* `sockfd` is never closed, so every fetch spends a descriptor; at `FdLimit`
  `socket` and the opening of the list files fail.
* `ReadUrlFails`, `WriteUrlFails`, `IndexFails` let those operations fail at
  any time; each then ends in `exit(1)` in the worker, or in an early return.
* The two queries before a fetch (`website_nice`, then `visited_url`) are one
  step: rows are only ever added, so both answers together are those of one
  moment between them.
* The write url file is a set. Its bytes, and how stdio buffers of several
  processes interleave in it, are not modelled.
* The links of a page are an `unordered_set`: every order is possible.
* `found` is a history variable: the URLs the spider ever accepted as work.

### The pool

`unused_pool` and `used_pool` are sets, because neither the order of the lists
nor their nodes matter to who holds a connection. Every lock call is a step of
its own; both releases at the end of a method are one, nothing observable lies
between them. `held[t]` are the connections in the hands of thread `t`, which
may nest `Nesting` operations (`add_dict_table` holds one connection, calls
`op_dict_manager`, which holds one, calls `if_exist`, which takes the third).
A thread calls as often as it likes; nothing counts the calls.

### The reverse index

A weight column `"3|10_7|2_4|0_0"` is a record of the number in front and the
sequence of nodes. They are kept apart because the code trusts the number and
never counts. `WeightList!UpdateWeight` is `update_weight`: cut out the page's
node if there is one, insert the new one in front of the first node whose
weight is not greater, and drop the last node when the number says the row is
full. `ReverseIndex` runs it in several workers; which rows go into one
statement is left open, as it depends on `MAX_INSERT`. `raced` is a history
variable: the words of which a row was written over an update its writer had
not seen.

### The search engine

`SearchServer` composes the index with a server that reads it. A request is a
sentence (how often each known word occurs, stop words among them) and up to two
numbers. The numbers go through `ReadNumber`: `ss.clear()` resets the state of
the stream and not its text, so characters behind a number stay in front of the
next one, also of the next request. Rows are selected in any number of
statements, with steps of the workers between them. Ranking is `SearchRank`,
whose array, heap and bounds are those of the code; the `unordered_map` gives the
pages in any order. `Times` keeps what the code does with stop words: `erase`
removes them and the subscript that follows brings them back with 0, so their
rows are read and their pages found with weight 0.

### The tables

`DictTables` and `PageTables` give every statement a step; `QueryFails` and
`StatementFails` let it fail, `Dies` and `Killed` end the process there. A row is
a record, `auto_increment` and the primary key are modelled, texts are versions.
Histories (`torn`, `unlisted`, `shared`) say what an operation that failed, ended
halfway or met another on one row has touched; the properties hold of the rest,
and their conditions are the exact list of what check-then-write costs: two workers that
meet between `if_exist` and the insertion, or one whose query fails, give a URL two rows and
two numbers (`sql_db_operation.hpp:182`, `298`), and a column whose statement is longer than
`MAX_INSERT` keeps its old version (line 190), so that a row mixes two. `rm_dict_manager`, which takes a dictionary
out of the list and leaves its table, is an operation of its own beside `rm_dict_table`,
as in `db_operation.h`; `unlisted` are the dictionaries it was called for. Bounds:
`MaxJobs`, `MaxCalls`, `MaxFailures`. The two groups of operations share no table,
so `MCDictTables` runs one group or the other and not their product.

### The pure algorithms

Each is an operator over sequences, and beside it stands a definition of what it
should return, made without the algorithm's means: `SegmenterSpec` takes the best
of all partitions and of all paths, `IsSliceOfRanking` counts the heavier pages,
`IsReadBack` inverts, `ReadsAsShown` looks at what surrounds a node. Weights and
logarithms are small integers; `MinDouble` is far below all sums of them. In
`FormatUrl` `http`, `www` and `javascript` are tokens, and so is a part of the word
`javascript`, after which the code looks for a colon too (`format_url.cc:78-82`); every
other token is one character. `TextCases` makes every input up to a bound a state, so that a
counterexample is an input.

## 3. The runs

| run | question | result |
|---|---|---|
| `SpiderRun` | `TypeOK`; `NoUrlLost`: every accepted URL is queued, listed, in hand, visited or blacklisted, with `UrlInv`, the invariant it is proved from; `VisitedPagesAreIndexed`; `UrlRingIsFifo`; `EveryUrlSettled`: every accepted URL is at last visited, blacklisted or saved, unless a worker hangs at it or all parse workers hang | hold, the last under fairness; 164,613 states |
| `SpiderCrawlers` | `PagesKeepTheirUrl`, `OneLockAtATime`, `HtmlRingIsFifo` with contention for the html ring | hold |
| `SpiderInterrupted` | `HtmlInv`, the invariant of `SpiderProofs`, with SIGINT at any moment and every failure; `StopEndsEveryWorker`: once the ring is drained all processes end, whatever locks they hold | hold; 2,052,790 states |
| `DbPoolRun` | `PoolInv`: lists, locks and hands agree, within the limits; `GetReturnsOrIsOvertaken`: a call of `get_connection` returns, unless two threads are `Crossed` or others are given connections for ever | hold, the last under fairness; 626,060 states |
| `EngineRun` | `IndexInv`: rows well formed and true; `RowsKeepTheBest`: pages are lost to better ones only, unless rows raced; `RowsReadAreFresh` and `IndexedPagesAreFound`: a search finds what was indexed before it; `AnswersAreAsAsked`: the page of results asked for | hold; 2,819,036 states |
| `DictRun` | dictionaries: `RegisteredDictionariesExist`, `LoadedDictionariesAreRegistered`, `LoadedTablesAreComplete`; `StrategiesAreApart`; pages and websites: `PagesAreWhole`, `NumbersAreKept`, `NicesAreObeyed`; `TypeOK` | hold, with the exceptions each names; 2,188,068 states |
| `TextRun` | one property for each algorithm: `TextsAreCovered`, `TextsAreCutByWeight`, `LeftOversAreMostProbable`, `DictionariesFindTheirWords`, `RunesLieInTheBytes`, `ResultPagesAreSlices`, `LinksLeadToPages`, `PagesHaveOneUrl`, `TextsAreReadBack`, `SettingsAreTheFiles`, `LimitsAreUsable`, `PagesAreReadAsShown` | hold; 127,835 inputs |
| `SpiderDrain` | "delete from queue: 1.judge the used size" (`shmctrl.h:45`) | violated: `at_exit` and a worker both advance the head |
| `SpiderDescriptors` | only URLs whose site fails are blacklisted | violated: descriptors run out |
| `SpiderSurvivor` | the master kills the workers it started (report, 4.8) | violated: `system()` ignores SIGINT |
| `DbPoolCrossed` | "to make thread-safety" (`interface/db_pool.h:32`) | violated: opposite lock orders |
| `ReverseIndexRace` | a row holds the best pages indexed in it (report, 4.3.2) | violated: lost update |

Some tests that say they pass do not describe the code, and the properties of `TextRun`
contradict them. `src/test/format_url.cc:56` expects `javascript/fkdj` to be left as it is and
`src/test/parse_url.cc:65-69` a host `javascript`; `format_url` clears that address, for a
slash comes before any dot (`format_url.cc:95`), as the assertion commented out above line
56 says. `PagesHaveOneUrl` says that the host of what is left has a dot.
`src/test/crypt_string.cc:27` expects `crypt(s) = decrypt(crypt(s))`; `decrypt` gives back
`s`, as `TextsAreReadBack` says, and the two differ whenever `s` has a character that is
encoded. The rules in `utils/crypt_string.cc:21-36` (`#0`, `#1`, `##`) are those of the
older functions commented out at the end of that file. (The other assertion there, `find(...)<0`, compares an
unsigned number with 0 and cannot hold.)

`CHECK_DEADLOCK FALSE` stands where the system may stop: after an interrupt or
an exit every process may be gone, a worker may wait for a lock its dead holder
keeps, two threads of `DbPool` can wait for each other, which
`DbPoolCrossed` shows, the workers of `ReverseIndex` run out of pages, the
server and the processes at the tables reach the bound of their calls, and an
input of `TextCases` its length. In `SpiderRun` and `SpiderCrawlers` deadlock is
checked.

### Bounds, and why they are enough

* `UrlNums` and `HtmlNums` are 2 or 3: a ring holds one element less than it has
  slots, so 2 is the smallest ring that is both full and empty within one step
  and wraps at every advance. The rings whose refinement of a queue is checked
  have 3 slots: in a ring of 2, a writer that overruns the head would turn one
  element into none, which is what taking it does.
* Three URLs where links are handed out: a page has two or three links, of which
  one becomes `has_url`, and the others find room in the ring, go to the write url
  file, or are dropped as visited or blacklisted.
* Two crawl workers and a parse worker (`SpiderCrawlers`), one of each
  elsewhere: html ring conflicts need two writers and a reader. Crawl workers
  are symmetric; symmetry is used only in `SpiderCrawlers`, whose properties
  are safety properties.
* `FdLimit = 9` is never reached in `SpiderRun` and `SpiderCrawlers` (no worker
  opens more than 8 sockets), so it cuts nothing off;
  `FdLimit = 1` is used where running out of descriptors is the question.
* `DbPool`: five connections are `MAX_CONN + MAX_IDLE`, so a fresh one always
  exists. Calls are not bounded.
* `SearchServer`: `MAX_URLS = 2` and three pages overfill a row; page 2 is handled
  by both workers, which cuts out its node as first and as last one, and
  two requests show what the first leaves behind for the second. The middle node
  of a longer row is the proofs' (`UpdateWeightIs`).
* `DictTables`: a book of three words fills one batch and leaves one over; three
  operations are two that meet and one before or after them. `PageTables`: two
  workers, two URLs, three operations, two failing queries.
* `TextRun`: texts of five characters from two words' worth of alphabet with all
  overlaps the dictionaries allow, an unseen character, a letter, a digit, the dot
  and a separator; six pages of three weights, page sizes one to four; URLs of four
  tokens; four bytes; files of five tokens, so at most two settings.

### Fairness

* `Scheduled`: weak fairness of the master's start-up, since the kernel schedules
  runnable processes; strong fairness of every worker at every label but `fetch`. A
  pthread mutex promises no order, so a worker could in principle find a lock taken
  whenever it looks; `EveryUrlSettled` is false in such runs, and the assumption says
  that they do not occur. Nothing is assumed at a fetch: `recv`
  (`crawl_worker.cc:176`, `parse_worker.cc:171`) waits on a blocking socket without
  `SO_RCVTIMEO`, and SIGALRM has a handler but `alarm` is never called, so a peer that
  says nothing keeps a worker for ever. `EveryUrlSettled` holds of all URLs but the
  one such a worker has in hand, and of all of them only while some parse worker does not
  hang; it would be false if a hanging worker kept a lock or a share of the ring.
* `StoppedSpec`: weak fairness of `at_exit` and of signal delivery only. No
  worker has to move for the stop to be complete.
* `DbPool!FairSpec`: strong fairness of a thread inside the pool, for the same
  reason, and every operation gives its connections back. It does not make
  `get_connection` return: `add_connection` gives up the locks before `goto again`
  takes them (`sql_db_pool.hpp:73-87`), and another thread may take the connection
  each time. `GetReturnsOrIsOvertaken` says that nothing else keeps a call from returning.

### What the passing runs assume

* `NoUrlLost` and `VisitedPagesAreIndexed` are for a spider nobody stops and
  whose files open. After a SIGINT, what a worker holds in `work_url`, in its
  links and in the html ring is gone; the code saves only the url ring.
* In `SpiderRun` `IndexFails` is `FALSE`: `VisitedPagesAreIndexed` is for the runs in
  which `handle` does not return early. When it does, the page is visited and stays out
  of the index, which nothing repairs.
* None of the properties of the spider excludes that two workers fetch one page: the
  question whether it was visited is asked a fetch before the row is written.
* `StopEndsEveryWorker` starts at the end of the drain. Before that, the drain
  competes with live workers for the ring and ends only if they let it.
* `GetReturnsOrIsOvertaken` needs `MAX_IDLE > MIN_IDLE` and a `MAX_CONN` that
  the operations do not use up among themselves. `DBInfo` enforces neither:
  with `MAX_IDLE = MIN_IDLE` `get_connection` goes round for ever, and with
  `MAX_CONN` below 3 `add_dict_table` waits for itself.
* `SearchServer` has `visited_url` rows for every indexed page: `handle` of the
  indexing side writes them first.
* `AnswersAreAsAsked` is for requests whose numbers are numbers, since the first
  one that is not; `2x` in one request spoils the numbers of all later ones.
* `PagesHaveOneUrl` except a second `www.` or a blank behind the first, which
  `format_url` takes off only when called again. A host that is a beginning of `javascript`
  before a colon, as in `j:8.x`, is cleared like a script.
* A sentence that is cut inside a character decodes to nothing, so the search has
  no words (`RunesLieInTheBytes` says so).
* An empty line in the read url file is taken for its end
  (`crawl_worker.cc:107`) and stays there, with all lines after it. The runs
  have no such line.

## 4. What is proved

All proofs are checked by tlapm with the SMT, Zenon and PTL backends. They use the
named assumptions about the constants: `WorkersAssumption`, `RingSizesAssumption`,
`WebAssumption`, `EnvironmentAssumption` (`SpiderState`), `DBInfoAssumption` and
`PoolAssumption` (`DbPool`), `PagesAssumption` and `MaxUrlsAssumption`
(`ReverseIndex`), `RequestsAssumption` (`SearchServer`), `DictAssumption`
(`DictTables`), `PageAssumption` (`PageTables`), and those of `TextCases`:
`CasesAssumption`, `WeightsAssumption`, `NumbersAssumption`, `BytesAssumption`,
`RunesAssumption`, `LinesAssumption`, `UrlsAssumption`, `FilesAssumption`; `UrlSizeAssumption` (`FormatUrl`);
of the segmenter, `DictionaryAssumption` (lines
have words and weights) and `ModelAssumption` (the model gives every state and step
a weight). None of them says more of a constant than its type in the
program and the range the code lets through. TLC evaluates all of them in the runs.

**Rings** (`SpiderProofs`). The two tests the code has for a full ring,
`(tail+1)%N == head` on the html ring and a count of the room on the url ring,
agree (`RoomUnlessFull`); an advance changes the set of used slots by exactly
the slot at head or tail. Read as a sequence (`RingContents`), a ring that has
room has one element more at its end after a slot is written and the tail is
advanced (`ContentsAfterPut`), and a ring that is not empty is its own tail after
the head is advanced (`ContentsAfterTake`).

**The spider** (`SpiderProofs`). For any number of
workers, URLs and slots, with SIGINT at any moment and every failure:

* `TypesAreKept`, `LocksAreDisciplined`, `NoWorkerHoldsTwoLocks`,
* `PagesBelongToTheirUrl`: `Spec => []PagesKeepTheirUrl`.

`PagesKeepTheirUrl` is not inductive. That the page a parse worker copies
belongs to the URL it copied a step before needs three facts: both are of one
slot that was filled with a pair (`HtmlSlotsPaired`); between the two copies no
other worker moves `html_head` or overwrites the slot, because the worker holds
`html_lock` (`LockDiscipline`) and the slot lies between head and tail; and the
worker's label tells what it has in its hands (`PageInHand`). Their conjunction
with `TypeOK` is `HtmlInv`, which `HtmlInvariant` proves. A worker that SIGINT
kills between the copies does no harm, since it keeps the lock:
`LockDiscipline` lets only `killed` workers hold it outside the section. Each
step of the proof is a case of `Next`, grouped by the part of the state it
leaves alone. The lemma `RunsAreSpiders` carries the theorems over to the
specification without interrupts. `at_exit`, which takes no lock, moves only the *url* ring's
head, so it cannot disturb the invariant; the url ring itself has no
such invariant, as `SpiderDrain` shows.

**No URL is lost** (`SpiderUrls`). `AcceptedUrlsStay`: in a spider that is not
interrupted, whose write url file opens (`~WriteUrlFails`, and `DescriptorsLeft`
whenever a worker has links left over), `NoUrlLost` holds for any number of
workers, URLs and slots. `NoUrlLost` alone is not inductive: that a worker which
advances `url_head` takes away the URL it carries, that `sed` removes the line
that was read, and that the room it counted is still there when it inserts, hold
because of the lock it has. `UrlInv` adds these (`UrlInHand`), finds the URLs slot
by slot, and stands together with `HtmlInv`, from which it has the locks and the
pages. The lemma `NothingLost` reduces each step to what happens to the URLs it
moves: every place it takes one from is matched by the place it puts it to.
`UrlsStayInPlace` states the whole invariant. The same module proves `VisitedPagesStayIndexed`, under `~IndexFails`, for the spider
with interrupts.

**The rings are queues.** `HtmlRingRefinesFifo`: `Spec => HtmlRingIsFifo`, with
SIGINT at any moment, because a crawl worker tests for room in the section it
stores in, and the page and its URL take their places before `html_tail` moves.
`UrlRingRefinesFifo`: `RunSpec => UrlRingIsFifo`. A worker tests the url ring some
steps before it moves `url_head` or `url_tail`; `RingClaims` says that what it
found is still true then, and follows from `LockDiscipline`. It is not proved for
`Spec`, where it is false: `at_exit` moves `url_head` without the lock.

**The pool** (`DbPoolProofs`). `PoolInvariant` and `ConnectionsStayExclusive`.
`PoolWithinLimits` alone is not inductive, because `add_connection` works with a
count taken before it has the lock. `StepsKnow` adds that the count, after
`add_connection` has cut it down under the lock, still fits; and that what a
thread is about to recycle is in the used list and in nobody's hands.

**The reverse index** (`WeightListProofs`, `ReverseIndexProofs`). `UpdateWeightIs`
turns the branches of `update_weight` into one rule: the page's node is spliced
into the sorted list, and the list is cut off after `max_url_per_word` nodes. From
it follow `UpdateWeightKeepsTheRow`, `IndexedPageIsRanked` and
`OtherPagesStayRanked`, for every row, page and weight.

* `IndexStaysWellFormed`: `Spec => []IndexInv`. A row another worker wrote in
  between, or a worker that exits after half of its statements, can cost the
  index pages but never leaves a row that `update_weight` misreads. The rows a
  worker has computed and not written are part of the invariant
  (`UnsavedRows`), since they are what the next statement writes.
* `BestPagesStay`: `Spec => []RowsKeepTheBest`. The invariant `BestInv` adds that
  a row in hand is `update_weight` of the row that was selected; when that is
  still the row in the table, the two ranking theorems carry every page over,
  and when it is not, the word is in `raced`. `ReverseIndexRace` shows that
  the exception is needed.
* `SearchesReadFreshRows`: `EngineSpec => []RowsReadAreFresh`. `ReadInv` joins
  `BestInv` with what holds of the rows a search has read: each was good and held
  the best when it was selected, and everything indexed before the search came
  was indexed by then. `EngineKeepsTheIndex` carries `IndexInv` and
  `RowsKeepTheBest` over to the engine.

* `IndexedPagesStayFound`: `EngineSpec => []IndexedPagesAreFound`. `RowsReadAreFresh`
  speaks of rows; what a search finds is the sum over them. `FoundInv` says that
  the rows read and the words not found are together the words asked for, and that
  after the answer every page of a row read is found with no less than that row's
  share: the sum contains it, and the other terms are numbers.
* `AnswersStayAsAsked`: `EngineSpec => []AnswersAreAsAsked`. `AnswersInv` says of
  every stage of a request what its numbers are, as long as all requests so far
  were numbers: then nothing is left in the `stringstream`, and `ReadNumber`
  returns what was sent. That the answer is a slice of the ranking is
  `ResultIsSlice`, below, for whatever order the `unordered_map` gives.

**Ranking** (`SearchRankProofs`). The heap sort of `PlainSearchStrategy::handle`
consists of folds over `1 .. n`. A fold is a function defined by itself on sets:
`FoldExists` gives the function, and `UpTo`, which is the least number principle,
the induction over its rounds; so these loops, unlike definitions that recur over
other data, can be proved of. `SiftDownSinks`: one element sinks and leaves a heap,
only inside its range. `CreateHeapIsHeap`, `HeapTop`, `HeapSortSorts`: every
round puts the heaviest of what is left behind what is left.
`HeapSortsAgree`: a round more leaves the places alone that are sorted.

* `ResultIsSlice`: what is cut out of the partly sorted array is the slice of the
  ranking asked for. `ResultsArePaged`: the pages of results together hold every
  page found once and each says how many there are, for any number of pages that
  a `short` can count (`Short(n) = n`) and any page size.
* `LinksAre`: the links lead to pages of results, for any number and any window
  of at least four.

**The tables** (`TableProofs`), for any number of processes, dictionaries, words,
pages, rooms in a statement and bounds, whatever fails and wherever a process ends.

* `DictInv` carries `RegisteredStayThere`, `LoadedStayRegistered`,
  `LoadedStayComplete` and `StrategiesStayApart`. (`LoadedStayRegistered` excepts what
  `rm_dict_manager` was called for by itself, which leaves the table.) None of the four
  is inductive: an operation acts on what its `if_exist` answered some statements before. `DictInv`
  says what the label of an operation tells of the tables as long as nobody
  else is at the same name, and, in the loop of `add_dict_table`, which words are
  entered when `k` statements of `MaxRows` are sent.
* `PageInv` carries `PagesStayWhole`, `NumbersStayKept` and `NicesStayObeyed`: a worker
  between its check and its write still sees the row it checked, unless two
  workers met on the URL; and every number ever given is that of a row, which
  is what makes a second answer the first.
* `DictTablesKeepTheirTypes`, `PageTablesKeepTheirTypes`: the types both rest on.

**The pure algorithms** (`TextProofs`). The inputs of `TextRun` are bounded; the
theorems these rest on are about every input.

* `PagesStaySlices` and `LinksStayInside`, from `ResultsArePaged` and `LinksAre`.
* `LimitsStayUsable`, from `LimitsFit`: whatever six numbers a settings file
  gives, readable or not, the limits are such that the pool can work, and those
  that are such limits are kept.
* `TextsStayReadBack`, from `TextIsReadBack`: what is encoded is decoded as it was,
  whichever bytes are let through, as long as the mark is not. The decoder is
  defined from the end of the text to its front; `BackwardsExists` gives such a
  function, and `OneByteBack` is the step of an induction over the pieces that were
  written.
* `DictionariesStayComplete`, from `TrieFindsItsWords`: over all lines, the trie
  knows the words of the first `k` and their last weights (`KnowsLines`).
* `RunesStayInTheBytes`, from `RunesLieSideBySide`, for bytes in any order, and
  `CutTextsDecode`, for a text cut anywhere. From where a character begins, the
  front of a text decodes to that character and what follows it, or to nothing
  where the character is cut (`Follows`); so going back from the cut nothing
  stays nothing (`NothingFollows`), and whole characters are the runes, at the sums
  of the widths before them (`CharactersFollow`).

* `TextsStayCutByWeight`, from `CutsAreHeaviest`. `CalcDPIs` says what every entry of
  the table of `CalcDP` is: its weight is that of the best word to begin with and of
  the entry behind that word, `FirstIsLeast` and `TopIs` that there is such a word. Going
  down from the end of the range, no cut of what follows a position weighs more than
  its entry, because its first word is one of those compared and its rest
  is a cut of what follows that word. `PartitionsAre` takes the set of all cuts
  apart that way, `ChainHasPieces` the cut that is returned, and `TrieWeighs`
  says that the trie gives a word the weight of its last line in the two
  dictionaries.

* `TextsStayCovered`, from `CutsCoverTheText`. Every stage takes a stretch of the text
  and gives words that fill it (`Tile`): `ChainTiles` for the cuts of the dictionary, the
  ASCII words, the ranges and the groups of left-over characters, `InternalCutTiles` for the
  model, whose words end at every E and S and whose last state is one of the two
  (`ViterbiIs`). `FlattenTiles` puts stretches that meet together, and `FlattenOnce` and
  `FlattenRange` say which words a sequence of sequences holds; words inside different
  words differ because those lie apart. It needs nothing of the weights and the model
  beyond their types.

* `PagesKeepOneUrl`, from `PagesAreKnownUnderOneForm`, `PagesAreAskedForAsRecorded` and `ScriptsAreNotAskedFor`, for
  every sequence of tokens of any length. What `format_url` leaves and `IsStable` is a URL in
  its form (`HasForm`: no blank in front, no slash or blank behind, no capital, a host with
  a dot before any slash, `FormIs`). Since a protocol has a slash before any dot, no such URL
  begins with one (`NoProtocol`), so any spelling of it loses exactly what was put around
  it, one layer after another (`Unwrapped`, `ProtocolOff`, `SpelledAs`).

* `SettingsStayTheFiles`, from `FilesAreReadAsSaid`, for a file of any characters. The
  positions `parse` walks to in a line are where the first `=`, the only word before it
  and the only value behind it stand (`NamedIs`, `GivenIs`), so a line that is kept sets
  what it says, or nothing (`SettingIs`). The lines kept and their settings are each
  taken from a sequence one by one and in order (`FlattenSifts`), and since `result.insert`
  keeps what is there, a word has its first value (`SettingsAre`).

Only model-checked: `LeftOversAreMostProbable` and `PagesAreReadAsShown`. `LeftOversAreMostProbable` is about the weights of whole paths,
and `Plus`, the sum that stays at `MinDouble`, is monotone only as long as no
sum of known weights falls below it, so the usual argument for Viterbi's algorithm
needs a bound on them that the code does not have; `PagesAreReadAsShown` needs an
induction over trees, and uses `SelectSeq`, which the provers cannot take apart.
Out of the prover's reach and left to TLC: `EveryUrlSettled`,
`StopEndsEveryWorker` and `GetReturnsOrIsOvertaken`, which are liveness properties
under fairness.

## 5. What is not modelled

* Start-up of the master before the segment exists; the form with `argc == 6`,
  which reads `argv[6]`; `at_exit` with a null `shmptr` when `shmget` fails.
* A second SIGINT while `at_exit` runs, SIGKILL, and a stale segment left by a
  killed master.
* In the spider, failures of the database other than those of `handle` and the
  duplicate rows check-then-insert can produce: `PageTables` has both, with the
  workers' other steps left out.
* The query of `SqlDBOperation`'s constructor that raises `MAX_INSERT`, and the
  bytes of a statement: what fits and what does not is a choice of the model.
* `SqlDBPool::delete_connection` and its destructor, which nothing calls; the
  server's side of a connection, so also the connections that
  `recycle_connection` drops above `MAX_IDLE` without closing them.
* `ReverseValuateStrategy`'s constructor, which reads `max_url_per_word` (0 when it
  does not parse).
* `KeywordExtractor`, `TextRankExtractor`, `PosTagger`, `FullSegment` and `Simhash`
  of cppjieba, which amigao does not call.
* Differences in the data that no property depends on: a tab beside a blank in
  `format_url`; a word of title and contents that is written twice in one statement
  (`reverse_valuate_strategy.hpp:176-186`); the answer to a negative
  `results_per_page` (`search_server.cc:132`); a dictionary line with frequency 0,
  whose logarithm is minus infinity (`DictTrie.hpp:105-108`); doubles, which round, where
  the model compares exact numbers. That letters and digits of one word stay together is
  claimed of the cut by the model only: a word of a dictionary may hold letters.
* The bytes of the write url file under stdio buffers of several processes; the
  parsing of HTTP responses; the HTML of the pages of results (`str2html`); the
  monitor, the wrappers of libraries, `spider_multithr`.

## 6. What would come next

1. A proof that `Viterbi` finds a most probable path, under a bound on the weights.
2. `PageSlot`: the copy loops of the html slot on short pages, and what
   `SlotLinks` loses.
3. `SpillFile`: the write url file byte by byte; the start-up of the master with
   a stale segment.
