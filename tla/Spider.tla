-------------------------------- MODULE Spider --------------------------------
(***************************************************************************)
(* The spider as a whole: the master (Master), the crawl workers           *)
(* (CrawlWorker) and the parse workers (ParseWorker) around one shared     *)
(* memory segment, and the properties that make it correct.                *)
(***************************************************************************)
EXTENDS CrawlWorker, ParseWorker, Master

LinesOf(list) == {list[i] : i \in DOMAIN list}

\* master.cc has created and zeroed the segment and initialised the mutexes.
Init ==
  /\ url_queue = [i \in 0 .. UrlNums - 1 |-> NoUrl]
  /\ url_head = 0 /\ url_tail = 0
  /\ html_queue = [i \in 0 .. HtmlNums - 1 |-> [url |-> NoUrl, page |-> NoPage]]
  /\ html_head = 0 /\ html_tail = 0
  /\ lock = [l \in LockName |-> NoOne]
  /\ removed = FALSE
  /\ read_list = ReadLines
  /\ write_list = {}
  /\ visited = {} /\ nice0 = {} /\ indexed = {}
  /\ mpc = "seed" /\ start_list = StartLines /\ master_url = NoUrl
  /\ pending = {}
  /\ pc = [w \in Worker |-> "unborn"]
  /\ work_url = [w \in Worker |-> NoUrl]
  /\ has_url = [w \in Worker |-> FALSE]
  /\ page = [w \in Worker |-> NoPage]
  /\ links = [w \in Worker |-> {}]
  /\ kept = [w \in Worker |-> {}]
  /\ room = [w \in Worker |-> 0]
  /\ sockets = [w \in Worker |-> 0]
  /\ found = LinesOf(ReadLines) \ {NoUrl}

\* A spider nobody interrupts.
RunNext ==
  \/ MasterStarts
  \/ \E w \in Crawler : CrawlStep(w)
  \/ \E w \in Parser : ParseStep(w)

Next ==
  \/ RunNext
  \/ Interrupt
  \/ AtExit
  \/ \E w \in Worker : TakeInterrupt(w)

Spec == Init /\ [][Next]_vars

RunSpec == Init /\ [][RunNext]_vars

\* recv in the fetch of a page has no timeout (crawl_worker.cc:176,
\* parse_worker.cc:171): a peer that says nothing keeps the worker there for
\* ever, so a worker is owed its steps everywhere but in a fetch.
CrawlsOn(w) == pc[w] # "fetch" /\ CrawlStep(w)
ParsesOn(w) == pc[w] # "fetch" /\ ParseStep(w)

\* Every process that can go on does so at some time, and a mutex that is
\* released again and again comes to every worker that waits for it.
Scheduled ==
  /\ WF_vars(MasterStarts)
  /\ \A w \in Crawler : SF_vars(CrawlsOn(w))
  /\ \A w \in Parser : SF_vars(ParsesOn(w))

FairRunSpec == RunSpec /\ Scheduled

\* A stop that was begun is carried out, and signals are delivered.
StoppedSpec ==
  /\ Spec
  /\ WF_vars(AtExit)
  /\ \A w \in Worker : WF_vars(TakeInterrupt(w))

-----------------------------------------------------------------------------
UrlContents == RingContents(url_queue, url_head, url_tail, UrlNums)

HtmlContents == RingContents(html_queue, html_head, html_tail, HtmlNums)

\* Lock l is held inside a section only, or for ever by a worker that ended there.
Guards(l, section, ended) ==
  \A w \in Worker : /\ pc[w] \in section => lock[l] = w
                    /\ lock[l] = w => pc[w] \in section \cup ended

\* A worker between two locked sections holds no lock, and inside a section
\* it is the holder of that section's lock; only a worker killed inside a
\* section, or one that exits because it cannot open the read url file, keeps
\* a lock (shmctrl.h:29 and every lock and unlock call of the two workers).
LockDiscipline ==
  /\ Guards("url_lock", UrlSection, {"killed"})
  /\ Guards("html_lock", HtmlSection, {"killed"})
  /\ Guards("url_lists_lock", ListSection, {"killed", "exited"})

\* No worker, not even a dead one, ever holds two of the three locks, so the
\* workers cannot wait for one another in a circle although the two programs
\* take html_lock and url_lock in different orders.
OneLockAtATime ==
  \A w \in Worker : \A l, m \in LockName : lock[l] = w /\ lock[m] = w => l = m

\* The page a worker is about to persist, and every page ever indexed, is the
\* page of the URL it is recorded under: no interleaving of the two slot
\* copies of crawl_worker.cc:302-314 and parse_worker.cc:283-293 pairs a URL
\* with another one's page.
PagesKeepTheirUrl ==
  /\ \A entry \in indexed : entry[2] \in Page /\ entry[2].of = entry[1]
  /\ \A w \in Worker : page[w] # NoPage => page[w].of = work_url[w]

\* The labels at which worker w has a page to store or to persist.
PageLabels(w) ==
  {"want_html", "store_page", "valuate", "index"} \cup
  (IF w \in Crawler THEN {"html"} ELSE {})

\* Every slot between head and tail of the html ring holds a page and its URL.
HtmlSlotsPaired ==
  \A i \in 0 .. HtmlNums - 1 :
    RingHolds(i, html_head, html_tail) =>
      html_queue[i].page \in Page /\ html_queue[i].page.of = html_queue[i].url

\* What a worker knows of its page and of the slot it reads or writes.
PageInHand ==
  \A w \in Worker :
    /\ page[w] # NoPage =>
         page[w].of = work_url[w] /\ pc[w] \in PageLabels(w) \cup {"exited", "killed"}
    /\ pc[w] \in PageLabels(w) => page[w] # NoPage
    /\ pc[w] = "store_page" =>
         /\ ~RingFull(html_head, html_tail, HtmlNums)
         /\ html_queue[html_tail].url = work_url[w]
    /\ pc[w] = "load_page" =>
         /\ ~RingEmpty(html_head, html_tail)
         /\ html_queue[html_head].url = work_url[w]

\* The inductive invariant from which SpiderProofs derives PagesKeepTheirUrl:
\* what the html lock and the positions of the workers say of the slots.
HtmlInv ==
  /\ TypeOK
  /\ LockDiscipline
  /\ HtmlSlotsPaired
  /\ PageInHand
  /\ PagesKeepTheirUrl

\* The labels at which worker w is about to do something with work_url; what a
\* parse worker has there on its way to the html ring is done with.
UrlLabels(w) ==
  {"cut_line", "check", "fetch", "want_html", "store_page", "load_page", "valuate"} \cup
  (IF w \in Crawler THEN {"html"} ELSE {})

\* The work in the hands of a worker that is alive.
Carries(w) ==
  IF pc[w] \in {"exited", "killed"} THEN {}
  ELSE kept[w] \cup (IF has_url[w] \/ pc[w] \in UrlLabels(w) THEN {work_url[w]} ELSE {})

\* While nobody stops the spider and the list files open, every URL it ever
\* accepted is queued, on a list, being worked on, visited or blacklisted:
\* none falls between the ring, the html ring, has_url and the leftover list.
NoUrlLost ==
  \A u \in found :
    \/ u \in visited \cup nice0 \cup write_list
    \/ u \in LinesOf(UrlContents) \cup LinesOf(read_list)
    \/ \E i \in DOMAIN HtmlContents : HtmlContents[i].url = u
    \/ \E w \in Worker : u \in Carries(w)

\* Where NoUrlLost finds a URL, slot by slot.
InUrlRing(u) ==
  \E i \in 0 .. UrlNums - 1 : RingHolds(i, url_head, url_tail) /\ url_queue[i] = u
InHtmlRing(u) ==
  \E i \in 0 .. HtmlNums - 1 : RingHolds(i, html_head, html_tail) /\ html_queue[i].url = u
Recorded(u) ==
  u \in visited \cup nice0 \cup write_list \cup LinesOf(read_list)

\* What a worker that moves URLs knows of the ring and the file it moves them
\* out of or into, and where it has links or a URL of its own.
UrlInHand ==
  \A w \in Worker :
    /\ pc[w] = "advance_url" =>
         ~RingEmpty(url_head, url_tail) /\ work_url[w] = url_queue[url_head]
    /\ pc[w] = "cut_line" => read_list # << >> /\ work_url[w] = Head(read_list)
    /\ pc[w] = "insert" => room[w] <= RingRoom(url_head, url_tail, UrlNums)
    /\ kept[w] # {} =>
         pc[w] \in {"filter", "want_room", "measure", "insert", "spill", "exited", "killed"}
    /\ has_url[w] =>
         /\ w \in Crawler
         /\ pc[w] \in {"want_room", "measure", "insert", "spill", "start", "check", "exited",
                       "killed"}

\* The inductive invariant from which SpiderUrls derives NoUrlLost.
UrlInv ==
  /\ UrlInHand
  /\ mpc = "seed" => \A w \in Worker : pc[w] = "unborn"
  /\ NoUrl \notin found
  /\ \A u \in found :
       Recorded(u) \/ InUrlRing(u) \/ InHtmlRing(u) \/ \E w \in Worker : u \in Carries(w)

\* A worker with links left over can open the write url file.
DescriptorsLeft == \A w \in Worker : pc[w] = "spill" => ~OutOfDescriptors(w)

\* A page whose visited_url row exists, so that no worker will fetch it again,
\* is in the reverse index, or the worker that persists it is between
\* op_visited_url and the index update, or it ended there and the page is
\* never indexed (reverse_valuate_strategy.hpp:92 against 381-388).
VisitedPagesAreIndexed ==
  \A u \in visited :
    \/ \E entry \in indexed : entry[1] = u
    \/ \E w \in Worker : work_url[w] = u /\ pc[w] \in {"index", "exited", "killed"}

\* The url ring is a bounded first-in first-out queue (shmctrl.h:34-48).
UrlFifo == INSTANCE BoundedFifo
             WITH fifo <- UrlContents, Elem <- Url, Capacity <- UrlNums - 1
UrlRingIsFifo == UrlFifo!Spec

\* So is the html ring, even when the spider is interrupted.
HtmlFifo == INSTANCE BoundedFifo
              WITH fifo <- HtmlContents, Capacity <- HtmlNums - 1,
                   Elem <- [url : Url, page : Page]
HtmlRingIsFifo == HtmlFifo!Spec

\* Worker w is in a fetch that never ends.
HangsAt(w) == <>[](pc[w] = "fetch")

Settled(u) == u \in visited \cup nice0 \cup write_list

\* Every URL the spider accepted is at last visited, blacklisted or saved in
\* the write url file, as long as some parse worker is not in a fetch for ever,
\* whatever becomes of the other workers: a worker that hangs keeps the one URL
\* it fetches and nothing else (it holds no lock, has_url is reset and its
\* links are handed out, crawl_worker.cc:127-176).  When every parse worker
\* hangs, the pages in the html ring stay there.
EveryUrlSettled ==
  \A u \in Url :
    \/ u \in found ~> Settled(u)
    \/ \E w \in Worker : HangsAt(w) /\ <>[](work_url[w] = u)
    \/ \A w \in Parser : HangsAt(w)

Ended(w) == pc[w] \in {"unborn", "exited", "killed"}

\* at_exit has drained the url ring, or the workers were interrupted with the
\* master; no line is left to read and no worker is inside system("sed ..."),
\* where it would ignore the signal (see SurviveInterrupt).
StopUnderWay ==
  /\ mpc = "kill" \/ (mpc = "open_list" /\ \A w \in Worker : Ended(w) \/ w \in pending)
  /\ read_list = << >>
  /\ \A w \in Worker : pc[w] # "cut_line"

\* A stop that has come so far ends the master and every worker it started
\* (master.cc:185-213), whatever locks they hold and also when the write url
\* file does not open.
StopEndsEveryWorker == StopUnderWay ~> mpc = "gone" /\ \A w \in Worker : Ended(w)

-----------------------------------------------------------------------------
(* What comments and the project report say of the code, and it does not do. *)

\* An element is deleted from the ring only when there is one ("delete from
\* queue: 1.judge the used size", shmctrl.h:45).
DeletesFromNonEmptyRing ==
  [][url_head' # url_head => ~RingEmpty(url_head, url_tail)]_vars

\* Only a URL whose site cannot be reached is blacklisted.
OnlyFailingUrlsBlacklisted == nice0 \subseteq Fails

\* The master ends the workers it started before it ends itself.
StopKillsEveryWorker == mpc = "kill" ~> \A w \in Worker : Ended(w)
=============================================================================
