----------------------------- MODULE CrawlWorker -----------------------------
(***************************************************************************)
(* spider/crawl_worker.cc: fetch the page of a URL and put it into the     *)
(* html ring; when that ring is full, do a parse worker's work on the page *)
(* and keep one of its links as the next URL to fetch (has_url).           *)
(***************************************************************************)
EXTENDS WorkerSteps

\* goto has_url: the worker already has the URL of its next page.
CrawlOwnUrl(w) ==
  /\ pc[w] = "start"
  /\ has_url[w]
  /\ Goto(w, "check")
  /\ UNCHANGED <<urlRing, htmlRing, lock, files, database, master, locals, found>>

CrawlLockUrl(w) ==
  /\ pc[w] = "start"
  /\ ~has_url[w]
  /\ Acquire(w, "url_lock")
  /\ Goto(w, "take_url")
  /\ UNCHANGED <<urlRing, htmlRing, files, database, master, locals, found>>

CrawlTakeUrl(w) == UrlRingEmpty(w) \/ CopyUrl(w) \/ AdvanceUrl(w)

CrawlReadUrl(w) ==
  \/ LockList(w) \/ ReadUrlOpenFails(w) \/ ReadNoLine(w)
  \/ ReadLine(w) \/ CutLine(w)

CrawlFetch(w) ==
  \/ SkipUnwanted(w) \/ AcceptUrl(w)
  \/ FetchFails(w) \/ FetchSucceeds(w, "want_html")

CrawlLockHtml(w) ==
  /\ pc[w] = "want_html"
  /\ Acquire(w, "html_lock")
  /\ Goto(w, "html")
  /\ UNCHANGED <<urlRing, htmlRing, files, database, master, locals, found>>

HtmlRingFull(w) ==
  /\ pc[w] = "html"
  /\ RingFull(html_head, html_tail, HtmlNums)
  /\ Release(w, "html_lock")
  /\ Goto(w, "valuate")
  /\ UNCHANGED <<urlRing, htmlRing, files, database, master, locals, found>>

\* Mutant: html_lock is released as soon as there is room for the page.
StoreUrlUnlocked(w) ==
  /\ pc[w] = "html"
  /\ ~RingFull(html_head, html_tail, HtmlNums)
  /\ html_queue' = Set(html_queue, html_tail,
                       [url |-> work_url[w], page |-> html_queue[html_tail].page])
  /\ Release(w, "html_lock")
  /\ Goto(w, "store_page")
  /\ UNCHANGED <<urlRing, html_head, html_tail, files, database, master,
                 locals, found>>

StoreUrl(w) ==
  /\ pc[w] = "html"
  /\ ~RingFull(html_head, html_tail, HtmlNums)
  /\ html_queue' = Set(html_queue, html_tail,
                       [url |-> work_url[w], page |-> html_queue[html_tail].page])
  /\ Goto(w, "store_page")
  /\ UNCHANGED <<urlRing, html_head, html_tail, lock, files, database, master,
                 locals, found>>

\* The copy leaves out the first URL_SIZE bytes of the page, and all that is
\* beyond HTML_SIZE.
Stored(p) == [of |-> p.of, cut |-> TRUE]

StorePage(w) ==
  /\ pc[w] = "store_page"
  /\ html_queue' = Set(html_queue, html_tail,
                       [url |-> html_queue[html_tail].url, page |-> Stored(page[w])])
  /\ html_tail' = RingNext(html_tail, HtmlNums)
  /\ page' = Set(page, w, NoPage)
  /\ Release(w, "html_lock")
  /\ Goto(w, "start")
  /\ UNCHANGED <<urlRing, html_head, files, database, master,
                 work_url, has_url, links, kept, room, sockets, found>>

CrawlPersist(w) ==
  \/ MarkVisited(w) \/ IndexingFails(w) \/ IndexPage(w)
  \/ FilterLink(w) \/ NoLinkLeft(w)

\* Mutant: the link is taken out of links, and has_url is not set.
KeepOneLinkNoFlag(w) ==
  /\ pc[w] = "filter"
  /\ links[w] = {}
  /\ \E u \in kept[w] :
       /\ work_url' = Set(work_url, w, u)
       /\ kept' = Set(kept, w, kept[w] \ {u})
  /\ Goto(w, "want_room")
  /\ UNCHANGED <<urlRing, htmlRing, lock, files, database, master,
                 has_url, page, links, room, sockets, found>>

\* One link becomes the worker's own next URL before the rest is handed out.
KeepOneLink(w) ==
  /\ pc[w] = "filter"
  /\ links[w] = {}
  /\ \E u \in kept[w] :
       /\ work_url' = Set(work_url, w, u)
       /\ kept' = Set(kept, w, kept[w] \ {u})
  /\ has_url' = Set(has_url, w, TRUE)
  /\ Goto(w, "want_room")
  /\ UNCHANGED <<urlRing, htmlRing, lock, files, database, master,
                 page, links, room, sockets, found>>

CrawlHandOut(w) ==
  \/ LockUrlToInsert(w) \/ MeasureRoom(w) \/ InsertLink(w) \/ InsertEnds(w)
  \/ WriteUrlOpenFails(w) \/ Spill(w)

CrawlStep(w) ==
  \/ Attach(w)
  \/ CrawlOwnUrl(w) \/ CrawlLockUrl(w) \/ CrawlTakeUrl(w) \/ CrawlReadUrl(w)
  \/ CrawlFetch(w)
  \/ CrawlLockHtml(w) \/ HtmlRingFull(w) \/ StoreUrl(w) \/ StorePage(w)
  \/ CrawlPersist(w) \/ KeepOneLink(w) \/ CrawlHandOut(w)
=============================================================================
