----------------------------- MODULE ParseWorker -----------------------------
(***************************************************************************)
(* spider/parse_worker.cc: take a page out of the html ring, persist it    *)
(* and hand out its links; when that ring is empty, fetch a page first.    *)
(***************************************************************************)
EXTENDS WorkerSteps

ParseLockHtml(w) ==
  /\ pc[w] = "start"
  /\ Acquire(w, "html_lock")
  /\ Goto(w, "html")
  /\ UNCHANGED <<urlRing, htmlRing, files, database, master, locals, found>>

HtmlRingEmpty(w) ==
  /\ pc[w] = "html"
  /\ RingEmpty(html_head, html_tail)
  /\ Release(w, "html_lock")
  /\ Goto(w, "want_url")
  /\ UNCHANGED <<urlRing, htmlRing, files, database, master, locals, found>>

LoadUrl(w) ==
  /\ pc[w] = "html"
  /\ ~RingEmpty(html_head, html_tail)
  /\ work_url' = Set(work_url, w, html_queue[html_head].url)
  /\ Goto(w, "load_page")
  /\ UNCHANGED <<urlRing, htmlRing, lock, files, database, master,
                 has_url, page, links, kept, room, sockets, found>>

LoadPage(w) ==
  /\ pc[w] = "load_page"
  /\ page' = Set(page, w, html_queue[html_head].page)
  /\ html_head' = RingNext(html_head, HtmlNums)
  /\ Release(w, "html_lock")
  /\ Goto(w, "valuate")
  /\ UNCHANGED <<urlRing, html_queue, html_tail, files, database, master,
                 work_url, has_url, links, kept, room, sockets, found>>

ParseLockUrl(w) ==
  /\ pc[w] = "want_url"
  /\ Acquire(w, "url_lock")
  /\ Goto(w, "take_url")
  /\ UNCHANGED <<urlRing, htmlRing, files, database, master, locals, found>>

ParseTakeUrl(w) == UrlRingEmpty(w) \/ CopyUrl(w) \/ AdvanceUrl(w)

ParseReadUrl(w) ==
  \/ LockList(w) \/ ReadUrlOpenFails(w) \/ ReadNoLine(w)
  \/ ReadLine(w) \/ CutLine(w)

ParseFetch(w) ==
  \/ SkipUnwanted(w) \/ AcceptUrl(w)
  \/ FetchFails(w) \/ FetchSucceeds(w, "valuate")

ParsePersist(w) ==
  \/ MarkVisited(w) \/ IndexingFails(w) \/ IndexPage(w)
  \/ FilterLink(w) \/ NoLinkLeft(w)

KeepAllLinks(w) ==
  /\ pc[w] = "filter"
  /\ links[w] = {} /\ kept[w] # {}
  /\ Goto(w, "want_room")
  /\ UNCHANGED <<urlRing, htmlRing, lock, files, database, master, locals, found>>

ParseHandOut(w) ==
  \/ LockUrlToInsert(w) \/ MeasureRoom(w) \/ InsertLink(w) \/ InsertEnds(w)
  \/ WriteUrlOpenFails(w) \/ Spill(w)

ParseStep(w) ==
  \/ Attach(w)
  \/ ParseLockHtml(w) \/ HtmlRingEmpty(w) \/ LoadUrl(w) \/ LoadPage(w)
  \/ ParseLockUrl(w) \/ ParseTakeUrl(w) \/ ParseReadUrl(w) \/ ParseFetch(w)
  \/ ParsePersist(w) \/ KeepAllLinks(w) \/ ParseHandOut(w)
=============================================================================
