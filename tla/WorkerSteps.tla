----------------------------- MODULE WorkerSteps -----------------------------
(***************************************************************************)
(* The steps crawl_worker.cc and parse_worker.cc have in common, written   *)
(* once for a worker w and its label.  A step is what a process does       *)
(* between two points where another process, or a signal, can make a       *)
(* difference: the acquisition of a lock, one access to the segment, one   *)
(* statement or check against the database, the fetch of a page, one       *)
(* access to a list file.                                                  *)
(***************************************************************************)
EXTENDS SpiderState

Goto(w, label) == pc' = [pc EXCEPT ![w] = label]

Set(f, w, value) == [f EXCEPT ![w] = value]

Acquire(w, l) == lock[l] = NoOne /\ lock' = [lock EXCEPT ![l] = w]

Release(w, l) == lock' = [lock EXCEPT ![l] = NoOne]

\* get_website_nice(u) == 0; an empty URL is not worth a query.
Blacklisted(u) == u = NoUrl \/ u \in nice0

\* if_exist("url", "amigao.visited_url", "url", crypt(u))
Visited(u) == u \in visited

\* Rows are only added to both tables, so the two queries decide what one
\* query of both, at some moment between them, would decide.
Unwanted(u) == Blacklisted(u) \/ Visited(u)

OutOfDescriptors(w) == sockets[w] = FdLimit

-----------------------------------------------------------------------------
(* Getting a URL from the url ring, under url_lock.                        *)

\* Mutant: url_lock is kept while the worker turns to the read url file.
UrlRingEmptyNoUnlock(w) ==
  /\ pc[w] = "take_url"
  /\ RingEmpty(url_head, url_tail)
  /\ Goto(w, "want_list")
  /\ UNCHANGED <<urlRing, htmlRing, lock, files, database, master, locals, found>>

UrlRingEmpty(w) ==
  /\ pc[w] = "take_url"
  /\ RingEmpty(url_head, url_tail)
  /\ Release(w, "url_lock")
  /\ Goto(w, "want_list")
  /\ UNCHANGED <<urlRing, htmlRing, files, database, master, locals, found>>

CopyUrl(w) ==
  /\ pc[w] = "take_url"
  /\ ~RingEmpty(url_head, url_tail)
  /\ work_url' = Set(work_url, w, url_queue[url_head])
  /\ Goto(w, "advance_url")
  /\ UNCHANGED <<urlRing, htmlRing, lock, files, database, master,
                 has_url, page, links, kept, room, sockets, found>>

AdvanceUrl(w) ==
  /\ pc[w] = "advance_url"
  /\ url_head' = RingNext(url_head, UrlNums)
  /\ Release(w, "url_lock")
  /\ Goto(w, "check")
  /\ UNCHANGED <<url_queue, url_tail, htmlRing, files, database, master,
                 locals, found>>

-----------------------------------------------------------------------------
(* Getting a URL from the read url file, under url_lists_lock.             *)

LockList(w) ==
  /\ pc[w] = "want_list"
  /\ Acquire(w, "url_lists_lock")
  /\ Goto(w, "read_line")
  /\ UNCHANGED <<urlRing, htmlRing, files, database, master, locals, found>>

\* exit(1) while url_lists_lock is held: the mutex is not a robust one, so it
\* stays locked.
ReadUrlOpenFails(w) ==
  /\ pc[w] = "read_line"
  /\ ReadUrlFails \/ OutOfDescriptors(w)
  /\ Goto(w, "exited")
  /\ UNCHANGED <<urlRing, htmlRing, lock, files, database, master, locals, found>>

\* What getline puts into buf: the first line, or nothing at the end of file.
FirstLine == IF read_list = << >> THEN NoUrl ELSE Head(read_list)

ReadNoLine(w) ==
  /\ pc[w] = "read_line"
  /\ ~OutOfDescriptors(w)
  /\ FirstLine = NoUrl
  /\ Release(w, "url_lists_lock")
  /\ Goto(w, "start")
  /\ UNCHANGED <<urlRing, htmlRing, files, database, master, locals, found>>

ReadLine(w) ==
  /\ pc[w] = "read_line"
  /\ ~OutOfDescriptors(w)
  /\ FirstLine # NoUrl
  /\ work_url' = Set(work_url, w, FirstLine)
  /\ Goto(w, "cut_line")
  /\ UNCHANGED <<urlRing, htmlRing, lock, files, database, master,
                 has_url, page, links, kept, room, sockets, found>>

\* sed -i '1,1d': removes whatever line is the first one by now.
CutLine(w) ==
  /\ pc[w] = "cut_line"
  /\ read_list' = IF read_list = << >> THEN << >> ELSE Tail(read_list)
  /\ Release(w, "url_lists_lock")
  /\ Goto(w, "check")
  /\ UNCHANGED <<urlRing, htmlRing, write_list, database, master, locals, found>>

-----------------------------------------------------------------------------
(* Fetching the page of work_url.                                          *)

SkipUnwanted(w) ==
  /\ pc[w] = "check"
  /\ Unwanted(work_url[w])
  /\ has_url' = Set(has_url, w, FALSE)
  /\ Goto(w, "start")
  /\ UNCHANGED <<urlRing, htmlRing, lock, files, database, master,
                 work_url, page, links, kept, room, sockets, found>>

\* Mutant: the URL is marked as visited before its page is there, so that no
\* other worker fetches it as well.
AcceptUrlMarkFirst(w) ==
  /\ pc[w] = "check"
  /\ ~Unwanted(work_url[w])
  /\ has_url' = Set(has_url, w, FALSE)
  /\ visited' = visited \cup {work_url[w]}
  /\ Goto(w, "fetch")
  /\ UNCHANGED <<urlRing, htmlRing, lock, files, nice0, indexed, master,
                 work_url, page, links, kept, room, sockets, found>>

AcceptUrl(w) ==
  /\ pc[w] = "check"
  /\ ~Unwanted(work_url[w])
  /\ has_url' = Set(has_url, w, FALSE)
  /\ Goto(w, "fetch")
  /\ UNCHANGED <<urlRing, htmlRing, lock, files, database, master,
                 work_url, page, links, kept, room, sockets, found>>

\* sockfd is never closed.
OpenSocket(w) == sockets' = Set(sockets, w, sockets[w] + 1)

\* Mutant: a failed fetch is not recorded.
FetchFailsUnrecorded(w) ==
  /\ pc[w] = "fetch"
  /\ work_url[w] \in Fails \/ OutOfDescriptors(w)
  /\ Goto(w, "start")
  /\ UNCHANGED <<urlRing, htmlRing, lock, files, database, master, locals, found>>

\* Every failure from gethostbyname to the status code ends in
\* op_website_nice(work_url, "0"); some of them come before the socket is open.
FetchFails(w) ==
  /\ pc[w] = "fetch"
  /\ work_url[w] \in Fails \/ OutOfDescriptors(w)
  /\ nice0' = nice0 \cup {work_url[w]}
  /\ \/ UNCHANGED sockets
     \/ ~OutOfDescriptors(w) /\ OpenSocket(w)
  /\ Goto(w, "start")
  /\ UNCHANGED <<urlRing, htmlRing, lock, files, visited, indexed, master,
                 work_url, has_url, page, links, kept, room, found>>

\* The page is fetched, and the worker goes on at the label next.
FetchSucceeds(w, next) ==
  /\ pc[w] = "fetch"
  /\ work_url[w] \in Answers
  /\ ~OutOfDescriptors(w)
  /\ OpenSocket(w)
  /\ page' = Set(page, w, [of |-> work_url[w], cut |-> FALSE])
  /\ Goto(w, next)
  /\ UNCHANGED <<urlRing, htmlRing, lock, files, database, master,
                 work_url, has_url, links, kept, room, found>>

-----------------------------------------------------------------------------
(* Persisting the page (db_op->valuate_page, ReverseValuateStrategy) and   *)
(* choosing among its links.                                               *)

\* op_visited_url: from here on no worker accepts the URL any more.
MarkVisited(w) ==
  /\ pc[w] = "valuate"
  /\ visited' = visited \cup {work_url[w]}
  /\ Goto(w, "index")
  /\ UNCHANGED <<urlRing, htmlRing, lock, files, nice0, indexed, master, locals,
                 found>>

\* A query of handle fails: exit(1) between the visited row and the index.
IndexingFails(w) ==
  /\ pc[w] = "index"
  /\ IndexFails
  /\ Goto(w, "exited")
  /\ UNCHANGED <<urlRing, htmlRing, lock, files, database, master, locals, found>>

LinksOf(p) == IF p.cut THEN SlotLinks[p.of] ELSE Links[p.of]

\* handle updates the reverse index, or returns early because get_url_no got
\* no answer; links.erase(work_url).
IndexPage(w) ==
  /\ pc[w] = "index"
  /\ \/ indexed' = indexed \cup {<<work_url[w], page[w]>>}
     \/ IndexFails /\ UNCHANGED indexed
  /\ links' = Set(links, w, LinksOf(page[w]) \ {work_url[w]})
  /\ page' = Set(page, w, NoPage)
  /\ Goto(w, "filter")
  /\ UNCHANGED <<urlRing, htmlRing, lock, files, visited, nice0, master,
                 work_url, has_url, kept, room, sockets, found>>

\* One iteration of the loop that erases links from the unordered_set.
FilterLink(w) ==
  /\ pc[w] = "filter"
  /\ \E u \in links[w] :
       /\ links' = Set(links, w, links[w] \ {u})
       /\ kept' = Set(kept, w, IF Unwanted(u) THEN kept[w] ELSE kept[w] \cup {u})
       /\ found' = IF Unwanted(u) THEN found ELSE found \cup {u}
  /\ UNCHANGED <<urlRing, htmlRing, lock, files, database, master, pc,
                 work_url, has_url, page, room, sockets>>

NoLinkLeft(w) ==
  /\ pc[w] = "filter"
  /\ links[w] = {} /\ kept[w] = {}
  /\ Goto(w, "start")
  /\ UNCHANGED <<urlRing, htmlRing, lock, files, database, master, locals, found>>

-----------------------------------------------------------------------------
(* Handing out the links: into the url ring, the rest into write url.      *)

\* Mutant: links are inserted without url_lock.
LockUrlToInsertUnlocked(w) ==
  /\ pc[w] = "want_room"
  /\ Goto(w, "measure")
  /\ UNCHANGED <<urlRing, htmlRing, lock, files, database, master, locals, found>>

LockUrlToInsert(w) ==
  /\ pc[w] = "want_room"
  /\ Acquire(w, "url_lock")
  /\ Goto(w, "measure")
  /\ UNCHANGED <<urlRing, htmlRing, files, database, master, locals, found>>

Smaller(a, b) == IF a < b THEN a ELSE b

MeasureRoom(w) ==
  /\ pc[w] = "measure"
  /\ room' = Set(room, w, Smaller(RingRoom(url_head, url_tail, UrlNums),
                                  Cardinality(kept[w])))
  /\ Goto(w, "insert")
  /\ UNCHANGED <<urlRing, htmlRing, lock, files, database, master,
                 work_url, has_url, page, links, kept, sockets, found>>

\* Mutant: url_tail is advanced before the slot is written.
InsertLinkBehindTail(w) ==
  /\ pc[w] = "insert"
  /\ room[w] > 0
  /\ \E u \in kept[w] :
       /\ url_queue' = [url_queue EXCEPT ![RingNext(url_tail, UrlNums)] = u]
       /\ kept' = Set(kept, w, kept[w] \ {u})
  /\ url_tail' = RingNext(url_tail, UrlNums)
  /\ room' = Set(room, w, room[w] - 1)
  /\ UNCHANGED <<url_head, htmlRing, lock, files, database, master, pc,
                 work_url, has_url, page, links, sockets, found>>

InsertLink(w) ==
  /\ pc[w] = "insert"
  /\ room[w] > 0
  /\ \E u \in kept[w] :
       /\ url_queue' = [url_queue EXCEPT ![url_tail] = u]
       /\ kept' = Set(kept, w, kept[w] \ {u})
  /\ url_tail' = RingNext(url_tail, UrlNums)
  /\ room' = Set(room, w, room[w] - 1)
  /\ UNCHANGED <<url_head, htmlRing, lock, files, database, master, pc,
                 work_url, has_url, page, links, sockets, found>>

InsertEnds(w) ==
  /\ pc[w] = "insert"
  /\ room[w] = 0 \/ kept[w] = {}
  /\ Release(w, "url_lock")
  /\ Goto(w, IF kept[w] = {} THEN "start" ELSE "spill")
  /\ UNCHANGED <<urlRing, htmlRing, files, database, master, locals, found>>

WriteUrlOpenFails(w) ==
  /\ pc[w] = "spill"
  /\ WriteUrlFails \/ OutOfDescriptors(w)
  /\ Goto(w, "exited")
  /\ UNCHANGED <<urlRing, htmlRing, lock, files, database, master, locals, found>>

Spill(w) ==
  /\ pc[w] = "spill"
  /\ ~OutOfDescriptors(w)
  /\ write_list' = write_list \cup kept[w]
  /\ kept' = Set(kept, w, {})
  /\ Goto(w, "start")
  /\ UNCHANGED <<urlRing, htmlRing, lock, read_list, database, master,
                 work_url, has_url, page, links, room, sockets, found>>

-----------------------------------------------------------------------------
\* shmget and shmat: the segment is gone when the master has already stopped.
Attach(w) ==
  /\ pc[w] = "attach"
  /\ Goto(w, IF removed THEN "exited" ELSE "start")
  /\ UNCHANGED <<urlRing, htmlRing, lock, files, database, master, locals, found>>
=============================================================================
