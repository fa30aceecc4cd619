------------------------------ MODULE SpiderUrls ------------------------------
(***************************************************************************)
(* No URL is lost: UrlInv is inductive as long as nobody interrupts the    *)
(* spider and its workers can open the write url file.  The proof follows  *)
(* a URL from the start or the read url file, or from the link it was      *)
(* found as, through the url ring, the hands of the workers and the html   *)
(* ring to the tables it ends in.                                          *)
(***************************************************************************)
EXTENDS SpiderProofs

\* Putting one element into a ring takes one from the room measured before.
LEMMA RoomAfterPut ==
  ASSUME NEW N \in Nat, N >= 2, NEW h \in 0 .. N - 1, NEW t \in 0 .. N - 1,
         RingRoom(h, t, N) > 0
  PROVE  RingRoom(h, RingNext(t, N), N) = RingRoom(h, t, N) - 1
<1> DEFINE s == RingNext(t, N)
<1>1. s \in 0 .. N - 1 /\ s = IF t = N - 1 THEN 0 ELSE t + 1
  BY RingNextIsNext
<1>2. \A a, b \in 0 .. N - 1 :
         RingRoom(a, b, N) = IF a = b THEN N - 1 ELSE IF a > b THEN a - b - 1 ELSE a - b + N - 1
  <2> SUFFICES ASSUME NEW a \in 0 .. N - 1, NEW b \in 0 .. N - 1
               PROVE  RingRoom(a, b, N) = IF a = b THEN N - 1
                                          ELSE IF a > b THEN a - b - 1 ELSE a - b + N - 1
    OBVIOUS
  <2>1. CASE a > b
    <3>1. (a - b + N) % N = a - b
      BY <2>1
    <3> QED BY <2>1, <3>1 DEF RingRoom
  <2>2. CASE a < b
    <3>1. (a - b + N) % N = a - b + N
      BY <2>2
    <3> QED BY <2>2, <3>1 DEF RingRoom
  <2> QED BY <2>1, <2>2 DEF RingRoom
<1>3. RingRoom(h, t, N) = IF h = t THEN N - 1 ELSE IF h > t THEN h - t - 1 ELSE h - t + N - 1
  BY <1>2
<1>4. RingRoom(h, s, N) = IF h = s THEN N - 1 ELSE IF h > s THEN h - s - 1 ELSE h - s + N - 1
  BY <1>1, <1>2
<1> HIDE DEF s
<1>5. RingRoom(h, s, N) = RingRoom(h, t, N) - 1
  BY <1>1, <1>3, <1>4
<1> QED BY <1>5 DEF s

\* A slot in use holds an element of the ring's contents.
LEMMA HeldIsContained ==
  ASSUME NEW N \in Nat, N >= 2, NEW h \in 0 .. N - 1, NEW t \in 0 .. N - 1,
         NEW i \in 0 .. N - 1, RingHolds(i, h, t),
         NEW slots, NEW list, list = RingContents(slots, h, t, N)
  PROVE  \E k \in DOMAIN list : list[k] = slots[i]
<1> DEFINE k == IF h <= i THEN i - h + 1 ELSE i - h + N + 1
<1>1. RingUsed(h, t, N) = IF h <= t THEN t - h ELSE t - h + N
  <2>1. CASE h <= t
    <3>1. (t - h + N) % N = t - h
      BY <2>1
    <3> QED BY <2>1, <3>1 DEF RingUsed
  <2>2. CASE h > t
    <3>1. (t - h + N) % N = t - h + N
      BY <2>2
    <3> QED BY <2>2, <3>1 DEF RingUsed
  <2> QED BY <2>1, <2>2
<1>2. k \in 1 .. RingUsed(h, t, N)
  BY <1>1 DEF RingHolds
<1>3. (h + k - 1) % N = i
  <2>1. CASE h <= i
    BY <2>1
  <2>2. CASE h > i
    <3>1. h + k - 1 = i + N
      BY <2>2
    <3>2. (i + N) % N = i
      OBVIOUS
    <3> QED BY <3>1, <3>2
  <2> QED BY <2>1, <2>2
<1> HIDE DEF k
<1> QED BY <1>2, <1>3 DEF RingContents

\* Cutting the first line off a list loses no other one.
LEMMA LinesOfTail ==
  ASSUME NEW S, NEW list \in Seq(S), list # << >>
  PROVE  LinesOf(list) \subseteq {Head(list)} \cup LinesOf(Tail(list))
<1> SUFFICES ASSUME NEW u \in LinesOf(list) PROVE u \in {Head(list)} \cup LinesOf(Tail(list))
  OBVIOUS
<1>1. PICK i \in DOMAIN list : u = list[i]
  BY DEF LinesOf
<1>2. CASE i = 1
  BY <1>1, <1>2
<1>3. CASE i # 1
  <2>1. i - 1 \in DOMAIN Tail(list) /\ Tail(list)[i - 1] = list[i]
    BY <1>3
  <2> QED BY <1>1, <2>1 DEF LinesOf
<1> QED BY <1>2, <1>3

-----------------------------------------------------------------------------
\* Nothing of another worker than w changes.
Alone(w) ==
  \A v \in Worker \ {w} :
    /\ pc'[v] = pc[v] /\ work_url'[v] = work_url[v] /\ has_url'[v] = has_url[v]
    /\ kept'[v] = kept[v] /\ room'[v] = room[v]

\* Where a URL is, apart from the hands of the workers.
Placed(u) == Recorded(u) \/ InUrlRing(u) \/ InHtmlRing(u)

\* A step of one worker loses no URL when it finds none but what it carries,
\* and leaves what was in a place or in its own hands in one of the two.
LEMMA NothingLost ==
  ASSUME UrlInv, NEW w \in Worker, Alone(w),
         NoUrl \notin found',
         \A u \in found' \ found : u \in Carries(w)',
         \A u \in found : Placed(u) \/ u \in Carries(w) => Placed(u)' \/ u \in Carries(w)',
         pc[w] # "unborn", mpc' = mpc, UrlInHand'
  PROVE  UrlInv'
<1>1. \A v \in Worker \ {w} : Carries(v)' = Carries(v)
  BY DEF Alone, Carries, UrlLabels
<1>2. ASSUME NEW u \in found' PROVE Placed(u)' \/ \E v \in Worker : u \in Carries(v)'
  <2>1. CASE u \notin found
    BY <2>1
  <2>2. CASE u \in found
    <3>1. Placed(u) \/ u \in Carries(w) \/ \E v \in Worker \ {w} : u \in Carries(v)
      BY <2>2 DEF UrlInv, Placed
    <3> QED BY <1>1, <2>2, <3>1
  <2> QED BY <2>1, <2>2
<1> QED BY <1>2 DEF UrlInv, Placed

\* A worker that only moves on: what it had in its hands it still has, or it is
\* among what the database knows of.
LEMMA MovesOn ==
  ASSUME HtmlInv, UrlInv, NEW w \in Worker, NEW next,
         Goto(w, next), pc[w] # "unborn", UNCHANGED <<urlRing, htmlRing, files, database>>,
         UNCHANGED <<work_url, has_url, kept, room, mpc, found>>,
         next \notin {"advance_url", "cut_line", "insert"},
         kept[w] # {} => next \in {"filter", "want_room", "measure", "spill", "exited"},
         has_url[w] => next \in {"want_room", "measure", "spill", "start", "check", "exited"},
         \A u \in Carries(w) \cap found : Recorded(u) \/ u \in Carries(w)'
  PROVE  UrlInv'
<1> USE DEF Goto, urlRing, htmlRing, files, database
<1>1. /\ pc'[w] = next
      /\ \A v \in Worker \ {w} : pc'[v] = pc[v]
  BY DEF HtmlInv, TypeOK
<1>2. Alone(w)
  BY <1>1 DEF Alone
<1>3. UrlInHand'
  BY <1>1 DEF UrlInv, UrlInHand
<1>4. \A u : Placed(u)' <=> Placed(u)
  BY DEF Placed, Recorded, InUrlRing, InHtmlRing
<1>5. \A u \in found : Placed(u) \/ u \in Carries(w) => Placed(u)' \/ u \in Carries(w)'
  BY <1>4 DEF Placed
<1> QED BY <1>2, <1>3, <1>5, NothingLost DEF UrlInv

\* Getting a URL out of the url ring: it is in the worker's hands when it leaves
\* the ring.
LEMMA TakeUrls ==
  ASSUME HtmlInv, UrlInv, NEW w \in Worker,
         UrlRingEmpty(w) \/ CopyUrl(w) \/ AdvanceUrl(w)
  PROVE  UrlInv'
<1> USE DEF HtmlInv, TypeOK, urlRing, htmlRing, files, database, master, locals
<1>1. CASE UrlRingEmpty(w)
  <2>1. Carries(w) = {} /\ kept[w] = {} /\ ~has_url[w]
    BY <1>1 DEF UrlRingEmpty, UrlInv, UrlInHand, Carries, UrlLabels
  <2> QED BY <1>1, <2>1, MovesOn DEF UrlRingEmpty
<1>2. CASE CopyUrl(w)
  <2>1. Carries(w) = {} /\ kept[w] = {} /\ ~has_url[w]
    BY <1>2 DEF CopyUrl, UrlInv, UrlInHand, Carries, UrlLabels
  <2>2. Alone(w)
    BY <1>2 DEF CopyUrl, Alone, Goto, Set
  <2>3. UrlInHand'
    BY <1>2, <2>1 DEF CopyUrl, UrlInv, UrlInHand, Goto, Set
  <2>4. \A u : Placed(u)' <=> Placed(u)
    BY <1>2 DEF CopyUrl, Placed, Recorded, InUrlRing, InHtmlRing
  <2> QED BY <1>2, <2>1, <2>2, <2>3, <2>4, NothingLost DEF CopyUrl, UrlInv
<1>3. CASE AdvanceUrl(w)
  <2>1. Carries(w) = {} /\ kept[w] = {} /\ ~has_url[w]
    BY <1>3 DEF AdvanceUrl, UrlInv, UrlInHand, Carries, UrlLabels
  <2>2. Alone(w)
    BY <1>3 DEF AdvanceUrl, Alone, Goto
  <2>3. \A v \in Worker \ {w} : pc[v] \notin UrlSection
    BY <1>3 DEF AdvanceUrl, LockDiscipline, Guards, UrlSection
  <2>4. UrlInHand'
    BY <1>3, <2>1, <2>3 DEF AdvanceUrl, UrlInv, UrlInHand, Goto, UrlSection
  <2>5. work_url[w] = url_queue[url_head] /\ ~RingEmpty(url_head, url_tail)
    BY <1>3 DEF AdvanceUrl, UrlInv, UrlInHand
  <2>6. \A u : InUrlRing(u) => InUrlRing(u)' \/ u = work_url[w]
    BY <1>3, <2>5, RingSizesAssumption, RingHoldsAfterTake DEF AdvanceUrl, InUrlRing
  <2>7. work_url[w] \in Carries(w)'
    BY <1>3 DEF AdvanceUrl, Carries, UrlLabels, Goto
  <2>8. \A u : Placed(u) => Placed(u)' \/ u \in Carries(w)'
    BY <1>3, <2>6, <2>7 DEF AdvanceUrl, Placed, Recorded, InHtmlRing
  <2> QED BY <1>3, <2>1, <2>2, <2>4, <2>8, NothingLost DEF AdvanceUrl, UrlInv
<1> QED BY <1>1, <1>2, <1>3

\* Getting a URL out of the read url file: sed cuts the line the worker has read.
LEMMA ReadUrls ==
  ASSUME HtmlInv, UrlInv, NEW w \in Worker,
         LockList(w) \/ ReadUrlOpenFails(w) \/ ReadNoLine(w) \/ ReadLine(w) \/ CutLine(w)
  PROVE  UrlInv'
<1> USE DEF HtmlInv, TypeOK, urlRing, htmlRing, files, database, master, locals
<1>1. kept[w] = {} /\ ~has_url[w]
  BY DEF LockList, ReadUrlOpenFails, ReadNoLine, ReadLine, CutLine, UrlInv, UrlInHand
<1>2. CASE LockList(w) \/ ReadUrlOpenFails(w) \/ ReadNoLine(w)
  <2>1. Carries(w) = {}
    BY <1>1, <1>2 DEF LockList, ReadUrlOpenFails, ReadNoLine, Carries, UrlLabels
  <2> QED BY <1>1, <1>2, <2>1, MovesOn DEF LockList, ReadUrlOpenFails, ReadNoLine
<1>3. CASE ReadLine(w)
  <2>1. Carries(w) = {}
    BY <1>1, <1>3 DEF ReadLine, Carries, UrlLabels
  <2>2. Alone(w)
    BY <1>3 DEF ReadLine, Alone, Goto, Set
  <2>3. read_list # << >> /\ FirstLine = Head(read_list)
    BY <1>3 DEF ReadLine, FirstLine
  <2>4. UrlInHand'
    BY <1>1, <1>3, <2>3 DEF ReadLine, UrlInv, UrlInHand, Goto, Set
  <2>5. \A u : Placed(u)' <=> Placed(u)
    BY <1>3 DEF ReadLine, Placed, Recorded, InUrlRing, InHtmlRing
  <2> QED BY <1>3, <2>1, <2>2, <2>4, <2>5, NothingLost DEF ReadLine, UrlInv
<1>4. CASE CutLine(w)
  <2>1. read_list # << >> /\ work_url[w] = Head(read_list) /\ Carries(w) = {work_url[w]}
    BY <1>1, <1>4 DEF CutLine, UrlInv, UrlInHand, Carries, UrlLabels
  <2>2. Alone(w)
    BY <1>4 DEF CutLine, Alone, Goto
  <2>3. \A v \in Worker \ {w} : pc[v] # "cut_line"
    BY <1>4 DEF CutLine, LockDiscipline, Guards, ListSection
  <2>4. UrlInHand'
    BY <1>1, <1>4, <2>3 DEF CutLine, UrlInv, UrlInHand, Goto
  <2>5. Carries(w)' = {work_url[w]}
    BY <1>1, <1>4 DEF CutLine, Carries, UrlLabels, Goto
  <2>6. LinesOf(read_list) \subseteq {work_url[w]} \cup LinesOf(Tail(read_list))
    BY <2>1, LinesOfTail
  <2>7. LinesOf(read_list)' = LinesOf(Tail(read_list))
    BY <1>4, <2>1 DEF CutLine, LinesOf
  <2>8. \A u : Recorded(u) => Recorded(u)' \/ u = work_url[w]
    BY <1>4, <2>6, <2>7 DEF CutLine, Recorded
  <2>9. \A u : Placed(u) => Placed(u)' \/ u \in Carries(w)'
    BY <1>4, <2>5, <2>8 DEF CutLine, Placed, InUrlRing, InHtmlRing
  <2> QED BY <1>4, <2>1, <2>2, <2>4, <2>5, <2>9, NothingLost DEF CutLine, UrlInv
<1> QED BY <1>2, <1>3, <1>4

\* Choosing a page and failing to fetch it: a URL that is let go is in one of
\* the two tables.
LEMMA FetchUrls ==
  ASSUME HtmlInv, UrlInv, NEW w \in Worker,
         SkipUnwanted(w) \/ AcceptUrl(w) \/ FetchFails(w)
  PROVE  UrlInv'
<1> USE DEF HtmlInv, TypeOK, urlRing, htmlRing, files, database, master, locals
<1>1. kept[w] = {}
  BY DEF SkipUnwanted, AcceptUrl, FetchFails, UrlInv, UrlInHand
<1>2. Carries(w) = {work_url[w]}
  BY <1>1 DEF SkipUnwanted, AcceptUrl, FetchFails, Carries, UrlLabels
<1>3. Alone(w)
  BY DEF SkipUnwanted, AcceptUrl, FetchFails, Alone, Goto, Set
<1>4. UrlInHand'
  <2>1. CASE SkipUnwanted(w)
    BY <1>1, <2>1 DEF UrlInv, UrlInHand, Goto, Set, SkipUnwanted
  <2>2. CASE AcceptUrl(w)
    BY <1>1, <2>2 DEF UrlInv, UrlInHand, Goto, Set, AcceptUrl
  <2>3. CASE FetchFails(w)
    BY <1>1, <2>3 DEF UrlInv, UrlInHand, Goto, Set, FetchFails
  <2> QED BY <2>1, <2>2, <2>3
<1>5. \A u : Placed(u) => Placed(u)'
  BY DEF SkipUnwanted, AcceptUrl, FetchFails, Placed, Recorded, InUrlRing, InHtmlRing
<1>6. work_url[w] \in found => Placed(work_url[w])' \/ work_url[w] \in Carries(w)'
  <2>1. CASE SkipUnwanted(w)
    BY <2>1 DEF SkipUnwanted, Unwanted, Blacklisted, Visited, UrlInv, Placed, Recorded
  <2>2. CASE AcceptUrl(w)
    BY <1>1, <2>2 DEF AcceptUrl, Carries, UrlLabels, Goto
  <2>3. CASE FetchFails(w)
    BY <2>3 DEF FetchFails, Placed, Recorded
  <2> QED BY <2>1, <2>2, <2>3
<1> QED BY <1>2, <1>3, <1>4, <1>5, <1>6, NothingLost
        DEF SkipUnwanted, AcceptUrl, FetchFails, UrlInv

\* A URL whose page was fetched is carried on.
LEMMA FetchSucceedsUrls ==
  ASSUME HtmlInv, UrlInv, NEW w \in Worker, NEW next \in {"want_html", "valuate"},
         FetchSucceeds(w, next)
  PROVE  UrlInv'
<1> USE DEF HtmlInv, TypeOK, FetchSucceeds
<1>1. kept[w] = {} /\ ~has_url[w]
  BY DEF UrlInv, UrlInHand
<1>2. Carries(w) = {work_url[w]} /\ Carries(w)' = {work_url[w]}
  BY <1>1 DEF Carries, UrlLabels, Goto
<1> QED BY <1>1, <1>2, MovesOn DEF master

\* Persisting a page: its URL is in visited_url before it leaves the worker's
\* hands; a link is in them when it is found.
LEMMA PersistUrls ==
  ASSUME HtmlInv, UrlInv, NEW w \in Worker,
         MarkVisited(w) \/ IndexingFails(w) \/ IndexPage(w) \/ FilterLink(w) \/ NoLinkLeft(w)
  PROVE  UrlInv'
<1> USE DEF HtmlInv, TypeOK, urlRing, htmlRing, files, database, master, locals
<1>1. CASE MarkVisited(w)
  <2>1. kept[w] = {} /\ ~has_url[w]
    BY <1>1 DEF MarkVisited, UrlInv, UrlInHand
  <2>2. Carries(w) = {work_url[w]}
    BY <1>1, <2>1 DEF MarkVisited, Carries, UrlLabels
  <2>3. Alone(w)
    BY <1>1 DEF MarkVisited, Alone, Goto
  <2>4. UrlInHand'
    BY <1>1, <2>1 DEF MarkVisited, UrlInv, UrlInHand, Goto
  <2>5. \A u : Placed(u) \/ u = work_url[w] => Placed(u)'
    BY <1>1 DEF MarkVisited, Placed, Recorded, InUrlRing, InHtmlRing
  <2> QED BY <1>1, <2>2, <2>3, <2>4, <2>5, NothingLost DEF MarkVisited, UrlInv
<1>2. CASE IndexingFails(w) \/ NoLinkLeft(w)
  <2>1. Carries(w) = {} /\ kept[w] = {} /\ ~has_url[w]
    BY <1>2 DEF IndexingFails, NoLinkLeft, UrlInv, UrlInHand, Carries, UrlLabels
  <2> QED BY <1>2, <2>1, MovesOn DEF IndexingFails, NoLinkLeft
<1>3. CASE IndexPage(w)
  <2>1. kept[w] = {} /\ ~has_url[w] /\ Carries(w) = {}
    BY <1>3 DEF IndexPage, UrlInv, UrlInHand, Carries, UrlLabels
  <2>2. Alone(w)
    BY <1>3 DEF IndexPage, Alone, Goto
  <2>3. UrlInHand'
    BY <1>3, <2>1 DEF IndexPage, UrlInv, UrlInHand, Goto
  <2>4. \A u : Placed(u) <=> Placed(u)'
    BY <1>3 DEF IndexPage, Placed, Recorded, InUrlRing, InHtmlRing
  <2> QED BY <1>3, <2>1, <2>2, <2>3, <2>4, NothingLost DEF IndexPage, UrlInv
<1>4. CASE FilterLink(w)
  <2>1. PICK u \in links[w] :
          /\ kept' = Set(kept, w, IF Unwanted(u) THEN kept[w] ELSE kept[w] \cup {u})
          /\ found' = IF Unwanted(u) THEN found ELSE found \cup {u}
    BY <1>4 DEF FilterLink
  <2>2. u \in Url /\ u # NoUrl
    BY <2>1, WebAssumption
  <2>3. ~has_url[w] /\ Carries(w) = kept[w] /\ Carries(w)' = kept'[w]
    BY <1>4 DEF FilterLink, UrlInv, UrlInHand, Carries, UrlLabels
  <2>4. kept[w] \subseteq kept'[w] /\ found' \ found \subseteq kept'[w] /\ NoUrl \notin found'
    BY <2>1, <2>2 DEF Set, UrlInv
  <2>5. Alone(w)
    BY <1>4, <2>1 DEF FilterLink, Alone, Set
  <2>6. UrlInHand'
    BY <1>4, <2>1 DEF FilterLink, UrlInv, UrlInHand, Set
  <2>7. \A x : Placed(x) <=> Placed(x)'
    BY <1>4 DEF FilterLink, Placed, Recorded, InUrlRing, InHtmlRing
  <2>8. \A x \in found' \ found : x \in Carries(w)'
    BY <2>3, <2>4
  <2>9. \A x \in found : Placed(x) \/ x \in Carries(w) => Placed(x)' \/ x \in Carries(w)'
    BY <2>3, <2>4, <2>7
  <2>10. pc[w] # "unborn" /\ mpc' = mpc
    BY <1>4 DEF FilterLink
  <2> QED BY <2>4, <2>5, <2>6, <2>8, <2>9, <2>10, NothingLost
<1> QED BY <1>1, <1>2, <1>3, <1>4

\* A link goes into the ring at the tail, where nothing is, for the ring has room
\* as long as room[w] says so.
LEMMA InsertUrls ==
  ASSUME HtmlInv, UrlInv, NEW w \in Worker, InsertLink(w)
  PROVE  UrlInv'
<1> USE RingSizesAssumption
        DEF HtmlInv, TypeOK, htmlRing, files, database, master, InsertLink
<1>1. PICK u \in kept[w] : /\ url_queue' = [url_queue EXCEPT ![url_tail] = u]
                            /\ kept' = Set(kept, w, kept[w] \ {u})
  OBVIOUS
<1> DEFINE Room == RingRoom(url_head, url_tail, UrlNums)
<1>2. Room \in Nat /\ Room > 0 /\ room[w] <= Room
  <2>1. Room \in 0 .. UrlNums - 1
    BY RingRoomRange
  <2>2. room[w] <= Room
    BY DEF UrlInv, UrlInHand
  <2>3. room[w] \in Nat /\ room[w] > 0
    OBVIOUS
  <2> HIDE DEF Room
  <2> QED BY <2>1, <2>2, <2>3
<1>3. ~RingFull(url_head, url_tail, UrlNums)
  BY <1>2, RoomUnlessFull
<1>4. room'[w] <= Room'
  <2>1. room'[w] = room[w] - 1
    BY DEF Set
  <2>2. Room' = Room - 1
    BY <1>2, RoomAfterPut
  <2>3. room[w] \in Nat
    OBVIOUS
  <2> HIDE DEF Room
  <2> QED BY <1>2, <2>1, <2>2, <2>3
<1>5. \A v \in Worker \ {w} : pc[v] \notin UrlSection
  BY DEF LockDiscipline, Guards, UrlSection
<1>6. Alone(w)
  BY <1>1 DEF Alone, Set
<1>7. UrlInHand'
  BY <1>1, <1>4, <1>5 DEF UrlInv, UrlInHand, Set, UrlSection
<1>8. \A x : InUrlRing(x) \/ x = u => InUrlRing(x)'
  <2>1. url_queue'[url_tail] = u /\ RingHolds(url_tail, url_head, url_tail')
    BY <1>1, <1>3, RingHoldsAfterPut
  <2>2. ASSUME NEW i \in 0 .. UrlNums - 1, RingHolds(i, url_head, url_tail)
        PROVE  url_queue'[i] = url_queue[i] /\ RingHolds(i, url_head, url_tail')
    <3>1. i # url_tail
      <4>1. ~RingHolds(url_tail, url_head, url_tail)
        BY RingEnds
      <4> QED BY <2>2, <4>1
    <3>2. RingHolds(i, url_head, url_tail')
      BY <1>3, <2>2, RingHoldsAfterPut
    <3> QED BY <1>1, <3>1, <3>2
  <2> QED BY <2>1, <2>2 DEF InUrlRing
<1>9. \A x : Placed(x) \/ x = u => Placed(x)'
  BY <1>8 DEF Placed, Recorded, InHtmlRing
<1>10. \A x \in Carries(w) : x = u \/ x \in Carries(w)'
  BY <1>1 DEF Carries, UrlLabels, Set
<1> QED BY <1>6, <1>7, <1>9, <1>10, NothingLost DEF UrlInv

\* Handing out links: those for which the ring has no room go to the write url
\* file.
LEMMA HandOutUrls ==
  ASSUME HtmlInv, UrlInv, DescriptorsLeft, ~WriteUrlFails, NEW w \in Worker,
         LockUrlToInsert(w) \/ MeasureRoom(w) \/ InsertLink(w) \/ InsertEnds(w)
         \/ WriteUrlOpenFails(w) \/ Spill(w) \/ Attach(w)
  PROVE  UrlInv'
<1> USE DEF HtmlInv, TypeOK, urlRing, htmlRing, files, database, master, locals
<1>1. CASE LockUrlToInsert(w)
  <2>1. Carries(w)' = Carries(w)
    BY <1>1 DEF LockUrlToInsert, Carries, UrlLabels, Goto
  <2> QED BY <1>1, <2>1, MovesOn DEF LockUrlToInsert
<1>2. CASE MeasureRoom(w)
  <2>1. Carries(w)' = Carries(w)
    BY <1>2 DEF MeasureRoom, Carries, UrlLabels, Goto
  <2>2. room'[w] <= RingRoom(url_head, url_tail, UrlNums)
    <3>1. Cardinality(kept[w]) \in Nat
      BY WebAssumption, FS_Subset, FS_CardinalityType
    <3>2. RingRoom(url_head, url_tail, UrlNums) \in Nat
      BY RingSizesAssumption, RingRoomRange
    <3>3. room'[w] = Smaller(RingRoom(url_head, url_tail, UrlNums), Cardinality(kept[w]))
      BY <1>2 DEF MeasureRoom, Set
    <3> QED BY <3>1, <3>2, <3>3 DEF Smaller
  <2>3. Alone(w)
    BY <1>2 DEF MeasureRoom, Alone, Goto, Set
  <2>4. UrlInHand'
    BY <1>2, <2>2 DEF MeasureRoom, UrlInv, UrlInHand, Goto, Set
  <2>5. \A u : Placed(u) <=> Placed(u)'
    BY <1>2 DEF MeasureRoom, Placed, Recorded, InUrlRing, InHtmlRing
  <2> QED BY <1>2, <2>1, <2>3, <2>4, <2>5, NothingLost DEF MeasureRoom, UrlInv
<1>3. CASE InsertLink(w)
  BY <1>3, InsertUrls
<1>4. CASE InsertEnds(w)
  <2>1. Carries(w)' = Carries(w)
    BY <1>4 DEF InsertEnds, Carries, UrlLabels, Goto
  <2> QED BY <1>4, <2>1, MovesOn DEF InsertEnds, UrlInv, UrlInHand
<1>5. ~WriteUrlOpenFails(w)
  BY DEF WriteUrlOpenFails, DescriptorsLeft
<1>6. CASE Spill(w)
  <2>1. \A u \in Carries(w) : u \in write_list' \/ u \in Carries(w)'
    BY <1>6 DEF Spill, Carries, UrlLabels, Goto, Set
  <2>2. Alone(w)
    BY <1>6 DEF Spill, Alone, Goto, Set
  <2>3. UrlInHand'
    BY <1>6 DEF Spill, UrlInv, UrlInHand, Goto, Set
  <2>4. \A u : Placed(u) \/ u \in write_list' => Placed(u)'
    BY <1>6 DEF Spill, Placed, Recorded, InUrlRing, InHtmlRing
  <2> QED BY <1>6, <2>1, <2>2, <2>3, <2>4, NothingLost DEF Spill, UrlInv
<1>7. CASE Attach(w)
  <2>1. Carries(w) = {} /\ kept[w] = {} /\ ~has_url[w]
    BY <1>7 DEF Attach, UrlInv, UrlInHand, Carries, UrlLabels
  <2> QED BY <1>7, <2>1, MovesOn DEF Attach
<1> QED BY <1>1, <1>2, <1>3, <1>4, <1>5, <1>6, <1>7

\* The steps of a crawl worker that leave the html ring alone; a link it keeps
\* for itself stays in its hands.
LEMMA CrawlUrls ==
  ASSUME HtmlInv, UrlInv, NEW w \in Crawler,
         CrawlOwnUrl(w) \/ CrawlLockUrl(w) \/ CrawlLockHtml(w) \/ HtmlRingFull(w)
         \/ KeepOneLink(w)
  PROVE  UrlInv'
<1> USE DEF HtmlInv, TypeOK, urlRing, htmlRing, files, database, master, locals
<1>0. w \in Worker
  BY DEF Worker
<1>1. CASE CrawlOwnUrl(w) \/ CrawlLockUrl(w) \/ CrawlLockHtml(w) \/ HtmlRingFull(w)
  <2>1. kept[w] = {}
    BY <1>0, <1>1 DEF CrawlOwnUrl, CrawlLockUrl, CrawlLockHtml, HtmlRingFull, UrlInv, UrlInHand
  <2>2. Carries(w)' = Carries(w)
    BY <1>0, <1>1 DEF CrawlOwnUrl, CrawlLockUrl, CrawlLockHtml, HtmlRingFull, Carries,
           UrlLabels, Goto
  <2>3. CASE CrawlOwnUrl(w) \/ CrawlLockUrl(w)
    BY <1>0, <2>1, <2>2, <2>3, MovesOn DEF CrawlOwnUrl, CrawlLockUrl
  <2>4. CASE CrawlLockHtml(w) \/ HtmlRingFull(w)
    <3>1. ~has_url[w]
      BY <1>0, <2>4 DEF CrawlLockHtml, HtmlRingFull, UrlInv, UrlInHand
    <3> QED BY <1>0, <2>1, <2>2, <2>4, <3>1, MovesOn DEF CrawlLockHtml, HtmlRingFull
  <2> QED BY <1>1, <2>3, <2>4
<1>2. CASE KeepOneLink(w)
  <2>1. Alone(w)
    BY <1>2 DEF KeepOneLink, Alone, Goto, Set
  <2>2. UrlInHand'
    BY <1>0, <1>2 DEF KeepOneLink, UrlInv, UrlInHand, Goto, Set
  <2>3. Carries(w) = kept[w]
    BY <1>0, <1>2 DEF KeepOneLink, UrlInv, UrlInHand, Carries, UrlLabels
  <2>4. kept[w] \subseteq Carries(w)'
    BY <1>0, <1>2 DEF KeepOneLink, Carries, UrlLabels, Goto, Set
  <2>5. \A u : Placed(u) <=> Placed(u)'
    BY <1>2 DEF KeepOneLink, Placed, Recorded, InUrlRing, InHtmlRing
  <2> QED BY <1>0, <1>2, <2>1, <2>2, <2>3, <2>4, <2>5, NothingLost DEF KeepOneLink, UrlInv
<1> QED BY <1>1, <1>2

\* The two copies into the slot at the tail of the html ring: the URL leaves the
\* worker's hands when the slot is put into use.
LEMMA StoreUrls ==
  ASSUME HtmlInv, UrlInv, NEW w \in Crawler, StoreUrl(w) \/ StorePage(w)
  PROVE  UrlInv'
<1> USE RingSizesAssumption
        DEF HtmlInv, TypeOK, urlRing, files, database, master, locals
<1>0. w \in Worker
  BY DEF Worker
<1>1. kept[w] = {} /\ ~has_url[w] /\ Carries(w) = {work_url[w]}
  BY <1>0 DEF StoreUrl, StorePage, UrlInv, UrlInHand, Carries, UrlLabels
<1>2. Alone(w)
  BY DEF StoreUrl, StorePage, Alone, Goto
<1>3. UrlInHand'
  <2>1. CASE StoreUrl(w)
    BY <1>0, <1>1, <2>1 DEF UrlInv, UrlInHand, Goto, StoreUrl
  <2>2. CASE StorePage(w)
    BY <1>0, <1>1, <2>2 DEF UrlInv, UrlInHand, Goto, StorePage
  <2> QED BY <2>1, <2>2
<1>4. ASSUME NEW i \in 0 .. HtmlNums - 1, RingHolds(i, html_head, html_tail)
      PROVE  html_queue'[i] = html_queue[i]
  <2>1. ~RingHolds(html_tail, html_head, html_tail)
    BY RingEnds
  <2>2. i # html_tail
    BY <1>4, <2>1
  <2> QED BY <2>2 DEF StoreUrl, StorePage, Set
<1>5. CASE StoreUrl(w)
  <2>1. \A u : InHtmlRing(u) => InHtmlRing(u)'
    BY <1>4, <1>5 DEF StoreUrl, InHtmlRing
  <2>2. \A u : Placed(u) => Placed(u)'
    BY <1>5, <2>1 DEF StoreUrl, Placed, Recorded, InUrlRing
  <2>3. work_url[w] \in Carries(w)'
    BY <1>0, <1>5 DEF StoreUrl, Carries, UrlLabels, Goto
  <2> QED BY <1>0, <1>1, <1>2, <1>3, <1>5, <2>2, <2>3, NothingLost DEF StoreUrl, UrlInv
<1>6. CASE StorePage(w)
  <2>1. ~RingFull(html_head, html_tail, HtmlNums) /\ html_queue[html_tail].url = work_url[w]
    BY <1>0, <1>6 DEF StorePage, PageInHand
  <2>2. html_queue'[html_tail].url = work_url[w] /\ RingHolds(html_tail, html_head, html_tail')
    BY <1>6, <2>1, RingHoldsAfterPut DEF StorePage, Set
  <2>3. \A i \in 0 .. HtmlNums - 1 :
          RingHolds(i, html_head, html_tail) => RingHolds(i, html_head, html_tail')
    BY <1>6, <2>1, RingHoldsAfterPut DEF StorePage
  <2>4. \A u : InHtmlRing(u) \/ u = work_url[w] => InHtmlRing(u)'
    BY <1>4, <1>6, <2>2, <2>3 DEF StorePage, InHtmlRing
  <2>5. \A u : Placed(u) \/ u = work_url[w] => Placed(u)'
    BY <1>6, <2>4 DEF StorePage, Placed, Recorded, InUrlRing
  <2> QED BY <1>0, <1>1, <1>2, <1>3, <1>6, <2>5, NothingLost DEF StorePage, UrlInv
<1> QED BY <1>5, <1>6

\* The steps of a parse worker that leave the html ring alone.
LEMMA ParseUrls ==
  ASSUME HtmlInv, UrlInv, NEW w \in Parser,
         ParseLockHtml(w) \/ HtmlRingEmpty(w) \/ ParseLockUrl(w) \/ KeepAllLinks(w)
  PROVE  UrlInv'
<1> USE WorkersAssumption
        DEF HtmlInv, TypeOK, urlRing, htmlRing, files, database, master, locals
<1>1. w \in Worker /\ w \notin Crawler
  BY DEF Worker
<1>2. ~has_url[w]
  BY <1>1 DEF UrlInv, UrlInHand
<1>3. Carries(w)' = Carries(w)
  BY <1>1, <1>2 DEF ParseLockHtml, HtmlRingEmpty, ParseLockUrl, KeepAllLinks, Carries,
         UrlLabels, Goto
<1>4. CASE ParseLockHtml(w) \/ HtmlRingEmpty(w) \/ ParseLockUrl(w)
  <2>1. kept[w] = {}
    BY <1>1, <1>4 DEF ParseLockHtml, HtmlRingEmpty, ParseLockUrl, UrlInv, UrlInHand
  <2> QED BY <1>1, <1>2, <1>3, <1>4, <2>1, MovesOn DEF ParseLockHtml, HtmlRingEmpty, ParseLockUrl
<1>5. CASE KeepAllLinks(w)
  BY <1>1, <1>2, <1>3, <1>5, MovesOn DEF KeepAllLinks
<1> QED BY <1>4, <1>5

\* The two copies out of the slot at the head of the html ring: the URL is in the
\* worker's hands when the slot is taken out of use.
LEMMA LoadUrls ==
  ASSUME HtmlInv, UrlInv, NEW w \in Parser, LoadUrl(w) \/ LoadPage(w)
  PROVE  UrlInv'
<1> USE RingSizesAssumption, WorkersAssumption
        DEF HtmlInv, TypeOK, urlRing, htmlRing, files, database, master, locals
<1>0. w \in Worker /\ w \notin Crawler
  BY DEF Worker
<1>1. kept[w] = {} /\ ~has_url[w]
  BY <1>0 DEF LoadUrl, LoadPage, UrlInv, UrlInHand
<1>2. Alone(w)
  BY DEF LoadUrl, LoadPage, Alone, Goto, Set
<1>3. UrlInHand'
  <2>1. CASE LoadUrl(w)
    BY <1>0, <1>1, <2>1 DEF UrlInv, UrlInHand, Goto, Set, LoadUrl
  <2>2. CASE LoadPage(w)
    BY <1>0, <1>1, <2>2 DEF UrlInv, UrlInHand, Goto, Set, LoadPage
  <2> QED BY <2>1, <2>2
<1>4. CASE LoadUrl(w)
  <2>1. Carries(w) = {}
    BY <1>0, <1>1, <1>4 DEF LoadUrl, Carries, UrlLabels
  <2>2. \A u : Placed(u) <=> Placed(u)'
    BY <1>4 DEF LoadUrl, Placed, Recorded, InUrlRing, InHtmlRing
  <2> QED BY <1>0, <1>2, <1>3, <1>4, <2>1, <2>2, NothingLost DEF LoadUrl, UrlInv
<1>5. CASE LoadPage(w)
  <2>1. ~RingEmpty(html_head, html_tail) /\ html_queue[html_head].url = work_url[w]
    BY <1>0, <1>5 DEF LoadPage, PageInHand
  <2>2. \A i \in 0 .. HtmlNums - 1 :
          RingHolds(i, html_head, html_tail) => RingHolds(i, html_head', html_tail) \/ i = html_head
    BY <1>5, <2>1, RingHoldsAfterTake DEF LoadPage
  <2>3. \A u : InHtmlRing(u) => InHtmlRing(u)' \/ u = work_url[w]
    BY <1>5, <2>1, <2>2 DEF LoadPage, InHtmlRing
  <2>4. Carries(w) = {work_url[w]} /\ work_url[w] \in Carries(w)'
    BY <1>0, <1>1, <1>5 DEF LoadPage, Carries, UrlLabels, Goto
  <2>5. \A u : Placed(u) => Placed(u)' \/ u \in Carries(w)'
    BY <1>5, <2>3, <2>4 DEF LoadPage, Placed, Recorded, InUrlRing
  <2> QED BY <1>0, <1>2, <1>3, <1>5, <2>4, <2>5, NothingLost DEF LoadPage, UrlInv
<1> QED BY <1>4, <1>5

\* The master puts the lines of the start url file into the ring before it starts
\* a worker.
LEMMA MasterUrls ==
  ASSUME HtmlInv, UrlInv, MasterStarts
  PROVE  UrlInv'
<1> USE RingSizesAssumption
        DEF HtmlInv, TypeOK, urlRing, htmlRing, files, database, master, locals, workers
<1>1. CASE SeedEnds \/ SpawnEnds
  <2>1. UrlInHand' /\ \A w \in Worker : Carries(w)' = Carries(w)
    <3>1. UrlInHand'
      BY <1>1 DEF SeedEnds, SpawnEnds, UrlInv, UrlInHand
    <3>2. \A w \in Worker : Carries(w)' = Carries(w)
      BY <1>1 DEF SeedEnds, SpawnEnds, Carries
    <3> QED BY <3>1, <3>2
  <2>2. \A u : Placed(u) <=> Placed(u)'
    BY <1>1 DEF SeedEnds, SpawnEnds, Placed, Recorded, InUrlRing, InHtmlRing
  <2> QED BY <1>1, <2>1, <2>2 DEF SeedEnds, SpawnEnds, UrlInv, Placed
<1>2. ASSUME NEW w \in Worker, Spawn(w) PROVE UrlInv'
  <2>1. UrlInHand'
    BY <1>2 DEF Spawn, Unborn, UrlInv, UrlInHand, Goto
  <2>2. \A v \in Worker : Carries(v) \subseteq Carries(v)'
    BY <1>2 DEF Spawn, Unborn, Carries, UrlLabels, Goto
  <2>3. \A u : Placed(u) <=> Placed(u)'
    BY <1>2 DEF Spawn, Placed, Recorded, InUrlRing, InHtmlRing
  <2> QED BY <1>2, <2>1, <2>2, <2>3 DEF Spawn, UrlInv, Placed
<1>3. CASE Seed
  <2> DEFINE u == Head(start_list)
  <2>1. \A w \in Worker : pc[w] = "unborn"
    BY <1>3 DEF Seed, UrlInv
  <2>2. UrlInHand'
    BY <1>3, <2>1 DEF Seed, UrlInv, UrlInHand
  <2>3. \A w \in Worker : Carries(w)' = Carries(w)
    BY <1>3 DEF Seed, Carries, UrlLabels
  <2>4. CASE Unwanted(u)
    <3>1. \A x : Placed(x) <=> Placed(x)'
      BY <1>3, <2>4 DEF Seed, Placed, Recorded, InUrlRing, InHtmlRing
    <3> QED BY <1>3, <2>1, <2>2, <2>3, <2>4, <3>1 DEF Seed, UrlInv, Placed
  <2>5. CASE ~Unwanted(u)
    <3>1. /\ url_queue' = [url_queue EXCEPT ![url_tail] = u]
          /\ url_tail' = RingNext(url_tail, UrlNums) /\ found' = found \cup {u}
          /\ ~RingFull(url_head, url_tail, UrlNums) /\ u # NoUrl
      BY <1>3, <2>5 DEF Seed, SeedMore, Unwanted, Blacklisted
    <3>2. ~RingHolds(url_tail, url_head, url_tail)
      BY RingEnds
    <3>3. \A i \in 0 .. UrlNums - 1 :
            RingHolds(i, url_head, url_tail') <=> RingHolds(i, url_head, url_tail) \/ i = url_tail
      BY <3>1, RingHoldsAfterPut
    <3>4. \A x : InUrlRing(x) \/ x = u => InUrlRing(x)'
      BY <1>3, <3>1, <3>2, <3>3 DEF Seed, InUrlRing
    <3>5. \A x : Placed(x) \/ x = u => Placed(x)'
      BY <1>3, <3>4 DEF Seed, Placed, Recorded, InHtmlRing
    <3> QED BY <1>3, <2>1, <2>2, <2>3, <3>1, <3>5 DEF Seed, UrlInv, Placed
  <2> QED BY <2>4, <2>5
<1> QED BY <1>1, <1>2, <1>3 DEF MasterStarts

\* Every step of a spider nobody interrupts keeps track of the URLs.
LEMMA NextUrls ==
  ASSUME HtmlInv, UrlInv, DescriptorsLeft, ~WriteUrlFails, [RunNext]_vars
  PROVE  UrlInv'
<1>1. ASSUME NEW w \in Crawler, CrawlStep(w) PROVE UrlInv'
  <2>1. w \in Worker
    BY DEF Worker
  <2> QED
    BY <1>1, <2>1, TakeUrls, ReadUrls, FetchUrls, FetchSucceedsUrls, PersistUrls, HandOutUrls,
       CrawlUrls, StoreUrls
       DEF CrawlStep, CrawlTakeUrl, CrawlReadUrl, CrawlFetch, CrawlPersist, CrawlHandOut
<1>2. ASSUME NEW w \in Parser, ParseStep(w) PROVE UrlInv'
  <2>1. w \in Worker
    BY DEF Worker
  <2> QED
    BY <1>2, <2>1, TakeUrls, ReadUrls, FetchUrls, FetchSucceedsUrls, PersistUrls, HandOutUrls,
       ParseUrls, LoadUrls
       DEF ParseStep, ParseTakeUrl, ParseReadUrl, ParseFetch, ParsePersist, ParseHandOut
<1>3. CASE UNCHANGED vars
  <2>1. UrlInHand' /\ \A w \in Worker : Carries(w)' = Carries(w)
    BY <1>3 DEF vars, urlRing, files, locals, UrlInv, UrlInHand, Carries, UrlLabels
  <2>2. \A u : Placed(u) <=> Placed(u)'
    BY <1>3 DEF vars, urlRing, htmlRing, files, database, Placed, Recorded, InUrlRing, InHtmlRing
  <2> QED BY <1>3, <2>1, <2>2 DEF vars, master, UrlInv, Placed
<1> QED BY <1>1, <1>2, <1>3, MasterUrls DEF RunNext

-----------------------------------------------------------------------------
\* What the rings hold slot by slot is what their contents are.
LEMMA PlacesAreContents ==
  ASSUME TypeOK, UrlInv PROVE NoUrlLost
<1> USE RingSizesAssumption DEF TypeOK
<1>1. ASSUME NEW u, InUrlRing(u) PROVE u \in LinesOf(UrlContents)
  <2>1. PICK i \in 0 .. UrlNums - 1 : RingHolds(i, url_head, url_tail) /\ url_queue[i] = u
    BY <1>1 DEF InUrlRing
  <2>2. UrlContents = RingContents(url_queue, url_head, url_tail, UrlNums)
    BY DEF UrlContents
  <2>3. \E k \in DOMAIN UrlContents : UrlContents[k] = url_queue[i]
    BY <2>1, <2>2, HeldIsContained
  <2> QED BY <2>1, <2>3 DEF LinesOf
<1>2. ASSUME NEW u, InHtmlRing(u) PROVE \E k \in DOMAIN HtmlContents : HtmlContents[k].url = u
  <2>1. PICK i \in 0 .. HtmlNums - 1 :
          RingHolds(i, html_head, html_tail) /\ html_queue[i].url = u
    BY <1>2 DEF InHtmlRing
  <2>2. HtmlContents = RingContents(html_queue, html_head, html_tail, HtmlNums)
    BY DEF HtmlContents
  <2>3. \E k \in DOMAIN HtmlContents : HtmlContents[k] = html_queue[i]
    BY <2>1, <2>2, HeldIsContained
  <2> QED BY <2>1, <2>3
<1> QED BY <1>1, <1>2 DEF UrlInv, NoUrlLost, Recorded

\* Every URL in found is in the visited or nice-0 records, in the write or read
\* url file, in a slot of a ring or in a worker's hands, and what a worker at a
\* copying step has in hand is what the slot or the file it copies has; this is
\* the inductive invariant of the crawl and parse workers' loops.
THEOREM UrlsStayInPlace ==
  ASSUME ~WriteUrlFails
  PROVE  RunSpec /\ []DescriptorsLeft => []UrlInv
<1>1. Init => UrlInv
  <2> SUFFICES ASSUME Init PROVE UrlInv
    OBVIOUS
  <2>1. UrlInHand
    BY DEF Init, UrlInHand
  <2> QED BY <2>1 DEF Init, UrlInv, Recorded
<1>2. HtmlInv /\ UrlInv /\ DescriptorsLeft /\ [RunNext]_vars => UrlInv'
  BY NextUrls
<1> QED BY <1>1, <1>2, RunsAreSpiders, HtmlInvariant, PTL DEF RunSpec

\* While nobody interrupts the spider and a worker with links left over can open
\* the write url file, no accepted URL is ever lost, for any number of workers,
\* any web and rings of any size, wherever the workers are in their programs.
THEOREM AcceptedUrlsStay ==
  ASSUME ~WriteUrlFails
  PROVE  RunSpec /\ []DescriptorsLeft => []NoUrlLost
<1>1. HtmlInv /\ UrlInv => NoUrlLost
  BY PlacesAreContents DEF HtmlInv
<1> QED BY <1>1, UrlsStayInPlace, RunsAreSpiders, HtmlInvariant, PTL

-----------------------------------------------------------------------------
\* Only IndexPage lets a worker go from "index" on, and no step takes a URL from a
\* worker that ended.
LEMMA NextIndexed ==
  ASSUME TypeOK, VisitedPagesAreIndexed, ~IndexFails, [Next]_vars
  PROVE  VisitedPagesAreIndexed'
<1> DEFINE Indexing == {"index", "exited", "killed"}
<1> USE DEF TypeOK, Goto, Set
<1>1. ASSUME NEW w \in Worker, MarkVisited(w) PROVE VisitedPagesAreIndexed'
  BY <1>1 DEF MarkVisited, VisitedPagesAreIndexed, locals
<1>2. ASSUME NEW w \in Worker, IndexPage(w) PROVE VisitedPagesAreIndexed'
  <2>1. indexed' = indexed \cup {<<work_url[w], page[w]>>} /\ UNCHANGED <<visited, work_url>>
    BY <1>2 DEF IndexPage
  <2>2. \A v \in Worker \ {w} : pc'[v] = pc[v]
    BY <1>2 DEF IndexPage
  <2> SUFFICES ASSUME NEW u \in visited, ~ \E entry \in indexed' : entry[1] = u
               PROVE  \E v \in Worker : work_url[v] = u /\ pc'[v] \in Indexing
    BY <2>1 DEF VisitedPagesAreIndexed
  <2>3. PICK v \in Worker : work_url[v] = u /\ pc[v] \in Indexing
    BY <2>1 DEF VisitedPagesAreIndexed
  <2>4. v # w
    <3> DEFINE entry == <<work_url[w], page[w]>>
    <3>1. entry \in indexed' /\ entry[1] = work_url[w]
      BY <2>1
    <3> HIDE DEF entry
    <3> QED BY <2>3, <3>1
  <2> QED BY <2>2, <2>3, <2>4
<1> DEFINE Keeps == /\ UNCHANGED <<visited, indexed>>
                    /\ \A w \in Worker : pc[w] \in Indexing =>
                         work_url'[w] = work_url[w] /\ pc'[w] \in Indexing
<1>3. Keeps => VisitedPagesAreIndexed'
  BY DEF VisitedPagesAreIndexed
<1>4. ASSUME NEW w \in Worker,
             CrawlTakeUrl(w) \/ CrawlReadUrl(w) \/ SkipUnwanted(w) \/ AcceptUrl(w) \/ FetchFails(w)
      PROVE  Keeps
  BY <1>4 DEF CrawlTakeUrl, UrlRingEmpty, CopyUrl, AdvanceUrl, CrawlReadUrl, LockList,
         ReadUrlOpenFails, ReadNoLine, ReadLine, CutLine, SkipUnwanted, AcceptUrl,
         FetchFails, database, locals
<1>5. ASSUME NEW w \in Worker, NEW next, FetchSucceeds(w, next) PROVE Keeps
  BY <1>5 DEF FetchSucceeds, database
<1>6. ASSUME NEW w \in Worker,
             IndexingFails(w) \/ FilterLink(w) \/ NoLinkLeft(w) \/ CrawlHandOut(w) \/ Attach(w)
      PROVE  Keeps
  BY <1>6 DEF IndexingFails, FilterLink, NoLinkLeft, CrawlHandOut, LockUrlToInsert, MeasureRoom,
         InsertLink, InsertEnds, WriteUrlOpenFails, Spill, Attach, database, locals
<1>7. ASSUME NEW w \in Worker,
             \/ CrawlOwnUrl(w) \/ CrawlLockUrl(w) \/ CrawlLockHtml(w) \/ HtmlRingFull(w)
             \/ StoreUrl(w) \/ StorePage(w) \/ KeepOneLink(w)
      PROVE  Keeps
  BY <1>7 DEF CrawlOwnUrl, CrawlLockUrl, CrawlLockHtml, HtmlRingFull, StoreUrl, StorePage,
         KeepOneLink, database, locals
<1>8. ASSUME NEW w \in Worker,
             \/ ParseLockHtml(w) \/ HtmlRingEmpty(w) \/ LoadUrl(w) \/ LoadPage(w)
             \/ ParseLockUrl(w) \/ KeepAllLinks(w)
      PROVE  Keeps
  BY <1>8 DEF ParseLockHtml, HtmlRingEmpty, LoadUrl, LoadPage, ParseLockUrl, KeepAllLinks,
         database, locals
<1>9. ASSUME MasterStarts \/ Interrupt \/ AtExit PROVE Keeps
  BY <1>9 DEF MasterStarts, Seed, SeedEnds, Spawn, Unborn, SpawnEnds, Interrupt, AtExit,
         DrainOpenFails, DrainOpens, DrainCopy, DrainAdvance, DrainEnds, KillWorkers, workers,
         database, locals
<1>10. ASSUME NEW w \in Worker, TakeInterrupt(w) PROVE Keeps
  BY <1>10 DEF TakeInterrupt, DieOfInterrupt, SurviveInterrupt, database, locals
<1>11. UNCHANGED vars => Keeps
  BY DEF vars, database, locals
<1> HIDE DEF Keeps
<1>12. ASSUME NEW w \in Crawler, CrawlStep(w) PROVE VisitedPagesAreIndexed'
  <2>1. w \in Worker
    BY DEF Worker
  <2> QED BY <1>1, <1>2, <1>3, <1>4, <1>5, <1>6, <1>7, <1>12, <2>1
          DEF CrawlStep, CrawlFetch, CrawlPersist
<1>13. ASSUME NEW w \in Parser, ParseStep(w) PROVE VisitedPagesAreIndexed'
  <2>1. w \in Worker
    BY DEF Worker
  <2> QED BY <1>1, <1>2, <1>3, <1>4, <1>5, <1>6, <1>8, <1>13, <2>1
          DEF ParseStep, ParseTakeUrl, CrawlTakeUrl, ParseReadUrl, CrawlReadUrl, ParseFetch,
              ParsePersist, ParseHandOut, CrawlHandOut
<1> QED BY <1>3, <1>9, <1>10, <1>11, <1>12, <1>13 DEF Next, RunNext

\* A page that has a row in visited_url, and so is never fetched again, is in the
\* reverse index or on its way there, or its worker ended on that way; this holds
\* of every spider whose database answers, also when it is interrupted.
THEOREM VisitedPagesStayIndexed ==
  ASSUME ~IndexFails
  PROVE  Spec => []VisitedPagesAreIndexed
<1>1. Init => VisitedPagesAreIndexed
  BY DEF Init, VisitedPagesAreIndexed
<1>2. TypeOK /\ VisitedPagesAreIndexed /\ [Next]_vars => VisitedPagesAreIndexed'
  BY NextIndexed
<1> QED BY <1>1, <1>2, TypesAreKept, PTL DEF Spec

-----------------------------------------------------------------------------
(* The url ring refines BoundedFifo, as long as nobody interrupts the      *)
(* spider.                                                                 *)

\* What a worker that has url_lock knows of the url ring, and that the master has
\* the ring to itself before it starts a worker.
RingClaims ==
  /\ mpc = "seed" => \A w \in Worker : pc[w] = "unborn"
  /\ \A w \in Worker :
       /\ pc[w] = "advance_url" => ~RingEmpty(url_head, url_tail)
       /\ pc[w] = "insert" => room[w] <= RingRoom(url_head, url_tail, UrlNums)

\* A step that leaves the ring alone and after which no worker knows more of it.
LeavesRing ==
  /\ UNCHANGED <<urlRing, room>>
  /\ \A v \in Worker : pc'[v] = pc[v] \/ pc'[v] \notin {"advance_url", "insert"}
  /\ \/ mpc' # "seed" \/ UNCHANGED <<mpc, pc>>
     \/ mpc' = mpc /\ \E w \in Worker : pc[w] # "unborn"

\* Five steps do more than that.
LEMMA UrlRingSteps ==
  ASSUME TypeOK, [RunNext]_vars
  PROVE  \/ \E w \in Worker : CopyUrl(w) \/ AdvanceUrl(w) \/ MeasureRoom(w) \/ InsertLink(w)
         \/ Seed
         \/ LeavesRing
<1> USE DEF LeavesRing, TypeOK, Goto, locals, master
<1>1. ASSUME NEW w \in Worker,
             \/ UrlRingEmpty(w)
             \/ LockList(w) \/ ReadUrlOpenFails(w) \/ ReadNoLine(w) \/ ReadLine(w) \/ CutLine(w)
             \/ SkipUnwanted(w) \/ AcceptUrl(w) \/ FetchFails(w)
      PROVE  LeavesRing
  BY <1>1 DEF UrlRingEmpty, LockList, ReadUrlOpenFails, ReadNoLine, ReadLine, CutLine,
         SkipUnwanted, AcceptUrl, FetchFails
<1>2. ASSUME NEW w \in Worker, NEW next \in {"want_html", "valuate"}, FetchSucceeds(w, next)
      PROVE  LeavesRing
  BY <1>2 DEF FetchSucceeds
<1>3. ASSUME NEW w \in Worker,
             \/ MarkVisited(w) \/ IndexingFails(w) \/ IndexPage(w) \/ FilterLink(w)
             \/ NoLinkLeft(w) \/ LockUrlToInsert(w) \/ InsertEnds(w)
             \/ WriteUrlOpenFails(w) \/ Spill(w) \/ Attach(w)
      PROVE  LeavesRing
  BY <1>3 DEF MarkVisited, IndexingFails, IndexPage, FilterLink, NoLinkLeft,
         LockUrlToInsert, InsertEnds, WriteUrlOpenFails, Spill, Attach
<1>4. ASSUME NEW w \in Worker,
             \/ CrawlOwnUrl(w) \/ CrawlLockUrl(w) \/ CrawlLockHtml(w) \/ HtmlRingFull(w)
             \/ StoreUrl(w) \/ StorePage(w) \/ KeepOneLink(w)
      PROVE  LeavesRing
  BY <1>4 DEF CrawlOwnUrl, CrawlLockUrl, CrawlLockHtml, HtmlRingFull, StoreUrl, StorePage,
         KeepOneLink
<1>5. ASSUME NEW w \in Worker,
             \/ ParseLockHtml(w) \/ HtmlRingEmpty(w) \/ LoadUrl(w) \/ LoadPage(w)
             \/ ParseLockUrl(w) \/ KeepAllLinks(w)
      PROVE  LeavesRing
  BY <1>5 DEF ParseLockHtml, HtmlRingEmpty, LoadUrl, LoadPage, ParseLockUrl, KeepAllLinks
<1>6. ASSUME SeedEnds \/ (\E w \in Worker : Spawn(w)) \/ SpawnEnds PROVE LeavesRing
  BY <1>6 DEF SeedEnds, Spawn, SpawnEnds, workers
<1>7. UNCHANGED vars => LeavesRing
  BY DEF vars
<1> HIDE DEF LeavesRing
<1>8. ASSUME NEW w \in Crawler, CrawlStep(w)
      PROVE  CopyUrl(w) \/ AdvanceUrl(w) \/ MeasureRoom(w) \/ InsertLink(w) \/ LeavesRing
  <2>1. w \in Worker
    BY DEF Worker
  <2> QED BY <1>1, <1>2, <1>3, <1>4, <1>8, <2>1
          DEF CrawlStep, CrawlTakeUrl, CrawlReadUrl, CrawlFetch, CrawlPersist, CrawlHandOut
<1>9. ASSUME NEW w \in Parser, ParseStep(w)
      PROVE  CopyUrl(w) \/ AdvanceUrl(w) \/ MeasureRoom(w) \/ InsertLink(w) \/ LeavesRing
  <2>1. w \in Worker
    BY DEF Worker
  <2> QED BY <1>1, <1>2, <1>3, <1>5, <1>9, <2>1
          DEF ParseStep, ParseTakeUrl, ParseReadUrl, ParseFetch, ParsePersist, ParseHandOut
<1> QED BY <1>6, <1>7, <1>8, <1>9 DEF RunNext, MasterStarts, Worker

\* Because of url_lock, what a worker knows of the ring stays true until it uses it.
LEMMA NextClaims ==
  ASSUME TypeOK, LockDiscipline, RingClaims, [RunNext]_vars
  PROVE  RingClaims'
<1> USE RingSizesAssumption DEF TypeOK, RingClaims, urlRing, master, locals, Goto, Set
<1>1. ASSUME NEW w \in Worker, pc[w] \in UrlSection
      PROVE  \A v \in Worker \ {w} : pc[v] \notin UrlSection
  BY <1>1 DEF LockDiscipline, Guards
<1>2. ASSUME NEW w \in Worker, CopyUrl(w) PROVE RingClaims'
  BY <1>2 DEF CopyUrl
<1>3. ASSUME NEW w \in Worker, AdvanceUrl(w) PROVE RingClaims'
  BY <1>1, <1>3 DEF AdvanceUrl, UrlSection
<1>4. ASSUME NEW w \in Worker, MeasureRoom(w) PROVE RingClaims'
  <2> DEFINE Room == RingRoom(url_head, url_tail, UrlNums)
  <2>1. Room \in Nat /\ Cardinality(kept[w]) \in Nat
    <3>1. Room \in 0 .. UrlNums - 1
      BY RingRoomRange
    <3>2. IsFiniteSet(kept[w])
      BY WebAssumption, FS_Subset
    <3> QED BY <3>1, <3>2, FS_CardinalityType
  <2>2. /\ pc' = [pc EXCEPT ![w] = "insert"] /\ mpc' = mpc
        /\ url_head' = url_head /\ url_tail' = url_tail /\ pc[w] = "measure"
        /\ room' = [room EXCEPT ![w] = Smaller(Room, Cardinality(kept[w]))]
    BY <1>4 DEF MeasureRoom
  <2> HIDE DEF Room
  <2>3. room'[w] <= Room
    BY <2>1, <2>2 DEF Smaller
  <2>4. \A v \in Worker \ {w} : pc'[v] = pc[v] /\ room'[v] = room[v]
    BY <2>2
  <2> QED BY <2>2, <2>3, <2>4 DEF Room
<1>5. ASSUME NEW w \in Worker, InsertLink(w) PROVE RingClaims'
  <2>1. RingRoom(url_head, url_tail, UrlNums) \in 0 .. UrlNums - 1
    BY RingRoomRange
  <2>2. /\ room[w] > 0 /\ room' = [room EXCEPT ![w] = room[w] - 1] /\ pc' = pc
        /\ pc[w] = "insert" /\ mpc' = mpc
        /\ url_head' = url_head /\ url_tail' = RingNext(url_tail, UrlNums)
    BY <1>5 DEF InsertLink
  <2>3. RingRoom(url_head, url_tail', UrlNums) = RingRoom(url_head, url_tail, UrlNums) - 1
    BY <2>1, <2>2, RoomAfterPut
  <2>4. \A v \in Worker \ {w} : pc'[v] \notin UrlSection
    BY <1>1, <2>2 DEF UrlSection
  <2> QED BY <2>1, <2>2, <2>3, <2>4 DEF UrlSection
<1>6. ASSUME Seed PROVE RingClaims'
  BY <1>6 DEF Seed, workers
<1>7. ASSUME LeavesRing PROVE RingClaims'
  BY <1>7 DEF LeavesRing
<1> QED BY <1>2, <1>3, <1>4, <1>5, <1>6, <1>7, UrlRingSteps

\* An accepted line of the start url file and an inserted link are appended, an
\* advance of the head takes the oldest URL away, and no other step changes what the
\* ring holds.
LEMMA UrlRingMapsSteps ==
  ASSUME TypeOK, RingClaims, [RunNext]_vars
  PROVE  [UrlFifo!Next]_UrlContents
<1>0. /\ url_queue \in [0 .. UrlNums - 1 -> Line]
      /\ url_head \in 0 .. UrlNums - 1 /\ url_tail \in 0 .. UrlNums - 1
      /\ UrlNums \in Nat /\ UrlNums >= 2
  BY RingSizesAssumption DEF TypeOK
<1>1. ASSUME NEW u \in Url, ~RingFull(url_head, url_tail, UrlNums),
             url_queue' = [url_queue EXCEPT ![url_tail] = u],
             url_head' = url_head, url_tail' = RingNext(url_tail, UrlNums)
      PROVE  UrlFifo!Put
  <2>1. u \in Line
    BY DEF Line
  <2>2. PutsBehind(url_queue, url_head, url_tail, UrlNums, u)
    BY <1>0, <1>1, <2>1, ContentsAfterPut
  <2> QED BY <1>1, <2>2 DEF UrlContents, PutsBehind, UrlFifo!Put
<1>2. ASSUME NEW w \in Worker, CopyUrl(w) \/ MeasureRoom(w) PROVE UNCHANGED UrlContents
  BY <1>2 DEF CopyUrl, MeasureRoom, urlRing, UrlContents
<1>3. ASSUME NEW w \in Worker, AdvanceUrl(w) PROVE UrlFifo!Take
  <2>1. ~RingEmpty(url_head, url_tail)
    BY <1>3 DEF AdvanceUrl, RingClaims
  <2>2. /\ url_queue' = url_queue /\ url_tail' = url_tail
        /\ url_head' = RingNext(url_head, UrlNums)
    BY <1>3 DEF AdvanceUrl
  <2> QED BY <1>0, <2>1, <2>2, ContentsAfterTake DEF UrlContents, UrlFifo!Take
<1>4. ASSUME NEW w \in Worker, InsertLink(w) PROVE UrlFifo!Put
  <2>1. PICK u \in kept[w] : url_queue' = [url_queue EXCEPT ![url_tail] = u]
    BY <1>4 DEF InsertLink
  <2>2. u \in Url
    BY DEF TypeOK
  <2>3. RingRoom(url_head, url_tail, UrlNums) > 0
    <3>1. room[w] > 0 /\ room[w] <= RingRoom(url_head, url_tail, UrlNums)
      BY <1>4 DEF InsertLink, RingClaims
    <3>2. room[w] \in 0 .. UrlNums - 1
      BY DEF TypeOK
    <3>3. RingRoom(url_head, url_tail, UrlNums) \in 0 .. UrlNums - 1
      BY <1>0, RingRoomRange
    <3> QED BY <1>0, <3>1, <3>2, <3>3
  <2>4. ~RingFull(url_head, url_tail, UrlNums)
    BY <1>0, <2>3, RoomUnlessFull
  <2> QED BY <1>1, <1>4, <2>1, <2>2, <2>4 DEF InsertLink
<1>5. ASSUME Seed PROVE UrlFifo!Put \/ UNCHANGED UrlContents
  <2> DEFINE u == Head(start_list)
  <2>1. CASE Unwanted(u)
    BY <1>5, <2>1 DEF Seed, UrlContents
  <2>2. CASE ~Unwanted(u)
    <3>1. u \in Url
      BY <1>5, <2>2 DEF Seed, SeedMore, Unwanted, Blacklisted, TypeOK, Line
    <3> QED BY <1>1, <1>5, <2>2, <3>1 DEF Seed, SeedMore
  <2> QED BY <2>1, <2>2
<1>6. LeavesRing => UNCHANGED UrlContents
  BY DEF LeavesRing, urlRing, UrlContents
<1> QED BY <1>2, <1>3, <1>4, <1>5, <1>6, UrlRingSteps DEF UrlFifo!Next

\* The url ring is a first-in first-out queue of URLs that never holds more than
\* URL_NUMS - 1, loses, doubles or reorders none, for any number of workers, URLs and
\* slots and with every failure but an interrupt, under which it is not one: at_exit
\* takes URLs out without url_lock.
THEOREM UrlRingRefinesFifo == RunSpec => UrlRingIsFifo
<1>1. Init => UrlFifo!Init /\ RingClaims
  <2>1. RingUsed(0, 0, UrlNums) = 0
    BY RingSizesAssumption, RingUsedIs
  <2>2. ASSUME Init PROVE UrlContents = << >> /\ RingClaims
    BY <2>1, <2>2 DEF Init, UrlContents, RingContents, RingClaims
  <2> QED BY <2>2 DEF UrlFifo!Init
<1>2. HtmlInv /\ RingClaims /\ [RunNext]_vars => RingClaims'
  BY NextClaims DEF HtmlInv
<1>3. HtmlInv /\ RingClaims /\ [RunNext]_vars => [UrlFifo!Next]_UrlContents
  BY UrlRingMapsSteps DEF HtmlInv
<1> QED
  BY <1>1, <1>2, <1>3, RunsAreSpiders, HtmlInvariant, PTL
     DEF RunSpec, UrlRingIsFifo, UrlFifo!Spec
=============================================================================
