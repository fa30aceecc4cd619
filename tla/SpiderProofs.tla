---------------------------- MODULE SpiderProofs ----------------------------
(***************************************************************************)
(* The theorems about the spider, in four parts.                           *)
(*                                                                         *)
(* Rings: what the index arithmetic of a ring of N slots does, for every N.*)
(*                                                                         *)
(* Types: every step keeps them, one lemma per group of actions, one case  *)
(* per action, one step per variable that the action changes.  Two steps   *)
(* of the workers need more than TypeOK: a page is persisted or stored     *)
(* only where PageInHand says that there is one.                           *)
(*                                                                         *)
(* Locks: LockDiscipline is inductive together with TypeOK, one case per   *)
(* action of a worker; from it and the labels at which a worker takes a    *)
(* lock follows that no worker ever holds two.                             *)
(*                                                                         *)
(* Pages: HtmlInv is inductive; a page stays with its URL from the fetch,  *)
(* through the two copies into a slot of the html ring and the two copies  *)
(* out of it, to the index.                                                *)
(***************************************************************************)
EXTENDS Spider, FiniteSetTheorems, TLAPS

-----------------------------------------------------------------------------
(* Rings.                                                                  *)

\* (i + 1) % N is the next slot, and the first one after the last: what
\* every "= (... + 1) % URL_NUMS" of the workers and the master computes.
LEMMA RingNextIsNext ==
  ASSUME NEW N \in Nat, N >= 2, NEW i \in 0 .. N - 1
  PROVE  /\ RingNext(i, N) = IF i = N - 1 THEN 0 ELSE i + 1
         /\ RingNext(i, N) \in 0 .. N - 1
  BY DEF RingNext

\* The room a worker measures (crawl_worker.cc:269-275) leaves one slot unused.
LEMMA RingRoomRange ==
  ASSUME NEW N \in Nat, N >= 2, NEW h \in 0 .. N - 1, NEW t \in 0 .. N - 1
  PROVE  RingRoom(h, t, N) \in 0 .. N - 1
<1>1. CASE h = t
  BY <1>1 DEF RingRoom
<1>2. CASE h > t
  <2>1. (h - t + N) % N = h - t
    BY <1>2
  <2> QED BY <1>2, <2>1 DEF RingRoom
<1>3. CASE h < t
  <2>1. (h - t + N) % N = h - t + N
    BY <1>3
  <2> QED BY <1>3, <2>1 DEF RingRoom
<1> QED BY <1>1, <1>2, <1>3

\* A ring that is neither full nor measured to have no room is the same
\* thing: the test of the html ring and the count of the url ring agree.
LEMMA RoomUnlessFull ==
  ASSUME NEW N \in Nat, N >= 2, NEW h \in 0 .. N - 1, NEW t \in 0 .. N - 1
  PROVE  RingRoom(h, t, N) > 0 <=> ~RingFull(h, t, N)
<1>0. RingFull(h, t, N) <=> RingNext(t, N) = h
  BY DEF RingFull, RingNext
<1>1. CASE h = t
  BY <1>0, <1>1, RingNextIsNext DEF RingRoom
<1>2. CASE h > t
  <2>1. (h - t + N) % N = h - t
    BY <1>2
  <2> QED BY <1>0, <1>2, <2>1, RingNextIsNext DEF RingRoom
<1>3. CASE h < t
  <2>1. (h - t + N) % N = h - t + N
    BY <1>3
  <2> QED BY <1>0, <1>3, <2>1, RingNextIsNext DEF RingRoom
<1> QED BY <1>1, <1>2, <1>3

\* The slot at the head of a ring that is not empty is in use, and the slot
\* at the tail never is.
LEMMA RingEnds ==
  ASSUME NEW N \in Nat, NEW h \in 0 .. N - 1, NEW t \in 0 .. N - 1
  PROVE  /\ ~RingEmpty(h, t) => RingHolds(h, h, t)
         /\ ~RingHolds(t, h, t)
  BY DEF RingEmpty, RingHolds

\* Advancing the tail of a ring that is not full puts just the slot at the
\* tail in use.
LEMMA RingHoldsAfterPut ==
  ASSUME NEW N \in Nat, N >= 2, NEW h \in 0 .. N - 1, NEW t \in 0 .. N - 1,
         NEW i \in 0 .. N - 1,
         ~RingFull(h, t, N)
  PROVE  RingHolds(i, h, RingNext(t, N)) <=> RingHolds(i, h, t) \/ i = t
<1>1. RingNext(t, N) # h
  BY DEF RingFull, RingNext
<1> QED BY <1>1, RingNextIsNext DEF RingHolds

\* Advancing the head of a ring that is not empty takes just the slot at the
\* head out of use.
LEMMA RingHoldsAfterTake ==
  ASSUME NEW N \in Nat, N >= 2, NEW h \in 0 .. N - 1, NEW t \in 0 .. N - 1,
         NEW i \in 0 .. N - 1,
         ~RingEmpty(h, t)
  PROVE  RingHolds(i, RingNext(h, N), t) <=> RingHolds(i, h, t) /\ i # h
  BY RingNextIsNext DEF RingHolds, RingEmpty
-----------------------------------------------------------------------------
(* The contents of a ring as a sequence.                                   *)

LEMMA RingUsedIs ==
  ASSUME NEW N \in Nat, N >= 2, NEW h \in 0 .. N - 1, NEW t \in 0 .. N - 1
  PROVE  /\ RingUsed(h, t, N) = IF h <= t THEN t - h ELSE t - h + N
         /\ RingUsed(h, t, N) \in 0 .. N - 1
<1>1. CASE h <= t
  <2>1. (t - h + N) % N = t - h
    BY <1>1
  <2> QED BY <1>1, <2>1 DEF RingUsed
<1>2. CASE h > t
  <2>1. (t - h + N) % N = t - h + N
    BY <1>2
  <2> QED BY <1>2, <2>1 DEF RingUsed
<1> QED BY <1>1, <1>2

\* The slot k places behind the head, which is in use for the places of the
\* contents.
LEMMA SlotOfPlace ==
  ASSUME NEW N \in Nat, N >= 2, NEW h \in 0 .. N - 1, NEW k \in 1 .. N
  PROVE  (h + k - 1) % N = IF h + k - 1 < N THEN h + k - 1 ELSE h + k - 1 - N
<1>1. CASE h + k - 1 < N
  BY <1>1
<1>2. CASE h + k - 1 >= N
  <2>1. (h + k - 1) % N = h + k - 1 - N
    BY <1>2
  <2> QED BY <1>2, <2>1
<1> QED BY <1>1, <1>2

\* The places of the contents are not in the slot at the tail; the one behind them is.
LEMMA TailIsBehind ==
  ASSUME NEW N \in Nat, N >= 2, NEW h \in 0 .. N - 1, NEW t \in 0 .. N - 1
  PROVE  /\ \A k \in 1 .. RingUsed(h, t, N) : (h + k - 1) % N \in (0 .. N - 1) \ {t}
         /\ (h + RingUsed(h, t, N)) % N = t
<1> DEFINE n == RingUsed(h, t, N)
<1>1. n \in 0 .. N - 1 /\ n = IF h <= t THEN t - h ELSE t - h + N
  BY RingUsedIs
<1> HIDE DEF n
<1>2. ASSUME NEW k \in 1 .. n PROVE (h + k - 1) % N \in (0 .. N - 1) \ {t}
  <2> DEFINE slot == (h + k - 1) % N
  <2>1. k \in 1 .. N
    BY <1>1
  <2>2. slot = IF h + k - 1 < N THEN h + k - 1 ELSE h + k - 1 - N
    BY <2>1, SlotOfPlace
  <2> HIDE DEF slot
  <2>3. slot \in (0 .. N - 1) \ {t}
    BY <1>1, <2>2
  <2> QED BY <2>3 DEF slot
<1>3. (h + n) % N = t
  <2>1. CASE h <= t
    BY <1>1, <2>1
  <2>2. CASE h > t
    <3>1. h + n = t + N
      BY <1>1, <2>2
    <3>2. (t + N) % N = t
      OBVIOUS
    <3> QED BY <3>1, <3>2
  <2> QED BY <2>1, <2>2
<1> QED BY <1>2, <1>3 DEF n

LEMMA ContentsAreASequence ==
  ASSUME NEW N \in Nat, N >= 2, NEW h \in 0 .. N - 1, NEW t \in 0 .. N - 1,
         NEW S, NEW slots \in [0 .. N - 1 -> S]
  PROVE  /\ RingContents(slots, h, t, N) \in Seq(S)
         /\ Len(RingContents(slots, h, t, N)) = RingUsed(h, t, N)
         /\ \A k \in 1 .. RingUsed(h, t, N) :
              /\ (h + k - 1) % N \in 0 .. N - 1
              /\ RingContents(slots, h, t, N)[k] = slots[(h + k - 1) % N]
<1> DEFINE n == RingUsed(h, t, N)
<1>1. n \in 0 .. N - 1
  BY RingUsedIs
<1> HIDE DEF n
<1>2. \A k \in 1 .. n : (h + k - 1) % N \in 0 .. N - 1
  BY <1>1, SlotOfPlace
<1>3. \A k \in 1 .. n : slots[(h + k - 1) % N] \in S
  BY <1>2
<1>4. RingContents(slots, h, t, N) = [k \in 1 .. n |-> slots[(h + k - 1) % N]]
  BY DEF RingContents, n
<1> DEFINE s == [k \in 1 .. n |-> slots[(h + k - 1) % N]]
<1>5. s \in [1 .. n -> S]
  BY <1>3
<1>6. s \in Seq(S) /\ Len(s) = n
  BY <1>1, <1>5
<1> QED BY <1>2, <1>4, <1>6 DEF n

\* Writing into the slot at the tail, which is not in use, changes no element.
LEMMA ContentsWithoutTail ==
  ASSUME NEW N \in Nat, N >= 2, NEW h \in 0 .. N - 1, NEW t \in 0 .. N - 1,
         NEW S, NEW slots \in [0 .. N - 1 -> S], NEW e
  PROVE  RingContents([slots EXCEPT ![t] = e], h, t, N) = RingContents(slots, h, t, N)
<1>1. \A k \in 1 .. RingUsed(h, t, N) : (h + k - 1) % N \in (0 .. N - 1) \ {t}
  BY TailIsBehind
<1> QED BY <1>1 DEF RingContents

\* Element e, written into the slot at the tail, is behind all others once the
\* tail is advanced.
PutsBehind(slots, h, t, N, e) ==
  /\ Len(RingContents(slots, h, t, N)) < N - 1
  /\ RingContents([slots EXCEPT ![t] = e], h, RingNext(t, N), N)
       = Append(RingContents(slots, h, t, N), e)

\* Writing into the slot at the tail of a ring that is not full, and advancing
\* the tail, appends what was written.
LEMMA ContentsAfterPut ==
  ASSUME NEW N \in Nat, N >= 2, NEW h \in 0 .. N - 1, NEW t \in 0 .. N - 1,
         NEW S, NEW slots \in [0 .. N - 1 -> S], NEW e \in S,
         ~RingFull(h, t, N)
  PROVE  PutsBehind(slots, h, t, N, e)
<1> DEFINE n == RingUsed(h, t, N)
           old == RingContents(slots, h, t, N)
           new == RingContents([slots EXCEPT ![t] = e], h, RingNext(t, N), N)
<1>1. RingNext(t, N) # h
  BY DEF RingFull, RingNext
<1>2. /\ n \in 0 .. N - 2
      /\ RingUsed(h, RingNext(t, N), N) = n + 1
  <2> DEFINE next == RingNext(t, N)
  <2>1. next \in 0 .. N - 1 /\ next = IF t = N - 1 THEN 0 ELSE t + 1
    BY RingNextIsNext
  <2>2. n = IF h <= t THEN t - h ELSE t - h + N
    BY RingUsedIs
  <2> HIDE DEF next, n
  <2>3. RingUsed(h, next, N) = IF h <= next THEN next - h ELSE next - h + N
    BY <2>1, RingUsedIs
  <2>4. n \in 0 .. N - 2 /\ RingUsed(h, next, N) = n + 1
    BY <1>1, <2>1, <2>2, <2>3 DEF next
  <2> QED BY <2>4 DEF next, n
<1>3. (h + n) % N = t
  BY TailIsBehind
<1>4. \A k \in 1 .. n : (h + k - 1) % N \in (0 .. N - 1) \ {t}
  BY TailIsBehind
<1>5. old \in Seq(S) /\ Len(old) = n
  BY ContentsAreASequence
<1>6. \A k \in 1 .. n : old[k] = slots[(h + k - 1) % N]
  BY DEF RingContents
<1>7. new = [k \in 1 .. n + 1 |-> [slots EXCEPT ![t] = e][(h + k - 1) % N]]
  BY <1>2 DEF RingContents
<1> HIDE DEF n, old, new
<1>8. /\ Append(old, e) \in [1 .. n + 1 -> S]
      /\ \A k \in 1 .. n + 1 : Append(old, e)[k] = IF k = n + 1 THEN e ELSE old[k]
  <2>1. Append(old, e) \in Seq(S) /\ Len(Append(old, e)) = n + 1
    BY <1>2, <1>5
  <2>2. \A k \in 1 .. n : Append(old, e)[k] = old[k]
    BY <1>2, <1>5
  <2>3. Append(old, e)[n + 1] = e
    BY <1>2, <1>5
  <2>4. \A k \in 1 .. n + 1 : k = n + 1 \/ k \in 1 .. n
    BY <1>2
  <2> DEFINE a == Append(old, e)
  <2> HIDE DEF a
  <2>5. a \in Seq(S) /\ Len(a) = n + 1
    BY <2>1 DEF a
  <2>6. a \in [1 .. n + 1 -> S]
    BY <2>5
  <2> QED BY <2>2, <2>3, <2>4, <2>6 DEF a
<1>9. ASSUME NEW k \in 1 .. n + 1
      PROVE  [slots EXCEPT ![t] = e][(h + k - 1) % N] = IF k = n + 1 THEN e ELSE old[k]
  <2>1. CASE k = n + 1
    <3>1. h + k - 1 = h + n
      BY <1>2, <2>1
    <3> QED BY <1>3, <2>1, <3>1
  <2>2. CASE k # n + 1
    <3>1. k \in 1 .. n
      BY <1>2, <2>2
    <3> QED BY <1>4, <1>6, <2>2, <3>1
  <2> QED BY <2>1, <2>2
<1>10. new = Append(old, e)
  BY <1>7, <1>8, <1>9
<1>11. Len(old) < N - 1
  BY <1>2, <1>5
<1> QED BY <1>10, <1>11 DEF old, new, PutsBehind

\* Advancing the head of a ring that is not empty takes its first element away.
LEMMA ContentsAfterTake ==
  ASSUME NEW N \in Nat, N >= 2, NEW h \in 0 .. N - 1, NEW t \in 0 .. N - 1,
         NEW S, NEW slots \in [0 .. N - 1 -> S],
         ~RingEmpty(h, t)
  PROVE  /\ RingContents(slots, h, t, N) # << >>
         /\ RingContents(slots, RingNext(h, N), t, N) = Tail(RingContents(slots, h, t, N))
<1> DEFINE n == RingUsed(h, t, N)
           old == RingContents(slots, h, t, N)
           new == RingContents(slots, RingNext(h, N), t, N)
<1>1. /\ n \in 1 .. N - 1
      /\ RingUsed(RingNext(h, N), t, N) = n - 1
  <2> DEFINE next == RingNext(h, N)
  <2>1. next \in 0 .. N - 1 /\ next = IF h = N - 1 THEN 0 ELSE h + 1
    BY RingNextIsNext
  <2>2. n = IF h <= t THEN t - h ELSE t - h + N
    BY RingUsedIs
  <2> HIDE DEF next, n
  <2>3. RingUsed(next, t, N) = IF next <= t THEN t - next ELSE t - next + N
    BY <2>1, RingUsedIs
  <2>4. n \in 1 .. N - 1 /\ RingUsed(next, t, N) = n - 1
    BY <2>1, <2>2, <2>3 DEF RingEmpty
  <2> QED BY <2>4 DEF next, n
<1>2. \A k \in 1 .. n - 1 : (RingNext(h, N) + k - 1) % N = (h + (k + 1) - 1) % N
  <2> SUFFICES ASSUME NEW k \in 1 .. n - 1
               PROVE  (RingNext(h, N) + k - 1) % N = (h + (k + 1) - 1) % N
    OBVIOUS
  <2>1. CASE h = N - 1
    <3>1. RingNext(h, N) = 0 /\ k \in 0 .. N - 1
      BY <1>1, <2>1, RingNextIsNext
    <3>2. (0 + k - 1) % N = k - 1
      BY <1>1
    <3>3. (h + (k + 1) - 1) % N = k - 1
      <4>1. k + 1 \in 1 .. N
        BY <1>1
      <4>2. h + (k + 1) - 1 = k + N - 1
        BY <2>1
      <4> QED BY <2>1, <4>1, <4>2, SlotOfPlace
    <3> QED BY <3>1, <3>2, <3>3
  <2>2. CASE h # N - 1
    <3>1. RingNext(h, N) = h + 1
      BY <2>2, RingNextIsNext
    <3>2. (h + 1) + k - 1 = h + (k + 1) - 1
      OBVIOUS
    <3> QED BY <3>1, <3>2
  <2> QED BY <2>1, <2>2
<1>3. old \in Seq(S) /\ Len(old) = n
  BY ContentsAreASequence
<1>4. \A k \in 1 .. n : old[k] = slots[(h + k - 1) % N]
  BY DEF RingContents
<1>5. new = [k \in 1 .. n - 1 |-> slots[(RingNext(h, N) + k - 1) % N]]
  BY <1>1 DEF RingContents
<1> HIDE DEF n, old, new
<1>6. old # << >> /\ Tail(old) = [k \in 1 .. n - 1 |-> old[k + 1]]
  BY <1>1, <1>3
<1>7. \A k \in 1 .. n - 1 : k + 1 \in 1 .. n
  BY <1>1
<1>8. \A k \in 1 .. n - 1 : slots[(RingNext(h, N) + k - 1) % N] = old[k + 1]
  BY <1>2, <1>4, <1>7
<1> QED BY <1>5, <1>6, <1>8 DEF old, new

-----------------------------------------------------------------------------
(* Types.                                                                  *)

\* The initial state, as master.cc leaves the segment, has the types.
LEMMA InitTypes == Init => TypeOK
<1> SUFFICES ASSUME Init PROVE TypeOK
  OBVIOUS
<1> USE RingSizesAssumption, WebAssumption, EnvironmentAssumption DEF Init
<1>1. /\ url_queue \in [0 .. UrlNums - 1 -> Line]
      /\ html_queue \in [0 .. HtmlNums - 1 -> [url : Line, page : Page \cup {NoPage}]]
  BY DEF Line
<1>2. lock \in [LockName -> Worker \cup {NoOne}]
  OBVIOUS
<1>3. read_list \in Seq(Line) /\ start_list \in Seq(Line) /\ master_url \in Line
  BY DEF Line
<1>4. found \subseteq Line
  BY DEF LinesOf, Line
<1>5. pc \in [Worker -> Label] /\ mpc \in MasterLabel
  BY DEF Label, MasterLabel
<1>6. /\ work_url \in [Worker -> Line] /\ has_url \in [Worker -> BOOLEAN]
      /\ page \in [Worker -> Page \cup {NoPage}]
      /\ links \in [Worker -> SUBSET Url] /\ kept \in [Worker -> SUBSET Url]
      /\ room \in [Worker -> 0 .. UrlNums - 1] /\ sockets \in [Worker -> 0 .. FdLimit]
  BY DEF Line
<1>7. /\ url_head \in 0 .. UrlNums - 1 /\ url_tail \in 0 .. UrlNums - 1
      /\ html_head \in 0 .. HtmlNums - 1 /\ html_tail \in 0 .. HtmlNums - 1
  OBVIOUS
<1>8. /\ removed \in BOOLEAN /\ write_list \subseteq Line /\ visited \subseteq Line
      /\ nice0 \subseteq Line /\ indexed \subseteq Line \X (Page \cup {NoPage})
      /\ pending \subseteq Worker
  OBVIOUS
<1> HIDE DEF Init
<1> QED BY <1>1, <1>2, <1>3, <1>4, <1>5, <1>6, <1>7, <1>8 DEF TypeOK

\* A worker opens a socket only while it has a descriptor left.
LEMMA SocketTypes ==
  ASSUME TypeOK, NEW w \in Worker, ~OutOfDescriptors(w), OpenSocket(w)
  PROVE  sockets' \in [Worker -> 0 .. FdLimit]
  BY EnvironmentAssumption DEF TypeOK, OutOfDescriptors, OpenSocket, Set

\* Getting a URL from the url ring keeps the types.
LEMMA TakeUrlTypes ==
  ASSUME TypeOK, NEW w \in Worker,
         UrlRingEmpty(w) \/ CopyUrl(w) \/ AdvanceUrl(w)
  PROVE  TypeOK'
<1> USE RingSizesAssumption, WebAssumption, EnvironmentAssumption
        DEF TypeOK, urlRing, htmlRing, files, database, master, locals
<1>1. CASE UrlRingEmpty(w)
  <2>1. pc' \in [Worker -> Label]
    BY <1>1 DEF UrlRingEmpty, Goto, Label, UrlSection, HtmlSection, ListSection
  <2>2. lock' \in [LockName -> Worker \cup {NoOne}]
    BY <1>1 DEF UrlRingEmpty, Release, LockName
  <2> QED BY <1>1, <2>1, <2>2 DEF UrlRingEmpty
<1>2. CASE CopyUrl(w)
  <2>1. pc' \in [Worker -> Label]
    BY <1>2 DEF CopyUrl, Goto, Label, UrlSection, HtmlSection, ListSection
  <2>2. work_url' \in [Worker -> Line]
    BY <1>2 DEF CopyUrl, Set
  <2> QED BY <1>2, <2>1, <2>2 DEF CopyUrl
<1>3. CASE AdvanceUrl(w)
  <2>1. pc' \in [Worker -> Label]
    BY <1>3 DEF AdvanceUrl, Goto, Label, UrlSection, HtmlSection, ListSection
  <2>2. lock' \in [LockName -> Worker \cup {NoOne}]
    BY <1>3 DEF AdvanceUrl, Release, LockName
  <2>3. url_head' \in 0 .. UrlNums - 1
    BY <1>3, RingNextIsNext DEF AdvanceUrl
  <2> QED BY <1>3, <2>1, <2>2, <2>3 DEF AdvanceUrl
<1> QED BY <1>1, <1>2, <1>3

\* Getting a URL from the read url file keeps the types.
LEMMA ReadUrlTypes ==
  ASSUME TypeOK, NEW w \in Worker,
         LockList(w) \/ ReadUrlOpenFails(w) \/ ReadNoLine(w) \/ ReadLine(w)
         \/ CutLine(w)
  PROVE  TypeOK'
<1> USE RingSizesAssumption, WebAssumption, EnvironmentAssumption
        DEF TypeOK, urlRing, htmlRing, files, database, master, locals
<1>1. CASE LockList(w)
  <2>1. pc' \in [Worker -> Label]
    BY <1>1 DEF LockList, Goto, Label, UrlSection, HtmlSection, ListSection
  <2>2. lock' \in [LockName -> Worker \cup {NoOne}]
    BY <1>1 DEF LockList, Acquire, LockName
  <2> QED BY <1>1, <2>1, <2>2 DEF LockList
<1>2. CASE ReadUrlOpenFails(w)
  BY <1>2 DEF ReadUrlOpenFails, Goto, Label, UrlSection, HtmlSection, ListSection
<1>3. CASE ReadNoLine(w)
  <2>1. pc' \in [Worker -> Label]
    BY <1>3 DEF ReadNoLine, Goto, Label, UrlSection, HtmlSection, ListSection
  <2>2. lock' \in [LockName -> Worker \cup {NoOne}]
    BY <1>3 DEF ReadNoLine, Release, LockName
  <2> QED BY <1>3, <2>1, <2>2 DEF ReadNoLine
<1>4. CASE ReadLine(w)
  <2>1. pc' \in [Worker -> Label]
    BY <1>4 DEF ReadLine, Goto, Label, UrlSection, HtmlSection, ListSection
  <2>2. work_url' \in [Worker -> Line]
    BY <1>4 DEF ReadLine, Set, FirstLine, Line
  <2> QED BY <1>4, <2>1, <2>2 DEF ReadLine
<1>5. CASE CutLine(w)
  <2>1. pc' \in [Worker -> Label]
    BY <1>5 DEF CutLine, Goto, Label, UrlSection, HtmlSection, ListSection
  <2>2. lock' \in [LockName -> Worker \cup {NoOne}]
    BY <1>5 DEF CutLine, Release, LockName
  <2>3. read_list' \in Seq(Line)
    BY <1>5 DEF CutLine
  <2> QED BY <1>5, <2>1, <2>2, <2>3 DEF CutLine
<1> QED BY <1>1, <1>2, <1>3, <1>4, <1>5

\* Choosing and fetching a page keeps the types; sockets never exceeds FdLimit.
LEMMA FetchTypes ==
  ASSUME TypeOK, NEW w \in Worker,
         SkipUnwanted(w) \/ AcceptUrl(w) \/ FetchFails(w)
  PROVE  TypeOK'
<1> USE RingSizesAssumption, WebAssumption, EnvironmentAssumption
        DEF TypeOK, urlRing, htmlRing, files, database, master, locals
<1>1. CASE SkipUnwanted(w)
  <2>1. pc' \in [Worker -> Label]
    BY <1>1 DEF SkipUnwanted, Goto, Label, UrlSection, HtmlSection, ListSection
  <2>2. has_url' \in [Worker -> BOOLEAN]
    BY <1>1 DEF SkipUnwanted, Set
  <2> QED BY <1>1, <2>1, <2>2 DEF SkipUnwanted
<1>2. CASE AcceptUrl(w)
  <2>1. pc' \in [Worker -> Label]
    BY <1>2 DEF AcceptUrl, Goto, Label, UrlSection, HtmlSection, ListSection
  <2>2. has_url' \in [Worker -> BOOLEAN]
    BY <1>2 DEF AcceptUrl, Set
  <2> QED BY <1>2, <2>1, <2>2 DEF AcceptUrl
<1>3. CASE FetchFails(w)
  <2>1. pc' \in [Worker -> Label]
    BY <1>3 DEF FetchFails, Goto, Label, UrlSection, HtmlSection, ListSection
  <2>2. nice0' \subseteq Line
    BY <1>3 DEF FetchFails
  <2>3. sockets' \in [Worker -> 0 .. FdLimit]
    <3>1. CASE UNCHANGED sockets
      BY <3>1
    <3>2. CASE ~OutOfDescriptors(w) /\ OpenSocket(w)
      BY <3>2, SocketTypes
    <3> QED BY <1>3, <3>1, <3>2 DEF FetchFails
  <2> QED BY <1>3, <2>1, <2>2, <2>3 DEF FetchFails
<1> QED BY <1>1, <1>2, <1>3

\* A fetched page is a Page, wherever the worker goes on with it.
LEMMA FetchSucceedsTypes ==
  ASSUME TypeOK, NEW w \in Worker, NEW next \in Label, FetchSucceeds(w, next)
  PROVE  TypeOK'
<1> USE RingSizesAssumption, WebAssumption, EnvironmentAssumption
        DEF TypeOK, urlRing, htmlRing, files, database, master, locals
<1>1. pc' \in [Worker -> Label]
  BY DEF FetchSucceeds, Goto
<1>2. sockets' \in [Worker -> 0 .. FdLimit]
  BY SocketTypes DEF FetchSucceeds
<1>3. page' \in [Worker -> Page \cup {NoPage}]
  BY DEF FetchSucceeds, Set, Page
<1> QED BY <1>1, <1>2, <1>3 DEF FetchSucceeds

\* Persisting a page and filtering its links keeps the types.
LEMMA PersistTypes ==
  ASSUME TypeOK, PageInHand, NEW w \in Worker,
         MarkVisited(w) \/ IndexingFails(w) \/ IndexPage(w) \/ FilterLink(w)
         \/ NoLinkLeft(w)
  PROVE  TypeOK'
<1> USE RingSizesAssumption, WebAssumption, EnvironmentAssumption
        DEF TypeOK, urlRing, htmlRing, files, database, master, locals
<1>1. CASE MarkVisited(w)
  <2>1. pc' \in [Worker -> Label]
    BY <1>1 DEF MarkVisited, Goto, Label, UrlSection, HtmlSection, ListSection
  <2>2. visited' \subseteq Line
    BY <1>1 DEF MarkVisited
  <2> QED BY <1>1, <2>1, <2>2 DEF MarkVisited
<1>2. CASE IndexingFails(w)
  BY <1>2 DEF IndexingFails, Goto, Label, UrlSection, HtmlSection, ListSection
<1>3. CASE IndexPage(w)
  <2>1. pc' \in [Worker -> Label]
    BY <1>3 DEF IndexPage, Goto, Label, UrlSection, HtmlSection, ListSection
  <2>2. indexed' \subseteq (Line \X (Page \cup {NoPage}))
    BY <1>3 DEF IndexPage
  <2>3. links' \in [Worker -> SUBSET Url]
    <3>1. page[w] \in Page
      BY <1>3 DEF IndexPage, PageInHand, PageLabels
    <3>2. LinksOf(page[w]) \in SUBSET Url
      BY <3>1 DEF LinksOf, Page
    <3> QED BY <1>3, <3>2 DEF IndexPage, Set
  <2>4. page' \in [Worker -> Page \cup {NoPage}]
    BY <1>3 DEF IndexPage, Set
  <2> QED BY <1>3, <2>1, <2>2, <2>3, <2>4 DEF IndexPage
<1>4. CASE FilterLink(w)
  <2>1. links' \in [Worker -> SUBSET Url]
    BY <1>4 DEF FilterLink, Set
  <2>2. kept' \in [Worker -> SUBSET Url]
    BY <1>4 DEF FilterLink, Set
  <2>3. found' \subseteq Line
    BY <1>4 DEF FilterLink, Line
  <2> QED BY <1>4, <2>1, <2>2, <2>3 DEF FilterLink
<1>5. CASE NoLinkLeft(w)
  BY <1>5 DEF NoLinkLeft, Goto, Label, UrlSection, HtmlSection, ListSection
<1> QED BY <1>1, <1>2, <1>3, <1>4, <1>5

\* Handing out links keeps the types.
LEMMA HandOutTypes ==
  ASSUME TypeOK, NEW w \in Worker,
         LockUrlToInsert(w) \/ MeasureRoom(w) \/ InsertLink(w) \/
         InsertEnds(w) \/ WriteUrlOpenFails(w) \/ Spill(w) \/ Attach(w)
  PROVE  TypeOK'
<1> USE RingSizesAssumption, WebAssumption, EnvironmentAssumption
        DEF TypeOK, urlRing, htmlRing, files, database, master, locals
<1>1. CASE LockUrlToInsert(w)
  <2>1. pc' \in [Worker -> Label]
    BY <1>1 DEF LockUrlToInsert, Goto, Label, UrlSection, HtmlSection, ListSection
  <2>2. lock' \in [LockName -> Worker \cup {NoOne}]
    BY <1>1 DEF LockUrlToInsert, Acquire, LockName
  <2> QED BY <1>1, <2>1, <2>2 DEF LockUrlToInsert
<1>2. CASE MeasureRoom(w)
  <2>1. pc' \in [Worker -> Label]
    BY <1>2 DEF MeasureRoom, Goto, Label, UrlSection, HtmlSection, ListSection
  <2>2. room' \in [Worker -> 0 .. UrlNums - 1]
    <3>1. RingRoom(url_head, url_tail, UrlNums) \in 0 .. UrlNums - 1
      BY RingRoomRange
    <3>2. Cardinality(kept[w]) \in Nat
      BY FS_Subset, FS_CardinalityType
    <3> QED BY <1>2, <3>1, <3>2 DEF MeasureRoom, Set, Smaller
  <2> QED BY <1>2, <2>1, <2>2 DEF MeasureRoom
<1>3. CASE InsertLink(w)
  <2>1. url_queue' \in [0 .. UrlNums - 1 -> Line]
    BY <1>3 DEF InsertLink, Line
  <2>2. url_tail' \in 0 .. UrlNums - 1
    BY <1>3, RingNextIsNext DEF InsertLink
  <2>3. kept' \in [Worker -> SUBSET Url]
    BY <1>3 DEF InsertLink, Set
  <2>4. room' \in [Worker -> 0 .. UrlNums - 1]
    BY <1>3 DEF InsertLink, Set
  <2> QED BY <1>3, <2>1, <2>2, <2>3, <2>4 DEF InsertLink
<1>4. CASE InsertEnds(w)
  <2>1. pc' \in [Worker -> Label]
    BY <1>4 DEF InsertEnds, Goto, Label, UrlSection, HtmlSection, ListSection
  <2>2. lock' \in [LockName -> Worker \cup {NoOne}]
    BY <1>4 DEF InsertEnds, Release, LockName
  <2> QED BY <1>4, <2>1, <2>2 DEF InsertEnds
<1>5. CASE WriteUrlOpenFails(w)
  BY <1>5 DEF WriteUrlOpenFails, Goto, Label, UrlSection, HtmlSection, ListSection
<1>6. CASE Spill(w)
  <2>1. pc' \in [Worker -> Label]
    BY <1>6 DEF Spill, Goto, Label, UrlSection, HtmlSection, ListSection
  <2>2. write_list' \subseteq Line
    BY <1>6 DEF Spill, Line
  <2>3. kept' \in [Worker -> SUBSET Url]
    BY <1>6 DEF Spill, Set
  <2> QED BY <1>6, <2>1, <2>2, <2>3 DEF Spill
<1>7. CASE Attach(w)
  BY <1>7 DEF Attach, Goto, Label, UrlSection, HtmlSection, ListSection
<1> QED BY <1>1, <1>2, <1>3, <1>4, <1>5, <1>6, <1>7

\* The steps only a crawl worker takes keep the types.
LEMMA CrawlTypes ==
  ASSUME TypeOK, PageInHand, NEW w \in Worker,
         CrawlOwnUrl(w) \/ CrawlLockUrl(w) \/ CrawlLockHtml(w) \/
         HtmlRingFull(w) \/ StoreUrl(w) \/ StorePage(w) \/ KeepOneLink(w)
  PROVE  TypeOK'
<1> USE RingSizesAssumption, WebAssumption, EnvironmentAssumption
        DEF TypeOK, urlRing, htmlRing, files, database, master, locals
<1>1. CASE CrawlOwnUrl(w)
  BY <1>1 DEF CrawlOwnUrl, Goto, Label, UrlSection, HtmlSection, ListSection
<1>2. CASE CrawlLockUrl(w)
  <2>1. pc' \in [Worker -> Label]
    BY <1>2 DEF CrawlLockUrl, Goto, Label, UrlSection, HtmlSection, ListSection
  <2>2. lock' \in [LockName -> Worker \cup {NoOne}]
    BY <1>2 DEF CrawlLockUrl, Acquire, LockName
  <2> QED BY <1>2, <2>1, <2>2 DEF CrawlLockUrl
<1>3. CASE CrawlLockHtml(w)
  <2>1. pc' \in [Worker -> Label]
    BY <1>3 DEF CrawlLockHtml, Goto, Label, UrlSection, HtmlSection, ListSection
  <2>2. lock' \in [LockName -> Worker \cup {NoOne}]
    BY <1>3 DEF CrawlLockHtml, Acquire, LockName
  <2> QED BY <1>3, <2>1, <2>2 DEF CrawlLockHtml
<1>4. CASE HtmlRingFull(w)
  <2>1. pc' \in [Worker -> Label]
    BY <1>4 DEF HtmlRingFull, Goto, Label, UrlSection, HtmlSection, ListSection
  <2>2. lock' \in [LockName -> Worker \cup {NoOne}]
    BY <1>4 DEF HtmlRingFull, Release, LockName
  <2> QED BY <1>4, <2>1, <2>2 DEF HtmlRingFull
<1>5. CASE StoreUrl(w)
  <2>1. pc' \in [Worker -> Label]
    BY <1>5 DEF StoreUrl, Goto, Label, UrlSection, HtmlSection, ListSection
  <2>2. html_queue' \in [0 .. HtmlNums - 1 -> [url : Line, page : Page \cup {NoPage}]]
    BY <1>5 DEF StoreUrl, Set
  <2> QED BY <1>5, <2>1, <2>2 DEF StoreUrl
<1>6. CASE StorePage(w)
  <2>1. pc' \in [Worker -> Label]
    BY <1>6 DEF StorePage, Goto, Label, UrlSection, HtmlSection, ListSection
  <2>2. lock' \in [LockName -> Worker \cup {NoOne}]
    BY <1>6 DEF StorePage, Release, LockName
  <2>3. html_queue' \in [0 .. HtmlNums - 1 -> [url : Line, page : Page \cup {NoPage}]]
    <3>1. page[w] \in Page
      BY <1>6 DEF StorePage, PageInHand, PageLabels
    <3>2. Stored(page[w]) \in Page
      BY <3>1 DEF Stored, Page
    <3> QED BY <1>6, <3>2 DEF StorePage, Set
  <2>4. html_tail' \in 0 .. HtmlNums - 1
    BY <1>6, RingNextIsNext DEF StorePage
  <2>5. page' \in [Worker -> Page \cup {NoPage}]
    BY <1>6 DEF StorePage, Set
  <2> QED BY <1>6, <2>1, <2>2, <2>3, <2>4, <2>5 DEF StorePage
<1>7. CASE KeepOneLink(w)
  <2>1. pc' \in [Worker -> Label]
    BY <1>7 DEF KeepOneLink, Goto, Label, UrlSection, HtmlSection, ListSection
  <2>2. work_url' \in [Worker -> Line]
    BY <1>7 DEF KeepOneLink, Set, Line
  <2>3. kept' \in [Worker -> SUBSET Url]
    BY <1>7 DEF KeepOneLink, Set
  <2>4. has_url' \in [Worker -> BOOLEAN]
    BY <1>7 DEF KeepOneLink, Set
  <2> QED BY <1>7, <2>1, <2>2, <2>3, <2>4 DEF KeepOneLink
<1> QED BY <1>1, <1>2, <1>3, <1>4, <1>5, <1>6, <1>7

\* The steps only a parse worker takes keep the types.
LEMMA ParseTypes ==
  ASSUME TypeOK, NEW w \in Worker,
         ParseLockHtml(w) \/ HtmlRingEmpty(w) \/ LoadUrl(w) \/ LoadPage(w) \/
         ParseLockUrl(w) \/ KeepAllLinks(w)
  PROVE  TypeOK'
<1> USE RingSizesAssumption, WebAssumption, EnvironmentAssumption
        DEF TypeOK, urlRing, htmlRing, files, database, master, locals
<1>1. CASE ParseLockHtml(w)
  <2>1. pc' \in [Worker -> Label]
    BY <1>1 DEF ParseLockHtml, Goto, Label, UrlSection, HtmlSection, ListSection
  <2>2. lock' \in [LockName -> Worker \cup {NoOne}]
    BY <1>1 DEF ParseLockHtml, Acquire, LockName
  <2> QED BY <1>1, <2>1, <2>2 DEF ParseLockHtml
<1>2. CASE HtmlRingEmpty(w)
  <2>1. pc' \in [Worker -> Label]
    BY <1>2 DEF HtmlRingEmpty, Goto, Label, UrlSection, HtmlSection, ListSection
  <2>2. lock' \in [LockName -> Worker \cup {NoOne}]
    BY <1>2 DEF HtmlRingEmpty, Release, LockName
  <2> QED BY <1>2, <2>1, <2>2 DEF HtmlRingEmpty
<1>3. CASE LoadUrl(w)
  <2>1. pc' \in [Worker -> Label]
    BY <1>3 DEF LoadUrl, Goto, Label, UrlSection, HtmlSection, ListSection
  <2>2. work_url' \in [Worker -> Line]
    BY <1>3 DEF LoadUrl, Set
  <2> QED BY <1>3, <2>1, <2>2 DEF LoadUrl
<1>4. CASE LoadPage(w)
  <2>1. pc' \in [Worker -> Label]
    BY <1>4 DEF LoadPage, Goto, Label, UrlSection, HtmlSection, ListSection
  <2>2. lock' \in [LockName -> Worker \cup {NoOne}]
    BY <1>4 DEF LoadPage, Release, LockName
  <2>3. page' \in [Worker -> Page \cup {NoPage}]
    BY <1>4 DEF LoadPage, Set
  <2>4. html_head' \in 0 .. HtmlNums - 1
    BY <1>4, RingNextIsNext DEF LoadPage
  <2> QED BY <1>4, <2>1, <2>2, <2>3, <2>4 DEF LoadPage
<1>5. CASE ParseLockUrl(w)
  <2>1. pc' \in [Worker -> Label]
    BY <1>5 DEF ParseLockUrl, Goto, Label, UrlSection, HtmlSection, ListSection
  <2>2. lock' \in [LockName -> Worker \cup {NoOne}]
    BY <1>5 DEF ParseLockUrl, Acquire, LockName
  <2> QED BY <1>5, <2>1, <2>2 DEF ParseLockUrl
<1>6. CASE KeepAllLinks(w)
  BY <1>6 DEF KeepAllLinks, Goto, Label, UrlSection, HtmlSection, ListSection
<1> QED BY <1>1, <1>2, <1>3, <1>4, <1>5, <1>6

\* The master's steps, and the signals it sends, keep the types.
LEMMA MasterTypes ==
  ASSUME TypeOK,
         \/ MasterStarts \/ Interrupt \/ AtExit
         \/ \E w \in Worker : TakeInterrupt(w)
  PROVE  TypeOK'
<1> USE RingSizesAssumption, WebAssumption, EnvironmentAssumption
        DEF TypeOK, urlRing, htmlRing, files, database, master, workers, locals
<1>1. CASE Seed
  <2>1. start_list' \in Seq(Line) /\ Head(start_list) \in Line
    BY <1>1 DEF Seed, SeedMore
  <2>2. url_queue' \in [0 .. UrlNums - 1 -> Line]
    BY <1>1, <2>1 DEF Seed
  <2>3. url_tail' \in 0 .. UrlNums - 1
    BY <1>1, RingNextIsNext DEF Seed
  <2>4. found' \subseteq Line
    BY <1>1, <2>1 DEF Seed
  <2> QED BY <1>1, <2>1, <2>2, <2>3, <2>4 DEF Seed
<1>2. CASE SeedEnds \/ SpawnEnds \/ Interrupt
  BY <1>2 DEF SeedEnds, SpawnEnds, Interrupt, MasterLabel, Unborn
<1>3. ASSUME NEW w \in Worker, Spawn(w) \/ DieOfInterrupt(w) PROVE TypeOK'
  <2>1. pc' \in [Worker -> Label]
    BY <1>3 DEF Spawn, DieOfInterrupt, Goto, Label
  <2> QED BY <1>3, <2>1 DEF Spawn, DieOfInterrupt
<1>4. CASE AtExit
  <2>1. url_head' \in 0 .. UrlNums - 1
    BY <1>4, RingNextIsNext
       DEF AtExit, DrainOpenFails, DrainOpens, DrainCopy, DrainAdvance, DrainEnds,
           KillWorkers
  <2>2. CASE DrainAdvance
    BY <2>1, <2>2 DEF DrainAdvance, MasterLabel
  <2>3. CASE ~DrainAdvance
    <3>1. CASE DrainOpenFails \/ DrainOpens \/ DrainEnds
      BY <3>1 DEF DrainOpenFails, DrainOpens, DrainEnds, MasterLabel
    <3>2. CASE DrainCopy
      BY <3>2 DEF DrainCopy, MasterLabel
    <3>3. CASE KillWorkers
      BY <3>3 DEF KillWorkers, MasterLabel, Unborn
    <3> QED BY <1>4, <2>3, <3>1, <3>2, <3>3 DEF AtExit
  <2> QED BY <2>2, <2>3
<1>5. ASSUME NEW w \in Worker, SurviveInterrupt(w) PROVE TypeOK'
  <2>1. pc' \in [Worker -> Label]
    BY <1>5 DEF SurviveInterrupt, Goto, Label
  <2>2. lock' \in [LockName -> Worker \cup {NoOne}]
    BY <1>5 DEF SurviveInterrupt, Release, LockName
  <2> QED BY <1>5, <2>1, <2>2 DEF SurviveInterrupt
<1> QED BY <1>1, <1>2, <1>3, <1>4, <1>5 DEF MasterStarts, TakeInterrupt

-----------------------------------------------------------------------------
(* Locks.                                                                  *)

\* Getting a URL from the url ring keeps the lock discipline.
LEMMA TakeLocks ==
  ASSUME TypeOK, LockDiscipline, NEW w \in Worker,
         UrlRingEmpty(w) \/ CopyUrl(w) \/ AdvanceUrl(w)
  PROVE  LockDiscipline'
<1> USE WorkersAssumption DEF TypeOK, LockDiscipline, LockName, Guards,
        UrlSection, HtmlSection, ListSection, Worker
<1>1. CASE UrlRingEmpty(w)
  BY <1>1 DEF UrlRingEmpty, Goto, Release
<1>2. CASE CopyUrl(w)
  BY <1>2 DEF CopyUrl, Goto
<1>3. CASE AdvanceUrl(w)
  BY <1>3 DEF AdvanceUrl, Goto, Release
<1> QED BY <1>1, <1>2, <1>3

\* So does getting one from the read url file, exit(1) included.
LEMMA ReadLocks ==
  ASSUME TypeOK, LockDiscipline, NEW w \in Worker,
         LockList(w) \/ ReadUrlOpenFails(w) \/ ReadNoLine(w) \/ ReadLine(w) \/
         CutLine(w)
  PROVE  LockDiscipline'
<1> USE WorkersAssumption DEF TypeOK, LockDiscipline, LockName, Guards,
        UrlSection, HtmlSection, ListSection, Worker
<1>1. CASE LockList(w)
  BY <1>1 DEF LockList, Goto, Acquire
<1>2. CASE ReadUrlOpenFails(w)
  BY <1>2 DEF ReadUrlOpenFails, Goto
<1>3. CASE ReadNoLine(w)
  BY <1>3 DEF ReadNoLine, Goto, Release
<1>4. CASE ReadLine(w)
  BY <1>4 DEF ReadLine, Goto
<1>5. CASE CutLine(w)
  BY <1>5 DEF CutLine, Goto, Release
<1> QED BY <1>1, <1>2, <1>3, <1>4, <1>5

\* So does choosing a page and failing to fetch it, which touches no lock.
LEMMA FetchLocks ==
  ASSUME TypeOK, LockDiscipline, NEW w \in Worker,
         SkipUnwanted(w) \/ AcceptUrl(w) \/ FetchFails(w)
  PROVE  LockDiscipline'
<1> USE WorkersAssumption DEF TypeOK, LockDiscipline, LockName, Guards,
        UrlSection, HtmlSection, ListSection, Worker
<1>1. CASE SkipUnwanted(w)
  BY <1>1 DEF SkipUnwanted, Goto
<1>2. CASE AcceptUrl(w)
  BY <1>2 DEF AcceptUrl, Goto
<1>3. CASE FetchFails(w)
  BY <1>3 DEF FetchFails, Goto
<1> QED BY <1>1, <1>2, <1>3

\* So does persisting a page and filtering its links, which touches no lock.
LEMMA PersistLocks ==
  ASSUME TypeOK, LockDiscipline, NEW w \in Worker,
         MarkVisited(w) \/ IndexingFails(w) \/ IndexPage(w) \/ FilterLink(w) \/
         NoLinkLeft(w)
  PROVE  LockDiscipline'
<1> USE WorkersAssumption DEF TypeOK, LockDiscipline, LockName, Guards,
        UrlSection, HtmlSection, ListSection, Worker
<1>1. CASE MarkVisited(w)
  BY <1>1 DEF MarkVisited, Goto
<1>2. CASE IndexingFails(w)
  BY <1>2 DEF IndexingFails, Goto
<1>3. CASE IndexPage(w)
  BY <1>3 DEF IndexPage, Goto
<1>4. CASE FilterLink(w)
  BY <1>4 DEF FilterLink
<1>5. CASE NoLinkLeft(w)
  BY <1>5 DEF NoLinkLeft, Goto
<1> QED BY <1>1, <1>2, <1>3, <1>4, <1>5

\* So does handing out links.
LEMMA HandOutLocks ==
  ASSUME TypeOK, LockDiscipline, NEW w \in Worker,
         LockUrlToInsert(w) \/ MeasureRoom(w) \/ InsertLink(w) \/ InsertEnds(w)
         \/ WriteUrlOpenFails(w) \/ Spill(w) \/ Attach(w)
  PROVE  LockDiscipline'
<1> USE WorkersAssumption DEF TypeOK, LockDiscipline, LockName, Guards,
        UrlSection, HtmlSection, ListSection, Worker
<1>1. CASE LockUrlToInsert(w)
  BY <1>1 DEF LockUrlToInsert, Goto, Acquire
<1>2. CASE MeasureRoom(w)
  BY <1>2 DEF MeasureRoom, Goto
<1>3. CASE InsertLink(w)
  BY <1>3 DEF InsertLink
<1>4. CASE InsertEnds(w)
  BY <1>4 DEF InsertEnds, Goto, Release
<1>5. CASE WriteUrlOpenFails(w)
  BY <1>5 DEF WriteUrlOpenFails, Goto
<1>6. CASE Spill(w)
  BY <1>6 DEF Spill, Goto
<1>7. CASE Attach(w)
  BY <1>7 DEF Attach, Goto
<1> QED BY <1>1, <1>2, <1>3, <1>4, <1>5, <1>6, <1>7

\* So do the steps only a crawl worker takes.
LEMMA CrawlLocks ==
  ASSUME TypeOK, LockDiscipline, NEW w \in Worker,
         CrawlOwnUrl(w) \/ CrawlLockUrl(w) \/ CrawlLockHtml(w) \/
         HtmlRingFull(w) \/ StoreUrl(w) \/ StorePage(w) \/ KeepOneLink(w)
  PROVE  LockDiscipline'
<1> USE WorkersAssumption DEF TypeOK, LockDiscipline, LockName, Guards,
        UrlSection, HtmlSection, ListSection, Worker
<1>1. CASE CrawlOwnUrl(w)
  BY <1>1 DEF CrawlOwnUrl, Goto
<1>2. CASE CrawlLockUrl(w)
  BY <1>2 DEF CrawlLockUrl, Goto, Acquire
<1>3. CASE CrawlLockHtml(w)
  BY <1>3 DEF CrawlLockHtml, Goto, Acquire
<1>4. CASE HtmlRingFull(w)
  BY <1>4 DEF HtmlRingFull, Goto, Release
<1>5. CASE StoreUrl(w)
  BY <1>5 DEF StoreUrl, Goto
<1>6. CASE StorePage(w)
  BY <1>6 DEF StorePage, Goto, Release
<1>7. CASE KeepOneLink(w)
  BY <1>7 DEF KeepOneLink, Goto
<1> QED BY <1>1, <1>2, <1>3, <1>4, <1>5, <1>6, <1>7

\* So do the steps only a parse worker takes.
LEMMA ParseLocks ==
  ASSUME TypeOK, LockDiscipline, NEW w \in Worker,
         ParseLockHtml(w) \/ HtmlRingEmpty(w) \/ LoadUrl(w) \/ LoadPage(w) \/
         ParseLockUrl(w) \/ KeepAllLinks(w)
  PROVE  LockDiscipline'
<1> USE WorkersAssumption DEF TypeOK, LockDiscipline, LockName, Guards,
        UrlSection, HtmlSection, ListSection, Worker
<1>1. CASE ParseLockHtml(w)
  BY <1>1 DEF ParseLockHtml, Goto, Acquire
<1>2. CASE HtmlRingEmpty(w)
  BY <1>2 DEF HtmlRingEmpty, Goto, Release
<1>3. CASE LoadUrl(w)
  BY <1>3 DEF LoadUrl, Goto
<1>4. CASE LoadPage(w)
  BY <1>4 DEF LoadPage, Goto, Release
<1>5. CASE ParseLockUrl(w)
  BY <1>5 DEF ParseLockUrl, Goto, Acquire
<1>6. CASE KeepAllLinks(w)
  BY <1>6 DEF KeepAllLinks, Goto
<1> QED BY <1>1, <1>2, <1>3, <1>4, <1>5, <1>6

\* So does a successful fetch, wherever outside the locked sections it leads.
LEMMA FetchSucceedsLocks ==
  ASSUME TypeOK, LockDiscipline, NEW w \in Worker,
         NEW next \in {"want_html", "valuate"},
         FetchSucceeds(w, next)
  PROVE  LockDiscipline'
  BY WorkersAssumption
     DEF TypeOK, LockDiscipline, LockName, Guards, UrlSection, HtmlSection, ListSection,
         Worker, FetchSucceeds, Goto

\* The master takes no lock; starting a worker gives it none, and a signal
\* leaves it those it has.
LEMMA MasterLocks ==
  ASSUME TypeOK, LockDiscipline,
         \/ MasterStarts \/ Interrupt \/ AtExit
         \/ \E w \in Worker : TakeInterrupt(w)
  PROVE  LockDiscipline'
<1>1. CASE Seed \/ SeedEnds \/ SpawnEnds \/ Interrupt \/ AtExit
  BY <1>1 DEF LockDiscipline, Guards, workers, Seed, SeedEnds, SpawnEnds, Interrupt,
         AtExit, DrainOpenFails, DrainOpens, DrainCopy, DrainAdvance, DrainEnds, KillWorkers
<1>2. ASSUME NEW w \in Worker, Spawn(w) PROVE LockDiscipline'
  BY <1>2 DEF TypeOK, LockDiscipline, LockName, Guards, UrlSection, HtmlSection,
         ListSection, Spawn, Unborn, Goto
<1>3. ASSUME NEW w \in Worker, DieOfInterrupt(w) PROVE LockDiscipline'
  BY <1>3 DEF TypeOK, LockDiscipline, LockName, Guards, UrlSection, HtmlSection,
         ListSection, DieOfInterrupt, Goto
<1>4. ASSUME NEW w \in Worker, SurviveInterrupt(w) PROVE LockDiscipline'
  <2>1. CASE UNCHANGED <<pc, lock>>
    BY <2>1 DEF LockDiscipline, Guards
  <2>2. CASE Release(w, "url_lists_lock") /\ Goto(w, "check")
    BY <1>4, <2>2, WorkersAssumption
       DEF TypeOK, LockDiscipline, LockName, Guards, UrlSection, HtmlSection,
           ListSection, Worker, SurviveInterrupt, Goto, Release
  <2> QED BY <1>4, <2>1, <2>2 DEF SurviveInterrupt
<1> QED BY <1>1, <1>2, <1>3, <1>4 DEF MasterStarts, TakeInterrupt

\* No lock is held when the segment is set up.
LEMMA InitLocks == Init => LockDiscipline
  BY WorkersAssumption
     DEF Init, LockDiscipline, Guards, LockName, UrlSection, HtmlSection, ListSection, Worker

\* Every step of the spider keeps the lock discipline.
LEMMA NextLocks ==
  ASSUME TypeOK, LockDiscipline, [Next]_vars
  PROVE  LockDiscipline'
<1>1. ASSUME NEW w \in Crawler, CrawlStep(w) PROVE LockDiscipline'
  <2>1. w \in Worker
    BY DEF Worker
  <2> QED
    BY <1>1, <2>1, TakeLocks, ReadLocks, FetchLocks, FetchSucceedsLocks, PersistLocks,
       HandOutLocks, CrawlLocks
       DEF CrawlStep, CrawlTakeUrl, CrawlReadUrl, CrawlFetch, CrawlPersist, CrawlHandOut
<1>2. ASSUME NEW w \in Parser, ParseStep(w) PROVE LockDiscipline'
  <2>1. w \in Worker
    BY DEF Worker
  <2> QED
    BY <1>2, <2>1, TakeLocks, ReadLocks, FetchLocks, FetchSucceedsLocks, PersistLocks,
       HandOutLocks, ParseLocks
       DEF ParseStep, ParseTakeUrl, ParseReadUrl, ParseFetch, ParsePersist, ParseHandOut
<1>3. CASE UNCHANGED vars
  BY <1>3 DEF vars, LockDiscipline, Guards
<1> QED BY <1>1, <1>2, <1>3, MasterLocks DEF Next, RunNext

-----------------------------------------------------------------------------
(* Who changes a lock, and where.                                          *)

\* The labels at which a worker waits for a lock.
Waiting == {"start", "want_url", "want_list", "want_html", "want_room"}

LockChange(w) ==
  \/ pc[w] \in Waiting /\ \E l \in LockName : Acquire(w, l)
  \/ \E l \in LockName : Release(w, l)
  \/ UNCHANGED lock

\* A step of a crawl worker takes at most one lock, and takes it where the
\* worker waits for it.
LEMMA CrawlLockChange ==
  ASSUME NEW w \in Crawler, CrawlStep(w) PROVE LockChange(w)
<1> USE DEF LockChange, LockName, Waiting
<1>1. CASE CrawlTakeUrl(w)
  BY <1>1 DEF CrawlTakeUrl, UrlRingEmpty, CopyUrl, AdvanceUrl
<1>2. CASE CrawlReadUrl(w)
  BY <1>2 DEF CrawlReadUrl, LockList, ReadUrlOpenFails, ReadNoLine, ReadLine, CutLine
<1>3. CASE CrawlFetch(w)
  BY <1>3 DEF CrawlFetch, SkipUnwanted, AcceptUrl, FetchFails, FetchSucceeds
<1>4. CASE CrawlPersist(w)
  BY <1>4 DEF CrawlPersist, MarkVisited, IndexingFails, IndexPage, FilterLink, NoLinkLeft
<1>5. CASE CrawlHandOut(w)
  BY <1>5 DEF CrawlHandOut, LockUrlToInsert, MeasureRoom, InsertLink, InsertEnds,
         WriteUrlOpenFails, Spill
<1>6. CASE Attach(w) \/ CrawlOwnUrl(w) \/ CrawlLockUrl(w) \/ CrawlLockHtml(w)
           \/ HtmlRingFull(w) \/ StoreUrl(w) \/ StorePage(w) \/ KeepOneLink(w)
  BY <1>6 DEF Attach, CrawlOwnUrl, CrawlLockUrl, CrawlLockHtml, HtmlRingFull, StoreUrl,
         StorePage, KeepOneLink
<1> QED BY <1>1, <1>2, <1>3, <1>4, <1>5, <1>6 DEF CrawlStep

\* The same of a parse worker.
LEMMA ParseLockChange ==
  ASSUME NEW w \in Parser, ParseStep(w) PROVE LockChange(w)
<1> USE DEF LockChange, LockName, Waiting
<1>1. CASE ParseTakeUrl(w)
  BY <1>1 DEF ParseTakeUrl, UrlRingEmpty, CopyUrl, AdvanceUrl
<1>2. CASE ParseReadUrl(w)
  BY <1>2 DEF ParseReadUrl, LockList, ReadUrlOpenFails, ReadNoLine, ReadLine, CutLine
<1>3. CASE ParseFetch(w)
  BY <1>3 DEF ParseFetch, SkipUnwanted, AcceptUrl, FetchFails, FetchSucceeds
<1>4. CASE ParsePersist(w)
  BY <1>4 DEF ParsePersist, MarkVisited, IndexingFails, IndexPage, FilterLink, NoLinkLeft
<1>5. CASE ParseHandOut(w)
  BY <1>5 DEF ParseHandOut, LockUrlToInsert, MeasureRoom, InsertLink, InsertEnds,
         WriteUrlOpenFails, Spill
<1>6. CASE Attach(w) \/ ParseLockHtml(w) \/ HtmlRingEmpty(w) \/ LoadUrl(w) \/ LoadPage(w)
           \/ ParseLockUrl(w) \/ KeepAllLinks(w)
  BY <1>6 DEF Attach, ParseLockHtml, HtmlRingEmpty, LoadUrl, LoadPage, ParseLockUrl,
         KeepAllLinks
<1> QED BY <1>1, <1>2, <1>3, <1>4, <1>5, <1>6 DEF ParseStep

\* The master changes no lock; an interrupt may end sed and with it the section
\* of url_lists_lock.
LEMMA MasterLockChange ==
  ASSUME MasterStarts \/ Interrupt \/ AtExit
  PROVE  UNCHANGED lock
  BY DEF MasterStarts, Seed, SeedEnds, Spawn, SpawnEnds, Interrupt, AtExit,
         DrainOpenFails, DrainOpens, DrainCopy, DrainAdvance, DrainEnds, KillWorkers

\* The same of a signal.
LEMMA InterruptLockChange ==
  ASSUME NEW w \in Worker, TakeInterrupt(w) PROVE LockChange(w)
  BY DEF TakeInterrupt, DieOfInterrupt, SurviveInterrupt, LockChange, LockName

\* A worker that holds no lock may take one; one that holds a lock never
\* takes another, for it waits for a lock outside the locked sections only.
LEMMA NextOneLock ==
  ASSUME TypeOK, LockDiscipline, OneLockAtATime, [Next]_vars
  PROVE  OneLockAtATime'
<1> USE WorkersAssumption DEF TypeOK, OneLockAtATime, Worker
<1>1. ASSUME NEW w \in Worker, LockChange(w) PROVE OneLockAtATime'
  <2>1. ASSUME NEW l \in LockName, pc[w] \in Waiting, Acquire(w, l) PROVE OneLockAtATime'
    <3>1. \A m \in LockName : lock[m] # w
      BY <2>1 DEF LockDiscipline, Guards, LockName, Waiting, UrlSection, HtmlSection,
             ListSection
    <3> QED BY <2>1, <3>1 DEF Acquire
  <2>2. ASSUME NEW l \in LockName, Release(w, l) PROVE OneLockAtATime'
    BY <2>2 DEF Release
  <2>3. CASE UNCHANGED lock
    BY <2>3
  <2> QED BY <1>1, <2>1, <2>2, <2>3 DEF LockChange
<1>2. CASE UNCHANGED lock
  BY <1>2
<1>3. UNCHANGED vars => UNCHANGED lock
  BY DEF vars
<1> QED
  BY <1>1, <1>2, <1>3, CrawlLockChange, ParseLockChange, MasterLockChange,
     InterruptLockChange
     DEF Next, RunNext

-----------------------------------------------------------------------------
(* Pages.                                                                  *)

\* Pages: getting a URL from the url ring happens with no page in hand.
LEMMA TakePages ==
  ASSUME HtmlInv, NEW w \in Worker,
         UrlRingEmpty(w) \/ CopyUrl(w) \/ AdvanceUrl(w)
  PROVE  HtmlSlotsPaired' /\ PageInHand' /\ PagesKeepTheirUrl'
<1>1. HtmlSlotsPaired'
  BY DEF HtmlInv, HtmlSlotsPaired, htmlRing, UrlRingEmpty, CopyUrl, AdvanceUrl
<1>2. PageInHand'
  <2>1. CASE UrlRingEmpty(w)
    BY <2>1 DEF HtmlInv, TypeOK, PageInHand, PageLabels, urlRing, htmlRing, locals,
       Goto, Set, UrlRingEmpty
  <2>2. CASE CopyUrl(w)
    BY <2>2 DEF HtmlInv, TypeOK, PageInHand, PageLabels, urlRing, htmlRing, locals,
       Goto, Set, CopyUrl
  <2>3. CASE AdvanceUrl(w)
    BY <2>3 DEF HtmlInv, TypeOK, PageInHand, PageLabels, urlRing, htmlRing, locals,
       Goto, Set, AdvanceUrl
  <2> QED BY <2>1, <2>2, <2>3
<1>3. PagesKeepTheirUrl'
  BY DEF HtmlInv, TypeOK, PageInHand, PageLabels, PagesKeepTheirUrl, database,
         locals, Goto, Set, UrlRingEmpty, CopyUrl, AdvanceUrl
<1> QED BY <1>1, <1>2, <1>3

\* Pages: so does getting a URL from the read url file.
LEMMA ReadPages ==
  ASSUME HtmlInv, NEW w \in Worker,
         LockList(w) \/ ReadUrlOpenFails(w) \/ ReadNoLine(w) \/ ReadLine(w) \/
         CutLine(w)
  PROVE  HtmlSlotsPaired' /\ PageInHand' /\ PagesKeepTheirUrl'
<1>1. HtmlSlotsPaired'
  BY DEF HtmlInv, HtmlSlotsPaired, htmlRing, LockList, ReadUrlOpenFails,
         ReadNoLine, ReadLine, CutLine
<1>2. PageInHand'
  <2>1. CASE LockList(w)
    BY <2>1 DEF HtmlInv, TypeOK, PageInHand, PageLabels, urlRing, htmlRing, locals,
       Goto, Set, LockList
  <2>2. CASE ReadUrlOpenFails(w)
    BY <2>2 DEF HtmlInv, TypeOK, PageInHand, PageLabels, urlRing, htmlRing, locals,
       Goto, Set, ReadUrlOpenFails
  <2>3. CASE ReadNoLine(w)
    BY <2>3 DEF HtmlInv, TypeOK, PageInHand, PageLabels, urlRing, htmlRing, locals,
       Goto, Set, ReadNoLine
  <2>4. CASE ReadLine(w)
    BY <2>4 DEF HtmlInv, TypeOK, PageInHand, PageLabels, urlRing, htmlRing, locals,
       Goto, Set, ReadLine
  <2>5. CASE CutLine(w)
    BY <2>5 DEF HtmlInv, TypeOK, PageInHand, PageLabels, urlRing, htmlRing, locals,
       Goto, Set, CutLine
  <2> QED BY <2>1, <2>2, <2>3, <2>4, <2>5
<1>3. PagesKeepTheirUrl'
  BY DEF HtmlInv, TypeOK, PageInHand, PageLabels, PagesKeepTheirUrl, database,
         locals, Goto, Set, LockList, ReadUrlOpenFails, ReadNoLine, ReadLine,
         CutLine
<1> QED BY <1>1, <1>2, <1>3

\* Pages: and choosing a page, and failing to fetch it.
LEMMA FetchPages ==
  ASSUME HtmlInv, NEW w \in Worker,
         SkipUnwanted(w) \/ AcceptUrl(w) \/ FetchFails(w)
  PROVE  HtmlSlotsPaired' /\ PageInHand' /\ PagesKeepTheirUrl'
<1>1. HtmlSlotsPaired'
  BY DEF HtmlInv, HtmlSlotsPaired, htmlRing, SkipUnwanted, AcceptUrl, FetchFails
<1>2. PageInHand'
  <2>1. CASE SkipUnwanted(w)
    BY <2>1 DEF HtmlInv, TypeOK, PageInHand, PageLabels, urlRing, htmlRing, locals,
       Goto, Set, SkipUnwanted
  <2>2. CASE AcceptUrl(w)
    BY <2>2 DEF HtmlInv, TypeOK, PageInHand, PageLabels, urlRing, htmlRing, locals,
       Goto, Set, AcceptUrl
  <2>3. CASE FetchFails(w)
    BY <2>3 DEF HtmlInv, TypeOK, PageInHand, PageLabels, urlRing, htmlRing, locals,
       Goto, Set, FetchFails
  <2> QED BY <2>1, <2>2, <2>3
<1>3. PagesKeepTheirUrl'
  BY DEF HtmlInv, TypeOK, PageInHand, PageLabels, PagesKeepTheirUrl, database,
         locals, Goto, Set, SkipUnwanted, AcceptUrl, FetchFails
<1> QED BY <1>1, <1>2, <1>3

\* Pages: the page is let go in the step that indexes it, under its own URL.
LEMMA PersistPages ==
  ASSUME HtmlInv, NEW w \in Worker,
         MarkVisited(w) \/ IndexingFails(w) \/ IndexPage(w) \/ FilterLink(w)
         \/ NoLinkLeft(w)
  PROVE  HtmlSlotsPaired' /\ PageInHand' /\ PagesKeepTheirUrl'
<1>1. HtmlSlotsPaired'
  BY DEF HtmlInv, HtmlSlotsPaired, htmlRing, MarkVisited, IndexingFails,
         IndexPage, FilterLink, NoLinkLeft
<1>2. PageInHand'
  <2>1. CASE MarkVisited(w)
    BY <2>1 DEF HtmlInv, TypeOK, PageInHand, PageLabels, urlRing, htmlRing, locals,
       Goto, Set, MarkVisited
  <2>2. CASE IndexingFails(w)
    BY <2>2 DEF HtmlInv, TypeOK, PageInHand, PageLabels, urlRing, htmlRing, locals,
       Goto, Set, IndexingFails
  <2>3. CASE IndexPage(w)
    BY <2>3 DEF HtmlInv, TypeOK, PageInHand, PageLabels, urlRing, htmlRing, locals,
       Goto, Set, IndexPage
  <2>4. CASE FilterLink(w)
    BY <2>4 DEF HtmlInv, TypeOK, PageInHand, PageLabels, urlRing, htmlRing, locals,
       Goto, Set, FilterLink
  <2>5. CASE NoLinkLeft(w)
    BY <2>5 DEF HtmlInv, TypeOK, PageInHand, PageLabels, urlRing, htmlRing, locals,
       Goto, Set, NoLinkLeft
  <2> QED BY <2>1, <2>2, <2>3, <2>4, <2>5
<1>3. PagesKeepTheirUrl'
  <2>1. CASE IndexPage(w)
    <3>1. page[w] \in Page /\ page[w].of = work_url[w]
      BY <2>1 DEF HtmlInv, TypeOK, PageInHand, PageLabels, IndexPage
    <3>2. \A entry \in indexed' : entry[2] \in Page /\ entry[2].of = entry[1]
      BY <2>1, <3>1 DEF HtmlInv, PagesKeepTheirUrl, IndexPage
    <3>3. \A v \in Worker : page'[v] # NoPage => page'[v].of = work_url'[v]
      BY <2>1 DEF HtmlInv, TypeOK, PagesKeepTheirUrl, IndexPage, Set
    <3> QED BY <3>2, <3>3 DEF PagesKeepTheirUrl
  <2>2. CASE ~IndexPage(w)
    BY <2>2 DEF HtmlInv, PagesKeepTheirUrl, database, locals,
                MarkVisited, IndexingFails, FilterLink, NoLinkLeft
  <2> QED BY <2>1, <2>2
<1> QED BY <1>1, <1>2, <1>3

\* Pages: a fetched page belongs to the URL it was fetched from.
LEMMA FetchSucceedsPages ==
  ASSUME HtmlInv, NEW w \in Worker, NEW next \in PageLabels(w) \ {"store_page"},
         FetchSucceeds(w, next)
  PROVE  HtmlSlotsPaired' /\ PageInHand' /\ PagesKeepTheirUrl'
<1>1. HtmlSlotsPaired'
  BY DEF HtmlInv, HtmlSlotsPaired, htmlRing, FetchSucceeds
<1>2. page'[w].of = work_url'[w] /\ page'[w] # NoPage
  <2>1. page'[w] = [of |-> work_url[w], cut |-> FALSE] /\ work_url' = work_url
    BY DEF HtmlInv, TypeOK, FetchSucceeds, Set
  <2>2. work_url[w] \in Url
    BY WebAssumption DEF FetchSucceeds
  <2>3. page'[w] \in [of : Url, cut : BOOLEAN]
    BY <2>1, <2>2
  <2>4. page'[w] # NoPage
    BY <2>3, WebAssumption
  <2> QED BY <2>1, <2>4
<1>3. PageInHand'
  BY <1>2 DEF HtmlInv, TypeOK, PageInHand, PageLabels, htmlRing, FetchSucceeds, Goto, Set
<1>4. PagesKeepTheirUrl'
  BY <1>2 DEF HtmlInv, TypeOK, PagesKeepTheirUrl, database, FetchSucceeds, Set
<1> QED BY <1>1, <1>3, <1>4

\* Pages: the steps of a crawl worker that leave the html ring alone.
LEMMA CrawlPages ==
  ASSUME HtmlInv, NEW w \in Crawler,
         CrawlOwnUrl(w) \/ CrawlLockUrl(w) \/ CrawlLockHtml(w) \/ HtmlRingFull(w)
         \/ KeepOneLink(w)
  PROVE  HtmlSlotsPaired' /\ PageInHand' /\ PagesKeepTheirUrl'
<1>1. HtmlSlotsPaired'
  BY DEF HtmlInv, HtmlSlotsPaired, htmlRing, CrawlOwnUrl, CrawlLockUrl, CrawlLockHtml,
         HtmlRingFull, KeepOneLink
<1>2. PageInHand'
  <2>1. CASE CrawlOwnUrl(w)
    BY <2>1 DEF HtmlInv, TypeOK, PageInHand, PageLabels, htmlRing, locals, Worker, Goto,
       Set, CrawlOwnUrl
  <2>2. CASE CrawlLockUrl(w)
    BY <2>2 DEF HtmlInv, TypeOK, PageInHand, PageLabels, htmlRing, locals, Worker, Goto,
       Set, CrawlLockUrl
  <2>3. CASE CrawlLockHtml(w)
    BY <2>3 DEF HtmlInv, TypeOK, PageInHand, PageLabels, htmlRing, locals, Worker, Goto,
       Set, CrawlLockHtml
  <2>4. CASE HtmlRingFull(w)
    BY <2>4 DEF HtmlInv, TypeOK, PageInHand, PageLabels, htmlRing, locals, Worker, Goto,
       Set, HtmlRingFull
  <2>5. CASE KeepOneLink(w)
    BY <2>5 DEF HtmlInv, TypeOK, PageInHand, PageLabels, htmlRing, locals, Worker, Goto,
       Set, KeepOneLink
  <2> QED BY <2>1, <2>2, <2>3, <2>4, <2>5
<1>3. PagesKeepTheirUrl'
  BY DEF HtmlInv, TypeOK, PageInHand, PageLabels, PagesKeepTheirUrl, database, locals,
         Worker, Goto, Set, CrawlOwnUrl, CrawlLockUrl, CrawlLockHtml, HtmlRingFull,
         KeepOneLink
<1> QED BY <1>1, <1>2, <1>3

\* Pages: the first of the two copies into the slot at the tail.
LEMMA StoreUrlPages ==
  ASSUME HtmlInv, NEW w \in Crawler, StoreUrl(w)
  PROVE  HtmlSlotsPaired' /\ PageInHand' /\ PagesKeepTheirUrl'
<1> USE RingSizesAssumption, WorkersAssumption DEF HtmlInv, TypeOK, StoreUrl, Worker
<1>1. \A i \in 0 .. HtmlNums - 1 : i # html_tail => html_queue'[i] = html_queue[i]
  BY DEF Set
<1>2. html_queue'[html_tail].url = work_url[w]
  BY DEF Set
<1>3. HtmlSlotsPaired'
  <2>1. ~RingHolds(html_tail, html_head, html_tail)
    BY RingEnds
  <2> QED BY <1>1, <2>1 DEF HtmlSlotsPaired
<1>4. \A v \in Worker \ {w} : pc[v] \notin {"store_page", "load_page"}
  BY DEF LockDiscipline, Guards, HtmlSection
<1>5. PageInHand'
  BY <1>2, <1>4 DEF PageInHand, PageLabels, locals, Goto, RingFull
<1>6. PagesKeepTheirUrl'
  BY DEF PagesKeepTheirUrl, database, locals
<1> QED BY <1>3, <1>5, <1>6

\* Pages: the second copy, which puts the slot into use.
LEMMA StorePagePages ==
  ASSUME HtmlInv, NEW w \in Crawler, StorePage(w)
  PROVE  HtmlSlotsPaired' /\ PageInHand' /\ PagesKeepTheirUrl'
<1> USE RingSizesAssumption, WorkersAssumption DEF HtmlInv, TypeOK, StorePage, Worker
<1>1. \A i \in 0 .. HtmlNums - 1 : i # html_tail => html_queue'[i] = html_queue[i]
  BY DEF Set
<1>2. page[w] \in Page /\ page[w].of = work_url[w]
  BY DEF PageInHand, PageLabels
<1>3. ~RingFull(html_head, html_tail, HtmlNums) /\ html_queue[html_tail].url = work_url[w]
  BY DEF PageInHand
<1>4. /\ html_queue'[html_tail].page \in Page
      /\ html_queue'[html_tail].page.of = html_queue'[html_tail].url
  BY <1>2, <1>3 DEF Set, Stored, Page
<1>5. HtmlSlotsPaired'
  <2> SUFFICES ASSUME NEW i \in 0 .. HtmlNums - 1,
                      RingHolds(i, html_head, RingNext(html_tail, HtmlNums))
               PROVE  html_queue'[i].page \in Page /\ html_queue'[i].page.of = html_queue'[i].url
    BY DEF HtmlSlotsPaired
  <2>1. RingHolds(i, html_head, html_tail) \/ i = html_tail
    BY <1>3, RingHoldsAfterPut
  <2> QED BY <1>1, <1>4, <2>1 DEF HtmlSlotsPaired
<1>6. \A v \in Worker \ {w} : pc[v] \notin {"store_page", "load_page"}
  BY DEF LockDiscipline, Guards, HtmlSection
<1>7. PageInHand'
  BY <1>6 DEF PageInHand, PageLabels, Goto, Set
<1>8. PagesKeepTheirUrl'
  BY DEF PagesKeepTheirUrl, database, Set
<1> QED BY <1>5, <1>7, <1>8

\* Pages: the steps of a parse worker that leave the html ring alone.
LEMMA ParsePages ==
  ASSUME HtmlInv, NEW w \in Parser,
         ParseLockHtml(w) \/ HtmlRingEmpty(w) \/ ParseLockUrl(w) \/ KeepAllLinks(w)
  PROVE  HtmlSlotsPaired' /\ PageInHand' /\ PagesKeepTheirUrl'
<1> USE WorkersAssumption
<1>1. HtmlSlotsPaired'
  BY DEF HtmlInv, HtmlSlotsPaired, htmlRing, ParseLockHtml, HtmlRingEmpty, ParseLockUrl,
         KeepAllLinks
<1>2. PageInHand'
  <2>1. CASE ParseLockHtml(w)
    BY <2>1 DEF HtmlInv, TypeOK, PageInHand, PageLabels, htmlRing, locals, Worker, Goto,
       ParseLockHtml
  <2>2. CASE HtmlRingEmpty(w)
    BY <2>2 DEF HtmlInv, TypeOK, PageInHand, PageLabels, htmlRing, locals, Worker, Goto,
       HtmlRingEmpty
  <2>3. CASE ParseLockUrl(w)
    BY <2>3 DEF HtmlInv, TypeOK, PageInHand, PageLabels, htmlRing, locals, Worker, Goto,
       ParseLockUrl
  <2>4. CASE KeepAllLinks(w)
    BY <2>4 DEF HtmlInv, TypeOK, PageInHand, PageLabels, htmlRing, locals, Worker, Goto,
       KeepAllLinks
  <2> QED BY <2>1, <2>2, <2>3, <2>4
<1>3. PagesKeepTheirUrl'
  BY DEF HtmlInv, PagesKeepTheirUrl, database, locals,
         ParseLockHtml, HtmlRingEmpty, ParseLockUrl, KeepAllLinks
<1> QED BY <1>1, <1>2, <1>3

\* Pages: the first of the two copies out of the slot at the head.
LEMMA LoadUrlPages ==
  ASSUME HtmlInv, NEW w \in Parser, LoadUrl(w)
  PROVE  HtmlSlotsPaired' /\ PageInHand' /\ PagesKeepTheirUrl'
<1> USE WorkersAssumption DEF HtmlInv, TypeOK, LoadUrl, Worker
<1>1. HtmlSlotsPaired'
  BY DEF HtmlSlotsPaired, htmlRing
<1>2. page[w] = NoPage
  BY DEF PageInHand, PageLabels
<1>3. PageInHand'
  BY <1>2 DEF PageInHand, PageLabels, htmlRing, Goto, Set
<1>4. PagesKeepTheirUrl'
  BY <1>2 DEF PagesKeepTheirUrl, database, Set
<1> QED BY <1>1, <1>3, <1>4

\* Pages: the second copy, which takes the slot out of use.
LEMMA LoadPagePages ==
  ASSUME HtmlInv, NEW w \in Parser, LoadPage(w)
  PROVE  HtmlSlotsPaired' /\ PageInHand' /\ PagesKeepTheirUrl'
<1> USE RingSizesAssumption, WorkersAssumption DEF HtmlInv, TypeOK, LoadPage, Worker
<1>1. ~RingEmpty(html_head, html_tail) /\ html_queue[html_head].url = work_url[w]
  BY DEF PageInHand
<1>2. /\ html_queue[html_head].page \in Page
      /\ html_queue[html_head].page.of = work_url[w]
  BY <1>1, RingEnds DEF HtmlSlotsPaired
<1>3. HtmlSlotsPaired'
  BY <1>1, RingHoldsAfterTake DEF HtmlSlotsPaired
<1>4. \A v \in Worker \ {w} : pc[v] \notin {"store_page", "load_page"}
  BY DEF LockDiscipline, Guards, HtmlSection
<1>5. page'[w] = html_queue[html_head].page /\ page'[w] # NoPage
  BY <1>2, WebAssumption DEF Set, Page
<1>6. PageInHand'
  BY <1>2, <1>4, <1>5 DEF PageInHand, PageLabels, Goto, Set
<1>7. PagesKeepTheirUrl'
  BY <1>2, <1>5 DEF PagesKeepTheirUrl, database, Set
<1> QED BY <1>3, <1>6, <1>7

\* Pages: handing out links comes after the page was let go.
LEMMA HandOutPages ==
  ASSUME HtmlInv, NEW w \in Worker,
         LockUrlToInsert(w) \/ MeasureRoom(w) \/ InsertLink(w) \/ InsertEnds(w)
         \/ WriteUrlOpenFails(w) \/ Spill(w) \/ Attach(w)
  PROVE  HtmlSlotsPaired' /\ PageInHand' /\ PagesKeepTheirUrl'
<1>1. HtmlSlotsPaired'
  BY DEF HtmlInv, HtmlSlotsPaired, htmlRing, LockUrlToInsert, MeasureRoom,
         InsertLink, InsertEnds, WriteUrlOpenFails, Spill, Attach
<1>2. PageInHand'
  <2>1. CASE LockUrlToInsert(w)
    BY <2>1 DEF HtmlInv, TypeOK, PageInHand, PageLabels, urlRing, htmlRing, locals,
       Goto, Set, LockUrlToInsert
  <2>2. CASE MeasureRoom(w)
    BY <2>2 DEF HtmlInv, TypeOK, PageInHand, PageLabels, urlRing, htmlRing, locals,
       Goto, Set, MeasureRoom
  <2>3. CASE InsertLink(w)
    BY <2>3 DEF HtmlInv, TypeOK, PageInHand, PageLabels, urlRing, htmlRing, locals,
       Goto, Set, InsertLink
  <2>4. CASE InsertEnds(w)
    BY <2>4 DEF HtmlInv, TypeOK, PageInHand, PageLabels, urlRing, htmlRing, locals,
       Goto, Set, InsertEnds
  <2>5. CASE WriteUrlOpenFails(w)
    BY <2>5 DEF HtmlInv, TypeOK, PageInHand, PageLabels, urlRing, htmlRing, locals,
       Goto, Set, WriteUrlOpenFails
  <2>6. CASE Spill(w)
    BY <2>6 DEF HtmlInv, TypeOK, PageInHand, PageLabels, urlRing, htmlRing, locals,
       Goto, Set, Spill
  <2>7. CASE Attach(w)
    BY <2>7 DEF HtmlInv, TypeOK, PageInHand, PageLabels, urlRing, htmlRing, locals,
       Goto, Set, Attach
  <2> QED BY <2>1, <2>2, <2>3, <2>4, <2>5, <2>6, <2>7
<1>3. PagesKeepTheirUrl'
  BY DEF HtmlInv, TypeOK, PageInHand, PageLabels, PagesKeepTheirUrl, database,
         locals, Goto, Set, LockUrlToInsert, MeasureRoom, InsertLink, InsertEnds,
         WriteUrlOpenFails, Spill, Attach
<1> QED BY <1>1, <1>2, <1>3

\* Pages: the master never touches the html ring or a worker's variables; a
\* worker it starts, or one that a signal ends, keeps what it has.
LEMMA MasterPages ==
  ASSUME HtmlInv,
         \/ MasterStarts \/ Interrupt \/ AtExit
         \/ \E w \in Worker : TakeInterrupt(w)
  PROVE  HtmlSlotsPaired' /\ PageInHand' /\ PagesKeepTheirUrl'
<1> DEFINE Conclusion == HtmlSlotsPaired /\ PageInHand /\ PagesKeepTheirUrl
<1> USE DEF HtmlInv, HtmlSlotsPaired, PageInHand, PageLabels, PagesKeepTheirUrl,
            htmlRing, database, locals
<1>1. CASE Seed \/ SeedEnds \/ SpawnEnds \/ Interrupt \/ AtExit
  BY <1>1 DEF workers, Seed, SeedEnds, SpawnEnds, Interrupt, AtExit, DrainOpenFails,
         DrainOpens, DrainCopy, DrainAdvance, DrainEnds, KillWorkers
<1>2. ASSUME NEW w \in Worker, Spawn(w) PROVE Conclusion'
  BY <1>2 DEF TypeOK, Spawn, Unborn, Goto
<1>3. ASSUME NEW w \in Worker, DieOfInterrupt(w) PROVE Conclusion'
  BY <1>3 DEF TypeOK, DieOfInterrupt, Goto
<1>4. ASSUME NEW w \in Worker, SurviveInterrupt(w) PROVE Conclusion'
  BY <1>4 DEF TypeOK, SurviveInterrupt, Goto
<1> QED BY <1>1, <1>2, <1>3, <1>4 DEF MasterStarts, TakeInterrupt

\* Every step of the spider keeps pages and URLs together.
LEMMA NextPages ==
  ASSUME HtmlInv, [Next]_vars
  PROVE  HtmlSlotsPaired' /\ PageInHand' /\ PagesKeepTheirUrl'
<1> DEFINE Conclusion == HtmlSlotsPaired /\ PageInHand /\ PagesKeepTheirUrl
<1>1. ASSUME NEW w \in Crawler, CrawlStep(w) PROVE Conclusion'
  <2>1. w \in Worker /\ "want_html" \in PageLabels(w) \ {"store_page"}
    BY DEF Worker, PageLabels
  <2> QED
    BY <1>1, <2>1, TakePages, ReadPages, FetchPages, FetchSucceedsPages, PersistPages,
       HandOutPages, CrawlPages, StoreUrlPages, StorePagePages
       DEF CrawlStep, CrawlTakeUrl, CrawlReadUrl, CrawlFetch, CrawlPersist, CrawlHandOut
<1>2. ASSUME NEW w \in Parser, ParseStep(w) PROVE Conclusion'
  <2>1. w \in Worker /\ "valuate" \in PageLabels(w) \ {"store_page"}
    BY DEF Worker, PageLabels
  <2> QED
    BY <1>2, <2>1, TakePages, ReadPages, FetchPages, FetchSucceedsPages, PersistPages,
       HandOutPages, ParsePages, LoadUrlPages, LoadPagePages
       DEF ParseStep, ParseTakeUrl, ParseReadUrl, ParseFetch, ParsePersist, ParseHandOut
<1>3. CASE UNCHANGED vars
  BY <1>3 DEF HtmlInv, vars, htmlRing, locals, database, HtmlSlotsPaired, PageInHand,
         PageLabels, PagesKeepTheirUrl
<1> QED BY <1>1, <1>2, <1>3, MasterPages DEF Next, RunNext

\* Every step of the spider keeps the types.
LEMMA NextTypes ==
  ASSUME HtmlInv, [Next]_vars
  PROVE  TypeOK'
<1> USE DEF HtmlInv
<1>1. ASSUME NEW w \in Crawler, CrawlStep(w) PROVE TypeOK'
  <2>1. w \in Worker /\ "want_html" \in Label
    BY DEF Worker, Label
  <2> QED
    BY <1>1, <2>1, TakeUrlTypes, ReadUrlTypes, FetchTypes, FetchSucceedsTypes,
       PersistTypes, HandOutTypes, CrawlTypes
       DEF CrawlStep, CrawlTakeUrl, CrawlReadUrl, CrawlFetch, CrawlPersist, CrawlHandOut
<1>2. ASSUME NEW w \in Parser, ParseStep(w) PROVE TypeOK'
  <2>1. w \in Worker /\ "valuate" \in Label
    BY DEF Worker, Label
  <2> QED
    BY <1>2, <2>1, TakeUrlTypes, ReadUrlTypes, FetchTypes, FetchSucceedsTypes,
       PersistTypes, HandOutTypes, ParseTypes
       DEF ParseStep, ParseTakeUrl, ParseReadUrl, ParseFetch, ParsePersist, ParseHandOut
<1>3. CASE UNCHANGED vars
  BY <1>3 DEF TypeOK, vars, urlRing, htmlRing, files, database, master, locals
<1> QED BY <1>1, <1>2, <1>3, MasterTypes DEF Next, RunNext

-----------------------------------------------------------------------------
\* A spider nobody interrupts is a spider: what holds of Spec holds of it.
LEMMA RunsAreSpiders == RunSpec => Spec
<1>1. [RunNext]_vars => [Next]_vars
  BY DEF Next
<1> QED BY <1>1, PTL DEF RunSpec, Spec

\* HtmlInv, the inductive invariant of the shared memory segment: whatever the
\* numbers of workers, URLs and slots, and wherever a SIGINT ends a worker,
\* the locks, the labels and the slots of the html ring fit together.
THEOREM HtmlInvariant == Spec => []HtmlInv
<1>1. Init => HtmlInv
  <2> SUFFICES ASSUME Init PROVE HtmlInv
    OBVIOUS
  <2>1. HtmlSlotsPaired
    BY DEF Init, HtmlSlotsPaired, RingHolds
  <2>2. PageInHand
    BY DEF Init, PageInHand, PageLabels
  <2>3. PagesKeepTheirUrl
    BY DEF Init, PagesKeepTheirUrl
  <2> QED BY <2>1, <2>2, <2>3, InitTypes, InitLocks DEF HtmlInv
<1>2. HtmlInv /\ [Next]_vars => HtmlInv'
  BY NextTypes, NextLocks, NextPages DEF HtmlInv
<1> QED BY <1>1, <1>2, PTL DEF Spec

\* Every variable of the spider keeps its type: no index leaves its ring, no
\* worker opens more sockets than it has descriptors.
THEOREM TypesAreKept == Spec => []TypeOK
<1>1. HtmlInv => TypeOK
  BY DEF HtmlInv
<1> QED BY <1>1, HtmlInvariant, PTL

\* Inside a locked section of crawl_worker.cc or parse_worker.cc a worker is
\* the holder of that section's lock and so alone in it; outside it holds none,
\* unless it ended inside.
THEOREM LocksAreDisciplined == Spec => []LockDiscipline
<1>1. HtmlInv => LockDiscipline
  BY DEF HtmlInv
<1> QED BY <1>1, HtmlInvariant, PTL

\* No worker ever holds two locks, so the workers never wait in a circle.
THEOREM NoWorkerHoldsTwoLocks == Spec => []OneLockAtATime
<1>1. Init => OneLockAtATime
  BY WorkersAssumption DEF Init, OneLockAtATime, LockName, Worker
<1>2. HtmlInv /\ OneLockAtATime /\ [Next]_vars => OneLockAtATime'
  BY NextOneLock DEF HtmlInv
<1> QED BY <1>1, <1>2, HtmlInvariant, PTL DEF Spec

\* A page is persisted and indexed under the URL it was fetched from, whatever
\* the interleaving of the slot copies of the two kinds of worker.
THEOREM PagesBelongToTheirUrl == Spec => []PagesKeepTheirUrl
<1>1. HtmlInv => PagesKeepTheirUrl
  BY DEF HtmlInv
<1> QED BY <1>1, HtmlInvariant, PTL

-----------------------------------------------------------------------------
(* The html ring refines BoundedFifo.                                      *)

\* Three steps touch the html ring: the two copies into the slot at the tail and
\* the second copy out of the slot at the head.
LEMMA HtmlRingSteps ==
  ASSUME [Next]_vars
  PROVE  \/ \E w \in Crawler : StoreUrl(w) \/ StorePage(w)
         \/ \E w \in Parser : LoadPage(w)
         \/ UNCHANGED htmlRing
<1>1. ASSUME NEW w \in Worker,
             \/ UrlRingEmpty(w) \/ CopyUrl(w) \/ AdvanceUrl(w)
             \/ LockList(w) \/ ReadUrlOpenFails(w) \/ ReadNoLine(w) \/ ReadLine(w) \/ CutLine(w)
             \/ SkipUnwanted(w) \/ AcceptUrl(w) \/ FetchFails(w)
             \/ FetchSucceeds(w, "want_html") \/ FetchSucceeds(w, "valuate")
      PROVE  UNCHANGED htmlRing
  BY <1>1 DEF UrlRingEmpty, CopyUrl, AdvanceUrl, LockList, ReadUrlOpenFails, ReadNoLine,
         ReadLine, CutLine, SkipUnwanted, AcceptUrl, FetchFails, FetchSucceeds
<1>2. ASSUME NEW w \in Worker,
             \/ MarkVisited(w) \/ IndexingFails(w) \/ IndexPage(w) \/ FilterLink(w)
             \/ NoLinkLeft(w) \/ LockUrlToInsert(w) \/ MeasureRoom(w) \/ InsertLink(w)
             \/ InsertEnds(w) \/ WriteUrlOpenFails(w) \/ Spill(w) \/ Attach(w)
      PROVE  UNCHANGED htmlRing
  BY <1>2 DEF MarkVisited, IndexingFails, IndexPage, FilterLink, NoLinkLeft,
         LockUrlToInsert, MeasureRoom, InsertLink, InsertEnds, WriteUrlOpenFails, Spill, Attach
<1>3. ASSUME NEW w \in Worker,
             \/ CrawlOwnUrl(w) \/ CrawlLockUrl(w) \/ CrawlLockHtml(w) \/ HtmlRingFull(w)
             \/ KeepOneLink(w) \/ ParseLockHtml(w) \/ HtmlRingEmpty(w) \/ LoadUrl(w)
             \/ ParseLockUrl(w) \/ KeepAllLinks(w)
      PROVE  UNCHANGED htmlRing
  BY <1>3 DEF CrawlOwnUrl, CrawlLockUrl, CrawlLockHtml, HtmlRingFull, KeepOneLink,
         ParseLockHtml, HtmlRingEmpty, LoadUrl, ParseLockUrl, KeepAllLinks
<1>4. ASSUME MasterStarts \/ Interrupt \/ AtExit \/ \E w \in Worker : TakeInterrupt(w)
      PROVE  UNCHANGED htmlRing
  BY <1>4 DEF MasterStarts, Seed, SeedEnds, Spawn, SpawnEnds, Interrupt, AtExit,
         DrainOpenFails, DrainOpens, DrainCopy, DrainAdvance, DrainEnds, KillWorkers,
         TakeInterrupt, DieOfInterrupt, SurviveInterrupt
<1>5. UNCHANGED vars => UNCHANGED htmlRing
  BY DEF vars
<1>6. ASSUME NEW w \in Crawler, CrawlStep(w)
      PROVE  StoreUrl(w) \/ StorePage(w) \/ UNCHANGED htmlRing
  <2>1. w \in Worker
    BY DEF Worker
  <2> QED BY <1>1, <1>2, <1>3, <1>6, <2>1
          DEF CrawlStep, CrawlTakeUrl, CrawlReadUrl, CrawlFetch, CrawlPersist, CrawlHandOut
<1>7. ASSUME NEW w \in Parser, ParseStep(w) PROVE LoadPage(w) \/ UNCHANGED htmlRing
  <2>1. w \in Worker
    BY DEF Worker
  <2> QED BY <1>1, <1>2, <1>3, <1>7, <2>1
          DEF ParseStep, ParseTakeUrl, ParseReadUrl, ParseFetch, ParsePersist, ParseHandOut
<1> QED BY <1>4, <1>5, <1>6, <1>7 DEF Next, RunNext

\* The first copy into a slot changes nothing a parse worker can see, the second
\* appends the page with its URL, and the second copy out of a slot takes the
\* oldest page away; every other step leaves the contents alone.
LEMMA HtmlRingMapsSteps ==
  ASSUME HtmlInv, [Next]_vars
  PROVE  [HtmlFifo!Next]_HtmlContents
<1> DEFINE Slot == [url : Line, page : Page \cup {NoPage}]
<1>0. /\ html_queue \in [0 .. HtmlNums - 1 -> Slot]
      /\ html_head \in 0 .. HtmlNums - 1 /\ html_tail \in 0 .. HtmlNums - 1
      /\ HtmlNums \in Nat /\ HtmlNums >= 2
  BY RingSizesAssumption DEF HtmlInv, TypeOK
<1> HIDE DEF Slot
<1>1. ASSUME NEW w \in Crawler, StoreUrl(w) PROVE UNCHANGED HtmlContents
  BY <1>0, <1>1, ContentsWithoutTail DEF StoreUrl, Set, HtmlContents
<1>2. ASSUME NEW w \in Crawler, StorePage(w) PROVE HtmlFifo!Put
  <2> DEFINE e == [url |-> html_queue[html_tail].url, page |-> Stored(page[w])]
  <2>1. w \in Worker /\ pc[w] = "store_page"
    BY <1>2 DEF Worker, StorePage
  <2>2. /\ ~RingFull(html_head, html_tail, HtmlNums)
        /\ html_queue[html_tail].url = work_url[w]
        /\ page[w] # NoPage /\ page[w].of = work_url[w]
    BY <2>1 DEF HtmlInv, PageInHand, PageLabels
  <2>3. page[w] \in Page
    BY <2>1, <2>2 DEF HtmlInv, TypeOK
  <2>4. e \in [url : Url, page : Page] /\ e \in Slot
    BY <2>2, <2>3 DEF Stored, Page, Line, Slot
  <2>5. /\ html_queue' = [html_queue EXCEPT ![html_tail] = e]
        /\ html_head' = html_head /\ html_tail' = RingNext(html_tail, HtmlNums)
    BY <1>2 DEF StorePage, Set
  <2> HIDE DEF e
  <2>6. /\ Len(HtmlContents) < HtmlNums - 1
        /\ HtmlContents' = Append(HtmlContents, e)
    <3>1. PutsBehind(html_queue, html_head, html_tail, HtmlNums, e)
      BY <1>0, <2>2, <2>4, ContentsAfterPut
    <3> QED BY <2>5, <3>1 DEF HtmlContents, PutsBehind
  <2> QED BY <2>4, <2>6 DEF HtmlFifo!Put
<1>3. ASSUME NEW w \in Parser, LoadPage(w) PROVE HtmlFifo!Take
  <2>1. ~RingEmpty(html_head, html_tail)
    BY <1>3 DEF LoadPage, HtmlInv, PageInHand, Worker
  <2>2. /\ html_queue' = html_queue /\ html_tail' = html_tail
        /\ html_head' = RingNext(html_head, HtmlNums)
    BY <1>3 DEF LoadPage
  <2> QED BY <1>0, <2>1, <2>2, ContentsAfterTake DEF HtmlContents, HtmlFifo!Take
<1>4. UNCHANGED htmlRing => UNCHANGED HtmlContents
  BY DEF htmlRing, HtmlContents
<1> QED BY <1>1, <1>2, <1>3, <1>4, HtmlRingSteps DEF HtmlFifo!Next

\* The html ring is a first-in first-out queue of pages with their URLs that never
\* holds more than HTML_NUMS - 1, loses, doubles or reorders none, for any number
\* of workers and slots and wherever a SIGINT ends a worker.
THEOREM HtmlRingRefinesFifo == Spec => HtmlRingIsFifo
<1>1. Init => HtmlFifo!Init
  <2>1. RingUsed(0, 0, HtmlNums) = 0
    BY RingSizesAssumption, RingUsedIs
  <2>2. ASSUME Init PROVE HtmlContents = << >>
    BY <2>1, <2>2 DEF Init, HtmlContents, RingContents
  <2> QED BY <2>2 DEF HtmlFifo!Init
<1>2. HtmlInv /\ [Next]_vars => [HtmlFifo!Next]_HtmlContents
  BY HtmlRingMapsSteps
<1> QED BY <1>1, <1>2, HtmlInvariant, PTL DEF Spec, HtmlRingIsFifo, HtmlFifo!Spec
=============================================================================
