------------------------------ MODULE SearchRank ------------------------------
(***************************************************************************)
(* How PlainSearchStrategy::handle ranks the pages it found and cuts out   *)
(* the page of results that was asked for                                  *)
(* (strategy/plain_search_strategy.hpp:48-51 and 171-260).  urlno_arr is a *)
(* function on 0 .. end, as the array of the code is; weight gives every   *)
(* page number its urlno_weight.                                           *)
(***************************************************************************)
EXTENDS Integers, FiniteSets, SequencesExt

\* An int stored into a short.
Short(n) == ((n + 32768) % 65536) - 32768

AtLeastOne(start_page) == IF start_page < 1 THEN 1 ELSE start_page

InLimits(results_per_page, default, max) ==
  IF results_per_page \in 1 .. max THEN results_per_page ELSE default

Swapped(arr, i, j) == [arr EXCEPT ![i] = arr[j], ![j] = arr[i]]

\* Mutant: the right child is compared with the parent instead of the left child.
HeavierOfOne(arr, weight, q, size) ==
  LET heavier == {c \in {2 * q + 1, 2 * q + 2} :
                    c < size /\ weight[arr[c]] > weight[arr[q]]}
  IN  IF heavier = {} THEN q ELSE CHOOSE c \in heavier : \A d \in heavier : c >= d

\* Of node q of a heap and its children among the first size elements, the one
\* to stand at q; q itself unless a child is strictly heavier.
Heavier(arr, weight, q, size) ==
  LET l == 2 * q + 1
      r == 2 * q + 2
      next == IF l < size /\ weight[arr[l]] > weight[arr[q]] THEN l ELSE q
  IN  IF r < size /\ weight[arr[r]] > weight[arr[next]] THEN r ELSE next

\* The element at p sinks until no child is heavier.
SiftDown(arr, weight, p, size) ==
  FoldLeft(LAMBDA s, k : LET next == Heavier(s.arr, weight, s.q, size)
                         IN  [arr |-> Swapped(s.arr, s.q, next), q |-> next],
           [arr |-> arr, q |-> p],
           [k \in 1 .. size |-> k]).arr

CreateHeap(arr, weight, end) ==
  FoldLeft(LAMBDA a, p : SiftDown(a, weight, p, end + 1),
           arr, [k \in 1 .. end \div 2 + 1 |-> end \div 2 + 1 - k])

\* The heaviest element goes to tail, behind the heap that is left.
HeapSort1(arr, weight, tail) ==
  IF tail = 0 THEN arr ELSE SiftDown(Swapped(arr, 0, tail), weight, 0, tail)

\* Only as many elements are put in order as the results reach.
HeapSort(arr, weight, end, end_sub) ==
  FoldLeft(LAMBDA a, tail : HeapSort1(a, weight, tail),
           CreateHeap(arr, weight, end), [k \in 1 .. end_sub + 1 |-> end + 1 - k])

StartSub(start_page, results_per_page) == (start_page - 1) * results_per_page

EndSub(end, start_sub, results_per_page) ==
  IF start_sub + results_per_page - 1 > end THEN end
  ELSE start_sub + results_per_page - 1

\* What handle leaves in results_per_page.
TotalPages(end, results_per_page) ==
  Short((end + 1) \div results_per_page
        + (IF (end + 1) % results_per_page = 0 THEN 0 ELSE 1))

NoResults == [start_page |-> -1, results_per_page |-> -1, urls |-> << >>]

\* What handle makes of the pages in arr: both short arguments as it leaves
\* them, and the page numbers of the results.
SearchResult(arr, weight, start_page, results_per_page) ==
  LET end == Cardinality(DOMAIN arr) - 1
      start_sub == StartSub(start_page, results_per_page)
      end_sub == EndSub(end, start_sub, results_per_page)
      sorted == HeapSort(arr, weight, end, end_sub)
  IN  IF end = -1 \/ start_sub > end_sub THEN NoResults
      ELSE [start_page |-> start_page,
            results_per_page |-> TotalPages(end, results_per_page),
            urls |-> [j \in 1 .. end_sub - start_sub + 1 |->
                        sorted[end - start_sub - (j - 1)]]]

-----------------------------------------------------------------------------
(* The links below the results (http/search_server.cc:179-205).            *)

\* Mutant: the window is not cut off at the last page.
LastLinkUncut(first, total, window) == first + window - 1

FirstLink(start_page, window) ==
  IF start_page - window \div 2 < 1 THEN 1 ELSE start_page - window \div 2

LastLink(first, total, window) ==
  IF first + window - 1 > total THEN total ELSE first + window - 1

\* The page numbers linked to: those in the window, the one before and the
\* one after.
Links(start_page, total, window) ==
  LET i == FirstLink(start_page, window)
      j == LastLink(i, total, window)
      pre == IF start_page - 1 < 1 THEN total ELSE start_page - 1
      next == IF start_page + 1 > j THEN 1 ELSE start_page + 1
  IN  (i .. j) \cup {pre, next}

-----------------------------------------------------------------------------
\* In a list sorted by weight, the greatest first, url may stand at place k.
AtItsRank(url, k, weight) ==
  /\ Cardinality({u \in DOMAIN weight : weight[u] > weight[url]}) < k
  /\ Cardinality({u \in DOMAIN weight : weight[u] >= weight[url]}) >= k

\* urls are the results from place first on, size of them if there are so many.
IsSliceOfRanking(urls, weight, first, size) ==
  /\ \A j, k \in DOMAIN urls : urls[j] = urls[k] => j = k
  /\ \A k \in DOMAIN urls :
       urls[k] \in DOMAIN weight /\ AtItsRank(urls[k], first + k - 1, weight)
  /\ LET behind == Cardinality(DOMAIN weight) - (first - 1)
     IN  Len(urls) = IF behind <= 0 THEN 0 ELSE IF behind < size THEN behind ELSE size
=============================================================================
