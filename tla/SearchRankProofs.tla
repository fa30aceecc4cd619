--------------------------- MODULE SearchRankProofs ---------------------------
(***************************************************************************)
(* The heap sort of PlainSearchStrategy::handle puts any number of pages   *)
(* in order, as far as the results reach, and the results cut out of it    *)
(* are the slice of the ranking that was asked for: ResultIsSlice.         *)
(*                                                                         *)
(* The sort is made of folds over 1 .. n.  A fold is a function that is    *)
(* defined by itself; FoldExists gives the function, and UpTo the          *)
(* induction over its rounds.  On these stand SiftDownSinks (one element   *)
(* sinks and leaves a heap), CreateHeapIsHeap, HeapTop (the first element  *)
(* is the heaviest), and HeapSortSorts.  Sorting further leaves the places *)
(* that are sorted as they are (HeapSortsAgree), so the pages of results   *)
(* are cut out of one ranking: ResultsArePaged.                            *)
(***************************************************************************)
EXTENDS SearchRank, WeightListProofs, FiniteSetTheorems

\* Induction up to n.
LEMMA UpTo ==
  ASSUME NEW n \in Nat, NEW S, 0 \in S, \A k \in 1 .. n : k - 1 \in S => k \in S
  PROVE  \A k \in 0 .. n : k \in S
<1> DEFINE Bad == {k \in 0 .. n : k \notin S}
<1> SUFFICES ASSUME Bad # {} PROVE FALSE
  OBVIOUS
<1>1. Min(Bad) \in Bad /\ \A k \in Bad : Min(Bad) <= k
  <2>1. Bad \in SUBSET Nat
    OBVIOUS
  <2> HIDE DEF Bad
  <2> QED BY <2>1, MinIsLeast
<1>2. PICK m \in Bad : \A k \in Bad : m <= k
  BY <1>1
<1>3. m \in 1 .. n /\ m - 1 \notin S
  BY <1>2
<1>4. m - 1 \in Bad
  BY <1>3
<1> QED BY <1>2, <1>3, <1>4

LEMMA MaxIsGreatest ==
  ASSUME NEW n \in Nat, NEW s \in SUBSET (1 .. n), s # {}
  PROVE  Max(s) \in s /\ \A k \in s : k <= Max(s)
<1> DEFINE T == {n - k : k \in s}
<1>1. T \in SUBSET Nat /\ T # {}
  OBVIOUS
<1>2. Min(T) \in T /\ \A y \in T : Min(T) <= y
  <2> HIDE DEF T
  <2> QED BY <1>1, MinIsLeast
<1>3. PICK x \in s : Min(T) = n - x
  BY <1>2
<1>4. \A k \in s : n - x <= n - k
  BY <1>2, <1>3
<1>5. \A k \in s : x >= k
  BY <1>4
<1> QED BY <1>5 DEF Max

LEMMA MaxOfInterval ==
  ASSUME NEW k \in Nat, k # 0
  PROVE  Max(1 .. k) = k /\ (1 .. k) \ {k} = 1 .. k - 1 /\ 1 .. k # {}
<1>1. k \in 1 .. k
  OBVIOUS
<1>2. Max(1 .. k) \in 1 .. k /\ Max(1 .. k) >= k
  BY <1>1, MaxIsGreatest
<1> QED BY <1>1, <1>2

\* A fold over 1 .. n from the left is a function defined by itself on the sets
\* of numbers up to n.
IsFold(G, n, base, F) ==
  \A s \in SUBSET (1 .. n) :
    G[s] = IF s = {} THEN base ELSE F[<<G[s \ {Max(s)}], Max(s)>>]

\* There is such a function.
LEMMA FoldExists ==
  ASSUME NEW n \in Nat, NEW A, NEW base \in A, NEW F \in [A \X (1 .. n) -> A]
  PROVE  \E G \in [SUBSET (1 .. n) -> A] : IsFold(G, n, base, F)
<1> DEFINE Folds(g, m) ==
             /\ g \in [SUBSET (1 .. m) -> A]
             /\ \A s \in SUBSET (1 .. m) :
                  g[s] = IF s = {} THEN base ELSE F[<<g[s \ {Max(s)}], Max(s)>>]
           S == {m \in Nat : \E g : Folds(g, m)}
<1>1. 0 \in S
  <2> DEFINE g == [s \in {{}} |-> base]
  <2>1. SUBSET (1 .. 0) = {{}}
    <3>1. 1 .. 0 = {}
      OBVIOUS
    <3> QED BY <3>1
  <2>2. Folds(g, 0)
    BY <2>1
  <2> HIDE DEF g, Folds
  <2> QED BY <2>2
<1>2. ASSUME NEW m \in 1 .. n, m - 1 \in S PROVE m \in S
  <2>1. PICK g : Folds(g, m - 1)
    BY <1>2
  <2>0. m \in Nat /\ 1 .. m \subseteq 1 .. n
    OBVIOUS
  <2> DEFINE h == [s \in SUBSET (1 .. m) |->
                     IF s = {} THEN base ELSE F[<<g[s \ {Max(s)}], Max(s)>>]]
  <2>2. \A s \in SUBSET (1 .. m) : s # {} =>
          Max(s) \in 1 .. n /\ s \ {Max(s)} \in SUBSET (1 .. m - 1)
    <3> SUFFICES ASSUME NEW s \in SUBSET (1 .. m), s # {}
                 PROVE  Max(s) \in 1 .. n /\ s \ {Max(s)} \in SUBSET (1 .. m - 1)
      OBVIOUS
    <3>1. Max(s) \in s /\ \A k \in s : k <= Max(s)
      BY <2>0, MaxIsGreatest
    <3>2. ASSUME NEW k \in s \ {Max(s)} PROVE k \in 1 .. m - 1
      <4>1. k \in 1 .. m /\ Max(s) \in 1 .. m /\ k <= Max(s) /\ k # Max(s)
        BY <3>1
      <4> QED BY <2>0, <4>1
    <3> QED BY <2>0, <3>1, <3>2
  <2>3. h \in [SUBSET (1 .. m) -> A]
    <3> SUFFICES ASSUME NEW s \in SUBSET (1 .. m), s # {}
                 PROVE  F[<<g[s \ {Max(s)}], Max(s)>>] \in A
      OBVIOUS
    <3>1. g[s \ {Max(s)}] \in A /\ Max(s) \in 1 .. n
      BY <2>1, <2>2
    <3> QED BY <3>1
  <2>4. \A s \in SUBSET (1 .. m - 1) : h[s] = g[s]
    <3> SUFFICES ASSUME NEW s \in SUBSET (1 .. m - 1) PROVE h[s] = g[s]
      OBVIOUS
    <3>1. s \in SUBSET (1 .. m)
      OBVIOUS
    <3> QED BY <2>1, <3>1
  <2>5. \A s \in SUBSET (1 .. m) : s # {} => h[s \ {Max(s)}] = g[s \ {Max(s)}]
    BY <2>2, <2>4
  <2>6. Folds(h, m)
    BY <2>3, <2>5
  <2> HIDE DEF h, Folds
  <2> QED BY <2>6
<1> HIDE DEF Folds
<1>3. n \in S
  <2> HIDE DEF S
  <2> QED BY <1>1, <1>2, UpTo
<1> QED BY <1>3 DEF Folds, IsFold

-----------------------------------------------------------------------------
\* arr holds n pages of S, none twice.
Arranged(arr, n, S) ==
  /\ arr \in [0 .. n - 1 -> S]
  /\ \A i, j \in 0 .. n - 1 : arr[i] = arr[j] => i = j

\* a is arr with the elements from p to size - 1 in another order.
Rearranged(a, arr, n, S, p, size) ==
  /\ Arranged(a, n, S)
  /\ \A i \in 0 .. n - 1 : i < p \/ i >= size => a[i] = arr[i]
  /\ \A i \in p .. size - 1 : \E j \in p .. size - 1 : a[i] = arr[j]

HeapChildren(i, size) == {c \in {2 * i + 1, 2 * i + 2} : c < size}

\* From place p on nothing is heavier than the place above it.
HeapFrom(arr, weight, p, size) ==
  \A i \in p .. size - 1 : \A c \in HeapChildren(i, size) : weight[arr[i]] >= weight[arr[c]]

\* The same but for the children of q, which are not heavier than what is above q.
Sinking(arr, weight, q, p, size) ==
  \A i \in p .. size - 1 :
    /\ i # q => \A c \in HeapChildren(i, size) : weight[arr[i]] >= weight[arr[c]]
    /\ q \in HeapChildren(i, size) =>
         \A c \in HeapChildren(q, size) : weight[arr[i]] >= weight[arr[c]]

LEMMA SwappedRange ==
  ASSUME NEW n \in Nat, NEW S, NEW arr \in [0 .. n - 1 -> S],
         NEW i \in 0 .. n - 1, NEW j \in 0 .. n - 1
  PROVE  Swapped(arr, i, j) \in [0 .. n - 1 -> S]
  BY DEF Swapped

LEMMA SwappedIs ==
  ASSUME NEW n \in Nat, NEW S, NEW arr, Arranged(arr, n, S),
         NEW i \in 0 .. n - 1, NEW j \in 0 .. n - 1
  PROVE  /\ Arranged(Swapped(arr, i, j), n, S)
         /\ \A k \in 0 .. n - 1 :
              Swapped(arr, i, j)[k] = IF k = j THEN arr[i] ELSE IF k = i THEN arr[j] ELSE arr[k]
<1>1. \A k \in 0 .. n - 1 :
        Swapped(arr, i, j)[k] = IF k = j THEN arr[i] ELSE IF k = i THEN arr[j] ELSE arr[k]
  BY DEF Arranged, Swapped
<1>2. Swapped(arr, i, j) \in [0 .. n - 1 -> S]
  BY SwappedRange DEF Arranged
<1> HIDE DEF Swapped
<1> QED BY <1>1, <1>2 DEF Arranged

\* The one of a place and its children that Heavier picks is no lighter than any.
LEMMA HeavierIs ==
  ASSUME NEW n \in Nat, NEW S, NEW weight \in [S -> Nat], NEW arr, Arranged(arr, n, S),
         NEW size \in 1 .. n, NEW q \in 0 .. size - 1
  PROVE  LET next == Heavier(arr, weight, q, size)
         IN  /\ next = q \/ next \in HeapChildren(q, size)
             /\ \A c \in HeapChildren(q, size) \cup {q} : weight[arr[next]] >= weight[arr[c]]
             /\ next # q => weight[arr[next]] > weight[arr[q]]
<1> DEFINE W(i) == weight[arr[i]]
           l == 2 * q + 1
           r == 2 * q + 2
           mid == IF l < size /\ W(l) > W(q) THEN l ELSE q
           next == IF r < size /\ W(r) > W(mid) THEN r ELSE mid
<1>1. \A i \in 0 .. size - 1 : W(i) \in Nat
  BY DEF Arranged
<1>2. Heavier(arr, weight, q, size) = next
  BY DEF Heavier
<1>3. HeapChildren(q, size) = {c \in {l, r} : c < size}
  BY DEF HeapChildren
<1>4. l \in Nat /\ r \in Nat /\ q \in Nat /\ size \in Nat /\ q < size /\ l # q /\ r # q
  OBVIOUS
<1> HIDE DEF W, l, r
<1>5. /\ mid \in 0 .. size - 1 /\ (mid = q \/ mid = l) /\ W(mid) >= W(q)
      /\ l < size => W(mid) >= W(l)
      /\ mid # q => W(mid) > W(q)
  BY <1>1, <1>4
<1> HIDE DEF mid
<1>6. /\ next \in 0 .. size - 1 /\ (next = mid \/ next = r) /\ W(next) >= W(mid)
      /\ r < size => W(next) >= W(r)
      /\ next # mid => W(next) > W(mid)
  BY <1>1, <1>4, <1>5
<1> HIDE DEF next
<1>7. W(next) \in Nat /\ W(mid) \in Nat /\ W(q) \in Nat /\ next < size
      /\ (l < size => W(l) \in Nat)
  BY <1>1, <1>4, <1>5, <1>6
<1>8. \A c \in HeapChildren(q, size) \cup {q} : W(next) >= W(c)
  BY <1>3, <1>5, <1>6, <1>7
<1>9. next = q \/ next \in HeapChildren(q, size)
  BY <1>3, <1>5, <1>6, <1>7
<1>10. next # q => W(next) > W(q)
  BY <1>5, <1>6, <1>7
<1> QED BY <1>2, <1>8, <1>9, <1>10 DEF W

LEMMA HeavierRange ==
  ASSUME NEW arr, NEW weight, NEW size \in Nat, NEW q \in 0 .. size - 1
  PROVE  Heavier(arr, weight, q, size) \in 0 .. size - 1
  BY DEF Heavier

LEMMA HeapChildrenAre ==
  ASSUME NEW size \in Nat, NEW i \in Nat, NEW c \in HeapChildren(i, size)
  PROVE  /\ c \in i + 1 .. size - 1
         /\ \A k \in Nat : c \in HeapChildren(k, size) => k = i
  BY DEF HeapChildren

\* One round of a heap: what sinks has found its place, or is one level below.
LEMMA SinkOnce ==
  ASSUME NEW n \in Nat, NEW S, NEW weight \in [S -> Nat], NEW arr, Arranged(arr, n, S),
         NEW size \in 1 .. n, NEW p \in 0 .. size - 1, NEW q \in p .. size - 1,
         Sinking(arr, weight, q, p, size)
  PROVE  LET next == Heavier(arr, weight, q, size)
             a == Swapped(arr, q, next)
         IN  \/ next = q /\ a = arr /\ HeapFrom(arr, weight, p, size)
             \/ next \in q + 1 .. size - 1 /\ Sinking(a, weight, next, p, size)
<1> DEFINE next == Heavier(arr, weight, q, size)
           a == Swapped(arr, q, next)
<1>1. /\ next = q \/ next \in HeapChildren(q, size)
      /\ \A c \in HeapChildren(q, size) \cup {q} : weight[arr[next]] >= weight[arr[c]]
  BY HeavierIs
<1>2. \A i \in 0 .. n - 1 : weight[arr[i]] \in Nat
  BY DEF Arranged
<1> HIDE DEF next
<1>3. CASE next = q
  <2>1. a = arr
    BY <1>3 DEF Arranged, Swapped
  <2>2. HeapFrom(arr, weight, p, size)
    BY <1>1, <1>3 DEF HeapFrom, Sinking
  <2> QED BY <1>3, <2>1, <2>2 DEF next
<1>4. CASE next \in HeapChildren(q, size)
  <2>1. next \in q + 1 .. size - 1 /\ \A k \in Nat : next \in HeapChildren(k, size) => k = q
    BY <1>4, HeapChildrenAre
  <2>2. \A k \in 0 .. n - 1 :
          a[k] = IF k = next THEN arr[q] ELSE IF k = q THEN arr[next] ELSE arr[k]
    BY <2>1, SwappedIs
  <2> HIDE DEF a
  <2>3. ASSUME NEW i \in p .. size - 1, i # next, NEW c \in HeapChildren(i, size)
        PROVE  weight[a[i]] >= weight[a[c]]
    <3>1. c \in i + 1 .. size - 1
      BY <2>3, HeapChildrenAre
    <3>2. CASE i = q
      <4>1. weight[a[i]] = weight[arr[next]]
        BY <2>1, <2>2, <3>2
      <4>2. a[c] = arr[q] \/ a[c] = arr[c]
        BY <2>2, <3>1, <3>2
      <4> QED BY <1>1, <3>2, <4>1, <4>2
    <3>3. CASE i # q
      <4>1. a[i] = arr[i] /\ c # next
        BY <2>1, <2>2, <2>3, <3>3
      <4>2. CASE c = q
        <5>1. a[c] = arr[next]
          BY <2>1, <2>2, <4>2
        <5> QED BY <1>4, <4>1, <4>2, <5>1 DEF Sinking
      <4>3. CASE c # q
        <5>1. a[c] = arr[c]
          BY <2>2, <3>1, <4>1, <4>3
        <5> QED BY <3>3, <4>1, <5>1 DEF Sinking
      <4> QED BY <4>2, <4>3
    <3> QED BY <3>2, <3>3
  <2>4. ASSUME NEW i \in p .. size - 1, next \in HeapChildren(i, size), NEW c \in HeapChildren(next, size)
        PROVE  weight[a[i]] >= weight[a[c]]
    <3>1. i = q /\ c \in next + 1 .. size - 1
      BY <2>1, <2>4, HeapChildrenAre
    <3>2. a[i] = arr[next] /\ a[c] = arr[c]
      BY <2>1, <2>2, <3>1
    <3>3. next \in p .. size - 1 /\ next # q
      BY <2>1
    <3> QED BY <3>2, <3>3 DEF Sinking
  <2>5. Sinking(a, weight, next, p, size)
    BY <2>3, <2>4 DEF Sinking
  <2> QED BY <2>1, <2>5 DEF next, a
<1> QED BY <1>1, <1>3, <1>4

LEMMA SwapRearranges ==
  ASSUME NEW n \in Nat, NEW S, NEW arr, NEW a, NEW size \in 0 .. n, NEW p \in 0 .. n - 1,
         Arranged(arr, n, S), Rearranged(a, arr, n, S, p, size),
         NEW i \in p .. size - 1, NEW j \in p .. size - 1
  PROVE  Rearranged(Swapped(a, i, j), arr, n, S, p, size)
<1> DEFINE b == Swapped(a, i, j)
<1>1. /\ Arranged(b, n, S)
      /\ \A k \in 0 .. n - 1 : b[k] = IF k = j THEN a[i] ELSE IF k = i THEN a[j] ELSE a[k]
  <2>1. Arranged(a, n, S) /\ i \in 0 .. n - 1 /\ j \in 0 .. n - 1
    BY DEF Rearranged
  <2> QED BY <2>1, SwappedIs
<1> HIDE DEF b
<1>2. \A k \in 0 .. n - 1 : k < p \/ k >= size => b[k] = arr[k]
  BY <1>1 DEF Rearranged
<1>3. ASSUME NEW k \in p .. size - 1 PROVE \E l \in p .. size - 1 : b[k] = arr[l]
  <2>1. \E l \in p .. size - 1 : b[k] = a[l]
    BY <1>1
  <2> QED BY <2>1 DEF Rearranged
<1> QED BY <1>1, <1>2, <1>3 DEF Rearranged, b

\* What is so after k rounds of SiftDown from place p on, with the sinking page
\* at q: at least k levels below p, or where it belongs.
Sunk(a, q, k, arr, weight, n, S, p, size) ==
  /\ q \in p .. size - 1
  /\ Rearranged(a, arr, n, S, p, size)
  /\ HeapFrom(arr, weight, p + 1, size) =>
       /\ Sinking(a, weight, q, p, size)
       /\ q >= p + k \/ HeapFrom(a, weight, p, size)

LEMMA SinkRound ==
  ASSUME NEW n \in Nat, NEW S, NEW weight \in [S -> Nat], NEW arr, Arranged(arr, n, S),
         NEW size \in 1 .. n, NEW p \in 0 .. size - 1, NEW k \in Nat, NEW a, NEW q,
         Sunk(a, q, k, arr, weight, n, S, p, size)
  PROVE  LET next == Heavier(a, weight, q, size)
         IN  Sunk(Swapped(a, q, next), next, k + 1, arr, weight, n, S, p, size)
<1> DEFINE next == Heavier(a, weight, q, size)
           b == Swapped(a, q, next)
<1> SUFFICES Sunk(b, next, k + 1, arr, weight, n, S, p, size)
  OBVIOUS
<1>1. /\ q \in p .. size - 1 /\ q \in 0 .. size - 1 /\ Arranged(a, n, S)
      /\ Rearranged(a, arr, n, S, p, size)
  BY DEF Sunk, Rearranged
<1>2. /\ next = q \/ next \in HeapChildren(q, size)
      /\ next # q => weight[a[next]] > weight[a[q]]
  BY <1>1, HeavierIs
<1> HIDE DEF next
<1>3. next \in p .. size - 1
  BY <1>1, <1>2, HeapChildrenAre
<1>4. Rearranged(b, arr, n, S, p, size)
  BY <1>1, <1>3, SwapRearranges
<1>5. ASSUME HeapFrom(arr, weight, p + 1, size)
      PROVE  /\ Sinking(b, weight, next, p, size)
             /\ next >= p + (k + 1) \/ HeapFrom(b, weight, p, size)
  <2>1. /\ Sinking(a, weight, q, p, size)
        /\ q >= p + k \/ HeapFrom(a, weight, p, size)
    BY <1>5 DEF Sunk
  <2>2. \/ next = q /\ b = a /\ HeapFrom(a, weight, p, size)
        \/ next \in q + 1 .. size - 1 /\ Sinking(b, weight, next, p, size)
    BY <1>1, <2>1, SinkOnce DEF next
  <2>3. ASSUME next # q PROVE ~HeapFrom(a, weight, p, size)
    <3>1. weight[a[q]] \in Nat /\ weight[a[next]] \in Nat
      BY <1>1, <1>3 DEF Arranged
    <3> QED BY <1>1, <1>2, <2>3, <3>1 DEF HeapFrom
  <2> HIDE DEF b
  <2>4. CASE next = q /\ b = a /\ HeapFrom(a, weight, p, size)
    BY <2>1, <2>4
  <2>5. CASE next \in q + 1 .. size - 1 /\ Sinking(b, weight, next, p, size)
    BY <1>1, <2>1, <2>3, <2>5
  <2> QED BY <2>2, <2>4, <2>5
<1> HIDE DEF b
<1> QED BY <1>3, <1>4, <1>5 DEF Sunk

\* SiftDown moves pages among the places from p on, and makes a heap from p on
\* of one from p + 1 on: size rounds are enough.
LEMMA SiftDownSinks ==
  ASSUME NEW n \in Nat, NEW S, NEW weight \in [S -> Nat], NEW arr, Arranged(arr, n, S),
         NEW size \in 1 .. n, NEW p \in 0 .. size - 1
  PROVE  /\ Rearranged(SiftDown(arr, weight, p, size), arr, n, S, p, size)
         /\ HeapFrom(arr, weight, p + 1, size) =>
              HeapFrom(SiftDown(arr, weight, p, size), weight, p, size)
<1> DEFINE A == [arr : [0 .. n - 1 -> S], q : 0 .. size - 1]
           start == [arr |-> arr, q |-> p]
           next(s) == Heavier(s.arr, weight, s.q, size)
           step(s) == [arr |-> Swapped(s.arr, s.q, next(s)), q |-> next(s)]
           rounds == [k \in 1 .. size |-> k]
           it == CHOOSE iter : iter = [s \in SUBSET DOMAIN rounds |->
                   IF s = {} THEN start ELSE step(iter[s \ {Max(s)}])]
           Inv(s, k) == s \in A /\ Sunk(s.arr, s.q, k, arr, weight, n, S, p, size)
<1>0. size \in Nat /\ n \in Nat /\ p \in Nat
  OBVIOUS
<1>1. SiftDown(arr, weight, p, size) = it[DOMAIN rounds].arr
  BY DEF SiftDown, FoldLeft, MapThenFoldSet
<1>2. start \in A
  BY DEF Arranged
<1>3. ASSUME NEW s \in A PROVE step(s) \in A
  <2>1. next(s) \in 0 .. size - 1
    <3>1. s.q \in 0 .. size - 1
      OBVIOUS
    <3> QED BY <1>0, <3>1, HeavierRange
  <2>2. Swapped(s.arr, s.q, next(s)) \in [0 .. n - 1 -> S]
    <3>1. /\ s.arr \in [0 .. n - 1 -> S] /\ s.q \in 0 .. n - 1
          /\ next(s) \in 0 .. n - 1
      BY <2>1
    <3> HIDE DEF next, A
    <3> QED BY <3>1, SwappedRange
  <2> QED BY <2>1, <2>2
<1> HIDE DEF step
<1>4. it = [s \in SUBSET DOMAIN rounds |-> IF s = {} THEN start ELSE step(it[s \ {Max(s)}])]
  <2> DEFINE F == [x \in A \X (1 .. size) |-> step(x[1])]
  <2>1. F \in [A \X (1 .. size) -> A]
    BY <1>3
  <2> HIDE DEF A, start, F
  <2> HIDE DEF it, rounds, next, Inv
  <2>2. PICK G \in [SUBSET (1 .. size) -> A] : IsFold(G, size, start, F)
    BY <1>0, <1>2, <2>1, FoldExists
  <2>3. ASSUME NEW s \in SUBSET (1 .. size), s # {}
        PROVE  F[<<G[s \ {Max(s)}], Max(s)>>] = step(G[s \ {Max(s)}])
    <3>1. Max(s) \in 1 .. size
      BY <1>0, <2>3, MaxIsGreatest
    <3> QED BY <3>1 DEF F
  <2>4. G = [s \in SUBSET DOMAIN rounds |-> IF s = {} THEN start ELSE step(G[s \ {Max(s)}])]
    BY <2>2, <2>3 DEF IsFold, rounds
  <2> QED BY <2>4 DEF it
<1>5. DOMAIN rounds = 1 .. size
  OBVIOUS
<1> HIDE DEF it, rounds
<1>6. it[{}] = start /\ \A k \in 1 .. size : it[1 .. k] = step(it[1 .. k - 1])
  <2>1. it[{}] = start
    BY <1>4
  <2>2. ASSUME NEW k \in 1 .. size PROVE it[1 .. k] = step(it[1 .. k - 1])
    <3>1. 1 .. k \in SUBSET (1 .. size) /\ k \in Nat /\ k # 0
      OBVIOUS
    <3>2. Max(1 .. k) = k /\ (1 .. k) \ {k} = 1 .. k - 1 /\ 1 .. k # {}
      BY <3>1, MaxOfInterval
    <3> QED BY <1>4, <1>5, <3>1, <3>2
  <2> QED BY <2>1, <2>2
<1>7. Inv(start, 0)
  <2>1. HeapFrom(arr, weight, p + 1, size) => Sinking(arr, weight, p, p, size)
    BY HeapChildrenAre DEF Sinking, HeapFrom
  <2>2. Rearranged(arr, arr, n, S, p, size)
    BY DEF Rearranged
  <2> QED BY <1>2, <2>1, <2>2 DEF Sunk
<1>8. ASSUME NEW k \in 1 .. size, NEW s, Inv(s, k - 1) PROVE Inv(step(s), k)
  <2>1. k - 1 \in Nat /\ (k - 1) + 1 = k
    OBVIOUS
  <2>2. step(s).arr = Swapped(s.arr, s.q, next(s)) /\ step(s).q = next(s)
    BY DEF step
  <2>3. Sunk(Swapped(s.arr, s.q, next(s)), next(s), k, arr, weight, n, S, p, size)
    BY <1>8, <2>1, SinkRound
  <2>4. step(s) \in A
    BY <1>3, <1>8
  <2> HIDE DEF next, A
  <2> QED BY <2>2, <2>3, <2>4
<1> HIDE DEF Inv
<1>9. Inv(it[1 .. size], size)
  <2> DEFINE T == {k \in 0 .. size : Inv(it[1 .. k], k)}
  <2>1. 0 \in T
    <3>1. 1 .. 0 = {}
      OBVIOUS
    <3> QED BY <1>6, <1>7, <3>1
  <2>2. ASSUME NEW k \in 1 .. size, k - 1 \in T PROVE k \in T
    BY <1>6, <1>8, <2>2
  <2> HIDE DEF T
  <2>3. size \in T
    BY <2>1, <2>2, UpTo
  <2> QED BY <2>3 DEF T
<1> QED BY <1>1, <1>5, <1>9 DEF Inv, Sunk

\* What stands at the top of a heap is the heaviest of it.
LEMMA HeapTop ==
  ASSUME NEW n \in Nat, NEW S, NEW weight \in [S -> Nat], NEW arr, Arranged(arr, n, S),
         NEW size \in 1 .. n, HeapFrom(arr, weight, 0, size)
  PROVE  \A i \in 0 .. size - 1 : weight[arr[0]] >= weight[arr[i]]
<1> DEFINE T == {k \in 0 .. size - 1 : \A i \in 0 .. k : weight[arr[0]] >= weight[arr[i]]}
<1>1. \A i \in 0 .. size - 1 : weight[arr[i]] \in Nat
  BY DEF Arranged
<1>2. 0 \in T
  BY <1>1
<1>3. ASSUME NEW k \in 1 .. size - 1, k - 1 \in T PROVE k \in T
  <2>1. PICK i \in 0 .. k - 1 : k \in HeapChildren(i, size)
    <3>1. (k - 1) \div 2 \in 0 .. k - 1 /\ k \in HeapChildren((k - 1) \div 2, size)
      BY DEF HeapChildren
    <3> QED BY <3>1
  <2>2. weight[arr[i]] >= weight[arr[k]] /\ weight[arr[0]] >= weight[arr[i]]
    BY <1>3, <2>1 DEF HeapFrom
  <2>3. weight[arr[0]] >= weight[arr[k]]
    BY <1>1, <2>1, <2>2
  <2>4. \A j \in 0 .. k : j \in 0 .. k - 1 \/ j = k
    OBVIOUS
  <2> QED BY <1>3, <2>3, <2>4
<1> HIDE DEF T
<1>4. size - 1 \in T
  BY <1>2, <1>3, UpTo
<1> QED BY <1>4 DEF T

LEMMA CreateHeapIsHeap ==
  ASSUME NEW n \in Nat \ {0}, NEW S, NEW weight \in [S -> Nat], NEW arr, Arranged(arr, n, S)
  PROVE  /\ Arranged(CreateHeap(arr, weight, n - 1), n, S)
         /\ HeapFrom(CreateHeap(arr, weight, n - 1), weight, 0, n)
<1> DEFINE A == {a \in [0 .. n - 1 -> S] : Arranged(a, n, S)}
           h == (n - 1) \div 2 + 1
           rounds == [k \in 1 .. (n - 1) \div 2 + 1 |-> (n - 1) \div 2 + 1 - k]
           step(a, k) == SiftDown(a, weight, rounds[k], n - 1 + 1)
           it == CHOOSE iter : iter = [s \in SUBSET DOMAIN rounds |->
                   IF s = {} THEN arr ELSE step(iter[s \ {Max(s)}], Max(s))]
           Inv(a, k) == a \in A /\ HeapFrom(a, weight, h - k, n)
<1>0. n \in Nat /\ h \in Nat /\ h \in 1 .. n /\ n - 1 + 1 = n /\ n \in 1 .. n
  OBVIOUS
<1>1. CreateHeap(arr, weight, n - 1) = it[DOMAIN rounds]
  BY DEF CreateHeap, FoldLeft, MapThenFoldSet
<1>2. DOMAIN rounds = 1 .. h /\ \A k \in 1 .. h : rounds[k] = h - k
  OBVIOUS
<1>3. ASSUME NEW a \in A, NEW k \in 1 .. h
      PROVE  /\ step(a, k) \in A
             /\ HeapFrom(a, weight, h - (k - 1), n) => HeapFrom(step(a, k), weight, h - k, n)
  <2>1. step(a, k) = SiftDown(a, weight, h - k, n) /\ h - k \in 0 .. n - 1
        /\ (h - k) + 1 = h - (k - 1) /\ Arranged(a, n, S)
    BY <1>0
  <2> HIDE DEF h, step
  <2>2. /\ Rearranged(SiftDown(a, weight, h - k, n), a, n, S, h - k, n)
        /\ HeapFrom(a, weight, (h - k) + 1, n) =>
             HeapFrom(SiftDown(a, weight, h - k, n), weight, h - k, n)
    BY <1>0, <2>1, SiftDownSinks
  <2> QED BY <2>1, <2>2 DEF Rearranged, Arranged
<1>4. arr \in A
  BY DEF Arranged
<1>5. Inv(arr, 0)
  <2>1. \A i \in h .. n - 1 : HeapChildren(i, n) = {}
    BY DEF HeapChildren
  <2> QED BY <1>4, <2>1 DEF HeapFrom
<1> HIDE DEF step, A, rounds, h
<1>6. it = [s \in SUBSET DOMAIN rounds |->
              IF s = {} THEN arr ELSE step(it[s \ {Max(s)}], Max(s))]
  <2> DEFINE F == [x \in A \X (1 .. h) |-> step(x[1], x[2])]
  <2>1. F \in [A \X (1 .. h) -> A]
    BY <1>3
  <2> HIDE DEF F, it, Inv
  <2>2. PICK G \in [SUBSET (1 .. h) -> A] : IsFold(G, h, arr, F)
    BY <1>0, <1>4, <2>1, FoldExists
  <2>3. ASSUME NEW s \in SUBSET (1 .. h), s # {}
        PROVE  F[<<G[s \ {Max(s)}], Max(s)>>] = step(G[s \ {Max(s)}], Max(s))
    <3>1. Max(s) \in 1 .. h
      BY <1>0, <2>3, MaxIsGreatest
    <3> QED BY <3>1 DEF F
  <2>4. G = [s \in SUBSET DOMAIN rounds |->
               IF s = {} THEN arr ELSE step(G[s \ {Max(s)}], Max(s))]
    BY <1>2, <2>2, <2>3 DEF IsFold
  <2> QED BY <2>4 DEF it
<1> HIDE DEF it
<1>7. it[{}] = arr /\ \A k \in 1 .. h : it[1 .. k] = step(it[1 .. k - 1], k)
  <2>1. it[{}] = arr
    BY <1>6
  <2>2. ASSUME NEW k \in 1 .. h PROVE it[1 .. k] = step(it[1 .. k - 1], k)
    <3>1. 1 .. k \in SUBSET (1 .. h) /\ k \in Nat /\ k # 0
      BY <1>0
    <3>2. Max(1 .. k) = k /\ (1 .. k) \ {k} = 1 .. k - 1 /\ 1 .. k # {}
      BY <3>1, MaxOfInterval
    <3> QED BY <1>2, <1>6, <3>1, <3>2
  <2> QED BY <2>1, <2>2
<1>8. Inv(it[1 .. h], h)
  <2> DEFINE T == {k \in 0 .. h : Inv(it[1 .. k], k)}
  <2>1. 0 \in T
    <3>1. 1 .. 0 = {}
      OBVIOUS
    <3> HIDE DEF Inv
    <3> QED BY <1>0, <1>5, <1>7, <3>1
  <2>2. ASSUME NEW k \in 1 .. h, k - 1 \in T PROVE k \in T
    BY <1>0, <1>3, <1>7, <2>2
  <2> HIDE DEF T
  <2>3. h \in T
    BY <1>0, <2>1, <2>2, UpTo
  <2> QED BY <2>3 DEF T
<1>9. h - h = 0
  BY <1>0
<1> QED BY <1>1, <1>2, <1>8, <1>9 DEF A

\* From place m on every page is as heavy as those before it.
SortedFrom(arr, weight, m, n) ==
  \A j \in m .. n - 1 : \A i \in 0 .. j : weight[arr[i]] <= weight[arr[j]]

LEMMA HeapSort1Sorts ==
  ASSUME NEW n \in Nat, NEW S, NEW weight \in [S -> Nat], NEW arr, Arranged(arr, n, S),
         NEW tail \in 0 .. n - 1
  PROVE  LET a == HeapSort1(arr, weight, tail)
         IN  /\ Arranged(a, n, S)
             /\ \A j \in tail + 1 .. n - 1 : a[j] = arr[j]
             /\ HeapFrom(arr, weight, 0, tail + 1) /\ SortedFrom(arr, weight, tail + 1, n) =>
                  HeapFrom(a, weight, 0, tail) /\ SortedFrom(a, weight, tail, n)
<1>1. \A i \in 0 .. n - 1 : weight[arr[i]] \in Nat
  BY DEF Arranged
<1>2. CASE tail = 0
  <2>1. HeapSort1(arr, weight, tail) = arr
    BY <1>2 DEF HeapSort1
  <2>2. HeapFrom(arr, weight, 0, tail)
    BY <1>2 DEF HeapFrom
  <2>3. SortedFrom(arr, weight, tail + 1, n) => SortedFrom(arr, weight, tail, n)
    BY <1>1, <1>2 DEF SortedFrom
  <2> QED BY <1>2, <2>1, <2>2, <2>3
<1>3. CASE tail # 0
  <2> DEFINE c == Swapped(arr, 0, tail)
             a == SiftDown(c, weight, 0, tail)
  <2>1. HeapSort1(arr, weight, tail) = a
    BY <1>3 DEF HeapSort1
  <2>2. /\ Arranged(c, n, S)
        /\ \A k \in 0 .. n - 1 :
             c[k] = IF k = tail THEN arr[0] ELSE IF k = 0 THEN arr[tail] ELSE arr[k]
    BY <1>3, SwappedIs
  <2> HIDE DEF c
  <2>3. tail \in 1 .. n /\ 0 \in 0 .. tail - 1 /\ 0 + 1 = 1
    BY <1>3
  <2>4. /\ Rearranged(a, c, n, S, 0, tail)
        /\ HeapFrom(c, weight, 1, tail) => HeapFrom(a, weight, 0, tail)
    BY <2>2, <2>3, SiftDownSinks
  <2> HIDE DEF a
  <2>5. \A j \in tail .. n - 1 : a[j] = IF j = tail THEN arr[0] ELSE arr[j]
    <3> SUFFICES ASSUME NEW j \in tail .. n - 1
                 PROVE  a[j] = IF j = tail THEN arr[0] ELSE arr[j]
      OBVIOUS
    <3>1. a[j] = c[j]
      BY <2>4 DEF Rearranged
    <3> QED BY <2>2, <2>3, <3>1
  <2>6. ASSUME HeapFrom(arr, weight, 0, tail + 1), SortedFrom(arr, weight, tail + 1, n)
        PROVE  HeapFrom(a, weight, 0, tail) /\ SortedFrom(a, weight, tail, n)
    <3>1. HeapFrom(c, weight, 1, tail)
      <4> SUFFICES ASSUME NEW i \in 1 .. tail - 1, NEW k \in HeapChildren(i, tail)
                   PROVE  weight[c[i]] >= weight[c[k]]
        BY DEF HeapFrom
      <4>1. k \in i + 1 .. tail - 1
        BY HeapChildrenAre
      <4>2. c[i] = arr[i] /\ c[k] = arr[k]
        BY <2>2, <4>1
      <4>3. k \in HeapChildren(i, tail + 1)
        BY DEF HeapChildren
      <4> QED BY <2>6, <4>2, <4>3 DEF HeapFrom
    <3>2. \A i \in 0 .. tail : weight[arr[0]] >= weight[arr[i]]
      <4>1. tail + 1 \in 1 .. n /\ (tail + 1) - 1 = tail
        OBVIOUS
      <4> QED BY <2>6, <4>1, HeapTop
    <3>3. \A i \in 0 .. tail - 1 : \E l \in 0 .. tail : a[i] = arr[l]
      <4> SUFFICES ASSUME NEW i \in 0 .. tail - 1 PROVE \E l \in 0 .. tail : a[i] = arr[l]
        OBVIOUS
      <4>1. PICK j \in 0 .. tail - 1 : a[i] = c[j]
        BY <2>4 DEF Rearranged
      <4> QED BY <2>2, <2>3, <4>1
    <3>4. SortedFrom(a, weight, tail, n)
      <4> SUFFICES ASSUME NEW j \in tail .. n - 1, NEW i \in 0 .. j
                   PROVE  weight[a[i]] <= weight[a[j]]
        BY DEF SortedFrom
      <4>1. CASE j = tail
        <5>1. PICK l \in 0 .. tail : a[i] = arr[l]
          BY <3>3, <2>5, <4>1
        <5>2. a[j] = arr[0]
          BY <2>5, <4>1
        <5> QED BY <1>1, <3>2, <5>1, <5>2
      <4>2. CASE j # tail
        <5>1. PICK l \in 0 .. j : a[i] = arr[l]
          BY <3>3, <2>5, <4>2
        <5>2. a[j] = arr[j] /\ j \in tail + 1 .. n - 1
          BY <2>5, <4>2
        <5> QED BY <2>6, <5>1, <5>2 DEF SortedFrom
      <4> QED BY <4>1, <4>2
    <3> QED BY <2>4, <3>1, <3>4
  <2>7. \A j \in tail + 1 .. n - 1 : a[j] = arr[j]
    BY <2>5, <2>3
  <2> QED BY <2>1, <2>4, <2>6, <2>7 DEF Rearranged
<1> QED BY <1>2, <1>3

\* After k rounds the last k places are sorted, and the others a heap.
SortedBehindHeap(a, weight, k, n, S) ==
  Arranged(a, n, S) /\ HeapFrom(a, weight, 0, n - k) /\ SortedFrom(a, weight, n - k, n)

\* The rounds of the sort, one after the other.
LEMMA HeapSortRounds ==
  ASSUME NEW n \in Nat \ {0}, NEW S, NEW weight \in [S -> Nat], NEW arr, Arranged(arr, n, S),
         NEW end_sub \in 0 .. n - 1
  PROVE  \E round :
           /\ round[0] = CreateHeap(arr, weight, n - 1)
           /\ \A k \in 1 .. end_sub + 1 : round[k] = HeapSort1(round[k - 1], weight, n - k)
           /\ \A k \in 0 .. end_sub + 1 : SortedBehindHeap(round[k], weight, k, n, S)
           /\ HeapSort(arr, weight, n - 1, end_sub) = round[end_sub + 1]
<1> DEFINE A == {a \in [0 .. n - 1 -> S] : Arranged(a, n, S)}
           h == end_sub + 1
           rounds == [k \in 1 .. end_sub + 1 |-> n - 1 + 1 - k]
           heap == CreateHeap(arr, weight, n - 1)
           step(a, k) == HeapSort1(a, weight, rounds[k])
           it == CHOOSE iter : iter = [s \in SUBSET DOMAIN rounds |->
                   IF s = {} THEN heap ELSE step(iter[s \ {Max(s)}], Max(s))]
           Inv(a, k) == a \in A /\ HeapFrom(a, weight, 0, n - k) /\ SortedFrom(a, weight, n - k, n)
<1>0. n \in Nat /\ h \in Nat /\ h \in 1 .. n /\ n - h = n - 1 - end_sub
  OBVIOUS
<1>1. HeapSort(arr, weight, n - 1, end_sub) = it[DOMAIN rounds]
  BY DEF HeapSort, FoldLeft, MapThenFoldSet
<1>2. DOMAIN rounds = 1 .. h /\ \A k \in 1 .. h : rounds[k] = n - k
  OBVIOUS
<1>3. ASSUME NEW a \in A, NEW k \in 1 .. h
      PROVE  step(a, k) \in A /\ (Inv(a, k - 1) => Inv(step(a, k), k))
  <2>1. step(a, k) = HeapSort1(a, weight, n - k) /\ n - k \in 0 .. n - 1
        /\ (n - k) + 1 = n - (k - 1) /\ Arranged(a, n, S)
    BY <1>0
  <2> HIDE DEF step
  <2>2. /\ Arranged(HeapSort1(a, weight, n - k), n, S)
        /\ /\ HeapFrom(a, weight, 0, (n - k) + 1)
           /\ SortedFrom(a, weight, (n - k) + 1, n)
           => /\ HeapFrom(HeapSort1(a, weight, n - k), weight, 0, n - k)
              /\ SortedFrom(HeapSort1(a, weight, n - k), weight, n - k, n)
    BY <1>0, <2>1, HeapSort1Sorts
  <2> QED BY <2>1, <2>2 DEF Arranged
<1>4. heap \in A /\ HeapFrom(heap, weight, 0, n)
  <2>1. Arranged(heap, n, S) /\ HeapFrom(heap, weight, 0, n)
    BY CreateHeapIsHeap
  <2> HIDE DEF heap
  <2> QED BY <2>1 DEF Arranged
<1> HIDE DEF heap
<1>5. Inv(heap, 0)
  BY <1>4 DEF SortedFrom
<1> HIDE DEF step, A, rounds, h
<1>6. it = [s \in SUBSET DOMAIN rounds |->
              IF s = {} THEN heap ELSE step(it[s \ {Max(s)}], Max(s))]
  <2> DEFINE F == [x \in A \X (1 .. h) |-> step(x[1], x[2])]
  <2>1. F \in [A \X (1 .. h) -> A]
    BY <1>3
  <2> HIDE DEF F, it, Inv
  <2>2. PICK G \in [SUBSET (1 .. h) -> A] : IsFold(G, h, heap, F)
    BY <1>0, <1>4, <2>1, FoldExists
  <2>3. ASSUME NEW s \in SUBSET (1 .. h), s # {}
        PROVE  F[<<G[s \ {Max(s)}], Max(s)>>] = step(G[s \ {Max(s)}], Max(s))
    <3>1. Max(s) \in 1 .. h
      BY <1>0, <2>3, MaxIsGreatest
    <3> QED BY <3>1 DEF F
  <2>4. G = [s \in SUBSET DOMAIN rounds |->
               IF s = {} THEN heap ELSE step(G[s \ {Max(s)}], Max(s))]
    BY <1>2, <2>2, <2>3 DEF IsFold
  <2> QED BY <2>4 DEF it
<1> HIDE DEF it
<1>7. it[{}] = heap /\ \A k \in 1 .. h : it[1 .. k] = step(it[1 .. k - 1], k)
  <2>1. it[{}] = heap
    BY <1>6
  <2>2. ASSUME NEW k \in 1 .. h PROVE it[1 .. k] = step(it[1 .. k - 1], k)
    <3>1. 1 .. k \in SUBSET (1 .. h) /\ k \in Nat /\ k # 0
      BY <1>0
    <3>2. Max(1 .. k) = k /\ (1 .. k) \ {k} = 1 .. k - 1 /\ 1 .. k # {}
      BY <3>1, MaxOfInterval
    <3>3. 1 .. k \in SUBSET DOMAIN rounds
      BY <1>2, <3>1
    <3>4. it[1 .. k] = step(it[(1 .. k) \ {Max(1 .. k)}], Max(1 .. k))
      BY <1>6, <3>2, <3>3
    <3> QED BY <3>2, <3>4
  <2> QED BY <2>1, <2>2
<1>8. \A k \in 0 .. h : Inv(it[1 .. k], k)
  <2> DEFINE T == {k \in 0 .. h : Inv(it[1 .. k], k)}
  <2>1. 0 \in T
    <3>1. 1 .. 0 = {}
      OBVIOUS
    <3> HIDE DEF Inv
    <3> QED BY <1>0, <1>5, <1>7, <3>1
  <2>2. ASSUME NEW k \in 1 .. h, k - 1 \in T PROVE k \in T
    BY <1>0, <1>3, <1>7, <2>2
  <2> HIDE DEF T
  <2>3. \A k \in 0 .. h : k \in T
    BY <1>0, <2>1, <2>2, UpTo
  <2> QED BY <2>3 DEF T
<1> DEFINE round == [k \in 0 .. h |-> it[1 .. k]]
<1>9. round[0] = heap
  <2>1. 1 .. 0 = {} /\ 0 \in 0 .. h
    BY <1>0
  <2> QED BY <1>7, <2>1
<1>10. ASSUME NEW k \in 1 .. h PROVE round[k] = HeapSort1(round[k - 1], weight, n - k)
  <2>1. k \in 0 .. h /\ k - 1 \in 0 .. h
    BY <1>0
  <2>2. round[k] = step(it[1 .. k - 1], k)
    BY <1>7, <2>1
  <2> QED BY <1>2, <2>1, <2>2 DEF step
<1>11. \A k \in 0 .. h : SortedBehindHeap(round[k], weight, k, n, S)
  BY <1>8 DEF SortedBehindHeap, A
<1>12. HeapSort(arr, weight, n - 1, end_sub) = round[h]
  BY <1>0, <1>1, <1>2
<1> HIDE DEF round
<1> QED BY <1>9, <1>10, <1>11, <1>12 DEF h, heap

\* However many places the results reach back, they are sorted.
LEMMA HeapSortSorts ==
  ASSUME NEW n \in Nat \ {0}, NEW S, NEW weight \in [S -> Nat], NEW arr, Arranged(arr, n, S),
         NEW end_sub \in 0 .. n - 1
  PROVE  /\ Arranged(HeapSort(arr, weight, n - 1, end_sub), n, S)
         /\ SortedFrom(HeapSort(arr, weight, n - 1, end_sub), weight, n - 1 - end_sub, n)
<1>1. PICK round :
        /\ \A k \in 0 .. end_sub + 1 : SortedBehindHeap(round[k], weight, k, n, S)
        /\ HeapSort(arr, weight, n - 1, end_sub) = round[end_sub + 1]
  BY HeapSortRounds
<1>2. end_sub + 1 \in 0 .. end_sub + 1 /\ n - (end_sub + 1) = n - 1 - end_sub
  OBVIOUS
<1> QED BY <1>1, <1>2 DEF SortedBehindHeap

\* Where two pages of results are cut out of one array, the places both sort
\* hold the same.
LEMMA HeapSortsAgree ==
  ASSUME NEW n \in Nat \ {0}, NEW S, NEW weight \in [S -> Nat], NEW arr, Arranged(arr, n, S),
         NEW end_sub \in 0 .. n - 1, NEW i \in n - 1 - end_sub .. n - 1
  PROVE  HeapSort(arr, weight, n - 1, end_sub)[i] = HeapSort(arr, weight, n - 1, n - 1)[i]
<1> DEFINE h == end_sub + 1
           heap == CreateHeap(arr, weight, n - 1)
<1>0. n \in Nat /\ h \in 1 .. n /\ n - 1 \in 0 .. n - 1 /\ (n - 1) + 1 = n /\ i \in n - h .. n - 1
  OBVIOUS
<1>1. PICK f :
        /\ f[0] = heap
        /\ \A k \in 1 .. h : f[k] = HeapSort1(f[k - 1], weight, n - k)
        /\ HeapSort(arr, weight, n - 1, end_sub) = f[h]
  BY HeapSortRounds
<1>2. PICK g :
        /\ g[0] = heap
        /\ \A k \in 1 .. n : g[k] = HeapSort1(g[k - 1], weight, n - k)
        /\ \A k \in 0 .. n : SortedBehindHeap(g[k], weight, k, n, S)
        /\ HeapSort(arr, weight, n - 1, n - 1) = g[n]
  BY <1>0, HeapSortRounds
<1> HIDE DEF heap, h
<1>3. f[h] = g[h]
  <2> DEFINE T == {k \in 0 .. h : f[k] = g[k]}
  <2>1. 0 \in T
    BY <1>0, <1>1, <1>2
  <2>2. ASSUME NEW k \in 1 .. h, k - 1 \in T PROVE k \in T
    BY <1>0, <1>1, <1>2, <2>2
  <2> HIDE DEF T
  <2>3. h \in T
    BY <1>0, <2>1, <2>2, UpTo
  <2> QED BY <2>3 DEF T
<1>4. g[n][i] = g[h][i]
  <2> DEFINE T == {k \in 0 .. n : k >= h => g[k][i] = g[h][i]}
  <2>1. 0 \in T
    BY <1>0
  <2>2. ASSUME NEW k \in 1 .. n, k - 1 \in T PROVE k \in T
    <3>1. CASE k <= h
      BY <1>0, <3>1
    <3>2. CASE k > h
      <4>1. g[k - 1][i] = g[h][i]
        BY <1>0, <2>2, <3>2
      <4>2. Arranged(g[k - 1], n, S) /\ n - k \in 0 .. n - 1 /\ i \in (n - k) + 1 .. n - 1
        BY <1>0, <1>2, <3>2 DEF SortedBehindHeap
      <4>3. HeapSort1(g[k - 1], weight, n - k)[i] = g[k - 1][i]
        BY <1>0, <4>2, HeapSort1Sorts
      <4> QED BY <1>2, <4>1, <4>3
    <3> QED BY <1>0, <3>1, <3>2
  <2> HIDE DEF T
  <2>3. n \in T
    BY <1>0, <2>1, <2>2, UpTo
  <2> QED BY <1>0, <2>3 DEF T
<1> QED BY <1>1, <1>2, <1>3, <1>4

-----------------------------------------------------------------------------
Places(arr, l, n) == {arr[i] : i \in l .. n - 1}

\* The pages from place l on are as many as the places.
LEMMA PlacesCount ==
  ASSUME NEW n \in Nat, NEW S, NEW arr, Arranged(arr, n, S), NEW l \in 0 .. n
  PROVE  IsFiniteSet(Places(arr, l, n)) /\ Cardinality(Places(arr, l, n)) = n - l
<1> DEFINE T == {arr[i] : i \in l .. n - 1}
           f == [i \in l .. n - 1 |-> arr[i]]
<1>1. f \in [l .. n - 1 -> T] /\ \A i, j \in l .. n - 1 : f[i] = f[j] => i = j
  BY DEF Arranged
<1>2. \A t \in T : \E i \in l .. n - 1 : f[i] = t
  OBVIOUS
<1>3. IsFiniteSet(l .. n - 1) /\ Cardinality(l .. n - 1) = n - l
  <2>1. l \in Int /\ n - 1 \in Int /\ (l > n - 1 <=> l = n) /\ n - 1 - l + 1 = n - l
    OBVIOUS
  <2> QED BY <2>1, FS_Interval
<1> HIDE DEF f, T
<1>4. f \in Injection(l .. n - 1, T) /\ f \in Surjection(l .. n - 1, T)
  BY <1>1, <1>2 DEF Injection, Surjection, IsInjective
<1> QED BY <1>3, <1>4, FS_Surjection DEF Places, T

\* An array with a place for every page has every page at a place.
LEMMA EveryPageIsPlaced ==
  ASSUME NEW S, IsFiniteSet(S), NEW n \in Nat, n = Cardinality(S),
         NEW arr, Arranged(arr, n, S)
  PROVE  S = Places(arr, 0, n)
<1> DEFINE T == Places(arr, 0, n)
<1>1. T \in SUBSET S
  BY DEF Arranged, Places
<1>2. IsFiniteSet(T) /\ Cardinality(T) = n - 0
  BY PlacesCount
<1> HIDE DEF T
<1>3. Cardinality(S) = Cardinality(T)
  BY <1>2
<1> QED BY <1>1, <1>3, FS_Subset DEF T

\* A page at a place from which on the array is sorted is at its rank.
LEMMA RankOfPlace ==
  ASSUME NEW S, IsFiniteSet(S), NEW n \in Nat, n = Cardinality(S),
         NEW weight \in [S -> Nat], NEW arr, Arranged(arr, n, S),
         NEW m \in 0 .. n - 1, SortedFrom(arr, weight, m, n)
  PROVE  AtItsRank(arr[m], n - m, weight)
<1> DEFINE H == {u \in DOMAIN weight : weight[u] > weight[arr[m]]}
           E == {u \in DOMAIN weight : weight[u] >= weight[arr[m]]}
           Above(l) == Places(arr, l, n)
<1>1. DOMAIN weight = S /\ m \in 0 .. n /\ m + 1 \in 0 .. n
  OBVIOUS
<1>2. /\ IsFiniteSet(Above(m + 1)) /\ Cardinality(Above(m + 1)) = n - (m + 1)
      /\ IsFiniteSet(Above(m)) /\ Cardinality(Above(m)) = n - m
  BY <1>1, PlacesCount
<1>3. \A i \in 0 .. n - 1 : arr[i] \in S /\ weight[arr[i]] \in Nat
  BY DEF Arranged
<1>4. H \in SUBSET Above(m + 1)
  <2> SUFFICES ASSUME NEW u \in H PROVE u \in Above(m + 1)
    OBVIOUS
  <2>1. PICK i \in 0 .. n - 1 : u = arr[i]
    BY <1>1, EveryPageIsPlaced DEF Places
  <2>2. i > m
    <3>1. i <= m => weight[arr[i]] <= weight[arr[m]]
      BY <1>1 DEF SortedFrom
    <3> QED BY <1>1, <1>3, <2>1, <3>1
  <2> QED BY <1>1, <2>1, <2>2 DEF Places
<1>5. Above(m) \in SUBSET E
  <2> SUFFICES ASSUME NEW i \in m .. n - 1 PROVE arr[i] \in E
    BY DEF Places
  <2>1. weight[arr[m]] <= weight[arr[i]]
    BY <1>1 DEF SortedFrom
  <2> QED BY <1>1, <1>3, <2>1
<1>6. IsFiniteSet(E) /\ Cardinality(E) \in Nat
  BY <1>1, FS_Subset, FS_CardinalityType
<1>7. Cardinality(H) \in Nat /\ Cardinality(H) <= n - (m + 1)
  <2> HIDE DEF H, Above
  <2> QED BY <1>2, <1>4, FS_Subset, FS_CardinalityType
<1>8. Cardinality(E) >= n - m
  <2> HIDE DEF E, Above
  <2> QED BY <1>2, <1>5, <1>6, FS_Subset
<1> HIDE DEF H, E
<1> QED BY <1>1, <1>7, <1>8 DEF AtItsRank, H, E

\* SearchResult gives of n pages those at the places start_sub .. end_sub, or
\* NoResults.
Results(n, arr, weight, start_page, results_per_page) ==
  LET start_sub == StartSub(start_page, results_per_page)
      end_sub == EndSub(n - 1, start_sub, results_per_page)
      sorted == HeapSort(arr, weight, n - 1, end_sub)
  IN  SearchResult(arr, weight, start_page, results_per_page)
        = IF n - 1 = -1 \/ start_sub > end_sub THEN NoResults
          ELSE [start_page |-> start_page,
                results_per_page |-> TotalPages(n - 1, results_per_page),
                urls |-> [j \in 1 .. end_sub - start_sub + 1 |->
                            sorted[n - 1 - start_sub - (j - 1)]]]

\* What SearchResult makes of n pages.
LEMMA ResultIs ==
  ASSUME NEW n \in Nat, NEW S, NEW weight, NEW arr, Arranged(arr, n, S),
         NEW start_page, NEW results_per_page
  PROVE  Results(n, arr, weight, start_page, results_per_page)
<1> DEFINE start_sub == StartSub(start_page, results_per_page)
           result == SearchResult(arr, weight, start_page, results_per_page)
           end == Cardinality(DOMAIN arr) - 1
<1>1. end = n - 1
  <2>1. DOMAIN arr = 0 .. n - 1 /\ Cardinality(0 .. n - 1) = n
    BY FS_Interval DEF Arranged
  <2> QED BY <2>1
<1>2. result = IF end = -1 \/ start_sub > EndSub(end, start_sub, results_per_page)
               THEN NoResults
               ELSE [start_page |-> start_page,
                     results_per_page |-> TotalPages(end, results_per_page),
                     urls |-> [j \in 1 .. EndSub(end, start_sub, results_per_page)
                                            - start_sub + 1 |->
                                 HeapSort(arr, weight, end,
                                          EndSub(end, start_sub, results_per_page))
                                   [end - start_sub - (j - 1)]]]
  BY DEF SearchResult
<1> HIDE DEF end, result, start_sub
<1> QED BY <1>1, <1>2 DEF Results, result, start_sub

\* The page of results that SearchResult cuts out of any number of pages found is
\* the slice of their ranking that was asked for.
THEOREM ResultIsSlice ==
  ASSUME NEW S, IsFiniteSet(S), NEW n \in Nat, n = Cardinality(S),
         NEW weight \in [S -> Nat], NEW arr, Arranged(arr, n, S),
         NEW start_page \in Nat \ {0}, NEW results_per_page \in Nat \ {0}
  PROVE  LET result == SearchResult(arr, weight, start_page, results_per_page)
             first == StartSub(start_page, results_per_page) + 1
         IN  /\ IsSliceOfRanking(result.urls, weight, first, results_per_page)
             /\ result.start_page \in {-1, start_page}
<1> DEFINE start_sub == StartSub(start_page, results_per_page)
           end_sub == EndSub(n - 1, start_sub, results_per_page)
           sorted == HeapSort(arr, weight, n - 1, end_sub)
           result == SearchResult(arr, weight, start_page, results_per_page)
<1>1. DOMAIN weight = S
  OBVIOUS
<1>2. result = IF n - 1 = -1 \/ start_sub > end_sub THEN NoResults
               ELSE [start_page |-> start_page,
                     results_per_page |-> TotalPages(n - 1, results_per_page),
                     urls |-> [j \in 1 .. end_sub - start_sub + 1 |->
                                 sorted[n - 1 - start_sub - (j - 1)]]]
  <2>1. Results(n, arr, weight, start_page, results_per_page)
    BY ResultIs
  <2> QED BY <2>1 DEF Results
<1>3. start_sub \in Nat
  BY DEF StartSub
<1> HIDE DEF start_sub, result
<1>4. /\ end_sub = IF start_sub + results_per_page - 1 > n - 1 THEN n - 1
                    ELSE start_sub + results_per_page - 1
      /\ end_sub \in Int
  BY <1>1, <1>3 DEF EndSub
<1> SUFFICES /\ IsSliceOfRanking(result.urls, weight, start_sub + 1, results_per_page)
             /\ result.start_page \in {-1, start_page}
  BY DEF start_sub, result
<1>5. CASE n = 0 \/ start_sub > end_sub
  <2>1. result = NoResults
    BY <1>2, <1>5
  <2>2. n - start_sub <= 0
    BY <1>1, <1>3, <1>4, <1>5
  <2> QED BY <1>1, <1>3, <2>1, <2>2 DEF NoResults, IsSliceOfRanking
<1>6. CASE n # 0 /\ start_sub <= end_sub
  <2>1. /\ result.start_page = start_page
        /\ result.urls = [j \in 1 .. end_sub - start_sub + 1 |->
                            sorted[n - 1 - start_sub - (j - 1)]]
    BY <1>2, <1>3, <1>4, <1>6
  <2>2. n \in Nat \ {0} /\ end_sub \in 0 .. n - 1
    BY <1>1, <1>3, <1>4, <1>6
  <2> HIDE DEF end_sub
  <2>3. Arranged(sorted, n, S) /\ SortedFrom(sorted, weight, n - 1 - end_sub, n)
    BY <2>2, HeapSortSorts
  <2> DEFINE size == end_sub - start_sub + 1
             place(k) == n - 1 - start_sub - (k - 1)
  <2>4. size \in Nat /\ \A k \in 1 .. size : place(k) \in n - 1 - end_sub .. n - 1
    BY <1>3, <1>6, <2>2
  <2> HIDE DEF sorted
  <2>5. DOMAIN result.urls = 1 .. size /\ Len(result.urls) = size
    BY <2>1, <2>4
  <2>6. ASSUME NEW j \in 1 .. size, NEW k \in 1 .. size, result.urls[j] = result.urls[k]
        PROVE  j = k
    <3>1. sorted[place(j)] = sorted[place(k)]
      BY <2>1, <2>6
    <3>2. place(j) = place(k)
      BY <2>2, <2>3, <2>4, <3>1 DEF Arranged
    <3> QED BY <1>3, <2>2, <3>2
  <2>7. ASSUME NEW k \in 1 .. size
        PROVE  /\ result.urls[k] \in S
               /\ AtItsRank(result.urls[k], start_sub + 1 + k - 1, weight)
    <3>1. place(k) \in 0 .. n - 1 /\ place(k) \in n - 1 - end_sub .. n - 1
      BY <2>2, <2>4
    <3>2. result.urls[k] = sorted[place(k)]
      BY <2>1
    <3>3. n - place(k) = start_sub + 1 + k - 1
      BY <1>3, <2>2
    <3> HIDE DEF place
    <3>4. SortedFrom(sorted, weight, place(k), n)
      BY <2>2, <2>3, <3>1 DEF SortedFrom
    <3>5. AtItsRank(sorted[place(k)], n - place(k), weight)
      BY <2>3, <3>1, <3>4, RankOfPlace
    <3> QED BY <2>3, <3>1, <3>2, <3>3, <3>5 DEF Arranged
  <2>8. size = IF n - start_sub <= 0 THEN 0
               ELSE IF n - start_sub < results_per_page THEN n - start_sub
               ELSE results_per_page
    BY <1>3, <1>4, <1>6, <2>2
  <2> HIDE DEF size
  <2> DEFINE urls == result.urls
  <2> HIDE DEF place, urls
  <2>9. \A j, k \in DOMAIN urls : urls[j] = urls[k] => j = k
    BY <2>5, <2>6 DEF urls
  <2> DEFINE first == start_sub + 1
  <2>10. \A k \in DOMAIN urls :
           urls[k] \in DOMAIN weight /\ AtItsRank(urls[k], first + k - 1, weight)
    BY <1>1, <2>5, <2>7 DEF urls
  <2>11. Cardinality(DOMAIN weight) - (first - 1) = n - start_sub /\ Len(urls) = size
    BY <1>1, <1>3, <2>5 DEF urls
  <2> HIDE DEF first
  <2>12. IsSliceOfRanking(urls, weight, first, results_per_page)
    BY <2>8, <2>9, <2>10, <2>11 DEF IsSliceOfRanking
  <2> QED BY <2>1, <2>12 DEF urls, first
<1> QED BY <1>1, <1>3, <1>4, <1>5, <1>6

-----------------------------------------------------------------------------
\* Division, by its quotient and rest.
LEMMA QuotientIs ==
  ASSUME NEW a, NEW b \in Nat \ {0}, NEW q \in Nat, NEW r \in 0 .. b - 1, a = q * b + r
  PROVE  a \div b = q /\ a % b = r
<1>1. (q * b + r) \div b = q /\ (q * b + r) % b = r
  OBVIOUS
<1> QED BY <1>1

LEMMA QuotientExists ==
  ASSUME NEW a \in Nat, NEW b \in Nat \ {0}
  PROVE  \E q \in Nat, r \in 0 .. b - 1 : a = q * b + r /\ a \div b = q /\ a % b = r
<1> DEFINE T == {k \in 0 .. a : \E q \in Nat, r \in 0 .. b - 1 : k = q * b + r}
<1>1. 0 \in T
  <2>1. 0 = 0 * b + 0 /\ 0 \in 0 .. b - 1 /\ 0 \in Nat /\ 0 \in 0 .. a
    OBVIOUS
  <2> QED BY <2>1
<1>2. ASSUME NEW k \in 1 .. a, k - 1 \in T PROVE k \in T
  <2>1. PICK q \in Nat, r \in 0 .. b - 1 : k - 1 = q * b + r
    BY <1>2
  <2>0. q * b \in Nat
    OBVIOUS
  <2>2. CASE r + 1 < b
    <3>1. k = q * b + (r + 1) /\ r + 1 \in 0 .. b - 1
      BY <2>1, <2>2, <2>0
    <3> QED BY <3>1
  <2>3. CASE r + 1 = b
    <3>1. (q + 1) * b = q * b + b
      OBVIOUS
    <3>2. k = (q + 1) * b + 0 /\ 0 \in 0 .. b - 1 /\ q + 1 \in Nat
      BY <2>0, <2>1, <2>3, <3>1
    <3> QED BY <3>2
  <2> QED BY <2>2, <2>3
<1> HIDE DEF T
<1>3. a \in T
  BY <1>1, <1>2, UpTo
<1>4. PICK q \in Nat, r \in 0 .. b - 1 : a = q * b + r
  BY <1>3 DEF T
<1> QED BY <1>4, QuotientIs

\* The order of numbers is that of their multiples.
LEMMA Multiplied ==
  ASSUME NEW a \in Nat, NEW c \in Nat, a <= c, NEW b \in Nat
  PROVE  a * b <= c * b
<1>1. (c - a) * b \in Nat /\ c * b = a * b + (c - a) * b
  OBVIOUS
<1> QED BY <1>1

\* What handle leaves in results_per_page is the number of pages of results.
LEMMA TotalPagesIs ==
  ASSUME NEW n \in Nat \ {0}, Short(n) = n, NEW size \in Nat \ {0},
         NEW pages, pages = (n + size - 1) \div size
  PROVE  /\ TotalPages(n - 1, size) = pages
         /\ pages \in Nat \ {0}
         /\ (pages - 1) * size < n /\ n <= pages * size
<1>1. PICK q \in Nat, r \in 0 .. size - 1 :
        n = q * size + r /\ n \div size = q /\ n % size = r
  BY QuotientExists
<1>2. TotalPages(n - 1, size) = Short(q + (IF r = 0 THEN 0 ELSE 1))
  <2>1. n - 1 + 1 = n
    OBVIOUS
  <2> QED BY <1>1, <2>1 DEF TotalPages
<1>3. q * size \in Nat
  BY <1>1
<1>4. q <= n /\ (r = 0 => q # 0) /\ (r # 0 => q + 1 <= n) /\ n - 1 \in Nat
  <2>1. q <= q * size
    BY <1>1
  <2>2. q = 0 => q * size = 0
    BY <1>1
  <2> QED BY <1>1, <1>3, <2>1, <2>2
<1>0. q \in Nat /\ r \in Nat /\ (r # 0 => r - 1 \in 0 .. size - 1) /\ size - 1 \in 0 .. size - 1
  BY <1>1
<1>5. (q - 1) * size = q * size - size /\ (q + 1) * size = q * size + size
  BY <1>0
<1> DEFINE m == q * size
           a == n + size - 1
<1>6. a = IF r = 0 THEN m + (size - 1) ELSE (q + 1) * size + (r - 1)
  BY <1>1, <1>3, <1>5
<1>7. a \div size = IF r = 0 THEN q ELSE q + 1
  <2> HIDE DEF a
  <2>1. CASE r = 0
    BY <1>0, <1>6, <2>1, QuotientIs
  <2>2. CASE r # 0
    BY <1>0, <1>6, <2>2, QuotientIs
  <2> QED BY <2>1, <2>2
<1> DEFINE p == IF r = 0 THEN q ELSE q + 1
<1>8. p \in Nat \ {0} /\ p <= n
  BY <1>0, <1>4
<1>9. q + (IF r = 0 THEN 0 ELSE 1) = p
  BY <1>0
<1>10. Short(p) = p
  <2> HIDE DEF p
  <2>1. n <= 32767
    BY DEF Short
  <2> QED BY <1>8, <2>1 DEF Short
<1>11. (p - 1) * size < n /\ n <= p * size
  <2>1. CASE r = 0
    <3>1. p = q
      BY <2>1
    <3>2. (p - 1) * size = m - size /\ p * size = m
      BY <1>5, <3>1
    <3> HIDE DEF p
    <3> QED BY <1>1, <1>3, <2>1, <3>2
  <2>2. CASE r # 0
    <3>1. p = q + 1 /\ p - 1 = q
      BY <1>0, <2>2
    <3>2. (p - 1) * size = m /\ p * size = m + size
      BY <1>5, <3>1
    <3> HIDE DEF p
    <3> QED BY <1>1, <1>3, <2>2, <3>2
  <2> QED BY <2>1, <2>2
<1>12. pages = p
  BY <1>7
<1> HIDE DEF p
<1> QED BY <1>2, <1>8, <1>9, <1>10, <1>11, <1>12

\* A page of results shows the places of the ranking from (k - 1) * size on, and
\* says how many pages there are.
Shows(page, full, n, size, pages, k) ==
  /\ page.results_per_page = pages
  /\ \A url : url \in Range(page.urls) <=>
       \E x \in 0 .. n - 1 : /\ url = full[n - 1 - x]
                             /\ (k - 1) * size <= x /\ x < k * size

\* Page k of the results does.
LEMMA PageShows ==
  ASSUME NEW n \in Nat \ {0}, Short(n) = n, NEW S, IsFiniteSet(S), n = Cardinality(S),
         NEW weight \in [S -> Nat], NEW arr, Arranged(arr, n, S),
         NEW size \in Nat \ {0}, NEW pages, pages = (n + size - 1) \div size,
         NEW k \in 1 .. pages
  PROVE  Shows(SearchResult(arr, weight, k, size), HeapSort(arr, weight, n - 1, n - 1),
               n, size, pages, k)
<1> DEFINE b == (k - 1) * size
           Page == SearchResult(arr, weight, k, size)
           full == HeapSort(arr, weight, n - 1, n - 1)
<1>1. /\ TotalPages(n - 1, size) = pages
      /\ pages \in Nat \ {0} /\ (pages - 1) * size < n
  BY TotalPagesIs
<1>2. k \in 1 .. pages
  OBVIOUS
<1>3. b \in 0 .. n - 1 /\ k * size = b + size
  <2>1. k - 1 \in Nat /\ pages - 1 \in Nat /\ k - 1 <= pages - 1
    BY <1>1, <1>2
  <2>2. (k - 1) * size \in Nat /\ (k - 1) * size <= (pages - 1) * size
    BY <2>1, Multiplied
  <2>3. k * size = (k - 1) * size + size
    BY <2>1
  <2>4. (pages - 1) * size \in Nat
    BY <2>1
  <2> QED BY <1>1, <2>2, <2>3, <2>4
<1>4. StartSub(k, size) = b
  BY DEF StartSub
<1> HIDE DEF b
<1> DEFINE e == EndSub(n - 1, b, size)
           sorted == HeapSort(arr, weight, n - 1, e)
<1>5. e = (IF b + size - 1 > n - 1 THEN n - 1 ELSE b + size - 1) /\ e \in b .. n - 1
  BY <1>3 DEF EndSub
<1>6. Page = IF n - 1 = -1 \/ b > e THEN NoResults
             ELSE [start_page |-> k, results_per_page |-> TotalPages(n - 1, size),
                   urls |-> [j \in 1 .. e - b + 1 |-> sorted[n - 1 - b - (j - 1)]]]
  <2>1. n \in Nat
    OBVIOUS
  <2>2. Results(n, arr, weight, k, size)
    BY <2>1, ResultIs
  <2> QED BY <1>4, <2>2 DEF Results
<1> HIDE DEF e, Page
<1>7. /\ Page.results_per_page = pages
      /\ Page.urls = [j \in 1 .. e - b + 1 |-> sorted[n - 1 - b - (j - 1)]]
  <2>1. ~(n - 1 = -1 \/ b > e)
    BY <1>3, <1>5
  <2> QED BY <1>1, <1>6, <2>1
<1>8. \A x \in b .. e : sorted[n - 1 - x] = full[n - 1 - x]
  <2> SUFFICES ASSUME NEW x \in b .. e PROVE sorted[n - 1 - x] = full[n - 1 - x]
    OBVIOUS
  <2>1. e \in 0 .. n - 1 /\ n - 1 - x \in n - 1 - e .. n - 1
    BY <1>3, <1>5
  <2> QED BY <2>1, HeapSortsAgree
<1>9. ASSUME NEW x \in b .. e
      PROVE  x - b + 1 \in 1 .. e - b + 1 /\ n - 1 - b - ((x - b + 1) - 1) = n - 1 - x
  BY <1>3, <1>5
<1>10. ASSUME NEW j \in 1 .. e - b + 1
       PROVE  b + j - 1 \in b .. e /\ n - 1 - (b + j - 1) = n - 1 - b - (j - 1)
  BY <1>3, <1>5
<1>11. ASSUME NEW x \in 0 .. n - 1
       PROVE  (b <= x /\ x < k * size) <=> x \in b .. e
  BY <1>3, <1>5
<1> HIDE DEF sorted, full
<1>12. \A url : url \in Range(Page.urls) <=> \E x \in b .. e : url = full[n - 1 - x]
  <2> SUFFICES ASSUME NEW url
               PROVE  url \in Range(Page.urls) <=> \E x \in b .. e : url = full[n - 1 - x]
    OBVIOUS
  <2>1. url \in Range(Page.urls) <=>
          \E j \in 1 .. e - b + 1 : url = sorted[n - 1 - b - (j - 1)]
    BY <1>7 DEF Range
  <2>2. ASSUME NEW j \in 1 .. e - b + 1, url = sorted[n - 1 - b - (j - 1)]
        PROVE  \E x \in b .. e : url = full[n - 1 - x]
    BY <1>8, <1>10, <2>2
  <2>3. ASSUME NEW x \in b .. e, url = full[n - 1 - x]
        PROVE  \E j \in 1 .. e - b + 1 : url = sorted[n - 1 - b - (j - 1)]
    <3>1. url = sorted[n - 1 - b - ((x - b + 1) - 1)] /\ x - b + 1 \in 1 .. e - b + 1
      BY <1>8, <1>9, <2>3
    <3> QED BY <3>1
  <2> QED BY <2>1, <2>2, <2>3
<1>13. \A url : url \in Range(Page.urls) <=>
          \E x \in 0 .. n - 1 : url = full[n - 1 - x] /\ b <= x /\ x < k * size
  <2>1. \A x \in b .. e : x \in 0 .. n - 1
    BY <1>3, <1>5
  <2> QED BY <1>11, <1>12, <2>1
<1> QED BY <1>7, <1>13 DEF Page, full, b, Shows

\* The pages of results: each is the slice of the ranking that it is asked for
\* as, and every page found is on exactly one of them.
ArePaged(arr, weight, n, S, size) ==
  LET Page(start_page) == SearchResult(arr, weight, start_page, size)
      pages == (n + size - 1) \div size
  IN  /\ \A k \in 1 .. pages :
           /\ IsSliceOfRanking(Page(k).urls, weight, (k - 1) * size + 1, size)
           /\ Page(k).results_per_page = pages
      /\ Page(pages + 1) = NoResults
      /\ \A url \in S :
           \E k \in 1 .. pages :
             /\ url \in Range(Page(k).urls)
             /\ \A l \in 1 .. pages : url \in Range(Page(l).urls) => l = k

\* Any number of pages found that a short can count is paged so
\* (PlainSearchStrategy::handle).
THEOREM ResultsArePaged ==
  ASSUME NEW n \in Nat, Short(n) = n, NEW S, IsFiniteSet(S), n = Cardinality(S),
         NEW weight \in [S -> Nat], NEW arr, Arranged(arr, n, S), NEW size \in Nat \ {0}
  PROVE  ArePaged(arr, weight, n, S, size)
<1> DEFINE Page(start_page) == SearchResult(arr, weight, start_page, size)
           pages == (n + size - 1) \div size
           full == HeapSort(arr, weight, n - 1, n - 1)
<1> DEFINE paged == /\ \A k \in 1 .. pages :
                         /\ IsSliceOfRanking(Page(k).urls, weight, (k - 1) * size + 1, size)
                         /\ Page(k).results_per_page = pages
                    /\ Page(pages + 1) = NoResults
                    /\ \A url \in S :
                         \E k \in 1 .. pages :
                           /\ url \in Range(Page(k).urls)
                           /\ \A l \in 1 .. pages : url \in Range(Page(l).urls) => l = k
<1> SUFFICES paged
  BY DEF ArePaged
<1>1. CASE n = 0
  <2>1. pages = 0
    <3>1. n + size - 1 = 0 * size + (size - 1) /\ size - 1 \in 0 .. size - 1 /\ 0 \in Nat
      BY <1>1
    <3> DEFINE a == n + size - 1
    <3> HIDE DEF a
    <3>2. a = 0 * size + (size - 1)
      BY <3>1 DEF a
    <3>3. a \div size = 0
      BY <3>1, <3>2, QuotientIs
    <3> QED BY <3>3 DEF a
  <2>2. Page(pages + 1) = NoResults
    <3>1. n - 1 = -1
      BY <1>1
    <3> HIDE DEF pages
    <3>2. Results(n, arr, weight, pages + 1, size)
      BY ResultIs
    <3> QED BY <3>1, <3>2 DEF Results
  <2>3. S = {}
    <3>1. Cardinality(S) = 0
      BY <1>1
    <3> QED BY <3>1, FS_EmptySet
  <2> HIDE DEF pages, Page
  <2>4. 1 .. pages = {}
    BY <2>1
  <2> QED BY <2>2, <2>3, <2>4 DEF pages, Page
<1>2. CASE n # 0
  <2>0. n \in Nat \ {0} /\ pages = (n + size - 1) \div size
    BY <1>2
  <2> HIDE DEF pages
  <2>1. /\ pages \in Nat \ {0} /\ (pages - 1) * size < n /\ n <= pages * size
    BY <2>0, TotalPagesIs
  <2>2. ASSUME NEW k \in 1 .. pages
        PROVE  /\ IsSliceOfRanking(Page(k).urls, weight, (k - 1) * size + 1, size)
               /\ Page(k).results_per_page = pages
               /\ \A url : url \in Range(Page(k).urls) <=>
                    \E x \in 0 .. n - 1 : /\ url = full[n - 1 - x]
                                          /\ (k - 1) * size <= x /\ x < k * size
    <3>1. k \in Nat \ {0}
      <4> HIDE DEF pages
      <4> QED BY <2>1
    <3>2. IsSliceOfRanking(Page(k).urls, weight, (k - 1) * size + 1, size)
      BY <3>1, ResultIsSlice DEF StartSub
    <3>4. /\ Page(k).results_per_page = pages
          /\ \A url : url \in Range(Page(k).urls) <=>
               \E x \in 0 .. n - 1 : /\ url = full[n - 1 - x]
                                     /\ (k - 1) * size <= x /\ x < k * size
      <4> HIDE DEF Page, full
      <4>1. Shows(SearchResult(arr, weight, k, size), HeapSort(arr, weight, n - 1, n - 1),
                  n, size, pages, k)
        BY <2>0, PageShows
      <4> QED BY <4>1 DEF Page, full, Shows
    <3> QED BY <3>2, <3>4
  <2>3. Page(pages + 1) = NoResults
    <3> DEFINE b == pages * size
               e == EndSub(n - 1, b, size)
    <3>1. StartSub(pages + 1, size) = b
      <4> HIDE DEF pages
      <4>1. (pages + 1) - 1 = pages
        BY <2>1
      <4> QED BY <4>1 DEF StartSub
    <3>2. b \in Nat /\ b >= n
      <4> HIDE DEF pages
      <4> QED BY <2>1
    <3> HIDE DEF b
    <3>3. b > e
      BY <1>2, <3>2 DEF EndSub
    <3> HIDE DEF e
    <3>4. StartSub(pages + 1, size) > EndSub(n - 1, StartSub(pages + 1, size), size)
      BY <3>1, <3>3 DEF e
    <3> HIDE DEF pages
    <3>5. Results(n, arr, weight, pages + 1, size)
      BY ResultIs
    <3> QED BY <3>4, <3>5 DEF Results
  <2> HIDE DEF pages, Page
  <2>4. ASSUME NEW url \in S
        PROVE  \E k \in 1 .. pages :
                 /\ url \in Range(Page(k).urls)
                 /\ \A l \in 1 .. pages : url \in Range(Page(l).urls) => l = k
    <3>1. Arranged(full, n, S)
      <4>1. n \in Nat \ {0} /\ n - 1 \in 0 .. n - 1
        BY <1>2
      <4> QED BY <4>1, HeapSortSorts
    <3> HIDE DEF full
    <3>2. PICK i \in 0 .. n - 1 : url = full[i]
      BY <3>1, EveryPageIsPlaced DEF Places
    <3> DEFINE place == n - 1 - i
    <3>3. place \in 0 .. n - 1 /\ i = n - 1 - place
      OBVIOUS
    <3> HIDE DEF place
    <3>4. \A x \in 0 .. n - 1 : url = full[n - 1 - x] => x = place
      <4> SUFFICES ASSUME NEW x \in 0 .. n - 1, url = full[n - 1 - x] PROVE x = place
        OBVIOUS
      <4>1. n - 1 - x \in 0 .. n - 1 /\ full[n - 1 - x] = full[i]
        BY <3>2
      <4>2. n - 1 - x = i
        BY <3>1, <4>1 DEF Arranged
      <4> QED BY <3>3, <4>2
    <3>5. PICK q \in Nat, r \in 0 .. size - 1 : place = q * size + r
      <4>1. place \in Nat /\ size \in Nat \ {0}
        BY <3>3
      <4> QED BY <4>1, QuotientExists
    <3> DEFINE k == q + 1
    <3>6. q * size \in Nat /\ k * size = q * size + size /\ k - 1 = q
      OBVIOUS
    <3>7. k \in 1 .. pages
      <4>1. CASE k > pages
        <5>1. pages <= q /\ pages \in Nat /\ q \in Nat
          BY <2>1, <4>1
        <5>2. pages * size <= q * size
          BY <5>1, Multiplied
        <5>3. pages * size \in Nat
          BY <5>1
        <5> QED BY <2>1, <3>3, <3>5, <3>6, <5>2, <5>3
      <4> QED BY <2>1, <4>1
    <3> HIDE DEF k
    <3>8. url \in Range(Page(k).urls)
      <4>1. (k - 1) * size <= place /\ place < k * size
        BY <3>5, <3>6
      <4> QED BY <2>2, <3>2, <3>3, <3>7, <4>1
    <3>9. ASSUME NEW l \in 1 .. pages, url \in Range(Page(l).urls)
          PROVE  l = k
      <4>1. (l - 1) * size <= place /\ place < l * size
        BY <2>2, <3>4, <3>9
      <4>2. l \in Nat \ {0} /\ l - 1 \in Nat /\ (l - 1) * size \in Nat
            /\ l * size = (l - 1) * size + size
        BY <2>1
      <4>3. place = (l - 1) * size + (place - (l - 1) * size)
            /\ place - (l - 1) * size \in 0 .. size - 1
        BY <3>3, <4>1, <4>2
      <4>4. place \div size = l - 1
        BY <4>2, <4>3, QuotientIs
      <4>5. place \div size = q
        BY <3>5, QuotientIs
      <4> QED BY <3>6, <3>7, <4>2, <4>4, <4>5
    <3> QED BY <3>7, <3>8, <3>9
  <2> QED BY <2>2, <2>3, <2>4 DEF pages, Page
<1> QED BY <1>1, <1>2

-----------------------------------------------------------------------------
\* The window of links lies in the pages of results and around the page it is for.
LEMMA WindowIs ==
  ASSUME NEW total \in Nat \ {0}, NEW window \in Nat, window >= 4,
         NEW start_page \in 1 .. total
  PROVE  LET i == FirstLink(start_page, window)
             j == LastLink(i, total, window)
         IN  /\ i \in 1 .. start_page /\ i <= (IF start_page = 1 THEN 1 ELSE start_page - 1)
             /\ j \in start_page .. total /\ (j = start_page => start_page = total)
             /\ start_page = 1 => i = 1
<1> DEFINE half == window \div 2
           i == FirstLink(start_page, window)
           j == LastLink(i, total, window)
<1>1. half \in Nat /\ half >= 2 /\ half + 2 <= window
  OBVIOUS
<1>2. i = IF start_page - half < 1 THEN 1 ELSE start_page - half
  BY DEF FirstLink
<1> HIDE DEF half
<1>3. /\ i \in 1 .. start_page /\ i <= (IF start_page = 1 THEN 1 ELSE start_page - 1)
      /\ i + window - 1 > start_page /\ (start_page = 1 => i = 1)
  BY <1>1, <1>2
<1> HIDE DEF i
<1>4. j = IF i + window - 1 > total THEN total ELSE i + window - 1
  BY DEF LastLink
<1> HIDE DEF j
<1> QED BY <1>3, <1>4 DEF i, j

\* The links below a page of results, for any number of pages and any window.
THEOREM LinksAre ==
  ASSUME NEW total \in Nat \ {0}, NEW window \in Nat, window >= 4,
         NEW start_page \in 1 .. total
  PROVE  LET links == Links(start_page, total, window)
         IN  /\ links \subseteq 1 .. total
             /\ (start_page - 1 .. start_page + 1) \cap (1 .. total) \subseteq links
             /\ start_page = total => 1 \in links
             /\ start_page = 1 => total \in links
<1> DEFINE i == FirstLink(start_page, window)
           j == LastLink(i, total, window)
           pre == IF start_page - 1 < 1 THEN total ELSE start_page - 1
           next == IF start_page + 1 > j THEN 1 ELSE start_page + 1
           links == Links(start_page, total, window)
<1>1. links = (i .. j) \cup {pre, next}
  BY DEF Links
<1>2. /\ i \in 1 .. start_page /\ j \in start_page .. total
      /\ j = start_page => start_page = total
  BY WindowIs
<1> HIDE DEF i, j, links
<1>3. pre \in 1 .. total /\ next \in 1 .. total
  BY <1>2
<1>4. links \subseteq 1 .. total
  BY <1>1, <1>2, <1>3
<1>5. ASSUME NEW k \in (start_page - 1 .. start_page + 1) \cap (1 .. total)
      PROVE  k \in links
  <2>1. CASE k = start_page
    BY <1>1, <1>2, <2>1
  <2>2. CASE k = start_page - 1
    BY <1>1, <2>2
  <2>3. CASE k = start_page + 1
    BY <1>1, <1>2, <2>3
  <2> QED BY <2>1, <2>2, <2>3
<1>6. start_page = total => 1 \in links
  BY <1>1, <1>2
<1>7. start_page = 1 => total \in links
  BY <1>1
<1> QED BY <1>4, <1>5, <1>6, <1>7 DEF links
=============================================================================
