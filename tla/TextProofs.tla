------------------------------ MODULE TextProofs -------------------------------
(***************************************************************************)
(* What the pure algorithms make of any input of the cases: the pages of   *)
(* results and the links between them, the limits of the pool, texts that  *)
(* are encoded and decoded, the words a dictionary finds, the runes a text *)
(* decodes into, the words it is cut into, the form of a URL, settings.    *)
(***************************************************************************)
EXTENDS TextCases, SearchRankProofs

\* What every case is.
CasesInv ==
  /\ kind \in DOMAIN Alphabet
  /\ input \in Seq(Alphabet[kind])
  /\ Len(input) <= Bound[kind]

LEMMA CasesInvariant == Spec => []CasesInv
<1>1. Init => CasesInv
  <2> SUFFICES ASSUME Init PROVE CasesInv
    OBVIOUS
  <2>1. Bound[kind] \in Nat
    BY CasesAssumption DEF Init
  <2> QED BY <2>1 DEF Init, CasesInv
<1>2. CasesInv /\ [Next]_<<kind, input>> => CasesInv'
  <2> SUFFICES ASSUME CasesInv, [Next]_<<kind, input>> PROVE CasesInv'
    OBVIOUS
  <2>1. ASSUME NEW symbol \in Alphabet[kind], Write(symbol) PROVE CasesInv'
    <3>1. Bound[kind] \in Nat
      BY CasesAssumption DEF CasesInv
    <3> QED BY <2>1, <3>1 DEF Write, CasesInv
  <2>2. CASE UNCHANGED <<kind, input>>
    BY <2>2 DEF CasesInv
  <2> QED BY <2>1, <2>2 DEF Next
<1> QED BY <1>1, <1>2, PTL DEF Spec

-----------------------------------------------------------------------------
LEMMA LinksLead == LinksLeadToPages
<1> SUFFICES ASSUME NEW total \in 1 .. Bound.total, NEW window \in 4 .. Bound.window
             PROVE  /\ \A start_page \in 1 .. total :
                         LET links == Links(start_page, total, window)
                         IN  /\ links \subseteq 1 .. total
                             /\ (start_page - 1 .. start_page + 1) \cap (1 .. total) \subseteq links
                    /\ 1 \in Links(total, total, window) /\ total \in Links(1, total, window)
  BY DEF LinksLeadToPages
<1>1. total \in Nat \ {0} /\ window \in Nat /\ window >= 4 /\ total \in 1 .. total /\ 1 \in 1 .. total
  OBVIOUS
<1> QED BY <1>1, LinksAre

\* From every page of results the links lead to pages of results only, to this
\* page's neighbours among them (search_server.cc:179-205).
THEOREM LinksStayInside == Spec => []LinksLeadToPages
<1> QED BY LinksLead, PTL

-----------------------------------------------------------------------------
LEMMA CasesArePaged == CasesInv => ResultPagesAreSlices
<1> SUFFICES ASSUME CasesInv, kind = "weights", NEW size \in 1 .. Bound.size
             PROVE  LET found == [k \in 0 .. Len(input) - 1 |-> k + 1]
                        Page(start_page) == SearchResult(found, input, start_page, size)
                        pages == (Len(input) + size - 1) \div size
                    IN  /\ \A k \in 1 .. pages :
                             /\ IsSliceOfRanking(Page(k).urls, input, (k - 1) * size + 1, size)
                             /\ Page(k).results_per_page = pages
                        /\ Page(pages + 1) = NoResults
                        /\ \A url \in DOMAIN input :
                             \E k \in 1 .. pages :
                               /\ url \in Range(Page(k).urls)
                               /\ \A l \in 1 .. pages : url \in Range(Page(l).urls) => l = k
  BY DEF ResultPagesAreSlices
<1> DEFINE n == Len(input)
           S == 1 .. n
           found == [k \in 0 .. n - 1 |-> k + 1]
<1>1. input \in Seq(Nat) /\ n \in Nat /\ Short(n) = n
  <2>1. input \in Seq(Alphabet.weights) /\ n <= Bound.weights
    BY DEF CasesInv
  <2>2. Alphabet.weights \subseteq Nat /\ n \in Nat /\ Bound.weights \in Nat
    BY <2>1, WeightsAssumption, CasesAssumption DEF CasesInv
  <2>3. input \in Seq(Nat)
    BY <2>1, <2>2
  <2>4. n \in 0 .. Bound.weights
    BY <2>1, <2>2
  <2> QED BY <2>2, <2>3, <2>4, WeightsAssumption
<1>2. IsFiniteSet(S) /\ n = Cardinality(S)
  <2> HIDE DEF n
  <2>1. IsFiniteSet(1 .. n) /\ Cardinality(1 .. n) = IF 1 > n THEN 0 ELSE n - 1 + 1
    BY <1>1, FS_Interval
  <2> QED BY <1>1, <2>1
<1>3. input \in [S -> Nat] /\ DOMAIN input = S
  BY <1>1
<1>4. Arranged(found, n, S)
  BY <1>1 DEF Arranged
<1>5. size \in Nat \ {0}
  OBVIOUS
<1> HIDE DEF S, found, n
<1>6. ArePaged(found, input, n, S, size)
  BY <1>1, <1>2, <1>3, <1>4, <1>5, ResultsArePaged
<1> QED BY <1>3, <1>6 DEF ArePaged, n, found

\* A page of results is the slice of the ranking that was asked for; the pages
\* together hold every result once, also among results of one weight; and what
\* is left in results_per_page is the number of pages
\* (PlainSearchStrategy::handle).
THEOREM PagesStaySlices == Spec => []ResultPagesAreSlices
<1> QED BY CasesInvariant, CasesArePaged, PTL

-----------------------------------------------------------------------------
\* The numbers of a settings file.
Keys == {"MAX_CONN", "MAX_IDLE", "MIN_IDLE", "SLEEP", "CLIENT_FLAG", "PORT"}

\* What the file says of a number, or else its default.
Given(result, key) == IF key \in DOMAIN result THEN result[key].n ELSE Default[key]

LEMMA NumberOrderIs ==
  /\ DOMAIN NumberOrder = 1 .. 6
  /\ \A i \in 1 .. 6 : NumberOrder[i] \in Keys
  /\ \A i, j \in 1 .. 6 : NumberOrder[i] = NumberOrder[j] => i = j
  /\ \A key \in Keys : \E i \in 1 .. 6 : NumberOrder[i] = key
<1>1. DOMAIN NumberOrder = 1 .. 6
  BY DEF NumberOrder
<1>2. \A i \in 1 .. 6 : NumberOrder[i] \in Keys
  BY DEF NumberOrder, Keys
<1>3. \A i, j \in 1 .. 6 : NumberOrder[i] = NumberOrder[j] => i = j
  BY DEF NumberOrder
<1>4. \A key \in Keys : \E i \in 1 .. 6 : NumberOrder[i] = key
  BY DEF NumberOrder, Keys
<1> QED BY <1>1, <1>2, <1>3, <1>4

\* What is read after k of the numbers: as long as all of them are numbers, what
\* the file says of these, and nothing is left in the stringstream.
ReadSoFar(s, k, result) ==
  /\ s \in [info : [Keys -> Int], stuck : BOOLEAN]
  /\ (\A key \in DOMAIN result : ~result[key].rest) =>
       /\ ~s.stuck
       /\ \A i \in 1 .. 6 :
            s.info[NumberOrder[i]] = IF i <= k THEN Given(result, NumberOrder[i])
                                     ELSE Default[NumberOrder[i]]

LEMMA OneMoreNumber ==
  ASSUME NEW D \in SUBSET Keys, NEW result \in [D -> [n : Int, rest : BOOLEAN]],
         NEW k \in 1 .. 6, NEW s, ReadSoFar(s, k - 1, result)
  PROVE  ReadSoFar(WithNumber(s, NumberOrder[k], result), k, result)
<1> DEFINE key == NumberOrder[k]
           t == WithNumber(s, key, result)
<1>1. key \in Keys /\ DOMAIN result = D
  BY NumberOrderIs
<1>2. CASE key \notin D
  <2>1. t = s /\ Given(result, key) = Default[key]
    BY <1>1, <1>2 DEF WithNumber, Given
  <2>2. \A i \in 1 .. 6 : i <= k <=> i <= k - 1 \/ i = k
    OBVIOUS
  <2> HIDE DEF t
  <2> QED BY <2>1, <2>2 DEF ReadSoFar, t
<1>3. CASE key \in D
  <2> DEFINE read == ReadNumber(s.stuck, result[key])
  <2>1. result[key] \in [n : Int, rest : BOOLEAN] /\ s.stuck \in BOOLEAN
        /\ s.info \in [Keys -> Int]
    BY <1>3 DEF ReadSoFar
  <2>2. /\ read.n \in Int /\ read.stuck \in BOOLEAN
        /\ ~s.stuck /\ ~result[key].rest => read.n = result[key].n /\ ~read.stuck
    BY <2>1 DEF ReadNumber
  <2>3. t = [info |-> [s.info EXCEPT ![key] = read.n], stuck |-> read.stuck]
    BY <1>1, <1>3 DEF WithNumber
  <2> HIDE DEF read
  <2>4. t \in [info : [Keys -> Int], stuck : BOOLEAN]
    BY <1>1, <2>1, <2>2, <2>3
  <2>5. \A x \in Keys : t.info[x] = IF x = key THEN read.n ELSE s.info[x]
    BY <1>1, <2>1, <2>3
  <2>6. t.stuck = read.stuck
    BY <2>3
  <2> HIDE DEF t
  <2>7. ASSUME \A x \in DOMAIN result : ~result[x].rest
        PROVE  /\ ~t.stuck
               /\ \A i \in 1 .. 6 :
                    t.info[NumberOrder[i]] = IF i <= k THEN Given(result, NumberOrder[i])
                                             ELSE Default[NumberOrder[i]]
    <3>1. ~s.stuck /\ read.n = result[key].n /\ ~read.stuck
      BY <1>1, <1>3, <2>2, <2>7 DEF ReadSoFar
    <3>2. Given(result, key) = read.n
      BY <1>1, <1>3, <3>1 DEF Given
    <3>3. ASSUME NEW i \in 1 .. 6
          PROVE  t.info[NumberOrder[i]] = IF i <= k THEN Given(result, NumberOrder[i])
                                          ELSE Default[NumberOrder[i]]
      <4>1. CASE i = k
        BY <1>1, <2>5, <3>2, <4>1
      <4>2. CASE i # k
        <5>1. NumberOrder[i] # key /\ NumberOrder[i] \in Keys
          BY <4>2, NumberOrderIs
        <5>2. i <= k <=> i <= k - 1
          BY <4>2
        <5> QED BY <2>5, <2>7, <5>1, <5>2 DEF ReadSoFar
      <4> QED BY <4>1, <4>2
    <3> QED BY <2>6, <3>1, <3>3
  <2> QED BY <2>4, <2>7 DEF ReadSoFar, t
<1> QED BY <1>1, <1>2, <1>3

\* What DBInfo reads of any settings.
LEMMA NumbersAreRead ==
  ASSUME NEW D \in SUBSET Keys, NEW result \in [D -> [n : Int, rest : BOOLEAN]]
  PROVE  /\ NumbersOf(result) \in [Keys -> Int]
         /\ (\A key \in D : ~result[key].rest) =>
              \A key \in Keys : NumbersOf(result)[key] = Given(result, key)
<1> DEFINE A == [info : [Keys -> Int], stuck : BOOLEAN]
           start == [info |-> Default, stuck |-> FALSE]
           step(s, k) == WithNumber(s, NumberOrder[k], result)
           it == CHOOSE iter : iter = [s \in SUBSET DOMAIN NumberOrder |->
                   IF s = {} THEN start ELSE step(iter[s \ {Max(s)}], Max(s))]
           Inv(s, k) == ReadSoFar(s, k, result)
<1>1. NumbersOf(result) = it[DOMAIN NumberOrder].info
  BY DEF NumbersOf, FoldLeft, MapThenFoldSet
<1>2. start \in A /\ Default \in [Keys -> Int]
  BY DEF Default, Keys
<1>3. ASSUME NEW s \in A, NEW k \in 1 .. 6 PROVE step(s, k) \in A
  <2>1. NumberOrder[k] \in Keys
    BY NumberOrderIs
  <2> DEFINE key == NumberOrder[k]
             read == ReadNumber(s.stuck, result[key])
  <2> HIDE DEF key
  <2>2. s.info \in [Keys -> Int] /\ s.stuck \in BOOLEAN
    OBVIOUS
  <2>3. CASE key \in D
    <3>1. result[key] \in [n : Int, rest : BOOLEAN]
      BY <2>3
    <3>2. read.n \in Int /\ read.stuck \in BOOLEAN
      BY <2>2, <3>1 DEF ReadNumber
    <3>3. WithNumber(s, key, result)
            = [info |-> [s.info EXCEPT ![key] = read.n], stuck |-> read.stuck]
      BY <2>3 DEF WithNumber
    <3> HIDE DEF read
    <3>4. [s.info EXCEPT ![key] = read.n] \in [Keys -> Int]
      BY <2>2, <3>2
    <3> QED BY <3>2, <3>3, <3>4 DEF key
  <2>4. CASE key \notin D
    <3>1. WithNumber(s, key, result) = s
      BY <2>4 DEF WithNumber
    <3> QED BY <3>1 DEF key
  <2> QED BY <2>3, <2>4
<1> HIDE DEF step
<1>4. DOMAIN NumberOrder = 1 .. 6
  BY NumberOrderIs
<1>5. it = [s \in SUBSET DOMAIN NumberOrder |->
              IF s = {} THEN start ELSE step(it[s \ {Max(s)}], Max(s))]
  <2> DEFINE F == [x \in A \X (1 .. 6) |-> step(x[1], x[2])]
  <2>1. F \in [A \X (1 .. 6) -> A]
    BY <1>3
  <2> HIDE DEF A, start, F, it, Inv
  <2>2. PICK G \in [SUBSET (1 .. 6) -> A] : IsFold(G, 6, start, F)
    BY <1>2, <2>1, FoldExists
  <2>3. ASSUME NEW s \in SUBSET (1 .. 6), s # {}
        PROVE  F[<<G[s \ {Max(s)}], Max(s)>>] = step(G[s \ {Max(s)}], Max(s))
    <3>1. Max(s) \in 1 .. 6
      BY <2>3, MaxIsGreatest
    <3> QED BY <3>1 DEF F
  <2>4. G = [s \in SUBSET DOMAIN NumberOrder |->
               IF s = {} THEN start ELSE step(G[s \ {Max(s)}], Max(s))]
    BY <1>4, <2>2, <2>3 DEF IsFold
  <2> QED BY <2>4 DEF it
<1> HIDE DEF it
<1>6. it[{}] = start /\ \A k \in 1 .. 6 : it[1 .. k] = step(it[1 .. k - 1], k)
  <2>1. it[{}] = start
    BY <1>5
  <2>2. ASSUME NEW k \in 1 .. 6 PROVE it[1 .. k] = step(it[1 .. k - 1], k)
    <3>1. 1 .. k \in SUBSET (1 .. 6) /\ k \in Nat /\ k # 0
      OBVIOUS
    <3>2. Max(1 .. k) = k /\ (1 .. k) \ {k} = 1 .. k - 1 /\ 1 .. k # {}
      BY <3>1, MaxOfInterval
    <3> QED BY <1>4, <1>5, <3>1, <3>2
  <2> QED BY <2>1, <2>2
<1>7. Inv(start, 0)
  BY <1>2 DEF ReadSoFar
<1>8. ASSUME NEW k \in 1 .. 6, NEW s, Inv(s, k - 1) PROVE Inv(step(s, k), k)
  BY <1>8, OneMoreNumber DEF step
<1> HIDE DEF Inv
<1>9. Inv(it[1 .. 6], 6)
  <2> DEFINE T == {k \in 0 .. 6 : Inv(it[1 .. k], k)}
  <2>1. 0 \in T
    <3>1. 1 .. 0 = {}
      OBVIOUS
    <3> QED BY <1>6, <1>7, <3>1
  <2>2. ASSUME NEW k \in 1 .. 6, k - 1 \in T PROVE k \in T
    <3>1. Inv(it[1 .. k - 1], k - 1)
      BY <2>2
    <3>2. Inv(step(it[1 .. k - 1], k), k)
      BY <1>8, <3>1
    <3>3. it[1 .. k] = step(it[1 .. k - 1], k)
      BY <1>6
    <3>4. Inv(it[1 .. k], k)
      BY <3>2, <3>3
    <3> QED BY <3>4
  <2> HIDE DEF T
  <2>3. 6 \in T
    BY <2>1, <2>2, UpTo
  <2> QED BY <2>3 DEF T
<1> DEFINE last == it[1 .. 6]
<1>10. last.info = NumbersOf(result) /\ DOMAIN result = D
  BY <1>1, <1>4
<1>11. ReadSoFar(last, 6, result)
  BY <1>9 DEF Inv
<1> HIDE DEF last
<1>12. NumbersOf(result) \in [Keys -> Int]
  BY <1>10, <1>11 DEF ReadSoFar
<1>13. ASSUME \A key \in D : ~result[key].rest, NEW key \in Keys
       PROVE  NumbersOf(result)[key] = Given(result, key)
  <2>1. PICK i \in 1 .. 6 : NumberOrder[i] = key
    BY NumberOrderIs
  <2>2. i <= 6
    OBVIOUS
  <2> QED BY <1>10, <1>11, <1>13, <2>1, <2>2 DEF ReadSoFar
<1> QED BY <1>12, <1>13

\* Whatever a settings file gives, DBInfo makes limits of it that the pool can
\* work under, and keeps what it says where this is one (set_db_conf_path).
THEOREM LimitsFit ==
  ASSUME NEW D \in SUBSET Keys, NEW result \in [D -> [n : Int, rest : BOOLEAN]]
  PROVE  LimitsFitThePool(result)
<1> DEFINE info == NumbersOf(result)
           out == WithinLimits(info)
<1>1. info \in [Keys -> Int]
  BY NumbersAreRead
<1>2. (\A key \in DOMAIN result : ~result[key].rest) =>
        \A key \in Keys : info[key] = IF key \in DOMAIN result THEN result[key].n ELSE Default[key]
  BY NumbersAreRead DEF Given
<1> HIDE DEF info
<1>3. /\ out.MIN_IDLE = IF info.MIN_IDLE < 1 THEN 1 ELSE info.MIN_IDLE
      /\ out.MAX_IDLE = IF info.MAX_IDLE < out.MIN_IDLE THEN out.MIN_IDLE + 1 ELSE info.MAX_IDLE
      /\ out.MAX_CONN = IF info.MAX_CONN < 1 THEN 1 ELSE info.MAX_CONN
      /\ out.SLEEP = IF info.SLEEP < 0 THEN 3 ELSE info.SLEEP
      /\ out.PORT = info.PORT /\ out.CLIENT_FLAG = info.CLIENT_FLAG
  BY <1>1 DEF WithinLimits, Keys
<1>4. /\ info.MAX_CONN \in Int /\ info.MIN_IDLE \in Int /\ info.SLEEP \in Int
      /\ info.MAX_IDLE \in Int
  BY <1>1 DEF Keys
<1>5. set_db_conf_path(result) = out
  BY DEF set_db_conf_path, info
<1> HIDE DEF out
<1>6. /\ out.MAX_CONN >= 1 /\ out.MIN_IDLE >= 1 /\ out.SLEEP >= 0
      /\ out.MAX_IDLE >= out.MIN_IDLE
  BY <1>3, <1>4
<1> QED BY <1>2, <1>3, <1>4, <1>5, <1>6 DEF LimitsFitThePool, Keys

LEMMA CasesFit == CasesInv => LimitsAreUsable
<1> SUFFICES ASSUME CasesInv, kind = "numbers" PROVE LimitsAreUsable
  BY DEF LimitsAreUsable
<1> DEFINE given == {k \in DOMAIN input : input[k] # << >>}
           D == {NumberOrder[k] : k \in given}
           At(key) == CHOOSE k \in given : NumberOrder[k] = key
           result == [key \in D |-> input[At(key)][1]]
<1>1. given \subseteq 1 .. 6 /\ \A k \in given : input[k] \in Alphabet.numbers
  <2>1. input \in Seq(Alphabet.numbers) /\ Len(input) <= Bound.numbers /\ Bound.numbers \in Nat
    BY CasesAssumption DEF CasesInv
  <2>2. Len(NumberOrder) = 6
    BY DEF NumberOrder
  <2> QED BY <2>1, <2>2, NumbersAssumption
<1>2. \A k \in given : input[k][1] \in [n : Int, rest : BOOLEAN]
  BY <1>1, NumbersAssumption
<1> HIDE DEF given
<1>3. D \in SUBSET Keys
  BY <1>1, NumberOrderIs
<1>4. \A key \in D : At(key) \in given
  OBVIOUS
<1> HIDE DEF At
<1>5. result \in [D -> [n : Int, rest : BOOLEAN]]
  BY <1>2, <1>4
<1> HIDE DEF D, result
<1>6. LimitsFitThePool(result)
  BY <1>3, <1>5, LimitsFit
<1> QED BY <1>6 DEF LimitsAreUsable, result, D, At, given

\* Every settings file yields limits the pool can work under (DBInfo).
THEOREM LimitsStayUsable == Spec => []LimitsAreUsable
<1> QED BY CasesInvariant, CasesFit, PTL

-----------------------------------------------------------------------------
\* What is in S whenever all behind it is, is in S from the last place down.
LEMMA DownTo ==
  ASSUME NEW l \in Int, NEW m \in Int, NEW S,
         \A i \in l .. m : (\A j \in i + 1 .. m : j \in S) => i \in S
  PROVE  \A i \in l .. m : i \in S
<1> DEFINE n == IF l <= m THEN m - l + 1 ELSE 0
           T == {k \in 0 .. n : \A i \in m - k + 1 .. m : i \in S}
<1>1. n \in Nat /\ \A i \in l .. m : i \in m - n + 1 .. m
  OBVIOUS
<1>2. 0 \in T
  <2>1. m - 0 + 1 .. m = {}
    OBVIOUS
  <2> QED BY <1>1, <2>1
<1>3. \A k \in 1 .. n : k - 1 \in T => k \in T
  <2> SUFFICES ASSUME NEW k \in 1 .. n, k - 1 \in T PROVE k \in T
    OBVIOUS
  <2> DEFINE p == m - k + 1
  <2>1. /\ p \in l .. m /\ m - (k - 1) + 1 = p + 1 /\ k \in 0 .. n
        /\ \A i \in p .. m : i = p \/ i \in p + 1 .. m
    OBVIOUS
  <2>2. \A i \in p + 1 .. m : i \in S
    BY <2>1
  <2> HIDE DEF p, n
  <2>3. p \in S
    BY <2>1, <2>2
  <2>4. \A i \in p .. m : i \in S
    BY <2>1, <2>2, <2>3
  <2> QED BY <2>1, <2>4 DEF p
<1>4. n \in T
  <2> HIDE DEF T, n
  <2>1. \A k \in 0 .. n : k \in T
    BY <1>1, <1>2, <1>3, UpTo, Zenon
  <2>2. n \in 0 .. n
    BY <1>1
  <2> QED BY <2>1, <2>2
<1> QED BY <1>1, <1>4

\* What h makes of a function at a place depends on the places behind it.
IsBackwards(h, l, m, A) ==
  /\ h \in [l .. m -> [[l .. m -> A] -> A]]
  /\ \A i \in l .. m : \A F, G \in [l .. m -> A] :
       (\A j \in i + 1 .. m : F[j] = G[j]) => h[i][F] = h[i][G]

\* G is what h makes of it at every place.
IsMade(G, h, l, m, A) == G \in [l .. m -> A] /\ \A i \in l .. m : G[i] = h[i][G]

\* There is such a function.
LEMMA BackwardsExists ==
  ASSUME NEW l \in Int, NEW m \in Int, l <= m, NEW A, NEW a \in A, NEW h, IsBackwards(h, l, m, A)
  PROVE  \E G : IsMade(G, h, l, m, A)
<1> DEFINE n == m - l + 1
           T == {k \in 0 .. n : \E G \in [l .. m -> A] : \A i \in m - k + 1 .. m : G[i] = h[i][G]}
<1>0. /\ h \in [l .. m -> [[l .. m -> A] -> A]]
      /\ \A i \in l .. m : \A F, G \in [l .. m -> A] :
           (\A j \in i + 1 .. m : F[j] = G[j]) => h[i][F] = h[i][G]
  BY DEF IsBackwards
<1>1. 0 \in T
  <2> DEFINE G == [i \in l .. m |-> a]
  <2>1. G \in [l .. m -> A] /\ m - 0 + 1 .. m = {} /\ 0 \in 0 .. n
    OBVIOUS
  <2> HIDE DEF G
  <2> QED BY <2>1
<1>2. ASSUME NEW k \in 1 .. n, k - 1 \in T PROVE k \in T
  <2>1. PICK F \in [l .. m -> A] : \A i \in m - (k - 1) + 1 .. m : F[i] = h[i][F]
    BY <1>2
  <2> DEFINE p == m - k + 1
  <2>2. p \in l .. m /\ m - (k - 1) + 1 = p + 1 /\ m - k + 1 = p /\ k \in 0 .. n
    OBVIOUS
  <2> HIDE DEF p, n
  <2> DEFINE G == [i \in l .. m |-> IF i = p THEN h[p][F] ELSE F[i]]
  <2>3. h[p][F] \in A
    BY <1>0, <2>2
  <2>4. G \in [l .. m -> A]
    BY <2>3
  <2>5. \A i \in l .. m : i # p => G[i] = F[i]
    OBVIOUS
  <2>6. G[p] = h[p][F]
    BY <2>2
  <2> HIDE DEF G
  <2>7. ASSUME NEW i \in p .. m PROVE G[i] = h[i][G]
    <3>1. i \in l .. m /\ \A j \in i + 1 .. m : j \in l .. m /\ j # p
      BY <2>2
    <3>2. h[i][F] = h[i][G]
      <4>1. \A j \in i + 1 .. m : F[j] = G[j]
        BY <2>5, <3>1
      <4> QED BY <1>0, <2>4, <3>1, <4>1
    <3>3. CASE i = p
      BY <2>6, <3>2, <3>3
    <3>4. CASE i # p
      <4>1. i \in p + 1 .. m
        BY <2>2, <3>4
      <4>2. F[i] = h[i][F]
        BY <2>1, <2>2, <4>1
      <4> QED BY <2>5, <3>1, <3>2, <3>4, <4>2
    <3> QED BY <3>3, <3>4
  <2> QED BY <2>2, <2>4, <2>7
<1>3. n \in Nat /\ m - n + 1 = l
  OBVIOUS
<1> HIDE DEF T
<1>4. n \in T
  <2> HIDE DEF n
  <2>1. \A k \in 1 .. n : k - 1 \in T => k \in T
    BY <1>2
  <2>2. \A k \in 0 .. n : k \in T
    BY <1>1, <1>3, <2>1, UpTo, Zenon
  <2>3. n \in 0 .. n
    BY <1>3
  <2> QED BY <2>2, <2>3
<1>5. PICK G \in [l .. m -> A] : \A i \in m - n + 1 .. m : G[i] = h[i][G]
  BY <1>4 DEF T
<1>6. IsMade(G, h, l, m, A)
  BY <1>3, <1>5 DEF IsMade
<1> QED BY <1>6

\* Sequences put behind one another: what is there after each of them.
Grows(P, seqs, n, A) ==
  /\ P \in [0 .. n -> Seq(A)]
  /\ P[0] = << >>
  /\ \A k \in 1 .. n : P[k] = P[k - 1] \o seqs[k]

IsFlattened(P, seqs, n, A) == Grows(P, seqs, n, A) /\ FlattenSeq(seqs) = P[n]

\* FlattenSeq is made so.
LEMMA FlattenIs ==
  ASSUME NEW A, NEW seqs, NEW n \in Nat, seqs \in [1 .. n -> Seq(A)]
  PROVE  \E P : IsFlattened(P, seqs, n, A)
<1>1. seqs \in Seq(Seq(A)) /\ Len(seqs) = n
  OBVIOUS
<1>2. CASE n = 0
  <2> DEFINE P == [k \in 0 .. n |-> << >>]
  <2>1. seqs = << >>
    BY <1>1, <1>2
  <2>2. FlattenSeq(seqs) = << >>
    BY <1>1, <1>2, <2>1 DEF FlattenSeq
  <2>3. P \in [0 .. n -> Seq(A)] /\ P[0] = << >> /\ P[n] = << >> /\ 1 .. n = {}
    BY <1>2
  <2> HIDE DEF P
  <2> QED BY <2>2, <2>3 DEF IsFlattened, Grows
<1>3. CASE n # 0
  <2> DEFINE it == CHOOSE flatten : flatten = [i \in 1 .. n |->
                     IF i = 1 THEN seqs[i] ELSE flatten[i - 1] \o seqs[i]]
             F == [x \in Seq(A) \X (1 .. n) |-> x[1] \o seqs[x[2]]]
  <2>1. FlattenSeq(seqs) = it[n]
    BY <1>1, <1>3 DEF FlattenSeq
  <2>2. F \in [Seq(A) \X (1 .. n) -> Seq(A)]
    OBVIOUS
  <2>3. << >> \in Seq(A)
    OBVIOUS
  <2> HIDE DEF F, it
  <2>4. PICK G \in [SUBSET (1 .. n) -> Seq(A)] : IsFold(G, n, << >>, F)
    BY <2>2, <2>3, FoldExists
  <2> DEFINE P == [k \in 0 .. n |-> G[1 .. k]]
  <2>5. P \in [0 .. n -> Seq(A)]
    <3>1. \A k \in 0 .. n : 1 .. k \in SUBSET (1 .. n)
      OBVIOUS
    <3> QED BY <3>1
  <2>6. P[0] = << >>
    <3>1. 1 .. 0 = {} /\ 0 \in 0 .. n
      OBVIOUS
    <3>2. G[{}] = << >>
      BY <2>4 DEF IsFold
    <3> QED BY <3>1, <3>2
  <2>7. ASSUME NEW k \in 1 .. n PROVE P[k] = P[k - 1] \o seqs[k]
    <3>1. k \in Nat /\ k # 0 /\ k - 1 \in 0 .. n /\ k \in 0 .. n /\ 1 .. k \in SUBSET (1 .. n)
      OBVIOUS
    <3>2. Max(1 .. k) = k /\ (1 .. k) \ {k} = 1 .. k - 1 /\ 1 .. k # {}
      BY <3>1, MaxOfInterval
    <3>3. P[k] = G[1 .. k] /\ P[k - 1] = G[1 .. k - 1]
      BY <3>1
    <3>4. P[k] = F[<<P[k - 1], k>>]
      BY <2>4, <3>1, <3>2, <3>3 DEF IsFold
    <3>5. P[k - 1] \in Seq(A)
      BY <2>5, <3>1
    <3> HIDE DEF P
    <3>6. <<P[k - 1], k>> \in Seq(A) \X (1 .. n)
      BY <3>5
    <3> QED BY <3>4, <3>6 DEF F
  <2> HIDE DEF P
  <2>8. it = [i \in 1 .. n |-> IF i = 1 THEN seqs[i] ELSE it[i - 1] \o seqs[i]]
    <3> DEFINE Q == [i \in 1 .. n |-> P[i]]
    <3>1. ASSUME NEW i \in 1 .. n
          PROVE  Q[i] = IF i = 1 THEN seqs[i] ELSE Q[i - 1] \o seqs[i]
      <4>1. CASE i = 1
        <5>1. P[i] = P[0] \o seqs[i] /\ seqs[i] \in Seq(A)
          BY <2>7, <4>1
        <5>2. << >> \o seqs[i] = seqs[i]
          BY <5>1
        <5> QED BY <2>6, <4>1, <5>1, <5>2
      <4>2. CASE i # 1
        <5>1. i - 1 \in 1 .. n
          BY <4>2
        <5> QED BY <2>7, <4>2, <5>1
      <4> QED BY <4>1, <4>2
    <3>2. Q = [i \in 1 .. n |-> IF i = 1 THEN seqs[i] ELSE Q[i - 1] \o seqs[i]]
      BY <3>1
    <3> HIDE DEF Q
    <3> QED BY <3>2 DEF it
  <2>9. it[n] = P[n]
    <3> DEFINE T == {0} \cup {k \in 1 .. n : it[k] = P[k]}
    <3>1. 0 \in T
      OBVIOUS
    <3>2. ASSUME NEW k \in 1 .. n, k - 1 \in T PROVE k \in T
      <4>1. it[k] = IF k = 1 THEN seqs[k] ELSE it[k - 1] \o seqs[k]
        BY <2>8
      <4>2. CASE k = 1
        <5>1. P[k] = P[0] \o seqs[k] /\ seqs[k] \in Seq(A)
          BY <2>7, <4>2
        <5>2. << >> \o seqs[k] = seqs[k]
          BY <5>1
        <5> QED BY <2>6, <4>1, <4>2, <5>1, <5>2
      <4>3. CASE k # 1
        <5>1. it[k - 1] = P[k - 1]
          BY <3>2, <4>3
        <5> QED BY <2>7, <4>1, <4>3, <5>1
      <4> QED BY <4>2, <4>3
    <3> HIDE DEF T
    <3>3. n \in T
      <4>1. \A k \in 1 .. n : k - 1 \in T => k \in T
        BY <3>2
      <4>2. \A k \in 0 .. n : k \in T
        BY <3>1, <4>1, UpTo, Zenon
      <4> QED BY <4>2
    <3> QED BY <1>3, <3>3 DEF T
  <2> QED BY <2>1, <2>5, <2>6, <2>7, <2>9 DEF IsFlattened, Grows
<1> QED BY <1>2, <1>3

\* What is there after k of them is there after all.
Stays(P, n) ==
  \A k \in 0 .. n :
    /\ Len(P[k]) <= Len(P[n])
    /\ \A j \in 1 .. Len(P[k]) : P[n][j] = P[k][j]

LEMMA PrefixesStay ==
  ASSUME NEW A, NEW n \in Nat, NEW seqs, seqs \in [1 .. n -> Seq(A)], NEW P,
         Grows(P, seqs, n, A)
  PROVE  Stays(P, n)
<1> DEFINE whole == P[n]
           T == {k \in 0 .. n : /\ Len(P[n - k]) <= Len(whole)
                                /\ \A j \in 1 .. Len(P[n - k]) : whole[j] = P[n - k][j]}
<1>2. P \in [0 .. n -> Seq(A)] /\ \A k \in 1 .. n : P[k] = P[k - 1] \o seqs[k]
  BY DEF Grows
<1>3. 0 \in T
  <2>1. n - 0 = n /\ P[n] \in Seq(A) /\ Len(P[n]) \in Nat
    BY <1>2
  <2> QED BY <2>1
<1>4. ASSUME NEW k \in 1 .. n, k - 1 \in T PROVE k \in T
  <2> DEFINE p == n - k
             s == P[p]
             t == seqs[p + 1]
  <2>1. p \in 0 .. n /\ p + 1 \in 1 .. n /\ n - (k - 1) = p + 1 /\ (p + 1) - 1 = p
    OBVIOUS
  <2> HIDE DEF p
  <2>2. s \in Seq(A) /\ t \in Seq(A) /\ P[p + 1] = s \o t
    BY <1>2, <2>1
  <2> HIDE DEF s, t
  <2>3. Len(P[p + 1]) = Len(s) + Len(t) /\ Len(s) \in Nat /\ Len(t) \in Nat
        /\ \A j \in 1 .. Len(s) : P[p + 1][j] = s[j]
    BY <2>2
  <2>4. Len(P[p + 1]) <= Len(whole) /\ \A j \in 1 .. Len(P[p + 1]) : whole[j] = P[p + 1][j]
    BY <1>4, <2>1
  <2>5. whole \in Seq(A) /\ Len(whole) \in Nat
    BY <1>2
  <2> HIDE DEF whole
  <2>6. Len(s) <= Len(whole) /\ \A j \in 1 .. Len(s) : whole[j] = s[j]
    BY <2>3, <2>4, <2>5
  <2> QED BY <2>6 DEF p, s
<1>5. \A k \in 0 .. n : k \in T
  <2> HIDE DEF T
  <2>1. \A k \in 1 .. n : k - 1 \in T => k \in T
    BY <1>4
  <2> QED BY <1>3, <2>1, UpTo
<1>6. ASSUME NEW k \in 0 .. n
      PROVE  Len(P[k]) <= Len(whole) /\ \A j \in 1 .. Len(P[k]) : whole[j] = P[k][j]
  <2>1. n - k \in 0 .. n /\ n - (n - k) = k
    OBVIOUS
  <2>2. n - k \in T
    BY <1>5, <2>1
  <2> HIDE DEF whole
  <2> QED BY <2>1, <2>2
<1> QED BY <1>6 DEF Stays, whole

-----------------------------------------------------------------------------
Byte == 0 .. 255

\* The value of the two digits behind place i.
Escaped(text, i, behind) ==
  (hex_char2dec(ByteAt(text, i + 1, behind)) * 16
     + hex_char2dec(ByteAt(text, i + 2, behind))) % 256

\* What is decoded of a text from every place on.
IsDecoded(From, text, mark, behind) ==
  /\ From \in [1 .. Len(text) + 3 -> Seq(Int)]
  /\ \A i \in 1 .. Len(text) + 3 :
       From[i] = IF i > Len(text) THEN << >>
                 ELSE IF text[i] # mark THEN <<text[i]>> \o From[i + 1]
                 ELSE <<Escaped(text, i, behind)>> \o From[i + 3]

\* A digit, or -1.
LEMMA HexIsInt == \A c : hex_char2dec(c) \in Int
<1> SUFFICES ASSUME NEW c PROVE hex_char2dec(c) \in Int
  OBVIOUS
<1>1. CASE c \in Digits
  BY <1>1 DEF hex_char2dec, Digits
<1>2. CASE c \notin Digits /\ c \in 97 .. 102
  BY <1>2 DEF hex_char2dec
<1>3. CASE c \notin Digits /\ c \notin 97 .. 102 /\ c \in 65 .. 70
  BY <1>3 DEF hex_char2dec
<1>4. CASE c \notin Digits /\ c \notin 97 .. 102 /\ c \notin 65 .. 70
  BY <1>4 DEF hex_char2dec
<1> QED BY <1>1, <1>2, <1>3, <1>4

\* Two of them are put into a byte.
LEMMA EscapedIsByte ==
  ASSUME NEW text, NEW i, NEW behind
  PROVE  Escaped(text, i, behind) \in Byte /\ Escaped(text, i, behind) \in Int
<1> DEFINE x == hex_char2dec(ByteAt(text, i + 1, behind))
           y == hex_char2dec(ByteAt(text, i + 2, behind))
<1>1. x \in Int /\ y \in Int
  BY HexIsInt
<1> HIDE DEF x, y
<1>2. (x * 16 + y) % 256 \in 0 .. 255
  BY <1>1
<1> DEFINE e == (x * 16 + y) % 256
<1>3. e \in Byte /\ e \in Int
  <2> HIDE DEF e
  <2> QED BY <1>2 DEF Byte, e
<1> QED BY <1>3 DEF Escaped, x, y

\* Decode is what is decoded from the first place on.
LEMMA DecodeIs ==
  ASSUME NEW text \in Seq(Int), NEW mark, NEW behind
  PROVE  \E From : IsDecoded(From, text, mark, behind) /\ Decode(text, mark, behind) = From[1]
<1> DEFINE n == Len(text)
           m == n + 3
           A == Seq(Int)
           step(i, G) == IF i > n THEN << >>
                         ELSE IF text[i] # mark THEN <<text[i]>> \o G[i + 1]
                         ELSE <<Escaped(text, i, behind)>> \o G[i + 3]
           h == [i \in 1 .. m |-> [G \in [1 .. m -> A] |-> step(i, G)]]
           it == CHOOSE From : From = [i \in 1 .. m |-> step(i, From)]
<1>1. Decode(text, mark, behind) = it[1]
  BY DEF Decode, Escaped
<1>2. n \in Nat /\ m \in Nat /\ \A i \in 1 .. n : text[i] \in Int /\ i + 1 \in 1 .. m /\ i + 3 \in 1 .. m
  OBVIOUS
<1>3. ASSUME NEW i \in 1 .. m, NEW G \in [1 .. m -> A] PROVE step(i, G) \in A
  <2>1. i > n \/ (i \in 1 .. n /\ G[i + 1] \in A /\ G[i + 3] \in A)
    <3> HIDE DEF A, m, n
    <3>1. i > n \/ i \in 1 .. n
      BY <1>2
    <3> QED BY <1>2, <3>1
  <2>2. Escaped(text, i, behind) \in Int
    <3> HIDE DEF it, h, step
    <3> QED BY EscapedIsByte, Zenon
  <2>3. \A e \in Int : \A s \in A : <<e>> \o s \in A
    OBVIOUS
  <2>4. << >> \in A
    OBVIOUS
  <2> HIDE DEF A, m, n
  <2> QED BY <1>2, <2>1, <2>2, <2>3, <2>4
<1>4. ASSUME NEW i \in 1 .. m, NEW F \in [1 .. m -> A], NEW G \in [1 .. m -> A],
             \A j \in i + 1 .. m : F[j] = G[j]
      PROVE  step(i, F) = step(i, G)
  <2>1. i <= n => i + 1 \in i + 1 .. m /\ i + 3 \in i + 1 .. m
    BY <1>2
  <2>2. i <= n => F[i + 1] = G[i + 1] /\ F[i + 3] = G[i + 3]
    BY <1>4, <2>1
  <2> QED BY <1>2, <2>2
<1> HIDE DEF step, it, m, n
<1>5. h \in [1 .. m -> [[1 .. m -> A] -> A]]
  BY <1>3
<1>6. \A i \in 1 .. m : \A G \in [1 .. m -> A] : h[i][G] = step(i, G)
  OBVIOUS
<1>7. \A i \in 1 .. m : \A F, G \in [1 .. m -> A] :
        (\A j \in i + 1 .. m : F[j] = G[j]) => h[i][F] = h[i][G]
  BY <1>4, <1>6
<1>8. << >> \in A
  OBVIOUS
<1> HIDE DEF A, h
<1>9. PICK G \in [1 .. m -> A] : \A i \in 1 .. m : G[i] = h[i][G]
  <2>1. IsBackwards(h, 1, m, A)
    BY <1>5, <1>7 DEF IsBackwards
  <2>2. 1 \in Int /\ m \in Int /\ 1 <= m
    BY <1>2 DEF m
  <2>3. \E a : a \in A
    BY <1>8
  <2>4. \E G : IsMade(G, h, 1, m, A)
    BY <2>1, <2>2, <2>3, BackwardsExists
  <2> QED BY <2>4 DEF IsMade
<1>10. \A i \in 1 .. m : G[i] = step(i, G)
  BY <1>6, <1>9
<1>11. G = [i \in 1 .. m |-> step(i, G)]
  BY <1>9, <1>10
<1>12. it = [i \in 1 .. m |-> step(i, it)]
  BY <1>11 DEF it
<1>13. it \in [1 .. m -> A]
  <2> DEFINE T == {k \in 0 .. m : \A i \in m - k + 1 .. m : it[i] = G[i]}
  <2>0. m = n + 3
    BY DEF m
  <2>1. 0 \in T
    BY <1>2
  <2>2. ASSUME NEW k \in 1 .. m, k - 1 \in T PROVE k \in T
    <3> DEFINE p == m - k + 1
    <3>1. p \in 1 .. m /\ m - (k - 1) + 1 = p + 1 /\ \A i \in p .. m : i = p \/ i \in p + 1 .. m
      BY <1>2
    <3>2. \A i \in p + 1 .. m : it[i] = G[i]
      BY <2>2, <3>1
    <3> HIDE DEF p
    <3>3. it[p] = step(p, it) /\ G[p] = step(p, G)
      BY <1>10, <1>12, <3>1
    <3>4. step(p, it) = step(p, G)
      <4>1. p <= n => p + 1 \in p + 1 .. m /\ p + 3 \in p + 1 .. m
        BY <1>2, <2>0, <3>1
      <4> QED BY <1>2, <3>1, <3>2, <4>1 DEF step
    <3>5. \A i \in p .. m : it[i] = G[i]
      BY <3>1, <3>2, <3>3, <3>4
    <3> QED BY <3>5 DEF p
  <2>3. m \in T
    <3> HIDE DEF T
    <3>1. \A k \in 1 .. m : k - 1 \in T => k \in T
      BY <2>2
    <3>2. \A k \in 0 .. m : k \in T
      BY <1>2, <2>1, <3>1, UpTo, Zenon
    <3> QED BY <1>2, <3>2
  <2>4. m - m + 1 = 1
    BY <1>2
  <2>5. \A i \in 1 .. m : it[i] = G[i]
    BY <2>3, <2>4
  <2>6. it = G
    BY <1>9, <1>12, <2>5
  <2> QED BY <1>9, <2>6
<1>14. \A i \in 1 .. m : it[i] = step(i, it)
  BY <1>12
<1>15. IsDecoded(it, text, mark, behind)
  BY <1>13, <1>14 DEF IsDecoded, A, m, n, step
<1> QED BY <1>1, <1>15

\* What is written for a byte.
Piece(b, allowed, mark) ==
  IF b \in allowed THEN <<b>> ELSE <<mark, dec2hex_char(b \div 16), dec2hex_char(b % 16)>>

\* dec2hex_char writes capitals, and hex_char2dec reads them.
LEMMA HexDigit ==
  ASSUME NEW d \in 0 .. 15
  PROVE  /\ dec2hex_char(d) \in Digits \cup Capitals
         /\ hex_char2dec(dec2hex_char(d)) = d
<1>1. CASE d <= 9
  <2>1. dec2hex_char(d) = 48 + d /\ 48 + d \in Digits
    BY <1>1 DEF dec2hex_char, Digits
  <2>2. hex_char2dec(48 + d) = (48 + d) - 48
    BY <2>1 DEF hex_char2dec
  <2> QED BY <2>1, <2>2
<1>2. CASE d > 9
  <2>1. dec2hex_char(d) = 55 + d /\ 55 + d \in Capitals /\ 55 + d \in 65 .. 70
    BY <1>2 DEF dec2hex_char, Capitals
  <2>2. 55 + d \notin Digits /\ 55 + d \notin 97 .. 102
    BY <1>2 DEF Digits
  <2>3. hex_char2dec(55 + d) = (55 + d) - 65 + 10
    BY <2>1, <2>2 DEF hex_char2dec
  <2> QED BY <2>1, <2>3
<1> QED BY <1>1, <1>2

\* The two digits of a byte give it back.
LEMMA HexByte ==
  ASSUME NEW b \in Byte
  PROVE  /\ dec2hex_char(b \div 16) \in Digits \cup Capitals
         /\ dec2hex_char(b % 16) \in Digits \cup Capitals
         /\ (hex_char2dec(dec2hex_char(b \div 16)) * 16
               + hex_char2dec(dec2hex_char(b % 16))) % 256 = b
<1> DEFINE q == b \div 16
           r == b % 16
<1>1. b \in Nat /\ b <= 255
  BY DEF Byte
<1>2. q \in 0 .. 15 /\ r \in 0 .. 15 /\ b = q * 16 + r
  BY <1>1
<1> HIDE DEF q, r
<1>3. dec2hex_char(q) \in Digits \cup Capitals /\ hex_char2dec(dec2hex_char(q)) = q
  BY <1>2, HexDigit
<1>4. dec2hex_char(r) \in Digits \cup Capitals /\ hex_char2dec(dec2hex_char(r)) = r
  BY <1>2, HexDigit
<1>5. (q * 16 + r) % 256 = b
  BY <1>1, <1>2
<1> QED BY <1>3, <1>4, <1>5 DEF q, r

\* The bytes that are written.
Sent(allowed, mark) == allowed \cup {mark} \cup Digits \cup Capitals

\* What is written when k bytes are.
IsEncoded(P, text, allowed, mark) ==
  /\ P \in [0 .. Len(text) -> Seq(Sent(allowed, mark))]
  /\ P[0] = << >>
  /\ \A k \in 1 .. Len(text) : P[k] = P[k - 1] \o Piece(text[k], allowed, mark)

\* A piece is made of them.
LEMMA PieceIs ==
  ASSUME NEW b \in Byte, NEW allowed, NEW mark
  PROVE  Piece(b, allowed, mark) \in Seq(Sent(allowed, mark))
<1>1. CASE b \in allowed
  BY <1>1 DEF Piece, Sent
<1>2. CASE b \notin allowed
  <2> DEFINE x == dec2hex_char(b \div 16)
             y == dec2hex_char(b % 16)
  <2>1. Piece(b, allowed, mark) = <<mark, x, y>>
    BY <1>2 DEF Piece
  <2>2. x \in Digits \cup Capitals /\ y \in Digits \cup Capitals
    BY HexByte
  <2> HIDE DEF x, y
  <2>3. x \in Sent(allowed, mark) /\ y \in Sent(allowed, mark) /\ mark \in Sent(allowed, mark)
    BY <2>2 DEF Sent
  <2> QED BY <2>1, <2>3
<1> QED BY <1>1, <1>2

\* Encode is what is written when all bytes are.
LEMMA EncodeIs ==
  ASSUME NEW text \in Seq(Byte), NEW allowed, NEW mark
  PROVE  \E P : IsEncoded(P, text, allowed, mark) /\ Encode(text, allowed, mark) = P[Len(text)]
<1> DEFINE n == Len(text)
           A == Sent(allowed, mark)
           seqs == [i \in DOMAIN text |-> Piece(text[i], allowed, mark)]
<1>1. n \in Nat /\ DOMAIN text = 1 .. n /\ \A i \in 1 .. n : text[i] \in Byte
  OBVIOUS
<1>2. Encode(text, allowed, mark) = FlattenSeq(seqs)
  BY DEF Encode, Piece
<1> HIDE DEF n
<1>3. \A i \in 1 .. n : Piece(text[i], allowed, mark) \in Seq(A)
  BY <1>1, PieceIs
<1>4. seqs \in [1 .. n -> Seq(A)] /\ \A i \in 1 .. n : seqs[i] = Piece(text[i], allowed, mark)
  BY <1>1, <1>3
<1> HIDE DEF seqs, A
<1>5. PICK P : IsFlattened(P, seqs, n, A)
  BY <1>1, <1>4, FlattenIs
<1>6. \A k \in 1 .. n : P[k] = P[k - 1] \o Piece(text[k], allowed, mark)
  BY <1>4, <1>5 DEF IsFlattened, Grows
<1>7. IsEncoded(P, text, allowed, mark)
  BY <1>5, <1>6 DEF IsEncoded, IsFlattened, Grows, A, n
<1> QED BY <1>2, <1>5, <1>7 DEF IsFlattened, Grows, n

\* A piece stands in the whole behind the pieces before it.
LEMMA PiecesStand ==
  ASSUME NEW text \in Seq(Byte), NEW allowed, NEW mark, NEW P, IsEncoded(P, text, allowed, mark)
  PROVE  \A k \in 0 .. Len(text) :
           /\ Len(P[k]) <= Len(P[Len(text)])
           /\ \A j \in 1 .. Len(P[k]) : P[Len(text)][j] = P[k][j]
<1> DEFINE n == Len(text)
           A == Sent(allowed, mark)
           pieces == [k \in 1 .. n |-> Piece(text[k], allowed, mark)]
<1>1. n \in Nat /\ \A i \in 1 .. n : text[i] \in Byte
  OBVIOUS
<1>2. /\ P \in [0 .. n -> Seq(A)]
      /\ P[0] = << >>
      /\ \A k \in 1 .. n : P[k] = P[k - 1] \o Piece(text[k], allowed, mark)
  BY DEF IsEncoded
<1>3. pieces \in [1 .. n -> Seq(A)] /\ \A k \in 1 .. n : pieces[k] = Piece(text[k], allowed, mark)
  BY <1>1, PieceIs
<1> HIDE DEF n, A, pieces
<1>4. Grows(P, pieces, n, A)
  BY <1>2, <1>3 DEF Grows
<1>5. Stays(P, n)
  BY <1>1, <1>3, <1>4, PrefixesStay
<1> QED BY <1>5 DEF Stays, n

\* A sequence with one element in front.
LEMMA InFront ==
  ASSUME NEW A, NEW b \in A, NEW s \in Seq(A)
  PROVE  /\ <<b>> \o s \in Seq(A) /\ Len(<<b>> \o s) = 1 + Len(s) /\ (<<b>> \o s)[1] = b
         /\ \A i \in 2 .. 1 + Len(s) : (<<b>> \o s)[i] = s[i - 1]
<1> DEFINE c == <<b>>
<1>1. c \in Seq(A) /\ Len(c) = 1 /\ c[1] = b
  OBVIOUS
<1> HIDE DEF c
<1> DEFINE u == c \o s
<1>2. /\ u \in Seq(A) /\ Len(u) = Len(c) + Len(s)
      /\ \A i \in 1 .. Len(c) + Len(s) : u[i] = IF i <= Len(c) THEN c[i] ELSE s[i - Len(c)]
  BY <1>1, ConcatProperties
<1>5. Len(s) \in Nat
  OBVIOUS
<1> HIDE DEF u
<1>3. Len(u) = 1 + Len(s) /\ u[1] = c[1]
  BY <1>1, <1>2, <1>5
<1>4. \A i \in 2 .. 1 + Len(s) : u[i] = s[i - 1]
  BY <1>1, <1>2, <1>5
<1> QED BY <1>1, <1>2, <1>3, <1>4 DEF c, u

\* A text from k on is its byte k and the text behind it.
LEMMA FirstByte ==
  ASSUME NEW text \in Seq(Byte), NEW k \in 1 .. Len(text)
  PROVE  SubSeq(text, k, Len(text)) = <<text[k]>> \o SubSeq(text, k + 1, Len(text))
<1> DEFINE n == Len(text)
           s == SubSeq(text, k + 1, n)
           t == SubSeq(text, k, n)
<1>1. n \in Nat /\ \A i \in 1 .. n : text[i] \in Byte
  OBVIOUS
<1>2. t \in Seq(Byte) /\ Len(t) = n - k + 1 /\ \A i \in 1 .. n - k + 1 : t[i] = text[k + i - 1]
  OBVIOUS
<1>3. s \in Seq(Byte) /\ Len(s) = n - k /\ \A i \in 1 .. n - k : s[i] = text[k + i]
  OBVIOUS
<1> HIDE DEF s, t
<1> DEFINE u == <<text[k]>> \o s
<1>4. u \in Seq(Byte) /\ Len(u) = n - k + 1 /\ u[1] = text[k]
      /\ \A i \in 2 .. n - k + 1 : u[i] = s[i - 1]
  <2>1. text[k] \in Byte /\ n - k + 1 = 1 + Len(s)
    BY <1>1, <1>3
  <2>2. /\ <<text[k]>> \o s \in Seq(Byte) /\ Len(<<text[k]>> \o s) = 1 + Len(s)
        /\ (<<text[k]>> \o s)[1] = text[k]
        /\ \A i \in 2 .. 1 + Len(s) : (<<text[k]>> \o s)[i] = s[i - 1]
    <3> HIDE DEF n
    <3> QED BY <1>3, <2>1, InFront
  <2> QED BY <2>1, <2>2
<1> HIDE DEF u, n
<1>5. ASSUME NEW i \in 1 .. n - k + 1 PROVE t[i] = u[i]
  <2>1. CASE i = 1
    BY <1>1, <1>2, <1>4, <2>1
  <2>2. CASE i # 1
    <3>1. i \in 2 .. n - k + 1 /\ i - 1 \in 1 .. n - k /\ k + (i - 1) = k + i - 1
      BY <1>1, <2>2
    <3> QED BY <1>2, <1>3, <1>4, <3>1
  <2> QED BY <2>1, <2>2
<1>6. t = u
  BY <1>2, <1>4, <1>5
<1> QED BY <1>6 DEF n, s, t, u

\* What is decoded behind the pieces of the first k bytes are the other bytes.
RestIsBack(From, P, text, k) ==
  From[Len(P[k]) + 1] = SubSeq(text, k + 1, Len(text))

\* So they are from one byte to the one before it.
LEMMA OneByteBack ==
  ASSUME NEW text \in Seq(Byte), NEW allowed, NEW mark, mark \notin allowed, NEW behind,
         NEW P, IsEncoded(P, text, allowed, mark), NEW k \in 1 .. Len(text),
         NEW From, IsDecoded(From, P[Len(text)], mark, behind),
         RestIsBack(From, P, text, k)
  PROVE  RestIsBack(From, P, text, k - 1)
<1> DEFINE n == Len(text)
           A == Sent(allowed, mark)
           s == P[k - 1]
           b == text[k]
           t == Piece(b, allowed, mark)
           at == Len(s) + 1
           whole == P[n]
           m == Len(whole)
<1>1. b \in Byte /\ k - 1 \in 0 .. n /\ n \in Nat /\ k \in 0 .. n
  OBVIOUS
<1>2. s \in Seq(A) /\ t \in Seq(A) /\ P[k] = s \o t /\ whole \in Seq(A)
  <2>1. P \in [0 .. n -> Seq(A)] /\ P[k] = s \o t
    BY DEF IsEncoded
  <2>2. t \in Seq(A)
    BY <1>1, PieceIs
  <2> HIDE DEF A, n, t
  <2>3. P[k - 1] \in Seq(A) /\ P[n] \in Seq(A)
    BY <1>1, <2>1
  <2> QED BY <2>1, <2>2, <2>3
<1>3. Len(P[k]) <= m /\ \A j \in 1 .. Len(P[k]) : whole[j] = P[k][j]
  BY <1>1, PiecesStand
<1>4. SubSeq(text, k, n) = <<b>> \o SubSeq(text, k + 1, n)
  BY FirstByte
<1>5. \A i \in 1 .. m + 3 :
         From[i] = IF i > m THEN << >>
                   ELSE IF whole[i] # mark THEN <<whole[i]>> \o From[i + 1]
                   ELSE <<Escaped(whole, i, behind)>> \o From[i + 3]
  BY DEF IsDecoded
<1>0. From[Len(P[k]) + 1] = SubSeq(text, k + 1, n)
  BY DEF RestIsBack
<1> SUFFICES From[at] = SubSeq(text, k, n)
  <2>1. (k - 1) + 1 = k
    OBVIOUS
  <2> QED BY <2>1 DEF RestIsBack
<1> HIDE DEF n, s, b, A, m, whole
<1>6. CASE b \in allowed
  <2>1. t = <<b>> /\ b # mark
    BY <1>6 DEF Piece
  <2>2. Len(P[k]) = at /\ P[k][at] = b /\ at \in Nat \ {0}
    BY <1>2, <2>1
  <2>3. m \in Nat
    BY <1>2 DEF m
  <2> HIDE DEF at
  <2>4. at \in 1 .. m + 3 /\ ~(at > m) /\ whole[at] = b
    BY <1>3, <2>2, <2>3
  <2>5. From[at] = <<b>> \o From[at + 1]
    BY <1>5, <2>1, <2>4
  <2> QED BY <1>0, <1>4, <2>2, <2>5
<1>7. CASE b \notin allowed
  <2> DEFINE x == dec2hex_char(b \div 16)
             y == dec2hex_char(b % 16)
  <2>1. t = <<mark, x, y>>
    BY <1>7 DEF Piece
  <2>2. (hex_char2dec(x) * 16 + hex_char2dec(y)) % 256 = b
    BY <1>1, HexByte
  <2> HIDE DEF x, y
  <2>3. Len(P[k]) = at + 2 /\ P[k][at] = mark /\ P[k][at + 1] = x /\ P[k][at + 2] = y
        /\ at \in Nat \ {0}
    BY <1>2, <2>1
  <2>4. m \in Nat
    BY <1>2 DEF m
  <2> HIDE DEF at
  <2>5. /\ at \in 1 .. m + 3 /\ ~(at > m) /\ at + 1 <= m /\ at + 2 <= m
        /\ whole[at] = mark /\ whole[at + 1] = x /\ whole[at + 2] = y
    BY <1>3, <2>3, <2>4
  <2>6. Escaped(whole, at, behind) = b
    <3>1. ByteAt(whole, at + 1, behind) = x /\ ByteAt(whole, at + 2, behind) = y
      BY <2>5 DEF ByteAt, m
    <3> QED BY <2>2, <3>1 DEF Escaped
  <2>7. From[at] = <<b>> \o From[at + 3]
    BY <1>5, <2>5, <2>6
  <2>8. at + 3 = Len(P[k]) + 1
    BY <2>3
  <2> QED BY <1>0, <1>4, <2>7, <2>8
<1> QED BY <1>6, <1>7

\* Whatever bytes a text is made of and whichever are let through as they are, if
\* the mark is not one of them the text is decoded as it was, and no bytes but
\* those, the mark, digits and capitals are written.
THEOREM TextIsReadBack ==
  ASSUME NEW text \in Seq(Byte), NEW allowed, NEW mark, mark \notin allowed,
         Sent(allowed, mark) \subseteq Int, NEW behind
  PROVE  /\ Decode(Encode(text, allowed, mark), mark, behind) = text
         /\ Encode(text, allowed, mark) \in Seq(Sent(allowed, mark))
<1> DEFINE n == Len(text)
           A == Sent(allowed, mark)
<1>1. n \in Nat
  OBVIOUS
<1>2. PICK P : IsEncoded(P, text, allowed, mark) /\ Encode(text, allowed, mark) = P[n]
  BY EncodeIs
<1> DEFINE whole == P[n]
<1>3. P \in [0 .. n -> Seq(A)] /\ P[0] = << >>
  BY <1>2 DEF IsEncoded
<1>4. whole \in Seq(A) /\ whole \in Seq(Int)
  <2> HIDE DEF A, n
  <2>1. P[n] \in Seq(A)
    BY <1>1, <1>3
  <2> QED BY <2>1 DEF A
<1> HIDE DEF A, n, whole
<1>5. PICK From : IsDecoded(From, whole, mark, behind) /\ Decode(whole, mark, behind) = From[1]
  BY <1>4, DecodeIs
<1> DEFINE T == {k \in 0 .. n : RestIsBack(From, P, text, n - k)}
<1>6. 0 \in T
  <2>1. n - 0 = n /\ Len(whole) \in Nat /\ Len(whole) + 1 \in 1 .. Len(whole) + 3
        /\ Len(whole) + 1 > Len(whole)
    BY <1>1, <1>4
  <2>2. From[Len(whole) + 1] = << >>
    BY <1>5, <2>1 DEF IsDecoded
  <2>3. SubSeq(text, n + 1, n) = << >>
    BY <1>1 DEF n
  <2>4. RestIsBack(From, P, text, n)
    BY <2>2, <2>3 DEF RestIsBack, whole, n
  <2> QED BY <1>1, <2>1, <2>4
<1>7. ASSUME NEW k \in 1 .. n, k - 1 \in T PROVE k \in T
  <2> DEFINE p == n - k + 1
  <2>1. p \in 1 .. n /\ n - (k - 1) = p /\ n - k = p - 1 /\ k \in 0 .. n
    BY <1>1
  <2> HIDE DEF p
  <2>2. RestIsBack(From, P, text, p)
    BY <1>7, <2>1
  <2>3. RestIsBack(From, P, text, p - 1)
    <3>1. IsDecoded(From, P[Len(text)], mark, behind) /\ p \in 1 .. Len(text)
      BY <1>5, <2>1 DEF n, whole
    <3> QED BY <1>2, <2>2, <3>1, OneByteBack
  <2> QED BY <2>1, <2>3
<1> HIDE DEF T
<1>8. n \in T
  <2>1. \A k \in 1 .. n : k - 1 \in T => k \in T
    BY <1>7
  <2>2. \A k \in 0 .. n : k \in T
    BY <1>1, <1>6, <2>1, UpTo
  <2> QED BY <1>1, <2>2
<1>9. From[1] = text
  <2>1. n - n = 0 /\ 0 + 1 = 1 /\ Len(P[0]) + 1 = 1
    BY <1>1, <1>3
  <2>2. RestIsBack(From, P, text, 0)
    BY <1>8, <2>1 DEF T
  <2>3. SubSeq(text, 1, n) = text
    BY DEF n
  <2> QED BY <2>1, <2>2, <2>3 DEF RestIsBack, n
<1> QED BY <1>2, <1>4, <1>5, <1>9 DEF A, whole

\* Only behind a mark at the end is there something to read that is not the text.
LEMMA DecodesAlike ==
  ASSUME NEW text \in Seq(Int), NEW mark, text = << >> \/ text[Len(text)] # mark,
         NEW behind, NEW other
  PROVE  Decode(text, mark, behind) = Decode(text, mark, other)
<1> DEFINE n == Len(text)
           m == n + 3
<1>1. n \in Nat /\ m \in Nat /\ m = n + 3 /\ (text = << >> => n = 0)
  OBVIOUS
<1>2. PICK F : IsDecoded(F, text, mark, behind) /\ Decode(text, mark, behind) = F[1]
  BY DecodeIs
<1>3. PICK G : IsDecoded(G, text, mark, other) /\ Decode(text, mark, other) = G[1]
  BY DecodeIs
<1>4. ASSUME NEW i \in 1 .. n, text[i] = mark
      PROVE  Escaped(text, i, behind) = Escaped(text, i, other)
  <2>1. i # n
    BY <1>1, <1>4
  <2>2. /\ ByteAt(text, i + 1, behind) = ByteAt(text, i + 1, other)
        /\ ByteAt(text, i + 2, behind) = ByteAt(text, i + 2, other)
    BY <1>1, <2>1 DEF ByteAt
  <2> QED BY <2>2 DEF Escaped
<1>5. \A i \in 1 .. m :
        /\ F[i] = IF i > n THEN << >>
                  ELSE IF text[i] # mark THEN <<text[i]>> \o F[i + 1]
                  ELSE <<Escaped(text, i, behind)>> \o F[i + 3]
        /\ G[i] = IF i > n THEN << >>
                  ELSE IF text[i] # mark THEN <<text[i]>> \o G[i + 1]
                  ELSE <<Escaped(text, i, other)>> \o G[i + 3]
  BY <1>2, <1>3 DEF IsDecoded
<1> HIDE DEF n, m
<1> DEFINE T == {k \in 0 .. m : \A i \in m - k + 1 .. m : F[i] = G[i]}
<1>6. 0 \in T
  BY <1>1
<1>7. ASSUME NEW k \in 1 .. m, k - 1 \in T PROVE k \in T
  <2> DEFINE p == m - k + 1
  <2>1. p \in 1 .. m /\ m - (k - 1) + 1 = p + 1 /\ \A i \in p .. m : i = p \/ i \in p + 1 .. m
    BY <1>1
  <2>2. \A i \in p + 1 .. m : F[i] = G[i]
    BY <1>7, <2>1
  <2> HIDE DEF p
  <2>3. p > n \/ (p \in 1 .. n /\ p + 1 \in p + 1 .. m /\ p + 3 \in p + 1 .. m)
    BY <1>1, <2>1
  <2>4. F[p] = G[p]
    <3>1. CASE p > n
      BY <1>5, <2>1, <3>1
    <3>2. CASE ~(p > n)
      <4>1. F[p + 1] = G[p + 1] /\ F[p + 3] = G[p + 3]
        BY <2>2, <2>3, <3>2
      <4>2. text[p] = mark => Escaped(text, p, behind) = Escaped(text, p, other)
        BY <1>4, <2>3, <3>2
      <4> QED BY <1>5, <2>1, <3>2, <4>1, <4>2
    <3> QED BY <3>1, <3>2
  <2>5. \A i \in p .. m : F[i] = G[i]
    BY <2>1, <2>2, <2>4
  <2> QED BY <2>5 DEF p
<1> HIDE DEF T
<1>8. m \in T
  <2>1. \A k \in 1 .. m : k - 1 \in T => k \in T
    BY <1>7
  <2>2. \A k \in 0 .. m : k \in T
    BY <1>1, <1>6, <2>1, UpTo
  <2> QED BY <1>1, <2>2
<1>9. m - m + 1 = 1 /\ 1 \in 1 .. m
  BY <1>1
<1>10. \A i \in m - m + 1 .. m : F[i] = G[i]
  BY <1>8 DEF T
<1> QED BY <1>2, <1>3, <1>9, <1>10

\* Neither code lets its mark through.
LEMMA CodesLetThrough ==
  /\ 35 \notin Alnum /\ Sent(Alnum, 35) = Alnum \cup {35} /\ Sent(Alnum, 35) \subseteq Int
  /\ 37 \notin Alnum \cup {47, 46} /\ Sent(Alnum \cup {47, 46}, 37) \subseteq Int
  BY DEF Sent, Alnum, Digits, Capitals, Smalls

\* A case of bytes is a text.
LEMMA CasesAreReadBack == CasesInv => TextsAreReadBack
<1> SUFFICES ASSUME CasesInv, kind = "bytes"
             PROVE  IsDecodedAsSent(input) /\ \A behind \in {0, 48} : IsReadBack(input, behind)
  BY DEF TextsAreReadBack
<1>1. input \in Seq(Byte) /\ input \in Seq(Int)
  <2>1. input \in Seq(Alphabet.bytes)
    BY DEF CasesInv
  <2>2. Alphabet.bytes \subseteq Byte
    BY BytesAssumption DEF Byte
  <2>3. Byte \subseteq Int
    BY DEF Byte
  <2>4. input \in Seq(Byte)
    <3> DEFINE B == Alphabet.bytes
    <3> HIDE DEF B
    <3> QED BY <2>1, <2>2 DEF B
  <2>5. input \in Seq(Int)
    <3>1. Len(input) \in Nat /\ input \in [1 .. Len(input) -> Byte]
      BY <2>4
    <3>2. input \in [1 .. Len(input) -> Int]
      BY <2>3, <3>1
    <3> QED BY <3>1, <3>2
  <2> QED BY <2>4, <2>5
<1>2. ASSUME NEW behind PROVE IsReadBack(input, behind)
  <2>1. /\ Decode(Encode(input, Alnum, 35), 35, behind) = input
        /\ Encode(input, Alnum, 35) \in Seq(Sent(Alnum, 35))
    BY <1>1, CodesLetThrough, TextIsReadBack
  <2>2. Decode(Encode(input, Alnum \cup {47, 46}, 37), 37, behind) = input
    <3> DEFINE allowed == Alnum \cup {47, 46}
    <3>1. 37 \notin allowed /\ Sent(allowed, 37) \subseteq Int
      BY CodesLetThrough
    <3> HIDE DEF allowed
    <3>2. Decode(Encode(input, allowed, 37), 37, behind) = input
      BY <1>1, <3>1, TextIsReadBack
    <3> QED BY <3>2 DEF allowed
  <2>3. crypt(input) \in Seq(Alnum \cup {35})
    BY <2>1, CodesLetThrough DEF crypt
  <2>4. Range(crypt(input)) \subseteq Alnum \cup {35}
    BY <2>3 DEF Range
  <2> QED BY <2>1, <2>2, <2>4 DEF IsReadBack, crypt, decrypt, escape_url, deescape_url
<1>3. IsDecodedAsSent(input)
  <2>1. ASSUME NEW behind \in {0, 48, 255}, ~(Len(input) >= 1 /\ Last(input) = 37)
        PROVE  deescape_url(input, behind) = deescape_url(input, 0)
    <3>1. input = << >> \/ input[Len(input)] # 37
      BY <1>1, <2>1 DEF Last
    <3>2. Decode(input, 37, behind) = Decode(input, 37, 0)
      BY <1>1, <3>1, DecodesAlike
    <3> QED BY <3>2 DEF deescape_url
  <2> QED BY <2>1 DEF IsDecodedAsSent
<1> QED BY <1>2, <1>3

\* What is written into the database or a request is read back as it was, and a
\* request is decoded from its own bytes only, unless it ends in a mark
\* (crypt_string.cc, escape_url.cc).
THEOREM TextsStayReadBack == Spec => []TextsAreReadBack
<1> QED BY CasesInvariant, CasesAreReadBack, PTL

-----------------------------------------------------------------------------
\* Tries over the characters C with weights of W.
Tries(C, W) ==
  [nodes : SUBSET Seq(C), unit : UNION {[D -> W] : D \in SUBSET Seq(C)}]

\* The lines of a dictionary over the characters C.
Lines(C, W) == [word : Seq(C), weight : W]

\* InsertNode adds one word.
LEMMA InsertNodeIs ==
  ASSUME NEW C, NEW W, NEW trie \in Tries(C, W), NEW key \in Seq(C), NEW weight \in W,
         key # << >>
  PROVE  LET t == InsertNode(trie, key, weight)
         IN  /\ t \in Tries(C, W)
             /\ DOMAIN t.unit = DOMAIN trie.unit \cup {key}
             /\ \A k \in DOMAIN t.unit : t.unit[k] = IF k = key THEN weight ELSE trie.unit[k]
             /\ t.nodes = trie.nodes \cup Prefixes(key)
<1> DEFINE t == InsertNode(trie, key, weight)
           unit == [k \in DOMAIN trie.unit \cup {key} |->
                      IF k = key THEN weight ELSE trie.unit[k]]
<1>1. t = [nodes |-> trie.nodes \cup Prefixes(key), unit |-> unit]
  BY DEF InsertNode
<1>2. PICK D \in SUBSET Seq(C) : trie.unit \in [D -> W]
  BY DEF Tries
<1>3. trie.nodes \in SUBSET Seq(C)
  BY DEF Tries
<1>4. Prefixes(key) \in SUBSET Seq(C)
  <2> SUFFICES ASSUME NEW l \in 0 .. Len(key) PROVE SubSeq(key, 1, l) \in Seq(C)
    BY DEF Prefixes
  <2> QED OBVIOUS
<1>5. unit \in [D \cup {key} -> W] /\ D \cup {key} \in SUBSET Seq(C)
  BY <1>2
<1>6. DOMAIN unit = DOMAIN trie.unit \cup {key}
  OBVIOUS
<1>7. \A k \in DOMAIN unit : unit[k] = IF k = key THEN weight ELSE trie.unit[k]
  OBVIOUS
<1> HIDE DEF t, unit
<1>8. t.unit = unit /\ t.nodes = trie.nodes \cup Prefixes(key)
  BY <1>1
<1>9. t \in Tries(C, W)
  <2>1. trie.nodes \cup Prefixes(key) \in SUBSET Seq(C)
    BY <1>3, <1>4
  <2>2. unit \in UNION {[E -> W] : E \in SUBSET Seq(C)}
    BY <1>5
  <2> HIDE DEF t
  <2> QED BY <1>1, <2>1, <2>2 DEF Tries
<1> QED BY <1>6, <1>7, <1>8, <1>9 DEF t

\* A trie that knows the first k lines: their words, each with the weight of its
\* last line, and a path to each.
KnowsLines(trie, entries, k) ==
  /\ DOMAIN trie.unit = {entries[i].word : i \in 1 .. k} \ {<< >>}
  /\ \A i \in 1 .. k :
       (\A j \in i + 1 .. k : entries[j].word # entries[i].word) /\ entries[i].word # << >>
         => trie.unit[entries[i].word] = entries[i].weight
  /\ \A word \in DOMAIN trie.unit : Prefixes(word) \subseteq trie.nodes

\* The next line is one more.
LEMMA OneMoreLine ==
  ASSUME NEW C, NEW W, NEW trie \in Tries(C, W), NEW n \in Nat, NEW entries,
         entries \in [1 .. n -> Lines(C, W)],
         NEW k \in 1 .. n, KnowsLines(trie, entries, k - 1)
  PROVE  KnowsLines(InsertNode(trie, entries[k].word, entries[k].weight), entries, k)
<1> DEFINE key == entries[k].word
           weight == entries[k].weight
           t == InsertNode(trie, key, weight)
           Word(i) == entries[i].word
<1>1. key \in Seq(C) /\ weight \in W
  BY DEF Lines
<1>2. /\ \A i \in 1 .. k : i = k \/ i \in 1 .. k - 1
      /\ \A i \in 1 .. k - 1 : i \in 1 .. k /\ k \in i + 1 .. k
      /\ k \in 1 .. k
      /\ \A i \in 1 .. k - 1 : \A j \in i + 1 .. k - 1 : j \in i + 1 .. k
  OBVIOUS
<1>3. CASE key = << >>
  <2>1. t = trie
    BY <1>3 DEF InsertNode
  <2>2. {Word(i) : i \in 1 .. k} \ {<< >>} = {Word(i) : i \in 1 .. k - 1} \ {<< >>}
    BY <1>2, <1>3
  <2>3. ASSUME NEW i \in 1 .. k, \A j \in i + 1 .. k : Word(j) # Word(i), Word(i) # << >>
        PROVE  trie.unit[Word(i)] = entries[i].weight
    <3>1. i \in 1 .. k - 1
      BY <1>2, <1>3, <2>3
    <3>2. \A j \in i + 1 .. k - 1 : Word(j) # Word(i)
      BY <1>2, <2>3, <3>1
    <3> QED BY <2>3, <3>1, <3>2 DEF KnowsLines
  <2> HIDE DEF t
  <2> QED BY <2>1, <2>2, <2>3 DEF KnowsLines, t
<1>4. CASE key # << >>
  <2>1. /\ DOMAIN t.unit = DOMAIN trie.unit \cup {key}
        /\ \A x \in DOMAIN t.unit : t.unit[x] = IF x = key THEN weight ELSE trie.unit[x]
        /\ t.nodes = trie.nodes \cup Prefixes(key)
    BY <1>1, <1>4, InsertNodeIs
  <2> HIDE DEF t
  <2>2. {Word(i) : i \in 1 .. k} \ {<< >>} = ({Word(i) : i \in 1 .. k - 1} \ {<< >>}) \cup {key}
    BY <1>2, <1>4
  <2>3. DOMAIN t.unit = {Word(i) : i \in 1 .. k} \ {<< >>}
    BY <2>1, <2>2 DEF KnowsLines
  <2>4. ASSUME NEW i \in 1 .. k, \A j \in i + 1 .. k : Word(j) # Word(i), Word(i) # << >>
        PROVE  t.unit[Word(i)] = entries[i].weight
    <3>1. Word(i) \in DOMAIN t.unit
      BY <2>3, <2>4
    <3>2. CASE i = k
      BY <2>1, <3>1, <3>2
    <3>3. CASE i # k
      <4>1. i \in 1 .. k - 1 /\ Word(i) # key
        BY <1>2, <2>4, <3>3
      <4>2. \A j \in i + 1 .. k - 1 : Word(j) # Word(i)
        BY <1>2, <2>4, <4>1
      <4>3. trie.unit[Word(i)] = entries[i].weight
        BY <2>4, <4>1, <4>2 DEF KnowsLines
      <4> QED BY <2>1, <3>1, <4>1, <4>3
    <3> QED BY <3>2, <3>3
  <2>5. \A word \in DOMAIN t.unit : Prefixes(word) \subseteq t.nodes
    BY <2>1 DEF KnowsLines
  <2> QED BY <2>3, <2>4, <2>5 DEF KnowsLines, t
<1> QED BY <1>3, <1>4

\* CreateTrie knows all lines.
LEMMA CreateTrieKnows ==
  ASSUME NEW C, NEW W, NEW entries \in Seq(Lines(C, W))
  PROVE  KnowsLines(CreateTrie(entries), entries, Len(entries))
<1> DEFINE A == Tries(C, W)
           n == Len(entries)
           step(trie, k) == InsertNode(trie, entries[k].word, entries[k].weight)
           it == CHOOSE iter : iter = [s \in SUBSET DOMAIN entries |->
                   IF s = {} THEN EmptyTrie ELSE step(iter[s \ {Max(s)}], Max(s))]
<1>1. CreateTrie(entries) = it[DOMAIN entries]
  BY DEF CreateTrie, FoldLeft, MapThenFoldSet
<1>2. n \in Nat /\ entries \in [1 .. n -> Lines(C, W)] /\ DOMAIN entries = 1 .. n
  OBVIOUS
<1>3. EmptyTrie \in A /\ DOMAIN EmptyTrie.unit = {}
  <2>1. [key \in {} |-> 0] \in [{} -> W] /\ {} \in SUBSET Seq(C) /\ {<< >>} \in SUBSET Seq(C)
    OBVIOUS
  <2> DEFINE u == [key \in {} |-> 0]
  <2>2. DOMAIN u = {}
    OBVIOUS
  <2> HIDE DEF u
  <2>3. EmptyTrie = [nodes |-> {<< >>}, unit |-> u]
    BY DEF EmptyTrie, u
  <2>4. u \in UNION {[D -> W] : D \in SUBSET Seq(C)}
    BY <2>1 DEF u
  <2> QED BY <2>1, <2>2, <2>3, <2>4 DEF Tries
<1>4. ASSUME NEW trie \in A, NEW k \in 1 .. n PROVE step(trie, k) \in A
  <2>1. entries[k].word \in Seq(C) /\ entries[k].weight \in W
    BY <1>2 DEF Lines
  <2>2. CASE entries[k].word = << >>
    BY <2>2 DEF InsertNode
  <2>3. CASE entries[k].word # << >>
    BY <2>1, <2>3, InsertNodeIs
  <2> QED BY <2>2, <2>3
<1> HIDE DEF step, A, n, it
<1>5. it = [s \in SUBSET (1 .. n) |->
              IF s = {} THEN EmptyTrie ELSE step(it[s \ {Max(s)}], Max(s))]
  <2> DEFINE F == [x \in A \X (1 .. n) |-> step(x[1], x[2])]
  <2>1. F \in [A \X (1 .. n) -> A]
    BY <1>4
  <2> HIDE DEF F
  <2>2. PICK G \in [SUBSET (1 .. n) -> A] : IsFold(G, n, EmptyTrie, F)
    BY <1>2, <1>3, <2>1, FoldExists
  <2>3. ASSUME NEW s \in SUBSET (1 .. n), s # {}
        PROVE  F[<<G[s \ {Max(s)}], Max(s)>>] = step(G[s \ {Max(s)}], Max(s))
    <3>1. Max(s) \in 1 .. n
      BY <1>2, <2>3, MaxIsGreatest
    <3> QED BY <3>1 DEF F
  <2>4. G = [s \in SUBSET (1 .. n) |->
               IF s = {} THEN EmptyTrie ELSE step(G[s \ {Max(s)}], Max(s))]
    BY <2>2, <2>3 DEF IsFold
  <2>5. it = [s \in SUBSET (1 .. n) |->
                IF s = {} THEN EmptyTrie ELSE step(it[s \ {Max(s)}], Max(s))]
    BY <1>2, <2>4 DEF it
  <2> QED BY <2>5
<1>6. it[{}] = EmptyTrie /\ \A k \in 1 .. n : it[1 .. k] = step(it[1 .. k - 1], k)
  <2>1. it[{}] = EmptyTrie
    BY <1>5
  <2>2. ASSUME NEW k \in 1 .. n PROVE it[1 .. k] = step(it[1 .. k - 1], k)
    <3>1. 1 .. k \in SUBSET (1 .. n) /\ k \in Nat /\ k # 0
      BY <1>2
    <3>2. Max(1 .. k) = k /\ (1 .. k) \ {k} = 1 .. k - 1 /\ 1 .. k # {}
      BY <3>1, MaxOfInterval
    <3> QED BY <1>5, <3>1, <3>2
  <2> QED BY <2>1, <2>2
<1> DEFINE T == {k \in 0 .. n : it[1 .. k] \in A /\ KnowsLines(it[1 .. k], entries, k)}
<1>7. 0 \in T
  <2>1. 1 .. 0 = {} /\ 0 \in 0 .. n
    BY <1>2
  <2>2. KnowsLines(EmptyTrie, entries, 0)
    BY <1>3, <2>1 DEF KnowsLines
  <2> QED BY <1>3, <1>6, <2>1, <2>2
<1>8. ASSUME NEW k \in 1 .. n, k - 1 \in T PROVE k \in T
  <2> DEFINE t == it[1 .. k - 1]
  <2>1. t \in A /\ KnowsLines(t, entries, k - 1) /\ k \in 0 .. n
    BY <1>2, <1>8
  <2>2. it[1 .. k] = step(t, k)
    BY <1>6
  <2> HIDE DEF t
  <2>3. step(t, k) \in A
    BY <1>4, <2>1
  <2>4. KnowsLines(step(t, k), entries, k)
    BY <1>2, <2>1, OneMoreLine DEF step, A
  <2> QED BY <2>1, <2>2, <2>3, <2>4
<1> HIDE DEF T
<1>9. n \in T
  <2>1. \A k \in 1 .. n : k - 1 \in T => k \in T
    BY <1>8
  <2>2. \A k \in 0 .. n : k \in T
    BY <1>2, <1>7, <2>1, UpTo
  <2> QED BY <1>2, <2>2
<1> QED BY <1>1, <1>2, <1>9 DEF T, n

\* A word in a text leads there by the words in front of its end.
LEMMA PrefixInText ==
  ASSUME NEW C, NEW text \in Seq(C), NEW i \in 1 .. Len(text), NEW j \in i .. Len(text),
         NEW k \in i .. j
  PROVE  SubSeq(text, i, k) \in Prefixes(SubSeq(text, i, j))
<1> DEFINE n == Len(text)
           word == SubSeq(text, i, j)
           l == k - i + 1
           u == SubSeq(word, 1, l)
           v == SubSeq(text, i, k)
<1>0. n \in Nat /\ i \in 1 .. n /\ j \in i .. n
  OBVIOUS
<1>1. word \in Seq(C) /\ Len(word) = j - i + 1 /\ \A x \in 1 .. j - i + 1 : word[x] = text[i + x - 1]
  OBVIOUS
<1>2. v \in Seq(C) /\ Len(v) = l /\ \A x \in 1 .. l : v[x] = text[i + x - 1]
  OBVIOUS
<1>3. l \in 0 .. j - i + 1 /\ l \in Nat /\ \A x \in 1 .. l : x \in 1 .. j - i + 1
  BY <1>0
<1> HIDE DEF word, v, l, n
<1>4. u \in Seq(C) /\ Len(u) = l /\ \A x \in 1 .. l : u[x] = word[x]
  BY <1>1, <1>3
<1> HIDE DEF u
<1>5. u = v
  <2>1. \A x \in 1 .. l : u[x] = v[x]
    BY <1>1, <1>2, <1>3, <1>4
  <2> QED BY <1>2, <1>4, <2>1
<1>6. u \in Prefixes(word)
  BY <1>1, <1>3 DEF Prefixes, u
<1> QED BY <1>5, <1>6 DEF word, v

\* Whatever lines over whatever characters a dictionary has, its trie finds their
\* words and no others in every text not longer than the longest word searched
\* for, each with the weight of its last line (DictTrie, Trie).
THEOREM TrieFindsItsWords ==
  ASSUME NEW C, NEW W, NEW entries \in Seq(Lines(C, W)), NEW text \in Seq(C),
         Len(text) <= MaxWordLength
  PROVE  FindsItsWords(entries, text)
<1> DEFINE trie == CreateTrie(entries)
           words == {entries[i].word : i \in DOMAIN entries} \ {<< >>}
           n == Len(entries)
           m == Len(text)
<1>1. DOMAIN entries = 1 .. n /\ n \in Nat /\ DOMAIN text = 1 .. m /\ m \in Nat
  OBVIOUS
<1>2. /\ DOMAIN trie.unit = words
      /\ \A i \in 1 .. n :
           (\A j \in i + 1 .. n : entries[j].word # entries[i].word) /\ entries[i].word # << >>
             => trie.unit[entries[i].word] = entries[i].weight
      /\ \A word \in words : Prefixes(word) \subseteq trie.nodes
  <2>1. KnowsLines(trie, entries, n)
    BY CreateTrieKnows
  <2> QED BY <1>1, <2>1 DEF KnowsLines
<1>3. MaxWordLength \in Nat
  BY DEF MaxWordLength
<1> HIDE DEF trie, words, n, m
<1>4. \A word \in words : Find(trie, word)
  BY <1>2 DEF Find, words
<1>5. ASSUME NEW i \in 1 .. m, NEW j \in 1 .. m
      PROVE  Find(trie, SubSeq(text, i, j)) <=> SubSeq(text, i, j) \in words
  BY <1>2 DEF Find, words
<1>6. ASSUME NEW i \in 1 .. m
      PROVE  Nexts(trie, text, i, MaxWordLength)
               = {i} \cup {j \in i .. m : SubSeq(text, i, j) \in words}
  <2>1. Nexts(trie, text, i, MaxWordLength)
          = {i} \cup {j \in i + 1 .. m :
                        /\ j - i + 1 <= MaxWordLength
                        /\ \A k \in i .. j : SubSeq(text, i, k) \in trie.nodes
                        /\ SubSeq(text, i, j) \in words}
    BY <1>2 DEF Nexts, m
  <2>2. ASSUME NEW j \in i + 1 .. m, SubSeq(text, i, j) \in words
        PROVE  /\ j - i + 1 <= MaxWordLength
               /\ \A k \in i .. j : SubSeq(text, i, k) \in trie.nodes
    <3>1. j - i + 1 <= m /\ m <= MaxWordLength
      BY <1>1 DEF m
    <3>2. ASSUME NEW k \in i .. j PROVE SubSeq(text, i, k) \in trie.nodes
      <4>1. i \in 1 .. Len(text) /\ j \in i .. Len(text)
        BY <1>1 DEF m
      <4>2. SubSeq(text, i, k) \in Prefixes(SubSeq(text, i, j))
        BY <4>1, PrefixInText
      <4> QED BY <1>2, <2>2, <4>2
    <3> QED BY <1>1, <1>3, <3>1, <3>2
  <2>3. \A j \in i .. m : j = i \/ j \in i + 1 .. m
    BY <1>1
  <2>4. \A j \in i + 1 .. m : j \in i .. m
    BY <1>1
  <2> QED BY <2>1, <2>2, <2>3, <2>4
<1>7. \A i \in 1 .. n :
        (\A j \in i + 1 .. n : entries[j].word # entries[i].word) /\ entries[i].word # << >>
          => trie.unit[entries[i].word] = entries[i].weight
  BY <1>2
<1> QED BY <1>1, <1>4, <1>5, <1>6, <1>7 DEF FindsItsWords, trie, words, n, m

\* A case of lines is a dictionary.
LEMMA CasesFindTheirWords == CasesInv => DictionariesFindTheirWords
<1> SUFFICES ASSUME CasesInv, kind = "lines" PROVE FindsItsWords(input, SampleText)
  BY DEF DictionariesFindTheirWords
<1> DEFINE C == (UNION {Range(line.word) : line \in Alphabet.lines}) \cup Range(SampleText)
<1>1. \A line \in Alphabet.lines : line \in Lines(C, Int)
  <2> SUFFICES ASSUME NEW line \in Alphabet.lines PROVE line \in Lines(C, Int)
    OBVIOUS
  <2>1. line \in [word : Seq(Range(line.word)), weight : Int]
    BY LinesAssumption
  <2>2. Range(line.word) \subseteq C
    OBVIOUS
  <2> DEFINE R == Range(line.word)
  <2> HIDE DEF C, R
  <2>3. line.word \in Seq(R) /\ R \subseteq C
    BY <2>1, <2>2 DEF R
  <2>4. line.word \in Seq(C)
    <3>1. Len(line.word) \in Nat /\ line.word \in [1 .. Len(line.word) -> R]
      BY <2>3
    <3>2. line.word \in [1 .. Len(line.word) -> C]
      BY <2>3, <3>1
    <3> QED BY <3>1, <3>2
  <2>5. line.weight \in Int /\ line = [word |-> line.word, weight |-> line.weight]
    BY <2>1
  <2> QED BY <2>4, <2>5 DEF Lines
<1>2. input \in Seq(Lines(C, Int))
  <2>1. input \in Seq(Alphabet.lines)
    BY DEF CasesInv
  <2> DEFINE L == Lines(C, Int)
             B == Alphabet.lines
  <2> HIDE DEF L, B
  <2>2. Len(input) \in Nat /\ input \in [1 .. Len(input) -> B]
    BY <2>1 DEF B
  <2>3. input \in [1 .. Len(input) -> L]
    BY <1>1, <2>2 DEF L, B
  <2> QED BY <2>2, <2>3 DEF L
<1>3. SampleText \in Seq(C) /\ Len(SampleText) <= MaxWordLength
  <2>0. Range(SampleText) \subseteq C
    OBVIOUS
  <2>1. SampleText \in Seq(Range(SampleText)) /\ Range(SampleText) \subseteq C
    <3> HIDE DEF C
    <3> QED BY <2>0, LinesAssumption
  <2> HIDE DEF C
  <2> DEFINE R == Range(SampleText)
  <2> HIDE DEF R
  <2>2. Len(SampleText) \in Nat /\ SampleText \in [1 .. Len(SampleText) -> R]
    BY <2>1 DEF R
  <2>3. SampleText \in [1 .. Len(SampleText) -> C]
    BY <2>1, <2>2 DEF R
  <2> QED BY <2>2, <2>3, LinesAssumption
<1> HIDE DEF C
<1> QED BY <1>2, <1>3, TrieFindsItsWords

\* Whatever lines a dictionary has, its trie finds their words and no others,
\* each with its last weight (DictTrie, Trie).
THEOREM DictionariesStayComplete == Spec => []DictionariesFindTheirWords
<1> QED BY CasesInvariant, CasesFindTheirWords, PTL

-----------------------------------------------------------------------------
Rune == [offset : Nat, len : 1 .. 4]

\* The runes of bytes from i on, where D gives those from further on.
RunesFrom(D, bytes, i) ==
  LET len == DecodeRune(bytes[i + 1], Len(bytes) - i)
  IN  IF i = Len(bytes) THEN {<< >>}
      ELSE IF len = 0 THEN {}
      ELSE {<<[offset |-> i, len |-> len]>> \o runes : runes \in D[i + len]}

InRunes(D, bytes) ==
  /\ D \in [0 .. Len(bytes) -> SUBSET Seq(Rune)]
  /\ \A i \in 0 .. Len(bytes) : D[i] = RunesFrom(D, bytes, i)

LEMMA RuneFits ==
  ASSUME NEW byte \in 1 .. 5, NEW rest \in Nat
  PROVE  /\ DecodeRune(byte, rest) \in 0 .. 4 /\ DecodeRune(byte, rest) <= rest
         /\ DecodeRune(byte, rest) # 0 <=> byte <= 4 /\ byte <= rest
         /\ DecodeRune(byte, rest) # 0 => DecodeRune(byte, rest) = byte
<1> QED BY DEF DecodeRune

LEMMA RunesFromFit ==
  ASSUME NEW bytes \in Seq(1 .. 5), NEW i \in 0 .. Len(bytes)
  PROVE  /\ \A D : (\A j \in i + 1 .. Len(bytes) : D[j] \in SUBSET Seq(Rune)) =>
              RunesFrom(D, bytes, i) \in SUBSET Seq(Rune)
         /\ \A D, E : (\A j \in i + 1 .. Len(bytes) : D[j] = E[j]) =>
              RunesFrom(D, bytes, i) = RunesFrom(E, bytes, i)
<1> DEFINE n == Len(bytes)
           len == DecodeRune(bytes[i + 1], n - i)
<1>1. n \in Nat /\ i \in Nat /\ i <= n /\ (i # n => i + 1 \in 1 .. n /\ bytes[i + 1] \in 1 .. 5)
  OBVIOUS
<1> HIDE DEF n
<1>2. i # n /\ len # 0 => len \in 1 .. 4 /\ i + len \in i + 1 .. n
  <2> SUFFICES ASSUME i # n, len # 0 PROVE len \in 1 .. 4 /\ i + len \in i + 1 .. n
    OBVIOUS
  <2>1. n - i \in Nat /\ bytes[i + 1] \in 1 .. 5
    BY <1>1
  <2>2. len \in 0 .. 4 /\ len <= n - i
    BY <2>1, RuneFits
  <2> HIDE DEF len
  <2> QED BY <1>1, <2>2
<1> HIDE DEF len
<1>3. ASSUME NEW D, \A j \in i + 1 .. n : D[j] \in SUBSET Seq(Rune)
      PROVE  RunesFrom(D, bytes, i) \in SUBSET Seq(Rune)
  <2> DEFINE r == [offset |-> i, len |-> len]
  <2>1. RunesFrom(D, bytes, i) = IF i = n THEN {<< >>} ELSE IF len = 0 THEN {}
                                 ELSE {<<r>> \o runes : runes \in D[i + len]}
    BY DEF RunesFrom, len, n
  <2>2. i # n /\ len # 0 => r \in Rune /\ D[i + len] \in SUBSET Seq(Rune)
    BY <1>1, <1>2, <1>3 DEF Rune
  <2> HIDE DEF r
  <2>3. i # n /\ len # 0 => \A runes \in D[i + len] : <<r>> \o runes \in Seq(Rune)
    <3> SUFFICES ASSUME i # n, len # 0, NEW runes \in D[i + len] PROVE <<r>> \o runes \in Seq(Rune)
      OBVIOUS
    <3>1. r \in Rune /\ runes \in Seq(Rune)
      BY <2>2
    <3> QED BY <3>1, InFront
  <2>4. << >> \in Seq(Rune)
    OBVIOUS
  <2>5. CASE i = n
    BY <2>1, <2>4, <2>5
  <2>6. CASE i # n /\ len = 0
    BY <2>1, <2>6
  <2>7. CASE i # n /\ len # 0
    <3>1. RunesFrom(D, bytes, i) = {<<r>> \o runes : runes \in D[i + len]}
      BY <2>1, <2>7
    <3> QED BY <2>3, <2>7, <3>1
  <2> QED BY <2>5, <2>6, <2>7
<1>4. ASSUME NEW D, NEW E, \A j \in i + 1 .. n : D[j] = E[j]
      PROVE  RunesFrom(D, bytes, i) = RunesFrom(E, bytes, i)
  <2>1. i # n /\ len # 0 => D[i + len] = E[i + len]
    BY <1>2, <1>4
  <2> QED BY <2>1 DEF RunesFrom, len, n
<1> QED BY <1>3, <1>4 DEF n

\* DecodeRunes is such a function.
LEMMA DecodeRunesIs ==
  ASSUME NEW bytes \in Seq(1 .. 5)
  PROVE  \E D : /\ InRunes(D, bytes)
                /\ DecodeRunes(bytes) = IF D[0] = {} THEN << >> ELSE CHOOSE runes \in D[0] : TRUE
<1> DEFINE n == Len(bytes)
           m == n + 1
           A == SUBSET Seq(Rune)
           it == CHOOSE Decoded : Decoded = [i \in 0 .. n |-> RunesFrom(Decoded, bytes, i)]
           Behind(G) == [i \in 0 .. n |-> G[i + 1]]
           h == [p \in 1 .. m |-> [G \in [1 .. m -> A] |-> RunesFrom(Behind(G), bytes, p - 1)]]
<1>1. DecodeRunes(bytes) = IF it[0] = {} THEN << >> ELSE CHOOSE runes \in it[0] : TRUE
  BY DEF DecodeRunes, RunesFrom
<1>2. n \in Nat /\ m \in Nat /\ m = n + 1 /\ (\A p \in 1 .. m : p - 1 \in 0 .. n)
      /\ \A i \in 0 .. n : i + 1 \in 1 .. m /\ (i + 1) - 1 = i
  OBVIOUS
<1> HIDE DEF it, m, n
<1>3. ASSUME NEW p \in 1 .. m, NEW G \in [1 .. m -> A]
      PROVE  RunesFrom(Behind(G), bytes, p - 1) \in A
  <2>1. \A j \in 0 .. n : Behind(G)[j] \in A
    <3> HIDE DEF A
    <3> QED BY <1>2
  <2>2. \A j \in p - 1 + 1 .. n : j \in 0 .. n
    BY <1>2
  <2> HIDE DEF Behind
  <2>3. \A j \in p - 1 + 1 .. n : Behind(G)[j] \in SUBSET Seq(Rune)
    BY <2>1, <2>2
  <2>4. p - 1 \in 0 .. n
    BY <1>2
  <2> QED BY <2>3, <2>4, RunesFromFit DEF n
<1>4. ASSUME NEW p \in 1 .. m, NEW F \in [1 .. m -> A], NEW G \in [1 .. m -> A],
             \A q \in p + 1 .. m : F[q] = G[q]
      PROVE  RunesFrom(Behind(F), bytes, p - 1) = RunesFrom(Behind(G), bytes, p - 1)
  <2>1. \A j \in p - 1 + 1 .. n : j \in 0 .. n /\ j + 1 \in p + 1 .. m
    BY <1>2
  <2>2. \A j \in p - 1 + 1 .. n : Behind(F)[j] = Behind(G)[j]
    BY <1>4, <2>1
  <2> HIDE DEF Behind
  <2>3. p - 1 \in 0 .. n
    BY <1>2
  <2> QED BY <2>2, <2>3, RunesFromFit DEF n
<1>5. \A p \in 1 .. m : \A G \in [1 .. m -> A] : h[p][G] = RunesFrom(Behind(G), bytes, p - 1)
  <2> HIDE DEF A, Behind
  <2> QED OBVIOUS
<1>6. IsBackwards(h, 1, m, A)
  <2>1. h \in [1 .. m -> [[1 .. m -> A] -> A]]
    <3> HIDE DEF A, Behind
    <3> QED BY <1>3
  <2> HIDE DEF h, A, Behind
  <2>2. \A i \in 1 .. m : \A F, G \in [1 .. m -> A] :
          (\A j \in i + 1 .. m : F[j] = G[j]) => h[i][F] = h[i][G]
    <3> SUFFICES ASSUME NEW i \in 1 .. m, NEW F \in [1 .. m -> A], NEW G \in [1 .. m -> A],
                        \A j \in i + 1 .. m : F[j] = G[j]
                 PROVE  h[i][F] = h[i][G]
      OBVIOUS
    <3>1. RunesFrom(Behind(F), bytes, i - 1) = RunesFrom(Behind(G), bytes, i - 1)
      BY <1>4
    <3> QED BY <1>5, <3>1
  <2> QED BY <2>1, <2>2 DEF IsBackwards
<1>7. {} \in A
  OBVIOUS
<1> HIDE DEF h, A
<1>8. PICK G \in [1 .. m -> A] : \A p \in 1 .. m : G[p] = h[p][G]
  <2>1. 1 \in Int /\ m \in Int /\ 1 <= m /\ \E a : a \in A
    BY <1>2, <1>7
  <2>2. \E G : IsMade(G, h, 1, m, A)
    BY <1>6, <2>1, BackwardsExists
  <2> QED BY <2>2 DEF IsMade
<1> DEFINE D == Behind(G)
<1>9. D \in [0 .. n -> A] /\ DOMAIN D = 0 .. n
  BY <1>2
<1>10. \A i \in 0 .. n : D[i] = G[i + 1]
  OBVIOUS
<1> HIDE DEF Behind
<1>11. \A i \in 0 .. n : D[i] = RunesFrom(D, bytes, i)
  <2> SUFFICES ASSUME NEW i \in 0 .. n PROVE D[i] = RunesFrom(D, bytes, i)
    OBVIOUS
  <2>1. i + 1 \in 1 .. m /\ (i + 1) - 1 = i
    BY <1>2
  <2>2. h[i + 1][G] = RunesFrom(D, bytes, (i + 1) - 1)
    BY <1>5, <2>1
  <2> QED BY <1>8, <1>10, <2>1, <2>2
<1> HIDE DEF D
<1>12. it = [i \in 0 .. n |-> RunesFrom(it, bytes, i)]
  <2>1. D = [i \in 0 .. n |-> RunesFrom(D, bytes, i)]
    BY <1>9, <1>11
  <2> QED BY <2>1 DEF it
<1>13. it = D
  <2> DEFINE T == {k \in 0 .. m : \A i \in m - k .. n : it[i] = D[i]}
  <2>1. 0 \in T
    BY <1>2
  <2>2. ASSUME NEW k \in 1 .. m, k - 1 \in T PROVE k \in T
    <3> DEFINE p == m - k
    <3>1. p \in 0 .. n /\ m - (k - 1) = p + 1 /\ \A i \in p .. n : i = p \/ i \in p + 1 .. n
      BY <1>2
    <3>2. \A i \in p + 1 .. n : it[i] = D[i]
      BY <2>2, <3>1
    <3> HIDE DEF p
    <3>3. RunesFrom(it, bytes, p) = RunesFrom(D, bytes, p)
      BY <3>1, <3>2, RunesFromFit DEF n
    <3>4. it[p] = D[p]
      BY <1>11, <1>12, <3>1, <3>3
    <3>5. \A i \in p .. n : it[i] = D[i]
      BY <3>1, <3>2, <3>4
    <3> QED BY <3>5 DEF p
  <2>3. m \in T
    <3> HIDE DEF T
    <3>1. \A k \in 1 .. m : k - 1 \in T => k \in T
      BY <2>2
    <3>2. \A k \in 0 .. m : k \in T
      BY <1>2, <2>1, <3>1, UpTo, Zenon
    <3> QED BY <1>2, <3>2
  <2>4. m - m = 0
    BY <1>2
  <2>5. \A i \in 0 .. n : it[i] = D[i]
    BY <2>3, <2>4
  <2> QED BY <1>9, <1>12, <2>5
<1>14. InRunes(D, bytes)
  BY <1>9, <1>11 DEF InRunes, A, n
<1>15. DecodeRunes(bytes) = IF D[0] = {} THEN << >> ELSE CHOOSE runes \in D[0] : TRUE
  BY <1>1, <1>13
<1> QED BY <1>14, <1>15

\* Runes side by side, from i to n.
LieSideBySide(runes, i, n) ==
  /\ runes = << >> <=> i = n
  /\ runes # << >> =>
       /\ runes[1].offset = i
       /\ \A k \in 1 .. Len(runes) - 1 : runes[k + 1].offset = runes[k].offset + runes[k].len
       /\ runes[Len(runes)].offset + runes[Len(runes)].len = n

LEMMA OneMoreRune ==
  ASSUME NEW n \in Nat, NEW i \in Nat, NEW len \in 1 .. 4, NEW s \in Seq(Rune), i < n,
         LieSideBySide(s, i + len, n)
  PROVE  LieSideBySide(<<[offset |-> i, len |-> len]>> \o s, i, n)
<1> DEFINE r == [offset |-> i, len |-> len]
           t == <<r>> \o s
<1>1. r \in Rune /\ r.offset = i /\ r.len = len
  BY DEF Rune
<1> HIDE DEF r
<1>2. t \in Seq(Rune) /\ Len(t) = 1 + Len(s) /\ t[1] = r /\ \A k \in 2 .. 1 + Len(s) : t[k] = s[k - 1]
  BY <1>1, InFront
<1>3. Len(s) \in Nat /\ (s = << >> <=> Len(s) = 0)
  OBVIOUS
<1> HIDE DEF t
<1>4. t # << >> /\ t[1].offset = i /\ i # n
  BY <1>1, <1>2, <1>3
<1>5. CASE s = << >>
  <2>1. Len(t) = 1 /\ i + len = n
    BY <1>2, <1>3, <1>5 DEF LieSideBySide
  <2>2. t[Len(t)].offset + t[Len(t)].len = n
    BY <1>1, <1>2, <2>1
  <2>3. 1 .. Len(t) - 1 = {}
    BY <2>1
  <2> QED BY <1>4, <2>2, <2>3 DEF LieSideBySide, t, r
<1>6. CASE s # << >>
  <2>1. /\ s[1].offset = i + len
        /\ \A k \in 1 .. Len(s) - 1 : s[k + 1].offset = s[k].offset + s[k].len
        /\ s[Len(s)].offset + s[Len(s)].len = n
    BY <1>6 DEF LieSideBySide
  <2>2. Len(s) \in Nat \ {0}
    BY <1>3, <1>6
  <2>3. ASSUME NEW k \in 1 .. Len(t) - 1 PROVE t[k + 1].offset = t[k].offset + t[k].len
    <3>0. k \in 1 .. Len(s)
      BY <1>2, <1>3
    <3>1. t[k + 1] = s[k]
      <4>1. k + 1 \in 2 .. 1 + Len(s) /\ (k + 1) - 1 = k
        BY <1>3, <3>0
      <4> QED BY <1>2, <4>1
    <3>2. CASE k = 1
      BY <1>1, <1>2, <2>1, <3>1, <3>2
    <3>3. CASE k # 1
      <4>1. k \in 2 .. 1 + Len(s) /\ k - 1 \in 1 .. Len(s) - 1 /\ (k - 1) + 1 = k
        BY <1>3, <3>0, <3>3
      <4>2. t[k] = s[k - 1]
        BY <1>2, <4>1
      <4> QED BY <2>1, <3>1, <4>1, <4>2
    <3> QED BY <3>2, <3>3
  <2>4. t[Len(t)] = s[Len(s)]
    <3>1. Len(t) \in 2 .. 1 + Len(s) /\ Len(t) - 1 = Len(s)
      BY <1>2, <2>2
    <3> QED BY <1>2, <3>1
  <2> QED BY <1>4, <2>1, <2>3, <2>4 DEF LieSideBySide, t, r
<1> QED BY <1>5, <1>6

\* Bytes in any order either all decode, each in one rune, or none does
\* (DecodeRunesInString).
THEOREM RunesLieSideBySide ==
  ASSUME NEW bytes \in Seq(1 .. 5)
  PROVE  RunesAreTheBytes(bytes)
<1> DEFINE n == Len(bytes)
<1>1. n \in Nat /\ \A i \in 1 .. n : bytes[i] \in 1 .. 5
  OBVIOUS
<1>2. PICK D : /\ InRunes(D, bytes)
               /\ DecodeRunes(bytes) = IF D[0] = {} THEN << >> ELSE CHOOSE runes \in D[0] : TRUE
  BY DecodeRunesIs
<1>3. D \in [0 .. n -> SUBSET Seq(Rune)] /\ \A i \in 0 .. n : D[i] = RunesFrom(D, bytes, i)
  BY <1>2 DEF InRunes
<1> DEFINE Lie(i) == \A runes \in D[i] : LieSideBySide(runes, i, n)
           T == {k \in 0 .. n : \A i \in n - k .. n : Lie(i)}
<1> HIDE DEF n
<1>4. Lie(n)
  <2>1. RunesFrom(D, bytes, n) = {<< >>}
    BY DEF RunesFrom, n
  <2>2. D[n] = {<< >>}
    BY <1>1, <1>3, <2>1
  <2> QED BY <2>2 DEF LieSideBySide
<1>5. ASSUME NEW i \in 0 .. n - 1, \A j \in i + 1 .. n : Lie(j) PROVE Lie(i)
  <2> DEFINE len == DecodeRune(bytes[i + 1], n - i)
  <2>0. i + 1 \in 1 .. n /\ n - i \in Nat /\ i \in Nat /\ i < n /\ i \in 0 .. n
    BY <1>1
  <2>1. len \in 0 .. 4 /\ len <= n - i
    BY <1>1, <2>0, RuneFits
  <2>2. D[i] = IF len = 0 THEN {} ELSE {<<[offset |-> i, len |-> len]>> \o runes : runes \in D[i + len]}
    <3>1. i # n /\ D[i] = RunesFrom(D, bytes, i)
      BY <1>1, <1>3, <2>0
    <3>2. RunesFrom(D, bytes, i) = IF i = n THEN {<< >>} ELSE IF len = 0 THEN {}
                                   ELSE {<<[offset |-> i, len |-> len]>> \o runes : runes \in D[i + len]}
      BY DEF RunesFrom, n
    <3> QED BY <3>1, <3>2
  <2> HIDE DEF len
  <2>3. CASE len = 0
    BY <2>2, <2>3
  <2>4. CASE len # 0
    <3>1. len \in 1 .. 4 /\ i + len \in i + 1 .. n /\ i + len \in 0 .. n
      BY <2>0, <2>1, <2>4, <1>1
    <3>2. ASSUME NEW s \in D[i + len]
          PROVE  LieSideBySide(<<[offset |-> i, len |-> len]>> \o s, i, n)
      <4>1. s \in Seq(Rune) /\ LieSideBySide(s, i + len, n)
        BY <1>3, <1>5, <3>1
      <4> QED BY <1>1, <2>0, <3>1, <4>1, OneMoreRune
    <3> QED BY <2>2, <2>4, <3>2
  <2> QED BY <2>3, <2>4
<1> HIDE DEF Lie
<1>6. 0 \in T
  BY <1>1, <1>4
<1>7. \A k \in 1 .. n : k - 1 \in T => k \in T
  <2> SUFFICES ASSUME NEW k \in 1 .. n, k - 1 \in T PROVE k \in T
    OBVIOUS
  <2> DEFINE p == n - k
  <2>1. p \in 0 .. n - 1 /\ n - (k - 1) = p + 1 /\ \A i \in p .. n : i = p \/ i \in p + 1 .. n
    BY <1>1
  <2>2. \A j \in p + 1 .. n : Lie(j)
    BY <2>1
  <2> HIDE DEF p
  <2>3. Lie(p)
    BY <1>5, <2>1, <2>2
  <2>4. \A i \in p .. n : Lie(i)
    BY <2>1, <2>2, <2>3
  <2> QED BY <2>4 DEF p
<1>8. Lie(0)
  <2> HIDE DEF T
  <2>1. \A k \in 0 .. n : k \in T
    BY <1>1, <1>6, <1>7, UpTo, Zenon
  <2>2. n \in T
    BY <1>1, <2>1
  <2> QED BY <1>1, <2>2 DEF T
<1> DEFINE runes == DecodeRunes(bytes)
<1>9. runes # << >> => runes \in D[0]
  BY <1>2
<1> HIDE DEF runes
<1>10. runes # << >> => LieSideBySide(runes, 0, n)
  BY <1>8, <1>9 DEF Lie
<1> QED BY <1>10 DEF RunesAreTheBytes, LieSideBySide, Last, runes, n

-----------------------------------------------------------------------------
Total(widths) == FoldLeft(LAMBDA n, width : n + width, 0, widths)

\* The sums of the first numbers of a sequence.
IsSumIn(S, widths, A) ==
  /\ S \in [0 .. Len(widths) -> A]
  /\ S[0] = 0
  /\ \A k \in 1 .. Len(widths) : S[k] = S[k - 1] + widths[k]

LEMMA SumIs ==
  ASSUME NEW A, A \subseteq Int, 0 \in A, \A a, b \in A : a + b \in A,
         NEW widths \in Seq(A)
  PROVE  \E S : IsSumIn(S, widths, A) /\ Total(widths) = S[Len(widths)]
<1> DEFINE n == Len(widths)
           F == [x \in A \X (1 .. n) |-> x[1] + widths[x[2]]]
           it == CHOOSE iter : iter = [s \in SUBSET DOMAIN widths |->
                   IF s = {} THEN 0 ELSE iter[s \ {Max(s)}] + widths[Max(s)]]
<1>1. Total(widths) = it[DOMAIN widths]
  BY DEF Total, FoldLeft, MapThenFoldSet
<1>2. n \in Nat /\ DOMAIN widths = 1 .. n /\ \A k \in 1 .. n : widths[k] \in A
  OBVIOUS
<1> HIDE DEF n, it
<1>3. F \in [A \X (1 .. n) -> A]
  BY <1>2
<1>4. \A a \in A : \A k \in 1 .. n : F[<<a, k>>] = a + widths[k]
  OBVIOUS
<1> HIDE DEF F
<1>5. PICK G \in [SUBSET (1 .. n) -> A] : IsFold(G, n, 0, F)
  BY <1>2, <1>3, FoldExists
<1>6. ASSUME NEW s \in SUBSET (1 .. n), s # {}
      PROVE  /\ Max(s) \in 1 .. n /\ s \ {Max(s)} \in SUBSET (1 .. n)
             /\ G[s] = G[s \ {Max(s)}] + widths[Max(s)]
  <2>1. Max(s) \in 1 .. n /\ s \ {Max(s)} \in SUBSET (1 .. n)
    BY <1>2, <1>6, MaxIsGreatest
  <2>2. G[s] = F[<<G[s \ {Max(s)}], Max(s)>>]
    BY <1>5, <1>6 DEF IsFold
  <2>3. G[s \ {Max(s)}] \in A
    BY <2>1
  <2> QED BY <1>4, <2>1, <2>2, <2>3
<1>7. G[{}] = 0
  BY <1>5 DEF IsFold
<1>8. it = [s \in SUBSET DOMAIN widths |->
              IF s = {} THEN 0 ELSE it[s \ {Max(s)}] + widths[Max(s)]]
  <2>1. G = [s \in SUBSET DOMAIN widths |->
               IF s = {} THEN 0 ELSE G[s \ {Max(s)}] + widths[Max(s)]]
    BY <1>2, <1>6, <1>7
  <2> QED BY <2>1 DEF it
<1>9. it[{}] = 0 /\ \A k \in 1 .. n : it[1 .. k] = it[1 .. k - 1] + widths[k]
  <2>1. it[{}] = 0
    BY <1>8
  <2>2. ASSUME NEW k \in 1 .. n PROVE it[1 .. k] = it[1 .. k - 1] + widths[k]
    <3>1. 1 .. k \in SUBSET (1 .. n) /\ k \in Nat /\ k # 0
      BY <1>2
    <3>2. Max(1 .. k) = k /\ (1 .. k) \ {k} = 1 .. k - 1 /\ 1 .. k # {}
      BY <3>1, MaxOfInterval
    <3> QED BY <1>2, <1>8, <3>1, <3>2
  <2> QED BY <2>1, <2>2
<1> DEFINE T == {k \in 0 .. n : it[1 .. k] \in A}
<1>10. \A k \in 0 .. n : k \in T
  <2>1. 0 \in T
    <3>1. 1 .. 0 = {}
      OBVIOUS
    <3> QED BY <1>2, <1>9, <3>1
  <2>2. \A k \in 1 .. n : k - 1 \in T => k \in T
    <3> SUFFICES ASSUME NEW k \in 1 .. n, k - 1 \in T PROVE k \in T
      OBVIOUS
    <3>1. it[1 .. k] = it[1 .. k - 1] + widths[k]
      BY <1>9
    <3>2. it[1 .. k - 1] \in A /\ widths[k] \in A /\ k \in 0 .. n
      BY <1>2
    <3>3. it[1 .. k] \in A
      BY <3>1, <3>2
    <3> QED BY <3>2, <3>3
  <2> HIDE DEF T
  <2> QED BY <1>2, <2>1, <2>2, UpTo, Zenon
<1> DEFINE S == [k \in 0 .. n |-> it[1 .. k]]
<1>11. S \in [0 .. n -> A]
  BY <1>10
<1>12. S[0] = 0
  <2>1. 1 .. 0 = {} /\ 0 \in 0 .. n
    BY <1>2
  <2> QED BY <1>9, <2>1
<1>13. \A k \in 1 .. n : S[k] = S[k - 1] + widths[k]
  <2>1. \A k \in 1 .. n : k \in 0 .. n /\ k - 1 \in 0 .. n
    BY <1>2
  <2> QED BY <1>9, <2>1
<1>14. Total(widths) = S[n]
  BY <1>1, <1>2
<1> HIDE DEF S
<1> QED BY <1>11, <1>12, <1>13, <1>14 DEF IsSumIn, n

\* The numbers of bytes add up to a number of bytes.
IsSum(S, widths) ==
  /\ S \in [0 .. Len(widths) -> Nat]
  /\ S[0] = 0
  /\ \A k \in 1 .. Len(widths) : S[k] = S[k - 1] + widths[k]

LEMMA TotalIs ==
  ASSUME NEW widths \in Seq(Nat)
  PROVE  \E S : IsSum(S, widths) /\ Total(widths) = S[Len(widths)]
<1>1. Nat \subseteq Int /\ 0 \in Nat /\ \A a, b \in Nat : a + b \in Nat
  OBVIOUS
<1>2. PICK S : IsSumIn(S, widths, Nat) /\ Total(widths) = S[Len(widths)]
  BY <1>1, SumIs
<1> QED BY <1>2 DEF IsSumIn, IsSum

\* The characters l .. r have as many bytes as the sums differ by.
LEMMA BytesAre ==
  ASSUME NEW text \in Seq(Nat), NEW S, IsSum(S, text),
         NEW l \in 1 .. Len(text) + 1, NEW r \in l - 1 .. Len(text)
  PROVE  Bytes(text, l, r) = S[r] - S[l - 1]
<1> DEFINE n == Len(text)
           part == SubSeq(text, l, r)
           m == r - l + 1
<1>1. n \in Nat /\ m \in Nat /\ l \in Nat /\ l + m - 1 = r /\ r <= n
  OBVIOUS
<1>2. part \in Seq(Nat) /\ Len(part) = m /\ \A i \in 1 .. m : part[i] = text[l + i - 1]
  OBVIOUS
<1>3. Bytes(text, l, r) = Total(part)
  BY DEF Bytes, Total
<1>4. S \in [0 .. n -> Nat] /\ \A k \in 1 .. n : S[k] = S[k - 1] + text[k]
  BY DEF IsSum
<1> HIDE DEF n, part, m
<1>5. PICK R : IsSum(R, part) /\ Total(part) = R[m]
  BY <1>2, TotalIs
<1>6. R \in [0 .. m -> Nat] /\ R[0] = 0 /\ \A k \in 1 .. m : R[k] = R[k - 1] + part[k]
  BY <1>2, <1>5 DEF IsSum
<1> DEFINE T == {k \in 0 .. m : R[k] = S[l - 1 + k] - S[l - 1]}
<1>7. 0 \in T
  <2>1. l - 1 + 0 = l - 1 /\ l - 1 \in 0 .. n
    BY <1>1
  <2>2. S[l - 1] \in Nat
    BY <1>4, <2>1
  <2> QED BY <1>1, <1>6, <2>1, <2>2
<1>8. \A k \in 1 .. m : k - 1 \in T => k \in T
  <2> SUFFICES ASSUME NEW k \in 1 .. m, k - 1 \in T PROVE k \in T
    OBVIOUS
  <2>1. l - 1 + k \in 1 .. n /\ l - 1 + k - 1 = l - 1 + (k - 1) /\ l + k - 1 = l - 1 + k
        /\ l - 1 + (k - 1) \in 0 .. n /\ l - 1 + k \in 0 .. n /\ l - 1 \in 0 .. n /\ k \in 0 .. m
    BY <1>1
  <2>2. S[l - 1 + k] = S[l - 1 + (k - 1)] + text[l - 1 + k]
    BY <1>4, <2>1
  <2>3. R[k] = R[k - 1] + text[l - 1 + k]
    BY <1>2, <1>6, <2>1
  <2>4. R[k - 1] = S[l - 1 + (k - 1)] - S[l - 1]
    OBVIOUS
  <2>5. S[l - 1 + (k - 1)] \in Nat /\ S[l - 1] \in Nat /\ S[l - 1 + k] \in Nat
    BY <1>4, <2>1
  <2>6. text[l - 1 + k] \in Nat
    BY <2>1 DEF n
  <2>7. R[k] = S[l - 1 + k] - S[l - 1]
    <3>1. \A a, b, c \in Nat : (a - b) + c = (a + c) - b
      OBVIOUS
    <3>2. R[k] = (S[l - 1 + (k - 1)] - S[l - 1]) + text[l - 1 + k]
      BY <2>3, <2>4
    <3> DEFINE a == S[l - 1 + (k - 1)]
               b == S[l - 1]
               c == text[l - 1 + k]
    <3>3. a \in Nat /\ b \in Nat /\ c \in Nat
      BY <2>5, <2>6
    <3>4. S[l - 1 + k] = a + c /\ R[k] = (a - b) + c
      BY <2>2, <3>2
    <3> HIDE DEF a, b, c
    <3>5. R[k] = (a + c) - b
      BY <3>1, <3>3, <3>4
    <3> QED BY <3>4, <3>5 DEF b
  <2> QED BY <2>1, <2>7
<1>9. R[m] = S[l - 1 + m] - S[l - 1]
  <2> HIDE DEF T
  <2>0. \A k \in 0 .. m : k \in T
    BY <1>1, <1>7, <1>8, UpTo, Zenon
  <2>1. m \in T
    BY <1>1, <2>0
  <2> QED BY <2>1 DEF T
<1>10. l - 1 + m = r
  BY <1>1
<1> QED BY <1>3, <1>5, <1>9, <1>10

\* How a text is encoded: every character begins where the bytes of those before
\* it end, and with a byte that tells how many it has.
IsText(S, text, bytes) ==
  /\ IsSum(S, text)
  /\ bytes \in Seq(1 .. 4)
  /\ Len(bytes) = S[Len(text)]
  /\ \A k \in 1 .. Len(text) : S[k - 1] + 1 \in 1 .. Len(bytes) /\ bytes[S[k - 1] + 1] = text[k]

LEMMA EncodedIs ==
  ASSUME NEW text \in Seq(1 .. 4)
  PROVE  \E S : IsText(S, text, Encoded(text))
<1> DEFINE n == Len(text)
           Char(w) == [i \in 1 .. w |-> IF i = 1 THEN w ELSE 2]
           chars == [k \in DOMAIN text |-> Char(text[k])]
<1>1. n \in Nat /\ DOMAIN text = 1 .. n /\ \A k \in 1 .. n : text[k] \in 1 .. 4
  OBVIOUS
<1>2. text \in Seq(Nat)
  OBVIOUS
<1>3. PICK S : IsSum(S, text)
  BY <1>2, TotalIs
<1>4. /\ S \in [0 .. n -> Nat] /\ S[0] = 0
      /\ \A k \in 1 .. n : S[k] = S[k - 1] + text[k]
  BY <1>3 DEF IsSum
<1>5. \A w \in 1 .. 4 : Char(w) \in Seq(1 .. 4) /\ Len(Char(w)) = w /\ Char(w)[1] = w
  OBVIOUS
<1> HIDE DEF Char, n
<1>6. chars \in [1 .. n -> Seq(1 .. 4)] /\ \A k \in 1 .. n : chars[k] = Char(text[k])
  BY <1>1, <1>5
<1>7. Encoded(text) = FlattenSeq(chars)
  BY DEF Encoded, Char
<1> HIDE DEF chars
<1>8. PICK P : IsFlattened(P, chars, n, 1 .. 4)
  BY <1>1, <1>6, FlattenIs
<1>9. /\ P \in [0 .. n -> Seq(1 .. 4)] /\ P[0] = << >> /\ FlattenSeq(chars) = P[n]
      /\ \A k \in 1 .. n : P[k] = P[k - 1] \o chars[k]
  BY <1>8 DEF IsFlattened, Grows
<1>10. ASSUME NEW k \in 1 .. n
       PROVE  /\ Len(P[k]) = Len(P[k - 1]) + text[k]
              /\ P[k][Len(P[k - 1]) + 1] = text[k]
  <2> DEFINE s == P[k - 1]
             t == chars[k]
  <2>1. s \in Seq(1 .. 4) /\ t \in Seq(1 .. 4) /\ P[k] = s \o t
    <3>1. k - 1 \in 0 .. n
      BY <1>1
    <3> QED BY <1>6, <1>9, <3>1
  <2>2. Len(t) = text[k] /\ t[1] = text[k] /\ text[k] \in 1 .. 4
    BY <1>1, <1>5, <1>6
  <2> HIDE DEF s, t
  <2> DEFINE u == s \o t
  <2>3. /\ Len(u) = Len(s) + Len(t) /\ Len(s) \in Nat
        /\ \A i \in 1 .. Len(s) + Len(t) : u[i] = IF i <= Len(s) THEN s[i] ELSE t[i - Len(s)]
    BY <2>1, ConcatProperties
  <2> HIDE DEF u
  <2>4. Len(s) + 1 \in 1 .. Len(s) + Len(t) /\ ~(Len(s) + 1 <= Len(s)) /\ Len(s) + 1 - Len(s) = 1
    BY <2>2, <2>3
  <2>5. u[Len(s) + 1] = text[k] /\ Len(u) = Len(s) + text[k]
    BY <2>2, <2>3, <2>4
  <2> QED BY <2>1, <2>5 DEF s, u
<1>11. \A k \in 0 .. n : Len(P[k]) = S[k]
  <2> DEFINE T == {k \in 0 .. n : Len(P[k]) = S[k]}
  <2>1. 0 \in T
    BY <1>1, <1>4, <1>9
  <2>2. \A k \in 1 .. n : k - 1 \in T => k \in T
    BY <1>1, <1>4, <1>10
  <2> HIDE DEF T
  <2>3. \A k \in 0 .. n : k \in T
    BY <1>1, <2>1, <2>2, UpTo
  <2> QED BY <2>3 DEF T
<1>12. \A k \in 0 .. n : Len(P[k]) <= Len(P[n]) /\ \A j \in 1 .. Len(P[k]) : P[n][j] = P[k][j]
  <2>1. Grows(P, chars, n, 1 .. 4)
    BY <1>8 DEF IsFlattened
  <2>2. Stays(P, n)
    BY <1>1, <1>6, <2>1, PrefixesStay
  <2> QED BY <2>2 DEF Stays
<1>13. P[n] \in Seq(1 .. 4) /\ Len(P[n]) = S[n]
  BY <1>1, <1>9, <1>11
<1>14. ASSUME NEW k \in 1 .. n
       PROVE  S[k - 1] + 1 \in 1 .. Len(P[n]) /\ P[n][S[k - 1] + 1] = text[k]
  <2>1. k \in 0 .. n /\ k - 1 \in 0 .. n /\ S[k - 1] \in Nat /\ text[k] \in 1 .. 4
    BY <1>1, <1>4
  <2>2. Len(P[k]) = S[k - 1] + text[k] /\ P[k][S[k - 1] + 1] = text[k]
    BY <1>10, <1>11, <2>1
  <2>3. S[k - 1] + 1 \in 1 .. Len(P[k])
    BY <2>1, <2>2
  <2>4. Len(P[k]) <= Len(P[n]) /\ Len(P[n]) \in Nat
    BY <1>12, <1>13, <2>1
  <2>5. Len(P[k]) \in Nat
    BY <2>1, <2>2
  <2>6. P[n][S[k - 1] + 1] = P[k][S[k - 1] + 1]
    BY <1>12, <2>1, <2>3
  <2>7. S[k - 1] + 1 \in 1 .. Len(P[n])
    BY <2>3, <2>4, <2>5
  <2> QED BY <2>2, <2>6, <2>7
<1> QED BY <1>3, <1>7, <1>9, <1>13, <1>14 DEF IsText, n

-----------------------------------------------------------------------------
\* The first m bytes of a text, decoded: at the beginning of a character there is
\* that character and what follows it, if all of it lies in them.
Follows(D, S, text, m) ==
  /\ \A k \in 1 .. Len(text) : S[k - 1] < m =>
       D[S[k - 1]] = IF S[k] <= m
                     THEN {<<[offset |-> S[k - 1], len |-> text[k]]>> \o runes : runes \in D[S[k]]}
                     ELSE {}
  /\ D[m] = {<< >>}

LEMMA CutIs ==
  ASSUME NEW bytes \in Seq(1 .. 4), NEW size \in Nat
  PROVE  \E m \in 0 .. Len(bytes) :
           /\ Len(Cut(bytes, size)) = m /\ Cut(bytes, size) \in Seq(1 .. 5)
           /\ \A i \in 1 .. m : Cut(bytes, size)[i] = bytes[i]
<1> DEFINE m == IF size < Len(bytes) THEN size ELSE Len(bytes)
<1>1. m \in 0 .. Len(bytes) /\ \A i \in 1 .. Len(bytes) : bytes[i] \in 1 .. 4
  OBVIOUS
<1>2. Cut(bytes, size) = SubSeq(bytes, 1, m)
  BY DEF Cut
<1> HIDE DEF m
<1> DEFINE front == SubSeq(bytes, 1, m)
<1>3. Len(front) = m /\ front \in Seq(1 .. 4) /\ \A i \in 1 .. m : front[i] = bytes[i]
  BY <1>1
<1> HIDE DEF front
<1>4. front \in Seq(1 .. 5)
  BY <1>3
<1> QED BY <1>1, <1>2, <1>3, <1>4 DEF front

LEMMA CutFollows ==
  ASSUME NEW text \in Seq(1 .. 4), NEW S, IsText(S, text, Encoded(text)), NEW size \in Nat
  PROVE  \E m \in 0 .. S[Len(text)] : \E D :
           /\ Len(Cut(Encoded(text), size)) = m
           /\ Follows(D, S, text, m)
           /\ DecodeRunes(Cut(Encoded(text), size))
                = IF D[0] = {} THEN << >> ELSE CHOOSE runes \in D[0] : TRUE
<1> DEFINE n == Len(text)
           all == Encoded(text)
           bytes == Cut(all, size)
<1>1. /\ S \in [0 .. n -> Nat] /\ all \in Seq(1 .. 4) /\ Len(all) = S[n]
      /\ \A k \in 1 .. n : S[k] = S[k - 1] + text[k]
      /\ \A k \in 1 .. n : all[S[k - 1] + 1] = text[k]
  BY DEF IsText, IsSum
<1>2. n \in Nat /\ \A k \in 1 .. n : text[k] \in 1 .. 4
  OBVIOUS
<1> HIDE DEF n, all, bytes
<1>3. PICK m \in 0 .. S[n] : /\ Len(bytes) = m /\ bytes \in Seq(1 .. 5)
                             /\ \A i \in 1 .. m : bytes[i] = all[i]
  BY <1>1, CutIs DEF bytes
<1>4. PICK D : /\ InRunes(D, bytes)
               /\ DecodeRunes(bytes) = IF D[0] = {} THEN << >> ELSE CHOOSE runes \in D[0] : TRUE
  BY <1>3, DecodeRunesIs
<1>5. \A i \in 0 .. m : D[i] = RunesFrom(D, bytes, i)
  BY <1>3, <1>4 DEF InRunes
<1>6. S[n] \in Nat /\ m \in Nat
  BY <1>1, <1>2
<1>7. D[m] = {<< >>}
  <2>1. RunesFrom(D, bytes, m) = {<< >>}
    BY <1>3 DEF RunesFrom
  <2> QED BY <1>5, <1>6, <2>1
<1>8. ASSUME NEW k \in 1 .. n, S[k - 1] < m
      PROVE  D[S[k - 1]] = IF S[k] <= m
                           THEN {<<[offset |-> S[k - 1], len |-> text[k]]>> \o runes : runes \in D[S[k]]}
                           ELSE {}
  <2> DEFINE i == S[k - 1]
             w == text[k]
             len == DecodeRune(bytes[i + 1], m - i)
  <2>1. i \in Nat /\ w \in 1 .. 4 /\ S[k] = i + w /\ i < m
    <3>1. k - 1 \in 0 .. n
      BY <1>2
    <3> QED BY <1>1, <1>2, <1>8, <3>1
  <2>2. all[i + 1] = w
    BY <1>1
  <2> HIDE DEF i, w
  <2>3. i \in 0 .. m /\ i # m /\ i + 1 \in 1 .. m /\ (S[k] <= m <=> w <= m - i)
    BY <1>6, <2>1
  <2>4. len = IF w <= m - i THEN w ELSE 0
    <3>1. bytes[i + 1] = w /\ w <= 4
      BY <1>3, <2>1, <2>2, <2>3
    <3> QED BY <3>1 DEF DecodeRune
  <2>5. RunesFrom(D, bytes, i) = IF len = 0 THEN {}
                                 ELSE {<<[offset |-> i, len |-> len]>> \o runes : runes \in D[i + len]}
    BY <1>3, <2>3 DEF RunesFrom
  <2>6. D[i] = RunesFrom(D, bytes, i)
    BY <1>5, <2>3
  <2> HIDE DEF len
  <2>7. CASE S[k] <= m
    <3>1. len = w /\ len # 0 /\ i + len = S[k]
      BY <2>1, <2>3, <2>4, <2>7
    <3>2. D[i] = {<<[offset |-> i, len |-> w]>> \o runes : runes \in D[S[k]]}
      BY <2>5, <2>6, <3>1
    <3> QED BY <2>7, <3>2 DEF i, w
  <2>8. CASE ~(S[k] <= m)
    <3>1. len = 0
      BY <2>3, <2>4, <2>8
    <3> QED BY <2>5, <2>6, <2>8, <3>1 DEF i
  <2> QED BY <2>7, <2>8
<1>9. Follows(D, S, text, m)
  BY <1>7, <1>8 DEF Follows, n
<1> QED BY <1>3, <1>4, <1>9 DEF n, bytes, all

\* A text cut inside a character decodes to nothing.
LEMMA NothingFollows ==
  ASSUME NEW text \in Seq(1 .. 4), NEW S, IsSum(S, text), NEW m \in 0 .. S[Len(text)],
         NEW D, Follows(D, S, text, m)
  PROVE  (\A k \in 0 .. Len(text) : S[k] # m) => D[0] = {}
<1> SUFFICES ASSUME \A k \in 0 .. Len(text) : S[k] # m PROVE D[0] = {}
  OBVIOUS
<1> DEFINE n == Len(text)
           T == {k \in 0 .. n : S[n - k] <= m => D[S[n - k]] = {}}
<1>1. n \in Nat /\ \A k \in 1 .. n : text[k] \in 1 .. 4
  OBVIOUS
<1>2. S \in [0 .. n -> Nat] /\ S[0] = 0 /\ \A k \in 1 .. n : S[k] = S[k - 1] + text[k]
  BY DEF IsSum
<1>3. \A k \in 1 .. n : S[k - 1] < m =>
        D[S[k - 1]] = IF S[k] <= m
                      THEN {<<[offset |-> S[k - 1], len |-> text[k]]>> \o runes : runes \in D[S[k]]}
                      ELSE {}
  BY DEF Follows
<1>4. m \in 0 .. S[n] /\ \A k \in 0 .. n : S[k] # m
  OBVIOUS
<1> HIDE DEF n
<1>5. 0 \in T
  <2>1. n - 0 = n /\ S[n] \in Nat /\ S[n] # m
    BY <1>1, <1>2, <1>4
  <2>2. ~(S[n] <= m)
    BY <1>4, <2>1
  <2> QED BY <1>1, <2>1, <2>2
<1>6. \A k \in 1 .. n : k - 1 \in T => k \in T
  <2> SUFFICES ASSUME NEW k \in 1 .. n, k - 1 \in T PROVE k \in T
    OBVIOUS
  <2> DEFINE p == n - k + 1
  <2>1. p \in 1 .. n /\ n - (k - 1) = p /\ n - k = p - 1 /\ p \in 0 .. n /\ p - 1 \in 0 .. n
    BY <1>1
  <2>2. S[p] <= m => D[S[p]] = {}
    BY <2>1
  <2> HIDE DEF p
  <2>3. ASSUME S[p - 1] <= m PROVE D[S[p - 1]] = {}
    <3>1. S[p - 1] < m
      BY <1>2, <1>4, <2>1, <2>3
    <3>2. CASE S[p] <= m
      BY <1>3, <2>1, <2>2, <3>1, <3>2
    <3>3. CASE ~(S[p] <= m)
      BY <1>3, <2>1, <3>1, <3>3
    <3> QED BY <3>2, <3>3
  <2> QED BY <2>1, <2>3
<1>7. S[0] <= m => D[S[0]] = {}
  <2> HIDE DEF T
  <2>1. \A k \in 0 .. n : k \in T
    BY <1>1, <1>5, <1>6, UpTo, Zenon
  <2>2. n \in T
    BY <1>1, <2>1
  <2>3. n - n = 0
    BY <1>1
  <2> QED BY <2>2, <2>3 DEF T
<1> QED BY <1>2, <1>4, <1>7

\* The runes of the characters k + 1 .. w.
RunesOf(S, text, k, w) ==
  [i \in 1 .. w - k |-> [offset |-> S[k + i - 1], len |-> text[k + i]]]

LEMMA RunesOfIs ==
  ASSUME NEW text \in Seq(1 .. 4), NEW S, IsSum(S, text),
         NEW w \in 1 .. Len(text), NEW k \in 1 .. w
  PROVE  RunesOf(S, text, k - 1, w)
           = <<[offset |-> S[k - 1], len |-> text[k]]>> \o RunesOf(S, text, k, w)
<1> DEFINE n == Len(text)
           r == [offset |-> S[k - 1], len |-> text[k]]
           s == RunesOf(S, text, k, w)
           t == RunesOf(S, text, k - 1, w)
           u == <<r>> \o s
<1>1. n \in Nat /\ w \in Nat /\ k \in Nat /\ w <= n /\ \A i \in 1 .. n : text[i] \in 1 .. 4
  OBVIOUS
<1>2. S \in [0 .. n -> Nat]
  BY DEF IsSum
<1> HIDE DEF n
<1>3. r \in Rune
  <2>1. k - 1 \in 0 .. n /\ k \in 1 .. n
    BY <1>1
  <2> QED BY <1>1, <1>2, <2>1 DEF Rune
<1>4. s \in Seq(Rune) /\ Len(s) = w - k
      /\ \A i \in 1 .. w - k : s[i] = [offset |-> S[k + i - 1], len |-> text[k + i]]
  <2>1. \A i \in 1 .. w - k : k + i - 1 \in 0 .. n /\ k + i \in 1 .. n
    BY <1>1
  <2>2. \A i \in 1 .. w - k : [offset |-> S[k + i - 1], len |-> text[k + i]] \in Rune
    BY <1>1, <1>2, <2>1 DEF Rune
  <2>3. w - k \in Nat
    BY <1>1
  <2>4. s = [i \in 1 .. w - k |-> [offset |-> S[k + i - 1], len |-> text[k + i]]]
    BY DEF RunesOf
  <2> HIDE DEF s
  <2>5. s \in [1 .. w - k -> Rune]
    BY <2>2, <2>4
  <2>6. s \in Seq(Rune) /\ Len(s) = w - k
    BY <2>3, <2>5
  <2> QED BY <2>4, <2>6
<1>5. t = [i \in 1 .. w - (k - 1) |-> [offset |-> S[k - 1 + i - 1], len |-> text[k - 1 + i]]]
  BY DEF RunesOf
<1>6. u \in Seq(Rune) /\ Len(u) = 1 + Len(s) /\ u[1] = r
      /\ \A i \in 2 .. 1 + Len(s) : u[i] = s[i - 1]
  <2> HIDE DEF r, s
  <2>1. r \in Rune /\ s \in Seq(Rune)
    BY <1>3, <1>4
  <2> QED BY <2>1, InFront
<1>7. DOMAIN u = 1 .. w - (k - 1) /\ w - (k - 1) \in Nat
  <2> HIDE DEF u, s
  <2>1. w - (k - 1) = 1 + (w - k)
    BY <1>1
  <2> QED BY <1>1, <1>4, <1>6, <2>1
<1> HIDE DEF s, t, u
<1>8. \A i \in 1 .. w - (k - 1) : t[i] = u[i]
  <2> SUFFICES ASSUME NEW i \in 1 .. w - (k - 1) PROVE t[i] = u[i]
    OBVIOUS
  <2>1. CASE i = 1
    <3>1. k - 1 + i - 1 = k - 1 /\ k - 1 + i = k
      BY <1>1, <2>1
    <3> QED BY <1>5, <1>6, <2>1, <3>1
  <2>2. CASE i # 1
    <3>1. i \in 2 .. 1 + Len(s) /\ i - 1 \in 1 .. w - k
      BY <1>1, <1>4, <2>2
    <3>2. k + (i - 1) - 1 = k - 1 + i - 1 /\ k + (i - 1) = k - 1 + i
      BY <1>1
    <3> QED BY <1>4, <1>5, <1>6, <3>1, <3>2
  <2> QED BY <2>1, <2>2
<1>9. t = u
  <2>1. u = [i \in DOMAIN u |-> u[i]]
    BY <1>6
  <2> QED BY <1>5, <1>7, <1>8, <2>1
<1> QED BY <1>9 DEF t, u, s, r

\* A text cut behind a character decodes to the characters up to that one.
LEMMA CharactersFollow ==
  ASSUME NEW text \in Seq(1 .. 4), NEW S, IsSum(S, text), NEW m \in 0 .. S[Len(text)],
         NEW D, Follows(D, S, text, m), NEW w \in 0 .. Len(text), S[w] = m
  PROVE  D[0] = {RunesOf(S, text, 0, w)}
<1> DEFINE n == Len(text)
           T == {k \in 0 .. w : S[w - k] <= m /\ D[S[w - k]] = {RunesOf(S, text, w - k, w)}}
<1>1. n \in Nat /\ w \in Nat /\ w <= n /\ \A k \in 1 .. n : text[k] \in 1 .. 4
  OBVIOUS
<1>2. S \in [0 .. n -> Nat] /\ S[0] = 0 /\ \A k \in 1 .. n : S[k] = S[k - 1] + text[k]
  BY DEF IsSum
<1>3. \A k \in 1 .. n : S[k - 1] < m =>
        D[S[k - 1]] = IF S[k] <= m
                      THEN {<<[offset |-> S[k - 1], len |-> text[k]]>> \o runes : runes \in D[S[k]]}
                      ELSE {}
  BY DEF Follows
<1>4. D[m] = {<< >>}
  BY DEF Follows
<1>5. m \in Nat
  BY <1>1, <1>2
<1>6. \A k \in 1 .. w : RunesOf(S, text, k - 1, w)
        = <<[offset |-> S[k - 1], len |-> text[k]]>> \o RunesOf(S, text, k, w)
  <2> SUFFICES ASSUME NEW k \in 1 .. w
               PROVE  RunesOf(S, text, k - 1, w)
                        = <<[offset |-> S[k - 1], len |-> text[k]]>> \o RunesOf(S, text, k, w)
    OBVIOUS
  <2>1. w \in 1 .. Len(text)
    BY <1>1 DEF n
  <2> QED BY <2>1, RunesOfIs
<1> HIDE DEF n
<1>7. 0 \in T
  <2>1. w - 0 = w /\ 1 .. w - w = {}
    BY <1>1
  <2>2. RunesOf(S, text, w, w) = << >>
    BY <2>1 DEF RunesOf
  <2> QED BY <1>1, <1>4, <1>5, <2>1, <2>2
<1>8. \A k \in 1 .. w : k - 1 \in T => k \in T
  <2> SUFFICES ASSUME NEW k \in 1 .. w, k - 1 \in T PROVE k \in T
    OBVIOUS
  <2> DEFINE p == w - k + 1
  <2>1. p \in 1 .. w /\ p \in 1 .. n /\ w - (k - 1) = p /\ w - k = p - 1 /\ p - 1 \in 0 .. n
    BY <1>1
  <2>2. S[p] <= m /\ D[S[p]] = {RunesOf(S, text, p, w)}
    BY <2>1
  <2> HIDE DEF p
  <2>3. S[p - 1] < m
    <3>1. S[p] = S[p - 1] + text[p] /\ text[p] \in 1 .. 4 /\ S[p - 1] \in Nat
      BY <1>1, <1>2, <2>1
    <3> QED BY <1>5, <2>2, <3>1
  <2>4. D[S[p - 1]] = {<<[offset |-> S[p - 1], len |-> text[p]]>> \o RunesOf(S, text, p, w)}
    <3>1. D[S[p - 1]] = {<<[offset |-> S[p - 1], len |-> text[p]]>> \o runes : runes \in D[S[p]]}
      BY <1>3, <2>1, <2>2, <2>3
    <3> QED BY <2>2, <3>1, Zenon
  <2>5. D[S[p - 1]] = {RunesOf(S, text, p - 1, w)}
    BY <1>6, <2>1, <2>4
  <2>6. S[p - 1] <= m
    BY <1>2, <1>5, <2>1, <2>3
  <2> QED BY <2>1, <2>5, <2>6
<1>9. D[S[0]] = {RunesOf(S, text, 0, w)}
  <2> HIDE DEF T
  <2>1. \A k \in 0 .. w : k \in T
    BY <1>1, <1>7, <1>8, UpTo, Zenon
  <2>2. w \in T
    BY <1>1, <2>1
  <2>3. w - w = 0
    BY <1>1
  <2> QED BY <2>2, <2>3 DEF T
<1> QED BY <1>2, <1>9

\* Wherever a sentence is cut, it decodes to the characters in front of the cut,
\* and the words made of them lie in its bytes where the characters do; or, cut
\* inside a character, to nothing (plain_search_strategy.hpp:47,
\* DecodeRunesInString, GetWordFromRunes).
THEOREM CutTextsDecode ==
  ASSUME NEW text \in Seq(1 .. 4), NEW size \in Nat
  PROVE  CutDecodesWholeOrNot(text, size)
<1> DEFINE n == Len(text)
           bytes == Cut(Encoded(text), size)
           runes == DecodeRunes(bytes)
           whole == {k \in 0 .. n : OffsetOf(text, k + 1) = Len(bytes)}
<1>1. n \in Nat /\ text \in Seq(Nat) /\ \A k \in 1 .. n : text[k] \in 1 .. 4
  OBVIOUS
<1>2. PICK S : IsText(S, text, Encoded(text))
  BY EncodedIs
<1>3. IsSum(S, text) /\ S \in [0 .. n -> Nat] /\ S[0] = 0
      /\ \A k \in 1 .. n : S[k] = S[k - 1] + text[k]
  BY <1>2 DEF IsText, IsSum
<1>4. PICK m \in 0 .. S[n] : \E D :
        /\ Len(bytes) = m
        /\ Follows(D, S, text, m)
        /\ runes = IF D[0] = {} THEN << >> ELSE CHOOSE t \in D[0] : TRUE
  <2> HIDE DEF n
  <2>1. \E m \in 0 .. S[Len(text)] : \E D :
           /\ Len(Cut(Encoded(text), size)) = m
           /\ Follows(D, S, text, m)
           /\ DecodeRunes(Cut(Encoded(text), size))
                = IF D[0] = {} THEN << >> ELSE CHOOSE r \in D[0] : TRUE
    BY <1>2, CutFollows
  <2> QED BY <2>1 DEF n
<1>5. PICK D : /\ Len(bytes) = m
               /\ Follows(D, S, text, m)
               /\ runes = IF D[0] = {} THEN << >> ELSE CHOOSE t \in D[0] : TRUE
  BY <1>4
<1>6. \A l \in 1 .. n + 1 : \A r \in l - 1 .. n : Bytes(text, l, r) = S[r] - S[l - 1]
  BY <1>1, <1>3, BytesAre
<1>7. \A l \in 1 .. n + 1 : OffsetOf(text, l) = S[l - 1]
  <2> SUFFICES ASSUME NEW l \in 1 .. n + 1 PROVE OffsetOf(text, l) = S[l - 1]
    OBVIOUS
  <2> HIDE DEF n
  <2>1. l - 1 \in 1 - 1 .. n /\ 1 \in 1 .. n + 1 /\ 1 - 1 = 0 /\ l - 1 \in 0 .. n
    BY <1>1
  <2>2. Bytes(text, 1, l - 1) = S[l - 1] - S[1 - 1]
    BY <1>6, <2>1
  <2>3. S[l - 1] \in Nat
    BY <1>3, <2>1
  <2> QED BY <1>3, <2>1, <2>2, <2>3 DEF OffsetOf
<1> HIDE DEF bytes, runes
<1>8. whole = {k \in 0 .. n : S[k] = m}
  <2> HIDE DEF n
  <2>1. \A k \in 0 .. n : k + 1 \in 1 .. n + 1 /\ (k + 1) - 1 = k
    BY <1>1
  <2>2. \A k \in 0 .. n : OffsetOf(text, k + 1) = S[k]
    BY <1>7, <2>1
  <2> QED BY <1>5, <2>2
<1> HIDE DEF n, whole
<1>9. ASSUME whole = {} PROVE runes = << >>
  <2>1. \A k \in 0 .. n : S[k] # m
    BY <1>8, <1>9
  <2>2. (\A k \in 0 .. Len(text) : S[k] # m) => D[0] = {}
    <3>1. m \in 0 .. S[Len(text)] /\ IsSum(S, text) /\ Follows(D, S, text, m)
      BY <1>3, <1>5 DEF n
    <3> QED BY <3>1, NothingFollows
  <2>3. D[0] = {}
    BY <2>1, <2>2 DEF n
  <2> QED BY <1>5, <2>3
<1>10. ASSUME NEW w \in whole
       PROVE  /\ Len(runes) = w
              /\ \A l \in 1 .. w : \A r \in l .. w :
                   GetWordFromRunes(runes, l, r)
                     = [offset |-> OffsetOf(text, l), len |-> Bytes(text, l, r)]
  <2>1. w \in 0 .. n /\ S[w] = m
    BY <1>8
  <2>2. D[0] = {RunesOf(S, text, 0, w)}
    <3>1. m \in 0 .. S[Len(text)] /\ w \in 0 .. Len(text) /\ S[w] = m
          /\ IsSum(S, text) /\ Follows(D, S, text, m)
      BY <1>3, <1>5, <2>1 DEF n
    <3> QED BY <3>1, CharactersFollow
  <2>3. runes = RunesOf(S, text, 0, w)
    BY <1>5, <2>2
  <2>4. runes = [i \in 1 .. w |-> [offset |-> S[i - 1], len |-> text[i]]]
    <3>1. w - 0 = w /\ \A i \in 1 .. w : 0 + i - 1 = i - 1 /\ 0 + i = i
      BY <2>1
    <3> QED BY <2>3, <3>1 DEF RunesOf
  <2>5. Len(runes) = w
    BY <2>1, <2>4
  <2>6. ASSUME NEW l \in 1 .. w, NEW r \in l .. w
        PROVE  GetWordFromRunes(runes, l, r)
                 = [offset |-> OffsetOf(text, l), len |-> Bytes(text, l, r)]
    <3>1. l \in 1 .. n + 1 /\ r \in l - 1 .. n /\ r \in 1 .. w /\ r \in 1 .. n
          /\ r \in 0 .. n /\ r - 1 \in 0 .. n /\ l - 1 \in 0 .. n
      BY <1>1, <2>1
    <3>2. runes[l].offset = S[l - 1] /\ runes[r].offset = S[r - 1] /\ runes[r].len = text[r]
      BY <2>4, <3>1
    <3>3. S[r - 1] - S[l - 1] + text[r] = S[r] - S[l - 1]
      <4>1. S[r - 1] \in Nat /\ S[l - 1] \in Nat /\ text[r] \in 1 .. 4
            /\ S[r] = S[r - 1] + text[r]
        BY <1>1, <1>3, <3>1
      <4> QED BY <4>1
    <3>4. OffsetOf(text, l) = S[l - 1] /\ Bytes(text, l, r) = S[r] - S[l - 1]
      BY <1>6, <1>7, <3>1
    <3> QED BY <3>2, <3>3, <3>4 DEF GetWordFromRunes
  <2> QED BY <2>5, <2>6
<1> QED BY <1>9, <1>10 DEF CutDecodesWholeOrNot, whole, runes, bytes, n

LEMMA CasesDecode == CasesInv => RunesLieInTheBytes
<1> SUFFICES ASSUME CasesInv PROVE RunesLieInTheBytes
  OBVIOUS
<1>1. ASSUME kind = "firsts" PROVE RunesAreTheBytes(input)
  <2>1. input \in Seq(Alphabet.firsts)
    BY <1>1 DEF CasesInv
  <2>2. input \in Seq(1 .. 5)
    BY <2>1, RunesAssumption
  <2> QED BY <2>2, RunesLieSideBySide
<1>2. ASSUME kind = "chars", NEW size \in 0 .. Bound.cut PROVE CutDecodesWholeOrNot(input, size)
  <2>1. input \in Seq(Alphabet.chars)
    BY <1>2 DEF CasesInv
  <2>2. input \in Seq(1 .. 4)
    BY <2>1, RunesAssumption
  <2>3. size \in Nat
    OBVIOUS
  <2> QED BY <2>2, <2>3, CutTextsDecode
<1> QED BY <1>1, <1>2 DEF RunesLieInTheBytes

\* A text decodes into runes that lie side by side in its bytes, or not at all,
\* and a sentence that was cut inside a character not at all (DecodeRunesInString,
\* GetWordFromRunes, plain_search_strategy.hpp:47).
THEOREM RunesStayInTheBytes == Spec => []RunesLieInTheBytes
<1> QED BY CasesInvariant, CasesDecode, PTL

-----------------------------------------------------------------------------
\* Pieces that lie side by side: each goes from its place to a later one.
ArePieces(piece, from, to) ==
  \A i \in from .. to : \E e \in i .. to : piece[i] = <<i, e>>

\* What Chain puts behind one another from every position on.
IsChain(R, piece, from, to) ==
  /\ R \in [from .. to + 1 -> Seq(Int \X Int)]
  /\ R[to + 1] = << >>
  /\ \A i \in from .. to : R[i] = <<piece[i]>> \o R[piece[i][2] + 1]

\* Chain is made so.
LEMMA ChainIs ==
  ASSUME NEW from \in Int, NEW to \in Int, from <= to + 1, NEW piece, ArePieces(piece, from, to)
  PROVE  \E R : IsChain(R, piece, from, to) /\ Chain(piece, from, to) = R[from]
<1> DEFINE D == from .. to + 1
           A == Seq(Int \X Int)
           step(i, G) == IF i > to THEN << >> ELSE <<piece[i]>> \o G[piece[i][2] + 1]
           h == [i \in D |-> [G \in [D -> A] |-> step(i, G)]]
           it == CHOOSE Rest : Rest = [i \in D |-> step(i, Rest)]
<1>1. Chain(piece, from, to) = it[from]
  BY DEF Chain
<1>2. /\ \A i \in D : i > to <=> i = to + 1
      /\ \A i \in D : i <= to => i \in from .. to
      /\ from \in D /\ to + 1 \in D /\ to + 1 > to
      /\ \A i \in from .. to : i \in D /\ ~(i > to)
  OBVIOUS
<1>3. ASSUME NEW i \in from .. to
      PROVE  piece[i] \in Int \X Int /\ piece[i][2] + 1 \in D /\ piece[i][2] + 1 \in i + 1 .. to + 1
  <2>1. PICK e \in i .. to : piece[i] = <<i, e>>
    BY DEF ArePieces
  <2>2. piece[i][2] = e /\ <<i, e>> \in Int \X Int
    BY <2>1
  <2>3. e + 1 \in D /\ e + 1 \in i + 1 .. to + 1
    OBVIOUS
  <2> QED BY <2>1, <2>2, <2>3
<1>4. << >> \in A /\ \A p \in Int \X Int : \A s \in A : <<p>> \o s \in A
  OBVIOUS
<1> HIDE DEF A
<1>5. ASSUME NEW i \in D, NEW G, \A j \in i + 1 .. to + 1 : G[j] \in A
      PROVE  step(i, G) \in A
  <2>1. CASE i > to
    BY <1>4, <2>1
  <2>2. CASE ~(i > to)
    BY <1>2, <1>3, <1>4, <1>5, <2>2
  <2> QED BY <2>1, <2>2
<1>6. ASSUME NEW i \in D, NEW F \in [D -> A], NEW G \in [D -> A],
             \A j \in i + 1 .. to + 1 : F[j] = G[j]
      PROVE  step(i, F) = step(i, G)
  BY <1>2, <1>3, <1>6
<1>7. \A i \in D : \A j \in i + 1 .. to + 1 : j \in D
  OBVIOUS
<1> HIDE DEF step, it
<1>8. PICK G \in [D -> A] : \A i \in D : G[i] = step(i, G)
  <2>1. h \in [D -> [[D -> A] -> A]]
    <3> HIDE DEF D
    <3>1. ASSUME NEW i \in D, NEW G \in [D -> A] PROVE step(i, G) \in A
      BY <1>5, <1>7
    <3> QED BY <3>1
  <2>2. \A i \in D : \A G \in [D -> A] : h[i][G] = step(i, G)
    <3> HIDE DEF D
    <3> QED OBVIOUS
  <2> HIDE DEF h
  <2>3. IsBackwards(h, from, to + 1, A)
    <3> HIDE DEF D
    <3>1. \A i \in D : \A F, G \in [D -> A] :
            (\A j \in i + 1 .. to + 1 : F[j] = G[j]) => h[i][F] = h[i][G]
      BY <1>6, <2>2
    <3> QED BY <2>1, <3>1 DEF IsBackwards, D
  <2>4. from \in Int /\ to + 1 \in Int /\ from <= to + 1 /\ \E a : a \in A
    BY <1>4
  <2>5. \E G : IsMade(G, h, from, to + 1, A)
    BY <2>3, <2>4, BackwardsExists
  <2>6. \E G \in [from .. to + 1 -> A] : \A i \in from .. to + 1 : G[i] = h[i][G]
    BY <2>5 DEF IsMade
  <2> QED BY <2>2, <2>6
<1>9. it = [i \in D |-> step(i, it)]
  <2> HIDE DEF D
  <2>1. G = [i \in D |-> step(i, G)]
    BY <1>8
  <2> QED BY <2>1 DEF it
<1>10. \A i \in D : it[i] = step(i, it)
  <2> HIDE DEF D
  <2> QED BY <1>9
<1>11. \A i \in D : it[i] \in A
  <2> DEFINE S == {i \in D : it[i] \in A}
  <2>1. \A i \in from .. to + 1 : (\A j \in i + 1 .. to + 1 : j \in S) => i \in S
    BY <1>5, <1>10
  <2>2. from \in Int /\ to + 1 \in Int
    OBVIOUS
  <2> HIDE DEF S
  <2>3. \A i \in from .. to + 1 : i \in S
    BY <2>1, <2>2, DownTo, Zenon
  <2> QED BY <2>3 DEF S
<1>12. it \in [D -> A]
  <2> HIDE DEF D
  <2> QED BY <1>9, <1>11
<1>13. it[to + 1] = << >>
  BY <1>2, <1>10 DEF step
<1>14. \A i \in from .. to : it[i] = <<piece[i]>> \o it[piece[i][2] + 1]
  BY <1>2, <1>10 DEF step
<1>15. IsChain(it, piece, from, to)
  BY <1>12, <1>13, <1>14 DEF IsChain, A
<1> QED BY <1>1, <1>15

\* Every part of a chain is one of its pieces.
LEMMA ChainHasPieces ==
  ASSUME NEW from \in Int, NEW to \in Int, from <= to + 1, NEW piece, ArePieces(piece, from, to)
  PROVE  \A p \in Range(Chain(piece, from, to)) : \E i \in from .. to : p = piece[i]
<1>1. PICK R : IsChain(R, piece, from, to) /\ Chain(piece, from, to) = R[from]
  BY ChainIs
<1>2. /\ R \in [from .. to + 1 -> Seq(Int \X Int)]
      /\ R[to + 1] = << >>
      /\ \A i \in from .. to : R[i] = <<piece[i]>> \o R[piece[i][2] + 1]
  BY <1>1 DEF IsChain
<1> DEFINE S == {i \in from .. to + 1 : \A k \in DOMAIN R[i] : \E x \in from .. to : R[i][k] = piece[x]}
<1>3. \A i \in from .. to + 1 : (\A j \in i + 1 .. to + 1 : j \in S) => i \in S
  <2> SUFFICES ASSUME NEW i \in from .. to + 1, \A j \in i + 1 .. to + 1 : j \in S PROVE i \in S
    OBVIOUS
  <2>1. CASE i = to + 1
    BY <1>2, <2>1
  <2>2. CASE i # to + 1
    <3>1. i \in from .. to
      BY <2>2
    <3> DEFINE e == piece[i][2] + 1
    <3>2. e \in i + 1 .. to + 1 /\ e \in from .. to + 1 /\ piece[i] \in Int \X Int
      <4>1. PICK x \in i .. to : piece[i] = <<i, x>>
        BY <3>1 DEF ArePieces
      <4>2. piece[i][2] = x /\ <<i, x>> \in Int \X Int
        BY <4>1
      <4>3. x + 1 \in i + 1 .. to + 1 /\ x + 1 \in from .. to + 1
        BY <3>1
      <4> QED BY <4>1, <4>2, <4>3
    <3> HIDE DEF e
    <3>3. R[e] \in Seq(Int \X Int) /\ \A k \in DOMAIN R[e] : \E x \in from .. to : R[e][k] = piece[x]
      BY <1>2, <3>2
    <3>4. R[i] = <<piece[i]>> \o R[e]
      BY <1>2, <3>1 DEF e
    <3>5. /\ R[i] \in Seq(Int \X Int) /\ Len(R[i]) = 1 + Len(R[e]) /\ R[i][1] = piece[i]
          /\ \A k \in 2 .. 1 + Len(R[e]) : R[i][k] = R[e][k - 1]
      BY <3>2, <3>3, <3>4, InFront
    <3>6. ASSUME NEW k \in 1 .. 1 + Len(R[e]) PROVE \E x \in from .. to : R[i][k] = piece[x]
      <4>1. CASE k = 1
        BY <3>1, <3>5, <4>1
      <4>2. CASE k # 1
        <5>1. k \in 2 .. 1 + Len(R[e]) /\ k - 1 \in DOMAIN R[e]
          BY <3>3, <4>2
        <5> QED BY <3>3, <3>5, <5>1
      <4> QED BY <4>1, <4>2
    <3>7. DOMAIN R[i] = 1 .. 1 + Len(R[e])
      BY <3>5
    <3> QED BY <3>6, <3>7
  <2> QED BY <2>1, <2>2
<1>4. from \in S
  <2> HIDE DEF S
  <2>1. from \in Int /\ to + 1 \in Int /\ from \in from .. to + 1
    OBVIOUS
  <2>2. \A i \in from .. to + 1 : i \in S
    BY <1>3, <2>1, DownTo, Zenon
  <2> QED BY <2>1, <2>2
<1> QED BY <1>1, <1>4 DEF Range

\* All ways to cut what is left from every position on.
AreCuts(C, l, r) ==
  /\ C \in [l .. r + 1 -> SUBSET Seq(Int \X Int)]
  /\ C[r + 1] = {<< >>}
  /\ \A i \in l .. r :
       C[i] = UNION {{<<<<i, j>>>> \o rest : rest \in C[j + 1]} : j \in i .. r}

\* Partitions is made so.
LEMMA PartitionsAre ==
  ASSUME NEW l \in Int, NEW r \in Int, l <= r + 1
  PROVE  \E C : AreCuts(C, l, r) /\ Partitions(l, r) = C[l]
<1> DEFINE D == l .. r + 1
           A == SUBSET Seq(Int \X Int)
           step(i, G) == IF i > r THEN {<< >>}
                         ELSE UNION {{<<<<i, j>>>> \o rest : rest \in G[j + 1]} : j \in i .. r}
           h == [i \in D |-> [G \in [D -> A] |-> step(i, G)]]
           it == CHOOSE Cuts : Cuts = [i \in D |-> step(i, Cuts)]
<1>1. Partitions(l, r) = it[l]
  BY DEF Partitions
<1>2. /\ \A i \in D : i > r <=> i = r + 1
      /\ \A i \in D : i <= r => i \in l .. r
      /\ l \in D /\ r + 1 \in D /\ r + 1 > r
      /\ \A i \in l .. r : i \in D /\ ~(i > r)
      /\ \A i \in D : \A j \in i .. r : j + 1 \in D /\ j + 1 \in i + 1 .. r + 1
  OBVIOUS
<1>3. {<< >>} \in A
  OBVIOUS
<1>4. ASSUME NEW i \in D, NEW j \in i .. r, NEW s \in A
      PROVE  {<<<<i, j>>>> \o rest : rest \in s} \in A
  <2>1. <<i, j>> \in Int \X Int
    OBVIOUS
  <2> DEFINE p == <<i, j>>
  <2> HIDE DEF p
  <2>2. ASSUME NEW rest \in s PROVE <<p>> \o rest \in Seq(Int \X Int)
    <3>1. rest \in Seq(Int \X Int) /\ p \in Int \X Int
      BY <2>1 DEF p
    <3> QED BY <3>1, InFront
  <2>3. {<<p>> \o rest : rest \in s} \in A
    BY <2>2
  <2> QED BY <2>3 DEF p
<1> HIDE DEF A
<1>5. ASSUME NEW i \in D, NEW G, \A j \in i + 1 .. r + 1 : G[j] \in A
      PROVE  step(i, G) \in A
  <2>1. CASE i > r
    BY <1>3, <2>1
  <2>2. CASE ~(i > r)
    <3>1. \A j \in i .. r : {<<<<i, j>>>> \o rest : rest \in G[j + 1]} \in A
      BY <1>2, <1>4, <1>5
    <3>2. UNION {{<<<<i, j>>>> \o rest : rest \in G[j + 1]} : j \in i .. r} \in A
      BY <3>1 DEF A
    <3> QED BY <2>2, <3>2
  <2> QED BY <2>1, <2>2
<1>6. ASSUME NEW i \in D, NEW F \in [D -> A], NEW G \in [D -> A],
             \A j \in i + 1 .. r + 1 : F[j] = G[j]
      PROVE  step(i, F) = step(i, G)
  <2>1. \A j \in i .. r : F[j + 1] = G[j + 1]
    BY <1>2, <1>6
  <2> DEFINE Behind(j, s) == {<<<<i, j>>>> \o rest : rest \in s}
  <2> HIDE DEF Behind
  <2>2. {Behind(j, F[j + 1]) : j \in i .. r} = {Behind(j, G[j + 1]) : j \in i .. r}
    <3> HIDE DEF D
    <3> QED BY <2>1
  <2>3. UNION {Behind(j, F[j + 1]) : j \in i .. r} = UNION {Behind(j, G[j + 1]) : j \in i .. r}
    BY <2>2
  <2> QED BY <2>3 DEF Behind
<1>7. \A i \in D : \A j \in i + 1 .. r + 1 : j \in D
  OBVIOUS
<1> HIDE DEF step, it
<1>8. PICK G \in [D -> A] : \A i \in D : G[i] = step(i, G)
  <2>1. h \in [D -> [[D -> A] -> A]]
    <3> HIDE DEF D
    <3>1. ASSUME NEW i \in D, NEW G \in [D -> A] PROVE step(i, G) \in A
      BY <1>5, <1>7
    <3> QED BY <3>1
  <2>2. \A i \in D : \A G \in [D -> A] : h[i][G] = step(i, G)
    <3> HIDE DEF D
    <3> QED OBVIOUS
  <2> HIDE DEF h
  <2>3. IsBackwards(h, l, r + 1, A)
    <3> HIDE DEF D
    <3>1. \A i \in D : \A F, G \in [D -> A] :
            (\A j \in i + 1 .. r + 1 : F[j] = G[j]) => h[i][F] = h[i][G]
      BY <1>6, <2>2
    <3> QED BY <2>1, <3>1 DEF IsBackwards, D
  <2>4. l \in Int /\ r + 1 \in Int /\ l <= r + 1 /\ \E a : a \in A
    BY <1>3
  <2>5. \E G : IsMade(G, h, l, r + 1, A)
    BY <2>3, <2>4, BackwardsExists
  <2>6. \E G \in [l .. r + 1 -> A] : \A i \in l .. r + 1 : G[i] = h[i][G]
    BY <2>5 DEF IsMade
  <2> QED BY <2>2, <2>6
<1>9. it = [i \in D |-> step(i, it)]
  <2> HIDE DEF D
  <2>1. G = [i \in D |-> step(i, G)]
    BY <1>8
  <2> QED BY <2>1 DEF it
<1>10. \A i \in D : it[i] = step(i, it)
  <2> HIDE DEF D
  <2> QED BY <1>9
<1>11. \A i \in D : it[i] \in A
  <2> DEFINE S == {i \in D : it[i] \in A}
  <2>1. \A i \in l .. r + 1 : (\A j \in i + 1 .. r + 1 : j \in S) => i \in S
    BY <1>5, <1>10
  <2>2. l \in Int /\ r + 1 \in Int
    OBVIOUS
  <2> HIDE DEF S
  <2>3. \A i \in l .. r + 1 : i \in S
    BY <2>1, <2>2, DownTo, Zenon
  <2> QED BY <2>3 DEF S
<1>12. it \in [D -> A]
  <2> HIDE DEF D
  <2> QED BY <1>9, <1>11
<1>13. it[r + 1] = {<< >>}
  BY <1>2, <1>10 DEF step
<1>14. \A i \in l .. r :
         it[i] = UNION {{<<<<i, j>>>> \o rest : rest \in it[j + 1]} : j \in i .. r}
  BY <1>2, <1>10 DEF step
<1>15. AreCuts(it, l, r)
  BY <1>12, <1>13, <1>14 DEF AreCuts, A
<1> QED BY <1>1, <1>15

\* Of some positions there is one at which f is largest.
LEMMA LargestExists ==
  ASSUME NEW i \in Int, NEW r \in Int, NEW N \in SUBSET (i .. r), N # {}, NEW f,
         \A j \in N : f[j] \in Int
  PROVE  \E j \in N : \A x \in N : f[x] <= f[j]
<1> DEFINE Has(k) == \E j \in N : k <= j /\ \A x \in N : k <= x => f[x] <= f[j]
           S == {k \in i .. r + 1 : (\E j \in N : k <= j) => Has(k)}
<1>1. \A k \in i .. r + 1 : (\A j \in k + 1 .. r + 1 : j \in S) => k \in S
  <2> SUFFICES ASSUME NEW k \in i .. r + 1, \A j \in k + 1 .. r + 1 : j \in S,
                      \E j \in N : k <= j
               PROVE  Has(k)
    OBVIOUS
  <2>0. k \in i .. r /\ k + 1 \in S /\ \A x \in N : x \in Int /\ (k <= x <=> x = k \/ k + 1 <= x)
    <3>1. PICK j \in N : k <= j
      OBVIOUS
    <3>2. j \in i .. r
      OBVIOUS
    <3>3. k \in i .. r /\ k + 1 \in k + 1 .. r + 1
      BY <3>1, <3>2
    <3>4. k + 1 \in S
      BY <3>3
    <3>5. \A x \in N : x \in Int /\ (k <= x <=> x = k \/ k + 1 <= x)
      BY <3>3
    <3> QED BY <3>3, <3>4, <3>5
  <2>1. CASE ~\E j \in N : k + 1 <= j
    <3>1. \A x \in N : k <= x => x = k
      BY <2>0, <2>1
    <3>2. k \in N /\ k <= k
      BY <3>1
    <3> QED BY <3>1, <3>2
  <2>2. CASE \E j \in N : k + 1 <= j
    <3>1. PICK j \in N : k + 1 <= j /\ \A x \in N : k + 1 <= x => f[x] <= f[j]
      BY <2>0, <2>2
    <3>2. CASE k \in N /\ f[j] <= f[k]
      <4>1. \A x \in N : k <= x => f[x] <= f[k]
        BY <2>0, <3>1, <3>2
      <4> QED BY <3>2, <4>1
    <3>3. CASE ~(k \in N /\ f[j] <= f[k])
      <4>1. \A x \in N : k <= x => f[x] <= f[j]
        BY <2>0, <3>1, <3>3
      <4> QED BY <3>1, <2>0, <4>1
    <3> QED BY <3>2, <3>3
  <2> QED BY <2>1, <2>2
<1>2. i \in Int /\ r + 1 \in Int /\ i \in i .. r + 1 /\ \A x \in N : i <= x
  <2>1. PICK j \in i .. r : j \in N
    OBVIOUS
  <2>2. \A x \in i .. r : i <= x
    OBVIOUS
  <2>3. i <= r
    OBVIOUS
  <2> QED BY <2>2, <2>3
<1>3. \A k \in i .. r + 1 : k \in S
  <2> HIDE DEF S
  <2> QED BY <1>1, <1>2, DownTo, Zenon
<1>4. Has(i)
  BY <1>2, <1>3
<1> QED BY <1>2, <1>4

\* The largest value at some positions is reached, and first at one of them.
HasTop(f, N) ==
  LET top == Max({f[j] : j \in N})
      first == Min({j \in N : f[j] = top})
  IN  /\ top \in Int /\ \A j \in N : f[j] <= top
      /\ first \in N /\ f[first] = top

LEMMA TopIs ==
  ASSUME NEW i \in Int, NEW r \in Int, NEW N \in SUBSET (i .. r), N # {}, NEW f,
         \A j \in N : f[j] \in Int
  PROVE  HasTop(f, N)
<1> DEFINE V == {f[j] : j \in N}
           top == Max(V)
           F == {j \in N : f[j] = top}
<1>1. PICK j \in N : \A x \in N : f[x] <= f[j]
  BY LargestExists
<1>2. top \in V /\ \A v \in V : top >= v
  <2>1. f[j] \in V /\ \A v \in V : f[j] >= v
    BY <1>1
  <2> HIDE DEF V
  <2> QED BY <2>1 DEF Max
<1>3. top \in Int /\ \A x \in N : f[x] <= top
  BY <1>2
<1>4. F # {} /\ F \in SUBSET (i .. r)
  BY <1>2
<1> DEFINE g == [x \in F |-> -x]
<1>5. PICK m \in F : \A x \in F : g[x] <= g[m]
  <2>1. \A x \in F : g[x] \in Int
    BY <1>4
  <2> HIDE DEF F, g
  <2> QED BY <1>4, <2>1, LargestExists
<1>6. \A x \in F : m <= x
  <2> HIDE DEF F
  <2>1. \A x \in F : g[x] = -x /\ x \in Int
    BY <1>4
  <2> QED BY <1>5, <2>1
<1>7. Min(F) \in F
  <2> HIDE DEF F
  <2> QED BY <1>5, <1>6 DEF Min
<1> HIDE DEF V, top
<1> QED BY <1>3, <1>7 DEF HasTop, top, V

NextsIn(text, r, i, max_word_len) == Nexts(Loaded.trie, SubSeq(text, 1, r), i, max_word_len)

\* From every position a word leads on, and words weigh something.
LeadOn(text, l, r, max_word_len) ==
  \A i \in l .. r :
    /\ NextsIn(text, r, i, max_word_len) \in SUBSET (i .. r)
    /\ i \in NextsIn(text, r, i, max_word_len)
    /\ \A j \in NextsIn(text, r, i, max_word_len) : WeightOf(text, i, j) \in Int

\* The weights CalcDP finds: each is what the best next word weighs with all
\* behind it.
AreBest(B, text, l, r, max_word_len) ==
  /\ B \in [l .. r + 1 -> [weight : Int, end : Int]]
  /\ B[r + 1].weight = 0
  /\ \A i \in l .. r :
       /\ B[i].end \in NextsIn(text, r, i, max_word_len)
       /\ B[i].weight = B[B[i].end + 1].weight + WeightOf(text, i, B[i].end)
       /\ \A j \in NextsIn(text, r, i, max_word_len) :
            B[j + 1].weight + WeightOf(text, i, j) <= B[i].weight

LEMMA CalcDPIs ==
  ASSUME NEW l \in Int, NEW r \in Int, l <= r, NEW text, NEW max_word_len,
         LeadOn(text, l, r, max_word_len)
  PROVE  AreBest(CalcDP(text, l, r, max_word_len), text, l, r, max_word_len)
<1> DEFINE D == l .. r + 1
           A == [weight : Int, end : Int]
           N(i) == NextsIn(text, r, i, max_word_len)
           Val(i, j, G) == G[j + 1].weight + WeightOf(text, i, j)
           Top(i, G) == Max({Val(i, j, G) : j \in N(i)})
           First(i, G) == Min({j \in N(i) : Val(i, j, G) = Top(i, G)})
           step(i, G) == IF i > r THEN [weight |-> 0, end |-> r]
                         ELSE [weight |-> Top(i, G), end |-> First(i, G)]
           h == [i \in D |-> [G \in [D -> A] |-> step(i, G)]]
           it == CHOOSE Best : Best = [i \in D |-> step(i, Best)]
<1>1. CalcDP(text, l, r, max_word_len) = it
  BY DEF CalcDP, NextsIn
<1>2. /\ \A i \in D : i > r <=> i = r + 1
      /\ \A i \in D : i <= r => i \in l .. r
      /\ l \in D /\ r + 1 \in D /\ r + 1 > r
      /\ \A i \in l .. r : i \in D /\ ~(i > r)
      /\ \A i \in D : \A j \in i .. r : j + 1 \in D /\ j + 1 \in i + 1 .. r + 1
  OBVIOUS
<1>3. ASSUME NEW i \in l .. r
      PROVE  N(i) \in SUBSET (i .. r) /\ N(i) # {} /\ \A j \in N(i) : WeightOf(text, i, j) \in Int
  BY DEF LeadOn
<1> HIDE DEF N, A
<1>4. ASSUME NEW i \in l .. r, NEW G, \A j \in i + 1 .. r + 1 : G[j] \in A
      PROVE  /\ Top(i, G) \in Int /\ \A j \in N(i) : Val(i, j, G) <= Top(i, G)
             /\ First(i, G) \in N(i) /\ Val(i, First(i, G), G) = Top(i, G)
  <2> DEFINE f == [j \in N(i) |-> Val(i, j, G)]
  <2>1. \A j \in N(i) : f[j] = Val(i, j, G)
    OBVIOUS
  <2>2. \A j \in N(i) : f[j] \in Int
    <3> SUFFICES ASSUME NEW j \in N(i) PROVE f[j] \in Int
      OBVIOUS
    <3>1. G[j + 1] \in A /\ WeightOf(text, i, j) \in Int
      BY <1>2, <1>3, <1>4
    <3>2. G[j + 1].weight \in Int
      BY <3>1 DEF A
    <3> QED BY <3>1, <3>2
  <2>3. {Val(i, j, G) : j \in N(i)} = {f[j] : j \in N(i)}
    BY <2>1
  <2> HIDE DEF f
  <2>4. {j \in N(i) : Val(i, j, G) = Top(i, G)} = {j \in N(i) : f[j] = Top(i, G)}
    BY <2>1
  <2> DEFINE V == {f[j] : j \in N(i)}
             F == {j \in N(i) : f[j] = Max(V)}
  <2>5. Max(V) \in Int /\ (\A j \in N(i) : f[j] <= Max(V)) /\ Min(F) \in N(i) /\ f[Min(F)] = Max(V)
    <3>1. i \in Int /\ r \in Int /\ N(i) \in SUBSET (i .. r) /\ N(i) # {}
      BY <1>3
    <3>2. HasTop(f, N(i))
      BY <2>2, <3>1, TopIs
    <3> QED BY <3>2 DEF HasTop
  <2>6. Top(i, G) = Max(V)
    BY <2>3
  <2>7. First(i, G) = Min(F)
    BY <2>4, <2>6
  <2> QED BY <2>1, <2>5, <2>6, <2>7
<1>5. ASSUME NEW i \in D, NEW G, \A j \in i + 1 .. r + 1 : G[j] \in A
      PROVE  step(i, G) \in A
  <2>1. CASE i > r
    BY <2>1 DEF A
  <2>2. CASE ~(i > r)
    <3>1. i \in l .. r
      BY <2>2
    <3>2. Top(i, G) \in Int /\ First(i, G) \in N(i)
      BY <1>4, <1>5, <3>1
    <3>3. First(i, G) \in Int
      BY <1>3, <3>1, <3>2
    <3> HIDE DEF Top, First
    <3> QED BY <2>2, <3>2, <3>3 DEF A
  <2> QED BY <2>1, <2>2
<1>6. ASSUME NEW i \in D, NEW F \in [D -> A], NEW G \in [D -> A],
             \A j \in i + 1 .. r + 1 : F[j] = G[j]
      PROVE  step(i, F) = step(i, G)
  <2>1. CASE i > r
    BY <2>1
  <2>2. CASE ~(i > r)
    <3>1. \A j \in N(i) : Val(i, j, F) = Val(i, j, G)
      <4> SUFFICES ASSUME NEW j \in N(i) PROVE Val(i, j, F) = Val(i, j, G)
        OBVIOUS
      <4>1. i \in l .. r
        BY <1>2, <2>2
      <4>2. j \in i .. r
        BY <1>3, <4>1
      <4>3. F[j + 1] = G[j + 1]
        BY <1>2, <1>6, <4>2
      <4> QED BY <4>3
    <3> HIDE DEF Val
    <3>2. {Val(i, j, F) : j \in N(i)} = {Val(i, j, G) : j \in N(i)}
      BY <3>1
    <3>3. Top(i, F) = Top(i, G)
      BY <3>2
    <3> HIDE DEF Top
    <3>4. {j \in N(i) : Val(i, j, F) = Top(i, F)} = {j \in N(i) : Val(i, j, G) = Top(i, G)}
      BY <3>1, <3>3
    <3>5. First(i, F) = First(i, G)
      BY <3>4
    <3> QED BY <2>2, <3>3, <3>5
  <2> QED BY <2>1, <2>2
<1>7. \A i \in D : \A j \in i + 1 .. r + 1 : j \in D
  OBVIOUS
<1> HIDE DEF step, it
<1>8. PICK G \in [D -> A] : \A i \in D : G[i] = step(i, G)
  <2>1. h \in [D -> [[D -> A] -> A]]
    <3> HIDE DEF D
    <3>1. ASSUME NEW i \in D, NEW G \in [D -> A] PROVE step(i, G) \in A
      BY <1>5, <1>7
    <3> QED BY <3>1
  <2>2. \A i \in D : \A G \in [D -> A] : h[i][G] = step(i, G)
    <3> HIDE DEF D
    <3> QED OBVIOUS
  <2> HIDE DEF h
  <2>3. IsBackwards(h, l, r + 1, A)
    <3> HIDE DEF D
    <3>1. \A i \in D : \A F, G \in [D -> A] :
            (\A j \in i + 1 .. r + 1 : F[j] = G[j]) => h[i][F] = h[i][G]
      BY <1>6, <2>2
    <3> QED BY <2>1, <3>1 DEF IsBackwards, D
  <2>4. l \in Int /\ r + 1 \in Int /\ l <= r + 1 /\ \E a : a \in A
    <3>1. [weight |-> 0, end |-> 0] \in A
      BY DEF A
    <3> QED BY <3>1
  <2>5. \E G : IsMade(G, h, l, r + 1, A)
    BY <2>3, <2>4, BackwardsExists
  <2>6. \E G \in [l .. r + 1 -> A] : \A i \in l .. r + 1 : G[i] = h[i][G]
    BY <2>5 DEF IsMade
  <2> QED BY <2>2, <2>6
<1>9. it = [i \in D |-> step(i, it)]
  <2> HIDE DEF D
  <2>1. G = [i \in D |-> step(i, G)]
    BY <1>8
  <2> QED BY <2>1 DEF it
<1>10. \A i \in D : it[i] = step(i, it)
  <2> HIDE DEF D
  <2> QED BY <1>9
<1>11. \A i \in D : it[i] \in A
  <2> DEFINE S == {i \in D : it[i] \in A}
  <2>1. \A i \in l .. r + 1 : (\A j \in i + 1 .. r + 1 : j \in S) => i \in S
    BY <1>5, <1>10
  <2>2. l \in Int /\ r + 1 \in Int
    OBVIOUS
  <2> HIDE DEF S
  <2>3. \A i \in l .. r + 1 : i \in S
    BY <2>1, <2>2, DownTo, Zenon
  <2> QED BY <2>3 DEF S
<1>12. it \in [D -> A]
  <2> HIDE DEF D
  <2> QED BY <1>9, <1>11
<1>13. it[r + 1].weight = 0
  <2> HIDE DEF D
  <2>1. it[r + 1] = [weight |-> 0, end |-> r]
    BY <1>2, <1>10 DEF step
  <2> QED BY <2>1
<1>14. ASSUME NEW i \in l .. r
       PROVE  /\ it[i].end \in N(i)
              /\ it[i].weight = it[it[i].end + 1].weight + WeightOf(text, i, it[i].end)
              /\ \A j \in N(i) : it[j + 1].weight + WeightOf(text, i, j) <= it[i].weight
  <2>1. \A j \in i + 1 .. r + 1 : it[j] \in A
    BY <1>2, <1>7, <1>11
  <2>2. /\ \A j \in N(i) : Val(i, j, it) <= Top(i, it)
        /\ First(i, it) \in N(i) /\ Val(i, First(i, it), it) = Top(i, it)
    BY <1>4, <2>1
  <2> HIDE DEF Top, First
  <2>3. it[i] = [weight |-> Top(i, it), end |-> First(i, it)]
    BY <1>2, <1>10 DEF step
  <2>4. it[i].weight = Top(i, it) /\ it[i].end = First(i, it)
    BY <2>3
  <2> QED BY <2>2, <2>4
<1>15. AreBest(it, text, l, r, max_word_len)
  <2> HIDE DEF D
  <2> QED BY <1>12, <1>13, <1>14 DEF AreBest, A, N, D
<1> QED BY <1>1, <1>15

\* Every word weighs something.
WordsWeigh == \A word : TrueWeight(word) \in Int

\* A word in front of others weighs as much more.
LEMMA OneMoreWord ==
  ASSUME WordsWeigh, NEW text, NEW w \in Int \X Int, NEW rest \in Seq(Int \X Int)
  PROVE  /\ TotalWeight(text, rest) \in Int
         /\ TotalWeight(text, <<w>> \o rest)
              = TrueWeight(SubSeq(text, w[1], w[2])) + TotalWeight(text, rest)
<1> DEFINE Weigh(p) == TrueWeight(SubSeq(text, p[1], p[2]))
           n == Len(rest)
           all == <<w>> \o rest
           u == [k \in DOMAIN rest |-> Weigh(rest[k])]
           v == [k \in DOMAIN all |-> Weigh(all[k])]
<1>1. n \in Nat /\ DOMAIN rest = 1 .. n /\ n + 1 \in Nat
  OBVIOUS
<1>2. /\ DOMAIN all = 1 .. n + 1 /\ all[1] = w
      /\ \A k \in 2 .. n + 1 : all[k] = rest[k - 1]
  <2>1. all \in Seq(Int \X Int) /\ Len(all) = 1 + n /\ all[1] = w
        /\ \A i \in 2 .. 1 + n : all[i] = rest[i - 1]
    BY InFront
  <2>2. 1 + n = n + 1
    BY <1>1
  <2> HIDE DEF all, n
  <2> QED BY <2>1, <2>2
<1>3. TotalWeight(text, rest) = Total(u) /\ TotalWeight(text, all) = Total(v)
  BY DEF TotalWeight, Total
<1>4. \A p : Weigh(p) \in Int
  BY DEF WordsWeigh
<1> HIDE DEF Weigh, all, n
<1>5. u \in Seq(Int) /\ Len(u) = n /\ \A k \in 1 .. n : u[k] = Weigh(rest[k])
  <2>1. u \in [1 .. n -> Int]
    BY <1>1, <1>4
  <2> QED BY <1>1, <2>1
<1>6. v \in Seq(Int) /\ Len(v) = n + 1 /\ \A k \in 1 .. n + 1 : v[k] = Weigh(all[k])
  <2>1. v \in [1 .. n + 1 -> Int]
    BY <1>2, <1>4
  <2> QED BY <1>1, <1>2, <2>1
<1> HIDE DEF u, v
<1>7. Int \subseteq Int /\ 0 \in Int /\ \A a, b \in Int : a + b \in Int
  OBVIOUS
<1>8. PICK S : IsSumIn(S, u, Int) /\ Total(u) = S[Len(u)]
  BY <1>5, <1>7, SumIs
<1>9. PICK R : IsSumIn(R, v, Int) /\ Total(v) = R[Len(v)]
  BY <1>6, <1>7, SumIs
<1>10. S \in [0 .. n -> Int] /\ S[0] = 0 /\ \A k \in 1 .. n : S[k] = S[k - 1] + u[k]
  BY <1>5, <1>8 DEF IsSumIn
<1>11. R \in [0 .. n + 1 -> Int] /\ R[0] = 0 /\ \A k \in 1 .. n + 1 : R[k] = R[k - 1] + v[k]
  BY <1>6, <1>9 DEF IsSumIn
<1> DEFINE c == Weigh(w)
           T == {k \in 0 .. n : R[k + 1] = c + S[k]}
<1>12. 0 \in T
  <2>1. 1 \in 1 .. n + 1 /\ 0 \in 0 .. n /\ 1 - 1 = 0 /\ 0 + 1 = 1
    BY <1>1
  <2>2. R[1] = R[0] + v[1] /\ v[1] = c
    BY <1>2, <1>6, <1>11, <2>1
  <2>3. c \in Int
    BY <1>4
  <2> HIDE DEF c
  <2>4. R[1] = c + S[0]
    BY <1>10, <1>11, <2>2, <2>3
  <2> QED BY <2>1, <2>4
<1>13. \A k \in 1 .. n : k - 1 \in T => k \in T
  <2> SUFFICES ASSUME NEW k \in 1 .. n, k - 1 \in T PROVE k \in T
    OBVIOUS
  <2>1. /\ k + 1 \in 1 .. n + 1 /\ k + 1 \in 2 .. n + 1 /\ k + 1 - 1 = k /\ k - 1 + 1 = k
        /\ k \in 0 .. n /\ k - 1 \in 0 .. n
    BY <1>1
  <2>2. v[k + 1] = u[k]
    BY <1>2, <1>5, <1>6, <2>1
  <2>3. R[k + 1] = R[k] + u[k] /\ R[k] = c + S[k - 1] /\ S[k] = S[k - 1] + u[k]
    BY <1>10, <1>11, <2>1, <2>2
  <2>4. c \in Int /\ S[k - 1] \in Int /\ u[k] \in Int
    <3>1. u[k] = Weigh(rest[k])
      BY <1>5
    <3> QED BY <1>4, <1>10, <2>1, <3>1
  <2> HIDE DEF c
  <2>5. R[k + 1] = c + S[k]
    BY <2>3, <2>4
  <2> QED BY <2>1, <2>5
<1>14. R[n + 1] = c + S[n]
  <2> HIDE DEF T
  <2>1. \A k \in 0 .. n : k \in T
    BY <1>1, <1>12, <1>13, UpTo, Zenon
  <2>2. n \in T
    BY <1>1, <2>1
  <2> QED BY <2>2 DEF T
<1>15. S[n] \in Int
  BY <1>1, <1>10
<1> QED BY <1>3, <1>5, <1>6, <1>8, <1>9, <1>14, <1>15 DEF c, Weigh, all

\* What the trie knows between l and r is what the lines of the dictionaries say.
Knows(text, l, r) ==
  /\ \A i \in l .. r :
       NextsIn(text, r, i, MaxWordLength) = {j \in i .. r : i = j \/ IsKnown(SubSeq(text, i, j))}
  /\ \A i \in l .. r : \A j \in i .. r :
       WeightOf(text, i, j) = TrueWeight(SubSeq(text, i, j))

\* The cuts of l .. r that IsHeaviestCut compares, and what it says of them.
KnownCuts(text, l, r) ==
  {c \in Partitions(l, r) :
     \A i \in DOMAIN c : c[i][1] = c[i][2] \/ IsKnown(SubSeq(text, c[i][1], c[i][2]))}

IsHeaviest(cut, text, l, r) ==
  /\ cut \in KnownCuts(text, l, r)
  /\ \A c \in KnownCuts(text, l, r) : TotalWeight(text, c) <= TotalWeight(text, cut)

\* Where no word is left nothing weighs anything.
LEMMA NoMoreWords ==
  ASSUME NEW text
  PROVE  TotalWeight(text, << >>) = 0
<1> DEFINE v == [k \in DOMAIN << >> |-> TrueWeight(SubSeq(text, << >>[k][1], << >>[k][2]))]
<1>1. TotalWeight(text, << >>) = Total(v)
  BY DEF TotalWeight, Total
<1>2. v = << >>
  OBVIOUS
<1> HIDE DEF v
<1>3. << >> \in Seq(Int) /\ Len(<< >>) = 0
  OBVIOUS
<1>4. v \in Seq(Int) /\ Len(v) = 0
  BY <1>2, <1>3
<1>5. Int \subseteq Int /\ 0 \in Int /\ \A a, b \in Int : a + b \in Int
  OBVIOUS
<1>6. PICK S : IsSumIn(S, v, Int) /\ Total(v) = S[Len(v)]
  BY <1>4, <1>5, SumIs
<1> QED BY <1>1, <1>4, <1>6 DEF IsSumIn

\* Words of the dictionary and single characters.
AreKnown(text, c) ==
  \A i \in DOMAIN c : c[i][1] = c[i][2] \/ IsKnown(SubSeq(text, c[i][1], c[i][2]))

LEMMA OneMoreKnown ==
  ASSUME NEW text, NEW w \in Int \X Int, NEW rest \in Seq(Int \X Int)
  PROVE  AreKnown(text, <<w>> \o rest) <=>
           /\ w[1] = w[2] \/ IsKnown(SubSeq(text, w[1], w[2]))
           /\ AreKnown(text, rest)
<1> DEFINE n == Len(rest)
           all == <<w>> \o rest
           Good(p) == p[1] = p[2] \/ IsKnown(SubSeq(text, p[1], p[2]))
<1>1. n \in Nat /\ DOMAIN rest = 1 .. n
  OBVIOUS
<1>2. all \in Seq(Int \X Int) /\ Len(all) = 1 + n /\ all[1] = w
      /\ \A i \in 2 .. 1 + n : all[i] = rest[i - 1]
  BY InFront
<1>3. AreKnown(text, all) <=> \A i \in DOMAIN all : Good(all[i])
  BY DEF AreKnown
<1>4. AreKnown(text, rest) <=> \A i \in DOMAIN rest : Good(rest[i])
  BY DEF AreKnown
<1> HIDE DEF Good, all, n
<1>5. /\ DOMAIN all = 1 .. 1 + n /\ 1 \in 1 .. 1 + n
      /\ \A i \in 1 .. n : i + 1 \in 2 .. 1 + n /\ i + 1 \in 1 .. 1 + n /\ i + 1 - 1 = i
      /\ \A i \in 1 .. 1 + n : i = 1 \/ (i \in 2 .. 1 + n /\ i - 1 \in 1 .. n)
  BY <1>1, <1>2
<1>6. ASSUME AreKnown(text, all) PROVE Good(w) /\ AreKnown(text, rest)
  <2>1. Good(all[1])
    BY <1>3, <1>5, <1>6
  <2>2. \A i \in 1 .. n : Good(rest[i])
    <3> SUFFICES ASSUME NEW i \in 1 .. n PROVE Good(rest[i])
      OBVIOUS
    <3>1. i + 1 \in 2 .. 1 + n /\ i + 1 \in DOMAIN all /\ i + 1 - 1 = i
      BY <1>5
    <3>2. Good(all[i + 1])
      BY <1>3, <1>6, <3>1
    <3>3. all[i + 1] = rest[i]
      BY <1>2, <3>1
    <3> QED BY <3>2, <3>3
  <2> QED BY <1>1, <1>2, <1>4, <2>1, <2>2
<1>7. ASSUME Good(w), AreKnown(text, rest) PROVE AreKnown(text, all)
  <2>1. \A i \in 1 .. 1 + n : Good(all[i])
    BY <1>1, <1>2, <1>4, <1>5, <1>7
  <2> QED BY <1>3, <1>5, <2>1
<1> QED BY <1>6, <1>7 DEF Good, all

\* The cut CalcDP finds is one of the heaviest.
LEMMA CutIsHeaviest ==
  ASSUME WordsWeigh, NEW text, NEW l \in Int, NEW r \in Int, l <= r, Knows(text, l, r)
  PROVE  IsHeaviest(MPCut(text, l, r, MaxWordLength), text, l, r)
<1> DEFINE m == MaxWordLength
           B == CalcDP(text, l, r, m)
           N(i) == NextsIn(text, r, i, m)
           W(i, j) == TrueWeight(SubSeq(text, i, j))
           piece == [i \in l .. r |-> <<i, B[i].end>>]
           cut == MPCut(text, l, r, m)
<1>1. \A i \in l .. r : N(i) = {j \in i .. r : i = j \/ IsKnown(SubSeq(text, i, j))}
  BY DEF Knows
<1>2. \A i \in l .. r : \A j \in i .. r : WeightOf(text, i, j) = W(i, j) /\ W(i, j) \in Int
  BY DEF Knows, WordsWeigh
<1>3. cut = Chain(piece, l, r)
  BY DEF MPCut
<1> HIDE DEF m, W, N, cut
<1>4. LeadOn(text, l, r, m)
  <2>1. \A i \in l .. r : i \in i .. r
    OBVIOUS
  <2>2. \A i \in l .. r : N(i) \in SUBSET (i .. r) /\ i \in N(i)
    BY <1>1, <2>1
  <2> QED BY <1>2, <2>2 DEF LeadOn, N
<1>5. AreBest(B, text, l, r, m)
  BY <1>4, CalcDPIs
<1> HIDE DEF B
<1>6. /\ B \in [l .. r + 1 -> [weight : Int, end : Int]]
      /\ B[r + 1].weight = 0
  BY <1>5 DEF AreBest
<1>7. \A i \in l .. r :
        /\ B[i].end \in i .. r /\ B[i].end \in N(i)
        /\ B[i].weight = B[B[i].end + 1].weight + W(i, B[i].end)
        /\ \A j \in N(i) : j \in i .. r /\ B[j + 1].weight + W(i, j) <= B[i].weight
  BY <1>1, <1>2, <1>5 DEF AreBest, N
<1>8. ArePieces(piece, l, r)
  BY <1>7 DEF ArePieces
<1>9. l <= r + 1
  OBVIOUS
<1>10. PICK C : AreCuts(C, l, r) /\ Partitions(l, r) = C[l]
  BY <1>9, PartitionsAre
<1>11. PICK R : IsChain(R, piece, l, r) /\ Chain(piece, l, r) = R[l]
  <2> HIDE DEF piece
  <2> QED BY <1>8, <1>9, ChainIs
<1>12. /\ C \in [l .. r + 1 -> SUBSET Seq(Int \X Int)]
       /\ C[r + 1] = {<< >>}
       /\ \A i \in l .. r :
            C[i] = UNION {{<<<<i, j>>>> \o rest : rest \in C[j + 1]} : j \in i .. r}
  BY <1>10 DEF AreCuts
<1>13. /\ R \in [l .. r + 1 -> Seq(Int \X Int)]
       /\ R[r + 1] = << >>
       /\ \A i \in l .. r : R[i] = <<piece[i]>> \o R[piece[i][2] + 1]
  BY <1>11 DEF IsChain
<1>14. \A i \in l .. r : R[i] = <<<<i, B[i].end>>>> \o R[B[i].end + 1]
  BY <1>13
<1> HIDE DEF piece
<1> DEFINE Heaviest(i) ==
             /\ R[i] \in C[i] /\ AreKnown(text, R[i])
             /\ TotalWeight(text, R[i]) = B[i].weight
             /\ \A c \in C[i] : AreKnown(text, c) => TotalWeight(text, c) <= B[i].weight
           S == {i \in l .. r + 1 : Heaviest(i)}
<1>15. Heaviest(r + 1)
  <2>1. AreKnown(text, << >>)
    BY DEF AreKnown
  <2> QED BY <1>6, <1>12, <1>13, <2>1, NoMoreWords
<1>16. ASSUME NEW i \in l .. r, \A j \in i + 1 .. r + 1 : Heaviest(j) PROVE Heaviest(i)
  <2> DEFINE e == B[i].end
  <2>1. ASSUME NEW j \in i .. r
        PROVE  /\ j + 1 \in i + 1 .. r + 1 /\ j + 1 \in l .. r + 1 /\ <<i, j>> \in Int \X Int
               /\ <<i, j>>[1] = i /\ <<i, j>>[2] = j
    OBVIOUS
  <2>2. ASSUME NEW j \in i .. r, NEW rest \in C[j + 1]
        PROVE  /\ AreKnown(text, <<<<i, j>>>> \o rest) <=> j \in N(i) /\ AreKnown(text, rest)
               /\ TotalWeight(text, <<<<i, j>>>> \o rest) = W(i, j) + TotalWeight(text, rest)
               /\ TotalWeight(text, rest) \in Int
    <3> DEFINE w == <<i, j>>
    <3>1. w \in Int \X Int /\ w[1] = i /\ w[2] = j
      BY <2>1
    <3>2. rest \in Seq(Int \X Int)
      BY <1>12, <2>1
    <3> HIDE DEF w
    <3>3. AreKnown(text, <<w>> \o rest) <=>
            (i = j \/ IsKnown(SubSeq(text, i, j))) /\ AreKnown(text, rest)
      BY <3>1, <3>2, OneMoreKnown
    <3>4. /\ TotalWeight(text, rest) \in Int
          /\ TotalWeight(text, <<w>> \o rest)
               = TrueWeight(SubSeq(text, i, j)) + TotalWeight(text, rest)
      BY <3>1, <3>2, OneMoreWord
    <3>5. j \in N(i) <=> i = j \/ IsKnown(SubSeq(text, i, j))
      BY <1>1
    <3> QED BY <3>3, <3>4, <3>5 DEF w, W
  <2> DEFINE Behind(j) == {<<<<i, j>>>> \o rest : rest \in C[j + 1]}
  <2>3. C[i] = UNION {Behind(j) : j \in i .. r}
    BY <1>12
  <2>4. \A j : \A c : c \in Behind(j) <=> \E rest \in C[j + 1] : c = <<<<i, j>>>> \o rest
    OBVIOUS
  <2> HIDE DEF Behind
  <2>5. \A c \in C[i] : \E j \in i .. r : c \in Behind(j)
    BY <2>3
  <2>6. \A j \in i .. r : \A rest \in C[j + 1] : <<<<i, j>>>> \o rest \in C[i]
    <3> SUFFICES ASSUME NEW j \in i .. r, NEW rest \in C[j + 1]
                 PROVE  <<<<i, j>>>> \o rest \in C[i]
      OBVIOUS
    <3>1. <<<<i, j>>>> \o rest \in Behind(j)
      BY <2>4
    <3> QED BY <2>3, <3>1
  <2>7. \A j \in i .. r : Heaviest(j + 1) /\ B[j + 1].weight \in Int
    <3> HIDE DEF Heaviest
    <3> QED BY <1>6, <1>16, <2>1
  <2>8. e \in i .. r /\ e \in N(i) /\ B[i].weight = B[e + 1].weight + W(i, e)
    BY <1>7
  <2>9. R[i] = <<<<i, e>>>> \o R[e + 1]
    BY <1>14
  <2> HIDE DEF e
  <2>10. R[e + 1] \in C[e + 1] /\ AreKnown(text, R[e + 1])
        /\ TotalWeight(text, R[e + 1]) = B[e + 1].weight
    BY <2>7, <2>8
  <2>11. R[i] \in C[i] /\ AreKnown(text, R[i])
    BY <2>2, <2>6, <2>8, <2>9, <2>10
  <2>12. TotalWeight(text, R[i]) = B[i].weight
    <3>1. TotalWeight(text, R[i]) = W(i, e) + TotalWeight(text, R[e + 1])
      BY <2>2, <2>8, <2>9, <2>10
    <3>2. W(i, e) \in Int /\ B[e + 1].weight \in Int
      BY <1>2, <2>7, <2>8
    <3> QED BY <2>8, <2>10, <3>1, <3>2
  <2>13. ASSUME NEW c \in C[i], AreKnown(text, c) PROVE TotalWeight(text, c) <= B[i].weight
    <3>1. PICK j \in i .. r : \E rest \in C[j + 1] : c = <<<<i, j>>>> \o rest
      <4>1. PICK j \in i .. r : c \in Behind(j)
        BY <2>5
      <4>2. \E rest \in C[j + 1] : c = <<<<i, j>>>> \o rest
        BY <2>4, <4>1
      <4> QED BY <4>2
    <3>2. PICK rest \in C[j + 1] : c = <<<<i, j>>>> \o rest
      BY <3>1
    <3>3. /\ j \in N(i) /\ AreKnown(text, rest)
          /\ TotalWeight(text, c) = W(i, j) + TotalWeight(text, rest)
          /\ TotalWeight(text, rest) \in Int
      BY <2>2, <2>13, <3>2
    <3>4. TotalWeight(text, rest) <= B[j + 1].weight
      BY <2>7, <3>3
    <3>5. B[j + 1].weight + W(i, j) <= B[i].weight
      BY <1>7, <3>3
    <3>6. W(i, j) \in Int /\ B[j + 1].weight \in Int /\ B[i].weight \in Int
      <4>1. i \in l .. r + 1
        OBVIOUS
      <4> QED BY <1>2, <1>6, <2>7, <4>1
    <3> DEFINE a == TotalWeight(text, rest)
               b == W(i, j)
               d == B[j + 1].weight
               t == B[i].weight
    <3>7. a \in Int /\ b \in Int /\ d \in Int /\ t \in Int /\ a <= d /\ d + b <= t
      BY <3>3, <3>4, <3>5, <3>6
    <3>8. TotalWeight(text, c) = b + a
      BY <3>3
    <3> HIDE DEF a, b, d, t
    <3>9. b + a <= t
      BY <3>7
    <3> QED BY <3>8, <3>9 DEF t
  <2> QED BY <2>11, <2>12, <2>13
<1> HIDE DEF Heaviest
<1>17. \A i \in l .. r + 1 : (\A j \in i + 1 .. r + 1 : j \in S) => i \in S
  <2> SUFFICES ASSUME NEW i \in l .. r + 1, \A j \in i + 1 .. r + 1 : j \in S PROVE i \in S
    OBVIOUS
  <2>1. CASE i = r + 1
    BY <1>15, <2>1
  <2>2. CASE i # r + 1
    <3>1. i \in l .. r
      BY <2>2
    <3> QED BY <1>16, <3>1
  <2> QED BY <2>1, <2>2
<1>18. Heaviest(l)
  <2>1. l \in Int /\ r + 1 \in Int /\ l \in l .. r + 1
    BY <1>9
  <2> HIDE DEF S
  <2>2. \A i \in l .. r + 1 : i \in S
    BY <1>17, <2>1, DownTo, Zenon
  <2> QED BY <2>1, <2>2 DEF S
<1>19. KnownCuts(text, l, r) = {c \in C[l] : AreKnown(text, c)}
  BY <1>10 DEF KnownCuts, AreKnown
<1>20. cut = R[l]
  BY <1>3, <1>11
<1>21. IsHeaviest(cut, text, l, r)
  BY <1>18, <1>19, <1>20 DEF Heaviest, IsHeaviest
<1> QED BY <1>21 DEF cut, m

-----------------------------------------------------------------------------
\* There is a k-th of any numbers.
LEMMA OrderedIs ==
  ASSUME NEW weights \in Seq(Int), NEW k \in 1 .. Len(weights)
  PROVE  /\ Ordered(weights)[k] \in Range(weights)
         /\ Cardinality({i \in DOMAIN weights : weights[i] < Ordered(weights)[k]}) < k
<1> DEFINE n == Len(weights)
           Below(w) == {i \in DOMAIN weights : weights[i] < w}
           NotAbove(w) == {i \in DOMAIN weights : weights[i] <= w}
           J == {j \in 1 .. n : k <= Cardinality(NotAbove(weights[j]))}
           Fits(w) == Cardinality(Below(w)) < k /\ k <= Cardinality(NotAbove(w))
<1>1. n \in Nat /\ k \in 1 .. n /\ DOMAIN weights = 1 .. n /\ \A i \in 1 .. n : weights[i] \in Int
  OBVIOUS
<1>2. Ordered(weights)[k] = CHOOSE w \in Range(weights) : Fits(w)
  <2>1. k \in DOMAIN weights
    BY <1>1
  <2> QED BY <2>1 DEF Ordered
<1> HIDE DEF n
<1>3. IsFiniteSet(1 .. n) /\ Cardinality(1 .. n) = n
  <2>1. 1 \in Int /\ n \in Int /\ n - 1 + 1 = n /\ (1 <= n => n - 1 + 1 \in Nat)
    BY <1>1
  <2>2. /\ IsFiniteSet(1 .. n)
        /\ Cardinality(1 .. n) = IF 1 > n THEN 0 ELSE n - 1 + 1
    BY <2>1, FS_Interval
  <2> QED BY <1>1, <2>2
<1>4. \A w : IsFiniteSet(NotAbove(w)) /\ Cardinality(NotAbove(w)) \in Nat
             /\ IsFiniteSet(Below(w)) /\ Cardinality(Below(w)) \in Nat
  <2> SUFFICES ASSUME NEW w PROVE IsFiniteSet(NotAbove(w)) /\ Cardinality(NotAbove(w)) \in Nat
                                  /\ IsFiniteSet(Below(w)) /\ Cardinality(Below(w)) \in Nat
    OBVIOUS
  <2>1. NotAbove(w) \in SUBSET (1 .. n) /\ Below(w) \in SUBSET (1 .. n)
    BY <1>1
  <2> HIDE DEF NotAbove, Below
  <2> QED BY <1>3, <2>1, FS_Subset, FS_CardinalityType
<1>5. J # {}
  <2>1. 1 .. n \in SUBSET (1 .. n) /\ 1 .. n # {} /\ 1 \in Int /\ n \in Int
    BY <1>1
  <2>2. PICK j \in 1 .. n : \A x \in 1 .. n : weights[x] <= weights[j]
    BY <1>1, <2>1, LargestExists
  <2>3. NotAbove(weights[j]) = 1 .. n
    BY <1>1, <2>2
  <2> HIDE DEF NotAbove
  <2>4. k <= Cardinality(NotAbove(weights[j]))
    BY <1>1, <1>3, <2>3
  <2> QED BY <2>4
<1>6. PICK j \in J : \A x \in J : weights[j] <= weights[x]
  <2> DEFINE g == [x \in J |-> -weights[x]]
  <2>1. 1 \in Int /\ n \in Int /\ J \in SUBSET (1 .. n)
    BY <1>1
  <2> HIDE DEF J
  <2>2. \A x \in J : g[x] \in Int /\ weights[x] \in Int /\ g[x] = -weights[x]
    BY <1>1, <2>1
  <2> HIDE DEF g
  <2>3. PICK j \in J : \A x \in J : g[x] <= g[j]
    <3>1. \A x \in J : g[x] \in Int
      BY <2>2
    <3> QED BY <1>5, <2>1, <3>1, LargestExists
  <2>4. \A x \in J : weights[j] <= weights[x]
    BY <2>2, <2>3
  <2> QED BY <2>4
<1>7. j \in 1 .. n /\ weights[j] \in Int /\ k <= Cardinality(NotAbove(weights[j]))
  BY <1>1, <1>6
<1>8. Cardinality(Below(weights[j])) < k
  <2>1. CASE Below(weights[j]) = {}
    <3> HIDE DEF Below
    <3>1. Cardinality(Below(weights[j])) = 0
      BY <2>1, FS_EmptySet
    <3> QED BY <1>1, <3>1
  <2>2. CASE Below(weights[j]) # {}
    <3> DEFINE N == Below(weights[j])
    <3>1. 1 \in Int /\ n \in Int /\ N \in SUBSET (1 .. n) /\ N # {}
          /\ \A x \in N : weights[x] \in Int
      BY <1>1, <2>2
    <3>2. PICK m \in Below(weights[j]) : \A x \in Below(weights[j]) : weights[x] <= weights[m]
      <4> HIDE DEF N
      <4>1. \E m \in N : \A x \in N : weights[x] <= weights[m]
        BY <3>1, LargestExists
      <4> QED BY <4>1 DEF N
    <3>3. m \in 1 .. n /\ weights[m] \in Int /\ weights[m] < weights[j]
      BY <1>1, <3>2
    <3>4. Below(weights[j]) = NotAbove(weights[m])
      BY <1>1, <1>7, <3>2, <3>3
    <3>5. m \notin J
      BY <1>6, <1>7, <3>3
    <3>6. ~(k <= Cardinality(NotAbove(weights[m])))
      BY <3>3, <3>5
    <3> HIDE DEF Below, NotAbove, N
    <3> QED BY <1>1, <1>4, <3>4, <3>6
  <2> QED BY <2>1, <2>2
<1>9. weights[j] \in Range(weights) /\ Fits(weights[j])
  BY <1>1, <1>7, <1>8 DEF Range
<1> HIDE DEF Fits
<1>10. Ordered(weights)[k] \in Range(weights) /\ Fits(Ordered(weights)[k])
  BY <1>2, <1>9
<1> QED BY <1>1, <1>10 DEF Fits

\* The first of them is the least.
LEMMA FirstIsLeast ==
  ASSUME NEW weights \in Seq(Int), weights # << >>
  PROVE  /\ Ordered(weights)[1] \in Range(weights)
         /\ \A i \in DOMAIN weights : Ordered(weights)[1] <= weights[i]
<1> DEFINE w == Ordered(weights)[1]
           n == Len(weights)
           Below == {i \in DOMAIN weights : weights[i] < w}
<1>1. n \in Nat /\ DOMAIN weights = 1 .. n /\ 1 \in 1 .. n /\ \A i \in 1 .. n : weights[i] \in Int
  OBVIOUS
<1>2. w \in Range(weights) /\ Cardinality(Below) < 1
  BY <1>1, OrderedIs
<1> HIDE DEF w, n
<1>3. w \in Int
  BY <1>1, <1>2 DEF Range
<1>4. Below = {}
  <2>1. IsFiniteSet(1 .. n) /\ Below \in SUBSET (1 .. n)
    BY <1>1, FS_Interval
  <2> HIDE DEF Below
  <2>2. IsFiniteSet(Below)
    BY <2>1, FS_Subset
  <2>3. Cardinality(Below) \in Nat
    BY <2>2, FS_CardinalityType
  <2>4. Cardinality(Below) = 0
    BY <1>2, <2>3
  <2> QED BY <2>2, <2>4, FS_EmptySet
<1>5. \A i \in DOMAIN weights : w <= weights[i]
  BY <1>1, <1>3, <1>4
<1> QED BY <1>2, <1>5 DEF w

-----------------------------------------------------------------------------
\* The dictionaries are made of words over some characters.
Dictionaries(C) ==
  /\ Dict \in Seq(Lines(C, Int)) /\ Dict # << >>
  /\ UserDict \in Seq([word : Seq(C), weight : Seq(Int)])

Entries == Dict \o UserEntries(Dict, UserDict)

\* Lines of the user dictionary without a weight have that of a line of the other.
LEMMA EntriesAre ==
  ASSUME NEW C, Dictionaries(C)
  PROVE  /\ Entries \in Seq(Lines(C, Int))
         /\ MinWeight(Dict) = Min({Dict[i].weight : i \in DOMAIN Dict})
         /\ MinWeight(Dict) \in Int
<1> DEFINE n == Len(Dict)
           weights == WeightsOf(Dict)
           default == UserWordDefaultWeight(Dict)
<1>1. n \in Nat /\ n # 0 /\ DOMAIN Dict = 1 .. n /\ \A i \in 1 .. n : Dict[i] \in Lines(C, Int)
  BY DEF Dictionaries
<1>2. \A i \in 1 .. n : Dict[i].weight \in Int
  BY <1>1 DEF Lines
<1> HIDE DEF n
<1>3. /\ weights \in Seq(Int) /\ Len(weights) = n /\ weights # << >> /\ DOMAIN weights = 1 .. n
      /\ \A i \in 1 .. n : weights[i] = Dict[i].weight
  <2>1. weights = [i \in 1 .. n |-> Dict[i].weight]
    BY <1>1 DEF WeightsOf
  <2> HIDE DEF weights
  <2>2. weights \in [1 .. n -> Int]
    BY <1>2, <2>1
  <2>3. weights \in Seq(Int) /\ Len(weights) = n /\ DOMAIN weights = 1 .. n
    BY <1>1, <2>2
  <2>4. weights # << >>
    BY <1>1, <2>3
  <2> QED BY <2>1, <2>3, <2>4
<1>4. default \in Int
  <2> DEFINE k == n \div 2 + 1
  <2>1. k \in 1 .. n
    BY <1>1
  <2>2. default = Ordered(weights)[k]
    BY DEF UserWordDefaultWeight, n
  <2> HIDE DEF weights, default, k
  <2>3. Ordered(weights)[k] \in Range(weights)
    BY <1>3, <2>1, OrderedIs
  <2> QED BY <1>1, <1>2, <1>3, <2>2, <2>3 DEF Range
<1>5. /\ MinWeight(Dict) \in Range(weights)
      /\ \A i \in 1 .. n : MinWeight(Dict) <= weights[i]
  <2>1. MinWeight(Dict) = Ordered(weights)[1]
    BY DEF MinWeight
  <2> HIDE DEF weights
  <2> QED BY <1>3, <2>1, FirstIsLeast
<1>6. MinWeight(Dict) = Min({Dict[i].weight : i \in DOMAIN Dict}) /\ MinWeight(Dict) \in Int
  <2> DEFINE V == {Dict[i].weight : i \in DOMAIN Dict}
             v == MinWeight(Dict)
  <2>1. v \in V /\ v \in Int /\ \A y \in V : y \in Int /\ v <= y
    BY <1>1, <1>2, <1>3, <1>5 DEF Range
  <2> HIDE DEF V, v
  <2>2. Min(V) \in V /\ \A y \in V : Min(V) <= y
    BY <2>1 DEF Min
  <2>3. Min(V) = v
    <3>1. Min(V) \in Int /\ v <= Min(V)
      BY <2>1, <2>2
    <3>2. Min(V) <= v
      BY <2>1, <2>2
    <3> QED BY <2>1, <3>1, <3>2
  <2> QED BY <2>1, <2>3 DEF V, v
<1>7. UserEntries(Dict, UserDict) \in Seq(Lines(C, Int))
  <2> DEFINE m == Len(UserDict)
             Weight(u) == IF u.weight = << >> THEN default ELSE u.weight[1]
  <2>1. m \in Nat /\ DOMAIN UserDict = 1 .. m
        /\ \A i \in 1 .. m : UserDict[i] \in [word : Seq(C), weight : Seq(Int)]
    <3> DEFINE L == [word : Seq(C), weight : Seq(Int)]
    <3>1. UserDict \in Seq(L)
      BY DEF Dictionaries
    <3> HIDE DEF L
    <3>2. m \in Nat /\ DOMAIN UserDict = 1 .. m /\ \A i \in 1 .. m : UserDict[i] \in L
      BY <3>1
    <3> QED BY <3>2 DEF L
  <2>2. UserEntries(Dict, UserDict)
          = [i \in 1 .. m |-> [word |-> UserDict[i].word, weight |-> Weight(UserDict[i])]]
    BY <2>1 DEF UserEntries
  <2> HIDE DEF m, default
  <2>3. ASSUME NEW i \in 1 .. m
        PROVE  [word |-> UserDict[i].word, weight |-> Weight(UserDict[i])] \in Lines(C, Int)
    <3>1. UserDict[i].word \in Seq(C) /\ UserDict[i].weight \in Seq(Int)
      BY <2>1
    <3>2. Weight(UserDict[i]) \in Int
      BY <1>4, <3>1
    <3> HIDE DEF Weight
    <3> QED BY <3>1, <3>2 DEF Lines
  <2> HIDE DEF Weight
  <2>4. UserEntries(Dict, UserDict) \in [1 .. m -> Lines(C, Int)]
    BY <2>2, <2>3
  <2> QED BY <2>1, <2>4
<1>8. Entries \in Seq(Lines(C, Int))
  <2>1. Dict \in Seq(Lines(C, Int))
    BY DEF Dictionaries
  <2> QED BY <1>7, <2>1, ConcatProperties DEF Entries
<1> QED BY <1>6, <1>8

\* The trie gives every word the weight of its last line, and MinWeight is that of
\* what stands in no line.
LEMMA TrieWeighs ==
  ASSUME NEW C, Dictionaries(C)
  PROVE  /\ WordsWeigh
         /\ \A word : word \in DOMAIN Loaded.trie.unit <=> IsKnown(word)
         /\ \A word : TrueWeight(word) = IF IsKnown(word) THEN Loaded.trie.unit[word]
                                         ELSE Loaded.min_weight
<1> DEFINE n == Len(Entries)
<1>1. /\ Entries \in Seq(Lines(C, Int))
      /\ MinWeight(Dict) = Min({Dict[i].weight : i \in DOMAIN Dict})
      /\ MinWeight(Dict) \in Int
  BY EntriesAre
<1>2. n \in Nat /\ DOMAIN Entries = 1 .. n /\ \A i \in 1 .. n : Entries[i].weight \in Int
  <2>1. n \in Nat /\ DOMAIN Entries = 1 .. n /\ \A i \in 1 .. n : Entries[i] \in Lines(C, Int)
    BY <1>1
  <2> QED BY <2>1 DEF Lines
<1>3. Loaded.trie = CreateTrie(Entries) /\ Loaded.min_weight = MinWeight(Dict)
  BY DEF Loaded, LoadDict, Entries
<1>4. KnowsLines(Loaded.trie, Entries, n)
  BY <1>1, <1>3, CreateTrieKnows
<1> HIDE DEF n
<1>5. \A word : LinesOf(word) = {i \in 1 .. n : Entries[i].word = word}
  BY <1>2 DEF LinesOf, Entries
<1>6. \A word : word \in DOMAIN Loaded.trie.unit <=> IsKnown(word)
  BY <1>4, <1>5 DEF KnowsLines, IsKnown
<1>7. ASSUME NEW word
      PROVE  /\ TrueWeight(word) \in Int
             /\ TrueWeight(word) = IF IsKnown(word) THEN Loaded.trie.unit[word]
                                   ELSE Loaded.min_weight
  <2>1. CASE IsKnown(word)
    <3> DEFINE i == Max(LinesOf(word))
    <3>1. LinesOf(word) \in SUBSET (1 .. n) /\ LinesOf(word) # {} /\ word # << >>
      BY <1>5, <2>1 DEF IsKnown
    <3>2. i \in LinesOf(word) /\ \A k \in LinesOf(word) : k <= i
      BY <1>2, <3>1, MaxIsGreatest
    <3>3. TrueWeight(word) = Entries[i].weight
      BY <2>1 DEF TrueWeight, Entries
    <3> HIDE DEF i
    <3>4. i \in 1 .. n /\ Entries[i].word = word
      BY <1>5, <3>2
    <3>5. \A j \in i + 1 .. n : Entries[j].word # Entries[i].word
      <4>1. \A j \in i + 1 .. n : j \in 1 .. n /\ ~(j <= i)
        BY <3>4
      <4> QED BY <1>5, <3>2, <3>4, <4>1
    <3>6. Loaded.trie.unit[Entries[i].word] = Entries[i].weight
      BY <1>4, <3>1, <3>4, <3>5 DEF KnowsLines
    <3> QED BY <1>2, <2>1, <3>3, <3>4, <3>6
  <2>2. CASE ~IsKnown(word)
    <3>1. TrueWeight(word) = MinWeight(Dict)
      BY <1>1, <2>2 DEF TrueWeight
    <3> QED BY <1>1, <1>3, <2>2, <3>1
  <2> QED BY <2>1, <2>2
<1>8. WordsWeigh
  BY <1>7 DEF WordsWeigh
<1> QED BY <1>6, <1>7, <1>8

\* What PreFilter makes of a text are ranges of it.
LEMMA RangesAre ==
  ASSUME NEW C, NEW text \in Seq(C)
  PROVE  /\ ArePieces([i \in DOMAIN text |-> NextRange(text, i)], 1, Len(text))
         /\ \A p \in Range(Ranges(text)) :
              \E l \in 1 .. Len(text) : \E r \in l .. Len(text) : p = <<l, r>>
<1> DEFINE n == Len(text)
           piece == [i \in DOMAIN text |-> NextRange(text, i)]
<1>1. n \in Nat /\ DOMAIN text = 1 .. n
  OBVIOUS
<1> HIDE DEF n
<1>2. ASSUME NEW i \in 1 .. n PROVE \E e \in i .. n : piece[i] = <<i, e>>
  <2> DEFINE seps == {k \in i .. n : text[k] \in Separator}
  <2>1. piece[i] = IF seps = {} THEN <<i, n>>
                   ELSE IF Min(seps) = i THEN <<i, i>> ELSE <<i, Min(seps) - 1>>
    BY <1>1 DEF NextRange, n
  <2>2. seps # {} => Min(seps) \in i .. n
    <3>1. seps \in SUBSET Nat /\ seps \in SUBSET (i .. n)
      BY <1>1
    <3> HIDE DEF seps
    <3>2. seps # {} => Min(seps) \in seps
      BY <3>1, MinIsLeast
    <3> QED BY <3>1, <3>2
  <2> HIDE DEF seps, piece
  <2>3. n \in i .. n /\ i \in i .. n /\ \A k \in i .. n : k # i => k - 1 \in i .. n
    BY <1>1
  <2> QED BY <2>1, <2>2, <2>3
<1>3. ArePieces(piece, 1, n)
  BY <1>2 DEF ArePieces
<1>4. \A p \in Range(Chain(piece, 1, n)) : \E i \in 1 .. n : p = piece[i]
  <2>1. 1 \in Int /\ n \in Int /\ 1 <= n + 1
    BY <1>1
  <2> HIDE DEF piece
  <2> QED BY <1>3, <2>1, ChainHasPieces
<1>5. Ranges(text) = Chain(piece, 1, n)
  BY DEF Ranges, n
<1> HIDE DEF piece
<1>6. \A p \in Range(Ranges(text)) : \E l \in 1 .. n : \E r \in l .. n : p = <<l, r>>
  <2> SUFFICES ASSUME NEW p \in Range(Ranges(text))
               PROVE  \E l \in 1 .. n : \E r \in l .. n : p = <<l, r>>
    OBVIOUS
  <2>1. PICK i \in 1 .. n : p = piece[i]
    BY <1>4, <1>5
  <2>2. PICK e \in i .. n : piece[i] = <<i, e>>
    BY <1>2
  <2> QED BY <2>1, <2>2
<1> QED BY <1>3, <1>6 DEF n, piece

\* Between two places of a text the trie knows the words of the dictionaries.
LEMMA TextIsKnown ==
  ASSUME NEW C, Dictionaries(C), NEW text \in Seq(C), Len(text) <= MaxWordLength,
         NEW l \in 1 .. Len(text), NEW r \in l .. Len(text)
  PROVE  Knows(text, l, r)
<1> DEFINE n == Len(text)
           front == SubSeq(text, 1, r)
           words == {Entries[i].word : i \in DOMAIN Entries} \ {<< >>}
<1>1. n \in Nat /\ l \in 1 .. n /\ r \in l .. n /\ r \in Nat /\ r <= n
  OBVIOUS
<1>2. front \in Seq(C) /\ Len(front) = r /\ DOMAIN front = 1 .. r /\ \A k \in 1 .. r : front[k] = text[k]
  OBVIOUS
<1>3. MaxWordLength \in Nat
  BY DEF MaxWordLength
<1>4. Entries \in Seq(Lines(C, Int))
  BY EntriesAre
<1>5. \A word : word \in DOMAIN Loaded.trie.unit <=> IsKnown(word)
  BY TrieWeighs
<1>6. \A word : TrueWeight(word) = IF IsKnown(word) THEN Loaded.trie.unit[word]
                                   ELSE Loaded.min_weight
  BY TrieWeighs
<1>7. Loaded.trie = CreateTrie(Entries)
  BY DEF Loaded, LoadDict, Entries
<1>8. ASSUME NEW i \in l .. r, NEW j \in i .. r
      PROVE  SubSeq(front, i, j) = SubSeq(text, i, j)
  <2>1. \A k \in 1 .. j - i + 1 : i + k - 1 \in 1 .. r
    BY <1>1
  <2>2. SubSeq(front, i, j) = [k \in 1 .. j - i + 1 |-> front[i + k - 1]]
    <3> HIDE DEF front
    <3>1. i \in Int /\ j \in Int /\ front \in Seq(C)
      BY <1>1, <1>2
    <3> QED BY <3>1
  <2>3. SubSeq(text, i, j) = [k \in 1 .. j - i + 1 |-> text[i + k - 1]]
    <3>1. i \in Int /\ j \in Int
      BY <1>1
    <3> QED BY <3>1
  <2>4. \A k \in 1 .. j - i + 1 : front[i + k - 1] = text[i + k - 1]
    BY <1>2, <2>1
  <2> HIDE DEF front
  <2> QED BY <2>2, <2>3, <2>4
<1> HIDE DEF front
<1>9. \A i \in l .. r : \A j \in i .. r : SubSeq(text, i, j) \in words <=> IsKnown(SubSeq(text, i, j))
  BY DEF IsKnown, LinesOf, Entries
<1>10. ASSUME NEW i \in l .. r
       PROVE  NextsIn(text, r, i, MaxWordLength)
                = {j \in i .. r : i = j \/ IsKnown(SubSeq(text, i, j))}
  <2>1. i \in DOMAIN front
    BY <1>1, <1>2
  <2>2. FindsItsWords(Entries, front)
    <3>1. Len(front) <= MaxWordLength
      BY <1>1, <1>2, <1>3
    <3> QED BY <1>2, <1>4, <3>1, TrieFindsItsWords
  <2>3. Nexts(CreateTrie(Entries), front, i, MaxWordLength)
          = {i} \cup {j \in i .. Len(front) : SubSeq(front, i, j) \in words}
    BY <2>1, <2>2 DEF FindsItsWords
  <2>4. NextsIn(text, r, i, MaxWordLength) = {i} \cup {j \in i .. r : SubSeq(front, i, j) \in words}
    BY <1>2, <1>7, <2>3 DEF NextsIn, front
  <2>5. i \in i .. r
    BY <1>1
  <2> HIDE DEF words
  <2> QED BY <1>8, <1>9, <2>4, <2>5
<1>11. ASSUME NEW i \in l .. r, NEW j \in i .. r
       PROVE  WeightOf(text, i, j) = TrueWeight(SubSeq(text, i, j))
  BY <1>5, <1>6 DEF WeightOf
<1> QED BY <1>10, <1>11 DEF Knows

\* Whatever dictionaries there are over whatever characters, every range of a text
\* not longer than the longest word searched for is cut into words of them and
\* single characters, and no such cut weighs more (MPSegment::CalcDP, CutByDag).
THEOREM CutsAreHeaviest ==
  ASSUME NEW C, Dictionaries(C), NEW text \in Seq(C), Len(text) <= MaxWordLength
  PROVE  IsHeaviestCut(text)
<1> SUFFICES ASSUME NEW range \in Range(Ranges(text))
             PROVE  IsHeaviest(MPCut(text, range[1], range[2], MaxWordLength),
                               text, range[1], range[2])
  BY DEF IsHeaviestCut, IsHeaviest, KnownCuts
<1>1. PICK l \in 1 .. Len(text) : \E r \in l .. Len(text) : range = <<l, r>>
  BY RangesAre
<1>2. PICK r \in l .. Len(text) : range = <<l, r>>
  BY <1>1
<1>3. range[1] = l /\ range[2] = r
  BY <1>2
<1>4. l \in Int /\ r \in Int /\ l <= r
  OBVIOUS
<1>5. Knows(text, l, r)
  BY TextIsKnown
<1>6. WordsWeigh
  BY TrieWeighs
<1>7. IsHeaviest(MPCut(text, l, r, MaxWordLength), text, l, r)
  BY <1>4, <1>5, <1>6, CutIsHeaviest
<1> QED BY <1>3, <1>7

\* A text that is searched in the dictionaries.
IsSearched(text) == \E C : Dictionaries(C) /\ text \in Seq(C) /\ Len(text) <= MaxWordLength

LEMMA CasesAreSearched == CasesInv /\ kind = "text" => IsSearched(input)
<1> SUFFICES ASSUME CasesInv, kind = "text" PROVE IsSearched(input)
  OBVIOUS
<1> DEFINE W == UNION {Range(Dict[i].word) : i \in DOMAIN Dict}
           U == UNION {Range(UserDict[i].word) : i \in DOMAIN UserDict}
           C == W \cup U \cup Alphabet.text
<1>1. Dictionaries(C)
  <2> DEFINE L == Lines(C, Int)
             M == [word : Seq(C), weight : Seq(Int)]
  <2>1. Dict \in Seq(Range(Dict)) /\ Dict # << >> /\ UserDict \in Seq(Range(UserDict))
    BY SegmenterAssumption, DictionaryAssumption
  <2>2. \A i \in DOMAIN Dict : Dict[i] \in L
    <3> SUFFICES ASSUME NEW i \in DOMAIN Dict PROVE Dict[i] \in L
      OBVIOUS
    <3>1. Dict[i] \in [word : Seq(Range(Dict[i].word)), weight : Int]
      BY DictionaryAssumption
    <3>2. Range(Dict[i].word) \subseteq C
      OBVIOUS
    <3> HIDE DEF C
    <3>3. Seq(Range(Dict[i].word)) \subseteq Seq(C)
      BY <3>2
    <3> QED BY <3>1, <3>3 DEF Lines
  <2>3. \A i \in DOMAIN UserDict : UserDict[i] \in M
    <3> SUFFICES ASSUME NEW i \in DOMAIN UserDict PROVE UserDict[i] \in M
      OBVIOUS
    <3>1. UserDict[i] \in [word : Seq(Range(UserDict[i].word)), weight : Seq(Int)]
      BY DictionaryAssumption
    <3>2. Range(UserDict[i].word) \subseteq C
      OBVIOUS
    <3> HIDE DEF C
    <3>3. Seq(Range(UserDict[i].word)) \subseteq Seq(C)
      BY <3>2
    <3> QED BY <3>1, <3>3
  <2> HIDE DEF L, M
  <2>4. Dict \in Seq(L)
    BY <2>1, <2>2
  <2>5. UserDict \in Seq(M)
    BY <2>1, <2>3
  <2> QED BY <2>1, <2>4, <2>5 DEF Dictionaries, L, M
<1>2. input \in Seq(Alphabet.text) /\ Len(input) <= Bound.text /\ "text" \in DOMAIN Alphabet
  BY DEF CasesInv
<1>3. Bound.text \in Nat /\ Bound.text <= MaxWordLength
  BY <1>2, CasesAssumption, LinesAssumption
<1>4. input \in Seq(C)
  <2>1. Alphabet.text \subseteq C
    OBVIOUS
  <2> HIDE DEF C
  <2> QED BY <1>2, <2>1
<1>5. Len(input) <= MaxWordLength
  BY <1>2, <1>3 DEF MaxWordLength
<1> HIDE DEF C
<1> QED BY <1>1, <1>4, <1>5 DEF IsSearched

LEMMA CasesAreCutByWeight == CasesInv => TextsAreCutByWeight
<1> SUFFICES ASSUME CasesInv, kind = "text" PROVE IsHeaviestCut(input)
  BY DEF TextsAreCutByWeight
<1>1. PICK C : Dictionaries(C) /\ input \in Seq(C) /\ Len(input) <= MaxWordLength
  BY CasesAreSearched DEF IsSearched
<1> QED BY <1>1, CutsAreHeaviest

\* No cut weighs more in any case.
THEOREM TextsStayCutByWeight == Spec => []TextsAreCutByWeight
<1> QED BY CasesInvariant, CasesAreCutByWeight, PTL

-----------------------------------------------------------------------------
(* The states the model gives to characters.                               *)

\* G begins with a and is at every place what F makes of it at the place before.
IsForwards(G, F, l, r, A, a) ==
  /\ G \in [l .. r -> A]
  /\ G[l] = a
  /\ \A x \in l + 1 .. r : G[x] = F[<<x, G[x - 1]>>]

LEMMA ForwardsExists ==
  ASSUME NEW l \in Int, NEW r \in Int, l <= r, NEW A, NEW a \in A,
         NEW F \in [(l + 1 .. r) \X A -> A]
  PROVE  \E G : IsForwards(G, F, l, r, A, a)
<1> DEFINE n == r - l
           T == {k \in 0 .. n : \E G \in [l .. r -> A] :
                   G[l] = a /\ \A x \in l + 1 .. l + k : G[x] = F[<<x, G[x - 1]>>]}
<1>1. n \in Nat /\ l \in l .. r /\ l + n = r
  OBVIOUS
<1>2. 0 \in T
  <2> DEFINE G == [x \in l .. r |-> a]
  <2>1. G \in [l .. r -> A] /\ G[l] = a /\ l + 1 .. l + 0 = {} /\ 0 \in 0 .. n
    BY <1>1
  <2> HIDE DEF G
  <2> QED BY <2>1
<1>3. \A k \in 1 .. n : k - 1 \in T => k \in T
  <2> SUFFICES ASSUME NEW k \in 1 .. n, k - 1 \in T PROVE k \in T
    OBVIOUS
  <2>1. PICK G \in [l .. r -> A] :
          G[l] = a /\ \A x \in l + 1 .. l + (k - 1) : G[x] = F[<<x, G[x - 1]>>]
    OBVIOUS
  <2> DEFINE p == l + k
             H == [G EXCEPT ![p] = F[<<p, G[p - 1]>>]]
  <2>2. /\ p \in l + 1 .. r /\ p \in l .. r /\ p - 1 \in l .. r /\ p # l /\ k \in 0 .. n
        /\ \A x \in l + 1 .. p : /\ x \in l .. r /\ x - 1 \in l .. r /\ x - 1 # p
                                 /\ x = p \/ x \in l + 1 .. l + (k - 1)
    OBVIOUS
  <2> HIDE DEF p
  <2>3. F[<<p, G[p - 1]>>] \in A
    BY <2>1, <2>2
  <2>4. H \in [l .. r -> A] /\ H[p] = F[<<p, G[p - 1]>>] /\ \A x \in l .. r : x # p => H[x] = G[x]
    BY <2>1, <2>2, <2>3
  <2> HIDE DEF H
  <2>5. H[l] = a
    BY <1>1, <2>1, <2>2, <2>4
  <2>6. \A x \in l + 1 .. p : H[x] = F[<<x, H[x - 1]>>]
    BY <2>1, <2>2, <2>4
  <2> QED BY <2>2, <2>4, <2>5, <2>6 DEF p
<1>4. n \in T
  <2> HIDE DEF T
  <2>1. \A k \in 0 .. n : k \in T
    BY <1>1, <1>2, <1>3, UpTo, Zenon
  <2>2. n \in 0 .. n
    BY <1>1
  <2> QED BY <2>1, <2>2
<1>5. PICK G \in [l .. r -> A] :
        G[l] = a /\ \A x \in l + 1 .. l + n : G[x] = F[<<x, G[x - 1]>>]
  BY <1>4
<1> HIDE DEF n
<1>6. IsForwards(G, F, l, r, A, a)
  BY <1>1, <1>5 DEF IsForwards
<1> QED BY <1>6

\* A weight, and the state before.
Way == [weight : Int, path : Status]

LEMMA BestWayIs ==
  ASSUME NEW before \in [Status -> Way], NEW y \in Status, NEW emitProb \in Int
  PROVE  BestWay(before, y, emitProb) \in Way
<1> DEFINE n == Len(Order)
           step(best, preY) ==
             LET tmp == Plus(Plus(before[preY].weight, TransProb[preY][y]), emitProb)
             IN  IF tmp > best.weight THEN [weight |-> tmp, path |-> preY] ELSE best
           base == [weight |-> MinDouble, path |-> "E"]
           it == CHOOSE iter : iter = [s \in SUBSET DOMAIN Order |->
                   IF s = {} THEN base ELSE step(iter[s \ {Max(s)}], Order[Max(s)])]
           F == [x \in Way \X (1 .. n) |-> step(x[1], Order[x[2]])]
<1>1. BestWay(before, y, emitProb) = it[DOMAIN Order]
  BY DEF BestWay, FoldLeft, MapThenFoldSet
<1>2. n \in Nat /\ DOMAIN Order = 1 .. n /\ \A k \in 1 .. n : Order[k] \in Status
  BY DEF Order, Status
<1>3. base \in Way
  BY ModelAssumption DEF Way, Status
<1>4. \A p, q \in Int : Plus(p, q) \in Int
  BY ModelAssumption DEF Plus
<1>5. ASSUME NEW best \in Way, NEW preY \in Status PROVE step(best, preY) \in Way
  <2> DEFINE tmp == Plus(Plus(before[preY].weight, TransProb[preY][y]), emitProb)
  <2>1. before[preY].weight \in Int
    BY DEF Way
  <2>2. TransProb[preY][y] \in Int
    BY ModelAssumption
  <2>3. tmp \in Int
    BY <1>4, <2>1, <2>2
  <2> HIDE DEF tmp
  <2>4. [weight |-> tmp, path |-> preY] \in Way
    BY <2>3 DEF Way
  <2>5. step(best, preY) = IF tmp > best.weight THEN [weight |-> tmp, path |-> preY] ELSE best
    BY DEF tmp
  <2> HIDE DEF step
  <2> QED BY <2>4, <2>5
<1> HIDE DEF step, base, it, n
<1>6. F \in [Way \X (1 .. n) -> Way]
  BY <1>2, <1>5
<1>7. \A best \in Way : \A k \in 1 .. n : F[<<best, k>>] = step(best, Order[k])
  OBVIOUS
<1> HIDE DEF F
<1>8. PICK G \in [SUBSET (1 .. n) -> Way] : IsFold(G, n, base, F)
  BY <1>2, <1>3, <1>6, FoldExists
<1>9. ASSUME NEW s \in SUBSET (1 .. n), s # {}
      PROVE  G[s] = step(G[s \ {Max(s)}], Order[Max(s)])
  <2>1. Max(s) \in 1 .. n /\ s \ {Max(s)} \in SUBSET (1 .. n)
    BY <1>2, <1>9, MaxIsGreatest
  <2>2. G[s] = F[<<G[s \ {Max(s)}], Max(s)>>]
    BY <1>8, <1>9 DEF IsFold
  <2>3. G[s \ {Max(s)}] \in Way
    BY <2>1
  <2> QED BY <1>7, <2>1, <2>2, <2>3
<1>10. G[{}] = base
  BY <1>8 DEF IsFold
<1>11. it = [s \in SUBSET DOMAIN Order |->
               IF s = {} THEN base ELSE step(it[s \ {Max(s)}], Order[Max(s)])]
  <2>1. G = [s \in SUBSET DOMAIN Order |->
               IF s = {} THEN base ELSE step(G[s \ {Max(s)}], Order[Max(s)])]
    BY <1>2, <1>9, <1>10
  <2> QED BY <2>1 DEF it
<1> DEFINE T == {k \in 0 .. n : it[1 .. k] \in Way}
<1>12. 0 \in T
  <2>1. 1 .. 0 = {} /\ 0 \in 0 .. n
    BY <1>2
  <2>2. it[{}] = base
    BY <1>11
  <2> QED BY <1>3, <2>1, <2>2
<1>13. \A k \in 1 .. n : k - 1 \in T => k \in T
  <2> SUFFICES ASSUME NEW k \in 1 .. n, k - 1 \in T PROVE k \in T
    OBVIOUS
  <2>1. 1 .. k \in SUBSET (1 .. n) /\ k \in Nat /\ k # 0 /\ k \in 0 .. n
    BY <1>2
  <2>2. Max(1 .. k) = k /\ (1 .. k) \ {k} = 1 .. k - 1 /\ 1 .. k # {}
    BY <2>1, MaxOfInterval
  <2>3. it[1 .. k] = step(it[1 .. k - 1], Order[k])
    BY <1>2, <1>11, <2>1, <2>2
  <2>4. it[1 .. k - 1] \in Way /\ Order[k] \in Status
    BY <1>2
  <2>5. it[1 .. k] \in Way
    BY <1>5, <2>3, <2>4
  <2> QED BY <2>1, <2>5
<1>14. it[1 .. n] \in Way
  <2> HIDE DEF T
  <2>1. \A k \in 0 .. n : k \in T
    BY <1>2, <1>12, <1>13, UpTo, Zenon
  <2>2. n \in T
    BY <1>2, <2>1
  <2> QED BY <2>2 DEF T
<1> QED BY <1>1, <1>2, <1>14

\* Weights fills its table.
LEMMA WeightsAre ==
  ASSUME NEW text, NEW l \in Int, NEW r \in Int, l <= r
  PROVE  Weights(text, l, r) \in [l .. r -> [Status -> Way]]
<1> DEFINE A == [Status -> Way]
           e(x, y) == Emit(y, text[x])
           start == [y \in Status |-> [weight |-> Plus(StartProb[y], e(l, y)), path |-> "E"]]
           step(x, before) == [y \in Status |-> BestWay(before, y, e(x, y))]
           F == [p \in (l + 1 .. r) \X A |-> step(p[1], p[2])]
           it == CHOOSE W : W = [x \in l .. r |->
                   IF x = l
                   THEN [y \in Status |-> [weight |-> Plus(StartProb[y], e(x, y)), path |-> "E"]]
                   ELSE step(x, W[x - 1])]
<1>1. Weights(text, l, r) = it
  BY DEF Weights
<1>2. \A x, y : e(x, y) \in Int
  BY ModelAssumption DEF Emit
<1> HIDE DEF e
<1>3. start \in A
  <2>1. \A p, q \in Int : Plus(p, q) \in Int
    BY ModelAssumption DEF Plus
  <2>2. \A y \in Status : StartProb[y] \in Int /\ "E" \in Status
    BY ModelAssumption DEF Status
  <2>3. \A y \in Status : [weight |-> Plus(StartProb[y], e(l, y)), path |-> "E"] \in Way
    BY <1>2, <2>1, <2>2 DEF Way
  <2> QED BY <2>3
<1>4. ASSUME NEW before \in A, NEW x PROVE step(x, before) \in A
  <2>1. \A y \in Status : BestWay(before, y, e(x, y)) \in Way
    BY <1>2, BestWayIs
  <2> QED BY <2>1
<1>5. l \in l .. r /\ \A x \in l .. r : x # l => x \in l + 1 .. r /\ x - 1 \in l .. r
  OBVIOUS
<1> DEFINE W0 == [y \in Status |-> [weight |-> Plus(StartProb[y], e(l, y)), path |-> "E"]]
<1> HIDE DEF step, A
<1>6. F \in [(l + 1 .. r) \X A -> A] /\ \A x \in l + 1 .. r : \A b \in A : F[<<x, b>>] = step(x, b)
  BY <1>4
<1> HIDE DEF F, start
<1>7. PICK G \in [l .. r -> A] : G[l] = start /\ \A x \in l + 1 .. r : G[x] = F[<<x, G[x - 1]>>]
  <2>1. l \in Int /\ r \in Int /\ l <= r /\ start \in A
    BY <1>3
  <2>2. F \in [(l + 1 .. r) \X A -> A]
    BY <1>6
  <2>3. \E G : IsForwards(G, F, l, r, A, start)
    BY <2>1, <2>2, ForwardsExists
  <2>4. PICK G : IsForwards(G, F, l, r, A, start)
    BY <2>3
  <2> QED BY <2>4 DEF IsForwards
<1>8. \A x \in l .. r : x # l => G[x] = step(x, G[x - 1])
  BY <1>5, <1>6, <1>7
<1>9. G = [x \in l .. r |->
             IF x = l
             THEN [y \in Status |-> [weight |-> Plus(StartProb[y], e(x, y)), path |-> "E"]]
             ELSE step(x, G[x - 1])]
  <2>1. ASSUME NEW x \in l .. r, x = l
        PROVE  G[x] = [y \in Status |-> [weight |-> Plus(StartProb[y], e(x, y)), path |-> "E"]]
    BY <1>7, <2>1 DEF start
  <2> QED BY <1>8, <2>1
<1>10. it = [x \in l .. r |->
               IF x = l
               THEN [y \in Status |-> [weight |-> Plus(StartProb[y], e(x, y)), path |-> "E"]]
               ELSE step(x, it[x - 1])]
  BY <1>9 DEF it
<1> HIDE DEF it
<1>11. it[l] \in A
  <2>1. it[l] = start
    BY <1>5, <1>10 DEF start
  <2> QED BY <1>3, <2>1
<1> DEFINE n == r - l
           T == {k \in 0 .. n : it[l + k] \in A}
<1>12. 0 \in T
  <2>1. l + 0 = l /\ 0 \in 0 .. n
    OBVIOUS
  <2> QED BY <1>11, <2>1
<1>13. \A k \in 1 .. n : k - 1 \in T => k \in T
  <2> SUFFICES ASSUME NEW k \in 1 .. n, k - 1 \in T PROVE k \in T
    OBVIOUS
  <2>1. l + k \in l .. r /\ l + k # l /\ l + k - 1 = l + (k - 1) /\ k \in 0 .. n
    OBVIOUS
  <2>2. it[l + k] = step(l + k, it[l + (k - 1)])
    BY <1>10, <2>1
  <2> QED BY <1>4, <2>1, <2>2
<1>14. \A x \in l .. r : it[x] \in A
  <2> HIDE DEF T
  <2>0. n \in Nat
    OBVIOUS
  <2>1. \A k \in 0 .. n : k \in T
    BY <2>0, <1>12, <1>13, UpTo, Zenon
  <2>2. \A x \in l .. r : x - l \in 0 .. n /\ l + (x - l) = x
    OBVIOUS
  <2> QED BY <2>1, <2>2 DEF T
<1> QED BY <1>1, <1>10, <1>14 DEF A

\* Viterbi gives every character a state, and the last one E or S.
LEMMA ViterbiIs ==
  ASSUME NEW text, NEW l \in Int, NEW r \in Int, l <= r
  PROVE  /\ Viterbi(text, l, r) \in [l .. r -> Status]
         /\ Viterbi(text, l, r)[r] \in {"E", "S"}
<1> DEFINE W == Weights(text, l, r)
           step(x, G) == IF x = r THEN LastStatus(W[r]) ELSE W[x + 1][G[x + 1]].path
           h == [x \in l .. r |-> [G \in [l .. r -> Status] |-> step(x, G)]]
           it == CHOOSE Stat : Stat = [x \in l .. r |-> step(x, Stat)]
<1>1. Viterbi(text, l, r) = it
  BY DEF Viterbi
<1>2. W \in [l .. r -> [Status -> Way]]
  BY WeightsAre
<1> HIDE DEF W
<1>3. \A x \in l .. r : x # r => x + 1 \in l .. r /\ x + 1 \in x + 1 .. r
  OBVIOUS
<1>4. LastStatus(W[r]) \in {"E", "S"} /\ {"E", "S"} \subseteq Status
  BY DEF LastStatus, Status
<1>5. ASSUME NEW x \in l .. r, NEW G, \A j \in x + 1 .. r : G[j] \in Status
      PROVE  step(x, G) \in Status
  <2>1. CASE x = r
    BY <1>4, <2>1
  <2>2. CASE x # r
    <3>1. G[x + 1] \in Status /\ x + 1 \in l .. r
      BY <1>3, <1>5, <2>2
    <3>2. W[x + 1][G[x + 1]] \in Way
      BY <1>2, <3>1
    <3> QED BY <2>2, <3>2 DEF Way
  <2> QED BY <2>1, <2>2
<1>6. ASSUME NEW x \in l .. r, NEW F \in [l .. r -> Status], NEW G \in [l .. r -> Status],
             \A j \in x + 1 .. r : F[j] = G[j]
      PROVE  step(x, F) = step(x, G)
  BY <1>3, <1>6
<1> HIDE DEF step, it
<1>7. \E G \in [l .. r -> Status] : \A x \in l .. r : G[x] = step(x, G)
  <2>1. \A x \in l .. r : \A G \in [l .. r -> Status] : h[x][G] = step(x, G)
    OBVIOUS
  <2>2. h \in [l .. r -> [[l .. r -> Status] -> Status]]
    <3>1. ASSUME NEW x \in l .. r, NEW G \in [l .. r -> Status] PROVE step(x, G) \in Status
      <4>1. \A j \in x + 1 .. r : j \in l .. r
        OBVIOUS
      <4> QED BY <1>5, <4>1
    <3> QED BY <3>1
  <2> HIDE DEF h
  <2>3. \A x \in l .. r : \A F, G \in [l .. r -> Status] :
          (\A j \in x + 1 .. r : F[j] = G[j]) => h[x][F] = h[x][G]
    BY <1>6, <2>1
  <2>4. IsBackwards(h, l, r, Status)
    BY <2>2, <2>3 DEF IsBackwards
  <2>5. \E a : a \in Status
    BY <1>4
  <2>6. \E G : IsMade(G, h, l, r, Status)
    BY <2>4, <2>5, BackwardsExists
  <2>7. \E G \in [l .. r -> Status] : \A x \in l .. r : G[x] = h[x][G]
    BY <2>6 DEF IsMade
  <2> QED BY <2>1, <2>7
<1>8. it = [x \in l .. r |-> step(x, it)]
  <2>1. PICK G \in [l .. r -> Status] : \A x \in l .. r : G[x] = step(x, G)
    BY <1>7
  <2>2. G = [x \in l .. r |-> step(x, G)]
    BY <2>1
  <2> QED BY <2>2 DEF it
<1>9. \A x \in l .. r : it[x] \in Status
  <2> DEFINE S == {x \in l .. r : it[x] \in Status}
  <2>1. \A x \in l .. r : (\A j \in x + 1 .. r : j \in S) => x \in S
    BY <1>5, <1>8
  <2> HIDE DEF S
  <2>2. \A x \in l .. r : x \in S
    BY <2>1, DownTo, Zenon
  <2> QED BY <2>2 DEF S
<1>10. it[r] \in {"E", "S"}
  <2>1. r \in l .. r
    OBVIOUS
  <2>2. it[r] = step(r, it)
    BY <1>8, <2>1
  <2> QED BY <1>4, <2>2 DEF step
<1> QED BY <1>1, <1>8, <1>9, <1>10

-----------------------------------------------------------------------------
(* Words that stand side by side.                                          *)

\* The words go from l to r and leave nothing out.
Tile(words, l, r) ==
  /\ words \in Seq(Int \X Int)
  /\ IF words = << >> THEN l = r + 1 ELSE words[1][1] = l /\ words[Len(words)][2] = r
  /\ \A k \in 1 .. Len(words) : words[k][1] <= words[k][2]
  /\ \A k \in 1 .. Len(words) - 1 : words[k + 1][1] = words[k][2] + 1

LEMMA NoTile == ASSUME NEW l \in Int PROVE Tile(<< >>, l, l - 1)
<1> QED BY DEF Tile

LEMMA OneTile ==
  ASSUME NEW l \in Int, NEW r \in Int, l <= r
  PROVE  Tile(<<<<l, r>>>>, l, r)
<1> DEFINE words == <<<<l, r>>>>
<1>1. words \in Seq(Int \X Int) /\ Len(words) = 1 /\ words[1] = <<l, r>> /\ words # << >>
  OBVIOUS
<1> HIDE DEF words
<1>2. \A k \in 1 .. 1 : k = 1
  OBVIOUS
<1>3. \A k \in 1 .. Len(words) : words[k][1] <= words[k][2]
  BY <1>1, <1>2
<1>4. 1 .. Len(words) - 1 = {}
  BY <1>1
<1>5. Tile(words, l, r)
  BY <1>1, <1>3, <1>4 DEF Tile
<1> QED BY <1>5 DEF words

\* Words up to a position and words behind it are words to the end.
LEMMA TilesJoin ==
  ASSUME NEW a, NEW b, NEW l \in Int, NEW m \in Int, NEW r \in Int,
         Tile(a, l, m - 1), Tile(b, m, r)
  PROVE  Tile(a \o b, l, r)
<1> DEFINE p == Len(a)
           q == Len(b)
           c == a \o b
<1>1. a \in Seq(Int \X Int) /\ b \in Seq(Int \X Int)
  BY DEF Tile
<1>2. c \in Seq(Int \X Int) /\ p \in Nat /\ q \in Nat /\ Len(c) = p + q
  BY <1>1
<1>3. /\ \A k \in 1 .. p : c[k] = a[k]
      /\ \A k \in p + 1 .. p + q : c[k] = b[k - p] /\ k - p \in 1 .. q
  BY <1>1
<1>4. (a = << >> <=> p = 0) /\ (b = << >> <=> q = 0) /\ (c = << >> <=> p + q = 0)
  BY <1>1, <1>2
<1>5. /\ \A k \in 1 .. p : a[k] \in Int \X Int
      /\ \A k \in 1 .. q : b[k] \in Int \X Int
  BY <1>1
<1>6. /\ \A k \in 1 .. p : a[k][1] <= a[k][2]
      /\ \A k \in 1 .. q : b[k][1] <= b[k][2]
      /\ \A k \in 1 .. p - 1 : a[k + 1][1] = a[k][2] + 1
      /\ \A k \in 1 .. q - 1 : b[k + 1][1] = b[k][2] + 1
      /\ p = 0 => l = m
      /\ p # 0 => a[1][1] = l /\ a[p][2] = m - 1
      /\ q = 0 => m = r + 1
      /\ q # 0 => b[1][1] = m /\ b[q][2] = r
  BY <1>4 DEF Tile
<1> HIDE DEF c, p, q
<1>7. ASSUME NEW k \in 1 .. p + q PROVE c[k][1] <= c[k][2]
  <2>1. k \in 1 .. p \/ k \in p + 1 .. p + q
    BY <1>2
  <2> QED BY <1>3, <1>6, <2>1
<1>8. ASSUME NEW k \in 1 .. p + q - 1 PROVE c[k + 1][1] = c[k][2] + 1
  <2>1. CASE k \in 1 .. p - 1
    <3>1. k \in 1 .. p /\ k + 1 \in 1 .. p
      BY <1>2, <2>1
    <3> QED BY <1>3, <1>6, <2>1, <3>1
  <2>2. CASE k = p
    <3>1. k \in 1 .. p /\ k + 1 \in p + 1 .. p + q /\ k + 1 - p = 1 /\ p # 0 /\ q # 0
      BY <1>2, <2>2
    <3>2. c[k + 1] = b[1] /\ c[k] = a[p]
      BY <1>3, <2>2, <3>1
    <3>3. b[1][1] = m /\ a[p][2] = m - 1
      BY <1>6, <3>1
    <3> QED BY <3>2, <3>3
  <2>3. CASE k \in p + 1 .. p + q - 1
    <3>1. /\ k \in p + 1 .. p + q /\ k + 1 \in p + 1 .. p + q /\ k - p \in 1 .. q - 1
          /\ (k + 1) - p = k - p + 1
      BY <1>2, <2>3
    <3>2. c[k + 1] = b[(k + 1) - p] /\ c[k] = b[k - p]
      BY <1>3, <3>1
    <3>3. b[k - p + 1][1] = b[k - p][2] + 1
      BY <1>6, <3>1
    <3> QED BY <3>1, <3>2, <3>3
  <2> QED BY <1>2, <2>1, <2>2, <2>3
<1>9. IF p + q = 0 THEN l = r + 1 ELSE c[1][1] = l /\ c[p + q][2] = r
  <2>1. CASE p = 0 /\ q = 0
    BY <1>6, <2>1
  <2>2. CASE p # 0
    <3>1. 1 \in 1 .. p /\ p \in 1 .. p
      BY <1>2, <2>2
    <3>2. c[1][1] = l /\ p + q # 0
      BY <1>2, <1>3, <1>6, <2>2, <3>1
    <3>3. CASE q = 0
      <4>1. p + q = p /\ c[p] = a[p] /\ a[p][2] = m - 1 /\ m = r + 1
        BY <1>2, <1>3, <1>6, <2>2, <3>1, <3>3
      <4>2. m - 1 = r
        BY <4>1
      <4>3. c[p + q][2] = r
        BY <4>1, <4>2
      <4> QED BY <3>2, <4>3
    <3>4. CASE q # 0
      <4>1. p + q \in p + 1 .. p + q /\ (p + q) - p = q
        BY <1>2, <3>4
      <4>2. c[p + q] = b[q]
        BY <1>3, <4>1
      <4>3. c[p + q][2] = r
        BY <1>6, <3>4, <4>2
      <4> QED BY <3>2, <4>3
    <3> QED BY <3>3, <3>4
  <2>3. CASE p = 0 /\ q # 0
    <3>1. 1 \in p + 1 .. p + q /\ p + q \in p + 1 .. p + q /\ 1 - p = 1 /\ p + q - p = q
      BY <1>2, <2>3
    <3>2. c[1] = b[1] /\ c[p + q] = b[q] /\ p + q # 0
      BY <1>2, <1>3, <2>3, <3>1
    <3> QED BY <1>6, <2>3, <3>2
  <2> QED BY <2>1, <2>2, <2>3
<1>10. Tile(c, l, r)
  BY <1>2, <1>4, <1>7, <1>8, <1>9 DEF Tile
<1> QED BY <1>10 DEF c

\* The words of a tile lie in it, one behind the other.
LieIn(words, l, r) ==
  /\ words \in Seq(Int \X Int)
  /\ \A k \in 1 .. Len(words) :
       l <= words[k][1] /\ words[k][1] <= words[k][2] /\ words[k][2] <= r
  /\ \A j, k \in 1 .. Len(words) : j < k => words[j][2] < words[k][1]

LEMMA TileLies ==
  ASSUME NEW words, NEW l \in Int, NEW r \in Int, Tile(words, l, r)
  PROVE  LieIn(words, l, r)
<1> DEFINE n == Len(words)
           T == {k \in 0 .. n : \A j \in 1 .. k : l <= words[j][1]
                                  /\ \A i \in 1 .. j - 1 : words[i][2] < words[j][1]}
<1>1. /\ words \in Seq(Int \X Int) /\ n \in Nat
      /\ \A k \in 1 .. n : words[k][1] \in Int /\ words[k][2] \in Int /\ words[k][1] <= words[k][2]
      /\ \A k \in 1 .. n - 1 : words[k + 1][1] = words[k][2] + 1
      /\ n # 0 => words[1][1] = l /\ words[n][2] = r
  BY DEF Tile
<1> HIDE DEF n
<1>2. 0 \in T
  <2>1. 1 .. 0 = {} /\ 0 \in 0 .. n
    BY <1>1
  <2> QED BY <2>1
<1>3. \A k \in 1 .. n : k - 1 \in T => k \in T
  <2> SUFFICES ASSUME NEW k \in 1 .. n, k - 1 \in T PROVE k \in T
    OBVIOUS
  <2>1. \A j \in 1 .. k - 1 : l <= words[j][1] /\ \A i \in 1 .. j - 1 : words[i][2] < words[j][1]
    OBVIOUS
  <2>2. l <= words[k][1] /\ \A i \in 1 .. k - 1 : words[i][2] < words[k][1]
    <3>1. CASE k = 1
      <4>1. 1 .. k - 1 = {} /\ n # 0
        BY <1>1, <3>1
      <4>2. words[k][1] = l
        BY <1>1, <3>1, <4>1
      <4> QED BY <4>1, <4>2
    <3>2. CASE k # 1
      <4>1. /\ k - 1 \in 1 .. n - 1 /\ k - 1 \in 1 .. n /\ k - 1 \in 1 .. k - 1 /\ k - 1 + 1 = k
            /\ \A i \in 1 .. k - 1 : i = k - 1 \/ i \in 1 .. k - 1 - 1
            /\ \A i \in 1 .. k - 1 : i \in 1 .. n
        BY <1>1, <3>2
      <4>2. words[k][1] = words[k - 1][2] + 1
        BY <1>1, <4>1
      <4>3. /\ words[k - 1][1] \in Int /\ words[k - 1][2] \in Int
            /\ words[k - 1][1] <= words[k - 1][2] /\ l <= words[k - 1][1]
        <5>1. l <= words[k - 1][1]
          BY <2>1, <4>1
        <5> QED BY <1>1, <4>1, <5>1
      <4>4. ASSUME NEW i \in 1 .. k - 1 PROVE words[i][2] < words[k][1]
        <5>1. words[i][2] \in Int
          BY <1>1, <4>1
        <5>2. i = k - 1 \/ words[i][2] < words[k - 1][1]
          BY <2>1, <4>1
        <5> QED BY <4>2, <4>3, <5>1, <5>2
      <4> QED BY <4>2, <4>3, <4>4
    <3> QED BY <3>1, <3>2
  <2>3. k \in 0 .. n /\ \A j \in 1 .. k : j = k \/ j \in 1 .. k - 1
    <3>1. k \in Nat /\ k \in 0 .. n
      BY <1>1
    <3>2. \A j \in 1 .. k : j = k \/ j \in 1 .. k - 1
      BY <3>1
    <3> QED BY <3>1, <3>2
  <2>4. \A j \in 1 .. k : l <= words[j][1] /\ \A i \in 1 .. j - 1 : words[i][2] < words[j][1]
    <3> SUFFICES ASSUME NEW j \in 1 .. k
                 PROVE  l <= words[j][1] /\ \A i \in 1 .. j - 1 : words[i][2] < words[j][1]
      OBVIOUS
    <3>1. CASE j = k
      BY <2>2, <3>1
    <3>2. CASE j # k
      <4>1. j \in 1 .. k - 1
        BY <2>3, <3>2
      <4> QED BY <2>1, <4>1
    <3> QED BY <3>1, <3>2
  <2> QED BY <2>3, <2>4
<1>4. n \in T
  <2> HIDE DEF T
  <2>1. \A k \in 0 .. n : k \in T
    BY <1>1, <1>2, <1>3, UpTo, Zenon
  <2>2. n \in 0 .. n
    BY <1>1
  <2> QED BY <2>1, <2>2
<1>5. \A j, k \in 1 .. n : j < k => words[j][2] < words[k][1]
  <2> SUFFICES ASSUME NEW j \in 1 .. n, NEW k \in 1 .. n, j < k PROVE words[j][2] < words[k][1]
    OBVIOUS
  <2>1. j \in 1 .. k - 1
    BY <1>1
  <2> QED BY <1>4, <2>1
<1>6. ASSUME NEW k \in 1 .. n PROVE l <= words[k][1] /\ words[k][2] <= r
  <2>1. l <= words[k][1]
    BY <1>4
  <2>2. n \in 1 .. n /\ n # 0 /\ (k = n \/ k < n)
    BY <1>1
  <2>3. words[n][2] = r /\ words[n][1] <= words[n][2] /\ words[n][1] \in Int /\ words[k][2] \in Int
    BY <1>1, <2>2
  <2>4. k = n \/ words[k][2] < words[n][1]
    BY <1>5, <2>2
  <2> QED BY <2>1, <2>3, <2>4
<1> QED BY <1>1, <1>5, <1>6 DEF LieIn, n

\* Between two positions is a word, unless they are the wrong way round.
LEMMA TileIsPartition ==
  ASSUME NEW words, NEW l \in Int, NEW r \in Int, Tile(words, l, r)
  PROVE  IsPartition(words, l, r) /\ (l <= r => words # << >>)
<1>1. words \in Seq(Int \X Int)
  BY DEF Tile
<1>2. DOMAIN words = 1 .. Len(words)
  BY <1>1
<1>3. words # << >> => Last(words) = words[Len(words)]
  BY DEF Last
<1> QED BY <1>2, <1>3 DEF Tile, IsPartition

\* The words begin at b[0], b[1] and so on, each where the one before ends.
IsBounds(b, words, l, r) ==
  /\ b \in [0 .. Len(words) -> Int]
  /\ b[0] = l /\ b[Len(words)] = r + 1
  /\ \A k \in 1 .. Len(words) : words[k] = <<b[k - 1], b[k] - 1>> /\ b[k - 1] < b[k]

LEMMA TileHasBounds ==
  ASSUME NEW words, NEW l \in Int, NEW r \in Int, Tile(words, l, r)
  PROVE  \E b : IsBounds(b, words, l, r)
<1> DEFINE n == Len(words)
           b == [k \in 0 .. n |-> IF k = 0 THEN l ELSE words[k][2] + 1]
<1>1. /\ words \in Seq(Int \X Int) /\ n \in Nat
      /\ \A k \in 1 .. n : /\ words[k] \in Int \X Int /\ words[k][1] \in Int /\ words[k][2] \in Int
                           /\ words[k][1] <= words[k][2] /\ words[k] = <<words[k][1], words[k][2]>>
      /\ \A k \in 1 .. n - 1 : words[k + 1][1] = words[k][2] + 1
      /\ n = 0 => l = r + 1
      /\ n # 0 => words[1][1] = l /\ words[n][2] = r
  BY DEF Tile
<1> HIDE DEF n
<1>2. b[0] = l /\ \A k \in 1 .. n : b[k] = words[k][2] + 1
  BY <1>1
<1>3. b \in [0 .. n -> Int]
  BY <1>1
<1>4. b[n] = r + 1
  <2>1. n = 0 \/ n \in 1 .. n
    BY <1>1
  <2> QED BY <1>1, <1>2, <2>1
<1> HIDE DEF b
<1>5. ASSUME NEW k \in 1 .. n PROVE words[k] = <<b[k - 1], b[k] - 1>> /\ b[k - 1] < b[k]
  <2>0. words[k][1] <= words[k][2] /\ words[k][1] \in Int /\ words[k][2] \in Int
        /\ b[k] = words[k][2] + 1
    BY <1>1, <1>2
  <2>1. b[k] - 1 = words[k][2] /\ words[k][1] <= words[k][2] /\ words[k][1] \in Int
        /\ words[k][2] \in Int /\ b[k] = words[k][2] + 1
    BY <2>0
  <2>2. b[k - 1] = words[k][1]
    <3>1. CASE k = 1
      BY <1>1, <1>2, <3>1
    <3>2. CASE k # 1
      <4>1. k - 1 \in 1 .. n - 1 /\ k - 1 \in 1 .. n /\ (k - 1) + 1 = k
        BY <1>1, <3>2
      <4> QED BY <1>1, <1>2, <4>1
    <3> QED BY <3>1, <3>2
  <2>3. words[k] = <<words[k][1], words[k][2]>>
    BY <1>1
  <2>4. b[k - 1] < b[k]
    BY <2>1, <2>2
  <2> QED BY <2>1, <2>2, <2>3, <2>4
<1>6. IsBounds(b, words, l, r)
  BY <1>2, <1>3, <1>4, <1>5 DEF IsBounds, n
<1> QED BY <1>6

\* What Chain puts together.
LEMMA ChainTiles ==
  ASSUME NEW from \in Int, NEW to \in Int, from <= to + 1, NEW piece, ArePieces(piece, from, to)
  PROVE  Tile(Chain(piece, from, to), from, to)
<1>1. PICK R : IsChain(R, piece, from, to) /\ Chain(piece, from, to) = R[from]
  BY ChainIs
<1> DEFINE S == {i \in from .. to + 1 : Tile(R[i], i, to)}
<1>2. \A i \in from .. to + 1 : (\A j \in i + 1 .. to + 1 : j \in S) => i \in S
  <2> SUFFICES ASSUME NEW i \in from .. to + 1, \A j \in i + 1 .. to + 1 : j \in S
               PROVE  Tile(R[i], i, to)
    OBVIOUS
  <2>1. CASE i = to + 1
    <3>1. R[i] = << >> /\ to = i - 1
      BY <1>1, <2>1 DEF IsChain
    <3>2. Tile(<< >>, i, i - 1)
      BY NoTile
    <3> QED BY <3>1, <3>2
  <2>2. CASE i # to + 1
    <3>1. i \in from .. to
      BY <2>2
    <3>2. PICK e \in i .. to : piece[i] = <<i, e>>
      BY <3>1 DEF ArePieces
    <3>3. R[i] = <<<<i, e>>>> \o R[e + 1]
      <4>1. piece[i][2] = e
        BY <3>2
      <4>2. R[i] = <<piece[i]>> \o R[piece[i][2] + 1]
        BY <1>1, <3>1 DEF IsChain
      <4> QED BY <3>2, <4>1, <4>2
    <3>4. e + 1 \in i + 1 .. to + 1 /\ e \in Int /\ e + 1 \in Int /\ e + 1 - 1 = e /\ i <= e
      BY <3>1
    <3>5. Tile(R[e + 1], e + 1, to)
      BY <3>4
    <3>6. Tile(<<<<i, e>>>>, i, e)
      BY <3>4, OneTile
    <3>7. Tile(<<<<i, e>>>>, i, e + 1 - 1)
      BY <3>4, <3>6
    <3>8. Tile(<<<<i, e>>>> \o R[e + 1], i, to)
      BY <3>4, <3>5, <3>7, TilesJoin
    <3> QED BY <3>3, <3>8
  <2> QED BY <2>1, <2>2
<1>3. from \in S
  <2> HIDE DEF S
  <2>1. to + 1 \in Int /\ from \in from .. to + 1
    OBVIOUS
  <2>2. \A i \in from .. to + 1 : i \in S
    BY <1>2, <2>1, DownTo, Zenon
  <2> QED BY <2>1, <2>2
<1> QED BY <1>1, <1>3

\* Every f[k] fills the room from b[k - 1] to b[k].
AreTiles(f, b, n) ==
  /\ f \in [1 .. n -> Seq(Int \X Int)]
  /\ b \in [0 .. n -> Int]
  /\ \A k \in 1 .. n : Tile(f[k], b[k - 1], b[k] - 1)

LEMMA FlattenTiles ==
  ASSUME NEW n \in Nat, NEW f, NEW b, AreTiles(f, b, n)
  PROVE  Tile(FlattenSeq(f), b[0], b[n] - 1)
<1>1. PICK P : IsFlattened(P, f, n, Int \X Int)
  <2>1. f \in [1 .. n -> Seq(Int \X Int)]
    BY DEF AreTiles
  <2> QED BY <2>1, FlattenIs
<1>2. /\ FlattenSeq(f) = P[n] /\ P[0] = << >>
      /\ \A k \in 1 .. n : P[k] = P[k - 1] \o f[k]
  BY <1>1 DEF IsFlattened, Grows
<1> DEFINE T == {k \in 0 .. n : Tile(P[k], b[0], b[k] - 1)}
<1>3. \A k \in 0 .. n : b[k] \in Int
  BY DEF AreTiles
<1>4. 0 \in T
  <2>1. 0 \in 0 .. n /\ b[0] \in Int
    BY <1>3
  <2>2. Tile(<< >>, b[0], b[0] - 1)
    BY <2>1, NoTile
  <2> QED BY <1>2, <2>1, <2>2
<1>5. \A k \in 1 .. n : k - 1 \in T => k \in T
  <2> SUFFICES ASSUME NEW k \in 1 .. n, k - 1 \in T PROVE k \in T
    OBVIOUS
  <2>1. k \in 0 .. n /\ k - 1 \in 0 .. n /\ 0 \in 0 .. n
    OBVIOUS
  <2>2. b[0] \in Int /\ b[k - 1] \in Int /\ b[k] - 1 \in Int
    BY <1>3, <2>1
  <2>3. Tile(P[k - 1], b[0], b[k - 1] - 1) /\ Tile(f[k], b[k - 1], b[k] - 1)
    BY DEF AreTiles
  <2>4. Tile(P[k - 1] \o f[k], b[0], b[k] - 1)
    BY <2>2, <2>3, TilesJoin
  <2> QED BY <1>2, <2>1, <2>4
<1>6. n \in T
  <2> HIDE DEF T
  <2>1. \A k \in 0 .. n : k \in T
    BY <1>4, <1>5, UpTo, Zenon
  <2> QED BY <2>1
<1> QED BY <1>2, <1>6

\* Sequences put one behind the other have the elements of all of them.
IsUnion(s, f, n, A) ==
  s \in Seq(A) /\ \A x : x \in Range(s) <=> \E k \in 1 .. n : x \in Range(f[k])

LEMMA JoinedRange ==
  ASSUME NEW A, NEW a \in Seq(A), NEW b \in Seq(A)
  PROVE  a \o b \in Seq(A) /\ \A x : x \in Range(a \o b) <=> x \in Range(a) \/ x \in Range(b)
<1> DEFINE p == Len(a)
           q == Len(b)
           c == a \o b
<1>1. c \in Seq(A) /\ p \in Nat /\ q \in Nat /\ Len(c) = p + q
  OBVIOUS
<1>2. /\ \A k \in 1 .. p : c[k] = a[k]
      /\ \A k \in p + 1 .. p + q : c[k] = b[k - p] /\ k - p \in 1 .. q
      /\ \A k \in 1 .. q : p + k \in p + 1 .. p + q /\ (p + k) - p = k /\ p + k \in 1 .. p + q
      /\ \A k \in 1 .. p + q : k \in 1 .. p \/ k \in p + 1 .. p + q
      /\ \A k \in 1 .. p : k \in 1 .. p + q
  OBVIOUS
<1>3. DOMAIN c = 1 .. p + q /\ DOMAIN a = 1 .. p /\ DOMAIN b = 1 .. q
  OBVIOUS
<1> HIDE DEF c, p, q
<1>4. ASSUME NEW x, x \in Range(c) PROVE x \in Range(a) \/ x \in Range(b)
  <2>1. PICK k \in 1 .. p + q : x = c[k]
    BY <1>3, <1>4 DEF Range
  <2>2. CASE k \in 1 .. p
    BY <1>2, <1>3, <2>1, <2>2 DEF Range
  <2>3. CASE k \in p + 1 .. p + q
    <3>1. x = b[k - p] /\ k - p \in 1 .. q
      BY <1>2, <2>1, <2>3
    <3> QED BY <1>3, <3>1 DEF Range
  <2> QED BY <1>2, <2>2, <2>3
<1>5. ASSUME NEW x, x \in Range(a) PROVE x \in Range(c)
  <2>1. PICK k \in 1 .. p : x = a[k]
    BY <1>3, <1>5 DEF Range
  <2>2. x = c[k] /\ k \in 1 .. p + q
    BY <1>2, <2>1
  <2> QED BY <1>3, <2>2 DEF Range
<1>6. ASSUME NEW x, x \in Range(b) PROVE x \in Range(c)
  <2>1. PICK k \in 1 .. q : x = b[k]
    BY <1>3, <1>6 DEF Range
  <2>2. x = c[p + k] /\ p + k \in 1 .. p + q
    BY <1>2, <2>1
  <2> QED BY <1>3, <2>2 DEF Range
<1>7. c \in Seq(A) /\ \A x : x \in Range(c) <=> x \in Range(a) \/ x \in Range(b)
  BY <1>1, <1>4, <1>5, <1>6
<1> QED BY <1>7 DEF c

LEMMA FlattenRange ==
  ASSUME NEW A, NEW n \in Nat, NEW f \in [1 .. n -> Seq(A)]
  PROVE  IsUnion(FlattenSeq(f), f, n, A)
<1>1. PICK P : IsFlattened(P, f, n, A)
  BY FlattenIs
<1>2. /\ FlattenSeq(f) = P[n] /\ P[0] = << >> /\ P \in [0 .. n -> Seq(A)]
      /\ \A k \in 1 .. n : P[k] = P[k - 1] \o f[k]
  BY <1>1 DEF IsFlattened, Grows
<1> DEFINE T == {k \in 0 .. n : \A x : x \in Range(P[k]) <=> \E i \in 1 .. k : x \in Range(f[i])}
<1>3. 0 \in T
  <2>1. 0 \in 0 .. n /\ 1 .. 0 = {} /\ DOMAIN << >> = {}
    OBVIOUS
  <2> QED BY <1>2, <2>1 DEF Range
<1>4. \A k \in 1 .. n : k - 1 \in T => k \in T
  <2> SUFFICES ASSUME NEW k \in 1 .. n, k - 1 \in T PROVE k \in T
    OBVIOUS
  <2>1. /\ k \in 0 .. n /\ k - 1 \in 0 .. n
        /\ \A i \in 1 .. k : i = k \/ i \in 1 .. k - 1
        /\ \A i \in 1 .. k - 1 : i \in 1 .. k
        /\ k \in 1 .. k
    OBVIOUS
  <2>2. P[k - 1] \in Seq(A) /\ f[k] \in Seq(A)
    BY <1>2, <2>1
  <2>3. \A x : x \in Range(P[k - 1] \o f[k]) <=> x \in Range(P[k - 1]) \/ x \in Range(f[k])
    BY <2>2, JoinedRange
  <2>4. \A x : x \in Range(P[k - 1]) <=> \E i \in 1 .. k - 1 : x \in Range(f[i])
    OBVIOUS
  <2>5. P[k] = P[k - 1] \o f[k]
    BY <1>2
  <2>6. \A x : x \in Range(P[k]) <=> \E i \in 1 .. k : x \in Range(f[i])
    BY <2>1, <2>3, <2>4, <2>5
  <2> QED BY <2>1, <2>6
<1>5. n \in T
  <2> HIDE DEF T
  <2>1. \A k \in 0 .. n : k \in T
    BY <1>3, <1>4, UpTo, Zenon
  <2> QED BY <2>1
<1>6. n \in 0 .. n
  OBVIOUS
<1> QED BY <1>2, <1>5, <1>6 DEF IsUnion

\* No element comes twice.
Once(s) == \A i, j \in 1 .. Len(s) : s[i] = s[j] => i = j

LEMMA JoinedOnce ==
  ASSUME NEW A, NEW a \in Seq(A), NEW b \in Seq(A), Once(a), Once(b),
         \A x : x \in Range(a) => x \notin Range(b)
  PROVE  Once(a \o b)
<1> DEFINE p == Len(a)
           q == Len(b)
           c == a \o b
<1>1. c \in Seq(A) /\ p \in Nat /\ q \in Nat /\ Len(c) = p + q
  OBVIOUS
<1>2. /\ \A k \in 1 .. p : c[k] = a[k]
      /\ \A k \in p + 1 .. p + q : c[k] = b[k - p] /\ k - p \in 1 .. q
      /\ \A k \in 1 .. p + q : k \in 1 .. p \/ k \in p + 1 .. p + q
  OBVIOUS
<1>3. DOMAIN a = 1 .. p /\ DOMAIN b = 1 .. q
  OBVIOUS
<1>4. /\ \A i, j \in 1 .. p : a[i] = a[j] => i = j
      /\ \A i, j \in 1 .. q : b[i] = b[j] => i = j
  BY DEF Once
<1> HIDE DEF c, p, q
<1>5. ASSUME NEW i \in 1 .. p, NEW j \in p + 1 .. p + q PROVE c[i] # c[j]
  <2>1. c[i] = a[i] /\ c[j] = b[j - p] /\ j - p \in 1 .. q
    BY <1>2
  <2>2. a[i] \in Range(a) /\ b[j - p] \in Range(b)
    BY <1>3, <2>1 DEF Range
  <2> QED BY <2>1, <2>2
<1>6. ASSUME NEW i \in 1 .. p + q, NEW j \in 1 .. p + q, c[i] = c[j] PROVE i = j
  <2>1. CASE i \in 1 .. p /\ j \in 1 .. p
    BY <1>2, <1>4, <1>6, <2>1
  <2>2. CASE i \in p + 1 .. p + q /\ j \in p + 1 .. p + q
    <3>1. c[i] = b[i - p] /\ i - p \in 1 .. q /\ c[j] = b[j - p] /\ j - p \in 1 .. q
      BY <1>2, <2>2
    <3>2. i - p = j - p
      BY <1>4, <1>6, <3>1
    <3> QED BY <1>1, <3>2
  <2> QED BY <1>2, <1>5, <1>6, <2>1, <2>2
<1>7. Once(c)
  BY <1>1, <1>6 DEF Once
<1> QED BY <1>7 DEF c

\* Nothing is in two of the sequences, and nothing twice in one of them.
Differ(f, n) ==
  /\ \A k \in 1 .. n : Once(f[k])
  /\ \A j, k \in 1 .. n : j < k => \A x : x \in Range(f[j]) => x \notin Range(f[k])

LEMMA FlattenOnce ==
  ASSUME NEW A, NEW n \in Nat, NEW f \in [1 .. n -> Seq(A)], Differ(f, n)
  PROVE  Once(FlattenSeq(f))
<1>1. PICK P : IsFlattened(P, f, n, A)
  BY FlattenIs
<1>2. /\ FlattenSeq(f) = P[n] /\ P[0] = << >> /\ P \in [0 .. n -> Seq(A)]
      /\ \A k \in 1 .. n : P[k] = P[k - 1] \o f[k]
  BY <1>1 DEF IsFlattened, Grows
<1> DEFINE T == {k \in 0 .. n : /\ Once(P[k])
                               /\ \A x : x \in Range(P[k]) => \E i \in 1 .. k : x \in Range(f[i])}
<1>3. 0 \in T
  <2>1. 0 \in 0 .. n /\ 1 .. 0 = {} /\ DOMAIN << >> = {} /\ Len(<< >>) = 0
    OBVIOUS
  <2> QED BY <1>2, <2>1 DEF Range, Once
<1>4. \A k \in 1 .. n : k - 1 \in T => k \in T
  <2> SUFFICES ASSUME NEW k \in 1 .. n, k - 1 \in T PROVE k \in T
    OBVIOUS
  <2>1. /\ k \in 0 .. n /\ k - 1 \in 0 .. n
        /\ \A i \in 1 .. k - 1 : i \in 1 .. k /\ i \in 1 .. n /\ i < k
        /\ k \in 1 .. k
    OBVIOUS
  <2>2. P[k - 1] \in Seq(A) /\ f[k] \in Seq(A)
    BY <1>2, <2>1
  <2>3. \A x : x \in Range(P[k - 1] \o f[k]) <=> x \in Range(P[k - 1]) \/ x \in Range(f[k])
    BY <2>2, JoinedRange
  <2>4. /\ Once(P[k - 1])
        /\ \A x : x \in Range(P[k - 1]) => \E i \in 1 .. k - 1 : x \in Range(f[i])
    OBVIOUS
  <2>5. P[k] = P[k - 1] \o f[k]
    BY <1>2
  <2>6. \A x : x \in Range(P[k - 1]) => x \notin Range(f[k])
    BY <2>1, <2>4 DEF Differ
  <2>7. Once(f[k])
    BY DEF Differ
  <2>8. Once(P[k])
    BY <2>2, <2>4, <2>5, <2>6, <2>7, JoinedOnce
  <2>9. \A x : x \in Range(P[k]) => \E i \in 1 .. k : x \in Range(f[i])
    BY <2>1, <2>3, <2>4, <2>5
  <2> QED BY <2>1, <2>8, <2>9
<1>5. n \in T
  <2> HIDE DEF T
  <2>1. \A k \in 0 .. n : k \in T
    BY <1>3, <1>4, UpTo, Zenon
  <2>2. n \in 0 .. n
    OBVIOUS
  <2> QED BY <2>1, <2>2
<1> QED BY <1>2, <1>5

\* As many elements as places.
LEMMA OnceCounts ==
  ASSUME NEW A, NEW s \in Seq(A), Once(s)
  PROVE  Len(s) = Cardinality(Range(s))
<1> DEFINE n == Len(s)
           D == 1 .. n
<1>1. n \in Nat /\ DOMAIN s = D /\ s \in [D -> A]
  OBVIOUS
<1>2. IsFiniteSet(D) /\ Cardinality(D) = n
  <2>1. 1 \in Int /\ n \in Int /\ n - 1 + 1 = n
    BY <1>1
  <2>2. IsFiniteSet(1 .. n) /\ Cardinality(1 .. n) = IF 1 > n THEN 0 ELSE n - 1 + 1
    BY <2>1, FS_Interval
  <2> QED BY <1>1, <2>2
<1>3. \A i, j \in D : s[i] = s[j] => i = j
  BY DEF Once
<1> HIDE DEF n, D
<1>4. s \in [D -> Range(s)] /\ \A x \in Range(s) : \E i \in D : s[i] = x
  BY <1>1 DEF Range
<1>5. s \in Surjection(D, Range(s))
  BY <1>4 DEF Surjection
<1>6. s \in Injection(D, Range(s))
  BY <1>3, <1>4 DEF Injection, IsInjective
<1>7. Cardinality(Range(s)) = Cardinality(D)
  BY <1>2, <1>5, <1>6, FS_Surjection
<1> QED BY <1>2, <1>7 DEF n

\* The greatest of positions.
LEMMA MaxBetween ==
  ASSUME NEW l \in Int, NEW r \in Int, NEW s \in SUBSET (l .. r), s # {}
  PROVE  Max(s) \in s /\ \A k \in s : k <= Max(s)
<1> DEFINE f == [j \in s |-> j]
<1>1. \A j \in s : f[j] = j /\ f[j] \in Int
  OBVIOUS
<1> HIDE DEF f
<1>2. \E j \in s : \A x \in s : f[x] <= f[j]
  BY <1>1, LargestExists
<1>3. PICK j \in s : \A x \in s : x <= j
  BY <1>1, <1>2
<1> QED BY <1>3 DEF Max

-----------------------------------------------------------------------------
(* What the rules, the model and the dictionary make of a range.           *)

\* The words the model makes.
LEMMA InternalCutTiles ==
  ASSUME NEW text, NEW l \in Int, NEW r \in Int, l <= r
  PROVE  Tile(InternalCut(text, l, r), l, r)
<1> DEFINE status == Viterbi(text, l, r)
           End(x) == status[x] \in {"E", "S"}
           From(x) == {l} \cup {y + 1 : y \in {z \in l .. x - 1 : status[z] \in {"E", "S"}}}
           Left(x) == Max(From(x))
           s == Between(l, r)
           f == [k \in DOMAIN s |-> IF End(s[k]) THEN <<<<Left(s[k]), s[k]>>>> ELSE << >>]
           n == r - l + 1
           b == [k \in 0 .. n |-> Left(l + k)]
<1>1. InternalCut(text, l, r) = FlattenSeq(f)
  BY DEF InternalCut, FlatMap
<1>2. n \in Nat /\ n # 0 /\ l + n = r + 1 /\ l + n - 1 = r
  OBVIOUS
<1>3. DOMAIN s = 1 .. n /\ \A k \in 1 .. n : s[k] = l + (k - 1) /\ s[k] \in l .. r /\ s[k] + 1 = l + k
  BY DEF Between
<1>4. End(r)
  BY ViterbiIs
<1> HIDE DEF status, s
<1>5. \A x \in l .. r + 1 : From(x) \in SUBSET (l .. x) /\ l \in From(x)
  OBVIOUS
<1>6. From(l) = {l}
  <2>1. l .. l - 1 = {}
    OBVIOUS
  <2> QED BY <2>1
<1>7. ASSUME NEW x \in l .. r, End(x) PROVE x + 1 \in From(x + 1)
  BY <1>7
<1>8. ASSUME NEW x \in l .. r, ~End(x) PROVE From(x + 1) = From(x)
  <2>1. \A z \in l .. (x + 1) - 1 : z = x \/ z \in l .. x - 1
    OBVIOUS
  <2>2. \A z \in l .. x - 1 : z \in l .. (x + 1) - 1
    OBVIOUS
  <2>3. {z \in l .. (x + 1) - 1 : status[z] \in {"E", "S"}} = {z \in l .. x - 1 : status[z] \in {"E", "S"}}
    BY <1>8, <2>1, <2>2
  <2> QED BY <2>3
<1> HIDE DEF From
<1>9. \A x \in l .. r + 1 : Left(x) \in From(x) /\ Left(x) \in l .. x /\ \A y \in From(x) : y <= Left(x)
  <2> SUFFICES ASSUME NEW x \in l .. r + 1
               PROVE  Left(x) \in From(x) /\ Left(x) \in l .. x /\ \A y \in From(x) : y <= Left(x)
    OBVIOUS
  <2>1. x \in Int /\ From(x) \in SUBSET (l .. x) /\ From(x) # {}
    BY <1>5
  <2>2. Max(From(x)) \in From(x) /\ \A y \in From(x) : y <= Max(From(x))
    BY <2>1, MaxBetween
  <2> QED BY <2>1, <2>2
<1> HIDE DEF Left
<1>10. Left(l) = l
  <2>1. l \in l .. r + 1
    OBVIOUS
  <2> QED BY <1>6, <1>9, <2>1
<1>11. ASSUME NEW x \in l .. r
       PROVE  Left(x + 1) = IF End(x) THEN x + 1 ELSE Left(x)
  <2>1. x + 1 \in l .. r + 1 /\ x \in l .. r + 1
    OBVIOUS
  <2>2. CASE End(x)
    <3>1. x + 1 \in From(x + 1)
      BY <1>7, <2>2
    <3>2. x + 1 <= Left(x + 1) /\ Left(x + 1) \in l .. x + 1
      BY <1>9, <2>1, <3>1
    <3>3. Left(x + 1) = x + 1
      BY <3>2
    <3> QED BY <2>2, <3>3
  <2>3. CASE ~End(x)
    BY <1>8, <2>3 DEF Left
  <2> QED BY <2>2, <2>3
<1>12. /\ \A k \in 0 .. n : b[k] = Left(l + k) /\ b[k] \in Int
       /\ b[0] = l /\ b[n] = r + 1
  <2>1. \A k \in 0 .. n : l + k \in l .. r + 1
    BY <1>2
  <2>2. l + 0 = l /\ 0 \in 0 .. n /\ n \in 0 .. n /\ r \in l .. r
    BY <1>2
  <2>3. Left(r + 1) = r + 1
    BY <1>4, <1>11, <2>2
  <2> QED BY <1>2, <1>9, <1>10, <2>1, <2>2, <2>3
<1> HIDE DEF b, n
<1>13. \A k \in 1 .. n : f[k] \in Seq(Int \X Int) /\ Tile(f[k], b[k - 1], b[k] - 1)
  <2> SUFFICES ASSUME NEW k \in 1 .. n
               PROVE  f[k] \in Seq(Int \X Int) /\ Tile(f[k], b[k - 1], b[k] - 1)
    OBVIOUS
  <2> DEFINE x == s[k]
  <2>1. x \in l .. r /\ x \in l .. r + 1 /\ x = l + (k - 1) /\ x + 1 = l + k
    BY <1>3
  <2>2. k \in 0 .. n /\ k - 1 \in 0 .. n
    BY <1>2
  <2>3. b[k - 1] = Left(x) /\ b[k] = Left(x + 1)
    BY <1>12, <2>1, <2>2
  <2>4. f[k] = IF End(x) THEN <<<<Left(x), x>>>> ELSE << >>
    BY <1>3
  <2>5. Left(x) \in Int /\ Left(x) <= x /\ x \in Int
    BY <1>9, <2>1
  <2> HIDE DEF f, x
  <2>6. CASE End(x)
    <3>1. Tile(<<<<Left(x), x>>>>, Left(x), x)
      BY <2>5, OneTile
    <3>2. b[k] - 1 = x
      BY <1>11, <2>1, <2>3, <2>6
    <3>3. Tile(f[k], b[k - 1], b[k] - 1)
      BY <2>3, <2>4, <2>6, <3>1, <3>2
    <3> QED BY <3>3 DEF Tile
  <2>7. CASE ~End(x)
    <3>1. Tile(<< >>, Left(x), Left(x) - 1)
      BY <2>5, NoTile
    <3>2. b[k] = Left(x)
      BY <1>11, <2>1, <2>3, <2>7
    <3>3. Tile(f[k], b[k - 1], b[k] - 1)
      BY <2>3, <2>4, <2>7, <3>1, <3>2
    <3> QED BY <3>3 DEF Tile
  <2> QED BY <2>6, <2>7
<1>14. AreTiles(f, b, n)
  <2>1. f \in [1 .. n -> Seq(Int \X Int)]
    BY <1>3, <1>13
  <2>2. b \in [0 .. n -> Int]
    BY <1>12 DEF b
  <2> HIDE DEF f
  <2> QED BY <1>13, <2>1, <2>2 DEF AreTiles
<1> HIDE DEF f
<1>15. Tile(FlattenSeq(f), b[0], b[n] - 1)
  BY <1>2, <1>14, FlattenTiles
<1>16. b[n] - 1 = r
  BY <1>12
<1> QED BY <1>1, <1>12, <1>15, <1>16

\* A run ends before what is not of its class.
LEMMA RunEndIs ==
  ASSUME NEW text, NEW i \in Int, NEW r \in Int, i <= r, NEW Class
  PROVE  /\ RunEnd(text, i, r, Class) \in i .. r
         /\ RunEnd(text, i, r, Class) # r => text[RunEnd(text, i, r, Class) + 1] \notin Class
<1> DEFINE s == {j \in i .. r : \A k \in i + 1 .. j : text[k] \in Class}
           e == Max(s)
<1>1. i \in s
  OBVIOUS
<1>2. s \in SUBSET (i .. r)
  OBVIOUS
<1>3. \A j \in i .. r : j \in s <=> \A k \in i + 1 .. j : text[k] \in Class
  OBVIOUS
<1>4. RunEnd(text, i, r, Class) = e
  BY DEF RunEnd
<1> HIDE DEF s
<1>5. e \in s /\ \A j \in s : j <= e
  <2>1. s # {}
    BY <1>1
  <2> QED BY <1>2, <2>1, MaxBetween
<1>6. e \in i .. r
  BY <1>2, <1>5
<1> HIDE DEF e
<1>7. ASSUME e # r, text[e + 1] \in Class PROVE FALSE
  <2>1. e + 1 \in i .. r /\ ~(e + 1 <= e) /\ \A k \in i + 1 .. e + 1 : k = e + 1 \/ k \in i + 1 .. e
    BY <1>6, <1>7
  <2>2. \A k \in i + 1 .. e : text[k] \in Class
    BY <1>3, <1>5, <1>6
  <2>3. \A k \in i + 1 .. e + 1 : text[k] \in Class
    BY <1>7, <2>1, <2>2
  <2>4. e + 1 \in s
    BY <1>3, <2>1, <2>3
  <2> QED BY <1>5, <2>1, <2>4
<1> QED BY <1>4, <1>6, <1>7

\* What KeepsAsciiTogether says of a word.
Together(text, w, r) ==
  \/ w[2] = r
  \/ text[w[2]] \notin Letter \cup Digit
  \/ text[w[2] + 1] \notin Letter \cup Digit
  \/ text[w[2] + 1] \in Letter /\ text[w[1]] \in Digit

LEMMA AsciiPieceIs ==
  ASSUME NEW text, NEW i \in Int, NEW r \in Int, i <= r
  PROVE  AsciiEnd(text, i, r) \in i .. r /\ Together(text, <<i, AsciiEnd(text, i, r)>>, r)
<1> DEFINE e == AsciiEnd(text, i, r)
           w == <<i, e>>
<1>1. w[1] = i /\ w[2] = e
  OBVIOUS
<1>2. CASE text[i] \in Letter
  <2> DEFINE Class == Letter \cup Digit
  <2>1. e = RunEnd(text, i, r, Class)
    BY <1>2, SegmenterAssumption DEF AsciiEnd
  <2> HIDE DEF Class
  <2>2. e \in i .. r /\ (e # r => text[e + 1] \notin Class)
    BY <2>1, RunEndIs
  <2> HIDE DEF e, w
  <2>3. Together(text, w, r)
    BY <1>1, <2>2 DEF Together, Class
  <2> QED BY <2>2, <2>3 DEF e, w
<1>3. CASE text[i] \notin Letter /\ text[i] \in Digit
  <2> DEFINE Class == Digit \cup {Dot}
  <2>1. e = RunEnd(text, i, r, Class)
    BY <1>3 DEF AsciiEnd
  <2> HIDE DEF Class
  <2>2. e \in i .. r /\ (e # r => text[e + 1] \notin Class)
    BY <2>1, RunEndIs
  <2> HIDE DEF e, w
  <2>3. Together(text, w, r)
    BY <1>1, <1>3, <2>2 DEF Together, Class
  <2> QED BY <2>2, <2>3 DEF e, w
<1>4. CASE text[i] \notin Letter /\ text[i] \notin Digit
  <2>1. e = i
    BY <1>4 DEF AsciiEnd
  <2>2. i \in i .. r
    OBVIOUS
  <2> HIDE DEF e, w
  <2>3. Together(text, w, r)
    BY <1>1, <1>4, <2>1 DEF Together
  <2> QED BY <2>1, <2>2, <2>3 DEF e, w
<1> QED BY <1>2, <1>3, <1>4

\* A piece is a word of ASCII characters or a stretch without any.
IsPiece(text, p, i, r) ==
  \E e \in i .. r :
    /\ p = <<i, e>>
    /\ IF text[i] \in Ascii THEN Together(text, p, r)
       ELSE \A k \in i .. e : text[k] \notin Ascii

LEMMA HMMPieceIs ==
  ASSUME NEW text, NEW i \in Int, NEW r \in Int, i <= r
  PROVE  IsPiece(text, HMMPiece(text, i, r), i, r)
<1>1. CASE text[i] \in Ascii
  <2>1. HMMPiece(text, i, r) = <<i, AsciiEnd(text, i, r)>>
    BY <1>1 DEF HMMPiece
  <2>2. AsciiEnd(text, i, r) \in i .. r /\ Together(text, <<i, AsciiEnd(text, i, r)>>, r)
    BY AsciiPieceIs
  <2> QED BY <1>1, <2>1, <2>2 DEF IsPiece
<1>2. CASE text[i] \notin Ascii
  <2> DEFINE s == {j \in i .. r : \A k \in i .. j : text[k] \notin Ascii}
  <2>1. HMMPiece(text, i, r) = <<i, Max(s)>>
    BY <1>2 DEF HMMPiece
  <2>2. i \in s
    BY <1>2
  <2>3. s \in SUBSET (i .. r) /\ \A j \in s : \A k \in i .. j : text[k] \notin Ascii
    OBVIOUS
  <2> HIDE DEF s
  <2>4. Max(s) \in s
    BY <2>2, <2>3, MaxBetween
  <2> QED BY <1>2, <2>1, <2>3, <2>4 DEF IsPiece
<1> QED BY <1>1, <1>2

\* The words of a stretch that the model and the rules cut.
LEMMA HMMCutIs ==
  ASSUME NEW text, NEW l \in Int, NEW r \in Int, l <= r
  PROVE  /\ Tile(HMMCut(text, l, r), l, r)
         /\ \A w \in Range(HMMCut(text, l, r)) : Together(text, w, r)
<1> DEFINE piece == [i \in l .. r |-> HMMPiece(text, i, r)]
           s == Chain(piece, l, r)
           f == [k \in DOMAIN s |-> IF text[s[k][1]] \in Ascii THEN <<s[k]>>
                                    ELSE InternalCut(text, s[k][1], s[k][2])]
           n == Len(s)
<1>1. HMMCut(text, l, r) = FlattenSeq(f)
  BY DEF HMMCut, FlatMap
<1>2. \A i \in l .. r : piece[i] = HMMPiece(text, i, r) /\ IsPiece(text, piece[i], i, r)
  BY HMMPieceIs
<1> HIDE DEF piece
<1>3. ArePieces(piece, l, r)
  BY <1>2 DEF ArePieces, IsPiece
<1>4. l <= r + 1
  OBVIOUS
<1>5. Tile(s, l, r)
  BY <1>3, <1>4, ChainTiles
<1>6. \A p \in Range(s) : \E i \in l .. r : p = piece[i]
  BY <1>3, <1>4, ChainHasPieces
<1> HIDE DEF s
<1>7. s \in Seq(Int \X Int) /\ n \in Nat /\ DOMAIN s = 1 .. n
  BY <1>5 DEF Tile
<1>8. PICK b : IsBounds(b, s, l, r)
  BY <1>5, TileHasBounds
<1> HIDE DEF n
<1>9. /\ b \in [0 .. n -> Int] /\ b[0] = l /\ b[n] = r + 1
      /\ \A k \in 1 .. n : s[k] = <<b[k - 1], b[k] - 1>> /\ b[k - 1] < b[k]
  BY <1>8 DEF IsBounds, n
<1>10. ASSUME NEW k \in 1 .. n
       PROVE  /\ Tile(f[k], b[k - 1], b[k] - 1)
              /\ f[k] \in Seq(Int \X Int)
              /\ \A w \in Range(f[k]) : Together(text, w, r)
  <2> DEFINE x == b[k - 1]
             y == b[k] - 1
  <2>1. x \in Int /\ y \in Int /\ x <= y /\ s[k] = <<x, y>> /\ s[k][1] = x /\ s[k][2] = y
    <3>1. k \in 0 .. n /\ k - 1 \in 0 .. n
      BY <1>7
    <3> QED BY <1>9, <3>1
  <2>2. f[k] = IF text[x] \in Ascii THEN <<s[k]>> ELSE InternalCut(text, x, y)
    BY <1>7, <2>1
  <2>3. PICK i \in l .. r : s[k] = piece[i]
    <3>1. s[k] \in Range(s)
      BY <1>7 DEF Range
    <3> QED BY <1>6, <3>1
  <2>4. PICK e \in i .. r : /\ s[k] = <<i, e>>
                            /\ IF text[i] \in Ascii THEN Together(text, s[k], r)
                               ELSE \A j \in i .. e : text[j] \notin Ascii
    BY <1>2, <2>3 DEF IsPiece
  <2>5. i = x /\ e = y
    BY <2>1, <2>4
  <2> HIDE DEF f, x, y
  <2>6. CASE text[x] \in Ascii
    <3>1. f[k] = <<<<x, y>>>>
      BY <2>1, <2>2, <2>6
    <3>2. Tile(f[k], x, y)
      BY <2>1, <3>1, OneTile
    <3>3. \A w \in Range(f[k]) : w = s[k]
      BY <2>1, <3>1 DEF Range
    <3>4. \A w \in Range(f[k]) : Together(text, w, r)
      BY <2>4, <2>5, <2>6, <3>3
    <3> QED BY <3>2, <3>4 DEF x, y, Tile
  <2>7. CASE text[x] \notin Ascii
    <3>1. f[k] = InternalCut(text, x, y)
      BY <2>2, <2>7
    <3>2. Tile(f[k], x, y)
      BY <2>1, <3>1, InternalCutTiles
    <3>3. LieIn(f[k], x, y)
      BY <2>1, <3>2, TileLies
    <3>4. ASSUME NEW w \in Range(f[k]) PROVE Together(text, w, r)
      <4>1. PICK j \in 1 .. Len(f[k]) : w = f[k][j]
        BY <3>3 DEF LieIn, Range
      <4>2. w \in Int \X Int /\ x <= w[1] /\ w[1] <= w[2] /\ w[2] <= y
        BY <3>3, <4>1 DEF LieIn
      <4>3. w[2] \in x .. y
        BY <2>1, <4>2
      <4>4. text[w[2]] \notin Ascii
        BY <2>4, <2>5, <2>7, <4>3
      <4> QED BY <4>4, SegmenterAssumption DEF Together
    <3> QED BY <3>2, <3>4 DEF x, y, Tile
  <2> QED BY <2>6, <2>7
<1>11. AreTiles(f, b, n)
  <2>1. f \in [1 .. n -> Seq(Int \X Int)]
    BY <1>7, <1>10
  <2> HIDE DEF f
  <2> QED BY <1>9, <1>10, <2>1 DEF AreTiles
<1> HIDE DEF f
<1>12. Tile(FlattenSeq(f), l, r)
  <2>1. Tile(FlattenSeq(f), b[0], b[n] - 1)
    BY <1>7, <1>11, FlattenTiles
  <2>2. b[n] - 1 = r
    BY <1>9
  <2> QED BY <1>9, <2>1, <2>2
<1>13. \A w \in Range(FlattenSeq(f)) : Together(text, w, r)
  <2>1. f \in [1 .. n -> Seq(Int \X Int)]
    BY <1>11 DEF AreTiles
  <2>2. IsUnion(FlattenSeq(f), f, n, Int \X Int)
    BY <1>7, <2>1, FlattenRange
  <2> QED BY <1>10, <2>2 DEF IsUnion
<1> QED BY <1>1, <1>12, <1>13

\* The words are taken one by one, or several single characters together.
IsGroup(text, words, g, i) ==
  \E j \in i .. Len(words) : g = <<i, j>> /\ (~IsLeftOver(text, words[i]) => i = j)

LEMMA RegroupIs ==
  ASSUME NEW text, NEW words, Len(words) \in Nat, DOMAIN words = 1 .. Len(words)
  PROVE  /\ Tile(Regroup(text, words), 1, Len(words))
         /\ \A g \in Range(Regroup(text, words)) :
              \E i \in 1 .. Len(words) : IsGroup(text, words, g, i)
<1> DEFINE n == Len(words)
           piece == [i \in DOMAIN words |->
                      <<i, IF IsLeftOver(text, words[i]) THEN LeftOvers(text, words, i) ELSE i>>]
<1>1. Regroup(text, words) = Chain(piece, 1, n)
  BY DEF Regroup
<1>2. ASSUME NEW i \in 1 .. n PROVE IsGroup(text, words, piece[i], i)
  <2>1. i \in i .. n /\ i \in Int /\ n \in Int
    OBVIOUS
  <2>2. CASE IsLeftOver(text, words[i])
    <3> DEFINE s == {j \in i .. n : \A k \in i .. j : IsLeftOver(text, words[k])}
    <3>1. i \in s
      <4>1. \A k \in i .. i : k = i
        OBVIOUS
      <4> QED BY <2>1, <2>2, <4>1
    <3>2. s \in SUBSET (i .. n)
      OBVIOUS
    <3>3. LeftOvers(text, words, i) = Max(s)
      BY DEF LeftOvers
    <3> HIDE DEF s
    <3>4. Max(s) \in s
      BY <2>1, <3>1, <3>2, MaxBetween
    <3>5. LeftOvers(text, words, i) \in i .. n
      BY <3>2, <3>3, <3>4
    <3>6. piece[i] = <<i, LeftOvers(text, words, i)>>
      BY <2>2
    <3> HIDE DEF piece
    <3> QED BY <2>2, <3>5, <3>6 DEF IsGroup
  <2>3. CASE ~IsLeftOver(text, words[i])
    <3>1. piece[i] = <<i, i>>
      BY <2>3
    <3> HIDE DEF piece
    <3> QED BY <2>1, <2>3, <3>1 DEF IsGroup
  <2> QED BY <2>2, <2>3
<1> HIDE DEF piece
<1>3. ArePieces(piece, 1, n)
  BY <1>2 DEF ArePieces, IsGroup
<1>4. 1 \in Int /\ n \in Int /\ 1 <= n + 1
  OBVIOUS
<1>5. Tile(Chain(piece, 1, n), 1, n)
  BY <1>3, <1>4, ChainTiles
<1>6. \A g \in Range(Chain(piece, 1, n)) : \E i \in 1 .. n : g = piece[i]
  BY <1>3, <1>4, ChainHasPieces
<1>7. \A g \in Range(Chain(piece, 1, n)) : \E i \in 1 .. n : IsGroup(text, words, g, i)
  BY <1>2, <1>6
<1> QED BY <1>1, <1>5, <1>7

\* What the dictionary leaves over is cut again, and no character is lost.
LEMMA CutLeftOversTiles ==
  ASSUME NEW text, NEW words, NEW l \in Int, NEW r \in Int, Tile(words, l, r)
  PROVE  Tile(CutLeftOvers(text, words), l, r)
<1> DEFINE m == Len(words)
           s == Regroup(text, words)
           n == Len(s)
           f == [k \in DOMAIN s |-> IF IsLeftOver(text, words[s[k][1]])
                                    THEN HMMCut(text, words[s[k][1]][1], words[s[k][2]][2])
                                    ELSE <<words[s[k][1]]>>]
<1>1. CutLeftOvers(text, words) = FlattenSeq(f)
  BY DEF CutLeftOvers, FlatMap
<1>2. words \in Seq(Int \X Int) /\ m \in Nat /\ DOMAIN words = 1 .. m
  BY DEF Tile
<1>3. /\ Tile(s, 1, m)
      /\ \A g \in Range(s) : \E i \in 1 .. m : IsGroup(text, words, g, i)
  BY <1>2, RegroupIs
<1>4. PICK c : IsBounds(c, words, l, r)
  BY TileHasBounds
<1>5. PICK d : IsBounds(d, s, 1, m)
  <2>1. 1 \in Int /\ m \in Int
    BY <1>2
  <2> QED BY <1>3, <2>1, TileHasBounds
<1> HIDE DEF s
<1>6. s \in Seq(Int \X Int) /\ n \in Nat /\ DOMAIN s = 1 .. n
  BY <1>3 DEF Tile
<1> HIDE DEF m, n
<1>7. /\ c \in [0 .. m -> Int] /\ c[0] = l /\ c[m] = r + 1
      /\ \A k \in 1 .. m : words[k] = <<c[k - 1], c[k] - 1>> /\ c[k - 1] < c[k]
  BY <1>4 DEF IsBounds, m
<1>8. /\ d \in [0 .. n -> Int] /\ d[0] = 1 /\ d[n] = m + 1
      /\ \A k \in 1 .. n : s[k] = <<d[k - 1], d[k] - 1>> /\ d[k - 1] < d[k]
  BY <1>5 DEF IsBounds, n
<1>9. ASSUME NEW k \in 1 .. n
      PROVE  /\ d[k - 1] \in 1 .. m /\ d[k] - 1 \in d[k - 1] .. m
             /\ ~IsLeftOver(text, words[d[k - 1]]) => d[k] - 1 = d[k - 1]
  <2>1. s[k] \in Range(s)
    BY <1>6 DEF Range
  <2>2. PICK i \in 1 .. m : IsGroup(text, words, s[k], i)
    BY <1>3, <2>1
  <2>3. PICK j \in i .. m : s[k] = <<i, j>> /\ (~IsLeftOver(text, words[i]) => i = j)
    BY <2>2 DEF IsGroup, m
  <2>4. d[k - 1] = i /\ d[k] - 1 = j
    BY <1>8, <2>3
  <2> QED BY <2>3, <2>4
<1> DEFINE b == [k \in 0 .. n |-> c[d[k] - 1]]
<1>10. \A k \in 0 .. n : d[k] \in Int /\ d[k] - 1 \in 0 .. m
  <2> SUFFICES ASSUME NEW k \in 0 .. n PROVE d[k] \in Int /\ d[k] - 1 \in 0 .. m
    OBVIOUS
  <2>1. d[k] \in Int
    BY <1>8
  <2>2. CASE k = 0
    BY <1>2, <1>8, <2>2
  <2>3. CASE k # 0
    <3>1. k \in 1 .. n
      BY <1>6, <2>3
    <3>2. d[k - 1] \in 1 .. m /\ d[k] - 1 \in d[k - 1] .. m
      BY <1>9, <3>1
    <3> QED BY <1>2, <2>1, <3>2
  <2> QED BY <2>1, <2>2, <2>3
<1>11. /\ \A k \in 0 .. n : b[k] = c[d[k] - 1]
       /\ b \in [0 .. n -> Int] /\ b[0] = l /\ b[n] = r + 1
  <2>1. b \in [0 .. n -> Int] /\ \A k \in 0 .. n : b[k] = c[d[k] - 1]
    BY <1>7, <1>10
  <2>2. 0 \in 0 .. n /\ n \in 0 .. n
    BY <1>6
  <2>3. d[0] - 1 = 0 /\ d[n] - 1 = m
    BY <1>2, <1>8
  <2> HIDE DEF b
  <2> QED BY <1>7, <2>1, <2>2, <2>3
<1> HIDE DEF b
<1>12. ASSUME NEW k \in 1 .. n
       PROVE  Tile(f[k], b[k - 1], b[k] - 1) /\ f[k] \in Seq(Int \X Int)
  <2> DEFINE i == d[k - 1]
             j == d[k] - 1
  <2>1. i \in 1 .. m /\ j \in i .. m /\ (~IsLeftOver(text, words[i]) => j = i)
    BY <1>9
  <2>2. s[k] = <<i, j>> /\ s[k][1] = i /\ s[k][2] = j
    BY <1>8
  <2>3. k \in 0 .. n /\ k - 1 \in 0 .. n
    BY <1>6
  <2>4. b[k - 1] = c[i - 1] /\ b[k] = c[j]
    BY <1>11, <2>3
  <2>5. f[k] = IF IsLeftOver(text, words[i]) THEN HMMCut(text, words[i][1], words[j][2])
               ELSE <<words[i]>>
    BY <1>6, <2>2
  <2> HIDE DEF f, i, j
  <2>6. j \in 1 .. m
    BY <2>1
  <2>7. /\ words[i] = <<c[i - 1], c[i] - 1>> /\ words[j] = <<c[j - 1], c[j] - 1>>
        /\ c[i - 1] < c[i] /\ c[j - 1] < c[j]
    BY <1>7, <2>1, <2>6
  <2>8. c[i - 1] \in Int /\ c[j] \in Int /\ c[i] \in Int
    <3>1. i - 1 \in 0 .. m /\ i \in 0 .. m /\ j \in 0 .. m
      BY <1>2, <2>1, <2>6
    <3> QED BY <1>7, <3>1
  <2>9. c[i - 1] <= c[j] - 1
    <3>1. LieIn(words, l, r)
      BY TileLies
    <3>2. i = j \/ i < j
      BY <2>1
    <3>3. i < j => words[i][2] < words[j][1]
      BY <2>1, <2>6, <3>1 DEF LieIn, m
    <3>4. i < j => c[i] - 1 < c[j - 1]
      BY <2>7, <3>3
    <3>5. c[j - 1] \in Int
      <4>1. j - 1 \in 0 .. m
        BY <1>2, <2>6
      <4> QED BY <1>7, <4>1
    <3> QED BY <2>7, <2>8, <3>2, <3>4, <3>5
  <2>10. CASE IsLeftOver(text, words[i])
    <3>1. f[k] = HMMCut(text, c[i - 1], c[j] - 1)
      BY <2>5, <2>7, <2>10
    <3>2. c[j] - 1 \in Int
      BY <2>8
    <3>3. Tile(f[k], c[i - 1], c[j] - 1)
      BY <2>8, <2>9, <3>1, <3>2, HMMCutIs
    <3> QED BY <2>4, <3>3 DEF Tile
  <2>11. CASE ~IsLeftOver(text, words[i])
    <3>1. f[k] = <<<<c[i - 1], c[j] - 1>>>>
      BY <2>1, <2>5, <2>7, <2>11
    <3>2. c[j] - 1 \in Int
      BY <2>8
    <3>3. Tile(f[k], c[i - 1], c[j] - 1)
      BY <2>8, <2>9, <3>1, <3>2, OneTile
    <3> QED BY <2>4, <3>3 DEF Tile
  <2> QED BY <2>10, <2>11
<1>13. AreTiles(f, b, n)
  <2>1. f \in [1 .. n -> Seq(Int \X Int)]
    BY <1>6, <1>12
  <2> HIDE DEF f
  <2> QED BY <1>11, <1>12, <2>1 DEF AreTiles
<1> HIDE DEF f
<1>14. Tile(FlattenSeq(f), b[0], b[n] - 1)
  BY <1>6, <1>13, FlattenTiles
<1>15. b[n] - 1 = r
  BY <1>11
<1> QED BY <1>1, <1>11, <1>14, <1>15

\* The words of a range, the dictionary's and the model's.
LEMMA MixCutTiles ==
  ASSUME WordsWeigh, NEW text, NEW l \in Int, NEW r \in Int, l <= r, Knows(text, l, r)
  PROVE  Tile(MixCut(text, l, r), l, r)
<1> DEFINE m == MaxWordLength
           B == CalcDP(text, l, r, m)
           N(i) == NextsIn(text, r, i, m)
           piece == [i \in l .. r |-> <<i, B[i].end>>]
<1>1. MPCut(text, l, r, m) = Chain(piece, l, r)
  BY DEF MPCut
<1>2. \A i \in l .. r : N(i) = {j \in i .. r : i = j \/ IsKnown(SubSeq(text, i, j))}
  BY DEF Knows
<1>3. \A i \in l .. r : \A j \in i .. r : WeightOf(text, i, j) \in Int
  BY DEF Knows, WordsWeigh
<1> HIDE DEF m, N
<1>4. LeadOn(text, l, r, m)
  <2>1. \A i \in l .. r : i \in i .. r
    OBVIOUS
  <2>2. \A i \in l .. r : N(i) \in SUBSET (i .. r) /\ i \in N(i)
    BY <1>2, <2>1
  <2> QED BY <1>3, <2>2 DEF LeadOn, N
<1>5. AreBest(B, text, l, r, m)
  BY <1>4, CalcDPIs
<1> HIDE DEF B
<1>6. \A i \in l .. r : B[i].end \in i .. r
  BY <1>2, <1>5 DEF AreBest, N
<1>7. ArePieces(piece, l, r)
  BY <1>6 DEF ArePieces
<1> HIDE DEF piece
<1>8. l <= r + 1
  OBVIOUS
<1>9. Tile(MPCut(text, l, r, m), l, r)
  BY <1>1, <1>7, <1>8, ChainTiles
<1>10. Tile(CutLeftOvers(text, MPCut(text, l, r, m)), l, r)
  BY <1>9, CutLeftOversTiles
<1> QED BY <1>10 DEF MixCut, m

-----------------------------------------------------------------------------
(* The words inside words, and all words of a text.                        *)

\* The trie knows the words of the dictionaries.
TrieKnows == \A word : Find(Loaded.trie, word) <=> IsKnown(word)

LEMMA TrieFinds ==
  ASSUME NEW C, Dictionaries(C)
  PROVE  TrieKnows
<1>1. \A word : word \in DOMAIN Loaded.trie.unit <=> IsKnown(word)
  BY TrieWeighs
<1> QED BY <1>1 DEF TrieKnows, Find, IsKnown

\* The words n long that lie in a word and are known, if it is longer.
IsGram(text, word, n, w) ==
  \E i \in word[1] .. word[2] - n + 1 :
    /\ w = <<i, i + n - 1>>
    /\ IsKnown(SubSeq(text, i, i + n - 1))
    /\ Length(word) > n

AreGrams(s, text, word, n) ==
  /\ s \in Seq(Int \X Int) /\ Once(s)
  /\ \A w : w \in Range(s) <=> IsGram(text, word, n, w)

LEMMA GramsAre ==
  ASSUME TrieKnows, NEW text, NEW word \in Int \X Int, NEW n \in Nat
  PROVE  AreGrams(Grams(text, word, n), text, word, n)
<1> DEFINE l == word[1]
           r == word[2] - n + 1
           b == Between(l, r)
           m == r - l + 1
           At(i) == <<i, i + n - 1>>
           Known(i) == IsKnown(SubSeq(text, i, i + n - 1))
           f == [k \in DOMAIN b |-> IF Find(Loaded.trie, SubSeq(text, b[k], b[k] + n - 1))
                                    THEN <<<<b[k], b[k] + n - 1>>>> ELSE << >>]
<1>1. l \in Int /\ r \in Int /\ Length(word) = r - l + n /\ Length(word) \in Int
  BY DEF Length
<1>2. CASE Length(word) <= n
  <2>1. Grams(text, word, n) = << >>
    BY <1>2 DEF Grams
  <2>2. \A w : ~IsGram(text, word, n, w)
    BY <1>1, <1>2 DEF IsGram
  <2>3. << >> \in Seq(Int \X Int) /\ Len(<< >>) = 0 /\ 1 .. 0 = {} /\ DOMAIN << >> = {}
    OBVIOUS
  <2> QED BY <2>1, <2>2, <2>3 DEF AreGrams, Once, Range
<1>3. CASE Length(word) > n
  <2>1. WordsFrom(text, l, r, n) = FlattenSeq(f)
    BY DEF WordsFrom, FlatMap
  <2>2. Grams(text, word, n) = FlattenSeq(f)
    BY <1>1, <1>3, <2>1 DEF Grams
  <2>3. m \in Nat /\ \A k \in 1 .. m : l + (k - 1) \in l .. r
    BY <1>1, <1>3
  <2>4. DOMAIN b = 1 .. m /\ \A k \in 1 .. m : b[k] = l + (k - 1)
    BY <2>3, <1>1 DEF Between
  <2>5. \A i \in l .. r : i - l + 1 \in 1 .. m /\ l + ((i - l + 1) - 1) = i
    BY <1>1
  <2> HIDE DEF b, m
  <2>6. \A k \in 1 .. m : f[k] = IF Known(l + (k - 1)) THEN <<At(l + (k - 1))>> ELSE << >>
    BY <2>4 DEF TrieKnows
  <2>7. DOMAIN f = 1 .. m
    BY <2>4
  <2> HIDE DEF f
  <2>8. \A i \in l .. r : At(i) \in Int \X Int /\ At(i)[1] = i
    BY <1>1
  <2> HIDE DEF At, Known, l, r
  <2>9. ASSUME NEW k \in 1 .. m
        PROVE  /\ f[k] \in Seq(Int \X Int) /\ Once(f[k])
               /\ \A w : w \in Range(f[k]) <=> Known(l + (k - 1)) /\ w = At(l + (k - 1))
    <3> DEFINE i == l + (k - 1)
    <3>1. i \in l .. r /\ f[k] = IF Known(i) THEN <<At(i)>> ELSE << >>
      BY <2>3, <2>6
    <3>2. At(i) \in Int \X Int
      BY <2>8, <3>1
    <3> HIDE DEF i
    <3>3. CASE Known(i)
      <4> DEFINE s == <<At(i)>>
      <4>1. s \in Seq(Int \X Int) /\ Len(s) = 1 /\ DOMAIN s = 1 .. 1 /\ s[1] = At(i)
        BY <3>2
      <4> HIDE DEF s
      <4>2. \A k1 \in 1 .. 1 : k1 = 1
        OBVIOUS
      <4>3. Once(s) /\ \A w : w \in Range(s) <=> w = At(i)
        BY <4>1, <4>2 DEF Once, Range
      <4>4. f[k] = s
        BY <3>1, <3>3 DEF s
      <4> QED BY <3>3, <4>1, <4>3, <4>4 DEF i
    <3>4. CASE ~Known(i)
      <4>1. << >> \in Seq(Int \X Int) /\ Len(<< >>) = 0 /\ 1 .. 0 = {} /\ DOMAIN << >> = {}
        OBVIOUS
      <4>2. Once(<< >>) /\ \A w : w \notin Range(<< >>)
        BY <4>1 DEF Once, Range
      <4>3. f[k] = << >>
        BY <3>1, <3>4
      <4> QED BY <3>4, <4>1, <4>2, <4>3 DEF i
    <3> QED BY <3>3, <3>4
  <2>10. f \in [1 .. m -> Seq(Int \X Int)]
    <3>1. f = [k \in 1 .. m |-> f[k]]
      BY <2>7 DEF f
    <3> QED BY <2>9, <3>1
  <2>11. IsUnion(FlattenSeq(f), f, m, Int \X Int)
    BY <2>3, <2>10, FlattenRange
  <2>12. Differ(f, m)
    <3>1. \A j, k \in 1 .. m : j < k => At(l + (j - 1)) # At(l + (k - 1))
      <4> SUFFICES ASSUME NEW j \in 1 .. m, NEW k \in 1 .. m, j < k
                   PROVE  At(l + (j - 1)) # At(l + (k - 1))
        OBVIOUS
      <4>1. At(l + (j - 1))[1] = l + (j - 1) /\ At(l + (k - 1))[1] = l + (k - 1)
        BY <2>3, <2>8
      <4>2. l + (j - 1) # l + (k - 1)
        BY <1>1, <2>3
      <4> QED BY <4>1, <4>2
    <3>2. ASSUME NEW j \in 1 .. m, NEW k \in 1 .. m, j < k,
                 NEW w, w \in Range(f[j]), w \in Range(f[k])
          PROVE  FALSE
      <4>1. w = At(l + (j - 1)) /\ w = At(l + (k - 1))
        BY <2>9, <3>2
      <4> QED BY <3>1, <3>2, <4>1
    <3>3. \A k \in 1 .. m : Once(f[k])
      BY <2>9
    <3> HIDE DEF At
    <3> QED BY <3>2, <3>3 DEF Differ
  <2>13. Once(FlattenSeq(f))
    BY <2>3, <2>10, <2>12, FlattenOnce
  <2>14. \A w : w \in Range(FlattenSeq(f)) <=> \E i \in l .. r : Known(i) /\ w = At(i)
    <3>1. \A w : w \in Range(FlattenSeq(f)) <=> \E k \in 1 .. m : w \in Range(f[k])
      BY <2>11 DEF IsUnion
    <3>2. \A w : (\E k \in 1 .. m : w \in Range(f[k])) => \E i \in l .. r : Known(i) /\ w = At(i)
      BY <2>3, <2>9
    <3>3. ASSUME NEW i \in l .. r, Known(i) PROVE \E k \in 1 .. m : At(i) \in Range(f[k])
      <4> DEFINE p == i - l + 1
      <4>1. p \in 1 .. m /\ l + (p - 1) = i
        BY <2>5
      <4> HIDE DEF p
      <4>2. At(i) \in Range(f[p])
        BY <2>9, <3>3, <4>1
      <4> QED BY <4>1, <4>2
    <3> QED BY <3>1, <3>2, <3>3
  <2>15. \A w : w \in Range(FlattenSeq(f)) <=> IsGram(text, word, n, w)
    BY <1>3, <2>14 DEF IsGram, At, Known, l, r
  <2> QED BY <2>2, <2>11, <2>13, <2>15 DEF AreGrams, IsUnion
<1> QED BY <1>1, <1>2, <1>3

\* A word brings itself and the known words of two and three characters inside it.
IsOf(text, word, w) ==
  w = word \/ IsGram(text, word, 2, w) \/ IsGram(text, word, 3, w)

LEMMA WhatIsOfLies ==
  ASSUME NEW text, NEW word \in Int \X Int, word[1] <= word[2], NEW w, IsOf(text, word, w)
  PROVE  w \in Int \X Int /\ word[1] <= w[1] /\ w[1] <= w[2] /\ w[2] <= word[2]
<1>1. ASSUME NEW n \in {2, 3}, IsGram(text, word, n, w)
      PROVE  w \in Int \X Int /\ word[1] <= w[1] /\ w[1] <= w[2] /\ w[2] <= word[2]
  <2>1. PICK i \in word[1] .. word[2] - n + 1 : w = <<i, i + n - 1>>
    BY <1>1 DEF IsGram
  <2>2. w[1] = i /\ w[2] = i + n - 1 /\ n \in Int /\ n >= 2
    BY <2>1
  <2>3. w \in Int \X Int
    BY <2>1, <2>2
  <2> QED BY <2>2, <2>3
<1> QED BY <1>1 DEF IsOf

\* A gram has its length, and the word around it another.
LEMMA GramsLength ==
  ASSUME NEW text, NEW word \in Int \X Int, NEW n \in {2, 3}, NEW w, IsGram(text, word, n, w)
  PROVE  Length(w) = n /\ w # word
<1>1. PICK i \in word[1] .. word[2] - n + 1 : w = <<i, i + n - 1>> /\ Length(word) > n
  BY DEF IsGram
<1>2. w[1] = i /\ w[2] = i + n - 1 /\ i \in Int /\ n \in Int
  BY <1>1
<1>3. Length(w) = n
  BY <1>2 DEF Length
<1> QED BY <1>1, <1>3

AreOf(s, text, word) ==
  /\ s \in Seq(Int \X Int) /\ Once(s)
  /\ \A w : w \in Range(s) <=> IsOf(text, word, w)

LEMMA OfWord ==
  ASSUME TrieKnows, NEW text, NEW word \in Int \X Int
  PROVE  AreOf(Grams(text, word, 2) \o Grams(text, word, 3) \o <<word>>, text, word)
<1> DEFINE a == Grams(text, word, 2)
           b == Grams(text, word, 3)
           c == <<word>>
           A == Int \X Int
<1>1. AreGrams(a, text, word, 2) /\ AreGrams(b, text, word, 3)
  BY GramsAre
<1>2. c \in Seq(A) /\ Once(c) /\ \A w : w \in Range(c) <=> w = word
  <2>1. c \in Seq(A) /\ Len(c) = 1 /\ DOMAIN c = 1 .. 1 /\ c[1] = word
    OBVIOUS
  <2> HIDE DEF c
  <2>2. \A k \in 1 .. 1 : k = 1
    OBVIOUS
  <2> QED BY <2>1, <2>2 DEF Once, Range
<1> HIDE DEF a, b, c
<1>3. /\ a \in Seq(A) /\ Once(a) /\ \A w : w \in Range(a) <=> IsGram(text, word, 2, w)
      /\ b \in Seq(A) /\ Once(b) /\ \A w : w \in Range(b) <=> IsGram(text, word, 3, w)
  BY <1>1 DEF AreGrams
<1> HIDE DEF A
<1>4. /\ \A w : IsGram(text, word, 2, w) => Length(w) = 2 /\ w # word
      /\ \A w : IsGram(text, word, 3, w) => Length(w) = 3 /\ w # word
  BY GramsLength
<1>5. \A w : w \in Range(a) => w \notin Range(b)
  BY <1>3, <1>4
<1>6. a \o b \in Seq(A) /\ \A w : w \in Range(a \o b) <=> w \in Range(a) \/ w \in Range(b)
  BY <1>3, JoinedRange
<1>7. Once(a \o b)
  BY <1>3, <1>5, JoinedOnce
<1> DEFINE d == a \o b
<1>8. d \in Seq(A) /\ Once(d) /\ \A w : w \in Range(d) <=> w \in Range(a) \/ w \in Range(b)
  BY <1>6, <1>7
<1>9. a \o b \o c = d \o c
  OBVIOUS
<1> HIDE DEF d
<1>10. \A w : w \in Range(d) => w \notin Range(c)
  BY <1>2, <1>3, <1>4, <1>8
<1>11. d \o c \in Seq(A) /\ \A w : w \in Range(d \o c) <=> w \in Range(d) \/ w \in Range(c)
  BY <1>2, <1>8, JoinedRange
<1>12. Once(d \o c)
  BY <1>2, <1>8, <1>10, JoinedOnce
<1>13. \A w : w \in Range(d \o c) <=> IsOf(text, word, w)
  BY <1>2, <1>3, <1>8, <1>11 DEF IsOf
<1>14. AreOf(d \o c, text, word)
  BY <1>11, <1>12, <1>13 DEF AreOf, A
<1> QED BY <1>9, <1>14 DEF a, b, c

\* What all words between two positions bring.
AreOfAll(s, text, words) ==
  /\ s \in Seq(Int \X Int) /\ Once(s)
  /\ \A w : w \in Range(s) <=> \E k \in 1 .. Len(words) : IsOf(text, words[k], w)

LEMMA QueryCutIs ==
  ASSUME TrieKnows, NEW text, NEW l \in Int, NEW r \in Int, Tile(MixCut(text, l, r), l, r)
  PROVE  AreOfAll(QueryCut(text, l, r), text, MixCut(text, l, r))
<1> DEFINE words == MixCut(text, l, r)
           n == Len(words)
           f == [k \in DOMAIN words |->
                   Grams(text, words[k], 2) \o Grams(text, words[k], 3) \o <<words[k]>>]
<1>1. QueryCut(text, l, r) = FlattenSeq(f)
  BY DEF QueryCut, FlatMap
<1>2. LieIn(words, l, r)
  BY TileLies
<1> HIDE DEF words
<1>3. /\ words \in Seq(Int \X Int) /\ n \in Nat /\ DOMAIN words = 1 .. n
      /\ \A k \in 1 .. n : words[k] \in Int \X Int
      /\ \A k \in 1 .. n : words[k][1] <= words[k][2]
      /\ \A j, k \in 1 .. n : j < k => words[j][2] < words[k][1]
  BY <1>2 DEF LieIn
<1>4. \A k \in 1 .. n : AreOf(f[k], text, words[k])
  BY <1>3, OfWord
<1>5. f = [k \in 1 .. n |-> f[k]]
  BY <1>3
<1> HIDE DEF f, n
<1>6. f \in [1 .. n -> Seq(Int \X Int)]
  BY <1>4, <1>5 DEF AreOf
<1>7. IsUnion(FlattenSeq(f), f, n, Int \X Int)
  BY <1>3, <1>6, FlattenRange
<1>8. Differ(f, n)
  <2>1. ASSUME NEW j \in 1 .. n, NEW k \in 1 .. n, j < k,
               NEW w, w \in Range(f[j]), w \in Range(f[k])
        PROVE  FALSE
    <3>1. IsOf(text, words[j], w) /\ IsOf(text, words[k], w)
      BY <1>4, <2>1 DEF AreOf
    <3>2. w \in Int \X Int /\ w[2] <= words[j][2]
      BY <1>3, <3>1, WhatIsOfLies
    <3>3. words[k][1] <= w[1] /\ w[1] <= w[2]
      BY <1>3, <3>1, WhatIsOfLies
    <3>4. words[j][2] < words[k][1] /\ words[j][2] \in Int /\ words[k][1] \in Int
      BY <1>3, <2>1
    <3>5. w[1] \in Int /\ w[2] \in Int
      BY <3>2
    <3> QED BY <3>2, <3>3, <3>4, <3>5
  <2>2. \A k \in 1 .. n : Once(f[k])
    BY <1>4 DEF AreOf
  <2> QED BY <2>1, <2>2 DEF Differ
<1>9. Once(FlattenSeq(f))
  BY <1>3, <1>6, <1>8, FlattenOnce
<1>10. \A w : w \in Range(FlattenSeq(f)) <=> \E k \in 1 .. n : IsOf(text, words[k], w)
  <2>1. \A w : w \in Range(FlattenSeq(f)) <=> \E k \in 1 .. n : w \in Range(f[k])
    BY <1>7 DEF IsUnion
  <2>2. \A k \in 1 .. n : \A w : w \in Range(f[k]) <=> IsOf(text, words[k], w)
    BY <1>4 DEF AreOf
  <2> QED BY <2>1, <2>2
<1>11. FlattenSeq(f) \in Seq(Int \X Int)
  BY <1>7 DEF IsUnion
<1> QED BY <1>1, <1>9, <1>10, <1>11 DEF AreOfAll, words, n

Whole(text) ==
  FlattenSeq([k \in DOMAIN Ranges(text) |-> MixCut(text, Ranges(text)[k][1], Ranges(text)[k][2])])

\* The ranges of a text lie side by side in it, and each is cut.
LEMMA RangesAreCut ==
  ASSUME NEW C, Dictionaries(C), NEW text \in Seq(C), Len(text) <= MaxWordLength
  PROVE  /\ Tile(Ranges(text), 1, Len(text))
         /\ \A k \in 1 .. Len(Ranges(text)) :
              Tile(MixCut(text, Ranges(text)[k][1], Ranges(text)[k][2]),
                   Ranges(text)[k][1], Ranges(text)[k][2])
<1> DEFINE L == Len(text)
           piece == [i \in DOMAIN text |-> NextRange(text, i)]
           s == Ranges(text)
<1>1. s = Chain(piece, 1, L)
  BY DEF Ranges
<1>2. ArePieces(piece, 1, L)
  BY RangesAre
<1>3. \A p \in Range(s) : \E l \in 1 .. L : \E r \in l .. L : p = <<l, r>>
  BY RangesAre
<1>4. 1 \in Int /\ L \in Int /\ 1 <= L + 1
  OBVIOUS
<1> HIDE DEF piece
<1>5. Tile(s, 1, L)
  BY <1>1, <1>2, <1>4, ChainTiles
<1> HIDE DEF s
<1>6. ASSUME NEW k \in 1 .. Len(s) PROVE Tile(MixCut(text, s[k][1], s[k][2]), s[k][1], s[k][2])
  <2>1. s[k] \in Range(s)
    BY <1>5 DEF Tile, Range
  <2>2. PICK l \in 1 .. L : \E r \in l .. L : s[k] = <<l, r>>
    BY <1>3, <2>1
  <2>3. PICK r \in l .. L : s[k] = <<l, r>>
    BY <2>2
  <2>4. s[k][1] = l /\ s[k][2] = r
    BY <2>3
  <2>5. l \in Int /\ r \in Int /\ l <= r
    OBVIOUS
  <2>6. Knows(text, l, r)
    BY TextIsKnown
  <2>7. WordsWeigh
    BY TrieWeighs
  <2>8. Tile(MixCut(text, l, r), l, r)
    BY <2>5, <2>6, <2>7, MixCutTiles
  <2> QED BY <2>4, <2>8
<1> QED BY <1>5, <1>6 DEF s

\* The words of all ranges together.
LEMMA WholeIs ==
  ASSUME NEW C, Dictionaries(C), NEW text \in Seq(C), Len(text) <= MaxWordLength
  PROVE  /\ Tile(Whole(text), 1, Len(text))
         /\ AreOfAll(CutForSearch(text), text, Whole(text))
<1> DEFINE L == Len(text)
           s == Ranges(text)
           n == Len(s)
           f == [k \in DOMAIN s |-> MixCut(text, s[k][1], s[k][2])]
           g == [k \in DOMAIN s |-> QueryCut(text, s[k][1], s[k][2])]
<1>1. CutForSearch(text) = FlattenSeq(g) /\ Whole(text) = FlattenSeq(f)
  BY DEF CutForSearch, Whole, FlatMap
<1>2. /\ Tile(s, 1, L)
      /\ \A k \in 1 .. n : Tile(MixCut(text, s[k][1], s[k][2]), s[k][1], s[k][2])
  BY RangesAreCut
<1>3. TrieKnows
  BY TrieFinds
<1> HIDE DEF s
<1>4. L \in Int /\ 1 \in Int
  OBVIOUS
<1>5. LieIn(s, 1, L)
  BY <1>2, <1>4, TileLies
<1>6. PICK b : IsBounds(b, s, 1, L)
  BY <1>2, <1>4, TileHasBounds
<1>7. /\ s \in Seq(Int \X Int) /\ n \in Nat /\ DOMAIN s = 1 .. n
      /\ \A k \in 1 .. n : s[k][1] \in Int /\ s[k][2] \in Int
      /\ \A j, k \in 1 .. n : j < k => s[j][2] < s[k][1]
  BY <1>5 DEF LieIn
<1> HIDE DEF n, L
<1>8. /\ b \in [0 .. n -> Int] /\ b[0] = 1 /\ b[n] = L + 1
      /\ \A k \in 1 .. n : s[k] = <<b[k - 1], b[k] - 1>>
  BY <1>6 DEF IsBounds, n
<1>9. \A k \in 1 .. n : f[k] = MixCut(text, s[k][1], s[k][2]) /\ g[k] = QueryCut(text, s[k][1], s[k][2])
  BY <1>7
<1>10. f = [k \in 1 .. n |-> f[k]] /\ g = [k \in 1 .. n |-> g[k]]
  BY <1>7
<1> HIDE DEF f, g
<1>11. \A k \in 1 .. n : /\ Tile(f[k], s[k][1], s[k][2])
                        /\ AreOfAll(g[k], text, f[k])
  <2> SUFFICES ASSUME NEW k \in 1 .. n
               PROVE  Tile(f[k], s[k][1], s[k][2]) /\ AreOfAll(g[k], text, f[k])
    OBVIOUS
  <2>1. s[k][1] \in Int /\ s[k][2] \in Int
    BY <1>7
  <2>2. Tile(MixCut(text, s[k][1], s[k][2]), s[k][1], s[k][2])
    BY <1>2
  <2>3. AreOfAll(QueryCut(text, s[k][1], s[k][2]), text, MixCut(text, s[k][1], s[k][2]))
    BY <1>3, <2>1, <2>2, QueryCutIs
  <2> QED BY <1>9, <2>2, <2>3
<1>12. f \in [1 .. n -> Seq(Int \X Int)] /\ g \in [1 .. n -> Seq(Int \X Int)]
  BY <1>10, <1>11 DEF Tile, AreOfAll
<1>13. Tile(FlattenSeq(f), 1, L)
  <2>1. \A k \in 1 .. n : s[k][1] = b[k - 1] /\ s[k][2] = b[k] - 1
    BY <1>8
  <2>2. AreTiles(f, b, n)
    BY <1>8, <1>11, <1>12, <2>1 DEF AreTiles
  <2>3. Tile(FlattenSeq(f), b[0], b[n] - 1)
    BY <1>7, <2>2, FlattenTiles
  <2>4. b[n] - 1 = L
    BY <1>4, <1>8
  <2> QED BY <1>8, <2>3, <2>4
<1>14. IsUnion(FlattenSeq(f), f, n, Int \X Int) /\ IsUnion(FlattenSeq(g), g, n, Int \X Int)
  BY <1>7, <1>12, FlattenRange
<1>15. ASSUME NEW k \in 1 .. n, NEW w
       PROVE  w \in Range(g[k]) <=> \E word \in Range(f[k]) : IsOf(text, word, w)
  <2>1. f[k] \in Seq(Int \X Int)
    BY <1>12
  <2>2. Range(f[k]) = {f[k][i] : i \in 1 .. Len(f[k])}
    BY <2>1 DEF Range
  <2>3. w \in Range(g[k]) <=> \E i \in 1 .. Len(f[k]) : IsOf(text, f[k][i], w)
    BY <1>11 DEF AreOfAll
  <2> QED BY <2>2, <2>3
<1>16. ASSUME NEW k \in 1 .. n, NEW w, w \in Range(g[k])
       PROVE  w \in Int \X Int /\ s[k][1] <= w[1] /\ w[1] <= w[2] /\ w[2] <= s[k][2]
  <2>1. PICK i \in 1 .. Len(f[k]) : IsOf(text, f[k][i], w)
    BY <1>11, <1>16 DEF AreOfAll
  <2> DEFINE word == f[k][i]
  <2>2. s[k][1] \in Int /\ s[k][2] \in Int
    BY <1>7
  <2>3. LieIn(f[k], s[k][1], s[k][2])
    BY <1>11, <2>2, TileLies
  <2>4. word \in Int \X Int /\ s[k][1] <= word[1] /\ word[1] <= word[2] /\ word[2] <= s[k][2]
    BY <2>3 DEF LieIn
  <2>5. IsOf(text, word, w)
    BY <2>1
  <2> HIDE DEF word
  <2>6. w \in Int \X Int /\ word[1] <= w[1] /\ w[1] <= w[2] /\ w[2] <= word[2]
    BY <2>4, <2>5, WhatIsOfLies
  <2>7. word[1] \in Int /\ word[2] \in Int /\ w[1] \in Int /\ w[2] \in Int
    BY <2>4, <2>6
  <2> QED BY <2>2, <2>4, <2>6, <2>7
<1>17. Differ(g, n)
  <2>1. ASSUME NEW j \in 1 .. n, NEW k \in 1 .. n, j < k,
               NEW w, w \in Range(g[j]), w \in Range(g[k])
        PROVE  FALSE
    <3>1. w \in Int \X Int /\ w[2] <= s[j][2]
      BY <1>16, <2>1
    <3>2. s[k][1] <= w[1] /\ w[1] <= w[2]
      BY <1>16, <2>1
    <3>3. s[j][2] < s[k][1] /\ s[j][2] \in Int /\ s[k][1] \in Int
      BY <1>7, <2>1
    <3>4. w[1] \in Int /\ w[2] \in Int
      BY <3>1
    <3> QED BY <3>1, <3>2, <3>3, <3>4
  <2>2. \A k \in 1 .. n : Once(g[k])
    BY <1>11 DEF AreOfAll
  <2> QED BY <2>1, <2>2 DEF Differ
<1>18. Once(FlattenSeq(g))
  BY <1>7, <1>12, <1>17, FlattenOnce
<1>19. \A w : w \in Range(FlattenSeq(g)) <=> \E word \in Range(FlattenSeq(f)) : IsOf(text, word, w)
  <2>1. \A w : w \in Range(FlattenSeq(g)) <=> \E k \in 1 .. n : w \in Range(g[k])
    BY <1>14 DEF IsUnion
  <2>2. \A word : word \in Range(FlattenSeq(f)) <=> \E k \in 1 .. n : word \in Range(f[k])
    BY <1>14 DEF IsUnion
  <2> QED BY <1>15, <2>1, <2>2
<1> DEFINE whole == FlattenSeq(f)
<1>20. Range(whole) = {whole[i] : i \in 1 .. Len(whole)}
  BY <1>14 DEF IsUnion, Range
<1>21. \A w : w \in Range(FlattenSeq(g)) <=> \E i \in 1 .. Len(whole) : IsOf(text, whole[i], w)
  <2>1. \A w : w \in Range(FlattenSeq(g)) <=> \E word \in Range(whole) : IsOf(text, word, w)
    BY <1>19
  <2> HIDE DEF whole
  <2> QED BY <1>20, <2>1
<1>22. AreOfAll(FlattenSeq(g), text, whole)
  <2>1. FlattenSeq(g) \in Seq(Int \X Int)
    BY <1>14 DEF IsUnion
  <2> QED BY <1>18, <1>21, <2>1 DEF AreOfAll
<1> QED BY <1>1, <1>13, <1>22 DEF L

\* The words a text is indexed under: those that cover it, and those inside them.
THEOREM CutsCoverTheText ==
  ASSUME NEW C, Dictionaries(C), NEW text \in Seq(C), Len(text) <= MaxWordLength
  PROVE  CoversText(text) /\ KeepsAsciiTogether(text)
<1> DEFINE L == Len(text)
           words == CutForSearch(text)
           whole == FlatMap(LAMBDA range : MixCut(text, range[1], range[2]), Ranges(text))
           inside == {w \in (1 .. L) \X (1 .. L) :
                        /\ Length(w) \in {2, 3}
                        /\ IsKnown(SubSeq(text, w[1], w[2]))
                        /\ \E k \in DOMAIN whole :
                             whole[k][1] <= w[1] /\ w[2] <= whole[k][2] /\ whole[k] # w}
<1>1. whole = Whole(text)
  BY DEF Whole, FlatMap
<1>2. Tile(Whole(text), 1, L) /\ AreOfAll(words, text, Whole(text))
  BY WholeIs
<1>3. CoversText(text) <=>
        /\ IsPartition(whole, 1, L)
        /\ Range(words) = Range(whole) \cup inside
        /\ Len(words) = Cardinality(Range(words))
  BY DEF CoversText
<1> HIDE DEF words, whole
<1>4. Tile(whole, 1, L) /\ AreOfAll(words, text, whole)
  BY <1>1, <1>2
<1>5. 1 \in Int /\ L \in Int
  OBVIOUS
<1>6. IsPartition(whole, 1, L) /\ LieIn(whole, 1, L)
  BY <1>4, <1>5, TileIsPartition, TileLies
<1>7. Len(words) = Cardinality(Range(words))
  BY <1>4, OnceCounts DEF AreOfAll
<1> DEFINE n == Len(whole)
<1>8. /\ whole \in Seq(Int \X Int) /\ DOMAIN whole = 1 .. n
      /\ \A k \in 1 .. n : /\ whole[k] \in Int \X Int
                           /\ 1 <= whole[k][1] /\ whole[k][1] <= whole[k][2] /\ whole[k][2] <= L
  BY <1>6 DEF LieIn
<1>9. \A w : w \in Range(words) <=> \E k \in 1 .. n : IsOf(text, whole[k], w)
  BY <1>4 DEF AreOfAll
<1>10. \A w : w \in Range(whole) <=> \E k \in 1 .. n : w = whole[k]
  BY <1>8 DEF Range
<1> HIDE DEF n, L
<1>11. ASSUME NEW w, NEW k \in 1 .. n, NEW m \in {2, 3}, IsGram(text, whole[k], m, w)
       PROVE  w \in inside
  <2> DEFINE word == whole[k]
  <2>1. word \in Int \X Int /\ 1 <= word[1] /\ word[1] <= word[2] /\ word[2] <= L
    BY <1>8
  <2>2. IsGram(text, word, m, w)
    BY <1>11
  <2> HIDE DEF word
  <2>3. IsOf(text, word, w)
    BY <2>2 DEF IsOf
  <2>4. w \in Int \X Int /\ word[1] <= w[1] /\ w[1] <= w[2] /\ w[2] <= word[2]
    BY <2>1, <2>3, WhatIsOfLies
  <2>5. Length(w) = m /\ w # word
    BY <2>1, <2>2, GramsLength
  <2>6. IsKnown(SubSeq(text, w[1], w[2]))
    <3>1. PICK i \in word[1] .. word[2] - m + 1 :
            w = <<i, i + m - 1>> /\ IsKnown(SubSeq(text, i, i + m - 1))
      BY <2>2 DEF IsGram
    <3>2. w[1] = i /\ w[2] = i + m - 1
      BY <3>1
    <3> QED BY <3>1, <3>2
  <2>7. w \in (1 .. L) \X (1 .. L)
    <3>1. w[1] \in 1 .. L /\ w[2] \in 1 .. L
      BY <1>5, <2>1, <2>4
    <3>2. w = <<w[1], w[2]>>
      BY <2>4
    <3> QED BY <3>1, <3>2
  <2>8. word[1] <= w[1] /\ w[2] <= word[2] /\ word # w
    BY <2>4, <2>5
  <2>9. \E j \in DOMAIN whole : whole[j][1] <= w[1] /\ w[2] <= whole[j][2] /\ whole[j] # w
    BY <1>8, <2>8 DEF word
  <2> QED BY <2>5, <2>6, <2>7, <2>9
<1>12. ASSUME NEW w \in inside PROVE \E k \in 1 .. n : IsOf(text, whole[k], w)
  <2>1. /\ w \in (1 .. L) \X (1 .. L)
        /\ Length(w) \in {2, 3}
        /\ IsKnown(SubSeq(text, w[1], w[2]))
        /\ \E k \in DOMAIN whole :
             whole[k][1] <= w[1] /\ w[2] <= whole[k][2] /\ whole[k] # w
    OBVIOUS
  <2>2. PICK k \in 1 .. n : whole[k][1] <= w[1] /\ w[2] <= whole[k][2] /\ whole[k] # w
    BY <1>8, <2>1
  <2> DEFINE word == whole[k]
             m == Length(w)
             x == w[1]
  <2>3. /\ x \in Int /\ w[2] \in Int /\ w = <<x, w[2]>> /\ m = w[2] - x + 1 /\ m \in {2, 3}
    BY <1>5, <2>1 DEF Length
  <2>4. word \in Int \X Int /\ word = <<word[1], word[2]>> /\ word[1] \in Int /\ word[2] \in Int
    BY <1>8
  <2>5. word[1] <= x /\ w[2] <= word[2] /\ word # w
    BY <2>2
  <2>6. Length(word) = word[2] - word[1] + 1
    BY DEF Length
  <2> HIDE DEF word, m, x
  <2>7. w[2] = x + m - 1 /\ m \in Int
    <3>1. m \in Int
      BY <2>3
    <3> DEFINE y == w[2]
    <3>2. x \in Int /\ y \in Int /\ m = y - x + 1
      BY <2>3
    <3> HIDE DEF y
    <3>3. y = x + m - 1
      BY <3>1, <3>2
    <3> QED BY <3>1, <3>3 DEF y
  <2>8. x \in word[1] .. word[2] - m + 1
    BY <2>3, <2>4, <2>5, <2>7
  <2>9. Length(word) > m
    <3>1. word[1] # x \/ word[2] # w[2]
      BY <2>3, <2>4, <2>5
    <3> QED BY <2>3, <2>4, <2>5, <2>6, <2>7, <3>1
  <2>10. w = <<x, x + m - 1>>
    BY <2>3, <2>7
  <2>11. IsKnown(SubSeq(text, x, x + m - 1))
    BY <2>1, <2>7 DEF x
  <2>12. IsGram(text, word, m, w)
    BY <2>8, <2>9, <2>10, <2>11 DEF IsGram
  <2>13. IsOf(text, word, w)
    BY <2>3, <2>12 DEF IsOf
  <2> QED BY <2>13 DEF word
<1> HIDE DEF inside
<1>13. \A w : w \in Range(words) <=> w \in Range(whole) \cup inside
  <2>1. \A w : w \in Range(words) => w \in Range(whole) \cup inside
    BY <1>9, <1>10, <1>11 DEF IsOf
  <2>2. \A w \in Range(whole) : \E k \in 1 .. n : IsOf(text, whole[k], w)
    BY <1>10 DEF IsOf
  <2> QED BY <1>9, <1>12, <2>1, <2>2
<1>14. Range(words) = Range(whole) \cup inside
  BY <1>13
<1>15. CoversText(text)
  BY <1>3, <1>6, <1>7, <1>14 DEF inside, L
<1>16. KeepsAsciiTogether(text)
  <2> SUFFICES ASSUME NEW range \in Range(Ranges(text)),
                      NEW w \in Range(HMMCut(text, range[1], range[2]))
               PROVE  Together(text, w, range[2])
    BY DEF KeepsAsciiTogether, Together
  <2>1. PICK l \in 1 .. Len(text) : \E r \in l .. Len(text) : range = <<l, r>>
    BY RangesAre
  <2>2. PICK r \in l .. Len(text) : range = <<l, r>>
    BY <2>1
  <2>3. range[1] = l /\ range[2] = r /\ l \in Int /\ r \in Int /\ l <= r
    BY <2>2
  <2>4. \A v \in Range(HMMCut(text, l, r)) : Together(text, v, r)
    BY <2>3, HMMCutIs
  <2> QED BY <2>3, <2>4
<1> QED BY <1>15, <1>16

LEMMA CasesAreCovered == CasesInv => TextsAreCovered
<1> SUFFICES ASSUME CasesInv, kind = "text"
             PROVE  CoversText(input) /\ KeepsAsciiTogether(input)
  BY DEF TextsAreCovered
<1>1. PICK C : Dictionaries(C) /\ input \in Seq(C) /\ Len(input) <= MaxWordLength
  BY CasesAreSearched DEF IsSearched
<1> QED BY <1>1, CutsCoverTheText

\* The words of every case cover its text, and a search finds it under the words
\* inside them as well.
THEOREM TextsStayCovered == Spec => []TextsAreCovered
<1> QED BY CasesInvariant, CasesAreCovered, PTL

-----------------------------------------------------------------------------
(* The one form of a URL.                                                  *)

\* Of some positions there is a first.
LEMMA MinBetween ==
  ASSUME NEW l \in Int, NEW r \in Int, NEW s \in SUBSET (l .. r), s # {}
  PROVE  Min(s) \in s /\ \A k \in s : Min(s) <= k
<1> DEFINE f == [j \in s |-> -j]
<1>1. \A j \in s : f[j] = -j /\ f[j] \in Int
  OBVIOUS
<1> HIDE DEF f
<1>2. \E j \in s : \A x \in s : f[x] <= f[j]
  BY <1>1, LargestExists
<1>3. PICK j \in s : \A x \in s : j <= x
  BY <1>1, <1>2
<1> QED BY <1>3 DEF Min

\* What Trimmed leaves of url is its part from first to last.
IsTrimmed(url, Blanks, Ends, first, last) ==
  /\ first \in 1 .. Len(url) + 1 /\ last \in first - 1 .. Len(url)
  /\ Trimmed(url, Blanks, Ends) = SubSeq(url, first, last)
  /\ \A i \in 1 .. first - 1 : url[i] \in Blanks
  /\ first <= Len(url) => url[first] \notin Blanks
  /\ last >= first => url[last] \notin Ends
  /\ \A i \in last + 1 .. Len(url) : url[i] \in Ends

LEMMA TrimmedIs ==
  ASSUME NEW S, NEW url \in Seq(S), NEW Blanks, NEW Ends
  PROVE  \E first, last : IsTrimmed(url, Blanks, Ends, first, last)
<1> DEFINE N == Len(url)
           A == {i \in DOMAIN url : url[i] \notin Blanks} \cup {N + 1}
           first == Min(A)
           Z == {i \in first .. N : url[i] \notin Ends} \cup {first - 1}
           last == Max(Z)
<1>1. N \in Nat /\ DOMAIN url = 1 .. N
  OBVIOUS
<1>2. A \in SUBSET (1 .. N + 1) /\ A # {}
  BY <1>1
<1>3. first \in A /\ \A k \in A : first <= k
  <2>1. 1 \in Int /\ N + 1 \in Int
    BY <1>1
  <2> HIDE DEF A
  <2> QED BY <1>2, <2>1, MinBetween
<1>4. Trimmed(url, Blanks, Ends) = SubSeq(url, first, last)
  BY DEF Trimmed
<1> HIDE DEF first
<1>5. first \in 1 .. N + 1
  BY <1>2, <1>3
<1>6. Z \in SUBSET (first - 1 .. N) /\ Z # {}
  BY <1>1, <1>5
<1>7. last \in Z /\ \A k \in Z : k <= last
  <2>1. first - 1 \in Int /\ N \in Int
    BY <1>1, <1>5
  <2> HIDE DEF Z
  <2> QED BY <1>6, <2>1, MaxBetween
<1> HIDE DEF last
<1>8. last \in first - 1 .. N
  BY <1>6, <1>7
<1>9. \A i \in 1 .. first - 1 : url[i] \in Blanks
  BY <1>1, <1>3, <1>5
<1>10. first <= N => url[first] \notin Blanks
  BY <1>1, <1>3, <1>5
<1>11. last >= first => url[last] \notin Ends
  BY <1>1, <1>5, <1>7
<1>12. \A i \in last + 1 .. N : url[i] \in Ends
  BY <1>1, <1>5, <1>7, <1>8
<1>13. IsTrimmed(url, Blanks, Ends, first, last)
  BY <1>1, <1>4, <1>5, <1>8, <1>9, <1>10, <1>11, <1>12 DEF IsTrimmed
<1> QED BY <1>13

LEMMA LoweredIs ==
  ASSUME NEW S, NEW url \in Seq(S)
  PROVE  /\ Lowered(url) \in Seq(S \cup {"a"}) /\ Len(Lowered(url)) = Len(url)
         /\ \A i \in 1 .. Len(url) : Lowered(url)[i] # "A"
         /\ (\A i \in 1 .. Len(url) : url[i] # "A") => Lowered(url) = url
<1>1. DOMAIN url = 1 .. Len(url) /\ Len(url) \in Nat
  OBVIOUS
<1>2. Lowered(url) \in [1 .. Len(url) -> S \cup {"a"}]
  BY <1>1 DEF Lowered
<1>3. \A i \in 1 .. Len(url) : Lowered(url)[i] # "A"
  BY <1>1 DEF Lowered
<1>4. ASSUME \A i \in 1 .. Len(url) : url[i] # "A" PROVE Lowered(url) = url
  <2>1. \A i \in 1 .. Len(url) : Lowered(url)[i] = url[i]
    BY <1>1, <1>4 DEF Lowered
  <2> QED BY <1>1, <1>2, <2>1
<1>5. Lowered(url) \in Seq(S \cup {"a"}) /\ Len(Lowered(url)) = Len(url)
  BY <1>1, <1>2
<1> QED BY <1>3, <1>4, <1>5

\* A prefix is what a sequence begins with.
LEMMA PrefixIs ==
  ASSUME NEW S, NEW p \in Seq(S), NEW url \in Seq(S)
  PROVE  IsPrefix(p, url) <=> Len(p) <= Len(url) /\ \A i \in 1 .. Len(p) : p[i] = url[i]
<1>1. Len(p) \in Nat /\ Len(url) \in Nat
  OBVIOUS
<1>2. ASSUME Len(p) <= Len(url)
      PROVE  SubSeq(p, 1, Len(p)) = SubSeq(url, 1, Len(p)) <=> \A i \in 1 .. Len(p) : p[i] = url[i]
  <2> DEFINE a == SubSeq(p, 1, Len(p))
             b == SubSeq(url, 1, Len(p))
  <2>1. /\ a \in Seq(S) /\ Len(a) = Len(p) /\ \A i \in 1 .. Len(p) : a[i] = p[i]
    BY <1>1
  <2>2. /\ b \in Seq(S) /\ Len(b) = Len(p) /\ \A i \in 1 .. Len(p) : b[i] = url[i]
    BY <1>1, <1>2
  <2> HIDE DEF a, b
  <2>3. a = b <=> \A i \in 1 .. Len(p) : a[i] = b[i]
    BY <1>1, <2>1, <2>2
  <2> QED BY <2>1, <2>2, <2>3 DEF a, b
<1> QED BY <1>1, <1>2 DEF IsPrefix

\* Without a prefix is what follows it.
LEMMA WithoutIs ==
  ASSUME NEW S, NEW p \in Seq(S), NEW url \in Seq(S)
  PROVE  /\ WithoutPrefix(p \o url, p) = url
         /\ ~IsPrefix(p, url) => WithoutPrefix(url, p) = url
         /\ \E k \in 0 .. Len(url) : WithoutPrefix(url, p) = SubSeq(url, k + 1, Len(url))
<1>1. Len(p) \in Nat /\ Len(url) \in Nat /\ p \o url \in Seq(S) /\ Len(p \o url) = Len(p) + Len(url)
  OBVIOUS
<1>2. \A i \in 1 .. Len(p) : (p \o url)[i] = p[i]
  BY <1>1
<1>3. IsPrefix(p, p \o url)
  <2> DEFINE whole == p \o url
  <2>1. whole \in Seq(S) /\ Len(p) <= Len(whole) /\ \A i \in 1 .. Len(p) : p[i] = whole[i]
    BY <1>1, <1>2
  <2> HIDE DEF whole
  <2>2. IsPrefix(p, whole)
    BY <2>1, PrefixIs
  <2> QED BY <2>2 DEF whole
<1>4. SubSeq(p \o url, Len(p) + 1, Len(p) + Len(url)) = url
  BY <1>1
<1>5. WithoutPrefix(p \o url, p) = url
  BY <1>1, <1>3, <1>4 DEF WithoutPrefix
<1>6. ~IsPrefix(p, url) => WithoutPrefix(url, p) = url
  BY DEF WithoutPrefix
<1>7. \E k \in 0 .. Len(url) : WithoutPrefix(url, p) = SubSeq(url, k + 1, Len(url))
  <2>1. CASE IsPrefix(p, url)
    <3>1. Len(p) \in 0 .. Len(url)
      BY <1>1, <2>1, PrefixIs
    <3> QED BY <2>1, <3>1 DEF WithoutPrefix
  <2>2. CASE ~IsPrefix(p, url)
    <3>1. url = SubSeq(url, 0 + 1, Len(url)) /\ 0 \in 0 .. Len(url)
      BY <1>1
    <3> QED BY <1>6, <2>2, <3>1
  <2> QED BY <2>1, <2>2
<1> QED BY <1>5, <1>6, <1>7

\* b is what is left of a when its front is cut off.
IsTail(b, a, T) ==
  /\ b \in Seq(T) /\ Len(b) <= Len(a)
  /\ \A i \in 1 .. Len(b) : i + (Len(a) - Len(b)) \in 1 .. Len(a) /\ b[i] = a[i + (Len(a) - Len(b))]

LEMMA WithoutIsTail ==
  ASSUME NEW T, NEW p \in Seq(T), NEW url \in Seq(T)
  PROVE  IsTail(WithoutPrefix(url, p), url, T)
<1> DEFINE b == WithoutPrefix(url, p)
           N == Len(url)
<1>1. PICK k \in 0 .. N : b = SubSeq(url, k + 1, N)
  BY WithoutIs
<1>2. N \in Nat /\ k \in Nat /\ k <= N
  OBVIOUS
<1>3. b \in Seq(T) /\ Len(b) = N - k /\ \A i \in 1 .. N - k : b[i] = url[i + k]
  BY <1>1, <1>2
<1> HIDE DEF b, N
<1>4. \A i \in 1 .. Len(b) : i + (N - Len(b)) = i + k /\ i + k \in 1 .. N
  BY <1>2, <1>3
<1>5. \A i \in 1 .. Len(b) : b[i] = url[i + (N - Len(b))]
  BY <1>3, <1>4
<1> QED BY <1>2, <1>3, <1>4, <1>5 DEF IsTail, b, N

LEMMA TailOfTail ==
  ASSUME NEW T, NEW a \in Seq(T), NEW b, NEW c, IsTail(b, a, T), IsTail(c, b, T)
  PROVE  IsTail(c, a, T)
<1>1. Len(a) \in Nat /\ Len(b) \in Nat /\ Len(c) \in Nat /\ Len(c) <= Len(b) /\ Len(b) <= Len(a)
  BY DEF IsTail
<1>2. ASSUME NEW i \in 1 .. Len(c)
      PROVE  i + (Len(a) - Len(c)) \in 1 .. Len(a) /\ c[i] = a[i + (Len(a) - Len(c))]
  <2> DEFINE j == i + (Len(b) - Len(c))
  <2>1. j \in 1 .. Len(b) /\ c[i] = b[j]
    BY DEF IsTail
  <2> HIDE DEF j
  <2>2. j + (Len(a) - Len(b)) \in 1 .. Len(a) /\ b[j] = a[j + (Len(a) - Len(b))]
    BY <2>1 DEF IsTail
  <2>3. j + (Len(a) - Len(b)) = i + (Len(a) - Len(c))
    BY <1>1 DEF j
  <2> QED BY <2>1, <2>2, <2>3
<1> QED BY <1>1, <1>2 DEF IsTail

\* What is cut off in front of a URL and behind it.
Blanks == {" "}
Trails == {" ", "/", "\n"}

LEMMA BlanksAre ==
  /\ Blanks \subseteq Token /\ Trails \subseteq Token
  /\ "A" \notin Blanks /\ "A" \notin Trails
  /\ \A x \in {"http", "s", "www", ".", ":", "/"} : x \notin Blanks /\ x # "A" /\ x \in Token
BY DEF Blanks, Trails, Token

\* The form of a URL under which a page is known.
HasForm(url) ==
  /\ url # << >> /\ ~IsScript(url) /\ HasHost(url)
  /\ url[1] \notin Blanks /\ url[Len(url)] \notin Trails
  /\ \A i \in 1 .. Len(url) : url[i] # "A"
  /\ ~IsPrefix(<<"www", ".">>, url)

LEMMA FormIs ==
  ASSUME NEW S, NEW url \in Seq(S), format_url(url) # << >>
  PROVE  /\ format_url(url) \in Seq(S \cup Token)
         /\ ~IsScript(format_url(url))
         /\ IsStable(format_url(url)) => HasForm(format_url(url))
         /\ Len(format_url(url)) <= UrlSize
<1> DEFINE T == S \cup Token
           low == Lowered(url)
           trimmed == Trimmed(low, {" "}, {" ", "/", "\n"})
           s == WithoutPrefix(trimmed, <<"http", "s", ":", "/", "/">>)
           rest == WithoutProtocol(trimmed)
           bare == WithoutPrefix(rest, <<"www", ".">>)
<1>1. low \in Seq(T) /\ Len(low) = Len(url) /\ \A i \in 1 .. Len(url) : low[i] # "A"
  <2> DEFINE R == S \cup {"a"}
  <2>1. R \subseteq T
    BY DEF Token
  <2>2. low \in Seq(R) /\ Len(low) = Len(url) /\ \A i \in 1 .. Len(url) : low[i] # "A"
    BY LoweredIs
  <2> HIDE DEF R, T, low
  <2>3. low \in Seq(T)
    BY <2>1, <2>2
  <2> QED BY <2>2, <2>3
<1>2. ~(Len(url) > UrlSize \/ IsScript(bare) \/ ~HasHost(bare)) /\ format_url(url) = bare
  BY DEF format_url
<1> HIDE DEF low
<1>3. PICK f, l : IsTrimmed(low, {" "}, {" ", "/", "\n"}, f, l)
  BY <1>1, TrimmedIs
<1>4. /\ f \in 1 .. Len(low) + 1 /\ l \in f - 1 .. Len(low)
      /\ trimmed = SubSeq(low, f, l)
      /\ l >= f => low[l] \notin {" ", "/", "\n"}
  BY <1>3 DEF IsTrimmed
<1> HIDE DEF trimmed, T
<1>6. Len(low) \in Nat /\ f \in Nat /\ l \in Int /\ 1 <= f /\ f <= l + 1 /\ l <= Len(low)
  <2> DEFINE n == Len(low)
  <2>1. n \in Nat
    BY <1>1
  <2>2. f \in 1 .. n + 1 /\ l \in f - 1 .. n
    BY <1>4
  <2> HIDE DEF n
  <2>3. f \in Nat /\ l \in Int /\ 1 <= f /\ f <= l + 1 /\ l <= n
    BY <2>1, <2>2
  <2> QED BY <2>1, <2>3 DEF n
<1>5. /\ trimmed \in Seq(T) /\ Len(trimmed) = l - f + 1
      /\ \A i \in 1 .. Len(trimmed) : trimmed[i] = low[(f + i) - 1]
  <2> DEFINE part == SubSeq(low, f, l)
  <2>1. part \in Seq(T) /\ Len(part) = l - f + 1
    BY <1>1, <1>6
  <2>2. \A i \in 1 .. l - f + 1 : part[i] = low[(f + i) - 1]
    BY <1>1, <1>6
  <2> HIDE DEF part
  <2>3. trimmed = part
    BY <1>4 DEF part
  <2> QED BY <2>1, <2>2, <2>3
<1>7. Len(trimmed) <= Len(url)
  BY <1>1, <1>5, <1>6
<1>8. \A i \in 1 .. Len(trimmed) : trimmed[i] # "A"
  <2>1. \A i \in 1 .. Len(trimmed) : (f + i) - 1 \in 1 .. Len(url)
    BY <1>1, <1>5, <1>6
  <2> QED BY <1>1, <1>5, <2>1
<1>9. Len(trimmed) > 0 => trimmed[Len(trimmed)] \notin {" ", "/", "\n"}
  <2> SUFFICES ASSUME Len(trimmed) > 0 PROVE trimmed[Len(trimmed)] \notin {" ", "/", "\n"}
    OBVIOUS
  <2>1. (f + Len(trimmed)) - 1 = l /\ l >= f /\ Len(trimmed) \in 1 .. Len(trimmed)
    <3> DEFINE n == Len(trimmed)
    <3>1. n = l - f + 1 /\ n > 0
      BY <1>5
    <3> HIDE DEF n
    <3>2. n \in Int /\ (f + n) - 1 = l /\ l >= f /\ n \in 1 .. n
      BY <1>6, <3>1
    <3> QED BY <3>2 DEF n
  <2> QED BY <1>4, <1>5, <2>1
<1>10. /\ <<"http", "s", ":", "/", "/">> \in Seq(T) /\ <<"http", ":", "/", "/">> \in Seq(T)
       /\ <<"www", ".">> \in Seq(T)
  BY DEF T, Token
<1>11. IsTail(rest, trimmed, T)
  <2>1. IsTail(s, trimmed, T)
    BY <1>5, <1>10, WithoutIsTail
  <2>2. IsTail(WithoutPrefix(trimmed, <<"http", ":", "/", "/">>), trimmed, T)
    BY <1>5, <1>10, WithoutIsTail
  <2>3. rest = IF s # trimmed THEN s ELSE WithoutPrefix(trimmed, <<"http", ":", "/", "/">>)
    BY DEF WithoutProtocol
  <2> HIDE DEF rest, s
  <2> QED BY <2>1, <2>2, <2>3
<1>12. rest \in Seq(T)
  BY <1>11 DEF IsTail
<1> HIDE DEF rest
<1>13. IsTail(bare, rest, T)
  BY <1>10, <1>12, WithoutIsTail
<1> HIDE DEF bare
<1>14. IsTail(bare, trimmed, T)
  BY <1>5, <1>11, <1>13, TailOfTail
<1>15. /\ bare \in Seq(T) /\ Len(bare) <= Len(trimmed)
       /\ \A i \in 1 .. Len(bare) : /\ i + (Len(trimmed) - Len(bare)) \in 1 .. Len(trimmed)
                                    /\ bare[i] = trimmed[i + (Len(trimmed) - Len(bare))]
  BY <1>14 DEF IsTail
<1>16. bare # << >> /\ Len(bare) \in Nat /\ Len(bare) \in 1 .. Len(bare) /\ Len(bare) > 0
  BY <1>2, <1>15
<1>17. \A i \in 1 .. Len(bare) : bare[i] # "A"
  BY <1>8, <1>15
<1>18. bare[Len(bare)] \notin {" ", "/", "\n"}
  <2>1. Len(bare) + (Len(trimmed) - Len(bare)) = Len(trimmed) /\ Len(trimmed) > 0
    BY <1>6, <1>15, <1>16
  <2>2. bare[Len(bare)] = trimmed[Len(bare) + (Len(trimmed) - Len(bare))]
    BY <1>15, <1>16
  <2> QED BY <1>9, <2>1, <2>2
<1>19. ASSUME IsStable(bare) PROVE ~IsPrefix(<<"www", ".">>, bare) /\ bare[1] # " "
  <2>1. ~IsPrefix(<<"www", ".">>, bare) /\ ~IsPrefix(<<" ">>, bare)
    BY <1>19 DEF IsStable
  <2>2. <<" ">> \in Seq(T)
    BY DEF T, Token
  <2>3. Len(<<" ">>) = 1 /\ <<" ">>[1] = " "
    OBVIOUS
  <2>4. ASSUME bare[1] = " " PROVE IsPrefix(<<" ">>, bare)
    <3> DEFINE p == <<" ">>
    <3>1. p \in Seq(T) /\ Len(p) = 1 /\ p[1] = bare[1]
      BY <2>2, <2>3, <2>4
    <3>2. Len(bare) >= 1
      BY <1>16
    <3> HIDE DEF p
    <3>3. Len(p) <= Len(bare) /\ \A i \in 1 .. Len(p) : p[i] = bare[i]
      BY <3>1, <3>2
    <3>4. IsPrefix(p, bare)
      BY <1>15, <3>1, <3>3, PrefixIs
    <3> QED BY <3>4 DEF p
  <2> QED BY <2>1, <2>4
<1>20. Len(bare) <= UrlSize
  <2>1. Len(url) \in Nat
    OBVIOUS
  <2> QED BY <1>2, <1>6, <1>7, <1>15, <1>16, <2>1, UrlSizeAssumption
<1>21. IsStable(bare) => HasForm(bare)
  BY <1>2, <1>16, <1>17, <1>18, <1>19 DEF HasForm, Blanks, Trails
<1> QED BY <1>2, <1>15, <1>20, <1>21 DEF T

\* v is all that stays of the three when what is in front and behind is cut off.
IsBetween(blank, v, behind, T, Fore, Ends) ==
  /\ "A" \notin Fore /\ "A" \notin Ends
  /\ v \in Seq(T) /\ v # << >> /\ v[1] \notin Fore /\ v[Len(v)] \notin Ends
  /\ blank \in Seq(T) /\ \A i \in 1 .. Len(blank) : blank[i] \in Fore
  /\ behind \in Seq(T) /\ \A i \in 1 .. Len(behind) : behind[i] \in Ends
  /\ \A i \in 1 .. Len(v) : v[i] # "A"

LEMMA Unwrapped ==
  ASSUME NEW T, NEW Fore, NEW Ends, NEW v, NEW blank, NEW behind,
         IsBetween(blank, v, behind, T, Fore, Ends)
  PROVE  Trimmed(Lowered(blank \o v \o behind), Fore, Ends) = v
<1>0. /\ "A" \notin Fore /\ "A" \notin Ends
      /\ v \in Seq(T) /\ v # << >> /\ v[1] \notin Fore /\ v[Len(v)] \notin Ends
      /\ blank \in Seq(T) /\ \A i \in 1 .. Len(blank) : blank[i] \in Fore
      /\ behind \in Seq(T) /\ \A i \in 1 .. Len(behind) : behind[i] \in Ends
      /\ \A i \in 1 .. Len(v) : v[i] # "A"
  BY DEF IsBetween
<1> DEFINE k == Len(blank)
           n == Len(v)
           m == Len(behind)
           s == blank \o v \o behind
<1>1. k \in Nat /\ n \in Nat /\ m \in Nat /\ n > 0 /\ 1 \in 1 .. n /\ n \in 1 .. n
  BY <1>0
<1>2. /\ s \in Seq(T) /\ Len(s) = (k + n) + m
      /\ \A i \in 1 .. k : s[i] = blank[i]
      /\ \A i \in 1 .. n : s[k + i] = v[i]
      /\ \A i \in 1 .. m : s[(k + n) + i] = behind[i]
  <2> DEFINE t == blank \o v
  <2>1. /\ t \in Seq(T) /\ Len(t) = k + n /\ (\A i \in 1 .. k : t[i] = blank[i])
        /\ \A i \in 1 .. n : t[k + i] = v[i]
    BY <1>0, <1>1
  <2> HIDE DEF t, k, n
  <2>2. /\ t \o behind \in Seq(T) /\ Len(t \o behind) = (k + n) + m
        /\ \A i \in 1 .. k + n : (t \o behind)[i] = t[i]
        /\ \A i \in 1 .. m : (t \o behind)[(k + n) + i] = behind[i]
    <3> DEFINE K == Len(t)
    <3>1. /\ t \o behind \in Seq(T) /\ Len(t \o behind) = K + m
      <4>1. t \in Seq(T) /\ behind \in Seq(T)
        BY <1>0, <2>1
      <4>2. t \o behind \in Seq(T)
        BY <4>1
      <4>3. Len(t \o behind) = K + m
        BY <4>1
      <4> QED BY <4>2, <4>3
    <3>2. \A i \in 1 .. K : (t \o behind)[i] = t[i]
      <4>1. t \in Seq(T) /\ behind \in Seq(T)
        BY <1>0, <2>1
      <4> QED BY <4>1
    <3>3. \A i \in 1 .. m : (t \o behind)[K + i] = behind[i]
      <4>1. t \in Seq(T) /\ behind \in Seq(T)
        BY <1>0, <2>1
      <4> QED BY <4>1
    <3>4. K = k + n
      BY <2>1
    <3> HIDE DEF K, m, t
    <3> QED BY <3>1, <3>2, <3>3, <3>4
  <2>3. \A i \in 1 .. k : i \in 1 .. k + n
    BY <1>1
  <2>4. \A i \in 1 .. n : k + i \in 1 .. k + n
    BY <1>1
  <2>5. s = t \o behind
    BY DEF t
  <2> HIDE DEF s
  <2> QED BY <2>1, <2>2, <2>3, <2>4, <2>5
<1>3. \A i \in 1 .. k : s[i] \in Fore
  BY <1>0, <1>2
<1>4. \A i \in 1 .. m : s[(k + n) + i] \in Ends
  BY <1>0, <1>2
<1>5. s[k + 1] \notin Fore /\ s[k + n] \notin Ends
  BY <1>0, <1>1, <1>2
<1> HIDE DEF k, m, s
<1>6. ASSUME NEW i \in 1 .. Len(s) PROVE s[i] # "A"
  <2>1. CASE i \in 1 .. k
    BY <1>0, <1>3, <2>1
  <2>2. CASE i \in k + 1 .. k + n
    <3>1. i - k \in 1 .. n /\ k + (i - k) = i
      BY <1>1, <2>2
    <3>2. s[i] = v[i - k]
      BY <1>2, <3>1
    <3> QED BY <1>0, <3>1, <3>2
  <2>3. CASE i \in (k + n) + 1 .. (k + n) + m
    <3>1. i - (k + n) \in 1 .. m /\ (k + n) + (i - (k + n)) = i
      BY <1>1, <2>3
    <3>2. s[i] \in Ends
      BY <1>4, <3>1
    <3> QED BY <1>0, <3>2
  <2> QED BY <1>1, <1>2, <2>1, <2>2, <2>3
<1>7. Lowered(s) = s
  BY <1>2, <1>6, LoweredIs
<1>8. PICK f, l : IsTrimmed(s, Fore, Ends, f, l)
  BY <1>2, TrimmedIs
<1> HIDE DEF n
<1>9. /\ f \in Int /\ l \in Int /\ 1 <= f /\ f <= ((k + n) + m) + 1 /\ f - 1 <= l /\ l <= (k + n) + m
      /\ Trimmed(s, Fore, Ends) = SubSeq(s, f, l)
      /\ \A i \in 1 .. f - 1 : s[i] \in Fore
      /\ f <= (k + n) + m => s[f] \notin Fore
      /\ l >= f => s[l] \notin Ends
      /\ \A i \in l + 1 .. (k + n) + m : s[i] \in Ends
  <2>1. /\ f \in 1 .. ((k + n) + m) + 1 /\ l \in f - 1 .. (k + n) + m
    BY <1>2, <1>8 DEF IsTrimmed
  <2>2. /\ Trimmed(s, Fore, Ends) = SubSeq(s, f, l)
        /\ \A i \in 1 .. f - 1 : s[i] \in Fore
        /\ f <= (k + n) + m => s[f] \notin Fore
        /\ l >= f => s[l] \notin Ends
        /\ \A i \in l + 1 .. (k + n) + m : s[i] \in Ends
    BY <1>2, <1>8 DEF IsTrimmed
  <2>3. f \in Int /\ l \in Int /\ 1 <= f /\ f <= ((k + n) + m) + 1 /\ f - 1 <= l /\ l <= (k + n) + m
    BY <1>1, <2>1
  <2> QED BY <2>2, <2>3
<1>10. f = k + 1
  <2>1. ~(f > k + 1)
    <3> SUFFICES ASSUME f > k + 1 PROVE FALSE
      OBVIOUS
    <3>1. k + 1 \in 1 .. f - 1
      BY <1>1, <1>9
    <3> QED BY <1>5, <1>9, <3>1
  <2>2. ~(f < k + 1)
    <3> SUFFICES ASSUME f < k + 1 PROVE FALSE
      OBVIOUS
    <3>1. f \in 1 .. k /\ f <= (k + n) + m
      BY <1>1, <1>9
    <3> QED BY <1>3, <1>9, <3>1
  <2> QED BY <1>1, <1>9, <2>1, <2>2
<1>11. l = k + n
  <2>0. f \in Int /\ l \in Int /\ f - 1 <= l /\ l <= (k + n) + m
    BY <1>9
  <2>1. ~(l < k + n)
    <3> SUFFICES ASSUME l < k + n PROVE FALSE
      OBVIOUS
    <3>1. k + n \in l + 1 .. (k + n) + m
      BY <1>1, <1>9
    <3> QED BY <1>5, <1>9, <3>1
  <2>2. ~(l > k + n)
    <3> SUFFICES ASSUME l > k + n PROVE FALSE
      OBVIOUS
    <3>1. l - (k + n) \in 1 .. m /\ (k + n) + (l - (k + n)) = l /\ l >= f
      BY <1>1, <1>10, <2>0
    <3>2. s[l] \in Ends
      BY <1>4, <3>1
    <3> QED BY <1>9, <3>1, <3>2
  <2> QED BY <1>1, <2>0, <2>1, <2>2
<1>12. SubSeq(s, k + 1, k + n) = v
  <2> DEFINE part == SubSeq(s, k + 1, k + n)
  <2>1. part \in Seq(T) /\ Len(part) = n
    BY <1>1, <1>2
  <2>2. \A i \in 1 .. n : part[i] = s[k + i]
    BY <1>1, <1>2
  <2> HIDE DEF part
  <2>3. \A i \in 1 .. n : part[i] = v[i]
    BY <1>2, <2>2
  <2>4. part = v
    <3>1. v \in Seq(T) /\ Len(v) = Len(part)
      BY <1>0, <2>1 DEF n
    <3>2. \A i \in 1 .. Len(part) : part[i] = v[i]
      BY <2>1, <2>3
    <3>3. part \in Seq(T)
      BY <2>1
    <3> QED BY <3>1, <3>2, <3>3
  <2> QED BY <2>4 DEF part
<1>13. Trimmed(s, Fore, Ends) = v
  BY <1>9, <1>10, <1>11, <1>12
<1> QED BY <1>7, <1>13 DEF s

\* A protocol has a slash before any dot, and no URL in its form begins so.
LEMMA NoProtocol ==
  ASSUME NEW T, Token \subseteq T, NEW url \in Seq(T), url # << >>, HasHost(url)
  PROVE  /\ ~IsPrefix(<<"http", ":", "/", "/">>, url)
         /\ ~IsPrefix(<<"http", "s", ":", "/", "/">>, url)
<1> DEFINE Dots == {i \in DOMAIN url : url[i] = "."}
           d == Min(Dots)
           N == Len(url)
<1>1. N \in Nat /\ DOMAIN url = 1 .. N
  OBVIOUS
<1>2. Dots # {} /\ \A i \in DOMAIN url : url[i] = "/" => i > d
  BY DEF HasHost
<1>3. d \in Dots
  <2>1. Dots \in SUBSET (1 .. N) /\ 1 \in Int /\ N \in Int
    BY <1>1
  <2> HIDE DEF Dots
  <2> QED BY <1>2, <2>1, MinBetween
<1>4. d \in 1 .. N /\ url[d] = "."
  BY <1>1, <1>3
<1> HIDE DEF d, Dots, N
<1>5. <<"http", ":", "/", "/">> \in Seq(T) /\ <<"http", "s", ":", "/", "/">> \in Seq(T)
  <2>1. "http" \in T /\ "s" \in T /\ ":" \in T /\ "/" \in T
    BY DEF Token
  <2> QED BY <2>1
<1>6. ASSUME IsPrefix(<<"http", ":", "/", "/">>, url) PROVE FALSE
  <2> DEFINE p == <<"http", ":", "/", "/">>
  <2>1. Len(p) = 4 /\ p[1] = "http" /\ p[2] = ":" /\ p[3] = "/"
    OBVIOUS
  <2>2. p \in Seq(T) /\ IsPrefix(p, url)
    BY <1>5, <1>6
  <2> HIDE DEF p
  <2>3. Len(p) <= Len(url) /\ \A i \in 1 .. Len(p) : p[i] = url[i]
    BY <2>2, PrefixIs
  <2>4. 3 \in 1 .. N /\ url[1] = "http" /\ url[2] = ":" /\ url[3] = "/"
    BY <1>1, <2>1, <2>3 DEF N
  <2>5. 3 > d
    BY <1>1, <1>2, <2>4
  <2>6. d = 1 \/ d = 2
    BY <1>1, <1>4, <2>5
  <2> QED BY <1>4, <2>4, <2>6
<1>7. ASSUME IsPrefix(<<"http", "s", ":", "/", "/">>, url) PROVE FALSE
  <2> DEFINE p == <<"http", "s", ":", "/", "/">>
  <2>1. Len(p) = 5 /\ p[1] = "http" /\ p[2] = "s" /\ p[3] = ":" /\ p[4] = "/"
    OBVIOUS
  <2>2. p \in Seq(T) /\ IsPrefix(p, url)
    BY <1>5, <1>7
  <2> HIDE DEF p
  <2>3. Len(p) <= Len(url) /\ \A i \in 1 .. Len(p) : p[i] = url[i]
    BY <2>2, PrefixIs
  <2>4. 4 \in 1 .. N /\ url[1] = "http" /\ url[2] = "s" /\ url[3] = ":" /\ url[4] = "/"
    BY <1>1, <2>1, <2>3 DEF N
  <2>5. 4 > d
    BY <1>1, <1>2, <2>4
  <2>6. d = 1 \/ d = 2 \/ d = 3
    BY <1>1, <1>4, <2>5
  <2> QED BY <1>4, <2>4, <2>6
<1> QED BY <1>6, <1>7

\* A protocol in front of what has none is cut off.
HasNoProtocol(url) ==
  /\ ~IsPrefix(<<"http", ":", "/", "/">>, url)
  /\ ~IsPrefix(<<"http", "s", ":", "/", "/">>, url)

IsOff(protocol, url) == WithoutProtocol(protocol \o url) = url

LEMMA ProtocolOff ==
  ASSUME NEW T, Token \subseteq T, NEW url \in Seq(T), HasNoProtocol(url),
         NEW protocol \in Protocols
  PROVE  IsOff(protocol, url)
<1> SUFFICES WithoutProtocol(protocol \o url) = url
  BY DEF IsOff
<1> DEFINE http == <<"http", ":", "/", "/">>
           https == <<"http", "s", ":", "/", "/">>
           whole == protocol \o url
<1>1. http \in Seq(T) /\ https \in Seq(T)
  <2>1. "http" \in T /\ "s" \in T /\ ":" \in T /\ "/" \in T
    BY DEF Token
  <2> QED BY <2>1
<1>2. Len(http) = 4 /\ Len(https) = 5 /\ http[2] = ":" /\ https[2] = "s"
  OBVIOUS
<1>3. WithoutProtocol(whole) = IF WithoutPrefix(whole, https) # whole THEN WithoutPrefix(whole, https)
                               ELSE WithoutPrefix(whole, http)
  BY DEF WithoutProtocol
<1>4. ~IsPrefix(http, url) /\ ~IsPrefix(https, url) /\ protocol \in {http, https, << >>}
  BY DEF HasNoProtocol, Protocols
<1> HIDE DEF http, https
<1>5. CASE protocol = https
  <2>1. WithoutPrefix(https \o url, https) = url
    BY <1>1, WithoutIs
  <2>2. https \o url # url
    <3>1. Len(https \o url) = Len(https) + Len(url) /\ Len(url) \in Nat
      BY <1>1
    <3>2. Len(https \o url) # Len(url)
      BY <1>2, <3>1
    <3> QED BY <3>2
  <2> QED BY <1>3, <1>5, <2>1, <2>2
<1>6. CASE protocol = http
  <2>1. WithoutPrefix(http \o url, http) = url
    BY <1>1, WithoutIs
  <2> DEFINE w == http \o url
  <2>2. w \in Seq(T) /\ w[2] = ":"
    <3>1. w \in Seq(T) /\ \A i \in 1 .. Len(http) : w[i] = http[i]
      BY <1>1
    <3> HIDE DEF w
    <3> QED BY <1>2, <3>1
  <2> HIDE DEF w
  <2>3. ~IsPrefix(https, w)
    <3> SUFFICES ASSUME IsPrefix(https, w) PROVE FALSE
      OBVIOUS
    <3>1. \A i \in 1 .. Len(https) : https[i] = w[i]
      BY <1>1, <2>2, PrefixIs
    <3>2. 2 \in 1 .. Len(https)
      BY <1>2
    <3> QED BY <1>2, <2>2, <3>1, <3>2
  <2>4. WithoutPrefix(w, https) = w
    BY <1>1, <2>2, <2>3, WithoutIs
  <2> QED BY <1>3, <1>6, <2>1, <2>4 DEF w
<1>7. CASE protocol = << >>
  <2>1. whole = url
    BY <1>7
  <2> HIDE DEF whole
  <2>2. WithoutPrefix(url, https) = url /\ WithoutPrefix(url, http) = url
    BY <1>1, <1>4, WithoutIs
  <2>3. WithoutProtocol(whole) = url
    BY <1>3, <2>1, <2>2
  <2> QED BY <2>3 DEF whole
<1> QED BY <1>4, <1>5, <1>6, <1>7

\* What is put in front of a URL leaves its end as it is.
LEMMA FrontAdds ==
  ASSUME NEW T, NEW Fore, NEW Ends, NEW p \in Seq(T), NEW url \in Seq(T),
         \A i \in 1 .. Len(p) : p[i] \notin Fore /\ p[i] # "A",
         url # << >>, url[1] \notin Fore, url[Len(url)] \notin Ends,
         \A i \in 1 .. Len(url) : url[i] # "A"
  PROVE  /\ p \o url \in Seq(T) /\ p \o url # << >>
         /\ (p \o url)[1] \notin Fore /\ (p \o url)[Len(p \o url)] \notin Ends
         /\ \A i \in 1 .. Len(p \o url) : (p \o url)[i] # "A"
<1> DEFINE k == Len(p)
           n == Len(url)
           v == p \o url
<1>1. k \in Nat /\ n \in Nat /\ n > 0
  OBVIOUS
<1>2. /\ v \in Seq(T) /\ Len(v) = k + n /\ (\A i \in 1 .. k : v[i] = p[i])
      /\ \A i \in 1 .. n : v[k + i] = url[i]
  BY <1>1
<1> HIDE DEF k, n, v
<1>3. v # << >>
  BY <1>1, <1>2
<1>4. v[1] \notin Fore
  <2>1. CASE k > 0
    <3>1. 1 \in 1 .. k
      BY <1>1, <2>1
    <3> QED BY <1>2, <3>1 DEF k
  <2>2. CASE k = 0
    <3>1. 1 \in 1 .. n /\ k + 1 = 1
      BY <1>1, <2>2
    <3>2. v[1] = url[1]
      BY <1>2, <3>1
    <3> QED BY <3>2
  <2> QED BY <1>1, <2>1, <2>2
<1>5. v[k + n] \notin Ends
  <2>1. n \in 1 .. n
    BY <1>1
  <2> QED BY <1>2, <2>1 DEF n
<1>6. ASSUME NEW i \in 1 .. k + n PROVE v[i] # "A"
  <2>1. CASE i \in 1 .. k
    BY <1>2, <2>1 DEF k
  <2>2. CASE i \in k + 1 .. k + n
    <3>1. i - k \in 1 .. n /\ k + (i - k) = i
      BY <1>1, <2>2
    <3>2. v[i] = url[i - k]
      BY <1>2, <3>1
    <3> QED BY <3>1, <3>2 DEF n
  <2> QED BY <1>1, <2>1, <2>2
<1>7. /\ v \in Seq(T) /\ v # << >> /\ v[1] \notin Fore /\ v[Len(v)] \notin Ends
      /\ \A i \in 1 .. Len(v) : v[i] # "A"
  BY <1>2, <1>3, <1>4, <1>5, <1>6
<1> QED BY <1>7 DEF v

LEMMA FrontsAre ==
  ASSUME NEW T, Token \subseteq T
  PROVE  /\ \A protocol \in Protocols : protocol \in Seq(T)
         /\ \A www \in Wwws : www \in Seq(T)
<1>1. "http" \in T /\ "s" \in T /\ ":" \in T /\ "/" \in T /\ "www" \in T /\ "." \in T
  BY BlanksAre
<1>2. << >> \in Seq(T)
  OBVIOUS
<1>3. <<"http", ":", "/", "/">> \in Seq(T)
  BY <1>1
<1>4. <<"http", "s", ":", "/", "/">> \in Seq(T)
  BY <1>1
<1>5. <<"www", ".">> \in Seq(T)
  BY <1>1
<1> QED BY <1>2, <1>3, <1>4, <1>5, Zenon DEF Protocols, Wwws

\* Every spelling of a URL in its form has this form.
LEMMA SpelledAs ==
  ASSUME NEW T, Token \subseteq T, NEW url \in Seq(T), HasForm(url),
         NEW blank \in Seq(Blanks), NEW behind \in Seq(Trails),
         NEW protocol \in Protocols, NEW www \in Wwws,
         Len(blank \o (protocol \o (www \o url)) \o behind) <= UrlSize
  PROVE  format_url(blank \o (protocol \o (www \o url)) \o behind) = url
<1> DEFINE dubs == <<"www", ".">>
           http == <<"http", ":", "/", "/">>
           https == <<"http", "s", ":", "/", "/">>
           x == www \o url
           v == protocol \o x
           s == blank \o v \o behind
<1>0. www \in {dubs, << >>} /\ protocol \in {http, https, << >>}
  BY DEF Protocols, Wwws
<1>1. /\ url # << >> /\ ~IsScript(url) /\ HasHost(url) /\ url[1] \notin Blanks
      /\ url[Len(url)] \notin Trails /\ ~IsPrefix(dubs, url)
      /\ \A i \in 1 .. Len(url) : url[i] # "A"
  BY DEF HasForm
<1>2. "A" \notin Blanks /\ "A" \notin Trails
  BY BlanksAre
<1>3. blank \in Seq(T) /\ behind \in Seq(T)
  BY BlanksAre
<1>4. ASSUME NEW i \in 1 .. Len(protocol) PROVE protocol[i] \notin Blanks /\ protocol[i] # "A"
  <2>1. protocol[i] \in {"http", "s", ":", "/"}
    <3>1. CASE protocol = << >>
      BY <3>1
    <3>2. CASE protocol = http
      BY <3>2
    <3>3. CASE protocol = https
      BY <3>3
    <3> QED BY <1>0, <3>1, <3>2, <3>3
  <2> QED BY <2>1, BlanksAre
<1>5. ASSUME NEW i \in 1 .. Len(www) PROVE www[i] \notin Blanks /\ www[i] # "A"
  <2>1. www[i] \in {"www", "."}
    <3>1. CASE www = << >>
      BY <3>1
    <3>2. CASE www = dubs
      BY <3>2
    <3> QED BY <1>0, <3>1, <3>2
  <2> QED BY <2>1, BlanksAre
<1>6. /\ protocol \in Seq(T) /\ www \in Seq(T) /\ dubs \in Seq(T)
      /\ http \in Seq(T) /\ https \in Seq(T)
  <2>1. "http" \in T /\ "s" \in T /\ ":" \in T /\ "/" \in T /\ "www" \in T /\ "." \in T
    BY BlanksAre
  <2>3. http \in Seq(T)
    BY <2>1
  <2>4. https \in Seq(T)
    BY <2>1
  <2>5. dubs \in Seq(T)
    BY <2>1
  <2> HIDE DEF http, https, dubs
  <2> QED BY <2>3, <2>4, <2>5, FrontsAre
<1>8. format_url(s) = LET trimmed == Trimmed(Lowered(s), Blanks, Trails)
                          bare == WithoutPrefix(WithoutProtocol(trimmed), dubs)
                      IN  IF Len(s) > UrlSize \/ IsScript(bare) \/ ~HasHost(bare) THEN << >>
                          ELSE bare
  BY Zenon DEF format_url, Blanks, Trails
<1>9. Len(s) <= UrlSize
  OBVIOUS
<1>10. ~IsPrefix(http, x) /\ ~IsPrefix(https, x)
  <2>1. CASE www = << >>
    <3>1. x = url
      BY <2>1
    <3> QED BY <1>1, <3>1, NoProtocol
  <2>2. CASE www = dubs
    <3>1. x \in Seq(T) /\ x[1] = "www"
      BY <2>2, <1>6
    <3>2. http[1] = "http" /\ https[1] = "http" /\ 1 \in 1 .. Len(http) /\ 1 \in 1 .. Len(https)
      OBVIOUS
    <3> HIDE DEF x, http, https
    <3>3. IsPrefix(http, x) => http[1] = x[1]
      BY <1>6, <3>1, <3>2, PrefixIs
    <3>4. IsPrefix(https, x) => https[1] = x[1]
      BY <1>6, <3>1, <3>2, PrefixIs
    <3> QED BY <3>1, <3>2, <3>3, <3>4
  <2> QED BY <1>0, <2>1, <2>2
<1>11. /\ x \in Seq(T) /\ x # << >> /\ x[1] \notin Blanks /\ x[Len(x)] \notin Trails
       /\ \A i \in 1 .. Len(x) : x[i] # "A"
  BY <1>1, <1>5, <1>6, FrontAdds
<1> HIDE DEF x
<1>12. /\ v \in Seq(T) /\ v # << >> /\ v[1] \notin Blanks /\ v[Len(v)] \notin Trails
       /\ \A i \in 1 .. Len(v) : v[i] # "A"
  BY <1>4, <1>6, <1>11, FrontAdds
<1> HIDE DEF v
<1>13. Trimmed(Lowered(s), Blanks, Trails) = v
  <2>1. \A i \in 1 .. Len(blank) : blank[i] \in Blanks
    OBVIOUS
  <2>2. \A i \in 1 .. Len(behind) : behind[i] \in Trails
    OBVIOUS
  <2>3. v \in Seq(T) /\ blank \in Seq(T) /\ behind \in Seq(T)
    BY <1>3, <1>12
  <2>4. v # << >> /\ v[1] \notin Blanks /\ v[Len(v)] \notin Trails
    BY <1>12
  <2>5. \A i \in 1 .. Len(v) : v[i] # "A"
    BY <1>12
  <2>6. IsBetween(blank, v, behind, T, Blanks, Trails)
    BY <1>2, <2>1, <2>2, <2>3, <2>4, <2>5 DEF IsBetween
  <2> QED BY <2>6, Unwrapped
<1>14. WithoutProtocol(v) = x
  <2>1. x \in Seq(T)
    BY <1>11
  <2>2. HasNoProtocol(x)
    BY <1>10 DEF HasNoProtocol
  <2>3. IsOff(protocol, x)
    BY <2>1, <2>2, ProtocolOff
  <2> QED BY <2>3 DEF v, IsOff
<1>15. WithoutPrefix(x, dubs) = url
  <2>0. dubs \in Seq(T) /\ ~IsPrefix(dubs, url)
    BY <1>1, <1>6
  <2> HIDE DEF dubs
  <2>1. WithoutPrefix(dubs \o url, dubs) = url
    BY <2>0, WithoutIs
  <2>2. WithoutPrefix(url, dubs) = url
    BY <2>0, WithoutIs
  <2>3. www = << >> => x = url
    BY DEF x
  <2> QED BY <1>0, <2>1, <2>2, <2>3 DEF x
<1>16. ~(Len(s) > UrlSize)
  <2>1. Len(s) \in Nat
    BY <1>3, <1>12
  <2> HIDE DEF s
  <2> QED BY <1>9, <2>1, UrlSizeAssumption
<1> HIDE DEF s, dubs
<1>17. format_url(s) = url
  BY <1>1, <1>8, <1>13, <1>14, <1>15, <1>16
<1> QED BY <1>17 DEF s, v, x

\* A URL in its form is formatted to itself.
LEMMA FormStays ==
  ASSUME NEW T, Token \subseteq T, NEW url \in Seq(T), HasForm(url), Len(url) <= UrlSize
  PROVE  format_url(url) = url
<1> DEFINE none == << >>
           s == none \o (none \o (none \o url)) \o none
<1>1. s = url
  OBVIOUS
<1>2. none \in Seq(Blanks) /\ none \in Seq(Trails)
  OBVIOUS
<1>3. none \in Protocols /\ none \in Wwws
  BY DEF Protocols, Wwws
<1> HIDE DEF none
<1>4. Len(s) <= UrlSize
  BY <1>1
<1>5. format_url(s) = url
  BY <1>2, <1>3, <1>4, SpelledAs
<1> QED BY <1>1, <1>5

\* What is put in front of a URL is put there piece by piece.
InEitherOrder(a, b, c) == (a \o b) \o c = a \o (b \o c)

LEMMA Pieces ==
  ASSUME NEW T, NEW a \in Seq(T), NEW b \in Seq(T), NEW c \in Seq(T)
  PROVE  InEitherOrder(a, b, c)
BY ConcatAssociative DEF InEitherOrder

Spelling(blank, protocol, www, url) == ((blank \o protocol) \o www) \o url
InTurn(blank, protocol, www, url) == blank \o (protocol \o (www \o url))

LEMMA SpellingIs ==
  ASSUME NEW T, NEW blank \in Seq(T), NEW protocol \in Seq(T), NEW www \in Seq(T),
         NEW url \in Seq(T)
  PROVE  Spelling(blank, protocol, www, url) = InTurn(blank, protocol, www, url)
<1> DEFINE front == blank \o protocol
           rest == www \o url
<1>1. front \in Seq(T) /\ rest \in Seq(T)
  OBVIOUS
<1> HIDE DEF front, rest
<1>2. InEitherOrder(front, www, url)
  BY <1>1, Pieces
<1>3. InEitherOrder(blank, protocol, rest)
  BY <1>1, Pieces
<1> QED BY <1>2, <1>3 DEF front, rest, Spelling, InTurn, InEitherOrder

\* A spelling has something that is cut off in front of it and behind it.
IsSpelled(spelling, url) ==
  \E blank \in Seq(Blanks), behind \in Seq(Trails), protocol \in Protocols, www \in Wwws :
    spelling = Spelling(blank, protocol, www, url) \o behind

HasFront(front) ==
  \E blank \in Seq(Blanks) : \E protocol \in Protocols : front = blank \o protocol

LEMMA FrontHas ==
  ASSUME NEW front \in Fronts
  PROVE  HasFront(front)
<1> DEFINE http == <<"http", ":", "/", "/">>
<1>1. http \in Protocols
  BY DEF Protocols
<1>2. << >> \in Seq(Blanks)
  OBVIOUS
<1>3. CASE front \in Protocols
  <2>1. front = << >> \o front
    <3>1. front \in Seq(Token)
      BY <1>3, FrontsAre
    <3> QED BY <3>1
  <2> QED BY <1>2, <1>3, <2>1 DEF HasFront
<1>4. ASSUME NEW b \in Blanks, front = <<b, "http", ":", "/", "/">>
      PROVE  HasFront(front)
  <2> DEFINE both == <<b>> \o http
  <2>1. Len(both) = 5 /\ both[1] = b /\ both[2] = "http" /\ both[3] = ":" /\ both[4] = "/"
        /\ both[5] = "/"
    OBVIOUS
  <2>2. both \in Seq({b, "http", ":", "/"})
    <3>1. <<b>> \in Seq({b, "http", ":", "/"}) /\ http \in Seq({b, "http", ":", "/"})
      OBVIOUS
    <3> HIDE DEF http
    <3> QED BY <3>1
  <2> HIDE DEF both
  <2>3. front = both
    BY <1>4, <2>1, <2>2
  <2>4. <<b>> \in Seq(Blanks)
    OBVIOUS
  <2> HIDE DEF http
  <2> QED BY <1>1, <2>3, <2>4 DEF both, HasFront
<1>5. front \in Protocols \/ \E b \in Blanks : front = <<b, "http", ":", "/", "/">>
  BY Zenon DEF Fronts, Blanks
<1>6. CASE \E b \in Blanks : front = <<b, "http", ":", "/", "/">>
  <2>1. PICK b \in Blanks : front = <<b, "http", ":", "/", "/">>
    BY <1>6
  <2> QED BY <1>4, <2>1
<1> QED BY <1>3, <1>5, <1>6

LEMMA TailIs == ASSUME NEW last \in Tails PROVE last \in Seq(Trails)
<1>1. ASSUME NEW b \in Trails PROVE <<b>> \in Seq(Trails)
  OBVIOUS
<1>2. ASSUME NEW b \in Trails, NEW e \in Trails PROVE <<b, e>> \in Seq(Trails)
  OBVIOUS
<1>3. << >> \in Seq(Trails)
  OBVIOUS
<1>4. last = << >> \/ (\E b \in Trails : last = <<b>>)
      \/ \E b \in Trails, e \in Trails : last = <<b, e>>
  BY Zenon DEF Tails, Trails
<1> QED BY <1>1, <1>2, <1>3, <1>4

LEMMA SpellingsAre ==
  ASSUME NEW url, NEW spelling \in SpellingsOf(url)
  PROVE  IsSpelled(spelling, url)
<1>1. PICK front \in Fronts, www \in Wwws, last \in Tails :
        spelling = front \o www \o url \o last
  BY DEF SpellingsOf
<1>2. last \in Seq(Trails)
  BY TailIs
<1>3. PICK blank \in Seq(Blanks) : \E protocol \in Protocols : front = blank \o protocol
  BY FrontHas DEF HasFront
<1>4. PICK protocol \in Protocols : front = blank \o protocol
  BY <1>3
<1>5. spelling = Spelling(blank, protocol, www, url) \o last
  BY <1>1, <1>4 DEF Spelling
<1> QED BY <1>2, <1>5 DEF IsSpelled

\* With or without protocol, www., capital letters, blanks in front and slashes or
\* blanks behind, a page is known under one form, for every sequence of tokens
\* (format_url.cc).
THEOREM PagesAreKnownUnderOneForm ==
  ASSUME NEW S, NEW url \in Seq(S)
  PROVE  HasOneForm(url)
<1> DEFINE w == format_url(url)
           T == S \cup Token
<1> SUFFICES ASSUME w # << >>, IsStable(w), NEW spelling \in SpellingsOf(w),
                    Len(spelling) <= UrlSize
             PROVE  format_url(spelling) = w
  BY DEF HasOneForm
<1>1. w \in Seq(T) /\ HasForm(w)
  BY FormIs
<1>2. IsSpelled(spelling, w)
  BY SpellingsAre
<1>3. Token \subseteq T
  OBVIOUS
<1> HIDE DEF w, T
<1>4. PICK blank \in Seq(Blanks), behind \in Seq(Trails), protocol \in Protocols, www \in Wwws :
        spelling = Spelling(blank, protocol, www, w) \o behind
  BY <1>2 DEF IsSpelled
<1>5. blank \in Seq(T) /\ protocol \in Seq(T) /\ www \in Seq(T)
  <2>1. blank \in Seq(T)
    BY <1>3, BlanksAre
  <2>2. protocol \in Seq(T) /\ www \in Seq(T)
    BY <1>3, FrontsAre
  <2> QED BY <2>1, <2>2
<1>6. spelling = blank \o (protocol \o (www \o w)) \o behind
  <2>1. Spelling(blank, protocol, www, w) = blank \o (protocol \o (www \o w))
    <3>1. /\ w \in Seq(T) /\ blank \in Seq(T) /\ protocol \in Seq(T) /\ www \in Seq(T)
      BY <1>1, <1>5
    <3>2. Spelling(blank, protocol, www, w) = InTurn(blank, protocol, www, w)
      BY <3>1, SpellingIs
    <3> QED BY <3>2 DEF InTurn
  <2> QED BY <1>4, <2>1
<1>7. Len(blank \o (protocol \o (www \o w)) \o behind) <= UrlSize
  BY <1>6
<1>8. format_url(blank \o (protocol \o (www \o w)) \o behind) = w
  BY <1>1, <1>3, <1>7, SpelledAs
<1> QED BY <1>6, <1>8

\* The page that is asked for is the one that is recorded, for every sequence of
\* tokens: what format_url left is formatted to itself, and its host, which has a
\* dot, and its path are the whole of it (parse_url.cc).
THEOREM PagesAreAskedForAsRecorded ==
  ASSUME NEW S, NEW url \in Seq(S)
  PROVE  AsksForThePageItRecords(url)
<1> DEFINE w == format_url(url)
           T == S \cup Token
           N == Len(w)
           Slashes == {k \in DOMAIN w : w[k] = "/"} \cup {N + 1}
           Dots == {k \in DOMAIN w : w[k] = "."}
           i == Min(Slashes)
           d == Min(Dots)
           host == SubSeq(w, 1, i - 1)
           path == IF i > N THEN <<"/">> ELSE SubSeq(w, i, N)
<1> SUFFICES ASSUME w # << >>, IsStable(w)
             PROVE  LET parts == parse_url(w)
                    IN  /\ format_url(w) = w
                        /\ "." \in Range(parts.host_url) /\ "/" \notin Range(parts.host_url)
                        /\ parts.page_path[1] = "/"
                        /\ parts.host_url \o (IF parts.page_path = <<"/">> THEN << >>
                                              ELSE parts.page_path) = w
  BY DEF AsksForThePageItRecords
<1>1. w \in Seq(T) /\ HasForm(w) /\ Len(w) <= UrlSize
  BY FormIs
<1>2. Token \subseteq T
  OBVIOUS
<1> HIDE DEF w, T
<1>3. format_url(w) = w
  BY <1>1, <1>2, FormStays
<1>4. parse_url(w).host_url = host /\ parse_url(w).page_path = path
  BY <1>3 DEF parse_url
<1>5. N \in Nat /\ DOMAIN w = 1 .. N /\ N > 0
  BY <1>1 DEF HasForm
<1>6. /\ Dots # {} /\ \A k \in DOMAIN w : w[k] = "/" => k > d
      /\ w[N] # "/"
  <2>1. HasHost(w) /\ w[N] \notin Trails
    BY <1>1 DEF HasForm
  <2>2. "/" \in Trails
    BY DEF Trails
  <2>3. Dots # {} /\ \A k \in DOMAIN w : w[k] = "/" => k > d
    BY <2>1 DEF HasHost
  <2> QED BY <2>1, <2>2, <2>3
<1>7. i \in Slashes /\ \A k \in Slashes : i <= k
  <2>1. Slashes \in SUBSET (1 .. N + 1) /\ Slashes # {} /\ 1 \in Int /\ N + 1 \in Int
    BY <1>5
  <2> HIDE DEF Slashes
  <2> QED BY <2>1, MinBetween
<1>8. d \in Dots
  <2>1. Dots \in SUBSET (1 .. N) /\ 1 \in Int /\ N \in Int
    BY <1>5
  <2> HIDE DEF Dots
  <2> QED BY <1>6, <2>1, MinBetween
<1> HIDE DEF i, d
<1>9. /\ i \in Int /\ 1 <= i /\ i <= N + 1 /\ (i <= N => w[i] = "/")
      /\ \A k \in 1 .. i - 1 : w[k] # "/"
  <2>1. i \in 1 .. N + 1 /\ (i <= N => w[i] = "/")
    BY <1>5, <1>7
  <2>2. \A k \in 1 .. i - 1 : w[k] # "/"
    BY <1>5, <1>7
  <2> QED BY <1>5, <2>1, <2>2
<1>10. d \in 1 .. i - 1 /\ w[d] = "."
  <2>1. d \in 1 .. N /\ w[d] = "."
    BY <1>5, <1>8
  <2>2. i <= N => i > d
    BY <1>5, <1>6, <1>9
  <2> QED BY <1>5, <1>9, <2>1, <2>2
<1>11. /\ host \in Seq(T) /\ Len(host) = i - 1
       /\ \A k \in 1 .. i - 1 : host[k] = w[k]
  <2>1. 1 \in 1 .. N + 1 /\ i - 1 \in 0 .. N
    BY <1>5, <1>9
  <2> QED BY <1>1, <1>5, <1>9, <2>1
<1>12. "." \in Range(host) /\ "/" \notin Range(host)
  <2> HIDE DEF host
  <2>1. DOMAIN host = 1 .. i - 1
    BY <1>11
  <2>2. host[d] = "."
    BY <1>10, <1>11
  <2>3. \A k \in DOMAIN host : host[k] # "/"
    BY <1>9, <1>11, <2>1
  <2> QED BY <1>10, <2>1, <2>2, <2>3 DEF Range
<1>13. CASE i > N
  <2>1. path = <<"/">> /\ path[1] = "/" /\ i = N + 1
    BY <1>5, <1>9, <1>13
  <2>2. host = w
    <3> HIDE DEF host
    <3>1. Len(host) = N /\ \A k \in 1 .. N : host[k] = w[k]
      BY <1>5, <1>11, <2>1
    <3> QED BY <1>1, <1>5, <1>11, <3>1
  <2>3. host \o << >> = w
    BY <1>1, <2>2
  <2> HIDE DEF host, path
  <2> QED BY <1>3, <1>4, <1>12, <2>1, <2>3
<1>14. CASE i <= N
  <2> DEFINE rest == SubSeq(w, i, N)
  <2>1. path = rest /\ i < N
    <3>1. ~(i > N)
      BY <1>5, <1>9, <1>14
    <3>2. i # N
      BY <1>6, <1>9, <1>14
    <3>3. path = IF i > N THEN <<"/">> ELSE rest
      OBVIOUS
    <3> HIDE DEF path, rest, N
    <3>4. i < N
      BY <1>5, <1>9, <1>14, <3>2
    <3> QED BY <3>1, <3>3, <3>4
  <2>2. /\ rest \in Seq(T) /\ Len(rest) = N - i + 1
        /\ \A k \in 1 .. N - i + 1 : rest[k] = w[(i + k) - 1]
    BY <1>1, <1>5, <1>9, <1>14
  <2>3. host \o rest = w
    <3> HIDE DEF host, rest, N
    <3> DEFINE all == host \o rest
    <3>1. /\ all \in Seq(T) /\ Len(all) = (i - 1) + ((N - i) + 1)
          /\ (\A k \in 1 .. i - 1 : all[k] = host[k])
      <4>1. all \in Seq(T) /\ Len(all) = Len(host) + Len(rest)
        BY <1>11, <2>2
      <4>2. \A k \in 1 .. Len(host) : all[k] = host[k]
        BY <1>11, <2>2
      <4> HIDE DEF all
      <4> QED BY <1>11, <2>2, <4>1, <4>2
    <3>2. \A k \in 1 .. (N - i) + 1 : all[(i - 1) + k] = rest[k]
      BY <1>11, <2>2
    <3> HIDE DEF all
    <3>3. Len(all) = N
      BY <1>5, <1>9, <3>1
    <3>4. ASSUME NEW k \in 1 .. N PROVE all[k] = w[k]
      <4>1. CASE k \in 1 .. i - 1
        BY <1>11, <3>1, <4>1
      <4>2. CASE k \in i .. N
        <5>1. k - (i - 1) \in 1 .. (N - i) + 1 /\ (i - 1) + (k - (i - 1)) = k
              /\ (i + (k - (i - 1))) - 1 = k
          BY <1>5, <1>9, <4>2
        <5> QED BY <2>2, <3>2, <5>1
      <4> QED BY <1>5, <1>9, <4>1, <4>2
    <3>5. all = w
      BY <1>1, <3>1, <3>3, <3>4 DEF N
    <3> QED BY <3>5 DEF all
  <2> HIDE DEF host, path, rest
  <2>4. rest # <<"/">>
    <3>1. Len(rest) # 1
      BY <1>5, <1>9, <2>1, <2>2
    <3> QED BY <3>1
  <2>5. rest[1] = "/"
    <3>1. 1 \in 1 .. (N - i) + 1 /\ (i + 1) - 1 = i
      BY <1>5, <1>9, <2>1
    <3> QED BY <1>9, <1>14, <2>2, <3>1
  <2>6. path # <<"/">> /\ path[1] = "/" /\ host \o path = w
    BY <2>1, <2>3, <2>4, <2>5
  <2> QED BY <1>3, <1>4, <1>12, <2>6
<1>15. i > N \/ i <= N
  BY <1>5, <1>9
<1> QED BY <1>13, <1>14, <1>15

\* No page is asked for at an address that begins with javascript: or with a part
\* of that word and a colon, whatever was formatted (format_url.cc:77-83).
THEOREM ScriptsAreNotAskedFor ==
  ASSUME NEW S, NEW url \in Seq(S)
  PROVE  AsksForNoScript(url)
<1> DEFINE w == format_url(url)
           f == format_url(w)
           T == S \cup Token
           N == Len(f)
           Slashes == {k \in DOMAIN f : f[k] = "/"} \cup {N + 1}
           i == Min(Slashes)
           host == SubSeq(f, 1, i - 1)
<1> SUFFICES ASSUME NEW word \in Beginnings, IsPrefix(Append(word, ":"), host)
             PROVE  FALSE
  BY DEF AsksForNoScript, parse_url
<1> DEFINE p == Append(word, ":")
<1>1. w \in Seq(T)
  <2>1. CASE w = << >>
    BY <2>1
  <2>2. CASE w # << >>
    BY <2>2, FormIs
  <2> QED BY <2>1, <2>2
<1> HIDE DEF w
<1>2. f \in Seq(T) /\ (f # << >> => ~IsScript(f))
  <2>1. CASE f = << >>
    BY <2>1
  <2>2. CASE f # << >>
    <3>1. f \in Seq(T \cup Token) /\ ~IsScript(f)
      BY <1>1, <2>2, FormIs
    <3>2. T \cup Token = T
      OBVIOUS
    <3> QED BY <3>1, <3>2
  <2> QED BY <2>1, <2>2
<1>3. p \in Seq(T) /\ Len(p) \in Nat \ {0}
  <2>1. Beginnings \subseteq Seq(T)
    BY DEF Beginnings, Token
  <2>2. ":" \in T
    BY DEF Token
  <2> HIDE DEF T
  <2>3. word \in Seq(T)
    BY <2>1
  <2> QED BY <2>2, <2>3
<1> HIDE DEF f, T
<1>4. N \in Nat /\ i \in 1 .. N + 1
  <2>1. N \in Nat /\ DOMAIN f = 1 .. N
    BY <1>2
  <2>2. Slashes \in SUBSET (1 .. N + 1) /\ Slashes # {} /\ 1 \in Int /\ N + 1 \in Int
    BY <2>1
  <2> HIDE DEF Slashes, N
  <2>3. i \in Slashes
    BY <2>2, MinBetween
  <2> QED BY <2>1, <2>2, <2>3
<1> HIDE DEF i
<1>5. host \in Seq(T) /\ Len(host) = i - 1 /\ \A k \in 1 .. i - 1 : host[k] = f[k]
  BY <1>2, <1>4
<1> HIDE DEF host, p
<1>6. IsPrefix(p, host)
  BY DEF p
<1>7. Len(p) <= i - 1 /\ \A k \in 1 .. Len(p) : p[k] = host[k]
  BY <1>3, <1>5, <1>6, PrefixIs
<1>8. Len(p) <= Len(f) /\ \A k \in 1 .. Len(p) : p[k] = f[k]
  BY <1>3, <1>4, <1>5, <1>7
<1>9. IsPrefix(p, f)
  BY <1>2, <1>3, <1>8, PrefixIs
<1>10. IsScript(f)
  BY <1>9 DEF IsScript, p
<1>11. f # << >>
  <2>1. f = << >> => Len(f) = 0
    OBVIOUS
  <2> QED BY <1>3, <1>8, <2>1
<1> QED BY <1>2, <1>10, <1>11

LEMMA CasesHaveOneUrl == CasesInv => PagesHaveOneUrl
<1> SUFFICES ASSUME CasesInv, kind = "url"
             PROVE  /\ HasOneForm(FlattenSeq(input))
                    /\ AsksForThePageItRecords(FlattenSeq(input))
                    /\ AsksForNoScript(FlattenSeq(input))
  BY DEF PagesHaveOneUrl
<1> DEFINE n == Len(input)
<1>1. input \in Seq(Alphabet.url)
  BY DEF CasesInv
<1>2. n \in Nat /\ input \in [1 .. n -> Seq(Token)]
  BY <1>1, UrlsAssumption
<1> HIDE DEF n
<1>3. PICK P : IsFlattened(P, input, n, Token)
  BY <1>2, FlattenIs
<1>4. FlattenSeq(input) \in Seq(Token)
  BY <1>2, <1>3 DEF IsFlattened, Grows
<1> QED BY <1>4, PagesAreKnownUnderOneForm, PagesAreAskedForAsRecorded, ScriptsAreNotAskedFor

\* A page is known under one URL however it is linked to, and asked for under the
\* URL it is recorded under (format_url, parse_url).
THEOREM PagesKeepOneUrl == Spec => []PagesHaveOneUrl
<1> QED BY CasesInvariant, CasesHaveOneUrl, PTL

-----------------------------------------------------------------------------
(* What a settings file says (IniParser).                                  *)

\* f is the first position of line from i on whose character is in C, or the
\* one behind its end.
IsFirst(f, line, i, C) ==
  /\ f \in 1 .. Len(line) + 1
  /\ i <= Len(line) + 1 => i <= f
  /\ f <= Len(line) => i <= f /\ line[f] \in C
  /\ \A k \in 1 .. Len(line) : i <= k /\ k < f => line[k] \notin C

LEMMA FirstIsLeastOf ==
  ASSUME NEW S, NEW line \in Seq(S), NEW i \in Nat, i # 0, NEW C, NEW T,
         T = {j \in i .. Len(line) : line[j] \in C}
  PROVE  IsFirst(Min(T \cup {Len(line) + 1}), line, i, C)
<1> DEFINE n == Len(line)
           U == T \cup {n + 1}
           f == Min(U)
<1>1. n \in Nat
  OBVIOUS
<1> HIDE DEF n
<1>2. T = {j \in i .. n : line[j] \in C}
  BY DEF n
<1>3. U \in SUBSET (1 .. n + 1) /\ U # {} /\ n + 1 \in U
  BY <1>1, <1>2
<1>4. f \in U /\ \A k \in U : f <= k
  <2>1. 1 \in Int /\ n + 1 \in Int
    BY <1>1
  <2> HIDE DEF U
  <2> QED BY <1>3, <2>1, MinBetween
<1> HIDE DEF f
<1>5. f \in 1 .. n + 1 /\ (f \in T \/ f = n + 1)
  BY <1>3, <1>4
<1>6. ASSUME NEW k \in 1 .. n, i <= k, k < f PROVE line[k] \notin C
  <2>1. k \notin U
    BY <1>1, <1>4, <1>5, <1>6
  <2> QED BY <1>1, <1>2, <1>6, <2>1
<1>7. f <= n => i <= f /\ line[f] \in C
  BY <1>1, <1>2, <1>5
<1>8. i <= n + 1 => i <= f
  BY <1>1, <1>5, <1>7
<1> QED BY <1>5, <1>6, <1>7, <1>8 DEF IsFirst, f, n, U

LEMMA FirstInIs ==
  ASSUME NEW S, NEW line \in Seq(S), NEW i \in Nat, i # 0, NEW C
  PROVE  IsFirst(FirstIn(line, i, C), line, i, C)
<1> DEFINE T == {j \in i .. Len(line) : line[j] \in C}
<1>1. T = {j \in i .. Len(line) : line[j] \in C}
  OBVIOUS
<1>2. FirstIn(line, i, C) = Min(T \cup {Len(line) + 1})
  BY DEF FirstIn
<1> HIDE DEF T
<1> QED BY <1>1, <1>2, FirstIsLeastOf

LEMMA FirstNotInIs ==
  ASSUME NEW S, NEW line \in Seq(S), NEW i \in Nat, i # 0, NEW C
  PROVE  IsFirst(FirstNotIn(line, i, C), line, i, S \ C)
<1> DEFINE T == {j \in i .. Len(line) : line[j] \in S \ C}
<1>1. \A j \in i .. Len(line) : line[j] \in S
  OBVIOUS
<1>2. T = {j \in i .. Len(line) : line[j] \notin C}
  BY <1>1
<1>3. FirstNotIn(line, i, C) = Min(T \cup {Len(line) + 1})
  BY <1>2 DEF FirstNotIn
<1>4. T = {j \in i .. Len(line) : line[j] \in S \ C}
  OBVIOUS
<1> HIDE DEF T
<1> QED BY <1>3, <1>4, FirstIsLeastOf

\* A part p of a line, and the characters in it.
IsPart(p, S, line, a, b) ==
  p \in Seq(S) /\ Len(p) = (b - a) + 1 /\ Range(p) = {line[k] : k \in a .. b}

LEMMA PartIs ==
  ASSUME NEW S, NEW line \in Seq(S), NEW a \in 1 .. Len(line) + 1, NEW b \in a - 1 .. Len(line)
  PROVE  IsPart(SubSeq(line, a, b), S, line, a, b)
<1> DEFINE p == SubSeq(line, a, b)
           n == (b - a) + 1
<1>1. p \in Seq(S) /\ Len(p) = n /\ n \in Nat
  OBVIOUS
<1>2. \A k \in 1 .. n : p[k] = line[a + k - 1] /\ a + k - 1 \in a .. b
  OBVIOUS
<1>3. \A k \in a .. b : (k - a) + 1 \in 1 .. n /\ a + ((k - a) + 1) - 1 = k
  OBVIOUS
<1>4. DOMAIN p = 1 .. n
  BY <1>1
<1> HIDE DEF p, n
<1>5. Range(p) = {line[k] : k \in a .. b}
  <2>1. ASSUME NEW x \in Range(p) PROVE x \in {line[k] : k \in a .. b}
    <3>1. PICK k \in 1 .. n : x = p[k]
      BY <1>4 DEF Range
    <3> QED BY <1>2, <3>1
  <2>2. ASSUME NEW k \in a .. b PROVE line[k] \in Range(p)
    <3>1. (k - a) + 1 \in 1 .. n
      BY <1>3
    <3>2. p[(k - a) + 1] = line[k]
      BY <1>2, <1>3
    <3> QED BY <1>4, <3>1, <3>2 DEF Range
  <2> QED BY <2>1, <2>2
<1> QED BY <1>1, <1>5 DEF IsPart, p, n

LEMMA SignIsNoBlank == "=" \notin Blank
  BY DEF Blank

\* e is where the first = of a line stands.
IsFirstSign(line, e) ==
  /\ e \in 1 .. Len(line) /\ line[e] = "=" /\ \A k \in 1 .. e - 1 : line[k] # "="

\* The only word before the = at e stands from i to before j.
IsOnlyName(S, line, e, i, j) ==
  /\ i <= j /\ j <= e
  /\ \A p \in Seq(S) : IsNamed(line, e, p) <=> p = SubSeq(line, i, j - 1)

LEMMA NamedIs ==
  ASSUME NEW S, NEW line \in Seq(S), NEW e, IsFirstSign(line, e),
         NEW i, IsFirst(i, line, 1, S \ Blank),
         NEW j, IsFirst(j, line, i, Blank \cup {"="})
  PROVE  IsOnlyName(S, line, e, i, j)
<1> DEFINE n == Len(line)
           Sign == {"="}
<1>0. n \in Nat /\ \A k \in 1 .. n : line[k] \in S
  OBVIOUS
<1>1. e \in 1 .. n /\ line[e] \in Sign /\ \A k \in 1 .. e - 1 : line[k] \notin Sign
  BY DEF IsFirstSign
<1>2. /\ i \in 1 .. n + 1 /\ 1 <= i
      /\ i <= n => line[i] \in S \ Blank
      /\ \A k \in 1 .. n : 1 <= k /\ k < i => line[k] \notin S \ Blank
  BY DEF IsFirst
<1>3. /\ j \in 1 .. n + 1 /\ (i <= n + 1 => i <= j)
      /\ j <= n => i <= j /\ line[j] \in Blank \cup Sign
      /\ \A k \in 1 .. n : i <= k /\ k < j => line[k] \notin Blank \cup Sign
  BY DEF IsFirst
<1>4. \A x \in Sign : x \notin Blank
  BY SignIsNoBlank
<1>5. \A p : IsNamed(line, e, p) <=>
         \E a \in 1 .. e :
           /\ a + Len(p) <= e /\ p = SubSeq(line, a, a + Len(p) - 1)
           /\ Range(SubSeq(line, 1, a - 1)) \subseteq Blank /\ line[a] \notin Blank
           /\ Range(p) \cap Blank = {} /\ line[a + Len(p)] \in Blank \cup Sign
  BY DEF IsNamed
<1> HIDE DEF Sign, n
<1>6. i <= e
  BY <1>0, <1>1, <1>2, <1>4
<1>7. i <= j /\ j <= e /\ j <= n
  BY <1>0, <1>1, <1>2, <1>3, <1>6
<1> DEFINE w == SubSeq(line, i, j - 1)
<1>8. i \in 1 .. n /\ j \in i .. e
  BY <1>0, <1>1, <1>2, <1>3, <1>6, <1>7
<1>9. w \in Seq(S) /\ Len(w) = j - i /\ Range(w) = {line[k] : k \in i .. j - 1}
  <2>1. i \in 1 .. Len(line) + 1 /\ j - 1 \in i - 1 .. Len(line) /\ ((j - 1) - i) + 1 = j - i
    BY <1>0, <1>1, <1>8 DEF n
  <2> HIDE DEF w
  <2>2. IsPart(w, S, line, i, j - 1)
    BY <2>1, PartIs, Zenon DEF w
  <2> QED BY <2>1, <2>2 DEF IsPart
<1>10. Range(SubSeq(line, 1, i - 1)) \subseteq Blank
  <2>1. 1 \in 1 .. Len(line) + 1 /\ i - 1 \in 1 - 1 .. Len(line)
    BY <1>0, <1>8 DEF n
  <2>2. Range(SubSeq(line, 1, i - 1)) = {line[k] : k \in 1 .. i - 1}
    BY <2>1, PartIs DEF IsPart
  <2>3. \A k \in 1 .. i - 1 : line[k] \in Blank
    BY <1>0, <1>2, <1>8
  <2> QED BY <2>2, <2>3
<1>11. IsNamed(line, e, w)
  <2>1. i \in 1 .. e /\ i + Len(w) = j
    BY <1>1, <1>8, <1>9
  <2>2. Range(w) \cap Blank = {}
    <3>1. \A k \in i .. j - 1 : line[k] \notin Blank
      BY <1>0, <1>1, <1>3, <1>8
    <3> QED BY <1>9, <3>1
  <2>3. line[i] \notin Blank /\ line[j] \in Blank \cup Sign
    BY <1>2, <1>3, <1>7, <1>8
  <2>4. w = SubSeq(line, i, i + Len(w) - 1)
    <3>1. i + Len(w) - 1 = j - 1
      BY <1>8, <1>9
    <3> QED BY <3>1
  <2> HIDE DEF w
  <2> QED BY <1>5, <1>7, <1>10, <2>1, <2>2, <2>3, <2>4
<1>12. ASSUME NEW p \in Seq(S), IsNamed(line, e, p) PROVE p = w
  <2> DEFINE m == Len(p)
  <2>0. m \in Nat
    OBVIOUS
  <2>1. PICK a \in 1 .. e :
           /\ a + m <= e /\ p = SubSeq(line, a, a + m - 1)
           /\ Range(SubSeq(line, 1, a - 1)) \subseteq Blank /\ line[a] \notin Blank
           /\ Range(p) \cap Blank = {} /\ line[a + m] \in Blank \cup Sign
    BY <1>5, <1>12
  <2> HIDE DEF m
  <2>2. \A k \in 1 .. a - 1 : line[k] \in Blank
    <3>1. 1 \in 1 .. Len(line) + 1 /\ a - 1 \in 1 - 1 .. Len(line)
      BY <1>0, <1>1 DEF n
    <3>2. Range(SubSeq(line, 1, a - 1)) = {line[k] : k \in 1 .. a - 1}
      BY <3>1, PartIs DEF IsPart
    <3> QED BY <2>1, <3>2
  <2>3. a = i
    <3>1. CASE a < i
      BY <1>0, <1>1, <1>2, <2>1, <3>1
    <3>2. CASE a > i
      <4>1. line[i] \in Blank
        BY <1>8, <2>2, <3>2
      <4> QED BY <1>2, <1>8, <4>1
    <3> QED BY <1>1, <1>8, <3>1, <3>2
  <2>4. Range(p) = {line[k] : k \in i .. i + m - 1}
    <3>1. i \in 1 .. Len(line) + 1 /\ i + m - 1 \in i - 1 .. Len(line)
      <4>1. a + m <= e
        BY <2>1
      <4>2. i \in 1 .. n /\ e \in 1 .. n
        BY <1>1, <1>8
      <4>3. i + m <= e
        BY <2>3, <4>1
      <4> HIDE DEF n
      <4>4. i \in 1 .. n + 1 /\ i + m - 1 \in i - 1 .. n
        BY <1>0, <2>0, <4>2, <4>3
      <4> QED BY <4>4 DEF n
    <3>2. p = SubSeq(line, i, i + m - 1)
      BY <2>1, <2>3
    <3>3. IsPart(p, S, line, i, i + m - 1)
      BY <3>1, <3>2, PartIs, Zenon
    <3> QED BY <3>3 DEF IsPart
  <2>5. ASSUME i + m < j PROVE FALSE
    <3>1. i + m \in 1 .. n /\ i <= i + m
      BY <1>0, <1>1, <1>8, <2>0, <2>5
    <3>2. line[i + m] \in Blank \cup Sign
      BY <2>1, <2>3
    <3> QED BY <1>3, <2>5, <3>1, <3>2
  <2>6. ASSUME i + m > j PROVE FALSE
    <3>1. line[j] \in Range(p) /\ j \in 1 .. e - 1
      BY <1>1, <1>8, <2>0, <2>1, <2>3, <2>4, <2>6
    <3>2. line[j] \in Blank \cup Sign
      BY <1>3, <1>7
    <3> QED BY <1>1, <2>1, <3>1, <3>2
  <2>7. i + m = j
    <3>1. i \in Int /\ j \in Int
      BY <1>8
    <3> QED BY <2>0, <2>5, <2>6, <3>1
  <2>8. i + m - 1 = j - 1
    BY <1>8, <2>0, <2>7
  <2>9. p = SubSeq(line, i, i + m - 1)
    BY <2>1, <2>3
  <2> QED BY <2>8, <2>9
<1>13. \A p \in Seq(S) : IsNamed(line, e, p) <=> p = w
  <2> HIDE DEF w
  <2> QED BY <1>11, <1>12
<1> QED BY <1>7, <1>13 DEF IsOnlyName

\* The only value behind the = at e stands from v to before w, if there is any.
IsOnlyValue(S, line, e, v, w) ==
  /\ v > Len(line) => \A p \in Seq(S) : ~IsGiven(line, e, p)
  /\ v <= Len(line) =>
       /\ v < w
       /\ \A p \in Seq(S) : IsGiven(line, e, p) <=> p = SubSeq(line, v, w - 1)

LEMMA GivenIs ==
  ASSUME NEW S, NEW line \in Seq(S), NEW e \in 1 .. Len(line),
         NEW v, IsFirst(v, line, e + 1, S \ Blank),
         NEW w, IsFirst(w, line, v, Blank)
  PROVE  IsOnlyValue(S, line, e, v, w)
<1> DEFINE n == Len(line)
<1>0. n \in Nat /\ \A k \in 1 .. n : line[k] \in S
  OBVIOUS
<1>1. e \in 1 .. n
  OBVIOUS
<1>2. /\ v \in 1 .. n + 1 /\ (e + 1 <= n + 1 => e + 1 <= v)
      /\ v <= n => line[v] \in S \ Blank
      /\ \A k \in 1 .. n : e + 1 <= k /\ k < v => line[k] \notin S \ Blank
  BY DEF IsFirst
<1>3. /\ w \in 1 .. n + 1 /\ (v <= n + 1 => v <= w)
      /\ w <= n => line[w] \in Blank
      /\ \A k \in 1 .. n : v <= k /\ k < w => line[k] \notin Blank
  BY DEF IsFirst
<1>4. \A p : IsGiven(line, e, p) <=>
         \E a \in e + 1 .. n :
           /\ a + Len(p) - 1 <= n /\ p = SubSeq(line, a, a + Len(p) - 1)
           /\ Range(SubSeq(line, e + 1, a - 1)) \subseteq Blank
           /\ p # << >> /\ Range(p) \cap Blank = {}
           /\ a + Len(p) <= n => line[a + Len(p)] \in Blank
  BY DEF IsGiven
<1> HIDE DEF n
<1>5. v \in e + 1 .. n + 1 /\ w \in v .. n + 1
  BY <1>0, <1>1, <1>2, <1>3
<1>6. ASSUME NEW a \in e + 1 .. n
      PROVE  Range(SubSeq(line, e + 1, a - 1)) = {line[k] : k \in e + 1 .. a - 1}
  <2>1. e + 1 \in 1 .. Len(line) + 1 /\ a - 1 \in (e + 1) - 1 .. Len(line)
    BY <1>0, <1>1 DEF n
  <2> QED BY <2>1, PartIs DEF IsPart
<1>7. ASSUME NEW p \in Seq(S), IsGiven(line, e, p)
      PROVE  v <= n /\ p = SubSeq(line, v, w - 1)
  <2> DEFINE m == Len(p)
  <2>0. m \in Nat /\ (p # << >> => m > 0)
    OBVIOUS
  <2>1. PICK a \in e + 1 .. n :
           /\ a + m - 1 <= n /\ p = SubSeq(line, a, a + m - 1)
           /\ Range(SubSeq(line, e + 1, a - 1)) \subseteq Blank
           /\ p # << >> /\ Range(p) \cap Blank = {}
           /\ a + m <= n => line[a + m] \in Blank
    BY <1>4, <1>7
  <2> HIDE DEF m
  <2>2. Range(p) = {line[k] : k \in a .. a + m - 1}
    <3>1. a \in 1 .. Len(line) + 1 /\ a + m - 1 \in a - 1 .. Len(line)
      BY <1>0, <1>1, <2>0, <2>1 DEF n
    <3> QED BY <2>1, <3>1, PartIs DEF IsPart
  <2>3. \A k \in e + 1 .. a - 1 : line[k] \in Blank
    BY <1>6, <2>1
  <2>4. \A k \in a .. a + m - 1 : line[k] \notin Blank
    BY <2>1, <2>2
  <2>5. a = v
    <3>1. CASE a < v
      <4>1. line[a] \notin Blank
        BY <2>0, <2>1, <2>4
      <4> QED BY <1>0, <1>1, <1>2, <3>1, <4>1
    <3>2. CASE a > v
      <4>1. v \in e + 1 .. a - 1 /\ v <= n
        BY <1>0, <1>1, <1>5, <3>2
      <4> QED BY <1>2, <2>3, <4>1
    <3> QED BY <1>0, <1>1, <1>5, <3>1, <3>2
  <2>6. ASSUME v + m < w PROVE FALSE
    <3>1. v + m \in 1 .. n
      BY <1>0, <1>1, <1>5, <2>0, <2>6
    <3>2. line[v + m] \in Blank
      BY <2>1, <2>5, <3>1
    <3> QED BY <1>3, <1>5, <2>0, <2>6, <3>1, <3>2
  <2>7. ASSUME v + m > w PROVE FALSE
    <3>1. w \in a .. a + m - 1 /\ w <= n
      BY <1>0, <1>1, <1>5, <2>0, <2>1, <2>5, <2>7
    <3> QED BY <1>3, <2>4, <3>1
  <2>8. v + m = w
    <3>1. v \in Int /\ w \in Int
      BY <1>5
    <3> QED BY <2>0, <2>6, <2>7, <3>1
  <2>9. v + m - 1 = w - 1
    BY <1>5, <2>0, <2>8
  <2>10. p = SubSeq(line, v, v + m - 1) /\ v <= n
    BY <1>0, <1>1, <2>1, <2>5
  <2> QED BY <2>9, <2>10
<1>8. ASSUME v <= n PROVE v < w /\ IsGiven(line, e, SubSeq(line, v, w - 1))
  <2> DEFINE p == SubSeq(line, v, w - 1)
  <2>1. v < w
    <3>1. v # w
      BY <1>2, <1>3, <1>8
    <3> QED BY <1>0, <1>1, <1>5, <3>1
  <2>2. p \in Seq(S) /\ Len(p) = w - v /\ Range(p) = {line[k] : k \in v .. w - 1}
    <3>1. v \in 1 .. Len(line) + 1 /\ w - 1 \in v - 1 .. Len(line) /\ ((w - 1) - v) + 1 = w - v
      BY <1>0, <1>1, <1>5 DEF n
    <3> QED BY <3>1, PartIs DEF IsPart
  <2>3. v \in e + 1 .. n /\ v + Len(p) = w
    BY <1>0, <1>1, <1>5, <1>8, <2>2
  <2>4. Range(SubSeq(line, e + 1, v - 1)) \subseteq Blank
    <3>1. \A k \in e + 1 .. v - 1 : line[k] \in Blank
      BY <1>0, <1>1, <1>2, <1>5
    <3> QED BY <1>6, <2>3, <3>1
  <2>5. Range(p) \cap Blank = {}
    <3>1. \A k \in v .. w - 1 : line[k] \notin Blank
      BY <1>0, <1>1, <1>3, <1>5
    <3> QED BY <2>2, <3>1
  <2>6. p # << >>
    <3>1. Len(p) # 0
      BY <1>0, <1>1, <1>5, <2>1, <2>2
    <3>2. Len(<< >>) = 0
      OBVIOUS
    <3> HIDE DEF p
    <3> QED BY <3>1, <3>2
  <2>7. w <= n => line[w] \in Blank
    BY <1>3
  <2>8. p = SubSeq(line, v, v + Len(p) - 1) /\ v + Len(p) - 1 <= n
    BY <1>0, <1>1, <1>5, <2>3
  <2> HIDE DEF p
  <2>9. IsGiven(line, e, p)
    BY <1>4, <2>3, <2>4, <2>5, <2>6, <2>7, <2>8
  <2> QED BY <2>1, <2>9 DEF p
<1>9. v <= n => v < w /\ IsGiven(line, e, SubSeq(line, v, w - 1))
  BY <1>8
<1>10. \A p \in Seq(S) : IsGiven(line, e, p) => v <= n /\ p = SubSeq(line, v, w - 1)
  BY <1>7
<1>11. n = Len(line) /\ (v > n => ~(v <= n))
  BY <1>0, <1>1, <1>5 DEF n
<1> QED BY <1>9, <1>10, <1>11 DEF IsOnlyValue

Assignment(S) == [attr : Seq(S), value : Seq(S)]

\* What a line sets is what it says.
SetsWhatItSays(S, line) ==
  \/ Setting(line) = << >> /\ Says(line) = {}
  \/ \E s \in Assignment(S) : Setting(line) = <<s>> /\ Says(line) = {<<s.attr, s.value>>}

LEMMA SettingIs ==
  ASSUME NEW S, NEW line \in Seq(S), IsKept(line)
  PROVE  SetsWhatItSays(S, line)
<1> DEFINE n == Len(line)
           Sign == {"="}
           i == FirstNotIn(line, 1, Blank)
           j == FirstIn(line, i, Blank \cup {"="})
           equals == FirstIn(line, j, Sign)
           v == FirstNotIn(line, equals + 1, Blank)
           w == FirstIn(line, v, Blank)
           s == [attr |-> SubSeq(line, i, j - 1), value |-> SubSeq(line, v, w - 1)]
           pieces == {SubSeq(line, x, y) : x \in DOMAIN line, y \in 0 .. Len(line)}
           signs == {x \in DOMAIN line : line[x] = "=" /\ \A k \in 1 .. x - 1 : line[k] # "="}
           Said(e) == {p \in pieces : IsNamed(line, e, p)} \X {p \in pieces : IsGiven(line, e, p)}
<1>1. Setting(line) = IF v > n THEN << >> ELSE <<s>>
  BY DEF Setting
<1>2. Says(line) = UNION {Said(e) : e \in signs}
  BY DEF Says
<1>3. signs = {x \in 1 .. n : IsFirstSign(line, x)}
  <2>1. DOMAIN line = 1 .. n
    OBVIOUS
  <2> QED BY <2>1 DEF IsFirstSign
<1>4. n \in Nat /\ \A k \in 1 .. n : line[k] \in S
  OBVIOUS
<1>5. \A p \in pieces : p \in Seq(S)
  <2>1. ASSUME NEW x \in DOMAIN line, NEW y \in 0 .. Len(line)
        PROVE  SubSeq(line, x, y) \in Seq(S)
    OBVIOUS
  <2>2. \A p \in pieces : \E x \in DOMAIN line, y \in 0 .. Len(line) : p = SubSeq(line, x, y)
    OBVIOUS
  <2> HIDE DEF pieces
  <2> QED BY <2>1, <2>2
<1>6. \A x \in 1 .. n, y \in 0 .. n : SubSeq(line, x, y) \in pieces
  <2>1. DOMAIN line = 1 .. n
    OBVIOUS
  <2>2. \A x \in DOMAIN line, y \in 0 .. Len(line) : SubSeq(line, x, y) \in pieces
    OBVIOUS
  <2> HIDE DEF pieces
  <2> QED BY <2>1, <2>2
<1>7. Says(line) = UNION {Said(e) : e \in signs}
      /\ \A e : Said(e) = {p \in pieces : IsNamed(line, e, p)} \X {p \in pieces : IsGiven(line, e, p)}
  BY <1>2
<1>8. IsFirst(i, line, 1, S \ Blank) /\ i \in 1 .. n + 1
  <2>1. 1 \in Nat /\ 1 # 0
    OBVIOUS
  <2>2. IsFirst(i, line, 1, S \ Blank)
    BY <2>1, FirstNotInIs
  <2> HIDE DEF i
  <2> QED BY <2>2 DEF IsFirst
<1>9. IsFirst(j, line, i, Blank \cup {"="}) /\ j \in 1 .. n + 1
  <2>1. i \in Nat /\ i # 0
    <3> HIDE DEF i, n
    <3> QED BY <1>4, <1>8
  <2> HIDE DEF i
  <2>2. IsFirst(j, line, i, Blank \cup {"="})
    BY <2>1, FirstInIs
  <2> HIDE DEF j
  <2> QED BY <2>2 DEF IsFirst
<1> HIDE DEF i
<1>10. IsFirst(equals, line, j, Sign) /\ equals \in 1 .. n + 1
  <2>1. j \in Nat /\ j # 0
    <3> HIDE DEF j, n
    <3> QED BY <1>4, <1>9
  <2> HIDE DEF j, Sign
  <2>2. IsFirst(equals, line, j, Sign)
    BY <2>1, FirstInIs
  <2> HIDE DEF equals
  <2> QED BY <2>2 DEF IsFirst
<1> HIDE DEF j
<1>11. IsFirst(v, line, equals + 1, S \ Blank) /\ v \in 1 .. n + 1
  <2>1. equals + 1 \in Nat /\ equals + 1 # 0
    <3> HIDE DEF equals, n
    <3> QED BY <1>4, <1>10
  <2> HIDE DEF equals
  <2>2. IsFirst(v, line, equals + 1, S \ Blank)
    BY <2>1, FirstNotInIs
  <2> HIDE DEF v
  <2> QED BY <2>2 DEF IsFirst
<1> HIDE DEF equals
<1>12. IsFirst(w, line, v, Blank) /\ w \in 1 .. n + 1
  <2>1. v \in Nat /\ v # 0
    <3> HIDE DEF v, n
    <3> QED BY <1>4, <1>11
  <2> HIDE DEF v
  <2>2. IsFirst(w, line, v, Blank)
    BY <2>1, FirstInIs
  <2> HIDE DEF w
  <2> QED BY <2>2 DEF IsFirst
<1> HIDE DEF v, w, n, pieces, signs, Said
<1>13. CASE signs = {}
  <2>1. \A k \in 1 .. n : line[k] \notin Sign
    <3> DEFINE T == {k \in 1 .. n : line[k] \in Sign}
    <3>1. SUFFICES ASSUME T # {} PROVE FALSE
      OBVIOUS
    <3>2. T \in SUBSET (1 .. n) /\ 1 \in Int /\ n \in Int
      BY <1>4
    <3>3. PICK m : m \in T /\ \A k \in T : m <= k
      <4> HIDE DEF T
      <4> QED BY <3>1, <3>2, MinBetween
    <3>4. m \in 1 .. n /\ \A k \in 1 .. m - 1 : line[k] \notin Sign
      BY <1>4, <3>3
    <3>5. IsFirstSign(line, m)
      BY <3>3, <3>4 DEF IsFirstSign, n
    <3> QED BY <1>3, <1>13, <3>4, <3>5
  <2> HIDE DEF Sign
  <2>2. equals = n + 1
    BY <1>4, <1>10, <2>1 DEF IsFirst, n
  <2>3. v > n
    BY <1>4, <1>11, <2>2 DEF IsFirst, n
  <2>4. Says(line) = {}
    BY <1>7, <1>13
  <2> QED BY <1>1, <2>3, <2>4 DEF SetsWhatItSays
<1>14. CASE signs # {}
  <2>1. PICK e \in 1 .. n : IsFirstSign(line, e)
    BY <1>3, <1>14
  <2>2. signs = {e}
    BY <1>3, <1>4, <2>1 DEF IsFirstSign
  <2>3. Says(line) = Said(e)
    BY <1>7, <2>2
  <2>4. /\ i <= j /\ j <= e
        /\ \A p \in Seq(S) : IsNamed(line, e, p) <=> p = SubSeq(line, i, j - 1)
    <3>1. IsOnlyName(S, line, e, i, j)
      BY <1>8, <1>9, <2>1, NamedIs, Zenon
    <3> QED BY <3>1 DEF IsOnlyName
  <2>5. equals = e
    <3>1. line[e] \in Sign /\ \A k \in 1 .. e - 1 : line[k] \notin Sign
      BY <2>1 DEF IsFirstSign
    <3> HIDE DEF Sign
    <3>2. equals <= e
      BY <1>4, <1>9, <1>10, <2>1, <2>4, <3>1 DEF IsFirst, n
    <3>3. line[equals] \in Sign
      BY <1>4, <1>10, <2>1, <3>2 DEF IsFirst, n
    <3> QED BY <1>4, <1>10, <2>1, <3>1, <3>2, <3>3
  <2>6. /\ v > n => \A p \in Seq(S) : ~IsGiven(line, e, p)
        /\ v <= n => /\ v < w
                     /\ \A p \in Seq(S) : IsGiven(line, e, p) <=> p = SubSeq(line, v, w - 1)
    <3>1. e \in 1 .. Len(line) /\ IsFirst(v, line, e + 1, S \ Blank)
      BY <1>11, <2>1, <2>5 DEF n
    <3>2. IsOnlyValue(S, line, e, v, w)
      BY <1>12, <3>1, GivenIs, Zenon
    <3> QED BY <3>2 DEF IsOnlyValue, n
  <2>7. CASE v > n
    <3>1. Says(line) = {}
      BY <1>5, <1>7, <2>3, <2>6, <2>7
    <3> QED BY <1>1, <2>7, <3>1 DEF SetsWhatItSays
  <2>8. CASE v <= n
    <3> DEFINE a == SubSeq(line, i, j - 1)
               b == SubSeq(line, v, w - 1)
    <3>1. i \in 1 .. n /\ j - 1 \in 0 .. n /\ v \in 1 .. n /\ w - 1 \in 0 .. n
      BY <1>4, <1>8, <1>9, <1>11, <1>12, <2>1, <2>4, <2>8
    <3>2. a \in pieces /\ b \in pieces
      BY <1>6, <3>1
    <3>3. a \in Seq(S) /\ b \in Seq(S)
      BY <1>5, <3>2
    <3>4. s = [attr |-> a, value |-> b]
      OBVIOUS
    <3>5. /\ \A p \in Seq(S) : IsNamed(line, e, p) <=> p = a
          /\ \A p \in Seq(S) : IsGiven(line, e, p) <=> p = b
      BY <2>4, <2>6, <2>8
    <3> HIDE DEF a, b, s
    <3>6. {p \in pieces : IsNamed(line, e, p)} = {a} /\ {p \in pieces : IsGiven(line, e, p)} = {b}
      BY <1>5, <3>2, <3>5
    <3>7. Said(e) = {<<a, b>>}
      <4>1. Said(e) = {a} \X {b}
        BY <1>7, <3>6
      <4> QED BY <4>1
    <3>8. s \in Assignment(S) /\ s.attr = a /\ s.value = b
      BY <3>3, <3>4 DEF Assignment
    <3>9. Setting(line) = <<s>>
      BY <1>1, <1>4, <1>11, <2>8
    <3> QED BY <2>3, <3>7, <3>8, <3>9 DEF SetsWhatItSays
  <2> QED BY <1>4, <1>11, <2>7, <2>8
<1> QED BY <1>13, <1>14

\* F is made of what the sequences of T hold, each at most one, in their order.
IsSifted(F, T, n, pos) ==
  /\ pos \in [1 .. Len(F) -> 1 .. n]
  /\ \A i \in 1 .. Len(F) : T[pos[i]] = <<F[i]>>
  /\ \A i, j \in 1 .. Len(F) : i < j => pos[i] < pos[j]
  /\ \A k \in 1 .. n : T[k] # << >> => \E i \in 1 .. Len(F) : pos[i] = k

HasSifted(F, T, n) == \E pos : IsSifted(F, T, n, pos)

LEMMA OneLong ==
  ASSUME NEW A, NEW t \in Seq(A), t # << >>, Len(t) <= 1
  PROVE  Len(t) = 1 /\ t = <<t[1]>>
<1> DEFINE l == Len(t)
<1>1. l \in Nat /\ l # 0 /\ l <= 1
  OBVIOUS
<1>2. Len(t) = 1
  <2> HIDE DEF l
  <2>1. l = 1
    BY <1>1
  <2> QED BY <2>1 DEF l
<1>3. t[1] \in A
  BY <1>2
<1>4. <<t[1]>> \in Seq(A) /\ Len(<<t[1]>>) = 1 /\ <<t[1]>>[1] = t[1]
  BY <1>3
<1>5. \A i \in 1 .. 1 : i = 1
  OBVIOUS
<1> QED BY <1>2, <1>4, <1>5

LEMMA OneMoreSifted ==
  ASSUME NEW A, NEW n \in Nat, NEW T, NEW F \in Seq(A), NEW k \in Nat, HasSifted(F, T, k),
         T[k + 1] \in Seq(A), Len(T[k + 1]) <= 1
  PROVE  HasSifted(F \o T[k + 1], T, k + 1)
<1> DEFINE t == T[k + 1]
           m == Len(F)
           G == F \o t
<1>1. PICK pos : IsSifted(F, T, k, pos)
  BY DEF HasSifted
<1>2. /\ pos \in [1 .. m -> 1 .. k]
      /\ \A i \in 1 .. m : T[pos[i]] = <<F[i]>>
      /\ \A i, j \in 1 .. m : i < j => pos[i] < pos[j]
      /\ \A l \in 1 .. k : T[l] # << >> => \E i \in 1 .. m : pos[i] = l
  BY <1>1 DEF IsSifted
<1>3. /\ m \in Nat /\ t \in Seq(A) /\ Len(t) \in Nat /\ Len(t) <= 1
      /\ t = << >> \/ Len(t) > 0
  <2>1. t \in Seq(A) /\ Len(t) <= 1
    OBVIOUS
  <2>2. m \in Nat
    OBVIOUS
  <2> HIDE DEF t, m
  <2>3. Len(t) \in Nat /\ (t = << >> \/ Len(t) > 0)
    BY <2>1
  <2> QED BY <2>1, <2>2, <2>3
<1>4. \A l \in 1 .. k + 1 : l \in 1 .. k \/ l = k + 1
  OBVIOUS
<1> HIDE DEF t
<1>5. CASE t = << >>
  <2>1. G = F
    BY <1>5
  <2>2. pos \in [1 .. m -> 1 .. k + 1]
    BY <1>2
  <2>3. \A l \in 1 .. k + 1 : T[l] # << >> => \E i \in 1 .. m : pos[i] = l
    BY <1>2, <1>4, <1>5 DEF t
  <2> HIDE DEF G
  <2>4. IsSifted(G, T, k + 1, pos)
    BY <1>2, <2>1, <2>2, <2>3 DEF IsSifted, m
  <2> QED BY <2>4 DEF HasSifted, G, t
<1>6. CASE t # << >>
  <2> DEFINE q == [i \in 1 .. m + 1 |-> IF i = m + 1 THEN k + 1 ELSE pos[i]]
  <2>1. Len(t) = 1 /\ t = <<t[1]>>
    BY <1>3, <1>6, OneLong
  <2>2. Len(G) = m + 1 /\ G[m + 1] = t[1] /\ \A i \in 1 .. m : G[i] = F[i]
    <3>1. Len(G) = m + Len(t) /\ \A i \in 1 .. m : G[i] = F[i]
      BY <1>3
    <3>2. \A i \in 1 .. Len(t) : G[m + i] = t[i]
      BY <1>3
    <3> HIDE DEF G, m
    <3> QED BY <2>1, <3>1, <3>2
  <2>3. /\ \A i \in 1 .. m + 1 : i \in 1 .. m \/ i = m + 1
        /\ \A i \in 1 .. m : i \in 1 .. m + 1 /\ i # m + 1
        /\ m + 1 \in 1 .. m + 1
    BY <1>3
  <2> HIDE DEF G, m
  <2>4. q \in [1 .. m + 1 -> 1 .. k + 1]
    BY <1>2, <2>3
  <2>5. q[m + 1] = k + 1 /\ \A i \in 1 .. m : q[i] = pos[i] /\ pos[i] \in 1 .. k
    BY <1>2, <2>3
  <2> HIDE DEF q
  <2>6. \A i \in 1 .. m + 1 : T[q[i]] = <<G[i]>>
    BY <1>2, <2>1, <2>2, <2>3, <2>5 DEF t
  <2>7. ASSUME NEW i \in 1 .. m + 1, NEW j \in 1 .. m + 1, i < j PROVE q[i] < q[j]
    <3>1. i \in 1 .. m
      BY <1>3, <2>7
    <3>2. CASE j \in 1 .. m
      BY <1>2, <2>5, <2>7, <3>1, <3>2
    <3>3. CASE j = m + 1
      <4>1. pos[i] \in 1 .. k /\ q[i] = pos[i] /\ q[j] = k + 1
        BY <2>5, <3>1, <3>3
      <4> QED BY <4>1
    <3> QED BY <2>3, <3>2, <3>3
  <2>8. ASSUME NEW l \in 1 .. k + 1, T[l] # << >> PROVE \E i \in 1 .. m + 1 : q[i] = l
    <3>1. CASE l \in 1 .. k
      BY <1>2, <2>3, <2>5, <2>8, <3>1
    <3>2. CASE l = k + 1
      BY <2>3, <2>5, <3>2
    <3> QED BY <1>4, <3>1, <3>2
  <2>9. IsSifted(G, T, k + 1, q)
    BY <2>2, <2>4, <2>6, <2>7, <2>8 DEF IsSifted
  <2> QED BY <2>9 DEF HasSifted, G, t
<1> QED BY <1>5, <1>6

LEMMA FlattenSifts ==
  ASSUME NEW A, NEW n \in Nat, NEW T \in [1 .. n -> Seq(A)], \A k \in 1 .. n : Len(T[k]) <= 1
  PROVE  FlattenSeq(T) \in Seq(A) /\ HasSifted(FlattenSeq(T), T, n)
<1>1. PICK P : IsFlattened(P, T, n, A)
  BY FlattenIs
<1>2. /\ P \in [0 .. n -> Seq(A)] /\ P[0] = << >>
      /\ \A k \in 1 .. n : P[k] = P[k - 1] \o T[k]
      /\ FlattenSeq(T) = P[n]
  BY <1>1 DEF IsFlattened, Grows
<1> DEFINE U == {k \in 0 .. n : HasSifted(P[k], T, k)}
<1>3. 0 \in U
  <2> DEFINE none == << >>
  <2>1. Len(none) = 0 /\ 1 .. 0 = {} /\ none \in [1 .. 0 -> 1 .. 0]
    OBVIOUS
  <2> HIDE DEF none
  <2>2. IsSifted(none, T, 0, none)
    BY <2>1 DEF IsSifted
  <2>3. HasSifted(P[0], T, 0)
    BY <1>2, <2>2 DEF HasSifted, none
  <2> QED BY <2>3
<1>4. ASSUME NEW k \in 1 .. n, k - 1 \in U PROVE k \in U
  <2>1. k - 1 \in Nat /\ (k - 1) + 1 = k /\ k \in 0 .. n /\ k - 1 \in 0 .. n
    OBVIOUS
  <2>2. P[k - 1] \in Seq(A) /\ HasSifted(P[k - 1], T, k - 1) /\ T[k] \in Seq(A) /\ Len(T[k]) <= 1
    BY <1>2, <1>4, <2>1
  <2> DEFINE j == k - 1
  <2>3. j \in Nat /\ P[j] \in Seq(A) /\ HasSifted(P[j], T, j) /\ T[j + 1] \in Seq(A)
        /\ Len(T[j + 1]) <= 1 /\ j + 1 = k
    BY <2>1, <2>2
  <2> HIDE DEF j
  <2>4. HasSifted(P[j] \o T[j + 1], T, j + 1)
    BY <2>3, OneMoreSifted
  <2>5. P[k] = P[j] \o T[j + 1]
    BY <1>2, <2>3 DEF j
  <2>6. HasSifted(P[k], T, k)
    BY <2>3, <2>4, <2>5
  <2> QED BY <2>1, <2>6
<1> HIDE DEF U
<1>5. n \in U
  <2>1. \A k \in 1 .. n : k - 1 \in U => k \in U
    BY <1>4
  <2>2. \A k \in 0 .. n : k \in U
    BY <1>3, <2>1, UpTo, Zenon
  <2> QED BY <2>2
<1>6. HasSifted(P[n], T, n) /\ P[n] \in Seq(A)
  BY <1>2, <1>5 DEF U
<1> QED BY <1>2, <1>6

LEMMA LinesBetween ==
  ASSUME NEW S, NEW text \in Seq(S), NEW n \in Nat, n <= Len(text) + 1, NEW ends \in Seq(1 .. n)
  PROVE  [k \in DOMAIN ends |->
            SubSeq(text, IF k = 1 THEN 1 ELSE ends[k - 1] + 1, ends[k] - 1)] \in Seq(Seq(S))
<1> DEFINE from(k) == IF k = 1 THEN 1 ELSE ends[k - 1] + 1
           lines == [k \in DOMAIN ends |-> SubSeq(text, from(k), ends[k] - 1)]
           m == Len(ends)
<1>1. m \in Nat /\ DOMAIN ends = 1 .. m /\ \A k \in 1 .. m : ends[k] \in 1 .. n
  OBVIOUS
<1>2. Len(text) \in Nat
  OBVIOUS
<1> HIDE DEF m
<1>3. \A k \in 1 .. m : from(k) \in Int /\ 1 <= from(k)
  <2>1. ASSUME NEW k \in 1 .. m, k # 1 PROVE ends[k - 1] \in 1 .. n
    <3>1. k - 1 \in 1 .. m
      BY <1>1, <2>1
    <3> QED BY <1>1, <3>1
  <2>2. ASSUME NEW k \in 1 .. m PROVE from(k) \in Int /\ 1 <= from(k)
    BY <2>1
  <2> QED BY <2>2
<1>4. \A k \in 1 .. m : ends[k] - 1 \in Int /\ ends[k] - 1 <= Len(text)
  BY <1>1, <1>2
<1> HIDE DEF from
<1>5. ASSUME NEW k \in 1 .. m PROVE SubSeq(text, from(k), ends[k] - 1) \in Seq(S)
  <2> DEFINE a == from(k)
             b == ends[k] - 1
  <2>1. a \in Int /\ 1 <= a /\ b \in Int /\ b <= Len(text)
    BY <1>3, <1>4
  <2> HIDE DEF a, b
  <2>2. SubSeq(text, a, b) \in Seq(S)
    BY <2>1
  <2> QED BY <2>2 DEF a, b
<1>6. lines \in [1 .. m -> Seq(S)]
  BY <1>1, <1>5
<1>7. lines \in Seq(Seq(S))
  <2> HIDE DEF lines
  <2> QED BY <1>1, <1>6
<1> QED BY <1>7 DEF from

LEMMA LinesAre ==
  ASSUME NEW S, NEW text \in Seq(S)
  PROVE  LinesOfText(text) \in Seq(Seq(S))
<1> DEFINE closed == IF text = << >> \/ Last(text) = EndOfLine THEN text
                     ELSE Append(text, EndOfLine)
           n == Len(closed)
           places == [i \in DOMAIN closed |-> i]
           T == [i \in DOMAIN places |-> IF closed[places[i]] = EndOfLine THEN <<places[i]>>
                                         ELSE << >>]
           ends == FlattenSeq(T)
           lines == [k \in DOMAIN ends |->
                       SubSeq(text, IF k = 1 THEN 1 ELSE ends[k - 1] + 1, ends[k] - 1)]
<1>1. LinesOfText(text) = lines
  BY DEF LinesOfText, Passing
<1>2. closed \in Seq(S \cup {EndOfLine}) /\ n \in Nat /\ n <= Len(text) + 1
      /\ DOMAIN closed = 1 .. n /\ Len(text) \in Nat
  <2>1. text \in Seq(S \cup {EndOfLine}) /\ Len(text) \in Nat
    OBVIOUS
  <2>2. /\ Append(text, EndOfLine) \in Seq(S \cup {EndOfLine})
        /\ Len(Append(text, EndOfLine)) = Len(text) + 1
    BY <2>1
  <2>3. closed = text \/ closed = Append(text, EndOfLine)
    OBVIOUS
  <2> HIDE DEF closed
  <2>4. closed \in Seq(S \cup {EndOfLine}) /\ Len(closed) <= Len(text) + 1
    BY <2>1, <2>2, <2>3
  <2> QED BY <2>1, <2>4
<1> HIDE DEF closed, n
<1>3. T \in [1 .. n -> Seq(1 .. n)] /\ \A k \in 1 .. n : Len(T[k]) <= 1
  <2>1. DOMAIN places = 1 .. n /\ \A k \in 1 .. n : places[k] = k
    BY <1>2
  <2>2. \A k \in 1 .. n : <<k>> \in Seq(1 .. n) /\ Len(<<k>>) = 1
    OBVIOUS
  <2>3. << >> \in Seq(1 .. n) /\ Len(<< >>) = 0
    OBVIOUS
  <2> HIDE DEF places
  <2>4. \A k \in 1 .. n : T[k] = <<k>> \/ T[k] = << >>
    BY <2>1
  <2>5. T = [k \in 1 .. n |-> T[k]]
    BY <2>1
  <2> HIDE DEF T
  <2>6. ASSUME NEW k \in 1 .. n PROVE T[k] \in Seq(1 .. n) /\ Len(T[k]) <= 1
    <3>1. CASE T[k] = <<k>>
      BY <2>2, <3>1
    <3>2. CASE T[k] = << >>
      BY <2>3, <3>2
    <3> QED BY <2>4, <3>1, <3>2
  <2> QED BY <2>5, <2>6
<1>4. ends \in Seq(1 .. n)
  <2> HIDE DEF T
  <2> QED BY <1>2, <1>3, FlattenSifts
<1> HIDE DEF ends
<1>5. lines \in Seq(Seq(S))
  BY <1>2, <1>4, LinesBetween
<1> QED BY <1>1, <1>5

Values(S) == UNION {[D -> Seq(S)] : D \in SUBSET Seq(S)}

\* result holds what the first k of G set, every word with its first value.
HoldsFirst(result, G, k) ==
  /\ DOMAIN result = {G[i].attr : i \in 1 .. k}
  /\ \A a \in DOMAIN result :
       \E i \in 1 .. k : /\ G[i].attr = a /\ G[i].value = result[a]
                        /\ \A j \in 1 .. i - 1 : G[j].attr # a

LEMMA OneMoreSetting ==
  ASSUME NEW S, NEW result \in Values(S), NEW n \in Nat, NEW G \in [1 .. n -> Assignment(S)],
         NEW k \in 1 .. n, HoldsFirst(result, G, k - 1)
  PROVE  /\ WithSetting(result, G[k]) \in Values(S)
         /\ HoldsFirst(WithSetting(result, G[k]), G, k)
<1> DEFINE r == WithSetting(result, G[k])
           key == G[k].attr
           D == DOMAIN result \cup {key}
<1>1. key \in Seq(S) /\ G[k].value \in Seq(S)
  BY DEF Assignment
<1>2. result \in [DOMAIN result -> Seq(S)] /\ DOMAIN result \in SUBSET Seq(S)
  BY DEF Values
<1>3. r = [a \in D |-> IF a \in DOMAIN result THEN result[a] ELSE G[k].value]
  BY DEF WithSetting
<1> HIDE DEF r, D, key
<1>4. DOMAIN r = D /\ \A a \in D : r[a] = IF a \in DOMAIN result THEN result[a] ELSE G[k].value
  BY <1>3
<1>5. r \in Values(S)
  <2>1. D \in SUBSET Seq(S) /\ r \in [D -> Seq(S)]
    BY <1>1, <1>2, <1>3 DEF D
  <2> QED BY <2>1 DEF Values
<1>6. /\ DOMAIN result = {G[i].attr : i \in 1 .. k - 1}
      /\ \A a \in DOMAIN result :
           \E i \in 1 .. k - 1 : /\ G[i].attr = a /\ G[i].value = result[a]
                                /\ \A j \in 1 .. i - 1 : G[j].attr # a
  BY DEF HoldsFirst
<1>7. /\ \A i \in 1 .. k : i = k \/ i \in 1 .. k - 1
      /\ \A i \in 1 .. k - 1 : i \in 1 .. k
      /\ k \in 1 .. k
  OBVIOUS
<1>8. D = {G[i].attr : i \in 1 .. k}
  BY <1>6, <1>7 DEF D, key
<1>9. ASSUME NEW a \in D
      PROVE  \E i \in 1 .. k : /\ G[i].attr = a /\ G[i].value = r[a]
                               /\ \A j \in 1 .. i - 1 : G[j].attr # a
  <2>1. CASE a \in DOMAIN result
    BY <1>4, <1>6, <1>7, <2>1
  <2>2. CASE a \notin DOMAIN result
    <3>1. a = G[k].attr /\ r[a] = G[k].value
      BY <1>4, <2>2 DEF D, key
    <3>2. \A j \in 1 .. k - 1 : G[j].attr # a
      BY <1>6, <2>2
    <3> QED BY <1>7, <3>1, <3>2
  <2> QED BY <2>1, <2>2
<1>10. HoldsFirst(r, G, k)
  BY <1>4, <1>8, <1>9 DEF HoldsFirst
<1> QED BY <1>5, <1>10 DEF r

NoWords == [attr \in {} |-> << >>]

LEMMA SettingsAre ==
  ASSUME NEW S, NEW G \in Seq(Assignment(S))
  PROVE  HoldsFirst(FoldLeft(WithSetting, NoWords, G), G, Len(G))
<1> DEFINE A == Values(S)
           n == Len(G)
           it == CHOOSE iter : iter = [s \in SUBSET DOMAIN G |->
                   IF s = {} THEN NoWords ELSE WithSetting(iter[s \ {Max(s)}], G[Max(s)])]
<1>1. FoldLeft(WithSetting, NoWords, G) = it[DOMAIN G]
  BY DEF FoldLeft, MapThenFoldSet
<1>2. n \in Nat /\ G \in [1 .. n -> Assignment(S)] /\ DOMAIN G = 1 .. n
  OBVIOUS
<1>3. NoWords \in A /\ DOMAIN NoWords = {}
  <2>1. NoWords \in [{} -> Seq(S)] /\ {} \in SUBSET Seq(S) /\ DOMAIN NoWords = {}
    BY DEF NoWords
  <2> HIDE DEF NoWords
  <2> QED BY <2>1 DEF Values
<1>4. ASSUME NEW result \in A, NEW k \in 1 .. n PROVE WithSetting(result, G[k]) \in A
  <2>1. G[k].attr \in Seq(S) /\ G[k].value \in Seq(S)
    BY <1>2 DEF Assignment
  <2>2. result \in [DOMAIN result -> Seq(S)] /\ DOMAIN result \in SUBSET Seq(S)
    BY DEF Values
  <2> DEFINE D == DOMAIN result \cup {G[k].attr}
  <2>3. D \in SUBSET Seq(S) /\ WithSetting(result, G[k]) \in [D -> Seq(S)]
    BY <2>1, <2>2 DEF WithSetting
  <2> QED BY <2>3 DEF Values
<1> HIDE DEF A, n, it
<1>5. it = [s \in SUBSET (1 .. n) |->
              IF s = {} THEN NoWords ELSE WithSetting(it[s \ {Max(s)}], G[Max(s)])]
  <2> DEFINE F == [x \in A \X (1 .. n) |-> WithSetting(x[1], G[x[2]])]
  <2>1. F \in [A \X (1 .. n) -> A]
    BY <1>4
  <2> HIDE DEF F
  <2>2. PICK H \in [SUBSET (1 .. n) -> A] : IsFold(H, n, NoWords, F)
    BY <1>2, <1>3, <2>1, FoldExists
  <2>3. ASSUME NEW s \in SUBSET (1 .. n), s # {}
        PROVE  F[<<H[s \ {Max(s)}], Max(s)>>] = WithSetting(H[s \ {Max(s)}], G[Max(s)])
    <3>1. Max(s) \in 1 .. n
      BY <1>2, <2>3, MaxIsGreatest
    <3> QED BY <3>1 DEF F
  <2>4. H = [s \in SUBSET (1 .. n) |->
               IF s = {} THEN NoWords ELSE WithSetting(H[s \ {Max(s)}], G[Max(s)])]
    BY <2>2, <2>3 DEF IsFold
  <2>5. it = [s \in SUBSET (1 .. n) |->
                IF s = {} THEN NoWords ELSE WithSetting(it[s \ {Max(s)}], G[Max(s)])]
    BY <1>2, <2>4 DEF it
  <2> QED BY <2>5
<1>6. it[{}] = NoWords /\ \A k \in 1 .. n : it[1 .. k] = WithSetting(it[1 .. k - 1], G[k])
  <2>1. it[{}] = NoWords
    BY <1>5
  <2>2. ASSUME NEW k \in 1 .. n PROVE it[1 .. k] = WithSetting(it[1 .. k - 1], G[k])
    <3>1. 1 .. k \in SUBSET (1 .. n) /\ k \in Nat /\ k # 0
      BY <1>2
    <3>2. Max(1 .. k) = k /\ (1 .. k) \ {k} = 1 .. k - 1 /\ 1 .. k # {}
      BY <3>1, MaxOfInterval
    <3> QED BY <1>5, <3>1, <3>2
  <2> QED BY <2>1, <2>2
<1> DEFINE T == {k \in 0 .. n : it[1 .. k] \in A /\ HoldsFirst(it[1 .. k], G, k)}
<1>7. 0 \in T
  <2>1. 1 .. 0 = {} /\ 0 \in 0 .. n
    BY <1>2
  <2>2. HoldsFirst(NoWords, G, 0)
    BY <1>3, <2>1 DEF HoldsFirst
  <2> QED BY <1>3, <1>6, <2>1, <2>2
<1>8. ASSUME NEW k \in 1 .. n, k - 1 \in T PROVE k \in T
  <2> DEFINE t == it[1 .. k - 1]
  <2>1. t \in Values(S) /\ HoldsFirst(t, G, k - 1) /\ k \in 0 .. n
    BY <1>2, <1>8 DEF A
  <2>2. it[1 .. k] = WithSetting(t, G[k])
    BY <1>6
  <2> HIDE DEF t
  <2>3. WithSetting(t, G[k]) \in Values(S) /\ HoldsFirst(WithSetting(t, G[k]), G, k)
    BY <1>2, <2>1, OneMoreSetting
  <2> QED BY <2>1, <2>2, <2>3 DEF A
<1> HIDE DEF T
<1>9. n \in T
  <2>1. \A k \in 1 .. n : k - 1 \in T => k \in T
    BY <1>8
  <2>2. \A k \in 0 .. n : k \in T
    BY <1>2, <1>7, <2>1, UpTo, Zenon
  <2> QED BY <1>2, <2>2
<1> QED BY <1>1, <1>2, <1>9 DEF T, n

\* G holds what the lines of L say, each at most one, in their order.
HoldsWhatIsSaid(G, L, n, m, at) ==
  /\ at \in [1 .. n -> 1 .. m]
  /\ \A i \in 1 .. n : Says(L[at[i]]) = {<<G[i].attr, G[i].value>>}
  /\ \A i, j \in 1 .. n : i < j => at[i] < at[j]
  /\ \A k \in 1 .. m : Says(L[k]) # {} => \E i \in 1 .. n : at[i] = k

\* What parse makes of the lines init_from_file keeps.
LEMMA SettingsAreSaid ==
  ASSUME NEW S, NEW L \in Seq(Seq(S)), NEW C, C = Passing(L, IsKept),
         NEW G, G = FlattenSeq([k \in DOMAIN C |-> Setting(C[k])])
  PROVE  /\ G \in Seq(Assignment(S))
         /\ \E at : HoldsWhatIsSaid(G, L, Len(G), Len(L), at)
<1> DEFINE m == Len(L)
           T == [k \in DOMAIN L |-> IF IsKept(L[k]) THEN <<L[k]>> ELSE << >>]
<1>1. m \in Nat /\ DOMAIN L = 1 .. m /\ \A k \in 1 .. m : L[k] \in Seq(S)
  OBVIOUS
<1>2. C = FlattenSeq(T)
  BY DEF Passing
<1> HIDE DEF m
<1>3. T \in [1 .. m -> Seq(Seq(S))] /\ \A k \in 1 .. m : Len(T[k]) <= 1
  <2>1. \A k \in 1 .. m : <<L[k]>> \in Seq(Seq(S)) /\ Len(<<L[k]>>) = 1
    BY <1>1
  <2>2. << >> \in Seq(Seq(S)) /\ Len(<< >>) = 0
    OBVIOUS
  <2>3. T = [k \in 1 .. m |-> T[k]]
    BY <1>1
  <2>4. \A k \in 1 .. m : T[k] = <<L[k]>> \/ T[k] = << >>
    BY <1>1
  <2> HIDE DEF T
  <2>5. ASSUME NEW k \in 1 .. m PROVE T[k] \in Seq(Seq(S)) /\ Len(T[k]) <= 1
    <3>1. CASE T[k] = <<L[k]>>
      BY <2>1, <3>1
    <3>2. CASE T[k] = << >>
      BY <2>2, <3>2
    <3> QED BY <2>4, <3>1, <3>2
  <2> QED BY <2>3, <2>5
<1>4. \A k \in 1 .. m : T[k] = IF IsKept(L[k]) THEN <<L[k]>> ELSE << >>
  BY <1>1
<1> HIDE DEF T
<1>5. C \in Seq(Seq(S)) /\ HasSifted(C, T, m)
  BY <1>1, <1>2, <1>3, FlattenSifts
<1> DEFINE c == Len(C)
           U == [k \in DOMAIN C |-> Setting(C[k])]
<1>6. c \in Nat /\ DOMAIN C = 1 .. c /\ \A k \in 1 .. c : C[k] \in Seq(S)
  BY <1>5
<1>7. PICK pos : IsSifted(C, T, m, pos)
  BY <1>5 DEF HasSifted
<1> HIDE DEF c
<1>8. /\ pos \in [1 .. c -> 1 .. m]
      /\ \A i \in 1 .. c : T[pos[i]] = <<C[i]>>
      /\ \A i, j \in 1 .. c : i < j => pos[i] < pos[j]
      /\ \A k \in 1 .. m : T[k] # << >> => \E i \in 1 .. c : pos[i] = k
  BY <1>7 DEF IsSifted, c
<1>9. ASSUME NEW i \in 1 .. c PROVE C[i] = L[pos[i]] /\ IsKept(C[i])
  <2>1. pos[i] \in 1 .. m /\ T[pos[i]] = <<C[i]>>
    BY <1>8
  <2>2. <<C[i]>> # << >> /\ \A x : <<x>> = <<C[i]>> => x = C[i]
    OBVIOUS
  <2>3. IsKept(L[pos[i]]) /\ <<L[pos[i]]>> = <<C[i]>>
    BY <1>4, <2>1, <2>2
  <2> QED BY <2>2, <2>3
<1>10. ASSUME NEW i \in 1 .. c PROVE SetsWhatItSays(S, C[i])
  BY <1>6, <1>9, SettingIs
<1>11. U \in [1 .. c -> Seq(Assignment(S))] /\ \A k \in 1 .. c : Len(U[k]) <= 1
  <2>1. U = [k \in 1 .. c |-> U[k]] /\ \A k \in 1 .. c : U[k] = Setting(C[k])
    BY <1>6
  <2>2. << >> \in Seq(Assignment(S)) /\ Len(<< >>) = 0
    OBVIOUS
  <2> HIDE DEF U
  <2>3. ASSUME NEW k \in 1 .. c PROVE U[k] \in Seq(Assignment(S)) /\ Len(U[k]) <= 1
    <3>1. CASE U[k] = << >>
      BY <2>2, <3>1
    <3>2. CASE U[k] # << >>
      <4>1. PICK s \in Assignment(S) : U[k] = <<s>>
        BY <1>10, <2>1, <3>2 DEF SetsWhatItSays
      <4>2. <<s>> \in Seq(Assignment(S)) /\ Len(<<s>>) = 1
        OBVIOUS
      <4> QED BY <4>1, <4>2
    <3> QED BY <3>1, <3>2
  <2> QED BY <2>1, <2>3
<1>12. \A k \in 1 .. c : U[k] = Setting(C[k])
  BY <1>6
<1>13. G = FlattenSeq(U)
  OBVIOUS
<1> HIDE DEF U
<1>14. G \in Seq(Assignment(S)) /\ HasSifted(G, U, c)
  BY <1>6, <1>11, <1>13, FlattenSifts
<1> DEFINE n == Len(G)
<1>15. n \in Nat
  BY <1>14
<1>16. PICK q : IsSifted(G, U, c, q)
  BY <1>14 DEF HasSifted
<1> HIDE DEF n
<1>17. /\ q \in [1 .. n -> 1 .. c]
       /\ \A i \in 1 .. n : U[q[i]] = <<G[i]>>
       /\ \A i, j \in 1 .. n : i < j => q[i] < q[j]
       /\ \A k \in 1 .. c : U[k] # << >> => \E i \in 1 .. n : q[i] = k
  BY <1>16 DEF IsSifted, n
<1> DEFINE at == [i \in 1 .. n |-> pos[q[i]]]
<1>18. at \in [1 .. n -> 1 .. m] /\ \A i \in 1 .. n : at[i] = pos[q[i]] /\ q[i] \in 1 .. c
  BY <1>8, <1>17
<1> HIDE DEF at
<1>19. ASSUME NEW i \in 1 .. n PROVE Says(L[at[i]]) = {<<G[i].attr, G[i].value>>}
  <2>1. q[i] \in 1 .. c /\ U[q[i]] = <<G[i]>> /\ L[at[i]] = C[q[i]]
    <3>1. q[i] \in 1 .. c /\ at[i] = pos[q[i]]
      BY <1>18
    <3>2. L[pos[q[i]]] = C[q[i]]
      BY <1>9, <3>1
    <3>3. U[q[i]] = <<G[i]>>
      BY <1>17
    <3> QED BY <3>1, <3>2, <3>3
  <2>2. <<G[i]>> # << >> /\ \A x : <<x>> = <<G[i]>> => x = G[i]
    OBVIOUS
  <2>3. Setting(C[q[i]]) = <<G[i]>>
    BY <1>12, <2>1
  <2>4. SetsWhatItSays(S, C[q[i]])
    BY <1>10, <2>1
  <2>5. PICK s \in Assignment(S) :
          Setting(C[q[i]]) = <<s>> /\ Says(C[q[i]]) = {<<s.attr, s.value>>}
    BY <2>2, <2>3, <2>4 DEF SetsWhatItSays
  <2>6. s = G[i]
    BY <2>2, <2>3, <2>5
  <2> QED BY <2>1, <2>5, <2>6
<1>20. ASSUME NEW i \in 1 .. n, NEW j \in 1 .. n, i < j PROVE at[i] < at[j]
  BY <1>8, <1>17, <1>18, <1>20
<1>21. ASSUME NEW k \in 1 .. m, Says(L[k]) # {} PROVE \E i \in 1 .. n : at[i] = k
  <2>1. IsKept(L[k])
    BY <1>21 DEF Says
  <2>2. T[k] = <<L[k]>> /\ <<L[k]>> # << >>
    BY <1>4, <2>1
  <2>3. PICK x \in 1 .. c : pos[x] = k
    BY <1>8, <2>2
  <2>4. C[x] = L[k] /\ SetsWhatItSays(S, C[x])
    BY <1>9, <1>10, <2>3
  <2>5. \E s \in Assignment(S) : U[x] = <<s>>
    BY <1>12, <1>21, <2>4 DEF SetsWhatItSays
  <2>6. U[x] # << >>
    BY <2>5
  <2>7. PICK i \in 1 .. n : q[i] = x
    BY <1>17, <2>6
  <2> QED BY <1>18, <2>3, <2>7
<1>22. HoldsWhatIsSaid(G, L, n, m, at)
  BY <1>18, <1>19, <1>20, <1>21 DEF HoldsWhatIsSaid
<1> QED BY <1>14, <1>22 DEF n, m

\* Whatever a file holds, a word has the value the first line that sets it says,
\* and no comment, empty line or line without a value sets or hides anything.
THEOREM FilesAreReadAsSaid ==
  ASSUME NEW S, NEW text \in Seq(S)
  PROVE  ReadsWhatTheFileSays(text)
<1> DEFINE L == LinesOfText(text)
           C == Context(text)
           G == FlattenSeq([k \in DOMAIN C |-> Setting(C[k])])
           r == init_from_file(text)
           n == Len(G)
           m == Len(L)
<1>1. L \in Seq(Seq(S))
  BY LinesAre
<1>2. C = Passing(L, IsKept)
  BY DEF Context
<1>3. r = FoldLeft(WithSetting, NoWords, G)
  BY DEF init_from_file, parse, NoWords
<1>4. G = FlattenSeq([k \in DOMAIN C |-> Setting(C[k])])
  OBVIOUS
<1>5. ReadsWhatTheFileSays(text) <=>
        /\ DOMAIN r = UNION {{s[1] : s \in Says(L[k])} : k \in DOMAIN L}
        /\ \A attr \in DOMAIN r :
             \E k \in DOMAIN L :
               /\ <<attr, r[attr]>> \in Says(L[k])
               /\ \A before \in 1 .. k - 1 : \A s \in Says(L[before]) : s[1] # attr
  BY DEF ReadsWhatTheFileSays
<1> HIDE DEF L, C, G, r
<1>6. G \in Seq(Assignment(S)) /\ \E at : HoldsWhatIsSaid(G, L, Len(G), Len(L), at)
  BY <1>1, <1>2, <1>4, SettingsAreSaid
<1>7. PICK at : HoldsWhatIsSaid(G, L, n, m, at)
  BY <1>6
<1>8. HoldsFirst(r, G, n)
  BY <1>3, <1>6, SettingsAre
<1>9. DOMAIN L = 1 .. m /\ m \in Nat /\ n \in Nat
  BY <1>1, <1>6
<1> HIDE DEF n, m
<1>10. /\ at \in [1 .. n -> 1 .. m]
       /\ \A i \in 1 .. n : Says(L[at[i]]) = {<<G[i].attr, G[i].value>>}
       /\ \A i, j \in 1 .. n : i < j => at[i] < at[j]
       /\ \A k \in 1 .. m : Says(L[k]) # {} => \E i \in 1 .. n : at[i] = k
  BY <1>7 DEF HoldsWhatIsSaid
<1>11. /\ DOMAIN r = {G[i].attr : i \in 1 .. n}
       /\ \A a \in DOMAIN r :
            \E i \in 1 .. n : /\ G[i].attr = a /\ G[i].value = r[a]
                             /\ \A j \in 1 .. i - 1 : G[j].attr # a
  BY <1>8 DEF HoldsFirst
<1>12. ASSUME NEW k \in 1 .. m, NEW s \in Says(L[k])
       PROVE  \E i \in 1 .. n : at[i] = k /\ s[1] = G[i].attr
  <2>1. PICK i \in 1 .. n : at[i] = k
    BY <1>10, <1>12
  <2>2. s = <<G[i].attr, G[i].value>>
    BY <1>10, <2>1
  <2> QED BY <2>1, <2>2
<1>13. DOMAIN r = UNION {{s[1] : s \in Says(L[k])} : k \in DOMAIN L}
  <2>1. ASSUME NEW i \in 1 .. n PROVE \E k \in 1 .. m : \E s \in Says(L[k]) : G[i].attr = s[1]
    <3>1. at[i] \in 1 .. m /\ <<G[i].attr, G[i].value>> \in Says(L[at[i]])
      BY <1>10
    <3>2. <<G[i].attr, G[i].value>>[1] = G[i].attr
      OBVIOUS
    <3> QED BY <3>1, <3>2
  <2> DEFINE All == UNION {{s[1] : s \in Says(L[k])} : k \in 1 .. m}
  <2>2. \A x : x \in All <=> \E k \in 1 .. m : \E s \in Says(L[k]) : x = s[1]
    OBVIOUS
  <2> HIDE DEF All
  <2>3. \A x : x \in DOMAIN r <=> x \in All
    <3>1. ASSUME NEW x \in DOMAIN r PROVE x \in All
      <4>1. PICK i \in 1 .. n : x = G[i].attr
        BY <1>11
      <4>2. PICK k \in 1 .. m : \E s \in Says(L[k]) : G[i].attr = s[1]
        BY <2>1
      <4> QED BY <2>2, <4>1, <4>2
    <3>2. ASSUME NEW x \in All PROVE x \in DOMAIN r
      <4>1. PICK k \in 1 .. m : \E s \in Says(L[k]) : x = s[1]
        BY <2>2
      <4>2. PICK s \in Says(L[k]) : x = s[1]
        BY <4>1
      <4>3. PICK i \in 1 .. n : at[i] = k /\ s[1] = G[i].attr
        BY <1>12
      <4> QED BY <1>11, <4>2, <4>3
    <3> QED BY <3>1, <3>2
  <2>4. DOMAIN r = All
    BY <2>3
  <2> QED BY <1>9, <2>4 DEF All
<1>14. ASSUME NEW a \in DOMAIN r
       PROVE  \E k \in 1 .. m :
                /\ <<a, r[a]>> \in Says(L[k])
                /\ \A before \in 1 .. k - 1 : \A s \in Says(L[before]) : s[1] # a
  <2>1. PICK i \in 1 .. n : /\ G[i].attr = a /\ G[i].value = r[a]
                           /\ \A j \in 1 .. i - 1 : G[j].attr # a
    BY <1>11
  <2>2. at[i] \in 1 .. m /\ <<a, r[a]>> \in Says(L[at[i]])
    BY <1>10, <2>1
  <2>3. ASSUME NEW before \in 1 .. at[i] - 1, NEW s \in Says(L[before]) PROVE s[1] # a
    <3>1. before \in 1 .. m
      BY <1>9, <2>2
    <3>2. PICK j \in 1 .. n : at[j] = before /\ s[1] = G[j].attr
      BY <1>12, <3>1
    <3>3. at[j] < at[i] /\ at[j] \in Int /\ at[i] \in Int
      BY <2>2, <3>2
    <3>4. ~(i < j) /\ i # j
      BY <1>10, <3>3
    <3>5. j \in 1 .. i - 1
      BY <1>9, <3>4
    <3> QED BY <2>1, <3>2, <3>5
  <2> QED BY <2>2, <2>3
<1> QED BY <1>5, <1>9, <1>13, <1>14

LEMMA CasesAreRead == CasesInv => SettingsAreTheFiles
<1> SUFFICES ASSUME CasesInv, kind = "file"
             PROVE  ReadsWhatTheFileSays(FlattenSeq(input))
  BY DEF SettingsAreTheFiles
<1> DEFINE n == Len(input)
           S == UNION {Range(piece) : piece \in Alphabet.file}
<1>1. input \in Seq(Alphabet.file)
  BY DEF CasesInv
<1>2. n \in Nat /\ input \in [1 .. n -> Seq(S)]
  <2>1. Alphabet.file \subseteq Seq(S)
    BY FilesAssumption DEF FilesAssumption
  <2> HIDE DEF S
  <2> QED BY <1>1, <2>1
<1> HIDE DEF n, S
<1>3. PICK P : IsFlattened(P, input, n, S)
  BY <1>2, FlattenIs
<1>4. FlattenSeq(input) \in Seq(S)
  BY <1>2, <1>3 DEF IsFlattened, Grows
<1> QED BY <1>4, FilesAreReadAsSaid

\* Settings are what the file says, the first time it says it (IniParser).
THEOREM SettingsStayTheFiles == Spec => []SettingsAreTheFiles
<1> QED BY CasesInvariant, CasesAreRead, PTL
=============================================================================
