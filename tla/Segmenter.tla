------------------------------- MODULE Segmenter -------------------------------
(***************************************************************************)
(* How Jieba::CutForSearch cuts a text into words                          *)
(* (utils/cppjieba/QuerySegment.hpp, MixSegment.hpp, MPSegment.hpp,        *)
(* HMMSegment.hpp, PreFilter.hpp): the words the pages are indexed under   *)
(* and sentences are searched by.  A text is a sequence of characters, a   *)
(* range of it a pair of positions.                                        *)
(***************************************************************************)
EXTENDS WordTrie

CONSTANTS
  Letter, Digit, Dot, Ascii, Separator,
  Dict, UserDict,                         \* the lines of the two dictionaries
  StartProb, TransProb, EmitProb,         \* the model: logarithms of probabilities
  MinDouble                               \* MIN_DOUBLE: what the model does not know

MaxWordLength == 512
Status == {"B", "E", "M", "S"}

ASSUME SegmenterAssumption ==
  /\ Letter \cup Digit \cup {Dot} \subseteq Ascii
  /\ Letter \cap Digit = {} /\ Dot \notin Letter \cup Digit
  /\ Dict # << >>

\* The model gives every state and every step between two of them a weight.
ASSUME ModelAssumption ==
  /\ MinDouble \in Int
  /\ StartProb \in [Status -> Int]
  /\ TransProb \in [Status -> [Status -> Int]]
  /\ \A e \in DOMAIN EmitProb : EmitProb[e] \in Int

\* A line of a dictionary is a word with its weight, one of the user dictionary may
\* leave the weight out.
ASSUME DictionaryAssumption ==
  /\ Dict \in Seq(Range(Dict)) /\ UserDict \in Seq(Range(UserDict))
  /\ \A i \in DOMAIN Dict : Dict[i] \in [word : Seq(Range(Dict[i].word)), weight : Int]
  /\ \A i \in DOMAIN UserDict :
       /\ UserDict[i] \in [word : Seq(Range(UserDict[i].word)), weight : Seq(Int)]
       /\ Len(UserDict[i].weight) <= 1

\* -3.14e+100 is so far below every logarithm that a sum of the two is it again.
Plus(p, q) ==
  IF (p <= MinDouble) = (q <= MinDouble) THEN p + q ELSE IF p < q THEN p ELSE q

Loaded == LoadDict(Dict, UserDict)

\* The ranges PreFilter makes of a text: a separator is one of its own.
NextRange(text, from) ==
  LET seps == {i \in from .. Len(text) : text[i] \in Separator}
  IN  IF seps = {} THEN <<from, Len(text)>>
      ELSE IF Min(seps) = from THEN <<from, from>> ELSE <<from, Min(seps) - 1>>

\* One piece after another, from position from on to position to.
Chain(piece, from, to) ==
  LET Rest[i \in from .. to + 1] ==
        IF i > to THEN << >> ELSE <<piece[i]>> \o Rest[piece[i][2] + 1]
  IN  Rest[from]

\* The sequences Of gives for the elements of s, one behind the other.
FlatMap(Of(_), s) == FlattenSeq([k \in DOMAIN s |-> Of(s[k])])

\* The positions from .. to.
Between(from, to) == [k \in 1 .. to - from + 1 |-> from + k - 1]

-----------------------------------------------------------------------------
(* MPSegment: the words of the dictionary that weigh most together.        *)

WeightOf(text, i, j) ==
  LET word == SubSeq(text, i, j)
  IN  IF word \in DOMAIN Loaded.trie.unit THEN Loaded.trie.unit[word]
      ELSE Loaded.min_weight

\* Mutant: what follows a word is not weighed.
CalcDPGreedy(text, l, r, max_word_len) ==
  [i \in l .. r + 1 |->
     IF i > r THEN [weight |-> 0, end |-> r]
     ELSE LET nexts == Nexts(Loaded.trie, SubSeq(text, 1, r), i, max_word_len)
              top == Max({WeightOf(text, i, j) : j \in nexts})
          IN  [weight |-> top, end |-> Min({j \in nexts : WeightOf(text, i, j) = top})]]

\* (Weights are compared exactly, not as rounded doubles; none is as small as the
\* MIN_DOUBLE from which the code's maximum starts.)
\* From right to left, the best weight of the text from i on and the word it
\* begins with, the shortest of several.
CalcDP(text, l, r, max_word_len) ==
  LET Best[i \in l .. r + 1] ==
        IF i > r THEN [weight |-> 0, end |-> r]
        ELSE LET nexts == Nexts(Loaded.trie, SubSeq(text, 1, r), i, max_word_len)
                 Val(j) == Best[j + 1].weight + WeightOf(text, i, j)
                 top == Max({Val(j) : j \in nexts})
             IN  [weight |-> top, end |-> Min({j \in nexts : Val(j) = top})]
  IN  Best

MPCut(text, l, r, max_word_len) ==
  LET best == CalcDP(text, l, r, max_word_len)
  IN  Chain([i \in l .. r |-> <<i, best[i].end>>], l, r)

-----------------------------------------------------------------------------
(* HMMSegment: letters and numbers by rule, the rest by the model.         *)

\* The last position of the run that begins at i, the rest of it in Class.
RunEnd(text, i, r, Class) ==
  Max({j \in i .. r : \A k \in i + 1 .. j : text[k] \in Class})

\* SequentialLetterRule, NumbersRule, or the character alone.
AsciiEnd(text, i, r) ==
  CASE text[i] \in Letter -> RunEnd(text, i, r, Letter \cup Digit)
    [] text[i] \in Digit  -> RunEnd(text, i, r, Digit \cup {Dot})
    [] OTHER -> i

Emit(y, char) == IF <<y, char>> \in DOMAIN EmitProb THEN EmitProb[<<y, char>>] ELSE MinDouble

\* The order in which the states are tried; a later one must be better.
Order == <<"B", "E", "M", "S">>

\* Of the ways to state y, the best from a state before; where none is better than
\* MinDouble, the one from E.
BestWay(before, y, emitProb) ==
  FoldLeft(LAMBDA best, preY :
             LET tmp == Plus(Plus(before[preY].weight, TransProb[preY][y]), emitProb)
             IN  IF tmp > best.weight THEN [weight |-> tmp, path |-> preY] ELSE best,
           [weight |-> MinDouble, path |-> "E"], Order)

\* For the character at x of the range and every state, the weight of the best
\* path to it and the state before.
Weights(text, l, r) ==
  LET W[x \in l .. r] ==
        IF x = l
        THEN [y \in Status |-> [weight |-> Plus(StartProb[y], Emit(y, text[x])), path |-> "E"]]
        ELSE [y \in Status |-> BestWay(W[x - 1], y, Emit(y, text[x]))]
  IN  W

\* Mutant: the last character may also be in the middle of a word.
LastStatusAny(weights) ==
  CHOOSE y \in Status : \A z \in Status : weights[y].weight >= weights[z].weight

LastStatus(weights) == IF weights["E"].weight >= weights["S"].weight THEN "E" ELSE "S"

Viterbi(text, l, r) ==
  LET W == Weights(text, l, r)
      Stat[x \in l .. r] == IF x = r THEN LastStatus(W[r]) ELSE W[x + 1][Stat[x + 1]].path
  IN  Stat

\* A word ends at every E and S, and the next one begins behind it.
InternalCut(text, l, r) ==
  LET status == Viterbi(text, l, r)
      Left(x) == Max({l} \cup {y + 1 : y \in {z \in l .. x - 1 : status[z] \in {"E", "S"}}})
  IN  FlatMap(LAMBDA x : IF status[x] \in {"E", "S"} THEN <<<<Left(x), x>>>> ELSE << >>,
              Between(l, r))

\* An ASCII word, or all characters up to the next one.
HMMPiece(text, i, r) ==
  <<i, IF text[i] \in Ascii THEN AsciiEnd(text, i, r)
       ELSE Max({j \in i .. r : \A k \in i .. j : text[k] \notin Ascii})>>

HMMCut(text, l, r) ==
  FlatMap(LAMBDA p : IF text[p[1]] \in Ascii THEN <<p>> ELSE InternalCut(text, p[1], p[2]),
          Chain([i \in l .. r |-> HMMPiece(text, i, r)], l, r))

-----------------------------------------------------------------------------
(* MixSegment and QuerySegment: the model cuts where the dictionary leaves *)
(* single characters; longer words bring the shorter ones inside them.     *)

IsLeftOver(text, word) ==
  word[1] = word[2] /\ text[word[1]] \notin Loaded.user_dict_single_chinese_word

\* The last of the single characters that begin with word i.
LeftOvers(text, words, i) ==
  Max({j \in i .. Len(words) : \A k \in i .. j : IsLeftOver(text, words[k])})

\* The words, the single characters in a row taken together.
Regroup(text, words) ==
  Chain([i \in DOMAIN words |->
           <<i, IF IsLeftOver(text, words[i]) THEN LeftOvers(text, words, i) ELSE i>>],
        1, Len(words))

\* The model cuts what was taken together; other words stay as they are.
CutLeftOvers(text, words) ==
  FlatMap(LAMBDA g : IF IsLeftOver(text, words[g[1]])
                     THEN HMMCut(text, words[g[1]][1], words[g[2]][2])
                     ELSE <<words[g[1]]>>,
          Regroup(text, words))

MixCut(text, l, r) == CutLeftOvers(text, MPCut(text, l, r, MaxWordLength))

Length(word) == word[2] - word[1] + 1

\* The words of the dictionary that are n long and begin in l .. r.
WordsFrom(text, l, r, n) ==
  FlatMap(LAMBDA i : IF Find(Loaded.trie, SubSeq(text, i, i + n - 1)) THEN <<<<i, i + n - 1>>>>
                     ELSE << >>,
          Between(l, r))

\* Mutant: a word n long counts as one inside itself.
GramsOfAll(text, word, n) ==
  IF Length(word) < n THEN << >> ELSE WordsFrom(text, word[1], word[2] - n + 1, n)

\* The words of the dictionary that are n long and inside word, if it is longer.
Grams(text, word, n) ==
  IF Length(word) <= n THEN << >> ELSE WordsFrom(text, word[1], word[2] - n + 1, n)

QueryCut(text, l, r) ==
  FlatMap(LAMBDA word : Grams(text, word, 2) \o Grams(text, word, 3) \o <<word>>,
          MixCut(text, l, r))

\* The ranges PreFilter gives, and what becomes of each of them.
Ranges(text) == Chain([i \in DOMAIN text |-> NextRange(text, i)], 1, Len(text))

CutForSearch(text) ==
  FlatMap(LAMBDA range : QueryCut(text, range[1], range[2]), Ranges(text))
=============================================================================
