------------------------------ MODULE SegmenterSpec ------------------------------
(***************************************************************************)
(* What the words of a text ought to be, without a trie, a table or a walk *)
(* back along a path: the definitions Segmenter is checked against.        *)
(***************************************************************************)
EXTENDS Segmenter

IsPartition(words, l, r) ==
  IF words = << >> THEN l > r
  ELSE /\ words[1][1] = l /\ Last(words)[2] = r
       /\ \A k \in DOMAIN words : words[k][1] <= words[k][2]
       /\ \A k \in 1 .. Len(words) - 1 : words[k + 1][1] = words[k][2] + 1

\* All ways to cut the positions l .. r: a first word, and all ways to cut the rest.
Partitions(l, r) ==
  LET Cuts[i \in l .. r + 1] ==
        IF i > r THEN {<< >>}
        ELSE UNION {{<<<<i, j>>>> \o rest : rest \in Cuts[j + 1]} : j \in i .. r}
  IN  Cuts[l]

\* The lines of both dictionaries that a word stands in.
LinesOf(word) ==
  LET entries == Dict \o UserEntries(Dict, UserDict)
  IN  {i \in DOMAIN entries : entries[i].word = word}

IsKnown(word) == word # << >> /\ LinesOf(word) # {}

\* The weight of a word is that of its last line.
TrueWeight(word) ==
  LET entries == Dict \o UserEntries(Dict, UserDict)
  IN  IF IsKnown(word) THEN entries[Max(LinesOf(word))].weight
      ELSE Min({Dict[i].weight : i \in DOMAIN Dict})

TotalWeight(text, words) ==
  FoldLeft(LAMBDA sum, weight : sum + weight, 0,
           [k \in DOMAIN words |-> TrueWeight(SubSeq(text, words[k][1], words[k][2]))])

\* Cut by the dictionary alone, every range of the text is cut into words of
\* the dictionary and single characters, and no such cut weighs more.
IsHeaviestCut(text) ==
  \A range \in Range(Ranges(text)) :
    LET l == range[1]
        r == range[2]
        cuts == {c \in Partitions(l, r) :
                   \A i \in DOMAIN c : c[i][1] = c[i][2] \/ IsKnown(SubSeq(text, c[i][1], c[i][2]))}
        cut == MPCut(text, l, r, MaxWordLength)
    IN  /\ cut \in cuts
        /\ \A c \in cuts : TotalWeight(text, c) <= TotalWeight(text, cut)

\* The longest words of a text stand side by side and leave no character out;
\* the others are all the words of two and three characters of the dictionary
\* that lie inside a longer one of them, and none comes twice.
CoversText(text) ==
  LET words == CutForSearch(text)
      whole == FlatMap(LAMBDA range : MixCut(text, range[1], range[2]), Ranges(text))
      inside == {w \in (1 .. Len(text)) \X (1 .. Len(text)) :
                   /\ Length(w) \in {2, 3}
                   /\ IsKnown(SubSeq(text, w[1], w[2]))
                   /\ \E k \in DOMAIN whole :
                        whole[k][1] <= w[1] /\ w[2] <= whole[k][2] /\ whole[k] # w}
  IN  /\ IsPartition(whole, 1, Len(text))
      /\ Range(words) = Range(whole) \cup inside
      /\ Len(words) = Cardinality(Range(words))

\* Where the dictionary knows no word, what a letter begins is not cut before
\* its last letter or digit, and no number inside its digits.
KeepsAsciiTogether(text) ==
  \A range \in Range(Ranges(text)) :
    \A w \in Range(HMMCut(text, range[1], range[2])) :
      \/ w[2] = range[2]
      \/ text[w[2]] \notin Letter \cup Digit
      \/ text[w[2] + 1] \notin Letter \cup Digit
      \/ text[w[2] + 1] \in Letter /\ text[w[1]] \in Digit

PathWeight(text, l, r, path) ==
  FoldLeft(LAMBDA sum, x : Plus(sum, Plus(TransProb[path[x - 1]][path[x]], Emit(path[x], text[x]))),
           Plus(StartProb[path[l]], Emit(path[l], text[l])),
           [k \in 1 .. r - l |-> l + k])

\* Up to the first character the model has never seen, the states are a most
\* probable way to read the characters l .. r that ends a word, wherever the model
\* knows one, and the words are made of them: B, then M, then E, or S alone.  From
\* that character on every character is a word.
IsMostProbable(text, l, r) ==
  LET unseen == Min({x \in l .. r : \A y \in Status : Emit(y, text[x]) <= MinDouble} \cup {r + 1})
      paths == {p \in [l .. unseen - 1 -> Status] :
                  p[unseen - 1] \in (IF unseen > r THEN {"E", "S"} ELSE {"E"})}
      top == Max({PathWeight(text, l, unseen - 1, p) : p \in paths})
      status == Viterbi(text, l, r)
      words == Range(InternalCut(text, l, r))
  IN  /\ \A x \in unseen .. r : <<x, x>> \in words
      /\ unseen > l /\ top > MinDouble =>
           /\ PathWeight(text, l, unseen - 1, status) = top
           /\ \A w \in words :
                IF w[1] >= unseen THEN TRUE
                ELSE IF w[1] = w[2] THEN status[w[1]] = "S"
                ELSE /\ status[w[1]] = "B"
                     /\ \A x \in w[1] + 1 .. w[2] - 1 : status[x] = "M"

\* The lines of a dictionary, in whatever order and however often a word comes,
\* make a trie that finds its words and no others with the weight of the last
\* line, and from every position the words that begin there.
FindsItsWords(entries, text) ==
  LET trie == CreateTrie(entries)
      words == {entries[i].word : i \in DOMAIN entries} \ {<< >>}
  IN  /\ \A word \in words : Find(trie, word)
      /\ \A i \in DOMAIN entries :
           (\A j \in i + 1 .. Len(entries) : entries[j].word # entries[i].word)
              /\ entries[i].word # << >> => trie.unit[entries[i].word] = entries[i].weight
      /\ \A i \in DOMAIN text :
           Nexts(trie, text, i, MaxWordLength)
             = {i} \cup {j \in i .. Len(text) : SubSeq(text, i, j) \in words}
      /\ \A i, j \in DOMAIN text : Find(trie, SubSeq(text, i, j)) <=> SubSeq(text, i, j) \in words
=============================================================================
