-------------------------------- MODULE WordTrie --------------------------------
(***************************************************************************)
(* The dictionary of cppjieba (utils/cppjieba/DictTrie.hpp) and its trie   *)
(* (utils/cppjieba/Trie.hpp).  A node of the trie is the path that leads   *)
(* to it; unit gives the weight of the nodes that end a word.  Weights are *)
(* integers in place of the logarithms of relative frequencies.            *)
(***************************************************************************)
EXTENDS Integers, FiniteSetsExt, SequencesExt

EmptyTrie == [nodes |-> {<< >>}, unit |-> [key \in {} |-> 0]]

\* Mutant: a word that is there already keeps its weight.
InsertNodeOnce(trie, key, weight) ==
  IF key \in DOMAIN trie.unit \cup {<< >>} THEN trie
  ELSE [nodes |-> trie.nodes \cup Prefixes(key),
        unit |-> [k \in DOMAIN trie.unit \cup {key} |->
                    IF k = key THEN weight ELSE trie.unit[k]]]

\* The last unit of a word replaces the ones before.
InsertNode(trie, key, weight) ==
  IF key = << >> THEN trie
  ELSE [nodes |-> trie.nodes \cup Prefixes(key),
        unit |-> [k \in DOMAIN trie.unit \cup {key} |->
                    IF k = key THEN weight ELSE trie.unit[k]]]

CreateTrie(entries) ==
  FoldLeft(LAMBDA trie, e : InsertNode(trie, e.word, e.weight), EmptyTrie, entries)

Find(trie, runes) == runes # << >> /\ runes \in DOMAIN trie.unit

\* The ends of the words that begin at i; i itself whether it is a word or not.
Nexts(trie, runes, i, max_word_len) ==
  {i} \cup {j \in i + 1 .. Len(runes) :
              /\ j - i + 1 <= max_word_len
              /\ \A k \in i .. j : SubSeq(runes, i, k) \in trie.nodes
              /\ SubSeq(runes, i, j) \in DOMAIN trie.unit}

-----------------------------------------------------------------------------
\* The weights in rising order: fewer than k of them are below the k-th.
Ordered(weights) ==
  [k \in DOMAIN weights |->
     CHOOSE w \in Range(weights) :
       /\ Cardinality({i \in DOMAIN weights : weights[i] < w}) < k
       /\ k <= Cardinality({i \in DOMAIN weights : weights[i] <= w})]

WeightsOf(entries) == [i \in DOMAIN entries |-> entries[i].weight]

MinWeight(entries) == Ordered(WeightsOf(entries))[1]

\* What a user word without a frequency weighs (WordWeightMedian).
UserWordDefaultWeight(entries) ==
  Ordered(WeightsOf(entries))[Len(entries) \div 2 + 1]

\* A line of the user dictionary has a weight or none.  (The weight is the
\* logarithm of a frequency over the sum of all, an integer here; that of the
\* frequency 0 is minus infinity, which no integer stands for.)
UserEntries(entries, user) ==
  [i \in DOMAIN user |->
     [word |-> user[i].word,
      weight |-> IF user[i].weight = << >> THEN UserWordDefaultWeight(entries)
                 ELSE user[i].weight[1]]]

\* Init: the words of the user dictionary come last, and the weights of the
\* others do not count them.
LoadDict(entries, user) ==
  [trie |-> CreateTrie(entries \o UserEntries(entries, user)),
   min_weight |-> MinWeight(entries),
   user_dict_single_chinese_word |->
     {u.word[1] : u \in {v \in Range(user) : Len(v.word) = 1}}]
=============================================================================
