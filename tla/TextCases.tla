------------------------------- MODULE TextCases -------------------------------
(***************************************************************************)
(* Inputs of the pure algorithms.  A behaviour writes one symbol after     *)
(* another, so that every input of a kind up to its bound is a state.      *)
(* Every invariant is about the inputs of one kind.                        *)
(***************************************************************************)
EXTENDS SegmenterSpec, Runes, SearchRank, FormatUrl, CryptString, IniParser, DbInfo,
        PageContents

CONSTANTS
  Alphabet,      \* for every kind of input, the symbols it is made of
  Bound,         \* bound: for every kind the length, and what else a case ranges over
  SampleText     \* a text in which words are looked for

ASSUME CasesAssumption ==
  /\ \A name \in DOMAIN Bound : Bound[name] \in Nat
  /\ DOMAIN Alphabet \subseteq DOMAIN Bound

\* The weights of pages are numbers, and their pages of results are counted in
\* a short.
ASSUME WeightsAssumption ==
  /\ Alphabet.weights \subseteq Nat
  /\ \A n \in 0 .. Bound.weights : Short(n) = n

\* Texts are made of bytes.
ASSUME BytesAssumption == Alphabet.bytes \subseteq 0 .. 255

\* What begins with a byte has one to four, or is no character.
ASSUME RunesAssumption == Alphabet.firsts \subseteq 1 .. 5 /\ Alphabet.chars \subseteq 1 .. 4

\* The lines of a dictionary have words and weights; no word is searched for
\* beyond MaxWordLength, and no text is longer.
ASSUME LinesAssumption ==
  /\ \A line \in Alphabet.lines : line \in [word : Seq(Range(line.word)), weight : Int]
  /\ SampleText \in Seq(Range(SampleText)) /\ Len(SampleText) <= MaxWordLength
  /\ Bound.text <= MaxWordLength

\* A URL is written piece by piece, a piece being some tokens.
ASSUME UrlsAssumption == Alphabet.url \subseteq Seq(Token)

\* A settings file is written piece by piece, a piece being some characters.
ASSUME FilesAssumption ==
  Alphabet.file \subseteq Seq(UNION {Range(piece) : piece \in Alphabet.file})

\* A setting is left out or given as a number, in the order DBInfo reads them.
ASSUME NumbersAssumption ==
  /\ \A number \in Alphabet.numbers :
       number # << >> => number[1] \in [n : Int, rest : BOOLEAN]
  /\ Bound.numbers <= Len(NumberOrder)

VARIABLES kind, input

Init == kind \in DOMAIN Alphabet /\ input = << >>

Write(symbol) ==
  Len(input) < Bound[kind] /\ input' = Append(input, symbol) /\ UNCHANGED kind

Next == \E symbol \in Alphabet[kind] : Write(symbol)

Spec == Init /\ [][Next]_<<kind, input>>

-----------------------------------------------------------------------------
\* Every text is cut so that its words cover it; and a search finds it under the
\* words inside them as well (QuerySegment, MixSegment).  What HMMSegment cuts is
\* cut between no two letters and no two digits of a run; a word of the user
\* dictionary may still end inside one.
TextsAreCovered == kind = "text" => CoversText(input) /\ KeepsAsciiTogether(input)

\* Among all cuts of a text into words of the dictionaries and characters, the
\* one taken weighs most (MPSegment::CalcDP).
TextsAreCutByWeight == kind = "text" => IsHeaviestCut(input)

\* What the dictionary leaves over is cut by a most probable path of the model
\* (HMMSegment::Viterbi), characters it has never seen included.
LeftOversAreMostProbable ==
  kind = "text" /\ input # << >> /\ Range(input) \cap Ascii = {} =>
    IsMostProbable(input, 1, Len(input))

\* Whatever lines a dictionary has, its trie finds their words and no others,
\* each with its last weight (DictTrie, Trie).
DictionariesFindTheirWords ==
  kind = "lines" => FindsItsWords(input, SampleText)

\* A text decodes into runes that lie side by side in its bytes, or not at all,
\* and a sentence that was cut inside a character not at all (DecodeRunesInString,
\* GetWordFromRunes, plain_search_strategy.hpp:47).
RunesLieInTheBytes ==
  /\ kind = "firsts" => RunesAreTheBytes(input)
  /\ kind = "chars" => \A size \in 0 .. Bound.cut : CutDecodesWholeOrNot(input, size)

\* A page of results is the slice of the ranking that was asked for; the pages
\* together hold every result once, also among results of one weight; and what
\* is left in results_per_page is the number of pages.
ResultPagesAreSlices ==
  kind = "weights" =>
    \A size \in 1 .. Bound.size :
      LET found == [k \in 0 .. Len(input) - 1 |-> k + 1]
          Page(start_page) == SearchResult(found, input, start_page, size)
          pages == (Len(input) + size - 1) \div size
      IN  /\ \A k \in 1 .. pages :
               /\ IsSliceOfRanking(Page(k).urls, input, (k - 1) * size + 1, size)
               /\ Page(k).results_per_page = pages
          /\ Page(pages + 1) = NoResults
          /\ \A url \in DOMAIN input :
               \E k \in 1 .. pages :
                 /\ url \in Range(Page(k).urls)
                 /\ \A l \in 1 .. pages : url \in Range(Page(l).urls) => l = k

\* From every page of results the links lead to pages of results only, to this
\* page's neighbours among them (search_server.cc:179-205, DFL_PAGES at least 4).
LinksLeadToPages ==
  kind = "weights" /\ input = << >> =>
    \A total \in 1 .. Bound.total : \A window \in 4 .. Bound.window :
      /\ \A start_page \in 1 .. total :
           LET links == Links(start_page, total, window)
           IN  /\ links \subseteq 1 .. total
               /\ (start_page - 1 .. start_page + 1) \cap (1 .. total) \subseteq links
      /\ 1 \in Links(total, total, window) /\ total \in Links(1, total, window)

\* A page is known under one URL however it is linked to, and asked for under the
\* URL it is recorded under, which has a host with a dot and is never a script
\* (format_url, parse_url).  Two tests expect otherwise of javascript/fkdj, which
\* format_url clears, for a slash comes before any dot (format_url.cc:95): that
\* it stays as it is (test/format_url.cc:54-56) and has the host javascript
\* (test/parse_url.cc:65-69).
PagesHaveOneUrl ==
  kind = "url" =>
    LET url == FlattenSeq(input)
    IN  HasOneForm(url) /\ AsksForThePageItRecords(url) /\ AsksForNoScript(url)

\* What is written into the database or a request is read back as it was, and a
\* request is decoded from its own bytes only (crypt_string.cc, escape_url.cc).
\* The code of a text is decoded to the text, not to itself, as the test expects
\* (test/crypt_string.cc:27); and the rules #0, #1 and ## of crypt_string.cc:21-36
\* are those of older functions that are commented out there.
TextsAreReadBack ==
  kind = "bytes" => IsDecodedAsSent(input) /\ \A behind \in {0, 48} : IsReadBack(input, behind)

\* Settings are what the file says, the first time it says it (IniParser).
SettingsAreTheFiles == kind = "file" => ReadsWhatTheFileSays(FlattenSeq(input))

\* Every settings file yields limits the pool can work under (DBInfo).
LimitsAreUsable ==
  kind = "numbers" =>
    LET given == {k \in DOMAIN input : input[k] # << >>}
    IN  LimitsFitThePool(
          [key \in {NumberOrder[k] : k \in given} |->
             input[CHOOSE k \in given : NumberOrder[k] = key][1]])

\* The links and the text of a page are those its reader sees (parse_html.cc).
PagesAreReadAsShown ==
  kind = "page" =>
    \A head \in {<< >>, <<"title", "text", "end">>, <<"script", "text", "end", "title", "end">>} :
      ReadsAsShown(<<"html", "head">> \o head \o <<"end", "body">> \o input)
=============================================================================
