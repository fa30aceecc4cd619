------------------------------- MODULE FormatUrl -------------------------------
(***************************************************************************)
(* The one form of a URL under which the spider knows a page               *)
(* (utils/format_url.cc) and its two parts for a request                   *)
(* (utils/parse_url.cc).  A URL is a sequence of tokens: http, www,        *)
(* javascript and s stand for themselves, j for letters that begin the     *)
(* word javascript without being all of it, a for any other small letters, *)
(* A for capital ones, the blank for spaces and tabs and # for the three   *)
(* characters # < >.                                                       *)
(***************************************************************************)
EXTENDS Integers, FiniteSetsExt, SequencesExt

CONSTANT UrlSize   \* URL_SIZE, in tokens

ASSUME UrlSizeAssumption == UrlSize \in Nat

Token == {"http", "www", "javascript", "j", "s", "a", "A", ":", "/", ".", "#", " ", "\n"}

Lowered(url) == [i \in DOMAIN url |-> IF url[i] = "A" THEN "a" ELSE url[i]]

\* The tokens from the first one not in Blanks to the last one not in Ends.  (A
\* url all of whose characters are cut makes the code look at url[-1], which is
\* the high byte of a length, 0, and ends the loop.)
Trimmed(url, Blanks, Ends) ==
  LET first == Min({i \in DOMAIN url : url[i] \notin Blanks} \cup {Len(url) + 1})
      last == Max({i \in first .. Len(url) : url[i] \notin Ends} \cup {first - 1})
  IN  SubSeq(url, first, last)

WithoutPrefix(url, prefix) ==
  IF IsPrefix(prefix, url) THEN SubSeq(url, Len(prefix) + 1, Len(url)) ELSE url

\* Mutant: only http:// is known.
WithoutProtocolHttp(url) == WithoutPrefix(url, <<"http", ":", "/", "/">>)

\* http:// and https://.
WithoutProtocol(url) ==
  LET s == WithoutPrefix(url, <<"http", "s", ":", "/", "/">>)
  IN  IF s # url THEN s ELSE WithoutPrefix(url, <<"http", ":", "/", "/">>)

\* What the code has passed when it looks for the colon of javascript: -- as much
\* of the word as the URL begins with, which may be a part of it or nothing.
Beginnings == {<< >>, <<"j">>, <<"javascript">>}

\* Mutant: the word is matched, the colon behind it is not looked for.
IsScriptWord(url) == url \in {<< >>, <<"javascript">>}

\* A script in place of an address, or nothing that could be a host.
IsScript(url) ==
  \/ url \in {<< >>, <<"javascript">>}
  \/ \E word \in Beginnings : IsPrefix(Append(word, ":"), url)

\* A dot that is not the first character, and no slash before it.
HasHost(url) ==
  LET Dots == {i \in DOMAIN url : url[i] = "."}
  IN  /\ url[1] \notin {"/", "#", "."}
      /\ Dots # {}
      /\ \A i \in DOMAIN url : url[i] # "#" /\ (url[i] = "/" => i > Min(Dots))

format_url(url) ==
  LET trimmed == Trimmed(Lowered(url), {" "}, {" ", "/", "\n"})
      bare == WithoutPrefix(WithoutProtocol(trimmed), <<"www", ".">>)
  IN  IF Len(url) > UrlSize \/ IsScript(bare) \/ ~HasHost(bare) THEN << >> ELSE bare

\* The host and the path of a URL, which is formatted here once more.
parse_url(url) ==
  LET formatted == format_url(url)
      i == Min({k \in DOMAIN formatted : formatted[k] = "/"} \cup {Len(formatted) + 1})
  IN  [host_url |-> SubSeq(formatted, 1, i - 1),
       page_path |-> IF i > Len(formatted) THEN <<"/">>
                     ELSE SubSeq(formatted, i, Len(formatted))]

-----------------------------------------------------------------------------
\* A URL that formatting leaves as it is.  The others are those with a second
\* www. or with a blank behind the first.
IsStable(url) == ~IsPrefix(<<"www", ".">>, url) /\ ~IsPrefix(<<" ">>, url)

\* The workers format a URL when they take it up and record its page under the
\* result; parse_url formats it again and asks for the page.  The two are one
\* page unless the URL begins with www. twice or with a blank after it; and
\* whatever is left of a URL has a host with a dot in it, and a path.
AsksForThePageItRecords(url) ==
  LET work_url == format_url(url)
      parts == parse_url(work_url)
  IN  work_url # << >> /\ IsStable(work_url) =>
        /\ format_url(work_url) = work_url
        /\ "." \in Range(parts.host_url) /\ "/" \notin Range(parts.host_url)
        /\ parts.page_path[1] = "/"
        /\ parts.host_url \o (IF parts.page_path = <<"/">> THEN << >> ELSE parts.page_path)
             = work_url

\* No page is asked for at an address that is a script, not even when parse_url,
\* which formats what format_url left, takes a second www. off its front.
AsksForNoScript(url) ==
  LET host == parse_url(format_url(url)).host_url
  IN  \A word \in Beginnings : ~IsPrefix(Append(word, ":"), host)

\* However a page is linked to - with or without protocol, www., capital letters,
\* blanks around it and slashes behind it - it is known under one form.  (The
\* limit on its size is the exception: it counts what is cut off, too.)
Protocols == {<<"http", ":", "/", "/">>, <<"http", "s", ":", "/", "/">>, << >>}
Fronts == Protocols \cup {<<" ", "http", ":", "/", "/">>}
Wwws == {<<"www", ".">>, << >>}
Tails == {<<"/">>, << >>, <<" ", "\n">>}

SpellingsOf(url) ==
  {front \o www \o url \o tail : front \in Fronts, www \in Wwws, tail \in Tails}

HasOneForm(url) ==
  LET work_url == format_url(url)
  IN  work_url # << >> /\ IsStable(work_url) =>
        \A spelling \in SpellingsOf(work_url) :
          Len(spelling) <= UrlSize => format_url(spelling) = work_url
=============================================================================
