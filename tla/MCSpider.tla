------------------------------- MODULE MCSpider -------------------------------
(***************************************************************************)
(* A small web and small rings for TLC.                                    *)
(***************************************************************************)
EXTENDS Spider, TLC

CONSTANTS c1, c2, p1, p2, u1, u2, u3, u4

\* u1 and u2 are known from the start; u1 links to pages nobody knows yet,
\* u2 to u1 as well; u3 and u4 link back.
Web == [u \in Url |->
          CASE u = u1 -> {u1, u2, u3} \cap Url
            [] u = u2 -> {u1, u3, u4} \cap Url
            [] OTHER -> {u1}]

\* A slot of the html ring loses the beginning of a page, and one link with it.
SlotWeb == [u \in Url |-> Web[u] \ {u3}]

NoLines == << >>
OneStart == <<u1>>
TwoStarts == <<u1, NoUrl, u2>>
OneLine == <<u2>>

CrawlersAlike == Permutations(Crawler)
=============================================================================
