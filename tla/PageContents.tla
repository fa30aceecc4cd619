----------------------------- MODULE PageContents -----------------------------
(***************************************************************************)
(* What a fetched page says and links to (utils/parse_html.cc).  A page is *)
(* the sequence of its tags and texts, in which "end" closes the element   *)
(* that is open; Gumbo makes a tree of it whose nodes are the positions of *)
(* the others.  "a" is a link whose href format_url lets through, "none"   *)
(* one whose href it does not, "p" any other element that is shown.        *)
(***************************************************************************)
EXTENDS Integers, FiniteSetsExt, SequencesExt

Element == {"html", "head", "body", "title", "a", "none", "p", "script"}

\* The parent of every node; elements that are never closed end with the page.
Parents(page) ==
  FoldLeft(LAMBDA s, n :
             IF page[n] = "end"
             THEN [open |-> IF page[Last(s.open)] \in {"html", "body"} THEN s.open
                            ELSE Front(s.open),
                   parent |-> Append(s.parent, 0)]
             ELSE [open |-> IF page[n] \in Element THEN Append(s.open, n) ELSE s.open,
                   parent |-> Append(s.parent, Last(s.open))],
           [open |-> <<0>>, parent |-> << >>],
           [n \in DOMAIN page |-> n]).parent

\* The positions of a page with a property, in order.
Positions(page, Has(_)) == SelectSeq([n \in DOMAIN page |-> n], Has)

Nodes(page) == {n \in DOMAIN page : page[n] # "end"}

Parent(page) ==
  LET parent == Parents(page)
  IN  [n \in Nodes(page) |-> parent[n]]

Children(page, n) ==
  LET parent == Parent(page)
  IN  Positions(page, LAMBDA c : c \in Nodes(page) /\ parent[c] = n)

\* Mutant: scripts are read as text.
IsReadScripts(symbol) == symbol \in Element

IsRead(symbol) == symbol \in Element \ {"script"}

\* The links below every node, and the text: the positions of the text nodes,
\* and 0 for the end of line written behind every child but the first that
\* has any.
get_links_contents(page) ==
  LET Contents[n \in Nodes(page)] ==
        LET children == Children(page, n)
            Line(c) == LET text == Contents[c].contents
                       IN  IF c # children[1] /\ text # << >> THEN text \o <<0>> ELSE text
        IN  IF page[n] = "text" THEN [links |-> {}, contents |-> <<n>>]
            ELSE IF ~IsRead(page[n]) THEN [links |-> {}, contents |-> << >>]
            ELSE [links |-> (IF page[n] = "a" THEN {n} ELSE {})
                              \cup UNION {Contents[c].links : c \in Range(children)},
                  contents |-> FlattenSeq([i \in DOMAIN children |-> Line(children[i])])]
  IN  Contents[1]

\* The first child of node n with a tag, as a set.
FirstChild(page, n, tag) ==
  LET found == {c \in Range(Children(page, n)) : page[c] = tag}
  IN  IF found = {} THEN {} ELSE {Min(found)}

\* The node whose text is the title; 0 for none.
find_title(page) ==
  LET titles == UNION {FirstChild(page, head, "title") : head \in FirstChild(page, 1, "head")}
      texts == {Children(page, t)[1] : t \in {t \in titles : Len(Children(page, t)) = 1}}
      title == {x \in texts : page[x] \in {"text", "blank"}}
  IN  IF title = {} THEN 0 ELSE Min(title)

-----------------------------------------------------------------------------
\* The nodes around n, itself among them.
Around(page, n) ==
  LET parent == Parent(page)
      Up[k \in {0} \cup Nodes(page)] == IF k = 0 THEN {} ELSE {k} \cup Up[parent[k]]
  IN  Up[n]

IsShown(page, n) == \A m \in Around(page, n) : page[m] # "script"

\* The links and the texts of a page are those that are not in a script; two texts
\* that follow each other are on one line unless the former ends something that
\* is not the first in what surrounds it; the title is a text of the first title
\* in the head, and is read as text of the page, too.
ReadsAsShown(page) ==
  LET read == get_links_contents(page)
      shown == Positions(page, LAMBDA n : page[n] = "text" /\ IsShown(page, n))
      texts == SelectSeq(read.contents, LAMBDA t : t # 0)
      Breaks(t, u) == \E m \in Around(page, t) \ Around(page, u) :
                        m # Children(page, Parent(page)[m])[1]
      title == find_title(page)
  IN  /\ read.links = {n \in Nodes(page) : page[n] = "a" /\ IsShown(page, n)}
      /\ texts = shown
      /\ \A k \in 1 .. Len(shown) - 1 :
           LET at == CHOOSE i \in DOMAIN read.contents : read.contents[i] = shown[k]
           IN  (read.contents[at + 1] = 0) <=> Breaks(shown[k], shown[k + 1])
      /\ title # 0 /\ page[title] = "text" => title \in Range(texts)
=============================================================================
