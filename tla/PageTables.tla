------------------------------ MODULE PageTables ------------------------------
(***************************************************************************)
(* The operations of SqlDBOperation on the tables visited_url and          *)
(* website_nice (db/sql_db_operation.hpp:156-283), as crawl and parse      *)
(* workers call them: each is a process that sends one statement after     *)
(* another, with nothing that holds the statements of an operation         *)
(* together.  A statement may fail and a worker may be killed between two. *)
(*                                                                         *)
(* No operation deletes a row, so a row of visited_url is at the place its *)
(* number says.                                                            *)
(***************************************************************************)
EXTENDS Integers, Sequences, FiniteSets, FiniteSetsExt

CONSTANTS
  Worker, Url,
  Version,        \* of the page behind a URL
  Nice,           \* what websites are given by op_website_nice
  MaxCalls,       \* bound: the operations of a behaviour
  MaxFailures     \* bound: the queries of a behaviour that fail

ASSUME PageAssumption ==
  Nice \subseteq Int /\ MaxCalls \in Nat /\ MaxFailures \in Nat

VARIABLES
  wpc, call,
  pages,      \* the rows of visited_url
  nices,      \* the rows of website_nice
  calls, failures,
  shared,     \* history: rows two workers had in hand, or one left halfway
  stored,     \* history: what was last stored in the columns of a page
  given,      \* history: the numbers get_url_no gave for a page
  told        \* history: the nice last set, and what was answered since

counts == <<calls, failures>>
pageHistory == <<shared, stored, given, told>>
pageVars == <<wpc, call, pages, nices, counts, pageHistory>>

Column == {"title", "contents", "html"}
Empty == "NULL"
NoNice == 10
Page == [url : Url, title : Version \cup {Empty}, contents : Version \cup {Empty},
         html : Version \cup {Empty}]

\* Columns whose statement is not longer than MAX_INSERT are in fits.
Calls ==
  [op : {"op_visited_url"}, url : Url, version : Version,
   fits : {Column, {"title"}}]
  \cup [op : {"get_url_no", "get_website_nice"}, url : Url]
  \cup [op : {"op_website_nice"}, url : Url, nice : Nice]

NoCall == [op |-> "none"]

\* A worker is at a label of the operation it was called with, and every number
\* a page was ever given is that of a row.
PageTypeOK ==
  /\ wpc \in [Worker -> {"idle", "look", "insert", "select"} \cup Column \cup {"update"}]
  /\ call \in [Worker -> Calls \cup {NoCall}]
  /\ \A w \in Worker : call[w] = NoCall <=> wpc[w] = "idle"
  /\ pages \in Seq(Page)
  /\ nices \in Seq([url : Url, nice : Nice])
  /\ given \in [Url -> SUBSET DOMAIN pages]
  /\ calls \in 0 .. MaxCalls /\ failures \in 0 .. MaxFailures

PageInit ==
  /\ wpc = [w \in Worker |-> "idle"]
  /\ call = [w \in Worker |-> NoCall]
  /\ pages = << >> /\ nices = << >>
  /\ calls = 0 /\ failures = 0
  /\ shared = {}
  /\ stored = [u \in Url |-> [c \in Column |-> Empty]]
  /\ given = [u \in Url |-> {}]
  /\ told = [u \in Url |-> [set |-> NoNice, got |-> {}]]

-----------------------------------------------------------------------------
\* What a worker was called with is gone when it is done.
To(w, label) ==
  /\ wpc' = [wpc EXCEPT ![w] = label]
  /\ call' = IF label = "idle" THEN [call EXCEPT ![w] = NoCall] ELSE call
UrlOf(w) == call[w].url
Does(w, op) == call[w].op = op

TableOf(op) == IF op \in {"op_visited_url", "get_url_no"} THEN "visited_url"
               ELSE "website_nice"
RowOf(c) == <<TableOf(c.op), c.url>>
RowInHand(s) == \E w \in Worker : wpc[w] # "idle" /\ RowOf(call[w]) = s

NumbersOf(u) == {no \in DOMAIN pages : pages[no].url = u}
NicesOf(u) == {nices[i].nice : i \in {i \in DOMAIN nices : nices[i].url = u}}
IsThere(w) == IF TableOf(call[w].op) = "visited_url" THEN NumbersOf(UrlOf(w)) # {}
              ELSE NicesOf(UrlOf(w)) # {}

Call(w) ==
  /\ wpc[w] = "idle"
  /\ calls < MaxCalls
  /\ \E c \in Calls :
       /\ call' = [call EXCEPT ![w] = c]
       /\ shared' = IF RowInHand(RowOf(c)) THEN shared \cup {RowOf(c)} ELSE shared
  /\ wpc' = [wpc EXCEPT ![w] = "look"]
  /\ calls' = calls + 1
  /\ UNCHANGED <<failures, pages, nices, stored, given, told>>

AfterLook(op, there) ==
  CASE op = "op_visited_url" -> IF there THEN "title" ELSE "insert"
    [] op = "get_url_no" -> IF there THEN "select" ELSE "insert"
    [] op = "op_website_nice" -> IF there THEN "update" ELSE "insert"
    [] op = "get_website_nice" -> IF there THEN "select" ELSE "idle"

\* get_website_nice answers 10 for a website that is not in the table.
Told(w, x) ==
  told' = IF Does(w, "get_website_nice")
          THEN [told EXCEPT ![UrlOf(w)].got = @ \cup {x}] ELSE told

\* if_exist
Look(w) ==
  /\ wpc[w] = "look"
  /\ To(w, AfterLook(call[w].op, IsThere(w)))
  /\ IF IsThere(w) THEN UNCHANGED told ELSE Told(w, NoNice)
  /\ UNCHANGED <<pages, nices, counts, shared, stored, given>>

\* get_url_no: goto again
InsertPage(w) ==
  /\ wpc[w] = "insert"
  /\ TableOf(call[w].op) = "visited_url"
  /\ pages' = Append(pages, [url |-> UrlOf(w), title |-> Empty, contents |-> Empty,
                             html |-> Empty])
  /\ To(w, IF Does(w, "get_url_no") THEN "look" ELSE "title")
  /\ UNCHANGED <<nices, counts, pageHistory>>

Following(column) ==
  CASE column = "title" -> "contents" [] column = "contents" -> "html" [] OTHER -> "idle"

\* Mutant: the update of a column has no where.
UpdateColumnOfAll(w) ==
  /\ wpc[w] \in Column
  /\ LET column == wpc[w]
     IN  IF column \in call[w].fits
         THEN /\ pages' = [no \in DOMAIN pages |->
                             [pages[no] EXCEPT ![column] = call[w].version]]
              /\ stored' = [stored EXCEPT ![UrlOf(w)][column] = call[w].version]
         ELSE UNCHANGED <<pages, stored>>
  /\ To(w, Following(wpc[w]))
  /\ UNCHANGED <<nices, counts, shared, given, told>>

\* A statement that is too long is left out; the column keeps what it has.
UpdateColumn(w) ==
  /\ wpc[w] \in Column
  /\ LET column == wpc[w]
     IN  IF column \in call[w].fits
         THEN /\ pages' = [no \in DOMAIN pages |->
                             IF pages[no].url = UrlOf(w)
                             THEN [pages[no] EXCEPT ![column] = call[w].version]
                             ELSE pages[no]]
              /\ stored' = [stored EXCEPT ![UrlOf(w)][column] = call[w].version]
         ELSE UNCHANGED <<pages, stored>>
  /\ To(w, Following(wpc[w]))
  /\ UNCHANGED <<nices, counts, shared, given, told>>

\* Mutant: the number is that of the row inserted last.
SelectNumberLast(w) ==
  /\ wpc[w] = "select" /\ Does(w, "get_url_no")
  /\ given' = [given EXCEPT ![UrlOf(w)] = @ \cup {Len(pages)}]
  /\ To(w, "idle")
  /\ UNCHANGED <<pages, nices, counts, shared, stored, told>>

\* The first of the rows, which the server gives in any order.
SelectNumber(w) ==
  /\ wpc[w] = "select" /\ Does(w, "get_url_no")
  /\ \E no \in NumbersOf(UrlOf(w)) : given' = [given EXCEPT ![UrlOf(w)] = @ \cup {no}]
  /\ To(w, "idle")
  /\ UNCHANGED <<pages, nices, counts, shared, stored, told>>

Setting(w) == told' = [told EXCEPT ![UrlOf(w)] = [set |-> call[w].nice, got |-> {}]]

InsertNice(w) ==
  /\ wpc[w] = "insert" /\ Does(w, "op_website_nice")
  /\ nices' = Append(nices, [url |-> UrlOf(w), nice |-> call[w].nice])
  /\ Setting(w)
  /\ To(w, "idle")
  /\ UNCHANGED <<pages, counts, shared, stored, given>>

UpdateNice(w) ==
  /\ wpc[w] = "update"
  /\ nices' = [i \in DOMAIN nices |->
                 IF nices[i].url = UrlOf(w) THEN [nices[i] EXCEPT !.nice = call[w].nice]
                 ELSE nices[i]]
  /\ Setting(w)
  /\ To(w, "idle")
  /\ UNCHANGED <<pages, counts, shared, stored, given>>

\* Mutant: a nice above 10 counts.
LowestAny(numbers) == Min(numbers)

\* No row counts for more than 10.
Lowest(numbers) == Min(numbers \cup {NoNice})

SelectNice(w) ==
  /\ wpc[w] = "select" /\ Does(w, "get_website_nice")
  /\ Told(w, Lowest(NicesOf(UrlOf(w))))
  /\ To(w, "idle")
  /\ UNCHANGED <<pages, nices, counts, shared, stored, given>>

\* A failed if_exist answers false, and get_url_no then inserts a row and looks
\* again, as long as its queries fail; an update of visited_url goes on to the
\* next column whatever became of the one before.
AfterFailed(w) ==
  CASE wpc[w] = "look" -> AfterLook(call[w].op, FALSE)
    [] wpc[w] = "insert" /\ Does(w, "op_visited_url") -> "title"
    [] wpc[w] \in Column -> Following(wpc[w])
    [] OTHER -> "idle"

QueryFails(w) ==
  /\ failures < MaxFailures
  /\ wpc[w] # "idle"
  /\ wpc[w] \in Column => wpc[w] \in call[w].fits
  /\ failures' = failures + 1
  /\ To(w, AfterFailed(w))
  /\ shared' = shared \cup {RowOf(call[w])}
  /\ UNCHANGED <<pages, nices, calls, stored, given, told>>

\* get_url_no leaves nothing halfway, and get_website_nice changes nothing.
Killed(w) ==
  /\ wpc[w] # "idle"
  /\ To(w, "idle")
  /\ shared' = IF call[w].op \in {"op_visited_url", "op_website_nice"}
               THEN shared \cup {RowOf(call[w])} ELSE shared
  /\ UNCHANGED <<pages, nices, counts, stored, given, told>>

PageStep(w) ==
  \/ Call(w) \/ Look(w) \/ InsertPage(w) \/ UpdateColumn(w) \/ SelectNumber(w)
  \/ InsertNice(w) \/ UpdateNice(w) \/ SelectNice(w) \/ QueryFails(w) \/ Killed(w)

PageNext == \E w \in Worker : PageStep(w)

PageSpec == PageInit /\ [][PageNext]_pageVars

-----------------------------------------------------------------------------
\* A URL that one worker at a time works on has one row in visited_url, and
\* the row shows in each column what was stored there last, whatever the other
\* workers store for other URLs and whatever was too long to be stored.
PagesAreWhole ==
  \A u \in Url :
    <<"visited_url", u>> \notin shared /\ ~RowInHand(<<"visited_url", u>>) =>
      /\ Cardinality(NumbersOf(u)) <= 1
      /\ \A no \in NumbersOf(u) : \A column \in Column :
           pages[no][column] = stored[u][column]
      /\ NumbersOf(u) = {} => stored[u] = [c \in Column |-> Empty]

\* The number under which a page is indexed is a number of its own URL, and
\* stays the same unless two workers had the URL in hand at once or a query
\* about it failed: then it may have two rows, and two numbers.
NumbersAreKept ==
  \A u \in Url :
    /\ given[u] \subseteq NumbersOf(u)
    /\ Cardinality(given[u]) > 1 =>
         <<"visited_url", u>> \in shared /\ Cardinality(NumbersOf(u)) > 1

\* A website counts as it was last said to, but for no more than 10 and for 10
\* before anything was said of it, unless two workers had its row in hand at once or
\* a query about it failed.
NicesAreObeyed ==
  \A u \in Url :
    <<"website_nice", u>> \notin shared =>
      told[u].got \subseteq {Min({told[u].set, NoNice})}
=============================================================================
