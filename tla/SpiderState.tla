----------------------------- MODULE SpiderState -----------------------------
(***************************************************************************)
(* The state of one run of the spider: the shared memory segment           *)
(* (spider/shmctrl.h), the two URL list files, the rows of the database    *)
(* the spider decides by, the master process and the local variables of    *)
(* the crawl_worker and parse_worker processes.                            *)
(*                                                                         *)
(* A URL is an element of Url and a page is known by the URL it was        *)
(* fetched from.  The text of both is left out, except that a page that    *)
(* went through a slot of the html ring is not the page that was fetched   *)
(* (see Page).                                                             *)
(***************************************************************************)
EXTENDS ShmRing, FiniteSets

CONSTANTS
  Crawler, Parser,   \* the crawl_worker and the parse_worker processes
  Url,               \* the well-formed URLs of at most URL_SIZE - 1 bytes
  NoUrl,             \* a slot or a work_url that was never written, an empty line
  NoPage,            \* formated_html when there is none
  NoOne,             \* the holder of a lock that is free
  UrlNums, HtmlNums, \* URL_NUMS and HTML_NUMS of values.h
  StartLines,        \* the lines of the start url file after format_url
  ReadLines,         \* the lines of the read url file when the spider starts
  Links,             \* the links of the page of a URL, as it was fetched
  SlotLinks,         \* those found in what a slot of the html ring holds of it
  Answers, Fails,    \* the URLs whose fetch may succeed, and may fail
  FdLimit,           \* the descriptors a worker can spend on sockets
  ReadUrlFails,      \* opening the read url file may fail
  WriteUrlFails,     \* opening the write url file may fail
  IndexFails         \* a query of ReverseValuateStrategy::handle may fail

Worker == Crawler \cup Parser
Line == Url \cup {NoUrl}

\* A page as fetched, or (cut) as a slot of the html ring gives it back.
Page == [of : Url, cut : BOOLEAN]

ASSUME WorkersAssumption ==
  /\ Crawler \cap Parser = {}
  /\ NoOne \notin Crawler \cup Parser

ASSUME RingSizesAssumption ==       \* master.cc exits unless this holds
  /\ UrlNums \in Nat /\ UrlNums >= 2
  /\ HtmlNums \in Nat /\ HtmlNums >= 2

ASSUME WebAssumption ==
  /\ IsFiniteSet(Url) /\ NoUrl \notin Url
  /\ NoPage \notin [of : Url, cut : BOOLEAN]
  /\ Links \in [Url -> SUBSET Url]
  /\ SlotLinks \in [Url -> SUBSET Url]
  /\ StartLines \in Seq(Url \cup {NoUrl})
  /\ ReadLines \in Seq(Url \cup {NoUrl})
  /\ Answers \cup Fails = Url

ASSUME EnvironmentAssumption ==
  /\ FdLimit \in Nat
  /\ {ReadUrlFails, WriteUrlFails, IndexFails} \subseteq BOOLEAN

VARIABLES
  \* the shared memory segment
  url_queue, url_head, url_tail,
  html_queue, html_head, html_tail,
  lock,              \* who holds url_lock, html_lock and url_lists_lock
  removed,           \* the segment was removed by shmctl(IPC_RMID)
  \* the files
  read_list,         \* the lines left in the read url file
  write_list,        \* the URLs in the write url file
  \* the database
  visited,           \* the URLs with a row in visited_url
  nice0,             \* the URLs whose row in website_nice says 0
  indexed,           \* <<url, page>>: the page was indexed under the url
  \* the master
  mpc, start_list, master_url,
  pending,           \* the workers a SIGINT is on its way to
  \* the workers
  pc, work_url, has_url, page, links, kept, room, sockets,
  \* history
  found              \* the URLs the spider ever accepted as work to do

urlRing  == <<url_queue, url_head, url_tail>>
htmlRing == <<html_queue, html_head, html_tail>>
files    == <<read_list, write_list>>
database == <<visited, nice0, indexed>>
master   == <<mpc, start_list, master_url, pending, removed>>
locals   == <<work_url, has_url, page, links, kept, room, sockets>>

vars == <<urlRing, htmlRing, lock, files, database, master, pc, locals, found>>

LockName == {"url_lock", "html_lock", "url_lists_lock"}

\* The labels between the acquisition of a lock and its release.
UrlSection  == {"take_url", "advance_url", "measure", "insert"}
HtmlSection == {"html", "store_page", "load_page"}
ListSection == {"read_line", "cut_line"}

Label == UrlSection \cup HtmlSection \cup ListSection \cup
         {"unborn", "attach", "start", "want_url", "want_list", "check", "fetch",
          "want_html", "valuate", "index", "filter", "want_room", "spill",
          "exited", "killed"}

MasterLabel == {"seed", "spawn", "pause", "open_list", "drain", "drain_advance",
                "kill", "gone"}

TypeOK ==
  /\ url_queue \in [0 .. UrlNums - 1 -> Line]
  /\ url_head \in 0 .. UrlNums - 1
  /\ url_tail \in 0 .. UrlNums - 1
  /\ html_queue \in [0 .. HtmlNums - 1 -> [url : Line, page : Page \cup {NoPage}]]
  /\ html_head \in 0 .. HtmlNums - 1
  /\ html_tail \in 0 .. HtmlNums - 1
  /\ lock \in [LockName -> Worker \cup {NoOne}]
  /\ removed \in BOOLEAN
  /\ read_list \in Seq(Line)
  /\ write_list \subseteq Line
  /\ visited \subseteq Line /\ nice0 \subseteq Line
  /\ indexed \subseteq Line \X (Page \cup {NoPage})
  /\ mpc \in MasterLabel
  /\ start_list \in Seq(Line)
  /\ master_url \in Line
  /\ pending \subseteq Worker
  /\ pc \in [Worker -> Label]
  /\ work_url \in [Worker -> Line]
  /\ has_url \in [Worker -> BOOLEAN]
  /\ page \in [Worker -> Page \cup {NoPage}]
  /\ links \in [Worker -> SUBSET Url]
  /\ kept \in [Worker -> SUBSET Url]
  /\ room \in [Worker -> 0 .. UrlNums - 1]
  /\ sockets \in [Worker -> 0 .. FdLimit]
  /\ found \subseteq Line
=============================================================================
