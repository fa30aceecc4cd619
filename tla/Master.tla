-------------------------------- MODULE Master --------------------------------
(***************************************************************************)
(* spider/master.cc: fill the url ring from the start url file, start the  *)
(* workers, wait; on a SIGINT (or a failed vfork) run at_exit, which moves *)
(* what the url ring holds to the write url file, removes the segment and  *)
(* interrupts the workers.  at_exit takes no lock.                         *)
(***************************************************************************)
EXTENDS WorkerSteps

workers == <<pc, locals>>

SeedMore == start_list # << >> /\ ~RingFull(url_head, url_tail, UrlNums)

\* One line of the start url file.
Seed ==
  /\ mpc = "seed"
  /\ SeedMore
  /\ start_list' = Tail(start_list)
  /\ LET u == Head(start_list) IN
       IF Unwanted(u)
       THEN UNCHANGED <<url_queue, url_tail, found>>
       ELSE /\ url_queue' = [url_queue EXCEPT ![url_tail] = u]
            /\ url_tail' = RingNext(url_tail, UrlNums)
            /\ found' = found \cup {u}
  /\ UNCHANGED <<url_head, htmlRing, lock, files, database, workers,
                 mpc, master_url, pending, removed>>

SeedEnds ==
  /\ mpc = "seed"
  /\ ~SeedMore
  /\ mpc' = "spawn"
  /\ UNCHANGED <<urlRing, htmlRing, lock, files, database, workers, found,
                 start_list, master_url, pending, removed>>

Unborn(S) == {w \in S : pc[w] = "unborn"}

\* vfork and execl: the crawl workers first.
Spawn(w) ==
  /\ mpc = "spawn"
  /\ w \in Unborn(Worker)
  /\ w \in Parser => Unborn(Crawler) = {}
  /\ Goto(w, "attach")
  /\ UNCHANGED <<urlRing, htmlRing, lock, files, database, master, locals, found>>

SpawnEnds ==
  /\ mpc = "spawn"
  /\ Unborn(Worker) = {}
  /\ mpc' = "pause"
  /\ UNCHANGED <<urlRing, htmlRing, lock, files, database, workers, found,
                 start_list, master_url, pending, removed>>

MasterStarts == Seed \/ SeedEnds \/ (\E w \in Worker : Spawn(w)) \/ SpawnEnds

-----------------------------------------------------------------------------
(* Shutting down.                                                          *)

\* kill -INT reaches the master only; the terminal's Ctrl-C reaches the
\* workers as well.
Interrupt ==
  /\ mpc \in {"seed", "spawn", "pause"}
  /\ mpc' = "open_list"
  /\ \/ UNCHANGED pending
     \/ pending' = Worker \ Unborn(Worker)
  /\ UNCHANGED <<urlRing, htmlRing, lock, files, database, workers, found,
                 start_list, master_url, removed>>

\* at_exit returns here: no worker is interrupted.
DrainOpenFails ==
  /\ mpc = "open_list"
  /\ WriteUrlFails
  /\ removed' = TRUE
  /\ mpc' = "gone"
  /\ UNCHANGED <<urlRing, htmlRing, lock, files, database, workers, found,
                 start_list, master_url, pending>>

DrainOpens ==
  /\ mpc = "open_list"
  /\ mpc' = "drain"
  /\ UNCHANGED <<urlRing, htmlRing, lock, files, database, workers, found,
                 start_list, master_url, pending, removed>>

DrainCopy ==
  /\ mpc = "drain"
  /\ ~RingEmpty(url_head, url_tail)
  /\ master_url' = url_queue[url_head]
  /\ mpc' = "drain_advance"
  /\ UNCHANGED <<urlRing, htmlRing, lock, files, database, workers, found,
                 start_list, pending, removed>>

DrainAdvance ==
  /\ mpc = "drain_advance"
  /\ write_list' = write_list \cup {master_url}
  /\ url_head' = RingNext(url_head, UrlNums)
  /\ mpc' = "drain"
  /\ UNCHANGED <<url_queue, url_tail, htmlRing, lock, read_list, database,
                 workers, found, start_list, master_url, pending, removed>>

DrainEnds ==
  /\ mpc = "drain"
  /\ RingEmpty(url_head, url_tail)
  /\ removed' = TRUE
  /\ mpc' = "kill"
  /\ UNCHANGED <<urlRing, htmlRing, lock, files, database, workers, found,
                 start_list, master_url, pending>>

\* Mutant: only the first group of children is interrupted.
KillCrawlersOnly ==
  /\ mpc = "kill"
  /\ pending' = Crawler \ Unborn(Crawler)
  /\ mpc' = "gone"
  /\ UNCHANGED <<urlRing, htmlRing, lock, files, database, workers, found,
                 start_list, master_url, removed>>

KillWorkers ==
  /\ mpc = "kill"
  /\ pending' = Worker \ Unborn(Worker)
  /\ mpc' = "gone"
  /\ UNCHANGED <<urlRing, htmlRing, lock, files, database, workers, found,
                 start_list, master_url, removed>>

\* The workers leave SIGINT at its default action: w ends where it is.
DieOfInterrupt(w) ==
  /\ w \in pending
  /\ pc[w] \notin {"exited", "killed"}
  /\ Goto(w, "killed")
  /\ UNCHANGED <<urlRing, htmlRing, lock, files, database, master, locals, found>>

\* system() ignores SIGINT until its command has ended: an interrupt that comes
\* while w waits for sed is lost.  One from the terminal ends sed itself, with
\* the line still in the file.
SurviveInterrupt(w) ==
  /\ w \in pending
  /\ pc[w] = "cut_line"
  /\ pending' = pending \ {w}
  /\ \/ UNCHANGED <<pc, lock>>
     \/ mpc # "gone" /\ Release(w, "url_lists_lock") /\ Goto(w, "check")
  /\ UNCHANGED <<urlRing, htmlRing, files, database, locals, found,
                 mpc, start_list, master_url, removed>>

TakeInterrupt(w) == DieOfInterrupt(w) \/ SurviveInterrupt(w)

AtExit ==
  \/ DrainOpenFails \/ DrainOpens \/ DrainCopy \/ DrainAdvance \/ DrainEnds
  \/ KillWorkers
=============================================================================
