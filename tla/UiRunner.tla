------------------------------ MODULE UiRunner ------------------------------
(***************************************************************************)
(* The operator UI's scraper runner: start, stop and watch crawls that run *)
(* as subprocesses, and the JSON registry of runs behind it.               *)
(*                                                                         *)
(* Every HTTP request has a thread of its own (ThreadingHTTPServer) and    *)
(* every run a watcher thread.  They share the registry file, the table    *)
(* _processes and the set _stop_requested.  Each call of the registry and  *)
(* each block under the runner's lock is one step; between two steps any   *)
(* other thread may run, the crawl may go on, or the server may die and be *)
(* started again.                                                          *)
(***************************************************************************)
EXTENDS Integers, Sequences, FiniteSets

CONSTANTS
    Runs,        \* run ids; each is fresh (time and a random suffix)
    Products,    \* the products a crawl may save, and report with a line
    Stoppers,    \* stop requests
    Viewers,     \* requests that list or show runs
    Summary,     \* the line with the totals, which a crawl logs when it closes
    PipeSize,    \* lines the pipe between a crawl and its watcher holds
    MaxItems,    \* bound: items a crawl yields
    MaxFaults,   \* bound: I/O errors in a thread of the server
    MaxRestarts  \* bound: deaths of the server

ASSUME RunnerAssumption ==
    /\ IsFiniteSet(Products) /\ Summary \notin Products
    /\ PipeSize \in Nat \ {0} /\ MaxItems \in Nat
    /\ MaxFaults \in Nat /\ MaxRestarts \in Nat

VARIABLES
    registry,   \* runs.json
    processes,  \* _processes: the runs whose subprocess stop() can find
    requested,  \* _stop_requested
    child,      \* the crawls
    starter,    \* start(), one thread for each run
    watcher,    \* _watch_process, one thread for each run
    stopper,    \* stop()
    viewer,     \* enrich_run()
    used        \* how much of each bound is spent

vars == <<registry, processes, requested, child, starter, watcher, stopper, viewer, used>>

Final == {"completed", "failed", "stopped"}

(* items_scraped and items_persisted: equal while they are counted live. *)
Live(n) == [scraped |-> n, persisted |-> n]

NoEntry == [status |-> "absent", items |-> Live(0), summary |-> Live(0), linked |-> FALSE]

(* saves counts every save, repeats too, lost the items that were yielded  *)
(* and not saved; reported: the totals have been logged.                   *)
NoChild == [state |-> "none", saved |-> {}, saves |-> 0, lost |-> 0, reported |-> FALSE,
            pipe |-> <<>>, told |-> FALSE, clean |-> FALSE]
NoWatcher == [pc |-> "off", seen |-> {}, items |-> Live(0), verdict |-> "none"]

Init ==
    /\ registry = [r \in Runs |-> NoEntry]
    /\ processes = {} /\ requested = {}
    /\ child = [r \in Runs |-> NoChild]
    /\ starter = [r \in Runs |-> "idle"]
    /\ watcher = [r \in Runs |-> NoWatcher]
    /\ \E run \in [Stoppers -> Runs] :
         stopper = [s \in Stoppers |-> [pc |-> "idle", run |-> run[s], hit |-> FALSE]]
    /\ \E run \in [Viewers -> Runs] :
         viewer = [v \in Viewers |-> [pc |-> "idle", run |-> run[v], copy |-> NoEntry]]
    /\ used = [faults |-> 0, restarts |-> 0]

Fault ==
    /\ used.faults < MaxFaults
    /\ used' = [used EXCEPT !.faults = @ + 1]

-----------------------------------------------------------------------------
(* start().                                                                *)

(* An error in any call of start() ends the request's thread and leaves    *)
(* what the earlier ones have done.                                        *)
StartFails(r) ==
    /\ Fault
    /\ starter' = [starter EXCEPT ![r] = "gone"]

Begin(r) ==
    /\ starter[r] = "idle"
    /\ \/ /\ registry' = [registry EXCEPT ![r].status = "starting"]
          /\ starter' = [starter EXCEPT ![r] = "listed"]
          /\ UNCHANGED used
       \/ StartFails(r) /\ UNCHANGED registry
    /\ UNCHANGED <<processes, requested, child, watcher, stopper, viewer>>

(* Popen. *)
Spawn(r) ==
    /\ starter[r] = "listed"
    /\ \/ /\ child' = [child EXCEPT ![r].state = "alive"]
          /\ starter' = [starter EXCEPT ![r] = "spawned"]
          /\ UNCHANGED used
       \/ StartFails(r) /\ UNCHANGED child
    /\ UNCHANGED <<registry, processes, requested, watcher, stopper, viewer>>

Register(r) ==
    /\ starter[r] = "spawned"
    /\ processes' = processes \cup {r}
    /\ starter' = [starter EXCEPT ![r] = "registered"]
    /\ UNCHANGED <<registry, requested, child, watcher, stopper, viewer, used>>

(* The mutant writes the status after the watcher has been started. *)
ShowRunningLast(r) ==
    /\ \/ /\ starter[r] = "registered"
          /\ starter' = [starter EXCEPT ![r] = "shown"]
          /\ UNCHANGED registry
       \/ /\ starter[r] = "done"
          /\ starter' = [starter EXCEPT ![r] = "late"]
          /\ registry' = [registry EXCEPT ![r].status = "running"]
    /\ UNCHANGED <<processes, requested, child, watcher, stopper, viewer, used>>

(* When the patch or the start of the thread fails, the crawl runs on with *)
(* nobody to read its output; the table still has it.                      *)
ShowRunning(r) ==
    /\ starter[r] = "registered"
    /\ \/ /\ registry' = [registry EXCEPT ![r].status = "running"]
          /\ starter' = [starter EXCEPT ![r] = "shown"]
          /\ UNCHANGED used
       \/ StartFails(r) /\ UNCHANGED registry
    /\ UNCHANGED <<processes, requested, child, watcher, stopper, viewer>>

Watch(r) ==
    /\ starter[r] = "shown"
    /\ \/ /\ watcher' = [watcher EXCEPT ![r].pc = "reading"]
          /\ starter' = [starter EXCEPT ![r] = "done"]
          /\ UNCHANGED used
       \/ StartFails(r) /\ UNCHANGED watcher
    /\ UNCHANGED <<registry, processes, requested, child, stopper, viewer>>

StartStep(r) == Begin(r) \/ Spawn(r) \/ Register(r) \/ ShowRunning(r) \/ Watch(r)

-----------------------------------------------------------------------------
(* The crawl.  An orphan outlived the server: its pipe has no reader and   *)
(* writing to it fails at once, which logging ignores.                     *)

Running(r) == child[r].state \in {"alive", "orphan"}

(* A log line goes out, unless the pipe is full: then the crawl waits. *)
CanLog(r) == child[r].state = "orphan" \/ Len(child[r].pipe) < PipeSize

(* An item.  An orphan yields items too, which nothing here gets to know.  *)
Yields(r) ==
    /\ child[r].state = "alive" /\ ~child[r].reported
    /\ child[r].saves + child[r].lost < MaxItems

(* scraper_db_saved ... raw_product_id=...; a product may be saved again. *)
Save(r, p) ==
    /\ Yields(r) /\ CanLog(r)
    /\ child' = [child EXCEPT ![r].saved = @ \cup {p},
                              ![r].saves = @ + 1,
                              ![r].pipe = Append(@, p)]
    /\ UNCHANGED <<registry, processes, requested, starter, watcher, stopper, viewer, used>>

(* An item the validation drops, or whose transaction fails. *)
Lose(r) ==
    /\ Yields(r)
    /\ child' = [child EXCEPT ![r].lost = @ + 1]
    /\ UNCHANGED <<registry, processes, requested, starter, watcher, stopper, viewer, used>>

(* close_spider: scrape_run_summary ... scraped_items=... persisted_items= *)
(* with the crawl's own totals, unless finish_run raised before the line.  *)
Totals(r) ==
    [scraped |-> child[r].saves + child[r].lost, persisted |-> child[r].saves]

Report(r) ==
    /\ child[r].state = "alive" /\ CanLog(r) /\ ~child[r].reported
    /\ child' = [child EXCEPT ![r].reported = TRUE, ![r].pipe = Append(@, Summary)]
    /\ UNCHANGED <<registry, processes, requested, starter, watcher, stopper, viewer, used>>

(* A crawl that ends says so in its log; one that is killed does not. *)
Exit(r) ==
    /\ Running(r) /\ CanLog(r)
    /\ \E clean \in BOOLEAN : child' = [child EXCEPT ![r].state = "dead", ![r].clean = clean]
    /\ UNCHANGED <<registry, processes, requested, starter, watcher, stopper, viewer, used>>

Killed(r) ==
    /\ Running(r)
    /\ child' = [child EXCEPT ![r].state = "dead"]
    /\ UNCHANGED <<registry, processes, requested, starter, watcher, stopper, viewer, used>>

-----------------------------------------------------------------------------
(* _watch_process.                                                         *)

(* The watcher after a line: a product counts once however often it is     *)
(* saved, and the crawl's totals replace the count.                        *)
Noted(r) ==
    LET line == Head(child[r].pipe)
        seen == watcher[r].seen \cup ({line} \ {Summary})
    IN [watcher[r] EXCEPT !.seen = seen,
                          !.items = IF line = Summary THEN Totals(r)
                                    ELSE Live(Cardinality(seen))]

(* The entry after a line: how many products, and perhaps the run's id. *)
Counted(entry, items, new, linked) ==
    [entry EXCEPT !.items = items,
                  !.summary = IF new \/ linked THEN items ELSE @,
                  !.linked = @ \/ linked]

(* One line of the crawl's output.  The line, or one next to it, may give  *)
(* the scrape_run_id; the line with the totals always does.                *)
ReadLine(r) ==
    /\ watcher[r].pc = "reading"
    /\ child[r].pipe # <<>>
    /\ LET line == Head(child[r].pipe)
       IN \E linked \in {TRUE} \cup {line = Summary} :
            registry' = [registry EXCEPT
                           ![r] = Counted(@, Noted(r).items, line \notin watcher[r].seen, linked)]
    /\ watcher' = [watcher EXCEPT ![r] = Noted(r)]
    /\ child' = [child EXCEPT ![r].pipe = Tail(@)]
    /\ UNCHANGED <<processes, requested, starter, stopper, viewer, used>>

(* A line that does not decode, a log or a registry that cannot be         *)
(* written, before or after the line was noted: the loop is left, and      *)
(* nobody empties the pipe while the watcher waits for the crawl to end.   *)
ReadFails(r) ==
    /\ watcher[r].pc = "reading"
    /\ Fault
    /\ \/ /\ watcher' = [watcher EXCEPT ![r].pc = "deaf"]
          /\ UNCHANGED child
       \/ /\ child[r].pipe # <<>>
          /\ \E w \in {watcher[r], Noted(r)} :
               watcher' = [watcher EXCEPT ![r] = [w EXCEPT !.pc = "deaf"]]
          /\ child' = [child EXCEPT ![r].pipe = Tail(@)]
    /\ UNCHANGED <<registry, processes, requested, starter, stopper, viewer>>

(* The mutant: the error leaves the thread without the finally block. *)
ReapReaders(r) ==
    /\ child[r].state = "dead"
    /\ watcher[r].pc = "reading" /\ child[r].pipe = <<>>
    /\ watcher' = [watcher EXCEPT ![r].pc = "reaped"]
    /\ UNCHANGED <<registry, processes, requested, child, starter, stopper, viewer, used>>

(* process.wait() returns; a reader has seen the end of the output first.  *)
Reap(r) ==
    /\ child[r].state = "dead"
    /\ \/ watcher[r].pc = "reading" /\ child[r].pipe = <<>>
       \/ watcher[r].pc = "deaf"
    /\ watcher' = [watcher EXCEPT ![r].pc = "reaped"]
    /\ UNCHANGED <<registry, processes, requested, child, starter, stopper, viewer, used>>

Verdict(r) ==
    IF r \in requested THEN "stopped" ELSE IF child[r].clean THEN "completed" ELSE "failed"

Judge(r) ==
    /\ watcher[r].pc = "reaped"
    /\ watcher' = [watcher EXCEPT ![r].pc = "judged", ![r].verdict = Verdict(r)]
    /\ UNCHANGED <<registry, processes, requested, child, starter, stopper, viewer, used>>

(* The entry of a run that ended; a zero leaves the number listed. *)
Or(n, listed) == IF n > 0 THEN n ELSE listed
Ended(entry, verdict, items) ==
    [entry EXCEPT !.status = verdict,
                  !.items = [scraped |-> Or(items.scraped, entry.items.scraped),
                             persisted |-> Or(items.persisted, entry.items.persisted)],
                  !.summary = items]

(* The last line of the log, then the entry's final state.  An error in    *)
(* either ends the thread.                                                 *)
Conclude(r) ==
    /\ watcher[r].pc = "judged"
    /\ \/ /\ registry' = [registry EXCEPT ![r] = Ended(@, watcher[r].verdict, watcher[r].items)]
          /\ watcher' = [watcher EXCEPT ![r].pc = "concluded"]
          /\ UNCHANGED used
       \/ /\ Fault
          /\ watcher' = [watcher EXCEPT ![r].pc = "gone"]
          /\ UNCHANGED registry
    /\ UNCHANGED <<processes, requested, child, starter, stopper, viewer>>

Forget(r) ==
    /\ watcher[r].pc = "concluded"
    /\ processes' = processes \ {r}
    /\ requested' = requested \ {r}
    /\ watcher' = [watcher EXCEPT ![r].pc = "done"]
    /\ UNCHANGED <<registry, child, starter, stopper, viewer, used>>

WatchStep(r) == ReadLine(r) \/ Reap(r) \/ Judge(r) \/ Conclude(r) \/ Forget(r)

-----------------------------------------------------------------------------
(* stop().                                                                 *)

(* The operator stops a run the UI lists.  hit: the subprocess was found.  *)
(* The mutant records the request only when there is nothing to terminate. *)
MarkUnrecorded(s) ==
    LET r == stopper[s].run
    IN /\ stopper[s].pc = "idle"
       /\ registry[r].status # "absent"
       /\ requested' = requested \cup ({r} \ processes)
       /\ stopper' = [stopper EXCEPT ![s].hit = r \in processes,
                                     ![s].pc = IF r \in processes THEN "marked" ELSE "done"]
       /\ UNCHANGED <<registry, processes, child, starter, watcher, viewer, used>>
Mark(s) ==
    LET r == stopper[s].run
    IN /\ stopper[s].pc = "idle"
       /\ registry[r].status # "absent"
       /\ requested' = requested \cup {r}
       /\ stopper' = [stopper EXCEPT ![s].hit = r \in processes,
                                     ![s].pc = IF r \in processes THEN "marked" ELSE "done"]
       /\ UNCHANGED <<registry, processes, child, starter, watcher, viewer, used>>

(* When the patch fails, the request ends before terminate(). *)
ShowStopping(s) ==
    /\ stopper[s].pc = "marked"
    /\ \/ /\ registry' = [registry EXCEPT ![stopper[s].run].status = "stopping"]
          /\ stopper' = [stopper EXCEPT ![s].pc = "shown"]
          /\ UNCHANGED used
       \/ /\ Fault
          /\ stopper' = [stopper EXCEPT ![s].pc = "gone"]
          /\ UNCHANGED registry
    /\ UNCHANGED <<processes, requested, child, starter, watcher, viewer>>

(* terminate() does nothing to a process that has ended.  The mutant goes  *)
(* by the status in the registry.                                          *)
TerminateIfRunning(s) ==
    LET r == stopper[s].run
    IN /\ stopper[s].pc = "shown"
       /\ child' = [child EXCEPT ![r].told = @ \/ registry[r].status = "running"]
       /\ stopper' = [stopper EXCEPT ![s].pc = "done"]
       /\ UNCHANGED <<registry, processes, requested, starter, watcher, viewer, used>>
Terminate(s) ==
    LET r == stopper[s].run
    IN /\ stopper[s].pc = "shown"
       /\ child' = [child EXCEPT ![r].told = @ \/ child[r].state = "alive"]
       /\ stopper' = [stopper EXCEPT ![s].pc = "done"]
       /\ UNCHANGED <<registry, processes, requested, starter, watcher, viewer, used>>

StopStep(s) == Mark(s) \/ ShowStopping(s) \/ Terminate(s)

-----------------------------------------------------------------------------
(* Requests that show runs.                                                *)

(* refresh_active drops a process that has ended; the mutant drops one it  *)
(* has looked at.                                                          *)
RefreshAll(r) ==
    /\ r \in processes
    /\ processes' = processes \ {r}
    /\ UNCHANGED <<registry, requested, child, starter, watcher, stopper, viewer, used>>
Refresh(r) ==
    /\ r \in processes
    /\ child[r].state = "dead"
    /\ processes' = processes \ {r}
    /\ UNCHANGED <<registry, requested, child, starter, watcher, stopper, viewer, used>>

(* A run without a scrape_run_id is read, and its log and the database are *)
(* searched for one.                                                       *)
Look(v) ==
    LET r == viewer[v].run
    IN /\ viewer[v].pc = "idle"
       /\ registry[r].status # "absent" /\ ~registry[r].linked
       /\ viewer' = [viewer EXCEPT ![v].pc = "found", ![v].copy = registry[r]]
       /\ UNCHANGED <<registry, processes, requested, child, starter, watcher, stopper, used>>

(* patch_run_scrape_id: the entry is read again, but the summary written   *)
(* is the one seen before.  The mutant writes the entry it saw before.     *)
LinkStale(v) ==
    LET r == viewer[v].run
    IN /\ viewer[v].pc = "found"
       /\ registry' = [registry EXCEPT ![r] = [viewer[v].copy EXCEPT !.linked = TRUE]]
       /\ viewer' = [viewer EXCEPT ![v].pc = "done", ![v].copy = NoEntry]
       /\ UNCHANGED <<processes, requested, child, starter, watcher, stopper, used>>
Link(v) ==
    LET r == viewer[v].run
    IN /\ viewer[v].pc = "found"
       /\ registry' = [registry EXCEPT ![r] = [@ EXCEPT !.linked = TRUE,
                                                        !.summary = viewer[v].copy.summary]]
       /\ viewer' = [viewer EXCEPT ![v].pc = "done", ![v].copy = NoEntry]
       /\ UNCHANGED <<processes, requested, child, starter, watcher, stopper, used>>

-----------------------------------------------------------------------------

(* The server dies and is started again: threads, table and set are gone,  *)
(* the registry is read from its file, and the crawls live on or not.      *)
Cut(pc, idle) == IF pc \in idle THEN pc ELSE "gone"

Restart ==
    /\ used.restarts < MaxRestarts
    /\ used' = [used EXCEPT !.restarts = @ + 1]
    /\ processes' = {} /\ requested' = {}
    /\ starter' = [r \in Runs |-> Cut(starter[r], {"idle", "done"})]
    /\ watcher' = [r \in Runs |->
                     [watcher[r] EXCEPT !.pc = Cut(@, {"off", "done"})]]
    /\ stopper' = [s \in Stoppers |-> [stopper[s] EXCEPT !.pc = Cut(@, {"idle", "done"})]]
    /\ viewer' = [v \in Viewers |->
                     [viewer[v] EXCEPT !.pc = Cut(@, {"idle", "done"}), !.copy = NoEntry]]
    /\ \E survives \in BOOLEAN :
         child' = [r \in Runs |->
                     [child[r] EXCEPT
                        !.state = IF @ = "alive"
                                  THEN IF survives THEN "orphan" ELSE "dead"
                                  ELSE @]]
    /\ UNCHANGED registry

Next ==
    \/ \E r \in Runs : StartStep(r) \/ WatchStep(r) \/ ReadFails(r) \/ Refresh(r)
    \/ \E r \in Runs, p \in Products : Save(r, p)
    \/ \E r \in Runs : Lose(r) \/ Report(r) \/ Exit(r) \/ Killed(r)
    \/ \E s \in Stoppers : StopStep(s)
    \/ \E v \in Viewers : Look(v) \/ Link(v)
    \/ Restart

Spec == Init /\ [][Next]_vars

(* The server's threads run on, and a crawl that is told to stop does so   *)
(* as soon as it can log its end.  Without a limit it need not end else.   *)
Fairness ==
    /\ \A r \in Runs :
         /\ WF_vars(Spawn(r)) /\ WF_vars(Register(r)) /\ WF_vars(ShowRunning(r))
         /\ WF_vars(Watch(r)) /\ WF_vars(WatchStep(r))
         /\ SF_vars(child[r].told /\ Exit(r))
    /\ \A s \in Stoppers : WF_vars(ShowStopping(s)) /\ WF_vars(Terminate(s))

FairSpec == Spec /\ Fairness

-----------------------------------------------------------------------------
(* Properties.                                                             *)

Concluded(r) == watcher[r].pc \in {"concluded", "done"}

(* From the moment start() has registered it until it ends, a crawl can be *)
(* found by stop(), unless the server has died: neither refreshing the     *)
(* list nor another run's end takes it out of reach, nor does an error     *)
(* later in start(), which leaves a crawl without a watcher.               *)
LiveRunIsFound ==
    \A r \in Runs :
        child[r].state = "alive" /\ starter[r] # "spawned" => r \in processes

(* How a run is listed as ended is how it ended: its crawl is dead, one    *)
(* that was told to stop is not reported as completed or failed, wherever  *)
(* the watcher was when the request came, and only a run that a request    *)
(* named is reported as stopped.                                           *)
EndingIsTrue ==
    \A r \in Runs : registry[r].status \in Final =>
        /\ child[r].state = "dead"
        /\ child[r].told => registry[r].status = "stopped"
        /\ registry[r].status = "stopped" =>
              \E s \in Stoppers : stopper[s].run = r /\ stopper[s].pc # "idle"

(* Once its watcher has concluded, a run is never listed as starting or    *)
(* running again, whichever thread writes its entry last.                  *)
EndedIsNotRunning ==
    \A r \in Runs : Concluded(r) => registry[r].status \notin {"starting", "running"}

(* The numbers listed for a run that ended, whoever else patched its entry *)
(* and however the crawl ended: the crawl's own totals when it logged      *)
(* them, in which an item saved again counts again; else the number of     *)
(* different products it reported, each as scraped and as persisted.       *)
ItemsCounted ==
    \A r \in Runs :
        Concluded(r) /\ used.faults = 0 =>
            registry[r].items = IF child[r].reported THEN Totals(r)
                                ELSE Live(Cardinality(child[r].saved))

(* Nobody will read what this crawl has logged: its watcher has left the   *)
(* loop, or start() failed before it had a watcher.                        *)
Unread(r) == watcher[r].pc = "deaf" \/ starter[r] = "gone"

(* A crawl waiting for ever for room in its pipe. *)
Jammed(r) ==
    /\ child[r].state = "alive"
    /\ Unread(r) /\ Len(child[r].pipe) = PipeSize

(* A crawl that was found by a stop request ends, with two exceptions: the *)
(* request itself ended before terminate(), because its patch of the entry *)
(* failed or the server died; or the crawl, told or not, waits to write to *)
(* a full pipe that nobody reads.  A crawl without a reader whose pipe has *)
(* room ends all the same.                                                 *)
StopEndsCrawl ==
    \A s \in Stoppers, r \in Runs :
        (stopper[s].run = r /\ stopper[s].hit)
            ~> (child[r].state = "dead" \/ Jammed(r) \/ stopper[s].pc = "gone")

(* The end of a crawl gets into the list, even after the loop that reads   *)
(* its output has failed, unless the watcher failed when it wrote the end, *)
(* or there is none: start() failed after the spawn, when it patched the   *)
(* entry or started the thread, or the server died.                        *)
EndIsListed ==
    \A r \in Runs :
        (child[r].state = "dead")
            ~> (Concluded(r) \/ watcher[r].pc = "gone" \/ starter[r] = "gone")

(* README.md:81, "start a run, watch live logs, stop a run": a stop        *)
(* request for a listed run ends its crawl.                                *)
StopIsObeyed ==
    \A s \in Stoppers, r \in Runs :
        (stopper[s].run = r /\ stopper[s].pc = "done") ~> ~Running(r)
=============================================================================
