--------------------------- MODULE UiRunnerProofs ---------------------------
(***************************************************************************)
(* The safety invariants of the operator UI's runner, for any number of    *)
(* runs, stop requests, viewers, faults and restarts.                      *)
(*                                                                         *)
(* LifeInv ties the three lives of a run together: its start() thread, its *)
(* crawl and its watcher.  Everything else rests on it.                    *)
(***************************************************************************)
EXTENDS UiRunner, FiniteSetTheorems, TLAPS

Statuses == {"absent", "starting", "running", "stopping"} \cup Final

Numbers == [scraped : Nat, persisted : Nat]
Lines == Products \cup {Summary}
Entry == [status : Statuses, items : Numbers, summary : Numbers, linked : BOOLEAN]
Child == [state : {"none", "alive", "orphan", "dead"}, saved : SUBSET Products,
          saves : Nat, lost : Nat, reported : BOOLEAN,
          pipe : Seq(Lines), told : BOOLEAN, clean : BOOLEAN]
Watcher == [pc : {"off", "reading", "deaf", "reaped", "judged", "concluded", "done", "gone"},
            seen : SUBSET Products, items : Numbers, verdict : {"none"} \cup Final]
Starters == {"idle", "listed", "spawned", "registered", "shown", "done", "gone"}
Stopper == [pc : {"idle", "marked", "shown", "done", "gone"}, run : Runs, hit : BOOLEAN]
Viewer == [pc : {"idle", "found", "done", "gone"}, run : Runs, copy : Entry]

TypeOK ==
    /\ registry \in [Runs -> Entry]
    /\ processes \subseteq Runs /\ requested \subseteq Runs
    /\ child \in [Runs -> Child]
    /\ starter \in [Runs -> Starters]
    /\ watcher \in [Runs -> Watcher]
    /\ stopper \in [Stoppers -> Stopper]
    /\ viewer \in [Viewers -> Viewer]
    /\ used \in [faults : Nat, restarts : Nat]

(* A crawl is spawned by its start() and watched from the end of start()   *)
(* on; a watcher that has waited for it has seen its death.                *)
Life(r) ==
    /\ starter[r] \in {"idle", "listed"} => child[r].state = "none"
    /\ child[r].state = "none" => ~child[r].told /\ starter[r] \in {"idle", "listed", "gone"}
    /\ watcher[r].pc = "off" <=> starter[r] # "done"
    /\ watcher[r].pc \in {"reaped", "judged", "concluded", "done"} => child[r].state = "dead"
    /\ watcher[r].pc = "judged" => watcher[r].verdict \in Final
LifeInv == \A r \in Runs : Life(r)

-----------------------------------------------------------------------------
(* Types.                                                                  *)

LEMMA InitTypes == Init => TypeOK /\ LifeInv
<1> SUFFICES ASSUME Init PROVE TypeOK /\ LifeInv
  OBVIOUS
<1>1. NoEntry \in Entry /\ NoChild \in Child /\ NoWatcher \in Watcher
  BY DEF NoEntry, NoChild, NoWatcher, Live, Numbers, Entry, Child, Watcher, Statuses
<1>2. stopper \in [Stoppers -> Stopper]
  BY DEF Init, Stopper
<1>3. viewer \in [Viewers -> Viewer]
  BY <1>1 DEF Init, Viewer
<1>4. used \in [faults : Nat, restarts : Nat]
  BY DEF Init
<1>5. TypeOK
  BY <1>1, <1>2, <1>3, <1>4 DEF Init, TypeOK, Starters
<1>6. LifeInv
  BY DEF Init, LifeInv, Life, NoChild, NoWatcher
<1> QED
  BY <1>5, <1>6

LEMMA StartFailsTypes ==
    ASSUME TypeOK, NEW r \in Runs, StartFails(r)
    PROVE  starter' \in [Runs -> Starters] /\ used' \in [faults : Nat, restarts : Nat]
BY DEF TypeOK, StartFails, Fault, Starters

LEMMA StartTypes ==
    ASSUME TypeOK, NEW r \in Runs, StartStep(r)
    PROVE  TypeOK'
<1> USE DEF TypeOK
<1>1. CASE Begin(r)
  <2>1. [registry[r] EXCEPT !.status = "starting"] \in Entry
    BY DEF Entry, Statuses
  <2>2. registry' \in [Runs -> Entry]
    BY <1>1, <2>1 DEF Begin
  <2>3. starter' \in [Runs -> Starters] /\ used' \in [faults : Nat, restarts : Nat]
    BY <1>1, StartFailsTypes DEF Begin, Starters
  <2> QED
    BY <1>1, <2>2, <2>3 DEF Begin
<1>2. CASE Spawn(r)
  <2>1. [child[r] EXCEPT !.state = "alive"] \in Child
    BY DEF Child
  <2>2. child' \in [Runs -> Child]
    BY <1>2, <2>1 DEF Spawn
  <2>3. starter' \in [Runs -> Starters] /\ used' \in [faults : Nat, restarts : Nat]
    BY <1>2, StartFailsTypes DEF Spawn, Starters
  <2> QED
    BY <1>2, <2>2, <2>3 DEF Spawn
<1>3. CASE Register(r)
  BY <1>3 DEF Register, Starters
<1>4. CASE ShowRunning(r)
  <2>1. [registry[r] EXCEPT !.status = "running"] \in Entry
    BY DEF Entry, Statuses
  <2>2. registry' \in [Runs -> Entry]
    BY <1>4, <2>1 DEF ShowRunning
  <2>3. starter' \in [Runs -> Starters] /\ used' \in [faults : Nat, restarts : Nat]
    BY <1>4, StartFailsTypes DEF ShowRunning, Starters
  <2> QED
    BY <1>4, <2>2, <2>3 DEF ShowRunning
<1>5. CASE Watch(r)
  <2>1. [watcher[r] EXCEPT !.pc = "reading"] \in Watcher
    BY DEF Watcher
  <2>2. watcher' \in [Runs -> Watcher]
    BY <1>5, <2>1 DEF Watch
  <2>3. starter' \in [Runs -> Starters] /\ used' \in [faults : Nat, restarts : Nat]
    BY <1>5, StartFailsTypes DEF Watch, Starters
  <2> QED
    BY <1>5, <2>2, <2>3 DEF Watch
<1> QED
  BY <1>1, <1>2, <1>3, <1>4, <1>5 DEF StartStep

LEMMA CrawlTypes ==
    ASSUME TypeOK, NEW r \in Runs,
           (\E p \in Products : Save(r, p)) \/ Lose(r) \/ Report(r) \/ Exit(r) \/ Killed(r)
    PROVE  TypeOK'
<1> USE DEF TypeOK
<1>1. ASSUME NEW p \in Products, Save(r, p) PROVE TypeOK'
  <2> DEFINE pipe == Append(child[r].pipe, p)
  <2>1. pipe \in Seq(Lines)
    BY DEF Child, Lines
  <2>2. child' = [child EXCEPT ![r] = [child[r] EXCEPT !.saved = @ \cup {p}, !.saves = @ + 1,
                                                       !.pipe = pipe]]
    BY <1>1 DEF Save
  <2> HIDE DEF pipe
  <2>3. child[r].saves + 1 \in Nat /\ child[r].saved \cup {p} \in SUBSET Products
    BY DEF Child
  <2>4. \A set \in SUBSET Products, n \in Nat :
           [child[r] EXCEPT !.saved = set, !.saves = n, !.pipe = pipe] \in Child
    BY <2>1 DEF Child
  <2>5. [child[r] EXCEPT !.saved = @ \cup {p}, !.saves = @ + 1, !.pipe = pipe] \in Child
    BY <2>3, <2>4
  <2>6. child' \in [Runs -> Child]
    BY <2>2, <2>5
  <2> QED
    BY <1>1, <2>6 DEF Save
<1>4. CASE Lose(r)
  <2>0. child[r].lost + 1 \in Nat
    BY DEF Child
  <2>00. \A n \in Nat : [child[r] EXCEPT !.lost = n] \in Child
    BY DEF Child
  <2>1. [child[r] EXCEPT !.lost = @ + 1] \in Child
    BY <2>0, <2>00
  <2> QED
    BY <1>4, <2>1 DEF Lose
<1>5. CASE Report(r)
  <2> DEFINE pipe == Append(child[r].pipe, Summary)
  <2>1. pipe \in Seq(Lines)
    BY DEF Child, Lines
  <2>2. child' = [child EXCEPT ![r] = [child[r] EXCEPT !.reported = TRUE, !.pipe = pipe]]
    BY <1>5 DEF Report
  <2> HIDE DEF pipe
  <2>3. [child[r] EXCEPT !.reported = TRUE, !.pipe = pipe] \in Child
    BY <2>1 DEF Child
  <2> QED
    BY <1>5, <2>2, <2>3 DEF Report
<1>2. CASE Exit(r)
  <2>1. PICK clean \in BOOLEAN :
          child' = [child EXCEPT ![r] = [child[r] EXCEPT !.state = "dead", !.clean = clean]]
    BY <1>2 DEF Exit
  <2>2. [child[r] EXCEPT !.state = "dead", !.clean = clean] \in Child
    <3>1. child[r] \in Child
      OBVIOUS
    <3> QED
      BY ONLY <3>1, clean \in BOOLEAN DEF Child
  <2> QED
    BY <1>2, <2>1, <2>2 DEF Exit
<1>3. CASE Killed(r)
  <2>1. [child[r] EXCEPT !.state = "dead"] \in Child
    BY DEF Child
  <2> QED
    BY <1>3, <2>1 DEF Killed
<1> QED
  BY <1>1, <1>2, <1>3, <1>4, <1>5

(* A line read leaves a watcher a watcher. *)
LEMMA NotedType ==
    ASSUME TypeOK, NEW r \in Runs, child[r].pipe # <<>>
    PROVE  /\ Head(child[r].pipe) \in Lines
           /\ Noted(r) \in Watcher
           /\ Noted(r).items \in Numbers
           /\ Noted(r).pc = watcher[r].pc
           /\ [Noted(r) EXCEPT !.pc = "deaf"] \in Watcher
           /\ [child[r] EXCEPT !.pipe = Tail(@)] \in Child
<1> DEFINE line == Head(child[r].pipe)
           seen == watcher[r].seen \cup ({line} \ {Summary})
           items == IF line = Summary THEN Totals(r) ELSE Live(Cardinality(seen))
<1>1. child[r] \in Child /\ watcher[r] \in Watcher
  BY DEF TypeOK
<1>2. child[r].pipe \in Seq(Lines)
  BY <1>1 DEF Child
<1>3. line \in Lines /\ Tail(child[r].pipe) \in Seq(Lines)
  BY <1>2
<1>4. seen \in SUBSET Products
  BY <1>1, <1>3 DEF Lines, Watcher
<1>5. Cardinality(seen) \in Nat
  BY <1>4, RunnerAssumption, FS_Subset, FS_CardinalityType
<1>6. Totals(r) \in Numbers
  BY <1>1 DEF Totals, Numbers, Child
<1>7. items \in Numbers
  BY <1>5, <1>6 DEF Live, Numbers
<1>8. Noted(r) = [watcher[r] EXCEPT !.seen = seen, !.items = items]
  BY DEF Noted
<1>9. [child[r] EXCEPT !.pipe = Tail(@)] \in Child
  BY <1>1, <1>3 DEF Child
<1> HIDE DEF seen, items
<1>10. /\ Noted(r) \in Watcher /\ Noted(r).items = items /\ Noted(r).pc = watcher[r].pc
       /\ [Noted(r) EXCEPT !.pc = "deaf"] \in Watcher
  BY <1>1, <1>4, <1>7, <1>8 DEF Watcher
<1> QED
  BY <1>3, <1>7, <1>9, <1>10

LEMMA WatchTypes ==
    ASSUME TypeOK, LifeInv, NEW r \in Runs, WatchStep(r) \/ ReadFails(r) \/ Refresh(r)
    PROVE  TypeOK'
<1> USE DEF TypeOK
<1>1. CASE ReadLine(r)
  <2>1. child[r].pipe # <<>> /\ watcher' = [watcher EXCEPT ![r] = Noted(r)]
    BY <1>1 DEF ReadLine
  <2>2. child' = [child EXCEPT ![r] = [child[r] EXCEPT !.pipe = Tail(@)]]
    BY <1>1 DEF ReadLine
  <2>3. Noted(r) \in Watcher /\ Noted(r).items \in Numbers /\ [child[r] EXCEPT !.pipe = Tail(@)] \in Child
    BY <2>1, NotedType
  <2>4. registry' \in [Runs -> Entry]
    <3>1. \A new, linked \in BOOLEAN : Counted(registry[r], Noted(r).items, new, linked) \in Entry
      BY <2>3 DEF Entry, Counted
    <3>2. \E new, linked \in BOOLEAN :
             registry' = [registry EXCEPT ![r] = Counted(registry[r], Noted(r).items, new, linked)]
      BY <1>1 DEF ReadLine
    <3> QED
      BY <3>1, <3>2
  <2>5. watcher' \in [Runs -> Watcher] /\ child' \in [Runs -> Child]
    BY <2>1, <2>2, <2>3
  <2> QED
    BY <1>1, <2>4, <2>5 DEF ReadLine
<1>2. CASE Reap(r)
  <2>1. [watcher[r] EXCEPT !.pc = "reaped"] \in Watcher
    BY DEF Watcher
  <2> QED
    BY <1>2, <2>1 DEF Reap
<1>3. CASE Judge(r)
  <2>1. [watcher[r] EXCEPT !.pc = "judged", !.verdict = Verdict(r)] \in Watcher
    BY DEF Watcher, Verdict, Final
  <2> QED
    BY <1>3, <2>1 DEF Judge
<1>4. CASE Conclude(r)
  <2>1. [watcher[r] EXCEPT !.pc = "concluded"] \in Watcher /\ [watcher[r] EXCEPT !.pc = "gone"] \in Watcher
    BY DEF Watcher
  <2>2. Ended(registry[r], watcher[r].verdict, watcher[r].items) \in Entry
    <3>1. watcher[r].verdict \in Final
      BY <1>4 DEF Conclude, LifeInv, Life
    <3>2. watcher[r].items \in Numbers /\ registry[r] \in Entry /\ registry[r].items \in Numbers
      BY DEF Entry, Watcher
    <3> DEFINE items == [scraped |-> Or(watcher[r].items.scraped, registry[r].items.scraped),
                         persisted |-> Or(watcher[r].items.persisted, registry[r].items.persisted)]
    <3>3. items \in Numbers
      BY <3>2 DEF Or, Numbers
    <3>4. Ended(registry[r], watcher[r].verdict, watcher[r].items) =
             [registry[r] EXCEPT !.status = watcher[r].verdict, !.items = items,
                                 !.summary = watcher[r].items]
      BY DEF Ended
    <3> HIDE DEF items
    <3> QED
      BY <3>1, <3>2, <3>3, <3>4 DEF Entry, Statuses
  <2>3. watcher' \in [Runs -> Watcher]
    BY <1>4, <2>1 DEF Conclude
  <2>5. registry' \in [Runs -> Entry]
    BY <1>4, <2>2 DEF Conclude
  <2>4. used' \in [faults : Nat, restarts : Nat]
    BY <1>4 DEF Conclude, Fault
  <2> QED
    BY <1>4, <2>3, <2>4, <2>5 DEF Conclude
<1>5. CASE Forget(r)
  <2>1. [watcher[r] EXCEPT !.pc = "done"] \in Watcher
    BY DEF Watcher
  <2> QED
    BY <1>5, <2>1 DEF Forget
<1>6. CASE ReadFails(r)
  <2>1. [watcher[r] EXCEPT !.pc = "deaf"] \in Watcher
    BY DEF Watcher
  <2>2. used' \in [faults : Nat, restarts : Nat]
    BY <1>6 DEF ReadFails, Fault
  <2>3. watcher' \in [Runs -> Watcher] /\ child' \in [Runs -> Child]
    <3>1. CASE watcher' = [watcher EXCEPT ![r].pc = "deaf"] /\ child' = child
      BY <2>1, <3>1
    <3>2. CASE child[r].pipe # <<>> /\ child' = [child EXCEPT ![r].pipe = Tail(@)]
      <4>1. PICK w \in {watcher[r], Noted(r)} :
               watcher' = [watcher EXCEPT ![r] = [w EXCEPT !.pc = "deaf"]]
        BY <1>6, <2>1, <3>2 DEF ReadFails
      <4>2. [w EXCEPT !.pc = "deaf"] \in Watcher /\ [child[r] EXCEPT !.pipe = Tail(@)] \in Child
        BY <2>1, <3>2, NotedType
      <4> QED
        BY <3>2, <4>1, <4>2
    <3> QED
      BY <1>6, <3>1, <3>2 DEF ReadFails
  <2> QED
    BY <1>6, <2>2, <2>3 DEF ReadFails
<1>7. CASE Refresh(r)
  BY <1>7 DEF Refresh
<1> QED
  BY <1>1, <1>2, <1>3, <1>4, <1>5, <1>6, <1>7 DEF WatchStep

LEMMA RequestTypes ==
    ASSUME TypeOK,
           (\E s \in Stoppers : StopStep(s)) \/ (\E v \in Viewers : Look(v) \/ Link(v))
    PROVE  TypeOK'
<1> USE DEF TypeOK
<1>1. ASSUME NEW s \in Stoppers, Mark(s) PROVE TypeOK'
  <2> DEFINE hit == stopper[s].run \in processes
             next == [stopper[s] EXCEPT !.hit = hit, !.pc = IF hit THEN "marked" ELSE "done"]
  <2>1. hit \in BOOLEAN /\ stopper[s].run \in Runs
    BY DEF Stopper
  <2>2. next \in Stopper
    <3> HIDE DEF hit
    <3> QED
      BY <2>1 DEF Stopper
  <2>3. stopper' = [stopper EXCEPT ![s] = next]
    BY <1>1, Zenon DEF Mark
  <2> HIDE DEF hit, next
  <2> QED
    BY <1>1, <2>1, <2>2, <2>3 DEF Mark
<1>2. ASSUME NEW s \in Stoppers, ShowStopping(s) PROVE TypeOK'
  <2>1. /\ stopper[s].run \in Runs
        /\ [stopper[s] EXCEPT !.pc = "shown"] \in Stopper /\ [stopper[s] EXCEPT !.pc = "gone"] \in Stopper
    BY DEF Stopper
  <2>2. [registry[stopper[s].run] EXCEPT !.status = "stopping"] \in Entry
    BY <2>1 DEF Entry, Statuses
  <2>3. registry' \in [Runs -> Entry]
    BY <1>2, <2>1, <2>2 DEF ShowStopping
  <2>4. stopper' \in [Stoppers -> Stopper]
    BY <1>2, <2>1 DEF ShowStopping
  <2>5. used' \in [faults : Nat, restarts : Nat]
    BY <1>2 DEF ShowStopping, Fault
  <2> QED
    BY <1>2, <2>3, <2>4, <2>5 DEF ShowStopping
<1>3. ASSUME NEW s \in Stoppers, Terminate(s) PROVE TypeOK'
  <2>1. stopper[s].run \in Runs /\ [stopper[s] EXCEPT !.pc = "done"] \in Stopper
    BY DEF Stopper
  <2> DEFINE r == stopper[s].run
             told == child[r].told \/ child[r].state = "alive"
  <2>2. child' = [child EXCEPT ![r] = [child[r] EXCEPT !.told = told]]
    BY <1>3, Zenon DEF Terminate
  <2>3. [child[r] EXCEPT !.told = told] \in Child
    <3>0. child[r] \in Child
      BY <2>1
    <3>1. \A b \in BOOLEAN : [child[r] EXCEPT !.told = b] \in Child
      BY ONLY <3>0 DEF Child
    <3>2. told \in BOOLEAN
      OBVIOUS
    <3> HIDE DEF told
    <3> QED
      BY <3>1, <3>2
  <2>4. child' \in [Runs -> Child]
    <3> HIDE DEF told, r
    <3> QED
      BY <2>2, <2>3
  <2> QED
    BY <1>3, <2>1, <2>4 DEF Terminate
<1>4. ASSUME NEW v \in Viewers, Look(v) PROVE TypeOK'
  <2>1. viewer[v].run \in Runs
    BY DEF Viewer
  <2>2. [viewer[v] EXCEPT !.pc = "found", !.copy = registry[viewer[v].run]] \in Viewer
    BY <2>1 DEF Viewer
  <2> QED
    BY <1>4, <2>2 DEF Look
<1>5. ASSUME NEW v \in Viewers, Link(v) PROVE TypeOK'
  <2>1. viewer[v].run \in Runs /\ viewer[v].copy \in Entry
        /\ [viewer[v] EXCEPT !.pc = "done", !.copy = NoEntry] \in Viewer
    BY DEF Viewer, NoEntry, Live, Numbers, Entry, Statuses
  <2>2. [registry[viewer[v].run] EXCEPT !.linked = TRUE, !.summary = viewer[v].copy.summary] \in Entry
    BY <2>1 DEF Entry
  <2> QED
    BY <1>5, <2>1, <2>2 DEF Link
<1> QED
  BY <1>1, <1>2, <1>3, <1>4, <1>5 DEF StopStep

LEMMA RestartTypes == TypeOK /\ Restart => TypeOK'
<1> SUFFICES ASSUME TypeOK, Restart PROVE TypeOK'
  OBVIOUS
<1> USE DEF TypeOK
<1>1. starter' \in [Runs -> Starters]
  BY DEF Restart, Cut, Starters
<1>2. watcher' \in [Runs -> Watcher]
  <2>1. \A r \in Runs : [watcher[r] EXCEPT !.pc = Cut(@, {"off", "done"})] \in Watcher
    BY DEF Watcher, Cut
  <2> QED
    BY <2>1 DEF Restart
<1>3. stopper' \in [Stoppers -> Stopper]
  <2>1. \A s \in Stoppers : [stopper[s] EXCEPT !.pc = Cut(@, {"idle", "done"})] \in Stopper
    BY DEF Stopper, Cut
  <2> QED
    BY <2>1 DEF Restart
<1>4. viewer' \in [Viewers -> Viewer]
  <2>0. NoEntry \in Entry
    BY DEF NoEntry, Live, Numbers, Entry, Statuses
  <2>1. \A v \in Viewers : [viewer[v] EXCEPT !.pc = Cut(@, {"idle", "done"}), !.copy = NoEntry] \in Viewer
    BY <2>0 DEF Viewer, Cut
  <2> QED
    BY <2>1 DEF Restart
<1>5. child' \in [Runs -> Child]
  <2>1. PICK survives \in BOOLEAN :
          child' = [r \in Runs |->
                      [child[r] EXCEPT !.state = IF @ = "alive"
                                                 THEN IF survives THEN "orphan" ELSE "dead"
                                                 ELSE @]]
    BY DEF Restart
  <2>2. \A r \in Runs :
          [child[r] EXCEPT !.state = IF @ = "alive" THEN IF survives THEN "orphan" ELSE "dead"
                                     ELSE @] \in Child
    BY DEF Child
  <2> QED
    BY <2>1, <2>2
<1>6. used' \in [faults : Nat, restarts : Nat]
  <2>1. used' = [used EXCEPT !.restarts = @ + 1] /\ used \in [faults : Nat, restarts : Nat]
    BY DEF Restart
  <2> QED
    BY ONLY <2>1
<1> QED
  BY <1>1, <1>2, <1>3, <1>4, <1>5, <1>6 DEF Restart

LEMMA NextTypes == TypeOK /\ LifeInv /\ [Next]_vars => TypeOK'
<1> SUFFICES ASSUME TypeOK, LifeInv, [Next]_vars PROVE TypeOK'
  OBVIOUS
<1>1. CASE UNCHANGED vars
  BY <1>1 DEF TypeOK, vars
<1>2. CASE Next
  BY <1>2, StartTypes, CrawlTypes, WatchTypes, RequestTypes, RestartTypes DEF Next
<1> QED
  BY <1>1, <1>2

-----------------------------------------------------------------------------
(* The lives of a run.                                                     *)

(* What each of the steps that may fail leaves alone, for any run. *)
LEMMA FaultCounts == ASSUME TypeOK, Fault PROVE used'.faults > 0
BY DEF TypeOK, Fault

LEMMA BeginKeeps ==
    ASSUME TypeOK, NEW q \in Runs, Begin(q), NEW r \in Runs
    PROVE  /\ starter[q] = "idle"
           /\ starter'[r] = starter[r] \/ (r = q /\ starter'[r] \in {"listed", "gone"})
           /\ \/ registry'[r].status = registry[r].status
              \/ r = q /\ registry'[r].status = "starting"
           /\ registry'[r].items = registry[r].items
           /\ used' = used \/ used'.faults > 0
           /\ UNCHANGED <<processes, requested, child, watcher, stopper, viewer>>
<1>1. registry \in [Runs -> Entry] /\ starter \in [Runs -> Starters] /\ registry[q] \in Entry
  BY DEF TypeOK
<1>2. \/ registry' = [registry EXCEPT ![q].status = "starting"]
      \/ registry' = registry
  BY DEF Begin
<1>3. \/ registry'[r].status = registry[r].status
      \/ r = q /\ registry'[r].status = "starting"
  BY <1>1, <1>2 DEF Entry
<1>4. registry'[r].items = registry[r].items
  BY <1>1, <1>2 DEF Entry
<1>5. starter'[r] = starter[r] \/ (r = q /\ starter'[r] \in {"listed", "gone"})
  BY <1>1 DEF Begin, StartFails
<1>6. used' = used \/ used'.faults > 0
  BY FaultCounts DEF Begin, StartFails
<1> QED
  BY <1>3, <1>4, <1>5, <1>6 DEF Begin

LEMMA ShowRunningKeeps ==
    ASSUME TypeOK, NEW q \in Runs, ShowRunning(q), NEW r \in Runs
    PROVE  /\ starter[q] = "registered"
           /\ starter'[r] = starter[r] \/ (r = q /\ starter'[r] \in {"shown", "gone"})
           /\ \/ registry'[r].status = registry[r].status
              \/ r = q /\ registry'[r].status = "running"
           /\ registry'[r].items = registry[r].items
           /\ used' = used \/ used'.faults > 0
           /\ UNCHANGED <<processes, requested, child, watcher, stopper, viewer>>
<1>1. registry \in [Runs -> Entry] /\ starter \in [Runs -> Starters] /\ registry[q] \in Entry
  BY DEF TypeOK
<1>2. \/ registry' = [registry EXCEPT ![q].status = "running"]
      \/ registry' = registry
  BY DEF ShowRunning
<1>3. \/ registry'[r].status = registry[r].status
      \/ r = q /\ registry'[r].status = "running"
  BY <1>1, <1>2 DEF Entry
<1>4. registry'[r].items = registry[r].items
  BY <1>1, <1>2 DEF Entry
<1>5. starter'[r] = starter[r] \/ (r = q /\ starter'[r] \in {"shown", "gone"})
  BY <1>1 DEF ShowRunning, StartFails
<1>6. used' = used \/ used'.faults > 0
  BY FaultCounts DEF ShowRunning, StartFails
<1> QED
  BY <1>3, <1>4, <1>5, <1>6 DEF ShowRunning

LEMMA WatchKeeps ==
    ASSUME TypeOK, NEW q \in Runs, Watch(q), NEW r \in Runs
    PROVE  /\ starter[q] = "shown"
           /\ \/ starter'[r] = starter[r] /\ watcher'[r] = watcher[r]
              \/ r = q /\ starter'[r] = "gone" /\ watcher'[r] = watcher[r]
              \/ /\ r = q /\ starter'[r] = "done" /\ watcher'[r].pc = "reading"
                 /\ watcher'[r].items = watcher[r].items /\ watcher'[r].seen = watcher[r].seen
                 /\ watcher'[r].verdict = watcher[r].verdict
           /\ used' = used \/ used'.faults > 0
           /\ UNCHANGED <<registry, processes, requested, child, stopper, viewer>>
<1>1. watcher \in [Runs -> Watcher] /\ starter \in [Runs -> Starters] /\ watcher[q] \in Watcher
  BY DEF TypeOK
<1>2. \/ /\ watcher' = [watcher EXCEPT ![q] = [watcher[q] EXCEPT !.pc = "reading"]]
         /\ starter' = [starter EXCEPT ![q] = "done"]
      \/ watcher' = watcher /\ starter' = [starter EXCEPT ![q] = "gone"]
  BY DEF Watch, StartFails
<1>3. LET w == [watcher[q] EXCEPT !.pc = "reading"]
      IN w.pc = "reading" /\ w.items = watcher[q].items /\ w.seen = watcher[q].seen
         /\ w.verdict = watcher[q].verdict
  BY <1>1 DEF Watcher
<1>4. \/ starter'[r] = starter[r] /\ watcher'[r] = watcher[r]
      \/ r = q /\ starter'[r] = "gone" /\ watcher'[r] = watcher[r]
      \/ r = q /\ starter'[r] = "done" /\ watcher'[r] = [watcher[q] EXCEPT !.pc = "reading"]
  BY <1>1, <1>2
<1>5. used' = used \/ used'.faults > 0
  BY FaultCounts DEF Watch, StartFails
<1> QED
  BY <1>3, <1>4, <1>5 DEF Watch

LEMMA ShowStoppingKeeps ==
    ASSUME TypeOK, NEW s \in Stoppers, ShowStopping(s)
    PROVE  /\ stopper[s].pc = "marked"
           /\ \A t \in Stoppers :
                 /\ stopper'[t].run = stopper[t].run
                 /\ \/ stopper'[t].pc = stopper[t].pc
                    \/ t = s /\ stopper'[t].pc \in {"shown", "gone"}
           /\ \A r \in Runs :
                 /\ registry'[r].status \in {registry[r].status, "stopping"}
                 /\ registry'[r].items = registry[r].items
           /\ used' = used \/ used'.faults > 0
           /\ UNCHANGED <<processes, requested, child, starter, watcher, viewer>>
<1>1. /\ registry \in [Runs -> Entry] /\ stopper \in [Stoppers -> Stopper]
      /\ \A r \in Runs : registry[r] \in Entry
  BY DEF TypeOK
<1>2. \/ registry' = [registry EXCEPT ![stopper[s].run].status = "stopping"]
      \/ registry' = registry
  BY DEF ShowStopping
<1>3. \A r \in Runs : /\ registry'[r].status \in {registry[r].status, "stopping"}
                      /\ registry'[r].items = registry[r].items
  BY <1>1, <1>2 DEF Entry
<1>4. \/ stopper' = [stopper EXCEPT ![s].pc = "shown"]
      \/ stopper' = [stopper EXCEPT ![s].pc = "gone"]
  BY DEF ShowStopping
<1>5. \A t \in Stoppers :
         /\ stopper'[t].run = stopper[t].run
         /\ \/ stopper'[t].pc = stopper[t].pc
            \/ t = s /\ stopper'[t].pc \in {"shown", "gone"}
  BY <1>1, <1>4 DEF Stopper
<1>6. used' = used \/ used'.faults > 0
  BY FaultCounts DEF ShowStopping
<1> QED
  BY <1>3, <1>5, <1>6 DEF ShowStopping

LEMMA RestartKeeps ==
    ASSUME TypeOK, Restart, NEW r \in Runs
    PROVE  /\ starter'[r] = Cut(starter[r], {"idle", "done"})
           /\ watcher'[r].pc = Cut(watcher[r].pc, {"off", "done"})
           /\ watcher'[r].items = watcher[r].items /\ watcher'[r].seen = watcher[r].seen
           /\ watcher'[r].verdict = watcher[r].verdict
           /\ \/ child'[r] = child[r] /\ child[r].state # "alive"
              \/ /\ child[r].state = "alive" /\ child'[r].state \in {"orphan", "dead"}
                 /\ child'[r].told = child[r].told /\ child'[r].saved = child[r].saved
                 /\ child'[r].reported = child[r].reported /\ child'[r].pipe = child[r].pipe
                 /\ child'[r].saves = child[r].saves /\ child'[r].lost = child[r].lost
           /\ \A s \in Stoppers : /\ stopper'[s].run = stopper[s].run
                                  /\ stopper'[s].pc = Cut(stopper[s].pc, {"idle", "done"})
           /\ processes' = {} /\ requested' = {}
           /\ registry' = registry /\ used'.faults = used.faults
<1>0. /\ child[r] \in Child /\ watcher[r] \in Watcher
      /\ stopper \in [Stoppers -> Stopper] /\ used \in [faults : Nat, restarts : Nat]
  BY DEF TypeOK
<1>1. starter'[r] = Cut(starter[r], {"idle", "done"})
  BY DEF Restart
<1>2. watcher'[r] = [watcher[r] EXCEPT !.pc = Cut(@, {"off", "done"})]
  BY DEF Restart
<1>3. PICK survives \in BOOLEAN :
        child'[r] = [child[r] EXCEPT !.state = IF @ = "alive"
                                               THEN IF survives THEN "orphan" ELSE "dead"
                                               ELSE @]
  BY DEF Restart
<1>6. \A s \in Stoppers : /\ stopper'[s].run = stopper[s].run
                          /\ stopper'[s].pc = Cut(stopper[s].pc, {"idle", "done"})
  BY <1>0 DEF Restart, Stopper
<1>7. processes' = {} /\ requested' = {} /\ registry' = registry /\ used'.faults = used.faults
  BY <1>0 DEF Restart
<1>8. /\ watcher'[r].pc = Cut(watcher[r].pc, {"off", "done"})
      /\ watcher'[r].items = watcher[r].items /\ watcher'[r].seen = watcher[r].seen
      /\ watcher'[r].verdict = watcher[r].verdict
  BY <1>0, <1>2 DEF Watcher
<1>4. \A st : LET c == [child[r] EXCEPT !.state = st]
             IN /\ c.state = st /\ c.told = child[r].told /\ c.saved = child[r].saved
                /\ c.reported = child[r].reported /\ c.pipe = child[r].pipe
                /\ c.saves = child[r].saves /\ c.lost = child[r].lost
  BY <1>0 DEF Child
<1>5. [child[r] EXCEPT !.state = child[r].state] = child[r]
  BY <1>0 DEF Child
<1>9. \/ child'[r] = child[r] /\ child[r].state # "alive"
      \/ /\ child[r].state = "alive" /\ child'[r].state \in {"orphan", "dead"}
         /\ child'[r].told = child[r].told /\ child'[r].saved = child[r].saved
         /\ child'[r].reported = child[r].reported /\ child'[r].pipe = child[r].pipe
         /\ child'[r].saves = child[r].saves /\ child'[r].lost = child[r].lost
  <2>1. ASSUME child[r].state = "alive"
        PROVE  \E st \in {"orphan", "dead"} : child'[r] = [child[r] EXCEPT !.state = st]
    BY <1>3, <2>1
  <2>2. ASSUME child[r].state # "alive"
        PROVE  child'[r] = [child[r] EXCEPT !.state = child[r].state]
    BY <1>3, <2>2
  <2>3. CASE child[r].state = "alive"
    <3>1. PICK st \in {"orphan", "dead"} : child'[r] = [child[r] EXCEPT !.state = st]
      BY <2>1, <2>3
    <3> QED
      BY <1>4, <2>3, <3>1
  <2>4. CASE child[r].state # "alive"
    BY <1>5, <2>2, <2>4
  <2> QED
    BY <2>3, <2>4
<1> QED
  BY <1>1, <1>6, <1>7, <1>8, <1>9

LEMMA ReadLineKeeps ==
    ASSUME TypeOK, NEW q \in Runs, ReadLine(q), NEW r \in Runs
    PROVE  /\ watcher'[r].pc = watcher[r].pc /\ watcher'[r].verdict = watcher[r].verdict
           /\ child'[r].state = child[r].state /\ child'[r].told = child[r].told
           /\ registry'[r].status = registry[r].status
           /\ UNCHANGED <<processes, requested, starter, stopper, viewer, used>>
<1>0. /\ registry \in [Runs -> Entry] /\ child \in [Runs -> Child] /\ watcher \in [Runs -> Watcher]
      /\ child[q] \in Child /\ watcher[q] \in Watcher /\ registry[q] \in Entry
  BY DEF TypeOK
<1>1. /\ watcher' = [watcher EXCEPT ![q] = Noted(q)]
      /\ child' = [child EXCEPT ![q] = [child[q] EXCEPT !.pipe = Tail(@)]]
      /\ UNCHANGED <<processes, requested, starter, stopper, viewer, used>>
  BY DEF ReadLine
<1>2. \E items, new, linked : registry' = [registry EXCEPT ![q] = Counted(registry[q], items, new, linked)]
  <2> DEFINE new == Head(child[q].pipe) \notin watcher[q].seen
  <2>1. PICK linked : registry' = [registry EXCEPT ![q] = Counted(registry[q], Noted(q).items, new, linked)]
    BY DEF ReadLine
  <2> QED
    BY <2>1, Zenon
<1>3. \A items, new, linked : Counted(registry[q], items, new, linked).status = registry[q].status
  BY <1>0 DEF Counted, Entry
<1>4. Noted(q).pc = watcher[q].pc /\ Noted(q).verdict = watcher[q].verdict
  BY <1>0 DEF Noted, Watcher
<1>5. watcher'[r].pc = watcher[r].pc /\ watcher'[r].verdict = watcher[r].verdict
  BY <1>0, <1>1, <1>4
<1>6. child'[r].state = child[r].state /\ child'[r].told = child[r].told
  BY <1>0, <1>1 DEF Child
<1>7. registry'[r].status = registry[r].status
  BY <1>0, <1>2, <1>3
<1> QED
  BY <1>1, <1>5, <1>6, <1>7

LEMMA ReadFailsKeeps ==
    ASSUME TypeOK, NEW q \in Runs, ReadFails(q), NEW r \in Runs
    PROVE  /\ \/ watcher'[r].pc = watcher[r].pc
              \/ r = q /\ watcher[r].pc = "reading" /\ watcher'[r].pc = "deaf"
           /\ watcher'[r].verdict = watcher[r].verdict
           /\ child'[r].state = child[r].state /\ child'[r].told = child[r].told
           /\ used'.faults > 0
           /\ UNCHANGED <<registry, processes, requested, starter, stopper, viewer>>
<1>0. /\ child \in [Runs -> Child] /\ watcher \in [Runs -> Watcher]
      /\ child[q] \in Child /\ watcher[q] \in Watcher
      /\ used \in [faults : Nat, restarts : Nat]
  BY DEF TypeOK
<1>1. /\ watcher[q].pc = "reading" /\ used'.faults > 0
      /\ UNCHANGED <<registry, processes, requested, starter, stopper, viewer>>
  BY <1>0 DEF ReadFails, Fault
<1>2. PICK w \in {watcher[q], Noted(q)} : watcher' = [watcher EXCEPT ![q] = [w EXCEPT !.pc = "deaf"]]
  BY DEF ReadFails
<1>3. child' = child \/ child' = [child EXCEPT ![q] = [child[q] EXCEPT !.pipe = Tail(@)]]
  BY DEF ReadFails
<1>4. [w EXCEPT !.pc = "deaf"].pc = "deaf" /\ [w EXCEPT !.pc = "deaf"].verdict = watcher[q].verdict
  BY <1>0 DEF Noted, Watcher
<1>5. /\ watcher'[r].pc = watcher[r].pc \/ (r = q /\ watcher'[r].pc = "deaf")
      /\ watcher'[r].verdict = watcher[r].verdict
  BY <1>0, <1>2, <1>4
<1>6. child'[r].state = child[r].state /\ child'[r].told = child[r].told
  <2>1. child'[r] = child[r] \/ (r = q /\ child'[r] = [child[q] EXCEPT !.pipe = Tail(@)])
    BY ONLY <1>0, <1>3
  <2> QED
    BY <1>0, <2>1 DEF Child
<1> QED
  BY <1>1, <1>5, <1>6

LEMMA NextLife == TypeOK /\ LifeInv /\ [Next]_vars => LifeInv'
<1> SUFFICES ASSUME TypeOK, LifeInv, [Next]_vars, NEW r \in Runs
             PROVE  Life(r)'
  BY DEF LifeInv
<1>0. /\ child \in [Runs -> Child] /\ starter \in [Runs -> Starters]
      /\ watcher \in [Runs -> Watcher] /\ stopper \in [Stoppers -> Stopper]
  BY DEF TypeOK
<1>00. Life(r)
  BY DEF LifeInv
<1> USE <1>0, <1>00 DEF Life, Child, Watcher, Starters, Stopper
<1>1. ASSUME NEW q \in Runs, Begin(q) PROVE Life(r)'
  BY <1>1, BeginKeeps
<1>2. ASSUME NEW q \in Runs, Spawn(q) PROVE Life(r)'
  BY <1>2 DEF Spawn, StartFails, Fault
<1>3. ASSUME NEW q \in Runs, Register(q) PROVE Life(r)'
  BY <1>3 DEF Register
<1>4. ASSUME NEW q \in Runs, ShowRunning(q) PROVE Life(r)'
  BY <1>4, ShowRunningKeeps
<1>5. ASSUME NEW q \in Runs, Watch(q) PROVE Life(r)'
  BY <1>5, WatchKeeps
<1>6. ASSUME NEW q \in Runs, ReadLine(q) PROVE Life(r)'
  BY <1>6, ReadLineKeeps
<1>7. ASSUME NEW q \in Runs, Reap(q) PROVE Life(r)'
  BY <1>7 DEF Reap
<1>8. ASSUME NEW q \in Runs, Judge(q) PROVE Life(r)'
  BY <1>8 DEF Judge, Verdict, Final
<1>9. ASSUME NEW q \in Runs, Conclude(q) PROVE Life(r)'
  <2>1. \/ watcher' = [watcher EXCEPT ![q].pc = "concluded"]
        \/ watcher' = [watcher EXCEPT ![q].pc = "gone"]
    BY <1>9, Zenon DEF Conclude
  <2>2. watcher[q].pc = "judged" /\ child' = child /\ starter' = starter
    BY <1>9, Zenon DEF Conclude
  <2>3. CASE r = q
    BY <2>1, <2>2, <2>3
  <2>4. CASE r # q
    BY <2>1, <2>2, <2>4
  <2> QED
    BY <2>3, <2>4
<1>10. ASSUME NEW q \in Runs, Forget(q) PROVE Life(r)'
  BY <1>10 DEF Forget
<1>11. ASSUME NEW q \in Runs, ReadFails(q) PROVE Life(r)'
  BY <1>11, ReadFailsKeeps
<1>12. ASSUME NEW q \in Runs, Refresh(q) PROVE Life(r)'
  BY <1>12 DEF Refresh
<1>13. ASSUME NEW q \in Runs, Exit(q) PROVE Life(r)'
  BY <1>13 DEF Exit, Running
<1>14. ASSUME NEW q \in Runs, Killed(q) PROVE Life(r)'
  BY <1>14 DEF Killed, Running
<1>15. ASSUME NEW q \in Runs, NEW p \in Products, Save(q, p) PROVE Life(r)'
  BY <1>15 DEF Save, Yields
<1>23. ASSUME NEW q \in Runs, Lose(q) PROVE Life(r)'
  BY <1>23 DEF Lose, Yields
<1>24. ASSUME NEW q \in Runs, Report(q) PROVE Life(r)'
  BY <1>24 DEF Report
<1>16. ASSUME NEW s \in Stoppers, Mark(s) PROVE Life(r)'
  BY <1>16 DEF Mark
<1>17. ASSUME NEW s \in Stoppers, ShowStopping(s) PROVE Life(r)'
  BY <1>17, ShowStoppingKeeps
<1>18. ASSUME NEW s \in Stoppers, Terminate(s) PROVE Life(r)'
  BY <1>18 DEF Terminate
<1>19. ASSUME NEW v \in Viewers, Look(v) PROVE Life(r)'
  BY <1>19 DEF Look
<1>20. ASSUME NEW v \in Viewers, Link(v) PROVE Life(r)'
  BY <1>20 DEF Link
<1>21. CASE Restart
  <2>1. /\ starter'[r] = Cut(starter[r], {"idle", "done"})
        /\ watcher'[r].pc = Cut(watcher[r].pc, {"off", "done"})
        /\ watcher'[r].verdict = watcher[r].verdict
    BY <1>21, RestartKeeps
  <2>2. \/ child'[r].state = child[r].state
        \/ child[r].state = "alive" /\ child'[r].state \in {"orphan", "dead"}
    BY <1>21, RestartKeeps
  <2>3. child'[r].told = child[r].told
    BY <1>21, RestartKeeps
  <2> QED
    BY <2>1, <2>2, <2>3 DEF Cut
<1>22. CASE UNCHANGED vars
  BY <1>22 DEF vars
<1> QED
  BY <1>1, <1>2, <1>3, <1>4, <1>5, <1>6, <1>7, <1>8, <1>9, <1>10, <1>11, <1>12, <1>13, <1>14, <1>15, <1>16, <1>17, <1>18, <1>19, <1>20, <1>21, <1>22,
     <1>23, <1>24
     DEF Next, StartStep, WatchStep, StopStep

LEMMA LifeHolds == Spec => [](TypeOK /\ LifeInv)
<1>1. TypeOK /\ LifeInv /\ [Next]_vars => (TypeOK /\ LifeInv)'
  BY NextTypes, NextLife
<1> QED
  BY InitTypes, <1>1, PTL DEF Spec

-----------------------------------------------------------------------------
(* The table of processes, the requests to stop, and the numbers.          *)

Asked(r) == \E s \in Stoppers : stopper[s].run = r /\ stopper[s].pc # "idle"

(* A crawl that was told to stop is remembered as requested until its      *)
(* watcher has judged it; a request under way is, too, or comes too late.  *)
RequestInv ==
    /\ \A r \in requested : Asked(r)
    /\ \A s \in Stoppers : stopper[s].pc \in {"marked", "shown"} =>
          stopper[s].run \in requested \/ child[stopper[s].run].state = "dead"
    /\ \A r \in Runs : child[r].told =>
          \/ r \in requested \/ starter[r] = "gone"
          \/ watcher[r].pc \in {"judged", "concluded", "done", "gone"}
    /\ \A r \in Runs : watcher[r].pc = "judged" =>
          /\ child[r].told => watcher[r].verdict = "stopped"
          /\ watcher[r].verdict = "stopped" => Asked(r)

InPipe(r) == {child[r].pipe[i] : i \in DOMAIN child[r].pipe}

(* While nothing has failed: what the crawl saved has been counted or is   *)
(* in the pipe, its totals are the last line it logs, the watcher holds    *)
(* them once it has read everything and the number of products until then, *)
(* and the list shows what the watcher holds.                              *)
Counts(r) ==
    used.faults = 0 /\ watcher[r].pc # "gone" /\ starter[r] # "gone" =>
       /\ watcher[r].pc # "deaf" /\ child[r].state # "orphan"
       /\ child[r].saved = watcher[r].seen \cup (InPipe(r) \ {Summary})
       /\ \A i \in DOMAIN child[r].pipe :
             child[r].pipe[i] = Summary <=> child[r].reported /\ i = Len(child[r].pipe)
       /\ watcher[r].items = IF child[r].reported /\ child[r].pipe = <<>> THEN Totals(r)
                             ELSE Live(Cardinality(watcher[r].seen))
       /\ registry[r].items = watcher[r].items
       /\ watcher[r].pc \in {"reaped", "judged", "concluded", "done"} => child[r].pipe = <<>>
CountInv == \A r \in Runs : Counts(r)

LEMMA NextFound == TypeOK /\ LifeInv /\ LiveRunIsFound /\ [Next]_vars => LiveRunIsFound'
<1> DEFINE Found(r) == child[r].state = "alive" /\ starter[r] # "spawned"
                          => r \in processes
<1> SUFFICES ASSUME TypeOK, LifeInv, LiveRunIsFound, [Next]_vars, NEW r \in Runs
             PROVE  Found(r)'
  BY DEF LiveRunIsFound
<1>0. /\ child \in [Runs -> Child] /\ starter \in [Runs -> Starters]
      /\ watcher \in [Runs -> Watcher] /\ stopper \in [Stoppers -> Stopper]
      /\ Found(r) /\ \A q \in Runs : Life(q)
  BY DEF TypeOK, LifeInv, LiveRunIsFound
<1> USE <1>0 DEF Life, Child, Starters, Stopper
<1>1. ASSUME NEW q \in Runs, Begin(q) PROVE Found(r)'
  <2>1. /\ UNCHANGED <<child, processes>> /\ starter[q] = "idle"
        /\ starter'[r] = starter[r] \/ r = q
    BY <1>1, BeginKeeps
  <2> QED
    BY <2>1
<1>2. ASSUME NEW q \in Runs, Spawn(q) PROVE Found(r)'
  <2>1. /\ processes' = processes /\ starter[q] = "listed"
        /\ starter' = [starter EXCEPT ![q] = "spawned"] \/ child' = child
        /\ \E n \in {"spawned", "gone"} : starter' = [starter EXCEPT ![q] = n]
        /\ child' = child \/ child' = [child EXCEPT ![q].state = "alive"]
    BY <1>2 DEF Spawn, StartFails
  <2>2. CASE r = q
    <3>1. child[r].state = "none"
      BY <2>1, <2>2
    <3> QED
      BY <2>1, <2>2, <3>1
  <2>3. CASE r # q
    BY <2>1, <2>3
  <2> QED
    BY <2>2, <2>3
<1>3. ASSUME NEW q \in Runs, Register(q) PROVE Found(r)'
  BY <1>3 DEF Register
<1>4. ASSUME NEW q \in Runs, ShowRunning(q) PROVE Found(r)'
  <2>1. /\ UNCHANGED <<child, processes>> /\ starter[q] = "registered"
        /\ starter'[r] = starter[r] \/ r = q
    BY <1>4, ShowRunningKeeps
  <2> QED
    BY <2>1
<1>5. ASSUME NEW q \in Runs, Watch(q) PROVE Found(r)'
  <2>1. /\ UNCHANGED <<child, processes>> /\ starter[q] = "shown"
        /\ starter'[r] = starter[r] \/ r = q
    BY <1>5, WatchKeeps
  <2> QED
    BY <2>1
<1>6. ASSUME NEW q \in Runs, ReadLine(q) PROVE Found(r)'
  BY <1>6, ReadLineKeeps
<1>7. ASSUME NEW q \in Runs, Reap(q) PROVE Found(r)'
  BY <1>7 DEF Reap
<1>8. ASSUME NEW q \in Runs, Judge(q) PROVE Found(r)'
  BY <1>8 DEF Judge, Verdict, Final
<1>9. ASSUME NEW q \in Runs, Conclude(q) PROVE Found(r)'
  <2>1. child' = child /\ starter' = starter /\ processes' = processes
    BY <1>9, Zenon DEF Conclude
  <2> QED
    BY <2>1
<1>10. ASSUME NEW q \in Runs, Forget(q) PROVE Found(r)'
  BY <1>10 DEF Forget
<1>11. ASSUME NEW q \in Runs, ReadFails(q) PROVE Found(r)'
  BY <1>11, ReadFailsKeeps
<1>12. ASSUME NEW q \in Runs, Refresh(q) PROVE Found(r)'
  BY <1>12 DEF Refresh
<1>13. ASSUME NEW q \in Runs, Exit(q) PROVE Found(r)'
  BY <1>13 DEF Exit, Running
<1>14. ASSUME NEW q \in Runs, Killed(q) PROVE Found(r)'
  BY <1>14 DEF Killed, Running
<1>15. ASSUME NEW q \in Runs, NEW p \in Products, Save(q, p) PROVE Found(r)'
  BY <1>15 DEF Save, Yields
<1>23. ASSUME NEW q \in Runs, Lose(q) PROVE Found(r)'
  BY <1>23 DEF Lose, Yields
<1>24. ASSUME NEW q \in Runs, Report(q) PROVE Found(r)'
  BY <1>24 DEF Report
<1>16. ASSUME NEW s \in Stoppers, Mark(s) PROVE Found(r)'
  BY <1>16 DEF Mark
<1>17. ASSUME NEW s \in Stoppers, ShowStopping(s) PROVE Found(r)'
  BY <1>17, ShowStoppingKeeps
<1>18. ASSUME NEW s \in Stoppers, Terminate(s) PROVE Found(r)'
  BY <1>18 DEF Terminate
<1>19. ASSUME NEW v \in Viewers, Look(v) PROVE Found(r)'
  BY <1>19 DEF Look
<1>20. ASSUME NEW v \in Viewers, Link(v) PROVE Found(r)'
  BY <1>20 DEF Link
<1>21. CASE Restart
  <2>0. \/ child'[r] = child[r] /\ child[r].state # "alive"
        \/ child'[r].state \in {"orphan", "dead"}
    BY <1>21, RestartKeeps
  <2>1. child'[r].state # "alive"
    BY <2>0
  <2> QED
    BY <2>1
<1>22. CASE UNCHANGED vars
  BY <1>22 DEF vars
<1> QED
  BY <1>1, <1>2, <1>3, <1>4, <1>5, <1>6, <1>7, <1>8, <1>9, <1>10, <1>11, <1>12, <1>13, <1>14, <1>15, <1>16, <1>17, <1>18, <1>19, <1>20, <1>21, <1>22,
     <1>23, <1>24
     DEF Next, StartStep, WatchStep, StopStep

(* From its registration until it ends a crawl can be found by stop(),     *)
(* whatever refreshes the list and whichever watchers end.                 *)
THEOREM LiveRunAlwaysFound == Spec => []LiveRunIsFound
<1>1. Init => LiveRunIsFound
  BY DEF Init, LiveRunIsFound, NoChild
<1> QED
  BY <1>1, NextFound, LifeHolds, PTL DEF Spec

LEMMA NextEnded == TypeOK /\ LifeInv /\ EndedIsNotRunning /\ [Next]_vars => EndedIsNotRunning'
<1> DEFINE Over(r) == Concluded(r) => registry[r].status \notin {"starting", "running"}
<1> SUFFICES ASSUME TypeOK, LifeInv, EndedIsNotRunning, [Next]_vars, NEW r \in Runs
             PROVE  Over(r)'
  BY DEF EndedIsNotRunning
<1>0. /\ registry \in [Runs -> Entry] /\ starter \in [Runs -> Starters]
      /\ watcher \in [Runs -> Watcher] /\ viewer \in [Viewers -> Viewer]
      /\ stopper \in [Stoppers -> Stopper]
      /\ Over(r) /\ \A q \in Runs : Life(q)
  BY DEF TypeOK, LifeInv, EndedIsNotRunning
<1> USE <1>0 DEF Concluded, Life, Entry, Watcher, Starters, Stopper, Viewer
<1>1. ASSUME NEW q \in Runs, Begin(q) PROVE Over(r)'
  BY <1>1, BeginKeeps
<1>2. ASSUME NEW q \in Runs, Spawn(q) PROVE Over(r)'
  BY <1>2 DEF Spawn, StartFails, Fault
<1>3. ASSUME NEW q \in Runs, Register(q) PROVE Over(r)'
  BY <1>3 DEF Register
<1>4. ASSUME NEW q \in Runs, ShowRunning(q) PROVE Over(r)'
  BY <1>4, ShowRunningKeeps
<1>5. ASSUME NEW q \in Runs, Watch(q) PROVE Over(r)'
  BY <1>5, WatchKeeps
<1>6. ASSUME NEW q \in Runs, ReadLine(q) PROVE Over(r)'
  BY <1>6, ReadLineKeeps
<1>7. ASSUME NEW q \in Runs, Reap(q) PROVE Over(r)'
  BY <1>7 DEF Reap
<1>8. ASSUME NEW q \in Runs, Judge(q) PROVE Over(r)'
  BY <1>8 DEF Judge, Verdict, Final
<1>9. ASSUME NEW q \in Runs, Conclude(q) PROVE Over(r)'
  <2>1. \/ registry' = [registry EXCEPT ![q] = Ended(@, watcher[q].verdict, watcher[q].items)]
           /\ watcher' = [watcher EXCEPT ![q].pc = "concluded"]
        \/ registry' = registry /\ watcher' = [watcher EXCEPT ![q].pc = "gone"]
    BY <1>9, Zenon DEF Conclude
  <2>0. watcher[q].pc = "judged"
    BY <1>9, Zenon DEF Conclude
  <2>2. watcher[q].verdict \in Final
    BY <2>0
  <2>5. Ended(registry[q], watcher[q].verdict, watcher[q].items).status = watcher[q].verdict
    BY DEF Ended
  <2>3. CASE r = q
    <3>1. CASE registry'[r] = Ended(registry[q], watcher[q].verdict, watcher[q].items)
      BY <2>2, <2>3, <2>5, <3>1 DEF Final
    <3>2. CASE watcher' = [watcher EXCEPT ![q].pc = "gone"]
      BY <2>3, <3>2
    <3> QED
      BY <2>1, <2>3, <3>1, <3>2
  <2>4. CASE r # q
    BY <2>1, <2>4
  <2> QED
    BY <2>3, <2>4
<1>10. ASSUME NEW q \in Runs, Forget(q) PROVE Over(r)'
  BY <1>10 DEF Forget
<1>11. ASSUME NEW q \in Runs, ReadFails(q) PROVE Over(r)'
  BY <1>11, ReadFailsKeeps
<1>12. ASSUME NEW q \in Runs, Refresh(q) PROVE Over(r)'
  BY <1>12 DEF Refresh
<1>13. ASSUME NEW q \in Runs, Exit(q) PROVE Over(r)'
  BY <1>13 DEF Exit, Running
<1>14. ASSUME NEW q \in Runs, Killed(q) PROVE Over(r)'
  BY <1>14 DEF Killed, Running
<1>15. ASSUME NEW q \in Runs, NEW p \in Products, Save(q, p) PROVE Over(r)'
  BY <1>15 DEF Save, Yields
<1>23. ASSUME NEW q \in Runs, Lose(q) PROVE Over(r)'
  BY <1>23 DEF Lose, Yields
<1>24. ASSUME NEW q \in Runs, Report(q) PROVE Over(r)'
  BY <1>24 DEF Report
<1>16. ASSUME NEW s \in Stoppers, Mark(s) PROVE Over(r)'
  BY <1>16 DEF Mark
<1>17. ASSUME NEW s \in Stoppers, ShowStopping(s) PROVE Over(r)'
  BY <1>17, ShowStoppingKeeps
<1>18. ASSUME NEW s \in Stoppers, Terminate(s) PROVE Over(r)'
  BY <1>18 DEF Terminate
<1>19. ASSUME NEW v \in Viewers, Look(v) PROVE Over(r)'
  BY <1>19 DEF Look
<1>20. ASSUME NEW v \in Viewers, Link(v) PROVE Over(r)'
  BY <1>20 DEF Link
<1>21. CASE Restart
  BY <1>21, RestartKeeps DEF Cut
<1>22. CASE UNCHANGED vars
  BY <1>22 DEF vars
<1> QED
  BY <1>1, <1>2, <1>3, <1>4, <1>5, <1>6, <1>7, <1>8, <1>9, <1>10, <1>11, <1>12, <1>13, <1>14, <1>15, <1>16, <1>17, <1>18, <1>19, <1>20, <1>21, <1>22,
     <1>23, <1>24
     DEF Next, StartStep, WatchStep, StopStep

(* A run whose watcher has concluded is never listed as starting or        *)
(* running again.                                                          *)
THEOREM EndedNeverRunning == Spec => []EndedIsNotRunning
<1>1. Init => EndedIsNotRunning
  BY DEF Init, EndedIsNotRunning, Concluded, NoWatcher
<1> QED
  BY <1>1, NextEnded, LifeHolds, PTL DEF Spec

LEMMA AskedStays ==
    ASSUME TypeOK, [Next]_vars, NEW r \in Runs, Asked(r)
    PROVE  Asked(r)'
<1>1. PICK s \in Stoppers : stopper[s].run = r /\ stopper[s].pc # "idle"
  BY DEF Asked
<1>2. stopper \in [Stoppers -> Stopper]
  BY SMTT(30) DEF TypeOK
<1>3. stopper'[s].run = stopper[s].run /\ stopper'[s].pc # "idle"
  <2> USE <1>1, <1>2 DEF Stopper
  <2>1. ASSUME NEW t \in Stoppers, StopStep(t) PROVE stopper'[s].run = stopper[s].run /\ stopper'[s].pc # "idle"
    BY <2>1 DEF StopStep, Mark, ShowStopping, Terminate
  <2>2. CASE Restart
    BY <2>2 DEF Restart, Cut
  <2>3. CASE UNCHANGED stopper
    BY <2>3
  <2> QED
    BY <2>1, <2>2, <2>3
       DEF Next, vars, StartStep, Begin, Spawn, Register, ShowRunning, Watch, WatchStep, ReadLine,
           Reap, Judge, Conclude, Forget, ReadFails, Refresh, Save, Lose, Report, Exit, Killed, Look, Link
<1> QED
  BY <1>1, <1>3 DEF Asked

(* Neither a spawn nor a restart tells a crawl anything. *)
LEMMA ToldStays ==
    ASSUME TypeOK, NEW r \in Runs, Restart \/ \E q \in Runs : Spawn(q)
    PROVE  child'[r].told = child[r].told
<1>0. child \in [Runs -> Child]
  BY DEF TypeOK
<1> USE <1>0 DEF Child
<1>1. CASE Restart
  <2>1. PICK survives \in BOOLEAN :
          child' = [q \in Runs |->
                      [child[q] EXCEPT !.state = IF @ = "alive"
                                                 THEN IF survives THEN "orphan" ELSE "dead"
                                                 ELSE @]]
    BY <1>1 DEF Restart
  <2>2. PICK state : child'[r] = [child[r] EXCEPT !.state = state]
    BY <2>1
  <2>3. child[r] \in Child
    OBVIOUS
  <2> QED
    BY <2>2, <2>3
<1>2. ASSUME NEW q \in Runs, Spawn(q) PROVE child'[r].told = child[r].told
  <2>1. CASE child' = child
    BY <2>1
  <2>2. CASE child' = [child EXCEPT ![q].state = "alive"]
    <3>1. child'[r] = child[r] \/ child'[r] = [child[r] EXCEPT !.state = "alive"]
      BY <2>2
    <3>2. child[r] \in Child
      OBVIOUS
    <3> QED
      BY <3>1, <3>2
  <2> QED
    BY <1>2, <2>1, <2>2 DEF Spawn
<1> QED
  BY <1>1, <1>2

LEMMA NextRequested ==
    TypeOK /\ LifeInv /\ RequestInv /\ [Next]_vars => \A r \in requested' : Asked(r)'
<1> SUFFICES ASSUME TypeOK, LifeInv, RequestInv, [Next]_vars, NEW r \in requested'
             PROVE  Asked(r)'
  OBVIOUS
<1>1. CASE r \in requested
  BY <1>1, AskedStays DEF RequestInv, TypeOK
<1>2. CASE r \notin requested
  <2>1. PICK s \in Stoppers : Mark(s) /\ r = stopper[s].run
    BY <1>2
       DEF Next, vars, StartStep, Begin, Spawn, Register, ShowRunning, Watch, WatchStep, ReadLine,
           Reap, Judge, Conclude, Forget, ReadFails, Refresh, Save, Lose, Report, Exit, Killed, Look, Link,
           StopStep, Mark, ShowStopping, Terminate, Restart
  <2>2. stopper'[s].run = r /\ stopper'[s].pc # "idle"
    BY <2>1 DEF Mark, TypeOK, Stopper
  <2> QED
    BY <2>2, SMTT(30) DEF Asked
<1> QED
  BY <1>1, <1>2

(* A stop request under way is remembered, or comes too late. *)
LEMMA NextMarked ==
    ASSUME TypeOK, LifeInv, RequestInv, [Next]_vars,
           NEW t \in Stoppers, stopper'[t].pc \in {"marked", "shown"}
    PROVE  stopper'[t].run \in requested' \/ child'[stopper'[t].run].state = "dead"
<1> DEFINE Known(x) == stopper[x].pc \in {"marked", "shown"} =>
                          stopper[x].run \in requested \/ child[stopper[x].run].state = "dead"
<1> SUFFICES Known(t)'
  OBVIOUS
<1>0. /\ child \in [Runs -> Child] /\ starter \in [Runs -> Starters]
      /\ watcher \in [Runs -> Watcher] /\ stopper \in [Stoppers -> Stopper]
      /\ requested \subseteq Runs /\ \A q \in Runs : Life(q)
  BY DEF TypeOK, LifeInv
<1>00. Known(t)
  BY DEF RequestInv
<1> USE <1>0, <1>00 DEF Child, Stopper, Life
<1>1. ASSUME NEW q \in Runs, Begin(q) PROVE Known(t)'
  BY <1>1, BeginKeeps
<1>2. ASSUME NEW q \in Runs, Spawn(q) PROVE Known(t)'
  BY <1>2 DEF Spawn, StartFails, Fault
<1>3. ASSUME NEW q \in Runs, Register(q) PROVE Known(t)'
  BY <1>3 DEF Register
<1>4. ASSUME NEW q \in Runs, ShowRunning(q) PROVE Known(t)'
  BY <1>4, ShowRunningKeeps
<1>5. ASSUME NEW q \in Runs, Watch(q) PROVE Known(t)'
  BY <1>5, WatchKeeps
<1>6. ASSUME NEW q \in Runs, ReadLine(q) PROVE Known(t)'
  BY <1>6, ReadLineKeeps
<1>7. ASSUME NEW q \in Runs, Reap(q) PROVE Known(t)'
  BY <1>7 DEF Reap
<1>8. ASSUME NEW q \in Runs, Judge(q) PROVE Known(t)'
  BY <1>8 DEF Judge, Verdict, Final
<1>9. ASSUME NEW q \in Runs, Conclude(q) PROVE Known(t)'
  <2>1. child' = child /\ stopper' = stopper /\ requested' = requested
    BY <1>9, Zenon DEF Conclude
  <2> QED
    BY <2>1
<1>10. ASSUME NEW q \in Runs, Forget(q) PROVE Known(t)'
  BY <1>10 DEF Forget
<1>11. ASSUME NEW q \in Runs, ReadFails(q) PROVE Known(t)'
  BY <1>11, ReadFailsKeeps
<1>12. ASSUME NEW q \in Runs, Refresh(q) PROVE Known(t)'
  BY <1>12 DEF Refresh
<1>13. ASSUME NEW q \in Runs, Exit(q) PROVE Known(t)'
  BY <1>13 DEF Exit, Running
<1>14. ASSUME NEW q \in Runs, Killed(q) PROVE Known(t)'
  BY <1>14 DEF Killed, Running
<1>15. ASSUME NEW q \in Runs, NEW p \in Products, Save(q, p) PROVE Known(t)'
  BY <1>15 DEF Save, Yields
<1>23. ASSUME NEW q \in Runs, Lose(q) PROVE Known(t)'
  BY <1>23 DEF Lose, Yields
<1>24. ASSUME NEW q \in Runs, Report(q) PROVE Known(t)'
  BY <1>24 DEF Report
<1>16. ASSUME NEW s \in Stoppers, Mark(s) PROVE Known(t)'
  BY <1>16 DEF Mark
<1>17. ASSUME NEW s \in Stoppers, ShowStopping(s) PROVE Known(t)'
  <2>1. /\ stopper'[t].run = stopper[t].run /\ UNCHANGED <<requested, child>>
        /\ stopper'[t].pc \in {"marked", "shown"} => stopper[t].pc \in {"marked", "shown"}
    BY <1>17, ShowStoppingKeeps
  <2> QED
    BY <2>1
<1>18. ASSUME NEW s \in Stoppers, Terminate(s) PROVE Known(t)'
  BY <1>18 DEF Terminate
<1>19. ASSUME NEW v \in Viewers, Look(v) PROVE Known(t)'
  BY <1>19 DEF Look
<1>20. ASSUME NEW v \in Viewers, Link(v) PROVE Known(t)'
  BY <1>20 DEF Link
<1>21. CASE Restart
  BY <1>21, RestartKeeps DEF Cut
<1>22. CASE UNCHANGED vars
  BY <1>22 DEF vars
<1> QED
  BY <1>1, <1>2, <1>3, <1>4, <1>5, <1>6, <1>7, <1>8, <1>9, <1>10, <1>11, <1>12, <1>13, <1>14, <1>15, <1>16, <1>17, <1>18, <1>19, <1>20, <1>21, <1>22,
     <1>23, <1>24
     DEF Next, StartStep, WatchStep, StopStep

(* A crawl that was told is remembered until its watcher has judged it. *)
LEMMA NextTold ==
    ASSUME TypeOK, LifeInv, RequestInv, [Next]_vars, NEW r \in Runs, child'[r].told
    PROVE  \/ r \in requested' \/ starter'[r] = "gone"
           \/ watcher'[r].pc \in {"judged", "concluded", "done", "gone"}
<1> DEFINE Told == child[r].told =>
                      \/ r \in requested \/ starter[r] = "gone"
                      \/ watcher[r].pc \in {"judged", "concluded", "done", "gone"}
<1> SUFFICES Told'
  OBVIOUS
<1>0. /\ child \in [Runs -> Child] /\ starter \in [Runs -> Starters]
      /\ watcher \in [Runs -> Watcher] /\ stopper \in [Stoppers -> Stopper]
      /\ requested \subseteq Runs /\ \A q \in Runs : Life(q)
  BY DEF TypeOK, LifeInv
<1>00. Told /\ \A s \in Stoppers : stopper[s].pc = "shown" =>
                        stopper[s].run \in requested \/ child[stopper[s].run].state = "dead"
  BY DEF RequestInv
<1> USE <1>0, <1>00 DEF Child, Stopper, Watcher, Starters, Life
<1>1. ASSUME NEW q \in Runs, Begin(q) PROVE Told'
  BY <1>1, BeginKeeps
<1>2. ASSUME NEW q \in Runs, Spawn(q) PROVE Told'
  <2>1. /\ starter' = [starter EXCEPT ![q] = "spawned"] \/ starter' = [starter EXCEPT ![q] = "gone"]
        /\ child' = [child EXCEPT ![q].state = "alive"] \/ child' = child
        /\ starter[q] = "listed" /\ requested' = requested /\ watcher' = watcher
    BY <1>2 DEF Spawn, StartFails
  <2>2. child'[r].told = child[r].told
    BY <1>2, ToldStays
  <2>3. starter'[r] = "gone" \/ starter'[r] = starter[r] \/ ~child[r].told
    BY <2>1
  <2> QED
    BY <2>1, <2>2, <2>3
<1>3. ASSUME NEW q \in Runs, Register(q) PROVE Told'
  BY <1>3 DEF Register
<1>4. ASSUME NEW q \in Runs, ShowRunning(q) PROVE Told'
  BY <1>4, ShowRunningKeeps
<1>5. ASSUME NEW q \in Runs, Watch(q) PROVE Told'
  BY <1>5, WatchKeeps
<1>6. ASSUME NEW q \in Runs, ReadLine(q) PROVE Told'
  BY <1>6, ReadLineKeeps
<1>7. ASSUME NEW q \in Runs, Reap(q) PROVE Told'
  BY <1>7 DEF Reap
<1>8. ASSUME NEW q \in Runs, Judge(q) PROVE Told'
  BY <1>8 DEF Judge, Verdict, Final
<1>9. ASSUME NEW q \in Runs, Conclude(q) PROVE Told'
  <2>1. \/ watcher' = [watcher EXCEPT ![q].pc = "concluded"]
        \/ watcher' = [watcher EXCEPT ![q].pc = "gone"]
    BY <1>9, Zenon DEF Conclude
  <2>2. /\ watcher[q].pc = "judged" /\ requested' = requested
        /\ child' = child /\ starter' = starter /\ stopper' = stopper
    BY <1>9, Zenon DEF Conclude
  <2>3. CASE r = q
    BY <2>1, <2>2, <2>3
  <2>4. CASE r # q
    BY <2>1, <2>2, <2>4
  <2> QED
    BY <2>3, <2>4
<1>10. ASSUME NEW q \in Runs, Forget(q) PROVE Told'
  BY <1>10 DEF Forget
<1>11. ASSUME NEW q \in Runs, ReadFails(q) PROVE Told'
  <2>1. /\ child'[r].told = child[r].told /\ UNCHANGED <<requested, starter>>
        /\ watcher'[r].pc = watcher[r].pc \/ watcher[r].pc = "reading"
    BY <1>11, ReadFailsKeeps
  <2> QED
    BY <2>1
<1>12. ASSUME NEW q \in Runs, Refresh(q) PROVE Told'
  BY <1>12 DEF Refresh
<1>13. ASSUME NEW q \in Runs, Exit(q) PROVE Told'
  BY <1>13 DEF Exit, Running
<1>14. ASSUME NEW q \in Runs, Killed(q) PROVE Told'
  BY <1>14 DEF Killed, Running
<1>15. ASSUME NEW q \in Runs, NEW p \in Products, Save(q, p) PROVE Told'
  BY <1>15 DEF Save, Yields
<1>23. ASSUME NEW q \in Runs, Lose(q) PROVE Told'
  BY <1>23 DEF Lose, Yields
<1>24. ASSUME NEW q \in Runs, Report(q) PROVE Told'
  BY <1>24 DEF Report
<1>16. ASSUME NEW s \in Stoppers, Mark(s) PROVE Told'
  BY <1>16 DEF Mark
<1>17. ASSUME NEW s \in Stoppers, ShowStopping(s) PROVE Told'
  BY <1>17, ShowStoppingKeeps
<1>18. ASSUME NEW s \in Stoppers, Terminate(s) PROVE Told'
  BY <1>18 DEF Terminate
<1>19. ASSUME NEW v \in Viewers, Look(v) PROVE Told'
  BY <1>19 DEF Look
<1>20. ASSUME NEW v \in Viewers, Link(v) PROVE Told'
  BY <1>20 DEF Link
<1>21. CASE Restart
  <2>1. /\ starter'[r] = Cut(starter[r], {"idle", "done"})
        /\ watcher'[r].pc = Cut(watcher[r].pc, {"off", "done"})
    BY <1>21, RestartKeeps
  <2>3. child'[r].told = child[r].told
    BY <1>21, RestartKeeps
  <2> QED
    BY <2>1, <2>3 DEF Cut
<1>22. CASE UNCHANGED vars
  BY <1>22 DEF vars
<1> QED
  BY <1>1, <1>2, <1>3, <1>4, <1>5, <1>6, <1>7, <1>8, <1>9, <1>10, <1>11, <1>12, <1>13, <1>14, <1>15, <1>16, <1>17, <1>18, <1>19, <1>20, <1>21, <1>22,
     <1>23, <1>24
     DEF Next, StartStep, WatchStep, StopStep

(* The verdict on a crawl that was told is "stopped", and on no other      *)
(* than one that a request named.                                          *)
LEMMA NextJudged ==
    ASSUME TypeOK, LifeInv, RequestInv, [Next]_vars, NEW r \in Runs, watcher'[r].pc = "judged"
    PROVE  /\ child'[r].told => watcher'[r].verdict = "stopped"
           /\ watcher'[r].verdict = "stopped" => Asked(r)'
<1> DEFINE Just == watcher[r].pc = "judged" =>
                      /\ child[r].told => watcher[r].verdict = "stopped"
                      /\ watcher[r].verdict = "stopped" => Asked(r)
<1> SUFFICES Just'
  OBVIOUS
<1>0. /\ child \in [Runs -> Child] /\ starter \in [Runs -> Starters]
      /\ watcher \in [Runs -> Watcher] /\ stopper \in [Stoppers -> Stopper]
      /\ requested \subseteq Runs /\ \A q \in Runs : Life(q)
  BY DEF TypeOK, LifeInv
<1>00. /\ Just /\ (r \in requested => Asked(r)) /\ (Asked(r) => Asked(r)')
       /\ (child[r].told =>
             \/ r \in requested \/ starter[r] = "gone"
             \/ watcher[r].pc \in {"judged", "concluded", "done", "gone"})
  BY AskedStays DEF RequestInv
<1> USE <1>0, <1>00 DEF Child, Stopper, Watcher, Starters, Life
<1>1. ASSUME NEW q \in Runs, Begin(q) PROVE Just'
  BY <1>1, BeginKeeps
<1>2. ASSUME NEW q \in Runs, Spawn(q) PROVE Just'
  BY <1>2 DEF Spawn, StartFails, Fault
<1>3. ASSUME NEW q \in Runs, Register(q) PROVE Just'
  BY <1>3 DEF Register
<1>4. ASSUME NEW q \in Runs, ShowRunning(q) PROVE Just'
  BY <1>4, ShowRunningKeeps
<1>5. ASSUME NEW q \in Runs, Watch(q) PROVE Just'
  BY <1>5, WatchKeeps
<1>6. ASSUME NEW q \in Runs, ReadLine(q) PROVE Just'
  BY <1>6, ReadLineKeeps
<1>7. ASSUME NEW q \in Runs, Reap(q) PROVE Just'
  BY <1>7 DEF Reap
<1>8. ASSUME NEW q \in Runs, Judge(q) PROVE Just'
  <2>1. watcher' = [watcher EXCEPT ![q].pc = "judged", ![q].verdict = Verdict(q)]
    BY <1>8, Zenon DEF Judge
  <2>2. /\ requested' = requested /\ child' = child /\ starter' = starter
        /\ stopper' = stopper /\ watcher[q].pc = "reaped"
    BY <1>8, Zenon DEF Judge
  <2>3. CASE r = q
    <3>1. watcher'[r].verdict = IF r \in requested THEN "stopped"
                                ELSE IF child[r].clean THEN "completed" ELSE "failed"
      BY <2>1, <2>3 DEF Verdict
    <3>2. child[r].told => r \in requested
      BY <2>2, <2>3
    <3> QED
      BY <2>2, <3>1, <3>2
  <2>4. CASE r # q
    BY <2>1, <2>2, <2>4
  <2> QED
    BY <2>3, <2>4
<1>9. ASSUME NEW q \in Runs, Conclude(q) PROVE Just'
  <2>1. \/ watcher' = [watcher EXCEPT ![q].pc = "concluded"]
        \/ watcher' = [watcher EXCEPT ![q].pc = "gone"]
    BY <1>9, Zenon DEF Conclude
  <2>2. /\ watcher[q].pc = "judged" /\ requested' = requested
        /\ child' = child /\ starter' = starter /\ stopper' = stopper
    BY <1>9, Zenon DEF Conclude
  <2>3. CASE r = q
    BY <2>1, <2>2, <2>3
  <2>4. CASE r # q
    BY <2>1, <2>2, <2>4
  <2> QED
    BY <2>3, <2>4
<1>10. ASSUME NEW q \in Runs, Forget(q) PROVE Just'
  BY <1>10 DEF Forget
<1>11. ASSUME NEW q \in Runs, ReadFails(q) PROVE Just'
  BY <1>11, ReadFailsKeeps
<1>12. ASSUME NEW q \in Runs, Refresh(q) PROVE Just'
  BY <1>12 DEF Refresh
<1>13. ASSUME NEW q \in Runs, Exit(q) PROVE Just'
  BY <1>13 DEF Exit, Running
<1>14. ASSUME NEW q \in Runs, Killed(q) PROVE Just'
  BY <1>14 DEF Killed, Running
<1>15. ASSUME NEW q \in Runs, NEW p \in Products, Save(q, p) PROVE Just'
  BY <1>15 DEF Save, Yields
<1>23. ASSUME NEW q \in Runs, Lose(q) PROVE Just'
  BY <1>23 DEF Lose, Yields
<1>24. ASSUME NEW q \in Runs, Report(q) PROVE Just'
  BY <1>24 DEF Report
<1>16. ASSUME NEW s \in Stoppers, Mark(s) PROVE Just'
  BY <1>16 DEF Mark
<1>17. ASSUME NEW s \in Stoppers, ShowStopping(s) PROVE Just'
  BY <1>17, ShowStoppingKeeps
<1>18. ASSUME NEW s \in Stoppers, Terminate(s) PROVE Just'
  BY <1>18 DEF Terminate
<1>19. ASSUME NEW v \in Viewers, Look(v) PROVE Just'
  BY <1>19 DEF Look
<1>20. ASSUME NEW v \in Viewers, Link(v) PROVE Just'
  BY <1>20 DEF Link
<1>21. CASE Restart
  <2>1. watcher'[r].pc = Cut(watcher[r].pc, {"off", "done"})
    BY <1>21, RestartKeeps
  <2> QED
    BY <2>1 DEF Cut
<1>22. CASE UNCHANGED vars
  BY <1>22 DEF vars
<1> QED
  BY <1>1, <1>2, <1>3, <1>4, <1>5, <1>6, <1>7, <1>8, <1>9, <1>10, <1>11, <1>12, <1>13, <1>14, <1>15, <1>16, <1>17, <1>18, <1>19, <1>20, <1>21, <1>22,
     <1>23, <1>24
     DEF Next, StartStep, WatchStep, StopStep

LEMMA NextRequests == TypeOK /\ LifeInv /\ RequestInv /\ [Next]_vars => RequestInv'
BY NextRequested, NextMarked, NextTold, NextJudged DEF RequestInv

LEMMA NextTrue ==
    TypeOK /\ LifeInv /\ RequestInv /\ EndingIsTrue /\ [Next]_vars => EndingIsTrue'
<1> DEFINE True(r) == registry[r].status \in Final =>
                         /\ child[r].state = "dead"
                         /\ child[r].told => registry[r].status = "stopped"
                         /\ registry[r].status = "stopped" => Asked(r)
<1> SUFFICES ASSUME TypeOK, LifeInv, RequestInv, EndingIsTrue, [Next]_vars, NEW r \in Runs
             PROVE  True(r)'
  BY DEF EndingIsTrue, Asked
<1>0. /\ registry \in [Runs -> Entry] /\ child \in [Runs -> Child]
      /\ starter \in [Runs -> Starters] /\ watcher \in [Runs -> Watcher]
      /\ viewer \in [Viewers -> Viewer] /\ stopper \in [Stoppers -> Stopper]
      /\ Life(r)
  BY DEF TypeOK, LifeInv
<1>00. /\ True(r) /\ (Asked(r) => Asked(r)')
       /\ watcher[r].pc = "judged" =>
             /\ child[r].told => watcher[r].verdict = "stopped"
             /\ watcher[r].verdict = "stopped" => Asked(r)
  BY AskedStays DEF RequestInv, EndingIsTrue, Asked
<1> USE <1>0, <1>00 DEF Life, Entry, Child, Starters, Watcher, Viewer, Stopper, Final
<1>1. ASSUME NEW q \in Runs, Begin(q) PROVE True(r)'
  BY <1>1, BeginKeeps
<1>2. ASSUME NEW q \in Runs, Spawn(q) PROVE True(r)'
  BY <1>2 DEF Spawn, StartFails, Fault
<1>3. ASSUME NEW q \in Runs, Register(q) PROVE True(r)'
  BY <1>3 DEF Register
<1>4. ASSUME NEW q \in Runs, ShowRunning(q) PROVE True(r)'
  BY <1>4, ShowRunningKeeps
<1>5. ASSUME NEW q \in Runs, Watch(q) PROVE True(r)'
  BY <1>5, WatchKeeps
<1>6. ASSUME NEW q \in Runs, ReadLine(q) PROVE True(r)'
  BY <1>6, ReadLineKeeps
<1>7. ASSUME NEW q \in Runs, Reap(q) PROVE True(r)'
  BY <1>7 DEF Reap
<1>8. ASSUME NEW q \in Runs, Judge(q) PROVE True(r)'
  BY <1>8 DEF Judge, Verdict, Final
<1>9. ASSUME NEW q \in Runs, Conclude(q) PROVE True(r)'
  <2>1. watcher[q].pc = "judged" /\ child' = child
    BY <1>9, Zenon DEF Conclude
  <2>2. \/ registry' = [registry EXCEPT ![q] = Ended(@, watcher[q].verdict, watcher[q].items)]
        \/ registry' = registry
    BY <1>9, Zenon DEF Conclude
  <2>3. Ended(registry[q], watcher[q].verdict, watcher[q].items).status = watcher[q].verdict
    BY DEF Ended
  <2>4. registry'[r].status = registry[r].status \/ (r = q /\ registry'[r].status = watcher[r].verdict)
    <3> HIDE DEF Entry, Life
    <3> QED
      BY <2>2, <2>3
  <2> QED
    BY <2>1, <2>4
<1>10. ASSUME NEW q \in Runs, Forget(q) PROVE True(r)'
  BY <1>10 DEF Forget
<1>11. ASSUME NEW q \in Runs, ReadFails(q) PROVE True(r)'
  BY <1>11, ReadFailsKeeps
<1>12. ASSUME NEW q \in Runs, Refresh(q) PROVE True(r)'
  BY <1>12 DEF Refresh
<1>13. ASSUME NEW q \in Runs, Exit(q) PROVE True(r)'
  BY <1>13 DEF Exit, Running
<1>14. ASSUME NEW q \in Runs, Killed(q) PROVE True(r)'
  BY <1>14 DEF Killed, Running
<1>15. ASSUME NEW q \in Runs, NEW p \in Products, Save(q, p) PROVE True(r)'
  BY <1>15 DEF Save, Yields
<1>23. ASSUME NEW q \in Runs, Lose(q) PROVE True(r)'
  BY <1>23 DEF Lose, Yields
<1>24. ASSUME NEW q \in Runs, Report(q) PROVE True(r)'
  BY <1>24 DEF Report
<1>16. ASSUME NEW s \in Stoppers, Mark(s) PROVE True(r)'
  BY <1>16 DEF Mark
<1>17. ASSUME NEW s \in Stoppers, ShowStopping(s) PROVE True(r)'
  BY <1>17, ShowStoppingKeeps
<1>18. ASSUME NEW s \in Stoppers, Terminate(s) PROVE True(r)'
  BY <1>18 DEF Terminate
<1>19. ASSUME NEW v \in Viewers, Look(v) PROVE True(r)'
  BY <1>19 DEF Look
<1>20. ASSUME NEW v \in Viewers, Link(v) PROVE True(r)'
  BY <1>20 DEF Link
<1>21. CASE Restart
  <2>1. registry' = registry /\ child'[r].told = child[r].told
    BY <1>21, RestartKeeps
  <2>2. child[r].state = "dead" => child'[r].state = "dead"
    BY <1>21, RestartKeeps
  <2> QED
    BY <2>1, <2>2
<1>22. CASE UNCHANGED vars
  BY <1>22 DEF vars
<1> QED
  BY <1>1, <1>2, <1>3, <1>4, <1>5, <1>6, <1>7, <1>8, <1>9, <1>10, <1>11, <1>12, <1>13, <1>14, <1>15, <1>16, <1>17, <1>18, <1>19, <1>20, <1>21, <1>22,
     <1>23, <1>24
     DEF Next, StartStep, WatchStep, StopStep

(* How a run is listed as ended is how it ended. *)
THEOREM EndingAlwaysTrue == Spec => []EndingIsTrue
<1>1. Init => EndingIsTrue /\ RequestInv
  BY DEF Init, EndingIsTrue, RequestInv, NoEntry, NoChild, NoWatcher, Final
<1>2. TypeOK /\ LifeInv /\ RequestInv /\ EndingIsTrue /\ [Next]_vars
         => (RequestInv /\ EndingIsTrue)'
  BY NextRequests, NextTrue
<1> QED
  BY <1>1, <1>2, LifeHolds, PTL DEF Spec

-----------------------------------------------------------------------------
(* The numbers.                                                            *)

(* Reading a line moves it from the pipe, writing one adds it. *)
LEMMA ReadingMoves ==
    ASSUME NEW q \in Seq(Lines), q # <<>>
    PROVE  {q[i] : i \in DOMAIN q} = {Head(q)} \cup {Tail(q)[i] : i \in DOMAIN Tail(q)}
<1>1. Len(q) \in Nat \ {0} /\ DOMAIN q = 1..Len(q) /\ Head(q) = q[1]
  OBVIOUS
<1>2. DOMAIN Tail(q) = 1..(Len(q) - 1) /\ \A i \in DOMAIN Tail(q) : Tail(q)[i] = q[i + 1]
  OBVIOUS
<1>3. \A i \in DOMAIN q : i = 1 \/ (i - 1 \in DOMAIN Tail(q) /\ q[i] = Tail(q)[i - 1])
  BY <1>1, <1>2
<1>4. \A i \in DOMAIN Tail(q) : i + 1 \in DOMAIN q
  BY <1>1, <1>2
<1>5. ASSUME NEW i \in DOMAIN q
      PROVE  q[i] \in {Head(q)} \cup {Tail(q)[j] : j \in DOMAIN Tail(q)}
  BY <1>1, <1>3
<1>6. ASSUME NEW i \in DOMAIN Tail(q) PROVE Tail(q)[i] \in {q[j] : j \in DOMAIN q}
  BY <1>2, <1>4
<1>7. Head(q) \in {q[j] : j \in DOMAIN q}
  BY <1>1
<1> QED
  BY <1>5, <1>6, <1>7

LEMMA WritingAdds ==
    ASSUME NEW q \in Seq(Lines), NEW line \in Lines
    PROVE  /\ {Append(q, line)[i] : i \in DOMAIN Append(q, line)} = {q[i] : i \in DOMAIN q} \cup {line}
           /\ Append(q, line) # <<>>
           /\ Len(Append(q, line)) = Len(q) + 1
           /\ \A i \in DOMAIN Append(q, line) :
                 \/ i \in DOMAIN q /\ Append(q, line)[i] = q[i] /\ i # Len(q) + 1
                 \/ i = Len(q) + 1 /\ Append(q, line)[i] = line
<1>1. /\ DOMAIN q = 1..Len(q) /\ DOMAIN Append(q, line) = 1..(Len(q) + 1) /\ Len(q) \in Nat
      /\ Append(q, line)[Len(q) + 1] = line
      /\ \A i \in 1..Len(q) : Append(q, line)[i] = q[i]
      /\ Len(Append(q, line)) = Len(q) + 1 /\ Append(q, line) # <<>>
  OBVIOUS
<1>2. \A i \in 1..(Len(q) + 1) : i \in 1..Len(q) \/ i = Len(q) + 1
  BY <1>1
<1>3. \A i \in 1..Len(q) : i # Len(q) + 1
  BY <1>1
<1> QED
  BY <1>1, <1>2, <1>3

(* The invariant speaks of these values only. *)
LEMMA CountsKept ==
    ASSUME TypeOK, NEW r \in Runs, Counts(r), TypeOK',
           used' = used \/ used'.faults = used.faults \/ used'.faults > 0,
           registry'[r].items = registry[r].items,
           /\ child'[r].saved = child[r].saved /\ child'[r].reported = child[r].reported
           /\ child'[r].pipe = child[r].pipe,
           child'[r].reported => child'[r].saves = child[r].saves /\ child'[r].lost = child[r].lost,
           watcher'[r].seen = watcher[r].seen /\ watcher'[r].items = watcher[r].items,
           watcher'[r].pc # "gone" /\ starter'[r] # "gone" /\ used'.faults = 0 =>
              /\ watcher[r].pc # "gone" /\ starter[r] # "gone"
              /\ child'[r].state = "orphan" => child[r].state = "orphan"
              /\ watcher'[r].pc = "deaf" => watcher[r].pc = "deaf"
              /\ watcher'[r].pc \in {"reaped", "judged", "concluded", "done"} =>
                    \/ watcher[r].pc \in {"reaped", "judged", "concluded", "done"}
                    \/ child[r].pipe = <<>>
    PROVE  Counts(r)'
<1> SUFFICES ASSUME used'.faults = 0, watcher'[r].pc # "gone", starter'[r] # "gone"
             PROVE  Counts(r)'
  BY DEF Counts
<1>1. used.faults = 0
  BY DEF TypeOK
<1>2. InPipe(r)' = InPipe(r)
  BY DEF InPipe
<1>3. child[r].reported => Totals(r)' = Totals(r)
  BY DEF Totals
<1> QED
  BY <1>1, <1>2, <1>3 DEF Counts

LEMMA FaultyCounts == ASSUME used'.faults > 0, used'.faults \in Nat, NEW r \in Runs PROVE Counts(r)'
BY DEF Counts

(* A crawl's own steps. *)
LEMMA CrawlCounts ==
    ASSUME TypeOK, TypeOK', LifeInv, NEW r \in Runs, Counts(r), NEW q \in Runs,
           (\E p \in Products : Save(q, p)) \/ Lose(q) \/ Report(q) \/ Exit(q) \/ Killed(q)
    PROVE  Counts(r)'
<1>0. /\ child \in [Runs -> Child] /\ child[r] \in Child /\ child[q] \in Child
      /\ UNCHANGED <<registry, starter, watcher, used>>
  BY DEF TypeOK, Save, Lose, Report, Exit, Killed
<1>1. CASE Exit(q) \/ Killed(q)
  <2>1. /\ child'[r].saved = child[r].saved /\ child'[r].reported = child[r].reported
        /\ child'[r].pipe = child[r].pipe
        /\ child'[r].saves = child[r].saves /\ child'[r].lost = child[r].lost
        /\ child'[r].state = child[r].state \/ child'[r].state = "dead"
    <3>1. \/ child'[r] = child[r]
          \/ child'[r] = [child[r] EXCEPT !.state = "dead"]
          \/ \E clean : child'[r] = [child[r] EXCEPT !.state = "dead", !.clean = clean]
      BY <1>0, <1>1 DEF Exit, Killed
    <3> QED
      BY <1>0, <3>1 DEF Child
  <2> QED
    BY <1>0, <2>1, CountsKept
<1>2. CASE r # q
  <2>1. child'[r] = child[r]
    BY <1>0, <1>2 DEF Save, Lose, Report, Exit, Killed
  <2> QED
    BY <1>0, <2>1, CountsKept
<1>3. CASE Lose(q) /\ r = q
  <2>1. child'[r] = [child[r] EXCEPT !.lost = @ + 1] /\ ~child[r].reported
    BY <1>0, <1>3 DEF Lose, Yields
  <2>2. /\ child'[r].saved = child[r].saved /\ child'[r].reported = child[r].reported
        /\ child'[r].pipe = child[r].pipe /\ child'[r].state = child[r].state
    BY <1>0, <2>1 DEF Child
  <2> QED
    BY <1>0, <2>1, <2>2, CountsKept
<1>4. ASSUME NEW p \in Products, Save(q, p), r = q
      PROVE  Counts(r)'
  <2>1. /\ child'[r] = [child[r] EXCEPT !.saved = @ \cup {p}, !.saves = @ + 1, !.pipe = Append(@, p)]
        /\ ~child[r].reported /\ child[r].state = "alive"
    BY <1>0, <1>4 DEF Save, Yields
  <2>2. /\ child'[r].saved = child[r].saved \cup {p} /\ ~child'[r].reported
        /\ child'[r].pipe = Append(child[r].pipe, p) /\ child'[r].state = "alive"
    BY <1>0, <2>1 DEF Child
  <2> DEFINE old == child[r].pipe
             new == Append(old, p)
  <2>3. old \in Seq(Lines) /\ p \in Lines /\ p # Summary
    BY <1>0, RunnerAssumption DEF Child, Lines
  <2>4. /\ {new[i] : i \in DOMAIN new} = {old[i] : i \in DOMAIN old} \cup {p}
        /\ \A i \in DOMAIN new : new[i] = p \/ (i \in DOMAIN old /\ new[i] = old[i])
    BY <2>3, WritingAdds
  <2> HIDE DEF new
  <2>6. InPipe(r)' = InPipe(r) \cup {p}
    BY <2>2, <2>4 DEF InPipe, new
  <2>7. (\A i \in DOMAIN old : old[i] # Summary) => \A i \in DOMAIN new : new[i] # Summary
    BY <2>3, <2>4
  <2>8. child'[r].pipe = new /\ new # <<>>
    BY <2>2, <2>3, WritingAdds DEF new
  <2>5. watcher[r].pc \notin {"reaped", "judged", "concluded", "done"}
    BY <2>1 DEF LifeInv, Life
  <2> QED
    BY <1>0, <2>1, <2>2, <2>3, <2>5, <2>6, <2>7, <2>8 DEF Counts
<1>5. CASE Report(q) /\ r = q
  <2>1. /\ child'[r] = [child[r] EXCEPT !.reported = TRUE, !.pipe = Append(@, Summary)]
        /\ ~child[r].reported /\ child[r].state = "alive"
    BY <1>0, <1>5 DEF Report
  <2>2. /\ child'[r].saved = child[r].saved /\ child'[r].reported
        /\ child'[r].pipe = Append(child[r].pipe, Summary) /\ child'[r].state = "alive"
    BY <1>0, <2>1 DEF Child
  <2> DEFINE old == child[r].pipe
             new == Append(old, Summary)
  <2>3. old \in Seq(Lines) /\ Summary \in Lines
    BY <1>0 DEF Child, Lines
  <2>4. /\ {new[i] : i \in DOMAIN new} = {old[i] : i \in DOMAIN old} \cup {Summary}
        /\ Len(new) = Len(old) + 1 /\ new # <<>>
        /\ \A i \in DOMAIN new :
              \/ i \in DOMAIN old /\ new[i] = old[i] /\ i # Len(old) + 1
              \/ i = Len(old) + 1 /\ new[i] = Summary
    BY <2>3, WritingAdds
  <2> HIDE DEF new
  <2>6. InPipe(r)' = InPipe(r) \cup {Summary}
    BY <2>2, <2>4 DEF InPipe, new
  <2>7. (\A i \in DOMAIN old : old[i] # Summary)
           => \A i \in DOMAIN new : new[i] = Summary <=> i = Len(new)
    BY <2>4
  <2>8. child'[r].pipe = new
    BY <2>2 DEF new
  <2>5. watcher[r].pc \notin {"reaped", "judged", "concluded", "done"}
    BY <2>1 DEF LifeInv, Life
  <2> QED
    BY <1>0, <2>1, <2>2, <2>4, <2>5, <2>6, <2>7, <2>8 DEF Counts
<1> QED
  BY <1>1, <1>2, <1>3, <1>4, <1>5

(* A line read: a product counts, the totals replace the count. *)
LEMMA ReadCounts ==
    ASSUME TypeOK, TypeOK', LifeInv, NEW r \in Runs, Counts(r), NEW q \in Runs, ReadLine(q)
    PROVE  Counts(r)'
<1>0. /\ child \in [Runs -> Child] /\ watcher \in [Runs -> Watcher] /\ registry \in [Runs -> Entry]
      /\ child[q] \in Child /\ watcher[q] \in Watcher /\ registry[q] \in Entry
      /\ starter' = starter /\ used' = used
  BY DEF TypeOK, ReadLine
<1>1. CASE r # q
  <2>1. child'[r] = child[r] /\ watcher'[r] = watcher[r] /\ registry'[r] = registry[r]
    BY <1>0, <1>1 DEF ReadLine
  <2> QED
    BY <1>0, <2>1, CountsKept
<1>2. CASE r = q
  <2> SUFFICES ASSUME used.faults = 0, watcher[r].pc # "gone", starter[r] # "gone" PROVE Counts(r)'
    <3>1. watcher'[r].pc = watcher[r].pc
      BY ReadLineKeeps
    <3> QED
      BY <1>0, <3>1 DEF Counts
  <2> DEFINE line == Head(child[r].pipe)
             seen == watcher[r].seen \cup ({line} \ {Summary})
             items == IF line = Summary THEN Totals(r) ELSE Live(Cardinality(seen))
             rest == Tail(child[r].pipe)
  <2>1. watcher[r].pc = "reading" /\ child[r].pipe # <<>> /\ child[r].pipe \in Seq(Lines)
    BY <1>0, <1>2 DEF ReadLine, Child
  <2>2. watcher'[r] = [watcher[r] EXCEPT !.seen = seen, !.items = items]
    BY <1>0, <1>2 DEF ReadLine, Noted
  <2>3. watcher'[r].seen = seen /\ watcher'[r].items = items /\ watcher'[r].pc = "reading"
    <3> HIDE DEF seen, items
    <3> QED
      BY <1>0, <1>2, <2>1, <2>2 DEF Watcher
  <2>4. child'[r] = [child[r] EXCEPT !.pipe = rest]
    BY <1>0, <1>2 DEF ReadLine
  <2>5. /\ child'[r].pipe = rest /\ child'[r].saved = child[r].saved
        /\ child'[r].reported = child[r].reported /\ child'[r].state = child[r].state
        /\ child'[r].saves = child[r].saves /\ child'[r].lost = child[r].lost
    <3> HIDE DEF rest
    <3> QED
      BY <1>0, <1>2, <2>4 DEF Child
  <2>6. registry'[r].items = items
    <3>1. Noted(r).items = items
      <4> HIDE DEF seen, items
      <4>1. Noted(r) = [watcher[r] EXCEPT !.seen = seen, !.items = items]
        BY DEF Noted, seen, items
      <4> QED
        BY <1>0, <1>2, <4>1 DEF Watcher
    <3>2. \E new, linked : registry'[r] = Counted(registry[r], Noted(r).items, new, linked)
      <4> DEFINE new == Head(child[r].pipe) \notin watcher[r].seen
      <4>1. PICK linked : registry' = [registry EXCEPT ![r] = Counted(registry[r], Noted(r).items, new, linked)]
        BY <1>2 DEF ReadLine
      <4>2. registry'[r] = Counted(registry[r], Noted(r).items, new, linked)
        <5> HIDE DEF new
        <5> QED
          BY <1>0, <4>1
      <4> QED
        BY <4>2, Zenon
    <3>3. \A i, new, linked : Counted(registry[r], i, new, linked).items = i
      BY <1>0, <1>2 DEF Counted, Entry
    <3> QED
      BY <3>1, <3>2, <3>3
  <2>7. InPipe(r) = {line} \cup InPipe(r)'
    <3>1. {child[r].pipe[i] : i \in DOMAIN child[r].pipe} =
             {line} \cup {rest[i] : i \in DOMAIN rest}
      BY <2>1, ReadingMoves
    <3>2. InPipe(r)' = {rest[i] : i \in DOMAIN rest}
      BY <2>5 DEF InPipe
    <3> QED
      BY <3>1, <3>2 DEF InPipe
  <2> DEFINE old == child[r].pipe
             n == Len(old)
  <2>8. /\ DOMAIN old = 1..n /\ n \in Nat \ {0} /\ line = old[1]
        /\ Len(rest) = n - 1 /\ DOMAIN rest = 1..(n - 1)
        /\ \A i \in 1..(n - 1) : rest[i] = old[i + 1]
        /\ rest = <<>> <=> n = 1
    <3>1. old \in Seq(Lines) /\ old # <<>>
      BY <2>1
    <3>2. n \in Nat \ {0} /\ rest \in Seq(Lines) /\ Len(rest) = n - 1
      BY ONLY <3>1
    <3>3. \A lines \in Seq(Lines) : lines = <<>> <=> Len(lines) = 0
      OBVIOUS
    <3>4. rest = <<>> <=> n = 1
      <4> HIDE DEF rest, n
      <4> QED
        BY ONLY <3>2, <3>3
    <3> QED
      BY ONLY <3>1, <3>2, <3>4
  <2>9. \A i \in DOMAIN child[r].pipe :
           child[r].pipe[i] = Summary <=> child[r].reported /\ i = Len(child[r].pipe)
    BY <2>1 DEF Counts
  <2>10. line = Summary <=> child[r].reported /\ rest = <<>>
    BY <2>8, <2>9
  <2>11. \A i \in DOMAIN rest : rest[i] = Summary <=> child[r].reported /\ i = Len(rest)
    <3> SUFFICES ASSUME NEW i \in DOMAIN rest
                 PROVE  rest[i] = Summary <=> child[r].reported /\ i = Len(rest)
      OBVIOUS
    <3> HIDE DEF rest, line, n
    <3>1. i \in 1..(n - 1) /\ i + 1 \in 1..n /\ rest[i] = old[i + 1]
      BY <2>8
    <3>2. old[i + 1] = Summary <=> child[r].reported /\ i + 1 = n
      BY <2>8, <2>9, <3>1 DEF n
    <3> QED
      BY <2>8, <3>1, <3>2
  <2>12. items = IF child'[r].reported /\ child'[r].pipe = <<>> THEN Totals(r)'
                 ELSE Live(Cardinality(watcher'[r].seen))
    BY <2>3, <2>5, <2>10 DEF Totals
  <2>13. child'[r].saved = watcher'[r].seen \cup (InPipe(r)' \ {Summary})
    <3>1. child[r].saved = watcher[r].seen \cup (InPipe(r) \ {Summary})
      BY <2>1 DEF Counts
    <3> QED
      BY <2>3, <2>5, <2>7, <3>1
  <2>14. child[r].state # "orphan"
    BY <2>1 DEF Counts
  <2> HIDE DEF line, seen, items, rest
  <2> QED
    BY <2>3, <2>5, <2>6, <2>11, <2>12, <2>13, <2>14 DEF Counts
<1> QED
  BY <1>1, <1>2

(* What is listed at the end is what was listed before. *)
LEMMA ConcludeCounts ==
    ASSUME TypeOK, TypeOK', LifeInv, NEW r \in Runs, Counts(r), NEW q \in Runs, Conclude(q)
    PROVE  Counts(r)'
<1>0. /\ watcher \in [Runs -> Watcher] /\ registry \in [Runs -> Entry]
      /\ watcher[q] \in Watcher /\ registry[q] \in Entry /\ used'.faults \in Nat
  BY DEF TypeOK
<1>1. CASE Fault
  BY <1>0, <1>1, FaultCounts, FaultyCounts
<1>2. CASE ~Fault
  <2>1. /\ registry' = [registry EXCEPT ![q] = Ended(registry[q], watcher[q].verdict, watcher[q].items)]
        /\ watcher' = [watcher EXCEPT ![q].pc = "concluded"]
        /\ watcher[q].pc = "judged" /\ UNCHANGED <<used, child, starter>>
    BY <1>2 DEF Conclude
  <2>2. CASE r # q
    <3>1. registry'[r] = registry[r] /\ watcher'[r] = watcher[r]
      BY <1>0, <2>1, <2>2
    <3> QED
      BY <2>1, <3>1, CountsKept
  <2>3. CASE r = q /\ used.faults = 0
    <3>1. starter[r] = "done"
      BY <2>1, <2>3 DEF LifeInv, Life
    <3>2. registry[r].items = watcher[r].items /\ watcher[r].items \in Numbers
      BY <1>0, <2>1, <2>3, <3>1 DEF Counts, Watcher
    <3> DEFINE n == watcher[r].items
    <3>3. [scraped |-> Or(n.scraped, n.scraped), persisted |-> Or(n.persisted, n.persisted)] = n
      BY <3>2 DEF Or, Numbers
    <3>4. Ended(registry[q], watcher[q].verdict, watcher[q].items).items =
             [scraped |-> Or(n.scraped, registry[r].items.scraped),
              persisted |-> Or(n.persisted, registry[r].items.persisted)]
      BY <1>0, <2>3 DEF Ended, Entry
    <3>5. registry'[r].items = registry[r].items
      BY <1>0, <2>1, <2>3, <3>2, <3>3, <3>4
    <3>6. /\ watcher'[r].seen = watcher[r].seen /\ watcher'[r].items = watcher[r].items
          /\ watcher'[r].pc = "concluded"
      BY <1>0, <2>1, <2>3 DEF Watcher
    <3> QED
      BY <2>1, <2>3, <3>5, <3>6, CountsKept
  <2>4. CASE used.faults # 0
    BY <1>0, <2>1, <2>4, FaultyCounts
  <2> QED
    BY <2>2, <2>3, <2>4
<1> QED
  BY <1>1, <1>2

LEMMA NextCount == TypeOK /\ TypeOK' /\ LifeInv /\ CountInv /\ [Next]_vars => CountInv'
<1> SUFFICES ASSUME TypeOK, TypeOK', LifeInv, CountInv, [Next]_vars, NEW r \in Runs
             PROVE  Counts(r)'
  BY DEF CountInv
<1>0. /\ child \in [Runs -> Child] /\ starter \in [Runs -> Starters]
      /\ watcher \in [Runs -> Watcher] /\ registry \in [Runs -> Entry]
      /\ used'.faults \in Nat /\ Counts(r) /\ Life(r)
  BY DEF TypeOK, LifeInv, CountInv
<1>1. ASSUME NEW q \in Runs, Begin(q) PROVE Counts(r)'
  BY <1>0, <1>1, BeginKeeps, CountsKept
<1>2. ASSUME NEW q \in Runs, Spawn(q) PROVE Counts(r)'
  <2>1. CASE Fault
    BY <1>0, <2>1, FaultCounts, FaultyCounts
  <2>2. CASE ~Fault
    <3>1. /\ UNCHANGED <<registry, watcher, used>> /\ starter[q] = "listed"
          /\ starter' = [starter EXCEPT ![q] = "spawned"]
          /\ child' = [child EXCEPT ![q] = [child[q] EXCEPT !.state = "alive"]]
      BY <1>2, <2>2 DEF Spawn, StartFails
    <3>2. child'[r] = child[r] \/ child'[r] = [child[r] EXCEPT !.state = "alive"]
      BY <1>0, <3>1
    <3>3. /\ child'[r].saved = child[r].saved /\ child'[r].reported = child[r].reported
          /\ child'[r].pipe = child[r].pipe
          /\ child'[r].saves = child[r].saves /\ child'[r].lost = child[r].lost
          /\ child'[r].state = child[r].state \/ child'[r].state = "alive"
      BY <1>0, <3>2 DEF Child
    <3>4. starter'[r] # "gone" => starter[r] # "gone"
      BY <1>0, <3>1
    <3> QED
      BY <1>0, <3>1, <3>3, <3>4, CountsKept
  <2> QED
    BY <2>1, <2>2
<1>3. ASSUME NEW q \in Runs, Register(q) PROVE Counts(r)'
  <2>1. /\ UNCHANGED <<registry, child, watcher, used>>
        /\ starter'[r] # "gone" => starter[r] # "gone"
    BY <1>0, <1>3 DEF Register
  <2> QED
    BY <1>0, <2>1, CountsKept
<1>4. ASSUME NEW q \in Runs, ShowRunning(q) PROVE Counts(r)'
  BY <1>0, <1>4, ShowRunningKeeps, CountsKept
<1>5. ASSUME NEW q \in Runs, Watch(q) PROVE Counts(r)'
  <2>1. /\ UNCHANGED <<registry, child>>
        /\ used' = used \/ used'.faults > 0
        /\ watcher'[r].seen = watcher[r].seen /\ watcher'[r].items = watcher[r].items
        /\ watcher'[r].pc = watcher[r].pc \/ watcher'[r].pc = "reading"
        /\ watcher'[r].pc # "gone" /\ starter'[r] # "gone" =>
              watcher[r].pc # "gone" /\ starter[r] # "gone"
    BY <1>0, <1>5, WatchKeeps DEF Life
  <2> QED
    BY <1>0, <2>1, CountsKept
<1>6. ASSUME NEW q \in Runs, ReadLine(q) PROVE Counts(r)'
  BY <1>0, <1>6, ReadCounts
<1>7. ASSUME NEW q \in Runs, Reap(q) PROVE Counts(r)'
  <2>1. /\ UNCHANGED <<registry, child, starter, used>>
        /\ watcher' = [watcher EXCEPT ![q].pc = "reaped"]
        /\ watcher[q].pc = "deaf" \/ child[q].pipe = <<>>
    BY <1>7 DEF Reap
  <2>2. /\ watcher'[r].seen = watcher[r].seen /\ watcher'[r].items = watcher[r].items
        /\ watcher'[r].pc = watcher[r].pc \/ (r = q /\ watcher'[r].pc = "reaped")
    BY <1>0, <2>1 DEF Watcher
  <2>3. used.faults = 0 /\ watcher[r].pc # "gone" /\ starter[r] # "gone" => watcher[r].pc # "deaf"
    BY <1>0 DEF Counts
  <2>4. used.faults \in Nat
    BY DEF TypeOK
  <2>5. CASE watcher[r].pc = "deaf" /\ r = q
    <3>1. starter[r] = starter'[r] /\ used'.faults = used.faults
      BY <2>1
    <3> QED
      BY <2>3, <2>5, <3>1 DEF Counts
  <2>6. CASE ~(watcher[r].pc = "deaf" /\ r = q)
    <3>1. watcher'[r].pc \in {"reaped", "judged", "concluded", "done"} =>
             \/ watcher[r].pc \in {"reaped", "judged", "concluded", "done"}
             \/ child[r].pipe = <<>>
      BY <2>1, <2>2, <2>6
    <3>2. /\ watcher'[r].pc # "gone" => watcher[r].pc # "gone" \/ r = q
          /\ r = q => watcher[r].pc # "gone"
          /\ watcher'[r].pc = "deaf" => watcher[r].pc = "deaf"
      BY <1>7, <2>2 DEF Reap
    <3>3. /\ child'[r] = child[r] /\ registry'[r] = registry[r] /\ starter'[r] = starter[r]
      BY <2>1
    <3> QED
      BY <1>0, <2>1, <2>2, <3>1, <3>2, <3>3, CountsKept
  <2> QED
    BY <2>5, <2>6
<1>8. ASSUME NEW q \in Runs, Judge(q) PROVE Counts(r)'
  <2>1. /\ UNCHANGED <<registry, child, starter, used>> /\ watcher[q].pc = "reaped"
        /\ watcher' = [watcher EXCEPT ![q].pc = "judged", ![q].verdict = Verdict(q)]
    BY <1>8, Zenon DEF Judge
  <2>2. /\ watcher'[r].seen = watcher[r].seen /\ watcher'[r].items = watcher[r].items
        /\ watcher'[r].pc = watcher[r].pc \/ (r = q /\ watcher'[r].pc = "judged")
    BY <1>0, <2>1 DEF Watcher
  <2> QED
    BY <1>0, <2>1, <2>2, CountsKept
<1>9. ASSUME NEW q \in Runs, Conclude(q) PROVE Counts(r)'
  BY <1>0, <1>9, ConcludeCounts
<1>10. ASSUME NEW q \in Runs, Forget(q) PROVE Counts(r)'
  <2>1. /\ UNCHANGED <<registry, child, starter, used>> /\ watcher[q].pc = "concluded"
        /\ watcher' = [watcher EXCEPT ![q].pc = "done"]
    BY <1>10 DEF Forget
  <2>2. /\ watcher'[r].seen = watcher[r].seen /\ watcher'[r].items = watcher[r].items
        /\ watcher'[r].pc = watcher[r].pc \/ (r = q /\ watcher'[r].pc = "done")
    BY <1>0, <2>1 DEF Watcher
  <2> QED
    BY <1>0, <2>1, <2>2, CountsKept
<1>11. ASSUME NEW q \in Runs, ReadFails(q) PROVE Counts(r)'
  BY <1>0, <1>11, ReadFailsKeeps, FaultyCounts
<1>12. ASSUME NEW q \in Runs,
              Refresh(q) \/ (\E s \in Stoppers : Mark(s)) \/ (\E v \in Viewers : Look(v))
              \/ UNCHANGED vars
       PROVE  Counts(r)'
  <2>1. UNCHANGED <<registry, child, starter, watcher, used>>
    BY <1>12 DEF Refresh, Mark, Look, vars
  <2> QED
    BY <1>0, <2>1, CountsKept
<1>13. ASSUME NEW q \in Runs,
              (\E p \in Products : Save(q, p)) \/ Lose(q) \/ Report(q) \/ Exit(q) \/ Killed(q)
       PROVE  Counts(r)'
  BY <1>0, <1>13, CrawlCounts
<1>14. ASSUME NEW s \in Stoppers, ShowStopping(s) PROVE Counts(r)'
  BY <1>0, <1>14, ShowStoppingKeeps, CountsKept
<1>15. ASSUME NEW s \in Stoppers, Terminate(s) PROVE Counts(r)'
  <2>1. /\ UNCHANGED <<registry, starter, watcher, used>>
        /\ \E told : child'[r] = child[r] \/ child'[r] = [child[r] EXCEPT !.told = told]
    <3> DEFINE q == stopper[s].run
               told == child[q].told \/ child[q].state = "alive"
    <3>1. UNCHANGED <<registry, starter, watcher, used>> /\ child' = [child EXCEPT ![q].told = told]
      BY <1>15, Zenon DEF Terminate
    <3> HIDE DEF q, told
    <3>2. child'[r] = child[r] \/ child'[r] = [child[r] EXCEPT !.told = told]
      BY <1>0, <3>1
    <3> QED
      BY <3>1, <3>2
  <2>2. /\ child'[r].saved = child[r].saved /\ child'[r].reported = child[r].reported
        /\ child'[r].pipe = child[r].pipe /\ child'[r].state = child[r].state
        /\ child'[r].saves = child[r].saves /\ child'[r].lost = child[r].lost
    BY <1>0, <2>1 DEF Child
  <2> QED
    BY <1>0, <2>1, <2>2, CountsKept
<1>16. ASSUME NEW v \in Viewers, Link(v) PROVE Counts(r)'
  <2>1. /\ UNCHANGED <<child, starter, watcher, used>>
        /\ registry' = [registry EXCEPT ![viewer[v].run] =
                           [@ EXCEPT !.linked = TRUE, !.summary = viewer[v].copy.summary]]
    BY <1>16, Zenon DEF Link
  <2>2. registry'[r].items = registry[r].items
    BY <1>0, <2>1 DEF Entry
  <2> QED
    BY <1>0, <2>1, <2>2, CountsKept
<1>17. CASE Restart
  <2>1. /\ child'[r].saved = child[r].saved /\ child'[r].reported = child[r].reported
        /\ child'[r].pipe = child[r].pipe
        /\ child'[r].reported => child'[r].saves = child[r].saves /\ child'[r].lost = child[r].lost
        /\ child'[r].state = "orphan" => child[r].state \in {"alive", "orphan"}
    BY <1>17, RestartKeeps
  <2>2. watcher'[r].pc # "gone" /\ starter'[r] # "gone" =>
           /\ watcher[r].pc # "gone" /\ starter[r] # "gone"
           /\ child[r].state # "alive" /\ watcher'[r].pc = watcher[r].pc
    BY <1>0, <1>17, RestartKeeps DEF Cut, Life, Starters
  <2>3. /\ registry' = registry /\ used'.faults = used.faults
        /\ watcher'[r].items = watcher[r].items /\ watcher'[r].seen = watcher[r].seen
    BY <1>17, RestartKeeps
  <2> QED
    BY <1>0, <2>1, <2>2, <2>3, CountsKept
<1> QED
  BY <1>1, <1>2, <1>3, <1>4, <1>5, <1>6, <1>7, <1>8, <1>9, <1>10, <1>11, <1>12, <1>13, <1>14, <1>15, <1>16, <1>17
     DEF Next, StartStep, WatchStep, StopStep

(* The numbers listed for a run that ended are its crawl's own totals, or, *)
(* when it logged none, the number of different products it reported.      *)
THEOREM ItemsAlwaysCounted == Spec => []ItemsCounted
<1>1. Init => CountInv
  <2> SUFFICES ASSUME Init, NEW r \in Runs PROVE Counts(r)
    BY DEF CountInv
  <2>1. child[r].pipe = <<>> /\ DOMAIN child[r].pipe = {} /\ InPipe(r) = {}
    BY DEF Init, NoChild, InPipe
  <2> QED
    BY <2>1, FS_EmptySet DEF Init, Counts, NoEntry, NoChild, NoWatcher
<1>2. TypeOK /\ LifeInv /\ CountInv => ItemsCounted
  <2> SUFFICES ASSUME TypeOK, LifeInv, CountInv, NEW r \in Runs, Concluded(r), used.faults = 0
               PROVE  registry[r].items = IF child[r].reported THEN Totals(r)
                                          ELSE Live(Cardinality(child[r].saved))
    BY DEF ItemsCounted
  <2>1. watcher[r].pc \in {"concluded", "done"} /\ starter[r] = "done" /\ Counts(r)
    BY DEF Concluded, LifeInv, Life, CountInv, TypeOK, Starters
  <2>2. child[r].pipe = <<>> /\ child[r].saved = watcher[r].seen \cup (InPipe(r) \ {Summary})
    BY <2>1 DEF Counts
  <2>3. InPipe(r) = {}
    BY <2>2 DEF InPipe
  <2> QED
    BY <2>1, <2>2, <2>3 DEF Counts
<1>3. TypeOK /\ LifeInv /\ CountInv /\ [Next]_vars => CountInv'
  BY NextTypes, NextCount
<1> QED
  BY <1>1, <1>2, <1>3, LifeHolds, PTL DEF Spec
=============================================================================
