------------------------------ MODULE DevRunner ------------------------------
(***************************************************************************)
(* The supervisor behind `cargo ice dev`: it watches the Ice and Cargo     *)
(* inputs of one app, and after an edit either rewrites the template file  *)
(* the running app renders from (an in-place view reload) or builds a      *)
(* candidate binary and swaps it in once it has drawn its first frame.     *)
(*                                                                         *)
(* The actors are the developer saving files, the runner thread, and the   *)
(* app processes.  Every read of the disk is a step of its own, so a save  *)
(* can fall between any two of them.  A stamp is a content hash, so it is  *)
(* modelled by the content it hashes.                                      *)
(***************************************************************************)
EXTENDS Naturals, FiniteSets

CONSTANTS
  IceEditions,   \* contents the Ice sources can have
  RustEditions,  \* contents the Rust and Cargo inputs can have
  None,          \* absence of a template, a process or a snapshot
  MaxEdits,      \* bound: saves in one behaviour
  MaxFaults,     \* bound: environment faults in one behaviour
  Undo,          \* whether a save may restore a content already seen
  Undisturbed    \* steps of the runner during which nobody saves

(***************************************************************************)
(* An Ice edition is told apart by whether it checks, whether its view is  *)
(* published as data, the slot table that data needs, the data itself, and *)
(* everything that only compiled Rust carries (handlers, state, tasks).    *)
(* A Rust edition by readability, the build's and the candidate's outcome, *)
(* and the Cargo input graph its manifests describe.                       *)
(***************************************************************************)
ASSUME EditionsAssumption ==
  /\ \A e \in IceEditions :
       /\ DOMAIN e = {"checks", "published", "slots", "json", "handlers"}
       /\ e.checks \in BOOLEAN /\ e.published \in BOOLEAN
  /\ \A r \in RustEditions :
       /\ DOMAIN r = {"readable", "builds", "starts", "graph"}
       /\ r.readable \in BOOLEAN /\ r.builds \in BOOLEAN /\ r.starts \in BOOLEAN

ASSUME BoundsAssumption ==
  MaxEdits \in Nat /\ MaxFaults \in Nat /\ Undo \in BOOLEAN

Content == [ice: IceEditions, rust: RustEditions]

Process ==
  [bin: Content, reads: BOOLEAN, shown: IceEditions \cup {None},
   state: {"starting", "drawn", "dead"}]

ASSUME NoneAssumption == None \notin IceEditions \cup Process

Files == {"ice", "rust"}
Graphs == {r.graph : r \in RustEditions}

VARIABLES
  disk,      \* what the inputs hold now
  saved,     \* every content the inputs have held
  edits,     \* saves so far
  notified,  \* paths whose change event is queued in the watcher
  stop,      \* an interrupt was received
  faults,    \* environment faults so far
  pc,        \* the next step of the runner thread
  scan,      \* the watcher's answer being processed
  graph,     \* cargo_inputs
  observed,  \* observed_stamps
  snap,      \* the settled stamps, then the candidate's
  db,        \* the Ice edition retained by the analysis database
  built,     \* what the last cargo build compiled
  live,      \* live_template, as the edition it was published from
  file,      \* the edition in the template file
  app,       \* the adopted process
  cand       \* the restart candidate

Publishable(e) == e.checks /\ e.published   \* view_template answers Some

env    == <<disk, saved, edits, notified>>
memory == <<scan, graph, observed, snap, db, built, live>>
procs  == <<app, cand>>
vars   == <<env, stop, faults, pc, memory, file, procs>>

Steps ==
  {"initGraph", "initCompile", "initStamp", "initBuild", "initObserve",
   "initStage", "initPublish", "initSpawn", "idle", "settle", "graph",
   "compile", "rejected", "recheck", "confirm", "regraph", "offer", "build",
   "observe", "stage", "publish", "spawn", "await", "swap", "done"}

Scan == [full: BOOLEAN, paths: SUBSET Files]

TypeOK ==
  /\ disk \in Content /\ saved \subseteq Content /\ edits \in 0 .. MaxEdits
  /\ notified \subseteq Files /\ stop \in BOOLEAN /\ faults \in 0 .. MaxFaults
  /\ pc \in Steps /\ scan \in Scan /\ graph \in Graphs
  /\ observed \in Content /\ snap \in Content /\ built \in Content
  /\ db \in IceEditions
  /\ live \in {e \in IceEditions : Publishable(e)} \cup {None}
  /\ file \in IceEditions \cup {None}
  /\ app \in Process \cup {None} /\ cand \in Process \cup {None}

Init ==
  /\ disk \in Content
  /\ saved = {disk} /\ edits = 0 /\ notified = {}
  /\ stop = FALSE /\ faults = 0
  /\ pc = "initGraph"
  /\ scan = [full |-> TRUE, paths |-> Files]
  /\ graph = disk.rust.graph
  /\ observed = disk /\ snap = disk /\ built = disk
  /\ db = disk.ice
  /\ live = None /\ file = None
  /\ app = None /\ cand = None

-----------------------------------------------------------------------------
(***************************************************************************)
(* The developer and the environment.                                      *)
(***************************************************************************)

Content1(f, c) ==   \* one save replaces one file
  CASE f = "ice"  -> {[c EXCEPT !.ice = e]  : e \in IceEditions \ {c.ice}}
    [] f = "rust" -> {[c EXCEPT !.rust = r] : r \in RustEditions \ {c.rust}}

Save(f) ==
  /\ pc \notin {"done"} \cup Undisturbed /\ edits < MaxEdits
  /\ \E c \in Content1(f, disk) :
       /\ Undo \/ c \notin saved
       /\ disk' = c
       /\ saved' = saved \cup {c}
  /\ edits' = edits + 1
  /\ notified' \in {notified, notified \cup {f}}   \* the event may be lost
  /\ UNCHANGED <<stop, faults, pc, memory, file, procs>>

Interrupt ==
  /\ ~stop /\ pc # "done"
  /\ stop' = TRUE
  /\ UNCHANGED <<env, faults, pc, memory, file, procs>>

Fault ==   \* the environment refuses one operation, or names an unknown input
  /\ faults < MaxFaults
  /\ faults' = faults + 1

-----------------------------------------------------------------------------
(***************************************************************************)
(* Template publication.  `view_template` analyses the sources on disk     *)
(* again, whatever snapshot the rest of the iteration is about.            *)
(***************************************************************************)

SameSlotsMutant(a, b) == TRUE

SameSlots(a, b) == a.slots = b.slots

(***************************************************************************)
(* publish_template: an edition that cannot be published, or a file that   *)
(* cannot be written, leaves the runner in rebuild-and-restart mode.       *)
(***************************************************************************)
PublishTemplateMutant ==   \* publishes whatever was analysed last
  /\ db' = disk.ice /\ file' = disk.ice /\ live' = disk.ice
  /\ UNCHANGED faults

PublishTemplate ==
  /\ db' = disk.ice
  /\ \/ /\ Publishable(disk.ice)
        /\ file' = disk.ice /\ live' = disk.ice
        /\ UNCHANGED faults
     \/ /\ ~Publishable(disk.ice)
        /\ live' = None
        /\ UNCHANGED <<file, faults>>
     \/ /\ Publishable(disk.ice) /\ Fault
        /\ live' = None
        /\ UNCHANGED file

Spawned(state) ==
  [bin |-> built, reads |-> live # None, shown |-> None, state |-> state]

-----------------------------------------------------------------------------
(***************************************************************************)
(* The initial build: repeat until one build compiled what the stamps saw. *)
(***************************************************************************)

CargoGraph == disk.rust.graph                        \* cargo_input_graph

BuildSucceeds == disk.ice.checks /\ disk.rust.builds  \* cargo_build

Killed(p) == IF p = None THEN None ELSE [p EXCEPT !.state = "dead"]

Exit ==   \* the process ends; ChildGuard's Drop kills what it still owns
  /\ pc' = "done"
  /\ app' = Killed(app)
  /\ cand' = None

InitGraph ==
  /\ pc = "initGraph"
  /\ graph' = CargoGraph
  /\ IF stop THEN Exit ELSE pc' = "initCompile" /\ UNCHANGED procs
  /\ UNCHANGED <<env, stop, faults, scan, observed, snap, db, built, live, file>>

InitCompile ==
  /\ pc = "initCompile"
  /\ db' = disk.ice
  /\ IF disk.ice.checks THEN pc' = "initStamp" /\ UNCHANGED procs ELSE Exit
  /\ UNCHANGED <<env, stop, faults, scan, graph, observed, snap, built, live, file>>

InitStamp ==
  /\ pc = "initStamp"
  /\ snap' = disk
  /\ pc' = IF CargoGraph = graph THEN "initBuild" ELSE "initGraph"
  /\ UNCHANGED <<env, stop, faults, scan, graph, observed, db, built, live, file, procs>>

InitBuild ==
  /\ pc = "initBuild"
  /\ built' = disk
  /\ IF ~stop /\ BuildSucceeds
     THEN pc' = "initObserve" /\ UNCHANGED procs
     ELSE Exit
  /\ UNCHANGED <<env, stop, faults, scan, graph, observed, snap, db, live, file>>

InitObserve ==
  /\ pc = "initObserve"
  /\ observed' = disk
  /\ \/ pc' = (IF disk = snap THEN "initStage" ELSE "initGraph") /\ UNCHANGED faults
     \/ pc' = "initGraph" /\ Fault   \* cargo reported an input without a stamp
  /\ UNCHANGED <<env, stop, scan, graph, snap, db, built, live, file, procs>>

InitPublish ==
  /\ pc = "initStage"
  /\ PublishTemplate
  /\ pc' = "initSpawn"
  /\ UNCHANGED <<env, stop, scan, graph, observed, snap, built, procs>>

InitSpawn ==
  /\ pc = "initSpawn"
  /\ app' = Spawned("starting")
  /\ pc' = "idle"
  /\ UNCHANGED <<env, stop, faults, memory, file, cand>>

InitFault ==   \* failed metadata, cargo, staging copy or spawn ends the run
  /\ pc \in {"initGraph", "initStamp", "initBuild", "initStage", "initSpawn"}
  /\ Fault /\ Exit
  /\ UNCHANGED <<env, stop, memory, file>>

Initial ==
  \/ InitFault \/ InitGraph \/ InitCompile \/ InitStamp \/ InitBuild \/ InitObserve
  \/ InitPublish \/ InitSpawn

-----------------------------------------------------------------------------
(***************************************************************************)
(* The supervising loop.  Idle decides that an iteration is over without   *)
(* recording anything; Accept records stamps as dealt with.                *)
(***************************************************************************)

Idle == pc' = "idle"

Stamped(paths) ==   \* stamps reread for paths, reused from observed otherwise
  [ice  |-> IF "ice"  \in paths THEN disk.ice  ELSE observed.ice,
   rust |-> IF "rust" \in paths THEN disk.rust ELSE observed.rust]

LoopExit ==
  /\ pc = "idle"
  /\ \/ (stop \/ app.state = "dead") /\ UNCHANGED faults
     \/ Fault   \* try_wait
  /\ Exit
  /\ UNCHANGED <<env, stop, memory, file>>

(***************************************************************************)
(* wait_for_change answers with the queued paths or with a full rescan: a  *)
(* rescan follows a new watch set, an overflowed queue and every 30        *)
(* seconds, so one may come at any iteration.                              *)
(***************************************************************************)
Wait ==
  /\ pc = "idle" /\ ~stop /\ app.state # "dead"
  /\ \/ /\ scan' = [full |-> TRUE, paths |-> Files]
        /\ notified' \in {notified, {}}
     \/ /\ notified # {}
        /\ scan' = [full |-> FALSE, paths |-> notified]
        /\ notified' = {}
  /\ snap' = Stamped(scan'.paths)
  /\ pc' = IF snap' = observed THEN "idle" ELSE "settle"
  /\ UNCHANGED <<disk, saved, edits, stop, faults, graph, observed, db, built,
                 live, file, procs>>

Settle ==   \* the second read, and first_unreadable_input
  /\ pc = "settle"
  /\ LET second == Stamped(scan.paths) IN
       /\ pc' = CASE second # snap -> "idle"
                  [] second = snap /\ ~second.rust.readable -> "idle"
                  [] OTHER -> IF second.rust = observed.rust THEN "compile" ELSE "graph"
       /\ observed' = IF second = snap /\ ~second.rust.readable THEN second ELSE observed
  /\ UNCHANGED <<env, stop, faults, scan, graph, snap, db, built, live, file, procs>>

(***************************************************************************)
(* The Cargo input graph is read before compiling and again before the     *)
(* edit is acted on; a changed graph restarts the iteration with the new   *)
(* watch set, a graph that cannot be read keeps the current app.           *)
(***************************************************************************)
RefreshGraph(at, next) ==
  /\ pc = at
  /\ \/ /\ CargoGraph = graph
        /\ pc' = next
        /\ UNCHANGED <<faults, graph, observed>>
     \/ /\ CargoGraph # graph
        /\ graph' = CargoGraph
        /\ Idle
        /\ UNCHANGED <<faults, observed>>
     \/ /\ Fault
        /\ observed' = snap
        /\ Idle
        /\ UNCHANGED graph
  /\ UNCHANGED <<env, stop, scan, snap, db, built, live, file, procs>>

(***************************************************************************)
(* compile_dev_with_db: a full rescan analyses the disk; a change batch    *)
(* installs the bytes of its settled read and reuses the rest as retained. *)
(***************************************************************************)
Compile ==
  /\ pc = "compile"
  /\ db' = CASE scan.full -> disk.ice
             [] ~scan.full /\ "ice" \in scan.paths -> snap.ice
             [] OTHER -> db
  /\ pc' = IF db'.checks THEN "recheck" ELSE "rejected"
  /\ UNCHANGED <<env, stop, faults, scan, graph, observed, snap, built, live, file, procs>>

RejectedMutant ==   \* forgets to record the rejected stamps
  /\ pc = "rejected"
  /\ Idle
  /\ UNCHANGED <<env, stop, faults, memory, file, procs>>

(***************************************************************************)
(* A compile error is recorded if the stamps still hold; not if the        *)
(* rejected edition names files nobody watches, which are watched first.   *)
(***************************************************************************)
Rejected ==
  /\ pc = "rejected"
  /\ \/ /\ observed' = IF disk = snap THEN snap ELSE observed
        /\ UNCHANGED faults
     \/ Fault /\ UNCHANGED observed
  /\ Idle
  /\ UNCHANGED <<env, stop, scan, graph, snap, db, built, live, file, procs>>

Recheck ==   \* candidate_stamps against the settled stamps
  /\ pc = "recheck"
  /\ pc' = IF disk = snap THEN "confirm" ELSE "idle"
  /\ UNCHANGED <<env, stop, faults, memory, file, procs>>

Confirm ==   \* and once more, 50 milliseconds later
  /\ pc = "confirm"
  /\ pc' = CASE disk # snap -> "idle"
             [] disk = snap /\ snap.rust # observed.rust -> "regraph"
             [] OTHER -> "offer"
  /\ UNCHANGED <<env, stop, faults, memory, file, procs>>

-----------------------------------------------------------------------------
(***************************************************************************)
(* The in-place reload, offered before any build.                          *)
(***************************************************************************)

ViewOnly(candidate) ==   \* the code's whole test for "no compiler needed"
  /\ live # None
  /\ Publishable(candidate)
  /\ SameSlots(candidate, live)
  /\ candidate.json # live.json

Reload ==
  /\ pc = "offer"
  /\ ViewOnly(disk.ice)
  /\ db' = disk.ice
  /\ \/ /\ file' = disk.ice /\ live' = disk.ice
        /\ observed' = snap
        /\ Idle
        /\ UNCHANGED faults
     \/ /\ Fault   \* the file cannot be written: rebuild instead
        /\ pc' = "build"
        /\ UNCHANGED <<file, live, observed>>
  /\ UNCHANGED <<env, stop, scan, graph, snap, built, procs>>

NoReload ==
  /\ pc = "offer"
  /\ ~ViewOnly(disk.ice)
  /\ db' = IF live = None THEN db ELSE disk.ice
  /\ IF live # None /\ ~disk.ice.checks
     THEN observed' = snap /\ Idle
     ELSE pc' = "build" /\ UNCHANGED observed
  /\ UNCHANGED <<env, stop, faults, scan, graph, snap, built, live, file, procs>>

-----------------------------------------------------------------------------
(***************************************************************************)
(* The shadow build and the restart.                                       *)
(***************************************************************************)

Build ==   \* cargo reads the inputs; a failed build is recorded
  /\ pc = "build"
  /\ built' = disk
  /\ \/ /\ ~stop /\ BuildSucceeds
        /\ pc' = "observe"
        /\ UNCHANGED <<faults, observed, procs>>
     \/ /\ ~stop
        /\ (~BuildSucceeds /\ UNCHANGED faults) \/ Fault
        /\ observed' = snap /\ Idle
        /\ UNCHANGED procs
     \/ /\ stop
        /\ Exit
        /\ UNCHANGED <<faults, observed>>
  /\ UNCHANGED <<env, stop, scan, graph, snap, db, live, file>>

ObserveMutant ==   \* trusts the build
  /\ pc = "observe"
  /\ pc' = "stage"
  /\ UNCHANGED <<env, stop, faults, memory, file, procs>>

Observe ==   \* build_observation_reuses_snapshot
  /\ pc = "observe"
  /\ \/ pc' = (IF disk = snap THEN "stage" ELSE "idle") /\ UNCHANGED faults
     \/ Idle /\ Fault   \* cargo reported an input without a stamp
  /\ UNCHANGED <<env, stop, memory, file, procs>>

Stage ==
  /\ pc = "stage"
  /\ \/ /\ pc' = "publish"
        /\ UNCHANGED <<faults, observed>>
     \/ /\ Fault
        /\ observed' = snap /\ Idle
  /\ UNCHANGED <<env, stop, scan, graph, snap, db, built, live, file, procs>>

Publish ==
  /\ pc = "publish"
  /\ PublishTemplate
  /\ pc' = "spawn"
  /\ UNCHANGED <<env, stop, scan, graph, observed, snap, built, procs>>

Spawn ==
  /\ pc = "spawn"
  /\ \/ /\ cand' = Spawned("starting")
        /\ pc' = "await"
        /\ UNCHANGED <<faults, observed>>
     \/ /\ Fault
        /\ observed' = snap /\ Idle
        /\ UNCHANGED cand
  /\ UNCHANGED <<env, stop, scan, graph, snap, db, built, live, file, app>>

(***************************************************************************)
(* wait_ready: the candidate's own token in its own ready file, with the   *)
(* candidate still alive after it was read.  The 30 second timeout, an     *)
(* early exit and an interrupt all drop the candidate and record the edit. *)
(***************************************************************************)
ReadyMutant == cand.state # "dead"

Ready == cand.state = "drawn"

AwaitReady ==
  /\ pc = "await" /\ Ready
  /\ pc' = "swap"
  /\ UNCHANGED <<env, stop, faults, memory, file, procs>>

DropCandidateMutant ==   \* forgets the child when it gives up on it
  /\ observed' = snap
  /\ Idle
  /\ UNCHANGED cand

DropCandidate ==
  /\ cand' = None
  /\ observed' = snap
  /\ Idle

AwaitFailed ==
  /\ pc = "await"
  /\ \/ (stop \/ cand.state = "dead" \/ ~cand.bin.rust.starts) /\ UNCHANGED faults
     \/ cand.state = "starting" /\ Fault   \* a start slower than the timeout
  /\ DropCandidate
  /\ UNCHANGED <<env, stop, scan, graph, snap, db, built, live, file, app>>

Swap ==   \* terminate the old process, then adopt the candidate
  /\ pc = "swap"
  /\ \/ /\ app' = cand /\ cand' = None
        /\ observed' = snap /\ Idle
        /\ UNCHANGED faults
     \/ /\ Fault   \* the old process cannot be killed, or not be waited for
        /\ DropCandidate
        /\ app' \in {app, Killed(app)}
  /\ UNCHANGED <<env, stop, scan, graph, snap, db, built, live, file>>

-----------------------------------------------------------------------------
(***************************************************************************)
(* The app processes.  A process given ICE_TEMPLATE_PATH renders the       *)
(* published file, any other its embedded template; a redraw follows when  *)
(* the 150 ms watch sees the file move.                                    *)
(***************************************************************************)

Rendered(p) == IF p.reads /\ file # None THEN file ELSE p.bin.ice

Draw(p) == [p EXCEPT !.shown = Rendered(p), !.state = "drawn"]

AppDraw ==
  /\ app # None /\ app.state # "dead" /\ app.bin.rust.starts
  /\ Draw(app) # app
  /\ app' = Draw(app)
  /\ UNCHANGED <<env, stop, faults, pc, memory, file, cand>>

CandidateDraw ==   \* the first draw publishes the readiness token
  /\ cand # None /\ cand.state # "dead" /\ cand.bin.rust.starts
  /\ Draw(cand) # cand
  /\ cand' = Draw(cand)
  /\ UNCHANGED <<env, stop, faults, pc, memory, file, app>>

AppFailsToStart ==
  /\ app # None /\ app.state = "starting" /\ ~app.bin.rust.starts
  /\ app' = [app EXCEPT !.state = "dead"]
  /\ UNCHANGED <<env, stop, faults, pc, memory, file, cand>>

AppExits ==   \* closed by the user, or crashed
  /\ app # None /\ app.state # "dead"
  /\ Fault
  /\ app' = [app EXCEPT !.state = "dead"]
  /\ UNCHANGED <<env, stop, pc, memory, file, cand>>

CandidateExits ==
  /\ cand # None /\ cand.state # "dead"
  /\ (~cand.bin.rust.starts /\ UNCHANGED faults) \/ Fault
  /\ cand' = [cand EXCEPT !.state = "dead"]
  /\ UNCHANGED <<env, stop, pc, memory, file, app>>

Runner ==
  \/ Initial
  \/ LoopExit \/ Wait \/ Settle
  \/ RefreshGraph("graph", "compile")
  \/ Compile \/ Rejected \/ Recheck \/ Confirm
  \/ RefreshGraph("regraph", "offer")
  \/ Reload \/ NoReload \/ Build \/ Observe \/ Stage \/ Publish \/ Spawn
  \/ AwaitReady \/ AwaitFailed \/ Swap

Apps ==
  \/ AppDraw \/ CandidateDraw
  \/ AppFailsToStart \/ AppExits \/ CandidateExits

Next == (\E f \in Files : Save(f)) \/ Interrupt \/ Runner \/ Apps

(***************************************************************************)
(* The runner thread is never blocked for good: every wait in it has a     *)
(* timeout.  A process the operating system runs draws its frames.         *)
(***************************************************************************)
Fairness ==
  /\ WF_vars(Runner)
  /\ WF_vars(AppDraw) /\ WF_vars(CandidateDraw)
  /\ WF_vars(AppFailsToStart)

Spec == Init /\ [][Next]_vars /\ Fairness

-----------------------------------------------------------------------------
(***************************************************************************)
(* Safety.                                                                 *)
(***************************************************************************)

NeverUndone == Cardinality(saved) = edits + 1   \* every save was news

(* A binary that gets as far as staging compiled exactly the content the   *)
(* runner settled on, although cargo read the disk long after the stamps   *)
(* were taken: this is what build_observation_reuses_snapshot is for.  It  *)
(* compares hashes, so a save that is undone while cargo reads escapes it. *)
BuildMatchesStamps ==
  NeverUndone /\ pc \in {"stage", "publish", "spawn", "await", "swap"}
    => built = snap

(* The running app is only ever replaced by a candidate that has drawn its *)
(* first frame; no failed check, build, spawn, start or timeout and no     *)
(* interrupt during the wait touches it (dev.rs keeps "the current app     *)
(* open", ChildGuard::restart terminates it last).                         *)
LastKnownGood ==
  [][(app # None /\ app' # app /\ pc' # "done")
       => \/ app'.bin = app.bin /\ app'.reads = app.reads
          \/ cand # None /\ app' = cand /\ cand.shown # None]_vars

(* No process outlives its owner: a candidate exists only while the runner *)
(* is waiting for it or swapping it in, and a runner that returned has     *)
(* left neither a candidate nor a live app behind.                         *)
NoOrphans ==
  /\ pc \notin {"await", "swap"} => cand = None
  /\ pc = "done" => cand = None /\ (app = None \/ app.state = "dead")

-----------------------------------------------------------------------------
(***************************************************************************)
(* Liveness.                                                               *)
(***************************************************************************)

(* Once the developer stops saving, the runner deals with the last content *)
(* and comes to rest: no edit is lost between the settled reads, the       *)
(* rechecks and the build, and none is rebuilt for ever, whether it is     *)
(* rejected, fails to build or fails to start.                             *)
EveryEditObserved == <>[](pc = "done" \/ (observed = disk /\ pc = "idle"))

Runs(c) ==   \* the app embodies c: same code, and it shows c's view
  /\ app # None
  /\ app.bin.rust = c.rust
  /\ app.bin.ice.handlers = c.ice.handlers
  /\ app.shown # None /\ app.shown.json = c.ice.json

(* When every edition is sound and every change outside the view also      *)
(* changes the slot table, the app ends up running and showing the last    *)
(* saved content.                                                          *)
Converges == <>[](pc = "done" \/ Runs(disk))

-----------------------------------------------------------------------------
(***************************************************************************)
(* Promises of the documentation that the loop does not keep.              *)
(***************************************************************************)

Reloads == pc = "offer" /\ file' # file

(* docs/tooling.md: the file is rewritten "when the running binary still   *)
(* fills the slot table the new view asks for".  The loop compares with    *)
(* live_template, which a failed restart leaves describing the binary that *)
(* did not start.                                                          *)
ReloadFitsRunningBinary == [][Reloads => SameSlots(file', app.bin.ice)]_vars

(* docs/tooling.md: "every other accepted edit starts a shadow candidate". *)
(* The loop reloads in place whenever the view data changed under an       *)
(* unchanged slot table, and records the rest of the edit as dealt with.   *)
ReloadIsViewOnly ==
  [][Reloads => /\ app.bin.ice.handlers = file'.handlers
                /\ app.bin.rust = observed'.rust]_vars
=============================================================================
