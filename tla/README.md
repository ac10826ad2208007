# Verification of ice / ducktape-ui in TLA+

ice is a UI language: `.ice` sources are checked and compiled to Rust by
`ui-lang-core`, run on iced through `ui-lang-runtime`, or run as a guest
component (`ui-lang-guest`) whose tree a host renders (`ui-lang-runtime`'s
`view_tree`, with `examples/app-store/host` as the host). `cargo ice` is the
tool around them; `cargo ice dev` keeps an app running while it is edited.

Most of the repository is pure translation and presentation. This directory
models the parts where *state meets time*: processes, messages, renders and
tasks that interleave, fail and arrive late. TLC checks the models on small
instances; TLAPS proves some of their invariants for every instance.

## 1. Inventory

Each component below is listed with its state, its operations, what it talks
to, what is hard about it, and what makes it correct. `PROJECT.json` lists all
of them, with the source files and the reason where one is not modelled.

| Component | State | Operations | Interacts with | Hard part | Correct means |
|---|---|---|---|---|---|
| Dev runner (`cargo-ice/src/dev.rs`, `dev/process.rs`) | settled snapshot, observed stamps, analysis db, live template, running app, candidate | initial build; wait, settle, compile, recheck, reload in place, build, stage, publish, spawn, await readiness, swap | watcher, cargo, the app and candidate processes, the template file | files change while they are read and built; a candidate crashes, hangs or is slow; any step fails alone; an interrupt at any point | the running app is replaced only by one that has drawn; nothing is orphaned; every edit is dealt with, and built from what was checked |
| Dev inputs and watcher (`dev/inputs.rs`, `dev/watcher.rs`) | cargo input graph, stamps; debounce and backend | settled double read, stamp reuse; native and polling watch | dev runner | lost or overflowing notifications | an edit is seen even if its event is not |
| Dev side of the app (`ui-lang-runtime/src/dev.rs`, `template.rs`) | readiness token, current template | first draw publishes the token; 150 ms watch rereads the template | dev runner | which of two processes reads which template | a process renders a template its slot table fits |
| Editor transaction lane (`view_tree/editor_transactions.rs`, `editor.rs`) | per document: queue of inputs, control (pending request, bypassed claim), phase, deadline, fault | admit, replay natively or ask, decide, commit, acknowledge, time out, fault, adopt a tree | guest binding by events and frames | an input lives over several ticks while trees, documents and widgets change | inputs commit in order, once each, in the document they were typed into; a faulted lane says so |
| Guest editor binding (`ui-lang-guest/src/editor_binding.rs`, `editor.rs`, `slots.rs`) | the program's `Editor`, pending decisions, responses, outgoing document message | apply request, commit, interaction, fault, cancel, document message | host lane, the guest program | the program may store an older clone of the document back | the guest's text and the host's agree version by version; a decision is released |
| Editor document transfer (`view_tree/editor_documents.rs`, `ui-lang-guest/src/editor_documents.rs`, `ui-lang-wire/src/editor_document.rs`) | per direction a transfer of frames | fetch, mirror, chunk, complete, fail | both of the above | one message per frame; a transfer is abandoned by either side | a rendered document arrives or is known to have failed |
| Effect delivery lanes (`ui-lang-core/src/codegen/statement.rs`, `application.rs`) | per instance: generation, abort handle | `run latest`, `run replace`, `stream replace`, `invalidate`, delivery of outputs | iced's event loop and executor, or the guest driver | results arrive after they were superseded | exactly the newest call is heard; superseded work stops |
| Mounted components and boot (`ui-lang-runtime/src/lib.rs`, `boot.rs`, `codegen/view/content.rs`, `statement/view_fn.rs`) | stored entries, sightings, root to prune, boot marks and queue | render, layout, prune, boot | as above | deferred builders mount during layout, windows render in turn | state lives exactly while shown; one boot per appearance |
| Generated-output publishing (`ui-lang-build/src/lib.rs`) | generation lock, generated files, manifest, one staging directory per transaction | read the roots, lock, clean up, load or recover, compile, stage, commit file by file, prune | other builds of the package, other `compile_dir` calls of the same build script, the developer | a process killed, or a call failing, between two renames; two builds at once; an output skipped because an older manifest says it is there | what a manifest says is on disk is; an interrupted commit is discarded whole; one directory's outputs outlive another's publication |
| Guest driver frames, patches, memo (`ui-lang-guest/src/lib.rs`, `host.rs`, `memo.rs`, `ui-lang-wire`, `view_tree.rs`) | last root, handler tables, request registry, tasks left over | tick: dispatch, deliver replies, settle tasks, view, diff; resync | host | a task is asked, answered and dropped in any order; a refused frame is gone | a patch is applied to the tree it was made from |
| Guest instance in the app store host (host `store.rs`, `guest_view.rs`) | last tree, queued inputs, answers due, timers, tickers, widget operations, fault | redraw, tick, merge, answer, cancel, mount, trap, restart, close | guest driver, iced's loop, the store | a tree superseded before it is mounted; a guest that is quiet is not ticked; a restart that loads twice | each request is kept at one place and answered; inputs run once and in order |
| Guest snapshot and host reload (`ui-lang-guest/src/snapshot.rs`, host `reload.rs`, `store.rs`, `library.rs`) | captured state, candidate and its first frame | capture, restore, first frame, checks, swap, pin | guest driver, the executor | the app goes on while the candidate is compiled and restored | nothing the app had begun is lost or done twice |
| Lazy and revision memo (`memo_lazy.rs`, `rev_memo.rs`, `rev.rs`) | cached value and revision | read, bump | views | stale cache | cached equals computed |
| Compiler, formatter, analysis db, LSP, reports, templates, codecs | the sources | pure functions, one request at a time | dev runner, editors | size, not time | tested by golden files |
| Widgets, virtual lists, tray, component library | layout and focus | single-threaded event handling | iced | float arithmetic | tested against references |

### How the parts interact

The dev runner and the app share only the template file, the readiness file and
process state. A host and a guest share nothing: the host calls `tick` with the
events it has queued and gets one frame back. Inside one app, the event loop
runs a batch of messages, then builds every window's view, then lays it out;
tasks run beside it and their outputs queue for a later batch.

## 2. Modules

| Module | Models | Composes |
|---|---|---|
| `DevRunner` | `run` of `dev.rs` as a program counter, one action per step; the app, the candidate and the developer as other actors | |
| `DevRunnerProofs` | theorems about `DevRunner` | extends `DevRunner` |
| `MCDevRunner` | the editions (contents of the sources) TLC chooses from | extends `DevRunner` |
| `Filter` | the elements of a sequence that are in a set, in order | |
| `FilterProofs` | what filtering keeps, and induction over sequences | extends `Filter` |
| `EditorWire` | what host and guest exchange, whose turn it is | |
| `EditorHost` | the lane, control, faults and transfers on the host | extends `EditorWire` |
| `EditorGuest` | the binding and slots in the guest, and the guest's program | extends `EditorWire` |
| `EditorSession` | both together, fairness, properties | extends both |
| `EditorProofs` | theorems about it: types, epochs, faults, the order of commits | extends `EditorSession`, `FilterProofs` |
| `EditorMirrorProofs` | theorems about the two copies of the document and the decisions that bar a snapshot | extends `EditorProofs` |
| `MCEditorSession` | symmetry of the widgets | extends it |
| `DeliveryLanes` | generated component state, its lane, views and the event loop around them, native and tree | |
| `DeliveryLanesProofs` | theorems about its gate and its answers | extends `DeliveryLanes` |
| `DeliveryMountProofs` | theorems about the life of mounted instances | extends `DeliveryLanesProofs` |
| `MCDeliveryLanes` | windows, scopes and programs for TLC | extends it |
| `GenerationStore` | abstract: a directory of generations that follow one another at once | |
| `GenerationPublish` | `compile_dir` as a process, one action per change of the shared directory | implements `GenerationStore` |
| `GenerationProofs` | theorems about it, the refinement among them | extends `GenerationPublish` |
| `MCGenerationPublish` | roots, texts and what they generate, for TLC | extends it |
| `SurfaceInput` | abstract: what a window promises to the person in front of it | |
| `GuestSurface` | one window of the app store: the driver, the host's `Guest`, the mounted view, restart and replacement | implements `SurfaceInput` |
| `GuestSurfaceProofs` | theorems about it, the refinement among them | extends `GuestSurface`, `FilterProofs` |
| `MCGuestSurface` | the module TLC is given | extends it |

### DevRunner

`env` is the developer: `disk` (a pair of an `.ice` edition and the rest of the
inputs), the contents saved so far, and how many saves. `memory` is what the
loop's locals hold: the input graph, `snap` (the settled snapshot of this
iteration), `observed` (`observed_stamps`), `db` (the analysis database's
edition), `built` (what cargo compiled), `live` (`live_template`). `file` is the
published template, `app` and `cand` the processes. Contents stand for hashes,
so equal contents are equal stamps.

Every `continue`, `break` and `?` of `run` is a value of `pc` or a disjunct:
`Wait` (with events, without, or with an error), `Settle`, `RefreshGraph` (twice,
as in the code), `Compile`, `Rejected`, `Recheck`, `Confirm`, `Reload`,
`NoReload`, `Build`, `Observe`, `Stage`, `Publish`, `Spawn`, `AwaitReady`,
`AwaitFailed`, `Swap`, and the start-up chain. `Save` can happen between any two
of them, cargo reads the disk during `Build`, `publish_template` reads it again.
`Fault` is one failure of the environment, spent from `MaxFaults`: a read, a
start, a `try_wait` or a build that fails for no reason of the sources, an input
cargo reports that the graph did not know, a watch set that changed while a
candidate was rejected. A process that is terminated may be dead although its
wait failed (`Killed`).

Not in the model: the parsing of anything, the number of retries inside the
settled read, paths, the text of diagnostics, the wall clock (a timeout is a
step that may happen).

### EditorWire, EditorHost, EditorGuest, EditorSession

One document, rendered by any of the widgets in `Keys`, which a guest's program
can remount, replace, turn read-only or store back older. A `Doc` is the epoch
(`reset`), the text revision (`trev`), the revision (`rev`) and the text, which
is named by where it was last written. `turn` runs through the parts of a tick
in the code's order:

1. the host collects `events` (`BeginTick`, `store.rs` `tick`);
2. the guest handles them one by one (`GuestEvent`: request, commit,
   interaction, fault, cancel, document message), then renders (`View`, which
   takes the responses and the one document message);
3. the host adopts the tree (`Adopt`), handles documents (`Documents`,
   `Progress`), the decisions (`Answer`) and ends the frame (`EndTick`).

Between ticks the host's widgets admit input (`Admit`), replay the front of the
lane on a redraw (`Replay`, `Pop`) and deadlines pass (`Deadline`).

Abstractions, each named at its definition: one document (lanes of different
documents share nothing but the frame); the native field's text equals the
control's document between redraws; byte limits are an overflow that may happen
to whatever carries text; a program keeps at most one clone of the current
epoch, taken whenever it likes, and may store it back;
a deadline may pass at any moment; `u64` serials do not run out; chunks of a
transfer are `TransferFrames` frames; the cursor follows the revision; a frame
that repeats the last tree adopts idempotently; frames are never refused.

### DeliveryLanes

A `program` is a kind of generated code: target (native, tree), storage
(mounted, retained), lane mode (`latest`, `replace`, `stream`). `stored`,
`generation`, `handle` are the entries of the component's store;
`active`, `pending`, `booted`, `nextGen` are the fields of
`MountedComponentState`; `queue` is `__ice_boot_queue`; `ui` is what each window
shows and which boots its root still holds.

`Interact` is an event that reaches a window's widgets (and its boots),
`StartBatch` and `StartTick` begin a batch natively and in a guest, `Update` and
`Settle` handle one message, `Render` builds one window, `Relayout` runs deferred
builders without a view, `Open`/`Close` are a daemon's windows, `Yield` is a
task's output. A lane of the app itself is the lane of a retained instance that
is always there. Generations do not wrap. `runs`, `current`, `seen` and `heard`
are history variables and guard nothing but the bounds.

iced's event loop is vendored in `src/vendor/iced_winit`; `Interact`,
`StartBatch`, `Update` and `Render` follow it. It matters that a batch of
messages without a window event calls `UserInterface::update` with no events and
then rebuilds, and that a stale user interface is rebuilt without a message. A
window opens with no message waiting: the messages of a redraw may wait in the
code, but neither reads what the other writes, so the window may as well have
opened first.

### GenerationStore, GenerationPublish

A build script is a *builder* whose `pc` names the place in `compile_dir_at`.
The order of the actions is that of the code: `Scan` (the roots below the
directory, before anything is locked), `Acquire`, `CleanUp` (leftover
transactions), `Load` (the manifest, if all it names is on disk and can be read;
otherwise, also after a read error, every generated file is removed one by one,
`Sweep`), `Open` (the staging
directory), `Compile` (the whole compilation up to the last staged output, or
its failure), `Commit` (obsolete outputs are computed), `Replace` and
`RemoveObsolete` one file at a time, `WriteManifest`, `Finish`. `Fail` is an
error return at any place and `Crash` a kill at any place: the kernel drops the
lock, and the staging directory stays. A builder may run again, with another
directory: `examples/showcase/build.rs` calls `compile_dir` twice.

Abstractions: a digest is the content it is taken of; a missing manifest is the
blank one (the code also writes a blank one, and neither keeps a file); the
scan of the roots is one step; outputs are replaced in any order (the code's is
that of a map); leftovers of an atomic write are among the leftovers of a
transaction; what a root imports is read under the lock, so a text stands for
the root with its imports; the transaction of `compile` (one root) is that of
`compile_dir` without siblings; the sidecar files of tree tests are single
atomic writes and not part of a generation.

`GenerationStore` has a generation `gen`, whether it is `whole`, and the
`writer` that is changing it. `GenerationPublish` implements it with `gen` as
the manifest, `whole` as the manifest's own check against the files, and
`writer` as the holder of the lock between its first replaced file and its
manifest. The store allows what the code does to a generation it cannot read: it
is given up although it may be whole (`Abandon`, the first file removed) and
then gone (`Discard`), but never while a writer replaces it.

### SurfaceInput, GuestSurface

`guest` is the driver of the instance behind the window: the inputs it has run,
the tree it remembers (`last_root`), the requests with a slot in its registry,
the tasks its round budget left over. `held`, `pending`, `resync`, `due`,
`sleeping`, `widgets`, `streams` are the fields of the host's `Guest`; `staged`,
`requests`, `cancels` the frame a replacement was prepared with; `mounted`,
`rounds` what iced has and how often it redrew in one event; `reload` the
replacement being prepared on the executor and `presses` the restarts being
loaded there.

`Redraw` is one `GuestView::update` that ticks: inputs, answers and tickers go
in, `Turns` lets the program do anything a program can (finish or leave tasks,
make a request, drop a task, show a tree), `Ticked` is the driver afterwards,
`Merges` the host's decision on the frame (whole, patched, unchanged; accepted,
redrawn, or refused with a resync), `Answered` the requests, then the cancels,
then the widget operations in the code's order, `Redrawn` iced's immediate
rebuild, at most twice in a row. `Skip` is a redraw with nothing due or one of
an app that rests. `Trap` is a tick that traps. `RedrawStaged` is the first
redraw of a replacement, `Wake` a timer, `Rebuild` the store rebuilding its
view, `Close` the window's end. `Press` and `RestartGuest` are the two halves of
a restart; `StartReload`, `Capture`, `Prepare`, `Refuse` and `Commit` those of a
replacement (`reload.rs`). Executor steps happen between any two steps of the
window thread, under the lock of the shared `Guest`.

Abstractions: two equal trees stand for equal handler tables; one replacement
is under way at a time, and a newer request makes the older one's result
ignored; the ticks in which documents are transferred to a candidate are folded
into the turn that ends them; the tick counter of the capture is *ticked since*
(`moved`); the frame revision of a mounted view is *up to date or not*; kinds of
request are how they are answered (at once, later, by the widget tree, many
times, not at all). The clipboard answers within the redraw; a window command
and a one-shot request for a system theme still unknown wait like a timer
(`sleeping`: kept, cancelled and dropped in the same way), but `Wake` is only
fair because time passes, so `AnswerArrives` speaks of timers and not of them.
A `terminal.events` of an app without a terminal is kept nowhere and never
answered (`store.rs:1000`); the model has no such request. An app is busy when
its round budget left a task unfinished; that a burst of messages or a deferred
boot makes it busy too (`ui-lang-guest/src/lib.rs:343`) is left out. `EditorTree`
stands for whatever the host may refuse, patches that do not apply included
(those of this driver do: `HeldIsBase`). That an editor's
input is pending is a replacement given up. The limits, fuel, pictures, the bus
between apps and the native back-end are left out; a closed window's instance is
looked at only for what it ran.

The frame of `EditorSession` is never refused and that of `GuestSurface` carries
no editor messages: each models what the other leaves aside, and the obstacle
they share (a snapshot waits for pending decisions) is `BarrierIsHeld` and
`BarrierHasOwner`.

`SurfaceInput` knows the inputs run so far, those queued, their number and
whether the app ended. An entry 0 of `guest.done` is an input dispatched through
the tables of a newer tree than the one it was made on; the driver drops an
index it never handed out (`ui-lang-guest/src/lib.rs:175`) but an index that is
in the newer tables runs what is there now. The mapping counts such inputs as
nobody's.

## 3. What TLC checks

| Run | Question | Bounds |
|---|---|---|
| `DevRunnerSafety` | with editions that fail to check, build, start or be read, and an environment fault: `TypeOK`, `BuildMatchesStamps`, `NoOrphans`, `LastKnownGood`, and `EveryEditObserved` (the runner deals with the last content and rests) | 2 saves, undone or not, 1 fault, 3 × 5 editions |
| `DevRunnerConverges` | sound editions: the app ends up running and showing the last save (`Converges`) | 3 saves, no fault, none while the template is analysed again |
| `DevRunnerReloadFits` | finding: a view edit reaches a binary with another slot table | 3 saves |
| `DevRunnerViewOnly` | finding: a handler edit is swallowed by an in-place reload | 1 save |
| `EditorLane` | two widgets on one document: `TypeOK`, `MirrorInStep`, `PendingNamesFront`, `InputsStayInEpoch`, `BarrierIsHeld`, `NoSilentFault`, `CommitsInOrder` | lane of 2, 2 attempts, serials to 4, one replacement, one remount |
| `EditorProgress` | one widget whose program stores an older clone back once and turns the editor read-only once: `MirrorInStep`, `VersionsAgree`, `InputsStayInEpoch`, `NoSilentFault`, `CommitsInOrder`, and the liveness of `LaneProgresses` and `DocumentArrives` | one widget, serials to 3, one remount |
| `EditorCancel`, `EditorBarrier` | findings (section 5) | one widget, serials to 3 |
| `DeliveryLanes` | five kinds of program: `TypeOK`, `GateIsExact`, `NewestIsAnswered`, `AbandonedWorkStops`, `BootsOnce`, `BootReachesGuest`, `StateKept`, `FreshOnReturn` | 2 windows, 2 scopes, one deferred, 2 calls, 2 messages, 2 changes of the view |
| `DeliveryBoot` | finding: a boot is dropped with its root | 1 window, 1 scope |
| `GenerationPublish` | builders that overlap, fail and are killed while sources change: `TypeOK`, `StagingIsKept`, `UnstagedIsInPlace`, `PublishedIsWhatWasRead`, and `ImplementsStore` (the refinement) | 2 builders, 2 directories of one root each, 3 texts (one does not compile), 2 files per root |
| `GuestSurface` | an app is refused, superseded, answered, trapped, restarted and replaced under its user: `TypeOK`, `HeldIsBase`, `AwaitedIsHeld`, `KeptIsAwaited`, `RetiresNoWork`, `ImplementsSession` (the refinement), and the liveness of `AnswerArrives` | 2 inputs, 1 request per instance, 2 instances, 2 restarts, 2 trees, one with an editor |

**Why the bounds are enough.** Two saves let one arrive during the handling of
another in each step of the runner, and a third lets the runner act on what the
second left (the findings need it). One fault reaches every error path; two
would only repeat a path after an idle state. A lane of 2 overflows, and with
serials to 4 an input is admitted after one was faulted, committed or dropped;
2 attempts are the retry and its exhaustion; one replacement separates two
epochs, which is all that references compare. Two calls make one superseded
result; two changes of the view hide and show an instance again; two windows
make the root that is pruned differ from the one that renders; one deferred
scope is the reason pruning is late. Two builders are one that publishes and one
that waits, was killed, or published before; every hazard of the publisher is
between two. One root per directory and two files let a group appear,
disappear and keep its content while its neighbour changes, and the two
directories keep each other's files. No bound limits saves, builds or crashes:
the state space is finite without one. It is symmetric in the builders, which
is sound because the run checks no liveness. Two inputs can be told apart in
order and number; one request per instance passes through every place a request
can be at, and its id comes again in the second instance; two instances are one
replaced or restarted; two restarts are the one that comes too late; of two
trees one can be refused.

**Fairness.** *DevRunner*: weak fairness of the runner, because each of its waits
has a timeout; of the processes' draws and of a start that fails, which the
operating system schedules. No fairness of saves, faults or interrupts.
*EditorSession*: weak fairness of the steps of a tick; strong fairness of
`Replay`, because the redraw a lane asked for comes before ticks run out, and of
a `View` that is not busy, because a guest that stays busy for ever is one whose
tasks never end. `LaneProgresses` excepts a read-only editor and a program
that has stored an older clone back: the commit a guest refuses because of it
waits for the next replacement, which nothing promises.
*DeliveryLanes* checks no liveness: a window may simply get no event.
*GenerationPublish* assumes none. *GuestSurface*: weak fairness of `Redraw` and
`RedrawStaged`, because a mounted view with something due asks iced for the next
redraw itself (`guest_view.rs`); of `Rebuild`, because a redraw that changed the
tree publishes a message and each message ends in a rebuild; of `Wake`, because
time passes. No fairness of the user, of traps, of the executor, or of what an
app does with an answer.

**Deadlock** is off in every run: the bounded behaviours end (the runner returns;
saves, inputs, calls and changes are spent).

**Conditions inside properties.** `MirrorInStep` excepts a program that has
stored an older clone of its `Editor` back (`NeverRolledBack`): it has itself
taken the step away, and a mirror transfer repairs it. `PendingNamesFront`
excepts one that has made the document read-only (`NeverFlipped`): a claimed key
that is dropped there leaves its request behind (`editor_transactions.rs:685`).
`BarrierIsHeld` excepts both, because either leaves a decision that nobody
waits for: the repair in the way `EditorBarrier` shows, the dropped key because
the next request takes its place while the guest still answers for it. All
three are unconditional in the run `EditorLane`, where a program does neither.
`BuildMatchesStamps` excepts behaviours in
which a save is undone: the code compares hashes, so content that changes and
changes back while cargo reads is invisible to it. `BootsOnce` and
`FreshOnReturn` except scopes a native deferred builder shows: such a boot waits
in the queue for the next view of any window, and can then run for an instance
that has left and come back. `AnswerArrives` ends with a window that is closed or
an app that trapped, and a task the app drops counts as answered; a subscription
may stay silent.
`AbandonedWorkStops` asks for removal only in
trees, which prune with the view; natively the entry lives until the next view by
design (`lib.rs`, "Pruning happens one pass late"), and that of a closed
daemon window for ever.

## 4. What TLAPS proves

*DevRunner* (`DevRunnerProofs`), for every set of editions and every number of
saves and faults:

- `TypeCorrect`: `Spec => []TypeOK`; inductive as it stands.
- `NoOrphansCorrect`: `Spec => []NoOrphans`. Not inductive: a runner may only
  return from places where it holds no candidate. The invariant adds *Owned*
  (a candidate exists exactly from `Spawn` to the end of the wait or the swap)
  and *HasDrawn*.
- `LastKnownGoodCorrect`: `Spec => LastKnownGood`, an action property. *HasDrawn*
  says that in `swap` the candidate has shown a frame, because only `AwaitReady`
  leads there and a candidate never forgets what it has drawn.
- `BuildMatches`: `Spec => []BuildMatchesStamps`. *Counted* says that there are
  at most as many contents as saves and the one at the start, so a save of a
  content seen before ends `NeverUndone` for good; *Rechecked* that the settled
  snapshot was once on the disk; *Compiled* that after cargo's read the disk can
  only be the settled content again if it never changed.

*EditorSession* (`EditorProofs`, `EditorMirrorProofs`), for every set of widgets,
lane length, number of attempts, epochs, roll-backs, remounts and changes of the
editable flag:

- `TypeCorrect`: `Spec => []TypeOK`. Not inductive: the deadline waits again for
  a request that was asked before, so its attempt has to be in range whenever
  there is one (*Tried*).
- `InputsStayInEpochCorrect`: `Spec => []InputsStayInEpoch`. The invariant
  *Epochs* says it in every step of a tick, *Targeted* says that the transfer
  under way is of the document the tree renders (so that installing it makes
  the rendered document available and no other), *Shaped* that the document is
  the record of its fields.
- `NoSilentFaultCorrect`: `Spec => []NoSilentFault`, inductive as it stands:
  each step that ends between ticks with a faulted lane has reported it or swept
  the owner.
- `CommitsInOrderCorrect`: `Spec => CommitsInOrder`. What the program hears is
  ordered because of what is under way: *CommitLast* (one commit, behind every
  request), *Flying* (it is that of the oldest input, leads to the canonical
  document, and the lane rests until the guest has had it) and *Heard* (every
  input still queued is newer than all the guest has heard of). These need
  *Queued* (inputs are in the order of their numbers, which filtering keeps:
  `AmongOrder`), *Phasing* and *Posed* (what each phase knows of the request),
  *Opened* (a document is available exactly when it is loaded in the epoch of
  its widgets) and *Turns* (what is empty at which part of a tick). Together
  with the types they are *LInv*, the invariant the following build on.
- `PendingNamesFrontCorrect`: `Spec => []PendingNamesFront`, with *Front*, which
  says that without a read-only tree no step drops an input alone.
- `VersionsAgreeCorrect`: `Spec => []VersionsAgree`, whatever
  clone of the epoch the program stores back. *VInv* follows the text wherever it travels: *Uploads* (a transfer to the
  host carries the Editor it was asked for), *Held* (a repair asked for, or still
  to be asked for, would install the text of the version it names), *Versions*
  (the host is never behind the guest in its epoch), *Clones* (nor a stored clone
  ahead of the Editor), *OnePart* (one part of a repair at a time) and *Asked*
  (nobody knows of a later attempt than the lane, so an old repair is told from
  a new one).
- `MirrorInStepCorrect`: `Spec => []MirrorInStep`. *Together* says it in every
  step of a tick, and that a program that never stored a clone back never asks
  for a repair: each request finds the Editor as it was asked about (*Current*)
  and each commit fits (*Following*, *Claimed*).
- `BarrierIsHeldCorrect`: `Spec => []BarrierIsHeld`. *Barring* follows a decision
  to its end: a request or gesture under way is the one the lane waits on
  (*Posing*, *Gesturing*), what is decided has reached the guest before the host
  lets go of it (*Reporting*), and what adopt gives up is cancelled (*Owned*).

The provers have no induction over sequences with an operator as a parameter.
`FilterProofs` derives it for a set instead (`Induction`, `SequenceInduction`:
a property is the set of the numbers or sequences that have it, and the least
number without it would contradict the step) from the well-foundedness of `<`,
and proves what `Among` computes for every sequence: its recursion is well-founded
(`UpToDef`), it commutes with appending and concatenation, keeps types, the
first element and the order. That is why the models filter with `Among` and not
with `SelectSeq`.

*DeliveryLanes* (`DeliveryLanesProofs`), for every set of windows, finite set of
scopes, kind of program and number of calls, messages and changes of the view:

- `TypeCorrect`: `Spec => []TypeOK`; inductive as it stands.
- `GateExact`: `Spec => []GateIsExact`. Not inductive: a generation that was
  issued must never come again, and the handler of a run's last output must not
  leave an output of that run behind. *Issued* bounds every generation by the
  clock it was counted from, which is the component's when entries are pruned
  (an entry's own count restarts at 0) and the entry's when they are not;
  *Counted* says what an absent entry holds; *Sealed* orders the batch and the
  channel, *Finished* and *OneTaskPerRun* say the same of tasks; *TreeDirect*
  says that a guest handles outputs as they arrive, so that there is one order.
- `NewestAnswered`: `Spec => []NewestIsAnswered`, on top of the exact gate: what
  the gate discards is not what the lane waits for. *Answered* adds that the
  answer is of the scope that waits, so that pruning another one keeps it.

and in `DeliveryMountProofs`, on the same terms:

- `StateStays`: `Spec => StateKept`. *Placed* says where things are: what a
  window shows was sighted in it and is under its root, boots of instances built
  with the root are in that root, and a guest has one window that holds no boots
  while it ticks. *Sighted*: what was sighted has its mark, and natively the last
  view's window is what the active set is about. So what a view drops was
  sighted nowhere.
- `FreshReturns`: `Spec => FreshOnReturn`. *Remembered*: whatever is kept of an
  instance, or waits for it in the batch, belongs to one that is sighted or to
  one that the next view drops (the pruning one pass late).
- `BootsAtMostOnce`: `Spec => []BootsOnce`. *Once*: of each boot there is one, in
  one root or in the batch or it has run; a new one is only queued when the mark
  is gone, and then the instance is sighted nowhere.
- `GuestBoots`: `Spec => []BootReachesGuest`. *Reached*: in a guest each mark is
  that of an instance on screen that booted or is about to. That a native app
  can lose a boot is difference 5 of the next section.
- `WorkStops`: `Spec => []AbandonedWorkStops`. *Held*: a lane that aborts holds
  the handle of its newest call and only that runs; with the exact gate the
  task's entry is there, with *Remembered* it is sighted, with *Reached* shown.

*GenerationPublish* (`GenerationProofs`), for every set of builders, directories,
roots, texts and contents, and every map of texts to files:

- `TypeCorrect`: `Spec => []TypeOK`; inductive as it stands.
- `StagingKept`, `UnstagedInPlace`, `PublishedAsRead`: the three invariants of
  the run. Together they need *OneHolder* (a builder past `Acquire` holds the
  lock), *ReadsBelow* (what it read is below its directory) and *InPhase*,
  which says for each phase how files, manifest, staged and obsolete outputs
  are related: before the first replaced file the disk is what `Load` left;
  from then on each output is staged, obsolete, or as the new manifest says.
- `Implements`: `Spec => ImplementsStore`. Each of the publisher's steps is a
  stutter of the store but for the first replaced file (`Unsettle`), the
  manifest (`Publish`), an end in between (`Interrupt`) and recovery: the
  first file removed of a whole generation that could not be read (`Abandon`),
  and the manifest (`Discard`); the lemma *InPlaceIsWritten* is what makes the manifest's check
  succeed when it is written.

*GuestSurface* (`GuestSurfaceProofs`), for every set of trees and every number of
inputs, requests, instances and presses:

- `TypeCorrect`: `Spec => []TypeOK`; inductive as it stands.
- `BaseHeld`: `Spec => []HeldIsBase`; inductive with the types, the work being
  in the cases of a frame (*TickBase*).
- `WorkRetired`: `Spec => RetiresNoWork`. The invariant *Unmoved* says that a
  captured instance not ticked since has no task but subscriptions and nothing
  left over, which is what the swap relies on without asking again.
- `AwaitedHeld`, `KeptAwaited`: the invariant has four parts. *Places*: each
  waiting request is at exactly one place, and timers, streams and operations
  are kept only for waiting requests; *Numbered*: ids at any place are below the
  next one, so a new request is nowhere yet; *FirstFrame*: what a candidate
  waits for was asked in its first frame, and what it dropped was not;
  *NoneHeld*: an instance that never ran, or whose staged frame is still to
  come, has nothing elsewhere.
- `Implements`: `Spec => ImplementsSession`. A tick and the last one of a closed
  window are `Run` (*RanNamed*: what the handlers run is what the mapping counts
  as waiting), a trap is `End`, a restart `Restart`, and the swap of a replacement
  is a stutter, which is the point. The invariant it needs is *Caught*: a
  candidate has run what the instance has that it was captured from, as long
  as that was not ticked, and nothing is queued for an app that trapped.

The assumptions are the named ones on the constants (`EditionsAssumption`,
`BoundsAssumption`, `NoneAssumption`, `WireAssumption`, `GuestAssumption`,
`HostAssumption`, `LanesAssumption`, `SourcesAssumption`, `TreesAssumption`,
`InstancesAssumption`); TLC evaluates each in a passing run. `NoneAssumption`
says that *no request* (the code's `None`) is not a request.

Only model-checked: all liveness (`EveryEditObserved`, `Converges`,
`LaneProgresses`, `DocumentArrives`, `AnswerArrives`), which needs ENABLED. Every
safety invariant and action property of a passing run, and both refinements, are
theorems. What runs refute has no theorem: `BarrierHasOwner` holds only under the
conditions of `BarrierIsHeld`.

## 5. Where code and documents differ

Each is a run that TLC refutes; `PROJECT.json` quotes the line.

1. **A failed restart leaves the next in-place reload with the wrong template**
   (`DevRunnerReloadFits`): `live_template` and the file already describe the
   candidate that did not start.
2. **A handler edit saved together with a view edit is never built**
   (`DevRunnerViewOnly`): the in-place branch compares slots and view data only.
3. **A committed input is also reported cancelled** (`EditorCancel`):
   `control.pending` outlives the commit by a tick and `adopt` runs first.
4. **A decision is never released after a mirror repair and a replacement**
   (`EditorBarrier`): the guest remembers attempt 1, the cancellation names 2.
5. **A boot can be lost** (`DeliveryBoot`): see `boot.rs:106`.

Smaller observations without a run: `publish_template` analyses the disk again
after the build was compared with the stamps, so a save in between publishes a
newer edition's template next to the older binary (`Undisturbed` names those
steps); a boot queued by a deferred builder waits for the next view and may be
published by another window. After a claimed key is dropped in a read-only
editor (`editor_transactions.rs:685`) its request is still the lane's, and the
next native edit commits with it as origin, although the wire says an unclaimed
native edit has none (`editor_transaction.rs:323`). If another claimed key comes
first, its request takes the place of the one left behind, nothing names the old
decision again, and the guest refuses snapshots from then on.

In generated-output publishing: the roots are read before the lock is taken, so
of two overlapping builds the one that read first may publish last; a recovery
in the second `compile_dir` call of a build script removes every generated file
but compiles only its own directory again, although `SPEC.md:145` speaks of a
full regeneration; any error while the manifest or an output is read starts that
recovery (`lib.rs:689`), so a passing read error discards a whole generation; a report of `schema.rs` names manifest schema 2 where
`ui-lang-build/src/lib.rs:15` writes 3.

In the app store host: an input on a superseded tree is dispatched through the
newer tables (see `SurfaceInput`); the README of the app store says a window is
blank after a refused patch, the code keeps the last tree
(`store.rs:1241`); the decisions and document messages of a refused frame are
lost with it (`store.rs:1251`); a restart takes the catalog entry before it loads,
so that one begun before a replacement can, after another trap, bring the old
version back under the new pin (`store.rs:123`); answers and bus deliveries for
subscriptions that are due at a swap are dropped (`reload.rs:261`); requests past
the limit of a frame are not answered, although the wire promises exactly one
answer (`ui-lang-wire/src/lib.rs:219`).

## 6. Not modelled, and why

Parsing, checking, lowering, code generation, formatting, codecs, templates and
reports are pure functions of text, beyond what a bounded check says anything
about. Widgets, virtual lists and scroll anchoring are sequential and use
floats. The tray, the test driver, the examples and the vendored crates carry no
logic of their own (iced's event loop is modelled where the lanes meet it).
Chunked transfers and the watcher's back-ends are the rest of the plan. The diff
of two trees, its application, memo tables and the snapshot codec are pure
functions of trees; the models say which tree they are given and what comes out.
The app store's catalogue, consent and pins are sequential handlers over one
list.

## 7. Plan

In order of importance; each ends with a run and, where marked, a theorem.

1. `DevRunner`, 2. `EditorSession`, 3. `DeliveryLanes`: done as above.
4. `DeliveryLanesProofs`, `DeliveryMountProofs`: done for every property of the
   run `DeliveryLanes`.
5. `GenerationStore`, `GenerationPublish`, `GenerationProofs`: done, with the
   refinement proved.
6. `SurfaceInput`, `GuestSurface`, `GuestSurfaceProofs`: done; frames, refusals,
   restart and replacement in one module, because the hazards are between them.
   Next: the bus between apps, limits on requests, and the pin of a replacement.
7. `EditorTransfer`: chunks, completion and failure of one transfer, refining the
   atomic transfer of `EditorSession`.
8. `DevWatcher`: native and polling watch with debounce and overflow, refining the
   lossy watcher of `DevRunner`.
9. Theorems for the modules to come, their refinements first.
