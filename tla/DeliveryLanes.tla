---------------------------- MODULE DeliveryLanes -----------------------------
(***************************************************************************)
(* Generated component state and its delivery lane.                        *)
(*                                                                         *)
(* A component instance, named by its scope, owns one lane: `run latest`,  *)
(* `run replace` or `stream replace`, with `invalidate`.  Its state is     *)
(* created by its first message and lives as long as the app (retained) or *)
(* while the view shows it (mounted); a mounted instance boots when it is  *)
(* first seen.  Views render one window at a time between batches of       *)
(* messages, tasks run beside them.  A lane of the app itself is that of a *)
(* retained instance which is always there.                                *)
(***************************************************************************)
EXTENDS Naturals, Sequences, FiniteSets, SequencesExt

CONSTANTS
  Windows, Scopes,
  Home,         \* the window whose root scope a scope is under
  Deferred,     \* scopes a native deferred builder shows, during layout
  None,         \* absence
  Programs,     \* the kinds of program checked
  MaxRuns,      \* bound: tasks started and invalidations in a behaviour
  MaxMessages,  \* bound: messages and outputs waiting at one time
  MaxChanges    \* bound: changes of what the view shows

Kinds == [target: {"native", "tree"}, storage: {"mounted", "retained"},
          mode: {"latest", "replace", "stream"}]

ASSUME LanesAssumption ==
  /\ IsFiniteSet(Scopes) /\ Home \in [Scopes -> Windows] /\ Deferred \subseteq Scopes
  /\ None \notin Windows /\ None \notin Nat
  /\ Programs \subseteq Kinds
  /\ MaxRuns \in Nat /\ MaxMessages \in Nat /\ MaxChanges \in Nat

VARIABLES
  program,     \* what was generated; never changes
  wanted,      \* the scopes the view shows in the app's present state
  changes,     \* how often that has changed
  opened, open, roomy,  \* windows ever, now, and with room for Deferred ones
  stored, generation, handle,       \* values: the entries and their lane
  active, pending, booted, nextGen, \* MountedComponentState
  queue,       \* __ice_boot_queue
  ui,          \* per window: what it shows, and the boots its root holds
  messages, busy, todo,  \* the batch, is it being run, windows to rebuild
  tasks, channel,        \* running tasks, and outputs on their way
  \* History: tasks started, the newest one of each lane whose result is
  \* due, scopes sighted since the window's view, and boots that ran.
  runs, current, seen, heard

app == <<program, wanted, changes>>
store == <<stored, generation, handle>>
mounted == <<active, pending, booted, nextGen, queue>>
windows == <<opened, open, roomy>>
loop == <<messages, busy, todo>>
work == <<tasks, channel>>
vars == <<app, windows, store, mounted, ui, loop, work,
          runs, current, seen, heard>>

IsTree == program.target = "tree"
IsMounted == program.storage = "mounted"
Aborts == program.mode # "latest"
Streams == program.mode = "stream"

Task == [scope: Scopes, gen: Nat, run: Nat]
Output == [kind: {"lane"}, scope: Scopes, gen: Nat, run: Nat, last: BOOLEAN]
Message == [kind: {"event", "boot"}, scope: Scopes] \cup [kind: {"app"}]
             \cup Output

Init ==
  /\ program \in Programs
  /\ wanted = Scopes /\ changes = 0
  /\ opened = {} /\ open = {} /\ roomy = {}
  /\ stored = {}
  /\ generation = [s \in Scopes |-> 0] /\ handle = [s \in Scopes |-> None]
  /\ active = {} /\ pending = None /\ booted = {} /\ nextGen = 0
  /\ queue = <<>>
  /\ ui = [w \in Windows |-> [shown |-> {}, boots |-> <<>>]]
  /\ messages = <<>> /\ busy = FALSE /\ todo = {}
  /\ tasks = {} /\ channel = <<>>
  /\ runs = 0 /\ current = [s \in Scopes |-> None]
  /\ seen = [w \in Windows |-> {}] /\ heard = {}

-----------------------------------------------------------------------------
\* Rendering.

OnScreen == UNION {ui[w].shown : w \in open}
Under(w) == {s \in Scopes : Home[s] = w}
BootMessages(scopes) ==
  [i \in DOMAIN scopes |-> [kind |-> "boot", scope |-> scopes[i]]]

\* The scopes a view builds with the root, and those of its deferred builders,
\* which run in layout when there is room; a tree builds all of them at once.
AtRoot(w) == {s \in wanted : Home[s] = w /\ (IsTree \/ s \notin Deferred)}
Late(w) ==
  {s \in wanted \cap Deferred : Home[s] = w /\ ~IsTree /\ w \in roomy}

\* prune drops a scope's entry with its boot mark, and with the entry the
\* handle that aborts its work.
AbortedMutant(gone) == {}   \* handles without abort_on_drop
Aborted(gone) == {t \in tasks : t.scope \in gone /\ t.run = handle[t.scope]}

Prune(gone) ==
  /\ stored' = stored \ gone
  /\ generation' = [s \in Scopes |-> IF s \in gone THEN 0 ELSE generation[s]]
  /\ handle' = [s \in Scopes |-> IF s \in gone THEN None ELSE handle[s]]
  /\ tasks' = tasks \ Aborted(gone)
  /\ current' = [s \in Scopes |-> IF s \in gone THEN None ELSE current[s]]

\* begin_render drops what the previous native view, of whichever window, had
\* not sighted until now; finish_tree_render what this tree leaves out.
DroppedEager(w) == Under(w) \ AtRoot(w)   \* when the view returns
DroppedNever(w) == {}                     \* only clears the active set
Dropped(w) ==
  IF IsTree THEN Under(w) \ AtRoot(w)
  ELSE IF pending = None THEN {} ELSE Under(pending) \ active

MarksMutant(gone) == booted               \* prune keeps the boot marks
Marks(gone) == booted \ gone

FirstSeenMutant(sighted, marks) == sighted   \* queues every sighting
FirstSeen(sighted, marks) == sighted \ marks

\* The view of a program whose component is mounted: the root is built, the
\* boots queued so far go to the root (a tree's to the next tick), and layout
\* runs the deferred builders.
MountedView(w) ==
  LET marks == Marks(Dropped(w))
      held == IF IsTree THEN ui[w].boots ELSE <<>>
  IN /\ Prune(Dropped(w))
     /\ active' = AtRoot(w) \cup Late(w)
     /\ pending' = IF IsTree THEN pending ELSE w
     /\ booted' = marks \cup AtRoot(w) \cup Late(w)
     /\ \E first \in SetToSeqs(FirstSeen(AtRoot(w), marks)),
           after \in SetToSeqs(FirstSeen(Late(w), marks)) :
          /\ queue' = after
          /\ ui' = [ui EXCEPT ![w] = [shown |-> AtRoot(w) \cup Late(w),
                                      boots |-> held \o queue \o first]]

\* A retained component is neither mounted nor pruned, and does not boot.
RetainedView(w) ==
  /\ ui' = [ui EXCEPT ![w].shown = AtRoot(w) \cup Late(w)]
  /\ UNCHANGED <<store, active, pending, booted, queue, tasks, current>>

\* After a batch every open window is rebuilt, one after the other.
Render(w) ==
  /\ busy /\ messages = <<>> /\ w \in todo
  /\ IF IsMounted THEN MountedView(w) ELSE RetainedView(w)
  /\ todo' = todo \ {w} /\ busy' = (todo' # {})
  /\ seen' = [seen EXCEPT ![w] = ui'[w].shown]
  /\ heard' = heard \cap (OnScreen \cup UNION {seen[v] : v \in Windows})
  /\ UNCHANGED <<app, windows, nextGen, messages, channel, runs>>

\* A native layout without a view, of another size, runs the deferred
\* builders again: they mount what they show now.
Relayout(w) ==
  LET late == {s \in wanted \cap Deferred : Home[s] = w}
  IN /\ ~busy /\ ~IsTree /\ w \in open
     /\ IF w \in roomy
        THEN /\ roomy' = roomy \ {w}
             /\ ui' = [ui EXCEPT ![w].shown = @ \ late]
             /\ UNCHANGED <<active, booted, queue, seen>>
        ELSE /\ roomy' = roomy \cup {w}
             /\ ui' = [ui EXCEPT ![w].shown = @ \cup late]
             /\ seen' = [seen EXCEPT ![w] = @ \cup late]
             /\ IF IsMounted
                THEN /\ active' = active \cup late
                     /\ booted' = booted \cup late
                     /\ \E after \in SetToSeqs(FirstSeen(late, booted)) :
                          queue' = queue \o after
                ELSE UNCHANGED <<active, booted, queue>>
     /\ UNCHANGED <<app, opened, open, store, pending, nextGen,
                    loop, work, runs, current, heard>>

OpenMutant(w) ==   \* a closed window's id comes back
  /\ ~busy /\ w \notin open /\ messages = <<>>
  /\ open' = open \cup {w}
  /\ busy' = TRUE /\ todo' = {w}
  /\ UNCHANGED <<app, opened, roomy, store, mounted, ui, messages, work,
                 runs, current, seen, heard>>

\* A daemon opens and closes windows; each has a root scope of its own.  One that
\* opens while another's messages wait might as well have opened before they were
\* published: neither reads what the other writes.
Open(w) ==
  /\ ~busy /\ w \notin opened /\ (IsTree => opened = {})
  /\ opened' = opened \cup {w} /\ open' = open \cup {w}
  /\ messages = <<>> /\ busy' = TRUE /\ todo' = {w}
  /\ UNCHANGED <<app, roomy, store, mounted, ui, messages, work,
                 runs, current, seen, heard>>

Close(w) ==
  /\ ~busy /\ ~IsTree /\ w \in open
  /\ open' = open \ {w}
  /\ ui' = [ui EXCEPT ![w] = [shown |-> {}, boots |-> <<>>]]
  /\ UNCHANGED <<app, opened, roomy, store, mounted, loop, work,
                 runs, current, seen, heard>>

-----------------------------------------------------------------------------
\* The event loop.

Room == Len(messages) + Len(channel) < MaxMessages

\* A window event updates the tree: a native root publishes its boots first,
\* then a widget may publish a message of the scope it belongs to or of the app.
Interact(w) ==
  /\ ~busy /\ w \in open /\ Room
  /\ \E more \in {<<>>, <<[kind |-> "app"]>>}
                   \cup {<<[kind |-> "event", scope |-> s]>> : s \in ui[w].shown} :
       messages' = messages \o (IF IsTree THEN <<>> ELSE BootMessages(ui[w].boots))
                            \o more
  /\ ui' = IF IsTree THEN ui ELSE [ui EXCEPT ![w].boots = <<>>]
  /\ UNCHANGED <<app, windows, store, mounted, busy, todo, work,
                 runs, current, seen, heard>>

\* The batch starts with the outputs that have arrived: the user interfaces are
\* dropped, with the boots their roots still hold.  Without a message it does so
\* when an event left a user interface stale, after its root published its boots.
StartBatch(arrived) ==
  /\ ~busy /\ ~IsTree /\ open # {}
  /\ messages' = messages \o SubSeq(channel, 1, arrived)
  /\ messages' # <<>> \/ \E w \in open : ui[w].boots = <<>>
  /\ channel' = SubSeq(channel, arrived + 1, Len(channel))
  /\ busy' = TRUE /\ todo' = open
  /\ ui' = [w \in Windows |-> [ui[w] EXCEPT !.boots = <<>>]]
  /\ UNCHANGED <<app, windows, store, mounted, tasks, runs, current, seen, heard>>

\* A guest's tick starts with its deferred boots.
StartTick(w) ==
  /\ ~busy /\ IsTree /\ w \in open
  /\ messages' = BootMessages(ui[w].boots) \o messages
  /\ busy' = TRUE /\ todo' = {w}
  /\ ui' = [ui EXCEPT ![w].boots = <<>>]
  /\ UNCHANGED <<app, windows, store, mounted, work, runs, current, seen, heard>>

\* entry(scope).or_default(), then the handler's statements: none for the
\* lane, `run` (or `stream`), or `invalidate`.
NextGenerationMutant(s) == generation[s] + 1   \* counts per entry
NextGeneration(s) ==
  IF IsMounted THEN nextGen + 1 ELSE generation[s] + 1
Advance(s) ==
  /\ runs < MaxRuns /\ runs' = runs + 1
  /\ generation' = [generation EXCEPT ![s] = NextGeneration(s)]
  /\ nextGen' = IF IsMounted THEN NextGeneration(s) ELSE nextGen
Stopped(s, due) ==
  IF Aborts THEN {t \in tasks : t.scope = s /\ t.run = due} ELSE {}

Run(s, due) ==
  /\ Advance(s)
  /\ tasks' = (tasks \ Stopped(s, due))
                \cup {[scope |-> s, gen |-> NextGeneration(s), run |-> runs + 1]}
  /\ handle' = IF Aborts THEN [handle EXCEPT ![s] = runs + 1] ELSE handle
  /\ current' = [current EXCEPT ![s] = runs + 1]
Invalidate(s, due) ==
  /\ Advance(s)
  /\ tasks' = tasks \ Stopped(s, due)
  /\ handle' = [handle EXCEPT ![s] = None]
  /\ current' = [current EXCEPT ![s] = None]
Plain(s, due, answered) ==
  /\ handle' = [handle EXCEPT ![s] = due]
  /\ current' = IF answered THEN [current EXCEPT ![s] = None] ELSE current
  /\ UNCHANGED <<generation, nextGen, tasks, runs>>
\* `due` is the handle the handler finds.
Handle(s, due, answered) ==
  /\ stored' = stored \cup {s}
  /\ Run(s, due) \/ Invalidate(s, due) \/ Plain(s, due, answered)

\* The lane's own message: discarded unless its generation is the entry's.
\* The result of a Future and the end of a stream release the handle; every
\* message but the end of a stream goes on to its handler.
Passes(m) == m.scope \in stored /\ generation[m.scope] = m.gen
DeliverMutant(m) ==   \* releases the handle before the generations are compared
  LET due == IF m.last THEN None ELSE handle[m.scope]
  IN IF ~Passes(m)
     THEN /\ handle' = [handle EXCEPT ![m.scope] = due]
          /\ tasks' = IF due = handle[m.scope] THEN tasks
                      ELSE tasks \ Stopped(m.scope, handle[m.scope])
          /\ UNCHANGED <<stored, generation, nextGen, runs, current>>
     ELSE IF Streams /\ m.last
          THEN UNCHANGED stored /\ Plain(m.scope, due, m.last)
          ELSE Handle(m.scope, due, m.last)
Deliver(m) ==
  IF ~Passes(m)
  THEN UNCHANGED <<store, nextGen, tasks, runs, current>>
  ELSE LET due == IF m.last THEN None ELSE handle[m.scope]
       IN IF Streams /\ m.last
          THEN /\ UNCHANGED stored
               /\ Plain(m.scope, due, m.last)
          ELSE Handle(m.scope, due, m.last)

Receive(m) ==
  /\ busy
  /\ \/ /\ m.kind = "app"
        /\ \/ UNCHANGED <<wanted, changes>>
           \/ /\ changes < MaxChanges /\ changes' = changes + 1
              /\ \E s \in Scopes : wanted' \in {wanted \cup {s}, wanted \ {s}}
        /\ UNCHANGED <<store, nextGen, tasks, runs, current, heard>>
     \/ /\ m.kind = "lane"
        /\ Deliver(m) /\ UNCHANGED <<wanted, changes, heard>>
     \/ /\ m.kind \in {"event", "boot"}
        /\ Handle(m.scope, handle[m.scope], FALSE)
        /\ heard' = IF m.kind = "boot" THEN heard \cup {m.scope} ELSE heard
        /\ UNCHANGED <<wanted, changes>>
  /\ UNCHANGED <<program, windows, active, pending, booted, queue, ui, busy,
                 todo, seen>>

Update ==
  /\ messages # <<>> /\ Receive(Head(messages))
  /\ messages' = Tail(messages) /\ UNCHANGED channel

\* Within its tick a guest also handles the outputs that have arrived.
Settle ==
  /\ IsTree /\ channel # <<>> /\ Receive(Head(channel))
  /\ channel' = Tail(channel) /\ UNCHANGED messages

\* A task yields its result, an item of its stream, or the stream's end.
Yield(t, last) ==
  /\ Room /\ (Streams \/ last)
  /\ channel' = Append(channel, [kind |-> "lane", scope |-> t.scope,
                                 gen |-> t.gen, run |-> t.run, last |-> last])
  /\ tasks' = IF last THEN tasks \ {t} ELSE tasks
  /\ UNCHANGED <<app, windows, store, mounted, ui, loop,
                 runs, current, seen, heard>>

Next ==
  \/ \E w \in Windows : Render(w) \/ Relayout(w) \/ Open(w) \/ Close(w)
                       \/ Interact(w) \/ StartTick(w)
  \/ \E arrived \in 0 .. Len(channel) : StartBatch(arrived)
  \/ Settle \/ Update
  \/ \E t \in tasks, last \in BOOLEAN : Yield(t, last)

Spec == Init /\ [][Next]_vars

-----------------------------------------------------------------------------
TypeOK ==
  /\ program \in Kinds /\ wanted \subseteq Scopes
  /\ open \subseteq opened /\ opened \subseteq Windows /\ roomy \subseteq Windows
  /\ stored \subseteq Scopes
  /\ generation \in [Scopes -> Nat] /\ handle \in [Scopes -> Nat \cup {None}]
  /\ active \subseteq Scopes /\ booted \subseteq Scopes
  /\ pending \in Windows \cup {None} /\ nextGen \in Nat
  /\ queue \in Seq(Scopes)
  /\ ui \in [Windows -> [shown: SUBSET Scopes, boots: Seq(Scopes)]]
  /\ messages \in Seq(Message) /\ busy \in BOOLEAN /\ todo \subseteq Windows
  /\ tasks \subseteq Task /\ channel \in Seq(Output)
  /\ runs \in Nat /\ current \in [Scopes -> Nat \cup {None}]
  /\ seen \in [Windows -> SUBSET Scopes] /\ heard \subseteq Scopes

Elements(sequence) == {sequence[i] : i \in DOMAIN sequence}
Outputs == Elements(channel) \cup {m \in Elements(messages) : m.kind = "lane"}

\* The gate lets through exactly the newest call of the instance that is
\* there now: not a superseded or invalidated one, not one of an instance
\* pruned since, and always the newest.
GateIsExact ==
  \A m \in Outputs \cup tasks : Passes(m) <=> current[m.scope] = m.run

\* The newest call is answered: its task runs on, or its last output waits.
NewestIsAnswered ==
  \A s \in Scopes : current[s] # None =>
    \/ \E t \in tasks : t.run = current[s]
    \/ \E m \in Outputs : m.run = current[s] /\ m.last

\* With `replace`, no superseded or released task goes on working; in a tree
\* none works for a mounted instance that is not shown.
AbandonedWorkStops ==
  Aborts => \A t \in tasks :
    /\ handle[t.scope] = t.run
    /\ IsTree /\ IsMounted => t.scope \in OnScreen

\* An instance keeps its state and its boot mark while it is on screen, also
\* one a deferred builder shows, and one of another window.
StateKept ==
  [][\A s \in OnScreen \cap OnScreen' :
       /\ s \in stored => s \in stored'
       /\ s \in booted => s \in booted']_vars

\* Scopes that are built with the root.  A boot a native deferred builder
\* queues waits for the next view: it may run for an instance that has left
\* and come back, or create the entry of one that is gone.
Prompt(s) == IsTree \/ s \notin Deferred

\* An instance that a whole view of its window left out comes back without
\* its old state, and boots again.
FreshOnReturn ==
  [][\A w \in todo \ todo' : \A s \in ui'[w].shown \ seen[w] :
       IsMounted /\ Prompt(s) =>
         /\ s \notin stored'
         /\ s \in Elements(ui'[w].boots)]_vars

AwaitsBoot(s) ==
  \/ s \in Elements(queue) \/ \E w \in Windows : s \in Elements(ui[w].boots)
  \/ [kind |-> "boot", scope |-> s] \in Elements(messages)

\* An instance boots at most once while views keep showing it.
BootsOnce == \A s \in heard \cap OnScreen : Prompt(s) => ~AwaitsBoot(s)

\* Each instance on screen has booted or its boot is on its way.
BootReaches(target) ==
  program.target = target /\ IsMounted =>
    \A s \in OnScreen : s \in heard \/ AwaitsBoot(s)
BootReachesGuest == BootReaches("tree")
BootReachesApp == BootReaches("native")
=============================================================================
