---------------------------- MODULE GuestSurface ----------------------------
(***************************************************************************)
(* One window of the app store and the sandboxed app behind it: the guest  *)
(* driver (ui-lang-guest) that runs an app's handlers and sends frames,    *)
(* the host's Guest (store.rs) that ticks it, holds its last tree and      *)
(* answers its requests, the view mounted in iced, and the replacement of  *)
(* the instance by a rebuilt one (reload.rs) or, after a trap, by a fresh  *)
(* one (restart_guest).                                                    *)
(*                                                                         *)
(* The window thread redraws and delivers input; the executor compiles,    *)
(* captures and restores between any two of its steps, under the lock of   *)
(* the shared Guest.  A tree stands for the handler tables its view        *)
(* filled: two equal trees name the same entries.  What an app does in a   *)
(* handler, and what it shows afterwards, is any choice.                   *)
(***************************************************************************)
EXTENDS Naturals, Sequences, Filter

CONSTANTS
  Tree,         \* the trees an app can show
  EditorTree,   \* those with an editor document, or patches the host may refuse
  NoTree,       \* no tree yet
  MaxInputs,    \* bound on what the user does
  MaxAsks,      \* bound on the requests of one instance
  MaxInstances, \* bound on the instances behind the window
  MaxPresses    \* bound on restarts under way

ASSUME TreesAssumption == EditorTree \subseteq Tree /\ NoTree \notin Tree
ASSUME BoundsAssumption == {MaxInputs, MaxAsks, MaxInstances, MaxPresses} \subseteq Nat
ASSUME InstancesAssumption == MaxInstances # 0

VARIABLES
  guest,     \* the driver inside the instance
  inst,      \* which instance it is (the address of Guest.alive)
  fault,     \* it trapped
  started,   \* Guest.ticks > 0
  held,      \* Guest.frame.root: the tree the host accepted last
  pending,   \* inputs queued for the next tick, each with the tree it was done to
  resync,    \* an Event::Resync is queued too
  due,       \* requests whose answer is ready
  sleeping,  \* requests answered later: by a timer, or after a window command
  widgets,   \* widget operations waiting for the tree of their frame
  streams,   \* tickers and subscriptions kept for the guest
  staged,    \* the frame of a replacement whose requests still have to be run
  requests,  \* its requests
  cancels,   \* its cancels
  open,      \* the window is open
  mounted,   \* the view iced has: its instance and tree, and if it is up to date
  rounds,    \* redraws in a row within one RedrawRequested event
  presses,   \* restarts being loaded
  reload,    \* the replacement being prepared
  inputs     \* inputs so far

answers == <<due, sleeping, widgets, streams>>
frame   == <<staged, requests, cancels>>
host    == <<inst, fault, started, held, pending, resync, answers, frame>>
window  == <<open, mounted, rounds, presses, inputs>>
vars    == <<guest, host, window, reload>>

Ids   == 0..(MaxAsks - 1)
Kinds == {"answer", "sleep", "widget", "stream", "notify"}
Tasks == [id : Ids, kind : Kinds]
IdsOf(tasks) == {t.id : t \in tasks}
OfKind(tasks, kinds) == {t.id : t \in {u \in tasks : u.kind \in kinds}}

Guests ==
  [done : Seq(0..MaxInputs),   \* inputs delivered; 0 if another handler ran, or none
   view : Tree \cup {NoTree},  \* last_root, and the tables of the last view
   waiting : SUBSET Tasks,     \* requests with a slot in the registry
   ready : SUBSET Ids,         \* answered tasks the round budget left unfinished
   next : 0..MaxAsks]          \* the next request id

Restored(done) ==
  [done |-> done, view |-> NoTree, waiting |-> {}, ready |-> {}, next |-> 0]

NoReload ==
  [stage |-> "none", of |-> 0, moved |-> FALSE, guest |-> Restored(<<>>),
   requests |-> {}, cancels |-> {}]

Reloads ==
  [stage : {"none", "compiling", "captured", "ready"},
   of : 0..MaxInstances,       \* the instance that was captured
   moved : BOOLEAN,            \* it was ticked since
   guest : Guests, requests : SUBSET Tasks, cancels : SUBSET Ids]

Inputs == [id : 1..MaxInputs, via : Tree]

TypeOK ==
  /\ guest \in Guests
  /\ inst \in 1..MaxInstances
  /\ {fault, started, resync, staged, open} \subseteq BOOLEAN
  /\ held \in Tree \cup {NoTree}
  /\ pending \in Seq(Inputs)
  /\ due \subseteq Ids /\ sleeping \subseteq Ids /\ streams \subseteq Ids
  /\ widgets \subseteq [id : Ids, current : BOOLEAN]
  /\ requests \subseteq Tasks /\ cancels \subseteq Ids
  /\ mounted \in [inst : 1..MaxInstances, tree : Tree \cup {NoTree}, fresh : BOOLEAN]
  /\ rounds \in 0..2
  /\ presses \in 0..MaxPresses
  /\ reload \in Reloads
  /\ inputs \in 0..MaxInputs

Init ==
  /\ guest = Restored(<<>>)
  /\ inst = 1
  /\ fault = FALSE /\ started = FALSE /\ resync = FALSE
  /\ held = NoTree
  /\ pending = <<>>
  /\ due = {} /\ sleeping = {} /\ widgets = {} /\ streams = {}
  /\ staged = FALSE /\ requests = {} /\ cancels = {}
  /\ open = TRUE
  /\ mounted = [inst |-> 1, tree |-> NoTree, fresh |-> TRUE]
  /\ rounds = 0
  /\ presses = 0
  /\ reload = NoReload
  /\ inputs = 0

-----------------------------------------------------------------------------
(* One tick of the driver.                                                  *)

\* What a batch of inputs runs.  One that names the tables of the last view runs
\* its handler; of the others, an index the tables have runs what is there now.
Ran(g, batch) ==
  [i \in DOMAIN batch |-> IF batch[i].via = g.view THEN batch[i].id ELSE 0]

\* Tasks that can go on: left over, or a one-shot answered in this batch.
Woken(g, replies) == g.ready \cup (IdsOf(g.waiting) \cap replies)

\* What the app may do in one tick: which tasks finish within the rounds,
\* which request it makes, which task it drops, what it shows.  Nothing at all
\* when nothing stirs it.
Turns(g, batch, replies, stirred) ==
  LET idle == [left |-> Woken(g, replies), ask |-> {}, drop |-> {}, view |-> g.view]
      acts == [left : SUBSET Woken(g, replies),
               ask : {{}} \cup {{[id |-> i, kind |-> k]} : i \in {g.next} \cap Ids, k \in Kinds},
               drop : {{}} \cup {{i} : i \in IdsOf(g.waiting) \cup g.ready \cup ({g.next} \cap Ids)},
               view : Tree]
  IN {c \in acts :
        stirred \/ batch # <<>> \/ c.left # Woken(g, replies) \/ c = idle}

\* The driver afterwards.
Ticked(g, batch, replies, c) ==
  [done |-> g.done \o Ran(g, batch),
   view |-> c.view,
   waiting |-> {t \in g.waiting \cup c.ask :
                  t.kind # "notify" /\ t.id \notin replies \cup c.drop},
   ready |-> c.left \ c.drop,
   next |-> IF c.ask = {} THEN g.next ELSE g.next + 1]

\* A request dropped in the tick that makes it is not reported.
CancelledMutant(g, replies, c) ==
  {t.id : t \in {u \in g.waiting \ c.ask : u.id \notin replies /\ u.id \in c.drop}}

\* Only a task still waiting for its answer is reported as cancelled.
Cancelled(g, replies, c) ==
  {t.id : t \in {u \in g.waiting \cup c.ask :
                   u.kind # "notify" /\ u.id \notin replies /\ u.id \in c.drop}}

-----------------------------------------------------------------------------
(* One redraw of the mounted view (GuestView::update, Guest::redraw).       *)

Live == open /\ ~fault /\ mounted.inst = inst

\* Waiting widget operations do not keep the window awake.
QuietMutant == started /\ guest.ready = {} /\ pending = <<>> /\ ~resync /\ due = {}

Quiet == started /\ guest.ready = {} /\ widgets = {} /\ pending = <<>> /\ ~resync /\ due = {}

\* execute_widgets: an operation on a superseded frame is refused at once,
\* one on the frame iced has is run, one on a frame not mounted yet waits.
Executed(ops, fresh) == {w \in ops : ~w.current \/ fresh}

\* The requests of a frame are answered, then its cancels are carried out,
\* then widget operations run if their tree is already mounted.
Answered(asked, dropped, later, asleep, ops, kept, fresh) ==
  LET all == ops \cup {[id |-> i, current |-> TRUE] : i \in OfKind(asked, {"widget"})}
      left == {w \in all : w.id \notin dropped}
  IN /\ due' = ((later \cup OfKind(asked, {"answer", "notify"})) \ dropped)
                \cup IdsOf(Executed(left, fresh))
     /\ sleeping' = (asleep \cup OfKind(asked, {"sleep"})) \ dropped
     /\ streams' = (kept \cup OfKind(asked, {"stream"})) \ dropped
     /\ widgets' = left \ Executed(left, fresh)

\* One redraw too many in a row.
RedrawnMutant(fresh, tree) ==
  IF ~fresh /\ rounds < 3
    THEN /\ mounted' = [inst |-> inst, tree |-> tree, fresh |-> TRUE]
         /\ rounds' = rounds + 1
    ELSE /\ mounted' = [mounted EXCEPT !.fresh = fresh]
         /\ rounds' = 0

\* After a redraw that changed the tree iced has the store rebuild the view and
\* redraws again, up to three times; the third rebuild is left for later.
Redrawn(fresh, tree) ==
  IF ~fresh /\ rounds < 2
    THEN /\ mounted' = [inst |-> inst, tree |-> tree, fresh |-> TRUE]
         /\ rounds' = rounds + 1
    ELSE /\ mounted' = [mounted EXCEPT !.fresh = fresh]
         /\ rounds' = 0

\* Nothing to do, or the app rests because its last redraws cost too much.
Skip ==
  /\ Live
  /\ Redrawn(mounted.fresh, held)
  /\ UNCHANGED <<guest, host, open, presses, inputs, reload>>

\* The first redraw of a replacement runs the frame it was prepared with.
RedrawStaged ==
  /\ Live
  /\ staged
  /\ staged' = FALSE /\ requests' = {} /\ cancels' = {}
  /\ Answered(requests, cancels, due \cup IdsOf(Executed(widgets, mounted.fresh)), sleeping,
              widgets \ Executed(widgets, mounted.fresh), streams, mounted.fresh)
  /\ Redrawn(mounted.fresh, held)
  /\ UNCHANGED <<guest, inst, fault, started, held, pending, resync, open, presses, inputs,
                 reload>>

\* merge: what applying patches made from one tree to the held one can give.
Patched(from, tree) == IF held = from THEN {tree} ELSE Tree \ {tree}

\* A refused frame is forgotten.
MergesMutant(from, tree) ==
  {[m EXCEPT !.resync = FALSE] :
     m \in [held : {held, tree}, redrawn : {TRUE}, resync : {FALSE}]}

\* What the host makes of a frame made from a tree: the frame is the whole
\* tree, or patches, or says nothing changed.  One of EditorTree may be refused, or
\* be drawn again for its lane; a refused one is asked for whole.
Merges(from, tree) ==
  LET got == IF from = tree THEN {held}
             ELSE {tree} \cup IF from = NoTree THEN {} ELSE Patched(from, tree)
  IN [held : got, redrawn : {from # tree, from # tree \/ tree \in EditorTree}, resync : {FALSE}]
       \cup [held : {held}, redrawn : {TRUE}, resync : {tree \in EditorTree} \ {FALSE}]

\* A tick that returns a frame, whose requests are answered even if it is refused.
Tick(replies, c) ==
  LET from == IF resync THEN NoTree ELSE guest.view
      ops == widgets \ Executed(widgets, mounted.fresh)
      stale == {[w EXCEPT !.current = FALSE] : w \in ops}
  IN /\ guest' = Ticked(guest, pending, replies, c)
     /\ \E m \in Merges(from, c.view) :
          LET fresh == mounted.fresh /\ ~m.redrawn
          IN /\ held' = m.held
             /\ resync' = m.resync
             /\ Answered(c.ask, Cancelled(guest, replies, c), {}, sleeping,
                         IF m.redrawn THEN stale ELSE ops, streams, fresh)
             /\ Redrawn(fresh, m.held)
     /\ UNCHANGED fault

\* The module traps in the tick: what was delivered is gone with it.
Trap ==
  /\ fault' = TRUE
  /\ resync' = FALSE
  /\ due' = {}
  /\ widgets' = {}
  /\ rounds' = 0
  /\ UNCHANGED <<guest, held, sleeping, streams, mounted>>

\* What is due is delivered with the queued inputs; tickers may fire too.
Redraw ==
  /\ Live
  /\ ~staged
  /\ pending' = <<>>
  /\ started' = TRUE
  /\ reload' = [reload EXCEPT !.moved = @ \/ reload.of = inst]
  /\ UNCHANGED <<inst, frame, open, presses, inputs>>
  /\ \E fired \in {{}, streams} :
       /\ ~Quiet \/ fired # {}
       /\ LET replies == due \cup IdsOf(Executed(widgets, mounted.fresh))
              stirred == fired # {} \/ ~started
          IN \/ \E c \in Turns(guest, pending, replies, stirred) : Tick(replies, c)
             \/ Trap

\* The store rebuilds the view: a message of the window or of its own.
Rebuild ==
  /\ open /\ ~fault /\ rounds = 0
  /\ mounted' = [inst |-> inst, tree |-> held, fresh |-> TRUE]
  /\ UNCHANGED <<guest, host, open, rounds, presses, inputs, reload>>

\* The user acts on the tree iced has.
Input ==
  /\ Live /\ rounds = 0
  /\ mounted.tree # NoTree
  /\ inputs < MaxInputs
  /\ inputs' = inputs + 1
  /\ pending' = Append(pending, [id |-> inputs', via |-> mounted.tree])
  /\ UNCHANGED <<guest, inst, fault, started, held, resync, answers, frame, open, mounted,
                 rounds, presses, reload>>

\* A sleeping request's time has come.
Wake(i) ==
  /\ i \in sleeping
  /\ sleeping' = sleeping \ {i}
  /\ due' = due \cup {i}
  /\ UNCHANGED <<guest, inst, fault, started, held, pending, resync, widgets, streams, frame,
                 window, reload>>

\* The window was closed: one last tick if the app listens.  Its frame is
\* dropped and nothing looks at the driver again but for what it has run.
Close ==
  /\ open /\ rounds = 0
  /\ open' = FALSE
  /\ pending' = <<>> /\ resync' = FALSE
  /\ \/ /\ ~fault
        /\ guest' = [guest EXCEPT !.done = @ \o Ran(guest, pending)]
     \/ guest' = guest
  /\ UNCHANGED <<inst, fault, started, held, answers, frame, mounted, rounds, presses, inputs,
                 reload>>

-----------------------------------------------------------------------------
(* Another instance behind the same window.                                 *)

\* Answers of the old instance are kept for the new one.
InstalledMutant(g, tree) ==
  /\ inst' = inst + 1
  /\ guest' = g
  /\ held' = tree
  /\ fault' = FALSE /\ started' = FALSE /\ resync' = FALSE
  /\ pending' = <<>>
  /\ due' = due /\ sleeping' = {} /\ widgets' = {} /\ streams' = {}

\* A Guest made by from_instance: nothing of the old one's queues is in it.
Installed(g, tree) ==
  /\ inst' = inst + 1
  /\ guest' = g
  /\ held' = tree
  /\ fault' = FALSE /\ started' = FALSE /\ resync' = FALSE
  /\ pending' = <<>>
  /\ due' = {} /\ sleeping' = {} /\ widgets' = {} /\ streams' = {}

\* Restart is pressed on the view of an app that ended; the button stays.
Press ==
  /\ open /\ fault
  /\ presses < MaxPresses
  /\ presses' = presses + 1
  /\ UNCHANGED <<guest, host, open, mounted, rounds, inputs, reload>>

\* The load finishes, on the executor: only an app still ended is replaced.
RestartGuest ==
  /\ presses > 0
  /\ presses' = presses - 1
  /\ \/ /\ fault
        /\ inst < MaxInstances
        /\ Installed(Restored(<<>>), NoTree)
        /\ staged' = FALSE /\ requests' = {} /\ cancels' = {}
     \/ UNCHANGED <<guest, host>>
  /\ UNCHANGED <<open, mounted, rounds, inputs, reload>>

\* ensure_settled, in the order the code asks.
Settled ==
  /\ ~fault /\ ~staged /\ pending = <<>> /\ ~resync
  /\ widgets = {}
  /\ requests = {}

\* The capture does not ask for live tasks.
StillMutant == guest.ready = {}

\* Driver::snapshot refuses while a task other than a subscription is alive.
Still == guest.ready = {} /\ \A t \in guest.waiting : t.kind = "stream"

\* A reviewed module is to replace the running one: a request of the store.  It
\* bumps the serial, so that whatever an earlier request comes to is ignored.
StartReload ==
  /\ open /\ rounds = 0
  /\ reload' = [NoReload EXCEPT !.stage = "compiling"]
  /\ UNCHANGED <<guest, host, window>>

\* Compiled; the running app's state is captured under the lock.
Capture ==
  /\ reload.stage = "compiling"
  /\ Settled /\ Still
  /\ reload' = [reload EXCEPT !.stage = "captured", !.of = inst, !.guest = Restored(guest.done)]
  /\ UNCHANGED <<guest, host, window>>

\* The candidate renders its first tree.  A request it dropped is not kept.
Prepare ==
  /\ reload.stage = "captured"
  /\ \E c \in Turns(reload.guest, <<>>, {}, TRUE) :
       LET dropped == Cancelled(reload.guest, {}, c)
       IN reload' = [reload EXCEPT !.stage = "ready",
                                   !.guest = Ticked(@, <<>>, {}, c),
                                   !.requests = {t \in c.ask : t.id \notin dropped},
                                   !.cancels = dropped]
  /\ UNCHANGED <<guest, host, window>>

\* Compiling, capturing, restoring or the first frame failed.
Refuse ==
  /\ reload.stage \in {"compiling", "captured"}
  /\ reload' = NoReload
  /\ UNCHANGED <<guest, host, window>>

\* The swap does not look whether the app was ticked since the capture.
FitsMutant == open /\ reload.of = inst /\ Settled

\* What finish asks before it swaps.
Fits == open /\ reload.of = inst /\ ~reload.moved /\ Settled

\* commit_reload, in one update of the store: checked, swapped and pinned; or
\* given up, also because an editor's input is not settled.
Commit ==
  /\ rounds = 0
  /\ reload.stage = "ready"
  /\ reload' = NoReload
  /\ \/ /\ Fits
        /\ inst < MaxInstances
        /\ Installed(reload.guest, reload.guest.view)
        /\ staged' = TRUE
        /\ requests' = reload.requests
        /\ cancels' = reload.cancels
        /\ mounted' = [inst |-> inst + 1, tree |-> reload.guest.view, fresh |-> TRUE]
     \/ UNCHANGED <<guest, host, mounted>>
  /\ UNCHANGED <<open, rounds, presses, inputs>>

-----------------------------------------------------------------------------
Next ==
  \/ Skip
  \/ RedrawStaged
  \/ Redraw
  \/ Rebuild
  \/ Input
  \/ \E i \in Ids : Wake(i)
  \/ Close
  \/ Press
  \/ RestartGuest
  \/ StartReload \/ Capture \/ Prepare \/ Refuse \/ Commit

\* A view that has something to deliver asks for a redraw, a stale one is
\* rebuilt after the message it published, and time passes.
Fairness ==
  /\ WF_vars(Redraw) /\ WF_vars(RedrawStaged) /\ WF_vars(Rebuild)
  /\ \A i \in Ids : WF_vars(Wake(i))

Spec == Init /\ [][Next]_vars /\ Fairness

-----------------------------------------------------------------------------
(* Properties.                                                              *)

Alive == open /\ ~fault

\* A patch is only ever applied to the tree it was made from: the tree the
\* host holds is the one the driver remembers, or the driver has been told
\* to send the next one whole.  Across refusals, replacements and restarts.
HeldIsBase == Alive /\ ~resync => held = guest.view

\* Where the host can have a request of the app.
Kept ==
  [requests |-> IdsOf(requests), due |-> due, sleeping |-> sleeping,
   widgets |-> IdsOf(widgets), streams |-> streams]

\* Every request the app waits for is on its way at exactly one place of the
\* host, so it gets one answer: also those of a refused frame, of the frame a
\* replacement was prepared with, and of a frame superseded before it was
\* mounted.  No answer to an earlier instance carries an id of this one.
AwaitedIsHeld ==
  Alive => \A t \in guest.waiting :
             \E p \in DOMAIN Kept :
               t.id \in Kept[p] /\ \A q \in DOMAIN Kept \ {p} : t.id \notin Kept[q]

\* The host keeps timers, subscriptions and operations only for a task that
\* still waits: nothing is left for an id the app can no longer name.
KeptIsAwaited ==
  Alive => sleeping \cup streams \cup IdsOf(widgets) \subseteq IdsOf(guest.waiting)

\* A running instance is only replaced when nothing is lost with it: no input
\* it has not heard, no one-shot task (it may hold a write), not even one that
\* came after its state was captured.
RetiresNoWork ==
  [][inst' = inst \/ fault \/
     (pending = <<>> /\ guest.ready = {} /\ \A t \in guest.waiting : t.kind = "stream")]_vars

\* Inputs run once and in order whatever instance is behind the window.
Named(batch) == Among(batch, [id: Nat, via: {guest.view}])
Right(log) == Among(log, Nat \ {0})
Session ==
  INSTANCE SurfaceInput WITH
    done <- Right(guest.done),
    queue <- [i \in DOMAIN Named(pending) |-> Named(pending)[i].id],
    count <- inputs,
    ended <- fault \/ ~open
ImplementsSession == Session!Spec

\* A task that waits for an answer does not wait for ever: it is answered or
\* dropped, or its instance ends.
AnswerArrives ==
  \A i \in Ids :
    LET waits == Alive /\ \E t \in guest.waiting : t.id = i /\ t.kind # "stream"
    IN waits ~> ~waits
=============================================================================
