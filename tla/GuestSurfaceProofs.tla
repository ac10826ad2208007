-------------------------- MODULE GuestSurfaceProofs --------------------------
(***************************************************************************)
(* What the window of an app keeps across refusals, traps, restarts and    *)
(* replacements, for every set of trees and any number of inputs, requests *)
(* and instances: types, the tree patches are applied to, the place of     *)
(* each request, what a replacement may retire, and that inputs run once   *)
(* and in order whichever instance is behind the window.                   *)
(***************************************************************************)
EXTENDS GuestSurface, FilterProofs, TLAPS

(***************************************************************************)
(* One tick of the driver keeps its types.                                 *)
(***************************************************************************)

LEMMA RanType ==
  ASSUME NEW g \in Guests, NEW batch \in Seq(Inputs)
  PROVE  g.done \o Ran(g, batch) \in Seq(0..MaxInputs)
<1>1. Ran(g, batch) \in Seq(0..MaxInputs)
  <2>1. \A i \in DOMAIN batch : batch[i] \in Inputs
    OBVIOUS
  <2>2. \A i \in DOMAIN batch : batch[i].id \in 0..MaxInputs
    BY <2>1, BoundsAssumption DEF Inputs
  <2>3. \A i \in DOMAIN batch :
          (IF batch[i].via = g.view THEN batch[i].id ELSE 0) \in 0..MaxInputs
    BY <2>2, BoundsAssumption
  <2>4. DOMAIN batch = 1..Len(batch) /\ Len(batch) \in Nat
    OBVIOUS
  <2>5. QED
    BY <2>3, <2>4 DEF Ran
<1>2. g.done \in Seq(0..MaxInputs)
  BY DEF Guests
<1>3. QED
  BY <1>1, <1>2

\* What a turn of the app consists of.
LEMMA TurnType ==
  ASSUME NEW g \in Guests, NEW batch, NEW replies, NEW stirred,
         NEW c \in Turns(g, batch, replies, stirred)
  PROVE  /\ c.left \subseteq g.ready \cup IdsOf(g.waiting)
         /\ \/ c.ask = {}
            \/ /\ g.next \in Ids
               /\ \E k \in Kinds : c.ask = {[id |-> g.next, kind |-> k]}
         /\ c.ask \subseteq Tasks
         /\ c.view \in Tree
<1>1. /\ c.left \in SUBSET Woken(g, replies)
      /\ c.ask \in {{}} \cup {{[id |-> i, kind |-> k]} : i \in {g.next} \cap Ids, k \in Kinds}
      /\ c.view \in Tree
  <2>. DEFINE asks == {{}} \cup {{[id |-> i, kind |-> k]} : i \in {g.next} \cap Ids, k \in Kinds}
              drops == {{}} \cup {{i} : i \in IdsOf(g.waiting) \cup g.ready \cup ({g.next} \cap Ids)}
  <2>1. c \in [left : SUBSET Woken(g, replies), ask : asks, drop : drops, view : Tree]
    BY DEF Turns
  <2>. HIDE DEF asks, drops
  <2>2. c.left \in SUBSET Woken(g, replies) /\ c.ask \in asks /\ c.view \in Tree
    BY <2>1
  <2>3. QED
    BY <2>2 DEF asks
<1>2. \/ c.ask = {}
      \/ /\ g.next \in Ids
         /\ \E k \in Kinds : c.ask = {[id |-> g.next, kind |-> k]}
  BY <1>1
<1>3. c.ask \subseteq Tasks
  BY <1>2 DEF Tasks
<1>4. QED
  BY <1>1, <1>2, <1>3 DEF Woken

LEMMA TickedType ==
  ASSUME NEW g \in Guests, NEW batch \in Seq(Inputs), NEW replies, NEW stirred,
         NEW c \in Turns(g, batch, replies, stirred)
  PROVE  /\ Ticked(g, batch, replies, c) \in Guests
         /\ Cancelled(g, replies, c) \subseteq Ids
<1>1. /\ g.waiting \subseteq Tasks /\ g.ready \subseteq Ids /\ g.next \in 0..MaxAsks
  BY DEF Guests
<1>2. IdsOf(g.waiting) \subseteq Ids
  BY <1>1 DEF IdsOf, Tasks
<1>3. c.left \ c.drop \subseteq Ids
  BY <1>1, <1>2, TurnType
<1>4. (IF c.ask = {} THEN g.next ELSE g.next + 1) \in 0..MaxAsks
  BY <1>1, TurnType, BoundsAssumption DEF Ids
<1>5. {t \in g.waiting \cup c.ask : t.kind # "notify" /\ t.id \notin replies \cup c.drop}
        \subseteq Tasks
  BY <1>1, TurnType
<1>6. Ticked(g, batch, replies, c) \in Guests
  BY <1>3, <1>4, <1>5, RanType, TurnType DEF Ticked, Guests
<1>7. Cancelled(g, replies, c) \subseteq Ids
  BY <1>1, TurnType DEF Cancelled, Tasks
<1>8. QED
  BY <1>6, <1>7

LEMMA RestoredType ==
  ASSUME NEW done \in Seq(0..MaxInputs)
  PROVE  Restored(done) \in Guests
BY BoundsAssumption DEF Restored, Guests

LEMMA NoReloadType == Restored(<<>>) \in Guests /\ NoReload \in Reloads
<1>1. <<>> \in Seq(0..MaxInputs)
  OBVIOUS
<1>2. Restored(<<>>) \in Guests
  BY <1>1, RestoredType
<1>3. 0 \in 0..MaxInstances
  BY BoundsAssumption
<1>4. NoReload \in Reloads
  BY <1>2, <1>3 DEF NoReload, Reloads
<1>5. QED
  BY <1>2, <1>4

-----------------------------------------------------------------------------
(***************************************************************************)
(* Type correctness.                                                       *)
(***************************************************************************)

Ops == [id : Ids, current : BOOLEAN]

LEMMA AnsweredType ==
  ASSUME NEW asked \in SUBSET Tasks, NEW dropped, NEW later \in SUBSET Ids,
         NEW asleep \in SUBSET Ids, NEW ops \in SUBSET Ops, NEW kept \in SUBSET Ids,
         NEW fresh, Answered(asked, dropped, later, asleep, ops, kept, fresh)
  PROVE  /\ due' \subseteq Ids /\ sleeping' \subseteq Ids /\ streams' \subseteq Ids
         /\ widgets' \subseteq Ops
<1>. DEFINE all == ops \cup {[id |-> i, current |-> TRUE] : i \in OfKind(asked, {"widget"})}
            left == {w \in all : w.id \notin dropped}
<1>1. \A kinds : OfKind(asked, kinds) \subseteq Ids
  BY DEF OfKind, Tasks
<1>2. all \subseteq Ops
  <2>1. \A i \in OfKind(asked, {"widget"}) : [id |-> i, current |-> TRUE] \in Ops
    BY <1>1 DEF Ops
  <2>2. QED
    BY <2>1
<1>3. left \subseteq Ops /\ Executed(left, fresh) \subseteq left
  BY <1>2 DEF Executed
<1>4. IdsOf(Executed(left, fresh)) \subseteq Ids
  BY <1>3 DEF IdsOf, Ops
<1>5. /\ due' = ((later \cup OfKind(asked, {"answer", "notify"})) \ dropped)
                  \cup IdsOf(Executed(left, fresh))
      /\ sleeping' = (asleep \cup OfKind(asked, {"sleep"})) \ dropped
      /\ streams' = (kept \cup OfKind(asked, {"stream"})) \ dropped
      /\ widgets' = left \ Executed(left, fresh)
  BY DEF Answered
<1>. HIDE DEF left
<1>6. QED
  BY <1>1, <1>3, <1>4, <1>5

Mounts == [inst : 1..MaxInstances, tree : Tree \cup {NoTree}, fresh : BOOLEAN]

LEMMA RedrawnType ==
  ASSUME TypeOK, NEW fresh \in BOOLEAN, NEW tree \in Tree \cup {NoTree},
         Redrawn(fresh, tree)
  PROVE  mounted' \in Mounts /\ rounds' \in 0..2
<1>1. mounted \in Mounts /\ rounds \in 0..2 /\ inst \in 1..MaxInstances
  BY DEF TypeOK, Mounts
<1>2. CASE ~fresh /\ rounds < 2
  <2>1. /\ mounted' = [inst |-> inst, tree |-> tree, fresh |-> TRUE]
        /\ rounds' = rounds + 1
    BY <1>2 DEF Redrawn
  <2>2. QED
    BY <1>1, <1>2, <2>1 DEF Mounts
<1>3. CASE ~(~fresh /\ rounds < 2)
  <2>1. /\ mounted' = [mounted EXCEPT !.fresh = fresh]
        /\ rounds' = 0
    BY <1>3 DEF Redrawn
  <2>2. QED
    BY <1>1, <2>1 DEF Mounts
<1>4. QED
  BY <1>2, <1>3

\* What a redraw may change.
Redrew ==
  /\ guest' \in Guests
  /\ fault' \in BOOLEAN /\ resync' \in BOOLEAN
  /\ held' \in Tree \cup {NoTree}
  /\ due' \subseteq Ids /\ sleeping' \subseteq Ids /\ streams' \subseteq Ids
  /\ widgets' \subseteq Ops
  /\ mounted' \in Mounts /\ rounds' \in 0..2

LEMMA TickType ==
  ASSUME TypeOK, NEW replies \in SUBSET Ids, NEW stirred,
         NEW c \in Turns(guest, pending, replies, stirred), Tick(replies, c)
  PROVE  Redrew
<1>. DEFINE from == IF resync THEN NoTree ELSE guest.view
            ops == widgets \ Executed(widgets, mounted.fresh)
            stale == {[w EXCEPT !.current = FALSE] : w \in ops}
<1>1. guest \in Guests /\ pending \in Seq(Inputs)
  BY DEF TypeOK
<1>2. /\ Ticked(guest, pending, replies, c) \in Guests
      /\ Cancelled(guest, replies, c) \subseteq Ids
  BY <1>1, TickedType
<1>3. c.ask \subseteq Tasks /\ c.view \in Tree
  BY <1>1, TurnType
<1>4. ops \subseteq Ops /\ stale \subseteq Ops
  BY DEF TypeOK, Ops
<1>5. PICK m \in Merges(from, c.view) :
        LET fresh == mounted.fresh /\ ~m.redrawn
        IN /\ held' = m.held
           /\ resync' = m.resync
           /\ Answered(c.ask, Cancelled(guest, replies, c), {}, sleeping,
                       IF m.redrawn THEN stale ELSE ops, streams, fresh)
           /\ Redrawn(fresh, m.held)
  BY Zenon DEF Tick
<1>6. /\ m.held \in Tree \cup {NoTree}
      /\ m.redrawn \in BOOLEAN /\ m.resync \in BOOLEAN
  <2>1. (IF from = c.view THEN {held}
         ELSE {c.view} \cup IF from = NoTree THEN {} ELSE Patched(from, c.view))
           \subseteq Tree \cup {NoTree}
    BY <1>3 DEF TypeOK, Patched
  <2>2. held \in Tree \cup {NoTree}
    BY DEF TypeOK
  <2>3. QED
    BY <1>5, <2>1, <2>2 DEF Merges
<1>. DEFINE fresh == mounted.fresh /\ ~m.redrawn
            kept == IF m.redrawn THEN stale ELSE ops
<1>7. /\ due' \subseteq Ids /\ sleeping' \subseteq Ids /\ streams' \subseteq Ids
      /\ widgets' \subseteq Ops
  <2>1. Answered(c.ask, Cancelled(guest, replies, c), {}, sleeping, kept, streams, fresh)
    BY <1>5
  <2>2. kept \in SUBSET Ops /\ sleeping \in SUBSET Ids /\ streams \in SUBSET Ids
    BY <1>4 DEF TypeOK
  <2>. HIDE DEF kept, fresh
  <2>3. QED
    BY <2>1, <2>2, <1>3, AnsweredType
<1>8. mounted' \in Mounts /\ rounds' \in 0..2
  <2>1. Redrawn(fresh, m.held) /\ fresh \in BOOLEAN
    BY <1>5, <1>6 DEF TypeOK
  <2>. HIDE DEF fresh
  <2>2. QED
    BY <2>1, <1>6, RedrawnType
<1>9. guest' \in Guests /\ fault' \in BOOLEAN /\ resync' \in BOOLEAN /\ held' \in Tree \cup {NoTree}
  BY <1>2, <1>5, <1>6 DEF Tick, TypeOK
<1>10. QED
  BY <1>7, <1>8, <1>9 DEF Redrew

\* Whatever answers, refuses, traps or replaces an app, every variable keeps
\* its type: a rebuild follows two redraws at most, and no instance makes more
\* requests or gets more inputs than it may.
THEOREM TypeCorrect == Spec => []TypeOK
<1>1. Init => TypeOK
  <2>. SUFFICES ASSUME Init PROVE TypeOK
    OBVIOUS
  <2>1. guest \in Guests /\ reload \in Reloads
    BY NoReloadType DEF Init
  <2>2. inst \in 1..MaxInstances /\ presses \in 0..MaxPresses /\ inputs \in 0..MaxInputs
    BY BoundsAssumption, InstancesAssumption DEF Init
  <2>3. mounted \in Mounts /\ rounds \in 0..2
    BY <2>2 DEF Init, Mounts
  <2>4. pending \in Seq(Inputs)
    BY DEF Init
  <2>5. QED
    BY <2>1, <2>2, <2>3, <2>4 DEF Init, TypeOK, Mounts
<1>2. TypeOK /\ [Next]_vars => TypeOK'
  <2>. SUFFICES ASSUME TypeOK, [Next]_vars PROVE TypeOK'
    OBVIOUS
  <2>1. CASE UNCHANGED vars
    BY <2>1 DEF TypeOK, vars, host, window, answers, frame
  <2>2. CASE Skip
    <3>1. mounted' \in Mounts /\ rounds' \in 0..2
      BY <2>2, RedrawnType DEF Skip, TypeOK
    <3>2. QED
      BY <2>2, <3>1 DEF Skip, TypeOK, Mounts, host, answers, frame
  <2>3. CASE RedrawStaged
    <3>1. /\ due' \subseteq Ids /\ sleeping' \subseteq Ids /\ streams' \subseteq Ids
          /\ widgets' \subseteq Ops
      <4>. DEFINE ran == Executed(widgets, mounted.fresh)
      <4>1. Answered(requests, cancels, due \cup IdsOf(ran), sleeping, widgets \ ran, streams,
                     mounted.fresh)
        BY <2>3 DEF RedrawStaged
      <4>2. ran \subseteq Ops /\ IdsOf(ran) \subseteq Ids
        BY DEF TypeOK, Executed, Ops, IdsOf
      <4>3. /\ requests \in SUBSET Tasks /\ due \cup IdsOf(ran) \in SUBSET Ids
            /\ sleeping \in SUBSET Ids /\ widgets \ ran \in SUBSET Ops
            /\ streams \in SUBSET Ids
        BY <4>2 DEF TypeOK, Ops
      <4>. HIDE DEF ran
      <4>4. QED
        BY <4>1, <4>3, AnsweredType
    <3>2. mounted' \in Mounts /\ rounds' \in 0..2
      BY <2>3, RedrawnType DEF RedrawStaged, TypeOK
    <3>3. QED
      BY <2>3, <3>1, <3>2 DEF RedrawStaged, TypeOK, Mounts, Ops
  <2>4. CASE Redraw
    <3>1. /\ pending' = <<>> /\ started' = TRUE
          /\ reload' = [reload EXCEPT !.moved = @ \/ reload.of = inst]
          /\ UNCHANGED <<inst, frame, open, presses, inputs>>
      BY <2>4 DEF Redraw
    <3>2. reload' \in Reloads
      BY <3>1 DEF TypeOK, Reloads
    <3>3. Redrew
      <4>. DEFINE replies == due \cup IdsOf(Executed(widgets, mounted.fresh))
      <4>1. replies \in SUBSET Ids
        BY DEF TypeOK, Executed, IdsOf
      <4>2. PICK fired \in {{}, streams} :
              \/ \E c \in Turns(guest, pending, replies, fired # {} \/ ~started) :
                   Tick(replies, c)
              \/ Trap
        BY <2>4 DEF Redraw
      <4>3. CASE Trap
        <5>1. mounted \in Mounts /\ mounted' = mounted
          BY <4>3 DEF Trap, TypeOK, Mounts
        <5>2. guest' = guest /\ guest \in Guests
          BY <4>3 DEF Trap, TypeOK
        <5>3. fault' = TRUE /\ resync' = FALSE /\ rounds' \in 0..2
          BY <4>3 DEF Trap
        <5>4. due' = {} /\ widgets' = {} /\ UNCHANGED <<held, sleeping, streams>>
          BY <4>3 DEF Trap
        <5>5. QED
          BY <5>1, <5>2, <5>3, <5>4 DEF TypeOK, Redrew
      <4>4. ASSUME NEW c \in Turns(guest, pending, replies, fired # {} \/ ~started),
                   Tick(replies, c)
            PROVE  Redrew
        <5>. HIDE DEF replies
        <5>1. QED
          BY <4>1, <4>4, TickType
      <4>5. QED
        BY <4>2, <4>3, <4>4
    <3>4. QED
      BY <3>1, <3>2, <3>3 DEF TypeOK, Redrew, Mounts, Ops, frame
  <2>5. CASE Rebuild
    BY <2>5 DEF Rebuild, TypeOK, host, answers, frame
  <2>6. CASE Input
    <3>1. inputs' \in 1..MaxInputs /\ mounted.tree \in Tree
      BY <2>6, BoundsAssumption DEF Input, TypeOK
    <3>2. pending' \in Seq(Inputs)
      BY <2>6, <3>1 DEF Input, TypeOK, Inputs
    <3>3. QED
      BY <2>6, <3>1, <3>2 DEF Input, TypeOK, answers, frame
  <2>7. ASSUME NEW i \in Ids, Wake(i) PROVE TypeOK'
    BY <2>7 DEF Wake, TypeOK, frame, window
  <2>8. CASE Close
    <3>1. guest' \in Guests
      <4>1. guest \in Guests /\ pending \in Seq(Inputs)
        BY DEF TypeOK
      <4>2. guest.done \o Ran(guest, pending) \in Seq(0..MaxInputs)
        BY <4>1, RanType
      <4>3. [guest EXCEPT !.done = guest.done \o Ran(guest, pending)] \in Guests
        BY <4>1, <4>2 DEF Guests
      <4>4. QED
        BY <2>8, <4>1, <4>3 DEF Close
    <3>2. /\ open' = FALSE /\ resync' = FALSE /\ pending' = <<>>
          /\ UNCHANGED <<inst, fault, started, held, answers, frame, mounted, rounds, presses,
                         inputs, reload>>
      BY <2>8 DEF Close
    <3>3. pending' \in Seq(Inputs)
      BY <3>2
    <3>4. QED
      BY <3>1, <3>2, <3>3 DEF TypeOK, answers, frame
  <2>9. CASE Press
    BY <2>9, BoundsAssumption DEF Press, TypeOK, host, answers, frame
  <2>10. CASE RestartGuest
    <3>1. presses' \in 0..MaxPresses
      BY <2>10, BoundsAssumption DEF RestartGuest, TypeOK
    <3>2. CASE UNCHANGED <<guest, host>>
      BY <2>10, <3>1, <3>2 DEF RestartGuest, TypeOK, host, answers, frame
    <3>3. CASE /\ inst < MaxInstances
               /\ Installed(Restored(<<>>), NoTree)
               /\ staged' = FALSE /\ requests' = {} /\ cancels' = {}
      <4>1. inst' \in 1..MaxInstances
        BY <3>3, BoundsAssumption DEF Installed, TypeOK
      <4>2. guest' \in Guests /\ pending' \in Seq(Inputs)
        BY <3>3, NoReloadType DEF Installed
      <4>3. QED
        BY <2>10, <3>1, <3>3, <4>1, <4>2 DEF RestartGuest, Installed, TypeOK
    <3>4. QED
      BY <2>10, <3>2, <3>3 DEF RestartGuest
  <2>11. CASE StartReload
    <3>1. reload' \in Reloads
      BY <2>11, NoReloadType DEF StartReload, Reloads
    <3>2. QED
      BY <2>11, <3>1 DEF StartReload, TypeOK, host, window, answers, frame
  <2>12. CASE Capture
    <3>1. Restored(guest.done) \in Guests
      BY RestoredType DEF TypeOK, Guests
    <3>2. reload' \in Reloads
      <4>1. reload \in Reloads /\ inst \in 0..MaxInstances
        BY BoundsAssumption DEF TypeOK
      <4>2. QED
        BY <2>12, <3>1, <4>1 DEF Capture, Reloads
    <3>3. QED
      BY <2>12, <3>2 DEF Capture, TypeOK, host, window, answers, frame
  <2>13. CASE Prepare
    <3>1. reload.guest \in Guests /\ <<>> \in Seq(Inputs)
      BY DEF TypeOK, Reloads
    <3>2. PICK c \in Turns(reload.guest, <<>>, {}, TRUE) :
            reload' = [reload EXCEPT
                         !.stage = "ready",
                         !.guest = Ticked(reload.guest, <<>>, {}, c),
                         !.requests = {t \in c.ask :
                                         t.id \notin Cancelled(reload.guest, {}, c)},
                         !.cancels = Cancelled(reload.guest, {}, c)]
      BY <2>13 DEF Prepare
    <3>3. /\ Ticked(reload.guest, <<>>, {}, c) \in Guests
          /\ Cancelled(reload.guest, {}, c) \subseteq Ids
          /\ c.ask \subseteq Tasks
      BY <3>1, TickedType, TurnType
    <3>4. reload' \in Reloads
      BY <3>2, <3>3 DEF TypeOK, Reloads
    <3>5. QED
      BY <2>13, <3>4 DEF Prepare, TypeOK, host, window, answers, frame
  <2>14. CASE Refuse
    BY <2>14, NoReloadType DEF Refuse, TypeOK, host, window, answers, frame
  <2>15. CASE Commit
    <3>1. reload' \in Reloads
      BY <2>15, NoReloadType DEF Commit
    <3>2. CASE UNCHANGED <<guest, host, mounted>>
      BY <2>15, <3>1, <3>2 DEF Commit, TypeOK, host, answers, frame
    <3>3. CASE /\ inst < MaxInstances
               /\ Installed(reload.guest, reload.guest.view)
               /\ staged' = TRUE
               /\ requests' = reload.requests
               /\ cancels' = reload.cancels
               /\ mounted' = [inst |-> inst + 1, tree |-> reload.guest.view, fresh |-> TRUE]
      <4>1. /\ reload.guest \in Guests
            /\ reload.guest.view \in Tree \cup {NoTree}
            /\ reload.requests \subseteq Tasks /\ reload.cancels \subseteq Ids
        BY DEF TypeOK, Reloads, Guests
      <4>2. inst + 1 \in 1..MaxInstances
        BY <3>3, BoundsAssumption DEF TypeOK
      <4>3. mounted' \in Mounts /\ pending' \in Seq(Inputs)
        BY <3>3, <4>1, <4>2 DEF Installed, Mounts
      <4>4. QED
        BY <2>15, <3>1, <3>3, <4>1, <4>2, <4>3 DEF Commit, Installed, TypeOK, Mounts
    <3>4. QED
      BY <2>15, <3>2, <3>3 DEF Commit
  <2>16. QED
    BY <2>1, <2>2, <2>3, <2>4, <2>5, <2>6, <2>7, <2>8, <2>9, <2>10, <2>11,
       <2>12, <2>13, <2>14, <2>15 DEF Next
<1>3. QED
  BY <1>1, <1>2, PTL DEF Spec

-----------------------------------------------------------------------------
(***************************************************************************)
(* The base of patches.                                                    *)
(***************************************************************************)

LEMMA TickBase ==
  ASSUME TypeOK, HeldIsBase, Alive, NEW replies, NEW stirred,
         NEW c \in Turns(guest, pending, replies, stirred), Tick(replies, c)
  PROVE  ~resync' => held' = guest'.view
<1>. DEFINE from == IF resync THEN NoTree ELSE guest.view
<1>1. guest \in Guests /\ resync \in BOOLEAN
  BY DEF TypeOK
<1>2. c.view \in Tree
  BY <1>1, TurnType
<1>3. guest'.view = c.view
  BY DEF Tick, Ticked
<1>4. PICK m \in Merges(from, c.view) : held' = m.held /\ resync' = m.resync
  BY Zenon DEF Tick
<1>5. from = NoTree \/ from = held
  BY DEF HeldIsBase
<1>6. (IF from = c.view THEN {held}
       ELSE {c.view} \cup IF from = NoTree THEN {} ELSE Patched(from, c.view)) = {c.view}
  BY <1>2, <1>5, TreesAssumption DEF Patched
<1>. HIDE DEF from
<1>7. m.held = c.view \/ m.resync = TRUE
  BY <1>4, <1>6 DEF Merges
<1>8. QED
  BY <1>3, <1>4, <1>7

\* No patch is applied to another tree than the one it was made from, however
\* often frames are refused and instances replaced or restarted in between.
THEOREM BaseHeld == Spec => []HeldIsBase
<1>1. Init => HeldIsBase
  BY DEF Init, HeldIsBase, Restored
<1>2. TypeOK /\ HeldIsBase /\ [Next]_vars => HeldIsBase'
  <2>. SUFFICES ASSUME TypeOK, HeldIsBase, [Next]_vars PROVE HeldIsBase'
    OBVIOUS
  <2>1. CASE Redraw
    <3>1. Alive
      BY <2>1 DEF Redraw, Live, Alive
    <3>2. CASE Trap
      BY <3>2 DEF Trap, HeldIsBase, Alive
    <3>3. ASSUME NEW replies, NEW stirred, NEW c \in Turns(guest, pending, replies, stirred),
                 Tick(replies, c)
          PROVE  HeldIsBase'
      BY <3>1, <3>3, TickBase DEF HeldIsBase
    <3>4. QED
      BY <2>1, <3>2, <3>3 DEF Redraw
  <2>2. CASE RestartGuest \/ Commit
    <3>1. CASE UNCHANGED <<guest, host>>
      BY <2>2, <3>1 DEF RestartGuest, Commit, HeldIsBase, Alive, host
    <3>2. CASE Installed(Restored(<<>>), NoTree)
      BY <3>2 DEF Installed, Restored, HeldIsBase
    <3>3. CASE Installed(reload.guest, reload.guest.view)
      BY <3>3 DEF Installed, HeldIsBase
    <3>4. QED
      BY <2>2, <3>1, <3>2, <3>3 DEF RestartGuest, Commit
  <2>3. CASE Close
    BY <2>3 DEF Close, HeldIsBase, Alive
  <2>4. CASE Skip \/ RedrawStaged \/ Rebuild \/ Input \/ \E i \in Ids : Wake(i)
    BY <2>4 DEF Skip, RedrawStaged, Rebuild, Input, Wake, HeldIsBase, Alive, host, window
  <2>5. CASE Press \/ StartReload \/ Capture \/ Prepare \/ Refuse
    BY <2>5 DEF Press, StartReload, Capture, Prepare, Refuse, HeldIsBase, Alive, host, window
  <2>6. CASE UNCHANGED vars
    BY <2>6 DEF HeldIsBase, Alive, vars, host, window
  <2>7. QED
    BY <2>1, <2>2, <2>3, <2>4, <2>5, <2>6 DEF Next
<1>3. QED
  BY <1>1, <1>2, TypeCorrect, PTL DEF Spec

-----------------------------------------------------------------------------
(***************************************************************************)
(* What a replacement may retire.                                          *)
(***************************************************************************)

\* While nobody ticked the captured instance, it is as it was captured.
Unmoved ==
  /\ reload.of \in 0..inst
  /\ reload.stage \in {"captured", "ready"} /\ reload.of = inst /\ ~reload.moved => Still

\* An instance is only retired while it does nothing that could be lost: what
\* is asked at the capture still holds at the swap.
THEOREM WorkRetired == Spec => RetiresNoWork
<1>1. Init => Unmoved
  BY DEF Init, NoReload, Unmoved
<1>2. TypeOK /\ Unmoved /\ [Next]_vars => Unmoved'
  <2>. SUFFICES ASSUME TypeOK, Unmoved, [Next]_vars PROVE Unmoved'
    OBVIOUS
  <2>. inst \in Nat /\ reload \in Reloads
    BY BoundsAssumption DEF TypeOK
  <2>1. CASE Redraw
    <3>1. /\ reload' = [reload EXCEPT !.moved = reload.moved \/ reload.of = inst]
          /\ inst' = inst
      BY <2>1 DEF Redraw
    <3>2. reload'.of = reload.of /\ (reload.of = inst => reload'.moved)
      BY <3>1 DEF Reloads
    <3>3. QED
      BY <3>1, <3>2 DEF Unmoved
  <2>2. CASE RestartGuest \/ Commit
    BY <2>2 DEF RestartGuest, Commit, Installed, NoReload, Unmoved, Still, host
  <2>3. CASE Close
    BY <2>3 DEF Close, TypeOK, Guests, Unmoved, Still
  <2>4. CASE Skip \/ RedrawStaged \/ Rebuild \/ Input \/ Press \/ \E i \in Ids : Wake(i)
    BY <2>4 DEF Skip, RedrawStaged, Rebuild, Input, Press, Wake, Unmoved, Still, host, window
  <2>5. CASE StartReload \/ Capture \/ Refuse
    <3>1. CASE Capture
      <4>1. Still /\ UNCHANGED <<guest, inst>> /\ reload'.of = inst
        BY <3>1 DEF Capture, host, Reloads
      <4>2. QED
        BY <4>1 DEF Unmoved, Still
    <3>2. CASE StartReload \/ Refuse
      <4>1. reload'.of = 0 /\ reload'.stage \in {"none", "compiling"} /\ inst' = inst
        BY <3>2 DEF StartReload, Refuse, NoReload, host
      <4>2. QED
        BY <4>1 DEF Unmoved
    <3>3. QED
      BY <2>5, <3>1, <3>2
  <2>6. CASE Prepare
    <3>1. reload'.of = reload.of /\ reload'.moved = reload.moved /\ reload.stage = "captured"
      BY <2>6 DEF Prepare, Reloads
    <3>2. QED
      BY <2>6, <3>1 DEF Prepare, Unmoved, Still, host
  <2>7. CASE UNCHANGED vars
    BY <2>7 DEF Unmoved, Still, vars, host, window
  <2>8. QED
    BY <2>1, <2>2, <2>3, <2>4, <2>5, <2>6, <2>7 DEF Next
<1>3. TypeOK /\ Unmoved /\ [Next]_vars =>
        [inst' = inst \/ fault \/
         (pending = <<>> /\ guest.ready = {} /\ \A t \in guest.waiting : t.kind = "stream")]_vars
  <2>. SUFFICES ASSUME Unmoved, Next, inst' # inst, ~fault
                PROVE  pending = <<>> /\ Still
    BY DEF Still, vars, host
  <2>1. CASE Commit
    BY <2>1 DEF Commit, Fits, Settled, Unmoved, host
  <2>2. CASE RestartGuest
    BY <2>2 DEF RestartGuest, host
  <2>3. QED
    BY <2>1, <2>2 DEF Next, Skip, RedrawStaged, Redraw, Rebuild, Input, Wake, Close, Press,
       StartReload, Capture, Prepare, Refuse, host
<1>4. QED
  BY <1>1, <1>2, <1>3, TypeCorrect, PTL DEF Spec, RetiresNoWork

-----------------------------------------------------------------------------
(***************************************************************************)
(* The place of each request.                                              *)
(***************************************************************************)

\* i is in exactly one of four sets.
InOne(i, a, b, c, d) ==
  \/ i \in a /\ i \notin b /\ i \notin c /\ i \notin d
  \/ i \notin a /\ i \in b /\ i \notin c /\ i \notin d
  \/ i \notin a /\ i \notin b /\ i \in c /\ i \notin d
  \/ i \notin a /\ i \notin b /\ i \notin c /\ i \in d

Distinct(ops) == \A v, w \in ops : v.id = w.id => v = w

\* Between two redraws of an app that has had its first frame.
Places ==
  /\ \A i \in IdsOf(guest.waiting) : InOne(i, due, sleeping, IdsOf(widgets), streams)
  /\ sleeping \cup streams \cup IdsOf(widgets) \subseteq IdsOf(guest.waiting)
  /\ Distinct(widgets)

\* The app's slots are of requests that were answered by none yet.
Numbered ==
  /\ \A t \in guest.waiting : t.kind # "notify" /\ t.id < guest.next
  /\ \A i \in due : i < guest.next

\* What a replacement brings with it: its first frame.
FirstFrame(g, asked, dropped) ==
  /\ \A t \in g.waiting : t \in asked /\ t.kind # "notify"
  /\ \A t \in asked : t.kind # "notify" => t \in g.waiting
  /\ \A t \in asked : t.id \notin dropped /\ t.id < g.next
  /\ Distinct(asked)

\* What the host does with the requests of a frame.
LEMMA SortedOnce ==
  ASSUME NEW asked, NEW dropped, NEW later, NEW asleep, NEW ops, NEW kept, NEW fresh,
         Answered(asked, dropped, later, asleep, ops, kept, fresh),
         Distinct(ops \cup {[id |-> i, current |-> TRUE] : i \in OfKind(asked, {"widget"})})
  PROVE  /\ \A i : i \notin dropped /\
                   InOne(i, later \cup OfKind(asked, {"answer", "notify"}),
                            asleep \cup OfKind(asked, {"sleep"}),
                            IdsOf(ops) \cup OfKind(asked, {"widget"}),
                            kept \cup OfKind(asked, {"stream"}))
                   => InOne(i, due', sleeping', IdsOf(widgets'), streams')
         /\ sleeping' = (asleep \cup OfKind(asked, {"sleep"})) \ dropped
         /\ streams' = (kept \cup OfKind(asked, {"stream"})) \ dropped
         /\ IdsOf(widgets') \subseteq (IdsOf(ops) \cup OfKind(asked, {"widget"})) \ dropped
         /\ \A i \in due' : \/ i \in later \cup OfKind(asked, {"answer", "notify"})
                            \/ i \in IdsOf(ops) \cup OfKind(asked, {"widget"})
         /\ Distinct(widgets')
<1>. DEFINE all == ops \cup {[id |-> i, current |-> TRUE] : i \in OfKind(asked, {"widget"})}
            left == {w \in all : w.id \notin dropped}
            ran == Executed(left, fresh)
            wid == IdsOf(ops) \cup OfKind(asked, {"widget"})
<1>1. /\ due' = ((later \cup OfKind(asked, {"answer", "notify"})) \ dropped) \cup IdsOf(ran)
      /\ sleeping' = (asleep \cup OfKind(asked, {"sleep"})) \ dropped
      /\ streams' = (kept \cup OfKind(asked, {"stream"})) \ dropped
      /\ widgets' = left \ ran
  BY DEF Answered
<1>2. IdsOf(all) = wid
  <2>. DEFINE new == {[id |-> i, current |-> TRUE] : i \in OfKind(asked, {"widget"})}
  <2>1. IdsOf(new) = OfKind(asked, {"widget"})
    <3>1. \A i \in OfKind(asked, {"widget"}) : [id |-> i, current |-> TRUE].id = i
      OBVIOUS
    <3>. HIDE DEF wid
    <3>2. QED
      BY <3>1, Zenon DEF IdsOf
  <2>2. IdsOf(ops \cup new) = IdsOf(ops) \cup IdsOf(new)
    <3>. HIDE DEF new
    <3>1. QED
      BY DEF IdsOf
  <2>3. QED
    BY <2>1, <2>2
<1>3. IdsOf(left) = wid \ dropped
  BY <1>2 DEF IdsOf
<1>4. ran \subseteq left /\ Distinct(left)
  BY DEF Executed, Distinct
<1>5. /\ IdsOf(left \ ran) \cup IdsOf(ran) = IdsOf(left)
      /\ \A i \in IdsOf(ran) : i \notin IdsOf(left \ ran)
  BY <1>4 DEF IdsOf, Distinct
<1>6. Distinct(widgets')
  BY <1>1, <1>4 DEF Distinct
<1>. HIDE DEF left, ran, wid
<1>7. ASSUME NEW i, i \notin dropped,
             InOne(i, later \cup OfKind(asked, {"answer", "notify"}),
                      asleep \cup OfKind(asked, {"sleep"}), wid,
                      kept \cup OfKind(asked, {"stream"}))
      PROVE  InOne(i, due', sleeping', IdsOf(widgets'), streams')
  BY <1>1, <1>3, <1>5, <1>7 DEF InOne
<1>8. /\ IdsOf(widgets') \subseteq wid \ dropped
      /\ \A i \in due' : i \in later \cup OfKind(asked, {"answer", "notify"}) \/ i \in wid
  BY <1>1, <1>3, <1>5
<1>9. QED
  BY <1>1, <1>6, <1>7, <1>8 DEF wid

\* The one request of a turn is of one kind.
LEMMA AskedOnce ==
  ASSUME NEW g \in Guests, NEW batch, NEW replies, NEW stirred,
         NEW c \in Turns(g, batch, replies, stirred), c.ask # {}
  PROVE  \E k \in Kinds :
           /\ c.ask = {[id |-> g.next, kind |-> k]}
           /\ \A kinds : OfKind(c.ask, kinds) = IF k \in kinds THEN {g.next} ELSE {}
<1>1. PICK k \in Kinds : c.ask = {[id |-> g.next, kind |-> k]}
  BY TurnType
<1>2. ASSUME NEW kinds PROVE OfKind(c.ask, kinds) = IF k \in kinds THEN {g.next} ELSE {}
  <2>1. \A u : u \in c.ask <=> u = [id |-> g.next, kind |-> k]
    BY <1>1
  <2>2. \A i : i \in OfKind(c.ask, kinds) <=> \E u \in c.ask : u.kind \in kinds /\ u.id = i
    BY DEF OfKind
  <2>3. \A i : i \in OfKind(c.ask, kinds) <=> k \in kinds /\ i = g.next
    BY <2>1, <2>2
  <2>4. QED
    BY <2>3
<1>3. QED
  BY <1>1, <1>2

\* A tick answers, keeps or cancels what it finds, and gives the new request
\* one place, whatever becomes of the frame.
LEMMA TickPlaces ==
  ASSUME TypeOK, Places, Numbered, NEW stirred,
         NEW replies, replies = due \cup IdsOf(Executed(widgets, mounted.fresh)),
         NEW c \in Turns(guest, pending, replies, stirred), Tick(replies, c)
  PROVE  Places' /\ Numbered'
<1>. DEFINE ops == widgets \ Executed(widgets, mounted.fresh)
            stale == {[w EXCEPT !.current = FALSE] : w \in ops}
            gone == Cancelled(guest, replies, c)
            new == {[id |-> i, current |-> TRUE] : i \in OfKind(c.ask, {"widget"})}
<1>1. /\ guest \in Guests /\ guest.next \in Nat /\ guest.waiting \subseteq Tasks
      /\ widgets \subseteq Ops
  BY BoundsAssumption DEF TypeOK, Guests, Ops
<1>2. PICK fresh, m \in BOOLEAN :
        Answered(c.ask, gone, {}, sleeping, IF m THEN stale ELSE ops, streams, fresh)
  <2>1. PICK n \in Merges(IF resync THEN NoTree ELSE guest.view, c.view) :
          Answered(c.ask, gone, {}, sleeping, IF n.redrawn THEN stale ELSE ops, streams,
                   mounted.fresh /\ ~n.redrawn)
    BY Zenon DEF Tick
  <2>2. n.redrawn \in BOOLEAN
    BY <2>1 DEF Merges
  <2>3. QED
    BY <2>1, <2>2
<1>. DEFINE kept == IF m THEN stale ELSE ops
<1>3. /\ IdsOf(kept) = IdsOf(ops) /\ Distinct(kept)
      /\ IdsOf(ops) = IdsOf(widgets) \ IdsOf(Executed(widgets, mounted.fresh))
      /\ IdsOf(Executed(widgets, mounted.fresh)) \subseteq IdsOf(widgets)
  <2>1. Distinct(widgets) /\ Executed(widgets, mounted.fresh) \subseteq widgets
    BY DEF Places, Executed
  <2>2. /\ IdsOf(ops) = IdsOf(widgets) \ IdsOf(Executed(widgets, mounted.fresh))
        /\ Distinct(ops)
    BY <2>1 DEF IdsOf, Distinct
  <2>3. \A w \in ops : [w EXCEPT !.current = FALSE].id = w.id
    BY <1>1 DEF Ops
  <2>. HIDE DEF ops
  <2>4. IdsOf(stale) = IdsOf(ops)
    <3>1. \A i : i \in IdsOf(stale) <=> \E w \in ops : [w EXCEPT !.current = FALSE].id = i
      BY DEF IdsOf
    <3>2. \A i : i \in IdsOf(ops) <=> \E w \in ops : w.id = i
      BY DEF IdsOf
    <3>3. \A i : i \in IdsOf(stale) <=> i \in IdsOf(ops)
      BY <2>3, <3>1, <3>2
    <3>4. QED
      BY <3>3
  <2>5. Distinct(stale)
    <3>. SUFFICES ASSUME NEW v \in stale, NEW w \in stale, v.id = w.id PROVE v = w
      BY DEF Distinct
    <3>1. PICK x \in ops : v = [x EXCEPT !.current = FALSE]
      OBVIOUS
    <3>2. PICK y \in ops : w = [y EXCEPT !.current = FALSE]
      OBVIOUS
    <3>3. x = y
      BY <2>2, <2>3, <3>1, <3>2 DEF Distinct
    <3>4. QED
      BY <3>1, <3>2, <3>3
  <2>6. IdsOf(Executed(widgets, mounted.fresh)) \subseteq IdsOf(widgets)
    BY <2>1 DEF IdsOf
  <2>7. QED
    BY <2>2, <2>4, <2>5, <2>6
<1>4. /\ guest'.waiting = {t \in guest.waiting \cup c.ask :
                             t.kind # "notify" /\ t.id \notin replies \cup c.drop}
      /\ guest'.next = IF c.ask = {} THEN guest.next ELSE guest.next + 1
  BY DEF Tick, Ticked
<1>5. \A i \in IdsOf(guest.waiting) \cup due : i < guest.next
  BY DEF Numbered, IdsOf
<1>6. \A i \in sleeping \cup streams \cup IdsOf(widgets) : i \in IdsOf(guest.waiting) /\ i < guest.next
  BY <1>5 DEF Places
<1>7. \A kinds : OfKind(c.ask, kinds) \subseteq {guest.next}
  BY <1>1, AskedOnce DEF OfKind
<1>8. Distinct(kept \cup new)
  <2>1. \A v \in kept : v.id # guest.next
    BY <1>1, <1>3, <1>6 DEF IdsOf
  <2>2. \A v \in new : v.id = guest.next /\ v = [id |-> guest.next, current |-> TRUE]
    BY <1>7
  <2>. HIDE DEF kept, new
  <2>3. QED
    BY <1>3, <2>1, <2>2 DEF Distinct
<1>. HIDE DEF kept
<1>9. /\ \A i : i \notin gone /\
                InOne(i, {} \cup OfKind(c.ask, {"answer", "notify"}),
                         sleeping \cup OfKind(c.ask, {"sleep"}),
                         IdsOf(ops) \cup OfKind(c.ask, {"widget"}),
                         streams \cup OfKind(c.ask, {"stream"}))
                => InOne(i, due', sleeping', IdsOf(widgets'), streams')
      /\ sleeping' = (sleeping \cup OfKind(c.ask, {"sleep"})) \ gone
      /\ streams' = (streams \cup OfKind(c.ask, {"stream"})) \ gone
      /\ IdsOf(widgets') \subseteq (IdsOf(ops) \cup OfKind(c.ask, {"widget"})) \ gone
      /\ \A i \in due' : \/ i \in {} \cup OfKind(c.ask, {"answer", "notify"})
                         \/ i \in IdsOf(ops) \cup OfKind(c.ask, {"widget"})
      /\ Distinct(widgets')
  <2>1. Answered(c.ask, gone, {}, sleeping, kept, streams, fresh)
    BY <1>2 DEF kept
  <2>. HIDE DEF gone, ops
  <2>2. /\ \A i : i \notin gone /\
                  InOne(i, {} \cup OfKind(c.ask, {"answer", "notify"}),
                           sleeping \cup OfKind(c.ask, {"sleep"}),
                           IdsOf(kept) \cup OfKind(c.ask, {"widget"}),
                           streams \cup OfKind(c.ask, {"stream"}))
                  => InOne(i, due', sleeping', IdsOf(widgets'), streams')
        /\ sleeping' = (sleeping \cup OfKind(c.ask, {"sleep"})) \ gone
        /\ streams' = (streams \cup OfKind(c.ask, {"stream"})) \ gone
        /\ IdsOf(widgets') \subseteq (IdsOf(kept) \cup OfKind(c.ask, {"widget"})) \ gone
        /\ \A i \in due' : \/ i \in {} \cup OfKind(c.ask, {"answer", "notify"})
                           \/ i \in IdsOf(kept) \cup OfKind(c.ask, {"widget"})
        /\ Distinct(widgets')
    BY <1>8, <2>1, SortedOnce, Zenon
  <2>3. IdsOf(kept) = IdsOf(ops)
    BY <1>3
  <2>4. QED
    BY <2>2, <2>3, Zenon
<1>10. \A i \in IdsOf(guest'.waiting) : InOne(i, due', sleeping', IdsOf(widgets'), streams')
  <2>. SUFFICES ASSUME NEW t \in guest'.waiting
                PROVE  InOne(t.id, due', sleeping', IdsOf(widgets'), streams')
    BY DEF IdsOf
  <2>1. t.id \notin gone
    BY <1>4 DEF Cancelled
  <2>2. CASE t \in guest.waiting
    <3>1. InOne(t.id, due, sleeping, IdsOf(widgets), streams) /\ t.id # guest.next
      BY <1>1, <1>5, <2>2 DEF Places, IdsOf
    <3>2. t.id \notin due /\ t.id \notin IdsOf(Executed(widgets, mounted.fresh))
      BY <1>4
    <3>. HIDE DEF ops, gone
    <3>3. QED
      BY <1>3, <1>7, <1>9, <2>1, <3>1, <3>2 DEF InOne
  <2>3. CASE t \in c.ask
    <3>1. PICK k \in Kinds :
            /\ c.ask = {[id |-> guest.next, kind |-> k]}
            /\ \A kinds : OfKind(c.ask, kinds) = IF k \in kinds THEN {guest.next} ELSE {}
      BY <1>1, <2>3, AskedOnce
    <3>2. t.id = guest.next /\ k \in {"answer", "sleep", "widget", "stream"}
      BY <1>4, <2>3, <3>1 DEF Kinds
    <3>. HIDE DEF ops, gone
    <3>3. t.id \notin sleeping /\ t.id \notin streams /\ t.id \notin IdsOf(ops)
      <4>1. ~(guest.next < guest.next)
        BY <1>1
      <4>2. QED
        BY <1>3, <1>6, <3>2, <4>1
    <3>4. /\ OfKind(c.ask, {"answer", "notify"}) = IF k = "answer" THEN {t.id} ELSE {}
          /\ OfKind(c.ask, {"sleep"}) = IF k = "sleep" THEN {t.id} ELSE {}
          /\ OfKind(c.ask, {"widget"}) = IF k = "widget" THEN {t.id} ELSE {}
          /\ OfKind(c.ask, {"stream"}) = IF k = "stream" THEN {t.id} ELSE {}
      BY <3>1, <3>2
    <3>5. InOne(t.id, {} \cup OfKind(c.ask, {"answer", "notify"}),
                sleeping \cup OfKind(c.ask, {"sleep"}),
                IdsOf(ops) \cup OfKind(c.ask, {"widget"}),
                streams \cup OfKind(c.ask, {"stream"}))
      BY <3>2, <3>3, <3>4 DEF InOne
    <3>6. QED
      BY <1>9, <2>1, <3>5
  <2>4. QED
    BY <1>4, <2>2, <2>3
<1>11. sleeping' \cup streams' \cup IdsOf(widgets') \subseteq IdsOf(guest'.waiting)
  <2>. SUFFICES ASSUME NEW i \in sleeping' \cup streams' \cup IdsOf(widgets')
                PROVE  i \in IdsOf(guest'.waiting)
    OBVIOUS
  <2>1. /\ i \notin gone
        /\ i \in sleeping \cup streams \cup IdsOf(ops) \cup OfKind(c.ask, {"sleep", "stream", "widget"})
    BY <1>9, Zenon DEF OfKind
  <2>2. CASE i \in sleeping \cup streams \cup IdsOf(ops)
    <3>1. PICK t \in guest.waiting : t.id = i
      BY <1>3, <1>6, <2>2 DEF IdsOf
    <3>2. i \notin replies
      BY <1>3, <2>2, <3>1 DEF Places, InOne, IdsOf
    <3>3. t.kind # "notify"
      BY DEF Numbered
    <3>4. QED
      BY <1>4, <2>1, <3>1, <3>2, <3>3 DEF Cancelled, IdsOf
  <2>3. CASE i \in OfKind(c.ask, {"sleep", "stream", "widget"})
    <3>1. PICK t \in c.ask : t.id = i /\ t.kind # "notify"
      BY <2>3 DEF OfKind
    <3>2. i = guest.next
      BY <1>7, <2>3
    <3>3. i \notin replies
      BY <1>1, <1>3, <1>5, <1>6, <3>2
    <3>4. QED
      BY <1>4, <2>1, <3>1, <3>3 DEF Cancelled, IdsOf
  <2>4. QED
    BY <2>1, <2>2, <2>3
<1>12. Numbered'
  <2>1. c.ask = {} \/ guest'.next = guest.next + 1
    BY <1>4
  <2>2. \A t \in guest'.waiting : t.kind # "notify" /\ t.id < guest'.next
    <3>1. \A t \in c.ask : t.id = guest.next
      BY <1>1, TurnType
    <3>2. \A t \in guest.waiting : t.id < guest.next /\ t.id \in Nat
      BY <1>1 DEF Numbered, Tasks, Ids
    <3>3. QED
      BY <1>1, <1>4, <3>1, <3>2
  <2>3. \A i \in due' : i < guest'.next
    <3>1. \A i \in due' : i \in IdsOf(ops) \/ i \in OfKind(c.ask, {"answer", "notify", "widget"})
      BY <1>9, Zenon DEF OfKind
    <3>2. \A i \in OfKind(c.ask, {"answer", "notify", "widget"}) : i = guest.next /\ c.ask # {}
      BY <1>7 DEF OfKind
    <3>3. \A i \in IdsOf(ops) : i < guest.next /\ i \in Nat
      BY <1>1, <1>3, <1>6 DEF IdsOf, Ops, Ids
    <3>4. QED
      <4>. SUFFICES ASSUME NEW i \in due' PROVE i < guest'.next
        OBVIOUS
      <4>1. CASE i \in IdsOf(ops)
        BY <1>1, <1>4, <3>3, <4>1
      <4>2. CASE i \in OfKind(c.ask, {"answer", "notify", "widget"})
        BY <1>1, <2>1, <3>2, <4>2
      <4>3. QED
        BY <3>1, <4>1, <4>2
  <2>4. QED
    BY <2>2, <2>3 DEF Numbered
<1>13. QED
  BY <1>9, <1>10, <1>11, <1>12 DEF Places

NoneHeld == due = {} /\ sleeping = {} /\ widgets = {} /\ streams = {}

\* The first redraw of a replacement gives the requests of its first frame
\* their places.
LEMMA FirstPlaces ==
  ASSUME TypeOK, NoneHeld, FirstFrame(guest, requests, cancels), RedrawStaged
  PROVE  Places' /\ Numbered'
<1>. DEFINE new == {[id |-> i, current |-> TRUE] : i \in OfKind(requests, {"widget"})}
<1>1. Answered(requests, cancels, {}, {}, {}, {}, mounted.fresh) /\ guest' = guest
  <2>1. Executed({}, mounted.fresh) = {} /\ IdsOf({}) = {}
    BY DEF Executed, IdsOf
  <2>2. /\ {} \cup IdsOf(Executed({}, mounted.fresh)) = {}
        /\ {} \ Executed({}, mounted.fresh) = {}
    BY <2>1
  <2>3. /\ Answered(requests, cancels, due \cup IdsOf(Executed(widgets, mounted.fresh)), sleeping,
                    widgets \ Executed(widgets, mounted.fresh), streams, mounted.fresh)
        /\ guest' = guest
    BY Zenon DEF RedrawStaged
  <2>4. QED
    BY <2>2, <2>3, Zenon DEF NoneHeld
<1>2. Distinct({} \cup new)
  <2>1. \A v \in new : v = [id |-> v.id, current |-> TRUE]
    OBVIOUS
  <2>. HIDE DEF new
  <2>2. QED
    BY <2>1 DEF Distinct
<1>3. /\ \A i : i \notin cancels /\
                InOne(i, {} \cup OfKind(requests, {"answer", "notify"}),
                         {} \cup OfKind(requests, {"sleep"}),
                         IdsOf({}) \cup OfKind(requests, {"widget"}),
                         {} \cup OfKind(requests, {"stream"}))
                => InOne(i, due', sleeping', IdsOf(widgets'), streams')
      /\ sleeping' = ({} \cup OfKind(requests, {"sleep"})) \ cancels
      /\ streams' = ({} \cup OfKind(requests, {"stream"})) \ cancels
      /\ IdsOf(widgets') \subseteq (IdsOf({}) \cup OfKind(requests, {"widget"})) \ cancels
      /\ \A i \in due' : \/ i \in {} \cup OfKind(requests, {"answer", "notify"})
                         \/ i \in IdsOf({}) \cup OfKind(requests, {"widget"})
      /\ Distinct(widgets')
  BY <1>1, <1>2, SortedOnce, Zenon
<1>4. IdsOf({}) = {}
  BY DEF IdsOf
<1>5. \A i \in IdsOf(guest'.waiting) : InOne(i, due', sleeping', IdsOf(widgets'), streams')
  <2>. SUFFICES ASSUME NEW t \in guest.waiting
                PROVE  InOne(t.id, due', sleeping', IdsOf(widgets'), streams')
    BY <1>1 DEF IdsOf
  <2>1. t \in requests /\ t.id \notin cancels /\ t.kind \in Kinds
    BY DEF FirstFrame, TypeOK, Tasks
  <2>2. \A kinds : t.id \in OfKind(requests, kinds) <=> t.kind \in kinds
    BY <2>1 DEF OfKind, FirstFrame, Distinct
  <2>3. /\ t.id \in OfKind(requests, {"answer", "notify"}) <=> t.kind \in {"answer", "notify"}
        /\ t.id \in OfKind(requests, {"sleep"}) <=> t.kind = "sleep"
        /\ t.id \in OfKind(requests, {"widget"}) <=> t.kind = "widget"
        /\ t.id \in OfKind(requests, {"stream"}) <=> t.kind = "stream"
    BY <2>2
  <2>4. InOne(t.id, {} \cup OfKind(requests, {"answer", "notify"}),
              {} \cup OfKind(requests, {"sleep"}),
              IdsOf({}) \cup OfKind(requests, {"widget"}),
              {} \cup OfKind(requests, {"stream"}))
    BY <1>4, <2>1, <2>3 DEF InOne, Kinds
  <2>5. QED
    BY <1>3, <2>1, <2>4
<1>6. sleeping' \cup streams' \cup IdsOf(widgets') \subseteq IdsOf(guest'.waiting)
  <2>. SUFFICES ASSUME NEW i \in OfKind(requests, {"sleep", "stream", "widget"})
                PROVE  i \in IdsOf(guest.waiting)
    BY <1>1, <1>3, <1>4 DEF OfKind
  <2>1. PICK t \in requests : t.id = i /\ t.kind # "notify"
    BY DEF OfKind
  <2>2. QED
    BY <2>1 DEF FirstFrame, IdsOf
<1>7. Numbered'
  <2>1. \A i \in due' : \E t \in requests : t.id = i
    BY <1>3, <1>4 DEF OfKind
  <2>2. \A t \in guest.waiting : t.kind # "notify"
    BY DEF FirstFrame
  <2>3. QED
    BY <1>1, <2>1, <2>2 DEF Numbered, FirstFrame
<1>8. QED
  BY <1>3, <1>5, <1>6, <1>7 DEF Places

\* The frame a candidate is prepared with has a request for each of its slots.
LEMMA CandidateFrame ==
  ASSUME NEW g \in Guests, g.waiting = {}, NEW batch, NEW stirred,
         NEW c \in Turns(g, batch, {}, stirred)
  PROVE  LET dropped == Cancelled(g, {}, c)
         IN FirstFrame(Ticked(g, batch, {}, c), {t \in c.ask : t.id \notin dropped}, dropped)
<1>. DEFINE dropped == Cancelled(g, {}, c)
            next == IF c.ask = {} THEN g.next ELSE g.next + 1
            waiting == {t \in c.ask : t.kind # "notify" /\ t.id \notin c.drop}
<1>1. Ticked(g, batch, {}, c).waiting = waiting /\ Ticked(g, batch, {}, c).next = next
  BY DEF Ticked
<1>2. dropped = {t.id : t \in {u \in c.ask : u.kind # "notify" /\ u.id \in c.drop}}
  BY DEF Cancelled
<1>3. \A t \in c.ask : t.id < next
  BY TurnType, BoundsAssumption DEF Guests
<1>4. \A t, u \in c.ask : t = u
  BY TurnType
<1>5. \A t \in waiting : t.id \notin dropped
  BY <1>2
<1>6. \A t \in c.ask : t.kind # "notify" /\ t.id \notin dropped => t \in waiting
  BY <1>2
<1>. HIDE DEF dropped, next
<1>7. FirstFrame(Ticked(g, batch, {}, c), {t \in c.ask : t.id \notin dropped}, dropped)
  BY <1>1, <1>3, <1>4, <1>5, <1>6 DEF FirstFrame, Distinct
<1>8. QED
  BY <1>7 DEF dropped

IInv ==
  /\ ~staged => requests = {}
  /\ Alive /\ ~staged => Places /\ Numbered
  /\ Alive /\ staged => NoneHeld /\ FirstFrame(guest, requests, cancels)
  /\ reload.stage = "captured" => reload.guest.waiting = {}
  /\ reload.stage = "ready" => FirstFrame(reload.guest, reload.requests, reload.cancels)

\* Another instance starts with what it was prepared with, or with nothing.
LEMMA InstalledPlaces ==
  ASSUME IInv, RestartGuest \/ Commit
  PROVE  IInv'
<1>1. CASE UNCHANGED <<guest, host>>
  BY <1>1 DEF RestartGuest, Commit, NoReload, IInv, Alive, Places, Numbered, NoneHeld, host,
     answers, frame
<1>2. CASE RestartGuest /\ Installed(Restored(<<>>), NoTree) /\ staged' = FALSE /\ requests' = {}
  <2>1. guest'.waiting = {} /\ due' = {} /\ sleeping' = {} /\ widgets' = {} /\ streams' = {}
    BY <1>2 DEF Installed, Restored
  <2>2. Places' /\ Numbered'
    BY <2>1 DEF Places, Numbered, Distinct, IdsOf
  <2>3. QED
    BY <1>2, <2>2 DEF IInv, RestartGuest
<1>3. CASE /\ Commit /\ Fits
           /\ Installed(reload.guest, reload.guest.view)
           /\ staged' = TRUE /\ requests' = reload.requests /\ cancels' = reload.cancels
  <2>1. FirstFrame(guest, requests, cancels)'
    BY <1>3 DEF Commit, IInv, Installed
  <2>2. NoneHeld'
    BY <1>3 DEF Installed, NoneHeld
  <2>3. QED
    BY <1>3, <2>1, <2>2 DEF IInv, Commit, NoReload
<1>4. QED
  BY <1>1, <1>2, <1>3 DEF RestartGuest, Commit

LEMMA WakePlaces ==
  ASSUME TypeOK, IInv, NEW i \in Ids, Wake(i)
  PROVE  IInv'
<1>1. /\ i \in sleeping
      /\ sleeping' = sleeping \ {i} /\ due' = due \cup {i}
      /\ UNCHANGED <<guest, fault, widgets, streams, staged, requests, cancels, open, reload>>
  BY DEF Wake, frame, window
<1>2. CASE Alive /\ ~staged
  <2>1. \A j \in IdsOf(guest.waiting) : InOne(j, due', sleeping', IdsOf(widgets), streams)
    BY <1>1, <1>2 DEF IInv, Places, InOne
  <2>2. i \in IdsOf(guest.waiting) /\ i < guest.next
    BY <1>1, <1>2 DEF IInv, Places, Numbered, IdsOf
  <2>3. Places' /\ Numbered'
    BY <1>1, <1>2, <2>1, <2>2 DEF IInv, Places, Numbered
  <2>4. QED
    BY <1>1, <1>2, <2>3 DEF IInv, Alive
<1>3. CASE ~Alive
  BY <1>1, <1>3 DEF IInv, Alive
<1>4. CASE Alive /\ staged
  BY <1>1, <1>4 DEF IInv, NoneHeld
<1>5. QED
  BY <1>2, <1>3, <1>4

LEMMA PlacesKept == Spec => []IInv
<1>1. Init => IInv
  <2>. SUFFICES ASSUME Init PROVE IInv
    OBVIOUS
  <2>1. guest.waiting = {} /\ due = {} /\ sleeping = {} /\ widgets = {} /\ streams = {}
    BY DEF Init, Restored
  <2>2. Places /\ Numbered
    BY <2>1 DEF Places, Numbered, Distinct, IdsOf
  <2>3. QED
    BY <2>2 DEF Init, NoReload, IInv
<1>2. TypeOK /\ IInv /\ [Next]_vars => IInv'
  <2>. SUFFICES ASSUME TypeOK, IInv, [Next]_vars PROVE IInv'
    OBVIOUS
  <2>1. CASE RedrawStaged
    <3>1. Alive /\ staged /\ staged' = FALSE /\ requests' = {} /\ reload' = reload
      BY <2>1 DEF RedrawStaged, Live, Alive
    <3>2. Places' /\ Numbered'
      BY <2>1, <3>1, FirstPlaces DEF IInv
    <3>3. QED
      BY <3>1, <3>2 DEF IInv
  <2>2. CASE Redraw
    <3>1. /\ Alive /\ ~staged /\ open' = open
          /\ staged' = staged /\ requests' = requests
          /\ reload' = [reload EXCEPT !.moved = reload.moved \/ reload.of = inst]
      BY <2>2 DEF Redraw, Live, Alive, frame
    <3>2. /\ reload'.stage = reload.stage /\ reload'.guest = reload.guest
          /\ reload'.requests = reload.requests /\ reload'.cancels = reload.cancels
      BY <3>1 DEF TypeOK, Reloads
    <3>3. Alive' => Places' /\ Numbered'
      <4>1. CASE Trap
        BY <4>1 DEF Trap, Alive
      <4>2. ASSUME NEW stirred, NEW replies,
                   replies = due \cup IdsOf(Executed(widgets, mounted.fresh)),
                   NEW c \in Turns(guest, pending, replies, stirred), Tick(replies, c)
            PROVE  Places' /\ Numbered'
        BY <3>1, <4>2, TickPlaces DEF IInv
      <4>3. QED
        BY <2>2, <4>1, <4>2 DEF Redraw
    <3>4. QED
      BY <3>1, <3>2, <3>3 DEF IInv
  <2>3. ASSUME NEW i \in Ids, Wake(i) PROVE IInv'
    BY <2>3, WakePlaces
  <2>4. CASE RestartGuest \/ Commit
    BY <2>4, InstalledPlaces
  <2>5. CASE Close
    BY <2>5 DEF Close, IInv, Alive, frame
  <2>6. CASE Prepare
    <3>1. reload.guest \in Guests /\ reload.guest.waiting = {}
      BY <2>6 DEF Prepare, IInv, TypeOK, Reloads
    <3>2. PICK c \in Turns(reload.guest, <<>>, {}, TRUE) :
            reload' = [reload EXCEPT
                         !.stage = "ready",
                         !.guest = Ticked(reload.guest, <<>>, {}, c),
                         !.requests = {t \in c.ask :
                                         t.id \notin Cancelled(reload.guest, {}, c)},
                         !.cancels = Cancelled(reload.guest, {}, c)]
      BY <2>6 DEF Prepare
    <3>3. FirstFrame(reload'.guest, reload'.requests, reload'.cancels) /\ reload'.stage = "ready"
      BY <3>1, <3>2, CandidateFrame DEF TypeOK, Reloads
    <3>4. QED
      BY <2>6, <3>3 DEF Prepare, IInv, Alive, Places, Numbered, NoneHeld, host, window, answers,
         frame
  <2>7. CASE StartReload \/ Capture \/ Refuse
    <3>1. reload'.stage # "ready" /\ (reload'.stage = "captured" => reload'.guest.waiting = {})
      <4>1. CASE Capture
        BY <4>1 DEF Capture, Restored, TypeOK, Reloads
      <4>2. CASE StartReload \/ Refuse
        <5>1. reload'.stage \in {"none", "compiling"}
          BY <4>2 DEF StartReload, Refuse, NoReload
        <5>2. QED
          BY <5>1
      <4>3. QED
        BY <2>7, <4>1, <4>2
    <3>2. UNCHANGED <<guest, host, window>>
      BY <2>7 DEF StartReload, Capture, Refuse
    <3>3. QED
      BY <3>1, <3>2 DEF IInv, Alive, Places, Numbered, NoneHeld, host, window, answers, frame
  <2>8. CASE Skip \/ Rebuild \/ Input \/ Press \/ UNCHANGED vars
    <3>1. UNCHANGED <<guest, fault, answers, frame, open, reload>>
      BY <2>8 DEF Skip, Rebuild, Input, Press, vars, host, window, answers, frame
    <3>2. QED
      BY <3>1 DEF IInv, Alive, Places, Numbered, NoneHeld, answers, frame
  <2>9. QED
    BY <2>1, <2>2, <2>3, <2>4, <2>5, <2>6, <2>7, <2>8 DEF Next
<1>3. QED
  BY <1>1, <1>2, TypeCorrect, PTL DEF Spec

\* Each request the app waits for is at one place of the host: no refusal, no
\* frame superseded before it was mounted, no replacement, restart or reuse of
\* an id makes it answered twice or not at all.
THEOREM AwaitedHeld == Spec => []AwaitedIsHeld
<1>1. IInv => AwaitedIsHeld
  <2>. SUFFICES ASSUME IInv, Alive, NEW t \in guest.waiting
                PROVE  \E p \in DOMAIN Kept :
                         t.id \in Kept[p] /\ \A q \in DOMAIN Kept \ {p} : t.id \notin Kept[q]
    BY DEF AwaitedIsHeld
  <2>1. /\ DOMAIN Kept = {"requests", "due", "sleeping", "widgets", "streams"}
        /\ Kept["requests"] = IdsOf(requests) /\ Kept["due"] = due
        /\ Kept["sleeping"] = sleeping /\ Kept["widgets"] = IdsOf(widgets)
        /\ Kept["streams"] = streams
    BY DEF Kept
  <2>2. CASE staged
    <3>1. t.id \in IdsOf(requests) /\ NoneHeld /\ IdsOf(widgets) = {}
      BY <2>2 DEF IInv, FirstFrame, NoneHeld, IdsOf
    <3>2. QED
      BY <2>1, <3>1 DEF NoneHeld
  <2>3. CASE ~staged
    <3>1. InOne(t.id, due, sleeping, IdsOf(widgets), streams) /\ IdsOf(requests) = {}
      BY <2>3 DEF IInv, Places, IdsOf
    <3>2. QED
      BY <2>1, <3>1 DEF InOne
  <2>4. QED
    BY <2>2, <2>3
<1>2. QED
  BY <1>1, PlacesKept, PTL

\* The host keeps no timer, subscription or operation for a task that is gone.
THEOREM KeptAwaited == Spec => []KeptIsAwaited
<1>1. IInv => KeptIsAwaited
  <2>. SUFFICES ASSUME IInv, Alive
                PROVE  sleeping \cup streams \cup IdsOf(widgets) \subseteq IdsOf(guest.waiting)
    BY DEF KeptIsAwaited
  <2>1. CASE staged
    BY <2>1 DEF IInv, NoneHeld, IdsOf
  <2>2. CASE ~staged
    BY <2>2 DEF IInv, Places
  <2>3. QED
    BY <2>1, <2>2
<1>2. QED
  BY <1>1, PlacesKept, PTL

-----------------------------------------------------------------------------
(***************************************************************************)
(* The promise of SurfaceInput.                                            *)
(***************************************************************************)

\* The numbers of inputs.
Numbers(batch) == [i \in DOMAIN batch |-> batch[i].id]

LEMMA NumbersAppend ==
  ASSUME NEW T, NEW s \in Seq(T), NEW x \in T
  PROVE  Numbers(Append(s, x)) = Append(Numbers(s), x.id)
<1>. DEFINE t == Append(s, x)
            n == Len(s)
<1>1. /\ n \in Nat /\ DOMAIN s = 1..n /\ DOMAIN t = 1..(n + 1)
      /\ \A i \in 1..n : t[i] = s[i]
      /\ t[n + 1] = x
  OBVIOUS
<1>. HIDE DEF t, n
<1>2. Numbers(s) = [i \in 1..n |-> s[i].id] /\ Numbers(t) = [i \in 1..(n + 1) |-> t[i].id]
  BY <1>1 DEF Numbers
<1>. DEFINE m == [i \in 1..n |-> s[i].id]
            U == {s[i].id : i \in 1..n} \cup {x.id}
<1>3. m \in Seq(U) /\ x.id \in U /\ Len(m) = n
  BY <1>1
<1>4. \A i \in 1..n : m[i] = s[i].id
  OBVIOUS
<1>. HIDE DEF m, U
<1>5. /\ Append(m, x.id) \in Seq(U) /\ Len(Append(m, x.id)) = n + 1
      /\ \A i \in 1..n : Append(m, x.id)[i] = m[i]
      /\ Append(m, x.id)[n + 1] = x.id
  BY <1>3
<1>6. Append(m, x.id) = [i \in 1..(n + 1) |-> t[i].id]
  <2>. DEFINE a == Append(m, x.id)
  <2>1. a = [i \in 1..(n + 1) |-> a[i]]
    BY <1>1, <1>5
  <2>2. \A i \in 1..(n + 1) : a[i] = t[i].id
    BY <1>1, <1>4, <1>5
  <2>. HIDE DEF a
  <2>3. QED
    BY <2>1, <2>2 DEF a
<1>7. QED
  BY <1>2, <1>6 DEF t, m

\* What a batch runs are the inputs that name the tables of the last view.
LEMMA RanNamed ==
  ASSUME NEW g, NEW batch \in Seq(Inputs)
  PROVE  Right(Ran(g, batch)) = Numbers(Among(batch, [id: Nat, via: {g.view}]))
<1>. DEFINE S == [id: Nat, via: {g.view}]
            P == {u \in Seq(Inputs) : /\ Ran(g, u) \in Seq(Nat)
                                      /\ Right(Ran(g, u)) = Numbers(Among(u, S))}
<1>1. <<>> \in P
  <2>1. Ran(g, <<>>) = <<>> /\ Numbers(<<>>) = <<>> /\ <<>> \in Seq(Inputs) /\ <<>> \in Seq(Nat)
    BY DEF Ran, Numbers
  <2>2. Right(<<>>) = <<>> /\ Among(<<>>, S) = <<>>
    BY AmongEmpty DEF Right
  <2>3. QED
    BY <2>1, <2>2
<1>2. ASSUME NEW u \in Seq(Inputs), u \in P, NEW x \in Inputs PROVE Append(u, x) \in P
  <2>. DEFINE r == IF x.via = g.view THEN x.id ELSE 0
              v == Append(u, x)
              w == Ran(g, u)
              n == Len(u)
  <2>1. x.id \in Nat \ {0} /\ (x \in S <=> x.via = g.view)
    BY BoundsAssumption DEF Inputs
  <2>2. w \in Seq(Nat) /\ Right(w) = Numbers(Among(u, S))
    BY <1>2
  <2>3. /\ n \in Nat /\ DOMAIN u = 1..n /\ DOMAIN v = 1..(n + 1)
        /\ \A i \in 1..n : v[i] = u[i]
        /\ v[n + 1] = x /\ v \in Seq(Inputs)
    OBVIOUS
  <2>4. Ran(g, v) = Append(w, r)
    <3>1. w = [i \in 1..n |-> IF u[i].via = g.view THEN u[i].id ELSE 0]
      BY <2>3 DEF Ran
    <3>2. Ran(g, v) = [i \in 1..(n + 1) |-> IF v[i].via = g.view THEN v[i].id ELSE 0]
      BY <2>3 DEF Ran
    <3>3. Len(w) = n /\ r \in Nat /\ (\A i \in 1..n : w[i] = IF u[i].via = g.view THEN u[i].id ELSE 0)
      BY <2>1, <2>2, <2>3, <3>1
    <3>. DEFINE a == Append(w, r)
    <3>. HIDE DEF v, w, n, r
    <3>4. /\ a \in Seq(Nat) /\ Len(a) = n + 1
          /\ \A i \in 1..n : a[i] = w[i]
          /\ a[n + 1] = r
      BY <2>2, <3>3
    <3>. HIDE DEF a
    <3>5. a = [i \in 1..(n + 1) |-> a[i]]
      BY <2>3, <3>4
    <3>6. \A i \in 1..(n + 1) : a[i] = IF v[i].via = g.view THEN v[i].id ELSE 0
      <4>1. ASSUME NEW i \in 1..n PROVE a[i] = IF v[i].via = g.view THEN v[i].id ELSE 0
        BY <2>3, <3>3, <3>4
      <4>2. a[n + 1] = IF v[n + 1].via = g.view THEN v[n + 1].id ELSE 0
        BY <2>3, <3>4 DEF r
      <4>3. QED
        BY <2>3, <4>1, <4>2
    <3>7. QED
      BY <3>2, <3>5, <3>6 DEF a
  <2>5. r \in Nat /\ (r \in Nat \ {0} <=> x.via = g.view)
    BY <2>1
  <2>6. Right(Append(w, r)) = IF x.via = g.view THEN Append(Right(w), r) ELSE Right(w)
    <3>. DEFINE Z == Nat \ {0}
    <3>1. r \in Z <=> x.via = g.view
      BY <2>5
    <3>. HIDE DEF w, r, Z
    <3>2. Among(Append(w, r), Z) = IF r \in Z THEN Append(Among(w, Z), r) ELSE Among(w, Z)
      BY <2>2, <2>5, AmongAppend
    <3>3. QED
      BY <3>1, <3>2 DEF Right, Z
  <2>7. Among(v, S) = IF x.via = g.view THEN Append(Among(u, S), x) ELSE Among(u, S)
    <3>. HIDE DEF S
    <3>1. QED
      BY <2>1, AmongAppend
  <2>8. x.via = g.view => Numbers(Append(Among(u, S), x)) = Append(Numbers(Among(u, S)), x.id)
    <3>1. Among(u, S) \in Seq(Inputs \cap S)
      BY AmongType
    <3>2. x.via = g.view => x \in Inputs \cap S
      BY <2>1
    <3>. HIDE DEF S
    <3>3. QED
      BY <3>1, <3>2, NumbersAppend
  <2>9. Right(Ran(g, v)) = Numbers(Among(v, S))
    <3>. HIDE DEF S, v, w
    <3>1. QED
      BY <2>2, <2>4, <2>6, <2>7, <2>8
  <2>10. Ran(g, v) \in Seq(Nat)
    <3>. HIDE DEF r, w, v
    <3>1. QED
      BY <2>2, <2>4, <2>5
  <2>11. QED
    BY <2>3, <2>9, <2>10
<1>. HIDE DEF P
<1>3. batch \in P
  BY <1>1, <1>2, SequenceInduction
<1>4. QED
  BY <1>3 DEF P

\* A candidate has run what the instance has that it was captured from, as
\* long as that is not ticked; and nothing is queued for an app that trapped.
Caught ==
  /\ reload.of \in 0..inst
  /\ open /\ reload.stage \in {"captured", "ready"} /\ reload.of = inst /\ ~reload.moved
       => reload.guest.done = guest.done
  /\ fault => pending = <<>>

LEMMA CaughtKept == Spec => []Caught
<1>1. Init => Caught
  BY DEF Init, NoReload, Caught
<1>2. TypeOK /\ Caught /\ [Next]_vars => Caught'
  <2>. SUFFICES ASSUME TypeOK, Caught, [Next]_vars PROVE Caught'
    OBVIOUS
  <2>. inst \in Nat /\ reload \in Reloads /\ reload.of \in 0..inst
    BY BoundsAssumption DEF TypeOK, Caught
  <2>1. CASE Redraw
    <3>1. /\ reload' = [reload EXCEPT !.moved = reload.moved \/ reload.of = inst]
          /\ inst' = inst /\ pending' = <<>>
      BY <2>1 DEF Redraw
    <3>2. reload'.of = reload.of /\ (reload.of = inst => reload'.moved)
      BY <3>1 DEF Reloads
    <3>3. QED
      BY <3>1, <3>2 DEF Caught
  <2>2. CASE RestartGuest \/ Commit
    <3>1. CASE UNCHANGED <<guest, host>>
      <4>1. UNCHANGED <<guest, inst, fault, pending, open>>
        BY <2>2, <3>1 DEF host, RestartGuest, Commit
      <4>2. reload' = reload \/ reload' = NoReload
        BY <2>2 DEF RestartGuest, Commit
      <4>3. QED
        BY <4>1, <4>2 DEF NoReload, Caught
    <3>2. CASE inst' = inst + 1 /\ pending' = <<>>
      <4>1. reload' = reload \/ reload' = NoReload
        BY <2>2 DEF RestartGuest, Commit
      <4>2. reload'.of \in 0..inst
        BY <4>1 DEF NoReload
      <4>3. QED
        BY <3>2, <4>2 DEF Caught
    <3>3. QED
      BY <2>2, <3>1, <3>2 DEF RestartGuest, Commit, Installed, host
  <2>3. CASE Close
    BY <2>3 DEF Close, Caught
  <2>4. CASE Input
    BY <2>4 DEF Input, Live, Caught
  <2>5. CASE Skip \/ RedrawStaged \/ Rebuild \/ Press \/ \E i \in Ids : Wake(i)
    <3>1. UNCHANGED <<guest, inst, fault, pending, open, reload>>
      BY <2>5 DEF Skip, RedrawStaged, Rebuild, Press, Wake, host, window
    <3>2. QED
      BY <3>1 DEF Caught
  <2>6. CASE StartReload \/ Capture \/ Refuse
    <3>1. UNCHANGED <<guest, inst, fault, pending, open>>
      BY <2>6 DEF StartReload, Capture, Refuse, host, window
    <3>2. CASE Capture
      <4>1. reload'.of = inst /\ reload'.guest.done = guest.done
        BY <3>2 DEF Capture, Reloads, Restored
      <4>2. QED
        BY <3>1, <4>1 DEF Caught
    <3>3. CASE StartReload \/ Refuse
      <4>1. reload'.of = 0 /\ reload'.stage \in {"none", "compiling"}
        BY <3>3 DEF StartReload, Refuse, NoReload
      <4>2. QED
        BY <3>1, <4>1 DEF Caught
    <3>4. QED
      BY <2>6, <3>2, <3>3
  <2>7. CASE Prepare
    <3>1. UNCHANGED <<guest, inst, fault, pending, open>>
      BY <2>7 DEF Prepare, host, window
    <3>2. PICK c \in Turns(reload.guest, <<>>, {}, TRUE) :
            reload' = [reload EXCEPT
                         !.stage = "ready",
                         !.guest = Ticked(reload.guest, <<>>, {}, c),
                         !.requests = {t \in c.ask :
                                         t.id \notin Cancelled(reload.guest, {}, c)},
                         !.cancels = Cancelled(reload.guest, {}, c)]
      BY <2>7 DEF Prepare
    <3>3. reload'.of = reload.of /\ reload'.moved = reload.moved
      BY <3>2 DEF Reloads
    <3>4. reload'.guest.done = reload.guest.done \o Ran(reload.guest, <<>>)
      BY <3>2 DEF Reloads, Ticked
    <3>5. reload.guest.done \o Ran(reload.guest, <<>>) = reload.guest.done
      <4>1. Ran(reload.guest, <<>>) = <<>>
        BY DEF Ran
      <4>2. reload.guest.done \in Seq(0..MaxInputs)
        BY DEF Reloads, Guests
      <4>3. QED
        BY <4>1, <4>2, ConcatEmptySeq
    <3>6. QED
      BY <2>7, <3>1, <3>3, <3>4, <3>5 DEF Prepare, Caught
  <2>8. CASE UNCHANGED vars
    BY <2>8 DEF Caught, vars, host, window
  <2>9. QED
    BY <2>1, <2>2, <2>3, <2>4, <2>5, <2>6, <2>7, <2>8 DEF Next
<1>3. QED
  BY <1>1, <1>2, TypeCorrect, PTL DEF Spec

\* The inputs that wait, as the promise sees them.
Waiting == Numbers(Named(pending))

LEMMA NothingWaits == pending = <<>> => Waiting = <<>>
BY AmongEmpty DEF Waiting, Named, Numbers

LEMMA NothingWaitsNext == pending' = <<>> => Waiting' = <<>>
BY AmongEmpty DEF Waiting, Named, Numbers

\* A tick, and the last one of a closed window, runs what waits.
LEMMA RunsWaiting ==
  ASSUME TypeOK
  PROVE  Right(guest.done \o Ran(guest, pending)) = Right(guest.done) \o Waiting
<1>. DEFINE r == Ran(guest, pending)
            S == Nat \ {0}
<1>1. guest \in Guests /\ pending \in Seq(Inputs) /\ guest.done \in Seq(Nat)
  <2>1. guest \in Guests /\ pending \in Seq(Inputs)
    BY DEF TypeOK
  <2>2. guest.done \in Seq(0..MaxInputs) /\ 0..MaxInputs \subseteq Nat
    BY <2>1, BoundsAssumption DEF Guests
  <2>3. QED
    BY <2>1, <2>2, SeqMonotonic
<1>2. r \in Seq(Nat)
  <2>1. \A i \in DOMAIN pending : pending[i] \in Inputs
    BY <1>1
  <2>2. \A i \in DOMAIN pending :
          (IF pending[i].via = guest.view THEN pending[i].id ELSE 0) \in Nat
    BY <2>1, BoundsAssumption DEF Inputs
  <2>3. DOMAIN pending = 1..Len(pending) /\ Len(pending) \in Nat
    BY <1>1
  <2>4. QED
    BY <2>2, <2>3 DEF Ran
<1>. HIDE DEF r, S
<1>3. Among(guest.done \o r, S) = Among(guest.done, S) \o Among(r, S)
  <2>. DEFINE d == guest.done
  <2>1. d \in Seq(Nat)
    BY <1>1
  <2>. HIDE DEF d
  <2>2. Among(d \o r, S) = Among(d, S) \o Among(r, S)
    BY <1>2, <2>1, AmongConcat
  <2>3. QED
    BY <2>2 DEF d
<1>4. Right(r) = Waiting
  BY <1>1, RanNamed DEF r, Waiting, Named
<1>5. QED
  BY <1>3, <1>4 DEF Right, r, S

\* An input waits if it names the tables of the last view.
LEMMA InputWaits ==
  ASSUME TypeOK, Input
  PROVE  Waiting' \in {Waiting, Append(Waiting, inputs')}
<1>. DEFINE x == [id |-> inputs', via |-> mounted.tree]
            S == [id: Nat, via: {guest.view}]
<1>1. pending \in Seq(Inputs) /\ x \in Inputs /\ pending' = Append(pending, x) /\ guest' = guest
  <2>1. inputs' \in 1..MaxInputs /\ mounted.tree \in Tree
    BY BoundsAssumption DEF Input, TypeOK
  <2>2. QED
    BY <2>1 DEF Input, TypeOK, Inputs
<1>2. x.id = inputs'
  OBVIOUS
<1>3. Waiting = Numbers(Among(pending, S)) /\ Waiting' = Numbers(Among(pending', S))
  BY <1>1 DEF Waiting, Named
<1>. HIDE DEF x, S
<1>4. Among(pending', S) = IF x \in S THEN Append(Among(pending, S), x) ELSE Among(pending, S)
  BY <1>1, AmongAppend
<1>5. Among(pending, S) \in Seq(Inputs)
  <2>1. Among(pending, S) \in Seq(Inputs \cap S)
    BY <1>1, AmongType
  <2>2. QED
    BY <2>1, SeqMonotonic
<1>6. Numbers(Append(Among(pending, S), x)) = Append(Numbers(Among(pending, S)), x.id)
  BY <1>1, <1>5, NumbersAppend
<1>7. QED
  BY <1>2, <1>3, <1>4, <1>6

\* Every step of the window is one of the promise, or none.
LEMMA SessionStep ==
  ASSUME TypeOK, Caught, [Next]_vars
  PROVE  [Session!Next]_Session!vars
<1>. DEFINE Done == Right(guest.done)
            Ended == fault \/ ~open
<1>1. SUFFICES
        \/ /\ ~Ended /\ inputs' = inputs + 1
           /\ Waiting' \in {Waiting, Append(Waiting, inputs')}
           /\ Done' = Done /\ Ended' = Ended
        \/ /\ Done' = Done \o Waiting /\ Waiting' = <<>>
           /\ Ended' = Ended \/ Ended' = TRUE
           /\ inputs' = inputs
        \/ Waiting' = <<>> /\ Ended' = TRUE /\ Done' = Done /\ inputs' = inputs
        \/ /\ Ended /\ Done' = <<>> /\ Ended' \in BOOLEAN
           /\ Waiting' = Waiting /\ inputs' = inputs
        \/ Done' = Done /\ Waiting' = Waiting /\ inputs' = inputs /\ Ended' = Ended
  BY DEF Session!Next, Session!Input, Session!Run, Session!End, Session!Restart, Session!vars,
     Waiting, Numbers
<1>2. CASE UNCHANGED <<guest, pending, inputs, fault, open>>
  BY <1>2 DEF Waiting, Named
<1>3. CASE Input
  <2>1. Waiting' \in {Waiting, Append(Waiting, inputs')}
    BY <1>3, InputWaits
  <2>2. QED
    BY <1>3, <2>1 DEF Input, Live
<1>4. CASE Redraw
  <2>1. Waiting' = <<>> /\ inputs' = inputs /\ open' = open
    BY <1>4, NothingWaitsNext DEF Redraw
  <2>2. CASE Trap
    BY <2>1, <2>2 DEF Trap
  <2>3. ASSUME NEW replies, NEW c, Tick(replies, c) PROVE Done' = Done \o Waiting /\ fault' = fault
    <3>1. guest'.done = guest.done \o Ran(guest, pending) /\ fault' = fault
      BY <2>3 DEF Tick, Ticked
    <3>2. QED
      BY <3>1, RunsWaiting
  <2>4. Trap \/ \E replies, c : Tick(replies, c)
    BY <1>4, Zenon DEF Redraw
  <2>5. CASE \E replies, c : Tick(replies, c)
    <3>1. Done' = Done \o Waiting /\ fault' = fault
      BY <2>3, <2>5
    <3>2. Ended' = Ended
      BY <2>1, <3>1
    <3>3. QED
      BY <2>1, <3>1, <3>2
  <2>6. QED
    BY <2>2, <2>4, <2>5
<1>5. CASE Close
  <2>1. Waiting' = <<>> /\ inputs' = inputs /\ open' = FALSE
    BY <1>5, NothingWaitsNext DEF Close
  <2>2. CASE guest' = guest
    BY <2>1, <2>2
  <2>3. CASE guest' = [guest EXCEPT !.done = guest.done \o Ran(guest, pending)]
    <3>1. guest'.done = guest.done \o Ran(guest, pending)
      BY <2>3 DEF TypeOK, Guests
    <3>2. Done' = Done \o Waiting
      BY <3>1, RunsWaiting
    <3>3. QED
      BY <2>1, <3>2
  <2>4. QED
    BY <1>5, <2>2, <2>3 DEF Close
<1>6. CASE RestartGuest /\ fault /\ Installed(Restored(<<>>), NoTree)
  <2>1. pending = <<>> /\ pending' = <<>> /\ inputs' = inputs
    BY <1>6 DEF Caught, Installed, RestartGuest
  <2>2. Waiting = <<>> /\ Waiting' = <<>>
    BY <2>1, NothingWaits, NothingWaitsNext
  <2>3. Done' = <<>>
    <3>1. guest'.done = <<>>
      BY <1>6 DEF Installed, Restored
    <3>2. QED
      BY <3>1, AmongEmpty DEF Right
  <2>4. QED
    BY <1>6, <2>1, <2>2, <2>3
<1>7. CASE Commit /\ Fits /\ Installed(reload.guest, reload.guest.view)
  <2>1. /\ pending = <<>> /\ pending' = <<>> /\ inputs' = inputs /\ open' = open
        /\ fault = FALSE /\ fault' = FALSE
    BY <1>7 DEF Commit, Fits, Settled, Installed, TypeOK
  <2>2. Waiting = <<>> /\ Waiting' = <<>>
    BY <2>1, NothingWaits, NothingWaitsNext
  <2>3. guest'.done = guest.done
    BY <1>7 DEF Commit, Fits, Settled, Installed, Caught
  <2>4. QED
    BY <2>1, <2>2, <2>3
<1>8. CASE (RestartGuest \/ Commit) /\ UNCHANGED <<guest, host>>
  BY <1>2, <1>8 DEF RestartGuest, Commit, host
<1>9. CASE \/ Skip \/ RedrawStaged \/ Rebuild \/ Press \/ \E i \in Ids : Wake(i)
           \/ StartReload \/ Capture \/ Prepare \/ Refuse
           \/ UNCHANGED vars
  <2>1. UNCHANGED <<guest, pending, inputs, fault, open>>
    BY <1>9 DEF Skip, RedrawStaged, Rebuild, Press, Wake, StartReload, Capture, Prepare, Refuse,
       vars, host, window
  <2>2. QED
    BY <1>2, <2>1
<1>10. QED
  BY <1>3, <1>4, <1>5, <1>6, <1>7, <1>8, <1>9 DEF Next, RestartGuest, Commit

\* What is done to the tree on screen runs once and in order, whichever
\* instance of the app is behind the window: the promise of SurfaceInput.
THEOREM Implements == Spec => ImplementsSession
<1>1. Init => Session!Init
  <2>. SUFFICES ASSUME Init PROVE Session!Init
    OBVIOUS
  <2>1. guest.done = <<>> /\ pending = <<>> /\ inputs = 0 /\ fault = FALSE /\ open = TRUE
    BY DEF Init, Restored
  <2>2. Right(guest.done) = <<>> /\ Waiting = <<>>
    BY <2>1, AmongEmpty, NothingWaits DEF Right
  <2>3. QED
    BY <2>1, <2>2 DEF Session!Init, Waiting, Numbers
<1>2. TypeOK /\ Caught /\ [Next]_vars => [Session!Next]_Session!vars
  BY SessionStep
<1>3. QED
  BY <1>1, <1>2, TypeCorrect, CaughtKept, PTL DEF Spec, ImplementsSession, Session!Spec
=============================================================================
