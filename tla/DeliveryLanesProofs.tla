------------------------- MODULE DeliveryLanesProofs --------------------------
(***************************************************************************)
(* The gate of a delivery lane is exact and answers its newest call, for   *)
(* every set of windows and scopes, every kind of program and every bound  *)
(* of DeliveryLanes.                                                       *)
(*                                                                         *)
(* GateIsExact speaks of one moment.  That it stays true needs: a lane's   *)
(* counter has reached the generation of everything that was ever started, *)
(* also when the entry that counted is pruned (Issued); and the output     *)
(* that ends a run is the last of its run, on its way and in the batch     *)
(* (Sealed), since the handler of that output is what releases the lane.   *)
(* NewestIsAnswered rests on the exact gate: what it discards is not due.  *)
(***************************************************************************)
EXTENDS DeliveryLanes, FiniteSetTheorems, SequenceTheorems, TLAPS

\* The number the next generation of a scope is counted from: the component's
\* when its entries can be pruned, the entry's own when they cannot.
Clock(s) == IF IsMounted THEN nextGen ELSE generation[s]

\* An entry that is not there counts nothing and expects nothing.
Counted ==
  \A s \in Scopes :
    /\ s \notin stored => generation[s] = 0 /\ current[s] = None
    /\ generation[s] <= Clock(s)
    /\ current[s] # None => current[s] <= runs

\* What runs, or has been put out, was started: at a generation the clock has
\* reached, and as a run that has been counted.
IssuedTo(x) == 0 < x.gen /\ x.gen <= Clock(x.scope) /\ x.run <= runs
Issued == \A x \in Outputs \cup tasks : IssuedTo(x)

OneTaskPerRun == \A t, u \in tasks : t.run = u.run => t = u

\* No output of m's run comes after m if m is its last.
Ends(m, n) ==
  m.kind = "lane" /\ m.last /\ n.kind = "lane" => m.run # n.run
SealedIn(q) == \A i, j \in DOMAIN q : i < j => Ends(q[i], q[j])
SealedAcross(q, r) == \A i \in DOMAIN q, j \in DOMAIN r : Ends(q[i], r[j])

\* Outputs of the batch come before those still on their way.
Sealed ==
  /\ SealedIn(messages) /\ SealedIn(channel)
  /\ SealedAcross(messages, channel)

\* A task whose last output is on its way has ended.
Finished == \A m \in Outputs, t \in tasks : m.last => m.run # t.run

\* A tree handles an output as it arrives: none waits in its batch.
TreeDirect == IsTree => \A m \in Elements(messages) : m.kind # "lane"

\* What a lane's handler has to keep, and what the order of outputs does.
LaneInv == Counted /\ Issued /\ GateIsExact /\ OneTaskPerRun /\ Finished
IInv == LaneInv /\ Sealed /\ TreeDirect
-----------------------------------------------------------------------------
(***************************************************************************)
(* Type correctness.                                                       *)
(***************************************************************************)

\* An order of some scopes is a sequence of scopes.
LEMMA OrderType ==
  ASSUME NEW S \in SUBSET Scopes, NEW q \in SetToSeqs(S)
  PROVE  q \in Seq(Scopes)
<1>1. IsFiniteSet(S)
  BY LanesAssumption, FS_Subset
<1>2. Cardinality(S) \in Nat
  BY <1>1, FS_CardinalityType
<1>3. q \in [1 .. Cardinality(S) -> Scopes]
  BY DEF SetToSeqs
<1> QED BY <1>2, <1>3

LEMMA BootMessagesType ==
  ASSUME NEW q \in Seq(Scopes)
  PROVE  BootMessages(q) \in Seq(Message)
<1>1. \A i \in 1 .. Len(q) : [kind |-> "boot", scope |-> q[i]] \in Message
  BY DEF Message
<1>2. DOMAIN q = 1 .. Len(q) /\ Len(q) \in Nat
  OBVIOUS
<1>3. BootMessages(q) = [i \in 1 .. Len(q) |-> [kind |-> "boot", scope |-> q[i]]]
  BY <1>2 DEF BootMessages
<1> QED BY <1>1, <1>2, <1>3

LEMMA PruneType ==
  ASSUME TypeOK, NEW gone \in SUBSET Scopes, Prune(gone)
  PROVE  /\ stored' \subseteq Scopes /\ generation' \in [Scopes -> Nat]
         /\ handle' \in [Scopes -> Nat \cup {None}] /\ tasks' \subseteq Task
         /\ current' \in [Scopes -> Nat \cup {None}]
BY DEF TypeOK, Prune, Aborted

\* The state of a lane and of its tasks.
LaneType ==
  /\ stored \subseteq Scopes /\ generation \in [Scopes -> Nat]
  /\ handle \in [Scopes -> Nat \cup {None}] /\ nextGen \in Nat
  /\ tasks \subseteq Task /\ runs \in Nat
  /\ current \in [Scopes -> Nat \cup {None}]

LEMMA HandleType ==
  ASSUME TypeOK, NEW s \in Scopes, NEW due \in Nat \cup {None},
         NEW answered, Handle(s, due, answered)
  PROVE  LaneType'
<1>1. NextGeneration(s) \in Nat
  BY DEF TypeOK, NextGeneration
<1>2. CASE Run(s, due)
  <2>1. [scope |-> s, gen |-> NextGeneration(s), run |-> runs + 1] \in Task
    BY <1>1 DEF TypeOK, Task
  <2>2. tasks' \subseteq Task
    BY <1>2, <2>1 DEF TypeOK, Run, Stopped
  <2> QED BY <1>1, <1>2, <2>2 DEF TypeOK, LaneType, Handle, Run, Advance
<1>3. CASE Invalidate(s, due)
  <2>1. tasks' \subseteq Task
    BY <1>3 DEF TypeOK, Invalidate, Stopped
  <2> QED BY <1>1, <1>3, <2>1 DEF TypeOK, LaneType, Handle, Invalidate, Advance
<1>4. CASE Plain(s, due, answered)
  BY <1>4 DEF TypeOK, LaneType, Handle, Plain
<1> QED BY <1>2, <1>3, <1>4 DEF Handle

LEMMA DeliverType ==
  ASSUME TypeOK, NEW m \in Output, Deliver(m)
  PROVE  LaneType'
<1> DEFINE due == IF m.last THEN None ELSE handle[m.scope]
<1>1. m.scope \in Scopes
  BY DEF Output
<1>2. due \in Nat \cup {None}
  BY <1>1 DEF TypeOK
<1>3. CASE UNCHANGED <<store, nextGen, tasks, runs, current>>
  BY <1>3 DEF TypeOK, LaneType, store
<1>4. CASE UNCHANGED stored /\ Plain(m.scope, due, m.last)
  BY <1>1, <1>2, <1>4 DEF TypeOK, LaneType, Plain
<1>5. CASE Handle(m.scope, due, m.last)
  BY <1>1, <1>2, <1>5, HandleType
<1> QED BY <1>3, <1>4, <1>5 DEF Deliver

LEMMA ReceiveType ==
  ASSUME TypeOK, NEW m \in Message, Receive(m)
  PROVE  LaneType' /\ wanted' \subseteq Scopes /\ heard' \subseteq Scopes
<1>1. CASE m.kind = "app"
  <2>1. UNCHANGED <<store, nextGen, tasks, runs, current, heard>>
    BY <1>1 DEF Receive
  <2>2. wanted' \subseteq Scopes
    BY <1>1 DEF Receive, TypeOK
  <2> QED BY <2>1, <2>2 DEF TypeOK, LaneType, store
<1>2. CASE m.kind = "lane"
  <2>1. m \in Output
    BY <1>2 DEF Message
  <2>2. Deliver(m) /\ UNCHANGED <<wanted, changes, heard>>
    BY <1>2 DEF Receive
  <2> QED BY <2>1, <2>2, DeliverType DEF TypeOK
<1>3. CASE m.kind \notin {"app", "lane"}
  <2>1. m.scope \in Scopes
    BY <1>3 DEF Message, Output
  <2>2. Handle(m.scope, handle[m.scope], FALSE)
    BY <1>3 DEF Receive
  <2>3. wanted' = wanted /\ heard' \subseteq heard \cup {m.scope}
    BY <1>3 DEF Receive
  <2>4. handle[m.scope] \in Nat \cup {None}
    BY <2>1 DEF TypeOK
  <2>5. LaneType'
    BY <2>1, <2>2, <2>4, HandleType
  <2> QED BY <2>1, <2>3, <2>5 DEF TypeOK
<1> QED BY <1>1, <1>2, <1>3

\* What a window shows, or the boots of its root, replaced.
Shows == [shown: SUBSET Scopes, boots: Seq(Scopes)]
LEMMA ShowsType ==
  ASSUME NEW u \in [Windows -> Shows], NEW w \in Windows,
         NEW x \in SUBSET Scopes, NEW q \in Seq(Scopes)
  PROVE  /\ [u[w] EXCEPT !.shown = x] \in Shows
         /\ [u EXCEPT ![w].shown = x] \in [Windows -> Shows]
         /\ [u[w] EXCEPT !.boots = q] \in Shows
         /\ [u EXCEPT ![w].boots = q] \in [Windows -> Shows]
<1>1. u[w] \in Shows
  OBVIOUS
<1>2. [u[w] EXCEPT !.shown = x] \in Shows /\ [u[w] EXCEPT !.boots = q] \in Shows
  BY <1>1 DEF Shows
<1> QED BY <1>2

LEMMA RenderType ==
  ASSUME TypeOK, NEW w \in Windows, Render(w)
  PROVE  TypeOK'
<1>1. todo' \subseteq Windows /\ busy' \in BOOLEAN
  BY DEF Render, TypeOK
<1>2. heard' \subseteq Scopes
  BY DEF Render, TypeOK
<1>3. /\ UNCHANGED <<app, windows, nextGen, messages, channel, runs>>
      /\ seen' = [seen EXCEPT ![w] = ui'[w].shown]
  BY DEF Render
<1>4. /\ AtRoot(w) \in SUBSET Scopes /\ Late(w) \in SUBSET Scopes
      /\ Dropped(w) \in SUBSET Scopes
  BY DEF TypeOK, AtRoot, Late, Dropped, Under
<1>5. CASE MountedView(w)
  <2> DEFINE marks == Marks(Dropped(w))
             held == IF IsTree THEN ui[w].boots ELSE <<>>
  <2>1. PICK first \in SetToSeqs(FirstSeen(AtRoot(w), marks)),
             after \in SetToSeqs(FirstSeen(Late(w), marks)) :
          /\ queue' = after
          /\ ui' = [ui EXCEPT ![w] = [shown |-> AtRoot(w) \cup Late(w),
                                      boots |-> held \o queue \o first]]
    BY <1>5 DEF MountedView
  <2>2. first \in Seq(Scopes) /\ after \in Seq(Scopes)
    <3>1. /\ FirstSeen(AtRoot(w), marks) \in SUBSET Scopes
          /\ FirstSeen(Late(w), marks) \in SUBSET Scopes
      BY <1>4 DEF FirstSeen
    <3> QED BY <3>1, OrderType
  <2>3. held \in Seq(Scopes)
    BY DEF TypeOK
  <2>4. held \o queue \o first \in Seq(Scopes)
    BY <2>2, <2>3, ConcatProperties DEF TypeOK
  <2>5. ui' \in [Windows -> [shown: SUBSET Scopes, boots: Seq(Scopes)]]
    BY <1>4, <2>1, <2>4 DEF TypeOK
  <2>6. /\ active' \subseteq Scopes /\ booted' \subseteq Scopes
        /\ pending' \in Windows \cup {None}
    BY <1>4, <1>5 DEF MountedView, Marks, TypeOK
  <2>7. LaneType'
    BY <1>3, <1>4, <1>5, PruneType DEF MountedView, LaneType, TypeOK
  <2>8. seen' \in [Windows -> SUBSET Scopes]
    BY <1>3, <2>5 DEF TypeOK
  <2> QED BY <1>1, <1>2, <1>3, <2>1, <2>2, <2>5, <2>6, <2>7, <2>8
          DEF TypeOK, LaneType, app, windows
<1>6. CASE RetainedView(w)
  <2>1. ui' \in [Windows -> [shown: SUBSET Scopes, boots: Seq(Scopes)]]
    BY <1>4, <1>6 DEF RetainedView, TypeOK
  <2>2. seen' \in [Windows -> SUBSET Scopes]
    BY <1>3, <2>1 DEF TypeOK
  <2> QED BY <1>1, <1>2, <1>3, <1>6, <2>1, <2>2
          DEF RetainedView, TypeOK, app, windows, store
<1> QED BY <1>5, <1>6 DEF Render

LEMMA RelayoutType ==
  ASSUME TypeOK, NEW w \in Windows, Relayout(w)
  PROVE  TypeOK'
<1> DEFINE late == {s \in wanted \cap Deferred : Home[s] = w}
<1>1. late \in SUBSET Scopes /\ FirstSeen(late, booted) \in SUBSET Scopes
  BY DEF TypeOK, FirstSeen
<1>2. UNCHANGED <<app, opened, open, store, pending, nextGen,
                  loop, work, runs, current, heard>>
  BY DEF Relayout
<1>3. roomy' \subseteq Windows
  BY DEF Relayout, TypeOK
<1>4. /\ ui' \in [Windows -> [shown: SUBSET Scopes, boots: Seq(Scopes)]]
      /\ seen' \in [Windows -> SUBSET Scopes]
  <2>1. /\ ui \in [Windows -> Shows] /\ ui[w].shown \in SUBSET Scopes
        /\ seen \in [Windows -> SUBSET Scopes]
    BY DEF TypeOK, Shows
  <2>2. CASE w \in roomy
    <3>1. ui' = [ui EXCEPT ![w].shown = ui[w].shown \ late] /\ seen' = seen
      BY <2>2 DEF Relayout
    <3>2. ui[w].shown \ late \in SUBSET Scopes
      BY <2>1
    <3> HIDE DEF late
    <3> QED BY <2>1, <3>1, <3>2, ShowsType, EmptySeq DEF Shows
  <2>3. CASE w \notin roomy
    <3>1. /\ ui' = [ui EXCEPT ![w].shown = ui[w].shown \cup late]
          /\ seen' = [seen EXCEPT ![w] = @ \cup late]
      BY <2>3 DEF Relayout
    <3>2. ui[w].shown \cup late \in SUBSET Scopes
      BY <1>1, <2>1
    <3> HIDE DEF late
    <3>3. ui' \in [Windows -> Shows]
      BY <2>1, <3>1, <3>2, ShowsType, EmptySeq
    <3> QED BY <1>1, <2>1, <3>1, <3>3 DEF Shows
  <2> QED BY <2>2, <2>3
<1>5. active' \subseteq Scopes /\ booted' \subseteq Scopes
  BY <1>1 DEF Relayout, TypeOK
<1>6. queue' \in Seq(Scopes)
  <2>1. CASE queue' = queue
    BY <2>1 DEF TypeOK
  <2>2. CASE \E after \in SetToSeqs(FirstSeen(late, booted)) :
               queue' = queue \o after
    <3>1. PICK after \in SetToSeqs(FirstSeen(late, booted)) :
                 queue' = queue \o after
      BY <2>2
    <3>2. after \in Seq(Scopes)
      BY <1>1, OrderType
    <3> QED BY <3>1, <3>2, ConcatProperties DEF TypeOK
  <2> QED BY <2>1, <2>2 DEF Relayout
<1> QED BY <1>2, <1>3, <1>4, <1>5, <1>6 DEF TypeOK, app, store, loop, work

LEMMA InteractType ==
  ASSUME TypeOK, NEW w \in Windows, Interact(w)
  PROVE  TypeOK'
<1>1. PICK more \in {<<>>, <<[kind |-> "app"]>>}
                      \cup {<<[kind |-> "event", scope |-> s]>> : s \in ui[w].shown} :
        messages' = messages \o (IF IsTree THEN <<>> ELSE BootMessages(ui[w].boots))
                             \o more
  BY DEF Interact
<1>2. more \in Seq(Message)
  <2>1. ui[w].shown \subseteq Scopes
    BY DEF TypeOK
  <2>2. [kind |-> "app"] \in Message
    BY DEF Message
  <2>3. \A s \in Scopes : [kind |-> "event", scope |-> s] \in Message
    BY DEF Message
  <2>4. CASE more = <<>>
    BY <2>4
  <2>5. CASE more = <<[kind |-> "app"]>>
    BY <2>2, <2>5
  <2>6. CASE \E s \in ui[w].shown : more = <<[kind |-> "event", scope |-> s]>>
    <3>1. PICK s \in ui[w].shown : more = <<[kind |-> "event", scope |-> s]>>
      BY <2>6
    <3>2. [kind |-> "event", scope |-> s] \in Message
      BY <2>1, <2>3
    <3> QED BY <3>1, <3>2
  <2> QED BY <1>1, <2>4, <2>5, <2>6
<1>3. (IF IsTree THEN <<>> ELSE BootMessages(ui[w].boots)) \in Seq(Message)
  BY BootMessagesType DEF TypeOK
<1>4. messages' \in Seq(Message)
  BY <1>1, <1>2, <1>3, ConcatProperties DEF TypeOK
<1>5. ui' \in [Windows -> Shows]
  <2>1. ui \in [Windows -> Shows]
    BY DEF TypeOK, Shows
  <2>2. ui' = IF IsTree THEN ui ELSE [ui EXCEPT ![w].boots = <<>>]
    BY DEF Interact
  <2>3. [ui EXCEPT ![w].boots = <<>>] \in [Windows -> Shows]
    BY <2>1, ShowsType, EmptySeq
  <2> QED BY <2>1, <2>2, <2>3
<1>6. UNCHANGED <<app, windows, store, mounted, busy, todo, work,
                  runs, current, seen, heard>>
  BY DEF Interact
<1> QED BY <1>4, <1>5, <1>6 DEF TypeOK, Shows, app, windows, store, mounted, work

LEMMA WindowType ==
  ASSUME TypeOK, NEW w \in Windows, Open(w) \/ Close(w)
  PROVE  TypeOK'
<1>1. CASE Open(w)
  <2>1. /\ opened' \subseteq Windows /\ open' \subseteq opened'
        /\ busy' \in BOOLEAN /\ todo' \subseteq Windows
    BY <1>1 DEF Open, TypeOK
  <2>2. UNCHANGED <<app, roomy, store, mounted, ui, messages, work,
                    runs, current, seen, heard>>
    BY <1>1 DEF Open
  <2> QED BY <2>1, <2>2 DEF TypeOK, app, store, mounted, work
<1>2. CASE Close(w)
  <2>1. open' \subseteq opened /\ opened' = opened
    BY <1>2 DEF Close, TypeOK
  <2>2. ui' \in [Windows -> [shown: SUBSET Scopes, boots: Seq(Scopes)]]
    <3>1. ui' = [ui EXCEPT ![w] = [shown |-> {}, boots |-> <<>>]]
      BY <1>2 DEF Close
    <3>2. [shown |-> {}, boots |-> <<>>] \in [shown: SUBSET Scopes, boots: Seq(Scopes)]
      BY EmptySeq
    <3> QED BY <3>1, <3>2 DEF TypeOK
  <2>3. UNCHANGED <<app, opened, roomy, store, mounted, loop, work,
                    runs, current, seen, heard>>
    BY <1>2 DEF Close
  <2> QED BY <2>1, <2>2, <2>3 DEF TypeOK, app, store, mounted, loop, work
<1> QED BY <1>1, <1>2

LEMMA StartType ==
  ASSUME TypeOK,
         \/ \E arrived \in 0 .. Len(channel) : StartBatch(arrived)
         \/ \E w \in Windows : StartTick(w)
  PROVE  TypeOK'
<1>1. ASSUME NEW arrived \in 0 .. Len(channel), StartBatch(arrived)
      PROVE  TypeOK'
  <2>1. channel \in Seq(Output) /\ Len(channel) \in Nat
    BY DEF TypeOK
  <2>2. \A i \in 1 .. Len(channel) : channel[i] \in Output
    BY <2>1
  <2>3. /\ SubSeq(channel, 1, arrived) \in Seq(Output)
        /\ SubSeq(channel, arrived + 1, Len(channel)) \in Seq(Output)
    BY <2>1, <2>2, SubSeqProperties
  <2>4. SubSeq(channel, 1, arrived) \in Seq(Message)
    BY <2>3, SeqMonotonic DEF Message
  <2>5. messages' \in Seq(Message) /\ channel' \in Seq(Output)
    BY <1>1, <2>3, <2>4, ConcatProperties DEF StartBatch, TypeOK
  <2>6. busy' \in BOOLEAN /\ todo' \subseteq Windows
    BY <1>1 DEF StartBatch, TypeOK
  <2>7. ui' \in [Windows -> Shows]
    <3>1. \A w \in Windows : [ui[w] EXCEPT !.boots = <<>>] \in Shows
      BY ShowsType, EmptySeq DEF TypeOK, Shows
    <3> QED BY <1>1, <3>1 DEF StartBatch
  <2>8. UNCHANGED <<app, windows, store, mounted, tasks, runs, current,
                    seen, heard>>
    BY <1>1 DEF StartBatch
  <2> QED BY <2>5, <2>6, <2>7, <2>8
          DEF TypeOK, Shows, app, windows, store, mounted
<1>2. ASSUME NEW w \in Windows, StartTick(w)
      PROVE  TypeOK'
  <2>1. ui \in [Windows -> Shows] /\ ui[w].boots \in Seq(Scopes)
    BY DEF TypeOK, Shows
  <2>2. messages' \in Seq(Message)
    BY <1>2, <2>1, BootMessagesType, ConcatProperties DEF StartTick, TypeOK
  <2>3. busy' \in BOOLEAN /\ todo' \subseteq Windows
    BY <1>2 DEF StartTick, TypeOK
  <2>4. ui' \in [Windows -> Shows]
    BY <1>2, <2>1, ShowsType, EmptySeq DEF StartTick
  <2>5. UNCHANGED <<app, windows, store, mounted, work, runs, current,
                    seen, heard>>
    BY <1>2 DEF StartTick
  <2> QED BY <2>2, <2>3, <2>4, <2>5
          DEF TypeOK, Shows, app, windows, store, mounted, work
<1> QED BY <1>1, <1>2

LEMMA ConsumeType ==
  ASSUME TypeOK, Update \/ Settle
  PROVE  TypeOK'
<1>1. ASSUME NEW m \in Message, Receive(m),
             messages' \in Seq(Message), channel' \in Seq(Output)
      PROVE  TypeOK'
  <2>1. LaneType' /\ wanted' \subseteq Scopes /\ heard' \subseteq Scopes
    BY <1>1, ReceiveType
  <2>2. UNCHANGED <<program, windows, active, pending, booted, queue, ui, busy,
                    todo, seen>>
    BY <1>1 DEF Receive
  <2> QED BY <1>1, <2>1, <2>2 DEF TypeOK, LaneType, windows
<1>2. CASE Update
  BY <1>1, <1>2, HeadTailProperties DEF Update, TypeOK
<1>3. CASE Settle
  <2>1. Head(channel) \in Message /\ Tail(channel) \in Seq(Output)
    BY <1>3, HeadTailProperties DEF Settle, TypeOK, Message
  <2> QED BY <1>1, <1>3, <2>1 DEF Settle, TypeOK
<1> QED BY <1>2, <1>3

LEMMA YieldType ==
  ASSUME TypeOK, NEW t \in tasks, NEW last \in BOOLEAN, Yield(t, last)
  PROVE  TypeOK'
<1> DEFINE out == [kind |-> "lane", scope |-> t.scope, gen |-> t.gen,
                   run |-> t.run, last |-> last]
<1>1. out \in Output
  BY DEF TypeOK, Task, Output
<1>2. channel' = Append(channel, out)
  BY DEF Yield
<1>3. channel' \in Seq(Output) /\ tasks' \subseteq Task
  BY <1>1, <1>2, AppendProperties DEF TypeOK, Yield
<1>4. UNCHANGED <<app, windows, store, mounted, ui, loop,
                  runs, current, seen, heard>>
  BY DEF Yield
<1> QED BY <1>3, <1>4 DEF TypeOK, app, windows, store, mounted, loop

LEMMA TypeInit == Init => TypeOK
<1> SUFFICES ASSUME Init PROVE TypeOK
  OBVIOUS
<1>1. program \in Kinds
  BY LanesAssumption DEF Init
<1>2. queue \in Seq(Scopes) /\ messages \in Seq(Message) /\ channel \in Seq(Output)
  BY EmptySeq DEF Init
<1>3. ui \in [Windows -> [shown: SUBSET Scopes, boots: Seq(Scopes)]]
  <2>1. [shown |-> {}, boots |-> <<>>] \in [shown: SUBSET Scopes, boots: Seq(Scopes)]
    BY EmptySeq
  <2> QED BY <2>1 DEF Init
<1> QED BY <1>1, <1>2, <1>3 DEF Init, TypeOK

LEMMA TypeStep == TypeOK /\ [Next]_vars => TypeOK'
<1> SUFFICES ASSUME TypeOK, [Next]_vars PROVE TypeOK'
  OBVIOUS
<1>1. ASSUME NEW w \in Windows, Render(w) PROVE TypeOK'
  BY <1>1, RenderType
<1>2. ASSUME NEW w \in Windows, Relayout(w) PROVE TypeOK'
  BY <1>2, RelayoutType
<1>3. ASSUME NEW w \in Windows, Open(w) \/ Close(w) PROVE TypeOK'
  BY <1>3, WindowType
<1>4. ASSUME NEW w \in Windows, Interact(w) PROVE TypeOK'
  BY <1>4, InteractType
<1>5. ASSUME NEW w \in Windows, StartTick(w) PROVE TypeOK'
  BY <1>5, StartType
<1>6. ASSUME NEW arrived \in 0 .. Len(channel), StartBatch(arrived) PROVE TypeOK'
  BY <1>6, StartType
<1>7. CASE Update \/ Settle
  BY <1>7, ConsumeType
<1>8. ASSUME NEW t \in tasks, NEW last \in BOOLEAN, Yield(t, last) PROVE TypeOK'
  BY <1>8, YieldType
<1>9. CASE UNCHANGED vars
  BY <1>9 DEF TypeOK, vars, app, windows, store, mounted, loop, work
<1> QED BY <1>1, <1>2, <1>3, <1>4, <1>5, <1>6, <1>7, <1>8, <1>9 DEF Next

\* Every reachable state is well typed: in every handler's, view's and task's
\* step the lane, the boot marks and the messages have their shape.
THEOREM TypeCorrect == Spec => []TypeOK
BY TypeInit, TypeStep, PTL DEF Spec

-----------------------------------------------------------------------------
(***************************************************************************)
(* The order of outputs.                                                   *)
(***************************************************************************)

NoLane(q) == \A i \in DOMAIN q : q[i].kind # "lane"

LEMMA NoLaneSealed ==
  ASSUME NEW q, NEW r, NoLane(q)
  PROVE  SealedIn(q) /\ SealedAcross(q, r) /\ SealedAcross(r, q)
BY DEF NoLane, SealedIn, SealedAcross, Ends

LEMMA ConcatSealed ==
  ASSUME NEW S, NEW q \in Seq(S), NEW r \in Seq(S)
  PROVE  /\ SealedIn(q) /\ SealedIn(r) /\ SealedAcross(q, r) => SealedIn(q \o r)
         /\ \A c : SealedAcross(q, c) /\ SealedAcross(r, c)
                     => SealedAcross(q \o r, c)
         /\ NoLane(q) /\ NoLane(r) => NoLane(q \o r)
         /\ Elements(q \o r) = Elements(q) \cup Elements(r)
<1>1. /\ Len(q) \in Nat /\ DOMAIN q = 1 .. Len(q)
      /\ Len(r) \in Nat /\ DOMAIN r = 1 .. Len(r)
      /\ DOMAIN (q \o r) = 1 .. Len(q) + Len(r)
  BY LenProperties, ConcatProperties
<1>2. \A i \in 1 .. Len(q) : (q \o r)[i] = q[i]
  BY <1>1, ConcatProperties
<1>3. \A i \in Len(q) + 1 .. Len(q) + Len(r) :
        i - Len(q) \in 1 .. Len(r) /\ (q \o r)[i] = r[i - Len(q)]
  BY <1>1, ConcatProperties
<1>4. \A i \in DOMAIN (q \o r) : i \in 1 .. Len(q) \/ i \in Len(q) + 1 .. Len(q) + Len(r)
  BY <1>1
<1>5. ASSUME SealedIn(q), SealedIn(r), SealedAcross(q, r)
      PROVE  SealedIn(q \o r)
  <2> SUFFICES ASSUME NEW i \in DOMAIN (q \o r), NEW j \in DOMAIN (q \o r), i < j
               PROVE  Ends((q \o r)[i], (q \o r)[j])
    BY DEF SealedIn
  <2>1. CASE i \in 1 .. Len(q) /\ j \in 1 .. Len(q)
    BY <1>1, <1>2, <1>5, <2>1 DEF SealedIn
  <2>2. CASE i \in 1 .. Len(q) /\ j \in Len(q) + 1 .. Len(q) + Len(r)
    BY <1>1, <1>2, <1>3, <1>5, <2>2 DEF SealedAcross
  <2>3. CASE i \in Len(q) + 1 .. Len(q) + Len(r)
    <3>1. j \in Len(q) + 1 .. Len(q) + Len(r)
      BY <1>1, <2>3
    <3>2. i - Len(q) < j - Len(q)
      BY <1>1, <2>3, <3>1
    <3> QED BY <1>1, <1>3, <1>5, <2>3, <3>1, <3>2 DEF SealedIn
  <2> QED BY <1>4, <2>1, <2>2, <2>3
<1>6. ASSUME NEW c, SealedAcross(q, c), SealedAcross(r, c)
      PROVE  SealedAcross(q \o r, c)
  BY <1>1, <1>2, <1>3, <1>4, <1>6 DEF SealedAcross
<1>7. NoLane(q) /\ NoLane(r) => NoLane(q \o r)
  BY <1>1, <1>2, <1>3, <1>4 DEF NoLane
<1>8. Elements(q \o r) \subseteq Elements(q) \cup Elements(r)
  BY <1>1, <1>2, <1>3, <1>4 DEF Elements
<1>9. Elements(q) \cup Elements(r) \subseteq Elements(q \o r)
  <2>1. Elements(q) \subseteq Elements(q \o r)
    BY <1>1, <1>2 DEF Elements
  <2>2. \A j \in 1 .. Len(r) :
          j + Len(q) \in DOMAIN (q \o r) /\ (q \o r)[j + Len(q)] = r[j]
    BY <1>1, <1>3
  <2> QED BY <1>1, <2>1, <2>2 DEF Elements
<1> QED BY <1>5, <1>6, <1>7, <1>8, <1>9

\* What is left of a sequence without its first a elements.
LEMMA RestOfSeq ==
  ASSUME NEW S, NEW q \in Seq(S), NEW n \in Nat, n = Len(q), NEW a \in 0 .. n
  PROVE  /\ SubSeq(q, a + 1, n) \in Seq(S)
         /\ Len(SubSeq(q, a + 1, n)) = n - a
         /\ \A i \in 1 .. n - a : SubSeq(q, a + 1, n)[i] = q[a + i]
<1> SUFFICES ASSUME NEW k \in Int, k = a + 1
             PROVE  /\ SubSeq(q, k, n) \in Seq(S)
                    /\ Len(SubSeq(q, k, n)) = n - a
                    /\ \A i \in 1 .. n - a : SubSeq(q, k, n)[i] = q[a + i]
  OBVIOUS
<1>1. \A i \in k .. n : q[i] \in S
  BY ElementOfSeq
<1>2. n \in Int
  OBVIOUS
<1>3. /\ SubSeq(q, k, n) \in Seq(S)
      /\ Len(SubSeq(q, k, n)) = IF k <= n THEN n - k + 1 ELSE 0
      /\ \A i \in 1 .. n - k + 1 : SubSeq(q, k, n)[i] = q[k + i - 1]
  BY <1>1, <1>2, SubSeqProperties
<1>4. \A i \in 1 .. n - a : i \in 1 .. n - k + 1 /\ k + i - 1 = a + i
  OBVIOUS
<1>5. (IF k <= n THEN n - k + 1 ELSE 0) = n - a
  OBVIOUS
<1> QED BY <1>3, <1>4, <1>5

\* Taking the first a elements of a sealed sequence apart.
LEMMA SplitSealed ==
  ASSUME NEW S, NEW q \in Seq(S), SealedIn(q), NEW a \in 0 .. Len(q)
  PROVE  LET pre == SubSeq(q, 1, a)
             post == SubSeq(q, a + 1, Len(q))
         IN /\ SealedIn(pre) /\ SealedIn(post) /\ SealedAcross(pre, post)
            /\ \A c : SealedAcross(c, q) => SealedAcross(c, pre) /\ SealedAcross(c, post)
            /\ \A c : SealedAcross(q, c) => SealedAcross(post, c)
            /\ Elements(q) = Elements(pre) \cup Elements(post)
<1> DEFINE pre == SubSeq(q, 1, a)
           post == SubSeq(q, a + 1, Len(q))
<1>1. Len(q) \in Nat /\ DOMAIN q = 1 .. Len(q) /\ \A i \in 1 .. Len(q) : q[i] \in S
  BY LenProperties, ElementOfSeq
<1>2. DOMAIN pre = 1 .. a /\ \A i \in 1 .. a : i \in 1 .. Len(q) /\ pre[i] = q[i]
  <2>1. \A i \in 1 .. a : i \in 1 .. Len(q) /\ q[i] \in S
    BY <1>1
  <2>2. /\ pre \in Seq(S) /\ Len(pre) = a
        /\ \A i \in 1 .. a : pre[i] = q[i]
    BY <1>1, <2>1, SubSeqProperties
  <2> QED BY <2>1, <2>2, LenProperties
<1>3. /\ DOMAIN post = 1 .. Len(q) - a
      /\ \A i \in 1 .. Len(q) - a : a + i \in 1 .. Len(q) /\ post[i] = q[a + i]
  <2>1. \A i \in a + 1 .. Len(q) : i \in 1 .. Len(q) /\ q[i] \in S
    BY <1>1
  <2>2. /\ post \in Seq(S) /\ Len(post) = Len(q) - a
        /\ \A i \in 1 .. Len(q) - a : post[i] = q[a + i]
    BY <1>1, RestOfSeq
  <2>3. \A i \in 1 .. Len(q) - a : a + i \in 1 .. Len(q)
    BY <1>1
  <2> QED BY <2>2, <2>3, LenProperties
<1> HIDE DEF pre, post
<1>4. SealedIn(pre)
  BY <1>1, <1>2 DEF SealedIn
<1>5. SealedIn(post)
  <2>1. \A i, j \in 1 .. Len(q) - a : i < j => a + i < a + j
    BY <1>1
  <2> QED BY <1>1, <1>3, <2>1 DEF SealedIn
<1>6. SealedAcross(pre, post)
  <2>1. \A i \in 1 .. a, j \in 1 .. Len(q) - a : i < a + j
    BY <1>1
  <2> QED BY <1>1, <1>2, <1>3, <2>1 DEF SealedIn, SealedAcross
<1>7. \A c : SealedAcross(c, q) => SealedAcross(c, pre) /\ SealedAcross(c, post)
  BY <1>1, <1>2, <1>3 DEF SealedAcross
<1>8. \A c : SealedAcross(q, c) => SealedAcross(post, c)
  BY <1>1, <1>3 DEF SealedAcross
<1>9. Elements(q) = Elements(pre) \cup Elements(post)
  <2>1. Elements(pre) \subseteq Elements(q) /\ Elements(post) \subseteq Elements(q)
    BY <1>1, <1>2, <1>3 DEF Elements
  <2>2. \A i \in 1 .. Len(q) : i \in 1 .. a \/ (i - a \in 1 .. Len(q) - a /\ a + (i - a) = i)
    BY <1>1
  <2>3. ASSUME NEW i \in 1 .. Len(q) PROVE q[i] \in Elements(pre) \cup Elements(post)
    <3>1. CASE i \in 1 .. a
      BY <1>2, <3>1 DEF Elements
    <3>2. CASE i - a \in 1 .. Len(q) - a /\ a + (i - a) = i
      <4>1. post[i - a] = q[i] /\ i - a \in DOMAIN post
        BY <1>3, <3>2
      <4> QED BY <4>1 DEF Elements
    <3> QED BY <2>2, <3>1, <3>2
  <2> QED BY <1>1, <2>1, <2>3 DEF Elements
<1> QED BY <1>4, <1>5, <1>6, <1>7, <1>8, <1>9 DEF pre, post

\* Taking the first element: nothing of a run comes after its last output.
LEMMA TailSealed ==
  ASSUME NEW S, NEW q \in Seq(S), q # <<>>, SealedIn(q)
  PROVE  /\ SealedIn(Tail(q))
         /\ \A c : SealedAcross(c, q) => SealedAcross(c, Tail(q))
         /\ \A c : SealedAcross(q, c) => /\ SealedAcross(Tail(q), c)
                                         /\ \A n \in Elements(c) : Ends(Head(q), n)
         /\ \A n \in Elements(Tail(q)) : Ends(Head(q), n)
         /\ Elements(q) = {Head(q)} \cup Elements(Tail(q))
<1>1. Len(q) \in Nat \ {0} /\ DOMAIN q = 1 .. Len(q) /\ Head(q) = q[1]
  BY EmptySeq, LenProperties, HeadTailProperties
<1>2. /\ DOMAIN Tail(q) = 1 .. Len(q) - 1
      /\ \A i \in 1 .. Len(q) - 1 : i + 1 \in 1 .. Len(q) /\ Tail(q)[i] = q[i + 1]
  <2>1. /\ Tail(q) \in Seq(S) /\ Len(Tail(q)) = Len(q) - 1
        /\ \A i \in 1 .. Len(Tail(q)) : Tail(q)[i] = q[i + 1]
    BY HeadTailProperties
  <2> QED BY <1>1, <2>1, LenProperties
<1>3. SealedIn(Tail(q))
  <2>1. \A i, j \in 1 .. Len(q) - 1 : i < j => i + 1 < j + 1
    BY <1>1
  <2> QED BY <1>1, <1>2, <2>1 DEF SealedIn
<1>4. \A n \in Elements(Tail(q)) : Ends(Head(q), n)
  <2>1. \A i \in 1 .. Len(q) - 1 : 1 < i + 1 /\ 1 \in 1 .. Len(q)
    BY <1>1
  <2> QED BY <1>1, <1>2, <2>1 DEF SealedIn, Elements
<1>5. Elements(q) = {Head(q)} \cup Elements(Tail(q))
  <2>1. Head(q) \in Elements(q) /\ Elements(Tail(q)) \subseteq Elements(q)
    BY <1>1, <1>2 DEF Elements
  <2>2. \A i \in 1 .. Len(q) : i = 1 \/ (i - 1 \in 1 .. Len(q) - 1 /\ (i - 1) + 1 = i)
    BY <1>1
  <2>3. ASSUME NEW i \in 1 .. Len(q) PROVE q[i] \in {Head(q)} \cup Elements(Tail(q))
    <3>1. CASE i - 1 \in 1 .. Len(q) - 1 /\ (i - 1) + 1 = i
      <4>1. Tail(q)[i - 1] = q[i] /\ i - 1 \in DOMAIN Tail(q)
        BY <1>2, <3>1
      <4> QED BY <4>1 DEF Elements
    <3> QED BY <1>1, <2>2, <3>1
  <2> QED BY <1>1, <2>1, <2>3 DEF Elements
<1>6. \A c : SealedAcross(c, q) => SealedAcross(c, Tail(q))
  BY <1>1, <1>2 DEF SealedAcross
<1>7. \A c : SealedAcross(q, c) => /\ SealedAcross(Tail(q), c)
                                   /\ \A n \in Elements(c) : Ends(Head(q), n)
  BY <1>1, <1>2 DEF SealedAcross, Elements
<1> QED BY <1>3, <1>4, <1>5, <1>6, <1>7

-----------------------------------------------------------------------------
(***************************************************************************)
(* The lane.                                                               *)
(***************************************************************************)

LEMMA Issuable ==
  ASSUME TypeOK
  PROVE  /\ \A x \in Outputs \cup tasks :
              x.scope \in Scopes /\ x.gen \in Nat /\ x.run \in Nat
         /\ \A m \in Outputs : m.kind = "lane"
<1>1. Outputs \subseteq Output
  <2>1. Elements(channel) \subseteq Output
    BY LenProperties, ElementOfSeq DEF TypeOK, Elements
  <2>2. Elements(messages) \subseteq Message
    BY LenProperties, ElementOfSeq DEF TypeOK, Elements
  <2>3. \A m \in Message : m.kind = "lane" => m \in Output
    BY DEF Message
  <2> QED BY <2>1, <2>2, <2>3 DEF Outputs
<1>2. \A x \in Output : x.scope \in Scopes /\ x.gen \in Nat /\ x.run \in Nat
  BY DEF Output
<1>3. \A x \in Task : x.scope \in Scopes /\ x.gen \in Nat /\ x.run \in Nat
  BY DEF Task
<1>4. \A x \in Output : x.kind = "lane"
  BY DEF Output
<1> QED BY <1>1, <1>2, <1>3, <1>4 DEF TypeOK

\* A step that leaves the lane alone.
LEMMA QuietKeeps ==
  ASSUME LaneInv, Outputs' \subseteq Outputs, program' = program,
         UNCHANGED <<store, nextGen, tasks, runs, current>>
  PROVE  LaneInv'
<1>1. Counted'
  BY DEF LaneInv, Counted, Clock, IsMounted, store
<1>2. Issued'
  BY DEF LaneInv, Issued, IssuedTo, Clock, IsMounted, store
<1>3. GateIsExact'
  BY DEF LaneInv, GateIsExact, Passes, store
<1>4. OneTaskPerRun' /\ Finished'
  BY DEF LaneInv, OneTaskPerRun, Finished
<1> QED BY <1>1, <1>2, <1>3, <1>4 DEF LaneInv

\* A pruned entry counts nothing, but its component does.
LEMMA PruneKeeps ==
  ASSUME TypeOK, LaneInv, IsMounted, NEW gone \in SUBSET Scopes, Prune(gone),
         Outputs' = Outputs, UNCHANGED <<program, nextGen, runs>>
  PROVE  LaneInv'
<1>1. /\ stored' = stored \ gone
      /\ \A s \in Scopes : s \notin gone => generation'[s] = generation[s]
                                            /\ current'[s] = current[s]
      /\ \A s \in gone : generation'[s] = 0 /\ current'[s] = None
      /\ tasks' \subseteq tasks
  BY DEF Prune, TypeOK
<1>2. IsMounted'
  BY DEF IsMounted
<1>3. Counted'
  <2>1. nextGen \in Nat
    BY DEF TypeOK
  <2> QED BY <1>1, <1>2, <2>1 DEF LaneInv, Counted, Clock
<1>4. Issued'
  BY <1>1, <1>2 DEF LaneInv, Issued, IssuedTo, Clock
<1>5. GateIsExact'
  <2> SUFFICES ASSUME NEW x \in (Outputs \cup tasks)'
               PROVE  Passes(x)' <=> current'[x.scope] = x.run
    BY DEF GateIsExact
  <2>1. x \in Outputs \cup tasks
    BY <1>1
  <2>2. x.scope \in Scopes /\ x.run \in Nat
    BY <2>1, Issuable
  <2>3. CASE x.scope \in gone
    <3>1. x.run # None
      BY <2>2, LanesAssumption
    <3> QED BY <1>1, <2>3, <3>1 DEF Passes
  <2>4. CASE x.scope \notin gone
    BY <1>1, <2>1, <2>2, <2>4 DEF LaneInv, GateIsExact, Passes
  <2> QED BY <2>3, <2>4
<1>6. OneTaskPerRun' /\ Finished'
  BY <1>1 DEF LaneInv, OneTaskPerRun, Finished
<1> QED BY <1>3, <1>4, <1>5, <1>6 DEF LaneInv

\* The next generation of a scope is newer than all that was issued to it.
LEMMA AdvanceClock ==
  ASSUME TypeOK, LaneInv, NEW s \in Scopes, Advance(s), program' = program
  PROVE  /\ \A r \in Scopes : Clock(r) \in Nat /\ Clock(r) <= Clock(r)'
         /\ Clock(s)' = NextGeneration(s) /\ Clock(s) < NextGeneration(s)
         /\ generation'[s] = NextGeneration(s) /\ NextGeneration(s) \in Nat
         /\ \A r \in Scopes : r # s => generation'[r] = generation[r]
         /\ \A r \in Scopes : generation'[r] <= Clock(r)'
         /\ runs' = runs + 1
<1>1. IsMounted' <=> IsMounted
  BY DEF IsMounted
<1>2. /\ generation \in [Scopes -> Nat] /\ nextGen \in Nat
      /\ \A r \in Scopes : generation[r] <= Clock(r)
  BY DEF TypeOK, LaneInv, Counted
<1>3. generation' = [generation EXCEPT ![s] = NextGeneration(s)] /\ runs' = runs + 1
  BY DEF Advance
<1>4. CASE IsMounted
  <2>1. NextGeneration(s) = nextGen + 1 /\ nextGen' = nextGen + 1
    BY <1>4 DEF Advance, NextGeneration
  <2>2. \A r \in Scopes : Clock(r) = nextGen /\ Clock(r)' = nextGen + 1
    BY <1>1, <1>4, <2>1 DEF Clock
  <2> QED BY <1>2, <1>3, <2>1, <2>2
<1>5. CASE ~IsMounted
  <2>1. NextGeneration(s) = generation[s] + 1
    BY <1>5 DEF NextGeneration
  <2>2. \A r \in Scopes : Clock(r) = generation[r] /\ Clock(r)' = generation'[r]
    BY <1>1, <1>5 DEF Clock
  <2> QED BY <1>2, <1>3, <2>1, <2>2
<1> QED BY <1>4, <1>5

\* After `run` only its task passes the gate, after `invalidate` nothing does.
LEMMA CallKeeps ==
  ASSUME TypeOK, LaneInv, NEW s \in Scopes, NEW due,
         Run(s, due) \/ Invalidate(s, due), stored' = stored \cup {s},
         program' = program, Outputs' \subseteq Outputs
  PROVE  LaneInv'
<1> DEFINE fresh == [scope |-> s, gen |-> NextGeneration(s), run |-> runs + 1]
<1>1. Advance(s)
  BY DEF Run, Invalidate
<1>2. /\ \A r \in Scopes : Clock(r) \in Nat /\ Clock(r) <= Clock(r)'
      /\ Clock(s)' = NextGeneration(s) /\ Clock(s) < NextGeneration(s)
      /\ generation'[s] = NextGeneration(s) /\ NextGeneration(s) \in Nat
      /\ \A r \in Scopes : r # s => generation'[r] = generation[r]
      /\ \A r \in Scopes : generation'[r] <= Clock(r)'
      /\ runs' = runs + 1
  BY <1>1, AdvanceClock
<1>3. /\ runs \in Nat /\ tasks \subseteq Task
      /\ current \in [Scopes -> Nat \cup {None}]
  BY DEF TypeOK
<1>4. /\ \A r \in Scopes : r # s => current'[r] = current[r]
      /\ \/ current'[s] = None /\ tasks' \subseteq tasks
         \/ /\ current'[s] = runs + 1 /\ fresh \in tasks'
            /\ tasks' \subseteq tasks \cup {fresh}
  BY <1>3 DEF Run, Invalidate
<1>5. fresh.scope = s /\ fresh.gen = NextGeneration(s) /\ fresh.run = runs + 1
  OBVIOUS
<1> HIDE DEF fresh
<1>6. \A x \in Outputs \cup tasks :
        /\ x.scope \in Scopes /\ x.gen \in Nat /\ x.run \in Nat
        /\ 0 < x.gen /\ x.gen <= Clock(x.scope) /\ x.run <= runs
  BY Issuable DEF LaneInv, Issued, IssuedTo
<1>7. \A x \in (Outputs \cup tasks)' :
        x \in Outputs \cup tasks \/ (x = fresh /\ current'[s] = runs + 1)
  BY <1>4
<1>8. Counted'
  <2> SUFFICES ASSUME NEW r \in Scopes
               PROVE  /\ r \notin stored' => generation'[r] = 0 /\ current'[r] = None
                      /\ generation'[r] <= Clock(r)'
                      /\ current'[r] # None => current'[r] <= runs'
    BY DEF Counted
  <2>1. CASE r = s
    BY <1>2, <1>3, <1>4, <2>1
  <2>2. CASE r # s
    <3>1. current[r] \in Nat \cup {None}
      BY <1>3
    <3>2. current[r] # None => current[r] <= runs + 1
      BY <1>3, <3>1 DEF LaneInv, Counted
    <3> QED BY <1>2, <1>4, <2>2, <3>2 DEF LaneInv, Counted
  <2> QED BY <2>1, <2>2
<1>9. Issued'
  <2> SUFFICES ASSUME NEW x \in (Outputs \cup tasks)'
               PROVE  0 < x.gen /\ x.gen <= Clock(x.scope)' /\ x.run <= runs'
    BY DEF Issued, IssuedTo
  <2>1. CASE x \in Outputs \cup tasks
    <3>1. Clock(x.scope) \in Nat /\ Clock(x.scope) <= Clock(x.scope)'
      BY <1>2, <1>6, <2>1
    <3>2. Clock(x.scope)' \in Nat
      <4>1. x.scope # s => generation'[x.scope] = generation[x.scope]
        BY <1>2, <1>6, <2>1
      <4> QED BY <1>1, <1>2, <1>6, <2>1, <4>1 DEF Clock, Advance, TypeOK
    <3> QED BY <1>2, <1>3, <1>6, <2>1, <3>1, <3>2
  <2>2. CASE x = fresh
    BY <1>2, <1>3, <1>5, <2>2
  <2> QED BY <1>7, <2>1, <2>2
<1>10. GateIsExact'
  <2> SUFFICES ASSUME NEW x \in (Outputs \cup tasks)'
               PROVE  Passes(x)' <=> current'[x.scope] = x.run
    BY DEF GateIsExact
  <2>1. CASE x \in Outputs \cup tasks /\ x.scope = s
    <3>1. generation'[s] # x.gen
      BY <1>2, <1>6, <2>1
    <3>2. current'[s] # x.run
      BY <1>3, <1>4, <1>6, <2>1, LanesAssumption
    <3> QED BY <2>1, <3>1, <3>2 DEF Passes
  <2>2. CASE x \in Outputs \cup tasks /\ x.scope # s
    BY <1>2, <1>4, <1>6, <2>2 DEF LaneInv, GateIsExact, Passes
  <2>3. CASE x = fresh /\ current'[s] = runs + 1
    BY <1>2, <1>5, <2>3 DEF Passes
  <2> QED BY <1>7, <2>1, <2>2, <2>3
<1>11. OneTaskPerRun'
  <2>1. \A t \in tasks : t.run # fresh.run
    BY <1>3, <1>5, <1>6
  <2> QED BY <1>4, <2>1 DEF LaneInv, OneTaskPerRun
<1>12. Finished'
  <2>1. \A m \in Outputs : m.run # fresh.run
    BY <1>3, <1>5, <1>6
  <2> QED BY <1>4, <2>1 DEF LaneInv, Finished
<1> QED BY <1>8, <1>9, <1>10, <1>11, <1>12 DEF LaneInv

\* A handler that only answers may do so when nothing of the run is left.
LEMMA PlainKeeps ==
  ASSUME TypeOK, LaneInv, NEW s \in Scopes, NEW due, NEW answered \in BOOLEAN,
         Plain(s, due, answered), stored' \in {stored, stored \cup {s}},
         program' = program, Outputs' \subseteq Outputs,
         answered => \A x \in Outputs' \cup tasks : x.run # current[s]
  PROVE  LaneInv'
<1>1. UNCHANGED <<generation, nextGen, tasks, runs, program>>
  BY DEF Plain
<1>2. /\ current \in [Scopes -> Nat \cup {None}]
      /\ current' = IF answered THEN [current EXCEPT ![s] = None] ELSE current
  BY DEF Plain, TypeOK
<1>3. Counted'
  BY <1>1, <1>2 DEF LaneInv, Counted, Clock, IsMounted
<1>4. Issued'
  BY <1>1 DEF LaneInv, Issued, IssuedTo, Clock, IsMounted
<1>5. GateIsExact'
  <2> SUFFICES ASSUME NEW x \in (Outputs \cup tasks)'
               PROVE  Passes(x)' <=> current'[x.scope] = x.run
    BY DEF GateIsExact
  <2>1. x \in Outputs \cup tasks /\ x \in Outputs' \cup tasks
    BY <1>1
  <2>2. x.scope \in Scopes /\ x.run \in Nat /\ x.gen \in Nat
    BY <2>1, Issuable
  <2>3. Passes(x)' <=> Passes(x)
    <3>1. s \notin stored => generation[s] = 0
      BY DEF LaneInv, Counted
    <3>2. 0 < x.gen
      BY <2>1 DEF LaneInv, Issued, IssuedTo
    <3> QED BY <1>1, <2>2, <3>1, <3>2 DEF Passes
  <2>4. current'[x.scope] = x.run <=> current[x.scope] = x.run
    <3>1. x.run # None
      BY <2>2, LanesAssumption
    <3> QED BY <1>2, <2>1, <2>2, <3>1
  <2> QED BY <2>1, <2>3, <2>4 DEF LaneInv, GateIsExact
<1>6. OneTaskPerRun' /\ Finished'
  BY <1>1 DEF LaneInv, OneTaskPerRun, Finished
<1> QED BY <1>3, <1>4, <1>5, <1>6 DEF LaneInv

\* The message m has left the batch, or the channel.
LEMMA ReceiveKeeps ==
  ASSUME TypeOK, LaneInv, NEW m, Receive(m), Outputs' \subseteq Outputs,
         m \in Message, m.kind = "lane" => m \in Outputs,
         \A n \in Outputs' : Ends(m, n)
  PROVE  LaneInv'
<1>1. program' = program
  BY DEF Receive
<1>2. CASE UNCHANGED <<store, nextGen, tasks, runs, current>>
  BY <1>1, <1>2, QuietKeeps
<1>3. ASSUME NEW s \in Scopes, NEW due, NEW answered \in BOOLEAN,
             Handle(s, due, answered),
             answered => \A x \in Outputs' \cup tasks : x.run # current[s]
      PROVE  LaneInv'
  <2>1. stored' = stored \cup {s}
    BY <1>3 DEF Handle
  <2>2. CASE Run(s, due) \/ Invalidate(s, due)
    BY <1>1, <2>1, <2>2, CallKeeps
  <2>3. CASE Plain(s, due, answered)
    BY <1>1, <1>3, <2>1, <2>3, PlainKeeps
  <2> QED BY <1>3, <2>2, <2>3 DEF Handle
<1>4. CASE m.kind = "lane" /\ Deliver(m) /\ Passes(m)
  <2> DEFINE due == IF m.last THEN None ELSE handle[m.scope]
  <2>1. m \in Outputs /\ m.scope \in Scopes /\ m.last \in BOOLEAN
    BY <1>4 DEF Message, Output
  <2>2. current[m.scope] = m.run
    BY <1>4, <2>1 DEF LaneInv, GateIsExact
  <2>3. m.last => \A x \in Outputs' \cup tasks : x.run # current[m.scope]
    <3>1. \A x \in Outputs' : x.kind = "lane"
      <4>1. \A x \in Outputs : x.kind = "lane"
        BY Issuable
      <4> QED BY <4>1
    <3>2. m.last => \A x \in Outputs' : x.run # m.run
      BY <1>4, <3>1 DEF Ends
    <3>3. m.last => \A x \in tasks : x.run # m.run
      BY <2>1 DEF LaneInv, Finished
    <3> QED BY <2>2, <3>2, <3>3
  <2>4. CASE Streams /\ m.last
    <3>1. stored' = stored /\ Plain(m.scope, due, m.last)
      BY <1>4, <2>4 DEF Deliver
    <3> QED BY <1>1, <2>1, <2>3, <3>1, PlainKeeps
  <2>5. CASE ~(Streams /\ m.last)
    <3>1. Handle(m.scope, due, m.last)
      BY <1>4, <2>5 DEF Deliver
    <3> QED BY <1>3, <2>1, <2>3, <3>1
  <2> QED BY <2>4, <2>5
<1>5. CASE m.kind = "lane" /\ Deliver(m) /\ ~Passes(m)
  BY <1>2, <1>5 DEF Deliver
<1>6. CASE m.kind \in {"event", "boot"} /\ Handle(m.scope, handle[m.scope], FALSE)
  <2>1. m.scope \in Scopes
    BY <1>6 DEF Message, Output
  <2> QED BY <1>3, <1>6, <2>1
<1> QED BY <1>2, <1>4, <1>5, <1>6 DEF Receive

-----------------------------------------------------------------------------
(***************************************************************************)
(* Every step.                                                             *)
(***************************************************************************)

LEMMA GateInit == Init => IInv
<1> SUFFICES ASSUME Init PROVE IInv
  OBVIOUS
<1>1. /\ messages = <<>> /\ channel = <<>> /\ tasks = {} /\ stored = {}
      /\ nextGen = 0 /\ runs = 0
      /\ generation = [s \in Scopes |-> 0] /\ current = [s \in Scopes |-> None]
  BY DEF Init
<1>2. Outputs = {}
  BY <1>1 DEF Outputs, Elements
<1>3. Counted
  BY <1>1 DEF Counted, Clock
<1>4. Issued /\ GateIsExact /\ OneTaskPerRun /\ Finished
  BY <1>1, <1>2 DEF Issued, GateIsExact, OneTaskPerRun, Finished
<1>5. Sealed /\ TreeDirect
  BY <1>1 DEF Sealed, SealedIn, SealedAcross, TreeDirect, Elements
<1> QED BY <1>3, <1>4, <1>5 DEF IInv, LaneInv

LEMMA RenderKeeps ==
  ASSUME TypeOK, IInv, NEW w \in Windows, Render(w)
  PROVE  IInv'
<1>1. UNCHANGED <<program, nextGen, messages, channel, runs>>
  BY DEF Render, app
<1>2. Outputs' = Outputs
  BY <1>1 DEF Outputs
<1>3. LaneInv'
  <2>1. CASE IsMounted /\ MountedView(w)
    <3>1. Dropped(w) \in SUBSET Scopes
      BY DEF TypeOK, Dropped, Under
    <3> QED BY <1>1, <1>2, <2>1, <3>1, PruneKeeps DEF IInv, MountedView
  <2>2. CASE RetainedView(w)
    <3>1. UNCHANGED <<store, nextGen, tasks, runs, current, program>>
      BY <1>1, <2>2 DEF RetainedView
    <3> QED BY <1>2, <3>1, QuietKeeps DEF IInv
  <2> QED BY <2>1, <2>2 DEF Render
<1>4. Sealed' /\ TreeDirect'
  BY <1>1 DEF IInv, Sealed, TreeDirect, IsTree
<1> QED BY <1>3, <1>4 DEF IInv

LEMMA WindowKeeps ==
  ASSUME TypeOK, IInv, NEW w \in Windows, Relayout(w) \/ Open(w) \/ Close(w)
  PROVE  IInv'
<1>1. UNCHANGED <<program, store, nextGen, messages, channel, tasks, runs, current>>
  BY DEF Relayout, Open, Close, app, loop, work, mounted
<1>2. Outputs' = Outputs
  BY <1>1 DEF Outputs
<1>3. LaneInv'
  BY <1>1, <1>2, QuietKeeps DEF IInv
<1>4. Sealed' /\ TreeDirect'
  BY <1>1 DEF IInv, Sealed, TreeDirect, IsTree
<1> QED BY <1>3, <1>4 DEF IInv

LEMMA BootsNoLane ==
  ASSUME NEW q
  PROVE  NoLane(BootMessages(q))
BY DEF NoLane, BootMessages

\* Messages that are no outputs, before or after the batch.
LEMMA AddedKeeps ==
  ASSUME TypeOK, IInv, NEW more \in Seq(Message), NoLane(more),
         messages' \in {messages \o more, more \o messages},
         UNCHANGED <<program, store, nextGen, channel, tasks, runs, current>>
  PROVE  IInv'
<1>1. messages \in Seq(Message)
  BY DEF TypeOK
<1>2. /\ SealedIn(more) /\ SealedAcross(more, channel)
      /\ SealedAcross(more, messages) /\ SealedAcross(messages, more)
  BY NoLaneSealed
<1>3. /\ SealedIn(messages) /\ SealedIn(channel) /\ SealedAcross(messages, channel)
  BY DEF IInv, Sealed
<1>4. Elements(messages') = Elements(messages) \cup Elements(more)
  <2>1. /\ Elements(messages \o more) = Elements(messages) \cup Elements(more)
        /\ Elements(more \o messages) = Elements(messages) \cup Elements(more)
    BY <1>1, ConcatSealed
  <2>2. CASE messages' = messages \o more
    BY <2>1, <2>2
  <2>3. CASE messages' = more \o messages
    BY <2>1, <2>3
  <2> QED BY <2>2, <2>3
<1>5. Sealed'
  BY <1>1, <1>2, <1>3, ConcatSealed DEF Sealed
<1>6. \A m \in Elements(more) : m.kind # "lane"
  BY DEF NoLane, Elements
<1>7. Outputs' \subseteq Outputs
  BY <1>4, <1>6 DEF Outputs
<1>8. LaneInv'
  BY <1>7, QuietKeeps DEF IInv
<1>9. TreeDirect'
  BY <1>4, <1>6 DEF IInv, TreeDirect, IsTree
<1> QED BY <1>5, <1>8, <1>9 DEF IInv

LEMMA InteractAdds ==
  ASSUME TypeOK, NEW w \in Windows, Interact(w)
  PROVE  \E more \in Seq(Message) : NoLane(more) /\ messages' = messages \o more
<1> DEFINE held == IF IsTree THEN <<>> ELSE BootMessages(ui[w].boots)
<1>1. PICK more \in {<<>>, <<[kind |-> "app"]>>}
                      \cup {<<[kind |-> "event", scope |-> s]>> : s \in ui[w].shown} :
        messages' = messages \o held \o more
  BY DEF Interact
<1>2. more \in Seq(Message) /\ NoLane(more)
  <2>1. CASE more = <<>>
    BY <2>1 DEF NoLane
  <2>2. CASE more = <<[kind |-> "app"]>>
    <3>1. [kind |-> "app"] \in Message
      BY DEF Message
    <3> QED BY <2>2, <3>1 DEF NoLane
  <2>3. CASE \E s \in ui[w].shown : more = <<[kind |-> "event", scope |-> s]>>
    <3>1. PICK s \in ui[w].shown : more = <<[kind |-> "event", scope |-> s]>>
      BY <2>3
    <3>2. s \in Scopes
      BY DEF TypeOK
    <3>3. [kind |-> "event", scope |-> s] \in Message
      BY <3>2 DEF Message
    <3> QED BY <3>1, <3>3 DEF NoLane
  <2> QED BY <1>1, <2>1, <2>2, <2>3
<1>3. held \in Seq(Message) /\ NoLane(held)
  <2>1. BootMessages(ui[w].boots) \in Seq(Message)
    BY BootMessagesType DEF TypeOK
  <2>2. NoLane(<<>>)
    BY DEF NoLane
  <2> QED BY <2>1, <2>2, BootsNoLane, EmptySeq
<1>4. held \o more \in Seq(Message) /\ NoLane(held \o more)
  BY <1>2, <1>3, ConcatProperties, ConcatSealed
<1>5. messages' = messages \o (held \o more)
  <2>1. messages \in Seq(Message)
    BY DEF TypeOK
  <2> HIDE DEF held
  <2>2. (messages \o held) \o more = messages \o (held \o more)
    BY <1>2, <1>3, <2>1, ConcatAssociative
  <2> QED BY <1>1, <2>2
<1> QED BY <1>4, <1>5

LEMMA InteractKeeps ==
  ASSUME TypeOK, IInv, NEW w \in Windows, Interact(w)
  PROVE  IInv'
<1>1. PICK more \in Seq(Message) : NoLane(more) /\ messages' = messages \o more
  BY InteractAdds
<1>2. UNCHANGED <<program, store, nextGen, channel, tasks, runs, current>>
  BY DEF Interact, app, mounted, work
<1> QED BY <1>1, <1>2, AddedKeeps

LEMMA StartKeeps ==
  ASSUME TypeOK, IInv,
         \/ \E arrived \in 0 .. Len(channel) : StartBatch(arrived)
         \/ \E w \in Windows : StartTick(w)
  PROVE  IInv'
<1>1. ASSUME NEW arrived \in 0 .. Len(channel), StartBatch(arrived)
      PROVE  IInv'
  <2> DEFINE pre == SubSeq(channel, 1, arrived)
             post == SubSeq(channel, arrived + 1, Len(channel))
  <2>1. channel \in Seq(Output) /\ Len(channel) \in Nat /\ messages \in Seq(Message)
    BY DEF TypeOK
  <2>2. messages' = messages \o pre /\ channel' = post
    BY <1>1 DEF StartBatch
  <2>3. /\ SealedIn(messages) /\ SealedIn(channel) /\ SealedAcross(messages, channel)
    BY DEF IInv, Sealed
  <2>4. /\ SealedIn(pre) /\ SealedIn(post) /\ SealedAcross(pre, post)
        /\ SealedAcross(messages, pre) /\ SealedAcross(messages, post)
        /\ Elements(pre) \subseteq Elements(channel)
        /\ Elements(post) \subseteq Elements(channel)
    BY <2>1, <2>3, SplitSealed
  <2>5. pre \in Seq(Message)
    <3>1. \A i \in 1 .. arrived : channel[i] \in Output
      BY <2>1
    <3>2. pre \in Seq(Output)
      BY <2>1, <3>1, SubSeqProperties
    <3> QED BY <3>2, SeqMonotonic DEF Message
  <2> HIDE DEF pre, post
  <2>6. Sealed'
    BY <2>1, <2>2, <2>3, <2>4, <2>5, ConcatSealed DEF Sealed
  <2>7. Elements(messages') = Elements(messages) \cup Elements(pre)
    BY <2>1, <2>2, <2>5, ConcatSealed
  <2>8. Outputs' \subseteq Outputs
    BY <2>2, <2>4, <2>7 DEF Outputs
  <2>9. UNCHANGED <<program, store, nextGen, tasks, runs, current>> /\ ~IsTree
    BY <1>1 DEF StartBatch, app, mounted
  <2>10. LaneInv'
    BY <2>8, <2>9, QuietKeeps DEF IInv
  <2>11. TreeDirect'
    BY <2>9 DEF TreeDirect, IsTree
  <2> QED BY <2>6, <2>10, <2>11 DEF IInv
<1>2. ASSUME NEW w \in Windows, StartTick(w)
      PROVE  IInv'
  <2>1. BootMessages(ui[w].boots) \in Seq(Message)
    BY BootMessagesType DEF TypeOK
  <2>2. messages' = BootMessages(ui[w].boots) \o messages
    BY <1>2 DEF StartTick
  <2>3. UNCHANGED <<program, store, nextGen, channel, tasks, runs, current>>
    BY <1>2 DEF StartTick, app, mounted, work
  <2> QED BY <2>1, <2>2, <2>3, BootsNoLane, AddedKeeps
<1> QED BY <1>1, <1>2

LEMMA ConsumeKeeps ==
  ASSUME TypeOK, IInv, Update \/ Settle
  PROVE  IInv'
<1>1. /\ messages \in Seq(Message) /\ channel \in Seq(Output)
      /\ SealedIn(messages) /\ SealedIn(channel) /\ SealedAcross(messages, channel)
  BY DEF TypeOK, IInv, Sealed
<1>2. CASE Update
  <2>1. /\ messages # <<>> /\ Receive(Head(messages))
        /\ messages' = Tail(messages) /\ channel' = channel
    BY <1>2 DEF Update
  <2>2. /\ Sealed' /\ \A n \in Outputs' : Ends(Head(messages), n)
        /\ Head(messages) \in Elements(messages)
        /\ Elements(messages') \subseteq Elements(messages)
    BY <1>1, <2>1, TailSealed DEF Sealed, Outputs
  <2>3. Outputs' \subseteq Outputs
    BY <2>1, <2>2 DEF Outputs
  <2>4. /\ Head(messages) \in Message
        /\ Head(messages).kind = "lane" => Head(messages) \in Outputs
    BY <1>1, <2>1, <2>2, HeadTailProperties DEF Outputs
  <2>5. LaneInv'
    BY <2>1, <2>2, <2>3, <2>4, ReceiveKeeps DEF IInv
  <2>6. TreeDirect'
    BY <2>1, <2>2 DEF IInv, TreeDirect, IsTree, Receive
  <2> QED BY <2>2, <2>5, <2>6 DEF IInv
<1>3. CASE Settle
  <2>1. /\ channel # <<>> /\ Receive(Head(channel)) /\ IsTree
        /\ channel' = Tail(channel) /\ messages' = messages
    BY <1>3 DEF Settle
  <2>2. /\ Sealed' /\ \A n \in Elements(channel') : Ends(Head(channel), n)
        /\ Head(channel) \in Elements(channel)
        /\ Elements(channel') \subseteq Elements(channel)
    BY <1>1, <2>1, TailSealed DEF Sealed
  <2>3. Outputs' \subseteq Outputs
    BY <2>1, <2>2 DEF Outputs
  <2>4. Outputs' = Elements(channel')
    BY <2>1 DEF IInv, TreeDirect, Outputs
  <2>5. Head(channel) \in Message /\ Head(channel) \in Outputs
    BY <1>1, <2>1, <2>2, HeadTailProperties DEF Outputs, Message
  <2>6. LaneInv'
    BY <2>1, <2>2, <2>3, <2>4, <2>5, ReceiveKeeps DEF IInv
  <2>7. TreeDirect'
    BY <2>1 DEF IInv, TreeDirect, IsTree, Receive
  <2> QED BY <2>2, <2>6, <2>7 DEF IInv
<1> QED BY <1>2, <1>3

LEMMA YieldKeeps ==
  ASSUME TypeOK, IInv, NEW t \in tasks, NEW last \in BOOLEAN, Yield(t, last)
  PROVE  IInv'
<1> DEFINE out == [kind |-> "lane", scope |-> t.scope, gen |-> t.gen,
                   run |-> t.run, last |-> last]
<1>1. /\ messages \in Seq(Message) /\ channel \in Seq(Output) /\ out \in Output
      /\ SealedIn(messages) /\ SealedIn(channel) /\ SealedAcross(messages, channel)
  BY DEF TypeOK, IInv, Sealed, Task, Output
<1>2. /\ channel' = channel \o <<out>> /\ <<out>> \in Seq(Output)
      /\ tasks' = IF last THEN tasks \ {t} ELSE tasks
  BY <1>1, AppendIsConcat DEF Yield
<1>3. UNCHANGED <<program, store, nextGen, messages, runs, current>>
  BY DEF Yield, app, mounted, loop
<1>4. /\ out.scope = t.scope /\ out.gen = t.gen /\ out.run = t.run
      /\ out.last = last /\ out.kind = "lane"
  OBVIOUS
<1> HIDE DEF out
<1>5. Elements(channel') = Elements(channel) \cup {out}
  <2>1. Elements(<<out>>) = {out}
    BY DEF Elements
  <2>2. Elements(channel \o <<out>>) = Elements(channel) \cup Elements(<<out>>)
    BY <1>1, <1>2, ConcatSealed
  <2>3. Elements(channel') = Elements(channel \o <<out>>)
    BY <1>2 DEF Elements
  <2> QED BY <2>1, <2>2, <2>3
<1>6. Outputs' = Outputs \cup {out}
  BY <1>3, <1>5 DEF Outputs
<1>7. \A m \in Outputs : Ends(m, out)
  BY <1>4 DEF IInv, LaneInv, Finished, Ends
<1>8. Sealed'
  <2>1. SealedIn(<<out>>)
    BY DEF SealedIn
  <2>2. SealedAcross(channel, <<out>>)
    BY <1>7 DEF SealedAcross, Outputs, Elements
  <2>3. SealedAcross(messages, <<out>>)
    <3>1. \A i \in DOMAIN messages : messages[i].kind = "lane" => messages[i] \in Outputs
      BY DEF Outputs, Elements
    <3> QED BY <1>7, <3>1 DEF SealedAcross, Ends
  <2>4. SealedAcross(messages, channel \o <<out>>)
    <3>1. /\ DOMAIN (channel \o <<out>>) = 1 .. Len(channel) + 1
          /\ Len(channel) \in Nat /\ DOMAIN channel = 1 .. Len(channel)
          /\ \A i \in 1 .. Len(channel) : (channel \o <<out>>)[i] = channel[i]
          /\ (channel \o <<out>>)[Len(channel) + 1] = out
      BY <1>1, <1>2
    <3> QED BY <1>1, <2>3, <3>1 DEF SealedAcross
  <2> QED BY <1>1, <1>2, <1>3, <2>1, <2>2, <2>4, ConcatSealed DEF Sealed
<1>9. TreeDirect'
  BY <1>3 DEF IInv, TreeDirect, IsTree
<1>10. LaneInv'
  <2>1. Counted'
    BY <1>3 DEF IInv, LaneInv, Counted, Clock, IsMounted, store
  <2>2. Issued'
    BY <1>2, <1>3, <1>4, <1>6
       DEF IInv, LaneInv, Issued, IssuedTo, Clock, IsMounted, store
  <2>3. GateIsExact'
    BY <1>2, <1>3, <1>4, <1>6 DEF IInv, LaneInv, GateIsExact, Passes, store
  <2>4. OneTaskPerRun'
    BY <1>2 DEF IInv, LaneInv, OneTaskPerRun
  <2>5. Finished'
    BY <1>2, <1>4, <1>6 DEF IInv, LaneInv, Finished, OneTaskPerRun
  <2> QED BY <2>1, <2>2, <2>3, <2>4, <2>5 DEF LaneInv
<1> QED BY <1>8, <1>9, <1>10 DEF IInv

LEMMA GateStep == TypeOK /\ IInv /\ [Next]_vars => IInv'
<1> SUFFICES ASSUME TypeOK, IInv, [Next]_vars PROVE IInv'
  OBVIOUS
<1>1. ASSUME NEW w \in Windows, Render(w) PROVE IInv'
  BY <1>1, RenderKeeps
<1>2. ASSUME NEW w \in Windows, Relayout(w) \/ Open(w) \/ Close(w) PROVE IInv'
  BY <1>2, WindowKeeps
<1>3. ASSUME NEW w \in Windows, Interact(w) PROVE IInv'
  BY <1>3, InteractKeeps
<1>4. ASSUME NEW w \in Windows, StartTick(w) PROVE IInv'
  BY <1>4, StartKeeps
<1>5. ASSUME NEW arrived \in 0 .. Len(channel), StartBatch(arrived) PROVE IInv'
  BY <1>5, StartKeeps
<1>6. CASE Update \/ Settle
  BY <1>6, ConsumeKeeps
<1>7. ASSUME NEW t \in tasks, NEW last \in BOOLEAN, Yield(t, last) PROVE IInv'
  BY <1>7, YieldKeeps
<1>8. CASE UNCHANGED vars
  <2>1. UNCHANGED <<program, store, nextGen, messages, channel, tasks, runs, current>>
    BY <1>8 DEF vars, app, mounted, loop, work
  <2>2. Outputs' = Outputs
    BY <2>1 DEF Outputs
  <2>3. LaneInv'
    BY <2>1, <2>2, QuietKeeps DEF IInv
  <2> QED BY <2>1, <2>3 DEF IInv, Sealed, TreeDirect, IsTree
<1> QED BY <1>1, <1>2, <1>3, <1>4, <1>5, <1>6, <1>7, <1>8 DEF Next

\* In every reachable state, a result, item or end of a stream passes its
\* lane's generation gate exactly if it is of the newest call of the instance
\* that is there now and that call still waits for it.
THEOREM GateExact == Spec => []GateIsExact
<1>1. Init => TypeOK /\ IInv
  BY TypeInit, GateInit
<1>2. TypeOK /\ IInv /\ [Next]_vars => TypeOK' /\ IInv'
  BY TypeStep, GateStep
<1>3. IInv => GateIsExact
  BY DEF IInv, LaneInv
<1> QED BY <1>1, <1>2, <1>3, PTL DEF Spec

-----------------------------------------------------------------------------
(***************************************************************************)
(* Nothing that is due is lost.                                            *)
(***************************************************************************)

\* The call a lane waits for is one of its own scope.
DueTask(s) == \E t \in tasks : t.scope = s /\ t.run = current[s]
DueOutput(s) == \E m \in Outputs : m.scope = s /\ m.run = current[s] /\ m.last
Answered ==
  \A s \in Scopes : current[s] # None => DueTask(s) \/ DueOutput(s)

LEMMA DueStays ==
  ASSUME Answered, UNCHANGED <<tasks, current>>, Outputs \subseteq Outputs'
  PROVE  Answered'
BY DEF Answered, DueTask, DueOutput

LEMMA RenderAnswers ==
  ASSUME TypeOK, Answered, NEW w \in Windows, Render(w)
  PROVE  Answered'
<1>1. Outputs' = Outputs
  BY DEF Render, Outputs
<1>2. CASE MountedView(w)
  <2>1. PICK gone \in SUBSET Scopes : Prune(gone)
    BY <1>2 DEF MountedView, TypeOK, Dropped, Under
  <2>2. /\ tasks \ tasks' = Aborted(gone) \cap tasks
        /\ \A s \in Scopes :
             current'[s] = IF s \in gone THEN None ELSE current[s]
    BY <2>1 DEF Prune
  <2>3. \A t \in Aborted(gone) : t.scope \in gone
    BY DEF Aborted
  <2> SUFFICES ASSUME NEW s \in Scopes, current'[s] # None
               PROVE  DueTask(s)' \/ DueOutput(s)'
    BY DEF Answered
  <2>4. s \notin gone /\ current'[s] = current[s]
    BY <2>2
  <2>5. \A t \in tasks : t.scope = s => t \in tasks'
    BY <2>2, <2>3, <2>4
  <2> QED BY <1>1, <2>4, <2>5 DEF Answered, DueTask, DueOutput
<1>3. CASE RetainedView(w)
  BY <1>1, <1>3, DueStays DEF RetainedView
<1> QED BY <1>2, <1>3 DEF Render

\* Outputs on their way into the batch stay.
LEMMA BatchAnswers ==
  ASSUME TypeOK, IInv, Answered,
         \/ \E w \in Windows : Interact(w) \/ StartTick(w)
         \/ \E arrived \in 0 .. Len(channel) : StartBatch(arrived)
  PROVE  Answered'
<1>1. messages \in Seq(Message) /\ channel \in Seq(Output)
  BY DEF TypeOK
<1>2. ASSUME NEW w \in Windows, Interact(w) \/ StartTick(w)
      PROVE  Answered'
  <2>1. \E more \in Seq(Message) : messages' \in {messages \o more, more \o messages}
    <3>1. BootMessages(ui[w].boots) \in Seq(Message)
      BY BootMessagesType DEF TypeOK
    <3>2. CASE StartTick(w)
      BY <3>1, <3>2 DEF StartTick
    <3>3. CASE Interact(w)
      BY <3>3, InteractAdds
    <3> QED BY <1>2, <3>2, <3>3
  <2>2. Elements(messages) \subseteq Elements(messages')
    <3>1. PICK more \in Seq(Message) : messages' \in {messages \o more, more \o messages}
      BY <2>1
    <3>2. /\ Elements(messages) \subseteq Elements(messages \o more)
          /\ Elements(messages) \subseteq Elements(more \o messages)
      BY <1>1, ConcatSealed
    <3> QED BY <3>1, <3>2
  <2>3. UNCHANGED <<channel, tasks, current>>
    BY <1>2 DEF Interact, StartTick, work
  <2>4. Outputs \subseteq Outputs'
    BY <2>2, <2>3 DEF Outputs
  <2> QED BY <2>3, <2>4, DueStays
<1>3. ASSUME NEW arrived \in 0 .. Len(channel), StartBatch(arrived)
      PROVE  Answered'
  <2> DEFINE pre == SubSeq(channel, 1, arrived)
             post == SubSeq(channel, arrived + 1, Len(channel))
  <2>1. messages' = messages \o pre /\ channel' = post /\ UNCHANGED <<tasks, current>>
    BY <1>3 DEF StartBatch
  <2>2. Elements(channel) = Elements(pre) \cup Elements(post)
    BY <1>1, SplitSealed DEF IInv, Sealed
  <2>3. pre \in Seq(Message)
    <3>1. \A i \in 1 .. arrived : channel[i] \in Output
      BY <1>1, LenProperties, ElementOfSeq
    <3>2. pre \in Seq(Output)
      BY <1>1, <3>1, LenProperties, SubSeqProperties
    <3> QED BY <3>2, SeqMonotonic DEF Message
  <2> HIDE DEF pre, post
  <2>4. Elements(messages') = Elements(messages) \cup Elements(pre)
    BY <1>1, <2>1, <2>3, ConcatSealed
  <2>5. Elements(channel') = Elements(post)
    BY <2>1 DEF Elements
  <2>6. Outputs \subseteq Outputs'
    BY <2>2, <2>4, <2>5, Issuable DEF Outputs
  <2> QED BY <2>1, <2>6, DueStays
<1> QED BY <1>2, <1>3

LEMMA HandleAnswers ==
  ASSUME TypeOK, Answered, NEW s \in Scopes, NEW due, NEW answered \in BOOLEAN,
         Run(s, due) \/ Invalidate(s, due) \/ Plain(s, due, answered),
         \A x \in Outputs : x \notin Outputs' => x.scope = s /\ (x.last => answered)
  PROVE  Answered'
<1> SUFFICES ASSUME NEW r \in Scopes, current'[r] # None
             PROVE  DueTask(r)' \/ DueOutput(r)'
  BY DEF Answered
<1>1. current \in [Scopes -> Nat \cup {None}]
  BY DEF TypeOK
<1>2. CASE r # s
  <2>1. current'[r] = current[r]
    BY <1>1, <1>2 DEF Run, Invalidate, Plain
  <2>2. \A t \in tasks : t.scope = r => t \in tasks'
    BY <1>2 DEF Run, Invalidate, Plain, Stopped
  <2>3. \A m \in Outputs : m.scope = r /\ m.last => m \in Outputs'
    BY <1>2
  <2> QED BY <2>1, <2>2, <2>3 DEF Answered, DueTask, DueOutput
<1>3. CASE r = s /\ Run(s, due)
  <2> DEFINE fresh == [scope |-> s, gen |-> NextGeneration(s), run |-> runs + 1]
  <2>1. fresh \in tasks' /\ current'[s] = runs + 1
    BY <1>1, <1>3 DEF Run
  <2> QED BY <1>3, <2>1 DEF DueTask
<1>4. CASE r = s /\ Invalidate(s, due)
  BY <1>1, <1>4 DEF Invalidate
<1>5. CASE r = s /\ Plain(s, due, answered)
  <2>1. ~answered /\ current' = current /\ tasks' = tasks
    BY <1>1, <1>5 DEF Plain
  <2> QED BY <1>5, <2>1 DEF Answered, DueTask, DueOutput
<1> QED BY <1>2, <1>3, <1>4, <1>5

\* The message m has left the batch, or the channel: it is handled, or what it
\* answers is no longer due.
LEMMA ReceiveAnswers ==
  ASSUME TypeOK, LaneInv, Answered, NEW m \in Message, Receive(m),
         m.kind = "lane" => m \in Outputs, Outputs \subseteq Outputs' \cup {m}
  PROVE  Answered'
<1>1. m.kind # "lane" => Outputs \subseteq Outputs'
  BY Issuable
<1>2. CASE m.kind = "app"
  <2>1. UNCHANGED <<tasks, current>>
    BY <1>2 DEF Receive
  <2> QED BY <1>1, <1>2, <2>1, DueStays
<1>3. CASE m.kind = "lane" /\ Deliver(m) /\ ~Passes(m)
  <2>1. UNCHANGED <<tasks, current>>
    BY <1>3 DEF Deliver
  <2>2. current[m.scope] # m.run
    BY <1>3 DEF LaneInv, GateIsExact
  <2> QED BY <2>1, <2>2 DEF Answered, DueTask, DueOutput
<1>4. CASE m.kind = "lane" /\ Deliver(m) /\ Passes(m)
  <2> DEFINE due == IF m.last THEN None ELSE handle[m.scope]
  <2>1. m.scope \in Scopes /\ m.last \in BOOLEAN
    BY <1>4 DEF Message, Output
  <2>2. \A x \in Outputs : x \notin Outputs' => x.scope = m.scope /\ (x.last => m.last)
    OBVIOUS
  <2>3. \/ Run(m.scope, due) \/ Invalidate(m.scope, due)
        \/ Plain(m.scope, due, m.last)
    BY <1>4 DEF Deliver, Handle
  <2> QED BY <2>1, <2>2, <2>3, HandleAnswers
<1>5. CASE m.kind \in {"event", "boot"} /\ Handle(m.scope, handle[m.scope], FALSE)
  <2>1. m.scope \in Scopes
    BY <1>5 DEF Message, Output
  <2>2. \A x \in Outputs : x \notin Outputs' => x.scope = m.scope /\ (x.last => FALSE)
    BY <1>1, <1>5
  <2>3. \/ Run(m.scope, handle[m.scope]) \/ Invalidate(m.scope, handle[m.scope])
        \/ Plain(m.scope, handle[m.scope], FALSE)
    BY <1>5 DEF Handle
  <2> QED BY <2>1, <2>2, <2>3, HandleAnswers
<1> QED BY <1>2, <1>3, <1>4, <1>5 DEF Receive

LEMMA ConsumeAnswers ==
  ASSUME TypeOK, IInv, Answered, Update \/ Settle
  PROVE  Answered'
<1>1. /\ messages \in Seq(Message) /\ channel \in Seq(Output)
      /\ SealedIn(messages) /\ SealedIn(channel)
  BY DEF TypeOK, IInv, Sealed
<1>2. CASE Update
  <2>1. /\ messages # <<>> /\ Receive(Head(messages))
        /\ messages' = Tail(messages) /\ channel' = channel
    BY <1>2 DEF Update
  <2>2. Elements(messages) = {Head(messages)} \cup Elements(messages')
    <3>1. Elements(messages') = Elements(Tail(messages))
      BY <2>1 DEF Elements
    <3> QED BY <1>1, <2>1, <3>1, TailSealed
  <2>3. /\ Head(messages) \in Message
        /\ Head(messages).kind = "lane" => Head(messages) \in Outputs
    BY <1>1, <2>1, <2>2, HeadTailProperties DEF Outputs
  <2>4. Outputs \subseteq Outputs' \cup {Head(messages)}
    BY <2>1, <2>2 DEF Outputs
  <2> QED BY <2>1, <2>3, <2>4, ReceiveAnswers DEF IInv
<1>3. CASE Settle
  <2>1. /\ channel # <<>> /\ Receive(Head(channel))
        /\ channel' = Tail(channel) /\ messages' = messages
    BY <1>3 DEF Settle
  <2>2. Elements(channel) = {Head(channel)} \cup Elements(channel')
    <3>1. Elements(channel') = Elements(Tail(channel))
      BY <2>1 DEF Elements
    <3> QED BY <1>1, <2>1, <3>1, TailSealed
  <2>3. Head(channel) \in Message /\ Head(channel) \in Outputs
    BY <1>1, <2>1, <2>2, HeadTailProperties DEF Outputs, Message
  <2>4. Outputs \subseteq Outputs' \cup {Head(channel)}
    BY <2>1, <2>2 DEF Outputs
  <2> QED BY <2>1, <2>3, <2>4, ReceiveAnswers DEF IInv
<1> QED BY <1>2, <1>3

LEMMA YieldAnswers ==
  ASSUME TypeOK, Answered, NEW t \in tasks, NEW last \in BOOLEAN, Yield(t, last)
  PROVE  Answered'
<1> DEFINE out == [kind |-> "lane", scope |-> t.scope, gen |-> t.gen,
                   run |-> t.run, last |-> last]
<1>1. out \in Output /\ messages \in Seq(Message) /\ channel \in Seq(Output)
  BY DEF TypeOK, Task, Output
<1>2. Elements(channel \o <<out>>) = Elements(channel) \cup Elements(<<out>>)
  <2>1. <<out>> \in Seq(Output)
    BY <1>1
  <2> QED BY <1>1, <2>1, ConcatSealed
<1>3. Elements(channel') = Elements(channel \o <<out>>)
  BY <1>1, AppendIsConcat DEF Yield, Elements
<1>4. Elements(<<out>>) = {out}
  BY DEF Elements
<1>5. messages' = messages /\ current' = current
  BY DEF Yield, loop
<1>6. Outputs' = Outputs \cup {out}
  <2>1. Elements(messages') = Elements(messages)
    BY <1>5 DEF Elements
  <2> QED BY <1>2, <1>3, <1>4, <2>1 DEF Outputs
<1>7. /\ out.scope = t.scope /\ out.run = t.run /\ out.last = last
      /\ tasks' = IF last THEN tasks \ {t} ELSE tasks
  BY DEF Yield
<1> HIDE DEF out
<1> QED BY <1>5, <1>6, <1>7 DEF Answered, DueTask, DueOutput

\* In every reachable state the newest call a lane waits for is answered: its
\* task runs on or its last output is on its way.  Neither pruning, replacing,
\* invalidating nor a message of another run takes the answer away.
THEOREM NewestAnswered == Spec => []NewestIsAnswered
<1>1. Init => TypeOK /\ IInv /\ Answered
  BY TypeInit, GateInit DEF Init, Answered
<1>2. TypeOK /\ IInv /\ Answered /\ [Next]_vars => TypeOK' /\ IInv' /\ Answered'
  <2> SUFFICES ASSUME TypeOK, IInv, Answered, [Next]_vars PROVE Answered'
    BY TypeStep, GateStep
  <2>1. ASSUME NEW w \in Windows, Render(w) PROVE Answered'
    BY <2>1, RenderAnswers
  <2>2. ASSUME NEW w \in Windows, Relayout(w) \/ Open(w) \/ Close(w) PROVE Answered'
    <3>1. UNCHANGED <<messages, channel, tasks, current>>
      BY <2>2 DEF Relayout, Open, Close, loop, work
    <3> QED BY <3>1, DueStays DEF Outputs
  <2>3. ASSUME NEW w \in Windows, Interact(w) \/ StartTick(w) PROVE Answered'
    BY <2>3, BatchAnswers
  <2>4. ASSUME NEW arrived \in 0 .. Len(channel), StartBatch(arrived) PROVE Answered'
    BY <2>4, BatchAnswers
  <2>5. CASE Update \/ Settle
    BY <2>5, ConsumeAnswers
  <2>6. ASSUME NEW t \in tasks, NEW last \in BOOLEAN, Yield(t, last) PROVE Answered'
    BY <2>6, YieldAnswers
  <2>7. CASE UNCHANGED vars
    BY <2>7, DueStays DEF vars, loop, work, Outputs
  <2> QED BY <2>1, <2>2, <2>3, <2>4, <2>5, <2>6, <2>7 DEF Next
<1>3. TypeOK /\ Answered => NewestIsAnswered
  BY DEF Answered, DueTask, DueOutput, NewestIsAnswered
<1> QED BY <1>1, <1>2, <1>3, PTL DEF Spec
=============================================================================
