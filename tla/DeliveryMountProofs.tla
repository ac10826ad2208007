------------------------- MODULE DeliveryMountProofs --------------------------
(***************************************************************************)
(* The life of mounted instances, for every set of windows and scopes,     *)
(* every kind of program and every bound of DeliveryLanes: their state is  *)
(* kept while they are on screen and fresh when they return, they boot     *)
(* once and, in a guest, always, and abandoned work stops.                 *)
(*                                                                         *)
(* All of it rests on where things are: what a window shows was sighted in *)
(* it, is under its root, and has its mark (Placed, Sighted); what is kept *)
(* of an instance that is not sighted is what the next view drops          *)
(* (Remembered); and of each boot there is one (Once).                     *)
(***************************************************************************)
EXTENDS DeliveryLanesProofs

\* A guest has one window, which is not closed, and no boots while it ticks.
Alone ==
  IsTree =>
    /\ \A v, w \in opened : v = w
    /\ open = opened /\ todo \subseteq open
    /\ \A w \in Windows : w \notin open \/ busy => ui[w].boots = <<>>

BusyIsDue == busy <=> todo # {}

\* Scopes are shown, sighted and booted in the window whose root they are
\* under; only what deferred builders show waits in the queue.
Located ==
  /\ \A w \in Windows : ui[w].shown \subseteq seen[w] /\ seen[w] \subseteq Under(w)
  /\ \A w \in Windows : \A s \in Elements(ui[w].boots) : Prompt(s) => Home[s] = w
  /\ \A s \in Elements(queue) : ~Prompt(s)

Placed == Alone /\ BusyIsDue /\ Located

\* Sighted instances have their mark; natively the last view's are active.
Sighted ==
  IsMounted =>
    /\ \A w \in Windows : seen[w] \subseteq booted
    /\ ~IsTree /\ pending # None => seen[pending] \subseteq active
-----------------------------------------------------------------------------
(***************************************************************************)
(* What the steps of the windows do.                                       *)
(***************************************************************************)

\* An order of a set of scopes has each of them once.
LEMMA OrderOnce ==
  ASSUME NEW S \in SUBSET Scopes, NEW q \in SetToSeqs(S)
  PROVE  /\ q \in Seq(Scopes) /\ Elements(q) = S
         /\ \A i, j \in DOMAIN q : q[i] = q[j] => i = j
<1>1. IsFiniteSet(S) /\ Cardinality(S) \in Nat
  BY LanesAssumption, FS_Subset, FS_CardinalityType
<1> DEFINE D == 1 .. Cardinality(S)
<1>2. q \in [D -> S] /\ \A i, j \in D : i # j => q[i] # q[j]
  BY DEF SetToSeqs
<1>3. IsFiniteSet(D) /\ Cardinality(D) = Cardinality(S)
  BY <1>1, FS_Interval
<1>4. q \in Injection(D, S)
  BY <1>2 DEF Injection, IsInjective
<1>5. q \in Surjection(D, S)
  BY <1>1, <1>3, <1>4, FS_Injection
<1>6. Elements(q) = S
  BY <1>2, <1>5 DEF Surjection, Elements
<1> QED BY <1>2, <1>6, OrderType

\* A mounted view: the new boots are those of the root that have no mark.
LEMMA MountedEffect ==
  ASSUME TypeOK, NEW w \in Windows, MountedView(w)
  PROVE  /\ IsTree => queue' = <<>>
         /\ \A s \in Elements(queue') : ~Prompt(s)
         /\ \A v \in Windows : v # w => ui'[v] = ui[v]
         /\ ui'[w].shown = AtRoot(w) \cup Late(w)
         /\ \E held \in Seq(Scopes), first \in Seq(Scopes) :
              /\ held = (IF IsTree THEN ui[w].boots ELSE <<>>) \o queue
              /\ ui'[w].boots = held \o first
              /\ Elements(held) = Elements(queue) \cup IF IsTree THEN Elements(ui[w].boots) ELSE {}
              /\ Elements(ui'[w].boots) = Elements(held) \cup Elements(first)
              /\ Elements(first) = AtRoot(w) \ Marks(Dropped(w))
              /\ \A i, j \in DOMAIN first : first[i] = first[j] => i = j
<1> DEFINE marks == Marks(Dropped(w))
           own == IF IsTree THEN ui[w].boots ELSE <<>>
<1>1. PICK first \in SetToSeqs(FirstSeen(AtRoot(w), marks)),
           after \in SetToSeqs(FirstSeen(Late(w), marks)) :
        /\ queue' = after
        /\ ui' = [ui EXCEPT ![w] = [shown |-> AtRoot(w) \cup Late(w),
                                    boots |-> own \o queue \o first]]
  BY DEF MountedView
<1>2. /\ FirstSeen(AtRoot(w), marks) \in SUBSET Scopes
      /\ FirstSeen(Late(w), marks) \in SUBSET Scopes
  BY DEF FirstSeen, AtRoot, Late, TypeOK
<1>3. /\ first \in Seq(Scopes) /\ Elements(first) = AtRoot(w) \ marks
      /\ \A i, j \in DOMAIN first : first[i] = first[j] => i = j
      /\ after \in Seq(Scopes) /\ Elements(after) = Late(w) \ marks
  BY <1>2, OrderOnce DEF FirstSeen
<1>4. own \in Seq(Scopes) /\ queue \in Seq(Scopes) /\ own \o queue \in Seq(Scopes)
  BY EmptySeq, ConcatProperties DEF TypeOK
<1>5. Elements(own) = IF IsTree THEN Elements(ui[w].boots) ELSE {}
  BY DEF Elements
<1> HIDE DEF own, marks
<1>6. Elements(own \o queue) = Elements(own) \cup Elements(queue)
  BY <1>4, ConcatSealed
<1>7. /\ \A v \in Windows : v # w => ui'[v] = ui[v]
      /\ ui'[w].shown = AtRoot(w) \cup Late(w)
      /\ ui'[w].boots = own \o queue \o first
  BY <1>1 DEF TypeOK
<1>8. \A s \in Late(w) : ~Prompt(s)
  BY DEF Late, Prompt
<1>9. IsTree => queue' = <<>>
  <2>1. IsTree => Late(w) = {}
    BY DEF Late
  <2>2. after # <<>> => Head(after) \in Elements(after)
    BY <1>3, TailSealed, EmptySeq DEF Elements
  <2> QED BY <1>1, <1>3, <2>1, <2>2
<1>10. \A s \in Elements(queue') : ~Prompt(s)
  BY <1>1, <1>3, <1>8
<1>11. PICK held \in Seq(Scopes) : held = own \o queue
  BY <1>4
<1>12. Elements(held \o first) = Elements(held) \cup Elements(first)
  <2>1. held \in Seq(Scopes) /\ first \in Seq(Scopes)
    BY <1>3
  <2> HIDE DEF own, marks
  <2> QED BY ONLY <2>1, ConcatSealed
<1>13. ui'[w].boots = held \o first
  BY <1>7, <1>11
<1>14. Elements(held) = Elements(queue) \cup IF IsTree THEN Elements(ui[w].boots) ELSE {}
  BY <1>5, <1>6, <1>11
<1>15. Elements(ui'[w].boots) = Elements(held) \cup Elements(first)
  BY <1>12, <1>13
<1>16. held = (IF IsTree THEN ui[w].boots ELSE <<>>) \o queue
  BY <1>11 DEF own
<1> QED BY <1>3, <1>7, <1>9, <1>10, <1>13, <1>14, <1>15, <1>16 DEF marks

\* Any view: what is shown is what is sighted from now on.
LEMMA RenderEffect ==
  ASSUME TypeOK, NEW w \in Windows, Render(w)
  PROVE  /\ \A v \in Windows : v # w => ui'[v] = ui[v] /\ seen'[v] = seen[v]
         /\ ui'[w].shown = AtRoot(w) \cup Late(w) /\ seen'[w] = ui'[w].shown
         /\ AtRoot(w) \cup Late(w) \subseteq Under(w)
         /\ busy /\ messages = <<>> /\ w \in todo /\ todo' = todo \ {w}
         /\ busy' = (todo' # {})
         /\ heard' = heard \cap (OnScreen \cup UNION {seen[v] : v \in Windows})
         /\ UNCHANGED <<app, windows, nextGen, messages, channel, runs>>
<1>1. /\ \A v \in Windows : v # w => ui'[v] = ui[v]
      /\ ui'[w].shown = AtRoot(w) \cup Late(w)
  BY MountedEffect DEF Render, RetainedView, TypeOK
<1>2. AtRoot(w) \cup Late(w) \subseteq Under(w)
  BY DEF AtRoot, Late, Under, TypeOK
<1>3. seen' = [seen EXCEPT ![w] = ui'[w].shown]
  BY DEF Render
<1>4. /\ \A v \in Windows : v # w => seen'[v] = seen[v]
      /\ seen'[w] = ui'[w].shown
  BY <1>3 DEF TypeOK
<1> QED BY <1>1, <1>2, <1>4 DEF Render

\* A layout: what is newly shown is sighted.
LEMMA RelayoutEffect ==
  ASSUME TypeOK, NEW w \in Windows, Relayout(w)
  PROVE  /\ ~busy /\ ~IsTree
         /\ \A v \in Windows : v # w => ui'[v] = ui[v] /\ seen'[v] = seen[v]
         /\ \A v \in Windows : ui'[v].boots = ui[v].boots
         /\ \E late \in SUBSET Under(w) :
              /\ \A s \in late : ~Prompt(s)
              /\ ui'[w].shown \subseteq ui[w].shown \cup late
              /\ \/ seen' = seen /\ ui'[w].shown \subseteq ui[w].shown
                    /\ UNCHANGED <<active, booted, queue>>
                 \/ seen'[w] = seen[w] \cup late /\ late \subseteq ui'[w].shown
                    /\ IF IsMounted
                       THEN /\ active' = active \cup late
                            /\ booted' = booted \cup late
                            /\ Elements(queue') \subseteq Elements(queue) \cup late
                       ELSE UNCHANGED <<active, booted, queue>>
         /\ UNCHANGED <<app, opened, open, store, pending, nextGen,
                        loop, work, runs, current, heard>>
<1> DEFINE late == {s \in wanted \cap Deferred : Home[s] = w}
<1>1. late \in SUBSET Under(w) /\ late \in SUBSET Scopes
  BY DEF Under, TypeOK
<1>2. ~IsTree /\ ~busy /\ \A s \in late : ~Prompt(s)
  BY DEF Relayout, Prompt
<1>3. UNCHANGED <<app, opened, open, store, pending, nextGen,
                  loop, work, runs, current, heard>>
  BY DEF Relayout
<1>4. CASE w \in roomy
  <2>1. /\ ui' = [ui EXCEPT ![w].shown = ui[w].shown \ late]
        /\ UNCHANGED <<active, booted, queue, seen>>
    BY <1>4 DEF Relayout
  <2>2. /\ \A v \in Windows : v # w => ui'[v] = ui[v]
        /\ ui'[w].shown = ui[w].shown \ late /\ ui'[w].boots = ui[w].boots
    BY <2>1 DEF TypeOK
  <2> QED BY <1>1, <1>2, <1>3, <2>1, <2>2
<1>5. CASE w \notin roomy
  <2>1. /\ ui' = [ui EXCEPT ![w].shown = ui[w].shown \cup late]
        /\ seen' = [seen EXCEPT ![w] = seen[w] \cup late]
    BY <1>5 DEF Relayout
  <2>2. /\ \A v \in Windows : v # w => ui'[v] = ui[v] /\ seen'[v] = seen[v]
        /\ ui'[w].shown = ui[w].shown \cup late /\ ui'[w].boots = ui[w].boots
        /\ seen'[w] = seen[w] \cup late
    BY <2>1 DEF TypeOK
  <2>3. IF IsMounted
        THEN /\ active' = active \cup late
             /\ booted' = booted \cup late
             /\ \E after \in SetToSeqs(FirstSeen(late, booted)) : queue' = queue \o after
        ELSE UNCHANGED <<active, booted, queue>>
    BY <1>5 DEF Relayout
  <2>4. ASSUME NEW after \in SetToSeqs(FirstSeen(late, booted)), queue' = queue \o after
        PROVE  Elements(queue') \subseteq Elements(queue) \cup late
    <3>1. FirstSeen(late, booted) \in SUBSET Scopes /\ FirstSeen(late, booted) \subseteq late
      BY <1>1 DEF FirstSeen
    <3>2. after \in Seq(Scopes) /\ Elements(after) \subseteq late
      BY <3>1, OrderOnce
    <3>3. Elements(queue \o after) = Elements(queue) \cup Elements(after)
      BY <3>2, ConcatSealed DEF TypeOK
    <3> QED BY <2>4, <3>2, <3>3
  <2>5. IF IsMounted
        THEN /\ active' = active \cup late
             /\ booted' = booted \cup late
             /\ Elements(queue') \subseteq Elements(queue) \cup late
        ELSE UNCHANGED <<active, booted, queue>>
    BY <2>3, <2>4
  <2> HIDE DEF late
  <2> QED BY <1>1, <1>2, <1>3, <2>2, <2>5
<1> QED BY <1>4, <1>5

-----------------------------------------------------------------------------
(***************************************************************************)
(* Where things are.                                                       *)
(***************************************************************************)

\* An empty sequence has no elements.
LEMMA NoElements == Elements(<<>>) = {}
BY DEF Elements

LEMMA PlacedInit == Init => Placed
BY NoElements DEF Init, Placed, Alone, BusyIsDue, Located

\* Steps that leave the windows, what they show and what was sighted alone.
LEMMA PlacedQuiet ==
  ASSUME Placed, UNCHANGED <<program, opened, open, todo, busy, ui, seen, queue>>
  PROVE  Placed'
BY DEF Placed, Alone, BusyIsDue, Located, IsTree, Prompt

\* Steps that only take boots from the windows.
LEMMA PlacedTaken ==
  ASSUME TypeOK, Placed, UNCHANGED <<program, opened, open, seen, queue>>,
         \A v \in Windows : ui'[v].shown = ui[v].shown
                            /\ ui'[v].boots \in {ui[v].boots, <<>>},
         todo' \subseteq open, busy' <=> todo' # {},
         IsTree /\ busy' /\ ~busy => \A v \in open : ui'[v].boots = <<>>
  PROVE  Placed'
<1>1. Located'
  BY NoElements DEF Placed, Located, Under, Prompt, IsTree
<1>2. Alone'
  BY DEF Placed, Alone, IsTree
<1> QED BY <1>1, <1>2 DEF Placed, BusyIsDue

LEMMA PlacedRender ==
  ASSUME TypeOK, Placed, NEW w \in Windows, Render(w)
  PROVE  Placed'
<1>1. UNCHANGED <<program, opened, open, roomy>>
  BY RenderEffect DEF app, windows
<1>2. BusyIsDue'
  BY RenderEffect DEF BusyIsDue
<1>3. Located'
  <2>1. \A v \in Windows : ui'[v].shown \subseteq seen'[v] /\ seen'[v] \subseteq Under(v)
    BY RenderEffect DEF Placed, Located
  <2>2. /\ \A v \in Windows : \A s \in Elements(ui'[v].boots) : Prompt(s) => Home[s] = v
        /\ \A s \in Elements(queue') : ~Prompt(s)
    <3>1. CASE MountedView(w)
      <4>1. \A s \in Elements(ui'[w].boots) : Prompt(s) => Home[s] = w
        <5>1. AtRoot(w) \subseteq Under(w)
          BY RenderEffect
        <5>2. Elements(ui'[w].boots) \subseteq
                Elements(queue) \cup Elements(ui[w].boots) \cup AtRoot(w)
          BY <3>1, MountedEffect
        <5> QED BY <5>1, <5>2 DEF Placed, Located, Under
      <4> QED BY <3>1, <4>1, MountedEffect DEF Placed, Located
    <3>2. CASE RetainedView(w)
      <4>1. \A v \in Windows : ui'[v].boots = ui[v].boots
        BY <3>2 DEF RetainedView, TypeOK
      <4> QED BY <3>2, <4>1 DEF RetainedView, Placed, Located
    <3> QED BY <3>1, <3>2 DEF Render
  <2> QED BY <1>1, <2>1, <2>2 DEF Located, Under, Prompt, IsTree
<1>4. Alone'
  <2> SUFFICES ASSUME IsTree PROVE Alone'
    BY <1>1 DEF Alone, IsTree
  <2>1. busy /\ w \in todo /\ todo \subseteq open /\ open = opened
    BY RenderEffect DEF Placed, Alone
  <2>2. todo' = {} /\ ~busy'
    BY <2>1, RenderEffect DEF Placed, Alone
  <2>3. \A v \in Windows : v \notin open => ui'[v] = ui[v]
    BY <2>1, RenderEffect
  <2> QED BY <1>1, <2>1, <2>2, <2>3 DEF Placed, Alone, IsTree
<1> QED BY <1>2, <1>3, <1>4 DEF Placed

LEMMA PlacedRelayout ==
  ASSUME TypeOK, Placed, NEW w \in Windows, Relayout(w)
  PROVE  Placed'
<1>1. UNCHANGED <<program, opened, open, busy, todo>> /\ ~IsTree
  BY RelayoutEffect DEF app, loop
<1>2. PICK late \in SUBSET Under(w) :
        /\ \A s \in late : ~Prompt(s)
        /\ ui'[w].shown \subseteq ui[w].shown \cup late
        /\ \/ seen' = seen /\ ui'[w].shown \subseteq ui[w].shown
              /\ UNCHANGED <<active, booted, queue>>
           \/ seen'[w] = seen[w] \cup late /\ late \subseteq ui'[w].shown
              /\ IF IsMounted
                 THEN /\ active' = active \cup late
                      /\ booted' = booted \cup late
                      /\ Elements(queue') \subseteq Elements(queue) \cup late
                 ELSE UNCHANGED <<active, booted, queue>>
  BY RelayoutEffect
<1>3. \A v \in Windows : v # w => ui'[v] = ui[v] /\ seen'[v] = seen[v]
  BY RelayoutEffect
<1>4. \A v \in Windows : ui'[v].boots = ui[v].boots
  BY RelayoutEffect
<1>5. \A v \in Windows : ui'[v].shown \subseteq seen'[v] /\ seen'[v] \subseteq Under(v)
  BY <1>2, <1>3 DEF Placed, Located
<1>6. \A s \in Elements(queue') : ~Prompt(s)
  BY <1>2 DEF Placed, Located
<1>7. Located'
  BY <1>1, <1>4, <1>5, <1>6 DEF Placed, Located, Under, Prompt, IsTree
<1> QED BY <1>1, <1>7 DEF Placed, Alone, BusyIsDue, IsTree

LEMMA PlacedStep == TypeOK /\ Placed /\ [Next]_vars => Placed'
<1> SUFFICES ASSUME TypeOK, Placed, [Next]_vars PROVE Placed'
  OBVIOUS
<1>1. ASSUME NEW w \in Windows, Render(w) PROVE Placed'
  BY <1>1, PlacedRender
<1>2. ASSUME NEW w \in Windows, Relayout(w) PROVE Placed'
  BY <1>2, PlacedRelayout
<1>3. ASSUME NEW w \in Windows, Open(w) PROVE Placed'
  <2>1. /\ ~busy /\ w \notin opened /\ (IsTree => opened = {})
        /\ opened' = opened \cup {w} /\ open' = open \cup {w}
        /\ busy' = TRUE /\ todo' = {w}
        /\ UNCHANGED <<program, ui, seen, queue>>
    BY <1>3 DEF Open, app, mounted
  <2>2. Located'
    BY <2>1 DEF Placed, Located, Under, Prompt, IsTree
  <2>3. Alone'
    BY <2>1 DEF Placed, Alone, IsTree
  <2> QED BY <2>1, <2>2, <2>3 DEF Placed, BusyIsDue
<1>4. ASSUME NEW w \in Windows, Close(w) PROVE Placed'
  <2>1. /\ ~IsTree /\ ui' = [ui EXCEPT ![w] = [shown |-> {}, boots |-> <<>>]]
        /\ UNCHANGED <<program, busy, todo, seen, queue>>
    BY <1>4 DEF Close, app, mounted, loop
  <2>2. /\ \A v \in Windows : v # w => ui'[v] = ui[v]
        /\ ui'[w].shown = {} /\ ui'[w].boots = <<>>
    BY <2>1 DEF TypeOK
  <2>3. Located'
    BY <2>1, <2>2, NoElements DEF Placed, Located, Under, Prompt, IsTree
  <2> QED BY <2>1, <2>3 DEF Placed, Alone, BusyIsDue, IsTree
<1>5. ASSUME NEW w \in Windows, Interact(w) PROVE Placed'
  <2>1. /\ ui' = IF IsTree THEN ui ELSE [ui EXCEPT ![w].boots = <<>>]
        /\ UNCHANGED <<program, opened, open, seen, queue, busy, todo>>
        /\ ~busy
    BY <1>5 DEF Interact, app, windows, mounted
  <2>2. \A v \in Windows : ui'[v].shown = ui[v].shown
                           /\ ui'[v].boots \in {ui[v].boots, <<>>}
    BY <2>1 DEF TypeOK
  <2>3. todo' = {}
    BY <2>1 DEF Placed, BusyIsDue
  <2> QED BY <2>1, <2>2, <2>3, PlacedTaken DEF Placed, BusyIsDue
<1>6. ASSUME NEW w \in Windows, StartTick(w) PROVE Placed'
  <2>1. /\ ui' = [ui EXCEPT ![w].boots = <<>>] /\ IsTree /\ w \in open
        /\ UNCHANGED <<program, opened, open, seen, queue>>
        /\ ~busy /\ busy' = TRUE /\ todo' = {w}
    BY <1>6 DEF StartTick, app, windows, mounted
  <2>2. /\ \A v \in Windows : ui'[v].shown = ui[v].shown
                              /\ ui'[v].boots \in {ui[v].boots, <<>>}
        /\ ui'[w].boots = <<>>
    BY <2>1 DEF TypeOK
  <2>3. \A v \in open : ui'[v].boots = <<>>
    BY <2>1, <2>2 DEF Placed, Alone, TypeOK
  <2> QED BY <2>1, <2>2, <2>3, PlacedTaken
<1>7. ASSUME NEW arrived \in 0 .. Len(channel), StartBatch(arrived) PROVE Placed'
  <2>1. /\ ui' = [w \in Windows |-> [ui[w] EXCEPT !.boots = <<>>]] /\ ~IsTree
        /\ UNCHANGED <<program, opened, open, seen, queue>>
        /\ open # {} /\ busy' = TRUE /\ todo' = open
    BY <1>7 DEF StartBatch, app, windows, mounted
  <2>2. \A v \in Windows : ui'[v].shown = ui[v].shown
                           /\ ui'[v].boots \in {ui[v].boots, <<>>}
    BY <2>1 DEF TypeOK
  <2> QED BY <2>1, <2>2, PlacedTaken
<1>8. CASE Update \/ Settle
  BY <1>8, PlacedQuiet DEF Update, Settle, Receive, windows
<1>9. ASSUME NEW t \in tasks, NEW last \in BOOLEAN, Yield(t, last) PROVE Placed'
  BY <1>9, PlacedQuiet DEF Yield, app, windows, mounted, loop
<1>10. CASE UNCHANGED vars
  BY <1>10, PlacedQuiet DEF vars, app, windows, mounted, loop
<1> QED BY <1>1, <1>2, <1>3, <1>4, <1>5, <1>6, <1>7, <1>8, <1>9, <1>10 DEF Next

-----------------------------------------------------------------------------
(***************************************************************************)
(* State is kept while an instance is on screen.                           *)
(***************************************************************************)

\* What a view drops is not sighted where it was shown last.
LEMMA DroppedUnseen ==
  ASSUME TypeOK, Placed, Sighted, IsMounted, NEW w \in Windows, Render(w), NEW s \in Dropped(w)
  PROVE  s \in Scopes /\ IF IsTree THEN Home[s] = w /\ s \notin seen'[w] ELSE s \notin seen[Home[s]]
<1>1. CASE IsTree
  <2>1. Late(w) = {}
    BY <1>1 DEF Late
  <2> QED BY <1>1, <2>1, RenderEffect DEF Dropped, Under
<1>2. CASE ~IsTree
  BY <1>2 DEF Dropped, Under, Sighted
<1> QED BY <1>1, <1>2

\* The marks after a view.
LEMMA MarksAfter ==
  ASSUME TypeOK, NEW w \in Windows, MountedView(w)
  PROVE  /\ booted' = (booted \ Dropped(w)) \cup AtRoot(w) \cup Late(w)
         /\ stored' = stored \ Dropped(w)
         /\ active' = AtRoot(w) \cup Late(w)
         /\ pending' = IF IsTree THEN pending ELSE w
BY DEF MountedView, Marks, Prune

LEMMA SightedInit == Init => Sighted
BY DEF Init, Sighted

LEMMA SightedStep == TypeOK /\ Placed /\ Sighted /\ [Next]_vars => Sighted'
<1> SUFFICES ASSUME TypeOK, Placed, Sighted, [Next]_vars PROVE Sighted'
  OBVIOUS
<1>1. ASSUME NEW w \in Windows, Render(w) PROVE Sighted'
  <2>1. UNCHANGED program
    BY <1>1, RenderEffect DEF app
  <2> SUFFICES ASSUME IsMounted PROVE Sighted'
    BY <2>1 DEF Sighted, IsMounted
  <2>2. MountedView(w)
    BY <1>1 DEF Render
  <2>3. seen'[w] = AtRoot(w) \cup Late(w) /\ \A v \in Windows : v # w => seen'[v] = seen[v]
    BY <1>1, RenderEffect
  <2>4. seen'[w] \subseteq booted'
    BY <2>2, <2>3, MarksAfter
  <2>5. ASSUME NEW v \in Windows, v # w PROVE seen'[v] \subseteq booted'
    <3>1. \A s \in seen[v] : Home[s] = v /\ s \in booted
      BY DEF Placed, Located, Under, Sighted
    <3>2. \A s \in seen[v] : s \notin Dropped(w)
      BY <1>1, <2>5, <3>1, DroppedUnseen
    <3> QED BY <2>2, <2>3, <2>5, <3>1, <3>2, MarksAfter
  <2> QED BY <2>1, <2>2, <2>3, <2>4, <2>5, MarksAfter DEF Sighted, IsTree
<1>2. ASSUME NEW w \in Windows, Relayout(w) PROVE Sighted'
  <2>1. UNCHANGED <<program, pending>> /\ pending \in Windows \cup {None}
    BY <1>2, RelayoutEffect DEF app, TypeOK
  <2>2. \A v \in Windows : v # w => seen'[v] = seen[v]
    BY <1>2, RelayoutEffect
  <2>3. PICK late \in SUBSET Under(w) :
          \/ seen' = seen /\ UNCHANGED <<active, booted, queue>>
          \/ seen'[w] = seen[w] \cup late
             /\ IF IsMounted
                THEN active' = active \cup late /\ booted' = booted \cup late
                ELSE UNCHANGED <<active, booted, queue>>
    BY <1>2, RelayoutEffect
  <2> QED BY <2>1, <2>2, <2>3, LanesAssumption DEF Sighted, IsMounted, IsTree
<1>3. CASE UNCHANGED <<program, seen, booted, pending, active>>
  BY <1>3 DEF Sighted, IsMounted, IsTree
<1>4. ASSUME NEW w \in Windows, Open(w) \/ Close(w) \/ Interact(w) \/ StartTick(w)
      PROVE  Sighted'
  BY <1>3, <1>4 DEF Open, Close, Interact, StartTick, app, mounted
<1>5. ASSUME NEW arrived \in 0 .. Len(channel), StartBatch(arrived) PROVE Sighted'
  BY <1>3, <1>5 DEF StartBatch, app, mounted
<1>6. CASE Update \/ Settle
  BY <1>3, <1>6 DEF Update, Settle, Receive
<1>7. ASSUME NEW t \in tasks, NEW last \in BOOLEAN, Yield(t, last) PROVE Sighted'
  BY <1>3, <1>7 DEF Yield, app, mounted
<1>8. CASE UNCHANGED vars
  BY <1>3, <1>8 DEF vars, app, mounted
<1> QED BY <1>1, <1>2, <1>4, <1>5, <1>6, <1>7, <1>8 DEF Next

LEMMA PlaceInvariance == Spec => [](TypeOK /\ Placed /\ Sighted)
<1>1. Init => TypeOK /\ Placed /\ Sighted
  BY TypeInit, PlacedInit, SightedInit
<1>2. TypeOK /\ Placed /\ Sighted /\ [Next]_vars => TypeOK' /\ Placed' /\ Sighted'
  BY TypeStep, PlacedStep, SightedStep
<1> QED BY <1>1, <1>2, PTL DEF Spec

\* Only a view takes entries or marks away.
LEMMA OnlyViewsDrop ==
  ASSUME TypeOK, [Next]_vars, \A w \in Windows : ~Render(w)
  PROVE  stored \subseteq stored' /\ booted \subseteq booted'
<1>1. ASSUME NEW w \in Windows, Relayout(w) PROVE stored \subseteq stored' /\ booted \subseteq booted'
  BY <1>1, RelayoutEffect DEF store
<1>2. ASSUME NEW w \in Windows, Open(w) \/ Close(w) \/ Interact(w) \/ StartTick(w)
      PROVE  stored \subseteq stored' /\ booted \subseteq booted'
  BY <1>2 DEF Open, Close, Interact, StartTick, store, mounted
<1>3. ASSUME NEW arrived \in 0 .. Len(channel), StartBatch(arrived)
      PROVE  stored \subseteq stored' /\ booted \subseteq booted'
  BY <1>3 DEF StartBatch, store, mounted
<1>4. ASSUME NEW m, Receive(m) PROVE stored \subseteq stored' /\ booted \subseteq booted'
  BY <1>4 DEF Receive, Deliver, Handle, store
<1>5. CASE Update \/ Settle
  BY <1>4, <1>5 DEF Update, Settle
<1>6. ASSUME NEW t \in tasks, NEW last \in BOOLEAN, Yield(t, last)
      PROVE  stored \subseteq stored' /\ booted \subseteq booted'
  BY <1>6 DEF Yield, store, mounted
<1>7. CASE UNCHANGED vars
  BY <1>7 DEF vars, store, mounted
<1> QED BY <1>1, <1>2, <1>3, <1>5, <1>6, <1>7 DEF Next

\* No view, of whichever window, drops the entry or the boot mark of an
\* instance that is on screen before and after: not of one a deferred builder
\* shows, and not of one in another window.
THEOREM StateStays == Spec => StateKept
<1> DEFINE Kept == \A s \in OnScreen \cap OnScreen' :
                     /\ s \in stored => s \in stored'
                     /\ s \in booted => s \in booted'
<1>1. TypeOK /\ Placed /\ Placed' /\ Sighted /\ [Next]_vars => Kept
  <2> SUFFICES ASSUME TypeOK, Placed, Placed', Sighted, [Next]_vars PROVE Kept
    OBVIOUS
  <2>1. ASSUME NEW w \in Windows, Render(w) PROVE Kept
    <3>1. CASE IsMounted
      <4>1. MountedView(w)
        BY <2>1, <3>1 DEF Render
      <4>2. ASSUME NEW s \in OnScreen, s \in OnScreen' PROVE s \notin Dropped(w)
        <5>1. PICK v \in Windows : s \in ui[v].shown
          BY DEF OnScreen, TypeOK
        <5>2. s \in seen[Home[s]]
          BY <5>1 DEF Placed, Located, Under
        <5>3. PICK x \in Windows : s \in ui'[x].shown
          BY <2>1, <4>2, RenderEffect DEF OnScreen, TypeOK, windows
        <5>4. s \in seen'[Home[s]]
          BY <5>3 DEF Placed, Located, Under
        <5> QED BY <2>1, <3>1, <5>2, <5>4, DroppedUnseen
      <4> QED BY <4>1, <4>2, MarksAfter
    <3>2. CASE ~IsMounted
      BY <2>1, <3>2 DEF Render, RetainedView, store
    <3> QED BY <3>1, <3>2
  <2> QED BY <2>1, OnlyViewsDrop
<1>2. QED
  BY <1>1, PlaceInvariance, PTL DEF Spec, StateKept

-----------------------------------------------------------------------------
(***************************************************************************)
(* State is fresh when an instance returns.                                *)
(***************************************************************************)

\* What the next native view is about to drop.
Left(s) == ~IsTree /\ pending = Home[s] /\ s \notin active

\* Whatever is kept of an instance, or waits for it, belongs to one that is
\* sighted, or to one that the next view drops.
Remembered ==
  IsMounted =>
    /\ \A s \in Scopes : Prompt(s) /\ s \in stored \cup booted =>
         s \in seen[Home[s]] \/ Left(s)
    /\ \A m \in Elements(messages) : m.kind \in {"event", "boot"} /\ Prompt(m.scope) =>
         m.scope \in seen[Home[m.scope]]
    /\ \A w \in Windows : \A s \in Elements(ui[w].boots) : Prompt(s) => s \in seen[w]

LEMMA BootElements ==
  ASSUME NEW q \in Seq(Scopes)
  PROVE  /\ BootMessages(q) \in Seq(Message) /\ Len(BootMessages(q)) = Len(q)
         /\ \A i \in DOMAIN q : BootMessages(q)[i] = [kind |-> "boot", scope |-> q[i]]
         /\ Elements(BootMessages(q)) = {[kind |-> "boot", scope |-> s] : s \in Elements(q)}
<1>1. BootMessages(q) \in Seq(Message)
  BY BootMessagesType
<1>2. DOMAIN BootMessages(q) = DOMAIN q
      /\ \A i \in DOMAIN q : BootMessages(q)[i] = [kind |-> "boot", scope |-> q[i]]
  BY DEF BootMessages
<1>3. Len(BootMessages(q)) = Len(q)
  BY <1>1, <1>2, LenProperties
<1>4. Elements(BootMessages(q)) = {[kind |-> "boot", scope |-> s] : s \in Elements(q)}
  BY <1>2 DEF Elements
<1> QED BY <1>1, <1>2, <1>3, <1>4

OnlyLane(q) == \A i \in DOMAIN q : q[i].kind = "lane"

LEMMA HeadRest ==
  ASSUME NEW S, NEW q \in Seq(S), q # <<>>
  PROVE  /\ Tail(q) \in Seq(S) /\ Len(Tail(q)) = Len(q) - 1
         /\ \A i \in DOMAIN Tail(q) : i + 1 \in DOMAIN q /\ Tail(q)[i] = q[i + 1]
         /\ Head(q) = q[1] /\ 1 \in DOMAIN q
         /\ Elements(q) = {Head(q)} \cup Elements(Tail(q))
<1>1. Len(q) \in Nat /\ Len(q) # 0 /\ DOMAIN q = 1 .. Len(q)
  BY EmptySeq, LenProperties
<1>2. /\ Tail(q) \in Seq(S) /\ Len(Tail(q)) = Len(q) - 1 /\ Head(q) = q[1]
      /\ \A i \in 1 .. Len(Tail(q)) : Tail(q)[i] = q[i + 1]
  BY HeadTailProperties
<1>3. DOMAIN Tail(q) = 1 .. Len(q) - 1
  BY <1>1, <1>2, LenProperties
<1>4. \A i \in 1 .. Len(q) - 1 : i + 1 \in 1 .. Len(q) /\ Tail(q)[i] = q[i + 1]
  BY <1>1, <1>2
<1>5. Elements(q) = {q[1]} \cup Elements(Tail(q))
  <2>1. ASSUME NEW j \in 1 .. Len(q), j # 1 PROVE q[j] \in Elements(Tail(q))
    <3>1. j - 1 \in 1 .. Len(q) - 1 /\ (j - 1) + 1 = j
      BY <1>1, <2>1
    <3> QED BY <1>3, <1>4, <3>1 DEF Elements
  <2>2. \A x \in Elements(q) : x \in {q[1]} \cup Elements(Tail(q))
    BY <1>1, <2>1 DEF Elements
  <2>3. \A x \in Elements(Tail(q)) : x \in Elements(q)
    BY <1>1, <1>3, <1>4 DEF Elements
  <2>4. q[1] \in Elements(q)
    BY <1>1 DEF Elements
  <2> QED BY <2>2, <2>3, <2>4
<1> QED BY <1>1, <1>2, <1>3, <1>4, <1>5

LEMMA ConcatThree ==
  ASSUME NEW S, NEW q \in Seq(S), NEW r \in Seq(S), NEW t \in Seq(S)
  PROVE  Elements(q \o r \o t) = Elements(q) \cup Elements(r) \cup Elements(t)
<1>1. PICK qr \in Seq(S) : qr = q \o r
  BY ConcatProperties
<1>2. Elements(qr) = Elements(q) \cup Elements(r)
  BY <1>1, ConcatSealed
<1>3. Elements(qr \o t) = Elements(qr) \cup Elements(t)
  BY ConcatSealed
<1> QED BY <1>1, <1>2, <1>3

\* What a window event adds to the batch.
LEMMA InteractMessages ==
  ASSUME TypeOK, NEW w \in Windows, Interact(w)
  PROVE  \E boots, more \in Seq(Message) :
           /\ messages' = messages \o boots \o more
           /\ boots = IF IsTree THEN <<>> ELSE BootMessages(ui[w].boots)
           /\ Len(more) <= 1
           /\ \A n \in Elements(more) :
                n.kind = "app" \/ (n.kind = "event" /\ n.scope \in ui[w].shown)
           /\ Elements(messages') = Elements(messages) \cup Elements(boots) \cup Elements(more)
<1>1. PICK more \in {<<>>, <<[kind |-> "app"]>>}
                      \cup {<<[kind |-> "event", scope |-> s]>> : s \in ui[w].shown} :
        messages' = messages \o (IF IsTree THEN <<>> ELSE BootMessages(ui[w].boots))
                             \o more
  BY DEF Interact
<1>2. ui[w].shown \subseteq Scopes /\ ui[w].boots \in Seq(Scopes) /\ messages \in Seq(Message)
  BY DEF TypeOK
<1>3. PICK boots \in Seq(Message) :
        boots = IF IsTree THEN <<>> ELSE BootMessages(ui[w].boots)
  BY <1>2, BootElements, EmptySeq
<1>4. /\ more \in Seq(Message) /\ Len(more) <= 1
      /\ \A n \in Elements(more) :
           n.kind = "app" \/ (n.kind = "event" /\ n.scope \in ui[w].shown)
  <2>1. CASE more = <<>>
    BY <2>1, EmptySeq DEF Elements
  <2>2. CASE more = <<[kind |-> "app"]>>
    <3>1. [kind |-> "app"] \in Message
      BY DEF Message
    <3>2. Len(more) = 1 /\ DOMAIN more = {1} /\ more[1] = [kind |-> "app"]
      BY <2>2
    <3>3. more \in Seq(Message)
      BY <2>2, <3>1
    <3>4. \A n \in Elements(more) : n.kind = "app"
      BY <3>2 DEF Elements
    <3>5. Len(more) <= 1
      BY <3>2
    <3> QED BY ONLY <3>3, <3>4, <3>5
  <2>3. ASSUME NEW s \in ui[w].shown, more = <<[kind |-> "event", scope |-> s]>>
        PROVE  <1>4
    <3>1. [kind |-> "event", scope |-> s] \in Message
      BY <1>2, <2>3 DEF Message
    <3>2. Len(more) = 1 /\ DOMAIN more = {1} /\ more[1] = [kind |-> "event", scope |-> s]
      BY <2>3
    <3> QED BY <2>3, <3>1, <3>2 DEF Elements
  <2> QED BY <2>1, <2>2, <2>3
<1>5. messages \in Seq(Message) /\ boots \in Seq(Message) /\ more \in Seq(Message)
  BY <1>2, <1>4, ConcatProperties
<1>6. Elements(messages \o boots \o more)
        = Elements(messages) \cup Elements(boots) \cup Elements(more)
  BY <1>5, ConcatThree
<1> QED BY <1>1, <1>3, <1>4, <1>5, <1>6

\* What the start of a batch or of a tick puts into it.
LEMMA StartMessages ==
  ASSUME TypeOK
  PROVE  /\ \A arrived \in 0 .. Len(channel) : StartBatch(arrived) =>
              \E more \in Seq(Message) :
                /\ messages' = messages \o more /\ OnlyLane(more)
                /\ Elements(messages') = Elements(messages) \cup Elements(more)
         /\ \A w \in Windows : StartTick(w) =>
              \E boots \in Seq(Message) :
                /\ boots = BootMessages(ui[w].boots)
                /\ messages' = boots \o messages
                /\ Elements(messages') = Elements(messages) \cup Elements(boots)
<1>1. ASSUME NEW arrived \in 0 .. Len(channel), StartBatch(arrived)
      PROVE  \E more \in Seq(Message) :
               /\ messages' = messages \o more /\ OnlyLane(more)
               /\ Elements(messages') = Elements(messages) \cup Elements(more)
  <2>1. channel \in Seq(Output) /\ messages \in Seq(Message) /\ Len(channel) \in Nat
    BY DEF TypeOK
  <2>2. PICK more \in Seq(Output) : more = SubSeq(channel, 1, arrived)
    <3>1. \A i \in 1 .. arrived : channel[i] \in Output
      BY <2>1
    <3>2. SubSeq(channel, 1, arrived) \in Seq(Output)
      BY <2>1, <3>1, SubSeqProperties
    <3> QED BY <3>2
  <2>3. more \in Seq(Message) /\ OnlyLane(more)
    <3>1. DOMAIN more = 1 .. Len(more) /\ Len(more) \in Nat
      BY LenProperties
    <3>2. \A i \in 1 .. Len(more) : more[i] \in Output
      BY ElementOfSeq
    <3>3. \A i \in 1 .. Len(more) : more[i] \in Message /\ more[i].kind = "lane"
      BY <3>2 DEF Message, Output
    <3>4. OnlyLane(more)
      BY <3>1, <3>3 DEF OnlyLane
    <3> QED BY <3>4, SeqMonotonic DEF Message
  <2>4. messages' = messages \o more
    BY <1>1, <2>2 DEF StartBatch
  <2>5. Elements(messages \o more) = Elements(messages) \cup Elements(more)
    BY <2>1, <2>3, ConcatSealed
  <2> QED BY <2>3, <2>4, <2>5
<1>2. ASSUME NEW w \in Windows, StartTick(w)
      PROVE  \E boots \in Seq(Message) :
               /\ boots = BootMessages(ui[w].boots)
               /\ messages' = boots \o messages
               /\ Elements(messages') = Elements(messages) \cup Elements(boots)
  <2>1. ui[w].boots \in Seq(Scopes) /\ messages \in Seq(Message)
    BY DEF TypeOK
  <2>2. PICK boots \in Seq(Message) : boots = BootMessages(ui[w].boots)
    BY <2>1, BootElements
  <2>3. messages' = boots \o messages
    BY <1>2, <2>2 DEF StartTick
  <2>4. Elements(boots \o messages) = Elements(boots) \cup Elements(messages)
    BY <2>1, ConcatSealed
  <2> QED BY <2>2, <2>3, <2>4
<1> QED BY <1>1, <1>2

\* Only the message of an instance creates its entry.
LEMMA ReceiveStores ==
  ASSUME TypeOK, NEW m \in Message, Receive(m)
  PROVE  /\ \A s \in stored' : s \in stored \/ (m.kind \in {"event", "boot"} /\ s = m.scope)
         /\ m.kind = "boot" => heard' = heard \cup {m.scope} /\ m.scope \in Scopes
         /\ m.kind # "boot" => heard' = heard
         /\ UNCHANGED <<program, windows, active, pending, booted, queue, ui, busy, todo, seen>>
<1>1. UNCHANGED <<program, windows, active, pending, booted, queue, ui, busy, todo, seen>>
  BY DEF Receive
<1>2. CASE m.kind = "app"
  BY <1>1, <1>2 DEF Receive, store
<1>3. CASE m.kind = "lane"
  <2>1. Deliver(m) /\ UNCHANGED heard
    BY <1>3 DEF Receive
  <2>2. stored' \subseteq stored
    BY <2>1 DEF Deliver, Handle, Passes, store
  <2> QED BY <1>1, <1>3, <2>1, <2>2
<1>4. CASE m.kind \in {"event", "boot"}
  <2>1. /\ Handle(m.scope, handle[m.scope], FALSE)
        /\ heard' = IF m.kind = "boot" THEN heard \cup {m.scope} ELSE heard
    BY <1>4 DEF Receive
  <2>2. stored' = stored \cup {m.scope}
    BY <2>1 DEF Handle
  <2>3. m.scope \in Scopes
    BY <1>4 DEF Message, Output
  <2> QED BY <1>1, <1>4, <2>1, <2>2, <2>3
<1> QED BY <1>2, <1>3, <1>4 DEF Message, Output

\* The message a step consumes, and what stays of the batch.
LEMMA ConsumeMessages ==
  ASSUME TypeOK, Update \/ Settle
  PROVE  \E m \in Message :
           /\ Receive(m)
           /\ \/ m.kind = "lane" /\ messages' = messages
              \/ messages # <<>> /\ m = Head(messages) /\ messages' = Tail(messages)
                 /\ Elements(messages) = {m} \cup Elements(messages')
<1>1. CASE Update
  <2>1. messages \in Seq(Message) /\ messages # <<>>
    BY <1>1 DEF TypeOK, Update
  <2>2. Head(messages) \in Message
    BY <2>1
  <2>3. Elements(messages) = {Head(messages)} \cup Elements(Tail(messages))
    BY <2>1, HeadRest
  <2> QED BY <1>1, <2>1, <2>2, <2>3 DEF Update
<1>2. CASE Settle
  <2>1. channel \in Seq(Output) /\ channel # <<>>
    BY <1>2 DEF TypeOK, Settle
  <2>2. Head(channel) \in Output
    BY <2>1
  <2> QED BY <1>2, <2>2 DEF Settle, Message, Output
<1> QED BY <1>1, <1>2

LEMMA RememberedInit == Init => Remembered
BY NoElements DEF Init, Remembered

\* Steps that neither show nor store anything.
LEMMA RememberedQuiet ==
  ASSUME Remembered, UNCHANGED <<program, seen, pending, active>>,
         \A s \in Scopes : s \in stored' \cup booted' => s \in stored \cup booted,
         \A m \in Elements(messages') : m.kind \in {"event", "boot"} =>
           m \in Elements(messages) \/ (Prompt(m.scope) => m.scope \in seen[Home[m.scope]]),
         \A w \in Windows : Elements(ui'[w].boots) \subseteq Elements(ui[w].boots)
  PROVE  Remembered'
BY DEF Remembered, Left, Prompt, IsTree, IsMounted

\* The boots a window's root holds, as messages.
LEMMA HeldBoots ==
  ASSUME TypeOK, Placed, Remembered, IsMounted, NEW w \in Windows, NEW q \in Seq(Message),
         q = BootMessages(ui[w].boots)
  PROVE  \A m \in Elements(q) : m.kind = "boot" /\ m.scope \in Elements(ui[w].boots)
                                /\ (Prompt(m.scope) => m.scope \in seen[Home[m.scope]])
<1>1. ui[w].boots \in Seq(Scopes)
  BY DEF TypeOK
<1>2. Elements(q) = {[kind |-> "boot", scope |-> s] : s \in Elements(ui[w].boots)}
  BY <1>1, BootElements
<1>3. \A s \in Elements(ui[w].boots) : Prompt(s) => Home[s] = w /\ s \in seen[w]
  BY DEF Placed, Located, Remembered
<1> QED BY <1>2, <1>3

LEMMA RememberedRender ==
  ASSUME TypeOK, Placed, Sighted, Remembered, IsMounted, NEW w \in Windows, Render(w)
  PROVE  Remembered'
<1>1. MountedView(w) /\ UNCHANGED program /\ busy /\ w \in todo
  BY RenderEffect DEF Render, app
<1>2. /\ seen'[w] = AtRoot(w) \cup Late(w) /\ AtRoot(w) \cup Late(w) \subseteq Under(w)
      /\ \A v \in Windows : v # w => seen'[v] = seen[v] /\ ui'[v] = ui[v]
      /\ messages' = <<>>
  BY RenderEffect
<1>3. /\ booted' = (booted \ Dropped(w)) \cup AtRoot(w) \cup Late(w)
      /\ stored' = stored \ Dropped(w)
      /\ active' = AtRoot(w) \cup Late(w)
      /\ pending' = IF IsTree THEN pending ELSE w
  BY <1>1, MarksAfter
<1>4. ASSUME NEW s \in Scopes, Prompt(s), s \in stored' \cup booted'
      PROVE  s \in seen'[Home[s]] \/ Left(s)'
  <2>1. Home[s] \in Windows
    BY LanesAssumption
  <2>2. CASE s \in AtRoot(w) \cup Late(w)
    BY <1>2, <2>2 DEF Under
  <2>3. CASE s \notin AtRoot(w) \cup Late(w)
    <3>1. s \notin Dropped(w) /\ (s \in seen[Home[s]] \/ Left(s))
      BY <1>3, <1>4, <2>3 DEF Remembered
    <3>2. CASE IsTree
      <4>1. Home[s] # w
        BY <2>3, <3>1, <3>2 DEF Dropped, Under
      <4> QED BY <1>2, <2>1, <3>1, <3>2, <4>1 DEF Left
    <3>3. CASE ~IsTree
      <4>1. CASE Home[s] = w
        BY <1>1, <1>3, <2>3, <3>3, <4>1 DEF Left, IsTree
      <4>2. CASE Home[s] # w
        <5>1. ~Left(s)
          BY <2>1, <3>1, <3>3, LanesAssumption DEF Left, Dropped, Under
        <5> QED BY <1>2, <2>1, <3>1, <4>2, <5>1
      <4> QED BY <4>1, <4>2
    <3> QED BY <3>2, <3>3
  <2> QED BY <2>2, <2>3
<1>5. ASSUME NEW v \in Windows, NEW s \in Elements(ui'[v].boots), Prompt(s)
      PROVE  s \in seen'[v]
  <2>1. CASE v # w
    BY <1>2, <1>5, <2>1 DEF Remembered
  <2>2. CASE v = w
    <3>1. s \in Elements(queue) \/ (IsTree /\ s \in Elements(ui[w].boots)) \/ s \in AtRoot(w)
      BY <1>1, <1>5, <2>2, MountedEffect
    <3>2. s \notin Elements(queue)
      BY <1>5 DEF Placed, Located
    <3>3. ~(IsTree /\ s \in Elements(ui[w].boots))
      BY <1>1, NoElements DEF Placed, Alone
    <3> QED BY <1>2, <2>2, <3>1, <3>2, <3>3
  <2> QED BY <2>1, <2>2
<1>6. Elements(messages') = {}
  BY <1>2, NoElements
<1>7. \A s : Prompt(s)' <=> Prompt(s)
  BY <1>1 DEF Prompt, IsTree
<1> QED BY <1>1, <1>4, <1>5, <1>6, <1>7 DEF Remembered

LEMMA RememberedStep ==
  TypeOK /\ Placed /\ Sighted /\ Remembered /\ [Next]_vars => Remembered'
<1> SUFFICES ASSUME TypeOK, Placed, Sighted, Remembered, [Next]_vars PROVE Remembered'
  OBVIOUS
<1>1. program' = program
  BY DEF Next, Render, Relayout, Open, Close, Interact, StartTick, StartBatch, Settle,
         Update, Receive, Yield, vars, app
<1> SUFFICES ASSUME IsMounted PROVE Remembered'
  BY <1>1 DEF Remembered, IsMounted
<1>2. ASSUME NEW w \in Windows, Render(w) PROVE Remembered'
  BY <1>2, RememberedRender
<1>3. ASSUME NEW w \in Windows, Relayout(w) PROVE Remembered'
  <2>1. /\ ~IsTree /\ UNCHANGED <<program, pending, stored, messages>>
        /\ \A v \in Windows : v # w => seen'[v] = seen[v]
        /\ \A v \in Windows : ui'[v].boots = ui[v].boots
    BY <1>3, RelayoutEffect DEF app, store, loop
  <2>2. PICK late \in SUBSET Under(w) :
          /\ \A s \in late : ~Prompt(s)
          /\ \/ seen' = seen /\ UNCHANGED <<active, booted>>
             \/ seen'[w] = seen[w] \cup late /\ active' = active \cup late
                /\ booted' = booted \cup late
    BY <1>3, RelayoutEffect
  <2>3. /\ \A v \in Windows : seen[v] \subseteq seen'[v]
        /\ \A s : Prompt(s) => (s \in active' <=> s \in active) /\ (s \in booted' <=> s \in booted)
    BY <2>1, <2>2
  <2>4. \A s : Prompt(s)' <=> Prompt(s)
    BY <2>1 DEF Prompt, IsTree
  <2>5. \A s \in Scopes : Prompt(s) /\ s \in stored' \cup booted' => s \in seen'[Home[s]] \/ Left(s)'
    BY <2>1, <2>3, LanesAssumption DEF Remembered, Left, IsTree
  <2>6. \A m \in Elements(messages') : m.kind \in {"event", "boot"} /\ Prompt(m.scope) =>
          m.scope \in seen'[Home[m.scope]]
    <3>1. ASSUME NEW m \in Elements(messages), m.kind \in {"event", "boot"}
          PROVE  m.scope \in Scopes
      <4>1. m \in Message
        BY LenProperties, ElementOfSeq DEF TypeOK, Elements
      <4> QED BY <3>1, <4>1 DEF Message, Output
    <3> QED BY <2>1, <2>3, <3>1, LanesAssumption DEF Remembered
  <2>7. \A v \in Windows : \A s \in Elements(ui'[v].boots) : Prompt(s) => s \in seen'[v]
    BY <2>1, <2>3 DEF Remembered
  <2> QED BY <2>4, <2>5, <2>6, <2>7 DEF Remembered
<1>4. ASSUME NEW w \in Windows, Open(w) \/ Close(w) PROVE Remembered'
  <2>1. UNCHANGED <<program, seen, pending, active, stored, booted>> /\ messages' = messages
    BY <1>4 DEF Open, Close, app, store, mounted, loop
  <2>2. \A v \in Windows : Elements(ui'[v].boots) \subseteq Elements(ui[v].boots)
    <3>1. CASE Open(w)
      BY <3>1 DEF Open
    <3>2. CASE Close(w)
      <4>1. /\ \A v \in Windows : v # w => ui'[v] = ui[v]
            /\ ui'[w].boots = <<>>
        BY <3>2 DEF Close, TypeOK
      <4> QED BY <4>1, NoElements
    <3> QED BY <1>4, <3>1, <3>2
  <2> QED BY <2>1, <2>2, RememberedQuiet
<1>5. ASSUME NEW w \in Windows, Interact(w) PROVE Remembered'
  <2>1. UNCHANGED <<program, seen, pending, active, stored, booted>>
    BY <1>5 DEF Interact, app, store, mounted
  <2>2. \A v \in Windows : Elements(ui'[v].boots) \subseteq Elements(ui[v].boots)
    BY <1>5, NoElements DEF Interact, TypeOK
  <2>3. PICK boots \in Seq(Message), more \in Seq(Message) :
          /\ boots = IF IsTree THEN <<>> ELSE BootMessages(ui[w].boots)
          /\ \A n \in Elements(more) :
               n.kind = "app" \/ (n.kind = "event" /\ n.scope \in ui[w].shown)
          /\ Elements(messages') = Elements(messages) \cup Elements(boots) \cup Elements(more)
    BY <1>5, InteractMessages
  <2>4. \A m \in Elements(boots) : Prompt(m.scope) => m.scope \in seen[Home[m.scope]]
    BY <2>3, HeldBoots, NoElements
  <2>5. \A m \in Elements(more) : m.kind \in {"event", "boot"} => m.scope \in seen[Home[m.scope]]
    BY <2>3 DEF Placed, Located, Under
  <2> QED BY <2>1, <2>2, <2>3, <2>4, <2>5, RememberedQuiet
<1>6. ASSUME NEW w \in Windows, StartTick(w) PROVE Remembered'
  <2>1. UNCHANGED <<program, seen, pending, active, stored, booted>>
    BY <1>6 DEF StartTick, app, store, mounted
  <2>2. \A v \in Windows : Elements(ui'[v].boots) \subseteq Elements(ui[v].boots)
    BY <1>6, NoElements DEF StartTick, TypeOK
  <2>3. PICK boots \in Seq(Message) :
          /\ boots = BootMessages(ui[w].boots)
          /\ Elements(messages') = Elements(messages) \cup Elements(boots)
    BY <1>6, StartMessages
  <2>4. \A m \in Elements(boots) : Prompt(m.scope) => m.scope \in seen[Home[m.scope]]
    BY <2>3, HeldBoots
  <2> QED BY <2>1, <2>2, <2>3, <2>4, RememberedQuiet
<1>7. ASSUME NEW arrived \in 0 .. Len(channel), StartBatch(arrived) PROVE Remembered'
  <2>1. UNCHANGED <<program, seen, pending, active, stored, booted>>
    BY <1>7 DEF StartBatch, app, store, mounted
  <2>2. \A v \in Windows : Elements(ui'[v].boots) \subseteq Elements(ui[v].boots)
    BY <1>7, NoElements DEF StartBatch, TypeOK
  <2>3. PICK more \in Seq(Message) :
          (\A n \in Elements(more) : n.kind = "lane")
          /\ Elements(messages') = Elements(messages) \cup Elements(more)
    BY <1>7, StartMessages DEF OnlyLane, Elements
  <2> QED BY <2>1, <2>2, <2>3, RememberedQuiet
<1>8. CASE Update \/ Settle
  <2>1. PICK m \in Message :
           /\ Receive(m)
           /\ \/ m.kind = "lane" /\ messages' = messages
              \/ Elements(messages) = {m} \cup Elements(messages')
    BY <1>8, ConsumeMessages
  <2>2. UNCHANGED <<program, pending, active, booted, seen, ui>>
    BY <2>1, ReceiveStores
  <2>3. \A s \in stored' : s \in stored
          \/ (Prompt(s) => s \in seen[Home[s]])
    BY <2>1, ReceiveStores DEF Remembered
  <2>4. \A n \in Elements(messages') : n \in Elements(messages)
    BY <2>1
  <2>5. \A s : Prompt(s)' <=> Prompt(s)
    BY <2>2 DEF Prompt, IsTree
  <2> QED BY <2>2, <2>3, <2>4, <2>5 DEF Remembered, Left, IsTree
<1>9. ASSUME NEW t \in tasks, NEW last \in BOOLEAN, Yield(t, last) PROVE Remembered'
  BY <1>9, RememberedQuiet DEF Yield, app, store, mounted, loop
<1>10. CASE UNCHANGED vars
  BY <1>10, RememberedQuiet DEF vars, app, store, mounted, loop
<1> QED BY <1>2, <1>3, <1>4, <1>5, <1>6, <1>7, <1>8, <1>9, <1>10 DEF Next

LEMMA RememberInvariance == Spec => [](TypeOK /\ Placed /\ Sighted /\ Remembered)
<1>1. TypeOK /\ Placed /\ Sighted /\ Remembered /\ [Next]_vars => Remembered'
  BY RememberedStep
<1>2. Init => Remembered
  BY RememberedInit
<1> QED BY <1>1, <1>2, PlaceInvariance, PTL DEF Spec

\* Only a view makes a window no longer due, and it shows what is wanted.
LEMMA OnlyViewsDone ==
  ASSUME TypeOK, Placed, [Next]_vars, NEW w \in todo \ todo'
  PROVE  w \in Windows /\ Render(w)
<1>1. w \in Windows /\ busy /\ w \in todo
  BY DEF TypeOK, Placed, BusyIsDue
<1>2. ASSUME NEW v \in Windows, Render(v) PROVE Render(w)
  BY <1>2, RenderEffect
<1>3. ASSUME NEW v \in Windows, Relayout(v) \/ Open(v) \/ Close(v) \/ Interact(v) \/ StartTick(v)
      PROVE  FALSE
  BY <1>1, <1>3 DEF Relayout, Open, Close, Interact, StartTick
<1>4. ASSUME NEW arrived \in 0 .. Len(channel), StartBatch(arrived) PROVE FALSE
  BY <1>1, <1>4 DEF StartBatch
<1>5. ~Update /\ ~Settle
  BY DEF Update, Settle, Receive
<1>6. ASSUME NEW t \in tasks, NEW last \in BOOLEAN, Yield(t, last) PROVE FALSE
  BY <1>6 DEF Yield, loop
<1>7. ~UNCHANGED vars
  BY DEF vars, loop
<1> QED BY <1>1, <1>2, <1>3, <1>4, <1>5, <1>6, <1>7 DEF Next

\* An instance that a whole view of its window left out comes back without its
\* entry, its lane included, and its boot is queued again: no other window's
\* view in between, and no message that was on its way, keeps the old one.
THEOREM FreshReturns == Spec => FreshOnReturn
<1> DEFINE Fresh == \A w \in todo \ todo' : \A s \in ui'[w].shown \ seen[w] :
                      IsMounted /\ Prompt(s) => /\ s \notin stored'
                                                /\ s \in Elements(ui'[w].boots)
<1>1. TypeOK /\ Placed /\ Sighted /\ Remembered /\ [Next]_vars => Fresh
  <2> SUFFICES ASSUME TypeOK, Placed, Sighted, Remembered, [Next]_vars,
                      NEW w \in todo \ todo', NEW s \in ui'[w].shown \ seen[w],
                      IsMounted, Prompt(s)
               PROVE  s \notin stored' /\ s \in Elements(ui'[w].boots)
    OBVIOUS
  <2>1. w \in Windows /\ Render(w) /\ MountedView(w)
    BY OnlyViewsDone DEF Render
  <2>2. s \in AtRoot(w) /\ Home[s] = w /\ s \in Scopes
    <3>1. s \in AtRoot(w) \cup Late(w) /\ s \in Under(w)
      BY <2>1, RenderEffect
    <3> QED BY <3>1 DEF Late, Prompt, Under
  <2>3. s \in stored \cup booted => s \in Dropped(w)
    <3>1. s \in stored \cup booted => Left(s)
      BY <2>2 DEF Remembered
    <3> QED BY <2>1, <2>2, <3>1, LanesAssumption DEF Left, Dropped, Under
  <2>4. s \notin stored' /\ s \notin Marks(Dropped(w))
    BY <2>1, <2>3, MarksAfter DEF Marks
  <2>5. s \in Elements(ui'[w].boots)
    BY <2>1, <2>2, <2>4, MountedEffect
  <2> QED BY <2>4, <2>5
<1>2. QED
  BY <1>1, RememberInvariance, PTL DEF Spec, FreshOnReturn

-----------------------------------------------------------------------------
(***************************************************************************)
(* An instance boots once.                                                 *)
(***************************************************************************)

Boot(s) == [kind |-> "boot", scope |-> s]
OnceFor(q, x) == \A i, j \in DOMAIN q : q[i] = x /\ q[j] = x => i = j

\* Of each prompt boot there is one: in a root, in the batch, or it has run.
Once ==
  /\ \A s \in Scopes : Prompt(s) => OnceFor(messages, Boot(s))
  /\ \A w \in Windows : \A s \in Elements(ui[w].boots) :
       Prompt(s) => OnceFor(ui[w].boots, s) /\ Boot(s) \notin Elements(messages)
  /\ \A s \in heard : Prompt(s) => ~AwaitsBoot(s)

LEMMA AbsentOnce ==
  ASSUME NEW q, NEW x, x \notin Elements(q)
  PROVE  OnceFor(q, x)
BY DEF Elements, OnceFor

LEMMA ConcatOnce ==
  ASSUME NEW S, NEW q \in Seq(S), NEW r \in Seq(S), NEW x,
         OnceFor(q, x), OnceFor(r, x), x \notin Elements(q) \/ x \notin Elements(r)
  PROVE  OnceFor(q \o r, x)
<1>1. /\ Len(q) \in Nat /\ DOMAIN q = 1 .. Len(q)
      /\ Len(r) \in Nat /\ DOMAIN r = 1 .. Len(r)
      /\ DOMAIN (q \o r) = 1 .. Len(q) + Len(r)
  BY LenProperties, ConcatProperties
<1>2. /\ \A i \in 1 .. Len(q) : (q \o r)[i] = q[i]
      /\ \A i \in Len(q) + 1 .. Len(q) + Len(r) :
           i - Len(q) \in 1 .. Len(r) /\ (q \o r)[i] = r[i - Len(q)]
  BY <1>1, ConcatProperties
<1> SUFFICES ASSUME NEW i \in DOMAIN (q \o r), NEW j \in DOMAIN (q \o r),
                    (q \o r)[i] = x, (q \o r)[j] = x
             PROVE  i = j
  BY DEF OnceFor
<1>3. CASE i \in 1 .. Len(q) /\ j \in 1 .. Len(q)
  BY <1>1, <1>2, <1>3 DEF OnceFor
<1>4. CASE i \in 1 .. Len(q) /\ j \in Len(q) + 1 .. Len(q) + Len(r)
  BY <1>1, <1>2, <1>4 DEF Elements
<1>5. CASE i \in Len(q) + 1 .. Len(q) + Len(r) /\ j \in 1 .. Len(q)
  BY <1>1, <1>2, <1>5 DEF Elements
<1>6. CASE i \in Len(q) + 1 .. Len(q) + Len(r) /\ j \in Len(q) + 1 .. Len(q) + Len(r)
  <2>1. i - Len(q) = j - Len(q)
    BY <1>1, <1>2, <1>6 DEF OnceFor
  <2> QED BY <1>1, <1>6, <2>1
<1> QED BY <1>1, <1>3, <1>4, <1>5, <1>6

LEMMA RestOnce ==
  ASSUME NEW S, NEW q \in Seq(S), q # <<>>, NEW x, OnceFor(q, x)
  PROVE  OnceFor(Tail(q), x) /\ (Head(q) = x => x \notin Elements(Tail(q)))
<1>1. /\ Tail(q) \in Seq(S)
      /\ \A i \in DOMAIN Tail(q) : i + 1 \in DOMAIN q /\ Tail(q)[i] = q[i + 1]
      /\ Head(q) = q[1] /\ 1 \in DOMAIN q
  BY HeadRest
<1>2. DOMAIN Tail(q) \subseteq Nat \ {0}
  BY <1>1, LenProperties
<1>3. OnceFor(Tail(q), x)
  <2> SUFFICES ASSUME NEW i \in DOMAIN Tail(q), NEW j \in DOMAIN Tail(q),
                      Tail(q)[i] = x, Tail(q)[j] = x
               PROVE  i = j
    BY DEF OnceFor
  <2>1. i + 1 = j + 1
    BY <1>1 DEF OnceFor
  <2> QED BY <1>2, <2>1
<1>4. ASSUME Head(q) = x, NEW i \in DOMAIN Tail(q), Tail(q)[i] = x PROVE FALSE
  <2>1. i + 1 = 1
    BY <1>1, <1>4 DEF OnceFor
  <2> QED BY <1>2, <2>1
<1> QED BY <1>3, <1>4 DEF Elements

\* The boots of a root become messages of the batch, each once.
LEMMA BootsOnceFor ==
  ASSUME NEW q \in Seq(Scopes), NEW s
  PROVE  /\ Boot(s) \in Elements(BootMessages(q)) <=> s \in Elements(q)
         /\ OnceFor(q, s) => OnceFor(BootMessages(q), Boot(s))
<1>1. DOMAIN BootMessages(q) = DOMAIN q
      /\ \A i \in DOMAIN q : BootMessages(q)[i] = Boot(q[i])
  BY DEF BootMessages, Boot
<1>2. \A x : Boot(x) = Boot(s) <=> x = s
  <2>1. \A x : Boot(x).scope = x
    BY DEF Boot
  <2> QED BY <2>1
<1>3. Boot(s) \in Elements(BootMessages(q)) <=> s \in Elements(q)
  BY <1>1, <1>2 DEF Elements
<1>4. OnceFor(q, s) => OnceFor(BootMessages(q), Boot(s))
  BY <1>1, <1>2 DEF OnceFor
<1> QED BY <1>3, <1>4

LEMMA OnceInit == Init => Once
BY NoElements DEF Init, Once, AwaitsBoot, OnceFor

\* Steps that at most move boots from the roots into the batch.
LEMMA OnceMoved ==
  ASSUME TypeOK, Placed, Placed', Once, UNCHANGED <<program, heard>>,
         \A s \in Scopes : Prompt(s) => OnceFor(messages', Boot(s)),
         \A w \in Windows : ui'[w].boots \in {ui[w].boots, <<>>},
         \A s \in Scopes : Boot(s) \in Elements(messages') =>
           \/ Boot(s) \in Elements(messages)
           \/ \E w \in Windows : s \in Elements(ui[w].boots) /\ ui'[w].boots = <<>>
  PROVE  Once'
<1>1. \A s : Prompt(s)' <=> Prompt(s)
  BY DEF Prompt, IsTree
<1>2. \A w \in Windows : Elements(ui'[w].boots) \subseteq Elements(ui[w].boots)
                         /\ Elements(ui[w].boots) \subseteq Scopes
  <2> SUFFICES ASSUME NEW w \in Windows
               PROVE  /\ Elements(ui'[w].boots) \subseteq Elements(ui[w].boots)
                      /\ Elements(ui[w].boots) \subseteq Scopes
    OBVIOUS
  <2>1. ui[w].boots \in Seq(Scopes)
    BY DEF TypeOK
  <2>2. Elements(ui[w].boots) \subseteq Scopes
    BY <2>1, LenProperties, ElementOfSeq DEF Elements
  <2> QED BY <2>2, NoElements
<1>3. ASSUME NEW w \in Windows, NEW s \in Elements(ui'[w].boots), Prompt(s)
      PROVE  OnceFor(ui'[w].boots, s) /\ Boot(s) \notin Elements(messages')
  <2>1. ui'[w].boots = ui[w].boots /\ ui'[w].boots # <<>> /\ s \in Elements(ui[w].boots) /\ s \in Scopes
    BY <1>2, <1>3, NoElements
  <2>2. Home[s] = w /\ \A v \in Windows : s \in Elements(ui[v].boots) => v = w
    BY <1>3, <2>1 DEF Placed, Located
  <2> QED BY <1>3, <2>1, <2>2 DEF Once
<1>4. ASSUME NEW s \in heard, Prompt(s) PROVE ~AwaitsBoot(s)'
  <2>1. ~AwaitsBoot(s) /\ s \in Scopes
    BY <1>4 DEF Once, TypeOK
  <2>2. s \notin Elements(queue')
    BY <1>1, <1>4 DEF Placed, Located
  <2>3. \A w \in Windows : s \notin Elements(ui[w].boots)
    BY <2>1 DEF AwaitsBoot
  <2>4. Boot(s) \notin Elements(messages)
    BY <2>1 DEF AwaitsBoot, Boot
  <2> QED BY <1>2, <2>1, <2>2, <2>3, <2>4 DEF AwaitsBoot, Boot
<1> QED BY <1>1, <1>3, <1>4 DEF Once

LEMMA OnceRender ==
  ASSUME TypeOK, Placed, Placed', Sighted, Once, IsMounted, NEW w \in Windows, Render(w)
  PROVE  Once'
<1>1. MountedView(w) /\ UNCHANGED program /\ busy /\ w \in todo /\ messages' = <<>>
  BY RenderEffect DEF Render, app
<1>2. /\ seen'[w] = AtRoot(w) \cup Late(w)
      /\ \A v \in Windows : v # w => ui'[v] = ui[v]
      /\ heard' \subseteq heard \cap (OnScreen \cup UNION {seen[v] : v \in Windows})
  BY RenderEffect
<1>3. PICK held \in Seq(Scopes), first \in Seq(Scopes) :
        /\ ui'[w].boots = held \o first
        /\ Elements(held) = Elements(queue) \cup IF IsTree THEN Elements(ui[w].boots) ELSE {}
        /\ Elements(ui'[w].boots) = Elements(held) \cup Elements(first)
        /\ Elements(first) = AtRoot(w) \ Marks(Dropped(w))
        /\ \A i, j \in DOMAIN first : first[i] = first[j] => i = j
  BY <1>1, MountedEffect
<1>4. \A s \in Elements(held) : ~Prompt(s)
  BY <1>1, <1>3, NoElements DEF Placed, Located, Alone
<1>5. \A s : Prompt(s)' <=> Prompt(s)
  BY <1>1 DEF Prompt, IsTree
<1>6. Elements(messages') = {}
  BY <1>1, NoElements
<1>7. \A s \in Scopes : OnceFor(messages', Boot(s))
  BY <1>6, AbsentOnce
<1>8. ASSUME NEW v \in Windows, NEW s \in Elements(ui'[v].boots), Prompt(s)
      PROVE  OnceFor(ui'[v].boots, s)
  <2>1. CASE v # w
    BY <1>2, <1>8, <2>1 DEF Once
  <2>2. CASE v = w
    <3>1. s \notin Elements(held)
      BY <1>4, <1>8
    <3>2. OnceFor(held, s) /\ OnceFor(first, s)
      BY <1>3, <3>1, AbsentOnce DEF OnceFor
    <3>3. OnceFor(held \o first, s)
      BY <3>1, <3>2, ConcatOnce
    <3> QED BY <1>3, <2>2, <3>3
  <2> QED BY <2>1, <2>2
<1>9. ASSUME NEW s \in Elements(first) PROVE s \notin heard'
  <2>1. s \in AtRoot(w) /\ (s \notin booted \/ s \in Dropped(w))
    BY <1>3 DEF Marks
  <2>2. \A v \in Windows : s \notin seen[v]
    <3>1. CASE s \notin booted
      BY <3>1 DEF Sighted
    <3>2. CASE s \in Dropped(w)
      <4>1. s \notin seen[Home[s]]
        BY <1>2, <2>1, <3>2, DroppedUnseen
      <4> QED BY <4>1 DEF Placed, Located, Under
    <3> QED BY <2>1, <3>1, <3>2
  <2>3. s \notin OnScreen
    BY <2>2 DEF OnScreen, Placed, Located, TypeOK
  <2> QED BY <1>2, <2>2, <2>3
<1>10. ASSUME NEW s \in heard', Prompt(s) PROVE ~AwaitsBoot(s)'
  <2>1. s \in heard /\ ~AwaitsBoot(s)
    BY <1>2, <1>10 DEF Once
  <2>2. s \notin Elements(queue')
    BY <1>5, <1>10 DEF Placed, Located
  <2>3. \A v \in Windows : s \notin Elements(ui'[v].boots)
    BY <1>2, <1>3, <1>4, <1>9, <1>10, <2>1 DEF AwaitsBoot
  <2> QED BY <1>6, <2>2, <2>3 DEF AwaitsBoot
<1> QED BY <1>5, <1>6, <1>7, <1>8, <1>10 DEF Once

LEMMA OnceInteract ==
  ASSUME TypeOK, Placed, Placed', Once, NEW w \in Windows, Interact(w)
  PROVE  Once'
<1>1. UNCHANGED <<program, heard>> /\ ui' = IF IsTree THEN ui ELSE [ui EXCEPT ![w].boots = <<>>]
  BY DEF Interact, app
<1>2. \A v \in Windows : ui'[v].boots \in {ui[v].boots, <<>>}
  BY <1>1 DEF TypeOK
<1>3. PICK boots \in Seq(Message), more \in Seq(Message) :
        /\ messages' = messages \o boots \o more
        /\ boots = IF IsTree THEN <<>> ELSE BootMessages(ui[w].boots)
        /\ \A n \in Elements(more) :
             n.kind = "app" \/ (n.kind = "event" /\ n.scope \in ui[w].shown)
        /\ Elements(messages') = Elements(messages) \cup Elements(boots) \cup Elements(more)
  BY InteractMessages
<1>4. \A s : Boot(s) \notin Elements(more)
  <2>1. \A s : Boot(s).kind = "boot"
    BY DEF Boot
  <2> QED BY <1>3, <2>1
<1>5. /\ ui[w].boots \in Seq(Scopes) /\ messages \in Seq(Message)
      /\ IsTree => Elements(boots) = {}
      /\ ~IsTree => \A s : Boot(s) \in Elements(boots) <=> s \in Elements(ui[w].boots)
      /\ ~IsTree => ui'[w].boots = <<>>
  BY <1>1, <1>3, NoElements, BootsOnceFor DEF TypeOK
<1>6. ASSUME NEW s \in Scopes, Boot(s) \in Elements(messages')
      PROVE  \/ Boot(s) \in Elements(messages)
             \/ \E v \in Windows : s \in Elements(ui[v].boots) /\ ui'[v].boots = <<>>
  BY <1>3, <1>4, <1>5, <1>6
<1>7. ASSUME NEW s \in Scopes, Prompt(s) PROVE OnceFor(messages', Boot(s))
  <2>1. OnceFor(messages, Boot(s))
    BY <1>7 DEF Once
  <2>2. OnceFor(boots, Boot(s))
    <3>1. CASE Boot(s) \notin Elements(boots)
      BY <3>1, AbsentOnce
    <3>2. CASE Boot(s) \in Elements(boots)
      BY <1>3, <1>5, <1>7, <3>2, BootsOnceFor DEF Once
    <3> QED BY <3>1, <3>2
  <2>3. Boot(s) \in Elements(boots) => Boot(s) \notin Elements(messages)
    BY <1>5, <1>7 DEF Once
  <2>4. PICK mid \in Seq(Message) : mid = messages \o boots
    BY <1>5, ConcatProperties
  <2>5. OnceFor(mid, Boot(s))
    BY <1>5, <2>1, <2>2, <2>3, <2>4, ConcatOnce
  <2>6. OnceFor(more, Boot(s))
    BY <1>4, AbsentOnce
  <2>7. OnceFor(mid \o more, Boot(s))
    BY <1>4, <2>5, <2>6, ConcatOnce
  <2> QED BY <1>3, <2>4, <2>7
<1> QED BY <1>1, <1>2, <1>6, <1>7, OnceMoved

LEMMA OnceStart ==
  ASSUME TypeOK, Placed, Placed', Once,
         \/ \E arrived \in 0 .. Len(channel) : StartBatch(arrived)
         \/ \E w \in Windows : StartTick(w)
  PROVE  Once'
<1>1. ASSUME NEW arrived \in 0 .. Len(channel), StartBatch(arrived) PROVE Once'
  <2>1. UNCHANGED <<program, heard>> /\ messages \in Seq(Message)
    BY <1>1 DEF StartBatch, app, TypeOK
  <2>2. \A v \in Windows : ui'[v].boots \in {ui[v].boots, <<>>}
    BY <1>1 DEF StartBatch, TypeOK
  <2>3. PICK more \in Seq(Message) :
          /\ messages' = messages \o more /\ OnlyLane(more)
          /\ Elements(messages') = Elements(messages) \cup Elements(more)
    BY <1>1, StartMessages
  <2>4. \A s : Boot(s) \notin Elements(more)
    <3>1. \A s : Boot(s).kind = "boot"
      BY DEF Boot
    <3> QED BY <2>3, <3>1 DEF OnlyLane, Elements
  <2>5. \A s \in Scopes : Prompt(s) => OnceFor(messages', Boot(s))
    BY <2>1, <2>3, <2>4, AbsentOnce, ConcatOnce DEF Once
  <2> QED BY <2>1, <2>2, <2>3, <2>4, <2>5, OnceMoved
<1>2. ASSUME NEW w \in Windows, StartTick(w) PROVE Once'
  <2>1. UNCHANGED <<program, heard>> /\ messages \in Seq(Message) /\ ui[w].boots \in Seq(Scopes)
    BY <1>2 DEF StartTick, app, TypeOK
  <2>2. /\ \A v \in Windows : ui'[v].boots \in {ui[v].boots, <<>>}
        /\ ui'[w].boots = <<>>
    BY <1>2 DEF StartTick, TypeOK
  <2>3. PICK boots \in Seq(Message) :
          /\ boots = BootMessages(ui[w].boots)
          /\ messages' = boots \o messages
          /\ Elements(messages') = Elements(messages) \cup Elements(boots)
    BY <1>2, StartMessages
  <2>4. \A s : Boot(s) \in Elements(boots) <=> s \in Elements(ui[w].boots)
    BY <2>1, <2>3, BootsOnceFor
  <2>5. ASSUME NEW s \in Scopes, Prompt(s) PROVE OnceFor(messages', Boot(s))
    <3>1. OnceFor(messages, Boot(s))
      BY <2>5 DEF Once
    <3>2. OnceFor(boots, Boot(s))
      <4>1. CASE Boot(s) \notin Elements(boots)
        BY <4>1, AbsentOnce
      <4>2. CASE Boot(s) \in Elements(boots)
        BY <2>1, <2>3, <2>4, <2>5, <4>2, BootsOnceFor DEF Once
      <4> QED BY <4>1, <4>2
    <3>3. Boot(s) \in Elements(boots) => Boot(s) \notin Elements(messages)
      BY <2>4, <2>5 DEF Once
    <3> QED BY <2>1, <2>3, <3>1, <3>2, <3>3, ConcatOnce
  <2>6. \A s \in Scopes : Boot(s) \in Elements(messages') =>
          \/ Boot(s) \in Elements(messages)
          \/ \E v \in Windows : s \in Elements(ui[v].boots) /\ ui'[v].boots = <<>>
    BY <2>2, <2>3, <2>4
  <2> QED BY <2>1, <2>2, <2>5, <2>6, OnceMoved
<1> QED BY <1>1, <1>2

LEMMA OnceConsume ==
  ASSUME TypeOK, Placed, Placed', Once, Update \/ Settle
  PROVE  Once'
<1>1. PICK m \in Message :
        /\ Receive(m)
        /\ \/ m.kind = "lane" /\ messages' = messages
           \/ messages # <<>> /\ m = Head(messages) /\ messages' = Tail(messages)
              /\ Elements(messages) = {m} \cup Elements(messages')
  BY ConsumeMessages
<1>2. /\ UNCHANGED <<program, queue, ui>> /\ messages \in Seq(Message)
      /\ m.kind = "boot" => heard' = heard \cup {m.scope} /\ m.scope \in Scopes
      /\ m.kind # "boot" => heard' = heard
  BY <1>1, ReceiveStores DEF TypeOK
<1>3. \A s : Prompt(s)' <=> Prompt(s)
  BY <1>2 DEF Prompt, IsTree
<1>4. Elements(messages') \subseteq Elements(messages)
  BY <1>1
<1>5. \A s \in Scopes : Prompt(s) =>
        OnceFor(messages', Boot(s)) /\ (m = Boot(s) => Boot(s) \notin Elements(messages'))
  <2>1. CASE m.kind = "lane" /\ messages' = messages
    BY <2>1 DEF Once, Boot
  <2>2. CASE messages # <<>> /\ m = Head(messages) /\ messages' = Tail(messages)
    BY <1>2, <2>2, RestOnce DEF Once
  <2> QED BY <1>1, <2>1, <2>2
<1>6. ASSUME NEW s \in heard', Prompt(s) PROVE ~AwaitsBoot(s)'
  <2>1. CASE s \in heard
    BY <1>2, <1>4, <1>6, <2>1 DEF Once, AwaitsBoot
  <2>2. CASE s \notin heard
    <3>1. m.kind = "boot" /\ s = m.scope /\ s \in Scopes
      BY <1>2, <1>6, <2>2
    <3>2. m = Boot(s)
      BY <3>1 DEF Message, Output, Boot
    <3>3. Boot(s) \in Elements(messages) /\ Boot(s) \notin Elements(messages')
      BY <1>1, <1>5, <1>6, <3>1, <3>2
    <3>4. \A w \in Windows : s \notin Elements(ui[w].boots)
      BY <1>6, <3>3 DEF Once
    <3>5. s \notin Elements(queue)
      BY <1>6 DEF Placed, Located
    <3> QED BY <1>2, <3>3, <3>4, <3>5 DEF AwaitsBoot, Boot
  <2> QED BY <2>1, <2>2
<1> QED BY <1>2, <1>3, <1>4, <1>5, <1>6 DEF Once

LEMMA OnceStep ==
  TypeOK /\ Placed /\ Sighted /\ Once /\ [Next]_vars => Once'
<1> SUFFICES ASSUME TypeOK, Placed, Placed', Sighted, Once, [Next]_vars PROVE Once'
  BY PlacedStep
<1>1. ASSUME UNCHANGED <<program, heard, messages>>,
             \A v \in Windows : ui'[v].boots \in {ui[v].boots, <<>>}
      PROVE  Once'
  BY <1>1, OnceMoved DEF Once
<1>2. ASSUME NEW w \in Windows, Render(w) PROVE Once'
  <2>1. CASE IsMounted
    BY <1>2, <2>1, OnceRender
  <2>2. CASE ~IsMounted
    <3>1. /\ UNCHANGED <<program, messages, queue>> /\ heard' \subseteq heard
          /\ \A v \in Windows : ui'[v].boots = ui[v].boots
      <4>1. UNCHANGED <<program, messages>> /\ heard' \subseteq heard
        BY <1>2, RenderEffect DEF app
      <4>2. RetainedView(w)
        BY <1>2, <2>2 DEF Render
      <4> QED BY <4>1, <4>2 DEF RetainedView, TypeOK
    <3> QED BY <3>1 DEF Once, AwaitsBoot, Prompt, IsTree
  <2> QED BY <2>1, <2>2
<1>3. ASSUME NEW w \in Windows, Relayout(w) PROVE Once'
  BY <1>1, <1>3, RelayoutEffect DEF app, loop
<1>4. ASSUME NEW w \in Windows, Open(w) PROVE Once'
  BY <1>1, <1>4 DEF Open, app
<1>5. ASSUME NEW w \in Windows, Close(w) PROVE Once'
  BY <1>1, <1>5 DEF Close, app, loop, TypeOK
<1>6. ASSUME NEW w \in Windows, Interact(w) PROVE Once'
  BY <1>6, OnceInteract
<1>7. ASSUME NEW w \in Windows, StartTick(w) PROVE Once'
  BY <1>7, OnceStart
<1>8. ASSUME NEW arrived \in 0 .. Len(channel), StartBatch(arrived) PROVE Once'
  BY <1>8, OnceStart
<1>9. CASE Update \/ Settle
  BY <1>9, OnceConsume
<1>10. ASSUME NEW t \in tasks, NEW last \in BOOLEAN, Yield(t, last) PROVE Once'
  BY <1>1, <1>10 DEF Yield, app, loop
<1>11. CASE UNCHANGED vars
  BY <1>1, <1>11 DEF vars, app, loop
<1> QED BY <1>2, <1>3, <1>4, <1>5, <1>6, <1>7, <1>8, <1>9, <1>10, <1>11 DEF Next

\* While views keep showing an instance, its boot runs at most once: it waits
\* in one root or is in the batch once, and not at all when it has run.
THEOREM BootsAtMostOnce == Spec => []BootsOnce
<1>1. Once => BootsOnce
  BY DEF Once, BootsOnce
<1>2. TypeOK /\ Placed /\ Sighted /\ Once /\ [Next]_vars => Once'
  BY OnceStep
<1> QED BY <1>1, <1>2, OnceInit, PlaceInvariance, PTL DEF Spec

-----------------------------------------------------------------------------
(***************************************************************************)
(* In a guest every instance boots.                                        *)
(***************************************************************************)

\* Each mark is that of an instance on screen, which booted or is about to.
Reached ==
  IsTree /\ IsMounted =>
    /\ booted \subseteq OnScreen
    /\ \A s \in OnScreen : s \in heard \/ AwaitsBoot(s)

LEMMA ReachedInit == Init => Reached
BY DEF Init, Reached, OnScreen

\* What a guest shows is what its one window shows.
LEMMA OneScreen ==
  ASSUME TypeOK, Placed, IsTree, NEW w \in open
  PROVE  OnScreen = ui[w].shown
BY DEF TypeOK, Placed, Alone, OnScreen

\* Steps that lose no boot but one that runs.
LEMMA ReachedQuiet ==
  ASSUME Reached, UNCHANGED <<program, open, booted, queue>>,
         \A w \in Windows : ui'[w].shown = ui[w].shown,
         open \subseteq Windows, heard \subseteq heard',
         \A s : Boot(s) \in Elements(messages) => Boot(s) \in Elements(messages') \/ s \in heard',
         \A w \in Windows : \A s \in Elements(ui[w].boots) :
           s \in Elements(ui'[w].boots) \/ Boot(s) \in Elements(messages')
  PROVE  Reached'
<1>1. OnScreen' = OnScreen
  BY DEF OnScreen
<1>2. \A s : AwaitsBoot(s) => AwaitsBoot(s)' \/ s \in heard'
  BY DEF AwaitsBoot, Boot
<1> QED BY <1>1, <1>2 DEF Reached, IsTree, IsMounted

LEMMA ReachedRender ==
  ASSUME TypeOK, Placed, Placed', Sighted, Reached, IsTree, IsMounted,
         NEW w \in Windows, Render(w)
  PROVE  Reached'
<1>1. /\ MountedView(w) /\ UNCHANGED <<program, open>> /\ busy /\ messages = <<>>
      /\ w \in todo /\ todo \subseteq open
  BY RenderEffect DEF Render, app, windows, Placed, Alone
<1>2. /\ Late(w) = {} /\ w \in open
      /\ OnScreen = ui[w].shown /\ OnScreen' = ui'[w].shown
      /\ ui'[w].shown = AtRoot(w) \cup Late(w)
  <2>1. TypeOK'
    BY RenderType
  <2>2. IsTree' /\ w \in open' /\ w \in open
    BY <1>1 DEF IsTree
  <2>3. OnScreen = ui[w].shown
    BY <2>2, OneScreen
  <2>4. OnScreen' = ui'[w].shown
    BY <2>1, <2>2 DEF TypeOK, Placed, Alone, OnScreen
  <2> QED BY <2>2, <2>3, <2>4, RenderEffect DEF Late
<1>3. booted' \subseteq OnScreen'
  <2>1. booted' = (booted \ Dropped(w)) \cup AtRoot(w) \cup Late(w)
    BY <1>1, MarksAfter
  <2>2. booted \subseteq Under(w)
    BY <1>2 DEF Reached, Placed, Located
  <2>3. booted \ Dropped(w) \subseteq AtRoot(w)
    BY <2>2 DEF Dropped
  <2> QED BY <1>2, <2>1, <2>3
<1>4. ASSUME NEW s \in OnScreen' PROVE s \in heard' \/ AwaitsBoot(s)'
  <2>1. s \in AtRoot(w)
    BY <1>2
  <2>2. CASE s \notin Marks(Dropped(w))
    <3>1. s \in Elements(ui'[w].boots)
      BY <1>1, <2>1, <2>2, MountedEffect
    <3> QED BY <3>1 DEF AwaitsBoot
  <2>3. CASE s \in Marks(Dropped(w))
    <3>1. s \in OnScreen /\ (s \in heard \/ AwaitsBoot(s))
      BY <2>3 DEF Marks, Reached
    <3>2. s \in heard => s \in heard'
      BY <3>1, RenderEffect
    <3>3. AwaitsBoot(s) => s \in Elements(queue)
      <4>1. \A v \in Windows : Elements(ui[v].boots) = {}
        BY <1>1, NoElements DEF Placed, Alone
      <4>2. Elements(messages) = {}
        BY <1>1, NoElements
      <4> QED BY <4>1, <4>2 DEF AwaitsBoot
    <3>4. s \in Elements(queue) => s \in Elements(ui'[w].boots)
      BY <1>1, MountedEffect
    <3> QED BY <3>1, <3>2, <3>3, <3>4 DEF AwaitsBoot
  <2> QED BY <2>2, <2>3
<1> QED BY <1>3, <1>4 DEF Reached

LEMMA ReachedStep ==
  TypeOK /\ Placed /\ Sighted /\ Reached /\ [Next]_vars => Reached'
<1> SUFFICES ASSUME TypeOK, Placed, Placed', Sighted, Reached, [Next]_vars PROVE Reached'
  BY PlacedStep
<1>1. program' = program
  BY DEF Next, Render, Relayout, Open, Close, Interact, StartTick, StartBatch, Settle,
         Update, Receive, Yield, vars, app
<1> SUFFICES ASSUME IsTree, IsMounted PROVE Reached'
  BY <1>1 DEF Reached, IsTree, IsMounted
<1>2. open \subseteq Windows
  BY DEF TypeOK
<1>3. ASSUME NEW w \in Windows, Render(w) PROVE Reached'
  BY <1>3, ReachedRender
<1>4. ASSUME NEW w \in Windows, Open(w) PROVE Reached'
  <2>1. /\ open = {} /\ open' = {w} /\ UNCHANGED <<booted, ui, program>>
    BY <1>4 DEF Open, app, mounted, TypeOK
  <2>2. booted = {}
    BY <2>1 DEF Reached, OnScreen
  <2>3. ui[w].shown = {}
    BY <2>2 DEF Placed, Located, Sighted
  <2>4. OnScreen' = {}
    BY <2>1, <2>3 DEF OnScreen
  <2> QED BY <2>1, <2>2, <2>4 DEF Reached
<1>5. ASSUME NEW w \in Windows, Relayout(w) \/ Close(w) PROVE FALSE
  BY <1>5 DEF Relayout, Close
<1>6. ASSUME NEW arrived \in 0 .. Len(channel), StartBatch(arrived) PROVE FALSE
  BY <1>6 DEF StartBatch
<1>7. ASSUME NEW w \in Windows, Interact(w) PROVE Reached'
  <2>1. UNCHANGED <<program, open, booted, queue, ui, heard>>
    BY <1>7 DEF Interact, app, windows, mounted
  <2>2. Elements(messages) \subseteq Elements(messages')
    BY <1>7, InteractMessages
  <2> QED BY <1>2, <2>1, <2>2, ReachedQuiet
<1>8. ASSUME NEW w \in Windows, StartTick(w) PROVE Reached'
  <2>1. UNCHANGED <<program, open, booted, queue, heard>>
    BY <1>8 DEF StartTick, app, windows, mounted
  <2>2. /\ \A v \in Windows : ui'[v].shown = ui[v].shown
        /\ \A v \in Windows : v # w => ui'[v].boots = ui[v].boots
    BY <1>8 DEF StartTick, TypeOK
  <2>3. PICK boots \in Seq(Message) :
          /\ boots = BootMessages(ui[w].boots)
          /\ Elements(messages') = Elements(messages) \cup Elements(boots)
    BY <1>8, StartMessages
  <2>4. \A s \in Elements(ui[w].boots) : Boot(s) \in Elements(boots)
    BY <2>3, BootsOnceFor DEF TypeOK
  <2> QED BY <1>2, <2>1, <2>2, <2>3, <2>4, ReachedQuiet
<1>9. CASE Update \/ Settle
  <2>1. PICK m \in Message :
          /\ Receive(m)
          /\ \/ m.kind = "lane" /\ messages' = messages
             \/ Elements(messages) = {m} \cup Elements(messages')
    BY <1>9, ConsumeMessages
  <2>2. UNCHANGED <<program, open, booted, queue, ui>> /\ heard \subseteq heard'
        /\ (m.kind = "boot" => m.scope \in heard')
    BY <2>1, ReceiveStores DEF windows
  <2>3. \A s : Boot(s).kind = "boot" /\ Boot(s).scope = s
    BY DEF Boot
  <2>4. \A s : Boot(s) \in Elements(messages) => Boot(s) \in Elements(messages') \/ s \in heard'
    BY <2>1, <2>2, <2>3
  <2> QED BY <1>2, <2>2, <2>4, ReachedQuiet
<1>10. ASSUME NEW t \in tasks, NEW last \in BOOLEAN, Yield(t, last) PROVE Reached'
  BY <1>2, <1>10, ReachedQuiet DEF Yield, app, windows, mounted, loop
<1>11. CASE UNCHANGED vars
  BY <1>2, <1>11, ReachedQuiet DEF vars, app, windows, mounted, loop
<1> QED BY <1>3, <1>4, <1>5, <1>6, <1>7, <1>8, <1>9, <1>10, <1>11 DEF Next

LEMMA ReachInvariance == Spec => []Reached
<1>1. TypeOK /\ Placed /\ Sighted /\ Reached /\ [Next]_vars => Reached'
  BY ReachedStep
<1> QED BY <1>1, ReachedInit, PlaceInvariance, PTL DEF Spec

\* In a guest the boot of an instance on screen has run, or waits where the
\* next view or the next tick takes it.  A native app can lose one.
THEOREM GuestBoots == Spec => []BootReachesGuest
<1>1. Reached => BootReachesGuest
  BY DEF Reached, BootReachesGuest, BootReaches, IsTree
<1> QED BY <1>1, ReachInvariance, PTL

-----------------------------------------------------------------------------
(***************************************************************************)
(* Abandoned work stops.                                                   *)
(***************************************************************************)

\* A lane that aborts holds the handle of its newest call, and only that runs.
Held ==
  Aborts =>
    /\ \A s \in Scopes : handle[s] = current[s]
    /\ \A t \in tasks : current[t.scope] = t.run

LEMMA HeldInit == Init => Held
BY DEF Init, Held

\* An aborted entry's task was its newest call.
LEMMA HeldPrune ==
  ASSUME TypeOK, Held, NEW gone \in SUBSET Scopes, Prune(gone), program' = program
  PROVE  Held'
<1> SUFFICES ASSUME Aborts PROVE Held'
  BY DEF Held, Aborts
<1>1. ASSUME NEW s \in Scopes PROVE handle'[s] = current'[s]
  BY DEF Prune, Held
<1>2. ASSUME NEW t \in tasks' PROVE current'[t.scope] = t.run
  <2>1. t \in tasks /\ t.scope \in Scopes /\ handle[t.scope] = t.run
    BY DEF Prune, TypeOK, Task, Held
  <2>2. t.scope \notin gone
    BY <2>1 DEF Prune, Aborted
  <2> QED BY <2>1, <2>2 DEF Prune, Held
<1> QED BY <1>1, <1>2 DEF Held

\* A handler finds the handle of the newest call, or none where its output,
\* the last one, is being handled and no task of the lane runs.
LEMMA HeldHandle ==
  ASSUME TypeOK, Held, NEW s \in Scopes, NEW due, NEW answered \in BOOLEAN,
         Aborts, program' = program,
         IF answered THEN due = None /\ \A t \in tasks : t.scope # s ELSE due = handle[s],
         Run(s, due) \/ Invalidate(s, due) \/ Plain(s, due, answered)
  PROVE  Held'
<1>1. ASSUME NEW t \in tasks, t.scope = s, t \notin Stopped(s, due) PROVE FALSE
  BY <1>1 DEF Stopped, Held
<1>2. \A t \in tasks : t.scope \in Scopes /\ current[t.scope] = t.run
  BY DEF TypeOK, Task, Held
<1>3. CASE Run(s, due)
  <2>1. /\ handle' = [handle EXCEPT ![s] = runs + 1]
        /\ current' = [current EXCEPT ![s] = runs + 1]
        /\ tasks' = (tasks \ Stopped(s, due))
                      \cup {[scope |-> s, gen |-> NextGeneration(s), run |-> runs + 1]}
    BY <1>3 DEF Run
  <2>2. \A r \in Scopes : handle'[r] = current'[r]
    BY <2>1 DEF TypeOK, Held
  <2>3. \A t \in tasks \ Stopped(s, due) : t.scope # s /\ current'[t.scope] = t.run
    BY <1>1, <1>2, <2>1
  <2>4. current'[s] = runs + 1
    BY <2>1 DEF TypeOK
  <2> QED BY <2>1, <2>2, <2>3, <2>4 DEF Held
<1>4. CASE Invalidate(s, due)
  <2>1. /\ handle' = [handle EXCEPT ![s] = None] /\ current' = [current EXCEPT ![s] = None]
        /\ tasks' = tasks \ Stopped(s, due)
    BY <1>4 DEF Invalidate
  <2>2. \A r \in Scopes : handle'[r] = current'[r]
    BY <2>1 DEF TypeOK, Held
  <2> QED BY <1>1, <1>2, <2>1, <2>2 DEF Held
<1>5. CASE Plain(s, due, answered)
  <2>1. /\ handle' = [handle EXCEPT ![s] = due] /\ tasks' = tasks
        /\ current' = IF answered THEN [current EXCEPT ![s] = None] ELSE current
    BY <1>5 DEF Plain
  <2>2. CASE answered
    BY <1>2, <2>1, <2>2 DEF TypeOK, Held
  <2>3. CASE ~answered
    BY <1>2, <2>1, <2>3 DEF TypeOK, Held
  <2> QED BY <2>2, <2>3
<1> QED BY <1>3, <1>4, <1>5

LEMMA HeldReceive ==
  ASSUME TypeOK, LaneInv, Held, NEW m \in Message, Receive(m),
         m.kind = "lane" => m \in Outputs
  PROVE  Held'
<1>1. program' = program
  BY DEF Receive
<1> SUFFICES ASSUME Aborts PROVE Held'
  BY <1>1 DEF Held, Aborts
<1>2. CASE m.kind = "app"
  BY <1>1, <1>2 DEF Receive, store, Held
<1>3. CASE m.kind \in {"event", "boot"}
  <2>1. m.scope \in Scopes /\ Handle(m.scope, handle[m.scope], FALSE)
    BY <1>3 DEF Message, Output, Receive
  <2> QED BY <1>1, <2>1, HeldHandle DEF Handle
<1>4. CASE m.kind = "lane"
  <2>1. m \in Output /\ m \in Outputs /\ Deliver(m)
    BY <1>4 DEF Message, Receive
  <2>2. m.scope \in Scopes /\ m.last \in BOOLEAN
    BY <2>1 DEF Output
  <2>3. CASE ~Passes(m)
    BY <1>1, <2>1, <2>3 DEF Deliver, store, Held
  <2>4. CASE Passes(m)
    <3> DEFINE due == IF m.last THEN None ELSE handle[m.scope]
    <3>1. current[m.scope] = m.run
      BY <2>1, <2>4 DEF LaneInv, GateIsExact
    <3>2. m.last => \A t \in tasks : t.scope # m.scope
      BY <2>1, <3>1 DEF LaneInv, Finished, Held
    <3>3. Run(m.scope, due) \/ Invalidate(m.scope, due) \/ Plain(m.scope, due, m.last)
      BY <2>1, <2>4 DEF Deliver, Handle
    <3>4. IF m.last THEN due = None /\ \A t \in tasks : t.scope # m.scope
                    ELSE due = handle[m.scope]
      BY <3>2
    <3> HIDE DEF due
    <3> QED BY <1>1, <2>2, <3>3, <3>4, HeldHandle
  <2> QED BY <2>3, <2>4
<1> QED BY <1>2, <1>3, <1>4 DEF Message, Output

LEMMA HeldStep == TypeOK /\ IInv /\ Held /\ [Next]_vars => Held'
<1> SUFFICES ASSUME TypeOK, IInv, Held, [Next]_vars PROVE Held'
  OBVIOUS
<1>1. ASSUME UNCHANGED <<program, handle, current>>, tasks' \subseteq tasks PROVE Held'
  BY <1>1 DEF Held, Aborts
<1>2. ASSUME NEW w \in Windows, Render(w) PROVE Held'
  <2>1. program' = program
    BY <1>2 DEF Render, app
  <2>2. CASE MountedView(w)
    <3>1. Prune(Dropped(w)) /\ Dropped(w) \in SUBSET Scopes
      BY <2>2 DEF MountedView, Dropped, Under
    <3> QED BY <2>1, <3>1, HeldPrune
  <2>3. CASE RetainedView(w)
    BY <1>1, <2>1, <2>3 DEF RetainedView, store
  <2> QED BY <1>2, <2>2, <2>3 DEF Render
<1>3. ASSUME NEW w \in Windows,
             Relayout(w) \/ Open(w) \/ Close(w) \/ Interact(w) \/ StartTick(w)
      PROVE  Held'
  BY <1>1, <1>3 DEF Relayout, Open, Close, Interact, StartTick, app, store, work
<1>4. ASSUME NEW arrived \in 0 .. Len(channel), StartBatch(arrived) PROVE Held'
  BY <1>1, <1>4 DEF StartBatch, app, store
<1>5. CASE Update
  <2>1. messages \in Seq(Message) /\ messages # <<>> /\ Receive(Head(messages))
    BY <1>5 DEF Update, TypeOK
  <2>2. Head(messages) \in Message /\ Head(messages) \in Elements(messages)
    BY <2>1, HeadRest
  <2> QED BY <2>1, <2>2, HeldReceive DEF Outputs, IInv
<1>6. CASE Settle
  <2>1. channel \in Seq(Output) /\ channel # <<>> /\ Receive(Head(channel))
    BY <1>6 DEF Settle, TypeOK
  <2>2. Head(channel) \in Output /\ Head(channel) \in Elements(channel)
    BY <2>1, HeadRest
  <2> QED BY <2>1, <2>2, HeldReceive DEF Outputs, Message, IInv
<1>7. ASSUME NEW t \in tasks, NEW last \in BOOLEAN, Yield(t, last) PROVE Held'
  BY <1>1, <1>7 DEF Yield, app, store
<1>8. CASE UNCHANGED vars
  BY <1>1, <1>8 DEF vars, app, store, work
<1> QED BY <1>2, <1>3, <1>4, <1>5, <1>6, <1>7, <1>8 DEF Next

\* With `replace` and `stream replace` only the newest call of a lane works
\* on, held by its handle; and in a guest only for an instance on screen: the
\* task's entry is there, so the instance is sighted, has its mark, and shows.
THEOREM WorkStops == Spec => []AbandonedWorkStops
<1>1. Init => IInv /\ Held
  BY GateInit, HeldInit
<1>2. TypeOK /\ IInv /\ Held /\ [Next]_vars => IInv' /\ Held'
  BY GateStep, HeldStep
<1>3. TypeOK /\ Sighted /\ Remembered /\ Reached /\ IInv /\ Held => AbandonedWorkStops
  <2> SUFFICES ASSUME TypeOK, Sighted, Remembered, Reached, IInv, Held, Aborts,
                      NEW t \in tasks
               PROVE  /\ handle[t.scope] = t.run
                      /\ IsTree /\ IsMounted => t.scope \in OnScreen
    BY DEF AbandonedWorkStops
  <2>1. t.scope \in Scopes /\ current[t.scope] = t.run /\ handle[t.scope] = t.run
    BY DEF TypeOK, Task, Held
  <2>2. t.scope \in stored
    BY <2>1 DEF IInv, LaneInv, GateIsExact, Passes
  <2>3. ASSUME IsTree, IsMounted PROVE t.scope \in OnScreen
    <3>1. t.scope \in seen[Home[t.scope]] /\ Home[t.scope] \in Windows
      BY <2>1, <2>2, <2>3, LanesAssumption DEF Remembered, Left, Prompt
    <3> QED BY <2>3, <3>1 DEF Sighted, Reached
  <2> QED BY <2>1, <2>3
<1> QED BY <1>1, <1>2, <1>3, RememberInvariance, ReachInvariance, PTL DEF Spec
=============================================================================
